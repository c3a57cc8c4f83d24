---------------------------- MODULE TLSHandshake ----------------------------
(***************************************************************************)
(* A client and a server of this library on the two ends of a reliable     *)
(* transport (SSL_connect on one side, SSL_accept on the other), each with *)
(* one of the settings it may have been given.                             *)
(***************************************************************************)
EXTENDS StatemSrvr

CONSTANT Settings     \* the pairs of client and server options considered

ASSUME SettingsAssumption == Settings \subseteq [client : Options, server : Options]

VARIABLES client, server, toServer, toClient
vars == <<client, server, toServer, toClient>>

C == INSTANCE Statem WITH s <- client, in <- toClient, out <- toServer
S == INSTANCE Statem WITH s <- server, in <- toServer, out <- toClient

Init ==
  /\ \E o \in Settings : /\ client = ossl_statem_clear(FALSE, o.client)
                         /\ server = ossl_statem_clear(TRUE, o.server)
  /\ toServer = <<>>
  /\ toClient = <<>>

ClientStep == C!EndpointNext /\ UNCHANGED server
ServerStep == S!EndpointNext /\ UNCHANGED client

\* The handshake has succeeded or failed on an endpoint that has read
\* everything it will read.
Over(t, in) == t.state = "ERROR" \/ (t.state = "FINISHED" /\ in = <<>>)

Terminated ==
  /\ Over(client, toClient) /\ Over(server, toServer)
  /\ UNCHANGED vars

Next == ClientStep \/ ServerStep \/ Terminated

\* Each endpoint keeps being called until its handshake is over.
Fairness == WF_vars(ClientStep) /\ WF_vars(ServerStep)

Spec == Init /\ [][Next]_vars /\ Fairness

-----------------------------------------------------------------------------
(* What the settings of the two sides entitle them to *)

Usable == client.opt.versions \cap server.opt.versions
BestVersion == IF "TLS1_3" \in Usable THEN "TLS1_3" ELSE "TLS1_2"
Common == Usable # {} /\ (BestVersion = "TLS1_2" => client.opt.cipher = server.opt.cipher)
Suite == IF BestVersion = "TLS1_3" THEN "TLS13" ELSE client.opt.cipher
Resumable == client.opt.session = BestVersion /\ server.opt.session = BestVersion

\* The client refuses a certificate request that comes with an anonymous
\* suite, which is what a server that insists on a certificate sends.
RequestRefused == Suite = "ANON" /\ server.opt.verify = "FAIL"

ServerAcceptable ==
  Resumable \/ Suite \in {"ANON", "PSK", "DHEPSK"} \/ client.opt.verify = "NONE"
    \/ server.opt.cert = "TRUSTED"

ClientAcceptable ==
  \/ Resumable \/ Suite \in {"ANON", "PSK", "DHEPSK"} \/ server.opt.verify = "NONE"
  \/ client.opt.cert = "TRUSTED"
  \/ client.opt.cert = "NONE" /\ server.opt.verify = "PEER"

Acceptable == Common /\ ServerAcceptable /\ ClientAcceptable /\ (RequestRefused => Resumable)

-----------------------------------------------------------------------------
(* Properties *)

Established(t) == t.hand_state = "OK"

\* Both SSL objects and what is in flight keep their types (ssl_local.h).
TypeOK ==
  /\ client \in SSL /\ server \in SSL
  /\ toServer \in Seq(Records) /\ toClient \in Seq(Records)

\* The two state machines never get out of step: whatever the interleaving of
\* flights, key changes, tickets and alerts, no endpoint meets a record it
\* cannot decrypt, a message it does not expect or an internal error.  All
\* that fails a handshake is a setting the two sides do not share.
NoDesync ==
  \A t \in {client, server} :
    CASE t.reason = "UNSUPPORTED_PROTOCOL" -> Usable = {}
      [] t.reason = "BAD_CIPHER" -> ~Common
      [] t.reason = "UNEXPECTED_MESSAGE" -> RequestRefused
      [] t.reason = "VERIFY_FAILED" -> ~(IF t.server THEN ClientAcceptable ELSE ServerAcceptable)
      [] t.reason = "NO_PEER_CERTIFICATE" -> t.server /\ ~ClientAcceptable
      [] OTHER -> t.reason \in {"NONE", "ALERT_RECEIVED"}

\* When both sides have completed they agree on version, resumption, suite and
\* transcript, and each reads with the key the other writes with.
Agreement ==
  Established(client) /\ Established(server) =>
    /\ client.version = server.version
    /\ client.hit = server.hit
    /\ client.new_cipher = server.new_cipher
    /\ client.transcript = server.transcript
    /\ client.enc_write = server.enc_read
    /\ client.enc_read = server.enc_write

\* A side completes only on the best version both enabled and with a peer whose
\* credentials its verify mode accepts.  (A TLSv1.3 client completes before the
\* server has looked at the client's certificate, so each side vouches only for
\* its own check.)
OnlyAcceptable ==
  /\ Established(client) => client.version = BestVersion /\ ServerAcceptable
  /\ Established(server) => server.version = BestVersion /\ ClientAcceptable

\* When one side fails the other one learns of it: the alert reaches a state in
\* which it can be read, whatever keys the two sides have by then.
FailureReachesBoth ==
  (client.state = "ERROR" \/ server.state = "ERROR")
    ~> (client.state = "ERROR" /\ server.state = "ERROR")

\* Two endpoints with acceptable settings connect: both end up finished, with
\* every post-handshake ticket read, and stay so.
Completes ==
  Acceptable => <>[](client.state = "FINISHED" /\ server.state = "FINISHED")

=============================================================================
