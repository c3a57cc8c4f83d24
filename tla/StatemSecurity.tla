--------------------------- MODULE StatemSecurity ---------------------------
(***************************************************************************)
(* What an endpoint can rely on when its handshake is over, whatever its   *)
(* peer did: the peer proved who it is, both directions are protected by   *)
(* keys of the last epoch, and on the way there no version, key or retry   *)
(* was taken back.  None of this is inductive.  The invariant follows the  *)
(* handshake state by state: what has been hashed, which keys are in use   *)
(* and which certificates are still owed.                                  *)
(***************************************************************************)
EXTENDS StatemTypes

-----------------------------------------------------------------------------
(* The inductive invariant *)

\* The type of the message read or sent in a state, where it matters below.
Carries(h) ==
  CASE h \in {"SR_CLNT_HELLO", "CW_CLNT_HELLO"} -> "CLIENT_HELLO"
    [] h \in {"SR_CERT", "CR_CERT"} -> "CERTIFICATE"
    [] h \in {"SR_CERT_VRFY", "CR_CERT_VRFY"} -> "CERTIFICATE_VERIFY"
    [] h = "CR_KEY_EXCH" -> "SERVER_KEY_EXCHANGE"
    [] h = "CW_KEY_EXCH" -> "CLIENT_KEY_EXCHANGE"
    [] h = "SW_SRVR_DONE" -> "SERVER_DONE"
    [] h = "SW_FINISHED" -> "FINISHED"
    [] OTHER -> "ANY"

\* The message in hand is the one the state is about, with a body the peer can
\* send; and something has been hashed once the first hello is.
Flow(t) ==
  LET h == t.hand_state
  IN  /\ t.sub \in {"BODY", "SEND"} /\ Carries(h) # "ANY" => t.init_msg.mt = Carries(h)
      /\ t.sub = "BODY" => t.init_msg.flags \in FlagsOf(t.init_msg.mt)
      /\ t.sub = "SEND" /\ h = "CW_KEY_EXCH" => t.init_msg.flags = {}
      /\ \/ h = "BEFORE"
         \/ h = "CW_CLNT_HELLO" /\ t.sub \in {"PRE_WORK", "SEND"}
         \/ h = "SR_CLNT_HELLO" /\ t.sub = "BODY"
         \/ t.transcript # <<>>

Pending(t) == t.hello_retry_request = "PENDING"

\* Before a version is chosen there are no keys, and a client that writes again
\* answers a HelloRetryRequest.
Early(t) ==
  LET h == t.hand_state
  IN  t.version = "ANY" =>
        /\ t.enc_read = PlainKey /\ t.enc_write = PlainKey
        /\ t.server => /\ h \in {"BEFORE", "SR_CLNT_HELLO"} /\ t.hello_retry_request = "NONE"
                       /\ ~t.peer /\ ~t.plain_alerts
                       /\ h = "SR_CLNT_HELLO" => t.state = "READING"
        /\ ~t.server => /\ h \in {"BEFORE", "CW_CLNT_HELLO", "CR_SRVR_HELLO", "CW_CHANGE"}
                        /\ h = "CW_CHANGE" => Pending(t)
                        /\ h = "CR_SRVR_HELLO" =>
                             \/ t.state = "READING" /\ t.sub = "BODY"
                             \/ t.state = "WRITING" /\ Pending(t)

\* How far the proof of ClientProof, and of ServerShown, has come: the server's
\* flight is out, a trusted chain came after it; a trusted chain came.
Opened(tr) == \E i \in DOMAIN tr : tr[i].mt \in {"SERVER_DONE", "FINISHED"}
ChainAfter(tr) ==
  \E i, j \in DOMAIN tr : tr[i].mt \in {"SERVER_DONE", "FINISHED"} /\ i < j /\ tr[j] = TrustedChain
ChainSeen(tr) == \E j \in DOMAIN tr : tr[j] = TrustedChain

\* A trusted chain came, and the key that goes with it was used.
ServerShown(t) ==
  Follows(t.transcript, 0, TrustedChain,
          CASE SSL_IS_TLS13(t) -> Signature("CERTIFICATE_VERIFY")
            [] t.new_cipher = "DHE" -> Signature("SERVER_KEY_EXCHANGE")
            [] OTHER -> Elem("CLIENT_KEY_EXCHANGE", {}))

\* A server that must have a certificate; one that must have, or reports, one;
\* and a client that must have one.
Demands(t) == t.opt.verify = "FAIL" /\ ~aPSK(t)
Owed(t) == t.peer \/ Demands(t)
Asks(t) == VerifyPeer(t) /\ t.new_cipher \in {"RSA", "DHE", "RSAPSK", "TLS13"}

\* A server of either version: a certificate is reported only after it was
\* requested and came, trusted, behind the server's flight, and a Finished is
\* read only when nothing is owed.
Server(t) ==
  LET h == t.hand_state
  IN  t.server =>
        /\ t.peer => t.cert_request /\ ChainAfter(t.transcript)
        /\ Pending(t) \/ h = "SR_CLNT_HELLO" => ~t.peer
        /\ h = "SR_CERT" => t.cert_request /\ Opened(t.transcript)
        /\ h = "SR_CERT" /\ t.sub # "BODY" => (Demands(t) => t.peer)
        /\ h = "SR_CERT_VRFY" => t.peer
        /\ h = "SR_CERT_VRFY" /\ t.sub # "BODY" => ClientProof(t.transcript)
        /\ h = "SW_CERT_REQ" /\ t.sub # "PRE_WORK" => t.cert_request
        /\ h \in {"SR_FINISHED", "OK"} /\ ~t.hit /\ Owed(t) => ClientProof(t.transcript)

\* A TLSv1.2 server: where there is a master secret, where each direction has
\* its key (in an abbreviated handshake it writes first), and who owes what.
Server12(t) ==
  LET h == t.hand_state
  IN  t.server /\ t.version = "TLS1_2" =>
        /\ t.hello_retry_request = "NONE" /\ ~t.plain_alerts /\ h # "BEFORE"
        /\ h = "SR_CLNT_HELLO" => t.state = "WRITING"
        /\ h = "SW_FINISHED" /\ t.state = "READING" => t.hit
        /\ h \in {"SW_CERT", "SW_CERT_STATUS", "SW_KEY_EXCH", "SW_CERT_REQ", "SW_SRVR_DONE",
                  "SR_CERT", "SR_KEY_EXCH", "SR_CERT_VRFY"} => ~t.hit
        /\ (\/ t.hit \/ h \in {"SR_FINISHED", "SW_SESSION_TICKET", "SW_CHANGE"}
            \/ h = "SR_CHANGE" /\ t.sub # "BODY")
             => t.master_key # <<>>
        /\ (\/ h \in {"SR_FINISHED", "OK"}
            \/ h = "SR_CHANGE" /\ t.sub # "BODY"
            \/ h \in {"SW_SESSION_TICKET", "SW_CHANGE", "SW_FINISHED"} /\ ~t.hit)
             => t.enc_read.epoch = "TLS1_2"
        /\ (\/ h \in {"SW_FINISHED", "OK"}
            \/ h = "SW_CHANGE" /\ t.sub = "TRANSITION"
            \/ h \in {"SR_CHANGE", "SR_FINISHED"} /\ t.hit)
             => t.enc_write.epoch = "TLS1_2"
        /\ h = "SW_SRVR_DONE" => (Demands(t) => t.cert_request)
        /\ h = "SW_SRVR_DONE" /\ t.sub \notin {"PRE_WORK", "SEND"} => Opened(t.transcript)
        /\ h = "SR_KEY_EXCH" => (Demands(t) => t.peer)
        /\ h \in {"SR_CHANGE", "SW_SESSION_TICKET", "SW_CHANGE", "SW_FINISHED"}
             /\ ~t.hit /\ Owed(t) => ClientProof(t.transcript)

\* A TLSv1.3 server: a pending HelloRetryRequest is answered before anything of
\* its flight goes out, and it writes under the application key before it reads
\* what the client answers.
Server13(t) ==
  LET h == t.hand_state
      sent == h = "SW_FINISHED" /\ t.sub \notin {"PRE_WORK", "SEND"}
      waits == \/ h = "EARLY_DATA" /\ ~Pending(t)
               \/ h \in {"SR_CERT", "SR_CERT_VRFY", "SR_FINISHED", "SW_SESSION_TICKET", "OK"}
  IN  t.server /\ t.version = "TLS1_3" =>
        /\ t.new_cipher = "TLS13" /\ h # "BEFORE"
        /\ h = "SR_CLNT_HELLO" /\ t.state = "READING" => Pending(t)
        /\ h \in {"SW_ENCRYPTED_EXTENSIONS", "SW_CERT_REQ", "SW_CERT", "SW_CERT_VRFY", "SW_FINISHED"}
             => ~Pending(t)
        /\ h \in {"SR_CLNT_HELLO", "SW_SRVR_HELLO", "SW_CHANGE"} \/ (h = "EARLY_DATA" /\ Pending(t))
             => /\ t.enc_read.epoch \in {"PLAIN", "HANDSHAKE"}
                /\ t.enc_write.epoch \in {"PLAIN", "HANDSHAKE"}
        /\ (sent /\ t.sub # "POST_WORK") \/ waits =>
             t.enc_write.epoch = "APPLICATION" /\ t.server_finished_hash # <<>>
        /\ sent \/ waits => Opened(t.transcript) /\ ~Pending(t)
        /\ (h = "SR_FINISHED" /\ t.sub # "BODY") \/ h \in {"SW_SESSION_TICKET", "OK"} =>
             t.enc_read.epoch = "APPLICATION" /\ ~t.plain_alerts
        /\ h \in {"SW_CERT", "SW_CERT_VRFY", "SW_FINISHED"} \/ (h = "EARLY_DATA" /\ ~Pending(t)) =>
             (~t.hit /\ Demands(t) => t.cert_request)
        /\ h = "SW_SESSION_TICKET" /\ ~t.hit /\ Owed(t) => ClientProof(t.transcript)

\* A client of either version: its version is chosen by one ServerHello, and it
\* reads a Finished only from a server that has proved itself.
Client(t) ==
  LET h == t.hand_state
  IN  ~t.server =>
        /\ t.hello_retry_request # "COMPLETE" /\ ~t.plain_alerts
        /\ t.version # "ANY" => /\ h \notin {"BEFORE", "CW_CLNT_HELLO"}
                                /\ h = "CR_SRVR_HELLO" => t.state = "READING" /\ t.sub # "BODY"
        /\ h = "CR_CERT" /\ t.sub # "BODY" => (Asks(t) => ChainSeen(t.transcript))
        /\ h \in {"CR_FINISHED", "OK", "CR_SESSION_TICKET"} /\ ~t.hit /\ Asks(t) => ServerShown(t)

\* A TLSv1.2 client: master secret and keys (in a full handshake it writes
\* first), and the server's chain and signature.
Client12(t) ==
  LET h == t.hand_state
  IN  ~t.server /\ t.version = "TLS1_2" =>
        /\ t.hello_retry_request = "NONE"
        /\ h \in {"CR_CERT", "CR_CERT_STATUS", "CR_KEY_EXCH", "CR_CERT_REQ", "CR_SRVR_DONE",
                  "CW_CERT", "CW_KEY_EXCH", "CW_CERT_VRFY"} => ~t.hit
        /\ (\/ h \in {"CW_CERT_VRFY", "CW_CHANGE", "CR_FINISHED"}
            \/ h = "CR_CHANGE" /\ t.sub # "BODY"
            \/ h = "CW_KEY_EXCH" /\ t.sub = "TRANSITION")
             => t.master_key # <<>>
        /\ (\/ h \in {"CR_FINISHED", "OK"}
            \/ h = "CR_CHANGE" /\ t.sub # "BODY"
            \/ h \in {"CW_CHANGE", "CW_FINISHED"} /\ t.hit)
             => t.enc_read.epoch = "TLS1_2"
        /\ (\/ h \in {"CW_FINISHED", "OK"}
            \/ h = "CW_CHANGE" /\ t.sub = "TRANSITION"
            \/ h \in {"CR_SESSION_TICKET", "CR_CHANGE", "CR_FINISHED"} /\ ~t.hit)
             => t.enc_write.epoch = "TLS1_2"
        /\ h \in {"CR_CERT_STATUS", "CR_KEY_EXCH", "CR_CERT_REQ", "CR_SRVR_DONE", "CW_CERT",
                  "CW_KEY_EXCH"}
             /\ Asks(t) => ChainSeen(t.transcript)
        /\ (\/ h \in {"CR_CERT_REQ", "CR_SRVR_DONE", "CW_CERT", "CW_KEY_EXCH"}
            \/ h = "CR_KEY_EXCH" /\ t.sub # "BODY")
             => (Asks(t) /\ t.new_cipher = "DHE" => ServerShown(t))
        /\ (\/ h = "CW_CERT_VRFY"
            \/ h = "CW_KEY_EXCH" /\ t.sub \notin {"PRE_WORK", "SEND"}
            \/ h \in {"CW_CHANGE", "CW_FINISHED", "CR_CHANGE"} /\ ~t.hit)
             => (Asks(t) => ServerShown(t))

\* A TLSv1.3 client: it reads under the application key before it answers, and
\* writes under it only behind its own Finished.
Client13(t) ==
  LET h == t.hand_state
      ours == h \in {"CW_CHANGE", "CW_CERT", "CW_CERT_VRFY", "CW_FINISHED"}
      over == h \in {"OK", "CR_SESSION_TICKET"}
  IN  ~t.server /\ t.version = "TLS1_3" =>
        /\ t.new_cipher = "TLS13" /\ t.handshake_traffic_hash # <<>>
        /\ over \/ (h = "CW_FINISHED" /\ t.sub = "TRANSITION") =>
             t.enc_write.epoch = "APPLICATION"
        /\ ~over /\ ~(h = "CW_FINISHED" /\ t.sub = "TRANSITION") =>
             t.enc_write.epoch \in {"PLAIN", "HANDSHAKE"}
        /\ ours \/ over \/ (h = "CR_FINISHED" /\ t.sub # "BODY") =>
             t.enc_read.epoch = "APPLICATION" /\ t.server_finished_hash # <<>>
        /\ h = "CR_CERT_VRFY" => (Asks(t) => ChainSeen(t.transcript))
        /\ h = "CR_CERT_VRFY" /\ t.sub # "BODY" => (Asks(t) => ServerShown(t))
        /\ ours /\ ~t.hit /\ Asks(t) => ServerShown(t)

Live(t) == /\ Flow(t) /\ Early(t)
           /\ Server(t) /\ Server12(t) /\ Server13(t)
           /\ Client(t) /\ Client12(t) /\ Client13(t)

\* A key is derived from something that is not public.
Keyed(k) == k.epoch # "PLAIN" => Len(k.secret) > (IF k.epoch = "TLS1_2" THEN 1 ELSE 0)

\* What is left to say of an endpoint that has failed: it may have failed after
\* its handshake was over.
Ends(t) ==
  t.hand_state = "OK" =>
    /\ t.enc_read.epoch = (IF SSL_IS_TLS13(t) THEN "APPLICATION" ELSE "TLS1_2")
    /\ t.enc_write.epoch = (IF SSL_IS_TLS13(t) THEN "APPLICATION" ELSE "TLS1_2")
    /\ ~t.plain_alerts
    /\ t.server /\ ~t.hit /\ Owed(t) => ClientProof(t.transcript)
    /\ ~t.server /\ ~t.hit /\ Asks(t) => ServerShown(t)

Good(t) ==
  /\ Keyed(t.enc_read) /\ Keyed(t.enc_write)
  /\ IF t.state = "ERROR" THEN Ends(t) ELSE Live(t)

\* What the peer sent and has not been read has a body it can send.
InFlags == \A i \in DOMAIN in : in[i].flags \in FlagsOf(in[i].mt)

SecInv == InFlags /\ Good(s)

\* No step from t to u takes back what NeverGoesBack speaks of.
Forward(t, u) ==
  /\ t.version # "ANY" => u.version = t.version
  /\ Rank(u.enc_read) >= Rank(t.enc_read)
  /\ Rank(u.enc_write) >= Rank(t.enc_write)
  /\ RetryRank(u.hello_retry_request) >= RetryRank(t.hello_retry_request)
  /\ u.state = "FINISHED" /\ t.state # "FINISHED" =>
       (u.hello_retry_request # "NONE" => u.version = "TLS1_3")

-----------------------------------------------------------------------------
(* Transcripts grow *)

\* Appending a message keeps what was found before, and may complete it.
LEMMA TranscriptGrows ==
  ASSUME NEW tr \in Hash, NEW e \in Hashed, NEW u, u = Append(tr, e)
  PROVE  /\ u # <<>>
         /\ Opened(tr) \/ e.mt \in {"SERVER_DONE", "FINISHED"} => Opened(u)
         /\ ChainAfter(tr) \/ (Opened(tr) /\ e = TrustedChain) => ChainAfter(u)
         /\ ClientProof(tr) \/ (ChainAfter(tr) /\ e = Signature("CERTIFICATE_VERIFY"))
              => ClientProof(u)
         /\ ChainSeen(tr) \/ e = TrustedChain => ChainSeen(u)
         /\ \A x : Follows(tr, 0, TrustedChain, x) \/ (ChainSeen(tr) /\ e = x)
                     => Follows(u, 0, TrustedChain, x)
<1> DEFINE n == Len(tr) + 1
<1>1. /\ Len(tr) \in Nat /\ DOMAIN tr = 1..Len(tr)
      /\ DOMAIN u = 1..n /\ u[n] = e /\ \A i \in DOMAIN tr : u[i] = tr[i]
  BY DEF Hash
<1>2. \A i \in DOMAIN tr : i \in DOMAIN u /\ i < n /\ i \in Nat /\ 0 < i /\ u[i] = tr[i]
  BY <1>1
<1>3. n \in DOMAIN u /\ u[n] = e
  BY <1>1
<1>4. u # <<>>
  BY <1>1
<1> HIDE DEF n
<1>5. Opened(tr) \/ e.mt \in {"SERVER_DONE", "FINISHED"} => Opened(u)
  BY <1>2, <1>3 DEF Opened
<1>6. ChainAfter(tr) \/ (Opened(tr) /\ e = TrustedChain) => ChainAfter(u)
  BY <1>2, <1>3 DEF ChainAfter, Opened
<1>7. ClientProof(tr) \/ (ChainAfter(tr) /\ e = Signature("CERTIFICATE_VERIFY")) => ClientProof(u)
  BY <1>2, <1>3 DEF ClientProof, Follows, ChainAfter
<1>8. ChainSeen(tr) \/ e = TrustedChain => ChainSeen(u)
  BY <1>2, <1>3 DEF ChainSeen
<1>9. ASSUME NEW x, Follows(tr, 0, TrustedChain, x) \/ (ChainSeen(tr) /\ e = x)
      PROVE  Follows(u, 0, TrustedChain, x)
  BY <1>2, <1>3, <1>9 DEF Follows, ChainSeen
<1> QED BY <1>4, <1>5, <1>6, <1>7, <1>8, <1>9

\* What is chosen by the hellos; what follows from the keys and certificates.
Chose(t, u) ==
  /\ u.server = t.server /\ u.opt = t.opt /\ u.version = t.version /\ u.hit = t.hit
  /\ u.new_cipher = t.new_cipher /\ u.hello_retry_request = t.hello_retry_request

Secrets(t, u) ==
  /\ u.handshake_traffic_hash = t.handshake_traffic_hash
  /\ u.server_finished_hash = t.server_finished_hash /\ u.master_key = t.master_key

Held(t, u) ==
  /\ u.enc_read = t.enc_read /\ u.enc_write = t.enc_write /\ u.plain_alerts = t.plain_alerts
  /\ Secrets(t, u)

Certs(t, u) == u.peer = t.peer /\ u.cert_request = t.cert_request

Place(t, u) == u.hand_state = t.hand_state /\ u.state = t.state /\ u.sub = t.sub

\* Every finding of t about its transcript is one of u.
Found(t, u) ==
  /\ t.transcript # <<>> => u.transcript # <<>>
  /\ Opened(t.transcript) => Opened(u.transcript)
  /\ ChainAfter(t.transcript) => ChainAfter(u.transcript)
  /\ ClientProof(t.transcript) => ClientProof(u.transcript)
  /\ ChainSeen(t.transcript) => ChainSeen(u.transcript)
  /\ ServerShown(t) => ServerShown(u)

Kept(t, u) == Chose(t, u) /\ Held(t, u) /\ Certs(t, u) /\ Found(t, u)

LEMMA FoundSame ==
  ASSUME NEW t, NEW u, Chose(t, u), u.transcript = t.transcript
  PROVE  Found(t, u)
BY DEF Found, Chose, ServerShown, SSL_IS_TLS13

LEMMA FoundGrows ==
  ASSUME NEW t, NEW u, Chose(t, u), t.transcript \in Hash,
         NEW e \in Hashed, u.transcript = Append(t.transcript, e)
  PROVE  Found(t, u)
<1>1. Chose(t, u) => (SSL_IS_TLS13(u) <=> SSL_IS_TLS13(t))
  BY DEF Chose, SSL_IS_TLS13
<1>2. ServerShown(t) => ServerShown(u)
  BY <1>1, TranscriptGrows DEF ServerShown, Chose
<1> QED BY <1>2, TranscriptGrows DEF Found

\* An endpoint that is alive has what an ended one needs.
LEMMA LiveEnds ==
  ASSUME NEW t \in SSL, Live(t)
  PROVE  Ends(t)
<1>1. t.version \in {"ANY", "TLS1_2", "TLS1_3"} /\ t.server \in BOOLEAN
  BY DEF SSL, Versions
<1>2. t.hand_state = "OK" => t.version # "ANY"
  BY <1>1 DEF Live, Early
<1> SUFFICES ASSUME t.hand_state = "OK"
             PROVE  Ends(t)
  BY DEF Ends
<1>3. CASE t.server
  <2>1. ~t.hit /\ Owed(t) => ClientProof(t.transcript)
    BY <1>3 DEF Live, Server
  <2>2. CASE t.version = "TLS1_2"
    BY <1>3, <2>1, <2>2 DEF Live, Ends, Server12, SSL_IS_TLS13
  <2>3. CASE t.version = "TLS1_3"
    BY <1>3, <2>1, <2>3 DEF Live, Ends, Server13, SSL_IS_TLS13
  <2> QED BY <1>1, <1>2, <2>2, <2>3
<1>4. CASE ~t.server
  <2>1. ~t.plain_alerts /\ (~t.hit /\ Asks(t) => ServerShown(t))
    BY <1>4 DEF Live, Client
  <2>2. CASE t.version = "TLS1_2"
    BY <1>4, <2>1, <2>2 DEF Live, Ends, Client12, SSL_IS_TLS13
  <2>3. CASE t.version = "TLS1_3"
    BY <1>4, <2>1, <2>3 DEF Live, Ends, Client13, SSL_IS_TLS13
  <2> QED BY <1>1, <1>2, <2>2, <2>3
<1> QED BY <1>1, <1>3, <1>4

LEMMA GoodEnds ==
  ASSUME NEW t \in SSL, Good(t)
  PROVE  Ends(t)
BY LiveEnds DEF Good

\* Nothing changes but what no property looks at.
LEMMA GoodFrame ==
  ASSUME NEW t, NEW u, Good(t), Kept(t, u), Place(t, u), u.init_msg = t.init_msg
  PROVE  Good(u)
<1> USE DEF Kept, Chose, Held, Secrets, Certs, Place, Found
<1> USE DEF Pending, Owed, Demands, Asks, aPSK, VerifyPeer
<1>1. CASE t.state = "ERROR"
  BY <1>1 DEF Good, Ends, SSL_IS_TLS13
<1>2. CASE t.state # "ERROR"
  <2>1. Live(t)
    BY <1>2 DEF Good
  <2>2. Flow(u)
    BY <2>1 DEF Live, Flow
  <2>3. Early(u)
    BY <2>1 DEF Live, Early
  <2>4. Server(u)
    BY <2>1 DEF Live, Server
  <2>5. Server12(u)
    BY <2>1 DEF Live, Server12
  <2>6. Server13(u)
    BY <2>1 DEF Live, Server13
  <2>7. Client(u)
    BY <2>1 DEF Live, Client
  <2>8. Client12(u)
    BY <2>1 DEF Live, Client12
  <2>9. Client13(u)
    BY <2>1 DEF Live, Client13
  <2> QED BY <1>2, <2>2, <2>3, <2>4, <2>5, <2>6, <2>7, <2>8, <2>9 DEF Good, Live
<1> QED BY <1>1, <1>2

LEMMA RankNat ==
  ASSUME NEW k, NEW r
  PROVE  Rank(k) \in 0..2 /\ RetryRank(r) \in 0..2
BY DEF Rank, RetryRank

\* A step that changes neither hellos nor keys takes nothing back.
LEMMA ForwardKept ==
  ASSUME NEW t, NEW u, Chose(t, u), Held(t, u), u.state # "FINISHED" \/ t.state = "FINISHED"
  PROVE  Forward(t, u)
<1>1. /\ Rank(u.enc_read) = Rank(t.enc_read) /\ Rank(u.enc_write) = Rank(t.enc_write)
      /\ RetryRank(u.hello_retry_request) = RetryRank(t.hello_retry_request)
      /\ u.version = t.version
  BY DEF Chose, Held, Secrets
<1> QED BY <1>1, RankNat DEF Forward

\* The same of a step that may end the handshake.
LEMMA ForwardSame ==
  ASSUME NEW t, NEW u, u.version = t.version, u.hello_retry_request = t.hello_retry_request,
         u.enc_read = t.enc_read, u.enc_write = t.enc_write,
         u.hello_retry_request # "NONE" => u.version = "TLS1_3"
  PROVE  Forward(t, u)
<1>1. /\ Rank(u.enc_read) = Rank(t.enc_read) /\ Rank(u.enc_write) = Rank(t.enc_write)
      /\ RetryRank(u.hello_retry_request) = RetryRank(t.hello_retry_request)
  OBVIOUS
<1> QED BY <1>1, RankNat DEF Forward

\* And of a step taken from an object that differs where it does not matter.
LEMMA ForwardFrom ==
  ASSUME NEW t, NEW a, NEW u, Chose(t, a), Held(t, a), a.state = t.state, Forward(a, u)
  PROVE  Forward(t, u)
BY DEF Forward, Chose, Held

\* SSLfatal, of an object about which nothing else has changed.
LEMMA FatalGood ==
  ASSUME NEW t \in SSL, Good(t), NEW r,
         NEW u, u \in {ossl_statem_fatal(t, r), ossl_statem_fatal_no_alert(t, r)}
  PROVE  Good(u) /\ Forward(t, u)
<1>1. /\ u.state = "ERROR" /\ u.hand_state = t.hand_state /\ u.transcript = t.transcript
      /\ Chose(t, u) /\ Held(t, u) /\ Certs(t, u)
  <2>1. CASE u = ossl_statem_fatal(t, r)
    BY <2>1 DEF SSL, ossl_statem_fatal, Chose, Held, Secrets, Certs
  <2>2. CASE u = ossl_statem_fatal_no_alert(t, r)
    BY <2>2 DEF SSL, ossl_statem_fatal_no_alert, Chose, Held, Secrets, Certs
  <2> QED BY <2>1, <2>2
<1>2. Found(t, u)
  BY <1>1, FoundSame
<1>3. Ends(t)
  BY GoodEnds
<1>4. Ends(u)
  BY <1>1, <1>2, <1>3 DEF Ends, Chose, Held, Secrets, Certs, Found, Owed, Demands, Asks, aPSK,
     VerifyPeer, SSL_IS_TLS13
<1>5. Good(u)
  BY <1>1, <1>4 DEF Good, Held, Secrets
<1>6. Forward(t, u)
  BY <1>1, ForwardKept
<1> QED BY <1>5, <1>6

-----------------------------------------------------------------------------
(* write_transition *)

\* A write transition of a server stays on course, in either version.
LEMMA ServerTransition ==
  ASSUME NEW t \in SSL, Live(t), t.server, t.state = "WRITING", t.sub = "TRANSITION",
         NEW h, h = server_write_transition(t), h # "ERROR",
         NEW u, Kept(t, u),
         IF h = "FINISHED"
         THEN u.hand_state = t.hand_state /\ u.state = "READING" /\ u.sub = "HEADER"
         ELSE u.hand_state = h /\ u.state = "WRITING" /\ u.sub = "PRE_WORK"
  PROVE  Live(u)
<1>0. t.version \in {"ANY", "TLS1_2", "TLS1_3"} /\ u.server /\ u.version = t.version
  BY DEF SSL, Versions, Kept, Chose
<1> USE DEF Kept, Chose, Held, Secrets, Certs, Found
<1> USE DEF Pending, Owed, Demands, aPSK, aNULL, VerifyPeer
<1>1. CASE t.version = "TLS1_3"
  <2>1. h = server13_write_transition(t)
    BY <1>1 DEF server_write_transition, SSL_IS_TLS13
  <2>2. Flow(u)
    BY <1>1, <2>1 DEF Live, Flow, server13_write_transition
  <2>3. Server(u)
    BY <1>1, <2>1 DEF Live, Server, Server13, server13_write_transition
  <2>4. Server13(u)
    BY <1>1, <2>1 DEF Live, Server, Server13, server13_write_transition, send_certificate_request
  <2> QED BY <1>0, <1>1, <2>2, <2>3, <2>4 DEF Live, Early, Server12, Client, Client12, Client13
<1>2. CASE t.version # "TLS1_3"
  <2>1. h = server12_write_transition(t)
    BY <1>2 DEF server_write_transition, SSL_IS_TLS13
  <2>2. Flow(u)
    BY <1>2, <2>1 DEF Live, Flow, server12_write_transition
  <2>3. Early(u)
    BY <1>2, <2>1 DEF Live, Early, server12_write_transition
  <2>4. Server(u)
    BY <1>0, <1>2, <2>1 DEF Live, Early, Server, Server12, server12_write_transition
  <2>5. Server12(u)
    BY <1>2, <2>1 DEF Live, Server, Server12, server12_write_transition, send_certificate_request
  <2> QED BY <1>0, <1>2, <2>2, <2>3, <2>4, <2>5 DEF Live, Server13, Client, Client12, Client13
<1> QED BY <1>1, <1>2

\* And so does one of a client.
LEMMA ClientTransition ==
  ASSUME NEW t \in SSL, Live(t), ~t.server, t.state = "WRITING", t.sub = "TRANSITION",
         NEW h, h = client_write_transition(t), h # "ERROR",
         NEW u, Kept(t, u),
         IF h = "FINISHED"
         THEN u.hand_state = t.hand_state /\ u.state = "READING" /\ u.sub = "HEADER"
         ELSE u.hand_state = h /\ u.state = "WRITING" /\ u.sub = "PRE_WORK"
  PROVE  Live(u)
<1>0. t.version \in {"ANY", "TLS1_2", "TLS1_3"} /\ ~u.server /\ u.version = t.version
  BY DEF SSL, Versions, Kept, Chose
<1> USE DEF Kept, Chose, Held, Secrets, Certs, Found
<1> USE DEF Pending, Asks, VerifyPeer
<1>1. CASE t.version = "TLS1_3"
  <2>1. h = client13_write_transition(t)
    BY <1>1 DEF client_write_transition, SSL_IS_TLS13
  <2>2. Flow(u)
    BY <1>1, <2>1 DEF Live, Flow, client13_write_transition
  <2>3. Client(u)
    BY <1>1, <2>1 DEF Live, Client, Client13, client13_write_transition
  <2>4. Client13(u)
    BY <1>1, <2>1 DEF Live, Client, Client13, client13_write_transition
  <2> QED BY <1>0, <1>1, <2>2, <2>3, <2>4 DEF Live, Early, Client12, Server, Server12, Server13
<1>2. CASE t.version # "TLS1_3"
  <2>1. h = client12_write_transition(t)
    BY <1>2 DEF client_write_transition, SSL_IS_TLS13
  <2>2. Flow(u)
    BY <1>2, <2>1 DEF Live, Flow, client12_write_transition
  <2>3. Early(u)
    BY <1>2, <2>1 DEF Live, Early, client12_write_transition
  <2>4. Client(u)
    BY <1>0, <1>2, <2>1 DEF Live, Early, Client, Client12, client12_write_transition
  <2>5. Client12(u)
    <3>1. CASE h = "FINISHED"
      BY <1>2, <2>1, <3>1 DEF Live, Client, Client12, client12_write_transition
    <3>2. CASE h # "FINISHED"
      BY <1>2, <2>1, <3>2 DEF Live, Client, Client12, client12_write_transition
    <3> QED BY <3>1, <3>2
  <2> QED BY <1>0, <1>2, <2>2, <2>3, <2>4, <2>5 DEF Live, Client13, Server, Server12, Server13
<1> QED BY <1>1, <1>2

\* Moving to another place changes nothing else.
ToSub(t, y) == [t EXCEPT !.sub = y]
ToState(t, x) == [t EXCEPT !.state = x]
ToFlow(t, x, y) == [t EXCEPT !.state = x, !.sub = y]
ToHand(t, x, y) == [t EXCEPT !.hand_state = x, !.sub = y]

LEMMA MoveSub ==
  ASSUME NEW t \in SSL, NEW y, NEW u, u = ToSub(t, y)
  PROVE  /\ Kept(t, u) /\ u.transcript = t.transcript /\ u.init_msg = t.init_msg
         /\ u.sub = y /\ u.state = t.state /\ u.hand_state = t.hand_state
<1>1. /\ Chose(t, u) /\ Held(t, u) /\ Certs(t, u)
      /\ u.transcript = t.transcript /\ u.init_msg = t.init_msg
      /\ u.sub = y /\ u.state = t.state /\ u.hand_state = t.hand_state
  BY DEF ToSub, SSL, Chose, Held, Secrets, Certs
<1> QED BY <1>1, FoundSame DEF Kept

LEMMA MoveState ==
  ASSUME NEW t \in SSL, NEW x, NEW u, u = ToState(t, x)
  PROVE  /\ Kept(t, u) /\ u.transcript = t.transcript /\ u.init_msg = t.init_msg
         /\ u.sub = t.sub /\ u.state = x /\ u.hand_state = t.hand_state
<1>1. /\ Chose(t, u) /\ Held(t, u) /\ Certs(t, u)
      /\ u.transcript = t.transcript /\ u.init_msg = t.init_msg
      /\ u.sub = t.sub /\ u.state = x /\ u.hand_state = t.hand_state
  BY DEF ToState, SSL, Chose, Held, Secrets, Certs
<1> QED BY <1>1, FoundSame DEF Kept

LEMMA MoveFlow ==
  ASSUME NEW t \in SSL, NEW x, NEW y, NEW u, u = ToFlow(t, x, y)
  PROVE  /\ Kept(t, u) /\ u.transcript = t.transcript /\ u.init_msg = t.init_msg
         /\ u.sub = y /\ u.state = x /\ u.hand_state = t.hand_state
<1>1. /\ Chose(t, u) /\ Held(t, u) /\ Certs(t, u)
      /\ u.transcript = t.transcript /\ u.init_msg = t.init_msg
      /\ u.sub = y /\ u.state = x /\ u.hand_state = t.hand_state
  BY DEF ToFlow, SSL, Chose, Held, Secrets, Certs
<1> QED BY <1>1, FoundSame DEF Kept

LEMMA MoveHand ==
  ASSUME NEW t \in SSL, NEW x, NEW y, NEW u, u = ToHand(t, x, y)
  PROVE  /\ Kept(t, u) /\ u.transcript = t.transcript /\ u.init_msg = t.init_msg
         /\ u.sub = y /\ u.state = t.state /\ u.hand_state = x
<1>1. /\ Chose(t, u) /\ Held(t, u) /\ Certs(t, u)
      /\ u.transcript = t.transcript /\ u.init_msg = t.init_msg
      /\ u.sub = y /\ u.state = t.state /\ u.hand_state = x
  BY DEF ToHand, SSL, Chose, Held, Secrets, Certs
<1> QED BY <1>1, FoundSame DEF Kept

LEMMA TransitionGood ==
  ASSUME NEW t \in SSL, Good(t), t.state = "WRITING", t.sub = "TRANSITION",
         NEW h, h = write_transition(t), h # "ERROR",
         NEW u, u = IF h = "FINISHED" THEN ToFlow(t, "READING", "HEADER")
                                      ELSE ToHand(t, h, "PRE_WORK")
  PROVE  Good(u) /\ Forward(t, u)
<1>1. /\ Kept(t, u)
      /\ IF h = "FINISHED"
         THEN u.hand_state = t.hand_state /\ u.state = "READING" /\ u.sub = "HEADER"
         ELSE u.hand_state = h /\ u.state = "WRITING" /\ u.sub = "PRE_WORK"
  <2>1. CASE h = "FINISHED"
    <3>1. u = ToFlow(t, "READING", "HEADER")
      BY <2>1
    <3> QED BY <2>1, <3>1, MoveFlow
  <2>2. CASE h # "FINISHED"
    <3>1. u = ToHand(t, h, "PRE_WORK")
      BY <2>2
    <3> QED BY <2>2, <3>1, MoveHand
  <2> QED BY <2>1, <2>2
<1>2. Live(t)
  BY DEF Good
<1>3. Live(u)
  <2>1. CASE t.server
    <3>1. h = server_write_transition(t)
      BY <2>1 DEF write_transition
    <3> QED BY <1>1, <1>2, <2>1, <3>1, ServerTransition
  <2>2. CASE ~t.server
    <3>1. h = client_write_transition(t)
      BY <2>2 DEF write_transition
    <3> QED BY <1>1, <1>2, <2>2, <3>1, ClientTransition
  <2> QED BY <2>1, <2>2
<1>4. Forward(t, u)
  BY <1>1, ForwardKept DEF Kept
<1> QED BY <1>1, <1>3, <1>4 DEF Good, Kept, Held, Secrets

-----------------------------------------------------------------------------
(* Keys *)

\* Keys derived from transcripts and secrets that are not empty.
LEMMA KeyedKeys ==
  ASSUME NEW t \in SSL, NEW writer, NEW epoch \in {"HANDSHAKE", "APPLICATION"}
  PROVE  /\ Keyed(PlainKey)
         /\ t.master_key # <<>> => Keyed(tls1_key(t, writer))
         /\ t.transcript # <<>> => Keyed(ServerKey13(t, epoch))
         /\ t.handshake_traffic_hash # <<>> => Keyed(ClientKey13(t, "HANDSHAKE"))
         /\ t.server_finished_hash # <<>> => Keyed(ClientKey13(t, "APPLICATION"))
<1>1. \A q \in Hash : q # <<>> => Len(q) > 0
  BY DEF Hash
<1>2. t.master_key # <<>> => Keyed(tls1_key(t, writer))
  <2>1. Len(Append(t.master_key, Random(t))) = Len(t.master_key) + 1
    BY SSLParts DEF Hash
  <2>2. t.master_key \in Hash /\ Len(t.master_key) \in Nat
    BY SSLParts DEF Hash
  <2> QED BY <1>1, <2>1, <2>2 DEF Keyed, tls1_key
<1>3. t.transcript # <<>> => Keyed(ServerKey13(t, epoch))
  BY <1>1, SSLParts DEF Keyed, ServerKey13
<1>4. t.handshake_traffic_hash # <<>> => Keyed(ClientKey13(t, "HANDSHAKE"))
  BY <1>1, SSLParts DEF Keyed, ClientKey13
<1>5. t.server_finished_hash # <<>> => Keyed(ClientKey13(t, "APPLICATION"))
  BY <1>1, SSLParts DEF Keyed, ClientKey13
<1> QED BY <1>2, <1>3, <1>4, <1>5 DEF Keyed, PlainKey

-----------------------------------------------------------------------------
(* pre_work *)

\* A message of type mt has been constructed and is ready to be sent.
Built(t, u, mt) ==
  u.hand_state = t.hand_state /\ u.state = t.state /\ u.sub = "SEND" /\ u.init_msg.mt = mt

LEMMA ConstructKept ==
  ASSUME NEW t \in SSL, NEW mt, NEW flags, NEW u, u = Construct(t, mt, flags)
  PROVE  /\ Chose(t, u) /\ Held(t, u) /\ Certs(t, u) /\ u.transcript = t.transcript
         /\ Built(t, u, mt) /\ u.init_msg.flags = flags
BY DEF SSL, Construct, Chose, Held, Secrets, Certs, Built

\* Constructing a Finished changes a key only on a TLSv1.3 client.
LEMMA FinishedKept ==
  ASSUME NEW t \in SSL, NEW u, u = tls_construct_finished(t)
  PROVE  /\ Chose(t, u) /\ Certs(t, u) /\ u.transcript = t.transcript /\ Built(t, u, "FINISHED")
         /\ u.enc_read = t.enc_read /\ u.plain_alerts = t.plain_alerts /\ Secrets(t, u)
         /\ \/ u.enc_write = t.enc_write
            \/ SSL_IS_TLS13(t) /\ ~t.server /\ u.enc_write = ClientKey13(t, "HANDSHAKE")
<1> DEFINE a == [t EXCEPT !.cleanuphand = t.cleanuphand \/ ~t.server, !.finish_md = TRUE]
           b == IF SSL_IS_TLS13(t) /\ ~t.server /\ t.cert_req = 0
                THEN tls13_change_write(a, "HANDSHAKE") ELSE a
           mac == final_finish_mac(b, Side(b))
           c == Construct(b, "FINISHED", {})
<1>1. a \in SSL
  BY ZenonT(120) DEF SSL
<1>2. /\ Chose(t, a) /\ Certs(t, a) /\ Held(t, a) /\ a.transcript = t.transcript
      /\ a.hand_state = t.hand_state /\ a.state = t.state
  BY DEF SSL, Chose, Certs, Held, Secrets
<1>3. ClientKey13(a, "HANDSHAKE") = ClientKey13(t, "HANDSHAKE")
  BY <1>2 DEF Held, Secrets, ClientKey13
<1> HIDE DEF a
<1>4. b \in SSL
  BY <1>1, ChangeKeyType DEF Epochs
<1>5. /\ Chose(t, b) /\ Certs(t, b) /\ b.transcript = t.transcript
      /\ b.hand_state = t.hand_state /\ b.state = t.state
      /\ b.enc_read = t.enc_read /\ b.plain_alerts = t.plain_alerts /\ Secrets(t, b)
      /\ \/ b.enc_write = t.enc_write
         \/ SSL_IS_TLS13(t) /\ ~t.server /\ b.enc_write = ClientKey13(t, "HANDSHAKE")
  <2>1. CASE b = a
    BY <1>2, <2>1 DEF Held, Secrets
  <2>2. CASE SSL_IS_TLS13(t) /\ ~t.server /\ b = InstallWrite(a, ClientKey13(a, "HANDSHAKE"))
    <3> DEFINE k == ClientKey13(a, "HANDSHAKE")
    <3>1. b = [a EXCEPT !.enc_write = k]
      BY <2>2 DEF InstallWrite
    <3> HIDE DEF k, b
    <3> QED BY <1>1, <1>2, <1>3, <2>2, <3>1 DEF SSL, Chose, Certs, Held, Secrets, k
  <2> QED BY <1>2, <2>1, <2>2 DEF tls13_change_write, Chose
<1> HIDE DEF b
<1>6. c \in SSL
  BY <1>4, ConstructType DEF MessageTypes
<1>7. /\ Chose(b, c) /\ Held(b, c) /\ Certs(b, c) /\ c.transcript = b.transcript
      /\ Built(b, c, "FINISHED")
  BY <1>4, ConstructKept
<1> HIDE DEF c, mac
<1>8. u = [c EXCEPT !.init_msg = [c.init_msg EXCEPT !.mac = mac]]
  BY DEF tls_construct_finished, a, b, c, mac
<1> DEFINE m == [c.init_msg EXCEPT !.mac = mac]
<1>9. m.mt = "FINISHED"
  BY <1>6, <1>7, SSLParts DEF Records, Built
<1> HIDE DEF m
<1>10. /\ Chose(c, u) /\ Held(c, u) /\ Certs(c, u) /\ u.transcript = c.transcript
       /\ u.hand_state = c.hand_state /\ u.state = c.state /\ u.sub = c.sub /\ u.init_msg = m
  BY <1>6, <1>8 DEF SSL, Chose, Held, Secrets, Certs, m
<1>11. Built(t, u, "FINISHED")
  BY <1>5, <1>7, <1>9, <1>10 DEF Built
<1> QED BY <1>5, <1>7, <1>10, <1>11 DEF Chose, Held, Secrets, Certs


\* What pre_work does where a message is written, but for the ServerHello that
\* asks for a retry.
Made(t, u) ==
  LET h == t.hand_state
  IN  /\ Chose(t, u) /\ Secrets(t, u) /\ Found(t, u)
      /\ u.enc_read = t.enc_read /\ u.plain_alerts = t.plain_alerts /\ u.peer = t.peer
      /\ \/ u.enc_write = t.enc_write
         \/ /\ SSL_IS_TLS13(t) /\ ~t.server /\ h \in {"CW_CERT", "CW_FINISHED"}
            /\ u.enc_write = ClientKey13(t, "HANDSHAKE")
      /\ h = "SW_CERT_REQ" => u.cert_request
      /\ h # "SW_CERT_REQ" => u.cert_request = t.cert_request
      /\ u.hand_state = h /\ u.state = t.state /\ u.sub = "SEND"
      /\ Carries(h) # "ANY" => u.init_msg.mt = Carries(h)
      /\ h = "CW_KEY_EXCH" => u.init_msg.flags = {}

LEMMA MadeLive ==
  ASSUME NEW t \in SSL, Live(t), t.state = "WRITING", t.sub = "PRE_WORK",
         NEW u, Made(t, u)
  PROVE  Live(u)
<1>0. t.version \in {"ANY", "TLS1_2", "TLS1_3"} /\ u.version = t.version /\ u.server = t.server
  BY DEF SSL, Versions, Made, Chose
<1> USE DEF Made, Chose, Secrets, Found
<1> USE DEF Pending, Owed, Demands, Asks, aPSK, VerifyPeer
<1>1. Flow(u)
  BY DEF Live, Flow
<1>2. Early(u)
  BY DEF Live, Early, SSL_IS_TLS13
<1>3. CASE t.server
  <2>1. Server(u)
    BY <1>3 DEF Live, Server
  <2>2. Server12(u)
    BY <1>3 DEF Live, Server12
  <2>3. Server13(u)
    BY <1>3 DEF Live, Server13
  <2> QED BY <1>0, <1>1, <1>2, <1>3, <2>1, <2>2, <2>3 DEF Live, Client, Client12, Client13
<1>4. CASE ~t.server
  <2>1. Client(u)
    BY <1>4 DEF Live, Client
  <2>2. Client12(u)
    BY <1>4 DEF Live, Client12, SSL_IS_TLS13
  <2>3. Client13(u)
    BY <1>4 DEF Live, Client13, ClientKey13
  <2> QED BY <1>0, <1>1, <1>2, <1>4, <2>1, <2>2, <2>3 DEF Live, Server, Server12, Server13
<1> QED BY <1>3, <1>4

LEMMA MadeGood ==
  ASSUME NEW t \in SSL, Good(t), t.state = "WRITING", t.sub = "PRE_WORK",
         NEW u, Made(t, u)
  PROVE  Good(u) /\ Forward(t, u)
<1>1. Live(t) /\ Live(u)
  BY MadeLive DEF Good
<1>2. Keyed(u.enc_read) /\ Keyed(u.enc_write) /\ Rank(u.enc_write) >= Rank(t.enc_write)
  <2>1. CASE u.enc_write = t.enc_write
    BY <2>1, RankNat DEF Good, Made
  <2>2. CASE /\ SSL_IS_TLS13(t) /\ ~t.server /\ t.hand_state \in {"CW_CERT", "CW_FINISHED"}
             /\ u.enc_write = ClientKey13(t, "HANDSHAKE")
    <3>1. t.handshake_traffic_hash # <<>>
      BY <1>1, <2>2 DEF Live, Client13, SSL_IS_TLS13
    <3>2. t.enc_write.epoch \in {"PLAIN", "HANDSHAKE"}
      BY <1>1, <2>2 DEF Live, Client13, SSL_IS_TLS13
    <3>3. Keyed(u.enc_write)
      BY <2>2, <3>1, KeyedKeys
    <3>4. u.enc_write.epoch = "HANDSHAKE"
      BY <2>2 DEF ClientKey13
    <3> QED BY <3>2, <3>3, <3>4 DEF Good, Made, Rank
  <2> QED BY <2>1, <2>2 DEF Made
<1>3. u.state = "WRITING" /\ u.hello_retry_request = t.hello_retry_request
      /\ u.version = t.version /\ u.enc_read = t.enc_read
  BY DEF Made, Chose
<1>4. Forward(t, u)
  <2>1. /\ Rank(u.enc_read) >= Rank(t.enc_read)
        /\ RetryRank(u.hello_retry_request) >= RetryRank(t.hello_retry_request)
    BY <1>3, RankNat
  <2> QED BY <1>2, <1>3, <2>1 DEF Forward
<1> QED BY <1>1, <1>2, <1>3, <1>4 DEF Good

\* The end of the handshake touches nothing the invariant is about.
Over(t) == tls_finish_handshake(t, TRUE, TRUE)
Almost(t) == tls_finish_handshake(t, FALSE, FALSE)

LEMMA FinishKept ==
  ASSUME NEW t \in SSL, NEW u, u = Over(t) \/ u = Almost(t)
  PROVE  Kept(t, u) /\ Place(t, u) /\ u.transcript = t.transcript /\ u.init_msg = t.init_msg
<1>1. /\ Chose(t, u) /\ Held(t, u) /\ Certs(t, u) /\ Place(t, u)
      /\ u.transcript = t.transcript /\ u.init_msg = t.init_msg
  <2>1. ASSUME NEW q, NEW x, NEW y, NEW z,
               u = [t EXCEPT !.bbio = q, !.ticket_expected = x, !.cleanuphand = y, !.in_init = z]
        PROVE  /\ Chose(t, u) /\ Held(t, u) /\ Certs(t, u) /\ Place(t, u)
               /\ u.transcript = t.transcript /\ u.init_msg = t.init_msg
    BY <2>1 DEF SSL, Chose, Held, Secrets, Certs, Place
  <2>2. CASE u = Over(t)
    BY <2>1, <2>2, Zenon DEF Over, tls_finish_handshake
  <2>3. CASE u = Almost(t)
    BY <2>1, <2>3, Zenon DEF Almost, tls_finish_handshake
  <2> QED BY <2>2, <2>3
<1> QED BY <1>1, FoundSame DEF Kept

\* TLS_ST_OK: the endpoint reports that it is done.
LEMMA DoneGood ==
  ASSUME NEW t \in SSL, Good(t), t.state = "WRITING", t.sub = "PRE_WORK", t.hand_state = "OK",
         NEW a, a = Over(t),
         NEW u, u = ToState(a, "FINISHED")
  PROVE  Good(u) /\ Forward(t, u)
<1>1. a \in SSL
  BY FinishHandshakeType DEF Over
<1>2. Kept(t, a) /\ Place(t, a) /\ a.init_msg = t.init_msg
  BY FinishKept
<1>3. Good(a)
  BY <1>2, GoodFrame
<1>4. /\ Kept(a, u) /\ u.init_msg = a.init_msg /\ u.transcript = a.transcript
      /\ u.sub = a.sub /\ u.state = "FINISHED" /\ u.hand_state = a.hand_state
  BY <1>1, MoveState
<1>5. Live(a) /\ a.hand_state = "OK" /\ a.sub = "PRE_WORK"
  BY <1>2, <1>3 DEF Good, Place
<1>6. Live(u)
  <2> USE DEF Kept, Chose, Held, Secrets, Certs, Found
  <2> USE DEF Pending, Owed, Demands, Asks, aPSK, VerifyPeer
  <2>1. Flow(u) /\ Early(u)
    BY <1>4, <1>5 DEF Live, Flow, Early, Carries
  <2>2. Server(u) /\ Client(u)
    BY <1>4, <1>5 DEF Live, Server, Client
  <2>3. Server12(u) /\ Client12(u)
    BY <1>4, <1>5 DEF Live, Server12, Client12
  <2>4. Server13(u)
    BY <1>4, <1>5 DEF Live, Server13
  <2>5. Client13(u)
    BY <1>4, <1>5 DEF Live, Client13
  <2> QED BY <2>1, <2>2, <2>3, <2>4, <2>5 DEF Live
<1>7. u.version \in Versions /\ (u.hello_retry_request # "NONE" => u.version = "TLS1_3")
  <2>1. a.version \in {"ANY", "TLS1_2", "TLS1_3"} /\ a.server \in BOOLEAN
    BY <1>1 DEF SSL, Versions
  <2>2. a.version # "ANY"
    BY <1>5, <2>1 DEF Live, Early
  <2>3. a.version = "TLS1_2" => a.hello_retry_request = "NONE"
    BY <1>5, <2>1 DEF Live, Server12, Client12
  <2> QED BY <1>4, <2>1, <2>2, <2>3 DEF Kept, Chose, Versions
<1>8. Forward(t, u)
  <2>1. /\ u.version = t.version /\ u.enc_read = t.enc_read /\ u.enc_write = t.enc_write
        /\ u.hello_retry_request = t.hello_retry_request
    BY <1>2, <1>4 DEF Kept, Chose, Held, Secrets
  <2> QED BY <1>7, <2>1, ForwardSame
<1> QED BY <1>3, <1>4, <1>6, <1>8 DEF Good, Kept, Held, Secrets

\* A message is constructed, of an object that may have changed where it does
\* not matter.
LEMMA ConstructMade ==
  ASSUME NEW t \in SSL, NEW a \in SSL, Kept(t, a), Place(t, a),
         NEW mt, NEW flags, NEW u, u = Construct(a, mt, flags),
         t.hand_state # "SW_CERT_REQ", Carries(t.hand_state) \in {"ANY", mt},
         t.hand_state = "CW_KEY_EXCH" => flags = {}
  PROVE  Made(t, u)
<1>1. /\ Chose(a, u) /\ Held(a, u) /\ Certs(a, u) /\ u.transcript = a.transcript
      /\ Built(a, u, mt) /\ u.init_msg.flags = flags
  BY ConstructKept
<1>2. Found(a, u)
  BY <1>1, FoundSame
<1> QED BY <1>1, <1>2 DEF Made, Kept, Chose, Held, Secrets, Certs, Found, Place, Built

LEMMA KeptSelf ==
  ASSUME NEW t
  PROVE  Kept(t, t) /\ Place(t, t)
BY DEF Kept, Chose, Held, Secrets, Certs, Found, Place

LEMMA PlainMade ==
  ASSUME NEW t \in SSL, NEW mt, NEW flags, NEW u, u = Construct(t, mt, flags),
         t.hand_state # "SW_CERT_REQ", Carries(t.hand_state) \in {"ANY", mt},
         t.hand_state = "CW_KEY_EXCH" => flags = {}
  PROVE  Made(t, u)
BY ConstructMade, KeptSelf

LEMMA FinishedMade ==
  ASSUME NEW t \in SSL, t.hand_state = (IF t.server THEN "SW_FINISHED" ELSE "CW_FINISHED"),
         NEW u, u = tls_construct_finished(t)
  PROVE  Made(t, u)
<1>1. /\ Chose(t, u) /\ Certs(t, u) /\ u.transcript = t.transcript /\ Built(t, u, "FINISHED")
      /\ u.enc_read = t.enc_read /\ u.plain_alerts = t.plain_alerts /\ Secrets(t, u)
      /\ \/ u.enc_write = t.enc_write
         \/ SSL_IS_TLS13(t) /\ ~t.server /\ u.enc_write = ClientKey13(t, "HANDSHAKE")
  BY FinishedKept
<1>2. Found(t, u)
  BY <1>1, FoundSame
<1>3. Carries(t.hand_state) \in {"ANY", "FINISHED"}
  BY DEF Carries
<1>4. t.hand_state \notin {"SW_CERT_REQ", "CW_KEY_EXCH"}
  OBVIOUS
<1>5. \/ u.enc_write = t.enc_write
      \/ /\ SSL_IS_TLS13(t) /\ ~t.server /\ t.hand_state \in {"CW_CERT", "CW_FINISHED"}
         /\ u.enc_write = ClientKey13(t, "HANDSHAKE")
  BY <1>1
<1> QED BY <1>1, <1>2, <1>3, <1>4, <1>5 DEF Made, Certs, Built

\* construct_message of a client.
LEMMA ClientMade ==
  ASSUME NEW t \in SSL, NEW u, u = client_construct_message(t), ~t.server
  PROVE  Made(t, u) \/ u = ossl_statem_fatal(t, "INTERNAL_ERROR")
<1>1. CASE t.hand_state = "CW_CLNT_HELLO"
  <2> DEFINE a == [t EXCEPT !.ticket_expected = FALSE]
  <2>1. a \in SSL
    BY ZenonT(120) DEF SSL
  <2>2. /\ Chose(t, a) /\ Held(t, a) /\ Certs(t, a) /\ Place(t, a) /\ a.transcript = t.transcript
    BY DEF SSL, Chose, Held, Secrets, Certs, Place
  <2> HIDE DEF a
  <2>3. Kept(t, a)
    BY <2>2, FoundSame DEF Kept
  <2>4. PICK fl : u = Construct(a, "CLIENT_HELLO", fl)
    BY <1>1, Zenon DEF client_construct_message, tls_construct_client_hello, a
  <2> QED BY <1>1, <2>1, <2>2, <2>3, <2>4, ConstructMade DEF Carries
<1>2. CASE t.hand_state = "CW_CERT"
  <2>1. PICK fl, c : /\ fl \in SUBSET Flags /\ c = Construct(t, "CERTIFICATE", fl)
                     /\ u = c \/ (SSL_IS_TLS13(t) /\ u = tls13_change_write(c, "HANDSHAKE"))
    <3> DEFINE g == IF t.cert_req = 2 THEN {} ELSE ChainFlags(t.opt.cert)
               d == Construct(t, "CERTIFICATE", g)
    <3>1. g \in SUBSET Flags
      BY ChainFlagsType
    <3>2. u = IF SSL_IS_TLS13(t) /\ SSL_IS_FIRST_HANDSHAKE(t)
              THEN tls13_change_write(d, "HANDSHAKE") ELSE d
      BY <1>2, Zenon DEF client_construct_message, tls_construct_client_certificate
    <3> HIDE DEF g
    <3>3. u = d \/ (SSL_IS_TLS13(t) /\ u = tls13_change_write(d, "HANDSHAKE"))
      BY <3>2
    <3> QED BY <3>1, <3>3
  <2>2. Made(t, c)
    BY <1>2, <2>1, PlainMade DEF Carries
  <2>3. CASE u = c
    BY <2>2, <2>3
  <2>4. CASE SSL_IS_TLS13(t) /\ u = tls13_change_write(c, "HANDSHAKE")
    <3>1. c \in SSL
      BY <2>1, ConstructType DEF MessageTypes
    <3>2. ~c.server /\ c.handshake_traffic_hash = t.handshake_traffic_hash
      BY <2>2 DEF Made, Chose, Secrets
    <3>3. ClientKey13(c, "HANDSHAKE") = ClientKey13(t, "HANDSHAKE")
      BY <3>2 DEF ClientKey13
    <3> DEFINE k == ClientKey13(t, "HANDSHAKE")
    <3>4. u = [c EXCEPT !.enc_write = k]
      BY <2>4, <3>2, <3>3 DEF tls13_change_write, InstallWrite
    <3> HIDE DEF k
    <3>5. /\ Chose(c, u) /\ Secrets(c, u) /\ Certs(c, u) /\ Place(c, u)
          /\ u.transcript = c.transcript /\ u.init_msg = c.init_msg
          /\ u.enc_read = c.enc_read /\ u.plain_alerts = c.plain_alerts /\ u.enc_write = k
      BY <3>1, <3>4 DEF SSL, Chose, Secrets, Certs, Place
    <3>6. Found(c, u)
      BY <3>5, FoundSame
    <3> QED BY <1>2, <2>2, <2>4, <3>5, <3>6 DEF Made, Chose, Secrets, Certs, Place, Found, k
  <2> QED BY <2>1, <2>3, <2>4
<1>3. CASE t.hand_state = "CW_FINISHED"
  <2>1. u = tls_construct_finished(t)
    BY <1>3 DEF client_construct_message
  <2> QED BY <1>3, <2>1, FinishedMade
<1>4. CASE t.hand_state \in {"CW_CHANGE", "CW_KEY_EXCH", "CW_CERT_VRFY"}
  <2>1. PICK mt, fl : /\ u = Construct(t, mt, fl) /\ Carries(t.hand_state) \in {"ANY", mt}
                      /\ t.hand_state = "CW_KEY_EXCH" => fl = {}
    BY <1>4 DEF client_construct_message, Carries
  <2> QED BY <1>4, <2>1, PlainMade
<1>5. CASE t.hand_state \notin {"CW_CLNT_HELLO", "CW_CERT", "CW_FINISHED", "CW_CHANGE", "CW_KEY_EXCH", "CW_CERT_VRFY"}
  BY <1>5 DEF client_construct_message
<1> QED BY <1>1, <1>2, <1>3, <1>4, <1>5

\* construct_message of a server, but for the ServerHello that asks for a retry.
LEMMA ServerMade ==
  ASSUME NEW t \in SSL, t.server, ~(t.hand_state = "SW_SRVR_HELLO" /\ Pending(t)),
         t.hand_state \in WriteStates,
         NEW u, u = server_construct_message(t)
  PROVE  Made(t, u) \/ u = ossl_statem_fatal(t, "INTERNAL_ERROR")
<1>1. CASE t.hand_state = "SW_SRVR_HELLO"
  <2>1. u = tls_construct_server_hello(t)
    BY <1>1 DEF server_construct_message
  <2>2. PICK fl : u = Construct(t, "SERVER_HELLO", fl)
    BY <1>1, <2>1, Zenon DEF tls_construct_server_hello, Pending
  <2> QED BY <1>1, <2>2, PlainMade DEF Carries
<1>2. CASE t.hand_state = "SW_CERT_REQ"
  <2> DEFINE a == [t EXCEPT !.cert_request = TRUE]
  <2>1. a \in SSL
    BY ZenonT(120) DEF SSL
  <2>2. /\ Chose(t, a) /\ Held(t, a) /\ Place(t, a) /\ a.transcript = t.transcript
        /\ a.peer = t.peer /\ a.cert_request
    BY DEF SSL, Chose, Held, Secrets, Place
  <2> HIDE DEF a
  <2>3. u = Construct(a, "CERTIFICATE_REQUEST", {})
    BY <1>2 DEF server_construct_message, tls_construct_certificate_request, a
  <2>4. /\ Chose(a, u) /\ Held(a, u) /\ Certs(a, u) /\ u.transcript = a.transcript
        /\ Built(a, u, "CERTIFICATE_REQUEST")
    BY <2>1, <2>3, ConstructKept
  <2>5. Chose(t, u) /\ u.transcript = t.transcript
    BY <2>2, <2>4 DEF Chose
  <2>6. Found(t, u)
    BY <2>5, FoundSame
  <2>7. Carries(t.hand_state) = "ANY"
    BY <1>2 DEF Carries
  <2> QED BY <1>2, <2>2, <2>4, <2>5, <2>6, <2>7 DEF Made, Held, Secrets, Certs, Place, Built
<1>3. CASE t.hand_state = "SW_SESSION_TICKET"
  <2> DEFINE a == IF SSL_IS_TLS13(t) THEN [t EXCEPT !.sent_tickets = t.sent_tickets + 1] ELSE t
  <2>1. a \in SSL
    <3>1. t.sent_tickets + 1 \in Nat
      BY SSLParts DEF SSL
    <3> DEFINE n == t.sent_tickets + 1
    <3> HIDE DEF n
    <3>2. [t EXCEPT !.sent_tickets = n] \in SSL
      BY <3>1, ZenonT(120) DEF SSL, n
    <3> QED BY <3>2 DEF n
  <2>2. /\ Chose(t, a) /\ Held(t, a) /\ Certs(t, a) /\ Place(t, a) /\ a.transcript = t.transcript
    BY DEF SSL, Chose, Held, Secrets, Certs, Place
  <2>3. u = Construct(a, "NEWSESSION_TICKET", {})
    BY <1>3 DEF server_construct_message, tls_construct_new_session_ticket
  <2> HIDE DEF a
  <2>4. Kept(t, a)
    BY <2>2, FoundSame DEF Kept
  <2> QED BY <1>3, <2>1, <2>2, <2>3, <2>4, ConstructMade DEF Carries
<1>4. CASE t.hand_state = "SW_FINISHED"
  <2>1. u = tls_construct_finished(t)
    BY <1>4 DEF server_construct_message
  <2> QED BY <1>4, <2>1, FinishedMade
<1>5. CASE t.hand_state \in {"SW_CHANGE", "SW_ENCRYPTED_EXTENSIONS", "SW_CERT", "SW_CERT_VRFY",
                            "SW_CERT_STATUS", "SW_KEY_EXCH", "SW_SRVR_DONE"}
  <2>1. PICK mt, fl : u = Construct(t, mt, fl) /\ Carries(t.hand_state) \in {"ANY", mt}
    BY <1>5 DEF server_construct_message, Carries
  <2> QED BY <1>5, <2>1, PlainMade
<1>6. CASE ~t.hand_state \in {"SW_SRVR_HELLO", "SW_CERT_REQ", "SW_SESSION_TICKET", "SW_FINISHED",
                            "SW_CHANGE", "SW_ENCRYPTED_EXTENSIONS", "SW_CERT", "SW_CERT_VRFY",
                            "SW_CERT_STATUS", "SW_KEY_EXCH", "SW_SRVR_DONE"}
  BY <1>6 DEF server_construct_message, WriteStates
<1> QED BY <1>1, <1>2, <1>3, <1>4, <1>5, <1>6

\* A HelloRetryRequest drops the session and starts the transcript again.
LEMMA RetryGood ==
  ASSUME NEW t \in SSL, Good(t), t.server, t.state = "WRITING", t.sub = "PRE_WORK",
         t.hand_state = "SW_SRVR_HELLO", Pending(t),
         NEW u, u = tls_construct_server_hello(t)
  PROVE  Good(u) /\ Forward(t, u)
<1> DEFINE a == [t EXCEPT !.hit = FALSE]
           b == create_synthetic_message_hash(a)
<1>1. a \in SSL
  BY ZenonT(120) DEF SSL
<1>2. /\ a.server /\ a.opt = t.opt /\ a.version = t.version /\ a.hello_retry_request = "PENDING"
      /\ a.new_cipher = t.new_cipher /\ ~a.hit /\ Held(t, a) /\ Certs(t, a) /\ Place(t, a)
  BY DEF SSL, Held, Secrets, Certs, Place, Pending
<1> HIDE DEF a
<1>3. b \in SSL
  BY <1>1, SyntheticHashType
<1>4. Chose(a, b) /\ Held(a, b) /\ Certs(a, b) /\ Place(a, b) /\ b.transcript # <<>>
  <2> DEFINE e == Elem("MESSAGE_HASH", UNION {a.transcript[i].flags : i \in DOMAIN a.transcript})
  <2>1. b = [a EXCEPT !.transcript = <<e>>]
    BY DEF create_synthetic_message_hash
  <2> HIDE DEF e, b
  <2> QED BY <1>1, <2>1 DEF SSL, Chose, Held, Secrets, Certs, Place
<1> HIDE DEF b
<1>5. PICK fl : u = Construct(b, "SERVER_HELLO", fl)
  BY Zenon DEF tls_construct_server_hello, Pending, a, b
<1>6. /\ Chose(b, u) /\ Held(b, u) /\ Certs(b, u) /\ u.transcript = b.transcript
      /\ Built(b, u, "SERVER_HELLO")
  BY <1>3, <1>5, ConstructKept
<1>7. /\ u.server /\ u.opt = t.opt /\ u.version = t.version /\ u.hello_retry_request = "PENDING"
      /\ u.new_cipher = t.new_cipher /\ ~u.hit /\ Held(t, u) /\ Certs(t, u)
      /\ u.hand_state = "SW_SRVR_HELLO" /\ u.state = "WRITING" /\ u.sub = "SEND"
      /\ u.transcript # <<>>
  BY <1>2, <1>4, <1>6 DEF Chose, Held, Secrets, Certs, Place, Built
<1>8. Live(t)
  BY DEF Good
<1>9. t.version = "TLS1_3" /\ ~t.peer
  BY <1>8 DEF Live, Early, Server, Server12, Pending, SSL, Versions
<1>10. Live(u)
  <2>1. Flow(u) /\ Early(u)
    BY <1>7, <1>9 DEF Flow, Early, Carries
  <2>2. Server(u)
    BY <1>7, <1>9 DEF Server, Certs
  <2>3. Server13(u)
    BY <1>7, <1>8, <1>9 DEF Live, Server13, Certs, Held, Pending
  <2> QED BY <1>7, <1>9, <2>1, <2>2, <2>3 DEF Live, Server12, Client, Client12, Client13
<1>11. Forward(t, u)
  BY <1>7, <1>9, ForwardSame DEF Held, Pending
<1> QED BY <1>7, <1>10, <1>11 DEF Good, Held

\* pre_work of either side, with what construct_message does after it.
LEMMA PreWorkGood ==
  ASSUME NEW t \in SSL, Good(t), t.state = "WRITING", t.sub = "PRE_WORK",
         t.hand_state \in WriteStates \cup Silent,
         NEW u, u = IF t.server THEN server_pre_work(t) ELSE client_pre_work(t)
  PROVE  Good(u) /\ Forward(t, u)
<1>1. CASE u = ossl_statem_fatal(t, "INTERNAL_ERROR")
  BY <1>1, FatalGood
<1>2. CASE t.hand_state = "OK"
  <2>1. u = ToState(Over(t), "FINISHED")
    BY <1>2, Zenon DEF server_pre_work, client_pre_work, ToState, Over
  <2>2. PICK a : a = Over(t)
    OBVIOUS
  <2>3. u = ToState(a, "FINISHED")
    BY <2>1, <2>2
  <2> QED BY <1>2, <2>2, <2>3, DoneGood
<1>3. CASE t.hand_state # "OK" /\ ~t.server
  <2>1. u = client_construct_message(t)
    BY <1>3 DEF client_pre_work
  <2> QED BY <1>1, <1>3, <2>1, ClientMade, MadeGood
<1>4. CASE t.server /\ t.hand_state = "EARLY_DATA"
  <2>1. u = server_construct_message(t)
    BY <1>4 DEF server_pre_work
  <2>2. u = ToSub(t, "POST_WORK")
    BY <1>4, <2>1 DEF server_construct_message, ToSub
  <2>3. /\ Kept(t, u) /\ u.transcript = t.transcript /\ u.sub = "POST_WORK"
        /\ u.state = t.state /\ u.hand_state = t.hand_state
    BY <2>2, MoveSub
  <2>4. Live(t)
    BY DEF Good
  <2>5. Live(u)
    <3> USE DEF Kept, Chose, Held, Secrets, Certs, Found
    <3> USE DEF Pending, Owed, Demands, aPSK
    <3>1. Flow(u) /\ Early(u)
      BY <1>4, <2>3, <2>4 DEF Live, Flow, Early, Carries
    <3>2. Server(u)
      BY <1>4, <2>3, <2>4 DEF Live, Server
    <3>3. Server12(u)
      BY <1>4, <2>3, <2>4 DEF Live, Server12
    <3>4. Server13(u)
      BY <1>4, <2>3, <2>4 DEF Live, Server13
    <3> QED BY <1>4, <2>3, <3>1, <3>2, <3>3, <3>4 DEF Live, Client, Client12, Client13
  <2>6. Forward(t, u)
    BY <2>3, ForwardKept DEF Kept
  <2> QED BY <2>3, <2>5, <2>6 DEF Good, Kept, Held
<1>5. CASE /\ t.server /\ t.hand_state = "SW_SESSION_TICKET"
           /\ SSL_IS_TLS13(t) /\ t.sent_tickets = 0
  <2>1. u = server_construct_message(Almost(t))
    BY <1>5, Zenon DEF server_pre_work, Almost
  <2>2. PICK a : a = Almost(t)
    OBVIOUS
  <2>3. a \in SSL
    BY <2>2, FinishHandshakeType DEF Almost
  <2>4. Kept(t, a) /\ Place(t, a) /\ a.init_msg = t.init_msg
    BY <2>2, FinishKept
  <2>5. Good(a) /\ a.server /\ a.hand_state = "SW_SESSION_TICKET" /\ a.state = "WRITING"
        /\ a.sub = "PRE_WORK"
    BY <1>5, <2>4, GoodFrame DEF Kept, Chose, Place
  <2>6. u = server_construct_message(a)
    BY <2>1, <2>2
  <2>7. Made(a, u) \/ u = ossl_statem_fatal(a, "INTERNAL_ERROR")
    BY <2>3, <2>5, <2>6, ServerMade DEF WriteStates
  <2>8. Good(u) /\ Forward(a, u)
    BY <2>3, <2>5, <2>7, MadeGood, FatalGood
  <2> QED BY <2>4, <2>8, ForwardFrom DEF Kept, Place
<1>6. CASE /\ t.server /\ t.hand_state \notin {"OK", "EARLY_DATA"}
           /\ ~(/\ t.hand_state = "SW_SESSION_TICKET"
                /\ SSL_IS_TLS13(t) /\ t.sent_tickets = 0)
  <2>1. u = server_construct_message(t)
    BY <1>6 DEF server_pre_work
  <2>2. CASE t.hand_state = "SW_SRVR_HELLO" /\ Pending(t)
    <3>1. u = tls_construct_server_hello(t)
      BY <2>1, <2>2 DEF server_construct_message
    <3> QED BY <1>6, <2>2, <3>1, RetryGood
  <2>3. CASE ~(t.hand_state = "SW_SRVR_HELLO" /\ Pending(t))
    BY <1>1, <1>6, <2>1, <2>3, ServerMade, MadeGood DEF Silent
  <2> QED BY <2>2, <2>3
<1> QED BY <1>2, <1>3, <1>4, <1>5, <1>6

-----------------------------------------------------------------------------
(* ssl3_do_write *)

\* Sending a message hashes it, unless it is one that is never hashed.
LEMMA DoWriteKept ==
  ASSUME NEW t \in SSL, NEW a, a = ssl3_do_write(t)
  PROVE  /\ Chose(t, a) /\ Held(t, a) /\ Certs(t, a) /\ Place(t, a)
         /\ a.transcript = Append(t.transcript, Elem(t.init_msg.mt, t.init_msg.flags))
            \/ (a.transcript = t.transcript
                  /\ t.init_msg.mt \in {"CHANGE_CIPHER_SPEC", "NEWSESSION_TICKET"})
<1> DEFINE q == Append(t.bbio, [t.init_msg EXCEPT !.key = t.enc_write])
           w == [t EXCEPT !.bbio = q]
           e == Elem(t.init_msg.mt, t.init_msg.flags)
<1>1. \/ a = w /\ t.init_msg.mt \in {"CHANGE_CIPHER_SPEC", "NEWSESSION_TICKET"}
      \/ a = [w EXCEPT !.transcript = Append(w.transcript, e)]
  BY DEF ssl3_do_write, ssl3_finish_mac
<1> HIDE DEF q
<1>2. w \in [DOMAIN t -> {w[x] : x \in DOMAIN w}] /\ w.transcript = t.transcript
      /\ Chose(t, w) /\ Held(t, w) /\ Certs(t, w) /\ Place(t, w)
  BY DEF SSL, Chose, Held, Secrets, Certs, Place
<1> HIDE DEF e
<1>3. CASE a = w /\ t.init_msg.mt \in {"CHANGE_CIPHER_SPEC", "NEWSESSION_TICKET"}
  BY <1>2, <1>3
<1>4. CASE a = [w EXCEPT !.transcript = Append(w.transcript, e)]
  BY <1>4 DEF SSL, Chose, Held, Secrets, Certs, Place, e
<1> QED BY <1>1, <1>3, <1>4

LEMMA SendGood ==
  ASSUME NEW t \in SSL, Good(t), t.state = "WRITING", t.sub = "SEND",
         NEW a, a = ssl3_do_write(t), NEW u, u = ToSub(a, "POST_WORK")
  PROVE  Good(u) /\ Forward(t, u)
<1> DEFINE e == Elem(t.init_msg.mt, t.init_msg.flags)
<1>1. a \in SSL
  BY DoWriteType
<1>2. /\ Chose(t, a) /\ Held(t, a) /\ Certs(t, a) /\ Place(t, a)
      /\ a.transcript = Append(t.transcript, e)
         \/ (a.transcript = t.transcript
               /\ t.init_msg.mt \in {"CHANGE_CIPHER_SPEC", "NEWSESSION_TICKET"})
  BY DoWriteKept
<1>3. /\ Kept(a, u) /\ u.transcript = a.transcript
      /\ u.sub = "POST_WORK" /\ u.state = a.state /\ u.hand_state = a.hand_state
  BY <1>1, MoveSub
<1>4. /\ Chose(t, u) /\ Held(t, u) /\ Certs(t, u)
      /\ u.sub = "POST_WORK" /\ u.state = "WRITING" /\ u.hand_state = t.hand_state
      /\ u.transcript = Append(t.transcript, e)
         \/ (u.transcript = t.transcript
               /\ t.init_msg.mt \in {"CHANGE_CIPHER_SPEC", "NEWSESSION_TICKET"})
  BY <1>2, <1>3 DEF Kept, Chose, Held, Secrets, Certs, Place
<1>5. e \in Hashed /\ e.mt = t.init_msg.mt /\ t.transcript \in Hash
      /\ e = Elem(t.init_msg.mt, t.init_msg.flags)
  BY SSLParts, RecordParts, ElemHashed DEF Elem
<1> HIDE DEF e
<1>6. Found(t, u)
  BY <1>4, <1>5, FoundSame, FoundGrows
<1>7. Live(t) /\ t.version \in {"ANY", "TLS1_2", "TLS1_3"}
  BY DEF Good, SSL, Versions
<1>8. t.hand_state = "CW_CLNT_HELLO" => u.transcript # <<>>
  <2> SUFFICES ASSUME t.hand_state = "CW_CLNT_HELLO" PROVE u.transcript # <<>>
    OBVIOUS
  <2>1. t.init_msg.mt = "CLIENT_HELLO"
    BY <1>7 DEF Live, Flow, Carries
  <2> QED BY <1>4, <1>5, <2>1, TranscriptGrows
<1>9. t.hand_state \in {"SW_SRVR_DONE", "SW_FINISHED"} => Opened(u.transcript)
  <2> SUFFICES ASSUME t.hand_state \in {"SW_SRVR_DONE", "SW_FINISHED"} PROVE Opened(u.transcript)
    OBVIOUS
  <2>1. t.init_msg.mt \in {"SERVER_DONE", "FINISHED"}
    BY <1>7 DEF Live, Flow, Carries
  <2> QED BY <1>4, <1>5, <2>1, TranscriptGrows
<1>10. ~t.server /\ t.version = "TLS1_2" /\ t.hand_state = "CW_KEY_EXCH" =>
         (Asks(u) => ServerShown(u))
  <2> SUFFICES ASSUME ~t.server, t.version = "TLS1_2", t.hand_state = "CW_KEY_EXCH", Asks(u)
               PROVE  ServerShown(u)
    OBVIOUS
  <2>1. Asks(t) /\ u.new_cipher = t.new_cipher /\ u.version = t.version
    BY <1>4 DEF Chose, Asks, VerifyPeer
  <2>2. CASE t.new_cipher = "DHE"
    <3>1. ServerShown(t)
      BY <1>7, <2>1, <2>2 DEF Live, Client12
    <3> QED BY <1>6, <3>1 DEF Found
  <2>3. CASE t.new_cipher # "DHE"
    <3>1. t.init_msg.mt = "CLIENT_KEY_EXCHANGE" /\ t.init_msg.flags = {}
      BY <1>7 DEF Live, Flow, Carries
    <3>2. e = Elem("CLIENT_KEY_EXCHANGE", {}) /\ u.transcript = Append(t.transcript, e)
      BY <1>4, <1>5, <3>1
    <3>3. ChainSeen(t.transcript)
      BY <1>7, <2>1 DEF Live, Client12
    <3>4. Follows(u.transcript, 0, TrustedChain, e)
      BY <1>5, <3>2, <3>3, TranscriptGrows
    <3>5. u.version = "TLS1_2" /\ u.new_cipher # "DHE"
      BY <2>1, <2>3
    <3> QED BY <3>2, <3>4, <3>5 DEF ServerShown, SSL_IS_TLS13
  <2> QED BY <2>2, <2>3
<1>11. Live(u)
  <2> USE DEF Chose, Held, Secrets, Certs, Found
  <2> USE DEF Pending, Owed, Demands, aPSK
  <2>0. (Asks(u) <=> Asks(t)) /\ u.version = t.version /\ u.server = t.server
    BY <1>4 DEF Asks, VerifyPeer
  <2>1. Flow(u)
    BY <1>4, <1>6, <1>7, <1>8 DEF Live, Flow
  <2>2. Early(u)
    BY <1>4, <1>7 DEF Live, Early
  <2>3. CASE t.server
    <3>1. Server(u)
      BY <1>4, <1>6, <1>7, <2>3 DEF Live, Server
    <3>2. Server12(u)
      BY <1>4, <1>6, <1>7, <1>9, <2>3 DEF Live, Server12
    <3>3. Server13(u)
      BY <1>4, <1>6, <1>7, <1>9, <2>3 DEF Live, Server13
    <3> QED BY <2>0, <2>1, <2>2, <2>3, <3>1, <3>2, <3>3 DEF Live, Client, Client12, Client13
  <2>4. CASE ~t.server
    <3>1. Client(u)
      BY <1>4, <1>6, <1>7, <2>0, <2>4 DEF Live, Client
    <3>2. Client12(u)
      BY <1>4, <1>6, <1>7, <1>10, <2>0, <2>4 DEF Live, Client12
    <3>3. Client13(u)
      BY <1>4, <1>6, <1>7, <2>0, <2>4 DEF Live, Client13
    <3> QED BY <2>0, <2>1, <2>2, <2>4, <3>1, <3>2, <3>3 DEF Live, Server, Server12, Server13
  <2> QED BY <2>3, <2>4
<1>12. Forward(t, u)
  BY <1>4, ForwardKept
<1> QED BY <1>4, <1>11, <1>12 DEF Good, Held

-----------------------------------------------------------------------------
(* post_work *)

\* The hash saved with the server's key of an epoch.
Saves(t, a, epoch) ==
  IF epoch = "HANDSHAKE"
  THEN /\ a.handshake_traffic_hash = t.transcript
       /\ a.server_finished_hash = t.server_finished_hash
  ELSE /\ a.handshake_traffic_hash = t.handshake_traffic_hash
       /\ a.server_finished_hash = t.transcript

\* Changing a key leaves everything else alone.
Rekeyed(t, a) ==
  /\ Chose(t, a) /\ Certs(t, a) /\ Place(t, a) /\ a.transcript = t.transcript
  /\ a.init_msg = t.init_msg /\ a.plain_alerts = t.plain_alerts /\ a.master_key = t.master_key

LEMMA InstallKept ==
  ASSUME NEW t \in SSL, NEW k, NEW a, a = InstallRead(t, k) \/ a = InstallWrite(t, k)
  PROVE  /\ Rekeyed(t, a) /\ Secrets(t, a)
         /\ a = InstallRead(t, k) => a.enc_read = k /\ a.enc_write = t.enc_write
         /\ a = InstallWrite(t, k) => a.enc_write = k /\ a.enc_read = t.enc_read
<1>1. CASE a = InstallRead(t, k)
  <2>1. Rekeyed(t, a) /\ Secrets(t, a) /\ a.enc_read = k /\ a.enc_write = t.enc_write
    BY <1>1 DEF InstallRead, SSL, Rekeyed, Chose, Secrets, Certs, Place
  <2>2. ASSUME a = InstallWrite(t, k) PROVE a.enc_write = k /\ a.enc_read = t.enc_read
    BY <2>2 DEF InstallWrite, SSL
  <2> QED BY <2>1, <2>2
<1>2. CASE a = InstallWrite(t, k)
  <2>1. Rekeyed(t, a) /\ Secrets(t, a) /\ a.enc_write = k /\ a.enc_read = t.enc_read
    BY <1>2 DEF InstallWrite, SSL, Rekeyed, Chose, Secrets, Certs, Place
  <2>2. ASSUME a = InstallRead(t, k) PROVE a.enc_read = k /\ a.enc_write = t.enc_write
    BY <2>2 DEF InstallRead, SSL
  <2> QED BY <2>1, <2>2
<1> QED BY <1>1, <1>2

LEMMA SaveKept ==
  ASSUME NEW t \in SSL, NEW epoch, NEW a, a = SaveHash(t, epoch)
  PROVE  /\ Rekeyed(t, a) /\ a.enc_read = t.enc_read /\ a.enc_write = t.enc_write
         /\ Saves(t, a, epoch)
<1>1. CASE epoch = "HANDSHAKE"
  BY <1>1 DEF SaveHash, SSL, Rekeyed, Chose, Certs, Place, Saves
<1>2. CASE epoch # "HANDSHAKE"
  BY <1>2 DEF SaveHash, SSL, Rekeyed, Chose, Certs, Place, Saves
<1> QED BY <1>1, <1>2

LEMMA ChangeWriteKept ==
  ASSUME NEW t \in SSL, NEW epoch \in {"HANDSHAKE", "APPLICATION"},
         NEW a, a = tls13_change_write(t, epoch)
  PROVE  /\ Rekeyed(t, a) /\ a.enc_read = t.enc_read
         /\ t.server => a.enc_write = ServerKey13(t, epoch) /\ Saves(t, a, epoch)
         /\ ~t.server => a.enc_write = ClientKey13(t, epoch) /\ Secrets(t, a)
<1>1. CASE t.server
  <2> DEFINE b == SaveHash(t, epoch)
  <2>1. b \in SSL
    BY SaveHashType DEF Epochs
  <2>2. Rekeyed(t, b) /\ b.enc_read = t.enc_read /\ Saves(t, b, epoch)
    BY SaveKept
  <2> HIDE DEF b
  <2>3. a = InstallWrite(b, ServerKey13(t, epoch))
    BY <1>1 DEF tls13_change_write, b
  <2>4. Rekeyed(b, a) /\ Secrets(b, a) /\ a.enc_write = ServerKey13(t, epoch) /\ a.enc_read = b.enc_read
    BY <2>1, <2>3, InstallKept
  <2> QED BY <1>1, <2>2, <2>4 DEF Rekeyed, Chose, Secrets, Certs, Place, Saves
<1>2. CASE ~t.server
  <2>1. a = InstallWrite(t, ClientKey13(t, epoch))
    BY <1>2 DEF tls13_change_write
  <2> QED BY <1>2, <2>1, InstallKept
<1> QED BY <1>1, <1>2

LEMMA ChangeReadKept ==
  ASSUME NEW t \in SSL, NEW epoch \in {"HANDSHAKE", "APPLICATION"},
         NEW a, a = tls13_change_read(t, epoch)
  PROVE  /\ Rekeyed(t, a) /\ a.enc_write = t.enc_write
         /\ ~t.server => a.enc_read = ServerKey13(t, epoch) /\ Saves(t, a, epoch)
         /\ t.server => a.enc_read = ClientKey13(t, epoch) /\ Secrets(t, a)
<1>1. CASE ~t.server
  <2> DEFINE b == SaveHash(t, epoch)
  <2>1. b \in SSL
    BY SaveHashType DEF Epochs
  <2>2. Rekeyed(t, b) /\ b.enc_write = t.enc_write /\ Saves(t, b, epoch)
    BY SaveKept
  <2> HIDE DEF b
  <2>3. a = InstallRead(b, ServerKey13(t, epoch))
    BY <1>1 DEF tls13_change_read, b
  <2>4. Rekeyed(b, a) /\ Secrets(b, a) /\ a.enc_read = ServerKey13(t, epoch) /\ a.enc_write = b.enc_write
    BY <2>1, <2>3, InstallKept
  <2> QED BY <1>1, <2>2, <2>4 DEF Rekeyed, Chose, Secrets, Certs, Place, Saves
<1>2. CASE t.server
  <2>1. a = InstallRead(t, ClientKey13(t, epoch))
    BY <1>2 DEF tls13_change_read
  <2> QED BY <1>2, <2>1, InstallKept
<1> QED BY <1>1, <1>2

\* Both handshake keys of a server.
LEMMA HandshakeKeysKept ==
  ASSUME NEW t \in SSL, t.server, NEW a, a = HandshakeKeys(t)
  PROVE  /\ Chose(t, a) /\ Certs(t, a) /\ Place(t, a) /\ a.transcript = t.transcript
         /\ a.init_msg = t.init_msg /\ a.master_key = t.master_key
         /\ a.handshake_traffic_hash = t.transcript
         /\ a.server_finished_hash = t.server_finished_hash
         /\ a.enc_write = ServerKey13(t, "HANDSHAKE")
         /\ a.enc_read = ClientKey13(a, "HANDSHAKE")
<1> DEFINE b == tls13_change_write(t, "HANDSHAKE")
           c == tls13_change_read(b, "HANDSHAKE")
<1>1. b \in SSL
  BY ChangeKeyType DEF Epochs
<1>2. /\ Rekeyed(t, b) /\ b.enc_write = ServerKey13(t, "HANDSHAKE")
      /\ b.handshake_traffic_hash = t.transcript
      /\ b.server_finished_hash = t.server_finished_hash
  BY ChangeWriteKept DEF Saves
<1> HIDE DEF b
<1>3. c \in SSL
  BY <1>1, ChangeKeyType DEF Epochs
<1>4. Rekeyed(b, c) /\ c.enc_write = b.enc_write /\ Secrets(b, c)
      /\ c.enc_read = ClientKey13(b, "HANDSHAKE")
  <2>1. b.server
    BY <1>2 DEF Rekeyed, Chose
  <2> QED BY <1>1, <2>1, ChangeReadKept
<1> HIDE DEF c
<1>5. a = [c EXCEPT !.plain_alerts = TRUE]
  BY DEF HandshakeKeys, b, c
<1>6. /\ Chose(c, a) /\ Certs(c, a) /\ Place(c, a) /\ Secrets(c, a) /\ a.transcript = c.transcript
      /\ a.init_msg = c.init_msg /\ a.enc_read = c.enc_read /\ a.enc_write = c.enc_write
  BY <1>3, <1>5 DEF SSL, Chose, Secrets, Certs, Place
<1>7. a.handshake_traffic_hash = b.handshake_traffic_hash
  BY <1>4, <1>6 DEF Secrets
<1>8. ClientKey13(a, "HANDSHAKE") = ClientKey13(b, "HANDSHAKE")
  BY <1>7 DEF ClientKey13
<1> QED BY <1>2, <1>4, <1>6, <1>8 DEF Rekeyed, Chose, Secrets, Certs, Place

\* The master secret of TLSv1.2.
LEMMA MasterKept ==
  ASSUME NEW t \in SSL, NEW a, a = ssl_generate_master_secret(t)
  PROVE  /\ Chose(t, a) /\ Certs(t, a) /\ Place(t, a) /\ a.transcript = t.transcript
         /\ a.init_msg = t.init_msg /\ a.plain_alerts = t.plain_alerts
         /\ a.enc_read = t.enc_read /\ a.enc_write = t.enc_write
         /\ a.handshake_traffic_hash = t.handshake_traffic_hash
         /\ a.server_finished_hash = t.server_finished_hash
         /\ t.transcript # <<>> => a.master_key # <<>>
<1> DEFINE k == IF t.extms THEN t.transcript ELSE <<Elem("PREMASTER", {}), Random(t)>>
<1>1. a = [t EXCEPT !.master_key = k]
  BY DEF ssl_generate_master_secret
<1>2. t.transcript # <<>> => k # <<>>
  OBVIOUS
<1> HIDE DEF k
<1> QED BY <1>1, <1>2 DEF SSL, Chose, Certs, Place

\* A step of post_work: what it leaves alone, and where it ends.
Worked(t, u) ==
  /\ Chose(t, u) /\ Certs(t, u) /\ u.transcript = t.transcript
  /\ u.hand_state = t.hand_state /\ u.state = "WRITING" /\ u.sub = "TRANSITION"

LEMMA WorkedFrom ==
  ASSUME NEW t, t.state = "WRITING",
         NEW a, Chose(t, a), Certs(t, a), Place(t, a), a.transcript = t.transcript,
         NEW u, Chose(a, u), Certs(a, u), u.transcript = a.transcript,
         u.sub = "TRANSITION", u.state = a.state, u.hand_state = a.hand_state
  PROVE  Worked(t, u)
BY DEF Worked, Chose, Certs, Place

LEMMA ServerWorkKept ==
  ASSUME NEW t \in SSL, t.server, t.state = "WRITING",
         NEW a, a = server_post_work(t), NEW u, u = ToSub(a, "TRANSITION")
  PROVE  /\ Worked(t, u)
         /\ \/ /\ t.hand_state \in {"SW_SRVR_HELLO", "SW_CHANGE"} /\ SSL_IS_TLS13(t) /\ ~Pending(t)
               /\ u.enc_write = ServerKey13(t, "HANDSHAKE")
               /\ u.enc_read = ClientKey13(u, "HANDSHAKE")
               /\ u.handshake_traffic_hash = t.transcript /\ u.master_key = t.master_key
               /\ u.server_finished_hash = t.server_finished_hash
            \/ /\ t.hand_state = "SW_CHANGE" /\ ~SSL_IS_TLS13(t) /\ ~Pending(t)
               /\ u.enc_write = tls1_key(t, "SERVER") /\ u.enc_read = t.enc_read
               /\ u.plain_alerts = t.plain_alerts /\ Secrets(t, u)
            \/ /\ t.hand_state = "SW_FINISHED" /\ SSL_IS_TLS13(t)
               /\ u.enc_write = ServerKey13(t, "APPLICATION") /\ u.enc_read = t.enc_read
               /\ u.plain_alerts = t.plain_alerts /\ u.master_key = t.master_key
               /\ u.server_finished_hash = t.transcript
            \/ /\ ~(t.hand_state = "SW_CHANGE" /\ ~SSL_IS_TLS13(t) /\ ~Pending(t))
               /\ ~(t.hand_state = "SW_FINISHED" /\ SSL_IS_TLS13(t))
               /\ Held(t, u)
<1>1. a \in SSL
  BY ServerPostWorkType
<1>2. /\ Chose(a, u) /\ Held(a, u) /\ Certs(a, u) /\ u.transcript = a.transcript
      /\ u.sub = "TRANSITION" /\ u.state = a.state /\ u.hand_state = a.hand_state
  BY <1>1, MoveSub DEF Kept
<1>3. CASE /\ t.hand_state \in {"SW_SRVR_HELLO", "SW_CHANGE"} /\ SSL_IS_TLS13(t) /\ ~Pending(t)
           /\ a = HandshakeKeys(t)
  <2>1. /\ Chose(t, a) /\ Certs(t, a) /\ Place(t, a) /\ a.transcript = t.transcript
        /\ a.master_key = t.master_key
        /\ a.handshake_traffic_hash = t.transcript
        /\ a.server_finished_hash = t.server_finished_hash
        /\ a.enc_write = ServerKey13(t, "HANDSHAKE")
        /\ a.enc_read = ClientKey13(a, "HANDSHAKE")
    BY <1>3, HandshakeKeysKept
  <2>2. ClientKey13(u, "HANDSHAKE") = ClientKey13(a, "HANDSHAKE")
    BY <1>2 DEF ClientKey13, Held, Secrets
  <2>3. Worked(t, u)
    BY <1>2, <2>1, WorkedFrom
  <2> QED BY <1>2, <1>3, <2>1, <2>2, <2>3 DEF Held, Secrets
<1>4. CASE /\ t.hand_state = "SW_CHANGE" /\ ~SSL_IS_TLS13(t) /\ ~Pending(t)
           /\ a = InstallWrite(t, tls1_key(t, "SERVER"))
  <2>1. Rekeyed(t, a) /\ Secrets(t, a) /\ a.enc_write = tls1_key(t, "SERVER") /\ a.enc_read = t.enc_read
    BY <1>4, InstallKept
  <2>2. Worked(t, u)
    BY <1>2, <2>1, WorkedFrom DEF Rekeyed
  <2> QED BY <1>2, <1>4, <2>1, <2>2 DEF Rekeyed, Held, Secrets
<1>5. CASE /\ t.hand_state = "SW_FINISHED" /\ SSL_IS_TLS13(t)
           /\ a = tls13_change_write(t, "APPLICATION")
  <2>1. /\ Rekeyed(t, a) /\ a.enc_write = ServerKey13(t, "APPLICATION") /\ a.enc_read = t.enc_read
        /\ a.server_finished_hash = t.transcript
    BY <1>5, ChangeWriteKept DEF Saves
  <2>2. Worked(t, u)
    BY <1>2, <2>1, WorkedFrom DEF Rekeyed
  <2> QED BY <1>2, <1>5, <2>1, <2>2 DEF Rekeyed, Held, Secrets
<1>6. CASE /\ ~(t.hand_state = "SW_CHANGE" /\ ~SSL_IS_TLS13(t) /\ ~Pending(t))
           /\ ~(t.hand_state = "SW_FINISHED" /\ SSL_IS_TLS13(t))
           /\ a = t
  <2>1. Worked(t, u) /\ Held(t, u)
    BY <1>2, <1>6 DEF Worked
  <2> QED BY <1>6, <2>1
<1> QED BY <1>3, <1>4, <1>5, <1>6 DEF server_post_work, Pending

\* post_work of a server.
LEMMA ServerWorkGood ==
  ASSUME NEW t \in SSL, Good(t), t.server, t.state = "WRITING", t.sub = "POST_WORK",
         t.hand_state \in WriteStates \cup Silent,
         NEW a, a = server_post_work(t), NEW u, u = ToSub(a, "TRANSITION")
  PROVE  Good(u) /\ Forward(t, u)
<1>0. Live(t) /\ t.version \in {"ANY", "TLS1_2", "TLS1_3"}
  BY DEF Good, SSL, Versions
<1>1. Worked(t, u)
  BY ServerWorkKept
<1>2. Found(t, u)
  BY <1>1, FoundSame DEF Worked
<1>3. t.transcript # <<>> /\ t.version # "ANY"
  BY <1>0 DEF Live, Flow, Early, WriteStates, Silent
<1>4. Flow(u) /\ Early(u) /\ Server(u)
  <2>1. Flow(u)
    BY <1>1, <1>3 DEF Flow, Worked
  <2>2. Early(u)
    BY <1>1, <1>3 DEF Early, Worked, Chose
  <2>3. Server(u)
    BY <1>0, <1>1, <1>2 DEF Live, Server, Worked, Chose, Certs, Found, Pending, Owed, Demands, aPSK
  <2> QED BY <2>1, <2>2, <2>3
<1>5. ASSUME Server12(u), Server13(u) PROVE Live(u)
  BY <1>1, <1>4, <1>5 DEF Live, Client, Client12, Client13, Worked, Chose
<1>6. Keyed(t.enc_read) /\ Keyed(t.enc_write)
  BY DEF Good
<1>7. u.version = t.version /\ u.hello_retry_request = t.hello_retry_request
      /\ u.state = "WRITING" /\ u.server
  BY <1>1 DEF Worked, Chose
<1>8. ASSUME Rank(u.enc_read) >= Rank(t.enc_read), Rank(u.enc_write) >= Rank(t.enc_write)
      PROVE  Forward(t, u)
  BY <1>7, <1>8, RankNat DEF Forward
<1>9. CASE /\ t.hand_state \in {"SW_SRVR_HELLO", "SW_CHANGE"} /\ SSL_IS_TLS13(t) /\ ~Pending(t)
           /\ u.enc_write = ServerKey13(t, "HANDSHAKE")
           /\ u.enc_read = ClientKey13(u, "HANDSHAKE")
           /\ u.handshake_traffic_hash = t.transcript /\ u.master_key = t.master_key
           /\ u.server_finished_hash = t.server_finished_hash
  <2>1. t.transcript \in Hash /\ Len(t.transcript) > 0
    BY <1>3, SSLParts DEF Hash
  <2>2. Keyed(u.enc_write) /\ Keyed(u.enc_read)
    BY <1>9, <2>1 DEF Keyed, ServerKey13, ClientKey13
  <2>3. u.enc_write.epoch = "HANDSHAKE" /\ u.enc_read.epoch = "HANDSHAKE"
    BY <1>9 DEF ServerKey13, ClientKey13
  <2>4. t.enc_write.epoch \in {"PLAIN", "HANDSHAKE"} /\ t.enc_read.epoch \in {"PLAIN", "HANDSHAKE"}
    BY <1>0, <1>9 DEF Live, Server13, SSL_IS_TLS13
  <2>5. Server13(u)
    BY <1>0, <1>1, <1>9, <2>3 DEF Live, Server13, Worked, Chose, Certs, Pending, SSL_IS_TLS13
  <2>6. Server12(u)
    BY <1>7, <1>9 DEF Server12, SSL_IS_TLS13
  <2>7. Forward(t, u)
    BY <1>8, <2>3, <2>4 DEF Rank
  <2> QED BY <1>5, <1>7, <2>2, <2>5, <2>6, <2>7 DEF Good
<1>10. CASE /\ t.hand_state = "SW_CHANGE" /\ ~SSL_IS_TLS13(t) /\ ~Pending(t)
            /\ u.enc_write = tls1_key(t, "SERVER") /\ u.enc_read = t.enc_read
            /\ u.plain_alerts = t.plain_alerts /\ Secrets(t, u)
  <2>1. t.version = "TLS1_2" /\ t.master_key # <<>>
    BY <1>0, <1>3, <1>10 DEF Live, Server12, SSL_IS_TLS13
  <2>2. Keyed(u.enc_write) /\ Keyed(u.enc_read)
    BY <1>6, <1>10, <2>1, KeyedKeys
  <2>3. u.enc_write.epoch = "TLS1_2"
    BY <1>10 DEF tls1_key
  <2>4. Server12(u)
    BY <1>0, <1>1, <1>2, <1>10, <2>1, <2>3 DEF Live, Server12, Worked, Chose, Certs, Found, Secrets,
       Owed, Demands, aPSK
  <2>5. Server13(u)
    BY <1>7, <2>1 DEF Server13
  <2>6. Rank(u.enc_write) = 2 /\ Rank(u.enc_read) = Rank(t.enc_read)
    BY <1>10, <2>3 DEF Rank
  <2>7. Forward(t, u)
    BY <1>8, <2>6, RankNat
  <2> QED BY <1>5, <1>7, <2>2, <2>4, <2>5, <2>7 DEF Good
<1>11. CASE /\ t.hand_state = "SW_FINISHED" /\ SSL_IS_TLS13(t)
            /\ u.enc_write = ServerKey13(t, "APPLICATION") /\ u.enc_read = t.enc_read
            /\ u.plain_alerts = t.plain_alerts /\ u.master_key = t.master_key
            /\ u.server_finished_hash = t.transcript
  <2>1. Keyed(u.enc_write) /\ Keyed(u.enc_read)
    BY <1>3, <1>6, <1>11, KeyedKeys
  <2>2. u.enc_write.epoch = "APPLICATION"
    BY <1>11 DEF ServerKey13
  <2>3. Server13(u)
    BY <1>0, <1>1, <1>2, <1>3, <1>11, <2>2 DEF Live, Server13, Worked, Chose, Certs, Found, Pending,
       Owed, Demands, aPSK, SSL_IS_TLS13
  <2>4. Server12(u)
    BY <1>7, <1>11 DEF Server12, SSL_IS_TLS13
  <2>5. Rank(u.enc_write) = 2 /\ Rank(u.enc_read) = Rank(t.enc_read)
    BY <1>11, <2>2 DEF Rank
  <2>6. Forward(t, u)
    BY <1>8, <2>5, RankNat
  <2> QED BY <1>5, <1>7, <2>1, <2>3, <2>4, <2>6 DEF Good
<1>12. CASE /\ ~(t.hand_state = "SW_CHANGE" /\ ~SSL_IS_TLS13(t) /\ ~Pending(t))
            /\ ~(t.hand_state = "SW_FINISHED" /\ SSL_IS_TLS13(t))
            /\ Held(t, u)
  <2>1. Server12(u)
    BY <1>0, <1>1, <1>2, <1>12 DEF Live, Server12, Worked, Chose, Certs, Found, Held, Secrets, Pending,
       Owed, Demands, aPSK, SSL_IS_TLS13
  <2>2. Server13(u)
    BY <1>0, <1>1, <1>2, <1>12 DEF Live, Server13, Worked, Chose, Certs, Found, Held, Secrets, Pending,
       Owed, Demands, aPSK, SSL_IS_TLS13
  <2>3. Forward(t, u)
    BY <1>1, <1>12, ForwardKept DEF Worked
  <2> QED BY <1>5, <1>6, <1>7, <1>12, <2>1, <2>2, <2>3 DEF Good, Held
<1> QED BY <1>9, <1>10, <1>11, <1>12, ServerWorkKept

LEMMA ClientWorkKept ==
  ASSUME NEW t \in SSL, ~t.server, t.state = "WRITING",
         NEW a, a = client_post_work(t), NEW u, u = ToSub(a, "TRANSITION")
  PROVE  /\ Worked(t, u) /\ u.plain_alerts = t.plain_alerts /\ u.enc_read = t.enc_read
         /\ u.handshake_traffic_hash = t.handshake_traffic_hash
         /\ u.server_finished_hash = t.server_finished_hash
         /\ \/ /\ t.hand_state = "CW_KEY_EXCH" /\ u.enc_write = t.enc_write
               /\ t.transcript # <<>> => u.master_key # <<>>
            \/ /\ t.hand_state = "CW_CHANGE" /\ ~SSL_IS_TLS13(t) /\ ~Pending(t)
               /\ u.enc_write = tls1_key(t, "CLIENT") /\ u.master_key = t.master_key
            \/ /\ t.hand_state = "CW_FINISHED" /\ SSL_IS_TLS13(t)
               /\ u.enc_write = ClientKey13(t, "APPLICATION") /\ u.master_key = t.master_key
            \/ /\ t.hand_state # "CW_KEY_EXCH"
               /\ ~(t.hand_state = "CW_CHANGE" /\ ~SSL_IS_TLS13(t) /\ ~Pending(t))
               /\ ~(t.hand_state = "CW_FINISHED" /\ SSL_IS_TLS13(t))
               /\ u.enc_write = t.enc_write /\ u.master_key = t.master_key
<1>1. a \in SSL
  BY ClientPostWorkType
<1>2. /\ Chose(a, u) /\ Held(a, u) /\ Certs(a, u) /\ u.transcript = a.transcript
      /\ u.sub = "TRANSITION" /\ u.state = a.state /\ u.hand_state = a.hand_state
  BY <1>1, MoveSub DEF Kept
<1>3. CASE t.hand_state = "CW_KEY_EXCH" /\ a = ssl_generate_master_secret(t)
  <2>1. /\ Chose(t, a) /\ Certs(t, a) /\ Place(t, a) /\ a.transcript = t.transcript
        /\ a.plain_alerts = t.plain_alerts
        /\ a.enc_read = t.enc_read /\ a.enc_write = t.enc_write
        /\ a.handshake_traffic_hash = t.handshake_traffic_hash
        /\ a.server_finished_hash = t.server_finished_hash
        /\ t.transcript # <<>> => a.master_key # <<>>
    BY <1>3, MasterKept
  <2>2. Worked(t, u)
    BY <1>2, <2>1, WorkedFrom
  <2> QED BY <1>2, <1>3, <2>1, <2>2 DEF Held, Secrets
<1>4. CASE /\ t.hand_state = "CW_CHANGE" /\ ~SSL_IS_TLS13(t) /\ ~Pending(t)
           /\ a = InstallWrite(t, tls1_key(t, "CLIENT"))
  <2>1. Rekeyed(t, a) /\ Secrets(t, a) /\ a.enc_write = tls1_key(t, "CLIENT") /\ a.enc_read = t.enc_read
    BY <1>4, InstallKept
  <2>2. Worked(t, u)
    BY <1>2, <2>1, WorkedFrom DEF Rekeyed
  <2> QED BY <1>2, <1>4, <2>1, <2>2 DEF Rekeyed, Held, Secrets
<1>5. CASE /\ t.hand_state = "CW_FINISHED" /\ SSL_IS_TLS13(t)
           /\ a = tls13_change_write(t, "APPLICATION")
  <2>1. /\ Rekeyed(t, a) /\ a.enc_write = ClientKey13(t, "APPLICATION") /\ a.enc_read = t.enc_read
        /\ Secrets(t, a)
    BY <1>5, ChangeWriteKept
  <2>2. Worked(t, u)
    BY <1>2, <2>1, WorkedFrom DEF Rekeyed
  <2> QED BY <1>2, <1>5, <2>1, <2>2 DEF Rekeyed, Held, Secrets
<1>6. CASE /\ t.hand_state # "CW_KEY_EXCH"
           /\ ~(t.hand_state = "CW_CHANGE" /\ ~SSL_IS_TLS13(t) /\ ~Pending(t))
           /\ ~(t.hand_state = "CW_FINISHED" /\ SSL_IS_TLS13(t))
           /\ a = t
  <2>1. Worked(t, u) /\ Held(t, u)
    BY <1>2, <1>6 DEF Worked
  <2> QED BY <1>6, <2>1 DEF Held, Secrets
<1> QED BY <1>3, <1>4, <1>5, <1>6 DEF client_post_work, Pending

\* post_work of a client.
LEMMA ClientWorkGood ==
  ASSUME NEW t \in SSL, Good(t), ~t.server, t.state = "WRITING", t.sub = "POST_WORK",
         t.hand_state \in WriteStates \cup Silent,
         NEW a, a = client_post_work(t), NEW u, u = ToSub(a, "TRANSITION")
  PROVE  Good(u) /\ Forward(t, u)
<1>0. Live(t) /\ t.version \in {"ANY", "TLS1_2", "TLS1_3"}
  BY DEF Good, SSL, Versions
<1>1. /\ Worked(t, u) /\ u.plain_alerts = t.plain_alerts /\ u.enc_read = t.enc_read
      /\ u.handshake_traffic_hash = t.handshake_traffic_hash
      /\ u.server_finished_hash = t.server_finished_hash
  BY ClientWorkKept
<1>2. Found(t, u)
  BY <1>1, FoundSame DEF Worked
<1>3. t.transcript # <<>>
  BY <1>0 DEF Live, Flow, WriteStates, Silent
<1>4. Flow(u) /\ Client(u)
  <2>1. Flow(u)
    BY <1>1, <1>3 DEF Flow, Worked
  <2>2. Client(u)
    BY <1>0, <1>1, <1>2 DEF Live, Client, Worked, Chose, Certs, Found, Asks, VerifyPeer
  <2> QED BY <2>1, <2>2
<1>5. ASSUME Early(u), Client12(u), Client13(u) PROVE Live(u)
  BY <1>1, <1>4, <1>5 DEF Live, Server, Server12, Server13, Worked, Chose
<1>6. Keyed(t.enc_read) /\ Keyed(t.enc_write)
  BY DEF Good
<1>7. u.version = t.version /\ u.hello_retry_request = t.hello_retry_request
      /\ u.state = "WRITING" /\ ~u.server
  BY <1>1 DEF Worked, Chose
<1>8. ASSUME Rank(u.enc_write) >= Rank(t.enc_write)
      PROVE  Forward(t, u)
  <2>1. Rank(u.enc_read) >= Rank(t.enc_read)
    BY <1>1, RankNat
  <2> QED BY <1>7, <1>8, <2>1, RankNat DEF Forward
<1>9. CASE /\ t.hand_state = "CW_KEY_EXCH" /\ u.enc_write = t.enc_write
           /\ t.transcript # <<>> => u.master_key # <<>>
  <2>1. t.version # "ANY"
    BY <1>0, <1>9 DEF Live, Early
  <2>2. Early(u)
    BY <1>7, <2>1 DEF Early
  <2>3. Client12(u)
    BY <1>0, <1>1, <1>2, <1>3, <1>9 DEF Live, Client12, Worked, Chose, Found, Asks, VerifyPeer
  <2>4. Client13(u)
    BY <1>0, <1>1, <1>2, <1>9 DEF Live, Client13, Worked, Chose, Found, Asks, VerifyPeer
  <2>5. Forward(t, u)
    BY <1>8, <1>9, RankNat
  <2> QED BY <1>1, <1>5, <1>6, <1>7, <1>9, <2>2, <2>3, <2>4, <2>5 DEF Good
<1>10. CASE /\ t.hand_state = "CW_CHANGE" /\ ~SSL_IS_TLS13(t) /\ ~Pending(t)
            /\ u.enc_write = tls1_key(t, "CLIENT") /\ u.master_key = t.master_key
  <2>1. t.version = "TLS1_2"
    BY <1>0, <1>10 DEF Live, Early, SSL_IS_TLS13
  <2>2. t.master_key # <<>>
    BY <1>0, <1>10, <2>1 DEF Live, Client12
  <2>3. Keyed(u.enc_write) /\ Keyed(u.enc_read)
    BY <1>1, <1>6, <1>10, <2>2, KeyedKeys
  <2>4. u.enc_write.epoch = "TLS1_2"
    BY <1>10 DEF tls1_key
  <2>5. Client12(u)
    BY <1>0, <1>1, <1>2, <1>10, <2>1, <2>4 DEF Live, Client12, Worked, Chose, Found, Asks, VerifyPeer
  <2>6. Early(u) /\ Client13(u)
    BY <1>7, <2>1 DEF Early, Client13
  <2>7. Rank(u.enc_write) = 2
    BY <2>4 DEF Rank
  <2>8. Forward(t, u)
    BY <1>8, <2>7, RankNat
  <2> QED BY <1>5, <1>7, <2>3, <2>5, <2>6, <2>8 DEF Good
<1>11. CASE /\ t.hand_state = "CW_FINISHED" /\ SSL_IS_TLS13(t)
            /\ u.enc_write = ClientKey13(t, "APPLICATION") /\ u.master_key = t.master_key
  <2>1. t.version = "TLS1_3" /\ t.server_finished_hash # <<>>
    BY <1>0, <1>11 DEF Live, Client13, SSL_IS_TLS13
  <2>2. Keyed(u.enc_write) /\ Keyed(u.enc_read)
    BY <1>1, <1>6, <1>11, <2>1, KeyedKeys
  <2>3. u.enc_write.epoch = "APPLICATION"
    BY <1>11 DEF ClientKey13
  <2>4. Client13(u)
    BY <1>0, <1>1, <1>2, <1>11, <2>1, <2>3 DEF Live, Client13, Worked, Chose, Found, Asks, VerifyPeer
  <2>5. Early(u) /\ Client12(u)
    BY <1>7, <2>1 DEF Early, Client12
  <2>6. Rank(u.enc_write) = 2
    BY <2>3 DEF Rank
  <2>7. Forward(t, u)
    BY <1>8, <2>6, RankNat
  <2> QED BY <1>5, <1>7, <2>2, <2>4, <2>5, <2>7 DEF Good
<1>12. CASE /\ t.hand_state # "CW_KEY_EXCH"
            /\ ~(t.hand_state = "CW_CHANGE" /\ ~SSL_IS_TLS13(t) /\ ~Pending(t))
            /\ ~(t.hand_state = "CW_FINISHED" /\ SSL_IS_TLS13(t))
            /\ u.enc_write = t.enc_write /\ u.master_key = t.master_key
  <2>1. Early(u)
    BY <1>0, <1>1, <1>12 DEF Live, Early, Worked, Chose, Certs, Pending
  <2>2. Client12(u)
    BY <1>0, <1>1, <1>2, <1>12 DEF Live, Client12, Worked, Chose, Found, Pending, SSL_IS_TLS13,
       Asks, VerifyPeer
  <2>3. Client13(u)
    BY <1>0, <1>1, <1>2, <1>12 DEF Live, Client13, Worked, Chose, Found, SSL_IS_TLS13, Asks, VerifyPeer
  <2>4. Forward(t, u)
    BY <1>8, <1>12, RankNat
  <2> QED BY <1>1, <1>5, <1>6, <1>7, <1>12, <2>1, <2>2, <2>3, <2>4 DEF Good
<1> QED BY <1>9, <1>10, <1>11, <1>12, ClientWorkKept

-----------------------------------------------------------------------------
(* read_transition *)

\* A server accepts a message.
LEMMA ServerAccepts ==
  ASSUME NEW t \in SSL, Live(t), t.server, t.state = "READING", t.sub = "HEADER",
         NEW m, m.flags \in FlagsOf(m.mt),
         NEW h, h = server_read_transition(t, m.mt), h # "NONE",
         NEW u, Kept(t, u), u.hand_state = h, u.state = "READING", u.sub = "BODY", u.init_msg = m
  PROVE  Live(u)
<1>0. t.version \in {"ANY", "TLS1_2", "TLS1_3"} /\ u.server /\ u.version = t.version
  BY DEF SSL, Versions, Kept, Chose
<1> USE DEF Kept, Chose, Held, Secrets, Certs, Found
<1> USE DEF Pending, Owed, Demands, aPSK
<1>1. CASE t.version = "TLS1_3"
  <2>1. h = server13_read_transition(t, m.mt)
    BY <1>1 DEF server_read_transition, SSL_IS_TLS13
  <2>2. Flow(u)
    BY <1>1, <2>1 DEF Live, Flow, Carries, server13_read_transition
  <2>3. Server(u)
    BY <1>1, <2>1 DEF Live, Server, Server13, server13_read_transition
  <2>4. Server13(u)
    BY <1>1, <2>1 DEF Live, Server, Server13, server13_read_transition
  <2> QED BY <1>0, <1>1, <2>2, <2>3, <2>4 DEF Live, Early, Server12, Client, Client12, Client13
<1>2. CASE t.version # "TLS1_3"
  <2>1. h = server12_read_transition(t, m.mt)
    BY <1>2 DEF server_read_transition, SSL_IS_TLS13
  <2>2. Flow(u)
    BY <1>2, <2>1 DEF Live, Flow, Carries, server12_read_transition
  <2>3. Early(u)
    BY <1>2, <2>1 DEF Live, Early, server12_read_transition
  <2>4. Server(u)
    BY <1>0, <1>2, <2>1 DEF Live, Early, Server, Server12, server12_read_transition
  <2>5. Server12(u)
    BY <1>2, <2>1 DEF Live, Server, Server12, server12_read_transition
  <2> QED BY <1>0, <1>2, <2>2, <2>3, <2>4, <2>5 DEF Live, Server13, Client, Client12, Client13
<1> QED BY <1>1, <1>2

\* A client accepts a message.
LEMMA ClientAccepts ==
  ASSUME NEW t \in SSL, Live(t), ~t.server, t.state = "READING", t.sub = "HEADER",
         NEW m, m.flags \in FlagsOf(m.mt),
         NEW h, h = client_read_transition(t, m.mt), h # "NONE",
         NEW u, Kept(t, u), u.hand_state = h, u.state = "READING", u.sub = "BODY", u.init_msg = m
  PROVE  Live(u)
<1>0. t.version \in {"ANY", "TLS1_2", "TLS1_3"} /\ ~u.server /\ u.version = t.version
  BY DEF SSL, Versions, Kept, Chose
<1> USE DEF Kept, Chose, Held, Secrets, Certs, Found
<1> USE DEF Pending, Asks, VerifyPeer
<1>1. CASE t.version = "TLS1_3"
  <2>1. h = client13_read_transition(t, m.mt)
    BY <1>1 DEF client_read_transition, SSL_IS_TLS13
  <2>2. Flow(u)
    BY <1>1, <2>1 DEF Live, Flow, Carries, client13_read_transition
  <2>3. Client(u)
    BY <1>1, <2>1 DEF Live, Client, Client13, client13_read_transition
  <2>4. Client13(u)
    BY <1>1, <2>1 DEF Live, Client, Client13, client13_read_transition
  <2> QED BY <1>0, <1>1, <2>2, <2>3, <2>4 DEF Live, Early, Client12, Server, Server12, Server13
<1>2. CASE t.version # "TLS1_3"
  <2>1. h = client12_read_transition(t, m.mt)
    BY <1>2 DEF client_read_transition, SSL_IS_TLS13
  <2>2. Flow(u)
    <3>1. Carries(h) \in {"ANY", m.mt}
      BY <2>1 DEF Carries, client12_read_transition
    <3>2. t.hand_state # "BEFORE"
      BY <2>1 DEF client12_read_transition
    <3>3. t.transcript # <<>>
      BY <3>2 DEF Live, Flow
    <3> QED BY <3>1, <3>3 DEF Flow
  <2>3. Early(u)
    BY <1>2, <2>1 DEF Live, Early, client12_read_transition
  <2>4. Client(u)
    BY <1>0, <1>2, <2>1 DEF Live, Early, Client, Client12, client12_read_transition
  <2>5. Client12(u)
    BY ZenonT(100), <1>2, <2>1 DEF Live, Client, Client12, client12_read_transition, KeyExchangeNext,
       key_exchange_expected, kEphemeral, kAnyPSK, aNULL, aPSK
  <2> QED BY <1>0, <1>2, <2>2, <2>3, <2>4, <2>5 DEF Live, Client13, Server, Server12, Server13
<1> QED BY <1>1, <1>2

\* tls_get_message_header accepts, ignores or refuses what it reads.
ToBody(t, h, m) == [t EXCEPT !.hand_state = h, !.init_msg = m, !.sub = "BODY"]

LEMMA MoveBody ==
  ASSUME NEW t \in SSL, NEW h, NEW m, NEW u, u = ToBody(t, h, m)
  PROVE  /\ Kept(t, u) /\ u.init_msg = m
         /\ u.sub = "BODY" /\ u.state = t.state /\ u.hand_state = h
<1>1. /\ Chose(t, u) /\ Held(t, u) /\ Certs(t, u) /\ u.transcript = t.transcript
      /\ u.init_msg = m /\ u.sub = "BODY" /\ u.state = t.state /\ u.hand_state = h
  BY DEF ToBody, SSL, Chose, Held, Secrets, Certs
<1> QED BY <1>1, FoundSame DEF Kept

LEMMA HeaderGood ==
  ASSUME NEW t \in SSL, Good(t), t.state = "READING", t.sub = "HEADER",
         NEW m, m.flags \in FlagsOf(m.mt),
         NEW u, u = tls_get_message_header(t, m)
  PROVE  Good(u) /\ Forward(t, u)
<1>1. CASE u = t
  BY <1>1, KeptSelf, ForwardKept DEF Kept
<1>2. CASE \E r : u \in {ossl_statem_fatal(t, r), ossl_statem_fatal_no_alert(t, r)}
  BY <1>2, FatalGood
<1>3. CASE read_transition(t, m.mt) # "NONE" /\ u = ToBody(t, read_transition(t, m.mt), m)
  <2> DEFINE h == read_transition(t, m.mt)
  <2>1. /\ Kept(t, u) /\ u.init_msg = m /\ u.sub = "BODY" /\ u.state = t.state /\ u.hand_state = h
    BY <1>3, MoveBody
  <2>2. Live(t)
    BY DEF Good
  <2>3. Live(u)
    <3>1. CASE t.server
      <4>1. h = server_read_transition(t, m.mt)
        BY <3>1 DEF read_transition
      <4> HIDE DEF h
      <4> QED BY <1>3, <2>1, <2>2, <3>1, <4>1, ServerAccepts DEF h
    <3>2. CASE ~t.server
      <4>1. h = client_read_transition(t, m.mt)
        BY <3>2 DEF read_transition
      <4> HIDE DEF h
      <4> QED BY <1>3, <2>1, <2>2, <3>2, <4>1, ClientAccepts DEF h
    <3> QED BY <3>1, <3>2
  <2>4. Forward(t, u)
    BY <2>1, ForwardKept DEF Kept
  <2> QED BY <2>1, <2>3, <2>4 DEF Good, Kept, Held
<1> QED BY <1>1, <1>2, <1>3 DEF tls_get_message_header, ToBody

-----------------------------------------------------------------------------
(* tls_get_message_body *)

\* The message in hand is hashed, unless it is one that is never hashed or a
\* HelloRetryRequest.
LEMMA BodyKept ==
  ASSUME NEW t \in SSL, NEW b, b = tls_get_message_body(t)
  PROVE  /\ Chose(t, b) /\ Held(t, b) /\ Certs(t, b) /\ Place(t, b) /\ b.init_msg = t.init_msg
         /\ b.transcript = Append(t.transcript, Elem(t.init_msg.mt, t.init_msg.flags))
            \/ /\ b.transcript = t.transcript
               /\ t.init_msg.mt \in {"CHANGE_CIPHER_SPEC", "NEWSESSION_TICKET", "SERVER_HELLO"}
               /\ t.init_msg.mt = "SERVER_HELLO" => "HRR" \in t.init_msg.flags
<1> DEFINE mac == final_finish_mac(t, PeerSide(t))
           a == IF t.init_msg.mt = "FINISHED"
                THEN [t EXCEPT !.peer_mac = mac, !.peer_finish_md = TRUE] ELSE t
           e == Elem(t.init_msg.mt, t.init_msg.flags)
<1>1. \/ b = a /\ t.init_msg.mt \in {"CHANGE_CIPHER_SPEC", "NEWSESSION_TICKET", "SERVER_HELLO"}
               /\ (t.init_msg.mt = "SERVER_HELLO" => "HRR" \in t.init_msg.flags)
      \/ b = [a EXCEPT !.transcript = Append(a.transcript, e)]
  BY DEF tls_get_message_body, ssl3_finish_mac
<1> HIDE DEF mac
<1>2. a.transcript = t.transcript /\ a.init_msg = t.init_msg
      /\ Chose(t, a) /\ Held(t, a) /\ Certs(t, a) /\ Place(t, a)
  BY DEF SSL, Chose, Held, Secrets, Certs, Place
<1> HIDE DEF e
<1>3. CASE b = a /\ t.init_msg.mt \in {"CHANGE_CIPHER_SPEC", "NEWSESSION_TICKET", "SERVER_HELLO"}
               /\ (t.init_msg.mt = "SERVER_HELLO" => "HRR" \in t.init_msg.flags)
  BY <1>2, <1>3
<1>4. CASE b = [a EXCEPT !.transcript = Append(a.transcript, e)]
  <2>1. CASE t.init_msg.mt = "FINISHED"
    BY <1>4, <2>1 DEF SSL, Chose, Held, Secrets, Certs, Place, e
  <2>2. CASE t.init_msg.mt # "FINISHED"
    BY <1>4, <2>2 DEF SSL, Chose, Held, Secrets, Certs, Place, e
  <2> QED BY <2>1, <2>2
<1> QED BY <1>1, <1>3, <1>4

\* What hashing the message in hand has shown.
Absorbed(b) ==
  LET h == b.hand_state
      f == b.init_msg.flags
  IN  /\ h # "BEFORE" => b.transcript # <<>>
      /\ b.server /\ h = "SR_CERT" /\ "trusted" \in f => ChainAfter(b.transcript)
      /\ b.server /\ h = "SR_CERT_VRFY" /\ "ok" \in f => ClientProof(b.transcript)
      /\ ~b.server /\ h = "CR_CERT" /\ "trusted" \in f => ChainSeen(b.transcript)
      /\ ~b.server /\ h = "CR_CERT_VRFY" /\ b.version = "TLS1_3" /\ "ok" \in f =>
           (Asks(b) => ServerShown(b))
      /\ ~b.server /\ h = "CR_KEY_EXCH" /\ b.version = "TLS1_2" /\ b.new_cipher = "DHE" /\ "ok" \in f =>
           (Asks(b) => ServerShown(b))

\* The bodies of certificates and signatures.
LEMMA Bodies ==
  ASSUME NEW f
  PROVE  /\ f \in FlagsOf("CERTIFICATE") /\ "trusted" \in f => f = {"chain", "trusted"}
         /\ f \in FlagsOf("CERTIFICATE_VERIFY") /\ "ok" \in f => f = {"ok"}
         /\ f \in FlagsOf("SERVER_KEY_EXCHANGE") /\ "ok" \in f => f = {"ok"}
BY DEF FlagsOf

LEMMA SignedProof ==
  ASSUME NEW b, b.version = "TLS1_3", b.new_cipher = "TLS13",
         Follows(b.transcript, 0, TrustedChain, Signature("CERTIFICATE_VERIFY"))
  PROVE  ServerShown(b)
BY DEF ServerShown, SSL_IS_TLS13

LEMMA BodyGood ==
  ASSUME NEW t \in SSL, Good(t), t.state = "READING", t.sub = "BODY",
         NEW b, b = tls_get_message_body(t)
  PROVE  /\ b \in SSL /\ Good(b) /\ Absorbed(b) /\ Place(t, b)
         /\ Chose(t, b) /\ Held(t, b)
<1> DEFINE e == Elem(t.init_msg.mt, t.init_msg.flags)
<1>1. b \in SSL
  BY GetBodyType
<1>2. /\ Chose(t, b) /\ Held(t, b) /\ Certs(t, b) /\ Place(t, b) /\ b.init_msg = t.init_msg
      /\ b.transcript = Append(t.transcript, e)
         \/ /\ b.transcript = t.transcript
            /\ t.init_msg.mt \in {"CHANGE_CIPHER_SPEC", "NEWSESSION_TICKET", "SERVER_HELLO"}
  BY BodyKept
<1>3. e \in Hashed /\ e.mt = t.init_msg.mt /\ t.transcript \in Hash
      /\ e = Elem(t.init_msg.mt, t.init_msg.flags)
  BY SSLParts, RecordParts, ElemHashed DEF Elem
<1> HIDE DEF e
<1>4. Found(t, b)
  BY <1>2, <1>3, FoundSame, FoundGrows
<1>5. Good(b)
  BY <1>2, <1>4, GoodFrame DEF Kept
<1>6. Live(t) /\ t.init_msg.flags \in FlagsOf(t.init_msg.mt)
  BY DEF Good, Live, Flow
<1>7. ASSUME Carries(t.hand_state) = t.init_msg.mt,
             t.init_msg.mt \notin {"CHANGE_CIPHER_SPEC", "NEWSESSION_TICKET", "SERVER_HELLO"}
      PROVE  b.transcript = Append(t.transcript, e)
  BY <1>2, <1>7
<1>8. b.hand_state # "BEFORE" => b.transcript # <<>>
  <2>1. CASE t.hand_state = "SR_CLNT_HELLO"
    <3>1. t.init_msg.mt = "CLIENT_HELLO"
      BY <1>6, <2>1 DEF Live, Flow, Carries
    <3> QED BY <1>2, <1>3, <3>1, TranscriptGrows
  <2>2. CASE t.hand_state = "BEFORE"
    BY <1>2, <2>2 DEF Place
  <2>3. CASE t.hand_state \notin {"SR_CLNT_HELLO"} /\ b.transcript = Append(t.transcript, e)
    BY <1>3, <2>3, TranscriptGrows
  <2>4. CASE t.hand_state \notin {"SR_CLNT_HELLO", "BEFORE"} /\ b.transcript = t.transcript
    BY <1>6, <2>4 DEF Live, Flow
  <2> QED BY <1>2, <2>1, <2>2, <2>3, <2>4
<1>9. ASSUME b.server, b.hand_state = "SR_CERT", "trusted" \in b.init_msg.flags
      PROVE  ChainAfter(b.transcript)
  <2>1. t.server /\ t.hand_state = "SR_CERT" /\ "trusted" \in t.init_msg.flags
    BY <1>2, <1>9 DEF Chose, Place
  <2>2. t.init_msg.mt = "CERTIFICATE" /\ Opened(t.transcript)
    BY <1>6, <2>1 DEF Live, Flow, Server, Carries
  <2>3. e = TrustedChain
    BY <1>3, <1>6, <2>1, <2>2, Bodies DEF TrustedChain
  <2> QED BY <1>2, <1>3, <2>2, <2>3, TranscriptGrows
<1>10. ASSUME b.server, b.hand_state = "SR_CERT_VRFY", "ok" \in b.init_msg.flags
       PROVE  ClientProof(b.transcript)
  <2>1. t.server /\ t.hand_state = "SR_CERT_VRFY" /\ "ok" \in t.init_msg.flags
    BY <1>2, <1>10 DEF Chose, Place
  <2>2. t.init_msg.mt = "CERTIFICATE_VERIFY" /\ ChainAfter(t.transcript)
    BY <1>6, <2>1 DEF Live, Flow, Server, Carries
  <2>3. e = Signature("CERTIFICATE_VERIFY")
    BY <1>3, <1>6, <2>1, <2>2, Bodies DEF Signature
  <2> QED BY <1>2, <1>3, <2>2, <2>3, TranscriptGrows
<1>11. ASSUME ~b.server, b.hand_state = "CR_CERT", "trusted" \in b.init_msg.flags
       PROVE  ChainSeen(b.transcript)
  <2>1. t.hand_state = "CR_CERT" /\ "trusted" \in t.init_msg.flags
    BY <1>2, <1>11 DEF Place
  <2>2. t.init_msg.mt = "CERTIFICATE"
    BY <1>6, <2>1 DEF Live, Flow, Carries
  <2>3. e = TrustedChain
    BY <1>3, <1>6, <2>1, <2>2, Bodies DEF TrustedChain
  <2> QED BY <1>2, <1>3, <2>2, <2>3, TranscriptGrows
<1>12. ASSUME ~b.server, b.hand_state = "CR_CERT_VRFY", b.version = "TLS1_3",
              "ok" \in b.init_msg.flags, Asks(b)
       PROVE  ServerShown(b)
  <2>1. ~t.server /\ t.hand_state = "CR_CERT_VRFY" /\ "ok" \in t.init_msg.flags
        /\ t.version = "TLS1_3" /\ Asks(t)
    BY <1>2, <1>12 DEF Place, Chose, Asks, VerifyPeer
  <2>2. t.init_msg.mt = "CERTIFICATE_VERIFY"
    BY <1>6, <2>1 DEF Live, Flow, Carries
  <2>3. ChainSeen(t.transcript)
    BY <1>6, <2>1 DEF Live, Client13
  <2>4. e = Signature("CERTIFICATE_VERIFY")
    BY <1>3, <1>6, <2>1, <2>2, Bodies DEF Signature
  <2>5. Follows(b.transcript, 0, TrustedChain, e)
    BY <1>2, <1>3, <2>2, <2>3, TranscriptGrows
  <2>6. Follows(b.transcript, 0, TrustedChain, Signature("CERTIFICATE_VERIFY"))
    BY <2>4, <2>5
  <2>7. b.new_cipher = "TLS13"
    BY <1>2, <1>6, <2>1 DEF Chose, Live, Client13
  <2> QED BY <1>12, <2>6, <2>7, SignedProof
<1>13. ASSUME ~b.server, b.hand_state = "CR_KEY_EXCH", b.version = "TLS1_2", b.new_cipher = "DHE",
              "ok" \in b.init_msg.flags, Asks(b)
       PROVE  ServerShown(b)
  <2>1. ~t.server /\ t.hand_state = "CR_KEY_EXCH" /\ "ok" \in t.init_msg.flags
        /\ t.version = "TLS1_2" /\ Asks(t)
    BY <1>2, <1>13 DEF Place, Chose, Asks, VerifyPeer
  <2>2. t.init_msg.mt = "SERVER_KEY_EXCHANGE"
    BY <1>6, <2>1 DEF Live, Flow, Carries
  <2>3. ChainSeen(t.transcript)
    BY <1>6, <2>1 DEF Live, Client12
  <2>4. e = Signature("SERVER_KEY_EXCHANGE")
    BY <1>3, <1>6, <2>1, <2>2, Bodies DEF Signature
  <2>5. Follows(b.transcript, 0, TrustedChain, e)
    BY <1>2, <1>3, <2>2, <2>3, TranscriptGrows
  <2> QED BY <1>13, <2>4, <2>5 DEF ServerShown, SSL_IS_TLS13
<1>14. Absorbed(b)
  BY <1>8, <1>9, <1>10, <1>11, <1>12, <1>13 DEF Absorbed
<1> QED BY <1>1, <1>2, <1>5, <1>14

-----------------------------------------------------------------------------
(* process_message *)

\* What must hold where a message has been processed and the endpoint moves on
\* with nothing else changed.
Digested(u) ==
  LET h == u.hand_state
  IN  /\ h \in {"SR_CLNT_HELLO", "SR_KEY_EXCH", "SR_CERT_VRFY", "CR_CERT", "CR_CERT_VRFY",
                "CR_CERT_STATUS", "CR_ENCRYPTED_EXTENSIONS", "CR_KEY_EXCH", "CR_CERT_REQ",
                "CR_SRVR_DONE", "CR_SESSION_TICKET"}
      /\ h = "SR_CERT_VRFY" /\ u.server => ClientProof(u.transcript)
      /\ h = "CR_CERT" /\ ~u.server => (Asks(u) => ChainSeen(u.transcript))
      /\ h = "CR_CERT_VRFY" /\ ~u.server /\ u.version = "TLS1_3" => (Asks(u) => ServerShown(u))
      /\ h = "CR_KEY_EXCH" /\ ~u.server /\ u.version = "TLS1_2" /\ u.new_cipher = "DHE" =>
           (Asks(u) => ServerShown(u))

LEMMA DigestGood ==
  ASSUME NEW b \in SSL, Good(b), b.state = "READING", b.sub = "BODY",
         NEW u, Chose(b, u), Found(b, u), ~b.server \/ Certs(b, u),
         u.enc_read = b.enc_read, u.enc_write = b.enc_write, u.plain_alerts = b.plain_alerts,
         u.handshake_traffic_hash = b.handshake_traffic_hash,
         u.server_finished_hash = b.server_finished_hash,
         b.master_key # <<>> => u.master_key # <<>>,
         u.hand_state = b.hand_state, u.transcript # <<>>,
         \/ u.state = "READING" /\ u.sub \in {"HEADER", "POST_PROCESS"}
         \/ u.state = "WRITING" /\ u.sub = "TRANSITION" /\ u.hand_state # "SR_CLNT_HELLO",
         Digested(u)
  PROVE  Good(u) /\ Forward(b, u)
<1>0. Live(b) /\ b.version \in {"ANY", "TLS1_2", "TLS1_3"} /\ b.server \in BOOLEAN
  BY DEF Good, SSL, Versions
<1>1. Flow(u)
  BY DEF Flow
<1>2. Early(u)
  BY <1>0 DEF Live, Early, Chose, Certs, Pending, Digested
<1>3. ASSUME b.server PROVE Live(u)
  <2> USE DEF Chose, Certs, Found
  <2> USE DEF Pending, Owed, Demands, aPSK
  <2>1. Server(u)
    BY <1>0, <1>3 DEF Live, Server, Digested
  <2>2. Server12(u)
    BY <1>0, <1>3 DEF Live, Server12, Digested
  <2>3. Server13(u)
    BY <1>0, <1>3 DEF Live, Server13, Digested
  <2> QED BY <1>1, <1>2, <1>3, <2>1, <2>2, <2>3 DEF Live, Client, Client12, Client13
<1>4. ASSUME ~b.server PROVE Live(u)
  <2> USE DEF Chose, Found
  <2>0. Asks(u) <=> Asks(b)
    BY DEF Asks, VerifyPeer
  <2>1. Client(u)
    BY <1>0, <1>4, <2>0 DEF Live, Client, Digested
  <2>2. Client12(u)
    BY <1>0, <1>4, <2>0 DEF Live, Client12, Digested
  <2>3. Client13(u)
    BY <1>0, <1>4, <2>0 DEF Live, Client13, Digested
  <2> QED BY <1>1, <1>2, <1>4, <2>1, <2>2, <2>3 DEF Live, Server, Server12, Server13
<1>5. Live(u)
  BY <1>0, <1>3, <1>4
<1>6. Forward(b, u)
  <2>1. /\ Rank(u.enc_read) = Rank(b.enc_read) /\ Rank(u.enc_write) = Rank(b.enc_write)
        /\ RetryRank(u.hello_retry_request) = RetryRank(b.hello_retry_request)
        /\ u.version = b.version /\ u.state # "FINISHED"
    BY DEF Chose
  <2> QED BY <2>1, RankNat DEF Forward
<1> QED BY <1>5, <1>6 DEF Good

\* The same where only the sub-state changes.
LEMMA DigestMove ==
  ASSUME NEW b \in SSL, Good(b), b.state = "READING", b.sub = "BODY", b.transcript # <<>>,
         Digested(b),
         NEW u, u = ContinueReading(b) \/ u = ContinueProcessing(b)
                \/ (u = FinishedReading(b) /\ b.hand_state # "SR_CLNT_HELLO")
  PROVE  Good(u) /\ Forward(b, u)
<1>1. u = ToSub(b, "HEADER") \/ u = ToSub(b, "POST_PROCESS")
      \/ (u = ToFlow(b, "WRITING", "TRANSITION") /\ b.hand_state # "SR_CLNT_HELLO")
  BY DEF ContinueReading, ContinueProcessing, FinishedReading, ToSub, ToFlow
<1>2. /\ Kept(b, u) /\ u.hand_state = b.hand_state /\ u.transcript = b.transcript
      /\ \/ u.state = "READING" /\ u.sub \in {"HEADER", "POST_PROCESS"}
         \/ u.state = "WRITING" /\ u.sub = "TRANSITION" /\ u.hand_state # "SR_CLNT_HELLO"
  BY <1>1, MoveSub, MoveFlow
<1>3. Digested(u)
  BY <1>2 DEF Digested, Kept, Chose, Found, Asks, VerifyPeer
<1> QED BY <1>2, <1>3, DigestGood DEF Kept, Held, Secrets

\* SSLfatal, of an object that has changed since: its handshake is not over.
LEMMA FatalAfter ==
  ASSUME NEW t, NEW a \in SSL, a.hand_state # "OK", Keyed(a.enc_read), Keyed(a.enc_write),
         t.version # "ANY" => a.version = t.version,
         Rank(a.enc_read) >= Rank(t.enc_read), Rank(a.enc_write) >= Rank(t.enc_write),
         RetryRank(a.hello_retry_request) >= RetryRank(t.hello_retry_request),
         NEW r, NEW u, u = ossl_statem_fatal(a, r)
  PROVE  Good(u) /\ Forward(t, u)
<1>1. /\ u.state = "ERROR" /\ u.hand_state = a.hand_state /\ u.version = a.version
      /\ u.enc_read = a.enc_read /\ u.enc_write = a.enc_write
      /\ u.hello_retry_request = a.hello_retry_request
  BY DEF SSL, ossl_statem_fatal
<1> QED BY <1>1 DEF Good, Ends, Forward

LEMMA FatalKept ==
  ASSUME NEW t, Good(t), t.hand_state # "OK",
         NEW a \in SSL, a.hand_state = t.hand_state, a.enc_read = t.enc_read,
         a.enc_write = t.enc_write, a.version = t.version,
         a.hello_retry_request = t.hello_retry_request,
         NEW r, NEW u, u = ossl_statem_fatal(a, r)
  PROVE  Good(u) /\ Forward(t, u)
<1>1. /\ Rank(a.enc_read) >= Rank(t.enc_read) /\ Rank(a.enc_write) >= Rank(t.enc_write)
      /\ RetryRank(a.hello_retry_request) >= RetryRank(t.hello_retry_request)
  BY RankNat
<1> QED BY <1>1, FatalAfter DEF Good

\* A change_cipher_spec of TLSv1.2, on either side.
LEMMA ChangeGood ==
  ASSUME NEW b \in SSL, Good(b), b.state = "READING", b.sub = "BODY", b.transcript # <<>>,
         b.hand_state = (IF b.server THEN "SR_CHANGE" ELSE "CR_CHANGE"),
         NEW u, u = tls_process_change_cipher_spec(b)
  PROVE  Good(u) /\ Forward(b, u)
<1> DEFINE a == [b EXCEPT !.change_cipher_spec = TRUE]
           k == tls1_key(b, PeerSide(b))
           c == InstallRead(a, k)
<1>0. Live(b) /\ b.version \in {"ANY", "TLS1_2", "TLS1_3"} /\ b.server \in BOOLEAN
      /\ Keyed(b.enc_write)
  BY DEF Good, SSL, Versions
<1>1. a \in SSL
  BY ZenonT(120) DEF SSL
<1>2. /\ Chose(b, a) /\ Held(b, a) /\ Certs(b, a) /\ Place(b, a) /\ a.transcript = b.transcript
      /\ a.init_msg = b.init_msg
  BY DEF SSL, Chose, Held, Secrets, Certs, Place
<1> HIDE DEF a
<1>3. CASE u = ossl_statem_fatal(b, "CCS_RECEIVED_EARLY")
  BY <1>3, FatalGood
<1>4. CASE u = ossl_statem_fatal(a, "INTERNAL_ERROR")
  <2>1. a.hand_state = b.hand_state /\ b.hand_state # "OK"
    BY <1>2 DEF Place
  <2> QED BY <1>1, <1>2, <1>4, <2>1, FatalKept DEF Chose, Held
<1>5. CASE b.master_key # <<>> /\ u = ContinueReading(c)
  <2>1. c \in SSL
    BY <1>1, InstallType, KeyType, SideType DEF Epochs
  <2>2. /\ Rekeyed(a, c) /\ Secrets(a, c) /\ c.enc_read = k /\ c.enc_write = a.enc_write
    BY <1>1, InstallKept
  <2>3. k.epoch = "TLS1_2" /\ Keyed(k)
    BY <1>5, KeyedKeys DEF tls1_key
  <2> HIDE DEF c, k
  <2>4. u = ToSub(c, "HEADER")
    BY <1>5 DEF ContinueReading, ToSub
  <2>5. /\ Kept(c, u) /\ u.transcript = c.transcript
        /\ u.sub = "HEADER" /\ u.state = c.state /\ u.hand_state = c.hand_state
    BY <2>1, <2>4, MoveSub
  <2>6. /\ Chose(b, u) /\ Certs(b, u) /\ Secrets(b, u) /\ u.transcript = b.transcript
        /\ u.hand_state = b.hand_state /\ u.state = "READING" /\ u.sub = "HEADER"
        /\ u.enc_read = k /\ u.enc_write = b.enc_write /\ u.plain_alerts = b.plain_alerts
    <3>1. Chose(b, c) /\ Certs(b, c) /\ Secrets(b, c) /\ Place(b, c) /\ c.transcript = b.transcript
          /\ c.enc_write = b.enc_write /\ c.plain_alerts = b.plain_alerts
      BY <1>2, <2>2 DEF Rekeyed, Chose, Certs, Held, Secrets, Place
    <3> QED BY <2>2, <2>5, <3>1 DEF Kept, Chose, Certs, Held, Secrets, Place
  <2>7. Found(b, u)
    BY <2>6, FoundSame
  <2>8. Live(u)
    <3>1. Flow(u)
      BY <2>6 DEF Flow
    <3>2. Early(u)
      BY <1>0, <2>6 DEF Live, Early, Chose
    <3>3. ASSUME b.server PROVE Live(u)
      <4> USE DEF Chose, Certs, Secrets, Found
      <4> USE DEF Pending, Owed, Demands, aPSK
      <4>1. Server(u)
        BY <1>0, <2>6, <2>7, <3>3 DEF Live, Server
      <4>2. Server12(u)
        BY <1>0, <1>5, <2>3, <2>6, <2>7, <3>3 DEF Live, Server12
      <4>3. Server13(u)
        BY <1>0, <2>6, <2>7, <3>3 DEF Live, Server13
      <4> QED BY <2>6, <3>1, <3>2, <3>3, <4>1, <4>2, <4>3 DEF Live, Client, Client12, Client13
    <3>4. ASSUME ~b.server PROVE Live(u)
      <4> USE DEF Chose, Certs, Secrets, Found
      <4>0. Asks(u) <=> Asks(b)
        BY <2>6 DEF Asks, VerifyPeer
      <4>1. Client(u)
        BY <1>0, <2>6, <2>7, <3>4, <4>0 DEF Live, Client
      <4>2. Client12(u)
        BY <1>0, <1>5, <2>3, <2>6, <2>7, <3>4, <4>0 DEF Live, Client12
      <4>3. Client13(u)
        BY <1>0, <2>6, <2>7, <3>4, <4>0 DEF Live, Client13
      <4> QED BY <2>6, <3>1, <3>2, <3>4, <4>1, <4>2, <4>3 DEF Live, Server, Server12, Server13
    <3> QED BY <1>0, <3>3, <3>4
  <2>9. Forward(b, u)
    <3>1. Rank(u.enc_read) = 2 /\ Rank(u.enc_write) = Rank(b.enc_write)
          /\ RetryRank(u.hello_retry_request) = RetryRank(b.hello_retry_request)
          /\ u.version = b.version /\ u.state # "FINISHED"
      BY <2>3, <2>6 DEF Rank, Chose
    <3> QED BY <3>1, RankNat DEF Forward
  <2> QED BY <1>0, <2>3, <2>6, <2>8, <2>9 DEF Good
<1> QED BY <1>3, <1>4, <1>5 DEF tls_process_change_cipher_spec, a

\* The Finished of the peer is right: a TLSv1.3 endpoint reads under its
\* application key next.
Closed(b, u) ==
  /\ Chose(b, u) /\ Certs(b, u) /\ u.transcript = b.transcript /\ u.master_key = b.master_key
  /\ u.hand_state = b.hand_state /\ u.state = "WRITING" /\ u.sub = "TRANSITION"
  /\ ~u.plain_alerts /\ u.enc_write = b.enc_write
  /\ ~SSL_IS_TLS13(b) => u.enc_read = b.enc_read /\ Secrets(b, u)
  /\ SSL_IS_TLS13(b) /\ b.server => u.enc_read = ClientKey13(b, "APPLICATION") /\ Secrets(b, u)
  /\ SSL_IS_TLS13(b) /\ ~b.server =>
       u.enc_read = ServerKey13(b, "APPLICATION") /\ Saves(b, u, "APPLICATION")

LEMMA ClosedGood ==
  ASSUME NEW b \in SSL, Good(b), b.state = "READING", b.sub = "BODY", b.transcript # <<>>,
         b.hand_state = (IF b.server THEN "SR_FINISHED" ELSE "CR_FINISHED"),
         NEW u, Closed(b, u)
  PROVE  Good(u) /\ Forward(b, u)
<1>0. Live(b) /\ b.version \in {"ANY", "TLS1_2", "TLS1_3"} /\ b.server \in BOOLEAN
      /\ Keyed(b.enc_read) /\ Keyed(b.enc_write)
  BY DEF Good, SSL, Versions
<1>1. b.version # "ANY"
  BY <1>0 DEF Live, Early
<1>2. Found(b, u)
  BY FoundSame DEF Closed
<1>3. Flow(u) /\ Early(u)
  BY <1>1 DEF Flow, Early, Closed, Chose
<1>4. CASE b.version = "TLS1_2"
  <2>1. u.enc_read = b.enc_read /\ Secrets(b, u)
    BY <1>4 DEF Closed, SSL_IS_TLS13
  <2>2. ASSUME b.server PROVE Live(u)
    <3> USE DEF Closed, Chose, Certs, Secrets, Found
    <3> USE DEF Pending, Owed, Demands, aPSK
    <3>1. Server(u)
      BY <1>0, <1>2, <1>4, <2>1, <2>2 DEF Live, Server
    <3>2. Server12(u)
      BY <1>0, <1>2, <1>4, <2>1, <2>2 DEF Live, Server12
    <3> QED BY <1>3, <1>4, <2>2, <3>1, <3>2 DEF Live, Server13, Client, Client12, Client13
  <2>3. ASSUME ~b.server PROVE Live(u)
    <3> USE DEF Closed, Chose, Certs, Secrets, Found
    <3>0. Asks(u) <=> Asks(b)
      BY DEF Asks, VerifyPeer
    <3>1. Client(u)
      BY <1>0, <1>2, <1>4, <2>1, <2>3, <3>0 DEF Live, Client
    <3>2. Client12(u)
      BY <1>0, <1>2, <1>4, <2>1, <2>3, <3>0 DEF Live, Client12
    <3> QED BY <1>3, <1>4, <2>3, <3>1, <3>2 DEF Live, Client13, Server, Server12, Server13
  <2>4. Live(u)
    BY <1>0, <2>2, <2>3
  <2>5. Forward(b, u)
    <3>1. Rank(u.enc_read) = Rank(b.enc_read) /\ Rank(u.enc_write) = Rank(b.enc_write)
          /\ RetryRank(u.hello_retry_request) = RetryRank(b.hello_retry_request)
          /\ u.version = b.version /\ u.state # "FINISHED"
      BY <2>1 DEF Closed, Chose
    <3> QED BY <3>1, RankNat DEF Forward
  <2> QED BY <1>0, <2>1, <2>4, <2>5 DEF Good, Closed
<1>5. CASE b.version = "TLS1_3"
  <2>1. SSL_IS_TLS13(b)
    BY <1>5 DEF SSL_IS_TLS13
  <2>2. ASSUME b.server PROVE Live(u) /\ Keyed(u.enc_read)
    <3>0. u.enc_read = ClientKey13(b, "APPLICATION") /\ Secrets(b, u)
      BY <2>1, <2>2 DEF Closed
    <3>1. u.enc_read.epoch = "APPLICATION"
      BY <3>0 DEF ClientKey13
    <3>2. b.server_finished_hash # <<>>
      BY <1>0, <1>5, <2>2 DEF Live, Server13
    <3>3. Keyed(u.enc_read)
      BY <3>0, <3>2, KeyedKeys
    <3> USE DEF Closed, Chose, Certs, Secrets, Found
    <3> USE DEF Pending, Owed, Demands, aPSK
    <3>4. Server(u)
      BY <1>0, <1>2, <1>5, <2>2 DEF Live, Server
    <3>5. Server13(u)
      BY <1>0, <1>2, <1>5, <2>2, <3>0, <3>1 DEF Live, Server13
    <3> QED BY <1>3, <1>5, <2>2, <3>3, <3>4, <3>5 DEF Live, Server12, Client, Client12, Client13
  <2>3. ASSUME ~b.server PROVE Live(u) /\ Keyed(u.enc_read)
    <3>0. /\ u.enc_read = ServerKey13(b, "APPLICATION")
          /\ u.handshake_traffic_hash = b.handshake_traffic_hash
          /\ u.server_finished_hash = b.transcript
      BY <2>1, <2>3 DEF Closed, Saves
    <3>1. u.enc_read.epoch = "APPLICATION"
      BY <3>0 DEF ServerKey13
    <3>2. Keyed(u.enc_read)
      BY <3>0, KeyedKeys
    <3> USE DEF Closed, Chose, Certs, Found
    <3>3. Asks(u) <=> Asks(b)
      BY DEF Asks, VerifyPeer
    <3>4. Client(u)
      BY <1>0, <1>2, <1>5, <2>3, <3>3 DEF Live, Client
    <3>5. Client13(u)
      BY <1>0, <1>2, <1>5, <2>3, <3>0, <3>1, <3>3 DEF Live, Client13
    <3> QED BY <1>3, <1>5, <2>3, <3>2, <3>4, <3>5 DEF Live, Client12, Server, Server12, Server13
  <2>4. Live(u) /\ Keyed(u.enc_read)
    BY <1>0, <2>2, <2>3
  <2>5. Forward(b, u)
    <3>1. u.enc_read.epoch = "APPLICATION"
      BY <1>0, <2>1 DEF Closed, ServerKey13, ClientKey13
    <3>2. Rank(u.enc_read) = 2 /\ Rank(u.enc_write) = Rank(b.enc_write)
          /\ RetryRank(u.hello_retry_request) = RetryRank(b.hello_retry_request)
          /\ u.version = b.version /\ u.state # "FINISHED"
      BY <3>1 DEF Closed, Chose, Rank
    <3> QED BY <3>2, RankNat DEF Forward
  <2> QED BY <1>0, <2>4, <2>5 DEF Good, Closed
<1> QED BY <1>0, <1>1, <1>4, <1>5

\* A Finished, on either side.
LEMMA FinishedGood ==
  ASSUME NEW t \in SSL, Good(t), t.state = "READING", t.sub = "BODY", t.transcript # <<>>,
         t.hand_state = (IF t.server THEN "SR_FINISHED" ELSE "CR_FINISHED"),
         NEW m, NEW u, u = tls_process_finished(t, m)
  PROVE  Good(u) /\ Forward(t, u)
<1> DEFINE a == [t EXCEPT !.plain_alerts = t.plain_alerts /\ ~t.server,
                          !.cleanuphand = t.cleanuphand \/ t.server]
           b == [a EXCEPT !.change_cipher_spec = FALSE]
<1>0. t.server \in BOOLEAN /\ t.hand_state # "OK" /\ (~t.server => ~t.plain_alerts)
  BY DEF Good, Live, Client, SSL
<1>1. a \in SSL
  <2>1. (t.plain_alerts /\ ~t.server) \in BOOLEAN /\ (t.cleanuphand \/ t.server) \in BOOLEAN
    OBVIOUS
  <2>2. ASSUME NEW p \in BOOLEAN, NEW c \in BOOLEAN
        PROVE  [t EXCEPT !.plain_alerts = p, !.cleanuphand = c] \in SSL
    BY ZenonT(120) DEF SSL
  <2> QED BY ZenonT(120), <2>1, <2>2
<1>2. /\ Chose(t, a) /\ Secrets(t, a) /\ Certs(t, a) /\ Place(t, a) /\ a.transcript = t.transcript
      /\ a.enc_read = t.enc_read /\ a.enc_write = t.enc_write
      /\ a.plain_alerts = (t.plain_alerts /\ ~t.server)
  <2> DEFINE p == t.plain_alerts /\ ~t.server
             c == t.cleanuphand \/ t.server
  <2>1. a = [t EXCEPT !.plain_alerts = p, !.cleanuphand = c]
    OBVIOUS
  <2> HIDE DEF a, p, c
  <2>2. /\ Chose(t, a) /\ Secrets(t, a) /\ Certs(t, a) /\ Place(t, a) /\ a.transcript = t.transcript
        /\ a.enc_read = t.enc_read /\ a.enc_write = t.enc_write /\ a.plain_alerts = p
    BY <2>1 DEF SSL, Chose, Secrets, Certs, Place
  <2> QED BY <2>2 DEF p
<1>3. ~a.plain_alerts
  BY <1>0, <1>2
<1> HIDE DEF a
<1>4. b \in SSL
  BY ZenonT(120), <1>1 DEF SSL
<1>5. /\ Chose(a, b) /\ Secrets(a, b) /\ Certs(a, b) /\ Place(a, b) /\ b.transcript = a.transcript
      /\ b.enc_read = a.enc_read /\ b.enc_write = a.enc_write /\ b.plain_alerts = a.plain_alerts
  BY <1>1 DEF SSL, Chose, Secrets, Certs, Place
<1> HIDE DEF b
<1>6. /\ Chose(t, b) /\ Secrets(t, b) /\ Certs(t, b) /\ Place(t, b) /\ b.transcript = t.transcript
      /\ b.enc_read = t.enc_read /\ b.enc_write = t.enc_write /\ ~b.plain_alerts
  BY <1>2, <1>3, <1>5 DEF Chose, Secrets, Certs, Place
<1>7. CASE u = ossl_statem_fatal(a, "GOT_A_FIN_BEFORE_A_CCS")
  BY <1>0, <1>1, <1>2, <1>7, FatalKept DEF Chose, Place
<1>8. CASE u = ossl_statem_fatal(b, "DIGEST_CHECK_FAILED")
  BY <1>0, <1>4, <1>6, <1>8, FatalKept DEF Chose, Place
<1>9. CASE u = FinishedReading(IF SSL_IS_TLS13(t) THEN tls13_change_read(b, "APPLICATION") ELSE b)
  <2>1. PICK c : c = IF SSL_IS_TLS13(t) THEN tls13_change_read(b, "APPLICATION") ELSE b
    OBVIOUS
  <2>2. u = ToFlow(c, "WRITING", "TRANSITION")
    BY <1>9, <2>1 DEF FinishedReading, ToFlow
  <2>3. c \in SSL
    BY <1>4, <2>1, ChangeKeyType DEF Epochs
  <2>4. /\ Kept(c, u) /\ u.transcript = c.transcript
        /\ u.sub = "TRANSITION" /\ u.state = "WRITING" /\ u.hand_state = c.hand_state
    BY <2>2, <2>3, MoveFlow
  <2>5. Closed(t, u)
    <3>1. CASE ~SSL_IS_TLS13(t)
      <4>1. c = b
        BY <2>1, <3>1
      <4> QED BY <1>6, <2>4, <3>1, <4>1 DEF Closed, Kept, Chose, Certs, Held, Secrets, Place
    <3>2. CASE SSL_IS_TLS13(t)
      <4>1. c = tls13_change_read(b, "APPLICATION")
        BY <2>1, <3>2
      <4>2. /\ Rekeyed(b, c) /\ c.enc_write = b.enc_write
            /\ ~b.server => c.enc_read = ServerKey13(b, "APPLICATION") /\ Saves(b, c, "APPLICATION")
            /\ b.server => c.enc_read = ClientKey13(b, "APPLICATION") /\ Secrets(b, c)
        BY <1>4, <4>1, ChangeReadKept
      <4>3. /\ ServerKey13(b, "APPLICATION") = ServerKey13(t, "APPLICATION")
            /\ ClientKey13(b, "APPLICATION") = ClientKey13(t, "APPLICATION")
        BY <1>6 DEF ServerKey13, ClientKey13, Secrets
      <4>4. /\ Chose(t, u) /\ Certs(t, u) /\ u.transcript = t.transcript
            /\ u.master_key = t.master_key /\ u.hand_state = t.hand_state
            /\ ~u.plain_alerts /\ u.enc_write = t.enc_write /\ u.enc_read = c.enc_read
        BY <1>6, <2>4, <4>2 DEF Kept, Rekeyed, Chose, Certs, Held, Secrets, Place
      <4>5. CASE t.server
        <5>1. b.server
          BY <1>6, <4>5 DEF Chose
        <5>2. Secrets(t, u)
          BY <1>6, <2>4, <4>2, <5>1 DEF Kept, Held, Secrets
        <5> QED BY <2>4, <3>2, <4>2, <4>3, <4>4, <4>5, <5>1, <5>2 DEF Closed
      <4>6. CASE ~t.server
        <5>1. ~b.server
          BY <1>6, <4>6 DEF Chose
        <5>2. Saves(t, u, "APPLICATION")
          BY <1>6, <2>4, <4>2, <5>1 DEF Kept, Held, Secrets, Saves
        <5> QED BY <2>4, <3>2, <4>2, <4>3, <4>4, <4>6, <5>1, <5>2 DEF Closed
      <4> QED BY <4>5, <4>6
    <3> QED BY <3>1, <3>2
  <2> QED BY <2>5, ClosedGood
<1> QED BY <1>7, <1>8, <1>9 DEF tls_process_finished, a, b

\* The client's chain: trusted, or absent where none is demanded.
LEMMA CertificateGood ==
  ASSUME NEW b \in SSL, Good(b), b.server, b.hand_state = "SR_CERT", b.state = "READING",
         b.sub = "BODY", Absorbed(b),
         NEW u, u = tls_process_client_certificate(b, b.init_msg)
  PROVE  Good(u) /\ Forward(b, u)
<1> DEFINE a == [b EXCEPT !.plain_alerts = FALSE]
           chain == "chain" \in b.init_msg.flags
           n == IF SSL_IS_TLS13(b) THEN 0 ELSE a.sent_tickets
           c == [a EXCEPT !.peer = chain, !.sent_tickets = n]
<1>0. Live(b) /\ b.version \in {"ANY", "TLS1_2", "TLS1_3"} /\ Keyed(b.enc_read) /\ Keyed(b.enc_write)
  BY DEF Good, SSL, Versions
<1>1. a \in SSL
  BY ZenonT(120) DEF SSL
<1>2. /\ Chose(b, a) /\ Secrets(b, a) /\ Place(b, a) /\ a.transcript = b.transcript
      /\ a.enc_read = b.enc_read /\ a.enc_write = b.enc_write /\ ~a.plain_alerts
      /\ a.cert_request = b.cert_request
  BY DEF SSL, Chose, Secrets, Place
<1> HIDE DEF a
<1>3. CASE \E r : u = ossl_statem_fatal(a, r)
  <2>1. b.hand_state # "OK"
    OBVIOUS
  <2> QED BY <1>1, <1>2, <1>3, <2>1, FatalKept DEF Chose, Place
<1>4. CASE /\ chain \/ b.opt.verify # "FAIL"
           /\ chain => "trusted" \in b.init_msg.flags
           /\ u = ContinueReading(c)
  <2>1. n \in Nat /\ chain \in BOOLEAN
    BY <1>1, SSLParts
  <2>2. ASSUME NEW p \in BOOLEAN, NEW k \in Nat
        PROVE  [a EXCEPT !.peer = p, !.sent_tickets = k] \in SSL
    BY ZenonT(120), <1>1 DEF SSL
  <2>3. c \in SSL
    BY ZenonT(120), <2>1, <2>2
  <2>4. /\ Chose(a, c) /\ Secrets(a, c) /\ Place(a, c) /\ c.transcript = a.transcript
        /\ c.enc_read = a.enc_read /\ c.enc_write = a.enc_write
        /\ c.plain_alerts = a.plain_alerts /\ c.cert_request = a.cert_request
        /\ c.peer = chain
    <3>1. c = [a EXCEPT !.peer = chain, !.sent_tickets = n]
      OBVIOUS
    <3> HIDE DEF c, chain, n
    <3> QED BY <1>1, <3>1 DEF SSL, Chose, Secrets, Place
  <2> HIDE DEF c
  <2>6. u = ToSub(c, "HEADER")
    BY <1>4 DEF ContinueReading, ToSub
  <2>7. /\ Kept(c, u) /\ u.transcript = c.transcript
        /\ u.sub = "HEADER" /\ u.state = c.state /\ u.hand_state = c.hand_state
    BY <2>3, <2>6, MoveSub
  <2>8. /\ Chose(b, u) /\ Secrets(b, u) /\ u.transcript = b.transcript
        /\ u.hand_state = "SR_CERT" /\ u.state = "READING" /\ u.sub = "HEADER"
        /\ u.enc_read = b.enc_read /\ u.enc_write = b.enc_write /\ ~u.plain_alerts
        /\ u.cert_request = b.cert_request /\ u.peer = chain
    BY <1>2, <2>4, <2>7 DEF Kept, Chose, Held, Secrets, Certs, Place
  <2>9. /\ u.peer => ChainAfter(u.transcript)
        /\ u.transcript # <<>> /\ u.cert_request /\ Opened(u.transcript)
        /\ Demands(u) => u.peer
    <3>1. b.transcript # <<>> /\ (chain => ChainAfter(b.transcript))
      BY <1>4 DEF Absorbed
    <3>2. b.cert_request /\ Opened(b.transcript)
      BY <1>0 DEF Live, Server
    <3> QED BY <1>4, <2>8, <3>1, <3>2 DEF Demands, Chose
  <2>10. Found(b, u)
    BY <2>8, FoundSame
  <2> HIDE DEF chain, n
  <2>11. Live(u)
    <3> USE DEF Chose, Secrets, Found
    <3>1. Flow(u)
      BY <2>8, <2>9 DEF Flow
    <3>2. Early(u)
      BY <1>0, <2>8 DEF Live, Early
    <3>3. ~Pending(u)
      BY <1>0, <2>8, <3>2 DEF Live, Early, Server12, Server13, Pending
    <3>4. Server(u)
      BY <2>8, <2>9, <3>3 DEF Server
    <3>5. Server12(u)
      BY <1>0, <2>8, <2>9 DEF Live, Server12
    <3>6. Server13(u)
      BY <1>0, <2>8, <2>9, <2>10 DEF Live, Server13, Pending
    <3> QED BY <2>8, <3>1, <3>2, <3>4, <3>5, <3>6 DEF Live, Client, Client12, Client13
  <2>12. Forward(b, u)
    <3>1. /\ Rank(u.enc_read) = Rank(b.enc_read) /\ Rank(u.enc_write) = Rank(b.enc_write)
          /\ RetryRank(u.hello_retry_request) = RetryRank(b.hello_retry_request)
          /\ u.version = b.version /\ u.state # "FINISHED"
      BY <2>8 DEF Chose
    <3> QED BY <3>1, RankNat DEF Forward
  <2> QED BY <1>0, <2>8, <2>11, <2>12 DEF Good
<1> QED BY <1>3, <1>4 DEF tls_process_client_certificate, a

\* A CertificateVerify, on either side.
LEMMA VerifyGood ==
  ASSUME NEW b \in SSL, Good(b), b.state = "READING", b.sub = "BODY", Absorbed(b),
         b.hand_state = (IF b.server THEN "SR_CERT_VRFY" ELSE "CR_CERT_VRFY"),
         NEW u, u = tls_process_cert_verify(b, b.init_msg)
  PROVE  Good(u) /\ Forward(b, u)
<1>0. b.transcript # <<>>
  BY DEF Absorbed
<1>1. CASE u = ossl_statem_fatal(b, "BAD_SIGNATURE")
  BY <1>1, FatalGood
<1>2. CASE "ok" \in b.init_msg.flags /\ (u = ContinueReading(b) \/ u = ContinueProcessing(b))
  <2>1. Digested(b)
    BY <1>2 DEF Absorbed, Digested
  <2> QED BY <1>0, <1>2, <2>1, DigestMove
<1> QED BY <1>1, <1>2 DEF tls_process_cert_verify

LEMMA ServerProcessGood ==
  ASSUME NEW b \in SSL, Good(b), b.state = "READING", b.sub = "BODY", b.server, Absorbed(b),
         NEW u, u = server_process_message(b, b.init_msg)
  PROVE  Good(u) /\ Forward(b, u)
<1>1. CASE b.hand_state = "SR_CLNT_HELLO"
  <2>1. u = ContinueProcessing(b)
    BY <1>1 DEF server_process_message
  <2>2. Digested(b) /\ b.transcript # <<>>
    BY <1>1 DEF Digested, Absorbed
  <2> QED BY <2>1, <2>2, DigestMove
<1>2. CASE b.hand_state = "SR_CERT"
  BY <1>2, CertificateGood DEF server_process_message
<1>3. CASE b.hand_state = "SR_KEY_EXCH"
  <2>1. PICK a : a = ssl_generate_master_secret(b)
    OBVIOUS
  <2>2. u = ToSub(a, "POST_PROCESS")
    BY <1>3, <2>1 DEF server_process_message, tls_process_client_key_exchange,
       ContinueProcessing, ToSub
  <2>3. a \in SSL
    BY <2>1, MasterSecretType
  <2>4. b.transcript # <<>>
    BY <1>3 DEF Absorbed
  <2>5. /\ Chose(b, a) /\ Certs(b, a) /\ Place(b, a) /\ a.transcript = b.transcript
        /\ a.plain_alerts = b.plain_alerts
        /\ a.enc_read = b.enc_read /\ a.enc_write = b.enc_write
        /\ a.handshake_traffic_hash = b.handshake_traffic_hash
        /\ a.server_finished_hash = b.server_finished_hash
        /\ a.master_key # <<>>
    BY <2>1, <2>4, MasterKept
  <2>6. /\ Kept(a, u) /\ u.transcript = a.transcript
        /\ u.sub = "POST_PROCESS" /\ u.state = a.state /\ u.hand_state = a.hand_state
    BY <2>2, <2>3, MoveSub
  <2>7. /\ Chose(b, u) /\ Certs(b, u) /\ u.transcript = b.transcript
        /\ u.plain_alerts = b.plain_alerts
        /\ u.enc_read = b.enc_read /\ u.enc_write = b.enc_write
        /\ u.handshake_traffic_hash = b.handshake_traffic_hash
        /\ u.server_finished_hash = b.server_finished_hash
        /\ u.master_key # <<>> /\ u.hand_state = b.hand_state /\ u.state = "READING"
    BY <2>5, <2>6 DEF Kept, Chose, Held, Secrets, Certs, Place
  <2>8. Found(b, u) /\ Digested(u)
    BY <1>3, <2>7, FoundSame DEF Digested
  <2> QED BY <2>4, <2>6, <2>7, <2>8, DigestGood
<1>4. CASE b.hand_state = "SR_CERT_VRFY"
  BY <1>4, VerifyGood DEF server_process_message
<1>5. CASE b.hand_state = "SR_CHANGE"
  <2>1. b.transcript # <<>> /\ u = tls_process_change_cipher_spec(b)
    BY <1>5 DEF Absorbed, server_process_message
  <2> QED BY <1>5, <2>1, ChangeGood
<1>6. CASE b.hand_state = "SR_FINISHED"
  <2>1. b.transcript # <<>> /\ u = tls_process_finished(b, b.init_msg)
    BY <1>6 DEF Absorbed, server_process_message
  <2> QED BY <1>6, <2>1, FinishedGood
<1>7. CASE u = ossl_statem_fatal(b, "INTERNAL_ERROR")
  BY <1>7, FatalGood
<1> QED BY <1>1, <1>2, <1>3, <1>4, <1>5, <1>6, <1>7 DEF server_process_message

-----------------------------------------------------------------------------
(* The ServerHello *)

\* A client that reads a ServerHello has chosen nothing and has no keys.
Blank(b) ==
  /\ b \in SSL /\ ~b.server /\ b.hand_state = "CR_SRVR_HELLO" /\ b.version = "ANY"
  /\ b.enc_read = PlainKey /\ b.enc_write = PlainKey /\ ~b.plain_alerts
  /\ b.hello_retry_request \in {"NONE", "PENDING"} /\ b.transcript # <<>>

\* What a change to such an object must keep for it to fail in peace.
LEMMA BlankFatal ==
  ASSUME NEW b, Blank(b), NEW a \in SSL, a.hand_state = b.hand_state, a.enc_read = PlainKey,
         a.enc_write = PlainKey,
         a.hello_retry_request = b.hello_retry_request \/ a.hello_retry_request = "PENDING",
         NEW r, NEW u, u = ossl_statem_fatal(a, r)
  PROVE  Good(u) /\ Forward(b, u)
<1>1. /\ Rank(a.enc_read) >= Rank(b.enc_read) /\ Rank(a.enc_write) >= Rank(b.enc_write)
      /\ RetryRank(a.hello_retry_request) >= RetryRank(b.hello_retry_request)
  BY DEF Blank, Rank, RetryRank, PlainKey
<1>2. Keyed(a.enc_read) /\ Keyed(a.enc_write)
  BY DEF Keyed, PlainKey
<1> QED BY <1>1, <1>2, FatalAfter DEF Blank

\* A HelloRetryRequest: the client writes again.
LEMMA HelloRetryGood ==
  ASSUME NEW t, Blank(t), NEW m \in Records, NEW u, u = tls_process_as_hello_retry_request(t, m)
  PROVE  Good(u) /\ Forward(t, u)
<1> DEFINE new == (m.flags \cap {"g1", "g2"}) \ {t.group}
           cipher == m.flags \cap Ciphers
           ch == CHOOSE x \in cipher : TRUE
           gr == CHOOSE x \in new : TRUE
           a == [t EXCEPT !.hello_retry_request = "PENDING"]
           b == [a EXCEPT !.enc_write = PlainKey, !.new_cipher = ch]
           c == [b EXCEPT !.group = gr]
           refused == cipher = {} \/ ~(cipher \subseteq OldSuites(t) \cup {"TLS13"})
<1>0. t \in SSL
  BY DEF Blank
<1>1. a \in SSL
  BY <1>0 DEF SSL
<1>2. /\ a.hand_state = t.hand_state /\ a.enc_read = t.enc_read /\ a.enc_write = t.enc_write
      /\ a.hello_retry_request = "PENDING" /\ a.server = t.server /\ a.version = t.version
      /\ a.plain_alerts = t.plain_alerts /\ a.state = t.state
  BY <1>0 DEF SSL
<1> HIDE DEF a
<1>3. CASE u = ossl_statem_fatal(a, "BAD_CIPHER")
  BY <1>1, <1>2, <1>3, BlankFatal DEF Blank
<1>4. CASE ~refused
  <2>1. ch \in Ciphers
    BY <1>4
  <2> HIDE DEF ch
  <2>2. b \in SSL
    BY ZenonT(120), <1>1, <2>1, EmptyValues DEF SSL
  <2>3. /\ b.hand_state = t.hand_state /\ b.enc_read = t.enc_read /\ b.enc_write = PlainKey
        /\ b.hello_retry_request = "PENDING" /\ b.server = t.server /\ b.version = t.version
        /\ b.plain_alerts = t.plain_alerts /\ b.state = t.state
    BY <1>1, <1>2 DEF SSL
  <2> HIDE DEF b
  <2>4. CASE new = {}
    <3>1. u = ossl_statem_fatal(b, "BAD_EXTENSION")
      BY <1>4, <2>4 DEF tls_process_as_hello_retry_request, a, b, ch
    <3> QED BY <2>2, <2>3, <3>1, BlankFatal DEF Blank
  <2>5. CASE new # {}
    <3>1. gr \in {"g1", "g2"}
      BY <2>5
    <3> HIDE DEF gr
    <3>2. c \in SSL
      BY ZenonT(120), <2>2, <3>1 DEF SSL
    <3>3. /\ c.hand_state = t.hand_state /\ c.enc_read = t.enc_read /\ c.enc_write = PlainKey
          /\ c.hello_retry_request = "PENDING" /\ c.server = t.server /\ c.version = t.version
          /\ c.plain_alerts = t.plain_alerts /\ c.state = t.state
      BY <2>2, <2>3 DEF SSL
    <3> HIDE DEF c
    <3>4. PICK d : d = create_synthetic_message_hash(c)
      OBVIOUS
    <3>5. d \in SSL
      BY <3>2, <3>4, SyntheticHashType
    <3>6. /\ d.hand_state = t.hand_state /\ d.enc_read = t.enc_read /\ d.enc_write = PlainKey
          /\ d.hello_retry_request = "PENDING" /\ d.server = t.server /\ d.version = t.version
          /\ d.plain_alerts = t.plain_alerts
      BY <3>2, <3>3, <3>4 DEF SSL, create_synthetic_message_hash
    <3>7. PICK e : e = ssl3_finish_mac(d, m.mt, m.flags)
      OBVIOUS
    <3>8. e \in SSL
      BY <3>5, <3>7, FinishMacType, RecordParts
    <3>9. /\ e.hand_state = t.hand_state /\ e.enc_read = t.enc_read /\ e.enc_write = PlainKey
          /\ e.hello_retry_request = "PENDING" /\ e.server = t.server /\ e.version = t.version
          /\ e.plain_alerts = t.plain_alerts
      BY <3>5, <3>6, <3>7 DEF SSL, ssl3_finish_mac
    <3>10. e.transcript # <<>>
      <4>1. Elem(m.mt, m.flags) \in Hashed /\ d.transcript \in Hash
        BY <3>5, RecordParts, SSLParts, ElemHashed
      <4>2. e.transcript = Append(d.transcript, Elem(m.mt, m.flags))
        BY <3>5, <3>7 DEF SSL, ssl3_finish_mac
      <4> QED BY <4>1, <4>2, TranscriptGrows
    <3>11. u = ToFlow(e, "WRITING", "TRANSITION")
      BY <1>4, <2>5, <3>4, <3>7 DEF tls_process_as_hello_retry_request, a, b, c, ch, gr,
         FinishedReading, ToFlow
    <3>12. /\ Kept(e, u) /\ u.transcript = e.transcript
           /\ u.sub = "TRANSITION" /\ u.state = "WRITING" /\ u.hand_state = e.hand_state
      BY <3>8, <3>11, MoveFlow
    <3>13. /\ u.hand_state = "CR_SRVR_HELLO" /\ u.enc_read = PlainKey /\ u.enc_write = PlainKey
           /\ u.hello_retry_request = "PENDING" /\ ~u.server /\ u.version = "ANY"
           /\ ~u.plain_alerts /\ u.transcript # <<>>
           /\ u.sub = "TRANSITION" /\ u.state = "WRITING"
      BY <3>9, <3>10, <3>12 DEF Kept, Chose, Held, Blank
    <3>14. Live(u)
      BY <3>13 DEF Live, Flow, Early, Pending, Client, Client12, Client13, Server, Server12,
         Server13
    <3>15. Forward(t, u)
      BY <3>13 DEF Forward, Blank, Rank, RetryRank, PlainKey
    <3> QED BY <3>13, <3>14, <3>15 DEF Good, Keyed, PlainKey
  <2> QED BY <2>4, <2>5
<1>5. CASE refused
  BY <1>3, <1>5 DEF tls_process_as_hello_retry_request, a
<1> QED BY <1>4, <1>5

\* A ServerHello that chooses the version.
LEMMA ServerHelloGood ==
  ASSUME NEW t, Blank(t), t.state = "READING", NEW m \in Records,
         NEW u, u = tls_process_server_hello(t, m)
  PROVE  Good(u) /\ Forward(t, u)
<1> DEFINE v == ServerHelloVersion(m)
           why == ssl_choose_client_version(t, m)
           hit == "hit" \in m.flags /\ t.opt.session = v
           a == [t EXCEPT !.version = v, !.hit = hit]
           ci == IF v = "TLS1_3" THEN "TLS13" ELSE t.opt.cipher
           p == "ticket" \in m.flags
           q == "status" \in m.flags
           e == "ems" \in m.flags
           k == IF hit /\ v = "TLS1_2" THEN <<Elem("SESSION", {})>> ELSE t.master_key
           b == [a EXCEPT !.new_cipher = ci, !.ticket_expected = p, !.status_expected = q,
                          !.extms = e, !.master_key = k]
<1>0. t \in SSL
  BY DEF Blank
<1>1. v \in Versions
  BY DEF ServerHelloVersion, Versions
<1>2. why = "NONE" => (v = "TLS1_3" \/ t.hello_retry_request = "NONE")
  BY DEF ssl_choose_client_version
<1>3. hit \in BOOLEAN /\ p \in BOOLEAN /\ q \in BOOLEAN /\ e \in BOOLEAN
  OBVIOUS
<1>4. k \in Hash
  BY <1>0, ElemHashed, ShortHash, SSLParts
<1>5. ci \in Ciphers /\ (v = "TLS1_3" => ci = "TLS13")
  BY <1>0, SSLParts, OptionParts DEF Ciphers
<1>6. u \in {tls_process_as_hello_retry_request(t, m), ossl_statem_fatal(t, why),
             ossl_statem_fatal(a, "BAD_CIPHER"), ossl_statem_fatal(a, "BAD_EXTENSION")}
      \/ (why = "NONE" /\ u = ContinueReading(IF v = "TLS1_3" THEN tls13_change_read(b, "HANDSHAKE")
                                                              ELSE b))
  <2>1. b = [a EXCEPT !.new_cipher = IF v = "TLS1_3" THEN "TLS13" ELSE t.opt.cipher,
                      !.ticket_expected = "ticket" \in m.flags,
                      !.status_expected = "status" \in m.flags,
                      !.extms = "ems" \in m.flags,
                      !.master_key = IF hit /\ v = "TLS1_2" THEN <<Elem("SESSION", {})>> ELSE @]
    <3>1. a.master_key = t.master_key
      BY <1>0 DEF SSL
    <3> QED BY <3>1
  <2> HIDE DEF b
  <2> QED BY <2>1 DEF tls_process_server_hello
<1> HIDE DEF v, why, hit, ci, p, q, e, k
<1>7. a \in SSL
  BY ZenonT(120), <1>0, <1>1, <1>3 DEF SSL
<1>8. /\ a.hand_state = t.hand_state /\ a.enc_read = t.enc_read /\ a.enc_write = t.enc_write
      /\ a.hello_retry_request = t.hello_retry_request /\ a.server = t.server /\ a.version = v
      /\ a.plain_alerts = t.plain_alerts /\ a.transcript = t.transcript /\ a.state = t.state
  BY <1>0 DEF SSL
<1> HIDE DEF a
<1>9. b \in SSL
  BY ZenonT(120), <1>3, <1>4, <1>5, <1>7 DEF SSL
<1>10. /\ b.hand_state = t.hand_state /\ b.enc_read = t.enc_read /\ b.enc_write = t.enc_write
       /\ b.hello_retry_request = t.hello_retry_request /\ b.server = t.server /\ b.version = v
       /\ b.plain_alerts = t.plain_alerts /\ b.transcript = t.transcript /\ b.state = t.state
       /\ b.new_cipher = ci
  BY <1>7, <1>8 DEF SSL
<1> HIDE DEF b
<1>11. CASE u = tls_process_as_hello_retry_request(t, m)
  BY <1>11, HelloRetryGood
<1>12. CASE u = ossl_statem_fatal(t, why)
  BY <1>0, <1>12, BlankFatal DEF Blank
<1>13. CASE u = ossl_statem_fatal(a, "BAD_CIPHER") \/ u = ossl_statem_fatal(a, "BAD_EXTENSION")
  BY <1>7, <1>8, <1>13, BlankFatal DEF Blank
<1>14. CASE why = "NONE" /\ u = ContinueReading(IF v = "TLS1_3" THEN tls13_change_read(b, "HANDSHAKE")
                                                                ELSE b)
  <2>1. PICK c : c = IF v = "TLS1_3" THEN tls13_change_read(b, "HANDSHAKE") ELSE b
    OBVIOUS
  <2>2. c \in SSL
    BY <1>9, <2>1, ChangeKeyType DEF Epochs
  <2>3. /\ c.hand_state = t.hand_state /\ c.enc_write = t.enc_write /\ c.server = t.server
        /\ c.hello_retry_request = t.hello_retry_request /\ c.version = v
        /\ c.plain_alerts = t.plain_alerts /\ c.transcript = t.transcript /\ c.state = t.state
        /\ c.new_cipher = ci
        /\ v = "TLS1_3" => /\ c.enc_read = ServerKey13(b, "HANDSHAKE")
                           /\ c.handshake_traffic_hash = b.transcript
        /\ v # "TLS1_3" => c.enc_read = t.enc_read
    <3>1. CASE v = "TLS1_3"
      <4>1. c = tls13_change_read(b, "HANDSHAKE") /\ ~b.server
        BY <1>10, <2>1, <3>1 DEF Blank
      <4>2. Rekeyed(b, c) /\ c.enc_write = b.enc_write /\ c.enc_read = ServerKey13(b, "HANDSHAKE")
            /\ c.handshake_traffic_hash = b.transcript
        BY <1>9, <4>1, ChangeReadKept DEF Saves
      <4> QED BY <1>10, <3>1, <4>2 DEF Rekeyed, Chose, Place
    <3>2. CASE v # "TLS1_3"
      BY <1>10, <2>1, <3>2
    <3> QED BY <3>1, <3>2
  <2>4. Keyed(c.enc_read) /\ (v = "TLS1_3" => c.enc_read.epoch = "HANDSHAKE")
    <3>1. CASE v = "TLS1_3"
      <4>1. b.transcript # <<>>
        BY <1>10 DEF Blank
      <4>2. Keyed(ServerKey13(b, "HANDSHAKE"))
        BY <1>9, <4>1, KeyedKeys
      <4>3. ServerKey13(b, "HANDSHAKE").epoch = "HANDSHAKE"
        BY DEF ServerKey13
      <4> QED BY <2>3, <3>1, <4>2, <4>3
    <3>2. CASE v # "TLS1_3"
      BY <2>3, <3>2 DEF Blank, Keyed, PlainKey
    <3> QED BY <3>1, <3>2
  <2>5. u = ToSub(c, "HEADER")
    BY <1>14, <2>1 DEF ContinueReading, ToSub
  <2>6. /\ Kept(c, u) /\ u.transcript = c.transcript
        /\ u.sub = "HEADER" /\ u.state = c.state /\ u.hand_state = c.hand_state
    BY <2>2, <2>5, MoveSub
  <2>7. /\ u.hand_state = "CR_SRVR_HELLO" /\ u.state = "READING" /\ u.sub = "HEADER"
        /\ ~u.server /\ u.version = v /\ u.new_cipher = ci /\ u.transcript # <<>>
        /\ ~u.plain_alerts /\ u.enc_write = PlainKey /\ u.enc_read = c.enc_read
        /\ u.hello_retry_request = t.hello_retry_request
        /\ v = "TLS1_3" => u.handshake_traffic_hash # <<>>
    BY <1>10, <2>3, <2>6 DEF Kept, Chose, Held, Secrets, Blank
  <2>8. Live(u)
    <3>1. v # "TLS1_3" => t.hello_retry_request = "NONE"
      BY <1>2, <1>14
    <3> QED BY <1>1, <1>5, <2>7, <3>1 DEF Versions, Live, Flow, Early, Client, Client12, Client13,
         Server, Server12, Server13, Blank, PlainKey
  <2>9. Forward(t, u)
    <3>1. Rank(t.enc_read) = 0 /\ Rank(t.enc_write) = 0 /\ Rank(u.enc_write) = 0
          /\ RetryRank(u.hello_retry_request) = RetryRank(t.hello_retry_request)
          /\ t.version = "ANY" /\ u.state # "FINISHED"
      BY <2>7 DEF Blank, Rank, PlainKey
    <3> QED BY <3>1, RankNat DEF Forward
  <2> QED BY <2>4, <2>7, <2>8, <2>9 DEF Good, Keyed, PlainKey
<1> QED BY <1>6, <1>11, <1>12, <1>13, <1>14

\* The server's chain: a client that verifies takes only a trusted one.
LEMMA ServerChainGood ==
  ASSUME NEW b \in SSL, Good(b), ~b.server, b.hand_state = "CR_CERT", b.state = "READING",
         b.sub = "BODY", Absorbed(b),
         NEW u, u = tls_process_server_certificate(b, b.init_msg)
  PROVE  Good(u) /\ Forward(b, u)
<1> DEFINE a == [b EXCEPT !.peer = TRUE]
<1>1. CASE \E r : u = ossl_statem_fatal(b, r)
  BY <1>1, FatalGood
<1>2. CASE (VerifyPeer(b) => "trusted" \in b.init_msg.flags) /\ u = ContinueReading(a)
  <2>1. a \in SSL
    BY ZenonT(120) DEF SSL
  <2>2. /\ Chose(b, a) /\ Held(b, a) /\ Place(b, a) /\ a.transcript = b.transcript
    BY DEF SSL, Chose, Held, Secrets, Place
  <2> HIDE DEF a
  <2>3. u = ToSub(a, "HEADER")
    BY <1>2 DEF ContinueReading, ToSub
  <2>4. /\ Kept(a, u) /\ u.transcript = a.transcript
        /\ u.sub = "HEADER" /\ u.state = a.state /\ u.hand_state = a.hand_state
    BY <2>1, <2>3, MoveSub
  <2>5. /\ Chose(b, u) /\ Held(b, u) /\ u.transcript = b.transcript
        /\ u.sub = "HEADER" /\ u.state = "READING" /\ u.hand_state = "CR_CERT"
    BY <2>2, <2>4 DEF Kept, Chose, Held, Secrets, Place
  <2>6. Found(b, u)
    BY <2>5, FoundSame
  <2>7. u.transcript # <<>> /\ (Asks(u) => ChainSeen(u.transcript))
    BY <1>2, <2>5 DEF Absorbed, Asks, VerifyPeer, Chose
  <2>8. Digested(u)
    BY <2>5, <2>7 DEF Digested
  <2> QED BY <2>5, <2>6, <2>7, <2>8, DigestGood DEF Held, Secrets
<1> QED BY <1>1, <1>2 DEF tls_process_server_certificate

\* A request for our certificate, and our answer to it.
Requested(t, n) == [t EXCEPT !.cert_req = n]

LEMMA RequestedKept ==
  ASSUME NEW t \in SSL, NEW n \in 1..2, NEW a, a = Requested(t, n)
  PROVE  /\ a \in SSL /\ Kept(t, a) /\ Place(t, a) /\ a.transcript = t.transcript
         /\ a.init_msg = t.init_msg
<1>1. a \in SSL
  <2>1. ASSUME NEW k \in 0..2 PROVE [t EXCEPT !.cert_req = k] \in SSL
    BY ZenonT(120) DEF SSL
  <2> QED BY <2>1 DEF Requested
<1>2. /\ Chose(t, a) /\ Held(t, a) /\ Certs(t, a) /\ Place(t, a) /\ a.transcript = t.transcript
      /\ a.init_msg = t.init_msg
  BY DEF Requested, SSL, Chose, Held, Secrets, Certs, Place
<1> QED BY <1>1, <1>2, FoundSame DEF Kept

LEMMA ClientProcessGood ==
  ASSUME NEW b \in SSL, Good(b), b.state = "READING", b.sub = "BODY", ~b.server, Absorbed(b),
         NEW u, u = client_process_message(b, b.init_msg)
  PROVE  Good(u) /\ Forward(b, u)
<1>0. Live(b) /\ (b.hand_state # "BEFORE" => b.transcript # <<>>) /\ b.init_msg \in Records
  BY SSLParts DEF Good, Absorbed
<1>1. CASE b.hand_state = "CR_SRVR_HELLO"
  <2>1. Blank(b)
    BY <1>0, <1>1 DEF Blank, Live, Early, Client, SSL
  <2> QED BY <1>0, <1>1, <2>1, ServerHelloGood DEF client_process_message
<1>2. CASE b.hand_state = "CR_CERT"
  BY <1>2, ServerChainGood DEF client_process_message
<1>3. CASE b.hand_state = "CR_CERT_VRFY"
  BY <1>3, VerifyGood DEF client_process_message
<1>4. CASE b.hand_state \in {"CR_CERT_STATUS", "CR_ENCRYPTED_EXTENSIONS"}
  <2>1. u = ContinueReading(b) /\ Digested(b)
    BY <1>4 DEF client_process_message, Digested
  <2> QED BY <1>0, <1>4, <2>1, DigestMove
<1>5. CASE b.hand_state = "CR_KEY_EXCH"
  <2>1. u = tls_process_key_exchange(b, b.init_msg)
    BY <1>5 DEF client_process_message
  <2>2. CASE u = ossl_statem_fatal(b, "BAD_SIGNATURE")
    BY <2>2, FatalGood
  <2>3. CASE (b.new_cipher = "DHE" => "ok" \in b.init_msg.flags) /\ u = ContinueReading(b)
    <3>1. Digested(b)
      BY <1>5, <2>3 DEF Absorbed, Digested
    <3> QED BY <1>0, <1>5, <2>3, <3>1, DigestMove
  <2> QED BY <2>1, <2>2, <2>3 DEF tls_process_key_exchange
<1>6. CASE b.hand_state = "CR_CERT_REQ"
  <2>1. PICK a : a = Requested(b, 1)
    OBVIOUS
  <2>2. /\ a \in SSL /\ Kept(b, a) /\ Place(b, a) /\ a.transcript = b.transcript
        /\ a.init_msg = b.init_msg
    BY <2>1, RequestedKept
  <2>3. u = ContinueReading(a) \/ u = ContinueProcessing(a)
    BY <1>6, <2>1 DEF client_process_message, tls_process_certificate_request, Requested
  <2>4. Good(a) /\ Digested(a)
    BY <1>6, <2>2, GoodFrame DEF Place, Digested
  <2>5. Good(u) /\ Forward(a, u)
    BY <1>0, <1>6, <2>2, <2>3, <2>4, DigestMove DEF Place
  <2> QED BY <2>2, <2>5, ForwardFrom DEF Kept, Place
<1>7. CASE b.hand_state = "CR_SRVR_DONE"
  <2>1. u = FinishedReading(b) /\ Digested(b)
    BY <1>7 DEF client_process_message, Digested
  <2> QED BY <1>0, <1>7, <2>1, DigestMove
<1>8. CASE b.hand_state = "CR_CHANGE"
  <2>1. u = tls_process_change_cipher_spec(b)
    BY <1>8 DEF client_process_message
  <2> QED BY <1>0, <1>8, <2>1, ChangeGood
<1>9. CASE b.hand_state = "CR_SESSION_TICKET"
  <2>1. (u = FinishedReading(b) \/ u = ContinueReading(b)) /\ Digested(b)
    BY <1>9 DEF client_process_message, tls_process_new_session_ticket, Digested
  <2> QED BY <1>0, <1>9, <2>1, DigestMove
<1>10. CASE b.hand_state = "CR_FINISHED"
  <2>1. u = tls_process_finished(b, b.init_msg)
    BY <1>10 DEF client_process_message
  <2> QED BY <1>0, <1>10, <2>1, FinishedGood
<1>11. CASE u = ossl_statem_fatal(b, "INTERNAL_ERROR")
  BY <1>11, FatalGood
<1> QED BY <1>1, <1>2, <1>3, <1>4, <1>5, <1>6, <1>7, <1>8, <1>9, <1>10, <1>11
        DEF client_process_message

-----------------------------------------------------------------------------
(* post_process_message *)

\* A key share may be refused.
KeyShareErrors == {"BAD_KEY_SHARE", "NO_SUITABLE_KEY_SHARE"}

\* The server has nothing to choose but a group, and may ask for another hello.
Shared(t, g, r) == [t EXCEPT !.group = g, !.hello_retry_request = r]

LEMMA KeyShareKept ==
  ASSUME NEW t \in SSL, NEW m, NEW u, u = final_key_share(t, m),
         \A r \in KeyShareErrors : u # ossl_statem_fatal(t, r)
  PROVE  /\ Held(t, u) /\ Certs(t, u) /\ Place(t, u) /\ u.transcript = t.transcript
         /\ u.server = t.server /\ u.version = t.version /\ u.new_cipher = t.new_cipher
         /\ RetryRank(u.hello_retry_request) >= RetryRank(t.hello_retry_request)
<1> DEFINE usable == (m.flags \cap {"g1", "g2"}) \cap t.opt.groups
           mine == CHOOSE g \in usable : TRUE
           ours == CHOOSE g \in t.opt.groups : TRUE
           r == IF t.hello_retry_request = "PENDING" THEN "COMPLETE" ELSE t.hello_retry_request
<1>1. \/ u = Shared(t, mine, r)
      \/ t.hello_retry_request = "NONE" /\ u = Shared(t, ours, "PENDING")
  BY DEF final_key_share, Shared, KeyShareErrors
<1> HIDE DEF mine, ours, r
<1>2. ASSUME NEW g, NEW h, u = Shared(t, g, h)
      PROVE  /\ Held(t, u) /\ Certs(t, u) /\ Place(t, u) /\ u.transcript = t.transcript
             /\ u.server = t.server /\ u.version = t.version /\ u.new_cipher = t.new_cipher
             /\ u.hello_retry_request = h
  BY <1>2 DEF Shared, SSL, Held, Secrets, Certs, Place
<1>3. /\ RetryRank(r) >= RetryRank(t.hello_retry_request)
      /\ t.hello_retry_request = "NONE" =>
           RetryRank("PENDING") >= RetryRank(t.hello_retry_request)
  BY SSLParts DEF RetryRank, r
<1>4. CASE u = Shared(t, mine, r)
  BY <1>2, <1>3, <1>4
<1>5. CASE t.hello_retry_request = "NONE" /\ u = Shared(t, ours, "PENDING")
  BY <1>2, <1>3, <1>5
<1> QED BY <1>1, <1>4, <1>5

\* A server that reads a ClientHello has chosen nothing, or TLSv1.3 and asked
\* for this second one.
LEMMA HelloState ==
  ASSUME NEW t \in SSL, Good(t), t.server, t.hand_state = "SR_CLNT_HELLO",
         t.state = "READING", t.sub = "POST_PROCESS"
  PROVE  /\ t.transcript # <<>> /\ ~t.peer
         /\ \/ t.version = "ANY" /\ ~t.plain_alerts
            \/ t.version = "TLS1_3" /\ t.hello_retry_request # "NONE"
         /\ t.enc_read.epoch \in {"PLAIN", "HANDSHAKE"} /\ t.enc_write.epoch \in {"PLAIN", "HANDSHAKE"}
         /\ Keyed(t.enc_read) /\ Keyed(t.enc_write)
<1>1. Live(t) /\ t.version \in {"ANY", "TLS1_2", "TLS1_3"} /\ Keyed(t.enc_read) /\ Keyed(t.enc_write)
  BY DEF Good, SSL, Versions
<1>2. t.transcript # <<>>
  BY <1>1 DEF Live, Flow
<1>3. ~t.peer
  BY <1>1 DEF Live, Server
<1>4. CASE t.version = "ANY"
  BY <1>1, <1>2, <1>3, <1>4 DEF Live, Early, PlainKey
<1>5. CASE t.version = "TLS1_2"
  BY <1>1, <1>5 DEF Live, Server12
<1>6. CASE t.version = "TLS1_3"
  BY <1>1, <1>2, <1>3, <1>6 DEF Live, Server13, Pending
<1> QED BY <1>1, <1>4, <1>5, <1>6

\* The version and all that goes with it are chosen.
LEMMA ClientHelloGood ==
  ASSUME NEW t \in SSL, Good(t), t.server, t.hand_state = "SR_CLNT_HELLO",
         t.state = "READING", t.sub = "POST_PROCESS", NEW m \in Records,
         NEW u, u = tls_post_process_client_hello(t, m)
  PROVE  Good(u) /\ Forward(t, u)
<1> DEFINE v == ssl_choose_server_version(t, m)
           hit == SessFlag(v) \in m.flags /\ t.opt.session = v
           fresh == ~hit \/ t.opt.renew
           a == [t EXCEPT !.version = v, !.hit = hit]
           ems == "ems" \in m.flags
           tick == "ticket" \in m.flags /\ t.opt.ticket /\ fresh
           stat == /\ "status" \in m.flags /\ t.opt.status /\ ~hit
                   /\ t.opt.cipher \in {"RSA", "DHE", "RSAPSK"}
           key == IF hit THEN <<Elem("SESSION", {})>> ELSE a.master_key
           b12 == [a EXCEPT !.new_cipher = t.opt.cipher, !.extms = ems,
                            !.ticket_expected = tick, !.status_expected = stat,
                            !.master_key = key]
           c13 == [a EXCEPT !.new_cipher = "TLS13", !.ticket_expected = fresh]
           b13 == final_key_share(c13, m)
<1>0. /\ t.transcript # <<>> /\ ~t.peer
      /\ \/ t.version = "ANY" /\ ~t.plain_alerts
         \/ t.version = "TLS1_3" /\ t.hello_retry_request # "NONE"
      /\ t.enc_read.epoch \in {"PLAIN", "HANDSHAKE"} /\ t.enc_write.epoch \in {"PLAIN", "HANDSHAKE"}
      /\ Keyed(t.enc_read) /\ Keyed(t.enc_write)
  BY HelloState
<1>1. CASE v = "NONE"
  <2>1. u = ossl_statem_fatal(t, "UNSUPPORTED_PROTOCOL")
    BY <1>1 DEF tls_post_process_client_hello
  <2> QED BY <2>1, FatalGood
<1>2. CASE v # "NONE"
  <2>1. v \in Versions /\ (v = "TLS1_2" => t.hello_retry_request = "NONE")
    BY <1>2 DEF ssl_choose_server_version, Versions
  <2>2. /\ hit \in BOOLEAN /\ fresh \in BOOLEAN /\ tick \in BOOLEAN /\ stat \in BOOLEAN
        /\ ems \in BOOLEAN
    OBVIOUS
  <2>3. hit => key # <<>>
    OBVIOUS
  <2>4. t.opt.cipher \in Ciphers /\ "TLS13" \in Ciphers
    BY SSLParts, OptionParts DEF Ciphers
  <2>5. \/ v = "TLS1_2" /\ u \in {FinishedReading(b12), ossl_statem_fatal(a, "BAD_CIPHER")}
        \/ v = "TLS1_3" /\ u = IF b13.state = "ERROR" THEN b13 ELSE FinishedReading(b13)
        \/ u = ossl_statem_fatal(t, "BAD_EXTENSION")
    BY <1>2, <2>1 DEF tls_post_process_client_hello, Versions
  <2> HIDE DEF v
  <2>6. a \in SSL
    <3> HIDE DEF hit
    <3> QED BY ZenonT(120), <2>1, <2>2 DEF SSL
  <2>7. key \in Hash
    BY <2>6, ElemHashed, ShortHash, SSLParts
  <2> HIDE DEF hit, fresh, tick, stat, ems
  <2>8. /\ Held(t, a) /\ Certs(t, a) /\ Place(t, a) /\ a.transcript = t.transcript
        /\ a.server = t.server /\ a.version = v /\ a.hit = hit
        /\ a.hello_retry_request = t.hello_retry_request
    BY DEF SSL, Held, Secrets, Certs, Place
  <2> HIDE DEF a, key
  <2>9. CASE u = ossl_statem_fatal(t, "BAD_EXTENSION")
    BY <2>9, FatalGood
  <2>10. /\ Rank(t.enc_read) \in 0..2 /\ Rank(t.enc_write) \in 0..2
         /\ RetryRank(t.hello_retry_request) \in 0..2
    BY RankNat
  <2>11. CASE v = "TLS1_2" /\ u = ossl_statem_fatal(a, "BAD_CIPHER")
    <3>1. t.version = "ANY" /\ a.hand_state # "OK" /\ Keyed(a.enc_read) /\ Keyed(a.enc_write)
      BY <1>0, <2>1, <2>8, <2>11 DEF Held, Place
    <3>2. /\ Rank(a.enc_read) >= Rank(t.enc_read) /\ Rank(a.enc_write) >= Rank(t.enc_write)
          /\ RetryRank(a.hello_retry_request) >= RetryRank(t.hello_retry_request)
      BY <2>8, <2>10 DEF Held
    <3> QED BY <2>6, <2>11, <3>1, <3>2, FatalAfter
  <2>12. CASE v = "TLS1_2" /\ u = FinishedReading(b12)
    <3>1. b12 \in SSL
      BY ZenonT(120), <2>2, <2>4, <2>6, <2>7, NegotiatedType
    <3>2. /\ b12.enc_read = a.enc_read /\ b12.enc_write = a.enc_write
          /\ b12.plain_alerts = a.plain_alerts /\ Certs(a, b12) /\ Place(a, b12)
          /\ b12.transcript = a.transcript /\ b12.server = a.server /\ b12.version = a.version
          /\ b12.hit = a.hit /\ b12.hello_retry_request = a.hello_retry_request
          /\ b12.master_key = key
      BY <2>6 DEF SSL, Certs, Place
    <3> HIDE DEF b12
    <3>3. u = ToFlow(b12, "WRITING", "TRANSITION")
      BY <2>12 DEF FinishedReading, ToFlow
    <3>4. /\ Kept(b12, u) /\ u.transcript = b12.transcript
          /\ u.sub = "TRANSITION" /\ u.state = "WRITING" /\ u.hand_state = b12.hand_state
      BY <3>1, <3>3, MoveFlow
    <3>5. /\ u.enc_read = t.enc_read /\ u.enc_write = t.enc_write
          /\ ~u.plain_alerts /\ ~u.peer /\ u.hand_state = "SR_CLNT_HELLO"
          /\ u.transcript # <<>> /\ u.server /\ u.version = "TLS1_2"
          /\ u.hello_retry_request = "NONE" /\ t.hello_retry_request = "NONE"
          /\ t.version = "ANY"
          /\ u.hit => u.master_key # <<>>
      BY <1>0, <2>1, <2>3, <2>8, <2>12, <3>2, <3>4 DEF Kept, Chose, Held, Secrets, Certs, Place
    <3>6. Live(u)
      BY <3>4, <3>5 DEF Live, Flow, Early, Server, Server12, Server13, Client, Client12, Client13,
         Pending
    <3>7. Forward(t, u)
      <4>1. Rank(u.enc_read) = Rank(t.enc_read) /\ Rank(u.enc_write) = Rank(t.enc_write)
            /\ RetryRank(u.hello_retry_request) = RetryRank(t.hello_retry_request)
        BY <3>5
      <4> QED BY <2>10, <3>4, <3>5, <4>1 DEF Forward
    <3> QED BY <1>0, <3>4, <3>5, <3>6, <3>7 DEF Good
  <2>13. CASE v = "TLS1_3" /\ u = IF b13.state = "ERROR" THEN b13 ELSE FinishedReading(b13)
    <3>1. c13 \in SSL
      BY ZenonT(120), <2>2, <2>4, <2>6, <2>7, NegotiatedType
    <3>2. /\ Held(a, c13) /\ Certs(a, c13) /\ Place(a, c13)
          /\ c13.transcript = a.transcript /\ c13.server = a.server /\ c13.version = a.version
          /\ c13.hello_retry_request = a.hello_retry_request /\ c13.new_cipher = "TLS13"
      BY <2>6 DEF SSL, Held, Secrets, Certs, Place
    <3> HIDE DEF c13
    <3>3. b13 \in SSL
      BY <3>1, KeyShareType
    <3>4. ASSUME NEW r \in KeyShareErrors, b13 = ossl_statem_fatal(c13, r)
          PROVE  Good(u) /\ Forward(t, u)
      <4>1. b13.state = "ERROR"
        BY <3>1, <3>4 DEF SSL, ossl_statem_fatal
      <4> HIDE DEF b13
      <4>2. u = ossl_statem_fatal(c13, r)
        BY <2>13, <3>4, <4>1
      <4>3. /\ c13.hand_state # "OK" /\ Keyed(c13.enc_read) /\ Keyed(c13.enc_write)
            /\ t.version # "ANY" => c13.version = t.version
        BY <1>0, <2>8, <2>13, <3>2 DEF Held, Place
      <4>4. /\ Rank(c13.enc_read) >= Rank(t.enc_read) /\ Rank(c13.enc_write) >= Rank(t.enc_write)
            /\ RetryRank(c13.hello_retry_request) >= RetryRank(t.hello_retry_request)
        BY <2>8, <2>10, <3>2 DEF Held
      <4> QED BY <3>1, <4>2, <4>3, <4>4, FatalAfter
    <3>5. CASE \A r \in KeyShareErrors : b13 # ossl_statem_fatal(c13, r)
      <4>1. /\ Held(c13, b13) /\ Certs(c13, b13) /\ Place(c13, b13)
            /\ b13.transcript = c13.transcript
            /\ b13.server = c13.server /\ b13.version = c13.version
            /\ b13.new_cipher = c13.new_cipher
            /\ RetryRank(b13.hello_retry_request) >= RetryRank(c13.hello_retry_request)
        BY <3>1, <3>5, KeyShareKept
      <4> HIDE DEF b13
      <4>2. u = ToFlow(b13, "WRITING", "TRANSITION")
        BY <2>8, <2>13, <3>2, <4>1 DEF FinishedReading, ToFlow, Place
      <4>3. /\ Kept(b13, u) /\ u.transcript = b13.transcript
            /\ u.sub = "TRANSITION" /\ u.state = "WRITING" /\ u.hand_state = b13.hand_state
        BY <3>3, <4>2, MoveFlow
      <4>4. /\ u.enc_read = t.enc_read /\ u.enc_write = t.enc_write
            /\ ~u.peer /\ u.hand_state = "SR_CLNT_HELLO" /\ u.new_cipher = "TLS13"
            /\ u.transcript # <<>> /\ u.server /\ u.version = "TLS1_3"
            /\ u.hello_retry_request = b13.hello_retry_request
            /\ c13.hello_retry_request = t.hello_retry_request
        <5>1. /\ b13.enc_read = t.enc_read /\ b13.enc_write = t.enc_write
              /\ ~b13.peer /\ b13.hand_state = "SR_CLNT_HELLO" /\ b13.new_cipher = "TLS13"
              /\ b13.transcript # <<>> /\ b13.server /\ b13.version = "TLS1_3"
              /\ c13.hello_retry_request = t.hello_retry_request
          BY <1>0, <2>8, <2>13, <3>2, <4>1 DEF Held, Certs, Place
        <5> QED BY <4>3, <5>1 DEF Kept, Chose, Held, Certs
      <4>5. Live(u)
        BY <1>0, <4>3, <4>4 DEF Live, Flow, Early, Server, Server12, Server13, Client, Client12,
           Client13, Pending
      <4>6. Forward(t, u)
        <5>1. /\ Rank(u.enc_read) = Rank(t.enc_read) /\ Rank(u.enc_write) = Rank(t.enc_write)
              /\ RetryRank(u.hello_retry_request) >= RetryRank(t.hello_retry_request)
              /\ t.version # "ANY" => u.version = t.version
          BY <1>0, <4>1, <4>4
        <5> QED BY <2>10, <4>3, <5>1 DEF Forward
      <4> QED BY <1>0, <4>3, <4>4, <4>5, <4>6 DEF Good
    <3> QED BY <3>4, <3>5
  <2> QED BY <2>5, <2>9, <2>11, <2>12, <2>13
<1> QED BY <1>1, <1>2

\* Where post-processing changes nothing that matters.
LEMMA ProcessedGood ==
  ASSUME NEW t \in SSL, Good(t), t.state = "READING", t.sub = "POST_PROCESS",
         t.hand_state \in {"SR_KEY_EXCH", "CR_CERT_VRFY", "CR_CERT_REQ"},
         NEW u, u = ContinueReading(t)
  PROVE  Good(u) /\ Forward(t, u)
<1>1. u = ToSub(t, "HEADER")
  BY DEF ContinueReading, ToSub
<1>2. /\ Kept(t, u) /\ u.transcript = t.transcript /\ u.init_msg = t.init_msg
      /\ u.sub = "HEADER" /\ u.state = t.state /\ u.hand_state = t.hand_state
  BY <1>1, MoveSub
<1>3. Live(t)
  BY DEF Good
<1> USE DEF Kept, Chose, Held, Secrets, Certs, Found
<1> USE DEF Pending, Owed, Demands, Asks, aPSK, VerifyPeer
<1>4. Flow(u) /\ Early(u)
  BY <1>2, <1>3 DEF Live, Flow, Early
<1>5. Server(u)
  BY <1>2, <1>3 DEF Live, Server
<1>6. Server12(u)
  BY <1>2, <1>3 DEF Live, Server12
<1>7. Server13(u)
  BY <1>2, <1>3 DEF Live, Server13
<1>8. Client(u)
  BY <1>2, <1>3 DEF Live, Client
<1>9. Client12(u)
  BY <1>2, <1>3 DEF Live, Client12
<1>10. Client13(u)
  BY <1>2, <1>3 DEF Live, Client13
<1>11. Forward(t, u)
  BY <1>2, ForwardKept
<1> QED BY <1>2, <1>4, <1>5, <1>6, <1>7, <1>8, <1>9, <1>10, <1>11 DEF Good, Live

LEMMA PostProcessGood ==
  ASSUME NEW t \in SSL, Good(t), t.state = "READING", t.sub = "POST_PROCESS",
         NEW u, u = IF t.server THEN server_post_process_message(t, t.init_msg)
                                ELSE client_post_process_message(t)
  PROVE  Good(u) /\ Forward(t, u)
<1>1. CASE u = ossl_statem_fatal(t, "INTERNAL_ERROR")
  BY <1>1, FatalGood
<1>2. CASE t.server /\ t.hand_state = "SR_CLNT_HELLO"
  <2>1. u = tls_post_process_client_hello(t, t.init_msg) /\ t.init_msg \in Records
    BY <1>2, SSLParts DEF server_post_process_message
  <2> QED BY <1>2, <2>1, ClientHelloGood
<1>3. CASE t.server /\ t.hand_state = "SR_KEY_EXCH"
  <2>1. u = ContinueReading(t)
    BY <1>3 DEF server_post_process_message
  <2> QED BY <1>3, <2>1, ProcessedGood
<1>4. CASE ~t.server /\ t.hand_state \in {"CR_CERT_VRFY", "CR_CERT_REQ"}
  <2>1. u = ContinueReading(t) \/ u = ContinueReading(Requested(t, 2))
    BY <1>4 DEF client_post_process_message, tls_prepare_client_certificate, Requested
  <2>2. CASE u = ContinueReading(t)
    BY <1>4, <2>2, ProcessedGood
  <2>3. CASE u = ContinueReading(Requested(t, 2))
    <3>1. PICK a : a = Requested(t, 2)
      OBVIOUS
    <3>2. a \in SSL /\ Kept(t, a) /\ Place(t, a) /\ a.init_msg = t.init_msg
      BY <3>1, RequestedKept
    <3>3. Good(a)
      BY <3>2, GoodFrame
    <3>4. Good(u) /\ Forward(a, u)
      BY <1>4, <2>3, <3>1, <3>2, <3>3, ProcessedGood DEF Place
    <3> QED BY <3>2, <3>4, ForwardFrom DEF Kept, Place
  <2> QED BY <2>1, <2>2, <2>3
<1> QED BY <1>1, <1>2, <1>3, <1>4 DEF server_post_process_message, client_post_process_message

-----------------------------------------------------------------------------
(* Entering the state machine *)

Entered(t) ==
  [t EXCEPT !.change_cipher_spec = FALSE, !.state = "WRITING", !.sub = "TRANSITION", !.bbio = <<>>]
Again(t) == [t EXCEPT !.in_init = TRUE]

LEMMA EnteredKept ==
  ASSUME NEW t \in SSL, NEW u, u = Entered(t)
  PROVE  /\ u \in SSL /\ Kept(t, u) /\ u.transcript = t.transcript
         /\ u.hand_state = t.hand_state /\ u.state = "WRITING" /\ u.sub = "TRANSITION"
<1>1. u \in SSL
  BY ZenonT(120), MoveType, StateNames DEF Entered, HandStates
<1>2. /\ Chose(t, u) /\ Held(t, u) /\ Certs(t, u) /\ u.transcript = t.transcript
      /\ u.hand_state = t.hand_state /\ u.state = "WRITING" /\ u.sub = "TRANSITION"
  BY DEF Entered, SSL, Chose, Held, Secrets, Certs
<1> QED BY <1>1, <1>2, FoundSame DEF Kept

\* A fresh handshake.
LEMMA StartGood ==
  ASSUME NEW t \in SSL, Good(t), t.state = "UNINITED", t.hand_state = "BEFORE",
         NEW u, u = state_machine_init(t)
  PROVE  Good(u) /\ Forward(t, u)
<1>0. Live(t) /\ t.version \in {"ANY", "TLS1_2", "TLS1_3"} /\ t.server \in BOOLEAN
  BY DEF Good, SSL, Versions
<1>1. t.version = "ANY"
  BY <1>0 DEF Live, Server12, Server13, Client
<1>2. PICK a : a = Entered(t)
  OBVIOUS
<1>3. u = tls_setup_handshake(a)
  BY <1>2 DEF state_machine_init, Entered
<1>4. /\ a \in SSL /\ Kept(t, a)
      /\ a.hand_state = t.hand_state /\ a.state = "WRITING" /\ a.sub = "TRANSITION"
  BY <1>2, EnteredKept
<1>5. /\ u.hand_state = a.hand_state /\ u.state = a.state /\ u.sub = a.sub
      /\ u.server = a.server /\ u.version = a.version
      /\ u.enc_read = a.enc_read /\ u.enc_write = a.enc_write
      /\ u.hello_retry_request = a.hello_retry_request /\ u.plain_alerts = a.plain_alerts
      /\ u.peer = a.peer
  <2> DEFINE i == a.hit /\ a.server
             c == IF a.server THEN a.cert_req ELSE 0
  <2>1. u = [a EXCEPT !.transcript = <<>>, !.hit = i, !.cert_req = c]
    BY <1>3 DEF tls_setup_handshake
  <2> HIDE DEF i, c
  <2> QED BY <1>4, <2>1 DEF SSL
<1>6. /\ u.hand_state = "BEFORE" /\ u.state = "WRITING" /\ u.sub = "TRANSITION"
      /\ u.server = t.server /\ u.version = "ANY"
      /\ u.enc_read = t.enc_read /\ u.enc_write = t.enc_write
      /\ u.hello_retry_request = t.hello_retry_request /\ u.plain_alerts = t.plain_alerts
      /\ u.peer = t.peer
  BY <1>1, <1>4, <1>5 DEF Kept, Chose, Held, Certs
<1>7. Flow(u)
  BY <1>6 DEF Flow
<1>8. Early(u)
  BY <1>0, <1>1, <1>6 DEF Live, Early
<1>9. Server(u) /\ Client(u)
  BY <1>0, <1>1, <1>6 DEF Live, Early, Server, Client, Pending
<1>10. Live(u)
  BY <1>6, <1>7, <1>8, <1>9 DEF Live, Server12, Server13, Client12, Client13
<1>11. Forward(t, u)
  <2>1. Rank(u.enc_read) = Rank(t.enc_read) /\ Rank(u.enc_write) = Rank(t.enc_write)
        /\ RetryRank(u.hello_retry_request) = RetryRank(t.hello_retry_request)
    BY <1>6
  <2> QED BY <1>1, <1>6, <2>1, RankNat DEF Forward
<1> QED BY <1>6, <1>10, <1>11 DEF Good

\* SSL_read re-enters the machine after the handshake.
LEMMA AgainGood ==
  ASSUME NEW t \in SSL, Good(t), t.state = "FINISHED", t.hand_state = "OK",
         NEW a, a = Again(t), NEW u, u = state_machine_init(a)
  PROVE  Good(u) /\ Forward(t, u)
<1>0. Live(t)
  BY DEF Good
<1>1. a \in SSL
  BY ZenonT(120) DEF SSL, Again
<1>2. Chose(t, a) /\ Held(t, a) /\ Certs(t, a) /\ a.transcript = t.transcript /\ a.hand_state = "OK"
  BY DEF Again, SSL, Chose, Held, Secrets, Certs
<1>3. u = Entered(a)
  BY <1>2 DEF state_machine_init, Entered
<1>4. /\ Kept(a, u) /\ u.transcript = a.transcript
      /\ u.hand_state = a.hand_state /\ u.state = "WRITING" /\ u.sub = "TRANSITION"
  BY <1>1, <1>3, EnteredKept
<1>5. /\ Chose(t, u) /\ Held(t, u) /\ Certs(t, u) /\ u.transcript = t.transcript
      /\ u.hand_state = "OK" /\ u.state = "WRITING" /\ u.sub = "TRANSITION"
  BY <1>2, <1>4 DEF Kept, Chose, Held, Secrets, Certs
<1>6. Found(t, u)
  BY <1>5, FoundSame
<1>7. Live(u)
  <2> USE DEF Chose, Held, Secrets, Certs, Found
  <2> USE DEF Pending, Owed, Demands, Asks, aPSK, VerifyPeer
  <2>1. Flow(u) /\ Early(u)
    BY <1>0, <1>5 DEF Live, Flow, Early
  <2>2. Server(u) /\ Server12(u)
    BY <1>0, <1>5, <1>6 DEF Live, Server, Server12
  <2>3. Server13(u)
    BY <1>0, <1>5, <1>6 DEF Live, Server13
  <2>4. Client(u) /\ Client12(u)
    BY <1>0, <1>5, <1>6 DEF Live, Client, Client12
  <2>5. Client13(u)
    BY <1>0, <1>5, <1>6 DEF Live, Client13
  <2> QED BY <2>1, <2>2, <2>3, <2>4, <2>5 DEF Live
<1>8. Forward(t, u)
  BY <1>5, ForwardKept
<1> QED BY <1>5, <1>7, <1>8 DEF Good, Held

\* Emptying the buffering BIO, or part of it, changes nothing here.
Drained(t, q) == [t EXCEPT !.bbio = q]

LEMMA DrainedKept ==
  ASSUME NEW t \in SSL, NEW q, NEW u, u = Drained(t, q)
  PROVE  Kept(t, u) /\ Place(t, u) /\ u.init_msg = t.init_msg
<1>1. /\ Chose(t, u) /\ Held(t, u) /\ Certs(t, u) /\ Place(t, u)
      /\ u.transcript = t.transcript /\ u.init_msg = t.init_msg
  BY DEF Drained, SSL, Chose, Held, Secrets, Certs, Place
<1> QED BY <1>1, FoundSame DEF Kept

LEMMA SettleGood ==
  ASSUME NEW x, NEW t \in SSL, Good(t), Forward(x, t), NEW flush, Settle(t, flush)
  PROVE  Good(s') /\ Forward(x, s')
<1>1. s' = t \/ s' = Drained(t, <<>>)
  BY DEF Settle, Drained
<1>2. CASE s' = t
  BY <1>2
<1>3. CASE s' = Drained(t, <<>>)
  <2>1. PICK u : u = s'
    OBVIOUS
  <2>2. Kept(t, u) /\ Place(t, u) /\ u.init_msg = t.init_msg
    BY <1>3, <2>1, DrainedKept
  <2>3. Good(u)
    BY <2>2, GoodFrame
  <2>4. Forward(x, u)
    BY <2>2 DEF Forward, Kept, Chose, Held, Place
  <2> QED BY <2>1, <2>3, <2>4
<1> QED BY <1>1, <1>2, <1>3

-----------------------------------------------------------------------------
(* The invariant *)

LEMMA SecInit == Init => SecInv
<1> SUFFICES ASSUME Init PROVE SecInv
  OBVIOUS
<1>1. PICK o \in OptionSet : s = ossl_statem_clear(IsServer, o)
  BY DEF Init
<1>2. InFlags
  BY DEF Init, InFlags
<1>3. /\ s.state = "UNINITED" /\ s.sub = "TRANSITION" /\ s.hand_state = "BEFORE"
      /\ s.version = "ANY" /\ s.enc_read = PlainKey /\ s.enc_write = PlainKey
      /\ ~s.peer /\ ~s.plain_alerts /\ s.hello_retry_request = "NONE"
  BY <1>1 DEF ossl_statem_clear
<1>4. Live(s)
  BY <1>3 DEF Live, Flow, Early, Server, Server12, Server13, Client, Client12, Client13, Pending
<1> QED BY <1>2, <1>3, <1>4 DEF SecInv, Good, Keyed, PlainKey

\* What is still to be read came from the peer.
LEMMA InFlagsStep == TypeInv /\ InFlags /\ [Next]_vars => InFlags'
<1> SUFFICES ASSUME TypeInv, InFlags, [Next]_vars PROVE InFlags'
  OBVIOUS
<1>1. in \in Seq(Records)
  BY DEF TypeInv, TypeOK
<1>2. CASE in' = in
  BY <1>2 DEF InFlags
<1>3. CASE in # <<>> /\ in' = Tail(in)
  <2>1. \A i \in DOMAIN in' : i + 1 \in DOMAIN in /\ in'[i] = in[i + 1]
    BY <1>1, <1>3
  <2> QED BY <2>1 DEF InFlags
<1>4. CASE PeerSends
  <2>1. PICK m \in PeerMessages : in' = <<m>>
    BY <1>4 DEF PeerSends
  <2>2. m.flags \in FlagsOf(m.mt)
    BY DEF PeerMessages
  <2>3. \A i \in DOMAIN in' : in'[i] = m
    BY <2>1
  <2> QED BY <2>2, <2>3 DEF InFlags
<1>5. Next => \/ in' = in \/ (in # <<>> /\ in' = Tail(in)) \/ PeerSends
  BY DEF Next, EndpointNext, Start, WriteTransition, PreWork, Send, Spill, PostWork, ReadHeader,
     ReadBody, PostProcess, SslRead
<1>6. UNCHANGED vars => in' = in
  BY DEF vars
<1> QED BY <1>2, <1>3, <1>4, <1>5, <1>6

\* One step per action.
LEMMA SecStep ==
  TypeInv /\ FlightInv /\ SecInv /\ [Next]_vars =>
    SecInv' /\ (Forward(s, s') \/ UNCHANGED vars)
<1> SUFFICES ASSUME TypeInv, FlightInv, SecInv, [Next]_vars
             PROVE  SecInv' /\ (Forward(s, s') \/ UNCHANGED vars)
  OBVIOUS
<1>0. s \in SSL /\ Good(s) /\ InFlags /\ in \in Seq(Records) /\ InFlags'
  BY InFlagsStep DEF TypeInv, TypeOK, SecInv
<1>1. CASE Start
  <2>1. s.state = "UNINITED" /\ s.hand_state = "BEFORE" /\ s' = state_machine_init(s)
    BY <1>1 DEF Start, TypeInv, RestsAtEnds
  <2> QED BY <1>0, <2>1, StartGood DEF SecInv
<1>2. CASE WriteTransition
  <2> DEFINE h == write_transition(s)
             t == CASE h = "ERROR" -> ossl_statem_fatal(s, "INTERNAL_ERROR")
                    [] h = "FINISHED" -> [s EXCEPT !.state = "READING", !.sub = "HEADER"]
                    [] OTHER -> [s EXCEPT !.hand_state = h, !.sub = "PRE_WORK"]
  <2>1. s.state = "WRITING" /\ s.sub = "TRANSITION" /\ Settle(t, FALSE)
    BY <1>2 DEF WriteTransition, Writing
  <2>2. h \in HandStates \cup {"FINISHED", "ERROR"}
    BY ClientWriteState, ServerWriteState DEF write_transition
  <2> HIDE DEF h
  <2>3. t \in SSL
    <3>1. ASSUME NEW x \in HandStates PROVE [s EXCEPT !.hand_state = x, !.sub = "PRE_WORK"] \in SSL
      BY ZenonT(120), <1>0, MoveType, StateNames
    <3>2. [s EXCEPT !.state = "READING", !.sub = "HEADER"] \in SSL
      BY ZenonT(120), <1>0, MoveType, StateNames DEF HandStates
    <3> QED BY ZenonT(120), <1>0, <2>2, <3>1, <3>2, FatalType DEF Reasons
  <2>4. Good(t) /\ Forward(s, t)
    <3>1. CASE h = "ERROR"
      <4>1. t = ossl_statem_fatal(s, "INTERNAL_ERROR")
        BY <3>1
      <4> HIDE DEF t
      <4> QED BY <1>0, <4>1, FatalGood
    <3>2. CASE h # "ERROR"
      <4>1. t = IF h = "FINISHED" THEN ToFlow(s, "READING", "HEADER") ELSE ToHand(s, h, "PRE_WORK")
        BY <3>2 DEF ToFlow, ToHand
      <4> HIDE DEF t
      <4> QED BY <1>0, <2>1, <3>2, <4>1, TransitionGood DEF h
    <3> QED BY <3>1, <3>2
  <2> HIDE DEF t
  <2> QED BY <1>0, <2>1, <2>3, <2>4, SettleGood DEF SecInv
<1>3. CASE PreWork
  <2> DEFINE t == IF s.server THEN server_pre_work(s) ELSE client_pre_work(s)
  <2>1. s.state = "WRITING" /\ s.sub = "PRE_WORK" /\ Settle(t, FALSE)
        /\ s.hand_state \in WriteStates \cup Silent
    BY <1>3 DEF PreWork, Writing, FlightInv
  <2>2. t \in SSL
    BY <1>0, <2>1, ServerPreWorkType, ClientPreWorkType DEF TypeInv, Chosen
  <2>3. Good(t) /\ Forward(s, t)
    BY <1>0, <2>1, PreWorkGood
  <2> HIDE DEF t
  <2> QED BY <1>0, <2>1, <2>2, <2>3, SettleGood DEF SecInv
<1>4. CASE Send
  <2>1. PICK a : a = ssl3_do_write(s)
    OBVIOUS
  <2>2. s.state = "WRITING" /\ s.sub = "SEND" /\ s' = ToSub(a, "POST_WORK")
    BY <1>4, <2>1 DEF Send, Writing, ToSub
  <2> QED BY <1>0, <2>1, <2>2, SendGood DEF SecInv
<1>5. CASE Spill
  <2>1. PICK u : u = Drained(s, Tail(s.bbio))
    OBVIOUS
  <2>2. s' = u /\ s.state = "WRITING"
    BY <1>5, <2>1 DEF Spill, Drained
  <2>3. Kept(s, u) /\ Place(s, u) /\ u.init_msg = s.init_msg
    BY <1>0, <2>1, DrainedKept
  <2>4. Good(u)
    BY <1>0, <2>3, GoodFrame
  <2>5. Forward(s, u)
    BY <2>2, <2>3, ForwardKept DEF Kept, Place
  <2> QED BY <1>0, <2>2, <2>4, <2>5 DEF SecInv
<1>6. CASE PostWork
  <2> DEFINE flush == IF s.server THEN server_flushes(s) ELSE client_flushes(s)
  <2>1. PICK w : w = IF s.server THEN server_post_work(s) ELSE client_post_work(s)
    OBVIOUS
  <2>2. PICK t : t = ToSub(w, "TRANSITION")
    OBVIOUS
  <2>3. s.state = "WRITING" /\ s.sub = "POST_WORK" /\ Settle(t, flush)
        /\ s.hand_state \in WriteStates \cup Silent
    BY <1>6, <2>1, <2>2 DEF PostWork, Writing, ToSub, FlightInv
  <2>4. w \in SSL
    BY <1>0, <2>1, ServerPostWorkType, ClientPostWorkType
  <2>5. t \in SSL
    BY ZenonT(120), <2>2, <2>4 DEF ToSub, SSL, SubStates
  <2>6. Good(t) /\ Forward(s, t)
    <3>1. CASE s.server
      BY <1>0, <2>1, <2>2, <2>3, <3>1, ServerWorkGood
    <3>2. CASE ~s.server
      BY <1>0, <2>1, <2>2, <2>3, <3>2, ClientWorkGood
    <3> QED BY <3>1, <3>2
  <2> HIDE DEF flush
  <2> QED BY <1>0, <2>3, <2>5, <2>6, SettleGood DEF SecInv
<1>7. CASE ReadHeader
  <2> DEFINE m == Head(in)
             t == tls_get_message_header(s, m)
  <2>1. s.state = "READING" /\ s.sub = "HEADER" /\ m \in Records /\ Settle(t, FALSE)
    BY <1>0, <1>7, RecordQueue DEF ReadHeader, Reading
  <2>2. m.flags \in FlagsOf(m.mt)
    <3>1. in # <<>> /\ m = in[1] /\ 1 \in DOMAIN in
      BY <1>0, <1>7 DEF ReadHeader
    <3> QED BY <1>0, <3>1 DEF InFlags
  <2> HIDE DEF m
  <2>3. t \in SSL
    BY <1>0, <2>1, HeaderType
  <2>4. Good(t) /\ Forward(s, t)
    BY <1>0, <2>1, <2>2, HeaderGood
  <2> HIDE DEF t
  <2> QED BY <1>0, <2>1, <2>3, <2>4, SettleGood DEF SecInv
<1>8. CASE ReadBody
  <2> DEFINE b == tls_get_message_body(s)
             t == IF b.server THEN server_process_message(b, b.init_msg)
                              ELSE client_process_message(b, b.init_msg)
  <2>1. s.state = "READING" /\ s.sub = "BODY" /\ Settle(t, FALSE)
    BY <1>8 DEF ReadBody, Reading
  <2>2. b \in SSL /\ Good(b) /\ Absorbed(b) /\ Place(s, b) /\ Chose(s, b) /\ Held(s, b)
    BY <1>0, <2>1, BodyGood
  <2>3. b.init_msg \in Records /\ b.state = "READING" /\ b.sub = "BODY" /\ b.server \in BOOLEAN
    BY <2>1, <2>2, SSLParts DEF Place
  <2> HIDE DEF b
  <2>4. t \in SSL
    BY <2>2, <2>3, ServerProcessType, ClientProcessType
  <2>5. Good(t) /\ Forward(b, t)
    BY <2>2, <2>3, ServerProcessGood, ClientProcessGood
  <2> HIDE DEF t
  <2>6. Forward(s, t)
    BY <2>2, <2>5, ForwardFrom DEF Place
  <2> QED BY <1>0, <2>1, <2>4, <2>5, <2>6, SettleGood DEF SecInv
<1>9. CASE PostProcess
  <2> DEFINE t == IF s.server THEN server_post_process_message(s, s.init_msg)
                              ELSE client_post_process_message(s)
  <2>1. s.state = "READING" /\ s.sub = "POST_PROCESS" /\ Settle(t, FALSE) /\ s.init_msg \in Records
    BY <1>0, <1>9, SSLParts DEF PostProcess, Reading
  <2>2. t \in SSL
    BY <1>0, <2>1, ServerProcessType, ClientProcessType
  <2>3. Good(t) /\ Forward(s, t)
    BY <1>0, <2>1, PostProcessGood
  <2> HIDE DEF t
  <2> QED BY <1>0, <2>1, <2>2, <2>3, SettleGood DEF SecInv
<1>10. CASE SslRead
  <2> DEFINE why == RecordError(s, Head(in))
  <2>1. why \in Reasons
    BY DEF RecordError, Reasons
  <2> HIDE DEF why
  <2>2. s.state = "FINISHED" /\ s.hand_state = "OK"
    BY <1>10 DEF SslRead, TypeInv, RestsAtEnds
  <2>3. CASE s' = state_machine_init([s EXCEPT !.in_init = TRUE])
    <3>1. PICK a : a = Again(s)
      OBVIOUS
    <3>2. s' = state_machine_init(a)
      BY <2>3, <3>1 DEF Again
    <3> QED BY <1>0, <2>2, <3>1, <3>2, AgainGood DEF SecInv
  <2>4. ASSUME NEW t, t = ossl_statem_fatal(s, why)
                      \/ t = ossl_statem_fatal_no_alert(s, "ALERT_RECEIVED"),
               Settle(t, FALSE)
        PROVE  SecInv' /\ Forward(s, s')
    <3>1. t \in SSL
      BY <1>0, <2>1, <2>4, FatalType DEF Reasons
    <3>2. Good(t) /\ Forward(s, t)
      BY <1>0, <2>4, FatalGood
    <3> QED BY <1>0, <2>4, <3>1, <3>2, SettleGood DEF SecInv
  <2> QED BY <1>10, <2>3, <2>4 DEF SslRead, why
<1>11. CASE PeerSends
  <2>1. s' = s
    BY <1>11 DEF PeerSends
  <2>2. Forward(s, s)
    BY RankNat DEF Forward
  <2> QED BY <1>0, <2>1, <2>2 DEF SecInv
<1>12. CASE UNCHANGED vars
  <2>1. s' = s
    BY <1>12 DEF vars
  <2> QED BY <1>0, <1>12, <2>1 DEF SecInv
<1> QED BY <1>1, <1>2, <1>3, <1>4, <1>5, <1>6, <1>7, <1>8, <1>9, <1>10, <1>11, <1>12
        DEF Next, EndpointNext

-----------------------------------------------------------------------------
(* The theorems *)

\* For every set of options and whatever the peer sends, in whatever order: a
\* server that demands or reports a client certificate ends a full handshake
\* only after a trusted chain and a signature over this transcript
\* (tls_process_client_certificate, tls_process_cert_verify and the read
\* transitions of statem_srvr.c that lead past them).
THEOREM ClientsProveThemselves == Spec => []ClientAuthenticated
<1>1. TypeInv /\ SecInv => ClientAuthenticated
  <2> SUFFICES ASSUME TypeInv, SecInv PROVE ClientAuthenticated
    OBVIOUS
  <2>1. Ends(s)
    BY GoodEnds DEF TypeInv, TypeOK, SecInv
  <2> QED BY <2>1 DEF Ends, ClientAuthenticated, Established, Owed, Demands
<1> QED BY <1>1, TypeInit, TypeStep, FlightInit, FlightStep, SecInit, SecStep, PTL DEF Spec

\* No order of messages ends a handshake with a direction in the clear or under
\* a handshake key, and no key is ever derived from public values alone
\* (tls13_change_cipher_state, tls1_change_cipher_state and where the two state
\* machines call them).
THEOREM KeysAlwaysProtected == Spec => []KeysProtected
<1>1. TypeInv /\ SecInv => KeysProtected
  <2> SUFFICES ASSUME TypeInv, SecInv PROVE KeysProtected
    OBVIOUS
  <2>1. Ends(s) /\ Keyed(s.enc_read) /\ Keyed(s.enc_write)
    BY GoodEnds DEF TypeInv, TypeOK, SecInv, Good
  <2>2. \A k \in {s.enc_read, s.enc_write} :
          k.epoch # "PLAIN" => Len(k.secret) > (IF k.epoch = "TLS1_2" THEN 1 ELSE 0)
    BY <2>1 DEF Keyed
  <2>3. Established => /\ {s.enc_read.epoch, s.enc_write.epoch}
                            = {IF SSL_IS_TLS13(s) THEN "APPLICATION" ELSE "TLS1_2"}
                       /\ ~s.plain_alerts
    BY <2>1 DEF Ends, Established
  <2> QED BY <2>2, <2>3 DEF KeysProtected
<1> QED BY <1>1, TypeInit, TypeStep, FlightInit, FlightStep, SecInit, SecStep, PTL DEF Spec

\* A negotiated version stays, keys only move to later epochs and a
\* HelloRetryRequest exchange, once complete, is not started again, across every
\* step of the endpoint and every message of its peer; a handshake with a retry
\* ends in TLSv1.3.
THEOREM NothingTakenBack == Spec => NeverGoesBack
<1>1. TypeInv /\ FlightInv /\ SecInv /\ [Next]_vars =>
        [ /\ s.version # "ANY" => s'.version = s.version
          /\ Rank(s'.enc_read) >= Rank(s.enc_read)
          /\ Rank(s'.enc_write) >= Rank(s.enc_write)
          /\ RetryRank(s'.hello_retry_request) >= RetryRank(s.hello_retry_request)
          /\ s'.state = "FINISHED" /\ s.state # "FINISHED" =>
               (s'.hello_retry_request # "NONE" => s'.version = "TLS1_3") ]_vars
  BY SecStep DEF Forward
<1> QED BY <1>1, TypeInit, TypeStep, FlightInit, FlightStep, SecInit, SecStep, PTL
        DEF Spec, NeverGoesBack

=============================================================================
