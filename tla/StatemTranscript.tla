-------------------------- MODULE StatemTranscript --------------------------
(***************************************************************************)
(* What a Finished message proves.  The invariants here are about one      *)
(* endpoint with an arbitrary peer and say what its transcript, the        *)
(* records it sends and its keys have to do with each other: what it has   *)
(* hashed about the hellos and certificates is what it acts on, and the    *)
(* verify_data it sends covers exactly that.  An endpoint that checks      *)
(* the Finished of another one of the same kind then knows the settings    *)
(* and choices of its peer (LEMMA Concludes).                              *)
(***************************************************************************)
EXTENDS StatemSecurity

Fin == Elem("FINISHED", {})
IsCH(e) == e.mt = "CLIENT_HELLO"
IsSH(e) == e.mt = "SERVER_HELLO" /\ "HRR" \notin e.flags
Opener(e) == e.mt \in {"SERVER_DONE", "FINISHED"}

\* p is the beginning of tr.
Starts(p, tr) == Len(p) <= Len(tr) /\ \A i \in DOMAIN p : tr[i] = p[i]

\* The secret under which the Finished messages are computed.
Secret(t) == IF SSL_IS_TLS13(t) THEN t.handshake_traffic_hash ELSE t.master_key

-----------------------------------------------------------------------------
(* Places in the handshake *)

\* The state belongs to the endpoint's side.
Sided(t) ==
  t.hand_state \in {"BEFORE", "OK"} \cup (IF t.server THEN ServerStates ELSE ClientStates)

ReadStates ==
  {"CR_SRVR_HELLO", "CR_CERT", "CR_CERT_STATUS", "CR_KEY_EXCH", "CR_CERT_REQ", "CR_SRVR_DONE",
   "CR_SESSION_TICKET", "CR_CHANGE", "CR_FINISHED", "CR_ENCRYPTED_EXTENSIONS", "CR_CERT_VRFY",
   "SR_CLNT_HELLO", "SR_CERT", "SR_KEY_EXCH", "SR_CERT_VRFY", "SR_CHANGE", "SR_FINISHED"}

\* The peer's Finished has been checked; our own has been sent.
PeerSeen(t) ==
  LET h == t.hand_state
      v13 == t.version = "TLS1_3"
  IN  \/ h \in {"CR_FINISHED", "SR_FINISHED"} /\ t.sub # "BODY"
      \/ h = "OK"
      \/ v13 /\ h \in {"CW_CHANGE", "CW_CERT", "CW_CERT_VRFY", "CW_FINISHED", "CR_SESSION_TICKET",
                       "SW_SESSION_TICKET"}
      \/ ~v13 /\ t.hit /\ h \in {"CW_CHANGE", "CW_FINISHED"}
      \/ ~v13 /\ ~t.hit /\ h \in {"SW_SESSION_TICKET", "SW_CHANGE", "SW_FINISHED"}

OwnSent(t) ==
  LET h == t.hand_state
      v13 == t.version = "TLS1_3"
  IN  \/ h \in {"CW_FINISHED", "SW_FINISHED"} /\ t.sub \notin {"PRE_WORK", "SEND"}
      \/ h = "OK"
      \/ v13 /\ h \in {"CR_SESSION_TICKET", "SR_CERT", "SR_CERT_VRFY", "SR_FINISHED",
                       "SW_SESSION_TICKET"}
      \/ v13 /\ h = "EARLY_DATA" /\ ~Pending(t)
      \/ ~v13 /\ ~t.hit /\ h \in {"CR_SESSION_TICKET", "CR_CHANGE", "CR_FINISHED"}
      \/ ~v13 /\ t.hit /\ h \in {"SR_CHANGE", "SR_FINISHED"}

Certain(t) == OwnSent(t) \/ PeerSeen(t)

\* The side whose Finished ends the handshake.
LastWriter(t) == IF t.server THEN ~SSL_IS_TLS13(t) /\ ~t.hit ELSE SSL_IS_TLS13(t) \/ t.hit

\* No flight has been completed by either side.
Unopened(t) ==
  LET h == t.hand_state
      v13 == t.version = "TLS1_3"
  IN  \/ t.version = "ANY"
      \/ h \in {"CR_SRVR_HELLO", "CR_ENCRYPTED_EXTENSIONS", "CR_CERT_REQ", "CR_CERT",
                "CR_CERT_STATUS", "CR_KEY_EXCH", "SR_CLNT_HELLO", "SW_SRVR_HELLO"}
      \/ h = "CR_SRVR_DONE" /\ t.sub = "BODY"
      \/ v13 /\ h \in {"CR_CERT_VRFY", "SW_ENCRYPTED_EXTENSIONS", "SW_CERT_REQ", "SW_CERT",
                       "SW_CERT_VRFY", "SW_CHANGE"}
      \/ v13 /\ h = "CR_FINISHED" /\ t.sub = "BODY"
      \/ v13 /\ h = "SW_FINISHED" /\ t.sub \in {"PRE_WORK", "SEND"}
      \/ v13 /\ h = "EARLY_DATA" /\ Pending(t)

\* A server has hashed a ClientHello it will answer, or has answered, with
\* something other than a HelloRetryRequest; has chosen; has answered.
Heard(t) ==
  LET h == t.hand_state
  IN  \/ h = "SR_CLNT_HELLO" /\ t.sub # "BODY"
      \/ h \notin {"BEFORE", "SR_CLNT_HELLO"} /\ ~Pending(t)
Deaf(t) ==
  LET h == t.hand_state
  IN  \/ h = "BEFORE"
      \/ h = "SR_CLNT_HELLO" /\ t.sub = "BODY"
      \/ Pending(t) /\ h # "SR_CLNT_HELLO" /\ ~(h = "SW_SRVR_HELLO" /\ t.sub = "PRE_WORK")
Decided(t) ==
  t.hand_state # "BEFORE" /\ (t.hand_state = "SR_CLNT_HELLO" => t.state = "WRITING")
Answered(t) ==
  /\ t.hand_state \notin {"BEFORE", "SR_CLNT_HELLO"} /\ ~Pending(t)
  /\ ~(t.hand_state = "SW_SRVR_HELLO" /\ t.sub \in {"PRE_WORK", "SEND"})


-----------------------------------------------------------------------------
(* Messages *)

\* The message of a state.
MessageOf(h) ==
  CASE h \in {"CW_CLNT_HELLO", "SR_CLNT_HELLO"} -> "CLIENT_HELLO"
    [] h \in {"CR_SRVR_HELLO", "SW_SRVR_HELLO"} -> "SERVER_HELLO"
    [] h \in {"CR_ENCRYPTED_EXTENSIONS", "SW_ENCRYPTED_EXTENSIONS"} -> "ENCRYPTED_EXTENSIONS"
    [] h \in {"CR_CERT", "CW_CERT", "SR_CERT", "SW_CERT"} -> "CERTIFICATE"
    [] h \in {"CR_CERT_STATUS", "SW_CERT_STATUS"} -> "CERTIFICATE_STATUS"
    [] h \in {"CR_KEY_EXCH", "SW_KEY_EXCH"} -> "SERVER_KEY_EXCHANGE"
    [] h \in {"CR_CERT_REQ", "SW_CERT_REQ"} -> "CERTIFICATE_REQUEST"
    [] h \in {"CR_SRVR_DONE", "SW_SRVR_DONE"} -> "SERVER_DONE"
    [] h \in {"CW_KEY_EXCH", "SR_KEY_EXCH"} -> "CLIENT_KEY_EXCHANGE"
    [] h \in {"CR_CERT_VRFY", "CW_CERT_VRFY", "SR_CERT_VRFY", "SW_CERT_VRFY"} -> "CERTIFICATE_VERIFY"
    [] h \in {"CR_CHANGE", "CW_CHANGE", "SR_CHANGE", "SW_CHANGE"} -> "CHANGE_CIPHER_SPEC"
    [] h \in {"CR_FINISHED", "CW_FINISHED", "SR_FINISHED", "SW_FINISHED"} -> "FINISHED"
    [] h \in {"CR_SESSION_TICKET", "SW_SESSION_TICKET"} -> "NEWSESSION_TICKET"
    [] OTHER -> "NONE"

\* What a client's hello offers.
Offer(t, f) ==
  /\ f \cap Versions = t.opt.versions /\ "ems" \in f
  /\ \A v \in Versions : SessFlag(v) \in f => t.opt.session = v

\* The endpoint has chosen what the ServerHello f says.
Answers(t, f) ==
  /\ "HRR" \notin f
  /\ t.version \in Versions /\ ("TLS1_3" \in f <=> t.version = "TLS1_3")
  /\ f \cap Ciphers = {t.new_cipher}
  /\ t.new_cipher = IF t.version = "TLS1_3" THEN "TLS13" ELSE t.opt.cipher
  /\ t.hit => "hit" \in f
  /\ "hit" \in f /\ (t.server \/ t.opt.session = t.version) => t.hit
  /\ t.version = "TLS1_2" => (t.extms <=> "ems" \in f)
  /\ t.version = "TLS1_3" => t.group \in f /\ (t.server => f \cap {"g1", "g2"} = {t.group})

\* The server has chosen what it may on the ClientHello f.
Picked(t, f) ==
  /\ t.version \in f \cap t.opt.versions
  /\ "TLS1_3" \in f \cap t.opt.versions => t.version = "TLS1_3"
  /\ t.hit => SessFlag(t.version) \in f
  /\ t.version = "TLS1_2" => (t.extms <=> "ems" \in f)

\* The message in hand.
InHand(t) ==
  LET h == t.hand_state
      m == t.init_msg
  IN  /\ t.sub = "BODY" => h \in ReadStates
      /\ t.sub = "SEND" => h \in WriteStates
      /\ t.sub \in {"BODY", "SEND"} => m.mt = MessageOf(h)
      /\ t.sub = "SEND" =>
           /\ h \notin {"CW_CLNT_HELLO", "SW_SRVR_HELLO"} => m.flags \in FlagsOf(m.mt)
           /\ h \in {"CW_FINISHED", "SW_FINISHED"} => m.mac = final_finish_mac(t, Side(t))
           /\ h = "CW_CLNT_HELLO" => Offer(t, m.flags)
           /\ h = "SW_SRVR_HELLO" => IF Pending(t) THEN "HRR" \in m.flags ELSE Answers(t, m.flags)
           /\ h \in {"CW_CERT", "SW_CERT"} => m.flags = ChainFlags(t.opt.cert)

\* A Finished that t has sent: its verify_data covers t's transcript up to it.
FinRecord(t, m) ==
  m.mt = "FINISHED" =>
    /\ OwnSent(t)
    /\ m.mac.sender = Side(t) /\ m.mac.secret = Secret(t)
    /\ Starts(Append(m.mac.hash, Fin), t.transcript)
    /\ LastWriter(t) => t.transcript = Append(m.mac.hash, Fin)

FlagsOK(m) == m.mt \in {"CLIENT_HELLO", "SERVER_HELLO"} \/ m.flags \in FlagsOf(m.mt)

Buffered(t) == \A i \in DOMAIN t.bbio : FinRecord(t, t.bbio[i]) /\ FlagsOK(t.bbio[i])

-----------------------------------------------------------------------------
(* The transcript *)

\* The ServerHellos in the transcript are what the endpoint acts on, and so are
\* the ClientHellos in a server's.
Honours(t) ==
  \A i \in DOMAIN t.transcript : IsSH(t.transcript[i]) => Answers(t, t.transcript[i].flags)
Obeys(t) ==
  \A i \in DOMAIN t.transcript : IsCH(t.transcript[i]) => Picked(t, t.transcript[i].flags)

HasCH(tr) == \E i \in DOMAIN tr : IsCH(tr[i])
HasSH(tr) == \E i \in DOMAIN tr : IsSH(tr[i])

\* No flight is completed before both hellos are hashed.
HelloFirst(tr) ==
  \A k \in DOMAIN tr : Opener(tr[k]) =>
    /\ \E i \in DOMAIN tr : i < k /\ IsSH(tr[i])
    /\ \E i \in DOMAIN tr : i < k /\ IsCH(tr[i])

\* Whose certificate a Certificate message is: the server's before the end of
\* its flight, the client's after it.
After(tr, j) == \E i \in DOMAIN tr : i < j /\ Opener(tr[i])
OwnChains(t) ==
  \A j \in DOMAIN t.transcript :
    /\ t.transcript[j].mt = "CERTIFICATE"
    /\ t.server <=> ~After(t.transcript, j)
    => t.transcript[j].flags = ChainFlags(t.opt.cert)

\* A client that was asked for a certificate sent none.
NoneSent(tr) == \E j \in DOMAIN tr : tr[j] = Elem("CERTIFICATE", {}) /\ After(tr, j)

\* A server that asks gets an answer before it goes on.
Wants(t) == t.server /\ ~t.hit /\ send_certificate_request(t)
Asked(t) ==
  LET h == t.hand_state
  IN  Wants(t) =>
        /\ h \in {"SW_SRVR_DONE", "SR_CERT"} => t.cert_request
        /\ t.version = "TLS1_3" /\ (h \in {"SW_CERT", "SW_CERT_VRFY", "SW_FINISHED"}
                                      \/ (h = "EARLY_DATA" /\ ~Pending(t)))
             => t.cert_request
        /\ (h \in {"SR_KEY_EXCH", "SR_CERT_VRFY", "SR_CHANGE", "SR_FINISHED"}
              \/ (h = "SR_CERT" /\ t.sub # "BODY"))
             => t.peer \/ NoneSent(t.transcript)

\* A client that insists on a certificate has seen a trusted one in the server's
\* first flight.
ChainFirst(tr) == \E j \in DOMAIN tr : tr[j] = TrustedChain /\ ~After(tr, j)
Shown(t) ==
  LET h == t.hand_state
  IN  ~t.server /\ ~t.hit /\ Asks(t) /\ (t.version # "ANY" \/ h = "OK")
        /\ h \notin {"CR_SRVR_HELLO", "CR_ENCRYPTED_EXTENSIONS"}
        /\ ~(h = "CR_CERT" /\ t.sub = "BODY")
        /\ ~(h = "CR_CERT_REQ" /\ t.version = "TLS1_3")
      => ChainFirst(t.transcript)

-----------------------------------------------------------------------------
(* Keys *)

\* h is the transcript tr up to the first Finished.
UpToFinished(h, tr) ==
  /\ h # <<>> /\ Starts(h, tr)
  /\ \A i \in DOMAIN h : h[i].mt = "FINISHED" <=> i = Len(h)

AppKey(t, writer) == [epoch |-> "APPLICATION", writer |-> writer, secret |-> t.server_finished_hash]

\* No keys of TLSv1.2 yet.
Keyless(t) ==
  t.hand_state \in
    {"CR_SRVR_HELLO", "CR_CERT", "CR_CERT_STATUS", "CR_KEY_EXCH", "CR_CERT_REQ", "CR_SRVR_DONE",
     "CW_CERT", "CW_KEY_EXCH", "SR_CLNT_HELLO", "SW_SRVR_HELLO", "SW_CERT", "SW_CERT_STATUS",
     "SW_KEY_EXCH", "SW_CERT_REQ", "SW_SRVR_DONE", "SR_CERT", "SR_KEY_EXCH"}

KeysKnown(t) ==
  /\ t.version = "TLS1_2" =>
       /\ t.enc_read \in {PlainKey, tls1_key(t, PeerSide(t))}
       /\ t.enc_write \in {PlainKey, tls1_key(t, Side(t))}
  /\ t.version = "TLS1_3" =>
       /\ t.enc_read.epoch = "APPLICATION" => t.enc_read = AppKey(t, PeerSide(t))
       /\ t.enc_write.epoch = "APPLICATION" => t.enc_write = AppKey(t, Side(t))
  /\ t.server_finished_hash # <<>> => UpToFinished(t.server_finished_hash, t.transcript)

\* In single places: a TLSv1.2 client that reads behind its own Finished was not
\* resumed, only TLSv1.2 has a ServerHelloDone, and a TLSv1.3 server derives its
\* application keys behind the first Finished.
Spots(t) ==
  LET h == t.hand_state
  IN  /\ ~t.server /\ t.version = "TLS1_2" /\ h = "CW_FINISHED" /\ t.state = "READING" => ~t.hit
      /\ t.server /\ h = "SW_SRVR_DONE" => t.version = "TLS1_2"
      /\ t.server /\ t.version = "TLS1_3" /\ h = "SW_FINISHED" /\ t.sub = "POST_WORK" =>
           UpToFinished(t.transcript, t.transcript)

-----------------------------------------------------------------------------
(* The invariant *)

\* Of an endpoint that may have failed.
Always(t) ==
  /\ Sided(t)
  /\ t.hit => t.opt.session = t.version
  /\ t.server => HelloFirst(t.transcript)
  /\ ~t.server => \A i \in DOMAIN t.transcript :
                    IsCH(t.transcript[i]) => Offer(t, t.transcript[i].flags)
  /\ OwnChains(t)
  /\ Certain(t) => Honours(t) /\ (t.server => Obeys(t))
  /\ t.hand_state = "OK" => KeysKnown(t) /\ Shown(t)
  /\ Buffered(t)

\* Of one that has not.
Alive(t) ==
  LET h == t.hand_state
      tr == t.transcript
  IN  /\ InHand(t) /\ Spots(t)
      /\ Honours(t)
      /\ ~t.server /\ t.version = "ANY" => ~HasSH(tr)
      /\ t.server /\ h # "OK" /\ ~Answered(t) => ~HasSH(tr)
      /\ t.server /\ Answered(t) => HasSH(tr)
      /\ t.server /\ Deaf(t) => ~HasCH(tr)
      /\ t.server /\ Heard(t) => HasCH(tr)
      /\ t.server /\ Decided(t) => Obeys(t)
      /\ t.server /\ h = "SR_CLNT_HELLO" /\ t.sub = "POST_PROCESS" =>
           \A i \in DOMAIN tr : IsCH(tr[i]) => tr[i].flags = t.init_msg.flags
      /\ Unopened(t) => ~Opened(tr)
      /\ t.server /\ t.version = "TLS1_2" => t.new_cipher = t.opt.cipher
      /\ t.cert_req = 2 => t.opt.cert = "NONE"
      /\ Asked(t) /\ Shown(t)
      /\ KeysKnown(t)
      /\ t.version = "TLS1_2" /\ Keyless(t) => t.enc_read = PlainKey /\ t.enc_write = PlainKey
      /\ t.server /\ t.version = "TLS1_3" /\ ~PeerSeen(t) => t.enc_read.epoch # "APPLICATION"

Wire(t) == Always(t) /\ (t.state # "ERROR" => Alive(t))

\* What a step may not do to an endpoint whose Finished is out, or that has
\* checked its peer's.
Fixed(t, u) ==
  /\ u.version = t.version /\ u.hit = t.hit /\ u.new_cipher = t.new_cipher
  /\ u.group = t.group /\ u.extms = t.extms /\ Secret(u) = Secret(t)
Steady(t, u) ==
  /\ u.server = t.server /\ u.opt = t.opt
  /\ OwnSent(t) => OwnSent(u)
  /\ PeerSeen(t) => PeerSeen(u)
  /\ Certain(t) => Fixed(t, u) /\ Starts(t.transcript, u.transcript)
  /\ OwnSent(t) /\ PeerSeen(t) => u.transcript = t.transcript
  /\ PeerSeen(u) /\ ~PeerSeen(t) =>
       /\ t.init_msg.mac = final_finish_mac(t, PeerSide(t)) /\ t.init_msg.mt = "FINISHED"
       /\ t.state = "READING" /\ t.sub = "BODY"
       /\ Fixed(t, u) /\ u.transcript = Append(t.transcript, Fin)
OutRecords(q, u, r) ==
  \A i \in DOMAIN r : (\E j \in DOMAIN q : r[i] = q[j]) \/ (FinRecord(u, r[i]) /\ FlagsOK(r[i]))

-----------------------------------------------------------------------------
(* Two endpoints *)

\* r accepts the credentials of w.
Trusts(r, w) ==
  \/ r.hit \/ ~VerifyPeer(r) \/ r.new_cipher \in {"ANON", "PSK", "DHEPSK"}
  \/ w.opt.cert = "TRUSTED"
  \/ r.server /\ r.opt.verify = "PEER" /\ w.opt.cert = "NONE"

\* What r knows about its peer w once it has checked its Finished.
Linked(r, w) ==
  PeerSeen(r) =>
    /\ OwnSent(w)
    /\ r.version = w.version /\ r.hit = w.hit /\ r.new_cipher = w.new_cipher
    /\ \A t \in {r, w} : t.new_cipher = IF t.version = "TLS1_3" THEN "TLS13" ELSE t.opt.cipher
    /\ Secret(r) = Secret(w)
    /\ IF r.version = "TLS1_3" THEN r.group = w.group ELSE r.extms /\ w.extms
    /\ r.version \in r.opt.versions \cap w.opt.versions
    /\ "TLS1_3" \in r.opt.versions \cap w.opt.versions => r.version = "TLS1_3"
    /\ Trusts(r, w)
    /\ LastWriter(w) => r.transcript = w.transcript

\* A message waits to be processed.
InBody(t) == t.state = "READING" /\ t.sub = "BODY"

\* What w has sent, and r has not processed, are w's Finished messages.
Delivers(w, r, q) ==
  /\ \A i \in DOMAIN q : FinRecord(w, q[i]) /\ FlagsOK(q[i])
  /\ InBody(r) => FinRecord(w, r.init_msg)

-----------------------------------------------------------------------------
(* Transcripts *)

LEMMA StartsRefl ==
  ASSUME NEW p \in Hash
  PROVE  Starts(p, p)
BY DEF Starts, Hash

LEMMA StartsTrans ==
  ASSUME NEW p \in Hash, NEW q \in Hash, NEW r \in Hash, Starts(p, q), Starts(q, r)
  PROVE  Starts(p, r)
BY DEF Starts, Hash

LEMMA StartsAppend ==
  ASSUME NEW p \in Hash, NEW e \in Hashed
  PROVE  Starts(p, Append(p, e))
BY DEF Starts, Hash

\* Two beginnings of one transcript are the same when both end where the first
\* Finished is.
LEMMA UpToUnique ==
  ASSUME NEW tr \in Hash, NEW g \in Hash, NEW h \in Hash,
         UpToFinished(g, tr), UpToFinished(h, tr)
  PROVE  g = h
<1>1. /\ Len(g) \in Nat /\ Len(h) \in Nat /\ Len(g) # 0 /\ Len(h) # 0
      /\ DOMAIN g = 1..Len(g) /\ DOMAIN h = 1..Len(h)
  BY DEF UpToFinished, Hash
<1>2. Len(g) = Len(h)
  <2>1. Len(g) \in DOMAIN g /\ Len(h) \in DOMAIN h
    BY <1>1
  <2>2. g[Len(g)].mt = "FINISHED" /\ h[Len(h)].mt = "FINISHED"
    BY <2>1 DEF UpToFinished
  <2>3. CASE Len(g) < Len(h)
    <3>1. Len(g) \in DOMAIN h /\ h[Len(g)] = g[Len(g)]
      BY <1>1, <2>1, <2>3 DEF UpToFinished, Starts
    <3>2. Len(g) = Len(h)
      BY <2>2, <3>1 DEF UpToFinished
    <3> QED BY <1>1, <2>3, <3>2
  <2>4. CASE Len(h) < Len(g)
    <3>1. Len(h) \in DOMAIN g /\ g[Len(h)] = h[Len(h)]
      BY <1>1, <2>1, <2>4 DEF UpToFinished, Starts
    <3>2. Len(h) = Len(g)
      BY <2>2, <3>1 DEF UpToFinished
    <3> QED BY <1>1, <2>4, <3>2
  <2>5. \A a, b \in Nat : a < b \/ b < a \/ a = b
    OBVIOUS
  <2>6. Len(g) < Len(h) \/ Len(h) < Len(g) \/ Len(g) = Len(h)
    BY <1>1, <2>5, Zenon
  <2> QED BY <2>3, <2>4, <2>6
<1>3. \A i \in 1..Len(g) : g[i] = h[i]
  BY <1>1, <1>2 DEF UpToFinished, Starts
<1> QED BY <1>1, <1>2, <1>3 DEF Hash

\* Every message of a transcript with one more is that one or was there.
LEMMA Added ==
  ASSUME NEW tr \in Hash, NEW e \in Hashed, NEW u, u = Append(tr, e)
  PROVE  /\ u \in Hash /\ u # <<>> /\ Starts(tr, u) /\ Starts(u, u)
         /\ \A i \in DOMAIN tr : i \in Nat /\ i < Len(tr) + 1 /\ i \in DOMAIN u /\ u[i] = tr[i]
         /\ Len(tr) + 1 \in DOMAIN u /\ Len(tr) + 1 \in Nat /\ u[Len(tr) + 1] = e
         /\ \A i \in DOMAIN u : i = Len(tr) + 1 \/ i \in DOMAIN tr
<1>1. u \in Hash /\ Starts(tr, u) /\ Starts(u, u)
  BY AppendHash, StartsAppend, StartsRefl
<1>2. /\ Len(tr) \in Nat /\ DOMAIN tr = 1..Len(tr) /\ DOMAIN u = 1..(Len(tr) + 1)
      /\ u[Len(tr) + 1] = e /\ \A i \in DOMAIN tr : u[i] = tr[i]
  BY DEF Hash
<1> QED BY <1>1, <1>2 DEF Hash

\* What one more message does to a transcript.
LEMMA Grown ==
  ASSUME NEW tr \in Hash, NEW e \in Hashed, NEW u, u = Append(tr, e)
  PROVE  /\ HasCH(u) <=> HasCH(tr) \/ IsCH(e)
         /\ HasSH(u) <=> HasSH(tr) \/ IsSH(e)
         /\ Opened(u) <=> Opened(tr) \/ Opener(e)
         /\ NoneSent(tr) => NoneSent(u)
         /\ Opened(tr) /\ e = Elem("CERTIFICATE", {}) => NoneSent(u)
         /\ ChainFirst(tr) => ChainFirst(u)
         /\ ~Opened(tr) /\ e = TrustedChain => ChainFirst(u)
         /\ HelloFirst(tr) /\ (Opener(e) => HasSH(tr) /\ HasCH(tr)) => HelloFirst(u)
         /\ \A j \in DOMAIN tr : After(u, j) <=> After(tr, j)
         /\ After(u, Len(tr) + 1) <=> Opened(tr)
<1> DEFINE n == Len(tr) + 1
<1>1. /\ \A i \in DOMAIN tr : i \in Nat /\ i < n /\ i \in DOMAIN u /\ u[i] = tr[i]
      /\ n \in DOMAIN u /\ u[n] = e /\ n \in Nat
      /\ \A i \in DOMAIN u : i = n \/ i \in DOMAIN tr
  BY Added
<1> HIDE DEF n
<1>2. HasCH(u) <=> HasCH(tr) \/ IsCH(e)
  BY <1>1 DEF HasCH, IsCH
<1>3. HasSH(u) <=> HasSH(tr) \/ IsSH(e)
  BY <1>1 DEF HasSH, IsSH
<1>4. Opened(u) <=> Opened(tr) \/ Opener(e)
  BY <1>1 DEF Opened, Opener
<1>5. \A j \in DOMAIN tr : After(u, j) <=> After(tr, j)
  BY <1>1 DEF After, Opener
<1>6. After(u, n) <=> Opened(tr)
  BY <1>1 DEF After, Opened, Opener
<1>7. NoneSent(tr) => NoneSent(u)
  BY <1>1, <1>5 DEF NoneSent
<1>8. Opened(tr) /\ e = Elem("CERTIFICATE", {}) => NoneSent(u)
  BY <1>1, <1>6 DEF NoneSent
<1>9. ChainFirst(tr) => ChainFirst(u)
  BY <1>1, <1>5 DEF ChainFirst
<1>10. ~Opened(tr) /\ e = TrustedChain => ChainFirst(u)
  BY <1>1, <1>6 DEF ChainFirst
<1>11. HelloFirst(tr) /\ (Opener(e) => HasSH(tr) /\ HasCH(tr)) => HelloFirst(u)
  <2> SUFFICES ASSUME HelloFirst(tr), Opener(e) => HasSH(tr) /\ HasCH(tr),
                      NEW k \in DOMAIN u, Opener(u[k])
               PROVE  /\ \E i \in DOMAIN u : i < k /\ IsSH(u[i])
                      /\ \E i \in DOMAIN u : i < k /\ IsCH(u[i])
    BY DEF HelloFirst
  <2>1. CASE k \in DOMAIN tr
    <3>1. Opener(tr[k])
      BY <1>1, <2>1
    <3> QED BY <1>1, <2>1, <3>1 DEF HelloFirst
  <2>2. CASE k = n
    <3>1. Opener(e)
      BY <1>1, <2>2
    <3>2. \E i \in DOMAIN tr : IsSH(tr[i])
      BY <3>1 DEF HasSH
    <3>3. \E i \in DOMAIN tr : IsCH(tr[i])
      BY <3>1 DEF HasCH
    <3> QED BY <1>1, <2>2, <3>2, <3>3
  <2> QED BY <1>1, <2>1, <2>2
<1> QED BY <1>2, <1>3, <1>4, <1>5, <1>6, <1>7, <1>8, <1>9, <1>10, <1>11 DEF n

-----------------------------------------------------------------------------
(* What a step leaves alone *)

\* What the hellos chose; keys and secrets; certificates; all of them.
Agreed(t, u) ==
  /\ u.server = t.server /\ u.opt = t.opt /\ u.version = t.version /\ u.hit = t.hit
  /\ u.new_cipher = t.new_cipher /\ u.group = t.group /\ u.extms = t.extms
  /\ u.hello_retry_request = t.hello_retry_request
SameKeys(t, u) ==
  /\ u.enc_read = t.enc_read /\ u.enc_write = t.enc_write /\ u.master_key = t.master_key
  /\ u.handshake_traffic_hash = t.handshake_traffic_hash
  /\ u.server_finished_hash = t.server_finished_hash
SameCerts(t, u) ==
  u.cert_req = t.cert_req /\ u.cert_request = t.cert_request /\ u.peer = t.peer
Stays(t, u) ==
  Agreed(t, u) /\ SameKeys(t, u) /\ SameCerts(t, u) /\ u.transcript = t.transcript

LEMMA FinHashed == Fin \in Hashed
BY DEF Fin, Elem, Hashed, MessageTypes

\* A side whose Finished ends the handshake has checked its peer's before.
LEMMA LastIsSecond ==
  ASSUME NEW t, Sided(t), OwnSent(t), LastWriter(t)
  PROVE  PeerSeen(t)
BY DEF Sided, OwnSent, PeerSeen, LastWriter, SSL_IS_TLS13, ClientStates, ServerStates

\* What is under way stays what it was.
LEMMA RecordsKept ==
  ASSUME NEW t \in SSL, NEW u \in SSL, Sided(t), Steady(t, u), NEW m \in Records, FinRecord(t, m)
  PROVE  FinRecord(u, m)
<1> SUFFICES ASSUME m.mt = "FINISHED"
             PROVE  FinRecord(u, m)
  BY DEF FinRecord
<1>1. /\ OwnSent(t) /\ m.mac.sender = Side(t) /\ m.mac.secret = Secret(t)
      /\ Starts(Append(m.mac.hash, Fin), t.transcript)
      /\ LastWriter(t) => t.transcript = Append(m.mac.hash, Fin)
  BY DEF FinRecord
<1>2. OwnSent(u) /\ Fixed(t, u) /\ Starts(t.transcript, u.transcript) /\ u.server = t.server
  BY <1>1 DEF Steady, Certain
<1>3. m.mac.sender = Side(u) /\ m.mac.secret = Secret(u)
  BY <1>1, <1>2 DEF Side, Fixed
<1>4. Append(m.mac.hash, Fin) \in Hash
  BY FinHashed, AppendHash DEF Records, Macs
<1>5. Starts(Append(m.mac.hash, Fin), u.transcript)
  BY <1>1, <1>2, <1>4, StartsTrans, SSLParts
<1>6. LastWriter(u) => u.transcript = Append(m.mac.hash, Fin)
  <2> SUFFICES ASSUME LastWriter(u)
               PROVE  u.transcript = Append(m.mac.hash, Fin)
    OBVIOUS
  <2>1. LastWriter(t)
    BY <1>2 DEF LastWriter, Fixed, SSL_IS_TLS13
  <2>2. PeerSeen(t)
    BY <1>1, <2>1, LastIsSecond
  <2> QED BY <1>1, <2>1, <2>2 DEF Steady
<1> QED BY <1>2, <1>3, <1>5, <1>6 DEF FinRecord

\* The buffering BIO: kept, emptied, or with an alert behind it.
LEMMA BufferedKept ==
  ASSUME NEW t \in SSL, NEW u \in SSL, Sided(t), Steady(t, u), Buffered(t),
         \A i \in DOMAIN u.bbio :
           \/ \E j \in DOMAIN t.bbio : u.bbio[i] = t.bbio[j]
           \/ FinRecord(u, u.bbio[i]) /\ FlagsOK(u.bbio[i])
  PROVE  Buffered(u)
<1> SUFFICES ASSUME NEW i \in DOMAIN u.bbio
             PROVE  FinRecord(u, u.bbio[i]) /\ FlagsOK(u.bbio[i])
  BY DEF Buffered
<1>1. CASE \E j \in DOMAIN t.bbio : u.bbio[i] = t.bbio[j]
  <2>1. PICK j \in DOMAIN t.bbio : u.bbio[i] = t.bbio[j]
    BY <1>1
  <2>2. t.bbio[j] \in Records
    BY SSLParts
  <2>3. FinRecord(t, t.bbio[j]) /\ FlagsOK(t.bbio[j])
    BY DEF Buffered
  <2> QED BY <2>1, <2>2, <2>3, RecordsKept
<1> QED BY <1>1

-----------------------------------------------------------------------------
(* Moves *)

\* What the choices of the hellos, and the transcript, are enough for.
LEMMA SameChoices ==
  ASSUME NEW t, NEW u, Agreed(t, u), u.transcript = t.transcript
  PROVE  /\ Side(u) = Side(t) /\ PeerSide(u) = PeerSide(t)
         /\ SSL_IS_TLS13(u) <=> SSL_IS_TLS13(t)
         /\ LastWriter(u) <=> LastWriter(t)
         /\ Honours(t) => Honours(u)
         /\ Obeys(t) => Obeys(u)
         /\ OwnChains(t) => OwnChains(u)
         /\ \A f : Offer(t, f) => Offer(u, f)
         /\ Wants(u) <=> Wants(t)
         /\ Asks(u) <=> Asks(t)
<1>1. /\ Side(u) = Side(t) /\ PeerSide(u) = PeerSide(t)
      /\ SSL_IS_TLS13(u) <=> SSL_IS_TLS13(t)
      /\ LastWriter(u) <=> LastWriter(t)
  BY DEF Agreed, Side, PeerSide, SSL_IS_TLS13, LastWriter
<1>2. Honours(t) => Honours(u)
  BY DEF Agreed, Honours, Answers
<1>3. Obeys(t) => Obeys(u)
  BY DEF Agreed, Obeys, Picked
<1>4. OwnChains(t) => OwnChains(u)
  BY DEF Agreed, OwnChains
<1>5. \A f : Offer(t, f) => Offer(u, f)
  BY DEF Agreed, Offer
<1>6. (Wants(u) <=> Wants(t)) /\ (Asks(u) <=> Asks(t))
  BY DEF Agreed, Wants, Asks, send_certificate_request, VerifyPeer, aNULL, aPSK
<1> QED BY <1>1, <1>2, <1>3, <1>4, <1>5, <1>6

LEMMA SameKeysKnown ==
  ASSUME NEW t, NEW u, Agreed(t, u), u.transcript = t.transcript, SameKeys(t, u), KeysKnown(t)
  PROVE  KeysKnown(u)
BY SameChoices DEF Agreed, SameKeys, KeysKnown, tls1_key, AppKey, Random

\* What a move does to the places that the invariant speaks of.
PlaceOK(t, u) ==
  /\ Sided(u) /\ Spots(u)
  /\ OwnSent(u) <=> OwnSent(t)
  /\ PeerSeen(u) <=> PeerSeen(t)
  /\ Unopened(u) => Unopened(t)
  /\ u.server =>
       /\ u.hand_state # "OK" /\ ~Answered(u) => t.hand_state # "OK" /\ ~Answered(t)
       /\ Answered(u) => Answered(t)
       /\ Deaf(u) => Deaf(t)
       /\ Heard(u) => Heard(t)
       /\ Decided(u) => Decided(t)
  /\ ~(u.hand_state = "SR_CLNT_HELLO" /\ u.sub = "POST_PROCESS")

\* The parts of the invariant about keys and certificates.
KeyPlaces(t) ==
  /\ KeysKnown(t)
  /\ t.version = "TLS1_2" /\ Keyless(t) => t.enc_read = PlainKey /\ t.enc_write = PlainKey
  /\ t.server /\ t.version = "TLS1_3" /\ ~PeerSeen(t) => t.enc_read.epoch # "APPLICATION"
CertPlaces(t) == (t.cert_req = 2 => t.opt.cert = "NONE") /\ Asked(t) /\ Shown(t)

\* What the buffering BIO may hold after a step.
Held2(t, u) ==
  \A i \in DOMAIN u.bbio :
    \/ \E j \in DOMAIN t.bbio : u.bbio[i] = t.bbio[j]
    \/ FinRecord(u, u.bbio[i]) /\ FlagsOK(u.bbio[i])

LEMMA Moved ==
  ASSUME NEW t \in SSL, NEW u \in SSL, Wire(t), t.state # "ERROR",
         Agreed(t, u), u.transcript = t.transcript, PlaceOK(t, u), InHand(u),
         Certain(t) => Secret(u) = Secret(t),
         KeyPlaces(u), CertPlaces(u), Held2(t, u)
  PROVE  Wire(u) /\ Steady(t, u)
<1>1. Always(t) /\ Alive(t)
  BY DEF Wire
<1>2. Sided(t) /\ Buffered(t)
  BY <1>1 DEF Always
<1>3. Steady(t, u)
  <2>1. Starts(t.transcript, u.transcript)
    BY StartsRefl, SSLParts
  <2>2. Certain(t) => Fixed(t, u)
    BY DEF Agreed, Fixed
  <2> QED BY <2>1, <2>2 DEF Steady, PlaceOK, Agreed
<1>4. Buffered(u)
  BY <1>2, <1>3, BufferedKept DEF Held2
<1>5. Always(u)
  <2>1. u.hit => u.opt.session = u.version
    BY <1>1 DEF Always, Agreed
  <2>2. u.server => HelloFirst(u.transcript)
    BY <1>1 DEF Always, Agreed
  <2>3. ~u.server => \A i \in DOMAIN u.transcript :
          IsCH(u.transcript[i]) => Offer(u, u.transcript[i].flags)
    BY <1>1, SameChoices DEF Always, Agreed
  <2>4. OwnChains(u)
    BY <1>1, SameChoices DEF Always
  <2>5. Certain(u) => Honours(u) /\ (u.server => Obeys(u))
    BY <1>1, SameChoices DEF Always, Certain, PlaceOK, Agreed
  <2>6. KeysKnown(u) /\ Shown(u) /\ Sided(u)
    BY DEF KeyPlaces, CertPlaces, PlaceOK
  <2> QED BY <1>4, <2>1, <2>2, <2>3, <2>4, <2>5, <2>6 DEF Always
<1>6. Alive(u)
  <2>1. Honours(u)
    BY <1>1, SameChoices DEF Alive
  <2>2. ~u.server /\ u.version = "ANY" => ~HasSH(u.transcript)
    BY <1>1 DEF Alive, Agreed
  <2>3. u.server /\ u.hand_state # "OK" /\ ~Answered(u) => ~HasSH(u.transcript)
    BY <1>1 DEF Alive, Agreed, PlaceOK
  <2>4. u.server /\ Answered(u) => HasSH(u.transcript)
    BY <1>1 DEF Alive, Agreed, PlaceOK
  <2>5. u.server /\ Deaf(u) => ~HasCH(u.transcript)
    BY <1>1 DEF Alive, Agreed, PlaceOK
  <2>6. u.server /\ Heard(u) => HasCH(u.transcript)
    BY <1>1 DEF Alive, Agreed, PlaceOK
  <2>7. u.server /\ Decided(u) => Obeys(u)
    BY <1>1, SameChoices DEF Alive, Agreed, PlaceOK
  <2>8. ~(u.hand_state = "SR_CLNT_HELLO" /\ u.sub = "POST_PROCESS")
    BY DEF PlaceOK
  <2>9. Unopened(u) => ~Opened(u.transcript)
    BY <1>1 DEF Alive, PlaceOK
  <2>10. Spots(u)
    BY DEF PlaceOK
  <2>11. u.server /\ u.version = "TLS1_2" => u.new_cipher = u.opt.cipher
    BY <1>1 DEF Alive, Agreed
  <2> QED BY <2>1, <2>2, <2>3, <2>4, <2>5, <2>6, <2>7, <2>8, <2>9, <2>10, <2>11
          DEF Alive, KeyPlaces, CertPlaces
<1> QED BY <1>3, <1>5, <1>6 DEF Wire

\* SSLfatal.
LEMMA FatalEffect ==
  ASSUME NEW t \in SSL, NEW r \in Reasons,
         NEW u, u \in {ossl_statem_fatal(t, r), ossl_statem_fatal_no_alert(t, r)}
  PROVE  /\ u \in SSL /\ Stays(t, u) /\ u.state = "ERROR" /\ u.hand_state = t.hand_state
         /\ u.sub = t.sub /\ Held2(t, u)
<1>1. u \in SSL
  BY FatalType
<1>2. Stays(t, u) /\ u.state = "ERROR" /\ u.hand_state = t.hand_state /\ u.sub = t.sub
  <2>1. ASSUME u = ossl_statem_fatal(t, r)
        PROVE  Stays(t, u) /\ u.state = "ERROR" /\ u.hand_state = t.hand_state /\ u.sub = t.sub
    BY <2>1 DEF SSL, ossl_statem_fatal, Stays, Agreed, SameKeys, SameCerts
  <2>2. ASSUME u = ossl_statem_fatal_no_alert(t, r)
        PROVE  Stays(t, u) /\ u.state = "ERROR" /\ u.hand_state = t.hand_state /\ u.sub = t.sub
    BY <2>2 DEF SSL, ossl_statem_fatal_no_alert, Stays, Agreed, SameKeys, SameCerts
  <2> QED BY <2>1, <2>2
<1>3. u.bbio = t.bbio \/ u.bbio = Append(t.bbio, [NoMsg EXCEPT !.key = t.enc_write])
  BY DEF SSL, ossl_statem_fatal, ossl_statem_fatal_no_alert
<1>4. ASSUME NEW m, m = [NoMsg EXCEPT !.key = t.enc_write]
      PROVE  FinRecord(u, m) /\ FlagsOK(m)
  BY <1>4 DEF NoMsg, FinRecord, FlagsOK, FlagsOf
<1>5. t.bbio \in Seq(Records)
  BY SSLParts
<1>6. Held2(t, u)
  <2>1. CASE u.bbio = t.bbio
    BY <2>1 DEF Held2
  <2>2. CASE u.bbio = Append(t.bbio, [NoMsg EXCEPT !.key = t.enc_write])
    <3> DEFINE m == [NoMsg EXCEPT !.key = t.enc_write]
    <3> SUFFICES ASSUME NEW i \in DOMAIN u.bbio
                 PROVE  u.bbio[i] = m \/ \E j \in DOMAIN t.bbio : u.bbio[i] = t.bbio[j]
      BY <1>4 DEF Held2
    <3> HIDE DEF m
    <3> QED BY <1>5, <2>2 DEF m
  <2> QED BY <1>3, <2>1, <2>2
<1> QED BY <1>1, <1>2, <1>6

LEMMA SamePlaces ==
  ASSUME NEW t, NEW u, Agreed(t, u), u.hand_state = t.hand_state, u.sub = t.sub
  PROVE  /\ Sided(u) <=> Sided(t)
         /\ OwnSent(u) <=> OwnSent(t)
         /\ PeerSeen(u) <=> PeerSeen(t)
         /\ Certain(u) <=> Certain(t)
BY DEF Agreed, Sided, OwnSent, PeerSeen, Certain, Pending

\* An endpoint that fails keeps what it has promised.
LEMMA Failed ==
  ASSUME NEW t \in SSL, NEW u \in SSL, Always(t), Stays(t, u), u.hand_state = t.hand_state,
         u.sub = t.sub, Held2(t, u)
  PROVE  Always(u) /\ Steady(t, u)
<1>1. Agreed(t, u) /\ SameKeys(t, u) /\ SameCerts(t, u) /\ u.transcript = t.transcript
  BY DEF Stays
<1>2. Steady(t, u)
  <2>1. Starts(t.transcript, u.transcript)
    BY <1>1, StartsRefl, SSLParts
  <2>2. Fixed(t, u)
    BY <1>1 DEF Agreed, SameKeys, Fixed, Secret, SSL_IS_TLS13
  <2> QED BY <1>1, <2>1, <2>2, SamePlaces DEF Steady, Agreed
<1>3. Buffered(u)
  BY <1>2, BufferedKept DEF Held2, Always
<1>4. Shown(t) /\ u.hand_state = "OK" => Shown(u)
  BY <1>1, SameChoices DEF Shown, Agreed
<1>5. KeysKnown(t) => KeysKnown(u)
  BY <1>1, SameKeysKnown
<1>6. /\ Sided(u)
      /\ u.hit => u.opt.session = u.version
      /\ u.server => HelloFirst(u.transcript)
  BY <1>1, SamePlaces DEF Always, Agreed
<1>7. ~u.server => \A i \in DOMAIN u.transcript :
        IsCH(u.transcript[i]) => Offer(u, u.transcript[i].flags)
  BY <1>1, SameChoices DEF Always, Agreed
<1>8. OwnChains(u) /\ (Certain(u) => Honours(u) /\ (u.server => Obeys(u)))
  BY <1>1, SameChoices, SamePlaces DEF Always, Agreed
<1> QED BY <1>2, <1>3, <1>4, <1>5, <1>6, <1>7, <1>8 DEF Always

LEMMA FatalWire ==
  ASSUME NEW t \in SSL, Always(t), NEW r \in Reasons,
         NEW u, u \in {ossl_statem_fatal(t, r), ossl_statem_fatal_no_alert(t, r)}
  PROVE  u \in SSL /\ Wire(u) /\ Steady(t, u)
BY FatalEffect, Failed DEF Wire

-----------------------------------------------------------------------------
(* write_state_machine(): transitions *)

LEMMA HeldSame ==
  ASSUME NEW t, NEW u, u.bbio = t.bbio
  PROVE  Held2(t, u)
BY DEF Held2

LEMMA SameSecret ==
  ASSUME NEW t, NEW u, Agreed(t, u), SameKeys(t, u)
  PROVE  Secret(u) = Secret(t)
BY DEF Agreed, SameKeys, Secret, SSL_IS_TLS13

\* Where a write transition leads from t.
Turned(t, u, h) ==
  IF h = "FINISHED"
  THEN u.hand_state = t.hand_state /\ u.state = "READING" /\ u.sub = "HEADER"
  ELSE u.hand_state = h /\ u.state = "WRITING" /\ u.sub = "PRE_WORK"

LEMMA ServerTurned ==
  ASSUME NEW t \in SSL, Live(t), Wire(t), t.server, t.state = "WRITING", t.sub = "TRANSITION",
         NEW h, h = server_write_transition(t), h # "ERROR",
         NEW u, Stays(t, u), Turned(t, u, h)
  PROVE  PlaceOK(t, u) /\ KeyPlaces(u) /\ CertPlaces(u)
<1>1. /\ Agreed(t, u) /\ SameKeys(t, u) /\ SameCerts(t, u) /\ u.transcript = t.transcript
      /\ u.server /\ u.version = t.version /\ u.hit = t.hit
      /\ u.hello_retry_request = t.hello_retry_request
  BY DEF Stays, Agreed
<1>2. /\ t.version \in {"ANY", "TLS1_2", "TLS1_3"} /\ t.hit \in BOOLEAN
      /\ t.hello_retry_request \in {"NONE", "PENDING", "COMPLETE"}
  BY DEF SSL, Versions
<1>3. /\ t.version = "ANY" => t.hand_state = "BEFORE" /\ ~Pending(t)
      /\ t.version = "TLS1_2" => t.hello_retry_request = "NONE" /\ t.hand_state # "BEFORE"
      /\ t.version = "TLS1_3" => t.hand_state # "BEFORE"
      /\ t.hand_state = "SW_CERT_REQ" => t.cert_request
      /\ t.version = "TLS1_2" /\ t.hand_state = "SW_FINISHED" => t.hit \in BOOLEAN
      /\ t.version = "TLS1_2" /\ t.hand_state \in {"SW_CERT", "SW_CERT_STATUS", "SW_KEY_EXCH",
           "SW_CERT_REQ", "SW_SRVR_DONE", "SR_CERT", "SR_KEY_EXCH", "SR_CERT_VRFY"} => ~t.hit
      /\ t.version = "TLS1_3" /\ t.hand_state \in {"SW_ENCRYPTED_EXTENSIONS", "SW_CERT_REQ",
           "SW_CERT", "SW_CERT_VRFY", "SW_FINISHED", "SW_SESSION_TICKET", "OK", "SR_FINISHED",
           "SR_CERT", "SR_CERT_VRFY"} => ~Pending(t)
  BY <1>2 DEF Live, Early, Server, Server12, Server13, Pending
<1>4. Always(t) /\ Alive(t)
  BY DEF Wire
<1>5. Sided(t)
  BY <1>4 DEF Always
<1>6. CASE SSL_IS_TLS13(t)
  <2>1. t.version = "TLS1_3" /\ h = server13_write_transition(t)
    BY <1>6 DEF SSL_IS_TLS13, server_write_transition
  <2>2. PlaceOK(t, u)
    <3>1. Sided(u) /\ (OwnSent(u) <=> OwnSent(t)) /\ (PeerSeen(u) <=> PeerSeen(t)) /\ Spots(u)
      BY <1>1, <1>2, <1>3, <1>5, <2>1
         DEF server13_write_transition, Turned, Sided, OwnSent, PeerSeen, Spots,
         ServerStates, Pending
    <3>2. Unopened(u) => Unopened(t)
      BY <1>1, <1>2, <1>3, <1>5, <2>1 DEF server13_write_transition, Turned, Unopened, Sided,
         ServerStates, Pending
    <3>3. /\ u.hand_state # "OK" /\ ~Answered(u) => t.hand_state # "OK" /\ ~Answered(t)
          /\ Answered(u) => Answered(t)
      BY <1>1, <1>2, <1>3, <1>5, <2>1 DEF server13_write_transition, Turned, Answered, Sided,
         ServerStates, Pending
    <3>4. (Deaf(u) => Deaf(t)) /\ (Heard(u) => Heard(t)) /\ (Decided(u) => Decided(t))
      BY <1>1, <1>2, <1>3, <1>5, <2>1
         DEF server13_write_transition, Turned, Deaf, Heard, Decided, Sided,
         ServerStates, Pending
    <3>5. ~(u.hand_state = "SR_CLNT_HELLO" /\ u.sub = "POST_PROCESS")
      BY DEF Turned
    <3> QED BY <3>1, <3>2, <3>3, <3>4, <3>5 DEF PlaceOK
  <2>3. KeyPlaces(u)
    BY <1>1, <1>4, <2>1, <2>2, SameKeysKnown DEF KeyPlaces, Alive, PlaceOK, SameKeys
  <2>4. Asked(u)
    <3>1. (Wants(u) <=> Wants(t)) /\ u.cert_request = t.cert_request /\ Asked(t)
      BY <1>1, <1>4, SameChoices DEF SameCerts, Alive
    <3>2. Wants(t) => ~t.hit /\ send_certificate_request(t)
      BY DEF Wants
    <3> QED BY <1>1, <1>2, <1>3, <1>5, <2>1, <3>1, <3>2
            DEF server13_write_transition, Turned, Asked,
       Pending, Sided, ServerStates
  <2> QED BY <1>1, <1>4, <2>2, <2>3, <2>4 DEF CertPlaces, Shown, Alive, SameCerts, Agreed
<1>7. CASE ~SSL_IS_TLS13(t)
  <2>1. t.version # "TLS1_3" /\ h = server12_write_transition(t)
    BY <1>7 DEF SSL_IS_TLS13, server_write_transition
  <2>2. PlaceOK(t, u)
    <3>1. Sided(u) /\ (OwnSent(u) <=> OwnSent(t)) /\ (PeerSeen(u) <=> PeerSeen(t)) /\ Spots(u)
      BY <1>1, <1>2, <1>3, <1>5, <2>1
         DEF server12_write_transition, Turned, Sided, OwnSent, PeerSeen, Spots,
         ServerStates, Pending
    <3>2. Unopened(u) => Unopened(t)
      BY <1>1, <1>2, <1>3, <1>5, <2>1 DEF server12_write_transition, Turned, Unopened, Sided,
         ServerStates, Pending
    <3>3. /\ u.hand_state # "OK" /\ ~Answered(u) => t.hand_state # "OK" /\ ~Answered(t)
          /\ Answered(u) => Answered(t)
      BY <1>1, <1>2, <1>3, <1>5, <2>1 DEF server12_write_transition, Turned, Answered, Sided,
         ServerStates, Pending
    <3>4. (Deaf(u) => Deaf(t)) /\ (Heard(u) => Heard(t)) /\ (Decided(u) => Decided(t))
      BY <1>1, <1>2, <1>3, <1>5, <2>1
         DEF server12_write_transition, Turned, Deaf, Heard, Decided, Sided,
         ServerStates, Pending
    <3>5. ~(u.hand_state = "SR_CLNT_HELLO" /\ u.sub = "POST_PROCESS")
      BY DEF Turned
    <3> QED BY <3>1, <3>2, <3>3, <3>4, <3>5 DEF PlaceOK
  <2>3. KeyPlaces(u)
    <3>1. u.version = "TLS1_2" /\ Keyless(u) => t.version = "TLS1_2" /\ Keyless(t)
      BY <1>1, <1>2, <1>3, <1>5, <2>1
         DEF server12_write_transition, Turned, Keyless, Sided, ServerStates
    <3> QED BY <1>1, <1>4, <2>1, <2>2, <3>1, SameKeysKnown DEF KeyPlaces, Alive, PlaceOK, SameKeys
  <2>4. Asked(u)
    <3>1. (Wants(u) <=> Wants(t)) /\ u.cert_request = t.cert_request /\ Asked(t)
      BY <1>1, <1>4, SameChoices DEF SameCerts, Alive
    <3>2. Wants(t) => ~t.hit /\ send_certificate_request(t)
      BY DEF Wants
    <3> QED BY <1>1, <1>2, <1>3, <1>5, <2>1, <3>1, <3>2
            DEF server12_write_transition, Turned, Asked,
       Pending, Sided, ServerStates
  <2> QED BY <1>1, <1>4, <2>2, <2>3, <2>4 DEF CertPlaces, Shown, Alive, SameCerts, Agreed
<1> QED BY <1>6, <1>7

LEMMA ClientTurned ==
  ASSUME NEW t \in SSL, Live(t), Wire(t), ~t.server, t.state = "WRITING", t.sub = "TRANSITION",
         NEW h, h = client_write_transition(t), h # "ERROR",
         NEW u, Stays(t, u), Turned(t, u, h)
  PROVE  PlaceOK(t, u) /\ KeyPlaces(u) /\ CertPlaces(u)
<1>1. /\ Agreed(t, u) /\ SameKeys(t, u) /\ SameCerts(t, u) /\ u.transcript = t.transcript
      /\ ~u.server /\ u.version = t.version /\ u.hit = t.hit
      /\ u.hello_retry_request = t.hello_retry_request
  BY DEF Stays, Agreed
<1>2. /\ t.version \in {"ANY", "TLS1_2", "TLS1_3"} /\ t.hit \in BOOLEAN
      /\ t.hello_retry_request \in {"NONE", "PENDING", "COMPLETE"}
  BY DEF SSL, Versions
<1>3. /\ t.version = "ANY" => t.hand_state \in {"BEFORE", "CW_CLNT_HELLO", "CR_SRVR_HELLO", "CW_CHANGE"}
      /\ t.version = "ANY" /\ t.hand_state = "CW_CHANGE" => Pending(t)
      /\ t.version # "ANY" => t.hand_state \notin {"BEFORE", "CW_CLNT_HELLO", "CR_SRVR_HELLO"}
      /\ t.version = "TLS1_2" => t.hello_retry_request = "NONE"
      /\ t.version = "TLS1_2" /\ t.hand_state \in {"CR_CERT", "CR_CERT_STATUS", "CR_KEY_EXCH",
           "CR_CERT_REQ", "CR_SRVR_DONE", "CW_CERT", "CW_KEY_EXCH", "CW_CERT_VRFY"} => ~t.hit
  BY <1>2 DEF Live, Early, Client, Client12, Client13, Pending
<1>4. Always(t) /\ Alive(t)
  BY DEF Wire
<1>5. Sided(t)
  BY <1>4 DEF Always
<1>6. Asked(u)
  BY <1>1 DEF Asked, Wants
<1>7. CASE SSL_IS_TLS13(t)
  <2>1. t.version = "TLS1_3" /\ h = client13_write_transition(t)
    BY <1>7 DEF SSL_IS_TLS13, client_write_transition
  <2>2. PlaceOK(t, u)
    <3>1. Sided(u) /\ (OwnSent(u) <=> OwnSent(t)) /\ (PeerSeen(u) <=> PeerSeen(t)) /\ Spots(u)
      BY <1>1, <1>2, <1>3, <1>5, <2>1
         DEF client13_write_transition, Turned, Sided, OwnSent, PeerSeen, Spots,
         ClientStates, Pending
    <3>2. Unopened(u) => Unopened(t)
      BY <1>1, <1>2, <1>3, <1>5, <2>1 DEF client13_write_transition, Turned, Unopened, Sided,
         ClientStates, Pending
    <3>3. ~(u.hand_state = "SR_CLNT_HELLO" /\ u.sub = "POST_PROCESS")
      BY DEF Turned
    <3> QED BY <1>1, <3>1, <3>2, <3>3 DEF PlaceOK
  <2>3. KeyPlaces(u)
    BY <1>1, <1>4, <2>1, <2>2, SameKeysKnown DEF KeyPlaces, Alive, PlaceOK, SameKeys
  <2>4. Shown(u)
    BY <1>1, <1>2, <1>3, <1>4, <1>5, <2>1, SameChoices DEF client13_write_transition, Turned, Shown,
       Alive, SameCerts, Agreed, Sided, ClientStates
  <2> QED BY <1>1, <1>4, <1>6, <2>2, <2>3, <2>4 DEF CertPlaces, Alive, SameCerts, Agreed
<1>8. CASE ~SSL_IS_TLS13(t)
  <2>1. t.version # "TLS1_3" /\ h = client12_write_transition(t)
    BY <1>8 DEF SSL_IS_TLS13, client_write_transition
  <2>2. PlaceOK(t, u)
    <3>0. t.version = "ANY" => ~t.hit
      BY <1>4, SSLParts, OptionParts DEF Always, Versions
    <3>1. Sided(u) /\ (OwnSent(u) <=> OwnSent(t)) /\ (PeerSeen(u) <=> PeerSeen(t)) /\ Spots(u)
      BY <1>1, <1>2, <1>3, <1>5, <2>1, <3>0
         DEF client12_write_transition, Turned, Sided, OwnSent, PeerSeen, Spots,
         ClientStates, Pending
    <3>2. Unopened(u) => Unopened(t)
      BY <1>1, <1>2, <1>3, <1>5, <2>1 DEF client12_write_transition, Turned, Unopened, Sided,
         ClientStates, Pending
    <3>3. ~(u.hand_state = "SR_CLNT_HELLO" /\ u.sub = "POST_PROCESS")
      BY DEF Turned
    <3> QED BY <1>1, <3>1, <3>2, <3>3 DEF PlaceOK
  <2>3. KeyPlaces(u)
    <3>1. u.version = "TLS1_2" /\ Keyless(u) => t.version = "TLS1_2" /\ Keyless(t)
      BY <1>1, <1>2, <1>3, <1>5, <2>1
         DEF client12_write_transition, Turned, Keyless, Sided, ClientStates
    <3> QED BY <1>1, <1>4, <2>1, <2>2, <3>1, SameKeysKnown DEF KeyPlaces, Alive, PlaceOK, SameKeys
  <2>4. Shown(u)
    BY <1>1, <1>2, <1>3, <1>4, <1>5, <2>1, SameChoices DEF client12_write_transition, Turned, Shown,
       Alive, SameCerts, Agreed, Sided, ClientStates
  <2> QED BY <1>1, <1>4, <1>6, <2>2, <2>3, <2>4 DEF CertPlaces, Alive, SameCerts, Agreed
<1> QED BY <1>7, <1>8

LEMMA TransitionWire ==
  ASSUME NEW t \in SSL, Live(t), Wire(t), t.state = "WRITING", t.sub = "TRANSITION",
         NEW h, h = write_transition(t), h # "ERROR",
         NEW u, u = IF h = "FINISHED" THEN ToFlow(t, "READING", "HEADER")
                                      ELSE ToHand(t, h, "PRE_WORK")
  PROVE  u \in SSL /\ Wire(u) /\ Steady(t, u)
<1>1. h \in HandStates \cup {"FINISHED", "ERROR"}
  BY ClientWriteState, ServerWriteState DEF write_transition
<1>2. u \in SSL
  <2>1. CASE h = "FINISHED"
    <3>1. u = [t EXCEPT !.state = "READING", !.sub = "HEADER"]
      BY <2>1 DEF ToFlow
    <3>2. "OK" \in HandStates
      BY DEF HandStates
    <3> QED BY <3>1, <3>2, WriteMoves, Zenon
  <2>2. CASE h # "FINISHED"
    <3>1. u = [t EXCEPT !.hand_state = h, !.sub = "PRE_WORK"]
      BY <2>2 DEF ToHand
    <3>2. h \in HandStates
      BY <1>1, <2>2
    <3>3. [t EXCEPT !.hand_state = h, !.sub = "PRE_WORK"] \in SSL
      BY ONLY t \in SSL, <3>2, WriteMoves, Zenon
    <3> QED BY <3>1, <3>3
  <2> QED BY <2>1, <2>2
<1>3. Stays(t, u) /\ Turned(t, u, h) /\ u.bbio = t.bbio
  BY DEF ToFlow, ToHand, SSL, Stays, Agreed, SameKeys, SameCerts, Turned
<1>4. PlaceOK(t, u) /\ KeyPlaces(u) /\ CertPlaces(u)
  BY <1>3, ServerTurned, ClientTurned, SSLParts DEF write_transition
<1>5. InHand(u)
  BY <1>3 DEF Turned, InHand
<1>6. Agreed(t, u) /\ u.transcript = t.transcript /\ Secret(u) = Secret(t)
  BY <1>3, SameSecret DEF Stays
<1> QED BY <1>2, <1>3, <1>4, <1>5, <1>6, HeldSame, Moved

-----------------------------------------------------------------------------
(* read_state_machine(): headers *)

\* Where a read transition leads from t.
Entered2(t, u, h, m) ==
  /\ u.hand_state = h /\ u.state = "READING" /\ u.sub = "BODY" /\ u.init_msg = m

LEMMA ServerEntered ==
  ASSUME NEW t \in SSL, Live(t), Wire(t), t.server, t.state = "READING", t.sub = "HEADER",
         NEW m, NEW h, h = server_read_transition(t, m.mt), h # "NONE",
         NEW u, Stays(t, u), Entered2(t, u, h, m)
  PROVE  PlaceOK(t, u) /\ InHand(u) /\ KeyPlaces(u) /\ CertPlaces(u)
<1>1. /\ Agreed(t, u) /\ SameKeys(t, u) /\ SameCerts(t, u) /\ u.transcript = t.transcript
      /\ u.server /\ u.version = t.version /\ u.hit = t.hit
      /\ u.hello_retry_request = t.hello_retry_request
  BY DEF Stays, Agreed
<1>2. /\ t.version \in {"ANY", "TLS1_2", "TLS1_3"} /\ t.hit \in BOOLEAN
      /\ t.hello_retry_request \in {"NONE", "PENDING", "COMPLETE"}
  BY DEF SSL, Versions
<1>3. /\ t.version = "ANY" => t.hand_state \in {"BEFORE", "SR_CLNT_HELLO"} /\ ~Pending(t)
      /\ t.version = "TLS1_2" => t.hello_retry_request = "NONE" /\ t.hand_state # "BEFORE"
      /\ t.version = "TLS1_3" => t.hand_state # "BEFORE"
      /\ t.version = "TLS1_2" /\ t.hand_state = "SW_FINISHED" => t.hit
      /\ t.version = "TLS1_2" /\ t.hand_state \in {"SW_SRVR_DONE", "SR_CERT", "SR_KEY_EXCH",
           "SR_CERT_VRFY"} => ~t.hit
      /\ t.version = "TLS1_3" /\ t.hand_state \in {"SW_FINISHED", "SR_CERT", "SR_CERT_VRFY"} => ~Pending(t)
  BY <1>2 DEF Live, Early, Server, Server12, Server13, Pending
<1>4. Always(t) /\ Alive(t)
  BY DEF Wire
<1>5. Sided(t)
  BY <1>4 DEF Always
<1>6. ~u.server \/ Shown(u)
  BY <1>1 DEF Shown
<1>7. (Wants(u) <=> Wants(t)) /\ Asked(t) /\ u.cert_request = t.cert_request /\ u.peer = t.peer
  BY <1>1, <1>4, SameChoices DEF SameCerts, Alive
<1>8. CASE SSL_IS_TLS13(t)
  <2>1. t.version = "TLS1_3" /\ h = server13_read_transition(t, m.mt)
    BY <1>8 DEF SSL_IS_TLS13, server_read_transition
  <2>2. PlaceOK(t, u)
    <3>1. Sided(u) /\ (OwnSent(u) <=> OwnSent(t)) /\ (PeerSeen(u) <=> PeerSeen(t)) /\ Spots(u)
      BY <1>1, <1>2, <1>3, <1>5, <2>1
         DEF server13_read_transition, Entered2, Sided, OwnSent, PeerSeen, Spots,
         ServerStates, Pending
    <3>2. Unopened(u) => Unopened(t)
      BY <1>1, <1>2, <1>3, <1>5, <2>1 DEF server13_read_transition, Entered2, Unopened, Sided,
         ServerStates, Pending
    <3>3. /\ u.hand_state # "OK" /\ ~Answered(u) => t.hand_state # "OK" /\ ~Answered(t)
          /\ Answered(u) => Answered(t)
      BY <1>1, <1>2, <1>3, <1>5, <2>1 DEF server13_read_transition, Entered2, Answered, Sided,
         ServerStates, Pending
    <3>4. (Deaf(u) => Deaf(t)) /\ (Heard(u) => Heard(t)) /\ (Decided(u) => Decided(t))
      BY <1>1, <1>2, <1>3, <1>5, <2>1
         DEF server13_read_transition, Entered2, Deaf, Heard, Decided, Sided,
         ServerStates, Pending
    <3>5. ~(u.hand_state = "SR_CLNT_HELLO" /\ u.sub = "POST_PROCESS")
      BY DEF Entered2
    <3> QED BY <3>1, <3>2, <3>3, <3>4, <3>5 DEF PlaceOK
  <2>3. KeyPlaces(u)
    BY <1>1, <1>4, <2>1, <2>2, SameKeysKnown DEF KeyPlaces, Alive, PlaceOK, SameKeys
  <2>4. Asked(u)
    BY <1>1, <1>2, <1>3, <1>5, <1>7, <2>1 DEF server13_read_transition, Entered2, Asked,
       Pending, Sided, ServerStates
  <2>5. InHand(u)
    BY <1>1, <2>1 DEF server13_read_transition, Entered2, InHand, MessageOf, ReadStates
  <2> QED BY <1>1, <1>4, <1>6, <2>2, <2>3, <2>4, <2>5 DEF CertPlaces, Alive, SameCerts, Agreed
<1>9. CASE ~SSL_IS_TLS13(t)
  <2>1. t.version # "TLS1_3" /\ h = server12_read_transition(t, m.mt)
    BY <1>9 DEF SSL_IS_TLS13, server_read_transition
  <2>2. PlaceOK(t, u)
    <3>1. Sided(u) /\ (OwnSent(u) <=> OwnSent(t)) /\ (PeerSeen(u) <=> PeerSeen(t)) /\ Spots(u)
      BY <1>1, <1>2, <1>3, <1>5, <2>1
         DEF server12_read_transition, Entered2, Sided, OwnSent, PeerSeen, Spots,
         ServerStates, Pending
    <3>2. Unopened(u) => Unopened(t)
      BY <1>1, <1>2, <1>3, <1>5, <2>1 DEF server12_read_transition, Entered2, Unopened, Sided,
         ServerStates, Pending
    <3>3. /\ u.hand_state # "OK" /\ ~Answered(u) => t.hand_state # "OK" /\ ~Answered(t)
          /\ Answered(u) => Answered(t)
      BY <1>1, <1>2, <1>3, <1>5, <2>1 DEF server12_read_transition, Entered2, Answered, Sided,
         ServerStates, Pending
    <3>4. (Deaf(u) => Deaf(t)) /\ (Heard(u) => Heard(t)) /\ (Decided(u) => Decided(t))
      BY <1>1, <1>2, <1>3, <1>5, <2>1
         DEF server12_read_transition, Entered2, Deaf, Heard, Decided, Sided,
         ServerStates, Pending
    <3>5. ~(u.hand_state = "SR_CLNT_HELLO" /\ u.sub = "POST_PROCESS")
      BY DEF Entered2
    <3> QED BY <3>1, <3>2, <3>3, <3>4, <3>5 DEF PlaceOK
  <2>3. KeyPlaces(u)
    <3>1. u.version = "TLS1_2" /\ Keyless(u) => t.version = "TLS1_2" /\ Keyless(t)
      BY <1>1, <1>2, <1>3, <1>5, <2>1
         DEF server12_read_transition, Entered2, Keyless, Sided, ServerStates
    <3> QED BY <1>1, <1>4, <2>1, <2>2, <3>1, SameKeysKnown DEF KeyPlaces, Alive, PlaceOK, SameKeys
  <2>4. Asked(u)
    <3>1. Wants(t) => ~t.hit
      BY DEF Wants
    <3> QED BY <1>1, <1>2, <1>3, <1>5, <1>7, <2>1, <3>1
            DEF server12_read_transition, Entered2, Asked,
        Pending, Sided, ServerStates
  <2>5. InHand(u)
    BY <1>1, <2>1 DEF server12_read_transition, Entered2, InHand, MessageOf, ReadStates
  <2> QED BY <1>1, <1>4, <1>6, <2>2, <2>3, <2>4, <2>5 DEF CertPlaces, Alive, SameCerts, Agreed
<1> QED BY <1>8, <1>9

LEMMA ClientEntered ==
  ASSUME NEW t \in SSL, Live(t), Wire(t), ~t.server, t.state = "READING", t.sub = "HEADER",
         NEW m, NEW h, h = client_read_transition(t, m.mt), h # "NONE",
         NEW u, Stays(t, u), Entered2(t, u, h, m)
  PROVE  PlaceOK(t, u) /\ InHand(u) /\ KeyPlaces(u) /\ CertPlaces(u)
<1>1. /\ Agreed(t, u) /\ SameKeys(t, u) /\ SameCerts(t, u) /\ u.transcript = t.transcript
      /\ ~u.server /\ u.version = t.version /\ u.hit = t.hit
      /\ u.hello_retry_request = t.hello_retry_request
  BY DEF Stays, Agreed
<1>2. /\ t.version \in {"ANY", "TLS1_2", "TLS1_3"} /\ t.hit \in BOOLEAN
      /\ t.hello_retry_request \in {"NONE", "PENDING", "COMPLETE"}
  BY DEF SSL, Versions
<1>3. /\ t.version = "ANY" => t.hand_state \in {"BEFORE", "CW_CLNT_HELLO", "CW_CHANGE"}
      /\ t.version # "ANY" => t.hand_state \notin {"BEFORE", "CW_CLNT_HELLO"}
      /\ t.version = "TLS1_2" /\ t.hand_state \in {"CR_CERT", "CR_CERT_STATUS", "CR_KEY_EXCH",
           "CR_CERT_REQ", "CR_SRVR_DONE", "CW_CERT", "CW_KEY_EXCH", "CW_CERT_VRFY"} => ~t.hit
      /\ t.version = "TLS1_2" /\ t.hand_state = "CW_FINISHED" => ~t.hit
  <2>1. Spots(t)
    BY DEF Wire, Alive
  <2> QED BY <1>2, <2>1 DEF Live, Early, Client, Client12, Client13, Pending, Spots
<1>4. Always(t) /\ Alive(t)
  BY DEF Wire
<1>5. Sided(t)
  BY <1>4 DEF Always
<1>6. Asked(u)
  BY <1>1 DEF Asked, Wants
<1>7. Shown(t) /\ (Asks(u) <=> Asks(t))
  BY <1>1, <1>4, SameChoices DEF Alive
<1>8. CASE SSL_IS_TLS13(t)
  <2>1. t.version = "TLS1_3" /\ h = client13_read_transition(t, m.mt)
    BY <1>8 DEF SSL_IS_TLS13, client_read_transition
  <2>2. PlaceOK(t, u)
    <3>1. Sided(u) /\ (OwnSent(u) <=> OwnSent(t)) /\ (PeerSeen(u) <=> PeerSeen(t)) /\ Spots(u)
      <4>1. Sided(u) /\ Spots(u)
        BY <1>1, <1>2, <1>3, <1>5, <2>1
           DEF client13_read_transition, Entered2, Sided, Spots, ClientStates
      <4>2. OwnSent(u) <=> OwnSent(t)
        BY <1>1, <1>2, <1>3, <1>5, <2>1 DEF client13_read_transition, Entered2, Sided, OwnSent,
           ClientStates, Pending
      <4>3. PeerSeen(u) <=> PeerSeen(t)
        BY <1>1, <1>2, <1>3, <1>5, <2>1
           DEF client13_read_transition, Entered2, Sided, PeerSeen, ClientStates
      <4> QED BY <4>1, <4>2, <4>3
    <3>2. Unopened(u) => Unopened(t)
      BY <1>1, <1>2, <1>3, <1>5, <2>1 DEF client13_read_transition, Entered2, Unopened, Sided,
         ClientStates, Pending
    <3>3. ~(u.hand_state = "SR_CLNT_HELLO" /\ u.sub = "POST_PROCESS")
      BY DEF Entered2
    <3> QED BY <1>1, <3>1, <3>2, <3>3 DEF PlaceOK
  <2>3. KeyPlaces(u)
    BY <1>1, <1>4, <2>1, <2>2, SameKeysKnown DEF KeyPlaces, Alive, PlaceOK, SameKeys
  <2>4. Shown(u)
    BY <1>1, <1>2, <1>3, <1>5, <1>7, <2>1
       DEF client13_read_transition, Entered2, Shown, Sided, ClientStates
  <2>5. InHand(u)
    BY <1>1, <2>1 DEF client13_read_transition, Entered2, InHand, MessageOf, ReadStates
  <2> QED BY <1>1, <1>4, <1>6, <2>2, <2>3, <2>4, <2>5 DEF CertPlaces, Alive, SameCerts, Agreed
<1>9. CASE ~SSL_IS_TLS13(t)
  <2>1. t.version # "TLS1_3" /\ h = client12_read_transition(t, m.mt)
    BY <1>9 DEF SSL_IS_TLS13, client_read_transition
  <2>2. PlaceOK(t, u)
    <3>1. Sided(u) /\ (OwnSent(u) <=> OwnSent(t)) /\ (PeerSeen(u) <=> PeerSeen(t)) /\ Spots(u)
      BY <1>1, <1>2, <1>3, <1>5, <2>1
         DEF client12_read_transition, Entered2, Sided, OwnSent, PeerSeen, Spots,
         ClientStates, Pending
    <3>2. Unopened(u) => Unopened(t)
      BY <1>1, <1>2, <1>3, <1>5, <2>1 DEF client12_read_transition, Entered2, Unopened, Sided,
         ClientStates, Pending
    <3>3. ~(u.hand_state = "SR_CLNT_HELLO" /\ u.sub = "POST_PROCESS")
      BY DEF Entered2
    <3> QED BY <1>1, <3>1, <3>2, <3>3 DEF PlaceOK
  <2>3. KeyPlaces(u)
    <3>1. u.version = "TLS1_2" /\ Keyless(u) => t.version = "TLS1_2" /\ Keyless(t)
      BY <1>1, <1>2, <1>3, <1>5, <2>1
         DEF client12_read_transition, Entered2, Keyless, Sided, ClientStates
    <3> QED BY <1>1, <1>4, <2>1, <2>2, <3>1, SameKeysKnown DEF KeyPlaces, Alive, PlaceOK, SameKeys
  <2>4. Shown(u)
    <3>1. Asks(t) => t.new_cipher \in {"RSA", "DHE", "RSAPSK", "TLS13"}
      BY DEF Asks
    <3> QED BY <1>1, <1>2, <1>3, <1>5, <1>7, <2>1, <3>1
            DEF client12_read_transition, Entered2, Shown,
        Sided, ClientStates, aNULL, aPSK, cert_req_allowed, KeyExchangeNext
  <2>5. InHand(u)
    <3>1. h \in ReadStates /\ m.mt = MessageOf(h)
      <4>1. \/ h = "CR_SRVR_HELLO" /\ m.mt = "SERVER_HELLO"
            \/ h = "CR_SESSION_TICKET" /\ m.mt = "NEWSESSION_TICKET"
            \/ h = "CR_CHANGE" /\ m.mt = "CHANGE_CIPHER_SPEC"
            \/ h = "CR_CERT" /\ m.mt = "CERTIFICATE"
            \/ h = "CR_CERT_STATUS" /\ m.mt = "CERTIFICATE_STATUS"
            \/ h = "CR_KEY_EXCH" /\ m.mt = "SERVER_KEY_EXCHANGE"
            \/ h = "CR_CERT_REQ" /\ m.mt = "CERTIFICATE_REQUEST"
            \/ h = "CR_SRVR_DONE" /\ m.mt = "SERVER_DONE"
            \/ h = "CR_FINISHED" /\ m.mt = "FINISHED"
        BY ZenonT(60), <2>1 DEF client12_read_transition
      <4> QED BY <4>1 DEF MessageOf, ReadStates
    <3> QED BY <3>1 DEF Entered2, InHand
  <2> QED BY <1>1, <1>4, <1>6, <2>2, <2>3, <2>4, <2>5 DEF CertPlaces, Alive, SameCerts, Agreed
<1> QED BY <1>8, <1>9

LEMMA BodyStays ==
  ASSUME NEW t \in SSL, NEW h, NEW m, NEW u, u = ToBody(t, h, m), t.state = "READING"
  PROVE  Stays(t, u) /\ Entered2(t, u, h, m) /\ u.bbio = t.bbio
BY DEF SSL, ToBody, Stays, Agreed, SameKeys, SameCerts, Entered2

LEMMA SelfWire ==
  ASSUME NEW t \in SSL, Wire(t)
  PROVE  Steady(t, t)
BY StartsRefl, SSLParts DEF Steady, Fixed

LEMMA HeaderWire ==
  ASSUME NEW t \in SSL, Live(t), Wire(t), t.state = "READING", t.sub = "HEADER",
         NEW m \in Records, NEW u \in SSL, u = tls_get_message_header(t, m)
  PROVE  Wire(u) /\ Steady(t, u) /\ (u.state # "ERROR" /\ u.sub = "BODY" => u.init_msg = m)
<1> DEFINE h == read_transition(t, m.mt)
<1>1. Always(t)
  BY DEF Wire
<1>2. CASE u = t
  BY <1>2, SelfWire
<1>3. CASE \E r \in Reasons : u \in {ossl_statem_fatal(t, r), ossl_statem_fatal_no_alert(t, r)}
  <2>1. PICK r \in Reasons : u \in {ossl_statem_fatal(t, r), ossl_statem_fatal_no_alert(t, r)}
    BY <1>3
  <2>2. u.state = "ERROR"
    BY <2>1, FatalEffect
  <2> QED BY <1>1, <2>1, <2>2, FatalWire
<1>4. CASE h # "NONE" /\ u = ToBody(t, h, m)
  <2>1. Stays(t, u) /\ Entered2(t, u, h, m) /\ u.bbio = t.bbio
    BY <1>4, BodyStays
  <2>2. PlaceOK(t, u) /\ InHand(u) /\ KeyPlaces(u) /\ CertPlaces(u)
    BY <1>4, <2>1, ServerEntered, ClientEntered, SSLParts DEF read_transition
  <2>3. Agreed(t, u) /\ u.transcript = t.transcript /\ Secret(u) = Secret(t)
    BY <2>1, SameSecret DEF Stays
  <2>4. Wire(u) /\ Steady(t, u)
    BY <2>1, <2>2, <2>3, HeldSame, Moved
  <2> QED BY <2>1, <2>4 DEF Entered2
<1>5. RecordError(t, m) \in Reasons /\ "ALERT_RECEIVED" \in Reasons /\ "UNEXPECTED_MESSAGE" \in Reasons
  BY DEF RecordError, Reasons
<1>6. \/ u = t
      \/ u = ossl_statem_fatal(t, RecordError(t, m))
      \/ u = ossl_statem_fatal_no_alert(t, "ALERT_RECEIVED")
      \/ u = ossl_statem_fatal(t, "UNEXPECTED_MESSAGE")
      \/ h # "NONE" /\ u = ToBody(t, h, m)
  BY DEF tls_get_message_header, ToBody
<1> QED BY <1>2, <1>3, <1>4, <1>5, <1>6

-----------------------------------------------------------------------------
(* pre_work and the messages it constructs *)

\* A message has been constructed.  A TLSv1.3 client may have moved to its
\* handshake key, and a server may have noted that it asks for a certificate.
Builds(t, u, mt, flags) ==
  /\ Agreed(t, u) /\ u.transcript = t.transcript /\ u.bbio = t.bbio
  /\ u.enc_read = t.enc_read /\ u.master_key = t.master_key
  /\ u.handshake_traffic_hash = t.handshake_traffic_hash
  /\ u.server_finished_hash = t.server_finished_hash
  /\ \/ u.enc_write = t.enc_write
     \/ SSL_IS_TLS13(t) /\ ~t.server /\ u.enc_write.epoch = "HANDSHAKE"
  /\ u.cert_req = t.cert_req /\ u.peer = t.peer
  /\ u.cert_request = t.cert_request \/ (t.hand_state = "SW_CERT_REQ" /\ u.cert_request)
  /\ u.hand_state = t.hand_state /\ u.state = t.state /\ u.sub = "SEND"
  /\ u.init_msg.mt = mt /\ u.init_msg.flags = flags

LEMMA ConstructBuilds ==
  ASSUME NEW t \in SSL, NEW mt, NEW flags, NEW u, u = Construct(t, mt, flags)
  PROVE  Builds(t, u, mt, flags)
BY DEF SSL, Construct, Builds, Agreed

LEMMA ChainFlagsOf ==
  ASSUME NEW cert
  PROVE  ChainFlags(cert) \in FlagsOf("CERTIFICATE")
BY DEF ChainFlags, FlagsOf

LEMMA BuiltPlaces ==
  ASSUME NEW t \in SSL, Wire(t), t.state = "WRITING", t.sub = "PRE_WORK",
         ~(t.hand_state = "SW_SRVR_HELLO" /\ Pending(t)),
         NEW mt, NEW flags, NEW u, Builds(t, u, mt, flags)
  PROVE  PlaceOK(t, u) /\ KeyPlaces(u) /\ CertPlaces(u)
<1>1. /\ Agreed(t, u) /\ u.transcript = t.transcript
      /\ u.server = t.server /\ u.version = t.version /\ u.hit = t.hit
      /\ u.hello_retry_request = t.hello_retry_request /\ u.opt = t.opt
      /\ u.hand_state = t.hand_state /\ u.state = "WRITING" /\ u.sub = "SEND"
  BY DEF Builds, Agreed
<1>2. Always(t) /\ Alive(t)
  BY DEF Wire
<1>3. Sided(t) /\ InHand(t) /\ Spots(t)
  BY <1>2 DEF Always, Alive
<1>4. PlaceOK(t, u)
  <2>1. Sided(u) /\ (OwnSent(u) <=> OwnSent(t)) /\ (PeerSeen(u) <=> PeerSeen(t)) /\ Spots(u)
    BY <1>1, <1>3, Zenon DEF Sided, OwnSent, PeerSeen, Spots, Pending
  <2>2. Unopened(u) => Unopened(t)
    BY <1>1 DEF Unopened, Pending
  <2>3. (Answered(u) <=> Answered(t)) /\ (Heard(u) => Heard(t)) /\ (Decided(u) => Decided(t))
    BY <1>1 DEF Answered, Heard, Decided, Pending
  <2>4. Deaf(u) => Deaf(t)
    BY <1>1 DEF Deaf, Pending
  <2> QED BY <1>1, <2>1, <2>2, <2>3, <2>4 DEF PlaceOK
<1>5. KeyPlaces(u)
  <2>1. KeysKnown(u)
    <3>1. CASE u.enc_write = t.enc_write
      <4>1. SameKeys(t, u)
        BY <3>1 DEF Builds, SameKeys
      <4> QED BY <1>1, <1>2, <4>1, SameKeysKnown DEF Alive
    <3>2. CASE SSL_IS_TLS13(t) /\ u.enc_write.epoch = "HANDSHAKE"
      BY <1>1, <1>2, <3>2 DEF Alive, Builds, KeysKnown, SSL_IS_TLS13, AppKey, PeerSide
    <3> QED BY <3>1, <3>2 DEF Builds
  <2>2. Keyless(u) <=> Keyless(t)
    BY <1>1 DEF Keyless
  <2> QED BY <1>1, <1>2, <1>4, <2>1, <2>2 DEF KeyPlaces, Alive, Builds, SSL_IS_TLS13, PlaceOK
<1>6. CertPlaces(u)
  <2>1. (Wants(u) <=> Wants(t)) /\ (Asks(u) <=> Asks(t)) /\ Asked(t) /\ Shown(t)
    BY <1>1, <1>2, SameChoices DEF Alive
  <2>2. Asked(u)
    BY <1>1, <2>1 DEF Asked, Builds, Pending
  <2>3. Shown(u)
    BY <1>1, <2>1 DEF Shown
  <2> QED BY <1>1, <1>2, <2>2, <2>3 DEF CertPlaces, Alive, Builds
<1> QED BY <1>4, <1>5, <1>6

LEMMA BuiltWire ==
  ASSUME NEW t \in SSL, NEW u \in SSL, Wire(t), t.state = "WRITING", t.sub = "PRE_WORK",
         ~(t.hand_state = "SW_SRVR_HELLO" /\ Pending(t)), t.hand_state \in WriteStates,
         NEW mt, mt = MessageOf(t.hand_state), NEW flags, Builds(t, u, mt, flags),
         t.hand_state \notin {"CW_CLNT_HELLO", "SW_SRVR_HELLO"} => flags \in FlagsOf(mt),
         t.hand_state \in {"CW_FINISHED", "SW_FINISHED"} =>
           u.init_msg.mac = final_finish_mac(t, Side(t)),
         t.hand_state = "CW_CLNT_HELLO" => Offer(t, flags),
         t.hand_state = "SW_SRVR_HELLO" => Answers(t, flags),
         t.hand_state \in {"CW_CERT", "SW_CERT"} => flags = ChainFlags(t.opt.cert)
  PROVE  Wire(u) /\ Steady(t, u)
<1>1. PlaceOK(t, u) /\ KeyPlaces(u) /\ CertPlaces(u)
  BY BuiltPlaces
<1>2. /\ Agreed(t, u) /\ u.transcript = t.transcript /\ u.bbio = t.bbio
      /\ u.hand_state = t.hand_state /\ u.sub = "SEND"
      /\ u.init_msg.mt = mt /\ u.init_msg.flags = flags
  BY DEF Builds
<1>3. Secret(u) = Secret(t)
  BY DEF Builds, Agreed, Secret, SSL_IS_TLS13
<1>4. InHand(u)
  <2>1. final_finish_mac(u, Side(u)) = final_finish_mac(t, Side(t))
    BY <1>2, SameChoices DEF Builds, final_finish_mac, Agreed
  <2>2. Offer(t, flags) => Offer(u, flags)
    BY <1>2, SameChoices
  <2>3. Answers(t, flags) => Answers(u, flags)
    BY <1>2 DEF Agreed, Answers
  <2>4. (Pending(u) <=> Pending(t)) /\ u.opt = t.opt
    BY <1>2 DEF Agreed, Pending
  <2> QED BY <1>2, <2>1, <2>2, <2>3, <2>4 DEF InHand
<1> QED BY <1>1, <1>2, <1>3, <1>4, HeldSame, Moved

LEMMA BuildsFrom ==
  ASSUME NEW t, NEW a, NEW u, NEW mt, NEW flags, Stays(t, a), a.hand_state = t.hand_state,
         a.state = t.state, a.bbio = t.bbio, Builds(a, u, mt, flags)
  PROVE  Builds(t, u, mt, flags)
BY DEF Stays, Agreed, SameKeys, SameCerts, Builds, SSL_IS_TLS13

LEMMA FinishedBuilds ==
  ASSUME NEW t \in SSL, NEW u, u = tls_construct_finished(t)
  PROVE  Builds(t, u, "FINISHED", {}) /\ u.init_msg.mac = final_finish_mac(t, Side(t))
<1> DEFINE a == [t EXCEPT !.cleanuphand = t.cleanuphand \/ ~t.server, !.finish_md = TRUE]
           b == IF SSL_IS_TLS13(t) /\ ~t.server /\ t.cert_req = 0
                THEN tls13_change_write(a, "HANDSHAKE") ELSE a
           mac == final_finish_mac(b, Side(b))
           c == Construct(b, "FINISHED", {})
<1>1. a \in SSL
  BY ZenonT(120) DEF SSL
<1>2. /\ Stays(t, a) /\ a.hand_state = t.hand_state /\ a.state = t.state /\ a.bbio = t.bbio
  BY DEF SSL, Stays, Agreed, SameKeys, SameCerts
<1> HIDE DEF a
<1>3. b \in SSL
  BY <1>1, ChangeKeyType DEF Epochs
<1>4. /\ Agreed(t, b) /\ b.transcript = t.transcript /\ b.bbio = t.bbio
      /\ b.enc_read = t.enc_read /\ b.master_key = t.master_key
      /\ b.handshake_traffic_hash = t.handshake_traffic_hash
      /\ b.server_finished_hash = t.server_finished_hash
      /\ SameCerts(t, b) /\ b.hand_state = t.hand_state /\ b.state = t.state
      /\ \/ b.enc_write = t.enc_write
         \/ SSL_IS_TLS13(t) /\ ~t.server /\ b.enc_write.epoch = "HANDSHAKE"
  <2>1. CASE b = a
    BY <1>2, <2>1 DEF Stays, SameKeys, SameCerts, Agreed
  <2>2. CASE SSL_IS_TLS13(t) /\ ~t.server /\ b = InstallWrite(a, ClientKey13(a, "HANDSHAKE"))
    <3> DEFINE k == ClientKey13(a, "HANDSHAKE")
    <3>1. b = [a EXCEPT !.enc_write = k]
      BY <2>2 DEF InstallWrite
    <3>2. k.epoch = "HANDSHAKE"
      BY DEF ClientKey13
    <3> HIDE DEF k, b
    <3> QED BY <1>1, <1>2, <2>2, <3>1, <3>2 DEF SSL, Stays, Agreed, SameKeys, SameCerts
  <2> QED BY <1>2, <2>1, <2>2 DEF tls13_change_write, Stays, Agreed
<1> HIDE DEF b
<1>5. mac = final_finish_mac(t, Side(t))
  BY <1>4 DEF final_finish_mac, Side, SSL_IS_TLS13, Agreed
<1>6. c \in SSL
  BY <1>3, ConstructType DEF MessageTypes
<1>7. Builds(b, c, "FINISHED", {})
  BY <1>3, ConstructBuilds
<1> HIDE DEF c, mac
<1>8. u = [c EXCEPT !.init_msg = [c.init_msg EXCEPT !.mac = mac]]
  BY DEF tls_construct_finished, a, b, c, mac
<1> DEFINE m == [c.init_msg EXCEPT !.mac = mac]
<1>9. m.mt = "FINISHED" /\ m.flags = {} /\ m.mac = mac
  BY <1>6, <1>7, SSLParts DEF Records, Builds
<1> HIDE DEF m
<1>10. /\ Stays(c, u) /\ u.hand_state = c.hand_state /\ u.state = c.state /\ u.sub = c.sub
       /\ u.init_msg = m /\ u.bbio = c.bbio
  BY <1>6, <1>8 DEF SSL, Stays, Agreed, SameKeys, SameCerts, m
<1>11. Builds(t, u, "FINISHED", {})
  BY <1>4, <1>7, <1>9, <1>10 DEF Builds, Stays, Agreed, SameKeys, SameCerts, SSL_IS_TLS13
<1> QED BY <1>5, <1>9, <1>10, <1>11

\* construct_message of a client.
LEMMA ClientBuilds ==
  ASSUME NEW t \in SSL, Wire(t), t.state = "WRITING", t.sub = "PRE_WORK", ~t.server,
         NEW u \in SSL, u = client_construct_message(t),
         t.hand_state \in WriteStates
  PROVE  \/ Wire(u) /\ Steady(t, u)
         \/ u = ossl_statem_fatal(t, "INTERNAL_ERROR")
<1> DEFINE h == t.hand_state
<1>1. CASE h = "CW_CLNT_HELLO"
  <2> DEFINE a == [t EXCEPT !.ticket_expected = FALSE]
             f == t.opt.versions \cup {t.group, "ems"} \cup OldSuites(t)
                    \cup (IF t.opt.session \in t.opt.versions THEN {SessFlag(t.opt.session)} ELSE {})
                    \cup (IF t.opt.ticket THEN {"ticket"} ELSE {})
                    \cup (IF t.opt.status THEN {"status"} ELSE {})
  <2>1. a \in SSL
    BY ZenonT(120) DEF SSL
  <2>2. /\ Stays(t, a) /\ a.hand_state = t.hand_state /\ a.state = t.state /\ a.bbio = t.bbio
    BY DEF SSL, Stays, Agreed, SameKeys, SameCerts
  <2> HIDE DEF a
  <2>3. u = Construct(a, "CLIENT_HELLO", f)
    BY <1>1, Zenon DEF client_construct_message, tls_construct_client_hello, a
  <2>4. Offer(t, f)
    <3>1. /\ t.opt.versions \subseteq Versions /\ t.group \in {"g1", "g2"}
          /\ OldSuites(t) \subseteq Ciphers
      BY SSLParts, OptionParts DEF SSL, OldSuites
    <3>2. t.opt.session \in Versions \cup {"NONE"}
      BY SSLParts, OptionParts
    <3> QED BY <3>1, <3>2 DEF Offer, Versions, Ciphers, SessFlag
  <2> HIDE DEF f
  <2>5. Builds(t, u, "CLIENT_HELLO", f)
    BY <2>1, <2>2, <2>3, ConstructBuilds, BuildsFrom
  <2> QED BY <1>1, <2>4, <2>5, BuiltWire DEF MessageOf
<1>2. CASE h = "CW_CERT"
  <2> DEFINE f == IF t.cert_req = 2 THEN {} ELSE ChainFlags(t.opt.cert)
             c == Construct(t, "CERTIFICATE", f)
  <2>1. f = ChainFlags(t.opt.cert)
    BY DEF Wire, Alive, ChainFlags
  <2>2. u = IF SSL_IS_TLS13(t) /\ SSL_IS_FIRST_HANDSHAKE(t)
            THEN tls13_change_write(c, "HANDSHAKE") ELSE c
    BY <1>2, Zenon DEF client_construct_message, tls_construct_client_certificate
  <2>3. f \in SUBSET Flags
    BY ChainFlagsType
  <2> HIDE DEF f
  <2>4. c \in SSL /\ Builds(t, c, "CERTIFICATE", f)
    BY <2>3, ConstructType, ConstructBuilds DEF MessageTypes
  <2> HIDE DEF c
  <2>5. Builds(t, u, "CERTIFICATE", f)
    <3>1. CASE u = c
      BY <2>4, <3>1
    <3>2. CASE SSL_IS_TLS13(t) /\ u = tls13_change_write(c, "HANDSHAKE")
      <4> DEFINE k == ClientKey13(c, "HANDSHAKE")
      <4>1. u = [c EXCEPT !.enc_write = k]
        BY <2>4, <3>2 DEF tls13_change_write, InstallWrite, Builds, Agreed
      <4>2. k.epoch = "HANDSHAKE"
        BY DEF ClientKey13
      <4> HIDE DEF k
      <4>3. /\ Agreed(c, u) /\ u.transcript = c.transcript /\ u.bbio = c.bbio
            /\ u.enc_read = c.enc_read /\ u.master_key = c.master_key
            /\ u.handshake_traffic_hash = c.handshake_traffic_hash
            /\ u.server_finished_hash = c.server_finished_hash
            /\ SameCerts(c, u) /\ u.hand_state = c.hand_state /\ u.state = c.state
            /\ u.sub = c.sub /\ u.init_msg = c.init_msg /\ u.enc_write = k
        BY <2>4, <4>1 DEF SSL, Agreed, SameCerts
      <4> QED BY <2>4, <3>2, <4>2, <4>3 DEF Builds, Agreed, SameCerts
    <3> QED BY <2>2, <3>1, <3>2
  <2> QED BY <1>2, <2>1, <2>5, ChainFlagsOf, BuiltWire DEF MessageOf
<1>3. CASE h = "CW_FINISHED"
  <2>1. u = tls_construct_finished(t)
    BY <1>3 DEF client_construct_message
  <2>2. Builds(t, u, "FINISHED", {}) /\ u.init_msg.mac = final_finish_mac(t, Side(t))
    BY <2>1, FinishedBuilds
  <2> QED BY <1>3, <2>2, BuiltWire DEF MessageOf, FlagsOf
<1>4. CASE h \in {"CW_CHANGE", "CW_KEY_EXCH", "CW_CERT_VRFY"}
  <2>1. PICK mt, f : u = Construct(t, mt, f) /\ mt = MessageOf(h) /\ f \in FlagsOf(mt)
    BY <1>4 DEF client_construct_message, MessageOf, FlagsOf
  <2>2. Builds(t, u, mt, f)
    BY <2>1, ConstructBuilds
  <2> QED BY <1>4, <2>1, <2>2, BuiltWire
<1>5. CASE h \notin {"CW_CLNT_HELLO", "CW_CERT", "CW_FINISHED", "CW_CHANGE", "CW_KEY_EXCH", "CW_CERT_VRFY"}
  BY <1>5 DEF client_construct_message
<1> QED BY <1>1, <1>2, <1>3, <1>4, <1>5

\* construct_message of a server, but for the ServerHello that asks for a retry.
LEMMA ServerBuilds ==
  ASSUME NEW t \in SSL, Live(t), Wire(t), t.state = "WRITING", t.sub = "PRE_WORK", t.server,
         ~(t.hand_state = "SW_SRVR_HELLO" /\ Pending(t)),
         NEW u \in SSL, u = server_construct_message(t),
         t.hand_state \in WriteStates
  PROVE  \/ Wire(u) /\ Steady(t, u)
         \/ u = ossl_statem_fatal(t, "INTERNAL_ERROR")
<1> DEFINE h == t.hand_state
<1>1. CASE h = "SW_SRVR_HELLO"
  <2> DEFINE f == {t.version, t.new_cipher} \cup (IF t.hit THEN {"hit"} ELSE {})
                    \cup (IF SSL_IS_TLS13(t) THEN {t.group}
                          ELSE Sentinel(t)
                                 \cup (IF t.ticket_expected THEN {"ticket"} ELSE {})
                                 \cup (IF t.status_expected THEN {"status"} ELSE {})
                                 \cup (IF t.extms THEN {"ems"} ELSE {}))
  <2>1. u = Construct(t, "SERVER_HELLO", f)
    BY <1>1, Zenon DEF server_construct_message, tls_construct_server_hello, Pending
  <2>2. Answers(t, f)
    <3>1. t.version \in Versions /\ t.group \in {"g1", "g2"} /\ t.hit \in BOOLEAN /\ t.extms \in BOOLEAN
      BY <1>1 DEF Live, Early, SSL
    <3>2. /\ t.new_cipher = IF t.version = "TLS1_3" THEN "TLS13" ELSE t.opt.cipher
          /\ t.new_cipher \in Ciphers
      <4>1. t.version = "TLS1_2" => t.new_cipher = t.opt.cipher
        BY DEF Wire, Alive
      <4>2. t.version = "TLS1_3" => t.new_cipher = "TLS13"
        BY DEF Live, Server13
      <4>3. t.opt.cipher \in Ciphers
        BY SSLParts, OptionParts
      <4> QED BY <3>1, <4>1, <4>2, <4>3 DEF Versions, Ciphers
    <3>3. CASE t.version = "TLS1_3"
      <4>1. f = {"TLS1_3", "TLS13", t.group} \cup (IF t.hit THEN {"hit"} ELSE {})
        BY <3>2, <3>3 DEF SSL_IS_TLS13
      <4> HIDE DEF f
      <4> QED BY <3>1, <3>2, <3>3, <4>1 DEF Answers, Versions, Ciphers
    <3>4. CASE t.version = "TLS1_2"
      <4> DEFINE g == (IF t.hit THEN {"hit"} ELSE {}) \cup Sentinel(t)
                       \cup (IF t.ticket_expected THEN {"ticket"} ELSE {})
                       \cup (IF t.status_expected THEN {"status"} ELSE {})
                       \cup (IF t.extms THEN {"ems"} ELSE {})
      <4>1. f = {"TLS1_2", t.new_cipher} \cup g
        BY <3>4, SMT DEF SSL_IS_TLS13
      <4>2. g \subseteq {"hit", "sentinel", "ticket", "status", "ems"}
        BY DEF Sentinel
      <4>3. ("hit" \in g <=> t.hit) /\ ("ems" \in g <=> t.extms)
        BY <3>1 DEF Sentinel
      <4> HIDE DEF f, g
      <4>4. /\ "HRR" \notin f /\ "TLS1_3" \notin f /\ f \cap Ciphers = {t.new_cipher}
            /\ ("hit" \in f <=> t.hit) /\ ("ems" \in f <=> t.extms)
        BY <3>2, <4>1, <4>2, <4>3 DEF Ciphers
      <4> QED BY <3>1, <3>2, <3>4, <4>4 DEF Answers, Versions
    <3> QED BY <3>1, <3>3, <3>4 DEF Versions
  <2> HIDE DEF f
  <2>3. Builds(t, u, "SERVER_HELLO", f)
    BY <2>1, ConstructBuilds
  <2> QED BY <1>1, <2>2, <2>3, BuiltWire DEF MessageOf
<1>2. CASE h = "SW_CERT_REQ"
  <2> DEFINE a == [t EXCEPT !.cert_request = TRUE]
  <2>1. a \in SSL
    BY ZenonT(120) DEF SSL
  <2>2. /\ Agreed(t, a) /\ SameKeys(t, a) /\ a.transcript = t.transcript /\ a.bbio = t.bbio
        /\ a.hand_state = t.hand_state /\ a.state = t.state /\ a.cert_req = t.cert_req
        /\ a.peer = t.peer /\ a.cert_request
    <3>1. /\ Agreed(t, a) /\ a.transcript = t.transcript /\ a.bbio = t.bbio
          /\ a.hand_state = t.hand_state /\ a.state = t.state
      BY DEF SSL, Agreed
    <3>2. SameKeys(t, a) /\ a.cert_req = t.cert_req /\ a.peer = t.peer
      BY DEF SSL, SameKeys
    <3>3. a.cert_request
      BY DEF SSL
    <3> QED BY <3>1, <3>2, <3>3
  <2> HIDE DEF a
  <2>3. u = Construct(a, "CERTIFICATE_REQUEST", {})
    BY <1>2 DEF server_construct_message, tls_construct_certificate_request, a
  <2>4. Builds(a, u, "CERTIFICATE_REQUEST", {})
    BY <2>1, <2>3, ConstructBuilds
  <2>5. Builds(t, u, "CERTIFICATE_REQUEST", {})
    <3>1. u.cert_request
      BY <2>2, <2>4, Zenon DEF Builds
    <3>2. Agreed(t, u)
      BY <2>2, <2>4 DEF Builds, Agreed
    <3>3. /\ u.transcript = t.transcript /\ u.bbio = t.bbio /\ u.enc_read = t.enc_read
          /\ u.master_key = t.master_key /\ u.handshake_traffic_hash = t.handshake_traffic_hash
          /\ u.server_finished_hash = t.server_finished_hash
          /\ u.cert_req = t.cert_req /\ u.peer = t.peer
          /\ u.hand_state = t.hand_state /\ u.state = t.state /\ u.sub = "SEND"
          /\ u.init_msg.mt = "CERTIFICATE_REQUEST" /\ u.init_msg.flags = {}
      BY <2>2, <2>4 DEF Builds, SameKeys
    <3>4. \/ u.enc_write = t.enc_write
          \/ SSL_IS_TLS13(t) /\ ~t.server /\ u.enc_write.epoch = "HANDSHAKE"
      BY <2>2, <2>4 DEF Builds, SameKeys, Agreed, SSL_IS_TLS13
    <3> QED BY <1>2, <3>1, <3>2, <3>3, <3>4, Zenon DEF Builds
  <2> QED BY <1>2, <2>5, BuiltWire DEF MessageOf, FlagsOf
<1>3. CASE h = "SW_SESSION_TICKET"
  <2> DEFINE a == IF SSL_IS_TLS13(t) THEN [t EXCEPT !.sent_tickets = t.sent_tickets + 1] ELSE t
  <2>1. a \in SSL
    <3>1. t.sent_tickets + 1 \in Nat
      BY SSLParts DEF SSL
    <3> DEFINE n == t.sent_tickets + 1
    <3> HIDE DEF n
    <3>2. [t EXCEPT !.sent_tickets = n] \in SSL
      BY <3>1, ZenonT(120) DEF SSL, n
    <3> QED BY <3>2 DEF n
  <2>2. /\ Stays(t, a) /\ a.hand_state = t.hand_state /\ a.state = t.state /\ a.bbio = t.bbio
    <3>1. CASE a = t
      BY <3>1 DEF Stays, Agreed, SameKeys, SameCerts
    <3>2. CASE a = [t EXCEPT !.sent_tickets = t.sent_tickets + 1]
      <4> DEFINE n == t.sent_tickets + 1
      <4>1. a = [t EXCEPT !.sent_tickets = n]
        BY <3>2
      <4> HIDE DEF a, n
      <4>2. Agreed(t, a)
        BY <4>1 DEF SSL, Agreed
      <4>3. SameKeys(t, a) /\ SameCerts(t, a)
        BY <4>1 DEF SSL, SameKeys, SameCerts
      <4>4. /\ a.transcript = t.transcript /\ a.hand_state = t.hand_state /\ a.state = t.state
            /\ a.bbio = t.bbio
        BY <4>1 DEF SSL
      <4> QED BY <4>2, <4>3, <4>4 DEF Stays
    <3> QED BY <3>1, <3>2
  <2>3. u = Construct(a, "NEWSESSION_TICKET", {})
    BY <1>3 DEF server_construct_message, tls_construct_new_session_ticket
  <2> HIDE DEF a
  <2>4. Builds(t, u, "NEWSESSION_TICKET", {})
    BY <2>1, <2>2, <2>3, ConstructBuilds, BuildsFrom
  <2> QED BY <1>3, <2>4, BuiltWire DEF MessageOf, FlagsOf
<1>4. CASE h = "SW_FINISHED"
  <2>1. u = tls_construct_finished(t)
    BY <1>4 DEF server_construct_message
  <2>2. Builds(t, u, "FINISHED", {}) /\ u.init_msg.mac = final_finish_mac(t, Side(t))
    BY <2>1, FinishedBuilds
  <2> QED BY <1>4, <2>2, BuiltWire DEF MessageOf, FlagsOf
<1>5. CASE h = "SW_CERT"
  <2>1. u = Construct(t, "CERTIFICATE", ChainFlags(t.opt.cert))
    BY <1>5 DEF server_construct_message
  <2>2. Builds(t, u, "CERTIFICATE", ChainFlags(t.opt.cert))
    BY <2>1, ConstructBuilds
  <2> QED BY <1>5, <2>2, ChainFlagsOf, BuiltWire DEF MessageOf
<1>6. CASE h \in {"SW_CHANGE", "SW_ENCRYPTED_EXTENSIONS", "SW_CERT_VRFY", "SW_CERT_STATUS",
                  "SW_KEY_EXCH", "SW_SRVR_DONE"}
  <2>1. PICK mt, f : u = Construct(t, mt, f) /\ mt = MessageOf(h) /\ f \in FlagsOf(mt)
    BY <1>6 DEF server_construct_message, MessageOf, FlagsOf
  <2>2. Builds(t, u, mt, f)
    BY <2>1, ConstructBuilds
  <2> QED BY <1>6, <2>1, <2>2, BuiltWire
<1>7. CASE h \notin {"SW_SRVR_HELLO", "SW_CERT_REQ", "SW_SESSION_TICKET", "SW_FINISHED",
                     "SW_CHANGE", "SW_ENCRYPTED_EXTENSIONS", "SW_CERT", "SW_CERT_VRFY",
                     "SW_CERT_STATUS", "SW_KEY_EXCH", "SW_SRVR_DONE"}
  BY <1>7 DEF server_construct_message, WriteStates
<1> QED BY <1>1, <1>2, <1>3, <1>4, <1>5, <1>6, <1>7

\* What is hashed up to a Finished is no beginning of a flight.
LEMMA UnopenedHash ==
  ASSUME NEW t \in SSL, ~Opened(t.transcript), UpToFinished(t.server_finished_hash, t.transcript)
  PROVE  FALSE
<1> DEFINE q == t.server_finished_hash
<1>1. q \in Hash /\ q # <<>>
  BY SSLParts DEF UpToFinished
<1>2. Len(q) \in DOMAIN q /\ DOMAIN q = 1..Len(q)
  BY <1>1 DEF Hash
<1>3. q[Len(q)].mt = "FINISHED" /\ t.transcript[Len(q)] = q[Len(q)] /\ Len(q) <= Len(t.transcript)
  BY <1>2 DEF UpToFinished, Starts
<1>4. Len(q) \in DOMAIN t.transcript
  BY <1>2, <1>3, SSLParts DEF Hash
<1> QED BY <1>3, <1>4 DEF Opened

\* A HelloRetryRequest drops the session and starts the transcript again.
LEMMA RetryWire ==
  ASSUME NEW t \in SSL, Live(t), Wire(t), t.server, t.state = "WRITING", t.sub = "PRE_WORK",
         t.hand_state = "SW_SRVR_HELLO", Pending(t),
         NEW u \in SSL, u = tls_construct_server_hello(t)
  PROVE  Wire(u) /\ Steady(t, u)
<1> DEFINE a == [t EXCEPT !.hit = FALSE]
           b == create_synthetic_message_hash(a)
           e == Elem("MESSAGE_HASH", UNION {a.transcript[i].flags : i \in DOMAIN a.transcript})
<1>1. a \in SSL
  BY ZenonT(120) DEF SSL
<1>2. /\ a.server /\ a.opt = t.opt /\ a.version = t.version /\ a.hello_retry_request = "PENDING"
      /\ a.new_cipher = t.new_cipher /\ ~a.hit /\ SameKeys(t, a) /\ SameCerts(t, a)
      /\ a.hand_state = t.hand_state /\ a.state = t.state /\ a.bbio = t.bbio
  BY DEF SSL, SameKeys, SameCerts, Pending
<1> HIDE DEF a
<1>3. b \in SSL
  BY <1>1, SyntheticHashType
<1>4. /\ Agreed(a, b) /\ SameKeys(a, b) /\ SameCerts(a, b) /\ b.hand_state = a.hand_state
      /\ b.state = a.state /\ b.transcript = <<e>> /\ b.bbio = a.bbio
  <2>1. b = [a EXCEPT !.transcript = <<e>>]
    BY DEF create_synthetic_message_hash
  <2> HIDE DEF e, b
  <2> QED BY <1>1, <2>1 DEF SSL, Agreed, SameKeys, SameCerts
<1>5. e.mt = "MESSAGE_HASH"
  BY DEF Elem
<1> HIDE DEF b, e
<1>6. u = Construct(b, "SERVER_HELLO", {"HRR", "TLS13", t.group})
  BY Zenon DEF tls_construct_server_hello, Pending, a, b
<1>7. Builds(b, u, "SERVER_HELLO", {"HRR", "TLS13", t.group})
  BY <1>3, <1>6, ConstructBuilds
<1>8. /\ u.server /\ u.opt = t.opt /\ u.version = t.version /\ u.hello_retry_request = "PENDING"
      /\ ~u.hit /\ u.new_cipher = t.new_cipher /\ u.cert_req = t.cert_req
      /\ u.hand_state = "SW_SRVR_HELLO" /\ u.state = "WRITING" /\ u.sub = "SEND"
      /\ u.init_msg.mt = "SERVER_HELLO" /\ "HRR" \in u.init_msg.flags
      /\ u.transcript = <<e>> /\ u.bbio = t.bbio
      /\ u.enc_read = t.enc_read /\ u.enc_write = t.enc_write
      /\ u.server_finished_hash = t.server_finished_hash
  <2>1. b.server /\ u.enc_write = b.enc_write
    BY <1>2, <1>4, <1>7 DEF Builds, Agreed
  <2> QED BY <1>2, <1>4, <1>7, <2>1 DEF Agreed, SameKeys, SameCerts, Builds
<1>9. t.version = "TLS1_3" /\ t.enc_read.epoch # "APPLICATION" /\ t.enc_write.epoch # "APPLICATION"
  <2>1. t.version = "TLS1_3"
    BY DEF Live, Early, Server12, Pending, SSL, Versions
  <2> QED BY <2>1 DEF Live, Server13
<1>10. Always(t) /\ Alive(t)
  BY DEF Wire
<1>11. t.server_finished_hash = <<>>
  <2>1. ~Opened(t.transcript)
    BY <1>10 DEF Alive, Unopened
  <2>2. t.server_finished_hash # <<>> => UpToFinished(t.server_finished_hash, t.transcript)
    BY <1>9, <1>10 DEF Alive, KeysKnown
  <2> QED BY <2>1, <2>2, UnopenedHash
<1>12. \A i \in DOMAIN u.transcript : u.transcript[i].mt = "MESSAGE_HASH"
  BY <1>5, <1>8
<1>13. /\ ~HasCH(u.transcript) /\ ~HasSH(u.transcript) /\ ~Opened(u.transcript)
       /\ HelloFirst(u.transcript) /\ OwnChains(u) /\ Honours(u) /\ Obeys(u)
  BY <1>12 DEF HasCH, HasSH, IsCH, IsSH, Opened, HelloFirst, Opener, OwnChains, Honours, Obeys
<1>14. /\ ~OwnSent(t) /\ ~PeerSeen(t) /\ ~OwnSent(u) /\ ~PeerSeen(u) /\ Sided(u)
  BY <1>8, <1>9 DEF OwnSent, PeerSeen, Sided, ServerStates
<1>15. Steady(t, u)
  BY <1>8, <1>14 DEF Steady, Certain
<1>16. Always(u)
  <2>1. Buffered(u)
    BY <1>8, <1>10, <1>15, HeldSame, BufferedKept DEF Held2, Always
  <2> QED BY <1>8, <1>13, <1>14, <2>1 DEF Always, Certain
<1>17. Alive(u)
  <2>1. InHand(u) /\ Spots(u)
    BY <1>8 DEF InHand, MessageOf, WriteStates, Pending, Spots
  <2>2. ~Answered(u) /\ ~Heard(u)
    BY <1>8 DEF Answered, Heard, Pending
  <2>3. KeysKnown(u)
    BY <1>8, <1>9, <1>11 DEF KeysKnown
  <2>4. Asked(u) /\ Shown(u) /\ (u.cert_req = 2 => u.opt.cert = "NONE")
    BY <1>8, <1>10 DEF Asked, Shown, Alive
  <2> QED BY <1>8, <1>9, <1>13, <2>1, <2>2, <2>3, <2>4 DEF Alive
<1> QED BY <1>15, <1>16, <1>17 DEF Wire

\* pre_work where nothing is sent.
LEMMA Idle ==
  ASSUME NEW t \in SSL, NEW u \in SSL, Wire(t), t.state = "WRITING", t.sub = "PRE_WORK",
         Stays(t, u), u.hand_state = t.hand_state, u.state \in {"WRITING", "FINISHED"},
         u.sub = "PRE_WORK" \/ (u.sub = "POST_WORK" /\ t.hand_state = "EARLY_DATA"),
         u.bbio = t.bbio \/ u.bbio = <<>>
  PROVE  Wire(u) /\ Steady(t, u)
<1>1. /\ Agreed(t, u) /\ SameKeys(t, u) /\ SameCerts(t, u) /\ u.transcript = t.transcript
      /\ u.server = t.server /\ u.version = t.version /\ u.hit = t.hit
      /\ u.hello_retry_request = t.hello_retry_request
  BY DEF Stays, Agreed
<1>2. Always(t) /\ Alive(t)
  BY DEF Wire
<1>3. Sided(t) /\ Spots(t)
  BY <1>2 DEF Always, Alive
<1>4. PlaceOK(t, u)
  <2>1. Sided(u) /\ Spots(u)
    BY <1>1, <1>3 DEF Sided, Spots
  <2>2. (OwnSent(u) <=> OwnSent(t)) /\ (PeerSeen(u) <=> PeerSeen(t))
    BY <1>1, <1>3 DEF OwnSent, PeerSeen, Pending
  <2>3. Unopened(u) => Unopened(t)
    BY <1>1 DEF Unopened, Pending
  <2>4. (Answered(u) <=> Answered(t)) /\ (Heard(u) => Heard(t)) /\ (Decided(u) => Decided(t))
    BY <1>1 DEF Answered, Heard, Decided, Pending
  <2>5. Deaf(u) => Deaf(t)
    BY <1>1 DEF Deaf, Pending
  <2> QED BY <2>1, <2>2, <2>3, <2>4, <2>5 DEF PlaceOK
<1>5. KeyPlaces(u)
  <2>1. Keyless(u) <=> Keyless(t)
    BY DEF Keyless
  <2> QED BY <1>1, <1>2, <1>4, <2>1, SameKeysKnown DEF KeyPlaces, Alive, PlaceOK, SameKeys
<1>6. CertPlaces(u)
  <2>1. (Wants(u) <=> Wants(t)) /\ (Asks(u) <=> Asks(t)) /\ Asked(t) /\ Shown(t)
    BY <1>1, <1>2, SameChoices DEF Alive
  <2>2. Asked(u)
    BY <1>1, <2>1 DEF Asked, SameCerts, Pending
  <2>3. Shown(u)
    BY <1>1, <2>1 DEF Shown
  <2> QED BY <1>1, <1>2, <2>2, <2>3 DEF CertPlaces, Alive, SameCerts, Agreed
<1>7. InHand(u)
  BY DEF InHand
<1>8. Held2(t, u)
  BY DEF Held2
<1> QED BY <1>1, <1>4, <1>5, <1>6, <1>7, <1>8, SameSecret, Moved

LEMMA FinishStays ==
  ASSUME NEW t \in SSL, NEW u, u = Over(t) \/ u = Almost(t)
  PROVE  /\ Stays(t, u) /\ Place(t, u) /\ u.init_msg = t.init_msg
         /\ u.bbio = IF u = Over(t) THEN <<>> ELSE t.bbio
<1>1. ASSUME NEW q, NEW x, NEW y, NEW z,
             u = [t EXCEPT !.bbio = q, !.ticket_expected = x, !.cleanuphand = y, !.in_init = z]
      PROVE  Stays(t, u) /\ Place(t, u) /\ u.init_msg = t.init_msg /\ u.bbio = q
  BY <1>1 DEF SSL, Stays, Agreed, SameKeys, SameCerts, Place
<1>2. CASE u = Over(t)
  BY <1>1, <1>2, Zenon DEF Over, tls_finish_handshake
<1>3. CASE u = Almost(t) /\ u # Over(t)
  BY <1>1, <1>3, Zenon DEF Almost, tls_finish_handshake
<1> QED BY <1>2, <1>3

LEMMA SteadyFrom ==
  ASSUME NEW t, NEW a, NEW u, Stays(t, a), Place(t, a), a.init_msg = t.init_msg, Steady(a, u)
  PROVE  Steady(t, u)
<1>1. /\ OwnSent(a) <=> OwnSent(t)
      /\ PeerSeen(a) <=> PeerSeen(t)
      /\ Certain(a) <=> Certain(t)
  BY SamePlaces DEF Stays, Place
<1>2. Fixed(a, u) => Fixed(t, u)
  BY SameSecret DEF Stays, Agreed, Fixed
<1>3. final_finish_mac(a, PeerSide(a)) = final_finish_mac(t, PeerSide(t))
  BY DEF Stays, Agreed, SameKeys, final_finish_mac, PeerSide, SSL_IS_TLS13
<1>4. a.transcript = t.transcript /\ a.server = t.server /\ a.opt = t.opt
  BY DEF Stays, Agreed
<1> QED BY <1>1, <1>2, <1>3, <1>4 DEF Steady, Place

\* pre_work of either side, with what construct_message does after it.
LEMMA PreWorkWire ==
  ASSUME NEW t \in SSL, Good(t), Wire(t), t.state = "WRITING", t.sub = "PRE_WORK",
         t.hand_state \in WriteStates \cup Silent,
         NEW u \in SSL, u = IF t.server THEN server_pre_work(t) ELSE client_pre_work(t)
  PROVE  Wire(u) /\ Steady(t, u)
<1>0. Live(t) /\ Always(t) /\ "INTERNAL_ERROR" \in Reasons
  BY DEF Good, Wire, Reasons
<1>1. CASE u = ossl_statem_fatal(t, "INTERNAL_ERROR")
  BY <1>0, <1>1, FatalWire
<1>2. CASE t.hand_state = "OK"
  <2>1. u = ToState(Over(t), "FINISHED")
    BY <1>2, Zenon DEF server_pre_work, client_pre_work, ToState, Over
  <2>2. PICK a : a = Over(t)
    OBVIOUS
  <2>3. a \in SSL /\ Stays(t, a) /\ Place(t, a) /\ a.bbio = <<>>
    BY <2>2, FinishHandshakeType, FinishStays DEF Over
  <2>4. /\ Stays(a, u) /\ u.hand_state = a.hand_state /\ u.state = "FINISHED" /\ u.sub = a.sub
        /\ u.bbio = a.bbio
    BY <2>1, <2>2, <2>3 DEF SSL, ToState, Stays, Agreed, SameKeys, SameCerts
  <2>5. Stays(t, u)
    BY <2>3, <2>4 DEF Stays, Agreed, SameKeys, SameCerts
  <2> QED BY <2>3, <2>4, <2>5, Idle DEF Place
<1>3. CASE t.hand_state # "OK" /\ ~t.server
  <2>1. u = client_construct_message(t)
    BY <1>3 DEF client_pre_work
  <2>2. CASE t.hand_state \in WriteStates
    BY <1>1, <1>3, <2>1, <2>2, ClientBuilds
  <2>3. CASE t.hand_state = "EARLY_DATA"
    BY <1>1, <2>1, <2>3 DEF client_construct_message
  <2> QED BY <1>3, <2>2, <2>3 DEF Silent
<1>4. CASE t.server /\ t.hand_state = "EARLY_DATA"
  <2>1. u = server_construct_message(t)
    BY <1>4 DEF server_pre_work
  <2>2. u = ToSub(t, "POST_WORK")
    BY <1>4, <2>1 DEF server_construct_message, ToSub
  <2>3. /\ Stays(t, u) /\ u.hand_state = t.hand_state /\ u.state = t.state
        /\ u.sub = "POST_WORK" /\ u.bbio = t.bbio
    BY <2>2 DEF SSL, ToSub, Stays, Agreed, SameKeys, SameCerts
  <2> QED BY <1>4, <2>3, Idle
<1>5. CASE /\ t.server /\ t.hand_state = "SW_SESSION_TICKET"
           /\ SSL_IS_TLS13(t) /\ t.sent_tickets = 0
  <2>1. u = server_construct_message(Almost(t))
    BY <1>5, Zenon DEF server_pre_work, Almost
  <2>2. PICK a : a = Almost(t)
    OBVIOUS
  <2>3. a \in SSL
    BY <2>2, FinishHandshakeType DEF Almost
  <2>4. Kept(t, a) /\ Place(t, a) /\ a.init_msg = t.init_msg /\ Stays(t, a)
        /\ (a.bbio = t.bbio \/ a.bbio = <<>>)
    BY <2>2, FinishKept, FinishStays
  <2>5. Good(a) /\ a.server /\ a.hand_state = "SW_SESSION_TICKET" /\ a.state = "WRITING"
        /\ a.sub = "PRE_WORK"
    BY <1>5, <2>4, GoodFrame DEF Kept, Chose, Place
  <2>6. Wire(a)
    BY <2>3, <2>4, <2>5, Idle DEF Place
  <2>7. u = server_construct_message(a)
    BY <2>1, <2>2
  <2>8. (Wire(u) /\ Steady(a, u)) \/ u = ossl_statem_fatal(a, "INTERNAL_ERROR")
    BY <2>3, <2>5, <2>6, <2>7, ServerBuilds DEF WriteStates, Good
  <2>9. Wire(u) /\ Steady(a, u)
    BY <1>0, <2>3, <2>6, <2>8, FatalWire DEF Wire
  <2> QED BY <2>4, <2>9, SteadyFrom
<1>6. CASE /\ t.server /\ t.hand_state \notin {"OK", "EARLY_DATA"}
           /\ ~(/\ t.hand_state = "SW_SESSION_TICKET"
                /\ SSL_IS_TLS13(t) /\ t.sent_tickets = 0)
  <2>1. u = server_construct_message(t)
    BY <1>6 DEF server_pre_work
  <2>2. CASE t.hand_state = "SW_SRVR_HELLO" /\ Pending(t)
    <3>1. u = tls_construct_server_hello(t)
      BY <2>1, <2>2 DEF server_construct_message
    <3> QED BY <1>0, <1>6, <2>2, <3>1, RetryWire
  <2>3. CASE ~(t.hand_state = "SW_SRVR_HELLO" /\ Pending(t))
    BY <1>0, <1>1, <1>6, <2>1, <2>3, ServerBuilds DEF Silent
  <2> QED BY <2>2, <2>3
<1> QED BY <1>2, <1>3, <1>4, <1>5, <1>6

-----------------------------------------------------------------------------
(* One more message is hashed *)

LEMMA RandomSame ==
  ASSUME NEW t, NEW u, NEW e \in Hashed, t.transcript \in Hash,
         u.transcript = Append(t.transcript, e), "sentinel" \notin e.flags
  PROVE  Random(u) = Random(t)
<1> DEFINE T == {"sentinel"} \cap UNION {t.transcript[i].flags : i \in DOMAIN t.transcript}
           U == {"sentinel"} \cap UNION {u.transcript[i].flags : i \in DOMAIN u.transcript}
<1>1. /\ \A i \in DOMAIN t.transcript : i \in DOMAIN u.transcript /\ u.transcript[i] = t.transcript[i]
      /\ \A i \in DOMAIN u.transcript : i \in DOMAIN t.transcript \/ u.transcript[i] = e
  <2> DEFINE n == Len(t.transcript) + 1
  <2>1. /\ \A i \in DOMAIN t.transcript : i \in DOMAIN u.transcript /\ u.transcript[i] = t.transcript[i]
        /\ u.transcript[n] = e
        /\ \A i \in DOMAIN u.transcript : i = n \/ i \in DOMAIN t.transcript
    BY Added
  <2> HIDE DEF n
  <2> QED BY <2>1
<1>2. T = U
  BY <1>1
<1> QED BY <1>2 DEF Random

LEMMA KeysGrown ==
  ASSUME NEW t \in SSL, NEW u, Agreed(t, u), SameKeys(t, u), KeysKnown(t), NEW e \in Hashed,
         u.transcript = Append(t.transcript, e),
         \/ t.version # "TLS1_2"
         \/ "sentinel" \notin e.flags
         \/ t.enc_read = PlainKey /\ t.enc_write = PlainKey
  PROVE  KeysKnown(u)
<1>1. t.version = "TLS1_2" => \/ Random(u) = Random(t)
                              \/ t.enc_read = PlainKey /\ t.enc_write = PlainKey
  BY RandomSame, SSLParts
<1>2. u.version = "TLS1_2" => /\ u.enc_read \in {PlainKey, tls1_key(u, PeerSide(u))}
                              /\ u.enc_write \in {PlainKey, tls1_key(u, Side(u))}
  <2> SUFFICES ASSUME u.version = "TLS1_2"
               PROVE  /\ u.enc_read \in {PlainKey, tls1_key(u, PeerSide(u))}
                      /\ u.enc_write \in {PlainKey, tls1_key(u, Side(u))}
    OBVIOUS
  <2>1. CASE Random(u) = Random(t)
    BY <2>1 DEF Agreed, SameKeys, KeysKnown, tls1_key, Side, PeerSide
  <2>2. CASE t.enc_read = PlainKey /\ t.enc_write = PlainKey
    BY <2>2 DEF SameKeys
  <2> QED BY <1>1, <2>1, <2>2 DEF Agreed
<1>3. u.version = "TLS1_3" =>
        /\ u.enc_read.epoch = "APPLICATION" => u.enc_read = AppKey(u, PeerSide(u))
        /\ u.enc_write.epoch = "APPLICATION" => u.enc_write = AppKey(u, Side(u))
  BY DEF Agreed, SameKeys, KeysKnown, AppKey, Side, PeerSide
<1>4. u.server_finished_hash # <<>> => UpToFinished(u.server_finished_hash, u.transcript)
  <2> SUFFICES ASSUME u.server_finished_hash # <<>>
               PROVE  UpToFinished(u.server_finished_hash, u.transcript)
    OBVIOUS
  <2>1. UpToFinished(t.server_finished_hash, t.transcript) /\ u.server_finished_hash = t.server_finished_hash
    BY DEF SameKeys, KeysKnown
  <2>2. Starts(t.transcript, u.transcript) /\ u.transcript \in Hash
    <3>1. t.transcript \in Hash
      BY SSLParts
    <3> QED BY <3>1, Added, Zenon
  <2>3. Starts(t.server_finished_hash, u.transcript)
    BY <2>1, <2>2, StartsTrans, SSLParts DEF UpToFinished
  <2> QED BY <2>1, <2>3 DEF UpToFinished
<1> QED BY <1>2, <1>3, <1>4 DEF KeysKnown

\* What holds of the transcript still holds with a message that is what the
\* endpoint acts on.
LEMMA Appended ==
  ASSUME NEW t \in SSL, NEW u, Always(t), Honours(t), Agreed(t, u), NEW e \in Hashed,
         u.transcript = Append(t.transcript, e),
         IsSH(e) => Answers(t, e.flags),
         IsCH(e) /\ ~t.server => Offer(t, e.flags),
         e.mt = "CERTIFICATE" /\ (t.server <=> ~Opened(t.transcript)) => e.flags = ChainFlags(t.opt.cert),
         t.server /\ Opener(e) => HasSH(t.transcript) /\ HasCH(t.transcript)
  PROVE  /\ Honours(u) /\ OwnChains(u) /\ (u.server => HelloFirst(u.transcript))
         /\ ~u.server => \A i \in DOMAIN u.transcript :
                           IsCH(u.transcript[i]) => Offer(u, u.transcript[i].flags)
         /\ Obeys(t) /\ ~IsCH(e) => Obeys(u)
<1> DEFINE tr == t.transcript
           n == Len(tr) + 1
<1>1. /\ \A i \in DOMAIN tr : i \in DOMAIN u.transcript /\ u.transcript[i] = tr[i]
      /\ u.transcript[n] = e
      /\ \A i \in DOMAIN u.transcript : i = n \/ i \in DOMAIN tr
  BY Added, SSLParts
<1>2. /\ \A j \in DOMAIN tr : After(u.transcript, j) <=> After(tr, j)
      /\ After(u.transcript, n) <=> Opened(tr)
      /\ HelloFirst(tr) /\ (Opener(e) => HasSH(tr) /\ HasCH(tr)) => HelloFirst(u.transcript)
  BY Grown, SSLParts
<1> HIDE DEF n
<1>3. Honours(u)
  <2>1. \A f : Answers(t, f) => Answers(u, f)
    BY DEF Agreed, Answers
  <2> QED BY <1>1, <2>1 DEF Honours
<1>4. OwnChains(u)
  <2> SUFFICES ASSUME NEW j \in DOMAIN u.transcript, u.transcript[j].mt = "CERTIFICATE",
                      u.server <=> ~After(u.transcript, j)
               PROVE  u.transcript[j].flags = ChainFlags(u.opt.cert)
    BY DEF OwnChains
  <2>1. CASE j \in DOMAIN tr
    <3>1. tr[j].mt = "CERTIFICATE" /\ (t.server <=> ~After(tr, j))
      BY <1>1, <1>2, <2>1 DEF Agreed
    <3> QED BY <1>1, <2>1, <3>1 DEF Always, OwnChains, Agreed
  <2>2. CASE j = n
    BY <1>1, <1>2, <2>2 DEF Agreed
  <2> QED BY <1>1, <2>1, <2>2
<1>5. u.server => HelloFirst(u.transcript)
  BY <1>2 DEF Always, Agreed
<1>6. ~u.server => \A i \in DOMAIN u.transcript :
                     IsCH(u.transcript[i]) => Offer(u, u.transcript[i].flags)
  <2>1. \A f : Offer(t, f) => Offer(u, f)
    BY DEF Agreed, Offer
  <2> QED BY <1>1, <2>1 DEF Always, Agreed
<1>7. Obeys(t) /\ ~IsCH(e) => Obeys(u)
  <2>1. \A f : Picked(t, f) => Picked(u, f)
    BY DEF Agreed, Picked
  <2> QED BY <1>1, <2>1 DEF Obeys
<1> QED BY <1>3, <1>4, <1>5, <1>6, <1>7

-----------------------------------------------------------------------------
(* ssl3_do_write *)

\* What is sent is not what is only hashed, and the other way round.
Skips(t) ==
  \/ t.init_msg.mt = "CHANGE_CIPHER_SPEC"
  \/ t.init_msg.mt = "NEWSESSION_TICKET" /\ SSL_IS_TLS13(t)

LEMMA Written ==
  ASSUME NEW t \in SSL, NEW a \in SSL, a = ssl3_do_write(t), NEW u \in SSL, u = ToSub(a, "POST_WORK")
  PROVE  /\ Agreed(t, u) /\ SameKeys(t, u) /\ SameCerts(t, u)
         /\ u.hand_state = t.hand_state /\ u.state = t.state /\ u.sub = "POST_WORK"
         /\ u.bbio = Append(t.bbio, [t.init_msg EXCEPT !.key = t.enc_write])
         /\ u.transcript = IF Skips(t) THEN t.transcript
                           ELSE Append(t.transcript, Elem(t.init_msg.mt, t.init_msg.flags))
<1> DEFINE q == Append(t.bbio, [t.init_msg EXCEPT !.key = t.enc_write])
           w == [t EXCEPT !.bbio = q]
           e == Elem(t.init_msg.mt, t.init_msg.flags)
<1>1. a = IF Skips(t) THEN w ELSE [w EXCEPT !.transcript = Append(w.transcript, e)]
  BY DEF ssl3_do_write, ssl3_finish_mac, Skips
<1> HIDE DEF q
<1>2. /\ w \in [DOMAIN t -> {w[x] : x \in DOMAIN w}] /\ w.transcript = t.transcript
      /\ Agreed(t, w) /\ SameKeys(t, w) /\ SameCerts(t, w) /\ Place(t, w) /\ w.bbio = q
  BY DEF SSL, Agreed, SameKeys, SameCerts, Place
<1> HIDE DEF e
<1>3. /\ Agreed(t, a) /\ SameKeys(t, a) /\ SameCerts(t, a) /\ Place(t, a) /\ a.bbio = q
      /\ a.transcript = IF Skips(t) THEN t.transcript ELSE Append(t.transcript, e)
  <2>1. CASE Skips(t)
    BY <1>1, <1>2, <2>1
  <2>2. CASE ~Skips(t)
    <3>1. a = [w EXCEPT !.transcript = Append(w.transcript, e)]
      BY <1>1, <2>2
    <3> QED BY <2>2, <3>1 DEF SSL, Agreed, SameKeys, SameCerts, Place
  <2> QED BY <2>1, <2>2
<1>4. /\ Agreed(a, u) /\ SameKeys(a, u) /\ SameCerts(a, u) /\ u.hand_state = a.hand_state
      /\ u.state = a.state /\ u.sub = "POST_WORK" /\ u.bbio = a.bbio /\ u.transcript = a.transcript
  BY DEF ToSub, SSL, Agreed, SameKeys, SameCerts
<1> QED BY <1>3, <1>4 DEF Agreed, SameKeys, SameCerts, Place, q, e

\* What is in hand when a message is sent, and where the endpoint is then.
LEMMA Sending ==
  ASSUME NEW t \in SSL, Live(t), Sided(t), InHand(t), Spots(t), t.state = "WRITING", t.sub = "SEND",
         NEW u, Agreed(t, u), u.hand_state = t.hand_state, u.state = t.state, u.sub = "POST_WORK"
  PROVE  LET h == t.hand_state
             mt == t.init_msg.mt
         IN  /\ h \in WriteStates /\ mt = MessageOf(h)
             /\ mt = "CLIENT_HELLO" => h = "CW_CLNT_HELLO" /\ ~t.server /\ t.version = "ANY"
             /\ mt = "SERVER_HELLO" => h = "SW_SRVR_HELLO" /\ t.server
             /\ mt = "CERTIFICATE" => h \in {"CW_CERT", "SW_CERT"}
             /\ mt = "FINISHED" => h \in {"CW_FINISHED", "SW_FINISHED"}
             /\ mt = "SERVER_DONE" => h = "SW_SRVR_DONE"
             /\ h \in {"CW_FINISHED", "SW_FINISHED"} => mt = "FINISHED"
             /\ t.server /\ mt \in {"SERVER_DONE", "FINISHED"} => Answered(t) /\ Heard(t)
             /\ Sided(u)
             /\ OwnSent(t) => OwnSent(u) /\ Skips(t)
             /\ mt = "FINISHED" => OwnSent(u)
             /\ PeerSeen(u) <=> PeerSeen(t)
             /\ Unopened(u) => Unopened(t) /\ mt \notin {"SERVER_DONE", "FINISHED"}
             /\ h # "OK" /\ h \notin {"BEFORE", "SR_CLNT_HELLO"}
             /\ Answered(t) => Answered(u)
             /\ Answered(u) /\ ~Answered(t) => h = "SW_SRVR_HELLO" /\ ~Pending(t)
             /\ h = "SW_SRVR_HELLO" /\ ~Pending(t) /\ t.server => Answered(u)
             /\ Deaf(u) => Deaf(t)
             /\ Heard(u) => Heard(t)
             /\ t.server /\ t.version = "TLS1_3" /\ h = "SW_FINISHED" => Unopened(t)
<1> DEFINE h == t.hand_state
           mt == t.init_msg.mt
<1>1. h \in WriteStates /\ mt = MessageOf(h)
  BY DEF InHand
<1>2. /\ t.version \in {"ANY", "TLS1_2", "TLS1_3"} /\ t.hit \in BOOLEAN /\ t.server \in BOOLEAN
      /\ t.hello_retry_request \in {"NONE", "PENDING", "COMPLETE"}
  BY DEF SSL, Versions
<1>3. /\ u.server = t.server /\ u.version = t.version /\ u.hit = t.hit
      /\ u.hello_retry_request = t.hello_retry_request
  BY DEF Agreed
<1>4. /\ t.version = "ANY" => h \in {"CW_CLNT_HELLO", "CW_CHANGE"} /\ ~t.server
      /\ ~t.server /\ t.version # "ANY" => h # "CW_CLNT_HELLO"
      /\ t.server /\ h = "SW_SRVR_DONE" => ~Pending(t)
      /\ t.server /\ h = "SW_FINISHED" => ~Pending(t)
  BY <1>1, <1>2 DEF Live, Early, Client, Server12, Server13, Pending, Spots, WriteStates
<1>5. h \in IF t.server THEN ServerStates ELSE ClientStates
  BY <1>1 DEF Sided, WriteStates
<1>6. /\ mt = "CLIENT_HELLO" => h = "CW_CLNT_HELLO" /\ ~t.server /\ t.version = "ANY"
      /\ mt = "SERVER_HELLO" => h = "SW_SRVR_HELLO" /\ t.server
      /\ mt = "CERTIFICATE" => h \in {"CW_CERT", "SW_CERT"}
      /\ mt = "FINISHED" => h \in {"CW_FINISHED", "SW_FINISHED"}
      /\ mt = "SERVER_DONE" => h = "SW_SRVR_DONE"
      /\ h \in {"CW_FINISHED", "SW_FINISHED"} => mt = "FINISHED"
      /\ h = "SW_SESSION_TICKET" => mt = "NEWSESSION_TICKET"
  <2>1. mt = "CLIENT_HELLO" => h = "CW_CLNT_HELLO"
    BY <1>1 DEF MessageOf, WriteStates
  <2>2. mt = "SERVER_HELLO" => h = "SW_SRVR_HELLO"
    BY <1>1 DEF MessageOf, WriteStates
  <2>3. mt = "CERTIFICATE" => h \in {"CW_CERT", "SW_CERT"}
    BY <1>1 DEF MessageOf, WriteStates
  <2>4. mt = "FINISHED" => h \in {"CW_FINISHED", "SW_FINISHED"}
    BY <1>1 DEF MessageOf, WriteStates
  <2>5. mt = "SERVER_DONE" => h = "SW_SRVR_DONE"
    BY <1>1 DEF MessageOf, WriteStates
  <2>6. h = "CW_FINISHED" \/ h = "SW_FINISHED" => mt = "FINISHED"
    BY <1>1 DEF MessageOf
  <2>9. h = "SW_SESSION_TICKET" => mt = "NEWSESSION_TICKET"
    BY <1>1 DEF MessageOf
  <2>7. h = "CW_CLNT_HELLO" => ~t.server /\ t.version = "ANY"
    BY <1>2, <1>4, <1>5 DEF ServerStates
  <2>8. h = "SW_SRVR_HELLO" => t.server
    BY <1>2, <1>5 DEF ClientStates
  <2> QED BY <2>1, <2>2, <2>3, <2>4, <2>5, <2>6, <2>7, <2>8, <2>9
<1>7. t.server /\ mt \in {"SERVER_DONE", "FINISHED"} => Answered(t) /\ Heard(t)
  BY <1>2, <1>4, <1>5, <1>6 DEF Answered, Heard, ServerStates
<1>8. Sided(u)
  BY <1>3 DEF Sided
<1>9. /\ OwnSent(t) => OwnSent(u) /\ Skips(t)
      /\ mt = "FINISHED" => OwnSent(u)
      /\ PeerSeen(u) <=> PeerSeen(t)
  BY <1>1, <1>3, <1>6 DEF OwnSent, PeerSeen, Skips, WriteStates, SSL_IS_TLS13, Pending
<1>10. Unopened(u) => Unopened(t) /\ mt \notin {"SERVER_DONE", "FINISHED"}
  BY <1>1, <1>3, <1>4, <1>5, <1>6 DEF Unopened, WriteStates, Pending
<1>11. /\ h # "OK" /\ h \notin {"BEFORE", "SR_CLNT_HELLO"}
       /\ Answered(t) => Answered(u)
       /\ Answered(u) /\ ~Answered(t) => h = "SW_SRVR_HELLO" /\ ~Pending(t)
       /\ h = "SW_SRVR_HELLO" /\ ~Pending(t) /\ t.server => Answered(u)
  BY <1>1, <1>3 DEF WriteStates, Answered, Pending
<1>12. (Deaf(u) => Deaf(t)) /\ (Heard(u) => Heard(t))
  BY <1>1, <1>3 DEF Deaf, Heard, Pending, WriteStates
<1>13. t.server /\ t.version = "TLS1_3" /\ h = "SW_FINISHED" => Unopened(t)
  BY DEF Unopened
<1> QED BY <1>1, <1>6, <1>7, <1>8, <1>9, <1>10, <1>11, <1>12, <1>13

\* What the transcript is after sending.
LEMMA SentHash ==
  ASSUME NEW t \in SSL, Live(t), Wire(t), t.state = "WRITING", t.sub = "SEND",
         NEW u \in SSL, Agreed(t, u), SameKeys(t, u), SameCerts(t, u),
         u.hand_state = t.hand_state, u.state = t.state, u.sub = "POST_WORK",
         u.transcript = IF Skips(t) THEN t.transcript
                        ELSE Append(t.transcript, Elem(t.init_msg.mt, t.init_msg.flags))
  PROVE  /\ Honours(u) /\ OwnChains(u) /\ (u.server => HelloFirst(u.transcript) /\ Obeys(u))
         /\ ~u.server => \A i \in DOMAIN u.transcript :
                           IsCH(u.transcript[i]) => Offer(u, u.transcript[i].flags)
         /\ Starts(t.transcript, u.transcript)
         /\ NoneSent(t.transcript) => NoneSent(u.transcript)
         /\ ChainFirst(t.transcript) => ChainFirst(u.transcript)
         /\ ~u.server /\ u.version = "ANY" => ~HasSH(u.transcript)
         /\ u.server /\ ~Answered(u) => ~HasSH(u.transcript)
         /\ u.server /\ Answered(u) => HasSH(u.transcript)
         /\ u.server /\ Deaf(u) => ~HasCH(u.transcript)
         /\ u.server /\ Heard(u) => HasCH(u.transcript)
         /\ Unopened(u) => ~Opened(u.transcript)
         /\ KeysKnown(u)
<1> DEFINE h == t.hand_state
           mt == t.init_msg.mt
           f == t.init_msg.flags
           e == Elem(mt, f)
           tr == t.transcript
<1>1. Always(t) /\ Alive(t) /\ Sided(t) /\ InHand(t) /\ Spots(t) /\ Honours(t)
  BY DEF Wire, Always, Alive
<1>2. /\ h \in WriteStates /\ mt = MessageOf(h)
      /\ mt = "CLIENT_HELLO" => h = "CW_CLNT_HELLO" /\ ~t.server /\ t.version = "ANY"
      /\ mt = "SERVER_HELLO" => h = "SW_SRVR_HELLO" /\ t.server
      /\ mt = "CERTIFICATE" => h \in {"CW_CERT", "SW_CERT"}
      /\ mt = "FINISHED" => h \in {"CW_FINISHED", "SW_FINISHED"}
      /\ mt = "SERVER_DONE" => h = "SW_SRVR_DONE"
      /\ t.server /\ mt \in {"SERVER_DONE", "FINISHED"} => Answered(t) /\ Heard(t)
      /\ Unopened(u) => Unopened(t) /\ mt \notin {"SERVER_DONE", "FINISHED"}
      /\ h # "OK" /\ h \notin {"BEFORE", "SR_CLNT_HELLO"}
      /\ Answered(t) => Answered(u)
      /\ Answered(u) /\ ~Answered(t) => h = "SW_SRVR_HELLO" /\ ~Pending(t)
      /\ h = "SW_SRVR_HELLO" /\ ~Pending(t) /\ t.server => Answered(u)
      /\ Deaf(u) => Deaf(t)
      /\ Heard(u) => Heard(t)
  BY <1>1, Sending
<1>3. u.server = t.server /\ u.version = t.version /\ tr \in Hash
  BY SSLParts DEF Agreed
<1>4. t.server => Obeys(t)
  BY <1>1, <1>2 DEF Alive, Decided
<1>5. e \in Hashed /\ e.mt = mt /\ e.flags = f /\ e = Elem(mt, f)
  BY SSLParts, RecordParts, ElemHashed DEF Elem
<1>6. /\ Answered(t) /\ t.server => HasSH(tr)
      /\ ~Answered(t) /\ t.server => ~HasSH(tr)
      /\ Heard(t) /\ t.server => HasCH(tr)
      /\ Deaf(t) /\ t.server => ~HasCH(tr)
      /\ ~t.server /\ t.version = "ANY" => ~HasSH(tr)
      /\ Unopened(t) => ~Opened(tr)
      /\ KeysKnown(t)
  BY <1>1, <1>2 DEF Alive
<1> HIDE DEF e
<1>7. CASE Skips(t)
  <2>1. u.transcript = tr
    BY <1>7
  <2>2. mt # "SERVER_HELLO"
    BY <1>7 DEF Skips
  <2>3. h # "SW_SRVR_HELLO"
    BY <1>2, <2>2 DEF MessageOf
  <2>4. Honours(u) /\ OwnChains(u) /\ (u.server => Obeys(u)) /\ KeysKnown(u)
    BY <1>1, <1>3, <1>4, <1>6, <2>1, SameChoices, SameKeysKnown DEF Always
  <2>5. ~u.server => \A i \in DOMAIN u.transcript :
                       IsCH(u.transcript[i]) => Offer(u, u.transcript[i].flags)
    <3>1. \A x : Offer(t, x) => Offer(u, x)
      BY <2>1, SameChoices
    <3> QED BY <1>1, <1>3, <2>1, <3>1 DEF Always
  <2>6. Starts(t.transcript, u.transcript) /\ (u.server => HelloFirst(u.transcript))
    BY <1>1, <1>3, <2>1, StartsRefl DEF Always
  <2>7. Answered(u) <=> Answered(t)
    BY <1>2, <2>3
  <2> QED BY <1>2, <1>3, <1>6, <2>1, <2>4, <2>5, <2>6, <2>7
<1>8. CASE ~Skips(t)
  <2>1. u.transcript = Append(tr, e)
    BY <1>5, <1>8
  <2>2. IsSH(e) => Answers(t, f) /\ h = "SW_SRVR_HELLO" /\ ~Pending(t) /\ t.server
    BY <1>1, <1>2, <1>5 DEF IsSH, InHand
  <2>3. IsCH(e) => Offer(t, f) /\ ~t.server
    BY <1>1, <1>2, <1>5 DEF IsCH, InHand
  <2>4. e.mt = "CERTIFICATE" => f = ChainFlags(t.opt.cert)
    BY <1>1, <1>2, <1>5 DEF InHand
  <2>5. t.server /\ Opener(e) => HasSH(tr) /\ HasCH(tr)
    BY <1>2, <1>5, <1>6 DEF Opener
  <2>6. /\ Honours(u) /\ OwnChains(u) /\ (u.server => HelloFirst(u.transcript))
        /\ ~u.server => \A i \in DOMAIN u.transcript :
                          IsCH(u.transcript[i]) => Offer(u, u.transcript[i].flags)
        /\ Obeys(t) /\ ~IsCH(e) => Obeys(u)
    BY <1>1, <1>5, <2>1, <2>2, <2>3, <2>4, <2>5, Appended
  <2>7. /\ HasCH(u.transcript) <=> HasCH(tr) \/ IsCH(e)
        /\ HasSH(u.transcript) <=> HasSH(tr) \/ IsSH(e)
        /\ Opened(u.transcript) <=> Opened(tr) \/ Opener(e)
        /\ NoneSent(tr) => NoneSent(u.transcript)
        /\ ChainFirst(tr) => ChainFirst(u.transcript)
        /\ Starts(tr, u.transcript)
    BY <1>3, <1>5, <2>1, Grown, Added
  <2>8. h = "SW_SRVR_HELLO" /\ ~Pending(t) => IsSH(e)
    BY <1>1, <1>2, <1>5 DEF InHand, Answers, IsSH, MessageOf
  <2>9. Opener(e) => mt \in {"SERVER_DONE", "FINISHED"}
    BY <1>5 DEF Opener
  <2>10. KeysKnown(u)
    <3>1. \/ t.version # "TLS1_2"
          \/ "sentinel" \notin f
          \/ t.enc_read = PlainKey /\ t.enc_write = PlainKey
      <4>1. CASE mt = "CLIENT_HELLO"
        BY <1>2, <4>1
      <4>2. CASE mt = "SERVER_HELLO"
        <5>1. Keyless(t)
          BY <1>2, <4>2 DEF Keyless
        <5> QED BY <1>1, <5>1 DEF Alive
      <4>3. CASE mt \notin {"CLIENT_HELLO", "SERVER_HELLO"}
        <5>1. h \notin {"CW_CLNT_HELLO", "SW_SRVR_HELLO"}
          BY <1>2, <4>3 DEF MessageOf
        <5>2. f \in FlagsOf(mt)
          BY <1>1, <5>1 DEF InHand
        <5> QED BY <4>3, <5>2 DEF FlagsOf
      <4> QED BY <4>1, <4>2, <4>3
    <3> QED BY <1>5, <1>6, <2>1, <3>1, KeysGrown
  <2>11. ~u.server /\ u.version = "ANY" => ~HasSH(u.transcript)
    BY <1>3, <1>6, <2>2, <2>7
  <2>12. u.server => (Answered(u) <=> HasSH(u.transcript))
    BY <1>2, <1>3, <1>6, <2>2, <2>7, <2>8
  <2>13. /\ u.server /\ Deaf(u) => ~HasCH(u.transcript)
         /\ u.server /\ Heard(u) => HasCH(u.transcript)
    BY <1>2, <1>3, <1>6, <2>3, <2>7
  <2>14. Unopened(u) => ~Opened(u.transcript)
    BY <1>2, <1>6, <2>7, <2>9
  <2> QED BY <1>3, <1>4, <2>3, <2>6, <2>7, <2>10, <2>11, <2>12, <2>13, <2>14
<1> QED BY <1>7, <1>8

\* What is hashed up to a first Finished.
LEMMA OnlyFinished ==
  ASSUME NEW tr \in Hash, ~Opened(tr), NEW u, u = Append(tr, Fin)
  PROVE  UpToFinished(u, u) /\ u \in Hash
<1> DEFINE n == Len(tr) + 1
<1>1. /\ u \in Hash /\ u # <<>> /\ Starts(u, u)
      /\ \A i \in DOMAIN tr : i \in Nat /\ i < n /\ u[i] = tr[i]
      /\ u[n] = Fin /\ \A i \in DOMAIN u : i = n \/ i \in DOMAIN tr
  <2>1. PICK e \in Hashed : e = Fin
    BY FinHashed
  <2>2. /\ u \in Hash /\ u # <<>> /\ Starts(u, u)
        /\ \A i \in DOMAIN tr : i \in Nat /\ i < Len(tr) + 1 /\ u[i] = tr[i]
        /\ u[Len(tr) + 1] = e
        /\ \A i \in DOMAIN u : i = Len(tr) + 1 \/ i \in DOMAIN tr
    <3>1. u = Append(tr, e)
      BY <2>1
    <3>2. u \in Hash /\ u # <<>> /\ Starts(u, u)
      BY <3>1, Added
    <3>3. \A i \in DOMAIN tr : i \in Nat /\ i < Len(tr) + 1 /\ u[i] = tr[i]
      BY <3>1, Added
    <3>4. u[Len(tr) + 1] = e
      BY <3>1, Added
    <3>5. \A i \in DOMAIN u : i = Len(tr) + 1 \/ i \in DOMAIN tr
      BY <3>1, Added
    <3> QED BY <3>2, <3>3, <3>4, <3>5
  <2> QED BY <2>1, <2>2
<1>2. Len(u) = n
  BY DEF Hash
<1> HIDE DEF n
<1>3. \A i \in DOMAIN tr : tr[i].mt # "FINISHED"
  BY DEF Opened
<1>4. Fin.mt = "FINISHED"
  BY DEF Fin, Elem
<1>5. n \in Nat
  BY DEF n, Hash
<1>6. \A i \in DOMAIN u : u[i].mt = "FINISHED" <=> i = n
  BY <1>1, <1>3, <1>4, <1>5
<1> QED BY <1>1, <1>2, <1>6 DEF UpToFinished

LEMMA SendWire ==
  ASSUME NEW t \in SSL, Live(t), Wire(t), t.state = "WRITING", t.sub = "SEND",
         NEW a \in SSL, a = ssl3_do_write(t), NEW u \in SSL, u = ToSub(a, "POST_WORK")
  PROVE  Wire(u) /\ Steady(t, u)
<1> DEFINE h == t.hand_state
           m == t.init_msg
           tr == t.transcript
           n == [m EXCEPT !.key = t.enc_write]
<1>1. /\ Agreed(t, u) /\ SameKeys(t, u) /\ SameCerts(t, u)
      /\ u.hand_state = t.hand_state /\ u.state = t.state /\ u.sub = "POST_WORK"
      /\ u.bbio = Append(t.bbio, n)
      /\ u.transcript = IF Skips(t) THEN tr ELSE Append(tr, Elem(m.mt, m.flags))
  BY Written
<1>2. Always(t) /\ Alive(t) /\ Sided(t) /\ InHand(t) /\ Spots(t)
  BY DEF Wire, Always, Alive
<1>3. /\ h \in WriteStates /\ m.mt = MessageOf(h)
      /\ m.mt = "FINISHED" => h \in {"CW_FINISHED", "SW_FINISHED"}
      /\ h \in {"CW_FINISHED", "SW_FINISHED"} => m.mt = "FINISHED"
      /\ Sided(u)
      /\ OwnSent(t) => OwnSent(u) /\ Skips(t)
      /\ m.mt = "FINISHED" => OwnSent(u)
      /\ PeerSeen(u) <=> PeerSeen(t)
      /\ h # "OK" /\ h \notin {"BEFORE", "SR_CLNT_HELLO"}
      /\ t.server /\ t.version = "TLS1_3" /\ h = "SW_FINISHED" => Unopened(t)
  BY <1>1, <1>2, Sending
<1>4. /\ Honours(u) /\ OwnChains(u) /\ (u.server => HelloFirst(u.transcript) /\ Obeys(u))
      /\ ~u.server => \A i \in DOMAIN u.transcript :
                        IsCH(u.transcript[i]) => Offer(u, u.transcript[i].flags)
      /\ Starts(tr, u.transcript)
      /\ NoneSent(tr) => NoneSent(u.transcript)
      /\ ChainFirst(tr) => ChainFirst(u.transcript)
      /\ ~u.server /\ u.version = "ANY" => ~HasSH(u.transcript)
      /\ u.server /\ ~Answered(u) => ~HasSH(u.transcript)
      /\ u.server /\ Answered(u) => HasSH(u.transcript)
      /\ u.server /\ Deaf(u) => ~HasCH(u.transcript)
      /\ u.server /\ Heard(u) => HasCH(u.transcript)
      /\ Unopened(u) => ~Opened(u.transcript)
      /\ KeysKnown(u)
  BY <1>1, SentHash
<1>5. /\ Secret(u) = Secret(t) /\ Side(u) = Side(t)
      /\ u.server = t.server /\ u.version = t.version /\ u.hit = t.hit /\ u.opt = t.opt
      /\ u.hello_retry_request = t.hello_retry_request
  BY <1>1, SameSecret DEF Agreed, Side
<1>6. Steady(t, u)
  <2>1. Fixed(t, u)
    BY <1>1, <1>5 DEF Agreed, Fixed
  <2>2. OwnSent(t) => u.transcript = tr
    BY <1>1, <1>3
  <2> QED BY <1>3, <1>4, <1>5, <2>1, <2>2 DEF Steady
<1>7. FlagsOK(m)
  <2>1. CASE h \in {"CW_CLNT_HELLO", "SW_SRVR_HELLO"}
    BY <1>3, <2>1 DEF FlagsOK, MessageOf
  <2>2. CASE h \notin {"CW_CLNT_HELLO", "SW_SRVR_HELLO"}
    BY <1>2, <2>2 DEF InHand, FlagsOK
  <2> QED BY <2>1, <2>2
<1>8. n.mt = m.mt /\ n.flags = m.flags /\ n.mac = m.mac
  BY SSLParts DEF Records
<1> HIDE DEF n
<1>9. m.mt = "FINISHED" => /\ m.mac = final_finish_mac(t, Side(t)) /\ m.flags = {}
                           /\ Elem(m.mt, m.flags) = Fin /\ ~Skips(t)
  <2> SUFFICES ASSUME m.mt = "FINISHED"
               PROVE  m.mac = final_finish_mac(t, Side(t)) /\ m.flags = {} /\ ~Skips(t)
    BY DEF Fin
  <2>1. m.mac = final_finish_mac(t, Side(t))
    BY <1>2, <1>3 DEF InHand
  <2>2. m.flags = {}
    BY <1>7 DEF FlagsOK, FlagsOf
  <2> QED BY <2>1, <2>2 DEF Skips
<1>10. FinRecord(u, n) /\ FlagsOK(n)
  <2>1. FlagsOK(n)
    BY <1>7, <1>8 DEF FlagsOK
  <2> SUFFICES ASSUME n.mt = "FINISHED"
               PROVE  FinRecord(u, n)
    BY <2>1 DEF FinRecord
  <2>2. n.mac = final_finish_mac(t, Side(t)) /\ u.transcript = Append(tr, Fin) /\ OwnSent(u)
    BY <1>1, <1>3, <1>8, <1>9
  <2>3. n.mac.sender = Side(u) /\ n.mac.secret = Secret(u) /\ n.mac.hash = tr
    BY <1>5, <2>2 DEF final_finish_mac, Secret
  <2>4. Starts(u.transcript, u.transcript)
    BY StartsRefl, SSLParts
  <2> QED BY <2>2, <2>3, <2>4 DEF FinRecord
<1>11. Held2(t, u)
  <2>1. t.bbio \in Seq(Records)
    BY SSLParts
  <2> SUFFICES ASSUME NEW i \in DOMAIN u.bbio
               PROVE  u.bbio[i] = n \/ \E j \in DOMAIN t.bbio : u.bbio[i] = t.bbio[j]
    BY <1>10 DEF Held2
  <2> QED BY <1>1, <2>1
<1>12. Buffered(u)
  BY <1>2, <1>6, <1>11, BufferedKept DEF Held2, Always
<1>13. (Wants(u) <=> Wants(t)) /\ (Asks(u) <=> Asks(t))
  BY <1>1 DEF Agreed, Wants, Asks, send_certificate_request, VerifyPeer, aNULL, aPSK
<1>14. Asked(u)
  BY <1>1, <1>2, <1>3, <1>4, <1>5, <1>13 DEF Alive, Asked, SameCerts, Pending, WriteStates
<1>15. Shown(u)
  BY <1>1, <1>2, <1>3, <1>4, <1>5, <1>13 DEF Alive, Shown, WriteStates
<1>16. Always(u)
  BY <1>2, <1>3, <1>4, <1>5, <1>12, <1>15 DEF Always
<1>17. Spots(u)
  <2>1. ~(~u.server /\ u.version = "TLS1_2" /\ u.hand_state = "CW_FINISHED" /\ u.state = "READING")
    BY <1>1
  <2>2. u.server /\ u.hand_state = "SW_SRVR_DONE" => u.version = "TLS1_2"
    BY <1>1, <1>2, <1>5 DEF Spots
  <2>3. ASSUME u.server, u.version = "TLS1_3", u.hand_state = "SW_FINISHED"
        PROVE  UpToFinished(u.transcript, u.transcript)
    <3>1. u.transcript = Append(tr, Fin) /\ tr \in Hash /\ Fin \in Hashed
      BY <1>1, <1>3, <1>9, <2>3, FinHashed, SSLParts
    <3>2. ~Opened(tr)
      BY <1>1, <1>2, <1>3, <1>5, <2>3 DEF Alive
    <3> QED BY <3>1, <3>2, OnlyFinished
  <2> QED BY <2>1, <2>2, <2>3 DEF Spots
<1>18. Alive(u)
  <2>1. InHand(u)
    BY <1>1 DEF InHand
  <2>2. u.server /\ u.version = "TLS1_2" => u.new_cipher = u.opt.cipher
    BY <1>1, <1>2 DEF Alive, Agreed
  <2>3. u.cert_req = 2 => u.opt.cert = "NONE"
    BY <1>1, <1>2 DEF Alive, Agreed, SameCerts
  <2>4. u.version = "TLS1_2" /\ Keyless(u) => u.enc_read = PlainKey /\ u.enc_write = PlainKey
    BY <1>1, <1>2, <1>5 DEF Alive, Keyless, SameKeys
  <2>5. u.server /\ u.version = "TLS1_3" /\ ~PeerSeen(u) => u.enc_read.epoch # "APPLICATION"
    BY <1>1, <1>2, <1>3, <1>5 DEF Alive, SameKeys
  <2>6. ~(u.hand_state = "SR_CLNT_HELLO" /\ u.sub = "POST_PROCESS")
    BY <1>1
  <2> QED BY <1>4, <1>14, <1>15, <1>17, <2>1, <2>2, <2>3, <2>4, <2>5, <2>6 DEF Alive
<1> QED BY <1>6, <1>16, <1>18 DEF Wire

-----------------------------------------------------------------------------
(* post_work *)

\* What Chose, Secrets and Certs of StatemSecurity do not speak of.
Rest(t, u) ==
  /\ u.group = t.group /\ u.extms = t.extms /\ u.cert_req = t.cert_req /\ u.bbio = t.bbio

LEMMA RestKept ==
  ASSUME NEW t \in SSL, NEW k, NEW x,
         NEW a, a \in {t, InstallRead(t, k), InstallWrite(t, k), SaveHash(t, x),
                       ssl_generate_master_secret(t), ToSub(t, x)}
  PROVE  Rest(t, a)
<1>1. a = t \/ a = InstallRead(t, k) \/ a = InstallWrite(t, k) \/ a = SaveHash(t, x)
        \/ a = ssl_generate_master_secret(t) \/ a = ToSub(t, x)
  OBVIOUS
<1>2. ASSUME a = t PROVE Rest(t, a)
  BY <1>2 DEF Rest
<1>3. ASSUME a = InstallRead(t, k) PROVE Rest(t, a)
  BY <1>3 DEF Rest, InstallRead, SSL
<1>4. ASSUME a = InstallWrite(t, k) PROVE Rest(t, a)
  BY <1>4 DEF Rest, InstallWrite, SSL
<1>5. ASSUME a = SaveHash(t, x) PROVE Rest(t, a)
  BY <1>5 DEF Rest, SaveHash, SSL
<1>6. ASSUME a = ssl_generate_master_secret(t) PROVE Rest(t, a)
  <2> DEFINE q == IF t.extms THEN t.transcript ELSE <<Elem("PREMASTER", {}), Random(t)>>
  <2>1. a = [t EXCEPT !.master_key = q]
    BY <1>6 DEF ssl_generate_master_secret
  <2> HIDE DEF q
  <2> QED BY <2>1 DEF Rest, SSL
<1>7. ASSUME a = ToSub(t, x) PROVE Rest(t, a)
  BY <1>7 DEF Rest, ToSub, SSL
<1> QED BY <1>1, <1>2, <1>3, <1>4, <1>5, <1>6, <1>7, Zenon

LEMMA RestChange ==
  ASSUME NEW t \in SSL, NEW epoch \in {"HANDSHAKE", "APPLICATION"},
         NEW a, a = tls13_change_write(t, epoch) \/ a = tls13_change_read(t, epoch)
  PROVE  Rest(t, a)
<1> DEFINE b == SaveHash(t, epoch)
<1>1. b \in SSL /\ Rest(t, b)
  BY SaveHashType, RestKept DEF Epochs
<1> HIDE DEF b
<1>2. \/ \E k : a = InstallRead(b, k) \/ a = InstallWrite(b, k)
      \/ \E k : a = InstallRead(t, k) \/ a = InstallWrite(t, k)
  BY DEF tls13_change_write, tls13_change_read, b
<1>3. CASE \E k : a = InstallRead(b, k) \/ a = InstallWrite(b, k)
  <2>1. Rest(b, a)
    BY <1>1, <1>3, RestKept
  <2> QED BY <1>1, <2>1 DEF Rest
<1>4. CASE \E k : a = InstallRead(t, k) \/ a = InstallWrite(t, k)
  BY <1>4, RestKept
<1> QED BY <1>2, <1>3, <1>4

LEMMA RestHandshake ==
  ASSUME NEW t \in SSL, NEW a, a = HandshakeKeys(t)
  PROVE  Rest(t, a)
<1> DEFINE b == tls13_change_write(t, "HANDSHAKE")
           c == tls13_change_read(b, "HANDSHAKE")
<1>1. b \in SSL /\ Rest(t, b)
  BY ChangeKeyType, RestChange DEF Epochs
<1>2. c \in SSL /\ Rest(b, c)
  BY <1>1, ChangeKeyType, RestChange DEF Epochs
<1>3. a = [c EXCEPT !.plain_alerts = TRUE]
  BY DEF HandshakeKeys
<1> HIDE DEF b, c
<1>4. Rest(c, a)
  BY <1>2, <1>3 DEF Rest, SSL
<1> QED BY <1>1, <1>2, <1>4 DEF Rest

LEMMA RestWork ==
  ASSUME NEW t \in SSL, NEW a \in SSL, a = server_post_work(t) \/ a = client_post_work(t),
         NEW u, u = ToSub(a, "TRANSITION")
  PROVE  Rest(t, u)
<1>1. Rest(a, u)
  BY RestKept
<1>2. Rest(t, a)
  <2>1. CASE a = server_post_work(t)
    <3>1. \/ a = HandshakeKeys(t)
          \/ a = InstallWrite(t, tls1_key(t, "SERVER"))
          \/ a = tls13_change_write(t, "APPLICATION")
          \/ a = t
      BY <2>1 DEF server_post_work
    <3> QED BY <3>1, RestKept, RestChange, RestHandshake
  <2>2. CASE a = client_post_work(t)
    <3>1. \/ a = ssl_generate_master_secret(t)
          \/ a = InstallWrite(t, tls1_key(t, "CLIENT"))
          \/ a = tls13_change_write(t, "APPLICATION")
          \/ a = t
      BY <2>2 DEF client_post_work
    <3> QED BY <3>1, RestKept, RestChange
  <2> QED BY <2>1, <2>2
<1> QED BY <1>1, <1>2 DEF Rest

\* The places behind post_work.
LEMMA WorkedPlaces ==
  ASSUME NEW t \in SSL, Wire(t), t.state = "WRITING", t.sub = "POST_WORK",
         t.hand_state \in WriteStates \cup Silent,
         NEW u, Worked(t, u), Rest(t, u)
  PROVE  /\ Agreed(t, u) /\ SameCerts(t, u) /\ PlaceOK(t, u) /\ CertPlaces(u) /\ InHand(u)
         /\ Held2(t, u) /\ (Keyless(u) <=> Keyless(t))
<1>1. Always(t) /\ Alive(t)
  BY DEF Wire
<1>2. Agreed(t, u) /\ SameCerts(t, u) /\ u.transcript = t.transcript
  BY DEF Worked, Chose, Certs, Rest, Agreed, SameCerts
<1>3. /\ u.server = t.server /\ u.version = t.version /\ u.hit = t.hit
      /\ u.hello_retry_request = t.hello_retry_request
      /\ u.hand_state = t.hand_state /\ u.state = "WRITING" /\ u.sub = "TRANSITION"
  BY <1>2 DEF Agreed, Worked
<1>4. PlaceOK(t, u)
  <2>1. Sided(u) /\ Spots(u)
    BY <1>1, <1>3 DEF Always, Alive, Sided, Spots
  <2>2. (OwnSent(u) <=> OwnSent(t)) /\ (PeerSeen(u) <=> PeerSeen(t))
    BY <1>3 DEF OwnSent, PeerSeen, Pending
  <2>3. Unopened(u) => Unopened(t)
    BY <1>3 DEF Unopened, Pending
  <2>4. (Answered(u) <=> Answered(t)) /\ (Heard(u) => Heard(t)) /\ (Decided(u) => Decided(t))
    BY <1>3 DEF Answered, Heard, Decided, Pending
  <2>5. Deaf(u) => Deaf(t)
    BY <1>3 DEF Deaf, Pending
  <2>6. ~(u.hand_state = "SR_CLNT_HELLO" /\ u.sub = "POST_PROCESS")
    BY <1>3
  <2> QED BY <1>3, <2>1, <2>2, <2>3, <2>4, <2>5, <2>6 DEF PlaceOK
<1>5. CertPlaces(u)
  <2>1. (Wants(u) <=> Wants(t)) /\ (Asks(u) <=> Asks(t)) /\ Asked(t) /\ Shown(t)
    BY <1>1, <1>2, SameChoices DEF Alive
  <2>2. Asked(u)
    BY <1>2, <1>3, <2>1 DEF Asked, SameCerts, Pending, WriteStates, Silent
  <2>3. Shown(u)
    BY <1>2, <1>3, <2>1 DEF Shown
  <2> QED BY <1>1, <1>2, <2>2, <2>3 DEF CertPlaces, Alive, SameCerts, Agreed
<1>6. InHand(u)
  BY <1>3 DEF InHand
<1>7. Held2(t, u)
  BY HeldSame DEF Rest
<1>8. Keyless(u) <=> Keyless(t)
  BY <1>3 DEF Keyless
<1> QED BY <1>2, <1>4, <1>5, <1>6, <1>7, <1>8

\* What post_work does to the keys, and to the secret of the Finished messages.
KeyedOK(t, u) == KeyPlaces(u) /\ (Certain(t) => Secret(u) = Secret(t))

LEMMA SameKeyed ==
  ASSUME NEW t \in SSL, Alive(t), NEW u, Agreed(t, u), u.transcript = t.transcript, SameKeys(t, u),
         PlaceOK(t, u), Keyless(u) => Keyless(t)
  PROVE  KeyedOK(t, u)
<1>1. KeysKnown(u) /\ Secret(u) = Secret(t)
  BY SameKeysKnown, SameSecret DEF Alive
<1> QED BY <1>1 DEF KeyedOK, KeyPlaces, Alive, Agreed, SameKeys, PlaceOK

LEMMA ServerKeyed ==
  ASSUME NEW t \in SSL, Wire(t), t.server, t.state = "WRITING", t.sub = "POST_WORK",
         t.hand_state \in WriteStates \cup Silent,
         NEW a \in SSL, a = server_post_work(t), NEW u, u = ToSub(a, "TRANSITION")
  PROVE  KeyedOK(t, u)
<1>0. Always(t) /\ Alive(t)
  BY DEF Wire
<1>1. Rest(t, u)
  BY RestWork
<1>2. Worked(t, u)
  BY ServerWorkKept
<1>10. Agreed(t, u) /\ PlaceOK(t, u) /\ (Keyless(u) <=> Keyless(t))
  BY <1>1, <1>2, WorkedPlaces, Zenon
<1>3. /\ Agreed(t, u) /\ PlaceOK(t, u) /\ (Keyless(u) <=> Keyless(t)) /\ u.transcript = t.transcript
      /\ u.server /\ u.version = t.version /\ u.hand_state = t.hand_state
  BY <1>2, <1>10 DEF Worked, Agreed
<1>4. /\ a.handshake_traffic_hash = u.handshake_traffic_hash
  BY MoveSub DEF Kept, Held, Secrets
<1>5. CASE /\ t.hand_state \in {"SW_SRVR_HELLO", "SW_CHANGE"} /\ SSL_IS_TLS13(t) /\ ~Pending(t)
           /\ u.enc_write = ServerKey13(t, "HANDSHAKE")
           /\ u.enc_read = ClientKey13(u, "HANDSHAKE")
           /\ u.server_finished_hash = t.server_finished_hash
  <2>1. u.enc_write.epoch = "HANDSHAKE" /\ u.enc_read.epoch = "HANDSHAKE"
    BY <1>5 DEF ServerKey13, ClientKey13
  <2>2. ~Certain(t)
    BY <1>5 DEF Certain, OwnSent, PeerSeen, SSL_IS_TLS13
  <2>3. t.version = "TLS1_3"
    BY <1>5 DEF SSL_IS_TLS13
  <2> QED BY <1>0, <1>3, <1>5, <2>1, <2>2, <2>3 DEF KeyedOK, KeyPlaces, KeysKnown, Alive
<1>6. CASE /\ t.hand_state = "SW_CHANGE" /\ ~SSL_IS_TLS13(t)
           /\ u.enc_write = tls1_key(t, "SERVER") /\ u.enc_read = t.enc_read /\ Secrets(t, u)
  <2>1. u.master_key = t.master_key /\ Secret(u) = Secret(t)
    BY <1>3, <1>6 DEF Secrets, Secret, SSL_IS_TLS13
  <2>2. tls1_key(u, "SERVER") = tls1_key(t, "SERVER") /\ tls1_key(u, "CLIENT") = tls1_key(t, "CLIENT")
    <3>1. Random(u) = Random(t)
      <4>1. u.transcript = t.transcript
        BY <1>3
      <4> QED BY ONLY <4>1, Zenon DEF Random
    <3> QED BY <2>1, <3>1 DEF tls1_key
  <2>3. KeysKnown(u)
    BY <1>0, <1>3, <1>6, <2>2 DEF KeysKnown, Alive, Side, PeerSide, SSL_IS_TLS13, Secrets
  <2>4. ~Keyless(u) /\ u.version # "TLS1_3"
    BY <1>3, <1>6 DEF Keyless, SSL_IS_TLS13
  <2> QED BY <2>1, <2>3, <2>4 DEF KeyedOK, KeyPlaces
<1>7. CASE /\ t.hand_state = "SW_FINISHED" /\ SSL_IS_TLS13(t)
           /\ u.enc_write = ServerKey13(t, "APPLICATION") /\ u.enc_read = t.enc_read
           /\ u.server_finished_hash = t.transcript
  <2>1. t.version = "TLS1_3"
    BY <1>7 DEF SSL_IS_TLS13
  <2>2. ~PeerSeen(t) /\ ~PeerSeen(u)
    BY <1>3, <1>7, <2>1 DEF PeerSeen
  <2>3. u.enc_read.epoch # "APPLICATION"
    BY <1>0, <1>7, <2>1, <2>2 DEF Alive
  <2>4. u.enc_write = AppKey(u, Side(u))
    BY <1>3, <1>7 DEF AppKey, Side, ServerKey13
  <2>5. UpToFinished(u.server_finished_hash, u.transcript)
    BY <1>0, <1>3, <1>7, <2>1 DEF Alive, Spots
  <2>6. Secret(u) = Secret(t)
    <3>1. a = tls13_change_write(t, "APPLICATION")
      BY <1>7 DEF server_post_work
    <3>2. a.handshake_traffic_hash = t.handshake_traffic_hash
      BY <3>1, ChangeWriteKept DEF Saves
    <3> QED BY <1>3, <1>4, <2>1, <3>2 DEF Secret, SSL_IS_TLS13
  <2> QED BY <1>3, <2>1, <2>3, <2>4, <2>5, <2>6 DEF KeyedOK, KeyPlaces, KeysKnown
<1>8. CASE Held(t, u)
  <2>1. SameKeys(t, u)
    BY <1>8 DEF Held, Secrets, SameKeys
  <2> QED BY <1>0, <1>3, <2>1, SameKeyed
<1> QED BY <1>5, <1>6, <1>7, <1>8, ServerWorkKept

LEMMA ClientKeyed ==
  ASSUME NEW t \in SSL, Wire(t), ~t.server, t.state = "WRITING", t.sub = "POST_WORK",
         t.hand_state \in WriteStates \cup Silent,
         NEW a \in SSL, a = client_post_work(t), NEW u, u = ToSub(a, "TRANSITION")
  PROVE  KeyedOK(t, u)
<1>0. Always(t) /\ Alive(t)
  BY DEF Wire
<1>1. Rest(t, u)
  BY RestWork
<1>2. /\ Worked(t, u) /\ u.enc_read = t.enc_read
      /\ u.handshake_traffic_hash = t.handshake_traffic_hash
      /\ u.server_finished_hash = t.server_finished_hash
      /\ \/ t.hand_state = "CW_KEY_EXCH" /\ u.enc_write = t.enc_write
         \/ /\ t.hand_state = "CW_CHANGE" /\ ~SSL_IS_TLS13(t)
            /\ u.enc_write = tls1_key(t, "CLIENT") /\ u.master_key = t.master_key
         \/ /\ t.hand_state = "CW_FINISHED" /\ SSL_IS_TLS13(t)
            /\ u.enc_write = ClientKey13(t, "APPLICATION") /\ u.master_key = t.master_key
         \/ u.enc_write = t.enc_write /\ u.master_key = t.master_key
  BY ClientWorkKept
<1>10. Agreed(t, u) /\ PlaceOK(t, u) /\ (Keyless(u) <=> Keyless(t))
  BY <1>1, <1>2, WorkedPlaces, Zenon
<1>3. /\ Agreed(t, u) /\ PlaceOK(t, u) /\ (Keyless(u) <=> Keyless(t)) /\ u.transcript = t.transcript
      /\ ~u.server /\ u.version = t.version /\ u.hand_state = t.hand_state
  BY <1>2, <1>10 DEF Worked, Agreed
<1>4. CASE t.hand_state = "CW_KEY_EXCH" /\ u.enc_write = t.enc_write
  <2>1. ~Certain(t)
    BY <1>4 DEF Certain, OwnSent, PeerSeen
  <2>2. Keyless(t)
    BY <1>4 DEF Keyless
  <2>3. u.version = "TLS1_2" => u.enc_read = PlainKey /\ u.enc_write = PlainKey
    BY <1>0, <1>2, <1>3, <1>4, <2>2 DEF Alive
  <2>4. KeysKnown(u)
    BY <1>0, <1>2, <1>3, <1>4, <2>3 DEF Alive, KeysKnown, AppKey, Side, PeerSide
  <2> QED BY <1>3, <2>1, <2>3, <2>4 DEF KeyedOK, KeyPlaces
<1>5. CASE /\ t.hand_state = "CW_CHANGE" /\ ~SSL_IS_TLS13(t)
           /\ u.enc_write = tls1_key(t, "CLIENT") /\ u.master_key = t.master_key
  <2>1. Secret(u) = Secret(t)
    BY <1>3, <1>5 DEF Secret, SSL_IS_TLS13
  <2>2. tls1_key(u, "SERVER") = tls1_key(t, "SERVER") /\ tls1_key(u, "CLIENT") = tls1_key(t, "CLIENT")
    <3>1. Random(u) = Random(t)
      BY <1>3, Zenon DEF Random
    <3> QED BY <1>5, <3>1 DEF tls1_key
  <2>3. KeysKnown(u)
    BY <1>0, <1>2, <1>3, <1>5, <2>2 DEF KeysKnown, Alive, Side, PeerSide, SSL_IS_TLS13
  <2>4. ~Keyless(u)
    BY <1>3, <1>5 DEF Keyless
  <2> QED BY <1>3, <2>1, <2>3, <2>4 DEF KeyedOK, KeyPlaces
<1>6. CASE /\ t.hand_state = "CW_FINISHED" /\ SSL_IS_TLS13(t)
           /\ u.enc_write = ClientKey13(t, "APPLICATION") /\ u.master_key = t.master_key
  <2>1. t.version = "TLS1_3"
    BY <1>6 DEF SSL_IS_TLS13
  <2>2. u.enc_write = AppKey(u, Side(u))
    BY <1>2, <1>3, <1>6 DEF AppKey, Side, ClientKey13
  <2>3. Secret(u) = Secret(t)
    BY <1>2, <1>3, <1>6 DEF Secret, SSL_IS_TLS13
  <2>4. u.enc_read.epoch = "APPLICATION" => u.enc_read = AppKey(u, PeerSide(u))
    BY <1>0, <1>2, <1>3, <2>1 DEF Alive, KeysKnown, AppKey, PeerSide
  <2> QED BY <1>0, <1>2, <1>3, <2>1, <2>2, <2>3, <2>4 DEF KeyedOK, KeyPlaces, KeysKnown, Alive
<1>7. CASE u.enc_write = t.enc_write /\ u.master_key = t.master_key
  <2>1. SameKeys(t, u)
    BY <1>2, <1>7 DEF SameKeys
  <2> QED BY <1>0, <1>3, <2>1, SameKeyed
<1> QED BY <1>2, <1>4, <1>5, <1>6, <1>7

LEMMA PostWorkWire ==
  ASSUME NEW t \in SSL, Wire(t), t.state = "WRITING", t.sub = "POST_WORK",
         t.hand_state \in WriteStates \cup Silent,
         NEW a \in SSL, a = IF t.server THEN server_post_work(t) ELSE client_post_work(t),
         NEW u \in SSL, u = ToSub(a, "TRANSITION")
  PROVE  Wire(u) /\ Steady(t, u)
<1>1. KeyedOK(t, u) /\ Worked(t, u) /\ Rest(t, u)
  BY ServerKeyed, ClientKeyed, ServerWorkKept, ClientWorkKept, RestWork, SSLParts
<1>2. /\ Agreed(t, u) /\ PlaceOK(t, u) /\ CertPlaces(u) /\ InHand(u) /\ Held2(t, u)
  BY <1>1, WorkedPlaces
<1> QED BY <1>1, <1>2, Moved DEF Worked, KeyedOK

-----------------------------------------------------------------------------
(* tls_get_message_body *)

\* A message that is not hashed as it is read.
Passed(t) ==
  Skips(t) \/ (t.init_msg.mt = "SERVER_HELLO" /\ "HRR" \in t.init_msg.flags)

LEMMA BodyTold ==
  ASSUME NEW t \in SSL, NEW b, b = tls_get_message_body(t)
  PROVE  /\ b \in SSL /\ Agreed(t, b) /\ SameKeys(t, b) /\ SameCerts(t, b) /\ Place(t, b)
         /\ b.init_msg = t.init_msg /\ b.bbio = t.bbio
         /\ t.init_msg.mt = "FINISHED" => b.peer_mac = final_finish_mac(t, PeerSide(t))
         /\ b.transcript = IF Passed(t) THEN t.transcript
                           ELSE Append(t.transcript, Elem(t.init_msg.mt, t.init_msg.flags))
<1> DEFINE mac == final_finish_mac(t, PeerSide(t))
           a == IF t.init_msg.mt = "FINISHED"
                THEN [t EXCEPT !.peer_mac = mac, !.peer_finish_md = TRUE] ELSE t
           e == Elem(t.init_msg.mt, t.init_msg.flags)
           q == Append(t.transcript, e)
<1>1. b \in SSL
  BY GetBodyType
<1>2. a.transcript = t.transcript /\ (SSL_IS_TLS13(a) <=> SSL_IS_TLS13(t))
  BY DEF SSL, SSL_IS_TLS13
<1>3. b = IF Passed(t) THEN a ELSE [a EXCEPT !.transcript = q]
  <2>1. b = IF Passed(t) THEN a ELSE [a EXCEPT !.transcript = Append(a.transcript, e)]
    BY DEF tls_get_message_body, ssl3_finish_mac, Passed, Skips
  <2> QED BY <1>2, <2>1
<1> HIDE DEF mac, q
<1>4. CASE Passed(t)
  <2>1. CASE t.init_msg.mt = "FINISHED"
    <3>1. b = [t EXCEPT !.peer_mac = mac, !.peer_finish_md = TRUE]
      BY <1>3, <1>4, <2>1
    <3>2. /\ Agreed(t, b) /\ SameKeys(t, b) /\ SameCerts(t, b) /\ Place(t, b)
          /\ b.init_msg = t.init_msg /\ b.bbio = t.bbio
      BY <3>1 DEF SSL, Agreed, SameKeys, SameCerts, Place
    <3>3. b.peer_mac = mac /\ b.transcript = t.transcript
      BY <3>1 DEF SSL
    <3> QED BY <1>1, <1>4, <3>2, <3>3 DEF mac
  <2>2. CASE t.init_msg.mt # "FINISHED"
    <3>1. b = t
      BY <1>3, <1>4, <2>2
    <3> QED BY <1>1, <1>4, <2>2, <3>1 DEF Agreed, SameKeys, SameCerts, Place
  <2> QED BY <2>1, <2>2
<1>5. CASE ~Passed(t)
  <2>1. CASE t.init_msg.mt = "FINISHED"
    <3>1. b = [t EXCEPT !.peer_mac = mac, !.peer_finish_md = TRUE, !.transcript = q]
      <4>1. b = [[t EXCEPT !.peer_mac = mac, !.peer_finish_md = TRUE] EXCEPT !.transcript = q]
        BY <1>3, <1>5, <2>1
      <4> QED BY <4>1 DEF SSL
    <3>2. /\ Agreed(t, b) /\ SameKeys(t, b) /\ SameCerts(t, b) /\ Place(t, b)
          /\ b.init_msg = t.init_msg /\ b.bbio = t.bbio
      BY <3>1 DEF SSL, Agreed, SameKeys, SameCerts, Place
    <3>3. b.peer_mac = mac /\ b.transcript = q
      BY <3>1 DEF SSL
    <3> QED BY <1>1, <1>5, <3>2, <3>3 DEF mac, q
  <2>2. CASE t.init_msg.mt # "FINISHED"
    <3>1. b = [t EXCEPT !.transcript = q]
      BY <1>3, <1>5, <2>2
    <3>2. /\ Agreed(t, b) /\ SameKeys(t, b) /\ SameCerts(t, b) /\ Place(t, b)
          /\ b.init_msg = t.init_msg /\ b.bbio = t.bbio
      BY <3>1 DEF SSL, Agreed, SameKeys, SameCerts, Place
    <3>3. b.transcript = q
      BY <3>1 DEF SSL
    <3> QED BY <1>1, <1>5, <2>2, <3>2, <3>3 DEF q
  <2> QED BY <2>1, <2>2
<1> QED BY <1>4, <1>5

\* What is in hand when a message is read, and where the endpoint is then.
LEMMA Receiving ==
  ASSUME NEW t \in SSL, Live(t), Sided(t), InHand(t), t.state = "READING", t.sub = "BODY"
  PROVE  LET h == t.hand_state
             mt == t.init_msg.mt
         IN  /\ h \in ReadStates /\ mt = MessageOf(h) /\ t.init_msg.flags \in FlagsOf(mt)
             /\ h \in IF t.server THEN ServerStates ELSE ClientStates
             /\ mt = "CLIENT_HELLO" <=> h = "SR_CLNT_HELLO"
             /\ mt = "SERVER_HELLO" <=> h = "CR_SRVR_HELLO"
             /\ mt = "CLIENT_HELLO" => t.server
             /\ mt = "SERVER_HELLO" => ~t.server /\ t.version = "ANY"
             /\ mt = "CERTIFICATE" =>
                  \/ ~t.server /\ h = "CR_CERT" /\ Unopened(t)
                  \/ t.server /\ h = "SR_CERT" /\ Opened(t.transcript)
             /\ mt = "FINISHED" <=> h = IF t.server THEN "SR_FINISHED" ELSE "CR_FINISHED"
             /\ mt = "FINISHED" => ~PeerSeen(t) /\ ~Passed(t) /\ t.version # "ANY"
             /\ mt = "SERVER_DONE" => h = "CR_SRVR_DONE" /\ ~t.server
             /\ t.server /\ mt = "FINISHED" => Answered(t) /\ Heard(t)
             /\ OwnSent(t) /\ PeerSeen(t) => Passed(t)
             /\ Certain(t) => h \notin {"SR_CLNT_HELLO", "CR_SRVR_HELLO"}
<1> DEFINE h == t.hand_state
           mt == t.init_msg.mt
<1>1. h \in ReadStates /\ mt = MessageOf(h) /\ t.init_msg.flags \in FlagsOf(mt)
  BY DEF InHand, Live, Flow
<1>2. /\ t.version \in {"ANY", "TLS1_2", "TLS1_3"} /\ t.hit \in BOOLEAN /\ t.server \in BOOLEAN
      /\ t.hello_retry_request \in {"NONE", "PENDING", "COMPLETE"}
  BY DEF SSL, Versions
<1>3. h \in IF t.server THEN ServerStates ELSE ClientStates
  BY <1>1 DEF Sided, ReadStates
<1>4. /\ mt = "CLIENT_HELLO" => h = "SR_CLNT_HELLO"
      /\ mt = "SERVER_HELLO" => h = "CR_SRVR_HELLO"
      /\ mt = "CERTIFICATE" => h \in {"CR_CERT", "SR_CERT"}
      /\ mt = "FINISHED" => h \in {"CR_FINISHED", "SR_FINISHED"}
      /\ mt = "SERVER_DONE" => h = "CR_SRVR_DONE"
  <2>1. mt = "CLIENT_HELLO" => h = "SR_CLNT_HELLO"
    BY <1>1 DEF MessageOf, ReadStates
  <2>2. mt = "SERVER_HELLO" => h = "CR_SRVR_HELLO"
    BY <1>1 DEF MessageOf, ReadStates
  <2>3. mt = "CERTIFICATE" => h \in {"CR_CERT", "SR_CERT"}
    BY <1>1 DEF MessageOf, ReadStates
  <2>4. mt = "FINISHED" => h \in {"CR_FINISHED", "SR_FINISHED"}
    BY <1>1 DEF MessageOf, ReadStates
  <2>5. mt = "SERVER_DONE" => h = "CR_SRVR_DONE"
    BY <1>1 DEF MessageOf, ReadStates
  <2> QED BY <2>1, <2>2, <2>3, <2>4, <2>5
<1>5. /\ h = "SR_CLNT_HELLO" => mt = "CLIENT_HELLO"
      /\ h = "CR_SRVR_HELLO" => mt = "SERVER_HELLO"
      /\ h \in {"CR_FINISHED", "SR_FINISHED"} => mt = "FINISHED"
      /\ h = "CR_SESSION_TICKET" => mt = "NEWSESSION_TICKET"
  <2>1. h = "SR_CLNT_HELLO" => mt = "CLIENT_HELLO"
    BY <1>1 DEF MessageOf
  <2>2. h = "CR_SRVR_HELLO" => mt = "SERVER_HELLO"
    BY <1>1 DEF MessageOf
  <2>3. h = "CR_FINISHED" \/ h = "SR_FINISHED" => mt = "FINISHED"
    BY <1>1 DEF MessageOf
  <2>4. h = "CR_SESSION_TICKET" => mt = "NEWSESSION_TICKET"
    BY <1>1 DEF MessageOf
  <2> QED BY <2>1, <2>2, <2>3, <2>4
<1>6. /\ t.server => h \notin {"CR_SRVR_HELLO", "CR_CERT", "CR_FINISHED", "CR_SRVR_DONE", "CR_SESSION_TICKET"}
      /\ ~t.server => h \notin {"SR_CLNT_HELLO", "SR_CERT", "SR_FINISHED"}
  BY <1>2, <1>3 DEF ServerStates, ClientStates
<1>7. ~t.server /\ h = "CR_SRVR_HELLO" => t.version = "ANY"
  BY <1>2 DEF Live, Client
<1>8. h = "CR_CERT" => Unopened(t)
  BY DEF Unopened
<1>9. t.server /\ h = "SR_CERT" => Opened(t.transcript)
  BY DEF Live, Server
<1>10. h \in {"CR_FINISHED", "SR_FINISHED"} => ~PeerSeen(t) /\ t.version # "ANY"
  BY <1>2, <1>6 DEF PeerSeen, Live, Early
<1>11. mt = "FINISHED" => ~Passed(t)
  BY DEF Passed, Skips
<1>12. t.server /\ h = "SR_FINISHED" => Answered(t) /\ Heard(t)
  BY <1>2, <1>10 DEF Answered, Heard, Live, Server12, Server13, Pending
<1>13. OwnSent(t) /\ PeerSeen(t) => Passed(t)
  <2>1. OwnSent(t) /\ PeerSeen(t) => h = "CR_SESSION_TICKET" /\ t.version = "TLS1_3"
    BY <1>1, <1>2 DEF OwnSent, PeerSeen, ReadStates
  <2> QED BY <1>5, <2>1 DEF Passed, Skips, SSL_IS_TLS13
<1>14. Certain(t) => h \notin {"SR_CLNT_HELLO", "CR_SRVR_HELLO"}
  BY DEF Certain, OwnSent, PeerSeen
<1>15. mt = "FINISHED" <=> h = IF t.server THEN "SR_FINISHED" ELSE "CR_FINISHED"
  BY <1>2, <1>4, <1>5, <1>6
<1> QED BY <1>1, <1>3, <1>4, <1>5, <1>6, <1>7, <1>8, <1>9, <1>10, <1>11, <1>12, <1>13, <1>14, <1>15

\* Parts of LEMMA Appended where the hellos are not yet acted on.
LEMMA ChainsGrow ==
  ASSUME NEW t \in SSL, OwnChains(t), NEW u, u.server = t.server, u.opt = t.opt, NEW e \in Hashed,
         u.transcript = Append(t.transcript, e), e.mt # "CERTIFICATE"
  PROVE  OwnChains(u)
<1> DEFINE tr == t.transcript
           n == Len(tr) + 1
<1>1. /\ \A i \in DOMAIN tr : i \in DOMAIN u.transcript /\ u.transcript[i] = tr[i]
      /\ u.transcript[n] = e
      /\ \A i \in DOMAIN u.transcript : i = n \/ i \in DOMAIN tr
  BY Added, SSLParts
<1>2. \A j \in DOMAIN tr : After(u.transcript, j) <=> After(tr, j)
  BY Grown, SSLParts
<1> HIDE DEF n
<1> QED BY <1>1, <1>2 DEF OwnChains

LEMMA OffersGrow ==
  ASSUME NEW t \in SSL, NEW u, u.opt = t.opt, NEW e \in Hashed,
         u.transcript = Append(t.transcript, e), ~IsCH(e),
         \A i \in DOMAIN t.transcript : IsCH(t.transcript[i]) => Offer(t, t.transcript[i].flags)
  PROVE  \A i \in DOMAIN u.transcript : IsCH(u.transcript[i]) => Offer(u, u.transcript[i].flags)
<1> DEFINE tr == t.transcript
           n == Len(tr) + 1
<1>1. /\ \A i \in DOMAIN tr : i \in DOMAIN u.transcript /\ u.transcript[i] = tr[i]
      /\ u.transcript[n] = e
      /\ \A i \in DOMAIN u.transcript : i = n \/ i \in DOMAIN tr
  BY Added, SSLParts
<1> HIDE DEF n
<1>2. \A f : Offer(t, f) => Offer(u, f)
  BY DEF Offer
<1> QED BY <1>1, <1>2

\* What the transcript is after reading.
LEMMA ReadHash ==
  ASSUME NEW t \in SSL, Live(t), Wire(t), t.state = "READING", t.sub = "BODY",
         NEW u, Agreed(t, u),
         u.transcript = IF Passed(t) THEN t.transcript
                        ELSE Append(t.transcript, Elem(t.init_msg.mt, t.init_msg.flags))
  PROVE  /\ OwnChains(u) /\ (u.server => HelloFirst(u.transcript))
         /\ ~u.server => \A i \in DOMAIN u.transcript :
                           IsCH(u.transcript[i]) => Offer(u, u.transcript[i].flags)
         /\ Starts(t.transcript, u.transcript) /\ u.transcript \in Hash
         /\ NoneSent(t.transcript) => NoneSent(u.transcript)
         /\ ChainFirst(t.transcript) => ChainFirst(u.transcript)
         /\ t.init_msg.mt = "CERTIFICATE" /\ t.init_msg.flags = {} /\ t.server => NoneSent(u.transcript)
         /\ t.init_msg.mt = "CERTIFICATE" /\ t.init_msg.flags = {"chain", "trusted"} /\ ~t.server =>
              ChainFirst(u.transcript)
         /\ t.hand_state \notin {"SR_CLNT_HELLO", "CR_SRVR_HELLO"} =>
              /\ Honours(u)
              /\ Obeys(t) => Obeys(u)
              /\ HasCH(u.transcript) <=> HasCH(t.transcript)
              /\ HasSH(u.transcript) <=> HasSH(t.transcript)
         /\ Opened(u.transcript) <=> Opened(t.transcript) \/ t.init_msg.mt \in {"SERVER_DONE", "FINISHED"}
<1> DEFINE h == t.hand_state
           mt == t.init_msg.mt
           f == t.init_msg.flags
           tr == t.transcript
           e == Elem(mt, f)
<1>1. Always(t) /\ Alive(t) /\ Sided(t) /\ InHand(t) /\ Honours(t)
  BY DEF Wire, Always, Alive
<1>2. /\ mt = "CLIENT_HELLO" <=> h = "SR_CLNT_HELLO"
      /\ mt = "SERVER_HELLO" <=> h = "CR_SRVR_HELLO"
      /\ mt = "CLIENT_HELLO" => t.server
      /\ mt = "SERVER_HELLO" => ~t.server /\ t.version = "ANY"
      /\ mt = "CERTIFICATE" =>
           \/ ~t.server /\ h = "CR_CERT" /\ Unopened(t)
           \/ t.server /\ h = "SR_CERT" /\ Opened(tr)
      /\ mt = "FINISHED" <=> h = IF t.server THEN "SR_FINISHED" ELSE "CR_FINISHED"
      /\ mt = "FINISHED" => ~PeerSeen(t) /\ ~Passed(t)
      /\ mt = "SERVER_DONE" => h = "CR_SRVR_DONE" /\ ~t.server
      /\ t.server /\ mt = "FINISHED" => Answered(t) /\ Heard(t)
  BY <1>1, Receiving
<1>3. u.server = t.server /\ u.opt = t.opt /\ tr \in Hash
  BY SSLParts DEF Agreed
<1>4. e \in Hashed /\ e.mt = mt /\ e.flags = f /\ e = Elem(mt, f)
  BY SSLParts, RecordParts, ElemHashed DEF Elem
<1>5. /\ Unopened(t) => ~Opened(tr)
      /\ t.server /\ Answered(t) => HasSH(tr)
      /\ t.server /\ Heard(t) => HasCH(tr)
  BY <1>1 DEF Alive
<1> HIDE DEF e
<1>6. CASE Passed(t)
  <2>1. u.transcript = tr
    BY <1>6
  <2>2. mt \notin {"CERTIFICATE", "SERVER_DONE", "FINISHED"}
    BY <1>6 DEF Passed, Skips
  <2>3. Honours(u) /\ OwnChains(u) /\ (Obeys(t) => Obeys(u))
    BY <1>1, <2>1, SameChoices DEF Always
  <2>4. ~u.server => \A i \in DOMAIN u.transcript :
                       IsCH(u.transcript[i]) => Offer(u, u.transcript[i].flags)
    <3>1. \A x : Offer(t, x) => Offer(u, x)
      BY <2>1, SameChoices
    <3> QED BY <1>1, <1>3, <2>1, <3>1 DEF Always
  <2>5. Starts(t.transcript, u.transcript) /\ (u.server => HelloFirst(u.transcript))
    BY <1>1, <1>3, <2>1, StartsRefl DEF Always
  <2> QED BY <1>3, <2>1, <2>2, <2>3, <2>4, <2>5
<1>7. CASE ~Passed(t)
  <2>1. u.transcript = Append(tr, e)
    BY <1>4, <1>7
  <2>2. CASE mt = "SERVER_HELLO"
    \* The choices that Answers speaks of are made when it is processed.
    <3>1. ~t.server /\ e.mt = "SERVER_HELLO" /\ ~Opener(e) /\ ~IsCH(e)
      BY <1>2, <1>4, <2>2 DEF Opener, IsCH
    <3>2. OwnChains(u)
      BY <1>1, <1>3, <1>4, <2>1, <3>1, ChainsGrow DEF Always
    <3>3. ~u.server => \A i \in DOMAIN u.transcript :
                         IsCH(u.transcript[i]) => Offer(u, u.transcript[i].flags)
      BY <1>1, <1>3, <1>4, <2>1, <3>1, OffersGrow DEF Always
    <3>4. /\ Opened(u.transcript) <=> Opened(tr) \/ Opener(e)
          /\ NoneSent(tr) => NoneSent(u.transcript)
          /\ ChainFirst(tr) => ChainFirst(u.transcript)
          /\ Starts(tr, u.transcript) /\ u.transcript \in Hash
      BY <1>3, <1>4, <2>1, Grown, Added
    <3> QED BY <1>2, <1>3, <2>2, <3>1, <3>2, <3>3, <3>4
  <2>3. CASE mt # "SERVER_HELLO"
    <3>1. ~IsSH(e) /\ (IsCH(e) => t.server)
      BY <1>2, <1>4, <2>3 DEF IsSH, IsCH
    <3>2. ~(e.mt = "CERTIFICATE" /\ (t.server <=> ~Opened(tr)))
      BY <1>2, <1>4, <1>5
    <3>3. t.server /\ Opener(e) => HasSH(tr) /\ HasCH(tr)
      BY <1>2, <1>4, <1>5 DEF Opener
    <3>4. /\ Honours(u) /\ OwnChains(u) /\ (u.server => HelloFirst(u.transcript))
          /\ ~u.server => \A i \in DOMAIN u.transcript :
                            IsCH(u.transcript[i]) => Offer(u, u.transcript[i].flags)
          /\ Obeys(t) /\ ~IsCH(e) => Obeys(u)
      BY <1>1, <1>4, <2>1, <3>1, <3>2, <3>3, Appended
    <3>5. /\ HasCH(u.transcript) <=> HasCH(tr) \/ IsCH(e)
          /\ HasSH(u.transcript) <=> HasSH(tr) \/ IsSH(e)
          /\ Opened(u.transcript) <=> Opened(tr) \/ Opener(e)
          /\ NoneSent(tr) => NoneSent(u.transcript)
          /\ ChainFirst(tr) => ChainFirst(u.transcript)
          /\ Starts(tr, u.transcript) /\ u.transcript \in Hash
      BY <1>3, <1>4, <2>1, Grown, Added
    <3>6. mt = "CERTIFICATE" /\ f = {} /\ t.server => NoneSent(u.transcript)
      <4>1. mt = "CERTIFICATE" /\ t.server => Opened(tr)
        BY <1>2
      <4>2. mt = "CERTIFICATE" /\ f = {} => e = Elem("CERTIFICATE", {})
        BY <1>4
      <4>3. Opened(tr) /\ e = Elem("CERTIFICATE", {}) => NoneSent(u.transcript)
        BY <1>3, <1>4, <2>1, Grown
      <4> QED BY <4>1, <4>2, <4>3
    <3>7. mt = "CERTIFICATE" /\ f = {"chain", "trusted"} /\ ~t.server => ChainFirst(u.transcript)
      <4>1. mt = "CERTIFICATE" /\ ~t.server => ~Opened(tr)
        BY <1>2, <1>5
      <4>2. mt = "CERTIFICATE" /\ f = {"chain", "trusted"} => e = TrustedChain
        BY <1>4 DEF TrustedChain
      <4>3. ~Opened(tr) /\ e = TrustedChain => ChainFirst(u.transcript)
        BY <1>3, <1>4, <2>1, Grown
      <4> QED BY <4>1, <4>2, <4>3
    <3>8. IsCH(e) => h = "SR_CLNT_HELLO"
      BY <1>2, <1>4 DEF IsCH
    <3>9. Opener(e) <=> mt \in {"SERVER_DONE", "FINISHED"}
      BY <1>4 DEF Opener
    <3> QED BY <3>1, <3>4, <3>5, <3>6, <3>7, <3>8, <3>9
  <2> QED BY <2>2, <2>3
<1> QED BY <1>6, <1>7

\* A message that has been hashed but not processed: a failure in it keeps what
\* the endpoint has promised.
LEMMA BodyAlways ==
  ASSUME NEW t \in SSL, Live(t), Wire(t), t.state = "READING", t.sub = "BODY",
         NEW b, b = tls_get_message_body(t)
  PROVE  Always(b) /\ Steady(t, b)
<1>1. /\ b \in SSL /\ Agreed(t, b) /\ SameKeys(t, b) /\ SameCerts(t, b)
      /\ b.hand_state = t.hand_state /\ b.state = t.state /\ b.sub = t.sub
      /\ b.init_msg = t.init_msg /\ b.bbio = t.bbio
      /\ b.transcript = IF Passed(t) THEN t.transcript
                        ELSE Append(t.transcript, Elem(t.init_msg.mt, t.init_msg.flags))
  BY BodyTold DEF Place
<1>2. Always(t) /\ Alive(t) /\ Sided(t) /\ InHand(t)
  BY DEF Wire, Always, Alive
<1>3. /\ OwnChains(b) /\ (b.server => HelloFirst(b.transcript))
      /\ ~b.server => \A i \in DOMAIN b.transcript :
                        IsCH(b.transcript[i]) => Offer(b, b.transcript[i].flags)
      /\ Starts(t.transcript, b.transcript)
      /\ t.hand_state \notin {"SR_CLNT_HELLO", "CR_SRVR_HELLO"} => Honours(b) /\ (Obeys(t) => Obeys(b))
  BY <1>1, ReadHash
<1>4. /\ OwnSent(t) /\ PeerSeen(t) => Passed(t)
      /\ Certain(t) => t.hand_state \notin {"SR_CLNT_HELLO", "CR_SRVR_HELLO"}
      /\ t.hand_state \in ReadStates
  BY <1>2, Receiving
<1>5. /\ Sided(b) /\ (OwnSent(b) <=> OwnSent(t)) /\ (PeerSeen(b) <=> PeerSeen(t))
      /\ Certain(b) <=> Certain(t)
  BY <1>1, <1>2, SamePlaces
<1>6. Secret(b) = Secret(t)
  BY <1>1, SameSecret
<1>7. Steady(t, b)
  <2>1. Fixed(t, b)
    BY <1>1, <1>6 DEF Agreed, Fixed
  <2>2. OwnSent(t) /\ PeerSeen(t) => b.transcript = t.transcript
    BY <1>1, <1>4
  <2> QED BY <1>1, <1>3, <1>5, <2>1, <2>2 DEF Steady, Agreed
<1>8. Buffered(b)
  BY <1>1, <1>2, <1>7, HeldSame, BufferedKept DEF Held2, Always
<1>9. Certain(b) => Honours(b) /\ (b.server => Obeys(b))
  <2>1. Certain(b) => (t.server => Obeys(t))
    BY <1>2, <1>5 DEF Always
  <2> QED BY <1>1, <1>3, <1>4, <1>5, <2>1 DEF Agreed
<1>10. b.hand_state # "OK"
  BY <1>1, <1>4 DEF ReadStates
<1>11. b.hit => b.opt.session = b.version
  BY <1>1, <1>2 DEF Always, Agreed
<1>12. Always(b)
  BY <1>3, <1>5, <1>8, <1>9, <1>10, <1>11 DEF Always
<1> QED BY <1>7, <1>12

-----------------------------------------------------------------------------
(* process_message: messages other than hellos and Finished *)

\* Where the endpoint is behind a message.
Behind(t, u) ==
  /\ u.hand_state = t.hand_state
  /\ \/ u.state = "READING" /\ u.sub \in {"HEADER", "POST_PROCESS"}
     \/ u.state = "WRITING" /\ u.sub = "TRANSITION"

Hellos2 == {"SR_CLNT_HELLO", "CR_SRVR_HELLO"}
Ends2 == {"CR_FINISHED", "SR_FINISHED"}

LEMMA BehindPlaces ==
  ASSUME NEW t \in SSL, Live(t), Sided(t), InHand(t), Spots(t), t.state = "READING", t.sub = "BODY",
         t.hand_state \notin Hellos2 \cup Ends2,
         NEW u, Agreed(t, u), Behind(t, u)
  PROVE  /\ Sided(u) /\ Spots(u) /\ InHand(u)
         /\ OwnSent(u) <=> OwnSent(t)
         /\ PeerSeen(u) <=> PeerSeen(t)
         /\ Certain(u) <=> Certain(t)
         /\ Unopened(u) => Unopened(t) /\ t.init_msg.mt \notin {"SERVER_DONE", "FINISHED"}
         /\ Answered(u) <=> Answered(t)
         /\ Deaf(u) => Deaf(t)
         /\ Heard(u) => Heard(t)
         /\ Decided(u) <=> Decided(t)
         /\ Keyless(u) <=> Keyless(t)
         /\ u.hand_state # "OK"
         /\ ~(u.hand_state = "SR_CLNT_HELLO" /\ u.sub = "POST_PROCESS")
<1>1. /\ t.hand_state \in ReadStates /\ t.init_msg.mt = MessageOf(t.hand_state)
      /\ t.init_msg.mt = "SERVER_DONE" => t.hand_state = "CR_SRVR_DONE"
      /\ t.init_msg.mt = "FINISHED" <=> t.hand_state = IF t.server THEN "SR_FINISHED" ELSE "CR_FINISHED"
  BY Receiving
<1>2. /\ u.server = t.server /\ u.version = t.version /\ u.hit = t.hit
      /\ u.hello_retry_request = t.hello_retry_request /\ u.hand_state = t.hand_state
      /\ u.sub \in {"HEADER", "POST_PROCESS", "TRANSITION"}
  BY DEF Agreed, Behind
<1>3. Sided(u) /\ Spots(u) /\ InHand(u)
  BY <1>1, <1>2 DEF Sided, Spots, InHand, ReadStates
<1>4. (OwnSent(u) <=> OwnSent(t)) /\ (PeerSeen(u) <=> PeerSeen(t))
  BY <1>1, <1>2 DEF OwnSent, PeerSeen, ReadStates, Pending, Ends2
<1>5. Unopened(u) => Unopened(t) /\ t.init_msg.mt # "SERVER_DONE"
  <2>1. Unopened(u) => Unopened(t)
    BY <1>1, <1>2 DEF Unopened, ReadStates, Pending
  <2>2. t.hand_state = "CR_SRVR_DONE" => t.version # "ANY"
    BY DEF Live, Early, Spots
  <2>3. Unopened(u) => t.hand_state # "CR_SRVR_DONE"
    BY <1>2, <2>2 DEF Unopened
  <2> QED BY <1>1, <2>1, <2>3
<1>6. t.init_msg.mt # "FINISHED"
  BY <1>1 DEF Ends2
<1>7. (Answered(u) <=> Answered(t)) /\ (Deaf(u) => Deaf(t)) /\ (Heard(u) => Heard(t))
      /\ (Decided(u) <=> Decided(t)) /\ (Keyless(u) <=> Keyless(t))
  BY <1>1, <1>2 DEF Answered, Deaf, Heard, Decided, Keyless, ReadStates, Pending, Hellos2
<1>8. u.hand_state # "OK" /\ ~(u.hand_state = "SR_CLNT_HELLO" /\ u.sub = "POST_PROCESS")
  BY <1>1, <1>2 DEF ReadStates, Hellos2
<1> QED BY <1>3, <1>4, <1>5, <1>6, <1>7, <1>8 DEF Certain

LEMMA ReadOn ==
  ASSUME NEW t \in SSL, Live(t), Wire(t), t.state = "READING", t.sub = "BODY",
         t.hand_state \notin Hellos2 \cup Ends2,
         NEW u \in SSL, Agreed(t, u), Behind(t, u),
         u.transcript = IF Passed(t) THEN t.transcript
                        ELSE Append(t.transcript, Elem(t.init_msg.mt, t.init_msg.flags)),
         KeyPlaces(u), CertPlaces(u), Held2(t, u), Certain(t) => Secret(u) = Secret(t)
  PROVE  Wire(u) /\ Steady(t, u)
<1>1. Always(t) /\ Alive(t) /\ Sided(t) /\ InHand(t) /\ Spots(t) /\ Honours(t)
  BY DEF Wire, Always, Alive
<1>2. /\ Sided(u) /\ Spots(u) /\ InHand(u)
      /\ OwnSent(u) <=> OwnSent(t)
      /\ PeerSeen(u) <=> PeerSeen(t)
      /\ Certain(u) <=> Certain(t)
      /\ Unopened(u) => Unopened(t) /\ t.init_msg.mt \notin {"SERVER_DONE", "FINISHED"}
      /\ Answered(u) <=> Answered(t)
      /\ Deaf(u) => Deaf(t)
      /\ Heard(u) => Heard(t)
      /\ Decided(u) <=> Decided(t)
      /\ u.hand_state # "OK"
      /\ ~(u.hand_state = "SR_CLNT_HELLO" /\ u.sub = "POST_PROCESS")
  BY <1>1, BehindPlaces
<1>3. /\ OwnChains(u) /\ (u.server => HelloFirst(u.transcript))
      /\ ~u.server => \A i \in DOMAIN u.transcript :
                        IsCH(u.transcript[i]) => Offer(u, u.transcript[i].flags)
      /\ Starts(t.transcript, u.transcript)
      /\ Honours(u) /\ (Obeys(t) => Obeys(u))
      /\ HasCH(u.transcript) <=> HasCH(t.transcript)
      /\ HasSH(u.transcript) <=> HasSH(t.transcript)
      /\ Opened(u.transcript) <=> Opened(t.transcript) \/ t.init_msg.mt \in {"SERVER_DONE", "FINISHED"}
  BY ReadHash DEF Hellos2
<1>4. u.server = t.server /\ u.opt = t.opt /\ u.version = t.version /\ u.hit = t.hit
  BY DEF Agreed
<1>5. OwnSent(t) /\ PeerSeen(t) => Passed(t)
  BY <1>1, Receiving
<1>6. Steady(t, u)
  <2>1. Certain(t) => Fixed(t, u)
    BY DEF Agreed, Fixed
  <2>2. OwnSent(t) /\ PeerSeen(t) => u.transcript = t.transcript
    BY <1>5
  <2> QED BY <1>2, <1>3, <1>4, <2>1, <2>2 DEF Steady
<1>7. Buffered(u)
  BY <1>1, <1>6, BufferedKept DEF Held2, Always
<1>8. Always(u)
  <2>1. u.hit => u.opt.session = u.version
    BY <1>1, <1>4 DEF Always
  <2>2. Certain(u) => Honours(u) /\ (u.server => Obeys(u))
    BY <1>1, <1>2, <1>3, <1>4 DEF Always
  <2> QED BY <1>2, <1>3, <1>7, <2>1, <2>2 DEF Always
<1>9. Alive(u)
  <2>1. ~u.server /\ u.version = "ANY" => ~HasSH(u.transcript)
    BY <1>1, <1>3, <1>4 DEF Alive
  <2>2. u.server /\ ~Answered(u) => ~HasSH(u.transcript)
    <3>1. t.hand_state # "OK"
      BY <1>2 DEF Behind
    <3> QED BY <1>1, <1>2, <1>3, <1>4, <3>1 DEF Alive
  <2>3. u.server /\ Answered(u) => HasSH(u.transcript)
    BY <1>1, <1>2, <1>3, <1>4 DEF Alive
  <2>4. u.server /\ Deaf(u) => ~HasCH(u.transcript)
    BY <1>1, <1>2, <1>3, <1>4 DEF Alive
  <2>5. u.server /\ Heard(u) => HasCH(u.transcript)
    BY <1>1, <1>2, <1>3, <1>4 DEF Alive
  <2>6. u.server /\ Decided(u) => Obeys(u)
    BY <1>1, <1>2, <1>3, <1>4 DEF Alive
  <2>7. Unopened(u) => ~Opened(u.transcript)
    BY <1>1, <1>2, <1>3 DEF Alive
  <2>8. u.server /\ u.version = "TLS1_2" => u.new_cipher = u.opt.cipher
    BY <1>1 DEF Alive, Agreed
  <2> QED BY <1>2, <1>3, <2>1, <2>2, <2>3, <2>4, <2>5, <2>6, <2>7, <2>8
          DEF Alive, KeyPlaces, CertPlaces
<1> QED BY <1>6, <1>8, <1>9 DEF Wire

\* The keys, and the secret of the Finished messages, where neither changes.
LEMMA ReadKeys ==
  ASSUME NEW t \in SSL, Live(t), Wire(t), t.state = "READING", t.sub = "BODY",
         t.hand_state \notin Hellos2 \cup Ends2,
         NEW u, Agreed(t, u), Behind(t, u), SameKeys(t, u),
         u.transcript = IF Passed(t) THEN t.transcript
                        ELSE Append(t.transcript, Elem(t.init_msg.mt, t.init_msg.flags))
  PROVE  KeyPlaces(u) /\ Secret(u) = Secret(t)
<1> DEFINE mt == t.init_msg.mt
           f == t.init_msg.flags
           e == Elem(mt, f)
<1>1. Always(t) /\ Alive(t) /\ Sided(t) /\ InHand(t) /\ Spots(t)
  BY DEF Wire, Always, Alive
<1>2. (PeerSeen(u) <=> PeerSeen(t)) /\ (Keyless(u) <=> Keyless(t))
  BY <1>1, BehindPlaces
<1>3. f \in FlagsOf(mt) /\ mt \notin {"CLIENT_HELLO", "SERVER_HELLO"}
  BY <1>1, Receiving DEF Hellos2
<1>4. "sentinel" \notin f
  BY <1>3 DEF FlagsOf
<1>5. e \in Hashed /\ e.flags = f
  BY SSLParts, RecordParts, ElemHashed DEF Elem
<1> HIDE DEF e
<1>6. KeysKnown(u)
  <2>1. CASE Passed(t)
    BY <1>1, <2>1, SameKeysKnown DEF Alive
  <2>2. CASE ~Passed(t)
    <3>1. u.transcript = Append(t.transcript, e)
      BY <2>2 DEF e
    <3> QED BY <1>1, <1>4, <1>5, <3>1, KeysGrown DEF Alive
  <2> QED BY <2>1, <2>2
<1>7. u.version = t.version /\ u.server = t.server /\ u.enc_read = t.enc_read /\ u.enc_write = t.enc_write
  BY DEF Agreed, SameKeys
<1>8. /\ u.version = "TLS1_2" /\ Keyless(u) => u.enc_read = PlainKey /\ u.enc_write = PlainKey
      /\ u.server /\ u.version = "TLS1_3" /\ ~PeerSeen(u) => u.enc_read.epoch # "APPLICATION"
  BY <1>1, <1>2, <1>7 DEF Alive
<1> QED BY <1>6, <1>8, SameSecret DEF KeyPlaces

\* Certificates and requests for them.
LEMMA ReadCerts ==
  ASSUME NEW t \in SSL, Live(t), Wire(t), t.state = "READING", t.sub = "BODY",
         t.hand_state \notin Hellos2 \cup Ends2,
         NEW u, Agreed(t, u), Behind(t, u),
         u.transcript = IF Passed(t) THEN t.transcript
                        ELSE Append(t.transcript, Elem(t.init_msg.mt, t.init_msg.flags)),
         u.cert_request = t.cert_request, u.cert_req = t.cert_req \/ u.cert_req = 1,
         IF t.hand_state = "SR_CERT" THEN u.peer \/ NoneSent(u.transcript)
                                     ELSE ~t.server \/ u.peer = t.peer,
         t.hand_state = "CR_CERT" /\ Asks(t) => ChainFirst(u.transcript)
  PROVE  CertPlaces(u)
<1>1. Always(t) /\ Alive(t) /\ Sided(t) /\ InHand(t)
  BY DEF Wire, Always, Alive
<1>2. /\ NoneSent(t.transcript) => NoneSent(u.transcript)
      /\ ChainFirst(t.transcript) => ChainFirst(u.transcript)
  BY ReadHash
<1>3. (Wants(u) <=> Wants(t)) /\ (Asks(u) <=> Asks(t))
  BY DEF Agreed, Wants, Asks, send_certificate_request, VerifyPeer, aNULL, aPSK
<1>4. t.hand_state \in ReadStates
  BY <1>1, Receiving
<1>5. /\ u.server = t.server /\ u.version = t.version /\ u.hit = t.hit /\ u.opt = t.opt
      /\ u.hand_state = t.hand_state /\ u.sub # "BODY"
  BY DEF Agreed, Behind
<1>6. Asked(t) /\ Shown(t) /\ (t.cert_req = 2 => t.opt.cert = "NONE")
  BY <1>1 DEF Alive
<1>7. Asked(u)
  <2> SUFFICES ASSUME Wants(u) PROVE Asked(u)
    BY DEF Asked
  <2>1. t.server /\ Wants(t)
    BY <1>3 DEF Wants
  <2>2. t.hand_state \notin {"SW_SRVR_DONE", "SW_CERT", "SW_CERT_VRFY", "SW_FINISHED", "EARLY_DATA"}
    BY <1>4 DEF ReadStates
  <2>3. CASE t.hand_state = "SR_CERT"
    BY <1>5, <1>6, <2>1, <2>3 DEF Asked
  <2>4. CASE t.hand_state # "SR_CERT"
    BY <1>2, <1>5, <1>6, <2>1, <2>2, <2>4 DEF Asked
  <2> QED BY <2>3, <2>4
<1>8. Shown(u)
  BY <1>2, <1>3, <1>5, <1>6 DEF Shown
<1> QED BY <1>5, <1>6, <1>7, <1>8 DEF CertPlaces

\* Messages that change no key.
Noted(b, u) ==
  /\ Agreed(b, u) /\ SameKeys(b, u) /\ u.cert_request = b.cert_request /\ u.transcript = b.transcript
  /\ Behind(b, u) /\ u.bbio = b.bbio

LEMMA ReadNoted ==
  ASSUME NEW t \in SSL, Live(t), Wire(t), t.state = "READING", t.sub = "BODY",
         t.hand_state \notin Hellos2 \cup Ends2,
         NEW b, b = tls_get_message_body(t),
         NEW u \in SSL, Noted(b, u), u.cert_req = b.cert_req \/ u.cert_req = 1,
         IF t.hand_state = "SR_CERT" THEN u.peer \/ NoneSent(u.transcript)
                                     ELSE ~t.server \/ u.peer = b.peer,
         t.hand_state = "CR_CERT" /\ Asks(t) => ChainFirst(u.transcript)
  PROVE  Wire(u) /\ Steady(t, u)
<1>1. /\ Agreed(t, b) /\ SameKeys(t, b) /\ SameCerts(t, b) /\ Place(t, b) /\ b.bbio = t.bbio
      /\ b.transcript = IF Passed(t) THEN t.transcript
                        ELSE Append(t.transcript, Elem(t.init_msg.mt, t.init_msg.flags))
  BY BodyTold
<1>2. /\ Agreed(t, u) /\ SameKeys(t, u) /\ Behind(t, u) /\ u.cert_request = t.cert_request
      /\ u.bbio = t.bbio /\ u.transcript = b.transcript
      /\ b.peer = t.peer /\ b.cert_req = t.cert_req
  BY <1>1 DEF Noted, Agreed, SameKeys, SameCerts, Behind, Place
<1>3. KeyPlaces(u) /\ Secret(u) = Secret(t)
  BY <1>1, <1>2, ReadKeys
<1>4. CertPlaces(u)
  BY <1>1, <1>2, ReadCerts
<1>5. Held2(t, u)
  BY <1>2, HeldSame
<1> QED BY <1>1, <1>2, <1>3, <1>4, <1>5, ReadOn

\* A failure in a message that has been hashed.
LEMMA BodyFails ==
  ASSUME NEW t \in SSL, Live(t), Wire(t), t.state = "READING", t.sub = "BODY",
         NEW b, b = tls_get_message_body(t),
         NEW a \in SSL, Stays(b, a), a.hand_state = b.hand_state, a.sub = b.sub, a.bbio = b.bbio,
         NEW r \in Reasons, NEW u, u = ossl_statem_fatal(a, r)
  PROVE  u \in SSL /\ Wire(u) /\ Steady(t, u)
<1>1. b \in SSL /\ Always(b) /\ Steady(t, b)
  BY BodyTold, BodyAlways
<1>2. Always(a) /\ Steady(b, a)
  BY <1>1, HeldSame, Failed
<1>3. u \in SSL /\ Wire(u) /\ Steady(a, u)
  BY <1>2, FatalWire
<1>4. /\ u.state = "ERROR" /\ Stays(a, u) /\ u.hand_state = a.hand_state /\ u.sub = a.sub
  BY FatalEffect
<1>5. /\ OwnSent(u) <=> OwnSent(t)
      /\ PeerSeen(u) <=> PeerSeen(t)
  <2>1. Agreed(t, b) /\ b.hand_state = t.hand_state /\ b.sub = t.sub
    BY BodyTold DEF Place
  <2>2. Agreed(t, u) /\ u.hand_state = t.hand_state /\ u.sub = t.sub
    BY <1>4, <2>1 DEF Stays, Agreed
  <2> QED BY <2>2, SamePlaces
<1>6. Stays(b, u)
  BY <1>4 DEF Stays, Agreed, SameKeys, SameCerts
<1>7. Steady(t, u)
  <2>1. Fixed(b, u) /\ u.transcript = b.transcript /\ u.server = b.server /\ u.opt = b.opt
    BY <1>6, SameSecret DEF Stays, Agreed, Fixed
  <2> QED BY <1>1, <1>5, <2>1 DEF Steady, Fixed
<1> QED BY <1>3, <1>7

LEMMA MovedOn ==
  ASSUME NEW a \in SSL, a.state = "READING",
         NEW u, u \in {ContinueReading(a), ContinueProcessing(a), FinishedReading(a)}
  PROVE  /\ u \in SSL /\ Noted(a, u) /\ SameCerts(a, u) /\ SameKeys(a, u) /\ Agreed(a, u)
         /\ u.transcript = a.transcript /\ u.bbio = a.bbio /\ u.hand_state = a.hand_state
         /\ \/ u.state = "READING" /\ u.sub \in {"HEADER", "POST_PROCESS"}
            \/ u.state = "WRITING" /\ u.sub = "TRANSITION"
<1>1. u \in SSL
  BY ContinueType
<1>2. /\ SameCerts(a, u) /\ SameKeys(a, u) /\ Agreed(a, u)
      /\ u.transcript = a.transcript /\ u.bbio = a.bbio /\ u.hand_state = a.hand_state
      /\ \/ u.state = "READING" /\ u.sub \in {"HEADER", "POST_PROCESS"}
         \/ u.state = "WRITING" /\ u.sub = "TRANSITION"
  <2>1. CASE u = ContinueReading(a)
    BY <2>1 DEF ContinueReading, SSL, Agreed, SameKeys, SameCerts
  <2>2. CASE u = ContinueProcessing(a)
    BY <2>2 DEF ContinueProcessing, SSL, Agreed, SameKeys, SameCerts
  <2>3. CASE u = FinishedReading(a)
    BY <2>3 DEF FinishedReading, SSL, Agreed, SameKeys, SameCerts
  <2> QED BY <2>1, <2>2, <2>3
<1> QED BY <1>1, <1>2 DEF Noted, Behind, SameCerts

\* A message after which the endpoint just goes on.
LEMMA ReadMove ==
  ASSUME NEW t \in SSL, Live(t), Wire(t), t.state = "READING", t.sub = "BODY",
         t.hand_state \notin Hellos2 \cup Ends2 \cup {"SR_CERT", "CR_CERT"},
         NEW b, b = tls_get_message_body(t),
         NEW u, u \in {ContinueReading(b), ContinueProcessing(b), FinishedReading(b)}
  PROVE  Wire(u) /\ Steady(t, u)
<1>1. b \in SSL /\ b.state = "READING"
  BY BodyTold DEF Place
<1>2. u \in SSL /\ Noted(b, u) /\ u.cert_req = b.cert_req /\ u.peer = b.peer
  BY <1>1, MovedOn DEF SameCerts
<1> QED BY <1>2, ReadNoted

\* A failure at once.
LEMMA ReadFails ==
  ASSUME NEW t \in SSL, Live(t), Wire(t), t.state = "READING", t.sub = "BODY",
         NEW b, b = tls_get_message_body(t),
         NEW r \in Reasons, NEW u, u = ossl_statem_fatal(b, r)
  PROVE  Wire(u) /\ Steady(t, u)
<1>1. b \in SSL /\ Stays(b, b)
  BY BodyTold DEF Stays, Agreed, SameKeys, SameCerts
<1> QED BY <1>1, BodyFails

LEMMA VerifyWire ==
  ASSUME NEW t \in SSL, Live(t), Wire(t), t.state = "READING", t.sub = "BODY",
         t.hand_state \in {"CR_CERT_VRFY", "SR_CERT_VRFY"},
         NEW b, b = tls_get_message_body(t), NEW m, NEW u, u = tls_process_cert_verify(b, m)
  PROVE  Wire(u) /\ Steady(t, u)
<1>1. u = ossl_statem_fatal(b, "BAD_SIGNATURE") \/ u \in {ContinueReading(b), ContinueProcessing(b)}
  BY DEF tls_process_cert_verify
<1>2. t.hand_state \notin Hellos2 \cup Ends2 \cup {"SR_CERT", "CR_CERT"}
  BY DEF Hellos2, Ends2
<1>3. "BAD_SIGNATURE" \in Reasons
  BY DEF Reasons
<1>4. CASE u = ossl_statem_fatal(b, "BAD_SIGNATURE")
  BY <1>3, <1>4, ReadFails
<1>5. CASE u \in {ContinueReading(b), ContinueProcessing(b)}
  BY <1>2, <1>5, ReadMove
<1> QED BY <1>1, <1>4, <1>5

LEMMA ServerChainWire ==
  ASSUME NEW t \in SSL, Live(t), Wire(t), t.state = "READING", t.sub = "BODY",
         t.hand_state = "CR_CERT",
         NEW b, b = tls_get_message_body(t),
         NEW u, u = tls_process_server_certificate(b, b.init_msg)
  PROVE  Wire(u) /\ Steady(t, u)
<1> DEFINE a == [b EXCEPT !.peer = TRUE]
           f == b.init_msg.flags
<1>1. /\ b \in SSL /\ Agreed(t, b) /\ b.state = "READING" /\ b.init_msg = t.init_msg
      /\ b.hand_state = "CR_CERT"
      /\ b.transcript = IF Passed(t) THEN t.transcript
                        ELSE Append(t.transcript, Elem(t.init_msg.mt, t.init_msg.flags))
  BY BodyTold DEF Place
<1>2. Sided(t) /\ InHand(t)
  BY DEF Wire, Always, Alive
<1>3. ~t.server /\ t.init_msg.mt = "CERTIFICATE" /\ f \in FlagsOf("CERTIFICATE")
  <2>1. /\ t.init_msg.mt = MessageOf("CR_CERT") /\ t.init_msg.flags \in FlagsOf(t.init_msg.mt)
        /\ "CR_CERT" \in IF t.server THEN ServerStates ELSE ClientStates
    BY <1>2, Receiving
  <2>2. ~t.server
    BY <2>1 DEF ServerStates
  <2>3. t.init_msg.mt = "CERTIFICATE"
    BY <2>1 DEF MessageOf
  <2> QED BY <1>1, <2>1, <2>2, <2>3
<1>4. a \in SSL
  BY <1>1, ZenonT(120) DEF SSL
<1>5. /\ Agreed(b, a) /\ SameKeys(b, a) /\ a.cert_request = b.cert_request /\ a.cert_req = b.cert_req
      /\ a.transcript = b.transcript /\ a.bbio = b.bbio /\ a.state = b.state /\ a.hand_state = b.hand_state
  BY <1>1 DEF SSL, Agreed, SameKeys
<1>6. \/ u = ossl_statem_fatal(b, "BAD_EXTENSION")
      \/ u = ossl_statem_fatal(b, "VERIFY_FAILED")
      \/ u = ContinueReading(a) /\ (VerifyPeer(b) => "trusted" \in f)
  BY DEF tls_process_server_certificate
<1>7. CASE u = ossl_statem_fatal(b, "BAD_EXTENSION") \/ u = ossl_statem_fatal(b, "VERIFY_FAILED")
  BY <1>7, ReadFails DEF Reasons
<1>8. CASE u = ContinueReading(a) /\ (VerifyPeer(b) => "trusted" \in f)
  <2> HIDE DEF a, f
  <2>0. a.state = "READING" /\ u = ContinueReading(a)
    BY <1>1, <1>5, <1>8
  <2>9. u \in SSL /\ Noted(a, u) /\ SameCerts(a, u) /\ u.transcript = a.transcript
    BY <1>4, <2>0, MovedOn
  <2>1. /\ u \in SSL /\ Noted(a, u) /\ u.cert_req = a.cert_req /\ u.transcript = a.transcript
    BY <2>9 DEF SameCerts
  <2>2. Noted(b, u) /\ u.cert_req = b.cert_req
    BY <1>5, <2>1 DEF Noted, Agreed, SameKeys, Behind
  <2>3. Asks(t) => ChainFirst(u.transcript)
    <3>1. Asks(t) => f = {"chain", "trusted"}
      BY <1>1, <1>3, <1>8, Bodies DEF Asks, Agreed, VerifyPeer, f
    <3>2. t.init_msg.flags = {"chain", "trusted"} => ChainFirst(b.transcript)
      BY <1>1, <1>3, ReadHash
    <3> QED BY <1>1, <1>5, <2>1, <3>1, <3>2 DEF f
  <2>4. t.hand_state \notin Hellos2 \cup Ends2 /\ t.hand_state # "SR_CERT"
    BY DEF Hellos2, Ends2
  <2> QED BY <1>3, <2>1, <2>2, <2>3, <2>4, ReadNoted
<1> QED BY <1>6, <1>7, <1>8

LEMMA CertificateWire ==
  ASSUME NEW t \in SSL, Live(t), Wire(t), t.state = "READING", t.sub = "BODY",
         t.hand_state = "SR_CERT",
         NEW b, b = tls_get_message_body(t),
         NEW u, u = tls_process_client_certificate(b, b.init_msg)
  PROVE  Wire(u) /\ Steady(t, u)
<1> DEFINE a == [b EXCEPT !.plain_alerts = FALSE]
           f == b.init_msg.flags
           chain == "chain" \in f
           n == IF SSL_IS_TLS13(b) THEN 0 ELSE a.sent_tickets
           c == [a EXCEPT !.peer = chain, !.sent_tickets = n]
<1>1. /\ b \in SSL /\ Agreed(t, b) /\ b.state = "READING" /\ b.init_msg = t.init_msg
      /\ b.hand_state = "SR_CERT"
      /\ b.transcript = IF Passed(t) THEN t.transcript
                        ELSE Append(t.transcript, Elem(t.init_msg.mt, t.init_msg.flags))
  BY BodyTold DEF Place
<1>2. Sided(t) /\ InHand(t)
  BY DEF Wire, Always, Alive
<1>3. t.server /\ t.init_msg.mt = "CERTIFICATE" /\ f \in FlagsOf("CERTIFICATE")
  <2>1. /\ t.init_msg.mt = MessageOf("SR_CERT") /\ t.init_msg.flags \in FlagsOf(t.init_msg.mt)
        /\ "SR_CERT" \in IF t.server THEN ServerStates ELSE ClientStates
    BY <1>2, Receiving
  <2>2. t.server
    BY <2>1 DEF ClientStates
  <2>3. t.init_msg.mt = "CERTIFICATE"
    BY <2>1 DEF MessageOf
  <2> QED BY <1>1, <2>1, <2>2, <2>3
<1>4. a \in SSL
  BY <1>1, ZenonT(120) DEF SSL
<1>5. Stays(b, a) /\ a.hand_state = b.hand_state /\ a.sub = b.sub /\ a.bbio = b.bbio /\ a.state = b.state
  BY <1>1 DEF SSL, Stays, Agreed, SameKeys, SameCerts
<1>6. \/ u = ossl_statem_fatal(a, "NO_PEER_CERTIFICATE")
      \/ u = ossl_statem_fatal(a, "VERIFY_FAILED")
      \/ u = ContinueReading(c)
  BY DEF tls_process_client_certificate
<1> HIDE DEF a
<1>7. CASE u = ossl_statem_fatal(a, "NO_PEER_CERTIFICATE") \/ u = ossl_statem_fatal(a, "VERIFY_FAILED")
  BY <1>4, <1>5, <1>7, BodyFails DEF Reasons
<1>8. CASE u = ContinueReading(c)
  <2> DEFINE p == chain
  <2>1. n \in Nat /\ p \in BOOLEAN
    BY <1>4 DEF SSL
  <2> HIDE DEF n, p
  <2>2. c \in SSL
    <3>1. ASSUME NEW x \in SSL, NEW y \in BOOLEAN, NEW z \in Nat
          PROVE  [x EXCEPT !.peer = y, !.sent_tickets = z] \in SSL
      BY ZenonT(120) DEF SSL
    <3>2. c = [a EXCEPT !.peer = p, !.sent_tickets = n]
      BY DEF p, n
    <3>3. [a EXCEPT !.peer = p, !.sent_tickets = n] \in SSL
      BY ONLY <1>4, <2>1, <3>1, Zenon
    <3> HIDE DEF c
    <3> QED BY ONLY <3>2, <3>3, Zenon
  <2>3. /\ Agreed(a, c) /\ SameKeys(a, c) /\ c.cert_request = a.cert_request /\ c.cert_req = a.cert_req
        /\ c.transcript = a.transcript /\ c.bbio = a.bbio /\ c.state = a.state
        /\ c.hand_state = a.hand_state
    BY <1>4 DEF SSL, Agreed, SameKeys
  <2>9. c.peer <=> chain
    BY <1>4 DEF SSL
  <2> HIDE DEF c
  <2>4. /\ u \in SSL /\ Noted(c, u) /\ SameCerts(c, u) /\ u.transcript = c.transcript
    BY <1>1, <1>5, <1>8, <2>2, <2>3, MovedOn
  <2>5. Noted(b, u) /\ u.cert_req = b.cert_req /\ u.transcript = b.transcript
    BY <1>5, <2>3, <2>4 DEF Noted, Stays, Agreed, SameKeys, SameCerts, Behind
  <2>6. u.peer \/ NoneSent(u.transcript)
    <3>1. ~chain => f = {}
      BY <1>3 DEF FlagsOf
    <3>2. t.init_msg.flags = {} => NoneSent(b.transcript)
      BY <1>1, <1>3, ReadHash
    <3>3. u.peer = c.peer
      BY <2>4 DEF SameCerts
    <3> QED BY <1>1, <2>5, <2>9, <3>1, <3>2, <3>3
  <2>7. t.hand_state \notin Hellos2 \cup Ends2
    BY DEF Hellos2, Ends2
  <2> QED BY <2>4, <2>5, <2>6, <2>7, ReadNoted
<1> QED BY <1>6, <1>7, <1>8

\* Messages that only tell the endpoint to go on, and a request for a certificate.
LEMMA GoesOnWire ==
  ASSUME NEW t \in SSL, Live(t), Wire(t), t.state = "READING", t.sub = "BODY", ~t.server,
         t.hand_state \in {"CR_CERT_STATUS", "CR_ENCRYPTED_EXTENSIONS", "CR_KEY_EXCH",
                           "CR_SRVR_DONE", "CR_SESSION_TICKET"},
         NEW b, b = tls_get_message_body(t), b.hand_state = t.hand_state,
         NEW m, NEW u, u = client_process_message(b, m)
  PROVE  Wire(u) /\ Steady(t, u)
<1>1. \/ u = ossl_statem_fatal(b, "BAD_SIGNATURE")
      \/ u = ContinueReading(b)
      \/ u = FinishedReading(b)
  <2>1. CASE t.hand_state \in {"CR_CERT_STATUS", "CR_ENCRYPTED_EXTENSIONS"}
    BY <2>1 DEF client_process_message
  <2>2. CASE t.hand_state = "CR_KEY_EXCH"
    BY <2>2 DEF client_process_message, tls_process_key_exchange
  <2>3. CASE t.hand_state = "CR_SRVR_DONE"
    BY <2>3 DEF client_process_message
  <2>4. CASE t.hand_state = "CR_SESSION_TICKET"
    BY <2>4 DEF client_process_message, tls_process_new_session_ticket
  <2> QED BY <2>1, <2>2, <2>3, <2>4
<1>2. t.hand_state \notin Hellos2 \cup Ends2 \cup {"SR_CERT", "CR_CERT"}
  BY DEF Hellos2, Ends2
<1>3. "BAD_SIGNATURE" \in Reasons
  BY DEF Reasons
<1>4. CASE u = ossl_statem_fatal(b, "BAD_SIGNATURE")
  BY <1>3, <1>4, ReadFails
<1>5. CASE u = ContinueReading(b)
  BY <1>2, <1>5, ReadMove
<1>6. CASE u = FinishedReading(b)
  BY <1>2, <1>6, ReadMove
<1> QED BY <1>1, <1>4, <1>5, <1>6

LEMMA RequestWire ==
  ASSUME NEW t \in SSL, Live(t), Wire(t), t.state = "READING", t.sub = "BODY",
         t.hand_state = "CR_CERT_REQ",
         NEW b, b = tls_get_message_body(t),
         NEW u, u = tls_process_certificate_request(b)
  PROVE  Wire(u) /\ Steady(t, u)
<1> DEFINE a == [b EXCEPT !.cert_req = 1]
<1>1. b \in SSL /\ b.state = "READING"
  BY BodyTold DEF Place
<1>2. a \in SSL
  <2>1. ASSUME NEW x \in 0..2 PROVE [b EXCEPT !.cert_req = x] \in SSL
    BY <1>1, <2>1, ZenonT(120) DEF SSL
  <2>2. 1 \in 0..2
    OBVIOUS
  <2> QED BY <2>1, <2>2
<1>3. /\ Agreed(b, a) /\ SameKeys(b, a) /\ a.cert_request = b.cert_request /\ a.cert_req = 1
      /\ a.peer = b.peer /\ a.transcript = b.transcript /\ a.bbio = b.bbio /\ a.state = b.state
      /\ a.hand_state = b.hand_state
  BY <1>1 DEF SSL, Agreed, SameKeys
<1>4. u = ContinueReading(a) \/ u = ContinueProcessing(a)
  BY DEF tls_process_certificate_request
<1> HIDE DEF a
<1>5. a.state = "READING" /\ u \in {ContinueReading(a), ContinueProcessing(a), FinishedReading(a)}
  BY <1>1, <1>3, <1>4
<1>6. u \in SSL /\ Noted(a, u) /\ SameCerts(a, u)
  BY <1>2, <1>5, MovedOn
<1>7. Noted(b, u) /\ u.cert_req = 1 /\ u.peer = b.peer
  BY <1>3, <1>6 DEF Noted, Agreed, SameKeys, SameCerts, Behind
<1>8. t.hand_state \notin Hellos2 \cup Ends2 /\ t.hand_state \notin {"SR_CERT", "CR_CERT"}
  BY DEF Hellos2, Ends2
<1> QED BY <1>6, <1>7, <1>8, ReadNoted

\* The ClientKeyExchange makes the master secret; there are no keys of it yet.
LEMMA KeyExchangeWire ==
  ASSUME NEW t \in SSL, Live(t), Wire(t), t.state = "READING", t.sub = "BODY",
         t.hand_state = "SR_KEY_EXCH",
         NEW b, b = tls_get_message_body(t),
         NEW u, u = tls_process_client_key_exchange(b)
  PROVE  Wire(u) /\ Steady(t, u)
<1> DEFINE k == IF b.extms THEN b.transcript ELSE <<Elem("PREMASTER", {}), Random(b)>>
           a == [b EXCEPT !.master_key = k]
           w == ContinueProcessing(b)
<1>1. /\ b \in SSL /\ Agreed(t, b) /\ SameKeys(t, b) /\ SameCerts(t, b) /\ Place(t, b)
      /\ b.bbio = t.bbio /\ b.state = "READING"
      /\ b.transcript = IF Passed(t) THEN t.transcript
                        ELSE Append(t.transcript, Elem(t.init_msg.mt, t.init_msg.flags))
  BY BodyTold DEF Place
<1>2. a = ssl_generate_master_secret(b) /\ a \in SSL
  <2>1. a = ssl_generate_master_secret(b)
    BY DEF ssl_generate_master_secret
  <2> HIDE DEF a
  <2> QED BY <1>1, <2>1, MasterSecretType
<1>3. u = ContinueProcessing(a)
  BY <1>2 DEF tls_process_client_key_exchange
<1> HIDE DEF k
<1>4. /\ Agreed(b, a) /\ SameCerts(b, a) /\ a.transcript = b.transcript /\ a.bbio = b.bbio
      /\ a.state = b.state /\ a.hand_state = b.hand_state
      /\ a.enc_read = b.enc_read /\ a.enc_write = b.enc_write
      /\ a.handshake_traffic_hash = b.handshake_traffic_hash
      /\ a.server_finished_hash = b.server_finished_hash
  BY <1>1 DEF SSL, Agreed, SameCerts
<1> HIDE DEF a
<1>5. u \in SSL /\ Noted(a, u) /\ SameCerts(a, u)
  <2>1. a.state = "READING"
    BY <1>1, <1>4
  <2> QED BY <1>2, <1>3, <2>1, MovedOn
<1>6. /\ Agreed(t, u) /\ Behind(t, u) /\ u.bbio = t.bbio /\ u.transcript = b.transcript
      /\ u.cert_request = t.cert_request /\ u.cert_req = t.cert_req /\ u.peer = t.peer
      /\ u.enc_read = t.enc_read /\ u.enc_write = t.enc_write
      /\ u.server_finished_hash = t.server_finished_hash
      /\ u.handshake_traffic_hash = t.handshake_traffic_hash
  BY <1>1, <1>4, <1>5 DEF Noted, Agreed, SameKeys, SameCerts, Behind, Place
<1>7. t.hand_state \notin Hellos2 \cup Ends2 /\ t.hand_state \notin {"SR_CERT", "CR_CERT"}
  BY DEF Hellos2, Ends2
<1>8. CertPlaces(u)
  BY <1>1, <1>6, <1>7, ReadCerts
<1>9. KeyPlaces(u)
  <2>1. w \in SSL /\ Noted(b, w)
    BY <1>1, MovedOn
  <2>2. Agreed(t, w) /\ SameKeys(t, w) /\ Behind(t, w) /\ w.transcript = b.transcript
    BY <1>1, <2>1 DEF Noted, Agreed, SameKeys, Behind, Place
  <2> HIDE DEF w
  <2>3. KeyPlaces(w)
    BY <1>1, <1>7, <2>2, ReadKeys
  <2>4. /\ Agreed(w, u) /\ u.hand_state = w.hand_state /\ u.transcript = w.transcript
        /\ u.enc_read = w.enc_read /\ u.enc_write = w.enc_write
        /\ u.server_finished_hash = w.server_finished_hash
        /\ u.state = w.state /\ u.sub \in {"HEADER", "POST_PROCESS", "TRANSITION"}
        /\ w.sub \in {"HEADER", "POST_PROCESS", "TRANSITION"} /\ u.hand_state = "SR_KEY_EXCH"
    <3>1. u.state = w.state
      BY <1>1, <1>3, <1>4, <1>2 DEF ContinueProcessing, SSL, w
    <3> QED BY <1>6, <2>2, <3>1 DEF Agreed, SameKeys, Behind
  <2>5. Keyless(u) /\ Keyless(w)
    BY <2>4 DEF Keyless
  <2>6. PeerSeen(u) <=> PeerSeen(w)
    BY <2>4 DEF PeerSeen, Agreed
  <2>7. KeysKnown(u)
    <3>1. u.version = "TLS1_2" => u.enc_read = PlainKey /\ u.enc_write = PlainKey
      BY <2>3, <2>4, <2>5 DEF KeyPlaces, Agreed
    <3>2. /\ u.version = "TLS1_3" =>
               /\ u.enc_read.epoch = "APPLICATION" => u.enc_read = AppKey(u, PeerSide(u))
               /\ u.enc_write.epoch = "APPLICATION" => u.enc_write = AppKey(u, Side(u))
          /\ u.server_finished_hash # <<>> => UpToFinished(u.server_finished_hash, u.transcript)
      BY <2>3, <2>4, SameChoices DEF KeyPlaces, KeysKnown, Agreed, AppKey
    <3> QED BY <3>1, <3>2 DEF KeysKnown
  <2> QED BY <2>3, <2>4, <2>5, <2>6, <2>7 DEF KeyPlaces, Agreed
<1>10. ~Certain(t)
  BY DEF Certain, OwnSent, PeerSeen
<1> QED BY <1>1, <1>5, <1>6, <1>7, <1>8, <1>9, <1>10, HeldSame, ReadOn

\* A change_cipher_spec of TLSv1.2: the key is the one of the master secret.
LEMMA ReadChangeWire ==
  ASSUME NEW t \in SSL, Live(t), Wire(t), t.state = "READING", t.sub = "BODY",
         t.hand_state \in {"CR_CHANGE", "SR_CHANGE"},
         NEW b, b = tls_get_message_body(t),
         NEW u, u = tls_process_change_cipher_spec(b)
  PROVE  Wire(u) /\ Steady(t, u)
<1> DEFINE a == [b EXCEPT !.change_cipher_spec = TRUE]
           k == tls1_key(b, PeerSide(b))
           c == InstallRead(a, k)
<1>1. /\ b \in SSL /\ Agreed(t, b) /\ SameKeys(t, b) /\ SameCerts(t, b) /\ Place(t, b)
      /\ b.bbio = t.bbio /\ b.state = "READING"
      /\ b.transcript = IF Passed(t) THEN t.transcript
                        ELSE Append(t.transcript, Elem(t.init_msg.mt, t.init_msg.flags))
  BY BodyTold DEF Place
<1>2. a \in SSL
  BY <1>1, ZenonT(120) DEF SSL
<1>3. Stays(b, a) /\ a.hand_state = b.hand_state /\ a.sub = b.sub /\ a.bbio = b.bbio /\ a.state = b.state
  BY <1>1 DEF SSL, Stays, Agreed, SameKeys, SameCerts
<1>4. /\ Always(t) /\ Alive(t) /\ Sided(t) /\ InHand(t) /\ Spots(t)
  BY DEF Wire, Always, Alive
<1>5. Passed(t)
  <2>1. t.init_msg.mt = MessageOf(t.hand_state)
    BY <1>4, Receiving
  <2>2. MessageOf(t.hand_state) = "CHANGE_CIPHER_SPEC"
    BY DEF MessageOf
  <2> QED BY <2>1, <2>2 DEF Passed, Skips
<1> HIDE DEF a
<1>6. CASE u = ossl_statem_fatal(b, "CCS_RECEIVED_EARLY")
  BY <1>6, ReadFails DEF Reasons
<1>7. CASE u = ossl_statem_fatal(a, "INTERNAL_ERROR")
  BY <1>2, <1>3, <1>7, BodyFails DEF Reasons
<1>8. CASE u = ContinueReading(c)
  <2>1. k \in Keys /\ c \in SSL
    BY <1>1, <1>2, InstallType, KeyType, SideType DEF Epochs
  <2>2. k.epoch = "TLS1_2"
    BY DEF tls1_key
  <2>3. k = tls1_key(t, PeerSide(t))
    <3>1. b.transcript = t.transcript
      BY <1>1, <1>5
    <3>2. Random(b) = Random(t)
      BY ONLY <3>1, Zenon DEF Random
    <3>3. PeerSide(b) = PeerSide(t)
      BY <1>1 DEF Agreed, PeerSide
    <3> QED BY <1>1, <3>2, <3>3 DEF tls1_key, SameKeys
  <2> HIDE DEF k
  <2>4. /\ Agreed(a, c) /\ SameCerts(a, c) /\ c.transcript = a.transcript /\ c.bbio = a.bbio
        /\ c.state = a.state /\ c.hand_state = a.hand_state
        /\ c.enc_read = k /\ c.enc_write = a.enc_write /\ c.master_key = a.master_key
        /\ c.handshake_traffic_hash = a.handshake_traffic_hash
        /\ c.server_finished_hash = a.server_finished_hash
    BY <1>2 DEF InstallRead, SSL, Agreed, SameCerts
  <2> HIDE DEF c
  <2>5. u \in SSL /\ Noted(c, u) /\ SameCerts(c, u) /\ SameKeys(c, u)
    <3>1. c.state = "READING"
      BY <1>1, <1>3, <2>4
    <3> QED BY <1>8, <2>1, <3>1, MovedOn DEF Noted
  <2>6. /\ Agreed(t, u) /\ Behind(t, u) /\ u.bbio = t.bbio /\ u.transcript = t.transcript
        /\ u.cert_request = t.cert_request /\ u.cert_req = t.cert_req /\ u.peer = t.peer
        /\ u.enc_read = k /\ u.enc_write = t.enc_write /\ u.master_key = t.master_key
        /\ u.server_finished_hash = t.server_finished_hash
        /\ u.handshake_traffic_hash = t.handshake_traffic_hash
    <3>1. /\ Agreed(t, c) /\ SameCerts(t, c) /\ c.bbio = t.bbio /\ c.transcript = t.transcript
          /\ c.hand_state = t.hand_state
      BY <1>1, <1>3, <1>5, <2>4 DEF Stays, Agreed, SameCerts, Place
    <3>2. /\ c.enc_read = k /\ c.enc_write = t.enc_write /\ c.master_key = t.master_key
          /\ c.server_finished_hash = t.server_finished_hash
          /\ c.handshake_traffic_hash = t.handshake_traffic_hash
      BY <1>1, <1>3, <2>4 DEF Stays, SameKeys
    <3>3. /\ Agreed(t, u) /\ Behind(t, u) /\ u.bbio = t.bbio /\ u.transcript = t.transcript
          /\ SameCerts(t, u)
      BY <2>5, <3>1 DEF Noted, Agreed, SameCerts, Behind
    <3> QED BY <2>5, <3>2, <3>3 DEF SameKeys, SameCerts
  <2>7. t.hand_state \notin Hellos2 \cup Ends2 /\ t.hand_state \notin {"SR_CERT", "CR_CERT"}
    BY DEF Hellos2, Ends2
  <2>8. CertPlaces(u)
    BY <1>5, <2>6, <2>7, ReadCerts
  <2>9. KeysKnown(u)
    <3>1. \A w : tls1_key(u, w) = tls1_key(t, w)
      <4>1. u.transcript = t.transcript
        BY <2>6
      <4>2. Random(u) = Random(t)
        BY ONLY <4>1, Zenon DEF Random
      <4> QED BY <2>6, <4>2 DEF tls1_key
    <3>2. /\ Side(u) = Side(t) /\ PeerSide(u) = PeerSide(t) /\ u.version = t.version
      BY <2>6, SameChoices DEF Agreed
    <3>3. KeysKnown(t)
      BY <1>4 DEF Alive
    <3>4. u.version = "TLS1_2" =>
            /\ u.enc_read \in {PlainKey, tls1_key(u, PeerSide(u))}
            /\ u.enc_write \in {PlainKey, tls1_key(u, Side(u))}
      BY <2>3, <2>6, <3>1, <3>2, <3>3 DEF KeysKnown
    <3>5. /\ u.version = "TLS1_3" =>
               /\ u.enc_read.epoch = "APPLICATION" => u.enc_read = AppKey(u, PeerSide(u))
               /\ u.enc_write.epoch = "APPLICATION" => u.enc_write = AppKey(u, Side(u))
          /\ u.server_finished_hash # <<>> => UpToFinished(u.server_finished_hash, u.transcript)
      BY <2>2, <2>6, <3>2, <3>3 DEF KeysKnown, AppKey
    <3> QED BY <3>4, <3>5 DEF KeysKnown
  <2>10. KeyPlaces(u)
    <3>1. ~Keyless(u)
      BY <2>6 DEF Keyless, Behind
    <3> QED BY <2>2, <2>6, <2>9, <3>1 DEF KeyPlaces
  <2>11. Secret(u) = Secret(t)
    BY <2>6 DEF Secret, Agreed, SSL_IS_TLS13
  <2> QED BY <1>5, <2>5, <2>6, <2>7, <2>8, <2>10, <2>11, HeldSame, ReadOn
<1> QED BY <1>6, <1>7, <1>8 DEF tls_process_change_cipher_spec, a

-----------------------------------------------------------------------------
(* process_message: the Finished *)

\* The Finished is right, and the endpoint reads under its next key.
Confirmed(b, u) ==
  /\ Agreed(b, u) /\ SameCerts(b, u) /\ u.transcript = b.transcript /\ u.bbio = b.bbio
  /\ u.master_key = b.master_key /\ u.handshake_traffic_hash = b.handshake_traffic_hash
  /\ u.enc_write = b.enc_write
  /\ u.hand_state = b.hand_state /\ u.state = "WRITING" /\ u.sub = "TRANSITION"
  /\ ~SSL_IS_TLS13(b) =>
       u.enc_read = b.enc_read /\ u.server_finished_hash = b.server_finished_hash
  /\ SSL_IS_TLS13(b) /\ b.server =>
       /\ u.enc_read = ClientKey13(b, "APPLICATION")
       /\ u.server_finished_hash = b.server_finished_hash
  /\ SSL_IS_TLS13(b) /\ ~b.server =>
       /\ u.enc_read = ServerKey13(b, "APPLICATION")
       /\ u.server_finished_hash = b.transcript

LEMMA ProcessFinishedEnds ==
  ASSUME NEW t \in SSL, NEW m, NEW u, u = tls_process_finished(t, m)
  PROVE  \/ u \in SSL /\ Confirmed(t, u) /\ m.mac = t.peer_mac
         \/ \E a \in SSL : /\ Stays(t, a) /\ a.hand_state = t.hand_state /\ a.sub = t.sub
                           /\ a.bbio = t.bbio
                           /\ \E r \in Reasons : u = ossl_statem_fatal(a, r)
<1> DEFINE p == t.plain_alerts /\ ~t.server
           x == t.cleanuphand \/ t.server
           a == [t EXCEPT !.plain_alerts = p, !.cleanuphand = x]
           b == [a EXCEPT !.change_cipher_spec = FALSE]
           c == IF SSL_IS_TLS13(t) THEN tls13_change_read(b, "APPLICATION") ELSE b
<1>1. \/ u = ossl_statem_fatal(a, "GOT_A_FIN_BEFORE_A_CCS")
      \/ u = ossl_statem_fatal(b, "DIGEST_CHECK_FAILED")
      \/ m.mac = t.peer_mac /\ u = FinishedReading(c)
  BY DEF tls_process_finished
<1>2. p \in BOOLEAN /\ x \in BOOLEAN
  BY DEF SSL
<1> HIDE DEF p, x
<1>3. a \in SSL
  <2>1. ASSUME NEW y \in BOOLEAN, NEW z \in BOOLEAN
        PROVE  [t EXCEPT !.plain_alerts = y, !.cleanuphand = z] \in SSL
    BY ZenonT(120) DEF SSL
  <2> QED BY ONLY <1>2, <2>1, Zenon
<1>4. Stays(t, a) /\ a.hand_state = t.hand_state /\ a.sub = t.sub /\ a.bbio = t.bbio
  BY DEF SSL, Stays, Agreed, SameKeys, SameCerts
<1> HIDE DEF a
<1>5. b \in SSL
  BY <1>3, ZenonT(120) DEF SSL
<1>6. Stays(a, b) /\ b.hand_state = a.hand_state /\ b.sub = a.sub /\ b.bbio = a.bbio
  BY <1>3 DEF SSL, Stays, Agreed, SameKeys, SameCerts
<1>7. Stays(t, b) /\ b.hand_state = t.hand_state /\ b.sub = t.sub /\ b.bbio = t.bbio
  BY <1>4, <1>6 DEF Stays, Agreed, SameKeys, SameCerts
<1> HIDE DEF b
<1>8. CASE u = ossl_statem_fatal(a, "GOT_A_FIN_BEFORE_A_CCS")
  <2>1. "GOT_A_FIN_BEFORE_A_CCS" \in Reasons
    BY DEF Reasons
  <2> QED BY <1>3, <1>4, <1>8, <2>1
<1>9. CASE u = ossl_statem_fatal(b, "DIGEST_CHECK_FAILED")
  <2>1. "DIGEST_CHECK_FAILED" \in Reasons
    BY DEF Reasons
  <2> QED BY <1>5, <1>7, <1>9, <2>1
<1>10. CASE m.mac = t.peer_mac /\ u = FinishedReading(c)
  <2>1. c \in SSL
    <3>1. CASE SSL_IS_TLS13(t)
      <4>1. tls13_change_read(b, "APPLICATION") \in SSL
        BY <1>5, ChangeKeyType DEF Epochs
      <4> QED BY <3>1, <4>1
    <3>2. CASE ~SSL_IS_TLS13(t)
      BY <1>5, <3>2
    <3> QED BY <3>1, <3>2
  <2> HIDE DEF c
  <2>2. u \in SSL
    BY <1>10, <2>1, ContinueType
  <2>3. /\ Agreed(c, u) /\ SameKeys(c, u) /\ SameCerts(c, u) /\ u.transcript = c.transcript
        /\ u.bbio = c.bbio /\ u.hand_state = c.hand_state
        /\ u.state = "WRITING" /\ u.sub = "TRANSITION"
    BY <1>10, <2>1 DEF FinishedReading, SSL, Agreed, SameKeys, SameCerts
  <2>4. CASE ~SSL_IS_TLS13(t)
    <3>1. c = b
      BY <2>4 DEF c
    <3> QED BY <1>7, <1>10, <2>2, <2>3, <2>4, <3>1 DEF Confirmed, Stays, Agreed, SameKeys, SameCerts
  <2>5. CASE SSL_IS_TLS13(t)
    <3>1. c = tls13_change_read(b, "APPLICATION")
      BY <2>5 DEF c
    <3>2. /\ Rekeyed(b, c) /\ c.enc_write = b.enc_write
          /\ ~b.server => c.enc_read = ServerKey13(b, "APPLICATION") /\ Saves(b, c, "APPLICATION")
          /\ b.server => c.enc_read = ClientKey13(b, "APPLICATION") /\ Secrets(b, c)
      BY <1>5, <3>1, ChangeReadKept
    <3>3. Rest(b, c)
      BY <1>5, <3>1, RestChange
    <3>4. /\ ServerKey13(b, "APPLICATION") = ServerKey13(t, "APPLICATION")
          /\ ClientKey13(b, "APPLICATION") = ClientKey13(t, "APPLICATION")
      BY <1>7 DEF ServerKey13, ClientKey13, Stays, SameKeys
    <3>5. /\ Agreed(t, c) /\ SameCerts(t, c) /\ c.transcript = t.transcript /\ c.bbio = t.bbio
          /\ c.master_key = t.master_key /\ c.enc_write = t.enc_write
          /\ c.hand_state = t.hand_state
      BY <1>7, <3>2, <3>3 DEF Rekeyed, Chose, Certs, Place, Rest, Stays, Agreed, SameKeys, SameCerts
    <3>6. CASE t.server
      <4>1. b.server
        BY <1>7, <3>6 DEF Stays, Agreed
      <4>2. /\ c.enc_read = ClientKey13(t, "APPLICATION")
            /\ c.server_finished_hash = t.server_finished_hash
            /\ c.handshake_traffic_hash = t.handshake_traffic_hash
        BY <1>7, <3>2, <3>4, <4>1 DEF Secrets, Stays, SameKeys
      <4> QED BY <1>10, <2>2, <2>3, <2>5, <3>5, <3>6, <4>2
              DEF Confirmed, Agreed, SameKeys, SameCerts
    <3>7. CASE ~t.server
      <4>1. ~b.server
        BY <1>7, <3>7 DEF Stays, Agreed
      <4>2. /\ c.enc_read = ServerKey13(t, "APPLICATION")
            /\ c.server_finished_hash = t.transcript
            /\ c.handshake_traffic_hash = t.handshake_traffic_hash
        BY <1>7, <3>2, <3>4, <4>1 DEF Saves, Stays, SameKeys
      <4> QED BY <1>10, <2>2, <2>3, <2>5, <3>5, <3>7, <4>2
              DEF Confirmed, Agreed, SameKeys, SameCerts
    <3> QED BY <3>6, <3>7
  <2> QED BY <2>4, <2>5
<1> QED BY <1>1, <1>8, <1>9, <1>10

\* The keys behind the peer's Finished.
LEMMA EndedKeys ==
  ASSUME NEW t \in SSL, Live(t), Wire(t), t.state = "READING", t.sub = "BODY",
         t.hand_state \in Ends2,
         NEW b, b = tls_get_message_body(t), NEW u, Confirmed(b, u)
  PROVE  KeyPlaces(u) /\ Secret(u) = Secret(t) /\ Agreed(t, u) /\ u.transcript = Append(t.transcript, Fin)
<1>1. /\ b \in SSL /\ Agreed(t, b) /\ SameKeys(t, b) /\ b.hand_state = t.hand_state
      /\ b.transcript = IF Passed(t) THEN t.transcript
                        ELSE Append(t.transcript, Elem(t.init_msg.mt, t.init_msg.flags))
  BY BodyTold DEF Place
<1>2. /\ Always(t) /\ Alive(t) /\ Sided(t) /\ InHand(t) /\ KeysKnown(t)
  BY DEF Wire, Always, Alive
<1>3. t.init_msg.mt = "FINISHED" /\ t.init_msg.flags \in FlagsOf("FINISHED") /\ ~Passed(t)
      /\ ~PeerSeen(t) /\ t.version # "ANY"
  <2>1. /\ t.init_msg.flags \in FlagsOf(t.init_msg.mt)
        /\ t.init_msg.mt = "FINISHED" <=> t.hand_state = IF t.server THEN "SR_FINISHED" ELSE "CR_FINISHED"
        /\ t.init_msg.mt = "FINISHED" => ~PeerSeen(t) /\ ~Passed(t) /\ t.version # "ANY"
    BY <1>2, Receiving
  <2>2. t.hand_state = IF t.server THEN "SR_FINISHED" ELSE "CR_FINISHED"
    BY <1>2 DEF Sided, Ends2, ClientStates, ServerStates
  <2> QED BY <2>1, <2>2
<1>4. b.transcript = Append(t.transcript, Fin)
  <2>1. t.init_msg.flags = {}
    BY <1>3 DEF FlagsOf
  <2> QED BY <1>1, <1>3, <2>1 DEF Fin
<1>5. /\ Agreed(t, u) /\ u.transcript = b.transcript /\ u.hand_state = t.hand_state
      /\ u.master_key = t.master_key /\ u.handshake_traffic_hash = t.handshake_traffic_hash
      /\ u.enc_write = t.enc_write /\ u.sub = "TRANSITION"
  BY <1>1 DEF Confirmed, Agreed, SameKeys
<1>6. Secret(u) = Secret(t)
  BY <1>5 DEF Agreed, Secret, SSL_IS_TLS13
<1>7. t.transcript \in Hash /\ u.transcript = Append(t.transcript, Fin) /\ Fin \in Hashed
      /\ "sentinel" \notin Fin.flags
  BY <1>4, <1>5, SSLParts, FinHashed DEF Fin, Elem
<1>8. PeerSeen(u) /\ ~Keyless(u)
  BY <1>5 DEF PeerSeen, Keyless, Ends2
<1>9. Side(u) = Side(t) /\ PeerSide(u) = PeerSide(t) /\ u.version = t.version /\ u.server = t.server
  BY <1>5 DEF Agreed, Side, PeerSide
<1>10. ASSUME u.server_finished_hash = t.server_finished_hash, u.server_finished_hash # <<>>
       PROVE  UpToFinished(u.server_finished_hash, u.transcript)
  <2>1. UpToFinished(t.server_finished_hash, t.transcript)
    BY <1>2, <1>10 DEF KeysKnown
  <2>2. t.server_finished_hash \in Hash /\ u.transcript \in Hash /\ Starts(t.transcript, u.transcript)
    BY <1>7, Added, SSLParts
  <2>3. Starts(t.server_finished_hash, u.transcript)
    BY <1>7, <2>1, <2>2, StartsTrans DEF UpToFinished
  <2> QED BY <1>10, <2>1, <2>3 DEF UpToFinished
<1>11. CASE t.version = "TLS1_2"
  <2>1. u.enc_read = t.enc_read /\ u.server_finished_hash = t.server_finished_hash
    BY <1>1, <1>11 DEF Confirmed, Agreed, SameKeys, SSL_IS_TLS13
  <2>2. SameKeys(t, u)
    BY <1>5, <2>1 DEF SameKeys
  <2>3. KeysKnown(u)
    BY <1>2, <1>5, <1>7, <2>2, KeysGrown
  <2> QED BY <1>5, <1>6, <1>7, <1>8, <1>9, <1>11, <2>3 DEF KeyPlaces
<1>12. CASE t.version = "TLS1_3" /\ t.server
  <2>1. /\ u.enc_read = ClientKey13(b, "APPLICATION")
        /\ u.server_finished_hash = t.server_finished_hash
        /\ b.server_finished_hash = t.server_finished_hash
    BY <1>1, <1>12 DEF Confirmed, Agreed, SameKeys, SSL_IS_TLS13
  <2>2. u.enc_read = AppKey(u, PeerSide(u))
    BY <1>9, <1>12, <2>1 DEF ClientKey13, AppKey, PeerSide
  <2>3. u.enc_write.epoch = "APPLICATION" => u.enc_write = AppKey(u, Side(u))
    BY <1>2, <1>5, <1>9, <1>12, <2>1 DEF KeysKnown, AppKey
  <2>4. KeysKnown(u)
    BY <1>9, <1>10, <1>12, <2>1, <2>2, <2>3 DEF KeysKnown
  <2> QED BY <1>5, <1>6, <1>7, <1>8, <1>9, <1>12, <2>4 DEF KeyPlaces
<1>13. CASE t.version = "TLS1_3" /\ ~t.server
  <2>1. /\ u.enc_read = ServerKey13(b, "APPLICATION")
        /\ u.server_finished_hash = b.transcript
    BY <1>1, <1>13 DEF Confirmed, Agreed, SSL_IS_TLS13
  <2>2. u.enc_read = AppKey(u, PeerSide(u))
    BY <1>9, <1>13, <2>1 DEF ServerKey13, AppKey, PeerSide
  <2>3. u.enc_write.epoch # "APPLICATION"
    <3>1. t.hand_state = "CR_FINISHED"
      BY <1>2, <1>13 DEF Sided, Ends2, ClientStates, ServerStates
    <3>2. t.enc_write.epoch \in {"PLAIN", "HANDSHAKE"}
      BY <1>13, <3>1 DEF Live, Client13
    <3> QED BY <1>5, <3>2
  <2>4. UpToFinished(u.server_finished_hash, u.transcript)
    <3>1. t.hand_state = "CR_FINISHED"
      BY <1>2, <1>13 DEF Sided, Ends2, ClientStates, ServerStates
    <3>2. Unopened(t)
      BY <1>13, <3>1 DEF Unopened
    <3>3. ~Opened(t.transcript)
      BY <1>2, <3>2 DEF Alive
    <3> QED BY <1>4, <1>5, <1>7, <2>1, <3>3, OnlyFinished
  <2>5. KeysKnown(u)
    BY <1>9, <1>13, <2>2, <2>3, <2>4 DEF KeysKnown
  <2> QED BY <1>5, <1>6, <1>7, <1>8, <1>9, <1>13, <2>5 DEF KeyPlaces
<1>14. t.version \in {"ANY", "TLS1_2", "TLS1_3"}
  BY DEF SSL, Versions
<1> QED BY <1>3, <1>11, <1>12, <1>13, <1>14

LEMMA EndedWire ==
  ASSUME NEW t \in SSL, Live(t), Wire(t), t.state = "READING", t.sub = "BODY",
         t.hand_state \in Ends2,
         NEW b, b = tls_get_message_body(t), NEW u \in SSL, Confirmed(b, u), t.init_msg.mac = b.peer_mac
  PROVE  Wire(u) /\ Steady(t, u)
<1>1. /\ b \in SSL /\ Agreed(t, b) /\ SameCerts(t, b) /\ b.hand_state = t.hand_state /\ b.bbio = t.bbio
      /\ t.init_msg.mt = "FINISHED" => b.peer_mac = final_finish_mac(t, PeerSide(t))
      /\ b.transcript = IF Passed(t) THEN t.transcript
                        ELSE Append(t.transcript, Elem(t.init_msg.mt, t.init_msg.flags))
  BY BodyTold DEF Place
<1>2. /\ Always(t) /\ Alive(t) /\ Sided(t) /\ InHand(t) /\ KeysKnown(t) /\ Honours(t)
  BY DEF Wire, Always, Alive
<1>3. /\ KeyPlaces(u) /\ Secret(u) = Secret(t) /\ Agreed(t, u)
      /\ u.transcript = Append(t.transcript, Fin) /\ u.transcript = b.transcript
  BY EndedKeys DEF Confirmed
<1>4. /\ u.hand_state = t.hand_state /\ u.sub = "TRANSITION" /\ u.state = "WRITING"
      /\ SameCerts(t, u) /\ u.bbio = t.bbio
  BY <1>1 DEF Confirmed, SameCerts
<1>5. t.hand_state = IF t.server THEN "SR_FINISHED" ELSE "CR_FINISHED"
  BY <1>2 DEF Sided, Ends2, ClientStates, ServerStates
<1>6. /\ t.init_msg.mt = "FINISHED" /\ ~PeerSeen(t) /\ t.version # "ANY"
      /\ t.server => Answered(t) /\ Heard(t)
  BY <1>2, <1>5, Receiving
<1>7. /\ OwnChains(u) /\ (u.server => HelloFirst(u.transcript))
      /\ ~u.server => \A i \in DOMAIN u.transcript :
                        IsCH(u.transcript[i]) => Offer(u, u.transcript[i].flags)
      /\ Starts(t.transcript, u.transcript)
      /\ NoneSent(t.transcript) => NoneSent(u.transcript)
      /\ ChainFirst(t.transcript) => ChainFirst(u.transcript)
      /\ t.hand_state \notin {"SR_CLNT_HELLO", "CR_SRVR_HELLO"} =>
           /\ Honours(u)
           /\ Obeys(t) => Obeys(u)
           /\ HasCH(u.transcript) <=> HasCH(t.transcript)
           /\ HasSH(u.transcript) <=> HasSH(t.transcript)
  BY <1>1, <1>3, ReadHash
<1>8. t.hand_state \notin {"SR_CLNT_HELLO", "CR_SRVR_HELLO", "OK", "BEFORE"}
  BY <1>5
<1>9. /\ u.server = t.server /\ u.opt = t.opt /\ u.version = t.version /\ u.hit = t.hit
      /\ u.hello_retry_request = t.hello_retry_request
  BY <1>3 DEF Agreed
<1>10. /\ Sided(u) /\ PeerSeen(u) /\ (OwnSent(u) <=> OwnSent(t))
  <2>1. Sided(u)
    BY <1>2, <1>4, <1>9 DEF Sided
  <2>2. PeerSeen(u)
    BY <1>4, <1>5, <1>9 DEF PeerSeen
  <2>3. OwnSent(u) <=> OwnSent(t)
    BY <1>4, <1>5, <1>9 DEF OwnSent, Pending
  <2> QED BY <2>1, <2>2, <2>3
<1>11. Steady(t, u)
  <2>1. Fixed(t, u)
    BY <1>3 DEF Agreed, Fixed
  <2>2. t.init_msg.mac = final_finish_mac(t, PeerSide(t))
    BY <1>1, <1>6
  <2> QED BY <1>3, <1>6, <1>7, <1>9, <1>10, <2>1, <2>2 DEF Steady
<1>12. Buffered(u)
  BY <1>2, <1>4, <1>11, HeldSame, BufferedKept DEF Held2, Always
<1>13. t.server => Obeys(u)
  <2>1. t.server => Decided(t)
    BY <1>8 DEF Decided
  <2> QED BY <1>2, <1>7, <1>8, <2>1 DEF Alive
<1>14. Always(u)
  <2>1. u.hit => u.opt.session = u.version
    BY <1>2, <1>9 DEF Always
  <2>2. u.hand_state # "OK"
    BY <1>4, <1>8
  <2> QED BY <1>7, <1>8, <1>9, <1>10, <1>12, <1>13, <2>1, <2>2 DEF Always
<1>15. CertPlaces(u)
  <2>1. (Wants(u) <=> Wants(t)) /\ (Asks(u) <=> Asks(t))
    BY <1>3 DEF Agreed, Wants, Asks, send_certificate_request, VerifyPeer, aNULL, aPSK
  <2>2. CertPlaces(t)
    BY <1>2 DEF Alive, CertPlaces
  <2>3. Asked(u)
    BY <1>4, <1>5, <1>7, <1>9, <2>1, <2>2 DEF CertPlaces, Asked, SameCerts, Wants
  <2>4. Shown(u)
    BY <1>4, <1>5, <1>7, <1>9, <2>1, <2>2 DEF CertPlaces, Shown
  <2> QED BY <1>4, <1>9, <2>2, <2>3, <2>4 DEF CertPlaces, SameCerts
<1>16. Alive(u)
  <2>1. InHand(u) /\ Spots(u)
    BY <1>4, <1>5 DEF InHand, Spots
  <2>2. u.server => Answered(u) /\ ~Deaf(u) /\ HasSH(u.transcript) /\ HasCH(u.transcript)
    <3>1. t.server => HasSH(t.transcript) /\ HasCH(t.transcript)
      BY <1>2, <1>6 DEF Alive
    <3>2. t.server => Answered(u)
      BY <1>4, <1>5, <1>6, <1>9 DEF Answered, Pending
    <3>3. t.server => ~Deaf(u)
      BY <1>4, <1>5, <1>6, <1>9 DEF Answered, Deaf, Pending
    <3> QED BY <1>7, <1>8, <1>9, <3>1, <3>2, <3>3
  <2>3. ~Unopened(u)
    BY <1>4, <1>5, <1>6, <1>9 DEF Unopened
  <2>4. u.server /\ u.version = "TLS1_2" => u.new_cipher = u.opt.cipher
    BY <1>2, <1>3 DEF Alive, Agreed
  <2>5. ~(u.hand_state = "SR_CLNT_HELLO" /\ u.sub = "POST_PROCESS")
    BY <1>4
  <2> QED BY <1>3, <1>6, <1>7, <1>8, <1>9, <1>13, <1>15, <2>1, <2>2, <2>3, <2>4, <2>5
          DEF Alive, KeyPlaces, CertPlaces
<1> QED BY <1>11, <1>14, <1>16 DEF Wire

LEMMA FinishedWire ==
  ASSUME NEW t \in SSL, Live(t), Wire(t), t.state = "READING", t.sub = "BODY",
         t.hand_state \in Ends2,
         NEW b, b = tls_get_message_body(t), NEW u, u = tls_process_finished(b, b.init_msg)
  PROVE  Wire(u) /\ Steady(t, u)
<1>1. b \in SSL /\ b.init_msg = t.init_msg
  BY BodyTold
<1>2. CASE u \in SSL /\ Confirmed(b, u) /\ b.init_msg.mac = b.peer_mac
  BY <1>1, <1>2, EndedWire
<1>3. CASE \E a \in SSL : /\ Stays(b, a) /\ a.hand_state = b.hand_state /\ a.sub = b.sub
                          /\ a.bbio = b.bbio
                          /\ \E r \in Reasons : u = ossl_statem_fatal(a, r)
  BY <1>3, BodyFails
<1> QED BY <1>1, <1>2, <1>3, ProcessFinishedEnds

-----------------------------------------------------------------------------
(* process_message: the hellos *)

\* A ClientHello is hashed; what it leads to is chosen in post-processing.
LEMMA ClientHelloWire ==
  ASSUME NEW t \in SSL, Live(t), Wire(t), t.state = "READING", t.sub = "BODY", t.server,
         t.hand_state = "SR_CLNT_HELLO",
         NEW b, b = tls_get_message_body(t), NEW u, u = ContinueProcessing(b)
  PROVE  Wire(u) /\ Steady(t, u)
<1> DEFINE f == t.init_msg.flags
           e == Elem("CLIENT_HELLO", f)
           tr == t.transcript
<1>1. /\ b \in SSL /\ Agreed(t, b) /\ SameKeys(t, b) /\ SameCerts(t, b)
      /\ b.hand_state = t.hand_state /\ b.bbio = t.bbio /\ b.init_msg = t.init_msg
      /\ b.transcript = IF Passed(t) THEN tr ELSE Append(tr, Elem(t.init_msg.mt, f))
  BY BodyTold DEF Place
<1>2. /\ Always(t) /\ Alive(t) /\ Sided(t) /\ InHand(t) /\ KeysKnown(t)
  BY DEF Wire, Always, Alive
<1>3. t.init_msg.mt = "CLIENT_HELLO"
  BY <1>2, Receiving
<1>4. b.transcript = Append(tr, e)
  BY <1>1, <1>3 DEF Passed, Skips
<1>5. u \in SSL
  BY <1>1, ContinueType
<1>6. /\ Agreed(t, u) /\ SameKeys(t, u) /\ SameCerts(t, u) /\ u.bbio = t.bbio
      /\ u.hand_state = "SR_CLNT_HELLO" /\ u.state = "READING" /\ u.sub = "POST_PROCESS"
      /\ u.init_msg = t.init_msg
  <2>1. b.state = "READING"
    BY BodyTold DEF Place
  <2>2. /\ Agreed(b, u) /\ SameKeys(b, u) /\ SameCerts(b, u) /\ u.bbio = b.bbio
        /\ u.hand_state = b.hand_state /\ u.state = b.state /\ u.sub = "POST_PROCESS"
        /\ u.init_msg = b.init_msg
    <3>1. u.init_msg = b.init_msg /\ u.sub = "POST_PROCESS" /\ u.state = b.state
      BY <1>1 DEF ContinueProcessing, SSL
    <3> QED BY <1>1, <2>1, <3>1, MovedOn
  <2> QED BY <1>1, <2>1, <2>2 DEF Agreed, SameKeys, SameCerts
<1>7. u.transcript = b.transcript
  BY <1>1 DEF ContinueProcessing, SSL
<1>8. /\ u.server /\ u.opt = t.opt /\ u.version = t.version /\ u.hit = t.hit
      /\ u.hello_retry_request = t.hello_retry_request
  BY <1>6 DEF Agreed
<1>9. t.version # "TLS1_2"
  BY DEF Live, Server12
<1>10. ~Certain(t) /\ ~Certain(u) /\ ~PeerSeen(u) /\ ~OwnSent(u) /\ ~PeerSeen(t)
  BY <1>6 DEF Certain, OwnSent, PeerSeen
<1>11. tr \in Hash /\ e \in Hashed /\ e.mt = "CLIENT_HELLO" /\ e.flags = f
  BY <1>3, SSLParts, RecordParts, ElemHashed DEF Elem
<1> HIDE DEF e
<1>12. /\ IsCH(e) /\ ~IsSH(e) /\ ~Opener(e)
  BY <1>11 DEF IsCH, IsSH, Opener
<1>13. /\ ~HasCH(tr) /\ ~HasSH(tr) /\ ~Opened(tr)
  <2>1. Deaf(t) /\ ~Answered(t) /\ Unopened(t) /\ t.hand_state # "OK"
    BY DEF Deaf, Answered, Unopened
  <2> QED BY <1>2, <2>1 DEF Alive
<1>14. /\ HasCH(u.transcript) /\ ~HasSH(u.transcript) /\ ~Opened(u.transcript)
  BY <1>4, <1>7, <1>11, <1>12, <1>13, Grown
<1>15. \A i \in DOMAIN u.transcript : IsCH(u.transcript[i]) => u.transcript[i].flags = f
  <2>1. /\ \A i \in DOMAIN tr : u.transcript[i] = tr[i]
        /\ u.transcript[Len(tr) + 1] = e
        /\ \A i \in DOMAIN u.transcript : i = Len(tr) + 1 \/ i \in DOMAIN tr
    BY <1>4, <1>7, <1>11, Added
  <2> QED BY <1>11, <1>13, <2>1 DEF HasCH
<1>16. OwnChains(u) /\ HelloFirst(u.transcript)
  BY <1>1, <1>6, <1>7, <1>8, ReadHash
<1>17. Steady(t, u)
  BY <1>8, <1>10 DEF Steady, Certain
<1>18. Always(u)
  <2>1. Sided(u)
    BY <1>6, <1>8 DEF Sided, ServerStates
  <2>2. Buffered(u)
    BY <1>2, <1>5, <1>6, <1>17, HeldSame, BufferedKept DEF Held2, Always
  <2>3. u.hit => u.opt.session = u.version
    BY <1>2, <1>8 DEF Always
  <2> QED BY <1>6, <1>8, <1>10, <1>16, <2>1, <2>2, <2>3 DEF Always
<1>19. Alive(u)
  <2>1. InHand(u) /\ Spots(u)
    BY <1>6 DEF InHand, Spots
  <2>2. Honours(u)
    BY <1>14 DEF HasSH, Honours
  <2>3. ~Answered(u) /\ ~Deaf(u) /\ ~Decided(u)
    BY <1>6 DEF Answered, Deaf, Decided
  <2>4. KeysKnown(u)
    BY <1>2, <1>4, <1>6, <1>7, <1>9, <1>11, KeysGrown
  <2>5. Asked(u) /\ Shown(u)
    BY <1>6, <1>8 DEF Asked, Shown
  <2>6. u.cert_req = 2 => u.opt.cert = "NONE"
    BY <1>2, <1>6, <1>8 DEF Alive, SameCerts
  <2>7. u.version # "TLS1_2"
    BY <1>8, <1>9
  <2>8. u.version = "TLS1_3" => u.enc_read.epoch # "APPLICATION"
    BY <1>2, <1>6, <1>8, <1>10 DEF Alive, SameKeys
  <2> QED BY <1>6, <1>8, <1>14, <1>15, <2>1, <2>2, <2>3, <2>4, <2>5, <2>6, <2>7, <2>8 DEF Alive
<1> QED BY <1>17, <1>18, <1>19 DEF Wire

\* process_message of a server.
LEMMA ServerBodyWire ==
  ASSUME NEW t \in SSL, Live(t), Wire(t), t.state = "READING", t.sub = "BODY", t.server,
         NEW b, b = tls_get_message_body(t), NEW u, u = server_process_message(b, b.init_msg)
  PROVE  Wire(u) /\ Steady(t, u)
<1>1. b.hand_state = t.hand_state
  BY BodyTold DEF Place
<1>2. t.hand_state \in {"SR_CLNT_HELLO", "SR_CERT", "SR_KEY_EXCH", "SR_CERT_VRFY", "SR_CHANGE",
                        "SR_FINISHED"}
  <2>1. Sided(t) /\ InHand(t)
    BY DEF Wire, Always, Alive
  <2> QED BY <2>1, Receiving DEF ReadStates, ServerStates
<1>3. CASE t.hand_state = "SR_CLNT_HELLO"
  BY <1>1, <1>3, ClientHelloWire DEF server_process_message
<1>4. CASE t.hand_state = "SR_CERT"
  BY <1>1, <1>4, CertificateWire DEF server_process_message
<1>5. CASE t.hand_state = "SR_KEY_EXCH"
  BY <1>1, <1>5, KeyExchangeWire DEF server_process_message
<1>6. CASE t.hand_state = "SR_CERT_VRFY"
  BY <1>1, <1>6, VerifyWire DEF server_process_message
<1>7. CASE t.hand_state = "SR_CHANGE"
  BY <1>1, <1>7, ReadChangeWire DEF server_process_message
<1>8. CASE t.hand_state = "SR_FINISHED"
  BY <1>1, <1>8, FinishedWire DEF server_process_message, Ends2
<1> QED BY <1>2, <1>3, <1>4, <1>5, <1>6, <1>7, <1>8

\* A client reading a ServerHello has chosen nothing, and no key is installed.
Fresh(t, a) ==
  /\ a.server = t.server /\ a.opt = t.opt /\ a.hand_state = t.hand_state
  /\ a.bbio = t.bbio /\ (a.hit => a.opt.session = a.version)

LEMMA HelloFresh ==
  ASSUME NEW t \in SSL, Live(t), Wire(t), t.state = "READING", t.sub = "BODY", ~t.server,
         t.hand_state = "CR_SRVR_HELLO",
         NEW a \in SSL, Fresh(t, a), OwnChains(a),
         \A i \in DOMAIN a.transcript : IsCH(a.transcript[i]) => Offer(a, a.transcript[i].flags)
  PROVE  Always(a) /\ Steady(t, a) /\ ~Certain(a)
<1>1. ~Certain(t) /\ ~Certain(a) /\ ~OwnSent(a) /\ ~PeerSeen(a)
  BY DEF Fresh, Certain, OwnSent, PeerSeen
<1>2. Steady(t, a)
  BY <1>1 DEF Steady, Fresh, Certain
<1>3. Buffered(a) /\ Sided(a)
  <2>1. Always(t) /\ Sided(t)
    BY DEF Wire, Always
  <2>2. Held2(t, a)
    BY HeldSame DEF Fresh
  <2>3. Buffered(a)
    BY <1>2, <2>1, <2>2, BufferedKept DEF Held2, Always
  <2> QED BY <2>3 DEF Sided, Fresh, ClientStates
<1> QED BY <1>1, <1>2, <1>3 DEF Always, Fresh

LEMMA HelloFails ==
  ASSUME NEW t \in SSL, Live(t), Wire(t), t.state = "READING", t.sub = "BODY", ~t.server,
         t.hand_state = "CR_SRVR_HELLO",
         NEW b, b = tls_get_message_body(t),
         NEW a \in SSL, Fresh(t, a), a.transcript = b.transcript,
         NEW r \in Reasons, NEW u, u = ossl_statem_fatal(a, r)
  PROVE  Wire(u) /\ Steady(t, u)
<1>1. Always(b) /\ b.server = t.server /\ b.opt = t.opt
  BY BodyAlways, BodyTold DEF Agreed
<1>2. OwnChains(a)
  BY <1>1 DEF Always, OwnChains, Fresh
<1>3. \A i \in DOMAIN a.transcript : IsCH(a.transcript[i]) => Offer(a, a.transcript[i].flags)
  <2>1. \A f : Offer(b, f) => Offer(a, f)
    BY <1>1 DEF Offer, Fresh
  <2> QED BY <1>1, <2>1 DEF Always
<1>4. Always(a) /\ Steady(t, a) /\ ~Certain(a)
  BY <1>2, <1>3, HelloFresh
<1>5. u \in SSL /\ Wire(u) /\ Steady(a, u) /\ Stays(a, u) /\ u.hand_state = a.hand_state /\ u.sub = a.sub
  BY <1>4, FatalWire, FatalEffect
<1>6. ~Certain(u)
  BY <1>4, <1>5, SamePlaces DEF Stays
<1>7. Steady(t, u)
  <2>1. ~Certain(t)
    BY DEF Certain, OwnSent, PeerSeen
  <2> QED BY <1>4, <1>5, <1>6, <2>1 DEF Steady, Certain
<1> QED BY <1>5, <1>7

\* A ServerHello not yet acted on: nothing has been completed.
LEMMA HelloBlank ==
  ASSUME NEW t \in SSL, Live(t), Wire(t), t.state = "READING", t.sub = "BODY", ~t.server,
         t.hand_state = "CR_SRVR_HELLO"
  PROVE  /\ t.version = "ANY" /\ t.enc_read = PlainKey /\ t.enc_write = PlainKey
         /\ t.server_finished_hash = <<>> /\ ~Opened(t.transcript) /\ ~HasSH(t.transcript)
         /\ t.init_msg.mt = "SERVER_HELLO" /\ t.init_msg.flags \in FlagsOf("SERVER_HELLO")
<1>1. Alive(t) /\ Sided(t) /\ InHand(t)
  BY DEF Wire, Always, Alive
<1>2. t.version = "ANY" /\ t.init_msg.mt = "SERVER_HELLO" /\ t.init_msg.flags \in FlagsOf("SERVER_HELLO")
  BY <1>1, Receiving
<1>3. t.enc_read = PlainKey /\ t.enc_write = PlainKey
  BY <1>2 DEF Live, Early
<1>4. ~Opened(t.transcript) /\ ~HasSH(t.transcript)
  BY <1>1, <1>2 DEF Alive, Unopened
<1>5. t.server_finished_hash = <<>>
  <2>1. t.server_finished_hash # <<>> => UpToFinished(t.server_finished_hash, t.transcript)
    BY <1>1 DEF Alive, KeysKnown
  <2> QED BY <1>4, <2>1, UnopenedHash
<1> QED BY <1>2, <1>3, <1>4, <1>5

\* A HelloRetryRequest: the transcript starts again.
LEMMA HelloRetryWire ==
  ASSUME NEW t \in SSL, Live(t), Wire(t), t.state = "READING", t.sub = "BODY", ~t.server,
         t.hand_state = "CR_SRVR_HELLO", "HRR" \in t.init_msg.flags,
         NEW b, b = tls_get_message_body(t),
         NEW u, u = tls_process_as_hello_retry_request(b, b.init_msg)
  PROVE  Wire(u) /\ Steady(t, u)
<1> DEFINE m == b.init_msg
           new == (m.flags \cap {"g1", "g2"}) \ {b.group}
           cipher == m.flags \cap Ciphers
           ch == CHOOSE x \in cipher : TRUE
           gr == CHOOSE x \in new : TRUE
           a == [b EXCEPT !.hello_retry_request = "PENDING"]
           k == [a EXCEPT !.enc_write = PlainKey, !.new_cipher = ch]
           c == [k EXCEPT !.group = gr]
           d == create_synthetic_message_hash(c)
           g == ssl3_finish_mac(d, m.mt, m.flags)
           refused == cipher = {} \/ ~(cipher \subseteq OldSuites(b) \cup {"TLS13"})
<1>0. /\ t.version = "ANY" /\ t.enc_read = PlainKey /\ t.server_finished_hash = <<>>
      /\ t.init_msg.mt = "SERVER_HELLO"
  BY HelloBlank
<1>1. /\ b \in SSL /\ Agreed(t, b) /\ SameKeys(t, b) /\ SameCerts(t, b)
      /\ b.hand_state = t.hand_state /\ b.state = t.state /\ b.bbio = t.bbio
      /\ b.init_msg = t.init_msg
  BY BodyTold DEF Place
<1>2. \/ u = ossl_statem_fatal(a, "BAD_CIPHER")
      \/ ~refused /\ new = {} /\ u = ossl_statem_fatal(k, "BAD_EXTENSION")
      \/ ~refused /\ new # {} /\ u = FinishedReading(g)
  BY DEF tls_process_as_hello_retry_request
<1>3. Always(t)
  BY DEF Wire
<1>4. t.hit => t.opt.session = t.version
  BY <1>3 DEF Always
<1> DEFINE Same(x) == /\ x.server = t.server /\ x.opt = t.opt /\ x.hand_state = t.hand_state
                      /\ x.bbio = t.bbio /\ x.hit = t.hit /\ x.version = t.version
                      /\ x.transcript = b.transcript /\ x.state = t.state
                      /\ x.hello_retry_request = "PENDING" /\ SameCerts(t, x)
                      /\ x.enc_read = t.enc_read /\ x.server_finished_hash = t.server_finished_hash
                      /\ x.init_msg = t.init_msg
<1>5. a \in SSL
  BY <1>1, ZenonT(120) DEF SSL
<1>6. Same(a)
  BY <1>1 DEF SSL, Agreed, SameKeys, SameCerts
<1> HIDE DEF a
<1>7. CASE u = ossl_statem_fatal(a, "BAD_CIPHER")
  <2>1. Fresh(t, a) /\ a.transcript = b.transcript /\ "BAD_CIPHER" \in Reasons
    BY <1>4, <1>6 DEF Fresh, Reasons
  <2> QED BY <1>5, <1>7, <2>1, HelloFails
<1>8. CASE ~refused
  <2>1. ch \in Ciphers
    BY <1>8
  <2> HIDE DEF ch
  <2>2. k \in SSL
    BY ZenonT(120), <1>5, <2>1, EmptyValues DEF SSL
  <2>3. Same(k)
    BY <1>5, <1>6 DEF SSL, SameCerts
  <2>4. k.enc_write = PlainKey
    BY <1>5 DEF SSL
  <2> HIDE DEF k
  <2>5. CASE u = ossl_statem_fatal(k, "BAD_EXTENSION")
    <3>1. Fresh(t, k) /\ k.transcript = b.transcript /\ "BAD_EXTENSION" \in Reasons
      BY <1>4, <2>3 DEF Fresh, Reasons
    <3> QED BY <2>2, <2>5, <3>1, HelloFails
  <2>6. CASE new # {} /\ u = FinishedReading(g)
    <3> DEFINE hm == Elem("MESSAGE_HASH", UNION {c.transcript[i].flags : i \in DOMAIN c.transcript})
               hr == Elem(m.mt, m.flags)
    <3>1. gr \in {"g1", "g2"}
      BY <2>6
    <3> HIDE DEF gr
    <3>2. c \in SSL
      BY ZenonT(120), <2>2, <3>1 DEF SSL
    <3>3. Same(c) /\ c.enc_write = PlainKey
      BY <2>2, <2>3, <2>4 DEF SSL, SameCerts
    <3>4. d = [c EXCEPT !.transcript = <<hm>>]
      BY DEF create_synthetic_message_hash
    <3>5. hm.mt = "MESSAGE_HASH" /\ hr.mt = "SERVER_HELLO" /\ "HRR" \in hr.flags
      BY <1>0, <1>1 DEF Elem
    <3>6. d \in SSL
      BY <3>2, SyntheticHashType
    <3> HIDE DEF c, d, hm
    <3>7. /\ g = [d EXCEPT !.transcript = Append(d.transcript, hr)] /\ g \in SSL
      <4>1. g = [d EXCEPT !.transcript = Append(d.transcript, hr)]
        BY DEF ssl3_finish_mac
      <4>2. m \in Records
        BY <1>1, SSLParts
      <4> QED BY <3>6, <4>1, <4>2, FinishMacType, RecordParts
    <3> HIDE DEF g, hr
    <3> DEFINE Now(x) == /\ x.server = t.server /\ x.opt = t.opt /\ x.hand_state = t.hand_state
                         /\ x.bbio = t.bbio /\ x.hit = t.hit /\ x.version = t.version
                         /\ SameCerts(t, x) /\ x.enc_read = t.enc_read /\ x.enc_write = PlainKey
                         /\ x.server_finished_hash = t.server_finished_hash
    <3>8. Now(d) /\ d.transcript = <<hm>>
      BY <3>2, <3>3, <3>4 DEF SSL, SameCerts
    <3>9. Now(g) /\ g.transcript = Append(d.transcript, hr)
      BY <3>6, <3>7, <3>8 DEF SSL, SameCerts
    <3>10. u \in SSL
      BY <2>6, <3>7, ContinueType
    <3>11. Now(u) /\ u.transcript = Append(d.transcript, hr) /\ u.state = "WRITING" /\ u.sub = "TRANSITION"
      BY <2>6, <3>7, <3>9 DEF FinishedReading, SSL, SameCerts
    <3>12. \A i \in DOMAIN u.transcript :
             /\ u.transcript[i].mt \in {"MESSAGE_HASH", "SERVER_HELLO"}
             /\ u.transcript[i].mt = "SERVER_HELLO" => "HRR" \in u.transcript[i].flags
      <4>1. d.transcript \in Hash /\ hr \in Hashed
        BY <1>1, <3>6, SSLParts, RecordParts, ElemHashed DEF hr
      <4>2. \A i \in DOMAIN d.transcript : d.transcript[i] = hm
        BY <3>8
      <4>3. /\ \A i \in DOMAIN d.transcript : u.transcript[i] = d.transcript[i]
            /\ u.transcript[Len(d.transcript) + 1] = hr
            /\ \A i \in DOMAIN u.transcript : i = Len(d.transcript) + 1 \/ i \in DOMAIN d.transcript
        BY <3>11, <4>1, Added
      <4> QED BY <3>5, <4>2, <4>3
    <3>13. /\ \A i \in DOMAIN u.transcript : ~IsCH(u.transcript[i]) /\ ~IsSH(u.transcript[i])
           /\ ~HasSH(u.transcript) /\ ~Opened(u.transcript) /\ OwnChains(u)
      BY <3>12 DEF IsCH, IsSH, HasSH, Opened, OwnChains
    <3>14. Always(u) /\ Steady(t, u)
      <4>1. Fresh(t, u)
        BY <1>4, <3>11 DEF Fresh
      <4> QED BY <3>10, <3>13, <4>1, HelloFresh
    <3>15. Alive(u)
      <4>1. InHand(u) /\ Spots(u)
        BY <3>11 DEF InHand, Spots
      <4>2. Honours(u)
        BY <3>13 DEF Honours
      <4>3. KeysKnown(u)
        BY <1>0, <3>11 DEF KeysKnown
      <4>4. Asked(u) /\ Shown(u)
        BY <1>0, <3>11 DEF Asked, Wants, Shown
      <4>5. u.cert_req = 2 => u.opt.cert = "NONE"
        BY <3>11 DEF Wire, Alive, SameCerts
      <4> QED BY <1>0, <3>11, <3>13, <4>1, <4>2, <4>3, <4>4, <4>5 DEF Alive
    <3> QED BY <3>14, <3>15 DEF Wire
  <2> QED BY <1>2, <1>7, <1>8, <2>5, <2>6
<1> QED BY <1>2, <1>7, <1>8

\* A ServerHello that chooses: what it says is what the client acts on.
LEMMA ServerHelloWire ==
  ASSUME NEW t \in SSL, Live(t), Wire(t), t.state = "READING", t.sub = "BODY", ~t.server,
         t.hand_state = "CR_SRVR_HELLO",
         NEW b, b = tls_get_message_body(t), NEW u, u = tls_process_server_hello(b, b.init_msg)
  PROVE  Wire(u) /\ Steady(t, u)
<1> DEFINE m == b.init_msg
           f == m.flags
           v == ServerHelloVersion(m)
           why == ssl_choose_client_version(b, m)
           hit == "hit" \in f /\ b.opt.session = v
           a == [b EXCEPT !.version = v, !.hit = hit]
           ci == IF v = "TLS1_3" THEN "TLS13" ELSE b.opt.cipher
           p == "ticket" \in f
           q == "status" \in f
           e == "ems" \in f
           k == IF hit /\ v = "TLS1_2" THEN <<Elem("SESSION", {})>> ELSE b.master_key
           d == [a EXCEPT !.new_cipher = ci, !.ticket_expected = p, !.status_expected = q,
                          !.extms = e, !.master_key = k]
           c == IF v = "TLS1_3" THEN tls13_change_read(d, "HANDSHAKE") ELSE d
<1>0. /\ t.version = "ANY" /\ t.enc_read = PlainKey /\ t.enc_write = PlainKey
      /\ t.server_finished_hash = <<>> /\ t.init_msg.mt = "SERVER_HELLO"
      /\ ~Opened(t.transcript) /\ ~HasSH(t.transcript)
      /\ t.init_msg.flags \in FlagsOf("SERVER_HELLO")
  BY HelloBlank
<1>1. /\ b \in SSL /\ Agreed(t, b) /\ SameKeys(t, b) /\ SameCerts(t, b)
      /\ b.hand_state = t.hand_state /\ b.state = t.state /\ b.bbio = t.bbio
      /\ b.init_msg = t.init_msg
      /\ b.transcript = IF Passed(t) THEN t.transcript
                        ELSE Append(t.transcript, Elem(t.init_msg.mt, t.init_msg.flags))
  BY BodyTold DEF Place
<1>2. /\ v \in Versions /\ (v = "TLS1_3" <=> "TLS1_3" \in f)
  BY DEF ServerHelloVersion, Versions
<1>3. why \in {"NONE", "UNSUPPORTED_PROTOCOL", "INAPPROPRIATE_FALLBACK"}
      /\ (why = "NONE" => v \in b.opt.versions)
  BY DEF ssl_choose_client_version
<1>4. hit \in BOOLEAN /\ p \in BOOLEAN /\ q \in BOOLEAN /\ e \in BOOLEAN
  OBVIOUS
<1>5. k \in Hash
  BY <1>1, ElemHashed, ShortHash, SSLParts
<1>6. ci \in Ciphers
  BY <1>1, SSLParts, OptionParts DEF Ciphers
<1>7. \/ "HRR" \in f /\ u = tls_process_as_hello_retry_request(b, m)
      \/ why # "NONE" /\ u = ossl_statem_fatal(b, why)
      \/ u = ossl_statem_fatal(a, "BAD_CIPHER")
      \/ u = ossl_statem_fatal(a, "BAD_EXTENSION")
      \/ /\ why = "NONE" /\ ~BadCipher(b, m) /\ ~BadExtension(b, m)
         /\ ~("HRR" \in f /\ "TLS1_3" \in b.opt.versions)
         /\ u = ContinueReading(c)
  <2>1. d = [a EXCEPT !.new_cipher = IF v = "TLS1_3" THEN "TLS13" ELSE b.opt.cipher,
                      !.ticket_expected = "ticket" \in f,
                      !.status_expected = "status" \in f,
                      !.extms = "ems" \in f,
                      !.master_key = IF hit /\ v = "TLS1_2" THEN <<Elem("SESSION", {})>> ELSE @]
    <3>1. a.master_key = b.master_key
      BY <1>1 DEF SSL
    <3> QED BY <3>1
  <2> HIDE DEF d
  <2> QED BY <2>1 DEF tls_process_server_hello
<1>8. CASE "HRR" \in f /\ u = tls_process_as_hello_retry_request(b, m)
  BY <1>1, <1>8, HelloRetryWire
<1>9. CASE why # "NONE" /\ u = ossl_statem_fatal(b, why)
  <2>1. why \in Reasons
    BY <1>3 DEF Reasons
  <2>2. t.hit => t.opt.session = t.version
    BY DEF Wire, Always
  <2>3. Fresh(t, b)
    BY <1>1, <2>2 DEF Fresh, Agreed
  <2> QED BY <1>1, <1>9, <2>1, <2>3, HelloFails
<1>10. hit <=> "hit" \in f /\ t.opt.session = v
  BY <1>1 DEF Agreed
<1> HIDE DEF hit, p, q, k
<1>11. a \in SSL
  BY ZenonT(120), <1>1, <1>2, <1>4 DEF SSL
<1>12. /\ a.server = t.server /\ a.opt = t.opt /\ a.hand_state = t.hand_state /\ a.state = t.state
       /\ a.bbio = t.bbio /\ a.hit = hit /\ a.version = v /\ a.group = t.group
       /\ a.transcript = b.transcript /\ SameCerts(t, a)
       /\ a.enc_read = PlainKey /\ a.enc_write = PlainKey /\ a.server_finished_hash = <<>>
  BY <1>0, <1>1 DEF SSL, Agreed, SameKeys, SameCerts
<1> HIDE DEF a
<1>13. CASE u = ossl_statem_fatal(a, "BAD_CIPHER") \/ u = ossl_statem_fatal(a, "BAD_EXTENSION")
  <2>1. Fresh(t, a)
    BY <1>10, <1>12 DEF Fresh
  <2>2. "BAD_CIPHER" \in Reasons /\ "BAD_EXTENSION" \in Reasons
    BY DEF Reasons
  <2> QED BY <1>11, <1>12, <1>13, <2>1, <2>2, HelloFails
<1>14. CASE /\ why = "NONE" /\ ~BadCipher(b, m) /\ ~BadExtension(b, m)
            /\ ~("HRR" \in f /\ "TLS1_3" \in b.opt.versions)
            /\ u = ContinueReading(c)
  <2>1. /\ v \in t.opt.versions
        /\ f \cap Ciphers = {ci}
        /\ v = "TLS1_3" => t.group \in f
    <3>1. b.opt = t.opt /\ b.group = t.group
      BY <1>1 DEF Agreed
    <3>2. v \in t.opt.versions
      BY <1>3, <1>14, <3>1
    <3>3. f \cap Ciphers = {ci}
      BY <1>14 DEF BadCipher
    <3>4. v = "TLS1_3" => t.group \in f
      BY <1>14, <3>1 DEF BadExtension
    <3> QED BY <3>2, <3>3, <3>4
  <2>2. v = "TLS1_2" \/ v = "TLS1_3"
    BY <1>2 DEF Versions
  <2>3. ci = IF v = "TLS1_3" THEN "TLS13" ELSE t.opt.cipher
    BY <1>1 DEF Agreed
  <2>4. why = "NONE" /\ ("HRR" \in f => "TLS1_3" \notin t.opt.versions) /\ u = ContinueReading(c)
    BY <1>1, <1>14 DEF Agreed
  <2> HIDE DEF v, why, ci
  <2>5. d \in SSL
    <3>1. ASSUME NEW x1 \in Ciphers, NEW x2 \in BOOLEAN, NEW x3 \in BOOLEAN, NEW x4 \in BOOLEAN,
                 NEW x5 \in Hash
          PROVE  [a EXCEPT !.new_cipher = x1, !.ticket_expected = x2, !.status_expected = x3,
                           !.extms = x4, !.master_key = x5] \in SSL
      BY ONLY a \in SSL, <3>1, ZenonT(120) DEF SSL
    <3>2. e \in BOOLEAN
      BY <1>4
    <3> HIDE DEF e
    <3> QED BY ONLY <1>4, <1>5, <1>6, <3>1, <3>2, Zenon DEF d
  <2>6. /\ d.server = t.server /\ d.opt = t.opt /\ d.hand_state = t.hand_state /\ d.state = t.state
        /\ d.bbio = t.bbio /\ d.hit = hit /\ d.version = v /\ d.group = t.group
        /\ d.transcript = b.transcript /\ SameCerts(t, d)
        /\ d.enc_read = PlainKey /\ d.enc_write = PlainKey /\ d.server_finished_hash = <<>>
        /\ d.new_cipher = ci /\ d.extms = e
    BY <1>11, <1>12 DEF SSL, SameCerts
  <2> HIDE DEF d
  <2>7. c \in SSL
    <3>1. tls13_change_read(d, "HANDSHAKE") \in SSL
      BY <2>5, ChangeKeyType DEF Epochs
    <3> QED BY <2>5, <3>1
  <2>8. /\ c.server = t.server /\ c.opt = t.opt /\ c.hand_state = t.hand_state /\ c.state = t.state
        /\ c.bbio = t.bbio /\ c.hit = hit /\ c.version = v /\ c.group = t.group
        /\ c.transcript = b.transcript /\ SameCerts(t, c)
        /\ c.enc_write = PlainKey /\ c.server_finished_hash = <<>>
        /\ c.new_cipher = ci /\ c.extms = e
        /\ c.enc_read.epoch \in {"PLAIN", "HANDSHAKE"}
        /\ v # "TLS1_3" => c.enc_read = PlainKey
    <3>1. CASE v = "TLS1_3"
      <4>1. c = tls13_change_read(d, "HANDSHAKE") /\ ~d.server
        BY <2>6, <3>1
      <4>2. /\ Rekeyed(d, c) /\ c.enc_write = d.enc_write
            /\ c.enc_read = ServerKey13(d, "HANDSHAKE") /\ Saves(d, c, "HANDSHAKE")
        BY <2>5, <4>1, ChangeReadKept
      <4>3. Rest(d, c)
        BY <2>5, <4>1, RestChange
      <4>4. c.enc_read.epoch = "HANDSHAKE"
        BY <4>2 DEF ServerKey13
      <4> HIDE DEF c
      <4> QED BY <2>6, <3>1, <4>2, <4>3, <4>4
              DEF Rekeyed, Saves, Chose, Certs, Place, Rest, SameCerts
    <3>2. CASE v # "TLS1_3"
      <4>1. c = d
        BY <3>2
      <4> HIDE DEF c
      <4> QED BY <2>6, <3>2, <4>1 DEF PlainKey
    <3> QED BY <3>1, <3>2
  <2> HIDE DEF c
  <2>9. u \in SSL
    BY <2>4, <2>7, ContinueType
  <2>10. /\ u.server = t.server /\ u.opt = t.opt /\ u.hand_state = t.hand_state /\ u.state = t.state
         /\ u.bbio = t.bbio /\ u.hit = hit /\ u.version = v /\ u.group = t.group
         /\ u.transcript = b.transcript /\ SameCerts(t, u) /\ u.sub = "HEADER"
         /\ u.enc_write = PlainKey /\ u.server_finished_hash = <<>>
         /\ u.new_cipher = ci /\ u.extms = e
         /\ u.enc_read.epoch \in {"PLAIN", "HANDSHAKE"}
         /\ v # "TLS1_3" => u.enc_read = PlainKey
    BY <2>4, <2>7, <2>8 DEF ContinueReading, SSL, SameCerts
  <2>11. Answers(u, f) \/ "HRR" \in f
    <3>1. CASE "HRR" \notin f
      <4>1. u.version \in Versions /\ ("TLS1_3" \in f <=> u.version = "TLS1_3")
        BY <1>2, <2>10 DEF v
      <4>2. /\ f \cap Ciphers = {u.new_cipher}
            /\ u.new_cipher = IF u.version = "TLS1_3" THEN "TLS13" ELSE u.opt.cipher
        BY <2>1, <2>3, <2>10
      <4>3. /\ u.hit => "hit" \in f
            /\ "hit" \in f /\ (u.server \/ u.opt.session = u.version) => u.hit
        BY <1>10, <2>10
      <4>4. u.version = "TLS1_2" => (u.extms <=> "ems" \in f)
        BY <2>10
      <4>5. u.version = "TLS1_3" => u.group \in f /\ ~u.server
        BY <2>1, <2>10
      <4> QED BY <3>1, <4>1, <4>2, <4>3, <4>4, <4>5 DEF Answers
    <3> QED BY <3>1
  <2>12. /\ OwnChains(u) /\ ~Opened(u.transcript) /\ Honours(u)
         /\ \A i \in DOMAIN u.transcript : IsCH(u.transcript[i]) => Offer(u, u.transcript[i].flags)
    <3>1. /\ OwnChains(b)
          /\ \A i \in DOMAIN b.transcript : IsCH(b.transcript[i]) => Offer(b, b.transcript[i].flags)
          /\ ~Opened(b.transcript)
      <4>1. b.server = t.server
        BY <1>1 DEF Agreed
      <4> QED BY <1>0, <1>1, <4>1, ReadHash
    <3>2. b.server = u.server /\ b.opt = u.opt
      BY <1>1, <2>10 DEF Agreed
    <3>3. OwnChains(u)
      BY <2>10, <3>1, <3>2 DEF OwnChains
    <3>4. \A i \in DOMAIN u.transcript : IsCH(u.transcript[i]) => Offer(u, u.transcript[i].flags)
      <4>1. \A x : Offer(b, x) => Offer(u, x)
        BY <3>2 DEF Offer
      <4> QED BY <2>10, <3>1, <4>1
    <3>5. Honours(u)
      <4>1. CASE Passed(t)
        BY <1>0, <1>1, <2>10, <4>1 DEF HasSH, Honours
      <4>2. CASE ~Passed(t)
        <5> DEFINE x == Elem(t.init_msg.mt, t.init_msg.flags)
                   tr == t.transcript
        <5>1. x \in Hashed /\ tr \in Hash /\ x.flags = f
          BY <1>1, SSLParts, RecordParts, ElemHashed DEF Elem
        <5>2. u.transcript = Append(tr, x)
          BY <1>1, <2>10, <4>2
        <5> HIDE DEF x
        <5>3. /\ \A i \in DOMAIN tr : u.transcript[i] = tr[i]
              /\ u.transcript[Len(tr) + 1] = x
              /\ \A i \in DOMAIN u.transcript : i = Len(tr) + 1 \/ i \in DOMAIN tr
          BY <5>1, <5>2, Added
        <5>4. IsSH(x) => Answers(u, x.flags)
          BY <2>11, <5>1 DEF IsSH
        <5> QED BY <1>0, <5>3, <5>4 DEF HasSH, Honours
      <4> QED BY <4>1, <4>2
    <3> QED BY <2>10, <3>1, <3>3, <3>4, <3>5
  <2>13. Always(u) /\ Steady(t, u)
    <3>1. Fresh(t, u)
      BY <1>10, <2>10 DEF Fresh
    <3> QED BY <2>9, <2>12, <3>1, HelloFresh
  <2>14. Alive(u)
    <3>1. InHand(u) /\ Spots(u)
      BY <2>10 DEF InHand, Spots
    <3>2. KeysKnown(u)
      <4>1. u.version = "TLS1_2" => u.enc_read = PlainKey /\ u.enc_write = PlainKey
        BY <2>10
      <4>2. u.enc_read.epoch # "APPLICATION" /\ u.enc_write.epoch # "APPLICATION"
        BY <2>10 DEF PlainKey
      <4> QED BY <2>10, <4>1, <4>2 DEF KeysKnown
    <3>3. Asked(u) /\ Shown(u)
      BY <2>10 DEF Asked, Wants, Shown
    <3>4. u.cert_req = 2 => u.opt.cert = "NONE"
      BY <2>10 DEF Wire, Alive, SameCerts
    <3>5. u.version # "ANY"
      BY <2>2, <2>10
    <3>6. u.version = "TLS1_2" => u.enc_read = PlainKey /\ u.enc_write = PlainKey
      BY <2>10
    <3> QED BY <2>10, <2>12, <3>1, <3>2, <3>3, <3>4, <3>5, <3>6 DEF Alive
  <2> QED BY <2>13, <2>14 DEF Wire
<1> QED BY <1>7, <1>8, <1>9, <1>13, <1>14

\* process_message of a client.
LEMMA ClientBodyWire ==
  ASSUME NEW t \in SSL, Live(t), Wire(t), t.state = "READING", t.sub = "BODY", ~t.server,
         NEW b, b = tls_get_message_body(t), NEW u, u = client_process_message(b, b.init_msg)
  PROVE  Wire(u) /\ Steady(t, u)
<1>1. b.hand_state = t.hand_state
  BY BodyTold DEF Place
<1>2. t.hand_state \in {"CR_SRVR_HELLO", "CR_CERT", "CR_CERT_VRFY", "CR_CERT_STATUS",
                        "CR_ENCRYPTED_EXTENSIONS", "CR_KEY_EXCH", "CR_CERT_REQ", "CR_SRVR_DONE",
                        "CR_CHANGE", "CR_SESSION_TICKET", "CR_FINISHED"}
  <2>1. Sided(t) /\ InHand(t)
    BY DEF Wire, Always, Alive
  <2>2. t.hand_state \in ReadStates /\ t.hand_state \in ClientStates
    BY <2>1, Receiving
  <2> QED BY <2>2 DEF ReadStates, ClientStates
<1>3. CASE t.hand_state = "CR_SRVR_HELLO"
  BY <1>1, <1>3, ServerHelloWire DEF client_process_message
<1>4. CASE t.hand_state = "CR_CERT"
  BY <1>1, <1>4, ServerChainWire DEF client_process_message
<1>5. CASE t.hand_state = "CR_CERT_VRFY"
  BY <1>1, <1>5, VerifyWire DEF client_process_message
<1>6. CASE t.hand_state \in {"CR_CERT_STATUS", "CR_ENCRYPTED_EXTENSIONS", "CR_KEY_EXCH",
                             "CR_SRVR_DONE", "CR_SESSION_TICKET"}
  BY <1>1, <1>6, GoesOnWire
<1>7. CASE t.hand_state = "CR_CERT_REQ"
  BY <1>1, <1>7, RequestWire DEF client_process_message
<1>8. CASE t.hand_state = "CR_CHANGE"
  BY <1>1, <1>8, ReadChangeWire DEF client_process_message
<1>9. CASE t.hand_state = "CR_FINISHED"
  BY <1>1, <1>9, FinishedWire DEF client_process_message, Ends2
<1> QED BY <1>2, <1>3, <1>4, <1>5, <1>6, <1>7, <1>8, <1>9

-----------------------------------------------------------------------------
(* post_process_message *)

\* Work behind a message that only may find there is no certificate to send.
LEMMA WentOn ==
  ASSUME NEW t \in SSL, Live(t), Wire(t), t.state = "READING", t.sub = "POST_PROCESS",
         t.hand_state \in {"CR_CERT_VRFY", "CR_CERT_REQ", "SR_KEY_EXCH"},
         NEW u \in SSL, Agreed(t, u), SameKeys(t, u), u.transcript = t.transcript, u.bbio = t.bbio,
         u.cert_request = t.cert_request, u.peer = t.peer,
         u.cert_req = t.cert_req \/ (u.cert_req = 2 /\ t.opt.cert = "NONE"),
         u.hand_state = t.hand_state, u.state = "READING", u.sub = "HEADER"
  PROVE  Wire(u) /\ Steady(t, u)
<1>1. Always(t) /\ Alive(t) /\ Sided(t) /\ Spots(t)
  BY DEF Wire, Always, Alive
<1>2. /\ u.server = t.server /\ u.version = t.version /\ u.hit = t.hit /\ u.opt = t.opt
      /\ u.hello_retry_request = t.hello_retry_request
  BY DEF Agreed
<1>3. PlaceOK(t, u)
  <2>1. Sided(u) /\ Spots(u)
    BY <1>1, <1>2 DEF Sided, Spots
  <2>2. (OwnSent(u) <=> OwnSent(t)) /\ (PeerSeen(u) <=> PeerSeen(t))
    BY <1>2 DEF OwnSent, PeerSeen, Pending
  <2>3. Unopened(u) => Unopened(t)
    BY <1>2 DEF Unopened, Pending
  <2>4. /\ Answered(u) <=> Answered(t)
        /\ Deaf(u) => Deaf(t)
        /\ Heard(u) => Heard(t)
        /\ Decided(u) => Decided(t)
    BY <1>2 DEF Answered, Deaf, Heard, Decided, Pending
  <2> QED BY <2>1, <2>2, <2>3, <2>4 DEF PlaceOK
<1>4. InHand(u)
  BY DEF InHand
<1>5. KeyPlaces(u)
  <2>1. KeysKnown(u)
    BY <1>1, SameKeysKnown DEF Alive
  <2>2. Keyless(u) <=> Keyless(t)
    BY DEF Keyless
  <2>3. u.enc_read = t.enc_read /\ u.enc_write = t.enc_write
    BY DEF SameKeys
  <2> QED BY <1>1, <1>2, <1>3, <2>1, <2>2, <2>3 DEF Alive, KeyPlaces, PlaceOK
<1>6. CertPlaces(u)
  <2>1. (Wants(u) <=> Wants(t)) /\ (Asks(u) <=> Asks(t))
    BY SameChoices
  <2>2. Asked(t) /\ Shown(t) /\ (t.cert_req = 2 => t.opt.cert = "NONE")
    BY <1>1 DEF Alive
  <2>3. Asked(u)
    BY <1>2, <2>1, <2>2 DEF Asked
  <2>4. Shown(u)
    BY <1>2, <2>1, <2>2 DEF Shown
  <2> QED BY <1>2, <2>2, <2>3, <2>4 DEF CertPlaces
<1>7. Held2(t, u) /\ Secret(u) = Secret(t)
  BY HeldSame, SameSecret
<1> QED BY <1>3, <1>4, <1>5, <1>6, <1>7, Moved

LEMMA ClientPostWire ==
  ASSUME NEW t \in SSL, Live(t), Wire(t), t.state = "READING", t.sub = "POST_PROCESS",
         NEW u, u = client_post_process_message(t)
  PROVE  Wire(u) /\ Steady(t, u)
<1> DEFINE a == [t EXCEPT !.cert_req = 2]
<1>1. Always(t)
  BY DEF Wire
<1>2. \/ u = ossl_statem_fatal(t, "INTERNAL_ERROR")
      \/ /\ t.hand_state \in {"CR_CERT_VRFY", "CR_CERT_REQ"}
         /\ u = IF t.opt.cert = "NONE" THEN ContinueReading(a) ELSE ContinueReading(t)
  BY DEF client_post_process_message, tls_prepare_client_certificate
<1>3. CASE u = ossl_statem_fatal(t, "INTERNAL_ERROR")
  BY <1>1, <1>3, FatalWire DEF Reasons
<1>4. CASE /\ t.hand_state \in {"CR_CERT_VRFY", "CR_CERT_REQ"}
           /\ u = IF t.opt.cert = "NONE" THEN ContinueReading(a) ELSE ContinueReading(t)
  <2>1. a \in SSL
    <3>1. ASSUME NEW x \in 0..2 PROVE [t EXCEPT !.cert_req = x] \in SSL
      BY <3>1, ZenonT(120) DEF SSL
    <3>2. 2 \in 0..2
      OBVIOUS
    <3> QED BY <3>1, <3>2
  <2>2. /\ Agreed(t, a) /\ SameKeys(t, a) /\ a.transcript = t.transcript /\ a.bbio = t.bbio
        /\ a.cert_request = t.cert_request /\ a.peer = t.peer /\ a.cert_req = 2
        /\ a.hand_state = t.hand_state /\ a.state = t.state
    BY DEF SSL, Agreed, SameKeys
  <2> HIDE DEF a
  <2>3. \E c \in SSL :
          /\ u = ContinueReading(c) /\ Agreed(t, c) /\ SameKeys(t, c) /\ c.transcript = t.transcript
          /\ c.bbio = t.bbio /\ c.cert_request = t.cert_request /\ c.peer = t.peer
          /\ c.cert_req = t.cert_req \/ (c.cert_req = 2 /\ t.opt.cert = "NONE")
          /\ c.hand_state = t.hand_state /\ c.state = t.state
    <3>1. CASE t.opt.cert = "NONE"
      BY <1>4, <2>1, <2>2, <3>1
    <3>2. CASE t.opt.cert # "NONE"
      BY <1>4, <3>2 DEF Agreed, SameKeys
    <3> QED BY <3>1, <3>2
  <2>4. PICK c \in SSL :
          /\ u = ContinueReading(c) /\ Agreed(t, c) /\ SameKeys(t, c) /\ c.transcript = t.transcript
          /\ c.bbio = t.bbio /\ c.cert_request = t.cert_request /\ c.peer = t.peer
          /\ c.cert_req = t.cert_req \/ (c.cert_req = 2 /\ t.opt.cert = "NONE")
          /\ c.hand_state = t.hand_state /\ c.state = t.state
    BY <2>3
  <2>5. /\ u \in SSL /\ Agreed(c, u) /\ SameKeys(c, u) /\ SameCerts(c, u)
        /\ u.transcript = c.transcript /\ u.bbio = c.bbio /\ u.hand_state = c.hand_state
        /\ u.state = "READING" /\ u.sub = "HEADER"
    <3>1. u \in SSL
      BY <2>4, ContinueType
    <3> QED BY <2>4, <3>1 DEF ContinueReading, SSL, Agreed, SameKeys, SameCerts
  <2>6. /\ Agreed(t, u) /\ SameKeys(t, u) /\ u.transcript = t.transcript /\ u.bbio = t.bbio
        /\ u.cert_request = t.cert_request /\ u.peer = t.peer
        /\ u.cert_req = t.cert_req \/ (u.cert_req = 2 /\ t.opt.cert = "NONE")
        /\ u.hand_state = t.hand_state
    BY <2>4, <2>5 DEF Agreed, SameKeys, SameCerts
  <2> QED BY <1>4, <2>5, <2>6, WentOn
<1> QED BY <1>2, <1>3, <1>4


\* What a server that chooses leaves alone.
Choosing(t, a) ==
  /\ a.server = t.server /\ a.opt = t.opt /\ a.hand_state = t.hand_state /\ a.bbio = t.bbio
  /\ a.transcript = t.transcript /\ a.cert_req = t.cert_req
  /\ a.enc_read = t.enc_read /\ a.enc_write = t.enc_write
  /\ a.server_finished_hash = t.server_finished_hash
  /\ a.hit => a.opt.session = a.version

LEMMA ChoosingAlways ==
  ASSUME NEW t \in SSL, Always(t), t.hand_state = "SR_CLNT_HELLO", t.server,
         NEW a \in SSL, Choosing(t, a)
  PROVE  Always(a) /\ Steady(t, a) /\ ~Certain(a)
<1>1. ~Certain(t) /\ ~Certain(a) /\ ~OwnSent(a) /\ ~PeerSeen(a)
  BY DEF Choosing, Certain, OwnSent, PeerSeen
<1>2. Steady(t, a)
  BY <1>1 DEF Steady, Choosing, Certain
<1>3. Buffered(a) /\ Sided(a)
  <2>1. Sided(t)
    BY DEF Always
  <2>2. Held2(t, a)
    BY HeldSame DEF Choosing
  <2>3. Buffered(a)
    BY <1>2, <2>1, <2>2, BufferedKept DEF Held2, Always
  <2> QED BY <2>3 DEF Sided, Choosing, ServerStates
<1>4. OwnChains(a) /\ HelloFirst(a.transcript)
  BY DEF Always, OwnChains, Choosing
<1> QED BY <1>1, <1>2, <1>3, <1>4 DEF Always, Choosing

LEMMA ChoosingFails ==
  ASSUME NEW t \in SSL, Always(t), t.hand_state = "SR_CLNT_HELLO", t.server,
         NEW a \in SSL, Choosing(t, a), NEW r \in Reasons, NEW u, u = ossl_statem_fatal(a, r)
  PROVE  Wire(u) /\ Steady(t, u)
<1>1. Always(a) /\ Steady(t, a) /\ ~Certain(a) /\ ~Certain(t)
  BY ChoosingAlways DEF Certain, OwnSent, PeerSeen
<1>2. u \in SSL /\ Wire(u) /\ Steady(a, u) /\ Stays(a, u) /\ u.hand_state = a.hand_state /\ u.sub = a.sub
  BY <1>1, FatalWire, FatalEffect
<1>3. ~Certain(u)
  BY <1>1, <1>2, SamePlaces DEF Stays
<1> QED BY <1>1, <1>2, <1>3 DEF Steady, Certain

\* A server that has chosen.
LEMMA ChosenWire ==
  ASSUME NEW t \in SSL, Good(t), Wire(t), t.server, t.state = "READING", t.sub = "POST_PROCESS",
         t.hand_state = "SR_CLNT_HELLO",
         NEW u \in SSL, Choosing(t, u), u.state = "WRITING", u.sub = "TRANSITION",
         Picked(u, t.init_msg.flags), u.version = "TLS1_2" => t.hello_retry_request = "NONE",
         u.version = "TLS1_2" => u.new_cipher = u.opt.cipher
  PROVE  Wire(u) /\ Steady(t, u)
<1>1. /\ Always(t) /\ Alive(t) /\ Live(t)
  BY DEF Wire, Good
<1>2. Always(u) /\ Steady(t, u) /\ ~Certain(u)
  BY <1>1, ChoosingAlways
<1>3. /\ \/ t.version = "ANY"
         \/ t.version = "TLS1_3" /\ t.hello_retry_request # "NONE"
      /\ t.enc_read.epoch \in {"PLAIN", "HANDSHAKE"} /\ t.enc_write.epoch \in {"PLAIN", "HANDSHAKE"}
  BY HelloState
<1>4. /\ ~HasSH(t.transcript) /\ HasCH(t.transcript) /\ ~Opened(t.transcript)
      /\ \A i \in DOMAIN t.transcript : IsCH(t.transcript[i]) => t.transcript[i].flags = t.init_msg.flags
  <2>1. ~Answered(t) /\ Heard(t) /\ Unopened(t) /\ t.hand_state # "OK"
    BY DEF Answered, Heard, Unopened
  <2> QED BY <1>1, <2>1 DEF Alive
<1>5. u.transcript = t.transcript /\ u.server /\ u.hand_state = "SR_CLNT_HELLO"
      /\ u.enc_read = t.enc_read /\ u.enc_write = t.enc_write
      /\ u.server_finished_hash = t.server_finished_hash
      /\ u.cert_req = t.cert_req /\ u.opt = t.opt
  BY DEF Choosing
<1>6. InHand(u) /\ Spots(u)
  BY <1>5 DEF InHand, Spots
<1>7. Honours(u) /\ Obeys(u)
  BY <1>4, <1>5 DEF HasSH, Honours, Obeys
<1>8. ~Answered(u) /\ ~Deaf(u)
  BY <1>5 DEF Answered, Deaf
<1>9. u.version = "TLS1_2" => u.enc_read = PlainKey /\ u.enc_write = PlainKey
  <2>1. u.version = "TLS1_2" => t.version = "ANY"
    BY <1>3
  <2> QED BY <1>1, <1>5, <2>1 DEF Live, Early
<1>10. KeysKnown(u)
  <2>1. u.server_finished_hash # <<>> => UpToFinished(u.server_finished_hash, u.transcript)
    BY <1>1, <1>5 DEF Alive, KeysKnown
  <2> QED BY <1>3, <1>5, <1>9, <2>1 DEF KeysKnown
<1>11. Asked(u) /\ Shown(u)
  BY <1>5 DEF Asked, Shown
<1>12. u.cert_req = 2 => u.opt.cert = "NONE"
  BY <1>1, <1>5 DEF Alive
<1>13. Alive(u)
  BY <1>3, <1>4, <1>5, <1>6, <1>7, <1>8, <1>9, <1>10, <1>11, <1>12 DEF Alive
<1> QED BY <1>2, <1>13 DEF Wire


LEMMA PostHelloWire ==
  ASSUME NEW t \in SSL, Good(t), Wire(t), t.server, t.state = "READING", t.sub = "POST_PROCESS",
         t.hand_state = "SR_CLNT_HELLO",
         NEW u, u = tls_post_process_client_hello(t, t.init_msg)
  PROVE  Wire(u) /\ Steady(t, u)
<1> DEFINE m == t.init_msg
           f == m.flags
           v == ssl_choose_server_version(t, m)
           hit == SessFlag(v) \in f /\ t.opt.session = v
           fresh == ~hit \/ t.opt.renew
           a == [t EXCEPT !.version = v, !.hit = hit]
           e == "ems" \in f
           p == "ticket" \in f /\ t.opt.ticket /\ fresh
           q == "status" \in f /\ t.opt.status /\ ~hit /\ t.opt.cipher \in {"RSA", "DHE", "RSAPSK"}
           k == IF hit THEN <<Elem("SESSION", {})>> ELSE t.master_key
           b == [a EXCEPT !.new_cipher = t.opt.cipher, !.extms = e, !.ticket_expected = p,
                          !.status_expected = q, !.master_key = k]
           c == [a EXCEPT !.new_cipher = "TLS13", !.ticket_expected = fresh]
           d == final_key_share(c, m)
<1>1. Always(t) /\ Choosing(t, t) /\ m \in Records
  BY SSLParts DEF Wire, Always, Choosing
<1>2. /\ v \in {"TLS1_2", "TLS1_3", "NONE"}
      /\ v # "NONE" => v \in f \cap t.opt.versions
      /\ "TLS1_3" \in f \cap t.opt.versions => v = "TLS1_3"
      /\ v = "TLS1_2" => t.hello_retry_request = "NONE"
  <2>1. t.opt.versions \subseteq Versions
    BY DEF SSL, Options
  <2> QED BY <2>1 DEF ssl_choose_server_version, Versions
<1>3. /\ hit \in BOOLEAN /\ fresh \in BOOLEAN /\ e \in BOOLEAN /\ p \in BOOLEAN /\ q \in BOOLEAN
      /\ k \in Hash /\ t.opt.cipher \in Ciphers
  <2>1. t.opt.renew \in BOOLEAN /\ t.opt.ticket \in BOOLEAN /\ t.opt.status \in BOOLEAN
        /\ t.opt.cipher \in Ciphers
    BY DEF SSL, Options
  <2>2. k \in Hash
    BY ElemHashed, ShortHash, SSLParts
  <2> QED BY <2>1, <2>2
<1>4. \/ u = ossl_statem_fatal(t, "UNSUPPORTED_PROTOCOL")
      \/ u = ossl_statem_fatal(t, "BAD_EXTENSION")
      \/ v = "TLS1_2" /\ u = ossl_statem_fatal(a, "BAD_CIPHER")
      \/ v = "TLS1_2" /\ u = FinishedReading(b)
      \/ v = "TLS1_3" /\ d.state = "ERROR" /\ u = d
      \/ v = "TLS1_3" /\ d.state # "ERROR" /\ u = FinishedReading(d)
  <2>1. b = [a EXCEPT !.new_cipher = t.opt.cipher, !.extms = "ems" \in f,
                      !.ticket_expected = "ticket" \in f /\ t.opt.ticket /\ fresh,
                      !.status_expected = /\ "status" \in f /\ t.opt.status /\ ~hit
                                          /\ t.opt.cipher \in {"RSA", "DHE", "RSAPSK"},
                      !.master_key = IF hit THEN <<Elem("SESSION", {})>> ELSE @]
    <3>1. a.master_key = t.master_key
      BY DEF SSL
    <3> QED BY <3>1
  <2> HIDE DEF b
  <2> QED BY <1>2, <2>1 DEF tls_post_process_client_hello
<1>5. v # "NONE" /\ hit => SessFlag(v) \in f /\ t.opt.session = v
  OBVIOUS
<1>6. {"UNSUPPORTED_PROTOCOL", "BAD_EXTENSION", "BAD_CIPHER"} \cup KeyShareErrors \subseteq Reasons
  BY DEF Reasons, KeyShareErrors
<1>7. CASE u = ossl_statem_fatal(t, "UNSUPPORTED_PROTOCOL") \/ u = ossl_statem_fatal(t, "BAD_EXTENSION")
  BY <1>1, <1>6, <1>7, FatalWire
<1> HIDE DEF v, hit, fresh, p, q, k, e
<1>8. ASSUME v # "NONE" PROVE a \in SSL
  <2>1. ASSUME NEW x1 \in Versions, NEW x2 \in BOOLEAN PROVE [t EXCEPT !.version = x1, !.hit = x2] \in SSL
    BY <2>1, ZenonT(120) DEF SSL
  <2>2. v \in Versions
    BY <1>2, <1>8 DEF Versions
  <2> QED BY ONLY <1>3, <2>1, <2>2, Zenon
<1>9. /\ a.server = t.server /\ a.opt = t.opt /\ a.hand_state = t.hand_state /\ a.bbio = t.bbio
      /\ a.transcript = t.transcript /\ a.cert_req = t.cert_req /\ a.state = t.state
      /\ a.enc_read = t.enc_read /\ a.enc_write = t.enc_write
      /\ a.server_finished_hash = t.server_finished_hash /\ a.hit = hit /\ a.version = v
  BY DEF SSL
<1> HIDE DEF a
<1>10. CASE v = "TLS1_2" /\ u = ossl_statem_fatal(a, "BAD_CIPHER")
  <2>1. Choosing(t, a)
    BY <1>5, <1>9, <1>10 DEF Choosing
  <2> QED BY <1>1, <1>6, <1>8, <1>10, <2>1, ChoosingFails
<1>11. CASE v = "TLS1_2" /\ u = FinishedReading(b)
  <2>1. b \in SSL
    <3>1. ASSUME NEW x1 \in Ciphers, NEW x2 \in BOOLEAN, NEW x3 \in BOOLEAN, NEW x4 \in BOOLEAN,
                 NEW x5 \in Hash
          PROVE  [a EXCEPT !.new_cipher = x1, !.extms = x2, !.ticket_expected = x3,
                           !.status_expected = x4, !.master_key = x5] \in SSL
      <4>1. a \in SSL
        BY <1>8, <1>11
      <4> QED BY ONLY <3>1, <4>1, ZenonT(120) DEF SSL
    <3> QED BY ONLY <1>3, <3>1, Zenon DEF b
  <2>2. /\ b.server = t.server /\ b.opt = t.opt /\ b.hand_state = t.hand_state /\ b.bbio = t.bbio
        /\ b.transcript = t.transcript /\ b.cert_req = t.cert_req
        /\ b.enc_read = t.enc_read /\ b.enc_write = t.enc_write
        /\ b.server_finished_hash = t.server_finished_hash /\ b.hit = hit /\ b.version = v
        /\ b.new_cipher = t.opt.cipher /\ b.extms = e /\ b.state = t.state
    BY <1>8, <1>9, <1>11 DEF SSL
  <2> HIDE DEF b
  <2>3. u \in SSL
    BY <1>11, <2>1, ContinueType
  <2>4. /\ u.server = t.server /\ u.opt = t.opt /\ u.hand_state = t.hand_state /\ u.bbio = t.bbio
        /\ u.transcript = t.transcript /\ u.cert_req = t.cert_req
        /\ u.enc_read = t.enc_read /\ u.enc_write = t.enc_write
        /\ u.server_finished_hash = t.server_finished_hash /\ u.hit = hit /\ u.version = v
        /\ u.new_cipher = t.opt.cipher /\ u.extms = e
        /\ u.state = "WRITING" /\ u.sub = "TRANSITION"
    <3>1. /\ SameCerts(b, u) /\ SameKeys(b, u) /\ Agreed(b, u)
          /\ u.transcript = b.transcript /\ u.bbio = b.bbio /\ u.hand_state = b.hand_state
      <4>1. b.state = "READING"
        BY <2>2
      <4> QED BY <1>11, <2>1, <4>1, MovedOn
    <3>2. u.state = "WRITING" /\ u.sub = "TRANSITION"
      BY <1>11, <2>1 DEF FinishedReading, SSL
    <3> QED BY <2>2, <3>1, <3>2 DEF SameCerts, SameKeys, Agreed
  <2>5. Choosing(t, u)
    BY <1>5, <1>11, <2>4 DEF Choosing
  <2>6. Picked(u, f)
    <3>1. u.version \in f \cap u.opt.versions
      BY <1>2, <1>11, <2>4
    <3>2. "TLS1_3" \in f \cap u.opt.versions => u.version = "TLS1_3"
      BY <1>2, <2>4
    <3>3. u.hit => SessFlag(u.version) \in f
      BY <1>5, <1>11, <2>4
    <3>4. u.extms <=> "ems" \in f
      BY <2>4 DEF e
    <3> QED BY <3>1, <3>2, <3>3, <3>4 DEF Picked
  <2> QED BY <1>2, <1>11, <2>3, <2>4, <2>5, <2>6, ChosenWire
<1>12. CASE v = "TLS1_3"
  <2>1. c \in SSL
    <3>1. ASSUME NEW x1 \in Ciphers, NEW x2 \in BOOLEAN
          PROVE  [a EXCEPT !.new_cipher = x1, !.ticket_expected = x2] \in SSL
      <4>1. a \in SSL
        BY <1>8, <1>12
      <4> QED BY ONLY <3>1, <4>1, ZenonT(120) DEF SSL
    <3>2. "TLS13" \in Ciphers
      BY DEF Ciphers
    <3> QED BY ONLY <1>3, <3>1, <3>2, Zenon DEF c
  <2>2. /\ c.server = t.server /\ c.opt = t.opt /\ c.hand_state = t.hand_state /\ c.bbio = t.bbio
        /\ c.transcript = t.transcript /\ c.cert_req = t.cert_req
        /\ c.enc_read = t.enc_read /\ c.enc_write = t.enc_write
        /\ c.server_finished_hash = t.server_finished_hash /\ c.hit = hit /\ c.version = v
        /\ c.state = t.state
    BY <1>8, <1>9, <1>12 DEF SSL
  <2> HIDE DEF c
  <2>3. Choosing(t, c)
    BY <1>5, <1>12, <2>2 DEF Choosing
  <2>4. \/ \E code \in KeyShareErrors : d = ossl_statem_fatal(c, code)
        \/ \E g, r : d = Shared(c, g, r)
    <3> DEFINE usable == (m.flags \cap {"g1", "g2"}) \cap c.opt.groups
               r == IF c.hello_retry_request = "PENDING" THEN "COMPLETE" ELSE c.hello_retry_request
    <3>1. \/ \E code \in KeyShareErrors : d = ossl_statem_fatal(c, code)
          \/ d = [c EXCEPT !.group = CHOOSE g \in usable : TRUE, !.hello_retry_request = r]
          \/ d = [c EXCEPT !.group = CHOOSE g \in c.opt.groups : TRUE, !.hello_retry_request = "PENDING"]
      BY <2>1 DEF final_key_share, SSL, KeyShareErrors
    <3> DEFINE g1 == CHOOSE g \in usable : TRUE
               g2 == CHOOSE g \in c.opt.groups : TRUE
    <3>2. \/ \E code \in KeyShareErrors : d = ossl_statem_fatal(c, code)
          \/ d = Shared(c, g1, r)
          \/ d = Shared(c, g2, "PENDING")
      BY <3>1 DEF Shared
    <3> HIDE DEF usable, r, d, g1, g2
    <3> QED BY <3>2
  <2>5. d \in SSL
    BY <1>1, <2>1, KeyShareType
  <2> HIDE DEF d
  <2>6. ASSUME NEW code \in KeyShareErrors, d = ossl_statem_fatal(c, code)
        PROVE  Wire(u) /\ Steady(t, u)
    <3>1. d.state = "ERROR"
      BY <1>6, <2>1, <2>6, FatalEffect
    <3>2. u = d \/ (Wire(u) /\ Steady(t, u))
      BY <1>4, <1>7, <1>12, <3>1
    <3> QED BY <1>1, <1>6, <2>1, <2>3, <2>6, <3>2, ChoosingFails
  <2>7. ASSUME NEW g, NEW r, d = Shared(c, g, r)
        PROVE  Wire(u) /\ Steady(t, u)
    <3>1. /\ d.server = t.server /\ d.opt = t.opt /\ d.hand_state = t.hand_state /\ d.bbio = t.bbio
          /\ d.transcript = t.transcript /\ d.cert_req = t.cert_req
          /\ d.enc_read = t.enc_read /\ d.enc_write = t.enc_write
          /\ d.server_finished_hash = t.server_finished_hash /\ d.hit = hit /\ d.version = v
          /\ d.state = t.state
      BY <2>1, <2>2, <2>7 DEF SSL, Shared
    <3>2. u = FinishedReading(d) \/ (Wire(u) /\ Steady(t, u))
      BY <1>4, <1>7, <1>12, <3>1
    <3> SUFFICES ASSUME u = FinishedReading(d) PROVE Wire(u) /\ Steady(t, u)
      BY <3>2
    <3>3. u \in SSL
      BY <2>5, ContinueType
    <3>4. /\ u.server = t.server /\ u.opt = t.opt /\ u.hand_state = t.hand_state /\ u.bbio = t.bbio
          /\ u.transcript = t.transcript /\ u.cert_req = t.cert_req
          /\ u.enc_read = t.enc_read /\ u.enc_write = t.enc_write
          /\ u.server_finished_hash = t.server_finished_hash /\ u.hit = hit /\ u.version = v
          /\ u.state = "WRITING" /\ u.sub = "TRANSITION"
      <4>1. /\ SameCerts(d, u) /\ SameKeys(d, u) /\ Agreed(d, u)
            /\ u.transcript = d.transcript /\ u.bbio = d.bbio /\ u.hand_state = d.hand_state
        <5>1. d.state = "READING"
          BY <3>1
        <5> QED BY <2>5, <5>1, MovedOn
      <4>2. u.state = "WRITING" /\ u.sub = "TRANSITION"
        BY <2>5 DEF FinishedReading, SSL
      <4> QED BY <3>1, <4>1, <4>2 DEF SameCerts, SameKeys, Agreed
    <3>5. Choosing(t, u)
      BY <1>5, <1>12, <3>4 DEF Choosing
    <3>6. Picked(u, f)
      <4>1. u.version \in f \cap u.opt.versions
        BY <1>2, <1>12, <3>4
      <4>2. u.version = "TLS1_3"
        BY <1>12, <3>4
      <4>3. u.hit => SessFlag(u.version) \in f
        BY <1>5, <1>12, <3>4
      <4> QED BY <4>1, <4>2, <4>3 DEF Picked
    <3> QED BY <1>12, <3>3, <3>4, <3>5, <3>6, ChosenWire
  <2>8. ASSUME \E g, r : d = Shared(c, g, r)
        PROVE  Wire(u) /\ Steady(t, u)
    <3>1. PICK g, r : d = Shared(c, g, r)
      BY <2>8
    <3> QED BY <2>7, <3>1
  <2> QED BY <2>4, <2>6, <2>8
<1> QED BY <1>2, <1>4, <1>7, <1>10, <1>11, <1>12

\* post_process_message of a server.
LEMMA ServerPostWire ==
  ASSUME NEW t \in SSL, Good(t), Wire(t), t.server, t.state = "READING", t.sub = "POST_PROCESS",
         NEW u, u = server_post_process_message(t, t.init_msg)
  PROVE  Wire(u) /\ Steady(t, u)
<1>1. Always(t) /\ Live(t)
  BY DEF Wire, Good
<1>2. CASE t.hand_state = "SR_CLNT_HELLO"
  BY <1>2, PostHelloWire DEF server_post_process_message
<1>3. CASE t.hand_state = "SR_KEY_EXCH"
  <2>1. u = ContinueReading(t)
    BY <1>3 DEF server_post_process_message
  <2>2. u \in SSL
    BY <2>1, ContinueType
  <2>3. /\ Agreed(t, u) /\ SameKeys(t, u) /\ SameCerts(t, u) /\ u.transcript = t.transcript
        /\ u.bbio = t.bbio /\ u.hand_state = t.hand_state /\ u.state = "READING" /\ u.sub = "HEADER"
    <3>1. u.state = "READING" /\ u.sub = "HEADER"
      BY <2>1 DEF ContinueReading, SSL
    <3> QED BY <2>1, <3>1, MovedOn
  <2> QED BY <1>1, <1>3, <2>2, <2>3, WentOn DEF SameCerts
<1>4. CASE u = ossl_statem_fatal(t, "INTERNAL_ERROR")
  BY <1>1, <1>4, FatalWire DEF Reasons
<1> QED BY <1>2, <1>3, <1>4 DEF server_post_process_message


-----------------------------------------------------------------------------
(* Entering the state machine, and pushing out the buffering BIO *)

\* tls_setup_handshake: nothing is hashed, chosen or installed yet.
LEMMA StartWire ==
  ASSUME NEW t \in SSL, Live(t), Wire(t), t.state = "UNINITED", t.hand_state = "BEFORE",
         NEW u \in SSL, u = state_machine_init(t)
  PROVE  Wire(u) /\ Steady(t, u) /\ u.sub = "TRANSITION"
<1>1. Always(t) /\ Alive(t) /\ Sided(t)
  BY DEF Wire, Always, Alive
<1>2. t.version = "ANY"
  <2>1. t.version \in {"ANY", "TLS1_2", "TLS1_3"} /\ t.server \in BOOLEAN
    BY DEF SSL, Versions
  <2> QED BY <2>1 DEF Live, Server12, Server13, Client
<1>3. PICK a : a = Entered(t)
  OBVIOUS
<1>4. /\ a \in SSL /\ a.hand_state = "BEFORE" /\ a.state = "WRITING" /\ a.sub = "TRANSITION"
  BY <1>3, EnteredKept
<1>5. /\ a.server = t.server /\ a.opt = t.opt /\ a.version = t.version /\ a.hit = t.hit
      /\ a.cert_req = t.cert_req /\ a.server_finished_hash = t.server_finished_hash
      /\ a.bbio = <<>>
  BY <1>3 DEF Entered, SSL
<1>6. u = tls_setup_handshake(a)
  BY <1>3 DEF state_machine_init, Entered
<1>7. /\ u.hand_state = "BEFORE" /\ u.state = "WRITING" /\ u.sub = "TRANSITION"
      /\ u.server = t.server /\ u.opt = t.opt /\ u.version = "ANY"
      /\ u.server_finished_hash = t.server_finished_hash /\ u.bbio = <<>>
      /\ u.transcript = <<>>
      /\ u.hit => t.hit
      /\ u.cert_req = t.cert_req \/ u.cert_req = 0
  <2> DEFINE i == a.hit /\ a.server
             c == IF a.server THEN a.cert_req ELSE 0
  <2>1. u = [a EXCEPT !.transcript = <<>>, !.hit = i, !.cert_req = c]
    BY <1>6 DEF tls_setup_handshake
  <2>2. i => a.hit
    OBVIOUS
  <2>3. c = a.cert_req \/ c = 0
    OBVIOUS
  <2> HIDE DEF i, c
  <2>4. u.hit = i /\ u.cert_req = c
    BY <1>4, <2>1 DEF SSL
  <2>5. /\ u.hand_state = a.hand_state /\ u.state = a.state /\ u.sub = a.sub
        /\ u.server = a.server /\ u.opt = a.opt /\ u.version = a.version
        /\ u.server_finished_hash = a.server_finished_hash /\ u.bbio = a.bbio
        /\ u.transcript = <<>>
    BY <1>4, <2>1 DEF SSL
  <2> QED BY <1>2, <1>4, <1>5, <2>2, <2>3, <2>4, <2>5
<1>8. ~Certain(t) /\ ~Certain(u) /\ ~PeerSeen(u) /\ ~OwnSent(u)
  BY <1>7 DEF Certain, OwnSent, PeerSeen
<1>9. Steady(t, u)
  BY <1>7, <1>8 DEF Steady, Certain
<1>10. u.server_finished_hash = <<>>
  <2>1. ~Opened(t.transcript) /\ KeysKnown(t)
    BY <1>1, <1>2 DEF Alive, Unopened
  <2> QED BY <1>7, <2>1, UnopenedHash DEF KeysKnown
<1>11. /\ ~HasCH(u.transcript) /\ ~HasSH(u.transcript) /\ ~Opened(u.transcript)
       /\ HelloFirst(u.transcript) /\ OwnChains(u) /\ Honours(u)
       /\ \A i \in DOMAIN u.transcript : FALSE
  BY <1>7 DEF HasCH, HasSH, Opened, HelloFirst, OwnChains, Honours
<1>12. u.hit => u.opt.session = u.version
  BY <1>1, <1>2, <1>7 DEF Always
<1>13. Always(u)
  <2>1. Sided(u) /\ Buffered(u)
    BY <1>7 DEF Sided, Buffered
  <2> QED BY <1>7, <1>8, <1>11, <1>12, <2>1 DEF Always
<1>14. Alive(u)
  <2>1. InHand(u) /\ Spots(u) /\ Asked(u) /\ Shown(u)
    BY <1>7 DEF InHand, Spots, Asked, Shown
  <2>2. ~Answered(u) /\ ~Heard(u) /\ ~Decided(u)
    BY <1>7 DEF Answered, Heard, Decided
  <2>3. KeysKnown(u)
    BY <1>7, <1>10 DEF KeysKnown
  <2>4. u.cert_req = 2 => u.opt.cert = "NONE"
    BY <1>1, <1>7 DEF Alive
  <2> QED BY <1>7, <1>11, <2>1, <2>2, <2>3, <2>4 DEF Alive
<1> QED BY <1>7, <1>9, <1>13, <1>14 DEF Wire

\* Nothing but the flow changes when SSL_read enters the machine again.
LEMMA AgainWire ==
  ASSUME NEW t \in SSL, Live(t), Wire(t), t.state = "FINISHED", t.hand_state = "OK",
         NEW a, a = Again(t), NEW u \in SSL, u = state_machine_init(a)
  PROVE  Wire(u) /\ Steady(t, u) /\ u.sub = "TRANSITION"
<1>1. a \in SSL
  BY ZenonT(120) DEF SSL, Again
<1>2. Stays(t, a) /\ a.hand_state = "OK"
  BY DEF Again, SSL, Stays, Agreed, SameKeys, SameCerts
<1>3. u = Entered(a)
  BY <1>2 DEF state_machine_init, Entered
<1>4. u.hand_state = "OK" /\ u.sub = "TRANSITION"
  BY <1>1, <1>2, <1>3, EnteredKept
<1>5. Stays(a, u) /\ u.bbio = <<>>
  BY <1>1, <1>3 DEF Entered, SSL, Stays, Agreed, SameKeys, SameCerts
<1>6. Stays(t, u)
  BY <1>2, <1>5 DEF Stays, Agreed, SameKeys, SameCerts
<1>7. /\ Agreed(t, u) /\ SameKeys(t, u) /\ u.transcript = t.transcript
      /\ u.server = t.server /\ u.version = t.version /\ u.cert_req = t.cert_req /\ u.opt = t.opt
      /\ u.hello_retry_request = t.hello_retry_request
      /\ u.enc_read = t.enc_read /\ u.enc_write = t.enc_write
  BY <1>6 DEF Stays, Agreed, SameKeys, SameCerts
<1>8. Alive(t)
  BY DEF Wire
<1>9. PlaceOK(t, u) /\ InHand(u) /\ PeerSeen(u)
  <2>1. Sided(u) /\ Spots(u) /\ InHand(u) /\ OwnSent(u) /\ OwnSent(t) /\ PeerSeen(u) /\ PeerSeen(t)
    BY <1>4 DEF Sided, Spots, InHand, OwnSent, PeerSeen
  <2>2. Unopened(u) => Unopened(t)
    BY <1>4, <1>7 DEF Unopened
  <2>3. /\ Answered(u) => Answered(t)
        /\ Deaf(u) => Deaf(t)
        /\ Heard(u) => Heard(t)
        /\ Decided(u) => Decided(t)
    BY <1>4, <1>7 DEF Answered, Deaf, Heard, Decided, Pending
  <2> QED BY <1>4, <2>1, <2>2, <2>3 DEF PlaceOK
<1>10. KeyPlaces(u)
  <2>1. KeysKnown(u)
    BY <1>7, <1>8, SameKeysKnown DEF Alive
  <2>2. ~Keyless(u)
    BY <1>4 DEF Keyless
  <2> QED BY <1>9, <2>1, <2>2 DEF KeyPlaces
<1>11. CertPlaces(u)
  <2>1. Asked(u)
    BY <1>4 DEF Asked
  <2>2. Shown(t) => Shown(u)
    BY <1>4, <1>7, SameChoices DEF Shown, Agreed
  <2> QED BY <1>7, <1>8, <2>1, <2>2 DEF CertPlaces, Alive
<1>12. Held2(t, u) /\ Secret(u) = Secret(t)
  BY <1>5, <1>7, SameSecret DEF Held2
<1> QED BY <1>4, <1>7, <1>9, <1>10, <1>11, <1>12, Moved

\* Emptying the buffering BIO changes nothing else.
LEMMA DrainedWire ==
  ASSUME NEW t \in SSL, Wire(t), NEW q, NEW u \in SSL, u = Drained(t, q), Held2(t, u)
  PROVE  Wire(u) /\ Steady(t, u) /\ u.state = t.state /\ u.sub = t.sub /\ u.init_msg = t.init_msg
         /\ u.hand_state = t.hand_state /\ Stays(t, u)
<1>1. /\ Stays(t, u) /\ u.hand_state = t.hand_state /\ u.sub = t.sub /\ u.state = t.state
      /\ u.init_msg = t.init_msg
  BY DEF Drained, SSL, Stays, Agreed, SameKeys, SameCerts
<1>2. Always(u) /\ Steady(t, u)
  BY <1>1, Failed DEF Wire
<1>3. ASSUME Alive(t) PROVE Alive(u)
  <2>1. /\ Agreed(t, u) /\ SameKeys(t, u) /\ u.transcript = t.transcript
        /\ u.server = t.server /\ u.version = t.version /\ u.cert_req = t.cert_req /\ u.opt = t.opt
        /\ u.cert_request = t.cert_request /\ u.peer = t.peer /\ u.hit = t.hit
        /\ u.hello_retry_request = t.hello_retry_request /\ u.new_cipher = t.new_cipher
        /\ u.enc_read = t.enc_read /\ u.enc_write = t.enc_write
    BY <1>1 DEF Stays, Agreed, SameKeys, SameCerts
  <2>2. InHand(u)
    <3>1. final_finish_mac(u, Side(u)) = final_finish_mac(t, Side(t))
      BY <2>1, SameChoices DEF SameKeys, final_finish_mac, SSL_IS_TLS13
    <3>2. \A f : (Offer(t, f) => Offer(u, f)) /\ (Answers(t, f) => Answers(u, f))
      BY <2>1 DEF Agreed, Offer, Answers
    <3>3. (Pending(u) <=> Pending(t)) /\ InHand(t)
      BY <1>3, <2>1 DEF Pending, Alive
    <3> QED BY <1>1, <2>1, <3>1, <3>2, <3>3 DEF InHand
  <2>3. Spots(u) /\ KeysKnown(u) /\ Honours(u) /\ (Obeys(t) => Obeys(u))
    <3>1. Spots(t) /\ KeysKnown(t) /\ Honours(t)
      BY <1>3 DEF Alive
    <3>2. Spots(u)
      BY <1>1, <2>1, <3>1 DEF Spots
    <3> QED BY <2>1, <3>1, <3>2, SameKeysKnown, SameChoices
  <2>4. /\ Answered(u) <=> Answered(t)
        /\ Deaf(u) <=> Deaf(t)
        /\ Heard(u) <=> Heard(t)
        /\ Decided(u) <=> Decided(t)
        /\ Unopened(u) <=> Unopened(t)
        /\ Keyless(u) <=> Keyless(t)
        /\ PeerSeen(u) <=> PeerSeen(t)
    <3>1. (Answered(u) <=> Answered(t)) /\ (Deaf(u) <=> Deaf(t)) /\ (Heard(u) <=> Heard(t))
      BY <1>1, <2>1 DEF Answered, Deaf, Heard, Pending
    <3>2. (Decided(u) <=> Decided(t)) /\ (Unopened(u) <=> Unopened(t)) /\ (Keyless(u) <=> Keyless(t))
      BY <1>1, <2>1 DEF Decided, Unopened, Keyless, Pending
    <3> QED BY <1>1, <2>1, <3>1, <3>2, SamePlaces
  <2>5. Asked(u) /\ Shown(u)
    <3>1. (Wants(u) <=> Wants(t)) /\ (Asks(u) <=> Asks(t)) /\ Asked(t) /\ Shown(t)
      BY <1>3, <2>1, SameChoices DEF Alive
    <3>2. Asked(u)
      BY <1>1, <2>1, <3>1 DEF Asked, Pending
    <3>3. Shown(u)
      BY <1>1, <2>1, <3>1 DEF Shown
    <3> QED BY <3>2, <3>3
  <2> QED BY <1>1, <1>3, <2>1, <2>2, <2>3, <2>4, <2>5 DEF Alive
<1> QED BY <1>1, <1>2, <1>3 DEF Wire


-----------------------------------------------------------------------------
(* A message is processed once *)

Done(u) == u.state = "ERROR" \/ u.sub # "BODY"
Fields(x) == "sub" \in DOMAIN x /\ "state" \in DOMAIN x

LEMMA DoneMoves ==
  ASSUME NEW x, Fields(x)
  PROVE  /\ Done(ContinueReading(x)) /\ Done(ContinueProcessing(x)) /\ Done(FinishedReading(x))
         /\ \A r : Done(ossl_statem_fatal(x, r))
<1>1. ContinueReading(x).sub = "HEADER"
  BY DEF Fields, ContinueReading
<1>2. ContinueProcessing(x).sub = "POST_PROCESS"
  BY DEF Fields, ContinueProcessing
<1>3. FinishedReading(x).sub = "TRANSITION"
  BY DEF Fields, FinishedReading
<1>4. ASSUME NEW r PROVE ossl_statem_fatal(x, r).state = "ERROR"
  BY DEF Fields, ossl_statem_fatal
<1> QED BY <1>1, <1>2, <1>3, <1>4 DEF Done

LEMMA FieldsKept ==
  ASSUME NEW x, Fields(x)
  PROVE  /\ \A k : Fields(InstallRead(x, k))
         /\ \A e : Fields(tls13_change_read(x, e))
         /\ \A mt, f : Fields(ssl3_finish_mac(x, mt, f))
         /\ Fields(create_synthetic_message_hash(x))
         /\ Fields(ssl_generate_master_secret(x))
<1>1. \A k : Fields(InstallRead(x, k))
  BY DEF Fields, InstallRead
<1>2. ASSUME NEW e PROVE Fields(tls13_change_read(x, e))
  BY DEF Fields, InstallRead, tls13_change_read, SaveHash
<1>3. \A mt, f : Fields(ssl3_finish_mac(x, mt, f))
  BY DEF Fields, ssl3_finish_mac
<1>4. Fields(create_synthetic_message_hash(x))
  BY DEF Fields, create_synthetic_message_hash
<1>5. Fields(ssl_generate_master_secret(x))
  BY DEF Fields, ssl_generate_master_secret
<1> QED BY <1>1, <1>2, <1>3, <1>4, <1>5

LEMMA SharedDone ==
  ASSUME NEW x, Fields(x), NEW m
  PROVE  /\ Done(tls_process_change_cipher_spec(x))
         /\ Done(tls_process_cert_verify(x, m))
         /\ Done(tls_process_finished(x, m))
<1>1. Done(tls_process_change_cipher_spec(x))
  <2> DEFINE a == [x EXCEPT !.change_cipher_spec = TRUE]
             k == tls1_key(x, PeerSide(x))
  <2>1. Fields(a)
    BY DEF Fields
  <2>2. tls_process_change_cipher_spec(x) \in
          {ossl_statem_fatal(x, "CCS_RECEIVED_EARLY"), ossl_statem_fatal(a, "INTERNAL_ERROR"),
           ContinueReading(InstallRead(a, k))}
    BY DEF tls_process_change_cipher_spec
  <2> HIDE DEF a, k
  <2>3. Fields(InstallRead(a, k))
    BY <2>1, FieldsKept
  <2> QED BY <2>1, <2>2, <2>3, DoneMoves
<1>2. Done(tls_process_cert_verify(x, m))
  BY DoneMoves DEF tls_process_cert_verify
<1>3. Done(tls_process_finished(x, m))
  <2> DEFINE a == [x EXCEPT !.plain_alerts = x.plain_alerts /\ ~x.server,
                            !.cleanuphand = x.cleanuphand \/ x.server]
             b == [a EXCEPT !.change_cipher_spec = FALSE]
             c == tls13_change_read(b, "APPLICATION")
  <2>1. Fields(a)
    BY DEF Fields
  <2>2. Fields(b)
    BY <2>1 DEF Fields
  <2>3. tls_process_finished(x, m) \in
          {ossl_statem_fatal(a, "GOT_A_FIN_BEFORE_A_CCS"), ossl_statem_fatal(b, "DIGEST_CHECK_FAILED"),
           FinishedReading(c), FinishedReading(b)}
    BY DEF tls_process_finished
  <2> HIDE DEF a, b
  <2>4. Fields(c)
    BY <2>2, FieldsKept
  <2> HIDE DEF c
  <2> QED BY <2>1, <2>2, <2>3, <2>4, DoneMoves
<1> QED BY <1>1, <1>2, <1>3

LEMMA ClientDone ==
  ASSUME NEW x, Fields(x), NEW m
  PROVE  Done(client_process_message(x, m)) /\ Done(client_post_process_message(x))
<1>1. Done(tls_process_as_hello_retry_request(x, m))
  <2> DEFINE new == (m.flags \cap {"g1", "g2"}) \ {x.group}
             cipher == m.flags \cap Ciphers
             a == [x EXCEPT !.hello_retry_request = "PENDING"]
             b == [a EXCEPT !.enc_write = PlainKey, !.new_cipher = CHOOSE c \in cipher : TRUE]
             c == [b EXCEPT !.group = CHOOSE g \in new : TRUE]
             d == ssl3_finish_mac(create_synthetic_message_hash(c), m.mt, m.flags)
  <2>1. tls_process_as_hello_retry_request(x, m) \in
          {ossl_statem_fatal(a, "BAD_CIPHER"), ossl_statem_fatal(b, "BAD_EXTENSION"), FinishedReading(d)}
    BY DEF tls_process_as_hello_retry_request
  <2> HIDE DEF new, cipher
  <2>2. Fields(a)
    BY DEF Fields
  <2> HIDE DEF a
  <2>3. Fields(b)
    BY <2>2 DEF Fields
  <2> HIDE DEF b
  <2>4. Fields(c)
    BY <2>3 DEF Fields
  <2> HIDE DEF c
  <2>5. Fields(d)
    <3>1. Fields(create_synthetic_message_hash(c))
      BY <2>4, FieldsKept
    <3> QED BY <3>1, FieldsKept
  <2> HIDE DEF d
  <2> QED BY <2>1, <2>2, <2>3, <2>5, DoneMoves
<1>2. Done(tls_process_server_hello(x, m))
  <2> DEFINE v == ServerHelloVersion(m)
             why == ssl_choose_client_version(x, m)
             hit == "hit" \in m.flags /\ x.opt.session = v
             a == [x EXCEPT !.version = v, !.hit = hit]
             b == [a EXCEPT !.new_cipher = IF v = "TLS1_3" THEN "TLS13" ELSE x.opt.cipher,
                            !.ticket_expected = "ticket" \in m.flags,
                            !.status_expected = "status" \in m.flags,
                            !.extms = "ems" \in m.flags,
                            !.master_key = IF hit /\ v = "TLS1_2" THEN <<Elem("SESSION", {})>> ELSE @]
             c == tls13_change_read(b, "HANDSHAKE")
  <2>1. \/ tls_process_server_hello(x, m) = tls_process_as_hello_retry_request(x, m)
        \/ tls_process_server_hello(x, m) = ossl_statem_fatal(x, why)
        \/ tls_process_server_hello(x, m) = ossl_statem_fatal(a, "BAD_CIPHER")
        \/ tls_process_server_hello(x, m) = ossl_statem_fatal(a, "BAD_EXTENSION")
        \/ tls_process_server_hello(x, m) = ContinueReading(c)
        \/ tls_process_server_hello(x, m) = ContinueReading(b)
    BY DEF tls_process_server_hello
  <2> HIDE DEF v, why, hit
  <2>2. Fields(a)
    BY DEF Fields
  <2> HIDE DEF a
  <2>3. Fields(b)
    BY <2>2 DEF Fields
  <2> HIDE DEF b
  <2>4. Fields(c)
    BY <2>3, FieldsKept
  <2> HIDE DEF c
  <2> QED BY <1>1, <2>1, <2>2, <2>3, <2>4, DoneMoves
<1>3. Done(tls_process_server_certificate(x, m))
  <2>1. Fields([x EXCEPT !.peer = TRUE])
    BY DEF Fields
  <2> QED BY <2>1, DoneMoves DEF tls_process_server_certificate
<1>4. Done(tls_process_key_exchange(x, m)) /\ Done(tls_process_new_session_ticket(x))
  BY DoneMoves DEF tls_process_key_exchange, tls_process_new_session_ticket
<1>5. Done(tls_process_certificate_request(x))
  <2>1. Fields([x EXCEPT !.cert_req = 1])
    BY DEF Fields
  <2> QED BY <2>1, DoneMoves DEF tls_process_certificate_request
<1>6. Done(tls_prepare_client_certificate(x))
  <2>1. Fields([x EXCEPT !.cert_req = 2])
    BY DEF Fields
  <2> QED BY <2>1, DoneMoves DEF tls_prepare_client_certificate
<1>7. Done(client_process_message(x, m))
  BY <1>2, <1>3, <1>4, <1>5, SharedDone, DoneMoves DEF client_process_message
<1>8. Done(client_post_process_message(x))
  BY <1>6, DoneMoves DEF client_post_process_message
<1> QED BY <1>7, <1>8

LEMMA ServerDone ==
  ASSUME NEW x, Fields(x), x.sub # "BODY", NEW m
  PROVE  Done(server_post_process_message(x, m))
<1>1. Done(tls_post_process_client_hello(x, m))
  <2> DEFINE v == ssl_choose_server_version(x, m)
             hit == SessFlag(v) \in m.flags /\ x.opt.session = v
             fresh == ~hit \/ x.opt.renew
             a == [x EXCEPT !.version = v, !.hit = hit]
             b == [a EXCEPT !.new_cipher = x.opt.cipher, !.extms = "ems" \in m.flags,
                            !.ticket_expected = "ticket" \in m.flags /\ x.opt.ticket /\ fresh,
                            !.status_expected = /\ "status" \in m.flags /\ x.opt.status /\ ~hit
                                                /\ x.opt.cipher \in {"RSA", "DHE", "RSAPSK"},
                            !.master_key = IF hit THEN <<Elem("SESSION", {})>> ELSE @]
             c == [a EXCEPT !.new_cipher = "TLS13", !.ticket_expected = fresh]
             d == final_key_share(c, m)
  <2>1. \/ tls_post_process_client_hello(x, m) = ossl_statem_fatal(x, "UNSUPPORTED_PROTOCOL")
        \/ tls_post_process_client_hello(x, m) = ossl_statem_fatal(x, "BAD_EXTENSION")
        \/ tls_post_process_client_hello(x, m) = ossl_statem_fatal(a, "BAD_CIPHER")
        \/ tls_post_process_client_hello(x, m) = FinishedReading(b)
        \/ tls_post_process_client_hello(x, m) = FinishedReading(d)
        \/ d.state = "ERROR" /\ tls_post_process_client_hello(x, m) = d
    BY DEF tls_post_process_client_hello
  <2> HIDE DEF v, hit, fresh
  <2>2. Fields(a)
    BY DEF Fields
  <2> HIDE DEF a
  <2>3. Fields(b) /\ Fields(c)
    BY <2>2 DEF Fields
  <2> HIDE DEF b, c
  <2>4. Fields(d)
    BY <2>3 DEF Fields, final_key_share, ossl_statem_fatal
  <2> HIDE DEF d
  <2>5. d.state = "ERROR" => Done(d)
    BY DEF Done
  <2> QED BY <2>1, <2>2, <2>3, <2>4, <2>5, DoneMoves
<1> QED BY <1>1, DoneMoves DEF server_post_process_message

LEMMA ServerBodyDone ==
  ASSUME NEW x, Fields(x), NEW m
  PROVE  Done(server_process_message(x, m))
<1>1. Done(tls_process_client_certificate(x, m))
  <2> DEFINE a == [x EXCEPT !.plain_alerts = FALSE]
             c == [a EXCEPT !.peer = "chain" \in m.flags,
                            !.sent_tickets = IF SSL_IS_TLS13(x) THEN 0 ELSE @]
  <2>1. Fields(a)
    BY DEF Fields
  <2>2. tls_process_client_certificate(x, m) \in
          {ossl_statem_fatal(a, "NO_PEER_CERTIFICATE"), ossl_statem_fatal(a, "VERIFY_FAILED"),
           ContinueReading(c)}
    BY DEF tls_process_client_certificate
  <2> HIDE DEF a
  <2>3. Fields(c)
    BY <2>1 DEF Fields
  <2> HIDE DEF c
  <2> QED BY <2>1, <2>2, <2>3, DoneMoves
<1>2. Done(tls_process_client_key_exchange(x))
  <2>1. Fields(ssl_generate_master_secret(x))
    BY FieldsKept
  <2> QED BY <2>1, DoneMoves DEF tls_process_client_key_exchange
<1> QED BY <1>1, <1>2, SharedDone, DoneMoves DEF server_process_message


-----------------------------------------------------------------------------
(* The step *)

\* Whether or not the buffering BIO is flushed.
LEMMA SettleWire ==
  ASSUME NEW x \in SSL, NEW t \in SSL, Wire(t), Steady(x, t), NEW flush,
         out \in Seq(Records), Settle(t, flush)
  PROVE  /\ Wire(s') /\ Steady(x, s') /\ OutRecords(out, s', out')
         /\ InBody(s') => InBody(t) /\ s'.init_msg = t.init_msg
<1>1. PICK u : u = s'
  OBVIOUS
<1>2. u \in SSL
  BY <1>1, SettleType
<1>3. t.bbio \in Seq(Records)
  BY SSLParts
<1>4. (u = t \/ u = Drained(t, <<>>)) /\ (out' = out \/ out' = out \o t.bbio)
  BY <1>1 DEF Settle, Drained
<1>5. Wire(u) /\ Steady(x, u) /\ Steady(t, u) /\ (InBody(u) => InBody(t) /\ u.init_msg = t.init_msg)
  <2>1. CASE u = t
    BY <2>1, SelfWire
  <2>2. CASE u = Drained(t, <<>>)
    <3>1. Held2(t, u)
      <4>1. u.bbio = <<>>
        BY <2>2 DEF Drained, SSL
      <4> QED BY <4>1 DEF Held2
    <3>2. Wire(u) /\ Steady(t, u) /\ u.state = t.state /\ u.sub = t.sub /\ u.init_msg = t.init_msg
          /\ u.hand_state = t.hand_state /\ Stays(t, u)
      BY <1>2, <2>2, <3>1, DrainedWire
    <3>3. Agreed(t, u) /\ u.transcript = t.transcript
      BY <3>2 DEF Stays
    <3>4. Secret(u) = Secret(t)
      BY <3>2, SameSecret DEF Stays
    <3>5. (OwnSent(u) <=> OwnSent(t)) /\ (PeerSeen(u) <=> PeerSeen(t))
      BY <3>2, <3>3, SamePlaces
    <3>6. Steady(x, u)
      BY <3>3, <3>4, <3>5 DEF Steady, Fixed, Agreed, Certain
    <3> QED BY <3>2, <3>6 DEF InBody
  <2> QED BY <1>4, <2>1, <2>2
<1>6. OutRecords(out, u, out')
  <2>1. CASE out' = out
    BY <2>1 DEF OutRecords
  <2>2. CASE out' = out \o t.bbio
    <3>1. ASSUME NEW i \in DOMAIN out'
          PROVE  (\E j \in DOMAIN out : out'[i] = out[j]) \/ (\E j \in DOMAIN t.bbio : out'[i] = t.bbio[j])
      <4>1. i \in 1..(Len(out) + Len(t.bbio))
        BY <1>3, <2>2
      <4>2. CASE i <= Len(out)
        <5>1. i \in DOMAIN out /\ out'[i] = out[i]
          BY <1>3, <2>2, <4>1, <4>2
        <5> QED BY <5>1
      <4>3. CASE i > Len(out)
        <5>1. i - Len(out) \in DOMAIN t.bbio /\ out'[i] = t.bbio[i - Len(out)]
          BY <1>3, <2>2, <4>1, <4>3
        <5> QED BY <5>1
      <4> QED BY <4>1, <4>2, <4>3
    <3>2. ASSUME NEW j \in DOMAIN t.bbio PROVE FinRecord(u, t.bbio[j]) /\ FlagsOK(t.bbio[j])
      <4>1. Sided(t) /\ FinRecord(t, t.bbio[j]) /\ FlagsOK(t.bbio[j])
        BY DEF Wire, Always, Buffered
      <4>2. t.bbio[j] \in Records
        BY <1>3
      <4> QED BY <1>2, <1>5, <4>1, <4>2, RecordsKept
    <3> QED BY <3>1, <3>2 DEF OutRecords
  <2> QED BY <1>4, <2>1, <2>2
<1> QED BY <1>1, <1>5, <1>6

\* A record leaves the buffering BIO.
LEMMA SpillWire ==
  ASSUME s \in SSL, Wire(s), out \in Seq(Records), Spill
  PROVE  Wire(s') /\ Steady(s, s') /\ OutRecords(out, s', out') /\ ~InBody(s')
<1>1. s.bbio \in Seq(Records) /\ s.bbio # <<>> /\ s.state = "WRITING"
  BY SSLParts DEF Spill
<1>2. PICK u : u = s'
  OBVIOUS
<1>3. u = Drained(s, Tail(s.bbio))
  BY <1>2 DEF Spill, Drained
<1>4. Tail(s.bbio) \in Seq(Records) /\ Head(s.bbio) = s.bbio[1] /\ 1 \in DOMAIN s.bbio
  BY <1>1
<1>5. u \in SSL
  <2>1. ASSUME NEW q \in Seq(Records) PROVE [s EXCEPT !.bbio = q] \in SSL
    BY ZenonT(120) DEF SSL
  <2> QED BY <1>3, <1>4, <2>1, Zenon DEF Drained
<1>6. u.bbio = Tail(s.bbio)
  BY <1>3 DEF Drained, SSL
<1>7. Held2(s, u)
  <2>1. ASSUME NEW i \in DOMAIN u.bbio PROVE \E j \in DOMAIN s.bbio : u.bbio[i] = s.bbio[j]
    <3>1. i + 1 \in DOMAIN s.bbio /\ u.bbio[i] = s.bbio[i + 1]
      BY <1>1, <1>6
    <3> QED BY <3>1
  <2> QED BY <2>1 DEF Held2
<1>8. Wire(u) /\ Steady(s, u) /\ u.state = s.state
  BY <1>3, <1>5, <1>7, DrainedWire
<1>9. OutRecords(out, u, out')
  <2>1. out' = Append(out, s.bbio[1])
    BY <1>4 DEF Spill
  <2>2. FinRecord(u, s.bbio[1]) /\ FlagsOK(s.bbio[1])
    <3>1. Sided(s) /\ FinRecord(s, s.bbio[1]) /\ FlagsOK(s.bbio[1])
      BY <1>4 DEF Wire, Always, Buffered
    <3>2. s.bbio[1] \in Records
      BY <1>1, <1>4
    <3> QED BY <1>5, <1>8, <3>1, <3>2, RecordsKept
  <2>3. ASSUME NEW i \in DOMAIN out'
        PROVE  (\E j \in DOMAIN out : out'[i] = out[j]) \/ out'[i] = s.bbio[1]
    <3>1. CASE i = Len(out) + 1
      BY <2>1, <3>1
    <3>2. CASE i # Len(out) + 1
      <4>1. i \in DOMAIN out /\ out'[i] = out[i]
        BY <2>1, <3>2
      <4> QED BY <4>1
    <3> QED BY <3>1, <3>2
  <2> QED BY <2>2, <2>3 DEF OutRecords
<1> QED BY <1>1, <1>2, <1>8, <1>9 DEF InBody

\* What a step of the endpoint does to what is proved here.
Stepped ==
  /\ Wire(s') /\ Steady(s, s') /\ OutRecords(out, s', out')
  /\ InBody(s') => in # <<>> /\ s'.init_msg = Head(in) /\ in' = Tail(in)

\* One step per action, as in SecStep.
LEMMA WireStep ==
  ASSUME s \in SSL, in \in Seq(Records), out \in Seq(Records), TypeInv, FlightInv, Good(s), Wire(s),
         EndpointNext
  PROVE  Stepped
<1>0. Live(s) /\ Always(s)
  <2>1. s.state # "ERROR"
    BY DEF EndpointNext, Start, WriteTransition, PreWork, Send, Spill, PostWork, ReadHeader,
       ReadBody, PostProcess, SslRead, Writing, Reading
  <2> QED BY <2>1 DEF Good, Wire
<1>1. CASE Start
  <2>1. /\ s.state = "UNINITED" /\ s.hand_state = "BEFORE" /\ s' = state_machine_init(s)
        /\ out' = out
    BY <1>1 DEF Start, TypeInv, RestsAtEnds
  <2>2. s' \in SSL /\ s'.state = "WRITING"
    BY <2>1, MachineInitType
  <2>3. Wire(s') /\ Steady(s, s')
    BY <1>0, <2>1, <2>2, StartWire
  <2> QED BY <2>1, <2>2, <2>3 DEF Stepped, OutRecords, InBody
<1>2. CASE WriteTransition
  <2> DEFINE h == write_transition(s)
             t == CASE h = "ERROR" -> ossl_statem_fatal(s, "INTERNAL_ERROR")
                    [] h = "FINISHED" -> [s EXCEPT !.state = "READING", !.sub = "HEADER"]
                    [] OTHER -> [s EXCEPT !.hand_state = h, !.sub = "PRE_WORK"]
  <2>1. s.state = "WRITING" /\ s.sub = "TRANSITION" /\ Settle(t, FALSE)
    BY <1>2 DEF WriteTransition, Writing
  <2>2. PICK g : g = h
    OBVIOUS
  <2>3. t \in SSL /\ Wire(t) /\ Steady(s, t) /\ ~InBody(t)
    <3>1. CASE h = "ERROR"
      <4>1. t = ossl_statem_fatal(s, "INTERNAL_ERROR")
        BY <3>1
      <4> HIDE DEF t, h
      <4>2. "INTERNAL_ERROR" \in Reasons
        BY DEF Reasons
      <4>3. t.state = "ERROR"
        BY <4>1, <4>2, FatalEffect
      <4> QED BY <1>0, <4>1, <4>2, <4>3, FatalWire DEF InBody
    <3>2. CASE h # "ERROR"
      <4>1. t = IF g = "FINISHED" THEN ToFlow(s, "READING", "HEADER") ELSE ToHand(s, g, "PRE_WORK")
        BY <2>2, <3>2 DEF ToFlow, ToHand
      <4>2. g = write_transition(s) /\ g # "ERROR"
        BY <2>2, <3>2
      <4> HIDE DEF t, h
      <4>3. t \in SSL /\ Wire(t) /\ Steady(s, t)
        BY <1>0, <2>1, <4>1, <4>2, TransitionWire
      <4>4. t.sub # "BODY"
        BY <4>1 DEF ToFlow, ToHand, SSL
      <4> QED BY <4>3, <4>4 DEF InBody
    <3> QED BY <3>1, <3>2
  <2> HIDE DEF t, h
  <2> QED BY <2>1, <2>3, SettleWire DEF Stepped
<1>3. CASE PreWork
  <2> DEFINE t == IF s.server THEN server_pre_work(s) ELSE client_pre_work(s)
  <2>1. s.state = "WRITING" /\ s.sub = "PRE_WORK" /\ Settle(t, FALSE)
        /\ s.hand_state \in WriteStates \cup Silent
    BY <1>3 DEF PreWork, Writing, FlightInv
  <2>2. t \in SSL
    BY <2>1, ServerPreWorkType, ClientPreWorkType DEF TypeInv, Chosen
  <2>3. Wire(t) /\ Steady(s, t)
    BY <2>1, <2>2, PreWorkWire
  <2>4. t.state \in {"WRITING", "ERROR", "FINISHED"}
    BY <2>1, PreWorkFrame
  <2> HIDE DEF t
  <2> QED BY <2>1, <2>2, <2>3, <2>4, SettleWire DEF Stepped, InBody
<1>4. CASE Send
  <2>1. PICK a : a = ssl3_do_write(s)
    OBVIOUS
  <2>2. s.state = "WRITING" /\ s.sub = "SEND" /\ s' = ToSub(a, "POST_WORK") /\ out' = out
    BY <1>4, <2>1 DEF Send, Writing, ToSub
  <2>3. a \in SSL
    BY <2>1, DoWriteType
  <2>4. s' \in SSL /\ s'.sub = "POST_WORK"
    <3>1. [a EXCEPT !.sub = "POST_WORK"] \in SSL
      BY ZenonT(120), <2>3 DEF SSL, SubStates
    <3> QED BY <2>2, <2>3, <3>1 DEF ToSub, SSL
  <2>5. Wire(s') /\ Steady(s, s')
    BY <1>0, <2>1, <2>2, <2>3, <2>4, SendWire
  <2> QED BY <2>2, <2>4, <2>5 DEF Stepped, OutRecords, InBody
<1>5. CASE Spill
  BY <1>5, SpillWire DEF Stepped
<1>6. CASE PostWork
  <2> DEFINE flush == IF s.server THEN server_flushes(s) ELSE client_flushes(s)
  <2>1. PICK w : w = IF s.server THEN server_post_work(s) ELSE client_post_work(s)
    OBVIOUS
  <2>2. PICK t : t = ToSub(w, "TRANSITION")
    OBVIOUS
  <2>3. s.state = "WRITING" /\ s.sub = "POST_WORK" /\ Settle(t, flush)
        /\ s.hand_state \in WriteStates \cup Silent
    BY <1>6, <2>1, <2>2 DEF PostWork, Writing, ToSub, FlightInv
  <2>4. w \in SSL
    BY <2>1, ServerPostWorkType, ClientPostWorkType
  <2>5. t \in SSL
    BY ZenonT(120), <2>2, <2>4 DEF ToSub, SSL, SubStates
  <2>6. Wire(t) /\ Steady(s, t)
    BY <2>1, <2>2, <2>3, <2>4, <2>5, PostWorkWire
  <2>7. t.sub = "TRANSITION"
    BY <2>2, <2>4 DEF ToSub, SSL
  <2> HIDE DEF flush
  <2> QED BY <2>3, <2>5, <2>6, <2>7, SettleWire DEF Stepped, InBody
<1>7. CASE ReadHeader
  <2>0. PICK m : m = Head(in)
    OBVIOUS
  <2>1. PICK t : t = tls_get_message_header(s, m)
    OBVIOUS
  <2>2. /\ s.state = "READING" /\ s.sub = "HEADER" /\ m \in Records /\ Settle(t, FALSE)
        /\ in # <<>> /\ in' = Tail(in)
    BY <1>7, <2>0, <2>1, RecordQueue DEF ReadHeader, Reading
  <2>3. t \in SSL
    BY <2>1, <2>2, HeaderType
  <2>4. Wire(t) /\ Steady(s, t) /\ (t.state # "ERROR" /\ t.sub = "BODY" => t.init_msg = m)
    BY <1>0, <2>1, <2>2, <2>3, HeaderWire
  <2>5. /\ Wire(s') /\ Steady(s, s') /\ OutRecords(out, s', out')
        /\ InBody(s') => InBody(t) /\ s'.init_msg = t.init_msg
    BY <2>2, <2>3, <2>4, SettleWire
  <2> QED BY <2>0, <2>2, <2>4, <2>5 DEF Stepped, InBody
<1>8. CASE ReadBody
  <2>0. PICK b : b = tls_get_message_body(s)
    OBVIOUS
  <2>1. PICK t : t = IF b.server THEN server_process_message(b, b.init_msg)
                                 ELSE client_process_message(b, b.init_msg)
    OBVIOUS
  <2>2. s.state = "READING" /\ s.sub = "BODY" /\ Settle(t, FALSE)
    BY <1>8, <2>0, <2>1 DEF ReadBody, Reading
  <2>3. b \in SSL /\ b.server = s.server
    BY <2>0, <2>2, BodyGood DEF Place, Chose
  <2>4. b.init_msg \in Records /\ b.server \in BOOLEAN
    BY <2>3, SSLParts
  <2>5. t \in SSL
    BY <2>1, <2>3, <2>4, ServerProcessType, ClientProcessType
  <2>6. Wire(t) /\ Steady(s, t)
    BY <1>0, <2>0, <2>1, <2>2, <2>3, ServerBodyWire, ClientBodyWire
  <2>7. ~InBody(t)
    <3>1. Fields(b)
      BY <2>3 DEF Fields, SSL
    <3>2. Done(t)
      BY <2>1, <3>1, ServerBodyDone, ClientDone
    <3> QED BY <3>2 DEF Done, InBody
  <2> QED BY <2>2, <2>5, <2>6, <2>7, SettleWire DEF Stepped
<1>9. CASE PostProcess
  <2>1. PICK t : t = IF s.server THEN server_post_process_message(s, s.init_msg)
                                 ELSE client_post_process_message(s)
    OBVIOUS
  <2>2. s.state = "READING" /\ s.sub = "POST_PROCESS" /\ Settle(t, FALSE) /\ s.init_msg \in Records
    BY <1>9, <2>1, SSLParts DEF PostProcess, Reading
  <2>3. t \in SSL
    BY <2>1, <2>2, ServerProcessType, ClientProcessType
  <2>4. Wire(t) /\ Steady(s, t)
    BY <1>0, <2>1, <2>2, ServerPostWire, ClientPostWire
  <2>5. ~InBody(t)
    <3>1. Fields(s)
      BY DEF Fields, SSL
    <3>2. Done(t)
      BY <2>1, <2>2, <3>1, ServerDone, ClientDone
    <3> QED BY <3>2 DEF Done, InBody
  <2> QED BY <2>2, <2>3, <2>4, <2>5, SettleWire DEF Stepped
<1>10. CASE SslRead
  <2> DEFINE why == RecordError(s, Head(in))
  <2>1. why \in Reasons /\ "ALERT_RECEIVED" \in Reasons
    BY DEF RecordError, Reasons
  <2> HIDE DEF why
  <2>2. s.state = "FINISHED" /\ s.hand_state = "OK"
    BY <1>10 DEF SslRead, TypeInv, RestsAtEnds
  <2>3. CASE s' = state_machine_init([s EXCEPT !.in_init = TRUE]) /\ out' = out
    <3>1. PICK a : a = Again(s)
      OBVIOUS
    <3>2. s' = state_machine_init(a)
      BY <2>3, <3>1 DEF Again
    <3>3. a \in SSL
      BY ZenonT(120), <3>1 DEF SSL, Again
    <3>4. s' \in SSL /\ s'.state = "WRITING"
      BY <3>2, <3>3, MachineInitType
    <3>5. Wire(s') /\ Steady(s, s')
      BY <1>0, <2>2, <3>1, <3>2, <3>4, AgainWire
    <3> QED BY <2>3, <3>4, <3>5 DEF Stepped, OutRecords, InBody
  <2>4. ASSUME NEW t, NEW r \in Reasons,
               t \in {ossl_statem_fatal(s, r), ossl_statem_fatal_no_alert(s, r)},
               Settle(t, FALSE)
        PROVE  Stepped
    <3>1. t \in SSL /\ Wire(t) /\ Steady(s, t)
      BY <1>0, <2>4, FatalWire
    <3>2. t.state = "ERROR"
      BY <2>4, FatalEffect
    <3> QED BY <2>4, <3>1, <3>2, SettleWire DEF Stepped, InBody
  <2>5. \/ s' = state_machine_init([s EXCEPT !.in_init = TRUE]) /\ out' = out
        \/ Settle(ossl_statem_fatal(s, why), FALSE)
        \/ Settle(ossl_statem_fatal_no_alert(s, "ALERT_RECEIVED"), FALSE)
    BY <1>10 DEF SslRead, why
  <2>6. CASE Settle(ossl_statem_fatal(s, why), FALSE)
    <3>1. PICK t : t = ossl_statem_fatal(s, why)
      OBVIOUS
    <3> QED BY <2>1, <2>4, <2>6, <3>1
  <2>7. CASE Settle(ossl_statem_fatal_no_alert(s, "ALERT_RECEIVED"), FALSE)
    <3>1. PICK t : t = ossl_statem_fatal_no_alert(s, "ALERT_RECEIVED")
      OBVIOUS
    <3> QED BY <2>1, <2>4, <2>7, <3>1
  <2> QED BY <2>3, <2>5, <2>6, <2>7
<1> QED BY <1>1, <1>2, <1>3, <1>4, <1>5, <1>6, <1>7, <1>8, <1>9, <1>10 DEF EndpointNext

-----------------------------------------------------------------------------
(* Two endpoints *)

LEMMA WireFresh ==
  ASSUME NEW server \in BOOLEAN, NEW o \in Options, NEW t \in SSL, t = ossl_statem_clear(server, o)
  PROVE  Wire(t) /\ ~PeerSeen(t) /\ ~InBody(t)
<1>1. /\ t.server = server /\ t.opt = o /\ t.state = "UNINITED" /\ t.sub = "TRANSITION"
      /\ t.hand_state = "BEFORE" /\ t.version = "ANY" /\ ~t.hit /\ t.cert_req = 0
      /\ t.transcript = <<>> /\ t.bbio = <<>> /\ t.server_finished_hash = <<>>
      /\ t.hello_retry_request = "NONE"
  BY DEF ossl_statem_clear
<1>2. ~OwnSent(t) /\ ~PeerSeen(t) /\ ~InBody(t) /\ Sided(t)
  BY <1>1 DEF OwnSent, PeerSeen, InBody, Sided, Pending
<1>3. DOMAIN t.transcript = {} /\ DOMAIN t.bbio = {}
  BY <1>1
<1>4. /\ HelloFirst(t.transcript) /\ OwnChains(t) /\ Honours(t) /\ Obeys(t) /\ Buffered(t)
      /\ ~HasCH(t.transcript) /\ ~HasSH(t.transcript) /\ ~Opened(t.transcript)
  BY <1>3 DEF HelloFirst, OwnChains, Honours, Obeys, Buffered, HasCH, HasSH, Opened
<1>5. Always(t)
  BY <1>1, <1>2, <1>3, <1>4 DEF Always, Certain
<1>6. InHand(t) /\ Spots(t) /\ Asked(t) /\ Shown(t) /\ KeysKnown(t)
  BY <1>1 DEF InHand, Spots, Asked, Shown, KeysKnown
<1>7. ~Answered(t) /\ ~Heard(t) /\ ~Decided(t)
  BY <1>1 DEF Answered, Heard, Decided, Pending
<1>8. Alive(t)
  BY <1>1, <1>4, <1>6, <1>7 DEF Alive
<1> QED BY <1>2, <1>5, <1>8 DEF Wire

\* Of the two Finished messages a side sends or reads the last one after the other.
LEMMA LastPlaces ==
  ASSUME NEW t, Sided(t)
  PROVE  /\ OwnSent(t) /\ LastWriter(t) => PeerSeen(t)
         /\ PeerSeen(t) /\ ~LastWriter(t) => OwnSent(t)
<1>1. CASE t.server
  BY <1>1 DEF Sided, OwnSent, PeerSeen, LastWriter, SSL_IS_TLS13, ServerStates
<1>2. CASE ~t.server
  BY <1>2 DEF Sided, OwnSent, PeerSeen, LastWriter, SSL_IS_TLS13, ClientStates
<1> QED BY <1>1, <1>2

\* A client and a server that hashed the same two hellos.
LEMMA TwoHellos ==
  ASSUME NEW c \in SSL, NEW v \in SSL, ~c.server, v.server, NEW f, NEW g,
         Answers(c, f), Answers(v, f), Offer(c, g), Picked(v, g)
  PROVE  /\ c.version = v.version /\ c.hit = v.hit /\ c.new_cipher = v.new_cipher
         /\ \A t \in {c, v} : t.new_cipher = IF t.version = "TLS1_3" THEN "TLS13" ELSE t.opt.cipher
         /\ IF c.version = "TLS1_3" THEN c.group = v.group ELSE c.extms /\ v.extms
         /\ c.version \in c.opt.versions \cap v.opt.versions
         /\ "TLS1_3" \in c.opt.versions \cap v.opt.versions => c.version = "TLS1_3"
<1>1. c.version \in Versions /\ v.version \in Versions /\ c.version = v.version
  BY DEF Answers, Versions
<1>2. c.new_cipher = v.new_cipher
  BY DEF Answers
<1>3. c.hit = v.hit
  <2>1. c.hit \in BOOLEAN /\ v.hit \in BOOLEAN
    BY SSLParts DEF SSL
  <2>2. c.hit => v.hit
    BY DEF Answers
  <2>3. v.hit => c.opt.session = c.version
    BY <1>1 DEF Picked, Offer
  <2>4. v.hit => c.hit
    BY <2>3 DEF Answers
  <2> QED BY <2>1, <2>2, <2>4
<1>4. c.version = "TLS1_3" => c.group = v.group
  <2>1. c.group \in {"g1", "g2"}
    BY DEF SSL
  <2> QED BY <1>1, <2>1 DEF Answers
<1>5. c.version # "TLS1_3" => c.extms /\ v.extms
  BY <1>1 DEF Answers, Picked, Offer, Versions
<1>6. /\ c.version \in c.opt.versions \cap v.opt.versions
      /\ "TLS1_3" \in c.opt.versions \cap v.opt.versions => c.version = "TLS1_3"
  BY <1>1 DEF Picked, Offer, Versions
<1>7. \A t \in {c, v} : t.new_cipher = IF t.version = "TLS1_3" THEN "TLS13" ELSE t.opt.cipher
  BY DEF Answers
<1> QED BY <1>1, <1>2, <1>3, <1>4, <1>5, <1>6, <1>7

\* What is in the beginning of a transcript is at the same place in it.
LEMMA Prefixed ==
  ASSUME NEW p \in Hash, NEW q \in Hash, Starts(p, q)
  PROVE  /\ \A i \in DOMAIN p : i \in DOMAIN q /\ q[i] = p[i]
         /\ \A i \in DOMAIN p : After(q, i) <=> After(p, i)
         /\ \A i \in DOMAIN q : \A k \in DOMAIN p : i < k => i \in DOMAIN p
<1>1. /\ Len(p) \in Nat /\ Len(q) \in Nat /\ Len(p) <= Len(q)
      /\ DOMAIN p = 1..Len(p) /\ DOMAIN q = 1..Len(q)
  BY DEF Hash, Starts
<1>2. \A i \in DOMAIN p : i \in DOMAIN q /\ q[i] = p[i]
  BY <1>1 DEF Starts
<1>3. \A i \in DOMAIN q : \A k \in DOMAIN p : i < k => i \in DOMAIN p
  BY <1>1
<1>4. \A i \in DOMAIN p : After(q, i) <=> After(p, i)
  BY <1>2, <1>3 DEF After
<1> QED BY <1>2, <1>3, <1>4

\* The credentials behind a Certificate message, whose sender is w.
LEMMA ChainOwner ==
  ASSUME NEW w \in SSL, OwnChains(w), NEW j \in DOMAIN w.transcript,
         w.server <=> ~After(w.transcript, j)
  PROVE  /\ w.transcript[j] = TrustedChain => w.opt.cert = "TRUSTED"
         /\ w.transcript[j] = Elem("CERTIFICATE", {}) => w.opt.cert = "NONE"
<1>1. w.transcript[j].mt = "CERTIFICATE" => w.transcript[j].flags = ChainFlags(w.opt.cert)
  BY DEF OwnChains
<1>2. w.opt.cert \in {"NONE", "TRUSTED", "UNTRUSTED"}
  BY DEF SSL, Options
<1>3. ASSUME w.transcript[j] = TrustedChain PROVE w.opt.cert = "TRUSTED"
  <2>1. ChainFlags(w.opt.cert) = {"chain", "trusted"}
    BY <1>1, <1>3 DEF TrustedChain, Elem
  <2>2. ChainFlags("UNTRUSTED") = {"chain"} /\ ChainFlags("NONE") = {}
    BY DEF ChainFlags
  <2> QED BY <1>2, <2>1, <2>2
<1>4. ASSUME w.transcript[j] = Elem("CERTIFICATE", {}) PROVE w.opt.cert = "NONE"
  <2>1. ChainFlags(w.opt.cert) = {}
    BY <1>1, <1>4 DEF Elem
  <2>2. ChainFlags("UNTRUSTED") = {"chain"} /\ ChainFlags("TRUSTED") = {"chain", "trusted"}
    BY DEF ChainFlags
  <2> QED BY <1>2, <2>1, <2>2
<1> QED BY <1>3, <1>4

\* An endpoint that reads a Finished accepts the credentials of whoever shares its
\* transcript.
LEMMA Accepts ==
  ASSUME NEW r \in SSL, Live(r), Alive(r), Sided(r), r.sub = "BODY", r.init_msg.mt = "FINISHED",
         r.new_cipher \in Ciphers,
         NEW w \in SSL, r.server # w.server, OwnChains(w), Starts(r.transcript, w.transcript)
  PROVE  Trusts(r, w)
<1> SUFFICES ASSUME ~r.hit, VerifyPeer(r), r.new_cipher \notin {"ANON", "PSK", "DHEPSK"}
             PROVE  \/ w.opt.cert = "TRUSTED"
                    \/ r.server /\ r.opt.verify = "PEER" /\ w.opt.cert = "NONE"
  BY DEF Trusts
<1>0. /\ r.server \in BOOLEAN /\ w.server \in BOOLEAN
      /\ r.transcript \in Hash /\ w.transcript \in Hash /\ r.hand_state \in HandStates
  BY SSLParts DEF SSL
<1>1. r.hand_state \in {"CR_FINISHED", "SR_FINISHED"}
  <2>1. r.hand_state \in ReadStates /\ r.init_msg.mt = MessageOf(r.hand_state)
    BY DEF Alive, InHand
  <2> QED BY <2>1 DEF ReadStates, MessageOf
<1>2. /\ \A i \in DOMAIN r.transcript :
           i \in DOMAIN w.transcript /\ w.transcript[i] = r.transcript[i]
      /\ \A i \in DOMAIN r.transcript : After(w.transcript, i) <=> After(r.transcript, i)
  BY <1>0, Prefixed
<1>3. CASE ~r.server
  <2>1. w.server /\ r.hand_state = "CR_FINISHED" /\ Asks(r) /\ r.version # "ANY"
    <3>1. r.hand_state = "CR_FINISHED"
      BY <1>1, <1>3 DEF Sided, ClientStates
    <3>2. Asks(r)
      BY DEF Asks, Ciphers
    <3>3. r.version # "ANY"
      BY <1>3, <3>1 DEF Live, Early
    <3> QED BY <1>0, <1>3, <3>1, <3>2, <3>3
  <2>2. ChainFirst(r.transcript)
    BY <1>3, <2>1 DEF Alive, Shown
  <2>3. PICK j \in DOMAIN r.transcript : r.transcript[j] = TrustedChain /\ ~After(r.transcript, j)
    BY <2>2 DEF ChainFirst
  <2> QED BY <1>2, <2>1, <2>3, ChainOwner
<1>4. CASE r.server
  <2>1. ~w.server /\ r.hand_state = "SR_FINISHED" /\ Wants(r)
    <3>1. r.hand_state = "SR_FINISHED"
      BY <1>1, <1>4 DEF Sided, ServerStates
    <3>2. Wants(r)
      BY <1>4 DEF Wants, send_certificate_request, VerifyPeer, aNULL, aPSK
    <3> QED BY <1>0, <1>4, <3>1, <3>2
  <2>2. r.peer \/ NoneSent(r.transcript)
    BY <2>1 DEF Alive, Asked
  <2>3. ASSUME NEW j \in DOMAIN r.transcript, r.transcript[j] = TrustedChain,
               After(r.transcript, j)
        PROVE  w.opt.cert = "TRUSTED"
    BY <1>2, <2>1, <2>3, ChainOwner
  <2>4. CASE r.peer
    <3>1. ChainAfter(r.transcript)
      BY <1>4, <2>4 DEF Live, Server
    <3>2. PICK i, j \in DOMAIN r.transcript :
            /\ r.transcript[i].mt \in {"SERVER_DONE", "FINISHED"} /\ i < j
            /\ r.transcript[j] = TrustedChain
      BY <3>1 DEF ChainAfter
    <3>3. After(r.transcript, j)
      BY <3>2 DEF After, Opener
    <3> QED BY <2>3, <3>2, <3>3
  <2>5. CASE r.opt.verify = "FAIL"
    <3>1. Owed(r) /\ ClientProof(r.transcript)
      BY <1>4, <2>1, <2>5 DEF Live, Server, Owed, Demands, aPSK
    <3>2. PICK i \in DOMAIN r.transcript :
            /\ r.transcript[i].mt \in {"SERVER_DONE", "FINISHED"}
            /\ Follows(r.transcript, i, TrustedChain, Signature("CERTIFICATE_VERIFY"))
      BY <3>1 DEF ClientProof
    <3>3. PICK j \in DOMAIN r.transcript : i < j /\ r.transcript[j] = TrustedChain
      BY <3>2 DEF Follows
    <3>4. After(r.transcript, j)
      BY <3>2, <3>3 DEF After, Opener
    <3> QED BY <2>3, <3>3, <3>4
  <2>6. CASE r.opt.verify # "FAIL" /\ NoneSent(r.transcript)
    <3>1. r.opt.verify = "PEER"
      BY <2>6 DEF SSL, Options, VerifyPeer
    <3>2. PICK j \in DOMAIN r.transcript :
            r.transcript[j] = Elem("CERTIFICATE", {}) /\ After(r.transcript, j)
      BY <2>6 DEF NoneSent
    <3>3. w.opt.cert = "NONE"
      BY <1>2, <2>1, <3>2, ChainOwner
    <3> QED BY <1>4, <3>1, <3>3
  <2> QED BY <2>2, <2>4, <2>5, <2>6
<1> QED BY <1>0, <1>3, <1>4

\* What a Finished that checks proves to the endpoint r that reads it, when w sent
\* it: the two have the same transcript, so the same hellos, so the same settings.
LEMMA Concludes ==
  ASSUME NEW r \in SSL, NEW u \in SSL, NEW w \in SSL, r.server # w.server,
         Good(r), Wire(r), Wire(u), Steady(r, u), ~PeerSeen(r), PeerSeen(u),
         Always(w), FinRecord(w, r.init_msg)
  PROVE  Linked(u, w)
<1>0. /\ r.server \in BOOLEAN /\ w.server \in BOOLEAN /\ r.transcript \in Hash
      /\ u.transcript \in Hash /\ w.transcript \in Hash
  BY SSLParts DEF SSL
<1>1. /\ r.init_msg.mac = final_finish_mac(r, PeerSide(r)) /\ r.init_msg.mt = "FINISHED"
      /\ r.state = "READING" /\ r.sub = "BODY"
      /\ Fixed(r, u) /\ u.transcript = Append(r.transcript, Fin)
      /\ u.server = r.server /\ u.opt = r.opt
  BY DEF Steady
<1>2. Live(r) /\ Alive(r) /\ Always(r) /\ Always(u)
  BY <1>1 DEF Good, Wire
<1>3. /\ OwnSent(w) /\ r.init_msg.mac.secret = Secret(w)
      /\ Starts(Append(r.init_msg.mac.hash, Fin), w.transcript)
      /\ LastWriter(w) => w.transcript = Append(r.init_msg.mac.hash, Fin)
  BY <1>1 DEF FinRecord
<1>4. r.init_msg.mac.secret = Secret(r) /\ r.init_msg.mac.hash = r.transcript
  BY <1>1 DEF final_finish_mac, Secret
<1>5. /\ Secret(u) = Secret(w) /\ Starts(u.transcript, w.transcript)
      /\ LastWriter(w) => u.transcript = w.transcript
  BY <1>1, <1>3, <1>4 DEF Fixed
<1>6. /\ \A i \in DOMAIN u.transcript :
           i \in DOMAIN w.transcript /\ w.transcript[i] = u.transcript[i]
      /\ \A i \in DOMAIN w.transcript : \A k \in DOMAIN u.transcript :
           i < k => i \in DOMAIN u.transcript
  BY <1>0, <1>5, Prefixed
<1>7. \E k \in DOMAIN u.transcript : Opener(u.transcript[k])
  <2>1. Len(r.transcript) + 1 \in DOMAIN u.transcript /\ u.transcript[Len(r.transcript) + 1] = Fin
    BY <1>0, <1>1, FinHashed, Added
  <2>2. Opener(Fin)
    BY DEF Opener, Fin, Elem
  <2> QED BY <2>1, <2>2
<1>8. \E i, j \in DOMAIN u.transcript : IsSH(u.transcript[i]) /\ IsCH(u.transcript[j])
  <2>1. PICK k \in DOMAIN u.transcript : Opener(u.transcript[k])
    BY <1>7
  <2>2. CASE u.server
    BY <1>2, <2>1, <2>2 DEF Always, HelloFirst
  <2>3. CASE w.server
    <3>1. HelloFirst(w.transcript)
      BY <2>3 DEF Always
    <3>2. Opener(w.transcript[k]) /\ k \in DOMAIN w.transcript
      BY <1>6, <2>1
    <3>3. PICK i \in DOMAIN w.transcript : i < k /\ IsSH(w.transcript[i])
      BY <3>1, <3>2 DEF HelloFirst
    <3>4. PICK j \in DOMAIN w.transcript : j < k /\ IsCH(w.transcript[j])
      BY <3>1, <3>2 DEF HelloFirst
    <3>5. i \in DOMAIN u.transcript /\ j \in DOMAIN u.transcript
      BY <1>6, <3>3, <3>4
    <3> QED BY <1>6, <3>3, <3>4, <3>5
  <2> QED BY <1>0, <1>1, <2>2, <2>3
<1>9. PICK i, j \in DOMAIN u.transcript : IsSH(u.transcript[i]) /\ IsCH(u.transcript[j])
  BY <1>8
<1>10. PICK f : f = u.transcript[i].flags
  OBVIOUS
<1>11. PICK g : g = u.transcript[j].flags
  OBVIOUS
<1>12. Certain(u) /\ Certain(w)
  BY <1>3 DEF Certain
<1>13. Answers(u, f) /\ (u.server => Picked(u, g)) /\ (~u.server => Offer(u, g))
  BY <1>2, <1>9, <1>10, <1>11, <1>12 DEF Always, Honours, Obeys
<1>14. Answers(w, f) /\ (w.server => Picked(w, g)) /\ (~w.server => Offer(w, g))
  <2>1. /\ w.transcript[i] = u.transcript[i] /\ w.transcript[j] = u.transcript[j]
        /\ i \in DOMAIN w.transcript /\ j \in DOMAIN w.transcript
    BY <1>6, <1>9
  <2> QED BY <1>9, <1>10, <1>11, <1>12, <2>1 DEF Always, Honours, Obeys
<1>15. /\ u.version = w.version /\ u.hit = w.hit /\ u.new_cipher = w.new_cipher
       /\ \A t \in {u, w} : t.new_cipher = IF t.version = "TLS1_3" THEN "TLS13" ELSE t.opt.cipher
       /\ IF u.version = "TLS1_3" THEN u.group = w.group ELSE u.extms /\ w.extms
       /\ u.version \in u.opt.versions \cap w.opt.versions
       /\ "TLS1_3" \in u.opt.versions \cap w.opt.versions => u.version = "TLS1_3"
  <2>1. CASE u.server
    <3>1. ~w.server /\ Offer(w, g) /\ Picked(u, g)
      BY <1>0, <1>1, <1>13, <1>14, <2>1
    <3>2. /\ w.version = u.version /\ w.hit = u.hit /\ w.new_cipher = u.new_cipher
          /\ \A t \in {w, u} : t.new_cipher = IF t.version = "TLS1_3" THEN "TLS13" ELSE t.opt.cipher
          /\ IF w.version = "TLS1_3" THEN w.group = u.group ELSE w.extms /\ u.extms
          /\ w.version \in w.opt.versions \cap u.opt.versions
          /\ "TLS1_3" \in w.opt.versions \cap u.opt.versions => w.version = "TLS1_3"
      BY <1>13, <1>14, <2>1, <3>1, TwoHellos
    <3> QED BY <3>2
  <2>2. CASE ~u.server
    BY <1>0, <1>1, <1>13, <1>14, <2>2, TwoHellos
  <2> QED BY <2>1, <2>2
<1>16. Trusts(u, w)
  <2>1. r.new_cipher = u.new_cipher /\ r.hit = u.hit
    BY <1>1 DEF Fixed
  <2>2. u.new_cipher \in Ciphers
    BY <1>13, <1>15 DEF Answers, Ciphers, SSL, Options
  <2>3. Starts(r.transcript, w.transcript)
    <3>1. Starts(r.transcript, u.transcript)
      BY <1>0, <1>1, FinHashed, Added
    <3> QED BY <1>0, <1>5, <3>1, StartsTrans
  <2>4. Trusts(r, w)
    BY <1>1, <1>2, <2>1, <2>2, <2>3, Accepts DEF Always
  <2> QED BY <1>1, <2>1, <2>4 DEF Trusts, VerifyPeer
<1> QED BY <1>3, <1>5, <1>15, <1>16 DEF Linked

\* A link, once made, stays.
LEMMA LinkedKept ==
  ASSUME NEW r \in SSL, NEW w \in SSL, r.server # w.server, Always(r), Always(w),
         Linked(r, w), NEW u \in SSL
  PROVE  /\ Steady(r, u) /\ PeerSeen(r) => Linked(u, w)
         /\ Steady(w, u) => Linked(r, u)
<1>1. ASSUME Steady(r, u), PeerSeen(r) PROVE Linked(u, w)
  <2>1. /\ u.server = r.server /\ u.opt = r.opt /\ Fixed(r, u)
        /\ OwnSent(r) => u.transcript = r.transcript
    BY <1>1 DEF Steady, Certain
  <2>2. LastWriter(w) => u.transcript = r.transcript
    <3>1. LastWriter(w) => ~LastWriter(r)
      BY <1>1, SSLParts DEF Linked, LastWriter, SSL_IS_TLS13
    <3> QED BY <1>1, <2>1, <3>1, LastPlaces DEF Always
  <2>3. Trusts(u, w) <=> Trusts(r, w)
    BY <2>1 DEF Trusts, Fixed, VerifyPeer
  <2> QED BY <1>1, <2>1, <2>2, <2>3 DEF Linked, Fixed
<1>2. ASSUME Steady(w, u), PeerSeen(r) PROVE Linked(r, u)
  <2>1. OwnSent(w) /\ (LastWriter(w) => r.transcript = w.transcript)
    BY <1>2 DEF Linked
  <2>2. /\ u.server = w.server /\ u.opt = w.opt /\ Fixed(w, u) /\ OwnSent(u)
        /\ PeerSeen(w) => u.transcript = w.transcript
    BY <1>2, <2>1 DEF Steady, Certain
  <2>3. LastWriter(u) <=> LastWriter(w)
    BY <2>2 DEF LastWriter, Fixed, SSL_IS_TLS13
  <2>4. LastWriter(u) => r.transcript = u.transcript
    BY <2>1, <2>2, <2>3, LastPlaces DEF Always
  <2>5. Trusts(r, u) <=> Trusts(r, w)
    BY <2>2 DEF Trusts
  <2> QED BY <1>2, <2>2, <2>4, <2>5 DEF Linked, Fixed
<1>3. ~PeerSeen(r) => Linked(r, u)
  BY DEF Linked
<1> QED BY <1>1, <1>2, <1>3

\* Two endpoints that both completed share the transcript, and one reads with the
\* key the other writes with.
LEMMA Agrees ==
  ASSUME NEW r \in SSL, NEW w \in SSL, r.server # w.server, r.hand_state = "OK", w.hand_state = "OK",
         Always(r), Always(w), Good(r), Good(w), Linked(r, w), Linked(w, r)
  PROVE  r.transcript = w.transcript /\ r.enc_read = w.enc_write
<1>1. PeerSeen(r) /\ PeerSeen(w)
  BY DEF PeerSeen
<1>2. /\ r.version = w.version /\ r.hit = w.hit /\ Secret(r) = Secret(w)
      /\ r.version \in Versions
      /\ LastWriter(w) => r.transcript = w.transcript
      /\ LastWriter(r) => w.transcript = r.transcript
  BY <1>1 DEF Linked, SSL, Options
<1>3. r.transcript = w.transcript
  BY <1>2, SSLParts DEF LastWriter, SSL_IS_TLS13
<1>4. /\ KeysKnown(r) /\ KeysKnown(w) /\ Ends(r) /\ Ends(w)
      /\ Keyed(r.enc_read) /\ Keyed(w.enc_write)
  BY GoodEnds DEF Always, Good
<1>5. PeerSide(r) = Side(w)
  BY SSLParts DEF PeerSide, Side
<1>6. CASE r.version = "TLS1_2"
  <2>1. r.enc_read = tls1_key(r, PeerSide(r)) /\ w.enc_write = tls1_key(w, Side(w))
    BY <1>2, <1>4, <1>6 DEF KeysKnown, Ends, PlainKey, SSL_IS_TLS13
  <2>2. r.master_key = w.master_key
    BY <1>2, <1>6 DEF Secret, SSL_IS_TLS13
  <2> QED BY <1>3, <1>5, <2>1, <2>2 DEF tls1_key, Random
<1>7. CASE r.version = "TLS1_3"
  <2>1. r.enc_read = AppKey(r, PeerSide(r)) /\ w.enc_write = AppKey(w, Side(w))
    BY <1>2, <1>4, <1>7 DEF KeysKnown, Ends, SSL_IS_TLS13
  <2>2. /\ r.server_finished_hash \in Hash /\ r.server_finished_hash # <<>>
        /\ w.server_finished_hash \in Hash /\ w.server_finished_hash # <<>>
    <3>1. r.server_finished_hash \in Hash /\ w.server_finished_hash \in Hash
      BY DEF SSL
    <3>2. Len(r.server_finished_hash) > 0
      BY <1>4, <2>1 DEF Keyed, AppKey
    <3>3. Len(w.server_finished_hash) > 0
      BY <1>4, <2>1 DEF Keyed, AppKey
    <3> QED BY <3>1, <3>2, <3>3 DEF Hash
  <2>3. r.server_finished_hash = w.server_finished_hash
    <3>1. /\ UpToFinished(r.server_finished_hash, r.transcript)
          /\ UpToFinished(w.server_finished_hash, r.transcript)
      BY <1>3, <1>4, <2>2 DEF KeysKnown
    <3>2. r.transcript \in Hash
      BY SSLParts
    <3> QED BY <2>2, <3>1, <3>2, UpToUnique
  <2>4. AppKey(r, PeerSide(r)) = AppKey(w, Side(w))
    BY <1>5, <2>3 DEF AppKey
  <2> QED BY <1>3, <2>1, <2>4
<1> QED BY <1>2, <1>3, <1>6, <1>7 DEF Versions


-----------------------------------------------------------------------------
(* The two ends of a connection *)

\* t reads from p and u from q.
Together(t, u, p, q) ==
  /\ t \in SSL /\ u \in SSL /\ t.server # u.server
  /\ p \in Seq(Records) /\ q \in Seq(Records)
  /\ Good(t) /\ Good(u) /\ Wire(t) /\ Wire(u)
  /\ Linked(t, u) /\ Linked(u, t)
  /\ Delivers(u, t, p) /\ Delivers(t, u, q)

\* Two fresh objects, with nothing sent.
LEMMA TogetherFresh ==
  ASSUME NEW t \in SSL, NEW u \in SSL, NEW server \in BOOLEAN, NEW o \in Options, NEW n \in Options,
         t = ossl_statem_clear(server, o), u = ossl_statem_clear(~server, n), Good(t), Good(u)
  PROVE  Together(t, u, <<>>, <<>>)
<1>1. t.server # u.server
  BY DEF ossl_statem_clear
<1>2. /\ Wire(t) /\ ~PeerSeen(t) /\ ~InBody(t)
      /\ Wire(u) /\ ~PeerSeen(u) /\ ~InBody(u)
  BY WireFresh
<1>3. Linked(t, u) /\ Linked(u, t)
  BY <1>2 DEF Linked
<1>4. Delivers(u, t, <<>>) /\ Delivers(t, u, <<>>)
  BY <1>2 DEF Delivers
<1> QED BY <1>1, <1>2, <1>3, <1>4 DEF Together

\* Reading takes the message in hand off the front of the channel.
LEMMA ReadsChannel ==
  ASSUME in \in Seq(Records), EndpointNext
  PROVE  in' = in \/ (in # <<>> /\ in' = Tail(in))
BY DEF EndpointNext, Start, WriteTransition, PreWork, Send, Spill, PostWork, ReadHeader, ReadBody,
   PostProcess, SslRead

\* A step of one end.
LEMMA TogetherStep ==
  ASSUME NEW w, TypeInv, FlightInv, SecInv, Together(s, w, in, out), EndpointNext
  PROVE  Together(s', w, in', out')
<1>0. /\ s \in SSL /\ w \in SSL /\ s.server # w.server /\ s.server \in BOOLEAN /\ w.server \in BOOLEAN
      /\ in \in Seq(Records) /\ out \in Seq(Records)
      /\ Good(s) /\ Good(w) /\ Wire(s) /\ Wire(w) /\ Always(s) /\ Always(w)
      /\ Linked(s, w) /\ Linked(w, s) /\ Delivers(w, s, in) /\ Delivers(s, w, out)
  BY DEF Together, Wire, SSL
<1>1. s' \in SSL /\ in' \in Seq(Records) /\ out' \in Seq(Records) /\ Good(s')
  BY TypeStep, SecStep DEF Next, TypeInv, TypeOK, SecInv
<1>2. /\ Wire(s') /\ Steady(s, s') /\ OutRecords(out, s', out')
      /\ InBody(s') => in # <<>> /\ s'.init_msg = Head(in) /\ in' = Tail(in)
  BY <1>0, WireStep DEF Stepped
<1>3. s'.server = s.server
  BY <1>2 DEF Steady
<1>4. Linked(s', w)
  <2>1. CASE PeerSeen(s)
    BY <1>0, <1>1, <1>2, <2>1, LinkedKept
  <2>2. CASE ~PeerSeen(s) /\ PeerSeen(s')
    <3>1. InBody(s)
      BY <1>2, <2>2 DEF Steady, InBody
    <3>2. FinRecord(w, s.init_msg)
      BY <1>0, <3>1 DEF Delivers
    <3> QED BY <1>0, <1>1, <1>2, <2>2, <3>2, Concludes
  <2>3. CASE ~PeerSeen(s')
    BY <2>3 DEF Linked
  <2> QED BY <2>1, <2>2, <2>3
<1>5. Linked(w, s')
  BY <1>0, <1>1, <1>2, LinkedKept
<1>6. Delivers(w, s', in')
  <2>1. ASSUME NEW i \in DOMAIN in' PROVE \E j \in DOMAIN in : in'[i] = in[j]
    <3>1. CASE in' = in
      BY <3>1
    <3>2. CASE in # <<>> /\ in' = Tail(in)
      <4>1. i + 1 \in DOMAIN in /\ in'[i] = in[i + 1]
        BY <1>0, <3>2
      <4> QED BY <4>1
    <3> QED BY <1>0, <3>1, <3>2, ReadsChannel
  <2>2. ASSUME InBody(s') PROVE FinRecord(w, s'.init_msg)
    <3>1. 1 \in DOMAIN in /\ s'.init_msg = in[1]
      BY <1>0, <1>2, <2>2
    <3> QED BY <1>0, <3>1 DEF Delivers
  <2> QED BY <1>0, <2>1, <2>2 DEF Delivers
<1>7. Delivers(s', w, out')
  <2>1. Sided(s)
    BY <1>0 DEF Always
  <2>2. ASSUME NEW m \in Records, FinRecord(s, m) PROVE FinRecord(s', m)
    BY <1>0, <1>1, <1>2, <2>1, <2>2, RecordsKept
  <2>3. ASSUME NEW i \in DOMAIN out' PROVE FinRecord(s', out'[i]) /\ FlagsOK(out'[i])
    <3>1. CASE \E j \in DOMAIN out : out'[i] = out[j]
      <4>1. PICK j \in DOMAIN out : out'[i] = out[j]
        BY <3>1
      <4>2. FinRecord(s, out[j]) /\ FlagsOK(out[j]) /\ out[j] \in Records
        BY <1>0 DEF Delivers
      <4> QED BY <2>2, <4>1, <4>2
    <3>2. CASE FinRecord(s', out'[i]) /\ FlagsOK(out'[i])
      BY <3>2
    <3> QED BY <1>2, <3>1, <3>2 DEF OutRecords
  <2>4. InBody(w) => FinRecord(s', w.init_msg)
    <3>1. w.init_msg \in Records
      BY <1>0, SSLParts
    <3> QED BY <1>0, <2>2, <3>1 DEF Delivers
  <2> QED BY <2>3, <2>4 DEF Delivers
<1> QED BY <1>0, <1>1, <1>2, <1>3, <1>4, <1>5, <1>6, <1>7 DEF Together

\* A hello on its way is changed to another one.
LEMMA TogetherChanged ==
  ASSUME NEW t, NEW u, NEW p, NEW q, Together(t, u, p, q), NEW m \in Records, p # <<>>,
         m.mt = p[1].mt, m.mt \in {"CLIENT_HELLO", "SERVER_HELLO"}
  PROVE  Together(t, u, [p EXCEPT ![1] = m], q)
<1> DEFINE c == [p EXCEPT ![1] = m]
<1>1. p \in Seq(Records) /\ 1 \in DOMAIN p
  BY DEF Together
<1>2. c \in Seq(Records) /\ DOMAIN c = DOMAIN p /\ c[1] = m
      /\ \A i \in DOMAIN p : i # 1 => c[i] = p[i]
  BY <1>1
<1>3. FinRecord(u, m) /\ FlagsOK(m)
  BY DEF FinRecord, FlagsOK
<1>4. Delivers(u, t, c)
  BY <1>2, <1>3 DEF Together, Delivers
<1> HIDE DEF c
<1>5. Together(t, u, c, q)
  BY <1>2, <1>4 DEF Together
<1> QED BY <1>5 DEF c

\* What has been sent has a body the peer can send.
LEMMA TogetherFlags ==
  ASSUME NEW t, NEW u, NEW p, NEW q, Together(t, u, p, q), Hellos = SUBSET Flags
  PROVE  \A i \in DOMAIN p : p[i].flags \in FlagsOf(p[i].mt)
<1> SUFFICES ASSUME NEW i \in DOMAIN p PROVE p[i].flags \in FlagsOf(p[i].mt)
  OBVIOUS
<1>1. FlagsOK(p[i]) /\ p[i] \in Records
  BY DEF Together, Delivers
<1>2. CASE p[i].mt \in {"CLIENT_HELLO", "SERVER_HELLO"}
  BY <1>1, <1>2 DEF FlagsOf, Records
<1> QED BY <1>1, <1>2 DEF FlagsOK

-----------------------------------------------------------------------------
(* Theorems *)

LEMMA WireInit == Init => Wire(s)
<1> SUFFICES ASSUME Init PROVE Wire(s)
  OBVIOUS
<1>1. PICK o \in OptionSet : s = ossl_statem_clear(IsServer, o)
  BY DEF Init
<1>2. IsServer \in BOOLEAN /\ o \in Options
  BY PeerAssumption
<1> QED BY <1>1, <1>2, ClearType, WireFresh

LEMMA WireNext ==
  TypeInv /\ FlightInv /\ SecInv /\ Wire(s) /\ [Next]_vars => Wire(s)'
<1> SUFFICES ASSUME TypeInv, FlightInv, SecInv, Wire(s), [Next]_vars PROVE Wire(s')
  OBVIOUS
<1>1. CASE EndpointNext
  <2>1. Stepped
    BY <1>1, WireStep DEF TypeInv, TypeOK, SecInv
  <2> QED BY <2>1 DEF Stepped
<1>2. CASE s' = s
  BY <1>2
<1> QED BY <1>1, <1>2 DEF Next, PeerSends, vars

\* The server's proof is the server's: a client that verifies its peer ends a full
\* handshake of a suite with certificates only with a server that sent a trusted
\* chain in its first flight and then used its key
\* (tls_process_server_certificate, tls_process_key_exchange,
\* tls_process_cert_verify).
THEOREM ServersProveThemselves == Spec => []ServerAuthenticated
<1>1. TypeInv /\ SecInv /\ Wire(s) => ServerAuthenticated
  <2> SUFFICES ASSUME TypeInv, SecInv, Wire(s), Established, ~s.server, ~s.hit, Asks(s)
               PROVE  ServerProof(s)
    BY DEF ServerAuthenticated, Asks
  <2> DEFINE tr == s.transcript
             last == CASE SSL_IS_TLS13(s) -> Signature("CERTIFICATE_VERIFY")
                       [] s.new_cipher = "DHE" -> Signature("SERVER_KEY_EXCHANGE")
                       [] OTHER -> Elem("CLIENT_KEY_EXCHANGE", {})
  <2>1. s.hand_state = "OK" /\ s \in SSL /\ tr \in Hash
    BY SSLParts DEF Established, TypeInv, TypeOK
  <2>2. ServerShown(s)
    BY <2>1, GoodEnds DEF SecInv, Ends
  <2>3. PICK j, k \in DOMAIN tr : j < k /\ tr[j] = TrustedChain /\ tr[k] = last
    BY <2>2 DEF ServerShown, Follows
  <2>4. ChainFirst(tr)
    <3>1. Shown(s)
      BY <2>1 DEF Wire, Always
    <3> QED BY <2>1, <3>1 DEF Shown
  <2> HIDE DEF last
  <2>5. PICK i \in DOMAIN tr : tr[i] = TrustedChain /\ ~After(tr, i)
    BY <2>4 DEF ChainFirst
  <2>6. DOMAIN tr \subseteq Nat
    BY <2>1 DEF Hash
  <2>7. InFirstFlight(tr, i)
    BY <2>5 DEF InFirstFlight, After, Opener
  <2>8. \E h \in DOMAIN tr : tr[h] = TrustedChain /\ InFirstFlight(tr, h) /\ h < k
    <3>1. CASE i < k
      BY <2>5, <2>7, <3>1
    <3>2. CASE ~(i < k)
      <4>1. InFirstFlight(tr, j)
        BY <2>3, <2>6, <2>7, <3>2 DEF InFirstFlight
      <4> QED BY <2>3, <4>1
    <3> QED BY <3>1, <3>2
  <2> QED BY <2>3, <2>8 DEF ServerProof, last
<1> QED BY <1>1, TypeInit, TypeStep, FlightInit, FlightStep, SecInit, SecStep, WireInit, WireNext,
        PTL
        DEF Spec
=============================================================================
