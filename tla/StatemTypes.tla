----------------------------- MODULE StatemTypes -----------------------------
(***************************************************************************)
(* Type correctness of an endpoint with an arbitrary peer, for every set   *)
(* of options and hellos.  Each operator of the state machine gets a lemma *)
(* of its own (an SSL object in, an SSL object out); the actions follow.   *)
(* The second half shows that no flight is left behind in the buffer.      *)
(***************************************************************************)
EXTENDS ArbitraryPeer, TLAPS

-----------------------------------------------------------------------------
(* Data *)

\* A message given to ssl3_finish_mac makes a hash of a hash.
LEMMA AppendHash ==
  ASSUME NEW h \in Hash, NEW e \in Hashed
  PROVE  Append(h, e) \in Hash
BY DEF Hash

\* What is hashed of a message is well typed.
LEMMA ElemHashed ==
  ASSUME NEW mt \in MessageTypes \cup {"MESSAGE_HASH", "SESSION", "PREMASTER", "RANDOM"},
         NEW flags \in SUBSET Flags
  PROVE  Elem(mt, flags) \in Hashed
BY DEF Elem, Hashed

\* Hashes of no, one and two messages.
LEMMA ShortHash ==
  /\ <<>> \in Hash
  /\ \A e \in Hashed : <<e>> \in Hash
  /\ \A e, f \in Hashed : <<e, f>> \in Hash
BY DEF Hash

\* The flags of all messages hashed so far.
LEMMA HashFlags ==
  ASSUME NEW h \in Hash
  PROVE  UNION {h[i].flags : i \in DOMAIN h} \in SUBSET Flags
<1>1. \A i \in DOMAIN h : h[i] \in Hashed
  BY DEF Hash
<1>2. \A i \in DOMAIN h : h[i].flags \in SUBSET Flags
  BY <1>1 DEF Hashed
<1> QED BY <1>2

\* The values a fresh SSL object starts from.
LEMMA EmptyValues == PlainKey \in Keys /\ NoMac \in Macs /\ NoMsg \in Records
<1>1. PlainKey \in Keys
  BY ShortHash DEF PlainKey, Keys, Epochs, Sides
<1>2. NoMac \in Macs
  BY ShortHash DEF NoMac, Macs, Sides
<1>3. NoMsg \in Records
  BY <1>1, <1>2 DEF NoMsg, Records, MessageTypes
<1> QED BY <1>1, <1>2, <1>3

\* Traffic keys and verify_data made of typed parts.
LEMMA MakeKey ==
  ASSUME NEW epoch \in Epochs, NEW writer \in Sides, NEW secret \in Hash
  PROVE  [epoch |-> epoch, writer |-> writer, secret |-> secret] \in Keys
BY DEF Keys

LEMMA MakeMac ==
  ASSUME NEW sender \in Sides, NEW secret \in Hash, NEW hash \in Hash
  PROVE  [sender |-> sender, secret |-> secret, hash |-> hash] \in Macs
BY DEF Macs

\* Records made of typed parts, and their parts.
LEMMA MakeRecord ==
  ASSUME NEW mt \in MessageTypes, NEW flags \in SUBSET Flags, NEW mac \in Macs, NEW key \in Keys
  PROVE  [mt |-> mt, flags |-> flags, mac |-> mac, key |-> key] \in Records
BY DEF Records

LEMMA RecordParts ==
  ASSUME NEW m \in Records
  PROVE  /\ m.mt \in MessageTypes /\ m.flags \in SUBSET Flags /\ m.mac \in Macs /\ m.key \in Keys
         /\ \A k \in Keys : [m EXCEPT !.key = k] \in Records
         /\ \A a \in Macs : [m EXCEPT !.mac = a] \in Records
BY DEF Records

\* The options of an SSL object, as the code reads them.
LEMMA OptionParts ==
  ASSUME NEW o \in Options
  PROVE  /\ o.versions \in SUBSET Versions
         /\ o.session \in Versions \cup {"NONE"}
         /\ o.groups \in (SUBSET {"g1", "g2"}) \ {{}}
         /\ o.cipher \in Ciphers \ {"TLS13"}
         /\ o.num_tickets \in Nat
         /\ o.cert \in {"NONE", "TRUSTED", "UNTRUSTED"}
BY DEF Options

\* Fields of an SSL object that the lemmas below refer to.
LEMMA SSLParts ==
  ASSUME NEW t \in SSL
  PROVE  /\ t.opt \in Options /\ t.server \in BOOLEAN
         /\ t.transcript \in Hash /\ t.master_key \in Hash
         /\ t.handshake_traffic_hash \in Hash /\ t.server_finished_hash \in Hash
         /\ t.enc_read \in Keys /\ t.enc_write \in Keys
         /\ t.init_msg \in Records /\ t.bbio \in Seq(Records)
         /\ t.peer_mac \in Macs /\ t.group \in {"g1", "g2"}
         /\ t.version \in Versions \cup {"ANY"} /\ t.new_cipher \in Ciphers \cup {"NONE"}
         /\ t.hit \in BOOLEAN /\ t.ticket_expected \in BOOLEAN /\ t.sent_tickets \in Nat
         /\ t.hello_retry_request \in {"NONE", "PENDING", "COMPLETE"}
BY DEF SSL

\* A queue of records stays one.
LEMMA RecordQueue ==
  ASSUME NEW q \in Seq(Records)
  PROVE  /\ <<>> \in Seq(Records)
         /\ \A m \in Records : Append(q, m) \in Seq(Records) /\ <<m>> \in Seq(Records)
         /\ \A r \in Seq(Records) : q \o r \in Seq(Records)
         /\ q # <<>> => Head(q) \in Records /\ Tail(q) \in Seq(Records)
OBVIOUS

-----------------------------------------------------------------------------
(* ssl_local.h and statem_lib.c *)

\* SSLfatal keeps the object typed.
LEMMA FatalType ==
  ASSUME NEW t \in SSL, NEW r \in Reasons
  PROVE  ossl_statem_fatal(t, r) \in SSL /\ ossl_statem_fatal_no_alert(t, r) \in SSL
<1>1. [NoMsg EXCEPT !.key = t.enc_write] \in Records
  BY EmptyValues, RecordParts, SSLParts
<1>2. Append(t.bbio, [NoMsg EXCEPT !.key = t.enc_write]) \in Seq(Records)
  BY <1>1, RecordQueue, SSLParts
<1>3. ossl_statem_fatal(t, r) \in SSL
  BY ZenonT(120), <1>2 DEF ossl_statem_fatal, SSL, MsgFlow
<1>4. ossl_statem_fatal_no_alert(t, r) \in SSL
  BY ZenonT(120) DEF ossl_statem_fatal_no_alert, SSL, MsgFlow
<1> QED BY <1>3, <1>4

\* The three ways process_message continues.
LEMMA ContinueType ==
  ASSUME NEW t \in SSL
  PROVE  ContinueReading(t) \in SSL /\ ContinueProcessing(t) \in SSL /\ FinishedReading(t) \in SSL
<1>1. ContinueReading(t) \in SSL
  BY SMTT(60) DEF ContinueReading, SSL, SubStates
<1>2. ContinueProcessing(t) \in SSL
  BY SMTT(60) DEF ContinueProcessing, SSL, SubStates
<1>3. FinishedReading(t) \in SSL
  BY ZenonT(120) DEF FinishedReading, SSL, SubStates, MsgFlow
<1> QED BY <1>1, <1>2, <1>3

\* Hashing a message; restarting the hash for a HelloRetryRequest.
LEMMA FinishMacType ==
  ASSUME NEW t \in SSL, NEW mt \in MessageTypes, NEW flags \in SUBSET Flags
  PROVE  ssl3_finish_mac(t, mt, flags) \in SSL
<1>1. Append(t.transcript, Elem(mt, flags)) \in Hash
  BY AppendHash, ElemHashed, SSLParts
<1> QED BY ZenonT(120), <1>1 DEF ssl3_finish_mac, SSL

LEMMA SyntheticHashType ==
  ASSUME NEW t \in SSL
  PROVE  create_synthetic_message_hash(t) \in SSL
<1> DEFINE all == UNION {t.transcript[i].flags : i \in DOMAIN t.transcript}
<1>1. all \in SUBSET Flags
  BY HashFlags, SSLParts
<1>2. <<Elem("MESSAGE_HASH", all)>> \in Hash
  BY <1>1, ElemHashed, ShortHash
<1> QED BY SMTT(60), <1>2 DEF create_synthetic_message_hash, SSL

\* Installing a key.
LEMMA InstallType ==
  ASSUME NEW t \in SSL, NEW k \in Keys
  PROVE  InstallRead(t, k) \in SSL /\ InstallWrite(t, k) \in SSL
<1>1. InstallRead(t, k) \in SSL
  BY DEF InstallRead, SSL
<1>2. InstallWrite(t, k) \in SSL
  BY DEF InstallWrite, SSL
<1> QED BY <1>1, <1>2

LEMMA RandomHashed ==
  ASSUME NEW t \in SSL
  PROVE  Random(t) \in Hashed
<1> DEFINE all == UNION {t.transcript[i].flags : i \in DOMAIN t.transcript}
<1>1. {"sentinel"} \cap all \in SUBSET Flags
  BY HashFlags, SSLParts
<1> QED BY <1>1, ElemHashed DEF Random

\* The keys of both versions, for either writer.
LEMMA KeyType ==
  ASSUME NEW t \in SSL, NEW writer \in Sides, NEW epoch \in Epochs
  PROVE  /\ tls1_key(t, writer) \in Keys
         /\ ClientKey13(t, epoch) \in Keys
         /\ ServerKey13(t, epoch) \in Keys
<1>1. Append(t.master_key, Random(t)) \in Hash
  BY AppendHash, RandomHashed, SSLParts
<1>2. tls1_key(t, writer) \in Keys
  BY <1>1, MakeKey DEF tls1_key, Epochs
<1>3. ClientKey13(t, epoch) \in Keys
  BY MakeKey, SSLParts DEF ClientKey13, Sides
<1>4. ServerKey13(t, epoch) \in Keys
  BY MakeKey, SSLParts DEF ServerKey13, Sides
<1> QED BY <1>2, <1>3, <1>4

LEMMA SaveHashType ==
  ASSUME NEW t \in SSL, NEW epoch \in Epochs
  PROVE  SaveHash(t, epoch) \in SSL
<1>1. [t EXCEPT !.handshake_traffic_hash = t.transcript] \in SSL
  BY DEF SSL
<1>2. [t EXCEPT !.server_finished_hash = t.transcript] \in SSL
  BY DEF SSL
<1> QED BY <1>1, <1>2 DEF SaveHash

\* tls13_change_cipher_state in both directions.
LEMMA ChangeKeyType ==
  ASSUME NEW t \in SSL, NEW epoch \in Epochs
  PROVE  tls13_change_write(t, epoch) \in SSL /\ tls13_change_read(t, epoch) \in SSL
<1>1. SaveHash(t, epoch) \in SSL
  BY SaveHashType
<1>2. ClientKey13(t, epoch) \in Keys /\ ServerKey13(t, epoch) \in Keys
  BY KeyType DEF Sides
<1>3. tls13_change_write(t, epoch) \in SSL
  BY <1>1, <1>2, InstallType DEF tls13_change_write
<1>4. tls13_change_read(t, epoch) \in SSL
  BY <1>1, <1>2, InstallType DEF tls13_change_read
<1> QED BY <1>3, <1>4

LEMMA MasterSecretType ==
  ASSUME NEW t \in SSL
  PROVE  ssl_generate_master_secret(t) \in SSL
<1>1. <<Elem("PREMASTER", {}), Random(t)>> \in Hash
  BY ElemHashed, RandomHashed, ShortHash
<1>2. (IF t.extms THEN t.transcript ELSE <<Elem("PREMASTER", {}), Random(t)>>) \in Hash
  BY <1>1, SSLParts
<1> QED BY <1>2 DEF ssl_generate_master_secret, SSL

\* The verify_data of either side.
LEMMA MacType ==
  ASSUME NEW t \in SSL, NEW sender \in Sides
  PROVE  final_finish_mac(t, sender) \in Macs
BY MakeMac, SSLParts DEF final_finish_mac

LEMMA SideType ==
  ASSUME NEW t \in SSL
  PROVE  Side(t) \in Sides /\ PeerSide(t) \in Sides
BY DEF Side, PeerSide, Sides

\* A constructed message.
LEMMA ConstructType ==
  ASSUME NEW t \in SSL, NEW mt \in MessageTypes, NEW flags \in SUBSET Flags
  PROVE  /\ Construct(t, mt, flags) \in SSL
         /\ \A a \in Macs : [Construct(t, mt, flags) EXCEPT !.init_msg.mac = a] \in SSL
<1> DEFINE msg == [mt |-> mt, flags |-> flags, mac |-> NoMac, key |-> PlainKey]
<1>1. msg \in Records
  BY MakeRecord, EmptyValues
<1>2. ASSUME NEW m \in Records
      PROVE  [t EXCEPT !.sub = "SEND", !.init_msg = m] \in SSL
  BY ZenonT(120) DEF SSL, SubStates
<1>3. Construct(t, mt, flags) \in SSL
  BY ZenonT(120), <1>1, <1>2 DEF Construct
<1>4. ASSUME NEW c \in SSL, NEW a \in Macs
      PROVE  [c EXCEPT !.init_msg.mac = a] \in SSL
  <2>1. [c.init_msg EXCEPT !.mac = a] \in Records
    BY RecordParts, SSLParts
  <2>2. ASSUME NEW m \in Records
        PROVE  [c EXCEPT !.init_msg = m] \in SSL
    BY SMTT(60) DEF SSL
  <2> QED BY <2>1, <2>2
<1> QED BY <1>3, <1>4

\* Finished, change_cipher_spec and CertificateVerify on either side.
LEMMA ConstructFinishedType ==
  ASSUME NEW t \in SSL
  PROVE  tls_construct_finished(t) \in SSL
<1> DEFINE a == [t EXCEPT !.cleanuphand = t.cleanuphand \/ ~t.server, !.finish_md = TRUE]
           b == IF SSL_IS_TLS13(t) /\ ~t.server /\ t.cert_req = 0
                THEN tls13_change_write(a, "HANDSHAKE") ELSE a
<1>1. a \in SSL
  BY ZenonT(120) DEF SSL
<1> HIDE DEF a
<1>2. b \in SSL
  BY <1>1, ChangeKeyType DEF Epochs
<1> HIDE DEF b
<1>3. final_finish_mac(b, Side(b)) \in Macs
  BY <1>2, MacType, SideType
<1>4. [Construct(b, "FINISHED", {}) EXCEPT !.init_msg.mac = final_finish_mac(b, Side(b))] \in SSL
  BY <1>2, <1>3, ConstructType DEF MessageTypes
<1> QED BY <1>4 DEF tls_construct_finished, a, b

LEMMA ProcessChangeType ==
  ASSUME NEW t \in SSL
  PROVE  tls_process_change_cipher_spec(t) \in SSL
<1>1. [t EXCEPT !.change_cipher_spec = TRUE] \in SSL
  BY ZenonT(120) DEF SSL
<1>2. tls1_key(t, PeerSide(t)) \in Keys
  BY KeyType, SideType DEF Epochs
<1>3. InstallRead([t EXCEPT !.change_cipher_spec = TRUE], tls1_key(t, PeerSide(t))) \in SSL
  BY <1>1, <1>2, InstallType
<1> QED BY <1>1, <1>3, FatalType, ContinueType DEF tls_process_change_cipher_spec, Reasons

LEMMA ProcessCertVerifyType ==
  ASSUME NEW t \in SSL, NEW m
  PROVE  tls_process_cert_verify(t, m) \in SSL
BY FatalType, ContinueType DEF tls_process_cert_verify, Reasons

LEMMA ProcessFinishedType ==
  ASSUME NEW t \in SSL, NEW m
  PROVE  tls_process_finished(t, m) \in SSL
<1> DEFINE a == [t EXCEPT !.plain_alerts = t.plain_alerts /\ ~t.server,
                          !.cleanuphand = t.cleanuphand \/ t.server]
           b == [a EXCEPT !.change_cipher_spec = FALSE]
<1>1. a \in SSL
  <2>1. (t.plain_alerts /\ ~t.server) \in BOOLEAN /\ (t.cleanuphand \/ t.server) \in BOOLEAN
    OBVIOUS
  <2>2. ASSUME NEW p \in BOOLEAN, NEW c \in BOOLEAN
        PROVE  [t EXCEPT !.plain_alerts = p, !.cleanuphand = c] \in SSL
    BY ZenonT(120) DEF SSL
  <2> QED BY ZenonT(120), <2>1, <2>2
<1> HIDE DEF a
<1>2. b \in SSL
  BY ZenonT(120), <1>1 DEF SSL
<1> HIDE DEF b
<1>3. tls13_change_read(b, "APPLICATION") \in SSL
  BY <1>2, ChangeKeyType DEF Epochs
<1>4. /\ ossl_statem_fatal(a, "GOT_A_FIN_BEFORE_A_CCS") \in SSL
      /\ ossl_statem_fatal(b, "DIGEST_CHECK_FAILED") \in SSL
  BY <1>1, <1>2, FatalType DEF Reasons
<1>5. FinishedReading(b) \in SSL /\ FinishedReading(tls13_change_read(b, "APPLICATION")) \in SSL
  BY <1>2, <1>3, ContinueType
<1> QED BY <1>4, <1>5 DEF tls_process_finished, a, b

LEMMA FinishHandshakeType ==
  ASSUME NEW t \in SSL, NEW clearbufs \in BOOLEAN, NEW stop \in BOOLEAN
  PROVE  tls_finish_handshake(t, clearbufs, stop) \in SSL
<1>1. (IF clearbufs THEN <<>> ELSE t.bbio) \in Seq(Records)
  BY RecordQueue, SSLParts
<1>2. ASSUME NEW q \in Seq(Records), NEW e \in BOOLEAN, NEW i \in BOOLEAN
      PROVE  [t EXCEPT !.bbio = q, !.ticket_expected = e, !.cleanuphand = FALSE,
                       !.in_init = i] \in SSL
  BY ZenonT(120) DEF SSL
<1>3. (t.ticket_expected /\ ~t.cleanuphand) \in BOOLEAN /\ (~stop) \in BOOLEAN
  OBVIOUS
<1> QED BY ZenonT(120), <1>1, <1>2, <1>3 DEF tls_finish_handshake

\* Reading the body of a message and writing one.
LEMMA GetBodyType ==
  ASSUME NEW t \in SSL
  PROVE  tls_get_message_body(t) \in SSL
<1> DEFINE m == t.init_msg
           a == IF m.mt = "FINISHED"
                THEN [t EXCEPT !.peer_mac = final_finish_mac(t, PeerSide(t)),
                               !.peer_finish_md = TRUE] ELSE t
<1>1. final_finish_mac(t, PeerSide(t)) \in Macs
  BY MacType, SideType
<1>2. ASSUME NEW mac \in Macs
      PROVE  [t EXCEPT !.peer_mac = mac, !.peer_finish_md = TRUE] \in SSL
  BY ZenonT(120) DEF SSL
<1>3. a \in SSL
  BY ZenonT(120), <1>1, <1>2
<1>4. m.mt \in MessageTypes /\ m.flags \in SUBSET Flags
  BY RecordParts, SSLParts
<1> HIDE DEF a
<1>5. ssl3_finish_mac(a, m.mt, m.flags) \in SSL
  BY <1>3, <1>4, FinishMacType
<1> QED BY <1>3, <1>5 DEF tls_get_message_body, a

LEMMA DoWriteType ==
  ASSUME NEW t \in SSL
  PROVE  ssl3_do_write(t) \in SSL
<1> DEFINE m == t.init_msg
           w == [t EXCEPT !.bbio = Append(@, [m EXCEPT !.key = t.enc_write])]
<1>1. [m EXCEPT !.key = t.enc_write] \in Records
  BY RecordParts, SSLParts
<1>2. Append(t.bbio, [m EXCEPT !.key = t.enc_write]) \in Seq(Records)
  BY <1>1, RecordQueue, SSLParts
<1>3. ASSUME NEW q \in Seq(Records) PROVE [t EXCEPT !.bbio = q] \in SSL
  BY ZenonT(120) DEF SSL
<1>4. w \in SSL
  BY <1>2, <1>3
<1>5. m.mt \in MessageTypes /\ m.flags \in SUBSET Flags
  BY RecordParts, SSLParts
<1> HIDE DEF w
<1>6. ssl3_finish_mac(w, m.mt, m.flags) \in SSL
  BY <1>4, <1>5, FinishMacType
<1> QED BY <1>4, <1>6 DEF ssl3_do_write, w

-----------------------------------------------------------------------------
(* statem_clnt.c *)

\* The transitions of both sides lead to handshake states.
LEMMA ClientReadState ==
  ASSUME NEW t, NEW mt
  PROVE  client_read_transition(t, mt) \in HandStates \cup {"NONE"}
<1>1. client13_read_transition(t, mt) \in HandStates \cup {"NONE"}
  BY DEF client13_read_transition, HandStates, ClientStates
<1>2. client12_read_transition(t, mt) \in HandStates \cup {"NONE"}
  BY DEF client12_read_transition, HandStates, ClientStates
<1> QED BY <1>1, <1>2 DEF client_read_transition

LEMMA ClientWriteState ==
  ASSUME NEW t
  PROVE  client_write_transition(t) \in HandStates \cup {"FINISHED", "ERROR"}
<1>1. client13_write_transition(t) \in HandStates \cup {"FINISHED", "ERROR"}
  BY DEF client13_write_transition, HandStates, ClientStates
<1>2. client12_write_transition(t) \in HandStates \cup {"FINISHED", "ERROR"}
  BY DEF client12_write_transition, HandStates, ClientStates
<1> QED BY <1>1, <1>2 DEF client_write_transition

\* A Certificate message's flags.
LEMMA ChainFlagsType ==
  ASSUME NEW cert
  PROVE  ChainFlags(cert) \in SUBSET Flags
BY DEF ChainFlags, Flags

\* What a client writes.
LEMMA ClientHelloType ==
  ASSUME NEW t \in SSL
  PROVE  tls_construct_client_hello(t) \in SSL
<1> DEFINE a == [t EXCEPT !.ticket_expected = FALSE]
           fl == t.opt.versions \cup {t.group, "ems"} \cup OldSuites(t)
              \cup (IF t.opt.session \in t.opt.versions THEN {SessFlag(t.opt.session)} ELSE {})
              \cup (IF t.opt.ticket THEN {"ticket"} ELSE {})
              \cup (IF t.opt.status THEN {"status"} ELSE {})
<1>1. a \in SSL
  BY ZenonT(120) DEF SSL
<1>2. /\ t.opt.versions \in SUBSET Flags /\ {t.group, "ems"} \in SUBSET Flags
      /\ OldSuites(t) \in SUBSET Flags
  BY SSLParts, OptionParts DEF Flags, OldSuites
<1>3. {SessFlag(t.opt.session)} \in SUBSET Flags
  BY DEF SessFlag, Flags
<1>4. {"ticket"} \in SUBSET Flags /\ {"status"} \in SUBSET Flags
  BY DEF Flags
<1>5. fl \in SUBSET Flags
  BY <1>2, <1>3, <1>4
<1> HIDE DEF a, fl
<1>6. Construct(a, "CLIENT_HELLO", fl) \in SSL
  BY <1>1, <1>5, ConstructType DEF MessageTypes
<1> QED BY <1>6 DEF tls_construct_client_hello, a, fl

LEMMA ClientCertificateType ==
  ASSUME NEW t \in SSL
  PROVE  tls_construct_client_certificate(t) \in SSL
<1> DEFINE fl == IF t.cert_req = 2 THEN {} ELSE ChainFlags(t.opt.cert)
           c == Construct(t, "CERTIFICATE", fl)
<1>1. fl \in SUBSET Flags
  BY ChainFlagsType
<1> HIDE DEF fl
<1>2. c \in SSL
  BY <1>1, ConstructType DEF MessageTypes
<1> HIDE DEF c
<1>3. tls13_change_write(c, "HANDSHAKE") \in SSL
  BY <1>2, ChangeKeyType DEF Epochs
<1> QED BY <1>2, <1>3 DEF tls_construct_client_certificate, c, fl

LEMMA ClientConstructType ==
  ASSUME NEW t \in SSL
  PROVE  client_construct_message(t) \in SSL
<1>1. {} \in SUBSET Flags /\ {"ok"} \in SUBSET Flags
  BY DEF Flags
<1>2. /\ Construct(t, "CHANGE_CIPHER_SPEC", {}) \in SSL
      /\ Construct(t, "CLIENT_KEY_EXCHANGE", {}) \in SSL
      /\ Construct(t, "CERTIFICATE_VERIFY", {"ok"}) \in SSL
  BY <1>1, ConstructType DEF MessageTypes
<1>3. ossl_statem_fatal(t, "INTERNAL_ERROR") \in SSL
  BY FatalType DEF Reasons
<1> QED BY <1>2, <1>3, ClientHelloType, ClientCertificateType, ConstructFinishedType
        DEF client_construct_message

LEMMA ClientPreWorkType ==
  ASSUME NEW t \in SSL
  PROVE  client_pre_work(t) \in SSL
<1>1. tls_finish_handshake(t, TRUE, TRUE) \in SSL
  BY FinishHandshakeType
<1>2. ASSUME NEW a \in SSL PROVE [a EXCEPT !.state = "FINISHED"] \in SSL
  BY SMTT(60) DEF SSL, MsgFlow
<1> QED BY <1>1, <1>2, ClientConstructType DEF client_pre_work

LEMMA ClientPostWorkType ==
  ASSUME NEW t \in SSL
  PROVE  client_post_work(t) \in SSL
<1>1. InstallWrite(t, tls1_key(t, "CLIENT")) \in SSL
  BY KeyType, InstallType DEF Sides, Epochs
<1>2. tls13_change_write(t, "APPLICATION") \in SSL
  BY ChangeKeyType DEF Epochs
<1> QED BY <1>1, <1>2, MasterSecretType DEF client_post_work

\* What a client does with what it reads.
LEMMA HelloRetryRequestType ==
  ASSUME NEW t \in SSL, NEW m \in Records
  PROVE  tls_process_as_hello_retry_request(t, m) \in SSL
<1> DEFINE new == (m.flags \cap {"g1", "g2"}) \ {t.group}
           cipher == m.flags \cap Ciphers
           a == [t EXCEPT !.hello_retry_request = "PENDING"]
           b == [a EXCEPT !.enc_write = PlainKey, !.new_cipher = CHOOSE c \in cipher : TRUE]
           c == [b EXCEPT !.group = CHOOSE g \in new : TRUE]
           refused == cipher = {} \/ ~(cipher \subseteq OldSuites(t) \cup {"TLS13"})
           d == ssl3_finish_mac(create_synthetic_message_hash(c), m.mt, m.flags)
<1>1. a \in SSL
  BY DEF SSL
<1>2. CASE refused
  BY <1>1, <1>2, FatalType DEF tls_process_as_hello_retry_request, Reasons
<1>3. CASE ~refused
  <2>1. (CHOOSE x \in cipher : TRUE) \in Ciphers
    BY <1>3
  <2>2. ASSUME NEW x \in Ciphers
        PROVE  [a EXCEPT !.enc_write = PlainKey, !.new_cipher = x] \in SSL
    BY ZenonT(120), <1>1, EmptyValues DEF SSL
  <2>3. b \in SSL
    BY ZenonT(120), <2>1, <2>2
  <2>4. CASE new = {}
    BY <1>3, <2>3, <2>4, FatalType DEF tls_process_as_hello_retry_request, Reasons
  <2>5. CASE new # {}
    <3>1. (CHOOSE g \in new : TRUE) \in {"g1", "g2"}
      BY <2>5
    <3>2. ASSUME NEW x \in SSL, NEW g \in {"g1", "g2"}
          PROVE  [x EXCEPT !.group = g] \in SSL
      BY ZenonT(120) DEF SSL
    <3>3. c \in SSL
      BY <2>3, <3>1, <3>2
    <3> HIDE DEF c
    <3>4. d \in SSL
      BY <3>3, SyntheticHashType, FinishMacType, RecordParts
    <3>5. FinishedReading(d) \in SSL
      BY <3>4, ContinueType
    <3>6. tls_process_as_hello_retry_request(t, m) = FinishedReading(d)
      BY <1>3, <2>5 DEF tls_process_as_hello_retry_request, c
    <3> QED BY <3>5, <3>6
  <2> QED BY <2>4, <2>5
<1> QED BY <1>2, <1>3

LEMMA ServerHelloType ==
  ASSUME NEW t \in SSL, NEW m \in Records
  PROVE  tls_process_server_hello(t, m) \in SSL
<1> DEFINE v == ServerHelloVersion(m)
           hit == "hit" \in m.flags /\ t.opt.session = v
           a == [t EXCEPT !.version = v, !.hit = hit]
           key == IF hit /\ v = "TLS1_2" THEN <<Elem("SESSION", {})>> ELSE t.master_key
           b == [a EXCEPT !.new_cipher = IF v = "TLS1_3" THEN "TLS13" ELSE t.opt.cipher,
                          !.ticket_expected = "ticket" \in m.flags,
                          !.status_expected = "status" \in m.flags,
                          !.extms = "ems" \in m.flags,
                          !.master_key = IF hit /\ v = "TLS1_2"
                                         THEN <<Elem("SESSION", {})>> ELSE @]
<1>1. v \in Versions
  BY DEF ServerHelloVersion, Versions
<1>2. ssl_choose_client_version(t, m) \in Reasons
  BY DEF ssl_choose_client_version, Reasons
<1> HIDE DEF v
<1>3. ASSUME NEW w \in Versions, NEW h \in BOOLEAN
      PROVE  [t EXCEPT !.version = w, !.hit = h] \in SSL
  BY ZenonT(120) DEF SSL
<1>4. a \in SSL
  <2>1. hit \in BOOLEAN
    OBVIOUS
  <2> QED BY ZenonT(120), <1>1, <1>3, <2>1
<1>5. key \in Hash
  BY ElemHashed, ShortHash, SSLParts
<1>6. (IF v = "TLS1_3" THEN "TLS13" ELSE t.opt.cipher) \in Ciphers
  BY SSLParts, OptionParts DEF Ciphers
<1>7. ASSUME NEW x \in SSL, NEW c \in Ciphers, NEW p \in BOOLEAN, NEW q \in BOOLEAN,
             NEW e \in BOOLEAN, NEW k \in Hash
      PROVE  [x EXCEPT !.new_cipher = c, !.ticket_expected = p, !.status_expected = q,
                       !.extms = e, !.master_key = k] \in SSL
  BY ZenonT(120) DEF SSL
<1>8. b \in SSL
  <2>1. /\ ("ticket" \in m.flags) \in BOOLEAN /\ ("status" \in m.flags) \in BOOLEAN
        /\ ("ems" \in m.flags) \in BOOLEAN
    OBVIOUS
  <2>2. b = [a EXCEPT !.new_cipher = IF v = "TLS1_3" THEN "TLS13" ELSE t.opt.cipher,
                      !.ticket_expected = "ticket" \in m.flags,
                      !.status_expected = "status" \in m.flags,
                      !.extms = "ems" \in m.flags, !.master_key = key]
    OBVIOUS
  <2> HIDE DEF a, b, key, hit
  <2> QED BY ZenonT(120), <1>4, <1>5, <1>6, <1>7, <2>1, <2>2
<1> HIDE DEF a, b, hit
<1>9. tls13_change_read(b, "HANDSHAKE") \in SSL
  BY <1>8, ChangeKeyType DEF Epochs
<1>10. /\ ContinueReading(b) \in SSL
       /\ ContinueReading(tls13_change_read(b, "HANDSHAKE")) \in SSL
  BY <1>8, <1>9, ContinueType
<1>11. /\ ossl_statem_fatal(t, ssl_choose_client_version(t, m)) \in SSL
       /\ ossl_statem_fatal(a, "BAD_CIPHER") \in SSL
       /\ ossl_statem_fatal(a, "BAD_EXTENSION") \in SSL
  BY <1>2, <1>4, FatalType DEF Reasons
<1> QED BY <1>10, <1>11, HelloRetryRequestType DEF tls_process_server_hello, a, b, hit, v

LEMMA ServerCertificateType ==
  ASSUME NEW t \in SSL, NEW m \in Records
  PROVE  tls_process_server_certificate(t, m) \in SSL
<1>1. [t EXCEPT !.peer = TRUE] \in SSL
  BY ZenonT(120) DEF SSL
<1> QED BY <1>1, FatalType, ContinueType DEF tls_process_server_certificate, Reasons

LEMMA ServerKeyExchangeType ==
  ASSUME NEW t \in SSL, NEW m \in Records
  PROVE  tls_process_key_exchange(t, m) \in SSL
BY FatalType, ContinueType DEF tls_process_key_exchange, Reasons

LEMMA CertificateRequestType ==
  ASSUME NEW t \in SSL
  PROVE  /\ tls_process_certificate_request(t) \in SSL
         /\ tls_prepare_client_certificate(t) \in SSL
         /\ tls_process_new_session_ticket(t) \in SSL
<1>1. [t EXCEPT !.cert_req = 1] \in SSL /\ [t EXCEPT !.cert_req = 2] \in SSL
  BY SMTT(60) DEF SSL
<1> QED BY <1>1, ContinueType DEF tls_process_certificate_request,
           tls_prepare_client_certificate, tls_process_new_session_ticket

LEMMA ClientProcessType ==
  ASSUME NEW t \in SSL, NEW m \in Records
  PROVE  client_process_message(t, m) \in SSL /\ client_post_process_message(t) \in SSL
<1>1. ossl_statem_fatal(t, "INTERNAL_ERROR") \in SSL
  BY FatalType DEF Reasons
<1>2. client_process_message(t, m) \in SSL
  BY <1>1, ContinueType, ServerHelloType, ServerCertificateType, ServerKeyExchangeType,
     CertificateRequestType, ProcessCertVerifyType, ProcessChangeType, ProcessFinishedType
     DEF client_process_message
<1>3. client_post_process_message(t) \in SSL
  BY <1>1, CertificateRequestType DEF client_post_process_message
<1> QED BY <1>2, <1>3

-----------------------------------------------------------------------------
(* statem_srvr.c *)

LEMMA ServerReadState ==
  ASSUME NEW t, NEW mt
  PROVE  server_read_transition(t, mt) \in HandStates \cup {"NONE"}
<1>1. server13_read_transition(t, mt) \in HandStates \cup {"NONE"}
  BY DEF server13_read_transition, HandStates, ServerStates
<1>2. server12_read_transition(t, mt) \in HandStates \cup {"NONE"}
  BY DEF server12_read_transition, HandStates, ServerStates
<1> QED BY <1>1, <1>2 DEF server_read_transition

LEMMA ServerWriteState ==
  ASSUME NEW t
  PROVE  server_write_transition(t) \in HandStates \cup {"FINISHED", "ERROR"}
<1>1. server13_write_transition(t) \in HandStates \cup {"FINISHED", "ERROR"}
  BY DEF server13_write_transition, HandStates, ServerStates
<1>2. server12_write_transition(t) \in HandStates \cup {"FINISHED", "ERROR"}
  BY DEF server12_write_transition, HandStates, ServerStates
<1> QED BY <1>1, <1>2 DEF server_write_transition

\* What a server writes.  Its ServerHello names the version and suite it has
\* chosen, so it is typed once they are chosen.
LEMMA ServerHelloConstructType ==
  ASSUME NEW t \in SSL, t.version # "ANY", t.new_cipher # "NONE"
  PROVE  tls_construct_server_hello(t) \in SSL
<1> DEFINE fl == {t.version, t.new_cipher} \cup (IF t.hit THEN {"hit"} ELSE {})
           \cup (IF SSL_IS_TLS13(t) THEN {t.group}
                 ELSE Sentinel(t)
                        \cup (IF t.ticket_expected THEN {"ticket"} ELSE {})
                        \cup (IF t.status_expected THEN {"status"} ELSE {})
                        \cup (IF t.extms THEN {"ems"} ELSE {}))
           x == [t EXCEPT !.hit = FALSE]
<1>1. {t.version, t.new_cipher} \in SUBSET Flags /\ {t.group} \in SUBSET Flags
  BY SSLParts DEF Flags
<1>2. /\ {"hit"} \in SUBSET Flags /\ {"ticket"} \in SUBSET Flags
      /\ {"status"} \in SUBSET Flags /\ {"ems"} \in SUBSET Flags
  BY DEF Flags
<1>3. Sentinel(t) \in SUBSET Flags
  BY DEF Sentinel, Flags
<1>4. fl \in SUBSET Flags
  BY <1>1, <1>2, <1>3
<1>5. {"HRR", "TLS13", t.group} \in SUBSET Flags
  BY SSLParts DEF Flags, Ciphers
<1>6. x \in SSL
  BY ZenonT(120) DEF SSL
<1> HIDE DEF fl, x
<1>7. /\ Construct(t, "SERVER_HELLO", fl) \in SSL
      /\ Construct(create_synthetic_message_hash(x), "SERVER_HELLO",
                   {"HRR", "TLS13", t.group}) \in SSL
  BY <1>4, <1>5, <1>6, ConstructType, SyntheticHashType DEF MessageTypes
<1> QED BY <1>7 DEF tls_construct_server_hello, fl, x

LEMMA ServerConstructType ==
  ASSUME NEW t \in SSL,
         t.hand_state = "SW_SRVR_HELLO" => t.version # "ANY" /\ t.new_cipher # "NONE"
  PROVE  server_construct_message(t) \in SSL
<1>1. {} \in SUBSET Flags /\ {"ok"} \in SUBSET Flags
  BY DEF Flags
<1>2. [t EXCEPT !.cert_request = TRUE] \in SSL
  BY ZenonT(120) DEF SSL
<1>3. [t EXCEPT !.sent_tickets = @ + 1] \in SSL
  BY DEF SSL
<1>4. [t EXCEPT !.sub = "POST_WORK"] \in SSL
  BY DEF SSL, SubStates
<1>5. /\ Construct(t, "CHANGE_CIPHER_SPEC", {}) \in SSL
      /\ Construct(t, "ENCRYPTED_EXTENSIONS", {}) \in SSL
      /\ Construct(t, "CERTIFICATE", ChainFlags(t.opt.cert)) \in SSL
      /\ Construct(t, "CERTIFICATE_VERIFY", {"ok"}) \in SSL
      /\ Construct(t, "CERTIFICATE_STATUS", {}) \in SSL
      /\ Construct(t, "SERVER_KEY_EXCHANGE", {"ok"}) \in SSL
      /\ Construct(t, "SERVER_DONE", {}) \in SSL
  BY <1>1, ConstructType, ChainFlagsType DEF MessageTypes
<1>6. tls_construct_certificate_request(t) \in SSL
  BY <1>1, <1>2, ConstructType DEF tls_construct_certificate_request, MessageTypes
<1>7. tls_construct_new_session_ticket(t) \in SSL
  BY <1>1, <1>3, ConstructType DEF tls_construct_new_session_ticket, MessageTypes
<1>8. ossl_statem_fatal(t, "INTERNAL_ERROR") \in SSL
  BY FatalType DEF Reasons
<1> QED BY <1>4, <1>5, <1>6, <1>7, <1>8, ServerHelloConstructType, ConstructFinishedType
        DEF server_construct_message

LEMMA ServerPreWorkType ==
  ASSUME NEW t \in SSL,
         t.hand_state = "SW_SRVR_HELLO" => t.version # "ANY" /\ t.new_cipher # "NONE"
  PROVE  server_pre_work(t) \in SSL
<1>1. /\ tls_finish_handshake(t, TRUE, TRUE) \in SSL
      /\ tls_finish_handshake(t, FALSE, FALSE) \in SSL
  BY FinishHandshakeType
<1>2. tls_finish_handshake(t, FALSE, FALSE).hand_state = t.hand_state
  BY DEF tls_finish_handshake, SSL
<1>3. ASSUME NEW a \in SSL PROVE [a EXCEPT !.state = "FINISHED"] \in SSL
  BY SMTT(60) DEF SSL, MsgFlow
<1> QED BY <1>1, <1>2, <1>3, ServerConstructType DEF server_pre_work

LEMMA ServerPostWorkType ==
  ASSUME NEW t \in SSL
  PROVE  server_post_work(t) \in SSL
<1>1. InstallWrite(t, tls1_key(t, "SERVER")) \in SSL
  BY KeyType, InstallType DEF Sides, Epochs
<1>2. tls13_change_write(t, "APPLICATION") \in SSL
  BY ChangeKeyType DEF Epochs
<1>3. ASSUME NEW a \in SSL PROVE [a EXCEPT !.plain_alerts = TRUE] \in SSL
  BY ZenonT(120) DEF SSL
<1>4. tls13_change_read(tls13_change_write(t, "HANDSHAKE"), "HANDSHAKE") \in SSL
  BY ChangeKeyType DEF Epochs
<1>5. HandshakeKeys(t) \in SSL
  BY <1>3, <1>4 DEF HandshakeKeys
<1> QED BY <1>1, <1>2, <1>5 DEF server_post_work

\* What a server does with what it reads.
LEMMA KeyShareType ==
  ASSUME NEW t \in SSL, NEW m \in Records
  PROVE  final_key_share(t, m) \in SSL
<1> DEFINE offered == m.flags \cap {"g1", "g2"}
           usable == offered \cap t.opt.groups
<1>1. ASSUME NEW g \in {"g1", "g2"}, NEW r \in {"NONE", "PENDING", "COMPLETE"}
      PROVE  [t EXCEPT !.group = g, !.hello_retry_request = r] \in SSL
  BY ZenonT(120) DEF SSL
<1>2. usable # {} => (CHOOSE g \in usable : TRUE) \in {"g1", "g2"}
  OBVIOUS
<1>3. (CHOOSE g \in t.opt.groups : TRUE) \in {"g1", "g2"}
  BY SSLParts, OptionParts
<1>4. (IF t.hello_retry_request = "PENDING" THEN "COMPLETE" ELSE t.hello_retry_request)
         \in {"NONE", "PENDING", "COMPLETE"}
  BY SSLParts
<1>5. /\ ossl_statem_fatal(t, "NO_SUITABLE_KEY_SHARE") \in SSL
      /\ ossl_statem_fatal(t, "BAD_KEY_SHARE") \in SSL
  BY FatalType DEF Reasons
<1> QED BY <1>1, <1>2, <1>3, <1>4, <1>5 DEF final_key_share

LEMMA NegotiatedType ==
  ASSUME NEW t \in SSL, NEW c \in Ciphers, NEW p \in BOOLEAN, NEW q \in BOOLEAN,
         NEW e \in BOOLEAN, NEW k \in Hash
  PROVE  /\ [t EXCEPT !.new_cipher = c, !.extms = e, !.ticket_expected = p,
                      !.status_expected = q, !.master_key = k] \in SSL
         /\ [t EXCEPT !.new_cipher = c, !.ticket_expected = p] \in SSL
<1>1. [t EXCEPT !.new_cipher = c, !.extms = e, !.ticket_expected = p,
                !.status_expected = q, !.master_key = k] \in SSL
  BY ZenonT(120) DEF SSL
<1>2. [t EXCEPT !.new_cipher = c, !.ticket_expected = p] \in SSL
  BY ZenonT(120) DEF SSL
<1> QED BY <1>1, <1>2

LEMMA ClientHelloProcessType ==
  ASSUME NEW t \in SSL, NEW m \in Records
  PROVE  tls_post_process_client_hello(t, m) \in SSL
<1> DEFINE v == ssl_choose_server_version(t, m)
           hit == SessFlag(v) \in m.flags /\ t.opt.session = v
           fresh == ~hit \/ t.opt.renew
           a == [t EXCEPT !.version = v, !.hit = hit]
           tick == "ticket" \in m.flags /\ t.opt.ticket /\ fresh
           stat == /\ "status" \in m.flags /\ t.opt.status /\ ~hit
                   /\ t.opt.cipher \in {"RSA", "DHE", "RSAPSK"}
           key == IF hit THEN <<Elem("SESSION", {})>> ELSE a.master_key
           b12 == [a EXCEPT !.new_cipher = t.opt.cipher, !.extms = "ems" \in m.flags,
                            !.ticket_expected = tick, !.status_expected = stat,
                            !.master_key = key]
           c13 == [a EXCEPT !.new_cipher = "TLS13", !.ticket_expected = fresh]
           b13 == final_key_share(c13, m)
<1>1. CASE v = "NONE"
  BY <1>1, FatalType DEF tls_post_process_client_hello, Reasons
<1>2. CASE v # "NONE"
  <2>1. v \in Versions
    BY <1>2 DEF ssl_choose_server_version, Versions
  <2>2. /\ hit \in BOOLEAN /\ fresh \in BOOLEAN /\ tick \in BOOLEAN /\ stat \in BOOLEAN
        /\ ("ems" \in m.flags) \in BOOLEAN
    OBVIOUS
  <2>3. ASSUME NEW w \in Versions, NEW h \in BOOLEAN
        PROVE  [t EXCEPT !.version = w, !.hit = h] \in SSL
    BY DEF SSL
  <2>4. a \in SSL
    BY ZenonT(120), <2>1, <2>2, <2>3
  <2>5. key \in Hash
    BY <2>4, ElemHashed, ShortHash, SSLParts
  <2>6. t.opt.cipher \in Ciphers /\ "TLS13" \in Ciphers
    BY SSLParts, OptionParts DEF Ciphers
  <2> HIDE DEF v, hit, fresh, tick, stat, key, a
  <2>7. b12 \in SSL /\ c13 \in SSL
    BY ZenonT(120), <2>2, <2>4, <2>5, <2>6, NegotiatedType
  <2> HIDE DEF b12, c13
  <2>8. b13 \in SSL
    BY <2>7, KeyShareType
  <2> HIDE DEF b13
  <2>9. FinishedReading(b12) \in SSL /\ FinishedReading(b13) \in SSL
    BY <2>7, <2>8, ContinueType
  <2>10. /\ ossl_statem_fatal(a, "BAD_CIPHER") \in SSL
         /\ ossl_statem_fatal(t, "BAD_EXTENSION") \in SSL
    BY <2>4, FatalType DEF Reasons
  <2>11. tls_post_process_client_hello(t, m)
           \in {FinishedReading(b12), FinishedReading(b13), b13,
                ossl_statem_fatal(a, "BAD_CIPHER"), ossl_statem_fatal(t, "BAD_EXTENSION")}
    BY <1>2 DEF tls_post_process_client_hello, v, hit, fresh, tick, stat, key, a,
                     b12, c13, b13
  <2> QED BY <2>8, <2>9, <2>10, <2>11
<1> QED BY <1>1, <1>2

LEMMA ServerProcessType ==
  ASSUME NEW t \in SSL, NEW m \in Records
  PROVE  server_process_message(t, m) \in SSL /\ server_post_process_message(t, m) \in SSL
<1>1. ossl_statem_fatal(t, "INTERNAL_ERROR") \in SSL
  BY FatalType DEF Reasons
<1>2. tls_process_client_certificate(t, m) \in SSL
  <2> DEFINE a == [t EXCEPT !.plain_alerts = FALSE]
             chain == "chain" \in m.flags
  <2>1. a \in SSL
    BY ZenonT(120) DEF SSL
  <2> HIDE DEF a
  <2>2. ASSUME NEW n \in Nat, NEW x \in SSL, NEW p \in BOOLEAN
        PROVE  [x EXCEPT !.peer = p, !.sent_tickets = n] \in SSL
    BY ZenonT(120) DEF SSL
  <2>3. chain \in BOOLEAN /\ (IF SSL_IS_TLS13(t) THEN 0 ELSE a.sent_tickets) \in Nat
    BY <2>1, SSLParts
  <2>4. [a EXCEPT !.peer = chain, !.sent_tickets = IF SSL_IS_TLS13(t) THEN 0 ELSE @] \in SSL
    BY ZenonT(120), <2>1, <2>2, <2>3
  <2>5. /\ ossl_statem_fatal(a, "NO_PEER_CERTIFICATE") \in SSL
        /\ ossl_statem_fatal(a, "VERIFY_FAILED") \in SSL
    BY <2>1, FatalType DEF Reasons
  <2> QED BY <2>4, <2>5, ContinueType DEF tls_process_client_certificate, a
<1>3. tls_process_client_key_exchange(t) \in SSL
  BY MasterSecretType, ContinueType DEF tls_process_client_key_exchange
<1>4. server_process_message(t, m) \in SSL
  BY <1>1, <1>2, <1>3, ContinueType, ProcessCertVerifyType, ProcessChangeType,
     ProcessFinishedType DEF server_process_message
<1>5. server_post_process_message(t, m) \in SSL
  BY <1>1, ContinueType, ClientHelloProcessType DEF server_post_process_message
<1> QED BY <1>4, <1>5

-----------------------------------------------------------------------------
(* What the operators leave alone *)

\* pre_work moves no endpoint to another side, state or version, and ends the
\* handshake only in TLS_ST_OK.
LEMMA PreWorkFrame ==
  ASSUME NEW t \in SSL, t.state = "WRITING",
         NEW u, u = IF t.server THEN server_pre_work(t) ELSE client_pre_work(t)
  PROVE  /\ u.server = t.server /\ u.hand_state = t.hand_state
         /\ u.version = t.version /\ u.new_cipher = t.new_cipher
         /\ u.state \in {"WRITING", "ERROR"} \/ (u.state = "FINISHED" /\ t.hand_state = "OK")
<1> DEFINE Same(w) == /\ w.server = t.server /\ w.hand_state = t.hand_state
                      /\ w.version = t.version /\ w.new_cipher = t.new_cipher
                      /\ w.state \in {"WRITING", "ERROR"}
<1>1. CASE t.server
  <2>1. ASSUME NEW x \in SSL, Same(x)
        PROVE  Same(server_construct_message(x))
    <3>1. ASSUME NEW mt, NEW fl PROVE Same(Construct(x, mt, fl))
      BY <2>1 DEF SSL, Construct
    <3>2. Same(tls_construct_server_hello(x))
      <4>1. ASSUME NEW fl
            PROVE  Same(Construct(create_synthetic_message_hash([x EXCEPT !.hit = FALSE]),
                                  "SERVER_HELLO", fl))
        BY <2>1 DEF SSL, Construct, create_synthetic_message_hash
      <4> HIDE DEF Same
      <4> QED BY <3>1, <4>1 DEF tls_construct_server_hello
    <3>3. Same(tls_construct_finished(x))
      BY <2>1 DEF SSL, tls_construct_finished, Construct, tls13_change_write, InstallWrite,
         SaveHash
    <3>4. Same(tls_construct_certificate_request(x)) /\ Same(tls_construct_new_session_ticket(x))
      BY <2>1 DEF SSL, tls_construct_certificate_request, tls_construct_new_session_ticket,
         Construct
    <3>5. Same(ossl_statem_fatal(x, "INTERNAL_ERROR")) /\ Same([x EXCEPT !.sub = "POST_WORK"])
      BY <2>1 DEF SSL, ossl_statem_fatal
    <3> HIDE DEF Same
    <3> QED BY <3>1, <3>2, <3>3, <3>4, <3>5 DEF server_construct_message
  <2>2. Same(tls_finish_handshake(t, FALSE, FALSE)) /\ Same(t)
    BY DEF SSL, tls_finish_handshake
  <2>3. tls_finish_handshake(t, FALSE, FALSE) \in SSL
    BY FinishHandshakeType
  <2>4. CASE t.hand_state = "OK"
    BY ZenonT(120), <1>1, <2>4 DEF SSL, server_pre_work, tls_finish_handshake
  <2>5. CASE t.hand_state # "OK"
    <3>1. Same(u)
      BY <1>1, <2>1, <2>2, <2>3, <2>5 DEF server_pre_work
    <3> QED BY <3>1
  <2> QED BY <2>4, <2>5
<1>2. CASE ~t.server
  <2>1. Same(tls_construct_client_hello(t))
    <3>1. ASSUME NEW fl
          PROVE  Same(Construct([t EXCEPT !.ticket_expected = FALSE], "CLIENT_HELLO", fl))
      BY DEF SSL, Construct
    <3> QED BY ZenonT(120), <3>1 DEF tls_construct_client_hello
  <2>2. Same(tls_construct_client_certificate(t))
    <3>1. ASSUME NEW fl
          PROVE  /\ Same(Construct(t, "CERTIFICATE", fl))
                 /\ Same(tls13_change_write(Construct(t, "CERTIFICATE", fl), "HANDSHAKE"))
      BY DEF SSL, Construct, tls13_change_write, InstallWrite, SaveHash
    <3> QED BY <3>1 DEF tls_construct_client_certificate
  <2>3. Same(tls_construct_finished(t))
    BY DEF SSL, tls_construct_finished, Construct, tls13_change_write, InstallWrite, SaveHash
  <2>4. Same(client_construct_message(t))
    <3>1. ASSUME NEW mt, NEW fl PROVE Same(Construct(t, mt, fl))
      BY DEF SSL, Construct
    <3>2. Same(ossl_statem_fatal(t, "INTERNAL_ERROR"))
      BY DEF SSL, ossl_statem_fatal
    <3> QED BY <2>1, <2>2, <2>3, <3>1, <3>2 DEF client_construct_message
  <2>5. CASE t.hand_state = "OK"
    BY <1>2, <2>5 DEF SSL, client_pre_work, tls_finish_handshake
  <2>6. CASE t.hand_state # "OK"
    BY <1>2, <2>4, <2>6 DEF client_pre_work
  <2> QED BY <2>5, <2>6
<1> QED BY <1>1, <1>2

\* Neither sending nor post_work changes side, states or version.
LEMMA WriteFrame ==
  ASSUME NEW t \in SSL,
         NEW u, u \in {ssl3_do_write(t), server_post_work(t), client_post_work(t)}
  PROVE  /\ u.server = t.server /\ u.hand_state = t.hand_state /\ u.state = t.state
         /\ u.version = t.version /\ u.new_cipher = t.new_cipher
         /\ u.opt = t.opt /\ u.hello_retry_request = t.hello_retry_request /\ u.hit = t.hit
<1>1. CASE u = ssl3_do_write(t)
  BY <1>1 DEF SSL, ssl3_do_write, ssl3_finish_mac
<1>2. CASE u = server_post_work(t)
  BY <1>2 DEF SSL, server_post_work, HandshakeKeys, tls13_change_write, tls13_change_read,
     InstallWrite, InstallRead, SaveHash
<1>3. CASE u = client_post_work(t)
  BY <1>3 DEF SSL, client_post_work, tls13_change_write, InstallWrite, SaveHash,
     ssl_generate_master_secret
<1> QED BY <1>1, <1>2, <1>3

\* Processing a message keeps the side and, on a server, the handshake state;
\* a ClientHello is never answered before it has been post-processed.
LEMMA BodyFrame ==
  ASSUME NEW t \in SSL
  PROVE  LET u == tls_get_message_body(t)
         IN  /\ u.server = t.server /\ u.hand_state = t.hand_state /\ u.state = t.state
             /\ u.init_msg = t.init_msg /\ u.bbio = t.bbio
BY DEF SSL, tls_get_message_body, ssl3_finish_mac

LEMMA ServerProcessFrame ==
  ASSUME NEW t \in SSL, NEW m, t.state = "READING",
         NEW u, u = server_process_message(t, m)
  PROVE  /\ u.server = t.server /\ u.hand_state = t.hand_state
         /\ u.state \in {"READING", "WRITING", "ERROR"}
         /\ t.hand_state \in {"SR_CLNT_HELLO", "SW_SRVR_HELLO"} => u.state # "WRITING"
BY DEF SSL, server_process_message, ContinueReading, ContinueProcessing, FinishedReading,
   ossl_statem_fatal, tls_process_client_certificate, tls_process_client_key_exchange,
   ssl_generate_master_secret, tls_process_cert_verify, tls_process_change_cipher_spec,
   tls_process_finished, tls13_change_read, InstallRead, SaveHash

LEMMA ClientProcessFrame ==
  ASSUME NEW t \in SSL, NEW m, t.state = "READING",
         NEW u, u \in {client_process_message(t, m), client_post_process_message(t)}
  PROVE  u.server = t.server /\ u.state \in {"READING", "WRITING", "ERROR"}
<1>1. CASE u = client_process_message(t, m)
  <2> DEFINE Same(w) == w.server = t.server /\ w.state \in {"READING", "WRITING", "ERROR"}
  <2>1. Same(tls_process_as_hello_retry_request(t, m))
    BY DEF SSL, tls_process_as_hello_retry_request, create_synthetic_message_hash,
       ssl3_finish_mac, FinishedReading, ossl_statem_fatal
  <2>2. Same(tls_process_server_hello(t, m))
    BY <2>1 DEF SSL, tls_process_server_hello, ossl_statem_fatal, ContinueReading,
       tls13_change_read, InstallRead, SaveHash
  <2>3. Same(tls_process_finished(t, m))
    BY DEF SSL, tls_process_finished, FinishedReading, ossl_statem_fatal,
       tls13_change_read, InstallRead, SaveHash
  <2>4. /\ Same(tls_process_cert_verify(t, m)) /\ Same(tls_process_server_certificate(t, m))
        /\ Same(tls_process_key_exchange(t, m)) /\ Same(tls_process_change_cipher_spec(t))
    BY DEF SSL, tls_process_cert_verify, tls_process_server_certificate,
       tls_process_key_exchange, tls_process_change_cipher_spec, ContinueReading,
       ContinueProcessing, ossl_statem_fatal, InstallRead
  <2>5. /\ Same(tls_process_certificate_request(t)) /\ Same(tls_process_new_session_ticket(t))
        /\ Same(ContinueReading(t)) /\ Same(FinishedReading(t))
        /\ Same(ossl_statem_fatal(t, "INTERNAL_ERROR"))
    BY DEF SSL, tls_process_certificate_request, tls_process_new_session_ticket,
       ContinueReading, ContinueProcessing, FinishedReading, ossl_statem_fatal
  <2> HIDE DEF Same
  <2>6. Same(u)
    BY <1>1, <2>2, <2>3, <2>4, <2>5 DEF client_process_message
  <2> QED BY <2>6 DEF Same
<1>2. CASE u = client_post_process_message(t)
  BY <1>2 DEF SSL, client_post_process_message, tls_prepare_client_certificate,
     ContinueReading, ossl_statem_fatal
<1> QED BY <1>1, <1>2

LEMMA ServerPostProcessFrame ==
  ASSUME NEW t \in SSL, NEW m \in Records, t.state = "READING",
         NEW u, u = server_post_process_message(t, m)
  PROVE  /\ u.server = t.server /\ u.hand_state = t.hand_state
         /\ u.state \in {"READING", "WRITING", "ERROR"}
         /\ u.state = "WRITING" => u.version # "ANY" /\ u.new_cipher # "NONE"
<1> DEFINE Same(w) == /\ w.server = t.server /\ w.hand_state = t.hand_state
                      /\ w.state \in {"READING", "WRITING", "ERROR"}
                      /\ w.state = "WRITING" => w.version # "ANY" /\ w.new_cipher # "NONE"
<1>1. Same(ContinueReading(t)) /\ Same(ossl_statem_fatal(t, "INTERNAL_ERROR"))
  BY DEF SSL, ContinueReading, ossl_statem_fatal
<1>2. Same(tls_post_process_client_hello(t, m))
  <2> DEFINE v == ssl_choose_server_version(t, m)
             hit == SessFlag(v) \in m.flags /\ t.opt.session = v
             fresh == ~hit \/ t.opt.renew
             a == [t EXCEPT !.version = v, !.hit = hit]
             tick == "ticket" \in m.flags /\ t.opt.ticket /\ fresh
             stat == /\ "status" \in m.flags /\ t.opt.status /\ ~hit
                     /\ t.opt.cipher \in {"RSA", "DHE", "RSAPSK"}
             key == IF hit THEN <<Elem("SESSION", {})>> ELSE a.master_key
             b12 == [a EXCEPT !.new_cipher = t.opt.cipher, !.extms = "ems" \in m.flags,
                              !.ticket_expected = tick, !.status_expected = stat,
                              !.master_key = key]
             c13 == [a EXCEPT !.new_cipher = "TLS13", !.ticket_expected = fresh]
             b13 == final_key_share(c13, m)
  <2>1. CASE v = "NONE"
    BY <2>1 DEF SSL, tls_post_process_client_hello, ossl_statem_fatal
  <2>2. CASE v # "NONE"
    <3>1. v # "ANY" /\ t.opt.cipher # "NONE"
      BY SSLParts, OptionParts DEF ssl_choose_server_version, Ciphers
    <3> HIDE DEF v, hit, fresh, tick, stat, key
    <3>2. Same(FinishedReading(b12))
      BY <3>1 DEF SSL, FinishedReading
    <3>3. Same(ossl_statem_fatal(a, "BAD_CIPHER")) /\ Same(ossl_statem_fatal(t, "BAD_EXTENSION"))
      BY DEF SSL, ossl_statem_fatal
    <3>4. Same(IF b13.state = "ERROR" THEN b13 ELSE FinishedReading(b13))
      BY <3>1 DEF SSL, FinishedReading, final_key_share, ossl_statem_fatal
    <3> HIDE DEF a, b12, c13, b13, Same
    <3>5. tls_post_process_client_hello(t, m)
            \in {FinishedReading(b12), IF b13.state = "ERROR" THEN b13 ELSE FinishedReading(b13),
                 ossl_statem_fatal(a, "BAD_CIPHER"), ossl_statem_fatal(t, "BAD_EXTENSION")}
      BY <2>2 DEF tls_post_process_client_hello, v, hit, fresh, tick, stat, key, a, b12, c13, b13
    <3> QED BY <3>2, <3>3, <3>4, <3>5
  <2> QED BY <2>1, <2>2
<1>3. Same(u)
  BY <1>1, <1>2 DEF server_post_process_message
<1> QED BY <1>3

-----------------------------------------------------------------------------
(* The endpoint *)

\* A server writes its ServerHello only after it has chosen what to put in it.
Chosen ==
  s.server /\ s.state = "WRITING" /\ s.hand_state \in {"SR_CLNT_HELLO", "SW_SRVR_HELLO"}
    => s.version # "ANY" /\ s.new_cipher # "NONE"

\* The state machine rests only before and after a handshake.
RestsAtEnds ==
  /\ s.state = "FINISHED" => s.hand_state = "OK"
  /\ s.state = "UNINITED" => s.hand_state = "BEFORE"

TypeInv == TypeOK /\ Chosen /\ RestsAtEnds

\* A fresh object is typed.
LEMMA ClearType ==
  ASSUME NEW server \in BOOLEAN, NEW o \in Options
  PROVE  ossl_statem_clear(server, o) \in SSL
<1>1. ASSUME NEW k \in Keys, NEW a \in Macs, NEW m \in Records, NEW h \in Hash,
             NEW q \in Seq(Records)
      PROVE  [server |-> server, opt |-> o,
              state |-> "UNINITED", sub |-> "TRANSITION", hand_state |-> "BEFORE",
              in_init |-> TRUE, cleanuphand |-> FALSE,
              version |-> "ANY", hit |-> FALSE, new_cipher |-> "NONE", group |-> "g1",
              ticket_expected |-> FALSE, status_expected |-> FALSE, extms |-> FALSE,
              hello_retry_request |-> "NONE", cert_req |-> 0, cert_request |-> FALSE,
              peer |-> FALSE, change_cipher_spec |-> FALSE, sent_tickets |-> 0,
              master_key |-> h, enc_read |-> k, enc_write |-> k,
              plain_alerts |-> FALSE, transcript |-> h, handshake_traffic_hash |-> h,
              server_finished_hash |-> h, finish_md |-> FALSE, peer_finish_md |-> FALSE,
              peer_mac |-> a, init_msg |-> m, bbio |-> q, reason |-> "NONE"] \in SSL
  BY DEF SSL, MsgFlow, SubStates, HandStates, Reasons
<1>2. <<>> \in Seq(Records)
  OBVIOUS
<1> QED BY ZenonT(120), <1>1, <1>2, EmptyValues, ShortHash DEF ossl_statem_clear

\* Whether or not the buffering BIO is flushed, the object differs at most in it.
LEMMA SettleType ==
  ASSUME NEW t \in SSL, NEW flush, out \in Seq(Records), Settle(t, flush)
  PROVE  /\ s' \in SSL /\ out' \in Seq(Records)
         /\ s'.server = t.server /\ s'.hand_state = t.hand_state /\ s'.state = t.state
         /\ s'.sub = t.sub /\ s'.version = t.version /\ s'.new_cipher = t.new_cipher
<1>1. out \o t.bbio \in Seq(Records)
  BY RecordQueue, SSLParts
<1>2. ASSUME NEW q \in Seq(Records) PROVE [t EXCEPT !.bbio = q] \in SSL
  BY ZenonT(120) DEF SSL
<1>3. <<>> \in Seq(Records)
  OBVIOUS
<1>4. s' = t \/ s' = [t EXCEPT !.bbio = <<>>]
  BY DEF Settle
<1>5. out' \in Seq(Records)
  BY <1>1 DEF Settle
<1>6. s' \in SSL
  BY <1>2, <1>3, <1>4
<1> QED BY <1>4, <1>5, <1>6 DEF SSL

\* What the peer sends is typed.
LEMMA PeerType ==
  ASSUME s \in SSL, NEW m \in PeerMessages
  PROVE  m \in Records
<1>1. PICK mt \in MessageTypes :
        m \in [mt : {mt}, flags : FlagsOf(mt), mac : MacsOf(mt), key : {PlainKey, s.enc_read}]
  BY DEF PeerMessages
<1>2. FlagsOf(mt) \subseteq SUBSET Flags
  BY PeerAssumption DEF FlagsOf, Flags
<1>3. MacsOf(mt) \subseteq Macs
  BY EmptyValues, MacType, SideType DEF MacsOf
<1>4. {PlainKey, s.enc_read} \subseteq Keys
  BY EmptyValues, SSLParts
<1> QED BY <1>1, <1>2, <1>3, <1>4 DEF Records

\* Moving between states and sub-states.
LEMMA MoveType ==
  ASSUME NEW t \in SSL, NEW f \in MsgFlow, NEW u \in SubStates, NEW h \in HandStates,
         NEW q \in Seq(Records)
  PROVE  /\ [t EXCEPT !.sub = u] \in SSL
         /\ [t EXCEPT !.state = f, !.sub = u] \in SSL
         /\ [t EXCEPT !.hand_state = h, !.sub = u] \in SSL
         /\ [t EXCEPT !.change_cipher_spec = FALSE, !.state = f, !.sub = u, !.bbio = q] \in SSL
<1>1. [t EXCEPT !.sub = u] \in SSL
  BY ZenonT(120) DEF SSL
<1>2. [t EXCEPT !.state = f, !.sub = u] \in SSL
  BY ZenonT(120) DEF SSL
<1>3. [t EXCEPT !.hand_state = h, !.sub = u] \in SSL
  BY ZenonT(120) DEF SSL
<1>4. [t EXCEPT !.change_cipher_spec = FALSE, !.state = f, !.sub = u, !.bbio = q] \in SSL
  BY ZenonT(120) DEF SSL
<1> QED BY <1>1, <1>2, <1>3, <1>4

LEMMA StateNames ==
  /\ {"READING", "WRITING"} \subseteq MsgFlow
  /\ {"HEADER", "BODY", "TRANSITION", "PRE_WORK", "POST_WORK"} \subseteq SubStates
  /\ <<>> \in Seq(Records)
BY DEF MsgFlow, SubStates

\* Entering the state machine from either end.
LEMMA MachineInitType ==
  ASSUME NEW t \in SSL
  PROVE  LET u == state_machine_init(t)
         IN  /\ u \in SSL /\ u.server = t.server /\ u.hand_state = t.hand_state
             /\ u.state = "WRITING" /\ u.sub = "TRANSITION" /\ u.bbio = <<>>
<1> DEFINE a == [t EXCEPT !.change_cipher_spec = FALSE, !.state = "WRITING",
                          !.sub = "TRANSITION", !.bbio = <<>>]
           b == tls_setup_handshake(a)
<1>2. a \in SSL
  BY ZenonT(120), MoveType, StateNames DEF HandStates
<1>3. ASSUME NEW x \in SSL
      PROVE  tls_setup_handshake(x) \in SSL
  <2>1. ASSUME NEW h \in Hash, NEW i \in BOOLEAN, NEW c \in 0..2
        PROVE  [x EXCEPT !.transcript = h, !.hit = i, !.cert_req = c] \in SSL
    BY ZenonT(120) DEF SSL
  <2>2. (x.hit /\ x.server) \in BOOLEAN /\ (IF x.server THEN x.cert_req ELSE 0) \in 0..2
    BY DEF SSL
  <2> QED BY ZenonT(120), <2>1, <2>2, ShortHash DEF tls_setup_handshake
<1>4. /\ a.server = t.server /\ a.hand_state = t.hand_state
      /\ a.state = "WRITING" /\ a.sub = "TRANSITION" /\ a.bbio = <<>>
  BY DEF SSL
<1> HIDE DEF a
<1>5. b \in SSL
  BY <1>2, <1>3
<1>6. /\ b.server = a.server /\ b.hand_state = a.hand_state
      /\ b.state = a.state /\ b.sub = a.sub /\ b.bbio = a.bbio
  BY <1>2 DEF SSL, tls_setup_handshake
<1> HIDE DEF b
<1>7. state_machine_init(t) \in {a, b}
  BY DEF state_machine_init, a, b
<1> QED BY <1>2, <1>4, <1>5, <1>6, <1>7

\* Reading a message header leaves the machine reading, or in error.
LEMMA HeaderType ==
  ASSUME NEW t \in SSL, NEW m \in Records, t.state = "READING"
  PROVE  /\ tls_get_message_header(t, m) \in SSL
         /\ tls_get_message_header(t, m).state \in {"READING", "ERROR"}
<1> DEFINE why == RecordError(t, m)
           h == read_transition(t, m.mt)
           b == [t EXCEPT !.hand_state = h, !.init_msg = m, !.sub = "BODY"]
<1>1. why \in Reasons
  BY DEF RecordError, Reasons
<1>2. h \in HandStates \cup {"NONE"}
  BY ClientReadState, ServerReadState DEF read_transition
<1> HIDE DEF h, why
<1>3. ASSUME NEW x \in HandStates, NEW u \in SubStates
      PROVE  [t EXCEPT !.hand_state = x, !.init_msg = m, !.sub = u] \in SSL
  BY ZenonT(120) DEF SSL
<1>4. h # "NONE" => b \in SSL
  BY ZenonT(120), <1>2, <1>3, StateNames
<1>5. /\ ossl_statem_fatal(t, why) \in SSL
      /\ ossl_statem_fatal_no_alert(t, "ALERT_RECEIVED") \in SSL
      /\ ossl_statem_fatal(t, "UNEXPECTED_MESSAGE") \in SSL
  BY <1>1, FatalType DEF Reasons
<1>6. /\ ossl_statem_fatal(t, why).state = "ERROR"
      /\ ossl_statem_fatal_no_alert(t, "ALERT_RECEIVED").state = "ERROR"
      /\ ossl_statem_fatal(t, "UNEXPECTED_MESSAGE").state = "ERROR"
      /\ b.state = "READING"
  BY DEF SSL, ossl_statem_fatal, ossl_statem_fatal_no_alert
<1> HIDE DEF b
<1> QED BY <1>4, <1>5, <1>6 DEF tls_get_message_header, why, h, b

\* TypeInv holds of every state in which an SSL_connect or SSL_accept can be
\* that has just been called on a fresh object.
LEMMA TypeInit == Init => TypeInv
<1> SUFFICES ASSUME Init PROVE TypeInv
  OBVIOUS
<1>1. PICK o \in OptionSet : s = ossl_statem_clear(IsServer, o)
  BY DEF Init
<1>2. s \in SSL
  BY <1>1, ClearType, PeerAssumption
<1>3. s.state = "UNINITED" /\ s.hand_state = "BEFORE"
  BY <1>1 DEF ossl_statem_clear
<1>4. in \in Seq(Records) /\ out \in Seq(Records)
  BY DEF Init
<1> QED BY <1>2, <1>3, <1>4 DEF TypeInv, TypeOK, Chosen, RestsAtEnds

\* Each pass of the message flow machine, and each message of the peer,
\* preserves TypeInv.
LEMMA TypeStep == TypeInv /\ [Next]_vars => TypeInv'
<1> SUFFICES ASSUME TypeInv, [Next]_vars PROVE TypeInv'
  OBVIOUS
<1> USE DEF TypeInv, TypeOK, Chosen, RestsAtEnds
<1>1. CASE Start
  BY <1>1, MachineInitType DEF Start
<1>2. CASE WriteTransition
  <2> DEFINE h == write_transition(s)
             t == CASE h = "ERROR" -> ossl_statem_fatal(s, "INTERNAL_ERROR")
                    [] h = "FINISHED" -> [s EXCEPT !.state = "READING", !.sub = "HEADER"]
                    [] OTHER -> [s EXCEPT !.hand_state = h, !.sub = "PRE_WORK"]
  <2>1. h \in HandStates \cup {"FINISHED", "ERROR"}
    BY ClientWriteState, ServerWriteState DEF write_transition
  <2>2. s.server /\ h \in {"SR_CLNT_HELLO", "SW_SRVR_HELLO"} =>
          s.hand_state = "SR_CLNT_HELLO"
    BY DEF write_transition, server_write_transition, server12_write_transition,
           server13_write_transition
  <2>3. s.state = "WRITING" /\ s \in SSL
    BY SMTT(60), <1>2 DEF WriteTransition, Writing
  <2> HIDE DEF h
  <2>4. ASSUME NEW x \in HandStates PROVE [s EXCEPT !.hand_state = x, !.sub = "PRE_WORK"] \in SSL
    BY ZenonT(120), MoveType, StateNames
  <2>5. [s EXCEPT !.state = "READING", !.sub = "HEADER"] \in SSL
    BY ZenonT(120), MoveType, StateNames DEF HandStates
  <2>6. t \in SSL
    BY ZenonT(120), <2>1, <2>4, <2>5, FatalType DEF Reasons
  <2>7. /\ t.server = s.server /\ t.version = s.version /\ t.new_cipher = s.new_cipher
        /\ t.state \in {"WRITING", "READING", "ERROR"}
        /\ t.state = "WRITING" => t.hand_state = h
    BY <2>3 DEF SSL, ossl_statem_fatal
  <2> HIDE DEF t
  <2>8. Settle(t, FALSE) /\ in' = in
    BY <1>2 DEF WriteTransition, t, h
  <2>9. /\ s' \in SSL /\ out' \in Seq(Records)
        /\ s'.server = t.server /\ s'.hand_state = t.hand_state /\ s'.state = t.state
        /\ s'.version = t.version /\ s'.new_cipher = t.new_cipher
    BY <2>6, <2>8, SettleType
  <2> QED BY <2>2, <2>3, <2>7, <2>8, <2>9
<1>3. CASE PreWork
  <2> DEFINE t == IF s.server THEN server_pre_work(s) ELSE client_pre_work(s)
  <2>1. s.state = "WRITING" /\ s \in SSL /\ Settle(t, FALSE) /\ in' = in
    BY <1>3 DEF PreWork, Writing
  <2>2. t \in SSL
    BY <2>1, ServerPreWorkType, ClientPreWorkType
  <2>3. /\ t.server = s.server /\ t.hand_state = s.hand_state
        /\ t.version = s.version /\ t.new_cipher = s.new_cipher
        /\ t.state \in {"WRITING", "ERROR"} \/ (t.state = "FINISHED" /\ s.hand_state = "OK")
    BY <2>1, PreWorkFrame
  <2> HIDE DEF t
  <2>4. /\ s' \in SSL /\ out' \in Seq(Records)
        /\ s'.server = t.server /\ s'.hand_state = t.hand_state /\ s'.state = t.state
        /\ s'.version = t.version /\ s'.new_cipher = t.new_cipher
    BY <2>1, <2>2, SettleType
  <2> QED BY <2>1, <2>3, <2>4
<1>4. CASE Send
  <2> DEFINE t == ssl3_do_write(s)
  <2>1. t \in SSL
    BY DoWriteType
  <2>2. /\ t.server = s.server /\ t.hand_state = s.hand_state /\ t.state = s.state
        /\ t.version = s.version /\ t.new_cipher = s.new_cipher
    BY WriteFrame
  <2> HIDE DEF t
  <2>3. s' = [t EXCEPT !.sub = "POST_WORK"] /\ in' = in /\ out' = out
    BY SMTT(60), <1>4 DEF Send, t
  <2>4. s' \in SSL
    BY ZenonT(120), <2>1, <2>3, MoveType, StateNames DEF HandStates
  <2>5. /\ s'.server = t.server /\ s'.hand_state = t.hand_state /\ s'.state = t.state
        /\ s'.version = t.version /\ s'.new_cipher = t.new_cipher
    BY <2>1, <2>3 DEF SSL
  <2> QED BY <2>2, <2>3, <2>4, <2>5
<1>5. CASE Spill
  <2>1. Head(s.bbio) \in Records /\ Tail(s.bbio) \in Seq(Records)
    BY <1>5, RecordQueue, SSLParts DEF Spill
  <2>2. s' = [s EXCEPT !.bbio = Tail(@)] /\ out' = Append(out, Head(s.bbio)) /\ in' = in
    BY <1>5 DEF Spill
  <2>3. ASSUME NEW q \in Seq(Records) PROVE [s EXCEPT !.bbio = q] \in SSL
    BY ZenonT(120) DEF SSL
  <2>4. s' \in SSL
    BY <2>1, <2>2, <2>3
  <2>5. /\ s'.server = s.server /\ s'.hand_state = s.hand_state /\ s'.state = s.state
        /\ s'.version = s.version /\ s'.new_cipher = s.new_cipher
    BY <2>2 DEF SSL
  <2>6. out' \in Seq(Records)
    BY <2>1, <2>2, RecordQueue
  <2> QED BY <2>2, <2>4, <2>5, <2>6
<1>6. CASE PostWork
  <2> DEFINE w == IF s.server THEN server_post_work(s) ELSE client_post_work(s)
             t == [w EXCEPT !.sub = "TRANSITION"]
             flush == IF s.server THEN server_flushes(s) ELSE client_flushes(s)
  <2>1. Settle(t, flush) /\ in' = in
    BY <1>6 DEF PostWork
  <2>2. w \in SSL
    BY ServerPostWorkType, ClientPostWorkType
  <2>3. /\ w.server = s.server /\ w.hand_state = s.hand_state /\ w.state = s.state
        /\ w.version = s.version /\ w.new_cipher = s.new_cipher
    BY WriteFrame
  <2> HIDE DEF w
  <2>4. t \in SSL
    BY ZenonT(120), <2>2 DEF SSL, SubStates
  <2>5. /\ t.server = w.server /\ t.hand_state = w.hand_state /\ t.state = w.state
        /\ t.version = w.version /\ t.new_cipher = w.new_cipher
    BY <2>2 DEF SSL
  <2> HIDE DEF t
  <2>6. /\ s' \in SSL /\ out' \in Seq(Records)
        /\ s'.server = t.server /\ s'.hand_state = t.hand_state /\ s'.state = t.state
        /\ s'.version = t.version /\ s'.new_cipher = t.new_cipher
    BY <2>1, <2>4, SettleType
  <2> QED BY <2>1, <2>3, <2>5, <2>6
<1>7. CASE ReadHeader
  <2> DEFINE m == Head(in)
             t == tls_get_message_header(s, m)
  <2>1. s.state = "READING" /\ m \in Records /\ in' \in Seq(Records) /\ Settle(t, FALSE)
    BY <1>7, RecordQueue DEF ReadHeader, Reading
  <2> HIDE DEF m
  <2>2. t \in SSL /\ t.state \in {"READING", "ERROR"}
    BY <2>1, HeaderType
  <2> HIDE DEF t
  <2>3. s' \in SSL /\ out' \in Seq(Records) /\ s'.state = t.state
    BY <2>1, <2>2, SettleType
  <2> QED BY <2>1, <2>2, <2>3
<1>8. CASE ReadBody
  <2> DEFINE b == tls_get_message_body(s)
             t == IF b.server THEN server_process_message(b, b.init_msg)
                              ELSE client_process_message(b, b.init_msg)
  <2>1. s.state = "READING" /\ in' = in /\ Settle(t, FALSE)
    BY <1>8 DEF ReadBody, Reading
  <2>2. b \in SSL /\ b.state = "READING" /\ b.init_msg \in Records
    BY <2>1, GetBodyType, BodyFrame, SSLParts
  <2> HIDE DEF b
  <2>3. t \in SSL
    BY <2>2, ServerProcessType, ClientProcessType
  <2>4. /\ t.server = b.server /\ t.state \in {"READING", "WRITING", "ERROR"}
        /\ t.server /\ t.hand_state \in {"SR_CLNT_HELLO", "SW_SRVR_HELLO"} => t.state # "WRITING"
    BY <2>2, ServerProcessFrame, ClientProcessFrame
  <2> HIDE DEF t
  <2>5. /\ s' \in SSL /\ out' \in Seq(Records)
        /\ s'.server = t.server /\ s'.hand_state = t.hand_state /\ s'.state = t.state
    BY <2>1, <2>3, SettleType
  <2> QED BY <2>1, <2>4, <2>5
<1>9. CASE PostProcess
  <2> DEFINE t == IF s.server THEN server_post_process_message(s, s.init_msg)
                              ELSE client_post_process_message(s)
  <2>1. s.state = "READING" /\ in' = in /\ Settle(t, FALSE) /\ s.init_msg \in Records
    BY <1>9, SSLParts DEF PostProcess, Reading
  <2>2. t \in SSL
    BY <2>1, ServerProcessType, ClientProcessType
  <2>3. /\ t.server = s.server /\ t.state \in {"READING", "WRITING", "ERROR"}
        /\ t.server /\ t.state = "WRITING" => t.version # "ANY" /\ t.new_cipher # "NONE"
    BY <2>1, ServerPostProcessFrame, ClientProcessFrame
  <2> HIDE DEF t
  <2>4. /\ s' \in SSL /\ out' \in Seq(Records)
        /\ s'.server = t.server /\ s'.hand_state = t.hand_state /\ s'.state = t.state
        /\ s'.version = t.version /\ s'.new_cipher = t.new_cipher
    BY <2>1, <2>2, SettleType
  <2> QED BY <2>1, <2>3, <2>4
<1>10. CASE SslRead
  <2> DEFINE m == Head(in)
             why == RecordError(s, m)
  <2>1. s.state = "FINISHED" /\ m \in Records /\ Tail(in) \in Seq(Records)
    BY <1>10, RecordQueue DEF SslRead
  <2>2. why \in Reasons
    BY DEF RecordError, Reasons
  <2>3. CASE s' = state_machine_init([s EXCEPT !.in_init = TRUE]) /\ UNCHANGED <<in, out>>
    <3>1. [s EXCEPT !.in_init = TRUE] \in SSL
      BY ZenonT(120) DEF SSL
    <3>2. [s EXCEPT !.in_init = TRUE].hand_state = "OK"
      BY <2>1 DEF SSL
    <3>3. s' \in SSL /\ s'.hand_state = "OK" /\ s'.state = "WRITING"
      BY <2>3, <3>1, <3>2, MachineInitType
    <3> QED BY <2>3, <3>3
  <2>4. ASSUME NEW t \in {ossl_statem_fatal(s, why), ossl_statem_fatal_no_alert(s, "ALERT_RECEIVED")},
               Settle(t, FALSE), in' = Tail(in)
        PROVE  TypeInv'
    <3>1. t \in SSL
      BY <2>2, FatalType DEF Reasons
    <3>2. t.state = "ERROR"
      BY ZenonT(120) DEF SSL, ossl_statem_fatal, ossl_statem_fatal_no_alert
    <3>3. s' \in SSL /\ out' \in Seq(Records) /\ s'.state = t.state
      BY <2>4, <3>1, SettleType
    <3> QED BY <2>1, <2>4, <3>2, <3>3
  <2> QED BY <1>10, <2>3, <2>4 DEF SslRead
<1>11. CASE PeerSends
  <2>1. PICK m \in PeerMessages : in' = <<m>>
    BY <1>11 DEF PeerSends
  <2>2. m \in Records
    BY PeerType
  <2>3. in' \in Seq(Records) /\ out' \in Seq(Records) /\ s' = s
    BY <1>11, <2>1, <2>2 DEF PeerSends
  <2> QED BY <2>3
<1>12. CASE UNCHANGED vars
  BY <1>12 DEF vars
<1> QED BY <1>1, <1>2, <1>3, <1>4, <1>5, <1>6, <1>7, <1>8, <1>9, <1>10, <1>11, <1>12
        DEF Next, EndpointNext

\* Whatever the peer sends and in whatever order, the SSL object and the records
\* stay well typed, for every set of options and of hello messages.
THEOREM TypeCorrect == Spec => []TypeOK
<1>1. TypeInv => TypeOK
  BY DEF TypeInv
<1> QED BY <1>1, TypeInit, TypeStep, PTL DEF Spec

-----------------------------------------------------------------------------
(***************************************************************************)
(* No flight is left behind: whatever its peer does, an endpoint waits for *)
(* input, or drops its buffering BIO, only when that BIO is empty.  This   *)
(* is what keeps two endpoints from waiting for each other forever, and it *)
(* depends on the flushes of client_post_work and server_post_work being   *)
(* in exactly the states after which a write transition stops writing.     *)
(***************************************************************************)

\* The states in which a message is written.
WriteStates ==
  {"CW_CLNT_HELLO", "CW_CERT", "CW_KEY_EXCH", "CW_CERT_VRFY", "CW_CHANGE", "CW_FINISHED",
   "SW_SRVR_HELLO", "SW_CERT", "SW_CERT_STATUS", "SW_KEY_EXCH", "SW_CERT_REQ",
   "SW_SRVR_DONE", "SW_SESSION_TICKET", "SW_CHANGE", "SW_FINISHED",
   "SW_ENCRYPTED_EXTENSIONS", "SW_CERT_VRFY"}

\* The states a write transition leads to in which nothing is sent.
Silent == {"OK", "EARLY_DATA"}

Flushes(t) == IF t.server THEN server_flushes(t) ELSE client_flushes(t)

\* A flight has ended: the last thing done was to read, or to flush.
Ended(t) == t.hand_state \notin WriteStates \/ Flushes(t)

\* The inductive invariant.  The buffering BIO is empty outside the writing
\* flow, where a flight has ended, and in the silent states; and the sub-states
\* of writing a message are visited in write states and silent states only.
FlightInv ==
  /\ s.state \in {"UNINITED", "READING", "FINISHED"} => s.bbio = <<>>
  /\ s.state = "WRITING" /\ s.sub = "TRANSITION" /\ Ended(s) => s.bbio = <<>>
  /\ s.state = "WRITING" /\ s.hand_state \in Silent => s.bbio = <<>> /\ s.sub # "SEND"
  /\ s.state = "WRITING" /\ s.sub # "TRANSITION" => s.hand_state \in WriteStates \cup Silent

-----------------------------------------------------------------------------
(* Transitions and flushes fit together *)

\* Where a write transition goes, and that it stops writing only after a flight
\* that has been flushed.
LEMMA TransitionFlushed ==
  ASSUME NEW t \in SSL, NEW h, h = write_transition(t)
  PROVE  /\ h \in WriteStates \cup Silent \cup {"FINISHED", "ERROR"}
         /\ h \in Silent \cup {"FINISHED"} => Ended(t)
<1>1. CASE t.server /\ SSL_IS_TLS13(t)
  BY <1>1 DEF write_transition, server_write_transition, server13_write_transition,
     WriteStates, Silent, Ended, Flushes, server_flushes
<1>2. CASE t.server /\ ~SSL_IS_TLS13(t)
  BY <1>2 DEF write_transition, server_write_transition, server12_write_transition,
     WriteStates, Silent, Ended, Flushes, server_flushes
<1>3. CASE ~t.server /\ SSL_IS_TLS13(t)
  BY <1>3 DEF write_transition, client_write_transition, client13_write_transition,
     WriteStates, Silent, Ended, Flushes, client_flushes
<1>4. CASE ~t.server /\ ~SSL_IS_TLS13(t)
  BY <1>4 DEF write_transition, client_write_transition, client12_write_transition,
     WriteStates, Silent, Ended, Flushes, client_flushes
<1> QED BY <1>1, <1>2, <1>3, <1>4

\* pre_work either hands a message over for sending, or sends nothing.
LEMMA PreWorkBuffer ==
  ASSUME NEW t \in SSL, t.state = "WRITING",
         NEW u, u = IF t.server THEN server_pre_work(t) ELSE client_pre_work(t)
  PROVE  /\ u.state = "FINISHED" => u.bbio = <<>>
         /\ u.state = "WRITING" => u.sub \in {"SEND", "POST_WORK"}
         /\ t.hand_state = "OK" => u.state = "FINISHED"
         /\ t.hand_state = "EARLY_DATA" /\ u.state = "WRITING" =>
              u.sub = "POST_WORK" /\ u.bbio = t.bbio
<1>1. CASE t.hand_state = "OK"
  BY <1>1 DEF SSL, server_pre_work, client_pre_work, tls_finish_handshake
<1>2. CASE t.hand_state = "EARLY_DATA"
  BY ZenonT(120), <1>2 DEF SSL, server_pre_work, client_pre_work, server_construct_message,
     client_construct_message, ossl_statem_fatal
<1>3. CASE t.hand_state \notin Silent
  <2> DEFINE Made(w) == w.state = "ERROR" \/ (w.state = "WRITING" /\ w.sub \in {"SEND", "POST_WORK"})
  <2>1. ASSUME NEW x \in SSL, NEW mt, NEW fl, x.state = "WRITING"
        PROVE  Made(Construct(x, mt, fl))
    BY <2>1 DEF SSL, Construct
  <2>2. ASSUME NEW x \in SSL, x.state = "WRITING"
        PROVE  Made(tls_construct_finished(x))
    BY <2>2 DEF SSL, tls_construct_finished, Construct, tls13_change_write, InstallWrite, SaveHash
  <2>3. CASE t.server
    <3>1. ASSUME NEW x \in SSL, x.state = "WRITING"
          PROVE  Made(server_construct_message(x))
      <4>1. ASSUME NEW fl
            PROVE  Made(Construct(create_synthetic_message_hash([x EXCEPT !.hit = FALSE]),
                                  "SERVER_HELLO", fl))
        BY <3>1 DEF SSL, Construct, create_synthetic_message_hash
      <4>2. /\ Made(tls_construct_certificate_request(x))
            /\ Made(tls_construct_new_session_ticket(x))
            /\ Made(ossl_statem_fatal(x, "INTERNAL_ERROR"))
            /\ Made([x EXCEPT !.sub = "POST_WORK"])
        BY <3>1 DEF SSL, tls_construct_certificate_request, tls_construct_new_session_ticket,
           Construct, ossl_statem_fatal
      <4> HIDE DEF Made
      <4>3. Made(tls_construct_server_hello(x))
        BY <2>1, <3>1, <4>1 DEF tls_construct_server_hello
      <4> QED BY <2>1, <2>2, <3>1, <4>2, <4>3 DEF server_construct_message
    <3>2. tls_finish_handshake(t, FALSE, FALSE).state = "WRITING"
      BY DEF SSL, tls_finish_handshake
    <3>3. Made(u)
      BY <1>3, <2>3, <3>1, <3>2, FinishHandshakeType DEF server_pre_work, Silent
    <3> QED BY <1>3, <3>3 DEF Silent
  <2>4. CASE ~t.server
    <3>1. ASSUME NEW fl
          PROVE  /\ Made(Construct([t EXCEPT !.ticket_expected = FALSE], "CLIENT_HELLO", fl))
                 /\ Made(tls13_change_write(Construct(t, "CERTIFICATE", fl), "HANDSHAKE"))
      BY DEF SSL, Construct, tls13_change_write, InstallWrite, SaveHash
    <3>2. Made(ossl_statem_fatal(t, "INTERNAL_ERROR"))
      BY DEF SSL, ossl_statem_fatal
    <3> HIDE DEF Made
    <3>3. Made(tls_construct_client_hello(t))
      BY <3>1 DEF tls_construct_client_hello
    <3>4. Made(tls_construct_client_certificate(t))
      BY <2>1, <3>1 DEF tls_construct_client_certificate
    <3>5. Made(client_construct_message(t))
      BY <2>1, <2>2, <3>2, <3>3, <3>4 DEF client_construct_message
    <3>6. Made(u)
      BY <1>3, <2>4, <3>5 DEF client_pre_work, Silent
    <3> QED BY <1>3, <3>6 DEF Silent, Made
  <2> QED BY <2>3, <2>4
<1> QED BY <1>1, <1>2, <1>3 DEF Silent

\* Processing a message writes nothing but an alert, and leads to writing only
\* through TRANSITION.
LEMMA ProcessBuffer ==
  ASSUME NEW t \in SSL, NEW m \in Records, t.state = "READING",
         NEW u, u \in {server_process_message(t, m), server_post_process_message(t, m),
                       client_process_message(t, m), client_post_process_message(t)}
  PROVE  u.state # "ERROR" => /\ u.bbio = t.bbio
                              /\ u.state = "WRITING" => u.sub = "TRANSITION"
<1> DEFINE Dry(w) == w.state # "ERROR" => /\ w.bbio = t.bbio
                                          /\ w.state = "WRITING" => w.sub = "TRANSITION"
<1>1. /\ Dry(ContinueReading(t)) /\ Dry(ContinueProcessing(t)) /\ Dry(FinishedReading(t))
      /\ Dry(ossl_statem_fatal(t, "INTERNAL_ERROR"))
  BY DEF SSL, ContinueReading, ContinueProcessing, FinishedReading, ossl_statem_fatal
<1>2. Dry(tls_process_finished(t, m))
  BY DEF SSL, tls_process_finished, FinishedReading, ossl_statem_fatal, tls13_change_read,
     InstallRead, SaveHash
<1>3. Dry(tls_process_cert_verify(t, m)) /\ Dry(tls_process_change_cipher_spec(t))
  BY DEF SSL, tls_process_cert_verify, tls_process_change_cipher_spec, ContinueReading,
     ContinueProcessing, ossl_statem_fatal, InstallRead
<1>4. Dry(tls_process_client_certificate(t, m)) /\ Dry(tls_process_client_key_exchange(t))
  BY DEF SSL, tls_process_client_certificate, tls_process_client_key_exchange,
     ssl_generate_master_secret, ContinueReading, ContinueProcessing, ossl_statem_fatal
<1>5. Dry(tls_process_server_hello(t, m))
  <2>1. Dry(tls_process_as_hello_retry_request(t, m))
    BY DEF SSL, tls_process_as_hello_retry_request, create_synthetic_message_hash,
       ssl3_finish_mac, FinishedReading, ossl_statem_fatal
  <2> QED BY <2>1 DEF SSL, tls_process_server_hello, ossl_statem_fatal, ContinueReading,
       tls13_change_read, InstallRead, SaveHash
<1>6. /\ Dry(tls_process_server_certificate(t, m)) /\ Dry(tls_process_key_exchange(t, m))
      /\ Dry(tls_process_certificate_request(t)) /\ Dry(tls_process_new_session_ticket(t))
      /\ Dry(tls_prepare_client_certificate(t))
  BY DEF SSL, tls_process_server_certificate, tls_process_key_exchange,
     tls_process_certificate_request, tls_process_new_session_ticket,
     tls_prepare_client_certificate, ContinueReading, ContinueProcessing, FinishedReading,
     ossl_statem_fatal
<1>7. Dry(tls_post_process_client_hello(t, m))
  <2> DEFINE v == ssl_choose_server_version(t, m)
             hit == SessFlag(v) \in m.flags /\ t.opt.session = v
             fresh == ~hit \/ t.opt.renew
             a == [t EXCEPT !.version = v, !.hit = hit]
             tick == "ticket" \in m.flags /\ t.opt.ticket /\ fresh
             stat == /\ "status" \in m.flags /\ t.opt.status /\ ~hit
                     /\ t.opt.cipher \in {"RSA", "DHE", "RSAPSK"}
             key == IF hit THEN <<Elem("SESSION", {})>> ELSE a.master_key
             b12 == [a EXCEPT !.new_cipher = t.opt.cipher, !.extms = "ems" \in m.flags,
                              !.ticket_expected = tick, !.status_expected = stat,
                              !.master_key = key]
             c13 == [a EXCEPT !.new_cipher = "TLS13", !.ticket_expected = fresh]
             b13 == final_key_share(c13, m)
  <2> HIDE DEF v, hit, fresh, tick, stat, key
  <2>1. /\ Dry(FinishedReading(b12)) /\ Dry(ossl_statem_fatal(a, "BAD_CIPHER"))
        /\ Dry(ossl_statem_fatal(t, "BAD_EXTENSION"))
        /\ Dry(ossl_statem_fatal(t, "UNSUPPORTED_PROTOCOL"))
    BY DEF SSL, FinishedReading, ossl_statem_fatal
  <2>2. Dry(IF b13.state = "ERROR" THEN b13 ELSE FinishedReading(b13))
    BY DEF SSL, FinishedReading, final_key_share, ossl_statem_fatal
  <2> HIDE DEF a, b12, c13, b13, Dry
  <2>3. tls_post_process_client_hello(t, m)
          \in {FinishedReading(b12), IF b13.state = "ERROR" THEN b13 ELSE FinishedReading(b13),
               ossl_statem_fatal(a, "BAD_CIPHER"), ossl_statem_fatal(t, "BAD_EXTENSION"),
               ossl_statem_fatal(t, "UNSUPPORTED_PROTOCOL")}
    BY DEF tls_post_process_client_hello, v, hit, fresh, tick, stat, key, a, b12, c13, b13
  <2> QED BY <2>1, <2>2, <2>3
<1> HIDE DEF Dry
<1>8. Dry(server_process_message(t, m)) /\ Dry(server_post_process_message(t, m))
  BY <1>1, <1>2, <1>3, <1>4, <1>7 DEF server_process_message, server_post_process_message
<1>9. Dry(client_process_message(t, m)) /\ Dry(client_post_process_message(t))
  BY <1>1, <1>2, <1>3, <1>5, <1>6 DEF client_process_message, client_post_process_message
<1> QED BY <1>8, <1>9 DEF Dry

\* Reading a header writes nothing but an alert; nor do sending's neighbours
\* touch the BIO.
LEMMA OtherBuffer ==
  ASSUME NEW t \in SSL, NEW m
  PROVE  /\ tls_get_message_header(t, m).state # "ERROR" =>
              tls_get_message_header(t, m).bbio = t.bbio
         /\ server_post_work(t).bbio = t.bbio
         /\ client_post_work(t).bbio = t.bbio
<1>1. tls_get_message_header(t, m).state # "ERROR" => tls_get_message_header(t, m).bbio = t.bbio
  BY DEF SSL, tls_get_message_header, ossl_statem_fatal, ossl_statem_fatal_no_alert
<1>2. server_post_work(t).bbio = t.bbio
  BY DEF SSL, server_post_work, HandshakeKeys, tls13_change_write, tls13_change_read,
     InstallWrite, InstallRead, SaveHash
<1>3. client_post_work(t).bbio = t.bbio
  BY DEF SSL, client_post_work, tls13_change_write, InstallWrite, SaveHash,
     ssl_generate_master_secret
<1> QED BY <1>1, <1>2, <1>3

\* A flush, or the absence of one.
LEMMA SettleBuffer ==
  ASSUME NEW t \in SSL, NEW flush \in BOOLEAN, Settle(t, flush)
  PROVE  /\ s'.bbio = t.bbio \/ s'.bbio = <<>>
         /\ flush => s'.bbio = <<>>
         /\ s'.sub = t.sub /\ s'.opt = t.opt /\ s'.hello_retry_request = t.hello_retry_request
BY DEF Settle, SSL

-----------------------------------------------------------------------------
(* The invariant *)

\* The two ways to fail leave the machine in its error state.
LEMMA FatalState ==
  ASSUME NEW t \in SSL, NEW r \in Reasons
  PROVE  /\ ossl_statem_fatal(t, r) \in SSL
         /\ ossl_statem_fatal(t, r).state = "ERROR"
         /\ ossl_statem_fatal_no_alert(t, "ALERT_RECEIVED") \in SSL
         /\ ossl_statem_fatal_no_alert(t, "ALERT_RECEIVED").state = "ERROR"
         /\ "INTERNAL_ERROR" \in Reasons
<1>1. "INTERNAL_ERROR" \in Reasons /\ "ALERT_RECEIVED" \in Reasons
  BY DEF Reasons
<1>2. ossl_statem_fatal(t, r) \in SSL /\ ossl_statem_fatal_no_alert(t, "ALERT_RECEIVED") \in SSL
  BY <1>1, FatalType
<1>3. ossl_statem_fatal(t, r).state = "ERROR"
  BY DEF SSL, ossl_statem_fatal
<1>4. ossl_statem_fatal_no_alert(t, "ALERT_RECEIVED").state = "ERROR"
  BY DEF SSL, ossl_statem_fatal_no_alert
<1> QED BY <1>1, <1>2, <1>3, <1>4

\* The three moves of the write state machine keep the type.
LEMMA WriteMoves ==
  ASSUME NEW t \in SSL, NEW h \in HandStates
  PROVE  /\ [t EXCEPT !.sub = "TRANSITION"] \in SSL
         /\ [t EXCEPT !.state = "READING", !.sub = "HEADER"] \in SSL
         /\ [t EXCEPT !.hand_state = h, !.sub = "PRE_WORK"] \in SSL
<1> DEFINE a == "TRANSITION"
           b == "HEADER"
           c == "PRE_WORK"
           f == "READING"
<1>1. a \in SubStates /\ b \in SubStates /\ c \in SubStates /\ f \in MsgFlow
  BY StateNames
<1> HIDE DEF a, b, c, f
<1>3. [t EXCEPT !.sub = a] \in SSL
  BY <1>1 DEF SSL
<1>4. [t EXCEPT !.state = f, !.sub = b] \in SSL
  BY ZenonT(120), <1>1 DEF SSL
<1>5. [t EXCEPT !.hand_state = h, !.sub = c] \in SSL
  BY ZenonT(120), <1>1 DEF SSL
<1> QED BY <1>3, <1>4, <1>5 DEF a, b, c, f

LEMMA FlightInit == Init => FlightInv
<1> SUFFICES ASSUME Init PROVE FlightInv
  OBVIOUS
<1>1. PICK o \in OptionSet : s = ossl_statem_clear(IsServer, o)
  BY DEF Init
<1> QED BY <1>1 DEF FlightInv, ossl_statem_clear

\* One step per action; TypeInv types the object the action works on.
LEMMA FlightStep == TypeInv /\ FlightInv /\ [Next]_vars => FlightInv'
<1> SUFFICES ASSUME TypeInv, FlightInv, [Next]_vars PROVE FlightInv'
  OBVIOUS
<1>0. s \in SSL /\ in \in Seq(Records) /\ out \in Seq(Records)
  BY DEF TypeInv, TypeOK
<1>1. CASE Start
  <2>1. s' = state_machine_init(s)
    BY <1>1 DEF Start
  <2>2. s'.state = "WRITING" /\ s'.sub = "TRANSITION" /\ s'.bbio = <<>>
    BY <1>0, <2>1, MachineInitType
  <2> QED BY <2>2 DEF FlightInv
<1>2. CASE WriteTransition
  <2> DEFINE h == write_transition(s)
             t == CASE h = "ERROR" -> ossl_statem_fatal(s, "INTERNAL_ERROR")
                    [] h = "FINISHED" -> [s EXCEPT !.state = "READING", !.sub = "HEADER"]
                    [] OTHER -> [s EXCEPT !.hand_state = h, !.sub = "PRE_WORK"]
  <2>1. /\ s.state = "WRITING" /\ s.sub = "TRANSITION"
        /\ Settle(t, FALSE)
    BY <1>2 DEF WriteTransition, Writing
  <2>2. /\ h \in WriteStates \cup Silent \cup {"FINISHED", "ERROR"}
        /\ h \in Silent \cup {"FINISHED"} => s.bbio = <<>>
    BY <1>0, <2>1, TransitionFlushed DEF FlightInv
  <2> HIDE DEF h
  <2>3. CASE h = "ERROR"
    <3>1. t = ossl_statem_fatal(s, "INTERNAL_ERROR")
      BY <2>3
    <3>0. /\ ossl_statem_fatal(s, "INTERNAL_ERROR") \in SSL
          /\ ossl_statem_fatal(s, "INTERNAL_ERROR").state = "ERROR"
      BY <1>0, FatalState DEF Reasons
    <3> HIDE DEF t
    <3>2. t \in SSL /\ t.state = "ERROR"
      BY <3>0, <3>1
    <3>3. s'.state = "ERROR"
      BY <1>0, <2>1, <3>2, SettleType
    <3> QED BY <3>3 DEF FlightInv
  <2>4. CASE h = "FINISHED"
    <3>1. t = [s EXCEPT !.state = "READING", !.sub = "HEADER"]
      BY <2>4
    <3> HIDE DEF t
    <3>2. t \in SSL
      <4>1. "OK" \in HandStates
        BY DEF HandStates, ClientStates, ServerStates
      <4> QED BY ZenonT(120), <1>0, <3>1, <4>1, WriteMoves
    <3>3. t.state = "READING" /\ t.bbio = <<>>
      BY <1>0, <2>2, <2>4, <3>1 DEF SSL
    <3>4. s'.state = "READING" /\ s'.bbio = <<>>
      BY <1>0, <2>1, <3>2, <3>3, SettleType, SettleBuffer
    <3> QED BY <3>4 DEF FlightInv
  <2>5. CASE h \in WriteStates \cup Silent
    <3>1. t = [s EXCEPT !.hand_state = h, !.sub = "PRE_WORK"]
      BY <2>5 DEF WriteStates, Silent
    <3> HIDE DEF t
    <3>2. h \in HandStates
      BY <2>5 DEF WriteStates, Silent, HandStates, ClientStates, ServerStates
    <3>3. t \in SSL
      BY ZenonT(120), <1>0, <3>1, <3>2, WriteMoves
    <3>4. /\ t.state = "WRITING" /\ t.bbio = s.bbio /\ t.sub = "PRE_WORK" /\ t.hand_state = h
      BY <1>0, <2>1, <3>1 DEF SSL
    <3>5. /\ s'.state = "WRITING" /\ s'.sub = "PRE_WORK" /\ s'.hand_state = h
          /\ s'.bbio = s.bbio \/ s'.bbio = <<>>
      BY <1>0, <2>1, <3>3, <3>4, SettleType, SettleBuffer
    <3> QED BY <2>2, <2>5, <3>5 DEF FlightInv
  <2> QED BY <2>2, <2>3, <2>4, <2>5
<1>3. CASE PreWork
  <2> DEFINE t == IF s.server THEN server_pre_work(s) ELSE client_pre_work(s)
  <2>1. s.state = "WRITING" /\ s.sub = "PRE_WORK" /\ Settle(t, FALSE)
    BY <1>3 DEF PreWork, Writing
  <2>2. t \in SSL
    BY <1>0, <2>1, ServerPreWorkType, ClientPreWorkType DEF TypeInv, Chosen
  <2>3. /\ t.hand_state = s.hand_state
        /\ t.state \in {"WRITING", "ERROR", "FINISHED"}
    BY <1>0, <2>1, PreWorkFrame
  <2>4. /\ t.state = "FINISHED" => t.bbio = <<>>
        /\ t.state = "WRITING" => t.sub \in {"SEND", "POST_WORK"}
        /\ s.hand_state = "OK" => t.state = "FINISHED"
        /\ s.hand_state = "EARLY_DATA" /\ t.state = "WRITING" =>
             t.sub = "POST_WORK" /\ t.bbio = s.bbio
    BY <1>0, <2>1, PreWorkBuffer
  <2> HIDE DEF t
  <2>5. /\ s'.state = t.state /\ s'.sub = t.sub /\ s'.hand_state = t.hand_state
        /\ s'.bbio = t.bbio \/ s'.bbio = <<>>
    BY <1>0, <2>1, <2>2, SettleType, SettleBuffer
  <2> QED BY <2>1, <2>3, <2>4, <2>5 DEF FlightInv, Silent
<1>4. CASE Send
  <2> DEFINE t == ssl3_do_write(s)
  <2>1. t \in SSL /\ t.hand_state = s.hand_state /\ t.state = s.state
    BY <1>0, DoWriteType, WriteFrame
  <2> HIDE DEF t
  <2>2. s' = [t EXCEPT !.sub = "POST_WORK"] /\ s.state = "WRITING" /\ s.sub = "SEND"
    BY <1>4 DEF Send, Writing, t
  <2>3. s'.state = "WRITING" /\ s'.sub = "POST_WORK" /\ s'.hand_state = s.hand_state
    BY <2>1, <2>2 DEF SSL
  <2> QED BY <2>2, <2>3 DEF FlightInv
<1>5. CASE Spill
  <2>1. /\ s.state = "WRITING" /\ s.sub \in {"SEND", "POST_WORK"} /\ s.bbio # <<>>
        /\ s' = [s EXCEPT !.bbio = Tail(@)]
    BY <1>5 DEF Spill
  <2>2. s'.state = s.state /\ s'.sub = s.sub /\ s'.hand_state = s.hand_state
    BY <1>0, <2>1 DEF SSL
  <2> QED BY <2>1, <2>2 DEF FlightInv
<1>6. CASE PostWork
  <2> DEFINE w == IF s.server THEN server_post_work(s) ELSE client_post_work(s)
             t == [w EXCEPT !.sub = "TRANSITION"]
             flush == IF s.server THEN server_flushes(s) ELSE client_flushes(s)
  <2>1. s.state = "WRITING" /\ s.sub = "POST_WORK" /\ Settle(t, flush)
    BY <1>6 DEF PostWork, Writing
  <2>2. flush \in BOOLEAN /\ flush = Flushes(s)
    <3>1. client_flushes(s) \in BOOLEAN
      BY DEF client_flushes
    <3>2. server_flushes(s) \in BOOLEAN
      BY Zenon DEF server_flushes
    <3> QED BY <3>1, <3>2 DEF Flushes
  <2>3. w \in SSL
    BY <1>0, ServerPostWorkType, ClientPostWorkType
  <2>4. /\ w.server = s.server /\ w.hand_state = s.hand_state /\ w.state = s.state
        /\ w.version = s.version /\ w.opt = s.opt
        /\ w.hello_retry_request = s.hello_retry_request
        /\ w.bbio = s.bbio
    BY <1>0, WriteFrame, OtherBuffer
  <2> HIDE DEF w, flush
  <2>5. t \in SSL
    <3>1. "OK" \in HandStates
      BY DEF HandStates, ClientStates, ServerStates
    <3> QED BY ZenonT(120), <2>3, <3>1, WriteMoves
  <2>6. /\ t.server = s.server /\ t.hand_state = s.hand_state /\ t.state = s.state
        /\ t.version = s.version /\ t.opt = s.opt
        /\ t.hello_retry_request = s.hello_retry_request
        /\ t.bbio = s.bbio /\ t.sub = "TRANSITION"
    BY <2>3, <2>4 DEF SSL
  <2> HIDE DEF t
  <2>7. /\ s'.server = s.server /\ s'.hand_state = s.hand_state /\ s'.state = "WRITING"
        /\ s'.version = s.version /\ s'.opt = s.opt
        /\ s'.hello_retry_request = s.hello_retry_request
        /\ s'.sub = "TRANSITION" /\ (s'.bbio = s.bbio \/ s'.bbio = <<>>)
        /\ flush => s'.bbio = <<>>
    BY <1>0, <2>1, <2>2, <2>5, <2>6, SettleType, SettleBuffer
  <2>8. Flushes(s') = Flushes(s)
    BY <2>7 DEF Flushes, server_flushes, client_flushes, SSL_IS_TLS13
  <2>9. s'.hand_state \in WriteStates \cup Silent
    BY <2>1, <2>7 DEF FlightInv
  <2>10. s'.hand_state \in Silent => s'.bbio = <<>>
    BY <2>1, <2>7 DEF FlightInv
  <2>11. Ended(s') => s'.bbio = <<>>
    BY <2>2, <2>7, <2>8, <2>9, <2>10 DEF Ended
  <2> QED BY <2>7, <2>10, <2>11 DEF FlightInv, Ended
<1>7. CASE ReadHeader
  <2> DEFINE m == Head(in)
             t == tls_get_message_header(s, m)
  <2>1. s.state = "READING" /\ m \in Records /\ Settle(t, FALSE)
    BY <1>0, <1>7, RecordQueue DEF ReadHeader, Reading
  <2> HIDE DEF m
  <2>2. /\ t \in SSL /\ t.state \in {"READING", "ERROR"}
        /\ t.state # "ERROR" => t.bbio = s.bbio
    BY <1>0, <2>1, HeaderType, OtherBuffer
  <2> HIDE DEF t
  <2>3. s'.state = t.state /\ (s'.bbio = t.bbio \/ s'.bbio = <<>>)
    BY <1>0, <2>1, <2>2, SettleType, SettleBuffer
  <2> QED BY <2>1, <2>2, <2>3 DEF FlightInv
<1>8. CASE ReadBody \/ PostProcess
  <2>1. PICK t \in SSL : /\ Settle(t, FALSE)
                         /\ t.state \in {"READING", "WRITING", "ERROR"}
                         /\ t.state # "ERROR" => t.bbio = <<>>
                         /\ t.state = "WRITING" => t.sub = "TRANSITION"
    <3>1. CASE ReadBody
      <4> DEFINE b == tls_get_message_body(s)
                 t == IF b.server THEN server_process_message(b, b.init_msg)
                                  ELSE client_process_message(b, b.init_msg)
      <4>1. s.state = "READING" /\ s.bbio = <<>> /\ Settle(t, FALSE)
        BY <3>1 DEF ReadBody, Reading, FlightInv
      <4>2. b \in SSL /\ b.state = "READING" /\ b.init_msg \in Records /\ b.bbio = <<>>
        BY <1>0, <4>1, GetBodyType, BodyFrame, SSLParts
      <4> HIDE DEF b
      <4>3. t \in SSL /\ t.state \in {"READING", "WRITING", "ERROR"}
        BY <4>2, ServerProcessType, ClientProcessType, ServerProcessFrame, ClientProcessFrame
      <4>4. t.state # "ERROR" => t.bbio = <<>> /\ (t.state = "WRITING" => t.sub = "TRANSITION")
        BY <4>2, ProcessBuffer
      <4> HIDE DEF t
      <4> QED BY <4>1, <4>3, <4>4
    <3>2. CASE PostProcess
      <4> DEFINE t == IF s.server THEN server_post_process_message(s, s.init_msg)
                                  ELSE client_post_process_message(s)
      <4>1. s.state = "READING" /\ s.bbio = <<>> /\ Settle(t, FALSE) /\ s.init_msg \in Records
        BY <1>0, <3>2, SSLParts DEF PostProcess, Reading, FlightInv
      <4>2. t \in SSL /\ t.state \in {"READING", "WRITING", "ERROR"}
        BY <1>0, <4>1, ServerProcessType, ClientProcessType, ServerPostProcessFrame,
           ClientProcessFrame
      <4>3. t.state # "ERROR" => t.bbio = <<>> /\ (t.state = "WRITING" => t.sub = "TRANSITION")
        BY <1>0, <4>1, ProcessBuffer
      <4> HIDE DEF t
      <4> QED BY <4>1, <4>2, <4>3
    <3> QED BY <1>8, <3>1, <3>2
  <2>2. s'.state = t.state /\ s'.sub = t.sub /\ (s'.bbio = t.bbio \/ s'.bbio = <<>>)
    BY <1>0, <2>1, SettleType, SettleBuffer
  <2> QED BY <2>1, <2>2 DEF FlightInv
<1>9. CASE SslRead
  <2> DEFINE why == RecordError(s, Head(in))
  <2>1. why \in Reasons
    BY DEF RecordError, Reasons
  <2> HIDE DEF why
  <2>2. CASE s' = state_machine_init([s EXCEPT !.in_init = TRUE])
    <3>1. [s EXCEPT !.in_init = TRUE] \in SSL
      BY ZenonT(120), <1>0 DEF SSL
    <3>2. s'.state = "WRITING" /\ s'.sub = "TRANSITION" /\ s'.bbio = <<>>
      BY <2>2, <3>1, MachineInitType
    <3> QED BY <3>2 DEF FlightInv
  <2>3. ASSUME NEW t \in {ossl_statem_fatal(s, why), ossl_statem_fatal_no_alert(s, "ALERT_RECEIVED")},
               Settle(t, FALSE)
        PROVE  FlightInv'
    <3>1. t \in SSL /\ t.state = "ERROR"
      BY <1>0, <2>1, <2>3, FatalState
    <3>2. s'.state = "ERROR"
      BY <1>0, <2>3, <3>1, SettleType
    <3> QED BY <3>2 DEF FlightInv
  <2> QED BY <1>9, <2>2, <2>3 DEF SslRead, why
<1>10. CASE PeerSends \/ UNCHANGED vars
  <2>1. s' = s
    BY <1>10 DEF PeerSends, vars
  <2> QED BY <2>1 DEF FlightInv, Ended, Flushes, server_flushes, client_flushes, SSL_IS_TLS13
<1> QED BY <1>1, <1>2, <1>3, <1>4, <1>5, <1>6, <1>7, <1>8, <1>9, <1>10 DEF Next, EndpointNext

\* For every set of options, every peer and every order of messages: an endpoint
\* neither waits for its peer nor frees its buffering BIO while part of a flight
\* is still in that BIO.
THEOREM FlightsComplete == Spec => []NothingHeldBack
<1>1. FlightInv => NothingHeldBack
  BY DEF FlightInv, NothingHeldBack, Reading, Writing, Established, Silent
<1> QED BY <1>1, TypeInit, TypeStep, FlightInit, FlightStep, PTL DEF Spec

=============================================================================
