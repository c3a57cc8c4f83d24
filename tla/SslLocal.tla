------------------------------ MODULE SslLocal ------------------------------
(***************************************************************************)
(* The SSL object of ssl_local.h and statem.h, as far as a TLS handshake   *)
(* over a reliable transport reads and writes it, and the records that     *)
(* travel between the two endpoints.                                       *)
(*                                                                         *)
(* A message body is the set of flags the receiver's control flow depends  *)
(* on.  A hash is the sequence of hashed messages, a derived secret is the *)
(* sequence it is derived from, and a record decrypts exactly when it was  *)
(* protected under the key the reader has installed.                       *)
(***************************************************************************)
EXTENDS Naturals, Sequences

Versions == {"TLS1_2", "TLS1_3"}

\* Flags a message body can carry (which ones depends on the message type):
\* offered versions, a resumable session of a version, a session ticket, OCSP
\* status or extended master secret extension, the key_share group, the HelloRetryRequest random,
\* the resumption answer, the downgrade sentinel, a certificate chain and
\* its trust, a signature that verifies, and the chosen cipher suite.
Ciphers == {"RSA", "DHE", "ANON", "PSK", "RSAPSK", "DHEPSK", "TLS13"}
SessFlag(v) == IF v = "TLS1_3" THEN "sess13" ELSE "sess12"
Flags == Versions \cup Ciphers
           \cup {"sess12", "sess13", "ticket", "status", "ems", "g1", "g2", "HRR",
                 "hit", "sentinel", "chain", "trusted", "ok"}

MessageTypes ==
  {"CLIENT_HELLO", "SERVER_HELLO", "ENCRYPTED_EXTENSIONS", "CERTIFICATE",
   "CERTIFICATE_STATUS", "SERVER_KEY_EXCHANGE", "CERTIFICATE_REQUEST",
   "SERVER_DONE", "CLIENT_KEY_EXCHANGE", "CERTIFICATE_VERIFY",
   "CHANGE_CIPHER_SPEC", "FINISHED", "NEWSESSION_TICKET", "HELLO_REQUEST",
   "ALERT"}

\* What the transcript hash sees of a message.
Hashed == [mt : MessageTypes \cup {"MESSAGE_HASH", "SESSION", "PREMASTER", "RANDOM"}, flags : SUBSET Flags]
Hash == Seq(Hashed)
Elem(mt, flags) == [mt |-> mt, flags |-> flags]

\* A traffic key: the epoch it belongs to, the side that writes with it and
\* the hash its secret is derived from.
Epochs == {"PLAIN", "TLS1_2", "HANDSHAKE", "APPLICATION"}
Sides == {"NOBODY", "CLIENT", "SERVER"}
Keys == [epoch : Epochs, writer : Sides, secret : Hash]
PlainKey == [epoch |-> "PLAIN", writer |-> "NOBODY", secret |-> <<>>]

\* The verify_data of a Finished message.
Macs == [sender : Sides, secret : Hash, hash : Hash]
NoMac == [sender |-> "NOBODY", secret |-> <<>>, hash |-> <<>>]

Records == [mt : MessageTypes, flags : SUBSET Flags, mac : Macs, key : Keys]
NoMsg == [mt |-> "ALERT", flags |-> {}, mac |-> NoMac, key |-> PlainKey]

\* statem.h: MSG_FLOW_STATE, and the READ_STATE and WRITE_STATE sub-states.
MsgFlow == {"UNINITED", "ERROR", "READING", "WRITING", "FINISHED"}
SubStates == {"HEADER", "BODY", "POST_PROCESS",
              "TRANSITION", "PRE_WORK", "SEND", "POST_WORK"}

\* ssl.h: OSSL_HANDSHAKE_STATE.
ClientStates ==
  {"CW_CLNT_HELLO", "CR_SRVR_HELLO", "CR_CERT", "CR_CERT_STATUS",
   "CR_KEY_EXCH", "CR_CERT_REQ", "CR_SRVR_DONE", "CW_CERT", "CW_KEY_EXCH",
   "CW_CERT_VRFY", "CW_CHANGE", "CW_FINISHED", "CR_SESSION_TICKET",
   "CR_CHANGE", "CR_FINISHED", "CR_ENCRYPTED_EXTENSIONS", "CR_CERT_VRFY"}
ServerStates ==
  {"SR_CLNT_HELLO", "SW_SRVR_HELLO", "SW_CERT", "SW_CERT_STATUS",
   "SW_KEY_EXCH", "SW_CERT_REQ", "SW_SRVR_DONE", "SR_CERT", "SR_KEY_EXCH",
   "SR_CERT_VRFY", "SR_CHANGE", "SR_FINISHED", "SW_SESSION_TICKET",
   "SW_CHANGE", "SW_FINISHED", "SW_ENCRYPTED_EXTENSIONS", "SW_CERT_VRFY",
   "EARLY_DATA"}
HandStates == {"BEFORE", "OK"} \cup ClientStates \cup ServerStates

Reasons ==
  {"NONE", "UNEXPECTED_MESSAGE", "BAD_RECORD", "DATA_BETWEEN_CCS_AND_FINISHED",
   "ALERT_RECEIVED", "INTERNAL_ERROR", "UNSUPPORTED_PROTOCOL",
   "INAPPROPRIATE_FALLBACK", "BAD_CIPHER", "NO_SUITABLE_KEY_SHARE",
   "BAD_KEY_SHARE", "BAD_EXTENSION", "VERIFY_FAILED", "NO_PEER_CERTIFICATE", "BAD_SIGNATURE",
   "DIGEST_CHECK_FAILED", "GOT_A_FIN_BEFORE_A_CCS", "CCS_RECEIVED_EARLY"}

\* Settings the application made before the handshake: enabled versions,
\* SSL_OP_ENABLE_MIDDLEBOX_COMPAT, SSL_VERIFY_* ("FAIL" is PEER together
\* with FAIL_IF_NO_PEER_CERT), our certificate, the version of a session we
\* can resume, tickets and their renewal, OCSP stapling, the groups we
\* accept, SSL_set_num_tickets, the TLSv1.2 cipher suite and PSK hint.
Options ==
  [versions : (SUBSET Versions) \ {{}}, compat : BOOLEAN,
   verify : {"NONE", "PEER", "FAIL"}, cert : {"NONE", "TRUSTED", "UNTRUSTED"},
   session : Versions \cup {"NONE"}, ticket : BOOLEAN, renew : BOOLEAN,
   status : BOOLEAN, groups : (SUBSET {"g1", "g2"}) \ {{}}, num_tickets : Nat,
   cipher : Ciphers \ {"TLS13"}, hint : BOOLEAN]

SSL ==
  [server : BOOLEAN, opt : Options,
   state : MsgFlow, sub : SubStates, hand_state : HandStates,
   in_init : BOOLEAN, cleanuphand : BOOLEAN,
   version : Versions \cup {"ANY"}, hit : BOOLEAN,
   new_cipher : Ciphers \cup {"NONE"}, group : {"g1", "g2"},
   ticket_expected : BOOLEAN, status_expected : BOOLEAN, extms : BOOLEAN,
   hello_retry_request : {"NONE", "PENDING", "COMPLETE"},
   cert_req : 0..2, cert_request : BOOLEAN, peer : BOOLEAN,
   change_cipher_spec : BOOLEAN, sent_tickets : Nat, master_key : Hash,
   enc_read : Keys, enc_write : Keys, plain_alerts : BOOLEAN,
   transcript : Hash, handshake_traffic_hash : Hash, server_finished_hash : Hash,
   finish_md : BOOLEAN, peer_finish_md : BOOLEAN, peer_mac : Macs,
   init_msg : Records, bbio : Seq(Records), reason : Reasons]

\* SSL_new with ossl_statem_clear: an object about to start its handshake.
ossl_statem_clear(server, o) ==
  [server |-> server, opt |-> o,
   state |-> "UNINITED", sub |-> "TRANSITION", hand_state |-> "BEFORE",
   in_init |-> TRUE, cleanuphand |-> FALSE,
   version |-> "ANY", hit |-> FALSE, new_cipher |-> "NONE", group |-> "g1",
   ticket_expected |-> FALSE, status_expected |-> FALSE, extms |-> FALSE,
   hello_retry_request |-> "NONE", cert_req |-> 0, cert_request |-> FALSE,
   peer |-> FALSE, change_cipher_spec |-> FALSE, sent_tickets |-> 0,
   master_key |-> <<>>, enc_read |-> PlainKey, enc_write |-> PlainKey,
   plain_alerts |-> FALSE, transcript |-> <<>>, handshake_traffic_hash |-> <<>>,
   server_finished_hash |-> <<>>, finish_md |-> FALSE, peer_finish_md |-> FALSE,
   peer_mac |-> NoMac, init_msg |-> NoMsg, bbio |-> <<>>, reason |-> "NONE"]

SSL_IS_TLS13(s) == s.version = "TLS1_3"
SSL_IS_FIRST_HANDSHAKE(s) == ~s.finish_md \/ ~s.peer_finish_md
Side(s) == IF s.server THEN "SERVER" ELSE "CLIENT"
PeerSide(s) == IF s.server THEN "CLIENT" ELSE "SERVER"
VerifyPeer(s) == s.opt.verify # "NONE"

\* algorithm_auth and algorithm_mkey of the chosen suite (s3_lib.c).
aNULL(s) == s.new_cipher = "ANON"
aPSK(s) == s.new_cipher \in {"PSK", "DHEPSK"}
kEphemeral(s) == s.new_cipher \in {"DHE", "ANON", "DHEPSK"}
kAnyPSK(s) == s.new_cipher \in {"PSK", "RSAPSK", "DHEPSK"}

\* Mutation: the alert is never queued.
fatal_without_alert(s, reason) ==
  [s EXCEPT !.in_init = TRUE, !.state = "ERROR", !.reason = reason]

\* SSLfatal: the error is permanent and a fatal alert goes out behind what
\* is already buffered; ssl3_dispatch_alert then flushes the write BIO.
ossl_statem_fatal(s, reason) ==
  [s EXCEPT !.in_init = TRUE, !.state = "ERROR", !.reason = reason,
            !.bbio = Append(@, [NoMsg EXCEPT !.key = s.enc_write])]

\* SSLfatal with SSL_AD_NO_ALERT, as for a received fatal alert.
ossl_statem_fatal_no_alert(s, reason) ==
  [s EXCEPT !.in_init = TRUE, !.state = "ERROR", !.reason = reason]

=============================================================================
