----------------------------- MODULE StatemClnt -----------------------------
(***************************************************************************)
(* The client's half of the handshake state machine (statem_clnt.c).       *)
(*                                                                         *)
(* A read transition gives the hand_state that a message of type mt moves  *)
(* to, or "NONE" when the message is not allowed; a write transition gives *)
(* the hand_state to move to and write in, "FINISHED" to go and read, or   *)
(* "ERROR".                                                                *)
(***************************************************************************)
EXTENDS StatemLib

cert_req_allowed(s) == ~aNULL(s) /\ ~aPSK(s)

key_exchange_expected(s) == kEphemeral(s)

\* A PSK suite may carry a ServerKeyExchange with an identity hint.
KeyExchangeNext(s, mt) ==
  key_exchange_expected(s) \/ (kAnyPSK(s) /\ mt = "SERVER_KEY_EXCHANGE")

client13_read_transition(s, mt) ==
  LET at(h, t) == s.hand_state = h /\ mt = t
  IN  CASE at("CW_CLNT_HELLO", "SERVER_HELLO") -> "CR_SRVR_HELLO"
        [] at("CR_SRVR_HELLO", "ENCRYPTED_EXTENSIONS") -> "CR_ENCRYPTED_EXTENSIONS"
        [] at("CR_ENCRYPTED_EXTENSIONS", "FINISHED") /\ s.hit -> "CR_FINISHED"
        [] at("CR_ENCRYPTED_EXTENSIONS", "CERTIFICATE_REQUEST") /\ ~s.hit -> "CR_CERT_REQ"
        [] at("CR_ENCRYPTED_EXTENSIONS", "CERTIFICATE") /\ ~s.hit -> "CR_CERT"
        [] at("CR_CERT_REQ", "CERTIFICATE") -> "CR_CERT"
        [] at("CR_CERT", "CERTIFICATE_VERIFY") -> "CR_CERT_VRFY"
        [] at("CR_CERT_VRFY", "FINISHED") -> "CR_FINISHED"
        [] at("OK", "NEWSESSION_TICKET") -> "CR_SESSION_TICKET"
        [] OTHER -> "NONE"

client12_read_transition(s, mt) ==
  LET h == s.hand_state
      nocert == aNULL(s) \/ aPSK(s)
      full == h = "CR_SRVR_HELLO" /\ ~s.hit
      ske == h \in {"CR_CERT", "CR_CERT_STATUS"} \/ (full /\ nocert)
      skipped == ske /\ ~KeyExchangeNext(s, mt)
      last == \/ h = "CR_SRVR_HELLO" /\ s.hit
              \/ h = "CW_FINISHED"
  IN  CASE h = "CW_CLNT_HELLO" /\ mt = "SERVER_HELLO" -> "CR_SRVR_HELLO"
        [] last /\ s.ticket_expected /\ mt = "NEWSESSION_TICKET" -> "CR_SESSION_TICKET"
        [] last /\ ~s.ticket_expected /\ mt = "CHANGE_CIPHER_SPEC" -> "CR_CHANGE"
        [] full /\ ~nocert /\ mt = "CERTIFICATE" -> "CR_CERT"
        [] h = "CR_CERT" /\ s.status_expected /\ mt = "CERTIFICATE_STATUS" -> "CR_CERT_STATUS"
        [] ske /\ KeyExchangeNext(s, mt) /\ mt = "SERVER_KEY_EXCHANGE" -> "CR_KEY_EXCH"
        [] /\ skipped \/ h = "CR_KEY_EXCH"
           /\ mt = "CERTIFICATE_REQUEST" /\ cert_req_allowed(s) -> "CR_CERT_REQ"
        [] /\ skipped \/ h \in {"CR_KEY_EXCH", "CR_CERT_REQ"}
           /\ mt = "SERVER_DONE" -> "CR_SRVR_DONE"
        [] h = "CR_SESSION_TICKET" /\ mt = "CHANGE_CIPHER_SPEC" -> "CR_CHANGE"
        [] h = "CR_CHANGE" /\ mt = "FINISHED" -> "CR_FINISHED"
        [] OTHER -> "NONE"

client_read_transition(s, mt) ==
  IF SSL_IS_TLS13(s) THEN client13_read_transition(s, mt)
                     ELSE client12_read_transition(s, mt)

client13_write_transition(s) ==
  LET cert == IF s.cert_req # 0 THEN "CW_CERT" ELSE "CW_FINISHED"
  IN  CASE s.hand_state = "CR_FINISHED" ->
             IF s.opt.compat /\ s.hello_retry_request = "NONE" THEN "CW_CHANGE" ELSE cert
        [] s.hand_state = "CW_CHANGE" -> cert
        [] s.hand_state = "CW_CERT" ->
             IF s.cert_req = 1 THEN "CW_CERT_VRFY" ELSE "CW_FINISHED"
        [] s.hand_state = "CW_CERT_VRFY" -> "CW_FINISHED"
        [] s.hand_state \in {"CR_SESSION_TICKET", "CW_FINISHED"} -> "OK"
        [] s.hand_state = "OK" -> "FINISHED"
        [] OTHER -> "ERROR"

client12_write_transition(s) ==
  CASE s.hand_state = "BEFORE" -> "CW_CLNT_HELLO"
    [] s.hand_state \in {"OK", "CW_CLNT_HELLO"} -> "FINISHED"
    [] s.hand_state = "CR_SRVR_HELLO" ->
         IF s.opt.compat THEN "CW_CHANGE" ELSE "CW_CLNT_HELLO"
    [] s.hand_state = "CR_SRVR_DONE" -> IF s.cert_req # 0 THEN "CW_CERT" ELSE "CW_KEY_EXCH"
    [] s.hand_state = "CW_CERT" -> "CW_KEY_EXCH"
    [] s.hand_state = "CW_KEY_EXCH" -> IF s.cert_req = 1 THEN "CW_CERT_VRFY" ELSE "CW_CHANGE"
    [] s.hand_state = "CW_CERT_VRFY" -> "CW_CHANGE"
    [] s.hand_state = "CW_CHANGE" ->
         IF s.hello_retry_request = "PENDING" THEN "CW_CLNT_HELLO" ELSE "CW_FINISHED"
    [] s.hand_state = "CW_FINISHED" -> IF s.hit THEN "OK" ELSE "FINISHED"
    [] s.hand_state = "CR_FINISHED" -> IF s.hit THEN "CW_CHANGE" ELSE "OK"
    [] OTHER -> "ERROR"

client_write_transition(s) ==
  IF SSL_IS_TLS13(s) THEN client13_write_transition(s) ELSE client12_write_transition(s)

-----------------------------------------------------------------------------
(* Messages the client writes *)

\* The TLSv1.2 suites that ssl_cipher_disabled leaves: none without TLSv1.2.
OldSuites(s) == IF "TLS1_2" \in s.opt.versions THEN {s.opt.cipher} ELSE {}

\* A session of a version that is no longer enabled is not offered.
tls_construct_client_hello(s) ==
  Construct([s EXCEPT !.ticket_expected = FALSE], "CLIENT_HELLO",
            s.opt.versions \cup {s.group, "ems"} \cup OldSuites(s)
              \cup (IF s.opt.session \in s.opt.versions THEN {SessFlag(s.opt.session)} ELSE {})
              \cup (IF s.opt.ticket THEN {"ticket"} ELSE {})
              \cup (IF s.opt.status THEN {"status"} ELSE {}))

\* The flags of a Certificate message holding our chain, if any.
ChainFlags(cert) ==
  CASE cert = "NONE" -> {} [] cert = "TRUSTED" -> {"chain", "trusted"} [] OTHER -> {"chain"}

tls_construct_client_certificate(s) ==
  LET c == Construct(s, "CERTIFICATE", IF s.cert_req = 2 THEN {} ELSE ChainFlags(s.opt.cert))
  IN  IF SSL_IS_TLS13(s) /\ SSL_IS_FIRST_HANDSHAKE(s)
      THEN tls13_change_write(c, "HANDSHAKE") ELSE c

client_construct_message(s) ==
  CASE s.hand_state = "CW_CLNT_HELLO" -> tls_construct_client_hello(s)
    [] s.hand_state = "CW_CHANGE" -> Construct(s, "CHANGE_CIPHER_SPEC", {})
    [] s.hand_state = "CW_CERT" -> tls_construct_client_certificate(s)
    [] s.hand_state = "CW_KEY_EXCH" -> Construct(s, "CLIENT_KEY_EXCHANGE", {})
    [] s.hand_state = "CW_CERT_VRFY" -> Construct(s, "CERTIFICATE_VERIFY", {"ok"})
    [] s.hand_state = "CW_FINISHED" -> tls_construct_finished(s)
    [] OTHER -> ossl_statem_fatal(s, "INTERNAL_ERROR")

client_pre_work(s) ==
  IF s.hand_state = "OK"
  THEN [tls_finish_handshake(s, TRUE, TRUE) EXCEPT !.state = "FINISHED"]
  ELSE client_construct_message(s)

\* Mutation: the last flight stays in the buffering BIO.
client_flushes_hello_only(s) == s.hand_state = "CW_CLNT_HELLO"

client_flushes(s) == s.hand_state \in {"CW_CLNT_HELLO", "CW_FINISHED"}

\* Mutation: TLSv1.3 application data would be written under the handshake key.
client_post_work_no_switch(s) ==
  CASE s.hand_state = "CW_KEY_EXCH" -> ssl_generate_master_secret(s)
    [] s.hand_state = "CW_CHANGE" /\ ~SSL_IS_TLS13(s) /\ s.hello_retry_request # "PENDING" ->
         InstallWrite(s, tls1_key(s, "CLIENT"))
    [] OTHER -> s

client_post_work(s) ==
  CASE s.hand_state = "CW_KEY_EXCH" -> ssl_generate_master_secret(s)
    [] s.hand_state = "CW_CHANGE" /\ ~SSL_IS_TLS13(s) /\ s.hello_retry_request # "PENDING" ->
         InstallWrite(s, tls1_key(s, "CLIENT"))
    [] s.hand_state = "CW_FINISHED" /\ SSL_IS_TLS13(s) -> tls13_change_write(s, "APPLICATION")
    [] OTHER -> s

-----------------------------------------------------------------------------
(* Messages the client reads *)

\* A HelloRetryRequest must ask for a key share other than the one we sent.
tls_process_as_hello_retry_request(s, m) ==
  LET new == (m.flags \cap {"g1", "g2"}) \ {s.group}
      cipher == m.flags \cap Ciphers
      a == [s EXCEPT !.hello_retry_request = "PENDING"]
      b == [a EXCEPT !.enc_write = PlainKey, !.new_cipher = CHOOSE c \in cipher : TRUE]
      c == [b EXCEPT !.group = CHOOSE g \in new : TRUE]
  IN  IF cipher = {} \/ ~(cipher \subseteq OldSuites(s) \cup {"TLS13"})
      THEN ossl_statem_fatal(a, "BAD_CIPHER")
      ELSE IF new = {}
      THEN ossl_statem_fatal(b, "BAD_EXTENSION")
      ELSE FinishedReading(ssl3_finish_mac(create_synthetic_message_hash(c), m.mt, m.flags))

\* ssl_choose_client_version: the version the ServerHello selects, and why
\* it is refused ("NONE" when it is not).
ServerHelloVersion(m) == IF "TLS1_3" \in m.flags THEN "TLS1_3" ELSE "TLS1_2"
\* Mutation: an older version is accepted after a HelloRetryRequest.
choose_client_version_after_retry(s, m) ==
  LET v == ServerHelloVersion(m)
  IN  IF v \notin s.opt.versions THEN "UNSUPPORTED_PROTOCOL"
      ELSE IF v = "TLS1_2" /\ "TLS1_3" \in s.opt.versions /\ "sentinel" \in m.flags
      THEN "INAPPROPRIATE_FALLBACK" ELSE "NONE"

ssl_choose_client_version(s, m) ==
  LET v == ServerHelloVersion(m)
  IN  IF (v # "TLS1_3" /\ s.hello_retry_request # "NONE") \/ v \notin s.opt.versions
      THEN "UNSUPPORTED_PROTOCOL"
      ELSE IF v = "TLS1_2" /\ "TLS1_3" \in s.opt.versions /\ "sentinel" \in m.flags
      THEN "INAPPROPRIATE_FALLBACK" ELSE "NONE"

\* Why the cipher suite of the ServerHello is refused (set_client_ciphersuite).
BadCipher(s, m) ==
  LET cipher == m.flags \cap Ciphers
  IN  IF ServerHelloVersion(m) = "TLS1_3"
      THEN cipher # {"TLS13"} \/ s.new_cipher \notin {"NONE", "TLS13"}
      ELSE cipher # {s.opt.cipher}

\* Extensions that answer nothing we sent, name another key share, or resume a
\* session (all of ours have extended master secrets) without that extension.
BadExtension(s, m) ==
  IF ServerHelloVersion(m) = "TLS1_3"
  THEN \/ "hit" \in m.flags /\ s.opt.session # "TLS1_3"
       \/ s.group \notin m.flags
       \/ m.flags \cap {"ticket", "status", "ems"} # {}
  ELSE \/ "ticket" \in m.flags /\ ~s.opt.ticket
       \/ "status" \in m.flags /\ ~s.opt.status
       \/ "hit" \in m.flags /\ s.opt.session = "TLS1_2" /\ "ems" \notin m.flags

\* A ServerHello of TLSv1.3 changes the key we read with.
tls_process_server_hello(s, m) ==
  LET v == ServerHelloVersion(m)
      why == ssl_choose_client_version(s, m)
      hit == "hit" \in m.flags /\ s.opt.session = v
      a == [s EXCEPT !.version = v, !.hit = hit]
      b == [a EXCEPT !.new_cipher = IF v = "TLS1_3" THEN "TLS13" ELSE s.opt.cipher,
                     !.ticket_expected = "ticket" \in m.flags,
                     !.status_expected = "status" \in m.flags,
                     !.extms = "ems" \in m.flags,
                     !.master_key = IF hit /\ v = "TLS1_2" THEN <<Elem("SESSION", {})>> ELSE @]
  IN  IF "HRR" \in m.flags /\ "TLS1_3" \in s.opt.versions
      THEN tls_process_as_hello_retry_request(s, m)
      ELSE IF why # "NONE" THEN ossl_statem_fatal(s, why)
      ELSE IF BadCipher(s, m) THEN ossl_statem_fatal(a, "BAD_CIPHER")
      ELSE IF BadExtension(s, m) THEN ossl_statem_fatal(a, "BAD_EXTENSION")
      ELSE ContinueReading(IF v = "TLS1_3" THEN tls13_change_read(b, "HANDSHAKE") ELSE b)

tls_process_server_certificate(s, m) ==
  IF "chain" \notin m.flags THEN ossl_statem_fatal(s, "BAD_EXTENSION")
  ELSE IF VerifyPeer(s) /\ "trusted" \notin m.flags
  THEN ossl_statem_fatal(s, "VERIFY_FAILED")
  ELSE ContinueReading([s EXCEPT !.peer = TRUE])

\* Mutation: the signature over the parameters is not checked.
key_exchange_unsigned(s, m) == ContinueReading(s)

\* Only an ephemeral exchange authenticated by a certificate is signed.
tls_process_key_exchange(s, m) ==
  IF s.new_cipher = "DHE" /\ "ok" \notin m.flags
  THEN ossl_statem_fatal(s, "BAD_SIGNATURE") ELSE ContinueReading(s)

\* In TLSv1.3 our certificate is prepared after the server's signature.
tls_process_certificate_request(s) ==
  LET a == [s EXCEPT !.cert_req = 1]
  IN  IF SSL_IS_TLS13(s) THEN ContinueReading(a) ELSE ContinueProcessing(a)

tls_process_new_session_ticket(s) ==
  IF SSL_IS_TLS13(s) THEN FinishedReading(s) ELSE ContinueReading(s)

client_process_message(s, m) ==
  CASE s.hand_state = "CR_SRVR_HELLO" -> tls_process_server_hello(s, m)
    [] s.hand_state = "CR_CERT" -> tls_process_server_certificate(s, m)
    [] s.hand_state = "CR_CERT_VRFY" -> tls_process_cert_verify(s, m)
    [] s.hand_state \in {"CR_CERT_STATUS", "CR_ENCRYPTED_EXTENSIONS"} -> ContinueReading(s)
    [] s.hand_state = "CR_KEY_EXCH" -> tls_process_key_exchange(s, m)
    [] s.hand_state = "CR_CERT_REQ" -> tls_process_certificate_request(s)
    [] s.hand_state = "CR_SRVR_DONE" -> FinishedReading(s)
    [] s.hand_state = "CR_CHANGE" -> tls_process_change_cipher_spec(s)
    [] s.hand_state = "CR_SESSION_TICKET" -> tls_process_new_session_ticket(s)
    [] s.hand_state = "CR_FINISHED" -> tls_process_finished(s, m)
    [] OTHER -> ossl_statem_fatal(s, "INTERNAL_ERROR")

\* Mutation: cert_req is counted up, not set.
prepare_client_certificate_counts(s) ==
  ContinueReading(IF s.opt.cert = "NONE" THEN [s EXCEPT !.cert_req = @ + 2] ELSE s)

\* With no certificate to send, an empty chain answers the request.
tls_prepare_client_certificate(s) ==
  ContinueReading(IF s.opt.cert = "NONE" THEN [s EXCEPT !.cert_req = 2] ELSE s)

client_post_process_message(s) ==
  IF s.hand_state \in {"CR_CERT_VRFY", "CR_CERT_REQ"}
  THEN tls_prepare_client_certificate(s)
  ELSE ossl_statem_fatal(s, "INTERNAL_ERROR")

=============================================================================
