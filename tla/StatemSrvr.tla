----------------------------- MODULE StatemSrvr -----------------------------
(***************************************************************************)
(* The server's half of the handshake state machine (statem_srvr.c), with  *)
(* the results of transitions encoded as in StatemClnt.  TLS_ST_EARLY_DATA *)
(* is a state in which nothing is sent: the server waits in it for the     *)
(* second flight (early data itself is not modelled).                      *)
(***************************************************************************)
EXTENDS StatemClnt

server13_read_transition(s, mt) ==
  LET h == s.hand_state
      second == h \in {"EARLY_DATA", "SW_FINISHED"}
                  /\ ~(h = "EARLY_DATA" /\ s.hello_retry_request = "PENDING")
  IN  CASE /\ h = "EARLY_DATA" /\ s.hello_retry_request = "PENDING"
           /\ mt = "CLIENT_HELLO" -> "SR_CLNT_HELLO"
        [] second /\ s.cert_request /\ mt = "CERTIFICATE" -> "SR_CERT"
        [] second /\ ~s.cert_request /\ mt = "FINISHED" -> "SR_FINISHED"
        [] h = "SR_CERT" /\ ~s.peer /\ mt = "FINISHED" -> "SR_FINISHED"
        [] h = "SR_CERT" /\ s.peer /\ mt = "CERTIFICATE_VERIFY" -> "SR_CERT_VRFY"
        [] h = "SR_CERT_VRFY" /\ mt = "FINISHED" -> "SR_FINISHED"
        [] OTHER -> "NONE"

server12_read_transition(s, mt) ==
  LET at(h, t) == s.hand_state = h /\ mt = t
  IN  CASE at("BEFORE", "CLIENT_HELLO") -> "SR_CLNT_HELLO"
        [] at("SW_SRVR_DONE", "CLIENT_KEY_EXCHANGE") /\ ~s.cert_request -> "SR_KEY_EXCH"
        [] at("SW_SRVR_DONE", "CERTIFICATE") /\ s.cert_request -> "SR_CERT"
        [] at("SR_CERT", "CLIENT_KEY_EXCHANGE") -> "SR_KEY_EXCH"
        [] at("SR_KEY_EXCH", "CHANGE_CIPHER_SPEC") /\ ~s.peer -> "SR_CHANGE"
        [] at("SR_KEY_EXCH", "CERTIFICATE_VERIFY") /\ s.peer -> "SR_CERT_VRFY"
        [] at("SR_CERT_VRFY", "CHANGE_CIPHER_SPEC") -> "SR_CHANGE"
        [] at("SR_CHANGE", "FINISHED") -> "SR_FINISHED"
        [] at("SW_FINISHED", "CHANGE_CIPHER_SPEC") -> "SR_CHANGE"
        [] OTHER -> "NONE"

server_read_transition(s, mt) ==
  IF SSL_IS_TLS13(s) THEN server13_read_transition(s, mt)
                     ELSE server12_read_transition(s, mt)

send_server_key_exchange(s) ==
  kEphemeral(s) \/ (s.new_cipher \in {"PSK", "RSAPSK"} /\ s.opt.hint)

send_certificate_request(s) ==
  /\ VerifyPeer(s)
  /\ aNULL(s) => s.opt.verify = "FAIL"
  /\ ~aPSK(s)

server13_write_transition(s) ==
  LET h == s.hand_state
      hrr == s.hello_retry_request
      after_hello == IF hrr = "PENDING" THEN "EARLY_DATA" ELSE "SW_ENCRYPTED_EXTENSIONS"
  IN  CASE h = "SR_CLNT_HELLO" -> "SW_SRVR_HELLO"
        [] h = "SW_SRVR_HELLO" ->
             IF s.opt.compat /\ hrr # "COMPLETE" THEN "SW_CHANGE" ELSE after_hello
        [] h = "SW_CHANGE" -> after_hello
        [] h = "SW_ENCRYPTED_EXTENSIONS" ->
             IF s.hit THEN "SW_FINISHED"
             ELSE IF send_certificate_request(s) THEN "SW_CERT_REQ" ELSE "SW_CERT"
        [] h = "SW_CERT_REQ" -> "SW_CERT"
        [] h = "SW_CERT" -> "SW_CERT_VRFY"
        [] h = "SW_CERT_VRFY" -> "SW_FINISHED"
        [] h = "SW_FINISHED" -> "EARLY_DATA"
        [] h \in {"EARLY_DATA", "OK"} -> "FINISHED"
        [] h = "SR_FINISHED" ->
             IF s.ticket_expected /\ s.opt.num_tickets > s.sent_tickets
             THEN "SW_SESSION_TICKET" ELSE "OK"
        [] h = "SW_SESSION_TICKET" ->
             IF s.hit \/ s.opt.num_tickets <= s.sent_tickets THEN "OK" ELSE h
        [] OTHER -> "ERROR"

server12_write_transition(s) ==
  LET h == s.hand_state
      ticket_or_change == IF s.ticket_expected THEN "SW_SESSION_TICKET" ELSE "SW_CHANGE"
      req_or_done == IF send_certificate_request(s) THEN "SW_CERT_REQ" ELSE "SW_SRVR_DONE"
      ske_or_later == IF send_server_key_exchange(s) THEN "SW_KEY_EXCH" ELSE req_or_done
  IN  CASE h \in {"BEFORE", "OK", "SW_SRVR_DONE"} -> "FINISHED"
        [] h = "SR_CLNT_HELLO" -> "SW_SRVR_HELLO"
        [] h = "SW_SRVR_HELLO" ->
             IF s.hit THEN ticket_or_change
             ELSE IF aNULL(s) \/ aPSK(s) THEN ske_or_later ELSE "SW_CERT"
        [] h = "SW_CERT" -> IF s.status_expected THEN "SW_CERT_STATUS" ELSE ske_or_later
        [] h = "SW_CERT_STATUS" -> ske_or_later
        [] h = "SW_KEY_EXCH" -> req_or_done
        [] h = "SW_CERT_REQ" -> "SW_SRVR_DONE"
        [] h = "SR_FINISHED" -> IF s.hit THEN "OK" ELSE ticket_or_change
        [] h = "SW_SESSION_TICKET" -> "SW_CHANGE"
        [] h = "SW_CHANGE" -> "SW_FINISHED"
        [] h = "SW_FINISHED" -> IF s.hit THEN "FINISHED" ELSE "OK"
        [] OTHER -> "ERROR"

server_write_transition(s) ==
  IF SSL_IS_TLS13(s) THEN server13_write_transition(s) ELSE server12_write_transition(s)

-----------------------------------------------------------------------------
(* Messages the server writes *)

\* check_for_downgrade: the random tells a TLSv1.3 client that we could have
\* spoken TLSv1.3 as well.
Sentinel(s) == IF s.version = "TLS1_2" /\ "TLS1_3" \in s.opt.versions THEN {"sentinel"} ELSE {}

\* A HelloRetryRequest drops the session and restarts the transcript.
tls_construct_server_hello(s) ==
  IF s.hello_retry_request = "PENDING"
  THEN Construct(create_synthetic_message_hash([s EXCEPT !.hit = FALSE]),
                 "SERVER_HELLO", {"HRR", "TLS13", s.group})
  ELSE Construct(s, "SERVER_HELLO",
         {s.version, s.new_cipher} \cup (IF s.hit THEN {"hit"} ELSE {})
           \cup (IF SSL_IS_TLS13(s) THEN {s.group}
                 ELSE Sentinel(s)
                        \cup (IF s.ticket_expected THEN {"ticket"} ELSE {})
                        \cup (IF s.status_expected THEN {"status"} ELSE {})
                        \cup (IF s.extms THEN {"ems"} ELSE {})))

tls_construct_certificate_request(s) ==
  Construct([s EXCEPT !.cert_request = TRUE], "CERTIFICATE_REQUEST", {})

tls_construct_new_session_ticket(s) ==
  Construct(IF SSL_IS_TLS13(s) THEN [s EXCEPT !.sent_tickets = @ + 1] ELSE s,
            "NEWSESSION_TICKET", {})

server_construct_message(s) ==
  LET h == s.hand_state
  IN  CASE h = "SW_SRVR_HELLO" -> tls_construct_server_hello(s)
        [] h = "SW_CHANGE" -> Construct(s, "CHANGE_CIPHER_SPEC", {})
        [] h = "SW_ENCRYPTED_EXTENSIONS" -> Construct(s, "ENCRYPTED_EXTENSIONS", {})
        [] h = "SW_CERT" -> Construct(s, "CERTIFICATE", ChainFlags(s.opt.cert))
        [] h = "SW_CERT_VRFY" -> Construct(s, "CERTIFICATE_VERIFY", {"ok"})
        [] h = "SW_CERT_STATUS" -> Construct(s, "CERTIFICATE_STATUS", {})
        [] h = "SW_KEY_EXCH" -> Construct(s, "SERVER_KEY_EXCHANGE", {"ok"})
        [] h = "SW_CERT_REQ" -> tls_construct_certificate_request(s)
        [] h = "SW_SRVR_DONE" -> Construct(s, "SERVER_DONE", {})
        [] h = "SW_SESSION_TICKET" -> tls_construct_new_session_ticket(s)
        [] h = "SW_FINISHED" -> tls_construct_finished(s)
        [] h = "EARLY_DATA" -> [s EXCEPT !.sub = "POST_WORK"]
        [] OTHER -> ossl_statem_fatal(s, "INTERNAL_ERROR")

\* With the first TLSv1.3 ticket the handshake is over, but the buffering
\* BIO stays; otherwise it is over, and the BIO freed, in TLS_ST_OK.
server_pre_work(s) ==
  CASE s.hand_state = "OK" ->
         [tls_finish_handshake(s, TRUE, TRUE) EXCEPT !.state = "FINISHED"]
    [] s.hand_state = "SW_SESSION_TICKET" /\ SSL_IS_TLS13(s) /\ s.sent_tickets = 0 ->
         server_construct_message(tls_finish_handshake(s, FALSE, FALSE))
    [] OTHER -> server_construct_message(s)

\* Mutation: a flight is not flushed where it ends, at ServerHelloDone.
server_flushes_not_done(s) ==
  \/ s.hand_state \in {"SW_SRVR_HELLO", "SW_CHANGE"} /\ s.hello_retry_request = "PENDING"
  \/ s.hand_state = "SW_FINISHED"
  \/ s.hand_state = "SW_SESSION_TICKET" /\ SSL_IS_TLS13(s)

server_flushes(s) ==
  LET hrr == SSL_IS_TLS13(s) /\ s.hello_retry_request = "PENDING"
  IN  \/ s.hand_state = "SW_SRVR_HELLO" /\ hrr /\ ~s.opt.compat
      \/ s.hand_state = "SW_CHANGE" /\ s.hello_retry_request = "PENDING"
      \/ s.hand_state \in {"SW_SRVR_DONE", "SW_FINISHED"}
      \/ s.hand_state = "SW_SESSION_TICKET" /\ SSL_IS_TLS13(s)

\* After its ServerHello (and change_cipher_spec, if one follows) a TLSv1.3
\* server writes and reads under the handshake keys, and tolerates an alert
\* from a client that does not have them yet.
HandshakeKeys(s) ==
  [tls13_change_read(tls13_change_write(s, "HANDSHAKE"), "HANDSHAKE")
     EXCEPT !.plain_alerts = TRUE]

server_post_work(s) ==
  LET hello == s.hand_state = "SW_SRVR_HELLO" /\ SSL_IS_TLS13(s)
                 /\ ~(s.opt.compat /\ s.hello_retry_request # "COMPLETE")
      change == s.hand_state = "SW_CHANGE"
  IN  CASE (hello \/ change) /\ SSL_IS_TLS13(s) /\ s.hello_retry_request # "PENDING" ->
             HandshakeKeys(s)
        [] change /\ ~SSL_IS_TLS13(s) /\ s.hello_retry_request # "PENDING" ->
             InstallWrite(s, tls1_key(s, "SERVER"))
        [] s.hand_state = "SW_FINISHED" /\ SSL_IS_TLS13(s) ->
             tls13_change_write(s, "APPLICATION")
        [] OTHER -> s

-----------------------------------------------------------------------------
(* Messages the server reads *)

\* Mutations: the version of the record is taken when there is none in common;
\* the second ClientHello may move to an older version.
choose_server_version_any(s, m) ==
  LET common == m.flags \cap s.opt.versions
  IN  IF "TLS1_3" \in common THEN "TLS1_3" ELSE IF common = {} THEN "SSL3" ELSE "TLS1_2"

choose_server_version_after_retry(s, m) ==
  LET common == m.flags \cap s.opt.versions
  IN  IF "TLS1_3" \in common THEN "TLS1_3" ELSE IF common = {} THEN "NONE" ELSE "TLS1_2"

\* ssl_choose_server_version: the best common version, or "NONE".
ssl_choose_server_version(s, m) ==
  LET common == m.flags \cap s.opt.versions
  IN  IF "TLS1_3" \in common THEN "TLS1_3"
      ELSE IF common = {} \/ s.hello_retry_request # "NONE" THEN "NONE" ELSE "TLS1_2"

\* final_key_share: with no share we can use, ask once for the group we want; the
\* answer must hold that share and no other (tls_parse_ctos_key_share).
final_key_share(s, m) ==
  LET offered == m.flags \cap {"g1", "g2"}
      usable == offered \cap s.opt.groups
  IN  IF s.hello_retry_request = "PENDING" /\ offered # {s.group}
      THEN ossl_statem_fatal(s, "BAD_KEY_SHARE")
      ELSE IF usable # {}
      THEN [s EXCEPT !.group = CHOOSE g \in usable : TRUE,
                     !.hello_retry_request = IF @ = "PENDING" THEN "COMPLETE" ELSE @]
      ELSE IF s.hello_retry_request = "NONE" /\ offered # {}
      THEN [s EXCEPT !.group = CHOOSE g \in s.opt.groups : TRUE,
                     !.hello_retry_request = "PENDING"]
      ELSE ossl_statem_fatal(s, "NO_SUITABLE_KEY_SHARE")

\* Version, session, cipher suite, key share and extensions are chosen once
\* the ClientHello is read.
tls_post_process_client_hello(s, m) ==
  LET v == ssl_choose_server_version(s, m)
      hit == SessFlag(v) \in m.flags /\ s.opt.session = v
      fresh == ~hit \/ s.opt.renew
      a == [s EXCEPT !.version = v, !.hit = hit]
      b12 == [a EXCEPT !.new_cipher = s.opt.cipher, !.extms = "ems" \in m.flags,
                       !.ticket_expected = "ticket" \in m.flags /\ s.opt.ticket /\ fresh,
                       !.status_expected = /\ "status" \in m.flags /\ s.opt.status /\ ~hit
                                           /\ s.opt.cipher \in {"RSA", "DHE", "RSAPSK"},
                       !.master_key = IF hit THEN <<Elem("SESSION", {})>> ELSE @]
      b13 == final_key_share([a EXCEPT !.new_cipher = "TLS13", !.ticket_expected = fresh], m)
  IN  IF v = "NONE" THEN ossl_statem_fatal(s, "UNSUPPORTED_PROTOCOL")
      ELSE IF v = "TLS1_2"
      THEN IF hit /\ "ems" \notin m.flags THEN ossl_statem_fatal(s, "BAD_EXTENSION")
           ELSE IF s.opt.cipher \in m.flags THEN FinishedReading(b12)
           ELSE ossl_statem_fatal(a, "BAD_CIPHER")
      ELSE IF b13.state = "ERROR" THEN b13 ELSE FinishedReading(b13)

\* Mutation: an empty chain is accepted in every verify mode.
client_certificate_optional(s, m) ==
  IF "chain" \in m.flags /\ "trusted" \notin m.flags
  THEN ossl_statem_fatal([s EXCEPT !.plain_alerts = FALSE], "VERIFY_FAILED")
  ELSE ContinueReading([s EXCEPT !.plain_alerts = FALSE, !.peer = "chain" \in m.flags])

\* An empty chain is refused only under SSL_VERIFY_FAIL_IF_NO_PEER_CERT.
tls_process_client_certificate(s, m) ==
  LET a == [s EXCEPT !.plain_alerts = FALSE]
      chain == "chain" \in m.flags
  IN  IF ~chain /\ s.opt.verify = "FAIL" THEN ossl_statem_fatal(a, "NO_PEER_CERTIFICATE")
      ELSE IF chain /\ "trusted" \notin m.flags THEN ossl_statem_fatal(a, "VERIFY_FAILED")
      ELSE ContinueReading([a EXCEPT !.peer = chain,
                                     !.sent_tickets = IF SSL_IS_TLS13(s) THEN 0 ELSE @])

tls_process_client_key_exchange(s) == ContinueProcessing(ssl_generate_master_secret(s))

server_process_message(s, m) ==
  CASE s.hand_state = "SR_CLNT_HELLO" -> ContinueProcessing(s)
    [] s.hand_state = "SR_CERT" -> tls_process_client_certificate(s, m)
    [] s.hand_state = "SR_KEY_EXCH" -> tls_process_client_key_exchange(s)
    [] s.hand_state = "SR_CERT_VRFY" -> tls_process_cert_verify(s, m)
    [] s.hand_state = "SR_CHANGE" -> tls_process_change_cipher_spec(s)
    [] s.hand_state = "SR_FINISHED" -> tls_process_finished(s, m)
    [] OTHER -> ossl_statem_fatal(s, "INTERNAL_ERROR")

server_post_process_message(s, m) ==
  CASE s.hand_state = "SR_CLNT_HELLO" -> tls_post_process_client_hello(s, m)
    [] s.hand_state = "SR_KEY_EXCH" -> ContinueReading(s)
    [] OTHER -> ossl_statem_fatal(s, "INTERNAL_ERROR")

=============================================================================
