----------------------------- MODULE StatemLib ------------------------------
(***************************************************************************)
(* What client and server share: the handshake messages that both sides    *)
(* build and process (statem_lib.c), the transcript hash, and the traffic  *)
(* keys of t1_enc.c and tls13_enc.c.  Every operator takes the SSL object  *)
(* and returns it as the C function leaves it; a failure returns it in the *)
(* error state.                                                            *)
(***************************************************************************)
EXTENDS SslLocal

\* MSG_PROCESS_CONTINUE_READING, _CONTINUE_PROCESSING and _FINISHED_READING:
\* how read_state_machine and state_machine move on after process_message.
ContinueReading(s) == [s EXCEPT !.sub = "HEADER"]
ContinueProcessing(s) == [s EXCEPT !.sub = "POST_PROCESS"]
FinishedReading(s) == [s EXCEPT !.state = "WRITING", !.sub = "TRANSITION"]

\* ssl3_finish_mac: feed one message into the transcript.
ssl3_finish_mac(s, mt, flags) == [s EXCEPT !.transcript = Append(@, Elem(mt, flags))]

\* The transcript so far becomes one synthetic message_hash message.
create_synthetic_message_hash(s) ==
  [s EXCEPT !.transcript =
     << Elem("MESSAGE_HASH", UNION {s.transcript[i].flags : i \in DOMAIN s.transcript}) >>]

-----------------------------------------------------------------------------
(* Traffic keys *)

InstallRead(s, k) == [s EXCEPT !.enc_read = k]
InstallWrite(s, k) == [s EXCEPT !.enc_write = k]

\* The randoms of the hellos, of which the model has the downgrade sentinel.
Random(s) ==
  Elem("RANDOM", {"sentinel"} \cap UNION {s.transcript[i].flags : i \in DOMAIN s.transcript})

\* TLSv1.2: one key per direction, from the master secret and the randoms.
tls1_key(s, writer) ==
  [epoch |-> "TLS1_2", writer |-> writer, secret |-> Append(s.master_key, Random(s))]

\* TLSv1.3, a key the client writes with: derived from the hash saved when
\* the server's key of the same epoch was derived.
ClientKey13(s, epoch) ==
  [epoch |-> epoch, writer |-> "CLIENT",
   secret |-> IF epoch = "HANDSHAKE" THEN s.handshake_traffic_hash
                                     ELSE s.server_finished_hash]

\* TLSv1.3, a key the server writes with: derived from the transcript now.
ServerKey13(s, epoch) ==
  [epoch |-> epoch, writer |-> "SERVER", secret |-> s.transcript]

SaveHash(s, epoch) ==
  IF epoch = "HANDSHAKE" THEN [s EXCEPT !.handshake_traffic_hash = s.transcript]
                         ELSE [s EXCEPT !.server_finished_hash = s.transcript]

tls13_change_write(s, epoch) ==
  IF s.server THEN InstallWrite(SaveHash(s, epoch), ServerKey13(s, epoch))
              ELSE InstallWrite(s, ClientKey13(s, epoch))

tls13_change_read(s, epoch) ==
  IF s.server THEN InstallRead(s, ClientKey13(s, epoch))
              ELSE InstallRead(SaveHash(s, epoch), ServerKey13(s, epoch))

\* The extended master secret is bound to the transcript up to the
\* ClientKeyExchange, the other one to the premaster secret and the randoms.
ssl_generate_master_secret(s) ==
  [s EXCEPT !.master_key = IF s.extms THEN s.transcript
                                      ELSE <<Elem("PREMASTER", {}), Random(s)>>]

\* The verify_data `sender` puts in its Finished, as `s` computes it.
final_finish_mac(s, sender) ==
  [sender |-> sender,
   secret |-> IF SSL_IS_TLS13(s) THEN s.handshake_traffic_hash ELSE s.master_key,
   hash |-> s.transcript]

-----------------------------------------------------------------------------
(* Messages *)

\* Put the message just constructed into init_buf.
Construct(s, mt, flags) ==
  [s EXCEPT !.sub = "SEND",
            !.init_msg = [mt |-> mt, flags |-> flags, mac |-> NoMac, key |-> PlainKey]]

\* Mutation: no change to the handshake write key.
finished_under_old_key(s) ==
  LET a == [s EXCEPT !.cleanuphand = s.cleanuphand \/ ~s.server, !.finish_md = TRUE]
  IN  [Construct(a, "FINISHED", {}) EXCEPT !.init_msg.mac = final_finish_mac(a, Side(a))]

\* A TLSv1.3 client that was not asked for a certificate moves to its
\* handshake write key here.
tls_construct_finished(s) ==
  LET a == [s EXCEPT !.cleanuphand = s.cleanuphand \/ ~s.server, !.finish_md = TRUE]
      b == IF SSL_IS_TLS13(s) /\ ~s.server /\ s.cert_req = 0
           THEN tls13_change_write(a, "HANDSHAKE") ELSE a
  IN  [Construct(b, "FINISHED", {}) EXCEPT !.init_msg.mac = final_finish_mac(b, Side(b))]

\* A change_cipher_spec of TLSv1.2: the peer writes under the new keys next.
tls_process_change_cipher_spec(s) ==
  IF s.new_cipher = "NONE" THEN ossl_statem_fatal(s, "CCS_RECEIVED_EARLY")
  ELSE IF s.master_key = <<>>
       THEN ossl_statem_fatal([s EXCEPT !.change_cipher_spec = TRUE], "INTERNAL_ERROR")
       ELSE ContinueReading(InstallRead([s EXCEPT !.change_cipher_spec = TRUE],
                                        tls1_key(s, PeerSide(s))))

\* Mutation: any signature will do.
cert_verify_unchecked(s, m) ==
  IF ~s.server /\ SSL_IS_TLS13(s) /\ s.cert_req = 1
  THEN ContinueProcessing(s) ELSE ContinueReading(s)

tls_process_cert_verify(s, m) ==
  IF "ok" \notin m.flags THEN ossl_statem_fatal(s, "BAD_SIGNATURE")
  ELSE IF ~s.server /\ SSL_IS_TLS13(s) /\ s.cert_req = 1
       THEN ContinueProcessing(s) ELSE ContinueReading(s)

\* Mutations: the verify_data is not compared; the tolerance of plaintext
\* alerts is not ended.
finished_unchecked(s, m) ==
  LET a == [s EXCEPT !.plain_alerts = s.plain_alerts /\ ~s.server, !.change_cipher_spec = FALSE,
                     !.cleanuphand = s.cleanuphand \/ s.server]
  IN  FinishedReading(IF SSL_IS_TLS13(s) THEN tls13_change_read(a, "APPLICATION") ELSE a)

finished_keeps_plain_alerts(s, m) ==
  LET a == [s EXCEPT !.change_cipher_spec = FALSE, !.cleanuphand = s.cleanuphand \/ s.server]
  IN  IF m.mac # s.peer_mac THEN ossl_statem_fatal(a, "DIGEST_CHECK_FAILED")
      ELSE FinishedReading(IF SSL_IS_TLS13(s) THEN tls13_change_read(a, "APPLICATION") ELSE a)

\* s.peer_mac was computed by ssl3_take_mac before the Finished was hashed.
tls_process_finished(s, m) ==
  LET a == [s EXCEPT !.plain_alerts = s.plain_alerts /\ ~s.server,
                     !.cleanuphand = s.cleanuphand \/ s.server]
      b == [a EXCEPT !.change_cipher_spec = FALSE]
  IN  CASE ~SSL_IS_TLS13(s) /\ ~s.change_cipher_spec ->
             ossl_statem_fatal(a, "GOT_A_FIN_BEFORE_A_CCS")
        [] (SSL_IS_TLS13(s) \/ s.change_cipher_spec) /\ m.mac # s.peer_mac ->
             ossl_statem_fatal(b, "DIGEST_CHECK_FAILED")
        [] OTHER ->
             FinishedReading(IF SSL_IS_TLS13(s) THEN tls13_change_read(b, "APPLICATION")
                                                ELSE b)

\* clearbufs: ssl_free_wbio_buffer pops the buffering BIO and frees it with
\* whatever it still holds.  stop: the handshake is over for the caller.
tls_finish_handshake(s, clearbufs, stop) ==
  [s EXCEPT !.bbio = IF clearbufs THEN <<>> ELSE @,
            !.ticket_expected = @ /\ ~s.cleanuphand,
            !.cleanuphand = FALSE,
            !.in_init = ~stop]

\* tls_get_message_body: hash the message, taking the MAC expected in a
\* Finished first.  A HelloRetryRequest is hashed when it is processed.
tls_get_message_body(s) ==
  LET m == s.init_msg
      a == IF m.mt = "FINISHED"
           THEN [s EXCEPT !.peer_mac = final_finish_mac(s, PeerSide(s)),
                          !.peer_finish_md = TRUE] ELSE s
      skip == \/ m.mt = "CHANGE_CIPHER_SPEC"
              \/ m.mt = "NEWSESSION_TICKET" /\ SSL_IS_TLS13(s)
              \/ m.mt = "SERVER_HELLO" /\ "HRR" \in m.flags
  IN  IF skip THEN a ELSE ssl3_finish_mac(a, m.mt, m.flags)

\* ssl3_do_write: protect the message, append it to the buffering BIO and
\* hash it, unless it is a change_cipher_spec or a TLSv1.3 ticket.
ssl3_do_write(s) ==
  LET m == s.init_msg
      w == [s EXCEPT !.bbio = Append(@, [m EXCEPT !.key = s.enc_write])]
      skip == \/ m.mt = "CHANGE_CIPHER_SPEC"
              \/ m.mt = "NEWSESSION_TICKET" /\ SSL_IS_TLS13(s)
  IN  IF skip THEN w ELSE ssl3_finish_mac(w, m.mt, m.flags)

=============================================================================
