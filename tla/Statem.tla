------------------------------- MODULE Statem -------------------------------
(***************************************************************************)
(* One endpoint of a TLS connection: the message flow machine of statem.c  *)
(* over the record layer's rules for incoming records, driven by           *)
(* SSL_do_handshake and, once the handshake is over, by SSL_read.          *)
(*                                                                         *)
(* s is the SSL object, in the records the transport still has to deliver  *)
(* to it and out the records it has handed to the transport.  Each action  *)
(* is one pass through a sub-state.  A call that would block leaves the    *)
(* object in its sub-state for the next call, which is a stuttering step.  *)
(***************************************************************************)
EXTENDS StatemSrvr

VARIABLES s, in, out
vars == <<s, in, out>>

\* statem_flush, and the flush behind an alert (ssl3_dispatch_alert), push
\* the buffering BIO out to the transport.
Settle(t, flush) ==
  LET push == flush \/ (t.state = "ERROR" /\ t.reason # "ALERT_RECEIVED")
  IN  /\ out' = IF push THEN out \o t.bbio ELSE out
      /\ s' = IF push THEN [t EXCEPT !.bbio = <<>>] ELSE t

-----------------------------------------------------------------------------
(* state_machine() *)

\* tls_setup_handshake starts a new transcript.
tls_setup_handshake(t) ==
  [t EXCEPT !.transcript = <<>>, !.hit = @ /\ t.server,
            !.cert_req = IF t.server THEN @ ELSE 0]

\* state_machine() called in MSG_FLOW_UNINITED or MSG_FLOW_FINISHED.
state_machine_init(t) ==
  LET a == [t EXCEPT !.change_cipher_spec = FALSE, !.state = "WRITING",
                     !.sub = "TRANSITION", !.bbio = <<>>]
  IN  IF t.hand_state = "BEFORE" THEN tls_setup_handshake(a) ELSE a

Start ==
  /\ s.state = "UNINITED"
  /\ s' = state_machine_init(s)
  /\ UNCHANGED <<in, out>>

-----------------------------------------------------------------------------
(* write_state_machine() *)

Writing(sub) == s.state = "WRITING" /\ s.sub = sub

write_transition(t) == IF t.server THEN server_write_transition(t)
                                   ELSE client_write_transition(t)

WriteTransition ==
  /\ Writing("TRANSITION")
  /\ LET h == write_transition(s)
     IN  Settle(CASE h = "ERROR" -> ossl_statem_fatal(s, "INTERNAL_ERROR")
                  [] h = "FINISHED" -> [s EXCEPT !.state = "READING", !.sub = "HEADER"]
                  [] OTHER -> [s EXCEPT !.hand_state = h, !.sub = "PRE_WORK"],
                FALSE)
  /\ UNCHANGED in

\* pre_work, then constructing the message the new state sends.
PreWork ==
  /\ Writing("PRE_WORK")
  /\ Settle(IF s.server THEN server_pre_work(s) ELSE client_pre_work(s), FALSE)
  /\ UNCHANGED in

Send ==
  /\ Writing("SEND")
  /\ s' = [ssl3_do_write(s) EXCEPT !.sub = "POST_WORK"]
  /\ UNCHANGED <<in, out>>

\* The buffering BIO is full, or a flush got only part of it out.
Spill ==
  /\ s.state = "WRITING" /\ s.sub \in {"SEND", "POST_WORK"}
  /\ s.bbio # <<>>
  /\ s' = [s EXCEPT !.bbio = Tail(@)]
  /\ out' = Append(out, Head(s.bbio))
  /\ UNCHANGED in

PostWork ==
  /\ Writing("POST_WORK")
  /\ Settle([(IF s.server THEN server_post_work(s) ELSE client_post_work(s))
               EXCEPT !.sub = "TRANSITION"],
            IF s.server THEN server_flushes(s) ELSE client_flushes(s))
  /\ UNCHANGED in

-----------------------------------------------------------------------------
(* read_state_machine() *)

Reading(sub) == s.state = "READING" /\ s.sub = sub

\* A change_cipher_spec of middlebox compatibility mode is not looked at.
Ignored(t, m) ==
  /\ m.mt = "CHANGE_CIPHER_SPEC" /\ m.key = PlainKey
  /\ SSL_IS_TLS13(t) \/ t.hello_retry_request # "NONE"
  /\ SSL_IS_FIRST_HANDSHAKE(t)

Decrypts(t, m) ==
  \/ m.key = t.enc_read
  \/ m.mt = "ALERT" /\ m.key = PlainKey /\ SSL_IS_TLS13(t) /\ t.plain_alerts

\* Why ssl3_read_bytes refuses a record, "NONE" when it does not.
RecordError(t, m) ==
  IF ~Decrypts(t, m) THEN "BAD_RECORD"
  ELSE IF t.change_cipher_spec /\ m.mt \in {"CHANGE_CIPHER_SPEC", "ALERT"}
  THEN "DATA_BETWEEN_CCS_AND_FINISHED"
  ELSE IF m.mt = "ALERT" /\ t.server /\ t.version = "ANY" THEN "UNEXPECTED_MESSAGE"
  ELSE IF m.mt = "CHANGE_CIPHER_SPEC" /\ SSL_IS_TLS13(t) THEN "CCS_RECEIVED_EARLY"
  ELSE "NONE"

read_transition(t, mt) == IF t.server THEN server_read_transition(t, mt)
                                      ELSE client_read_transition(t, mt)

\* tls_get_message_header and the transition it leads to.
tls_get_message_header(t, m) ==
  LET why == RecordError(t, m)
      h == read_transition(t, m.mt)
      skip == ~t.server /\ t.hand_state # "OK" /\ m.mt = "HELLO_REQUEST"
  IN  IF Ignored(t, m) THEN t
      ELSE IF why # "NONE" THEN ossl_statem_fatal(t, why)
      ELSE IF m.mt = "ALERT" THEN ossl_statem_fatal_no_alert(t, "ALERT_RECEIVED")
      ELSE IF skip THEN t
      ELSE IF h = "NONE" THEN ossl_statem_fatal(t, "UNEXPECTED_MESSAGE")
      ELSE [t EXCEPT !.hand_state = h, !.init_msg = m, !.sub = "BODY"]

ReadHeader ==
  /\ Reading("HEADER")
  /\ in # <<>>
  /\ in' = Tail(in)
  /\ Settle(tls_get_message_header(s, Head(in)), FALSE)

ReadBody ==
  /\ Reading("BODY")
  /\ LET t == tls_get_message_body(s)
     IN  Settle(IF t.server THEN server_process_message(t, t.init_msg)
                            ELSE client_process_message(t, t.init_msg), FALSE)
  /\ UNCHANGED in

PostProcess ==
  /\ Reading("POST_PROCESS")
  /\ Settle(IF s.server THEN server_post_process_message(s, s.init_msg)
                        ELSE client_post_process_message(s), FALSE)
  /\ UNCHANGED in

\* SSL_read after the handshake: an alert ends the connection, a handshake
\* message of TLSv1.3 re-enters the state machine, which will read it.
SslRead ==
  /\ s.state = "FINISHED"
  /\ in # <<>>
  /\ LET m == Head(in)
         why == RecordError(s, m)
     IN  \/ /\ why # "NONE"
            /\ Settle(ossl_statem_fatal(s, why), FALSE)
            /\ in' = Tail(in)
         \/ /\ why = "NONE" /\ m.mt = "ALERT"
            /\ Settle(ossl_statem_fatal_no_alert(s, "ALERT_RECEIVED"), FALSE)
            /\ in' = Tail(in)
         \/ /\ why = "NONE" /\ m.mt # "ALERT" /\ SSL_IS_TLS13(s)
            /\ s' = state_machine_init([s EXCEPT !.in_init = TRUE])
            /\ UNCHANGED <<in, out>>

EndpointNext ==
  \/ Start
  \/ WriteTransition
  \/ PreWork
  \/ Send
  \/ Spill
  \/ PostWork
  \/ ReadHeader
  \/ ReadBody
  \/ PostProcess
  \/ SslRead

=============================================================================
