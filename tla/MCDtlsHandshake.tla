-------------------------- MODULE MCDtlsHandshake ---------------------------
(***************************************************************************)
(* A full, an abbreviated and a cookie handshake.  ServerHello has three    *)
(* units: two fragments at first, three after the MTU was reduced, which a  *)
(* first timeout does here.  One fault for each script; a ChangeCipherSpec  *)
(* that overtakes the message before it is lost as well, any number of      *)
(* times.                                                                   *)
(***************************************************************************)
EXTENDS DtlsHandshake

Msg(by, kind, length, timed, last) ==
    [by |-> by, kind |-> kind, length |-> length, timer |-> timed, last |-> last]

Hello(last) == Msg("client", "message", 1, TRUE, last)
Ccs(by, timed) == Msg(by, "change_cipher_spec", 1, timed, FALSE)
Finished(by, timed) == Msg(by, "finished", 1, timed, TRUE)

\* ClientHello; ServerHello and Certificate, then ServerHelloDone; the client's key
\* exchange, ChangeCipherSpec and Finished; the server's.
Full == <<Hello(TRUE),
          Msg("server", "message", 3, TRUE, FALSE), Msg("server", "message", 1, TRUE, TRUE),
          Msg("client", "message", 1, TRUE, FALSE), Ccs("client", TRUE), Finished("client", TRUE),
          Ccs("server", FALSE), Finished("server", FALSE)>>

\* An abbreviated handshake: the server's timer is started for its ServerHello.
Resumed == <<Hello(TRUE),
             Msg("server", "message", 1, TRUE, FALSE), Ccs("server", FALSE), Finished("server", FALSE),
             Ccs("client", FALSE), Finished("client", FALSE)>>

\* With a cookie in front.
Cookie == <<Hello(TRUE), Msg("server", "hello_verify_request", 1, FALSE, TRUE)>> \o Resumed

MCScripts == {Full, Resumed, Cookie}

MCFaults == [s \in MCScripts |-> 1]
=============================================================================
