---------------------------- MODULE MCDtlsRecord -----------------------------
(***************************************************************************)
(* Three epochs of three records each, a window of two bits and queues of   *)
(* two records.  Every record may come alone, intact or damaged, and the    *)
(* ones that a flight packs together also come in one datagram.             *)
(***************************************************************************)
EXTENDS DtlsRecord

MCRecordType ==
    [i \in Ids |-> CASE i \in {<<0, 1>>, <<1, 2>>} -> "change_cipher_spec"
                     [] i = <<1, 1>> -> "application_data"
                     [] i = <<2, 2>> -> "alert"
                     [] OTHER -> "handshake"]

Sent(e, n) == [epoch |-> e, seq |-> n, genuine |-> TRUE]

MCDatagrams ==
    {<<r>> : r \in Records}
    \cup {<<Sent(0, 1), Sent(1, 0)>>, <<Sent(1, 2), Sent(2, 0)>>,
          <<Sent(1, 0), Sent(1, 1)>>, <<Sent(2, 0), Sent(2, 2)>>}
=============================================================================
