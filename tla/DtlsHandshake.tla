---------------------------- MODULE DtlsHandshake ----------------------------
(***************************************************************************)
(* The DTLS handshake over a network that loses, delays and reorders        *)
(* (ssl/statem/statem_dtls.c, ssl/d1_lib.c, the parts of rec_layer_d1.c     *)
(* that serve them).  Which messages make up a handshake, in which flights, *)
(* is the business of the message flow state machine and a parameter here:  *)
(* a script.  This module is about getting the script across: message       *)
(* numbers, fragments and their reassembly, the retransmission queue and    *)
(* timer, and the epochs and record numbers retransmissions go out under.   *)
(* A record is delivered at most once and a record of the next epoch waits  *)
(* for it, which is what module DtlsRecord shows of the record layer.       *)
(***************************************************************************)
EXTENDS Integers, Sequences, FiniteSets

CONSTANTS
    Scripts,        \* the handshakes to run
    AlertCount,     \* DTLS1_TMO_ALERT_COUNT (12): the timeouts before giving up
    ReduceAfter,    \* the timeouts after which the MTU is reduced (2)
    Mtu,            \* the units of a message that fit a record at first ...
    FallbackMtu,    \* ... and after the reduction
    Faults          \* bound, for each script: the records the network may lose and
                    \* the timers that may run out with records still under way

Ends == {"client", "server"}
Peer(e) == IF e = "client" THEN "server" ELSE "client"
Kinds == {"message", "hello_verify_request", "change_cipher_spec", "finished"}

\* A message of a script: who sends it, its length in units, whether the timer
\* is started for it (st->use_timer) and whether it ends its flight.
ScriptMessages ==
    [by : Ends, kind : Kinds, length : Nat \ {0}, timer : BOOLEAN, last : BOOLEAN]

ASSUME ScriptAssumption ==
    /\ Scripts \subseteq Seq(ScriptMessages)
    /\ AlertCount \in Nat /\ ReduceAfter \in Nat
    /\ Mtu \in Nat \ {0} /\ FallbackMtu \in 1..Mtu
    /\ Faults \in [Scripts -> Nat]

\* A handshake changes the keys of each side once, and a ChangeCipherSpec comes after
\* a message of the same side (the transitions of the message flow state machine).
ASSUME CcsAssumption ==
    \A s \in Scripts : \A i \in 1..Len(s) :
        s[i].kind = "change_cipher_spec" =>
            /\ \A j \in 1..Len(s) : s[j].kind = s[i].kind /\ s[j].by = s[i].by => j = i
            /\ \E j \in 1..(i - 1) : s[j].kind # s[i].kind /\ s[j].by = s[i].by

VARIABLES
    script,
    pos,            \* pos[e]: the message of the script e writes or waits for next
    write_seq,      \* next_handshake_write_seq
    read_seq,       \* handshake_read_seq
    sent,           \* sent_messages, in the order of its priorities
    buffered,       \* buffered_messages
    out,            \* the writing half of the record layer: its epoch and record numbers
    r_epoch,
    timer,          \* the retransmission timer runs
    num_alerts,     \* timeout.num_alerts
    mtu,
    failed,         \* why e gave up, "" if it did not
    net,            \* the records under way
    used,           \* history: the record numbers e has used, per epoch
    reused,         \* history: a number was used a second time
    faults          \* what is left of the bound

evars == <<pos, write_seq, read_seq, sent, buffered, r_epoch, timer, num_alerts, mtu, failed>>
wvars == <<out, net, used, reused>>
bvars == <<script, faults>>
vars == <<evars, wvars, bvars>>

Done(e) == pos[e] > Len(script)
Writing(e) == ~Done(e) /\ script[pos[e]].by = e
Reading(e) == ~Done(e) /\ script[pos[e]].by # e

----------------------------------------------------------------------------
(* Writing records.                                                        *)

\* epoch: w_epoch; seq, last, curr: write_sequence, last_write_sequence and
\* curr_write_sequence; the packets and record numbers written go with it.
Writer(e) == [out |-> out[e], packets |-> {}, numbers |-> {}, reused |-> FALSE]

\* Mutation: the last fragment has the length of the others.
FragmentsUncut(length, m) ==
    {[lo |-> lo, hi |-> lo + m - 1] : lo \in {n \in 1..length : (n - 1) % m = 0}}

\* dtls1_do_write: the message goes out in as many fragments as the MTU makes of
\* it, each in a record of its own.
Fragments(length, m) ==
    {[lo |-> lo, hi |-> IF lo + m - 1 < length THEN lo + m - 1 ELSE length] :
        lo \in {n \in 1..length : (n - 1) % m = 0}}

\* The message `item` written under its epoch, from record number `first` on; o
\* is the state of the record layer afterwards.
DoWrite(e, w, item, m, first, o) ==
    LET frags == Fragments(script[item.msg].length, m)
        number(f) == first + (f.lo - 1) \div m
        numbers == {<<item.epoch, number(f)>> : f \in frags}
    IN  [out |-> o,
         packets |-> w.packets \cup
            {[to |-> Peer(e), msg |-> item.msg, seq |-> item.seq, lo |-> f.lo, hi |-> f.hi,
              epoch |-> item.epoch, number |-> number(f)] : f \in frags},
         numbers |-> w.numbers \cup numbers,
         reused |-> w.reused \/ numbers \cap (w.numbers \cup used[e]) # {}]

\* How many records the message takes.
Size(item, m) == Cardinality(Fragments(script[item.msg].length, m))

\* What was written is under way; `taken` are the records just read.
Flush(e, w, taken) ==
    /\ out' = [out EXCEPT ![e] = w.out]
    /\ net' = (net \ taken) \cup w.packets
    /\ used' = [used EXCEPT ![e] = @ \cup w.numbers]
    /\ reused' = (reused \/ w.reused)

\* Mutation: the record counter of the old epoch is not saved.
RetransmitSameNumbers(e, w, item, m) ==
    LET o == w.out
    IN  IF item.epoch = o.epoch - 1
        THEN DoWrite(e, w, item, m, o.last, [o EXCEPT !.curr = o.seq])
        ELSE DoWrite(e, w, item, m, o.seq, [o EXCEPT !.seq = @ + Size(item, m)])

\* Mutation: retransmission under the keys in use.
RetransmitThisEpoch(e, w, item, m) ==
    LET o == w.out
    IN  DoWrite(e, w, [item EXCEPT !.epoch = o.epoch], m, o.seq, [o EXCEPT !.seq = @ + Size(item, m)])

\* dtls1_retransmit_message: under the epoch it was first sent with.  For the
\* epoch before the current one DTLS_RECORD_LAYER_set_saved_w_epoch puts
\* last_write_sequence in the place of write_sequence, and back afterwards.
Retransmit(e, w, item, m) ==
    LET o == w.out
    IN  IF item.epoch = o.epoch - 1
        THEN DoWrite(e, w, item, m, o.last, [o EXCEPT !.curr = o.seq, !.last = @ + Size(item, m)])
        ELSE DoWrite(e, w, item, m, o.seq, [o EXCEPT !.seq = @ + Size(item, m)])

\* dtls1_retransmit_buffered_messages
RetransmitAll(e, m) ==
    LET after[n \in 0..Len(sent[e])] ==
            IF n = 0 THEN Writer(e)
            ELSE LET w == after[n - 1] IN Retransmit(e, w, sent[e][n], m)
    IN  after[Len(sent[e])]

\* Mutation: ChangeCipherSpec has the priority of the Finished behind it.
PriorityShared(seq, is_ccs) == seq * 2

\* dtls1_get_queue_priority: ChangeCipherSpec has no number of its own and comes
\* before the message whose number it borrows.
Priority(seq, is_ccs) == seq * 2 - (IF is_ccs THEN 1 ELSE 0)

\* dtls1_buffer_message: a second item of the same priority would be refused.
BufferMessage(q, item) ==
    IF \E i \in DOMAIN q : q[i].priority = item.priority THEN q ELSE Append(q, item)

\* dtls1_reset_seq_numbers for writing, after ChangeCipherSpec.
NextWriteEpoch(o) == [o EXCEPT !.epoch = @ + 1, !.last = o.seq, !.seq = 0]

\* The next message is the last: after it tls_finish_handshake resets the counters
\* and clears buffered_messages.
AtEnd(e) == pos[e] = Len(script)

\* One turn of the writing state machine: the message is numbered, kept for
\* retransmission (HelloVerifyRequest is not), the timer started and the message
\* written; ChangeCipherSpec also moves on to the next epoch.
WriteMessage(e) ==
    /\ failed[e] = "" /\ Writing(e)
    /\ LET m == script[pos[e]]
           is_ccs == m.kind = "change_cipher_spec"
           item == [msg |-> pos[e], seq |-> write_seq[e], epoch |-> out[e].epoch,
                    priority |-> Priority(write_seq[e], is_ccs)]
           written == [out[e] EXCEPT !.seq = @ + Size(item, mtu[e])]
           w == DoWrite(e, Writer(e), item, mtu[e], out[e].seq,
                        IF is_ccs THEN NextWriteEpoch(written) ELSE written)
       IN  /\ sent' = [sent EXCEPT ![e] = IF m.kind = "hello_verify_request" THEN <<>>
                                          ELSE BufferMessage(@, item)]
           /\ timer' = [timer EXCEPT ![e] = @ \/ m.timer]
           /\ Flush(e, w, {})
           /\ write_seq' = [write_seq EXCEPT ![e] = IF AtEnd(e) THEN 0 ELSE IF is_ccs THEN @ ELSE @ + 1]
    /\ pos' = [pos EXCEPT ![e] = @ + 1]
    /\ read_seq' = [read_seq EXCEPT ![e] = IF AtEnd(e) THEN 0 ELSE @]
    /\ buffered' = [buffered EXCEPT ![e] = IF AtEnd(e) THEN {} ELSE @]
    /\ UNCHANGED <<r_epoch, num_alerts, mtu, failed, bvars>>

----------------------------------------------------------------------------
(* The timer.                                                              *)

\* dtls1_check_timeout_num, then dtls1_retransmit_buffered_messages.
CheckTimeoutNum(e, taken) ==
    LET m == IF num_alerts[e] + 1 > ReduceAfter THEN FallbackMtu ELSE mtu[e]
        fails == num_alerts[e] + 1 > AlertCount
    IN  /\ num_alerts' = [num_alerts EXCEPT ![e] = @ + 1]
        /\ mtu' = [mtu EXCEPT ![e] = m]
        /\ failed' = IF fails THEN [failed EXCEPT ![e] = "timeout"] ELSE failed
        /\ \E w \in {IF fails THEN Writer(e) ELSE RetransmitAll(e, m)} : Flush(e, w, taken)

\* What e can read: the records of the epoch in use.  One of the next epoch waits;
\* one of an older epoch is dropped by dtls1_get_bitmap, which makes no difference
\* to one that stays in net unread.
Deliverable(e) == {p \in net : p.to = e /\ p.epoch = r_epoch[e]}

\* Nothing more comes of what is under way.
Quiet ==
    \A e \in Ends : failed[e] = "" => ~Writing(e) /\ Deliverable(e) = {}

\* dtls1_double_timeout: the timers start alike and double with every expiry, so
\* that e's does not run out while one that expired less often has long been running.
DurationsDouble(e) ==
    LET f == Peer(e)
    IN  failed[f] = "" /\ Reading(f) /\ timer[f] => num_alerts[e] <= num_alerts[f] + 1

\* dtls1_handle_timeout, from a read that found nothing: the answer was lost, or
\* it is late (faults > 0).
HandleTimeout(e) ==
    /\ failed[e] = "" /\ Reading(e)
    /\ timer[e]
    /\ \/ Quiet /\ DurationsDouble(e) /\ UNCHANGED faults
       \/ ~Quiet /\ faults > 0 /\ faults' = faults - 1
    /\ CheckTimeoutNum(e, {})
    /\ UNCHANGED <<pos, write_seq, read_seq, sent, buffered, r_epoch, timer, script>>

----------------------------------------------------------------------------
(* Reading.                                                                *)

Units(x) == x.lo..x.hi
Whole(p) == Units(p) = 1..script[p.msg].length

\* dtls1_stop_timer, when the last message of a flight was read: the flight
\* before it need not be sent again.
StopTimer(e, last) ==
    /\ timer' = IF last THEN [timer EXCEPT ![e] = FALSE] ELSE timer
    /\ num_alerts' = IF last THEN [num_alerts EXCEPT ![e] = 0] ELSE num_alerts
    /\ sent' = IF last THEN [sent EXCEPT ![e] = <<>>] ELSE sent

\* A handshake message is complete: it is the expected one or the handshake
\* fails.  `queue` is what is left of buffered_messages.
ProcessMessage(e, msg, queue) ==
    LET expected == msg = pos[e]
    IN  /\ failed' = IF expected THEN failed ELSE [failed EXCEPT ![e] = "unexpected"]
        /\ pos' = IF expected THEN [pos EXCEPT ![e] = @ + 1] ELSE pos
        /\ StopTimer(e, expected /\ script[msg].last)
        /\ read_seq' = [read_seq EXCEPT ![e] = IF AtEnd(e) THEN 0 ELSE @ + 1]
        /\ write_seq' = [write_seq EXCEPT ![e] = IF AtEnd(e) THEN 0 ELSE @]
        /\ buffered' = [buffered EXCEPT ![e] = IF AtEnd(e) THEN {} ELSE queue]
        /\ UNCHANGED <<r_epoch, mtu>>

\* dtls1_retrieve_buffered_fragment: stale items are dropped from the front; the
\* first of the rest is taken if it is complete and next.
Fresh(e) == {x \in buffered[e] : x.seq >= read_seq[e]}
\* Mutation: a complete message is taken ahead of its turn.
ReadyAny(e) == {x \in Fresh(e) : x.whole}
Ready(e) == {x \in Fresh(e) : x.seq = read_seq[e] /\ x.whole}

RetrieveBuffered(e) ==
    /\ failed[e] = "" /\ Reading(e)
    /\ \E x \in Ready(e) : ProcessMessage(e, x.msg, Fresh(e) \ {x})
    /\ UNCHANGED <<wvars, bvars>>

\* dtls1_reassemble_fragment: the units of p are marked in the item of its number.
Reassemble(e, p) ==
    LET old == {x \in buffered[e] : x.seq = p.seq}
        have == Units(p) \cup UNION {x.have : x \in old}
        new == [seq |-> p.seq, msg |-> p.msg, have |-> have,
                whole |-> have = 1..script[p.msg].length]
    IN  IF \E x \in old : x.whole THEN buffered[e] ELSE (buffered[e] \ old) \cup {new}

\* dtls1_process_out_of_seq_message
OutOfSeq(e, p) ==
    LET found == \E x \in buffered[e] : x.seq = p.seq
        discard == \/ p.seq <= read_seq[e]
                   \/ p.seq > read_seq[e] + 10
                   \/ found /\ Whole(p)
                   \/ read_seq[e] = 0 /\ script[p.msg].kind = "finished"
    IN  IF discard THEN buffered[e]
        ELSE IF ~Whole(p) THEN Reassemble(e, p)
        ELSE buffered[e] \cup {[seq |-> p.seq, msg |-> p.msg, have |-> Units(p), whole |-> TRUE]}

\* A record for e is read when nothing is ready in buffered_messages.
Arrives(e, p) ==
    /\ failed[e] = "" /\ ~Writing(e)
    /\ Reading(e) => Ready(e) = {}
    /\ p \in Deliverable(e)
    /\ UNCHANGED bvars

IsCcs(p) == script[p.msg].kind = "change_cipher_spec"

\* ChangeCipherSpec has no number: out of place it is dropped, in its place it
\* changes the epoch and clears what was received under the old one.
ReceiveCcs(e, p) ==
    /\ Arrives(e, p)
    /\ IsCcs(p)
    /\ net' = net \ {p}
    /\ IF Reading(e) /\ script[pos[e]].kind = "change_cipher_spec"
       THEN /\ pos' = [pos EXCEPT ![e] = @ + 1]
            /\ r_epoch' = [r_epoch EXCEPT ![e] = @ + 1]
            /\ buffered' = [buffered EXCEPT ![e] = {}]
            /\ UNCHANGED <<write_seq, read_seq, sent, timer, num_alerts, mtu, failed>>
       ELSE UNCHANGED evars
    /\ UNCHANGED <<out, used, reused>>

\* dtls_get_reassembled_message
ReceiveFragment(e, p) ==
    /\ Arrives(e, p)
    /\ ~IsCcs(p) /\ Reading(e)
    /\ net' = net \ {p}
    /\ \/ p.seq = read_seq[e] /\ Whole(p) /\ ProcessMessage(e, p.msg, Fresh(e))
       \/ /\ p.seq = read_seq[e] /\ ~Whole(p)
          /\ buffered' = [buffered EXCEPT ![e] = Reassemble(e, p)]
          /\ UNCHANGED <<pos, write_seq, read_seq, sent, r_epoch, timer, num_alerts, mtu, failed>>
       \/ /\ p.seq # read_seq[e]
          /\ buffered' = [buffered EXCEPT ![e] = OutOfSeq(e, p)]
          /\ UNCHANGED <<pos, write_seq, read_seq, sent, r_epoch, timer, num_alerts, mtu, failed>>
    /\ UNCHANGED <<out, used, reused>>

\* dtls1_read_bytes after the handshake: a Finished that comes again means that
\* the last flight was lost, and it is sent again.
RepeatedFinished(e, p) ==
    /\ Arrives(e, p)
    /\ Done(e) /\ script[p.msg].kind = "finished"
    /\ CheckTimeoutNum(e, {p})
    /\ UNCHANGED <<pos, write_seq, read_seq, sent, buffered, r_epoch, timer>>

\* The network loses a record.
Lose(p) ==
    /\ faults > 0
    /\ faults' = faults - 1
    /\ net' = net \ {p}
    /\ UNCHANGED <<evars, out, used, reused, script>>

----------------------------------------------------------------------------
Init ==
    /\ script \in Scripts
    /\ pos = [e \in Ends |-> 1]
    /\ write_seq = [e \in Ends |-> 0]
    /\ read_seq = [e \in Ends |-> 0]
    /\ sent = [e \in Ends |-> <<>>]
    /\ buffered = [e \in Ends |-> {}]
    /\ out = [e \in Ends |-> [epoch |-> 0, seq |-> 0, last |-> 0, curr |-> 0]]
    /\ r_epoch = [e \in Ends |-> 0]
    /\ timer = [e \in Ends |-> FALSE]
    /\ num_alerts = [e \in Ends |-> 0]
    /\ mtu = [e \in Ends |-> Mtu]
    /\ failed = [e \in Ends |-> ""]
    /\ net = {}
    /\ used = [e \in Ends |-> {}]
    /\ reused = FALSE
    /\ faults = Faults[script]

Receive(e) ==
    \/ RetrieveBuffered(e)
    \/ \E p \in net : ReceiveCcs(e, p) \/ ReceiveFragment(e, p) \/ RepeatedFinished(e, p)

\* A turn of the thread that drives e.
Turn(e) == WriteMessage(e) \/ HandleTimeout(e) \/ Receive(e)

Next ==
    \/ \E e \in Ends : Turn(e)
    \/ \E p \in net : Lose(p)

\* Both ends keep calling SSL_do_handshake or SSL_read.
Fairness == \A e \in Ends : WF_vars(Turn(e))

Spec == Init /\ [][Next]_vars /\ Fairness
----------------------------------------------------------------------------
(* Properties.                                                             *)

Packets ==
    [to : Ends, msg : 1..Len(script), seq : Nat, lo : Nat \ {0}, hi : Nat \ {0},
     epoch : Nat, number : Nat]

\* Message and record numbers are natural numbers, and no fragment is put together
\* beyond the end of its message (the check of dtls1_preprocess_fragment).
TypeOK ==
    /\ script \in Scripts
    /\ pos \in [Ends -> 1..(Len(script) + 1)]
    /\ write_seq \in [Ends -> Nat] /\ read_seq \in [Ends -> Nat]
    /\ \A e \in Ends :
        /\ sent[e] \in Seq([msg : 1..Len(script), seq : Nat, epoch : Nat, priority : Nat])
        /\ \A x \in buffered[e] : x.msg \in 1..Len(script) /\ x.have \subseteq 1..script[x.msg].length
    /\ out \in [Ends -> [epoch : Nat, seq : Nat, last : Nat, curr : Nat]]
    /\ r_epoch \in [Ends -> Nat]
    /\ timer \in [Ends -> BOOLEAN] /\ num_alerts \in [Ends -> Nat]
    /\ mtu \in [Ends -> {Mtu, FallbackMtu}]
    /\ failed \in [Ends -> {"", "timeout", "unexpected"}]
    /\ net \subseteq Packets
    /\ reused \in BOOLEAN
    /\ faults \in 0..Faults[script]

\* DTLS_RECORD_LAYER_set_saved_w_epoch swaps the record counter of the old epoch in
\* for a retransmission and the current one back in: through any number of timeouts
\* on both sides of a ChangeCipherSpec, no record number of an epoch is used twice.
NumbersNotReused == ~reused

\* The epoch a message of the script belongs to.
EpochOf(msg) ==
    Cardinality({i \in 1..(msg - 1) : script[i].by = script[msg].by /\ script[i].kind = "change_cipher_spec"})

\* dtls1_retransmit_message: a message goes out under the keys it went out under the
\* first time, whichever keys are in use when the timer runs out.
RetransmittedAsSent ==
    \A p \in net : p.epoch = EpochOf(p.msg) /\ p.to = Peer(script[p.msg].by)

\* Fragments, retransmissions cut differently and messages that come early or late:
\* what dtls_get_message hands to the state machine is the message it waits for.
NoConfusion == \A e \in Ends : failed[e] # "unexpected"

\* The server waits for the ClientHello with the cookie, but the request for it is
\* gone: it is neither kept for retransmission nor guarded by a timer, and the
\* ClientHello that comes again has a number already read.
RequestLost ==
    \E i \in 1..Len(script) :
        /\ script[i].kind = "hello_verify_request"
        /\ pos["client"] = i /\ pos["server"] = i + 1
        /\ \A p \in net : p.msg # i

\* With a bounded number of losses, late answers and any reordering, timers and
\* retransmissions get the handshake to its end on both sides, the last flight
\* (which no timer guards) included; only a lost HelloVerifyRequest is not made good.
Completes == <>(RequestLost \/ \A e \in Ends : Done(e) /\ failed[e] = "")
=============================================================================
