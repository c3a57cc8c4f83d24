----------------------------- MODULE DtlsRecord ------------------------------
(***************************************************************************)
(* The receiving side of the DTLS record layer (ssl/record/dtls1_bitmap.c,  *)
(* rec_layer_d1.c, dtls1_get_record of ssl3_record.c).  The network hands   *)
(* over datagrams of one or more records, in any order and any number of    *)
(* times, some of them damaged.  A sliding window per epoch keeps records   *)
(* from being taken twice; handshake records that arrive before the change  *)
(* of epoch they belong to wait in a queue, and application data that       *)
(* overtook the Finished message waits in another.  A queued record keeps   *)
(* the rest of its datagram with it, since the whole read buffer is queued. *)
(***************************************************************************)
EXTENDS Integers, Sequences, FiniteSets

CONSTANTS
    W,              \* the bits of the window's map (sizeof(bitmap->map) * 8)
    Saturation,     \* where satsub64be saturates (128)
    QueueLimit,     \* the records a queue takes (100)
    MaxSeq,         \* bound: the largest record number, 2^48 - 1 in the code
    MaxEpoch,       \* bound: the last epoch
    RecordType,     \* RecordType[<<e, n>>]: the type of the record n of epoch e
    Datagrams,      \* the datagrams the network may deliver
    NULL

Ids == (0..MaxEpoch) \X (0..MaxSeq)
Types == {"handshake", "alert", "change_cipher_spec", "application_data"}

\* A record as it arrives: its number and whether it is what the peer sent.
Records == [epoch : 0..MaxEpoch, seq : 0..MaxSeq, genuine : BOOLEAN]

ASSUME WindowAssumption ==
    /\ W \in Nat \ {0}
    /\ Saturation \in Nat
    /\ Saturation >= W
    /\ QueueLimit \in Nat \ {0}
    /\ MaxSeq \in Nat
    /\ MaxEpoch \in Nat
    /\ RecordType \in [Ids -> Types]
    /\ Datagrams \subseteq Seq(Records)
    /\ NULL \notin Records

VARIABLES
    r_epoch,        \* the epoch whose keys are in use
    bitmap,         \* max: max_seq_num; map: the set of the bits that are 1
    unprocessed,    \* unprocessed_rcds.q: records of the next epoch
    u_epoch,        \* unprocessed_rcds.epoch
    processed,      \* processed_rcds.q: those of them that were decrypted
    app_data,       \* buffered_app_data.q
    rbuf,           \* the records of the current datagram not yet read
    rrec,           \* the record dtls1_read_bytes works on, or NULL
    in_init,        \* a handshake is in progress
    ccs,            \* s3->change_cipher_spec: ChangeCipherSpec came, Finished did not
    etm,            \* encrypt-then-MAC is negotiated: a damaged record is fatal
    failed,         \* SSLfatal was called: the state machine is in MSG_FLOW_ERROR
    pc,             \* where the reading call is
    seen,           \* history: the records that passed dtls1_process_record
    got             \* history: how often a record was handed to its reader (2: or more)

wvars == <<r_epoch, bitmap, seen>>
hvars == <<in_init, ccs, etm, failed>>
vars == <<r_epoch, bitmap, unprocessed, u_epoch, processed, app_data, rbuf, rrec,
          in_init, ccs, etm, failed, pc, seen, got>>

Id(r) == <<r.epoch, r.seq>>
TypeOf(r) == RecordType[Id(r)]

----------------------------------------------------------------------------
(* The replay window.                                                      *)

EmptyBitmap == [max |-> 0, map |-> {}]

\* Subtraction that saturates; the wrap around of 64 bits is out of reach of
\* record numbers of 48.
satsub(m, n) ==
    IF m - n > Saturation THEN Saturation
    ELSE IF m - n < -Saturation THEN -Saturation
    ELSE m - n

\* Mutation: off by one at the far edge of the window, one more.
ReplayCheckWide(bm, seq) ==
    LET cmp == satsub(seq, bm.max)
    IN  cmp > 0 \/ (-cmp <= W /\ -cmp \notin bm.map)

\* Mutation: off by one at the far edge of the window, one fewer.
ReplayCheckNarrow(bm, seq) ==
    LET cmp == satsub(seq, bm.max)
    IN  cmp > 0 \/ (-cmp < W - 1 /\ -cmp \notin bm.map)

\* Whether a record of this number may be taken: it is to the right of the window,
\* or in it and its bit is 0.
ReplayCheck(bm, seq) ==
    LET cmp == satsub(seq, bm.max)
    IN  cmp > 0 \/ (-cmp < W /\ -cmp \notin bm.map)

\* Mutation: the shift keeps the bits that leave the map.
ShiftedMapUncut(map, k) == {i + k : i \in map}

\* The map shifted left by k; bits beyond its width are lost.
ShiftedMap(map, k) == {i \in 0..(W - 1) : i - k \in map}

\* Mutation: every move of the window clears it.
BitmapUpdateNoShift(bm, seq) ==
    LET cmp == satsub(seq, bm.max)
    IN  IF cmp > 0 THEN [max |-> seq, map |-> {0}]
        ELSE IF -cmp < W THEN [bm EXCEPT !.map = @ \cup {-cmp}] ELSE bm

\* The window after a record of this number was taken.
BitmapUpdate(bm, seq) ==
    LET cmp == satsub(seq, bm.max)
    IN  IF cmp > 0
        THEN [max |-> seq, map |-> (IF cmp < W THEN ShiftedMap(bm.map, cmp) ELSE {}) \cup {0}]
        ELSE IF -cmp < W THEN [bm EXCEPT !.map = @ \cup {-cmp}] ELSE bm

----------------------------------------------------------------------------
(* Queues of records, ordered by record number (pqueue).                   *)

Item(r, rest) == [rec |-> r, rest |-> rest]

\* The item at the head: no two items have the same number.
First(q) == {x \in q : \A y \in q : x.rec.seq <= y.rec.seq}

\* Mutation: a queue takes one more than its limit.
FullBeyondLimit(q) == Cardinality(q) > QueueLimit

\* dtls1_buffer_record: a full queue takes nothing and the caller goes on as if
\* it had; a second record of the same number is dropped with its buffer.
Full(q) == Cardinality(q) >= QueueLimit

Inserted(q, x) == IF \E y \in q : y.rec.seq = x.rec.seq THEN q ELSE q \cup {x}

\* The queue q and the read buffer after the record r, just read, was buffered.
Buffer(q, r, rest) ==
    IF Full(q) THEN [queue |-> q, rbuf |-> rest]
    ELSE [queue |-> Inserted(q, Item(r, rest)), rbuf |-> <<>>]

\* Whether dtls1_process_record decrypts r: epoch 0 has no keys.
Decrypts(r) == r.genuine \/ r_epoch = 0

\* SSLfatal also puts the connection back into the handshake.
Fatal ==
    /\ failed' = TRUE
    /\ in_init' = TRUE
    /\ UNCHANGED <<ccs, etm>>

\* A damaged record is dropped without a word, unless its MAC is checked first.
Damaged == IF etm THEN Fatal ELSE UNCHANGED hvars

Accept(r) ==
    /\ bitmap' = BitmapUpdate(bitmap, r.seq)
    /\ seen' = seen \cup {Id(r)}

----------------------------------------------------------------------------
(* dtls1_get_record and dtls1_process_buffered_records.                    *)

\* dtls1_read_bytes takes application data that waited for the end of the
\* handshake before it looks for new records; the read buffer of that time
\* takes the place of the present one.
TakeAppData ==
    /\ pc = "idle" /\ ~failed
    /\ ~in_init
    /\ \E x \in First(app_data) :
        /\ rrec' = x.rec
        /\ rbuf' = x.rest
        /\ app_data' = app_data \ {x}
    /\ pc' = "deliver"
    /\ UNCHANGED <<wvars, unprocessed, u_epoch, processed, hvars, got>>

CallGetRecord ==
    /\ pc = "idle" /\ ~failed
    /\ in_init \/ app_data = {}
    /\ pc' = "again"
    /\ UNCHANGED <<wvars, unprocessed, u_epoch, processed, app_data, rbuf, rrec, hvars, got>>

\* Mutation: the epoch of the waiting records is not compared.
AgainAnyEpoch ==
    /\ pc = "again"
    /\ \/ unprocessed = {} /\ u_epoch' = r_epoch + 1 /\ pc' = "retrieve"
       \/ unprocessed # {} /\ rbuf # <<>> /\ pc' = "retrieve" /\ UNCHANGED u_epoch
       \/ unprocessed # {} /\ rbuf = <<>> /\ pc' = "loop" /\ UNCHANGED u_epoch
    /\ UNCHANGED <<wvars, unprocessed, processed, app_data, rbuf, rrec, hvars, got>>

\* Mutation: waiting records are passed over.
AgainSkips ==
    /\ pc = "again"
    /\ u_epoch' = r_epoch + 1
    /\ pc' = "retrieve"
    /\ UNCHANGED <<wvars, unprocessed, processed, app_data, rbuf, rrec, hvars, got>>

\* The queued records are gone through once their epoch has come and the
\* current datagram is used up.
Again ==
    /\ pc = "again"
    /\ \/ unprocessed = {} /\ u_epoch' = r_epoch + 1 /\ pc' = "retrieve"
       \/ /\ unprocessed # {}
          /\ u_epoch # r_epoch \/ rbuf # <<>>
          /\ pc' = "retrieve" /\ UNCHANGED u_epoch
       \/ /\ unprocessed # {}
          /\ u_epoch = r_epoch /\ rbuf = <<>>
          /\ pc' = "loop" /\ UNCHANGED u_epoch
    /\ UNCHANGED <<wvars, unprocessed, processed, app_data, rbuf, rrec, hvars, got>>

\* One turn of the loop: the window is asked again, since it may have moved.
\* A fatal error leaves the loop with -1, which dtls1_get_record takes for
\* success.
ProcessBuffered ==
    /\ pc = "loop"
    /\ \E x \in First(unprocessed) :
        LET r == x.rec
        IN  /\ unprocessed' = unprocessed \ {x}
            /\ \/ /\ ReplayCheck(bitmap, r.seq) /\ Decrypts(r)
                  /\ Accept(r)
                  /\ processed' = Buffer(processed, r, x.rest).queue
                  /\ rbuf' = Buffer(processed, r, x.rest).rbuf
                  /\ UNCHANGED <<hvars, pc>>
               \/ /\ ~ReplayCheck(bitmap, r.seq)
                  /\ rbuf' = x.rest
                  /\ pc' = IF failed THEN "retrieve" ELSE pc
                  /\ UNCHANGED <<bitmap, seen, processed, hvars>>
               \/ /\ ReplayCheck(bitmap, r.seq) /\ ~Decrypts(r)
                  /\ rbuf' = x.rest
                  /\ Damaged
                  /\ pc' = IF failed' THEN "retrieve" ELSE pc
                  /\ UNCHANGED <<bitmap, seen, processed>>
    /\ UNCHANGED <<r_epoch, u_epoch, app_data, rrec, got>>

LoopDone ==
    /\ pc = "loop"
    /\ unprocessed = {}
    /\ u_epoch' = r_epoch + 1
    /\ pc' = "retrieve"
    /\ UNCHANGED <<wvars, unprocessed, processed, app_data, rbuf, rrec, hvars, got>>

\* A record of the loop comes before anything from the wire.
RetrieveProcessed ==
    /\ pc = "retrieve"
    /\ \E x \in First(processed) :
        /\ rrec' = x.rec
        /\ rbuf' = x.rest
        /\ processed' = processed \ {x}
    /\ pc' = "deliver"
    /\ UNCHANGED <<wvars, unprocessed, u_epoch, app_data, hvars, got>>

\* The network delivers a datagram, or there is none and the call returns.
Receive(d) ==
    /\ pc = "retrieve" /\ processed = {} /\ rbuf = <<>>
    /\ rbuf' = d
    /\ UNCHANGED <<wvars, unprocessed, u_epoch, processed, app_data, rrec, hvars, pc, got>>

Block ==
    /\ pc = "retrieve" /\ processed = {} /\ rbuf = <<>>
    /\ pc' = "idle"
    /\ UNCHANGED <<wvars, unprocessed, u_epoch, processed, app_data, rbuf, rrec, hvars, got>>

\* dtls1_get_bitmap: whether r is of the epoch in use, or may wait for the next.
Current(r) == r.epoch = r_epoch
NextEpoch(r) ==
    /\ r.epoch = r_epoch + 1
    /\ u_epoch # r_epoch
    /\ TypeOf(r) \in {"handshake", "alert"}

\* The next record of the datagram.  The window of the next epoch is empty as
\* long as nothing of it was decrypted, so it refuses no record.
ReadRecord ==
    /\ pc = "retrieve" /\ processed = {} /\ rbuf # <<>>
    /\ LET r == Head(rbuf)
           rest == Tail(rbuf)
       IN  \/ /\ NextEpoch(r) /\ in_init
              /\ unprocessed' = Buffer(unprocessed, r, rest).queue
              /\ rbuf' = Buffer(unprocessed, r, rest).rbuf
              /\ pc' = "again"
              /\ UNCHANGED <<bitmap, seen, rrec, hvars>>
           \/ /\ ~Current(r) /\ ~(NextEpoch(r) /\ in_init)
              /\ rbuf' = rest /\ pc' = "again"
              /\ UNCHANGED <<bitmap, seen, rrec, hvars, unprocessed>>
           \/ /\ Current(r) /\ ~ReplayCheck(bitmap, r.seq)
              /\ rbuf' = rest /\ pc' = "again"
              /\ UNCHANGED <<bitmap, seen, rrec, hvars, unprocessed>>
           \/ /\ Current(r) /\ ReplayCheck(bitmap, r.seq) /\ ~Decrypts(r)
              /\ rbuf' = rest
              /\ Damaged
              /\ pc' = IF failed' THEN "idle" ELSE "again"
              /\ UNCHANGED <<bitmap, seen, rrec, unprocessed>>
           \/ /\ Current(r) /\ ReplayCheck(bitmap, r.seq) /\ Decrypts(r)
              /\ Accept(r)
              /\ rrec' = r
              /\ rbuf' = rest /\ pc' = "deliver"
              /\ UNCHANGED <<hvars, unprocessed>>
    /\ UNCHANGED <<r_epoch, u_epoch, processed, app_data, got>>

----------------------------------------------------------------------------
(* dtls1_read_bytes: the record goes to the handshake or the application.  *)

Handed == got' = [got EXCEPT ![Id(rrec)] = IF @ < 2 THEN @ + 1 ELSE @]

Delivering(type) == pc = "deliver" /\ TypeOf(rrec) = type

\* Anything but a handshake record between ChangeCipherSpec and Finished waits.
HoldBack ==
    /\ pc = "deliver"
    /\ ccs
    /\ TypeOf(rrec) # "handshake"
    /\ app_data' = Buffer(app_data, rrec, rbuf).queue
    /\ rbuf' = Buffer(app_data, rrec, rbuf).rbuf
    /\ rrec' = NULL
    /\ pc' = "idle"
    /\ UNCHANGED <<wvars, unprocessed, u_epoch, processed, hvars, got>>

\* The handshake was waiting for it: the keys of the next epoch come into use
\* and the window starts afresh (dtls1_reset_seq_numbers).
ChangeCipherSpec ==
    /\ Delivering("change_cipher_spec")
    /\ ~ccs /\ in_init
    /\ r_epoch < MaxEpoch
    /\ Handed
    /\ r_epoch' = r_epoch + 1
    /\ bitmap' = EmptyBitmap
    /\ ccs' = TRUE
    /\ rrec' = NULL
    /\ pc' = "idle"
    /\ UNCHANGED <<unprocessed, u_epoch, processed, app_data, rbuf, in_init, etm, failed, seen>>

\* Out of place: the messages before it are missing, or there is no handshake;
\* likewise a Finished repeated after the handshake, which is answered with a
\* retransmission and dropped.
DropRecord ==
    /\ \/ Delivering("change_cipher_spec") /\ ~ccs
       \/ Delivering("handshake") /\ ~in_init
    /\ rrec' = NULL
    /\ pc' = "idle"
    /\ UNCHANGED <<wvars, unprocessed, u_epoch, processed, app_data, rbuf, hvars, got>>

\* A handshake record, which the state machine may refuse; after ChangeCipherSpec
\* it may be the Finished that ends the handshake, outside a handshake it begins
\* the next one.  At the end of a flight the state machine goes on to writing,
\* whatever state it was in.
HandshakeRecord ==
    /\ Delivering("handshake")
    /\ Handed
    /\ \/ Fatal
       \/ /\ \/ UNCHANGED <<in_init, ccs>>
             \/ in_init /\ ccs /\ ccs' = FALSE /\ in_init' \in BOOLEAN
             \/ ~in_init /\ in_init' = TRUE /\ UNCHANGED ccs
          /\ failed' \in {failed, FALSE}
          /\ UNCHANGED etm
    /\ rrec' = NULL
    /\ pc' = "idle"
    /\ UNCHANGED <<wvars, unprocessed, u_epoch, processed, app_data, rbuf>>

\* Alerts, fatal ones included.
AlertRecord ==
    /\ Delivering("alert") /\ ~ccs
    /\ Handed
    /\ UNCHANGED hvars \/ Fatal
    /\ rrec' = NULL
    /\ pc' = "idle"
    /\ UNCHANGED <<wvars, unprocessed, u_epoch, processed, app_data, rbuf>>

\* Application data is read by the application, in the middle of a handshake
\* only if one was completed before; in the first one it is fatal.
AppDataRecord ==
    /\ Delivering("application_data") /\ ~ccs
    /\ \/ (~in_init \/ r_epoch > 0) /\ Handed /\ UNCHANGED hvars
       \/ in_init /\ Fatal /\ UNCHANGED got
    /\ rrec' = NULL
    /\ pc' = "idle"
    /\ UNCHANGED <<wvars, unprocessed, u_epoch, processed, app_data, rbuf>>

\* The application asks for another handshake.
Renegotiate ==
    /\ pc = "idle" /\ ~failed
    /\ ~in_init
    /\ in_init' = TRUE
    /\ UNCHANGED <<wvars, unprocessed, u_epoch, processed, app_data, rbuf, rrec, ccs, etm, failed, pc, got>>

----------------------------------------------------------------------------
Init ==
    /\ r_epoch = 0
    /\ bitmap = EmptyBitmap
    /\ unprocessed = {}
    /\ u_epoch = 0
    /\ processed = {}
    /\ app_data = {}
    /\ rbuf = <<>>
    /\ rrec = NULL
    /\ in_init = TRUE
    /\ ccs = FALSE
    /\ etm \in BOOLEAN
    /\ failed = FALSE
    /\ pc = "idle"
    /\ seen = {}
    /\ got = [i \in Ids |-> 0]

\* What the receiver does without the network or the application's choice.
Step ==
    \/ TakeAppData \/ CallGetRecord \/ Again \/ ProcessBuffered \/ LoopDone
    \/ RetrieveProcessed \/ ReadRecord \/ HoldBack \/ ChangeCipherSpec
    \/ DropRecord \/ HandshakeRecord \/ AlertRecord \/ AppDataRecord

Next == Step \/ Block \/ Renegotiate \/ \E d \in Datagrams : Receive(d)

Spec == Init /\ [][Next]_vars

FairSpec == Spec /\ WF_vars(Step)
----------------------------------------------------------------------------
(* Properties.                                                             *)

Items == [rec : Records, rest : Seq(Records)]

\* The window fits its map, the queues hold records, and there is a record in hand
\* exactly while dtls1_read_bytes works on one.
TypeOK ==
    /\ r_epoch \in 0..MaxEpoch
    /\ bitmap \in [max : 0..MaxSeq, map : SUBSET (0..(W - 1))]
    /\ unprocessed \subseteq Items
    /\ u_epoch \in 0..(MaxEpoch + 1)
    /\ processed \subseteq Items
    /\ app_data \subseteq Items
    /\ rbuf \in Seq(Records)
    /\ rrec \in Records \cup {NULL}
    /\ pc = "deliver" <=> rrec # NULL
    /\ in_init \in BOOLEAN /\ ccs \in BOOLEAN /\ etm \in BOOLEAN /\ failed \in BOOLEAN
    /\ pc \in {"idle", "again", "loop", "retrieve", "deliver"}
    /\ seen \subseteq Ids
    /\ got \in [Ids -> 0..2]

\* However datagrams are repeated, reordered or packed, and whichever queue a record
\* passes through on its way, no record number is handed to its reader twice.
NoReplay == \A i \in Ids : got[i] <= 1

\* dtls1_record_bitmap_update and dtls1_reset_seq_numbers: the window knows exactly
\* which of the last W numbers of the epoch were taken, also after it has jumped by
\* more than its width and after the change of epoch, and nothing was taken ahead of
\* it or of a later epoch.
WindowExact ==
    /\ \A n \in 0..MaxSeq : <<r_epoch, n>> \in seen => n <= bitmap.max
    /\ bitmap.map = {k \in 0..(W - 1) : <<r_epoch, bitmap.max - k>> \in seen}
    /\ \A i \in seen : i[1] <= r_epoch

\* The other side of the replay check: a record that decrypts, was not taken before
\* and is not W or more behind the newest one taken is not refused.
FreshAccepted ==
    [][ReadRecord =>
        LET r == Head(rbuf)
        IN  /\ Current(r) /\ Decrypts(r)
            /\ Id(r) \notin seen
            /\ \A n \in (r.seq + W)..MaxSeq : <<r_epoch, n>> \notin seen
            => Id(r) \in seen']_vars

\* A record that waited for its epoch is decrypted with the keys of that epoch, and
\* what dtls1_read_bytes gets to see of an encrypted epoch is what the peer sent.
RightKeys ==
    /\ \A x \in processed : x.rec.epoch = r_epoch /\ x.rec.genuine
    /\ rrec # NULL /\ rrec.epoch > 0 => rrec.genuine

\* dtls1_buffer_record drops a record without a word when its queue is full.  In the
\* loop that moves records from one queue to the other this would lose a record the
\* window has already marked as taken; there is always room.
LoopFits == pc = "loop" => Cardinality(processed) + Cardinality(unprocessed) <= QueueLimit

Waiting(i) == i[1] = r_epoch /\ \E x \in unprocessed : Id(x.rec) = i /\ x.rec.genuine

\* An intact record in the queue of its epoch does not stay there: it is taken, or the
\* window has moved past it, or the connection has failed.
BufferedProcessed ==
    \A i \in Ids : Waiting(i) ~>
        (i \in seen \/ failed \/ \E n \in (i[2] + W)..MaxSeq : <<i[1], n>> \in seen)

\* ossl_statem_fatal (statem.c:116) says of the error state: "This is a permanent error
\* for the current connection."  Nothing more would be handed up.
PermanentError == [][failed => failed' /\ got' = got]_vars
=============================================================================
