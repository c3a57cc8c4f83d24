-------------------------- MODULE DtlsRecordProofs --------------------------
(***************************************************************************)
(* Proofs about module DtlsRecord, for every width of the window, every     *)
(* number of records and epochs, every limit of the queues and any network. *)
(***************************************************************************)
EXTENDS DtlsRecord, FiniteSetTheorems, TLAPS

\* The records that were decrypted and wait to be handed up.
Held == processed \cup app_data

\* A record that waits was taken and not handed up, and waits in one place.
Unhanded(i) == i \in seen /\ got[i] = 0

HeldOnce ==
    /\ \A x \in Held : Unhanded(Id(x.rec))
    /\ \A x, y \in Held : Id(x.rec) = Id(y.rec) => x = y
    /\ processed \cap app_data = {}
    /\ rrec # NULL => Unhanded(Id(rrec)) /\ \A x \in Held : Id(x.rec) # Id(rrec)

GotSeen == \A i \in Ids : got[i] > 0 => i \in seen

MaxSeen == bitmap.max = 0 \/ <<r_epoch, bitmap.max>> \in seen

\* The queue of waiting records belongs to u_epoch as long as that is the epoch in
\* use or the next.
EpochsInStep ==
    /\ u_epoch <= r_epoch + 1
    /\ pc = "loop" => u_epoch = r_epoch
    /\ \A x \in unprocessed :
        /\ x.rec.epoch > 0
        /\ u_epoch >= r_epoch => x.rec.epoch = u_epoch

\* A ChangeCipherSpec the handshake waits for comes from the wire, when nothing of
\* the loop is left.
NothingLeft ==
    /\ \A x \in unprocessed \cup processed : TypeOf(x.rec) \in {"handshake", "alert"}
    /\ rrec # NULL /\ TypeOf(rrec) = "change_cipher_spec" /\ in_init => processed = {}

Genuine == \A x \in app_data : x.rec.epoch > 0 => x.rec.genuine

Bounded ==
    /\ IsFiniteSet(unprocessed)
    /\ IsFiniteSet(processed)
    /\ Cardinality(unprocessed) <= QueueLimit
    /\ u_epoch = r_epoch => Cardinality(processed) + Cardinality(unprocessed) <= QueueLimit

IInv == TypeOK /\ WindowExact /\ MaxSeen /\ GotSeen /\ HeldOnce /\ NoReplay
        /\ EpochsInStep /\ NothingLeft /\ RightKeys /\ Genuine /\ Bounded

----------------------------------------------------------------------------
(* The replay window, as a matter of numbers.                              *)

\* What the window bm says of the records S of epochs up to e.
Exact(e, bm, S) ==
    /\ \A n \in 0..MaxSeq : <<e, n>> \in S => n <= bm.max
    /\ bm.map = {k \in 0..(W - 1) : <<e, bm.max - k>> \in S}
    /\ \A i \in S : i[1] <= e

Bitmaps == [max : 0..MaxSeq, map : SUBSET (0..(W - 1))]

\* satsub64be orders its arguments, and within the window it is the difference.
LEMMA SatsubDifference ==
  ASSUME NEW m \in Nat, NEW n \in Nat
  PROVE  /\ satsub(m, n) \in Int
         /\ satsub(m, n) > 0 <=> m > n
         /\ satsub(m, n) < W /\ -satsub(m, n) < W => satsub(m, n) = m - n
         /\ satsub(m, n) >= W => m - n >= W
         /\ -satsub(m, n) >= W => n - m >= W
  BY WindowAssumption DEF satsub

\* dtls1_record_replay_check: a record it lets pass was not taken before.
LEMMA PassedIsNew ==
  ASSUME NEW e \in Nat, NEW bm \in Bitmaps, NEW S, Exact(e, bm, S),
         NEW n \in 0..MaxSeq, ReplayCheck(bm, n)
  PROVE  <<e, n>> \notin S
<1> DEFINE cmp == satsub(n, bm.max)
<1>1. bm.max \in Nat /\ n \in Nat /\ bm.map \subseteq 0..(W - 1)
  BY WindowAssumption DEF Bitmaps
<1>2. /\ cmp \in Int
      /\ cmp > 0 <=> n > bm.max
      /\ cmp < W /\ -cmp < W => cmp = n - bm.max
  BY <1>1, SatsubDifference
<1>3. cmp > 0 \/ (-cmp < W /\ -cmp \notin bm.map)
  BY DEF ReplayCheck
<1> HIDE DEF cmp
<1>4. CASE cmp > 0
  BY <1>1, <1>2, <1>4 DEF Exact
<1>5. CASE ~(cmp > 0)
  <2>1. -cmp \in 0..(W - 1) /\ cmp = n - bm.max
    BY <1>2, <1>3, <1>5, WindowAssumption
  <2>2. bm.max - (-cmp) = n
    BY <2>1, <1>1, <1>2
  <2> QED  BY <2>1, <2>2, <1>3, <1>5 DEF Exact
<1> QED  BY <1>4, <1>5

\* A record that is refused was taken before or is behind the window.
LEMMA RefusedIsOld ==
  ASSUME NEW e \in Nat, NEW bm \in Bitmaps, NEW S, Exact(e, bm, S),
         NEW n \in 0..MaxSeq, ~ReplayCheck(bm, n)
  PROVE  <<e, n>> \in S \/ bm.max - n >= W
<1> DEFINE cmp == satsub(n, bm.max)
<1>1. bm.max \in Nat /\ n \in Nat /\ bm.map \subseteq 0..(W - 1)
  BY WindowAssumption DEF Bitmaps
<1>2. /\ cmp \in Int
      /\ cmp < W /\ -cmp < W => cmp = n - bm.max
      /\ -cmp >= W => bm.max - n >= W
  BY <1>1, SatsubDifference
<1>3. ~(cmp > 0) /\ ~(-cmp < W /\ -cmp \notin bm.map)
  BY DEF ReplayCheck
<1> HIDE DEF cmp
<1>4. CASE -cmp >= W
  BY <1>4, <1>2
<1>5. CASE ~(-cmp >= W)
  <2>1. -cmp \in bm.map /\ bm.max - (-cmp) = n
    BY <1>1, <1>2, <1>3, <1>5, WindowAssumption
  <2> QED  BY <2>1 DEF Exact
<1> QED  BY <1>4, <1>5

\* dtls1_record_bitmap_update: after a record that passed, the window is exact again.
LEMMA UpdateExact ==
  ASSUME NEW e \in Nat, NEW bm \in Bitmaps, NEW S, S \subseteq Ids, Exact(e, bm, S),
         NEW n \in 0..MaxSeq, ReplayCheck(bm, n)
  PROVE  /\ BitmapUpdate(bm, n) \in Bitmaps
         /\ Exact(e, BitmapUpdate(bm, n), S \cup {<<e, n>>})
         /\ BitmapUpdate(bm, n).max = bm.max \/ BitmapUpdate(bm, n).max = n
<1> DEFINE cmp == satsub(n, bm.max)
           T == S \cup {<<e, n>>}
<1>1. bm.max \in Nat /\ n \in Nat /\ bm.map \subseteq 0..(W - 1)
  BY WindowAssumption DEF Bitmaps
<1>2. /\ cmp \in Int
      /\ cmp > 0 <=> n > bm.max
      /\ cmp < W /\ -cmp < W => cmp = n - bm.max
      /\ cmp >= W => n - bm.max >= W
  BY <1>1, SatsubDifference
<1>3. cmp > 0 \/ (-cmp < W /\ -cmp \notin bm.map)
  BY DEF ReplayCheck
<1>4. \A i \in T : i[1] <= e
  BY DEF Exact
<1>5. \A m \in Int : <<e, m>> \in S => m \in 0..MaxSeq /\ m <= bm.max
  BY DEF Exact, Ids
<1>6. CASE cmp > 0
  <2> DEFINE map == (IF cmp < W THEN ShiftedMap(bm.map, cmp) ELSE {}) \cup {0}
  <2>1. BitmapUpdate(bm, n) = [max |-> n, map |-> map]
    BY <1>6 DEF BitmapUpdate
  <2> HIDE DEF cmp
  <2>2. map \subseteq 0..(W - 1)
    BY WindowAssumption DEF ShiftedMap
  <2>3. \A k \in 0..(W - 1) : k \in map <=> <<e, n - k>> \in T
    <3> SUFFICES ASSUME NEW k \in 0..(W - 1) PROVE k \in map <=> <<e, n - k>> \in T
      OBVIOUS
    <3>1. CASE k = 0
      BY <3>1, <1>1
    <3>2. CASE k # 0 /\ cmp < W
      <4>1. k \in map <=> k - cmp \in bm.map
        BY <3>2 DEF ShiftedMap
      <4>2. cmp = n - bm.max
        BY <3>2, <1>2, <1>6, WindowAssumption
      <4>3. bm.max - (k - cmp) = n - k
        BY <4>2, <1>1, <1>2, WindowAssumption
      <4>4. k - cmp \in bm.map <=> k - cmp \in 0..(W - 1) /\ <<e, n - k>> \in S
        BY <4>3 DEF Exact
      <4>5. <<e, n - k>> \in S => k - cmp \in 0..(W - 1)
        BY <4>2, <1>1, <1>2, <1>5, <1>6, WindowAssumption
      <4>6. <<e, n - k>> \in T <=> <<e, n - k>> \in S
        BY <3>2, <1>1
      <4> QED  BY <4>1, <4>4, <4>5, <4>6
    <3>3. CASE k # 0 /\ ~(cmp < W)
      <4>1. k \notin map
        BY <3>3
      <4>2. ~(n - k <= bm.max)
        BY <3>3, <1>1, <1>2, WindowAssumption
      <4>3. <<e, n - k>> \notin S
        BY <4>2, <1>1, <1>5
      <4> QED  BY <4>1, <4>3, <3>3, <1>1
    <3> QED  BY <3>1, <3>2, <3>3
  <2>4. \A m \in 0..MaxSeq : <<e, m>> \in T => m <= n
    BY <1>1, <1>2, <1>5, <1>6
  <2> HIDE DEF map
  <2>5. map = {k \in 0..(W - 1) : <<e, n - k>> \in T}
    BY <2>2, <2>3
  <2> QED  BY <2>1, <2>2, <2>4, <2>5, <1>4 DEF Bitmaps, Exact
<1>7. CASE ~(cmp > 0)
  <2>1. -cmp < W
    BY <1>3, <1>7
  <2>2. BitmapUpdate(bm, n) = [max |-> bm.max, map |-> bm.map \cup {-cmp}]
    BY <1>7, <2>1 DEF BitmapUpdate, Bitmaps
  <2> HIDE DEF cmp
  <2>3. -cmp \in 0..(W - 1) /\ cmp = n - bm.max
    BY <1>2, <1>7, <2>1, WindowAssumption
  <2>4. \A k \in 0..(W - 1) : k \in bm.map \cup {-cmp} <=> <<e, bm.max - k>> \in T
    <3> SUFFICES ASSUME NEW k \in 0..(W - 1)
                 PROVE  k \in bm.map \cup {-cmp} <=> <<e, bm.max - k>> \in T
      OBVIOUS
    <3>1. k \in bm.map <=> <<e, bm.max - k>> \in S
      BY DEF Exact
    <3>2. k = -cmp <=> bm.max - k = n
      BY <2>3, <1>1, <1>2
    <3> QED  BY <3>1, <3>2
  <2>5. \A m \in 0..MaxSeq : <<e, m>> \in T => m <= bm.max
    BY <1>1, <1>2, <1>5, <1>7
  <2>6. bm.map \cup {-cmp} = {k \in 0..(W - 1) : <<e, bm.max - k>> \in T}
    BY <1>1, <2>3, <2>4
  <2> QED  BY <1>1, <2>2, <2>3, <2>5, <2>6, <1>4 DEF Bitmaps, Exact
<1> QED  BY <1>6, <1>7

----------------------------------------------------------------------------
(* What the helpers return.                                                *)

\* The read buffer is queued with its record and is empty afterwards, or stays.
LEMMA BufferEffect ==
  ASSUME NEW q, NEW r \in Records, NEW rest \in Seq(Records)
  PROVE  Item(r, rest) \in Items /\ Buffer(q, r, rest).rbuf \in Seq(Records)
  BY DEF Buffer, Inserted, Item, Items

\* A queue of records is one after dtls1_buffer_record.
LEMMA BufferKeepsItems ==
  ASSUME NEW q, q \subseteq Items, NEW r \in Records, NEW rest \in Seq(Records)
  PROVE  Buffer(q, r, rest).queue \subseteq Items /\ Buffer(q, r, rest).rbuf \in Seq(Records)
<1>1. Item(r, rest) \in Items /\ Buffer(q, r, rest).rbuf \in Seq(Records)
  BY BufferEffect
<1> DEFINE t == Buffer(q, r, rest).queue
<1>2. t = q \/ t = q \cup {Item(r, rest)}
  BY DEF Buffer, Inserted
<1> HIDE DEF t
<1>3. t \subseteq Items
  BY <1>1, <1>2
<1> QED  BY <1>1, <1>3 DEF t

\* The parts of a record.
LEMMA RecordFields ==
  ASSUME NEW r \in Records
  PROVE  /\ Id(r) \in Ids /\ Id(r) = <<r.epoch, r.seq>> /\ Id(r)[1] = r.epoch
         /\ r.epoch \in 0..MaxEpoch /\ r.epoch \in Nat /\ r.seq \in 0..MaxSeq
         /\ r.genuine \in BOOLEAN
         /\ r # NULL
         /\ TypeOf(r) \in Types
  BY WindowAssumption DEF Records, Id, Ids, TypeOf

\* The next record of a datagram, and what is left of it.
LEMMA NextOfDatagram ==
  ASSUME NEW s \in Seq(Records), s # <<>>
  PROVE  Head(s) \in Records /\ Tail(s) \in Seq(Records)
  OBVIOUS

\* A record in hand is a record.
LEMMA InHand ==
  ASSUME TypeOK, pc = "deliver"
  PROVE  rrec \in Records
  BY DEF TypeOK

\* Every record of a queue is a record.
LEMMA QueuedRecord ==
  ASSUME NEW q, q \subseteq Items, NEW x \in q
  PROVE  x.rec \in Records /\ x.rest \in Seq(Records)
  BY DEF Items

\* pqueue_peek returns an item of the queue.
LEMMA FirstIsMember ==
  ASSUME NEW q, NEW x \in First(q)
  PROVE  x \in q
  BY DEF First

----------------------------------------------------------------------------
(* Types.                                                                  *)

\* SSLfatal and the damaged records change only these.
LEMMA FlagTypes ==
  ASSUME TypeOK, Damaged \/ Fatal
  PROVE  in_init' \in BOOLEAN /\ ccs' \in BOOLEAN /\ etm' \in BOOLEAN /\ failed' \in BOOLEAN
  BY DEF Damaged, Fatal, hvars, TypeOK

\* Every step keeps the types; the window also keeps its width.
LEMMA TypeStep ==
  ASSUME TypeOK, WindowExact, EpochsInStep, [Next]_vars
  PROVE  TypeOK'
<1> USE DEF TypeOK
<1>w. r_epoch \in Nat /\ bitmap \in Bitmaps /\ Exact(r_epoch, bitmap, seen) /\ seen \subseteq Ids
  BY WindowAssumption DEF WindowExact, Exact, Bitmaps
<1>n. r_epoch + 1 \in 0..(MaxEpoch + 1)
  BY WindowAssumption
<1>1. CASE TakeAppData
  <2> PICK x \in First(app_data) : rrec' = x.rec /\ rbuf' = x.rest /\ app_data' = app_data \ {x}
    BY <1>1 DEF TakeAppData
  <2>1. x.rec \in Records /\ x.rest \in Seq(Records)
    BY FirstIsMember, QueuedRecord
  <2> QED  BY <1>1, <2>1, RecordFields DEF TakeAppData, wvars, hvars
<1>2. CASE CallGetRecord
  BY <1>2 DEF CallGetRecord, wvars, hvars
<1>3. CASE Again
  BY <1>3, <1>n DEF Again, wvars, hvars
<1>4. CASE ProcessBuffered
  <2> PICK x \in First(unprocessed) :
          LET r == x.rec
          IN  /\ unprocessed' = unprocessed \ {x}
              /\ \/ /\ ReplayCheck(bitmap, r.seq) /\ Decrypts(r)
                    /\ Accept(r)
                    /\ processed' = Buffer(processed, r, x.rest).queue
                    /\ rbuf' = Buffer(processed, r, x.rest).rbuf
                    /\ UNCHANGED <<hvars, pc>>
                 \/ /\ ~ReplayCheck(bitmap, r.seq)
                    /\ rbuf' = x.rest
                    /\ pc' = IF failed THEN "retrieve" ELSE pc
                    /\ UNCHANGED <<bitmap, seen, processed, hvars>>
                 \/ /\ ReplayCheck(bitmap, r.seq) /\ ~Decrypts(r)
                    /\ rbuf' = x.rest
                    /\ Damaged
                    /\ pc' = IF failed' THEN "retrieve" ELSE pc
                    /\ UNCHANGED <<bitmap, seen, processed>>
    BY <1>4 DEF ProcessBuffered
  <2> DEFINE r == x.rec
  <2>1. r \in Records /\ x.rest \in Seq(Records)
    BY FirstIsMember, QueuedRecord
  <2>2. r.seq \in 0..MaxSeq /\ r.epoch = r_epoch /\ Id(r) = <<r_epoch, r.seq>> /\ Id(r) \in Ids
    BY <1>4, <2>1, FirstIsMember, RecordFields DEF ProcessBuffered, EpochsInStep
  <2> HIDE DEF r
  <2>3. UNCHANGED <<r_epoch, u_epoch, app_data, rrec, got>> /\ pc = "loop"
    BY <1>4 DEF ProcessBuffered
  <2>4. CASE ReplayCheck(bitmap, r.seq) /\ Decrypts(r)
    <3>1. Accept(r) /\ processed' = Buffer(processed, r, x.rest).queue
          /\ rbuf' = Buffer(processed, r, x.rest).rbuf /\ UNCHANGED <<hvars, pc>>
      BY <2>4 DEF r
    <3>2. bitmap' \in Bitmaps /\ seen' \subseteq Ids
      BY <1>w, <2>2, <2>4, <3>1, UpdateExact DEF Accept
    <3>3. processed' \subseteq Items /\ rbuf' \in Seq(Records)
      BY <2>1, <3>1, BufferKeepsItems
    <3> QED  BY <2>3, <3>1, <3>2, <3>3 DEF Bitmaps, hvars
  <2>5. CASE ~(ReplayCheck(bitmap, r.seq) /\ Decrypts(r))
    <3>1. in_init' \in BOOLEAN /\ ccs' \in BOOLEAN /\ etm' \in BOOLEAN /\ failed' \in BOOLEAN
      BY <2>5, FlagTypes DEF r, hvars
    <3>2. rbuf' \in Seq(Records) /\ pc' \in {pc, "retrieve"} /\ UNCHANGED <<bitmap, seen, processed>>
      BY <2>1, <2>5 DEF r
    <3> QED  BY <2>3, <3>1, <3>2
  <2> QED  BY <2>4, <2>5
<1>5. CASE LoopDone
  BY <1>5, <1>n DEF LoopDone, wvars, hvars
<1>6. CASE RetrieveProcessed
  <2> PICK x \in First(processed) : rrec' = x.rec /\ rbuf' = x.rest /\ processed' = processed \ {x}
    BY <1>6 DEF RetrieveProcessed
  <2>1. x.rec \in Records /\ x.rest \in Seq(Records)
    BY FirstIsMember, QueuedRecord
  <2> QED  BY <1>6, <2>1, RecordFields DEF RetrieveProcessed, wvars, hvars
<1>7. CASE ReadRecord
  <2> DEFINE r == Head(rbuf)
             rest == Tail(rbuf)
  <2>1. r \in Records /\ rest \in Seq(Records)
    BY <1>7, NextOfDatagram DEF ReadRecord
  <2>2. UNCHANGED <<r_epoch, u_epoch, processed, app_data, got>> /\ pc = "retrieve"
    BY <1>7 DEF ReadRecord
  <2>3. r.seq \in 0..MaxSeq /\ (Current(r) => Id(r) = <<r_epoch, r.seq>>) /\ Id(r) \in Ids /\ r # NULL
    BY <2>1, RecordFields DEF Current
  <2>4. CASE NextEpoch(r) /\ in_init
    <3>1. /\ unprocessed' = Buffer(unprocessed, r, rest).queue
          /\ rbuf' = Buffer(unprocessed, r, rest).rbuf
          /\ pc' = "again" /\ UNCHANGED <<bitmap, seen, rrec, hvars>>
      BY <1>7, <2>2, <2>4 DEF ReadRecord, NextEpoch, Current
    <3> HIDE DEF r, rest
    <3>2. unprocessed' \subseteq Items /\ rbuf' \in Seq(Records)
      BY <2>1, <3>1, BufferKeepsItems
    <3> QED  BY <2>2, <3>1, <3>2 DEF hvars
  <2>5. CASE Current(r) /\ ReplayCheck(bitmap, r.seq) /\ Decrypts(r)
    <3>1. Accept(r) /\ rrec' = r /\ rbuf' = rest /\ pc' = "deliver" /\ UNCHANGED <<hvars, unprocessed>>
      BY <1>7, <2>2, <2>5 DEF ReadRecord, NextEpoch, Current
    <3> HIDE DEF r, rest
    <3>2. bitmap' \in Bitmaps /\ seen' \subseteq Ids
      BY <1>w, <2>3, <2>5, <3>1, UpdateExact DEF Accept
    <3> QED  BY <2>1, <2>2, <2>3, <3>1, <3>2 DEF hvars, Bitmaps
  <2>6. CASE ~(NextEpoch(r) /\ in_init) /\ ~(Current(r) /\ ReplayCheck(bitmap, r.seq) /\ Decrypts(r))
    <3>1. /\ rbuf' = rest /\ pc' \in {"idle", "again"}
          /\ Damaged \/ UNCHANGED hvars
          /\ UNCHANGED <<bitmap, seen, rrec, unprocessed>>
      BY <1>7, <2>6 DEF ReadRecord
    <3> HIDE DEF r, rest
    <3>2. in_init' \in BOOLEAN /\ ccs' \in BOOLEAN /\ etm' \in BOOLEAN /\ failed' \in BOOLEAN
      BY <3>1, FlagTypes DEF hvars
    <3> QED  BY <2>1, <2>2, <3>1, <3>2
  <2> QED  BY <2>4, <2>5, <2>6
<1>h. ASSUME pc = "deliver", Handed PROVE got' \in [Ids -> 0..2]
  BY <1>h, InHand, RecordFields DEF Handed
<1>8. CASE HoldBack
  <2>1. app_data' \subseteq Items /\ rbuf' \in Seq(Records)
    BY <1>8, InHand, BufferKeepsItems DEF HoldBack
  <2> QED  BY <1>8, <2>1 DEF HoldBack, wvars, hvars
<1>9. CASE ChangeCipherSpec
  <2>1. got' \in [Ids -> 0..2]
    BY <1>9, <1>h DEF ChangeCipherSpec, Delivering
  <2>2. bitmap' \in Bitmaps
    BY <1>9, WindowAssumption DEF ChangeCipherSpec, EmptyBitmap, Bitmaps
  <2>3. r_epoch' \in 0..MaxEpoch
    BY <1>9, WindowAssumption DEF ChangeCipherSpec
  <2> QED  BY <1>9, <2>1, <2>2, <2>3 DEF ChangeCipherSpec, Bitmaps
<1>10. CASE DropRecord
  BY <1>10 DEF DropRecord, Delivering, wvars, hvars
<1>11. CASE HandshakeRecord
  <2>1. got' \in [Ids -> 0..2]
    BY <1>11, <1>h DEF HandshakeRecord, Delivering
  <2> QED  BY <1>11, <2>1 DEF HandshakeRecord, Fatal, wvars
<1>12. CASE AlertRecord
  <2>1. got' \in [Ids -> 0..2]
    BY <1>12, <1>h DEF AlertRecord, Delivering
  <2>2. in_init' \in BOOLEAN /\ ccs' \in BOOLEAN /\ etm' \in BOOLEAN /\ failed' \in BOOLEAN
    BY <1>12, FlagTypes DEF AlertRecord, hvars
  <2> QED  BY <1>12, <2>1, <2>2 DEF AlertRecord, wvars
<1>13. CASE AppDataRecord
  <2>1. got' \in [Ids -> 0..2]
    BY <1>13, <1>h DEF AppDataRecord, Delivering
  <2>2. in_init' \in BOOLEAN /\ ccs' \in BOOLEAN /\ etm' \in BOOLEAN /\ failed' \in BOOLEAN
    BY <1>13, FlagTypes DEF AppDataRecord, hvars
  <2> QED  BY <1>13, <2>1, <2>2 DEF AppDataRecord, wvars
<1>14. CASE Block
  BY <1>14 DEF Block, wvars, hvars
<1>15. CASE Renegotiate
  BY <1>15 DEF Renegotiate, wvars
<1>16. ASSUME NEW d \in Datagrams, Receive(d) PROVE TypeOK'
  BY <1>16, WindowAssumption DEF Receive, wvars, hvars
<1>17. CASE UNCHANGED vars
  BY <1>17 DEF vars
<1> QED
  BY <1>1, <1>2, <1>3, <1>4, <1>5, <1>6, <1>7, <1>8, <1>9, <1>10, <1>11, <1>12, <1>13,
     <1>14, <1>15, <1>16, <1>17 DEF Next, Step

----------------------------------------------------------------------------
(* What the steps do to the window and to the records that are held.       *)

\* A record of the epoch in use passes dtls1_process_record.
Taken(r) ==
    /\ r.epoch = r_epoch /\ ReplayCheck(bitmap, r.seq) /\ Decrypts(r)
    /\ Accept(r)
    /\ UNCHANGED r_epoch

\* dtls1_buffer_record adds the record, and only if there is room, or leaves the queue.
LEMMA Buffering ==
  ASSUME NEW q, NEW r, NEW rest
  PROVE  \/ Buffer(q, r, rest).queue = q
         \/ Buffer(q, r, rest).queue = q \cup {Item(r, rest)} /\ ~Full(q)
  BY DEF Buffer, Inserted

\* A turn of the loop in dtls1_process_buffered_records.
LEMMA LoopTurn ==
  ASSUME TypeOK, EpochsInStep, ProcessBuffered
  PROVE  /\ pc = "loop" /\ rrec = NULL
         /\ UNCHANGED <<r_epoch, u_epoch, app_data, rrec, got>>
         /\ \E x \in unprocessed :
             /\ x.rec \in Records /\ x.rec.epoch = r_epoch
             /\ unprocessed' = unprocessed \ {x}
             /\ \/ /\ Taken(x.rec)
                   /\ processed' = processed \/ processed' = processed \cup {Item(x.rec, x.rest)}
                   /\ UNCHANGED <<hvars, pc>>
                \/ /\ UNCHANGED <<wvars, processed>>
                   /\ pc' = pc \/ pc' = "retrieve"
                   /\ Damaged \/ UNCHANGED hvars
<1> USE DEF ProcessBuffered
<1>1. pc = "loop" /\ rrec = NULL /\ UNCHANGED <<r_epoch, u_epoch, app_data, rrec, got>>
  BY DEF TypeOK
<1> PICK x \in First(unprocessed) :
          LET r == x.rec
          IN  /\ unprocessed' = unprocessed \ {x}
              /\ \/ /\ ReplayCheck(bitmap, r.seq) /\ Decrypts(r)
                    /\ Accept(r)
                    /\ processed' = Buffer(processed, r, x.rest).queue
                    /\ UNCHANGED <<hvars, pc>>
                 \/ /\ ~ReplayCheck(bitmap, r.seq)
                    /\ pc' = IF failed THEN "retrieve" ELSE pc
                    /\ UNCHANGED <<bitmap, seen, processed, hvars>>
                 \/ /\ ReplayCheck(bitmap, r.seq) /\ ~Decrypts(r)
                    /\ Damaged
                    /\ pc' = IF failed' THEN "retrieve" ELSE pc
                    /\ UNCHANGED <<bitmap, seen, processed>>
  OBVIOUS
<1> DEFINE r == x.rec
<1>2. x \in unprocessed
  BY FirstIsMember
<1>3. r \in Records /\ r.epoch = r_epoch
  BY <1>1, <1>2, QueuedRecord, WindowAssumption DEF EpochsInStep, TypeOK
<1>4. CASE ReplayCheck(bitmap, r.seq) /\ Decrypts(r)
  <2>1. Accept(r) /\ processed' = Buffer(processed, r, x.rest).queue /\ UNCHANGED <<hvars, pc>>
    BY <1>4
  <2>2. processed' = processed \/ processed' = processed \cup {Item(r, x.rest)}
    BY <2>1, Buffering
  <2> QED  BY <1>1, <1>2, <1>3, <1>4, <2>1, <2>2 DEF Taken
<1>5. CASE ~(ReplayCheck(bitmap, r.seq) /\ Decrypts(r))
  <2>1. /\ UNCHANGED <<bitmap, seen, processed>>
        /\ pc' = pc \/ pc' = "retrieve"
        /\ Damaged \/ UNCHANGED hvars
    BY <1>5 DEF hvars
  <2> QED  BY <1>1, <1>2, <1>3, <2>1 DEF wvars
<1> QED  BY <1>4, <1>5

\* A record that dtls1_get_record reads from the datagram.
LEMMA WireTurn ==
  ASSUME TypeOK, ReadRecord
  PROVE  /\ pc = "retrieve" /\ rrec = NULL /\ processed = {}
         /\ UNCHANGED <<r_epoch, u_epoch, processed, app_data, got>>
         /\ \/ \E r \in Records : \E rest :
                 /\ NextEpoch(r)
                 /\ pc' = "again"
                 /\ UNCHANGED <<bitmap, seen, rrec, hvars>>
                 /\ \/ unprocessed' = unprocessed
                    \/ unprocessed' = unprocessed \cup {Item(r, rest)} /\ ~Full(unprocessed)
            \/ \E r \in Records :
                 /\ Taken(r)
                 /\ rrec' = r /\ pc' = "deliver"
                 /\ UNCHANGED <<unprocessed, hvars>>
            \/ /\ UNCHANGED <<bitmap, seen, rrec, unprocessed>>
               /\ Damaged \/ UNCHANGED hvars
               /\ pc' \in {"idle", "again"}
<1> DEFINE r == Head(rbuf)
           rest == Tail(rbuf)
<1>1. /\ pc = "retrieve" /\ rrec = NULL /\ processed = {}
      /\ UNCHANGED <<r_epoch, u_epoch, processed, app_data, got>>
  BY DEF ReadRecord, TypeOK
<1>2. r \in Records
  BY NextOfDatagram DEF ReadRecord, TypeOK
<1>3. CASE NextEpoch(r) /\ in_init
  <2>1. /\ unprocessed' = Buffer(unprocessed, r, rest).queue
        /\ pc' = "again" /\ UNCHANGED <<bitmap, seen, rrec, hvars>>
    BY <1>2, <1>3, WindowAssumption DEF ReadRecord, NextEpoch, Current, TypeOK, Records
  <2> HIDE DEF r, rest
  <2>2. \/ unprocessed' = unprocessed
        \/ unprocessed' = unprocessed \cup {Item(r, rest)} /\ ~Full(unprocessed)
    BY <2>1, Buffering
  <2> QED  BY <1>1, <1>2, <1>3, <2>1, <2>2
<1>4. CASE Current(r) /\ ReplayCheck(bitmap, r.seq) /\ Decrypts(r)
  <2>1. Accept(r) /\ rrec' = r /\ pc' = "deliver" /\ UNCHANGED <<hvars, unprocessed>>
    BY <1>2, <1>4, WindowAssumption DEF ReadRecord, NextEpoch, Current, TypeOK, Records
  <2> HIDE DEF r, rest
  <2> QED  BY <1>1, <1>2, <1>4, <2>1 DEF Taken, Current
<1>5. CASE ~(NextEpoch(r) /\ in_init) /\ ~(Current(r) /\ ReplayCheck(bitmap, r.seq) /\ Decrypts(r))
  <2>1. /\ pc' \in {"idle", "again"}
        /\ Damaged \/ UNCHANGED hvars
        /\ UNCHANGED <<bitmap, seen, rrec, unprocessed>>
    BY <1>5 DEF ReadRecord
  <2> HIDE DEF r, rest
  <2> QED  BY <1>1, <2>1
<1> QED  BY <1>3, <1>4, <1>5

----------------------------------------------------------------------------
(* The window.                                                             *)

\* A step leaves the window alone, starts a new one, or takes a record.
LEMMA WindowMoves ==
  ASSUME TypeOK, EpochsInStep, [Next]_vars
  PROVE  \/ UNCHANGED wvars
         \/ r_epoch' = r_epoch + 1 /\ bitmap' = EmptyBitmap /\ seen' = seen
         \/ \E r \in Records : Taken(r)
<1>1. CASE ProcessBuffered
  BY <1>1, LoopTurn
<1>2. CASE ReadRecord
  BY <1>2, WireTurn DEF wvars
<1>3. CASE ChangeCipherSpec
  BY <1>3 DEF ChangeCipherSpec
<1>4. CASE Block \/ Renegotiate \/ \E d \in Datagrams : Receive(d)
  BY <1>4 DEF Block, Renegotiate, Receive
<1>5. CASE TakeAppData \/ CallGetRecord \/ Again \/ LoopDone \/ RetrieveProcessed
  BY <1>5 DEF TakeAppData, CallGetRecord, Again, LoopDone, RetrieveProcessed
<1>6. CASE HoldBack \/ DropRecord \/ HandshakeRecord \/ AlertRecord \/ AppDataRecord
  BY <1>6 DEF HoldBack, DropRecord, HandshakeRecord, AlertRecord, AppDataRecord
<1>7. CASE UNCHANGED vars
  BY <1>7 DEF vars, wvars
<1> QED  BY <1>1, <1>2, <1>3, <1>4, <1>5, <1>6, <1>7 DEF Next, Step

\* A record that is taken is new to the window and the window is exact after it.
LEMMA TakenIsNew ==
  ASSUME TypeOK, WindowExact, NEW r \in Records, Taken(r)
  PROVE  /\ Id(r) \notin seen /\ seen' = seen \cup {Id(r)}
         /\ WindowExact'
         /\ MaxSeen => MaxSeen'
<1>1. r_epoch \in Nat /\ bitmap \in Bitmaps /\ Exact(r_epoch, bitmap, seen) /\ seen \subseteq Ids
  BY WindowAssumption DEF TypeOK, WindowExact, Exact, Bitmaps
<1>2. r.seq \in 0..MaxSeq /\ Id(r) = <<r_epoch, r.seq>>
  BY RecordFields DEF Taken
<1>3. /\ ReplayCheck(bitmap, r.seq) /\ bitmap' = BitmapUpdate(bitmap, r.seq)
      /\ seen' = seen \cup {Id(r)} /\ r_epoch' = r_epoch
  BY DEF Taken, Accept
<1>4. Id(r) \notin seen
  BY <1>1, <1>2, <1>3, PassedIsNew
<1>5. Exact(r_epoch, bitmap', seen')
  BY <1>1, <1>2, <1>3, UpdateExact
<1>6. bitmap'.max = bitmap.max \/ bitmap'.max = r.seq
  BY <1>1, <1>2, <1>3, UpdateExact
<1>7. WindowExact'
  BY <1>3, <1>5 DEF WindowExact, Exact
<1>8. ASSUME MaxSeen PROVE MaxSeen'
  <2>1. CASE bitmap'.max = bitmap.max
    BY <1>3, <1>8, <2>1 DEF MaxSeen
  <2>2. CASE bitmap'.max = r.seq
    BY <1>2, <1>3, <2>2 DEF MaxSeen
  <2> QED  BY <1>6, <2>1, <2>2
<1> QED  BY <1>3, <1>4, <1>7, <1>8

\* Every step leaves the window exact.
LEMMA WindowStep ==
  ASSUME TypeOK, EpochsInStep, WindowExact, MaxSeen, [Next]_vars
  PROVE  WindowExact' /\ MaxSeen'
<1>1. CASE UNCHANGED wvars
  BY <1>1 DEF wvars, WindowExact, MaxSeen
<1>2. CASE r_epoch' = r_epoch + 1 /\ bitmap' = EmptyBitmap /\ seen' = seen
  <2>1. r_epoch \in Nat /\ seen \subseteq Ids
    BY WindowAssumption DEF TypeOK
  <2>2. \A m : <<r_epoch + 1, m>> \notin seen
    BY <2>1 DEF WindowExact
  <2>3. \A i \in seen : i[1] <= r_epoch + 1
    BY <2>1 DEF WindowExact, Ids
  <2>4. bitmap'.max = 0 /\ bitmap'.map = {}
    BY <1>2 DEF EmptyBitmap
  <2> QED  BY <1>2, <2>2, <2>3, <2>4 DEF WindowExact, MaxSeen
<1>3. CASE \E r \in Records : Taken(r)
  BY <1>3, TakenIsNew
<1> QED  BY <1>1, <1>2, <1>3, WindowMoves

----------------------------------------------------------------------------
(* Records that are held are handed up once.                               *)

\* The ways a record can go: nowhere, from a queue into the hands of
\* dtls1_read_bytes, into the first queue or the hands when it is taken, from the
\* hands into the second queue or to its reader.
Stays == UNCHANGED <<processed, app_data, rrec, seen, got>>

Fetched ==
    /\ rrec = NULL
    /\ UNCHANGED <<seen, got>>
    /\ \E x \in Held :
        /\ rrec' = x.rec
        /\ \/ x \in app_data /\ app_data' = app_data \ {x} /\ processed' = processed
           \/ x \in processed /\ processed' = processed \ {x} /\ app_data' = app_data

Queued ==
    /\ rrec = NULL /\ rrec' = NULL
    /\ UNCHANGED <<app_data, got>>
    /\ \E r \in Records : \E rest :
        /\ Taken(r)
        /\ processed' = processed \/ processed' = processed \cup {Item(r, rest)}

Read ==
    /\ rrec = NULL
    /\ UNCHANGED <<processed, app_data, got>>
    /\ \E r \in Records : Taken(r) /\ rrec' = r

PutBack ==
    /\ rrec \in Records /\ rrec' = NULL
    /\ UNCHANGED <<processed, seen, got>>
    /\ app_data' = app_data \/ app_data' = app_data \cup {Item(rrec, rbuf)}

Consumed ==
    /\ rrec \in Records /\ rrec' = NULL
    /\ UNCHANGED <<processed, app_data, seen>>
    /\ Handed \/ UNCHANGED got

\* Every step moves at most one record, in one of these ways.
LEMMA RecordMoves ==
  ASSUME TypeOK, EpochsInStep, [Next]_vars
  PROVE  Stays \/ Fetched \/ Queued \/ Read \/ PutBack \/ Consumed
<1>1. CASE ProcessBuffered
  <2>1. rrec = NULL /\ UNCHANGED <<app_data, rrec, got>>
    BY <1>1, LoopTurn
  <2> PICK x \in unprocessed :
          /\ x.rec \in Records
          /\ \/ /\ Taken(x.rec)
                /\ processed' = processed \/ processed' = processed \cup {Item(x.rec, x.rest)}
             \/ UNCHANGED <<wvars, processed>>
    BY <1>1, LoopTurn
  <2> QED  BY <2>1 DEF Queued, Stays, wvars
<1>2. CASE ReadRecord
  BY <1>2, WireTurn DEF Stays, Read
<1>3. CASE TakeAppData
  <2>1. rrec = NULL /\ UNCHANGED <<seen, got, processed>>
    BY <1>3 DEF TakeAppData, wvars, TypeOK
  <2> PICK x \in First(app_data) : rrec' = x.rec /\ app_data' = app_data \ {x}
    BY <1>3 DEF TakeAppData
  <2> QED  BY <2>1, FirstIsMember DEF Fetched, Held
<1>4. CASE RetrieveProcessed
  <2>1. rrec = NULL /\ UNCHANGED <<seen, got, app_data>>
    BY <1>4 DEF RetrieveProcessed, wvars, TypeOK
  <2> PICK x \in First(processed) : rrec' = x.rec /\ processed' = processed \ {x}
    BY <1>4 DEF RetrieveProcessed
  <2> QED  BY <2>1, FirstIsMember DEF Fetched, Held
<1>5. CASE HoldBack
  <2>1. /\ rrec \in Records /\ rrec' = NULL /\ UNCHANGED <<processed, seen, got>>
        /\ app_data' = Buffer(app_data, rrec, rbuf).queue
    BY <1>5, InHand DEF HoldBack, wvars
  <2>2. app_data' = app_data \/ app_data' = app_data \cup {Item(rrec, rbuf)}
    BY <2>1, Buffering
  <2> QED  BY <2>1, <2>2 DEF PutBack
<1>6. CASE ChangeCipherSpec
  BY <1>6, InHand DEF ChangeCipherSpec, Delivering, Consumed
<1>7. CASE DropRecord \/ HandshakeRecord \/ AlertRecord \/ AppDataRecord
  BY <1>7, InHand DEF DropRecord, HandshakeRecord, AlertRecord, AppDataRecord, Delivering, Consumed, wvars
<1>8. CASE CallGetRecord \/ Again \/ LoopDone
  BY <1>8 DEF CallGetRecord, Again, LoopDone, Stays, wvars
<1>9. CASE Block \/ Renegotiate \/ \E d \in Datagrams : Receive(d)
  BY <1>9 DEF Block, Renegotiate, Receive, Stays, wvars
<1>10. CASE UNCHANGED vars
  BY <1>10 DEF vars, Stays
<1> QED  BY <1>1, <1>2, <1>3, <1>4, <1>5, <1>6, <1>7, <1>8, <1>9, <1>10 DEF Next, Step

\* An item of a queue is a record with the rest of its datagram.
LEMMA ItemFields ==
  ASSUME NEW r, NEW rest
  PROVE  Item(r, rest).rec = r
  BY DEF Item

\* Every step keeps each held record in one place and unread.
LEMMA HeldStep ==
  ASSUME TypeOK, EpochsInStep, WindowExact, GotSeen, HeldOnce, NoReplay, [Next]_vars
  PROVE  HeldOnce' /\ GotSeen' /\ NoReplay'
<1>1. /\ processed \subseteq Items /\ app_data \subseteq Items /\ got \in [Ids -> 0..2]
      /\ NULL \notin Records
  BY WindowAssumption DEF TypeOK
<1>2. \A x \in Held : x.rec \in Records /\ Id(x.rec) \in Ids /\ x.rec # NULL
  BY <1>1, QueuedRecord, RecordFields DEF Held
<1>3. \A r \in Records : Id(r) \in Ids
  BY RecordFields
<1>4. ASSUME NEW r \in Records, Id(r) \notin seen
      PROVE  got[Id(r)] = 0 /\ \A x \in Held : Id(x.rec) # Id(r)
  BY <1>1, <1>3, <1>4 DEF GotSeen, HeldOnce, Unhanded
<1>5. CASE Stays
  BY <1>5 DEF Stays, HeldOnce, Held, Unhanded, GotSeen, NoReplay
<1>6. CASE Fetched
  <2>1. rrec = NULL /\ UNCHANGED <<seen, got>>
    BY <1>6 DEF Fetched
  <2> PICK x \in Held :
          /\ rrec' = x.rec
          /\ \/ x \in app_data /\ app_data' = app_data \ {x} /\ processed' = processed
             \/ x \in processed /\ processed' = processed \ {x} /\ app_data' = app_data
    BY <1>6 DEF Fetched
  <2>2. Held' = Held \ {x} /\ processed' \cap app_data' = {}
    BY DEF HeldOnce, Held
  <2>3. Unhanded(Id(x.rec)) /\ \A y \in Held \ {x} : Id(y.rec) # Id(x.rec)
    BY DEF HeldOnce
  <2> QED  BY <2>1, <2>2, <2>3 DEF HeldOnce, Unhanded, GotSeen, NoReplay
<1>7. CASE Queued
  <2>1. rrec' = NULL /\ UNCHANGED <<app_data, got>>
    BY <1>7 DEF Queued
  <2> PICK r \in Records : \E rest :
          /\ Taken(r)
          /\ processed' = processed \/ processed' = processed \cup {Item(r, rest)}
    BY <1>7 DEF Queued
  <2> PICK rest :
          /\ Taken(r)
          /\ processed' = processed \/ processed' = processed \cup {Item(r, rest)}
    OBVIOUS
  <2>2. Id(r) \notin seen /\ seen' = seen \cup {Id(r)}
    BY TakenIsNew
  <2>3. got[Id(r)] = 0 /\ \A x \in Held : Id(x.rec) # Id(r)
    BY <1>4, <2>2
  <2>4. Item(r, rest).rec = r /\ Item(r, rest) \notin Held
    BY <2>3, ItemFields
  <2>5. Held' = Held \/ Held' = Held \cup {Item(r, rest)}
    BY <2>1 DEF Held
  <2>6. processed' \cap app_data' = {}
    BY <2>1, <2>4 DEF HeldOnce, Held
  <2>7. GotSeen' /\ NoReplay'
    BY <2>1, <2>2 DEF GotSeen, NoReplay
  <2>8. \A x \in Held' : Unhanded(Id(x.rec))'
    BY <2>1, <2>2, <2>3, <2>4, <2>5 DEF HeldOnce, Unhanded
  <2>9. \A x, y \in Held' : Id(x.rec) = Id(y.rec) => x = y
    BY <2>3, <2>4, <2>5 DEF HeldOnce
  <2> QED  BY <2>1, <2>6, <2>7, <2>8, <2>9 DEF HeldOnce
<1>8. CASE Read
  <2>1. UNCHANGED <<processed, app_data, got>>
    BY <1>8 DEF Read
  <2> PICK r \in Records : Taken(r) /\ rrec' = r
    BY <1>8 DEF Read
  <2>2. Id(r) \notin seen /\ seen' = seen \cup {Id(r)}
    BY TakenIsNew
  <2>3. got[Id(r)] = 0 /\ \A x \in Held : Id(x.rec) # Id(r)
    BY <1>4, <2>2
  <2>4. Held' = Held
    BY <2>1 DEF Held
  <2> QED  BY <2>1, <2>2, <2>3, <2>4 DEF HeldOnce, Unhanded, GotSeen, NoReplay
<1>9. CASE PutBack
  <2>1. rrec \in Records /\ rrec' = NULL /\ UNCHANGED <<processed, seen, got>>
    BY <1>9 DEF PutBack
  <2> DEFINE i == Item(rrec, rbuf)
  <2>2. i.rec = rrec /\ Unhanded(Id(rrec)) /\ \A x \in Held : Id(x.rec) # Id(rrec)
    BY <1>1, <2>1, ItemFields DEF HeldOnce
  <2>3. app_data' = app_data \/ app_data' = app_data \cup {i}
    BY <1>9 DEF PutBack
  <2> HIDE DEF i
  <2>4. i \notin Held
    BY <2>2
  <2>5. Held' = Held \/ Held' = Held \cup {i}
    BY <2>1, <2>3 DEF Held
  <2>6. processed' \cap app_data' = {}
    BY <2>1, <2>3, <2>4 DEF HeldOnce, Held
  <2>7. \A x \in Held' : Unhanded(Id(x.rec))'
    BY <2>1, <2>2, <2>5 DEF HeldOnce, Unhanded
  <2>8. \A x, y \in Held' : Id(x.rec) = Id(y.rec) => x = y
    BY <2>2, <2>4, <2>5 DEF HeldOnce
  <2> QED  BY <2>1, <2>6, <2>7, <2>8 DEF HeldOnce, GotSeen, NoReplay
<1>10. CASE Consumed
  <2>1. rrec \in Records /\ rrec' = NULL /\ UNCHANGED <<processed, app_data, seen>>
    BY <1>10 DEF Consumed
  <2> DEFINE i == Id(rrec)
  <2>2. i \in Ids /\ i \in seen /\ got[i] = 0 /\ \A x \in Held : Id(x.rec) # i
    BY <1>1, <1>3, <2>1 DEF HeldOnce, Unhanded
  <2>3. got' = got \/ got' = [got EXCEPT ![i] = IF @ < 2 THEN @ + 1 ELSE @]
    BY <1>10 DEF Consumed, Handed
  <2> HIDE DEF i
  <2>4. \A j \in Ids : got'[j] = got[j] \/ (j = i /\ got'[j] = 1)
    BY <1>1, <2>2, <2>3
  <2>5. Held' = Held
    BY <2>1 DEF Held
  <2>6. GotSeen' /\ NoReplay'
    BY <2>1, <2>2, <2>4 DEF GotSeen, NoReplay
  <2>7. \A x \in Held : got'[Id(x.rec)] = 0
    BY <1>2, <2>2, <2>4 DEF HeldOnce, Unhanded
  <2> QED  BY <2>1, <2>5, <2>6, <2>7 DEF HeldOnce, Unhanded
<1> QED  BY <1>5, <1>6, <1>7, <1>8, <1>9, <1>10, RecordMoves

----------------------------------------------------------------------------
(* The queues and the epochs.                                              *)

\* The steps that leave the queues of the handshake and both epochs alone and do
\* not enter the loop.
QueuesStay ==
    /\ UNCHANGED <<unprocessed, processed, u_epoch, r_epoch>>
    /\ pc' = "loop" => pc = "loop"

\* Such are all steps but those of the loop, the reading of a record and the change of keys.
LEMMA OtherSteps ==
  ASSUME \/ TakeAppData \/ CallGetRecord \/ HoldBack \/ DropRecord \/ HandshakeRecord
         \/ AlertRecord \/ AppDataRecord \/ Block \/ Renegotiate
         \/ (\E d \in Datagrams : Receive(d)) \/ UNCHANGED vars
  PROVE  QueuesStay
<1>1. CASE TakeAppData \/ CallGetRecord \/ HoldBack \/ DropRecord
  BY <1>1 DEF TakeAppData, CallGetRecord, HoldBack, DropRecord, QueuesStay, wvars
<1>2. CASE HandshakeRecord \/ AlertRecord \/ AppDataRecord
  BY <1>2 DEF HandshakeRecord, AlertRecord, AppDataRecord, QueuesStay, wvars
<1>3. CASE Block \/ Renegotiate \/ \E d \in Datagrams : Receive(d)
  BY <1>3 DEF Block, Renegotiate, Receive, QueuesStay, wvars
<1>4. CASE UNCHANGED vars
  BY <1>4 DEF vars, QueuesStay
<1> QED  BY <1>1, <1>2, <1>3, <1>4

\* Every step, by what it does to the queues of the handshake.
LEMMA QueueSteps ==
  ASSUME [Next]_vars
  PROVE  \/ Again \/ ProcessBuffered \/ LoopDone \/ RetrieveProcessed \/ ReadRecord
         \/ ChangeCipherSpec \/ QueuesStay
  BY OtherSteps DEF Next, Step

\* Every step keeps the queue of waiting records in step with its epoch.
LEMMA EpochsStep ==
  ASSUME TypeOK, EpochsInStep, [Next]_vars
  PROVE  EpochsInStep'
<1>1. r_epoch \in Nat /\ u_epoch \in Nat /\ unprocessed \subseteq Items
  BY WindowAssumption DEF TypeOK
<1>e. \A x \in unprocessed : x.rec.epoch \in Nat
  BY <1>1, QueuedRecord, RecordFields
<1>2. CASE Again
  BY <1>1, <1>2 DEF Again, EpochsInStep, wvars
<1>3. CASE ProcessBuffered
  <2>1. pc = "loop" /\ UNCHANGED <<r_epoch, u_epoch>>
    BY <1>3, LoopTurn
  <2> PICK x \in unprocessed : unprocessed' = unprocessed \ {x}
    BY <1>3, LoopTurn
  <2> QED  BY <1>1, <2>1 DEF EpochsInStep
<1>4. CASE LoopDone
  BY <1>1, <1>4 DEF LoopDone, EpochsInStep, wvars
<1>5. CASE RetrieveProcessed
  BY <1>1, <1>5 DEF RetrieveProcessed, EpochsInStep, wvars
<1>6. CASE ReadRecord
  <2>1. UNCHANGED <<r_epoch, u_epoch>> /\ pc' # "loop"
    BY <1>6, WireTurn
  <2>2. CASE unprocessed' = unprocessed
    BY <2>1, <2>2 DEF EpochsInStep
  <2>3. CASE unprocessed' # unprocessed
    <3> PICK r \in Records : \E rest : NextEpoch(r) /\ unprocessed' = unprocessed \cup {Item(r, rest)}
      BY <1>6, <2>3, WireTurn
    <3> PICK rest : NextEpoch(r) /\ unprocessed' = unprocessed \cup {Item(r, rest)}
      OBVIOUS
    <3>1. r.epoch = r_epoch + 1 /\ u_epoch # r_epoch /\ Item(r, rest).rec = r
      BY ItemFields DEF NextEpoch
    <3>2. r.epoch > 0 /\ (u_epoch >= r_epoch => r.epoch = u_epoch)
      BY <1>1, <3>1 DEF EpochsInStep
    <3> QED  BY <2>1, <3>1, <3>2 DEF EpochsInStep
  <2> QED  BY <2>2, <2>3
<1>7. CASE ChangeCipherSpec
  <2>1. r_epoch' = r_epoch + 1 /\ UNCHANGED <<u_epoch, unprocessed>> /\ pc' # "loop"
    BY <1>7 DEF ChangeCipherSpec
  <2> QED  BY <1>1, <2>1 DEF EpochsInStep
<1>8. CASE QueuesStay
  BY <1>8 DEF QueuesStay, EpochsInStep
<1> QED  BY <1>2, <1>3, <1>4, <1>5, <1>6, <1>7, <1>8, QueueSteps

\* Every step keeps ChangeCipherSpec behind the records of the loop.
LEMMA NothingLeftStep ==
  ASSUME TypeOK, TypeOK', EpochsInStep, NothingLeft, [Next]_vars
  PROVE  NothingLeft'
<1> DEFINE Plain(x) == TypeOf(x.rec) \in {"handshake", "alert"}
<1>0. \A x \in unprocessed \cup processed : Plain(x)
  BY DEF NothingLeft
<1>1. \A x \in unprocessed' \cup processed' : Plain(x)
  <2>1. CASE Again \/ LoopDone
    BY <1>0, <2>1 DEF Again, LoopDone
  <2>2. CASE ProcessBuffered
    <3> PICK x \in unprocessed :
            /\ unprocessed' = unprocessed \ {x}
            /\ processed' = processed \/ processed' = processed \cup {Item(x.rec, x.rest)}
      BY <2>2, LoopTurn
    <3>1. Plain(Item(x.rec, x.rest))
      BY <1>0, ItemFields
    <3> QED  BY <1>0, <3>1
  <2>3. CASE RetrieveProcessed
    BY <1>0, <2>3 DEF RetrieveProcessed
  <2>4. CASE ReadRecord
    <3>1. processed' = processed
      BY <2>4, WireTurn
    <3>2. CASE unprocessed' # unprocessed
      <4> PICK r \in Records : \E rest : NextEpoch(r) /\ unprocessed' = unprocessed \cup {Item(r, rest)}
        BY <2>4, <3>2, WireTurn
      <4> PICK rest : NextEpoch(r) /\ unprocessed' = unprocessed \cup {Item(r, rest)}
        OBVIOUS
      <4>1. Plain(Item(r, rest))
        BY ItemFields DEF NextEpoch
      <4> QED  BY <1>0, <3>1, <4>1
    <3> QED  BY <1>0, <3>1, <3>2
  <2>5. CASE ChangeCipherSpec
    BY <1>0, <2>5 DEF ChangeCipherSpec
  <2>6. CASE QueuesStay
    BY <1>0, <2>6 DEF QueuesStay
  <2> QED  BY <2>1, <2>2, <2>3, <2>4, <2>5, <2>6, QueueSteps
<1>2. ASSUME rrec' # NULL, TypeOf(rrec)' = "change_cipher_spec", in_init'
      PROVE  processed' = {}
  <2>1. CASE TakeAppData
    BY <1>2, <2>1 DEF TakeAppData, hvars
  <2>2. CASE RetrieveProcessed
    <3> PICK x \in processed : rrec' = x.rec
      BY <2>2, FirstIsMember DEF RetrieveProcessed
    <3>1. TypeOf(x.rec) \in {"handshake", "alert"}
      BY <1>0
    <3> QED  BY <1>2, <3>1 DEF TypeOf
  <2>3. CASE ReadRecord
    BY <2>3, WireTurn
  <2>4. CASE UNCHANGED vars
    BY <1>2, <2>4 DEF vars, NothingLeft, TypeOf
  <2>5. CASE HoldBack \/ ChangeCipherSpec \/ DropRecord \/ HandshakeRecord \/ AlertRecord \/ AppDataRecord
    BY <1>2, <2>5 DEF HoldBack, ChangeCipherSpec, DropRecord, HandshakeRecord, AlertRecord, AppDataRecord
  <2>6. CASE ProcessBuffered
    BY <1>2, <2>6, LoopTurn
  <2>7. CASE CallGetRecord \/ Again \/ LoopDone
    BY <1>2, <2>7 DEF CallGetRecord, Again, LoopDone, TypeOK
  <2>8. CASE Block \/ Renegotiate \/ \E d \in Datagrams : Receive(d)
    BY <1>2, <2>8 DEF Block, Renegotiate, Receive, TypeOK
  <2> QED  BY <2>1, <2>2, <2>3, <2>4, <2>5, <2>6, <2>7, <2>8 DEF Next, Step
<1> QED  BY <1>1, <1>2 DEF NothingLeft, TypeOf

\* Every step keeps records and keys together.
LEMMA KeysStep ==
  ASSUME TypeOK, EpochsInStep, NothingLeft, RightKeys, Genuine, [Next]_vars
  PROVE  RightKeys' /\ Genuine'
<1>0. /\ r_epoch \in Nat /\ processed \subseteq Items /\ app_data \subseteq Items
      /\ NULL \notin Records
  BY WindowAssumption DEF TypeOK
<1>d. ASSUME NEW r \in Records, Taken(r), r.epoch > 0 PROVE r.genuine
  BY <1>0, <1>d, RecordFields DEF Taken, Decrypts
<1>1. \A x \in processed' : x.rec.epoch = r_epoch' /\ x.rec.genuine
  <2>1. CASE Again \/ LoopDone
    BY <2>1 DEF Again, LoopDone, wvars, RightKeys
  <2>2. CASE ProcessBuffered
    <3>1. r_epoch' = r_epoch
      BY <2>2, LoopTurn
    <3> PICK x \in unprocessed :
            /\ x.rec \in Records /\ x.rec.epoch = r_epoch
            /\ \/ processed' = processed
               \/ Taken(x.rec) /\ processed' = processed \cup {Item(x.rec, x.rest)}
      BY <2>2, LoopTurn
    <3>2. CASE processed' = processed
      BY <3>1, <3>2 DEF RightKeys
    <3>3. CASE Taken(x.rec) /\ processed' = processed \cup {Item(x.rec, x.rest)}
      <4>1. x.rec.genuine
        BY <1>d, <3>3 DEF EpochsInStep
      <4>2. Item(x.rec, x.rest).rec = x.rec
        BY ItemFields
      <4> QED  BY <3>1, <3>3, <4>1, <4>2 DEF RightKeys
    <3> QED  BY <3>2, <3>3
  <2>3. CASE RetrieveProcessed
    BY <2>3 DEF RetrieveProcessed, wvars, RightKeys
  <2>4. CASE ReadRecord
    BY <2>4, WireTurn
  <2>5. CASE ChangeCipherSpec
    <3>1. processed = {}
      BY <2>5, InHand, <1>0 DEF ChangeCipherSpec, Delivering, NothingLeft
    <3> QED  BY <2>5, <3>1 DEF ChangeCipherSpec
  <2>6. CASE QueuesStay
    BY <2>6 DEF QueuesStay, RightKeys
  <2> QED  BY <2>1, <2>2, <2>3, <2>4, <2>5, <2>6, QueueSteps
<1>2. /\ \A x \in Held : x.rec \in Records /\ (x.rec.epoch > 0 => x.rec.genuine)
      /\ rrec # NULL /\ rrec.epoch > 0 => rrec.genuine
  BY <1>0, QueuedRecord DEF Held, RightKeys, Genuine
<1>3. (rrec' # NULL /\ rrec'.epoch > 0 => rrec'.genuine) /\ Genuine'
  <2>1. CASE Stays
    BY <1>2, <2>1 DEF Stays, Genuine
  <2>2. CASE Fetched
    <3> PICK x \in Held : rrec' = x.rec
      BY <2>2 DEF Fetched
    <3>1. app_data' \subseteq app_data
      BY <2>2 DEF Fetched
    <3> QED  BY <1>2, <3>1 DEF Genuine
  <2>3. CASE Queued
    BY <2>3 DEF Queued, Genuine
  <2>4. CASE Read
    BY <1>d, <2>4 DEF Read, Genuine
  <2>5. CASE PutBack
    <3>1. rrec \in Records /\ rrec' = NULL /\ Item(rrec, rbuf).rec = rrec
      BY <2>5, ItemFields DEF PutBack
    <3>2. app_data' = app_data \/ app_data' = app_data \cup {Item(rrec, rbuf)}
      BY <2>5 DEF PutBack
    <3> QED  BY <1>0, <1>2, <3>1, <3>2 DEF Genuine
  <2>6. CASE Consumed
    BY <2>6 DEF Consumed, Genuine
  <2> QED  BY <2>1, <2>2, <2>3, <2>4, <2>5, <2>6, RecordMoves
<1> QED  BY <1>1, <1>3 DEF RightKeys

\* A set grows by at most one element when one is added.
LEMMA AddedOne ==
  ASSUME NEW S, IsFiniteSet(S), NEW x
  PROVE  IsFiniteSet(S \cup {x}) /\ Cardinality(S \cup {x}) <= Cardinality(S) + 1
         /\ Cardinality(S) \in Nat /\ Cardinality(S \cup {x}) \in Nat
  BY FS_AddElement, FS_CardinalityType

\* A set shrinks by one element when one of its own is removed.
LEMMA RemovedOne ==
  ASSUME NEW S, IsFiniteSet(S), NEW x \in S
  PROVE  IsFiniteSet(S \ {x}) /\ Cardinality(S \ {x}) = Cardinality(S) - 1
         /\ Cardinality(S) \in Nat /\ Cardinality(S \ {x}) \in Nat
  BY FS_RemoveElement, FS_CardinalityType

\* Every step keeps the queues within their limit.
LEMMA BoundedStep ==
  ASSUME TypeOK, EpochsInStep, NothingLeft, Bounded, [Next]_vars
  PROVE  Bounded'
<1>0. r_epoch \in Nat /\ u_epoch \in Nat /\ QueueLimit \in Nat /\ NULL \notin Records
  BY WindowAssumption DEF TypeOK
<1>1. /\ IsFiniteSet(unprocessed) /\ IsFiniteSet(processed)
      /\ Cardinality(unprocessed) \in Nat /\ Cardinality(processed) \in Nat
      /\ Cardinality(unprocessed) <= QueueLimit
      /\ u_epoch = r_epoch => Cardinality(processed) + Cardinality(unprocessed) <= QueueLimit
  BY FS_CardinalityType DEF Bounded
<1>2. CASE Again \/ LoopDone
  BY <1>0, <1>1, <1>2 DEF Again, LoopDone, wvars, Bounded
<1>3. CASE ProcessBuffered
  <2>1. UNCHANGED <<r_epoch, u_epoch>> /\ u_epoch = r_epoch
    BY <1>3, LoopTurn DEF EpochsInStep
  <2> PICK x \in unprocessed :
          /\ unprocessed' = unprocessed \ {x}
          /\ processed' = processed \/ processed' = processed \cup {Item(x.rec, x.rest)}
    BY <1>3, LoopTurn
  <2>2. /\ IsFiniteSet(unprocessed') /\ Cardinality(unprocessed') \in Nat
        /\ Cardinality(unprocessed') = Cardinality(unprocessed) - 1
    BY <1>1, RemovedOne
  <2>3. /\ IsFiniteSet(processed') /\ Cardinality(processed') \in Nat
        /\ Cardinality(processed') <= Cardinality(processed) + 1
    <3>1. CASE processed' = processed
      BY <1>1, <3>1
    <3>2. CASE processed' = processed \cup {Item(x.rec, x.rest)}
      BY <1>1, <3>2, AddedOne
    <3> QED  BY <3>1, <3>2
  <2> QED  BY <1>0, <1>1, <2>1, <2>2, <2>3 DEF Bounded
<1>4. CASE RetrieveProcessed
  <2>1. UNCHANGED <<r_epoch, u_epoch, unprocessed>>
    BY <1>4 DEF RetrieveProcessed, wvars
  <2> PICK x \in processed : processed' = processed \ {x}
    BY <1>4, FirstIsMember DEF RetrieveProcessed
  <2>2. /\ IsFiniteSet(processed') /\ Cardinality(processed') \in Nat
        /\ Cardinality(processed') = Cardinality(processed) - 1
    BY <1>1, RemovedOne
  <2> QED  BY <1>0, <1>1, <2>1, <2>2 DEF Bounded
<1>5. CASE ReadRecord
  <2>1. UNCHANGED <<r_epoch, u_epoch, processed>>
    BY <1>5, WireTurn
  <2>2. CASE unprocessed' = unprocessed
    BY <2>1, <2>2 DEF Bounded
  <2>3. CASE unprocessed' # unprocessed
    <3> PICK r \in Records : \E rest :
            /\ NextEpoch(r)
            /\ unprocessed' = unprocessed \cup {Item(r, rest)} /\ ~Full(unprocessed)
      BY <1>5, <2>3, WireTurn
    <3> PICK rest :
            /\ NextEpoch(r)
            /\ unprocessed' = unprocessed \cup {Item(r, rest)} /\ ~Full(unprocessed)
      OBVIOUS
    <3>1. u_epoch # r_epoch
      BY DEF NextEpoch
    <3>2. /\ IsFiniteSet(unprocessed') /\ Cardinality(unprocessed') \in Nat
          /\ Cardinality(unprocessed') <= Cardinality(unprocessed) + 1
      BY <1>1, AddedOne
    <3>3. Cardinality(unprocessed) < QueueLimit
      BY <1>0, <1>1 DEF Full
    <3> QED  BY <1>0, <1>1, <2>1, <3>1, <3>2, <3>3 DEF Bounded
  <2> QED  BY <2>2, <2>3
<1>6. CASE ChangeCipherSpec
  <2>1. processed = {}
    BY <1>0, <1>6, InHand DEF ChangeCipherSpec, Delivering, NothingLeft
  <2>2. UNCHANGED <<unprocessed, processed>>
    BY <1>6 DEF ChangeCipherSpec
  <2>3. Cardinality(processed) = 0
    BY <2>1, FS_EmptySet
  <2> QED  BY <1>0, <1>1, <2>2, <2>3 DEF Bounded
<1>7. CASE QueuesStay
  BY <1>7 DEF QueuesStay, Bounded
<1> QED  BY <1>2, <1>3, <1>4, <1>5, <1>6, <1>7, QueueSteps

----------------------------------------------------------------------------
(* Theorems.                                                               *)

\* The invariant holds at the start.
LEMMA InitIInv ==
  ASSUME Init
  PROVE  IInv
<1>1. TypeOK
  <2>1. r_epoch \in 0..MaxEpoch /\ u_epoch \in 0..(MaxEpoch + 1)
    BY WindowAssumption DEF Init
  <2>2. bitmap \in [max : 0..MaxSeq, map : SUBSET (0..(W - 1))]
    BY WindowAssumption DEF Init, EmptyBitmap
  <2>3. unprocessed \subseteq Items /\ processed \subseteq Items /\ app_data \subseteq Items
    BY DEF Init
  <2>4. rbuf \in Seq(Records) /\ got \in [Ids -> 0..2]
    BY DEF Init
  <2> QED  BY <2>1, <2>2, <2>3, <2>4 DEF Init, TypeOK
<1>2. WindowExact /\ MaxSeen /\ GotSeen /\ NoReplay
  BY WindowAssumption DEF Init, WindowExact, EmptyBitmap, MaxSeen, GotSeen, NoReplay
<1>3. HeldOnce /\ NothingLeft /\ RightKeys /\ Genuine
  BY DEF Init, HeldOnce, Held, NothingLeft, RightKeys, Genuine
<1>4. EpochsInStep /\ Bounded
  BY WindowAssumption, FS_EmptySet DEF Init, EpochsInStep, Bounded
<1> QED  BY <1>1, <1>2, <1>3, <1>4 DEF IInv

\* The invariant is inductive.
LEMMA NextIInv ==
  ASSUME IInv, [Next]_vars
  PROVE  IInv'
<1>1. TypeOK'
  BY TypeStep DEF IInv
<1>2. WindowExact' /\ MaxSeen'
  BY WindowStep DEF IInv
<1>3. HeldOnce' /\ GotSeen' /\ NoReplay'
  BY HeldStep DEF IInv
<1>4. EpochsInStep' /\ NothingLeft'
  BY <1>1, EpochsStep, NothingLeftStep DEF IInv
<1>5. RightKeys' /\ Genuine'
  BY KeysStep DEF IInv
<1>6. Bounded'
  BY BoundedStep DEF IInv
<1> QED  BY <1>1, <1>2, <1>3, <1>4, <1>5, <1>6 DEF IInv

\* The inductive invariant holds throughout.
LEMMA Invariance == Spec => []IInv
<1>1. Init => IInv
  BY InitIInv
<1>2. IInv /\ [Next]_vars => IInv'
  BY NextIInv
<1> QED  BY <1>1, <1>2, PTL DEF Spec

\* The record layer keeps its types, whatever the network delivers.
THEOREM RecordTypes == Spec => []TypeOK
<1>1. IInv => TypeOK
  BY DEF IInv
<1> QED  BY <1>1, Invariance, PTL

\* dtls1_record_replay_check and dtls1_record_bitmap_update: for every width of the
\* window, wherever satsub64be saturates beyond it, the window is exact.
THEOREM WindowIsExact == Spec => []WindowExact
<1>1. IInv => WindowExact
  BY DEF IInv
<1> QED  BY <1>1, Invariance, PTL

\* No record is handed to its reader twice, through whichever queue it came.
THEOREM NeverReplayed == Spec => []NoReplay
<1>1. IInv => NoReplay
  BY DEF IInv
<1> QED  BY <1>1, Invariance, PTL

\* A record that waited is decrypted with the keys of its own epoch, and what is
\* handed up of an encrypted epoch is genuine.
THEOREM KeysAreRight == Spec => []RightKeys
<1>1. IInv => RightKeys
  BY DEF IInv
<1> QED  BY <1>1, Invariance, PTL

\* dtls1_buffer_record never refuses a record in dtls1_process_buffered_records,
\* whatever the limit of the queues.
THEOREM LoopAlwaysFits == Spec => []LoopFits
<1>1. IInv => LoopFits
  BY DEF IInv, LoopFits, EpochsInStep, Bounded
<1> QED  BY <1>1, Invariance, PTL

\* dtls1_get_record refuses no record that is intact, new and not behind the window.
THEOREM FreshIsAccepted == Spec => FreshAccepted
<1> DEFINE r == Head(rbuf)
           A == ReadRecord =>
                  (/\ Current(r) /\ Decrypts(r)
                   /\ Id(r) \notin seen
                   /\ \A n \in (r.seq + W)..MaxSeq : <<r_epoch, n>> \notin seen
                   => Id(r) \in seen')
<1>1. IInv /\ [Next]_vars => [A]_vars
  <2> SUFFICES ASSUME IInv, ReadRecord, Current(r), Decrypts(r), Id(r) \notin seen,
                      \A n \in (r.seq + W)..MaxSeq : <<r_epoch, n>> \notin seen
               PROVE  Id(r) \in seen'
    OBVIOUS
  <2>1. r \in Records
    BY NextOfDatagram DEF ReadRecord, IInv, TypeOK
  <2>2. /\ r_epoch \in Nat /\ bitmap \in Bitmaps /\ Exact(r_epoch, bitmap, seen)
        /\ MaxSeen /\ W \in Nat \ {0} /\ MaxSeq \in Nat
    BY WindowAssumption DEF IInv, TypeOK, WindowExact, Exact, Bitmaps
  <2>3. r.seq \in 0..MaxSeq /\ Id(r) = <<r_epoch, r.seq>>
    BY <2>1, RecordFields DEF Current
  <2>4. ReplayCheck(bitmap, r.seq)
    <3> SUFFICES ASSUME ~ReplayCheck(bitmap, r.seq) PROVE FALSE
      OBVIOUS
    <3> DEFINE m == bitmap.max
               k == r.seq
    <3>1. m \in 0..MaxSeq /\ k \in 0..MaxSeq
      BY <2>2, <2>3 DEF Bitmaps
    <3>2. m - k >= W
      BY <2>2, <2>3, RefusedIsOld
    <3>3. m = 0 \/ <<r_epoch, m>> \in seen
      BY <2>2 DEF MaxSeen
    <3>4. \A n \in (k + W)..MaxSeq : <<r_epoch, n>> \notin seen
      OBVIOUS
    <3> HIDE DEF m, k
    <3> QED  BY <2>2, <3>1, <3>2, <3>3, <3>4
  <2>5. Accept(r)
    BY <2>1, <2>4, WindowAssumption DEF ReadRecord, NextEpoch, Current, Records, IInv, TypeOK
  <2> QED  BY <2>5 DEF Accept
<1> QED  BY <1>1, Invariance, PTL DEF Spec, FreshAccepted
=============================================================================
