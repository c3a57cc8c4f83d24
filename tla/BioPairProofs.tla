---------------------------- MODULE BioPairProofs ----------------------------
(***************************************************************************)
(* Proofs about module BioPair, for any number of BIOs, any sizes of their  *)
(* buffers and calls of any length.                                         *)
(***************************************************************************)
EXTENDS BioPair, SequenceTheorems, TLAPS

\* The place lent to a writer is not one the reader has still to read.
LentIsFree == \A b \in BIOs : lent[b] # {} => len[b] # size[b]

\* There is a buffer for every BIO.
Buffers == buf = [b \in BIOs |-> buf[b]]

IInv == TypeOK /\ Buffers /\ RingConsistent /\ LentWhileFilled /\ LentIsFree

----------------------------------------------------------------------------
(* The ring, as a matter of numbers.                                       *)

\* What the fields of one BIO are.
RingOf(b) ==
    /\ size[b] \in Nat \ {0} /\ len[b] \in Nat /\ offset[b] \in Nat
    /\ len[b] <= size[b] /\ offset[b] < size[b]

\* The ring of a BIO is well formed.
LEMMA Ring ==
  ASSUME TypeOK, RingConsistent, NEW b \in BIOs
  PROVE  RingOf(b)
  BY DEF TypeOK, RingConsistent, RingOf

\* The loop of bio_read ends where the ring begins again after k bytes.
LEMMA ReadOffsetIs ==
  ASSUME NEW w \in BIOs, RingOf(w), NEW k \in 1..len[w]
  PROVE  ReadOffset(w, k) = IF len[w] = k THEN 0 ELSE Wrapped(w, offset[w] + k)
<1> DEFINE s == size[w]
           o == offset[w]
           l == len[w]
<1>1. s \in Nat \ {0} /\ l \in Nat /\ o \in Nat /\ l <= s /\ o < s /\ k \in 1..l
  BY DEF RingOf
<1>2. CASE o + k <= s
  <2>1. Chunk(w, o, k) = k
    BY <1>2 DEF Chunk
  <2>2. ReadOffset(w, k) = OffsetAfter(w, l, o, k)
    BY <2>1, <1>1 DEF ReadOffset
  <2> QED  BY <1>1, <1>2, <2>2 DEF OffsetAfter, Wrapped
<1>3. CASE ~(o + k <= s)
  <2> DEFINE c == s - o
  <2>1. Chunk(w, o, k) = c
    BY <1>3 DEF Chunk
  <2>2. c \in Nat \ {0} /\ k - c \in Nat \ {0} /\ l - c # 0 /\ o + c = s /\ k - c < s
    BY <1>1, <1>3
  <2>3. OffsetAfter(w, l, o, c) = 0 /\ Chunk(w, 0, k - c) = k - c
    BY <1>1, <2>2 DEF OffsetAfter, Chunk
  <2>4. ReadOffset(w, k) = OffsetAfter(w, l - c, 0, k - c)
    BY <2>1, <2>2, <2>3 DEF ReadOffset
  <2>5. (l - c) - (k - c) = l - k /\ 0 + (k - c) = o + k - s
    BY <1>1
  <2>6. OffsetAfter(w, l - c, 0, k - c) = IF l - k = 0 THEN 0 ELSE o + k - s
    BY <2>2, <2>5 DEF OffsetAfter
  <2>7. Wrapped(w, o + k) = o + k - s
    BY <1>1, <1>3 DEF Wrapped
  <2>8. l - k = 0 <=> l = k
    BY <1>1
  <2> QED  BY <2>4, <2>6, <2>7, <2>8
<1> QED  BY <1>2, <1>3

\* The bytes it copies are the oldest of the ring.
LEMMA ReadBytesIs ==
  ASSUME NEW w \in BIOs, RingOf(w), NEW k \in 1..len[w]
  PROVE  ReadBytes(w, k) = [i \in 1..k |-> buf[w][Wrapped(w, offset[w] + i - 1)]]
<1> DEFINE c1 == Chunk(w, offset[w], k)
           o1 == OffsetAfter(w, len[w], offset[w], c1)
<1>1. ASSUME NEW i \in 1..k
      PROVE  Wrapped(w, offset[w] + i - 1) = IF i <= c1 THEN offset[w] + i - 1 ELSE o1 + i - c1 - 1
  BY DEF RingOf, Chunk, OffsetAfter, Wrapped
<1> HIDE DEF c1, o1
<1>2. ReadBytes(w, k) = [i \in 1..k |-> IF i <= c1 THEN buf[w][offset[w] + i - 1] ELSE buf[w][o1 + i - c1 - 1]]
  BY DEF ReadBytes, c1, o1
<1> QED  BY <1>1, <1>2

\* The non-copying calls end there too.
LEMMA NreadOffsetIs ==
  ASSUME NEW w \in BIOs, RingOf(w), len[w] > 0, NEW k \in 1..Contiguous(w)
  PROVE  /\ Contiguous(w) \in 1..len[w] /\ k \in 1..len[w]
         /\ OffsetAfter(w, len[w], offset[w], k) = IF len[w] = k THEN 0 ELSE Wrapped(w, offset[w] + k)
         /\ \A i \in 1..k : Wrapped(w, offset[w] + i - 1) = offset[w] + i - 1
  BY DEF RingOf, Contiguous, OffsetAfter, Wrapped

\* Where bytes are written: behind what the ring holds, and not on it.
LEMMA WriteOffsetIs ==
  ASSUME NEW b \in BIOs, RingOf(b), len[b] # size[b]
  PROVE  /\ WriteOffset(b) \in 0..(size[b] - 1)
         /\ ContiguousSpace(b) \in 1..(size[b] - len[b])
         /\ \A i \in 1..ContiguousSpace(b) : WriteOffset(b) + i - 1 = Wrapped(b, offset[b] + (len[b] + i) - 1)
         /\ WriteOffset(b) \in Space(b) /\ Space(b) \subseteq 0..(size[b] - 1)
         /\ \A i \in 1..len[b] : Wrapped(b, offset[b] + i - 1) \notin Space(b)
<1> DEFINE at == WriteOffset(b)
           sp == ContiguousSpace(b)
           s == size[b]
           l == len[b]
           o == offset[b]
<1>1. s \in Nat \ {0} /\ l \in Nat /\ o \in Nat /\ l < s /\ o < s
  BY DEF RingOf
<1>2. /\ at = IF o + l >= s THEN o + l - s ELSE o + l
      /\ sp = IF at + (s - l) > s THEN s - at ELSE s - l
  <2>1. at = IF o + l >= s THEN o + l - s ELSE o + l
    BY <1>1 DEF WriteOffset, Wrapped
  <2>2. at \in Int
    BY <1>1, <2>1
  <2>3. sp = IF at + (s - l) > s THEN s - at ELSE s - l
    BY <1>1, <2>2, SMTT(30) DEF ContiguousSpace
  <2> QED  BY <2>1, <2>3
<1>3. \A i \in Int : Wrapped(b, o + i - 1) = IF o + i - 1 >= s THEN o + i - 1 - s ELSE o + i - 1
  BY <1>1 DEF Wrapped
<1>4. Space(b) = at..(at + sp - 1)
  BY DEF Space
<1> HIDE DEF at, sp, s, l, o
<1>5. at \in 0..(s - 1) /\ sp \in 1..(s - l) /\ at + sp <= s
  BY <1>1, <1>2
<1>6. ASSUME NEW i \in 1..sp PROVE at + i - 1 = Wrapped(b, o + (l + i) - 1)
  <2>1. l + i \in Int /\ Wrapped(b, o + (l + i) - 1) = IF o + (l + i) - 1 >= s THEN o + (l + i) - 1 - s ELSE o + (l + i) - 1
    BY <1>1, <1>3, <1>5
  <2> QED  BY <1>1, <1>2, <1>5, <2>1
<1>7. ASSUME NEW i \in 1..l PROVE Wrapped(b, o + i - 1) \notin at..(at + sp - 1)
  <2>1. Wrapped(b, o + i - 1) = IF o + i - 1 >= s THEN o + i - 1 - s ELSE o + i - 1
    BY <1>1, <1>3
  <2> QED  BY <1>1, <1>2, <1>5, <2>1
<1>8. at \in at..(at + sp - 1) /\ at..(at + sp - 1) \subseteq 0..(s - 1)
  BY <1>1, <1>5
<1> QED  BY <1>4, <1>5, <1>6, <1>7, <1>8 DEF at, sp, s, l, o

\* Every byte of the ring is in the buffer.
LEMMA WrappedInBuffer ==
  ASSUME NEW b \in BIOs, RingOf(b), NEW i \in 1..size[b]
  PROVE  Wrapped(b, offset[b] + i - 1) \in 0..(size[b] - 1)
  BY DEF RingOf, Wrapped

\* The loop of bio_write: the bytes already there stay, the new ones follow.
LEMMA WrittenIs ==
  ASSUME NEW b \in BIOs, RingOf(b), NEW d, NEW k \in 1..(size[b] - len[b]), Len(d) = k
  PROVE  /\ \A i \in 1..len[b] :
             Written(b, d)[Wrapped(b, offset[b] + i - 1)] = buf[b][Wrapped(b, offset[b] + i - 1)]
         /\ \A i \in 1..k : Written(b, d)[Wrapped(b, offset[b] + (len[b] + i) - 1)] = d[i]
<1> DEFINE at == WriteOffset(b)
           c == Chunk(b, at, k)
           s == size[b]
           o == offset[b]
           l == len[b]
<1>1. s \in Nat /\ l \in Nat /\ o \in Nat /\ l <= s /\ o < s /\ k \in Nat /\ k >= 1 /\ k + l <= s
  BY DEF RingOf
<1>2. /\ at = IF o + l >= s THEN o + l - s ELSE o + l
      /\ c = IF at + k <= s THEN k ELSE s - at
  BY <1>1 DEF WriteOffset, Wrapped, Chunk
<1>3. at \in Int /\ c \in Int
  BY <1>1, <1>2
<1>4. Written(b, d) = [j \in 0..(s - 1) |->
                         IF j >= at /\ j < at + c THEN d[j - at + 1]
                         ELSE IF j < k - c THEN d[j + c + 1]
                         ELSE buf[b][j]]
  BY DEF Written
<1>5. ASSUME NEW i \in Nat, i >= 1, i <= l + k
      PROVE  LET q == Wrapped(b, o + i - 1)
             IN  /\ q \in 0..(s - 1)
                 /\ i <= l => ~(q >= at /\ q < at + c) /\ ~(q < k - c)
                 /\ i > l => \/ q >= at /\ q < at + c /\ q - at + 1 = i - l
                             \/ ~(q >= at /\ q < at + c) /\ q < k - c /\ q + c + 1 = i - l
  <2> DEFINE q == Wrapped(b, o + i - 1)
  <2>1. q = IF o + i - 1 >= s THEN o + i - 1 - s ELSE o + i - 1
    BY <1>1 DEF Wrapped
  <2>2. q \in Int
    BY <1>1, <2>1
  <2> HIDE DEF at, c, s, o, l, q
  <2>3. /\ q \in 0..(s - 1)
        /\ i <= l => ~(q >= at /\ q < at + c) /\ ~(q < k - c)
        /\ i > l => \/ q >= at /\ q < at + c /\ q - at + 1 = i - l
                    \/ ~(q >= at /\ q < at + c) /\ q < k - c /\ q + c + 1 = i - l
    <3>1. CASE o + l >= s
      BY <1>1, <1>2, <1>3, <1>5, <2>1, <2>2, <3>1
    <3>2. CASE ~(o + l >= s)
      BY <1>1, <1>2, <1>3, <1>5, <2>1, <2>2, <3>2
    <3> QED  BY <3>1, <3>2
  <2> QED  BY <2>3 DEF q
<1> DEFINE p(i) == Wrapped(b, o + i - 1)
<1>6. ASSUME NEW i \in 1..l PROVE Written(b, d)[p(i)] = buf[b][p(i)]
  <2>1. i \in Nat /\ i >= 1 /\ i <= l + k /\ i <= l
    BY <1>1
  <2>2. p(i) \in 0..(s - 1) /\ ~(p(i) >= at /\ p(i) < at + c) /\ ~(p(i) < k - c)
    BY <1>5, <2>1
  <2> HIDE DEF at, c, s, o, l, p
  <2> QED  BY <1>4, <2>2
<1>7. ASSUME NEW i \in 1..k PROVE Written(b, d)[p(l + i)] = d[i]
  <2>1. l + i \in Nat /\ l + i >= 1 /\ l + i <= l + k /\ l + i > l /\ (l + i) - l = i
    BY <1>1
  <2>2. /\ p(l + i) \in 0..(s - 1)
        /\ \/ p(l + i) >= at /\ p(l + i) < at + c /\ p(l + i) - at + 1 = i
           \/ ~(p(l + i) >= at /\ p(l + i) < at + c) /\ p(l + i) < k - c /\ p(l + i) + c + 1 = i
    BY <1>5, <2>1
  <2> HIDE DEF at, c, s, o, l, p
  <2> QED  BY <1>4, <2>2
<1> QED  BY <1>6, <1>7

----------------------------------------------------------------------------
(* What the calls do, in terms of the ring.                                *)

\* The i-th byte of b's ring, counted from 1.
At(b, i) == Wrapped(b, offset[b] + i - 1)

Returned(b, call, n, data) ==
    [bio |-> b, call |-> call, n |-> n, data |-> data, retry |-> FALSE]
Retried(b, call) ==
    [bio |-> b, call |-> call, n |-> -1, data |-> <<>>, retry |-> TRUE]

\* What a read answers that finds nothing, or asks for nothing.
ReadAnswer(b, call) ==
    LET w == peer[b]
    IN  /\ call.name \in {"read", "nread", "nread0"}
        /\ \/ /\ w = NULL \/ call.ask = 0 \/ (len[w] = 0 /\ closed[w])
              /\ ret' = Returned(b, call, 0, <<>>)
           \/ w # NULL /\ len[w] = 0 /\ ~closed[w] /\ ret' = Retried(b, call)

\* What bio_nread0 shows.
PeekAnswer(b, call) ==
    LET w == peer[b]
    IN  /\ w # NULL
        /\ call.name = "nread0"
        /\ \E k \in 1..len[w] : ret' = Returned(b, call, k, [i \in 1..k |-> buf[w][At(w, i)]])

\* What a write answers that is refused, or asks for nothing.
WriteAnswer(b, call) ==
    /\ call.name \in {"write", "nwrite", "nwrite0"}
    /\ \/ (peer[b] = NULL \/ call.ask = 0) /\ ret' = Returned(b, call, 0, <<>>)
       \/ peer[b] # NULL /\ closed[b] /\ ret' = Returned(b, call, -1, <<>>)
       \/ peer[b] # NULL /\ ~closed[b] /\ len[b] = size[b] /\ ret' = Retried(b, call)

\* What bio_nwrite0 offers.
OfferAnswer(b, call) ==
    /\ peer[b] # NULL /\ ~closed[b]
    /\ call.name = "nwrite0"
    /\ \E k \in 1..(size[b] - len[b]) : ret' = Returned(b, call, k, <<>>)

\* Any other call.
ControlAnswer(b) == \E n \in {0, 1} : ret' = Returned(b, CONTROL, n, <<>>)

Answered(b) ==
    \/ \E call : ReadAnswer(b, call) \/ PeekAnswer(b, call) \/ WriteAnswer(b, call) \/ OfferAnswer(b, call)
    \/ ControlAnswer(b)

\* A call that moves no byte.
Quiet(b) ==
    /\ UNCHANGED <<live, peer, closed, len, offset, size, allocated, buf>>
    /\ request' \in [BIOs -> Nat] /\ lent' \in [BIOs -> SUBSET Nat]
    /\ \A c \in BIOs :
        /\ request'[c] = request[c] \/ request'[c] = 0 \/ (len[c] = 0 /\ request'[c] <= size[c])
        /\ \/ lent'[c] = lent[c] \/ lent'[c] = {}
           \/ lent'[c] = Space(c) /\ len[c] # size[c]
    /\ Answered(b)

\* b takes the k oldest bytes of its peer's ring.
Out(b, call, k) ==
    LET w == peer[b]
    IN  /\ w # NULL
        /\ k \in 1..len[w]
        /\ \/ call.name = "read" /\ k = Smaller(call.ask, len[w])
           \/ call.name = "nread" /\ k <= call.ask
        /\ len' = [len EXCEPT ![w] = len[w] - k]
        /\ offset' = [offset EXCEPT ![w] = IF len[w] = k THEN 0 ELSE Wrapped(w, offset[w] + k)]
        /\ ret' = Returned(b, call, k, [i \in 1..k |-> buf[w][At(w, i)]])
        /\ request' = [request EXCEPT ![w] = 0]
        /\ UNCHANGED <<live, peer, closed, size, allocated, buf, lent>>

\* b's ring grows by the k bytes d behind those it holds.
In(b, call, k, d, ring) ==
    /\ peer[b] # NULL /\ ~closed[b]
    /\ k \in 1..(size[b] - len[b])
    /\ \/ call.name = "write" /\ k = Smaller(call.ask, size[b] - len[b])
       \/ call.name = "nwrite" /\ k <= call.ask
    /\ d \in [1..k -> Bytes] /\ ring \in [0..(size[b] - 1) -> Bytes]
    /\ \A i \in 1..len[b] : ring[At(b, i)] = buf[b][At(b, i)]
    /\ \A i \in 1..k : ring[At(b, len[b] + i)] = d[i]
    /\ buf' = [buf EXCEPT ![b] = ring]
    /\ len' = [len EXCEPT ![b] = len[b] + k]
    /\ ret' = Returned(b, call, k, d)
    /\ request' = [request EXCEPT ![b] = 0]
    /\ lent' = [lent EXCEPT ![b] = {}]
    /\ UNCHANGED <<live, peer, closed, offset, size, allocated>>

\* The peer of a BIO is a BIO.
LEMMA PeerIsBIO ==
  ASSUME TypeOK, NEW b \in live, peer[b] # NULL
  PROVE  peer[b] \in BIOs
  BY DEF TypeOK

\* Calls that are no reads and no writes.
LEMMA ControlReturns ==
  ASSUME NEW b, NEW n \in {0, 1}, Return(b, CONTROL, n, <<>>)
  PROVE  Answered(b)
<1>1. ControlAnswer(b)
  BY DEF ControlAnswer, Return, Returned
<1> QED  BY <1>1 DEF Answered

\* Reads that move nothing.
LEMMA ReadReturns ==
  ASSUME NEW b, NEW call, call.name \in {"read", "nread", "nread0"}, Return(b, call, 0, <<>>),
         \/ peer[b] = NULL \/ call.ask = 0
         \/ len[peer[b]] = 0 /\ closed[peer[b]]
  PROVE  Answered(b)
<1>1. ReadAnswer(b, call)
  BY DEF ReadAnswer, Return, Returned
<1> QED  BY <1>1 DEF Answered

\* Writes that move nothing.
LEMMA WriteReturns ==
  ASSUME NEW b, NEW call, call.name \in {"write", "nwrite", "nwrite0"}, Return(b, call, 0, <<>>),
         peer[b] = NULL \/ call.ask = 0
  PROVE  Answered(b)
<1>1. WriteAnswer(b, call)
  BY DEF WriteAnswer, Return, Returned
<1> QED  BY <1>1 DEF Answered

\* A call on a BIO that has no peer.
LEMMA UnpairedIsQuiet ==
  ASSUME TypeOK, NEW b \in live, NEW call,
         call.name \in {"read", "nread", "nread0", "write", "nwrite", "nwrite0"}, Unpaired(b, call)
  PROVE  Quiet(b)
<1>0. peer[b] = NULL /\ Return(b, call, 0, <<>>)
  BY DEF Unpaired
<1>1. Answered(b)
  BY <1>0, ReadReturns, WriteReturns
<1> QED  BY <1>1 DEF Unpaired, Quiet, TypeOK

\* A read that finds nothing.
LEMMA ReadEmptyIsQuiet ==
  ASSUME TypeOK, NEW b \in live, peer[b] # NULL, NEW n \in Nat,
         NEW call, call.name \in {"read", "nread", "nread0"}, ReadEmpty(b, peer[b], n, call)
  PROVE  Quiet(b)
<1> DEFINE w == peer[b]
<1>0. w \in BIOs /\ w # NULL
  BY PeerIsBIO
<1>1. Answered(b)
  <2>1. ReadAnswer(b, call)
    <3>1. CASE closed[w]
      BY <3>1 DEF ReadEmpty, Return, Returned, ReadAnswer
    <3>2. CASE ~closed[w]
      BY <3>2, <1>0 DEF ReadEmpty, Retry, Retried, ReadAnswer
    <3> QED  BY <3>1, <3>2
  <2> QED  BY <2>1 DEF Answered
<1>2. /\ len[w] = 0 /\ UNCHANGED <<live, peer, closed, len, offset, size, allocated, buf, lent>>
      /\ request' = [request EXCEPT ![w] = 0] \/ request' = [request EXCEPT ![w] = Smaller(n, size[w])]
  BY DEF ReadEmpty
<1>3. request \in [BIOs -> Nat] /\ lent \in [BIOs -> SUBSET Nat] /\ size[w] \in Nat
  BY <1>0 DEF TypeOK
<1>4. Smaller(n, size[w]) \in Nat /\ Smaller(n, size[w]) <= size[w]
  BY <1>3 DEF Smaller
<1> HIDE DEF w
<1> QED  BY <1>0, <1>1, <1>2, <1>3, <1>4 DEF Quiet

\* A write that is refused.
LEMMA WriteRefusedIsQuiet ==
  ASSUME TypeOK, NEW b \in live, peer[b] # NULL,
         NEW call, call.name \in {"write", "nwrite", "nwrite0"}, WriteRefused(b, call)
  PROVE  Quiet(b)
<1>1. Answered(b)
  <2>1. WriteAnswer(b, call)
    BY DEF WriteRefused, Return, Returned, Retry, Retried, WriteAnswer
  <2> QED  BY <2>1 DEF Answered
<1>2. b \in BIOs
  BY DEF TypeOK
<1> QED  BY <1>1, <1>2 DEF WriteRefused, Quiet, TypeOK

\* bio_read, bio_nread0 and bio_nread.
LEMMA ReadEffect ==
  ASSUME TypeOK, RingConsistent, NEW b \in live,
         (\E n \in 0..MaxCall : bio_read(b, n) \/ bio_nread(b, n)) \/ bio_nread0(b)
  PROVE  Quiet(b) \/ \E call : \E k \in Nat : Out(b, call, k)
<1> DEFINE w == peer[b]
<1>1. ASSUME NEW call, call.name \in {"read", "nread", "nread0"}, Unpaired(b, call) PROVE Quiet(b)
  BY <1>1, UnpairedIsQuiet
<1>2. ASSUME w # NULL, NEW n \in Nat, NEW call, call.name \in {"read", "nread", "nread0"},
             ReadEmpty(b, w, n, call)
      PROVE  Quiet(b)
  BY <1>2, ReadEmptyIsQuiet
<1>t. 1 \in Nat /\ \A n \in 0..MaxCall : n \in Nat
  BY ConstantsAssumption
<1> SUFFICES ASSUME ~Quiet(b)
             PROVE  \E call : \E k \in Nat : Out(b, call, k)
  OBVIOUS
<1>3. CASE bio_nread0(b)
  <2>1. /\ w # NULL /\ len[w] > 0 /\ request' = [request EXCEPT ![w] = 0]
        /\ Return(b, NREAD0, Contiguous(w), [i \in 1..Contiguous(w) |-> buf[w][offset[w] + i - 1]])
        /\ UNCHANGED <<live, peer, closed, len, offset, size, allocated, buf, lent>>
    <3>1. NREAD0.name \in {"read", "nread", "nread0"}
      BY DEF NREAD0, Call
    <3>2. ~Unpaired(b, NREAD0) /\ ~(w # NULL /\ ReadEmpty(b, w, 1, NREAD0))
      BY <1>1, <1>2, <1>t, <3>1
    <3> QED  BY <1>3, <3>2 DEF bio_nread0
  <2>2. w \in BIOs /\ RingOf(w)
    BY <2>1, PeerIsBIO, Ring
  <2> DEFINE k == Contiguous(w)
  <2>3. k \in Nat /\ k >= 1
    BY <2>1, <2>2 DEF Contiguous, RingOf
  <2>4. k \in 1..len[w] /\ \A i \in 1..k : At(w, i) = offset[w] + i - 1
    BY <2>1, <2>2, <2>3, NreadOffsetIs DEF At
  <2> HIDE DEF k
  <2>5. PeekAnswer(b, NREAD0)
    <3>1. NREAD0.name = "nread0"
      BY DEF NREAD0, Call
    <3> QED  BY <2>1, <2>4, <3>1 DEF PeekAnswer, Return, Returned, k
  <2>6. request \in [BIOs -> Nat] /\ lent \in [BIOs -> SUBSET Nat]
    BY DEF TypeOK
  <2>7. Answered(b)
    BY <2>5 DEF Answered
  <2> QED  BY <2>1, <2>2, <2>6, <2>7 DEF Quiet
<1>4. ASSUME NEW n \in 0..MaxCall, bio_nread(b, n)
      PROVE  \E call : \E k \in Nat : Out(b, call, k)
  <2> DEFINE k == Smaller(n, Contiguous(w))
             call == Call("nread", n)
  <2>0. call.name = "nread" /\ call.ask = n
    BY DEF Call
  <2>1. /\ w # NULL /\ len[w] > 0 /\ request' = [request EXCEPT ![w] = 0]
        /\ IF k = 0
           THEN UNCHANGED <<len, offset>>
           ELSE /\ len' = [len EXCEPT ![w] = len[w] - k]
                /\ offset' = [offset EXCEPT ![w] = OffsetAfter(w, len[w], offset[w], k)]
        /\ Return(b, call, k, [i \in 1..k |-> buf[w][offset[w] + i - 1]])
        /\ UNCHANGED <<live, peer, closed, size, allocated, buf, lent>>
    <3>1. ~Unpaired(b, call) /\ ~(w # NULL /\ ReadEmpty(b, w, 1, call))
      BY <1>1, <1>2, <1>t, <2>0
    <3> QED  BY <1>4, <3>1 DEF bio_nread
  <2>2. w \in BIOs /\ RingOf(w) /\ n \in Nat
    BY <1>t, <2>1, PeerIsBIO, Ring
  <2>3. Contiguous(w) \in Nat /\ Contiguous(w) >= 1
    BY <2>1, <2>2 DEF Contiguous, RingOf
  <2>4. k \in Nat /\ k <= Contiguous(w) /\ k <= n /\ (k = 0 => n = 0)
    BY <2>2, <2>3 DEF Smaller
  <2>6. request \in [BIOs -> Nat] /\ lent \in [BIOs -> SUBSET Nat]
    BY DEF TypeOK
  <2> HIDE DEF k, call
  <2>7. CASE k = 0
    <3>1. [i \in 1..k |-> buf[w][offset[w] + i - 1]] = <<>>
      BY <2>7
    <3>2. Answered(b)
      <4>1. Return(b, call, 0, <<>>)
        BY <2>1, <2>7, <3>1
      <4> QED  BY <2>0, <2>4, <2>7, <4>1, ReadReturns
    <3> QED  BY <2>1, <2>2, <2>6, <2>7, <3>2 DEF Quiet
  <2>8. CASE k # 0
    <3>1. k \in 1..Contiguous(w)
      BY <2>3, <2>4, <2>8
    <3>2. /\ k \in 1..len[w]
          /\ OffsetAfter(w, len[w], offset[w], k) = IF len[w] = k THEN 0 ELSE Wrapped(w, offset[w] + k)
          /\ \A i \in 1..k : At(w, i) = offset[w] + i - 1
      BY <2>1, <2>2, <3>1, NreadOffsetIs DEF At
    <3>3. [i \in 1..k |-> buf[w][offset[w] + i - 1]] = [i \in 1..k |-> buf[w][At(w, i)]]
      BY <3>2
    <3>4. Out(b, call, k)
      BY <2>0, <2>1, <2>4, <2>8, <3>2, <3>3 DEF Out, Return, Returned
    <3> QED  BY <2>4, <3>4
  <2> QED  BY <2>7, <2>8
<1>5. ASSUME NEW n \in 0..MaxCall, bio_read(b, n)
      PROVE  \E call : \E k \in Nat : Out(b, call, k)
  <2> DEFINE call == Call("read", n)
  <2>0. call.name = "read" /\ call.ask = n
    BY DEF Call
  <2>5. ~Unpaired(b, call) /\ ~(w # NULL /\ ReadEmpty(b, w, n, call))
    BY <1>1, <1>2, <1>t, <2>0
  <2>1. w # NULL /\ request' = [request EXCEPT ![w] = 0]
        /\ UNCHANGED <<live, peer, closed, size, allocated, buf, lent>>
    BY <1>5, <2>5 DEF bio_read
  <2>2. w \in BIOs /\ RingOf(w) /\ n \in Nat
    BY <1>t, <2>1, PeerIsBIO, Ring
  <2>6. request \in [BIOs -> Nat] /\ lent \in [BIOs -> SUBSET Nat]
    BY DEF TypeOK
  <2>3. CASE n = 0
    <3>1. Return(b, call, 0, <<>>) /\ UNCHANGED <<len, offset>>
      BY <1>5, <2>3, <2>5 DEF bio_read
    <3>2. Answered(b)
      BY <2>0, <2>3, <3>1, ReadReturns
    <3> QED  BY <2>1, <2>2, <2>6, <3>1, <3>2 DEF Quiet
  <2>4. CASE n # 0
    <3> DEFINE k == Smaller(n, len[w])
    <3>1. /\ len[w] > 0
          /\ len' = [len EXCEPT ![w] = len[w] - k]
          /\ offset' = [offset EXCEPT ![w] = ReadOffset(w, k)]
          /\ Return(b, call, k, ReadBytes(w, k))
      BY <1>5, <2>4, <2>5 DEF bio_read
    <3>2. k \in 1..len[w] /\ k \in Nat
      BY <2>2, <2>4, <3>1 DEF Smaller, RingOf
    <3>4. k = Smaller(call.ask, len[w])
      BY <2>0
    <3> HIDE DEF k, call
    <3>3. /\ ReadOffset(w, k) = IF len[w] = k THEN 0 ELSE Wrapped(w, offset[w] + k)
          /\ ReadBytes(w, k) = [i \in 1..k |-> buf[w][At(w, i)]]
      BY <2>2, <3>2, ReadOffsetIs, ReadBytesIs DEF At
    <3>5. Out(b, call, k)
      BY <2>0, <2>1, <3>1, <3>2, <3>3, <3>4 DEF Out, Return, Returned
    <3> QED  BY <3>2, <3>5
  <2> QED  BY <2>3, <2>4
<1> QED  BY <1>3, <1>4, <1>5

\* bio_write fills the buffer with bytes.
LEMMA WrittenType ==
  ASSUME NEW b \in BIOs, RingOf(b), NEW k \in 1..(size[b] - len[b]), NEW d \in [1..k -> Bytes],
         Len(d) = k, buf[b] \in [0..(size[b] - 1) -> Bytes]
  PROVE  Written(b, d) \in [0..(size[b] - 1) -> Bytes]
<1> DEFINE at == WriteOffset(b)
           c == Chunk(b, at, k)
           s == size[b]
<1>1. /\ s \in Nat /\ k \in Nat /\ at \in 0..(s - 1)
      /\ c = IF at + k <= s THEN k ELSE s - at
  BY WriteOffsetIs DEF RingOf, Chunk
<1>2. Written(b, d) = [j \in 0..(s - 1) |->
                         IF j >= at /\ j < at + c THEN d[j - at + 1]
                         ELSE IF j < k - c THEN d[j + c + 1]
                         ELSE buf[b][j]]
  BY DEF Written
<1> HIDE DEF at, c, s
<1>3. ASSUME NEW j \in 0..(s - 1)
      PROVE  /\ j >= at /\ j < at + c => j - at + 1 \in 1..k
             /\ j < k - c => j + c + 1 \in 1..k
  BY <1>1
<1>4. \A j \in 0..(s - 1) : /\ j >= at /\ j < at + c => d[j - at + 1] \in Bytes
                            /\ j < k - c => d[j + c + 1] \in Bytes
                            /\ buf[b][j] \in Bytes
  BY <1>3 DEF s
<1> QED  BY <1>2, <1>4 DEF s

\* The strings a caller may write are sequences.
LEMMA InputIsSequence ==
  ASSUME NEW d \in Inputs
  PROVE  d \in Seq(Data) /\ Len(d) \in Nat /\ d \in [1..Len(d) -> Data] /\ (d # <<>> => Len(d) # 0)
<1> PICK n \in 0..MaxCall : d \in [1..n -> Data]
  BY DEF Inputs
<1>1. n \in Nat
  BY ConstantsAssumption
<1>2. d \in Seq(Data) /\ Len(d) = n
  BY <1>1
<1> QED  BY <1>1, <1>2

\* bio_write, bio_nwrite0 and bio_nwrite.
LEMMA WriteEffect ==
  ASSUME TypeOK, Buffers, RingConsistent, NEW b \in live,
         \/ \E d \in Inputs : bio_write(b, d)
         \/ bio_nwrite0(b)
         \/ \E n \in 0..MaxCall : bio_nwrite(b, n)
  PROVE  Quiet(b) \/ \E call : \E k \in Nat : \E d, ring : In(b, call, k, d, ring)
<1>b. b \in BIOs /\ RingOf(b) /\ buf[b] \in [0..(size[b] - 1) -> Bytes]
  BY Ring DEF TypeOK
<1>t. request \in [BIOs -> Nat] /\ lent \in [BIOs -> SUBSET Nat]
  BY DEF TypeOK
<1>n. size[b] \in Nat /\ len[b] \in Nat /\ len[b] <= size[b]
  BY <1>b DEF RingOf
<1>1. ASSUME NEW call, call.name \in {"write", "nwrite", "nwrite0"}, Unpaired(b, call) PROVE Quiet(b)
  BY <1>1, UnpairedIsQuiet
<1>2. ASSUME NEW call, call.name \in {"write", "nwrite", "nwrite0"}, peer[b] # NULL, WriteRefused(b, call)
      PROVE  Quiet(b)
  BY <1>2, WriteRefusedIsQuiet
<1> SUFFICES ASSUME ~Quiet(b)
             PROVE  \E call : \E k \in Nat : \E d, ring : In(b, call, k, d, ring)
  OBVIOUS
<1>3. CASE bio_nwrite0(b)
  <2>0. NWRITE0.name = "nwrite0"
    BY DEF NWRITE0, Call
  <2>1. /\ peer[b] # NULL /\ ~closed[b] /\ len[b] # size[b]
        /\ request' = [request EXCEPT ![b] = 0]
        /\ lent' = [lent EXCEPT ![b] = Space(b)]
        /\ Return(b, NWRITE0, ContiguousSpace(b), <<>>)
        /\ UNCHANGED <<live, peer, closed, len, offset, size, allocated, buf>>
    <3>1. ~Unpaired(b, NWRITE0) /\ ~(peer[b] # NULL /\ WriteRefused(b, NWRITE0))
      BY <1>1, <1>2, <2>0
    <3> QED  BY <1>3, <3>1 DEF bio_nwrite0
  <2>2. Space(b) \in SUBSET Nat /\ ContiguousSpace(b) \in 1..(size[b] - len[b])
    <3>1. Space(b) \subseteq 0..(size[b] - 1) /\ ContiguousSpace(b) \in 1..(size[b] - len[b])
      BY <1>b, <2>1, WriteOffsetIs
    <3>2. 0..(size[b] - 1) \subseteq Nat
      BY <1>n
    <3> QED  BY <3>1, <3>2
  <2>3. Answered(b)
    <3>1. OfferAnswer(b, NWRITE0)
      BY <2>0, <2>1, <2>2 DEF OfferAnswer, Return, Returned
    <3> QED  BY <3>1 DEF Answered
  <2> QED  BY <1>b, <1>t, <2>1, <2>2, <2>3 DEF Quiet
<1>4. ASSUME NEW n \in 0..MaxCall, bio_nwrite(b, n)
      PROVE  \E call : \E k \in Nat : \E d, ring : In(b, call, k, d, ring)
  <2> DEFINE k == Smaller(n, ContiguousSpace(b))
             d == [i \in 1..k |-> buf[b][WriteOffset(b) + i - 1]]
             call == Call("nwrite", n)
  <2>0. call.name = "nwrite" /\ call.ask = n
    BY DEF Call
  <2>1. /\ peer[b] # NULL /\ ~closed[b] /\ len[b] # size[b]
        /\ len' = [len EXCEPT ![b] = len[b] + k]
        /\ Return(b, call, k, d)
        /\ request' = [request EXCEPT ![b] = 0]
        /\ lent' = [lent EXCEPT ![b] = {}]
        /\ UNCHANGED <<live, peer, closed, offset, size, allocated, buf>>
    <3>1. ~Unpaired(b, call) /\ ~(peer[b] # NULL /\ WriteRefused(b, call))
      BY <1>1, <1>2, <2>0
    <3> QED  BY <1>4, <3>1 DEF bio_nwrite
  <2>2. /\ n \in Nat /\ ContiguousSpace(b) \in 1..(size[b] - len[b])
        /\ \A i \in 1..ContiguousSpace(b) : WriteOffset(b) + i - 1 = At(b, len[b] + i)
    BY <1>b, <2>1, ConstantsAssumption, WriteOffsetIs DEF At
  <2>3. k \in Nat /\ k <= ContiguousSpace(b) /\ k <= size[b] - len[b] /\ k <= n /\ (k = 0 => n = 0)
    BY <1>n, <2>2 DEF Smaller
  <2>4. \A i \in 1..k : WriteOffset(b) + i - 1 = At(b, len[b] + i) /\ At(b, len[b] + i) \in 0..(size[b] - 1)
    <3> SUFFICES ASSUME NEW i \in 1..k
                 PROVE  WriteOffset(b) + i - 1 = At(b, len[b] + i) /\ At(b, len[b] + i) \in 0..(size[b] - 1)
      OBVIOUS
    <3> HIDE DEF k
    <3>1. i \in 1..ContiguousSpace(b) /\ len[b] + i \in 1..size[b]
      BY <1>n, <2>2, <2>3
    <3>2. At(b, len[b] + i) \in 0..(size[b] - 1)
      BY <1>b, <3>1, WrappedInBuffer DEF At
    <3> QED  BY <2>2, <3>1, <3>2
  <2> HIDE DEF k, call
  <2>5. d \in [1..k -> Bytes] /\ \A i \in 1..k : buf[b][At(b, len[b] + i)] = d[i]
    BY <1>b, <2>4
  <2>6. CASE k = 0
    <3>1. d = <<>>
      BY <2>6
    <3>2. Return(b, call, 0, <<>>)
      BY <2>1, <2>6, <3>1
    <3>3. Answered(b)
      BY <2>0, <2>3, <2>6, <3>2, WriteReturns
    <3>4. len' = len
      BY <1>b, <1>n, <2>1, <2>6 DEF TypeOK
    <3> QED  BY <1>b, <1>t, <2>1, <3>3, <3>4 DEF Quiet
  <2>7. CASE k # 0
    <3>1. k \in 1..(size[b] - len[b])
      BY <1>n, <2>3, <2>7
    <3> HIDE DEF d
    <3>2. buf' = [buf EXCEPT ![b] = buf[b]]
      BY <1>b, <2>1 DEF Buffers
    <3>3. In(b, call, k, d, buf[b])
      BY <1>b, <2>0, <2>1, <2>3, <2>5, <3>1, <3>2 DEF In, Return, Returned
    <3> QED  BY <2>3, <3>3
  <2> QED  BY <2>6, <2>7
<1>5. ASSUME NEW d \in Inputs, bio_write(b, d)
      PROVE  \E call : \E k \in Nat : \E e, ring : In(b, call, k, e, ring)
  <2> DEFINE call == Call("write", Len(d))
  <2>0. call.name = "write" /\ call.ask = Len(d)
    BY DEF Call
  <2>3. ~Unpaired(b, call) /\ ~(peer[b] # NULL /\ WriteRefused(b, call))
    BY <1>1, <1>2, <2>0
  <2>1. CASE d = <<>>
    <3>1. Return(b, call, 0, <<>>) /\ Len(d) = 0
          /\ UNCHANGED <<live, peer, closed, len, offset, size, request, allocated, buf, lent>>
      BY <1>5, <2>1 DEF bio_write
    <3>2. Answered(b)
      BY <2>0, <3>1, WriteReturns
    <3> QED  BY <1>t, <3>1, <3>2 DEF Quiet
  <2>2. CASE d # <<>>
    <3> DEFINE k == Smaller(Len(d), size[b] - len[b])
               e == [i \in 1..k |-> d[i]]
    <3>1. /\ peer[b] # NULL /\ ~closed[b] /\ len[b] # size[b]
          /\ buf' = [buf EXCEPT ![b] = Written(b, e)]
          /\ len' = [len EXCEPT ![b] = len[b] + k]
          /\ Return(b, call, k, e)
          /\ request' = [request EXCEPT ![b] = 0]
          /\ lent' = [lent EXCEPT ![b] = {}]
          /\ UNCHANGED <<live, peer, closed, offset, size, allocated>>
      BY <1>5, <2>2, <2>3 DEF bio_write, Unpaired
    <3>2. Len(d) \in Nat /\ d \in [1..Len(d) -> Data] /\ Len(d) # 0
      BY <2>2, InputIsSequence
    <3>3. k \in 1..(size[b] - len[b]) /\ k \in Nat /\ k <= Len(d)
      BY <1>n, <3>1, <3>2 DEF Smaller
    <3>8. k = Smaller(call.ask, size[b] - len[b])
      BY <2>0
    <3> HIDE DEF k, call
    <3>4. e \in [1..k -> Bytes] /\ Len(e) = k
      <4>1. \A i \in 1..k : i \in 1..Len(d)
        BY <3>2, <3>3
      <4>2. e \in [1..k -> Bytes]
        BY <3>2, <4>1 DEF Bytes
      <4>3. e \in Seq(Bytes) /\ DOMAIN e = 1..k
        BY <3>3, <4>2
      <4> QED  BY <3>3, <4>2, <4>3
    <3> HIDE DEF e
    <3>5. Written(b, e) \in [0..(size[b] - 1) -> Bytes]
      BY <1>b, <3>3, <3>4, WrittenType
    <3>6. /\ \A i \in 1..len[b] : Written(b, e)[At(b, i)] = buf[b][At(b, i)]
          /\ \A i \in 1..k : Written(b, e)[At(b, len[b] + i)] = e[i]
      BY <1>b, <3>3, <3>4, WrittenIs DEF At
    <3>7. In(b, call, k, e, Written(b, e))
      BY <2>0, <3>1, <3>3, <3>4, <3>5, <3>6, <3>8 DEF In, Return, Returned
    <3> QED  BY <3>3, <3>7
  <2> QED  BY <2>1, <2>2
<1> QED  BY <1>3, <1>4, <1>5

----------------------------------------------------------------------------
(* The invariant.                                                          *)

\* What the parts of the invariant say of one BIO.
LEMMA OneBIO ==
  ASSUME IInv, NEW b \in BIOs
  PROVE  /\ size[b] \in Nat \ {0} /\ len[b] \in Nat /\ offset[b] \in Nat /\ request[b] \in Nat
         /\ closed[b] \in BOOLEAN /\ peer[b] \in BIOs \cup {NULL} /\ lent[b] \in SUBSET Nat
         /\ buf[b] \in [0..(size[b] - 1) -> Bytes]
         /\ len[b] <= size[b] /\ offset[b] < size[b] /\ (len[b] = 0 => offset[b] = 0)
         /\ peer[b] = NULL => len[b] = 0
         /\ peer[b] # NULL => peer[b] \in BIOs /\ peer[peer[b]] = b /\ b \in allocated /\ peer[b] \in allocated
         /\ peer[b] # NULL /\ request[b] > 0 => len[b] = 0 /\ request[b] <= size[b]
         /\ lent[b] # {} => len[b] # size[b]
         /\ lent[b] # {} /\ len[b] > 0 => WriteOffset(b) \in lent[b] /\ lent[b] \subseteq Space(b)
  BY DEF IInv, TypeOK, RingConsistent, LentWhileFilled, LentIsFree

\* The fields are functions.
LEMMA FieldTypes ==
  ASSUME IInv
  PROVE  /\ live \subseteq BIOs /\ allocated \subseteq live
         /\ peer \in [BIOs -> BIOs \cup {NULL}] /\ closed \in [BIOs -> BOOLEAN]
         /\ len \in [BIOs -> Nat] /\ offset \in [BIOs -> Nat] /\ request \in [BIOs -> Nat]
         /\ size \in [BIOs -> Nat \ {0}] /\ lent \in [BIOs -> SUBSET Nat]
         /\ buf = [b \in BIOs |-> buf[b]]
         /\ NULL \notin BIOs
  BY ConstantsAssumption DEF IInv, TypeOK, Buffers

\* A ring that is not touched has the same free space.
LEMMA SameSpace ==
  ASSUME NEW c, UNCHANGED <<len[c], offset[c], size[c]>>
  PROVE  WriteOffset(c)' = WriteOffset(c) /\ Space(c)' = Space(c)
  BY DEF WriteOffset, Space, ContiguousSpace, Wrapped

\* A call that moves no byte keeps the invariant.
LEMMA QuietKeeps ==
  ASSUME IInv, NEW b \in live, Quiet(b)
  PROVE  IInv'
<1>1. /\ UNCHANGED <<live, peer, closed, len, offset, size, allocated, buf>>
      /\ request' \in [BIOs -> Nat] /\ lent' \in [BIOs -> SUBSET Nat]
      /\ \A c \in BIOs :
          /\ request'[c] = request[c] \/ request'[c] = 0 \/ (len[c] = 0 /\ request'[c] <= size[c])
          /\ \/ lent'[c] = lent[c] \/ lent'[c] = {}
             \/ lent'[c] = Space(c) /\ len[c] # size[c]
  BY DEF Quiet
<1>2. TypeOK' /\ Buffers'
  BY <1>1 DEF IInv, TypeOK, Buffers
<1>3. RingConsistent'
  BY <1>1 DEF IInv, RingConsistent
<1>4. \A c \in BIOs : WriteOffset(c)' = WriteOffset(c) /\ Space(c)' = Space(c)
  BY <1>1, SameSpace
<1>5. \A c \in BIOs : len[c] # size[c] => WriteOffset(c) \in Space(c)
  BY WriteOffsetIs, OneBIO DEF RingOf
<1>6. LentWhileFilled' /\ LentIsFree'
  BY <1>1, <1>4, <1>5 DEF IInv, LentWhileFilled, LentIsFree
<1> QED  BY <1>2, <1>3, <1>6 DEF IInv

\* Reading keeps the invariant: bytes leave the ring, the place to write stays.
LEMMA OutKeeps ==
  ASSUME IInv, NEW b \in live, NEW call, NEW k \in Nat, Out(b, call, k)
  PROVE  IInv'
<1> DEFINE w == peer[b]
           o == IF len[w] = k THEN 0 ELSE Wrapped(w, offset[w] + k)
<1>1. /\ w # NULL /\ k \in 1..len[w]
      /\ len' = [len EXCEPT ![w] = len[w] - k]
      /\ offset' = [offset EXCEPT ![w] = o]
      /\ request' = [request EXCEPT ![w] = 0]
      /\ UNCHANGED <<live, peer, closed, size, allocated, buf, lent>>
  BY DEF Out
<1>2. b \in BIOs /\ w \in BIOs
  BY <1>1, OneBIO, FieldTypes
<1>3. /\ size[w] \in Nat \ {0} /\ len[w] \in Nat /\ offset[w] \in Nat
      /\ len[w] <= size[w] /\ offset[w] < size[w]
      /\ lent[w] # {} => len[w] # size[w]
      /\ lent[w] # {} /\ len[w] > 0 => WriteOffset(w) \in lent[w] /\ lent[w] \subseteq Space(w)
  BY <1>2, OneBIO
<1>4. /\ o \in Nat /\ o < size[w] /\ len[w] - k \in Nat /\ len[w] - k <= size[w]
      /\ len[w] - k = 0 => o = 0
      /\ len[w] - k > 0 => Wrapped(w, o + (len[w] - k)) = WriteOffset(w)
  BY <1>1, <1>3 DEF Wrapped, WriteOffset
<1>5. len[w] > 0 /\ len[w] - k < size[w] /\ len[w] - k <= len[w]
  BY <1>1, <1>3
<1> HIDE DEF w, o
<1>6. /\ len'[w] = len[w] - k /\ offset'[w] = o /\ request'[w] = 0
      /\ \A c \in BIOs \ {w} : len'[c] = len[c] /\ offset'[c] = offset[c] /\ request'[c] = request[c]
      /\ len' \in [BIOs -> Nat] /\ offset' \in [BIOs -> Nat] /\ request' \in [BIOs -> Nat]
  BY <1>1, <1>2, <1>4, FieldTypes
<1>7. TypeOK' /\ Buffers'
  BY <1>1, <1>6 DEF IInv, TypeOK, Buffers
<1>8. \A c \in BIOs : /\ len'[c] <= size[c] /\ offset'[c] < size[c]
                      /\ len'[c] = 0 => offset'[c] = 0
                      /\ peer[c] = NULL => len'[c] = 0
                      /\ peer[c] # NULL /\ request'[c] > 0 => len'[c] = 0 /\ request'[c] <= size[c]
  <2>1. ASSUME NEW c \in BIOs, c # w
        PROVE  /\ len'[c] <= size[c] /\ offset'[c] < size[c]
               /\ len'[c] = 0 => offset'[c] = 0
               /\ peer[c] = NULL => len'[c] = 0
               /\ peer[c] # NULL /\ request'[c] > 0 => len'[c] = 0 /\ request'[c] <= size[c]
    BY <1>6, <2>1, OneBIO
  <2>2. peer[w] # NULL
    BY <1>1, <1>2, OneBIO, FieldTypes DEF w
  <2> QED  BY <1>4, <1>6, <2>1, <2>2
<1>9. RingConsistent'
  BY <1>1, <1>8 DEF IInv, RingConsistent
<1>10. ASSUME NEW c \in BIOs, lent'[c] # {}
       PROVE  /\ len'[c] # size'[c]
              /\ len'[c] > 0 => WriteOffset(c)' \in lent'[c] /\ lent'[c] \subseteq Space(c)'
  <2>1. CASE c = w
    <3>1. len'[c] = len[w] - k /\ size'[c] = size[w] /\ lent'[c] = lent[w] /\ lent[w] # {}
      BY <1>1, <1>6, <1>10, <2>1
    <3>2. ASSUME len[w] - k > 0
          PROVE  WriteOffset(c)' = WriteOffset(w) /\ Space(w) \subseteq Space(c)'
      <4>1. WriteOffset(c)' = WriteOffset(w)
        BY <1>1, <1>4, <1>6, <2>1, <3>2 DEF WriteOffset, Wrapped
      <4>2. ContiguousSpace(c)' = IF WriteOffset(w) + (size[w] - (len[w] - k)) > size[w]
                                  THEN size[w] - WriteOffset(w) ELSE size[w] - (len[w] - k)
        BY <3>1, <4>1 DEF ContiguousSpace
      <4>3. Space(c)' = WriteOffset(w)..(WriteOffset(w) + ContiguousSpace(c)' - 1)
        BY <4>1 DEF Space
      <4>4. WriteOffset(w) \in Nat
        BY <1>2, <1>3 DEF WriteOffset, Wrapped
      <4>5. ContiguousSpace(w) <= ContiguousSpace(c)'
        BY <1>1, <1>3, <4>2, <4>4, SMTT(30) DEF ContiguousSpace
      <4>6. ContiguousSpace(w) \in Int /\ ContiguousSpace(c)' \in Int
        BY <1>1, <1>3, <4>2, <4>4, SMTT(30) DEF ContiguousSpace
      <4> QED  BY <4>1, <4>3, <4>4, <4>5, <4>6 DEF Space
    <3> HIDE DEF w
    <3> QED  BY <1>3, <1>5, <3>1, <3>2
  <2>2. CASE c # w
    <3>1. WriteOffset(c)' = WriteOffset(c) /\ Space(c)' = Space(c)
      BY <1>1, <1>6, <2>2, SameSpace
    <3> QED  BY <1>1, <1>6, <1>10, <2>2, <3>1, OneBIO
  <2> QED  BY <2>1, <2>2
<1>11. LentWhileFilled' /\ LentIsFree'
  BY <1>10 DEF LentWhileFilled, LentIsFree
<1> QED  BY <1>7, <1>9, <1>11 DEF IInv

\* Writing keeps the invariant.
LEMMA InKeeps ==
  ASSUME IInv, NEW b \in live, NEW call, NEW k \in Nat, NEW d, NEW ring, In(b, call, k, d, ring)
  PROVE  IInv'
<1>1. /\ peer[b] # NULL /\ k \in 1..(size[b] - len[b]) /\ ring \in [0..(size[b] - 1) -> Bytes]
      /\ buf' = [buf EXCEPT ![b] = ring]
      /\ len' = [len EXCEPT ![b] = len[b] + k]
      /\ request' = [request EXCEPT ![b] = 0]
      /\ lent' = [lent EXCEPT ![b] = {}]
      /\ UNCHANGED <<live, peer, closed, offset, size, allocated>>
  BY DEF In
<1>2. b \in BIOs
  BY FieldTypes
<1>3. size[b] \in Nat \ {0} /\ len[b] \in Nat /\ len[b] <= size[b] /\ offset[b] < size[b]
  BY <1>2, OneBIO
<1>4. len[b] + k \in Nat /\ len[b] + k <= size[b] /\ len[b] + k # 0
  BY <1>1, <1>3
<1>5. /\ len'[b] = len[b] + k /\ request'[b] = 0 /\ lent'[b] = {} /\ buf'[b] = ring
      /\ \A c \in BIOs \ {b} : /\ len'[c] = len[c] /\ request'[c] = request[c]
                               /\ lent'[c] = lent[c] /\ buf'[c] = buf[c]
      /\ len' \in [BIOs -> Nat] /\ request' \in [BIOs -> Nat] /\ lent' \in [BIOs -> SUBSET Nat]
  BY <1>1, <1>2, <1>4, FieldTypes
<1>6. \A c \in BIOs : buf'[c] \in [0..(size[c] - 1) -> Bytes]
  BY SMTT(30), <1>1, <1>5, OneBIO
<1>7. Buffers'
  BY <1>1, FieldTypes DEF Buffers
<1>8. TypeOK'
  BY <1>1, <1>5, <1>6 DEF IInv, TypeOK
<1>9. RingConsistent'
  <2>1. ASSUME NEW c \in BIOs
        PROVE  /\ len'[c] <= size[c] /\ offset[c] < size[c]
               /\ len'[c] = 0 => offset[c] = 0
               /\ peer[c] = NULL => len'[c] = 0
               /\ peer[c] # NULL /\ request'[c] > 0 => len'[c] = 0 /\ request'[c] <= size[c]
    BY SMTT(30), <1>1, <1>3, <1>4, <1>5, OneBIO
  <2> QED  BY <1>1, <2>1 DEF IInv, RingConsistent
<1>10. ASSUME NEW c \in BIOs, lent'[c] # {}
       PROVE  /\ len'[c] # size'[c]
              /\ len'[c] > 0 => WriteOffset(c)' \in lent'[c] /\ lent'[c] \subseteq Space(c)'
  <2>1. c # b
    BY <1>5, <1>10
  <2>2. WriteOffset(c)' = WriteOffset(c) /\ Space(c)' = Space(c)
    BY <1>1, <1>5, <2>1, SameSpace
  <2> QED  BY <1>1, <1>5, <1>10, <2>1, <2>2, OneBIO
<1>11. LentWhileFilled' /\ LentIsFree'
  BY <1>10 DEF LentWhileFilled, LentIsFree
<1> QED  BY <1>7, <1>8, <1>9, <1>11 DEF IInv

\* The caller of bio_nwrite0 may store what it likes.
LEMMA FillKeeps ==
  ASSUME IInv, NEW b \in live, NEW i, NEW v \in Data, Fill(b, i, v)
  PROVE  IInv'
<1>1. /\ i \in lent[b] /\ buf' = [buf EXCEPT ![b][i] = v]
      /\ UNCHANGED <<live, peer, closed, len, offset, size, request, allocated, lent>>
  BY DEF Fill
<1>2. b \in BIOs /\ buf[b] \in [0..(size[b] - 1) -> Bytes] /\ v \in Bytes
  BY FieldTypes, OneBIO DEF Bytes
<1>3. Buffers' /\ \A c \in BIOs : buf'[c] \in [0..(size[c] - 1) -> Bytes]
  <2>1. buf' = [c \in BIOs |-> IF c = b THEN [buf[b] EXCEPT ![i] = v] ELSE buf[c]]
    BY <1>1, <1>2, FieldTypes
  <2>2. [buf[b] EXCEPT ![i] = v] \in [0..(size[b] - 1) -> Bytes]
    BY <1>2
  <2>3. \A c \in BIOs : buf'[c] = IF c = b THEN [buf[b] EXCEPT ![i] = v] ELSE buf[c]
    BY <2>1
  <2> QED  BY <2>1, <2>2, <2>3, OneBIO DEF Buffers
<1>4. TypeOK'
  BY <1>1, <1>3 DEF IInv, TypeOK
<1>5. RingConsistent'
  BY <1>1 DEF IInv, RingConsistent
<1>6. LentWhileFilled' /\ LentIsFree'
  BY <1>1, SameSpace DEF IInv, LentWhileFilled, LentIsFree
<1> QED  BY <1>3, <1>4, <1>5, <1>6 DEF IInv

\* BIO_C_SHUTDOWN_WR keeps the invariant.
LEMMA ShutdownKeeps ==
  ASSUME IInv, NEW b \in live, shutdown_wr(b)
  PROVE  IInv'
<1>1. /\ closed' = [closed EXCEPT ![b] = TRUE]
      /\ UNCHANGED <<live, peer, len, offset, size, request, allocated, buf, lent>>
  BY DEF shutdown_wr
<1>2. TypeOK' /\ Buffers'
  BY <1>1 DEF IInv, TypeOK, Buffers
<1>3. RingConsistent'
  BY <1>1 DEF IInv, RingConsistent
<1>4. LentWhileFilled' /\ LentIsFree'
  BY <1>1, SameSpace DEF IInv, LentWhileFilled, LentIsFree
<1> QED  BY <1>2, <1>3, <1>4 DEF IInv

\* The rings of the BIOs in S become empty; nothing else of a ring changes.
Emptied(S) ==
    /\ len' = [c \in BIOs |-> IF c \in S THEN 0 ELSE len[c]]
    /\ offset' = [c \in BIOs |-> IF c \in S THEN 0 ELSE offset[c]]
    /\ lent' = [c \in BIOs |-> IF c \in S THEN {} ELSE lent[c]]

\* Who is paired is so with both buffers in place, and asks for no more than before.
PairsKept ==
    \A c \in BIOs : peer'[c] # NULL =>
        /\ peer'[peer'[c]] = c /\ {c, peer'[c]} \subseteq allocated'
        /\ \/ request'[c] = 0
           \/ request'[c] = request[c] /\ peer'[c] = peer[c] /\ size'[c] = size[c]

\* A ring that is emptied satisfies everything, whatever its size and buffer become.
LEMMA EmptiedKeeps ==
  ASSUME IInv, NEW S, Emptied(S),
         TypeOK', Buffers',
         \A c \in BIOs : c \notin S /\ len[c] # 0 => size'[c] = size[c] /\ peer'[c] = peer[c],
         PairsKept
  PROVE  IInv'
<1>1. ASSUME NEW c \in BIOs
      PROVE  /\ len'[c] = IF c \in S THEN 0 ELSE len[c]
             /\ offset'[c] = IF c \in S THEN 0 ELSE offset[c]
             /\ lent'[c] = IF c \in S THEN {} ELSE lent[c]
  BY DEF Emptied
<1>2. \A c \in BIOs : size'[c] \in Nat \ {0} /\ request'[c] \in Nat
  BY DEF TypeOK
<1>3. ASSUME NEW c \in BIOs
      PROVE  /\ len'[c] <= size'[c]
             /\ offset'[c] < size'[c]
             /\ len'[c] = 0 => offset'[c] = 0
             /\ peer'[c] = NULL => len'[c] = 0
             /\ peer'[c] # NULL /\ request'[c] > 0 => len'[c] = 0 /\ request'[c] <= size'[c]
  <2>1. CASE len'[c] = 0 /\ offset'[c] = 0
    BY <1>2, <2>1, OneBIO DEF PairsKept
  <2>2. CASE ~(len'[c] = 0 /\ offset'[c] = 0)
    <3>1. c \notin S /\ len[c] # 0 /\ len'[c] = len[c] /\ offset'[c] = offset[c]
      BY <1>1, <2>2, OneBIO
    <3>2. size'[c] = size[c] /\ peer'[c] = peer[c]
      BY <3>1
    <3>3. peer'[c] # NULL => request'[c] = 0 \/ request'[c] = request[c]
      BY DEF PairsKept
    <3> QED  BY <3>1, <3>2, <3>3, OneBIO
  <2> QED  BY <2>1, <2>2
<1>4. RingConsistent'
  BY <1>3 DEF RingConsistent, PairsKept
<1>5. ASSUME NEW c \in BIOs, lent'[c] # {}
      PROVE  /\ len'[c] # size'[c]
             /\ len'[c] > 0 => WriteOffset(c)' \in lent'[c] /\ lent'[c] \subseteq Space(c)'
  <2>1. c \notin S /\ len'[c] = len[c] /\ offset'[c] = offset[c] /\ lent'[c] = lent[c] /\ len[c] \in Nat
    BY <1>1, <1>5, OneBIO
  <2>2. CASE len[c] = 0
    BY <1>2, <2>1, <2>2
  <2>3. CASE len[c] # 0
    <3>1. size'[c] = size[c]
      BY <2>1, <2>3
    <3>2. WriteOffset(c)' = WriteOffset(c) /\ Space(c)' = Space(c)
      BY <2>1, <3>1, SameSpace
    <3> QED  BY <1>5, <2>1, <3>1, <3>2, OneBIO
  <2> QED  BY <2>2, <2>3
<1>6. LentWhileFilled' /\ LentIsFree'
  BY <1>5 DEF LentWhileFilled, LentIsFree
<1> QED  BY <1>4, <1>6 DEF IInv

\* BIO_CTRL_RESET empties the ring of its BIO and keeps the invariant.
LEMMA ResetKeeps ==
  ASSUME IInv, NEW b \in live, ctrl_reset(b)
  PROVE  IInv' /\ Emptied({b})
<1>1. /\ len' = IF b \in allocated THEN [len EXCEPT ![b] = 0] ELSE len
      /\ offset' = IF b \in allocated THEN [offset EXCEPT ![b] = 0] ELSE offset
      /\ lent' = [lent EXCEPT ![b] = {}]
      /\ UNCHANGED <<live, peer, closed, size, request, allocated, buf>>
  BY DEF ctrl_reset
<1>2. b \in BIOs
  BY FieldTypes
<1>3. b \notin allocated => len[b] = 0 /\ offset[b] = 0
  BY <1>2, OneBIO
<1>4. Emptied({b})
  BY <1>1, <1>2, <1>3, FieldTypes DEF Emptied
<1>5. len' \in [BIOs -> Nat] /\ offset' \in [BIOs -> Nat] /\ lent' \in [BIOs -> SUBSET Nat]
  BY <1>4, FieldTypes DEF Emptied
<1>6. TypeOK' /\ Buffers'
  BY <1>1, <1>5 DEF IInv, TypeOK, Buffers
<1>7. PairsKept
  BY <1>1 DEF IInv, RingConsistent, PairsKept
<1> QED  BY <1>1, <1>4, <1>6, <1>7, EmptiedKeeps

\* A call that leaves the rings alone.
LEMMA SameRings ==
  ASSUME IInv, UNCHANGED <<len, offset, lent>>
  PROVE  Emptied({})
  BY FieldTypes DEF Emptied

\* A new size, and what becomes of the buffer.
Resized(b, n) ==
    /\ peer[b] = NULL
    /\ n \in Nat \ {0}
    /\ size' = [size EXCEPT ![b] = n]
    /\ \E c \in BIOs : ret' = Returned(c, CONTROL, 1, <<>>)
    /\ closed' = closed \/ closed' = [closed EXCEPT ![b] = FALSE]
    /\ request' = request \/ request' = [request EXCEPT ![b] = 0]
    /\ live' = live \cup {b}
    /\ allocated' = allocated \/ (b \notin allocated' /\ allocated' = allocated \ {b})
    /\ \/ buf' = buf /\ size' = size
       \/ buf' = [buf EXCEPT ![b] = [i \in 0..(n - 1) |-> Junk]]
    /\ UNCHANGED <<peer, len, offset, lent>>

\* A new size keeps the invariant: only a BIO without a peer gets one.
LEMMA ResizedKeeps ==
  ASSUME IInv, NEW b \in BIOs, NEW n, Resized(b, n)
  PROVE  IInv'
<1>1. /\ peer[b] = NULL /\ n \in Nat \ {0} /\ size' = [size EXCEPT ![b] = n]
      /\ UNCHANGED <<peer, len, offset, lent>>
  BY DEF Resized
<1>2. len[b] = 0
  BY <1>1, OneBIO
<1>3. /\ size'[b] = n /\ \A c \in BIOs \ {b} : size'[c] = size[c]
      /\ size' \in [BIOs -> Nat \ {0}]
  BY <1>1, FieldTypes
<1>4. Buffers' /\ \A c \in BIOs : buf'[c] \in [0..(size'[c] - 1) -> Bytes]
  <2>1. CASE buf' = buf /\ size' = size
    BY <2>1, OneBIO DEF IInv, Buffers
  <2>2. CASE buf' = [buf EXCEPT ![b] = [i \in 0..(n - 1) |-> Junk]]
    <3>1. Buffers'
      BY <2>2, FieldTypes DEF Buffers
    <3>2. buf'[b] = [i \in 0..(n - 1) |-> Junk] /\ \A c \in BIOs \ {b} : buf'[c] = buf[c]
      BY <2>2, FieldTypes
    <3>3. buf'[b] \in [0..(size'[b] - 1) -> Bytes]
      BY <1>3, <3>2 DEF Bytes
    <3> QED  BY <1>3, <3>1, <3>2, <3>3, OneBIO
  <2> QED  BY <2>1, <2>2 DEF Resized
<1>5. live' \subseteq BIOs /\ allocated' \subseteq live' /\ closed' \in [BIOs -> BOOLEAN] /\ request' \in [BIOs -> Nat]
  <2>1. live \subseteq BIOs /\ allocated \subseteq live /\ closed \in [BIOs -> BOOLEAN] /\ request \in [BIOs -> Nat]
    BY FieldTypes
  <2>2. live' = live \cup {b} /\ allocated' \subseteq allocated
    BY DEF Resized
  <2>3. closed' \in [BIOs -> BOOLEAN]
    BY <2>1 DEF Resized
  <2>4. request' \in [BIOs -> Nat]
    BY <2>1 DEF Resized
  <2> QED  BY <2>1, <2>2, <2>3, <2>4
<1>6. TypeOK'
  BY <1>1, <1>3, <1>4, <1>5, FieldTypes DEF TypeOK
<1>7. ASSUME NEW c \in BIOs, peer'[c] # NULL
      PROVE  /\ peer'[peer'[c]] = c /\ {c, peer'[c]} \subseteq allocated'
             /\ request'[c] = request[c] /\ size'[c] = size[c]
  <2>1. peer[c] # NULL /\ peer[c] \in BIOs /\ peer[peer[c]] = c /\ c \in allocated /\ peer[c] \in allocated
    BY <1>1, <1>7, OneBIO
  <2>2. c # b /\ peer[c] # b
    BY <1>1, <2>1, FieldTypes
  <2>3. {c, peer[c]} \subseteq allocated'
    BY <2>1, <2>2 DEF Resized
  <2>4. request'[c] = request[c]
    BY <2>2, FieldTypes DEF Resized
  <2> QED  BY <1>1, <1>3, <2>1, <2>2, <2>3, <2>4
<1> PICK S : S = {} /\ Emptied(S)
  BY <1>1, SameRings
<1>9. \A c \in BIOs : c \notin S /\ len[c] # 0 => size'[c] = size[c] /\ peer'[c] = peer[c]
  BY <1>1, <1>2, <1>3
<1>10. PairsKept
  BY <1>1, <1>7 DEF PairsKept
<1>11. Buffers'
  BY <1>4
<1> QED  BY <1>6, <1>9, <1>10, <1>11, EmptiedKeeps

\* bio_make_pair obtained the buffers of S and did not change the pairs, or paired.
LEMMA MakePairKeeps ==
  ASSUME IInv, NEW a \in live, NEW b \in live, bio_make_pair(a, b), ~Quiet(a)
  PROVE  IInv' /\ peer[a] = NULL /\ peer[b] = NULL /\ UNCHANGED <<len, offset, lent, size, buf>>
<1>0. a \in BIOs /\ b \in BIOs /\ a # NULL /\ b # NULL
  BY FieldTypes
<1>1. peer[a] = NULL /\ peer[b] = NULL
  <2> SUFFICES ASSUME peer[a] # NULL \/ peer[b] # NULL PROVE FALSE
    BY FieldTypes
  <2>1. /\ Return(a, CONTROL, 0, <<>>) /\ 0 \in {0, 1}
        /\ UNCHANGED <<live, peer, closed, len, offset, size, request, allocated, buf, lent>>
    BY DEF bio_make_pair
  <2>2. Answered(a)
    BY <2>1, ControlReturns
  <2> QED  BY <2>1, <2>2, FieldTypes DEF Quiet
<1>2. len[a] = 0 /\ offset[a] = 0 /\ len[b] = 0 /\ offset[b] = 0
  BY <1>0, <1>1, OneBIO
<1>3. ASSUME NEW S, S \subseteq {a, b}, Allocate(S)
      PROVE  UNCHANGED <<len, offset>> /\ allocated' = allocated \cup S
  <2>1. \A c \in BIOs : (IF c \in S \ allocated THEN 0 ELSE len[c]) = len[c]
    BY <1>2, <1>3
  <2>2. \A c \in BIOs : (IF c \in S \ allocated THEN 0 ELSE offset[c]) = offset[c]
    BY <1>2, <1>3
  <2> QED  BY <1>3, <2>1, <2>2, FieldTypes DEF Allocate
<1>4. CASE \/ a \notin allocated /\ UNCHANGED <<len, offset, allocated, peer, closed, request>>
           \/ b \notin allocated /\ Allocate({a}) /\ UNCHANGED <<peer, closed, request>>
  <2>1. UNCHANGED <<live, size, buf, lent>>
    BY <1>1 DEF bio_make_pair
  <2>2. UNCHANGED <<len, offset, peer, closed, request>> /\ allocated \subseteq allocated' /\ allocated' \subseteq live
    BY <1>3, <1>4, FieldTypes
  <2> PICK S : S = {} /\ Emptied(S)
    BY <2>1, <2>2, SameRings
  <2>3. TypeOK' /\ Buffers'
    BY <2>1, <2>2 DEF IInv, TypeOK, Buffers
  <2>4. PairsKept
    BY <2>1, <2>2 DEF IInv, RingConsistent, PairsKept
  <2>5. IInv'
    BY <2>1, <2>2, <2>3, <2>4, EmptiedKeeps
  <2> QED  BY <1>1, <2>1, <2>2, <2>5
<1>5. CASE /\ Allocate({a, b})
           /\ peer' = [peer EXCEPT ![a] = b, ![b] = a]
           /\ closed' = [closed EXCEPT ![a] = FALSE, ![b] = FALSE]
           /\ request' = [request EXCEPT ![a] = 0, ![b] = 0]
  <2>1. UNCHANGED <<live, size, buf, lent>>
    BY <1>1 DEF bio_make_pair
  <2>2. UNCHANGED <<len, offset>> /\ allocated' = allocated \cup {a, b}
    BY <1>3, <1>5
  <2> PICK S : S = {} /\ Emptied(S)
    BY <2>1, <2>2, SameRings
  <2>3. /\ peer'[a] = b /\ peer'[b] = a /\ request'[a] = 0 /\ request'[b] = 0
        /\ \A c \in BIOs \ {a, b} : peer'[c] = peer[c] /\ request'[c] = request[c]
        /\ peer' \in [BIOs -> BIOs \cup {NULL}] /\ request' \in [BIOs -> Nat] /\ closed' \in [BIOs -> BOOLEAN]
    BY <1>0, <1>5, FieldTypes
  <2>4. TypeOK' /\ Buffers'
    BY <2>1, <2>2, <2>3 DEF IInv, TypeOK, Buffers
  <2>5. PairsKept
    <3> SUFFICES ASSUME NEW c \in BIOs, peer'[c] # NULL
                 PROVE  /\ peer'[peer'[c]] = c /\ {c, peer'[c]} \subseteq allocated'
                        /\ \/ request'[c] = 0
                           \/ request'[c] = request[c] /\ peer'[c] = peer[c] /\ size'[c] = size[c]
      BY DEF PairsKept
    <3>1. CASE c \in {a, b}
      BY <2>2, <2>3, <3>1
    <3>2. CASE c \notin {a, b}
      <4>1. peer[c] \in BIOs /\ peer[peer[c]] = c /\ {c, peer[c]} \subseteq allocated
        BY <2>3, <3>2, OneBIO
      <4>2. peer[c] \notin {a, b}
        BY <1>1, <4>1, FieldTypes
      <4> QED  BY <2>1, <2>2, <2>3, <3>2, <4>1, <4>2
    <3> QED  BY <3>1, <3>2
  <2>6. \A c \in BIOs : c \notin S /\ len[c] # 0 => size'[c] = size[c] /\ peer'[c] = peer[c]
    BY <1>2, <2>1, <2>3
  <2>7. IInv'
    BY <2>4, <2>5, <2>6, EmptiedKeeps
  <2> QED  BY <1>1, <2>1, <2>2, <2>7
<1> QED  BY <1>1, <1>4, <1>5 DEF bio_make_pair

\* bio_destroy_pair and bio_free of a BIO in a pair.
LEMMA DissolveKeeps ==
  ASSUME IInv, NEW b \in live, peer[b] # NULL, bio_destroy_pair(b) \/ bio_free(b)
  PROVE  /\ IInv' /\ Emptied({b, peer[b]})
         /\ peer' = [peer EXCEPT ![b] = NULL, ![peer[b]] = NULL]
         /\ UNCHANGED <<closed, size, buf>>
         /\ ret' = Returned(b, CONTROL, 1, <<>>)
<1> DEFINE w == peer[b]
<1>1. /\ peer' = [peer EXCEPT ![b] = NULL, ![w] = NULL]
      /\ len' = [len EXCEPT ![b] = 0, ![w] = 0]
      /\ offset' = [offset EXCEPT ![b] = 0, ![w] = 0]
      /\ lent' = [lent EXCEPT ![b] = {}, ![w] = {}]
      /\ ret' = Returned(b, CONTROL, 1, <<>>)
      /\ UNCHANGED <<closed, size, request, buf>>
  BY DEF bio_destroy_pair, bio_free, Dissolve, Return, Returned
<1>2. \/ UNCHANGED <<live, allocated>>
      \/ live' = live \ {b} /\ allocated' = allocated \ {b}
  BY DEF bio_destroy_pair, bio_free
<1>3. b \in BIOs /\ w \in BIOs /\ b # NULL /\ w # NULL /\ peer[w] = b
  BY FieldTypes, OneBIO
<1> DEFINE S == {b, w}
<1>4. Emptied(S)
  BY <1>1, <1>3, FieldTypes DEF Emptied
<1> HIDE DEF w
<1>5. /\ peer'[b] = NULL /\ peer'[w] = NULL /\ \A c \in BIOs \ {b, w} : peer'[c] = peer[c]
      /\ peer' \in [BIOs -> BIOs \cup {NULL}]
  BY <1>1, <1>3, FieldTypes
<1>6. len' \in [BIOs -> Nat] /\ offset' \in [BIOs -> Nat] /\ lent' \in [BIOs -> SUBSET Nat]
  BY <1>1, <1>3, FieldTypes
<1>7. live' \subseteq BIOs /\ allocated' \subseteq live'
  BY <1>2, FieldTypes
<1>8. TypeOK' /\ Buffers'
  BY <1>1, <1>5, <1>6, <1>7 DEF IInv, TypeOK, Buffers
<1>9. PairsKept
  <2> SUFFICES ASSUME NEW c \in BIOs, peer'[c] # NULL
               PROVE  /\ peer'[peer'[c]] = c /\ {c, peer'[c]} \subseteq allocated'
                      /\ request'[c] = request[c] /\ peer'[c] = peer[c] /\ size'[c] = size[c]
    BY DEF PairsKept
  <2>1. c # b /\ c # w /\ peer'[c] = peer[c]
    BY <1>5
  <2>2. peer[c] \in BIOs /\ peer[peer[c]] = c /\ {c, peer[c]} \subseteq allocated
    BY <2>1, OneBIO
  <2>3. peer[c] # b /\ peer[c] # w
    BY <1>3, <2>1, <2>2 DEF w
  <2>4. {c, peer[c]} \subseteq allocated'
    BY <1>2, <2>1, <2>2, <2>3
  <2> QED  BY <1>1, <1>5, <2>1, <2>2, <2>3, <2>4
<1>10. \A c \in BIOs : c \notin S /\ len[c] # 0 => size'[c] = size[c] /\ peer'[c] = peer[c]
  BY <1>1, <1>5
<1> HIDE DEF S
<1>11. IInv'
  BY <1>4, <1>8, <1>9, <1>10, EmptiedKeeps
<1> QED  BY <1>1, <1>4, <1>11 DEF S, w

\* bio_free of a BIO that is in no pair.
LEMMA FreeKeeps ==
  ASSUME IInv, NEW b \in live, peer[b] = NULL, bio_free(b)
  PROVE  IInv' /\ UNCHANGED <<peer, closed, len, offset, size, buf>> /\ ret' = Returned(b, CONTROL, 1, <<>>)
<1>1. /\ UNCHANGED <<peer, len, offset, lent, closed, size, request, buf>>
      /\ live' = live \ {b} /\ allocated' = allocated \ {b}
      /\ ret' = Returned(b, CONTROL, 1, <<>>)
  BY DEF bio_free, Return, Returned
<1>2. b \in BIOs /\ b # NULL
  BY FieldTypes
<1> PICK S : S = {} /\ Emptied(S)
  BY <1>1, SameRings
<1>3. TypeOK' /\ Buffers'
  BY <1>1 DEF IInv, TypeOK, Buffers
<1>4. PairsKept
  <2> SUFFICES ASSUME NEW c \in BIOs, peer'[c] # NULL
               PROVE  /\ peer'[peer'[c]] = c /\ {c, peer'[c]} \subseteq allocated'
                      /\ request'[c] = request[c] /\ peer'[c] = peer[c] /\ size'[c] = size[c]
    BY DEF PairsKept
  <2>1. peer[c] \in BIOs /\ peer[peer[c]] = c /\ {c, peer[c]} \subseteq allocated
    BY <1>1, OneBIO
  <2>2. c # b /\ peer[c] # b
    BY <1>1, <1>2, <2>1, FieldTypes
  <2> QED  BY <1>1, <2>1, <2>2
<1>5. IInv'
  BY <1>1, <1>3, <1>4, EmptiedKeeps
<1> QED  BY <1>1, <1>5

\* bio_new and BIO_C_SET_WRITE_BUF_SIZE give a BIO its size.
LEMMA NewResizes ==
  ASSUME IInv, NEW b \in BIOs, bio_new(b)
  PROVE  Resized(b, DefaultSize)
<1>1. b \notin live /\ b \notin allocated
  BY FieldTypes DEF bio_new
<1>2. peer[b] = NULL
  BY <1>1, OneBIO
<1>3. \E c \in BIOs : ret' = Returned(c, CONTROL, 1, <<>>)
  BY DEF bio_new, Return, Returned
<1> QED  BY <1>2, <1>3, ConstantsAssumption DEF bio_new, Resized

\* BIO_CTRL_DUP gives a BIO without a buffer its size.
LEMMA DupResizes ==
  ASSUME IInv, NEW b \in live, NEW a \in live, ctrl_dup(b, a)
  PROVE  Resized(a, size[b])
<1>0. a \in BIOs /\ b \in BIOs /\ size[b] \in Nat \ {0}
  BY FieldTypes, OneBIO
<1>1. peer[a] = NULL
  BY <1>0, OneBIO DEF ctrl_dup
<1>2. \E c \in BIOs : ret' = Returned(c, CONTROL, 1, <<>>)
  BY <1>0 DEF ctrl_dup, Return, Returned
<1>3. live' = live \cup {a}
  BY DEF ctrl_dup
<1> QED  BY <1>0, <1>1, <1>2, <1>3 DEF ctrl_dup, Resized

\* BIO_C_SET_WRITE_BUF_SIZE is refused or gives the new size.
LEMMA SetSizeEffect ==
  ASSUME IInv, NEW b \in live, NEW n \in Sizes \cup {0}, set_write_buf_size(b, n)
  PROVE  Quiet(b) \/ Resized(b, n)
<1>0. b \in BIOs
  BY FieldTypes
<1>1. CASE peer[b] # NULL \/ n = 0
  <2>1. /\ Return(b, CONTROL, 0, <<>>) /\ 0 \in {0, 1}
        /\ UNCHANGED <<live, peer, closed, len, offset, size, request, allocated, buf, lent>>
    BY <1>1 DEF set_write_buf_size
  <2>2. Answered(b)
    BY <2>1, ControlReturns
  <2> QED  BY <2>1, <2>2, FieldTypes DEF Quiet
<1>2. CASE peer[b] = NULL /\ n # 0
  <2>1. n \in Nat \ {0}
    BY <1>2, ConstantsAssumption
  <2>2. /\ size' = [size EXCEPT ![b] = n]
        /\ allocated' = IF size[b] # n THEN allocated \ {b} ELSE allocated
        /\ buf' = IF size[b] # n THEN [buf EXCEPT ![b] = [i \in 0..(n - 1) |-> Junk]] ELSE buf
        /\ \E c \in BIOs : ret' = Returned(c, CONTROL, 1, <<>>)
        /\ UNCHANGED <<live, peer, closed, len, offset, request, lent>>
    BY <1>0, <1>2 DEF set_write_buf_size, Return, Returned
  <2>3. size[b] = n => size' = size
    BY <1>0, <2>2, FieldTypes
  <2>4. live' = live \cup {b}
    BY <2>2
  <2>5. allocated' = allocated \/ (b \notin allocated' /\ allocated' = allocated \ {b})
    BY <2>2
  <2>6. \/ buf' = buf /\ size' = size
        \/ buf' = [buf EXCEPT ![b] = [i \in 0..(n - 1) |-> Junk]]
    BY <2>2, <2>3
  <2> QED  BY <1>2, <2>1, <2>2, <2>4, <2>5, <2>6 DEF Resized
<1> QED  BY <1>1, <1>2

\* BIO_C_RESET_READ_REQUEST, and BIO_C_DESTROY_BIO_PAIR without a pair.
LEMMA RestIsQuiet ==
  ASSUME IInv, NEW b \in live,
         reset_read_request(b) \/ (bio_destroy_pair(b) /\ peer[b] = NULL)
  PROVE  Quiet(b)
<1>0. b \in BIOs
  BY FieldTypes
<1>1. /\ Return(b, CONTROL, 1, <<>>) /\ 1 \in {0, 1}
      /\ UNCHANGED <<live, peer, closed, len, offset, size, allocated, buf, lent>>
      /\ request' = [request EXCEPT ![b] = 0] \/ request' = request
  BY DEF reset_read_request, bio_destroy_pair
<1>2. Answered(b)
  BY <1>1, ControlReturns
<1>3. request \in [BIOs -> Nat] /\ lent' \in [BIOs -> SUBSET Nat]
  BY <1>1, FieldTypes
<1>4. request' \in [BIOs -> Nat] /\ \A c \in BIOs : request'[c] = request[c] \/ request'[c] = 0
  BY <1>0, <1>1, <1>3
<1> QED  BY <1>1, <1>2, <1>3, <1>4 DEF Quiet

\* What a call on b does.
Effect(b) ==
    \/ Quiet(b)
    \/ \E call : \E k \in Nat : Out(b, call, k)
    \/ \E call : \E k \in Nat : \E d, ring : In(b, call, k, d, ring)
    \/ \E i : \E v \in Data : Fill(b, i, v)
    \/ shutdown_wr(b)
    \/ ctrl_reset(b)
    \/ \E a \in live : \E n : Resized(a, n)
    \/ ~Quiet(b) /\ \E a \in live : bio_make_pair(b, a)
    \/ peer[b] # NULL /\ (bio_destroy_pair(b) \/ bio_free(b))
    \/ peer[b] = NULL /\ bio_free(b)

\* Every call has one of these effects.
LEMMA Effects ==
  ASSUME IInv, Next
  PROVE  (\E b \in BIOs : Resized(b, DefaultSize)) \/ (\E b \in live : Effect(b))
<1>0. TypeOK /\ Buffers /\ RingConsistent
  BY DEF IInv
<1>1. CASE \E b \in BIOs : bio_new(b)
  BY <1>1, NewResizes
<1>2. ASSUME NEW b \in live,
             (\E n \in 0..MaxCall : bio_read(b, n) \/ bio_nread(b, n)) \/ bio_nread0(b)
      PROVE  Effect(b)
  BY <1>0, <1>2, ReadEffect DEF Effect
<1>3. ASSUME NEW b \in live,
             \/ \E d \in Inputs : bio_write(b, d)
             \/ bio_nwrite0(b)
             \/ \E n \in 0..MaxCall : bio_nwrite(b, n)
      PROVE  Effect(b)
  BY <1>0, <1>3, WriteEffect DEF Effect
<1>4. ASSUME NEW b \in live, \E n \in Sizes \cup {0} : set_write_buf_size(b, n)
      PROVE  Effect(b)
  BY <1>4, SetSizeEffect DEF Effect
<1>5. ASSUME NEW b \in live, reset_read_request(b) \/ bio_destroy_pair(b) \/ bio_free(b)
      PROVE  Effect(b)
  BY <1>5, RestIsQuiet DEF Effect
<1>6. ASSUME NEW b \in live,
             \/ \E i \in lent[b], v \in Data : Fill(b, i, v)
             \/ shutdown_wr(b) \/ ctrl_reset(b)
             \/ \E a \in live : bio_make_pair(b, a)
      PROVE  Effect(b)
  BY <1>6 DEF Effect
<1>7. ASSUME NEW b \in live, \E a \in live : ctrl_dup(b, a)
      PROVE  Effect(b)
  BY <1>7, DupResizes DEF Effect
<1> QED  BY <1>1, <1>2, <1>3, <1>4, <1>5, <1>6, <1>7 DEF Next

\* Each of them keeps the invariant.
LEMMA EffectKeeps ==
  ASSUME IInv, NEW b \in live, Effect(b)
  PROVE  IInv'
<1>0. b \in BIOs
  BY FieldTypes
<1>1. CASE Quiet(b)
  BY <1>1, QuietKeeps
<1>2. CASE \E call : \E k \in Nat : Out(b, call, k)
  BY <1>2, OutKeeps
<1>3. CASE \E call : \E k \in Nat : \E d, ring : In(b, call, k, d, ring)
  BY <1>3, InKeeps
<1>4. CASE \E i : \E v \in Data : Fill(b, i, v)
  BY <1>4, FillKeeps
<1>5. CASE shutdown_wr(b)
  BY <1>5, ShutdownKeeps
<1>6. CASE ctrl_reset(b)
  BY <1>6, ResetKeeps
<1>7. CASE \E a \in live : \E n : Resized(a, n)
  BY <1>7, FieldTypes, ResizedKeeps
<1>8. CASE ~Quiet(b) /\ \E a \in live : bio_make_pair(b, a)
  BY <1>8, MakePairKeeps
<1>9. CASE peer[b] # NULL /\ (bio_destroy_pair(b) \/ bio_free(b))
  BY <1>9, DissolveKeeps
<1>10. CASE peer[b] = NULL /\ bio_free(b)
  BY <1>10, FreeKeeps
<1> QED  BY <1>1, <1>2, <1>3, <1>4, <1>5, <1>6, <1>7, <1>8, <1>9, <1>10 DEF Effect

\* The invariant is inductive.
LEMMA NextIInv ==
  ASSUME IInv, [Next]_vars
  PROVE  IInv'
<1>1. CASE UNCHANGED vars
  <2>1. TypeOK' /\ Buffers' /\ RingConsistent' /\ LentIsFree'
    BY <1>1 DEF vars, IInv, TypeOK, Buffers, RingConsistent, LentIsFree
  <2>2. \A c \in BIOs : WriteOffset(c)' = WriteOffset(c) /\ Space(c)' = Space(c)
    BY <1>1, SameSpace DEF vars
  <2>3. LentWhileFilled'
    BY <1>1, <2>2 DEF vars, IInv, LentWhileFilled
  <2> QED  BY <2>1, <2>3 DEF IInv
<1>2. CASE Next
  BY <1>2, Effects, EffectKeeps, ResizedKeeps
<1> QED  BY <1>1, <1>2

\* The invariant holds at the start.
LEMMA InitIInv ==
  ASSUME Init
  PROVE  IInv
<1> USE DEF Init
<1>1. TypeOK /\ Buffers
  <2>1. \A b \in BIOs : buf[b] = [i \in 0..(DefaultSize - 1) |-> Junk] /\ size[b] = DefaultSize
    OBVIOUS
  <2>2. \A b \in BIOs : buf[b] \in [0..(size[b] - 1) -> Bytes]
    BY <2>1 DEF Bytes
  <2>3. Buffers
    BY DEF Buffers
  <2> QED  BY <2>2, <2>3, ConstantsAssumption DEF TypeOK
<1>2. RingConsistent
  BY ConstantsAssumption DEF RingConsistent
<1>3. LentWhileFilled /\ LentIsFree
  BY DEF LentWhileFilled, LentIsFree
<1> QED  BY <1>1, <1>2, <1>3 DEF IInv

\* The inductive invariant holds throughout.
LEMMA Invariance == Spec => []IInv
<1>1. Init => IInv
  BY InitIInv
<1>2. IInv /\ [Next]_vars => IInv'
  BY NextIInv
<1> QED  BY <1>1, <1>2, PTL DEF Spec

----------------------------------------------------------------------------
(* Theorems.                                                               *)

\* The structs of BIO pairs keep their types and their buffers their sizes.
THEOREM PairTypes == Spec => []TypeOK
<1>1. IInv => TypeOK
  BY DEF IInv
<1> QED  BY <1>1, Invariance, PTL

\* The assertions of bss_bio.c hold through any sequence of calls.
THEOREM RingsAreConsistent == Spec => []RingConsistent
<1>1. IInv => RingConsistent
  BY DEF IInv
<1> QED  BY <1>1, Invariance, PTL

\* The place bio_nwrite0 gave away stays good while the peer reads.
THEOREM LentStaysGood == Spec => []LentWhileFilled
<1>1. IInv => LentWhileFilled
  BY DEF IInv
<1> QED  BY <1>1, Invariance, PTL

\* A BIO whose fields did not change is promised the same.
LEMMA SameGuarantee ==
  ASSUME NEW c, UNCHANGED <<peer[c], closed[c], size[c], len[c]>>
  PROVE  Guarantee(c)' = Guarantee(c)
  BY DEF Guarantee

\* A promise is a number.
LEMMA GuaranteeIsNat ==
  ASSUME IInv, NEW c \in BIOs
  PROVE  Guarantee(c) \in Nat
  BY OneBIO DEF Guarantee

\* So it is after a step.
LEMMA GuaranteeIsNatNext ==
  ASSUME IInv', NEW c \in BIOs
  PROVE  Guarantee(c)' \in Nat
<1>1. size'[c] \in Nat /\ len'[c] \in Nat /\ len'[c] <= size'[c]
  BY DEF IInv, TypeOK, RingConsistent
<1> QED  BY <1>1 DEF Guarantee

\* No call takes back what another BIO was promised.
LEMMA EffectKeepsPromise ==
  ASSUME IInv, IInv', NEW b \in BIOs, (Effect(b) /\ b \in live) \/ Resized(b, DefaultSize),
         NEW c \in BIOs, Guarantee(c)' < Guarantee(c)
  PROVE  ret'.bio = c \/ peer'[c] = NULL
<1>0. Guarantee(c) \in Nat /\ Guarantee(c)' \in Nat /\ Guarantee(c)' # Guarantee(c)
  BY GuaranteeIsNat, GuaranteeIsNatNext
<1>c. ~(peer'[c] = peer[c] /\ closed'[c] = closed[c] /\ size'[c] = size[c] /\ len'[c] = len[c])
  BY <1>0, SameGuarantee
<1>1. CASE Quiet(b)
  BY <1>1, <1>c DEF Quiet
<1>2. CASE \E call : \E k \in Nat : Out(b, call, k)
  <2> PICK call : \E k \in Nat : Out(b, call, k)
    BY <1>2
  <2> PICK k \in Nat : Out(b, call, k)
    OBVIOUS
  <2>1. /\ UNCHANGED <<peer, closed, size>> /\ peer[b] \in BIOs
        /\ k \in 1..len[peer[b]] /\ len' = [len EXCEPT ![peer[b]] = len[peer[b]] - k]
    BY OneBIO DEF Out
  <2>2. len'[c] = len[c] \/ (c = peer[b] /\ len'[c] = len[c] - k)
    BY <2>1, FieldTypes
  <2>3. len'[c] \in Nat /\ len[c] \in Nat /\ size[c] \in Nat
    BY OneBIO DEF IInv, TypeOK
  <2>4. len'[c] <= len[c]
    BY <2>2, <2>3
  <2>5. Guarantee(c)' >= Guarantee(c)
    BY <2>1, <2>3, <2>4 DEF Guarantee
  <2> QED  BY <1>0, <2>5
<1>3. CASE \E call : \E k \in Nat : \E d, ring : In(b, call, k, d, ring)
  <2> PICK call : \E k \in Nat : \E d, ring : In(b, call, k, d, ring)
    BY <1>3
  <2> PICK k \in Nat : \E d, ring : In(b, call, k, d, ring)
    OBVIOUS
  <2> PICK d, ring : In(b, call, k, d, ring)
    OBVIOUS
  <2>1. ret'.bio = b /\ UNCHANGED <<peer, closed, size>> /\ (c # b => len'[c] = len[c])
    BY FieldTypes DEF In, Returned
  <2> QED  BY <1>c, <2>1
<1>4. CASE \E i : \E v \in Data : Fill(b, i, v)
  BY <1>4, <1>c DEF Fill
<1>5. CASE shutdown_wr(b)
  <2>1. ret'.bio = b /\ UNCHANGED <<peer, size, len>> /\ (c # b => closed'[c] = closed[c])
    BY <1>5, FieldTypes DEF shutdown_wr, Return
  <2> QED  BY <1>c, <2>1
<1>6. CASE ctrl_reset(b)
  <2>1. ret'.bio = b /\ UNCHANGED <<peer, size, closed>> /\ (c # b => len'[c] = len[c])
    BY <1>6, FieldTypes DEF ctrl_reset, Return
  <2> QED  BY <1>c, <2>1
<1>7. ASSUME NEW a \in BIOs, NEW n, Resized(a, n)
      PROVE  FALSE
  <2>1. peer[a] = NULL /\ UNCHANGED <<peer, len>> /\ (c # a => size'[c] = size[c] /\ closed'[c] = closed[c])
    BY <1>7, FieldTypes DEF Resized
  <2>2. c = a => Guarantee(c) = 0
    BY <2>1 DEF Guarantee
  <2> QED  BY <1>0, <1>c, <2>1, <2>2
<1>8. CASE ~Quiet(b) /\ b \in live /\ \E a \in live : bio_make_pair(b, a)
  <2> PICK a \in live : bio_make_pair(b, a)
    BY <1>8
  <2>1. peer[b] = NULL /\ peer[a] = NULL /\ UNCHANGED <<len, size>>
    BY <1>8, MakePairKeeps
  <2>2. ret'.bio = b
    BY DEF bio_make_pair, Return
  <2>3. c # b /\ c # a => peer'[c] = peer[c] /\ closed'[c] = closed[c]
    BY <2>1, FieldTypes DEF bio_make_pair
  <2>4. c = a => Guarantee(c) = 0
    BY <2>1 DEF Guarantee
  <2> QED  BY <1>0, <1>c, <2>1, <2>2, <2>3, <2>4
<1>9. CASE peer[b] # NULL /\ b \in live /\ (bio_destroy_pair(b) \/ bio_free(b))
  <2>1. /\ peer' = [peer EXCEPT ![b] = NULL, ![peer[b]] = NULL] /\ peer[b] \in BIOs
        /\ UNCHANGED <<closed, size>> /\ Emptied({b, peer[b]})
    BY <1>9, DissolveKeeps, OneBIO
  <2>2. c \in {b, peer[b]} => peer'[c] = NULL
    BY <2>1, FieldTypes
  <2>3. c \notin {b, peer[b]} => peer'[c] = peer[c] /\ len'[c] = len[c]
    BY <2>1, FieldTypes DEF Emptied
  <2> QED  BY <1>c, <2>1, <2>2, <2>3
<1>10. CASE peer[b] = NULL /\ b \in live /\ bio_free(b)
  BY <1>10, <1>c, FreeKeeps
<1> QED  BY <1>1, <1>2, <1>3, <1>4, <1>5, <1>6, <1>7, <1>8, <1>9, <1>10, FieldTypes DEF Effect

\* BIO_get_write_guarantee: only the writer's own calls or the end of the pair take
\* back what it was promised.
THEOREM PromiseIsKept == Spec => GuaranteeKept
<1>1. IInv /\ IInv' /\ [Next]_vars
        => [\A b \in BIOs : Guarantee(b)' < Guarantee(b) => ret'.bio = b \/ peer'[b] = NULL]_vars
  <2> SUFFICES ASSUME IInv, IInv', Next
               PROVE  \A b \in BIOs : Guarantee(b)' < Guarantee(b) => ret'.bio = b \/ peer'[b] = NULL
    OBVIOUS
  <2>1. \E b \in BIOs : (Effect(b) /\ b \in live) \/ Resized(b, DefaultSize)
    BY Effects, FieldTypes
  <2> QED  BY <2>1, EffectKeepsPromise
<1> QED  BY <1>1, Invariance, PTL DEF Spec, GuaranteeKept

----------------------------------------------------------------------------
(***************************************************************************)
(* The ring buffers of BIO pairs implement the queues of module ByteQueues: *)
(* every call of BioPair is one step of ByteQueues or changes nothing there.*)
(***************************************************************************)

\* The queues the rings stand for.
Q == [b \in BIOs |-> Contents(b)]

----------------------------------------------------------------------------
(* The contents of a ring.                                                 *)

\* The contents of a ring are a sequence of bytes.
LEMMA ContentsIs ==
  ASSUME IInv, NEW b \in BIOs
  PROVE  /\ Contents(b) = [i \in 1..len[b] |-> buf[b][At(b, i)]]
         /\ Contents(b) \in Seq(Bytes) /\ Len(Contents(b)) = len[b] /\ Q[b] = Contents(b)
<1>1. Contents(b) = [i \in 1..len[b] |-> buf[b][At(b, i)]]
  BY DEF Contents, At
<1>2. RingOf(b) /\ len[b] \in Nat /\ size[b] \in Nat /\ len[b] <= size[b]
  BY OneBIO DEF RingOf
<1>3. buf[b] \in [0..(size[b] - 1) -> Bytes]
  BY OneBIO
<1>4. ASSUME NEW i \in 1..len[b] PROVE buf[b][At(b, i)] \in Bytes
  <2>1. i \in 1..size[b]
    BY <1>2
  <2>2. At(b, i) \in 0..(size[b] - 1)
    BY <1>2, <2>1, WrappedInBuffer DEF At
  <2> QED  BY <1>3, <2>2
<1>5. Contents(b) \in [1..len[b] -> Bytes]
  BY <1>1, <1>4
<1>6. Contents(b) \in Seq(Bytes) /\ Len(Contents(b)) = len[b]
  BY <1>2, <1>5
<1> QED  BY <1>1, <1>6 DEF Q

\* An empty ring is an empty queue.
LEMMA EmptyContents ==
  ASSUME NEW b, len[b] = 0
  PROVE  Contents(b) = <<>>
  BY DEF Contents

\* The same of the next state.
LEMMA EmptyContentsNext ==
  ASSUME NEW b, len'[b] = 0
  PROVE  Contents(b)' = <<>>
  BY DEF Contents

\* A ring that is not touched keeps its contents.
LEMMA SameContents ==
  ASSUME NEW c, UNCHANGED <<len[c], offset[c], size[c], buf[c]>>
  PROVE  Contents(c)' = Contents(c)
  BY DEF Contents, Wrapped

\* Rings with the same contents are the same queues.
LEMMA SameQueues ==
  ASSUME \A c \in BIOs : Contents(c)' = Contents(c)
  PROVE  Q' = Q
  BY DEF Q

\* The rings of all BIOs but b are not touched.
LEMMA OneQueue ==
  ASSUME NEW b \in BIOs, NEW q, Contents(b)' = q,
         \A c \in BIOs \ {b} : Contents(c)' = Contents(c)
  PROVE  Q' = [Q EXCEPT ![b] = q]
  BY DEF Q

----------------------------------------------------------------------------
\* The answers of the calls that are no reads and no writes are the same.
LEMMA DoneIs ==
  ASSUME NEW b, NEW n
  PROVE  Returned(b, CONTROL, n, <<>>) = Queues!Done(b, n)
  BY DEF Returned, CONTROL, Call, Queues!Done, Queues!Answer, Queues!Call

\* What a call that moves no byte answers, the queues allow.
LEMMA QuietRefines ==
  ASSUME IInv, NEW b \in live, Quiet(b)
  PROVE  Queues!QNext
<1>0. b \in BIOs
  BY FieldTypes
<1>1. UNCHANGED <<peer, closed, len, offset, size, buf>>
  BY DEF Quiet
<1>2. Q' = Q
  BY <1>1, SameContents, SameQueues
<1>3. UNCHANGED <<peer, closed, size, Q>>
  BY <1>1, <1>2
<1>4. Len(Q[b]) = len[b]
  BY <1>0, ContentsIs
<1>5. ASSUME peer[b] # NULL, len[peer[b]] = 0
      PROVE  Q[peer[b]] = <<>>
  BY <1>0, <1>5, OneBIO, ContentsIs, EmptyContents
<1>6. ASSUME NEW call, ReadAnswer(b, call) PROVE Queues!QNext
  <2>1. ret'.call = call
    BY <1>6 DEF ReadAnswer, Returned, Retried
  <2>2. Queues!ReadNothing(b, call)
    BY <1>3, <1>5, <1>6
       DEF ReadAnswer, Returned, Retried, Queues!ReadNothing, Queues!Reads, Queues!NothingMoves,
           Queues!Answer, Queues!TryAgain, Q
  <2> QED  BY <1>0, <2>1, <2>2 DEF Queues!QNext
<1>7. ASSUME NEW call, WriteAnswer(b, call) PROVE Queues!QNext
  <2>1. ret'.call = call
    BY <1>7 DEF WriteAnswer, Returned, Retried
  <2>2. Queues!WriteNothing(b, call)
    BY <1>3, <1>4, <1>7
       DEF WriteAnswer, Returned, Retried, Queues!WriteNothing, Queues!Writes, Queues!NothingMoves,
           Queues!Answer, Queues!TryAgain, Q
  <2> QED  BY <1>0, <2>1, <2>2 DEF Queues!QNext
<1>8. ASSUME NEW call, OfferAnswer(b, call) PROVE Queues!QNext
  <2> PICK k \in 1..(size[b] - len[b]) : ret' = Returned(b, call, k, <<>>)
    BY <1>8 DEF OfferAnswer
  <2>1. ret'.call = call /\ ret'.n = k
    BY DEF Returned
  <2>2. Queues!Offer(b, call, k)
    BY <1>3, <1>4, <1>8 DEF OfferAnswer, Returned, Queues!Offer, Queues!NothingMoves, Queues!Answer, Q
  <2> QED  BY <1>0, <2>1, <2>2 DEF Queues!QNext
<1>9. CASE ControlAnswer(b)
  <2> PICK n \in {0, 1} : ret' = Returned(b, CONTROL, n, <<>>)
    BY <1>9 DEF ControlAnswer
  <2>1. ret'.n = n /\ ret' = Queues!Done(b, n)
    BY DoneIs DEF Returned
  <2>2. Queues!Idle(b, n)
    BY <1>3, <2>1 DEF Queues!Idle, Queues!NothingMoves, Q
  <2> QED  BY <1>0, <2>1, <2>2 DEF Queues!QNext
<1>10. ASSUME NEW call, PeekAnswer(b, call) PROVE Queues!QNext
  <2> DEFINE w == peer[b]
  <2>1. w # NULL /\ w \in BIOs /\ call.name = "nread0"
    BY <1>0, <1>10, OneBIO DEF PeekAnswer
  <2> PICK k \in 1..len[w] : ret' = Returned(b, call, k, [i \in 1..k |-> buf[w][At(w, i)]])
    BY <1>10 DEF PeekAnswer
  <2>2. Q[w] = [i \in 1..len[w] |-> buf[w][At(w, i)]] /\ Len(Q[w]) = len[w] /\ len[w] \in Nat
    BY <2>1, ContentsIs, OneBIO
  <2>3. \A i \in 1..k : i \in 1..len[w]
    BY <2>2
  <2>4. Queues!Front(Q[w], k) = [i \in 1..k |-> buf[w][At(w, i)]]
    BY <2>2, <2>3 DEF Queues!Front
  <2>5. ret'.call = call /\ ret'.n = k
    BY DEF Returned
  <2>6. Queues!Peek(b, call, k)
    BY <1>3, <2>1, <2>2, <2>4 DEF Queues!Peek, Queues!NothingMoves, Queues!Answer, Returned, Q
  <2> QED  BY <1>0, <2>5, <2>6 DEF Queues!QNext
<1> QED  BY <1>6, <1>7, <1>8, <1>9, <1>10 DEF Quiet, Answered

\* The read index moved on by k: what was the i-th byte behind it is now the i-th.
LEMMA MovedOn ==
  ASSUME NEW w \in BIOs, RingOf(w), NEW k \in 1..len[w], NEW i \in 1..(len[w] - k)
  PROVE  Wrapped(w, Wrapped(w, offset[w] + k) + i - 1) = Wrapped(w, offset[w] + (i + k) - 1)
  BY DEF RingOf, Wrapped

\* Reading takes the oldest bytes off the queue, also where the ring wraps.
LEMMA OutRefines ==
  ASSUME IInv, NEW b \in live, NEW call, NEW k \in Nat, Out(b, call, k)
  PROVE  Queues!QNext
<1>b. b \in BIOs /\ peer[b] # NULL /\ peer[b] \in BIOs
  BY FieldTypes, OneBIO DEF Out
<1> PICK w \in BIOs : w = peer[b]
  BY <1>b
<1>0. b \in BIOs /\ w # NULL
  BY <1>b
<1>1. /\ k \in 1..len[w]
      /\ \/ call.name = "read" /\ k = Smaller(call.ask, len[w])
         \/ call.name = "nread" /\ k <= call.ask
      /\ len' = [len EXCEPT ![w] = len[w] - k]
      /\ offset' = [offset EXCEPT ![w] = IF len[w] = k THEN 0 ELSE Wrapped(w, offset[w] + k)]
      /\ ret' = Returned(b, call, k, [i \in 1..k |-> buf[w][At(w, i)]])
      /\ UNCHANGED <<peer, closed, size, buf>>
  BY DEF Out
<1>2. Q[w] = [i \in 1..len[w] |-> buf[w][At(w, i)]] /\ Len(Q[w]) = len[w] /\ len[w] \in Nat
  BY <1>0, ContentsIs, OneBIO
<1>3. RingOf(w)
  BY <1>0, OneBIO DEF RingOf
<1>4. \A c \in BIOs \ {w} : Contents(c)' = Contents(c)
  <2> SUFFICES ASSUME NEW c \in BIOs \ {w} PROVE Contents(c)' = Contents(c)
    OBVIOUS
  <2>1. UNCHANGED <<len[c], offset[c], size[c], buf[c]>>
    BY <1>0, <1>1, FieldTypes
  <2> QED  BY <2>1, SameContents
<1>5. Contents(w)' = Queues!Rest(Q[w], k)
  <2>1. len'[w] = len[w] - k /\ offset'[w] = IF len[w] = k THEN 0 ELSE Wrapped(w, offset[w] + k)
    BY <1>0, <1>1, FieldTypes
  <2>2. Contents(w)' = [i \in 1..(len[w] - k) |-> buf[w][Wrapped(w, offset'[w] + i - 1)]]
    BY <1>1, <2>1 DEF Contents, Wrapped
  <2>3. ASSUME NEW i \in 1..(len[w] - k)
        PROVE  Q[w][i + k] = buf[w][Wrapped(w, offset'[w] + i - 1)]
    <3>1. len[w] # k /\ i + k \in 1..len[w]
      BY <1>1, <1>2
    <3>2. Wrapped(w, offset'[w] + i - 1) = At(w, i + k)
      BY <1>0, <1>1, <1>3, <2>1, <3>1, MovedOn DEF At
    <3>3. Q[w][i + k] = buf[w][At(w, i + k)]
      BY <1>2, <3>1
    <3> QED  BY <3>2, <3>3
  <2>4. Queues!Rest(Q[w], k) = [i \in 1..(len[w] - k) |-> Q[w][i + k]]
    BY <1>2 DEF Queues!Rest
  <2> QED  BY <2>2, <2>3, <2>4
<1>6. Q' = [Q EXCEPT ![w] = Queues!Rest(Q[w], k)]
  BY <1>0, <1>4, <1>5, OneQueue
<1>7. \A i \in 1..k : i \in 1..len[w]
  BY <1>1, <1>2
<1>8. Queues!Front(Q[w], k) = [i \in 1..k |-> buf[w][At(w, i)]]
  BY <1>2, <1>7 DEF Queues!Front
<1>9. /\ ret' = Queues!Answer(b, call, k, Queues!Front(Q[w], k))
      /\ ret'.call = call /\ ret'.n = k
  BY <1>1, <1>8 DEF Queues!Answer, Returned
<1>10. k \in 1..Len(Q[w])
  BY <1>1, <1>2
<1>11. Smaller(call.ask, len[w]) = Queues!Least(call.ask, Len(Q[w]))
  BY <1>2 DEF Smaller, Queues!Least
<1>12. Queues!Take(b, call, k)
  BY <1>0, <1>1, <1>6, <1>9, <1>10, <1>11 DEF Queues!Take, Queues!QueueBecomes, Q
<1> QED  BY <1>0, <1>9, <1>12 DEF Queues!QNext

\* Putting one sequence behind another.
LEMMA Concatenation ==
  ASSUME NEW m \in Nat, NEW k \in Nat, NEW s \in [1..m -> Bytes], NEW d \in [1..k -> Bytes]
  PROVE  s \o d = [i \in 1..(m + k) |-> IF i <= m THEN s[i] ELSE d[i - m]]
<1>1. s \in Seq(Bytes) /\ d \in Seq(Bytes) /\ Len(s) = m /\ Len(d) = k
  OBVIOUS
<1>2. s \o d \in Seq(Bytes) /\ Len(s \o d) = m + k
  BY <1>1
<1>3. \A i \in 1..(m + k) : (s \o d)[i] = IF i <= m THEN s[i] ELSE d[i - m]
  BY <1>1
<1>4. s \o d \in [1..(m + k) -> Bytes]
  BY <1>2, LenProperties
<1> QED  BY <1>3, <1>4

\* Writing appends to the queue, also where the ring wraps.
LEMMA InRefines ==
  ASSUME IInv, NEW b \in live, NEW call, NEW k \in Nat, NEW d, NEW ring, In(b, call, k, d, ring)
  PROVE  Queues!QNext
<1>0. b \in BIOs
  BY FieldTypes
<1>1. /\ peer[b] # NULL /\ ~closed[b]
      /\ k \in 1..(size[b] - len[b]) /\ d \in [1..k -> Bytes]
      /\ \/ call.name = "write" /\ k = Smaller(call.ask, size[b] - len[b])
         \/ call.name = "nwrite" /\ k <= call.ask
      /\ \A i \in 1..len[b] : ring[At(b, i)] = buf[b][At(b, i)]
      /\ \A i \in 1..k : ring[At(b, len[b] + i)] = d[i]
      /\ buf' = [buf EXCEPT ![b] = ring]
      /\ len' = [len EXCEPT ![b] = len[b] + k]
      /\ ret' = Returned(b, call, k, d)
      /\ UNCHANGED <<peer, closed, offset, size>>
  BY DEF In
<1>2. len[b] \in Nat /\ size[b] \in Nat
  BY <1>0, OneBIO
<1>3. \A c \in BIOs \ {b} : Contents(c)' = Contents(c)
  <2> SUFFICES ASSUME NEW c \in BIOs \ {b} PROVE Contents(c)' = Contents(c)
    OBVIOUS
  <2>1. UNCHANGED <<len[c], offset[c], size[c], buf[c]>>
    BY <1>0, <1>1, FieldTypes
  <2> QED  BY <2>1, SameContents
<1>4. /\ Q[b] = [i \in 1..len[b] |-> buf[b][At(b, i)]]
      /\ Q[b] \in Seq(Bytes) /\ Len(Q[b]) = len[b]
  BY <1>0, ContentsIs
<1>5. Q[b] \in [1..len[b] -> Bytes]
  BY <1>2, <1>4
<1>6. Q[b] \o d = [i \in 1..(len[b] + k) |-> IF i <= len[b] THEN Q[b][i] ELSE d[i - len[b]]]
  BY <1>1, <1>2, <1>5, Concatenation
<1>7. Contents(b)' = [i \in 1..(len[b] + k) |-> ring[At(b, i)]]
  <2>1. len'[b] = len[b] + k /\ offset'[b] = offset[b] /\ size'[b] = size[b] /\ buf'[b] = ring
    BY <1>0, <1>1, FieldTypes
  <2> QED  BY <2>1 DEF Contents, At, Wrapped
<1>8. ASSUME NEW i \in 1..(len[b] + k)
      PROVE  ring[At(b, i)] = IF i <= len[b] THEN Q[b][i] ELSE d[i - len[b]]
  <2>1. CASE i <= len[b]
    <3>1. i \in 1..len[b]
      BY <1>2, <2>1
    <3> QED  BY <1>1, <1>4, <2>1, <3>1
  <2>2. CASE ~(i <= len[b])
    <3>1. i - len[b] \in 1..k /\ len[b] + (i - len[b]) = i
      BY <1>2, <2>2
    <3> QED  BY <1>1, <2>2, <3>1
  <2> QED  BY <2>1, <2>2
<1>9. Contents(b)' = Q[b] \o d
  BY <1>6, <1>7, <1>8
<1>10. Q' = [Q EXCEPT ![b] = Q[b] \o d]
  BY <1>0, <1>3, <1>9, OneQueue
<1>11. d \in Seq(Bytes) /\ Len(d) = k /\ d # <<>>
  BY <1>1
<1>12. Len(Q[b]) + Len(d) <= size[b]
  BY <1>1, <1>2, <1>4, <1>11
<1>13. ret'.data = d /\ ret'.call = call /\ ret' = Queues!Answer(b, call, Len(d), d)
  BY <1>1, <1>11 DEF Returned, Queues!Answer
<1>14. Smaller(call.ask, size[b] - len[b]) = Queues!Least(call.ask, size[b] - Len(Q[b]))
  BY <1>4 DEF Smaller, Queues!Least
<1>15. Queues!Put(b, call, d)
  BY <1>1, <1>10, <1>11, <1>12, <1>13, <1>14 DEF Queues!Put, Queues!QueueBecomes, Q
<1> QED  BY <1>0, <1>13, <1>15 DEF Queues!QNext

\* What the caller stores through the pointer it was lent is no part of the queue yet.
LEMMA FillRefines ==
  ASSUME IInv, NEW b \in live, NEW x, NEW v \in Data, Fill(b, x, v)
  PROVE  UNCHANGED <<peer, closed, size, Q, ret>>
<1>0. b \in BIOs
  BY FieldTypes
<1>1. /\ x \in lent[b] /\ buf' = [buf EXCEPT ![b][x] = v]
      /\ UNCHANGED <<peer, closed, len, offset, size, ret>>
  BY DEF Fill
<1>2. buf' = [c \in BIOs |-> IF c = b THEN [buf[b] EXCEPT ![x] = v] ELSE buf[c]]
  BY <1>0, <1>1, FieldTypes
<1>3. ASSUME NEW c \in BIOs, c # b PROVE Contents(c)' = Contents(c)
  <2>1. UNCHANGED <<len[c], offset[c], size[c], buf[c]>>
    BY <1>1, <1>2, <1>3
  <2> QED  BY <2>1, SameContents
<1>4. Contents(b)' = Contents(b)
  <2>1. /\ RingOf(b) /\ len[b] \in Nat /\ size[b] \in Nat /\ len[b] <= size[b] /\ len[b] # size[b]
        /\ len[b] > 0 => lent[b] \subseteq Space(b)
        /\ buf[b] \in [0..(size[b] - 1) -> Bytes]
    BY <1>0, <1>1, OneBIO DEF RingOf
  <2>2. buf'[b] = [buf[b] EXCEPT ![x] = v]
    BY <1>0, <1>2
  <2>3. ASSUME NEW i \in 1..len[b] PROVE buf'[b][At(b, i)] = buf[b][At(b, i)]
    <3>1. i \in 1..size[b] /\ len[b] > 0
      BY <2>1
    <3>2. At(b, i) \in 0..(size[b] - 1) /\ At(b, i) # x
      BY <1>0, <1>1, <2>1, <3>1, WrappedInBuffer, WriteOffsetIs DEF At
    <3> QED  BY <2>1, <2>2, <3>2
  <2>4. Contents(b)' = [i \in 1..len[b] |-> buf'[b][At(b, i)]]
    BY <1>1 DEF Contents, At, Wrapped
  <2>5. Contents(b) = [i \in 1..len[b] |-> buf[b][At(b, i)]]
    BY DEF Contents, At
  <2> QED  BY <2>3, <2>4, <2>5
<1>5. Q' = Q
  BY <1>3, <1>4, SameQueues
<1> QED  BY <1>1, <1>5

\* BIO_C_SHUTDOWN_WR shuts the queue.
LEMMA ShutdownRefines ==
  ASSUME IInv, NEW b \in live, shutdown_wr(b)
  PROVE  Queues!QNext
<1>0. b \in BIOs
  BY FieldTypes
<1>1. /\ closed' = [closed EXCEPT ![b] = TRUE] /\ ret' = Queues!Done(b, 1)
      /\ UNCHANGED <<peer, len, offset, size, buf>>
  BY DoneIs DEF shutdown_wr, Return, Returned
<1>2. Q' = Q
  BY <1>1, SameContents, SameQueues
<1>3. Queues!Shutdown(b)
  BY <1>1, <1>2 DEF Queues!Shutdown, Q
<1> QED  BY <1>0, <1>3 DEF Queues!QNext

\* BIO_CTRL_RESET throws the queue away.
LEMMA ResetRefines ==
  ASSUME IInv, NEW b \in live, ctrl_reset(b)
  PROVE  Queues!QNext
<1>0. b \in BIOs
  BY FieldTypes
<1>1. Emptied({b}) /\ ret' = Queues!Done(b, 0) /\ UNCHANGED <<peer, closed, size, buf>>
  BY ResetKeeps, DoneIs DEF ctrl_reset, Return, Returned
<1>2. Contents(b)' = <<>>
  BY <1>0, <1>1, EmptyContentsNext DEF Emptied
<1>3. \A c \in BIOs \ {b} : Contents(c)' = Contents(c)
  <2> SUFFICES ASSUME NEW c \in BIOs \ {b} PROVE Contents(c)' = Contents(c)
    OBVIOUS
  <2>1. UNCHANGED <<len[c], offset[c], size[c], buf[c]>>
    BY <1>1 DEF Emptied
  <2> QED  BY <2>1, SameContents
<1>4. Q' = [Q EXCEPT ![b] = <<>>]
  BY <1>0, <1>2, <1>3, OneQueue
<1>5. Queues!Discard(b)
  BY <1>1, <1>4 DEF Queues!Discard, Queues!QueueBecomes, Q
<1> QED  BY <1>0, <1>5 DEF Queues!QNext

\* A BIO without a peer gets another capacity.
LEMMA ResizedRefines ==
  ASSUME IInv, NEW b \in BIOs, NEW n, Resized(b, n)
  PROVE  Queues!QNext
<1>1. /\ peer[b] = NULL /\ n \in Nat \ {0} /\ size' = [size EXCEPT ![b] = n]
      /\ UNCHANGED <<peer, len, offset>>
      /\ closed' = closed \/ closed' = [closed EXCEPT ![b] = FALSE]
  BY DEF Resized
<1>2. size'[b] = n
  BY <1>1, FieldTypes
<1>3. ASSUME NEW c \in BIOs PROVE Contents(c)' = Contents(c)
  <2>1. CASE c = b
    <3>1. len[b] = 0 /\ len'[b] = 0
      BY <1>1, OneBIO
    <3> QED  BY <2>1, <3>1, EmptyContents, EmptyContentsNext
  <2>2. CASE c # b
    <3>1. size'[c] = size[c]
      BY <1>1, <2>2, FieldTypes
    <3>2. buf'[c] = buf[c]
      BY <2>2, FieldTypes DEF Resized
    <3> QED  BY <1>1, <3>1, <3>2, SameContents
  <2> QED  BY <2>1, <2>2
<1>4. Q' = Q
  BY <1>3, SameQueues
<1> PICK c \in BIOs : ret' = Queues!Done(c, 1)
  BY DoneIs DEF Resized
<1>5. Queues!Resize(c, b, size'[b])
  BY <1>1, <1>2, <1>4 DEF Queues!Resize, Q
<1> QED  BY <1>5 DEF Queues!QNext

\* bio_make_pair connects two empty queues, or runs out of memory.
LEMMA MakePairRefines ==
  ASSUME IInv, NEW a \in live, NEW b \in live, bio_make_pair(a, b), ~Quiet(a)
  PROVE  Queues!QNext
<1>0. a \in BIOs /\ b \in BIOs
  BY FieldTypes
<1>1. peer[a] = NULL /\ peer[b] = NULL /\ UNCHANGED <<len, offset, size, buf>>
  BY MakePairKeeps
<1>2. Q' = Q
  BY <1>1, SameContents, SameQueues
<1>3. CASE ret' = Queues!Done(a, 0) /\ UNCHANGED <<peer, closed>>
  <2>1. ret'.n = 0 /\ 0 \in {0, 1}
    BY <1>3 DEF Queues!Done, Queues!Answer
  <2>2. Queues!Idle(a, ret'.n)
    BY <1>1, <1>2, <1>3, <2>1 DEF Queues!Idle, Queues!NothingMoves, Q
  <2> QED  BY <1>0, <2>2 DEF Queues!QNext
<1>4. CASE /\ peer' = [peer EXCEPT ![a] = b, ![b] = a]
           /\ closed' = [closed EXCEPT ![a] = FALSE, ![b] = FALSE]
           /\ ret' = Queues!Done(a, 1)
  <2>1. Queues!Connect(a, b)
    BY <1>1, <1>2, <1>4 DEF Queues!Connect, Q
  <2> QED  BY <1>0, <2>1 DEF Queues!QNext
<1>5. \A n : Return(a, CONTROL, n, <<>>) => ret' = Queues!Done(a, n)
  BY DoneIs DEF Return, Returned
<1> QED  BY <1>1, <1>3, <1>4, <1>5 DEF bio_make_pair

\* The end of a pair is the end of both queues.
LEMMA DissolveRefines ==
  ASSUME IInv, NEW b \in live, peer[b] # NULL, bio_destroy_pair(b) \/ bio_free(b)
  PROVE  Queues!QNext
<1>0. b \in BIOs /\ peer[b] \in BIOs
  BY FieldTypes, OneBIO
<1> PICK w \in BIOs : w = peer[b]
  BY <1>0
<1>1. /\ Emptied({b, w}) /\ peer' = [peer EXCEPT ![b] = NULL, ![w] = NULL]
      /\ UNCHANGED <<closed, size, buf>> /\ ret' = Queues!Done(b, 1)
  BY DissolveKeeps, DoneIs
<1>2. Contents(b)' = <<>> /\ Contents(w)' = <<>>
  BY <1>0, <1>1, EmptyContentsNext DEF Emptied
<1>3. \A c \in BIOs \ {b, w} : Contents(c)' = Contents(c)
  <2> SUFFICES ASSUME NEW c \in BIOs \ {b, w} PROVE Contents(c)' = Contents(c)
    OBVIOUS
  <2>1. UNCHANGED <<len[c], offset[c], size[c], buf[c]>>
    BY <1>1 DEF Emptied
  <2> QED  BY <2>1, SameContents
<1>4. Q' = [Q EXCEPT ![b] = <<>>, ![w] = <<>>]
  BY <1>0, <1>2, <1>3 DEF Q
<1>5. Queues!Disconnect(b)
  BY <1>0, <1>1, <1>4 DEF Queues!Disconnect, Q
<1> QED  BY <1>0, <1>5 DEF Queues!QNext

\* Freeing a BIO without a peer changes no queue.
LEMMA FreeRefines ==
  ASSUME IInv, NEW b \in live, peer[b] = NULL, bio_free(b)
  PROVE  Queues!QNext
<1>0. b \in BIOs
  BY FieldTypes
<1>1. UNCHANGED <<peer, closed, len, offset, size, buf>> /\ ret' = Queues!Done(b, 1)
  BY FreeKeeps, DoneIs
<1>2. Q' = Q
  BY <1>1, SameContents, SameQueues
<1>3. ret'.n = 1 /\ 1 \in {0, 1}
  BY <1>1 DEF Queues!Done, Queues!Answer
<1>4. Queues!Idle(b, ret'.n)
  BY <1>1, <1>2, <1>3 DEF Queues!Idle, Queues!NothingMoves, Q
<1> QED  BY <1>0, <1>4 DEF Queues!QNext

\* Every call is a step of the queues, or changes nothing there.
LEMMA EffectRefines ==
  ASSUME IInv, NEW b \in live, Effect(b)
  PROVE  Queues!QNext \/ UNCHANGED <<peer, closed, size, Q, ret>>
<1>0. b \in BIOs
  BY FieldTypes
<1>1. CASE Quiet(b)
  BY <1>1, QuietRefines
<1>2. CASE \E call : \E k \in Nat : Out(b, call, k)
  BY <1>2, OutRefines
<1>3. CASE \E call : \E k \in Nat : \E d, ring : In(b, call, k, d, ring)
  BY <1>3, InRefines
<1>4. CASE \E i : \E v \in Data : Fill(b, i, v)
  BY <1>4, FillRefines
<1>5. CASE shutdown_wr(b)
  BY <1>5, ShutdownRefines
<1>6. CASE ctrl_reset(b)
  BY <1>6, ResetRefines
<1>7. CASE \E a \in live : \E n : Resized(a, n)
  BY <1>7, FieldTypes, ResizedRefines
<1>8. CASE ~Quiet(b) /\ \E a \in live : bio_make_pair(b, a)
  BY <1>8, MakePairRefines
<1>9. CASE peer[b] # NULL /\ (bio_destroy_pair(b) \/ bio_free(b))
  BY <1>9, DissolveRefines
<1>10. CASE peer[b] = NULL /\ bio_free(b)
  BY <1>10, FreeRefines
<1> QED  BY <1>1, <1>2, <1>3, <1>4, <1>5, <1>6, <1>7, <1>8, <1>9, <1>10 DEF Effect

\* BIO pairs are pairs of bounded queues of bytes: bio_read and bio_nread return what
\* was written to the peer, each byte once and in order; a read returns 0 only at the
\* end of the stream, a write fails for good only when its side is closed, a retry is
\* asked for only when the queue is empty or full, and otherwise bytes are moved.
THEOREM PairsAreQueues == Spec => IsQueuePair
<1>1. Init => Queues!QInit
  <2> SUFFICES ASSUME Init PROVE Queues!QInit
    OBVIOUS
  <2>1. \A b \in BIOs : len[b] = 0
    BY DEF Init
  <2>2. \A b \in BIOs : Contents(b) = <<>>
    BY <2>1, EmptyContents
  <2>3. Q = [b \in BIOs |-> <<>>]
    BY <2>2 DEF Q
  <2> QED  BY <2>3, ConstantsAssumption DEF Init, CONTROL, Call, Queues!QInit, Queues!Done, Queues!Answer, Queues!Call, Q
<1>2. IInv /\ [Next]_vars => [Queues!QNext]_(Queues!qvars)
  <2> SUFFICES ASSUME IInv, [Next]_vars
               PROVE  Queues!QNext \/ UNCHANGED <<peer, closed, size, Q, ret>>
    BY DEF Queues!qvars, Q
  <2>1. CASE Next
    BY <2>1, Effects, EffectRefines, ResizedRefines
  <2>2. CASE UNCHANGED vars
    <3>1. UNCHANGED <<peer, closed, size, len, offset, buf, ret>>
      BY <2>2 DEF vars
    <3>2. Q' = Q
      BY <3>1, SameContents, SameQueues
    <3> QED  BY <3>1, <3>2
  <2> QED  BY <2>1, <2>2
<1> QED  BY <1>1, <1>2, Invariance, PTL DEF Spec, IsQueuePair, Queues!QSpec
=============================================================================
