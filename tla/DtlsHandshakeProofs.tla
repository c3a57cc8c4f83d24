------------------------ MODULE DtlsHandshakeProofs -------------------------
(***************************************************************************)
(* Proofs about the DTLS handshake over a lossy network, for any scripts,   *)
(* MTUs, numbers of timeouts and losses.  The inductive invariant IInv ties *)
(* epochs and message numbers to the position in the script, and record     *)
(* numbers to the counters of the record layer.                             *)
(***************************************************************************)
EXTENDS DtlsHandshake, FiniteSetTheorems, WellFoundedInduction, TLAPS

\* The ChangeCipherSpecs and the other messages of f before position n of the script.
Changes(f, n) == {i \in 1..(n - 1) : script[i].by = f /\ script[i].kind = "change_cipher_spec"}
Numbered(f, n) == {i \in 1..(n - 1) : script[i].by = f /\ script[i].kind # "change_cipher_spec"}

\* The number of a message of the script; ChangeCipherSpec has that of the next message.
SeqOf(msg) == Cardinality(Numbered(script[msg].by, msg))

Items == [msg : 1..Len(script), seq : Nat, epoch : Nat, priority : Nat]
Pieces == [seq : Nat, msg : 1..Len(script), have : SUBSET Nat, whole : BOOLEAN]

\* The variables TypeOK describes by their elements are functions on the ends.
Shapes ==
    /\ sent \in [Ends -> Seq(Items)]
    /\ buffered \in [Ends -> SUBSET Pieces]
    /\ used \in [Ends -> SUBSET (Nat \X Nat)]

\* Epochs and message numbers follow from the position in the script.
Positions ==
    \A e \in Ends :
        /\ out[e].epoch = Cardinality(Changes(e, pos[e]))
        /\ r_epoch[e] = Cardinality(Changes(Peer(e), pos[e]))
        /\ ~Done(e) => /\ write_seq[e] = Cardinality(Numbered(e, pos[e]))
                       /\ read_seq[e] = Cardinality(Numbered(Peer(e), pos[e]))

\* An item kept for retransmission stands for a message its end has written.
KeptItem(e, x) ==
    /\ script[x.msg].by = e
    /\ x.msg < pos[e]
    /\ x.epoch = EpochOf(x.msg)
    /\ x.seq = SeqOf(x.msg)

Kept == \A e \in Ends : \A i \in 1..Len(sent[e]) : KeptItem(e, sent[e][i])

\* A record carries part of one message, under its epoch and number.
GoodPacket(p) ==
    /\ p \in Packets
    /\ p.epoch = EpochOf(p.msg)
    /\ p.to = Peer(script[p.msg].by)
    /\ p.seq = SeqOf(p.msg)
    /\ p.hi <= script[p.msg].length

UnderWay == \A p \in net : GoodPacket(p)

\* What is put together is a message of the peer sent under the epoch in use.
GoodPiece(e, x) ==
    /\ script[x.msg].by = Peer(e)
    /\ script[x.msg].kind # "change_cipher_spec"
    /\ x.seq = SeqOf(x.msg)
    /\ EpochOf(x.msg) = r_epoch[e]
    /\ x.have \subseteq 1..script[x.msg].length

Collected == \A e \in Ends : \A x \in buffered[e] : GoodPiece(e, x)

\* The record number q is behind the counters of o.
Behind(o, q) ==
    /\ q[1] <= o.epoch
    /\ q[1] = o.epoch => q[2] < o.seq
    /\ q[1] = o.epoch - 1 => q[2] < o.last

Numbering == ~reused /\ \A e \in Ends : \A q \in used[e] : Behind(out[e], q)

IInv ==
    /\ TypeOK /\ Shapes /\ Positions /\ Kept /\ UnderWay /\ Collected /\ Numbering /\ NoConfusion

----------------------------------------------------------------------------
(* Induction, and what the operators compute.                              *)

Less == {p \in Nat \X Nat : p[1] < p[2]}

LEMMA LessWellFounded == IsWellFoundedOn(Less, Nat)
  BY NatLessThanWellFounded, Zenon DEF OpToRel, Less

LEMMA SmallestMember ==
  ASSUME NEW T \in SUBSET Nat, T # {}
  PROVE  \E x \in T : \A y \in T : x <= y
<1>1. PICK x \in T : \A y \in T : ~ (<<y, x>> \in Less)
  BY LessWellFounded, WFMin, Zenon
<1>2. \A y \in T : ~ (y < x)
  <2> TAKE y \in T
  <2>1. x \in Nat /\ y \in Nat
    OBVIOUS
  <2>2. <<y, x>> \notin Less
    BY <1>1
  <2>3. y < x => <<y, x>> \in Less
    BY <2>1 DEF Less
  <2>4. QED
    BY <2>2, <2>3
<1>3. QED
  BY <1>2

LEMMA Induction ==
  ASSUME NEW S, 0 \in S, \A n \in Nat : n \in S => n + 1 \in S
  PROVE  Nat \subseteq S
<1>1. SUFFICES ASSUME Nat \ S # {}
               PROVE  FALSE
  OBVIOUS
<1>2. PICK x \in Nat \ S : \A y \in Nat \ S : x <= y
  BY <1>1, SmallestMember
<1>3. x # 0
  BY <1>2
<1>4. x - 1 \in S
  BY <1>2, <1>3
<1>5. QED
  BY <1>2, <1>3, <1>4

\* The fragments of a message: inside it, and as many as their numbers say.
LEMMA FragmentsFit ==
  ASSUME NEW length \in Nat \ {0}, NEW m \in Nat \ {0}
  PROVE  /\ Cardinality(Fragments(length, m)) \in Nat
         /\ \A f \in Fragments(length, m) :
                /\ f.lo \in 1..length /\ f.hi \in 1..length
                /\ (f.lo - 1) \div m \in Nat
                /\ (f.lo - 1) \div m < Cardinality(Fragments(length, m))
<1> DEFINE L == {n \in 1..length : (n - 1) % m = 0}
           F == Fragments(length, m)
           frag(n) == [lo |-> n, hi |-> IF n + m - 1 < length THEN n + m - 1 ELSE length]
<1>1. IsFiniteSet(L) /\ Cardinality(L) \in Nat
  <2>1. IsFiniteSet(1..length) /\ L \subseteq 1..length
    BY FS_Interval
  <2>2. QED
    BY <2>1, FS_Subset, FS_CardinalityType
<1>2. F = {frag(n) : n \in L}
  BY DEF Fragments
<1>3. IsFiniteSet(F) /\ Cardinality(F) = Cardinality(L)
  <2> DEFINE g == [n \in L |-> frag(n)]
  <2>1. g \in [L -> F] /\ \A n \in L : g[n] = frag(n) /\ g[n].lo = n
    BY <1>2
  <2>2. \A y \in F : \E n \in L : g[n] = y
    BY <1>2
  <2>3. g \in Bijection(L, F)
    <3> HIDE DEF g, F, L
    <3>1. \A a, b \in L : g[a] = g[b] => a = b
      BY <2>1
    <3>2. QED
      BY <2>1, <2>2, <3>1 DEF Bijection, Injection, Surjection, IsInjective
  <2>4. ExistsBijection(L, F)
    BY <2>3 DEF ExistsBijection
  <2>5. QED
    BY <1>1, <2>4, FS_Bijection
<1>4. ASSUME NEW n \in L
      PROVE  (n - 1) \div m \in Nat /\ (n - 1) \div m < Cardinality(L)
  <2> DEFINE k == (n - 1) \div m
             g == [j \in 0..k |-> j * m + 1]
             K == {j * m + 1 : j \in 0..k}
  <2>1. n \in 1..length /\ n - 1 \in Nat /\ (n - 1) % m = 0
    OBVIOUS
  <2>2. k \in Nat /\ n - 1 = m * k
    BY <2>1
  <2> HIDE DEF k
  <2>3. ASSUME NEW j \in 0..k
        PROVE  j * m + 1 \in L
    <3>1. j \in Nat /\ j <= k /\ j * m \in Nat
      BY <2>2
    <3>2. j * m <= k * m
      BY <2>2, <3>1
    <3>3. j * m + 1 \in 1..length
      BY <2>1, <2>2, <3>1, <3>2
    <3>4. (j * m) % m = 0
      BY <3>1
    <3>5. (j * m + 1) - 1 = j * m
      BY <3>1
    <3>6. QED
      BY <3>3, <3>4, <3>5
  <2>4. K \subseteq L
    BY <2>3
  <2>5. \A i, j \in 0..k : i * m + 1 = j * m + 1 => i = j
    <3> SUFFICES ASSUME NEW i \in 0..k, NEW j \in 0..k, i * m + 1 = j * m + 1
                 PROVE  i = j
      OBVIOUS
    <3>1. i \in Nat /\ j \in Nat /\ i * m \in Nat /\ j * m \in Nat
      BY <2>2
    <3>2. i * m = j * m
      BY <3>1
    <3>3. QED
      BY <3>1, <3>2
  <2>6. g \in Bijection(0..k, K)
    BY <2>5 DEF Bijection, Injection, Surjection, IsInjective
  <2>7. ExistsBijection(0..k, K)
    BY <2>6 DEF ExistsBijection
  <2>8. IsFiniteSet(0..k) /\ Cardinality(0..k) = k + 1
    BY <2>2, FS_Interval
  <2>9. IsFiniteSet(K) /\ Cardinality(K) = k + 1
    BY <2>7, <2>8, FS_Bijection
  <2>10. Cardinality(K) <= Cardinality(L)
    BY <1>1, <2>4, FS_Subset
  <2>11. QED
    BY <1>1, <2>2, <2>9, <2>10 DEF k
<1>5. ASSUME NEW n \in L
      PROVE  frag(n).lo = n /\ frag(n).lo \in 1..length /\ frag(n).hi \in 1..length
  OBVIOUS
<1> HIDE DEF L, F, frag
<1>6. QED
  <2>1. SUFFICES /\ Cardinality(F) \in Nat
                 /\ \A f \in F : /\ f.lo \in 1..length /\ f.hi \in 1..length
                                 /\ (f.lo - 1) \div m \in Nat
                                 /\ (f.lo - 1) \div m < Cardinality(F)
    BY DEF F
  <2>2. QED
    BY <1>1, <1>2, <1>3, <1>4, <1>5

----------------------------------------------------------------------------
(* Counting the messages of a script.                                      *)

LEMMA ScriptTyped ==
  ASSUME script \in Scripts
  PROVE  /\ script \in Seq(ScriptMessages) /\ Len(script) \in Nat
         /\ \A i \in 1..Len(script) :
                /\ script[i].by \in Ends /\ script[i].kind \in Kinds /\ script[i].length \in Nat \ {0}
                /\ script[i].timer \in BOOLEAN
<1>1. script \in Seq(ScriptMessages)
  BY ScriptAssumption
<1>2. \A i \in 1..Len(script) : script[i] \in ScriptMessages
  BY <1>1
<1>3. QED
  BY <1>1, <1>2 DEF ScriptMessages

LEMMA CountTypes ==
  ASSUME NEW f, NEW n \in Nat
  PROVE  /\ IsFiniteSet(Changes(f, n)) /\ Cardinality(Changes(f, n)) \in Nat
         /\ IsFiniteSet(Numbered(f, n)) /\ Cardinality(Numbered(f, n)) \in Nat
<1>1. IsFiniteSet(1..(n - 1))
  BY FS_Interval
<1>2. Changes(f, n) \subseteq 1..(n - 1) /\ Numbered(f, n) \subseteq 1..(n - 1)
  BY DEF Changes, Numbered
<1>3. QED
  BY <1>1, <1>2, FS_Subset, FS_CardinalityType

\* One message further.
LEMMA CountsNext ==
  ASSUME NEW f, NEW n \in Nat \ {0}
  PROVE  /\ Cardinality(Changes(f, n + 1)) = Cardinality(Changes(f, n))
                + IF script[n].by = f /\ script[n].kind = "change_cipher_spec" THEN 1 ELSE 0
         /\ Cardinality(Numbered(f, n + 1)) = Cardinality(Numbered(f, n))
                + IF script[n].by = f /\ script[n].kind # "change_cipher_spec" THEN 1 ELSE 0
<1>1. 1..((n + 1) - 1) = (1..(n - 1)) \cup {n} /\ n \notin 1..(n - 1)
  OBVIOUS
<1>2. n \notin Changes(f, n) /\ n \notin Numbered(f, n)
  BY <1>1 DEF Changes, Numbered
<1>3. Changes(f, n + 1) = IF script[n].by = f /\ script[n].kind = "change_cipher_spec"
                          THEN Changes(f, n) \cup {n} ELSE Changes(f, n)
  BY <1>1 DEF Changes
<1>4. Numbered(f, n + 1) = IF script[n].by = f /\ script[n].kind # "change_cipher_spec"
                           THEN Numbered(f, n) \cup {n} ELSE Numbered(f, n)
  BY <1>1 DEF Numbered
<1>5. /\ Cardinality(Changes(f, n) \cup {n}) = Cardinality(Changes(f, n)) + 1
      /\ Cardinality(Numbered(f, n) \cup {n}) = Cardinality(Numbered(f, n)) + 1
      /\ Cardinality(Changes(f, n)) \in Nat /\ Cardinality(Numbered(f, n)) \in Nat
  BY <1>2, CountTypes, FS_AddElement
<1>6. QED
  BY <1>3, <1>4, <1>5

\* Later counts are not smaller, and larger past a message that is counted.
LEMMA CountsGrow ==
  ASSUME NEW f, NEW i \in Nat \ {0}, NEW j \in Nat, i <= j
  PROVE  /\ Cardinality(Changes(f, i)) <= Cardinality(Changes(f, j))
         /\ Cardinality(Numbered(f, i)) <= Cardinality(Numbered(f, j))
         /\ i < j /\ script[i].by = f /\ script[i].kind = "change_cipher_spec"
                => Cardinality(Changes(f, i)) < Cardinality(Changes(f, j))
         /\ i < j /\ script[i].by = f /\ script[i].kind # "change_cipher_spec"
                => Cardinality(Numbered(f, i)) < Cardinality(Numbered(f, j))
<1>1. Changes(f, i) \subseteq Changes(f, j) /\ Numbered(f, i) \subseteq Numbered(f, j)
  BY DEF Changes, Numbered
<1>2. /\ Cardinality(Changes(f, i)) <= Cardinality(Changes(f, j))
      /\ Cardinality(Numbered(f, i)) <= Cardinality(Numbered(f, j))
  BY <1>1, CountTypes, FS_Subset
<1>3. ASSUME i < j
      PROVE  Changes(f, i + 1) \subseteq Changes(f, j) /\ Numbered(f, i + 1) \subseteq Numbered(f, j)
  BY <1>3 DEF Changes, Numbered
<1>4. ASSUME i < j
      PROVE  /\ Cardinality(Changes(f, i + 1)) <= Cardinality(Changes(f, j))
             /\ Cardinality(Numbered(f, i + 1)) <= Cardinality(Numbered(f, j))
  BY <1>3, <1>4, CountTypes, FS_Subset
<1>5. /\ Cardinality(Changes(f, i)) \in Nat /\ Cardinality(Numbered(f, i)) \in Nat
      /\ Cardinality(Changes(f, j)) \in Nat /\ Cardinality(Numbered(f, j)) \in Nat
  BY CountTypes
<1>6. QED
  BY <1>2, <1>4, <1>5, CountsNext

\* Each side changes its keys once.
LEMMA OneChange ==
  ASSUME script \in Scripts, NEW f, NEW n \in 1..(Len(script) + 1)
  PROVE  Cardinality(Changes(f, n)) \in {0, 1}
<1>1. Len(script) \in Nat
  BY ScriptTyped
<1>2. \A i, j \in Changes(f, n) : i = j
  <2>1. \A i \in Changes(f, n) : i \in 1..Len(script) /\ script[i].by = f /\ script[i].kind = "change_cipher_spec"
    BY <1>1 DEF Changes
  <2>2. QED
    BY <2>1, CcsAssumption
<1>3. CASE Changes(f, n) = {}
  BY <1>3, FS_EmptySet
<1>4. CASE Changes(f, n) # {}
  <2>1. PICK i \in Changes(f, n) : Changes(f, n) = {i}
    BY <1>2, <1>4
  <2>2. QED
    BY <2>1, FS_Singleton
<1>5. QED
  BY <1>3, <1>4

\* A number names one message of each side.
LEMMA NumberNames ==
  ASSUME script \in Scripts, NEW i \in 1..Len(script), NEW j \in 1..Len(script),
         script[i].by = script[j].by,
         script[i].kind # "change_cipher_spec", script[j].kind # "change_cipher_spec",
         SeqOf(i) = SeqOf(j)
  PROVE  i = j
<1> DEFINE f == script[i].by
<1>1. Len(script) \in Nat
  BY ScriptTyped
<1>2. i \in Nat \ {0} /\ j \in Nat \ {0}
  BY <1>1
<1>3. Cardinality(Numbered(f, i)) = Cardinality(Numbered(f, j)) /\ Cardinality(Numbered(f, i)) \in Nat
  BY <1>2, CountTypes DEF SeqOf
<1>4. ~(i < j)
  BY <1>2, <1>3, CountsGrow
<1>5. ~(j < i)
  BY <1>2, <1>3, CountsGrow
<1>6. QED
  BY <1>2, <1>4, <1>5

----------------------------------------------------------------------------
(* Writing: new record numbers are ahead of the old ones.                  *)

Counters == [epoch : Nat, seq : Nat, last : Nat, curr : Nat]

GoodWriter(e, w) ==
    /\ w.out \in Counters /\ w.reused = FALSE
    /\ \A p \in w.packets : GoodPacket(p)
    /\ w.numbers \subseteq Nat \X Nat
    /\ \A q \in w.numbers \cup used[e] : Behind(w.out, q)

\* An item with the number and the epoch of its message.
OwnItem(e, item) ==
    /\ item.msg \in 1..Len(script) /\ item.seq \in Nat /\ item.epoch \in Nat
    /\ script[item.msg].by = e /\ item.epoch = EpochOf(item.msg) /\ item.seq = SeqOf(item.msg)

\* Written from number `first` on the records of the item are new, and behind o.
Ahead(e, w, item, m, first, o) ==
    /\ first \in Nat /\ o \in Counters
    /\ \A q \in w.numbers \cup used[e] : Behind(o, q) /\ (q[1] = item.epoch => q[2] < first)
    /\ \A n \in Nat : first <= n /\ n < first + Size(item, m) => Behind(o, <<item.epoch, n>>)

LEMMA DoWriteGood ==
  ASSUME script \in Scripts, NEW e \in Ends, NEW w, GoodWriter(e, w), NEW item, OwnItem(e, item),
         NEW m \in Nat \ {0}, NEW first, NEW o, Ahead(e, w, item, m, first, o)
  PROVE  GoodWriter(e, DoWrite(e, w, item, m, first, o)) /\ DoWrite(e, w, item, m, first, o).out = o
<1> DEFINE frags == Fragments(script[item.msg].length, m)
           number(f) == first + (f.lo - 1) \div m
           numbers == {<<item.epoch, number(f)>> : f \in frags}
           packet(f) == [to |-> Peer(e), msg |-> item.msg, seq |-> item.seq, lo |-> f.lo, hi |-> f.hi,
                         epoch |-> item.epoch, number |-> number(f)]
           d == DoWrite(e, w, item, m, first, o)
<1>0. /\ item.msg \in 1..Len(script) /\ item.seq \in Nat /\ item.epoch \in Nat
      /\ script[item.msg].by = e /\ item.epoch = EpochOf(item.msg) /\ item.seq = SeqOf(item.msg)
  BY DEF OwnItem
<1>a. /\ first \in Nat /\ o \in Counters
      /\ \A q \in w.numbers \cup used[e] : Behind(o, q) /\ (q[1] = item.epoch => q[2] < first)
      /\ \A n \in Nat : first <= n /\ n < first + Size(item, m) => Behind(o, <<item.epoch, n>>)
  BY DEF Ahead
<1>1. /\ d.out = o
      /\ d.packets = w.packets \cup {packet(f) : f \in frags}
      /\ d.numbers = w.numbers \cup numbers
      /\ d.reused = (w.reused \/ numbers \cap (w.numbers \cup used[e]) # {})
  BY DEF DoWrite
<1>2. script[item.msg].length \in Nat \ {0} /\ Len(script) \in Nat /\ Peer(e) \in Ends
  BY <1>0, ScriptTyped DEF Peer, Ends
<1>3. \A f \in frags : /\ f.lo \in 1..script[item.msg].length /\ f.hi \in 1..script[item.msg].length
                       /\ number(f) \in Nat /\ first <= number(f) /\ number(f) < first + Size(item, m)
  <2>1. /\ Cardinality(frags) \in Nat
        /\ \A f \in frags : /\ f.lo \in 1..script[item.msg].length /\ f.hi \in 1..script[item.msg].length
                            /\ (f.lo - 1) \div m \in Nat
                            /\ (f.lo - 1) \div m < Cardinality(frags)
    BY <1>2, FragmentsFit
  <2>2. Size(item, m) = Cardinality(frags)
    BY DEF Size
  <2> HIDE DEF frags
  <2>3. QED
    BY <1>a, <2>1, <2>2
<1>4. \A f \in frags : GoodPacket(packet(f))
  <2> SUFFICES ASSUME NEW f \in frags
               PROVE  GoodPacket(packet(f))
    OBVIOUS
  <2>1. f.lo \in Nat \ {0} /\ f.hi \in Nat \ {0} /\ f.hi <= script[item.msg].length /\ number(f) \in Nat
    BY <1>2, <1>3
  <2> HIDE DEF number, frags
  <2>2. packet(f) \in Packets
    BY <1>0, <1>2, <2>1 DEF Packets
  <2>3. QED
    BY <1>0, <2>1, <2>2 DEF GoodPacket
<1>5. \A q \in numbers : /\ q \in Nat \X Nat /\ q[1] = item.epoch /\ first <= q[2] /\ q[2] \in Nat
                         /\ Behind(o, q)
  <2> SUFFICES ASSUME NEW f \in frags
               PROVE  /\ <<item.epoch, number(f)>> \in Nat \X Nat
                      /\ first <= number(f) /\ number(f) \in Nat
                      /\ Behind(o, <<item.epoch, number(f)>>)
    OBVIOUS
  <2> HIDE DEF number, frags
  <2>1. QED
    BY <1>0, <1>a, <1>3
<1> HIDE DEF numbers, d, packet, frags
<1>6. numbers \cap (w.numbers \cup used[e]) = {}
  <2>1. ASSUME NEW q \in numbers, q \in w.numbers \cup used[e]
        PROVE  FALSE
    <3>1. q[1] = item.epoch /\ first <= q[2] /\ q[2] \in Nat
      BY <1>5
    <3>2. q[2] < first
      BY <1>a, <2>1, <3>1
    <3>3. QED
      BY <1>a, <3>1, <3>2
  <2>2. QED
    BY <2>1
<1>7. GoodWriter(e, d)
  BY <1>1, <1>a, <1>4, <1>5, <1>6 DEF GoodWriter
<1>8. QED
  BY <1>1, <1>7 DEF d

\* dtls1_retransmit_message swaps in the counter of the epoch of the item.
LEMMA RetransmitGood ==
  ASSUME script \in Scripts, NEW e \in Ends, NEW w, GoodWriter(e, w), NEW item \in Items,
         script[item.msg].by = e, item.epoch = EpochOf(item.msg), item.seq = SeqOf(item.msg),
         item.epoch \in {w.out.epoch - 1, w.out.epoch}, NEW m \in Nat \ {0}, used[e] \subseteq Nat \X Nat
  PROVE  /\ GoodWriter(e, Retransmit(e, w, item, m))
         /\ Retransmit(e, w, item, m).out.epoch = w.out.epoch
<1> DEFINE o == w.out
           s == Size(item, m)
           old == [o EXCEPT !.curr = o.seq, !.last = @ + s]
           new == [o EXCEPT !.seq = @ + s]
<1>1. /\ item.msg \in 1..Len(script) /\ item.seq \in Nat /\ item.epoch \in Nat
      /\ script[item.msg].length \in Nat \ {0}
  BY ScriptTyped DEF Items
<1>2. s \in Nat
  BY <1>1, FragmentsFit DEF Size
<1>3. o \in Counters /\ w.numbers \cup used[e] \subseteq Nat \X Nat
  BY DEF GoodWriter
<1>4. \A q \in w.numbers \cup used[e] : Behind(o, q) /\ q[1] \in Nat /\ q[2] \in Nat
  BY <1>3 DEF GoodWriter
<1> HIDE DEF o, s
<1>5. CASE item.epoch = o.epoch - 1
  <2>1. /\ old \in Counters /\ old.epoch = o.epoch /\ old.seq = o.seq /\ old.last = o.last + s
        /\ o.last \in Nat /\ o.seq \in Nat /\ o.epoch \in Nat
    <3> DEFINE mid == [o EXCEPT !.curr = o.seq]
    <3>1. o.last \in Nat /\ o.seq \in Nat /\ o.epoch \in Nat
      BY <1>3 DEF Counters
    <3>2. mid \in Counters /\ mid.epoch = o.epoch /\ mid.seq = o.seq /\ mid.last = o.last
      BY <1>3, <3>1 DEF Counters
    <3>3. old = [mid EXCEPT !.last = mid.last + s]
      BY <3>2
    <3> HIDE DEF old, mid
    <3>4. QED
      BY <1>2, <3>1, <3>2, <3>3 DEF Counters
  <2> HIDE DEF old
  <2>2. \A q \in w.numbers \cup used[e] : Behind(old, q) /\ (q[1] = item.epoch => q[2] < o.last)
    BY <1>2, <1>4, <1>5, <2>1 DEF Behind
  <2>3. \A n \in Nat : o.last <= n /\ n < o.last + Size(item, m) => Behind(old, <<item.epoch, n>>)
    BY <1>1, <1>5, <2>1 DEF Behind, s
  <2>4. Retransmit(e, w, item, m) = DoWrite(e, w, item, m, o.last, old)
    BY <1>5 DEF Retransmit, old, o, s
  <2>5. /\ GoodWriter(e, DoWrite(e, w, item, m, o.last, old))
        /\ DoWrite(e, w, item, m, o.last, old).out = old
    <3>1. OwnItem(e, item) /\ Ahead(e, w, item, m, o.last, old)
      BY <1>1, <2>1, <2>2, <2>3 DEF OwnItem, Ahead
    <3>2. QED
      BY <3>1, DoWriteGood
  <2>6. QED
    BY <2>1, <2>4, <2>5 DEF o
<1>6. CASE item.epoch = o.epoch
  <2>1. /\ new \in Counters /\ new.epoch = o.epoch /\ new.seq = o.seq + s /\ new.last = o.last
        /\ o.last \in Nat /\ o.seq \in Nat /\ o.epoch \in Nat
    BY <1>2, <1>3 DEF Counters
  <2> HIDE DEF new
  <2>2. \A q \in w.numbers \cup used[e] : Behind(new, q) /\ (q[1] = item.epoch => q[2] < o.seq)
    BY <1>2, <1>4, <1>6, <2>1 DEF Behind
  <2>3. \A n \in Nat : o.seq <= n /\ n < o.seq + Size(item, m) => Behind(new, <<item.epoch, n>>)
    BY <1>1, <1>6, <2>1 DEF Behind, s
  <2>4. Retransmit(e, w, item, m) = DoWrite(e, w, item, m, o.seq, new)
    <3>1. item.epoch # o.epoch - 1
      BY <1>6, <2>1
    <3>2. QED
      BY <3>1 DEF Retransmit, new, o, s
  <2>5. /\ GoodWriter(e, DoWrite(e, w, item, m, o.seq, new))
        /\ DoWrite(e, w, item, m, o.seq, new).out = new
    <3>1. OwnItem(e, item) /\ Ahead(e, w, item, m, o.seq, new)
      BY <1>1, <2>1, <2>2, <2>3 DEF OwnItem, Ahead
    <3>2. QED
      BY <3>1, DoWriteGood
  <2>6. QED
    BY <2>1, <2>4, <2>5 DEF o
<1>7. QED
  BY <1>5, <1>6 DEF o

\* What dtls1_retransmit_buffered_messages has written after n items.
Passes(f, e, m, k) ==
    f = [n \in 0..k |-> IF n = 0 THEN Writer(e) ELSE Retransmit(e, f[n - 1], sent[e][n], m)]

LEMMA PassesExist ==
  ASSUME NEW e, NEW m, NEW k \in Nat
  PROVE  \E f : Passes(f, e, m, k)
<1> DEFINE T == {n \in Nat : \E f : Passes(f, e, m, n)}
           again(w, n) == Retransmit(e, w, sent[e][n], m)
<1>1. 0 \in T
  <2>1. Passes([n \in 0..0 |-> Writer(e)], e, m, 0)
    BY DEF Passes
  <2>2. QED
    BY <2>1
<1>2. \A n \in Nat : n \in T => n + 1 \in T
  <2>1. SUFFICES ASSUME NEW n \in Nat, NEW f, Passes(f, e, m, n)
                 PROVE  \E g : Passes(g, e, m, n + 1)
    OBVIOUS
  <2> DEFINE g == [i \in 0..(n + 1) |-> IF i = n + 1 THEN again(f[n], n + 1) ELSE f[i]]
  <2>2. \A i \in 0..n : g[i] = f[i]
    OBVIOUS
  <2>3. \A i \in 0..n : f[i] = IF i = 0 THEN Writer(e) ELSE again(f[i - 1], i)
    BY <2>1, Zenon DEF Passes
  <2>4. ASSUME NEW i \in 0..(n + 1)
        PROVE  g[i] = IF i = 0 THEN Writer(e) ELSE again(g[i - 1], i)
    <3>1. CASE i = n + 1
      <4>1. g[i] = again(f[n], n + 1) /\ i - 1 = n /\ g[n] = f[n] /\ i # 0
        BY <3>1, <2>2
      <4> HIDE DEF g
      <4>2. QED
        BY <4>1, <3>1
    <3>2. CASE i # n + 1
      <4>1. i \in 0..n /\ (i # 0 => i - 1 \in 0..n)
        BY <3>2
      <4>2. g[i] = f[i] /\ (i # 0 => g[i - 1] = f[i - 1])
        BY <4>1, <2>2
      <4> HIDE DEF g
      <4>3. QED
        BY <4>1, <4>2, <2>3
    <3>3. QED
      BY <3>1, <3>2
  <2>5. g = [i \in 0..(n + 1) |-> g[i]]
    OBVIOUS
  <2> HIDE DEF g
  <2>6. Passes(g, e, m, n + 1)
    BY <2>4, <2>5 DEF Passes
  <2>7. QED
    BY <2>6
<1> HIDE DEF T
<1>3. k \in T
  BY <1>1, <1>2, Induction
<1>4. QED
  BY <1>3 DEF T

\* The record layer of e as it stands.
LEMMA WriterGood ==
  ASSUME IInv, NEW e \in Ends
  PROVE  /\ GoodWriter(e, Writer(e)) /\ Writer(e).out = out[e]
         /\ used[e] \subseteq Nat \X Nat /\ out[e] \in Counters
<1>1. out[e] \in Counters /\ used[e] \subseteq Nat \X Nat /\ \A q \in used[e] : Behind(out[e], q)
  BY DEF IInv, TypeOK, Shapes, Numbering, Counters
<1>2. QED
  BY <1>1 DEF Writer, GoodWriter

LEMMA RetransmitAllGood ==
  ASSUME IInv, NEW e \in Ends, NEW m \in Nat \ {0}
  PROVE  GoodWriter(e, RetransmitAll(e, m)) /\ RetransmitAll(e, m).out.epoch = out[e].epoch
<1> DEFINE k == Len(sent[e])
<1>1. script \in Scripts /\ sent[e] \in Seq(Items) /\ k \in Nat
  <2>1. script \in Scripts
    BY DEF IInv, TypeOK
  <2>2. sent[e] \in Seq(Items)
    BY DEF IInv, Shapes
  <2>3. QED
    BY <2>1, <2>2
<1>2. PICK f : Passes(f, e, m, k) /\ RetransmitAll(e, m) = f[k]
  <2>1. \E f : Passes(f, e, m, k)
    BY <1>1, PassesExist
  <2>2. QED
    BY <2>1 DEF Passes, RetransmitAll
<1>3. \A i \in 1..k : /\ sent[e][i] \in Items /\ KeptItem(e, sent[e][i])
                      /\ sent[e][i].epoch \in {out[e].epoch - 1, out[e].epoch}
  <2> SUFFICES ASSUME NEW i \in 1..k
               PROVE  /\ sent[e][i] \in Items /\ KeptItem(e, sent[e][i])
                      /\ sent[e][i].epoch \in {out[e].epoch - 1, out[e].epoch}
    OBVIOUS
  <2> DEFINE x == sent[e][i]
  <2>1. x \in Items /\ KeptItem(e, x)
    BY <1>1 DEF IInv, Kept
  <2> HIDE DEF x
  <2>2. Len(script) \in Nat /\ x.msg \in 1..Len(script) /\ pos[e] \in 1..(Len(script) + 1) /\ x.msg < pos[e]
    BY <1>1, <2>1, ScriptTyped DEF Items, KeptItem, IInv, TypeOK
  <2>3. x.epoch = Cardinality(Changes(e, x.msg))
    BY <2>1 DEF KeptItem, EpochOf, Changes
  <2>4. out[e].epoch = Cardinality(Changes(e, pos[e]))
    BY DEF IInv, Positions
  <2>5. x.epoch <= out[e].epoch /\ x.epoch \in {0, 1} /\ out[e].epoch \in {0, 1}
    <3>1. x.msg \in Nat \ {0} /\ pos[e] \in Nat /\ x.msg <= pos[e] /\ x.msg \in 1..(Len(script) + 1)
      BY <2>2
    <3>2. Cardinality(Changes(e, x.msg)) <= Cardinality(Changes(e, pos[e]))
      BY <3>1, CountsGrow
    <3>3. Cardinality(Changes(e, x.msg)) \in {0, 1} /\ Cardinality(Changes(e, pos[e])) \in {0, 1}
      BY <1>1, <2>2, <3>1, OneChange
    <3>4. QED
      BY <2>3, <2>4, <3>2, <3>3
  <2>6. QED
    BY <2>1, <2>5 DEF x
<1> DEFINE Good(n) == GoodWriter(e, f[n]) /\ f[n].out.epoch = out[e].epoch
           T == {n \in Nat : n <= k => Good(n)}
<1>4. \A i \in 0..k : f[i] = IF i = 0 THEN Writer(e) ELSE Retransmit(e, f[i - 1], sent[e][i], m)
  BY <1>2, Zenon DEF Passes
<1> HIDE DEF k
<1>5. 0 \in T
  <2>1. f[0] = Writer(e)
    BY <1>1, <1>4
  <2>2. QED
    BY <2>1, WriterGood
<1>6. \A n \in Nat : n \in T => n + 1 \in T
  <2>1. SUFFICES ASSUME NEW n \in Nat, n + 1 <= k, Good(n)
                 PROVE  Good(n + 1)
    BY <1>1
  <2> DEFINE w == f[n]
             x == sent[e][n + 1]
  <2>2. n + 1 \in 0..k /\ n + 1 # 0 /\ (n + 1) - 1 = n /\ n + 1 \in 1..k
    BY <1>1, <2>1
  <2>3. f[n + 1] = Retransmit(e, w, x, m)
    BY <1>4, <2>2
  <2>4. x \in Items /\ KeptItem(e, x) /\ x.epoch \in {w.out.epoch - 1, w.out.epoch} /\ GoodWriter(e, w)
    BY <1>3, <2>1, <2>2
  <2>5. used[e] \subseteq Nat \X Nat
    BY WriterGood
  <2> HIDE DEF w, x
  <2>6. GoodWriter(e, Retransmit(e, w, x, m)) /\ Retransmit(e, w, x, m).out.epoch = w.out.epoch
    BY <1>1, <2>4, <2>5, RetransmitGood DEF KeptItem
  <2>7. QED
    BY <2>1, <2>3, <2>6 DEF w
<1> HIDE DEF T
<1>7. k \in T
  BY <1>1, <1>5, <1>6, Induction
<1>8. QED
  BY <1>1, <1>2, <1>7 DEF T

----------------------------------------------------------------------------
(* The steps.                                                              *)

LEMMA Others == \A e \in Ends : Peer(e) \in Ends /\ Peer(e) # e /\ Peer(Peer(e)) = e /\ \A f \in Ends : f # e => f = Peer(e)
BY DEF Ends, Peer

\* What is said of a message or a record depends on the script alone.
LEMMA SameScript ==
  ASSUME script' = script
  PROVE  /\ \A f, n : Changes(f, n)' = Changes(f, n) /\ Numbered(f, n)' = Numbered(f, n)
         /\ \A i : EpochOf(i)' = EpochOf(i) /\ SeqOf(i)' = SeqOf(i)
         /\ Items' = Items /\ Pieces' = Pieces /\ Packets' = Packets
         /\ \A p : GoodPacket(p)' <=> GoodPacket(p)
<1>1. \A f, n : Changes(f, n)' = Changes(f, n) /\ Numbered(f, n)' = Numbered(f, n)
  BY DEF Changes, Numbered
<1>2. \A i : EpochOf(i)' = EpochOf(i) /\ SeqOf(i)' = SeqOf(i)
  BY DEF EpochOf, SeqOf, Numbered
<1>3. Items' = Items /\ Pieces' = Pieces /\ Packets' = Packets
  BY DEF Items, Pieces, Packets
<1>4. \A p : GoodPacket(p)' <=> GoodPacket(p)
  BY <1>2, <1>3 DEF GoodPacket
<1>5. QED
  BY <1>1, <1>2, <1>3, <1>4

\* The record layer after a flush.
Sending ==
    /\ out \in [Ends -> Counters]
    /\ used \in [Ends -> SUBSET (Nat \X Nat)]
    /\ net \subseteq Packets
    /\ reused \in BOOLEAN
    /\ UnderWay /\ Numbering

LEMMA IInvSending == IInv => Sending
BY DEF IInv, Sending, TypeOK, Shapes, Counters

LEMMA FlushKeeps ==
  ASSUME IInv, NEW e \in Ends, NEW w, GoodWriter(e, w), NEW taken, script' = script, Flush(e, w, taken)
  PROVE  Sending' /\ out'[e] = w.out /\ \A f \in Ends : f # e => out'[f] = out[f]
<1>1. Sending
  BY IInvSending
<1>2. /\ out' = [out EXCEPT ![e] = w.out] /\ net' = (net \ taken) \cup w.packets
      /\ used' = [used EXCEPT ![e] = used[e] \cup w.numbers] /\ reused' = (reused \/ w.reused)
  BY DEF Flush
<1>3. /\ out' \in [Ends -> Counters] /\ out'[e] = w.out /\ \A f \in Ends : f # e => out'[f] = out[f]
  BY <1>1, <1>2 DEF Sending, GoodWriter
<1>4. /\ used' \in [Ends -> SUBSET (Nat \X Nat)] /\ used'[e] = used[e] \cup w.numbers
      /\ \A f \in Ends : f # e => used'[f] = used[f]
  BY <1>1, <1>2 DEF Sending, GoodWriter
<1>5. \A p \in net' : GoodPacket(p)
  BY <1>1, <1>2 DEF Sending, UnderWay, GoodWriter
<1>6. UnderWay' /\ (net \subseteq Packets)'
  <2>1. \A p \in net' : p \in Packets
    BY <1>5 DEF GoodPacket
  <2>2. QED
    BY <1>5, <2>1, SameScript DEF UnderWay
<1>7. ~reused' /\ reused' \in BOOLEAN
  BY <1>1, <1>2 DEF Sending, Numbering, GoodWriter
<1>8. \A f \in Ends : \A q \in used'[f] : Behind(out'[f], q)
  BY <1>1, <1>3, <1>4 DEF Sending, Numbering, GoodWriter
<1>9. Numbering'
  BY <1>7, <1>8 DEF Numbering, Behind
<1>10. QED
  BY <1>3, <1>4, <1>6, <1>7, <1>9 DEF Sending

\* The parts of the invariant about the two state machines.
Machines ==
    /\ script \in Scripts
    /\ pos \in [Ends -> 1..(Len(script) + 1)]
    /\ write_seq \in [Ends -> Nat] /\ read_seq \in [Ends -> Nat]
    /\ sent \in [Ends -> Seq(Items)]
    /\ buffered \in [Ends -> SUBSET Pieces]
    /\ r_epoch \in [Ends -> Nat]
    /\ timer \in [Ends -> BOOLEAN] /\ num_alerts \in [Ends -> Nat]
    /\ mtu \in [Ends -> {Mtu, FallbackMtu}]
    /\ failed \in [Ends -> {"", "timeout", "unexpected"}]
    /\ faults \in 0..Faults[script]
    /\ Positions /\ Kept /\ Collected /\ NoConfusion

LEMMA Parts == IInv <=> Sending /\ Machines
<1>1. IInv => Machines
  BY DEF IInv, Machines, TypeOK, Shapes
<1>2. ASSUME Sending, Machines
      PROVE  IInv
  <2>1. \A e \in Ends : /\ sent[e] \in Seq([msg : 1..Len(script), seq : Nat, epoch : Nat, priority : Nat])
                        /\ buffered[e] \subseteq Pieces
    BY <1>2 DEF Machines, Items
  <2>2. \A e \in Ends : \A x \in buffered[e] : x.msg \in 1..Len(script) /\ x.have \subseteq 1..script[x.msg].length
    BY <1>2, <2>1 DEF Machines, Collected, GoodPiece, Pieces
  <2>3. out \in [Ends -> [epoch : Nat, seq : Nat, last : Nat, curr : Nat]]
    BY <1>2 DEF Sending, Counters
  <2>4. TypeOK
    BY <1>2, <2>1, <2>2, <2>3 DEF TypeOK, Machines, Sending
  <2>5. QED
    BY <1>2, <2>4 DEF IInv, Machines, Sending, Shapes
<1>3. QED
  BY <1>1, <1>2, IInvSending

\* What the invariant says of the state machine of one end, as a relation between the
\* values of its variables.
EndGood(e, p, ws, rs, s, b, oe, re) ==
    /\ p \in 1..(Len(script) + 1) /\ ws \in Nat /\ rs \in Nat /\ re \in Nat
    /\ s \in Seq(Items)
    /\ b \in SUBSET Pieces
    /\ oe = Cardinality(Changes(e, p)) /\ re = Cardinality(Changes(Peer(e), p))
    /\ p <= Len(script) => /\ ws = Cardinality(Numbered(e, p))
                           /\ rs = Cardinality(Numbered(Peer(e), p))
    /\ \A i \in 1..Len(s) : /\ script[s[i].msg].by = e /\ s[i].msg < p
                            /\ s[i].epoch = EpochOf(s[i].msg) /\ s[i].seq = SeqOf(s[i].msg)
    /\ \A x \in b : /\ script[x.msg].by = Peer(e) /\ script[x.msg].kind # "change_cipher_spec"
                    /\ x.seq = SeqOf(x.msg) /\ EpochOf(x.msg) = re
                    /\ x.have \subseteq 1..script[x.msg].length

LEMMA EndsGood ==
  ASSUME IInv, NEW e \in Ends
  PROVE  EndGood(e, pos[e], write_seq[e], read_seq[e], sent[e], buffered[e], out[e].epoch, r_epoch[e])
<1>1. Machines
  BY Parts
<1>2. /\ script \in Scripts /\ Len(script) \in Nat
      /\ pos[e] \in 1..(Len(script) + 1) /\ write_seq[e] \in Nat /\ read_seq[e] \in Nat /\ r_epoch[e] \in Nat
      /\ sent[e] \in Seq(Items) /\ buffered[e] \in SUBSET Pieces
  <2>1. script \in Scripts
    BY <1>1 DEF Machines
  <2>2. Len(script) \in Nat
    BY <2>1, ScriptTyped
  <2>3. pos[e] \in 1..(Len(script) + 1) /\ write_seq[e] \in Nat /\ read_seq[e] \in Nat /\ r_epoch[e] \in Nat
    BY <1>1 DEF Machines
  <2>4. sent[e] \in Seq(Items) /\ buffered[e] \in SUBSET Pieces
    BY <1>1 DEF Machines
  <2>5. QED
    BY <2>1, <2>2, <2>3, <2>4
<1>3. /\ out[e].epoch = Cardinality(Changes(e, pos[e])) /\ r_epoch[e] = Cardinality(Changes(Peer(e), pos[e]))
      /\ pos[e] <= Len(script) => /\ write_seq[e] = Cardinality(Numbered(e, pos[e]))
                                  /\ read_seq[e] = Cardinality(Numbered(Peer(e), pos[e]))
  <2>1. Positions
    BY <1>1 DEF Machines
  <2>2. Done(e) <=> pos[e] > Len(script)
    BY DEF Done
  <2>3. pos[e] <= Len(script) => ~(pos[e] > Len(script))
    BY <1>2
  <2>4. QED
    BY <2>1, <2>2, <2>3 DEF Positions
<1>4. \A i \in 1..Len(sent[e]) : KeptItem(e, sent[e][i])
  BY <1>1 DEF Machines, Kept
<1>5. \A x \in buffered[e] : GoodPiece(e, x)
  BY <1>1 DEF Machines, Collected
<1>6. QED
  BY <1>2, <1>3, <1>4, <1>5 DEF EndGood, KeptItem, GoodPiece

\* e moves, the state machine of its peer stays where it is.
Alone(e) ==
    /\ script' = script
    /\ pos' = [pos EXCEPT ![e] = pos'[e]]
    /\ write_seq' = [write_seq EXCEPT ![e] = write_seq'[e]]
    /\ read_seq' = [read_seq EXCEPT ![e] = read_seq'[e]]
    /\ sent' = [sent EXCEPT ![e] = sent'[e]]
    /\ buffered' = [buffered EXCEPT ![e] = buffered'[e]]
    /\ r_epoch' = [r_epoch EXCEPT ![e] = r_epoch'[e]]

\* The variables with no more to them than their types.
Plain ==
    /\ timer' \in [Ends -> BOOLEAN] /\ num_alerts' \in [Ends -> Nat]
    /\ mtu' \in [Ends -> {Mtu, FallbackMtu}] /\ failed' \in [Ends -> {"", "timeout"}]
    /\ faults' \in 0..Faults[script]

LEMMA MachineStep ==
  ASSUME IInv, NEW e \in Ends, Alone(e), Plain, Sending',
         EndGood(e, pos'[e], write_seq'[e], read_seq'[e], sent'[e], buffered'[e], out'[e].epoch, r_epoch'[e]),
         \A f \in Ends : f # e => out'[f].epoch = out[f].epoch
  PROVE  IInv'
<1>1. Machines /\ script' = script
  BY Parts DEF Alone
<1>2. /\ pos'[e] \in 1..(Len(script) + 1) /\ write_seq'[e] \in Nat /\ read_seq'[e] \in Nat
      /\ r_epoch'[e] \in Nat /\ sent'[e] \in Seq(Items) /\ buffered'[e] \in SUBSET Pieces
  BY DEF EndGood
<1>3. pos' \in [Ends -> 1..(Len(script) + 1)] /\ \A f \in Ends : f # e => pos'[f] = pos[f]
  BY <1>1, <1>2 DEF Machines, Alone
<1>4. write_seq' \in [Ends -> Nat] /\ \A f \in Ends : f # e => write_seq'[f] = write_seq[f]
  BY <1>1, <1>2 DEF Machines, Alone
<1>5. read_seq' \in [Ends -> Nat] /\ \A f \in Ends : f # e => read_seq'[f] = read_seq[f]
  BY <1>1, <1>2 DEF Machines, Alone
<1>6. r_epoch' \in [Ends -> Nat] /\ \A f \in Ends : f # e => r_epoch'[f] = r_epoch[f]
  BY <1>1, <1>2 DEF Machines, Alone
<1>7. sent' \in [Ends -> Seq(Items)] /\ \A f \in Ends : f # e => sent'[f] = sent[f]
  BY <1>1, <1>2 DEF Machines, Alone
<1>8. buffered' \in [Ends -> SUBSET Pieces] /\ \A f \in Ends : f # e => buffered'[f] = buffered[f]
  BY <1>1, <1>2 DEF Machines, Alone
<1>9. ASSUME NEW f \in Ends
      PROVE  EndGood(f, pos'[f], write_seq'[f], read_seq'[f], sent'[f], buffered'[f], out'[f].epoch, r_epoch'[f])
  <2>1. CASE f = e
    BY <2>1
  <2>2. CASE f # e
    <3>1. EndGood(f, pos[f], write_seq[f], read_seq[f], sent[f], buffered[f], out[f].epoch, r_epoch[f])
      BY EndsGood
    <3>2. QED
      BY <2>2, <3>1, <1>3, <1>4, <1>5, <1>6, <1>7, <1>8
  <2>3. QED
    BY <2>1, <2>2
<1>10. Positions'
  <2>1. ASSUME NEW f \in Ends
        PROVE  /\ out'[f].epoch = Cardinality(Changes(f, pos'[f]))
               /\ r_epoch'[f] = Cardinality(Changes(Peer(f), pos'[f]))
               /\ ~(pos'[f] > Len(script)) => /\ write_seq'[f] = Cardinality(Numbered(f, pos'[f]))
                                              /\ read_seq'[f] = Cardinality(Numbered(Peer(f), pos'[f]))
    <3>1. Len(script) \in Nat /\ pos'[f] \in 1..(Len(script) + 1)
      BY <1>1, <1>3, ScriptTyped DEF Machines
    <3>2. QED
      BY <1>9, <3>1 DEF EndGood
  <2>2. ASSUME NEW f \in Ends
        PROVE  /\ (Cardinality(Changes(f, pos[f])))' = Cardinality(Changes(f, pos'[f]))
               /\ (Cardinality(Changes(Peer(f), pos[f])))' = Cardinality(Changes(Peer(f), pos'[f]))
               /\ (Cardinality(Numbered(f, pos[f])))' = Cardinality(Numbered(f, pos'[f]))
               /\ (Cardinality(Numbered(Peer(f), pos[f])))' = Cardinality(Numbered(Peer(f), pos'[f]))
               /\ Done(f)' <=> pos'[f] > Len(script)
    BY <1>1 DEF Changes, Numbered, Done
  <2>3. QED
    BY <2>1, <2>2 DEF Positions
<1>11. Kept'
  <2>1. ASSUME NEW f \in Ends, NEW i \in 1..Len(sent'[f])
        PROVE  KeptItem(f, sent[f][i])'
    <3>1. /\ script[sent'[f][i].msg].by = f /\ sent'[f][i].msg < pos'[f]
          /\ sent'[f][i].epoch = EpochOf(sent'[f][i].msg) /\ sent'[f][i].seq = SeqOf(sent'[f][i].msg)
      BY <1>9 DEF EndGood
    <3>2. QED
      BY <1>1, <3>1 DEF KeptItem, EpochOf, SeqOf, Numbered
  <2>2. QED
    BY <2>1 DEF Kept
<1>12. Collected'
  <2>1. ASSUME NEW f \in Ends, NEW x \in buffered'[f]
        PROVE  GoodPiece(f, x)'
    <3>1. /\ script[x.msg].by = Peer(f) /\ script[x.msg].kind # "change_cipher_spec"
          /\ x.seq = SeqOf(x.msg) /\ EpochOf(x.msg) = r_epoch'[f]
          /\ x.have \subseteq 1..script[x.msg].length
      BY <1>9 DEF EndGood
    <3>2. QED
      BY <1>1, <3>1 DEF GoodPiece, EpochOf, SeqOf, Numbered
  <2>2. QED
    BY <2>1 DEF Collected
<1>13. NoConfusion' /\ failed' \in [Ends -> {"", "timeout", "unexpected"}]
  BY DEF Plain, NoConfusion
<1>14. Items' = Items /\ Pieces' = Pieces
  BY <1>1 DEF Items, Pieces
<1>15. Machines'
  BY <1>1, <1>3, <1>4, <1>5, <1>6, <1>7, <1>8, <1>10, <1>11, <1>12, <1>13, <1>14 DEF Machines, Plain
<1>16. QED
  BY <1>15, Parts, PTL

\* The types of the variables that Plain is about, before the step.
LEMMA PlainBefore ==
  ASSUME IInv
  PROVE  /\ timer \in [Ends -> BOOLEAN] /\ num_alerts \in [Ends -> Nat]
         /\ mtu \in [Ends -> {Mtu, FallbackMtu}] /\ failed \in [Ends -> {"", "timeout"}]
         /\ faults \in 0..Faults[script] /\ Faults[script] \in Nat
         /\ Mtu \in Nat \ {0} /\ FallbackMtu \in Nat \ {0}
<1>1. Machines
  BY Parts
<1>2. timer \in [Ends -> BOOLEAN] /\ num_alerts \in [Ends -> Nat] /\ mtu \in [Ends -> {Mtu, FallbackMtu}]
  BY <1>1 DEF Machines
<1>3. failed \in [Ends -> {"", "timeout"}]
  BY <1>1 DEF Machines, NoConfusion
<1>4. faults \in 0..Faults[script] /\ Faults[script] \in Nat
  <2>1. script \in Scripts /\ faults \in 0..Faults[script]
    BY <1>1 DEF Machines
  <2>2. Faults \in [Scripts -> Nat]
    BY ScriptAssumption
  <2>3. QED
    BY <2>1, <2>2
<1>5. Mtu \in Nat \ {0} /\ FallbackMtu \in Nat \ {0}
  <2>1. Mtu \in Nat \ {0} /\ FallbackMtu \in 1..Mtu
    BY ScriptAssumption
  <2>2. QED
    BY <2>1
<1>6. QED
  BY <1>2, <1>3, <1>4, <1>5

\* The functions on the ends that Alone is about.
LEMMA AloneBefore ==
  ASSUME IInv
  PROVE  /\ script \in Scripts /\ Len(script) \in Nat
         /\ pos \in [Ends -> 1..(Len(script) + 1)]
         /\ write_seq \in [Ends -> Nat] /\ read_seq \in [Ends -> Nat] /\ r_epoch \in [Ends -> Nat]
         /\ sent \in [Ends -> Seq(Items)] /\ buffered \in [Ends -> SUBSET Pieces]
<1>1. Machines
  BY Parts
<1>2. QED
  BY <1>1, ScriptTyped DEF Machines

\* Steps that leave the two state machines where they are.
LEMMA StillKeeps ==
  ASSUME IInv, Sending', UNCHANGED <<script, pos, write_seq, read_seq, sent, buffered, r_epoch>>,
         \A e \in Ends : out'[e].epoch = out[e].epoch, Plain
  PROVE  IInv'
<1>1. PICK e \in Ends : TRUE
  BY DEF Ends
<1>2. /\ script' = script /\ pos' = pos /\ write_seq' = write_seq /\ read_seq' = read_seq /\ sent' = sent
      /\ buffered' = buffered /\ r_epoch' = r_epoch
  OBVIOUS
<1>3. Alone(e)
  BY <1>2, AloneBefore DEF Alone
<1>4. EndGood(e, pos'[e], write_seq'[e], read_seq'[e], sent'[e], buffered'[e], out'[e].epoch, r_epoch'[e])
  <2>1. EndGood(e, pos[e], write_seq[e], read_seq[e], sent[e], buffered[e], out[e].epoch, r_epoch[e])
    BY EndsGood
  <2>2. out'[e].epoch = out[e].epoch
    OBVIOUS
  <2>3. QED
    BY <1>2, <2>1, <2>2
<1>5. QED
  BY <1>3, <1>4, MachineStep

LEMMA CheckTimeoutKeeps ==
  ASSUME IInv, NEW e \in Ends, NEW taken, CheckTimeoutNum(e, taken),
         UNCHANGED <<script, pos, write_seq, read_seq, sent, buffered, r_epoch, timer>>,
         faults' \in 0..Faults[script]
  PROVE  IInv'
<1> DEFINE m == IF num_alerts[e] + 1 > ReduceAfter THEN FallbackMtu ELSE mtu[e]
           fails == num_alerts[e] + 1 > AlertCount
<1>1. m \in {Mtu, FallbackMtu} /\ m \in Nat \ {0}
  BY PlainBefore
<1>2. /\ num_alerts' = [num_alerts EXCEPT ![e] = num_alerts[e] + 1]
      /\ mtu' = [mtu EXCEPT ![e] = m]
      /\ failed' = IF fails THEN [failed EXCEPT ![e] = "timeout"] ELSE failed
  BY DEF CheckTimeoutNum
<1>3. PICK w : w = (IF fails THEN Writer(e) ELSE RetransmitAll(e, m)) /\ Flush(e, w, taken)
  BY DEF CheckTimeoutNum
<1> HIDE DEF m, fails
<1>4. num_alerts' \in [Ends -> Nat]
  <2>1. num_alerts \in [Ends -> Nat]
    BY PlainBefore
  <2>2. QED
    BY <1>2, <2>1
<1>5. mtu' \in [Ends -> {Mtu, FallbackMtu}]
  BY <1>1, <1>2, PlainBefore
<1>6. failed' \in [Ends -> {"", "timeout"}]
  <2>1. CASE fails
    BY <1>2, <2>1, PlainBefore
  <2>2. CASE ~fails
    BY <1>2, <2>2, PlainBefore
  <2>3. QED
    BY <2>1, <2>2
<1>7. Plain
  BY <1>4, <1>5, <1>6, PlainBefore DEF Plain
<1>8. GoodWriter(e, w) /\ w.out.epoch = out[e].epoch
  <2>1. GoodWriter(e, Writer(e)) /\ Writer(e).out = out[e]
    BY WriterGood
  <2>2. GoodWriter(e, RetransmitAll(e, m)) /\ RetransmitAll(e, m).out.epoch = out[e].epoch
    BY <1>1, RetransmitAllGood
  <2>3. QED
    BY <1>3, <2>1, <2>2
<1>9. Sending' /\ out'[e] = w.out /\ \A f \in Ends : f # e => out'[f] = out[f]
  BY <1>3, <1>8, FlushKeeps
<1>10. \A f \in Ends : out'[f].epoch = out[f].epoch
  BY <1>8, <1>9
<1>11. QED
  BY <1>7, <1>9, <1>10, StillKeeps

LEMMA HandleTimeoutKeeps ==
  ASSUME IInv, NEW e \in Ends, HandleTimeout(e)
  PROVE  IInv'
<1>1. faults' \in 0..Faults[script]
  <2>1. faults' = faults \/ (faults > 0 /\ faults' = faults - 1)
    BY DEF HandleTimeout
  <2>2. faults \in 0..Faults[script] /\ Faults[script] \in Nat
    BY PlainBefore
  <2>3. QED
    BY <2>1, <2>2
<1>2. QED
  BY <1>1, CheckTimeoutKeeps DEF HandleTimeout

LEMMA RepeatedFinishedKeeps ==
  ASSUME IInv, NEW e \in Ends, NEW p \in net, RepeatedFinished(e, p)
  PROVE  IInv'
<1>1. faults' = faults /\ script' = script
  BY DEF RepeatedFinished, Arrives, bvars
<1>2. CheckTimeoutNum(e, {p}) /\ UNCHANGED <<script, pos, write_seq, read_seq, sent, buffered, r_epoch, timer>>
  BY <1>1 DEF RepeatedFinished
<1>3. QED
  BY <1>1, <1>2, CheckTimeoutKeeps, PlainBefore

\* The records under way become fewer and nothing is written.
LEMMA FewerKeeps ==
  ASSUME IInv, script' = script, UNCHANGED <<out, used, reused>>, net' \subseteq net
  PROVE  Sending' /\ \A e \in Ends : out'[e].epoch = out[e].epoch
<1>1. Sending /\ out' = out /\ used' = used /\ reused' = reused
  BY IInvSending
<1>2. UnderWay' /\ (net \subseteq Packets)'
  BY <1>1, SameScript DEF Sending, UnderWay
<1>3. Numbering'
  BY <1>1 DEF Sending, Numbering, Behind
<1>4. QED
  BY <1>1, <1>2, <1>3 DEF Sending

LEMMA LoseKeeps ==
  ASSUME IInv, NEW p \in net, Lose(p)
  PROVE  IInv'
<1>1. /\ net' \subseteq net /\ faults > 0 /\ faults' = faults - 1 /\ script' = script
      /\ UNCHANGED <<script, pos, write_seq, read_seq, sent, buffered, r_epoch>>
      /\ UNCHANGED <<out, used, reused>>
      /\ timer' = timer /\ num_alerts' = num_alerts /\ mtu' = mtu /\ failed' = failed
  BY DEF Lose, evars
<1>2. Plain
  <2>1. faults \in 0..Faults[script] /\ Faults[script] \in Nat
    BY PlainBefore
  <2>2. faults' \in 0..Faults[script]
    BY <1>1, <2>1
  <2>3. QED
    BY <1>1, <2>2, PlainBefore DEF Plain
<1>3. Sending' /\ \A e \in Ends : out'[e].epoch = out[e].epoch
  BY <1>1, FewerKeeps
<1>4. QED
  BY <1>1, <1>2, <1>3, StillKeeps

----------------------------------------------------------------------------
(* Writing a message.                                                      *)

\* The message e is about to write has the number and the epoch of its position.
LEMMA NextWritten ==
  ASSUME IInv, NEW e \in Ends, Writing(e)
  PROVE  /\ pos[e] \in 1..Len(script) /\ script[pos[e]].by = e
         /\ out[e].epoch = EpochOf(pos[e]) /\ write_seq[e] = SeqOf(pos[e])
         /\ script[pos[e]].kind = "change_cipher_spec" => write_seq[e] >= 1
<1>1. /\ script \in Scripts /\ Len(script) \in Nat /\ pos[e] \in 1..(Len(script) + 1)
  BY AloneBefore
<1>2. pos[e] \in 1..Len(script) /\ pos[e] <= Len(script) /\ script[pos[e]].by = e /\ pos[e] \in Nat
  BY <1>1 DEF Writing, Done
<1>3. out[e].epoch = Cardinality(Changes(e, pos[e])) /\ write_seq[e] = Cardinality(Numbered(e, pos[e]))
      /\ write_seq[e] \in Nat
  BY <1>2, EndsGood DEF EndGood
<1>4. EpochOf(pos[e]) = Cardinality(Changes(e, pos[e])) /\ SeqOf(pos[e]) = Cardinality(Numbered(e, pos[e]))
  BY <1>2 DEF EpochOf, SeqOf, Changes
<1>5. ASSUME script[pos[e]].kind = "change_cipher_spec"
      PROVE  write_seq[e] >= 1
  <2>1. PICK j \in 1..(pos[e] - 1) : script[j].kind # "change_cipher_spec" /\ script[j].by = e
    BY <1>1, <1>2, <1>5, CcsAssumption
  <2>2. j \in Nat \ {0} /\ j <= pos[e] /\ j < pos[e]
    BY <1>2
  <2>3. Cardinality(Numbered(e, j)) < Cardinality(Numbered(e, pos[e]))
    BY <1>2, <2>1, <2>2, CountsGrow
  <2>4. Cardinality(Numbered(e, j)) \in Nat
    BY <2>2, CountTypes
  <2>5. QED
    BY <1>3, <2>3, <2>4
<1>6. QED
  BY <1>2, <1>3, <1>4, <1>5

\* The counters after a message was written for the first time.
Written(e, item, m) == [out[e] EXCEPT !.seq = out[e].seq + Size(item, m)]
After(e, item, m) ==
    IF script[item.msg].kind = "change_cipher_spec" THEN NextWriteEpoch(Written(e, item, m)) ELSE Written(e, item, m)

\* It carries the number and the epoch of its position.
FirstItem(e, item) ==
    /\ item \in Items /\ script[item.msg].by = e
    /\ item.epoch = EpochOf(item.msg) /\ item.seq = SeqOf(item.msg) /\ item.epoch = out[e].epoch

LEMMA FirstCounters ==
  ASSUME IInv, NEW e \in Ends, NEW item, FirstItem(e, item), NEW m \in Nat \ {0}, NEW o, o = After(e, item, m)
  PROVE  /\ o \in Counters
         /\ o.epoch = out[e].epoch + (IF script[item.msg].kind = "change_cipher_spec" THEN 1 ELSE 0)
         /\ \A q \in Writer(e).numbers \cup used[e] : Behind(o, q) /\ (q[1] = item.epoch => q[2] < out[e].seq)
         /\ \A n \in Nat : out[e].seq <= n /\ n < out[e].seq + Size(item, m) => Behind(o, <<item.epoch, n>>)
<1> DEFINE s == Size(item, m)
           w == Writer(e)
           ccs == script[item.msg].kind = "change_cipher_spec"
           written == Written(e, item, m)
<1>0. /\ item \in Items /\ script[item.msg].by = e
      /\ item.epoch = EpochOf(item.msg) /\ item.seq = SeqOf(item.msg) /\ item.epoch = out[e].epoch
  BY DEF FirstItem
<1>a. o = IF ccs THEN NextWriteEpoch(written) ELSE written
  BY DEF After
<1>1. /\ script \in Scripts /\ item.msg \in 1..Len(script) /\ item.seq \in Nat /\ item.epoch \in Nat
  BY <1>0, AloneBefore DEF Items
<1>2. s \in Nat
  <2>1. script[item.msg].length \in Nat \ {0}
    BY <1>1, ScriptTyped
  <2>2. QED
    BY <2>1, FragmentsFit DEF Size
<1> HIDE DEF s
<1>3. /\ out[e] \in Counters /\ out[e].epoch \in Nat /\ out[e].seq \in Nat /\ out[e].last \in Nat /\ out[e].curr \in Nat
  BY WriterGood DEF Counters
<1>4. GoodWriter(e, w) /\ w.out = out[e] /\ used[e] \subseteq Nat \X Nat /\ w.numbers = {}
  BY WriterGood DEF Writer
<1> HIDE DEF w
<1>5. /\ written \in Counters /\ written.epoch = out[e].epoch /\ written.seq = out[e].seq + s
      /\ written.last = out[e].last
  BY <1>2, <1>3 DEF Counters, Written, s
<1> HIDE DEF written
<1>6. \A q \in w.numbers \cup used[e] : q[1] \in Nat /\ q[2] \in Nat /\ Behind(out[e], q)
  BY <1>4 DEF GoodWriter
<1>7. /\ o \in Counters /\ o.epoch = out[e].epoch + (IF ccs THEN 1 ELSE 0)
      /\ \A q \in w.numbers \cup used[e] : Behind(o, q)
      /\ \A n \in Nat : out[e].seq <= n /\ n < out[e].seq + s => Behind(o, <<item.epoch, n>>)
  <2>1. CASE ccs
    <3> DEFINE up == [written EXCEPT !.epoch = written.epoch + 1]
               lst == [up EXCEPT !.last = written.seq]
    <3>1. up \in Counters /\ up.epoch = out[e].epoch + 1 /\ up.seq = out[e].seq + s
      <4>1. written.epoch + 1 \in Nat /\ written.epoch + 1 = out[e].epoch + 1
        BY <1>3, <1>5
      <4>2. up \in Counters
        BY <1>5, <4>1 DEF Counters
      <4>3. up.epoch = written.epoch + 1 /\ up.seq = written.seq
        BY <1>5 DEF Counters
      <4>4. QED
        BY <1>5, <4>1, <4>2, <4>3
    <3>2. lst \in Counters /\ lst.epoch = up.epoch /\ lst.last = out[e].seq + s
      <4> HIDE DEF up
      <4>1. QED
        BY <1>2, <1>3, <1>5, <3>1 DEF Counters
    <3>3. o = [lst EXCEPT !.seq = 0]
      BY <1>a, <2>1 DEF NextWriteEpoch
    <3> HIDE DEF up, lst
    <3>4. o \in Counters /\ o.epoch = out[e].epoch + 1 /\ o.last = out[e].seq + s /\ o.seq = 0
      BY <3>1, <3>2, <3>3 DEF Counters
    <3>5. \A q \in w.numbers \cup used[e] : Behind(o, q)
      BY <1>2, <1>3, <1>6, <3>4 DEF Behind
    <3>6. \A n \in Nat : out[e].seq <= n /\ n < out[e].seq + s => Behind(o, <<item.epoch, n>>)
      BY <1>0, <1>2, <1>3, <3>4 DEF Behind
    <3>7. QED
      BY <2>1, <3>4, <3>5, <3>6
  <2>2. CASE ~ccs
    <3>1. /\ o \in Counters /\ o.epoch = out[e].epoch /\ o.seq = out[e].seq + s /\ o.last = out[e].last
      BY <1>5, <1>a, <2>2
    <3>2. ASSUME NEW q, q[1] \in Nat, q[2] \in Nat, Behind(out[e], q)
          PROVE  Behind(o, q)
      <4>1. /\ q[1] <= out[e].epoch
            /\ q[1] = out[e].epoch => q[2] < out[e].seq
            /\ q[1] = out[e].epoch - 1 => q[2] < out[e].last
        BY <3>2 DEF Behind
      <4>2. out[e].seq <= o.seq /\ o.seq \in Nat
        BY <1>2, <1>3, <3>1
      <4>3. q[1] = o.epoch => q[2] < o.seq
        BY <1>3, <3>1, <3>2, <4>1, <4>2
      <4>4. QED
        BY <3>1, <4>1, <4>3 DEF Behind
    <3>3. ASSUME NEW n \in Nat, out[e].seq <= n, n < out[e].seq + s
          PROVE  Behind(o, <<item.epoch, n>>)
      <4>1. item.epoch <= o.epoch /\ n < o.seq /\ item.epoch # o.epoch - 1
        BY <1>0, <1>3, <3>1, <3>3
      <4>2. QED
        BY <4>1 DEF Behind
    <3>4. \A q \in w.numbers \cup used[e] : Behind(o, q)
      BY <1>6, <3>2
    <3>5. o.epoch = out[e].epoch + (IF ccs THEN 1 ELSE 0)
      BY <1>3, <2>2, <3>1
    <3>6. QED
      BY <3>1, <3>3, <3>4, <3>5
  <2>3. QED
    BY <2>1, <2>2
<1>8. \A q \in w.numbers \cup used[e] : Behind(o, q) /\ (q[1] = item.epoch => q[2] < out[e].seq)
  BY <1>0, <1>6, <1>7 DEF Behind
<1>9. \A n \in Nat : out[e].seq <= n /\ n < out[e].seq + Size(item, m) => Behind(o, <<item.epoch, n>>)
  BY <1>7 DEF s
<1>10. QED
  BY <1>7, <1>8, <1>9 DEF w

\* The records of a message written for the first time.
LEMMA FirstWriteGood ==
  ASSUME IInv, NEW e \in Ends, NEW item, FirstItem(e, item), NEW m \in Nat \ {0}
  PROVE  /\ GoodWriter(e, DoWrite(e, Writer(e), item, m, out[e].seq, After(e, item, m)))
         /\ DoWrite(e, Writer(e), item, m, out[e].seq, After(e, item, m)).out = After(e, item, m)
         /\ After(e, item, m).epoch = out[e].epoch + (IF script[item.msg].kind = "change_cipher_spec" THEN 1 ELSE 0)
<1> DEFINE w == Writer(e)
           first == out[e].seq
           o == After(e, item, m)
<1>1. /\ o \in Counters
      /\ o.epoch = out[e].epoch + (IF script[item.msg].kind = "change_cipher_spec" THEN 1 ELSE 0)
      /\ \A q \in w.numbers \cup used[e] : Behind(o, q) /\ (q[1] = item.epoch => q[2] < first)
      /\ \A n \in Nat : first <= n /\ n < first + Size(item, m) => Behind(o, <<item.epoch, n>>)
  BY FirstCounters
<1>2. /\ script \in Scripts /\ item.msg \in 1..Len(script) /\ item.seq \in Nat /\ item.epoch \in Nat
      /\ script[item.msg].by = e /\ item.epoch = EpochOf(item.msg) /\ item.seq = SeqOf(item.msg)
  BY AloneBefore DEF FirstItem, Items
<1>3. GoodWriter(e, w) /\ first \in Nat
  BY WriterGood DEF Counters
<1> HIDE DEF w, first, o
<1>4. GoodWriter(e, DoWrite(e, w, item, m, first, o)) /\ DoWrite(e, w, item, m, first, o).out = o
  <2>1. OwnItem(e, item) /\ Ahead(e, w, item, m, first, o)
    BY <1>1, <1>2, <1>3 DEF OwnItem, Ahead
  <2>2. QED
    BY <1>2, <1>3, <2>1, DoWriteGood
<1>5. QED
  BY <1>1, <1>4 DEF w, first, o

\* dtls1_buffer_message keeps the item or refuses it.
LEMMA BufferMessageTwo ==
  ASSUME NEW q \in Seq(Items), NEW item \in Items
  PROVE  /\ BufferMessage(q, item) \in Seq(Items)
         /\ \A i \in 1..Len(BufferMessage(q, item)) :
                \/ i \in 1..Len(q) /\ BufferMessage(q, item)[i] = q[i]
                \/ BufferMessage(q, item)[i] = item
<1>1. BufferMessage(q, item) = q \/ BufferMessage(q, item) = Append(q, item)
  BY DEF BufferMessage
<1>2. CASE BufferMessage(q, item) = q
  BY <1>2
<1>3. CASE BufferMessage(q, item) = Append(q, item)
  BY <1>3
<1>4. QED
  BY <1>1, <1>2, <1>3

\* What is kept for retransmission once the message at pos[e] was written.
StillKept(e, s) ==
    /\ s \in Seq(Items)
    /\ \A i \in 1..Len(s) :
        \/ \E j \in 1..Len(sent[e]) : s[i] = sent[e][j]
        \/ s[i].msg = pos[e] /\ s[i].epoch = out[e].epoch /\ s[i].seq = write_seq[e]

\* A position further: past a message of its own e has the same messages to put together.
LEMMA WroteGood ==
  ASSUME IInv, NEW e \in Ends, Writing(e), NEW ws \in Nat, NEW rs \in Nat, NEW s, NEW b, NEW oe,
         StillKept(e, s), b \subseteq buffered[e],
         oe = out[e].epoch + (IF script[pos[e]].kind = "change_cipher_spec" THEN 1 ELSE 0),
         pos[e] < Len(script) =>
            /\ ws = write_seq[e] + (IF script[pos[e]].kind = "change_cipher_spec" THEN 0 ELSE 1)
            /\ rs = read_seq[e]
  PROVE  EndGood(e, pos[e] + 1, ws, rs, s, b, oe, r_epoch[e])
<1> DEFINE n == pos[e]
<1>1. EndGood(e, n, write_seq[e], read_seq[e], sent[e], buffered[e], out[e].epoch, r_epoch[e])
  BY EndsGood
<1>2. /\ n \in 1..Len(script) /\ script[n].by = e
      /\ out[e].epoch = EpochOf(n) /\ write_seq[e] = SeqOf(n)
  BY NextWritten
<1>3. Len(script) \in Nat /\ write_seq[e] \in Nat /\ read_seq[e] \in Nat /\ r_epoch[e] \in Nat
  BY AloneBefore
<1>4. n \in Nat \ {0} /\ n + 1 \in 1..(Len(script) + 1) /\ n <= Len(script)
  BY <1>2, <1>3
<1> HIDE DEF n
<1>5. /\ out[e].epoch = Cardinality(Changes(e, n)) /\ r_epoch[e] = Cardinality(Changes(Peer(e), n))
      /\ write_seq[e] = Cardinality(Numbered(e, n)) /\ read_seq[e] = Cardinality(Numbered(Peer(e), n))
  BY <1>1, <1>4 DEF EndGood
<1>6. Peer(e) # e
  BY Others
<1>7. /\ oe = Cardinality(Changes(e, n + 1)) /\ r_epoch[e] = Cardinality(Changes(Peer(e), n + 1))
  <2>1. Cardinality(Changes(e, n + 1)) = Cardinality(Changes(e, n))
                + IF script[n].by = e /\ script[n].kind = "change_cipher_spec" THEN 1 ELSE 0
    BY <1>4, CountsNext
  <2>2. Cardinality(Changes(Peer(e), n + 1)) = Cardinality(Changes(Peer(e), n))
                + IF script[n].by = Peer(e) /\ script[n].kind = "change_cipher_spec" THEN 1 ELSE 0
    BY <1>4, CountsNext
  <2>3. oe = out[e].epoch + (IF script[n].kind = "change_cipher_spec" THEN 1 ELSE 0)
    BY DEF n
  <2>4. QED
    BY <1>2, <1>3, <1>5, <1>6, <2>1, <2>2, <2>3
<1>8. n + 1 <= Len(script) => ws = Cardinality(Numbered(e, n + 1)) /\ rs = Cardinality(Numbered(Peer(e), n + 1))
  <2>1. Cardinality(Numbered(e, n + 1)) = Cardinality(Numbered(e, n))
                + IF script[n].by = e /\ script[n].kind # "change_cipher_spec" THEN 1 ELSE 0
    BY <1>4, CountsNext
  <2>2. Cardinality(Numbered(Peer(e), n + 1)) = Cardinality(Numbered(Peer(e), n))
                + IF script[n].by = Peer(e) /\ script[n].kind # "change_cipher_spec" THEN 1 ELSE 0
    BY <1>4, CountsNext
  <2>3. n + 1 <= Len(script) =>
            /\ ws = write_seq[e] + (IF script[n].kind = "change_cipher_spec" THEN 0 ELSE 1)
            /\ rs = read_seq[e]
    BY <1>3, <1>4 DEF n
  <2>4. QED
    BY <1>2, <1>3, <1>5, <1>6, <2>1, <2>2, <2>3
<1>9. ASSUME NEW i \in 1..Len(s)
      PROVE  /\ script[s[i].msg].by = e /\ s[i].msg < n + 1
             /\ s[i].epoch = EpochOf(s[i].msg) /\ s[i].seq = SeqOf(s[i].msg)
  <2>0. \/ \E j \in 1..Len(sent[e]) : s[i] = sent[e][j]
        \/ s[i].msg = pos[e] /\ s[i].epoch = out[e].epoch /\ s[i].seq = write_seq[e]
    BY DEF StillKept
  <2>1. CASE \E j \in 1..Len(sent[e]) : s[i] = sent[e][j]
    <3>1. PICK j \in 1..Len(sent[e]) : s[i] = sent[e][j]
      BY <2>1
    <3>2. /\ script[s[i].msg].by = e /\ s[i].msg < n
          /\ s[i].epoch = EpochOf(s[i].msg) /\ s[i].seq = SeqOf(s[i].msg)
      BY <1>1, <3>1 DEF EndGood
    <3>3. s[i].msg \in Nat
      <4>1. s[i] \in Items
        BY DEF StillKept
      <4>2. QED
        BY <4>1 DEF Items
    <3>4. s[i].msg < n + 1
      BY <1>4, <3>2, <3>3
    <3>5. QED
      BY <3>2, <3>4
  <2>2. CASE s[i].msg = pos[e] /\ s[i].epoch = out[e].epoch /\ s[i].seq = write_seq[e]
    BY <1>2, <1>4, <2>2 DEF n
  <2>3. QED
    BY <2>0, <2>1, <2>2
<1>10. \A x \in b : /\ x \in Pieces /\ script[x.msg].by = Peer(e) /\ script[x.msg].kind # "change_cipher_spec"
                    /\ x.seq = SeqOf(x.msg) /\ EpochOf(x.msg) = r_epoch[e]
                    /\ x.have \subseteq 1..script[x.msg].length
  BY <1>1 DEF EndGood
<1>11. EndGood(e, n + 1, ws, rs, s, b, oe, r_epoch[e])
  BY <1>3, <1>4, <1>7, <1>8, <1>9, <1>10 DEF EndGood, StillKept
<1>12. QED
  BY <1>11 DEF n

LEMMA WriteMessageKeeps ==
  ASSUME IInv, NEW e \in Ends, WriteMessage(e)
  PROVE  IInv'
<1> DEFINE m == script[pos[e]]
           is_ccs == m.kind = "change_cipher_spec"
           item == [msg |-> pos[e], seq |-> write_seq[e], epoch |-> out[e].epoch,
                    priority |-> Priority(write_seq[e], is_ccs)]
           o == After(e, item, mtu[e])
           w == DoWrite(e, Writer(e), item, mtu[e], out[e].seq, o)
           s == IF m.kind = "hello_verify_request" THEN <<>> ELSE BufferMessage(sent[e], item)
           rs == IF AtEnd(e) THEN 0 ELSE read_seq[e]
           b == IF AtEnd(e) THEN {} ELSE buffered[e]
           ws == IF AtEnd(e) THEN 0 ELSE IF is_ccs THEN write_seq[e] ELSE write_seq[e] + 1
<1>1. Writing(e) /\ Flush(e, w, {})
  BY DEF WriteMessage, After, Written
<1>2. /\ sent' = [sent EXCEPT ![e] = s] /\ timer' = [timer EXCEPT ![e] = timer[e] \/ m.timer]
      /\ write_seq' = [write_seq EXCEPT ![e] = ws] /\ pos' = [pos EXCEPT ![e] = pos[e] + 1]
      /\ read_seq' = [read_seq EXCEPT ![e] = rs]
      /\ buffered' = [buffered EXCEPT ![e] = b]
  BY DEF WriteMessage
<1>3. /\ r_epoch' = r_epoch /\ num_alerts' = num_alerts /\ mtu' = mtu /\ failed' = failed
      /\ script' = script /\ faults' = faults
  BY DEF WriteMessage, bvars
<1>4. /\ script \in Scripts /\ Len(script) \in Nat /\ pos \in [Ends -> 1..(Len(script) + 1)]
      /\ write_seq \in [Ends -> Nat] /\ read_seq \in [Ends -> Nat] /\ r_epoch \in [Ends -> Nat]
      /\ sent \in [Ends -> Seq(Items)] /\ buffered \in [Ends -> SUBSET Pieces]
  BY AloneBefore
<1>5. /\ pos[e] \in 1..Len(script) /\ m.by = e /\ out[e].epoch = EpochOf(pos[e])
      /\ write_seq[e] = SeqOf(pos[e]) /\ (is_ccs => write_seq[e] >= 1)
  BY <1>1, NextWritten
<1>6. mtu[e] \in Nat \ {0} /\ is_ccs \in BOOLEAN
  BY PlainBefore
<1>7. /\ item \in Items /\ item.msg = pos[e] /\ item.epoch = out[e].epoch /\ item.seq = write_seq[e]
  <2>1. Priority(write_seq[e], is_ccs) \in Nat
    <3> HIDE DEF is_ccs
    <3>1. write_seq[e] \in Nat /\ (is_ccs => write_seq[e] >= 1)
      BY <1>4, <1>5
    <3>2. QED
      BY <3>1 DEF Priority
  <2>2. out[e].epoch \in Nat
    BY WriterGood DEF Counters
  <2>3. QED
    BY <1>4, <1>5, <2>1, <2>2 DEF Items
<1> HIDE DEF item
<1>8. FirstItem(e, item)
  BY <1>5, <1>7 DEF FirstItem
<1>9. GoodWriter(e, w) /\ w.out = o /\ o.epoch = out[e].epoch + (IF is_ccs THEN 1 ELSE 0)
  BY <1>6, <1>7, <1>8, FirstWriteGood
<1> HIDE DEF w, o
<1>10. Sending' /\ out'[e] = o /\ \A f \in Ends : f # e => out'[f] = out[f]
  BY <1>1, <1>3, <1>9, FlushKeeps
<1>11. StillKept(e, s)
  <2>1. CASE m.kind = "hello_verify_request"
    BY <2>1 DEF StillKept
  <2>2. CASE m.kind # "hello_verify_request"
    BY <1>4, <1>7, <2>2, BufferMessageTwo DEF StillKept
  <2>3. QED
    BY <2>1, <2>2
<1> HIDE DEF s
<1>12. /\ ws \in Nat /\ rs \in Nat
       /\ pos[e] < Len(script) => /\ ws = write_seq[e] + (IF is_ccs THEN 0 ELSE 1)
                                  /\ rs = read_seq[e]
  BY <1>4, <1>5 DEF AtEnd
<1> HIDE DEF ws
<1>13. EndGood(e, pos[e] + 1, ws, rs, s,
               b, o.epoch, r_epoch[e])
  <2>1. b \subseteq buffered[e]
    OBVIOUS
  <2>2. o.epoch = out[e].epoch + (IF script[pos[e]].kind = "change_cipher_spec" THEN 1 ELSE 0)
    BY <1>9
  <2>3. pos[e] < Len(script) =>
            /\ ws = write_seq[e] + (IF script[pos[e]].kind = "change_cipher_spec" THEN 0 ELSE 1)
            /\ rs = read_seq[e]
    BY <1>12
  <2>4. ws \in Nat /\ rs \in Nat
    BY <1>12
  <2> HIDE DEF b, rs, m, is_ccs
  <2>5. QED
    BY <1>1, <1>11, <2>1, <2>2, <2>3, <2>4, WroteGood, Zenon
<1>14. /\ pos'[e] = pos[e] + 1 /\ write_seq'[e] = ws /\ read_seq'[e] = rs
       /\ sent'[e] = s /\ buffered'[e] = b
       /\ out'[e].epoch = o.epoch /\ r_epoch'[e] = r_epoch[e]
  BY <1>2, <1>3, <1>4, <1>10
<1>15. Alone(e)
  BY <1>2, <1>3, <1>4, <1>14 DEF Alone
<1>16. Plain
  <2>1. timer \in [Ends -> BOOLEAN] /\ m.timer \in BOOLEAN
    BY <1>4, <1>5, PlainBefore, ScriptTyped
  <2>2. timer' \in [Ends -> BOOLEAN]
    BY <1>2, <2>1
  <2>3. QED
    BY <1>3, <2>2, PlainBefore DEF Plain
<1>17. EndGood(e, pos'[e], write_seq'[e], read_seq'[e], sent'[e], buffered'[e], out'[e].epoch, r_epoch'[e])
  BY <1>13, <1>14
<1>18. QED
  BY <1>10, <1>15, <1>16, <1>17, MachineStep

----------------------------------------------------------------------------
(* Reading.                                                                *)

LEMMA NextRead ==
  ASSUME IInv, NEW e \in Ends, Reading(e)
  PROVE  /\ pos[e] \in 1..Len(script) /\ Len(script) \in Nat /\ script \in Scripts
         /\ script[pos[e]].by = Peer(e)
         /\ write_seq[e] = Cardinality(Numbered(e, pos[e]))
         /\ read_seq[e] = Cardinality(Numbered(Peer(e), pos[e]))
         /\ out[e].epoch = Cardinality(Changes(e, pos[e]))
         /\ r_epoch[e] = Cardinality(Changes(Peer(e), pos[e]))
         /\ write_seq[e] \in Nat /\ read_seq[e] \in Nat /\ r_epoch[e] \in Nat
<1>1. script \in Scripts /\ Len(script) \in Nat /\ pos[e] \in 1..(Len(script) + 1)
  BY AloneBefore
<1>2. pos[e] \in 1..Len(script) /\ pos[e] <= Len(script) /\ script[pos[e]].by # e
  BY <1>1 DEF Reading, Done
<1>3. script[pos[e]].by = Peer(e)
  BY <1>1, <1>2, ScriptTyped, Others
<1>4. QED
  BY <1>1, <1>2, <1>3, EndsGood DEF EndGood

\* A message of the peer with the number and the epoch e waits for is the one e waits for.
LEMMA Expected ==
  ASSUME IInv, NEW e \in Ends, Reading(e), NEW msg \in 1..Len(script), script[msg].by = Peer(e),
         script[msg].kind # "change_cipher_spec", SeqOf(msg) = read_seq[e], EpochOf(msg) = r_epoch[e]
  PROVE  msg = pos[e]
<1> DEFINE n == pos[e]
           f == Peer(e)
<1>1. /\ n \in 1..Len(script) /\ Len(script) \in Nat /\ script[n].by = f
      /\ read_seq[e] = Cardinality(Numbered(f, n)) /\ r_epoch[e] = Cardinality(Changes(f, n))
  BY NextRead
<1>2. n \in Nat \ {0} /\ msg \in Nat \ {0}
  BY <1>1
<1>3. script[msg].by = f
  OBVIOUS
<1>4. /\ Cardinality(Numbered(f, msg)) = Cardinality(Numbered(f, n))
      /\ Cardinality(Changes(f, msg)) = Cardinality(Changes(f, n))
  BY <1>1, <1>3 DEF SeqOf, EpochOf, Changes
<1>5. /\ Cardinality(Numbered(f, msg)) \in Nat /\ Cardinality(Numbered(f, n)) \in Nat
      /\ Cardinality(Changes(f, msg)) \in Nat /\ Cardinality(Changes(f, n)) \in Nat
  BY <1>2, CountTypes
<1> HIDE DEF n, f
<1>6. ~(msg < n)
  <2>1. ASSUME msg < n
        PROVE  Cardinality(Numbered(f, msg)) < Cardinality(Numbered(f, n))
    <3>1. msg <= n
      BY <1>2, <2>1
    <3>2. QED
      BY <1>2, <1>3, <2>1, <3>1, CountsGrow
  <2>2. QED
    BY <1>4, <1>5, <2>1
<1>7. ~(n < msg)
  <2>1. ASSUME n < msg
        PROVE  \/ Cardinality(Numbered(f, n)) < Cardinality(Numbered(f, msg))
               \/ Cardinality(Changes(f, n)) < Cardinality(Changes(f, msg))
    <3>1. n <= msg
      BY <1>2, <2>1
    <3>2. QED
      BY <1>1, <1>2, <2>1, <3>1, CountsGrow
  <2>2. QED
    BY <1>4, <1>5, <2>1
<1>8. QED
  BY <1>2, <1>6, <1>7 DEF n

\* A position further, past a message of the peer.
LEMMA ReadGood ==
  ASSUME IInv, NEW e \in Ends, Reading(e), NEW ws \in Nat, NEW rs \in Nat, NEW s \in {sent[e], << >>}, NEW b, NEW re,
         b \subseteq buffered[e], script[pos[e]].kind = "change_cipher_spec" => b = {},
         re = r_epoch[e] + (IF script[pos[e]].kind = "change_cipher_spec" THEN 1 ELSE 0),
         pos[e] < Len(script) =>
            /\ rs = read_seq[e] + (IF script[pos[e]].kind = "change_cipher_spec" THEN 0 ELSE 1)
            /\ ws = write_seq[e]
  PROVE  EndGood(e, pos[e] + 1, ws, rs, s, b, out[e].epoch, re)
<1> DEFINE n == pos[e]
<1>1. EndGood(e, n, write_seq[e], read_seq[e], sent[e], buffered[e], out[e].epoch, r_epoch[e])
  BY EndsGood
<1>2. /\ n \in 1..Len(script) /\ Len(script) \in Nat /\ script[n].by = Peer(e)
      /\ write_seq[e] = Cardinality(Numbered(e, n)) /\ read_seq[e] = Cardinality(Numbered(Peer(e), n))
      /\ out[e].epoch = Cardinality(Changes(e, n)) /\ r_epoch[e] = Cardinality(Changes(Peer(e), n))
      /\ write_seq[e] \in Nat /\ read_seq[e] \in Nat /\ r_epoch[e] \in Nat
  BY NextRead
<1>3. n \in Nat \ {0} /\ n + 1 \in 1..(Len(script) + 1) /\ n <= Len(script)
  BY <1>2
<1>4. Peer(e) # e
  BY Others
<1>5. /\ re = r_epoch[e] + (IF script[n].kind = "change_cipher_spec" THEN 1 ELSE 0)
      /\ n + 1 <= Len(script) =>
            /\ rs = read_seq[e] + (IF script[n].kind = "change_cipher_spec" THEN 0 ELSE 1)
            /\ ws = write_seq[e]
      /\ script[n].kind = "change_cipher_spec" => b = {}
  BY <1>2
<1> HIDE DEF n
<1>6. out[e].epoch = Cardinality(Changes(e, n + 1)) /\ re = Cardinality(Changes(Peer(e), n + 1)) /\ re \in Nat
  <2>1. Cardinality(Changes(e, n + 1)) = Cardinality(Changes(e, n))
                + IF script[n].by = e /\ script[n].kind = "change_cipher_spec" THEN 1 ELSE 0
    BY <1>3, CountsNext
  <2>2. Cardinality(Changes(Peer(e), n + 1)) = Cardinality(Changes(Peer(e), n))
                + IF script[n].by = Peer(e) /\ script[n].kind = "change_cipher_spec" THEN 1 ELSE 0
    BY <1>3, CountsNext
  <2>3. Cardinality(Changes(e, n)) \in Nat
    BY <1>3, CountTypes
  <2>4. QED
    BY <1>2, <1>4, <1>5, <2>1, <2>2, <2>3
<1>7. n + 1 <= Len(script) => ws = Cardinality(Numbered(e, n + 1)) /\ rs = Cardinality(Numbered(Peer(e), n + 1))
  <2>1. Cardinality(Numbered(e, n + 1)) = Cardinality(Numbered(e, n))
                + IF script[n].by = e /\ script[n].kind # "change_cipher_spec" THEN 1 ELSE 0
    BY <1>3, CountsNext
  <2>2. Cardinality(Numbered(Peer(e), n + 1)) = Cardinality(Numbered(Peer(e), n))
                + IF script[n].by = Peer(e) /\ script[n].kind # "change_cipher_spec" THEN 1 ELSE 0
    BY <1>3, CountsNext
  <2>3. QED
    BY <1>2, <1>4, <1>5, <2>1, <2>2
<1>8. s \in Seq(Items) /\ \A i \in 1..Len(s) :
        /\ script[s[i].msg].by = e /\ s[i].msg < n + 1
        /\ s[i].epoch = EpochOf(s[i].msg) /\ s[i].seq = SeqOf(s[i].msg)
  <2>1. CASE s = << >>
    BY <2>1
  <2>2. CASE s = sent[e]
    <3>1. s \in Seq(Items)
      BY <1>1, <2>2 DEF EndGood
    <3>2. ASSUME NEW i \in 1..Len(s)
          PROVE  /\ script[s[i].msg].by = e /\ s[i].msg < n + 1
                 /\ s[i].epoch = EpochOf(s[i].msg) /\ s[i].seq = SeqOf(s[i].msg)
      <4>1. /\ script[s[i].msg].by = e /\ s[i].msg < n
            /\ s[i].epoch = EpochOf(s[i].msg) /\ s[i].seq = SeqOf(s[i].msg)
        BY <1>1, <2>2 DEF EndGood
      <4>2. s[i] \in Items
        BY <3>1
      <4>3. s[i].msg \in Nat
        BY <4>2 DEF Items
      <4>4. QED
        BY <1>3, <4>1, <4>3
    <3>3. QED
      BY <3>1, <3>2
  <2>3. QED
    BY <2>1, <2>2
<1>9. \A x \in b : /\ x \in Pieces /\ script[x.msg].by = Peer(e) /\ script[x.msg].kind # "change_cipher_spec"
                   /\ x.seq = SeqOf(x.msg) /\ EpochOf(x.msg) = re
                   /\ x.have \subseteq 1..script[x.msg].length
  <2>1. CASE script[n].kind = "change_cipher_spec"
    BY <1>5, <2>1
  <2>2. CASE script[n].kind # "change_cipher_spec"
    <3>1. re = r_epoch[e]
      BY <1>2, <1>5, <2>2
    <3>2. QED
      BY <1>1, <3>1 DEF EndGood
  <2>3. QED
    BY <2>1, <2>2
<1>10. EndGood(e, n + 1, ws, rs, s, b, out[e].epoch, re)
  BY <1>3, <1>6, <1>7, <1>8, <1>9 DEF EndGood
<1>11. QED
  BY <1>10 DEF n

\* dtls_get_message has put the expected message together.
LEMMA ProcessMessageKeeps ==
  ASSUME IInv, NEW e \in Ends, Reading(e), script[pos[e]].kind # "change_cipher_spec",
         NEW queue, queue \subseteq buffered[e], ProcessMessage(e, pos[e], queue),
         script' = script, faults' = faults, Sending', \A f \in Ends : out'[f].epoch = out[f].epoch
  PROVE  IInv'
<1> DEFINE last == script[pos[e]].last
           s == IF last THEN << >> ELSE sent[e]
           rs == IF AtEnd(e) THEN 0 ELSE read_seq[e] + 1
           ws == IF AtEnd(e) THEN 0 ELSE write_seq[e]
           b == IF AtEnd(e) THEN {} ELSE queue
<1>1. /\ failed' = failed /\ pos' = [pos EXCEPT ![e] = pos[e] + 1]
      /\ read_seq' = [read_seq EXCEPT ![e] = rs] /\ write_seq' = [write_seq EXCEPT ![e] = ws]
      /\ buffered' = [buffered EXCEPT ![e] = b] /\ r_epoch' = r_epoch /\ mtu' = mtu
      /\ timer' = IF last THEN [timer EXCEPT ![e] = FALSE] ELSE timer
      /\ num_alerts' = IF last THEN [num_alerts EXCEPT ![e] = 0] ELSE num_alerts
      /\ sent' = IF last THEN [sent EXCEPT ![e] = << >>] ELSE sent
  BY DEF ProcessMessage, StopTimer
<1>2. /\ script \in Scripts /\ Len(script) \in Nat /\ pos \in [Ends -> 1..(Len(script) + 1)]
      /\ write_seq \in [Ends -> Nat] /\ read_seq \in [Ends -> Nat] /\ r_epoch \in [Ends -> Nat]
      /\ sent \in [Ends -> Seq(Items)] /\ buffered \in [Ends -> SUBSET Pieces]
  BY AloneBefore
<1>3. pos[e] \in 1..Len(script)
  BY NextRead
<1>4. sent' = [sent EXCEPT ![e] = s]
  BY <1>1, <1>2
<1>5. s \in {sent[e], << >>} /\ b \subseteq buffered[e]
  OBVIOUS
<1>6. ws \in Nat /\ rs \in Nat
  BY <1>2
<1>7. pos[e] < Len(script) =>
            /\ rs = read_seq[e] + (IF script[pos[e]].kind = "change_cipher_spec" THEN 0 ELSE 1)
            /\ ws = write_seq[e]
  BY <1>2, <1>3 DEF AtEnd
<1>8. r_epoch[e] = r_epoch[e] + (IF script[pos[e]].kind = "change_cipher_spec" THEN 1 ELSE 0)
  BY <1>2
<1> HIDE DEF s, rs, ws, b
<1>9. EndGood(e, pos[e] + 1, ws, rs, s, b, out[e].epoch, r_epoch[e])
  BY <1>5, <1>6, <1>7, <1>8, ReadGood, ZenonT(30)
<1>10. /\ pos'[e] = pos[e] + 1 /\ write_seq'[e] = ws /\ read_seq'[e] = rs /\ sent'[e] = s /\ buffered'[e] = b
       /\ r_epoch'[e] = r_epoch[e] /\ out'[e].epoch = out[e].epoch
  BY <1>1, <1>2, <1>4
<1>11. EndGood(e, pos'[e], write_seq'[e], read_seq'[e], sent'[e], buffered'[e], out'[e].epoch, r_epoch'[e])
  BY <1>9, <1>10
<1>12. Alone(e)
  BY <1>1, <1>2, <1>4, <1>10 DEF Alone
<1>13. Plain
  <2>1. timer \in [Ends -> BOOLEAN] /\ num_alerts \in [Ends -> Nat]
    BY PlainBefore
  <2>2. timer' \in [Ends -> BOOLEAN]
    BY <1>1, <2>1
  <2>3. num_alerts' \in [Ends -> Nat]
    BY <1>1, <2>1
  <2>4. QED
    BY <1>1, <2>2, <2>3, PlainBefore DEF Plain
<1>14. QED
  BY <1>11, <1>12, <1>13, MachineStep

\* Nothing is written.
LEMMA NothingWritten ==
  ASSUME IInv, UNCHANGED <<wvars, bvars>>
  PROVE  script' = script /\ faults' = faults /\ Sending' /\ \A f \in Ends : out'[f].epoch = out[f].epoch
<1>1. script' = script /\ faults' = faults /\ UNCHANGED <<out, used, reused>> /\ net' \subseteq net
  BY DEF wvars, bvars
<1>2. QED
  BY <1>1, FewerKeeps

LEMMA RetrieveBufferedKeeps ==
  ASSUME IInv, NEW e \in Ends, RetrieveBuffered(e)
  PROVE  IInv'
<1>1. Reading(e)
  BY DEF RetrieveBuffered
<1>2. PICK x \in Ready(e) : ProcessMessage(e, x.msg, Fresh(e) \ {x})
  BY DEF RetrieveBuffered
<1>3. x \in buffered[e] /\ x.seq = read_seq[e] /\ Fresh(e) \ {x} \subseteq buffered[e]
  BY <1>2 DEF Ready, Fresh
<1>4. /\ x \in Pieces /\ script[x.msg].by = Peer(e) /\ script[x.msg].kind # "change_cipher_spec"
      /\ x.seq = SeqOf(x.msg) /\ EpochOf(x.msg) = r_epoch[e]
  BY <1>3, EndsGood DEF EndGood
<1>5. x.msg \in 1..Len(script)
  BY <1>4 DEF Pieces
<1>6. x.msg = pos[e]
  BY <1>1, <1>3, <1>4, <1>5, Expected
<1>7. ProcessMessage(e, pos[e], Fresh(e) \ {x}) /\ script[pos[e]].kind # "change_cipher_spec"
  BY <1>2, <1>4, <1>6
<1>8. script' = script /\ faults' = faults /\ Sending' /\ \A f \in Ends : out'[f].epoch = out[f].epoch
  BY NothingWritten DEF RetrieveBuffered
<1>9. QED
  BY <1>1, <1>3, <1>7, <1>8, ProcessMessageKeeps

\* A record is read.
LEMMA RecordRead ==
  ASSUME IInv, NEW e \in Ends, NEW p \in net, Arrives(e, p), net' = net \ {p}, UNCHANGED <<out, used, reused>>
  PROVE  /\ script' = script /\ faults' = faults /\ Sending' /\ \A f \in Ends : out'[f].epoch = out[f].epoch
         /\ GoodPacket(p) /\ p.to = e /\ p.epoch = r_epoch[e]
         /\ p.msg \in 1..Len(script) /\ p.seq \in Nat /\ script[p.msg].by = Peer(e)
         /\ SeqOf(p.msg) = p.seq /\ EpochOf(p.msg) = r_epoch[e]
         /\ Units(p) \subseteq 1..script[p.msg].length
<1>1. script' = script /\ faults' = faults
  BY DEF Arrives, bvars
<1>2. Sending' /\ \A f \in Ends : out'[f].epoch = out[f].epoch
  BY <1>1, FewerKeeps
<1>3. GoodPacket(p)
  BY IInvSending DEF Sending, UnderWay
<1>4. p.to = e /\ p.epoch = r_epoch[e]
  BY DEF Arrives, Deliverable
<1>5. /\ p.msg \in 1..Len(script) /\ p.seq \in Nat /\ p.lo \in Nat \ {0} /\ p.hi \in Nat \ {0}
      /\ p.epoch = EpochOf(p.msg) /\ p.to = Peer(script[p.msg].by) /\ p.seq = SeqOf(p.msg)
      /\ p.hi <= script[p.msg].length
  BY <1>3 DEF GoodPacket, Packets
<1>6. script[p.msg].by \in Ends /\ script[p.msg].length \in Nat
  BY <1>5, AloneBefore, ScriptTyped
<1>7. script[p.msg].by = Peer(e)
  BY <1>4, <1>5, <1>6, Others
<1>8. Units(p) \subseteq 1..script[p.msg].length
  BY <1>5, <1>6 DEF Units
<1>9. QED
  BY <1>1, <1>2, <1>3, <1>4, <1>5, <1>7, <1>8

LEMMA ReceiveCcsKeeps ==
  ASSUME IInv, NEW e \in Ends, NEW p \in net, ReceiveCcs(e, p)
  PROVE  IInv'
<1>1. Arrives(e, p) /\ net' = net \ {p} /\ UNCHANGED <<out, used, reused>>
  BY DEF ReceiveCcs
<1>2. script' = script /\ faults' = faults /\ Sending' /\ \A f \in Ends : out'[f].epoch = out[f].epoch
  BY <1>1, RecordRead
<1>3. CASE Reading(e) /\ script[pos[e]].kind = "change_cipher_spec"
  <2>1. /\ pos' = [pos EXCEPT ![e] = pos[e] + 1] /\ r_epoch' = [r_epoch EXCEPT ![e] = r_epoch[e] + 1]
        /\ buffered' = [buffered EXCEPT ![e] = {}]
        /\ write_seq' = write_seq /\ read_seq' = read_seq /\ sent' = sent /\ timer' = timer
        /\ num_alerts' = num_alerts /\ mtu' = mtu /\ failed' = failed
    BY <1>3 DEF ReceiveCcs
  <2>2. /\ Len(script) \in Nat /\ pos \in [Ends -> 1..(Len(script) + 1)]
        /\ write_seq \in [Ends -> Nat] /\ read_seq \in [Ends -> Nat] /\ r_epoch \in [Ends -> Nat]
        /\ sent \in [Ends -> Seq(Items)] /\ buffered \in [Ends -> SUBSET Pieces]
    BY AloneBefore
  <2>3. /\ write_seq[e] \in Nat /\ read_seq[e] \in Nat /\ sent[e] \in {sent[e], << >>} /\ {} \subseteq buffered[e]
        /\ r_epoch[e] + 1 = r_epoch[e] + (IF script[pos[e]].kind = "change_cipher_spec" THEN 1 ELSE 0)
        /\ read_seq[e] = read_seq[e] + (IF script[pos[e]].kind = "change_cipher_spec" THEN 0 ELSE 1)
    BY <1>3, <2>2
  <2>4. EndGood(e, pos[e] + 1, write_seq[e], read_seq[e], sent[e], {}, out[e].epoch, r_epoch[e] + 1)
    BY <1>3, <2>3, ReadGood, ZenonT(30)
  <2>5. /\ pos'[e] = pos[e] + 1 /\ r_epoch'[e] = r_epoch[e] + 1 /\ buffered'[e] = {}
        /\ out'[e].epoch = out[e].epoch
    BY <1>2, <2>1, <2>2
  <2>6. EndGood(e, pos'[e], write_seq'[e], read_seq'[e], sent'[e], buffered'[e], out'[e].epoch, r_epoch'[e])
    BY <2>1, <2>4, <2>5
  <2>7. Alone(e)
    BY <1>2, <2>1, <2>2, <2>5 DEF Alone
  <2>8. Plain
    BY <1>2, <2>1, PlainBefore DEF Plain
  <2>9. QED
    BY <1>2, <2>6, <2>7, <2>8, MachineStep
<1>4. CASE ~(Reading(e) /\ script[pos[e]].kind = "change_cipher_spec")
  <2>1. /\ UNCHANGED <<script, pos, write_seq, read_seq, sent, buffered, r_epoch>>
        /\ timer' = timer /\ num_alerts' = num_alerts /\ mtu' = mtu /\ failed' = failed
    BY <1>2, <1>4 DEF ReceiveCcs, evars
  <2>2. Plain
    BY <1>2, <2>1, PlainBefore DEF Plain
  <2>3. QED
    BY <1>2, <2>1, <2>2, StillKeeps
<1>5. QED
  BY <1>3, <1>4

\* Only what is put together changes.
LEMMA CollectKeeps ==
  ASSUME IInv, NEW e \in Ends, NEW b, buffered' = [buffered EXCEPT ![e] = b],
         UNCHANGED <<pos, write_seq, read_seq, sent, r_epoch, timer, num_alerts, mtu, failed>>,
         \A x \in b : /\ x \in Pieces /\ script[x.msg].by = Peer(e) /\ script[x.msg].kind # "change_cipher_spec"
                      /\ x.seq = SeqOf(x.msg) /\ EpochOf(x.msg) = r_epoch[e]
                      /\ x.have \subseteq 1..script[x.msg].length,
         script' = script, faults' = faults, Sending', \A f \in Ends : out'[f].epoch = out[f].epoch
  PROVE  IInv'
<1>1. /\ pos' = pos /\ write_seq' = write_seq /\ read_seq' = read_seq /\ sent' = sent /\ r_epoch' = r_epoch
      /\ timer' = timer /\ num_alerts' = num_alerts /\ mtu' = mtu /\ failed' = failed
  OBVIOUS
<1>2. EndGood(e, pos[e], write_seq[e], read_seq[e], sent[e], buffered[e], out[e].epoch, r_epoch[e])
  BY EndsGood
<1>3. EndGood(e, pos[e], write_seq[e], read_seq[e], sent[e], b, out[e].epoch, r_epoch[e])
  BY <1>2 DEF EndGood
<1>4. /\ pos \in [Ends -> 1..(Len(script) + 1)]
      /\ write_seq \in [Ends -> Nat] /\ read_seq \in [Ends -> Nat] /\ r_epoch \in [Ends -> Nat]
      /\ sent \in [Ends -> Seq(Items)] /\ buffered \in [Ends -> SUBSET Pieces]
  BY AloneBefore
<1>5. buffered'[e] = b /\ out'[e].epoch = out[e].epoch
  BY <1>4
<1>6. EndGood(e, pos'[e], write_seq'[e], read_seq'[e], sent'[e], buffered'[e], out'[e].epoch, r_epoch'[e])
  BY <1>1, <1>3, <1>5
<1>7. Alone(e)
  BY <1>1, <1>4, <1>5 DEF Alone
<1>8. Plain
  BY <1>1, PlainBefore DEF Plain
<1>9. QED
  BY <1>6, <1>7, <1>8, MachineStep

Collectable(e, x) == x \in Pieces /\ GoodPiece(e, x)

LEMMA BufferedCollectable ==
  ASSUME IInv, NEW e \in Ends, NEW x \in buffered[e]
  PROVE  Collectable(e, x) /\ x.msg \in 1..Len(script) /\ x.have \subseteq 1..script[x.msg].length
<1>1. Collectable(e, x)
  BY EndsGood DEF EndGood, Collectable, GoodPiece
<1>2. QED
  BY <1>1 DEF Collectable, Pieces, GoodPiece

\* A record of a message e may wait for.
Readable(e, p) ==
    /\ p.msg \in 1..Len(script) /\ p.seq \in Nat
    /\ script[p.msg].by = Peer(e) /\ script[p.msg].kind # "change_cipher_spec"
    /\ SeqOf(p.msg) = p.seq /\ EpochOf(p.msg) = r_epoch[e]
    /\ Units(p) \subseteq 1..script[p.msg].length

LEMMA PieceGood ==
  ASSUME NEW e \in Ends, NEW p, Readable(e, p), NEW have, have \subseteq 1..script[p.msg].length,
         NEW x, x = [seq |-> p.seq, msg |-> p.msg, have |-> have, whole |-> x.whole], x.whole \in BOOLEAN
  PROVE  Collectable(e, x)
<1>1. x.seq = p.seq /\ x.msg = p.msg /\ x.have = have
  OBVIOUS
<1>2. have \in SUBSET Nat
  OBVIOUS
<1>3. x \in Pieces
  BY <1>2 DEF Pieces, Readable
<1>4. GoodPiece(e, x)
  BY <1>1 DEF GoodPiece, Readable
<1>5. QED
  BY <1>3, <1>4 DEF Collectable

\* Fragments put together under one number are fragments of one message.
LEMMA ReassembleGood ==
  ASSUME IInv, NEW e \in Ends, NEW p, Readable(e, p)
  PROVE  \A x \in Reassemble(e, p) : Collectable(e, x)
<1> DEFINE old == {x \in buffered[e] : x.seq = p.seq}
           have == Units(p) \cup UNION {x.have : x \in old}
           new == [seq |-> p.seq, msg |-> p.msg, have |-> have,
                   whole |-> have = 1..script[p.msg].length]
<1>1. ASSUME NEW x \in old
      PROVE  x.have \subseteq 1..script[p.msg].length
  <2>1. /\ x \in Pieces /\ script[x.msg].by = Peer(e) /\ script[x.msg].kind # "change_cipher_spec"
        /\ x.seq = SeqOf(x.msg) /\ x.have \subseteq 1..script[x.msg].length /\ x.msg \in 1..Len(script)
    BY BufferedCollectable DEF Collectable, GoodPiece
  <2>2. /\ p.msg \in 1..Len(script) /\ script[p.msg].by = Peer(e)
        /\ script[p.msg].kind # "change_cipher_spec" /\ SeqOf(p.msg) = p.seq /\ x.seq = p.seq
    BY DEF Readable
  <2>3. script \in Scripts
    BY AloneBefore
  <2>4. x.msg = p.msg
    BY <2>1, <2>2, <2>3, NumberNames
  <2>5. QED
    BY <2>1, <2>4
<1>2. have \subseteq 1..script[p.msg].length
  BY <1>1 DEF Readable
<1>3. Reassemble(e, p) \subseteq buffered[e] \cup {new}
  BY DEF Reassemble
<1>4. new = [seq |-> p.seq, msg |-> p.msg, have |-> have, whole |-> new.whole] /\ new.whole \in BOOLEAN
  OBVIOUS
<1> HIDE DEF new, have, old
<1>5. Collectable(e, new)
  BY <1>2, <1>4, PieceGood
<1>6. QED
  BY <1>3, <1>5, BufferedCollectable

LEMMA OutOfSeqGood ==
  ASSUME IInv, NEW e \in Ends, NEW p, Readable(e, p)
  PROVE  \A x \in OutOfSeq(e, p) : Collectable(e, x)
<1> DEFINE new == [seq |-> p.seq, msg |-> p.msg, have |-> Units(p), whole |-> TRUE]
<1>1. \/ OutOfSeq(e, p) = buffered[e]
      \/ OutOfSeq(e, p) = Reassemble(e, p)
      \/ OutOfSeq(e, p) = buffered[e] \cup {new}
  BY DEF OutOfSeq
<1>2. Collectable(e, new)
  <2>1. new = [seq |-> p.seq, msg |-> p.msg, have |-> Units(p), whole |-> new.whole] /\ new.whole \in BOOLEAN
    OBVIOUS
  <2>2. Units(p) \subseteq 1..script[p.msg].length
    BY DEF Readable
  <2> HIDE DEF new
  <2>3. QED
    BY <2>1, <2>2, PieceGood
<1> HIDE DEF new
<1>3. CASE OutOfSeq(e, p) = buffered[e]
  BY <1>3, BufferedCollectable
<1>4. CASE OutOfSeq(e, p) = Reassemble(e, p)
  BY <1>4, ReassembleGood
<1>5. CASE OutOfSeq(e, p) = buffered[e] \cup {new}
  BY <1>2, <1>5, BufferedCollectable
<1>6. QED
  BY <1>1, <1>3, <1>4, <1>5

LEMMA ReceiveFragmentKeeps ==
  ASSUME IInv, NEW e \in Ends, NEW p \in net, ReceiveFragment(e, p)
  PROVE  IInv'
<1>1. /\ Arrives(e, p) /\ net' = net \ {p} /\ UNCHANGED <<out, used, reused>>
      /\ script[p.msg].kind # "change_cipher_spec" /\ Reading(e)
  BY DEF ReceiveFragment, IsCcs
<1>2. script' = script /\ faults' = faults /\ Sending' /\ \A f \in Ends : out'[f].epoch = out[f].epoch
  BY <1>1, RecordRead
<1>3. Readable(e, p)
  BY <1>1, RecordRead DEF Readable
<1>4. CASE p.seq = read_seq[e] /\ Whole(p) /\ ProcessMessage(e, p.msg, Fresh(e))
  <2>1. p.msg = pos[e]
    BY <1>1, <1>3, <1>4, Expected DEF Readable
  <2>2. Fresh(e) \subseteq buffered[e]
    BY DEF Fresh
  <2>3. ProcessMessage(e, pos[e], Fresh(e)) /\ script[pos[e]].kind # "change_cipher_spec"
    BY <1>1, <1>4, <2>1
  <2>4. QED
    BY <1>1, <1>2, <2>2, <2>3, ProcessMessageKeeps
<1>5. ASSUME NEW b, \A x \in b : Collectable(e, x), buffered' = [buffered EXCEPT ![e] = b],
             UNCHANGED <<pos, write_seq, read_seq, sent, r_epoch, timer, num_alerts, mtu, failed>>
      PROVE  IInv'
  <2>1. \A x \in b : /\ x \in Pieces /\ script[x.msg].by = Peer(e) /\ script[x.msg].kind # "change_cipher_spec"
                     /\ x.seq = SeqOf(x.msg) /\ EpochOf(x.msg) = r_epoch[e]
                     /\ x.have \subseteq 1..script[x.msg].length
    BY <1>5 DEF Collectable, GoodPiece
  <2>2. QED
    BY <1>2, <1>5, <2>1, CollectKeeps
<1>6. CASE /\ p.seq = read_seq[e] /\ ~Whole(p)
           /\ buffered' = [buffered EXCEPT ![e] = Reassemble(e, p)]
           /\ UNCHANGED <<pos, write_seq, read_seq, sent, r_epoch, timer, num_alerts, mtu, failed>>
  BY <1>3, <1>5, <1>6, ReassembleGood
<1>7. CASE /\ p.seq # read_seq[e]
           /\ buffered' = [buffered EXCEPT ![e] = OutOfSeq(e, p)]
           /\ UNCHANGED <<pos, write_seq, read_seq, sent, r_epoch, timer, num_alerts, mtu, failed>>
  BY <1>3, <1>5, <1>7, OutOfSeqGood
<1>8. QED
  BY <1>4, <1>6, <1>7 DEF ReceiveFragment

----------------------------------------------------------------------------
(* The invariant holds.                                                    *)

LEMMA InitEstablishes == Init => IInv
<1> SUFFICES ASSUME Init
             PROVE  IInv
  OBVIOUS
<1>1. script \in Scripts /\ Len(script) \in Nat
  BY ScriptTyped DEF Init
<1>2. Faults[script] \in Nat
  BY <1>1, ScriptAssumption
<1>3. \A f : Changes(f, 1) = {} /\ Numbered(f, 1) = {}
  BY DEF Changes, Numbered
<1>4. Cardinality({}) = 0
  BY FS_EmptySet
<1>5. Sending
  BY DEF Init, Sending, UnderWay, Numbering, Counters
<1>6. Positions
  <2>1. \A e \in Ends : /\ pos[e] = 1 /\ out[e].epoch = 0 /\ r_epoch[e] = 0 /\ write_seq[e] = 0 /\ read_seq[e] = 0
    BY DEF Init
  <2>2. QED
    BY <1>3, <1>4, <2>1 DEF Positions
<1>7. Kept /\ Collected /\ NoConfusion
  <2>1. \A e \in Ends : sent[e] = << >> /\ buffered[e] = {} /\ failed[e] = ""
    BY DEF Init
  <2>2. ASSUME NEW e \in Ends
        PROVE  Len(sent[e]) = 0
    <3>1. sent[e] = << >>
      BY <2>1
    <3>2. Len(<< >>) = 0
      OBVIOUS
    <3>3. QED
      BY <3>1, <3>2, Zenon
  <2>3. Kept
    BY <2>2 DEF Kept
  <2>4. QED
    BY <2>1, <2>3 DEF Collected, NoConfusion
<1>8. Machines
  <2>1. pos \in [Ends -> 1..(Len(script) + 1)]
    <3>1. pos = [e \in Ends |-> 1]
      BY DEF Init
    <3>2. 1 \in 1..(Len(script) + 1)
      BY <1>1
    <3>3. QED
      BY <3>1, <3>2
  <2>2. sent \in [Ends -> Seq(Items)]
    <3>1. sent = [e \in Ends |-> << >>]
      BY DEF Init
    <3>2. << >> \in Seq(Items)
      OBVIOUS
    <3>3. QED
      BY <3>1, <3>2
  <2>3. faults \in 0..Faults[script]
    <3>1. faults = Faults[script]
      BY DEF Init
    <3>2. QED
      BY <1>2, <3>1
  <2>4. /\ write_seq \in [Ends -> Nat] /\ read_seq \in [Ends -> Nat] /\ r_epoch \in [Ends -> Nat]
        /\ buffered \in [Ends -> SUBSET Pieces] /\ timer \in [Ends -> BOOLEAN] /\ num_alerts \in [Ends -> Nat]
        /\ mtu \in [Ends -> {Mtu, FallbackMtu}] /\ failed \in [Ends -> {"", "timeout", "unexpected"}]
    BY DEF Init
  <2>5. QED
    BY <1>1, <1>6, <1>7, <2>1, <2>2, <2>3, <2>4 DEF Machines
<1>9. QED
  BY <1>5, <1>8, Parts

LEMMA UnchangedKeeps == IInv /\ UNCHANGED vars => IInv'
<1> SUFFICES ASSUME IInv, UNCHANGED vars
             PROVE  IInv'
  OBVIOUS
<1>1. /\ UNCHANGED <<script, pos, write_seq, read_seq, sent, buffered, r_epoch>> /\ UNCHANGED <<wvars, bvars>>
      /\ timer' = timer /\ num_alerts' = num_alerts /\ mtu' = mtu /\ failed' = failed
  BY DEF vars, evars, bvars
<1>2. script' = script /\ faults' = faults /\ Sending' /\ \A f \in Ends : out'[f].epoch = out[f].epoch
  BY <1>1, NothingWritten
<1>3. Plain
  BY <1>1, <1>2, PlainBefore DEF Plain
<1>4. QED
  BY <1>1, <1>2, <1>3, StillKeeps

LEMMA NextKeeps == IInv /\ [Next]_vars => IInv'
<1> SUFFICES ASSUME IInv, Next
             PROVE  IInv'
  BY UnchangedKeeps
<1>1. ASSUME NEW e \in Ends, Turn(e)
      PROVE  IInv'
  <2>1. CASE WriteMessage(e)
    BY <2>1, WriteMessageKeeps
  <2>2. CASE HandleTimeout(e)
    BY <2>2, HandleTimeoutKeeps
  <2>3. CASE RetrieveBuffered(e)
    BY <2>3, RetrieveBufferedKeeps
  <2>4. ASSUME NEW p \in net, ReceiveCcs(e, p) \/ ReceiveFragment(e, p) \/ RepeatedFinished(e, p)
        PROVE  IInv'
    BY <2>4, ReceiveCcsKeeps, ReceiveFragmentKeeps, RepeatedFinishedKeeps
  <2>5. QED
    BY <1>1, <2>1, <2>2, <2>3, <2>4 DEF Turn, Receive
<1>2. ASSUME NEW p \in net, Lose(p)
      PROVE  IInv'
  BY <1>2, LoseKeeps
<1>3. QED
  BY <1>1, <1>2 DEF Next

LEMMA Inductive == Spec => []IInv
<1>1. QED
  BY InitEstablishes, NextKeeps, PTL DEF Spec

\* The message and record numbers of both ends are natural numbers and no fragment is
\* put together beyond the end of its message (dtls1_preprocess_fragment), for any
\* script, MTU, number of timeouts and losses.
THEOREM HandshakeTypes == Spec => []TypeOK
<1>1. IInv => TypeOK
  BY DEF IInv
<1>2. QED
  BY <1>1, Inductive, PTL

\* DTLS_RECORD_LAYER_set_saved_w_epoch: however often and on whichever side of a
\* ChangeCipherSpec flights are sent again, and however the MTU cuts them, no record
\* number of an epoch is used a second time.
THEOREM RecordNumbersFresh == Spec => []NumbersNotReused
<1>1. IInv => NumbersNotReused
  BY DEF IInv, Numbering, NumbersNotReused
<1>2. QED
  BY <1>1, Inductive, PTL

\* dtls1_retransmit_message: every record under way, retransmitted or not, has the
\* epoch its message was first sent under and is on its way to the other side.
THEOREM EpochsOfRetransmissions == Spec => []RetransmittedAsSent
<1>1. IInv => RetransmittedAsSent
  BY DEF IInv, UnderWay, GoodPacket, RetransmittedAsSent
<1>2. QED
  BY <1>1, Inductive, PTL

\* dtls_get_message: through loss, reordering, retransmission and reassembly the
\* message handed to the state machine is the one it waits for.
THEOREM RightMessage == Spec => []NoConfusion
<1>1. IInv => NoConfusion
  BY DEF IInv
<1>2. QED
  BY <1>1, Inductive, PTL
=============================================================================
