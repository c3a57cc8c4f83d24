------------------------- MODULE SessionCacheProofs -------------------------
(***************************************************************************)
(* Proofs about the session cache, for any finite number of threads and any *)
(* structs, ids and limits.  The inductive invariant IInv says where each   *)
(* thread can be and what it holds there, counts the pointers to each       *)
(* struct, and follows what an id stands for through the replay check.      *)
(***************************************************************************)
EXTENDS SessionCache, FiniteSetTheorems, WellFoundedInduction, TLAPS

\* The steps a thread can be at.
Steps ==
    {"idle", "add", "trim", "store", "connected", "missed", "found", "remove", "removed",
     "claimed", "hello", "close"}

ThreadType ==
    [pc : Steps, session : Structs \cup {NULL}, other : Structs \cup {NULL}, next : Steps,
     id : Ids \cup {NULL}]

\* Where a thread can be, and what it holds there; the lock is held by the thread in
\* the trimming loop and by no other.
Threading ==
    /\ th \in [Threads -> ThreadType]
    /\ \A t \in Threads :
        /\ th[t].session = NULL <=> th[t].pc \in {"idle", "missed"}
        /\ th[t].other # NULL => th[t].pc = "removed"
        /\ th[t].pc \in {"add", "trim"} => th[t].next \in {"store", "found"}
        /\ th[t].pc \in {"remove", "removed"} => th[t].next \in {"close", "claimed"}
        /\ lock = t <=> th[t].pc = "trim"
        /\ ~ctx.external => /\ th[t].pc # "missed"
                            /\ th[t].pc \in {"add", "trim"} => th[t].next = "store"

\* An id that a struct has was given out.
Known == \A s \in Structs : sid[s] # NULL => sid[s] \in issued

Distinct(q) == \A i, j \in 1..Len(q) : q[i] = q[j] => i = j

\* The table: finite, its entries have ids and the ids differ.
Table ==
    /\ IsFiniteSet(hash)
    /\ \A s \in hash : sid[s] # NULL
    /\ \A r, s \in hash : sid[r] = sid[s] => r = s

Listed == ctx.memory = "enough" => Range(list) = hash /\ Distinct(list)

\* A struct on its way into the cache is known to its own thread only.
FreshFor(t) ==
    /\ th[t].session \notin hash
    /\ th[t].session \notin Range(list)
    /\ sid[th[t].session] # NULL
    /\ ~ctx.tls13 => th[t].session \notin dead
    /\ \A u \in Threads \ {t} : th[u].session # th[t].session /\ th[u].other # th[t].session

Fresh == \A t \in Threads : At(t, "add") => FreshFor(t)

\* A session that was taken out of the cache for good, or claimed by the replay
\* check, is not in it.
Gone ==
    \A t \in Threads :
        th[t].pc = "removed" \/ (ctx.single_use /\ th[t].pc \in {"claimed", "hello"})
            => th[t].session \notin hash

Counts ==
    \A s \in Structs :
        /\ refs[s] >= Owed(s)
        /\ ctx.memory = "enough" => refs[s] = Owed(s)
        /\ s \in Range(list) /\ s \notin hash => refs[s] > Owed(s)

\* The thread has won the replay check for its session.
Claims(t) ==
    \/ th[t].pc = "removed" /\ th[t].next = "claimed" /\ th[t].other # NULL
    \/ th[t].pc = "claimed"

\* With the replay check and no external cache, what an id stands for is on its way
\* into the cache, in it, claimed, resumed or lost, and no two of these.
ReplayCheck == ctx.single_use /\ ~ctx.external

OneStruct == ReplayCheck => \A r, s \in Structs : sid[r] = sid[s] /\ sid[r] # NULL => r = s

Unspent ==
    ReplayCheck =>
        /\ \A i \in Ids : resumed[i] <= 1
        /\ \A i \in Ids \ issued : resumed[i] = 0
        /\ \A s \in hash : resumed[sid[s]] = 0
        /\ \A t \in Threads : At(t, "add") => resumed[sid[th[t].session]] = 0

Asked ==
    ReplayCheck =>
        \A t \in Threads :
            th[t].pc = "found" \/ (th[t].pc = "remove" /\ th[t].next = "claimed")
                => th[t].id \in issued /\ sid[th[t].session] \in {th[t].id, NULL}

Claim(t) ==
    /\ th[t].id \in issued
    /\ resumed[th[t].id] = 0
    /\ \A s \in hash : sid[s] # th[t].id
    /\ \A u \in Threads : At(u, "add") => sid[th[u].session] # th[t].id
    /\ \A u \in Threads \ {t} : Claims(u) => th[u].id # th[t].id

OneClaim == ReplayCheck => \A t \in Threads : Claims(t) => Claim(t)

\* Where TLS 1.3 has tickets in the cache, the replay check is on.  Without it the cache
\* can hold a session that has lost its id (run session_cache_stateful).
ReplayChecked == \A c \in Settings : c.tls13 => c.single_use

IInv ==
    /\ TypeOK /\ ctx \in Settings
    /\ Threading /\ Known /\ Table /\ Listed /\ Fresh /\ Gone /\ Counts
    /\ NoDeadSessionCached /\ OneStruct /\ Unspent /\ Asked /\ OneClaim

----------------------------------------------------------------------------
(* Induction, and the list.                                                *)

Less == {p \in Nat \X Nat : p[1] < p[2]}

LEMMA LessWellFounded == IsWellFoundedOn(Less, Nat)
  BY NatLessThanWellFounded, Zenon DEF OpToRel, Less

LEMMA SmallestMember ==
  ASSUME NEW T \in SUBSET Nat, T # {}
  PROVE  \E x \in T : \A y \in T : x <= y
<1>1. PICK x \in T : \A y \in T : ~ (<<y, x>> \in Less)
  BY LessWellFounded, WFMin, Zenon
<1>2. \A y \in T : ~ (y < x)
  <2> TAKE y \in T
  <2>1. x \in Nat /\ y \in Nat
    OBVIOUS
  <2>2. <<y, x>> \notin Less
    BY <1>1
  <2>3. y < x => <<y, x>> \in Less
    BY <2>1 DEF Less
  <2>4. QED
    BY <2>2, <2>3
<1>3. QED
  BY <1>2

LEMMA Induction ==
  ASSUME NEW S, 0 \in S, \A n \in Nat : n \in S => n + 1 \in S
  PROVE  Nat \subseteq S
<1>1. SUFFICES ASSUME Nat \ S # {}
               PROVE  FALSE
  OBVIOUS
<1>2. PICK x \in Nat \ S : \A y \in Nat \ S : x <= y
  BY <1>1, SmallestMember
<1>3. x # 0
  BY <1>2
<1>4. x - 1 \in S
  BY <1>2, <1>3
<1>5. QED
  BY <1>2, <1>3, <1>4

Keeps(f, q, S, m) ==
    f = [n \in 0..m |->
            IF n = 0 THEN <<>>
            ELSE IF q[n] \in S THEN f[n - 1] ELSE Append(f[n - 1], q[n])]

LEMMA KeptExists ==
  ASSUME NEW q, NEW S, NEW m \in Nat
  PROVE  \E f : Keeps(f, q, S, m)
<1> DEFINE T == {n \in Nat : \E f : Keeps(f, q, S, n)}
<1>1. 0 \in T
  <2>1. Keeps([n \in 0..0 |-> <<>>], q, S, 0)
    BY DEF Keeps
  <2>2. QED
    BY <2>1
<1>2. \A n \in Nat : n \in T => n + 1 \in T
  <2>1. SUFFICES ASSUME NEW n \in Nat, NEW f, Keeps(f, q, S, n)
                 PROVE  \E g : Keeps(g, q, S, n + 1)
    OBVIOUS
  <2> DEFINE last == IF q[n + 1] \in S THEN f[n] ELSE Append(f[n], q[n + 1])
             g == [i \in 0..(n + 1) |-> IF i = n + 1 THEN last ELSE f[i]]
  <2>2. \A i \in 0..n : g[i] = f[i]
    OBVIOUS
  <2>3. \A i \in 0..n : f[i] = IF i = 0 THEN <<>>
                               ELSE IF q[i] \in S THEN f[i - 1] ELSE Append(f[i - 1], q[i])
    BY <2>1 DEF Keeps
  <2>4. ASSUME NEW i \in 0..(n + 1)
        PROVE  g[i] = IF i = 0 THEN <<>>
                      ELSE IF q[i] \in S THEN g[i - 1] ELSE Append(g[i - 1], q[i])
    <3>1. CASE i = n + 1
      <4>1. g[i] = last /\ i - 1 = n /\ g[n] = f[n] /\ i # 0
        BY <3>1, <2>2
      <4>2. QED
        BY <4>1, <3>1
    <3>2. CASE i # n + 1
      <4>1. i \in 0..n /\ (i # 0 => i - 1 \in 0..n)
        BY <3>2
      <4>2. g[i] = f[i] /\ (i # 0 => g[i - 1] = f[i - 1])
        BY <4>1, <2>2
      <4> HIDE DEF g
      <4>3. QED
        BY <4>1, <4>2, <2>3
    <3>3. QED
      BY <3>1, <3>2
  <2>5. g = [i \in 0..(n + 1) |-> g[i]]
    OBVIOUS
  <2> HIDE DEF g
  <2>6. Keeps(g, q, S, n + 1)
    BY <2>4, <2>5 DEF Keeps
  <2>7. QED
    BY <2>6
<1> HIDE DEF T
<1>3. m \in T
  BY <1>1, <1>2, Induction
<1>4. QED
  BY <1>3 DEF T

LEMMA InRange ==
  ASSUME NEW X, NEW q \in Seq(X), NEW y
  PROVE  y \in Range(q) <=> \E i \in 1..Len(q) : y = q[i]
  BY DEF Range

LEMMA WithoutIs ==
  ASSUME NEW X, NEW q \in Seq(X), NEW S
  PROVE  /\ Without(q, S) \in Seq(X)
         /\ Range(Without(q, S)) = Range(q) \ S
         /\ Distinct(q) => Distinct(Without(q, S))
<1>0. Len(q) \in Nat
  OBVIOUS
<1>1. \E f : Keeps(f, q, S, Len(q))
  BY <1>0, KeptExists
<1>2. PICK f : Keeps(f, q, S, Len(q)) /\ Without(q, S) = f[Len(q)]
  BY <1>1 DEF Keeps, Without
<1> DEFINE Good(n) == /\ f[n] \in Seq(X)
                      /\ Range(f[n]) = {q[i] : i \in 1..n} \ S
                      /\ Distinct(q) => Distinct(f[n])
           T == {n \in Nat : n <= Len(q) => Good(n)}
<1>3. 0 \in T
  <2>1. f[0] = <<>>
    BY <1>2 DEF Keeps
  <2>2. Range(<<>>) = {} /\ Distinct(<<>>) /\ {q[i] : i \in 1..0} = {}
    BY DEF Range, Distinct
  <2>3. Good(0)
    BY <2>1, <2>2
  <2>4. QED
    BY <2>3
<1>4. \A n \in Nat : n \in T => n + 1 \in T
  <2>1. SUFFICES ASSUME NEW n \in Nat, n + 1 <= Len(q), Good(n)
                 PROVE  Good(n + 1)
    BY <1>0
  <2> DEFINE e == q[n + 1]
  <2>2. e \in X
    BY <2>1
  <2>3. f[n + 1] = IF e \in S THEN f[n] ELSE Append(f[n], e)
    <3>1. \A i \in 0..Len(q) : f[i] = IF i = 0 THEN <<>>
                                      ELSE IF q[i] \in S THEN f[i - 1] ELSE Append(f[i - 1], q[i])
      BY <1>2, Zenon DEF Keeps
    <3>2. n + 1 \in 0..Len(q) /\ n + 1 # 0 /\ (n + 1) - 1 = n
      BY <1>0, <2>1
    <3>3. QED
      BY <3>1, <3>2
  <2>4. {q[i] : i \in 1..(n + 1)} = {q[i] : i \in 1..n} \cup {e}
    <3>1. 1..(n + 1) = (1..n) \cup {n + 1}
      OBVIOUS
    <3>2. QED
      BY <3>1
  <2>5. CASE e \in S
    BY <2>1, <2>3, <2>4, <2>5
  <2>6. CASE e \notin S
    <3> DEFINE g == f[n]
    <3>1. g \in Seq(X) /\ Append(g, e) \in Seq(X) /\ Len(Append(g, e)) = Len(g) + 1
      BY <2>1, <2>2
    <3>2. \A i \in 1..(Len(g) + 1) : Append(g, e)[i] = IF i = Len(g) + 1 THEN e ELSE g[i]
      BY <2>1, <2>2
    <3>3. f[n + 1] = Append(g, e)
      BY <2>3, <2>6
    <3>4. \A y : y \in Range(g) <=> \E i \in 1..Len(g) : y = g[i]
      BY <3>1, InRange
    <3>5. Range(Append(g, e)) = Range(g) \cup {e}
      <4> HIDE DEF g, e
      <4>1. Len(g) \in Nat
        BY <3>1
      <4>2. ASSUME NEW y PROVE y \in Range(Append(g, e)) <=> y \in Range(g) \cup {e}
        <5>1. y \in Range(Append(g, e)) <=> \E i \in 1..(Len(g) + 1) : y = Append(g, e)[i]
          BY <3>1, InRange
        <5>2. QED
          BY <4>1, <3>2, <3>4, <5>1
      <4>3. QED
        BY <4>2
    <3>6. Distinct(q) => Distinct(Append(g, e))
      <4>1. SUFFICES ASSUME Distinct(q), NEW i \in 1..(Len(g) + 1), NEW j \in 1..(Len(g) + 1),
                            Append(g, e)[i] = Append(g, e)[j]
                     PROVE  i = j
        BY <3>1 DEF Distinct
      <4>2. Distinct(g)
        BY <2>1, <4>1
      <4>3. \A k \in 1..Len(g) : g[k] # e
        <5>1. SUFFICES ASSUME NEW k \in 1..Len(g), g[k] = e
                       PROVE  FALSE
          OBVIOUS
        <5>2. e \in {q[l] : l \in 1..n}
          BY <2>1, <3>4, <5>1
        <5>3. PICK l \in 1..n : q[l] = q[n + 1]
          BY <5>2
        <5>4. l \in 1..Len(q) /\ n + 1 \in 1..Len(q) /\ l # n + 1
          BY <2>1
        <5>5. QED
          BY <4>1, <5>3, <5>4 DEF Distinct
      <4> HIDE DEF g, e
      <4>4. Len(g) \in Nat
        BY <3>1
      <4>5. QED
        BY <4>1, <4>2, <4>3, <4>4, <3>2 DEF Distinct
    <3>7. QED
      BY <2>1, <2>4, <2>6, <3>1, <3>3, <3>5, <3>6
  <2>7. QED
    BY <2>5, <2>6
<1> HIDE DEF T
<1>5. Len(q) \in T
  <2>1. Len(q) \in Nat
    OBVIOUS
  <2>2. QED
    BY <1>3, <1>4, <2>1, Induction
<1>6. Good(Len(q))
  BY <1>5 DEF T
<1>7. Range(q) = {q[i] : i \in 1..Len(q)}
  BY InRange
<1>8. QED
  BY <1>2, <1>6, <1>7

LEMMA DistinctLength ==
  ASSUME NEW X, NEW q \in Seq(X), Distinct(q)
  PROVE  IsFiniteSet(Range(q)) /\ Cardinality(Range(q)) = Len(q)
<1>1. Len(q) \in Nat /\ q \in [1..Len(q) -> Range(q)]
  BY DEF Range
<1>2. \A y \in Range(q) : \E i \in 1..Len(q) : q[i] = y
  BY InRange
<1>3. ExistsBijection(1..Len(q), Range(q))
  BY <1>1, <1>2 DEF ExistsBijection, Bijection, Injection, Surjection, IsInjective, Distinct
<1>4. IsFiniteSet(1..Len(q)) /\ Cardinality(1..Len(q)) = Len(q)
  BY <1>1, FS_Interval
<1>5. QED
  BY <1>3, <1>4, FS_Bijection

----------------------------------------------------------------------------
(* Counting references.                                                    *)

InHash(s) == IF s \in hash THEN 1 ELSE 0
Holds(t, s) ==
    (IF th[t].session = s THEN 1 ELSE 0)
    + (IF th[t].session = s /\ th[t].pc = "add" THEN 1 ELSE 0)
    + (IF th[t].other = s THEN 1 ELSE 0)

LEMMA OneMoves ==
  ASSUME NEW A, IsFiniteSet(A), NEW B, NEW t, \A u : u # t => (u \in A <=> u \in B)
  PROVE  /\ Cardinality(A) \in Nat
         /\ Cardinality(B) \in Nat
         /\ Cardinality(B) = Cardinality(A) + (IF t \in B THEN 1 ELSE 0) - (IF t \in A THEN 1 ELSE 0)
         /\ Cardinality(A) >= IF t \in A THEN 1 ELSE 0
<1>1. Cardinality(A) \in Nat
  BY FS_CardinalityType
<1>2. CASE t \in A /\ t \in B
  <2>1. A = B
    BY <1>2
  <2>2. Cardinality(A) # 0
    BY <1>2, FS_EmptySet
  <2>3. QED
    BY <1>1, <1>2, <2>1, <2>2
<1>3. CASE t \notin A /\ t \notin B
  <2>1. A = B
    BY <1>3
  <2>2. QED
    BY <1>1, <1>3, <2>1
<1>4. CASE t \in A /\ t \notin B
  <2>1. B = A \ {t}
    BY <1>4
  <2>2. Cardinality(B) = Cardinality(A) - 1 /\ IsFiniteSet(B)
    BY <1>4, <2>1, FS_RemoveElement
  <2>3. Cardinality(B) \in Nat
    BY <2>2, FS_CardinalityType
  <2>4. QED
    BY <1>1, <1>4, <2>2, <2>3
<1>5. CASE t \notin A /\ t \in B
  <2>1. B = A \cup {t}
    BY <1>5
  <2>2. Cardinality(B) = Cardinality(A) + 1
    BY <1>5, <2>1, FS_AddElement
  <2>3. QED
    BY <1>1, <1>5, <2>2
<1>6. QED
  BY <1>2, <1>3, <1>4, <1>5

LEMMA PointersFinite ==
  ASSUME NEW s
  PROVE  IsFiniteSet(Users(s)) /\ IsFiniteSet(Adders(s)) /\ IsFiniteSet(Removers(s))
<1>1. /\ Users(s) \subseteq Threads
      /\ Adders(s) \subseteq Threads
      /\ Removers(s) \subseteq Threads
  BY DEF Users, Adders, Removers
<1>2. QED
  BY <1>1, SessionAssumption, FS_Subset

LEMMA OwedFlat ==
  ASSUME NEW s, NEW t \in Threads
  PROVE  Owed(s) \in Nat /\ Owed(s) >= InHash(s) + Holds(t, s)
<1>1. /\ Cardinality(Users(s)) \in Nat
      /\ Cardinality(Users(s)) >= IF t \in Users(s) THEN 1 ELSE 0
  BY PointersFinite, OneMoves
<1>2. /\ Cardinality(Adders(s)) \in Nat
      /\ Cardinality(Adders(s)) >= IF t \in Adders(s) THEN 1 ELSE 0
  BY PointersFinite, OneMoves
<1>3. /\ Cardinality(Removers(s)) \in Nat
      /\ Cardinality(Removers(s)) >= IF t \in Removers(s) THEN 1 ELSE 0
  BY PointersFinite, OneMoves
<1>4. /\ t \in Users(s) <=> th[t].session = s
      /\ t \in Adders(s) <=> th[t].session = s /\ th[t].pc = "add"
      /\ t \in Removers(s) <=> th[t].other = s
  BY DEF Users, Adders, Removers, At
<1>5. QED
  BY <1>1, <1>2, <1>3, <1>4 DEF Owed, InHash, Holds

LEMMA OwedMoves ==
  ASSUME NEW s, NEW t \in Threads, \A u \in Threads : u # t => th'[u] = th[u]
  PROVE  /\ Owed(s) \in Nat
         /\ Owed(s) >= InHash(s) + Holds(t, s)
         /\ Owed(s)' \in Nat
         /\ Owed(s)' = Owed(s) - InHash(s) - Holds(t, s) + InHash(s)' + Holds(t, s)'
<1> DEFINE one(c) == IF c THEN 1 ELSE 0
<1>1. /\ Cardinality(Users(s)) \in Nat
      /\ Cardinality(Users(s)') = Cardinality(Users(s)) + one(t \in Users(s)') - one(t \in Users(s))
  <2>1. \A u : u # t => (u \in Users(s) <=> u \in Users(s)')
    BY DEF Users
  <2>2. QED
    BY <2>1, PointersFinite, OneMoves
<1>2. /\ Cardinality(Adders(s)) \in Nat
      /\ Cardinality(Adders(s)') = Cardinality(Adders(s)) + one(t \in Adders(s)') - one(t \in Adders(s))
  <2>1. \A u : u # t => (u \in Adders(s) <=> u \in Adders(s)')
    BY DEF Adders, Users, At
  <2>2. QED
    BY <2>1, PointersFinite, OneMoves
<1>3. /\ Cardinality(Removers(s)) \in Nat
      /\ Cardinality(Removers(s)') = Cardinality(Removers(s)) + one(t \in Removers(s)') - one(t \in Removers(s))
  <2>1. \A u : u # t => (u \in Removers(s) <=> u \in Removers(s)')
    BY DEF Removers
  <2>2. QED
    BY <2>1, PointersFinite, OneMoves
<1>4. /\ t \in Users(s) <=> th[t].session = s
      /\ t \in Adders(s) <=> th[t].session = s /\ th[t].pc = "add"
      /\ t \in Removers(s) <=> th[t].other = s
      /\ t \in Users(s)' <=> th'[t].session = s
      /\ t \in Adders(s)' <=> th'[t].session = s /\ th'[t].pc = "add"
      /\ t \in Removers(s)' <=> th'[t].other = s
  BY DEF Users, Adders, Removers, At
<1>5. Owed(s) \in Nat /\ Owed(s) >= InHash(s) + Holds(t, s)
  BY OwedFlat
<1>6. Owed(s)' = InHash(s)' + Cardinality(Users(s)') + Cardinality(Adders(s)') + Cardinality(Removers(s)')
  BY DEF Owed, InHash
<1>7. Owed(s) = InHash(s) + Cardinality(Users(s)) + Cardinality(Adders(s)) + Cardinality(Removers(s))
  BY DEF Owed, InHash
<1>8. Owed(s)' = Owed(s) - InHash(s) - Holds(t, s) + InHash(s)' + Holds(t, s)'
  BY <1>1, <1>2, <1>3, <1>4, <1>6, <1>7 DEF InHash, Holds
<1>9. InHash(s) \in Nat /\ Holds(t, s) \in Nat /\ InHash(s)' \in Nat /\ Holds(t, s)' \in Nat
  BY DEF InHash, Holds
<1>10. QED
  BY <1>5, <1>8, <1>9

----------------------------------------------------------------------------
(* The counts follow the pointers.                                         *)

\* The pointers to s that a step of t, or a change of the table, adds.
Gained(t, s) == InHash(s)' + Holds(t, s)' - InHash(s) - Holds(t, s)

Balanced(t) ==
    \A s \in Structs :
        /\ refs'[s] >= refs[s] + Gained(t, s)
        /\ ctx.memory = "enough" => refs'[s] = refs[s] + Gained(t, s)
        /\ s \in Range(list') /\ s \notin hash' =>
            (s \in Range(list) /\ s \notin hash) \/ refs'[s] > refs[s] + Gained(t, s)

LEMMA CountsKept ==
  ASSUME IInv, NEW t \in Threads,
         \A u \in Threads : u # t => th'[u] = th[u],
         UNCHANGED ctx, refs' \in [Structs -> Int], Balanced(t)
  PROVE  Counts' /\ refs' \in [Structs -> Nat]
<1>1. \A s \in Structs : Owed(s) \in Nat /\ Owed(s)' \in Nat /\ Owed(s)' = Owed(s) + Gained(t, s)
  <2> SUFFICES ASSUME NEW s \in Structs
               PROVE  Owed(s) \in Nat /\ Owed(s)' \in Nat /\ Owed(s)' = Owed(s) + Gained(t, s)
    OBVIOUS
  <2>1. /\ Owed(s) \in Nat /\ Owed(s)' \in Nat
        /\ Owed(s)' = Owed(s) - InHash(s) - Holds(t, s) + InHash(s)' + Holds(t, s)'
    BY OwedMoves
  <2>2. InHash(s) \in Nat /\ Holds(t, s) \in Nat /\ InHash(s)' \in Nat /\ Holds(t, s)' \in Nat
    BY DEF InHash, Holds
  <2>3. QED
    BY <2>1, <2>2 DEF Gained
<1>2. \A s \in Structs : Gained(t, s) \in Int
  BY DEF Gained, InHash, Holds
<1>3. /\ refs \in [Structs -> Nat]
      /\ \A s \in Structs :
            /\ refs[s] >= Owed(s)
            /\ ctx.memory = "enough" => refs[s] = Owed(s)
            /\ s \in Range(list) /\ s \notin hash => refs[s] > Owed(s)
  BY DEF IInv, TypeOK, Counts
<1>4. \A s \in Structs :
            /\ refs'[s] >= Owed(s)'
            /\ ctx.memory = "enough" => refs'[s] = Owed(s)'
            /\ s \in Range(list') /\ s \notin hash' => refs'[s] > Owed(s)'
  <2> SUFFICES ASSUME NEW s \in Structs
               PROVE  /\ refs'[s] >= Owed(s)'
                      /\ ctx.memory = "enough" => refs'[s] = Owed(s)'
                      /\ s \in Range(list') /\ s \notin hash' => refs'[s] > Owed(s)'
    OBVIOUS
  <2>1. refs[s] \in Nat /\ refs'[s] \in Int
    BY <1>3
  <2>2. QED
    BY <1>1, <1>2, <1>3, <2>1 DEF Balanced
<1>5. Counts'
  BY <1>4 DEF Counts
<1>6. refs' \in [Structs -> Nat]
  BY <1>1, <1>4
<1>7. QED
  BY <1>5, <1>6

\* Nobody knows a struct that is not allocated.
LEMMA Unreferenced ==
  ASSUME IInv, NEW t \in Threads, NEW s \in Structs, refs[s] = 0
  PROVE  s \notin hash /\ s \notin Range(list) /\ \A u \in Threads : th[u].session # s /\ th[u].other # s
<1>1. /\ 0 >= Owed(s)
      /\ s \in Range(list) /\ s \notin hash => 0 > Owed(s)
  BY DEF IInv, Counts
<1>2. ASSUME NEW u \in Threads
      PROVE  s \notin hash /\ th[u].session # s /\ th[u].other # s
  <2>1. Owed(s) \in Nat /\ Owed(s) >= InHash(s) + Holds(u, s)
    BY OwedFlat
  <2>2. InHash(s) \in Nat /\ Holds(u, s) \in Nat
    BY DEF InHash, Holds
  <2>3. InHash(s) = 0 /\ Holds(u, s) = 0
    BY <1>1, <2>1, <2>2
  <2>4. QED
    BY <2>3 DEF InHash, Holds
<1>3. Owed(s) \in Nat
  BY OwedFlat
<1>4. QED
  BY <1>1, <1>2, <1>3

----------------------------------------------------------------------------
(* Each step keeps the invariant.                                          *)

\* A struct is allocated and its thread calls SSL_CTX_add_session with it.
LEMMA AllocateKeeps ==
  ASSUME IInv, NEW t \in Threads, NEW s \in Structs, NEW i \in Ids, NEW next \in {"store", "found"},
         th[t].pc \in {"idle", "connected", "missed"}, refs[s] = 0,
         refs' \in [Structs -> Int], refs'[s] = 2,
         \A x \in Structs \ {s} : refs'[x] = IF x = th[t].session THEN refs[x] - 1 ELSE refs[x],
         th' = [th EXCEPT ![t] = [Idle EXCEPT !.pc = "add", !.session = s, !.next = next, !.id = th[t].id]],
         sid' = [sid EXCEPT ![s] = i],
         dead' \subseteq Structs, dead' \ {s} = dead \ {s}, ~ctx.tls13 => s \notin dead',
         issued' \subseteq Ids, issued \cup {i} \subseteq issued',
         ReplayCheck => i \notin issued, next = "found" => ctx.external,
         UNCHANGED <<ctx, limit, hash, list, lock, store, resumed>>
  PROVE  IInv'
<1>1. /\ th[t].other = NULL /\ th[t].pc \notin {"add", "trim", "remove", "removed", "claimed", "found"}
      /\ th[t].session \in Structs \cup {NULL} /\ lock # t
  BY DEF IInv, Threading, ThreadType
<1>2. /\ ctx' = ctx /\ limit' = limit /\ hash' = hash /\ list' = list /\ lock' = lock
      /\ store' = store /\ resumed' = resumed
  OBVIOUS
<1>4. /\ th' \in [Threads -> ThreadType]
      /\ \A u \in Threads : u # t => th'[u] = th[u]
      /\ th'[t].pc = "add" /\ th'[t].session = s /\ th'[t].other = NULL /\ th'[t].next = next
      /\ th'[t].id = th[t].id
  BY DEF Idle, IInv, Threading, ThreadType, Steps
<1>5. s \notin hash /\ s \notin Range(list) /\ \A u \in Threads : th[u].session # s /\ th[u].other # s
  BY Unreferenced
<1>6. i # NULL /\ s # NULL /\ NULL \notin Structs /\ t # NULL
  BY SessionAssumption
<1>7. Counts' /\ refs' \in [Structs -> Nat]
  <2>1. ASSUME NEW x \in Structs
        PROVE  refs'[x] = refs[x] + Gained(t, x)
    <3>1. refs[x] \in Nat /\ x # NULL
      BY <1>6 DEF IInv, TypeOK
    <3>2. Gained(t, x) = Holds(t, x)' - Holds(t, x)
      BY <1>2 DEF Gained, InHash, Holds
    <3>3. Holds(t, x)' = IF x = s THEN 2 ELSE 0
      BY <1>4, <3>1 DEF Holds
    <3>4. Holds(t, x) = IF x = th[t].session THEN 1 ELSE 0
      BY <1>1, <3>1 DEF Holds
    <3>5. QED
      BY <1>5, <3>1, <3>2, <3>3, <3>4
  <2>2. Balanced(t)
    BY <1>2, <2>1 DEF Balanced, IInv, TypeOK
  <2>3. QED
    BY <1>2, <1>4, <2>2, CountsKept
<1>8. Threading'
  BY <1>1, <1>2, <1>4, <1>6 DEF IInv, Threading
<1>9. TypeOK' /\ (ctx \in Settings)'
  BY <1>2, <1>4, <1>7, <1>6 DEF IInv, TypeOK, ThreadType
<1>10. Known'
  BY <1>2, <1>6 DEF IInv, Known, TypeOK
<1>11. Table' /\ Listed' /\ NoDeadSessionCached'
  BY <1>2, <1>5 DEF IInv, Table, Listed, TypeOK, NoDeadSessionCached
<1>12. /\ sid'[s] = i /\ \A x \in Structs : x # s => sid'[x] = sid[x]
       /\ \A u \in Threads : th[u].session \in Structs \cup {NULL}
       /\ \A u \in Threads : th[u].pc = "add" => th[u].session \in Structs
  BY <1>2 DEF IInv, TypeOK, Threading, ThreadType
<1>13. Fresh'
  <2>1. FreshFor(t)'
    BY <1>2, <1>4, <1>5, <1>6, <1>12 DEF FreshFor
  <2>2. ASSUME NEW u \in Threads, u # t, th[u].pc = "add"
        PROVE  FreshFor(u)'
    <3>1. FreshFor(u) /\ th[u].session \in Structs /\ th[u].session # s
      BY <1>5, <1>12, <2>2 DEF IInv, Fresh, At
    <3>2. th'[u] = th[u] /\ sid'[th[u].session] = sid[th[u].session]
      BY <1>4, <1>12, <2>2, <3>1
    <3>3. \A v \in Threads \ {u} : th'[v].session # th[u].session /\ th'[v].other # th[u].session
      BY <1>4, <1>6, <3>1 DEF FreshFor
    <3>4. QED
      BY <1>2, <3>1, <3>2, <3>3 DEF FreshFor
  <2>3. QED
    BY <1>4, <2>1, <2>2 DEF Fresh, At
<1>14. Gone'
  BY <1>1, <1>2, <1>4 DEF IInv, Gone
<1>15. OneStruct'
  BY <1>2, <1>6 DEF IInv, OneStruct, ReplayCheck, TypeOK, Known
<1>16. Unspent'
  <2>1. \A u \in Threads : u # t /\ th[u].pc = "add" => sid'[th[u].session] = sid[th[u].session]
    BY <1>5, <1>12
  <2>2. \A x \in hash : sid'[x] = sid[x]
    BY <1>5, <1>12 DEF IInv, TypeOK
  <2>3. QED
    BY <1>2, <1>4, <1>6, <1>12, <2>1, <2>2 DEF IInv, Unspent, ReplayCheck, At
<1>17. Asked'
  BY <1>2, <1>4, <1>5, <1>6 DEF IInv, Asked, ReplayCheck, TypeOK, Threading, ThreadType
<1>18. OneClaim'
  <2>1. ASSUME ReplayCheck, NEW u \in Threads, Claims(u), u # t
        PROVE  Claim(u)'
    <3>1. Claim(u)
      BY <2>1 DEF IInv, OneClaim
    <3>2. \A v \in Threads : th'[v].pc = "add" => sid'[th'[v].session] # th[u].id
      BY <1>4, <1>5, <1>6, <1>12, <2>1, <3>1 DEF Claim, At
    <3>3. \A x \in hash : sid'[x] # th[u].id
      BY <1>5, <1>12, <3>1 DEF Claim, IInv, TypeOK
    <3>4. \A v \in Threads \ {u} : Claims(v)' => th'[v].id # th[u].id
      BY <1>4, <3>1 DEF Claim, Claims
    <3>5. th'[u] = th[u]
      BY <1>4, <2>1
    <3>6. QED
      BY <1>2, <3>1, <3>2, <3>3, <3>4, <3>5 DEF Claim, At
  <2>2. QED
    BY <1>2, <1>4, <2>1 DEF OneClaim, Claims, ReplayCheck
<1>19. QED
  BY <1>7, <1>8, <1>9, <1>10, <1>11, <1>13, <1>14, <1>15, <1>16, <1>17, <1>18 DEF IInv

LEMMA NewSessionKeeps ==
  ASSUME IInv, NEW t \in Threads, NewSession(t)
  PROVE  IInv'
<1>1. PICK s \in Structs, i \in Ids \ issued :
        /\ Allocate(s, i)
        /\ issued' = issued \cup {i}
        /\ CallAdd(t, s, [refs EXCEPT ![s] = 1], "store")
  BY DEF NewSession
<1>2. th[t].pc = "idle" /\ th[t].session = NULL /\ NULL \notin Structs
  BY SessionAssumption DEF IInv, Threading, NewSession, At
<1>3. /\ refs' \in [Structs -> Int] /\ refs'[s] = 2
      /\ \A x \in Structs \ {s} : refs'[x] = IF x = th[t].session THEN refs[x] - 1 ELSE refs[x]
  BY <1>1, <1>2 DEF IInv, TypeOK, CallAdd
<1>4. dead' \subseteq Structs /\ issued' \subseteq Ids
  BY <1>1 DEF IInv, TypeOK, Allocate
<1>5. QED
  <2>1. /\ refs[s] = 0 /\ sid' = [sid EXCEPT ![s] = i] /\ dead' \ {s} = dead \ {s} /\ s \notin dead'
        /\ i \in Ids /\ i \notin issued /\ issued \cup {i} \subseteq issued'
        /\ UNCHANGED <<ctx, limit, hash, list, lock, store, resumed>>
    BY <1>1 DEF NewSession, Allocate
  <2>2. th' = [th EXCEPT ![t] = [Idle EXCEPT !.pc = "add", !.session = s, !.next = "store", !.id = th[t].id]]
    BY <1>1 DEF CallAdd
  <2>3. QED
    BY <1>2, <1>3, <1>4, <2>1, <2>2, AllocateKeeps

LEMMA NewTicketKeeps ==
  ASSUME IInv, NEW t \in Threads, NewTicket(t)
  PROVE  IInv'
<1>1. PICK s \in Structs, i \in Ids \ issued :
        /\ refs[s] = 0
        /\ sid' = [sid EXCEPT ![s] = i]
        /\ dead' = IF th[t].session \in dead THEN dead \cup {s} ELSE dead \ {s}
        /\ issued' = issued \cup {i}
        /\ CallAdd(t, s, [Freed({th[t].session}) EXCEPT ![s] = 1], "store")
  BY DEF NewTicket
<1>2. th[t].pc = "connected" /\ ctx.tls13
  BY DEF NewTicket, At
<1>3. /\ refs' \in [Structs -> Int] /\ refs'[s] = 2
      /\ \A x \in Structs \ {s} : refs'[x] = IF x = th[t].session THEN refs[x] - 1 ELSE refs[x]
  BY <1>1, <1>2 DEF IInv, TypeOK, CallAdd, Freed
<1>4. /\ dead' \subseteq Structs /\ issued' \subseteq Ids
      /\ dead' \ {s} = dead \ {s}
  BY <1>1 DEF IInv, TypeOK
<1>5. QED
  <2>1. /\ i \in Ids /\ i \notin issued /\ issued \cup {i} \subseteq issued'
        /\ UNCHANGED <<ctx, limit, hash, list, lock, store, resumed>>
    BY <1>1 DEF NewTicket
  <2>2. th' = [th EXCEPT ![t] = [Idle EXCEPT !.pc = "add", !.session = s, !.next = "store", !.id = th[t].id]]
    BY <1>1 DEF CallAdd
  <2>3. QED
    BY <1>1, <1>2, <1>3, <1>4, <2>1, <2>2, AllocateKeeps

LEMMA FetchKeeps ==
  ASSUME IInv, NEW t \in Threads, Fetch(t), th[t].id \in store
  PROVE  IInv'
<1>1. PICK s \in Structs :
        /\ Allocate(s, th[t].id)
        /\ CallAdd(t, s, [refs EXCEPT ![s] = 1], "found")
  BY DEF Fetch
<1>2. /\ th[t].pc = "missed" /\ th[t].session = NULL /\ NULL \notin Structs /\ ctx.external
      /\ th[t].id \in Ids /\ th[t].id \in issued
  BY SessionAssumption DEF IInv, Threading, Fetch, At, TypeOK
<1>3. /\ refs' \in [Structs -> Int] /\ refs'[s] = 2
      /\ \A x \in Structs \ {s} : refs'[x] = IF x = th[t].session THEN refs[x] - 1 ELSE refs[x]
  BY <1>1, <1>2 DEF IInv, TypeOK, CallAdd
<1>4. dead' \subseteq Structs /\ issued' \subseteq Ids
  BY <1>1 DEF IInv, TypeOK, Allocate, Fetch
<1>5. QED
  <2>1. /\ refs[s] = 0 /\ sid' = [sid EXCEPT ![s] = th[t].id] /\ dead' \ {s} = dead \ {s} /\ s \notin dead'
        /\ issued \cup {th[t].id} \subseteq issued' /\ ~ReplayCheck
        /\ UNCHANGED <<ctx, limit, hash, list, lock, store, resumed>>
    BY <1>1, <1>2 DEF Fetch, Allocate, ReplayCheck
  <2>2. th' = [th EXCEPT ![t] = [Idle EXCEPT !.pc = "add", !.session = s, !.next = "found", !.id = th[t].id]]
    BY <1>1 DEF CallAdd
  <2>3. QED
    BY <1>2, <1>3, <1>4, <2>1, <2>2, AllocateKeeps

\* A thread's winning the replay check is over and its session counts as resumed.
Spent(t) ==
    /\ Claims(t) /\ ~Claims(t)'
    /\ resumed' = [resumed EXCEPT ![th[t].id] = 1]

\* The steps in which nothing is added to the table: entries may leave it, with their
\* links, and a thread moves on.
LEMMA ShrinkKeeps ==
  ASSUME IInv, NEW t \in Threads,
         UNCHANGED <<ctx, sid, issued>>, limit' \in Nat, lock' \in Threads \cup {NULL}, store' \subseteq issued,
         hash' \subseteq hash, list' \in Seq(Structs),
         Range(list') = Range(list) \ (hash \ hash'), Distinct(list) => Distinct(list'),
         refs' \in [Structs -> Int], \A x \in Structs : refs'[x] = refs[x] + Gained(t, x),
         dead' \subseteq Structs,
         ~ctx.tls13 => \A x \in dead' \ dead :
            x \notin hash' /\ \A u \in Threads : th[u].pc = "add" => th[u].session # x,
         resumed' \in [Ids -> 0..2], ReplayCheck => resumed' = resumed \/ Spent(t),
         \A u \in Threads : u # t => th'[u] = th[u],
         Threading', th'[t].pc = "add" => th'[t] = th[t],
         th'[t].session \in {NULL, th[t].session} \cup hash, th'[t].other \in {NULL, th[t].other} \cup hash,
         th'[t].pc = "removed" \/ (ctx.single_use /\ th'[t].pc \in {"claimed", "hello"})
            => th'[t].session \notin hash',
         ReplayCheck /\ (th'[t].pc = "found" \/ (th'[t].pc = "remove" /\ th'[t].next = "claimed"))
            => th'[t].id \in issued /\ sid[th'[t].session] \in {th'[t].id, NULL},
         ReplayCheck /\ Claims(t)' =>
            \/ Claims(t) /\ th'[t].id = th[t].id
            \/ \E x \in hash \ hash' : sid[x] = th'[t].id
  PROVE  IInv'
<1>1. ctx' = ctx /\ sid' = sid /\ issued' = issued /\ (ReplayCheck' <=> ReplayCheck)
  BY DEF ReplayCheck
<1>2. NULL \notin Structs /\ hash \subseteq Structs /\ \A u \in Threads : th'[u].pc = "add" => th'[u] = th[u]
  BY SessionAssumption DEF IInv, TypeOK
<1>3. Counts' /\ refs' \in [Structs -> Nat]
  <2>1. Balanced(t)
    BY DEF Balanced, IInv, TypeOK
  <2>2. QED
    BY <1>1, <2>1, CountsKept
<1>4. TypeOK' /\ (ctx \in Settings)'
  BY <1>1, <1>2, <1>3 DEF IInv, TypeOK, Threading, ThreadType
<1>5. Known'
  BY <1>1 DEF IInv, Known
<1>6. Table'
  BY <1>1, FS_Subset DEF IInv, Table
<1>7. Listed' /\ NoDeadSessionCached'
  BY <1>1 DEF IInv, Listed, NoDeadSessionCached
<1>8. Fresh'
  <2>1. ASSUME NEW u \in Threads, th[u].pc = "add", th'[u] = th[u]
        PROVE  FreshFor(u)'
    <3>1. FreshFor(u) /\ th[u].session \in Structs
      BY <2>1 DEF IInv, Fresh, At, Threading, ThreadType
    <3>2. th'[u] = th[u]
      BY <2>1
    <3>3. \A v \in Threads \ {u} : th'[v].session # th[u].session /\ th'[v].other # th[u].session
      BY <1>2, <2>1, <3>1 DEF FreshFor
    <3>4. ~ctx.tls13 => th[u].session \notin dead'
      BY <2>1, <3>1 DEF FreshFor
    <3>5. QED
      BY <1>1, <3>1, <3>2, <3>3, <3>4 DEF FreshFor
  <2>2. QED
    BY <1>2, <2>1 DEF Fresh, At
<1>9. Gone'
  BY <1>1 DEF IInv, Gone
<1>10. OneStruct'
  BY <1>1 DEF IInv, OneStruct
<1>11. ASSUME ReplayCheck, Spent(t)
       PROVE  /\ th[t].id \in Ids /\ th[t].id \in issued
              /\ \A i \in Ids : resumed'[i] = IF i = th[t].id THEN 1 ELSE resumed[i]
              /\ \A x \in hash : sid[x] # th[t].id
              /\ \A u \in Threads : th[u].pc = "add" => sid[th[u].session] # th[t].id
              /\ \A u \in Threads \ {t} : Claims(u) => th[u].id # th[t].id
  BY <1>11 DEF Spent, IInv, OneClaim, Claim, TypeOK, At
<1>12. \A x \in hash : sid[x] \in Ids
  BY <1>2 DEF IInv, TypeOK, Table
<1>13. \A u \in Threads : th[u].pc = "add" => sid[th[u].session] \in Ids
  <2>1. ASSUME NEW u \in Threads, th[u].pc = "add"
        PROVE  sid[th[u].session] # NULL /\ th[u].session \in Structs
    BY <2>1 DEF IInv, Fresh, FreshFor, At, Threading, ThreadType
  <2>2. QED
    BY <2>1 DEF IInv, TypeOK
<1>14. Unspent'
  <2>1. ASSUME ReplayCheck, resumed' = resumed
        PROVE  Unspent'
    BY <1>1, <1>2, <2>1 DEF IInv, Unspent, At
  <2>2. ASSUME ReplayCheck, Spent(t)
        PROVE  Unspent'
    <3>1. \A i \in Ids : resumed'[i] = IF i = th[t].id THEN 1 ELSE resumed[i]
      BY <1>11, <2>2
    <3>2. \A i \in Ids : resumed'[i] <= 1
      BY <2>2, <3>1 DEF IInv, Unspent
    <3>3. \A i \in Ids \ issued' : resumed'[i] = 0
      BY <1>1, <1>11, <2>2, <3>1 DEF IInv, Unspent
    <3>4. \A x \in hash' : resumed'[sid'[x]] = 0
      BY <1>1, <1>11, <1>12, <2>2, <3>1 DEF IInv, Unspent
    <3>5. \A u \in Threads : th'[u].pc = "add" => resumed'[sid'[th'[u].session]] = 0
      <4>1. ASSUME NEW u \in Threads, th[u].pc = "add"
            PROVE  resumed'[sid[th[u].session]] = 0
        <5>1. resumed[sid[th[u].session]] = 0
          BY <2>2, <4>1 DEF IInv, Unspent, At
        <5>2. QED
          BY <1>11, <1>13, <2>2, <3>1, <4>1, <5>1
      <4>2. QED
        BY <1>1, <1>2, <4>1
    <3>6. QED
      BY <3>2, <3>3, <3>4, <3>5 DEF Unspent, At
  <2>3. QED
    BY <1>1, <2>1, <2>2 DEF Unspent
<1>15. Asked'
  BY <1>1 DEF IInv, Asked
<1>16. OneClaim'
  <2>1. ASSUME ReplayCheck, NEW x \in hash \ hash', sid[x] = th'[t].id, resumed' = resumed
        PROVE  Claim(t)' /\ \A u \in Threads \ {t} : Claims(u) => th[u].id # th'[t].id
    <3>1. x \in Structs /\ sid[x] # NULL /\ sid[x] \in issued /\ resumed[sid[x]] = 0
      BY <1>2, <2>1 DEF IInv, Known, Unspent, Table
    <3>2. \A y \in hash' : sid[y] # sid[x]
      BY <2>1 DEF IInv, Table
    <3>3. \A u \in Threads : th[u].pc = "add" => sid[th[u].session] # sid[x]
      <4>1. ASSUME NEW u \in Threads, th[u].pc = "add"
            PROVE  th[u].session \in Structs /\ th[u].session # x
        BY <2>1, <4>1 DEF IInv, Fresh, FreshFor, At, Threading, ThreadType
      <4>2. QED
        BY <2>1, <3>1, <4>1 DEF IInv, OneStruct
    <3>4. \A u \in Threads : Claims(u) => th[u].id # sid[x]
      BY <2>1 DEF IInv, OneClaim, Claim
    <3>5. QED
      BY <1>1, <1>2, <2>1, <3>1, <3>2, <3>3, <3>4 DEF Claim, At, Claims
  <2>2. ASSUME ReplayCheck, Claims(t), Claims(t)', th'[t].id = th[t].id, resumed' = resumed
        PROVE  Claim(t)' /\ \A u \in Threads \ {t} : Claims(u) => th[u].id # th'[t].id
    <3>1. Claim(t)
      BY <2>2 DEF IInv, OneClaim
    <3>2. QED
      BY <1>1, <1>2, <2>2, <3>1 DEF Claim, At, Claims
  <2>3. ASSUME ReplayCheck, Claims(t)'
        PROVE  Claim(t)' /\ \A u \in Threads \ {t} : Claims(u) => th[u].id # th'[t].id
    BY <2>1, <2>2, <2>3 DEF Spent
  <2>4. ASSUME ReplayCheck, NEW u \in Threads, u # t, Claims(u)
        PROVE  Claim(u)'
    <3>1. Claim(u) /\ th'[u] = th[u]
      BY <2>4 DEF IInv, OneClaim
    <3>2. resumed'[th[u].id] = 0
      BY <1>11, <2>4, <3>1 DEF Claim, IInv, TypeOK
    <3>3. \A v \in Threads \ {u} : Claims(v)' => th'[v].id # th[u].id
      BY <2>3, <2>4, <3>1 DEF Claim, Claims
    <3>4. QED
      BY <1>1, <1>2, <3>1, <3>2, <3>3 DEF Claim, At
  <2>5. QED
    BY <1>1, <2>3, <2>4 DEF OneClaim, Claims
<1>17. QED
  BY <1>3, <1>4, <1>5, <1>6, <1>7, <1>8, <1>9, <1>10, <1>14, <1>15, <1>16 DEF IInv

\* The steps that leave the cache alone.
LEMMA MoveKeeps ==
  ASSUME IInv, NEW t \in Threads,
         UNCHANGED <<ctx, hash, list, sid, dead, issued>>, limit' \in Nat,
         lock' \in Threads \cup {NULL}, store' \subseteq issued,
         refs' \in [Structs -> Int],
         \A x \in Structs : refs'[x] = refs[x] + Holds(t, x)' - Holds(t, x),
         resumed' \in [Ids -> 0..2], ReplayCheck => resumed' = resumed \/ Spent(t),
         \A u \in Threads : u # t => th'[u] = th[u],
         Threading', th'[t].pc # "add",
         th'[t].session \in {NULL, th[t].session} \cup hash, th'[t].other \in {NULL, th[t].other},
         th'[t].pc = "removed" \/ (ctx.single_use /\ th'[t].pc \in {"claimed", "hello"})
            => th'[t].session \notin hash,
         ReplayCheck /\ (th'[t].pc = "found" \/ (th'[t].pc = "remove" /\ th'[t].next = "claimed"))
            => th'[t].id \in issued /\ sid[th'[t].session] \in {th'[t].id, NULL},
         ReplayCheck /\ Claims(t)' => Claims(t) /\ th'[t].id = th[t].id
  PROVE  IInv'
<1>1. /\ hash' = hash /\ list' = list /\ sid' = sid /\ dead' = dead
      /\ UNCHANGED <<ctx, sid, issued>>
  OBVIOUS
<1>2. \A x \in Structs : refs'[x] = refs[x] + Gained(t, x)
  <2>1. ASSUME NEW x \in Structs
        PROVE  refs[x] \in Int /\ InHash(x) \in Int /\ Holds(t, x) \in Int /\ Holds(t, x)' \in Int
               /\ InHash(x)' = InHash(x)
    BY <1>1 DEF InHash, Holds, IInv, TypeOK
  <2>2. QED
    BY <2>1 DEF Gained
<1>3. hash' \subseteq hash /\ list' \in Seq(Structs) /\ dead' \subseteq Structs /\ dead' \ dead = {}
  BY <1>1 DEF IInv, TypeOK
<1>4. Range(list') = Range(list) \ (hash \ hash') /\ (Distinct(list) => Distinct(list'))
  BY <1>1
<1>5. /\ th'[t].pc = "removed" \/ (ctx.single_use /\ th'[t].pc \in {"claimed", "hello"})
            => th'[t].session \notin hash'
      /\ th'[t].other \in {NULL, th[t].other} \cup hash
  BY <1>1
<1>6. QED
  BY <1>1, <1>2, <1>3, <1>4, <1>5, ShrinkKeeps

LEMMA AddDoneKeeps ==
  ASSUME IInv, NEW t \in Threads, AddDone(t)
  PROVE  IInv'
<1>1. /\ th[t].pc = "trim" /\ th[t].next \in {"store", "found"} /\ th[t].other = NULL
      /\ ~ctx.external => th[t].next = "store"
      /\ th[t].session \in Structs
  BY DEF AddDone, At, IInv, Threading, ThreadType
<1>2. /\ th' \in [Threads -> ThreadType]
      /\ \A u \in Threads : u # t => th'[u] = th[u]
      /\ th'[t].pc = th[t].next /\ th'[t].session = th[t].session /\ th'[t].other = NULL
      /\ th'[t].next = th[t].next /\ th'[t].id = th[t].id
      /\ lock' = NULL
  BY <1>1 DEF AddDone, Goto, IInv, Threading, ThreadType, Steps
<1>3. /\ UNCHANGED <<ctx, hash, list, sid, dead, issued>> /\ limit' \in Nat
      /\ store' \subseteq issued /\ resumed' = resumed /\ resumed' \in [Ids -> 0..2]
      /\ refs' = refs /\ refs' \in [Structs -> Int]
  BY DEF AddDone, IInv, TypeOK
<1>4. \A x \in Structs : refs'[x] = refs[x] + Holds(t, x)' - Holds(t, x)
  BY <1>1, <1>2, <1>3 DEF Holds
<1>5. Threading'
  BY <1>1, <1>2, <1>3, SessionAssumption DEF IInv, Threading
<1>6. QED
  BY <1>1, <1>2, <1>3, <1>4, <1>5, MoveKeeps DEF ReplayCheck, Claims

LEMMA Redirected ==
  ASSUME th \in [Threads -> ThreadType], NEW t \in Threads, NEW p \in Steps, NEW n \in Steps,
         th' = [th EXCEPT ![t].pc = p, ![t].next = n]
  PROVE  /\ th' \in [Threads -> ThreadType]
         /\ \A u \in Threads : u # t => th'[u] = th[u]
         /\ th'[t].pc = p /\ th'[t].next = n
         /\ th'[t].session = th[t].session /\ th'[t].other = th[t].other /\ th'[t].id = th[t].id
<1>1. th[t] \in ThreadType
  OBVIOUS
<1>2. th' = [th EXCEPT ![t] = [th[t] EXCEPT !.pc = p, !.next = n]]
  OBVIOUS
<1>3. [th[t] EXCEPT !.pc = p, !.next = n] \in ThreadType
  BY <1>1 DEF ThreadType
<1>4. QED
  BY <1>1, <1>2, <1>3 DEF ThreadType

LEMMA StoreExternalKeeps ==
  ASSUME IInv, NEW t \in Threads, StoreExternal(t)
  PROVE  IInv'
<1>1. /\ th[t].pc = "store" /\ th[t].session \in Structs /\ th[t].other = NULL
  BY DEF StoreExternal, At, IInv, Threading, ThreadType
<1>2. /\ th' \in [Threads -> ThreadType]
      /\ \A u \in Threads : u # t => th'[u] = th[u]
      /\ th'[t].pc = "connected" /\ th'[t].next = th[t].next
      /\ th'[t].session = th[t].session /\ th'[t].other = th[t].other /\ th'[t].id = th[t].id
  BY <1>1 DEF StoreExternal, Goto, Idle, IInv, Threading, ThreadType, Steps
<1>3. /\ UNCHANGED <<ctx, hash, list, sid, dead, issued>> /\ limit' \in Nat /\ lock' = lock /\ lock \in Threads \cup {NULL}
      /\ store' \subseteq issued /\ resumed' = resumed /\ resumed' \in [Ids -> 0..2]
      /\ refs' \in [Structs -> Int]
  BY <1>1 DEF StoreExternal, IInv, TypeOK, Known
<1>4. \A x \in Structs : refs'[x] = refs[x] + Holds(t, x)' - Holds(t, x)
  BY <1>1, <1>2, SessionAssumption DEF Holds, StoreExternal, Freed, IInv, TypeOK
<1>5. Threading'
  BY <1>1, <1>2, <1>3, SessionAssumption DEF IInv, Threading
<1>6. QED
  BY <1>1, <1>2, <1>3, <1>4, <1>5, MoveKeeps DEF ReplayCheck, Claims

LEMMA FailKeeps ==
  ASSUME IInv, NEW t \in Threads, Fail(t)
  PROVE  IInv'
<1>1. /\ th[t].pc \in {"hello", "connected"} /\ th[t].session \in Structs /\ th[t].other = NULL
  BY DEF Fail, At, IInv, Threading, ThreadType
<1>2. /\ th' \in [Threads -> ThreadType]
      /\ \A u \in Threads : u # t => th'[u] = th[u]
      /\ th'[t].pc = "remove" /\ th'[t].next = "close"
      /\ th'[t].session = th[t].session /\ th'[t].other = th[t].other /\ th'[t].id = th[t].id
  BY Redirected DEF Fail, IInv, Threading, Steps
<1>3. /\ UNCHANGED <<ctx, hash, list, sid, dead, issued>> /\ limit' \in Nat /\ lock' = lock /\ lock \in Threads \cup {NULL}
      /\ store' \subseteq issued /\ resumed' = resumed /\ resumed' \in [Ids -> 0..2]
      /\ refs' \in [Structs -> Int]
  BY <1>1 DEF Fail, IInv, TypeOK
<1>4. \A x \in Structs : refs'[x] = refs[x] + Holds(t, x)' - Holds(t, x)
  BY <1>1, <1>2, SessionAssumption DEF Holds, Fail, Freed, IInv, TypeOK
<1>5. Threading'
  BY <1>1, <1>2, <1>3, SessionAssumption DEF IInv, Threading
<1>6. QED
  BY <1>1, <1>2, <1>3, <1>4, <1>5, MoveKeeps DEF ReplayCheck, Claims

LEMMA FetchMissKeeps ==
  ASSUME IInv, NEW t \in Threads, Fetch(t), th[t].id \notin store
  PROVE  IInv'
<1>1. /\ th[t].pc = "missed" /\ th[t].session = NULL /\ th[t].other = NULL
  BY DEF Fetch, At, IInv, Threading, ThreadType
<1>2. /\ th' \in [Threads -> ThreadType]
      /\ \A u \in Threads : u # t => th'[u] = th[u]
      /\ th'[t].pc = "idle" /\ th'[t].next = "idle" /\ th'[t].session = NULL /\ th'[t].other = NULL /\ th'[t].id = NULL
  BY <1>1 DEF Fetch, Goto, Idle, IInv, Threading, ThreadType, Steps
<1>3. /\ UNCHANGED <<ctx, hash, list, sid, dead, issued>> /\ limit' \in Nat /\ lock' = lock /\ lock \in Threads \cup {NULL}
      /\ store' \subseteq issued /\ resumed' = resumed /\ resumed' \in [Ids -> 0..2]
      /\ refs' \in [Structs -> Int]
  BY <1>1 DEF Fetch, IInv, TypeOK
<1>4. \A x \in Structs : refs'[x] = refs[x] + Holds(t, x)' - Holds(t, x)
  BY <1>1, <1>2, SessionAssumption DEF Holds, Fetch, Freed, IInv, TypeOK
<1>5. Threading'
  BY <1>1, <1>2, <1>3, SessionAssumption DEF IInv, Threading
<1>6. QED
  BY <1>1, <1>2, <1>3, <1>4, <1>5, MoveKeeps DEF ReplayCheck, Claims

LEMMA CloseKeeps ==
  ASSUME IInv, NEW t \in Threads, Close(t)
  PROVE  IInv'
<1>1. /\ th[t].pc \in {"hello", "connected", "close"} /\ th[t].session \in Structs /\ th[t].other = NULL
  BY DEF Close, At, IInv, Threading, ThreadType
<1>2. /\ th' \in [Threads -> ThreadType]
      /\ \A u \in Threads : u # t => th'[u] = th[u]
      /\ th'[t].pc = "idle" /\ th'[t].next = "idle" /\ th'[t].session = NULL /\ th'[t].other = NULL /\ th'[t].id = NULL
  BY <1>1 DEF Close, Goto, Idle, IInv, Threading, ThreadType, Steps
<1>3. /\ UNCHANGED <<ctx, hash, list, sid, dead, issued>> /\ limit' \in Nat /\ lock' = lock /\ lock \in Threads \cup {NULL}
      /\ store' \subseteq issued /\ resumed' = resumed /\ resumed' \in [Ids -> 0..2]
      /\ refs' \in [Structs -> Int]
  BY <1>1 DEF Close, IInv, TypeOK, Freed
<1>4. \A x \in Structs : refs'[x] = refs[x] + Holds(t, x)' - Holds(t, x)
  BY <1>1, <1>2, SessionAssumption DEF Holds, Close, Freed, IInv, TypeOK
<1>5. Threading'
  BY <1>1, <1>2, <1>3, SessionAssumption DEF IInv, Threading
<1>6. QED
  BY <1>1, <1>2, <1>3, <1>4, <1>5, MoveKeeps DEF ReplayCheck, Claims

LEMMA RemoveNothingKeeps ==
  ASSUME IInv, NEW t \in Threads, RemoveLocked(t), sid[th[t].session] = NULL
  PROVE  IInv'
<1>1. /\ th[t].pc = "remove" /\ th[t].next \in {"close", "claimed"} /\ th[t].session \in Structs /\ th[t].other = NULL
  BY DEF RemoveLocked, At, IInv, Threading, ThreadType
<1>2. /\ th' \in [Threads -> ThreadType]
      /\ \A u \in Threads : u # t => th'[u] = th[u]
      /\ th'[t].pc = "close" /\ th'[t].next = th[t].next
      /\ th'[t].session = th[t].session /\ th'[t].other = th[t].other /\ th'[t].id = th[t].id
  BY <1>1 DEF RemoveLocked, Goto, Idle, IInv, Threading, ThreadType, Steps
<1>3. /\ UNCHANGED <<ctx, hash, list, sid, dead, issued>> /\ limit' \in Nat /\ lock' = lock /\ lock \in Threads \cup {NULL}
      /\ store' \subseteq issued /\ resumed' = resumed /\ resumed' \in [Ids -> 0..2]
      /\ refs' \in [Structs -> Int]
  BY <1>1 DEF RemoveLocked, IInv, TypeOK
<1>4. \A x \in Structs : refs'[x] = refs[x] + Holds(t, x)' - Holds(t, x)
  BY <1>1, <1>2, SessionAssumption DEF Holds, RemoveLocked, Freed, IInv, TypeOK
<1>5. Threading'
  BY <1>1, <1>2, <1>3, SessionAssumption DEF IInv, Threading
<1>6. QED
  BY <1>1, <1>2, <1>3, <1>4, <1>5, MoveKeeps DEF ReplayCheck, Claims

LEMMA RemoveDoneKeeps ==
  ASSUME IInv, NEW t \in Threads, RemoveDone(t)
  PROVE  IInv'
<1>1. /\ th[t].pc = "removed" /\ th[t].next \in {"close", "claimed"} /\ th[t].session \in Structs /\ th[t].session \notin hash
  BY DEF RemoveDone, At, IInv, Threading, ThreadType, Gone
<1>2. /\ th' \in [Threads -> ThreadType]
      /\ \A u \in Threads : u # t => th'[u] = th[u]
      /\ th'[t].pc = IF th[t].next = "claimed" /\ th[t].other = NULL THEN "close" ELSE th[t].next
      /\ th'[t].next = th[t].next /\ th'[t].session = th[t].session /\ th'[t].other = NULL /\ th'[t].id = th[t].id
  BY <1>1 DEF RemoveDone, Goto, Idle, IInv, Threading, ThreadType, Steps
<1>3. /\ UNCHANGED <<ctx, hash, list, sid, dead, issued>> /\ limit' \in Nat /\ lock' = lock /\ lock \in Threads \cup {NULL}
      /\ store' \subseteq issued /\ resumed' = resumed /\ resumed' \in [Ids -> 0..2]
      /\ refs' \in [Structs -> Int]
  BY <1>1 DEF RemoveDone, IInv, TypeOK, Freed
<1>4. \A x \in Structs : refs'[x] = refs[x] + Holds(t, x)' - Holds(t, x)
  BY <1>1, <1>2, SessionAssumption DEF Holds, RemoveDone, Freed, IInv, TypeOK
<1>5. Threading'
  BY <1>1, <1>2, <1>3, SessionAssumption DEF IInv, Threading
<1>6. QED
  BY <1>1, <1>2, <1>3, <1>4, <1>5, MoveKeeps DEF ReplayCheck, Claims

LEMMA AddFailsKeeps ==
  ASSUME IInv, NEW t \in Threads, AddLocked(t), th[t].session \notin Retrieve(sid[th[t].session]), refs' = Freed({th[t].session}), Goto(t, th[t].next), UNCHANGED <<hash, list, lock>>
  PROVE  IInv'
<1>1. /\ th[t].pc = "add" /\ th[t].next \in {"store", "found"} /\ th[t].session \in Structs /\ th[t].other = NULL
      /\ ~ctx.external => th[t].next = "store"
  BY DEF AddLocked, At, IInv, Threading, ThreadType
<1>2. /\ th' \in [Threads -> ThreadType]
      /\ \A u \in Threads : u # t => th'[u] = th[u]
      /\ th'[t].pc = th[t].next /\ th'[t].next = th[t].next
      /\ th'[t].session = th[t].session /\ th'[t].other = th[t].other /\ th'[t].id = th[t].id
  BY <1>1 DEF AddLocked, Goto, Idle, IInv, Threading, ThreadType, Steps
<1>3. /\ UNCHANGED <<ctx, hash, list, sid, dead, issued>> /\ limit' \in Nat /\ lock' = lock /\ lock \in Threads \cup {NULL}
      /\ store' \subseteq issued /\ resumed' = resumed /\ resumed' \in [Ids -> 0..2]
      /\ refs' \in [Structs -> Int]
  BY <1>1 DEF AddLocked, IInv, TypeOK, Freed
<1>4. \A x \in Structs : refs'[x] = refs[x] + Holds(t, x)' - Holds(t, x)
  BY <1>1, <1>2, SessionAssumption DEF Holds, AddLocked, Freed, IInv, TypeOK
<1>5. Threading'
  BY <1>1, <1>2, <1>3, SessionAssumption DEF IInv, Threading
<1>6. QED
  BY <1>1, <1>2, <1>3, <1>4, <1>5, MoveKeeps DEF ReplayCheck, Claims

LEMMA LookupKeeps ==
  ASSUME IInv, NEW t \in Threads, NEW i \in Ids, Lookup(t, i)
  PROVE  IInv'
<1>1. th[t].pc = "idle" /\ th[t].session = NULL /\ th[t].other = NULL /\ i # NULL
  BY SessionAssumption DEF Lookup, At, IInv, Threading
<1>2. /\ UNCHANGED <<ctx, hash, list, sid, dead, issued>> /\ limit' \in Nat /\ lock' = lock
      /\ lock \in Threads \cup {NULL}
      /\ store' \subseteq issued /\ resumed' = resumed /\ resumed' \in [Ids -> 0..2]
      /\ refs \in [Structs -> Nat] /\ hash \subseteq Structs /\ NULL \notin Structs
  BY SessionAssumption DEF Lookup, IInv, TypeOK
<1>3. ASSUME NEW s \in Retrieve(i), refs' = [refs EXCEPT ![s] = refs[s] + 1],
             th' = [th EXCEPT ![t] = [Idle EXCEPT !.pc = "found", !.session = s, !.id = i]]
      PROVE  IInv'
  <2>1. s \in hash /\ s \in Structs /\ sid[s] = i /\ i \in issued
    BY <1>2 DEF Retrieve, IInv, Known
  <2>2. /\ th' \in [Threads -> ThreadType]
        /\ \A u \in Threads : u # t => th'[u] = th[u]
        /\ th'[t].pc = "found" /\ th'[t].session = s /\ th'[t].other = NULL /\ th'[t].next = "idle"
        /\ th'[t].id = i
    BY <1>3, <2>1 DEF Idle, IInv, Threading, ThreadType, Steps
  <2>3. refs' \in [Structs -> Int] /\ \A x \in Structs : refs'[x] = refs[x] + Holds(t, x)' - Holds(t, x)
    BY <1>1, <1>2, <1>3, <2>1, <2>2 DEF Holds
  <2>4. Threading'
    BY <1>1, <1>2, <2>1, <2>2, SessionAssumption DEF IInv, Threading
  <2>5. QED
    BY <1>1, <1>2, <2>1, <2>2, <2>3, <2>4, MoveKeeps DEF ReplayCheck, Claims
<1>4. ASSUME ctx.external, refs' = refs, th' = [th EXCEPT ![t] = [Idle EXCEPT !.pc = "missed", !.id = i]]
      PROVE  IInv'
  <2>1. /\ th' \in [Threads -> ThreadType]
        /\ \A u \in Threads : u # t => th'[u] = th[u]
        /\ th'[t].pc = "missed" /\ th'[t].session = NULL /\ th'[t].other = NULL /\ th'[t].next = "idle"
        /\ th'[t].id = i
    BY <1>4 DEF Idle, IInv, Threading, ThreadType, Steps
  <2>2. refs' \in [Structs -> Int] /\ \A x \in Structs : refs'[x] = refs[x] + Holds(t, x)' - Holds(t, x)
    BY <1>1, <1>2, <1>4, <2>1 DEF Holds
  <2>3. Threading'
    BY <1>1, <1>2, <1>4, <2>1, SessionAssumption DEF IInv, Threading
  <2>4. QED
    BY <1>1, <1>2, <1>4, <2>1, <2>2, <2>3, MoveKeeps DEF ReplayCheck, Claims
<1>5. QED
  BY <1>3, <1>4 DEF Lookup

LEMMA Counted ==
  ASSUME resumed \in [Ids -> 0..2], NEW i, CountResumed(i)
  PROVE  resumed' \in [Ids -> 0..2] /\ (i \in Ids /\ resumed[i] = 0 => resumed' = [resumed EXCEPT ![i] = 1])
<1>1. resumed' = [resumed EXCEPT ![i] = IF resumed[i] < 2 THEN resumed[i] + 1 ELSE resumed[i]]
  BY DEF CountResumed
<1>2. i \in Ids => (IF resumed[i] < 2 THEN resumed[i] + 1 ELSE resumed[i]) \in 0..2
  OBVIOUS
<1>3. resumed' \in [Ids -> 0..2]
  <2>1. CASE i \in Ids
    BY <1>1, <1>2, <2>1
  <2>2. CASE i \notin Ids
    BY <1>1, <2>2
  <2>3. QED
    BY <2>1, <2>2
<1>4. i \in Ids /\ resumed[i] = 0 => resumed' = [resumed EXCEPT ![i] = 1]
  BY <1>1
<1>5. QED
  BY <1>3, <1>4

LEMMA ResumeKeeps ==
  ASSUME IInv, NEW t \in Threads, Resume(t)
  PROVE  IInv'
<1>1. th[t].pc = "found" /\ th[t].session \in Structs /\ th[t].other = NULL
  BY DEF Resume, At, IInv, Threading, ThreadType
<1>2. /\ UNCHANGED <<ctx, hash, list, sid, dead, issued>> /\ limit' \in Nat /\ lock' = lock
      /\ lock \in Threads \cup {NULL}
      /\ store' \subseteq issued /\ refs' = refs /\ refs' \in [Structs -> Int]
      /\ NULL \notin Structs
  BY SessionAssumption DEF Resume, IInv, TypeOK
<1>3. resumed' \in [Ids -> 0..2] /\ (ReplayCheck => resumed' = resumed)
  BY Counted DEF Resume, IInv, TypeOK, ReplayCheck
<1>4. /\ th' \in [Threads -> ThreadType]
      /\ \A u \in Threads : u # t => th'[u] = th[u]
      /\ th'[t].session = th[t].session /\ th'[t].other = NULL /\ th'[t].id = th[t].id
      /\ \/ ctx.single_use /\ th'[t].pc = "remove" /\ th'[t].next = "claimed"
         \/ th'[t].pc = "close"
         \/ th'[t].pc = "remove" /\ th'[t].next = "close"
         \/ ~ctx.single_use /\ th'[t].pc = "hello"
  <2>1. ASSUME NEW p \in Steps, NEW n \in Steps, th' = [th EXCEPT ![t].pc = p, ![t].next = n]
        PROVE  /\ th' \in [Threads -> ThreadType]
               /\ \A u \in Threads : u # t => th'[u] = th[u]
               /\ th'[t].session = th[t].session /\ th'[t].other = NULL /\ th'[t].id = th[t].id
               /\ th'[t].pc = p /\ th'[t].next = n
    <3>1. th \in [Threads -> ThreadType]
      BY DEF IInv, Threading
    <3>2. /\ th' \in [Threads -> ThreadType]
          /\ \A u \in Threads : u # t => th'[u] = th[u]
          /\ th'[t].pc = p /\ th'[t].next = n
          /\ th'[t].session = th[t].session /\ th'[t].other = th[t].other /\ th'[t].id = th[t].id
      BY <2>1, <3>1, Redirected, Zenon
    <3>3. QED
      BY <1>1, <3>2
  <2>2. ASSUME NEW p \in Steps, th' = [th EXCEPT ![t].pc = p]
        PROVE  /\ th' \in [Threads -> ThreadType]
               /\ \A u \in Threads : u # t => th'[u] = th[u]
               /\ th'[t].session = th[t].session /\ th'[t].other = NULL /\ th'[t].id = th[t].id
               /\ th'[t].pc = p
    BY <1>1, <2>2 DEF IInv, Threading, ThreadType
  <2>3. "remove" \in Steps /\ "claimed" \in Steps /\ "close" \in Steps /\ "hello" \in Steps
    BY DEF Steps
  <2>4. CASE ctx.single_use /\ th' = [th EXCEPT ![t].pc = "remove", ![t].next = "claimed"]
    BY <2>1, <2>3, <2>4
  <2>5. CASE th' = [th EXCEPT ![t].pc = "close"]
    BY <2>2, <2>3, <2>5
  <2>6. CASE th' = [th EXCEPT ![t].pc = "remove", ![t].next = "close"]
    BY <2>1, <2>3, <2>6
  <2>7. CASE ~ctx.single_use /\ th' = [th EXCEPT ![t].pc = "hello"]
    BY <2>2, <2>3, <2>7
  <2>8. QED
    BY <2>4, <2>5, <2>6, <2>7 DEF Resume, Goto
<1>5. \A x \in Structs : refs'[x] = refs[x] + Holds(t, x)' - Holds(t, x)
  BY <1>1, <1>2, <1>4 DEF Holds
<1>6. Threading'
  BY <1>1, <1>2, <1>4, SessionAssumption DEF IInv, Threading
<1>7. ReplayCheck => th[t].id \in issued /\ sid[th[t].session] \in {th[t].id, NULL}
  BY <1>1 DEF IInv, Asked
<1>8. QED
  BY <1>1, <1>2, <1>3, <1>4, <1>5, <1>6, <1>7, MoveKeeps DEF Claims

LEMMA ResumeClaimedKeeps ==
  ASSUME IInv, NEW t \in Threads, ResumeClaimed(t)
  PROVE  IInv'
<1>1. th[t].pc = "claimed" /\ th[t].session \in Structs /\ th[t].other = NULL
  BY DEF ResumeClaimed, At, IInv, Threading, ThreadType
<1>2. /\ UNCHANGED <<ctx, hash, list, sid, dead, issued>> /\ limit' \in Nat /\ lock' = lock
      /\ lock \in Threads \cup {NULL}
      /\ store' \subseteq issued /\ refs' = refs /\ refs' \in [Structs -> Int]
      /\ NULL \notin Structs
  BY SessionAssumption DEF ResumeClaimed, IInv, TypeOK
<1>3. /\ th' \in [Threads -> ThreadType]
      /\ \A u \in Threads : u # t => th'[u] = th[u]
      /\ th'[t].session = th[t].session /\ th'[t].other = NULL /\ th'[t].id = th[t].id
      /\ th'[t].pc \in {"close", "hello"}
  BY <1>1 DEF ResumeClaimed, Goto, IInv, Threading, ThreadType, Steps
<1>4. resumed' \in [Ids -> 0..2] /\ (ReplayCheck => resumed' = resumed \/ Spent(t))
  <2>1. CASE resumed' = resumed
    BY <2>1 DEF IInv, TypeOK
  <2>2. CASE CountResumed(th[t].id)
    <3>1. resumed' \in [Ids -> 0..2]
      BY <2>2, Counted DEF IInv, TypeOK
    <3>2. ReplayCheck => th[t].id \in Ids /\ resumed[th[t].id] = 0
      BY <1>1 DEF IInv, OneClaim, Claim, Claims, TypeOK
    <3>3. ReplayCheck => resumed' = [resumed EXCEPT ![th[t].id] = 1]
      BY <2>2, <3>2, Counted DEF IInv, TypeOK
    <3>4. QED
      BY <1>1, <1>3, <3>1, <3>3 DEF Spent, Claims
  <2>3. QED
    BY <2>1, <2>2 DEF ResumeClaimed
<1>5. \A x \in Structs : refs'[x] = refs[x] + Holds(t, x)' - Holds(t, x)
  BY <1>1, <1>2, <1>3 DEF Holds
<1>6. Threading'
  BY <1>1, <1>2, <1>3, SessionAssumption DEF IInv, Threading
<1>7. ctx.single_use => th[t].session \notin hash
  BY <1>1 DEF IInv, Gone
<1>8. QED
  BY <1>1, <1>2, <1>3, <1>4, <1>5, <1>6, <1>7, MoveKeeps DEF Claims

LEMMA SetLimitKeeps ==
  ASSUME IInv, NEW n \in Limits, SetLimit(n)
  PROVE  IInv'
<1>2. /\ UNCHANGED <<ctx, hash, list, sid, dead, issued, refs, th, lock, resumed, store>>
      /\ limit' \in Nat
  BY SessionAssumption DEF SetLimit
<1>3. Counts' /\ Threading' /\ Known' /\ Table' /\ Listed' /\ Fresh' /\ Gone'
  BY <1>2 DEF IInv, Counts, Owed, Users, Adders, Removers, At, Threading, Known, Table, Listed, Fresh,
              FreshFor, Gone
<1>4. NoDeadSessionCached' /\ OneStruct' /\ Unspent' /\ Asked' /\ OneClaim'
  BY <1>2 DEF IInv, NoDeadSessionCached, OneStruct, Unspent, Asked, OneClaim, Claim, Claims, ReplayCheck, At
<1>5. TypeOK' /\ (ctx \in Settings)'
  BY <1>2 DEF IInv, TypeOK
<1>6. QED
  BY <1>3, <1>4, <1>5 DEF IInv

LEMMA RetrieveOne ==
  ASSUME IInv, NEW i
  PROVE  Retrieve(i) \subseteq hash /\ \A x, y \in Retrieve(i) : x = y
BY DEF IInv, Table, Retrieve

LEMMA UnlinkIs ==
  ASSUME IInv, NEW S \in SUBSET hash, hash' = hash \ S, list' = Without(list, S)
  PROVE  /\ hash' \subseteq hash /\ list' \in Seq(Structs)
         /\ Range(list') = Range(list) \ (hash \ hash') /\ (Distinct(list) => Distinct(list'))
<1>1. list \in Seq(Structs) /\ hash \ hash' = S
  BY DEF IInv, TypeOK
<1>2. QED
  BY <1>1, WithoutIs

LEMMA RemoveKeeps ==
  ASSUME IInv, NEW t \in Threads, RemoveLocked(t), sid[th[t].session] # NULL
  PROVE  IInv'
<1> DEFINE c == th[t].session
           r == Retrieve(sid[c])
           o == IF r = {} THEN NULL ELSE CHOOSE s \in r : TRUE
<1>1. /\ th[t].pc = "remove" /\ th[t].next \in {"close", "claimed"} /\ th[t].other = NULL
      /\ c \in Structs /\ lock = NULL /\ NULL \notin Structs
  BY SessionAssumption DEF RemoveLocked, At, IInv, Threading, ThreadType, LockFree
<1>2. /\ hash' = hash \ r /\ list' = Without(list, r) /\ dead' = dead \cup {c}
      /\ th' = [th EXCEPT ![t].pc = "removed", ![t].other = o]
      /\ ctx' = ctx /\ limit' = limit /\ lock' = lock /\ refs' = refs /\ sid' = sid /\ issued' = issued
      /\ store' = store /\ resumed' = resumed
  BY DEF RemoveLocked
<1>3. /\ r \subseteq hash /\ hash \subseteq Structs
      /\ o = NULL <=> r = {}
      /\ o # NULL => o \in r /\ r = {o}
      /\ c \in hash => r = {c}
  <2>1. r \subseteq hash /\ \A x, y \in r : x = y
    BY RetrieveOne
  <2>2. hash \subseteq Structs
    BY DEF IInv, TypeOK
  <2>3. r # {} => o \in r
    OBVIOUS
  <2>4. c \in hash => c \in r
    BY DEF Retrieve
  <2>5. QED
    BY <1>1, <2>1, <2>2, <2>3, <2>4
<1>4. o \in Structs \cup {NULL} /\ \A x \in r : sid[x] = sid[c]
  BY <1>3 DEF Retrieve
<1> HIDE DEF o, r
<1>5. /\ th' \in [Threads -> ThreadType]
      /\ \A u \in Threads : u # t => th'[u] = th[u]
      /\ th'[t].pc = "removed" /\ th'[t].session = c /\ th'[t].other = o
      /\ th'[t].next = th[t].next /\ th'[t].id = th[t].id
  <2>1. th[t] \in ThreadType /\ th \in [Threads -> ThreadType]
    BY DEF IInv, Threading
  <2>2. [th[t] EXCEPT !.pc = "removed", !.other = o] \in ThreadType
    BY <1>4, <2>1 DEF ThreadType, Steps
  <2>3. th' = [th EXCEPT ![t] = [th[t] EXCEPT !.pc = "removed", !.other = o]]
    BY <1>2
  <2>4. QED
    BY <2>1, <2>2, <2>3 DEF ThreadType
<1>6. /\ hash' \subseteq hash /\ list' \in Seq(Structs)
      /\ Range(list') = Range(list) \ (hash \ hash') /\ (Distinct(list) => Distinct(list'))
  BY <1>2, <1>3, UnlinkIs
<1>7. \A x \in Structs : refs'[x] = refs[x] + Gained(t, x)
  <2>1. ASSUME NEW x \in Structs
        PROVE  refs'[x] = refs[x] + Gained(t, x)
    <3>1. refs[x] \in Nat /\ x # NULL
      BY <1>1 DEF IInv, TypeOK
    <3>2. InHash(x) + Holds(t, x) = (IF x \in hash THEN 1 ELSE 0) + (IF x = c THEN 1 ELSE 0)
      BY <1>1, <3>1 DEF InHash, Holds
    <3>3. InHash(x)' + Holds(t, x)' =
            (IF x \in hash /\ x \notin r THEN 1 ELSE 0) + (IF x = c THEN 1 ELSE 0) + (IF x = o THEN 1 ELSE 0)
      BY <1>2, <1>5, <3>1 DEF InHash, Holds
    <3>4. x = o <=> x \in r
      BY <1>3, <3>1
    <3>5. InHash(x) \in Nat /\ Holds(t, x) \in Nat /\ InHash(x)' \in Nat /\ Holds(t, x)' \in Nat
      BY DEF InHash, Holds
    <3>6. InHash(x) + Holds(t, x) = InHash(x)' + Holds(t, x)'
      BY <1>3, <3>2, <3>3, <3>4
    <3>7. QED
      BY <1>2, <3>1, <3>5, <3>6 DEF Gained
  <2>2. QED
    BY <2>1
<1>8. c \notin hash' /\ \A u \in Threads : th[u].pc = "add" => th[u].session # c
  <2>1. \A u \in Threads : th[u].pc = "add" => u # t
    BY <1>1
  <2>2. QED
    BY <1>2, <1>3, <2>1 DEF IInv, Fresh, FreshFor, At
<1>9. Threading'
  BY <1>1, <1>2, <1>5, SessionAssumption DEF IInv, Threading
<1>10. ReplayCheck /\ Claims(t)' => \E x \in hash \ hash' : sid[x] = th'[t].id
  <2>1. SUFFICES ASSUME ReplayCheck, Claims(t)'
                 PROVE  o \in hash \ hash' /\ sid[o] = th'[t].id
    OBVIOUS
  <2>2. th[t].next = "claimed" /\ o # NULL
    BY <1>5, <2>1 DEF Claims
  <2>3. sid[c] = th[t].id
    BY <1>1, <2>1, <2>2 DEF IInv, Asked
  <2>4. QED
    BY <1>2, <1>3, <1>4, <1>5, <2>2, <2>3
<1>11. /\ UNCHANGED <<ctx, sid, issued>> /\ limit' \in Nat /\ lock' \in Threads \cup {NULL}
       /\ store' \subseteq issued /\ refs' \in [Structs -> Int]
       /\ resumed' \in [Ids -> 0..2] /\ dead' \subseteq Structs /\ dead' \ dead \subseteq {c}
  BY <1>1, <1>2 DEF IInv, TypeOK
<1>12. /\ ~ctx.tls13 => \A x \in dead' \ dead :
            x \notin hash' /\ \A u \in Threads : th[u].pc = "add" => th[u].session # x
       /\ ReplayCheck => resumed' = resumed \/ Spent(t)
       /\ th'[t].pc # "add"
       /\ th'[t].session \in {NULL, th[t].session} \cup hash /\ th'[t].other \in {NULL, th[t].other} \cup hash
       /\ th'[t].session \notin hash'
       /\ ~(th'[t].pc = "found" \/ (th'[t].pc = "remove" /\ th'[t].next = "claimed"))
  <2>1. o \in {NULL} \cup hash
    BY <1>3
  <2>2. QED
    BY <1>2, <1>5, <1>8, <1>11, <2>1
<1> HIDE DEF c
<1>13. QED
  BY <1>5, <1>6, <1>7, <1>9, <1>10, <1>11, <1>12, ShrinkKeeps

LEMMA TrimKeeps ==
  ASSUME IInv, NEW t \in Threads, Trim(t)
  PROVE  IInv'
<1> DEFINE c == Last(list)
           r == Retrieve(sid[c])
<1>1. /\ th[t].pc = "trim" /\ th[t].next \in {"store", "found"} /\ th[t].other = NULL
      /\ ~ctx.external => th[t].next = "store"
      /\ th[t].session \in Structs /\ NULL \notin Structs /\ lock = t
      /\ th \in [Threads -> ThreadType]
  BY SessionAssumption DEF Trim, At, IInv, Threading, ThreadType
<1>2. /\ list # <<>> /\ hash' = hash \ r /\ list' = Without(list, r) /\ refs' = Freed(r)
      /\ dead' = IF sid[c] = NULL THEN dead ELSE dead \cup {c}
      /\ store' = store \ {sid[c]}
      /\ IF r = {} THEN lock' = NULL /\ Goto(t, th[t].next) ELSE UNCHANGED <<lock, th>>
      /\ ctx' = ctx /\ limit' = limit /\ sid' = sid /\ issued' = issued /\ resumed' = resumed
  BY DEF Trim
<1>3. c \in Structs /\ c \in Range(list)
  <2>1. list \in Seq(Structs) /\ Len(list) \in Nat /\ Len(list) # 0
    BY <1>2 DEF IInv, TypeOK
  <2>2. c = list[Len(list)] /\ Len(list) \in 1..Len(list)
    BY <2>1 DEF Last
  <2>3. QED
    BY <2>1, <2>2, InRange
<1>4. /\ r \subseteq hash /\ hash \subseteq Structs
      /\ sid[c] # NULL => c \notin hash'
  <2>1. r \subseteq hash /\ hash \subseteq Structs
    BY RetrieveOne DEF IInv, TypeOK
  <2>2. c \in hash /\ sid[c] # NULL => c \in r
    BY DEF Retrieve
  <2>3. QED
    BY <1>2, <2>1, <2>2
<1> HIDE DEF c, r
<1>5. /\ th' \in [Threads -> ThreadType]
      /\ \A u \in Threads : u # t => th'[u] = th[u]
      /\ th'[t].pc \in {"trim", th[t].next} /\ (lock' = t <=> th'[t].pc = "trim") /\ lock' \in {t, NULL}
      /\ th'[t].session = th[t].session /\ th'[t].other = NULL
      /\ th'[t].next = th[t].next /\ th'[t].id = th[t].id
  <2>1. CASE r = {}
    <3>1. th' = [th EXCEPT ![t].pc = th[t].next] /\ lock' = NULL /\ t # NULL /\ th[t].next \in Steps
      BY <1>1, <1>2, <2>1, SessionAssumption DEF Goto, Steps
    <3>2. QED
      BY <1>1, <3>1 DEF ThreadType
  <2>2. CASE r # {}
    BY <1>1, <1>2, <2>2
  <2>3. QED
    BY <2>1, <2>2
<1>6. /\ hash' \subseteq hash /\ list' \in Seq(Structs)
      /\ Range(list') = Range(list) \ (hash \ hash') /\ (Distinct(list) => Distinct(list'))
  BY <1>2, <1>4, UnlinkIs
<1>7. refs' \in [Structs -> Int] /\ \A x \in Structs : refs'[x] = refs[x] + Gained(t, x)
  <2>1. refs \in [Structs -> Nat]
    BY DEF IInv, TypeOK
  <2>2. refs' \in [Structs -> Int] /\ \A x \in Structs : refs'[x] = refs[x] - IF x \in r THEN 1 ELSE 0
    BY <1>2, <2>1 DEF Freed
  <2>3. ASSUME NEW x \in Structs
        PROVE  Gained(t, x) = -(IF x \in r THEN 1 ELSE 0)
    <3>1. Holds(t, x)' = Holds(t, x) /\ Holds(t, x) \in Nat
      BY <1>1, <1>5 DEF Holds
    <3>2. InHash(x)' = InHash(x) - (IF x \in r THEN 1 ELSE 0) /\ InHash(x) \in Nat
      BY <1>2, <1>4 DEF InHash
    <3>3. QED
      BY <3>1, <3>2 DEF Gained
  <2>4. QED
    BY <2>1, <2>2, <2>3
<1>8. ~ctx.tls13 => \A x \in dead' \ dead :
        x \notin hash' /\ \A u \in Threads : th[u].pc = "add" => th[u].session # x
  <2>1. \A x \in dead' \ dead : x = c /\ sid[c] # NULL
    BY <1>2
  <2>2. QED
    BY <1>3, <1>4, <2>1 DEF IInv, Fresh, FreshFor, At
<1>9. Threading'
  BY <1>1, <1>2, <1>5, SessionAssumption DEF IInv, Threading
<1>10. /\ UNCHANGED <<ctx, sid, issued>> /\ limit' \in Nat /\ lock' \in Threads \cup {NULL}
       /\ store' \subseteq issued
       /\ resumed' \in [Ids -> 0..2] /\ dead' \subseteq Structs
  BY <1>1, <1>2, <1>3, <1>5 DEF IInv, TypeOK
<1>11. /\ th'[t].pc # "add" /\ (ReplayCheck => resumed' = resumed \/ Spent(t))
       /\ th'[t].session \in {NULL, th[t].session} \cup hash /\ th'[t].other \in {NULL, th[t].other} \cup hash
       /\ ~(th'[t].pc = "removed" \/ (ctx.single_use /\ th'[t].pc \in {"claimed", "hello"}))
       /\ ~(ReplayCheck /\ (th'[t].pc = "found" \/ (th'[t].pc = "remove" /\ th'[t].next = "claimed")))
       /\ ~Claims(t)'
  BY <1>1, <1>2, <1>5 DEF ReplayCheck, Claims
<1>12. QED
  BY <1>5, <1>6, <1>7, <1>8, <1>9, <1>10, <1>11, ShrinkKeeps

LEMMA FlushKeeps ==
  ASSUME IInv, NEW gone \in SUBSET hash, Flush(gone)
  PROVE  IInv'
<1>1. PICK t \in Threads : TRUE
  BY SessionAssumption
<1>2. /\ hash' = hash \ gone /\ list' = Without(list, gone) /\ refs' = Freed(gone)
      /\ dead' = dead \cup gone /\ store' = store \ {sid[s] : s \in gone}
      /\ ctx' = ctx /\ limit' = limit /\ lock' = lock /\ sid' = sid /\ issued' = issued
      /\ resumed' = resumed /\ th' = th
  <2>1. hash \ {s \in gone : sid[s] # NULL} = hash \ gone
    BY DEF IInv, Table
  <2>2. QED
    BY <2>1 DEF Flush
<1>3. /\ hash' \subseteq hash /\ list' \in Seq(Structs)
      /\ Range(list') = Range(list) \ (hash \ hash') /\ (Distinct(list) => Distinct(list'))
  BY <1>2, UnlinkIs
<1>4. refs' \in [Structs -> Int] /\ \A x \in Structs : refs'[x] = refs[x] + Gained(t, x)
  <2>1. refs \in [Structs -> Nat]
    BY DEF IInv, TypeOK
  <2>2. refs' \in [Structs -> Int] /\ \A x \in Structs : refs'[x] = refs[x] - IF x \in gone THEN 1 ELSE 0
    BY <1>2, <2>1 DEF Freed
  <2>3. ASSUME NEW x \in Structs
        PROVE  Gained(t, x) = -(IF x \in gone THEN 1 ELSE 0)
    <3>1. Holds(t, x)' = Holds(t, x) /\ Holds(t, x) \in Nat
      BY <1>2 DEF Holds
    <3>2. InHash(x)' = InHash(x) - (IF x \in gone THEN 1 ELSE 0) /\ InHash(x) \in Nat
      BY <1>2 DEF InHash
    <3>3. QED
      BY <3>1, <3>2 DEF Gained
  <2>4. QED
    BY <2>1, <2>2, <2>3
<1>5. ~ctx.tls13 => \A x \in dead' \ dead :
        x \notin hash' /\ \A u \in Threads : th[u].pc = "add" => th[u].session # x
  BY <1>2 DEF IInv, Fresh, FreshFor, At
<1>6. Threading'
  BY <1>2 DEF IInv, Threading
<1>7. /\ UNCHANGED <<ctx, sid, issued>> /\ limit' \in Nat /\ lock' \in Threads \cup {NULL}
      /\ store' \subseteq issued
      /\ resumed' \in [Ids -> 0..2] /\ dead' \subseteq Structs
  BY <1>2 DEF IInv, TypeOK
<1>8. /\ th'[t].pc = "removed" \/ (ctx.single_use /\ th'[t].pc \in {"claimed", "hello"})
            => th'[t].session \notin hash'
      /\ ReplayCheck /\ (th'[t].pc = "found" \/ (th'[t].pc = "remove" /\ th'[t].next = "claimed"))
            => th'[t].id \in issued /\ sid[th'[t].session] \in {th'[t].id, NULL}
      /\ Claims(t)' => Claims(t)
  BY <1>2 DEF IInv, Gone, Asked, Claims
<1>9. QED
  BY <1>2, <1>3, <1>4, <1>5, <1>6, <1>7, <1>8, ShrinkKeeps

\* A marked session loses its id: it is not in the cache, so that no entry does.
LEMMA ServerHelloKeeps ==
  ASSUME IInv, ReplayChecked, NEW t \in Threads, ServerHello(t)
  PROVE  IInv'
<1> DEFINE s == th[t].session
<1>1. /\ th[t].pc = "hello" /\ s \in Structs /\ th[t].other = NULL /\ NULL \notin Structs
      /\ th \in [Threads -> ThreadType]
  BY SessionAssumption DEF ServerHello, At, IInv, Threading, ThreadType
<1>2. /\ sid' = IF s \in dead THEN [sid EXCEPT ![s] = NULL] ELSE sid
      /\ th' = [th EXCEPT ![t].pc = "connected", ![t].id = NULL]
      /\ ctx' = ctx /\ limit' = limit /\ hash' = hash /\ list' = list /\ lock' = lock /\ refs' = refs
      /\ dead' = dead /\ issued' = issued /\ store' = store /\ resumed' = resumed
  BY DEF ServerHello
<1>3. s \in dead => s \notin hash
  BY <1>1 DEF ReplayChecked, IInv, Gone, NoDeadSessionCached
<1> HIDE DEF s
<1>4. /\ th' \in [Threads -> ThreadType]
      /\ \A u \in Threads : u # t => th'[u] = th[u]
      /\ th'[t].pc = "connected" /\ th'[t].session = th[t].session /\ th'[t].other = NULL
      /\ th'[t].next = th[t].next /\ th'[t].id = NULL
  <2>1. th[t] \in ThreadType
    BY <1>1
  <2>2. [th[t] EXCEPT !.pc = "connected", !.id = NULL] \in ThreadType
    BY <2>1 DEF ThreadType, Steps
  <2>3. th' = [th EXCEPT ![t] = [th[t] EXCEPT !.pc = "connected", !.id = NULL]]
    BY <1>2
  <2>4. QED
    BY <1>1, <2>1, <2>2, <2>3 DEF ThreadType
<1>5. /\ sid' \in [Structs -> Ids \cup {NULL}]
      /\ \A x \in hash : sid'[x] = sid[x]
      /\ \A x \in Structs : sid'[x] \in {sid[x], NULL}
      /\ \A u \in Threads : th[u].pc = "add" => sid'[th[u].session] = sid[th[u].session]
  <2>1. sid \in [Structs -> Ids \cup {NULL}] /\ hash \subseteq Structs
    BY DEF IInv, TypeOK
  <2>2. ASSUME NEW u \in Threads, th[u].pc = "add"
        PROVE  th[u].session \in Structs /\ th[u].session # s
    BY <1>1, <2>2 DEF s, IInv, Fresh, FreshFor, At, Threading, ThreadType
  <2>3. QED
    BY <1>1, <1>2, <1>3, <2>1, <2>2
<1>6. Counts'
  <2>1. \A x \in Structs : Gained(t, x) = 0
    BY <1>1, <1>2, <1>4 DEF Gained, InHash, Holds
  <2>2. Balanced(t)
    BY <1>2, <2>1 DEF Balanced, IInv, TypeOK
  <2>3. refs' \in [Structs -> Int] /\ UNCHANGED ctx
    BY <1>2 DEF IInv, TypeOK
  <2>4. QED
    BY <1>4, <2>2, <2>3, CountsKept
<1>7. Threading'
  BY <1>1, <1>2, <1>4, SessionAssumption DEF IInv, Threading
<1>8. TypeOK' /\ (ctx \in Settings)'
  BY <1>1, <1>2, <1>4, <1>5 DEF IInv, TypeOK, ThreadType
<1>9. Known' /\ Table' /\ Listed' /\ NoDeadSessionCached'
  BY <1>2, <1>5 DEF IInv, Known, Table, Listed, NoDeadSessionCached, TypeOK
<1>10. Fresh'
  <2>1. ASSUME NEW u \in Threads, th[u].pc = "add", u # t
        PROVE  FreshFor(u)'
    <3>1. FreshFor(u) /\ th[u].session \in Structs
      BY <2>1 DEF IInv, Fresh, At, Threading, ThreadType
    <3>2. \A v \in Threads \ {u} : th'[v].session # th[u].session /\ th'[v].other # th[u].session
      BY <1>1, <1>4, <3>1 DEF FreshFor
    <3>3. QED
      BY <1>2, <1>4, <1>5, <2>1, <3>1, <3>2 DEF FreshFor
  <2>2. QED
    BY <1>1, <1>4, <2>1 DEF Fresh, At
<1>11. Gone'
  BY <1>2, <1>4 DEF IInv, Gone
<1>12. OneStruct'
  BY <1>2, <1>5 DEF IInv, OneStruct, ReplayCheck, TypeOK
<1>13. Unspent'
  BY <1>2, <1>4, <1>5 DEF IInv, Unspent, ReplayCheck, At
<1>14. Asked'
  <2>1. \A u \in Threads : th[u].pc \in {"found", "remove"} => th[u].session \in Structs
    BY DEF IInv, Threading, ThreadType
  <2>2. QED
    BY <1>2, <1>4, <1>5, <2>1 DEF IInv, Asked, ReplayCheck
<1>15. OneClaim'
  <2>1. ASSUME ReplayCheck, NEW u \in Threads, u # t, Claims(u)
        PROVE  Claim(u)'
    <3>1. Claim(u) /\ th'[u] = th[u]
      BY <1>4, <2>1 DEF IInv, OneClaim
    <3>2. \A v \in Threads : th'[v].pc = "add" => sid'[th'[v].session] # th[u].id
      BY <1>4, <1>5, <3>1 DEF Claim, At
    <3>3. \A v \in Threads \ {u} : Claims(v)' => th'[v].id # th[u].id
      BY <1>4, <3>1 DEF Claim, Claims
    <3>4. \A x \in hash' : sid'[x] # th[u].id
      BY <1>2, <1>5, <3>1 DEF Claim
    <3>5. th[u].id \in issued' /\ resumed'[th[u].id] = 0
      BY <1>2, <3>1 DEF Claim
    <3>6. QED
      BY <3>1, <3>2, <3>3, <3>4, <3>5 DEF Claim, At
  <2>2. QED
    BY <1>2, <1>4, <2>1 DEF OneClaim, Claims, ReplayCheck
<1>16. QED
  BY <1>6, <1>7, <1>8, <1>9, <1>10, <1>11, <1>12, <1>13, <1>14, <1>15 DEF IInv

LEMMA LinkedFirst ==
  ASSUME NEW X, NEW q \in Seq(X), NEW s \in X
  PROVE  /\ <<s>> \o q \in Seq(X)
         /\ Range(<<s>> \o q) = Range(q) \cup {s}
         /\ Distinct(q) /\ s \notin Range(q) => Distinct(<<s>> \o q)
<1> DEFINE p == <<s>> \o q
<1>1. p \in Seq(X) /\ Len(p) = Len(q) + 1 /\ Len(q) \in Nat
  OBVIOUS
<1>2. p[1] = s /\ \A i \in 1..Len(q) : p[i + 1] = q[i]
  OBVIOUS
<1> HIDE DEF p
<1>3. \A i \in 1..Len(p) : i = 1 \/ (i - 1 \in 1..Len(q) /\ p[i] = q[i - 1])
  <2>1. SUFFICES ASSUME NEW i \in 1..Len(p), i # 1
                 PROVE  i - 1 \in 1..Len(q) /\ p[i] = q[i - 1]
    OBVIOUS
  <2>2. i - 1 \in 1..Len(q) /\ (i - 1) + 1 = i
    BY <1>1, <2>1
  <2>3. QED
    BY <1>2, <2>2
<1>4. Range(p) = Range(q) \cup {s}
  <2>1. \A y : y \in Range(p) <=> \E i \in 1..Len(p) : y = p[i]
    BY <1>1, InRange
  <2>2. \A y : y \in Range(q) <=> \E i \in 1..Len(q) : y = q[i]
    BY InRange
  <2>3. \A y : y \in Range(p) => y \in Range(q) \/ y = s
    BY <1>2, <1>3, <2>1, <2>2
  <2>4. \A y : y = s => y \in Range(p)
    BY <1>1, <1>2, <2>1
  <2>5. \A i \in 1..Len(q) : i + 1 \in 1..Len(p)
    BY <1>1
  <2>6. \A y : y \in Range(q) => y \in Range(p)
    BY <1>2, <2>1, <2>2, <2>5
  <2>7. QED
    BY <2>3, <2>4, <2>6
<1>5. ASSUME Distinct(q), s \notin Range(q)
      PROVE  Distinct(p)
  <2>1. \A i \in 1..Len(q) : q[i] # s
    BY <1>5, InRange
  <2>2. SUFFICES ASSUME NEW i \in 1..Len(p), NEW j \in 1..Len(p), p[i] = p[j]
                 PROVE  i = j
    BY DEF Distinct
  <2>3. CASE i = 1 \/ j = 1
    BY <1>2, <1>3, <2>1, <2>2, <2>3
  <2>4. CASE i # 1 /\ j # 1
    <3>1. i - 1 \in 1..Len(q) /\ j - 1 \in 1..Len(q) /\ q[i - 1] = q[j - 1]
      BY <1>3, <2>2, <2>4
    <3>2. i - 1 = j - 1
      BY <1>5, <3>1 DEF Distinct
    <3>3. QED
      BY <1>1, <3>2
  <2>5. QED
    BY <2>3, <2>4
<1>6. QED
  BY <1>1, <1>4, <1>5 DEF p

\* The struct goes to the head of the list, and into the table unless memory is short.
LEMMA LinkKeeps ==
  ASSUME IInv, NEW t \in Threads, NEW s \in Structs, th[t].pc = "add", th[t].session = s,
         LockFree, lock' = t, Goto(t, "trim"),
         UNCHANGED <<ctx, limit, sid, dead, issued, store, resumed>>,
         hash' \subseteq hash \cup {s}, \A x, y \in hash' : sid[x] = sid[y] => x = y,
         list' \in Seq(Structs), Range(list') \subseteq Range(list) \cup {s},
         ctx.memory = "enough" => Range(list') = hash' /\ Distinct(list'),
         refs' \in [Structs -> Int], Balanced(t)
  PROVE  IInv'
<1>1. /\ ctx' = ctx /\ limit' = limit /\ sid' = sid /\ dead' = dead /\ issued' = issued
      /\ store' = store /\ resumed' = resumed
  OBVIOUS
<1>2. /\ FreshFor(t) /\ th[t].other = NULL /\ th[t].next \in {"store", "found"}
      /\ ~ctx.external => th[t].next = "store"
      /\ th \in [Threads -> ThreadType] /\ NULL \notin Structs
  BY SessionAssumption DEF IInv, Fresh, At, Threading
<1>3. /\ th' \in [Threads -> ThreadType]
      /\ \A u \in Threads : u # t => th'[u] = th[u]
      /\ th'[t].pc = "trim" /\ th'[t].session = s /\ th'[t].other = NULL
      /\ th'[t].next = th[t].next /\ th'[t].id = th[t].id
  BY <1>2 DEF Goto, ThreadType, Steps
<1>4. Counts' /\ refs' \in [Structs -> Nat]
  BY <1>1, <1>3, CountsKept
<1>5. Threading'
  BY <1>1, <1>2, <1>3, SessionAssumption DEF IInv, Threading, LockFree
<1>6. TypeOK' /\ (ctx \in Settings)'
  BY <1>1, <1>3, <1>4 DEF IInv, TypeOK, ThreadType
<1>7. Known' /\ Listed' /\ NoDeadSessionCached'
  BY <1>1, <1>2 DEF IInv, Known, Listed, NoDeadSessionCached, FreshFor
<1>8. Table'
  <2>1. IsFiniteSet(hash \cup {s})
    BY FS_AddElement DEF IInv, Table
  <2>2. IsFiniteSet(hash')
    BY <2>1, FS_Subset
  <2>3. QED
    BY <1>1, <1>2, <2>2 DEF IInv, Table, FreshFor
<1>9. Fresh'
  <2>1. ASSUME NEW u \in Threads, th[u].pc = "add", u # t
        PROVE  FreshFor(u)'
    <3>1. FreshFor(u) /\ th[u].session \in Structs /\ th[u].session # s
      BY <1>2, <2>1 DEF IInv, Fresh, FreshFor, At, Threading, ThreadType
    <3>2. \A v \in Threads \ {u} : th'[v].session # th[u].session /\ th'[v].other # th[u].session
      BY <1>2, <1>3, <3>1 DEF FreshFor
    <3>3. QED
      BY <1>1, <1>3, <2>1, <3>1, <3>2 DEF FreshFor
  <2>2. QED
    BY <1>3, <2>1 DEF Fresh, At
<1>10. Gone'
  <2>1. \A u \in Threads : u # t => th[u].session # s
    BY <1>2 DEF FreshFor
  <2>2. QED
    BY <1>1, <1>3, <2>1 DEF IInv, Gone
<1>11. OneStruct'
  BY <1>1 DEF IInv, OneStruct, ReplayCheck
<1>12. Unspent'
  <2>1. ReplayCheck => resumed[sid[s]] = 0
    BY DEF IInv, Unspent, At
  <2>2. QED
    BY <1>1, <1>3, <2>1 DEF IInv, Unspent, ReplayCheck, At
<1>13. Asked'
  BY <1>1, <1>3 DEF IInv, Asked, ReplayCheck
<1>14. OneClaim'
  <2>1. ASSUME ReplayCheck, NEW u \in Threads, u # t, Claims(u)
        PROVE  Claim(u)'
    <3>1. Claim(u) /\ th'[u] = th[u]
      BY <1>3, <2>1 DEF IInv, OneClaim
    <3>2. \A v \in Threads : th'[v].pc = "add" => sid'[th'[v].session] # th[u].id
      BY <1>1, <1>3, <3>1 DEF Claim, At
    <3>3. \A v \in Threads \ {u} : Claims(v)' => th'[v].id # th[u].id
      BY <1>3, <3>1 DEF Claim, Claims
    <3>4. \A x \in hash' : sid'[x] # th[u].id
      BY <1>1, <3>1 DEF Claim, At
    <3>5. th[u].id \in issued' /\ resumed'[th[u].id] = 0
      BY <1>1, <3>1 DEF Claim
    <3>6. QED
      BY <3>1, <3>2, <3>3, <3>4, <3>5 DEF Claim, At
  <2>2. QED
    BY <1>1, <1>3, <2>1 DEF OneClaim, Claims, ReplayCheck
<1>15. QED
  BY <1>4, <1>5, <1>6, <1>7, <1>8, <1>9, <1>10, <1>11, <1>12, <1>13, <1>14 DEF IInv

LEMMA AddKeeps ==
  ASSUME IInv, NEW t \in Threads, AddLocked(t)
  PROVE  IInv'
<1> DEFINE s == th[t].session
           old == Retrieve(sid[s])
<1>1. /\ th[t].pc = "add" /\ s \in Structs /\ FreshFor(t) /\ th[t].other = NULL
      /\ LockFree /\ UNCHANGED <<ctx, limit, sid, dead, issued, store, resumed>> /\ NULL \notin Structs
  BY SessionAssumption DEF AddLocked, At, IInv, Threading, ThreadType, Fresh
<1>2. s \notin old /\ old \subseteq hash /\ hash \subseteq Structs /\ s \notin hash /\ s \notin Range(list)
  BY <1>1 DEF FreshFor, Retrieve, IInv, TypeOK
<1>3. /\ list \in Seq(Structs) /\ refs \in [Structs -> Nat] /\ th \in [Threads -> ThreadType]
      /\ ctx.memory = "enough" => Range(list) = hash /\ Distinct(list)
      /\ \A x, y \in hash : sid[x] = sid[y] => x = y
      /\ \A x \in hash \ old : sid[x] # sid[s]
  BY <1>1 DEF IInv, TypeOK, Threading, Listed, Table, Retrieve, FreshFor
<1> HIDE DEF old
<1>4. ASSUME Goto(t, "trim")
      PROVE  \A x \in Structs : /\ Holds(t, x) = IF x = s THEN 2 ELSE 0
                                /\ Holds(t, x)' = IF x = s THEN 1 ELSE 0
  <2>1. th'[t].pc = "trim" /\ th'[t].session = s /\ th'[t].other = NULL
    BY <1>1, <1>3, <1>4 DEF Goto, ThreadType
  <2>2. QED
    BY <1>1, <2>1 DEF Holds
<1>5. CASE /\ hash' = (hash \ old) \cup {s}
           /\ list' = <<s>> \o Without(list, old \cup {s})
           /\ refs' = Freed(old)
           /\ lock' = t
           /\ Goto(t, "trim")
  <2>1. /\ Without(list, old \cup {s}) \in Seq(Structs)
        /\ Range(Without(list, old \cup {s})) = Range(list) \ (old \cup {s})
        /\ Distinct(list) => Distinct(Without(list, old \cup {s}))
    BY <1>3, WithoutIs
  <2>2. /\ list' \in Seq(Structs) /\ Range(list') = (Range(list) \ old) \cup {s}
        /\ Distinct(list) => Distinct(list')
    <3> DEFINE q == Without(list, old \cup {s})
    <3>1. q \in Seq(Structs) /\ s \in Structs /\ s \notin Range(q)
      BY <1>1, <2>1
    <3> HIDE DEF q, s
    <3>2. /\ <<s>> \o q \in Seq(Structs) /\ Range(<<s>> \o q) = Range(q) \cup {s}
          /\ Distinct(q) => Distinct(<<s>> \o q)
      BY <3>1, LinkedFirst
    <3>3. list' = <<s>> \o q /\ Range(q) = Range(list) \ (old \cup {s}) /\ (Distinct(list) => Distinct(q))
      BY <1>5, <2>1 DEF q
    <3>4. QED
      BY <1>2, <3>2, <3>3
  <2>3. refs' \in [Structs -> Int] /\ \A x \in Structs : refs'[x] = refs[x] - IF x \in old THEN 1 ELSE 0
    BY <1>3, <1>5 DEF Freed
  <2>4. \A x \in Structs : Gained(t, x) = -(IF x \in old THEN 1 ELSE 0)
    <3>1. ASSUME NEW x \in Structs
          PROVE  /\ InHash(x) = IF x \in hash THEN 1 ELSE 0
                 /\ InHash(x)' = IF (x \in hash /\ x \notin old) \/ x = s THEN 1 ELSE 0
      BY <1>5 DEF InHash
    <3>2. QED
      BY <1>2, <1>4, <1>5, <3>1 DEF Gained
  <2>5. Balanced(t)
    <3>1. \A x \in Structs : refs'[x] = refs[x] + Gained(t, x)
      BY <1>3, <2>3, <2>4
    <3>2. \A x : x \in Range(list') /\ x \notin hash' => x \in Range(list) /\ x \notin hash
      BY <1>5, <2>2
    <3>3. QED
      BY <2>3, <3>1, <3>2 DEF Balanced
  <2>6. /\ hash' \subseteq hash \cup {s}
        /\ \A x, y \in hash' : sid[x] = sid[y] => x = y
        /\ Range(list') \subseteq Range(list) \cup {s}
        /\ ctx.memory = "enough" => Range(list') = hash' /\ Distinct(list')
    BY <1>2, <1>3, <1>5, <2>2
  <2>7. QED
    BY <1>1, <1>5, <2>2, <2>3, <2>5, <2>6, LinkKeeps
<1>6. CASE /\ InsertFails
           /\ list' = <<s>> \o Without(list, {s})
           /\ lock' = t
           /\ Goto(t, "trim")
           /\ UNCHANGED <<hash, refs>>
  <2>1. /\ Without(list, {s}) \in Seq(Structs)
        /\ Range(Without(list, {s})) = Range(list) \ {s}
    BY <1>3, WithoutIs
  <2>2. list' \in Seq(Structs) /\ Range(list') = Range(list) \cup {s} /\ ctx.memory # "enough"
    <3> DEFINE q == Without(list, {s})
    <3>1. q \in Seq(Structs) /\ s \in Structs
      BY <1>1, <2>1
    <3> HIDE DEF q, s
    <3>2. <<s>> \o q \in Seq(Structs) /\ Range(<<s>> \o q) = Range(q) \cup {s}
      BY <3>1, LinkedFirst
    <3>3. list' = <<s>> \o q /\ Range(q) = Range(list) \ {s}
      BY <1>6, <2>1 DEF q
    <3>4. QED
      BY <1>2, <1>6, <3>2, <3>3 DEF InsertFails
  <2>3. \A x \in Structs : Gained(t, x) = -(IF x = s THEN 1 ELSE 0)
    <3>1. \A x \in Structs : InHash(x)' = InHash(x) /\ InHash(x) \in Nat
      BY <1>6 DEF InHash
    <3>2. QED
      BY <1>4, <1>6, <3>1 DEF Gained
  <2>4. Balanced(t)
    <3>1. refs' = refs /\ hash' = hash
      BY <1>6
    <3>2. \A x \in Structs : refs[x] >= refs[x] + Gained(t, x) /\ (x = s => refs[x] > refs[x] + Gained(t, x))
      BY <1>3, <2>3
    <3>3. \A x : x \in Range(list') => x \in Range(list) \/ x = s
      BY <2>2
    <3>4. QED
      BY <2>2, <3>1, <3>2, <3>3 DEF Balanced
  <2>5. /\ hash' \subseteq hash \cup {s} /\ \A x, y \in hash' : sid[x] = sid[y] => x = y
        /\ Range(list') \subseteq Range(list) \cup {s}
        /\ ctx.memory = "enough" => Range(list') = hash' /\ Distinct(list')
        /\ refs' \in [Structs -> Int]
    <3>1. refs' = refs /\ hash' = hash
      BY <1>6
    <3>2. refs' \in [Structs -> Int]
      BY <1>3, <3>1
    <3>3. Range(list') \subseteq Range(list) \cup {s}
      BY <2>2
    <3>4. QED
      BY <1>3, <2>2, <3>1, <3>2, <3>3
  <2>6. QED
    BY <1>1, <1>6, <2>2, <2>4, <2>5, LinkKeeps
<1>7. CASE refs' = Freed({s}) /\ Goto(t, th[t].next) /\ UNCHANGED <<hash, list, lock>>
  BY <1>2, <1>7, AddFailsKeeps DEF old
<1>8. QED
  BY <1>5, <1>6, <1>7 DEF AddLocked, old

----------------------------------------------------------------------------
(* The theorems.                                                           *)

LEMMA InitEstablishes ==
  ASSUME Init
  PROVE  IInv
<1>1. /\ ctx \in Settings /\ ctx \in SettingsType /\ limit \in Nat
      /\ hash = {} /\ list = <<>> /\ lock = NULL /\ refs = [s \in Structs |-> 0]
      /\ sid = [s \in Structs |-> NULL] /\ dead = {} /\ issued = {} /\ store = {}
      /\ resumed = [i \in Ids |-> 0] /\ th = [t \in Threads |-> Idle]
      /\ NULL \notin Threads /\ NULL \notin Structs
  BY SessionAssumption DEF Init
<1>2. Threading
  <2>1. Idle \in ThreadType
    BY DEF Idle, ThreadType, Steps
  <2>2. QED
    BY <1>1, <2>1 DEF Threading, Idle
<1>3. \A t \in Threads : th[t].pc = "idle" /\ th[t].session = NULL /\ th[t].other = NULL
  BY <1>1 DEF Idle
<1>4. Range(list) = {} /\ list \in Seq(Structs) /\ Distinct(list)
  <2>1. list \in Seq(Structs) /\ Len(list) = 0
    BY <1>1
  <2>2. \A y : y \notin Range(list)
    BY <1>1 DEF Range
  <2>3. QED
    BY <2>1, <2>2 DEF Distinct
<1>5. TypeOK
  BY <1>1, <1>3, <1>4 DEF TypeOK
<1>6. Counts
  <2>1. ASSUME NEW s \in Structs
        PROVE  Owed(s) = 0
    <3>1. Users(s) = {} /\ Adders(s) = {} /\ Removers(s) = {}
      BY <1>1, <1>3 DEF Users, Adders, Removers
    <3>2. QED
      BY <1>1, <3>1, FS_EmptySet DEF Owed
  <2>2. QED
    BY <1>1, <1>4, <2>1 DEF Counts
<1>7. Table /\ Listed /\ Known /\ NoDeadSessionCached
  BY <1>1, <1>4, FS_EmptySet DEF Table, Listed, Known, NoDeadSessionCached
<1>8. Fresh /\ Gone
  BY <1>3 DEF Fresh, Gone, At
<1>9. OneStruct /\ Unspent /\ Asked /\ OneClaim
  BY <1>1, <1>3 DEF OneStruct, Unspent, Asked, OneClaim, Claims, At
<1>10. QED
  BY <1>1, <1>2, <1>5, <1>6, <1>7, <1>8, <1>9 DEF IInv

LEMMA NextKeeps ==
  ASSUME IInv, ReplayChecked, [Next]_vars
  PROVE  IInv'
<1>1. ASSUME UNCHANGED vars
      PROVE  IInv'
  <2>1. Counts' /\ Threading' /\ Known' /\ Table' /\ Listed' /\ Fresh' /\ Gone'
    BY <1>1 DEF vars, IInv, Counts, Owed, Users, Adders, Removers, At, Threading, Known, Table, Listed,
                Fresh, FreshFor, Gone
  <2>2. NoDeadSessionCached' /\ OneStruct' /\ Unspent' /\ Asked' /\ OneClaim'
    BY <1>1 DEF vars, IInv, NoDeadSessionCached, OneStruct, Unspent, Asked, OneClaim, Claim, Claims,
                ReplayCheck, At
  <2>3. TypeOK' /\ (ctx \in Settings)'
    BY <1>1 DEF vars, IInv, TypeOK
  <2>4. QED
    BY <2>1, <2>2, <2>3 DEF IInv
<1>2. ASSUME NEW t \in Threads, Step(t)
      PROVE  IInv'
  <2>1. CASE AddLocked(t)
    BY <2>1, AddKeeps
  <2>2. CASE Trim(t) \/ AddDone(t) \/ StoreExternal(t)
    BY <2>2, TrimKeeps, AddDoneKeeps, StoreExternalKeeps
  <2>3. CASE Fetch(t)
    BY <2>3, FetchKeeps, FetchMissKeeps
  <2>4. CASE Resume(t) \/ ResumeClaimed(t) \/ ServerHello(t)
    BY <2>4, ResumeKeeps, ResumeClaimedKeeps, ServerHelloKeeps
  <2>5. CASE RemoveLocked(t)
    BY <2>5, RemoveKeeps, RemoveNothingKeeps
  <2>6. CASE RemoveDone(t) \/ Close(t)
    BY <2>6, RemoveDoneKeeps, CloseKeeps
  <2>7. QED
    BY <1>2, <2>1, <2>2, <2>3, <2>4, <2>5, <2>6 DEF Step
<1>3. ASSUME NEW t \in Threads, NewSession(t) \/ NewTicket(t) \/ Fail(t) \/ \E i \in Ids : Lookup(t, i)
      PROVE  IInv'
  BY <1>3, NewSessionKeeps, NewTicketKeeps, FailKeeps, LookupKeeps
<1>4. ASSUME NEW gone \in SUBSET hash, Flush(gone)
      PROVE  IInv'
  BY <1>4, FlushKeeps
<1>5. ASSUME NEW n \in Limits, SetLimit(n)
      PROVE  IInv'
  BY <1>5, SetLimitKeeps
<1>6. QED
  BY <1>1, <1>2, <1>3, <1>4, <1>5 DEF Next

LEMMA Inductive ==
  ASSUME ReplayChecked
  PROVE  Spec => []IInv
<1>1. Init => IInv
  BY InitEstablishes
<1>2. IInv /\ [Next]_vars => IInv'
  BY NextKeeps
<1>3. QED
  BY <1>1, <1>2, PTL DEF Spec

\* However additions, lookups, removals, trims and flushes of any number of threads
\* interleave, the cache, the counts and the threads' pointers keep their types; no
\* count drops below zero (REF_ASSERT_ISNT of SSL_SESSION_free).
THEOREM CacheTypes ==
  ASSUME ReplayChecked
  PROVE  Spec => []TypeOK
<1>1. IInv => TypeOK
  BY DEF IInv
<1>2. QED
  BY <1>1, Inductive, PTL

\* SSL_SESSION_up_ref and SSL_SESSION_free, called outside the lock, keep exact counts:
\* no struct is freed under a pointer, nothing on the list is freed memory, and nothing
\* leaks while memory lasts.
THEOREM ReferencesExact ==
  ASSUME ReplayChecked
  PROVE  Spec => []RefsExact
<1>1. ASSUME IInv
      PROVE  RefsExact
  <2>1. PICK t \in Threads : TRUE
    BY SessionAssumption
  <2>2. ASSUME NEW s \in Structs, s \in Range(list)
        PROVE  refs[s] > 0
    <3>1. Owed(s) \in Nat /\ Owed(s) >= InHash(s) + Holds(t, s)
      BY OwedFlat
    <3>2. InHash(s) = (IF s \in hash THEN 1 ELSE 0) /\ Holds(t, s) \in Nat /\ refs[s] \in Nat
      BY <1>1 DEF InHash, Holds, IInv, TypeOK
    <3>3. refs[s] >= Owed(s) /\ (s \notin hash => refs[s] > Owed(s))
      BY <1>1, <2>2 DEF IInv, Counts
    <3>4. QED
      BY <3>1, <3>2, <3>3
  <2>3. QED
    BY <1>1, <2>2 DEF IInv, Counts, RefsExact
<1>2. QED
  BY <1>1, Inductive, PTL

\* SSL_CTX_add_session, remove_session_lock, the trimming loop and
\* SSL_CTX_flush_sessions keep the hash table and the list in step, with one entry for
\* each id, whichever of two structs of one id they are given.
THEOREM TableMatchesList ==
  ASSUME ReplayChecked
  PROVE  Spec => []CacheConsistent
<1>1. ASSUME IInv
      PROVE  CacheConsistent
  <2>1. ASSUME ctx.memory = "enough"
        PROVE  ListIsHash
    <3>1. Range(list) = hash /\ Distinct(list) /\ list \in Seq(Structs)
      BY <1>1, <2>1 DEF IInv, Listed, TypeOK
    <3>2. QED
      BY <3>1, DistinctLength DEF ListIsHash
  <2>2. QED
    BY <1>1, <2>1 DEF IInv, Table, CacheConsistent
<1>2. QED
  BY <1>1, Inductive, PTL

\* A session that a removal, a trim or a flush has marked as not resumable is in the
\* cache no more and no thread puts it back.
THEOREM DeadStaysOut ==
  ASSUME ReplayChecked
  PROVE  Spec => []NoDeadSessionCached
<1>1. IInv => NoDeadSessionCached
  BY DEF IInv
<1>2. QED
  BY <1>1, Inductive, PTL

\* The replay check of tls_parse_ctos_psk: of any number of connections that present one
\* session to the server at the same time, one resumes it.
THEOREM ResumedOnce ==
  ASSUME ReplayChecked
  PROVE  Spec => []SingleUse
<1>1. IInv => SingleUse
  BY DEF IInv, Unspent, ReplayCheck, SingleUse
<1>2. QED
  BY <1>1, Inductive, PTL

\* When SSL_CTX_add_session unlocks, the cache is within its limit: the trimming loop
\* ends there or with an empty list, for its tail is always an entry of the table.
THEOREM LimitHolds ==
  ASSUME ReplayChecked
  PROVE  Spec => LimitKept
<1>1. ASSUME IInv, [Next]_vars, lock # NULL, lock' = NULL, ctx.memory = "enough", limit > 0
      PROVE  Cardinality(hash') <= limit
  <2>1. /\ NULL \notin Threads /\ limit \in Nat /\ IsFiniteSet(hash) /\ list \in Seq(Structs)
        /\ Range(list) = hash /\ \A s \in hash : sid[s] # NULL
    BY <1>1, SessionAssumption DEF IInv, TypeOK, Table, Listed
  <2>2. PICK t \in Threads : Trim(t) \/ AddDone(t)
    <3>1. ~UNCHANGED vars /\ (\A gone \in SUBSET hash : ~Flush(gone)) /\ (\A n \in Limits : ~SetLimit(n))
      BY <1>1 DEF vars, Flush, SetLimit
    <3>2. ASSUME NEW t \in Threads
          PROVE  ~(NewSession(t) \/ NewTicket(t) \/ Fail(t) \/ \E i \in Ids : Lookup(t, i))
      BY <1>1 DEF NewSession, NewTicket, Fail, Lookup
    <3>3. ASSUME NEW t \in Threads
          PROVE  ~(StoreExternal(t) \/ Fetch(t) \/ Resume(t) \/ ResumeClaimed(t) \/ ServerHello(t)
                   \/ RemoveLocked(t) \/ RemoveDone(t) \/ Close(t))
      BY <1>1 DEF StoreExternal, Fetch, Resume, ResumeClaimed, ServerHello, RemoveLocked, RemoveDone, Close
    <3>4. ASSUME NEW t \in Threads
          PROVE  ~AddLocked(t)
      BY <1>1, <2>1 DEF AddLocked
    <3>5. QED
      BY <1>1, <3>1, <3>2, <3>3, <3>4 DEF Next, Step
  <2>3. Cardinality(hash) \in Nat
    BY <2>1, FS_CardinalityType
  <2>4. CASE AddDone(t)
    <3>1. hash' = hash /\ (~TooLarge \/ list = <<>>)
      BY <2>4 DEF AddDone
    <3>2. list = <<>> => hash = {}
      BY <2>1 DEF Range
    <3>3. QED
      BY <1>1, <2>1, <2>3, <3>1, <3>2, FS_EmptySet DEF TooLarge
  <2>5. CASE Trim(t)
    <3>1. list # <<>> /\ Retrieve(sid[Last(list)]) = {}
      BY <1>1, <2>5 DEF Trim
    <3>2. Last(list) \in Range(list)
      <4>1. Len(list) \in Nat /\ Len(list) # 0
        BY <2>1, <3>1
      <4>2. Last(list) = list[Len(list)] /\ Len(list) \in 1..Len(list)
        BY <4>1 DEF Last
      <4>3. QED
        BY <2>1, <4>2, InRange
    <3>3. QED
      BY <2>1, <3>1, <3>2 DEF Retrieve
  <2>6. QED
    BY <2>2, <2>4, <2>5
<1>2. IInv /\ [Next]_vars =>
        [lock # NULL /\ lock' = NULL /\ ctx.memory = "enough" /\ limit > 0 => Cardinality(hash') <= limit]_vars
  BY <1>1
<1>3. QED
  BY <1>2, Inductive, PTL DEF Spec, LimitKept
=============================================================================
