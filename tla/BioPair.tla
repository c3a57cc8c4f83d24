------------------------------ MODULE BioPair -------------------------------
(***************************************************************************)
(* BIO pairs (crypto/bio/bss_bio.c): memory BIOs joined two by two, through *)
(* which an application hands a TLS endpoint's bytes to the network itself. *)
(* The bytes a BIO has written and its peer has not read stay in a ring     *)
(* buffer of the writing BIO.  The fields of struct bio_bio_st are one      *)
(* variable each, indexed by BIO; the struct of a BIO holds what that BIO   *)
(* writes, so reading works on the peer's.  Calls on one pair do not        *)
(* overlap in time (the code takes no lock), so each call is one action.    *)
(***************************************************************************)
EXTENDS Integers, Sequences

CONSTANTS
    BIOs,           \* the BIOs a program may hold
    Data,           \* values of the bytes written
    Junk,           \* the value of memory nobody has written
    NULL,           \* no peer, no pointer
    Sizes,          \* the buffer sizes a program asks for
    DefaultSize,    \* the size bio_new sets (17 * 1024)
    MaxCall         \* bound: the most bytes one call asks for

ASSUME ConstantsAssumption ==
    /\ NULL \notin BIOs
    /\ Sizes \subseteq Nat \ {0}
    /\ DefaultSize \in Nat \ {0}
    /\ MaxCall \in Nat

VARIABLES
    live,           \* the BIOs that exist
    peer, closed, len, offset, size, request,   \* the fields of bio_bio_st
    allocated,      \* the BIOs whose buf is not NULL
    buf,            \* the contents of the buffers
    lent,           \* lent[b]: the indices bio_nwrite0 last gave b's caller
    ret             \* what the last call returned

vars == <<live, peer, closed, len, offset, size, request, allocated, buf, lent, ret>>

Bytes == Data \cup {Junk}

Smaller(m, n) == IF m <= n THEN m ELSE n

\* An index of the ring that may have run past its end (bss_bio.c:316, :378).
Wrapped(b, i) == IF i >= size[b] THEN i - size[b] ELSE i

\* The first byte b can write to.
WriteOffset(b) == Wrapped(b, offset[b] + len[b])

\* How far from `off` a copy of `rest` bytes gets before the end of the buffer.
Chunk(b, off, rest) == IF off + rest <= size[b] THEN rest ELSE size[b] - off

\* A call as its caller sees it: its name and the number of bytes asked for; the
\* non-copying calls without a number have one byte in mind (bss_bio.c:226).
Call(name, ask) == [name |-> name, ask |-> ask]
NREAD0 == Call("nread0", 1)
NWRITE0 == Call("nwrite0", 1)
CONTROL == Call("control", 0)

\* The result of a call and the retry flag of its BIO.
Return(b, call, n, data) ==
    ret' = [bio |-> b, call |-> call, n |-> n, data |-> data, retry |-> FALSE]
Retry(b, call) ==
    ret' = [bio |-> b, call |-> call, n |-> -1, data |-> <<>>, retry |-> TRUE]

----------------------------------------------------------------------------
(* Reading.                                                                *)

\* Mutation: the index is reset one byte too early.
OffsetAfterReset(b, l, off, chunk) ==
    IF l - chunk <= 1 \/ off + chunk = size[b] THEN 0 ELSE off + chunk

\* The read index when `chunk` of the `l` bytes in b's ring are taken out: an
\* emptied buffer starts again at index 0.
OffsetAfter(b, l, off, chunk) ==
    IF l - chunk = 0 THEN 0
    ELSE IF off + chunk = size[b] THEN 0 ELSE off + chunk

\* The copying loop of bio_read over w's ring: one iteration, or two when the
\* bytes wrap around the end.
ReadOffset(w, n) ==
    LET c1 == Chunk(w, offset[w], n)
        o1 == OffsetAfter(w, len[w], offset[w], c1)
        c2 == Chunk(w, o1, n - c1)
    IN  IF n - c1 = 0 THEN o1 ELSE OffsetAfter(w, len[w] - c1, o1, c2)

ReadBytes(w, n) ==
    LET c1 == Chunk(w, offset[w], n)
        o1 == OffsetAfter(w, len[w], offset[w], c1)
    IN  [i \in 1..n |-> IF i <= c1 THEN buf[w][offset[w] + i - 1] ELSE buf[w][o1 + i - c1 - 1]]

\* Mutation: end of file as soon as the writer has closed, with bytes left.
ReadEmptyOnClose(b, w, n, call) ==
    /\ len[w] = 0 \/ closed[w]
    /\ IF closed[w]
       THEN request' = [request EXCEPT ![w] = 0] /\ Return(b, call, 0, <<>>)
       ELSE request' = [request EXCEPT ![w] = Smaller(n, size[w])] /\ Retry(b, call)
    /\ UNCHANGED <<live, peer, closed, len, offset, size, allocated, buf, lent>>

\* Nothing to read: end of file, or a retry that tells the writer how much
\* the reader would like, never more than the buffer holds.
ReadEmpty(b, w, n, call) ==
    /\ len[w] = 0
    /\ IF closed[w]
       THEN request' = [request EXCEPT ![w] = 0] /\ Return(b, call, 0, <<>>)
       ELSE request' = [request EXCEPT ![w] = Smaller(n, size[w])] /\ Retry(b, call)
    /\ UNCHANGED <<live, peer, closed, len, offset, size, allocated, buf, lent>>

\* A call on a BIO that is not initialised touches nothing.
Unpaired(b, call) ==
    /\ peer[b] = NULL
    /\ Return(b, call, 0, <<>>)
    /\ UNCHANGED <<live, peer, closed, len, offset, size, request, allocated, buf, lent>>

bio_read(b, n) ==
    LET w == peer[b]
        call == Call("read", n)
    IN  \/ Unpaired(b, call)
        \/ /\ w # NULL
           /\ n = 0
           /\ request' = [request EXCEPT ![w] = 0]
           /\ Return(b, call, 0, <<>>)
           /\ UNCHANGED <<live, peer, closed, len, offset, size, allocated, buf, lent>>
        \/ w # NULL /\ n > 0 /\ ReadEmpty(b, w, n, call)
        \/ /\ w # NULL
           /\ n > 0
           /\ len[w] > 0
           /\ LET k == Smaller(n, len[w])
              IN  /\ len' = [len EXCEPT ![w] = len[w] - k]
                  /\ offset' = [offset EXCEPT ![w] = ReadOffset(w, k)]
                  /\ Return(b, call, k, ReadBytes(w, k))
           /\ request' = [request EXCEPT ![w] = 0]
           /\ UNCHANGED <<live, peer, closed, size, allocated, buf, lent>>

\* The bytes in front of the end of the buffer: what the non-copying calls show.
Contiguous(w) ==
    IF size[w] < offset[w] + len[w] THEN size[w] - offset[w] ELSE len[w]

bio_nread0(b) ==
    LET w == peer[b]
    IN  \/ Unpaired(b, NREAD0)
        \/ w # NULL /\ ReadEmpty(b, w, 1, NREAD0)
        \/ /\ w # NULL
           /\ len[w] > 0
           /\ request' = [request EXCEPT ![w] = 0]
           /\ Return(b, NREAD0, Contiguous(w), [i \in 1..Contiguous(w) |-> buf[w][offset[w] + i - 1]])
           /\ UNCHANGED <<live, peer, closed, len, offset, size, allocated, buf, lent>>

bio_nread(b, n) ==
    LET w == peer[b]
        call == Call("nread", n)
    IN  \/ Unpaired(b, call)
        \/ w # NULL /\ ReadEmpty(b, w, 1, call)
        \/ /\ w # NULL
           /\ len[w] > 0
           /\ LET k == Smaller(n, Contiguous(w))
              IN  /\ IF k = 0
                     THEN UNCHANGED <<len, offset>>
                     ELSE /\ len' = [len EXCEPT ![w] = len[w] - k]
                          /\ offset' = [offset EXCEPT ![w] = OffsetAfter(w, len[w], offset[w], k)]
                  /\ Return(b, call, k, [i \in 1..k |-> buf[w][offset[w] + i - 1]])
           /\ request' = [request EXCEPT ![w] = 0]
           /\ UNCHANGED <<live, peer, closed, size, allocated, buf, lent>>

----------------------------------------------------------------------------
(* Writing.                                                                *)

\* Mutation: the part of a write behind the wrap is forgotten.
WrittenOneChunk(b, d) ==
    LET at == WriteOffset(b)
        c1 == Chunk(b, at, Len(d))
    IN  [i \in 0..(size[b] - 1) |-> IF i >= at /\ i < at + c1 THEN d[i - at + 1] ELSE buf[b][i]]

\* b's ring after `d` was copied in behind what it holds: one chunk up to the
\* end of the buffer, the rest from its beginning.
Written(b, d) ==
    LET at == WriteOffset(b)
        c1 == Chunk(b, at, Len(d))
    IN  [i \in 0..(size[b] - 1) |->
            IF i >= at /\ i < at + c1 THEN d[i - at + 1]
            ELSE IF i < Len(d) - c1 THEN d[i + c1 + 1]
            ELSE buf[b][i]]

\* Closed or full: -1, with a request to retry only in the second case.
WriteRefused(b, call) ==
    /\ \/ closed[b] /\ Return(b, call, -1, <<>>)
       \/ ~closed[b] /\ len[b] = size[b] /\ Retry(b, call)
    /\ request' = [request EXCEPT ![b] = 0]
    /\ UNCHANGED <<live, peer, closed, len, offset, size, allocated, buf, lent>>

bio_write(b, d) ==
    LET call == Call("write", Len(d))
    IN  \/ /\ peer[b] = NULL \/ d = <<>>
           /\ Return(b, call, 0, <<>>)
           /\ UNCHANGED <<live, peer, closed, len, offset, size, request, allocated, buf, lent>>
        \/ peer[b] # NULL /\ d # <<>> /\ WriteRefused(b, call)
        \/ /\ peer[b] # NULL
           /\ d # <<>>
           /\ ~closed[b] /\ len[b] # size[b]
           /\ LET k == Smaller(Len(d), size[b] - len[b])
                  accepted == [i \in 1..k |-> d[i]]
              IN  /\ buf' = [buf EXCEPT ![b] = Written(b, accepted)]
                  /\ len' = [len EXCEPT ![b] = len[b] + k]
                  /\ Return(b, call, k, accepted)
           /\ request' = [request EXCEPT ![b] = 0]
           /\ lent' = [lent EXCEPT ![b] = {}]
           /\ UNCHANGED <<live, peer, closed, offset, size, allocated>>

\* The free bytes in front of the end of the buffer.
ContiguousSpace(b) ==
    IF WriteOffset(b) + (size[b] - len[b]) > size[b]
    THEN size[b] - WriteOffset(b) ELSE size[b] - len[b]

\* Where they are: the place of the next byte written and those behind it.
Space(b) == WriteOffset(b)..(WriteOffset(b) + ContiguousSpace(b) - 1)

bio_nwrite0(b) ==
    \/ Unpaired(b, NWRITE0)
    \/ peer[b] # NULL /\ WriteRefused(b, NWRITE0)
    \/ /\ peer[b] # NULL
       /\ ~closed[b] /\ len[b] # size[b]
       /\ request' = [request EXCEPT ![b] = 0]
       /\ lent' = [lent EXCEPT ![b] = Space(b)]
       /\ Return(b, NWRITE0, ContiguousSpace(b), <<>>)
       /\ UNCHANGED <<live, peer, closed, len, offset, size, allocated, buf>>

\* The caller stores through the pointer it was given (application code).
Fill(b, i, v) ==
    /\ i \in lent[b]
    /\ buf' = [buf EXCEPT ![b][i] = v]
    /\ UNCHANGED <<live, peer, closed, len, offset, size, request, allocated, lent, ret>>

bio_nwrite(b, n) ==
    LET call == Call("nwrite", n)
    IN  \/ Unpaired(b, call)
        \/ peer[b] # NULL /\ WriteRefused(b, call)
        \/ /\ peer[b] # NULL
           /\ ~closed[b] /\ len[b] # size[b]
           /\ LET k == Smaller(n, ContiguousSpace(b))
              IN  /\ len' = [len EXCEPT ![b] = len[b] + k]
                  /\ Return(b, call, k, [i \in 1..k |-> buf[b][WriteOffset(b) + i - 1]])
           /\ request' = [request EXCEPT ![b] = 0]
           /\ lent' = [lent EXCEPT ![b] = {}]
           /\ UNCHANGED <<live, peer, closed, offset, size, allocated, buf>>

----------------------------------------------------------------------------
(* Control operations, creation and destruction.                           *)

\* Mutation: shutting down one side shuts down the other.
shutdown_both(b) ==
    /\ closed' = [c \in BIOs |-> closed[c] \/ c = b \/ c = peer[b]]
    /\ Return(b, CONTROL, 1, <<>>)
    /\ UNCHANGED <<live, peer, len, offset, size, request, allocated, buf, lent>>

\* BIO_C_SHUTDOWN_WR
shutdown_wr(b) ==
    /\ closed' = [closed EXCEPT ![b] = TRUE]
    /\ Return(b, CONTROL, 1, <<>>)
    /\ UNCHANGED <<live, peer, len, offset, size, request, allocated, buf, lent>>

\* BIO_C_RESET_READ_REQUEST
reset_read_request(b) ==
    /\ request' = [request EXCEPT ![b] = 0]
    /\ Return(b, CONTROL, 1, <<>>)
    /\ UNCHANGED <<live, peer, closed, len, offset, size, allocated, buf, lent>>

\* BIO_CTRL_RESET
ctrl_reset(b) ==
    /\ len' = IF b \in allocated THEN [len EXCEPT ![b] = 0] ELSE len
    /\ offset' = IF b \in allocated THEN [offset EXCEPT ![b] = 0] ELSE offset
    /\ lent' = [lent EXCEPT ![b] = {}]
    /\ Return(b, CONTROL, 0, <<>>)
    /\ UNCHANGED <<live, peer, closed, size, request, allocated, buf>>

\* Mutation: the old buffer stays when the size changes.
set_write_buf_size_keeps_buf(b, n) ==
    /\ peer[b] = NULL
    /\ n # 0
    /\ size' = [size EXCEPT ![b] = n]
    /\ Return(b, CONTROL, 1, <<>>)
    /\ UNCHANGED <<live, peer, closed, len, offset, request, allocated, buf, lent>>

\* BIO_C_SET_WRITE_BUF_SIZE: refused while paired and for 0; another size drops
\* the buffer.
set_write_buf_size(b, n) ==
    \/ /\ peer[b] # NULL \/ n = 0
       /\ Return(b, CONTROL, 0, <<>>)
       /\ UNCHANGED <<live, peer, closed, len, offset, size, request, allocated, buf, lent>>
    \/ /\ peer[b] = NULL
       /\ n # 0
       /\ size' = [size EXCEPT ![b] = n]
       /\ allocated' = IF size[b] # n THEN allocated \ {b} ELSE allocated
       /\ buf' = IF size[b] # n THEN [buf EXCEPT ![b] = [i \in 0..(n - 1) |-> Junk]] ELSE buf
       /\ Return(b, CONTROL, 1, <<>>)
       /\ UNCHANGED <<live, peer, closed, len, offset, request, lent>>

\* BIO_CTRL_DUP: the size for the copy, which BIO_dup_chain has just made.
ctrl_dup(b, other) ==
    /\ other \notin allocated
    /\ size' = [size EXCEPT ![other] = size[b]]
    /\ buf' = [buf EXCEPT ![other] = [i \in 0..(size[b] - 1) |-> Junk]]
    /\ Return(b, CONTROL, 1, <<>>)
    /\ UNCHANGED <<live, peer, closed, len, offset, request, allocated, lent>>

\* The struct of b after its buffer was obtained, if it had none.
Allocate(S) ==
    /\ allocated' = allocated \cup S
    /\ len' = [b \in BIOs |-> IF b \in S \ allocated THEN 0 ELSE len[b]]
    /\ offset' = [b \in BIOs |-> IF b \in S \ allocated THEN 0 ELSE offset[b]]

\* BIO_C_MAKE_BIO_PAIR, which also joins a BIO with itself: refused if one is in
\* use; memory may run out for the first buffer or, with the first already in
\* place, for the second.
bio_make_pair(a, b) ==
    \/ /\ peer[a] # NULL \/ peer[b] # NULL
       /\ Return(a, CONTROL, 0, <<>>)
       /\ UNCHANGED <<live, peer, closed, len, offset, size, request, allocated, buf, lent>>
    \/ /\ peer[a] = NULL /\ peer[b] = NULL
       /\ \/ a \notin allocated /\ UNCHANGED <<len, offset, allocated>>
          \/ b \notin allocated \cup {a} /\ Allocate({a})
       /\ Return(a, CONTROL, 0, <<>>)
       /\ UNCHANGED <<live, peer, closed, size, request, buf, lent>>
    \/ /\ peer[a] = NULL /\ peer[b] = NULL
       /\ Allocate({a, b})
       /\ peer' = [peer EXCEPT ![a] = b, ![b] = a]
       /\ closed' = [closed EXCEPT ![a] = FALSE, ![b] = FALSE]
       /\ request' = [request EXCEPT ![a] = 0, ![b] = 0]
       /\ Return(a, CONTROL, 1, <<>>)
       /\ UNCHANGED <<live, size, buf, lent>>

\* Mutation: the peer keeps its pointer.
DissolveOneSide(b) ==
    LET w == peer[b]
    IN  /\ peer' = [peer EXCEPT ![b] = NULL]
        /\ len' = [len EXCEPT ![b] = 0, ![w] = 0]
        /\ offset' = [offset EXCEPT ![b] = 0, ![w] = 0]

\* What dissolving b's pair does to both structs.
Dissolve(b) ==
    LET w == peer[b]
    IN  /\ peer' = [peer EXCEPT ![b] = NULL, ![w] = NULL]
        /\ len' = [len EXCEPT ![b] = 0, ![w] = 0]
        /\ offset' = [offset EXCEPT ![b] = 0, ![w] = 0]

\* BIO_C_DESTROY_BIO_PAIR
bio_destroy_pair(b) ==
    /\ \/ peer[b] # NULL /\ Dissolve(b)
       \/ peer[b] = NULL /\ UNCHANGED <<peer, len, offset>>
    /\ lent' = IF peer[b] = NULL THEN lent ELSE [lent EXCEPT ![b] = {}, ![peer[b]] = {}]
    /\ Return(b, CONTROL, 1, <<>>)
    /\ UNCHANGED <<live, closed, size, request, allocated, buf>>

\* The struct goes away with its buffer; a later bio_new makes a fresh one.
bio_free(b) ==
    /\ \/ peer[b] # NULL /\ Dissolve(b)
       \/ peer[b] = NULL /\ UNCHANGED <<peer, len, offset>>
    /\ lent' = IF peer[b] = NULL THEN lent ELSE [lent EXCEPT ![b] = {}, ![peer[b]] = {}]
    /\ live' = live \ {b}
    /\ allocated' = allocated \ {b}
    /\ Return(b, CONTROL, 1, <<>>)
    /\ UNCHANGED <<closed, size, request, buf>>

bio_new(b) ==
    /\ b \notin live
    /\ live' = live \cup {b}
    /\ size' = [size EXCEPT ![b] = DefaultSize]
    /\ closed' = [closed EXCEPT ![b] = FALSE]
    /\ request' = [request EXCEPT ![b] = 0]
    /\ buf' = [buf EXCEPT ![b] = [i \in 0..(DefaultSize - 1) |-> Junk]]
    /\ Return(b, CONTROL, 1, <<>>)
    /\ UNCHANGED <<peer, len, offset, allocated, lent>>

----------------------------------------------------------------------------
Init ==
    /\ live = {}
    /\ peer = [b \in BIOs |-> NULL]
    /\ closed = [b \in BIOs |-> FALSE]
    /\ len = [b \in BIOs |-> 0]
    /\ offset = [b \in BIOs |-> 0]
    /\ size = [b \in BIOs |-> DefaultSize]
    /\ request = [b \in BIOs |-> 0]
    /\ allocated = {}
    /\ buf = [b \in BIOs |-> [i \in 0..(DefaultSize - 1) |-> Junk]]
    /\ lent = [b \in BIOs |-> {}]
    /\ ret = [bio |-> NULL, call |-> CONTROL, n |-> 0, data |-> <<>>, retry |-> FALSE]

\* The strings of bytes a caller may write.
Inputs == UNION {[1..n -> Data] : n \in 0..MaxCall}

Next ==
    \/ \E b \in BIOs : bio_new(b)
    \/ \E b \in live :
        \/ \E n \in 0..MaxCall : bio_read(b, n) \/ bio_nread(b, n) \/ bio_nwrite(b, n)
        \/ \E d \in Inputs : bio_write(b, d)
        \/ \E i \in lent[b], v \in Data : Fill(b, i, v)
        \/ bio_nread0(b)
        \/ bio_nwrite0(b)
        \/ shutdown_wr(b)
        \/ reset_read_request(b)
        \/ ctrl_reset(b)
        \/ \E n \in Sizes \cup {0} : set_write_buf_size(b, n)
        \/ \E a \in live : bio_make_pair(b, a) \/ ctrl_dup(b, a)
        \/ bio_destroy_pair(b)
        \/ bio_free(b)

Spec == Init /\ [][Next]_vars

----------------------------------------------------------------------------
(* Properties.                                                             *)

\* BIO_C_GET_WRITE_GUARANTEE: how much a write is sure to take.
Guarantee(b) == IF peer[b] = NULL \/ closed[b] THEN 0 ELSE size[b] - len[b]

\* The fields of bio_bio_st keep their types, and a buffer has the size its struct
\* says: set_write_buf_size, bio_make_pair and bio_free leave no stale buffer behind.
TypeOK ==
    /\ live \subseteq BIOs
    /\ allocated \subseteq live
    /\ peer \in [BIOs -> BIOs \cup {NULL}]
    /\ closed \in [BIOs -> BOOLEAN]
    /\ len \in [BIOs -> Nat]
    /\ offset \in [BIOs -> Nat]
    /\ request \in [BIOs -> Nat]
    /\ size \in [BIOs -> Nat \ {0}]
    /\ \A b \in BIOs : buf[b] \in [0..(size[b] - 1) -> Bytes]
    /\ lent \in [BIOs -> SUBSET Nat]

\* Through any sequence of calls: two BIOs are each other's peers and then both have
\* a buffer; an index never leaves the ring; an empty ring starts at 0, so that a
\* writer finds all of it in one piece; and nobody who waits for bytes (request) is
\* left waiting while there are some.  The assertions of bss_bio.c (:127, :162,
\* :168, :284, :293, :313, :390, :667) follow.
RingConsistent ==
    /\ \A b \in BIOs : peer[b] # NULL => peer[peer[b]] = b /\ {b, peer[b]} \subseteq allocated
    /\ \A b \in BIOs :
        /\ len[b] <= size[b]
        /\ offset[b] < size[b]
        /\ len[b] = 0 => offset[b] = 0
        /\ peer[b] = NULL => len[b] = 0
        /\ peer[b] # NULL /\ request[b] > 0 => len[b] = 0 /\ request[b] <= size[b]

\* The bytes in b's ring, oldest first.
Contents(b) == [i \in 1..len[b] |-> buf[b][Wrapped(b, offset[b] + i - 1)]]

Queues == INSTANCE ByteQueues WITH
    mate <- peer, shut <- closed, room <- size,
    queue <- [b \in BIOs |-> Contents(b)], answer <- ret

\* The ring buffer is a bounded queue: whatever wraps, whatever fills up and whoever
\* closes when, bio_read and bio_nread return the bytes written to the peer, each
\* once and in order, and only bio_nread0 shows bytes it does not take.  In a pair, a
\* read of at least a byte returns 0 only when the peer has closed and nothing is
\* left, a write returns -1 for good only when its BIO is closed, and a retry is
\* asked for only when the queue to read is empty, or the one to write is full;
\* otherwise bytes are moved, as many as the call has to move.
IsQueuePair == Queues!QSpec

\* BIO_get_write_guarantee returns "the maximum length of data that can be currently
\* written to the BIO", and callers write that much later: what was promised to a
\* writer is taken back by no call of the peer's, only by the writer's own calls or
\* by the end of the pair.
GuaranteeKept ==
    [][\A b \in BIOs : Guarantee(b)' < Guarantee(b) => ret'.bio = b \/ peer'[b] = NULL]_vars

\* The place bio_nwrite0 gave to a writer stays the place where bio_nwrite will look
\* for the bytes, and as long as it was said to be, while the peer reads and as long as
\* the ring does not run empty (then bio_read and bio_nread move the next byte to
\* index 0).
LentWhileFilled ==
    \A b \in BIOs : lent[b] # {} /\ len[b] > 0 => WriteOffset(b) \in lent[b] /\ lent[b] \subseteq Space(b)

\* doc/man3/BIO_s_bio.pod: "Note that BIO_get_read_request() never returns an amount
\* larger than that returned by BIO_get_write_guarantee()."
RequestWithinGuarantee == \A b \in BIOs : peer[b] # NULL => request[b] <= Guarantee(b)
=============================================================================
