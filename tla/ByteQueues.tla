----------------------------- MODULE ByteQueues -----------------------------
(***************************************************************************)
(* What a pair of BIOs promises (doc/man3/BIO_s_bio.pod), with no ring     *)
(* buffer in sight: every BIO owns a bounded queue of bytes it has written *)
(* and its peer has not read.  A read returns the oldest bytes of the      *)
(* peer's queue and removes them, or end of file once the peer has shut    *)
(* its writing side down and everything was read, or asks for a retry.  A  *)
(* write appends what there is room for.  The non-copying calls may stop   *)
(* short of that, but never at nothing.  The answer names the call it is   *)
(* an answer to, so that what each call may say depends on the queues.     *)
(***************************************************************************)
EXTENDS Integers, Sequences

CONSTANTS
    BIOs,       \* the BIOs of type "BIO pair" a program may hold
    Bytes,      \* what a buffer cell may hold
    NULL        \* no peer

VARIABLES
    mate,       \* mate[b]: the BIO b is paired with, or NULL
    shut,       \* shut[b]: b may not write any more
    room,       \* room[b]: the capacity of b's queue
    queue,      \* queue[b]: the bytes written to b and not yet read from its mate
    answer      \* what the last call answered: its BIO, the call, its result,
                \* the bytes moved or shown, whether to try again

qvars == <<mate, shut, room, queue, answer>>

\* A call is a name and the number of bytes asked for.  "nread0" and "nwrite0"
\* show bytes, or room, without moving any; "control" is any other call.
Call(name, ask) == [name |-> name, ask |-> ask]
Reads == {"read", "nread", "nread0"}
Writes == {"write", "nwrite", "nwrite0"}

Answer(b, call, n, data) ==
    [bio |-> b, call |-> call, n |-> n, data |-> data, retry |-> FALSE]
TryAgain(b, call) ==
    [bio |-> b, call |-> call, n |-> -1, data |-> <<>>, retry |-> TRUE]
Done(b, n) == Answer(b, Call("control", 0), n, <<>>)

\* The first k elements of a sequence, and what is left without them.
Front(q, k) == [i \in 1..k |-> q[i]]
Rest(q, k) == [i \in 1..(Len(q) - k) |-> q[i + k]]

Least(m, n) == IF m <= n THEN m ELSE n

\* A step that changes nothing but the queue of b, from q to r.
QueueBecomes(b, r) ==
    /\ queue' = [queue EXCEPT ![b] = r]
    /\ UNCHANGED <<mate, shut, room>>

NothingMoves == UNCHANGED <<mate, shut, room, queue>>

----------------------------------------------------------------------------
(* Reading.                                                                *)

\* The k oldest bytes are taken from the mate's queue: with "read" as many as
\* were asked for and there are, with "nread" perhaps fewer.
Take(b, call, k) ==
    /\ mate[b] # NULL
    /\ k \in 1..Len(queue[mate[b]])
    /\ \/ call.name = "read" /\ k = Least(call.ask, Len(queue[mate[b]]))
       \/ call.name = "nread" /\ k <= call.ask
    /\ QueueBecomes(mate[b], Rest(queue[mate[b]], k))
    /\ answer' = Answer(b, call, k, Front(queue[mate[b]], k))

\* Only "nread0" may show bytes that stay where they are.
Peek(b, call, k) ==
    /\ mate[b] # NULL
    /\ call.name = "nread0"
    /\ k \in 1..Len(queue[mate[b]])
    /\ NothingMoves
    /\ answer' = Answer(b, call, k, Front(queue[mate[b]], k))

\* Nothing is read: 0 at the end of the stream, which nothing left unread may
\* precede; a retry if the queue is empty and more may come.
ReadNothing(b, call) ==
    /\ call.name \in Reads
    /\ \/ /\ \/ mate[b] = NULL
             \/ call.ask = 0
             \/ queue[mate[b]] = <<>> /\ shut[mate[b]]
          /\ answer' = Answer(b, call, 0, <<>>)
       \/ /\ mate[b] # NULL
          /\ queue[mate[b]] = <<>> /\ ~shut[mate[b]]
          /\ answer' = TryAgain(b, call)
    /\ NothingMoves

----------------------------------------------------------------------------
(* Writing.                                                                *)

\* The bytes d are appended to b's own queue; the answer repeats them.  With
\* "write" they are as many as were passed and there is room for.
Put(b, call, d) ==
    /\ mate[b] # NULL
    /\ ~shut[b]
    /\ d \in Seq(Bytes)
    /\ d # <<>>
    /\ Len(queue[b]) + Len(d) <= room[b]
    /\ \/ call.name = "write" /\ Len(d) = Least(call.ask, room[b] - Len(queue[b]))
       \/ call.name = "nwrite" /\ Len(d) <= call.ask
    /\ QueueBecomes(b, queue[b] \o d)
    /\ answer' = Answer(b, call, Len(d), d)

\* "nwrite0" tells of room for k bytes.
Offer(b, call, k) ==
    /\ mate[b] # NULL
    /\ ~shut[b]
    /\ call.name = "nwrite0"
    /\ k \in 1..(room[b] - Len(queue[b]))
    /\ NothingMoves
    /\ answer' = Answer(b, call, k, <<>>)

\* Nothing is written: -1 for good once the writer is shut, a retry if the queue
\* is full.
WriteNothing(b, call) ==
    /\ call.name \in Writes
    /\ \/ /\ mate[b] = NULL \/ call.ask = 0
          /\ answer' = Answer(b, call, 0, <<>>)
       \/ /\ mate[b] # NULL
          /\ shut[b]
          /\ answer' = Answer(b, call, -1, <<>>)
       \/ /\ mate[b] # NULL
          /\ ~shut[b]
          /\ Len(queue[b]) = room[b]
          /\ answer' = TryAgain(b, call)
    /\ NothingMoves

----------------------------------------------------------------------------
(* Other calls.                                                            *)

\* A call that is refused, or has no effect on the queues.
Idle(b, n) == n \in {0, 1} /\ answer' = Done(b, n) /\ NothingMoves

Shutdown(b) ==
    /\ shut' = [shut EXCEPT ![b] = TRUE]
    /\ answer' = Done(b, 1)
    /\ UNCHANGED <<mate, room, queue>>

\* b throws away what it has written and its mate has not read.
Discard(b) == QueueBecomes(b, <<>>) /\ answer' = Done(b, 0)

\* a and b are joined, perhaps a BIO with itself.
Connect(a, b) ==
    /\ mate[a] = NULL /\ mate[b] = NULL
    /\ mate' = [mate EXCEPT ![a] = b, ![b] = a]
    /\ shut' = [shut EXCEPT ![a] = FALSE, ![b] = FALSE]
    /\ answer' = Done(a, 1)
    /\ UNCHANGED <<room, queue>>

\* The pair is dissolved and with it what was still under way.
Disconnect(b) ==
    /\ mate[b] # NULL
    /\ mate' = [mate EXCEPT ![b] = NULL, ![mate[b]] = NULL]
    /\ queue' = [queue EXCEPT ![b] = <<>>, ![mate[b]] = <<>>]
    /\ answer' = Done(b, 1)
    /\ UNCHANGED <<shut, room>>

\* A call on c gives a BIO without a peer another capacity; it starts afresh when
\* it is created again.
Resize(c, b, n) ==
    /\ mate[b] = NULL
    /\ n \in Nat \ {0}
    /\ room' = [room EXCEPT ![b] = n]
    /\ answer' = Done(c, 1)
    /\ \/ UNCHANGED shut
       \/ shut' = [shut EXCEPT ![b] = FALSE]
    /\ UNCHANGED <<mate, queue>>

----------------------------------------------------------------------------
QInit ==
    /\ mate = [b \in BIOs |-> NULL]
    /\ shut = [b \in BIOs |-> FALSE]
    /\ room \in [BIOs -> Nat \ {0}]
    /\ queue = [b \in BIOs |-> <<>>]
    /\ answer = Done(NULL, 0)

\* The call, its result, the bytes and the new capacity are read off the step.
QNext ==
    \E b \in BIOs :
        \/ Take(b, answer'.call, answer'.n)
        \/ Peek(b, answer'.call, answer'.n)
        \/ ReadNothing(b, answer'.call)
        \/ Put(b, answer'.call, answer'.data)
        \/ Offer(b, answer'.call, answer'.n)
        \/ WriteNothing(b, answer'.call)
        \/ Idle(b, answer'.n)
        \/ Shutdown(b)
        \/ Discard(b)
        \/ Disconnect(b)
        \/ \E a \in BIOs : Connect(b, a) \/ Resize(b, a, room'[a])

QSpec == QInit /\ [][QNext]_qvars
=============================================================================
