--------------------------- MODULE MCSessionCache ---------------------------
(***************************************************************************)
(* Two threads, two session ids and three structs: two structs of one id    *)
(* and a third for the trimming loop to throw out.  The threads, structs    *)
(* and ids are interchangeable.                                             *)
(***************************************************************************)
EXTENDS SessionCache

CONSTANTS t1, t2, s1, s2, s3, i1, i2, i3

MCThreads == {t1, t2}
MCStructs == {s1, s2, s3}
MCIds == {i1, i2}
MCSymmetry == Permutations(MCStructs) \cup Permutations(MCThreads) \cup Permutations(MCIds)

\* Every setting but stateful TLS 1.3 tickets without the replay check, which is
\* MCStateful; memory runs short where two structs of one id can meet.
MCSettings ==
    {c \in SettingsType :
        /\ c.tls13 <=> c.single_use
        /\ c.memory = "short" => c.external /\ ~c.tls13}

MCStateful ==
    {c \in SettingsType : c.tls13 /\ ~c.single_use /\ ~c.external /\ c.memory = "enough"}
MCThreeIds == {i1, i2, i3}

\* What a freed struct still contains is read by no action, and the count of
\* resumptions only by SingleUse.
StateView ==
    LET alive == {s \in Structs : refs[s] > 0}
    IN  <<ctx, limit, hash, list, lock, refs, [s \in alive |-> sid[s]], dead \cap alive,
          issued, store, IF ctx.single_use /\ ~ctx.external THEN resumed ELSE <<>>, th>>
=============================================================================
