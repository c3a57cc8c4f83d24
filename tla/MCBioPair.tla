----------------------------- MODULE MCBioPair ------------------------------
(***************************************************************************)
(* Two BIOs, interchangeable.  A ring of three bytes is the smallest that   *)
(* wraps in the middle of a write as well as of a read, and calls of up to  *)
(* three bytes fill it in every way; the other ring holds one byte.         *)
(***************************************************************************)
EXTENDS BioPair, TLC

CONSTANTS x, y      \* the BIOs

MCBIOs == {x, y}
MCSymmetry == Permutations(MCBIOs)

\* One large ring is enough: the two directions share no data.
OneLargeRing == \E b \in BIOs : size[b] = 1

\* Two BIOs joined with each other, the way pairs are used; for the run that looks
\* for a counterexample only.
TwoEnds == \A b \in BIOs : peer[b] # b

\* No action reads `ret`, so states that differ only there have the same
\* successors; what a step returns is still checked on every step.
StateView == <<live, peer, closed, len, offset, size, request, allocated, buf, lent>>
=============================================================================
