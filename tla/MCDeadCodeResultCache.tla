------------------------ MODULE MCDeadCodeResultCache ------------------------
(* Two files and two processes; two of the three contents have one size.    *)
EXTENDS DeadCodeResultCache, TLC

CONSTANTS a, b, old, new, long, k1, p1, p2

MCPath == {a, b}
MCContent == {old, new, long}
MCSize == [c \in MCContent |-> IF c = long THEN 2 ELSE 1]
MCKey == {k1}
MCProcess == {p1, p2}
MCSymmetry == Permutations(MCPath) \union Permutations(MCProcess)
=============================================================================
