--------------------------- MODULE MCLogicSystem ---------------------------
(* Instances of LogicSystem for TLC.                                        *)
EXTENDS LogicSystem, TLC

CONSTANTS w1, w2, w3, p1, p2, t1, t2, t3

MCKnownAll == Posters \X (1..MaxPosts)

\* Every message but the first of p1 has a callback.
MCKnown == MCKnownAll \ {<<p1, 1>>}

\* The threads of a kind are alike, the posters too where every message has a
\* callback (used by safety runs only).
MCSymmetry == Permutations(Workers) \cup Permutations(Temps) \cup Permutations(Posters)
=============================================================================
