----------------------------- MODULE MCCSession -----------------------------
(* Instances of CSession for TLC.                                           *)
EXTENDS CSession, TLC

CONSTANTS h1, h2, h3

MCSymmetry == Permutations(Handlers)
=============================================================================
