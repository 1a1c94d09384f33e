--------------------------- MODULE MCScalablePool ---------------------------
(* An elastic pool of one to two workers over a queue of two slots,          *)
(* whose every Submit evaluates scaling.                                     *)
EXTENDS ScalablePool, TLC

CONSTANTS t1, t2, t3, s1, w1, w2, w3, k1

MCOwner == [t \in Tasks |-> s1]
MCSymmetry ==
  Permutations(Tasks) \cup Permutations(Workers) \cup Permutations(Stoppers)
=============================================================================
