-------------------------- MODULE MCMemoryLimiter --------------------------
(* Small instances of MemoryLimiter for TLC.                               *)
EXTENDS MemoryLimiter, TLC

MCOtp(d, c) == IF c = 2 THEN "code2" ELSE "later"

Symmetry == Permutations(Request)
=============================================================================
