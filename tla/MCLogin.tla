------------------------------ MODULE MCLogin ------------------------------
(* Small instances of Login for TLC.                                       *)
EXTENDS Login, TLC

\* Counters 1 and 3 happen to show the same code, so one code can match two
\* counters of one acceptance range.
MCOtp(d, c) == IF c = 3 THEN "code1"
               ELSE IF c = 1 THEN "code1"
               ELSE IF c = 2 THEN "code2" ELSE "later"

Symmetry == Permutations(Request)
=============================================================================
