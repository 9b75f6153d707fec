------------------------------ MODULE MCAdmin ------------------------------
(* Small instances of Admin for TLC.                                       *)
EXTENDS Admin, TLC

MCKey == Request \cup Id \cup {Tool}

Symmetry == Permutations(Request)
=============================================================================
