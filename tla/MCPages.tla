------------------------------ MODULE MCPages ------------------------------
(* Small instances of Pages for TLC.                                       *)
EXTENDS Pages

\* The session and the token were issued to the same device.
MCOwner(c) == "d1"
=============================================================================
