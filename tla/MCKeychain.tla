----------------------------- MODULE MCKeychain -----------------------------
(* Small instances of Keychain for TLC.                                    *)
EXTENDS Keychain

\* No two counters of the instance have the same code, and the truncation
\* starts at either of two places.
MCMac(m) == <<m[1], m[2], m[1], m[2], m[2] % 2>>
=============================================================================
