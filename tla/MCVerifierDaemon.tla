-------------------------- MODULE MCVerifierDaemon --------------------------
(* Small instances of VerifierDaemon for TLC.                              *)
EXTENDS VerifierDaemon

Msg(asks, bytes, newline, ends, allowed) ==
    [asks |-> asks, bytes |-> bytes, newline |-> newline, ends |-> ends, allowed |-> allowed]

\* What ask() sends; a second line after the first; an over-long line; a peer
\* that is not allowed.
MCMessage == {
    Msg("VERIFY", 2, 2, TRUE, TRUE), Msg("STATUS", 3, 1, FALSE, TRUE),
    Msg("junk", 4, 0, FALSE, TRUE), Msg("STATUS", 1, 1, FALSE, FALSE) }
=============================================================================
