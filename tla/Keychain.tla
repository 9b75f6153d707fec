------------------------------ MODULE Keychain ------------------------------
(***************************************************************************)
(* A keychain and the server that checks its codes: the clock and the loop *)
(* of KeychainClock, and the codes of OtpCodes.  A code on the display is  *)
(* the one loop() drew for the time it had read (firmware main.cpp:48-53). *)
(***************************************************************************)
EXTENDS KeychainClock, OtpCodes

\* The counters of this model stay clear of the largest one.
ASSUME HorizonAssumption == CounterAt(MaxTime + 3 * Step) < Word - 1

Shown == KeychainCode(screen.time)

\* A code on the display that does not say "wait" is accepted, although it
\* takes a quarter of a step to type and the server's clock may be a whole step
\* off the keychain's: the keychain and the server compute the same digits, and
\* the sign comes early enough (display.cpp:19-39, verifier/main.cpp:122-124).
ShownCodeWorks ==
    screen.shows = "code" /\ ~SaysWait(screen.time) =>
        \A typing \in 0 .. Step \div 4, skew \in -Step .. Step :
            LET server == screen.time + typing + skew
            IN  server >= 0 => Accepted(Shown, server)

\* No two counters in use, or the one before counter 0, have the same code.
NoCollisions ==
    LET inUse == 0 .. CounterAt(MaxTime + 3 * Step) + 1
    IN  \A c, e \in inUse \cup {Word - 1} : ServerCode(c) = ServerCode(e) => c = e

\* Provided that no two counters show the same code, a code is refused two
\* steps after the one it was shown in, and before the one that precedes it.
CodesExpire ==
    screen.shows = "code" =>
        \A server \in 0 .. MaxTime + 3 * Step :
            Accepted(Shown, server) =>
                CounterAt(server) - CounterAt(screen.time) \in -1 .. 1
=============================================================================
