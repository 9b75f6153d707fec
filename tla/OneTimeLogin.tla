---------------------------- MODULE OneTimeLogin ----------------------------
(***************************************************************************)
(* What signing in with a keychain code promises, whatever the stores, the *)
(* verifier and the network do in between: a device's OTP counters are     *)
(* spent in increasing order, and a spent counter opens at most one        *)
(* session.  README.md says it as "a code works once".  Login.tla          *)
(* implements this specification.                                          *)
(***************************************************************************)
EXTENDS Naturals

CONSTANTS
    Device,     \* keychain IDs
    Attempt     \* identities of login attempts, and so of sessions

VARIABLES
    spent,      \* spent[d]: the counters device d has logged in with
    sessions    \* sessions ever opened: who opened them, and with what

Session == [attempt : Attempt, device : Device, counter : Nat]

Init ==
    /\ spent = [d \in Device |-> {}]
    /\ sessions = {}

\* Device d spends a counter newer than every counter it has spent before.
Spend(d) ==
    \E c \in spent'[d] :
        /\ c \in Nat
        /\ \A old \in spent[d] : old < c
        /\ spent' = [spent EXCEPT ![d] = @ \cup {c}]
        /\ UNCHANGED sessions

\* A spent counter opens a session, if it has not opened one already.
Open ==
    \E s \in sessions' :
        /\ s \in Session
        /\ s.counter \in spent[s.device]
        /\ \A old \in sessions : <<old.device, old.counter>> # <<s.device, s.counter>>
        /\ sessions' = sessions \cup {s}
        /\ UNCHANGED spent

Next == (\E d \in Device : Spend(d)) \/ Open

Spec == Init /\ [][Next]_<<spent, sessions>>
=============================================================================
