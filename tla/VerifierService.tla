--------------------------- MODULE VerifierService ---------------------------
(***************************************************************************)
(* What auth-web may rely on when it asks the verifier about a device,     *)
(* whatever becomes of the connection: it gets a yes only if yes was the   *)
(* truth at some moment between the question and the answer.  A no to      *)
(* STATUS is as true; a no to VERIFY may also stand for a failure.         *)
(* VerifierDaemon.tla implements this specification.                       *)
(***************************************************************************)
CONSTANTS
    Caller,     \* those who ask
    Question,
    Nothing

VARIABLES
    active,     \* the status of the device in the keystore
    phase,      \* phase[c] \in {"idle", "open", "done"}
    question,   \* question[c]: what c has asked
    verdict     \* verdict[c]: "yes", "no", "error", or nothing yet

vars == <<active, phase, question, verdict>>

Init ==
    /\ active \in BOOLEAN
    /\ phase = [c \in Caller |-> "idle"]
    /\ question = [c \in Caller |-> Nothing]
    /\ verdict = [c \in Caller |-> Nothing]

\* The operator revokes or reactivates the device.
Toggle == active' = ~active /\ UNCHANGED <<phase, question, verdict>>

Ask(c, q) ==
    /\ phase[c] = "idle"
    /\ phase' = [phase EXCEPT ![c] = "open"]
    /\ question' = [question EXCEPT ![c] = q]
    /\ UNCHANGED <<active, verdict>>

True(q, v) ==
    /\ v = "yes" => active /\ q \in {"STATUS", "VERIFY"}
    /\ v = "no" => q # "STATUS" \/ ~active

\* Sooner or later the verifier makes up its mind ...
Decide(c, v) ==
    /\ phase[c] = "open" /\ verdict[c] = Nothing
    /\ True(question[c], v)
    /\ verdict' = [verdict EXCEPT ![c] = v]
    /\ UNCHANGED <<active, phase, question>>

\* ... but its answer may not arrive ...
Lose(C) ==
    /\ \A c \in C : phase[c] # "idle" /\ verdict[c] # Nothing
    /\ verdict' = [c \in Caller |-> IF c \in C THEN "error" ELSE verdict[c]]
    /\ UNCHANGED <<active, phase, question>>

\* ... or not be waited for.
Finish(c) ==
    /\ phase[c] = "open"
    /\ phase' = [phase EXCEPT ![c] = "done"]
    /\ \/ verdict[c] # Nothing /\ UNCHANGED verdict
       \/ verdict' = [verdict EXCEPT ![c] = "error"]
    /\ UNCHANGED <<active, question>>

Forget(c) ==
    /\ phase[c] = "done"
    /\ phase' = [phase EXCEPT ![c] = "idle"]
    /\ question' = [question EXCEPT ![c] = Nothing]
    /\ verdict' = [verdict EXCEPT ![c] = Nothing]
    /\ UNCHANGED active

Next ==
    \/ Toggle
    \/ \E C \in SUBSET Caller : Lose(C)
    \/ \E c \in Caller :
          \/ \E q \in Question : Ask(c, q)
          \/ \E v \in {"yes", "no", "error"} : Decide(c, v)
          \/ Finish(c) \/ Forget(c)

Spec == Init /\ [][Next]_vars
=============================================================================
