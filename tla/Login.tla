------------------------------- MODULE Login -------------------------------
(***************************************************************************)
(* POST /otp (auth-web/src/routes/otp.js) with the stores it uses in       *)
(* production (auth-web/src/stores/redis.js) and the verifier's answer     *)
(* (verifier/main.cpp).                                                    *)
(*                                                                         *)
(* The handler awaits five things in turn: the IP budget, the device       *)
(* budget, the verifier, the claim of the matched counter and the new      *)
(* session.  Between any two of them other requests run.  Each await is a  *)
(* value of pc; the action that leaves it is the remote command together   *)
(* with the code the handler runs on its reply.                            *)
(*                                                                         *)
(* A Redis command whose caller has given up (commandTimeout) may still    *)
(* run later, because the client queues commands while it reconnects.      *)
(* Such a request keeps its pc but has waiting = FALSE: the command takes  *)
(* effect, nobody acts on the reply.                                       *)
(***************************************************************************)
EXTENDS Integers, FiniteSets, Functions

CONSTANTS
    Request,        \* POSTs to /otp from the form's own origin, each used once
    Device,         \* well-formed keychain IDs, enrolled or not
    Ip,             \* client addresses
    Code,           \* well-formed codes
    Otp(_, _),      \* Otp(d, c): the code device d shows during counter c
    Step,           \* ticks in an OTP step (90 s)
    Minute,         \* ticks in a minute
    MaxLag,         \* longest time between issuing a command and its effect
    Attempts,       \* attemptsPerWindow
    IpAttempts,     \* ipAttemptsPerMinute
    StartTime,      \* the clock when the model starts
    MaxTime         \* bound on the clock

ASSUME LoginAssumption ==
    /\ Step \in Nat \ {0}
    /\ Minute \in Nat \ {0}
    /\ MaxLag \in Nat
    /\ MaxLag =< Minute
    /\ 2 * MaxLag =< Step
    /\ Attempts \in Nat
    /\ IpAttempts \in Nat
    /\ StartTime \in Nat
    /\ StartTime >= Step
    /\ MaxTime \in Nat

VARIABLES
    clock,
    req,        \* req[r]: what the handler of r holds
    hits,       \* the budget counters: key -> count and expiry
    used        \* used[d]: the last claimed counter and its expiry

vars == <<clock, req, hits, used>>

-----------------------------------------------------------------------------
(* Time and keys.                                                          *)

None == "none"
Malformed == "malformed"

\* The OTP step, which is also the device budget's window, that t falls in.
\* StartTime >= Step, so 0 is never the window of a clock value.
Window(t) == t \div Step

IpKey(ip, t) == <<"ip", ip, t \div Minute>>
DeviceKeySwapped(d, w) == <<"dev", w, d>>    \* mutation: `${window}:${deviceId}`
DeviceKey(d, w) == <<"dev", d, w>>
Key == ({"ip"} \X Ip \X Nat) \cup ({"dev"} \X Device \X Nat)

\* How long a device's budget counter lives.
DeviceTtlOneStep == Step            \* mutation: expires with its window
DeviceTtl == 2 * Step

\* How long a claimed counter is remembered.
ClaimTtlThreeSteps == 3 * Step      \* mutation: exactly the acceptance range
ClaimTtl == 4 * Step

\* A device with no claim on record.
Unused == [counter |-> -1, until |-> 0]

\* The n-th attempt is allowed.
AllowedBefore(n, limit) == n - 1 =< limit       \* mutation: tests before it counts
Allowed(n, limit) == n =< limit

-----------------------------------------------------------------------------
(* The life of a request.                                                  *)

Awaiting == {"ip", "device", "verify", "claim", "session"}
Refused == {"limited", "malformed", "exhausted", "rejected", "replayed", "error", "lost"}
\* burnt: the counter is claimed but no session was made of it.
\* orphan: the session is stored and nobody was given its cookie.
Spoiled == {"burnt", "orphan"}
Pc == {"idle", "in"} \cup Awaiting \cup Refused \cup Spoiled

Pending(r) == req[r].pc \in Awaiting
Claimed(r) == req[r].pc \in {"session", "in"} \cup Spoiled
HasSession(r) == req[r].pc \in {"in", "orphan"}

Idle == [pc |-> "idle", waiting |-> FALSE, ip |-> None, device |-> None, code |-> None,
         at |-> 0, window |-> 0, seen |-> 0, counter |-> 0]

\* The handler of r stops; outcome says what became of the attempt.
Finish(r, outcome) ==
    req' = [req EXCEPT ![r] = [@ EXCEPT !.pc = outcome, !.waiting = FALSE, !.at = 0]]

\* The handler of r issues its next command.
Proceed(r, next) == req' = [req EXCEPT ![r] = [@ EXCEPT !.pc = next, !.at = clock]]

-----------------------------------------------------------------------------

Init ==
    /\ clock = StartTime
    /\ req = [r \in Request |-> Idle]
    /\ hits = [k \in {} |-> [n |-> 0, until |-> 0]]
    /\ used = [d \in Device |-> Unused]

\* The form arrives and the handler asks for the IP budget of this minute.
Post(r, ip, d, code) ==
    /\ req[r].pc = "idle"
    /\ req' = [req EXCEPT ![r] = [Idle EXCEPT !.pc = "ip", !.waiting = TRUE, !.ip = ip,
                                              !.device = d, !.code = code, !.at = clock]]
    /\ UNCHANGED <<clock, hits, used>>

Count(k) == IF k \in DOMAIN hits THEN hits[k].n ELSE 0

\* INCR_EXPIRE: the expiry is set by the first increment only.
Incr(k, ttl) ==
    hits' = [x \in DOMAIN hits \cup {k} |->
               IF x # k THEN hits[x]
               ELSE [n |-> Count(k) + 1,
                     until |-> IF k \in DOMAIN hits THEN hits[k].until ELSE clock + ttl]]

\* The IP is counted first, so malformed input still costs an attempt.
AllowIp(r) ==
    LET k == IpKey(req[r].ip, req[r].at)
        allowed == Allowed(Count(k) + 1, IpAttempts)
    IN  /\ req[r].pc = "ip"
        /\ Incr(k, 2 * Minute)
        /\ \/ ~req[r].waiting /\ Finish(r, "error")
           \/ req[r].waiting /\ ~allowed /\ Finish(r, "limited")
           \/ req[r].waiting /\ allowed /\ req[r].code = Malformed /\ Finish(r, "malformed")
           \/ req[r].waiting /\ allowed /\ req[r].code # Malformed /\ Proceed(r, "device")
        /\ UNCHANGED <<clock, used>>

\* Counted under the window the handler read when it issued the command.
AllowDevice(r) ==
    LET w == Window(req[r].at)
        allowed == Allowed(Count(DeviceKey(req[r].device, w)) + 1, Attempts)
    IN  /\ req[r].pc = "device"
        /\ Incr(DeviceKey(req[r].device, w), DeviceTtl)
        /\ \/ ~req[r].waiting /\ Finish(r, "error")
           \/ req[r].waiting /\ ~allowed /\ Finish(r, "exhausted")
           \/ /\ req[r].waiting /\ allowed
              /\ req' = [req EXCEPT ![r] = [@ EXCEPT !.pc = "verify", !.at = clock, !.window = w]]
        /\ UNCHANGED <<clock, used>>

\* Counters around the verifier's own, now, whose code is the one submitted.
MatchingWide(d, code, now) == {c \in (now - 2) .. (now + 1) : Otp(d, c) = code}
                                            \* mutation: one more step of drift
Matching(d, code, now) == {c \in {now - 1, now, now + 1} : Otp(d, c) = code}

\* The verifier compares all three codes and reports the first that matches.
Verify(r) ==
    LET match == Matching(req[r].device, req[r].code, Window(clock))
    IN  /\ req[r].pc = "verify"
        /\ \/ /\ match = {}
              /\ req' = [req EXCEPT ![r] = [@ EXCEPT !.pc = "rejected", !.waiting = FALSE,
                                                  !.at = 0, !.seen = Window(clock)]]
           \/ \E c \in match :
                /\ \A other \in match : c =< other
                /\ req' = [req EXCEPT ![r] = [@ EXCEPT !.pc = "claim", !.at = clock,
                                                    !.seen = Window(clock), !.counter = c]]
        /\ UNCHANGED <<clock, hits, used>>

\* NO whatever the code: unknown or revoked device, unreadable keystore.
\* ERR or end of file: the verifier is busy or down.
VerifierRefuses(r) ==
    /\ req[r].pc = "verify"
    /\ Finish(r, "rejected")
    /\ UNCHANGED <<clock, hits, used>>

\* CLAIM: accept a counter only if it is newer than the last one remembered.
Different(d, c) == c # used[d].counter      \* mutation: refuses only a replay
Newer(d, c) == c > used[d].counter

Claim(r) ==
    LET d == req[r].device
        c == req[r].counter
    IN  /\ req[r].pc = "claim"
        /\ \/ /\ Newer(d, c)
              /\ used' = [used EXCEPT ![d] = [counter |-> c, until |-> clock + ClaimTtl]]
              /\ \/ ~req[r].waiting /\ Finish(r, "burnt")
                 \/ req[r].waiting /\ Proceed(r, "session")
           \/ /\ ~Newer(d, c)
              /\ Finish(r, IF req[r].waiting THEN "replayed" ELSE "error")
              /\ UNCHANGED used
        /\ UNCHANGED <<clock, hits>>

\* The session is stored and its cookie goes out with the redirect.
CreateSession(r) ==
    /\ req[r].pc = "session"
    /\ Finish(r, IF req[r].waiting THEN "in" ELSE "orphan")
    /\ UNCHANGED <<clock, hits, used>>

\* Both verifier calls and store commands run under a timer.
TimesOutStores(r) == Pending(r) /\ req[r].waiting /\ req[r].pc # "verify"
                                            \* mutation: ask() without a timer
TimesOut(r) == Pending(r) /\ req[r].waiting

\* A timer fires.  ask() reads it as a refusal; a store command rejects, which
\* ends the handler with a 500 and leaves the command where it is.
GiveUp(r) ==
    /\ TimesOut(r)
    /\ IF req[r].pc = "verify"
       THEN Finish(r, "rejected")
       ELSE req' = [req EXCEPT ![r] = [@ EXCEPT !.waiting = FALSE]]
    /\ UNCHANGED <<clock, hits, used>>

\* The connection drops before the store has seen the command.
Lose(r) ==
    /\ Pending(r) /\ req[r].pc # "verify"
    /\ Finish(r, IF req[r].pc = "session" THEN "burnt" ELSE "error")
    /\ UNCHANGED <<clock, hits, used>>

\* The auth-web process dies.  Commands it already sent still run.
Crash ==
    /\ \E r \in Request : Pending(r) /\ req[r].waiting
    /\ req' = [r \in Request |->
                 IF req[r].pc = "verify"
                 THEN [req[r] EXCEPT !.pc = "lost", !.waiting = FALSE, !.at = 0]
                 ELSE [req[r] EXCEPT !.waiting = FALSE]]
    /\ UNCHANGED <<clock, hits, used>>

\* Time passes and keys expire.  Nothing stays in flight beyond MaxLag.
Tick ==
    /\ clock < MaxTime
    /\ \A r \in Request : Pending(r) => clock < req[r].at + MaxLag
    /\ clock' = clock + 1
    /\ hits' = Restrict(hits, {k \in DOMAIN hits : hits[k].until > clock + 1})
    /\ used' = [d \in Device |-> IF used[d].until > clock + 1 THEN used[d] ELSE Unused]
    /\ UNCHANGED req

\* The bounded model has run its course.
Terminating ==
    /\ clock = MaxTime
    /\ \A r \in Request : ~Pending(r) /\ req[r].pc # "idle"
    /\ UNCHANGED vars

Handle(r) ==
    \/ AllowIp(r) \/ AllowDevice(r) \/ Verify(r) \/ VerifierRefuses(r)
    \/ Claim(r) \/ CreateSession(r) \/ GiveUp(r) \/ Lose(r)

Next ==
    \/ \E r \in Request, ip \in Ip, d \in Device, code \in Code \cup {Malformed} :
          Post(r, ip, d, code)
    \/ \E r \in Request : Handle(r)
    \/ Crash
    \/ Tick
    \/ Terminating

Spec == Init /\ [][Next]_vars

\* Timers fire: commandTimeout for the stores, timeoutMs for the verifier.
FairSpec == Spec /\ \A r \in Request : WF_vars(GiveUp(r))

-----------------------------------------------------------------------------
(* Properties.                                                             *)

RequestState ==
    [pc : Pc, waiting : BOOLEAN, ip : Ip \cup {None}, device : Device \cup {None},
     code : Code \cup {Malformed, None}, at : Nat, window : Nat, seen : Nat, counter : Nat]

ReqOK ==
    /\ req \in [Request -> RequestState]
    /\ \A r \in Request : req[r].pc # "idle" => req[r].ip \in Ip /\ req[r].device \in Device

HitsOK ==
    /\ DOMAIN hits \subseteq Key
    /\ \A k \in DOMAIN hits : hits[k] \in [n : Nat, until : Nat]

UsedOK == used \in [Device -> [counter : Nat \cup {-1}, until : Nat]]

\* Type invariant: every variable keeps its type, and the handler never runs
\* in a state it has no code for.
TypeOK ==
    /\ clock \in Nat /\ clock >= StartTime
    /\ ReqOK
    /\ HitsOK
    /\ UsedOK

\* A counter of a device is claimed by at most one request, and so opens at
\* most one session, whichever requests race, time out or run late, and
\* although the claim is forgotten after four steps (otp.js:48-55).
OneLoginPerCounter ==
    \A r, s \in Request :
        (r # s /\ Claimed(r) /\ Claimed(s) /\ req[r].device = req[s].device)
            => req[r].counter # req[s].counter

\* Why OneLoginPerCounter holds: a code is tested, and its claim runs, soon
\* enough that a claimed counter is still remembered, or is three windows old
\* and no code of it can be accepted any more.
InFlight == \A r \in Request : Pending(r) => req[r].at =< clock /\ clock =< req[r].at + MaxLag

Fresh ==
    \A r \in Request : req[r].pc = "claim" =>
        /\ req[r].counter =< Window(req[r].at) + 1
        /\ Window(req[r].at) =< req[r].counter + 1

LongEnough ==
    \A d \in Device :
        used[d].counter # -1 => Window(used[d].until) >= used[d].counter + 3

Remembered ==
    \A r \in Request : Claimed(r) =>
        \/ used[req[r].device].counter >= req[r].counter
        \/ Window(clock) >= req[r].counter + 3

\* The inductive invariant behind one-time login: a claim outlives every
\* request that could still present its code (otp.js:48-55, redis.js:79).
ClaimInv == InFlight /\ Fresh /\ LongEnough /\ Remembered /\ OneLoginPerCounter

Guesses(d, w) == {r \in Request : req[r].device = d /\ req[r].window = w}

\* No more than Attempts requests naming a device get past the budget of one
\* window, although the counter that says so expires (redis.js:74-77).
BudgetHolds ==
    \A d \in Device : \A w \in {req[r].window : r \in Request} \ {0} :
        Cardinality(Guesses(d, w)) =< Attempts

Tested(d, n) == {r \in Request : req[r].device = d /\ req[r].seen = n}

\* Lag lets guesses counted in one window reach the verifier in the next, but
\* the verifier never tests more than two windows' worth of them in one step.
GuessesPerStep ==
    \A d \in Device : \A n \in {req[r].seen : r \in Request} \ {0} :
        Cardinality(Tested(d, n)) =< 2 * Attempts

\* The counters and sessions of this model, as the abstract specification
\* sees them.
SpentCounters ==
    [d \in Device |-> {req[r].counter : r \in {x \in Request : Claimed(x) /\ req[x].device = d}}]
OpenedSessions ==
    {[attempt |-> r, device |-> req[r].device, counter |-> req[r].counter] :
        r \in {x \in Request : HasSession(x)}}

OneTime == INSTANCE OneTimeLogin WITH
    Attempt <- Request, spent <- SpentCounters, sessions <- OpenedSessions

\* The login pipeline implements one-time login: counters are spent in
\* increasing order and each opens at most one session (README.md:27).
ImplementsOneTimeLogin == OneTime!Spec

\* Every POST is answered: its handler finishes, or the timers end it.
EveryRequestAnswered ==
    \A r \in Request : Pending(r) ~> ~req[r].waiting
=============================================================================
