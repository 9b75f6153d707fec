---------------------------- MODULE LoginProofs ----------------------------
(***************************************************************************)
(* Proofs about Login for every set of requests, devices and codes, every  *)
(* step length and every lag the assumption of Login allows.               *)
(***************************************************************************)
EXTENDS Login, FiniteSetTheorems, TLAPS

-----------------------------------------------------------------------------
(* Windows.                                                                *)

\* A window is a natural number.
LEMMA WindowType == ASSUME NEW t \in Nat PROVE Window(t) \in Nat
BY LoginAssumption DEF Window

\* A step later is a window later.
LEMMA WindowShift == ASSUME NEW t \in Nat PROVE Window(t + Step) = Window(t) + 1
BY LoginAssumption DEF Window

\* Windows follow the clock.
LEMMA WindowMonotone ==
    ASSUME NEW t \in Nat, NEW u \in Nat, t =< u
    PROVE  Window(t) =< Window(u)
BY LoginAssumption DEF Window

\* Once StartTime has passed, no window is window 0.
LEMMA WindowPositive ==
    ASSUME NEW t \in Nat, t >= StartTime
    PROVE  Window(t) >= 1
BY LoginAssumption DEF Window

\* A claim is remembered for four windows.
LEMMA ClaimWindow ==
    ASSUME NEW t \in Nat
    PROVE  t + ClaimTtl \in Nat /\ Window(t + ClaimTtl) = Window(t) + 4
<1>1. Step \in Nat BY LoginAssumption
<1>2. /\ t + ClaimTtl = (((t + Step) + Step) + Step) + Step
      /\ t + Step \in Nat /\ (t + Step) + Step \in Nat /\ ((t + Step) + Step) + Step \in Nat
      /\ t + ClaimTtl \in Nat
  BY <1>1 DEF ClaimTtl
<1>3. QED BY <1>2, WindowShift, WindowType

\* A budget counter lives for two windows.
LEMMA BudgetWindow == ASSUME NEW t \in Nat PROVE Window(t + DeviceTtl) = Window(t) + 2
<1>1. t + DeviceTtl = (t + Step) + Step /\ t + Step \in Nat
  BY LoginAssumption DEF DeviceTtl
<1>2. QED BY <1>1, WindowShift, WindowType

\* A command takes effect in the window it was issued in, or the next.
LEMMA CommandWindow ==
    ASSUME TypeOK, InFlight, NEW r \in Request, Pending(r)
    PROVE  /\ Window(req[r].at) \in Nat /\ Window(clock) \in Nat
           /\ Window(req[r].at) =< Window(clock) /\ Window(clock) =< Window(req[r].at) + 1
<1>1. req[r].at \in Nat /\ clock \in Nat
  BY DEF TypeOK, ReqOK, RequestState
<1>2. req[r].at =< clock /\ clock =< req[r].at + Step /\ req[r].at + Step \in Nat
  BY <1>1, LoginAssumption DEF InFlight
<1>3. QED BY <1>1, <1>2, WindowMonotone, WindowShift, WindowType

-----------------------------------------------------------------------------
(* What the updates of req leave behind.                                   *)

\* The outcomes and awaits the actions name are values of pc.
LEMMA Outcomes ==
    {"error", "limited", "malformed", "exhausted", "rejected", "replayed", "lost", "burnt",
     "orphan", "in", "ip", "device", "verify", "claim", "session"} \subseteq Pc
BY DEF Pc, Awaiting, Refused, Spoiled

Others(r) == \A s \in Request \ {r} : req'[s] = req[s]

\* Finish changes pc, waiting and at of one request.
LEMMA FinishStep ==
    ASSUME TypeOK, NEW r \in Request, req[r].pc # "idle", NEW p \in Pc, Finish(r, p)
    PROVE  /\ ReqOK'
           /\ req'[r].pc = p /\ req'[r].at = 0
           /\ req'[r].ip = req[r].ip /\ req'[r].device = req[r].device
           /\ req'[r].counter = req[r].counter
           /\ req'[r].window = req[r].window /\ req'[r].seen = req[r].seen
           /\ Others(r)
<1>1. ASSUME NEW s \in RequestState
      PROVE  LET u == [s EXCEPT !.pc = p, !.waiting = FALSE, !.at = 0]
             IN  /\ u \in RequestState
                 /\ u.pc = p /\ u.at = 0
                 /\ u.ip = s.ip /\ u.device = s.device /\ u.counter = s.counter
                 /\ u.window = s.window /\ u.seen = s.seen
  BY DEF RequestState
<1>2. req[r] \in RequestState
  BY DEF TypeOK, ReqOK
<1>3. QED BY <1>1, <1>2 DEF TypeOK, ReqOK, Others, Finish

\* Proceed changes pc and at of one request.
LEMMA ProceedStep ==
    ASSUME TypeOK, NEW r \in Request, req[r].pc # "idle", NEW p \in Pc, Proceed(r, p)
    PROVE  /\ ReqOK'
           /\ req'[r].pc = p /\ req'[r].at = clock
           /\ req'[r].ip = req[r].ip /\ req'[r].device = req[r].device
           /\ req'[r].counter = req[r].counter
           /\ req'[r].window = req[r].window /\ req'[r].seen = req[r].seen
           /\ Others(r)
<1>1. ASSUME NEW s \in RequestState
      PROVE  LET u == [s EXCEPT !.pc = p, !.at = clock]
             IN  /\ u \in RequestState
                 /\ u.pc = p /\ u.at = clock
                 /\ u.ip = s.ip /\ u.device = s.device /\ u.counter = s.counter
                 /\ u.window = s.window /\ u.seen = s.seen
  BY DEF RequestState, TypeOK
<1>2. req[r] \in RequestState
  BY DEF TypeOK, ReqOK
<1>3. QED BY <1>1, <1>2 DEF TypeOK, ReqOK, Others, Proceed

\* A passed device budget records its window.
LEMMA PassStep ==
    ASSUME TypeOK, NEW r \in Request, req[r].pc # "idle", NEW w \in Nat,
           req' = [req EXCEPT ![r] = [@ EXCEPT !.pc = "verify", !.at = clock, !.window = w]]
    PROVE  /\ ReqOK'
           /\ req'[r].pc = "verify" /\ req'[r].at = clock
           /\ req'[r].window = w /\ req'[r].device = req[r].device
           /\ req'[r].counter = req[r].counter /\ req'[r].seen = req[r].seen
           /\ Others(r)
<1>1. ASSUME NEW s \in RequestState
      PROVE  LET u == [s EXCEPT !.pc = "verify", !.at = clock, !.window = w]
             IN  /\ u \in RequestState
                 /\ u.pc = "verify" /\ u.at = clock
                 /\ u.window = w /\ u.ip = s.ip /\ u.device = s.device
                 /\ u.counter = s.counter /\ u.seen = s.seen
  BY DEF RequestState, TypeOK, Pc, Awaiting
<1>2. req[r] \in RequestState
  BY DEF TypeOK, ReqOK
<1>3. QED BY <1>1, <1>2 DEF TypeOK, ReqOK, Others

\* A matched code records when it was tested and what it matched.
LEMMA MatchStep ==
    ASSUME TypeOK, NEW r \in Request, req[r].pc # "idle", NEW n \in Nat, NEW c \in Nat,
           req' = [req EXCEPT ![r] = [@ EXCEPT !.pc = "claim", !.at = clock, !.seen = n, !.counter = c]]
    PROVE  /\ ReqOK'
           /\ req'[r].pc = "claim" /\ req'[r].at = clock
           /\ req'[r].seen = n /\ req'[r].counter = c
           /\ req'[r].ip = req[r].ip /\ req'[r].device = req[r].device
           /\ req'[r].window = req[r].window
           /\ Others(r)
<1>1. ASSUME NEW s \in RequestState
      PROVE  LET u == [s EXCEPT !.pc = "claim", !.at = clock, !.seen = n, !.counter = c]
             IN  /\ u \in RequestState
                 /\ u.pc = "claim" /\ u.at = clock
                 /\ u.seen = n /\ u.counter = c
                 /\ u.ip = s.ip /\ u.device = s.device /\ u.window = s.window
  BY DEF RequestState, TypeOK, Pc, Awaiting
<1>2. req[r] \in RequestState
  BY DEF TypeOK, ReqOK
<1>3. QED BY <1>1, <1>2 DEF TypeOK, ReqOK, Others

\* A code that matched nothing records when it was tested.
LEMMA MismatchStep ==
    ASSUME TypeOK, NEW r \in Request, req[r].pc # "idle", NEW n \in Nat,
           req' = [req EXCEPT ![r] = [@ EXCEPT !.pc = "rejected", !.waiting = FALSE, !.at = 0, !.seen = n]]
    PROVE  /\ ReqOK'
           /\ req'[r].pc = "rejected" /\ req'[r].at = 0
           /\ req'[r].seen = n /\ req'[r].device = req[r].device
           /\ req'[r].counter = req[r].counter /\ req'[r].window = req[r].window
           /\ Others(r)
<1>1. ASSUME NEW s \in RequestState
      PROVE  LET u == [s EXCEPT !.pc = "rejected", !.waiting = FALSE, !.at = 0, !.seen = n]
             IN  /\ u \in RequestState
                 /\ u.pc = "rejected" /\ u.at = 0
                 /\ u.seen = n /\ u.ip = s.ip /\ u.device = s.device
                 /\ u.counter = s.counter /\ u.window = s.window
  BY DEF RequestState, Pc, Refused
<1>2. req[r] \in RequestState
  BY DEF TypeOK, ReqOK
<1>3. QED BY <1>1, <1>2 DEF TypeOK, ReqOK, Others

\* A request whose caller gives up changes nothing but waiting.
LEMMA GiveUpStep ==
    ASSUME TypeOK, NEW r \in Request, req[r].pc # "idle",
           req' = [req EXCEPT ![r] = [@ EXCEPT !.waiting = FALSE]]
    PROVE  /\ ReqOK'
           /\ req'[r].pc = req[r].pc /\ req'[r].at = req[r].at
           /\ req'[r].ip = req[r].ip /\ req'[r].device = req[r].device
           /\ req'[r].counter = req[r].counter
           /\ req'[r].window = req[r].window /\ req'[r].seen = req[r].seen
           /\ Others(r)
<1>1. ASSUME NEW s \in RequestState
      PROVE  LET u == [s EXCEPT !.waiting = FALSE]
             IN  /\ u \in RequestState
                 /\ u.pc = s.pc /\ u.at = s.at
                 /\ u.ip = s.ip /\ u.device = s.device /\ u.counter = s.counter
                 /\ u.window = s.window /\ u.seen = s.seen
  BY DEF RequestState
<1>2. req[r] \in RequestState
  BY DEF TypeOK, ReqOK
<1>3. QED BY <1>1, <1>2 DEF TypeOK, ReqOK, Others

\* A crash ends the requests at the verifier and orphans the commands of others.
LEMMA CrashStep ==
    ASSUME TypeOK, Crash
    PROVE  /\ ReqOK'
           /\ \A r \in Request :
                /\ req'[r].ip = req[r].ip /\ req'[r].device = req[r].device
                /\ req'[r].counter = req[r].counter
                /\ req'[r].window = req[r].window /\ req'[r].seen = req[r].seen
                /\ \/ req[r].pc = "verify" /\ req'[r].pc = "lost"
                   \/ req'[r].pc = req[r].pc /\ req'[r].at = req[r].at
<1>1. \A r \in Request : req[r] \in RequestState
  BY DEF TypeOK, ReqOK
<1>2. ASSUME NEW s \in RequestState
      PROVE  /\ [s EXCEPT !.waiting = FALSE] \in RequestState
             /\ [s EXCEPT !.pc = "lost", !.waiting = FALSE, !.at = 0] \in RequestState
  BY DEF RequestState, Pc, Refused
<1>3. req' \in [Request -> RequestState]
  BY <1>1, <1>2 DEF Crash
<1>4. ASSUME NEW s \in RequestState
      PROVE  /\ [s EXCEPT !.waiting = FALSE].ip = s.ip
             /\ [s EXCEPT !.waiting = FALSE].device = s.device
             /\ [s EXCEPT !.waiting = FALSE].counter = s.counter
             /\ [s EXCEPT !.waiting = FALSE].window = s.window
             /\ [s EXCEPT !.waiting = FALSE].seen = s.seen
             /\ [s EXCEPT !.waiting = FALSE].pc = s.pc
             /\ [s EXCEPT !.waiting = FALSE].at = s.at
  BY DEF RequestState
<1>5. ASSUME NEW s \in RequestState
      PROVE  LET u == [s EXCEPT !.pc = "lost", !.waiting = FALSE, !.at = 0]
             IN  /\ u.ip = s.ip /\ u.device = s.device /\ u.counter = s.counter
                 /\ u.window = s.window /\ u.seen = s.seen /\ u.pc = "lost"
  BY DEF RequestState
<1>6. \A r \in Request :
         /\ req'[r].ip = req[r].ip /\ req'[r].device = req[r].device
         /\ req'[r].counter = req[r].counter
         /\ req'[r].window = req[r].window /\ req'[r].seen = req[r].seen
         /\ \/ req[r].pc = "verify" /\ req'[r].pc = "lost"
            \/ req'[r].pc = req[r].pc /\ req'[r].at = req[r].at
  BY <1>1, <1>4, <1>5 DEF Crash
<1>7. QED BY <1>3, <1>6 DEF TypeOK, ReqOK

-----------------------------------------------------------------------------
(* Types.                                                                  *)

\* Incr keeps the counters typed.
LEMMA IncrType ==
    ASSUME TypeOK, NEW k \in Key, NEW ttl \in Nat, Incr(k, ttl)
    PROVE  HitsOK'
<1>1. Count(k) + 1 \in Nat /\ clock + ttl \in Nat
  BY DEF TypeOK, HitsOK, Count
<1>2. QED BY <1>1 DEF Incr, TypeOK, HitsOK

\* Every variable keeps its type in every reachable state of Login.
THEOREM TypeCorrect == Spec => []TypeOK
<1>1. Init => TypeOK
  BY LoginAssumption DEF Init, TypeOK, ReqOK, HitsOK, UsedOK, RequestState, Idle, Pc, Unused
<1>2. TypeOK /\ [Next]_vars => TypeOK'
  <2> SUFFICES ASSUME TypeOK, [Next]_vars PROVE TypeOK'
    OBVIOUS
  <2>0. /\ \A r \in Request : req[r] \in RequestState
        /\ clock \in Nat
    BY DEF TypeOK, ReqOK
  <2>1. ASSUME NEW r \in Request, NEW ip \in Ip, NEW d \in Device,
               NEW code \in Code \cup {Malformed}, Post(r, ip, d, code)
        PROVE  TypeOK'
    <3>1. ReqOK'
      BY <2>1 DEF Post, TypeOK, ReqOK, RequestState, Idle, Pc, Awaiting
    <3>2. QED BY <2>1, <3>1 DEF Post, TypeOK, HitsOK, UsedOK
  <2>2. ASSUME NEW r \in Request, AllowIp(r) PROVE TypeOK'
    <3>1. ReqOK'
      BY <2>2, Outcomes, FinishStep, ProceedStep DEF AllowIp
    <3>2. IpKey(req[r].ip, req[r].at) \in Key
      <4>1. req[r].at \in Nat /\ req[r].ip \in Ip
        BY <2>2, <2>0 DEF AllowIp, TypeOK, ReqOK, RequestState
      <4>2. req[r].at \div Minute \in Nat
        BY <4>1, LoginAssumption
      <4>3. QED BY <4>1, <4>2 DEF IpKey, Key
    <3>3. HitsOK'
      BY <2>2, <3>2, IncrType, LoginAssumption DEF AllowIp
    <3>4. QED BY <2>2, <3>1, <3>3 DEF AllowIp, TypeOK, UsedOK
  <2>3. ASSUME NEW r \in Request, AllowDevice(r) PROVE TypeOK'
    <3>1. Window(req[r].at) \in Nat
      BY <2>0, WindowType DEF RequestState
    <3>2. ReqOK'
      BY <2>3, <3>1, Outcomes, FinishStep, PassStep DEF AllowDevice
    <3>3. DeviceKey(req[r].device, Window(req[r].at)) \in Key
      BY <2>3, <3>1 DEF AllowDevice, DeviceKey, Key, TypeOK, ReqOK
    <3>4. HitsOK'
      BY <2>3, <3>3, IncrType, LoginAssumption DEF AllowDevice, DeviceTtl
    <3>5. QED BY <2>3, <3>2, <3>4 DEF AllowDevice, TypeOK, UsedOK
  <2>4. ASSUME NEW r \in Request, Verify(r) PROVE TypeOK'
    <3>1. /\ Window(clock) \in Nat
          /\ \A c \in Matching(req[r].device, req[r].code, Window(clock)) : c \in Nat
      BY WindowType, WindowPositive DEF Matching, TypeOK
    <3>2. ReqOK'
      BY <2>4, <3>1, MatchStep, MismatchStep DEF Verify
    <3>3. QED BY <2>4, <3>2 DEF Verify, TypeOK, HitsOK, UsedOK
  <2>5. ASSUME NEW r \in Request, VerifierRefuses(r) PROVE TypeOK'
    <3>1. ReqOK'
      BY <2>5, Outcomes, FinishStep DEF VerifierRefuses
    <3>2. QED BY <2>5, <3>1 DEF VerifierRefuses, TypeOK, HitsOK, UsedOK
  <2>6. ASSUME NEW r \in Request, Claim(r) PROVE TypeOK'
    <3>1. ReqOK'
      BY <2>6, Outcomes, FinishStep, ProceedStep DEF Claim
    <3>2. clock + ClaimTtl \in Nat /\ req[r].counter \in Nat
      BY <2>0, ClaimWindow DEF RequestState
    <3>3. UsedOK'
      BY <2>6, <3>2 DEF Claim, TypeOK, UsedOK
    <3>4. QED BY <2>6, <3>1, <3>3 DEF Claim, TypeOK, HitsOK
  <2>7. ASSUME NEW r \in Request, CreateSession(r) PROVE TypeOK'
    <3>1. ReqOK'
      BY <2>7, Outcomes, FinishStep DEF CreateSession
    <3>2. QED BY <2>7, <3>1 DEF CreateSession, TypeOK, HitsOK, UsedOK
  <2>8. ASSUME NEW r \in Request, GiveUp(r) PROVE TypeOK'
    <3>1. ReqOK'
      BY <2>8, Outcomes, FinishStep, GiveUpStep DEF GiveUp, TimesOut, Pending, Awaiting
    <3>2. QED BY <2>8, <3>1 DEF GiveUp, TypeOK, HitsOK, UsedOK
  <2>9. ASSUME NEW r \in Request, Lose(r) PROVE TypeOK'
    <3>1. ReqOK'
      BY <2>9, Outcomes, FinishStep DEF Lose, Pending, Awaiting
    <3>2. QED BY <2>9, <3>1 DEF Lose, TypeOK, HitsOK, UsedOK
  <2>10. CASE Crash
    BY <2>10, CrashStep DEF Crash, TypeOK, HitsOK, UsedOK
  <2>11. CASE Tick
    <3>1. ReqOK' /\ clock' \in Nat /\ clock' >= StartTime
      BY <2>11, LoginAssumption DEF Tick, TypeOK, ReqOK
    <3>2. HitsOK'
      BY <2>11 DEF Tick, TypeOK, HitsOK, Restrict
    <3>3. UsedOK'
      BY <2>11 DEF Tick, TypeOK, UsedOK, Unused
    <3>4. QED BY <3>1, <3>2, <3>3 DEF TypeOK
  <2>12. CASE UNCHANGED vars
    BY <2>12 DEF vars, TypeOK, ReqOK, HitsOK, UsedOK
  <2>13. QED
    BY <2>1, <2>2, <2>3, <2>4, <2>5, <2>6, <2>7, <2>8, <2>9, <2>10, <2>11, <2>12
       DEF Next, Handle, Terminating
<1>3. QED BY <1>1, <1>2, PTL DEF Spec

-----------------------------------------------------------------------------
(* One login per counter.                                                  *)

\* What a step that claims nothing may do to a request.
Unmoved(r) ==
    /\ req'[r].pc \in {"session", "in", "burnt", "orphan"} =>
         /\ Claimed(r)
         /\ req'[r].device = req[r].device /\ req'[r].counter = req[r].counter
    /\ req'[r].pc \in Awaiting =>
         \/ req'[r].at = clock
         \/ Pending(r) /\ req'[r].at = req[r].at
    /\ req'[r].pc = "claim" =>
         \/ req[r].pc = "claim" /\ req'[r].at = req[r].at /\ req'[r].counter = req[r].counter
         \/ /\ req'[r].counter =< Window(req'[r].at) + 1
            /\ Window(req'[r].at) =< req'[r].counter + 1

\* Steps that claim nothing preserve the invariant.
LEMMA UnmovedStep ==
    ASSUME TypeOK, ClaimInv, UNCHANGED <<clock, used>>, \A r \in Request : Unmoved(r)
    PROVE  ClaimInv'
<1>1. InFlight'
  BY LoginAssumption DEF TypeOK, ClaimInv, InFlight, Unmoved, Pending
<1>2. Fresh'
  BY DEF ClaimInv, Fresh, Unmoved
<1>3. LongEnough'
  BY DEF ClaimInv, LongEnough, Window
<1>4. \A r \in Request : Claimed(r)' =>
        /\ Claimed(r)
        /\ req'[r].device = req[r].device /\ req'[r].counter = req[r].counter
  BY DEF Unmoved, Claimed, Spoiled
<1>5. Remembered'
  BY <1>4 DEF ClaimInv, Remembered, Window
<1>6. OneLoginPerCounter'
  BY <1>4 DEF ClaimInv, OneLoginPerCounter
<1>7. QED BY <1>1, <1>2, <1>3, <1>5, <1>6 DEF ClaimInv

\* A request left alone, and one whose handler stops, is quiet.
LEMMA UnmovedOthers ==
    ASSUME NEW r \in Request, Others(r), ClaimInv
    PROVE  \A s \in Request \ {r} : Unmoved(s)
BY DEF Others, Unmoved, Claimed, Spoiled, Pending, ClaimInv, Fresh

\* The only counter that can be granted is newer than every one claimed so far.
LEMMA GrantedIsNewer ==
    ASSUME TypeOK, ClaimInv, NEW r \in Request, req[r].pc = "claim",
           Newer(req[r].device, req[r].counter),
           NEW s \in Request, Claimed(s), req[s].device = req[r].device
    PROVE  req[s].counter < req[r].counter
<1>1. /\ req[r].at \in Nat /\ req[r].counter \in Nat /\ req[s].counter \in Nat
      /\ clock \in Nat /\ req[r].device \in Device
      /\ used[req[r].device].counter \in Nat \cup {-1}
  BY DEF TypeOK, ReqOK, RequestState, UsedOK
<1>2. /\ Window(clock) \in Nat /\ Window(req[r].at) \in Nat
      /\ Window(clock) =< Window(req[r].at) + 1
  BY CommandWindow DEF ClaimInv, Pending, Awaiting
<1>3. Window(req[r].at) =< req[r].counter + 1
  BY DEF ClaimInv, Fresh
<1>4. CASE used[req[r].device].counter >= req[s].counter
  BY <1>1, <1>4 DEF Newer
<1>5. CASE Window(clock) >= req[s].counter + 3
  BY <1>1, <1>2, <1>3, <1>5
<1>6. QED BY <1>4, <1>5 DEF ClaimInv, Remembered

\* Granting a claim preserves the invariant.
LEMMA GrantStep ==
    ASSUME TypeOK, ClaimInv, NEW r \in Request, req[r].pc = "claim",
           Newer(req[r].device, req[r].counter),
           used' = [used EXCEPT ![req[r].device] =
                      [counter |-> req[r].counter, until |-> clock + ClaimTtl]],
           UNCHANGED clock, Others(r),
           req'[r].device = req[r].device, req'[r].counter = req[r].counter,
           \/ req'[r].pc = "burnt"
           \/ req'[r].pc = "session" /\ req'[r].at = clock
    PROVE  ClaimInv'
<1> DEFINE d == req[r].device
           c == req[r].counter
<1>1. /\ clock \in Nat /\ c \in Nat /\ d \in Device /\ req[r].at \in Nat
      /\ used \in [Device -> [counter : Nat \cup {-1}, until : Nat]]
      /\ \A s \in Request : req[s].counter \in Nat
  BY DEF TypeOK, ReqOK, RequestState, UsedOK
<1>2. used'[d].counter = c /\ used'[d].until = clock + ClaimTtl
  BY <1>1
<1>3. \A e \in Device \ {d} : used'[e] = used[e]
  BY <1>1
<1>4. \A s \in Request \ {r} : (Claimed(s)' <=> Claimed(s)) /\ req'[s] = req[s]
  BY DEF Others, Claimed
<1>5. \A s \in Request \ {r} : (Claimed(s) /\ req[s].device = d) => req[s].counter < c
  BY GrantedIsNewer
<1>6. InFlight'
  BY <1>1, <1>4, LoginAssumption DEF ClaimInv, InFlight, Pending, Awaiting
<1>7. Fresh'
  BY <1>4 DEF ClaimInv, Fresh
<1>8. LongEnough'
  <2>1. Window(clock + ClaimTtl) = Window(clock) + 4 /\ Window(clock) \in Nat
    BY <1>1, ClaimWindow, WindowType
  <2>2. c =< Window(clock) + 1
    <3>1. req[r].at =< clock /\ c =< Window(req[r].at) + 1
      BY DEF ClaimInv, InFlight, Fresh, Pending, Awaiting
    <3>2. QED BY <1>1, <3>1, WindowMonotone, WindowType
  <2>3. \A e \in Device : used'[e].counter # -1 => Window(used'[e].until) >= used'[e].counter + 3
    BY <1>1, <1>2, <1>3, <2>1, <2>2 DEF ClaimInv, LongEnough
  <2>4. QED BY <2>3 DEF LongEnough, Window
<1>9. Remembered'
  <2>1. ASSUME NEW s \in Request, Claimed(s)'
        PROVE  \/ used'[req'[s].device].counter >= req'[s].counter
               \/ Window(clock) >= req'[s].counter + 3
    <3>1. CASE s = r
      BY <1>1, <1>2, <3>1
    <3>2. CASE s # r /\ req[s].device = d
      BY <1>1, <1>2, <1>4, <1>5, <2>1, <3>2
    <3>3. CASE s # r /\ req[s].device # d
      <4>1. Claimed(s) /\ req'[s] = req[s]
        BY <1>4, <2>1, <3>3
      <4>2. req[s].device \in Device
        BY <4>1 DEF TypeOK, ReqOK, Claimed, Spoiled
      <4>3. QED BY <1>3, <3>3, <4>1, <4>2 DEF ClaimInv, Remembered
    <3>4. QED BY <3>1, <3>2, <3>3
  <2>2. QED BY <2>1 DEF Remembered, Window
<1>10. OneLoginPerCounter'
  BY <1>1, <1>4, <1>5 DEF ClaimInv, OneLoginPerCounter
<1>11. QED BY <1>6, <1>7, <1>8, <1>9, <1>10 DEF ClaimInv

\* The passing of time preserves the invariant: a claim that expires is three
\* windows old.
LEMMA TickStep ==
    ASSUME TypeOK, ClaimInv, Tick
    PROVE  ClaimInv'
<1>1. /\ clock \in Nat /\ clock' = clock + 1 /\ req' = req
      /\ used \in [Device -> [counter : Nat \cup {-1}, until : Nat]]
      /\ \A r \in Request : req[r].counter \in Nat /\ req[r].at \in Nat
  BY DEF TypeOK, ReqOK, RequestState, UsedOK, Tick
<1>2. InFlight'
  BY <1>1, LoginAssumption DEF ClaimInv, InFlight, Pending, Tick
<1>3. Fresh'
  BY <1>1 DEF ClaimInv, Fresh, Window
<1>4. LongEnough'
  BY <1>1 DEF ClaimInv, LongEnough, Window, Tick, Unused
<1>5. Remembered'
  <2>1. ASSUME NEW r \in Request, Claimed(r)
        PROVE  \/ used'[req[r].device].counter >= req[r].counter
               \/ Window(clock + 1) >= req[r].counter + 3
    <3> DEFINE d == req[r].device
    <3>1. d \in Device
      BY <2>1 DEF TypeOK, ReqOK, Claimed, Spoiled
    <3>2. Window(clock) \in Nat /\ Window(clock + 1) \in Nat /\ Window(clock + 1) >= Window(clock)
      BY <1>1, WindowType, WindowMonotone
    <3>3. CASE Window(clock) >= req[r].counter + 3
      BY <1>1, <3>2, <3>3
    <3>4. CASE used[d].counter >= req[r].counter /\ used[d].until > clock + 1
      BY <3>1, <3>4 DEF Tick
    <3>5. CASE used[d].counter >= req[r].counter /\ used[d].until =< clock + 1
      <4>1. /\ used[d].until \in Nat /\ used[d].counter \in Nat
            /\ Window(used[d].until) >= used[d].counter + 3
        BY <1>1, <3>1, <3>5 DEF ClaimInv, LongEnough
      <4>2. Window(used[d].until) =< Window(clock + 1) /\ Window(used[d].until) \in Nat
        BY <1>1, <3>5, <4>1, WindowMonotone, WindowType
      <4>3. QED BY <1>1, <3>2, <3>5, <4>1, <4>2
    <3>6. QED BY <1>1, <2>1, <3>1, <3>3, <3>4, <3>5 DEF ClaimInv, Remembered
  <2>2. QED BY <1>1, <2>1 DEF Remembered, Claimed, Window
<1>6. OneLoginPerCounter'
  BY <1>1 DEF ClaimInv, OneLoginPerCounter, Claimed
<1>7. QED BY <1>2, <1>3, <1>4, <1>5, <1>6 DEF ClaimInv

\* Every step of Login preserves the invariant.
LEMMA ClaimInvStep == TypeOK /\ ClaimInv /\ [Next]_vars => ClaimInv'
<1> SUFFICES ASSUME TypeOK, ClaimInv, [Next]_vars PROVE ClaimInv'
  OBVIOUS
<1>0. \A r \in Request : req[r] \in RequestState
  BY DEF TypeOK, ReqOK
<1>1. ASSUME NEW r \in Request, NEW ip \in Ip, NEW d \in Device,
             NEW code \in Code \cup {Malformed}, Post(r, ip, d, code)
      PROVE  ClaimInv'
  <2>1. req'[r].pc = "ip" /\ req'[r].at = clock /\ Others(r)
    BY <1>1 DEF Post, Idle, Others, TypeOK, ReqOK
  <2>2. Unmoved(r)
    BY <2>1 DEF Unmoved
  <2>3. QED BY <1>1, <2>1, <2>2, UnmovedOthers, UnmovedStep DEF Post
<1>2. ASSUME NEW r \in Request, AllowIp(r) PROVE ClaimInv'
  <2>1. Unmoved(r) /\ Others(r)
    BY <1>2, Outcomes, FinishStep, ProceedStep DEF AllowIp, Unmoved, Awaiting
  <2>2. QED BY <1>2, <2>1, UnmovedOthers, UnmovedStep DEF AllowIp
<1>3. ASSUME NEW r \in Request, AllowDevice(r) PROVE ClaimInv'
  <2>1. Window(req[r].at) \in Nat
    BY <1>0, WindowType DEF RequestState
  <2>2. Unmoved(r) /\ Others(r)
    BY <1>3, <2>1, Outcomes, FinishStep, PassStep DEF AllowDevice, Unmoved, Awaiting
  <2>3. QED BY <1>3, <2>2, UnmovedOthers, UnmovedStep DEF AllowDevice
<1>4. ASSUME NEW r \in Request, Verify(r) PROVE ClaimInv'
  <2>1. /\ Window(clock) \in Nat
        /\ \A c \in Matching(req[r].device, req[r].code, Window(clock)) :
              c \in Nat /\ c =< Window(clock) + 1 /\ Window(clock) =< c + 1
    BY WindowType, WindowPositive DEF Matching, TypeOK
  <2>2. Unmoved(r) /\ Others(r)
    <3>1. CASE req' = [req EXCEPT ![r] = [@ EXCEPT !.pc = "rejected", !.waiting = FALSE,
                                                   !.at = 0, !.seen = Window(clock)]]
      BY <1>4, <2>1, <3>1, MismatchStep DEF Verify, Unmoved, Awaiting
    <3>2. ASSUME NEW c \in Matching(req[r].device, req[r].code, Window(clock)),
                 req' = [req EXCEPT ![r] = [@ EXCEPT !.pc = "claim", !.at = clock,
                                                     !.seen = Window(clock), !.counter = c]]
          PROVE  Unmoved(r) /\ Others(r)
      <4>1. req[r].pc # "idle"
        BY <1>4 DEF Verify
      <4>2. /\ req'[r].pc = "claim" /\ req'[r].at = clock /\ req'[r].counter = c
            /\ Others(r)
        BY <2>1, <3>2, <4>1, MatchStep
      <4>3. QED BY <2>1, <4>2 DEF Unmoved
    <3>3. QED BY <1>4, <3>1, <3>2 DEF Verify
  <2>3. QED BY <1>4, <2>2, UnmovedOthers, UnmovedStep DEF Verify
<1>5. ASSUME NEW r \in Request, VerifierRefuses(r) PROVE ClaimInv'
  <2>1. Unmoved(r) /\ Others(r)
    BY <1>5, Outcomes, FinishStep DEF VerifierRefuses, Unmoved, Awaiting
  <2>2. QED BY <1>5, <2>1, UnmovedOthers, UnmovedStep DEF VerifierRefuses
<1>6. ASSUME NEW r \in Request, Claim(r) PROVE ClaimInv'
  <2>1. CASE Newer(req[r].device, req[r].counter)
    BY <1>6, <2>1, Outcomes, FinishStep, ProceedStep, GrantStep DEF Claim
  <2>2. CASE ~Newer(req[r].device, req[r].counter)
    <3>1. Unmoved(r) /\ Others(r)
      BY <1>6, <2>2, Outcomes, FinishStep DEF Claim, Unmoved, Awaiting
    <3>2. QED BY <1>6, <2>2, <3>1, UnmovedOthers, UnmovedStep DEF Claim
  <2>3. QED BY <2>1, <2>2
<1>7. ASSUME NEW r \in Request, CreateSession(r) PROVE ClaimInv'
  <2>1. Unmoved(r) /\ Others(r)
    BY <1>7, Outcomes, FinishStep DEF CreateSession, Unmoved, Awaiting, Claimed
  <2>2. QED BY <1>7, <2>1, UnmovedOthers, UnmovedStep DEF CreateSession
<1>8. ASSUME NEW r \in Request, GiveUp(r) PROVE ClaimInv'
  <2>1. Unmoved(r) /\ Others(r)
    BY <1>8, Outcomes, FinishStep, GiveUpStep
       DEF GiveUp, TimesOut, Unmoved, Awaiting, Pending, Claimed, Spoiled, ClaimInv, Fresh
  <2>2. QED BY <1>8, <2>1, UnmovedOthers, UnmovedStep DEF GiveUp
<1>9. ASSUME NEW r \in Request, Lose(r) PROVE ClaimInv'
  <2>1. Unmoved(r) /\ Others(r)
    BY <1>9, Outcomes, FinishStep DEF Lose, Unmoved, Awaiting, Pending, Claimed
  <2>2. QED BY <1>9, <2>1, UnmovedOthers, UnmovedStep DEF Lose
<1>10. CASE Crash
  <2>1. \A r \in Request : Unmoved(r)
    BY <1>10, CrashStep DEF Unmoved, Awaiting, Pending, Claimed, Spoiled, ClaimInv, Fresh
  <2>2. QED BY <1>10, <2>1, UnmovedStep DEF Crash
<1>11. CASE Tick
  BY <1>11, TickStep
<1>12. CASE UNCHANGED vars
  <2>1. \A r \in Request : Unmoved(r)
    BY <1>12 DEF vars, Unmoved, Pending, Claimed, Spoiled, ClaimInv, Fresh
  <2>2. QED BY <1>12, <2>1, UnmovedStep DEF vars
<1>13. QED
  BY <1>1, <1>2, <1>3, <1>4, <1>5, <1>6, <1>7, <1>8, <1>9, <1>10, <1>11, <1>12
     DEF Next, Handle, Terminating

\* A claim outlives every request that could still present its code, in every
\* reachable state.
THEOREM ClaimsOutliveCodes == Spec => []ClaimInv
<1>1. Init => ClaimInv
  BY DEF Init, Idle, Unused, ClaimInv, InFlight, Fresh, LongEnough, Remembered,
         OneLoginPerCounter, Pending, Claimed, Awaiting, Spoiled
<1>2. QED BY <1>1, ClaimInvStep, TypeCorrect, PTL DEF Spec

\* A code works once: no two requests ever log a device in with one counter,
\* whatever races, times out, runs late or expires.
THEOREM CodeWorksOnce == Spec => []OneLoginPerCounter
<1>1. ClaimInv => OneLoginPerCounter
  BY DEF ClaimInv
<1>2. QED BY <1>1, ClaimsOutliveCodes, PTL

-----------------------------------------------------------------------------
(* The budgets.                                                            *)

\* What a request has on record of its budget and of its test.  It is tested in
\* the window it was counted in or the one after: two lags fit in a step.
Marks(r) ==
    /\ Pending(r) => req[r].at >= StartTime
    /\ req[r].pc \in {"idle", "ip", "device"} => req[r].window = 0
    /\ req[r].pc \in {"idle", "ip", "device", "verify"} => req[r].seen = 0
    /\ req[r].pc = "verify" =>
         \E t \in Nat : /\ t >= StartTime /\ Window(t) = req[r].window
                        /\ t =< req[r].at /\ req[r].at =< t + MaxLag
    /\ req[r].seen # 0 => req[r].window # 0 /\ req[r].seen \in {req[r].window, req[r].window + 1}

\* The counter of a window counts the guesses that passed it.  When it is gone,
\* it is too late for another one to be counted there.
Kept(d, w) ==
    LET k == DeviceKey(d, w)
    IN  /\ IsFiniteSet(Guesses(d, w))
        /\ Cardinality(Guesses(d, w)) =< Attempts
        /\ k \in DOMAIN hits => /\ Cardinality(Guesses(d, w)) =< hits[k].n
                                /\ Window(hits[k].until) >= w + 2
        /\ k \notin DOMAIN hits => Guesses(d, w) = {} \/ Window(clock) >= w + 2

BudgetInv ==
    /\ \A r \in Request : Marks(r)
    /\ \A d \in Device, w \in Nat \ {0} : Kept(d, w)

\* Incr leaves the other counters alone.
LEMMA IncrOthers ==
    ASSUME NEW k, NEW ttl, Incr(k, ttl), NEW j, j # k
    PROVE  (j \in DOMAIN hits' <=> j \in DOMAIN hits) /\ (j \in DOMAIN hits => hits'[j] = hits[j])
BY DEF Incr

\* Incr adds one to its counter, and sets the expiry of a new one.
LEMMA IncrSelf ==
    ASSUME NEW k, NEW ttl, Incr(k, ttl)
    PROVE  /\ k \in DOMAIN hits'
           /\ k \in DOMAIN hits => hits'[k].n = hits[k].n + 1 /\ hits'[k].until = hits[k].until
           /\ k \notin DOMAIN hits => hits'[k].n = 1 /\ hits'[k].until = clock + ttl
BY DEF Incr, Count

\* Devices and windows have counters of their own.
LEMMA DeviceKeysDiffer ==
    ASSUME NEW d, NEW w, NEW e, NEW v
    PROVE  /\ DeviceKey(d, w) = DeviceKey(e, v) => d = e /\ w = v
           /\ \A ip, t : DeviceKey(d, w) # IpKey(ip, t)
BY DEF DeviceKey, IpKey

\* What a step that passes no device budget does to a request.
Unpassed(r) ==
    /\ req'[r].window = req[r].window
    /\ req[r].window # 0 => req'[r].device = req[r].device

\* Such a step leaves the guesses of every window alone.
LEMMA SameGuesses ==
    ASSUME \A r \in Request : Unpassed(r), NEW d \in Device, NEW w \in Nat \ {0}
    PROVE  Guesses(d, w)' = Guesses(d, w)
BY DEF Guesses, Unpassed

\* A step that passes no budget and touches no device counter keeps them all.
LEMMA KeptStep ==
    ASSUME BudgetInv, \A r \in Request : Unpassed(r), UNCHANGED clock,
           NEW d \in Device, NEW w \in Nat \ {0},
           DeviceKey(d, w) \in DOMAIN hits' <=> DeviceKey(d, w) \in DOMAIN hits,
           DeviceKey(d, w) \in DOMAIN hits => hits'[DeviceKey(d, w)] = hits[DeviceKey(d, w)]
    PROVE  Kept(d, w)'
<1>1. Guesses(d, w)' = Guesses(d, w)
  BY SameGuesses
<1>2. Kept(d, w)
  BY DEF BudgetInv
<1>3. QED BY <1>1, <1>2 DEF Kept, DeviceKey, Window

\* A request that is left alone keeps its marks, and its place in its budget.
LEMMA MarksOthers ==
    ASSUME BudgetInv, NEW r \in Request, Others(r)
    PROVE  \A s \in Request \ {r} : Marks(s)' /\ Unpassed(s)
BY DEF BudgetInv, Others, Marks, Unpassed, Pending, Window

\* So does one whose handler stops, gives up or goes on with what it has.
LEMMA MarksKept ==
    ASSUME BudgetInv, NEW r \in Request,
           req'[r].device = req[r].device, req'[r].window = req[r].window, req'[r].seen = req[r].seen,
           \/ req'[r].pc \notin Awaiting \cup {"idle"}
           \/ req'[r].pc = req[r].pc /\ req'[r].at = req[r].at
           \/ req'[r].pc \in {"claim", "session"} /\ req'[r].at >= StartTime
           \/ req'[r].pc = "device" /\ req'[r].at >= StartTime /\ req[r].pc = "ip"
    PROVE  Marks(r)' /\ Unpassed(r)
<1>1. Marks(r)
  BY DEF BudgetInv
<1>2. QED BY <1>1 DEF Marks, Unpassed, Pending, Awaiting, Window

\* Passing the device budget keeps the budgets.
LEMMA PassKeeps ==
    ASSUME TypeOK, InFlight, BudgetInv, NEW r \in Request, req[r].pc = "device",
           Incr(DeviceKey(req[r].device, Window(req[r].at)), DeviceTtl),
           Allowed(Count(DeviceKey(req[r].device, Window(req[r].at))) + 1, Attempts),
           UNCHANGED clock, Others(r),
           req'[r].device = req[r].device, req'[r].window = Window(req[r].at)
    PROVE  \A d \in Device, w \in Nat \ {0} : Kept(d, w)'
<1> DEFINE e == req[r].device
           v == Window(req[r].at)
           k == DeviceKey(e, v)
<1>1. /\ e \in Device /\ req[r].at \in Nat /\ clock \in Nat /\ v \in Nat
      /\ req[r].window = 0 /\ Attempts \in Nat
      /\ k \in DOMAIN hits => hits[k].n \in Nat
  BY WindowType, LoginAssumption
  DEF TypeOK, ReqOK, RequestState, HitsOK, BudgetInv, Marks
<1>2. v =< Window(clock) /\ Window(clock) =< v + 1 /\ Window(clock) \in Nat
  BY CommandWindow DEF Pending, Awaiting
<1>3. ASSUME NEW d \in Device, NEW w \in Nat \ {0}, d # e \/ w # v
      PROVE  Kept(d, w)'
  <2>1. DeviceKey(d, w) # k
    BY <1>3, DeviceKeysDiffer
  <2>2. Guesses(d, w)' = Guesses(d, w)
    BY <1>1, <1>3 DEF Guesses, Others
  <2>3. Kept(d, w)
    BY DEF BudgetInv
  <2>4. /\ DeviceKey(d, w) \in DOMAIN hits' <=> DeviceKey(d, w) \in DOMAIN hits
        /\ DeviceKey(d, w) \in DOMAIN hits => hits'[DeviceKey(d, w)] = hits[DeviceKey(d, w)]
    BY <2>1, IncrOthers
  <2>5. QED BY <2>2, <2>3, <2>4 DEF Kept, DeviceKey, Window
<1>4. ASSUME NEW d \in Device, NEW w \in Nat \ {0}, d = e, w = v PROVE Kept(d, w)'
  <2>1. Kept(d, w)
    BY DEF BudgetInv
  <2>2. Guesses(d, w)' = Guesses(d, w) \cup {r} /\ r \notin Guesses(d, w)
    BY <1>1, <1>4 DEF Guesses, Others
  <2>3. /\ IsFiniteSet(Guesses(d, w)') /\ Cardinality(Guesses(d, w)) \in Nat
        /\ Cardinality(Guesses(d, w)') = Cardinality(Guesses(d, w)) + 1
    BY <2>1, <2>2, FS_AddElement, FS_CardinalityType DEF Kept
  <2>4. CASE k \in DOMAIN hits
    <3>1. /\ k \in DOMAIN hits' /\ hits'[k].n = hits[k].n + 1 /\ hits'[k].until = hits[k].until
          /\ hits[k].n + 1 =< Attempts
      BY <2>4, IncrSelf DEF Allowed, Count
    <3>2. Cardinality(Guesses(d, w)) =< hits[k].n /\ Window(hits[k].until) >= w + 2
      BY <1>4, <2>1, <2>4 DEF Kept
    <3>3. QED BY <1>1, <1>4, <2>3, <2>4, <3>1, <3>2 DEF Kept, DeviceKey, Window
  <2>5. CASE k \notin DOMAIN hits
    <3>1. k \in DOMAIN hits' /\ hits'[k].n = 1 /\ hits'[k].until = clock + DeviceTtl /\ 1 =< Attempts
      BY <2>5, IncrSelf DEF Allowed, Count
    <3>2. Guesses(d, w) = {} /\ Cardinality(Guesses(d, w)) = 0
      BY <1>1, <1>2, <1>4, <2>1, <2>5, FS_EmptySet DEF Kept
    <3>3. Window(clock + DeviceTtl) >= w + 2
      BY <1>1, <1>2, <1>4, BudgetWindow
    <3>4. QED BY <1>1, <1>4, <2>3, <3>1, <3>2, <3>3 DEF Kept, DeviceKey, Window
  <2>6. QED BY <2>4, <2>5
<1>5. QED BY <1>1, <1>3, <1>4

\* Every step preserves the budgets.
LEMMA BudgetInvStep ==
    TypeOK /\ InFlight /\ BudgetInv /\ [Next]_vars => BudgetInv'
<1> SUFFICES ASSUME TypeOK, InFlight, BudgetInv, [Next]_vars PROVE BudgetInv'
  OBVIOUS
<1>0. /\ \A r \in Request : req[r] \in RequestState /\ Marks(r)
      /\ clock \in Nat /\ clock >= StartTime /\ StartTime \in Nat
  BY LoginAssumption DEF TypeOK, ReqOK, BudgetInv
<1>a. ASSUME UNCHANGED <<clock, hits>>, \A r \in Request : Marks(r)' /\ Unpassed(r) PROVE BudgetInv'
  BY <1>a, KeptStep DEF BudgetInv
<1>b. ASSUME NEW r \in Request, Others(r), Marks(r)', Unpassed(r), UNCHANGED <<clock, hits>>
      PROVE  BudgetInv'
  BY <1>a, <1>b, MarksOthers
<1>1. ASSUME NEW r \in Request, NEW ip \in Ip, NEW d \in Device,
             NEW code \in Code \cup {Malformed}, Post(r, ip, d, code)
      PROVE  BudgetInv'
  <2>1. /\ req'[r].pc = "ip" /\ req'[r].at = clock /\ req'[r].window = 0 /\ req'[r].seen = 0
        /\ Others(r) /\ req[r].window = 0
    BY <1>0, <1>1 DEF Post, Idle, Others, TypeOK, ReqOK, Marks
  <2>2. Marks(r)' /\ Unpassed(r)
    BY <1>0, <1>1, <2>1 DEF Marks, Unpassed, Pending
  <2>3. QED BY <1>1, <1>b, <2>1, <2>2 DEF Post
<1>2. ASSUME NEW r \in Request, AllowIp(r) PROVE BudgetInv'
  <2>1. Others(r) /\ Marks(r)' /\ Unpassed(r)
    BY <1>2, <1>0, Outcomes, FinishStep, ProceedStep, MarksKept DEF AllowIp, Awaiting
  <2>2. \A s \in Request : Marks(s)' /\ Unpassed(s)
    BY <2>1, MarksOthers
  <2>3. ASSUME NEW d \in Device, NEW w \in Nat \ {0} PROVE Kept(d, w)'
    <3>1. DeviceKey(d, w) # IpKey(req[r].ip, req[r].at)
      BY DeviceKeysDiffer
    <3>2. QED BY <1>2, <2>2, <3>1, IncrOthers, KeptStep DEF AllowIp
  <2>4. QED BY <2>2, <2>3 DEF BudgetInv
<1>3. ASSUME NEW r \in Request, AllowDevice(r) PROVE BudgetInv'
  <2> DEFINE v == Window(req[r].at)
             k == DeviceKey(req[r].device, v)
  <2>1. v \in Nat /\ req[r].at >= StartTime /\ req[r].at \in Nat /\ req[r].seen = 0
    BY <1>0, <1>3, WindowType DEF RequestState, AllowDevice, Marks, Pending, Awaiting
  <2>2. CASE Finish(r, "error") \/ Finish(r, "exhausted")
    <3>1. Others(r) /\ Marks(r)' /\ Unpassed(r)
      BY <1>3, <2>2, Outcomes, FinishStep, MarksKept DEF AllowDevice, Awaiting
    <3>2. \A s \in Request : Marks(s)' /\ Unpassed(s)
      BY <3>1, MarksOthers
    <3>3. ASSUME NEW d \in Device, NEW w \in Nat \ {0} PROVE Kept(d, w)'
      <4>1. CASE DeviceKey(d, w) # k
        BY <1>3, <3>2, <4>1, IncrOthers, KeptStep DEF AllowDevice
      <4>2. CASE DeviceKey(d, w) = k
        <5>1. Kept(d, w) /\ Guesses(d, w)' = Guesses(d, w)
          BY <3>2, SameGuesses DEF BudgetInv
        <5>2. d = req[r].device /\ w = v
          BY <4>2, DeviceKeysDiffer
        <5>3. CASE k \in DOMAIN hits
          <6>1. k \in DOMAIN hits' /\ hits'[k].n = hits[k].n + 1 /\ hits'[k].until = hits[k].until
            BY <1>3, <5>3, IncrSelf DEF AllowDevice
          <6>2. hits[k].n \in Nat
            BY <5>3 DEF TypeOK, HitsOK
          <6>3. Cardinality(Guesses(d, w)) \in Nat
            BY <5>1, FS_CardinalityType DEF Kept
          <6>4. QED BY <4>2, <5>1, <5>3, <6>1, <6>2, <6>3 DEF Kept, DeviceKey, Window
        <5>4. CASE k \notin DOMAIN hits
          <6>1. k \in DOMAIN hits' /\ hits'[k].n = 1 /\ hits'[k].until = clock + DeviceTtl
            BY <1>3, <5>4, IncrSelf DEF AllowDevice
          <6>2. v =< Window(clock) /\ Window(clock) =< v + 1 /\ Window(clock) \in Nat
            BY <1>3, CommandWindow DEF AllowDevice, Pending, Awaiting
          <6>3. Guesses(d, w) = {} /\ Cardinality(Guesses(d, w)) = 0
            BY <2>1, <4>2, <5>1, <5>2, <5>4, <6>2, FS_EmptySet DEF Kept
          <6>4. Window(clock + DeviceTtl) >= v + 2
            BY <1>0, <2>1, <6>2, BudgetWindow
          <6>5. QED BY <4>2, <5>1, <5>2, <6>1, <6>3, <6>4 DEF Kept, DeviceKey, Window
        <5>5. QED BY <5>3, <5>4
      <4>3. QED BY <4>1, <4>2
    <3>4. QED BY <3>2, <3>3 DEF BudgetInv
  <2>3. ASSUME Allowed(Count(k) + 1, Attempts),
               req' = [req EXCEPT ![r] = [@ EXCEPT !.pc = "verify", !.at = clock, !.window = v]]
        PROVE  BudgetInv'
    <3>1. /\ req'[r].pc = "verify" /\ req'[r].at = clock /\ req'[r].window = v
          /\ req'[r].device = req[r].device /\ req'[r].seen = 0 /\ Others(r)
      BY <1>3, <2>1, <2>3, PassStep DEF AllowDevice
    <3>2. Marks(r)'
      <4>1. req[r].at =< clock /\ clock =< req[r].at + MaxLag
        BY <1>3 DEF AllowDevice, InFlight, Pending, Awaiting
      <4>2. QED BY <1>0, <2>1, <3>1, <4>1 DEF Marks, Window
    <3>3. \A d \in Device, w \in Nat \ {0} : Kept(d, w)'
      BY <1>3, <2>3, <3>1, PassKeeps DEF AllowDevice
    <3>4. QED BY <3>1, <3>2, <3>3, MarksOthers DEF BudgetInv
  <2>4. QED BY <1>3, <2>2, <2>3 DEF AllowDevice
<1>4. ASSUME NEW r \in Request, Verify(r) PROVE BudgetInv'
  <2> DEFINE n == Window(clock)
  <2>1. n \in Nat /\ \A c \in Matching(req[r].device, req[r].code, n) : c \in Nat
    BY <1>0, WindowType, WindowPositive DEF Matching
  <2>2. req[r].window # 0 /\ n \in {req[r].window, req[r].window + 1}
    <3>1. PICK t \in Nat : /\ t >= StartTime /\ Window(t) = req[r].window
                           /\ t =< req[r].at /\ req[r].at =< t + MaxLag
      BY <1>0, <1>4 DEF Verify, Marks
    <3>2. req[r].at \in Nat /\ req[r].at =< clock /\ clock =< req[r].at + MaxLag
      BY <1>0, <1>4 DEF Verify, InFlight, Pending, Awaiting, RequestState
    <3>3. t =< clock /\ clock =< t + Step /\ t + Step \in Nat
      BY <1>0, <3>1, <3>2, LoginAssumption
    <3>4. Window(t) =< n /\ n =< Window(t) + 1 /\ Window(t) \in Nat /\ Window(t) >= 1
      BY <1>0, <3>1, <3>3, WindowMonotone, WindowShift, WindowType, WindowPositive
    <3>5. QED BY <2>1, <3>1, <3>4
  <2>3. /\ Others(r) /\ req'[r].window = req[r].window /\ req'[r].device = req[r].device
        /\ req'[r].seen = n
        /\ req'[r].pc = "rejected" \/ (req'[r].pc = "claim" /\ req'[r].at = clock)
    <3>1. req[r].pc # "idle"
      BY <1>4 DEF Verify
    <3>2. CASE req' = [req EXCEPT ![r] = [@ EXCEPT !.pc = "rejected", !.waiting = FALSE,
                                                   !.at = 0, !.seen = n]]
      BY <2>1, <3>1, <3>2, MismatchStep
    <3>3. ASSUME NEW c \in Matching(req[r].device, req[r].code, n),
                 req' = [req EXCEPT ![r] = [@ EXCEPT !.pc = "claim", !.at = clock,
                                                     !.seen = n, !.counter = c]]
          PROVE  /\ Others(r) /\ req'[r].window = req[r].window /\ req'[r].device = req[r].device
                 /\ req'[r].seen = n /\ req'[r].pc = "claim" /\ req'[r].at = clock
      BY <2>1, <3>1, <3>3, MatchStep
    <3>4. QED BY <1>4, <3>2, <3>3 DEF Verify
  <2>4. Marks(r)' /\ Unpassed(r)
    BY <1>0, <2>2, <2>3 DEF Marks, Unpassed, Pending, Awaiting
  <2>5. QED BY <1>4, <1>b, <2>3, <2>4 DEF Verify
<1>5. ASSUME NEW r \in Request,
             VerifierRefuses(r) \/ Claim(r) \/ CreateSession(r) \/ GiveUp(r) \/ Lose(r)
      PROVE  BudgetInv'
  <2>1. CASE VerifierRefuses(r)
    BY <2>1, <1>b, Outcomes, FinishStep, MarksKept DEF VerifierRefuses, Awaiting
  <2>2. CASE Claim(r)
    BY <2>2, <1>0, <1>b, Outcomes, FinishStep, ProceedStep, MarksKept DEF Claim, Awaiting
  <2>3. CASE CreateSession(r)
    BY <2>3, <1>b, Outcomes, FinishStep, MarksKept DEF CreateSession, Awaiting
  <2>4. CASE GiveUp(r)
    BY <2>4, <1>b, Outcomes, FinishStep, GiveUpStep, MarksKept DEF GiveUp, TimesOut, Pending, Awaiting
  <2>5. CASE Lose(r)
    BY <2>5, <1>b, Outcomes, FinishStep, MarksKept DEF Lose, Pending, Awaiting
  <2>6. QED BY <1>5, <2>1, <2>2, <2>3, <2>4, <2>5
<1>6. CASE Crash
  <2>1. \A r \in Request : Marks(r)' /\ Unpassed(r)
    BY <1>6, CrashStep, MarksKept DEF Awaiting
  <2>2. QED BY <1>6, <1>a, <2>1 DEF Crash
<1>7. CASE Tick
  <2>1. clock' = clock + 1 /\ req' = req
    BY <1>7 DEF Tick
  <2>2. \A r \in Request : Marks(r)'
    BY <1>0, <2>1 DEF Marks, Pending, Window
  <2>3. ASSUME NEW d \in Device, NEW w \in Nat \ {0} PROVE Kept(d, w)'
    <3> DEFINE k == DeviceKey(d, w)
    <3>1. Kept(d, w) /\ Guesses(d, w)' = Guesses(d, w)
      BY <2>1 DEF BudgetInv, Guesses
    <3>2. /\ k \in DOMAIN hits' => k \in DOMAIN hits /\ hits'[k] = hits[k]
          /\ k \in DOMAIN hits /\ k \notin DOMAIN hits' => hits[k].until =< clock + 1
      BY <1>0, <1>7 DEF Tick, Restrict, TypeOK, HitsOK
    <3>3. Window(clock) \in Nat /\ Window(clock + 1) \in Nat /\ Window(clock) =< Window(clock + 1)
      BY <1>0, WindowType, WindowMonotone
    <3>4. CASE k \in DOMAIN hits'
      BY <3>1, <3>2, <3>4 DEF Kept, DeviceKey, Window
    <3>5. CASE k \notin DOMAIN hits' /\ k \in DOMAIN hits
      <4>1. hits[k].until \in Nat /\ hits[k].until =< clock + 1 /\ Window(hits[k].until) >= w + 2
        BY <3>1, <3>2, <3>5 DEF Kept, TypeOK, HitsOK
      <4>2. Window(hits[k].until) \in Nat /\ Window(hits[k].until) =< Window(clock + 1)
        BY <1>0, <4>1, WindowType, WindowMonotone
      <4>3. Window(clock + 1) >= w + 2
        BY <3>3, <4>1, <4>2
      <4>4. QED BY <2>1, <3>1, <3>5, <4>3 DEF Kept, DeviceKey, Window
    <3>6. CASE k \notin DOMAIN hits
      <4>1. Guesses(d, w) = {} \/ Window(clock + 1) >= w + 2
        BY <3>1, <3>3, <3>6 DEF Kept
      <4>2. QED BY <2>1, <3>1, <3>2, <3>6, <4>1 DEF Kept, DeviceKey, Window
    <3>7. QED BY <3>4, <3>5, <3>6
  <2>4. QED BY <2>2, <2>3 DEF BudgetInv
<1>8. CASE UNCHANGED vars
  <2>1. \A r \in Request : Marks(r)' /\ Unpassed(r)
    BY <1>0, <1>8 DEF vars, Marks, Unpassed, Pending, Window
  <2>2. QED BY <1>8, <1>a, <2>1 DEF vars
<1>9. QED
  BY <1>1, <1>2, <1>3, <1>4, <1>5, <1>6, <1>7, <1>8 DEF Next, Handle, Terminating

\* In every reachable state the counters of the budgets count what passed them.
THEOREM BudgetsAreKept == Spec => []BudgetInv
<1>1. Init => BudgetInv
  <2> SUFFICES ASSUME Init PROVE BudgetInv
    OBVIOUS
  <2>1. \A d \in Device, w \in Nat \ {0} : Guesses(d, w) = {}
    BY DEF Init, Idle, Guesses
  <2>2. \A r \in Request : Marks(r)
    BY DEF Init, Idle, Marks, Pending, Awaiting
  <2>3. DOMAIN hits = {} /\ Attempts \in Nat
    BY LoginAssumption DEF Init
  <2>4. QED BY <2>1, <2>2, <2>3, FS_EmptySet DEF BudgetInv, Kept
<1>2. ClaimInv => InFlight
  BY DEF ClaimInv
<1>3. QED BY <1>1, <1>2, BudgetInvStep, TypeCorrect, ClaimsOutliveCodes, PTL DEF Spec

\* No window lets more than Attempts guesses at a device through, for any number
\* of requests and although the counter of the window expires.
THEOREM BudgetIsHeld == Spec => []BudgetHolds
<1>1. TypeOK /\ BudgetInv => BudgetHolds
  BY DEF TypeOK, ReqOK, RequestState, BudgetInv, Kept, BudgetHolds
<1>2. QED BY <1>1, TypeCorrect, BudgetsAreKept, PTL

\* The verifier tests at most two windows' worth of guesses in one step.
THEOREM GuessesAreBounded == Spec => []GuessesPerStep
<1>1. ASSUME TypeOK, BudgetInv, NEW d \in Device, NEW n \in Nat \ {0}
      PROVE  Cardinality(Tested(d, n)) =< 2 * Attempts
  <2> DEFINE A == IF n = 1 THEN {} ELSE Guesses(d, n - 1)
             B == Guesses(d, n)
  <2>1. /\ IsFiniteSet(A) /\ Cardinality(A) =< Attempts
        /\ IsFiniteSet(B) /\ Cardinality(B) =< Attempts
    BY <1>1, FS_EmptySet, LoginAssumption DEF BudgetInv, Kept
  <2>2. Tested(d, n) \subseteq A \cup B
    <3>1. ASSUME NEW r \in Request, req[r].device = d, req[r].seen = n PROVE r \in A \cup B
      <4>1. req[r].window \in Nat \ {0} /\ req[r].seen \in {req[r].window, req[r].window + 1}
        BY <1>1, <3>1 DEF BudgetInv, Marks, TypeOK, ReqOK, RequestState
      <4>2. req[r].window = n \/ (req[r].window = n - 1 /\ n # 1)
        BY <3>1, <4>1
      <4>3. QED BY <3>1, <4>2 DEF Guesses
    <3>2. QED BY <3>1 DEF Tested
  <2> HIDE DEF A, B
  <2>3. IsFiniteSet(A \cup B) /\ Cardinality(A \cup B) =< Cardinality(A) + Cardinality(B)
    <3>1. /\ IsFiniteSet(A \cup B)
          /\ Cardinality(A \cup B) = Cardinality(A) + Cardinality(B) - Cardinality(A \cap B)
      BY <2>1, FS_Union
    <3>2. IsFiniteSet(A \cap B)
      BY <2>1, FS_Subset
    <3>3. Cardinality(A) \in Nat /\ Cardinality(B) \in Nat /\ Cardinality(A \cap B) \in Nat
      BY <2>1, <3>2, FS_CardinalityType
    <3>4. QED BY <3>1, <3>3
  <2>4. Cardinality(Tested(d, n)) =< Cardinality(A \cup B) /\ IsFiniteSet(Tested(d, n))
    BY <2>2, <2>3, FS_Subset
  <2>5. /\ Cardinality(A) \in Nat /\ Cardinality(B) \in Nat /\ Cardinality(A \cup B) \in Nat
        /\ Cardinality(Tested(d, n)) \in Nat
    BY <2>1, <2>3, <2>4, FS_CardinalityType
  <2>6. QED BY <2>1, <2>3, <2>4, <2>5, LoginAssumption
<1>2. TypeOK /\ BudgetInv => GuessesPerStep
  BY <1>1 DEF TypeOK, ReqOK, RequestState, GuessesPerStep
<1>3. QED BY <1>2, TypeCorrect, BudgetsAreKept, PTL

-----------------------------------------------------------------------------
(* Login implements OneTimeLogin.                                          *)

\* What a step that neither spends a counter nor opens a session may do.
Steady(r) ==
    /\ Claimed(r)' <=> Claimed(r)
    /\ HasSession(r)' <=> HasSession(r)
    /\ Claimed(r) => req'[r].device = req[r].device /\ req'[r].counter = req[r].counter

\* Steady steps are stuttering steps of OneTimeLogin.
LEMMA SteadyStep ==
    ASSUME \A r \in Request : Steady(r)
    PROVE  UNCHANGED <<SpentCounters, OpenedSessions>>
<1>1. \A r \in Request : HasSession(r) => Claimed(r)
  BY DEF HasSession, Claimed, Spoiled
<1>2. SpentCounters' = SpentCounters
  <2>1. ASSUME NEW d \in Device
        PROVE  {req'[r].counter : r \in {x \in Request : Claimed(x)' /\ req'[x].device = d}}
               = {req[r].counter : r \in {x \in Request : Claimed(x) /\ req[x].device = d}}
    BY DEF Steady
  <2>2. QED BY <2>1 DEF SpentCounters
<1>3. OpenedSessions' = OpenedSessions
  BY <1>1 DEF OpenedSessions, Steady
<1>4. QED BY <1>2, <1>3

\* A request that is not touched is steady.
LEMMA SteadyOthers ==
    ASSUME NEW r \in Request, Others(r)
    PROVE  \A s \in Request \ {r} : Steady(s)
BY DEF Others, Steady, Claimed, HasSession

\* A request that has claimed nothing before and after a step is steady.
LEMMA SteadyUnclaimed ==
    ASSUME NEW r \in Request, req[r].pc \notin {"session", "in", "burnt", "orphan"},
           req'[r].pc \notin {"session", "in", "burnt", "orphan"}
    PROVE  Steady(r)
BY DEF Steady, Claimed, HasSession, Spoiled

\* A granted claim spends a counter newer than all before it.
LEMMA GrantSpends ==
    ASSUME TypeOK, ClaimInv, NEW r \in Request, req[r].pc = "claim",
           Newer(req[r].device, req[r].counter), Others(r),
           req'[r].device = req[r].device, req'[r].counter = req[r].counter,
           req'[r].pc \in {"burnt", "session"}
    PROVE  OneTime!Spend(req[r].device)
<1> DEFINE d == req[r].device
           c == req[r].counter
           Claimers(e) == {x \in Request : Claimed(x) /\ req[x].device = e}
           ClaimersAfter(e) == {x \in Request : Claimed(x)' /\ req'[x].device = e}
<1>1. d \in Device /\ c \in Nat
  BY DEF TypeOK, ReqOK, RequestState
<1>2. /\ ~Claimed(r) /\ Claimed(r)' /\ ~HasSession(r) /\ ~HasSession(r)'
      /\ \A s \in Request \ {r} : req'[s] = req[s] /\ (Claimed(s)' <=> Claimed(s))
                                  /\ (HasSession(s)' <=> HasSession(s))
  BY DEF Claimed, HasSession, Spoiled, Others
<1>3. ClaimersAfter(d) = Claimers(d) \cup {r}
  BY <1>2
<1>4. \A e \in Device \ {d} : ClaimersAfter(e) = Claimers(e)
  BY <1>2
<1>5. r \notin Claimers(d) /\ \A e \in Device \ {d} : r \notin Claimers(e)
  BY <1>2
<1>6. {req'[x].counter : x \in ClaimersAfter(d)} = {req[x].counter : x \in Claimers(d)} \cup {c}
  BY <1>2, <1>3, <1>5
<1>7. \A e \in Device \ {d} :
        {req'[x].counter : x \in ClaimersAfter(e)} = {req[x].counter : x \in Claimers(e)}
  BY <1>2, <1>4, <1>5
<1>8. SpentCounters' = [SpentCounters EXCEPT ![d] = @ \cup {c}]
  <2>1. SpentCounters' = [e \in Device |-> {req'[x].counter : x \in ClaimersAfter(e)}]
    BY DEF SpentCounters
  <2>2. SpentCounters = [e \in Device |-> {req[x].counter : x \in Claimers(e)}]
    BY DEF SpentCounters
  <2> HIDE DEF Claimers, ClaimersAfter, d, c
  <2>3. QED BY <1>1, <1>6, <1>7, <2>1, <2>2
<1>9. OpenedSessions' = OpenedSessions
  BY <1>2 DEF OpenedSessions
<1>10. \A old \in SpentCounters[d] : old < c
  BY <1>1, GrantedIsNewer DEF SpentCounters
<1>11. c \in SpentCounters'[d]
  BY <1>1, <1>8 DEF SpentCounters
<1>12. QED BY <1>1, <1>8, <1>9, <1>10, <1>11 DEF OneTime!Spend

\* A new session is the first of its counter.
LEMMA CreateOpens ==
    ASSUME TypeOK, ClaimInv, NEW r \in Request, req[r].pc = "session", Others(r),
           req'[r].device = req[r].device, req'[r].counter = req[r].counter,
           req'[r].pc \in {"in", "orphan"}
    PROVE  OneTime!Open
<1> DEFINE new == [attempt |-> r, device |-> req[r].device, counter |-> req[r].counter]
<1>1. req[r].device \in Device /\ req[r].counter \in Nat
  BY DEF TypeOK, ReqOK, RequestState
<1>2. /\ Claimed(r) /\ Claimed(r)' /\ ~HasSession(r) /\ HasSession(r)'
      /\ \A s \in Request \ {r} : req'[s] = req[s] /\ (Claimed(s)' <=> Claimed(s))
                                  /\ (HasSession(s)' <=> HasSession(s))
  BY DEF Claimed, HasSession, Spoiled, Others
<1>3. OpenedSessions' = OpenedSessions \cup {new}
  BY <1>2 DEF OpenedSessions
<1>4. SpentCounters' = SpentCounters
  <2>1. ASSUME NEW e \in Device
        PROVE  {req'[x].counter : x \in {y \in Request : Claimed(y)' /\ req'[y].device = e}}
               = {req[x].counter : x \in {y \in Request : Claimed(y) /\ req[y].device = e}}
    BY <1>2
  <2>2. QED BY <2>1 DEF SpentCounters
<1>5. new.counter \in SpentCounters[new.device] /\ new \in OneTime!Session
  BY <1>1, <1>2 DEF SpentCounters, OneTime!Session
<1>6. \A old \in OpenedSessions : <<old.device, old.counter>> # <<new.device, new.counter>>
  <2>1. \A s \in Request : HasSession(s) => s # r /\ Claimed(s)
    BY <1>2 DEF HasSession, Claimed, Spoiled
  <2>2. QED BY <1>2, <2>1 DEF OpenedSessions, ClaimInv, OneLoginPerCounter
<1>7. QED BY <1>3, <1>4, <1>5, <1>6 DEF OneTime!Open

\* Every step of Login is a step of OneTimeLogin or leaves it alone.
LEMMA StepSimulation ==
    ASSUME TypeOK, ClaimInv, [Next]_vars
    PROVE  OneTime!Next \/ UNCHANGED <<SpentCounters, OpenedSessions>>
<1> DEFINE OneStep == OneTime!Next \/ UNCHANGED <<SpentCounters, OpenedSessions>>
<1>0. \A r \in Request : req[r] \in RequestState
  BY DEF TypeOK, ReqOK
<1>1. ASSUME NEW r \in Request, NEW ip \in Ip, NEW d \in Device,
             NEW code \in Code \cup {Malformed}, Post(r, ip, d, code)
      PROVE  OneStep
  <2>1. Others(r) /\ Steady(r)
    <3>1. req'[r].pc = "ip" /\ Others(r)
      BY <1>1 DEF Post, Idle, Others, TypeOK, ReqOK
    <3>2. QED BY <1>1, <3>1, SteadyUnclaimed DEF Post
  <2>2. QED BY <2>1, SteadyOthers, SteadyStep
<1>2. ASSUME NEW r \in Request, AllowIp(r) PROVE OneStep
  <2>1. Others(r) /\ Steady(r)
    BY <1>2, <1>0, Outcomes, FinishStep, ProceedStep, SteadyUnclaimed DEF AllowIp
  <2>2. QED BY <2>1, SteadyOthers, SteadyStep
<1>3. ASSUME NEW r \in Request, AllowDevice(r) PROVE OneStep
  <2>1. Window(req[r].at) \in Nat
    BY <1>0, WindowType DEF RequestState
  <2>2. Others(r) /\ Steady(r)
    BY <1>3, <2>1, Outcomes, FinishStep, PassStep, SteadyUnclaimed DEF AllowDevice
  <2>3. QED BY <2>2, SteadyOthers, SteadyStep
<1>4. ASSUME NEW r \in Request, Verify(r) PROVE OneStep
  <2>1. /\ Window(clock) \in Nat
        /\ \A c \in Matching(req[r].device, req[r].code, Window(clock)) : c \in Nat
    BY WindowType, WindowPositive DEF Matching, TypeOK
  <2>2. req'[r].pc \in {"rejected", "claim"} /\ Others(r)
    <3>1. req[r].pc # "idle"
      BY <1>4 DEF Verify
    <3>2. CASE req' = [req EXCEPT ![r] = [@ EXCEPT !.pc = "rejected", !.waiting = FALSE,
                                                   !.at = 0, !.seen = Window(clock)]]
      BY <2>1, <3>1, <3>2, MismatchStep
    <3>3. ASSUME NEW c \in Matching(req[r].device, req[r].code, Window(clock)),
                 req' = [req EXCEPT ![r] = [@ EXCEPT !.pc = "claim", !.at = clock,
                                                     !.seen = Window(clock), !.counter = c]]
          PROVE  req'[r].pc = "claim" /\ Others(r)
      BY <2>1, <3>1, <3>3, MatchStep
    <3>4. QED BY <1>4, <3>2, <3>3 DEF Verify
  <2>3. Steady(r)
    BY <1>4, <2>2, SteadyUnclaimed DEF Verify
  <2>4. QED BY <2>2, <2>3, SteadyOthers, SteadyStep
<1>5. ASSUME NEW r \in Request, VerifierRefuses(r) PROVE OneStep
  <2>1. Others(r) /\ Steady(r)
    BY <1>5, <1>0, Outcomes, FinishStep, SteadyUnclaimed DEF VerifierRefuses
  <2>2. QED BY <2>1, SteadyOthers, SteadyStep
<1>6. ASSUME NEW r \in Request, Claim(r) PROVE OneStep
  <2>1. CASE Newer(req[r].device, req[r].counter)
    <3>1. OneTime!Spend(req[r].device)
      BY <1>6, <2>1, Outcomes, FinishStep, ProceedStep, GrantSpends DEF Claim
    <3>2. req[r].device \in Device
      BY <1>6 DEF Claim, TypeOK, ReqOK
    <3>3. QED BY <3>1, <3>2 DEF OneTime!Next
  <2>2. CASE ~Newer(req[r].device, req[r].counter)
    <3>1. Others(r) /\ Steady(r)
      BY <1>6, <2>2, Outcomes, FinishStep, SteadyUnclaimed DEF Claim
    <3>2. QED BY <3>1, SteadyOthers, SteadyStep
  <2>3. QED BY <2>1, <2>2
<1>7. ASSUME NEW r \in Request, CreateSession(r) PROVE OneStep
  <2>1. OneTime!Open
    BY <1>7, Outcomes, FinishStep, CreateOpens DEF CreateSession
  <2>2. QED BY <2>1 DEF OneTime!Next
<1>8. ASSUME NEW r \in Request, GiveUp(r) PROVE OneStep
  <2>1. Others(r) /\ Steady(r)
    BY <1>8, Outcomes, FinishStep, GiveUpStep
       DEF GiveUp, TimesOut, Pending, Awaiting, Steady, Claimed, HasSession, Spoiled
  <2>2. QED BY <2>1, SteadyOthers, SteadyStep
<1>9. ASSUME NEW r \in Request, Lose(r) PROVE OneStep
  <2>1. Others(r) /\ Steady(r)
    BY <1>9, Outcomes, FinishStep
       DEF Lose, Pending, Awaiting, Steady, Claimed, HasSession, Spoiled
  <2>2. QED BY <2>1, SteadyOthers, SteadyStep
<1>10. CASE Crash
  <2>1. \A r \in Request : Steady(r)
    BY <1>10, CrashStep DEF Steady, Claimed, HasSession, Spoiled
  <2>2. QED BY <2>1, SteadyStep
<1>11. CASE UNCHANGED req
  <2>1. \A r \in Request : Steady(r)
    BY <1>11 DEF Steady, Claimed, HasSession
  <2>2. QED BY <2>1, SteadyStep
<1>12. QED
  BY <1>1, <1>2, <1>3, <1>4, <1>5, <1>6, <1>7, <1>8, <1>9, <1>10, <1>11
     DEF Next, Handle, Tick, Terminating, vars

\* Login implements one-time login: in every behaviour a device's counters are
\* spent in increasing order and each opens at most one session.
THEOREM LoginImplementsOneTimeLogin == Spec => ImplementsOneTimeLogin
<1>1. Init => OneTime!Init
  BY DEF Init, Idle, OneTime!Init, SpentCounters, OpenedSessions, Claimed, HasSession, Spoiled
<1>2. TypeOK /\ ClaimInv /\ [Next]_vars
        => [OneTime!Next]_<<SpentCounters, OpenedSessions>>
  BY StepSimulation
<1>3. QED BY <1>1, <1>2, TypeCorrect, ClaimsOutliveCodes, PTL
             DEF Spec, ImplementsOneTimeLogin, OneTime!Spec
=============================================================================
