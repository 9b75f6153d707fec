------------------------- MODULE MemoryLimiterProofs -------------------------
(***************************************************************************)
(* Proofs about LoginAlerts and MemoryLimiter for every set of requests,   *)
(* devices, addresses and codes and every length of an hour, a minute and  *)
(* a step:                                                                 *)
(*   AlertsAreCapped     no flood of failures makes more alerts than the   *)
(*                       cap of the hour                                   *)
(*   GuessingDoesShow    enough failures of a device have raised an alert  *)
(*   StoresDoAgree       the stores in memory answer as Redis does         *)
(***************************************************************************)
EXTENDS MemoryLimiter, LoginProofs

-----------------------------------------------------------------------------
(* Steps of the handler.                                                   *)

\* An hour is a natural number, never the one that stands for none.
LEMMA HourType == ASSUME NEW t \in Nat PROVE HourOf(t) \in Nat /\ HourOf(t) # Never
BY AlertAssumption DEF HourOf, Never

\* Hours follow the clock.
LEMMA HourMonotone ==
    ASSUME NEW t \in Nat, NEW u \in Nat, t =< u
    PROVE  HourOf(t) =< HourOf(u)
BY AlertAssumption DEF HourOf

\* A step of the handler of r is about r and its device, and takes no time.
LEMMA HandleStep ==
    ASSUME TypeOK, NEW r \in Request, Handle(r)
    PROVE  /\ req[r].device \in Device
           /\ req[r].pc # "idle" /\ req'[r].pc # "idle" /\ req'[r].device = req[r].device
           /\ Others(r) /\ clock' = clock
<1>0. /\ req[r] \in RequestState /\ clock \in Nat
      /\ \A p \in Pc : p = "idle" \/ p # "idle"
      /\ req[r].pc # "idle" => req[r].device \in Device
  BY DEF TypeOK, ReqOK
<1>1. CASE AllowIp(r)
  BY <1>0, <1>1, Outcomes, FinishStep, ProceedStep DEF AllowIp
<1>2. CASE AllowDevice(r)
  <2>1. Window(req[r].at) \in Nat
    BY <1>0, WindowType DEF RequestState
  <2>2. QED BY <1>0, <1>2, <2>1, Outcomes, FinishStep, PassStep DEF AllowDevice
<1>3. CASE Verify(r)
  <2>1. /\ Window(clock) \in Nat
        /\ \A c \in Matching(req[r].device, req[r].code, Window(clock)) : c \in Nat
    BY <1>0, WindowType, WindowPositive DEF Matching, TypeOK
  <2> DEFINE match == Matching(req[r].device, req[r].code, Window(clock))
  <2>2. req[r].pc = "verify" /\ clock' = clock
    BY <1>3 DEF Verify
  <2>3. CASE req' = [req EXCEPT ![r] = [@ EXCEPT !.pc = "rejected", !.waiting = FALSE,
                                               !.at = 0, !.seen = Window(clock)]]
    BY <1>0, <2>1, <2>2, <2>3, MismatchStep
  <2>4. ASSUME NEW c \in match,
               req' = [req EXCEPT ![r] = [@ EXCEPT !.pc = "claim", !.at = clock,
                                                   !.seen = Window(clock), !.counter = c]]
        PROVE  /\ req'[r].pc # "idle" /\ req'[r].device = req[r].device
               /\ Others(r)
    BY <1>0, <2>1, <2>2, <2>4, MatchStep
  <2>5. QED BY <1>0, <1>3, <2>2, <2>3, <2>4 DEF Verify
<1>4. CASE VerifierRefuses(r)
  BY <1>0, <1>4, Outcomes, FinishStep DEF VerifierRefuses
<1>5. CASE Claim(r)
  BY <1>0, <1>5, Outcomes, FinishStep, ProceedStep DEF Claim
<1>6. CASE CreateSession(r)
  BY <1>0, <1>6, Outcomes, FinishStep DEF CreateSession
<1>7. CASE GiveUp(r)
  BY <1>0, <1>7, Outcomes, FinishStep, GiveUpStep DEF GiveUp, TimesOut, Pending, Awaiting
<1>8. CASE Lose(r)
  BY <1>0, <1>8, Outcomes, FinishStep DEF Lose, Pending, Awaiting
<1>9. QED BY <1>1, <1>2, <1>3, <1>4, <1>5, <1>6, <1>7, <1>8 DEF Handle

\* A form that arrives takes an idle request, and no time.
LEMMA PostStep ==
    ASSUME TypeOK, NEW r \in Request, NEW ip, NEW d, NEW code, Post(r, ip, d, code)
    PROVE  /\ req[r].pc = "idle" /\ req'[r].pc = "ip" /\ req'[r].device = d
           /\ Others(r) /\ clock' = clock
BY DEF Post, Idle, Others, TypeOK, ReqOK

\* With its alerts, the pipeline is still the pipeline of Login.
LEMMA AlertingIsLogin == AlertingSpec => Spec
<1>1. AlertingInit => Init
  BY DEF AlertingInit
<1>2. [AlertingNext]_<<vars, alerter>> => [Next]_vars
  BY DEF AlertingNext, Sweep, Next
<1>3. QED BY <1>1, <1>2, PTL DEF AlertingSpec, Spec

\* Its variables keep their types.
LEMMA AlertingTypes == AlertingSpec => []TypeOK
BY AlertingIsLogin, TypeCorrect, PTL

-----------------------------------------------------------------------------
(* What has been raised.                                                   *)

Alerted == [kind : Kind, device : Device, hour : Nat]

\* The count of the hour is exact; lastAlert names alerts that were raised, and
\* all those of this hour.
RaisedInv ==
    /\ lastAlert \in [Kind \X Device -> Nat \cup {Never}]
    /\ global \in [hour : Nat \cup {Never}, count : Nat]
    /\ raised \in Seq(Alerted)
    /\ global.hour =< HourOf(clock)
    /\ \A i \in DOMAIN raised : raised[i].hour =< global.hour
    /\ \A h \in Nat \cup {Never} : IsFiniteSet(RaisedIn(h)) /\ Cardinality(RaisedIn(h)) =< GlobalPerHour
    /\ Cardinality(RaisedIn(global.hour)) = global.count
    /\ \A k \in Kind, d \in Device : lastAlert[k, d] # Never =>
          \E i \in DOMAIN raised : raised[i] = [kind |-> k, device |-> d, hour |-> lastAlert[k, d]]
    /\ \A i \in DOMAIN raised : raised[i].hour = HourOf(clock) =>
          lastAlert[raised[i].kind, raised[i].device] = HourOf(clock)
    /\ \A i, j \in DOMAIN raised : i # j => raised[i] # raised[j]

\* The alert of this kind was raised for d this hour, or the cap is used up.
Noticed(k, d) ==
    \/ \E i \in DOMAIN raised : raised[i] = [kind |-> k, device |-> d, hour |-> HourOf(clock)]
    \/ Cardinality(RaisedIn(HourOf(clock))) >= GlobalPerHour

\* An alert put at the end of a list is one more in its own hour.
LEMMA OneMoreRaised ==
    ASSUME NEW s \in Seq(Alerted), NEW x \in Alerted
    PROVE  /\ Append(s, x) \in Seq(Alerted)
           /\ DOMAIN Append(s, x) = DOMAIN s \cup {Len(s) + 1}
           /\ Len(s) + 1 \notin DOMAIN s
           /\ Append(s, x)[Len(s) + 1] = x
           /\ \A i \in DOMAIN s : Append(s, x)[i] = s[i]
OBVIOUS

\* The list holds alerts.
LEMMA RaisedAlerts == ASSUME RaisedInv PROVE \A i \in DOMAIN raised : raised[i] \in Alerted
<1>1. raised \in Seq(Alerted)
  BY DEF RaisedInv
<1>2. QED BY <1>1

\* Nothing happens to the list, the clock and the caps.
LEMMA RaisedStays ==
    ASSUME RaisedInv, UNCHANGED <<lastAlert, global, raised, clock>>
    PROVE  RaisedInv' /\ \A k \in Kind, d \in Device : Noticed(k, d)' = Noticed(k, d)
BY DEF RaisedInv, RaisedIn, HourOf, Noticed

\* alert() keeps the books, and what it was called for is noticed.
LEMMA AlertStep ==
    ASSUME TypeOK, RaisedInv, NEW kind \in Kind, NEW d \in Device, Alert(kind, d), clock' = clock
    PROVE  /\ RaisedInv' /\ Noticed(kind, d)'
           /\ \A k \in Kind, e \in Device : Noticed(k, e) => Noticed(k, e)'
<1>a. GlobalPerHour \in Nat /\ GlobalPerHour > 0
  BY AlertAssumption
<1>b. PICK h \in Nat : clock \in Nat /\ h # Never /\ HourOf(clock) = h /\ HourOf(clock') = h
  BY HourType DEF TypeOK
<1> DEFINE counted == IF global.hour = h THEN global.count ELSE 0
           x == [kind |-> kind, device |-> d, hour |-> h]
<1>c. /\ global.hour \in Nat \cup {Never} /\ global.count \in Nat /\ global.hour =< h
      /\ Never \in Int
  <2>1. global.hour \in Nat \cup {Never} /\ global.count \in Nat
    BY DEF RaisedInv
  <2>2. global.hour =< HourOf(clock)
    BY DEF RaisedInv
  <2>3. QED BY <1>b, <2>1, <2>2 DEF Never
<1>d. counted \in Nat /\ (global.hour = h => counted = global.count)
      /\ (counted # 0 => global.hour = h) /\ (global.hour # h => counted = 0)
  BY <1>c
<1>e. Alert(kind, d) <=>
        IF lastAlert[kind, d] = h THEN UNCHANGED <<lastAlert, global, raised>>
        ELSE \/ /\ TooMany(counted)
                /\ global' = [hour |-> h, count |-> counted]
                /\ UNCHANGED <<lastAlert, raised>>
             \/ /\ ~TooMany(counted)
                /\ global' = [hour |-> h, count |-> counted + 1]
                /\ lastAlert' = [lastAlert EXCEPT ![<<kind, d>>] = h]
                /\ raised' = Append(raised, x)
  BY <1>b DEF Alert
<1>f. x \in Alerted /\ x.kind = kind /\ x.device = d /\ x.hour = h
  BY <1>b DEF Alerted
<1> HIDE DEF counted
<1>0. /\ clock \in Nat /\ h \in Nat /\ h # Never /\ HourOf(clock) = h /\ HourOf(clock') = h
      /\ GlobalPerHour \in Nat /\ GlobalPerHour > 0
      /\ global.hour \in Nat \cup {Never} /\ global.count \in Nat /\ global.hour =< h
      /\ Never \in Int /\ counted \in Nat
  BY <1>a, <1>b, <1>c, <1>d
<1>1. CASE lastAlert[kind, d] = h
  <2>1. UNCHANGED <<lastAlert, global, raised>>
    BY <1>1, <1>e
  <2>2. Noticed(kind, d)
    BY <1>0, <1>1 DEF RaisedInv, Noticed
  <2>3. QED BY <2>1, <2>2, RaisedStays
<1>2. CASE lastAlert[kind, d] # h /\ TooMany(counted)
  <2>1. global.hour = h /\ counted = global.count /\ global.count >= GlobalPerHour
    <3>1. counted >= GlobalPerHour
      BY <1>2 DEF TooMany
    <3>2. counted # 0
      BY <1>0, <3>1
    <3>3. QED BY <1>d, <3>1, <3>2
  <2>2. /\ global' = [hour |-> global.hour, count |-> global.count]
        /\ UNCHANGED <<lastAlert, raised>>
    BY <1>2, <2>1, <1>e
  <2>3. global' = global
    BY <2>2 DEF RaisedInv
  <2>4. Noticed(kind, d)
    <3>1. Cardinality(RaisedIn(h)) = global.count
      BY <2>1 DEF RaisedInv
    <3>2. QED BY <1>0, <2>1, <3>1 DEF Noticed
  <2>5. QED BY <2>2, <2>3, <2>4, RaisedStays
<1>3. CASE lastAlert[kind, d] # h /\ ~TooMany(counted)
  <2>1. /\ global' = [hour |-> h, count |-> counted + 1]
        /\ lastAlert' = [lastAlert EXCEPT ![<<kind, d>>] = h]
        /\ raised' = Append(raised, x)
        /\ counted < GlobalPerHour
    <3>1. ~(counted >= GlobalPerHour)
      BY <1>3 DEF TooMany
    <3>2. counted < GlobalPerHour
      BY <1>0, <3>1
    <3>3. QED BY <1>3, <1>e, <3>2
  <2> DEFINE new == Len(raised) + 1
  <2>2. x \in Alerted /\ raised \in Seq(Alerted)
    BY <1>f DEF RaisedInv
  <2>3. /\ raised' \in Seq(Alerted) /\ DOMAIN raised' = DOMAIN raised \cup {new}
        /\ new \notin DOMAIN raised /\ raised'[new] = x
        /\ \A i \in DOMAIN raised : raised'[i] = raised[i]
    BY <2>1, <2>2, OneMoreRaised
  <2> HIDE DEF new
  <2>4. \A i \in DOMAIN raised : raised[i] \in Alerted
    BY <2>2
  <2>5. \A g \in Nat \cup {Never} : g # h => RaisedIn(g)' = RaisedIn(g)
    BY <2>3 DEF RaisedIn
  <2>6. RaisedIn(h)' = RaisedIn(h) \cup {new} /\ new \notin RaisedIn(h)
    BY <2>3 DEF RaisedIn
  <2>7. IsFiniteSet(RaisedIn(h)) /\ Cardinality(RaisedIn(h)) = counted
    <3>1. CASE global.hour = h
      BY <1>0, <1>d, <3>1 DEF RaisedInv
    <3>2. CASE global.hour # h
      <4>1. RaisedIn(h) = {}
        <5>1. ASSUME NEW i \in DOMAIN raised PROVE raised[i].hour # h
          <6>1. raised[i].hour \in Nat
            BY <2>4 DEF Alerted
          <6>2. raised[i].hour =< global.hour
            BY DEF RaisedInv
          <6>3. QED BY <1>0, <3>2, <6>1, <6>2
        <5>2. QED BY <5>1 DEF RaisedIn
      <4>2. QED BY <1>d, <3>2, <4>1, FS_EmptySet
    <3>3. QED BY <3>1, <3>2
  <2>8. IsFiniteSet(RaisedIn(h)') /\ Cardinality(RaisedIn(h)') = counted + 1
    BY <2>6, <2>7, FS_AddElement
  <2>9. \A i \in DOMAIN raised : raised[i] # x
    <3>1. ASSUME NEW i \in DOMAIN raised, raised[i] = x PROVE FALSE
      <4>1. raised[i].hour = HourOf(clock)
        BY <1>0, <1>f, <3>1
      <4>2. lastAlert[kind, d] = h
        BY <1>0, <1>f, <3>1, <4>1 DEF RaisedInv
      <4>3. QED BY <1>3, <4>2
    <3>2. QED BY <3>1
  <2>10. global'.hour = h /\ global'.count = counted + 1
    BY <2>1
  <2>11. RaisedInv'
    <3>1. /\ lastAlert' \in [Kind \X Device -> Nat \cup {Never}]
          /\ global' \in [hour : Nat \cup {Never}, count : Nat]
          /\ raised' \in Seq(Alerted)
      <4>1. lastAlert' \in [Kind \X Device -> Nat \cup {Never}]
        BY <1>0, <2>1 DEF RaisedInv
      <4>2. counted + 1 \in Nat
        BY <1>0
      <4>3. global' \in [hour : Nat \cup {Never}, count : Nat]
        BY <1>0, <2>1, <4>2
      <4>4. QED BY <2>3, <4>1, <4>3
    <3>2. global'.hour =< HourOf(clock')
      BY <1>0, <2>10
    <3>3. \A i \in DOMAIN raised' : raised'[i].hour =< global'.hour
      <4>1. ASSUME NEW i \in DOMAIN raised PROVE raised[i].hour =< h
        <5>1. raised[i].hour \in Nat
          BY <2>4 DEF Alerted
        <5>2. raised[i].hour =< global.hour
          BY DEF RaisedInv
        <5>3. QED BY <1>0, <5>1, <5>2
      <4>2. h =< h
        BY <1>0
      <4>3. QED BY <1>f, <2>3, <2>10, <4>1, <4>2
    <3>4. \A g \in Nat \cup {Never} :
             IsFiniteSet(RaisedIn(g)') /\ Cardinality(RaisedIn(g)') =< GlobalPerHour
      <4>1. counted + 1 =< GlobalPerHour
        BY <1>0, <2>1
      <4>2. QED BY <2>5, <2>8, <4>1 DEF RaisedInv
    <3>5. Cardinality(RaisedIn(h)') = global'.count
      BY <2>8, <2>10
    <3>6. ASSUME NEW k \in Kind, NEW e \in Device, lastAlert'[k, e] # Never
          PROVE  \E i \in DOMAIN raised' :
                    raised'[i] = [kind |-> k, device |-> e, hour |-> lastAlert'[k, e]]
      <4>1. CASE k = kind /\ e = d
        <5>1. lastAlert'[k, e] = h
          BY <2>1, <4>1 DEF RaisedInv
        <5>2. QED BY <2>3, <4>1, <5>1
      <4>2. CASE ~(k = kind /\ e = d)
        <5>1. lastAlert'[k, e] = lastAlert[k, e]
          BY <2>1, <4>2 DEF RaisedInv
        <5>2. PICK i \in DOMAIN raised :
                 raised[i] = [kind |-> k, device |-> e, hour |-> lastAlert[k, e]]
          BY <3>6, <5>1 DEF RaisedInv
        <5>3. i \in DOMAIN raised' /\ raised'[i] = raised[i]
          BY <2>3
        <5>4. QED BY <5>1, <5>2, <5>3
      <4>3. QED BY <4>1, <4>2
    <3>7. ASSUME NEW i \in DOMAIN raised', raised'[i].hour = h
          PROVE  lastAlert'[raised'[i].kind, raised'[i].device] = h
      <4>1. raised'[i] \in Alerted
        BY <2>2, <2>3, <2>4
      <4>2. CASE i = new
        <5>1. raised'[i].kind = kind /\ raised'[i].device = d
          BY <1>f, <2>3, <4>2
        <5>2. QED BY <2>1, <5>1 DEF RaisedInv
      <4>3. CASE i # new
        <5>1. i \in DOMAIN raised /\ raised'[i] = raised[i]
          BY <2>3, <4>3
        <5>2. lastAlert[raised[i].kind, raised[i].device] = h
          BY <1>0, <3>7, <5>1 DEF RaisedInv
        <5>3. raised[i].kind \in Kind /\ raised[i].device \in Device
          BY <4>1, <5>1 DEF Alerted
        <5>4. QED BY <2>1, <5>1, <5>2, <5>3 DEF RaisedInv
      <4>4. QED BY <4>2, <4>3
    <3>8. \A i, j \in DOMAIN raised' : i # j => raised'[i] # raised'[j]
      BY <2>3, <2>9 DEF RaisedInv
    <3>9. RaisedIn(global.hour)' = RaisedIn(h)'
      BY <2>10 DEF RaisedIn
    <3>10. QED BY <1>0, <3>1, <3>2, <3>3, <3>4, <3>5, <3>6, <3>7, <3>8, <3>9 DEF RaisedInv, RaisedIn
  <2>12. Noticed(kind, d)'
    BY <1>0, <2>3 DEF Noticed
  <2>13. ASSUME NEW k \in Kind, NEW e \in Device, Noticed(k, e) PROVE Noticed(k, e)'
    <3>1. CASE \E i \in DOMAIN raised : raised[i] = [kind |-> k, device |-> e, hour |-> h]
      BY <1>0, <2>3, <3>1 DEF Noticed
    <3>2. CASE Cardinality(RaisedIn(h)) >= GlobalPerHour
      BY <1>0, <2>1, <2>7, <3>2
    <3>3. QED BY <1>0, <2>13, <3>1, <3>2 DEF Noticed
  <2>14. QED BY <2>11, <2>12, <2>13
<1>4. QED BY <1>1, <1>2, <1>3

\* The caps of an hour that is over bind nobody in the next.
LEMMA RaisedTick ==
    ASSUME TypeOK, RaisedInv, clock' = clock + 1, UNCHANGED <<lastAlert, global, raised>>
    PROVE  RaisedInv'
<1>1. PICK h \in Nat : HourOf(clock) = h
  BY HourType DEF TypeOK
<1>2. PICK g \in Nat : HourOf(clock') = g /\ h =< g
  BY <1>1, HourType, HourMonotone DEF TypeOK
<1>3. /\ raised' = raised /\ global' = global /\ lastAlert' = lastAlert
      /\ \A i \in Nat \cup {Never} : RaisedIn(i)' = RaisedIn(i)
      /\ RaisedIn(global.hour)' = RaisedIn(global.hour)
  BY DEF RaisedIn
<1>4. global.hour \in Int /\ global.hour =< h
  <2>1. global.hour \in Nat \cup {Never} /\ global.hour =< HourOf(clock)
    BY DEF RaisedInv
  <2>2. QED BY <1>1, <2>1 DEF Never
<1>5. \A i \in DOMAIN raised : raised[i].hour \in Nat /\ raised[i].hour =< global.hour
  BY RaisedAlerts DEF RaisedInv, Alerted
<1>6. global.hour =< g
  BY <1>2, <1>4
<1>7. ASSUME NEW i \in DOMAIN raised, raised[i].hour = g
      PROVE  lastAlert[raised[i].kind, raised[i].device] = g
  <2>1. g = h
    BY <1>2, <1>4, <1>5, <1>7
  <2>2. QED BY <1>1, <1>7, <2>1 DEF RaisedInv
<1>8. QED BY <1>2, <1>3, <1>6, <1>7 DEF RaisedInv

\* The sweep forgets nothing of this hour.
LEMMA RaisedSweep ==
    ASSUME TypeOK, RaisedInv, Sweep
    PROVE  RaisedInv' /\ \A k \in Kind, d \in Device : Noticed(k, d)' = Noticed(k, d)
<1>1. PICK h \in Nat : HourOf(clock) = h /\ HourOf(clock') = h /\ h # Never
  BY HourType DEF TypeOK, Sweep, vars
<1>2. /\ raised' = raised /\ global' = global
      /\ \A g \in Nat \cup {Never} : RaisedIn(g)' = RaisedIn(g)
      /\ RaisedIn(global.hour)' = RaisedIn(global.hour)
  BY DEF RaisedIn, Sweep
<1>3. ASSUME NEW k \in Kind, NEW d \in Device
      PROVE  /\ lastAlert'[k, d] \in {lastAlert[k, d], Never}
             /\ lastAlert[k, d] = h => lastAlert'[k, d] = h
  <2>1. lastAlert'[k, d] = IF Old(lastAlert[k, d]) THEN Never ELSE lastAlert[k, d]
    BY DEF Sweep
  <2>2. lastAlert[k, d] = h => ~Old(lastAlert[k, d])
    <3>1. ~(h < h)
      OBVIOUS
    <3>2. QED BY <1>1, <3>1 DEF Old
  <2>3. QED BY <2>1, <2>2
<1>4. lastAlert' \in [Kind \X Device -> Nat \cup {Never}]
  BY DEF Sweep, RaisedInv
<1>5. ASSUME NEW k \in Kind, NEW d \in Device, lastAlert'[k, d] # Never
      PROVE  \E i \in DOMAIN raised :
                raised[i] = [kind |-> k, device |-> d, hour |-> lastAlert'[k, d]]
  <2>1. lastAlert'[k, d] = lastAlert[k, d]
    BY <1>3, <1>5
  <2>2. QED BY <1>5, <2>1 DEF RaisedInv
<1>6. ASSUME NEW i \in DOMAIN raised, raised[i].hour = h
      PROVE  lastAlert'[raised[i].kind, raised[i].device] = h
  <2>1. raised[i].kind \in Kind /\ raised[i].device \in Device
    BY RaisedAlerts DEF Alerted
  <2>2. QED BY <1>1, <1>3, <1>6, <2>1 DEF RaisedInv
<1>7. RaisedInv'
  BY <1>1, <1>2, <1>4, <1>5, <1>6 DEF RaisedInv
<1>8. QED BY <1>1, <1>2, <1>7 DEF Noticed

\* A process that starts has raised nothing.
LEMMA RaisedEmpty == Empty /\ clock \in Nat => RaisedInv
<1> SUFFICES ASSUME Empty, clock \in Nat PROVE RaisedInv
  OBVIOUS
<1> USE DEF Empty
<1>1. HourOf(clock) \in Nat /\ global.hour = Never /\ global.count = 0
  BY HourType
<1>2. \A h : RaisedIn(h) = {}
  BY DEF RaisedIn
<1>3. IsFiniteSet({}) /\ Cardinality({}) = 0
  BY FS_EmptySet
<1>4. GlobalPerHour \in Nat
  BY AlertAssumption
<1>5. Never =< HourOf(clock) /\ 0 =< GlobalPerHour
  BY <1>1, <1>4 DEF Never
<1>6. \A h : IsFiniteSet(RaisedIn(h)) /\ Cardinality(RaisedIn(h)) = 0
  BY <1>2, <1>3
<1>7. DOMAIN raised = {} /\ raised \in Seq(Alerted)
  OBVIOUS
<1>8. \A k \in Kind, d \in Device : lastAlert[k, d] = Never
  OBVIOUS
<1>9. /\ lastAlert \in [Kind \X Device -> Nat \cup {Never}]
      /\ global \in [hour : Nat \cup {Never}, count : Nat]
  OBVIOUS
<1>10. QED BY <1>1, <1>5, <1>6, <1>7, <1>8, <1>9 DEF RaisedInv

-----------------------------------------------------------------------------
(* Failures.                                                               *)

FailuresNow(d) == IF failures[d].hour = HourOf(clock) THEN failures[d].count ELSE 0

\* The count of a device is no smaller than the failures of the hour, and when it
\* reaches the threshold, it has been noticed.
FailedInv ==
    /\ failures \in [Device -> [hour : Nat \cup {Never}, count : Nat]]
    /\ failedIn \in [Request -> Nat \cup {Never}]
    /\ \A d \in Device : failures[d].hour =< HourOf(clock)
    /\ \A r \in Request :
          failedIn[r] =< HourOf(clock) /\ (req[r].pc = "idle" => failedIn[r] = Never)
    /\ \A d \in Device :
          /\ IsFiniteSet(FailedNow(d)) /\ Cardinality(FailedNow(d)) =< FailuresNow(d)
          /\ FailuresNow(d) >= FailuresPerHour => Noticed("repeated-failures", d)

\* A step that counts no failure, while what was noticed stays noticed.
LEMMA FailedStays ==
    ASSUME FailedInv, UNCHANGED <<failures, failedIn, clock>>,
           \A r \in Request : \/ req'[r].pc # "idle" /\ req'[r].device = req[r].device
                             \/ req[r].pc = "idle"
                             \/ req'[r] = req[r],
           \A r \in Request : req'[r].pc = "idle" => req[r].pc = "idle",
           \A d \in Device : Noticed("repeated-failures", d) => Noticed("repeated-failures", d)',
           TypeOK
    PROVE  FailedInv'
<1>1. HourOf(clock) \in Nat /\ HourOf(clock) # Never /\ HourOf(clock') = HourOf(clock)
  BY HourType DEF TypeOK
<1>2. ASSUME NEW d \in Device PROVE FailedNow(d)' = FailedNow(d)
  BY <1>1 DEF FailedNow, FailedInv
<1>3. \A d \in Device : FailuresNow(d)' = FailuresNow(d)
  BY <1>1 DEF FailuresNow
<1>4. QED BY <1>1, <1>2, <1>3 DEF FailedInv

\* failure() counts the request that failed.
LEMMA FailureStep ==
    ASSUME TypeOK, RaisedInv, FailedInv, NEW r \in Request, Handle(r),
           Failure(req[r].device), failedIn' = [failedIn EXCEPT ![r] = HourOf(clock)]
    PROVE  FailedInv' /\ RaisedInv'
<1>1. PICK d \in Device : req[r].device = d
  BY HandleStep
<1>2. PICK h \in Nat : HourOf(clock) = h /\ HourOf(clock') = h /\ h # Never
  BY HandleStep, HourType DEF TypeOK
<1>3. PICK m \in Nat : m = FailuresNow(d)
  BY <1>1 DEF FailuresNow, FailedInv
<1>4. /\ failures' = [failures EXCEPT ![d] = [hour |-> h, count |-> m + 1]]
      /\ \/ m + 1 >= FailuresPerHour /\ Alert("repeated-failures", d)
         \/ m + 1 < FailuresPerHour /\ UNCHANGED <<lastAlert, global, raised>>
  BY <1>1, <1>2, <1>3 DEF Failure, FailuresNow
<1>5. RaisedInv' /\ \A e \in Device : Noticed("repeated-failures", e) => Noticed("repeated-failures", e)'
  BY <1>4, HandleStep, AlertStep, RaisedStays DEF Kind
<1>6. FailuresPerHour \in Nat
  BY AlertAssumption
<1>7. m + 1 >= FailuresPerHour => Noticed("repeated-failures", d)'
  <2>1. m + 1 < FailuresPerHour <=> ~(m + 1 >= FailuresPerHour)
    BY <1>6
  <2>2. QED BY <1>4, <2>1, HandleStep, AlertStep DEF Kind
<1>8. \A q \in Request : req'[q].device = req[q].device \/ q = r
  BY HandleStep DEF Others
<1>9. /\ failedIn'[r] = h /\ req'[r].device = d
      /\ \A q \in Request \ {r} : failedIn'[q] = failedIn[q] /\ req'[q] = req[q]
  BY <1>1, <1>2, HandleStep DEF FailedInv, Others
<1>10. ASSUME NEW e \in Device, e # d
       PROVE  FailedNow(e)' = FailedNow(e) /\ FailuresNow(e)' = FailuresNow(e)
  <2>1. FailedNow(e)' = FailedNow(e)
    BY <1>1, <1>2, <1>9, <1>10 DEF FailedNow
  <2>2. QED BY <1>2, <1>4, <1>10, <2>1 DEF FailuresNow, FailedInv
<1>11. FailedNow(d)' = FailedNow(d) \cup {r}
  BY <1>1, <1>2, <1>9 DEF FailedNow
<1>12. FailuresNow(d)' = m + 1
  BY <1>2, <1>4 DEF FailuresNow, FailedInv
<1>13. IsFiniteSet(FailedNow(d)') /\ Cardinality(FailedNow(d)') =< m + 1
  <2>1. IsFiniteSet(FailedNow(d)) /\ Cardinality(FailedNow(d)) =< m
    BY <1>3 DEF FailedInv
  <2>2. Cardinality(FailedNow(d)) \in Nat
    BY <2>1, FS_CardinalityType
  <2>3. /\ IsFiniteSet(FailedNow(d)')
        /\ Cardinality(FailedNow(d)') \in {Cardinality(FailedNow(d)), Cardinality(FailedNow(d)) + 1}
    BY <1>11, <2>1, FS_AddElement
  <2>4. QED BY <2>1, <2>2, <2>3
<1>14. /\ failures' \in [Device -> [hour : Nat \cup {Never}, count : Nat]]
       /\ failedIn' \in [Request -> Nat \cup {Never}]
  <2>1. m + 1 \in Nat
    OBVIOUS
  <2>2. QED BY <1>2, <1>4, <2>1 DEF FailedInv
<1>15. \A e \in Device : failures'[e].hour =< h
  <2>1. h =< h
    OBVIOUS
  <2>2. QED BY <1>2, <1>4, <2>1 DEF FailedInv
<1>16. \A q \in Request : failedIn'[q] =< h /\ (req'[q].pc = "idle" => failedIn'[q] = Never)
  <2>1. h =< h /\ req'[r].pc # "idle"
    BY HandleStep
  <2>2. QED BY <1>2, <1>9, <2>1 DEF FailedInv
<1>17. ASSUME NEW e \in Device
       PROVE  /\ IsFiniteSet(FailedNow(e)') /\ Cardinality(FailedNow(e)') =< FailuresNow(e)'
              /\ FailuresNow(e)' >= FailuresPerHour => Noticed("repeated-failures", e)'
  <2>1. CASE e = d
    BY <1>7, <1>12, <1>13, <2>1
  <2>2. CASE e # d
    BY <1>5, <1>10, <2>2 DEF FailedInv
  <2>3. QED BY <2>1, <2>2
<1>18. FailedInv'
  BY <1>2, <1>14, <1>15, <1>16, <1>17 DEF FailedInv
<1>19. QED BY <1>5, <1>18

\* A new hour starts with no failures.
LEMMA FailedTick ==
    ASSUME TypeOK, FailedInv, Tick, UNCHANGED <<failures, failedIn, raised>>
    PROVE  FailedInv'
<1>1. PICK h \in Nat : HourOf(clock) = h /\ h # Never
  BY HourType DEF TypeOK
<1>2. PICK g \in Nat : HourOf(clock') = g /\ h =< g /\ g # Never
  BY <1>1, HourType, HourMonotone DEF TypeOK, Tick
<1>3. req' = req /\ FailuresPerHour \in Nat /\ FailuresPerHour > 0
  BY AlertAssumption DEF Tick
<1>4. /\ \A d \in Device : failures[d].hour \in Int /\ failures[d].hour =< h
      /\ \A r \in Request : failedIn[r] \in Int /\ failedIn[r] =< h
  BY <1>1 DEF FailedInv, Never
<1>5. /\ \A d \in Device : failures'[d].hour =< g
      /\ \A r \in Request : failedIn'[r] =< g
  BY <1>1, <1>2, <1>4
<1>6. CASE g = h
  <2>1. ASSUME NEW d \in Device
        PROVE  /\ FailedNow(d)' = FailedNow(d) /\ FailuresNow(d)' = FailuresNow(d)
               /\ Noticed("repeated-failures", d)' = Noticed("repeated-failures", d)
    <3>1. \A i : RaisedIn(i)' = RaisedIn(i)
      BY DEF RaisedIn
    <3>2. RaisedIn(HourOf(clock))' = RaisedIn(HourOf(clock))
      BY <1>1, <1>2, <1>6 DEF RaisedIn
    <3>3. QED BY <1>1, <1>2, <1>3, <1>6, <3>2 DEF FailedNow, FailuresNow, Noticed
  <2>2. QED BY <1>2, <1>3, <1>5, <2>1 DEF FailedInv
<1>7. CASE g # h
  <2>1. ASSUME NEW d \in Device
        PROVE  FailedNow(d)' = {} /\ FailuresNow(d)' = 0
    <3>1. \A r \in Request : failedIn'[r] # g
      BY <1>2, <1>4, <1>7
    <3>2. failures'[d].hour # g
      BY <1>2, <1>4, <1>7
    <3>3. QED BY <1>2, <3>1, <3>2 DEF FailedNow, FailuresNow
  <2>2. IsFiniteSet({}) /\ Cardinality({}) = 0
    BY FS_EmptySet
  <2>3. ~(0 >= FailuresPerHour) /\ 0 =< 0
    BY <1>3
  <2>4. \A d \in Device :
           /\ IsFiniteSet(FailedNow(d)') /\ Cardinality(FailedNow(d)') =< FailuresNow(d)'
           /\ ~(FailuresNow(d)' >= FailuresPerHour)
    BY <2>1, <2>2, <2>3
  <2>5. QED BY <1>2, <1>3, <1>5, <2>4 DEF FailedInv
<1>8. QED BY <1>6, <1>7

\* The sweep drops counts of earlier hours only.
LEMMA FailedSweep ==
    ASSUME TypeOK, RaisedInv, FailedInv, Sweep
    PROVE  FailedInv'
<1>1. PICK h \in Nat : HourOf(clock) = h /\ HourOf(clock') = h /\ h # Never
  BY HourType DEF TypeOK, Sweep, vars
<1>2. ASSUME NEW d \in Device
      PROVE  /\ failures'[d] \in [hour : Nat \cup {Never}, count : Nat]
             /\ failures'[d].hour =< h /\ FailuresNow(d)' = FailuresNow(d)
  <2>1. CASE Old(failures[d].hour)
    <3>1. failures'[d] = NoFailures
      BY <2>1 DEF Sweep
    <3>2. failures[d].hour \in Int /\ failures[d].hour < h
      BY <1>1, <2>1 DEF Old, FailedInv, Never
    <3>3. Never =< h /\ failures[d].hour # h
      BY <3>2 DEF Never
    <3>4. QED BY <1>1, <3>1, <3>3 DEF NoFailures, FailuresNow
  <2>2. CASE ~Old(failures[d].hour)
    <3>1. failures'[d] = failures[d]
      BY <2>2 DEF Sweep
    <3>2. QED BY <1>1, <3>1 DEF FailedInv, FailuresNow
  <2>3. QED BY <2>1, <2>2
<1>3. failures' \in [Device -> [hour : Nat \cup {Never}, count : Nat]]
  BY <1>2 DEF Sweep
<1>4. req' = req /\ failedIn' = failedIn
  BY DEF Sweep, vars
<1>5. \A d \in Device : FailedNow(d)' = FailedNow(d)
  BY <1>1, <1>4 DEF FailedNow
<1>6. \A d \in Device : Noticed("repeated-failures", d)' = Noticed("repeated-failures", d)
  BY RaisedSweep DEF Kind
<1>7. QED BY <1>1, <1>2, <1>3, <1>4, <1>5, <1>6 DEF FailedInv

\* A process that starts has seen nothing fail.
LEMMA FailedEmpty == Empty /\ clock \in Nat => FailedInv
<1> SUFFICES ASSUME Empty, clock \in Nat PROVE FailedInv
  OBVIOUS
<1> USE DEF Empty
<1>1. PICK h \in Nat : HourOf(clock) = h /\ h # Never
  BY HourType
<1>2. FailuresPerHour \in Nat /\ FailuresPerHour > 0
  BY AlertAssumption
<1>3. \A d \in Device : FailedNow(d) = {} /\ FailuresNow(d) = 0
  BY <1>1 DEF FailedNow, FailuresNow, NoFailures
<1>4. IsFiniteSet({}) /\ Cardinality({}) = 0
  BY FS_EmptySet
<1>5. Never =< h /\ ~(0 >= FailuresPerHour) /\ 0 =< 0
  BY <1>2 DEF Never
<1>6. QED BY <1>1, <1>3, <1>4, <1>5 DEF FailedInv, NoFailures

-----------------------------------------------------------------------------
(* The alerts.                                                             *)

AlertInv == RaisedInv /\ FailedInv

\* A process that starts has nothing in its books, and a later one neither.
LEMMA EmptyIsRight ==
    /\ Empty /\ clock \in Nat => AlertInv
    /\ (Empty /\ clock \in Nat)' => AlertInv'
<1>1. Empty /\ clock \in Nat => AlertInv
  BY RaisedEmpty, FailedEmpty DEF AlertInv
<1>2. QED BY <1>1, PTL

\* Every step keeps the books.
LEMMA AlertInvStep ==
    TypeOK /\ TypeOK' /\ AlertInv /\ [AlertingNext]_<<vars, alerter>> => AlertInv'
<1> SUFFICES ASSUME TypeOK, TypeOK', RaisedInv, FailedInv, [AlertingNext]_<<vars, alerter>>
             PROVE  RaisedInv' /\ FailedInv'
  BY DEF AlertInv
<1>1. ASSUME NEW r \in Request, NEW ip \in Ip, NEW d \in Device,
             NEW code \in Code \cup {Malformed}, Post(r, ip, d, code), Quiet
      PROVE  RaisedInv' /\ FailedInv'
  <2>1. UNCHANGED <<lastAlert, global, raised, clock, failures, failedIn>>
    BY <1>1, PostStep DEF Quiet, alerter
  <2>2. RaisedInv' /\ \A e \in Device : Noticed("repeated-failures", e)' = Noticed("repeated-failures", e)
    BY <2>1, RaisedStays DEF Kind
  <2>3. req[r].pc = "idle" /\ \A q \in Request \ {r} : req'[q] = req[q]
    BY <1>1, PostStep DEF Others
  <2>4. QED BY <2>1, <2>2, <2>3, FailedStays
<1>2. ASSUME NEW r \in Request, Handle(r), Report(r)
      PROVE  RaisedInv' /\ FailedInv'
  <2>0. /\ clock' = clock /\ req[r].device \in Device
        /\ req'[r].pc # "idle" /\ req'[r].device = req[r].device
        /\ \A q \in Request \ {r} : req'[q] = req[q]
    BY <1>2, HandleStep DEF Others
  <2>a. ASSUME UNCHANGED <<failures, failedIn>>, RaisedInv',
               \A e \in Device : Noticed("repeated-failures", e) => Noticed("repeated-failures", e)'
        PROVE  FailedInv'
    BY <2>0, <2>a, FailedStays
  <2>1. CASE Alert("budget-exhausted", req[r].device) /\ UNCHANGED <<failures, failedIn>>
    BY <2>0, <2>1, <2>a, AlertStep DEF Kind
  <2>2. CASE Failure(req[r].device) /\ failedIn' = [failedIn EXCEPT ![r] = HourOf(clock)]
    BY <1>2, <2>2, FailureStep
  <2>3. CASE Quiet
    <3>1. UNCHANGED <<lastAlert, global, raised, failures, failedIn>>
      BY <2>3 DEF Quiet, alerter
    <3>2. QED BY <2>0, <2>a, <3>1, RaisedStays DEF Kind
  <2>4. QED BY <1>2, <2>1, <2>2, <2>3 DEF Report
<1>3. CASE Crash /\ Restart
  <2>1. Empty'
    BY <1>3 DEF Restart, Empty
  <2>2. clock' \in Nat
    BY DEF TypeOK
  <2>3. QED BY <2>1, <2>2, EmptyIsRight DEF AlertInv
<1>4. CASE Tick /\ Quiet
  <2>1. clock' = clock + 1 /\ UNCHANGED <<lastAlert, global, raised, failures, failedIn>>
    BY <1>4 DEF Tick, Quiet, alerter
  <2>2. QED BY <1>4, <2>1, RaisedTick, FailedTick
<1>5. CASE Sweep
  BY <1>5, RaisedSweep, FailedSweep
<1>6. CASE UNCHANGED <<vars, alerter>>
  <2>1. UNCHANGED <<lastAlert, global, raised, failures, failedIn, clock, req>>
    BY <1>6 DEF vars, alerter
  <2>2. RaisedInv' /\ \A e \in Device : Noticed("repeated-failures", e)' = Noticed("repeated-failures", e)
    BY <2>1, RaisedStays DEF Kind
  <2>3. QED BY <2>1, <2>2, FailedStays
<1>7. QED BY <1>1, <1>2, <1>3, <1>4, <1>5, <1>6 DEF AlertingNext, Terminating, Quiet

\* The books of the alerter are always right.
THEOREM AlertsAreCounted == AlertingSpec => []AlertInv
<1>1. AlertingInit => AlertInv
  <2>1. AlertingInit => Empty /\ clock \in Nat
    BY LoginAssumption DEF AlertingInit, Init
  <2>2. QED BY <2>1, EmptyIsRight
<1>2. QED BY <1>1, AlertInvStep, AlertingTypes, PTL DEF AlertingSpec

\* No flood of failures makes more alerts in an hour than the cap, and none
\* makes the same one twice.
THEOREM AlertsAreCapped == AlertingSpec => []AlertsCapped
<1>1. AlertInv => AlertsCapped
  <2> SUFFICES ASSUME RaisedInv PROVE AlertsCapped
    BY DEF AlertInv
  <2>1. \A i \in DOMAIN raised : raised[i].hour \in Nat
    BY RaisedAlerts DEF Alerted
  <2>2. QED BY <2>1 DEF RaisedInv, AlertsCapped
<1>2. QED BY <1>1, AlertsAreCounted, PTL

\* As many failures of a device in an hour as are worth an alert have raised
\* it, or the cap of the hour is used up.
THEOREM GuessingDoesShow == AlertingSpec => []GuessingIsNoticed
<1>1. TypeOK /\ AlertInv => GuessingIsNoticed
  <2> SUFFICES ASSUME TypeOK, FailedInv, NEW d \in Device,
                      Cardinality(FailedNow(d)) >= FailuresPerHour
               PROVE  Noticed("repeated-failures", d)
    BY DEF AlertInv, GuessingIsNoticed, Noticed
  <2>1. IsFiniteSet(FailedNow(d)) /\ Cardinality(FailedNow(d)) =< FailuresNow(d)
    BY DEF FailedInv
  <2>2. Cardinality(FailedNow(d)) \in Nat
    BY <2>1, FS_CardinalityType
  <2>3. FailuresNow(d) \in Nat /\ FailuresPerHour \in Nat
    BY AlertAssumption DEF FailedInv, FailuresNow
  <2>4. FailuresNow(d) >= FailuresPerHour
    BY <2>1, <2>2, <2>3
  <2>5. QED BY <2>4 DEF FailedInv
<1>2. QED BY <1>1, AlertsAreCounted, AlertingTypes, PTL

-----------------------------------------------------------------------------
(* The stores in memory.                                                   *)

MinuteOf(t) == t \div Minute
IpKeyOf(ip, m) == <<"ip", ip, m>>

\* Minutes are natural numbers that follow the clock.
LEMMA MinuteMonotone ==
    ASSUME NEW t \in Nat, NEW u \in Nat, t =< u
    PROVE  MinuteOf(t) \in Nat /\ MinuteOf(u) \in Nat /\ MinuteOf(t) =< MinuteOf(u)
BY LoginAssumption DEF MinuteOf

\* The counter of an address lives for two minutes.
LEMMA TwoMinutes ==
    ASSUME NEW t \in Nat
    PROVE  t + 2 * Minute \in Nat /\ MinuteOf(t + 2 * Minute) = MinuteOf(t) + 2
<1>1. Minute \in Nat \ {0}
  BY LoginAssumption
<1>2. ASSUME NEW u \in Nat PROVE MinuteOf(u + Minute) = MinuteOf(u) + 1
  BY <1>1 DEF MinuteOf
<1>3. t + 2 * Minute = (t + Minute) + Minute /\ t + Minute \in Nat
  BY <1>1
<1>4. MinuteOf(t) \in Nat
  BY <1>1 DEF MinuteOf
<1>5. QED BY <1>1, <1>2, <1>3, <1>4

\* A counter in Redis outlives the minute or the window it counts, and the next.
Lasting ==
    /\ \A ip \in Ip, m \in Nat :
          IpKeyOf(ip, m) \in DOMAIN hits => MinuteOf(hits[IpKeyOf(ip, m)].until) >= m + 2
    /\ \A d \in Device, w \in Nat :
          DeviceKey(d, w) \in DOMAIN hits => Window(hits[DeviceKey(d, w)].until) >= w + 2

\* Both stores count the same, in every minute and window that can still be
\* counted in.
SameCounts ==
    /\ \A ip \in Ip, m \in Nat :
          m >= MinuteOf(clock) => Count(IpKeyOf(ip, m)) = CountInMemory(IpKeyOf(ip, m))
    /\ \A d \in Device, w \in Nat :
          w + 1 >= Window(clock) => Count(DeviceKey(d, w)) = CountInMemory(DeviceKey(d, w))

\* What Redis remembers of a device is what the sweep could not have dropped.
SameClaims ==
    \A d \in Device :
        /\ lastCounter[d] \in [counter : Nat \cup {-1}, until : Nat]
        /\ used[d] = IF lastCounter[d].until > clock THEN lastCounter[d] ELSE Unused

MemoryInv ==
    /\ Lasting
    /\ ~lost => SameCounts /\ SameClaims /\ lastCounter \in [Device -> [counter : Nat \cup {-1}, until : Nat]]

\* The same call counts one more in both stores, or in neither.
LEMMA SameMove ==
    ASSUME NEW k, NEW ttl, Incr(k, ttl), Bump(k), NEW j, Count(j) = CountInMemory(j)
    PROVE  Count(j)' = CountInMemory(j)'
<1>1. CASE j = k
  <2>1. Count(k)' = Count(k) + 1
    BY IncrSelf DEF Incr, Count
  <2>2. CountInMemory(k)' = CountInMemory(k) + 1
    BY DEF Bump, CountInMemory
  <2>3. QED BY <1>1, <2>1, <2>2
<1>2. CASE j # k
  <2>1. Count(j)' = Count(j)
    BY <1>2, IncrOthers DEF Count
  <2>2. CountInMemory(j)' = CountInMemory(j)
    BY <1>2 DEF Bump, CountInMemory
  <2>3. QED BY <2>1, <2>2
<1>3. QED BY <1>1, <1>2

\* A counter that is touched in its own window or minute, or in the next, lasts.
LEMMA LastingMove ==
    ASSUME TypeOK, Lasting, NEW k, NEW ttl, Incr(k, ttl), UNCHANGED clock,
           \A ip \in Ip, m \in Nat :
              k = IpKeyOf(ip, m) => MinuteOf(clock + ttl) >= m + 2,
           \A d \in Device, w \in Nat :
              k = DeviceKey(d, w) => Window(clock + ttl) >= w + 2
    PROVE  Lasting'
<1>1. ASSUME NEW ip \in Ip, NEW m \in Nat, IpKeyOf(ip, m) \in DOMAIN hits'
      PROVE  MinuteOf(hits'[IpKeyOf(ip, m)].until) >= m + 2
  <2>1. CASE IpKeyOf(ip, m) \in DOMAIN hits
    <3>1. hits'[IpKeyOf(ip, m)].until = hits[IpKeyOf(ip, m)].until
      BY <2>1, IncrSelf, IncrOthers
    <3>2. QED BY <2>1, <3>1 DEF Lasting
  <2>2. CASE IpKeyOf(ip, m) \notin DOMAIN hits
    <3>1. IpKeyOf(ip, m) = k
      BY <1>1, <2>2, IncrOthers
    <3>2. hits'[k].until = clock + ttl
      BY <2>2, <3>1, IncrSelf
    <3>3. QED BY <3>1, <3>2
  <2>3. QED BY <2>1, <2>2
<1>2. ASSUME NEW d \in Device, NEW w \in Nat, DeviceKey(d, w) \in DOMAIN hits'
      PROVE  Window(hits'[DeviceKey(d, w)].until) >= w + 2
  <2>1. CASE DeviceKey(d, w) \in DOMAIN hits
    <3>1. hits'[DeviceKey(d, w)].until = hits[DeviceKey(d, w)].until
      BY <2>1, IncrSelf, IncrOthers
    <3>2. QED BY <2>1, <3>1 DEF Lasting
  <2>2. CASE DeviceKey(d, w) \notin DOMAIN hits
    <3>1. DeviceKey(d, w) = k
      BY <1>2, <2>2, IncrOthers
    <3>2. hits'[k].until = clock + ttl
      BY <2>2, <3>1, IncrSelf
    <3>3. QED BY <3>1, <3>2
  <2>3. QED BY <2>1, <2>2
<1>3. QED BY <1>1, <1>2 DEF Lasting, IpKeyOf, DeviceKey, MinuteOf, Window

\* The two ways to ask whether a counter may be claimed agree.
LEMMA SameAnswer ==
    ASSUME TypeOK, SameClaims, NEW d \in Device, NEW c \in Nat
    PROVE  Newer(d, c) <=> NewerInMemory(d, c)
<1>1. PICK u \in [counter : Nat \cup {-1}, until : Nat] : u = lastCounter[d]
  BY DEF SameClaims
<1>2. used[d] = IF u.until > clock THEN u ELSE Unused
  BY <1>1 DEF SameClaims
<1>3. u.counter \in Int /\ u.until \in Nat /\ clock \in Nat
  BY DEF TypeOK
<1>4. CASE u.until > clock
  BY <1>1, <1>2, <1>3, <1>4 DEF Newer, NewerInMemory
<1>5. CASE ~(u.until > clock)
  <2>1. used[d].counter = -1
    BY <1>2, <1>5 DEF Unused
  <2>2. c > -1
    OBVIOUS
  <2>3. QED BY <1>1, <1>5, <2>1, <2>2 DEF Newer, NewerInMemory
<1>6. QED BY <1>4, <1>5

\* A step that calls no store and takes no time.
LEMMA MemoryStays ==
    ASSUME MemoryInv, UNCHANGED <<hits, used, clock>>, UNCHANGED memory
    PROVE  MemoryInv'
<1>1. UNCHANGED <<hits, used, clock, attempts, lastCounter, lost>>
  BY DEF memory
<1>2. Lasting' = Lasting
  BY <1>1 DEF Lasting, IpKeyOf, DeviceKey, MinuteOf, Window
<1>3. SameCounts' = SameCounts
  BY <1>1 DEF SameCounts, IpKeyOf, DeviceKey, MinuteOf, Window, Count, CountInMemory
<1>4. SameClaims' = SameClaims
  BY <1>1 DEF SameClaims, Unused
<1>5. QED BY <1>1, <1>2, <1>3, <1>4 DEF MemoryInv

\* A call of the limiter.
LEMMA MemoryCounts ==
    ASSUME TypeOK, MemoryInv, NEW k, NEW ttl, Incr(k, ttl), Bump(k), UNCHANGED <<clock, used>>, Lasting'
    PROVE  MemoryInv'
<1>1. UNCHANGED <<lastCounter, lost>>
  BY DEF Bump
<1>2. ASSUME SameCounts PROVE SameCounts'
  <2>1. ASSUME NEW ip \in Ip, NEW m \in Nat, m >= MinuteOf(clock)
        PROVE  Count(IpKeyOf(ip, m))' = CountInMemory(IpKeyOf(ip, m))'
    <3>1. PICK j : j = IpKeyOf(ip, m)
      OBVIOUS
    <3>2. Count(j) = CountInMemory(j)
      BY <1>2, <2>1, <3>1 DEF SameCounts
    <3>3. Count(j)' = CountInMemory(j)'
      BY <3>2, SameMove
    <3>4. QED BY <3>1, <3>3 DEF IpKeyOf, Count, CountInMemory
  <2>2. ASSUME NEW d \in Device, NEW w \in Nat, w + 1 >= Window(clock)
        PROVE  Count(DeviceKey(d, w))' = CountInMemory(DeviceKey(d, w))'
    <3>1. PICK j : j = DeviceKey(d, w)
      OBVIOUS
    <3>2. Count(j) = CountInMemory(j)
      BY <1>2, <2>2, <3>1 DEF SameCounts
    <3>3. Count(j)' = CountInMemory(j)'
      BY <3>2, SameMove
    <3>4. QED BY <3>1, <3>3 DEF DeviceKey, Count, CountInMemory
  <2>3. QED BY <2>1, <2>2 DEF SameCounts, IpKeyOf, DeviceKey, MinuteOf, Window, Count, CountInMemory
<1>3. SameClaims' = SameClaims
  BY <1>1 DEF SameClaims, Unused
<1>4. QED BY <1>1, <1>2, <1>3 DEF MemoryInv

\* The claim of a counter.
LEMMA MemoryClaims ==
    ASSUME TypeOK, MemoryInv, NEW r \in Request, Claim(r),
           ClaimInMemory(req[r].device, req[r].counter)
    PROVE  MemoryInv'
<1>1. PICK d \in Device, c \in Nat : req[r].device = d /\ req[r].counter = c
  BY DEF Claim, TypeOK, ReqOK, RequestState
<1>2. UNCHANGED <<clock, hits, attempts, lost>>
  BY DEF Claim, ClaimInMemory
<1>3. Lasting' = Lasting /\ SameCounts' = SameCounts
  BY <1>2 DEF Lasting, SameCounts, IpKeyOf, DeviceKey, MinuteOf, Window, Count, CountInMemory
<1>4. clock + ClaimTtl \in Nat /\ clock + ClaimTtl > clock
  BY LoginAssumption DEF TypeOK, ClaimTtl
<1>5. PICK u : u = [counter |-> c, until |-> clock + ClaimTtl]
  OBVIOUS
<1>6. /\ u \in [counter : Nat \cup {-1}, until : Nat] /\ u.until = clock + ClaimTtl
      /\ used \in [Device -> [counter : Nat \cup {-1}, until : Nat]]
  BY <1>4, <1>5 DEF TypeOK, UsedOK
<1>7. ASSUME SameClaims, lastCounter \in [Device -> [counter : Nat \cup {-1}, until : Nat]]
      PROVE  /\ SameClaims'
             /\ lastCounter' \in [Device -> [counter : Nat \cup {-1}, until : Nat]]
  <2>1. CASE Newer(d, c)
    <3>1. /\ used' = [used EXCEPT ![d] = u]
          /\ lastCounter' = [lastCounter EXCEPT ![d] = u]
      BY <1>1, <1>5, <1>7, <2>1, SameAnswer DEF Claim, ClaimInMemory
    <3>2. lastCounter' \in [Device -> [counter : Nat \cup {-1}, until : Nat]]
      BY <1>6, <1>7, <3>1
    <3>3. ASSUME NEW e \in Device
          PROVE  used'[e] = IF lastCounter'[e].until > clock THEN lastCounter'[e] ELSE Unused
      <4>1. CASE e = d
        BY <1>4, <1>6, <1>7, <3>1, <4>1
      <4>2. CASE e # d
        BY <1>6, <1>7, <3>1, <4>2 DEF SameClaims
      <4>3. QED BY <4>1, <4>2
    <3>4. QED BY <1>2, <3>2, <3>3 DEF SameClaims, Unused
  <2>2. CASE ~Newer(d, c)
    <3>1. used' = used /\ lastCounter' = lastCounter
      BY <1>1, <1>7, <2>2, SameAnswer DEF Claim, ClaimInMemory
    <3>2. QED BY <1>2, <1>7, <3>1 DEF SameClaims, Unused
  <2>3. QED BY <2>1, <2>2
<1>8. QED BY <1>2, <1>3, <1>7 DEF MemoryInv

\* Keys that expire count for nobody any more.
LEMMA MemoryTick ==
    ASSUME TypeOK, MemoryInv, Tick, UNCHANGED memory
    PROVE  MemoryInv'
<1>1. UNCHANGED <<attempts, lastCounter, lost>>
  BY DEF memory
<1>2. clock \in Nat /\ clock + 1 \in Nat /\ clock' = clock + 1 /\ clock =< clock + 1
  BY DEF TypeOK, Tick
<1>3. /\ MinuteOf(clock) \in Nat /\ MinuteOf(clock + 1) \in Nat
      /\ MinuteOf(clock) =< MinuteOf(clock + 1)
      /\ Window(clock) \in Nat /\ Window(clock + 1) \in Nat
      /\ Window(clock) =< Window(clock + 1)
  BY <1>2, MinuteMonotone, WindowMonotone, WindowType
<1>4. ASSUME NEW k
      PROVE  /\ k \in DOMAIN hits' <=> k \in DOMAIN hits /\ hits[k].until > clock + 1
             /\ k \in DOMAIN hits' => hits'[k] = hits[k]
  BY DEF Tick, Restrict
<1>5. \A k \in DOMAIN hits : hits[k].until \in Nat
  BY DEF TypeOK, HitsOK
<1>6. Lasting'
  BY <1>4 DEF MemoryInv, Lasting, IpKeyOf, DeviceKey, MinuteOf, Window
<1>7. ASSUME SameCounts PROVE SameCounts'
  <2>1. ASSUME NEW ip \in Ip, NEW m \in Nat, m >= MinuteOf(clock + 1)
        PROVE  Count(IpKeyOf(ip, m))' = CountInMemory(IpKeyOf(ip, m))'
    <3>1. PICK k : k = IpKeyOf(ip, m)
      OBVIOUS
    <3>2. Count(k) = CountInMemory(k)
      BY <1>3, <1>7, <2>1, <3>1 DEF SameCounts
    <3>3. k \in DOMAIN hits => hits[k].until > clock + 1
      <4> SUFFICES ASSUME k \in DOMAIN hits, ~(hits[k].until > clock + 1) PROVE FALSE
        OBVIOUS
      <4>1. MinuteOf(hits[k].until) >= m + 2
        BY <3>1 DEF MemoryInv, Lasting
      <4>2. hits[k].until \in Nat /\ hits[k].until =< clock + 1
        BY <1>2, <1>5
      <4>3. MinuteOf(hits[k].until) \in Nat /\ MinuteOf(hits[k].until) =< MinuteOf(clock + 1)
        BY <1>2, <4>2, MinuteMonotone
      <4>4. QED BY <1>3, <2>1, <4>1, <4>3
    <3>4. Count(k)' = Count(k)
      BY <1>4, <3>3 DEF Count
    <3>5. QED BY <1>1, <3>1, <3>2, <3>4 DEF IpKeyOf, Count, CountInMemory
  <2>2. ASSUME NEW d \in Device, NEW w \in Nat, w + 1 >= Window(clock + 1)
        PROVE  Count(DeviceKey(d, w))' = CountInMemory(DeviceKey(d, w))'
    <3>1. PICK k : k = DeviceKey(d, w)
      OBVIOUS
    <3>2. Count(k) = CountInMemory(k)
      BY <1>3, <1>7, <2>2, <3>1 DEF SameCounts
    <3>3. k \in DOMAIN hits => hits[k].until > clock + 1
      <4> SUFFICES ASSUME k \in DOMAIN hits, ~(hits[k].until > clock + 1) PROVE FALSE
        OBVIOUS
      <4>1. Window(hits[k].until) >= w + 2
        BY <3>1 DEF MemoryInv, Lasting
      <4>2. hits[k].until \in Nat /\ hits[k].until =< clock + 1
        BY <1>2, <1>5
      <4>3. Window(hits[k].until) \in Nat /\ Window(hits[k].until) =< Window(clock + 1)
        BY <1>2, <4>2, WindowMonotone, WindowType
      <4>4. QED BY <1>3, <2>2, <4>1, <4>3
    <3>4. Count(k)' = Count(k)
      BY <1>4, <3>3 DEF Count
    <3>5. QED BY <1>1, <3>1, <3>2, <3>4 DEF DeviceKey, Count, CountInMemory
  <2>3. MinuteOf(clock)' = MinuteOf(clock + 1) /\ Window(clock)' = Window(clock + 1)
    BY <1>2 DEF MinuteOf, Window
  <2>4. QED BY <2>1, <2>2, <2>3 DEF SameCounts, IpKeyOf, DeviceKey, Count, CountInMemory
<1>8. ASSUME SameClaims PROVE SameClaims'
  <2>1. ASSUME NEW d \in Device
        PROVE  used'[d] = IF lastCounter[d].until > clock + 1 THEN lastCounter[d] ELSE Unused
    <3>1. used'[d] = IF used[d].until > clock + 1 THEN used[d] ELSE Unused
      BY DEF Tick
    <3>2. PICK u \in [counter : Nat \cup {-1}, until : Nat] : u = lastCounter[d]
      BY <1>8 DEF SameClaims
    <3>3. used[d] = IF u.until > clock THEN u ELSE Unused
      BY <1>8, <3>2 DEF SameClaims
    <3>4. u.until > clock + 1 => u.until > clock
      BY <1>2, <3>2
    <3>5. Unused.until = 0 /\ ~(0 > clock + 1)
      BY <1>2 DEF Unused
    <3>6. QED BY <3>1, <3>2, <3>3, <3>4, <3>5
  <2>2. QED BY <1>1, <1>2, <1>8, <2>1 DEF SameClaims, Unused
<1>9. QED BY <1>1, <1>6, <1>7, <1>8 DEF MemoryInv

\* The sweep drops nothing that can still be counted in.
LEMMA MemorySweep ==
    ASSUME TypeOK, MemoryInv, SweepMemory
    PROVE  MemoryInv'
<1>1. UNCHANGED <<clock, hits, used, lost>>
  BY DEF SweepMemory, vars
<1>2. clock \in Nat /\ MinuteOf(clock) \in Nat /\ Window(clock) \in Nat
  BY WindowType, MinuteMonotone DEF TypeOK
<1>3. ASSUME NEW k, ~Outdated(k)
      PROVE  CountInMemory(k)' = CountInMemory(k)
  BY <1>3 DEF SweepMemory, CountInMemory, Restrict
<1>4. ASSUME NEW ip \in Ip, NEW m \in Nat, m >= MinuteOf(clock)
      PROVE  ~Outdated(IpKeyOf(ip, m))
  <2>1. IpKeyOf(ip, m)[1] = "ip" /\ IpKeyOf(ip, m)[3] = m
    BY DEF IpKeyOf
  <2>2. ~(m < MinuteOf(clock))
    BY <1>2, <1>4
  <2>3. QED BY <2>1, <2>2 DEF Outdated, OldMinute, MinuteOf
<1>5. ASSUME NEW d \in Device, NEW w \in Nat, w + 1 >= Window(clock)
      PROVE  ~Outdated(DeviceKey(d, w))
  <2>1. DeviceKey(d, w)[1] = "dev" /\ DeviceKey(d, w)[3] = w
    BY DEF DeviceKey
  <2>2. ~(w < Window(clock) - 1)
    BY <1>2, <1>5
  <2>3. QED BY <2>1, <2>2 DEF Outdated, OldWindow
<1>6. ASSUME SameCounts PROVE SameCounts'
  <2>1. ASSUME NEW ip \in Ip, NEW m \in Nat, m >= MinuteOf(clock)
        PROVE  Count(IpKeyOf(ip, m))' = CountInMemory(IpKeyOf(ip, m))'
    <3>1. PICK k : k = IpKeyOf(ip, m)
      OBVIOUS
    <3>2. Count(k) = CountInMemory(k) /\ ~Outdated(k)
      BY <1>4, <1>6, <2>1, <3>1 DEF SameCounts
    <3>3. Count(k)' = CountInMemory(k)'
      BY <1>1, <1>3, <3>2 DEF Count
    <3>4. QED BY <3>1, <3>3 DEF IpKeyOf, Count, CountInMemory
  <2>2. ASSUME NEW d \in Device, NEW w \in Nat, w + 1 >= Window(clock)
        PROVE  Count(DeviceKey(d, w))' = CountInMemory(DeviceKey(d, w))'
    <3>1. PICK k : k = DeviceKey(d, w)
      OBVIOUS
    <3>2. Count(k) = CountInMemory(k) /\ ~Outdated(k)
      BY <1>5, <1>6, <2>2, <3>1 DEF SameCounts
    <3>3. Count(k)' = CountInMemory(k)'
      BY <1>1, <1>3, <3>2 DEF Count
    <3>4. QED BY <3>1, <3>3 DEF DeviceKey, Count, CountInMemory
  <2>3. QED BY <1>1, <2>1, <2>2
        DEF SameCounts, IpKeyOf, DeviceKey, MinuteOf, Window, Count, CountInMemory
<1>7. ASSUME SameClaims
      PROVE  /\ SameClaims'
             /\ lastCounter' \in [Device -> [counter : Nat \cup {-1}, until : Nat]]
  <2>1. Unused \in [counter : Nat \cup {-1}, until : Nat] /\ ~(Unused.until > clock)
    BY <1>2 DEF Unused
  <2>2. ASSUME NEW d \in Device
        PROVE  /\ lastCounter'[d] \in [counter : Nat \cup {-1}, until : Nat]
               /\ used[d] = IF lastCounter'[d].until > clock THEN lastCounter'[d] ELSE Unused
    <3>1. PICK u \in [counter : Nat \cup {-1}, until : Nat] : u = lastCounter[d]
      BY <1>7 DEF SameClaims
    <3>2. used[d] = IF u.until > clock THEN u ELSE Unused
      BY <1>7, <3>1 DEF SameClaims
    <3>3. lastCounter'[d] = IF u.until =< clock THEN Unused ELSE u
      BY <3>1 DEF SweepMemory
    <3>4. u.until =< clock <=> ~(u.until > clock)
      BY <1>2, <3>1
    <3>5. QED BY <2>1, <3>1, <3>2, <3>3, <3>4
  <2>3. SameClaims'
    BY <1>1, <2>2 DEF SameClaims, Unused
  <2>4. QED BY <2>2, <2>3 DEF SweepMemory
<1>8. Lasting' = Lasting
  BY <1>1 DEF Lasting, IpKeyOf, DeviceKey, MinuteOf, Window
<1>9. QED BY <1>1, <1>6, <1>7, <1>8 DEF MemoryInv

-----------------------------------------------------------------------------
(* The stores agree.                                                       *)

\* Every step keeps the two stores together.
LEMMA MemoryInvStep ==
    TypeOK /\ InFlight /\ MemoryInv /\ [MemoryNext]_<<vars, alerter, memory>> => MemoryInv'
<1> SUFFICES ASSUME TypeOK, InFlight, MemoryInv, [MemoryNext]_<<vars, alerter, memory>>
             PROVE  MemoryInv'
  OBVIOUS
<1>0. /\ \A r \in Request : req[r] \in RequestState /\ req[r].at \in Nat
      /\ clock \in Nat /\ Lasting
  BY DEF TypeOK, ReqOK, RequestState, MemoryInv
<1>1. ASSUME NEW r \in Request, NEW ip \in Ip, NEW d \in Device,
             NEW code \in Code \cup {Malformed}, Post(r, ip, d, code), UNCHANGED memory
      PROVE  MemoryInv'
  BY <1>1, MemoryStays DEF Post
<1>2. ASSUME NEW r \in Request, AllowIp(r), Bump(IpKey(req[r].ip, req[r].at))
      PROVE  MemoryInv'
  <2>0. PICK n \in Nat : n = MinuteOf(req[r].at)
    BY <1>0, MinuteMonotone
  <2>1. PICK k : k = IpKey(req[r].ip, req[r].at) /\ n = MinuteOf(req[r].at)
    BY <2>0
  <2>2. Incr(k, 2 * Minute) /\ Bump(k) /\ UNCHANGED <<clock, used>>
    BY <1>2, <2>1 DEF AllowIp
  <2>3. n =< MinuteOf(clock) /\ MinuteOf(clock) \in Nat
    <3>1. req[r].at =< clock
      BY <1>2 DEF AllowIp, InFlight, Pending, Awaiting
    <3>2. QED BY <1>0, <2>1, <3>1, MinuteMonotone
  <2>4. MinuteOf(clock + 2 * Minute) >= n + 2
    BY <1>0, <2>3, TwoMinutes
  <2>5. \A ip \in Ip, m \in Nat : k = IpKeyOf(ip, m) => m = n
    BY <2>1 DEF IpKey, IpKeyOf, MinuteOf
  <2>6. \A d \in Device, w \in Nat : k # DeviceKey(d, w)
    BY <2>1, DeviceKeysDiffer
  <2>7. Lasting'
    BY <1>0, <2>2, <2>4, <2>5, <2>6, LastingMove
  <2>8. QED BY <2>2, <2>7, MemoryCounts
<1>3. ASSUME NEW r \in Request, AllowDevice(r), Bump(DeviceKey(req[r].device, Window(req[r].at)))
      PROVE  MemoryInv'
  <2>0. PICK n \in Nat : n = Window(req[r].at)
    BY <1>0, WindowType
  <2>1. PICK k : k = DeviceKey(req[r].device, n) /\ n = Window(req[r].at)
    BY <2>0
  <2>2. Incr(k, DeviceTtl) /\ Bump(k) /\ UNCHANGED <<clock, used>>
    BY <1>3, <2>1 DEF AllowDevice
  <2>3. n =< Window(clock) /\ Window(clock) \in Nat
    BY <1>3, <2>1, CommandWindow DEF AllowDevice, Pending, Awaiting
  <2>4. Window(clock + DeviceTtl) >= n + 2
    BY <1>0, <2>3, BudgetWindow
  <2>5. \A d \in Device, w \in Nat : k = DeviceKey(d, w) => w = n
    BY <2>1, DeviceKeysDiffer
  <2>6. \A ip \in Ip, m \in Nat : k # IpKeyOf(ip, m)
    BY <2>1 DEF DeviceKey, IpKeyOf
  <2>7. Lasting'
    BY <1>0, <2>2, <2>4, <2>5, <2>6, LastingMove
  <2>8. QED BY <2>2, <2>7, MemoryCounts
<1>4. ASSUME NEW r \in Request, Claim(r), ClaimInMemory(req[r].device, req[r].counter)
      PROVE  MemoryInv'
  BY <1>4, MemoryClaims
<1>5. ASSUME NEW r \in Request, UNCHANGED memory,
             Verify(r) \/ VerifierRefuses(r) \/ CreateSession(r) \/ GiveUp(r) \/ Lose(r)
      PROVE  MemoryInv'
  BY <1>5, MemoryStays DEF Verify, VerifierRefuses, CreateSession, GiveUp, Lose
<1>6. CASE Crash /\ StartEmpty
  <2>1. lost' /\ UNCHANGED <<clock, hits>>
    BY <1>6 DEF Crash, StartEmpty
  <2>2. Lasting' = Lasting
    BY <2>1 DEF Lasting, IpKeyOf, DeviceKey, MinuteOf, Window
  <2>3. QED BY <1>0, <2>1, <2>2 DEF MemoryInv
<1>7. CASE Tick /\ UNCHANGED memory
  BY <1>7, MemoryTick
<1>8. CASE Terminating /\ UNCHANGED memory
  BY <1>8, MemoryStays DEF Terminating, vars
<1>9. CASE Sweep /\ UNCHANGED memory
  BY <1>9, MemoryStays DEF Sweep, vars
<1>10. CASE SweepMemory
  BY <1>10, MemorySweep
<1>11. CASE UNCHANGED <<vars, alerter, memory>>
  <2>1. UNCHANGED <<hits, used, clock>> /\ UNCHANGED memory
    BY <1>11 DEF vars
  <2>2. QED BY <2>1, MemoryStays
<1>12. QED
  BY <1>1, <1>2, <1>3, <1>4, <1>5, <1>6, <1>7, <1>8, <1>9, <1>10, <1>11 DEF MemoryNext

\* Next to the stores in memory, the pipeline is still the one that alerts.
LEMMA MemoryIsAlerting == MemorySpec => AlertingSpec
<1>1. MemoryInit => AlertingInit
  BY DEF MemoryInit
<1>2. [MemoryNext]_<<vars, alerter, memory>> => [AlertingNext]_<<vars, alerter>>
  BY DEF MemoryNext, AlertingNext, Handle, SweepMemory
<1>3. QED BY <1>1, <1>2, PTL DEF MemorySpec, AlertingSpec

\* The stores are together from the start, until a restart empties one.
THEOREM StoresStayTogether == MemorySpec => []MemoryInv
<1>1. MemoryInit => MemoryInv
  <2> SUFFICES ASSUME MemoryInit PROVE MemoryInv
    OBVIOUS
  <2>1. DOMAIN hits = {} /\ DOMAIN attempts = {}
    BY DEF MemoryInit, AlertingInit, Init
  <2>2. Lasting /\ SameCounts
    BY <2>1 DEF Lasting, SameCounts, Count, CountInMemory
  <2>3. /\ lastCounter = [d \in Device |-> Unused] /\ used = [d \in Device |-> Unused]
        /\ Unused \in [counter : Nat \cup {-1}, until : Nat]
    BY DEF MemoryInit, AlertingInit, Init, Unused
  <2>4. SameClaims /\ lastCounter \in [Device -> [counter : Nat \cup {-1}, until : Nat]]
    BY <2>3 DEF SameClaims
  <2>5. QED BY <2>2, <2>4 DEF MemoryInv
<1>2. Spec => []InFlight
  <2>1. ClaimInv => InFlight
    BY DEF ClaimInv
  <2>2. QED BY <2>1, ClaimsOutliveCodes, PTL
<1>3. QED
  BY <1>1, <1>2, MemoryInvStep, MemoryIsAlerting, AlertingIsLogin, TypeCorrect, PTL DEF MemorySpec

\* Redis and memory give the same answer to every call that can still come,
\* until a restart.
THEOREM StoresDoAgree == MemorySpec => []StoresAgree
<1>1. TypeOK /\ InFlight /\ MemoryInv => StoresAgree
  <2> SUFFICES ASSUME TypeOK, InFlight, MemoryInv, ~lost, NEW r \in Request
               PROVE  /\ req[r].pc = "ip" =>
                            Count(IpKey(req[r].ip, clock)) = CountInMemory(IpKey(req[r].ip, clock))
                      /\ req[r].pc = "device" =>
                            LET k == DeviceKey(req[r].device, Window(req[r].at))
                            IN  Count(k) = CountInMemory(k)
                      /\ req[r].pc = "claim" =>
                            (Newer(req[r].device, req[r].counter)
                             = NewerInMemory(req[r].device, req[r].counter))
    BY DEF StoresAgree
  <2>0. SameCounts /\ SameClaims
    BY DEF MemoryInv
  <2>1. ASSUME req[r].pc = "ip"
        PROVE  Count(IpKey(req[r].ip, clock)) = CountInMemory(IpKey(req[r].ip, clock))
    <3>1. req[r].ip \in Ip /\ clock \in Nat
      BY <2>1 DEF TypeOK, ReqOK
    <3>2. MinuteOf(clock) \in Nat /\ MinuteOf(clock) >= MinuteOf(clock)
      BY <3>1, MinuteMonotone
    <3>3. IpKey(req[r].ip, clock) = IpKeyOf(req[r].ip, MinuteOf(clock))
      BY DEF IpKey, IpKeyOf, MinuteOf
    <3>4. QED BY <2>0, <3>1, <3>2, <3>3 DEF SameCounts
  <2>2. ASSUME req[r].pc = "device"
        PROVE  Count(DeviceKey(req[r].device, Window(req[r].at)))
               = CountInMemory(DeviceKey(req[r].device, Window(req[r].at)))
    <3>1. req[r].device \in Device
      BY <2>2 DEF TypeOK, ReqOK
    <3>2. Window(req[r].at) \in Nat /\ Window(req[r].at) + 1 >= Window(clock)
      BY <2>2, CommandWindow DEF Pending, Awaiting
    <3>3. QED BY <2>0, <3>1, <3>2 DEF SameCounts
  <2>3. ASSUME req[r].pc = "claim"
        PROVE  Newer(req[r].device, req[r].counter) <=> NewerInMemory(req[r].device, req[r].counter)
    <3>1. req[r].device \in Device /\ req[r].counter \in Nat
      BY <2>3 DEF TypeOK, ReqOK, RequestState
    <3>2. QED BY <2>0, <3>1, SameAnswer
  <2>4. Newer(req[r].device, req[r].counter) \in BOOLEAN
        /\ NewerInMemory(req[r].device, req[r].counter) \in BOOLEAN
    BY DEF Newer, NewerInMemory
  <2>5. QED BY <2>1, <2>2, <2>3, <2>4
<1>2. Spec => []InFlight
  <2>1. ClaimInv => InFlight
    BY DEF ClaimInv
  <2>2. QED BY <2>1, ClaimsOutliveCodes, PTL
<1>3. QED
  BY <1>1, <1>2, StoresStayTogether, MemoryIsAlerting, AlertingIsLogin, TypeCorrect, PTL
=============================================================================
