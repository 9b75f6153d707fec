----------------------------- MODULE GateProofs -----------------------------
(***************************************************************************)
(* Proofs about Gate for any number of requests, devices and credentials,  *)
(* any cache lifetime and any verifier timeout.                            *)
(***************************************************************************)
EXTENDS Gate, TLAPS

-----------------------------------------------------------------------------
(* What the updates of req leave behind.                                   *)

Others(r) == \A s \in Request \ {r} : req'[s] = req[s]

\* Replacing one request by a well-formed one keeps req typed.
LEMMA ReplaceStep ==
    ASSUME TypeOK, NEW r \in Request, NEW u \in RequestState,
           u.pc \in AtVerifier => u.device \in Device,
           u.pc = "read" => u.answer # None,
           req' = [req EXCEPT ![r] = u]
    PROVE  ReqOK' /\ Others(r) /\ req'[r] = u
BY DEF TypeOK, ReqOK, Others

\* A refused request is answered.
LEMMA DenyStep ==
    ASSUME TypeOK, NEW r \in Request, Deny(r)
    PROVE  ReqOK' /\ req'[r].pc = "denied" /\ Others(r)
<1>1. ASSUME NEW s \in RequestState
      PROVE  LET u == [s EXCEPT !.pc = "denied", !.answer = None]
             IN  u \in RequestState /\ u.pc = "denied"
  BY DEF RequestState, Pc, Answered
<1>2. req[r] \in RequestState
  BY DEF TypeOK, ReqOK
<1>3. QED BY <1>1, <1>2 DEF Deny, TypeOK, ReqOK, Others, AtVerifier

\* isActive() answers from the cache or goes to the verifier.
LEMMA CheckStep ==
    ASSUME TypeOK, NEW r \in Request, NEW d \in Device, CheckDevice(r, d)
    PROVE  /\ ReqOK' /\ Others(r) /\ req'[r].device = d
           /\ \/ Fresh(d) /\ req'[r].pc = Verdict(cache[d].status)
              \/ req'[r].pc = "asked" /\ req'[r].waited = 0
<1>1. ASSUME NEW s \in RequestState
      PROVE  LET u == [s EXCEPT !.pc = Verdict(cache[d].status), !.device = d]
             IN  u \in RequestState /\ u.pc = Verdict(cache[d].status) /\ u.device = d
  BY DEF RequestState, Pc, Answered, Verdict
<1>2. ASSUME NEW s \in RequestState
      PROVE  LET u == [s EXCEPT !.pc = "asked", !.device = d, !.waited = 0]
             IN  u \in RequestState /\ u.pc = "asked" /\ u.device = d /\ u.waited = 0
  <2>1. 0 \in 0 .. Timeout /\ "asked" \in Pc
    BY GateAssumption DEF Pc, AtVerifier
  <2>2. QED BY <2>1 DEF RequestState
<1>3. req[r] \in RequestState
  BY DEF TypeOK, ReqOK
<1>4. CASE Fresh(d) /\ req' = [req EXCEPT ![r] = [req[r] EXCEPT !.pc = Verdict(cache[d].status),
                                                                 !.device = d]]
  <2> DEFINE u == [req[r] EXCEPT !.pc = Verdict(cache[d].status), !.device = d]
  <2>1. u \in RequestState /\ u.pc = Verdict(cache[d].status) /\ u.device = d
    BY <1>1, <1>3
  <2>2. req' = [req EXCEPT ![r] = u]
    BY <1>4
  <2>3. u.pc \notin AtVerifier
    BY <2>1 DEF Verdict, AtVerifier
  <2> HIDE DEF u
  <2>4. QED BY <1>4, <2>1, <2>2, <2>3, ReplaceStep DEF AtVerifier
<1>5. CASE req' = [req EXCEPT ![r] = [req[r] EXCEPT !.pc = "asked", !.device = d, !.waited = 0]]
  <2> DEFINE u == [req[r] EXCEPT !.pc = "asked", !.device = d, !.waited = 0]
  <2>1. u \in RequestState /\ u.pc = "asked" /\ u.device = d /\ u.waited = 0
    BY <1>2, <1>3
  <2>2. req' = [req EXCEPT ![r] = u]
    BY <1>5
  <2> HIDE DEF u
  <2>3. QED BY <2>1, <2>2, ReplaceStep
<1>6. QED BY <1>4, <1>5 DEF CheckDevice

\* A request goes on to the token lookup.
LEMMA TokenStep ==
    ASSUME TypeOK, NEW r \in Request, req' = [req EXCEPT ![r] = [@ EXCEPT !.pc = "token"]]
    PROVE  ReqOK' /\ req'[r].pc = "token" /\ Others(r)
<1>1. ASSUME NEW s \in RequestState
      PROVE  LET u == [s EXCEPT !.pc = "token"] IN u \in RequestState /\ u.pc = "token"
  BY DEF RequestState, Pc
<1>2. req[r] \in RequestState
  BY DEF TypeOK, ReqOK
<1>3. QED BY <1>1, <1>2 DEF TypeOK, ReqOK, Others, AtVerifier

\* The verifier reads the keystore.
LEMMA ReadStep ==
    ASSUME TypeOK, NEW r \in Request, ReadStatus(r)
    PROVE  /\ ReqOK' /\ Others(r) /\ req'[r].pc = "read"
           /\ req'[r].device = req[r].device /\ req'[r].answer = Status(req[r].device)
<1>1. ASSUME NEW s \in RequestState, NEW a \in {"active", "inactive"}
      PROVE  LET u == [s EXCEPT !.pc = "read", !.answer = a]
             IN  u \in RequestState /\ u.pc = "read" /\ u.device = s.device /\ u.answer = a
  BY DEF RequestState, Pc, AtVerifier
<1>2. req[r] \in RequestState /\ req[r].device \in Device
  BY DEF TypeOK, ReqOK, ReadStatus, AtVerifier
<1>3. Status(req[r].device) \in {"active", "inactive"}
  BY DEF Status
<1>4. req' = [req EXCEPT ![r] = [req[r] EXCEPT !.pc = "read", !.answer = Status(req[r].device)]]
  BY DEF ReadStatus
<1>5. Status(req[r].device) # None
  BY DEF Status, None
<1> DEFINE u == [req[r] EXCEPT !.pc = "read", !.answer = Status(req[r].device)]
<1>6. /\ u \in RequestState /\ u.pc = "read" /\ u.device = req[r].device
      /\ u.answer = Status(req[r].device)
  BY <1>1, <1>2, <1>3
<1> HIDE DEF u
<1>7. QED BY <1>2, <1>4, <1>5, <1>6, ReplaceStep DEF u

\* The reply reaches the handler.
LEMMA AnswerStep ==
    ASSUME TypeOK, NEW r \in Request, Answer(r)
    PROVE  /\ ReqOK' /\ Others(r) /\ req'[r].pc = Verdict(req[r].answer)
           /\ req'[r].device = req[r].device
<1>1. ASSUME NEW s \in RequestState
      PROVE  LET u == [s EXCEPT !.pc = Verdict(s.answer), !.answer = None]
             IN  u \in RequestState /\ u.pc = Verdict(s.answer) /\ u.device = s.device
  BY DEF RequestState, Pc, Answered, Verdict
<1>2. req[r] \in RequestState
  BY DEF TypeOK, ReqOK
<1>3. req' = [req EXCEPT ![r] = [req[r] EXCEPT !.pc = Verdict(req[r].answer), !.answer = None]]
  BY DEF Answer
<1>4. Verdict(req[r].answer) \notin AtVerifier
  BY DEF Verdict, AtVerifier
<1>5. QED BY <1>1, <1>2, <1>3, <1>4, ReplaceStep DEF AtVerifier

\* The waiting requests have waited one tick more.
LEMMA WaitStep ==
    ASSUME TypeOK, Tick
    PROVE  /\ ReqOK'
           /\ \A r \in Request :
                /\ req'[r].pc = req[r].pc /\ req'[r].device = req[r].device
                /\ req'[r].answer = req[r].answer
                /\ req[r].pc \in AtVerifier => req'[r].waited = req[r].waited + 1
<1>1. \A r \in Request : req[r] \in RequestState
  BY DEF TypeOK, ReqOK
<1>2. ASSUME NEW s \in RequestState, s.waited # Timeout
      PROVE  LET u == [s EXCEPT !.waited = @ + 1]
             IN  /\ u \in RequestState /\ u.pc = s.pc /\ u.device = s.device
                 /\ u.answer = s.answer /\ u.waited = s.waited + 1
  <2>1. s.waited \in 0 .. Timeout /\ s.waited + 1 \in 0 .. Timeout
    BY <1>2, GateAssumption DEF RequestState
  <2>2. QED BY <1>2, <2>1 DEF RequestState
<1>3. \A r \in Request : req[r].pc \in AtVerifier => req[r].waited # Timeout
  BY DEF Tick, OutOfTime
<1>4. req' = [r \in Request |->
                IF req[r].pc \in AtVerifier THEN [req[r] EXCEPT !.waited = @ + 1] ELSE req[r]]
  BY DEF Tick
<1>5. \A r \in Request :
        /\ req'[r] \in RequestState
        /\ req'[r].pc = req[r].pc /\ req'[r].device = req[r].device
        /\ req'[r].answer = req[r].answer
        /\ req[r].pc \in AtVerifier => req'[r].waited = req[r].waited + 1
  BY <1>1, <1>2, <1>3, <1>4
<1>6. QED BY <1>4, <1>5 DEF TypeOK, ReqOK

-----------------------------------------------------------------------------
(* Types.                                                                  *)

\* Every variable keeps its type, in every reachable state of Gate.
THEOREM TypeCorrect == Spec => []TypeOK
<1>1. Init => TypeOK
  <2>1. 0 \in 0 .. Timeout /\ 0 \in 0 .. Ttl /\ Horizon \in 0 .. Horizon
        /\ NotIssued \in NotIssued .. CredentialTtl
    BY GateAssumption DEF Horizon, NotIssued
  <2>2. QED BY <2>1 DEF Init, TypeOK, ReqOK, CacheOK, RequestState, Pc, Answered, AtVerifier,
                        Fresh, None
<1>2. TypeOK /\ [Next]_vars => TypeOK'
  <2> SUFFICES ASSUME TypeOK, [Next]_vars PROVE TypeOK'
    OBVIOUS
  <2>1. ASSUME NEW d \in Device, SetStatus(d) PROVE TypeOK'
    <3>1. 0 \in 0 .. Horizon
      BY GateAssumption DEF Horizon
    <3>2. QED BY <2>1, <3>1 DEF SetStatus, TypeOK, ReqOK, CacheOK, Fresh
  <2>2. ASSUME NEW c \in Credential, Issue(c) \/ Withdraw(c) PROVE TypeOK'
    <3>1. {0, CredentialTtl} \subseteq NotIssued .. CredentialTtl
      BY GateAssumption DEF NotIssued
    <3>2. QED BY <2>2, <3>1 DEF Issue, Withdraw, TypeOK, ReqOK, CacheOK, Fresh
  <2>3. ASSUME NEW r \in Request, NEW cookie \in Session \cup {None},
               NEW header \in DeviceToken \cup {None}, Visit(r, cookie, header)
        PROVE  TypeOK'
    <3>1. 0 \in 0 .. Timeout
      BY GateAssumption
    <3>2. ReqOK'
      BY <2>3, <3>1 DEF Visit, TypeOK, ReqOK, RequestState, Pc, AtVerifier
    <3>3. QED BY <2>3, <3>2 DEF Visit, TypeOK, CacheOK, Fresh
  <2>4. ASSUME NEW r \in Request, GetSession(r) PROVE TypeOK'
    <3>1. Valid(req[r].cookie) => Owner(req[r].cookie) \in Device
      BY GateAssumption DEF Valid, TypeOK, ReqOK, RequestState
    <3>2. ReqOK'
      BY <2>4, <3>1, CheckStep, DenyStep, TokenStep DEF GetSession
    <3>3. QED BY <2>4, <3>2 DEF GetSession, TypeOK, CacheOK, Fresh
  <2>5. ASSUME NEW r \in Request, LookupToken(r) PROVE TypeOK'
    <3>1. Valid(req[r].header) => Owner(req[r].header) \in Device
      BY GateAssumption DEF Valid, TypeOK, ReqOK, RequestState
    <3>2. ReqOK'
      BY <2>5, <3>1, CheckStep, DenyStep DEF LookupToken
    <3>3. QED BY <2>5, <3>2 DEF LookupToken, TypeOK, CacheOK, Fresh
  <2>6. ASSUME NEW r \in Request, StoreFails(r) PROVE TypeOK'
    BY <2>6, DenyStep DEF StoreFails, TypeOK, CacheOK, Fresh
  <2>7. ASSUME NEW r \in Request, ReadStatus(r) PROVE TypeOK'
    BY <2>7, ReadStep DEF ReadStatus, TypeOK, CacheOK, Fresh
  <2>8. ASSUME NEW r \in Request, Answer(r) PROVE TypeOK'
    <3>1. req[r].answer \in {"active", "inactive"} /\ Ttl \in 0 .. Ttl
      BY <2>8, GateAssumption DEF Answer, TypeOK, ReqOK, RequestState
    <3>2. CacheOK'
      BY <2>8, <3>1 DEF Answer, TypeOK, CacheOK, Fresh, None
    <3>3. QED BY <2>8, <3>2, AnswerStep DEF Answer, TypeOK
  <2>9. ASSUME NEW r \in Request, VerifierFails(r) PROVE TypeOK'
    <3>1. 0 \in 0 .. Ttl
      BY GateAssumption
    <3>2. CacheOK'
      <4>1. cache' = [cache EXCEPT ![req[r].device] = [status |-> None, left |-> 0]]
        BY <2>9 DEF VerifierFails, ForgetOnError
      <4>2. [status |-> None, left |-> 0] \in
              [status : {"active", "inactive", None}, left : 0 .. Ttl]
        BY <3>1
      <4>3. cache' \in [Device -> [status : {"active", "inactive", None}, left : 0 .. Ttl]]
        BY <4>1, <4>2 DEF TypeOK, CacheOK
      <4>4. \A d \in Device : cache'[d].left > 0 => cache'[d] = cache[d]
        BY <4>1 DEF TypeOK, CacheOK
      <4>5. QED BY <4>3, <4>4 DEF TypeOK, CacheOK, Fresh
    <3>3. QED BY <2>9, <3>2, DenyStep DEF VerifierFails, TypeOK
  <2>10. CASE Tick
    <3>1. ReqOK'
      BY <2>10, WaitStep
    <3>2. since' \in [Device -> 0 .. Horizon]
      BY <2>10, GateAssumption DEF Tick, TypeOK, Horizon
    <3>3. store' \in [Credential -> NotIssued .. CredentialTtl]
      BY <2>10, GateAssumption DEF Tick, TypeOK, CountDown, NotIssued
    <3>4. CacheOK'
      <4>1. ASSUME NEW e \in [status : {"active", "inactive", None}, left : 0 .. Ttl]
            PROVE  LET u == [e EXCEPT !.left = CountDown(@)]
                   IN  /\ u \in [status : {"active", "inactive", None}, left : 0 .. Ttl]
                       /\ u.status = e.status /\ (u.left > 0 => e.left > 0)
        <5>1. e.left \in 0 .. Ttl /\ CountDown(e.left) \in 0 .. Ttl
              /\ (CountDown(e.left) > 0 => e.left > 0)
          BY GateAssumption DEF CountDown
        <5>2. QED BY <5>1
      <4>2. QED BY <2>10, <4>1 DEF Tick, TypeOK, CacheOK, Fresh
    <3>5. QED BY <2>10, <3>1, <3>2, <3>3, <3>4 DEF Tick, TypeOK
  <2>11. CASE UNCHANGED vars
    BY <2>11 DEF vars, TypeOK, ReqOK, CacheOK, Fresh
  <2>12. QED
    BY <2>1, <2>2, <2>3, <2>4, <2>5, <2>6, <2>7, <2>8, <2>9, <2>10, <2>11 DEF Next
<1>3. QED BY <1>1, <1>2, PTL DEF Spec

-----------------------------------------------------------------------------
(* How stale an answer can be.                                             *)

\* What a step that neither changes a status nor lets time pass may do to a
\* request: a reply it holds is the one it held, or was read just now.
Honest(r) ==
    req'[r].pc = "read" =>
        \/ req[r].pc = "read" /\ req'[r] = req[r]
        \/ req'[r].answer = Status(req'[r].device)

\* Such steps preserve FreshEnough as long as they leave the cache alone.
LEMMA HonestStep ==
    ASSUME FreshEnough, UNCHANGED <<active, since, cache>>, \A r \in Request : Honest(r)
    PROVE  FreshEnough'
<1>1. \A d : Status(d)' = Status(d)
  BY DEF Status
<1>2. QED BY <1>1 DEF FreshEnough, Honest, Fresh

\* Requests a step does not touch keep the reply they hold.
LEMMA HonestOthers ==
    ASSUME NEW r \in Request, Others(r)
    PROVE  \A s \in Request \ {r} : Honest(s)
BY DEF Others, Honest

\* A cached answer is never staler than the time it can still be used allows.
LEMMA FreshEnoughStep == TypeOK /\ FreshEnough /\ [Next]_vars => FreshEnough'
<1> SUFFICES ASSUME TypeOK, FreshEnough, [Next]_vars PROVE FreshEnough'
  OBVIOUS
<1>0. /\ Ttl \in Nat /\ Timeout \in Nat
      /\ \A d \in Device : since[d] \in 0 .. Horizon /\ cache[d].left \in 0 .. Ttl
      /\ \A r \in Request : req[r].waited \in 0 .. Timeout
  BY GateAssumption DEF TypeOK, CacheOK, ReqOK, RequestState
<1>1. ASSUME NEW d \in Device, SetStatus(d) PROVE FreshEnough'
  <2>1. /\ since'[d] = 0 /\ cache' = cache /\ req' = req
        /\ \A e \in Device \ {d} : since'[e] = since[e] /\ Status(e)' = Status(e)
    BY <1>1 DEF SetStatus, TypeOK, Status
  <2>2. \A e \in Device : Fresh(e)' /\ cache'[e].status # Status(e)'
          => since'[e] + cache'[e].left =< Ttl + Timeout
    BY <1>0, <2>1 DEF FreshEnough, Fresh
  <2>3. \A r \in Request : req'[r].pc = "read" /\ req'[r].answer # Status(req[r].device)'
          => since'[req'[r].device] =< req'[r].waited
    BY <1>0, <2>1 DEF FreshEnough, TypeOK, ReqOK, AtVerifier
  <2>4. QED BY <2>2, <2>3 DEF FreshEnough
<1>2. ASSUME NEW c \in Credential, Issue(c) \/ Withdraw(c) PROVE FreshEnough'
  BY <1>2, HonestStep DEF Issue, Withdraw, Honest
<1>3. ASSUME NEW r \in Request, NEW cookie \in Session \cup {None},
             NEW header \in DeviceToken \cup {None}, Visit(r, cookie, header)
      PROVE  FreshEnough'
  <2>1. Others(r) /\ req'[r].pc = "session"
    BY <1>3 DEF Visit, Others, TypeOK, ReqOK
  <2>2. QED BY <1>3, <2>1, HonestOthers, HonestStep DEF Visit, Honest
<1>4. ASSUME NEW r \in Request, GetSession(r) PROVE FreshEnough'
  <2>1. Valid(req[r].cookie) => Owner(req[r].cookie) \in Device
    BY GateAssumption DEF Valid, TypeOK, ReqOK, RequestState
  <2>2. Others(r) /\ req'[r].pc # "read"
    BY <1>4, <2>1, CheckStep, DenyStep, TokenStep DEF GetSession, Verdict
  <2>3. QED BY <1>4, <2>2, HonestOthers, HonestStep DEF GetSession, Honest
<1>5. ASSUME NEW r \in Request, LookupToken(r) PROVE FreshEnough'
  <2>1. Valid(req[r].header) => Owner(req[r].header) \in Device
    BY GateAssumption DEF Valid, TypeOK, ReqOK, RequestState
  <2>2. Others(r) /\ req'[r].pc # "read"
    BY <1>5, <2>1, CheckStep, DenyStep DEF LookupToken, Verdict
  <2>3. QED BY <1>5, <2>2, HonestOthers, HonestStep DEF LookupToken, Honest
<1>6. ASSUME NEW r \in Request, StoreFails(r) PROVE FreshEnough'
  BY <1>6, DenyStep, HonestOthers, HonestStep DEF StoreFails, Honest
<1>7. ASSUME NEW r \in Request, ReadStatus(r) PROVE FreshEnough'
  BY <1>7, ReadStep, HonestOthers, HonestStep DEF ReadStatus, Honest
<1>8. ASSUME NEW r \in Request, Answer(r) PROVE FreshEnough'
  <2> DEFINE d == req[r].device
  <2>1. /\ Others(r) /\ req'[r].pc # "read" /\ d \in Device
        /\ active' = active /\ since' = since /\ \A e : Status(e)' = Status(e)
    <3>1. Others(r) /\ req'[r].pc # "read"
      BY <1>8, AnswerStep DEF Verdict
    <3>2. active' = active /\ since' = since
      BY <1>8 DEF Answer
    <3>3. d \in Device
      BY <1>8 DEF Answer, TypeOK, ReqOK, AtVerifier
    <3>4. QED BY <3>1, <3>2, <3>3 DEF Status
  <2>2. /\ cache'[d] = [status |-> req[r].answer, left |-> Ttl]
        /\ \A e \in Device \ {d} : cache'[e] = cache[e]
    BY <1>8, <2>1 DEF Answer, TypeOK, CacheOK
  <2>3. req[r].answer # Status(d) => since[d] =< Timeout
    BY <1>0, <1>8, <2>1 DEF Answer, FreshEnough, Horizon
  <2>4. ASSUME NEW e \in Device, Fresh(e)', cache'[e].status # Status(e)'
        PROVE  since'[e] + cache'[e].left =< Ttl + Timeout
    <3>1. CASE e = d
      BY <1>0, <2>1, <2>2, <2>3, <2>4, <3>1
    <3>2. CASE e # d
      BY <2>1, <2>2, <2>4, <3>2 DEF FreshEnough, Fresh
    <3>3. QED BY <3>1, <3>2
  <2>5. ASSUME NEW s \in Request, req'[s].pc = "read", req'[s].answer # Status(req[s].device)'
        PROVE  since'[req'[s].device] =< req'[s].waited
    <3>1. s # r /\ req'[s] = req[s]
      BY <2>1, <2>5 DEF Others
    <3>2. Status(req[s].device)' = Status(req[s].device)
      BY <2>1, <3>1 DEF Status
    <3>3. QED BY <2>1, <2>5, <3>1, <3>2 DEF FreshEnough
  <2>6. QED BY <2>4, <2>5 DEF FreshEnough
<1>9. ASSUME NEW r \in Request, VerifierFails(r) PROVE FreshEnough'
  <2> DEFINE d == req[r].device
  <2>1. /\ Others(r) /\ req'[r].pc = "denied" /\ d \in Device
        /\ active' = active /\ since' = since
    BY <1>9, DenyStep DEF VerifierFails, TypeOK, ReqOK
  <2>2. cache'[d].left = 0 /\ \A e \in Device \ {d} : cache'[e] = cache[e]
    BY <1>9, <2>1 DEF VerifierFails, ForgetOnError, TypeOK, CacheOK
  <2>3. QED BY <1>0, <2>1, <2>2 DEF FreshEnough, Fresh, Status, Others
<1>10. CASE Tick
  <2>1. active' = active /\ \A d : Status(d)' = Status(d)
    BY <1>10 DEF Tick, Status
  <2>2. ASSUME NEW d \in Device, Fresh(d)', cache'[d].status # Status(d)'
        PROVE  since'[d] + cache'[d].left =< Ttl + Timeout
    <3>1. /\ cache'[d].left = CountDown(cache[d].left) /\ cache'[d].status = cache[d].status
          /\ since'[d] = IF since[d] < Horizon THEN since[d] + 1 ELSE Horizon
      BY <1>10 DEF Tick, TypeOK, CacheOK
    <3>2. cache[d].left > 0 /\ cache'[d].left = cache[d].left - 1
      BY <1>0, <2>2, <3>1 DEF Fresh, CountDown
    <3>3. since[d] + cache[d].left =< Ttl + Timeout
      BY <2>1, <2>2, <3>1, <3>2 DEF FreshEnough, Fresh
    <3>4. QED BY <1>0, <3>1, <3>2, <3>3 DEF Horizon
  <2>3. ASSUME NEW r \in Request, req'[r].pc = "read", req'[r].answer # Status(req[r].device)'
        PROVE  since'[req'[r].device] =< req'[r].waited
    <3>1. /\ req[r].pc = "read" /\ req'[r].device = req[r].device
          /\ req'[r].answer = req[r].answer /\ req'[r].waited = req[r].waited + 1
          /\ req[r].device \in Device
      BY <1>10, <2>3, WaitStep DEF AtVerifier, TypeOK, ReqOK
    <3>2. since[req[r].device] =< req[r].waited
      <4>1. Status(req[r].device)' = Status(req[r].device)
        BY <2>1, <3>1 DEF Status
      <4>2. QED BY <2>3, <3>1, <4>1 DEF FreshEnough
    <3>3. since'[req[r].device] =< since[req[r].device] + 1
      BY <1>0, <1>10, <3>1 DEF Tick, Horizon
    <3>4. since'[req[r].device] \in 0 .. Horizon
      BY <1>0, <1>10, <3>1 DEF Tick, Horizon
    <3>5. QED BY <1>0, <3>1, <3>2, <3>3, <3>4
  <2>4. QED BY <2>2, <2>3 DEF FreshEnough
<1>11. CASE UNCHANGED vars
  BY <1>11, HonestStep DEF vars, Honest
<1>12. QED
  BY <1>1, <1>2, <1>3, <1>4, <1>5, <1>6, <1>7, <1>8, <1>9, <1>10, <1>11 DEF Next

\* In every reachable state what is cached or on its way to the cache was true
\* recently enough.
THEOREM CacheFreshEnough == Spec => []FreshEnough
<1>1. Init => FreshEnough
  BY DEF Init, FreshEnough, Fresh
<1>2. QED BY <1>1, FreshEnoughStep, TypeCorrect, PTL DEF Spec

\* A verdict given in a step was stale by at most Ttl + Timeout.
LEMMA VerdictBounded ==
    ASSUME TypeOK, FreshEnough, [Next]_vars, NEW r \in Request, NEW v \in {"allowed", "inactive"},
           Becomes(r, v)
    PROVE  LET d == req'[r].device
           IN  \/ v = Verdict(Status(d))
               \/ since[d] =< Ttl + Timeout
<1>0. /\ Ttl \in Nat /\ Timeout \in Nat
      /\ \A d \in Device : since[d] \in 0 .. Horizon /\ cache[d].left \in 0 .. Ttl
      /\ \A s \in Request : req[s].waited \in 0 .. Timeout
  BY GateAssumption DEF TypeOK, CacheOK, ReqOK, RequestState
<1>1. ASSUME NEW s \in Request, NEW d \in Device, CheckDevice(s, d)
      PROVE  LET e == req'[r].device
             IN  v = Verdict(Status(e)) \/ since[e] =< Ttl + Timeout
  <2>1. r = s /\ Fresh(d) /\ req'[r].device = d /\ v = Verdict(cache[d].status)
    BY <1>1, CheckStep DEF Becomes, Others
  <2>2. CASE cache[d].status = Status(d)
    BY <2>1, <2>2
  <2>3. CASE cache[d].status # Status(d)
    BY <1>0, <2>1, <2>3 DEF FreshEnough, Horizon
  <2>4. QED BY <2>1, <2>2, <2>3
<1>2. ASSUME NEW s \in Request, GetSession(s)
      PROVE  LET e == req'[r].device
             IN  v = Verdict(Status(e)) \/ since[e] =< Ttl + Timeout
  <2>1. Valid(req[s].cookie) => Owner(req[s].cookie) \in Device
    BY GateAssumption DEF Valid, TypeOK, ReqOK, RequestState
  <2>2. CASE Valid(req[s].cookie) /\ CheckDevice(s, Owner(req[s].cookie))
    BY <1>1, <2>1, <2>2
  <2>3. QED BY <1>2, <2>2, DenyStep, TokenStep DEF GetSession, Becomes, Others
<1>3. ASSUME NEW s \in Request, LookupToken(s)
      PROVE  LET e == req'[r].device
             IN  v = Verdict(Status(e)) \/ since[e] =< Ttl + Timeout
  <2>1. Valid(req[s].header) => Owner(req[s].header) \in Device
    BY GateAssumption DEF Valid, TypeOK, ReqOK, RequestState
  <2>2. CASE Valid(req[s].header) /\ CheckDevice(s, Owner(req[s].header))
    BY <1>1, <2>1, <2>2
  <2>3. QED BY <1>3, <2>2, DenyStep DEF LookupToken, Becomes, Others
<1>4. ASSUME NEW s \in Request, Answer(s)
      PROVE  LET e == req'[r].device
             IN  v = Verdict(Status(e)) \/ since[e] =< Ttl + Timeout
  <2>1. /\ r = s /\ req[r].pc = "read" /\ v = Verdict(req[r].answer)
        /\ req'[r].device = req[r].device /\ req[r].device \in Device
    BY <1>4, AnswerStep DEF Answer, Becomes, Others, TypeOK, ReqOK, AtVerifier
  <2>2. CASE req[r].answer = Status(req[r].device)
    BY <2>1, <2>2
  <2>3. CASE req[r].answer # Status(req[r].device)
    BY <1>0, <2>1, <2>3 DEF FreshEnough, Horizon
  <2>4. QED BY <2>1, <2>2, <2>3
<1>5. ASSUME NEW s \in Request, StoreFails(s) \/ ReadStatus(s) \/ VerifierFails(s)
      PROVE  FALSE
  BY <1>5, DenyStep, ReadStep DEF StoreFails, VerifierFails, Becomes, Others
<1>6. ASSUME NEW s \in Request, NEW cookie \in Session \cup {None},
             NEW header \in DeviceToken \cup {None}, Visit(s, cookie, header)
      PROVE  FALSE
  BY <1>6 DEF Visit, Becomes, TypeOK, ReqOK
<1>7. CASE Tick
  BY <1>7, WaitStep DEF Becomes
<1>8. CASE UNCHANGED req
  BY <1>8 DEF Becomes
<1>9. QED
  BY <1>2, <1>3, <1>4, <1>5, <1>6, <1>7, <1>8 DEF Next, SetStatus, Issue, Withdraw, vars

\* No step lets a device in that has been revoked for longer than the cache
\* lifetime plus the verifier timeout.
THEOREM RevocationIsBounded == Spec => RevocationBounded
<1>1. TypeOK /\ FreshEnough /\ [Next]_vars =>
        [\A r \in Request : Becomes(r, "allowed") =>
            LET d == req'[r].device IN active[d] \/ since[d] =< Ttl + Timeout]_vars
  BY VerdictBounded DEF Verdict, Status
<1>2. QED BY <1>1, TypeCorrect, CacheFreshEnough, PTL DEF Spec, RevocationBounded

\* No step refuses a device as revoked that has been active for longer.
THEOREM ReactivationIsBounded == Spec => ReactivationBounded
<1>1. TypeOK /\ FreshEnough /\ [Next]_vars =>
        [\A r \in Request : Becomes(r, "inactive") =>
            LET d == req'[r].device IN ~active[d] \/ since[d] =< Ttl + Timeout]_vars
  BY VerdictBounded DEF Verdict, Status
<1>2. QED BY <1>1, TypeCorrect, CacheFreshEnough, PTL DEF Spec, ReactivationBounded
=============================================================================
