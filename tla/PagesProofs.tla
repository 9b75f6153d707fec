----------------------------- MODULE PagesProofs -----------------------------
(***************************************************************************)
(* Proofs about Pages: it implements Gate, so that what is proved of Gate  *)
(* holds next to any number of pages, and a revoked device makes itself no *)
(* tokens after a known time.                                              *)
(***************************************************************************)
EXTENDS Pages, GateProofs

-----------------------------------------------------------------------------
(* Pages are visits.                                                       *)

\* Each step of a page is a step of Gate, or leaves its variables alone.
LEMMA PagesStep == [PagesNext]_<<vars, pageVars>> => [Next]_vars
<1> SUFFICES ASSUME PagesNext PROVE [Next]_vars
  BY DEF vars
<1>0. PageRequest \subseteq Request /\ Session \subseteq Credential /\ DeviceToken \subseteq Credential
  BY PagesAssumption DEF Credential
<1>1. ASSUME NEW d \in Device, SetStatus(d) PROVE Next
  BY <1>1 DEF Next
<1>2. ASSUME NEW c \in Session, SignInOrOut(c) PROVE Next
  BY <1>0, <1>2 DEF SignInOrOut, Next
<1>3. ASSUME NEW r \in Request, NEW cookie \in Session \cup {None},
             NEW header \in DeviceToken \cup {None}, VisitGate(r, cookie, header)
      PROVE  Next
  BY <1>3 DEF VisitGate, Next
<1>4. ASSUME NEW r \in Request, AtGate(r) PROVE Next
  BY <1>4 DEF AtGate, Next
<1>5. ASSUME NEW r \in PageRequest, NEW cookie \in Session \cup {None}, NEW does, Open(r, cookie, does)
      PROVE  Next
  <2>1. r \in Request /\ None \in DeviceToken \cup {None} /\ Visit(r, cookie, None)
    BY <1>0, <1>5 DEF Open
  <2>2. QED BY <2>1 DEF Next
<1>6. ASSUME NEW r \in PageRequest, Guard(r) PROVE Next
  BY <1>0, <1>6 DEF Guard, Next
<1>7. ASSUME NEW r \in PageRequest, CountTokens(r) \/ PageFails(r) PROVE UNCHANGED vars
  BY <1>7 DEF CountTokens, PageFails
<1>8. ASSUME NEW r \in PageRequest, NEW t \in DeviceToken, StoreToken(r, t) \/ RevokeToken(r, t)
      PROVE  Next \/ UNCHANGED vars
  <2>1. Issue(t) \/ Withdraw(t) \/ UNCHANGED vars
    BY <1>8 DEF StoreToken, RevokeToken
  <2>2. QED BY <1>0, <2>1 DEF Next
<1>9. CASE PageTick
  BY <1>9 DEF PageTick, Next
<1>10. QED
  BY <1>1, <1>2, <1>3, <1>4, <1>5, <1>6, <1>7, <1>8, <1>9 DEF PagesNext

\* The pages and /verify together behave as Gate does.
THEOREM PagesImplementGate == PagesSpec => Spec
<1>1. PagesInit => Init
  BY DEF PagesInit
<1>2. QED BY <1>1, PagesStep, PTL DEF PagesSpec, Spec

-----------------------------------------------------------------------------
(* What a page works on.                                                   *)

PageState == [does : Does, at : Working \cup {"guard", "over"}, taken : 0 .. PageTime]

\* As long as since is not saturated, age is the same.
AgeOK ==
    /\ age \in [Device -> 0 .. AgeHorizon]
    /\ \A d \in Device : since[d] < Horizon => age[d] = since[d]

\* The inductive invariant: a page that has passed its guard works for a device
\* that was active, or was not known to be revoked, when it passed.
Late(r) == age[req[r].device] =< Ttl + Timeout + page[r].taken

PageInv ==
    /\ page \in [PageRequest -> PageState]
    /\ AgeOK
    /\ \A r \in PageRequest : page[r].at \in Working =>
          req[r].device \in Device /\ (active[req[r].device] \/ Late(r))

\* A step of the guard touches no other request, and a page it lets in was
\* not let in before.
LEMMA GuardStep ==
    ASSUME TypeOK, NEW r \in Request,
           GetSession(r) \/ StoreFails(r) \/ ReadStatus(r) \/ Answer(r) \/ VerifierFails(r)
    PROVE  /\ Others(r) /\ UNCHANGED <<active, since>>
           /\ req'[r].pc = "allowed" => Becomes(r, "allowed") /\ req'[r].device \in Device
<1>1. CASE GetSession(r)
  <2>1. Valid(req[r].cookie) => Owner(req[r].cookie) \in Device
    BY GateAssumption DEF Valid, TypeOK, ReqOK, RequestState
  <2>2. QED BY <1>1, <2>1, CheckStep, DenyStep, TokenStep DEF GetSession, Becomes
<1>2. CASE StoreFails(r)
  BY <1>2, DenyStep DEF StoreFails
<1>3. CASE ReadStatus(r)
  BY <1>3, ReadStep DEF ReadStatus
<1>4. CASE Answer(r)
  BY <1>4, AnswerStep DEF Answer, Becomes, TypeOK, ReqOK, AtVerifier
<1>5. CASE VerifierFails(r)
  BY <1>5, DenyStep DEF VerifierFails
<1>6. QED BY <1>1, <1>2, <1>3, <1>4, <1>5

\* A step that moves no page past its guard, and leaves the status and the age
\* of devices and the requests of the pages at work alone, preserves PageInv.
LEMMA QuietStep ==
    ASSUME PageInv, page' \in [PageRequest -> PageState], UNCHANGED <<active, since, age>>,
           \A r \in PageRequest : page'[r].at \in Working =>
              page[r].at \in Working /\ page'[r].taken = page[r].taken /\ req'[r] = req[r]
    PROVE  PageInv'
<1>1. AgeOK'
  BY DEF PageInv, AgeOK
<1>2. QED BY <1>1 DEF PageInv, Late

LEMMA PageInvStep ==
    TypeOK /\ FreshEnough /\ PageInv /\ [PagesNext]_<<vars, pageVars>> => PageInv'
<1> SUFFICES ASSUME TypeOK, FreshEnough, PageInv, [PagesNext]_<<vars, pageVars>> PROVE PageInv'
  OBVIOUS
<1>0. /\ Ttl \in Nat /\ Timeout \in Nat /\ PageTime \in Nat
      /\ PageRequest \subseteq Request
      /\ \A d \in Device : since[d] \in 0 .. Horizon /\ age[d] \in 0 .. AgeHorizon
      /\ \A r \in PageRequest : page[r] \in PageState
  BY GateAssumption, PagesAssumption DEF TypeOK, PageInv, AgeOK
<1>a. ASSUME NEW s \in PageState, NEW at \in Working \cup {"guard", "over"}
      PROVE  LET u == [s EXCEPT !.at = at]
             IN  u \in PageState /\ u.at = at /\ u.taken = s.taken
  BY DEF PageState
<1>1. ASSUME NEW d \in Device, SetStatus(d), age' = [age EXCEPT ![d] = 0], UNCHANGED page
      PROVE  PageInv'
  <2>1. AgeOK'
    BY <1>0, <1>1 DEF SetStatus, PageInv, AgeOK, AgeHorizon, TypeOK, Horizon
  <2>2. ASSUME NEW r \in PageRequest, page'[r].at \in Working
        PROVE  req'[r].device \in Device /\ (active'[req'[r].device] \/ Late(r)')
    <3>1. req' = req /\ page' = page /\ req[r].device \in Device
      BY <1>1, <2>2 DEF SetStatus, PageInv
    <3>2. page[r].taken \in Nat
      BY <1>0 DEF PageState
    <3>3. CASE req[r].device = d
      <4>1. age'[d] = 0
        BY <1>1 DEF PageInv, AgeOK
      <4>2. QED BY <1>0, <3>1, <3>2, <3>3, <4>1 DEF Late
    <3>4. CASE req[r].device # d
      BY <1>1, <2>2, <3>1, <3>4 DEF SetStatus, PageInv, AgeOK, TypeOK, Late
    <3>5. QED BY <3>3, <3>4
  <2>3. QED BY <1>1, <2>1, <2>2 DEF PageInv
<1>2. ASSUME NEW c \in Session, SignInOrOut(c) PROVE PageInv'
  BY <1>2, QuietStep DEF SignInOrOut, Issue, Withdraw, pageVars, PageInv
<1>3. ASSUME NEW r \in Request \ PageRequest, NEW cookie, NEW header, VisitGate(r, cookie, header)
      PROVE  PageInv'
  <2>1. \A s \in PageRequest : req'[s] = req[s]
    BY <1>0, <1>3 DEF VisitGate, Visit, TypeOK, ReqOK
  <2>2. QED BY <1>3, <2>1, QuietStep DEF VisitGate, Visit, pageVars, PageInv
<1>4. ASSUME NEW r \in Request \ PageRequest, AtGate(r) PROVE PageInv'
  <2>1. Others(r) /\ UNCHANGED <<active, since>>
    <3>1. CASE LookupToken(r)
      <4>1. Valid(req[r].header) => Owner(req[r].header) \in Device
        BY GateAssumption DEF Valid, TypeOK, ReqOK, RequestState
      <4>2. QED BY <3>1, <4>1, CheckStep, DenyStep DEF LookupToken
    <3>2. QED BY <1>4, <3>1, GuardStep DEF AtGate
  <2>2. \A s \in PageRequest : req'[s] = req[s]
    BY <1>0, <2>1 DEF Others
  <2>3. QED BY <1>4, <2>1, <2>2, QuietStep DEF AtGate, pageVars, PageInv
<1>5. ASSUME NEW r \in PageRequest, NEW cookie, NEW does \in Does, Open(r, cookie, does)
      PROVE  PageInv'
  <2> DEFINE u == [Over EXCEPT !.does = does, !.at = "guard"]
  <2>1. u \in PageState /\ u.at = "guard"
    <3>1. 0 \in 0 .. PageTime
      BY <1>0
    <3>2. QED BY <3>1 DEF PageState, Over
  <2>2. page' = [page EXCEPT ![r] = u] /\ UNCHANGED <<active, since, age>>
    BY <1>5 DEF Open, Visit
  <2>3. \A s \in PageRequest \ {r} : req'[s] = req[s]
    BY <1>0, <1>5 DEF Open, Visit, TypeOK, ReqOK
  <2> HIDE DEF u
  <2>4. page' \in [PageRequest -> PageState] /\ page'[r] = u
        /\ \A s \in PageRequest \ {r} : page'[s] = page[s]
    BY <2>1, <2>2 DEF PageInv
  <2>5. QED BY <2>1, <2>2, <2>3, <2>4, QuietStep DEF Working
<1>6. ASSUME NEW r \in PageRequest, Guard(r) PROVE PageInv'
  <2> DEFINE u == [page[r] EXCEPT !.at = First(page[r].does, req'[r].pc)]
  <2>1. /\ r \in Request /\ Others(r) /\ UNCHANGED <<active, since, age>>
        /\ req'[r].pc = "allowed" => Becomes(r, "allowed") /\ req'[r].device \in Device
    BY <1>0, <1>6, GuardStep DEF Guard
  <2>2. First(page[r].does, req'[r].pc) \in {"guard", "count", "revoke", "over"}
        /\ (First(page[r].does, req'[r].pc) \in Working => req'[r].pc = "allowed")
    BY DEF First, Working
  <2>3. u \in PageState /\ u.at = First(page[r].does, req'[r].pc) /\ u.taken = page[r].taken
    BY <1>0, <1>a, <2>2 DEF Working
  <2>4. page' = [page EXCEPT ![r] = u]
    BY <1>6 DEF Guard
  <2> HIDE DEF u
  <2>5. page' \in [PageRequest -> PageState] /\ page'[r] = u
        /\ \A s \in PageRequest \ {r} : page'[s] = page[s] /\ req'[s] = req[s]
    BY <1>0, <2>1, <2>3, <2>4 DEF PageInv, Others
  <2>6. ASSUME u.at \in Working
        PROVE  req'[r].device \in Device /\ (active[req'[r].device] \/ Late(r)')
    <3>1. Becomes(r, "allowed") /\ req'[r].device \in Device
      BY <2>1, <2>2, <2>3, <2>6
    <3>2. [Next]_vars
      BY PagesStep
    <3>3. active[req'[r].device] \/ since[req'[r].device] =< Ttl + Timeout
      BY <2>1, <3>1, <3>2, VerdictBounded DEF Verdict, Status
    <3>4. since[req'[r].device] =< Ttl + Timeout => age[req'[r].device] =< Ttl + Timeout
      BY <1>0, <3>1 DEF PageInv, AgeOK, Horizon
    <3>5. u.taken \in Nat
      BY <2>3 DEF PageState
    <3>6. age'[req'[r].device] = age[req'[r].device] /\ age[req'[r].device] \in Nat
      BY <1>0, <2>1, <3>1 DEF AgeHorizon
    <3>7. QED BY <1>0, <2>5, <3>1, <3>3, <3>4, <3>5, <3>6 DEF Late
  <2>7. ASSUME NEW s \in PageRequest, page'[s].at \in Working
        PROVE  req'[s].device \in Device /\ (active'[req'[s].device] \/ Late(s)')
    <3>1. CASE s = r
      BY <2>1, <2>5, <2>6, <2>7, <3>1
    <3>2. CASE s # r
      BY <2>1, <2>5, <2>7, <3>2 DEF PageInv, Late
    <3>3. QED BY <3>1, <3>2
  <2>8. AgeOK'
    BY <2>1 DEF PageInv, AgeOK
  <2>9. QED BY <2>5, <2>7, <2>8 DEF PageInv
<1>7. ASSUME NEW r \in PageRequest, NEW at \in {"store", "over"}, page[r].at \in Working,
             page' = [page EXCEPT ![r].at = at], UNCHANGED <<active, since, req, age>>
      PROVE  PageInv'
  <2> DEFINE u == [page[r] EXCEPT !.at = at]
  <2>1. u \in PageState /\ u.taken = page[r].taken
    BY <1>0, <1>a DEF Working
  <2>2. page' = [page EXCEPT ![r] = u]
    BY <1>7
  <2> HIDE DEF u
  <2>3. page' \in [PageRequest -> PageState] /\ page'[r] = u
        /\ \A s \in PageRequest \ {r} : page'[s] = page[s]
    BY <2>1, <2>2 DEF PageInv
  <2>4. QED BY <1>7, <2>1, <2>3, QuietStep
<1>8. ASSUME NEW r \in PageRequest, CountTokens(r) \/ PageFails(r) PROVE PageInv'
  <2>1. PICK at \in {"store", "over"} : page' = [page EXCEPT ![r].at = at]
    BY <1>8 DEF CountTokens, PageFails
  <2>2. QED BY <1>7, <1>8, <2>1 DEF CountTokens, PageFails, Working, vars
<1>9. ASSUME NEW r \in PageRequest, NEW t \in DeviceToken, StoreToken(r, t) \/ RevokeToken(r, t)
      PROVE  PageInv'
  BY <1>7, <1>9 DEF StoreToken, RevokeToken, Issue, Withdraw, Working, vars
<1>10. CASE PageTick
  <2>1. /\ active' = active
        /\ \A r \in Request : req'[r].device = req[r].device
    BY <1>10, WaitStep DEF PageTick, Tick
  <2>2. AgeOK'
    <3>1. \A d \in Device :
             /\ since'[d] = IF since[d] < Horizon THEN since[d] + 1 ELSE Horizon
             /\ age'[d] = IF age[d] < AgeHorizon THEN age[d] + 1 ELSE AgeHorizon
      BY <1>10 DEF PageTick, Tick
    <3>2. \A d \in Device : age'[d] \in 0 .. AgeHorizon
      BY <1>0, <3>1 DEF AgeHorizon
    <3>3. \A d \in Device : since'[d] < Horizon => age'[d] = since'[d]
      BY <1>0, <3>1 DEF PageInv, AgeOK, Horizon, AgeHorizon
    <3>4. age' \in [Device -> 0 .. AgeHorizon]
      BY <1>10, <3>2 DEF PageTick
    <3>5. QED BY <3>3, <3>4 DEF AgeOK
  <2>3. ASSUME NEW s \in PageState, s.at \in Working, s.taken # PageTime
        PROVE  LET u == [s EXCEPT !.taken = @ + 1]
               IN  u \in PageState /\ u.at = s.at /\ u.taken = s.taken + 1
    <3>1. s.taken \in 0 .. PageTime /\ s.taken + 1 \in 0 .. PageTime
      BY <1>0, <2>3 DEF PageState
    <3>2. QED BY <2>3, <3>1 DEF PageState
  <2>4. \A r \in PageRequest : page[r].at \in Working => page[r].taken # PageTime
    BY <1>10 DEF PageTick, OverTime
  <2>5. page' = [r \in PageRequest |->
                   IF page[r].at \in Working THEN [page[r] EXCEPT !.taken = @ + 1] ELSE page[r]]
    BY <1>10 DEF PageTick
  <2>6. \A r \in PageRequest :
           /\ page'[r] \in PageState /\ page'[r].at = page[r].at
           /\ page[r].at \in Working => page'[r].taken = page[r].taken + 1
    BY <1>0, <2>3, <2>4, <2>5
  <2>7. page' \in [PageRequest -> PageState]
    BY <2>5, <2>6
  <2>8. ASSUME NEW r \in PageRequest, page'[r].at \in Working
        PROVE  req'[r].device \in Device /\ (active'[req'[r].device] \/ Late(r)')
    <3>1. /\ req'[r].device = req[r].device /\ req[r].device \in Device
          /\ active[req[r].device] \/ Late(r)
          /\ page'[r].taken = page[r].taken + 1
      BY <1>0, <2>1, <2>6, <2>8 DEF PageInv
    <3>2. page[r].taken \in Nat
      BY <1>0 DEF PageState
    <3>3. age'[req[r].device] =< age[req[r].device] + 1 /\ age'[req[r].device] \in Nat
      BY <1>0, <1>10, <3>1 DEF PageTick, AgeHorizon
    <3>4. Late(r) => Late(r)'
      BY <1>0, <3>1, <3>2, <3>3 DEF Late
    <3>5. QED BY <2>1, <3>1, <3>4
  <2>9. QED BY <2>2, <2>7, <2>8 DEF PageInv
<1>11. CASE UNCHANGED <<vars, pageVars>>
  BY <1>11, QuietStep DEF vars, pageVars, PageInv
<1>12. QED
  BY <1>1, <1>2, <1>3, <1>4, <1>5, <1>6, <1>8, <1>9, <1>10, <1>11 DEF PagesNext

\* In every reachable state a page at work has a device that was not known to
\* be revoked when the page passed its guard.
THEOREM PagesWorkForTheActive == PagesSpec => []PageInv
<1>1. PagesInit => PageInv
  <2>1. 0 \in 0 .. PageTime /\ AgeHorizon \in 0 .. AgeHorizon
    BY GateAssumption, PagesAssumption DEF AgeHorizon
  <2>2. \A d \in Device : PagesInit => ~(since[d] < Horizon)
    BY GateAssumption DEF PagesInit, Init, Horizon
  <2>3. QED BY <2>1, <2>2 DEF PagesInit, PageInv, PageState, AgeOK, Over, Does, Working
<1>2. QED BY <1>1, PageInvStep, PagesImplementGate, TypeCorrect, CacheFreshEnough, PTL DEF PagesSpec

\* No page makes a token for a device revoked longer ago than the cache, the
\* verifier and the page itself can account for.
THEOREM RevokedDevicesMakeNoTokens == PagesSpec => RevokedMakesNoTokens
<1> DEFINE Made(t) == store[t] = NotIssued /\ store'[t] # NotIssued
<1>1. ASSUME TypeOK, PageInv, [PagesNext]_<<vars, pageVars>>, NEW t \in DeviceToken, Made(t)
      PROVE  active[Owner(t)] \/ age[Owner(t)] =< Ttl + Timeout + PageTime
  <2>0. t \in Credential /\ t \notin Session
    BY PagesAssumption DEF Credential
  <2>1. ASSUME NEW r \in PageRequest, NEW u \in DeviceToken, StoreToken(r, u)
        PROVE  active[Owner(t)] \/ age[Owner(t)] =< Ttl + Timeout + PageTime
    <3>1. u = t
      BY <1>1, <2>0, <2>1 DEF StoreToken, Issue, TypeOK
    <3>2. /\ Owner(t) \in Device /\ page[r] \in PageState
          /\ active[Owner(t)] \/ age[Owner(t)] =< Ttl + Timeout + page[r].taken
      BY <1>1, <2>1, <3>1 DEF StoreToken, PageInv, Late, Working
    <3>3. page[r].taken \in 0 .. PageTime /\ age[Owner(t)] \in 0 .. AgeHorizon
      BY <1>1, <3>2 DEF PageState, PageInv, AgeOK
    <3>4. QED BY <3>2, <3>3, GateAssumption, PagesAssumption DEF AgeHorizon
  <2>2. ASSUME NEW c \in Credential, Withdraw(c) PROVE FALSE
    BY <1>1, <2>0, <2>2 DEF Withdraw, TypeOK, NotIssued
  <2>3. ASSUME NEW c \in Session, SignInOrOut(c) PROVE FALSE
    <3>1. c \in Credential /\ c # t
      BY <2>0 DEF Credential
    <3>2. QED BY <1>1, <2>0, <2>2, <2>3, <3>1 DEF SignInOrOut, Issue, TypeOK
  <2>4. ASSUME NEW r, NEW u \in DeviceToken, RevokeToken(r, u) PROVE FALSE
    <3>1. u \in Credential
      BY DEF Credential
    <3>2. QED BY <1>1, <2>2, <2>4, <3>1 DEF RevokeToken, vars
  <2>5. CASE Tick
    <3>1. store'[t] = CountDown(store[t])
      BY <2>0, <2>5 DEF Tick
    <3>2. QED BY <1>1, <3>1 DEF CountDown, NotIssued
  <2>6. CASE UNCHANGED store
    BY <1>1, <2>6
  <2>7. QED
    BY <1>1, <2>1, <2>3, <2>4, <2>5, <2>6
    DEF PagesNext, SetStatus, VisitGate, Visit, AtGate, GetSession, LookupToken, StoreFails,
        ReadStatus, Answer, VerifierFails, Open, Guard, CountTokens, PageFails, PageTick, vars
<1>2. TypeOK /\ PageInv /\ [PagesNext]_<<vars, pageVars>> =>
        [\A t \in DeviceToken : store[t] = NotIssued /\ store'[t] # NotIssued =>
            active[Owner(t)] \/ age[Owner(t)] =< Ttl + Timeout + PageTime]_<<vars, pageVars>>
  BY <1>1
<1>3. QED
  BY <1>2, PagesImplementGate, TypeCorrect, PagesWorkForTheActive, PTL
  DEF PagesSpec, RevokedMakesNoTokens
=============================================================================
