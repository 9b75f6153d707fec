------------------------- MODULE RedisTokensProofs -------------------------
(***************************************************************************)
(* Proofs about RedisTokens for any number of calls, devices and tokens,   *)
(* any limit and any lifetime:                                             *)
(*   TypeCorrect        the type invariant                                 *)
(*   IndexIsSound       what can be listed and revoked works, and what     *)
(*                      works can be listed and revoked                    *)
(*   OnlyOwnersRevoke   no device ends the life of another's token         *)
(*   LimitIsNearlyKept  a device has fewer tokens than its limit and the   *)
(*                      calls together                                     *)
(***************************************************************************)
EXTENDS RedisTokens, FiniteSetTheorems, TLAPS

-----------------------------------------------------------------------------
(* What a step leaves in call.                                             *)

CallOK ==
    /\ call \in [Call -> CallState]
    /\ \A p \in Call : Holds(call[p])

Others(p) == \A q \in Call \ {p} : call'[q] = call[q]

\* Replacing one call by a well-formed one keeps call well-formed.
LEMMA ReplaceStep ==
    ASSUME CallOK, NEW p \in Call, NEW u \in CallState, Holds(u),
           call' = [call EXCEPT ![p] = u]
    PROVE  CallOK' /\ call'[p] = u /\ Others(p)
BY DEF CallOK, Others, Holds

\* An idle call holds nothing.
LEMMA IdleState == Idle \in CallState /\ Idle.pc = "idle" /\ Idle.todo = {} /\ Holds(Idle)
BY DEF Idle, CallState, Pc, Holds

\* A call that returns is idle.
LEMMA ReturnStep ==
    ASSUME CallOK, NEW p \in Call, Return(p)
    PROVE  CallOK' /\ call'[p].pc = "idle" /\ call'[p].todo = {} /\ Others(p)
BY IdleState, ReplaceStep DEF Return

\* A call that goes on to its next command keeps its device and token.
LEMMA BecomeStep ==
    ASSUME CallOK, NEW p \in Call, NEW pc \in Pc, Become(p, pc),
           call[p].token \in Token,
           pc \in {"list", "srem", "revokeDel"} => call[p].device \in Device,
           pc \notin {"idle", "get", "revokeGet"}
    PROVE  /\ CallOK' /\ Others(p)
           /\ call'[p].pc = pc /\ call'[p].device = call[p].device
           /\ call'[p].token = call[p].token /\ call'[p].todo = call[p].todo
<1> DEFINE u == [call[p] EXCEPT !.pc = pc]
<1>1. ASSUME NEW c \in CallState
      PROVE  LET v == [c EXCEPT !.pc = pc]
             IN  /\ v \in CallState /\ v.pc = pc
                 /\ v.device = c.device /\ v.token = c.token /\ v.todo = c.todo
  BY DEF CallState
<1>2. /\ u \in CallState /\ u.pc = pc
      /\ u.device = call[p].device /\ u.token = call[p].token /\ u.todo = call[p].todo
  BY <1>1 DEF CallOK
<1>3. call' = [call EXCEPT ![p] = u]
  BY DEF Become
<1> HIDE DEF u
<1>4. Holds(u)
  BY <1>2 DEF Holds, Pc
<1>5. QED BY <1>2, <1>3, <1>4, ReplaceStep


\* A listing starts with the ids of its device.
LEMMA ListStep ==
    ASSUME CallOK, NEW p \in Call, NEW d \in Device, NEW create \in BOOLEAN,
           NEW ids \in SUBSET Token,
           call' = [call EXCEPT ![p] = [Idle EXCEPT !.pc = "list", !.device = d, !.create = create,
                                                    !.todo = ids]]
    PROVE  /\ CallOK' /\ Others(p)
           /\ call'[p].pc = "list" /\ call'[p].device = d /\ call'[p].todo = ids
<1> DEFINE u == [Idle EXCEPT !.pc = "list", !.device = d, !.create = create, !.todo = ids]
<1>1. ASSUME NEW c \in CallState
      PROVE  LET v == [c EXCEPT !.pc = "list", !.device = d, !.create = create, !.todo = ids]
             IN  v \in CallState /\ v.pc = "list" /\ v.device = d /\ v.todo = ids
  BY DEF CallState, Pc
<1>2. u \in CallState /\ u.pc = "list" /\ u.device = d /\ u.todo = ids
  BY <1>1, IdleState
<1>3. call' = [call EXCEPT ![p] = u]
  OBVIOUS
<1> HIDE DEF u
<1>4. Holds(u)
  BY <1>2 DEF Holds
<1>5. QED BY <1>2, <1>3, <1>4, ReplaceStep

\* Touching needs no device, so it holds none.
LEMMA TouchStep ==
    ASSUME CallOK, NEW p \in Call, NEW t \in Token,
           call' = [call EXCEPT ![p] = [Idle EXCEPT !.pc = "touchId", !.token = t]]
    PROVE  CallOK' /\ Others(p) /\ call'[p].pc = "touchId" /\ call'[p].token = t /\ call'[p].todo = {}
<1> DEFINE u == [Idle EXCEPT !.pc = "touchId", !.token = t]
<1>1. ASSUME NEW c \in CallState
      PROVE  LET v == [c EXCEPT !.pc = "touchId", !.token = t]
             IN  v \in CallState /\ v.pc = "touchId" /\ v.token = t /\ v.todo = c.todo
  BY DEF CallState, Pc
<1>2. u \in CallState /\ u.pc = "touchId" /\ u.token = t /\ u.todo = {}
  BY <1>1, IdleState
<1>3. call' = [call EXCEPT ![p] = u]
  OBVIOUS
<1> HIDE DEF u
<1>4. Holds(u)
  BY <1>2 DEF Holds
<1>5. QED BY <1>2, <1>3, <1>4, ReplaceStep

\* A revocation holds the device that asks and the token it names.
LEMMA RevokeStep ==
    ASSUME CallOK, NEW p \in Call, NEW d \in Device, NEW t \in Token,
           call' = [call EXCEPT ![p] = [Idle EXCEPT !.pc = "revokeGet", !.device = d, !.token = t]]
    PROVE  /\ CallOK' /\ Others(p)
           /\ call'[p].pc = "revokeGet" /\ call'[p].token = t /\ call'[p].todo = {}
<1> DEFINE u == [Idle EXCEPT !.pc = "revokeGet", !.device = d, !.token = t]
<1>1. ASSUME NEW c \in CallState
      PROVE  LET v == [c EXCEPT !.pc = "revokeGet", !.device = d, !.token = t]
             IN  /\ v \in CallState /\ v.pc = "revokeGet" /\ v.device = d
                 /\ v.token = t /\ v.todo = c.todo
  BY DEF CallState, Pc
<1>2. u \in CallState /\ u.pc = "revokeGet" /\ u.device = d /\ u.token = t /\ u.todo = {}
  BY <1>1, IdleState
<1>3. call' = [call EXCEPT ![p] = u]
  OBVIOUS
<1> HIDE DEF u
<1>4. Holds(u)
  BY <1>2 DEF Holds
<1>5. QED BY <1>2, <1>3, <1>4, ReplaceStep

\* Looking up the id key takes the id off the list.
LEMMA ListIdStep ==
    ASSUME CallOK, NEW p \in Call, NEW t \in Token, NEW pc \in {"get", "srem"},
           call[p].pc = "list",
           call' = [call EXCEPT ![p] = [@ EXCEPT !.pc = pc, !.token = t, !.todo = call[p].todo \ {t}]]
    PROVE  /\ CallOK' /\ Others(p)
           /\ call'[p].pc = pc /\ call'[p].device = call[p].device
           /\ call'[p].token = t /\ call'[p].todo = call[p].todo \ {t}
<1> DEFINE u == [call[p] EXCEPT !.pc = pc, !.token = t, !.todo = call[p].todo \ {t}]
<1>1. ASSUME NEW c \in CallState
      PROVE  LET v == [c EXCEPT !.pc = pc, !.token = t, !.todo = c.todo \ {t}]
             IN  /\ v \in CallState /\ v.pc = pc /\ v.device = c.device
                 /\ v.token = t /\ v.todo = c.todo \ {t}
  BY DEF CallState, Pc
<1>2. /\ u \in CallState /\ u.pc = pc /\ u.device = call[p].device
      /\ u.token = t /\ u.todo = call[p].todo \ {t}
  BY <1>1 DEF CallOK
<1>3. call' = [call EXCEPT ![p] = u]
  OBVIOUS
<1> HIDE DEF u
<1>4. Holds(u)
  BY <1>2 DEF Holds, CallOK
<1>5. QED BY <1>2, <1>3, <1>4, ReplaceStep

\* A record that is still there is counted.
LEMMA FoundStep ==
    ASSUME CallOK, NEW p \in Call, call[p].pc = "get",
           call' = [call EXCEPT ![p] = [@ EXCEPT !.pc = "list", !.found = call[p].found + 1]]
    PROVE  CallOK' /\ Others(p) /\ call'[p].pc = "list" /\ call'[p].todo = call[p].todo
<1> DEFINE u == [call[p] EXCEPT !.pc = "list", !.found = call[p].found + 1]
<1>1. ASSUME NEW c \in CallState, NEW n \in Nat
      PROVE  LET v == [c EXCEPT !.pc = "list", !.found = n]
             IN  v \in CallState /\ v.pc = "list" /\ v.device = c.device /\ v.todo = c.todo
  BY DEF CallState, Pc
<1>2. call[p].found + 1 \in Nat
  BY DEF CallOK, CallState
<1>3. u \in CallState /\ u.pc = "list" /\ u.device = call[p].device /\ u.todo = call[p].todo
  BY <1>1, <1>2 DEF CallOK
<1>4. call' = [call EXCEPT ![p] = u]
  OBVIOUS
<1> HIDE DEF u
<1>5. Holds(u)
  BY <1>3 DEF Holds, CallOK
<1>6. QED BY <1>3, <1>4, <1>5, ReplaceStep


-----------------------------------------------------------------------------
(* The type invariant.                                                     *)

\* Every step keeps the type invariant.
LEMMA TypeStep == TypeOK /\ [Next]_vars => TypeOK'
<1> SUFFICES ASSUME TypeOK, [Next]_vars PROVE TypeOK'
  OBVIOUS
<1> DEFINE KeysOK == /\ record \in [Token -> {"absent", "expires", "forever"}]
                     /\ byId \in [Token -> BOOLEAN]
                     /\ index \in [Device -> SUBSET Token]
                     /\ owner \in [Token -> Device \cup {None}]
                     /\ left \in [Token -> 0 .. TokenTtl]
                     /\ recent \in [Token -> BOOLEAN]
                     /\ revoked \subseteq Token
<1>1. KeysOK /\ CallOK
  BY DEF TypeOK, CallOK
<1>2. SUFFICES KeysOK' /\ CallOK'
  BY DEF TypeOK, CallOK
<1>3. ASSUME UNCHANGED <<keys, revoked>> PROVE KeysOK'
  BY <1>1, <1>3 DEF keys
<1>4. ASSUME NEW p \in Call, NEW d \in Device, NEW create \in BOOLEAN, BeginList(p, d, create)
      PROVE  KeysOK' /\ CallOK'
  <2>1. index[d] \in SUBSET Token
    BY <1>1
  <2>2. QED BY <1>1, <1>3, <1>4, <2>1, ListStep DEF BeginList
<1>5. ASSUME NEW p \in Call, NEW t \in Token, ListId(p, t)
      PROVE  KeysOK' /\ CallOK'
  <2> DEFINE pc == IF byId[t] THEN "get" ELSE "srem"
  <2>1. pc \in {"get", "srem"}
    OBVIOUS
  <2>2. QED BY <1>1, <1>3, <1>5, <2>1, ListIdStep DEF ListId
<1>6. ASSUME NEW p \in Call, ListRecord(p)
      PROVE  KeysOK' /\ CallOK'
  <2>1. CASE Exists(call[p].token)
    BY <1>1, <1>3, <1>6, <2>1, FoundStep DEF ListRecord
  <2>2. CASE ~Exists(call[p].token)
    <3>1. Become(p, "srem")
      BY <1>6, <2>2 DEF ListRecord, Become
    <3>2. call[p].token \in Token /\ call[p].device \in Device
      BY <1>1, <1>6 DEF CallOK, Holds, Pc, ListRecord
    <3>3. QED BY <1>1, <1>3, <1>6, <3>1, <3>2, BecomeStep DEF ListRecord, Pc
  <2>3. QED BY <2>1, <2>2
<1>7. ASSUME NEW p \in Call, ListRemove(p)
      PROVE  KeysOK' /\ CallOK'
  <2>1. call[p].token \in Token /\ call[p].device \in Device
    BY <1>1, <1>7 DEF CallOK, Holds, Pc, ListRemove
  <2>2. CallOK'
    BY <1>1, <1>7, <2>1, BecomeStep DEF ListRemove, Pc
  <2>3. KeysOK'
    BY <1>1, <1>7, <2>1 DEF ListRemove
  <2>4. QED BY <2>2, <2>3
<1>8. ASSUME NEW p \in Call, ListDone(p) \/ Fail(p)
      PROVE  KeysOK' /\ CallOK'
  BY <1>1, <1>3, <1>8, ReturnStep DEF ListDone, Fail
<1>9. ASSUME NEW p \in Call, NEW t \in Token, CreateStore(p, t)
      PROVE  KeysOK' /\ CallOK'
  <2>1. call[p].device \in Device /\ TokenTtl \in 0 .. TokenTtl
    BY <1>1, <1>9, RedisTokensAssumption DEF CallOK, Holds, CreateStore
  <2>2. CallOK'
    BY <1>1, <1>9, ReturnStep DEF CreateStore
  <2>3. KeysOK'
    BY <1>1, <1>9, <2>1 DEF CreateStore
  <2>4. QED BY <2>2, <2>3
<1>10. ASSUME NEW p \in Call, NEW t \in Token, BeginTouch(p, t)
       PROVE  KeysOK' /\ CallOK'
  BY <1>1, <1>3, <1>10, TouchStep DEF BeginTouch
<1>11. ASSUME NEW p \in Call, TouchId(p) \/ TouchGet(p)
       PROVE  KeysOK' /\ CallOK'
  <2>1. call[p].token \in Token
    BY <1>1, <1>11 DEF CallOK, Holds, Pc, TouchId, TouchGet
  <2>2. Become(p, "touchGet") \/ Become(p, "touchSet") \/ Return(p)
    BY <1>11 DEF TouchId, TouchGet
  <2>3. CASE Become(p, "touchGet")
    BY <1>1, <1>3, <1>11, <2>1, <2>3, BecomeStep DEF TouchId, TouchGet, Pc
  <2>4. CASE Become(p, "touchSet")
    BY <1>1, <1>3, <1>11, <2>1, <2>4, BecomeStep DEF TouchId, TouchGet, Pc
  <2>5. CASE Return(p)
    BY <1>1, <1>3, <1>11, <2>5, ReturnStep DEF TouchId, TouchGet
  <2>6. QED BY <2>2, <2>3, <2>4, <2>5
<1>12. ASSUME NEW p \in Call, TouchSet(p)
       PROVE  KeysOK' /\ CallOK'
  <2>1. CallOK'
    BY <1>1, <1>12, ReturnStep DEF TouchSet
  <2>2. KeysOK'
    BY <1>1, <1>12 DEF TouchSet
  <2>3. QED BY <2>1, <2>2
<1>13. ASSUME NEW p \in Call, NEW d \in Device, NEW t \in Token, BeginRevoke(p, d, t)
       PROVE  KeysOK' /\ CallOK'
  BY <1>1, <1>3, <1>13, RevokeStep DEF BeginRevoke
<1>14. ASSUME NEW p \in Call, RevokeGet(p)
       PROVE  KeysOK' /\ CallOK'
  <2>1. call[p].token \in Token /\ call[p].device \in Device
    BY <1>1, <1>14 DEF CallOK, Holds, Pc, RevokeGet
  <2>2. CASE Become(p, "revokeDel")
    BY <1>1, <1>3, <1>14, <2>1, <2>2, BecomeStep DEF RevokeGet, Pc
  <2>3. CASE Return(p)
    BY <1>1, <1>3, <1>14, <2>3, ReturnStep DEF RevokeGet
  <2>4. QED BY <1>14, <2>2, <2>3 DEF RevokeGet
<1>15. ASSUME NEW p \in Call, RevokeDel(p)
       PROVE  KeysOK' /\ CallOK'
  <2>1. call[p].token \in Token /\ call[p].device \in Device
    BY <1>1, <1>15 DEF CallOK, Holds, Pc, RevokeDel
  <2>2. CallOK'
    BY <1>1, <1>15, ReturnStep DEF RevokeDel
  <2>3. KeysOK'
    BY <1>1, <1>15, <2>1 DEF RevokeDel, IdDeleted
  <2>4. QED BY <2>2, <2>3
<1>16. CASE Tick
  <2>1. \A n \in 0 .. TokenTtl : CountDown(n) \in 0 .. TokenTtl
    BY RedisTokensAssumption DEF CountDown
  <2>2. left' \in [Token -> 0 .. TokenTtl]
    BY <1>1, <1>16, <2>1 DEF Tick
  <2>3. KeysOK'
    BY <1>1, <1>16, <2>2 DEF Tick
  <2>4. CallOK'
    BY <1>1, <1>16 DEF Tick, CallOK, Holds
  <2>5. QED BY <2>3, <2>4
<1>17. CASE UNCHANGED vars
  BY <1>1, <1>3, <1>17 DEF vars, keys, CallOK, Holds
<1>18. QED
  BY <1>4, <1>5, <1>6, <1>7, <1>8, <1>9, <1>10, <1>11, <1>12, <1>13, <1>14, <1>15, <1>16, <1>17
  DEF Next

\* The type invariant of the Redis tokens (redis.js:83-143).
THEOREM TypeCorrect == Spec => []TypeOK
<1>1. Init => TypeOK
  BY RedisTokensAssumption, IdleState DEF Init, TypeOK
<1>2. QED BY <1>1, TypeStep, PTL DEF Spec


-----------------------------------------------------------------------------
(* The traces of a token.                                                  *)

\* What every step leaves alone: a created token keeps its owner, and its id
\* key never comes back.
Lasting ==
    \A t \in Token : Created(t) => owner'[t] = owner[t] /\ (byId'[t] => byId[t])

\* So whatever a step does not touch stays sound.
LEMMA OthersSound ==
    ASSUME TypeOK, NEW q \in Call, Sound(call[q]), call'[q] = call[q], Lasting
    PROVE  Sound(call[q])'
<1>1. /\ call[q].todo \subseteq Token
      /\ call[q].pc \in Pc \ {"idle", "list"} => call[q].token \in Token
  BY DEF TypeOK, CallState, Holds
<1>2. "srem" \in Pc \ {"idle", "list"} /\ "revokeDel" \in Pc \ {"idle", "list"}
  BY DEF Pc
<1>3. QED BY <1>1, <1>2 DEF Sound, Lasting, Created

\* An idle call, or one that lists nothing, is sound.
LEMMA IdleSound ==
    ASSUME NEW p \in Call, call'[p].pc = "idle", call'[p].todo = {}
    PROVE  Sound(call[p])'
BY DEF Sound, Pc

\* A step that leaves the keys alone keeps their traces and the other calls.
LEMMA KeysKept ==
    ASSUME TypeOK, TokenInv, UNCHANGED <<keys, revoked>>,
           NEW p \in Call, Others(p), Sound(call[p])'
    PROVE  TokenInv'
<1>1. Lasting
  BY DEF Lasting, keys
<1>2. \A q \in Call \ {p} : Sound(call[q])'
  BY <1>1, OthersSound DEF TokenInv, Others
<1>3. (\A d \in Device : \A t \in index[d] : Created(t))'
  BY DEF TokenInv, keys, Created
<1>4. Traces'
  BY DEF TokenInv, Traces, keys, Created
<1>5. QED BY <1>2, <1>3, <1>4 DEF TokenInv

\* A token is a fact of its record: it exists if its id key is there.
LEMMA IdMeansRecord ==
    ASSUME Traces, NEW t \in Token
    PROVE  /\ byId[t] => Exists(t)
           /\ ~Exists(t) => ~byId[t]
           /\ Exists(t) => Created(t)
BY DEF Traces, Exists

\* Every step keeps the traces of every token together.
LEMMA TokenInvStep == TypeOK /\ TokenInv /\ [Next]_vars => TokenInv'
<1> SUFFICES ASSUME TypeOK, TokenInv, [Next]_vars PROVE TokenInv'
  OBVIOUS
<1>0. CallOK /\ Traces
  BY DEF TypeOK, CallOK, TokenInv
<1>1. ASSUME NEW p \in Call
      PROVE  /\ Sound(call[p])
             /\ call[p].todo \subseteq Token
             /\ call[p].pc \in Pc \ {"idle", "list"} => call[p].token \in Token
             /\ call[p].pc \in {"list", "get", "srem", "revokeGet", "revokeDel"}
                  => call[p].device \in Device
  BY DEF TypeOK, TokenInv, CallState, Holds
<1>2. ASSUME NEW p \in Call, NEW d \in Device, NEW create \in BOOLEAN, BeginList(p, d, create)
      PROVE  TokenInv'
  <2>1. UNCHANGED <<keys, revoked>> /\ index[d] \in SUBSET Token
    BY <1>2 DEF BeginList, TypeOK
  <2> DEFINE ids == index[d]
  <2>2. call' = [call EXCEPT ![p] = [Idle EXCEPT !.pc = "list", !.device = d, !.create = create,
                                                 !.todo = ids]]
    BY <1>2 DEF BeginList
  <2>3. \A t \in ids : Created(t)
    BY DEF TokenInv
  <2>4. ids \in SUBSET Token
    BY <2>1
  <2> HIDE DEF ids
  <2>5. Others(p) /\ call'[p].pc = "list" /\ call'[p].todo = ids
    BY <1>0, <2>2, <2>4, ListStep
  <2>6. Sound(call[p])'
    BY <2>1, <2>3, <2>5 DEF Sound, Created, keys, Pc
  <2>7. QED BY <2>1, <2>5, <2>6, KeysKept
<1>3. ASSUME NEW p \in Call, NEW t \in Token, ListId(p, t)
      PROVE  TokenInv'
  <2> DEFINE pc == IF byId[t] THEN "get" ELSE "srem"
  <2>1. UNCHANGED <<keys, revoked>> /\ t \in call[p].todo
    BY <1>3 DEF ListId
  <2>2. Others(p) /\ call'[p].pc = pc /\ call'[p].token = t /\ call'[p].todo = call[p].todo \ {t}
    BY <1>0, <1>3, ListIdStep DEF ListId
  <2>3. Created(t) /\ \A u \in call[p].todo : Created(u)
    BY <1>1, <2>1 DEF Sound
  <2>4. Sound(call[p])'
    BY <2>1, <2>2, <2>3 DEF Sound, Created, keys, Pc
  <2>5. QED BY <2>1, <2>2, <2>4, KeysKept
<1>4. ASSUME NEW p \in Call, ListRecord(p)
      PROVE  TokenInv'
  <2>1. UNCHANGED <<keys, revoked>> /\ call[p].pc = "get"
    BY <1>4 DEF ListRecord
  <2>2. call[p].token \in Token /\ call[p].device \in Device /\ Created(call[p].token)
        /\ \A u \in call[p].todo : Created(u)
    BY <1>1, <2>1 DEF Sound, Pc
  <2>3. CASE Exists(call[p].token)
    <3>1. Others(p) /\ call'[p].pc = "list" /\ call'[p].todo = call[p].todo
      BY <1>0, <1>4, <2>3, FoundStep DEF ListRecord
    <3>2. Sound(call[p])'
      BY <2>1, <2>2, <3>1 DEF Sound, Created, keys, Pc
    <3>3. QED BY <2>1, <3>1, <3>2, KeysKept
  <2>4. CASE ~Exists(call[p].token)
    <3>1. Become(p, "srem")
      BY <1>4, <2>4 DEF ListRecord, Become
    <3>2. /\ Others(p) /\ call'[p].pc = "srem"
          /\ call'[p].token = call[p].token /\ call'[p].todo = call[p].todo
      BY <1>0, <2>2, <3>1, BecomeStep DEF Pc
    <3>3. ~byId[call[p].token]
      BY <1>0, <2>2, <2>4, IdMeansRecord
    <3>4. Sound(call[p])'
      BY <2>1, <2>2, <3>2, <3>3 DEF Sound, Created, keys, Pc
    <3>5. QED BY <2>1, <3>2, <3>4, KeysKept
  <2>5. QED BY <2>3, <2>4
<1>5. ASSUME NEW p \in Call, ListRemove(p)
      PROVE  TokenInv'
  <2>1. call[p].pc = "srem" /\ UNCHANGED <<record, byId, owner, left, revoked>>
    BY <1>5 DEF ListRemove
  <2>2. call[p].token \in Token /\ call[p].device \in Device /\ ~byId[call[p].token]
        /\ \A u \in call[p].todo : Created(u)
    BY <1>1, <2>1 DEF Sound, Pc
  <2>3. Others(p) /\ call'[p].pc = "list" /\ call'[p].todo = call[p].todo
    BY <1>0, <1>5, <2>2, BecomeStep DEF ListRemove, Pc
  <2>4. Lasting
    BY <2>1 DEF Lasting
  <2>5. Sound(call[p])'
    BY <2>1, <2>2, <2>3 DEF Sound, Created, Pc
  <2>6. \A q \in Call \ {p} : Sound(call[q])'
    BY <2>3, <2>4, OthersSound DEF TokenInv, Others
  <2>7. \A d \in Device : index'[d] \subseteq index[d]
                          /\ \A t \in index[d] \ {call[p].token} : t \in index'[d]
    BY <1>5 DEF ListRemove, TypeOK
  <2>8. (\A d \in Device : \A t \in index[d] : Created(t))'
    BY <2>1, <2>7 DEF TokenInv, Created
  <2>9. \A t \in Token : byId[t] => owner[t] \in Device /\ t # call[p].token
    BY <1>0, <2>2 DEF TypeOK, Traces, Created
  <2>10. Traces'
    BY <1>0, <2>1, <2>7, <2>9 DEF Traces, Created
  <2>11. QED BY <2>5, <2>6, <2>8, <2>10 DEF TokenInv
<1>6. ASSUME NEW p \in Call, ListDone(p) \/ Fail(p)
      PROVE  TokenInv'
  <2>1. UNCHANGED <<keys, revoked>>
    BY <1>6 DEF ListDone, Fail
  <2>2. Others(p) /\ call'[p].pc = "idle" /\ call'[p].todo = {}
    BY <1>0, <1>6, ReturnStep DEF ListDone, Fail
  <2>3. QED BY <2>1, <2>2, IdleSound, KeysKept
<1>7. ASSUME NEW p \in Call, NEW t \in Token, CreateStore(p, t)
      PROVE  TokenInv'
  <2>1. ~Created(t) /\ call[p].device \in Device /\ call[p].device # None
    BY <1>1, <1>7, RedisTokensAssumption DEF CreateStore, Created
  <2>2. Others(p) /\ call'[p].pc = "idle" /\ call'[p].todo = {}
    BY <1>0, <1>7, ReturnStep DEF CreateStore
  <2>3. \A u \in Token \ {t} : /\ record'[u] = record[u] /\ byId'[u] = byId[u]
                               /\ owner'[u] = owner[u] /\ left'[u] = left[u]
    BY <1>7 DEF CreateStore, TypeOK
  <2>4. /\ record'[t] = "expires" /\ byId'[t] /\ owner'[t] = call[p].device
        /\ left'[t] = TokenTtl /\ revoked' = revoked
    BY <1>7 DEF CreateStore, TypeOK
  <2>5. /\ index'[call[p].device] = index[call[p].device] \cup {t}
        /\ \A d \in Device \ {call[p].device} : index'[d] = index[d]
    BY <1>7, <2>1 DEF CreateStore, TypeOK
  <2>6. Lasting
    BY <2>1, <2>3 DEF Lasting
  <2>7. \A q \in Call \ {p} : Sound(call[q])'
    BY <2>2, <2>6, OthersSound DEF TokenInv, Others
  <2>8. (\A d \in Device : \A u \in index[d] : Created(u))'
    <3>1. \A d \in Device : \A u \in index[d] : u \in Token /\ Created(u)
      BY DEF TokenInv, TypeOK
    <3>2. QED BY <2>1, <2>3, <2>4, <2>5, <3>1 DEF Created
  <2>9. Traces'
    <3>1. ASSUME NEW u \in Token, u # t
          PROVE  /\ record'[u] = "expires" <=> byId'[u]
                 /\ byId'[u] => owner'[u] # None /\ left'[u] > 0 /\ u \in index'[owner'[u]]
                 /\ owner'[u] = None => record'[u] = "absent"
                 /\ owner'[u] # None /\ left'[u] > 0 /\ ~byId'[u] => u \in revoked'
      <4>1. byId[u] => owner[u] \in Device
        BY <1>0 DEF Traces, TypeOK, Created
      <4>2. QED BY <1>0, <2>3, <2>4, <2>5, <3>1, <4>1 DEF Traces, Created
    <3>2. QED BY <2>1, <2>4, <2>5, <3>1, RedisTokensAssumption DEF Traces, Created
  <2>10. QED BY <2>2, <2>7, <2>8, <2>9, IdleSound DEF TokenInv
<1>8. ASSUME NEW p \in Call, NEW t \in Token, BeginTouch(p, t)
      PROVE  TokenInv'
  <2>1. UNCHANGED <<keys, revoked>> /\ Created(t)
    BY <1>0, <1>8, IdMeansRecord DEF BeginTouch, Works
  <2>2. Others(p) /\ call'[p].pc = "touchId" /\ call'[p].token = t /\ call'[p].todo = {}
    BY <1>0, <1>8, TouchStep DEF BeginTouch
  <2>3. Sound(call[p])'
    BY <2>1, <2>2 DEF Sound, Created, keys, Pc
  <2>4. QED BY <2>1, <2>2, <2>3, KeysKept
<1>9. ASSUME NEW p \in Call, TouchId(p) \/ TouchGet(p) \/ RevokeGet(p)
      PROVE  TokenInv'
  <2>1. /\ UNCHANGED <<keys, revoked>>
        /\ call[p].pc \in {"touchId", "touchGet", "revokeGet"}
    BY <1>9 DEF TouchId, TouchGet, RevokeGet
  <2>2. call[p].token \in Token /\ Created(call[p].token) /\ \A u \in call[p].todo : Created(u)
    BY <1>1, <2>1 DEF Sound, Pc
  <2>3. CASE Return(p)
    <3>1. Others(p) /\ call'[p].pc = "idle" /\ call'[p].todo = {}
      BY <1>0, <2>3, ReturnStep
    <3>2. QED BY <2>1, <3>1, IdleSound, KeysKept
  <2>4. CASE Become(p, "touchGet") \/ Become(p, "touchSet")
    <3>1. PICK pc \in {"touchGet", "touchSet"} : Become(p, pc)
      BY <2>4
    <3>2. Others(p) /\ call'[p].pc = pc /\ call'[p].token = call[p].token
          /\ call'[p].todo = call[p].todo
      BY <1>0, <2>2, <3>1, BecomeStep DEF Pc
    <3>3. Sound(call[p])'
      BY <2>1, <2>2, <3>2 DEF Sound, Created, keys, Pc
    <3>4. QED BY <2>1, <3>2, <3>3, KeysKept
  <2>5. CASE RevokeGet(p) /\ Become(p, "revokeDel")
    <3>1. call[p].device \in Device
      BY <1>1, <2>5 DEF RevokeGet
    <3>2. Others(p) /\ call'[p].pc = "revokeDel" /\ call'[p].token = call[p].token
          /\ call'[p].todo = call[p].todo /\ call'[p].device = call[p].device
      BY <1>0, <2>2, <2>5, <3>1, BecomeStep DEF Pc
    <3>3. owner[call[p].token] = call[p].device
      <4>1. CASE MayRevoke(call[p].token, call[p].device)
        BY <4>1 DEF MayRevoke
      <4>2. CASE ~MayRevoke(call[p].token, call[p].device)
        <5>1. Return(p)
          BY <2>5, <4>2 DEF RevokeGet
        <5>2. call'[p].pc = "idle"
          BY <1>0, <5>1, ReturnStep
        <5>3. QED BY <3>2, <5>2
      <4>3. QED BY <4>1, <4>2
    <3>4. Sound(call[p])'
      BY <2>1, <2>2, <3>2, <3>3 DEF Sound, Created, keys, Pc
    <3>5. QED BY <2>1, <3>2, <3>4, KeysKept
  <2>6. QED BY <1>9, <2>3, <2>4, <2>5 DEF TouchId, TouchGet, RevokeGet
<1>10. ASSUME NEW p \in Call, TouchSet(p)
       PROVE  TokenInv'
  <2> DEFINE t == call[p].token
  <2>1. UNCHANGED <<byId, index, owner, left, revoked>> /\ call[p].pc = "touchSet"
    BY <1>10 DEF TouchSet
  <2>2. t \in Token /\ Created(t)
    BY <1>1, <2>1 DEF Sound, Pc
  <2>3. Others(p) /\ call'[p].pc = "idle" /\ call'[p].todo = {}
    BY <1>0, <1>10, ReturnStep DEF TouchSet
  <2>4. /\ \A u \in Token \ {t} : record'[u] = record[u]
        /\ record'[t] = IF Exists(t) THEN record[t] ELSE "forever"
    BY <1>10, <2>2 DEF TouchSet, TypeOK
  <2>5. Lasting
    BY <2>1 DEF Lasting
  <2>6. \A q \in Call \ {p} : Sound(call[q])'
    BY <2>3, <2>5, OthersSound DEF TokenInv, Others
  <2>7. (\A d \in Device : \A u \in index[d] : Created(u))'
    BY <2>1 DEF TokenInv, Created
  <2>8. Traces'
    BY <1>0, <2>1, <2>2, <2>4 DEF Traces, Created, Exists
  <2>9. QED BY <2>3, <2>6, <2>7, <2>8, IdleSound DEF TokenInv
<1>11. ASSUME NEW p \in Call, NEW d \in Device, NEW t \in Token, BeginRevoke(p, d, t)
       PROVE  TokenInv'
  <2>1. UNCHANGED <<keys, revoked>> /\ Created(t)
    BY <1>0, <1>11 DEF BeginRevoke, Traces
  <2>2. Others(p) /\ call'[p].pc = "revokeGet" /\ call'[p].token = t /\ call'[p].todo = {}
    BY <1>0, <1>11, RevokeStep DEF BeginRevoke
  <2>3. Sound(call[p])'
    BY <2>1, <2>2 DEF Sound, Created, keys, Pc
  <2>4. QED BY <2>1, <2>2, <2>3, KeysKept
<1>12. ASSUME NEW p \in Call, RevokeDel(p)
       PROVE  TokenInv'
  <2> DEFINE t == call[p].token
  <2>1. UNCHANGED <<owner, left>> /\ call[p].pc = "revokeDel" /\ revoked' = revoked \cup {t}
    BY <1>12 DEF RevokeDel
  <2>2. t \in Token /\ Created(t) /\ call[p].device = owner[t] /\ call[p].device \in Device
    BY <1>1, <2>1 DEF Sound, Pc
  <2>3. Others(p) /\ call'[p].pc = "idle" /\ call'[p].todo = {}
    BY <1>0, <1>12, ReturnStep DEF RevokeDel
  <2>4. /\ record'[t] = "absent" /\ ~byId'[t]
        /\ \A u \in Token \ {t} : record'[u] = record[u] /\ byId'[u] = byId[u]
    BY <1>12, <2>2 DEF RevokeDel, IdDeleted, TypeOK
  <2>5. \A d \in Device : index'[d] \subseteq index[d] /\ \A u \in index[d] \ {t} : u \in index'[d]
    BY <1>12 DEF RevokeDel, TypeOK
  <2>6. Lasting
    BY <2>1, <2>4 DEF Lasting
  <2>7. \A q \in Call \ {p} : Sound(call[q])'
    BY <2>3, <2>6, OthersSound DEF TokenInv, Others
  <2>8. (\A d \in Device : \A u \in index[d] : Created(u))'
    BY <2>1, <2>5 DEF TokenInv, Created
  <2>9. \A u \in Token : byId[u] => owner[u] \in Device
    BY <1>0 DEF TypeOK, Traces, Created
  <2>10. Traces'
    BY <1>0, <2>1, <2>2, <2>4, <2>5, <2>9 DEF Traces, Created
  <2>11. QED BY <2>3, <2>7, <2>8, <2>10, IdleSound DEF TokenInv
<1>13. CASE Tick
  <2>1. UNCHANGED <<index, owner, call, revoked>>
    BY <1>13 DEF Tick
  <2>2. ASSUME NEW t \in Token
        PROVE  /\ left[t] \in Nat
               /\ left'[t] = IF left[t] > 0 THEN left[t] - 1 ELSE 0
               /\ record'[t] = IF record[t] = "expires" /\ left[t] =< 1 THEN "absent" ELSE record[t]
               /\ byId'[t] = (byId[t] /\ left[t] > 1)
    <3>1. left[t] \in Nat /\ left'[t] = IF left[t] > 0 THEN left[t] - 1 ELSE 0
      BY <1>13, RedisTokensAssumption DEF Tick, CountDown, TypeOK
    <3>2. record'[t] = IF record[t] = "expires" /\ left[t] =< 1 THEN "absent" ELSE record[t]
      BY <1>13 DEF Tick
    <3>3. byId'[t] = (byId[t] /\ left[t] > 1)
      BY <1>13 DEF Tick
    <3>4. QED BY <3>1, <3>2, <3>3
  <2>3. Lasting
    BY <2>1, <2>2 DEF Lasting
  <2>4. \A q \in Call : Sound(call[q])'
    BY <2>1, <2>3, OthersSound DEF TokenInv
  <2>5. (\A d \in Device : \A u \in index[d] : Created(u))'
    BY <2>1 DEF TokenInv, Created
  <2>6. ASSUME NEW t \in Token
        PROVE  /\ record'[t] = "expires" <=> byId'[t]
               /\ byId'[t] => Created(t) /\ left'[t] > 0 /\ t \in index[owner[t]]
               /\ ~Created(t) => record'[t] = "absent"
               /\ Created(t) /\ left'[t] > 0 /\ ~byId'[t] => t \in revoked
    <3>1. CASE left[t] > 1
      <4>1. left'[t] > 0 /\ left[t] > 0
        BY <2>2, <3>1
      <4>2. record'[t] = record[t] /\ byId'[t] = byId[t]
        <5>1. ~(left[t] =< 1)
          BY <2>2, <3>1
        <5>2. byId[t] \in BOOLEAN
          BY DEF TypeOK
        <5>3. QED BY <2>2, <3>1, <5>1, <5>2
      <4>3. QED BY <1>0, <4>1, <4>2 DEF Traces
    <3>2. CASE ~(left[t] > 1)
      <4>1. ~(left'[t] > 0) /\ left[t] =< 1
        BY <2>2, <3>2
      <4>2. ~byId'[t] /\ record'[t] # "expires"
        BY <2>2, <3>2, <4>1
      <4>3. ~Created(t) => record'[t] = "absent"
        BY <1>0, <2>2 DEF Traces
      <4>4. QED BY <4>1, <4>2, <4>3
    <3>3. QED BY <3>1, <3>2
  <2>7. Traces'
    BY <2>1, <2>6 DEF Traces, Created
  <2>8. QED BY <2>4, <2>5, <2>7 DEF TokenInv
<1>14. CASE UNCHANGED vars
  <2>1. Lasting
    BY <1>14 DEF Lasting, vars
  <2>2. \A q \in Call : Sound(call[q])'
    BY <1>14, <2>1, OthersSound DEF TokenInv, vars
  <2>3. Traces' /\ (\A d \in Device : \A u \in index[d] : Created(u))'
    BY <1>0, <1>14 DEF TokenInv, Traces, Created, vars
  <2>4. QED BY <2>2, <2>3 DEF TokenInv
<1>15. QED
  BY <1>2, <1>3, <1>4, <1>5, <1>6, <1>7, <1>8, <1>9, <1>10, <1>11, <1>12, <1>13, <1>14 DEF Next

\* The inductive invariant: no interleaving of listing, creating, touching
\* and revoking leaves half a token (redis.js:87-143).
THEOREM TracesStayTogether == Spec => []TokenInv
<1>1. Init => TypeOK
  BY RedisTokensAssumption, IdleState DEF Init, TypeOK
<1>2. Init => TokenInv
  BY IdleState DEF Init, TokenInv, Traces, Sound, Created, Pc
<1>3. QED BY <1>1, <1>2, TypeStep, TokenInvStep, PTL DEF Spec

\* What can be listed and revoked works, and what works without having been
\* revoked can be listed and revoked by its device (redis.js:87-132).
THEOREM IndexIsSound == Spec => []IndexAgrees
<1>1. TypeOK /\ TokenInv => IndexAgrees
  BY DEF TypeOK, TokenInv, Traces, IndexAgrees, Works, Exists, Created
<1>2. QED BY <1>1, TypeCorrect, TracesStayTogether, PTL

\* A token stops working before its time only through a revocation by the
\* device that created it, however the calls interleave (redis.js:125-132).
THEOREM OnlyOwnersRevoke == Spec => OnlyOwnerRevokes
<1> DEFINE EndsBy(t) == \E p \in Call : /\ call[p].pc = "revokeDel" /\ call[p].token = t
                                        /\ call[p].device = owner[t]
<1>1. ASSUME TypeOK, TokenInv, Next, NEW t \in Token, Works(t), ~Works(t)', left'[t] > 0
      PROVE  EndsBy(t)
  <2>1. CASE record' = record /\ left' = left
    BY <1>1, <2>1 DEF Works, Exists
  <2>2. ASSUME NEW p \in Call, NEW u \in Token, CreateStore(p, u)
        PROVE  EndsBy(t)
    <3>1. record'[t] = "expires" \/ record'[t] = record[t]
      BY <1>1, <2>2 DEF CreateStore, TypeOK
    <3>2. QED BY <1>1, <3>1 DEF Works, Exists
  <2>3. ASSUME NEW p \in Call, TouchSet(p)
        PROVE  EndsBy(t)
    <3>1. record'[t] # "absent"
      BY <1>1, <2>3 DEF TouchSet, TypeOK, Works, Exists
    <3>2. QED BY <1>1, <3>1 DEF Works, Exists
  <2>4. ASSUME NEW p \in Call, RevokeDel(p)
        PROVE  EndsBy(t)
    <3>1. CASE t = call[p].token
      BY <1>1, <2>4, <3>1 DEF RevokeDel, TokenInv, Sound
    <3>2. CASE t # call[p].token
      <4>1. record'[t] = record[t] /\ left'[t] = left[t]
        BY <1>1, <2>4, <3>2 DEF RevokeDel, TypeOK
      <4>2. QED BY <1>1, <4>1 DEF Works, Exists
    <3>3. QED BY <3>1, <3>2
  <2>5. CASE Tick
    <3>1. left[t] \in Nat /\ left'[t] = IF left[t] > 0 THEN left[t] - 1 ELSE 0
      BY <1>1, <2>5, RedisTokensAssumption DEF Tick, CountDown, TypeOK
    <3>2. record'[t] = record[t]
      BY <1>1, <2>5, <3>1 DEF Tick, TypeOK
    <3>3. QED BY <1>1, <3>1, <3>2 DEF Works, Exists
  <2>6. QED
    BY <1>1, <2>1, <2>2, <2>3, <2>4, <2>5
    DEF Next, BeginList, ListId, ListRecord, ListRemove, ListDone, BeginTouch, TouchId,
        TouchGet, BeginRevoke, RevokeGet, Fail, keys
<1>2. TypeOK /\ TokenInv /\ [Next]_vars =>
        [\A t \in Token : Works(t) /\ ~Works(t)' /\ left'[t] > 0 =>
            \E p \in Call : call[p].pc = "revokeDel" /\ call[p].token = t
                            /\ call[p].device = owner[t]]_vars
  BY <1>1
<1>3. QED BY <1>2, TypeCorrect, TracesStayTogether, PTL DEF Spec, OnlyOwnerRevokes

-----------------------------------------------------------------------------
(* The limit.  A call that creates has found some tokens and has some      *)
(* ahead of it; together they weigh as much as it will have counted if     *)
(* nothing ends meanwhile.  A call that began when the device had m tokens *)
(* weighs m, so for the device to have m tokens or more, while calls that  *)
(* weigh less are under way, other calls must have ended.                  *)

Ahead(c, ids) == {t \in c.todo \cup (IF c.pc = "get" THEN {c.token} ELSE {}) : ids[t]}
Weight(c, ids) == c.found + Cardinality(Ahead(c, ids))
Weights == [p \in Call |-> Weight(call[p], byId)]

Pending(d) == {p \in Call : call[p].create /\ call[p].device = d}

\* The calls of P that weigh less than m; one that creates weighs less than MaxTokens.
Below(P, v, m) == {q \in P : v[q] < m}

Counted ==
    \A d \in Device : \A m \in MaxTokens .. Cardinality(Listed(d)) :
        Cardinality(Listed(d)) + Cardinality(Below(Pending(d), Weights, m)) < m + Cardinality(Call)

Mine ==
    /\ \A d \in Device : \A t \in index[d] : owner[t] = d
    /\ \A p \in Call : \A t \in Ahead(call[p], byId) : owner[t] = call[p].device

LimitInv == Mine /\ Counted

\* Calls that weigh less than m after n - k tokens have ended weighed less than
\* m + (n - k) before; calls that begin weigh all there is.
LEMMA Fewer ==
    ASSUME NEW n \in Nat, NEW k \in 0 .. n, NEW P \in SUBSET Call, NEW Q \in SUBSET Call,
           NEW v \in [Call -> Nat], NEW w \in [Call -> Nat],
           \A q \in Q : (q \in P /\ v[q] =< w[q] + (n - k)) \/ w[q] >= k,
           \A m \in MaxTokens .. n : n + Cardinality(Below(P, v, m)) < m + Cardinality(Call)
    PROVE  \A m \in MaxTokens .. k : k + Cardinality(Below(Q, w, m)) < m + Cardinality(Call)
<1> SUFFICES ASSUME NEW m \in MaxTokens .. k
             PROVE  k + Cardinality(Below(Q, w, m)) < m + Cardinality(Call)
  OBVIOUS
<1> DEFINE l == m + (n - k)
           A == Below(P, v, l)
           B == Below(Q, w, m)
<1>1. m \in Nat /\ m =< k /\ l \in MaxTokens .. n
  BY RedisTokensAssumption
<1>2. B \subseteq A
  <2> SUFFICES ASSUME NEW q \in Q, w[q] < m PROVE q \in P /\ v[q] < l
    BY DEF Below
  <2>1. w[q] \in Nat
    OBVIOUS
  <2>2. q \in P /\ v[q] =< w[q] + (n - k) /\ v[q] \in Nat
    BY <1>1, <2>1
  <2>3. QED BY <1>1, <2>1, <2>2
<1>3. IsFiniteSet(A) /\ IsFiniteSet(B)
  <2>1. A \subseteq Call /\ B \subseteq Call
    BY DEF Below
  <2>2. QED BY <2>1, RedisTokensAssumption, FS_Subset
<1>4. Cardinality(B) =< Cardinality(A) /\ Cardinality(A) \in Nat /\ Cardinality(B) \in Nat
  BY <1>2, <1>3, FS_Subset, FS_CardinalityType
<1>5. n + Cardinality(A) < l + Cardinality(Call)
  BY <1>1
<1>6. Cardinality(Call) \in Nat
  BY RedisTokensAssumption, FS_CardinalityType
<1> HIDE DEF A, B
<1>7. QED BY <1>1, <1>4, <1>5, <1>6 DEF B

\* A token more is a call less.
LEMMA OneMore ==
    ASSUME NEW n \in Nat, NEW P \in SUBSET Call, NEW Q \in SUBSET Call, NEW p \in P,
           NEW v \in [Call -> Nat], NEW w \in [Call -> Nat],
           v[p] < MaxTokens, p \notin Q, \A q \in Q : q \in P /\ v[q] =< w[q],
           \A m \in MaxTokens .. n : n + Cardinality(Below(P, v, m)) < m + Cardinality(Call)
    PROVE  \A m \in MaxTokens .. n + 1 :
              n + 1 + Cardinality(Below(Q, w, m)) < m + Cardinality(Call)
<1> SUFFICES ASSUME NEW m \in MaxTokens .. n + 1
             PROVE  n + 1 + Cardinality(Below(Q, w, m)) < m + Cardinality(Call)
  OBVIOUS
<1> DEFINE A == Below(P, v, m)
           B == Below(Q, w, m)
<1>1. m \in Nat /\ MaxTokens \in Nat /\ m >= MaxTokens /\ m =< n + 1
  BY RedisTokensAssumption
<1>2. /\ IsFiniteSet(A) /\ IsFiniteSet(B) /\ IsFiniteSet(Call)
      /\ Cardinality(A) \in Nat /\ Cardinality(B) \in Nat /\ Cardinality(Call) \in Nat
  <2>1. A \subseteq Call /\ B \subseteq Call
    BY DEF Below
  <2>2. QED BY <2>1, RedisTokensAssumption, FS_Subset, FS_CardinalityType
<1>3. B \subseteq A \ {p} /\ p \in A
  <2>1. v[p] \in Nat /\ v[p] < m
    BY <1>1
  <2>2. ASSUME NEW q \in Q, w[q] < m PROVE q \in P /\ v[q] < m /\ q # p
    <3>1. w[q] \in Nat /\ v[q] \in Nat
      OBVIOUS
    <3>2. QED BY <1>1, <2>2, <3>1
  <2>3. QED BY <2>1, <2>2 DEF Below
<1>4. Cardinality(B) =< Cardinality(A) - 1
  <2>1. IsFiniteSet(A \ {p}) /\ Cardinality(A \ {p}) = Cardinality(A) - 1
    BY <1>2, <1>3, FS_RemoveElement
  <2>2. Cardinality(B) =< Cardinality(A \ {p})
    BY <1>3, <2>1, FS_Subset
  <2>3. QED BY <2>1, <2>2
<1>5. Cardinality(B) =< Cardinality(Call) - 1
  <2>1. IsFiniteSet(Call \ {p}) /\ Cardinality(Call \ {p}) = Cardinality(Call) - 1
    BY <1>2, FS_RemoveElement
  <2>2. B \subseteq Call \ {p}
    BY <1>3 DEF Below
  <2>3. Cardinality(B) =< Cardinality(Call \ {p})
    BY <2>1, <2>2, FS_Subset
  <2>4. QED BY <2>1, <2>3
<1>6. m =< n => n + Cardinality(A) < m + Cardinality(Call)
  BY <1>1
<1> HIDE DEF A, B
<1>7. QED BY <1>1, <1>2, <1>4, <1>5, <1>6 DEF B

\* What is listed and what is ahead can be counted.
LEMMA Weighed ==
    ASSUME NEW c \in CallState, Holds(c), NEW ids
    PROVE  /\ Ahead(c, ids) \subseteq Token /\ IsFiniteSet(Ahead(c, ids))
           /\ Cardinality(Ahead(c, ids)) \in Nat /\ c.found \in Nat /\ Weight(c, ids) \in Nat
<1>1. c.found \in Nat /\ c.todo \subseteq Token /\ (c.pc = "get" => c.token \in Token)
  BY DEF CallState, Holds, Pc
<1>2. Ahead(c, ids) \subseteq Token
  BY <1>1 DEF Ahead
<1>3. IsFiniteSet(Ahead(c, ids)) /\ Cardinality(Ahead(c, ids)) \in Nat
  BY <1>2, RedisTokensAssumption, FS_Subset, FS_CardinalityType
<1>4. QED BY <1>1, <1>2, <1>3 DEF Weight

LEMMA Countable ==
    ASSUME TypeOK, TypeOK'
    PROVE  /\ Weights \in [Call -> Nat] /\ Weights' \in [Call -> Nat]
           /\ \A p \in Call : Weights[p] = Weight(call[p], byId) /\ Weights'[p] = Weight(call'[p], byId')
           /\ \A d \in Device : /\ Listed(d) \subseteq Token /\ IsFiniteSet(Listed(d))
                                 /\ Cardinality(Listed(d)) \in Nat
<1>1. \A p \in Call : call[p] \in CallState /\ Holds(call[p]) /\ call'[p] \in CallState /\ Holds(call'[p])
  BY DEF TypeOK
<1>2. \A p \in Call : Weight(call[p], byId) \in Nat /\ Weight(call'[p], byId') \in Nat
  BY <1>1, Weighed
<1>3. /\ Weights = [p \in Call |-> Weight(call[p], byId)]
      /\ Weights' = [p \in Call |-> Weight(call'[p], byId')]
  BY DEF Weights
<1>4. ASSUME NEW d \in Device
      PROVE  /\ Listed(d) \subseteq Token /\ IsFiniteSet(Listed(d))
             /\ Cardinality(Listed(d)) \in Nat
  <2>1. Listed(d) \subseteq Token
    BY DEF TypeOK, Listed
  <2>2. QED BY <2>1, RedisTokensAssumption, FS_Subset, FS_CardinalityType
<1>5. QED BY <1>2, <1>3, <1>4

\* A step of call p alone, which it leaves as c, and in which no token begins or ends.
LEMMA CallCounts ==
    ASSUME TypeOK, TypeOK', LimitInv, NEW p \in Call, NEW c, call'[p] = c, Others(p),
           byId' = byId, owner' = owner,
           \A d \in Device : index'[d] \subseteq index[d] /\ {t \in index'[d] : byId[t]} = Listed(d),
           \A t \in Ahead(c, byId) : owner[t] = c.device,
           c.create => \/ /\ call[p].create /\ call[p].device = c.device
                          /\ Weights[p] =< Weight(c, byId)
                       \/ Weight(c, byId) >= Cardinality(Listed(c.device))
    PROVE  LimitInv'
<1>1. Mine'
  BY DEF LimitInv, Mine, Others
<1>2. ASSUME NEW d \in Device
      PROVE  \A m \in MaxTokens .. Cardinality(Listed(d)') :
                Cardinality(Listed(d)') + Cardinality(Below(Pending(d)', Weights', m))
                    < m + Cardinality(Call)
  <2> DEFINE n == Cardinality(Listed(d))
             k == Cardinality(Listed(d)')
             P == Pending(d)
             Q == {q \in Call : call'[q].create /\ call'[q].device = d}
             v == Weights
             w == Weights'
  <2>1. Listed(d)' = Listed(d) /\ Pending(d)' = Q /\ k = n
    BY DEF Listed, Pending
  <2>2. n \in Nat /\ v \in [Call -> Nat] /\ w \in [Call -> Nat] /\ P \in SUBSET Call /\ Q \in SUBSET Call
    BY Countable DEF Pending
  <2>3. \A m \in MaxTokens .. n : n + Cardinality(Below(P, v, m)) < m + Cardinality(Call)
    BY DEF LimitInv, Counted
  <2>4. w[p] = Weight(c, byId) /\ \A q \in Call \ {p} : w[q] = v[q]
    BY DEF Weights, Others
  <2>5. ASSUME NEW q \in Q
        PROVE  (q \in P /\ v[q] =< w[q] + (n - k)) \/ w[q] >= k
    <3>1. CASE q = p
      BY <2>1, <2>2, <2>4, <3>1 DEF Pending
    <3>2. CASE q # p
      BY <2>1, <2>2, <2>4, <3>2 DEF Pending, Others
    <3>3. QED BY <3>1, <3>2
  <2> HIDE DEF n, k, P, Q, v, w
  <2>6. \A m \in MaxTokens .. k : k + Cardinality(Below(Q, w, m)) < m + Cardinality(Call)
    <3>1. k \in 0 .. n
      BY <2>1, <2>2
    <3>2. QED BY <2>2, <2>3, <2>5, <3>1, Fewer
  <2>7. QED BY <2>1, <2>6 DEF k, w
<1>3. QED BY <1>1, <1>2 DEF LimitInv, Counted

\* A step in which tokens end, and calls may return.
LEMMA EndCounts ==
    ASSUME TypeOK, TypeOK', TokenInv, LimitInv, owner' = owner, \A t \in Token : byId'[t] => byId[t],
           \A d \in Device : /\ index'[d] \subseteq index[d]
                             /\ {t \in index'[d] : byId'[t]} = {t \in Listed(d) : byId'[t]},
           \A q \in Call : call'[q] = call[q] \/ call'[q] = Idle
    PROVE  LimitInv'
<1>1. Idle.create = FALSE /\ Ahead(Idle, byId') = {}
  BY DEF Idle, Ahead
<1>2. \A q \in Call : Ahead(call[q], byId) \subseteq Token
  BY Weighed DEF TypeOK
<1>3. \A q \in Call : \A t \in Ahead(call'[q], byId') :
         call'[q] = call[q] /\ t \in Ahead(call[q], byId)
  <2> SUFFICES ASSUME NEW q \in Call, NEW t \in Ahead(call'[q], byId')
               PROVE  call'[q] = call[q] /\ t \in Ahead(call[q], byId)
    OBVIOUS
  <2>1. call'[q] = call[q]
    BY <1>1
  <2>2. t \in Token
    BY <2>1 DEF Ahead, TypeOK, CallState, Holds, Pc
  <2>3. QED BY <2>1, <2>2 DEF Ahead
<1>4. Mine'
  BY <1>3 DEF LimitInv, Mine
<1>5. ASSUME NEW d \in Device
      PROVE  \A m \in MaxTokens .. Cardinality(Listed(d)') :
                Cardinality(Listed(d)') + Cardinality(Below(Pending(d)', Weights', m))
                    < m + Cardinality(Call)
  <2> DEFINE L == Listed(d)
             K == {t \in L : byId'[t]}
             n == Cardinality(L)
             k == Cardinality(K)
             P == Pending(d)
             Q == {q \in Call : call'[q].create /\ call'[q].device = d}
             v == Weights
             w == Weights'
  <2>1. Listed(d)' = K /\ Pending(d)' = Q
    BY DEF Listed, Pending
  <2>2. n \in Nat /\ v \in [Call -> Nat] /\ w \in [Call -> Nat] /\ P \in SUBSET Call /\ Q \in SUBSET Call
    BY Countable DEF Pending
  <2>3. IsFiniteSet(L) /\ IsFiniteSet(K) /\ k \in 0 .. n
    <3>1. IsFiniteSet(L) /\ K \subseteq L
      BY Countable
    <3>2. IsFiniteSet(K) /\ k =< n /\ k \in Nat
      BY <3>1, FS_Subset, FS_CardinalityType
    <3>3. QED BY <2>2, <3>1, <3>2
  <2>4. \A m \in MaxTokens .. n : n + Cardinality(Below(P, v, m)) < m + Cardinality(Call)
    BY DEF LimitInv, Counted
  <2>5. Cardinality(L \ K) = n - k /\ IsFiniteSet(L \ K)
    <3>1. K \cap (L \ K) = {} /\ K \cup (L \ K) = L /\ IsFiniteSet(L \ K)
      BY <2>3, FS_Subset
    <3>2. Cardinality(K \cup (L \ K)) = Cardinality(K) + Cardinality(L \ K) - Cardinality(K \cap (L \ K))
      BY <2>3, <3>1, FS_Union
    <3>3. Cardinality(K \cap (L \ K)) = 0
      BY <3>1, FS_EmptySet
    <3>4. n = k + Cardinality(L \ K) - 0
      BY <3>1, <3>2, <3>3
    <3>5. k \in Nat /\ Cardinality(L \ K) \in Nat
      BY <2>3, <3>1, FS_CardinalityType
    <3> HIDE DEF n, k
    <3>6. QED BY <3>1, <3>4, <3>5
  <2>6. ASSUME NEW q \in Q
        PROVE  (q \in P /\ v[q] =< w[q] + (n - k)) \/ w[q] >= k
    <3> DEFINE A == Ahead(call[q], byId)
               B == Ahead(call'[q], byId')
    <3>1. call'[q] = call[q] /\ q \in P
      BY <1>1 DEF Pending
    <3>2. /\ call[q].found \in Nat /\ IsFiniteSet(A) /\ Cardinality(A) \in Nat
      BY Weighed DEF TypeOK
    <3>3. /\ v[q] = call[q].found + Cardinality(A)
          /\ w[q] = call[q].found + Cardinality(B)
      BY <3>1, Countable DEF Weight
    <3>4. A \subseteq B \cup (L \ K)
      <4> SUFFICES ASSUME NEW t \in A, ~byId'[t] PROVE t \in L \ K
        BY <3>1 DEF Ahead
      <4>1. t \in Token /\ byId[t] /\ owner[t] = d
        BY <1>2, <3>1 DEF Ahead, LimitInv, Mine, Pending
      <4>2. t \in index[d]
        BY <4>1 DEF TokenInv, Traces
      <4>3. QED BY <4>1, <4>2 DEF Listed
    <3>5. B \subseteq A
      BY <1>3
    <3>6. IsFiniteSet(B) /\ Cardinality(B) \in Nat
      BY <3>2, <3>5, FS_Subset, FS_CardinalityType
    <3>7. Cardinality(A) =< Cardinality(B) + (n - k)
      <4>1. /\ IsFiniteSet(B \cup (L \ K))
            /\ Cardinality(B \cup (L \ K)) =
                 Cardinality(B) + Cardinality(L \ K) - Cardinality(B \cap (L \ K))
        BY <2>5, <3>6, FS_Union
      <4>2. Cardinality(B \cap (L \ K)) \in Nat
        BY <3>6, FS_Intersection, FS_CardinalityType
      <4>3. Cardinality(A) =< Cardinality(B \cup (L \ K))
        BY <3>4, <4>1, FS_Subset
      <4>4. QED BY <2>2, <2>3, <2>5, <3>2, <3>6, <4>1, <4>2, <4>3
    <3> HIDE DEF A, B
    <3>8. v[q] =< w[q] + (n - k)
      BY <2>2, <2>3, <3>2, <3>3, <3>6, <3>7
    <3>9. QED BY <3>1, <3>8
  <2> HIDE DEF n, k, P, Q, v, w
  <2>7. \A m \in MaxTokens .. k : k + Cardinality(Below(Q, w, m)) < m + Cardinality(Call)
    BY <2>2, <2>3, <2>4, <2>6, Fewer
  <2>8. QED BY <2>1, <2>7 DEF k, w
<1>6. QED BY <1>4, <1>5 DEF LimitInv, Counted

\* A call that creates weighs what it has found.
LEMMA CreateCounts ==
    ASSUME TypeOK, TypeOK', TokenInv, LimitInv, NEW p \in Call, NEW t \in Token, CreateStore(p, t)
    PROVE  LimitInv'
<1> DEFINE e == call[p].device
<1>1. /\ call[p].pc = "list" /\ call[p].todo = {} /\ call[p].create /\ BelowLimit(call[p].found)
      /\ owner[t] = None /\ e \in Device /\ e # None
  BY RedisTokensAssumption DEF CreateStore, TypeOK, Holds
<1>2. call'[p] = Idle /\ Others(p)
  BY DEF CreateStore, Return, Others, TypeOK
<1>3. byId'[t] /\ \A u \in Token \ {t} : byId'[u] = byId[u]
  BY DEF CreateStore, TypeOK
<1>4. owner'[t] = e /\ \A u \in Token \ {t} : owner'[u] = owner[u]
  BY DEF CreateStore, TypeOK
<1>5. index'[e] = index[e] \cup {t} /\ \A d \in Device \ {e} : index'[d] = index[d]
  BY <1>1 DEF CreateStore, TypeOK
<1>6. Idle.create = FALSE /\ Ahead(Idle, byId') = {}
  BY DEF Idle, Ahead
<1>7. ~byId[t] /\ \A d \in Device : t \notin index[d]
  BY <1>1 DEF TokenInv, Traces, Created
<1>8. \A q \in Call : /\ call[q].todo \subseteq Token /\ t \notin call[q].todo
                      /\ call[q].pc = "get" => call[q].token \in Token /\ call[q].token # t
  BY <1>1 DEF TypeOK, CallState, Holds, TokenInv, Sound, Created, Pc
<1>9. \A q \in Call \ {p} : /\ call'[q] = call[q] /\ Ahead(call'[q], byId') = Ahead(call[q], byId)
                            /\ t \notin Ahead(call[q], byId) /\ Ahead(call[q], byId) \subseteq Token
  <2> SUFFICES ASSUME NEW q \in Call \ {p}
               PROVE  /\ call'[q] = call[q] /\ Ahead(call'[q], byId') = Ahead(call[q], byId)
                      /\ t \notin Ahead(call[q], byId) /\ Ahead(call[q], byId) \subseteq Token
    OBVIOUS
  <2>1. call'[q] = call[q]
    BY <1>2 DEF Others
  <2> DEFINE S == call[q].todo \cup (IF call[q].pc = "get" THEN {call[q].token} ELSE {})
  <2>2. S \subseteq Token /\ t \notin S
    BY <1>8
  <2>3. \A u \in S : byId'[u] = byId[u]
    BY <1>3, <2>2
  <2>4. Ahead(call[q], byId') = {u \in S : byId'[u]} /\ Ahead(call[q], byId) = {u \in S : byId[u]}
    BY DEF Ahead
  <2> HIDE DEF S
  <2>5. QED BY <2>1, <2>2, <2>3, <2>4
<1>10. Mine'
  <2>1. \A d \in Device : \A u \in index'[d] : owner'[u] = d
    <3> SUFFICES ASSUME NEW d \in Device, NEW u \in index'[d] PROVE owner'[u] = d
      OBVIOUS
    <3>1. (u = t /\ d = e) \/ u \in index[d]
      BY <1>5
    <3>2. u \in index[d] => u \in Token \ {t} /\ owner[u] = d
      BY <1>7 DEF TypeOK, LimitInv, Mine
    <3>3. QED BY <1>4, <3>1, <3>2
  <2>2. \A q \in Call : \A u \in Ahead(call'[q], byId') : owner'[u] = call'[q].device
    BY <1>6, <1>9, <1>2, <1>4 DEF LimitInv, Mine
  <2>3. QED BY <2>1, <2>2 DEF Mine
<1>11. ASSUME NEW d \in Device
      PROVE  \A m \in MaxTokens .. Cardinality(Listed(d)') :
                Cardinality(Listed(d)') + Cardinality(Below(Pending(d)', Weights', m))
                    < m + Cardinality(Call)
  <2> DEFINE n == Cardinality(Listed(d))
             k == Cardinality(Listed(d)')
             P == Pending(d)
             Q == {q \in Call : call'[q].create /\ call'[q].device = d}
             v == Weights
             w == Weights'
  <2>1. /\ n \in Nat /\ v \in [Call -> Nat] /\ w \in [Call -> Nat] /\ P \in SUBSET Call /\ Q \in SUBSET Call
        /\ Pending(d)' = Q
    BY Countable DEF Pending
  <2>2. \A m \in MaxTokens .. n : n + Cardinality(Below(P, v, m)) < m + Cardinality(Call)
    BY DEF LimitInv, Counted
  <2>3. p \notin Q /\ \A q \in Q : q \in P /\ v[q] = w[q]
    <3>1. ASSUME NEW q \in Call \ {p} PROVE v[q] = w[q]
      BY <1>9, Countable DEF Weight
    <3>2. QED BY <1>6, <1>9, <1>2, <3>1 DEF Pending
  <2>4. CASE d = e
    <3>1. p \in P /\ v[p] < MaxTokens
      <4>1. Ahead(call[p], byId) = {} /\ Cardinality({}) = 0
        BY <1>1, FS_EmptySet DEF Ahead
      <4>2. v[p] = call[p].found + 0 /\ call[p].found \in Nat
        BY <4>1, Countable DEF Weight, TypeOK, CallState
      <4>3. call[p].found < MaxTokens
        BY <1>1 DEF BelowLimit
      <4>4. p \in P
        BY <1>1, <2>4 DEF Pending
      <4> HIDE DEF v
      <4>5. QED BY <4>2, <4>3, <4>4
    <3>2. k = n + 1
      <4>1. t \notin Listed(d) /\ IsFiniteSet(Listed(d)) /\ index[d] \subseteq Token
        BY <1>7, Countable DEF Listed, TypeOK
      <4> {u \in index'[d] : byId'[u]} = {u \in index[d] : byId[u]} \cup {t}
        BY <1>7, <1>3, <1>5, <2>4, <4>1
      <4> Listed(d)' = Listed(d) \cup {t}
        BY DEF Listed
      <4>2. Cardinality(Listed(d) \cup {t}) = n + 1
        BY <4>1, FS_AddElement
      <4>3. QED BY <4>1, <4>2
    <3>3. \A q \in Q : q \in P /\ v[q] =< w[q]
      BY <2>1, <2>3
    <3> HIDE DEF n, k, P, Q, v, w
    <3>4. \A m \in MaxTokens .. n + 1 : n + 1 + Cardinality(Below(Q, w, m)) < m + Cardinality(Call)
      BY <2>1, <2>2, <2>3, <3>1, <3>3, OneMore
    <3>5. QED BY <2>1, <3>2, <3>4 DEF k, w
  <2>5. CASE d # e
    <3>1. Listed(d)' = Listed(d)
      <4>1. index'[d] = index[d] /\ index[d] \subseteq Token \ {t}
        BY <1>7, <1>5, <2>5 DEF TypeOK
      <4>2. QED BY <1>3, <4>1 DEF Listed
    <3>2. k = n /\ k \in 0 .. n
      BY <2>1, <3>1
    <3>3. \A q \in Q : (q \in P /\ v[q] =< w[q] + (n - k)) \/ w[q] >= k
      BY <2>1, <2>3, <3>2
    <3> HIDE DEF n, k, P, Q, v, w
    <3>4. \A m \in MaxTokens .. k : k + Cardinality(Below(Q, w, m)) < m + Cardinality(Call)
      BY <2>1, <2>2, <3>2, <3>3, Fewer
    <3>5. QED BY <2>1, <3>4 DEF k, w
  <2>6. QED BY <2>4, <2>5
<1>12. QED BY <1>10, <1>11 DEF LimitInv, Counted

LEMMA SameIsNoLess ==
    ASSUME NEW n \in Nat, NEW k, n = k
    PROVE  n =< k
OBVIOUS

\* Steps that keep what a call has ahead of it and what it has found, or forget it.
LEMMA QuietCounts ==
    ASSUME TypeOK, TypeOK', LimitInv, NEW p \in Call, UNCHANGED <<byId, owner>>,
           \A d \in Device : index'[d] \subseteq index[d] /\ {t \in index'[d] : byId[t]} = Listed(d),
           \/ Return(p)
           \/ \E t \in Token : call' = [call EXCEPT ![p] = [Idle EXCEPT !.pc = "touchId", !.token = t]]
           \/ \E d \in Device, t \in Token :
                 call' = [call EXCEPT ![p] = [Idle EXCEPT !.pc = "revokeGet", !.device = d, !.token = t]]
           \/ \E pc \in Pc \ {"get"} : Become(p, pc) /\ (call[p].pc = "get" => ~byId[call[p].token])
    PROVE  LimitInv'
<1>1. call[p] \in CallState /\ call'[p] \in CallState
  BY DEF TypeOK
<1>2. ASSUME call' = [call EXCEPT ![p] = call'[p]], ~call'[p].create, Ahead(call'[p], byId) = {}
      PROVE  LimitInv'
  <2>1. Others(p)
    BY <1>2 DEF Others, TypeOK
  <2>2. QED BY <1>2, <2>1, CallCounts
<1>3. CASE Return(p)
  <2>1. call'[p] = Idle
    BY <1>3 DEF Return, TypeOK
  <2>2. ~Idle.create /\ Ahead(Idle, byId) = {}
    BY DEF Idle, Ahead
  <2>3. QED BY <1>2, <1>3, <2>1, <2>2 DEF Return
<1>4. ASSUME NEW t \in Token,
             call' = [call EXCEPT ![p] = [Idle EXCEPT !.pc = "touchId", !.token = t]]
      PROVE  LimitInv'
  <2> DEFINE u == [Idle EXCEPT !.pc = "touchId", !.token = t]
  <2>1. ~u.create /\ u.todo = {} /\ u.pc # "get"
    BY DEF Idle
  <2>2. call' = [call EXCEPT ![p] = u]
    BY <1>4
  <2> HIDE DEF u
  <2>3. call'[p] = u
    BY <2>2 DEF TypeOK
  <2>4. QED BY <1>2, <2>1, <2>2, <2>3 DEF Ahead
<1>5. ASSUME NEW d \in Device, NEW t \in Token,
             call' = [call EXCEPT ![p] = [Idle EXCEPT !.pc = "revokeGet", !.device = d, !.token = t]]
      PROVE  LimitInv'
  <2> DEFINE u == [Idle EXCEPT !.pc = "revokeGet", !.device = d, !.token = t]
  <2>1. ~u.create /\ u.todo = {} /\ u.pc # "get"
    BY DEF Idle
  <2>2. call' = [call EXCEPT ![p] = u]
    BY <1>5
  <2> HIDE DEF u
  <2>3. call'[p] = u
    BY <2>2 DEF TypeOK
  <2>4. QED BY <1>2, <2>1, <2>2, <2>3 DEF Ahead
<1>6. ASSUME NEW pc \in Pc \ {"get"}, Become(p, pc), call[p].pc = "get" => ~byId[call[p].token]
      PROVE  LimitInv'
  <2> DEFINE c == call[p]
             u == [c EXCEPT !.pc = pc]
  <2>1. u.pc = pc /\ u.create = c.create /\ u.device = c.device /\ u.todo = c.todo /\ u.found = c.found
    BY <1>1 DEF CallState
  <2>2. call' = [call EXCEPT ![p] = u]
    BY <1>6 DEF Become
  <2> HIDE DEF u
  <2>3. call'[p] = u /\ Others(p)
    BY <2>2 DEF TypeOK, Others
  <2>4. Ahead(u, byId) = Ahead(c, byId)
    BY <1>6, <2>1 DEF Ahead
  <2>5. Weights[p] = Weight(u, byId) /\ Weights[p] \in Nat
    BY <2>1, <2>4, Countable DEF Weight
  <2>6. Weights[p] =< Weight(u, byId)
    BY <2>5, SameIsNoLess
  <2>7. \A t \in Ahead(u, byId) : owner[t] = u.device
    BY <2>1, <2>4 DEF LimitInv, Mine
  <2>8. QED BY <2>1, <2>3, <2>6, <2>7, CallCounts
<1>7. QED BY <1>3, <1>4, <1>5, <1>6

LEMMA LimitStep == TypeOK /\ TypeOK' /\ TokenInv /\ LimitInv /\ [Next]_vars => LimitInv'
<1> SUFFICES ASSUME TypeOK, TypeOK', TokenInv, LimitInv, [Next]_vars PROVE LimitInv'
  OBVIOUS
<1>1. CASE UNCHANGED vars
  BY <1>1 DEF vars, LimitInv, Mine, Counted, Listed, Pending, Weights
<1>2. ASSUME NEW p \in Call, NEW d \in Device, NEW create \in BOOLEAN, BeginList(p, d, create)
      PROVE  LimitInv'
  <2> DEFINE u == [Idle EXCEPT !.pc = "list", !.device = d, !.create = create, !.todo = index[d]]
  <2>1. u.pc = "list" /\ u.device = d /\ u.todo = index[d] /\ u.found = 0
    BY DEF Idle
  <2>2. call' = [call EXCEPT ![p] = u] /\ UNCHANGED keys
    BY <1>2 DEF BeginList
  <2> HIDE DEF u
  <2>3. call'[p] = u /\ Others(p)
    BY <2>2 DEF TypeOK, Others
  <2>4. Ahead(u, byId) = Listed(d)
    BY <2>1 DEF Ahead, Listed
  <2>5. Weight(u, byId) = Cardinality(Listed(d)) /\ Cardinality(Listed(d)) \in Nat
    BY <2>1, <2>4, Countable DEF Weight
  <2>6. Weight(u, byId) >= Cardinality(Listed(u.device))
    BY <2>1, <2>5, SameIsNoLess
  <2>7. \A t \in Ahead(u, byId) : owner[t] = u.device
    BY <2>1, <2>4 DEF Listed, LimitInv, Mine
  <2>8. QED BY <2>2, <2>3, <2>6, <2>7, CallCounts DEF keys, Listed
<1>3. ASSUME NEW p \in Call, NEW t \in Token, ListId(p, t)
      PROVE  LimitInv'
  <2> DEFINE c == call[p]
             u == [c EXCEPT !.pc = IF byId[t] THEN "get" ELSE "srem", !.token = t, !.todo = c.todo \ {t}]
  <2>1. c \in CallState /\ c.pc = "list" /\ t \in c.todo
    BY <1>3 DEF TypeOK, ListId
  <2>2. /\ u.pc = IF byId[t] THEN "get" ELSE "srem"
        /\ u.token = t /\ u.todo = c.todo \ {t}
        /\ u.device = c.device /\ u.create = c.create /\ u.found = c.found
    BY <2>1 DEF CallState
  <2>3. call' = [call EXCEPT ![p] = u] /\ UNCHANGED keys
    BY <1>3 DEF ListId
  <2> HIDE DEF u
  <2>4. call'[p] = u /\ Others(p)
    BY <2>3 DEF TypeOK, Others
  <2>5. Ahead(u, byId) = Ahead(c, byId)
    BY <2>1, <2>2 DEF Ahead
  <2>6. Weights[p] = Weight(u, byId) /\ Weights[p] \in Nat
    BY <2>2, <2>5, Countable DEF Weight
  <2>7. Weights[p] =< Weight(u, byId)
    BY <2>6, SameIsNoLess
  <2>8. \A s \in Ahead(u, byId) : owner[s] = u.device
    BY <2>2, <2>5 DEF LimitInv, Mine
  <2>9. QED BY <2>2, <2>3, <2>4, <2>7, <2>8, CallCounts DEF keys, Listed
<1>4. ASSUME NEW p \in Call, ListRecord(p)
      PROVE  LimitInv'
  <2> DEFINE c == call[p]
             u == [c EXCEPT !.pc = "list", !.found = c.found + 1]
             w == [c EXCEPT !.pc = "srem"]
  <2>1. c \in CallState /\ c.pc = "get" /\ c.token \in Token /\ UNCHANGED keys
    BY <1>4 DEF TypeOK, ListRecord, Holds, Pc
  <2>2. CASE ~Exists(c.token)
    <3>1. ~byId[c.token]
      BY <2>1, <2>2 DEF TokenInv, Traces, Exists
    <3>2. Become(p, "srem") /\ "srem" \in Pc \ {"get"}
      BY <1>4, <2>2 DEF ListRecord, Become, Pc
    <3>3. QED BY <2>1, <3>1, <3>2, QuietCounts DEF keys, Listed
  <2>3. CASE Exists(c.token)
    <3>1. u.pc = "list" /\ u.todo = c.todo /\ u.device = c.device /\ u.create = c.create /\ u.found = c.found + 1
      BY <2>1 DEF CallState
    <3>2. call' = [call EXCEPT ![p] = u]
      BY <1>4, <2>3 DEF ListRecord
    <3> HIDE DEF u
    <3>3. call'[p] = u /\ Others(p)
      BY <3>2 DEF TypeOK, Others
    <3>4. Ahead(u, byId) \subseteq Ahead(c, byId) /\ Ahead(c, byId) \subseteq Ahead(u, byId) \cup {c.token}
      BY <2>1, <3>1 DEF Ahead
    <3>5. /\ IsFiniteSet(Ahead(c, byId)) /\ Cardinality(Ahead(c, byId)) \in Nat /\ c.found \in Nat
          /\ IsFiniteSet(Ahead(u, byId)) /\ Cardinality(Ahead(u, byId)) \in Nat
      BY <3>3, Weighed DEF TypeOK
    <3>6. Cardinality(Ahead(c, byId)) =< Cardinality(Ahead(u, byId)) + 1
      <4>1. /\ IsFiniteSet(Ahead(u, byId) \cup {c.token})
            /\ \/ Cardinality(Ahead(u, byId) \cup {c.token}) = Cardinality(Ahead(u, byId))
               \/ Cardinality(Ahead(u, byId) \cup {c.token}) = Cardinality(Ahead(u, byId)) + 1
        BY <3>5, FS_AddElement
      <4>2. Cardinality(Ahead(c, byId)) =< Cardinality(Ahead(u, byId) \cup {c.token})
        BY <3>4, <4>1, FS_Subset
      <4>3. QED BY <3>5, <4>1, <4>2
    <3>7. Weights[p] =< Weight(u, byId)
      <4> DEFINE a == Cardinality(Ahead(c, byId))
                 b == Cardinality(Ahead(u, byId))
      <4>1. Weights[p] = c.found + a /\ Weight(u, byId) = (c.found + 1) + b
        BY <3>1, Countable DEF Weight
      <4> HIDE DEF a, b
      <4>2. c.found + a =< (c.found + 1) + b
        BY <3>5, <3>6 DEF a, b
      <4>3. QED BY <4>1, <4>2
    <3>8. \A s \in Ahead(u, byId) : owner[s] = u.device
      BY <3>1, <3>4 DEF LimitInv, Mine
    <3>9. QED BY <2>1, <3>1, <3>3, <3>7, <3>8, CallCounts DEF keys, Listed
  <2>4. QED BY <2>2, <2>3
<1>5. ASSUME NEW p \in Call, ListRemove(p)
      PROVE  LimitInv'
  <2>1. /\ call[p].pc = "srem" /\ Become(p, "list") /\ "list" \in Pc \ {"get"} /\ UNCHANGED <<byId, owner>>
        /\ ~byId[call[p].token]
    BY <1>5 DEF ListRemove, Pc, TokenInv, Sound
  <2>2. \A d \in Device : index'[d] \subseteq index[d] /\ {t \in index'[d] : byId[t]} = Listed(d)
    BY <1>5, <2>1 DEF ListRemove, Listed, TypeOK
  <2>3. QED BY <2>1, <2>2, QuietCounts
<1>6. ASSUME NEW p \in Call, NEW t \in Token, CreateStore(p, t)
      PROVE  LimitInv'
  BY <1>6, CreateCounts
<1>7. ASSUME NEW p \in Call,
             \/ ListDone(p) \/ TouchId(p) \/ TouchGet(p) \/ TouchSet(p) \/ RevokeGet(p) \/ Fail(p)
             \/ \E t \in Token : BeginTouch(p, t) \/ \E d \in Device : BeginRevoke(p, d, t)
      PROVE  LimitInv'
  <2>1. UNCHANGED <<byId, owner, index>>
    BY <1>7 DEF ListDone, TouchId, TouchGet, TouchSet, RevokeGet, Fail, BeginTouch, BeginRevoke, keys
  <2>2. \/ Return(p)
        \/ \E t \in Token : call' = [call EXCEPT ![p] = [Idle EXCEPT !.pc = "touchId", !.token = t]]
        \/ \E d \in Device, t \in Token :
              call' = [call EXCEPT ![p] = [Idle EXCEPT !.pc = "revokeGet", !.device = d, !.token = t]]
        \/ /\ call[p].pc # "get"
           /\ Become(p, "touchGet") \/ Become(p, "touchSet") \/ Become(p, "revokeDel")
    BY <1>7 DEF ListDone, TouchId, TouchGet, TouchSet, RevokeGet, Fail, BeginTouch, BeginRevoke
  <2>3. {"touchGet", "touchSet", "revokeDel"} \subseteq Pc \ {"get"}
    BY DEF Pc
  <2>4. \A d \in Device : index'[d] \subseteq index[d] /\ {t \in index'[d] : byId[t]} = Listed(d)
    BY <2>1 DEF Listed
  <2>5. QED BY <2>1, <2>2, <2>3, <2>4, QuietCounts
<1>8. ASSUME NEW p \in Call, RevokeDel(p)
      PROVE  LimitInv'
  <2> DEFINE t == call[p].token
  <2>1. /\ owner' = owner /\ byId' = [byId EXCEPT ![t] = FALSE]
        /\ index' = [index EXCEPT ![call[p].device] = @ \ {t}] /\ call' = [call EXCEPT ![p] = Idle]
    BY <1>8 DEF RevokeDel, IdDeleted, Return
  <2>2. t \in Token
    BY <1>8 DEF RevokeDel, TypeOK, Holds, Pc
  <2>3. ~byId'[t] /\ \A s \in Token \ {t} : byId'[s] = byId[s]
    BY <2>1, <2>2 DEF TypeOK
  <2>4. \A d \in Device : /\ index'[d] \subseteq index[d] /\ index[d] \ {t} \subseteq index'[d]
                          /\ index[d] \subseteq Token
    BY <2>1 DEF TypeOK
  <2>5. \A s \in Token : byId'[s] => byId[s]
    BY <2>3
  <2>6. ASSUME NEW d \in Device
        PROVE  {s \in index'[d] : byId'[s]} = {s \in Listed(d) : byId'[s]}
    BY <2>3, <2>4 DEF Listed
  <2>7. \A q \in Call : call'[q] = call[q] \/ call'[q] = Idle
    BY <2>1 DEF TypeOK
  <2>8. QED BY <2>1, <2>4, <2>5, <2>6, <2>7, EndCounts
<1>9. CASE Tick
  <2>1. UNCHANGED <<index, owner, call>> /\ byId' = [t \in Token |-> byId[t] /\ left[t] > 1]
    BY <1>9 DEF Tick
  <2>2. \A t \in Token : byId'[t] => byId[t]
    BY <2>1
  <2>3. ASSUME NEW d \in Device
        PROVE  {s \in index'[d] : byId'[s]} = {s \in Listed(d) : byId'[s]}
    <3>1. index[d] \subseteq Token
      BY DEF TypeOK
    <3>2. QED BY <2>1, <2>2, <3>1 DEF Listed
  <2>4. QED BY <2>1, <2>2, <2>3, EndCounts
<1>10. QED BY <1>1, <1>2, <1>3, <1>4, <1>5, <1>6, <1>7, <1>8, <1>9 DEF Next

\* A device never has as many tokens as its limit and the calls together, and
\* not more for all the rounds that the calls make (redis.js:105-115).
THEOREM LimitIsNearlyKept == Spec => []LimitWithinCalls
<1>1. Init => LimitInv
  <2> SUFFICES ASSUME Init PROVE LimitInv
    OBVIOUS
  <2>1. /\ \A p \in Call : Ahead(call[p], byId) = {} /\ ~call[p].create
        /\ \A d \in Device : index[d] = {} /\ Listed(d) = {} /\ Pending(d) = {}
    BY DEF Init, Idle, Ahead, Listed, Pending
  <2>2. Mine
    BY <2>1 DEF Mine
  <2>3. Cardinality(Call) \in Nat \ {0}
    BY RedisTokensAssumption, FS_EmptySet, FS_CardinalityType
  <2>4. ASSUME NEW d \in Device, NEW m \in MaxTokens .. Cardinality(Listed(d))
        PROVE  Cardinality(Listed(d)) + Cardinality(Below(Pending(d), Weights, m)) < m + Cardinality(Call)
    <3>1. Listed(d) = {} /\ Below(Pending(d), Weights, m) = {} /\ Cardinality({}) = 0
      BY <2>1, FS_EmptySet DEF Below
    <3>2. m = 0
      BY <3>1, RedisTokensAssumption
    <3>3. QED BY <2>3, <3>1, <3>2
  <2>5. QED BY <2>2, <2>4 DEF LimitInv, Counted
<1>2. Init => TypeOK
  BY RedisTokensAssumption, IdleState DEF Init, TypeOK
<1>3. TypeOK /\ LimitInv => LimitWithinCalls
  <2> SUFFICES ASSUME TypeOK, LimitInv, NEW d \in Device
               PROVE  Cardinality(Listed(d)) < MaxTokens + Cardinality(Call)
    BY DEF LimitWithinCalls
  <2> DEFINE n == Cardinality(Listed(d))
             b == Cardinality(Below(Pending(d), Weights, MaxTokens))
  <2>1. n \in Nat /\ Cardinality(Call) \in Nat /\ b \in Nat
    <3>1. Listed(d) \subseteq Token /\ Below(Pending(d), Weights, MaxTokens) \subseteq Call
      BY DEF TypeOK, Listed, Below, Pending
    <3>2. QED BY <3>1, RedisTokensAssumption, FS_Subset, FS_CardinalityType
  <2>2. MaxTokens \in MaxTokens .. n => n + b < MaxTokens + Cardinality(Call)
    BY DEF LimitInv, Counted
  <2> HIDE DEF n, b
  <2>3. n < MaxTokens + Cardinality(Call)
    BY <2>1, <2>2, RedisTokensAssumption
  <2>4. QED BY <2>3 DEF n
<1>4. QED BY <1>1, <1>2, <1>3, LimitStep, TypeStep, TypeCorrect, TracesStayTogether, PTL DEF Spec
=============================================================================
