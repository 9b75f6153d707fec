---------------------------- MODULE RedisTokens ----------------------------
(***************************************************************************)
(* The device tokens in Redis (auth-web/src/stores/redis.js:83-143).       *)
(*                                                                         *)
(* A token has three traces: its record under the hash of the token        *)
(* (record), the hash under its public id (byId), and its id in the set of *)
(* its device (index).  The first two carry a TTL, the third does not.     *)
(* Every method is a sequence of separate commands, except where it uses   *)
(* MULTI, and the commands of concurrent calls interleave.  A call whose   *)
(* command fails stops there.                                              *)
(*                                                                         *)
(* A token stands for its hash and its id alike.  A tick is a minute.      *)
(***************************************************************************)
EXTENDS Integers, FiniteSets

CONSTANTS
    Call,           \* concurrent calls into the store
    Device,
    Token,          \* tokens that may ever be drawn, all different
    MaxTokens,      \* maxTokensPerDevice
    TokenTtl        \* minutes a token is valid

None == "none"

ASSUME RedisTokensAssumption ==
    /\ IsFiniteSet(Call) /\ Call # {}
    /\ None \notin Device /\ IsFiniteSet(Token)
    /\ MaxTokens \in Nat
    /\ TokenTtl \in Nat \ {0}

VARIABLES
    record,     \* record[t]: the token key is absent, expires, or never does
    byId,       \* byId[t]: the id key is there
    index,      \* index[d]: the ids in the set of device d
    owner,      \* owner[t]: the deviceId in the record of t
    left,       \* left[t]: minutes until the record's expiresAt
    recent,     \* recent[t]: the record's lastUsedAt is within a minute
    call,       \* call[p]: what the method call p holds
    revoked     \* history: tokens whose revocation Redis has executed

keys == <<record, byId, index, owner, left, recent>>
vars == <<record, byId, index, owner, left, recent, call, revoked>>

Idle == [pc |-> "idle", device |-> None, token |-> None, create |-> FALSE, todo |-> {}, found |-> 0]
Pc == {"idle", "list", "get", "srem", "touchId", "touchGet", "touchSet", "revokeGet", "revokeDel"}

Init ==
    /\ record = [t \in Token |-> "absent"]
    /\ byId = [t \in Token |-> FALSE]
    /\ index = [d \in Device |-> {}]
    /\ owner = [t \in Token |-> None]
    /\ left = [t \in Token |-> 0]
    /\ recent = [t \in Token |-> FALSE]
    /\ call = [p \in Call |-> Idle]
    /\ revoked = {}

Exists(t) == record[t] # "absent"
\* lookup() accepts t.
Works(t) == Exists(t) /\ left[t] > 0

Become(p, pc) == call' = [call EXCEPT ![p] = [@ EXCEPT !.pc = pc]]
Return(p) == call' = [call EXCEPT ![p] = Idle]

-----------------------------------------------------------------------------
(* recordsFor() and create().                                              *)

\* SMEMBERS, for list() or for the count in create().
BeginList(p, d, create) ==
    /\ call[p].pc = "idle"
    /\ call' = [call EXCEPT ![p] = [Idle EXCEPT !.pc = "list", !.device = d, !.create = create,
                                                !.todo = index[d]]]
    /\ UNCHANGED <<keys, revoked>>

\* GET of the id key of the next id.
ListId(p, t) ==
    /\ call[p].pc = "list" /\ t \in call[p].todo
    /\ call' = [call EXCEPT ![p] = [@ EXCEPT !.pc = IF byId[t] THEN "get" ELSE "srem", !.token = t,
                                             !.todo = call[p].todo \ {t}]]
    /\ UNCHANGED <<keys, revoked>>

\* GET of its record.
ListRecord(p) ==
    /\ call[p].pc = "get"
    /\ call' = [call EXCEPT ![p] = IF Exists(call[p].token)
                                   THEN [@ EXCEPT !.pc = "list", !.found = call[p].found + 1]
                                   ELSE [@ EXCEPT !.pc = "srem"]]
    /\ UNCHANGED <<keys, revoked>>

\* SREM of an id whose keys have expired.
ListRemove(p) ==
    /\ call[p].pc = "srem"
    /\ index' = [index EXCEPT ![call[p].device] = @ \ {call[p].token}]
    /\ Become(p, "list")
    /\ UNCHANGED <<record, byId, owner, left, recent, revoked>>

BelowOrAtLimit(n) == n =< MaxTokens         \* mutation: one too many

\* length >= maxTokensPerDevice refuses.
BelowLimit(n) == n < MaxTokens

ListDone(p) ==
    /\ call[p].pc = "list" /\ call[p].todo = {}
    /\ ~call[p].create \/ ~BelowLimit(call[p].found)
    /\ Return(p)
    /\ UNCHANGED <<keys, revoked>>

\* MULTI: the record, the id key and the entry in the device's set.
CreateStore(p, t) ==
    /\ call[p].pc = "list" /\ call[p].todo = {}
    /\ call[p].create /\ BelowLimit(call[p].found)
    /\ owner[t] = None
    /\ record' = [record EXCEPT ![t] = "expires"]
    /\ byId' = [byId EXCEPT ![t] = TRUE]
    /\ index' = [index EXCEPT ![call[p].device] = @ \cup {t}]
    /\ owner' = [owner EXCEPT ![t] = call[p].device]
    /\ left' = [left EXCEPT ![t] = TokenTtl]
    /\ Return(p)
    /\ UNCHANGED <<recent, revoked>>

-----------------------------------------------------------------------------
(* lookup() by /verify, and the touch() that follows it.                   *)

BeginTouch(p, t) ==
    /\ call[p].pc = "idle"
    /\ Works(t) /\ ~recent[t]
    /\ call' = [call EXCEPT ![p] = [Idle EXCEPT !.pc = "touchId", !.token = t]]
    /\ UNCHANGED <<keys, revoked>>

TouchId(p) ==
    /\ call[p].pc = "touchId"
    /\ IF byId[call[p].token] THEN Become(p, "touchGet") ELSE Return(p)
    /\ UNCHANGED <<keys, revoked>>

TouchGet(p) ==
    /\ call[p].pc = "touchGet"
    /\ IF Exists(call[p].token) THEN Become(p, "touchSet") ELSE Return(p)
    /\ UNCHANGED <<keys, revoked>>

\* SET ... KEEPTTL: a key that is gone by now is made again, without a TTL.
TouchSet(p) ==
    LET t == call[p].token
    IN  /\ call[p].pc = "touchSet"
        /\ record' = [record EXCEPT ![t] = IF Exists(t) THEN @ ELSE "forever"]
        /\ recent' = [recent EXCEPT ![t] = TRUE]
        /\ Return(p)
        /\ UNCHANGED <<byId, index, owner, left, revoked>>

-----------------------------------------------------------------------------
(* revoke().                                                               *)

BeginRevoke(p, d, t) ==
    /\ call[p].pc = "idle"
    /\ byId[t]
    /\ call' = [call EXCEPT ![p] = [Idle EXCEPT !.pc = "revokeGet", !.device = d, !.token = t]]
    /\ UNCHANGED <<keys, revoked>>

AnyDevice(t, d) == Exists(t)                \* mutation: whoever asks
MayRevoke(t, d) == Exists(t) /\ owner[t] = d

RevokeGet(p) ==
    /\ call[p].pc = "revokeGet"
    /\ IF MayRevoke(call[p].token, call[p].device) THEN Become(p, "revokeDel") ELSE Return(p)
    /\ UNCHANGED <<keys, revoked>>

IdKept(t) == byId                           \* mutation: the id key is not deleted
IdDeleted(t) == [byId EXCEPT ![t] = FALSE]

\* MULTI: all three traces go at once.
RevokeDel(p) ==
    LET t == call[p].token
    IN  /\ call[p].pc = "revokeDel"
        /\ record' = [record EXCEPT ![t] = "absent"]
        /\ byId' = IdDeleted(t)
        /\ index' = [index EXCEPT ![call[p].device] = @ \ {t}]
        /\ revoked' = revoked \cup {t}
        /\ Return(p)
        /\ UNCHANGED <<owner, left, recent>>

-----------------------------------------------------------------------------

\* A command fails, or its caller stops waiting for it, and it is never run.
\* (A command that runs although its caller gave up is the step that runs it.)
Fail(p) ==
    /\ call[p].pc # "idle"
    /\ Return(p)
    /\ UNCHANGED <<keys, revoked>>

CountDownPastZero(n) == n - 1               \* mutation: a lifetime below zero
CountDown(n) == IF n > 0 THEN n - 1 ELSE 0

\* A minute passes; Redis drops the keys whose TTL is over.
Tick ==
    /\ left' = [t \in Token |-> CountDown(left[t])]
    /\ record' = [t \in Token |-> IF record[t] = "expires" /\ left[t] =< 1 THEN "absent"
                                  ELSE record[t]]
    /\ byId' = [t \in Token |-> byId[t] /\ left[t] > 1]
    /\ recent' = [t \in Token |-> FALSE]
    /\ UNCHANGED <<index, owner, call, revoked>>

Next ==
    \/ \E p \in Call, d \in Device, create \in BOOLEAN : BeginList(p, d, create)
    \/ \E p \in Call, t \in Token :
          ListId(p, t) \/ CreateStore(p, t) \/ BeginTouch(p, t)
    \/ \E p \in Call, d \in Device, t \in Token : BeginRevoke(p, d, t)
    \/ \E p \in Call :
          \/ ListRecord(p) \/ ListRemove(p) \/ ListDone(p)
          \/ TouchId(p) \/ TouchGet(p) \/ TouchSet(p)
          \/ RevokeGet(p) \/ RevokeDel(p) \/ Fail(p)
    \/ Tick

Spec == Init /\ [][Next]_vars

-----------------------------------------------------------------------------
(* Properties.                                                             *)

CallState ==
    [pc : Pc, device : Device \cup {None}, token : Token \cup {None},
     create : BOOLEAN, todo : SUBSET Token, found : Nat]

\* A call holds the device and the token that its next command is about.
Holds(c) ==
    /\ c.pc \in {"list", "get", "srem", "revokeGet", "revokeDel"} => c.device \in Device
    /\ c.pc \in Pc \ {"idle", "list"} => c.token \in Token

\* Type invariant.
TypeOK ==
    /\ record \in [Token -> {"absent", "expires", "forever"}]
    /\ byId \in [Token -> BOOLEAN]
    /\ index \in [Device -> SUBSET Token]
    /\ owner \in [Token -> Device \cup {None}]
    /\ left \in [Token -> 0 .. TokenTtl]
    /\ recent \in [Token -> BOOLEAN]
    /\ call \in [Call -> CallState]
    /\ \A p \in Call : Holds(call[p])
    /\ revoked \subseteq Token

\* A token that can be listed and revoked works, and one that works without
\* having been revoked can be listed and revoked by its device, although list()
\* prunes the index while others create and revoke (redis.js:87-101).
IndexAgrees ==
    \A t \in Token :
        /\ byId[t] => Works(t) /\ t \in index[owner[t]]
        /\ Works(t) /\ t \notin revoked => byId[t]

Created(t) == owner[t] # None

\* The traces of a token agree: the record and the id key come and go
\* together, except for what touch() makes again.
Traces ==
    \A t \in Token :
        /\ record[t] = "expires" <=> byId[t]
        /\ byId[t] => Created(t) /\ left[t] > 0 /\ t \in index[owner[t]]
        /\ ~Created(t) => record[t] = "absent"
        /\ Created(t) /\ left[t] > 0 /\ ~byId[t] => t \in revoked

\* A call works on tokens that have been created, prunes only ids that are
\* gone for good, and revokes only for the owner.
Sound(c) ==
    /\ \A t \in c.todo : Created(t)
    /\ c.pc \in Pc \ {"idle", "list"} => Created(c.token)
    /\ c.pc = "srem" => ~byId[c.token]
    /\ c.pc = "revokeDel" => c.device = owner[c.token]

\* The inductive invariant behind IndexAgrees: no interleaving of pruning,
\* creating, touching and revoking leaves half a token.
TokenInv ==
    /\ \A d \in Device : \A t \in index[d] : Created(t)
    /\ Traces
    /\ \A p \in Call : Sound(call[p])

\* Only the device that created a token can make it stop working early.
OnlyOwnerRevokes ==
    [][\A t \in Token : Works(t) /\ ~Works(t)' /\ left'[t] > 0 =>
          \E p \in Call : call[p].pc = "revokeDel" /\ call[p].token = t
                          /\ call[p].device = owner[t]]_vars

Listed(d) == {t \in index[d] : byId[t]}

\* create() counts and stores in separate commands (redis.js:105-115, though
\* redis.js:4-5 says that no check and count is split): concurrent calls can pass
\* the limit together, but each of them by one token only.
LimitWithinCalls ==
    \A d \in Device : Cardinality(Listed(d)) < MaxTokens + Cardinality(Call)

\* What routes/tokens.js:21 tells the user: a revoked token stops working at once.
RevokedStopsWorking == \A t \in revoked : ~Works(t)
=============================================================================
