-------------------------------- MODULE Gate --------------------------------
(***************************************************************************)
(* GET /verify, which nginx asks before it serves any request to a gated   *)
(* app (auth-web/src/routes/verify.js), with the status cache in front of  *)
(* the verifier (auth-web/src/verifier.js:101-119), the credentials it     *)
(* looks up and the keystore status the verifier reads.                    *)
(*                                                                         *)
(* Requests overlap: while one waits for the verifier, others ask again,   *)
(* the status changes, and their answers fill the cache in any order.      *)
(*                                                                         *)
(* Times are kept as ticks left or ticks gone by, so the clock has no      *)
(* bound.  A request slot is used again once it has been answered.         *)
(***************************************************************************)
EXTENDS Integers

CONSTANTS
    Request,        \* slots for requests to /verify
    Device,
    Session,        \* session cookies ever issued
    DeviceToken,    \* device tokens ever issued
    Owner(_),       \* the device a credential was issued to
    Ttl,            \* ticks an answer stays in the cache (statusCacheSeconds)
    Timeout,        \* ticks auth-web waits for the verifier (verifierTimeoutMs)
    CredentialTtl   \* ticks a credential is valid

ASSUME GateAssumption ==
    /\ Ttl \in Nat
    /\ Timeout \in Nat
    /\ CredentialTtl \in Nat
    /\ \A c \in Session \cup DeviceToken : Owner(c) \in Device

VARIABLES
    active,     \* active[d]: the keystore's Status of d
    since,      \* since[d]: ticks since active[d] changed, saturating
    store,      \* store[c]: ticks credential c is still valid
    cache,      \* cache[d]: the last answer about d and ticks it is still used
    req         \* req[r]: what the handler of r holds

vars == <<active, since, store, cache, req>>

None == "none"
Credential == Session \cup DeviceToken
NotIssued == -1

\* Beyond this many ticks since is not counted further.
Horizon == Ttl + Timeout + 1

Answered == {"allowed", "inactive", "denied"}
AtVerifier == {"asked", "read"}
Pc == Answered \cup AtVerifier \cup {"session", "token"}

Status(d) == IF active[d] THEN "active" ELSE "inactive"

\* What isActive() makes of a status other than 'error'.
VerdictRaw(status) == status            \* mutation: passes the status on
Verdict(status) == IF status = "active" THEN "allowed" ELSE "inactive"

Init ==
    /\ active = [d \in Device |-> TRUE]
    /\ since = [d \in Device |-> Horizon]
    /\ store = [c \in Credential |-> NotIssued]
    /\ cache = [d \in Device |-> [status |-> None, left |-> 0]]
    /\ req = [r \in Request |-> [pc |-> "denied", cookie |-> None, header |-> None,
                                 device |-> None, waited |-> 0, answer |-> None]]

-----------------------------------------------------------------------------
(* The world around /verify.                                               *)

\* An administrator revokes or reactivates the device.
SetStatus(d) ==
    /\ active' = [active EXCEPT ![d] = ~@]
    /\ since' = [since EXCEPT ![d] = 0]
    /\ UNCHANGED <<store, cache, req>>

\* A login or POST /tokens stores a new credential.
Issue(c) ==
    /\ store[c] = NotIssued
    /\ store' = [store EXCEPT ![c] = CredentialTtl]
    /\ UNCHANGED <<active, since, cache, req>>

\* POST /logout or POST /tokens/revoke removes it.
Withdraw(c) ==
    /\ store[c] > 0
    /\ store' = [store EXCEPT ![c] = 0]
    /\ UNCHANGED <<active, since, cache, req>>

-----------------------------------------------------------------------------
(* GET /verify.                                                            *)

\* nginx forwards the cookie and the token header, either of them absent.
Visit(r, cookie, header) ==
    /\ req[r].pc \in Answered
    /\ req' = [req EXCEPT ![r] = [pc |-> "session", cookie |-> cookie, header |-> header,
                                  device |-> None, waited |-> 0, answer |-> None]]
    /\ UNCHANGED <<active, since, store, cache>>

Valid(c) == c # None /\ store[c] > 0

Deny(r) == req' = [req EXCEPT ![r] = [@ EXCEPT !.pc = "denied", !.answer = None]]

\* isActive() before its await: use the cached answer or ask the verifier.
Known(d) == cache[d].status # None      \* mutation: until is ignored
Fresh(d) == cache[d].left > 0

CheckDevice(r, d) ==
    \/ /\ Fresh(d)
       /\ req' = [req EXCEPT ![r] = [@ EXCEPT !.pc = Verdict(cache[d].status), !.device = d]]
    \/ /\ ~Fresh(d)
       /\ req' = [req EXCEPT ![r] = [@ EXCEPT !.pc = "asked", !.device = d, !.waited = 0]]

\* The session store answers; without a session the token header counts.
GetSession(r) ==
    /\ req[r].pc = "session"
    /\ \/ Valid(req[r].cookie) /\ CheckDevice(r, Owner(req[r].cookie))
       \/ ~Valid(req[r].cookie) /\ req[r].header = None /\ Deny(r)
       \/ /\ ~Valid(req[r].cookie) /\ req[r].header # None
          /\ req' = [req EXCEPT ![r] = [@ EXCEPT !.pc = "token"]]
    /\ UNCHANGED <<active, since, store, cache>>

LookupToken(r) ==
    /\ req[r].pc = "token"
    /\ \/ Valid(req[r].header) /\ CheckDevice(r, Owner(req[r].header))
       \/ ~Valid(req[r].header) /\ Deny(r)
    /\ UNCHANGED <<active, since, store, cache>>

\* A store command fails or times out: nobody gets in.
SessionAwait == {"session"}             \* mutation: the token lookup never fails
StoreAwait == {"session", "token"}

StoreFails(r) ==
    /\ req[r].pc \in StoreAwait
    /\ Deny(r)
    /\ UNCHANGED <<active, since, store, cache>>

\* The verifier reads the keystore and writes its reply.
ReadStatus(r) ==
    /\ req[r].pc = "asked"
    /\ req' = [req EXCEPT ![r] = [@ EXCEPT !.pc = "read", !.answer = Status(req[r].device)]]
    /\ UNCHANGED <<active, since, store, cache>>

\* The reply arrives; it replaces whatever the cache holds by now.
Answer(r) ==
    /\ req[r].pc = "read"
    /\ cache' = [cache EXCEPT ![req[r].device] = [status |-> req[r].answer, left |-> Ttl]]
    /\ req' = [req EXCEPT ![r] = [@ EXCEPT !.pc = Verdict(req[r].answer), !.answer = None]]
    /\ UNCHANGED <<active, since, store>>

\* Timeout, busy verifier, unreadable keystore or lost connection: the reply
\* counts as 'error'.
CacheError(d) == cache' = [cache EXCEPT ![d] = [status |-> "inactive", left |-> Ttl]]
                                        \* mutation: errors are cached
ForgetOnError(d) == cache' = [cache EXCEPT ![d] = [status |-> None, left |-> 0]]

VerifierFails(r) ==
    /\ req[r].pc \in AtVerifier
    /\ ForgetOnError(req[r].device)
    /\ Deny(r)
    /\ UNCHANGED <<active, since, store>>

-----------------------------------------------------------------------------

CountDown(n) == IF n > 0 THEN n - 1 ELSE n

\* No request waits for the verifier longer than Timeout.
NeverOutOfTime(r) == FALSE              \* mutation: ask() sets no timer
OutOfTime(r) == req[r].pc \in AtVerifier /\ req[r].waited = Timeout

Tick ==
    /\ \A r \in Request : ~OutOfTime(r)
    /\ since' = [d \in Device |-> IF since[d] < Horizon THEN since[d] + 1 ELSE Horizon]
    /\ store' = [c \in Credential |-> CountDown(store[c])]
    /\ cache' = [d \in Device |-> [cache[d] EXCEPT !.left = CountDown(@)]]
    /\ req' = [r \in Request |->
                 IF req[r].pc \in AtVerifier THEN [req[r] EXCEPT !.waited = @ + 1] ELSE req[r]]
    /\ UNCHANGED active

Next ==
    \/ \E d \in Device : SetStatus(d)
    \/ \E c \in Credential : Issue(c) \/ Withdraw(c)
    \/ \E r \in Request, cookie \in Session \cup {None}, header \in DeviceToken \cup {None} :
          Visit(r, cookie, header)
    \/ \E r \in Request :
          \/ GetSession(r) \/ LookupToken(r) \/ StoreFails(r)
          \/ ReadStatus(r) \/ Answer(r) \/ VerifierFails(r)
    \/ Tick

Spec == Init /\ [][Next]_vars

-----------------------------------------------------------------------------
(* Properties.                                                             *)

RequestState ==
    [pc : Pc, cookie : Session \cup {None}, header : DeviceToken \cup {None},
     device : Device \cup {None}, waited : 0 .. Timeout,
     answer : {"active", "inactive", None}]

ReqOK ==
    /\ req \in [Request -> RequestState]
    /\ \A r \in Request : req[r].pc \in AtVerifier => req[r].device \in Device
    /\ \A r \in Request : req[r].pc = "read" => req[r].answer # None

CacheOK ==
    /\ cache \in [Device -> [status : {"active", "inactive", None}, left : 0 .. Ttl]]
    /\ \A d \in Device : Fresh(d) => cache[d].status # None

\* Type invariant; an answer in use is never an error.
TypeOK ==
    /\ active \in [Device -> BOOLEAN]
    /\ since \in [Device -> 0 .. Horizon]
    /\ store \in [Credential -> NotIssued .. CredentialTtl]
    /\ ReqOK
    /\ CacheOK

\* Whatever is in the cache or on its way to it was true of the keystore
\* recently enough: it went stale at most as long ago as it has been held.
FreshEnough ==
    /\ \A d \in Device : Fresh(d) /\ cache[d].status # Status(d)
          => since[d] + cache[d].left =< Ttl + Timeout
    /\ \A r \in Request : req[r].pc = "read" /\ req[r].answer # Status(req[r].device)
          => since[req[r].device] =< req[r].waited

Becomes(r, verdict) == req[r].pc # verdict /\ req'[r].pc = verdict

\* A revoked device is let in for at most Ttl + Timeout after its revocation:
\* the cache lifetime, which config.js:58-61 gives as the bound, plus the time
\* the answer spent between the keystore and the cache (verifier.js:105-116).
RevocationBounded ==
    [][\A r \in Request : Becomes(r, "allowed") =>
          LET d == req'[r].device IN active[d] \/ since[d] =< Ttl + Timeout]_vars

\* A device that is active again is refused as revoked no longer than that.
ReactivationBounded ==
    [][\A r \in Request : Becomes(r, "inactive") =>
          LET d == req'[r].device IN ~active[d] \/ since[d] =< Ttl + Timeout]_vars
=============================================================================
