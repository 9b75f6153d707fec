-------------------------------- MODULE Pages --------------------------------
(***************************************************************************)
(* The pages for a signed-in browser (auth-web/src/routes/login.js and     *)
(* routes/tokens.js) behind the session reader (auth-web/src/session.js),  *)
(* next to GET /verify.  Both ask the same status cache, so a page is a    *)
(* visit of Gate without a token header, which goes on when it is let in.  *)
(*                                                                         *)
(* A POST without the right Origin is answered before anything else, and   *)
(* one whose label is no label ends as a view.  How the commands of two    *)
(* creations mix is the subject of RedisTokens.                            *)
(***************************************************************************)
EXTENDS Gate, FiniteSets

CONSTANTS
    PageRequest,    \* the requests that are pages
    PageTime,       \* ticks from the guard to the last command of a page
    MaxTokens       \* maxTokensPerDevice

ASSUME PagesAssumption ==
    /\ PageRequest \subseteq Request
    /\ Session \cap DeviceToken = {}
    /\ PageTime \in Nat
    /\ MaxTokens \in Nat

VARIABLES
    page,   \* page[r]: what the page is for, where it is, and ticks since its guard
    age     \* history: age[d] is since[d] with room for a page

pageVars == <<page, age>>

AgeHorizon == Ttl + Timeout + PageTime + 1

Does == {"view", "create", "revoke"}
Working == {"count", "store", "revoke"}
Over == [does |-> "view", at |-> "over", taken |-> 0]

PagesInit ==
    /\ Init
    /\ page = [r \in PageRequest |-> Over]
    /\ age = [d \in Device |-> AgeHorizon]

-----------------------------------------------------------------------------

Open(r, cookie, does) ==
    /\ page[r].at = "over"
    /\ Visit(r, cookie, None)
    /\ page' = [page EXCEPT ![r] = [Over EXCEPT !.does = does, !.at = "guard"]]
    /\ UNCHANGED age

\* Whoever is not let in is sent to the login form.
FirstForAll(does, pc) ==        \* mutation: no session does not end the page
    CASE pc \notin Answered -> "guard"
      [] pc \in Answered /\ does = "create" -> "count"
      [] pc \in Answered /\ does = "revoke" -> "revoke"
      [] OTHER -> "over"

First(does, pc) ==
    CASE pc \notin Answered -> "guard"
      [] pc = "allowed" /\ does = "create" -> "count"
      [] pc = "allowed" /\ does = "revoke" -> "revoke"
      [] OTHER -> "over"

Guard(r) ==
    /\ page[r].at = "guard"
    /\ GetSession(r) \/ StoreFails(r) \/ ReadStatus(r) \/ Answer(r) \/ VerifierFails(r)
    /\ page' = [page EXCEPT ![r].at = First(page[r].does, req'[r].pc)]
    /\ UNCHANGED age

Live(d) == {t \in DeviceToken : Owner(t) = d /\ store[t] > 0}

\* tokens.create(): a device with enough tokens gets no other.
CountTokens(r) ==
    /\ page[r].at = "count"
    /\ page' = [page EXCEPT ![r].at =
                  IF Cardinality(Live(req[r].device)) >= MaxTokens THEN "over" ELSE "store"]
    /\ UNCHANGED <<vars, age>>

StoreToken(r, t) ==
    /\ page[r].at = "store" /\ Owner(t) = req[r].device
    /\ Issue(t)
    /\ page' = [page EXCEPT ![r].at = "over"]
    /\ UNCHANGED age

\* tokens.revoke(): only a token of this device, if it is still there.
RevokeToken(r, t) ==
    /\ page[r].at = "revoke"
    /\ \/ Owner(t) = req[r].device /\ Withdraw(t)
       \/ t \notin Live(req[r].device) /\ UNCHANGED vars
    /\ page' = [page EXCEPT ![r].at = "over"]
    /\ UNCHANGED age

\* A store command fails: 500.
PageFails(r) ==
    /\ page[r].at \in Working
    /\ page' = [page EXCEPT ![r].at = "over"]
    /\ UNCHANGED <<vars, age>>

-----------------------------------------------------------------------------

\* A page's commands run under commandTimeout, each of them.
OverTime(r) == page[r].at \in Working /\ page[r].taken = PageTime

PageTick ==
    /\ \A r \in PageRequest : ~OverTime(r)
    /\ Tick
    /\ page' = [r \in PageRequest |->
                  IF page[r].at \in Working THEN [page[r] EXCEPT !.taken = @ + 1] ELSE page[r]]
    /\ age' = [d \in Device |-> IF age[d] < AgeHorizon THEN age[d] + 1 ELSE AgeHorizon]

\* A login stores a session, a logout removes it.
SignInOrOut(c) == (Issue(c) \/ Withdraw(c)) /\ UNCHANGED pageVars

VisitGate(r, cookie, header) == Visit(r, cookie, header) /\ UNCHANGED pageVars

AtGate(r) ==
    /\ \/ GetSession(r) \/ LookupToken(r) \/ StoreFails(r)
       \/ ReadStatus(r) \/ Answer(r) \/ VerifierFails(r)
    /\ UNCHANGED pageVars

PagesNext ==
    \/ \E d \in Device : SetStatus(d) /\ age' = [age EXCEPT ![d] = 0] /\ UNCHANGED page
    \/ \E c \in Session : SignInOrOut(c)
    \/ \E r \in Request \ PageRequest :
          \/ \E cookie \in Session \cup {None}, header \in DeviceToken \cup {None} :
                VisitGate(r, cookie, header)
          \/ AtGate(r)
    \/ \E r \in PageRequest :
          \/ \E cookie \in Session \cup {None}, does \in Does : Open(r, cookie, does)
          \/ Guard(r) \/ CountTokens(r) \/ PageFails(r)
          \/ \E t \in DeviceToken : StoreToken(r, t) \/ RevokeToken(r, t)
    \/ PageTick

PagesSpec == PagesInit /\ [][PagesNext]_<<vars, pageVars>>

\* The timers: commandTimeout, at the guard and after it, and that of ask().
TimerFires(r) == StoreFails(r) \/ VerifierFails(r)

FairPagesSpec ==
    /\ PagesSpec
    /\ \A r \in Request \ PageRequest : WF_<<vars, pageVars>>(AtGate(r) /\ TimerFires(r))
    /\ \A r \in PageRequest :
          WF_<<vars, pageVars>>(Guard(r) /\ TimerFires(r)) /\ WF_<<vars, pageVars>>(PageFails(r))

-----------------------------------------------------------------------------
(* Properties.                                                             *)

\* A revoked device makes itself no new token, although the page that makes it
\* has checked the device before, and its session lives on: at most Ttl +
\* Timeout after the revocation for the check, and the time a page takes
\* (session.js:3-12, routes/tokens.js:55-88).
RevokedMakesNoTokens ==
    [][\A t \in DeviceToken : store[t] = NotIssued /\ store'[t] # NotIssued =>
          active[Owner(t)] \/ age[Owner(t)] =< Ttl + Timeout + PageTime]_<<vars, pageVars>>

\* Every visit is decided and every page ends, whichever of the stores and the
\* verifier is down (routes/verify.js:29-33, redis.js:37-40, verifier.js:50-53).
Busy(r) == IF r \in PageRequest THEN page[r].at # "over" ELSE req[r].pc \notin Answered

EveryPageEnds == \A r \in Request : Busy(r) ~> ~Busy(r)
=============================================================================
