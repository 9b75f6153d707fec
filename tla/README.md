# xAuth in TLA+

Formal models of xAuth: what its parts keep, what each step changes, what they
promise together, checked by TLC on small instances and, for the core, proved
with TLAPS for every value of the constants. Paths are relative to the
repository; `auth-web/` stands for `auth-web/src/`.

A keychain shows an eight-digit code that changes every 90 seconds. `auth-web`
takes the keychain's ID and the code, asks the *verifier* (the only daemon that
reads keys) whether they match, and starts a session. nginx asks `auth-web` at
every request to a gated app whether there is a session, or a device token, of
a device that is still active. Administrators add, revoke and relabel devices
through the dashboard and the *admin daemon*, or with the provisioning tool.

    keychain --code--> browser --POST /otp--> auth-web --socket--> verifier --reads--> keystore
                          |                    |    |                                   ^   ^
      app <-- nginx --GET /verify--------------+    +--socket--> admin daemon --writes--+   |
                                               |                 provisioning tool --writes-+
                                             Redis (sessions, budgets, claims, tokens)

## Modules

| Module | What it is |
|---|---|
| `OneTimeLogin` | abstract: what signing in promises |
| `VerifierService` | abstract: what asking the verifier promises |
| `Login` | POST /otp with the Redis limiter, the verifier's answer and the session store |
| `LoginProofs` | theorems about `Login`, among them that it implements `OneTimeLogin` |
| `LoginAlerts` | `Login` with the alerts its handlers raise |
| `MemoryLimiter` | the same with the limiter of the in-memory stores next to that of Redis |
| `MemoryLimiterProofs` | theorems about `LoginAlerts` and `MemoryLimiter` |
| `Gate` | GET /verify with the status cache, its client and the credentials |
| `GateProofs` | theorems about `Gate` |
| `Pages` | the pages of a signed-in browser, on `Gate`: session reader, guard, tokens made and revoked |
| `PagesProofs` | theorems about `Pages`, among them that it implements `Gate` |
| `RedisTokens` | the device tokens in Redis, one action per command |
| `RedisTokensProofs` | theorems about `RedisTokens` |
| `Keystore` | the keystore table, and the operations of `core/keystore.cpp` on it |
| `Admin` | dashboard handlers, their client, the admin daemon and the provisioning tool, on `Keystore` |
| `AdminProofs` | theorems about `Admin` |
| `VerifierDaemon` | the verifier's start, accept loop and threads, with its clients; implements `VerifierService` |
| `VerifierDaemonProofs` | theorems about `VerifierDaemon`, among them that it implements `VerifierService` |
| `KeychainClock` | the clock of a keychain, and the loop that draws codes from it |
| `OtpCodes` | how the server and the keychain compute a code, which codes are taken, when the keychain says to wait |
| `Keychain` | `KeychainClock` and `OtpCodes`: what it shows is what the server takes |
| `KeychainProofs` | theorems about `KeychainClock`, `OtpCodes` and `Keychain` |
| `MC*` | instances for TLC, with the configurations `MC*_<run>.cfg`; `KeychainClock` needs none, and has `KeychainClock_<run>.cfg` |

`PROJECT.json` maps every definition to the lines it models, and lists runs,
mutants, findings, hazards and theorems. A definition marked `mutation:` is a
plausible bug; each property names one that breaks it.

To run: `tlc -config MCLogin_login.cfg MCLogin`, `tlapm LoginProofs.tla`.

## Inventory

**Login pipeline** (`auth-web/routes/otp.js`). State: what each handler holds
between its awaits. Operation: POST /otp, five awaits. Talks to Redis
(IP budget, device budget, claim, session) and to the verifier. Hard: requests
overlap between any two awaits; a store command whose caller has timed out is
still queued; the process dies between the claim and the session; two clocks
(the handler's window, the verifier's now). Correct when a counter of a device
opens at most one session, and guesses are limited.

**Redis limiter, sessions** (`auth-web/stores/redis.js:17-81`). State: budget
counters and claims, both with an expiry; sessions. Operations: `allowIp`,
`allowDevice`, `claim`, `create`, `get`, `destroy`; the first three are Lua
scripts. Hard: a key that expires while it still matters. Correct when the
claim outlives every code it excludes.

**Redis device tokens** (`auth-web/stores/redis.js:83-143`). State: per token
its record, its id key and its entry in the device's index. Operations: create,
lookup, list, revoke, touch, each several commands. Hard: commands of concurrent
calls interleave, keys expire between two of them. Correct when the three traces
agree, only the owner revokes, the limit holds and a revoked token stops working.

**In-memory stores** (`auth-web/stores/memory.js`). The same interface in Maps, for
tests and the local harness; no awaits inside an operation. State: counters, claims,
sessions, tokens. A sweep drops what is old, where Redis has keys that expire.
Correct when both stores answer alike.

**Forward-auth endpoint and status cache** (`auth-web/routes/verify.js`,
`auth-web/verifier.js`). State: the cache of device statuses, and per visit what
the handler holds. Hard: visits that miss the cache ask the verifier together and
their answers land in any order, while the device is revoked or reactivated.
Correct when a revoked device is locked out, and a reactivated one let in, within
a known time, errors let nobody in, and every visit is decided.

**Session reader and pages** (`auth-web/session.js`, `routes/login.js`,
`routes/tokens.js`, `routes/logout.js`, `routes/start.js`). State: what each handler
holds. Operations: the login page, POST /tokens, POST /tokens/revoke, POST /logout.
They use the status cache of /verify. Hard: the guard and what it guards are
separate awaits, and the device may be revoked in between. Correct when a revoked
device makes no tokens after a known time.

**Admin dashboard and client** (`auth-web/routes/admin.js`, `auth-web/admin.js`).
State: what each handler holds. Operations: add, revoke, activate, label, list.
Hard: the check for the last admin and the revocation are two connections;
timeouts do not cancel a command. Correct when the page tells the truth about the
command and the last active admin stays.

**Admin daemon** (`admin/main.cpp`). State: pending connections and the one it
serves. Hard: it is stopped between the update and the reply; an ID is drawn,
looked up and inserted in separate statements. Correct when no device is ever
overwritten and it always returns to its queue.

**Provisioning tool** (`tools/provision/main.cpp`). A second writer of the
keystore. Hard: its draw races with the daemon's, its undo can fail.

**Keystore** (`core/keystore.cpp`, `db/schema.sql`). One table; each operation is
one statement.

**Verifier daemon** (`verifier/main.cpp`). State: connections not accepted yet,
the counter of connections in flight (at most 32), a thread per connection, the
file at the socket path. Operations: start, VERIFY, STATUS, turn away, exit on a
signal. Talks to `ask()` of `auth-web/verifier.js` and reads the keystore. Hard:
clients that stall, send too much or go away at any byte; a reply followed by a
close with input unread is a reset; slots are counted by hand; a crash leaves the
socket. Correct when every connection ends and gives its slot back, replies
arrive, errors are never a yes, and starting removes nothing but a socket.

**Keychain clock** (`clock.cpp`, `main.cpp` under `firmware/xAuth_ID/src/`). State:
the time in a battery-backed chip, a flag and the high-water mark in flash, the
verdict and a mirror of the mark in RAM, what was drawn last. Operations: boot, set
the time (serial), read, draw. Hard: the power goes between two writes, the chip is
set or unplugged behind its back. Correct when codes never go back, a trusted clock
stays trusted over a restart, and no code stays on the display of one that is not.

**OTP and key generation** (`core/otp.cpp`, `core/keygen.cpp`, the firmware's
`totp.cpp`, `display.cpp`). No state: the same code computed twice, and the lines
that tell how much of its step is left. Correct when the two agree to the digit,
a code that does not say "wait" is taken over the clocks' drift, and no code is
taken long after it was shown.

**Alerts** (`auth-web/alerts.js`). State, in memory: failures per device and hour,
the hour of each alert, the count of the hour; a sweep drops what is old. Correct
when a flood is capped and guessing is noticed.

**Redirects, cookies** (`auth-web/redirect.js`, `auth-web/cookies.js`): pure
decisions on strings. **Server, configuration, rendering**: wiring.
**Backup** (`tools/backup-keystore.sh`, `tools/restore-test.sh`), **nginx and
deployment**: scripts and configuration of external programs.

## What is modelled, and how

### Login

`req[r].pc` names the await a handler is at: `"ip"`, `"device"`, `"verify"`,
`"claim"`, `"session"`. The action that leaves an await (`AllowIp`, `AllowDevice`,
`Verify`, `Claim`, `CreateSession`) is the remote command together with the code
the handler runs on its reply, up to the next await. That is exact: the command
is one Lua script, and the event loop runs the handler's code without a break;
what the handler computes when it issues the next command it computes from its
clock then (`at`).

`GiveUp` is a timer. For the verifier it is the answer `null`; for Redis the
handler ends with a 500, but the command may be in the client's queue or on its
way, so the request keeps its `pc` with `waiting = FALSE` and the command may
still take effect (outcomes `"burnt"` and `"orphan"`) or be lost (`Lose`).
`Crash` does the same to all requests. `hits` and `used` are Redis's counters
and claims with the time they expire; `Tick` advances the clock and drops them.
An outcome `"limited"`, `"malformed"`, `"exhausted"`, `"rejected"`, `"replayed"`,
`"error"` is a redirect or a 500. The Origin check and the normalisation of ID
and code come before any state, so `Post` takes well-formed devices and a code
that may be `Malformed`. The redirect target is left out, and alerts are `LoginAlerts`.

`Otp(d, c)` is a constant: the code a device shows. Codes of different counters
may collide, and nothing relies on their being different.

`MaxLag` bounds the time from issuing a command to its effect. The code has it:
`commandTimeout` 1 s and `maxRetriesPerRequest` 1 empty the client's queue, the
verifier is given 2 s (`verifierTimeoutMs`), against a step of 90 s. The
assumption is the weaker `2 * MaxLag =< Step`.

`OneTimeLogin` says what a user may rely on: counters are spent in increasing
order and each opens at most one session ("a code works once", README.md:27).
The mapping takes the counters of the requests that hold a claim as `spent` and
the sessions stored as `sessions`, so a spent counter without a session is a
step of its own, and a second session from it is not a step at all.

### LoginAlerts

A handler that refuses an attempt calls the alerter in the same turn of the event
loop, so `Report(r)` is conjoined to the handler's step: an exhausted budget raises
an alert, a rejected or replayed code counts as a failure. A crash forgets the
alerter, which the code keeps in memory. `raised` and `failedIn` are history since
the last start. Sending the mail of an alert changes nothing and is left out.

### VerifierDaemon

A connection is one record with both ends: `pc` is where the daemon is with it,
`taken` the bytes it has read, `sent` and `closed` what the client has done. Bytes
are sent one by one, so every split of a message into reads occurs. A message is
known by its length, the place of its newline and what its line asks; the
instance has a question as `ask()` sends it, one with more after its line, a line
too long, and a peer that SO_PEERCRED does not allow. A read ends with bytes, at
end of file, or with its timeout, which can happen whenever there is nothing to
read; `late` remembers that it did.

`Write` is `write_all()` with `shutdown()`: the client can see the reply. `Close`
and `Refuse` may turn it into `"lost"` if input is unread, because then the kernel
resets the connection (the comment at main.cpp:231-235 is about this, and
`RepliesArrive` about what it promises). `inFlight` is the counter: `Accept` adds
to it before the limit is looked at, `Refuse` and `Release` give back. A failing
`connect()` changes nothing and is no step. `Signal` unlinks and exits, `Crash`
stands for every other end, `Begin`, `Check` and `Bind` are the start after it.

`VerifierService` is what `Login` and `Gate` take the verifier for: a yes is given
only if it was the truth between the question and the answer, a no to STATUS as
well; the answer may be lost, and the caller need not wait. The mapping takes the
client's verdict, or what the client would make of the reply that is written.

### Gate

`Visit`, `GetSession`, `LookupToken`, `CheckDevice`, `ReadStatus`, `Answer` are
the awaits of GET /verify; `StoreFails` and `VerifierFails` its failures. A
request slot is used again when it has been answered, so there is no bound on the
number of visits, and times are kept as ticks left or gone by, so there is none on
the clock. The verifier's STATUS is two steps, the read of the keystore and the
arrival of the reply, because the device can be revoked between them. `cache[d]`
is what the Map holds; an expired entry stays in it, as in the code. `since[d]`
is history, and saturates past everything the properties compare it with. Nothing
waits for the verifier longer than `Timeout`, because ask()'s timer is an event of
the same loop.

### Pages

A page is a visit of `Gate` in a slot of its own (`PageRequest`), without a token
header: `currentSession()` makes the same two calls as /verify, and fills the same
cache. `Guard` is a step of that visit; when it lets the page in, `page[r].at` goes on
to the commands of the page (`CountTokens`, `StoreToken`, `RevokeToken`). The list
that the page shows changes nothing. `PageTime` bounds the time from the guard to the
last command: each runs under `commandTimeout`, and there are at most
`2 * MaxTokens + 2` of them. `age` is `since` of `Gate` with more room.

### MemoryLimiter

Each step of `Login` that calls Redis also calls the limiter in memory, at the same
moment and for the same minute and window; a crash empties it. `SweepMemory` may
happen at any time. `StoresAgree` compares the answers to the calls that can come.
Claims cannot be told apart by their expiry: a code is not accepted any more long
before its claim goes (`ClaimInv`).

### RedisTokens

One action per Redis command; MULTI is one action. A tick is a minute, because the
only times are the TTL and the minute in touch(). `record[t] = "forever"` is a key
made again by `SET ... KEEPTTL` after it was deleted or expired: it has no TTL.
`revoked` is history. A token stands for its hash and its id, which are drawn at
random and never repeat. A call whose command fails stops there (`Fail`); a
command that runs although its caller gave up is the step itself.

### Keystore and Admin

Every operation of `core/keystore.cpp` opens the file, runs one statement and
closes it: one atomic step, or a failure without a change. A handler of the
dashboard opens a connection per command. The daemon's `queue` is the listen
backlog: it is served in order, and a connection whose client has gone is still
served. `Reply` reaches a handler only if it still waits for that question
(`Waits`); `Restart` closes everything that is open. An add draws an ID, looks it
up and inserts it in separate steps, between which the tool may write. The tool's undo, for a firmware header it could
not write, is `ToolUndo`: the revocation may fail, and the tool does not look. The list a
handler reads is modelled by the number of active admins in it; the list on the
page changes nothing and is part of `Page`. `effect` and `current` are history:
what a command did to the keystore, and whose list has not been overtaken.

A key is named after its generator: two runs of the tool use the same name, but
`Id` has one free ID, so no property depends on it.

### KeychainClock

`pc` is where `loop()` is: `"poll"` before it serves the serial line, `"read"`
between `clock_now()` and the drawing, `"adjusted"` and `"flagged"` after the first
two writes of `apply_time()`. `SetTime`, `SaveFlag` and `FinishSet` are one write
each, because `PowerOff` may come between them; a command the checks refuse changes
nothing and is no step. `chip` and `wired` belong to the outside: `Drift` moves the
time by any amount in either direction, which includes the clock running, being set
with another tool, and a new chip; without its wire a read returns anything.
`flash` survives everything; erasing it is how an owner starts over and is not
modelled. `newest` is history. A time stands for its code: two times of one step
show the same code, which makes the properties stronger than needed.

### OtpCodes and Keychain

The server's code and the keychain's are two operators, translated from two
sources. Bytes, digits and widths are constants; HMAC-SHA256 is the constant `Mac`,
which the instance chooses such that no two counters have the same code and the
truncation starts at more than one place. `Counters` is the loop of `verify_code`
in the width of its integers. `Keychain` reads the code off the display of
`KeychainClock`, whatever its clock has been through, and asks what a server takes
whose clock is up to a step off.

## Runs

| Run | Instance | Shows |
|---|---|---|
| `login` | 2 requests, 1 device, step 2, lag 1 | `TypeOK`, `OneLoginPerCounter`, `ClaimInv`, `ImplementsOneTimeLogin`, `EveryRequestAnswered` |
| `login_budget` | 3 requests against a budget of 1, hours of 3 ticks, 1 alert an hour, a sweep at any time | `BudgetHolds`, `GuessesPerStep`, `AlertsCapped`, `GuessingIsNoticed`, `StoresAgree` |
| `gate` | a visit slot and a page slot, 1 device, a session and a token, Ttl 1, Timeout 1, pages of 1 tick | `TypeOK`, `FreshEnough`, `RevocationBounded`, `ReactivationBounded`, `RevokedMakesNoTokens`, `EveryPageEnds` |
| `redis_tokens` | 2 calls, TTL 1 | `TypeOK`, `TokenInv`, `IndexAgrees`, `LimitWithinCalls`, `OnlyOwnerRevokes` |
| `redis_revoke` | 2 calls | `RevokedStopsWorking` is violated |
| `admin` | 2 requests, the tool, 2 admins and a free ID, 2 draws | `TypeOK`, `SaysWhatWasDone`, `KeysStay`, `OnlyRacesTakeLastAdmin`, `DaemonAdvances` |
| `admin_last`, `admin_nothing`, `admin_tool` | as `admin` | `LastAdminStays`, `NothingWasChanged`, `RevokedWhenItSaysSo` are violated |
| `verifier` | 2 connections for 1 slot, 4 kinds of message, a buffer of 2 bytes, 1 drained | `TypeOK`, `SlotsCounted`, `RepliesArrive`, `ConnectionAdvances`, `FilesOutliveStarts`, `ConnectionsEnd`, `ImplementsVerifierService` |
| `clock` | times 0 to 5, built at 2, nudge 1, interval 1; steps of 4, bytes of 4 values, codes of 2 digits | `TypeOK`, `CodesMoveForward`, `ClockInv`, `RestartKeepsTrust`, `CodesGoAway`, `ShownCodeWorks`, `CodesExpire` |
| `clock_screen` | as `clock`, without codes | `NoClockIsShown` is violated |

**Bounds.** Two requests are what a race for a code, a cache entry, a token or an
admin needs; the proofs cover any number. In `login` the clock (`MaxTime`) runs
long enough for a claim to expire and its code to be tried again, which the mutant
`ClaimTtlThreeSteps` confirms: it breaks `OneLoginPerCounter` within the bound.
The clock is the only bound in a guard; every other constant is the size of a set
or a limit of the program (`Attempts`, `MaxTokens`, `MaxTries`), made small.
Symmetry over requests is used only where no liveness property is checked.
In `gate` a page is seen to make a token, and a visit to be let in, one tick before
the bound: an entry is used only while it has time left, so whole ticks never reach
the bound itself.
In `clock` the chip's range leaves room for times before the build, within a nudge
of the mark, within its interval and beyond both, and for codes of two steps with
each number of lines. In `verifier` the messages are shorter than, as long as and
longer than the buffer and what is drained; a second connection is what the only
slot is contended by. `login_budget` has one device; with two, whose alerts share
the cap, it takes 6.6 million states (without the limiter in memory) and holds as well.

**Fairness.** `Login` and `Pages` assume only that timers fire: `commandTimeout` for
each store command, `setTimeout` in ask() for the verifier. Nothing is assumed of
Redis, the verifier or the network. `Admin` assumes none: that a command ends is
`DaemonAdvances`, a rank which every step of the daemon lowers. `KeychainClock`
assumes that `loop()` runs on while it has power: weak fairness for its steps, and
strong fairness for `ReadClock`, because serial commands are served first and disable
it again and again, but no host sends them without a pause. `VerifierDaemon` assumes
that the accept loop and the threads run. A read does not need its client: `SO_RCVTIMEO` ends it, which is
why `Serve` is enabled in every state of a thread. Nothing is assumed of clients.

## What the runs found

* A revoked device works for up to `ttlMs` plus the wait for the verifier, because
  the cache entry's lifetime starts when the answer arrives; verifier.js:99 and
  config.js:59 promise the first alone, and session.js:4 calls it immediate. `RevocationBounded`
  and `RevokedMakesNoTokens` are what holds.
* The token limit (redis.js:4) can be passed by concurrent creations.
  `LimitWithinCalls` bounds by how much.
* A token revoked while touch() runs works on, and cannot be listed or revoked any
  more (`redis_revoke`): redis.js:141 writes the record again.
* The last active admin can be revoked from the dashboard (`admin_last`), against
  docs/runbook.md:93: the list was out of date. `OnlyRacesTakeLastAdmin` says there
  is no other way.
* "Nothing was changed" (admin.js:39, 124, 144, 157) is wrong after a timeout or a
  lost reply (`admin_nothing`). What the page says otherwise is true
  (`SaysWhatWasDone`).
* The provisioning tool says "revoked the device so a half-provisioned key is never
  live" (provision/main.cpp:106-109) without looking whether it was (`admin_tool`).
* A keychain that starts without its clock chip shows nothing (`clock_screen`), where
  docs/runbook.md:73 says `NO CLOCK`: what loop() drew last is initialised to exactly
  that state (main.cpp:41-42, 48), so there is never anything new to draw.
* A token is stored before the page that shows it reads its list (tokens.js:78-87): if
  that read fails, the answer is a 500, and the token counts against the limit although
  nobody has seen it. It can be revoked from the next page.
* A connection to the verifier can be held for one timeout per read, and there are
  as many reads as `ConnectionAdvances` counts, while the comment at
  verifier/main.cpp:234-235 speaks of one timeout.
* The signal handlers of the verifier are installed (295) before the socket path is
  looked at (308). A SIGTERM in between unlinks whatever is there, which the check
  against a file that is no socket is meant to rule out (305-306).
  `FilesOutliveStarts` therefore makes an exception for signals.

## What is proved

All theorems hold for every value of the constants that meets the module's named
assumption.

**A code works once.** `CodeWorksOnce` is not inductive: that no two requests
claim a counter depends on the claim being remembered, and it is forgotten after
four steps. `ClaimInv` strengthens it by four facts: commands in flight are at
most `MaxLag` old; a counter about to be claimed is within one step of the window
its code was tested in; a claim expires three windows after its counter or later;
so a claimed counter is still remembered, or it is at least three windows old. A
request at the claim is then never at a forgotten counter: its counter is at
least the current window less two. `ClaimsOutliveCodes` is the invariance;
`LoginImplementsOneTimeLogin` maps each step to `Spend`, `Open` or a stutter. The
proof uses `2 * MaxLag =< Step` and nothing about codes.

**Revocation is bounded.** `FreshEnough` says that the time since a wrong entry
went wrong and the time it has left add up to at most `Ttl + Timeout`, and that an
answer on its way went wrong no longer ago than it has been waited for. It is
inductive with the type invariant. The two bounds follow from it by the step that
lets a visit in or turns it away.

**Revoked devices make no tokens.** `PagesImplementGate`: each step of a page is one
of `Gate` or leaves its variables alone, so `TypeOK`, `FreshEnough` and the bounds
hold next to any number of pages. `RevokedMakesNoTokens` alone says nothing of a page
between its guard and its command. `PageInv` does: the device of a page at work is
active, or was revoked at most `Ttl + Timeout` and the time since the guard ago. The
step that lets a page in establishes it from the bound on visits, a tick adds one to
both sides, and a revocation starts at zero. The proof uses that session cookies and
device tokens are different credentials, which are drawn at random and kept under
keys of their own.

**Half tokens.** `TokenInv` says that the record, the id key and the index entry
come and go together except for what touch() makes again, and what the calls in
flight know of their token: pruned ids are gone for good, a deletion is the
owner's. Ids are never drawn twice, which is why an id found expired stays
expired. `IndexIsSound` and `OnlyOwnersRevoke` follow.

**Codes never go back.** `ClockInv`: every code shown is covered by the mark in
flash up to its interval, RAM and flash agree on the mark while the keychain runs,
and a time read by a trusted clock lies between the mark and the mark plus the
interval until it is drawn. `CodesMoveForward` alone is not inductive: it says
nothing of the mark that makes the next code safe. `CodesNeverGoBack` and
`TrustIsKept` follow; nothing is assumed of the constants but that they are naturals.

**Guesses are limited.** The counter of a window expires, so `BudgetHolds` needs to
know that it does so too late to matter. `BudgetInv`: the counter of a device and a
window counts the guesses that passed it and expires two windows later or more; where
it is gone, no guess has passed or the window is two windows back, when a command
counted there, which is at most `MaxLag` old, cannot be in flight any more. Of a guess
it says that it is tested in the window it was counted in or the next, from which
`GuessesPerStep` follows: at most two budgets are tested in one window.

**Alerts.** `RaisedInv`: the count of the hour is the number of alerts raised in it,
`lastAlert` names alerts that were raised and all those of this hour. `FailedInv`: a
device's count is no smaller than its failures of the hour, and once it has reached
the threshold the alert is raised or the cap used up. Both speak of the present hour
only through what the sweep keeps, which is why the sweep may come at any time.

**The stores agree.** Equal answers are not inductive: a key of Redis expires and an
entry in memory is swept, at different times. `MemoryInv` says that both have counted
the same in every minute that is not over and every window but those two windows back,
that a key of Redis lasts that long (`Lasting`), and that a claim in memory that has not
expired is the one in Redis. `MemorySpec` implies `AlertingSpec`, and that implies `Spec`
of `Login`, so what is proved of them holds next to the stores in memory.

**The token limit.** A creating call weighs what it has found plus what it has left
to look at that is still listed and alive. `LimitInv` (part `Counted`) says, with n
tokens listed for a device: for each m from the limit up to n, fewer than m + |`Call`| - n
of its creating calls weigh less than m. So each token over the limit costs a call that
could have passed it, and one that finds room can add at most the token by which it is itself counted.
`LimitIsNearlyKept` needs finitely many calls and tokens.

**The dashboard tells the truth.** `Inv` of `AdminProofs` has four parts. `Typed`:
a connection in the queue is of a handler and its question, and the daemon serves
the first. `InOrder`: a command is sent once, so a reply is to the question its
handler waits for. `Truthful`: the reply on its way, the page and `effect` say the same
of the command. `Current`: a list that nothing has overtaken counts the active admins,
so the daemon revokes the last one only for a handler whose list was overtaken.
`KeysDoStay` rests on the primary key alone, `DaemonDoesAdvance` on the number of tries.

**The verifier.** `Good` relates the two ends of one connection: what is taken is part
of what was sent, nothing is answered before the look-up is over, a client that ends its
message in time has sent all of it, and input may be unread at the close only where the
client sent more than is drained, or the timeout came first. `InLine` says that no
connection waits twice or waits while it is refused. With `SlotsCounted`, that `inFlight` is the number
of connections that hold a slot, it is inductive. `ConnectionsAdvance` is a rank of the
bytes to read, the timeouts and the steps left. `ServiceIsImplemented` maps each step
to one of `VerifierService` or a stutter.

**What is shown works.** `CodesDoWork` and `CodesDoExpire` are arithmetic on quotients
next to the type of what is on the display. The sign to wait leaves more than a quarter
of the step, so the counter does not change while the code is typed, and a clock that
is a step off is one counter away at most. That the counters stay below the largest
one is `HorizonAssumption`. `CodesDoExpire` assumes `NoCollisions`: with eight digits two
counters do show the same code now and then, and then the later one works again.

**Assumptions.** Each module's is named in the module and evaluated by TLC. Beyond what
the code fixes, `Admin` and `RedisTokens` assume that there are finitely many admins,
calls and tokens, which is what counting them takes. `OtpAssumption` says that powers of
`Base` are positive: the provers know the type of an exponential and nothing else of it.

**Only model-checked:** the liveness properties `EveryRequestAnswered`,
`EveryPageEnds`, `ConnectionsEnd` and `CodesGoAway`, since fairness needs ENABLED, which
is out of the prover's reach. Of the last two the part that is not liveness is proved
(`ConnectionsAdvance`, `CodesNeverGoBack`). That `CounterBytes`, `Truncate` and `Pad` are
what RFC 4226 says is not stated anywhere: the theorems need only that the server and
the keychain do the same.

## Not modelled

* Rendering, logging, configuration, cookies and redirect targets: no state, and
  decisions on the characters of strings. Requests are well-formed or not.
* nginx, containers, deployment, backup scripts: other programs, and their
  configuration. A backup is SQLite's own online backup.
* HMAC and random drawing (keygen.cpp): `Mac` is a constant, a key is a name.
* The keystore as a file. `migrate_keystore` looks for a column and adds it in two
  statements; two daemons that start together may both try, one fails, and the column
  is there. The schema's checks are those the inserts of the code meet anyway.
* The sessions and tokens of the in-memory stores: each operation is one turn of the
  event loop and checks the expiry on use, so the sweep cannot be seen.
* Socket permissions, process hardening and the erasing of keys in memory.
* The demonstrations and the layout in display.cpp.

## Plan

Every module and theorem listed above is done; each safety and action property of a
passing run is proved. What could follow:

1. `BudgetHolds` next to several processes of `auth-web`: the limiter is in Redis, so
   `Login` covers them but for `Crash`, which stops all at once.
2. The cookie scan and the redirect rules as operators, if their rules grow.
3. The sessions of the in-memory stores, if an operation ever awaits.

Bounds stay as above: two of whatever competes, and limits of one to three.
