---------------------------- MODULE MemoryLimiter ----------------------------
(***************************************************************************)
(* The limiter of the in-memory stores (auth-web/src/stores/memory.js),    *)
(* which tests and the local harness use, next to that of Redis: it is     *)
(* given the same calls.  It keeps counters and claims in Maps; what has   *)
(* expired goes with a sweep every 30 seconds, whenever that is, and not   *)
(* when it expires.                                                        *)
(***************************************************************************)
EXTENDS LoginAlerts

VARIABLES
    attempts,       \* ipAttempts and deviceAttempts: key -> count
    lastCounter,    \* lastCounter[d]: the counter claimed last, and until when
    lost            \* history: this process is not the first

memory == <<attempts, lastCounter, lost>>

MemoryInit ==
    /\ AlertingInit
    /\ attempts = [k \in {} |-> 0]
    /\ lastCounter = [d \in Device |-> Unused]
    /\ lost = FALSE

CountInMemory(k) == IF k \in DOMAIN attempts THEN attempts[k] ELSE 0

Bump(k) ==
    /\ attempts' = [x \in DOMAIN attempts \cup {k} |->
                      IF x = k THEN CountInMemory(k) + 1 ELSE attempts[x]]
    /\ UNCHANGED <<lastCounter, lost>>

\* claim(): an expired entry may still be there, and does not count.
NewerInMemory(d, c) == ~(lastCounter[d].until > clock /\ c =< lastCounter[d].counter)

ClaimInMemory(d, c) ==
    /\ lastCounter' = IF NewerInMemory(d, c)
                      THEN [lastCounter EXCEPT ![d] = [counter |-> c, until |-> clock + ClaimTtl]]
                      ELSE lastCounter
    /\ UNCHANGED <<attempts, lost>>

\* sweep(): addresses by the minute, devices by the window.
PastWindow(w) == w < Window(clock)          \* mutation: one window too many
OldWindow(w) == w < Window(clock) - 1
OldMinute(m) == m < clock \div Minute
Outdated(k) == IF k[1] = "ip" THEN OldMinute(k[3]) ELSE OldWindow(k[3])

SweepMemory ==
    /\ attempts' = Restrict(attempts, {k \in DOMAIN attempts : ~Outdated(k)})
    /\ lastCounter' = [d \in Device |->
                         IF lastCounter[d].until =< clock THEN Unused ELSE lastCounter[d]]
    /\ UNCHANGED <<vars, alerter, lost>>

\* Everything is lost when the process restarts.
StartEmpty ==
    /\ attempts' = [k \in {} |-> 0]
    /\ lastCounter' = [d \in Device |-> Unused]
    /\ lost' = TRUE

MemoryNext ==
    \/ \E r \in Request, ip \in Ip, d \in Device, code \in Code \cup {Malformed} :
          Post(r, ip, d, code) /\ Quiet /\ UNCHANGED memory
    \/ \E r \in Request :
          \/ AllowIp(r) /\ Report(r) /\ Bump(IpKey(req[r].ip, req[r].at))
          \/ AllowDevice(r) /\ Report(r) /\ Bump(DeviceKey(req[r].device, Window(req[r].at)))
          \/ Claim(r) /\ Report(r) /\ ClaimInMemory(req[r].device, req[r].counter)
          \/ /\ Verify(r) \/ VerifierRefuses(r) \/ CreateSession(r) \/ GiveUp(r) \/ Lose(r)
             /\ Report(r) /\ UNCHANGED memory
    \/ Crash /\ Restart /\ StartEmpty
    \/ Tick /\ Quiet /\ UNCHANGED memory
    \/ Terminating /\ Quiet /\ UNCHANGED memory
    \/ Sweep /\ UNCHANGED memory
    \/ SweepMemory

MemorySpec == MemoryInit /\ [][MemoryNext]_<<vars, alerter, memory>>

-----------------------------------------------------------------------------
(* Properties.                                                             *)

\* Until a restart, the stores agree on every call that can still come: what is
\* left of a budget in the minute of an address and in the window of a device,
\* and whether a counter may be claimed, however late the sweep runs and the
\* keys of Redis expire (memory.js:27-46, 72-87, redis.js:17-28, 68-81).
StoresAgree ==
    ~lost =>
        \A r \in Request :
            LET ip == IpKey(req[r].ip, clock)
                device == DeviceKey(req[r].device, Window(req[r].at))
            IN  /\ req[r].pc = "ip" =>
                       Allowed(Count(ip) + 1, IpAttempts) = Allowed(CountInMemory(ip) + 1, IpAttempts)
                /\ req[r].pc = "device" =>
                       Allowed(Count(device) + 1, Attempts) = Allowed(CountInMemory(device) + 1, Attempts)
                /\ req[r].pc = "claim" =>
                       Newer(req[r].device, req[r].counter) = NewerInMemory(req[r].device, req[r].counter)
=============================================================================
