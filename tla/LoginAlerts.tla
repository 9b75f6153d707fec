----------------------------- MODULE LoginAlerts -----------------------------
(***************************************************************************)
(* The login pipeline with the alerts it raises (auth-web/src/alerts.js).  *)
(* A handler that refuses an attempt counts it or raises an alert in the   *)
(* same turn, so what Login says of the request and what this module says  *)
(* of the alerter are one step.  The alerter lives in memory: a crash      *)
(* forgets it.                                                             *)
(***************************************************************************)
EXTENDS Login, Sequences

CONSTANTS
    Hour,               \* ticks in an hour
    FailuresPerHour,    \* failuresPerHour
    GlobalPerHour       \* GLOBAL_PER_HOUR

ASSUME AlertAssumption == {Hour, FailuresPerHour, GlobalPerHour} \subseteq Nat \ {0}

VARIABLES
    failures,       \* failures[d]: the hour of the last failure and how many it had
    lastAlert,      \* lastAlert[k, d]: the hour of the last alert of kind k
    global,         \* globalHour and globalCount
    raised,         \* history: the alerts this process has raised
    failedIn        \* history: the hour in which this process saw r fail

alerter == <<failures, lastAlert, global, raised, failedIn>>

Kind == {"budget-exhausted", "repeated-failures"}
Never == -1
HourOf(t) == t \div Hour
NoFailures == [hour |-> Never, count |-> 0]

Empty ==
    /\ failures = [d \in Device |-> NoFailures]
    /\ lastAlert = [x \in Kind \X Device |-> Never]
    /\ global = [hour |-> Never, count |-> 0]
    /\ raised = <<>>
    /\ failedIn = [r \in Request |-> Never]

Quiet == UNCHANGED alerter

TooManyByOne(n) == n > GlobalPerHour    \* mutation: off by one
TooMany(n) == n >= GlobalPerHour

\* alert(): once per kind, device and hour, and within the cap of the hour.
Alert(kind, d) ==
    LET h == HourOf(clock)
        counted == IF global.hour = h THEN global.count ELSE 0
    IN  IF lastAlert[kind, d] = h THEN UNCHANGED <<lastAlert, global, raised>>
        ELSE \/ /\ TooMany(counted)
                /\ global' = [hour |-> h, count |-> counted]
                /\ UNCHANGED <<lastAlert, raised>>
             \/ /\ ~TooMany(counted)
                /\ global' = [hour |-> h, count |-> counted + 1]
                /\ lastAlert' = [lastAlert EXCEPT ![<<kind, d>>] = h]
                /\ raised' = Append(raised, [kind |-> kind, device |-> d, hour |-> h])

\* failure(): the count starts again in each hour.
Failure(d) ==
    LET h == HourOf(clock)
        n == (IF failures[d].hour = h THEN failures[d].count ELSE 0) + 1
    IN  /\ failures' = [failures EXCEPT ![d] = [hour |-> h, count |-> n]]
        /\ \/ n >= FailuresPerHour /\ Alert("repeated-failures", d)
           \/ n < FailuresPerHour /\ UNCHANGED <<lastAlert, global, raised>>

\* What the handler of r tells the alerter in the step that ends it.
Report(r) ==
    LET d == req[r].device
        outcome == IF req'[r].pc = req[r].pc THEN "same" ELSE req'[r].pc
    IN  \/ outcome = "exhausted" /\ Alert("budget-exhausted", d) /\ UNCHANGED <<failures, failedIn>>
        \/ /\ outcome \in {"rejected", "replayed"}
           /\ Failure(d)
           /\ failedIn' = [failedIn EXCEPT ![r] = HourOf(clock)]
        \/ outcome \notin {"exhausted", "rejected", "replayed"} /\ Quiet

\* sweep(), every minute: what belongs to an earlier hour goes.
OldOrCurrent(hour) == hour # Never /\ hour =< HourOf(clock)
                                        \* mutation: off by one
Old(hour) == hour # Never /\ hour < HourOf(clock)

Sweep ==
    /\ failures' = [d \in Device |-> IF Old(failures[d].hour) THEN NoFailures ELSE failures[d]]
    /\ lastAlert' = [x \in Kind \X Device |-> IF Old(lastAlert[x]) THEN Never ELSE lastAlert[x]]
    /\ UNCHANGED <<vars, global, raised, failedIn>>

Restart ==
    /\ failures' = [d \in Device |-> NoFailures]
    /\ lastAlert' = [x \in Kind \X Device |-> Never]
    /\ global' = [hour |-> Never, count |-> 0]
    /\ raised' = <<>>
    /\ failedIn' = [r \in Request |-> Never]

AlertingInit == Init /\ Empty

AlertingNext ==
    \/ \E r \in Request, ip \in Ip, d \in Device, code \in Code \cup {Malformed} :
          Post(r, ip, d, code) /\ Quiet
    \/ \E r \in Request : Handle(r) /\ Report(r)
    \/ Crash /\ Restart
    \/ Tick /\ Quiet
    \/ Terminating /\ Quiet
    \/ Sweep

AlertingSpec == AlertingInit /\ [][AlertingNext]_<<vars, alerter>>

-----------------------------------------------------------------------------
(* Properties.                                                             *)

RaisedIn(h) == {i \in DOMAIN raised : raised[i].hour = h}

\* A flood of failures, over devices and kinds, makes no more alerts in an hour
\* than the cap, and never the same one twice (alerts.js:8-10, 31-36).
AlertsCapped ==
    /\ \A i \in DOMAIN raised : Cardinality(RaisedIn(raised[i].hour)) =< GlobalPerHour
    /\ \A i, j \in DOMAIN raised : i # j => raised[i] # raised[j]

FailedNow(d) == {r \in Request : req[r].device = d /\ failedIn[r] = HourOf(clock)}

\* A device that is being guessed at is not passed over: as many failures in one
\* hour as are worth an alert have raised it, unless the cap of the hour is
\* used up, whenever the sweep runs (alerts.js:21-25, 53-59).
GuessingIsNoticed ==
    \A d \in Device :
        Cardinality(FailedNow(d)) >= FailuresPerHour =>
            \/ \E i \in DOMAIN raised :
                  raised[i] = [kind |-> "repeated-failures", device |-> d, hour |-> HourOf(clock)]
            \/ Cardinality(RaisedIn(HourOf(clock))) >= GlobalPerHour
=============================================================================
