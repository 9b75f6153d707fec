----------------------------- MODULE AdminProofs -----------------------------
(***************************************************************************)
(* Proofs about Admin: its types, that keys stay, that the daemon gets on  *)
(* with its commands, that the dashboard is right about what it says was   *)
(* done or not done, and that only a race takes the last admin.            *)
(***************************************************************************)
EXTENDS Admin, FiniteSetTheorems, SequenceTheorems, TLAPS

-----------------------------------------------------------------------------
(* The inductive invariant.                                                *)

Op == {Nothing, "list", "add", "revoke", "activate", "label"}
Outcomes == {Nothing, "ok", "no", "error", "last", "malformed", "unreachable"}
Answer == [is : {Nothing, "LIST", "OK", "NO", "ERR", "EOF"}, admins : 0 .. Cardinality(Admins)]

Handler == [pc : Asking \cup {"idle", "page", "done"}, command : Commands \cup {NoCommand},
            reply : Answer, outcome : Outcomes]
Job == [pc : {"idle", "draw", "insert", "reply"}, from : Request \cup {Nothing},
        command : [op : Op, id : Id \cup {Nothing}, label : Label \cup {Nothing}],
        id : Id \cup {Nothing}, tries : 0 .. MaxTries - 1, reply : Answer]
Run == [pc : {"idle", "draw", "insert", "header", "undo", "revoked it"},
        id : Id \cup {Nothing}, tries : 0 .. MaxTries - 1]

HandlerOK(h) ==
    /\ h.reply.is = "LIST" => h.pc = "check"
    /\ h.reply.is \in {"OK", "NO"} => h.pc = "write"
    /\ h.pc \in Asking \cup {"idle"} => h.outcome = Nothing
    /\ h.pc = "idle" => h.reply = NoReply
    /\ h.pc = "check" => h.command \in Commands /\ h.command.op = "revoke" /\ IsAdmin(h.command.id)

JobOK(j) ==
    /\ j.pc # "idle" => j.from \in Request /\ j.command.op # Nothing
    /\ j.pc \in {"draw", "insert"} => j.command.op = "add" /\ j.command.label \in Label /\ j.reply.is = Nothing
    /\ j.pc = "insert" => j.id \in Id
    /\ j.reply.is = "LIST" => j.command.op = "list"
    /\ j.reply.is \in {"OK", "NO"} => j.command.op # "list"

RunOK(t) == t.pc \in {"insert", "header", "undo"} => t.id \in Id

Typed ==
    /\ KeystoreOK
    /\ req \in [Request -> Handler] /\ \A r \in Request : HandlerOK(req[r])
    /\ queue \in Seq([from : Request, command : Commands])
    /\ daemon \in Job /\ JobOK(daemon)
    /\ tool \in Run /\ RunOK(tool)
    /\ effect \in [Request -> {Nothing, "done", "changed"}]
    /\ current \subseteq Request

\* A request has two commands at most: a list, and one that writes.
SameKind(op1, op2) == op1 = "list" <=> op2 = "list"

\* Handler h has sent a command of the kind of op, and has heard nothing of it.
Open(h, op) ==
    IF op = "list"
    THEN h.pc # "idle" /\ (h.pc = "check" => h.reply = NoReply)
    ELSE /\ h.pc \in {"write", "page", "done"} /\ h.reply = NoReply
         /\ h.outcome \notin {"ok", "no", "last", "malformed"}

\* Each command is sent once: it waits, or is served, or is over.
InOrder ==
    /\ \A i, j \in 1 .. Len(queue) :
          i # j /\ queue[i].from = queue[j].from => ~SameKind(queue[i].command.op, queue[j].command.op)
    /\ \A i \in 1 .. Len(queue) :
          daemon.pc # "idle" /\ queue[i].from = daemon.from
              => ~SameKind(queue[i].command.op, daemon.command.op)
    /\ \A i \in 1 .. Len(queue) :
          /\ Open(req[queue[i].from], queue[i].command.op)
          /\ queue[i].command.op # "list" => effect[queue[i].from] = Nothing
    /\ daemon.pc # "idle" => Open(req[daemon.from], daemon.command.op)

\* What is said of a command, on its way to the dashboard and there, is true.
Truthful ==
    /\ daemon.pc \in {"draw", "insert"} => effect[daemon.from] = Nothing
    /\ daemon.pc = "reply" /\ daemon.reply.is = "OK" => effect[daemon.from] # Nothing
    /\ daemon.pc = "reply" /\ daemon.reply.is = "NO" => effect[daemon.from] = Nothing
    /\ \A r \in Request :
          /\ req[r].reply.is = "OK" \/ req[r].outcome = "ok" => effect[r] # Nothing
          /\ \/ req[r].reply.is = "NO" \/ req[r].outcome \in {"no", "last", "malformed"}
             \/ req[r].pc \in {"idle", "check"}
             => effect[r] = Nothing

\* A list that is current says how many active admins there are, and a command
\* sent after it that revokes an admin finds another one.
Current ==
    /\ daemon.pc = "reply" /\ daemon.reply.is = "LIST" /\ daemon.from \in current
          => daemon.reply.admins = Cardinality(ActiveAdmins)
    /\ \A r \in current :
          req[r].reply.is = "LIST" => req[r].reply.admins = Cardinality(ActiveAdmins)
    /\ \A i \in 1 .. Len(queue) :
          queue[i].command.op = "revoke" /\ IsAdmin(queue[i].command.id) /\ queue[i].from \in current
              => Cardinality(ActiveAdmins) > 1

Inv == Typed /\ InOrder /\ Truthful /\ Current

-----------------------------------------------------------------------------
(* The data.                                                               *)

LEMMA Givens ==
    /\ Admins \subseteq Id /\ IsFiniteSet(Admins) /\ Initial \subseteq Id
    /\ Request \subseteq Key /\ Initial \subseteq Key /\ Tool \in Key
    /\ Nothing \notin Key /\ Nothing \notin Id /\ Nothing \notin Label /\ Nothing \notin Request
    /\ MaxTries \in Nat \ {0}
BY AdminAssumption

LEMMA CommandFields ==
    ASSUME NEW c \in Commands
    PROVE  /\ c.op \in Op \ {Nothing} /\ (c = List <=> c.op = "list")
           /\ c.id \in Id \cup {Nothing} /\ c.label \in Label \cup {Nothing}
           /\ c.op \in {"revoke", "activate", "label"} => c.id \in Id
           /\ c.op \in {"add", "label"} => c.label \in Label
<1>1. List.op = "list" /\ List.id = Nothing /\ List.label = Nothing
  BY DEF List, NoCommand
<1>2. CASE c = List
  BY <1>1, <1>2 DEF Op, Nothing
<1>3. CASE c \in [op : {"add"}, id : {Nothing}, label : Label]
  BY <1>1, <1>3 DEF Op, Nothing
<1>4. CASE c \in [op : {"revoke", "activate"}, id : Id, label : {Nothing}]
  BY <1>1, <1>4 DEF Op, Nothing
<1>5. CASE c \in [op : {"label"}, id : Id, label : Label]
  BY <1>1, <1>5 DEF Op, Nothing
<1>6. QED BY <1>2, <1>3, <1>4, <1>5 DEF Commands

LEMMA NoReplyFields == NoReply \in Answer /\ NoReply.is = Nothing
<1>1. Cardinality(Admins) \in Nat
  BY Givens, FS_CardinalityType
<1>2. QED BY <1>1 DEF NoReply, Answer

LEMMA SaysFields ==
    ASSUME NEW word \in {"OK", "NO", "ERR", "EOF"}
    PROVE  Says(word) \in Answer /\ Says(word).is = word
<1>1. Cardinality(Admins) \in Nat
  BY Givens, FS_CardinalityType
<1>2. QED BY <1>1 DEF Says, Answer

\* The admins on a list can be counted.
LEMMA Countable ==
    /\ IsFiniteSet(ActiveAdmins) /\ ActiveAdmins \subseteq Admins
    /\ Cardinality(ActiveAdmins) \in 0 .. Cardinality(Admins)
<1>1. ActiveAdmins \subseteq Admins /\ IsFiniteSet(Admins)
  BY Givens DEF ActiveAdmins
<1>2. /\ IsFiniteSet(ActiveAdmins) /\ Cardinality(ActiveAdmins) =< Cardinality(Admins)
      /\ Cardinality(Admins) \in Nat
  BY <1>1, FS_Subset, FS_CardinalityType
<1>3. Cardinality(ActiveAdmins) \in Nat
  BY <1>2, FS_CardinalityType
<1>4. QED BY <1>1, <1>2, <1>3

\* The fields of a handler that goes on to its next step.
LEMMA WentOn ==
    ASSUME NEW step \in {"write", "page", "done"}, NEW outcome \in Outcomes,
           step = "write" => outcome = Nothing
    PROVE  LET u == [Unsent EXCEPT !.pc = step, !.outcome = outcome]
           IN  /\ u \in Handler /\ HandlerOK(u)
               /\ u.pc = step /\ u.outcome = outcome /\ u.reply = NoReply
<1> DEFINE u == [Unsent EXCEPT !.pc = step, !.outcome = outcome]
<1>1. u.pc = step /\ u.outcome = outcome /\ u.reply = NoReply /\ u.command = NoCommand
  BY DEF Unsent
<1>2. Unsent \in Handler
  BY NoReplyFields DEF Unsent, Handler, Asking, Outcomes
<1>3. u \in Handler
  BY <1>2 DEF Handler, Asking
<1> HIDE DEF u
<1>4. HandlerOK(u)
  BY <1>1, NoReplyFields DEF HandlerOK, Asking, Nothing
<1>5. QED BY <1>1, <1>3, <1>4 DEF u

\* The fields of a job that is about to reply.
LEMMA ReplyingFields ==
    ASSUME NEW r \in Request, NEW op \in Op \ {Nothing}, NEW reply \in Answer,
           reply.is = "LIST" => op = "list", reply.is \in {"OK", "NO"} => op # "list",
           Replying(r, op, reply)
    PROVE  /\ daemon' \in Job /\ JobOK(daemon') /\ daemon'.pc = "reply" /\ daemon'.from = r
           /\ daemon'.command.op = op /\ daemon'.reply = reply
<1> DEFINE k == [NoCommand EXCEPT !.op = op]
           u == [NoJob EXCEPT !.pc = "reply", !.from = r, !.reply = reply, !.command = k]
<1>1. daemon' = u
  BY DEF Replying
<1>2. k \in [op : Op, id : Id \cup {Nothing}, label : Label \cup {Nothing}] /\ k.op = op
  BY DEF NoCommand, Op
<1> HIDE DEF k
<1>3. NoJob \in Job
  BY Givens, NoReplyFields DEF NoJob, Job, NoCommand, Op
<1>4. u \in Job
  BY <1>2, <1>3 DEF Job
<1>5. u.pc = "reply" /\ u.from = r /\ u.command = k /\ u.reply = reply
  BY DEF NoJob
<1> HIDE DEF u
<1>6. JobOK(u)
  BY <1>2, <1>5 DEF JobOK, Op
<1>7. QED BY <1>1, <1>2, <1>4, <1>5, <1>6

\* A command that waits.
LEMMA Queued ==
    ASSUME Typed, NEW i \in 1 .. Len(queue)
    PROVE  /\ queue[i].from \in Request /\ queue[i].command \in Commands
           /\ queue[i].command.op \in Op \ {Nothing}
<1>1. queue \in Seq([from : Request, command : Commands])
  BY DEF Typed
<1>2. queue[i] \in [from : Request, command : Commands]
  BY <1>1, ElementOfSeq
<1>3. queue[i].from \in Request /\ queue[i].command \in Commands
  BY <1>2
<1>4. QED BY <1>3, CommandFields

-----------------------------------------------------------------------------
(* The keystore.                                                           *)

\* An UPDATE keeps the keys; one of a note keeps the statuses too.
LEMMA StatusKeeps ==
    ASSUME KeystoreOK, NEW id \in Id, NEW status \in {"active", "revoked"}, SetDeviceStatus(id, status)
    PROVE  /\ KeystoreOK'
           /\ \A i \in Id : Found(i) => keystore'[i].key = keystore[i].key
           /\ \A i \in Id \ {id} : keystore'[i] = keystore[i]
BY DEF KeystoreOK, SetDeviceStatus, Found, Row, NoRow, Nothing

LEMMA NoteKeeps ==
    ASSUME KeystoreOK, NEW id \in Id, NEW label \in Label, SetDeviceNote(id, label)
    PROVE  /\ KeystoreOK'
           /\ \A i \in Id : keystore'[i].key = keystore[i].key
           /\ \A i \in Id : keystore'[i].status = keystore[i].status
BY DEF KeystoreOK, SetDeviceNote, Found, Row, NoRow, Nothing

\* An INSERT touches no row.
LEMMA AddKeeps ==
    ASSUME KeystoreOK, NEW id \in Id, NEW key \in Key, NEW label \in Label, AddDevice(id, key, label)
    PROVE  /\ KeystoreOK'
           /\ \A i \in Id : Found(i) => keystore'[i].key = keystore[i].key
BY DEF KeystoreOK, AddDevice, Conflict, Found, Row, NoRow, Nothing

LEMMA SameAdmins ==
    ASSUME keystore' = keystore \/ \A i \in Id : keystore'[i].status = keystore[i].status
    PROVE  ActiveAdmins' = ActiveAdmins
BY Givens DEF ActiveAdmins, Active

-----------------------------------------------------------------------------
(* The steps of a handler.                                                 *)

\* What is open stays open, when handler r goes from h to u.
Keeps(h, u) == \A op \in Op : Open(h, op) => Open(u, op)

\* What handler u of request r says is true.
IsTrue(u, r) ==
    /\ u.reply.is = "OK" \/ u.outcome = "ok" => effect[r] # Nothing
    /\ u.reply.is = "NO" \/ u.outcome \in {"no", "last", "malformed"} \/ u.pc \in {"idle", "check"}
         => effect[r] = Nothing

\* A handler that goes on without a command.
LEMMA HandlerStep ==
    ASSUME Inv, NEW r \in Request, NEW u \in Handler, HandlerOK(u),
           req' = [req EXCEPT ![r] = u], Keeps(req[r], u), IsTrue(u, r), u.reply.is # "LIST",
           current' \subseteq current, UNCHANGED <<keystore, queue, daemon, tool, effect>>
    PROVE  Inv'
<1>1. Typed'
  BY DEF Inv, Typed, KeystoreOK
<1>2. \A q \in Request : req'[q] = IF q = r THEN u ELSE req[q]
  BY DEF Inv, Typed
<1>3. \A q \in Request, op \in Op : Open(req[q], op) => Open(req'[q], op)
  BY <1>2 DEF Keeps
<1>4. \A i \in 1 .. Len(queue) : queue[i].from \in Request /\ queue[i].command.op \in Op
  BY Queued DEF Inv
<1>5. daemon.pc # "idle" => daemon.from \in Request /\ daemon.command.op \in Op
  BY DEF Inv, Typed, JobOK, Job
<1>6. InOrder'
  BY <1>3, <1>4, <1>5 DEF Inv, InOrder
<1>7. Truthful'
  BY <1>2 DEF Inv, Truthful, IsTrue
<1>8. ActiveAdmins' = ActiveAdmins
  BY SameAdmins
<1>9. Current'
  BY <1>2, <1>8 DEF Inv, Typed, Current
<1>10. QED BY <1>1, <1>6, <1>7, <1>9 DEF Inv

\* A handler that sends command c.
LEMMA HandlerAsks ==
    ASSUME Inv, NEW r \in Request, NEW u \in Handler, NEW c \in Commands, HandlerOK(u),
           req' = [req EXCEPT ![r] = u], Ask(r, c), Keeps(req[r], u), IsTrue(u, r), u.reply.is # "LIST",
           Open(u, c.op), effect[r] = Nothing,
           \A op \in Op \ {Nothing} : SameKind(op, c.op) => ~Open(req[r], op),
           c.op = "revoke" /\ IsAdmin(c.id) /\ r \in current => Cardinality(ActiveAdmins) > 1,
           UNCHANGED <<keystore, daemon, tool, effect, current>>
    PROVE  Inv'
<1> DEFINE e == [from |-> r, command |-> c]
           n == Len(queue)
<1>1. e \in [from : Request, command : Commands] /\ e.from = r /\ e.command = c
  OBVIOUS
<1>2. queue \in Seq([from : Request, command : Commands])
  BY DEF Inv, Typed
<1>3. queue' = Append(queue, e)
  BY DEF Ask
<1> HIDE DEF e
<1>4. /\ queue' \in Seq([from : Request, command : Commands]) /\ n \in Nat /\ Len(queue') = n + 1
      /\ \A i \in 1 .. n : queue'[i] = queue[i]
      /\ queue'[n + 1] = e
  BY <1>1, <1>2, <1>3, AppendProperties, LenProperties
<1>5. Typed'
  BY <1>4 DEF Inv, Typed, KeystoreOK
<1>6. \A q \in Request : req'[q] = IF q = r THEN u ELSE req[q]
  BY DEF Inv, Typed
<1>7. \A q \in Request, op \in Op : Open(req[q], op) => Open(req'[q], op)
  BY <1>6 DEF Keeps
<1>8. \A i \in 1 .. n : queue[i].from \in Request /\ queue[i].command.op \in Op \ {Nothing}
  BY Queued DEF Inv
<1>9. daemon.pc # "idle" => daemon.from \in Request /\ daemon.command.op \in Op \ {Nothing}
  BY DEF Inv, Typed, JobOK, Job
<1>10. \A i \in 1 .. n : queue[i].from = r => ~SameKind(queue[i].command.op, c.op)
  BY <1>8 DEF Inv, InOrder
<1>11. daemon.pc # "idle" /\ daemon.from = r => ~SameKind(c.op, daemon.command.op)
  BY <1>9 DEF Inv, InOrder, SameKind
<1>12. InOrder'
  <2>1. \A i, j \in 1 .. Len(queue') :
           i # j /\ queue'[i].from = queue'[j].from
             => ~SameKind(queue'[i].command.op, queue'[j].command.op)
    <3> SUFFICES ASSUME NEW i \in 1 .. n + 1, NEW j \in 1 .. n + 1, i # j, queue'[i].from = queue'[j].from
                 PROVE  ~SameKind(queue'[i].command.op, queue'[j].command.op)
      BY <1>4
    <3>1. CASE i \in 1 .. n /\ j \in 1 .. n
      BY <1>4, <3>1 DEF Inv, InOrder
    <3>2. CASE i = n + 1 /\ j \in 1 .. n
      BY <1>1, <1>4, <1>10, <3>2 DEF SameKind
    <3>3. CASE i \in 1 .. n /\ j = n + 1
      BY <1>1, <1>4, <1>10, <3>3
    <3>4. QED BY <1>4, <3>1, <3>2, <3>3
  <2>2. \A i \in 1 .. Len(queue') :
           daemon.pc # "idle" /\ queue'[i].from = daemon.from
             => ~SameKind(queue'[i].command.op, daemon.command.op)
    <3> SUFFICES ASSUME NEW i \in 1 .. n + 1, daemon.pc # "idle", queue'[i].from = daemon.from
                 PROVE  ~SameKind(queue'[i].command.op, daemon.command.op)
      BY <1>4
    <3>1. CASE i \in 1 .. n
      BY <1>4, <3>1 DEF Inv, InOrder
    <3>2. CASE i = n + 1
      BY <1>1, <1>4, <1>11, <3>2
    <3>3. QED BY <1>4, <3>1, <3>2
  <2>3. \A i \in 1 .. Len(queue') :
           /\ Open(req'[queue'[i].from], queue'[i].command.op)
           /\ queue'[i].command.op # "list" => effect[queue'[i].from] = Nothing
    <3> SUFFICES ASSUME NEW i \in 1 .. n + 1
                 PROVE  /\ Open(req'[queue'[i].from], queue'[i].command.op)
                        /\ queue'[i].command.op # "list" => effect[queue'[i].from] = Nothing
      BY <1>4
    <3>1. CASE i \in 1 .. n
      BY <1>4, <1>7, <1>8, <3>1 DEF Inv, InOrder
    <3>2. CASE i = n + 1
      BY <1>1, <1>4, <1>6, <3>2
    <3>3. QED BY <1>4, <3>1, <3>2
  <2>4. daemon.pc # "idle" => Open(req'[daemon.from], daemon.command.op)
    BY <1>7, <1>9 DEF Inv, InOrder
  <2>5. QED BY <2>1, <2>2, <2>3, <2>4 DEF InOrder
<1>13. Truthful'
  BY <1>6 DEF Inv, Truthful, IsTrue
<1>14. ActiveAdmins' = ActiveAdmins
  BY SameAdmins
<1>15. Current'
  <2>1. \A i \in 1 .. Len(queue') :
           queue'[i].command.op = "revoke" /\ IsAdmin(queue'[i].command.id) /\ queue'[i].from \in current
             => Cardinality(ActiveAdmins) > 1
    <3> SUFFICES ASSUME NEW i \in 1 .. n + 1, queue'[i].command.op = "revoke",
                        IsAdmin(queue'[i].command.id), queue'[i].from \in current
                 PROVE  Cardinality(ActiveAdmins) > 1
      BY <1>4
    <3>1. CASE i \in 1 .. n
      BY <1>4, <3>1 DEF Inv, Current
    <3>2. CASE i = n + 1
      BY <1>1, <1>4, <3>2
    <3>3. QED BY <1>4, <3>1, <3>2
  <2>2. \A q \in current : req'[q].reply.is = "LIST" => req'[q].reply.admins = Cardinality(ActiveAdmins)
    BY <1>6 DEF Inv, Typed, Current
  <2>3. QED BY <1>14, <2>1, <2>2 DEF Inv, Current, IsAdmin
<1>16. QED BY <1>5, <1>12, <1>13, <1>15 DEF Inv

LEMMA Refused ==
    ASSUME Inv, NEW r \in Request, Refuse(r)
    PROVE  Inv'
<1>1. PICK outcome \in {"no", "malformed"} : GoOn(r, "page", outcome)
  BY DEF Refuse
<1> outcome \in Outcomes
  BY DEF Outcomes
<1> DEFINE u == [Unsent EXCEPT !.pc = "page", !.outcome = outcome]
<1>2. /\ u \in Handler /\ HandlerOK(u)
      /\ u.pc = "page" /\ u.outcome = outcome /\ u.reply = NoReply
  BY WentOn
<1>3. req' = [req EXCEPT ![r] = u]
  BY <1>1 DEF GoOn
<1> HIDE DEF u
<1>4. req[r].pc = "idle" /\ effect[r] = Nothing
  BY DEF Refuse, Inv, Truthful
<1>5. Keeps(req[r], u)
  BY <1>4 DEF Keeps, Open
<1>6. IsTrue(u, r) /\ u.reply.is # "LIST"
  BY <1>2, <1>4, NoReplyFields DEF IsTrue, Nothing
<1>7. QED BY <1>2, <1>3, <1>5, <1>6, HandlerStep DEF Refuse

LEMMA Posted ==
    ASSUME Inv, NEW r \in Request, NEW command \in Commands, Post(r, command)
    PROVE  Inv'
<1> DEFINE h == req[r]
<1>1. h \in Handler /\ HandlerOK(h) /\ h.pc = "idle" /\ h.reply = NoReply /\ h.outcome = Nothing
      /\ effect[r] = Nothing
  BY DEF Inv, Typed, HandlerOK, Truthful, Post
<1>2. \A op \in Op : ~Open(h, op)
  BY <1>1 DEF Open
<1>3. List \in Commands /\ List.op = "list"
  BY CommandFields DEF Commands
<1>4. UNCHANGED <<keystore, daemon, tool, effect, current>>
  BY DEF Post
<1>5. CASE /\ command.op = "revoke" /\ IsAdmin(command.id)
           /\ req' = [req EXCEPT ![r] = [@ EXCEPT !.pc = "check", !.command = command]]
           /\ Ask(r, List)
  <2> DEFINE u == [h EXCEPT !.pc = "check", !.command = command]
  <2>1. u \in Handler
    BY <1>1 DEF Handler, Asking
  <2>2. u.pc = "check" /\ u.command = command /\ u.reply = NoReply /\ u.outcome = Nothing
    BY <1>1 DEF Handler
  <2>3. req' = [req EXCEPT ![r] = u]
    BY <1>5
  <2> HIDE DEF u
  <2>4. HandlerOK(u)
    BY <1>5, <2>2, NoReplyFields DEF HandlerOK, Nothing
  <2>5. Open(u, List.op) /\ Keeps(h, u)
    BY <1>2, <1>3, <2>2 DEF Open, Keeps
  <2>6. IsTrue(u, r) /\ u.reply.is # "LIST"
    BY <1>1, <2>2, NoReplyFields DEF IsTrue, Nothing
  <2>7. QED BY <1>1, <1>2, <1>3, <1>4, <1>5, <2>1, <2>3, <2>4, <2>5, <2>6, HandlerAsks
<1>6. CASE /\ command # List /\ ~(command.op = "revoke" /\ IsAdmin(command.id))
           /\ req' = [req EXCEPT ![r] = [@ EXCEPT !.pc = "write"]]
           /\ Ask(r, command)
  <2> DEFINE u == [h EXCEPT !.pc = "write"]
  <2>1. u \in Handler
    BY <1>1 DEF Handler, Asking
  <2>2. u.pc = "write" /\ u.reply = NoReply /\ u.outcome = Nothing
    BY <1>1 DEF Handler
  <2>3. req' = [req EXCEPT ![r] = u]
    BY <1>6
  <2> HIDE DEF u
  <2>4. HandlerOK(u)
    BY <2>2, NoReplyFields DEF HandlerOK, Nothing, Asking
  <2>5. Open(u, command.op) /\ Keeps(h, u)
    BY <1>2, <1>6, <2>2, CommandFields DEF Open, Keeps, Nothing
  <2>6. IsTrue(u, r) /\ u.reply.is # "LIST"
    BY <1>1, <2>2, NoReplyFields DEF IsTrue, Nothing
  <2>7. QED BY <1>1, <1>2, <1>4, <1>6, <2>1, <2>3, <2>4, <2>5, <2>6, HandlerAsks
<1>7. QED BY <1>5, <1>6 DEF Post

\* A handler resumes with the reply it was sent, or with none.
LEMMA Resumed ==
    ASSUME Inv, NEW r \in Request, NEW reply \in {NoReply, req[r].reply}, Resume(r, reply),
           UNCHANGED <<keystore, daemon, tool, effect>>
    PROVE  Inv'
<1> DEFINE h == req[r]
<1>1. h \in Handler /\ HandlerOK(h)
  BY DEF Inv, Typed
<1>2. /\ reply.is = "OK" => effect[r] # Nothing
      /\ reply.is = "NO" \/ h.pc = "check" => effect[r] = Nothing
      /\ reply.is = "LIST" /\ r \in current => reply.admins = Cardinality(ActiveAdmins)
  BY NoReplyFields DEF Inv, Truthful, Current, Nothing
<1>3. CASE /\ h.pc = "check" /\ GoOn(r, "page", "last") /\ queue' = queue /\ current' = current \ {r}
  <2> DEFINE u == [Unsent EXCEPT !.pc = "page", !.outcome = "last"]
  <2>1. /\ u \in Handler /\ HandlerOK(u)
        /\ u.pc = "page" /\ u.outcome = "last" /\ u.reply = NoReply
    BY WentOn DEF Outcomes
  <2>2. req' = [req EXCEPT ![r] = u]
    BY <1>3 DEF GoOn
  <2> HIDE DEF u
  <2>3. Keeps(h, u)
    BY <1>3, <2>1 DEF Keeps, Open
  <2>4. IsTrue(u, r) /\ u.reply.is # "LIST"
    BY <1>2, <1>3, <2>1, NoReplyFields DEF IsTrue, Nothing
  <2>5. QED BY <1>3, <2>1, <2>2, <2>3, <2>4, HandlerStep
<1>4. CASE /\ h.pc = "check" /\ reply.is = "LIST" /\ ~LastAdmin(reply.admins)
           /\ GoOn(r, "write", Nothing) /\ Ask(r, h.command) /\ current' = current
  <2> DEFINE u == [Unsent EXCEPT !.pc = "write", !.outcome = Nothing]
  <2>1. /\ u \in Handler /\ HandlerOK(u)
        /\ u.pc = "write" /\ u.outcome = Nothing /\ u.reply = NoReply
    BY WentOn DEF Outcomes
  <2>2. req' = [req EXCEPT ![r] = u]
    BY <1>4 DEF GoOn
  <2> HIDE DEF u
  <2>3. h.command \in Commands /\ h.command.op = "revoke"
    BY <1>1, <1>4 DEF HandlerOK
  <2>4. reply # NoReply /\ h.reply # NoReply
    BY <1>4, NoReplyFields DEF Nothing
  <2>5. \A op \in Op : ~Open(h, op)
    BY <1>4, <2>4 DEF Open
  <2>6. Open(u, h.command.op) /\ Keeps(h, u)
    BY <2>1, <2>3, <2>5 DEF Open, Keeps, Nothing
  <2>7. IsTrue(u, r) /\ u.reply.is # "LIST" /\ effect[r] = Nothing
    BY <1>2, <1>4, <2>1, NoReplyFields DEF IsTrue, Nothing
  <2>8. r \in current => Cardinality(ActiveAdmins) > 1
    <3>1. Cardinality(ActiveAdmins) \in Nat
      BY Countable, Givens, FS_CardinalityType
    <3>2. QED BY <1>2, <1>4, <3>1 DEF LastAdmin
  <2>9. QED BY <1>4, <2>1, <2>2, <2>3, <2>5, <2>6, <2>7, <2>8, HandlerAsks
<1>5. CASE /\ h.pc = "write" /\ GoOn(r, "page", Outcome(reply)) /\ queue' = queue /\ current' = current
  <2> DEFINE o == Outcome(reply)
             u == [Unsent EXCEPT !.pc = "page", !.outcome = o]
  <2>1. /\ o \in Outcomes /\ o \in {"ok", "no", "error"}
        /\ o = "ok" => reply.is = "OK"
        /\ o = "no" => reply.is = "NO"
        /\ reply = NoReply => o = "error"
    BY NoReplyFields DEF Outcome, Outcomes, Nothing
  <2> HIDE DEF o
  <2>2. /\ u \in Handler /\ HandlerOK(u)
        /\ u.pc = "page" /\ u.outcome = o /\ u.reply = NoReply
    BY <2>1, WentOn
  <2>3. req' = [req EXCEPT ![r] = u]
    BY <1>5 DEF GoOn, o
  <2> HIDE DEF u
  <2>4. Keeps(h, u)
    BY <1>5, <2>1, <2>2 DEF Keeps, Open
  <2>5. IsTrue(u, r) /\ u.reply.is # "LIST"
    BY <1>2, <2>1, <2>2, NoReplyFields DEF IsTrue, Nothing
  <2>6. QED BY <1>5, <2>2, <2>3, <2>4, <2>5, HandlerStep
<1>6. CASE AfterCheck(r, reply)
  <2>1. reply.is # "LIST" => LastAdmin(0)
    BY DEF LastAdmin
  <2>2. QED BY <1>3, <1>4, <1>6, <2>1 DEF AfterCheck
<1>7. CASE AfterWrite(r, reply)
  BY <1>5, <1>7 DEF AfterWrite
<1>8. QED BY <1>6, <1>7 DEF Resume

LEMMA Paged ==
    ASSUME Inv, NEW r \in Request, Page(r)
    PROVE  Inv'
<1>1. PICK outcome \in {req[r].outcome, "unreachable"} : GoOn(r, "done", outcome)
  BY DEF Page
<1> DEFINE h == req[r]
           u == [Unsent EXCEPT !.pc = "done", !.outcome = outcome]
<1>2. h \in Handler /\ HandlerOK(h) /\ h.pc = "page" /\ IsTrue(h, r)
  BY DEF Inv, Typed, Truthful, IsTrue, Page
<1>3. outcome \in Outcomes
  BY <1>2 DEF Handler, Outcomes
<1>4. /\ u \in Handler /\ HandlerOK(u)
      /\ u.pc = "done" /\ u.outcome = outcome /\ u.reply = NoReply
  BY <1>3, WentOn
<1>5. req' = [req EXCEPT ![r] = u]
  BY <1>1 DEF GoOn
<1> HIDE DEF u
<1>6. Keeps(h, u)
  BY <1>2, <1>4 DEF Keeps, Open
<1>7. IsTrue(u, r) /\ u.reply.is # "LIST"
  BY <1>2, <1>4, NoReplyFields DEF IsTrue, Nothing
<1>8. QED BY <1>4, <1>5, <1>6, <1>7, HandlerStep DEF Page

-----------------------------------------------------------------------------
(* The steps of the daemon.                                                *)

\* The rest of the queue.
LEMMA Rest ==
    ASSUME Typed, queue # <<>>, queue' = Tail(queue)
    PROVE  /\ 1 \in 1 .. Len(queue) /\ Head(queue) = queue[1]
           /\ queue' \in Seq([from : Request, command : Commands])
           /\ \A i \in 1 .. Len(queue') : i + 1 \in 1 .. Len(queue) /\ queue'[i] = queue[i + 1]
<1>1. queue \in Seq([from : Request, command : Commands])
  BY DEF Typed
<1>2. /\ Head(queue) = queue[1] /\ Len(queue) \in Nat \ {0}
      /\ Tail(queue) \in Seq([from : Request, command : Commands])
      /\ Len(Tail(queue)) = Len(queue) - 1
      /\ \A i \in 1 .. Len(Tail(queue)) : Tail(queue)[i] = queue[i + 1]
  BY <1>1, HeadTailProperties, EmptySeq, LenProperties
<1>3. QED BY <1>2

\* The daemon serves the first command.
LEMMA TakenInOrder ==
    ASSUME Inv, daemon.pc = "idle", queue # <<>>, queue' = Tail(queue), req' = req,
           daemon'.from = queue[1].from, daemon'.command.op = queue[1].command.op,
           \A q \in Request : effect'[q] # effect[q] =>
               q = queue[1].from /\ queue[1].command.op # "list"
    PROVE  InOrder'
<1>1. /\ 1 \in 1 .. Len(queue)
      /\ \A i \in 1 .. Len(queue') : i + 1 \in 1 .. Len(queue) /\ queue'[i] = queue[i + 1]
  BY Rest DEF Inv
<1>2. \A i \in 1 .. Len(queue') : i + 1 # 1 /\ \A j \in 1 .. Len(queue') : i # j => i + 1 # j + 1
  OBVIOUS
<1>3. \A i, j \in 1 .. Len(queue') :
         i # j /\ queue'[i].from = queue'[j].from
           => ~SameKind(queue'[i].command.op, queue'[j].command.op)
  BY <1>1, <1>2 DEF Inv, InOrder
<1>4. \A i \in 1 .. Len(queue') :
         queue'[i].from = daemon'.from => ~SameKind(queue'[i].command.op, daemon'.command.op)
  BY <1>1, <1>2 DEF Inv, InOrder
<1>5. \A i \in 1 .. Len(queue') :
         /\ queue'[i].from \in Request
         /\ Open(req[queue'[i].from], queue'[i].command.op)
         /\ queue'[i].command.op # "list" => effect[queue'[i].from] = Nothing
  BY <1>1, Queued DEF Inv, InOrder
<1>6. \A i \in 1 .. Len(queue') : queue'[i].command.op # "list" => effect'[queue'[i].from] = Nothing
  BY <1>4, <1>5 DEF SameKind
<1>7. Open(req[daemon'.from], daemon'.command.op)
  BY <1>1 DEF Inv, InOrder
<1>8. QED BY <1>3, <1>4, <1>5, <1>6, <1>7 DEF InOrder

\* The daemon goes on with the command it serves.
LEMMA GoesOnInOrder ==
    ASSUME Inv, daemon.pc # "idle", UNCHANGED <<queue, req>>,
           daemon'.from = daemon.from, daemon'.command.op = daemon.command.op,
           \A q \in Request : effect'[q] # effect[q] =>
               q = daemon.from /\ daemon.command.op # "list"
    PROVE  InOrder'
<1>1. \A i \in 1 .. Len(queue) :
         queue[i].from = daemon.from => ~SameKind(queue[i].command.op, daemon.command.op)
  BY DEF Inv, InOrder
<1>2. \A i \in 1 .. Len(queue) : queue[i].command.op # "list" => effect'[queue[i].from] = Nothing
  BY <1>1, Queued DEF Inv, InOrder, SameKind
<1>3. QED BY <1>2 DEF Inv, InOrder

\* A command is done whose sender has heard nothing of it.
LEMMA Noted ==
    ASSUME Inv, NEW r \in Request, NEW op \in Op \ {Nothing, "list"}, Open(req[r], op), Note(r), req' = req
    PROVE  /\ effect' \in [Request -> {Nothing, "done", "changed"}]
           /\ effect'[r] # Nothing /\ \A q \in Request : effect'[q] # effect[q] => q = r
           /\ \A q \in Request :
                 /\ req'[q].reply.is = "OK" \/ req'[q].outcome = "ok" => effect'[q] # Nothing
                 /\ \/ req'[q].reply.is = "NO" \/ req'[q].outcome \in {"no", "last", "malformed"}
                    \/ req'[q].pc \in {"idle", "check"}
                    => effect'[q] = Nothing
<1> DEFINE n == IF keystore' = keystore THEN "done" ELSE "changed"
<1>1. n \in {"done", "changed"} /\ effect' = [effect EXCEPT ![r] = n]
  BY DEF Note
<1> HIDE DEF n
<1>2. /\ effect' \in [Request -> {Nothing, "done", "changed"}]
      /\ effect'[r] # Nothing /\ \A q \in Request : effect'[q] # effect[q] => q = r
  BY <1>1 DEF Inv, Typed, Nothing
<1>3. /\ req[r].reply.is # "NO" /\ req[r].outcome \notin {"no", "last", "malformed"}
      /\ req[r].pc \notin {"idle", "check"}
  BY NoReplyFields DEF Open, Nothing
<1>4. QED BY <1>2, <1>3 DEF Inv, Truthful

\* What holds of a list still holds while no status changes, and no new list is made.
LEMMA StaysCurrent ==
    ASSUME Inv, req' = req, current' \subseteq current, current' = {} \/ ActiveAdmins' = ActiveAdmins,
           daemon' = daemon \/ daemon'.pc # "reply" \/ daemon'.reply.is # "LIST",
           \/ queue' = queue
           \/ queue # <<>> /\ queue' = Tail(queue)
    PROVE  Current'
<1>1. \A i \in 1 .. Len(queue') : \E j \in 1 .. Len(queue) : queue'[i] = queue[j]
  <2>1. CASE queue' = queue
    BY <2>1
  <2>2. CASE queue # <<>> /\ queue' = Tail(queue)
    BY <2>2, Rest DEF Inv
  <2>3. QED BY <2>1, <2>2
<1>2. CASE current' = {}
  BY <1>2 DEF Current
<1>3. CASE ActiveAdmins' = ActiveAdmins
  BY <1>1, <1>3 DEF Inv, Current, IsAdmin
<1>4. QED BY <1>2, <1>3

\* A command that did nothing: it failed, found no device, or has only begun.
LEMMA DidNothing ==
    ASSUME Inv, UNCHANGED <<keystore, req, tool, effect>>, current' \subseteq current,
           daemon' \in Job, JobOK(daemon'), daemon'.pc # "idle", daemon'.reply.is \notin {"OK", "LIST"},
           daemon'.pc \in {"draw", "insert"} \/ daemon'.reply.is = "NO" => effect[daemon'.from] = Nothing,
           \/ /\ daemon.pc = "idle" /\ queue # <<>> /\ queue' = Tail(queue)
              /\ daemon'.from = queue[1].from /\ daemon'.command.op = queue[1].command.op
           \/ /\ daemon.pc # "idle" /\ queue' = queue
              /\ daemon'.from = daemon.from /\ daemon'.command.op = daemon.command.op
    PROVE  Inv'
<1>1. Typed'
  BY Rest DEF Inv, Typed, KeystoreOK
<1>2. InOrder'
  BY TakenInOrder, GoesOnInOrder
<1>3. Truthful'
  BY DEF Inv, Truthful
<1>4. Current'
  <2>1. ActiveAdmins' = ActiveAdmins
    BY SameAdmins
  <2>2. daemon'.reply.is # "LIST" /\ (queue' = queue \/ (queue # <<>> /\ queue' = Tail(queue)))
    OBVIOUS
  <2>3. QED BY <2>1, <2>2, StaysCurrent
<1>5. QED BY <1>1, <1>2, <1>3, <1>4 DEF Inv

\* A command that was done.
LEMMA DidIt ==
    ASSUME Inv, UNCHANGED <<req, tool>>, KeystoreOK', NEW r \in Request, NEW op \in Op \ {Nothing, "list"},
           Open(req[r], op), Note(r), Replying(r, op, Says("OK")),
           current' \subseteq current, current' = {} \/ ActiveAdmins' = ActiveAdmins,
           \/ /\ daemon.pc = "idle" /\ queue # <<>> /\ queue' = Tail(queue)
              /\ r = queue[1].from /\ op = queue[1].command.op
           \/ /\ daemon.pc # "idle" /\ queue' = queue
              /\ r = daemon.from /\ op = daemon.command.op
    PROVE  Inv'
<1>1. Says("OK") \in Answer /\ Says("OK").is = "OK"
  BY SaysFields
<1>2. /\ daemon' \in Job /\ JobOK(daemon') /\ daemon'.pc = "reply" /\ daemon'.from = r
      /\ daemon'.command.op = op /\ daemon'.reply = Says("OK")
  BY <1>1, ReplyingFields
<1>3. /\ effect' \in [Request -> {Nothing, "done", "changed"}]
      /\ effect'[r] # Nothing /\ \A q \in Request : effect'[q] # effect[q] => q = r
  BY Noted
<1>4. Typed'
  BY <1>2, <1>3, Rest DEF Inv, Typed
<1>5. InOrder'
  BY <1>2, <1>3, TakenInOrder, GoesOnInOrder
<1>6. Truthful'
  BY <1>1, <1>2, <1>3, Noted DEF Truthful
<1>7. Current'
  <2>1. daemon'.reply.is # "LIST" /\ (queue' = queue \/ (queue # <<>> /\ queue' = Tail(queue)))
    BY <1>1, <1>2
  <2>2. QED BY <2>1, StaysCurrent
<1>8. QED BY <1>4, <1>5, <1>6, <1>7 DEF Inv

LEMMA Served ==
    ASSUME Inv, Serve
    PROVE  Inv'
<1> DEFINE r == queue[1].from
           c == queue[1].command
<1>1. /\ daemon.pc = "idle" /\ queue # <<>> /\ queue' = Tail(queue) /\ UNCHANGED <<req, tool>>
      /\ 1 \in 1 .. Len(queue) /\ Execute(r, c)
  BY Rest DEF Serve, Inv
<1>2. r \in Request /\ c \in Commands /\ c.op \in Op \ {Nothing}
  BY <1>1, Queued DEF Inv
<1>3. Open(req[r], c.op) /\ (c.op # "list" => effect[r] = Nothing)
  BY <1>1 DEF Inv, InOrder
<1>4. ASSUME c = List, Listed(r)
      PROVE  Inv'
  <2> DEFINE a == [is |-> "LIST", admins |-> Cardinality(ActiveAdmins)]
  <2>1. a \in Answer /\ a.is = "LIST" /\ a.admins = Cardinality(ActiveAdmins)
    BY Countable DEF Answer
  <2>2. c.op = "list" /\ UNCHANGED <<keystore, effect>> /\ Replying(r, "list", a)
        /\ current' = IF Waits(r, "list") THEN current \cup {r} ELSE current
    BY <1>2, <1>4, CommandFields DEF Listed
  <2> HIDE DEF a
  <2>3. /\ daemon' \in Job /\ JobOK(daemon') /\ daemon'.pc = "reply" /\ daemon'.from = r
        /\ daemon'.command.op = "list" /\ daemon'.reply = a
    BY <1>2, <2>1, <2>2, ReplyingFields DEF Op, Nothing
  <2>4. Typed'
    BY <1>1, <1>2, <2>2, <2>3, Rest DEF Inv, Typed, KeystoreOK
  <2>5. InOrder'
    BY <1>1, <2>2, <2>3, TakenInOrder
  <2>6. Truthful'
    BY <1>1, <2>1, <2>2, <2>3 DEF Inv, Truthful
  <2>7. ActiveAdmins' = ActiveAdmins
    BY <2>2, SameAdmins
  <2>8. r \in current' /\ r \notin current => req[r].pc = "check" /\ req[r].reply.is = Nothing
    BY <1>3, <2>2, NoReplyFields DEF Waits, Open
  <2>9. \A i \in 1 .. Len(queue') :
           i + 1 \in 1 .. Len(queue) /\ queue'[i] = queue[i + 1] /\ Open(req[queue[i + 1].from], queue[i + 1].command.op)
    BY <1>1, Rest DEF Inv, InOrder
  <2>10. \A i \in 1 .. Len(queue') :
            queue'[i].command.op = "revoke" /\ IsAdmin(queue'[i].command.id) /\ queue'[i].from \in current'
              => Cardinality(ActiveAdmins) > 1
    BY <2>2, <2>8, <2>9 DEF Inv, Current, Open
  <2>11. \A q \in current' : req[q].reply.is = "LIST" => req[q].reply.admins = Cardinality(ActiveAdmins)
    BY <2>2, <2>8 DEF Inv, Current, Nothing
  <2>12. Current'
    BY <1>1, <2>1, <2>3, <2>7, <2>10, <2>11 DEF Current, IsAdmin
  <2>13. QED BY <2>4, <2>5, <2>6, <2>12 DEF Inv
<1>5. ASSUME NEW word \in {"NO", "ERR"}, Replying(r, c.op, Says(word)), word = "NO" => c.op # "list",
             current' = current \ {r}, UNCHANGED <<keystore, effect>>
      PROVE  Inv'
  <2>1. Says(word) \in Answer /\ Says(word).is = word
    BY SaysFields
  <2>2. /\ daemon' \in Job /\ JobOK(daemon') /\ daemon'.pc = "reply" /\ daemon'.from = r
        /\ daemon'.command.op = c.op /\ daemon'.reply = Says(word)
    BY <1>2, <1>5, <2>1, ReplyingFields
  <2>3. QED BY <1>1, <1>3, <1>5, <2>1, <2>2, DidNothing
<1>6. ASSUME c.op \in {"revoke", "activate", "label"}, Update(r, c)
      PROVE  Inv'
  <2>1. c.id \in Id /\ (c.op = "label" => c.label \in Label)
    BY <1>2, <1>6, CommandFields
  <2>2. CASE Replying(r, c.op, Says("NO")) /\ current' = current \ {r} /\ UNCHANGED <<keystore, effect>>
    BY <1>5, <1>6, <2>2
  <2>3. ASSUME NEW status \in {"active", "revoked"}, SetDeviceStatus(c.id, status), current' = {},
               Note(r), Replying(r, c.op, Says("OK"))
        PROVE  Inv'
    <3>1. KeystoreOK'
      BY <2>1, <2>3, StatusKeeps DEF Inv, Typed
    <3>2. QED BY <1>1, <1>2, <1>3, <1>6, <2>3, <3>1, DidIt
  <2>4. ASSUME c.op = "label", SetDeviceNote(c.id, c.label), current' = current \ {r},
               Note(r), Replying(r, c.op, Says("OK"))
        PROVE  Inv'
    <3>1. KeystoreOK' /\ ActiveAdmins' = ActiveAdmins
      BY <2>1, <2>4, NoteKeeps, SameAdmins DEF Inv, Typed
    <3>2. QED BY <1>1, <1>2, <1>3, <1>6, <2>4, <3>1, DidIt
  <2>5. QED BY <1>6, <2>2, <2>3, <2>4 DEF Update
<1>7. ASSUME c.op = "add", daemon' = [NoJob EXCEPT !.pc = "draw", !.from = r, !.command = c],
             UNCHANGED <<keystore, effect, current>>
      PROVE  Inv'
  <2> DEFINE u == [NoJob EXCEPT !.pc = "draw", !.from = r, !.command = c]
  <2>1. c \in [op : Op, id : Id \cup {Nothing}, label : Label \cup {Nothing}] /\ c.label \in Label
    <3>1. List = [op |-> "list", id |-> Nothing, label |-> Nothing]
      BY DEF List, NoCommand
    <3>2. QED BY <1>2, <1>7, <3>1, CommandFields DEF Commands, Op
  <2>2. NoJob \in Job
    BY Givens, NoReplyFields DEF NoJob, Job, NoCommand, Op
  <2>3. u \in Job /\ u.pc = "draw" /\ u.from = r /\ u.command = c /\ u.reply = NoReply
    BY <1>2, <2>1, <2>2 DEF Job, NoJob
  <2>4. daemon' = u
    BY <1>7
  <2> HIDE DEF u
  <2>5. JobOK(u)
    BY <1>2, <1>7, <2>1, <2>3, NoReplyFields DEF JobOK, Nothing
  <2>6. QED BY <1>1, <1>3, <1>7, <2>3, <2>4, <2>5, DidNothing, NoReplyFields DEF Nothing
<1>8. QED BY <1>1, <1>4, <1>5, <1>6, <1>7 DEF Execute

\* The job of an add that is not over.
LEMMA Adding ==
    ASSUME Inv, daemon.pc \in {"draw", "insert"}
    PROVE  /\ daemon \in Job /\ daemon.from \in Request /\ daemon.command.op = "add"
           /\ daemon.command.label \in Label /\ daemon.tries \in 0 .. MaxTries - 1
           /\ daemon.reply.is = Nothing /\ effect[daemon.from] = Nothing
           /\ Open(req[daemon.from], "add")
BY DEF Inv, Typed, InOrder, Truthful, JobOK, Job

LEMMA AddFails ==
    ASSUME Inv, daemon.pc \in {"draw", "insert"}, Replying(daemon.from, "add", Says("ERR")),
           UNCHANGED <<keystore, req, queue, tool, effect, current>>
    PROVE  Inv'
<1>1. Says("ERR") \in Answer /\ Says("ERR").is = "ERR"
  BY SaysFields
<1>2. /\ daemon' \in Job /\ JobOK(daemon') /\ daemon'.pc = "reply" /\ daemon'.from = daemon.from
      /\ daemon'.command.op = "add" /\ daemon'.reply = Says("ERR")
  BY <1>1, Adding, ReplyingFields DEF Op, Nothing
<1>3. QED BY <1>1, <1>2, Adding, DidNothing

LEMMA TriedAgain ==
    ASSUME Inv, daemon.pc \in {"draw", "insert"}, TryAgain,
           UNCHANGED <<keystore, req, queue, tool, effect, current>>
    PROVE  Inv'
<1>1. CASE Replying(daemon.from, "add", Says("ERR"))
  BY <1>1, AddFails
<1>2. CASE /\ Tries(daemon.tries) < MaxTries
           /\ daemon' = [daemon EXCEPT !.pc = "draw", !.id = Nothing, !.tries = Tries(daemon.tries)]
  <2> DEFINE n == Tries(daemon.tries)
             u == [daemon EXCEPT !.pc = "draw", !.id = Nothing, !.tries = n]
  <2>1. n \in 0 .. MaxTries - 1
    BY <1>2, Adding, Givens DEF Tries
  <2> HIDE DEF n
  <2>2. u \in Job
    BY <2>1, Adding DEF Job
  <2>3. u.pc = "draw" /\ u.from = daemon.from /\ u.command = daemon.command /\ u.reply = daemon.reply
    BY Adding DEF Job
  <2>4. daemon' = u
    BY <1>2 DEF n
  <2> HIDE DEF u
  <2>5. JobOK(u)
    BY <2>3, Adding DEF JobOK, Nothing
  <2>6. QED BY <2>2, <2>3, <2>4, <2>5, Adding, DidNothing DEF Nothing
<1>3. QED BY <1>1, <1>2 DEF TryAgain

LEMMA Drawn ==
    ASSUME Inv, NEW id \in Id, Draw(id)
    PROVE  Inv'
<1>1. daemon.pc \in {"draw", "insert"} /\ UNCHANGED <<keystore, req, queue, tool, effect, current>>
  BY DEF Draw
<1>2. CASE daemon' = [daemon EXCEPT !.pc = "insert", !.id = id]
  <2> DEFINE u == [daemon EXCEPT !.pc = "insert", !.id = id]
  <2>1. u \in Job
    BY <1>1, Adding DEF Job
  <2>2. /\ u.pc = "insert" /\ u.id = id /\ u.from = daemon.from /\ u.command = daemon.command
        /\ u.reply = daemon.reply
    BY <1>1, Adding DEF Job
  <2>3. daemon' = u
    BY <1>2
  <2> HIDE DEF u
  <2>4. JobOK(u)
    BY <1>1, <2>2, Adding DEF JobOK, Nothing
  <2>5. QED BY <1>1, <2>1, <2>2, <2>3, <2>4, Adding, DidNothing DEF Nothing
<1>3. QED BY <1>1, <1>2, TriedAgain, AddFails DEF Draw

LEMMA Inserted ==
    ASSUME Inv, Insert
    PROVE  Inv'
<1>1. daemon.pc \in {"draw", "insert"} /\ UNCHANGED <<req, queue, tool>>
  BY DEF Insert
<1>2. CASE /\ AddDevice(daemon.id, daemon.from, daemon.command.label)
           /\ Note(daemon.from)
           /\ current' = {}
           /\ Replying(daemon.from, "add", Says("OK"))
  <2>1. daemon.id \in Id /\ daemon.from \in Key
    BY <1>1, Adding, Givens DEF Insert, Inv, Typed, JobOK
  <2>2. KeystoreOK'
    BY <1>1, <1>2, <2>1, Adding, AddKeeps DEF Inv, Typed
  <2>3. "add" \in Op \ {Nothing, "list"}
    BY DEF Op, Nothing
  <2>4. daemon.pc # "idle"
    BY <1>1
  <2>5. QED BY <1>1, <1>2, <2>2, <2>3, <2>4, Adding, DidIt
<1>3. QED BY <1>1, <1>2, TriedAgain DEF Insert

\* The dashboard and the daemon part.
LEMMA Replied ==
    ASSUME Inv, Reply
    PROVE  Inv'
<1> DEFINE r == daemon.from
           op == daemon.command.op
           h == req[r]
           u == [h EXCEPT !.reply = daemon.reply]
<1>1. /\ daemon.pc = "reply" /\ daemon' = NoJob /\ UNCHANGED <<keystore, queue, tool, effect, current>>
      /\ req' = IF Waits(r, op) THEN [req EXCEPT ![r] = u] ELSE req
  BY DEF Reply
<1>2. /\ daemon \in Job /\ JobOK(daemon) /\ r \in Request /\ op \in Op \ {Nothing} /\ Open(h, op)
      /\ h \in Handler /\ HandlerOK(h) /\ IsTrue(h, r)
  BY <1>1 DEF Inv, Typed, InOrder, Truthful, JobOK, Job, IsTrue
<1>3. NoJob \in Job /\ JobOK(NoJob) /\ NoJob.pc = "idle" /\ NoJob.reply = NoReply
  BY Givens, NoReplyFields DEF NoJob, Job, JobOK, NoCommand, Op, Nothing
<1>4. u \in Handler /\ u.pc = h.pc /\ u.command = h.command /\ u.outcome = h.outcome /\ u.reply = daemon.reply
  BY <1>2 DEF Handler, Job
<1> HIDE DEF u
<1>5. Waits(r, op) => (op = "list" /\ h.pc = "check") \/ (op # "list" /\ h.pc = "write")
  BY DEF Waits
<1>6. Waits(r, op) => HandlerOK(u)
  BY <1>2, <1>4, <1>5 DEF HandlerOK, JobOK, Asking
<1>7. Waits(r, op) => IsTrue(u, r)
  BY <1>1, <1>2, <1>4, <1>5 DEF IsTrue, Inv, Truthful
<1>8. \A q \in Request : req'[q] = IF q = r /\ Waits(r, op) THEN u ELSE req[q]
  BY <1>1, <1>2 DEF Inv, Typed
<1>9. req' \in [Request -> Handler] /\ \A q \in Request : HandlerOK(req'[q])
  <2>1. req \in [Request -> Handler] /\ \A q \in Request : HandlerOK(req[q])
    BY DEF Inv, Typed
  <2>2. req' \in [Request -> Handler]
    BY <1>1, <1>4, <2>1
  <2>3. \A q \in Request : HandlerOK(req'[q])
    BY <1>6, <1>8, <2>1
  <2>4. QED BY <2>2, <2>3
<1>10. Typed'
  BY <1>1, <1>3, <1>9 DEF Inv, Typed, KeystoreOK
<1>11. InOrder'
  <2>1. ASSUME NEW i \in 1 .. Len(queue)
        PROVE  Open(req'[queue[i].from], queue[i].command.op)
    <3> DEFINE q == queue[i].from
               o == queue[i].command.op
    <3>1. q \in Request /\ o \in Op /\ Open(req[q], o) /\ (q = r => ~SameKind(o, op))
      BY <1>1, Queued DEF Inv, InOrder
    <3>2. CASE q = r /\ Waits(r, op)
      <4>1. (o = "list" /\ op # "list" /\ h.pc = "write") \/ (o # "list" /\ op = "list" /\ h.pc = "check")
        BY <1>5, <3>1, <3>2 DEF SameKind
      <4>2. o = "list" /\ h.pc = "write"
        BY <3>1, <3>2, <4>1 DEF Open
      <4>3. QED BY <1>4, <1>8, <3>1, <3>2, <4>2 DEF Open
    <3>3. QED BY <1>8, <3>1, <3>2
  <2>2. QED BY <1>1, <1>3, <2>1 DEF Inv, InOrder
<1>12. Truthful'
  BY <1>1, <1>3, <1>7, <1>8 DEF Inv, Truthful, IsTrue
<1>13. ActiveAdmins' = ActiveAdmins
  BY <1>1, SameAdmins
<1>14. \A q \in current : req'[q].reply.is = "LIST" => req'[q].reply.admins = Cardinality(ActiveAdmins)
  BY <1>1, <1>4, <1>8 DEF Inv, Typed, Current
<1>15. Current'
  BY <1>1, <1>3, <1>13, <1>14 DEF Inv, Current, IsAdmin
<1>16. QED BY <1>10, <1>11, <1>12, <1>15 DEF Inv

LEMMA Restarted ==
    ASSUME Inv, Restart
    PROVE  Inv'
<1>1. /\ daemon' = NoJob /\ queue' = <<>> /\ current' \subseteq current
      /\ UNCHANGED <<keystore, tool, effect>>
  BY DEF Restart
<1>2. NoJob \in Job /\ JobOK(NoJob) /\ NoJob.pc = "idle"
  BY Givens, NoReplyFields DEF NoJob, Job, JobOK, NoCommand, Op, Nothing
<1>3. Says("EOF") \in Answer /\ Says("EOF").is = "EOF"
  BY SaysFields
<1>4. ASSUME NEW r \in Request
      PROVE  /\ req'[r] \in Handler /\ HandlerOK(req'[r]) /\ IsTrue(req'[r], r)
             /\ req'[r].reply = req[r].reply \/ req'[r].reply.is = "EOF"
  <2> DEFINE h == req[r]
             u == [h EXCEPT !.reply = Says("EOF")]
  <2>1. h \in Handler /\ HandlerOK(h) /\ IsTrue(h, r)
    BY DEF Inv, Typed, Truthful, IsTrue
  <2>2. u \in Handler /\ u.pc = h.pc /\ u.command = h.command /\ u.outcome = h.outcome /\ u.reply = Says("EOF")
    BY <1>3, <2>1 DEF Handler
  <2>3. req'[r] = IF h.pc \in Asking /\ h.reply = NoReply THEN u ELSE h
    BY DEF Restart
  <2> HIDE DEF u
  <2>4. h.pc \in Asking => HandlerOK(u)
    BY <1>3, <2>1, <2>2 DEF HandlerOK, Asking
  <2>5. IsTrue(u, r)
    BY <1>3, <2>1, <2>2 DEF IsTrue
  <2>6. QED BY <1>3, <2>1, <2>2, <2>3, <2>4, <2>5
<1>5. req' \in [Request -> Handler]
  <2>1. req' = [r \in Request |-> req'[r]]
    BY DEF Restart
  <2>2. QED BY <1>4, <2>1
<1>6. queue' \in Seq([from : Request, command : Commands]) /\ Len(queue') = 0
  BY <1>1
<1>7. Typed'
  BY <1>1, <1>2, <1>4, <1>5, <1>6 DEF Inv, Typed, KeystoreOK
<1>8. InOrder'
  BY <1>1, <1>2, <1>6 DEF InOrder
<1>9. Truthful'
  BY <1>1, <1>2, <1>4 DEF Truthful, IsTrue
<1>10. ActiveAdmins' = ActiveAdmins
  BY <1>1, SameAdmins
<1>11. Current'
  BY <1>1, <1>2, <1>4, <1>6, <1>10 DEF Inv, Typed, Current
<1>12. QED BY <1>7, <1>8, <1>9, <1>11 DEF Inv

-----------------------------------------------------------------------------
(* The steps of the tool, and the theorems.                                *)

\* A step of the tool, which no one else sees except in the keystore.
LEMMA ToolStep ==
    ASSUME Inv, UNCHANGED <<req, queue, daemon, effect>>, KeystoreOK', tool' \in Run, RunOK(tool'),
           current' \subseteq current, current' = {} \/ ActiveAdmins' = ActiveAdmins
    PROVE  Inv'
<1>1. Typed'
  BY DEF Inv, Typed
<1>2. InOrder'
  BY DEF Inv, InOrder
<1>3. Truthful'
  BY DEF Inv, Truthful
<1>4. Current'
  BY StaysCurrent
<1>5. QED BY <1>1, <1>2, <1>3, <1>4 DEF Inv

\* The tool's own steps.
LEMMA ToolGoesOn ==
    ASSUME Inv,
           \/ ToolAdd \/ ToolHeader \/ ToolUndo \/ ToolStops
           \/ \E id \in Id : ToolDraw(id)
           \/ \E label \in Label : ToolInsert(label)
    PROVE  tool' \in Run /\ RunOK(tool')
<1>1. tool \in Run /\ RunOK(tool) /\ NoRun \in Run /\ RunOK(NoRun)
  <2>1. 0 \in 0 .. MaxTries - 1
    BY Givens
  <2>2. QED BY <2>1 DEF Inv, Typed, NoRun, Run, RunOK
<1>2. CASE ToolAdd
  BY <1>1, <1>2 DEF ToolAdd, Run, RunOK
<1>3. CASE ToolHeader
  BY <1>1, <1>3 DEF ToolHeader, Run, RunOK
<1>4. CASE ToolUndo
  BY <1>1, <1>4 DEF ToolUndo, Run, RunOK
<1>5. CASE ToolStops
  BY <1>1, <1>5 DEF ToolStops
<1>6. ASSUME ToolTryAgain
      PROVE  tool' \in Run /\ RunOK(tool')
  <2> DEFINE n == Tries(tool.tries)
             t == [tool EXCEPT !.pc = "draw", !.id = Nothing, !.tries = n]
  <2>1. n < MaxTries => n \in 0 .. MaxTries - 1
    <3>1. tool.tries \in 0 .. MaxTries - 1
      BY <1>1 DEF Run
    <3>2. QED BY <3>1, Givens DEF Tries
  <2>2. tool' = IF n < MaxTries THEN t ELSE NoRun
    BY <1>6 DEF ToolTryAgain
  <2> HIDE DEF n
  <2>3. n < MaxTries => t \in Run /\ t.pc = "draw"
    BY <1>1, <2>1 DEF Run
  <2> HIDE DEF t
  <2>4. n < MaxTries => RunOK(t)
    BY <2>3 DEF RunOK
  <2>5. QED BY <1>1, <2>2, <2>3, <2>4
<1>7. ASSUME NEW id \in Id, ToolDraw(id)
      PROVE  tool' \in Run /\ RunOK(tool')
  <2>1. CASE tool' = [tool EXCEPT !.pc = "insert", !.id = id]
    BY <1>1, <2>1 DEF Run, RunOK
  <2>2. QED BY <1>6, <1>7, <2>1 DEF ToolDraw
<1>8. ASSUME NEW label \in Label, ToolInsert(label)
      PROVE  tool' \in Run /\ RunOK(tool')
  <2>1. CASE tool' = [tool EXCEPT !.pc = "header"] /\ tool.pc = "insert"
    BY <1>1, <2>1 DEF Run, RunOK
  <2>2. QED BY <1>6, <1>8, <2>1 DEF ToolInsert
<1>9. QED BY <1>2, <1>3, <1>4, <1>5, <1>7, <1>8

LEMMA InitInv == Init => Inv
<1> SUFFICES ASSUME Init PROVE Inv
  OBVIOUS
<1>1. KeystoreOK
  <2>1. PICK label \in Label :
           keystore = [id \in Id |-> IF id \in Initial
                                     THEN [status |-> "active", key |-> id, note |-> label] ELSE NoRow]
    BY DEF Init
  <2>2. \A id \in Initial : [status |-> "active", key |-> id, note |-> label] \in Row
    BY Givens DEF Row
  <2>3. QED BY <2>1, <2>2 DEF KeystoreOK
<1>2. Unsent \in Handler /\ HandlerOK(Unsent) /\ Unsent.reply = NoReply /\ Unsent.outcome = Nothing
  BY NoReplyFields DEF Unsent, Handler, HandlerOK, Asking, Outcomes, Nothing
<1>3. NoJob \in Job /\ JobOK(NoJob) /\ NoJob.pc = "idle"
  BY Givens, NoReplyFields DEF NoJob, Job, JobOK, NoCommand, Op, Nothing
<1>4. NoRun \in Run /\ RunOK(NoRun)
  BY Givens DEF NoRun, Run, RunOK
<1>5. queue \in Seq([from : Request, command : Commands]) /\ Len(queue) = 0
  BY DEF Init
<1>6. Typed
  BY <1>1, <1>2, <1>3, <1>4, <1>5 DEF Init, Typed
<1>7. InOrder /\ Truthful
  BY <1>2, <1>3, <1>5, NoReplyFields DEF Init, InOrder, Truthful, Nothing
<1>8. Current
  BY <1>3, <1>5 DEF Init, Current
<1>9. QED BY <1>6, <1>7, <1>8 DEF Inv

LEMMA NextInv == Inv /\ [Next]_vars => Inv'
<1> SUFFICES ASSUME Inv, [Next]_vars PROVE Inv'
  OBVIOUS
<1>1. CASE UNCHANGED vars
  BY <1>1 DEF vars, Inv, Typed, KeystoreOK, InOrder, Truthful, Current, ActiveAdmins, Active, IsAdmin
<1>2. ASSUME NEW r \in Request, NEW command \in Commands, Post(r, command) PROVE Inv'
  BY <1>2, Posted
<1>3. ASSUME NEW r \in Request, Refuse(r) \/ Receive(r) \/ GiveUp(r) \/ Page(r) PROVE Inv'
  BY <1>3, Refused, Resumed, Paged DEF Receive, GiveUp
<1>4. CASE Serve \/ Insert \/ Reply \/ Restart
  BY <1>4, Served, Inserted, Replied, Restarted
<1>5. ASSUME NEW id \in Id, Draw(id) PROVE Inv'
  BY <1>5, Drawn
<1>6. CASE ToolAdd \/ ToolHeader \/ ToolStops \/ \E id \in Id : ToolDraw(id)
  <2>1. UNCHANGED <<keystore, req, queue, daemon, effect, current>>
    BY <1>6 DEF ToolAdd, ToolHeader, ToolStops, ToolDraw
  <2>2. KeystoreOK' /\ ActiveAdmins' = ActiveAdmins
    BY <2>1, SameAdmins DEF Inv, Typed, KeystoreOK
  <2>3. tool' \in Run /\ RunOK(tool')
    BY <1>6, ToolGoesOn
  <2>4. QED BY <2>1, <2>2, <2>3, ToolStep
<1>7. CASE ToolUndo
  <2>1. tool.id \in Id /\ UNCHANGED <<req, queue, daemon, effect>>
    BY <1>7 DEF ToolUndo, Inv, Typed, RunOK
  <2>2. KeystoreOK' /\ (current' = {} \/ (current' = current /\ ActiveAdmins' = ActiveAdmins))
    BY <1>7, <2>1, StatusKeeps, SameAdmins DEF ToolUndo, Inv, Typed, KeystoreOK
  <2>3. tool' \in Run /\ RunOK(tool')
    BY <1>7, ToolGoesOn
  <2>4. QED BY <2>1, <2>2, <2>3, ToolStep
<1>8. ASSUME NEW id \in Id, ToolUpdate(id) PROVE Inv'
  <2>1. UNCHANGED <<req, queue, daemon, tool, effect>>
    BY <1>8 DEF ToolUpdate
  <2>2. ASSUME NEW status \in {"active", "revoked"}, SetDeviceStatus(id, status)
        PROVE  KeystoreOK'
    BY <2>2, StatusKeeps DEF Inv, Typed
  <2>3. ASSUME NEW label \in Label, SetDeviceNote(id, label)
        PROVE  KeystoreOK' /\ ActiveAdmins' = ActiveAdmins
    BY <2>3, NoteKeeps, SameAdmins DEF Inv, Typed
  <2>4. KeystoreOK' /\ (current' = {} \/ (current' = current /\ ActiveAdmins' = ActiveAdmins))
    BY <1>8, <2>2, <2>3 DEF ToolUpdate
  <2>5. tool' \in Run /\ RunOK(tool')
    BY <2>1 DEF Inv, Typed
  <2>6. QED BY <2>1, <2>4, <2>5, ToolStep
<1>9. ASSUME NEW label \in Label, ToolInsert(label) PROVE Inv'
  <2>1. tool.id \in Id /\ UNCHANGED <<req, queue, daemon, effect>>
    BY <1>9 DEF ToolInsert, Inv, Typed, RunOK
  <2>2. KeystoreOK' /\ (current' = {} \/ (current' = current /\ ActiveAdmins' = ActiveAdmins))
    BY <1>9, <2>1, AddKeeps, SameAdmins, Givens DEF ToolInsert, Inv, Typed, KeystoreOK
  <2>3. tool' \in Run /\ RunOK(tool')
    BY <1>9, <2>1, ToolGoesOn
  <2>4. QED BY <2>1, <2>2, <2>3, ToolStep
<1>10. QED BY <1>1, <1>2, <1>3, <1>4, <1>5, <1>6, <1>7, <1>8, <1>9 DEF Next

THEOREM Invariance == Spec => []Inv
BY InitInv, NextInv, PTL DEF Spec

\* Every variable has its type, and a reply waits only for a handler that waits for it.
THEOREM TypeCorrect == Spec => []TypeOK
<1>1. Inv => TypeOK
  <2> SUFFICES ASSUME Inv PROVE TypeOK
    OBVIOUS
  <2>1. \A r \in Request : req[r] \in Handler /\ HandlerOK(req[r])
    BY DEF Inv, Typed
  <2>2. QED BY <2>1 DEF Inv, Typed, TypeOK, ReplyOK, Handler, HandlerOK, Answer, Outcomes, Job, Run
<1>2. QED BY <1>1, Invariance, PTL

\* What the dashboard says was done was done, and what it says was not done was not.
THEOREM DashboardIsRight == Spec => []SaysWhatWasDone
<1>1. Inv => SaysWhatWasDone
  BY DEF Inv, Truthful, SaysWhatWasDone
<1>2. QED BY <1>1, Invariance, PTL

\* A step that is neither an INSERT nor an UPDATE leaves the keystore alone.
LEMMA KeystoreKept ==
    ASSUME Next
    PROVE  \/ Serve \/ Insert \/ ToolUndo
           \/ \E id \in Id : ToolUpdate(id)
           \/ \E label \in Label : ToolInsert(label)
           \/ keystore' = keystore
<1>1. ASSUME NEW r \in Request, NEW command \in Commands, Post(r, command) PROVE keystore' = keystore
  BY <1>1 DEF Post
<1>2. ASSUME NEW r \in Request, Refuse(r) \/ Receive(r) \/ GiveUp(r) \/ Page(r) PROVE keystore' = keystore
  BY <1>2 DEF Refuse, Receive, GiveUp, Page
<1>3. CASE Reply \/ Restart
  BY <1>3 DEF Reply, Restart
<1>4. CASE ToolAdd \/ ToolHeader \/ ToolStops
  BY <1>4 DEF ToolAdd, ToolHeader, ToolStops
<1>5. ASSUME NEW id \in Id, Draw(id) \/ ToolDraw(id) PROVE keystore' = keystore
  BY <1>5 DEF Draw, ToolDraw
<1>6. QED BY <1>1, <1>2, <1>3, <1>4, <1>5 DEF Next

\* What Serve does to the keystore, and whom it serves.
LEMMA ServesFirst ==
    ASSUME Inv, Serve
    PROVE  LET c == queue[1].command
           IN  /\ Head(queue) = queue[1] /\ 1 \in 1 .. Len(queue)
               /\ \/ keystore' = keystore
                  \/ /\ c.op = "label" /\ c.id \in Id /\ c.label \in Label /\ SetDeviceNote(c.id, c.label)
                  \/ /\ c.op = "revoke" /\ c.id \in Id /\ SetDeviceStatus(c.id, "revoked")
                  \/ /\ c.op = "activate" /\ c.id \in Id /\ SetDeviceStatus(c.id, "active")
<1> DEFINE r == queue[1].from
           c == queue[1].command
<1>1. Head(queue) = queue[1] /\ 1 \in 1 .. Len(queue) /\ Execute(r, c)
  BY Rest DEF Serve, Inv
<1>2. c \in Commands
  BY <1>1, Queued DEF Inv
<1>3. /\ c.op \in {"revoke", "activate", "label"} => c.id \in Id
      /\ c.op = "label" => c.label \in Label
  BY <1>2, CommandFields
<1>4. CASE Listed(r)
  BY <1>1, <1>4 DEF Listed
<1>5. ASSUME c.op \in {"revoke", "activate", "label"}, Update(r, c)
      PROVE  \/ keystore' = keystore
             \/ /\ c.op = "label" /\ c.id \in Id /\ c.label \in Label /\ SetDeviceNote(c.id, c.label)
             \/ /\ c.op = "revoke" /\ c.id \in Id /\ SetDeviceStatus(c.id, "revoked")
             \/ /\ c.op = "activate" /\ c.id \in Id /\ SetDeviceStatus(c.id, "active")
  BY <1>3, <1>5 DEF Update
<1>6. QED BY <1>1, <1>4, <1>5 DEF Execute

\* A row that is there keeps its key.
THEOREM KeysDoStay == Spec => KeysStay
<1>1. ASSUME Inv, [Next]_vars
      PROVE  [\A id \in Id : Found(id) => keystore'[id].key = keystore[id].key]_vars
  <2> SUFFICES ASSUME Next, NEW id \in Id, Found(id)
               PROVE  keystore'[id].key = keystore[id].key
    BY <1>1
  <2>1. KeystoreOK
    BY <1>1 DEF Inv, Typed
  <2>2. CASE Serve
    BY <1>1, <2>1, <2>2, ServesFirst, StatusKeeps, NoteKeeps
  <2>3. CASE Insert
    <3>1. CASE AddDevice(daemon.id, daemon.from, daemon.command.label) /\ daemon.pc = "insert"
      <4>1. daemon.id \in Id /\ daemon.from \in Key /\ daemon.command.label \in Label
        BY <1>1, <3>1, Adding, Givens DEF Inv, Typed, JobOK
      <4>2. QED BY <2>1, <3>1, <4>1, AddKeeps
    <3>2. QED BY <2>3, <3>1 DEF Insert
  <2>4. CASE ToolUndo
    <3>1. tool.id \in Id
      BY <1>1, <2>4 DEF ToolUndo, Inv, Typed, RunOK
    <3>2. QED BY <2>1, <2>4, <3>1, StatusKeeps DEF ToolUndo
  <2>5. ASSUME NEW i \in Id, ToolUpdate(i)
        PROVE  keystore'[id].key = keystore[id].key
    BY <2>1, <2>5, StatusKeeps, NoteKeeps DEF ToolUpdate
  <2>6. ASSUME NEW label \in Label, ToolInsert(label)
        PROVE  keystore'[id].key = keystore[id].key
    <3>1. tool.id \in Id /\ Tool \in Key
      BY <1>1, <2>6, Givens DEF ToolInsert, Inv, Typed, RunOK
    <3>2. QED BY <2>1, <2>6, <3>1, AddKeeps DEF ToolInsert
  <2>7. QED BY <2>2, <2>3, <2>4, <2>5, <2>6, KeystoreKept
<1>2. QED BY <1>1, Invariance, PTL DEF Spec, KeysStay

\* The last active admin is revoked by the daemon only for a request whose list
\* went out of date: one that is current had counted another admin.
THEOREM OnlyRacesDo == Spec => OnlyRacesTakeLastAdmin
<1>1. ASSUME Inv, [Next]_vars
      PROVE  [queue # <<>> /\ queue' = Tail(queue) /\ ActiveAdmins # {} /\ ActiveAdmins' = {}
                => Head(queue).from \notin current]_vars
  <2> SUFFICES ASSUME Next, queue # <<>>, queue' = Tail(queue), ActiveAdmins # {}, ActiveAdmins' = {},
                      Head(queue).from \in current
               PROVE  FALSE
    BY <1>1
  <2>1. queue' # queue
    <3> DEFINE m == Len(queue)
               n == Len(Tail(queue))
    <3>1. n = m - 1 /\ m \in Nat
      BY <1>1, HeadTailProperties, LenProperties DEF Inv, Typed
    <3>2. queue' = queue => n = m
      OBVIOUS
    <3> HIDE DEF m, n
    <3>3. QED BY <3>1, <3>2
  <2>2. keystore' # keystore
    BY SameAdmins
  <2>3. Serve
    BY <2>1, <2>2, KeystoreKept DEF Insert, ToolUndo, ToolUpdate, ToolInsert
  <2> DEFINE c == queue[1].command
  <2>4. Head(queue) = queue[1] /\ 1 \in 1 .. Len(queue)
    BY <1>1, <2>3, ServesFirst
  <2>5. CASE c.op = "label" /\ c.id \in Id /\ c.label \in Label /\ SetDeviceNote(c.id, c.label)
    BY <1>1, <2>5, NoteKeeps, SameAdmins DEF Inv, Typed
  <2>6. ASSUME NEW status \in {"active", "revoked"}, c.id \in Id, SetDeviceStatus(c.id, status)
        PROVE  ActiveAdmins \subseteq {c.id} /\ (status = "active" => c.id \notin ActiveAdmins)
    <3>1. \A i \in Id \ {c.id} : keystore'[i] = keystore[i]
      BY <1>1, <2>6, StatusKeeps DEF Inv, Typed
    <3>2. ActiveAdmins \subseteq {c.id}
      BY <3>1, Givens DEF ActiveAdmins, Active
    <3>3. ASSUME status = "active", c.id \in ActiveAdmins PROVE FALSE
      <4>1. keystore'[c.id].status = "active"
        BY <1>1, <2>6, <3>3 DEF SetDeviceStatus, Inv, Typed, KeystoreOK, ActiveAdmins, Active, Row, NoRow, Nothing
      <4>2. QED BY <3>3, <4>1 DEF ActiveAdmins, Active
    <3>4. QED BY <3>2, <3>3
  <2>7. CASE c.op = "activate" /\ c.id \in Id /\ SetDeviceStatus(c.id, "active")
    BY <2>6, <2>7
  <2>8. CASE c.op = "revoke" /\ c.id \in Id /\ SetDeviceStatus(c.id, "revoked")
    <3>1. ActiveAdmins = {c.id} /\ IsAdmin(c.id)
      BY <2>6, <2>8 DEF ActiveAdmins, IsAdmin
    <3>2. Cardinality(ActiveAdmins) > 1
      BY <1>1, <2>4, <2>8, <3>1 DEF Inv, Current
    <3>3. Cardinality({c.id}) = 1
      BY FS_Singleton
    <3>4. QED BY <3>1, <3>2, <3>3
  <2>9. QED BY <1>1, <2>2, <2>3, <2>5, <2>7, <2>8, ServesFirst
<1>2. QED BY <1>1, Invariance, PTL DEF Spec, OnlyRacesTakeLastAdmin

\* Each step of the daemon takes it nearer to the end of its command.
THEOREM DaemonDoesAdvance == Spec => DaemonAdvances
<1>1. ASSUME Inv, [Next]_vars
      PROVE  [daemon.pc # "idle" /\ daemon' # daemon => Rank(daemon') < Rank(daemon)]_vars
  <2> SUFFICES ASSUME Next, daemon.pc # "idle", daemon' # daemon
               PROVE  Rank(daemon') < Rank(daemon)
    BY <1>1
  <2>1. daemon \in Job /\ MaxTries \in Nat \ {0}
    BY <1>1, Givens DEF Inv, Typed
  <2>2. daemon.tries \in Nat /\ daemon.tries < MaxTries
    <3>1. daemon.tries \in 0 .. MaxTries - 1
      BY <2>1 DEF Job
    <3>2. QED BY <2>1, <3>1
  <2>3. /\ daemon.pc = "insert" => Rank(daemon) = 2 * (MaxTries - daemon.tries)
        /\ daemon.pc = "draw" => Rank(daemon) = 2 * (MaxTries - daemon.tries) + 1
        /\ daemon.pc = "reply" => Rank(daemon) = 1
    BY DEF Rank
  <2>4. /\ daemon.pc \in {"draw", "insert", "reply"} => Rank(daemon) \in Nat \ {0}
        /\ daemon.pc = "insert" => Rank(daemon) > 1
        /\ daemon.pc = "draw" => Rank(daemon) > 1
        /\ daemon.pc = "reply" => Rank(daemon) = 1
    BY <2>1, <2>2, <2>3
  <2>5. ASSUME daemon' = NoJob
        PROVE  Rank(daemon') < Rank(daemon)
    <3>1. Rank(NoJob) = 0
      BY DEF Rank, NoJob
    <3>2. daemon.pc \in {"draw", "insert", "reply"}
      BY <2>1 DEF Job
    <3>3. Rank(daemon) \in Nat \ {0}
      BY <2>4, <3>2
    <3>4. QED BY <2>5, <3>1, <3>3
  <2>6. ASSUME NEW op, NEW reply, Replying(daemon.from, op, reply), daemon.pc \in {"draw", "insert"}
        PROVE  Rank(daemon') < Rank(daemon)
    <3>1. daemon'.pc = "reply"
      BY <2>6 DEF Replying, NoJob
    <3>2. Rank(daemon') = 1
      BY <3>1 DEF Rank
    <3>3. QED BY <2>4, <2>6, <3>2
  <2>7. ASSUME TryAgain, daemon.pc \in {"draw", "insert"}
        PROVE  Rank(daemon') < Rank(daemon)
    <3> DEFINE n == Tries(daemon.tries)
               u == [daemon EXCEPT !.pc = "draw", !.id = Nothing, !.tries = n]
    <3>1. n = daemon.tries + 1
      BY DEF Tries
    <3>2. u.pc = "draw" /\ u.tries = n
      BY <2>1 DEF Job
    <3> HIDE DEF n
    <3>3. CASE daemon' = u
      <4> HIDE DEF u
      <4>1. Rank(u) = 2 * (MaxTries - n) + 1
        BY <3>2 DEF Rank
      <4>2. 2 * (MaxTries - n) + 1 < 2 * (MaxTries - daemon.tries)
        BY <2>1, <2>2, <3>1
      <4>3. 2 * (MaxTries - daemon.tries) < 2 * (MaxTries - daemon.tries) + 1
        BY <2>1, <2>2
      <4>4. QED BY <2>1, <2>2, <2>3, <2>7, <3>1, <3>3, <4>1, <4>2, <4>3
    <3>4. QED BY <2>6, <2>7, <3>3 DEF TryAgain, n
  <2>8. ASSUME NEW id \in Id, Draw(id)
        PROVE  Rank(daemon') < Rank(daemon)
    <3> DEFINE u == [daemon EXCEPT !.pc = "insert", !.id = id]
    <3>1. u.pc = "insert" /\ u.tries = daemon.tries
      BY <2>1 DEF Job
    <3>2. CASE daemon' = u
      <4> HIDE DEF u
      <4>1. Rank(u) = 2 * (MaxTries - daemon.tries)
        BY <3>1 DEF Rank
      <4>2. Rank(daemon) = 2 * (MaxTries - daemon.tries) + 1
        BY <2>3, <2>8 DEF Draw
      <4>3. QED BY <2>1, <2>2, <3>2, <4>1, <4>2
    <3>3. QED BY <2>6, <2>7, <2>8, <3>2 DEF Draw
  <2>9. CASE Insert
    BY <2>6, <2>7, <2>9 DEF Insert
  <2>10. CASE Reply \/ Restart
    BY <2>5, <2>10 DEF Reply, Restart
  <2>11. ASSUME NEW r \in Request, NEW command \in Commands, Post(r, command) PROVE FALSE
    BY <2>11 DEF Post
  <2>12. ASSUME NEW r \in Request, Refuse(r) \/ Receive(r) \/ GiveUp(r) \/ Page(r) PROVE FALSE
    BY <2>12 DEF Refuse, Receive, GiveUp, Page
  <2>13. CASE Serve \/ ToolAdd \/ ToolHeader \/ ToolUndo \/ ToolStops
    BY <2>13 DEF Serve, ToolAdd, ToolHeader, ToolUndo, ToolStops
  <2>14. ASSUME NEW id \in Id, ToolDraw(id) \/ ToolUpdate(id) PROVE FALSE
    BY <2>14 DEF ToolDraw, ToolUpdate
  <2>15. ASSUME NEW label \in Label, ToolInsert(label) PROVE FALSE
    BY <2>15 DEF ToolInsert
  <2>16. QED BY <2>8, <2>9, <2>10, <2>11, <2>12, <2>13, <2>14, <2>15 DEF Next
<1>2. QED BY <1>1, Invariance, PTL DEF Spec, DaemonAdvances
=============================================================================
