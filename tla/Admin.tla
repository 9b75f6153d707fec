-------------------------------- MODULE Admin --------------------------------
(***************************************************************************)
(* The admin dashboard (auth-web/src/routes/admin.js), its client          *)
(* (auth-web/src/admin.js), the daemon that writes the keystore            *)
(* (admin/main.cpp) and the provisioning tool that writes it too           *)
(* (tools/provision/main.cpp).                                             *)
(*                                                                         *)
(* A handler talks to the daemon over one connection per command: it asks, *)
(* and waits for the reply or its timer.  The daemon accepts connections   *)
(* in order and serves one at a time; a command whose sender has given up  *)
(* is still in the queue and is still executed.                            *)
(*                                                                         *)
(* A key is named after the one who generated it.                          *)
(***************************************************************************)
EXTENDS Keystore, Naturals, FiniteSets, Sequences

CONSTANTS
    Request,        \* POSTs of admins to /admin/devices, each used once
    Admins,         \* ADMIN_DEVICES
    Initial,        \* the IDs the keystore starts with
    MaxTries        \* draws of an ID before add gives up

Tool == "tool"

ASSUME AdminAssumption ==
    /\ Admins \subseteq Id /\ IsFiniteSet(Admins)
    /\ Initial \subseteq Id
    /\ Request \cup Initial \cup {Tool} \subseteq Key
    /\ Nothing \notin Key \cup Id \cup Label \cup Request
    /\ Label # {}
    /\ MaxTries \in Nat \ {0}

VARIABLES
    req,        \* req[r]: what the handler of r holds
    queue,      \* connections the daemon has not accepted yet
    daemon,     \* the connection it serves
    tool,       \* a run of provision add
    effect,     \* history: what the command of r did to the keystore
    current     \* history: requests whose list still shows every status

vars == <<keystore, req, queue, daemon, tool, effect, current>>

\* A handler asks the daemon up to three times: for the list that the revocation
\* of an admin needs, for its command, and for the list on its page.  The last
\* only reads, and is left out of the queue.
Asking == {"check", "write"}
IsAdmin(id) == id \in Admins
ActiveAdmins == {id \in Admins : Active(id)}

\* A command is a line the daemon reads; req[r].command is the one not sent yet.
NoCommand == [op |-> Nothing, id |-> Nothing, label |-> Nothing]
List == [NoCommand EXCEPT !.op = "list"]
Commands ==
    {List} \cup [op : {"add"}, id : {Nothing}, label : Label]
           \cup [op : {"revoke", "activate"}, id : Id, label : {Nothing}]
           \cup [op : {"label"}, id : Id, label : Label]

NoReply == [is |-> Nothing, admins |-> 0]
Says(word) == [is |-> word, admins |-> 0]

Unsent == [pc |-> "idle", command |-> NoCommand, reply |-> NoReply, outcome |-> Nothing]
NoJob == [pc |-> "idle", from |-> Nothing, command |-> NoCommand, id |-> Nothing, tries |-> 0,
          reply |-> NoReply]
NoRun == [pc |-> "idle", id |-> Nothing, tries |-> 0]

Init ==
    /\ \E label \in Label :
          keystore = [id \in Id |-> IF id \in Initial
                                    THEN [status |-> "active", key |-> id, note |-> label]
                                    ELSE NoRow]
    /\ req = [r \in Request |-> Unsent]
    /\ queue = <<>>
    /\ daemon = NoJob
    /\ tool = NoRun
    /\ effect = [r \in Request |-> Nothing]
    /\ current = {}

-----------------------------------------------------------------------------
(* The handlers.                                                           *)

\* ask(): connect, send the command, start to wait.
Ask(r, command) == queue' = Append(queue, [from |-> r, command |-> command])

GoOn(r, step, outcome) ==
    req' = [req EXCEPT ![r] = [Unsent EXCEPT !.pc = step, !.outcome = outcome]]

\* A request whose ID or label is malformed is answered without the daemon.
Refuse(r) ==
    /\ req[r].pc = "idle"
    /\ \E outcome \in {"no", "malformed"} : GoOn(r, "page", outcome)
    /\ UNCHANGED <<keystore, queue, daemon, tool, effect, current>>

\* A request of an active admin's session gets past guard().
Post(r, command) ==
    /\ req[r].pc = "idle" /\ command # List
    /\ \/ /\ command.op = "revoke" /\ IsAdmin(command.id)
          /\ req' = [req EXCEPT ![r] = [@ EXCEPT !.pc = "check", !.command = command]]
          /\ Ask(r, List)
       \/ /\ ~(command.op = "revoke" /\ IsAdmin(command.id))
          /\ req' = [req EXCEPT ![r] = [@ EXCEPT !.pc = "write"]]
          /\ Ask(r, command)
    /\ UNCHANGED <<keystore, daemon, tool, effect, current>>

NoAdmin(n) == n < 1                 \* mutation: off by one
LastAdmin(n) == n =< 1

\* A list that could not be read counts as an empty one.
AfterCheck(r, reply) ==
    /\ req[r].pc = "check"
    /\ LET n == IF reply.is = "LIST" THEN reply.admins ELSE 0
       IN  \/ LastAdmin(n) /\ GoOn(r, "page", "last") /\ UNCHANGED queue /\ current' = current \ {r}
           \/ /\ ~LastAdmin(n)
              /\ GoOn(r, "write", Nothing) /\ Ask(r, req[r].command) /\ UNCHANGED current

\* okNo() and add(): a reply that is neither OK nor NO, or none, is an error.
OutcomeOrNo(reply) == IF reply.is = "OK" THEN "ok" ELSE "no"    \* mutation: !== OK is NO
Outcome(reply) ==
    CASE reply.is = "OK" -> "ok"
      [] reply.is = "NO" -> "no"
      [] OTHER -> "error"

AfterWrite(r, reply) ==
    /\ req[r].pc = "write"
    /\ GoOn(r, "page", Outcome(reply))
    /\ UNCHANGED <<queue, current>>

Resume(r, reply) == AfterCheck(r, reply) \/ AfterWrite(r, reply)

Receive(r) ==
    /\ req[r].reply # NoReply
    /\ Resume(r, req[r].reply)
    /\ UNCHANGED <<keystore, daemon, tool, effect>>

\* The timer fires.  The connection stays where it is.
GiveUp(r) ==
    /\ Resume(r, NoReply)
    /\ UNCHANGED <<keystore, daemon, tool, effect>>

\* page(): if the list does not come, it says so instead of the outcome.
Page(r) ==
    /\ req[r].pc = "page"
    /\ \E outcome \in {req[r].outcome, "unreachable"} : GoOn(r, "done", outcome)
    /\ UNCHANGED <<keystore, queue, daemon, tool, effect, current>>

-----------------------------------------------------------------------------
(* The daemon: accept, read one line, execute it, reply, close.            *)

Replying(from, op, reply) ==
    daemon' = [NoJob EXCEPT !.pc = "reply", !.from = from, !.reply = reply,
                            !.command = [NoCommand EXCEPT !.op = op]]

\* What a command did: whether it is done, and whether that changed anything.
Note(r) ==
    effect' = [effect EXCEPT ![r] = IF keystore' = keystore THEN "done" ELSE "changed"]

\* The reply reaches the sender if that still waits for it.
Anyone(r, op) == TRUE               \* mutation: a late reply is delivered
Waits(r, op) == req[r].pc = IF op = "list" THEN "check" ELSE "write"

Listed(r) ==
    /\ Replying(r, "list", [is |-> "LIST", admins |-> Cardinality(ActiveAdmins)])
    /\ current' = IF Waits(r, "list") THEN current \cup {r} ELSE current
    /\ UNCHANGED <<keystore, effect>>

\* REVOKE, ACTIVATE and LABEL answer NO when no row has the ID.
Update(r, command) ==
    LET id == command.id
    IN  \/ /\ ~Found(id)
           /\ Replying(r, command.op, Says("NO"))
           /\ current' = current \ {r}
           /\ UNCHANGED <<keystore, effect>>
        \/ /\ Found(id)
           /\ \/ command.op = "revoke" /\ SetDeviceStatus(id, "revoked") /\ current' = {}
              \/ command.op = "activate" /\ SetDeviceStatus(id, "active") /\ current' = {}
              \/ /\ command.op = "label" /\ SetDeviceNote(id, command.label)
                 /\ current' = current \ {r}
           /\ Note(r)
           /\ Replying(r, command.op, Says("OK"))

Execute(r, command) ==
    \/ command = List /\ Listed(r)
    \/ command.op \in {"revoke", "activate", "label"} /\ Update(r, command)
    \/ /\ command.op = "add"
       /\ daemon' = [NoJob EXCEPT !.pc = "draw", !.from = r, !.command = command]
       /\ UNCHANGED <<keystore, effect, current>>
    \/ /\ Replying(r, command.op, Says("ERR"))
       /\ current' = current \ {r}
       /\ UNCHANGED <<keystore, effect>>

Serve ==
    /\ daemon.pc = "idle" /\ queue # <<>>
    /\ queue' = Tail(queue)
    /\ Execute(Head(queue).from, Head(queue).command)
    /\ UNCHANGED <<req, tool>>

TriesForever(n) == 1                \* mutation: the attempt is not counted
Tries(n) == n + 1

\* The next attempt at an ID, or none.
TryAgain ==
    IF Tries(daemon.tries) < MaxTries
    THEN daemon' = [daemon EXCEPT !.pc = "draw", !.id = Nothing, !.tries = Tries(daemon.tries)]
    ELSE Replying(daemon.from, "add", Says("ERR"))

\* ADD draws an ID and looks it up.
Draw(id) ==
    /\ daemon.pc = "draw"
    /\ \/ ~Found(id) /\ daemon' = [daemon EXCEPT !.pc = "insert", !.id = id]
       \/ Found(id) /\ TryAgain
       \/ Replying(daemon.from, "add", Says("ERR"))
    /\ UNCHANGED <<keystore, req, queue, tool, effect, current>>

\* Its INSERT may fail, because the ID is taken by now or for another reason.
Insert ==
    /\ daemon.pc = "insert"
    /\ \/ /\ AddDevice(daemon.id, daemon.from, daemon.command.label)
          /\ Note(daemon.from)
          /\ current' = {}
          /\ Replying(daemon.from, "add", Says("OK"))
       \/ /\ TryAgain
          /\ UNCHANGED <<keystore, effect, current>>
    /\ UNCHANGED <<req, queue, tool>>

Reply ==
    LET r == daemon.from
    IN  /\ daemon.pc = "reply"
        /\ req' = IF Waits(r, daemon.command.op)
                  THEN [req EXCEPT ![r] = [@ EXCEPT !.reply = daemon.reply]]
                  ELSE req
        /\ daemon' = NoJob
        /\ UNCHANGED <<keystore, queue, tool, effect, current>>

\* The daemon is stopped and started: whoever is connected sees end of file.
Restart ==
    /\ daemon.pc # "idle" \/ queue # <<>>
    /\ daemon' = NoJob
    /\ queue' = <<>>
    /\ req' = [r \in Request |->
                 IF req[r].pc \in Asking /\ req[r].reply = NoReply
                 THEN [req[r] EXCEPT !.reply = Says("EOF")] ELSE req[r]]
    /\ current' = {r \in current : req[r].pc = "check"}
    /\ UNCHANGED <<keystore, tool, effect>>

-----------------------------------------------------------------------------
(* The provisioning tool, run by hand while the daemon serves.             *)

ToolAdd ==
    /\ tool.pc = "idle"
    /\ tool' = [NoRun EXCEPT !.pc = "draw"]
    /\ UNCHANGED <<keystore, req, queue, daemon, effect, current>>

ToolTryAgain ==
    tool' = IF Tries(tool.tries) < MaxTries
            THEN [tool EXCEPT !.pc = "draw", !.id = Nothing, !.tries = Tries(tool.tries)]
            ELSE NoRun

ToolDraw(id) ==
    /\ tool.pc = "draw"
    /\ \/ ~Found(id) /\ tool' = [tool EXCEPT !.pc = "insert", !.id = id]
       \/ Found(id) /\ ToolTryAgain
    /\ UNCHANGED <<keystore, req, queue, daemon, effect, current>>

ToolInsert(label) ==
    /\ tool.pc = "insert"
    /\ \/ /\ AddDevice(tool.id, Tool, label)
          /\ current' = {}
          /\ tool' = [tool EXCEPT !.pc = "header"]
       \/ /\ ToolTryAgain
          /\ UNCHANGED <<keystore, current>>
    /\ UNCHANGED <<req, queue, daemon, effect>>

\* The firmware header, if one is asked for, is written, or it is not ...
ToolHeader ==
    /\ tool.pc = "header"
    /\ tool' \in {NoRun, [tool EXCEPT !.pc = "undo"]}
    /\ UNCHANGED <<keystore, req, queue, daemon, effect, current>>

\* ... and the device is to be revoked.  Whether that worked is not looked at:
\* the tool says that it has revoked the device.
ToolUndo ==
    /\ tool.pc = "undo"
    /\ \/ SetDeviceStatus(tool.id, "revoked") /\ current' = {}
       \/ UNCHANGED <<keystore, current>>
    /\ tool' = [tool EXCEPT !.pc = "revoked it"]
    /\ UNCHANGED <<req, queue, daemon, effect>>

\* provision revoke, activate and label.
ToolUpdate(id) ==
    /\ tool.pc = "idle" /\ Found(id)
    /\ \/ \E status \in {"active", "revoked"} : SetDeviceStatus(id, status) /\ current' = {}
       \/ \E label \in Label : SetDeviceNote(id, label) /\ UNCHANGED current
    /\ UNCHANGED <<req, queue, daemon, tool, effect>>

\* It ends, it fails, or its user interrupts it.
ToolStops ==
    /\ tool.pc # "idle"
    /\ tool' = NoRun
    /\ UNCHANGED <<keystore, req, queue, daemon, effect, current>>

-----------------------------------------------------------------------------

Next ==
    \/ \E r \in Request, command \in Commands : Post(r, command)
    \/ \E r \in Request : Refuse(r) \/ Receive(r) \/ GiveUp(r) \/ Page(r)
    \/ Serve \/ Insert \/ Reply \/ Restart
    \/ ToolAdd \/ ToolHeader \/ ToolUndo \/ ToolStops
    \/ \E id \in Id : Draw(id) \/ ToolDraw(id) \/ ToolUpdate(id)
    \/ \E label \in Label : ToolInsert(label)

Spec == Init /\ [][Next]_vars

-----------------------------------------------------------------------------
(* Properties.                                                             *)

ReplyOK(reply) ==
    /\ reply.is \in {Nothing, "LIST", "OK", "NO", "ERR", "EOF"}
    /\ reply.admins \in 0 .. Cardinality(Admins)

\* Type invariant; a reply waiting for a handler is one it is waiting for.
TypeOK ==
    /\ KeystoreOK
    /\ \A r \in Request :
          /\ req[r].pc \in Asking \cup {"idle", "page", "done"}
          /\ req[r].command \in Commands \cup {NoCommand}
          /\ req[r].outcome \in {Nothing, "ok", "no", "error", "last", "malformed", "unreachable"}
          /\ ReplyOK(req[r].reply)
          /\ req[r].reply.is = "LIST" => req[r].pc = "check"
          /\ req[r].reply.is \in {"OK", "NO"} => req[r].pc = "write"
    /\ queue \in Seq([from : Request, command : Commands])
    /\ daemon.pc \in {"idle", "draw", "insert", "reply"} /\ daemon.tries \in 0 .. MaxTries - 1
    /\ tool.pc \in {"idle", "draw", "insert", "header", "undo", "revoked it"} /\ tool.tries \in 0 .. MaxTries - 1

\* Provisioning never overwrites or shadows a device: a row keeps its key,
\* although the daemon and the tool look an ID up in one step and insert it in
\* another (provision/main.cpp:89-90, admin/main.cpp:68-78).
KeysStay ==
    [][\A id \in Id : Found(id) => keystore'[id].key = keystore[id].key]_vars

\* What the dashboard says of a command is true of the command: done if it
\* says so, and not done if it says there is no such device or that it did not
\* try, whatever replies are late or lost.
SaysWhatWasDone ==
    \A r \in Request :
        /\ req[r].outcome = "ok" => effect[r] # Nothing
        /\ req[r].outcome \in {"no", "last", "malformed"} => effect[r] = Nothing

\* The daemon revokes the last active admin only for a request whose list went
\* out of date while it waited (routes/admin.js:135-140).
OnlyRacesTakeLastAdmin ==
    [][queue # <<>> /\ queue' = Tail(queue) /\ ActiveAdmins # {} /\ ActiveAdmins' = {}
          => Head(queue).from \notin current]_vars

\* However unlucky the IDs it draws, the daemon gets on with a command: each of
\* its steps brings it nearer to its queue (admin/main.cpp:68).
Rank(job) ==
    CASE job.pc = "idle" -> 0
      [] job.pc = "reply" -> 1
      [] job.pc = "insert" -> 2 * (MaxTries - job.tries)
      [] job.pc = "draw" -> 2 * (MaxTries - job.tries) + 1

DaemonAdvances ==
    [][daemon.pc # "idle" /\ daemon' # daemon => Rank(daemon') < Rank(daemon)]_vars

\* What runbook.md:93 says: the dashboard never revokes the last active admin.
LastAdminStays ==
    [][ActiveAdmins # {} /\ ActiveAdmins' = {} => effect' = effect]_vars

\* What the dashboard says after an error or without a list
\* (routes/admin.js:39, 124, 144, 157): nothing was changed.
NothingWasChanged ==
    \A r \in Request :
        req[r].pc = "done" /\ req[r].outcome \in {"error", "unreachable"} => effect[r] # "changed"

\* What the tool says when it could not write the header (provision/main.cpp:106,
\* 109): it has revoked the device, "so a half-provisioned key is never live".
RevokedWhenItSaysSo ==
    [][tool.pc = "undo" /\ tool'.pc = "revoked it" => keystore'[tool.id].status = "revoked"]_vars
=============================================================================
