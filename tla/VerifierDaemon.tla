--------------------------- MODULE VerifierDaemon ---------------------------
(***************************************************************************)
(* The verifier daemon (verifier/main.cpp) and those who connect to it:    *)
(* the accept loop with its limit on connections in flight, the thread     *)
(* that serves a connection (read one line, answer, drain, close), signals,*)
(* crashes and the start after them; and ask() of auth-web/src/verifier.js *)
(* as the client, next to clients that send something else.                *)
(*                                                                         *)
(* A message is known by its length, the place of its first newline, what  *)
(* its line asks of the one device, and who sends it.  Bytes arrive one by *)
(* one.  A read that finds none and no end of file may time out: how long  *)
(* it waited is not modelled, how often a connection waits is.             *)
(***************************************************************************)
EXTENDS Naturals, FiniteSets, Sequences

CONSTANTS
    Conn,           \* connections; each is used again when it is over
    Message,        \* what clients send
    MaxRequest,     \* MAX_REQUEST: read_line's buffer has one byte more
    DrainLimit,     \* how much is drained: 4096
    Sink,           \* sizeof sink
    MaxInFlight,    \* MAX_IN_FLIGHT
    Nothing

Ask == {"STATUS", "VERIFY", "WRONG", "junk"}    \* WRONG is VERIFY with a wrong code

ASSUME VerifierAssumption ==
    /\ IsFiniteSet(Conn)
    /\ Message \subseteq [asks : Ask, bytes : Nat \ {0}, newline : Nat,
                          ends : BOOLEAN, allowed : BOOLEAN]
    /\ \A m \in Message : m.newline =< m.bytes
    /\ {MaxRequest, DrainLimit, Sink, MaxInFlight} \subseteq Nat \ {0}
    /\ Nothing \notin Conn /\ Nothing \notin Message
    /\ Nothing \notin {"OK", "NO", "ACTIVE", "INACTIVE", "ERR", "lost", "yes", "no", "error"}

VARIABLES
    conn,       \* conn[c]: both ends of connection c
    backlog,    \* connections not accepted yet
    inFlight,   \* in_flight
    refusing,   \* the connection the accept loop turns away, if any
    daemon,     \* "down", "check", "bind" or "up"
    path,       \* what is at the socket path: "absent", "socket" or "file"
    active      \* the status of the device in the keystore

vars == <<conn, backlog, inFlight, refusing, daemon, path, active>>

\* The daemon's end: pc, what it has taken, what it had taken when it answered
\* (base), the reply, whether a read has timed out.  The client's: the message,
\* what it has sent, whether it has closed, and what it has made of the reply.
NoConn == [pc |-> "none", taken |-> 0, base |-> 0, reply |-> Nothing, late |-> FALSE,
           msg |-> Nothing, sent |-> 0, closed |-> FALSE, client |-> "idle", got |-> Nothing]

Thread == {"read", "handle", "write", "drain", "close", "release"}
Holding == {c \in Conn : conn[c].pc \in Thread}

Init ==
    /\ conn = [c \in Conn |-> NoConn]
    /\ backlog = <<>>
    /\ inFlight = 0
    /\ refusing = Nothing
    /\ daemon = "down"
    /\ path \in {"absent", "file"}
    /\ active \in BOOLEAN

\* Of a connection that is over only what its client may still see is kept.
Over(k, reply) ==
    [NoConn EXCEPT !.pc = "closed", !.reply = reply, !.msg = k.msg, !.client = k.client, !.got = k.got]

-----------------------------------------------------------------------------
(* The client.                                                             *)

Connect(c, m) ==
    /\ conn[c].client = "idle" /\ daemon = "up"
    /\ conn' = [conn EXCEPT ![c] = [NoConn EXCEPT !.pc = "backlog", !.client = "open", !.msg = m]]
    /\ backlog' = Append(backlog, c)
    /\ UNCHANGED <<inFlight, refusing, daemon, path, active>>

\* The daemon has closed its end, or has only said that no more will come.
Gone(c) == conn[c].pc \in {"release", "closed"}
Ended(c) == conn[c].pc \in {"drain", "close", "release", "closed"}

Send(c) ==
    /\ conn[c].client = "open" /\ ~Gone(c)
    /\ conn[c].sent < conn[c].msg.bytes
    /\ conn' = [conn EXCEPT ![c] =
           [@ EXCEPT !.sent = conn[c].sent + 1,
                     !.closed = conn[c].msg.ends /\ conn[c].sent + 1 = conn[c].msg.bytes]]
    /\ UNCHANGED <<backlog, inFlight, refusing, daemon, path, active>>

\* verify() and status(): everything unexpected is an error, and that is no yes.
Verdict(reply) ==
    CASE reply \in {"OK", "ACTIVE"} -> "yes"
      [] reply \in {"NO", "INACTIVE"} -> "no"
      [] OTHER -> "error"

\* finish(): the client settles, and destroys its end.
Settle(c, verdict) ==
    /\ conn[c].client = "open"
    /\ conn' = [conn EXCEPT ![c] = [@ EXCEPT !.client = "done", !.got = verdict, !.closed = TRUE]]
    /\ UNCHANGED <<backlog, inFlight, refusing, daemon, path, active>>

Receive(c) == Ended(c) /\ conn[c].reply # Nothing /\ Settle(c, Verdict(conn[c].reply))

\* End of file without a line, an error of the socket, or the timer of ask().
GiveUp(c) == Settle(c, "error")

Forget(c) ==
    /\ conn[c].client = "done" /\ conn[c].pc = "closed"
    /\ conn' = [conn EXCEPT ![c] = NoConn]
    /\ UNCHANGED <<backlog, inFlight, refusing, daemon, path, active>>

-----------------------------------------------------------------------------
(* The accept loop.                                                        *)

Busy(n) == n >= MaxInFlight

\* A disallowed peer is neither read nor answered.
Start(c) ==
    conn' = [conn EXCEPT ![c].pc = IF conn[c].msg.allowed THEN "read" ELSE "drain"]

Accept ==
    /\ daemon = "up" /\ refusing = Nothing /\ backlog # <<>>
    /\ LET c == Head(backlog)
       IN  /\ inFlight' = inFlight + 1
           /\ \/ Busy(inFlight) /\ refusing' = c /\ UNCHANGED conn
              \/ ~Busy(inFlight) /\ Start(c) /\ UNCHANGED refusing
    /\ backlog' = Tail(backlog)
    /\ UNCHANGED <<daemon, path, active>>

\* Closing with input unread resets the connection, and a reply the client has
\* not seen may be lost.
Unread(c) == conn[c].sent > conn[c].taken
Kept(c, reply) == {reply} \cup (IF Unread(c) /\ reply # Nothing THEN {"lost"} ELSE {})

Refuse ==
    /\ refusing # Nothing
    /\ inFlight' = inFlight - 1
    /\ \E reply \in Kept(refusing, "ERR") :
          conn' = [conn EXCEPT ![refusing] = Over(conn[refusing], reply)]
    /\ refusing' = Nothing
    /\ UNCHANGED <<backlog, daemon, path, active>>

-----------------------------------------------------------------------------
(* serve(): one thread per connection.                                     *)

Local == UNCHANGED <<backlog, inFlight, refusing, daemon, path, active>>

AtMost(a, b) == IF a < b THEN a ELSE b

\* What a read in progress can come to: bytes, end of file, or the timeout.
Bytes(c) == Unread(c)
AtEnd(c) == ~Unread(c) /\ conn[c].closed
WaitsForEver(c) == FALSE            \* mutation: no SO_RCVTIMEO
TimesOut(c) == ~Unread(c) /\ ~conn[c].closed

FullLate(n) == n > MaxRequest + 1   \* mutation: one byte past the buffer
Full(n) == n > MaxRequest
Newline(c, n) == conn[c].msg.newline \in 1 .. n

Err(c) == [conn[c] EXCEPT !.pc = "write", !.reply = "ERR"]

\* read_line(): the buffer fills up until it holds a newline.
ReadLine(c) ==
    /\ conn[c].pc = "read"
    /\ \/ /\ Bytes(c)
          /\ LET n == AtMost(conn[c].sent, MaxRequest + 1)
             IN  conn' = [conn EXCEPT ![c] =
                     CASE Newline(c, n) -> [conn[c] EXCEPT !.taken = n, !.pc = "handle"]
                       [] ~Newline(c, n) /\ Full(n) -> [Err(c) EXCEPT !.taken = n]
                       [] OTHER -> [conn[c] EXCEPT !.taken = n]]
       \/ AtEnd(c) /\ conn' = [conn EXCEPT ![c] = Err(c)]
       \/ TimesOut(c) /\ conn' = [conn EXCEPT ![c] = [Err(c) EXCEPT !.late = TRUE]]
    /\ Local

\* handle_request(), verify_code(): the keystore may fail.
StatusOnError == "ERR"
VerifyFailsOpen == "OK"             \* mutation: the error of the lookup is ignored
VerifyOnError == "NO"

Answers(ask) ==
    CASE ask = "STATUS" -> {IF active THEN "ACTIVE" ELSE "INACTIVE", StatusOnError}
      [] ask = "VERIFY" -> {IF active THEN "OK" ELSE "NO", VerifyOnError}
      [] ask = "WRONG" -> {"NO"}
      [] ask = "junk" -> {"ERR"}

Handle(c) ==
    /\ conn[c].pc = "handle"
    /\ \E reply \in Answers(conn[c].msg.asks) :
          conn' = [conn EXCEPT ![c] = [@ EXCEPT !.pc = "write", !.reply = reply]]
    /\ Local

\* write_all() and shutdown(): the client sees the reply, and the end of it.
WriteAndClose(c) ==                 \* mutation: close without draining
    /\ conn[c].pc = "write"
    /\ conn' = [conn EXCEPT ![c] = [@ EXCEPT !.pc = "close", !.base = conn[c].taken]]
    /\ Local

Write(c) ==
    /\ conn[c].pc = "write"
    /\ conn' = [conn EXCEPT ![c] = [@ EXCEPT !.pc = "drain", !.base = conn[c].taken]]
    /\ Local

EnoughNever(n) == FALSE             \* mutation: what was drained is not counted
Enough(n) == n >= DrainLimit

Drain(c) ==
    /\ conn[c].pc = "drain"
    /\ \/ /\ Bytes(c)
          /\ LET n == AtMost(conn[c].sent, conn[c].taken + Sink)
             IN  conn' = [conn EXCEPT ![c] =
                     [@ EXCEPT !.taken = n,
                               !.pc = IF Enough(n - conn[c].base) THEN "close" ELSE "drain"]]
       \/ AtEnd(c) /\ conn' = [conn EXCEPT ![c].pc = "close"]
       \/ TimesOut(c) /\ conn' = [conn EXCEPT ![c] = [@ EXCEPT !.pc = "close", !.late = TRUE]]
    /\ Local

Close(c) ==
    /\ conn[c].pc = "close"
    /\ \E reply \in Kept(c, conn[c].reply) :
          conn' = [conn EXCEPT ![c] = [@ EXCEPT !.pc = "release", !.reply = reply]]
    /\ Local

GivenBackIfAnswered(c) == IF conn[c].reply = Nothing THEN 0 ELSE 1
                                    \* mutation: a refused peer keeps its slot
GivenBack(c) == 1

Release(c) ==
    /\ conn[c].pc = "release"
    /\ inFlight' = inFlight - GivenBack(c)
    /\ conn' = [conn EXCEPT ![c] = Over(conn[c], conn[c].reply)]
    /\ UNCHANGED <<backlog, refusing, daemon, path, active>>

Serve(c) == ReadLine(c) \/ Handle(c) \/ Write(c) \/ Drain(c) \/ Close(c) \/ Release(c)

-----------------------------------------------------------------------------
(* The process.                                                            *)

\* Every connection ends, and a reply may be lost with it.
Exit ==
    /\ daemon' = "down"
    /\ \E lost \in SUBSET {c \in Conn : conn[c].pc # "closed" /\ conn[c].reply # Nothing} :
          /\ {c \in Conn : conn[c].pc = "write"} \subseteq lost
          /\ conn' = [c \in Conn |->
                        IF conn[c].pc = "none" THEN NoConn
                        ELSE Over(conn[c], IF c \in lost THEN "lost" ELSE conn[c].reply)]
    /\ backlog' = <<>>
    /\ inFlight' = 0
    /\ refusing' = Nothing
    /\ UNCHANGED active

\* on_signal(): SIGTERM and SIGINT, from harden_process() on.
Signal == daemon # "down" /\ Exit /\ path' = "absent"

\* A crash, no memory for a thread, no readable keystore: the socket stays.
Crash == daemon # "down" /\ Exit /\ UNCHANGED path

\* main(): once its signals are handled and the keystore has been read ...
Begin ==
    /\ daemon = "down" /\ daemon' = "check"
    /\ UNCHANGED <<conn, backlog, inFlight, refusing, path, active>>

\* ... a socket left by an earlier run goes, anything else stays ...
AnyFile == {"absent", "socket", "file"}     \* mutation: unlink whatever is there
Removed == {"absent", "socket"}

Check ==
    /\ daemon = "check"
    /\ \/ path \in Removed /\ daemon' = "bind" /\ path' = "absent"
       \/ path \notin Removed /\ daemon' = "down" /\ UNCHANGED path
    /\ UNCHANGED <<conn, backlog, inFlight, refusing, active>>

\* ... and bind() needs a free path.
Bind ==
    /\ daemon = "bind"
    /\ \/ path = "absent" /\ path' = "socket" /\ daemon' = "up"
       \/ path # "absent" /\ daemon' = "down" /\ UNCHANGED path
    /\ UNCHANGED <<conn, backlog, inFlight, refusing, active>>

\* Somebody puts a file there.
PutFile ==
    /\ path = "absent" /\ path' = "file"
    /\ UNCHANGED <<conn, backlog, inFlight, refusing, daemon, active>>

\* The device is revoked or reactivated in the keystore.
Toggle ==
    /\ active' = ~active
    /\ UNCHANGED <<conn, backlog, inFlight, refusing, daemon, path>>

-----------------------------------------------------------------------------

Next ==
    \/ \E c \in Conn :
          \/ \E m \in Message : Connect(c, m)
          \/ Send(c) \/ Receive(c) \/ GiveUp(c) \/ Forget(c)
          \/ Serve(c)
    \/ Accept \/ Refuse
    \/ Signal \/ Crash \/ Begin \/ Check \/ Bind
    \/ PutFile \/ Toggle

\* Threads run, and a read that waits times out: SO_RCVTIMEO.
Fairness ==
    /\ WF_vars(Accept) /\ WF_vars(Refuse)
    /\ \A c \in Conn : WF_vars(Serve(c))

Spec == Init /\ [][Next]_vars /\ Fairness
-----------------------------------------------------------------------------
(* Properties.                                                             *)

Record ==
    [pc : Thread \cup {"none", "backlog", "closed"}, taken : Nat, base : Nat, late : BOOLEAN,
     reply : {Nothing, "OK", "NO", "ACTIVE", "INACTIVE", "ERR", "lost"},
     msg : Message \cup {Nothing}, sent : Nat, closed : BOOLEAN,
     client : {"idle", "open", "done"}, got : {Nothing, "yes", "no", "error"}]

ConnOK(k) ==
    /\ k.base =< k.taken /\ k.taken =< k.sent
    /\ k.pc = "none" <=> k.client = "idle"
    /\ k.pc # "none" => k.msg \in Message /\ k.sent =< k.msg.bytes
    /\ k.pc \in {"backlog", "read", "handle"} => k.reply = Nothing
    /\ k.pc = "read" => k.taken =< MaxRequest

\* Type invariant; a buffer that is read into has room.
TypeOK ==
    /\ conn \in [Conn -> Record] /\ \A c \in Conn : ConnOK(conn[c])
    /\ backlog \in Seq({c \in Conn : conn[c].pc = "backlog"})
    /\ inFlight \in 0 .. MaxInFlight + 1
    /\ refusing \in Conn \cup {Nothing}
    /\ daemon \in {"down", "check", "bind", "up"}
    /\ path \in {"absent", "socket", "file"}
    /\ active \in BOOLEAN

\* in_flight counts the threads, and the connection being turned away if there
\* is one, whatever ends them: no slot is lost, and no more than MaxInFlight
\* connections are ever served at a time (main.cpp:343-351).
SlotsCounted ==
    /\ inFlight = Cardinality(Holding) + (IF refusing = Nothing THEN 0 ELSE 1)
    /\ Cardinality(Holding) =< MaxInFlight

\* A client that sends no more than is drained after its reply, and never keeps
\* the daemon waiting for a whole timeout, gets the reply that was written to it,
\* although a close with input left is a reset (main.cpp:231-235).
RepliesArrive ==
    [][\A c \in Conn :
          /\ conn[c].client = "open" /\ conn[c].reply \notin {Nothing, "lost"}
          /\ conn'[c].reply = "lost" /\ daemon' # "down"
          => conn[c].late \/ conn[c].msg.bytes > conn[c].base + DrainLimit]_vars

\* However slowly a client sends, a thread gets on: each of its steps lowers a
\* rank that starts at MaxRequest + DrainLimit + 5.  A connection is held for
\* as many reads, and so for at most that many timeouts.
Rank(k) ==
    CASE k.pc = "read" -> MaxRequest + 1 - k.taken + DrainLimit + 4
      [] k.pc = "handle" -> DrainLimit + 4
      [] k.pc = "write" -> DrainLimit + 3
      [] k.pc = "drain" -> IF k.taken - k.base < DrainLimit
                           THEN DrainLimit - (k.taken - k.base) + 2 ELSE 0
      [] k.pc = "close" -> 2
      [] k.pc = "release" -> 1
      [] k.pc = "closed" -> 0

ConnectionAdvances ==
    [][\A c \in Holding :
          \/ conn'[c].pc = conn[c].pc /\ conn'[c].taken = conn[c].taken
          \/ Rank(conn'[c]) < Rank(conn[c])]_vars

\* Starting, the daemon removes nothing but a socket: a file at the path only
\* goes when a signal ends the daemon (main.cpp:305-314, 66-70).
FilesOutliveStarts ==
    [][path = "file" => path' = "file" \/ (path' = "absent" /\ daemon' = "down")]_vars

\* Every connection comes to its end, whether its client sends, stalls or goes.
ConnectionsEnd ==
    \A c \in Conn :
        conn[c].pc \in Thread \cup {"backlog"} ~> conn[c].pc \notin Thread \cup {"backlog"}

\* What a client has asked, and what it has been or is being told.
Asked(k) == IF k.msg = Nothing THEN Nothing ELSE k.msg.asks
Told(k) ==
    IF k.client = "done" THEN k.got
    ELSE IF k.reply = Nothing THEN Nothing ELSE Verdict(k.reply)

\* What the daemon answers is what VerifierService promises.
Service ==
    INSTANCE VerifierService WITH
        Caller <- Conn,
        Question <- Ask,
        phase <- [c \in Conn |-> conn[c].client],
        question <- [c \in Conn |-> Asked(conn[c])],
        verdict <- [c \in Conn |-> Told(conn[c])]

ImplementsVerifierService == Service!Spec
=============================================================================
