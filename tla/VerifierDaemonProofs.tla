------------------------ MODULE VerifierDaemonProofs ------------------------
(***************************************************************************)
(* Proofs about VerifierDaemon: its types, the count of its slots, that    *)
(* replies arrive and connections advance, and that it implements          *)
(* VerifierService.                                                        *)
(***************************************************************************)
EXTENDS VerifierDaemon, FiniteSetTheorems, SequenceTheorems, TLAPS

-----------------------------------------------------------------------------
(* The inductive invariant.                                                *)

\* How far a connection has come: one that waits has not been read, one that is drained has room left, a client
\* that ends its message has sent it, and one that is closed in time has been
\* drained of all it may send or of as much as is drained.
Passed(k) ==
    /\ k.pc = "none" => k = NoConn
    /\ k.pc = "backlog" => k.taken = 0
    /\ k.pc = "drain" => k.taken < k.base + DrainLimit
    /\ k.pc # "closed" /\ k.closed /\ k.client = "open" => k.sent = k.msg.bytes
    /\ k.pc = "close" /\ k.client = "open" /\ ~k.late =>
          \/ k.taken >= k.base + DrainLimit
          \/ k.taken = k.sent /\ k.sent = k.msg.bytes

Good == {k \in Record : ConnOK(k) /\ Passed(k)}

Waiting == {c \in Conn : conn[c].pc = "backlog"}

\* No connection waits twice, or both waits and is being refused.
InLine ==
    /\ backlog \in Seq(Waiting)
    /\ \A i, j \in 1 .. Len(backlog) : i # j => backlog[i] # backlog[j]
    /\ refusing # Nothing => refusing \in Waiting
    /\ \A i \in 1 .. Len(backlog) : backlog[i] # refusing

Typed ==
    /\ inFlight \in 0 .. MaxInFlight + 1
    /\ refusing \in Conn \cup {Nothing}
    /\ daemon \in {"down", "check", "bind", "up"}
    /\ path \in {"absent", "socket", "file"}
    /\ active \in BOOLEAN

Inv ==
    /\ conn \in [Conn -> Good]
    /\ InLine
    /\ SlotsCounted
    /\ Typed

LEMMA InvImplies == Inv => TypeOK /\ SlotsCounted
BY DEF Inv, TypeOK, Good, InLine, Waiting, Typed

-----------------------------------------------------------------------------
(* What a step makes of a connection.                                      *)

LEMMA Sizes ==
    /\ MaxRequest \in Nat \ {0} /\ DrainLimit \in Nat \ {0}
    /\ Sink \in Nat \ {0} /\ MaxInFlight \in Nat \ {0}
    /\ Nothing \notin Conn /\ Nothing \notin Message
    /\ IsFiniteSet(Conn)
BY VerifierAssumption

LEMMA Bytesizes ==
    ASSUME NEW m \in Message
    PROVE  /\ m.bytes \in Nat \ {0} /\ m.ends \in BOOLEAN
           /\ m.newline \in Nat /\ m.newline =< m.bytes
           /\ m.allowed \in BOOLEAN /\ m.asks \in Ask
BY VerifierAssumption

LEMMA NoneIsGood == NoConn \in Good
BY Sizes DEF NoConn, Good, Record, Thread, ConnOK, Passed

LEMMA ConnectedIsGood ==
    ASSUME NEW m \in Message
    PROVE  [NoConn EXCEPT !.pc = "backlog", !.client = "open", !.msg = m] \in Good
<1> DEFINE u == [NoConn EXCEPT !.pc = "backlog", !.client = "open", !.msg = m]
<1>1. u \in Record
  BY NoneIsGood DEF Good, Record
<1>2. /\ u.pc = "backlog" /\ u.client = "open" /\ u.msg = m /\ u.taken = 0 /\ u.base = 0
      /\ u.sent = 0 /\ u.reply = Nothing /\ u.closed = FALSE
  BY DEF NoConn
<1> HIDE DEF u
<1>3. ConnOK(u) /\ Passed(u)
  BY <1>2, Sizes, Bytesizes DEF ConnOK, Passed
<1>4. QED BY <1>1, <1>3 DEF Good, u

LEMMA SentIsGood ==
    ASSUME NEW k \in Good, k.client = "open", k.pc \notin {"release", "closed"},
           k.sent < k.msg.bytes, NEW b \in BOOLEAN, b => k.sent + 1 = k.msg.bytes
    PROVE  [k EXCEPT !.sent = @ + 1, !.closed = b] \in Good
<1> DEFINE u == [k EXCEPT !.sent = @ + 1, !.closed = b]
<1>0. /\ k \in Record /\ ConnOK(k) /\ Passed(k)
      /\ k.pc # "none" /\ k.msg \in Message /\ k.sent \in Nat
  BY DEF Good, ConnOK, Record
<1>1. u \in Record
  <2> DEFINE v == [k EXCEPT !.sent = @ + 1]
  <2>1. v \in Record
    BY <1>0 DEF Record
  <2>2. u = [v EXCEPT !.closed = b]
    OBVIOUS
  <2> HIDE DEF v, u
  <2>3. [v EXCEPT !.closed = b] \in Record
    BY <2>1 DEF Record
  <2>4. QED BY <2>2, <2>3
<1>2. /\ u.pc = k.pc /\ u.taken = k.taken /\ u.base = k.base /\ u.reply = k.reply
      /\ u.msg = k.msg /\ u.sent = k.sent + 1 /\ u.client = k.client /\ u.got = k.got
  BY <1>0 DEF Record
<1>3. u.closed = b /\ u.late = k.late
  BY <1>0 DEF Record
<1> HIDE DEF u
<1>4. ConnOK(u)
  BY <1>0, <1>1, <1>2, <1>3, Bytesizes DEF ConnOK, Record
<1>5. Passed(u)
  BY <1>0, <1>1, <1>2, <1>3, Sizes, Bytesizes DEF Passed, ConnOK, Record
<1>6. QED BY <1>1, <1>4, <1>5 DEF Good, u

LEMMA SettledIsGood ==
    ASSUME NEW k \in Good, k.client = "open", NEW v \in {"yes", "no", "error"}
    PROVE  [k EXCEPT !.client = "done", !.got = v, !.closed = TRUE] \in Good
BY Sizes, Bytesizes DEF Good, Record, Thread, ConnOK, Passed

LEMMA OverIsGood ==
    ASSUME NEW k \in Good, k.pc # "none",
           NEW reply \in {Nothing, "OK", "NO", "ACTIVE", "INACTIVE", "ERR", "lost"}
    PROVE  /\ Over(k, reply) \in Good
           /\ Over(k, reply).pc = "closed" /\ Over(k, reply).reply = reply
           /\ Over(k, reply).msg = k.msg /\ Over(k, reply).client = k.client
           /\ Over(k, reply).got = k.got
<1> DEFINE u == Over(k, reply)
<1>1. k \in Record /\ ConnOK(k) /\ k.client # "idle" /\ k.msg \in Message
  BY DEF Good, ConnOK, Record
<1>2. u \in Record
  BY <1>1, NoneIsGood DEF Good, Record, Over
<1>3. /\ u.pc = "closed" /\ u.reply = reply /\ u.msg = k.msg /\ u.client = k.client /\ u.got = k.got
      /\ u.taken = 0 /\ u.base = 0 /\ u.sent = 0
  BY DEF NoConn, Over
<1> HIDE DEF u
<1>4. ConnOK(u) /\ Passed(u)
  BY <1>1, <1>3, Sizes, Bytesizes DEF ConnOK, Passed
<1>5. QED BY <1>2, <1>3, <1>4 DEF Good, u

\* Reading may take some of what was sent and go on, hand the line over, or answer.
LEMMA ReadOnIsGood ==
    ASSUME NEW k \in Good, k.pc = "read",
           NEW n \in Nat, k.taken =< n, n =< k.sent, n =< MaxRequest
    PROVE  [k EXCEPT !.taken = n] \in Good
BY Sizes, Bytesizes DEF Good, Record, Thread, ConnOK, Passed

LEMMA LineIsGood ==
    ASSUME NEW k \in Good, k.pc = "read",
           NEW n \in Nat, k.taken =< n, n =< k.sent
    PROVE  [k EXCEPT !.taken = n, !.pc = "handle"] \in Good
<1> DEFINE u == [k EXCEPT !.taken = n, !.pc = "handle"]
<1>0. k \in Record /\ ConnOK(k) /\ Passed(k)
  BY DEF Good
<1>1. u \in Record
  BY <1>0, Sizes DEF Record, Thread
<1>2. /\ u.pc = "handle" /\ u.taken = n /\ u.base = k.base /\ u.reply = k.reply /\ u.late = k.late
      /\ u.msg = k.msg /\ u.sent = k.sent /\ u.closed = k.closed /\ u.client = k.client /\ u.got = k.got
  BY <1>0 DEF Record
<1> HIDE DEF u
<1>3. ConnOK(u)
  BY <1>0, <1>1, <1>2, Sizes, Bytesizes DEF ConnOK, Passed, Record
<1>4. Passed(u)
  BY <1>0, <1>1, <1>2, Sizes, Bytesizes DEF Passed, ConnOK, Record
<1>5. QED BY <1>1, <1>3, <1>4 DEF Good, u

LEMMA ErrIsGood ==
    ASSUME NEW k \in Good, k.pc = "read"
    PROVE  [k EXCEPT !.pc = "write", !.reply = "ERR"] \in Good
BY Sizes, Bytesizes DEF Good, Record, Thread, ConnOK, Passed

LEMMA AnsweredIsGood ==
    ASSUME NEW k \in Good, k.pc = "handle",
           NEW reply \in {"OK", "NO", "ACTIVE", "INACTIVE", "ERR"}
    PROVE  [k EXCEPT !.pc = "write", !.reply = reply] \in Good
BY Sizes, Bytesizes DEF Good, Record, Thread, ConnOK, Passed

LEMMA MarkedIsGood ==
    ASSUME NEW k \in Good, k.pc = "write"
    PROVE  [k EXCEPT !.late = TRUE] \in Good
BY Sizes, Bytesizes DEF Good, Record, Thread, ConnOK, Passed

LEMMA FullIsGood ==
    ASSUME NEW k \in Good, k.pc = "write",
           NEW n \in Nat, k.taken =< n, n =< k.sent
    PROVE  [k EXCEPT !.taken = n] \in Good
BY Sizes, Bytesizes DEF Good, Record, Thread, ConnOK, Passed

LEMMA WrittenIsGood ==
    ASSUME NEW k \in Good, k.pc = "write"
    PROVE  [k EXCEPT !.pc = "drain", !.base = k.taken] \in Good
<1> DEFINE u == [k EXCEPT !.pc = "drain", !.base = k.taken]
<1>0. k \in Record /\ ConnOK(k) /\ Passed(k)
  BY DEF Good
<1>1. u \in Record
  BY <1>0, Sizes DEF Record, Thread
<1>2. /\ u.pc = "drain" /\ u.taken = k.taken /\ u.base = k.taken /\ u.reply = k.reply /\ u.late = k.late
      /\ u.msg = k.msg /\ u.sent = k.sent /\ u.closed = k.closed /\ u.client = k.client /\ u.got = k.got
  BY <1>0 DEF Record
<1> HIDE DEF u
<1>3. ConnOK(u)
  BY <1>0, <1>1, <1>2, Sizes, Bytesizes DEF ConnOK, Passed, Record
<1>4. Passed(u)
  BY <1>0, <1>1, <1>2, Sizes, Bytesizes DEF Passed, ConnOK, Record
<1>5. QED BY <1>1, <1>3, <1>4 DEF Good, u

LEMMA DrainedIsGood ==
    ASSUME NEW k \in Good, k.pc = "drain",
           NEW n \in Nat, k.taken =< n, n =< k.sent,
           NEW p \in {"drain", "close"}, p = "close" <=> n - k.base >= DrainLimit
    PROVE  [k EXCEPT !.taken = n, !.pc = p] \in Good
<1> DEFINE u == [k EXCEPT !.taken = n, !.pc = p]
<1>0. k \in Record /\ ConnOK(k) /\ Passed(k)
  BY DEF Good
<1>1. u \in Record
  BY <1>0, Sizes DEF Record, Thread
<1>2. /\ u.pc = p /\ u.taken = n /\ u.base = k.base /\ u.reply = k.reply /\ u.late = k.late
      /\ u.msg = k.msg /\ u.sent = k.sent /\ u.closed = k.closed /\ u.client = k.client /\ u.got = k.got
  BY <1>0 DEF Record
<1> HIDE DEF u
<1>3. ConnOK(u)
  BY <1>0, <1>1, <1>2, Sizes, Bytesizes DEF ConnOK, Passed, Record
<1>4. Passed(u)
  BY <1>0, <1>1, <1>2, Sizes, Bytesizes DEF Passed, ConnOK, Record
<1>5. QED BY <1>1, <1>3, <1>4 DEF Good, u

LEMMA EmptiedIsGood ==
    ASSUME NEW k \in Good, k.pc = "drain", k.taken = k.sent, k.closed
    PROVE  [k EXCEPT !.pc = "close"] \in Good
BY Sizes, Bytesizes DEF Good, Record, Thread, ConnOK, Passed

LEMMA StalledIsGood ==
    ASSUME NEW k \in Good, k.pc = "drain"
    PROVE  [k EXCEPT !.pc = "close", !.late = TRUE] \in Good
BY Sizes, Bytesizes DEF Good, Record, Thread, ConnOK, Passed

LEMMA ClosedIsGood ==
    ASSUME NEW k \in Good, k.pc = "close",
           NEW reply \in {Nothing, "OK", "NO", "ACTIVE", "INACTIVE", "ERR", "lost"}
    PROVE  [k EXCEPT !.pc = "release", !.reply = reply] \in Good
BY Sizes, Bytesizes DEF Good, Record, Thread, ConnOK, Passed

LEMMA StartedIsGood ==
    ASSUME NEW k \in Good, k.pc = "backlog", NEW p \in {"read", "drain"}
    PROVE  [k EXCEPT !.pc = p] \in Good
<1> DEFINE u == [k EXCEPT !.pc = p]
<1>0. k \in Record /\ ConnOK(k) /\ Passed(k)
  BY DEF Good
<1>1. u \in Record
  BY <1>0, Sizes DEF Record, Thread
<1>2. /\ u.pc = p /\ u.taken = k.taken /\ u.base = k.base /\ u.reply = k.reply /\ u.late = k.late
      /\ u.msg = k.msg /\ u.sent = k.sent /\ u.closed = k.closed /\ u.client = k.client /\ u.got = k.got
  BY <1>0 DEF Record
<1> HIDE DEF u
<1>3. ConnOK(u)
  BY <1>0, <1>1, <1>2, Sizes, Bytesizes DEF ConnOK, Passed, Record
<1>4. Passed(u)
  BY <1>0, <1>1, <1>2, Sizes, Bytesizes DEF Passed, ConnOK, Record
<1>5. QED BY <1>1, <1>3, <1>4 DEF Good, u

-----------------------------------------------------------------------------
(* The steps keep the invariant.                                           *)

LEMMA SeqWithin ==
    ASSUME NEW S, NEW s \in Seq(S), NEW T, \A i \in 1 .. Len(s) : s[i] \in T
    PROVE  s \in Seq(T)
BY LenProperties, SeqDef

\* A step that changes one connection, and neither makes it wait nor gives it a
\* thread nor takes one from it.
LEMMA Replaced ==
    ASSUME Inv, NEW c \in Conn, NEW u \in Good, conn' = [conn EXCEPT ![c] = u],
           u.pc = "backlog" <=> conn[c].pc = "backlog",
           u.pc \in Thread <=> conn[c].pc \in Thread,
           Local
    PROVE  Inv'
<1>1. conn' \in [Conn -> Good] /\ Waiting' = Waiting /\ Holding' = Holding
  BY DEF Inv, Waiting, Holding
<1>2. InLine'
  BY <1>1 DEF Inv, InLine, Local
<1>3. SlotsCounted'
  BY <1>1 DEF Inv, SlotsCounted, Local
<1>4. Typed'
  BY DEF Inv, Typed, Local
<1>5. QED BY <1>1, <1>2, <1>3, <1>4 DEF Inv

LEMMA InvInit == Init => Inv
<1> SUFFICES ASSUME Init PROVE Inv
  OBVIOUS
<1>1. conn \in [Conn -> Good] /\ Holding = {} /\ Waiting = {}
  BY NoneIsGood DEF Init, Holding, Waiting, NoConn, Thread
<1>2. InLine
  BY <1>1, Sizes, EmptySeq DEF Init, InLine
<1>3. SlotsCounted
  BY <1>1, Sizes, FS_EmptySet DEF Init, SlotsCounted
<1>4. QED BY <1>1, <1>2, <1>3, Sizes DEF Inv, Init, Typed

LEMMA ConnectInv == ASSUME Inv, NEW c \in Conn, NEW m \in Message, Connect(c, m) PROVE Inv'
<1> DEFINE u == [NoConn EXCEPT !.pc = "backlog", !.client = "open", !.msg = m]
<1>1. u \in Good /\ u.pc = "backlog" /\ conn' = [conn EXCEPT ![c] = u] /\ backlog' = Append(backlog, c)
  BY ConnectedIsGood DEF Connect, NoConn
<1>2. conn[c].pc = "none"
  BY DEF Inv, Good, Connect, ConnOK
<1> HIDE DEF u
<1>3. conn' \in [Conn -> Good] /\ Waiting' = Waiting \cup {c} /\ Holding' = Holding /\ c \notin Waiting
  BY <1>1, <1>2 DEF Inv, Waiting, Holding, Thread
<1>4. backlog \in Seq(Waiting') /\ backlog \in Seq(Waiting) /\ c \in Waiting'
  BY <1>3, SeqMonotonic DEF Inv, InLine
<1>5. /\ backlog' \in Seq(Waiting') /\ Len(backlog') = Len(backlog) + 1 /\ Len(backlog) \in Nat
      /\ \A i \in 1 .. Len(backlog) : backlog'[i] = backlog[i] /\ backlog[i] \in Waiting
      /\ backlog'[Len(backlog) + 1] = c
  BY <1>1, <1>4, AppendProperties, LenProperties, ElementOfSeq
<1>6. InLine'
  BY <1>3, <1>5, Sizes DEF Inv, InLine, Connect
<1>7. SlotsCounted' /\ Typed'
  BY <1>3 DEF Inv, SlotsCounted, Typed, Connect
<1>8. QED BY <1>3, <1>6, <1>7 DEF Inv

LEMMA AcceptInv == ASSUME Inv, Accept PROVE Inv'
<1> DEFINE c == Head(backlog)
<1>1. /\ backlog \in Seq(Waiting) /\ backlog # <<>> /\ backlog' = Tail(backlog)
      /\ refusing = Nothing /\ inFlight' = inFlight + 1
  BY DEF Accept, Inv, InLine
<1>2. /\ c \in Waiting /\ c = backlog[1] /\ Len(backlog) \in Nat \ {0}
      /\ backlog' \in Seq(Waiting) /\ Len(backlog') = Len(backlog) - 1
      /\ \A i \in 1 .. Len(backlog') : backlog'[i] = backlog[i + 1] /\ i + 1 \in 1 .. Len(backlog)
  BY <1>1, HeadTailProperties, EmptySeq, LenProperties
<1>3. \A i \in 1 .. Len(backlog') : backlog'[i] # c /\ backlog'[i] \in Waiting
  BY <1>2, ElementOfSeq DEF Inv, InLine
<1>4. \A i, j \in 1 .. Len(backlog') : i # j => backlog'[i] # backlog'[j]
  BY <1>2 DEF Inv, InLine
<1>5. c \in Conn /\ conn[c].pc = "backlog" /\ conn[c] \in Good
  BY <1>2 DEF Waiting, Inv
<1>6. IsFiniteSet(Holding) /\ Cardinality(Holding) \in Nat /\ inFlight = Cardinality(Holding)
      /\ Cardinality(Holding) =< MaxInFlight /\ inFlight \in Nat
  BY <1>1, Sizes, FS_Subset, FS_CardinalityType DEF Inv, Holding, SlotsCounted, Typed
<1> HIDE DEF c
<1>7. CASE Busy(inFlight) /\ refusing' = c /\ UNCHANGED conn
  <2>1. Holding' = Holding /\ Waiting' = Waiting /\ conn' \in [Conn -> Good]
    BY <1>7 DEF Inv, Holding, Waiting
  <2>2. InLine'
    BY <1>2, <1>3, <1>4, <1>7, <2>1 DEF InLine
  <2>3. SlotsCounted'
    BY <1>1, <1>5, <1>6, <1>7, <2>1, Sizes DEF SlotsCounted
  <2>4. Typed'
    BY <1>1, <1>5, <1>6, <1>7, Sizes DEF Inv, Typed, Accept
  <2>5. QED BY <2>1, <2>2, <2>3, <2>4 DEF Inv
<1>8. CASE ~Busy(inFlight) /\ Start(c) /\ UNCHANGED refusing
  <2> DEFINE p == IF conn[c].msg.allowed THEN "read" ELSE "drain"
             u == [conn[c] EXCEPT !.pc = p]
  <2>1. p \in {"read", "drain"} /\ conn' = [conn EXCEPT ![c] = u]
    BY <1>8 DEF Start
  <2> HIDE DEF p
  <2>2. u \in Good /\ u.pc \in Thread /\ u.pc # "backlog"
    BY <1>5, <2>1, StartedIsGood DEF Thread, Good, Record
  <2> HIDE DEF u
  <2>3. conn' \in [Conn -> Good] /\ Holding' = Holding \cup {c} /\ Waiting' = Waiting \ {c} /\ c \notin Holding
    BY <1>5, <2>1, <2>2 DEF Inv, Holding, Waiting, Thread
  <2>4. InLine'
    <3>1. backlog' \in Seq(Waiting')
      BY <1>2, <1>3, <2>3, SeqWithin
    <3>2. \A i \in 1 .. Len(backlog') : backlog'[i] # Nothing
      BY <1>3, Sizes DEF Waiting
    <3>3. QED BY <1>1, <1>4, <1>8, <3>1, <3>2 DEF InLine
  <2>5. Cardinality(Holding') = inFlight + 1 /\ inFlight < MaxInFlight
    <3>1. Cardinality(Holding \cup {c}) = Cardinality(Holding) + 1
      BY <1>6, <2>3, FS_AddElement
    <3>2. QED BY <1>6, <1>8, <2>3, <3>1, Sizes DEF Busy
  <2>6. SlotsCounted'
    BY <1>1, <1>6, <1>8, <2>5, Sizes DEF SlotsCounted
  <2>7. Typed'
    BY <1>1, <1>6, <1>8, <2>5, Sizes DEF Inv, Typed, Accept
  <2>8. QED BY <2>3, <2>4, <2>6, <2>7 DEF Inv
<1>9. QED BY <1>7, <1>8 DEF Accept, c

LEMMA RefuseInv == ASSUME Inv, Refuse PROVE Inv'
<1>1. /\ refusing \in Waiting /\ refusing \in Conn /\ refusing # Nothing
      /\ conn[refusing] \in Good /\ conn[refusing].pc = "backlog"
  BY DEF Inv, InLine, Refuse, Waiting
<1>2. PICK reply \in Kept(refusing, "ERR") : conn' = [conn EXCEPT ![refusing] = Over(conn[refusing], reply)]
  BY DEF Refuse
<1> DEFINE u == Over(conn[refusing], reply)
<1>3. reply \in {Nothing, "OK", "NO", "ACTIVE", "INACTIVE", "ERR", "lost"}
  BY DEF Kept
<1>4. u \in Good /\ u.pc = "closed" /\ conn' = [conn EXCEPT ![refusing] = u]
  BY <1>1, <1>2, <1>3, OverIsGood
<1> HIDE DEF u
<1>5. conn' \in [Conn -> Good] /\ Holding' = Holding /\ Waiting' = Waiting \ {refusing}
  BY <1>1, <1>4 DEF Inv, Holding, Waiting, Thread
<1>6. InLine'
  <2>1. \A i \in 1 .. Len(backlog) : backlog[i] # refusing /\ backlog[i] \in Waiting
    BY ElementOfSeq DEF Inv, InLine
  <2>2. backlog' = backlog /\ backlog \in Seq(Waiting')
    BY <1>5, <2>1, SeqWithin DEF Inv, InLine, Refuse
  <2>3. QED BY <2>1, <2>2, Sizes DEF Inv, InLine, Refuse, Waiting
<1>7. IsFiniteSet(Holding) /\ Cardinality(Holding) \in Nat
  BY Sizes, FS_Subset, FS_CardinalityType DEF Holding
<1>8. SlotsCounted'
  BY <1>1, <1>5, <1>7 DEF Inv, SlotsCounted, Refuse
<1>9. Typed'
  BY <1>1, <1>7, Sizes DEF Inv, SlotsCounted, Typed, Refuse
<1>10. QED BY <1>5, <1>6, <1>8, <1>9 DEF Inv

LEMMA ReleaseInv == ASSUME Inv, NEW c \in Conn, Release(c) PROVE Inv'
<1> DEFINE u == Over(conn[c], conn[c].reply)
<1>1. conn[c] \in Good /\ conn[c].pc = "release"
  BY DEF Inv, Release
<1>2. u \in Good /\ u.pc = "closed" /\ conn' = [conn EXCEPT ![c] = u]
  BY <1>1, OverIsGood DEF Release, Good, Record
<1> HIDE DEF u
<1>3. conn' \in [Conn -> Good] /\ Holding' = Holding \ {c} /\ Waiting' = Waiting /\ c \in Holding
  BY <1>1, <1>2 DEF Inv, Holding, Waiting, Thread
<1>4. /\ IsFiniteSet(Holding) /\ Cardinality(Holding) \in Nat
      /\ Cardinality(Holding') = Cardinality(Holding) - 1 /\ Cardinality(Holding') \in Nat
  <2>1. IsFiniteSet(Holding)
    BY Sizes, FS_Subset DEF Holding
  <2>2. /\ IsFiniteSet(Holding \ {c})
        /\ Cardinality(Holding \ {c}) = Cardinality(Holding) - 1
    BY <1>3, <2>1, FS_RemoveElement
  <2>3. QED BY <1>3, <2>1, <2>2, FS_CardinalityType
<1>5. InLine' /\ SlotsCounted'
  BY <1>3, <1>4, Sizes DEF Inv, InLine, SlotsCounted, Release, GivenBack
<1>6. Typed'
  BY <1>4, Sizes DEF Inv, SlotsCounted, Typed, Release, GivenBack
<1>7. QED BY <1>3, <1>5, <1>6 DEF Inv

\* When the process ends, nothing waits and nothing is held.
LEMMA ExitInv == ASSUME Inv, Exit, path' \in {"absent", "socket", "file"} PROVE Inv'
<1>1. PICK lost \in SUBSET Conn :
         conn' = [c \in Conn |->
                    IF conn[c].pc = "none" THEN NoConn
                    ELSE Over(conn[c], IF c \in lost THEN "lost" ELSE conn[c].reply)]
  BY DEF Exit
<1>2. ASSUME NEW c \in Conn
      PROVE  conn'[c] \in Good /\ conn'[c].pc \in {"none", "closed"}
  <2>1. conn[c] \in Good
        /\ (IF c \in lost THEN "lost" ELSE conn[c].reply) \in {Nothing, "OK", "NO", "ACTIVE", "INACTIVE", "ERR", "lost"}
    BY DEF Inv, Good, Record
  <2>2. CASE conn[c].pc = "none"
    BY <1>1, <2>2, NoneIsGood DEF NoConn
  <2>3. CASE conn[c].pc # "none"
    BY <1>1, <2>1, <2>3, OverIsGood
  <2>4. QED BY <2>2, <2>3
<1>3. conn' \in [Conn -> Good] /\ Holding' = {} /\ Waiting' = {}
  BY <1>1, <1>2 DEF Holding, Waiting, Thread
<1>4. InLine' /\ SlotsCounted'
  BY <1>3, Sizes, EmptySeq, FS_EmptySet DEF Exit, InLine, SlotsCounted
<1>5. Typed'
  BY Sizes DEF Exit, Typed, Inv
<1>6. QED BY <1>3, <1>4, <1>5 DEF Inv

\* A read takes more than before, and no more than was sent.
LEMMA ReadLineInv == ASSUME Inv, NEW c \in Conn, ReadLine(c) PROVE Inv'
<1> DEFINE k == conn[c]
           e == [k EXCEPT !.pc = "write", !.reply = "ERR"]
<1>1. k \in Good /\ k.pc = "read" /\ Local
      /\ k.taken \in Nat /\ k.sent \in Nat /\ k.taken =< k.sent /\ k.taken =< MaxRequest
  BY DEF Inv, Good, Record, ConnOK, ReadLine
<1>2. ASSUME NEW u \in Good, conn' = [conn EXCEPT ![c] = u], u.pc \in {"read", "handle", "write"}
      PROVE  Inv'
  BY <1>1, <1>2, Replaced DEF Thread
<1>3. e \in Good /\ e.pc = "write" /\ e.taken = k.taken /\ e.sent = k.sent /\ e = Err(c)
  BY <1>1, ErrIsGood DEF Good, Record, Err
<1>4. CASE Bytes(c) /\ LET n == AtMost(conn[c].sent, MaxRequest + 1)
                       IN  conn' = [conn EXCEPT ![c] =
                               CASE Newline(c, n) -> [conn[c] EXCEPT !.taken = n, !.pc = "handle"]
                                 [] ~Newline(c, n) /\ Full(n) -> [Err(c) EXCEPT !.taken = n]
                                 [] OTHER -> [conn[c] EXCEPT !.taken = n]]
  <2> DEFINE n == AtMost(conn[c].sent, MaxRequest + 1)
  <2>1. n \in Nat /\ k.taken =< n /\ n =< k.sent
    BY <1>1, <1>4, Sizes DEF AtMost, Bytes, Unread
  <2> HIDE DEF n
  <2>2. CASE Newline(c, n)
    <3> DEFINE u == [k EXCEPT !.taken = n, !.pc = "handle"]
    <3>1. u \in Good /\ u.pc = "handle"
      BY <1>1, <2>1, LineIsGood DEF Good, Record
    <3>2. conn' = [conn EXCEPT ![c] = u]
      BY <1>4, <2>2 DEF n
    <3>3. QED BY <1>2, <3>1, <3>2
  <2>3. CASE ~Newline(c, n) /\ Full(n)
    <3> DEFINE u == [e EXCEPT !.taken = n]
    <3>1. conn' = [conn EXCEPT ![c] = u]
      BY <1>3, <1>4, <2>3 DEF n
    <3> HIDE DEF e
    <3>2. u \in Good /\ u.pc = "write"
      BY <1>1, <1>3, <2>1, FullIsGood DEF Good, Record
    <3>3. QED BY <1>2, <3>1, <3>2
  <2>4. CASE ~Newline(c, n) /\ ~Full(n)
    <3> DEFINE u == [k EXCEPT !.taken = n]
    <3>1. u \in Good /\ u.pc = "read"
      BY <1>1, <2>1, <2>4, ReadOnIsGood, Sizes DEF Good, Record, Full
    <3>2. conn' = [conn EXCEPT ![c] = u]
      BY <1>4, <2>4 DEF n
    <3>3. QED BY <1>2, <3>1, <3>2
  <2>5. QED BY <2>2, <2>3, <2>4
<1>5. CASE AtEnd(c) /\ conn' = [conn EXCEPT ![c] = Err(c)]
  BY <1>2, <1>3, <1>5
<1>6. CASE TimesOut(c) /\ conn' = [conn EXCEPT ![c] = [Err(c) EXCEPT !.late = TRUE]]
  <2> DEFINE u == [e EXCEPT !.late = TRUE]
  <2>1. conn' = [conn EXCEPT ![c] = u]
    BY <1>3, <1>6
  <2> HIDE DEF e
  <2>2. u \in Good /\ u.pc = "write"
    BY <1>3, MarkedIsGood DEF Good, Record
  <2>3. QED BY <1>2, <2>1, <2>2
<1>7. QED BY <1>4, <1>5, <1>6 DEF ReadLine

LEMMA DrainInv == ASSUME Inv, NEW c \in Conn, Drain(c) PROVE Inv'
<1> DEFINE k == conn[c]
<1>1. k \in Good /\ k.pc = "drain" /\ Local
      /\ k.taken \in Nat /\ k.sent \in Nat /\ k.taken =< k.sent
  BY DEF Inv, Good, Record, ConnOK, Drain
<1>2. ASSUME NEW u \in Good, conn' = [conn EXCEPT ![c] = u], u.pc \in {"drain", "close"}
      PROVE  Inv'
  BY <1>1, <1>2, Replaced DEF Thread
<1>3. CASE Bytes(c) /\ LET n == AtMost(conn[c].sent, conn[c].taken + Sink)
                       IN  conn' = [conn EXCEPT ![c] =
                           [@ EXCEPT !.taken = n,
                                     !.pc = IF Enough(n - conn[c].base) THEN "close" ELSE "drain"]]
  <2> DEFINE n == AtMost(conn[c].sent, conn[c].taken + Sink)
             p == IF Enough(n - k.base) THEN "close" ELSE "drain"
             u == [k EXCEPT !.taken = n, !.pc = p]
  <2>1. n \in Nat /\ k.taken =< n /\ n =< k.sent
    BY <1>1, <1>3, Sizes DEF AtMost, Bytes, Unread
  <2>2. p \in {"drain", "close"} /\ (p = "close" <=> n - k.base >= DrainLimit)
    BY DEF Enough
  <2>3. conn' = [conn EXCEPT ![c] = u]
    BY <1>3
  <2> HIDE DEF n, p
  <2>4. u \in Good /\ u.pc = p
    BY <1>1, <2>1, <2>2, DrainedIsGood DEF Good, Record
  <2>5. QED BY <1>2, <2>2, <2>3, <2>4
<1>4. CASE AtEnd(c) /\ conn' = [conn EXCEPT ![c].pc = "close"]
  <2> DEFINE u == [k EXCEPT !.pc = "close"]
  <2>1. u \in Good /\ u.pc = "close" /\ conn' = [conn EXCEPT ![c] = u]
    BY <1>1, <1>4, EmptiedIsGood DEF AtEnd, Unread, Good, Record
  <2>2. QED BY <1>2, <2>1
<1>5. CASE TimesOut(c) /\ conn' = [conn EXCEPT ![c] = [@ EXCEPT !.pc = "close", !.late = TRUE]]
  <2> DEFINE u == [k EXCEPT !.pc = "close", !.late = TRUE]
  <2>1. conn' = [conn EXCEPT ![c] = u]
    BY <1>5
  <2>2. u \in Good
    BY <1>1, StalledIsGood
  <2>3. u.pc = "close"
    BY <1>1 DEF Good, Record
  <2>4. QED BY <1>2, <2>1, <2>2, <2>3
<1>6. QED BY <1>3, <1>4, <1>5 DEF Drain

LEMMA ClientInv == ASSUME Inv, NEW c \in Conn, Send(c) \/ Receive(c) \/ GiveUp(c) \/ Forget(c) PROVE Inv'
<1> DEFINE k == conn[c]
<1>1. k \in Good
  BY DEF Inv
<1>2. ASSUME NEW u \in Good, conn' = [conn EXCEPT ![c] = u], u.pc = k.pc, Local
      PROVE  Inv'
  BY <1>2, Replaced
<1>3. CASE Send(c)
  <2> DEFINE b == k.msg.ends /\ k.sent + 1 = k.msg.bytes
             u == [k EXCEPT !.sent = @ + 1, !.closed = b]
  <2>1. k.client = "open" /\ k.pc \notin {"release", "closed"} /\ k.sent < k.msg.bytes
        /\ Local
    BY <1>3 DEF Send, Gone, Local
  <2>2. conn' = [conn EXCEPT ![c] = u]
    BY <1>3 DEF Send
  <2>3. b \in BOOLEAN /\ (b => k.sent + 1 = k.msg.bytes)
    OBVIOUS
  <2> HIDE DEF b
  <2>4. u \in Good
    BY <1>1, <2>1, <2>3, SentIsGood
  <2>5. u.pc = k.pc
    BY <1>1 DEF Good, Record
  <2>6. QED BY <1>2, <2>1, <2>2, <2>4, <2>5
<1>4. ASSUME NEW v \in {"yes", "no", "error"}, Settle(c, v) PROVE Inv'
  <2> DEFINE u == [k EXCEPT !.client = "done", !.got = v, !.closed = TRUE]
  <2>1. u \in Good /\ conn' = [conn EXCEPT ![c] = u] /\ Local
    BY <1>1, <1>4, SettledIsGood DEF Settle, Local
  <2>2. u.pc = k.pc
    BY <1>1 DEF Good, Record
  <2>3. QED BY <1>2, <2>1, <2>2
<1>5. CASE Receive(c)
  BY <1>4, <1>5 DEF Receive, Verdict
<1>6. CASE GiveUp(c)
  BY <1>4, <1>6 DEF GiveUp
<1>7. CASE Forget(c)
  BY <1>7, NoneIsGood, Replaced DEF Forget, NoConn, Local, Thread
<1>8. QED BY <1>3, <1>5, <1>6, <1>7

LEMMA ThreadInv == ASSUME Inv, NEW c \in Conn, Handle(c) \/ Write(c) \/ Close(c) PROVE Inv'
<1> DEFINE k == conn[c]
<1>1. k \in Good
  BY DEF Inv
<1>2. ASSUME NEW u \in Good, conn' = [conn EXCEPT ![c] = u], k.pc \in Thread, u.pc \in Thread, Local
      PROVE  Inv'
  BY <1>2, Replaced DEF Thread
<1>3. CASE Handle(c)
  <2>1. PICK reply \in Answers(k.msg.asks) : conn' = [conn EXCEPT ![c] = [@ EXCEPT !.pc = "write", !.reply = reply]]
    BY <1>3 DEF Handle
  <2>2. k.msg.asks \in Ask
    BY <1>1, <1>3, Bytesizes DEF Handle, Good, ConnOK
  <2>3. reply \in {"OK", "NO", "ACTIVE", "INACTIVE", "ERR"}
    BY <2>2 DEF Answers, Ask, StatusOnError, VerifyOnError
  <2> DEFINE u == [k EXCEPT !.pc = "write", !.reply = reply]
  <2>4. conn' = [conn EXCEPT ![c] = u]
    BY <2>1
  <2>5. u \in Good
    BY <1>1, <1>3, <2>3, AnsweredIsGood DEF Handle
  <2>6. u.pc = "write"
    BY <1>1 DEF Good, Record
  <2>7. QED BY <1>2, <1>3, <2>4, <2>5, <2>6 DEF Handle, Thread
<1>4. CASE Write(c)
  <2> DEFINE u == [k EXCEPT !.pc = "drain", !.base = k.taken]
  <2>1. conn' = [conn EXCEPT ![c] = u]
    BY <1>4 DEF Write
  <2>2. u \in Good
    BY <1>1, <1>4, WrittenIsGood DEF Write
  <2>3. u.pc = "drain"
    BY <1>1 DEF Good, Record
  <2>4. QED BY <1>2, <1>4, <2>1, <2>2, <2>3 DEF Write, Thread
<1>5. CASE Close(c)
  <2>1. PICK reply \in Kept(c, k.reply) : conn' = [conn EXCEPT ![c] = [@ EXCEPT !.pc = "release", !.reply = reply]]
    BY <1>5 DEF Close
  <2>2. reply \in {Nothing, "OK", "NO", "ACTIVE", "INACTIVE", "ERR", "lost"}
    BY <1>1, <2>1 DEF Good, Record, Kept
  <2> DEFINE u == [k EXCEPT !.pc = "release", !.reply = reply]
  <2>3. conn' = [conn EXCEPT ![c] = u]
    BY <2>1
  <2>4. u \in Good
    BY <1>1, <1>5, <2>2, ClosedIsGood DEF Close
  <2>5. u.pc = "release"
    BY <1>1 DEF Good, Record
  <2>6. QED BY <1>2, <1>5, <2>3, <2>4, <2>5 DEF Close, Thread
<1>6. QED BY <1>3, <1>4, <1>5

LEMMA InvStep == Inv /\ [Next]_vars => Inv'
<1> SUFFICES ASSUME Inv, [Next]_vars PROVE Inv'
  OBVIOUS
<1>1. CASE UNCHANGED vars
  BY <1>1 DEF vars, Inv, InLine, Waiting, SlotsCounted, Holding, Typed
<1>2. CASE Next
  <2>1. ASSUME NEW c \in Conn, NEW m \in Message, Connect(c, m) PROVE Inv'
    BY <2>1, ConnectInv
  <2>2. ASSUME NEW c \in Conn, Send(c) \/ Receive(c) \/ GiveUp(c) \/ Forget(c) PROVE Inv'
    BY <2>2, ClientInv
  <2>3. ASSUME NEW c \in Conn, Serve(c) PROVE Inv'
    BY <2>3, ReadLineInv, ThreadInv, DrainInv, ReleaseInv DEF Serve
  <2>4. CASE Accept \/ Refuse
    BY <2>4, AcceptInv, RefuseInv
  <2>5. CASE Signal \/ Crash
    BY <2>5, ExitInv DEF Signal, Crash, Inv, Typed
  <2>6. CASE Begin \/ Check \/ Bind \/ PutFile \/ Toggle
    <3>1. UNCHANGED <<conn, backlog, inFlight, refusing>> /\ Typed'
      BY <2>6 DEF Begin, Check, Bind, PutFile, Toggle, Inv, Typed
    <3>2. QED BY <3>1 DEF Inv, InLine, Waiting, SlotsCounted, Holding
  <2>7. QED BY <1>2, <2>1, <2>2, <2>3, <2>4, <2>5, <2>6 DEF Next
<1>3. QED BY <1>1, <1>2

THEOREM Invariance == Spec => []Inv
BY InvInit, InvStep, PTL DEF Spec

\* The types of the model; in particular a buffer that is read into has room.
THEOREM TypeCorrect == Spec => []TypeOK
<1>1. Inv => TypeOK
  BY InvImplies
<1>2. QED BY <1>1, Invariance, PTL

\* However connections begin, are refused, stall and end, in_flight counts the
\* threads, and they are never more than MAX_IN_FLIGHT (main.cpp:343-351).
THEOREM SlotsAreCounted == Spec => []SlotsCounted
<1>1. Inv => SlotsCounted
  BY InvImplies
<1>2. QED BY <1>1, Invariance, PTL

-----------------------------------------------------------------------------
(* Replies arrive, connections advance, files stay.                        *)

\* A connection is changed by its own steps, by the accept loop when it is its
\* turn, and when the process ends.
LEMMA Elsewhere ==
    ASSUME Inv, NEW c \in Conn, NEW d \in Conn, d # c,
           \/ \E m \in Message : Connect(d, m)
           \/ Send(d) \/ Receive(d) \/ GiveUp(d) \/ Forget(d) \/ Serve(d)
    PROVE  conn'[c] = conn[c]
<1>0. conn \in [Conn -> Good]
  BY DEF Inv
<1>1. ASSUME NEW m \in Message, Connect(d, m) PROVE conn'[c] = conn[c]
  BY <1>0, <1>1 DEF Connect
<1>2. ASSUME Send(d) \/ Receive(d) \/ GiveUp(d) \/ Forget(d) PROVE conn'[c] = conn[c]
  BY <1>0, <1>2 DEF Send, Receive, GiveUp, Settle, Forget
<1>3. ASSUME ReadLine(d) \/ Handle(d) PROVE conn'[c] = conn[c]
  BY <1>0, <1>3 DEF ReadLine, Handle
<1>4. ASSUME Write(d) \/ Drain(d) PROVE conn'[c] = conn[c]
  BY <1>0, <1>4 DEF Write, Drain
<1>5. ASSUME Close(d) \/ Release(d) PROVE conn'[c] = conn[c]
  BY <1>0, <1>5 DEF Close, Release
<1>6. QED BY <1>1, <1>2, <1>3, <1>4, <1>5 DEF Serve

\* The accept loop changes only connections that wait.
LEMMA AtTheDoor ==
    ASSUME Inv, NEW c \in Conn, Accept \/ Refuse, conn[c].pc # "backlog"
    PROVE  conn'[c] = conn[c]
<1>0. conn \in [Conn -> Good]
  BY DEF Inv
<1>1. CASE Accept
  <2>1. Head(backlog) \in Waiting
    BY <1>1, HeadTailProperties DEF Inv, InLine, Accept
  <2>2. QED BY <1>0, <1>1, <2>1 DEF Accept, Start, Waiting
<1>2. CASE Refuse
  BY <1>0, <1>2 DEF Inv, InLine, Refuse, Waiting
<1>3. QED BY <1>1, <1>2

\* What the rest of the process does leaves connections alone.
LEMMA NotAtAll ==
    ASSUME Begin \/ Check \/ Bind \/ PutFile \/ Toggle
    PROVE  conn' = conn
BY DEF Begin, Check, Bind, PutFile, Toggle

\* A reply that was made is lost in Close, when input is left, and nowhere else.
LEMMA RepliesKept ==
    ASSUME Inv, NEW c \in Conn, Next, daemon' # "down",
           conn[c].client = "open", conn[c].reply \notin {Nothing, "lost"}
    PROVE  \/ conn'[c].reply # "lost"
           \/ conn[c].pc = "close" /\ conn[c].sent > conn[c].taken
<1> DEFINE k == conn[c]
<1>1. /\ k \in Good /\ k \in Record /\ conn \in [Conn -> Good]
      /\ k.pc \notin {"none", "backlog", "read", "handle"}
  BY DEF Inv, Good, ConnOK
<1>2. ASSUME NEW d \in Conn, d # c,
             \/ \E m \in Message : Connect(d, m)
             \/ Send(d) \/ Receive(d) \/ GiveUp(d) \/ Forget(d) \/ Serve(d)
      PROVE  conn'[c].reply # "lost"
  BY <1>2, Elsewhere
<1>3. CASE \E m \in Message : Connect(c, m)
  BY <1>3 DEF Connect
<1>4. CASE Send(c)
  BY <1>1, <1>4 DEF Send, Record
<1>5. CASE Receive(c) \/ GiveUp(c)
  <2>1. PICK v : Settle(c, v)
    BY <1>5 DEF Receive, GiveUp
  <2>2. conn'[c] = [k EXCEPT !.client = "done", !.got = v, !.closed = TRUE]
    BY <1>1, <2>1 DEF Settle
  <2>3. QED BY <1>1, <2>2 DEF Record
<1>6. CASE Forget(c)
  BY <1>6 DEF Forget
<1>7. CASE Serve(c)
  <2>1. ~ReadLine(c) /\ ~Handle(c)
    BY <1>1 DEF ReadLine, Handle
  <2>2. CASE Write(c)
    BY <1>1, <2>2 DEF Write, Record
  <2>3. CASE Drain(c)
    BY <1>1, <2>3 DEF Drain, Record
  <2>4. CASE Close(c)
    <3>1. PICK reply \in Kept(c, k.reply) : conn' = [conn EXCEPT ![c] = [@ EXCEPT !.pc = "release", !.reply = reply]]
      BY <2>4 DEF Close
    <3>2. conn'[c].reply = reply
      BY <1>1, <3>1 DEF Record
    <3>3. QED BY <2>4, <3>1, <3>2 DEF Close, Kept, Unread
  <2>5. CASE Release(c)
    <3>1. conn'[c] = Over(k, k.reply)
      BY <1>1, <2>5 DEF Release
    <3>2. QED BY <1>1, <3>1, OverIsGood DEF Record
  <2>6. QED BY <1>7, <2>1, <2>2, <2>3, <2>4, <2>5 DEF Serve
<1>8. CASE Accept \/ Refuse
  BY <1>1, <1>8, AtTheDoor
<1>9. CASE Begin \/ Check \/ Bind \/ PutFile \/ Toggle
  BY <1>9, NotAtAll
<1>10. ~Signal /\ ~Crash
  BY DEF Signal, Crash, Exit
<1>11. QED BY <1>2, <1>3, <1>4, <1>5, <1>6, <1>7, <1>8, <1>9, <1>10 DEF Next

\* A client that keeps to its side gets the reply that was written to it: what
\* is drained before the close is all it could still have sent (main.cpp:231-235).
THEOREM RepliesDoArrive == Spec => RepliesArrive
<1>1. ASSUME Inv, [Next]_vars
      PROVE  [\A c \in Conn :
                 /\ conn[c].client = "open" /\ conn[c].reply \notin {Nothing, "lost"}
                 /\ conn'[c].reply = "lost" /\ daemon' # "down"
                 => conn[c].late \/ conn[c].msg.bytes > conn[c].base + DrainLimit]_vars
  <2> SUFFICES ASSUME Next, NEW c \in Conn,
                      conn[c].client = "open", conn[c].reply \notin {Nothing, "lost"},
                      conn'[c].reply = "lost", daemon' # "down", ~conn[c].late
               PROVE  conn[c].msg.bytes > conn[c].base + DrainLimit
    BY <1>1
  <2>1. conn[c].pc = "close" /\ conn[c].sent > conn[c].taken
    BY <1>1, RepliesKept
  <2>2. conn[c] \in Record /\ ConnOK(conn[c]) /\ Passed(conn[c])
    BY <1>1 DEF Inv, Good
  <2>3. conn[c].msg \in Message /\ conn[c].sent =< conn[c].msg.bytes
    BY <2>1, <2>2 DEF ConnOK
  <2>4. conn[c].taken >= conn[c].base + DrainLimit
    BY <2>1, <2>2 DEF Passed, Record
  <2>5. QED BY <2>1, <2>2, <2>3, <2>4, Sizes, Bytesizes DEF Record
<1>2. QED BY <1>1, Invariance, PTL DEF Spec, RepliesArrive

\* What a step of its thread does to a connection lowers its rank.
LEMMA ServeAdvances ==
    ASSUME Inv, NEW c \in Conn, Serve(c)
    PROVE  Rank(conn'[c]) < Rank(conn[c])
<1> DEFINE k == conn[c]
<1>1. /\ k \in Good /\ k \in Record /\ ConnOK(k) /\ Passed(k) /\ conn \in [Conn -> Good]
      /\ k.taken \in Nat /\ k.sent \in Nat /\ k.base \in Nat /\ k.base =< k.taken /\ k.taken =< k.sent
  BY DEF Inv, Good, Record, ConnOK
<1>2. CASE ReadLine(c)
  <2>1. k.pc = "read" /\ k.taken =< MaxRequest
    BY <1>1, <1>2 DEF ReadLine, ConnOK
  <2>2. \/ conn'[c].pc \in {"handle", "write"}
        \/ conn'[c].pc = "read" /\ conn'[c].taken \in Nat /\ conn'[c].taken > k.taken
           /\ conn'[c].taken =< MaxRequest
    <3>1. CASE Bytes(c) /\ LET n == AtMost(conn[c].sent, MaxRequest + 1)
                           IN  conn' = [conn EXCEPT ![c] =
                                   CASE Newline(c, n) -> [conn[c] EXCEPT !.taken = n, !.pc = "handle"]
                                     [] ~Newline(c, n) /\ Full(n) -> [Err(c) EXCEPT !.taken = n]
                                     [] OTHER -> [conn[c] EXCEPT !.taken = n]]
      <4> DEFINE n == AtMost(conn[c].sent, MaxRequest + 1)
      <4>1. n \in Nat /\ n > k.taken
        BY <1>1, <2>1, <3>1, Sizes DEF AtMost, Bytes, Unread
      <4> HIDE DEF n
      <4>2. CASE Newline(c, n)
        <5>1. conn'[c] = [k EXCEPT !.taken = n, !.pc = "handle"]
          BY <1>1, <3>1, <4>2 DEF n
        <5>2. QED BY <1>1, <5>1 DEF Record
      <4>3. CASE ~Newline(c, n) /\ Full(n)
        <5>1. conn'[c] = [Err(c) EXCEPT !.taken = n]
          BY <1>1, <3>1, <4>3 DEF n
        <5>2. QED BY <1>1, <5>1 DEF Record, Err
      <4>4. CASE ~Newline(c, n) /\ ~Full(n)
        <5>1. conn'[c] = [k EXCEPT !.taken = n]
          BY <1>1, <3>1, <4>4 DEF n
        <5>2. conn'[c].pc = "read" /\ conn'[c].taken = n
          BY <1>1, <2>1, <5>1 DEF Record
        <5>3. QED BY <4>1, <4>4, <5>2, Sizes DEF Full
      <4>5. QED BY <4>2, <4>3, <4>4
    <3>2. CASE AtEnd(c) /\ conn' = [conn EXCEPT ![c] = Err(c)]
      BY <1>1, <3>2 DEF Err, Record
    <3>3. CASE TimesOut(c) /\ conn' = [conn EXCEPT ![c] = [Err(c) EXCEPT !.late = TRUE]]
      <4>1. conn'[c] = [Err(c) EXCEPT !.late = TRUE]
        BY <1>1, <3>3
      <4>2. QED BY <1>1, <4>1 DEF Err, Record
    <3>4. QED BY <1>2, <3>1, <3>2, <3>3 DEF ReadLine
  <2>3. QED BY <1>1, <2>1, <2>2, Sizes DEF Rank
<1>3. CASE Handle(c)
  <2>1. k.pc = "handle" /\ conn'[c].pc = "write"
    BY <1>1, <1>3 DEF Handle, Record
  <2>2. QED BY <2>1, Sizes DEF Rank
<1>4. CASE Write(c)
  <2>1. k.pc = "write" /\ conn'[c].pc = "drain"
    BY <1>1, <1>4 DEF Write, Record
  <2>2. conn'[c].taken = k.taken /\ conn'[c].base = k.taken
    BY <1>1, <1>4 DEF Write, Record
  <2>3. QED BY <1>1, <2>1, <2>2, Sizes DEF Rank
<1>5. CASE Drain(c)
  <2>1. k.pc = "drain" /\ k.taken < k.base + DrainLimit
    BY <1>1, <1>5 DEF Drain, Passed
  <2>2. \/ conn'[c].pc = "close"
        \/ conn'[c].pc = "drain" /\ conn'[c].taken \in Nat /\ conn'[c].taken > k.taken
           /\ conn'[c].base = k.base /\ conn'[c].taken - k.base < DrainLimit
    <3>1. CASE Bytes(c) /\ LET n == AtMost(conn[c].sent, conn[c].taken + Sink)
                           IN  conn' = [conn EXCEPT ![c] =
                           [@ EXCEPT !.taken = n,
                                     !.pc = IF Enough(n - conn[c].base) THEN "close" ELSE "drain"]]
      <4> DEFINE n == AtMost(conn[c].sent, conn[c].taken + Sink)
                 p == IF Enough(n - k.base) THEN "close" ELSE "drain"
      <4>1. n \in Nat /\ n > k.taken
        BY <1>1, <3>1, Sizes DEF AtMost, Bytes, Unread
      <4>2. p = "close" \/ (p = "drain" /\ n - k.base < DrainLimit)
        BY <1>1, <4>1, Sizes DEF Enough
      <4>3. conn'[c] = [k EXCEPT !.taken = n, !.pc = p]
        BY <1>1, <3>1
      <4> HIDE DEF n, p
      <4>4. conn'[c].pc = p /\ conn'[c].taken = n /\ conn'[c].base = k.base
        BY <1>1, <4>3 DEF Record
      <4>5. QED BY <4>1, <4>2, <4>4
    <3>2. CASE AtEnd(c) /\ conn' = [conn EXCEPT ![c].pc = "close"]
      BY <1>1, <3>2 DEF Record
    <3>3. CASE TimesOut(c) /\ conn' = [conn EXCEPT ![c] = [@ EXCEPT !.pc = "close", !.late = TRUE]]
      BY <1>1, <3>3 DEF Record
    <3>4. QED BY <1>5, <3>1, <3>2, <3>3 DEF Drain
  <2>3. QED BY <1>1, <2>1, <2>2, Sizes DEF Rank
<1>6. CASE Close(c)
  <2>1. k.pc = "close" /\ conn'[c].pc = "release"
    BY <1>1, <1>6 DEF Close, Record
  <2>2. QED BY <2>1 DEF Rank
<1>7. CASE Release(c)
  <2>1. k.pc = "release" /\ conn'[c] = Over(k, k.reply)
    BY <1>1, <1>7 DEF Release
  <2>2. conn'[c].pc = "closed"
    BY <2>1 DEF Over, NoConn
  <2>3. QED BY <2>1, <2>2 DEF Rank
<1>8. QED BY <1>2, <1>3, <1>4, <1>5, <1>6, <1>7 DEF Serve

\* However slowly a client sends, a thread that does something gets on: it makes
\* at most MaxRequest + DrainLimit + 5 steps, and waits for no more timeouts.
THEOREM ConnectionsAdvance == Spec => ConnectionAdvances
<1>1. ASSUME Inv, [Next]_vars
      PROVE  [\A c \in Holding :
                 \/ conn'[c].pc = conn[c].pc /\ conn'[c].taken = conn[c].taken
                 \/ Rank(conn'[c]) < Rank(conn[c])]_vars
  <2> SUFFICES ASSUME Next, NEW c \in Holding
               PROVE  \/ conn'[c].pc = conn[c].pc /\ conn'[c].taken = conn[c].taken
                      \/ Rank(conn'[c]) < Rank(conn[c])
    BY <1>1
  <2> DEFINE k == conn[c]
  <2>1. /\ c \in Conn /\ k \in Record /\ ConnOK(k) /\ Passed(k) /\ k.pc \in Thread
        /\ conn \in [Conn -> Good] /\ k.client # "idle"
    BY <1>1 DEF Inv, Good, Holding, Thread, ConnOK
  <2>2. ASSUME NEW d \in Conn, d # c,
               \/ \E m \in Message : Connect(d, m)
               \/ Send(d) \/ Receive(d) \/ GiveUp(d) \/ Forget(d) \/ Serve(d)
        PROVE  conn'[c] = k
    BY <1>1, <2>1, <2>2, Elsewhere
  <2>3. CASE \E m \in Message : Connect(c, m)
    BY <2>1, <2>3 DEF Connect
  <2>4. CASE Send(c)
    BY <2>1, <2>4 DEF Send, Record
  <2>5. CASE Receive(c) \/ GiveUp(c)
    BY <2>1, <2>5 DEF Receive, GiveUp, Settle, Record
  <2>6. CASE Forget(c)
    BY <2>1, <2>6 DEF Forget, Thread
  <2>7. CASE Serve(c)
    BY <1>1, <2>1, <2>7, ServeAdvances
  <2>8. CASE Accept \/ Refuse
    BY <1>1, <2>1, <2>8, AtTheDoor DEF Thread
  <2>9. CASE Signal \/ Crash
    <3>1. PICK lost \in SUBSET Conn :
             conn' = [d \in Conn |->
                        IF conn[d].pc = "none" THEN NoConn
                        ELSE Over(conn[d], IF d \in lost THEN "lost" ELSE conn[d].reply)]
      BY <2>9 DEF Signal, Crash, Exit
    <3>2. conn'[c].pc = "closed"
      BY <2>1, <3>1 DEF Over, NoConn, Thread
    <3>3. Rank(k) > 0
      BY <2>1, Sizes DEF Rank, Thread, Record, ConnOK, Passed
    <3>4. QED BY <3>2, <3>3 DEF Rank
  <2>10. CASE Begin \/ Check \/ Bind \/ PutFile \/ Toggle
    BY <2>10, NotAtAll
  <2>11. QED BY <2>2, <2>3, <2>4, <2>5, <2>6, <2>7, <2>8, <2>9, <2>10 DEF Next
<1>2. QED BY <1>1, Invariance, PTL DEF Spec, ConnectionAdvances

\* A file at the socket path outlives every start of the daemon: only a signal
\* that ends it removes one (main.cpp:305-314, 66-70).
THEOREM FilesDoOutliveStarts == Spec => FilesOutliveStarts
<1>1. [Next]_vars => [path = "file" => path' = "file" \/ (path' = "absent" /\ daemon' = "down")]_vars
  <2> SUFFICES ASSUME Next, path = "file"
               PROVE  path' = "file" \/ (path' = "absent" /\ daemon' = "down")
    OBVIOUS
  <2>1. ASSUME NEW c \in Conn, \E m \in Message : Connect(c, m) PROVE path' = path
    BY <2>1 DEF Connect
  <2>2. ASSUME NEW c \in Conn, Send(c) \/ Receive(c) \/ GiveUp(c) \/ Forget(c) PROVE path' = path
    BY <2>2 DEF Send, Receive, GiveUp, Settle, Forget
  <2>3. ASSUME NEW c \in Conn, Serve(c) PROVE path' = path
    BY <2>3 DEF Serve, ReadLine, Handle, Write, Drain, Close, Release, Local
  <2>4. CASE Accept \/ Refuse \/ Begin \/ Check \/ Bind \/ PutFile \/ Toggle
    BY <2>4 DEF Accept, Refuse, Begin, Check, Bind, PutFile, Toggle, Removed
  <2>5. CASE Signal \/ Crash
    BY <2>5 DEF Signal, Crash, Exit
  <2>6. QED BY <2>1, <2>2, <2>3, <2>4, <2>5 DEF Next
<1>2. QED BY <1>1, PTL DEF Spec, FilesOutliveStarts

-----------------------------------------------------------------------------
(* VerifierDaemon implements VerifierService.                              *)

\* What VerifierService shows of connection k is not changed if it becomes u.
Alike(k, u) == u.client = k.client /\ Asked(u) = Asked(k) /\ Told(u) = Told(k)

LEMMA StutterStep ==
    ASSUME \A d \in Conn : Alike(conn[d], conn'[d]), active' = active
    PROVE  UNCHANGED Service!vars
BY DEF Service!vars, Alike, Asked, Told

\* An answer is made up ...
LEMMA DecideStep ==
    ASSUME NEW c \in Conn, \A d \in Conn \ {c} : Alike(conn[d], conn'[d]), active' = active,
           conn[c].client = "open", conn'[c].client = "open", Asked(conn'[c]) = Asked(conn[c]),
           Told(conn[c]) = Nothing, NEW v \in {"yes", "no", "error"}, Told(conn'[c]) = v,
           Service!True(Asked(conn[c]), v)
    PROVE  Service!Next
<1>1. Service!Decide(c, v)
  BY DEF Service!Decide, Alike, Asked, Told
<1>2. QED BY <1>1 DEF Service!Next

\* ... or lost.
LEMMA LoseStep ==
    ASSUME NEW C \in SUBSET Conn, \A d \in Conn \ C : Alike(conn[d], conn'[d]), active' = active,
           \A d \in C : /\ conn[d].client = "open" /\ conn'[d].client = "open"
                        /\ Asked(conn'[d]) = Asked(conn[d])
                        /\ Told(conn[d]) # Nothing /\ Told(conn'[d]) = "error"
    PROVE  Service!Next
<1>1. Service!Lose(C)
  BY DEF Service!Lose, Alike, Asked, Told
<1>2. QED BY <1>1 DEF Service!Next

\* What the daemon answers becomes what VerifierService allows.
LEMMA AnswersAreTrue ==
    ASSUME NEW ask \in Ask, active \in BOOLEAN, NEW reply \in Answers(ask)
    PROVE  /\ reply # Nothing /\ Verdict(reply) \in {"yes", "no", "error"}
           /\ Service!True(ask, Verdict(reply))
BY Sizes, VerifierAssumption DEF Ask, Answers, StatusOnError, VerifyOnError, Verdict, Service!True

\* A connection that gets its first reply in a step.
LEMMA ReplyStep ==
    ASSUME Inv, NEW c \in Conn, \A d \in Conn \ {c} : conn'[d] = conn[d], active' = active,
           conn[c].pc # "none", conn[c].reply = Nothing, NEW reply,
           conn'[c].reply = reply, reply # Nothing, conn'[c].msg = conn[c].msg,
           conn'[c].client = conn[c].client, conn'[c].got = conn[c].got,
           Verdict(reply) \in {"yes", "no", "error"},
           Service!True(conn[c].msg.asks, Verdict(reply))
    PROVE  Service!Next \/ UNCHANGED Service!vars
<1>1. conn[c] \in Record /\ conn[c].client \in {"open", "done"} /\ conn[c].msg \in Message
  BY DEF Inv, Good, ConnOK, Record
<1>2. /\ \A d \in Conn \ {c} : Alike(conn[d], conn'[d])
      /\ Asked(conn[c]) = conn[c].msg.asks /\ Asked(conn'[c]) = conn[c].msg.asks
  BY <1>1, Sizes DEF Alike, Asked
<1>3. CASE conn[c].client = "done"
  <2>1. Alike(conn[c], conn'[c])
    BY <1>2, <1>3 DEF Alike, Told
  <2>2. QED BY <1>2, <2>1, StutterStep
<1>4. CASE conn[c].client = "open"
  <2>1. Told(conn[c]) = Nothing /\ Told(conn'[c]) = Verdict(reply)
    BY <1>4 DEF Told
  <2>2. QED BY <1>2, <1>4, <2>1, DecideStep
<1>5. QED BY <1>1, <1>3, <1>4

\* A step that leaves what is shown of one connection, and the others, alone.
LEMMA AlikeStep ==
    ASSUME NEW c \in Conn, \A d \in Conn \ {c} : conn'[d] = conn[d], active' = active,
           conn'[c].client = conn[c].client, conn'[c].got = conn[c].got,
           conn'[c].msg = conn[c].msg, conn'[c].reply = conn[c].reply
    PROVE  UNCHANGED Service!vars
<1>1. \A d \in Conn : Alike(conn[d], conn'[d])
  BY DEF Alike, Asked, Told
<1>2. QED BY <1>1, StutterStep

LEMMA ClientServes ==
    ASSUME Inv, NEW c \in Conn,
           \/ \E m \in Message : Connect(c, m)
           \/ Send(c) \/ Receive(c) \/ GiveUp(c) \/ Forget(c)
    PROVE  Service!Next \/ UNCHANGED Service!vars
<1> DEFINE k == conn[c]
<1>1. /\ k \in Record /\ ConnOK(k) /\ Passed(k) /\ conn \in [Conn -> Good]
      /\ \A d \in Conn \ {c} : conn'[d] = conn[d]
  BY Elsewhere DEF Inv, Good
<1>2. ASSUME NEW m \in Message, Connect(c, m) PROVE Service!Next
  <2>1. k.client = "idle" /\ k = NoConn /\ active' = active
    BY <1>1, <1>2 DEF Connect, ConnOK, Passed
  <2>2. conn'[c] = [NoConn EXCEPT !.pc = "backlog", !.client = "open", !.msg = m]
    BY <1>1, <1>2 DEF Connect
  <2>3. conn'[c].client = "open" /\ conn'[c].msg = m /\ conn'[c].reply = Nothing
    BY <2>2 DEF NoConn
  <2>4. Told(k) = Nothing /\ Told(conn'[c]) = Nothing /\ Asked(conn'[c]) = m.asks
    BY <2>1, <2>3, Sizes DEF Told, Asked, NoConn
  <2>5. m.asks \in Ask
    BY Bytesizes
  <2>6. \A d \in Conn \ {c} : Alike(conn[d], conn'[d])
    BY <1>1 DEF Alike
  <2>7. Service!Ask(c, m.asks)
    BY <2>1, <2>3, <2>4, <2>6 DEF Service!Ask, Alike, Asked, Told
  <2>8. QED BY <2>5, <2>7 DEF Service!Next
<1>3. CASE Send(c)
  <2>1. active' = active /\ conn'[c].client = k.client /\ conn'[c].got = k.got
        /\ conn'[c].msg = k.msg /\ conn'[c].reply = k.reply
    BY <1>1, <1>3 DEF Send, Record
  <2>2. QED BY <1>1, <2>1, AlikeStep
<1>4. ASSUME NEW v, Settle(c, v), v = "error" \/ (k.reply # Nothing /\ v = Verdict(k.reply))
      PROVE  Service!Next
  <2>1. /\ k.client = "open" /\ conn'[c].client = "done" /\ conn'[c].got = v
        /\ conn'[c].msg = k.msg /\ active' = active
    BY <1>1, <1>4 DEF Settle, Record
  <2>2. Told(conn'[c]) = v /\ Asked(conn'[c]) = Asked(k)
    BY <2>1 DEF Told, Asked
  <2>3. v = "error" \/ (Told(k) = v /\ v # Nothing)
    BY <1>4, <2>1, VerifierAssumption DEF Told, Verdict
  <2>4. \A d \in Conn \ {c} : Alike(conn[d], conn'[d])
    BY <1>1 DEF Alike
  <2>5. Service!Finish(c)
    BY <2>1, <2>2, <2>3, <2>4 DEF Service!Finish, Alike, Asked, Told
  <2>6. QED BY <2>5 DEF Service!Next
<1>5. CASE Receive(c)
  BY <1>4, <1>5 DEF Receive
<1>6. CASE GiveUp(c)
  BY <1>4, <1>6 DEF GiveUp
<1>7. CASE Forget(c)
  <2>1. k.client = "done" /\ conn'[c] = NoConn /\ active' = active
    BY <1>1, <1>7 DEF Forget
  <2>2. conn'[c].client = "idle" /\ Told(conn'[c]) = Nothing /\ Asked(conn'[c]) = Nothing
    BY <2>1 DEF NoConn, Told, Asked
  <2>3. \A d \in Conn \ {c} : Alike(conn[d], conn'[d])
    BY <1>1 DEF Alike
  <2>4. Service!Forget(c)
    BY <2>1, <2>2, <2>3 DEF Service!Forget, Alike, Asked, Told
  <2>5. QED BY <2>4 DEF Service!Next
<1>8. QED BY <1>2, <1>3, <1>5, <1>6, <1>7

\* Reading and handling make the answer up, closing may lose it.
LEMMA ThreadServes ==
    ASSUME Inv, NEW c \in Conn, Serve(c)
    PROVE  Service!Next \/ UNCHANGED Service!vars
<1> DEFINE k == conn[c]
           Shown(u) == u.client = k.client /\ u.got = k.got /\ u.msg = k.msg
<1>1. /\ k \in Good /\ k \in Record /\ ConnOK(k) /\ conn \in [Conn -> Good] /\ active \in BOOLEAN
      /\ \A d \in Conn \ {c} : conn'[d] = conn[d]
  BY Elsewhere DEF Inv, Good, Typed
<1>2. CASE ReadLine(c)
  <2>1. k.pc = "read" /\ k.reply = Nothing /\ active' = active
    BY <1>1, <1>2 DEF ReadLine, ConnOK, Local
  <2>2. Shown(conn'[c]) /\ conn'[c].reply \in {Nothing, "ERR"}
    <3>1. ASSUME NEW n, conn'[c] = [k EXCEPT !.taken = n, !.pc = "handle"]
          PROVE  Shown(conn'[c]) /\ conn'[c].reply = k.reply
      BY <1>1, <3>1 DEF Record
    <3>2. ASSUME NEW n, conn'[c] = [k EXCEPT !.taken = n]
          PROVE  Shown(conn'[c]) /\ conn'[c].reply = k.reply
      BY <1>1, <3>2 DEF Record
    <3>3. ASSUME NEW n, conn'[c] = [Err(c) EXCEPT !.taken = n]
          PROVE  Shown(conn'[c]) /\ conn'[c].reply = "ERR"
      BY <1>1, <3>3 DEF Record, Err
    <3>4. ASSUME conn'[c] = [Err(c) EXCEPT !.late = TRUE]
          PROVE  Shown(conn'[c]) /\ conn'[c].reply = "ERR"
      BY <1>1, <3>4 DEF Record, Err
    <3>5. ASSUME conn'[c] = Err(c)
          PROVE  Shown(conn'[c]) /\ conn'[c].reply = "ERR"
      BY <1>1, <3>5 DEF Record, Err
    <3>6. \/ \E n : \/ conn'[c] = [k EXCEPT !.taken = n, !.pc = "handle"]
                    \/ conn'[c] = [k EXCEPT !.taken = n]
                    \/ conn'[c] = [Err(c) EXCEPT !.taken = n]
          \/ conn'[c] = [Err(c) EXCEPT !.late = TRUE]
          \/ conn'[c] = Err(c)
      <4> DEFINE n == AtMost(conn[c].sent, MaxRequest + 1)
      <4>1. ASSUME conn' = [conn EXCEPT ![c] =
                       CASE Newline(c, n) -> [conn[c] EXCEPT !.taken = n, !.pc = "handle"]
                         [] ~Newline(c, n) /\ Full(n) -> [Err(c) EXCEPT !.taken = n]
                         [] OTHER -> [conn[c] EXCEPT !.taken = n]]
            PROVE  \/ conn'[c] = [k EXCEPT !.taken = n, !.pc = "handle"]
                   \/ conn'[c] = [k EXCEPT !.taken = n]
                   \/ conn'[c] = [Err(c) EXCEPT !.taken = n]
        <5> HIDE DEF n
        <5>1. QED BY <1>1, <4>1
      <4>2. QED BY <1>1, <1>2, <4>1 DEF ReadLine
    <3>7. QED BY <2>1, <3>1, <3>2, <3>3, <3>4, <3>5, <3>6
  <2>3. CASE conn'[c].reply = Nothing
    BY <1>1, <2>1, <2>2, <2>3, AlikeStep
  <2>4. CASE conn'[c].reply = "ERR"
    <3>1. "ERR" # Nothing /\ Verdict("ERR") = "error" /\ Service!True(k.msg.asks, "error")
      BY VerifierAssumption DEF Verdict, Service!True
    <3>2. QED BY <1>1, <2>1, <2>2, <2>4, <3>1, ReplyStep
  <2>5. QED BY <2>2, <2>3, <2>4
<1>3. CASE Handle(c)
  <2>1. k.pc = "handle" /\ k.reply = Nothing /\ k.msg \in Message /\ active' = active
    BY <1>1, <1>3 DEF Handle, ConnOK, Local
  <2>2. PICK reply \in Answers(k.msg.asks) : conn' = [conn EXCEPT ![c] = [@ EXCEPT !.pc = "write", !.reply = reply]]
    BY <1>3 DEF Handle
  <2>3. Shown(conn'[c]) /\ conn'[c].reply = reply
    BY <1>1, <2>2 DEF Record
  <2>4. /\ reply # Nothing /\ Verdict(reply) \in {"yes", "no", "error"}
        /\ Service!True(k.msg.asks, Verdict(reply))
    BY <1>1, <2>1, Bytesizes, AnswersAreTrue
  <2>5. QED BY <1>1, <2>1, <2>3, <2>4, ReplyStep
<1>4. CASE Write(c) \/ Drain(c)
  <2>1. Shown(conn'[c]) /\ conn'[c].reply = k.reply /\ active' = active
    <3>1. CASE Write(c)
      BY <1>1, <3>1 DEF Write, Record, Local
    <3>2. CASE Drain(c)
      <4> DEFINE n == AtMost(conn[c].sent, conn[c].taken + Sink)
                 p == IF Enough(n - conn[c].base) THEN "close" ELSE "drain"
      <4>1. ASSUME conn' = [conn EXCEPT ![c] = [k EXCEPT !.taken = n, !.pc = p]]
            PROVE  Shown(conn'[c]) /\ conn'[c].reply = k.reply
        <5> HIDE DEF n, p
        <5>1. QED BY <1>1, <4>1 DEF Record
      <4>2. ASSUME conn' = [conn EXCEPT ![c].pc = "close"]
            PROVE  Shown(conn'[c]) /\ conn'[c].reply = k.reply
        BY <1>1, <4>2 DEF Record
      <4>3. ASSUME conn' = [conn EXCEPT ![c] = [k EXCEPT !.pc = "close", !.late = TRUE]]
            PROVE  Shown(conn'[c]) /\ conn'[c].reply = k.reply
        BY <1>1, <4>3 DEF Record
      <4>4. QED BY <3>2, <4>1, <4>2, <4>3 DEF Drain, Local
    <3>3. QED BY <1>4, <3>1, <3>2
  <2>2. QED BY <1>1, <2>1, AlikeStep
<1>5. CASE Close(c)
  <2>1. PICK reply \in Kept(c, k.reply) : conn' = [conn EXCEPT ![c] = [@ EXCEPT !.pc = "release", !.reply = reply]]
    BY <1>5 DEF Close
  <2>2. Shown(conn'[c]) /\ conn'[c].reply = reply /\ active' = active
    BY <1>1, <1>5, <2>1 DEF Record, Close, Local
  <2>3. CASE reply = k.reply
    BY <1>1, <2>2, <2>3, AlikeStep
  <2>4. CASE reply # k.reply
    <3>1. reply = "lost" /\ k.reply # Nothing /\ k.client \in {"open", "done"}
      BY <1>1, <1>5, <2>1, <2>4 DEF Kept, Close, ConnOK, Record
    <3>2. Asked(conn'[c]) = Asked(k) /\ \A d \in Conn \ {c} : Alike(conn[d], conn'[d])
      BY <1>1, <2>2 DEF Alike, Asked
    <3>3. CASE k.client = "done"
      <4>1. Alike(k, conn'[c])
        BY <2>2, <3>2, <3>3 DEF Alike, Told
      <4>2. QED BY <2>2, <3>2, <4>1, StutterStep
    <3>4. CASE k.client = "open"
      <4>1. Told(k) # Nothing /\ Told(conn'[c]) = "error" /\ conn'[c].client = "open"
        BY <2>2, <3>1, <3>4, VerifierAssumption DEF Told, Verdict
      <4> DEFINE C == {c}
      <4>2. /\ C \in SUBSET Conn /\ \A d \in Conn \ C : Alike(conn[d], conn'[d])
            /\ \A d \in C : /\ conn[d].client = "open" /\ conn'[d].client = "open"
                            /\ Asked(conn'[d]) = Asked(conn[d])
                            /\ Told(conn[d]) # Nothing /\ Told(conn'[d]) = "error"
        BY <3>2, <3>4, <4>1
      <4> HIDE DEF C
      <4>3. QED BY <2>2, <4>2, LoseStep
    <3>5. QED BY <3>1, <3>3, <3>4
  <2>5. QED BY <2>3, <2>4
<1>6. CASE Release(c)
  <2>1. conn'[c] = Over(k, k.reply) /\ active' = active
    BY <1>1, <1>6 DEF Release
  <2>2. Shown(conn'[c]) /\ conn'[c].reply = k.reply
    BY <2>1 DEF Over, NoConn
  <2>3. QED BY <1>1, <2>1, <2>2, AlikeStep
<1>7. QED BY <1>2, <1>3, <1>4, <1>5, <1>6 DEF Serve

LEMMA DoorServes ==
    ASSUME Inv, Accept \/ Refuse
    PROVE  Service!Next \/ UNCHANGED Service!vars
<1>0. conn \in [Conn -> Good] /\ active' = active
  BY DEF Inv, Accept, Refuse
<1>1. CASE Accept
  <2> DEFINE c == Head(backlog)
  <2>1. c \in Conn /\ conn[c] \in Record
    BY <1>1, HeadTailProperties DEF Inv, InLine, Accept, Waiting, Good
  <2>2. CASE UNCHANGED conn
    <3>1. \A d \in Conn : Alike(conn[d], conn'[d])
      BY <2>2 DEF Alike
    <3>2. QED BY <1>0, <3>1, StutterStep
  <2>3. CASE Start(c)
    <3> DEFINE p == IF conn[c].msg.allowed THEN "read" ELSE "drain"
    <3>1. conn' = [conn EXCEPT ![c] = [conn[c] EXCEPT !.pc = p]]
      BY <2>3 DEF Start
    <3> HIDE DEF p, c
    <3>2. /\ \A d \in Conn \ {c} : conn'[d] = conn[d]
          /\ conn'[c].client = conn[c].client /\ conn'[c].got = conn[c].got
          /\ conn'[c].msg = conn[c].msg /\ conn'[c].reply = conn[c].reply
      BY <1>0, <2>1, <3>1 DEF Record
    <3>3. QED BY <1>0, <2>1, <3>2, AlikeStep
  <2>4. QED BY <1>1, <2>2, <2>3 DEF Accept
<1>2. CASE Refuse
  <2>1. PICK reply \in Kept(refusing, "ERR") : conn' = [conn EXCEPT ![refusing] = Over(conn[refusing], reply)]
    BY <1>2 DEF Refuse
  <2>2. refusing \in Conn /\ conn[refusing].pc = "backlog" /\ ConnOK(conn[refusing])
    BY <1>2 DEF Inv, InLine, Refuse, Waiting, Good
  <2>3. reply \in {"ERR", "lost"} /\ reply # Nothing
    BY VerifierAssumption DEF Kept
  <2>4. conn'[refusing] = Over(conn[refusing], reply) /\ \A d \in Conn \ {refusing} : conn'[d] = conn[d]
    BY <1>0, <2>1, <2>2
  <2>5. /\ conn'[refusing].reply = reply /\ conn'[refusing].msg = conn[refusing].msg
        /\ conn'[refusing].client = conn[refusing].client /\ conn'[refusing].got = conn[refusing].got
    BY <2>4 DEF Over, NoConn
  <2>6. Verdict(reply) = "error" /\ Service!True(conn[refusing].msg.asks, "error")
    BY <2>3 DEF Verdict, Service!True
  <2>7. conn[refusing].reply = Nothing
    BY <2>2 DEF ConnOK
  <2>8. QED BY <1>0, <2>2, <2>3, <2>4, <2>5, <2>6, <2>7, ReplyStep
<1>3. QED BY <1>1, <1>2

\* When the process ends, the answers that clients still wait for may be lost.
LEMMA ExitServes ==
    ASSUME Inv, Exit
    PROVE  Service!Next \/ UNCHANGED Service!vars
<1>1. PICK lost \in SUBSET {c \in Conn : conn[c].pc # "closed" /\ conn[c].reply # Nothing} :
         conn' = [c \in Conn |->
                    IF conn[c].pc = "none" THEN NoConn
                    ELSE Over(conn[c], IF c \in lost THEN "lost" ELSE conn[c].reply)]
  BY DEF Exit
<1> DEFINE C == {c \in lost : conn[c].client = "open"}
<1>2. ASSUME NEW d \in Conn
      PROVE  /\ conn'[d].client = conn[d].client /\ conn'[d].got = conn[d].got
             /\ conn'[d].msg = conn[d].msg
             /\ conn'[d].reply = IF d \in lost THEN "lost" ELSE conn[d].reply
  <2>1. conn[d] \in Record /\ Passed(conn[d])
    BY DEF Inv, Good
  <2>2. CASE conn[d].pc = "none"
    <3>1. conn'[d] = NoConn /\ conn[d] = NoConn /\ d \notin lost
      BY <1>1, <2>1, <2>2 DEF Passed, NoConn
    <3>2. QED BY <3>1
  <2>3. CASE conn[d].pc # "none"
    <3>1. conn'[d] = Over(conn[d], IF d \in lost THEN "lost" ELSE conn[d].reply)
      BY <1>1, <2>3
    <3>2. QED BY <3>1 DEF Over, NoConn
  <2>4. QED BY <2>2, <2>3
<1>3. ASSUME NEW d \in Conn \ C PROVE Alike(conn[d], conn'[d])
  <2>1. conn[d] \in Record /\ ConnOK(conn[d]) /\ Passed(conn[d])
    BY DEF Inv, Good
  <2>2. d \notin lost \/ conn[d].client = "done"
    BY <1>1, <1>3, <2>1 DEF Record, ConnOK, Passed, NoConn
  <2>3. QED BY <1>2, <2>2 DEF Alike, Asked, Told
<1>4. ASSUME NEW d \in C
      PROVE  /\ conn[d].client = "open" /\ conn'[d].client = "open"
             /\ Asked(conn'[d]) = Asked(conn[d])
             /\ Told(conn[d]) # Nothing /\ Told(conn'[d]) = "error"
  BY <1>1, <1>2, VerifierAssumption DEF Asked, Told, Verdict
<1>5. C \in SUBSET Conn /\ active' = active
  BY <1>1 DEF Exit
<1> HIDE DEF C
<1>6. QED BY <1>3, <1>4, <1>5, LoseStep

\* Whatever becomes of a connection, its client hears a yes only if yes was true
\* at some moment between its question and the answer.
THEOREM ServiceIsImplemented == Spec => ImplementsVerifierService
<1>1. Init => Service!Init
  <2> SUFFICES ASSUME Init PROVE Service!Init
    OBVIOUS
  <2>1. \A c \in Conn : conn[c].client = "idle" /\ Asked(conn[c]) = Nothing /\ Told(conn[c]) = Nothing
    BY DEF Init, NoConn, Asked, Told
  <2>2. QED BY <2>1 DEF Init, Service!Init
<1>2. Inv /\ [Next]_vars => [Service!Next]_(Service!vars)
  <2> SUFFICES ASSUME Inv, [Next]_vars PROVE Service!Next \/ UNCHANGED Service!vars
    OBVIOUS
  <2>1. CASE UNCHANGED vars
    <3>1. \A d \in Conn : Alike(conn[d], conn'[d])
      BY <2>1 DEF vars, Alike
    <3>2. QED BY <2>1, <3>1, StutterStep DEF vars
  <2>2. CASE Next
    <3>1. ASSUME NEW c \in Conn, \E m \in Message : Connect(c, m)
          PROVE  Service!Next \/ UNCHANGED Service!vars
      BY <3>1, ClientServes
    <3>2. ASSUME NEW c \in Conn, Send(c) \/ Receive(c) \/ GiveUp(c) \/ Forget(c)
          PROVE  Service!Next \/ UNCHANGED Service!vars
      BY <3>2, ClientServes
    <3>3. ASSUME NEW c \in Conn, Serve(c)
          PROVE  Service!Next \/ UNCHANGED Service!vars
      BY <3>3, ThreadServes
    <3>4. CASE Accept \/ Refuse
      BY <3>4, DoorServes
    <3>5. CASE Signal \/ Crash
      BY <3>5, ExitServes DEF Signal, Crash
    <3>6. CASE Begin \/ Check \/ Bind \/ PutFile
      <4>1. conn' = conn /\ active' = active
        BY <3>6 DEF Begin, Check, Bind, PutFile
      <4>2. \A d \in Conn : Alike(conn[d], conn'[d])
        BY <4>1 DEF Alike
      <4>3. QED BY <4>1, <4>2, StutterStep
    <3>7. CASE Toggle
      BY <3>7 DEF Toggle, Service!Next, Service!Toggle
    <3>8. QED BY <2>2, <3>1, <3>2, <3>3, <3>4, <3>5, <3>6, <3>7 DEF Next
  <2>3. QED BY <2>1, <2>2
<1>3. QED BY <1>1, <1>2, Invariance, PTL DEF Spec, Service!Spec, ImplementsVerifierService
=============================================================================
