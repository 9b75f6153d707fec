--------------------------- MODULE KeychainProofs ---------------------------
(***************************************************************************)
(* Proofs about Keychain for any range of the chip, any build time, any    *)
(* nudge and any interval of the mark, any lengths of a counter, a step    *)
(* and a code, and any HMAC:                                               *)
(*   TypeCorrect         the type invariant                                *)
(*   CodesNeverGoBack    a code shown is never much older than one shown   *)
(*                       before it                                         *)
(*   TrustIsKept         a trusted clock is trusted after a restart        *)
(*   CodesDoWork         a code shown that does not say "wait" is accepted *)
(*   CodesDoExpire       and refused two steps away from its own           *)
(***************************************************************************)
EXTENDS Keychain, TLAPS

-----------------------------------------------------------------------------
(* Lemmas about the operators.                                             *)

\* evaluate() returns a state of the clock.
LEMMA VerdictType ==
    ASSUME NEW p, NEW m
    PROVE  Verdict(p, m) \in ClockState
BY DEF Verdict, ClockState

\* It trusts a clock that answers, runs, was set, and is past the build and the
\* mark, and no other.
LEMMA VerdictOk ==
    ASSUME TypeOK, NEW p \in BOOLEAN, NEW m \in Time
    PROVE  Verdict(p, m) = "Ok" <=>
              wired /\ ~chip.stopped /\ p /\ chip.time >= BuildEpoch /\ chip.time >= m
<1>1. /\ wired \in BOOLEAN /\ chip.stopped \in BOOLEAN
      /\ chip.time \in Int /\ m \in Int /\ BuildEpoch \in Int
  BY ClockAssumption DEF TypeOK, Time
<1>2. chip.time < BuildEpoch <=> ~(chip.time >= BuildEpoch)
  BY <1>1
<1>3. chip.time < m <=> ~(chip.time >= m)
  BY <1>1
<1>4. QED BY <1>1, <1>2, <1>3 DEF Verdict

\* The chip returns a time, with or without the wire.
LEMMA ReadingsType ==
    ASSUME TypeOK
    PROVE  Readings \subseteq Time
BY DEF TypeOK, Readings

-----------------------------------------------------------------------------
(* The type invariant.                                                     *)

\* Every variable keeps its type, whatever the chip, the wire and the power do.
THEOREM TypeCorrect == Spec => []TypeOK
<1>1. Init => TypeOK
  <2>1. 0 \in Time
    BY ClockAssumption DEF Time
  <2>2. QED BY <2>1 DEF Init, TypeOK, ClockState, Blank
<1>2. TypeOK /\ [Next]_vars => TypeOK'
  <2> SUFFICES ASSUME TypeOK, [Next]_vars PROVE TypeOK'
    OBVIOUS
  <2> USE DEF TypeOK, Running
  <2>0. 0 \in Time
    BY ClockAssumption DEF Time
  <2>1. CASE Boot
    BY <2>1, <2>0, VerdictType DEF Boot, ClockState
  <2>2. CASE SaveFlag
    BY <2>2 DEF SaveFlag
  <2>3. CASE FinishSet
    BY <2>3, VerdictType DEF FinishSet, SetHighWater
  <2>4. CASE ReadClock
    BY <2>4, <2>0, ReadingsType DEF ReadClock, SetHighWater, ClockState
  <2>5. CASE Draw
    BY <2>5, <2>0 DEF Draw
  <2>6. ASSUME NEW t \in Time, SetTime(t) PROVE TypeOK'
    BY <2>6 DEF SetTime
  <2>7. ASSUME NEW t \in Time, Drift(t) PROVE TypeOK'
    BY <2>7 DEF Drift
  <2>8. CASE PowerOff
    BY <2>8, <2>0 DEF PowerOff, ClockState, Blank
  <2>9. CASE LoseBattery
    BY <2>9, <2>0 DEF LoseBattery
  <2>10. CASE Contact
    BY <2>10 DEF Contact
  <2>11. CASE UNCHANGED vars
    BY <2>11 DEF vars
  <2>12. QED
    BY <2>1, <2>2, <2>3, <2>4, <2>5, <2>6, <2>7, <2>8, <2>9, <2>10, <2>11 DEF Next
<1>3. QED BY <1>1, <1>2, PTL DEF Spec

-----------------------------------------------------------------------------
(* The mark.                                                               *)

\* The inductive invariant: what was shown is covered by the mark in flash.
THEOREM MarkCoversCodes == Spec => []ClockInv
<1>1. Init => ClockInv
  <2>1. 0 =< 0 + Interval
    BY ClockAssumption
  <2>2. QED BY <2>1 DEF Init, ClockInv, CodesMoveForward, Blank
<1>2. TypeOK /\ ClockInv /\ [Next]_vars => ClockInv'
  <2> SUFFICES ASSUME TypeOK, ClockInv, [Next]_vars PROVE ClockInv'
    OBVIOUS
  <2>0. /\ newest \in Int /\ flash.mark \in Int /\ lastSeen \in Int /\ epoch \in Int
        /\ screen.time \in Int /\ chip.time \in Int /\ Interval \in Nat /\ Time \subseteq Int
        /\ flash \in [provisioned : BOOLEAN, mark : Time]
    BY ClockAssumption DEF TypeOK, Time
  <2>1. CASE Boot
    <3>1. state' = "Ok" => flash'.provisioned
      BY <2>1, VerdictOk DEF Boot, TypeOK
    <3>2. QED BY <2>1, <3>1 DEF Boot, ClockInv, CodesMoveForward
  <2>2. CASE SaveFlag
    BY <2>2, <2>0 DEF SaveFlag, ClockInv, CodesMoveForward
  <2>3. CASE FinishSet
    <3>1. /\ flash'.mark >= flash.mark /\ flash'.mark \in Int
          /\ lastSeen' = flash'.mark /\ flash'.provisioned = flash.provisioned
      BY <2>3, <2>0 DEF FinishSet, SetHighWater, ClockInv
    <3>2. flash.provisioned
      BY <2>3 DEF FinishSet, ClockInv
    <3>3. QED BY <2>3, <2>0, <3>1, <3>2 DEF FinishSet, ClockInv, CodesMoveForward
  <2>4. CASE ReadClock
    BY <2>4, <2>0, ReadingsType DEF ReadClock, SetHighWater, Due, ClockInv, CodesMoveForward
  <2>5. CASE Draw
    <3>1. /\ flash' = flash /\ state' = state /\ lastSeen' = lastSeen /\ epoch' = epoch
          /\ pc = "read" /\ pc' = "poll"
      BY <2>5 DEF Draw
    <3>2. newest' =< flash.mark + Interval
      BY <2>5, <2>0 DEF Draw, ClockInv
    <3>3. CodesMoveForward'
      <4>1. CASE screen' = screen /\ newest' = newest
        BY <4>1 DEF ClockInv, CodesMoveForward
      <4>2. CASE state = "Ok" /\ screen' = [shows |-> "code", time |-> epoch]
        BY <4>2, <2>5, <2>0 DEF Draw, ClockInv, CodesMoveForward
      <4>3. CASE state # "Ok" /\ screen' = [shows |-> state, time |-> 0]
        BY <4>3 DEF TypeOK, ClockState, CodesMoveForward
      <4>4. QED BY <4>1, <4>2, <4>3, <2>5 DEF Draw
    <3>4. QED BY <3>1, <3>2, <3>3 DEF ClockInv
  <2>6. ASSUME NEW t \in Time, SetTime(t) PROVE ClockInv'
    BY <2>6 DEF SetTime, ClockInv, CodesMoveForward
  <2>7. ASSUME NEW t \in Time, Drift(t) PROVE ClockInv'
    BY <2>7 DEF Drift, ClockInv, CodesMoveForward
  <2>8. CASE PowerOff
    BY <2>8 DEF PowerOff, ClockInv, CodesMoveForward, Blank
  <2>9. CASE LoseBattery
    BY <2>9 DEF LoseBattery, ClockInv, CodesMoveForward
  <2>10. CASE Contact
    BY <2>10 DEF Contact, ClockInv, CodesMoveForward
  <2>11. CASE UNCHANGED vars
    BY <2>11 DEF vars, ClockInv, CodesMoveForward
  <2>12. QED
    BY <2>1, <2>2, <2>3, <2>4, <2>5, <2>6, <2>7, <2>8, <2>9, <2>10, <2>11 DEF Next
<1>3. QED BY <1>1, <1>2, TypeCorrect, PTL DEF Spec

\* A code is never much older than one shown before it, across restarts, flat
\* batteries and anything that sets the chip.
THEOREM CodesNeverGoBack == Spec => []CodesMoveForward
<1>1. ClockInv => CodesMoveForward
  BY DEF ClockInv
<1>2. QED BY <1>1, MarkCoversCodes, PTL

\* A restart does not lose a trusted clock, at whatever point of setting the
\* time the power went.
THEOREM TrustIsKept == Spec => []RestartKeepsTrust
<1>1. TypeOK /\ ClockInv => RestartKeepsTrust
  <2> SUFFICES ASSUME TypeOK, ClockInv, state = "Ok", wired, ~chip.stopped,
                      chip.time >= BuildEpoch, chip.time >= lastSeen
               PROVE  Verdict(flash.provisioned, flash.mark) = "Ok"
    BY DEF RestartKeepsTrust
  <2>1. lastSeen = flash.mark /\ flash.provisioned
    BY DEF ClockInv
  <2>2. flash.mark \in Time /\ flash.provisioned \in BOOLEAN
    BY DEF TypeOK
  <2>3. QED BY <2>1, <2>2, VerdictOk
<1>2. QED BY <1>1, TypeCorrect, MarkCoversCodes, PTL

-----------------------------------------------------------------------------
(* Counters and codes.                                                     *)

\* A time lies in the step of its counter.
LEMMA InItsStep ==
    ASSUME NEW t \in Nat
    PROVE  /\ CounterAt(t) \in Nat
           /\ Step * CounterAt(t) =< t /\ t < Step * CounterAt(t) + Step
           /\ t % Step = t - Step * CounterAt(t)
<1>1. Step \in Nat \ {0}
  BY OtpAssumption
<1>2. t \div Step \in Nat /\ Step * (t \div Step) =< t /\ t < Step * (t \div Step) + Step
  BY <1>1
<1>3. t % Step = t - Step * (t \div Step)
  BY <1>1
<1>4. QED BY <1>2, <1>3 DEF CounterAt

\* A counter fits into its bytes.
LEMMA BytesOfCounter ==
    ASSUME NEW c \in Int
    PROVE  CounterBytes(c) \in Message
<1>1. Base \in Nat \ {0} /\ Width \in Nat \ {0}
  BY OtpAssumption
<1>2. ASSUME NEW i \in 1 .. Width
      PROVE  (c \div Base^(Width - i)) % Base \in Byte
  <2>1. Width - i \in 0 .. Width
    BY <1>1
  <2>2. Base^(Width - i) \in Nat \ {0}
    BY <2>1, OtpAssumption
  <2>3. QED BY <1>1, <2>2 DEF Byte
<1>3. QED BY <1>2 DEF CounterBytes, Message

\* The keychain and the server compute the same code for a counter, although
\* the keychain takes the length of the HMAC for granted.
LEMMA SameCode ==
    ASSUME NEW t \in Nat
    PROVE  KeychainCode(t) = ServerCode(CounterAt(t))
<1>1. CounterBytes(CounterAt(t)) \in Message
  BY InItsStep, BytesOfCounter
<1>2. Len(Mac(CounterBytes(CounterAt(t)))) = MacBytes
  BY <1>1, OtpAssumption
<1>3. QED BY <1>2 DEF KeychainCode, ServerCode, CounterAt

\* The counters wrap around at a number.
LEMMA WordType == Word \in Int
<1>1. Base \in Nat \ {0} /\ Width \in Nat \ {0}
  BY OtpAssumption
<1>2. QED BY <1>1 DEF Word

\* verify_code() tries the counter before its own, its own and the next, and
\* before counter 0 the largest one.
LEMMA Tried ==
    ASSUME NEW now \in Nat, NEW c \in Nat, now + 1 < Word, c + 1 < Word, Word \in Int
    PROVE  c \in Counters(now) <=> c - now \in -1 .. 1
<1>1. Counters(now) = {(now + offset) % Word : offset \in {-1, 0, 1}}
  BY DEF Counters
<1>2. (now + 0) % Word = now /\ (now + 1) % Word = now + 1
  OBVIOUS
<1>3. (now + (-1)) % Word = IF now = 0 THEN Word - 1 ELSE now - 1
  <2>1. CASE now = 0
    BY <2>1
  <2>2. CASE now # 0
    BY <2>2
  <2>3. QED BY <2>1, <2>2
<1>4. Counters(now) = {(now + (-1)) % Word, (now + 0) % Word, (now + 1) % Word}
  BY <1>1
<1>5. Counters(now) = {IF now = 0 THEN Word - 1 ELSE now - 1, now, now + 1}
  BY <1>2, <1>3, <1>4
<1>6. QED BY <1>5

\* The sign to wait comes while more than a quarter of the step is left.
LEMMA EnoughLeft ==
    ASSUME NEW t \in Nat, ~SaysWait(t)
    PROVE  4 * (Step * CounterAt(t) + Step - t) > Step
<1>1. Step \in Nat \ {0}
  BY OtpAssumption
<1> DEFINE left == SecondsLeft(t)
<1>2. left = Step * CounterAt(t) + Step - t /\ left \in Nat
  <2>1. t % Step = t - Step * CounterAt(t) /\ t < Step * CounterAt(t) + Step /\ CounterAt(t) \in Nat
    BY InItsStep
  <2>2. Step * CounterAt(t) \in Nat
    BY <1>1, <2>1
  <2>3. QED BY <1>1, <2>1, <2>2 DEF SecondsLeft
<1>3. Ceiling(left) \in Int /\ Ceiling(left) > 1
  <2>1. Ceiling(left) \in Int
    BY <1>1, <1>2 DEF Ceiling
  <2>2. QED BY <2>1 DEF SaysWait, Lines
<1>4. (left * 4 + Step - 1) \div Step >= 2
  BY <1>3 DEF Ceiling
<1> HIDE DEF left
<1>5. left * 4 > Step
  BY <1>1, <1>2, <1>4
<1>6. QED BY <1>1, <1>2, <1>5

\* Time enough to type, and a clock a step off: the counters are neighbours.
LEMMA Neighbours ==
    ASSUME NEW t \in Nat, ~SaysWait(t), NEW typing \in 0 .. Step \div 4,
           NEW skew \in -Step .. Step, t + typing + skew \in Nat
    PROVE  CounterAt(t) - CounterAt(t + typing + skew) \in -1 .. 1
<1>1. Step \in Nat \ {0}
  BY OtpAssumption
<1> DEFINE c == CounterAt(t)
           server == t + typing + skew
           e == CounterAt(server)
<1>2. c \in Nat /\ Step * c =< t /\ t < Step * c + Step
  BY InItsStep
<1>3. e \in Nat /\ Step * e =< server /\ server < Step * e + Step
  BY InItsStep
<1>4. 4 * (Step * c + Step - t) > Step
  BY EnoughLeft
<1>5. typing \in Nat /\ 4 * typing =< Step
  BY <1>1
<1> HIDE DEF c, e
<1>6. t + typing < Step * c + Step
  BY <1>1, <1>2, <1>4, <1>5
<1>7. Step * e < Step * (c + 2)
  BY <1>1, <1>2, <1>3, <1>5, <1>6
<1>8. Step * (c - 2) < Step * e
  BY <1>1, <1>2, <1>3, <1>5, <1>6
<1>9. e < c + 2 /\ c - 2 < e
  BY <1>1, <1>2, <1>3, <1>7, <1>8
<1>10. c - e \in -1 .. 1
  BY <1>2, <1>3, <1>9
<1>11. QED BY <1>10 DEF c, e

\* The counters of the keychain's times stay clear of the largest one.
LEMMA FarFromLargest ==
    ASSUME NEW t \in Nat, t =< MaxTime + 3 * Step
    PROVE  CounterAt(t) + 1 < Word /\ CounterAt(t) =< CounterAt(MaxTime + 3 * Step)
<1>1. Step \in Nat \ {0} /\ MaxTime + 3 * Step \in Nat /\ Word \in Int
  BY OtpAssumption, ClockAssumption, WordType
<1>2. CounterAt(t) =< CounterAt(MaxTime + 3 * Step)
  BY <1>1 DEF CounterAt
<1>3. QED BY <1>1, <1>2, InItsStep, HorizonAssumption

-----------------------------------------------------------------------------
(* What the server says to a code on the display.                          *)

\* A code on the display that does not say "wait" is accepted, for any length
\* of a step and any skew up to one.
THEOREM CodesDoWork == Spec => []ShownCodeWorks
<1>1. TypeOK => ShownCodeWorks
  <2> SUFFICES ASSUME TypeOK, ~SaysWait(screen.time),
                      NEW typing \in 0 .. Step \div 4, NEW skew \in -Step .. Step,
                      screen.time + typing + skew >= 0
               PROVE  Accepted(Shown, screen.time + typing + skew)
    BY DEF ShownCodeWorks
  <2> DEFINE t == screen.time
             server == t + typing + skew
  <2>1. t \in Nat /\ t =< MaxTime /\ Step \in Nat \ {0} /\ MaxTime \in Nat
    BY OtpAssumption, ClockAssumption DEF TypeOK, Time
  <2>2. server \in Nat /\ server =< MaxTime + 3 * Step
    BY <2>1
  <2>3. CounterAt(t) \in Counters(CounterAt(server))
    <3>1. CounterAt(t) - CounterAt(server) \in -1 .. 1
      BY <2>1, <2>2, Neighbours
    <3>2. t \in Nat /\ t =< MaxTime + 3 * Step
      BY <2>1
    <3> HIDE DEF server, t
    <3>3. CounterAt(t) \in Nat /\ CounterAt(t) + 1 < Word
      BY <3>2, FarFromLargest, InItsStep
    <3>4. CounterAt(server) \in Nat /\ CounterAt(server) + 1 < Word
      BY <2>2, FarFromLargest, InItsStep
    <3>5. QED BY <3>1, <3>3, <3>4, WordType, Tried
  <2>4. ServerCode(CounterAt(t)) = Shown
    BY <2>1, SameCode DEF Shown
  <2>5. QED BY <2>3, <2>4 DEF Accepted
<1>2. QED BY <1>1, TypeCorrect, PTL

\* Where no two counters have the same code, a code on the display is refused
\* by a server whose counter is two or more away from its own.
THEOREM CodesDoExpire == ASSUME NoCollisions PROVE Spec => []CodesExpire
<1>1. TypeOK => CodesExpire
  <2> SUFFICES ASSUME TypeOK, NEW server \in 0 .. MaxTime + 3 * Step, Accepted(Shown, server)
               PROVE  CounterAt(server) - CounterAt(screen.time) \in -1 .. 1
    BY DEF CodesExpire
  <2> DEFINE t == screen.time
             now == CounterAt(server)
             own == CounterAt(t)
             last == CounterAt(MaxTime + 3 * Step)
  <2>1. t \in Nat /\ t =< MaxTime + 3 * Step /\ server \in Nat /\ server =< MaxTime + 3 * Step
    BY OtpAssumption, ClockAssumption DEF TypeOK, Time
  <2>2. /\ own \in Nat /\ own + 1 < Word /\ own =< last
        /\ now \in Nat /\ now + 1 < Word /\ now =< last
    BY <2>1, FarFromLargest, InItsStep
  <2>3. Word \in Int /\ last \in Int
    <3>1. MaxTime + 3 * Step \in Nat
      BY OtpAssumption, ClockAssumption
    <3>2. last \in Nat
      BY <3>1, InItsStep
    <3>3. QED BY <3>2, WordType
  <2>4. PICK c \in Counters(now) : ServerCode(c) = ServerCode(own)
    BY <2>1, SameCode DEF Accepted, Shown
  <2> HIDE DEF now, own, last
  <2>5. c \in (0 .. last + 1) \cup {Word - 1}
    BY <2>2, <2>3, <2>4 DEF Counters
  <2>6. c = own
    BY <2>2, <2>3, <2>4, <2>5 DEF NoCollisions, last
  <2>7. own - now \in -1 .. 1
    BY <2>2, <2>3, <2>4, <2>6, Tried
  <2>8. QED BY <2>2, <2>7 DEF now, own
<1>2. QED BY <1>1, TypeCorrect, PTL
=============================================================================
