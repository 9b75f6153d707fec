---------------------------- MODULE KeychainClock ----------------------------
(***************************************************************************)
(* The clock of a keychain (firmware/xAuth_ID/src/clock.cpp) and the loop  *)
(* that shows codes from it (firmware/xAuth_ID/src/main.cpp).              *)
(*                                                                         *)
(* The time lives in a battery-backed chip, a flag and the latest time     *)
(* seen (the mark) in flash, the verdict on the clock in RAM.  Each write  *)
(* to the chip or to flash is an action, because the power may go between  *)
(* any two.  The chip may also be set, lose its battery or its wire behind *)
(* the firmware's back.  Flash is not erased: that is how an owner starts  *)
(* over (clock.cpp:117).                                                   *)
(*                                                                         *)
(* A time stands for the code of its step.                                 *)
(***************************************************************************)
EXTENDS Integers

CONSTANTS
    MaxTime,    \* the latest time the chip counts to
    BuildEpoch, \* when the firmware was built
    MaxNudge,   \* how far a trusted clock is moved
    Interval    \* how far the mark may lag behind the time

ASSUME ClockAssumption ==
    /\ MaxTime \in Nat
    /\ BuildEpoch \in Nat
    /\ MaxNudge \in Nat
    /\ Interval \in Nat

VARIABLES
    chip,       \* the DS3231: its time, and whether its oscillator has stopped
    wired,      \* it answers on the bus
    flash,      \* NVS: the flag and the mark
    pc,         \* where the firmware is
    state,      \* its verdict on the clock
    lastSeen,   \* the mark, mirrored in RAM
    epoch,      \* the time being set, or the time just read
    drawn,      \* what loop() last drew
    screen,     \* what the display shows
    newest      \* history: the latest time whose code was ever shown

vars == <<chip, wired, flash, pc, state, lastSeen, epoch, drawn, screen, newest>>

Time == 0 .. MaxTime
ClockState == {"Ok", "NoRtc", "Stopped", "NeverSet", "WentBackwards"}
Running == {"poll", "adjusted", "flagged", "read"}
Blank == [shows |-> "blank", time |-> 0]

\* A chip out of the box, firmware just flashed.
Init ==
    /\ chip = [time |-> 0, stopped |-> TRUE]
    /\ wired = TRUE
    /\ flash = [provisioned |-> FALSE, mark |-> 0]
    /\ pc = "off"
    /\ state = "NoRtc"
    /\ lastSeen = 0
    /\ epoch = 0
    /\ drawn = [state |-> "NoRtc", time |-> 0]
    /\ screen = Blank
    /\ newest = 0

\* The values a read of the chip can return: without it, anything.
Readings == IF wired THEN {chip.time} ELSE Time

\* evaluate(), for the flag and the mark given.
Verdict(provisioned, mark) ==
    CASE ~wired -> "NoRtc"
      [] wired /\ (chip.stopped \/ (provisioned /\ chip.time < BuildEpoch)) -> "Stopped"
      [] wired /\ ~chip.stopped /\ ~provisioned -> "NeverSet"
      [] /\ wired /\ ~chip.stopped /\ provisioned
         /\ chip.time >= BuildEpoch /\ chip.time < mark -> "WentBackwards"
      [] OTHER -> "Ok"

-----------------------------------------------------------------------------
(* The firmware.                                                           *)

\* setup(): the mark is read back from flash.
Boot ==
    /\ pc = "off"
    /\ pc' = "poll"
    /\ lastSeen' = flash.mark
    /\ state' = Verdict(flash.provisioned, flash.mark)
    /\ drawn' = [state |-> "NoRtc", time |-> 0]
    /\ UNCHANGED <<chip, wired, flash, epoch, screen, newest>>

\* The checks of apply_time().  A time that fails them changes nothing.
Nudge(now, t) == t - now =< MaxNudge /\ now - t =< MaxNudge

Accepts(t) ==
    /\ state # "NoRtc"
    /\ t >= BuildEpoch
    /\ state = "Ok" => \E now \in Readings : Nudge(now, t)
    /\ t >= lastSeen - MaxNudge

\* The command "T <t>", up to the write of the chip, which also clears the
\* stop flag.
SetTime(t) ==
    /\ pc = "poll"
    /\ Accepts(t)
    /\ chip' = IF wired THEN [time |-> t, stopped |-> FALSE] ELSE chip
    /\ epoch' = t
    /\ pc' = "adjusted"
    /\ UNCHANGED <<wired, flash, state, lastSeen, drawn, screen, newest>>

SaveFlag ==
    /\ pc = "adjusted"
    /\ flash' = [flash EXCEPT !.provisioned = TRUE]
    /\ pc' = "flagged"
    /\ UNCHANGED <<chip, wired, state, lastSeen, epoch, drawn, screen, newest>>

\* set_high_water(): in RAM and in flash.
RamOnly(t) == lastSeen' = t /\ UNCHANGED flash      \* mutation: the mark is not saved
FlashOnly(t) == flash' = [flash EXCEPT !.mark = t] /\ UNCHANGED lastSeen
                                                    \* mutation: its mirror goes stale
NextWrite(t) == lastSeen' = t + Interval /\ flash' = [flash EXCEPT !.mark = t + Interval]
                                                    \* mutation: saves when it is due
SetHighWater(t) ==
    /\ lastSeen' = t
    /\ flash' = [flash EXCEPT !.mark = t]

\* The rest of apply_time(): the mark moves up, and the clock is judged again.
FinishSet ==
    /\ pc = "flagged"
    /\ \/ epoch > lastSeen /\ SetHighWater(epoch)
       \/ epoch =< lastSeen /\ UNCHANGED <<lastSeen, flash>>
    /\ state' = Verdict(TRUE, lastSeen')
    /\ pc' = "poll"
    /\ UNCHANGED <<chip, wired, epoch, drawn, screen, newest>>

DueLate(now) == now > lastSeen + 2 * Interval       \* mutation: saved too seldom
Due(now) == now > lastSeen + Interval

\* clock_now(), unless there is no chip: a trusted clock that is behind the mark
\* is not trusted any more, one well ahead of it moves the mark.
ReadClock ==
    /\ pc = "poll"
    /\ pc' = "read"
    /\ \/ /\ state = "NoRtc" /\ epoch' = 0
          /\ UNCHANGED <<state, lastSeen, flash>>
       \/ /\ state # "NoRtc"
          /\ \E now \in Readings :
                /\ epoch' = now
                /\ \/ /\ state = "Ok" /\ now < lastSeen
                      /\ state' = "WentBackwards" /\ UNCHANGED <<lastSeen, flash>>
                   \/ /\ state = "Ok" /\ Due(now)
                      /\ SetHighWater(now) /\ UNCHANGED state
                   \/ /\ state = "Ok" => now >= lastSeen /\ ~Due(now)
                      /\ UNCHANGED <<state, lastSeen, flash>>
    /\ UNCHANGED <<chip, wired, drawn, screen, newest>>

\* The rest of loop(): it draws when the time or the verdict has changed.
NewTime(now) == now # drawn.time        \* mutation: the verdict is not compared
News(now) == now # drawn.time \/ state # drawn.state

Draw ==
    /\ pc = "read"
    /\ pc' = "poll"
    /\ \/ ~News(epoch) /\ UNCHANGED <<drawn, screen, newest>>
       \/ /\ News(epoch)
          /\ drawn' = [state |-> state, time |-> epoch]
          /\ \/ /\ state = "Ok"
                /\ screen' = [shows |-> "code", time |-> epoch]
                /\ newest' = IF epoch > newest THEN epoch ELSE newest
             \/ /\ state # "Ok"
                /\ screen' = [shows |-> state, time |-> 0]
                /\ UNCHANGED newest
    /\ UNCHANGED <<chip, wired, flash, state, lastSeen, epoch>>

-----------------------------------------------------------------------------
(* What happens to it.                                                     *)

\* The power goes, between any two steps.
PowerOff ==
    /\ pc # "off"
    /\ pc' = "off"
    /\ state' = "NoRtc" /\ lastSeen' = 0 /\ epoch' = 0
    /\ drawn' = [state |-> "NoRtc", time |-> 0]
    /\ screen' = Blank
    /\ UNCHANGED <<chip, wired, flash, newest>>

\* The battery fails or is taken out while there is no other power.
LoseBattery ==
    /\ pc = "off"
    /\ chip' = [time |-> 0, stopped |-> TRUE]
    /\ UNCHANGED <<wired, flash, pc, state, lastSeen, epoch, drawn, screen, newest>>

\* The time goes on by any amount, or something sets the chip.
Drift(t) ==
    /\ chip' = [chip EXCEPT !.time = t]
    /\ UNCHANGED <<wired, flash, pc, state, lastSeen, epoch, drawn, screen, newest>>

\* A contact breaks or is made.
Contact ==
    /\ wired' = ~wired
    /\ UNCHANGED <<chip, flash, pc, state, lastSeen, epoch, drawn, screen, newest>>

Next ==
    \/ Boot \/ SaveFlag \/ FinishSet \/ ReadClock \/ Draw
    \/ \E t \in Time : SetTime(t) \/ Drift(t)
    \/ PowerOff \/ LoseBattery \/ Contact

Spec == Init /\ [][Next]_vars

\* The loop runs on, and serial commands leave it room for the display.
FairSpec ==
    Spec /\ WF_vars(SaveFlag) /\ WF_vars(FinishSet) /\ SF_vars(ReadClock) /\ WF_vars(Draw)

-----------------------------------------------------------------------------
(* Properties.                                                             *)

\* Type invariant.
TypeOK ==
    /\ chip \in [time : Time, stopped : BOOLEAN]
    /\ wired \in BOOLEAN
    /\ flash \in [provisioned : BOOLEAN, mark : Time]
    /\ pc \in Running \cup {"off"}
    /\ state \in ClockState
    /\ lastSeen \in Time
    /\ epoch \in Time
    /\ drawn \in [state : ClockState, time : Time]
    /\ screen \in [shows : {"blank", "code"} \cup (ClockState \ {"Ok"}), time : Time]
    /\ newest \in Time

\* A code on the display is never much older than one shown before it, whatever
\* happens to the chip, the wire and the power: going back by more than the
\* mark's interval shows no code (clock.cpp:85-101, 112-119).
CodesMoveForward == screen.shows = "code" => newest =< screen.time + Interval

\* The mark in flash and its mirror agree on every step that uses them, and
\* cover what was shown.  A trusted clock was set by its owner, and flash knows.
ClockInv ==
    /\ newest =< flash.mark + Interval
    /\ pc # "off" => lastSeen = flash.mark
    /\ pc = "flagged" \/ state = "Ok" => pc # "off" /\ flash.provisioned
    /\ state = "Ok" /\ pc = "read" => epoch >= lastSeen /\ epoch =< lastSeen + Interval
    /\ CodesMoveForward

\* A trusted clock is trusted again after a restart, if the chip still keeps
\* the time that RAM remembers, even if the power goes in the middle of
\* apply_time (clock.cpp:44-54, 121-125).
RestartKeepsTrust ==
    state = "Ok" /\ wired /\ ~chip.stopped /\ chip.time >= BuildEpoch /\ chip.time >= lastSeen
        => Verdict(flash.provisioned, flash.mark) = "Ok"

\* A code is taken off the display once its clock is not trusted any more.
CodesGoAway ==
    state # "Ok" /\ screen.shows = "code" ~> state = "Ok" \/ screen.shows # "code"

\* What runbook.md:73 says: a keychain whose chip does not answer shows NO CLOCK.
NoClockIsShown ==
    pc # "off" /\ state = "NoRtc" ~> pc = "off" \/ state # "NoRtc" \/ screen.shows = "NoRtc"
=============================================================================
