------------------------------- MODULE Sensors -------------------------------
(***************************************************************************)
(* wireless-internet-of-things/Assignment4: a device (DUT) that publishes   *)
(* its temperature at an interval, an Inspector that averages and shows it  *)
(* and sets the interval, and the Server that passes their messages on.     *)
(*                                                                         *)
(* A tick is the shortest of the sampling rates, and each loop runs in each *)
(* tick.  The clock of the device, millis(), wraps.  The broker keeps the   *)
(* order of the messages to a client, loses none of a client that has       *)
(* subscribed, and keeps none for one that has not.                         *)
(***************************************************************************)
EXTENDS Integers, Sequences, SequencesExt

CONSTANTS
  SAMPLING_RATES,   \* a sequence of ticks
  Window,           \* readings of one tick that the average is over
  Reading, Hot,     \* temperatures, and the one from which there is an alert
  Clock,            \* millis() comes back to 0
  MaxPresses, MaxQueue, MaxData

VARIABLES
  dut,              \* [joined, interval, timer, due]: due is the interval of the last reading
  millis, wrapped, since,   \* of the clock or the timer; ticks since the last reading
  to_dut, to_inspector,     \* on their way through the broker
  inspector,        \* [joined, at, due]: where its loop is; it has to show something
  prg_pressed_counter, btn_flag,
  data, shown,
  presses, merged, missed   \* merged: in one flag; missed: a rate published before the device joined

svars == <<dut, millis, wrapped, since, to_dut, to_inspector, inspector, prg_pressed_counter, btn_flag,
           data, shown, presses, merged, missed>>

Rate(n) == SAMPLING_RATES[(n % Len(SAMPLING_RATES)) + 1]

-----------------------------------------------------------------------------
(* DUT/src/main.cpp.  The timer is set in the first loop. *)

SetupDut ==
  /\ ~dut.joined
  /\ dut' = [dut EXCEPT !.joined = TRUE, !.timer = millis + dut.interval, !.due = dut.interval]
  /\ since' = 0 /\ wrapped' = (wrapped \/ millis + dut.interval >= Clock)
  /\ UNCHANGED <<millis, to_dut, to_inspector, inspector, prg_pressed_counter, btn_flag, data, shown, presses, merged, missed>>

\* It holds from the reading after the next one.
onPublishControl ==
  /\ dut.joined /\ to_dut # << >>
  /\ dut' = [dut EXCEPT !.interval = Head(to_dut)] /\ to_dut' = Tail(to_dut)
  /\ UNCHANGED <<millis, wrapped, since, to_inspector, inspector, prg_pressed_counter, btn_flag, data, shown, presses, merged, missed>>

DutLate == dut.joined /\ millis >= dut.timer

\* Mutant of PublishTemp: a new interval is used one reading later.
PublishTempTwice ==
  /\ DutLate /\ Len(to_inspector) < MaxQueue
  /\ \E t \in Reading : to_inspector' = IF inspector.joined THEN Append(to_inspector, t) ELSE to_inspector
  /\ dut' = [dut EXCEPT !.timer = (@ + dut.due) % Clock, !.due = dut.interval]
  /\ wrapped' = (wrapped \/ dut.timer + dut.due >= Clock) /\ since' = 0
  /\ UNCHANGED <<millis, to_dut, inspector, prg_pressed_counter, btn_flag, data, shown, presses, merged, missed>>

PublishTemp ==
  /\ DutLate /\ Len(to_inspector) < MaxQueue
  /\ \E t \in Reading : to_inspector' = IF inspector.joined THEN Append(to_inspector, t) ELSE to_inspector
  /\ dut' = [dut EXCEPT !.timer = (@ + dut.interval) % Clock, !.due = dut.interval]
  /\ wrapped' = (wrapped \/ dut.timer + dut.interval >= Clock) /\ since' = 0
  /\ UNCHANGED <<millis, to_dut, inspector, prg_pressed_counter, btn_flag, data, shown, presses, merged, missed>>

-----------------------------------------------------------------------------
(* Inspector/Inspector/src/main.cpp: an interrupt, and a loop that looks at messages, at the
   button and at the time *)

SetupInspector ==
  /\ ~inspector.joined
  /\ inspector' = [inspector EXCEPT !.joined = TRUE]
  /\ UNCHANGED <<dut, millis, wrapped, since, to_dut, to_inspector, prg_pressed_counter, btn_flag, data, shown, presses, merged, missed>>

prg_handler ==
  /\ presses < MaxPresses
  /\ btn_flag' = TRUE /\ presses' = presses + 1 /\ merged' = IF btn_flag THEN merged + 1 ELSE merged
  /\ UNCHANGED <<dut, millis, wrapped, since, to_dut, to_inspector, inspector, prg_pressed_counter, data, shown, missed>>

\* A reading stands for as many as there are ticks in an interval.
onPublishTemp ==
  /\ inspector.joined /\ inspector.at = "mqtt" /\ to_inspector # << >>
  /\ Len(data) + Rate(prg_pressed_counter) <= MaxData
  /\ data' = data \o [i \in 1 .. Rate(prg_pressed_counter) |-> Head(to_inspector)]
  /\ to_inspector' = Tail(to_inspector)
  /\ UNCHANGED <<dut, millis, wrapped, since, to_dut, inspector, prg_pressed_counter, btn_flag, shown, presses, merged, missed>>

\* The rate is published before the counter moves on.
PublishRate ==
  /\ inspector.joined /\ inspector.at = "mqtt" /\ btn_flag /\ Len(to_dut) < MaxQueue
  /\ inspector' = [inspector EXCEPT !.at = "button"]
  /\ to_dut' = IF dut.joined THEN Append(to_dut, Rate(prg_pressed_counter)) ELSE to_dut
  /\ missed' = (missed \/ ~dut.joined)
  /\ UNCHANGED <<dut, millis, wrapped, since, to_inspector, prg_pressed_counter, btn_flag, data, shown, presses, merged>>

\* Mutant of ClearFlag: the flag is left, and the loop finds it again.
ClearFlagNever ==
  /\ inspector.at = "button"
  /\ inspector' = [inspector EXCEPT !.at = "mqtt"]
  /\ prg_pressed_counter' = prg_pressed_counter + 1
  /\ UNCHANGED <<dut, millis, wrapped, since, to_dut, to_inspector, btn_flag, data, shown, presses, merged, missed>>

ClearFlag ==
  /\ inspector.at = "button"
  /\ inspector' = [inspector EXCEPT !.at = "mqtt"]
  /\ prg_pressed_counter' = prg_pressed_counter + 1 /\ btn_flag' = FALSE
  /\ UNCHANGED <<dut, millis, wrapped, since, to_dut, to_inspector, data, shown, presses, merged, missed>>

purge_old_temp_data == SubSeq(data, (IF Len(data) > Window THEN Len(data) - Window ELSE 0) + 1, Len(data))
get_avg_temp(readings) == FoldLeft(+, 0, readings) \div Len(readings)

\* The average is taken once, and shown from then on.
Display ==
  LET kept == purge_old_temp_data IN
  /\ inspector.joined /\ inspector.at = "mqtt" /\ inspector.due
  /\ inspector' = [inspector EXCEPT !.due = FALSE]
  /\ data' = kept
  /\ shown' = IF kept = << >> THEN "No Data" ELSE IF shown \in {"ALERT", "Temp"} THEN shown
              ELSE IF get_avg_temp(kept) >= Hot THEN "ALERT" ELSE "Temp"
  /\ UNCHANGED <<dut, millis, wrapped, since, to_dut, to_inspector, prg_pressed_counter, btn_flag, presses, merged, missed>>

-----------------------------------------------------------------------------

Tick ==
  /\ wrapped \/ ~DutLate
  /\ inspector.joined => ~inspector.due /\ inspector.at = "mqtt" /\ to_inspector = << >>
  /\ millis' = (millis + 1) % Clock /\ wrapped' = (wrapped \/ millis + 1 = Clock)
  /\ since' = IF wrapped THEN since ELSE since + 1
  /\ inspector' = [inspector EXCEPT !.due = inspector.joined]
  /\ UNCHANGED <<dut, to_dut, to_inspector, prg_pressed_counter, btn_flag, data, shown, presses, merged, missed>>

SensorsInit ==
  /\ dut = [joined |-> FALSE, interval |-> Rate(0), timer |-> 0, due |-> 0]
  /\ millis = 0 /\ wrapped = FALSE /\ since = 0 /\ to_dut = << >> /\ to_inspector = << >>
  /\ inspector = [joined |-> FALSE, at |-> "mqtt", due |-> FALSE]
  /\ prg_pressed_counter = 0 /\ btn_flag = FALSE /\ data = << >> /\ shown = "Hello World"
  /\ presses = 0 /\ merged = 0 /\ missed = FALSE

SensorsNext ==
  \/ SetupDut \/ onPublishControl \/ PublishTemp
  \/ SetupInspector \/ prg_handler \/ onPublishTemp \/ PublishRate \/ ClearFlag \/ Display \/ Tick

-----------------------------------------------------------------------------
(* Properties *)

\* Every press counts, but for those that come while one waits to be counted.  The device
\* has, or is about to have, the rate that was the Inspector's before its last press.  Until
\* the clock or the timer wraps a reading is published when the interval that was set at the
\* reading before is over; and as long as nobody presses no more than two come between two
\* looks at the window.
SensorsRight ==
  /\ presses = prg_pressed_counter + merged + (IF btn_flag THEN 1 ELSE 0)
  /\ LET sent == prg_pressed_counter + (IF inspector.at = "button" THEN 1 ELSE 0) IN
     missed \/ Last(<<dut.interval>> \o to_dut) = Rate(IF sent = 0 THEN 0 ELSE sent - 1)
  /\ dut.joined /\ ~wrapped => dut.timer - millis = dut.due - since /\ since <= dut.due
  /\ presses = 0 /\ ~wrapped => Len(data) <= Window + 2
=============================================================================
