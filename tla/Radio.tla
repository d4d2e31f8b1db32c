-------------------------------- MODULE Radio --------------------------------
(***************************************************************************)
(* wireless-internet-of-things/Assignment3: a sender that repeats a packet  *)
(* until it is acknowledged, and a receiver that listens for a moment of    *)
(* every period.                                                            *)
(*                                                                         *)
(* Time passes in ticks.  A timer counts down to 0, where its handler runs  *)
(* before time goes on; handlers of one moment run in any order.  The radio *)
(* driver is what the programs make of it: a transmission takes Air ticks,  *)
(* with the wait for its acknowledgement, and is heard when the receiver    *)
(* listened all the time; an acknowledgement, or the packet, may be lost.   *)
(***************************************************************************)
EXTENDS Integers

CONSTANTS
  CHECK_PERIOD,   \* of both programs
  Listen,         \* the time between a receive and the sleep after it, more than two transmissions
  Air,
  MaxPresses, MaxLost

VARIABLES
  sender,         \* [train, waiting_for_ack, ended]: a train of packets, and how the last one ended
  check_period_timer, rx_timer, sleep_timer,   \* ticks to go; Off when stopped
  listening,
  packet,         \* [left, heard]: of the packet in the air
  notice,         \* of the last packet, that the sender has not seen
  presses, lost,
  got             \* the receiver has had a packet that the sender was not told of when the button was pressed

Off == -1
Timer == {Off} \cup 0 .. CHECK_PERIOD
NoPacket == [left |-> Off, heard |-> FALSE]

RadioTypeOK ==
  /\ sender \in [train : BOOLEAN, waiting_for_ack : BOOLEAN, ended : {"not", "acknowledged", "expired"}]
  /\ {check_period_timer, rx_timer, sleep_timer} \subseteq Timer
  /\ packet \in [left : {Off} \cup 0 .. Air, heard : BOOLEAN]
  /\ notice \in {"none", "acknowledged", "failed"}

-----------------------------------------------------------------------------
(* sender_main.c *)

\* Mutant of start_packet_train: what the last train waited for is not reset.
start_packet_trainAgain ==
  /\ ~sender.train /\ presses < MaxPresses
  /\ sender' = [sender EXCEPT !.train = TRUE, !.ended = "not"]
  /\ check_period_timer' = CHECK_PERIOD
  /\ presses' = presses + 1 /\ lost' = 0 /\ got' = (notice = "acknowledged")
  /\ UNCHANGED <<rx_timer, sleep_timer, listening, packet, notice>>

\* The button is pressed, which a train that has not ended does not see.
start_packet_train ==
  /\ ~sender.train /\ presses < MaxPresses
  /\ sender' = [train |-> TRUE, waiting_for_ack |-> TRUE, ended |-> "not"]
  /\ check_period_timer' = CHECK_PERIOD
  /\ presses' = presses + 1 /\ lost' = 0 /\ got' = (notice = "acknowledged")
  /\ UNCHANGED <<rx_timer, sleep_timer, listening, packet, notice>>

GoesOn == sender.train /\ check_period_timer > 0 /\ sender.waiting_for_ack

\* The driver refuses while a packet is in the air.
Transmit ==
  /\ GoesOn /\ packet.left = Off
  /\ packet' = [left |-> Air, heard |-> listening]
  /\ UNCHANGED <<sender, check_period_timer, rx_timer, sleep_timer, listening, notice, presses, lost, got>>

EndTrain ==
  /\ sender.train /\ ~GoesOn
  /\ sender' = [sender EXCEPT !.train = FALSE,
                              !.ended = IF sender.waiting_for_ack THEN "expired" ELSE "acknowledged"]
  /\ UNCHANGED <<check_period_timer, rx_timer, sleep_timer, listening, packet, notice, presses, lost, got>>

check_period_timer_handler ==
  /\ check_period_timer = 0 /\ check_period_timer' = Off
  /\ UNCHANGED <<sender, rx_timer, sleep_timer, listening, packet, notice, presses, lost, got>>

\* The radio is free again before the program is told, and may take the next packet.
PacketEnds ==
  /\ packet.left = 0 /\ notice = "none"
  /\ \/ packet.heard /\ notice' = "acknowledged" /\ got' = TRUE /\ UNCHANGED lost
     \/ packet.heard /\ lost < MaxLost /\ lost' = lost + 1 /\ notice' = "failed" /\ got' \in {got, TRUE}
     \/ ~packet.heard /\ notice' = "failed" /\ UNCHANGED <<lost, got>>
  /\ packet' = NoPacket
  /\ UNCHANGED <<sender, check_period_timer, rx_timer, sleep_timer, listening, presses>>

\* What is acknowledged may be of an earlier train.
transmitted_raw ==
  /\ notice = "acknowledged" /\ notice' = "none"
  /\ sender' = [sender EXCEPT !.waiting_for_ack = FALSE]
  /\ UNCHANGED <<check_period_timer, rx_timer, sleep_timer, listening, packet, presses, lost, got>>

transmit_failed ==
  /\ notice = "failed" /\ notice' = "none"
  /\ UNCHANGED <<sender, check_period_timer, rx_timer, sleep_timer, listening, packet, presses, lost, got>>

-----------------------------------------------------------------------------
(* receiver_main.c *)

\* Mutant of rx_timer_handler: it listens only while the longest packet lasts.
rx_timer_handlerShort ==
  /\ rx_timer = 0
  /\ listening' = TRUE /\ sleep_timer' = Listen \div 2 /\ rx_timer' = CHECK_PERIOD
  /\ UNCHANGED <<sender, check_period_timer, packet, notice, presses, lost, got>>

rx_timer_handler ==
  /\ rx_timer = 0
  /\ listening' = TRUE /\ sleep_timer' = Listen /\ rx_timer' = CHECK_PERIOD
  /\ UNCHANGED <<sender, check_period_timer, packet, notice, presses, lost, got>>

sleep_timer_handler ==
  /\ sleep_timer = 0
  /\ listening' = FALSE /\ sleep_timer' = Off /\ packet' = [packet EXCEPT !.heard = FALSE]
  /\ UNCHANGED <<sender, check_period_timer, rx_timer, notice, presses, lost, got>>

-----------------------------------------------------------------------------

Down(t) == IF t = Off THEN Off ELSE t - 1

\* Nothing is left to do at this moment.
Tick ==
  /\ ~sender.train \/ (GoesOn /\ packet.left # Off)
  /\ 0 \notin {check_period_timer, rx_timer, sleep_timer, packet.left} /\ notice = "none"
  /\ check_period_timer' = Down(check_period_timer) /\ rx_timer' = Down(rx_timer)
  /\ sleep_timer' = Down(sleep_timer) /\ packet' = [packet EXCEPT !.left = Down(@)]
  /\ UNCHANGED <<sender, listening, notice, presses, lost, got>>

RadioInit ==
  /\ sender = [train |-> FALSE, waiting_for_ack |-> TRUE, ended |-> "not"]
  /\ check_period_timer = Off /\ rx_timer = 0 /\ sleep_timer = Off
  /\ listening = FALSE /\ packet = NoPacket /\ notice = "none" /\ presses = 0 /\ lost = 0 /\ got = FALSE

RadioNext ==
  \/ start_packet_train \/ Transmit \/ EndTrain \/ check_period_timer_handler
  \/ PacketEnds \/ transmitted_raw \/ transmit_failed \/ rx_timer_handler \/ sleep_timer_handler \/ Tick

-----------------------------------------------------------------------------
(* Properties *)

\* A train that nothing is lost of is heard, whenever it begins: once its last packet is
\* over the receiver has had one.  A train that ends early has reached the receiver, or the
\* last packet of the one before had.  And the receiver never listens without an end.
TrainsHeard ==
  /\ sender.ended = "expired" /\ packet.left = Off => got \/ lost > 0
  /\ sender.ended = "acknowledged" => got
  /\ listening <=> sleep_timer # Off
=============================================================================
