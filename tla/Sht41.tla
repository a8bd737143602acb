--------------------------------- MODULE Sht41 ---------------------------------
(***************************************************************************)
(* The SHT41 humidity and temperature sensor: Sensor of ocs_sensor/sht41   *)
(* on an I2C bus, and SHT41Handler, which resets and heats it over HTTP.   *)
(* Every operation runs on the main task: a command is sent, the chip is   *)
(* given its time, and six bytes with two checksums are received.  Each    *)
(* transfer, each checksum and each flash operation may fail, and the      *)
(* power may go between any two steps.                                     *)
(*                                                                         *)
(* The heater may be on for a tenth of the life of the chip, which is why  *)
(* the activations are counted in flash.                                   *)
(***************************************************************************)
EXTENDS Naturals

CONSTANT MaxHeats  \* bound: activations that are followed

ASSUME Sht41Assumption == MaxHeats \in Nat

VARIABLES
  command,  \* the command the chip works at: "none", "measure", "heat"
  stage,    \* of the main task: "ready", "sent", "counted"
  count,    \* heating_count_
  saved,    \* heating_count in flash
  shown,    \* the heating count of data_
  heats,    \* history: activations of the heater
  missed    \* history: activations that a failure kept from being counted

shtVars == <<command, stage, count, saved, shown, heats, missed>>

ShtTypeOK == /\ command \in {"none", "measure", "heat"}
             /\ stage \in {"ready", "sent", "counted"}
             /\ {count, saved, shown, heats, missed} \subseteq Nat

ShtInit == /\ command = "none" /\ stage = "ready"
           /\ count = 0 /\ saved = 0 /\ shown = 0 /\ heats = 0 /\ missed = 0

\* run, heat: send_command_ and the delay.  The heater works at once and stops by itself.
SendCommand(kind) ==
  /\ stage = "ready" /\ heats < MaxHeats
  /\ command' = kind /\ stage' = "sent"
  /\ heats' = IF kind = "heat" THEN heats + 1 ELSE heats
  /\ UNCHANGED <<count, saved, shown, missed>>

\* reset: SoftReset ends whatever the chip was doing; a transfer that fails changes nothing.
SoftReset == /\ stage = "ready" /\ command # "none"
             /\ command' = "none"
             /\ UNCHANGED <<stage, count, saved, shown, heats, missed>>

\* receive_data_: both checksums are right.  data_ of a run shows the count of now.
ReceiveMeasured == /\ stage = "sent" /\ command = "measure"
                   /\ stage' = "ready" /\ command' = "none"
                   /\ shown' = count
                   /\ UNCHANGED <<count, saved, heats, missed>>

\* heat_: the activation is counted when its measurement has arrived.  Mutant: twice,
\* on sending too.
ReceiveHeated_twice == /\ stage = "sent" /\ command = "heat"
                       /\ stage' = "counted" /\ command' = "none"
                       /\ count' = count + 2
                       /\ UNCHANGED <<saved, shown, heats, missed>>
ReceiveHeated == /\ stage = "sent" /\ command = "heat"
                 /\ stage' = "counted" /\ command' = "none"
                 /\ count' = count + 1
                 /\ UNCHANGED <<saved, shown, heats, missed>>

\* The bus fails, or a checksum is wrong.
ReceiveFails == /\ stage = "sent"
                /\ stage' = "ready"
                /\ missed' = IF command = "heat" THEN missed + 1 ELSE missed
                /\ UNCHANGED <<command, count, saved, shown, heats>>

\* write_heating_count_: a failure is logged, and the next activation writes the sum.
SaveCount == /\ stage = "counted"
             /\ stage' = "ready" /\ shown' = count
             /\ saved' \in {saved, count}
             /\ UNCHANGED <<command, count, heats, missed>>

\* The constructor resets the chip, which may fail, and reads the count, or starts from
\* zero if it cannot: what is in flash is then written over.
RestartSht == /\ command' \in {"none", command} /\ stage' = "ready"
              /\ count' \in {saved, 0} /\ shown' = 0
              /\ missed' = heats - count'
              /\ UNCHANGED <<saved, heats>>

ShtNext == \/ \E kind \in {"measure", "heat"} : SendCommand(kind)
           \/ SoftReset \/ ReceiveMeasured \/ ReceiveHeated \/ ReceiveFails
           \/ SaveCount \/ RestartSht

ShtSpec == ShtInit /\ [][ShtNext]_shtVars

-----------------------------------------------------------------------------
(* Properties *)

\* The heating count accounts for every activation of the heater: the one under way
\* apart, each is counted once, or one of the failures that lose it has happened; what is
\* shown and stored is never more (heat_ counts, saves and publishes in three steps).
EveryHeatCounted ==
  /\ heats = count + missed + (IF stage = "sent" /\ command = "heat" THEN 1 ELSE 0)
  /\ saved <= heats /\ shown <= count
=============================================================================
