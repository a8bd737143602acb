--------------------------------- MODULE Bme280 ---------------------------------
(***************************************************************************)
(* The BME280 pressure, temperature and humidity sensor: Sensor of         *)
(* ocs_sensor/bme280 over the registers of the chip, reached by            *)
(* SpiTransceiver.  The constructor resets and configures the chip and     *)
(* reads its calibration, and goes on whatever fails; run starts a         *)
(* conversion if the chip is in forced mode, waits for it, and reads.      *)
(*                                                                         *)
(* A conversion is its number; the compensation formulas are left out, but *)
(* for the fine temperature that the one for the temperature leaves to the *)
(* others.                                                                 *)
(***************************************************************************)
EXTENDS Naturals

CONSTANT MaxConversions  \* bound: conversions of the chip that are followed

ASSUME Bme280Assumption == MaxConversions \in Nat

VARIABLES
  mode,        \* params_.operation_mode
  chip,        \* ctrl_meas, config, the conversion being made and the latest made
  todo,        \* what the constructor has still to do, 0 when the sensor is ready
  waiting,     \* run polls the status register
  calibrated,  \* the calibration read: 1 and 2
  fine,        \* t_fine_: the conversion it is from, 0 for none
  reading      \* data_: the conversion, and that of the fine temperature of each value

bmeVars == <<mode, chip, todo, waiting, calibrated, fine, reading>>

Mode == {"Sleep", "Forced", "Normal"}
Chip == [mode : Mode, configured : BOOLEAN, measuring : BOOLEAN, made : Nat]
Published == [of : Nat, pressure : Nat, humidity : Nat]
Unread == [of |-> 0, pressure |-> 0, humidity |-> 0]

BmeTypeOK ==
  /\ mode \in Mode
  /\ chip \in Chip
  /\ todo \in 0 .. 6 /\ waiting \in BOOLEAN /\ calibrated \subseteq {1, 2}
  /\ fine \in Nat /\ reading \in Published

BmeInit == /\ mode \in Mode
           /\ chip = [mode |-> "Sleep", configured |-> FALSE, measuring |-> FALSE, made |-> 0]
           /\ todo = 6 /\ waiting = FALSE
           /\ calibrated = {} /\ fine = 0 /\ reading = Unread

-----------------------------------------------------------------------------
(* The chip *)

\* A conversion ends; in forced mode the chip goes back to sleep.
Convert == /\ chip.measuring /\ chip.made < MaxConversions
           /\ chip' = [chip EXCEPT !.made = @ + 1,
                                   !.measuring = FALSE,
                                   !.mode = IF @ = "Forced" THEN "Sleep" ELSE @]
           /\ UNCHANGED <<mode, todo, waiting, calibrated, fine, reading>>

\* In normal mode the next one begins after the inactive time.
Begin == /\ chip.mode = "Normal" /\ ~chip.measuring
         /\ chip' = [chip EXCEPT !.measuring = TRUE]
         /\ UNCHANGED <<mode, todo, waiting, calibrated, fine, reading>>

\* write_configuration_: ctrl_hum, ctrl_meas and config in this order.  A write to config
\* that comes in normal mode may be ignored.  Assumed of the chip: in forced mode its status
\* says "measuring" from the write of ctrl_meas on, so that the first poll sees it.
Configured(ch) == [ch EXCEPT !.mode = mode, !.measuring = @ \/ mode = "Forced",
                             !.configured = TRUE]
Ignored(ch) == [Configured(ch) EXCEPT !.configured = ch.configured]
WriteConfiguration == chip' \in IF mode = "Normal" THEN {Configured(chip), Ignored(chip)}
                                ELSE {Configured(chip)}

-----------------------------------------------------------------------------
(* The constructor: reset_, read_serial_number_, write_configuration_, read_configuration_ *)
(* and the two calibrations; what the second and the fourth read is only logged, as is a   *)
(* failure of any.                                                                         *)

Done == todo' = todo - 1
ResetChip == /\ todo = 6 /\ Done
             /\ chip' = [chip EXCEPT !.mode = "Sleep", !.configured = FALSE, !.measuring = FALSE]
             /\ UNCHANGED <<mode, waiting, calibrated, fine, reading>>
LogRegisters == /\ todo \in {3, 5} /\ Done
                /\ UNCHANGED <<mode, chip, waiting, calibrated, fine, reading>>
Setup == /\ todo = 4 /\ Done
         /\ WriteConfiguration
         /\ UNCHANGED <<mode, waiting, calibrated, fine, reading>>
ReadCalibration == /\ todo \in {1, 2} /\ Done
                   /\ calibrated' = calibrated \cup {3 - todo}
                   /\ UNCHANGED <<mode, chip, waiting, fine, reading>>
SetupFails == /\ todo > 0 /\ Done
              /\ UNCHANGED <<mode, chip, waiting, calibrated, fine, reading>>

-----------------------------------------------------------------------------
(* run *)

\* In forced mode a conversion is started.
Start == /\ todo = 0 /\ ~waiting
         /\ mode = "Forced"
         /\ WriteConfiguration
         /\ waiting' = TRUE
         /\ UNCHANGED <<mode, todo, calibrated, fine, reading>>

\* The status register says that no conversion is running.  Mutant: it is not asked.
Ready_unasked == todo = 0 /\ (mode = "Forced" => waiting)
Ready == todo = 0 /\ (mode = "Forced" => waiting /\ ~chip.measuring)

\* read_data_: the pressure is compensated first, with the fine temperature of the read
\* before.
Fine(conversion) == fine' = conversion
ReadData == /\ Ready
            /\ Fine(chip.made)
            /\ reading' = [of |-> chip.made, pressure |-> fine, humidity |-> fine']
            /\ waiting' = FALSE
            /\ UNCHANGED <<mode, chip, todo, calibrated>>

\* A transfer of run fails: the reading of before stays.
RunFails == /\ waiting
            /\ waiting' = FALSE
            /\ UNCHANGED <<mode, chip, todo, calibrated, fine, reading>>

RestartBme == /\ todo' = 6 /\ waiting' = FALSE
              /\ calibrated' = {} /\ fine' = 0 /\ reading' = Unread
              /\ UNCHANGED <<mode, chip>>

BmeNext == \/ Convert \/ Begin
           \/ ResetChip \/ Setup \/ ReadCalibration \/ LogRegisters \/ SetupFails
           \/ Start \/ ReadData \/ RunFails \/ RestartBme

BmeSpec == BmeInit /\ [][BmeNext]_bmeVars

-----------------------------------------------------------------------------
(* Properties *)

\* In forced mode every reading is that of a conversion made since the one before, and
\* made after the chip was configured (run writes, polls and reads in separate transfers).
\* In every mode the humidity is compensated with the temperature of its own conversion,
\* and the pressure with that of the reading before, never with an older one.
ReadingsBelongTogether ==
  [][reading' # reading /\ reading' # Unread =>
       /\ mode = "Forced" => chip.configured /\ reading'.of > reading.of
       /\ reading'.humidity = reading'.of /\ reading'.pressure = reading.of]_bmeVars
=============================================================================
