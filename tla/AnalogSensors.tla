----------------------------- MODULE AnalogSensors -----------------------------
(***************************************************************************)
(* The analog sensors of ocs_sensor: the soil sensor, which turns ADC      *)
(* readings into a status held in an FsmBlock, and the light sensor.  They *)
(* run on the main task; their configuration is replaced between two runs, *)
(* by any of the values AnalogConfig can have, the invalid ones included.  *)
(*                                                                         *)
(* Percentages are whole: the two decimals of round_floor are left out.    *)
(***************************************************************************)
EXTENDS Integers

CONSTANTS
  Limit,      \* values of min and max, 16 bits in the code
  Raw,        \* readings of the ADC
  Threshold   \* status_progress_threshold, 0 for none

ASSUME AnalogSensorsAssumption ==
  Limit \subseteq Nat /\ Raw \subseteq Nat /\ Threshold \in 0 .. 100

\* SoilStatus.  Unnamed stands for every byte that is none of them.
Unknown == 0
Broken == 5
Unnamed == 6
StatusCount == 4

VARIABLES
  range,     \* the range of the configuration
  status,    \* the state of the FSM block
  kept,      \* the state of the block in flash
  soil,      \* data_ of the soil sensor
  light      \* data_ of the light sensor

soilVars == <<range, status, kept, soil, light>>

Reading == [raw : Raw, status : Unknown .. Unnamed, moisture : -50 .. 100]
NoReading == [raw |-> 0, status |-> Unknown, moisture |-> -1]
NoLight == -1

SoilTypeOK ==
  /\ range \in [min : Limit, max : Limit]
  /\ {status, kept} \subseteq Unknown .. Unnamed
  /\ soil \in Reading \cup {NoReading} /\ light \in {NoLight} \cup 0 .. 100

SoilInit == /\ range \in [min : Limit, max : Limit]
            /\ status = Unknown /\ kept = Unknown
            /\ soil = NoReading /\ light = NoLight

-----------------------------------------------------------------------------
(* The sensors *)

Valid == range.min < range.max
Width == range.max - range.min
Invalid(raw) == raw < range.min \/ raw > range.max
Offset(raw) == raw - range.min
StatusLen == Width \div StatusCount

\* calculate_status_.  statuses_ has four elements: the read of any other, and a
\* division by zero that does not stop the program, may give any byte.
Status(raw) ==
  IF Invalid(raw) THEN {Broken}
  ELSE IF StatusLen = 0 \/ Offset(raw) \div StatusLen >= StatusCount THEN Unknown .. Unnamed
  ELSE {1 + Offset(raw) \div StatusLen}

\* calculate_moisture_, calculate_status_progress_
Moisture(raw) == IF Invalid(raw) THEN 0 ELSE (100 * (Width - Offset(raw))) \div Width
Progress(raw) == IF Invalid(raw) \/ StatusLen = 0 THEN 0
                 ELSE (100 * (Offset(raw) % StatusLen)) \div StatusLen

\* override_status_progress_: a status that has hardly begun does not count yet.
Held(raw, next) == /\ Threshold # 0 /\ next \notin {Unknown, status}
                   /\ Progress(raw) <= Threshold
                   /\ status # Unknown /\ next # Broken

\* A status that is held is shown at its end.  Mutant: at the end of the status that was
\* not entered.
HeldReading_next(raw, next) ==
  [raw |-> raw, status |-> status, moisture |-> IF status = Broken THEN 0 ELSE 100 - 25 * next]
HeldReading(raw, next) ==
  [raw |-> raw, status |-> status, moisture |-> IF status = Broken THEN 0 ELSE 100 - 25 * status]
FreeReading(raw, next) ==
  [raw |-> raw, status |-> IF next = Unknown THEN status ELSE next, moisture |-> Moisture(raw)]

\* soil::AnalogSensor::run, with readings from AnalogSampleReader.  A transition that
\* cannot be written takes place all the same.
SoilRun(raw) ==
  /\ Valid
  /\ \E next \in Status(raw) :
       /\ soil' = IF Held(raw, next) THEN HeldReading(raw, next) ELSE FreeReading(raw, next)
       /\ status' = soil'.status
  /\ kept' \in IF status' = status THEN {kept} ELSE {kept, status'}
  /\ UNCHANGED <<range, light>>

\* ldr::AnalogSensor::run
LightRun(raw) ==
  /\ Valid
  /\ light' = IF raw >= range.max THEN 100
              ELSE IF raw <= range.min THEN 0
              ELSE (100 * Offset(raw)) \div Width
  /\ UNCHANGED <<range, status, kept, soil>>

\* The block saves its state from time to time, and restores it after a restart, for
\* which a division by zero is one of the reasons.
SaveStatus == kept' = status /\ UNCHANGED <<range, status, soil, light>>
RestartSoil == /\ range' \in [min : Limit, max : Limit]
               /\ status' = kept /\ soil' = NoReading /\ light' = NoLight
               /\ kept' = kept

\* AnalogConfig::configure, reset
Reconfigure == /\ range' \in [min : Limit, max : Limit]
               /\ UNCHANGED <<status, kept, soil, light>>

SoilNext == \/ \E raw \in Raw : SoilRun(raw) \/ LightRun(raw)
            \/ SaveStatus \/ RestartSoil \/ Reconfigure

SoilSpec == SoilInit /\ [][SoilNext]_soilVars

-----------------------------------------------------------------------------
(* Properties *)

\* What the soil sensor publishes belongs together: the moisture lies in the quarter of
\* the status, also while the status is held against the reading.  A reading equal to
\* max and a range that is no multiple of four are the exceptions.
MoistureOfStatus ==
  [][soil' # soil /\ soil'.status \in 1 .. StatusCount
     /\ Width % StatusCount = 0 /\ soil'.raw # range.max =>
       soil'.moisture \in 100 - 25 * soil'.status .. 125 - 25 * soil'.status]_soilVars

\* docs/sensors/soil_analog.md:4: the current status is Error, Dry, Depletion, Wet or
\* Saturated.
StatusIsKnown == soil # NoReading => soil.status \in 1 .. Broken
=============================================================================
