------------------------------ MODULE RelaySensor ------------------------------
(***************************************************************************)
(* A soil sensor behind a relay: AnalogRelaySensor energizes the relay with *)
(* GpioGuard over DelayGpio and BasicGpio, the sensor reads through        *)
(* AnalogSampleReader and OneshotReader, and the guard switches the relay  *)
(* off.  The driver may refuse any call, and the sample count is one that  *)
(* AnalogConfig holds at the time of the read.                             *)
(***************************************************************************)
EXTENDS Integers

CONSTANTS
  BitWidth,     \* of the ADC
  SampleCount,  \* values of the configuration, 8 bits in the code, where they always fit an int
  IntMax        \* largest int

\* That the power is a positive number follows by an induction that no proof can cite.
ASSUME RelaySensorAssumption ==
  /\ BitWidth \in Nat /\ 2^BitWidth \in Nat \ {0}
  /\ SampleCount \subseteq Nat /\ IntMax \in Nat

VARIABLES
  relay,    \* level of the GPIO: "on", "off"
  at,       \* of run: "idle", "energized", "refused", "sampling", "ending"
  samples,  \* sample_count of the read
  taken,    \* n
  total,    \* their sum, an int
  raw       \* the reading, -1 before the first

relayVars == <<relay, at, samples, taken, total, raw>>

Level == 0 .. 2^BitWidth - 1

RelayTypeOK == /\ relay \in {"on", "off"}
               /\ at \in {"idle", "energized", "refused", "sampling", "ending"}
               /\ samples \in SampleCount \cup {0} /\ {taken, total} \subseteq Nat
               /\ raw \in Level \cup {-1}

RelayInit == /\ relay = "off" /\ at = "idle"
             /\ samples = 0 /\ taken = 0 /\ total = 0 /\ raw = -1

\* GpioGuard: turn_on and its delay.  If the driver refuses, there is no delay, and the
\* sensor is read all the same.
TurnOn == /\ at = "idle"
          /\ relay' = "on" /\ at' = "energized"
          /\ UNCHANGED <<samples, taken, total, raw>>
TurnOnFails == /\ at = "idle"
               /\ at' = "refused"
               /\ UNCHANGED <<relay, samples, taken, total, raw>>

\* AnalogSampleReader::read: count and width are configured, and the sum of all samples
\* fits an int.  Mutant: the sum is not checked.
Fits_anyway(count) == count # 0 /\ BitWidth # 0
Fits(count) == count # 0 /\ BitWidth # 0 /\ count * 2^BitWidth <= IntMax

\* run of the soil sensor reads first.
ReadSamples == /\ at \in {"energized", "refused"}
               /\ \E count \in SampleCount :
                    /\ samples' = count
                    /\ at' = IF Fits(count) THEN "sampling" ELSE "ending"
               /\ taken' = 0 /\ total' = 0
               /\ UNCHANGED <<relay, raw>>

\* OneshotReader::read
Sample(level) == /\ at = "sampling" /\ taken < samples
                 /\ total' = total + level /\ taken' = taken + 1
                 /\ UNCHANGED <<relay, at, samples, raw>>
SampleFails == /\ at = "sampling" /\ taken < samples
               /\ at' = "ending"
               /\ UNCHANGED <<relay, samples, taken, total, raw>>

Average == /\ at = "sampling" /\ taken = samples
           /\ raw' = total \div samples /\ at' = "ending"
           /\ UNCHANGED <<relay, samples, taken, total>>

\* ~GpioGuard: a relay that cannot be switched off stays on until the next run.
TurnOff == /\ at = "ending"
           /\ at' = "idle" /\ relay' = "off"
           /\ UNCHANGED <<samples, taken, total, raw>>
TurnOffFails == /\ at = "ending"
                /\ at' = "idle"
                /\ UNCHANGED <<relay, samples, taken, total, raw>>

RelayNext == \/ TurnOn \/ TurnOnFails
             \/ ReadSamples \/ (\E level \in Level : Sample(level)) \/ SampleFails \/ Average
             \/ TurnOff \/ TurnOffFails

RelaySpec == RelayInit /\ [][RelayNext]_relayVars

-----------------------------------------------------------------------------
(* Properties *)

\* The sum of the samples never overflows an int, whatever count is configured, and the
\* reading is one the ADC can make (the check before the loop is enough for every step).
SumFits == total <= IntMax /\ raw \in Level \cup {-1}
=============================================================================
