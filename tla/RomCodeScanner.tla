--------------------------- MODULE RomCodeScanner ---------------------------
(***************************************************************************)
(* RomCodeScanner: the search for the ROM codes of all the devices on a    *)
(* 1-Wire bus, and the two loops of the DS18B20 handler around it: one     *)
(* lists every code, the other looks for a given one.                      *)
(*                                                                         *)
(* For every bit of the code all the devices that still take part answer   *)
(* at once, the bit and its complement; two zeros mean that both values    *)
(* occur.  The scanner sends the value it goes on with, and the devices    *)
(* with the other one drop out of this scan.  Between scans it remembers   *)
(* two of the positions where it had to choose.                            *)
(***************************************************************************)
EXTENDS Integers, FiniteSets, Sequences

CONSTANTS Width,       \* bits of a ROM code, 64
          Shared,      \* leading bits all devices have in common
          MaxDevices,  \* devices that may be on one bus
          NoCode       \* what the loop that lists all codes looks for

ASSUME WidthAssumption == Width \in Nat \ {0} /\ Shared \in 0..Width
                          /\ MaxDevices \in Nat

Position == 0..(Width - 1)

\* The ROM codes whose CRC is right, each a sequence of bits.
Code == {c \in [Position -> {0, 1}] : \A i \in Position : i < Shared => c[i] = 0}

ASSUME CodeAssumption == NoCode \notin Code

VARIABLES
  devices,           \* codes of the devices on the bus
  wanted,            \* the code find_rom_code looks for, or NoCode
  taking_part,       \* devices that have not dropped out of this scan
  n, buf,            \* the position at hand, and the code so far
  finished_, prev_discrepancy_, curr_discrepancy_, conflict_count_,
  outcome,           \* what became of the loop
  \* History, for the properties.
  connected,         \* the devices there were at first
  found, repeated,   \* codes scan() returned, and whether any of them twice
  disturbed          \* a device was unplugged or the bus failed

scanVars == <<taking_part, n, buf>>
memory   == <<finished_, prev_discrepancy_, curr_discrepancy_, conflict_count_>>
ends     == <<outcome, found, repeated>>
given    == <<devices, wanted, connected, disturbed>>
vars == <<scanVars, memory, ends, given>>

Between == -1  \* the position between two scans

Init == /\ devices \in {D \in SUBSET Code : Cardinality(D) <= MaxDevices}
        /\ wanted \in Code \cup {NoCode}
        /\ taking_part = {}
        /\ n = Between /\ buf = [i \in Position |-> 0]
        /\ finished_ = FALSE
        /\ prev_discrepancy_ = -1 /\ curr_discrepancy_ = -1
        /\ conflict_count_ = 0
        /\ outcome = "running"
        /\ connected = devices
        /\ found = {} /\ repeated = FALSE /\ disturbed = FALSE

Running == outcome = "running"
End(result) == outcome' = result /\ UNCHANGED <<found, repeated>>

\* The loop calls scan() for the next code: NoData once the search has finished.
NoMoreCodes == /\ Running /\ n = Between
               /\ finished_
               /\ End("NoData")
               /\ UNCHANGED <<scanVars, memory, given>>

\* Bus::reset: a device that is there pulls the line down.
BusReset == /\ Running /\ n = Between
            /\ ~finished_
            /\ IF devices = {} THEN End("Error") /\ UNCHANGED scanVars
               ELSE /\ taking_part' = devices
                    /\ n' = 0
                    /\ buf' = [i \in Position |-> 0]
                    /\ UNCHANGED ends
            /\ UNCHANGED <<memory, given>>

-----------------------------------------------------------------------------
(* scan_, for one bit. *)

AtBit == Running /\ n \in Position

\* The two bits read: whether every device that takes part sends b.
AllSend(b) == \A d \in taking_part : d[n] = b
Discrepancy == ~AllSend(0) /\ ~AllSend(1)

\* The bit is stored and sent, devices with the other one drop out.
\* Mutant: the bit is sent and not stored.
Choose_unstored(b) == /\ UNCHANGED <<buf, ends>>
                      /\ taking_part' = {d \in taking_part : d[n] = b}
                      /\ n' = n + 1
Choose(b) == /\ buf' = [buf EXCEPT ![n] = b]
             /\ taking_part' = {d \in taking_part : d[n] = b}
             /\ n' = n + 1
             /\ UNCHANGED ends

\* Two ones: nobody is there any more.
Silence == /\ AtBit
           /\ taking_part = {}
           /\ End("NoData")
           /\ UNCHANGED <<scanVars, memory>>

Agreement == /\ AtBit
             /\ taking_part # {}
             /\ \E b \in {0, 1} : AllSend(b) /\ Choose(b)
             /\ UNCHANGED memory

\* handle_discrepancy_, at the discrepancy to be resolved the other way.
\* Mutant: the conflict stays counted.
Resolve_counted == /\ AtBit /\ Discrepancy
                   /\ curr_discrepancy_ = n
                   /\ curr_discrepancy_' = prev_discrepancy_
                   /\ Choose(1)
                   /\ UNCHANGED <<finished_, prev_discrepancy_, conflict_count_>>
Resolve == /\ AtBit /\ Discrepancy
           /\ curr_discrepancy_ = n
           /\ IF n = 0
              THEN prev_discrepancy_' = 0 /\ curr_discrepancy_' = -1
                   /\ conflict_count_' = 0
              ELSE curr_discrepancy_' = prev_discrepancy_
                   /\ conflict_count_' = conflict_count_ - 1
                   /\ UNCHANGED prev_discrepancy_
           /\ conflict_count_ # 0 \/ n = 0
           /\ Choose(1)
           /\ UNCHANGED finished_

\* handle_discrepancy_, at a discrepancy beyond it.
\* Mutant: the new discrepancy replaces the current one without being counted.
Discover_uncounted == /\ AtBit /\ Discrepancy
                      /\ n > curr_discrepancy_
                      /\ prev_discrepancy_' = IF prev_discrepancy_ < 0 THEN n
                                                              ELSE curr_discrepancy_
                      /\ curr_discrepancy_' = n
                      /\ Choose(0)
                      /\ UNCHANGED <<finished_, conflict_count_>>
Discover == /\ AtBit /\ Discrepancy
            /\ n > curr_discrepancy_
            /\ prev_discrepancy_' = IF prev_discrepancy_ < 0 THEN n ELSE curr_discrepancy_
            /\ curr_discrepancy_' = n
            /\ conflict_count_' = conflict_count_ + 1
            /\ Choose(0)
            /\ UNCHANGED finished_

\* handle_discrepancy_, before it: "Follow to the previous path."
Follow == /\ AtBit /\ Discrepancy
          /\ n < curr_discrepancy_
          /\ prev_discrepancy_ >= 0
          /\ Choose(buf[prev_discrepancy_])
          /\ prev_discrepancy_' = n
          /\ UNCHANGED <<finished_, curr_discrepancy_, conflict_count_>>

\* One of the two assertions of handle_discrepancy_ fails: the device panics.
AssertionFails == /\ AtBit /\ Discrepancy
                  /\ \/ n = curr_discrepancy_ /\ n # 0 /\ conflict_count_ = 0
                     \/ n < curr_discrepancy_ /\ prev_discrepancy_ < 0
                  /\ End("panic")
                  /\ UNCHANGED <<scanVars, memory>>

\* The two read slots and the write slot of a bit are one step: devices come off the bus
\* between two bits, not between the slots of one.
OneBit == /\ \/ Silence \/ Agreement
             \/ Resolve \/ Discover \/ Follow \/ AssertionFails
          /\ UNCHANGED given

-----------------------------------------------------------------------------
\* scan() returns a code, the last one if no discrepancy is left, and the loop
\* goes on unless it is the one it looks for.
\* Mutant: the search has finished once the current discrepancy is the first bit.
CodeRead_finishes == /\ Running /\ n = Width
                     /\ finished_' = (curr_discrepancy_ <= 0)
                     /\ found' = found \cup {buf}
                     /\ repeated' = (repeated \/ buf \in found)
                     /\ outcome' = IF buf = wanted THEN "Found" ELSE outcome
                     /\ n' = Between
                     /\ UNCHANGED <<taking_part, buf, prev_discrepancy_,
                                    curr_discrepancy_, conflict_count_, given>>
CodeRead == /\ Running /\ n = Width
            /\ finished_' = (conflict_count_ = 0)
            /\ found' = found \cup {buf}
            /\ repeated' = (repeated \/ buf \in found)
            /\ outcome' = IF buf = wanted THEN "Found" ELSE outcome
            /\ n' = Between
            /\ UNCHANGED <<taking_part, buf, prev_discrepancy_, curr_discrepancy_,
                           conflict_count_, given>>

Scan == NoMoreCodes \/ BusReset \/ OneBit \/ CodeRead

-----------------------------------------------------------------------------
(* What happens to the bus (external). *)

Unplug(d) == /\ Running
             /\ devices' = devices \ {d}
             /\ taking_part' = taking_part \ {d}
             /\ disturbed' = TRUE
             /\ UNCHANGED <<n, buf, memory, ends, wanted, connected>>

\* An operation of the bus returns an error, or the CRC of the code is wrong.
BusFails == /\ Running
            /\ End("Error")
            /\ disturbed' = TRUE
            /\ UNCHANGED <<scanVars, memory, devices, wanted, connected>>

Next == Scan \/ (\E d \in devices : Unplug(d)) \/ BusFails

\* The search runs on the main task without giving way.
Spec == Init /\ [][Next]_vars /\ WF_vars(Scan)

-----------------------------------------------------------------------------
\* Type correctness of the bus, of the scanner and of the loop around it.
TypeOK == /\ devices \subseteq Code /\ taking_part \subseteq devices
          /\ connected \subseteq Code /\ found \subseteq Code
          /\ wanted \in Code \cup {NoCode}
          /\ n \in -1..Width
          /\ buf \in [Position -> {0, 1}]
          /\ {prev_discrepancy_, curr_discrepancy_} \subseteq -1..(Width - 1)
          /\ conflict_count_ \in 0..Width
          /\ outcome \in {"running", "NoData", "Error", "Found", "panic"}
          /\ {finished_, repeated, disturbed} \subseteq BOOLEAN

\* On a bus nobody disturbs, the loop that lists the codes gets each of them exactly
\* once, and the loop that looks for one finds it if it is there.
FindsAll == /\ ~repeated
            /\ ~Running => outcome = IF devices = {} THEN "Error"
                                     ELSE IF wanted \in devices THEN "Found"
                                     ELSE "NoData"
            /\ outcome = "NoData" => found = devices

\* The two positions the scanner remembers are enough for two devices.
FindsBothDevices == ~disturbed /\ Cardinality(connected) <= 2 => FindsAll

\* docs/sensors/ds18b20.md: "Many DS18B20 sensors can be connected to the single
\* GPIO."  That they are enough for any number.
FindsEveryDevice == ~disturbed => FindsAll

\* With three devices the search may not end; if it does, it has missed nothing:
\* a list that is shown is complete, and a device that is not found is not there.
EndsComplete ==
  ~disturbed /\ Cardinality(connected) <= 3 /\ outcome = "NoData"
    => found = devices /\ wanted \notin devices

\* The scanner never makes a code up: even when devices are unplugged while they
\* answer, every code it returns belongs to a device that was there.
OnlyConnectedDevices == found \subseteq connected

\* The main task is not caught in the search for ever, with up to two devices that
\* stay where they are.
SearchEnds == Cardinality(connected) <= 2 => <>(disturbed \/ ~Running)
=============================================================================
