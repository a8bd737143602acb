------------------------------- MODULE OneWireBus -------------------------------
(***************************************************************************)
(* The 1-Wire bus of ocs_onewire over a GPIO: Bus transfers bytes as bits  *)
(* in time slots the master opens by pulling the line low, after a reset   *)
(* that finds out whether a device is there.  The GPIO driver may refuse   *)
(* any call, in the middle of a slot too, which ends the transfer with an  *)
(* error and may leave the line low; the delays never fail (RtDelayer).    *)
(*                                                                         *)
(* The device counts how long the line is low: a short pulse is a one, or  *)
(* asks for a bit, a long pulse a zero, a very long one a reset.           *)
(***************************************************************************)
EXTENDS Naturals

CONSTANT ByteBits  \* bits_in_byte_, eight in the code

ASSUME OneWireBusAssumption == ByteBits \in Nat \ {0}

VARIABLES
  line,     \* "low" while the master holds it, "high"
  job,      \* the operation: "none", "reset", "write", "read"
  slot,     \* within the slot: "ended", "held", "released"
  n,        \* bits transferred
  byte,     \* the byte to write, or read so far
  code,     \* what the last operation returned
  synced,   \* a reset has succeeded and nothing failed since
  device    \* of the device: whether it is there, what it heard, what it answers

busVars == <<line, job, slot, n, byte, code, synced, device>>

\* A byte is its bits, 0 the least significant.
Place == 0 .. ByteBits - 1
ByteValue == [Place -> {0, 1}]
Zero == [i \in Place |-> 0]

BusTypeOK ==
  /\ line \in {"low", "high"} /\ job \in {"none", "reset", "write", "read"}
  /\ slot \in {"ended", "held", "released"} /\ n \in 0 .. ByteBits /\ byte \in ByteValue
  /\ code \in {"OK", "Error"} /\ synced \in BOOLEAN
  /\ device \in [there : BOOLEAN, heard : ByteValue, at : 0 .. ByteBits, answer : ByteValue,
                 asked : ByteValue]

BusInit ==
  /\ line = "high" /\ job = "none" /\ slot = "ended" /\ n = 0 /\ byte = Zero
  /\ code = "OK" /\ synced = FALSE
  /\ device \in [there : {TRUE}, heard : {Zero}, at : {0}, answer : {Zero}, asked : {Zero}]

-----------------------------------------------------------------------------
(* The master *)

\* reset, write_byte, read_byte, the first always at the start (RomCode::match, read).
\* What is read goes into a byte that has a value, and the device may come and go.
Transfer(kind, value, answer) ==
  /\ job = "none" /\ (kind # "reset" => synced)
  /\ job' = kind /\ n' = 0 /\ byte' = value
  /\ device' \in [there : BOOLEAN, heard : {Zero}, at : {0}, answer : {answer},
                  asked : {value}]
  /\ synced' = (synced /\ device'.there)
  /\ UNCHANGED <<line, slot, code>>

Slots == IF job = "reset" THEN 1 ELSE ByteBits

\* set_direction, turn_off: the slot begins.
Hold == /\ job # "none" /\ slot = "ended" /\ n < Slots
        /\ line' = "low" /\ slot' = "held"
        /\ UNCHANGED <<job, n, byte, code, synced, device>>

\* How long: for a zero, the whole slot.
Pulse == CASE job = "reset" -> "very long"
           [] job = "write" /\ byte[0] = 0 -> "long"
           [] OTHER -> "short"

\* What the device makes of it.
Hears == CASE Pulse = "very long" -> [device EXCEPT !.heard = Zero, !.at = 0]
           [] job = "write" -> [device EXCEPT !.heard[device.at] = IF Pulse = "short" THEN 1 ELSE 0,
                                              !.at = @ + 1]
           [] OTHER -> [device EXCEPT !.at = @ + 1]

\* turn_on.  Bits go from the lowest up.
Rest_high(value) == [i \in Place |-> IF i = 0 THEN 0 ELSE value[i - 1]]
Rest(value) == [i \in Place |-> IF i = ByteBits - 1 THEN 0 ELSE value[i + 1]]
Release == /\ slot = "held"
           /\ line' = "high" /\ slot' = "released"
           /\ device' = Hears
           /\ byte' = IF job = "write" THEN Rest(byte) ELSE byte
           /\ UNCHANGED <<job, n, code, synced>>

\* set_direction, get: the level while the line is the device's, or nobody's.
Driven == IF device.there THEN device.answer[n] ELSE 1
Receive == /\ slot = "released" /\ job = "read"
           /\ byte' = [byte EXCEPT ![n] = Driven]
           /\ slot' = "ended" /\ n' = n + 1
           /\ UNCHANGED <<line, job, code, synced, device>>
EndWrite == /\ slot = "released" /\ job = "write"
            /\ slot' = "ended" /\ n' = n + 1
            /\ UNCHANGED <<line, job, byte, code, synced, device>>
Presence == /\ slot = "released" /\ job = "reset"
            /\ slot' = "ended" /\ job' = "none"
            /\ code' = IF device.there THEN "OK" ELSE "Error"
            /\ synced' = device.there
            /\ UNCHANGED <<line, n, byte, device>>

\* All bits are through.
Complete == /\ job \in {"write", "read"} /\ slot = "ended" /\ n = ByteBits
            /\ job' = "none" /\ code' = "OK"
            /\ UNCHANGED <<line, slot, n, byte, synced, device>>

\* OCS_STATUS_RETURN_ON_ERROR, wherever the driver is called.
DriverFails == /\ job # "none" /\ (slot = "ended" => n < Slots)
           /\ job' = "none" /\ slot' = "ended" /\ code' = "Error" /\ synced' = FALSE
           /\ UNCHANGED <<line, n, byte, device>>

BusNext ==
  \/ \E kind \in {"reset", "write", "read"}, value, answer \in ByteValue :
       Transfer(kind, value, answer)
  \/ Hold \/ Release \/ Receive \/ EndWrite \/ Presence \/ Complete \/ DriverFails

BusSpec == BusInit /\ [][BusNext]_busVars

-----------------------------------------------------------------------------
(* Properties *)

\* A transfer that returned OK moved the byte to the device, or from it, bit by bit, over
\* whatever the buffer held and whatever an earlier failure left the line at.
BytesArrive ==
  [][Complete /\ device.there =>
       IF job = "write" THEN device.heard = device.asked ELSE byte' = device.answer]_busVars
=============================================================================
