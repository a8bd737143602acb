------------------------------- MODULE Ds18b20 -------------------------------
(***************************************************************************)
(* The DS18B20 temperature sensors of a device: Sensor and Store of        *)
(* ocs_sensor, their Scratchpad and RomCode on the 1-Wire bus, and the     *)
(* DS18B20Handler that configures them over HTTP.                          *)
(*                                                                         *)
(* A sensor is a name; a configuration assigns it a device on the bus, by  *)
(* serial number, and a resolution.  The configuration is kept in flash,   *)
(* in the object and, the resolution, in the scratchpad of the device.     *)
(* The handler hands each request to the main task, as a function with     *)
(* references to its own variables, and waits a limited time; the main     *)
(* task also reads the sensors.  Devices are plugged and unplugged, the    *)
(* bus and the flash may fail, and the power may go at any step.           *)
(***************************************************************************)
EXTENDS Naturals

CONSTANTS
  Sensor,      \* the sensors, by id, all on one bus
  Device,      \* the devices there are, by serial number
  Resolution,  \* 9 to 12 bits
  None         \* no configuration, no reading

Configuration == [device : Device, resolution : Resolution]

Operation == [kind : {"scan", "read", "write", "erase"}, sensor : Sensor,
              config : Configuration]

ASSUME Ds18b20Assumption == None \notin Configuration \cup Device \cup Operation

VARIABLES
  flash,     \* the configuration stored for each sensor
  assigned,  \* configuration_ and bus_: None if the sensor is not configured
  data,      \* data_: the device the latest reading is from
  plugged,   \* devices on the bus
  scratch,   \* the resolution in the scratchpad of each device
  op,        \* the request the handler waits for
  phase,     \* where the main task is with it
  torn       \* history: sensors for which a flash operation failed and yet took effect

dsVars == <<flash, assigned, data, plugged, scratch, op, phase, torn>>
wireVars == <<plugged, scratch>>
memVars == <<assigned, data>>

DsTypeOK ==
  /\ flash \in [Sensor -> Configuration \cup {None}]
  /\ assigned \in [Sensor -> Configuration \cup {None}]
  /\ data \in [Sensor -> Device \cup {None}]
  /\ plugged \subseteq Device /\ scratch \in [Device -> Resolution]
  /\ op \in Operation \cup {None}
  /\ phase \in {"none", "queued", "found", "written", "verified", "stored", "answer",
                "undefined"}
  /\ torn \subseteq Sensor
  /\ (phase = "none") = (op = None)

DsInit == /\ flash = [s \in Sensor |-> None] /\ assigned = flash
          /\ data = [s \in Sensor |-> None]
          /\ plugged \in SUBSET Device /\ scratch \in [Device -> Resolution]
          /\ op = None /\ phase = "none" /\ torn = {}

-----------------------------------------------------------------------------
(* The handler *)

\* handle_scan_, handle_configuration_, handle_write_configuration_: the query is
\* complete and legal (parse_configuration), the sensor is one of the bus and the
\* queue has room; otherwise nothing happens.
Ask(o) == /\ phase = "none"
          /\ op' = o /\ phase' = "queued"
          /\ UNCHANGED <<flash, memVars, wireVars, torn>>

\* future->wait gives up: the variables of the handler are gone, and the function that
\* refers to them is still to come, or at work.  What it does then is undefined, and the
\* behaviour stops here: no restart follows it.
TimeOut == /\ phase \notin {"none", "answer", "undefined"}
           /\ phase' = "undefined"
           /\ UNCHANGED <<flash, memVars, wireVars, op, torn>>

\* send_response_, or an error of the function.
Respond == /\ phase = "answer"
           /\ op' = None /\ phase' = "none"
           /\ UNCHANGED <<flash, memVars, wireVars, torn>>

-----------------------------------------------------------------------------
(* The function, on the main task *)

At(kind, st) == phase = st /\ op.kind = kind
target == op.sensor
wanted == op.config

\* return of an error.
Fail == op' = None /\ phase' = "none"
Refused == /\ phase \in {"queued", "found", "written", "verified"}
           /\ Fail
           /\ UNCHANGED <<flash, memVars, wireVars, torn>>

\* scan_ lists devices and sensors; read_configuration_ shows what is assigned, or
\* else what is stored.  Neither changes anything.
Scan == /\ At("scan", "queued") \/ At("read", "queued")
        /\ phase' = "answer"
        /\ UNCHANGED <<flash, memVars, wireVars, op, torn>>

\* erase_configuration_: a key that is not there is as good as erased for the handler,
\* and the sensor stays as it is.
Erase == /\ At("erase", "queued")
         /\ phase' = "answer"
         /\ flash' = [flash EXCEPT ![target] = None]
         /\ assigned' = IF flash[target] = None THEN assigned ELSE [assigned EXCEPT ![target] = None]
         /\ UNCHANGED <<data, wireVars, op, torn>>
EraseTorn == /\ At("erase", "queued")
             /\ flash' = [flash EXCEPT ![target] = None] /\ torn' = torn \cup {target}
             /\ Fail
             /\ UNCHANGED <<memVars, wireVars>>

\* find_rom_code_: the device is on the bus.
Find == /\ At("write", "queued") /\ wanted.device \in plugged
        /\ phase' = "found"
        /\ UNCHANGED <<flash, memVars, wireVars, op, torn>>

\* Sensor::write_configuration: the scratchpad is written; nobody may be listening.
WriteScratchpad == /\ At("write", "found")
                   /\ phase' = "written"
                   /\ scratch' = IF wanted.device \in plugged
                                 THEN [scratch EXCEPT ![wanted.device] = wanted.resolution]
                                 ELSE scratch
                   /\ UNCHANGED <<flash, memVars, plugged, op, torn>>

\* It is read back, with a valid CRC and the resolution that was written.
Verify == /\ At("write", "written")
          /\ wanted.device \in plugged /\ scratch[wanted.device] = wanted.resolution
          /\ phase' = "verified"
          /\ UNCHANGED <<flash, memVars, wireVars, op, torn>>

\* The flash is written if it holds something else.  Mutant: it is compared with what
\* the sensor is assigned.
Persist_cached == /\ At("write", "verified")
                  /\ phase' = "stored"
                  /\ flash' = IF assigned[target] = wanted THEN flash ELSE [flash EXCEPT ![target] = wanted]
                  /\ UNCHANGED <<memVars, wireVars, op, torn>>
Persist == /\ At("write", "verified")
           /\ phase' = "stored"
           /\ flash' = [flash EXCEPT ![target] = wanted]
           /\ UNCHANGED <<memVars, wireVars, op, torn>>
PersistTorn == /\ At("write", "verified") /\ flash[target] # wanted
               /\ flash' = [flash EXCEPT ![target] = wanted] /\ torn' = torn \cup {target}
               /\ Fail
               /\ UNCHANGED <<memVars, wireVars>>

\* bus_ and configuration_; then read_configuration_ for the answer.
Assign == /\ At("write", "stored")
          /\ phase' = "answer"
          /\ assigned' = [assigned EXCEPT ![target] = wanted]
          /\ UNCHANGED <<flash, data, wireVars, op, torn>>

Function == \/ Scan \/ Erase \/ EraseTorn \/ Find \/ WriteScratchpad \/ Verify
            \/ Persist \/ PersistTorn \/ Assign \/ Refused

-----------------------------------------------------------------------------
(* The main task between functions, the world, and the power *)

\* Sensor::run: a conversion and a valid scratchpad; what an unconfigured sensor
\* showed last, it goes on to show.
Measure(t) == /\ phase \in {"none", "queued", "answer"}
              /\ assigned[t] # None /\ assigned[t].device \in plugged
              /\ data' = [data EXCEPT ![t] = assigned[t].device]
              /\ UNCHANGED <<flash, assigned, wireVars, op, phase, torn>>

Plug(d) == /\ phase # "undefined"
           /\ plugged' = IF d \in plugged THEN plugged \ {d} ELSE plugged \cup {d}
           /\ \E r \in Resolution :  \* a device comes with the resolution of its EEPROM
                scratch' = IF d \in plugged THEN scratch ELSE [scratch EXCEPT ![d] = r]
           /\ UNCHANGED <<flash, memVars, op, phase, torn>>

\* Store::add for every sensor: what is stored is written to the device, which may be
\* gone, and assigned.
Restart ==
  /\ phase # "undefined"
  /\ \E restored \in SUBSET {t \in Sensor : flash[t] # None /\ flash[t].device \in plugged} :
       /\ assigned' = [t \in Sensor |-> IF t \in restored THEN flash[t] ELSE None]
       /\ scratch' \in [Device -> Resolution]
       /\ \A d \in Device : (\E t \in restored : flash[t].device = d) =>
            \E t \in restored : flash[t] = [device |-> d, resolution |-> scratch'[d]]
  /\ data' = [t \in Sensor |-> None]
  /\ op' = None /\ phase' = "none" /\ torn' = {}
  /\ UNCHANGED <<flash, plugged>>

DsNext == \/ (\E o \in Operation : Ask(o)) \/ TimeOut \/ Respond
          \/ Function
          \/ (\E t \in Sensor : Measure(t)) \/ (\E d \in Device : Plug(d))
          \/ Restart

DsSpec == DsInit /\ [][DsNext]_dsVars

-----------------------------------------------------------------------------
(* Properties *)

\* A sensor that is configured has its configuration in flash, so that it is the same
\* after a restart, whatever was refused, unplugged or cut off at any step; the
\* exception is a flash operation that failed and took effect.
ConfiguredIsStored ==
  \A t \in Sensor : assigned[t] # None /\ phase # "undefined" =>
    \/ assigned[t] = flash[t]
    \/ t \in torn
    \/ At("write", "stored") /\ target = t

\* A request that is answered with OK has been carried out: the configuration written
\* is the one stored and used, the one erased is neither, with the same exception.
AnsweredIsDone ==
  phase = "answer" =>
    /\ op.kind = "write" => flash[target] = wanted /\ assigned[target] = wanted
    /\ op.kind = "erase" /\ target \notin torn => flash[target] = None /\ assigned[target] = None

\* Both: flash, object and answer agree (store.cpp and the handler keep them in step).
ConfigurationKept == ConfiguredIsStored /\ AnsweredIsDone
=============================================================================
