------------------------------ MODULE AnalogConfig ------------------------------
(***************************************************************************)
(* AnalogConfig of ocs_sensor: the range and the sample count of an analog *)
(* sensor, kept in flash under three keys, and changed over HTTP by        *)
(* AnalogConfigStoreHandler.  The changes run on the main task, so that    *)
(* only the power can come between their steps; the wait of the handler    *)
(* and its timeout are those of AsyncFunc, and of Ds18b20.                 *)
(***************************************************************************)
EXTENDS Integers, Sequences

CONSTANTS
  Value,      \* values of min and max, 16 bits in the code
  Count,      \* sample counts, of {1, 8, 16, 32, 64}
  Builtin     \* def_min, def_max and the default count

Config == [min : Value, max : Value, count : Count]

ASSUME AnalogConfigAssumption ==
  /\ Value \subseteq Nat /\ Count \subseteq Nat /\ Builtin \in Config

NoData == -1
Key == {"min", "max", "count"}

VARIABLES
  stored,    \* what each key holds in flash
  config,    \* min_, max_, oversampling_mode_
  update,    \* the change under way: what is asked and the keys still to do
  reply,     \* the answer to the latest request
  diverged   \* history: keys for which a flash operation failed since boot

analogVars == <<stored, config, update, reply, diverged>>

Idle == [want |-> Builtin, left |-> <<>>]

AnalogTypeOK ==
  /\ stored \in [Key -> Nat \cup {NoData}] /\ config \in Config
  /\ update.want \in Config
  /\ update.left \in {<<>>, <<"count">>, <<"max", "count">>, <<"min", "max", "count">>}
  /\ reply \in {"none", "OK", "InvalidArg", "Error"}
  /\ diverged \subseteq Key

\* What the constructor finds if every read succeeds.
Restored == [k \in Key |-> IF stored[k] = NoData THEN Builtin[k] ELSE stored[k]]

AnalogInit == /\ stored = [k \in Key |-> NoData] /\ config = Builtin
              /\ update = Idle /\ reply = "none" /\ diverged = {}

Idling == update.left = <<>>
Answer(code) == update' = Idle /\ reply' = code

\* configure(min, max, sample_count) of handle_single_: what is not in the query stays
\* as it is.
Configure(new) ==
  /\ Idling
  /\ IF new.min >= new.max
     THEN Answer("InvalidArg")
     ELSE /\ update' = [want |-> new, left |-> <<"min", "max", "count">>]
          /\ reply' = "none"
  /\ UNCHANGED <<stored, config, diverged>>

key == update.left[1]
rest == SubSeq(update.left, 2, Len(update.left))
Advance == IF rest = <<>> THEN Answer("OK")
           ELSE update' = [update EXCEPT !.left = rest] /\ reply' = reply

\* A key is written if it differs from the value in use.  Mutant: the value is in use
\* even if it could not be written.
Unmodified == /\ ~Idling /\ config[key] = update.want[key]
              /\ Advance
              /\ UNCHANGED <<stored, config, diverged>>
WriteKey == /\ ~Idling /\ config[key] # update.want[key]
            /\ stored' = [stored EXCEPT ![key] = update.want[key]]
            /\ config' = [config EXCEPT ![key] = update.want[key]]
            /\ diverged' = diverged \ {key}
            /\ Advance
WriteFails_applied == /\ ~Idling /\ config[key] # update.want[key]
                      /\ config' = [config EXCEPT ![key] = update.want[key]]
                      /\ Answer("Error")
                      /\ UNCHANGED <<stored, diverged>>
WriteFails == /\ ~Idling /\ config[key] # update.want[key]
              /\ Answer("Error")
              /\ \/ UNCHANGED <<stored, diverged>>
                 \/ /\ stored' = [stored EXCEPT ![key] = update.want[key]]
                    /\ diverged' = diverged \cup {key}
              /\ UNCHANGED config

\* reset: erase_all, and the defaults, whatever came of it.
ResetAnalog ==
  /\ Idling
  /\ config' = Builtin
  /\ \/ stored' = [k \in Key |-> NoData] /\ Answer("OK") /\ diverged' = {}
     \/ stored' \in {stored, [k \in Key |-> NoData]} /\ Answer("Error")
        /\ diverged' = diverged \cup {k \in Key : stored'[k] # NoData}

\* The power goes, and the next start may fail to read some of the keys, which then have
\* the defaults.
RestartAnalog ==
  /\ \E unread \in SUBSET {k \in Key : stored[k] # NoData} :
       /\ config' = [k \in Key |-> IF k \in unread THEN Builtin[k] ELSE Restored[k]]
       /\ diverged' = unread
  /\ update' = Idle /\ reply' = "none"
  /\ UNCHANGED stored

AnalogNext == \/ \E new \in Config : Configure(new)
              \/ Unmodified \/ WriteKey \/ WriteFails \/ ResetAnalog \/ RestartAnalog

AnalogSpec == AnalogInit /\ [][AnalogNext]_analogVars

-----------------------------------------------------------------------------
(* Properties *)

\* The configuration in use is the one the next start finds, at every step of a change,
\* even of one that fails half-way (configure writes key by key and assigns after the
\* write); the exceptions are the keys a flash operation failed for.
AnalogConfigKept == \A k \in Key \ diverged : config[k] = Restored[k]
=============================================================================
