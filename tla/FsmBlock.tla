------------------------------- MODULE FsmBlock -------------------------------
(***************************************************************************)
(* FsmBlock: the state of a finite state machine, the time spent in it, and *)
(* their persistence in flash.                                             *)
(*                                                                         *)
(* The block lives on one task, so its operations do not interleave with   *)
(* each other.  What interleaves with them is the power: a save writes five *)
(* keys one after the other, each write may fail, the first failure ends   *)
(* the save, and the device may restart between any two writes.  A restart *)
(* reads the keys in the same order straight into the members and stops at *)
(* the first that is missing or unreadable.                                *)
(*                                                                         *)
(* A single write is atomic, as NVS makes it (nvs_set_blob, nvs_commit); one *)
(* that fails may have stored its value or not.                            *)
(***************************************************************************)
EXTENDS Integers, FiniteSets, Sequences

CONSTANTS State,       \* the states, 0 for "None" and "no next state" included
          Resolution,  \* resolution_, in ticks of the clock
          MaxTicks,    \* bound: ticks a behaviour spends in any one state
          MaxSaves     \* bound: saves begun in one behaviour

ASSUME StateAssumption      == State \subseteq Nat /\ 0 \in State
ASSUME ResolutionAssumption == Resolution \in Nat \ {0}
ASSUME TimeAssumption       == MaxTicks \in Nat /\ MaxSaves \in Nat

VARIABLES
  prev_state, curr_state, next_state,
  prev_state_dur, curr_state_dur,
  write_count,
  start_ts, saved_ts,
  now,          \* IClock::now(), microseconds since the restart, as ticks
  nvs,          \* the stored value of every key
  saver, key,   \* who is in write_, and the next key it writes
  loaded,       \* how many keys the last restart read
  \* History, for the properties.
  saves,        \* saves begun
  gen,          \* which save wrote each key
  recent,       \* states the machine was in since the last complete save
  total,        \* ticks spent in each state, ever
  mixed         \* a restart paired a state with the duration of another save

ramVars  == <<prev_state, curr_state, next_state, prev_state_dur,
              curr_state_dur, write_count, start_ts, saved_ts>>
saveVars == <<saver, key, saves>>
nvsVars  == <<nvs, gen>>
bootVars == <<loaded, mixed>>
blockVars == <<ramVars, saveVars, nvsVars, bootVars, now, recent, total>>

Absent == -1

\* The order in which write_ writes and read_ reads.
Keys == <<"write_count", "prev_state", "prev_state_dur", "curr_state",
          "curr_state_dur">>

\* Mutant: the value written under curr_state is the previous state.
Ram_wrongMember == [write_count    |-> write_count,
                    prev_state     |-> prev_state,
                    prev_state_dur |-> prev_state_dur,
                    curr_state     |-> prev_state,
                    curr_state_dur |-> curr_state_dur]
Ram == [write_count    |-> write_count,
        prev_state     |-> prev_state,
        prev_state_dur |-> prev_state_dur,
        curr_state     |-> curr_state,
        curr_state_dur |-> curr_state_dur]

Key == DOMAIN Ram

BlockInit == /\ prev_state = 0 /\ curr_state = 0 /\ next_state = 0
             /\ prev_state_dur = 0 /\ curr_state_dur = 0
             /\ write_count = 0
             /\ start_ts = 0 /\ saved_ts = 0 /\ now = 0
             /\ nvs = [k \in Key |-> Absent]
             /\ saver = "none" /\ key = 1 /\ loaded = 0
             /\ saves = 0 /\ gen = [k \in Key |-> 0]
             /\ recent = {0}
             /\ total = [s \in State |-> 0]
             /\ mixed = FALSE

-----------------------------------------------------------------------------
(* The operations of the block, each called when no save is under way. *)

Idle == saver = "none"

Duration == saved_ts + (now - start_ts) \div Resolution

\* update
Update == /\ Idle
          /\ curr_state_dur' = Duration
          /\ UNCHANGED <<prev_state, curr_state, next_state, prev_state_dur,
                         write_count, start_ts, saved_ts, now, saveVars, nvsVars,
                         bootVars, recent, total>>

\* set_next
SetNext(s) == /\ Idle
              /\ next_state' = s
              /\ UNCHANGED <<prev_state, curr_state, prev_state_dur, curr_state_dur,
                             write_count, start_ts, saved_ts, now, saveVars,
                             nvsVars, bootVars, recent, total>>

is_in_transit == next_state # 0 /\ curr_state # next_state

\* The head of write_: the counter goes up before anything is written.
BeginSave(who) == /\ saves < MaxSaves
                  /\ saver' = who
                  /\ key' = 1
                  /\ saves' = saves + 1
                  /\ write_count' = write_count + 1

\* What transit does to the members, the state left having lasted d.
\* Mutant: the duration restored at startup is carried over.
EnterNext_keepSaved(d) ==
  /\ prev_state' = curr_state
  /\ prev_state_dur' = d
  /\ curr_state' = next_state
  /\ curr_state_dur' = 0
  /\ next_state' = 0
  /\ start_ts' = now
  /\ recent' = recent \cup {next_state}
  /\ UNCHANGED saved_ts
EnterNext(d) == /\ prev_state' = curr_state
                /\ prev_state_dur' = d
                /\ curr_state' = next_state
                /\ curr_state_dur' = 0
                /\ next_state' = 0
                /\ start_ts' = now
                /\ saved_ts' = 0
                /\ recent' = recent \cup {next_state}

\* transit, up to the first write.  It does not look at is_in_transit itself.
Transit == /\ Idle
           /\ EnterNext(curr_state_dur)
           /\ BeginSave("transit")
           /\ UNCHANGED <<now, nvsVars, bootVars, total>>

\* run, scheduled every state_save_interval: no update, only write_.
Run == /\ Idle
       /\ BeginSave("run")
       /\ UNCHANGED <<prev_state, curr_state, next_state, prev_state_dur,
                      curr_state_dur, start_ts, saved_ts, now, nvsVars, bootVars,
                      recent, total>>

\* handle_reboot, up to the first write.  Mutant: the duration is not updated.
HandleReboot_stale ==
  /\ Idle
  /\ BeginSave("reboot")
  /\ UNCHANGED <<prev_state, curr_state, next_state, prev_state_dur,
                 curr_state_dur, start_ts, saved_ts, now, nvsVars, bootVars,
                 recent, total>>
HandleReboot == /\ Idle
                /\ curr_state_dur' = Duration
                /\ BeginSave("reboot")
                /\ UNCHANGED <<prev_state, curr_state, next_state, prev_state_dur,
                               start_ts, saved_ts, now, nvsVars, bootVars,
                               recent, total>>

-----------------------------------------------------------------------------
(* The writes of one save. *)

\* Back to the caller; after handle_reboot the device goes down.
SaveEnds(ok) == saver' = CASE saver # "reboot" -> "none"
                           [] saver = "reboot" /\ ok -> "saved"
                           [] OTHER -> "unsaved"

\* nvs_set_blob
StoreKey == /\ nvs' = [nvs EXCEPT ![Keys[key]] = Ram[Keys[key]]]
            /\ gen' = [gen EXCEPT ![Keys[key]] = saves]

WriteKey == /\ saver \in {"run", "transit", "reboot"}
            /\ StoreKey
            /\ IF key = Len(Keys)
               THEN SaveEnds(TRUE) /\ key' = 1 /\ recent' = {curr_state}
               ELSE key' = key + 1 /\ UNCHANGED <<saver, recent>>
            /\ UNCHANGED <<ramVars, bootVars, saves, now, total>>

\* OCS_STATUS_RETURN_ON_ERROR in write_: nvs_open or nvs_set_blob failed and nothing
\* was stored, or nvs_commit did after the value was.
WriteFails == /\ saver \in {"run", "transit", "reboot"}
              /\ StoreKey \/ UNCHANGED nvsVars
              /\ SaveEnds(FALSE)
              /\ key' = 1
              /\ UNCHANGED <<ramVars, bootVars, saves, now, recent, total>>

-----------------------------------------------------------------------------
(* The power and the clock. *)

\* Keys that are there before the first that is not, in reading order.
Present == CHOOSE n \in 0..Len(Keys) :
             /\ \A i \in 1..n : nvs[Keys[i]] # Absent
             /\ n < Len(Keys) => nvs[Keys[n + 1]] = Absent

\* read_ obtains the first n keys; the members of the others stay zero.
\* Mutant: the status of a read is ignored.
Read_unchecked(n, k) == nvs[k]
Read(n, k) == IF \E i \in 1..n : Keys[i] = k THEN nvs[k] ELSE 0

\* A state and its duration were both read, and different saves wrote them.
Pairs(n, s, d) == {s, d} \subseteq {Keys[i] : i \in 1..n} /\ gen[s] # gen[d]

\* esp_restart, a crash or a power cut, and then the constructor, which takes
\* saved_ts_ only from a record it could read to the end.
Restart(n) ==
  /\ n <= Present
  /\ write_count'    = Read(n, "write_count")
  /\ prev_state'     = Read(n, "prev_state")
  /\ prev_state_dur' = Read(n, "prev_state_dur")
  /\ curr_state'     = Read(n, "curr_state")
  /\ curr_state_dur' = Read(n, "curr_state_dur")
  /\ saved_ts' = IF n = Len(Keys) THEN nvs.curr_state_dur ELSE 0
  /\ next_state' = 0 /\ start_ts' = 0 /\ now' = 0
  /\ saver' = "none" /\ key' = 1
  /\ loaded' = n
  /\ recent' = recent \cup {curr_state'}
  /\ mixed' = \/ mixed
              \/ Pairs(n, "prev_state", "prev_state_dur")
              \/ Pairs(n, "curr_state", "curr_state_dur")
  /\ UNCHANGED <<nvsVars, saves, total>>

\* The clock advances; a save takes less than a tick.
Tick == /\ Idle
        /\ total[curr_state] < MaxTicks
        /\ now' = now + 1
        /\ total' = [total EXCEPT ![curr_state] = @ + 1]
        /\ UNCHANGED <<ramVars, saveVars, nvsVars, bootVars, recent>>

\* What happens to the block whoever its client is.
Environment == \/ Run
               \/ HandleReboot
               \/ WriteKey
               \/ WriteFails
               \/ \E n \in 0..Len(Keys) : Restart(n)
               \/ Tick

BlockNext == \/ Update
             \/ \E s \in State : SetNext(s)
             \/ Transit
             \/ Environment

BlockSpec == BlockInit /\ [][BlockNext]_blockVars

-----------------------------------------------------------------------------
Stored(S) == S \cup {Absent}

\* Type correctness of the block, its stored record and the history.
BlockTypeOK ==
  /\ {prev_state, curr_state, next_state} \subseteq State
  /\ {prev_state_dur, curr_state_dur, write_count, start_ts, saved_ts, now,
      saves} \subseteq Nat
  /\ saves <= MaxSaves
  /\ nvs \in [prev_state : Stored(State), curr_state : Stored(State),
              prev_state_dur : Stored(Nat), curr_state_dur : Stored(Nat),
              write_count : Stored(Nat)]
  /\ saver \in {"none", "run", "transit", "reboot", "saved", "unsaved"}
  /\ key \in 1..Len(Keys) /\ loaded \in 0..Len(Keys)
  /\ gen \in [Key -> 0..MaxSaves]
  /\ recent \subseteq State
  /\ total \in [State -> Nat]
  /\ mixed \in BOOLEAN

\* The machine never claims to have been longer in a state than it was: with
\* transitions, failed writes, read errors and restarts in any order, the
\* durations of update and of transit stay within the time really spent, unless a
\* restart took a state and its duration from two different saves.
DurationsNotInflated ==
  ~mixed => /\ curr_state_dur * Resolution <= total[curr_state]
            /\ prev_state_dur * Resolution <= total[prev_state]

\* fsm_block.h, of curr_state_dur_: "Time spend in the current machine state."
\* That it holds whatever happens to the power while transit saves.
TimeSpentInCurrentState == curr_state_dur * Resolution <= total[curr_state]

\* Whichever writes failed and wherever the power was cut, the state on flash is
\* one the machine was in at the last complete save or since: a restart may undo
\* unsaved transitions, it cannot bring back an older state.
RestoresRecentState == nvs.curr_state # Absent => nvs.curr_state \in recent

\* An orderly reboot, whose save and whose read at startup succeed, loses nothing
\* but the fraction of the resolution interval under way.
RebootKeepsBlock ==
  [][saver = "saved" /\ saver' # "saved" /\ loaded' = Len(Keys)
     => /\ prev_state' = prev_state /\ prev_state_dur' = prev_state_dur
        /\ curr_state' = curr_state /\ write_count' = write_count
        /\ saved_ts' = Duration /\ curr_state_dur' = Duration]_blockVars
=============================================================================
