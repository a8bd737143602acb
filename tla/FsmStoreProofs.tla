---------------------------- MODULE FsmStoreProofs ----------------------------
(***************************************************************************)
(* Proofs about FsmStore and the FsmBlock it drives, for any states, any   *)
(* handlers, any resolution and any number of saves: what the flash and a  *)
(* restart may make of the block, and how the store takes it through its   *)
(* transitions.                                                            *)
(***************************************************************************)
EXTENDS FsmStore, TLAPS

LEMMA KeysLemma ==
  /\ Len(Keys) = 5
  /\ Keys[1] = "write_count" /\ Keys[2] = "prev_state" /\ Keys[3] = "prev_state_dur"
  /\ Keys[4] = "curr_state" /\ Keys[5] = "curr_state_dur"
  BY DEF Keys

KeyName == {"write_count", "prev_state", "prev_state_dur", "curr_state", "curr_state_dur"}

LEMMA KeyLemma == Key = KeyName
  BY DEF Key, Ram, KeyName

\* A duration in ticks of the clock.
Ticks(d) == d * Resolution

LEMMA TicksLemma ==
  ASSUME NEW d \in Nat, NEW t \in Nat
  PROVE  /\ Ticks(d) \in Nat /\ Ticks(0) = 0
         /\ d + (t \div Resolution) \in Nat
         /\ Ticks(d + (t \div Resolution)) <= Ticks(d) + t
<1>1. Resolution \in Nat /\ Resolution > 0
  BY ResolutionAssumption
<1>2. PICK q \in Nat : q = t \div Resolution /\ q * Resolution <= t
  BY <1>1
<1>3. (d + q) * Resolution = d * Resolution + q * Resolution
  BY <1>1, <1>2
<1>4. QED
  BY <1>1, <1>2, <1>3 DEF Ticks

LEMMA HandledLemma == Handled \subseteq State /\ Handled \subseteq Nat /\ 0 \in Handled
  BY HandlersAssumption, StateAssumption

-----------------------------------------------------------------------------
(* The inductive invariant *)

Writing == {"run", "transit", "reboot"}

\* Every state the block knows, in memory or in flash, has handlers.
BlockInv ==
  /\ prev_state \in Handled /\ curr_state \in Handled /\ next_state \in Handled
  /\ prev_state_dur \in Nat /\ curr_state_dur \in Nat /\ write_count \in Nat
  /\ start_ts \in Nat /\ saved_ts \in Nat /\ now \in Nat /\ start_ts <= now
  /\ saves \in Nat /\ key \in 1..5
  /\ saver \in Writing \cup {"none", "saved", "unsaved"}
  /\ total \in [State -> Nat]

FlashInv ==
  /\ nvs \in [KeyName -> Nat \cup {Absent}] /\ gen \in [KeyName -> Nat]
  /\ nvs["prev_state"] \in Stored(Handled) /\ nvs["curr_state"] \in Stored(Handled)
  /\ \A k \in KeyName : gen[k] <= saves

\* A save has written the keys before the next one, and none after it.
Progress(i, k, value) ==
  IF i < key THEN gen[k] = saves /\ nvs[k] = value ELSE gen[k] < saves
SaveInv ==
  saver \in Writing =>
    /\ Progress(1, "write_count", write_count)
    /\ Progress(2, "prev_state", prev_state)
    /\ Progress(3, "prev_state_dur", prev_state_dur)
    /\ Progress(4, "curr_state", curr_state)
    /\ Progress(5, "curr_state_dur", curr_state_dur)

\* The save of an orderly reboot has the duration of now; when it is over, the flash
\* has all of the block.
RebootInv ==
  /\ saver \in {"reboot", "saved"} => curr_state_dur = Duration
  /\ saver = "saved" =>
       /\ nvs["write_count"] = write_count
       /\ nvs["prev_state"] = prev_state /\ nvs["prev_state_dur"] = prev_state_dur
       /\ nvs["curr_state"] = curr_state /\ nvs["curr_state_dur"] = curr_state_dur

\* The durations in memory, and the one Duration starts from.
RamInv ==
  ~mixed => /\ Ticks(curr_state_dur) <= total[curr_state]
            /\ Ticks(prev_state_dur) <= total[prev_state]
            /\ Ticks(saved_ts) + (now - start_ts) <= total[curr_state]

\* A state and a duration that one save wrote.
Honest(s, d) ==
  gen[s] = gen[d] /\ nvs[s] # Absent /\ nvs[d] # Absent => Ticks(nvs[d]) <= total[nvs[s]]
PairInv == ~mixed => /\ Honest("prev_state", "prev_state_dur")
                     /\ Honest("curr_state", "curr_state_dur")

RecentInv == curr_state \in recent /\ RestoresRecentState

StoreInv == is_transit_begin => settled

FsmIInv == /\ BlockInv /\ FlashInv /\ SaveInv /\ RebootInv
           /\ RamInv /\ PairInv /\ RecentInv /\ StoreInv

LEMMA FsmInitial == StoreInit => FsmIInv
<1> SUFFICES ASSUME StoreInit PROVE FsmIInv
  OBVIOUS
<1> USE DEF StoreInit, BlockInit
<1>1. BlockInv
  BY HandledLemma DEF BlockInv, Writing
<1>2. FlashInv
  BY KeyLemma DEF KeyName, FlashInv, Stored, Absent
<1>3. SaveInv /\ RebootInv /\ StoreInv
  BY DEF SaveInv, RebootInv, StoreInv, Writing
<1>4. RamInv
  BY HandledLemma, TicksLemma DEF RamInv
<1>5. PairInv
  BY KeyLemma DEF KeyName, PairInv, Honest
<1>6. RecentInv
  BY KeyLemma DEF KeyName, RecentInv, RestoresRecentState
<1>7. QED
  BY <1>1, <1>2, <1>3, <1>4, <1>5, <1>6 DEF FsmIInv

-----------------------------------------------------------------------------
(* One lemma per action of the block *)

BlockIInv == BlockInv /\ FlashInv /\ SaveInv /\ RebootInv /\ RamInv /\ PairInv /\ RecentInv

LEMMA DurationLemma ==
  ASSUME BlockInv
  PROVE  /\ Duration \in Nat
         /\ RamInv => (~mixed => Ticks(Duration) <= total[curr_state])
<1>1. PICK t \in Nat : t = now - start_ts
  BY DEF BlockInv
<1>2. saved_ts \in Nat /\ Duration = saved_ts + (t \div Resolution)
  BY <1>1 DEF Duration, BlockInv
<1>3. Duration \in Nat /\ Ticks(Duration) <= Ticks(saved_ts) + t /\ Ticks(saved_ts) \in Nat
  BY <1>2, TicksLemma
<1>4. curr_state \in State /\ total[curr_state] \in Nat
  BY HandledLemma DEF BlockInv
<1>5. Ticks(Duration) \in Nat
  BY <1>3, TicksLemma
<1>6. ASSUME RamInv, ~mixed PROVE Ticks(Duration) <= total[curr_state]
  BY <1>1, <1>3, <1>4, <1>5, <1>6 DEF RamInv
<1>7. QED
  BY <1>3, <1>6

LEMMA UpdateStep == BlockIInv /\ Update => BlockIInv'
<1> SUFFICES ASSUME BlockIInv, Update PROVE BlockIInv'
  OBVIOUS
<1>1. /\ saver = "none" /\ curr_state_dur' = Duration
      /\ UNCHANGED <<prev_state, curr_state, next_state, prev_state_dur, write_count,
                     start_ts, saved_ts, now, saver, key, saves, nvs, gen, mixed, recent,
                     total>>
  BY DEF Update, Idle, saveVars, nvsVars, bootVars
<1>2. BlockInv'
  BY <1>1, DurationLemma DEF BlockIInv, BlockInv
<1>3. FlashInv' /\ SaveInv' /\ RebootInv' /\ PairInv' /\ RecentInv'
  <2>1. FlashInv'
    BY <1>1 DEF BlockIInv, FlashInv
  <2>2. SaveInv' /\ RebootInv'
    BY <1>1 DEF SaveInv, RebootInv, Writing
  <2>3. PairInv' /\ RecentInv'
    BY <1>1 DEF BlockIInv, PairInv, Honest, RecentInv, RestoresRecentState
  <2>4. QED
    BY <2>1, <2>2, <2>3
<1>4. RamInv'
  BY <1>1, DurationLemma DEF BlockIInv, RamInv
<1>5. QED
  BY <1>2, <1>3, <1>4 DEF BlockIInv

LEMMA SetNextStep ==
  ASSUME BlockIInv, NEW s \in Handled, SetNext(s)
  PROVE  BlockIInv'
<1>1. /\ saver = "none" /\ next_state' = s
      /\ UNCHANGED <<prev_state, curr_state, prev_state_dur, curr_state_dur, write_count,
                     start_ts, saved_ts, now, saver, key, saves, nvs, gen, mixed, recent,
                     total>>
  BY DEF SetNext, Idle, saveVars, nvsVars, bootVars
<1>2. BlockInv'
  BY <1>1 DEF BlockIInv, BlockInv
<1>3. FlashInv' /\ SaveInv' /\ RebootInv' /\ PairInv' /\ RecentInv'
  <2>1. FlashInv'
    BY <1>1 DEF BlockIInv, FlashInv
  <2>2. SaveInv' /\ RebootInv'
    BY <1>1 DEF SaveInv, RebootInv, Writing
  <2>3. PairInv' /\ RecentInv'
    BY <1>1 DEF BlockIInv, PairInv, Honest, RecentInv, RestoresRecentState
  <2>4. QED
    BY <2>1, <2>2, <2>3
<1>4. RamInv'
  BY <1>1 DEF BlockIInv, RamInv
<1>5. QED
  BY <1>2, <1>3, <1>4 DEF BlockIInv

\* A save that begins has written nothing.
LEMMA BeginSaveLemma ==
  ASSUME BlockInv, FlashInv, NEW who \in Writing, BeginSave(who), UNCHANGED <<nvs, gen>>
  PROVE  /\ FlashInv' /\ SaveInv'
         /\ saver' = who /\ key' \in 1..5 /\ saves' \in Nat /\ write_count' \in Nat
<1>1. /\ saver' = who /\ key' = 1 /\ saves' = saves + 1 /\ write_count' = write_count + 1
  BY DEF BeginSave
<1>2. \A k \in KeyName : gen[k] < saves'
  BY <1>1 DEF FlashInv, BlockInv
<1>3. SaveInv'
  BY <1>1, <1>2, KeyLemma DEF KeyName, SaveInv, Progress
<1>4. FlashInv'
  <2>1. \A k \in KeyName : gen'[k] <= saves'
    BY <1>1, <1>2 DEF FlashInv, BlockInv
  <2>2. QED
    BY <2>1 DEF FlashInv
<1>5. QED
  BY <1>1, <1>3, <1>4 DEF BlockInv

LEMMA RunStep == BlockIInv /\ Run => BlockIInv'
<1> SUFFICES ASSUME BlockIInv, Run PROVE BlockIInv'
  OBVIOUS
<1>1. /\ BeginSave("run") /\ saver = "none"
      /\ UNCHANGED <<prev_state, curr_state, next_state, prev_state_dur, curr_state_dur,
                     start_ts, saved_ts, now, nvs, gen, mixed, recent, total>>
  BY DEF Run, Idle, nvsVars, bootVars
<1>2. /\ FlashInv' /\ SaveInv' /\ saver' = "run" /\ key' \in 1..5 /\ saves' \in Nat
      /\ write_count' \in Nat
  BY <1>1, BeginSaveLemma DEF BlockIInv, Writing
<1>3. BlockInv'
  BY <1>1, <1>2 DEF BlockIInv, BlockInv, Writing
<1>4. RebootInv' /\ PairInv' /\ RecentInv'
  BY <1>1, <1>2 DEF BlockIInv, RebootInv, PairInv, Honest, RecentInv, RestoresRecentState
<1>5. RamInv'
  BY <1>1 DEF BlockIInv, RamInv
<1>6. QED
  BY <1>2, <1>3, <1>4, <1>5 DEF BlockIInv

LEMMA HandleRebootStep == BlockIInv /\ HandleReboot => BlockIInv'
<1> SUFFICES ASSUME BlockIInv, HandleReboot PROVE BlockIInv'
  OBVIOUS
<1>1. /\ BeginSave("reboot") /\ saver = "none" /\ curr_state_dur' = Duration
      /\ UNCHANGED <<prev_state, curr_state, next_state, prev_state_dur,
                     start_ts, saved_ts, now, nvs, gen, mixed, recent, total>>
  BY DEF HandleReboot, Idle, nvsVars, bootVars
<1>2. /\ FlashInv' /\ SaveInv' /\ saver' = "reboot" /\ key' \in 1..5 /\ saves' \in Nat
      /\ write_count' \in Nat
  BY <1>1, BeginSaveLemma DEF BlockIInv, Writing
<1>3. BlockInv'
  BY <1>1, <1>2, DurationLemma DEF BlockIInv, BlockInv, Writing
<1>4. RebootInv'
  BY <1>1, <1>2 DEF RebootInv, Duration
<1>5. PairInv' /\ RecentInv'
  BY <1>1 DEF BlockIInv, PairInv, Honest, RecentInv, RestoresRecentState
<1>6. RamInv'
  BY <1>1, DurationLemma DEF BlockIInv, RamInv
<1>7. QED
  BY <1>2, <1>3, <1>4, <1>5, <1>6 DEF BlockIInv

\* The duration of the state that is left is that of now.
LEMMA TransitStep ==
  ASSUME BlockIInv, Idle, EnterNext(Duration), BeginSave("transit"),
         UNCHANGED <<now, nvsVars, bootVars, total>>
  PROVE  BlockIInv'
<1>1. /\ saver = "none" /\ UNCHANGED <<now, nvs, gen, mixed, total>>
      /\ prev_state' = curr_state /\ prev_state_dur' = Duration
      /\ curr_state' = next_state /\ curr_state_dur' = 0 /\ next_state' = 0
      /\ start_ts' = now /\ saved_ts' = 0 /\ recent' = recent \cup {next_state}
  BY DEF Idle, EnterNext, nvsVars, bootVars
<1>2. /\ FlashInv' /\ SaveInv' /\ saver' = "transit" /\ key' \in 1..5 /\ saves' \in Nat
      /\ write_count' \in Nat
  BY <1>1, BeginSaveLemma DEF BlockIInv, Writing
<1>3. BlockInv'
  BY <1>1, <1>2, DurationLemma, HandledLemma DEF BlockIInv, BlockInv, Writing
<1>4. RebootInv' /\ PairInv' /\ RecentInv'
  BY <1>1, <1>2 DEF BlockIInv, RebootInv, PairInv, Honest, RecentInv, RestoresRecentState
<1>5. RamInv'
  <2>1. /\ Ticks(0) = 0 /\ now \in Nat /\ next_state \in State /\ total[next_state] \in Nat
    BY TicksLemma, HandledLemma DEF BlockIInv, BlockInv
  <2>2. ~mixed => Ticks(Duration) <= total[curr_state]
    BY DurationLemma DEF BlockIInv
  <2>3. QED
    BY <1>1, <2>1, <2>2 DEF RamInv
<1>6. QED
  BY <1>2, <1>3, <1>4, <1>5 DEF BlockIInv

LEMMA TickStep == BlockIInv /\ Tick => BlockIInv'
<1> SUFFICES ASSUME BlockIInv, Tick PROVE BlockIInv'
  OBVIOUS
<1>1. /\ saver = "none" /\ now' = now + 1
      /\ total' = [total EXCEPT ![curr_state] = @ + 1]
      /\ UNCHANGED <<prev_state, curr_state, next_state, prev_state_dur, curr_state_dur,
                     write_count, start_ts, saved_ts, saver, key, saves, nvs, gen, mixed,
                     recent>>
  BY DEF Tick, Idle, ramVars, saveVars, nvsVars, bootVars
<1>2. BlockInv'
  BY <1>1, HandledLemma DEF BlockIInv, BlockInv
<1>3. FlashInv' /\ SaveInv' /\ RebootInv' /\ RecentInv'
  <2>1. FlashInv'
    BY <1>1 DEF BlockIInv, FlashInv
  <2>2. SaveInv' /\ RebootInv'
    BY <1>1 DEF SaveInv, RebootInv, Writing
  <2>3. RecentInv'
    BY <1>1 DEF BlockIInv, RecentInv, RestoresRecentState
  <2>4. QED
    BY <2>1, <2>2, <2>3
<1>4. \A st \in State : total[st] \in Nat /\ total'[st] \in Nat /\ total[st] <= total'[st]
  BY <1>1, HandledLemma DEF BlockIInv, BlockInv
<1>5. curr_state \in State /\ prev_state \in State /\ total'[curr_state] = total[curr_state] + 1
  BY <1>1, HandledLemma DEF BlockIInv, BlockInv
<1>6. Ticks(curr_state_dur) \in Nat /\ Ticks(prev_state_dur) \in Nat /\ Ticks(saved_ts) \in Nat
  BY TicksLemma DEF BlockIInv, BlockInv
<1>7. RamInv'
  BY <1>1, <1>4, <1>5, <1>6 DEF BlockIInv, BlockInv, RamInv
<1>8. ASSUME NEW s \in {"prev_state", "curr_state"}, NEW d \in KeyName, Honest(s, d)
      PROVE  Honest(s, d)'
  <2>1. CASE nvs[s] # Absent /\ nvs[d] # Absent
    <3>1. nvs[d] \in Nat /\ nvs[s] \in State
      BY <2>1, HandledLemma DEF BlockIInv, FlashInv, Stored
    <3>2. Ticks(nvs[d]) \in Nat
      BY <3>1, TicksLemma
    <3>3. QED
      BY <1>1, <1>4, <1>8, <3>1, <3>2 DEF Honest
  <2>2. CASE nvs[s] = Absent \/ nvs[d] = Absent
    BY <1>1, <2>2 DEF Honest
  <2>3. QED
    BY <2>1, <2>2
<1>9. PairInv'
  BY <1>1, <1>8, KeyLemma DEF KeyName, BlockIInv, PairInv
<1>10. QED
  BY <1>2, <1>3, <1>7, <1>9 DEF BlockIInv

\* Which key is stored, which value, and by which save.
LEMMA StoreKeyLemma ==
  ASSUME BlockIInv, StoreKey
  PROVE  /\ key = 1 => /\ nvs' = [nvs EXCEPT !["write_count"] = write_count]
                       /\ gen' = [gen EXCEPT !["write_count"] = saves]
         /\ key = 2 => /\ nvs' = [nvs EXCEPT !["prev_state"] = prev_state]
                       /\ gen' = [gen EXCEPT !["prev_state"] = saves]
         /\ key = 3 => /\ nvs' = [nvs EXCEPT !["prev_state_dur"] = prev_state_dur]
                       /\ gen' = [gen EXCEPT !["prev_state_dur"] = saves]
         /\ key = 4 => /\ nvs' = [nvs EXCEPT !["curr_state"] = curr_state]
                       /\ gen' = [gen EXCEPT !["curr_state"] = saves]
         /\ key = 5 => /\ nvs' = [nvs EXCEPT !["curr_state_dur"] = curr_state_dur]
                       /\ gen' = [gen EXCEPT !["curr_state_dur"] = saves]
<1>1. /\ Ram["write_count"] = write_count
      /\ Ram["prev_state"] = prev_state /\ Ram["prev_state_dur"] = prev_state_dur
      /\ Ram["curr_state"] = curr_state /\ Ram["curr_state_dur"] = curr_state_dur
  BY DEF Ram
<1>2. /\ nvs' = [nvs EXCEPT ![Keys[key]] = Ram[Keys[key]]]
      /\ gen' = [gen EXCEPT ![Keys[key]] = saves]
  BY DEF StoreKey
<1>3. QED
  BY <1>1, <1>2, KeysLemma

\* A key stored in the course of a save keeps the flash honest, whether the write that
\* stored it is reported as a success or as a failure.
LEMMA StoreStep ==
  ASSUME BlockIInv, StoreKey, saver \in Writing,
         UNCHANGED <<prev_state, curr_state, next_state, prev_state_dur, curr_state_dur,
                     write_count, start_ts, saved_ts, now, saves, mixed, total>>
  PROVE  /\ FlashInv' /\ PairInv'
         /\ nvs'["curr_state"] # Absent => nvs'["curr_state"] \in recent
<1> USE StoreKeyLemma
<1>1. key \in 1..5 /\ key \in {1, 2, 3, 4, 5}
  BY DEF BlockIInv, BlockInv
<1>2. FlashInv'
  <2>1. /\ nvs \in [KeyName -> Nat \cup {Absent}] /\ gen \in [KeyName -> Nat] /\ saves \in Nat
        /\ nvs["prev_state"] \in Stored(Handled) /\ nvs["curr_state"] \in Stored(Handled)
        /\ \A k \in KeyName : gen[k] <= saves
    BY DEF BlockIInv, FlashInv, BlockInv
  <2>2. /\ write_count \in Nat /\ prev_state \in Nat /\ prev_state_dur \in Nat
        /\ curr_state \in Nat /\ curr_state_dur \in Nat
        /\ prev_state \in Handled /\ curr_state \in Handled
    BY HandledLemma DEF BlockIInv, BlockInv
  <2>3. nvs' \in [KeyName -> Nat \cup {Absent}] /\ gen' \in [KeyName -> Nat]
    BY <1>1, <2>1, <2>2
  <2>4. nvs'["prev_state"] \in Stored(Handled) /\ nvs'["curr_state"] \in Stored(Handled)
    BY <1>1, <2>1, <2>2 DEF KeyName, Stored
  <2>5. \A k \in KeyName : gen'[k] <= saves
    BY <1>1, <2>1
  <2>6. QED
    BY <2>3, <2>4, <2>5 DEF FlashInv
<1>3. /\ Progress(1, "write_count", write_count)
      /\ Progress(2, "prev_state", prev_state)
      /\ Progress(3, "prev_state_dur", prev_state_dur)
      /\ Progress(4, "curr_state", curr_state)
      /\ Progress(5, "curr_state_dur", curr_state_dur)
      /\ nvs \in [KeyName -> Nat \cup {Absent}] /\ gen \in [KeyName -> Nat]
  BY DEF BlockIInv, SaveInv, FlashInv
<1>4. PairInv'
  <2>1. ~mixed => /\ Honest("prev_state", "prev_state_dur")
                  /\ Honest("curr_state", "curr_state_dur")
                  /\ Ticks(curr_state_dur) <= total[curr_state]
                  /\ Ticks(prev_state_dur) <= total[prev_state]
    BY DEF BlockIInv, PairInv, RamInv
  <2>2. CASE key = 1
    BY <1>3, <2>1, <2>2 DEF PairInv, Honest, Progress, KeyName
  <2>3. CASE key = 2
    BY <1>3, <2>1, <2>3 DEF PairInv, Honest, Progress, KeyName
  <2>4. CASE key = 3
    BY <1>3, <2>1, <2>4 DEF PairInv, Honest, Progress, KeyName
  <2>5. CASE key = 4
    BY <1>3, <2>1, <2>5 DEF PairInv, Honest, Progress, KeyName
  <2>6. CASE key = 5
    BY <1>3, <2>1, <2>6 DEF PairInv, Honest, Progress, KeyName
  <2>7. QED
    BY <1>1, <2>2, <2>3, <2>4, <2>5, <2>6
<1>5. nvs'["curr_state"] # Absent => nvs'["curr_state"] \in recent
  <2>1. curr_state \in recent /\ (nvs["curr_state"] # Absent => nvs["curr_state"] \in recent)
    BY DEF BlockIInv, RecentInv, RestoresRecentState
  <2>2. CASE key = 4
    BY <1>3, <2>1, <2>2 DEF KeyName
  <2>3. CASE key \in {1, 2, 3, 5}
    BY <1>3, <2>1, <2>3 DEF KeyName
  <2>4. QED
    BY <1>1, <2>2, <2>3
<1>6. QED
  BY <1>2, <1>4, <1>5

\* Everything but the writes themselves: which key, which value, what the save does next.
LEMMA WriteLemma ==
  ASSUME BlockIInv, WriteKey
  PROVE  /\ saver \in Writing
         /\ UNCHANGED <<prev_state, curr_state, next_state, prev_state_dur, curr_state_dur,
                        write_count, start_ts, saved_ts, now, saves, mixed, total>>
         /\ key = 1 => /\ nvs' = [nvs EXCEPT !["write_count"] = write_count]
                       /\ gen' = [gen EXCEPT !["write_count"] = saves]
         /\ key = 2 => /\ nvs' = [nvs EXCEPT !["prev_state"] = prev_state]
                       /\ gen' = [gen EXCEPT !["prev_state"] = saves]
         /\ key = 3 => /\ nvs' = [nvs EXCEPT !["prev_state_dur"] = prev_state_dur]
                       /\ gen' = [gen EXCEPT !["prev_state_dur"] = saves]
         /\ key = 4 => /\ nvs' = [nvs EXCEPT !["curr_state"] = curr_state]
                       /\ gen' = [gen EXCEPT !["curr_state"] = saves]
         /\ key = 5 => /\ nvs' = [nvs EXCEPT !["curr_state_dur"] = curr_state_dur]
                       /\ gen' = [gen EXCEPT !["curr_state_dur"] = saves]
                       /\ saver' = (IF saver = "reboot" THEN "saved" ELSE "none")
                       /\ key' = 1 /\ recent' = {curr_state}
         /\ key # 5 => key' = key + 1 /\ saver' = saver /\ recent' = recent
<1>1. saver \in Writing /\ StoreKey
  BY DEF WriteKey, Writing
<1>3. UNCHANGED <<prev_state, curr_state, next_state, prev_state_dur, curr_state_dur,
                  write_count, start_ts, saved_ts, now, saves, mixed, total>>
  BY DEF WriteKey, ramVars, bootVars
<1>4. key = 5 => /\ saver' = (IF saver = "reboot" THEN "saved" ELSE "none")
                 /\ key' = 1 /\ recent' = {curr_state}
  BY KeysLemma, <1>1 DEF WriteKey, SaveEnds, Writing
<1>5. key # 5 => key' = key + 1 /\ saver' = saver /\ recent' = recent
  BY KeysLemma DEF WriteKey
<1>6. QED
  BY <1>1, <1>3, <1>4, <1>5, StoreKeyLemma

\* A key that is written belongs to the save, and the keys before it do already.
LEMMA WriteKeyStep == BlockIInv /\ WriteKey => BlockIInv'
<1> SUFFICES ASSUME BlockIInv, WriteKey PROVE BlockIInv'
  OBVIOUS
<1> USE WriteLemma
<1>1. key \in 1..5 /\ key \in {1, 2, 3, 4, 5}
  BY DEF BlockIInv, BlockInv
<1>2. BlockInv'
  <2>1. saver' \in Writing \cup {"none", "saved", "unsaved"} /\ key' \in 1..5
    BY <1>1 DEF Writing
  <2>2. QED
    BY <2>1 DEF BlockIInv, BlockInv
<1>3. FlashInv' /\ PairInv'
  BY StoreStep DEF WriteKey
<1>4. /\ Progress(1, "write_count", write_count)
      /\ Progress(2, "prev_state", prev_state)
      /\ Progress(3, "prev_state_dur", prev_state_dur)
      /\ Progress(4, "curr_state", curr_state)
      /\ Progress(5, "curr_state_dur", curr_state_dur)
      /\ nvs \in [KeyName -> Nat \cup {Absent}] /\ gen \in [KeyName -> Nat]
  BY DEF BlockIInv, SaveInv, FlashInv
<1>5. SaveInv'
  <2>1. CASE key = 5
    BY <2>1 DEF SaveInv, Writing
  <2>2. CASE key # 5
    <3>1. CASE key = 1
      BY <1>4, <3>1 DEF SaveInv, Progress, KeyName
    <3>2. CASE key = 2
      BY <1>4, <3>2 DEF SaveInv, Progress, KeyName
    <3>3. CASE key = 3
      BY <1>4, <3>3 DEF SaveInv, Progress, KeyName
    <3>4. CASE key = 4
      BY <1>4, <3>4 DEF SaveInv, Progress, KeyName
    <3>5. QED
      BY <1>1, <2>2, <3>1, <3>2, <3>3, <3>4
  <2>3. QED
    BY <2>1, <2>2
<1>6. RebootInv'
  <2>1. saver \in {"reboot", "saved"} => curr_state_dur = Duration
    BY DEF BlockIInv, RebootInv
  <2>2. Duration' = Duration
    BY DEF Duration
  <2>3. CASE key = 5
    BY <1>4, <2>1, <2>2, <2>3 DEF RebootInv, Progress, KeyName
  <2>4. CASE key # 5
    BY <2>1, <2>2, <2>4 DEF RebootInv, Writing
  <2>5. QED
    BY <2>3, <2>4
<1>7. RamInv'
  BY DEF BlockIInv, RamInv
<1>8. curr_state \in recent /\ (nvs["curr_state"] # Absent => nvs["curr_state"] \in recent)
  BY DEF BlockIInv, RecentInv, RestoresRecentState
<1>9. RecentInv'
  <2>1. curr_state \in recent /\ (nvs["curr_state"] # Absent => nvs["curr_state"] \in recent)
    BY DEF BlockIInv, RecentInv, RestoresRecentState
  <2>2. curr_state' \in recent' /\ (nvs'["curr_state"] # Absent => nvs'["curr_state"] \in recent')
    <3>1. CASE key = 5
      BY <1>4, <2>1, <3>1 DEF Progress, KeyName
    <3>2. CASE key = 4
      BY <1>4, <2>1, <3>2 DEF KeyName
    <3>3. CASE key \in {1, 2, 3}
      BY <1>4, <2>1, <3>3 DEF KeyName
    <3>4. QED
      BY <1>1, <3>1, <3>2, <3>3
  <2>3. QED
    BY <2>2 DEF RecentInv, RestoresRecentState
<1>10. QED
  BY <1>2, <1>3, <1>5, <1>6, <1>7, <1>9 DEF BlockIInv

LEMMA WriteFailsStep == BlockIInv /\ WriteFails => BlockIInv'
<1> SUFFICES ASSUME BlockIInv, WriteFails PROVE BlockIInv'
  OBVIOUS
<1>1. /\ saver \in Writing /\ saver' \in {"none", "unsaved"} /\ key' = 1
      /\ UNCHANGED <<prev_state, curr_state, next_state, prev_state_dur, curr_state_dur,
                     write_count, start_ts, saved_ts, now, saves, mixed, recent, total>>
  BY DEF WriteFails, SaveEnds, Writing, ramVars, bootVars
<1>2. BlockInv'
  BY <1>1 DEF BlockIInv, BlockInv
<1>3. /\ FlashInv' /\ PairInv'
      /\ nvs'["curr_state"] # Absent => nvs'["curr_state"] \in recent
  <2>1. CASE StoreKey
    BY <1>1, <2>1, StoreStep
  <2>2. CASE UNCHANGED nvsVars
    BY <1>1, <2>2 DEF nvsVars, BlockIInv, FlashInv, PairInv, Honest, RecentInv,
                      RestoresRecentState
  <2>3. QED
    BY <2>1, <2>2 DEF WriteFails
<1>4. SaveInv' /\ RebootInv'
  BY <1>1 DEF SaveInv, RebootInv, Writing
<1>5. RamInv' /\ RecentInv'
  BY <1>1, <1>3 DEF BlockIInv, RamInv, RecentInv, RestoresRecentState
<1>6. QED
  BY <1>2, <1>3, <1>4, <1>5 DEF BlockIInv

\* read_ stops at the first key that is not there.
LEMMA PresentLemma ==
  /\ Present \in 0..5
  /\ \A i \in 1..Present : nvs[Keys[i]] # Absent
<1> DEFINE P(n) == /\ \A i \in 1..n : nvs[Keys[i]] # Absent
                   /\ n < Len(Keys) => nvs[Keys[n + 1]] = Absent
<1>1. \E n \in 0..Len(Keys) : P(n)
  <2>1. CASE nvs[Keys[1]] = Absent
    BY <2>1, KeysLemma
  <2>2. CASE nvs[Keys[1]] # Absent /\ nvs[Keys[2]] = Absent
    BY <2>2, KeysLemma
  <2>3. CASE \A i \in 1..2 : nvs[Keys[i]] # Absent /\ nvs[Keys[3]] = Absent
    BY <2>3, KeysLemma
  <2>4. CASE \A i \in 1..3 : nvs[Keys[i]] # Absent /\ nvs[Keys[4]] = Absent
    BY <2>4, KeysLemma
  <2>5. CASE \A i \in 1..4 : nvs[Keys[i]] # Absent /\ nvs[Keys[5]] = Absent
    BY <2>5, KeysLemma
  <2>6. CASE \A i \in 1..5 : nvs[Keys[i]] # Absent
    BY <2>6, KeysLemma
  <2>7. QED
    BY <2>1, <2>2, <2>3, <2>4, <2>5, <2>6
<1>2. Present = CHOOSE n \in 0..Len(Keys) : P(n)
  BY DEF Present
<1> HIDE DEF P
<1>3. Present \in 0..Len(Keys) /\ P(Present)
  BY <1>1, <1>2
<1>4. QED
  BY <1>3, KeysLemma DEF P

\* What the members hold after a restart that reads n keys.
LEMMA ReadLemma ==
  ASSUME BlockIInv, NEW n \in 0..5, Restart(n)
  PROVE  /\ n >= 1 => write_count' = nvs["write_count"] /\ nvs["write_count"] # Absent
         /\ n < 1 => write_count' = 0
         /\ n >= 2 => prev_state' = nvs["prev_state"] /\ nvs["prev_state"] # Absent
         /\ n < 2 => prev_state' = 0
         /\ n >= 3 => prev_state_dur' = nvs["prev_state_dur"] /\ nvs["prev_state_dur"] # Absent
         /\ n < 3 => prev_state_dur' = 0
         /\ n >= 4 => curr_state' = nvs["curr_state"] /\ nvs["curr_state"] # Absent
         /\ n < 4 => curr_state' = 0
         /\ n >= 5 => curr_state_dur' = nvs["curr_state_dur"] /\ nvs["curr_state_dur"] # Absent
         /\ n < 5 => curr_state_dur' = 0
<1>1. \A i \in 1..n : nvs[Keys[i]] # Absent
  BY PresentLemma DEF Restart
<1>2. n >= 1 => Keys[1] = "write_count" /\ 1 \in 1..n
  BY KeysLemma
<1>3. n >= 2 => Keys[2] = "prev_state" /\ 2 \in 1..n
  BY KeysLemma
<1>4. n >= 3 => Keys[3] = "prev_state_dur" /\ 3 \in 1..n
  BY KeysLemma
<1>5. n >= 4 => Keys[4] = "curr_state" /\ 4 \in 1..n
  BY KeysLemma
<1>6. n >= 5 => Keys[5] = "curr_state_dur" /\ 5 \in 1..n
  BY KeysLemma
<1>7. \A i \in 1..n : /\ Keys[i] = "write_count" => i = 1
                      /\ Keys[i] = "prev_state" => i = 2
                      /\ Keys[i] = "prev_state_dur" => i = 3
                      /\ Keys[i] = "curr_state" => i = 4
                      /\ Keys[i] = "curr_state_dur" => i = 5
  BY KeysLemma
<1>8. /\ write_count' = Read(n, "write_count") /\ prev_state' = Read(n, "prev_state")
      /\ prev_state_dur' = Read(n, "prev_state_dur") /\ curr_state' = Read(n, "curr_state")
      /\ curr_state_dur' = Read(n, "curr_state_dur")
  BY DEF Restart
<1>9. /\ n >= 1 => write_count' = nvs["write_count"] /\ nvs["write_count"] # Absent
      /\ n < 1 => write_count' = 0
  BY <1>1, <1>2, <1>7, <1>8 DEF Read
<1>10. /\ n >= 2 => prev_state' = nvs["prev_state"] /\ nvs["prev_state"] # Absent
       /\ n < 2 => prev_state' = 0
  BY <1>1, <1>3, <1>7, <1>8 DEF Read
<1>11. /\ n >= 3 => prev_state_dur' = nvs["prev_state_dur"] /\ nvs["prev_state_dur"] # Absent
       /\ n < 3 => prev_state_dur' = 0
  BY <1>1, <1>4, <1>7, <1>8 DEF Read
<1>12. /\ n >= 4 => curr_state' = nvs["curr_state"] /\ nvs["curr_state"] # Absent
       /\ n < 4 => curr_state' = 0
  BY <1>1, <1>5, <1>7, <1>8 DEF Read
<1>13. /\ n >= 5 => curr_state_dur' = nvs["curr_state_dur"] /\ nvs["curr_state_dur"] # Absent
       /\ n < 5 => curr_state_dur' = 0
  BY <1>1, <1>6, <1>7, <1>8 DEF Read
<1>14. QED
  BY <1>9, <1>10, <1>11, <1>12, <1>13

LEMMA RestartStep ==
  ASSUME BlockIInv, NEW n \in 0..5, Restart(n)
  PROVE  BlockIInv'
<1>1. /\ next_state' = 0 /\ start_ts' = 0 /\ now' = 0 /\ saver' = "none" /\ key' = 1
      /\ saved_ts' = (IF n = 5 THEN nvs["curr_state_dur"] ELSE 0)
      /\ recent' = recent \cup {curr_state'}
      /\ UNCHANGED <<nvs, gen, saves, total>>
  BY KeysLemma DEF Restart, nvsVars
<1>2. ~mixed' => /\ ~mixed
                 /\ ~Pairs(n, "prev_state", "prev_state_dur")
                 /\ ~Pairs(n, "curr_state", "curr_state_dur")
  BY DEF Restart
<1>3. /\ n >= 3 => {"prev_state", "prev_state_dur"} \subseteq {Keys[i] : i \in 1..n}
      /\ n >= 5 => {"curr_state", "curr_state_dur"} \subseteq {Keys[i] : i \in 1..n}
  BY KeysLemma
<1>4. /\ ~mixed' /\ n >= 3 => gen["prev_state"] = gen["prev_state_dur"]
      /\ ~mixed' /\ n >= 5 => gen["curr_state"] = gen["curr_state_dur"]
  BY <1>2, <1>3 DEF Pairs
<1>5. /\ \A k \in KeyName : nvs[k] # Absent => nvs[k] \in Nat
      /\ nvs["prev_state"] # Absent => nvs["prev_state"] \in Handled
      /\ nvs["curr_state"] # Absent => nvs["curr_state"] \in Handled
  BY DEF BlockIInv, FlashInv, Stored
<1>6. /\ prev_state' \in Handled /\ curr_state' \in Handled
      /\ prev_state_dur' \in Nat /\ curr_state_dur' \in Nat /\ write_count' \in Nat
  BY <1>5, ReadLemma, HandledLemma DEF KeyName
<1>7. saved_ts' = curr_state_dur'
  BY <1>1, ReadLemma
<1>8. BlockInv'
  BY <1>1, <1>6, <1>7, HandledLemma DEF BlockIInv, BlockInv
<1>9. FlashInv'
  BY <1>1 DEF BlockIInv, FlashInv
<1>10. SaveInv' /\ RebootInv'
  BY <1>1 DEF SaveInv, RebootInv, Writing
<1>11. PairInv' /\ RecentInv'
  BY <1>1, <1>2 DEF BlockIInv, PairInv, Honest, RecentInv, RestoresRecentState
<1>12. RamInv'
  <2>1. \A st \in Handled : total[st] \in Nat
    BY HandledLemma DEF BlockIInv, BlockInv
  <2>2. Ticks(0) = 0 /\ Ticks(curr_state_dur') \in Nat
    BY <1>6, TicksLemma
  <2>3. ASSUME ~mixed' PROVE Ticks(prev_state_dur') <= total[prev_state']
    <3>1. CASE n >= 3
      BY <1>2, <1>4, <2>3, <3>1, ReadLemma DEF BlockIInv, PairInv, Honest
    <3>2. CASE n < 3
      BY <1>6, <2>1, <2>2, <3>2, ReadLemma
    <3>3. QED
      BY <3>1, <3>2
  <2>4. ASSUME ~mixed' PROVE Ticks(curr_state_dur') <= total[curr_state']
    <3>1. CASE n >= 5
      BY <1>2, <1>4, <2>4, <3>1, ReadLemma DEF BlockIInv, PairInv, Honest
    <3>2. CASE n < 5
      BY <1>6, <2>1, <2>2, <3>2, ReadLemma
    <3>3. QED
      BY <3>1, <3>2
  <2>5. ~mixed' => Ticks(saved_ts') + (now' - start_ts') <= total[curr_state']
    BY <1>1, <1>7, <2>2, <2>4
  <2>6. QED
    BY <1>1, <2>3, <2>4, <2>5 DEF RamInv
<1>13. QED
  BY <1>8, <1>9, <1>10, <1>11, <1>12 DEF BlockIInv

-----------------------------------------------------------------------------
(* The store *)

LEMMA FsmStep == FsmIInv /\ [StoreNext]_allVars => FsmIInv'
<1> SUFFICES ASSUME FsmIInv, [StoreNext]_allVars PROVE FsmIInv'
  OBVIOUS
<1>0. BlockIInv /\ StoreInv
  BY DEF FsmIInv, BlockIInv
<1>1. CASE StartRun
  BY <1>0, <1>1, UpdateStep DEF StartRun, FsmIInv, BlockIInv, StoreInv
<1>2. CASE EndTransit
  <2>1. BlockIInv'
    BY <1>0, <1>2, TransitStep DEF EndTransit
  <2>2. StoreInv'
    BY <1>2 DEF EndTransit, StoreInv
  <2>3. QED
    BY <2>1, <2>2 DEF FsmIInv, BlockIInv
<1>3. ASSUME NEW s \in State, HandleState(s) PROVE FsmIInv'
  <2>1. s \in Handled /\ SetNext(s)
    BY <1>0, <1>3, HandlersAssumption DEF HandleState, BlockIInv, BlockInv
  <2>2. BlockIInv'
    BY <1>0, <2>1, SetNextStep
  <2>3. StoreInv'
    BY <1>3 DEF HandleState, StoreInv
  <2>4. QED
    BY <2>2, <2>3 DEF FsmIInv, BlockIInv
<1>4. ASSUME NEW s \in Asked, Ask(s) PROVE FsmIInv'
  <2>1. s \in Handled /\ SetNext(s)
    BY <1>4, HandlersAssumption DEF Ask
  <2>2. BlockIInv'
    BY <1>0, <2>1, SetNextStep
  <2>3. QED
    BY <1>0, <1>4, <2>2 DEF Ask, storeVars, FsmIInv, BlockIInv, StoreInv
<1>5. CASE BlockTask
  <2>1. BlockIInv'
    BY <1>0, <1>5, RunStep, HandleRebootStep, TickStep, WriteKeyStep, WriteFailsStep
    DEF BlockTask
  <2>2. QED
    BY <1>0, <1>5, <2>1 DEF BlockTask, storeVars, FsmIInv, BlockIInv, StoreInv
<1>6. CASE StoreRestart
  <2>1. PICK n \in 0..5 : Restart(n)
    BY <1>6, KeysLemma DEF StoreRestart
  <2>2. BlockIInv'
    BY <1>0, <2>1, RestartStep
  <2>3. QED
    BY <1>6, <2>2 DEF StoreRestart, FsmIInv, BlockIInv, StoreInv
<1>7. CASE UNCHANGED allVars
  <2>1. UNCHANGED <<prev_state, curr_state, next_state, prev_state_dur, curr_state_dur,
                    write_count, start_ts, saved_ts, now, saver, key, saves, nvs, gen, mixed,
                    recent, total, is_transit_begin, settled>>
    BY <1>7 DEF allVars, blockVars, storeVars, ramVars, saveVars, nvsVars, bootVars
  <2>2. BlockInv' /\ RamInv' /\ StoreInv' /\ RecentInv'
    BY <1>0, <2>1 DEF BlockIInv, BlockInv, RamInv, StoreInv, RecentInv, RestoresRecentState
  <2>3. FlashInv' /\ PairInv'
    BY <1>0, <2>1 DEF BlockIInv, FlashInv, PairInv, Honest
  <2>4. SaveInv' /\ RebootInv'
    BY <1>0, <2>1 DEF BlockIInv, SaveInv, Progress, RebootInv, Duration
  <2>5. QED
    BY <2>2, <2>3, <2>4 DEF FsmIInv
<1>8. QED
  BY <1>1, <1>2, <1>3, <1>4, <1>5, <1>6, <1>7 DEF StoreNext

LEMMA FsmInvariant == StoreSpec => []FsmIInv
<1>1. StoreInit => FsmIInv
  BY FsmInitial
<1>2. FsmIInv /\ [StoreNext]_allVars => FsmIInv'
  BY FsmStep
<1>3. QED
  BY <1>1, <1>2, PTL DEF StoreSpec

-----------------------------------------------------------------------------
(* The theorems *)

\* For any states and handlers, the assertions of FsmStore never fire, whatever a restart
\* could read of the record and whichever saves it is mixed from.
THEOREM AssertionsNeverFire == StoreSpec => []AssertionsHold
<1>1. FsmIInv => AssertionsHold
  BY DEF FsmIInv, BlockInv, AssertionsHold, HasHandlers
<1>2. QED
  BY <1>1, FsmInvariant, PTL

\* For any resolution and any number of saves, failed writes, failed reads and restarts,
\* the durations of the block stay within the time spent in the states, unless a restart
\* took a state and its duration from two saves (FsmBlock::write_ and read_).
THEOREM DurationsAreHonest == StoreSpec => []DurationsNotInflated
<1>1. FsmIInv => DurationsNotInflated
  BY DEF FsmIInv, RamInv, DurationsNotInflated, Ticks
<1>2. QED
  BY <1>1, FsmInvariant, PTL

\* Whichever writes failed, the state in flash is one of the last complete save or later.
THEOREM RestoredStateIsRecent == StoreSpec => []RestoresRecentState
<1>1. FsmIInv => RestoresRecentState
  BY DEF FsmIInv, RecentInv
<1>2. QED
  BY <1>1, FsmInvariant, PTL

\* No state is passed over: every transition was announced by a run of FsmStore that
\* handled the state, in this life of the device.
THEOREM NoStateIsPassedOver == StoreSpec => LeavesHandledState
<1>1. FsmIInv /\ [StoreNext]_allVars => [Transits => settled /\ is_transit_begin]_allVars
  <2> SUFFICES ASSUME FsmIInv, StoreNext, saver = "none", saver' = "transit"
               PROVE  settled /\ is_transit_begin
    BY DEF Transits
  <2>1. EndTransit
    <3>1. ~StartRun
      BY DEF StartRun, Update, saveVars
    <3>2. ASSUME NEW s, SetNext(s) PROVE FALSE
      BY <3>2 DEF SetNext, saveVars
    <3>3. ~BlockTask
      BY DEF BlockTask, Run, HandleReboot, BeginSave, Tick, WriteKey, WriteFails, saveVars
    <3>4. ~StoreRestart
      BY DEF StoreRestart, Restart
    <3>5. QED
      BY <3>1, <3>2, <3>3, <3>4 DEF StoreNext, HandleState, Ask
  <2>2. QED
    BY <2>1 DEF EndTransit, FsmIInv, StoreInv
<1>2. QED
  BY <1>1, FsmInvariant, PTL DEF StoreSpec, LeavesHandledState

\* An orderly reboot loses nothing but the fraction of an interval under way, if its save
\* and the reads of the next start succeed.
THEOREM OrderlyRebootKeepsBlock == StoreSpec => RebootKeepsBlock
<1> DEFINE Kept == saver = "saved" /\ saver' # "saved" /\ loaded' = Len(Keys)
     => /\ prev_state' = prev_state /\ prev_state_dur' = prev_state_dur
        /\ curr_state' = curr_state /\ write_count' = write_count
        /\ saved_ts' = Duration /\ curr_state_dur' = Duration
<1>1. FsmIInv /\ [StoreNext]_allVars => [Kept]_blockVars
  <2> SUFFICES ASSUME FsmIInv, StoreNext, saver = "saved", saver' # "saved", loaded' = Len(Keys)
               PROVE  /\ prev_state' = prev_state /\ prev_state_dur' = prev_state_dur
                      /\ curr_state' = curr_state /\ write_count' = write_count
                      /\ saved_ts' = Duration /\ curr_state_dur' = Duration
    BY DEF allVars
  <2>1. StoreRestart
    <3>1. ~StartRun /\ ~EndTransit
      BY DEF StartRun, Update, EndTransit, Idle
    <3>2. ASSUME NEW s, SetNext(s) PROVE FALSE
      BY <3>2 DEF SetNext, Idle
    <3>3. ~BlockTask
      BY DEF BlockTask, Run, HandleReboot, Tick, WriteKey, WriteFails, Idle
    <3>4. QED
      BY <3>1, <3>2, <3>3 DEF StoreNext, HandleState, Ask
  <2>2. PICK n \in 0..5 : Restart(n)
    BY <2>1, KeysLemma DEF StoreRestart
  <2>3. n = 5 /\ saved_ts' = nvs["curr_state_dur"]
    BY <2>2, KeysLemma DEF Restart
  <2>4. BlockIInv
    BY DEF FsmIInv, BlockIInv
  <2>5. /\ nvs["write_count"] = write_count
        /\ nvs["prev_state"] = prev_state /\ nvs["prev_state_dur"] = prev_state_dur
        /\ nvs["curr_state"] = curr_state /\ nvs["curr_state_dur"] = curr_state_dur
        /\ curr_state_dur = Duration
    BY DEF FsmIInv, RebootInv
  <2>6. QED
    BY <2>2, <2>3, <2>4, <2>5, ReadLemma
<1>2. QED
  BY <1>1, FsmInvariant, PTL DEF StoreSpec, RebootKeepsBlock
=============================================================================
