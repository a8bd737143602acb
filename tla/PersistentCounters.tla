-------------------------- MODULE PersistentCounters --------------------------
(***************************************************************************)
(* The counters a device keeps over restarts: the uptime, a                *)
(* MemPersistentCounter that should survive an ordered reboot only, and    *)
(* the lifetime, an AccPersistentCounter that should survive a power cut   *)
(* as well and is therefore saved by a task of the PeriodicTaskScheduler.  *)
(* Both count the time since boot (TimeCounter) in units of the resolution *)
(* on top of the value read at startup.                                    *)
(*                                                                         *)
(* Startup and reboot are sequences of accesses to NVS, each of which may  *)
(* fail, and the power may go between any two of them.                     *)
(***************************************************************************)
EXTENDS Integers

CONSTANTS
  Resolution,  \* ticks per unit counted (a second)
  Period,      \* ticks between two saves of the lifetime (an hour)
  MaxLived     \* bound: ticks a device lives

ASSUME CountersAssumption ==
  Resolution \in Nat \ {0} /\ Period \in Nat \ {0} /\ MaxLived \in Nat \ {0}

Counter == {"uptime", "lifetime"}
NotStored == -1

VARIABLES
  phase,    \* which access to NVS is next, or "running"
  now,      \* the clock: ticks since boot
  start,    \* start_ of the lifetime task's RateLimiter
  looped,   \* the scheduler has run in this tick
  base,     \* value_ of the counters
  stored,   \* their keys in NVS
  \* History, for the properties.
  lived,    \* ticks the device was ever on
  missed,   \* ticks the lifetime may lack at the latest startup
  faulty    \* a read or a write has failed

counterVars == <<phase, now, start, looped, base, stored, lived, missed, faulty>>

CounterTypeOK ==
  /\ phase \in {"read_uptime", "erase_uptime", "read_lifetime", "running",
                "save_uptime", "save_lifetime", "restart"}
  /\ now \in 0..MaxLived /\ start \in 0..MaxLived
  /\ looped \in BOOLEAN /\ faulty \in BOOLEAN
  /\ base \in [Counter -> Nat] /\ stored \in [Counter -> Nat \cup {NotStored}]
  /\ lived \in now..MaxLived /\ missed \in 0..MaxLived

\* TimeCounter::get on top of the value read at startup.
Get(c) == base[c] + now \div Resolution

\* RateLimiter::allow: zero is the time of no call, whether there was one or not.
\* Mutant: the interval is off by one.
Allow_late == start # 0 => now - start > Period
Allow == start # 0 => now - start >= Period

CounterInit ==
  /\ phase = "read_uptime"
  /\ now = 0 /\ start = 0 /\ looped = FALSE
  /\ base = [c \in Counter |-> 0] /\ stored = [c \in Counter |-> NotStored]
  /\ lived = 0 /\ missed = 0 /\ faulty = FALSE

Goto(p) == phase' = p

\* BasicPersistentCounter: value_ stays zero if the key is absent or unreadable.
Read(c) == \/ /\ base' = [base EXCEPT ![c] = IF stored[c] = NotStored THEN 0 ELSE stored[c]]
              /\ UNCHANGED faulty
           \/ base' = [base EXCEPT ![c] = 0] /\ faulty' = TRUE

ReadUptime == /\ phase = "read_uptime" /\ Goto("erase_uptime")
              /\ Read("uptime")
              /\ UNCHANGED <<now, start, looped, stored, lived, missed>>

\* MemPersistentCounter: an error is logged.
EraseUptime == /\ phase = "erase_uptime" /\ Goto("read_lifetime")
               /\ \/ /\ stored' = [stored EXCEPT !["uptime"] = NotStored]
                     /\ UNCHANGED faulty
                  \/ UNCHANGED stored /\ faulty' = TRUE
               /\ UNCHANGED <<now, start, looped, base, lived, missed>>

ReadLifetime == /\ phase = "read_lifetime" /\ Goto("running")
                /\ Read("lifetime")
                /\ UNCHANGED <<now, start, looped, stored, lived, missed>>

\* BasicPersistentCounter::save_; nvs_commit may fail when the value is stored.
\* Mutant: the value of the startup is added once more.
Save_twice(c) == /\ stored' = [stored EXCEPT ![c] = base[c] + Get(c)]
                 /\ UNCHANGED faulty
Save(c) == \/ /\ stored' = [stored EXCEPT ![c] = Get(c)]
              /\ faulty' \in {faulty, TRUE}
           \/ UNCHANGED stored /\ faulty' = TRUE

\* PeriodicTaskScheduler::run: the limiter of the node decides.
LoopSaves == /\ phase = "running" /\ ~looped /\ Allow
             /\ start' = now /\ looped' = TRUE
             /\ Save("lifetime")
             /\ UNCHANGED <<phase, now, base, lived, missed>>
LoopSkips == /\ phase = "running" /\ ~looped /\ ~Allow
             /\ looped' = TRUE
             /\ UNCHANGED <<phase, now, start, base, stored, lived, missed, faulty>>

\* vTaskDelay: the loop comes round at least once per tick.
Tick == /\ phase = "running" /\ looped /\ lived < MaxLived
        /\ now' = now + 1 /\ lived' = lived + 1 /\ looped' = FALSE
        /\ UNCHANGED <<phase, start, base, stored, missed, faulty>>

\* RebootTask, from the same loop: FanoutRebootHandler in the order of add.
BeginReboot == /\ phase = "running" /\ Goto("save_uptime")
               /\ UNCHANGED <<now, start, looped, base, stored, lived, missed, faulty>>
SaveUptime == /\ phase = "save_uptime" /\ Goto("save_lifetime")
              /\ Save("uptime")
              /\ UNCHANGED <<now, start, looped, base, lived, missed>>
SaveLifetime == /\ phase = "save_lifetime" /\ Goto("restart")
                /\ Save("lifetime")
                /\ UNCHANGED <<now, start, looped, base, lived, missed>>

\* The device starts again; lacking is what the lifetime may have lost by that.
Boot(lacking) ==
  /\ Goto("read_uptime")
  /\ now' = 0 /\ start' = 0 /\ looped' = FALSE
  /\ missed' = IF missed + lacking > MaxLived THEN MaxLived ELSE missed + lacking
  /\ base' = [c \in Counter |-> 0]
  /\ UNCHANGED <<stored, lived, faulty>>

\* esp_restart: a fraction of a unit is lost.
Restart == phase = "restart" /\ Boot(Resolution - 1)

\* The power goes: what was counted since the last save is lost too.
PowerCut == Boot(Period + Resolution - 1)

Startup == ReadUptime \/ EraseUptime \/ ReadLifetime
Loop    == LoopSaves \/ LoopSkips \/ Tick
Reboot  == BeginReboot \/ SaveUptime \/ SaveLifetime \/ Restart
CounterNext == Startup \/ Loop \/ Reboot \/ PowerCut

CounterSpec == CounterInit /\ [][CounterNext]_counterVars

-----------------------------------------------------------------------------
(* Properties *)

\* No sequence of restarts, power cuts, failed reads, writes and erases makes a
\* counter exceed the time the device was really on.
NotInflated ==
  \A c \in Counter : /\ phase = "running" => Resolution * Get(c) <= lived
                     /\ Resolution * stored[c] <= lived

\* Unless a read or a write fails, the lifetime lacks at most a fraction of a unit
\* per restart, and what a Period counts per power cut.
LossBounded ==
  phase = "running" /\ ~faulty =>
    lived - Resolution * Get("lifetime") < missed + Resolution
=============================================================================
