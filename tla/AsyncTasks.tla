------------------------------ MODULE AsyncTasks ------------------------------
(***************************************************************************)
(* AsyncTaskScheduler: tasks that timers ask for and one loop runs.        *)
(*                                                                         *)
(* Every task has a bit of one event group and a periodic                  *)
(* HighResolutionTimer whose callback, an AsyncTask run by the timer task  *)
(* of ESP-IDF, sets it.  The loop waits for any bit, takes and clears all  *)
(* that are set, and runs their tasks in the order of registration; timers *)
(* fire meanwhile.                                                         *)
(***************************************************************************)
EXTENDS Naturals, FiniteSets

CONSTANTS
  Task,      \* the tasks, numbers: the order of registration is theirs
  MaxCount   \* AsyncTaskScheduler::max_count(), the bits of an event group

ASSUME TasksAssumption == Task \subseteq Nat /\ IsFiniteSet(Task) /\ MaxCount \in Nat

VARIABLES
  nodes,     \* the tasks registered
  ticking,   \* those whose timer runs
  bits,      \* event_group_
  pass,      \* the tasks the loop has still to run, of the bits it took
  loop,      \* what the loop does: "stopped", "starting", "waiting" or "running"
  owed       \* history: timers that fired after the latest run of their task began

taskVars == <<nodes, ticking, bits, pass, loop, owed>>

TasksTypeOK ==
  /\ nodes \subseteq Task /\ Cardinality(nodes) <= MaxCount
  /\ ticking \subseteq nodes /\ bits \subseteq nodes /\ pass \subseteq nodes
  /\ loop \in {"stopped", "starting", "waiting", "running"}
  /\ owed \subseteq nodes

TasksInit == /\ nodes = {} /\ ticking = {} /\ bits = {} /\ pass = {}
             /\ loop = "stopped" /\ owed = {}

\* AsyncTaskScheduler::add; registered again, or one too many, a task is refused.
AddTask(t) ==
  /\ loop = "stopped"
  /\ t \notin nodes /\ Cardinality(nodes) < MaxCount
  /\ nodes' = nodes \cup {t}
  /\ UNCHANGED <<ticking, bits, pass, loop, owed>>

\* AsyncTaskScheduler::start, its first loop: every task is run once ...
StartTasks == /\ loop = "stopped" /\ nodes # {}
              /\ loop' = "starting" /\ pass' = nodes
              /\ UNCHANGED <<nodes, ticking, bits, owed>>

\* ... and its second: the timers are started, each of which may fail.
StartTimers == /\ loop = "starting" /\ pass = {}
               /\ \E failed \in SUBSET nodes : ticking' = ticking \cup (nodes \ failed)
               /\ loop' = "waiting"
               /\ UNCHANGED <<nodes, bits, pass, owed>>

\* AsyncTaskScheduler::stop, between two runs of the loop; the bits stay.
StopTasks == /\ loop = "waiting"
             /\ \E failed \in SUBSET ticking : ticking' = failed
             /\ loop' = "stopped"
             /\ UNCHANGED <<nodes, bits, pass, owed>>

\* HighResolutionTimer::handle_cb_ and AsyncTask::run, on the timer task.
Fire(t) == /\ t \in ticking
           /\ bits' = bits \cup {t} /\ owed' = owed \cup {t}
           /\ UNCHANGED <<nodes, ticking, pass, loop>>

\* xEventGroupWaitBits: any bit, all of them taken and cleared at once.
TakeBits == /\ loop = "waiting" /\ bits # {}
            /\ loop' = "running" /\ pass' = bits /\ bits' = {}
            /\ UNCHANGED <<nodes, ticking, owed>>

\* run_ comes to the next task; its result is only logged.
IsFirst(t) == t \in pass /\ \A u \in pass : t <= u
RunTask(t) == /\ IsFirst(t)
              /\ pass' = pass \ {t} /\ owed' = owed \ {t}
              /\ UNCHANGED <<nodes, ticking, bits, loop>>

\* The pass is over.  Mutant: the bits set meanwhile are cleared now.
PassEnds_clears == /\ loop = "running" /\ pass = {}
                   /\ loop' = "waiting" /\ bits' = {}
                   /\ UNCHANGED <<nodes, ticking, pass, owed>>
PassEnds == /\ loop = "running" /\ pass = {}
            /\ loop' = "waiting"
            /\ UNCHANGED <<nodes, ticking, bits, pass, owed>>

Scheduler == StartTimers \/ TakeBits \/ PassEnds \/ \E t \in Task : RunTask(t)

TasksNext == \/ Scheduler \/ StartTasks \/ StopTasks
             \/ \E t \in Task : AddTask(t) \/ Fire(t)

\* The loop is run by the task of the application as long as it is started.
TasksFairness == WF_taskVars(Scheduler)

TasksSpec == TasksInit /\ [][TasksNext]_taskVars /\ TasksFairness

-----------------------------------------------------------------------------
(* Properties *)

\* No event is lost: a timer that fired has its bit set, or its task is among those
\* this pass has still to run, whatever else fires, starts and stops meanwhile.
EventsKept == owed \subseteq bits \cup pass

\* A task whose timer fired is run, or the scheduler is stopped.
FiredTaskRuns == \A t \in Task : t \in owed ~> (t \notin owed \/ loop = "stopped")
=============================================================================
