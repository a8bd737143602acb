------------------------------ MODULE AsyncFunc ------------------------------
(***************************************************************************)
(* AsyncFuncScheduler, Future and Cond: how any task has a function run on *)
(* the main task and waits for its status.                                 *)
(*                                                                         *)
(* A caller adds a function to the write queue and waits on the future it  *)
(* gets; the main task periodically swaps the queues, runs the functions   *)
(* of the read queue and notifies their futures.  Cond is built on the one *)
(* notification counter each FreeRTOS task has: the counter is shared by   *)
(* every condition variable the task ever waits on, and a caller that gives *)
(* up leaves its handle in the queue of the condition variable, so that    *)
(* notifications reach tasks that wait for something else.                 *)
(*                                                                         *)
(* A step is what a task does between two points where another task can    *)
(* interfere: the sections under AsyncFuncScheduler::mu_ and the ones a    *)
(* caller runs under Future::mu_ are atomic, a broadcast holds Future::mu_ *)
(* over several steps, as a task it wakes may preempt it.                  *)
(***************************************************************************)
EXTENDS Integers, Sequences, FiniteSets

CONSTANTS Caller,         \* the tasks that call (the HTTP server, ...)
          NoCaller,       \* owner of a function nobody waits for
          MaxEventCount,  \* max_event_count_
          MaxCalls,       \* bound: functions added in one behaviour
          Result          \* status codes the functions may return

ASSUME CallersAssumption == NoCaller \notin Caller
ASSUME BoundsAssumption  == MaxEventCount \in Nat \ {0} /\ MaxCalls \in Nat \ {0}
ASSUME ResultAssumption  == {"Last", "none", "expired"} \cap Result = {}

\* Every function added has a Future of its own, named by its ticket.
Ticket == 1..MaxCalls

\* Each call to Future::wait brings its limit: the requests for the sensors have
\* one, the request for a reboot (AsyncFunc, by default portMAX_DELAY) has none.
\* The HTTP server task makes both kinds, one after the other.
Limit == {"finite", "forever"}

VARIABLES
  write_queue, read_queue,  \* AsyncFuncScheduler's two queues, of tickets
  pos,                      \* index in read_queue of the function at hand
  epc,                      \* where the main task is in AsyncFuncScheduler::run
  fn_result,                \* what func() returned, before notify() stores it
  added,                    \* tickets handed out
  owner,                    \* who asked for each ticket
  limit,                    \* the limit it waits with
  code,                     \* Future::code_
  tasks,                    \* Cond::tasks_ of each Future's condition variable
  runs,                     \* history: how often each function ran
  pc, ticket,               \* where each caller is, and the future it waits on
  notified,                 \* FreeRTOS notification count of each caller
  answer                    \* history: what each request returned to its caller

queueVars  == <<write_queue, read_queue, pos, epc, fn_result, added, owner, limit, runs>>
futureVars == <<code, tasks>>
callerVars == <<pc, ticket, notified, answer>>
vars == <<queueVars, futureVars, callerVars>>

Init == /\ write_queue = <<>> /\ read_queue = <<>>
        /\ pos = 1 /\ epc = "idle" /\ fn_result = "Last"
        /\ added = 0
        /\ owner    = [t \in Ticket |-> NoCaller]
        /\ limit    = [t \in Ticket |-> "forever"]
        /\ code     = [t \in Ticket |-> "Last"]
        /\ tasks    = [t \in Ticket |-> <<>>]
        /\ runs     = [t \in Ticket |-> 0]
        /\ pc       = [c \in Caller |-> "idle"]
        /\ ticket   = [c \in Caller |-> 1]
        /\ notified = [c \in Caller |-> 0]
        /\ answer   = [t \in Ticket |-> "none"]

-----------------------------------------------------------------------------
(* AsyncFuncScheduler::add, under AsyncFuncScheduler::mu_. *)

\* Mutant: the capacity is not checked.
HasRoom_unbounded == added < MaxCalls
HasRoom == Len(write_queue) # MaxEventCount /\ added < MaxCalls

Push(o) == /\ added' = added + 1
           /\ write_queue' = Append(write_queue, added + 1)
           /\ owner' = [owner EXCEPT ![added + 1] = o]

\* A caller has its function accepted and goes on to Future::wait(l).
Add(c, l) == /\ pc[c] = "idle"
             /\ HasRoom
             /\ Push(c)
             /\ limit' = [limit EXCEPT ![added + 1] = l]
             /\ pc' = [pc EXCEPT ![c] = "wait"]
             /\ ticket' = [ticket EXCEPT ![c] = added + 1]
             /\ UNCHANGED <<read_queue, pos, epc, fn_result, runs, futureVars,
                            notified, answer>>

\* The queue is full: add returns no future, AsyncFunc::run InvalidState.
AddRefused(c) == /\ pc[c] = "idle"
                 /\ Len(write_queue) = MaxEventCount
                 /\ UNCHANGED vars

-----------------------------------------------------------------------------
(* Future::wait and Cond::wait, in the calling task. *)

\* Future::mu_ is held by the main task for as long as it broadcasts.
Current   == read_queue[pos]
Locked(t) == epc = "broadcast" /\ Current = t

\* Cond::append_task_.  Mutant: the task does not queue its handle.
QueueHandle_never(t, c) == tasks
QueueHandle(t, c) == [tasks EXCEPT ![t] = Append(@, c)]

\* Mutant: Future::wait tests the code once, with an if.
Check_once(c) == LET t == ticket[c] IN
  /\ pc[c] \in {"wait", "woken"}
  /\ ~Locked(t)
  /\ \/ /\ pc[c] = "wait" /\ code[t] = "Last"
        /\ tasks' = QueueHandle(t, c)
        /\ pc' = [pc EXCEPT ![c] = "blocked"]
     \/ /\ pc[c] = "woken" \/ code[t] # "Last"
        /\ pc' = [pc EXCEPT ![c] = "ready"]
        /\ UNCHANGED tasks
  /\ UNCHANGED <<queueVars, code, ticket, notified, answer>>

\* The head of the while loop, with the lock held: the result is there, or the
\* task queues its handle and releases the lock.
Check(c) == LET t == ticket[c] IN
  /\ pc[c] \in {"wait", "woken"}
  /\ ~Locked(t)
  /\ \/ /\ code[t] = "Last"
        /\ tasks' = QueueHandle(t, c)
        /\ pc' = [pc EXCEPT ![c] = "blocked"]
     \/ /\ code[t] # "Last"
        /\ pc' = [pc EXCEPT ![c] = "ready"]
        /\ UNCHANGED tasks
  /\ UNCHANGED <<queueVars, code, ticket, notified, answer>>

\* Mutant: the notification is seen but not consumed.
Take_peeks(c) == /\ pc[c] = "blocked"
                 /\ notified[c] > 0
                 /\ pc' = [pc EXCEPT ![c] = "woken"]
                 /\ UNCHANGED <<queueVars, futureVars, ticket, notified, answer>>

\* ulTaskNotifyTake(pdTRUE, wait): any notification will do, all are consumed.
Take(c) == /\ pc[c] = "blocked"
           /\ notified[c] > 0
           /\ notified' = [notified EXCEPT ![c] = 0]
           /\ pc' = [pc EXCEPT ![c] = "woken"]
           /\ UNCHANGED <<queueVars, futureVars, ticket, answer>>

\* Mutant: portMAX_DELAY is taken for a finite wait.
TakeTimeout_always(c) == /\ pc[c] = "blocked"
                         /\ notified[c] = 0
                         /\ pc' = [pc EXCEPT ![c] = "late"]
                         /\ UNCHANGED <<queueVars, futureVars, ticket, notified, answer>>

\* ulTaskNotifyTake times out; the handle stays in tasks_.
TakeTimeout(c) == /\ pc[c] = "blocked"
                  /\ limit[ticket[c]] = "finite"
                  /\ notified[c] = 0
                  /\ pc' = [pc EXCEPT ![c] = "late"]
                  /\ UNCHANGED <<queueVars, futureVars, ticket, notified, answer>>

\* Cond::wait takes the lock again and reports the timeout, even when the result
\* came in between.
GiveUp(c) == LET t == ticket[c] IN
  /\ pc[c] = "late"
  /\ ~Locked(t)
  /\ answer' = [answer EXCEPT ![t] = "expired"]
  /\ pc' = [pc EXCEPT ![c] = "idle"]
  /\ UNCHANGED <<queueVars, futureVars, ticket, notified>>

\* Future::code, once Future::wait returned OK.
Return(c) == LET t == ticket[c] IN
  /\ pc[c] = "ready"
  /\ ~Locked(t)
  /\ answer' = [answer EXCEPT ![t] = code[t]]
  /\ pc' = [pc EXCEPT ![c] = "idle"]
  /\ UNCHANGED <<queueVars, futureVars, ticket, notified>>

-----------------------------------------------------------------------------
(* AsyncFuncScheduler::run, on the main task. *)

RunEmpty == /\ epc = "idle"
            /\ write_queue = <<>>
            /\ UNCHANGED vars

Swap == /\ epc = "idle"
        /\ write_queue # <<>>
        /\ read_queue' = write_queue
        /\ write_queue' = read_queue
        /\ epc' = "call"
        /\ pos' = 1
        /\ UNCHANGED <<fn_result, added, owner, limit, runs, futureVars, callerVars>>

\* func() runs without any lock held; it may itself add a function.
Ran(r) == /\ epc = "call"
          /\ fn_result' = r
          /\ runs' = [runs EXCEPT ![Current] = @ + 1]
          /\ epc' = "notify"
          /\ UNCHANGED <<read_queue, pos, limit, futureVars, callerVars>>

Call(r) == Ran(r) /\ UNCHANGED <<write_queue, added, owner>>

CallReschedules(r) == Ran(r) /\ HasRoom /\ Push(NoCaller)

\* Future::notify, the lock just taken.
Notify == /\ epc = "notify"
          /\ code' = [code EXCEPT ![Current] = fn_result]
          /\ epc' = "broadcast"
          /\ UNCHANGED <<write_queue, read_queue, pos, fn_result, added, owner, limit,
                         runs, tasks, callerVars>>

\* Mutant: the handle is dropped and the task not notified.
Signal_drops == /\ epc = "broadcast"
                /\ tasks[Current] # <<>>
                /\ tasks' = [tasks EXCEPT ![Current] = Tail(@)]
                /\ UNCHANGED <<queueVars, code, callerVars>>

\* Cond::broadcast wakes the waiting tasks one by one.
Signal == /\ epc = "broadcast"
          /\ tasks[Current] # <<>>
          /\ notified' = [notified EXCEPT ![Head(tasks[Current])] = @ + 1]
          /\ tasks' = [tasks EXCEPT ![Current] = Tail(@)]
          /\ UNCHANGED <<queueVars, code, pc, ticket, answer>>

\* run goes on with the next function ...
NextFunction == /\ pos < Len(read_queue)
                /\ pos' = pos + 1
                /\ epc' = "call"
                /\ UNCHANGED read_queue

\* ... or clears the queue and returns.  Mutant: the queue is not cleared.
ClearQueue_forgotten == /\ pos = Len(read_queue)
                        /\ pos' = 1
                        /\ epc' = "idle"
                        /\ UNCHANGED read_queue
ClearQueue == /\ pos = Len(read_queue)
              /\ pos' = 1
              /\ epc' = "idle"
              /\ read_queue' = <<>>

\* Mutant: the first function that fails ends the run.
Done_onError == /\ epc = "broadcast"
                /\ tasks[Current] = <<>>
                /\ fn_result' = "Last"
                /\ IF fn_result = "OK" /\ pos < Len(read_queue)
                   THEN NextFunction
                   ELSE epc' = "idle" /\ pos' = 1 /\ read_queue' = <<>>
                /\ UNCHANGED <<write_queue, added, owner, limit, runs, futureVars, callerVars>>

\* notify() returns and releases the lock.
Done == /\ epc = "broadcast"
        /\ tasks[Current] = <<>>
        /\ fn_result' = "Last"
        /\ NextFunction \/ ClearQueue
        /\ UNCHANGED <<write_queue, added, owner, limit, runs, futureVars, callerVars>>

-----------------------------------------------------------------------------
Main == \/ Swap
        \/ \E r \in Result : Call(r) \/ CallReschedules(r)
        \/ Notify
        \/ Signal
        \/ Done

\* A caller asks for a function, with a limit on its wait or without.
Ask(c) == \E l \in Limit : Add(c, l)

\* What a caller does once it has asked, up to its return.
Wait(c) == Check(c) \/ Take(c) \/ TakeTimeout(c) \/ GiveUp(c) \/ Return(c)

Next == \/ Main
        \/ RunEmpty
        \/ \E c \in Caller : Ask(c) \/ AddRefused(c) \/ Wait(c)

\* The main task loops for ever over the periodic scheduler, and FreeRTOS runs
\* every ready task: a task that can go on eventually does, and a finite wait
\* eventually ends.  Nobody is obliged to ask for anything.
Fairness == WF_vars(Main) /\ \A c \in Caller : WF_vars(Wait(c))

Spec == Init /\ [][Next]_vars /\ Fairness

-----------------------------------------------------------------------------
(* Properties. *)

Entries(s) == {s[i] : i \in DOMAIN s}

\* Type correctness of the queues, the futures and the callers, the capacity of both
\* queues included.
TypeOK ==
  /\ write_queue \in Seq(Ticket) /\ Len(write_queue) <= MaxEventCount
  /\ read_queue \in Seq(Ticket) /\ Len(read_queue) <= MaxEventCount
  /\ pos \in 1..MaxEventCount
  /\ epc \in {"idle", "call", "notify", "broadcast"}
  /\ fn_result \in Result \cup {"Last"}
  /\ added \in 0..MaxCalls
  /\ owner \in [Ticket -> Caller \cup {NoCaller}]
  /\ limit \in [Ticket -> Limit]
  /\ code \in [Ticket -> Result \cup {"Last"}]
  /\ tasks \in [Ticket -> Seq(Caller)]
  /\ runs \in [Ticket -> Nat]
  /\ pc \in [Caller -> {"idle", "wait", "blocked", "woken", "late", "ready"}]
  /\ ticket \in [Caller -> Ticket]
  /\ notified \in [Caller -> Nat]
  /\ answer \in [Ticket -> Result \cup {"none", "expired"}]

\* The functions that were started, and those whose future was notified, are
\* always the first so many that were added.
Before   == added - Len(write_queue) - Len(read_queue) + pos - 1
Started  == Before + (IF epc \in {"notify", "broadcast"} THEN 1 ELSE 0)
Finished == Before + (IF epc = "broadcast" THEN 1 ELSE 0)

\* Every function accepted by add() runs exactly once, in the order of the add()
\* calls, whoever waits for it and whatever is added or gives up meanwhile.
RunsOnceInOrder == \A t \in Ticket : runs[t] = IF t <= Started THEN 1 ELSE 0

\* A task asleep in Cond::wait on a future that already has its result has been
\* notified, or the broadcast that is going on has still to reach it.
NoLostWakeup == \A c \in Caller : LET t == ticket[c] IN
  pc[c] = "blocked" /\ code[t] # "Last"
    => notified[c] > 0 \/ (Locked(t) /\ c \in Entries(tasks[t]))

\* The task gave up waiting for a function that has run since: its handle was left
\* in the queue of the condition variable, and the broadcast found it there.
Abandoned(c) == \E t \in Ticket :
  owner[t] = c /\ answer[t] = "expired" /\ code[t] # "Last"

\* All condition variables of a task share its notification counter, so a wait may
\* end before its result is there, but only for a task that gave up another one.
StrayWakeupsExplained == \A c \in Caller :
  /\ pc[c] = "woken" \/ (pc[c] = "blocked" /\ notified[c] > 0)
  /\ code[ticket[c]] = "Last"
  => Abandoned(c)

\* What a function captures from the stack of its caller (the handlers' JSON
\* document, the request and the response) is there until the function has run, as
\* its caller still waits: whatever notifications of abandoned requests wake it,
\* only a caller with a time limit leaves before, and knows that it gives up.
CapturesAlive == \A t \in Ticket : owner[t] \in Caller /\ Finished < t =>
  \/ ticket[owner[t]] = t /\ pc[owner[t]] # "idle"
  \/ limit[t] = "finite" /\ answer[t] = "expired"

\* The service AsyncCall describes is what this code implements.
Promise == INSTANCE AsyncCall WITH
  accepted <- added, started <- Started, finished <- Finished, result <- code
KeepsPromise == Promise!CallSpec

\* A caller is answered, with or without a limit on its wait, also when abandoned
\* requests wake it early.
EveryCallerAnswered == \A c \in Caller : pc[c] # "idle" ~> pc[c] = "idle"

\* An accepted function is run and its future notified, even when its caller
\* has given up.
EveryFunctionFinishes == \A t \in Ticket : t <= added ~> code[t] # "Last"
=============================================================================
