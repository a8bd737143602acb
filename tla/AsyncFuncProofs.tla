--------------------------- MODULE AsyncFuncProofs ---------------------------
(***************************************************************************)
(* Proofs about AsyncFunc, for any callers, capacity and number of calls.  *)
(* The inductive invariant IInv is the conjunction of the parts below; each *)
(* part has a lemma that says every step preserves it.                     *)
(***************************************************************************)
EXTENDS AsyncFunc, TLAPS

-----------------------------------------------------------------------------
(* Sequences. *)

\* Appending to a sequence adds one entry, at its end.
LEMMA AppendLemma ==
  ASSUME NEW S, NEW s \in Seq(S), NEW e \in S
  PROVE  /\ Append(s, e) \in Seq(S)
         /\ Len(Append(s, e)) = Len(s) + 1
         /\ \A i \in 1..Len(s) : Append(s, e)[i] = s[i]
         /\ Append(s, e)[Len(s) + 1] = e
         /\ Entries(Append(s, e)) = Entries(s) \cup {e}
<1>1. /\ Append(s, e) \in Seq(S)
      /\ Len(Append(s, e)) = Len(s) + 1
      /\ \A i \in 1..Len(s) : Append(s, e)[i] = s[i]
      /\ Append(s, e)[Len(s) + 1] = e
  OBVIOUS
<1>2. DOMAIN s = 1..Len(s) /\ DOMAIN Append(s, e) = 1..(Len(s) + 1)
  OBVIOUS
<1>3. Len(s) \in Nat
  OBVIOUS
<1>4. Entries(Append(s, e)) = Entries(s) \cup {e}
  BY <1>1, <1>2, <1>3 DEF Entries
<1> QED
  BY <1>1, <1>4

\* Removing the head of a sequence removes at most its first entry.
LEMMA TailLemma ==
  ASSUME NEW S, NEW s \in Seq(S), s # <<>>
  PROVE  /\ Head(s) \in S
         /\ Tail(s) \in Seq(S)
         /\ Len(Tail(s)) = Len(s) - 1
         /\ Entries(s) = {Head(s)} \cup Entries(Tail(s))
<1>1. /\ Head(s) \in S /\ Tail(s) \in Seq(S)
      /\ Len(s) \in Nat \ {0}
      /\ Len(Tail(s)) = Len(s) - 1
      /\ Head(s) = s[1]
      /\ \A i \in 1..(Len(s) - 1) : Tail(s)[i] = s[i + 1]
  OBVIOUS
<1>2. DOMAIN s = 1..Len(s) /\ DOMAIN Tail(s) = 1..(Len(s) - 1)
  OBVIOUS
<1>3. \A x : x \in Entries(s) => x \in {Head(s)} \cup Entries(Tail(s))
  <2> SUFFICES ASSUME NEW i \in 1..Len(s), i # 1
               PROVE  s[i] \in Entries(Tail(s))
    BY <1>1, <1>2 DEF Entries
  <2>1. i - 1 \in 1..(Len(s) - 1) /\ Tail(s)[i - 1] = s[i]
    BY <1>1
  <2> QED BY <2>1, <1>2 DEF Entries
<1>4. \A x : x \in {Head(s)} \cup Entries(Tail(s)) => x \in Entries(s)
  <2>1. Head(s) \in Entries(s)
    BY <1>1, <1>2 DEF Entries
  <2>2. ASSUME NEW i \in 1..(Len(s) - 1) PROVE Tail(s)[i] \in Entries(s)
    BY <1>1, <1>2 DEF Entries
  <2> QED BY <2>1, <2>2, <1>2 DEF Entries
<1> QED
  BY <1>1, <1>3, <1>4

-----------------------------------------------------------------------------
(* The parts of the inductive invariant. *)

\* The write queue holds the latest tickets and the read queue the ones before,
\* and the main task is at one of the latter unless it is idle.
QueueOrder ==
  /\ Len(write_queue) + Len(read_queue) <= added
  /\ \A i \in 1..Len(write_queue) : write_queue[i] = added - Len(write_queue) + i
  /\ \A i \in 1..Len(read_queue) :
        read_queue[i] = added - Len(write_queue) - Len(read_queue) + i
  /\ epc = "idle" => read_queue = <<>> /\ pos = 1
  /\ epc # "idle" => pos <= Len(read_queue)
  /\ epc \in {"notify", "broadcast"} => fn_result \in Result

\* A future has its result exactly when its function has finished.
CodeOrder == \A t \in Ticket : code[t] # "Last" <=> t <= Finished

\* A caller that is not idle waits for a request of its own, not yet answered.
Waiting == \A c \in Caller :
  /\ pc[c] # "idle" => /\ ticket[c] <= added
                       /\ owner[ticket[c]] = c
                       /\ answer[ticket[c]] = "none"
  /\ pc[c] = "late" => limit[ticket[c]] = "finite"
  /\ pc[c] = "ready" => code[ticket[c]] # "Last"

\* Tickets not handed out yet are untouched.
Unused == \A t \in Ticket : added < t =>
  tasks[t] = <<>> /\ answer[t] = "none" /\ owner[t] = NoCaller

\* Only the task that asked for a function is ever queued on its future.
OwnHandles == \A t \in Ticket : Entries(tasks[t]) \subseteq {owner[t]}

\* A task asleep in Cond::wait is queued or notified.
Reachable == \A c \in Caller :
  pc[c] = "blocked" => c \in Entries(tasks[ticket[c]]) \/ notified[c] > 0

\* Cond::broadcast leaves nobody behind: a notified future has no task queued,
\* so its condition variable can be destroyed with it.
NoHandleLeft == \A t \in Ticket : code[t] # "Last" /\ ~Locked(t) => tasks[t] = <<>>

\* As long as no function it gave up has run, a task is queued on the future it waits
\* for only, once and not yet notified, and on those it gave up.
QueuedOnce == \A t \in Ticket : LET c == owner[t] IN
  c \in Caller /\ ~Abandoned(c) /\ tasks[t] # <<>> =>
    \/ answer[t] = "expired"
    \/ /\ Len(tasks[t]) = 1 /\ ticket[c] = t
       /\ pc[c] \in {"blocked", "late"} /\ notified[c] = 0

\* Until then it is notified only of the result it waits for.
Calm == \A c \in Caller : ~Abandoned(c) =>
  /\ notified[c] > 0 => pc[c] \in {"blocked", "late"}
  /\ notified[c] > 0 \/ pc[c] = "woken" => code[ticket[c]] # "Last"

IInv == /\ TypeOK /\ QueueOrder /\ RunsOnceInOrder /\ CodeOrder
        /\ Waiting /\ Unused /\ OwnHandles /\ NoHandleLeft
        /\ Reachable /\ QueuedOnce /\ Calm /\ CapturesAlive

-----------------------------------------------------------------------------
(* What the main task is at, and how far it has come. *)

\* The main task is at the oldest function that has not finished.
LEMMA CurrentLemma ==
  ASSUME TypeOK, QueueOrder
  PROVE  /\ Before \in Nat /\ Started \in Nat /\ Finished \in Nat
         /\ Before <= added
         /\ epc # "idle" => /\ Current \in Ticket /\ Current = Before + 1
                            /\ Current <= added
                            /\ pos \in 1..Len(read_queue)
         /\ Len(write_queue) \in Nat /\ Len(read_queue) \in Nat
<1>1. /\ Len(write_queue) \in Nat /\ Len(read_queue) \in Nat
      /\ added \in Nat /\ pos \in Nat \ {0}
  BY BoundsAssumption DEF TypeOK
<1>2. CASE epc = "idle"
  <2>1. read_queue = <<>> /\ pos = 1 /\ Len(read_queue) = 0
    BY <1>2 DEF QueueOrder
  <2> QED BY <1>1, <1>2, <2>1 DEF QueueOrder, Before, Started, Finished
<1>3. CASE epc # "idle"
  <2>1. pos \in 1..Len(read_queue)
    BY <1>1, <1>3 DEF QueueOrder
  <2>2. Current \in Ticket
    BY <2>1 DEF TypeOK, Current
  <2>3. Current = Before + 1
    BY <1>1, <2>1 DEF QueueOrder, Current, Before
  <2> QED BY <1>1, <1>3, <2>1, <2>2, <2>3 DEF QueueOrder, Before, Started, Finished
<1> QED BY <1>2, <1>3

\* A step of a caller that waits leaves the scheduler alone.
LEMMA WaitLemma ==
  ASSUME NEW c \in Caller, Wait(c)
  PROVE  UNCHANGED <<queueVars, code>>
BY DEF Wait, Check, Take, TakeTimeout, GiveUp, Return, queueVars, futureVars

\* Adding a function puts its ticket at the end of the write queue.
LEMMA PushLemma ==
  ASSUME TypeOK, HasRoom, NEW o \in Caller \cup {NoCaller}, Push(o)
  PROVE  /\ added + 1 \in Ticket
         /\ write_queue' \in Seq(Ticket)
         /\ Len(write_queue') = Len(write_queue) + 1
         /\ Len(write_queue') <= MaxEventCount
         /\ \A i \in 1..Len(write_queue) : write_queue'[i] = write_queue[i]
         /\ write_queue'[Len(write_queue) + 1] = added + 1
<1>1. added + 1 \in Ticket
  BY BoundsAssumption DEF TypeOK, HasRoom, Ticket
<1>2. Len(write_queue) \in Nat /\ Len(write_queue) + 1 <= MaxEventCount
  BY BoundsAssumption DEF TypeOK, HasRoom
<1> QED
  BY <1>1, <1>2, AppendLemma DEF TypeOK, Push

-----------------------------------------------------------------------------
(* Every part is preserved by every step. *)

LEMMA TypeStep ==
  ASSUME TypeOK, QueueOrder, Waiting, Next
  PROVE  TypeOK'
<1> USE DEF TypeOK
<1>1. ASSUME NEW c \in Caller, Ask(c) PROVE TypeOK'
  <2>1. HasRoom /\ Push(c)
    BY <1>1 DEF Ask, Add
  <2>2. owner' \in [Ticket -> Caller \cup {NoCaller}]
    BY <2>1 DEF Push
  <2>3. write_queue' \in Seq(Ticket) /\ Len(write_queue') <= MaxEventCount
    BY <2>1, PushLemma
  <2>4. added' \in 0..MaxCalls /\ added + 1 \in Ticket
    <3>1. added + 1 \in Ticket
      BY <2>1, PushLemma
    <3>2. added' = added + 1
      BY <2>1 DEF Push
    <3> QED BY <3>1, <3>2, BoundsAssumption DEF Ticket
  <2>5. /\ pc' \in [Caller -> {"idle", "wait", "blocked", "woken", "late", "ready"}]
        /\ ticket' \in [Caller -> Ticket]
    BY <1>1, <2>4 DEF Ask, Add
  <2>6. limit' \in [Ticket -> Limit]
    BY <1>1 DEF Ask, Add
  <2> QED BY <1>1, <2>2, <2>3, <2>4, <2>5, <2>6 DEF Ask, Add, futureVars
<1>2. ASSUME NEW c \in Caller, AddRefused(c) PROVE TypeOK'
  BY <1>2 DEF AddRefused, vars, queueVars, futureVars, callerVars
<1>3. ASSUME NEW c \in Caller, Check(c) PROVE TypeOK'
  <2>1. tasks' \in [Ticket -> Seq(Caller)]
    <3>1. ticket[c] \in Ticket
      OBVIOUS
    <3>2. tasks[ticket[c]] \in Seq(Caller)
      BY <3>1
    <3>3. Append(tasks[ticket[c]], c) \in Seq(Caller)
      BY <3>2, AppendLemma
    <3> QED BY <1>3, <3>1, <3>3 DEF Check, QueueHandle
  <2>2. pc' \in [Caller -> {"idle", "wait", "blocked", "woken", "late", "ready"}]
    BY <1>3 DEF Check
  <2>3. UNCHANGED <<queueVars, code, ticket, notified, answer>>
    BY <1>3 DEF Check
  <2> QED BY <2>1, <2>2, <2>3 DEF queueVars
<1>4. ASSUME NEW c \in Caller, Take(c) \/ TakeTimeout(c) PROVE TypeOK'
  <2>1. pc' \in [Caller -> {"idle", "wait", "blocked", "woken", "late", "ready"}]
    <3>1. \/ pc' = [pc EXCEPT ![c] = "woken"]
          \/ pc' = [pc EXCEPT ![c] = "late"]
      BY <1>4 DEF Take, TakeTimeout
    <3> QED BY <3>1
  <2>2. notified' \in [Caller -> Nat]
    <3>1. CASE Take(c)
      BY <3>1 DEF Take
    <3>2. CASE TakeTimeout(c)
      BY <3>2 DEF TakeTimeout
    <3> QED BY <1>4, <3>1, <3>2
  <2>3. UNCHANGED <<queueVars, futureVars, ticket, answer>>
    BY <1>4 DEF Take, TakeTimeout
  <2> QED BY <2>1, <2>2, <2>3 DEF queueVars, futureVars
<1>5. ASSUME NEW c \in Caller, GiveUp(c) \/ Return(c) PROVE TypeOK'
  <2>1. pc' \in [Caller -> {"idle", "wait", "blocked", "woken", "late", "ready"}]
    <3>1. pc' = [pc EXCEPT ![c] = "idle"]
      BY <1>5 DEF GiveUp, Return
    <3> QED BY <3>1
  <2>2. answer' \in [Ticket -> Result \cup {"none", "expired"}]
    <3>1. CASE GiveUp(c)
      BY <3>1 DEF GiveUp
    <3>2. CASE Return(c)
      <4>1. code[ticket[c]] \in Result
        BY <3>2 DEF Return, Waiting
      <4> QED BY <3>2, <4>1 DEF Return
    <3> QED BY <1>5, <3>1, <3>2
  <2> QED BY <1>5, <2>1, <2>2 DEF GiveUp, Return, queueVars, futureVars
<1>6. CASE RunEmpty
  BY <1>6 DEF RunEmpty, vars, queueVars, futureVars, callerVars
<1>7. CASE Swap
  <2>1. pos' \in 1..MaxEventCount
    BY <1>7, BoundsAssumption DEF Swap
  <2> QED BY <1>7, <2>1 DEF Swap, futureVars, callerVars
<1>8. ASSUME NEW r \in Result, Ran(r), UNCHANGED <<write_queue, added, owner>>
      PROVE TypeOK'
  <2>1. Current \in Ticket
    BY <1>8, CurrentLemma DEF Ran
  <2> QED BY <1>8, <2>1 DEF Ran, futureVars, callerVars
<1>9. ASSUME NEW r \in Result, Ran(r), HasRoom, Push(NoCaller)
      PROVE TypeOK'
  <2>1. Current \in Ticket
    BY <1>9, CurrentLemma DEF Ran
  <2>2. runs' \in [Ticket -> Nat]
    BY <1>9, <2>1 DEF Ran
  <2>3. owner' \in [Ticket -> Caller \cup {NoCaller}]
    BY <1>9 DEF Push
  <2>4. write_queue' \in Seq(Ticket) /\ Len(write_queue') <= MaxEventCount
    BY <1>9, PushLemma
  <2>5. added' \in 0..MaxCalls
    <3>1. added + 1 \in Ticket
      BY <1>9, PushLemma
    <3>2. added' = added + 1
      BY <1>9 DEF Push
    <3> QED BY <3>1, <3>2, BoundsAssumption DEF Ticket
  <2> QED BY <1>9, <2>2, <2>3, <2>4, <2>5 DEF Ran, futureVars, callerVars
<1>10. CASE Notify
  <2>1. Current \in Ticket
    BY <1>10, CurrentLemma DEF Notify
  <2> QED BY <1>10, <2>1 DEF Notify, callerVars
<1>11. CASE Signal
  <2>1. Current \in Ticket
    BY <1>11, CurrentLemma DEF Signal
  <2>2. Head(tasks[Current]) \in Caller /\ Tail(tasks[Current]) \in Seq(Caller)
    <3>1. tasks[Current] \in Seq(Caller) /\ tasks[Current] # <<>>
      BY <1>11, <2>1 DEF Signal
    <3> QED BY <3>1, TailLemma
  <2>3. tasks' \in [Ticket -> Seq(Caller)]
    BY <1>11, <2>1, <2>2 DEF Signal
  <2>4. notified' \in [Caller -> Nat]
    <3> DEFINE h == Head(tasks[Current])
    <3>1. notified' = [notified EXCEPT ![h] = notified[h] + 1]
      BY <1>11 DEF Signal
    <3>2. h \in Caller /\ notified \in [Caller -> Nat]
      BY <2>2
    <3> HIDE DEF h, TypeOK
    <3> QED BY <3>1, <3>2
  <2> QED BY <1>11, <2>3, <2>4 DEF Signal, queueVars
<1>12. CASE Done
  <2>1. pos \in Nat /\ Len(read_queue) \in Nat
    BY CurrentLemma, BoundsAssumption
  <2>2. pos' \in 1..MaxEventCount
    <3>1. CASE NextFunction
      BY <3>1, <2>1, BoundsAssumption DEF NextFunction
    <3>2. CASE ClearQueue
      BY <3>2, BoundsAssumption DEF ClearQueue
    <3> QED BY <1>12, <3>1, <3>2 DEF Done
  <2>3. read_queue' \in Seq(Ticket) /\ Len(read_queue') <= MaxEventCount
    <3>1. <<>> \in Seq(Ticket) /\ Len(<<>>) <= MaxEventCount
      BY BoundsAssumption
    <3> QED BY <1>12, <3>1 DEF Done, NextFunction, ClearQueue
  <2>4. epc' \in {"idle", "call", "notify", "broadcast"}
    BY <1>12 DEF Done, NextFunction, ClearQueue
  <2> QED BY <1>12, <2>2, <2>3, <2>4 DEF Done, futureVars, callerVars
<1> QED
  BY <1>1, <1>2, <1>3, <1>4, <1>5, <1>6, <1>7, <1>8, <1>9, <1>10, <1>11, <1>12
  DEF Next, Main, Wait, Call, CallReschedules

LEMMA QueueStep ==
  ASSUME TypeOK, QueueOrder, Next
  PROVE  QueueOrder'
<1>0. /\ Len(write_queue) \in Nat /\ Len(read_queue) \in Nat
      /\ added \in Nat /\ pos \in Nat
      /\ epc \in {"idle", "call", "notify", "broadcast"}
  BY CurrentLemma, BoundsAssumption DEF TypeOK
<1>1. ASSUME NEW c \in Caller, Ask(c) PROVE QueueOrder'
  <2>1. HasRoom /\ Push(c)
    BY <1>1 DEF Ask, Add
  <2>2. /\ Len(write_queue') = Len(write_queue) + 1
        /\ \A i \in 1..Len(write_queue) : write_queue'[i] = write_queue[i]
        /\ write_queue'[Len(write_queue) + 1] = added + 1
    BY <2>1, PushLemma
  <2>3. /\ added' = added + 1
        /\ UNCHANGED <<read_queue, pos, epc, fn_result>>
    BY <1>1, <2>1 DEF Ask, Add, Push
  <2> QED BY <1>0, <2>2, <2>3 DEF QueueOrder
<1>2. ASSUME NEW c \in Caller, AddRefused(c) \/ Wait(c) PROVE QueueOrder'
  BY <1>2, WaitLemma DEF AddRefused, vars, queueVars, QueueOrder
<1>3. CASE RunEmpty \/ Signal
  BY <1>3 DEF RunEmpty, Signal, vars, queueVars, QueueOrder
<1>4. CASE Swap
  <2>1. read_queue = <<>> /\ Len(read_queue) = 0 /\ Len(write_queue) # 0
    BY <1>0, <1>4 DEF Swap, QueueOrder, TypeOK
  <2>2. Len(write_queue') = 0 /\ Len(read_queue') = Len(write_queue)
    BY <1>4, <2>1 DEF Swap
  <2>3. \A i \in 1..Len(read_queue') :
           read_queue'[i] = added - Len(read_queue') + i
    <3>1. read_queue' = write_queue
      BY <1>4 DEF Swap
    <3> QED BY <3>1 DEF QueueOrder
  <2> QED BY <1>0, <1>4, <2>1, <2>2, <2>3 DEF Swap, QueueOrder
<1>5. ASSUME NEW r \in Result, Call(r) PROVE QueueOrder'
  BY <1>0, <1>5 DEF Call, Ran, QueueOrder
<1>6. ASSUME NEW r \in Result, CallReschedules(r) PROVE QueueOrder'
  <2>1. HasRoom /\ Push(NoCaller)
    BY <1>6 DEF CallReschedules
  <2>2. /\ Len(write_queue') = Len(write_queue) + 1
        /\ \A i \in 1..Len(write_queue) : write_queue'[i] = write_queue[i]
        /\ write_queue'[Len(write_queue) + 1] = added + 1
    BY <2>1, PushLemma
  <2>3. /\ added' = added + 1 /\ epc = "call" /\ epc' = "notify"
        /\ UNCHANGED <<read_queue, pos>> /\ fn_result' = r
    BY <1>6, <2>1 DEF CallReschedules, Ran, Push
  <2>4. /\ Len(write_queue') + Len(read_queue') <= added'
        /\ \A i \in 1..Len(write_queue') : write_queue'[i] = added' - Len(write_queue') + i
    <3>1. added' - Len(write_queue') = added - Len(write_queue)
      BY <1>0, <2>2, <2>3
    <3>2. ASSUME NEW i \in 1..Len(write_queue')
          PROVE  write_queue'[i] = added' - Len(write_queue') + i
      <4>1. CASE i \in 1..Len(write_queue)
        BY <1>0, <2>2, <3>1, <4>1 DEF QueueOrder
      <4>2. CASE i = Len(write_queue) + 1
        BY <1>0, <2>2, <3>1, <4>2
      <4> QED BY <1>0, <2>2, <4>1, <4>2
    <3>3. Len(write_queue') + Len(read_queue') <= added'
      BY <1>0, <2>2, <2>3 DEF QueueOrder
    <3> QED BY <3>2, <3>3
  <2>5. \A i \in 1..Len(read_queue') :
           read_queue'[i] = added' - Len(write_queue') - Len(read_queue') + i
    BY <1>0, <2>2, <2>3 DEF QueueOrder
  <2>6. pos' <= Len(read_queue')
    BY <2>3 DEF QueueOrder
  <2> QED BY <2>3, <2>4, <2>5, <2>6 DEF QueueOrder
<1>7. CASE Notify
  BY <1>0, <1>7 DEF Notify, QueueOrder
<1>8. CASE Done
  <2>1. CASE NextFunction
    BY <1>0, <1>8, <2>1 DEF Done, NextFunction, QueueOrder
  <2>2. CASE ClearQueue
    <3>1. Len(read_queue') = 0
      BY <2>2 DEF ClearQueue
    <3> QED BY <1>0, <1>8, <2>2, <3>1 DEF Done, ClearQueue, QueueOrder
  <2> QED BY <1>8, <2>1, <2>2 DEF Done
<1> QED
  BY <1>1, <1>2, <1>3, <1>4, <1>5, <1>6, <1>7, <1>8 DEF Next, Main

\* What each step does to the three counters of the promise.
LEMMA ProgressLemma ==
  ASSUME TypeOK, QueueOrder
  PROVE  /\ \A c \in Caller : Ask(c) =>
              added' = added + 1 /\ Started' = Started /\ Finished' = Finished
         /\ \A c \in Caller : AddRefused(c) \/ Wait(c) =>
              added' = added /\ Started' = Started /\ Finished' = Finished
         /\ RunEmpty \/ Swap \/ Signal \/ Done =>
              added' = added /\ Started' = Started /\ Finished' = Finished
         /\ \A r \in Result : Call(r) =>
              /\ added' = added /\ Started' = Started + 1 /\ Finished' = Finished
              /\ Started = Finished /\ Started' = Current
         /\ \A r \in Result : CallReschedules(r) =>
              /\ added' = added + 1 /\ Started' = Started + 1 /\ Finished' = Finished
              /\ Started = Finished /\ Started' = Current
         /\ Notify =>
              /\ added' = added /\ Started' = Started /\ Finished' = Started
              /\ Started = Finished + 1 /\ Started = Current
<1>0. /\ Len(write_queue) \in Nat /\ Len(read_queue) \in Nat
      /\ added \in Nat /\ pos \in Nat
      /\ Before \in Nat /\ (epc # "idle" => Current = Before + 1)
  BY CurrentLemma, BoundsAssumption DEF TypeOK
<1>1. ASSUME NEW o \in Caller \cup {NoCaller}, HasRoom, Push(o)
      PROVE  Len(write_queue') = Len(write_queue) + 1 /\ added' = added + 1
  BY <1>1, PushLemma DEF Push
<1>2. ASSUME NEW c \in Caller, Ask(c)
      PROVE  added' = added + 1 /\ Started' = Started /\ Finished' = Finished
  <2>1. Len(write_queue') = Len(write_queue) + 1 /\ added' = added + 1
    BY <1>1, <1>2 DEF Ask, Add
  <2> QED BY <1>0, <1>2, <2>1 DEF Ask, Add, Started, Finished, Before
<1>3. ASSUME NEW c \in Caller, AddRefused(c) \/ Wait(c)
      PROVE  added' = added /\ Started' = Started /\ Finished' = Finished
  BY <1>3, WaitLemma DEF AddRefused, vars, queueVars, Started, Finished, Before
<1>4. ASSUME RunEmpty \/ Signal
      PROVE  added' = added /\ Started' = Started /\ Finished' = Finished
  BY <1>4 DEF RunEmpty, Signal, vars, queueVars, Started, Finished, Before
<1>5. ASSUME Swap
      PROVE  added' = added /\ Started' = Started /\ Finished' = Finished
  <2>1. read_queue = <<>> /\ pos = 1
    BY <1>5 DEF Swap, QueueOrder
  <2> QED BY <1>0, <1>5, <2>1 DEF Swap, Started, Finished, Before
<1>6. ASSUME Done
      PROVE  added' = added /\ Started' = Started /\ Finished' = Finished
  <2>1. CASE NextFunction
    BY <1>0, <1>6, <2>1 DEF Done, NextFunction, Started, Finished, Before
  <2>2. CASE ClearQueue
    <3>1. Len(read_queue') = 0
      BY <2>2 DEF ClearQueue
    <3> QED BY <1>0, <1>6, <2>2, <3>1 DEF Done, ClearQueue, Started, Finished, Before
  <2> QED BY <1>6, <2>1, <2>2 DEF Done
<1>7. ASSUME NEW r \in Result, Ran(r),
             added' - Len(write_queue') = added - Len(write_queue)
      PROVE  /\ Started' = Started + 1 /\ Finished' = Finished
             /\ Started = Finished /\ Started' = Current
  <2>1. Before' = Before
    BY <1>0, <1>7 DEF Ran, Before
  <2> QED BY <1>0, <1>7, <2>1 DEF Ran, Started, Finished
<1>8. ASSUME NEW r \in Result, CallReschedules(r)
      PROVE  added' = added + 1 /\ added' - Len(write_queue') = added - Len(write_queue)
  BY <1>0, <1>1, <1>8 DEF CallReschedules
<1>9. ASSUME Notify
      PROVE  /\ added' = added /\ Started' = Started /\ Finished' = Started
             /\ Started = Finished + 1 /\ Started = Current
  BY <1>0, <1>9 DEF Notify, Started, Finished, Before
<1> QED
  BY <1>2, <1>3, <1>4, <1>5, <1>6, <1>7, <1>8, <1>9 DEF Call, CallReschedules

LEMMA RunsStep ==
  ASSUME TypeOK, QueueOrder, RunsOnceInOrder, Next
  PROVE  RunsOnceInOrder'
<1>0. Started \in Nat /\ (epc # "idle" => Current \in Ticket)
      /\ runs \in [Ticket -> Nat] /\ Ticket \subseteq Nat
  BY CurrentLemma DEF TypeOK, Ticket
<1>1. ASSUME NEW r \in Result, Ran(r), Started' = Started + 1, Started' = Current
      PROVE  RunsOnceInOrder'
  <2>1. runs' = [runs EXCEPT ![Current] = @ + 1] /\ Current \in Ticket
    BY <1>0, <1>1 DEF Ran
  <2>2. ASSUME NEW t \in Ticket PROVE runs'[t] = IF t <= Started' THEN 1 ELSE 0
    <3>1. CASE t = Current
      BY <1>0, <1>1, <2>1, <3>1 DEF RunsOnceInOrder
    <3>2. CASE t # Current
      BY <1>0, <1>1, <2>1, <3>2 DEF RunsOnceInOrder
    <3> QED BY <3>1, <3>2
  <2> QED BY <2>2 DEF RunsOnceInOrder
<1>2. ASSUME runs' = runs, Started' = Started PROVE RunsOnceInOrder'
  BY <1>2 DEF RunsOnceInOrder
<1>3. ASSUME NEW r \in Result, Call(r) \/ CallReschedules(r) PROVE RunsOnceInOrder'
  BY <1>1, <1>3, ProgressLemma DEF Call, CallReschedules
<1>4. ASSUME NEW c \in Caller, Ask(c) \/ AddRefused(c) \/ Wait(c) PROVE RunsOnceInOrder'
  <2>1. runs' = runs
    BY <1>4, WaitLemma DEF Ask, Add, AddRefused, vars, queueVars
  <2> QED BY <1>2, <1>4, <2>1, ProgressLemma
<1>5. CASE RunEmpty \/ Swap \/ Signal \/ Done \/ Notify
  <2>1. runs' = runs
    BY <1>5 DEF RunEmpty, Swap, Signal, Done, Notify, vars, queueVars
  <2>2. Started' = Started
    BY <1>5, ProgressLemma
  <2> QED BY <1>2, <2>1, <2>2
<1> QED
  BY <1>3, <1>4, <1>5 DEF Next, Main

LEMMA CodeStep ==
  ASSUME TypeOK, QueueOrder, CodeOrder, Next
  PROVE  CodeOrder'
<1>0. Finished \in Nat /\ Started \in Nat /\ (epc # "idle" => Current \in Ticket)
      /\ code \in [Ticket -> Result \cup {"Last"}] /\ Ticket \subseteq Nat
  BY CurrentLemma DEF TypeOK, Ticket
<1>1. ASSUME code' = code, Finished' = Finished PROVE CodeOrder'
  BY <1>1 DEF CodeOrder
<1>2. CASE Notify
  <2>1. /\ code' = [code EXCEPT ![Current] = fn_result]
        /\ fn_result \in Result /\ Current \in Ticket
    BY <1>0, <1>2 DEF Notify, QueueOrder
  <2>2. fn_result # "Last"
    BY <2>1, ResultAssumption
  <2>3. Finished' = Finished + 1 /\ Finished' = Current
    BY <1>2, ProgressLemma
  <2>4. ASSUME NEW t \in Ticket PROVE code'[t] # "Last" <=> t <= Finished'
    <3>1. CASE t = Current
      BY <1>0, <2>1, <2>2, <2>3, <3>1
    <3>2. CASE t # Current
      BY <1>0, <2>1, <2>3, <3>2 DEF CodeOrder
    <3> QED BY <3>1, <3>2
  <2> QED BY <2>4 DEF CodeOrder
<1>3. ASSUME NEW r \in Result, Call(r) \/ CallReschedules(r) PROVE CodeOrder'
  <2>1. code' = code
    BY <1>3 DEF Call, CallReschedules, Ran, futureVars
  <2> QED BY <1>1, <1>3, <2>1, ProgressLemma
<1>4. ASSUME NEW c \in Caller, Ask(c) \/ AddRefused(c) \/ Wait(c) PROVE CodeOrder'
  <2>1. code' = code
    BY <1>4, WaitLemma DEF Ask, Add, AddRefused, vars, futureVars
  <2> QED BY <1>1, <1>4, <2>1, ProgressLemma
<1>5. CASE RunEmpty \/ Swap \/ Signal \/ Done
  <2>1. code' = code
    BY <1>5 DEF RunEmpty, Swap, Signal, Done, vars, futureVars
  <2> QED BY <1>1, <1>5, <2>1, ProgressLemma
<1> QED
  BY <1>2, <1>3, <1>4, <1>5 DEF Next, Main

\* A published result stays published.
LEMMA CodeStable ==
  ASSUME TypeOK, QueueOrder, Next
  PROVE  \A t \in Ticket : code[t] # "Last" => code'[t] # "Last"
<1>1. CASE Notify
  <2>1. /\ code' = [code EXCEPT ![Current] = fn_result]
        /\ fn_result \in Result
    BY <1>1 DEF Notify, QueueOrder
  <2>2. fn_result # "Last"
    BY <2>1, ResultAssumption
  <2> QED BY <2>1, <2>2 DEF TypeOK
<1>2. ASSUME NEW r \in Result, Call(r) \/ CallReschedules(r) PROVE code' = code
  BY <1>2 DEF Call, CallReschedules, Ran, futureVars
<1>3. ASSUME NEW c \in Caller, Ask(c) \/ AddRefused(c) \/ Wait(c) PROVE code' = code
  BY <1>3, WaitLemma DEF Ask, Add, AddRefused, vars, futureVars
<1>4. CASE RunEmpty \/ Swap \/ Signal \/ Done
  BY <1>4 DEF RunEmpty, Swap, Signal, Done, vars, futureVars
<1> QED
  BY <1>1, <1>2, <1>3, <1>4 DEF Next, Main

\* add() is the only operation that changes the owner of a ticket, of a new one.
LEMMA OwnerLemma ==
  ASSUME TypeOK, QueueOrder, Next
  PROVE  /\ added' \in Nat /\ added <= added'
         /\ \A t \in Ticket : t <= added \/ added' < t => owner'[t] = owner[t]
<1>0. /\ added \in Nat /\ owner \in [Ticket -> Caller \cup {NoCaller}]
      /\ Ticket \subseteq Nat
  BY BoundsAssumption DEF TypeOK, Ticket
<1>1. ASSUME NEW o \in Caller \cup {NoCaller}, HasRoom, Push(o)
      PROVE  /\ added' \in Nat /\ added <= added'
             /\ \A t \in Ticket : t <= added \/ added' < t => owner'[t] = owner[t]
  <2>1. added' = added + 1 /\ owner' = [owner EXCEPT ![added + 1] = o]
    BY <1>1 DEF Push
  <2>2. ASSUME NEW t \in Ticket, t <= added \/ added' < t PROVE t # added + 1
    BY <1>0, <2>1, <2>2
  <2> QED BY <1>0, <2>1, <2>2
<1>2. ASSUME UNCHANGED <<added, owner>>
      PROVE  /\ added' \in Nat /\ added <= added'
             /\ \A t \in Ticket : t <= added \/ added' < t => owner'[t] = owner[t]
  BY <1>0, <1>2
<1>3. \/ UNCHANGED <<added, owner>>
      \/ \E o \in Caller \cup {NoCaller} : HasRoom /\ Push(o)
  BY WaitLemma DEF Next, Main, Ask, Add, AddRefused, RunEmpty, Swap, Call, CallReschedules,
                   Ran, Notify, Signal, Done, vars, queueVars
<1> QED
  BY <1>1, <1>2, <1>3

\* What is known of a request stays as it is: who asked, its limit, its answer.
LEMMA RequestStable ==
  ASSUME TypeOK, QueueOrder, Waiting, Unused, Next, NEW t \in Ticket
  PROVE  /\ t <= added => owner'[t] = owner[t] /\ limit'[t] = limit[t]
         /\ answer[t] # "none" => answer'[t] = answer[t]
<1>0. t \in Nat /\ added \in Nat
  BY BoundsAssumption DEF TypeOK, Ticket
<1>1. t <= added => owner'[t] = owner[t]
  BY OwnerLemma
<1>2. ASSUME NEW c \in Caller, Ask(c)
      PROVE  (t <= added => limit'[t] = limit[t]) /\ answer' = answer
  <2>1. PICK l \in Limit : limit' = [limit EXCEPT ![added + 1] = l]
    BY <1>2 DEF Ask, Add
  <2>2. t <= added => t # added + 1
    BY <1>0
  <2>3. limit \in [Ticket -> Limit]
    BY DEF TypeOK
  <2> QED BY <1>2, <2>1, <2>2, <2>3 DEF Ask, Add
<1>3. ASSUME NEW c \in Caller, GiveUp(c) \/ Return(c)
      PROVE  limit' = limit /\ (answer[t] # "none" => answer'[t] = answer[t])
  <2>1. answer[ticket[c]] = "none"
    BY <1>3 DEF GiveUp, Return, Waiting
  <2> QED BY <1>3, <2>1 DEF GiveUp, Return, queueVars, TypeOK
<1>4. ASSUME NEW c \in Caller, AddRefused(c) \/ Check(c) \/ Take(c) \/ TakeTimeout(c)
      PROVE  limit' = limit /\ answer' = answer
  BY <1>4 DEF AddRefused, Check, Take, TakeTimeout, vars, queueVars, callerVars
<1>5. CASE Main \/ RunEmpty
  <2>1. limit' = limit /\ answer' = answer
    BY <1>5 DEF Main, RunEmpty, Swap, Call, CallReschedules, Ran, Notify, Signal, Done,
                vars, queueVars, callerVars
  <2> QED BY <1>1, <2>1
<1> QED
  BY <1>1, <1>2, <1>3, <1>4, <1>5 DEF Next, Wait

\* A task that gave up a function that has run is for ever one that did.
LEMMA AbandonedStable ==
  ASSUME TypeOK, QueueOrder, Waiting, Unused, Next, NEW c \in Caller, Abandoned(c)
  PROVE  Abandoned(c)'
<1>1. PICK t \in Ticket : owner[t] = c /\ answer[t] = "expired" /\ code[t] # "Last"
  BY DEF Abandoned
<1>2. t <= added
  <2>1. t \in Nat /\ added \in Nat
    BY BoundsAssumption DEF TypeOK, Ticket
  <2> QED BY <1>1, <2>1 DEF Unused
<1>3. owner'[t] = c /\ answer'[t] = "expired" /\ code'[t] # "Last"
  BY <1>1, <1>2, RequestStable, CodeStable
<1> QED BY <1>3 DEF Abandoned

LEMMA WaitingStep ==
  ASSUME TypeOK, QueueOrder, Waiting, Unused, Next
  PROVE  Waiting'
<1> DEFINE Good(c) == /\ pc[c] # "idle" => /\ ticket[c] <= added
                                           /\ owner[ticket[c]] = c
                                           /\ answer[ticket[c]] = "none"
                      /\ pc[c] = "late" => limit[ticket[c]] = "finite"
                      /\ pc[c] = "ready" => code[ticket[c]] # "Last"
<1> SUFFICES ASSUME NEW c \in Caller PROVE Good(c)'
  BY DEF Waiting
<1>0. /\ Good(c) /\ added \in Nat /\ ticket[c] \in Ticket /\ ticket[c] \in Nat
      /\ (code[ticket[c]] # "Last" => code'[ticket[c]] # "Last")
      /\ (pc[c] # "idle" => limit'[ticket[c]] = limit[ticket[c]])
  <2>1. ticket[c] \in Ticket /\ added \in 0..MaxCalls
    BY DEF TypeOK
  <2>2. ticket[c] \in Nat /\ added \in Nat
    BY <2>1, BoundsAssumption DEF Ticket
  <2>3. Good(c)
    BY DEF Waiting
  <2>4. pc[c] # "idle" => limit'[ticket[c]] = limit[ticket[c]]
    BY <2>1, <2>3, RequestStable
  <2> QED BY <2>1, <2>2, <2>3, <2>4, CodeStable
<1>1. ASSUME NEW d \in Caller, Ask(d) PROVE Good(c)'
  <2>1. /\ HasRoom /\ Push(d) /\ added + 1 \in Ticket
        /\ added' = added + 1 /\ owner' = [owner EXCEPT ![added + 1] = d]
    BY <1>1, PushLemma DEF Ask, Add, Push
  <2>2. CASE c = d
    <3>1. pc'[c] = "wait" /\ ticket'[c] = added + 1 /\ answer' = answer
      BY <1>1, <2>2 DEF Ask, Add, TypeOK
    <3>2. owner'[added + 1] = c /\ answer[added + 1] = "none"
      BY <1>0, <2>1, <2>2 DEF TypeOK, Unused
    <3> QED BY <1>0, <2>1, <3>1, <3>2
  <2>3. CASE c # d
    <3>1. /\ pc'[c] = pc[c] /\ ticket'[c] = ticket[c] /\ answer' = answer
          /\ code' = code
      BY <1>1, <2>3 DEF Ask, Add, TypeOK, futureVars
    <3>2. pc[c] # "idle" => owner'[ticket[c]] = owner[ticket[c]] /\ ticket[c] <= added'
      <4>1. pc[c] # "idle" => ticket[c] <= added /\ ticket[c] # added + 1
        BY <1>0
      <4>2. owner \in [Ticket -> Caller \cup {NoCaller}]
        BY DEF TypeOK
      <4> QED BY <1>0, <2>1, <4>1, <4>2
    <3> QED BY <1>0, <3>1, <3>2
  <2> QED BY <2>2, <2>3
<1>2. ASSUME NEW d \in Caller, Check(d) \/ Take(d) \/ TakeTimeout(d) PROVE Good(c)'
  <2>1. UNCHANGED <<ticket, added, owner, limit, answer, code>>
    BY <1>2 DEF Check, Take, TakeTimeout, queueVars, futureVars
  <2>2. CASE c # d
    <3>1. pc'[c] = pc[c]
      BY <1>2, <2>2 DEF Check, Take, TakeTimeout, TypeOK
    <3> QED BY <1>0, <2>1, <3>1
  <2>3. CASE c = d
    <3>1. /\ pc[c] # "idle"
          /\ pc'[c] = "late" => limit[ticket[c]] = "finite"
          /\ pc'[c] = "ready" => code[ticket[c]] # "Last"
      BY <1>2, <2>3 DEF Check, Take, TakeTimeout, TypeOK
    <3> QED BY <1>0, <2>1, <3>1
  <2> QED BY <2>2, <2>3
<1>3. ASSUME NEW d \in Caller, GiveUp(d) \/ Return(d) PROVE Good(c)'
  <2>1. /\ UNCHANGED <<ticket, added, owner, code>>
        /\ pc[d] # "idle" /\ pc' = [pc EXCEPT ![d] = "idle"]
        /\ \E a : answer' = [answer EXCEPT ![ticket[d]] = a]
    BY <1>3 DEF GiveUp, Return, queueVars, futureVars
  <2>2. CASE c = d
    BY <2>1, <2>2 DEF TypeOK
  <2>3. CASE c # d
    <3>1. pc'[c] = pc[c]
      BY <2>1, <2>3 DEF TypeOK
    <3>2. pc[c] # "idle" => ticket[c] # ticket[d]
      BY <2>1, <2>3 DEF Waiting
    <3>3. pc[c] # "idle" => answer'[ticket[c]] = answer[ticket[c]]
      BY <1>0, <2>1, <3>2 DEF TypeOK
    <3> QED BY <1>0, <2>1, <3>1, <3>3
  <2> QED BY <2>2, <2>3
<1>4. ASSUME NEW r \in Result, Call(r) \/ CallReschedules(r) PROVE Good(c)'
  <2>1. UNCHANGED <<pc, ticket, answer>>
    BY <1>4 DEF Call, CallReschedules, Ran, callerVars
  <2>2. pc[c] # "idle" => ticket[c] <= added' /\ owner'[ticket[c]] = owner[ticket[c]]
    <3>1. CASE Call(r)
      BY <1>0, <3>1 DEF Call
    <3>2. CASE CallReschedules(r)
      BY <1>0, <3>2 DEF CallReschedules, Push, TypeOK
    <3> QED BY <1>4, <3>1, <3>2
  <2> QED BY <1>0, <2>1, <2>2
<1>5. CASE RunEmpty \/ Swap \/ Notify \/ Signal \/ Done
  <2>1. UNCHANGED <<pc, ticket, answer, added, owner>>
    BY <1>5 DEF RunEmpty, Swap, Notify, Signal, Done, vars, queueVars, callerVars
  <2> QED BY <1>0, <2>1
<1>6. ASSUME NEW d \in Caller, AddRefused(d) PROVE Good(c)'
  BY <1>0, <1>6 DEF AddRefused, vars, queueVars, callerVars
<1> HIDE DEF Good
<1> QED
  BY <1>1, <1>2, <1>3, <1>4, <1>5, <1>6 DEF Next, Main, Wait

\* The only steps that touch the queues of the condition variables.
LEMMA TasksLemma ==
  ASSUME TypeOK, QueueOrder, Next
  PROVE  \/ tasks' = tasks
         \/ \E c \in Caller : /\ pc[c] \in {"wait", "woken"} /\ Check(c)
                              /\ code[ticket[c]] = "Last"
                              /\ tasks' = [tasks EXCEPT ![ticket[c]] = Append(@, c)]
         \/ /\ Signal /\ Current \in Ticket /\ tasks[Current] # <<>>
            /\ tasks' = [tasks EXCEPT ![Current] = Tail(@)]
<1>1. ASSUME NEW c \in Caller, Ask(c) \/ AddRefused(c) \/ Take(c) \/ TakeTimeout(c)
                              \/ GiveUp(c) \/ Return(c)
      PROVE  tasks' = tasks
  BY <1>1 DEF Ask, Add, AddRefused, Take, TakeTimeout, GiveUp, Return, vars, futureVars
<1>2. ASSUME NEW c \in Caller, Check(c)
      PROVE  \/ tasks' = tasks
             \/ /\ pc[c] \in {"wait", "woken"} /\ code[ticket[c]] = "Last"
                /\ tasks' = [tasks EXCEPT ![ticket[c]] = Append(@, c)]
  BY <1>2 DEF Check, QueueHandle
<1>3. CASE Signal
  BY <1>3, CurrentLemma DEF Signal
<1>4. CASE RunEmpty \/ Swap \/ Notify \/ Done
  BY <1>4 DEF RunEmpty, Swap, Notify, Done, vars, futureVars
<1>5. ASSUME NEW r \in Result, Call(r) \/ CallReschedules(r) PROVE tasks' = tasks
  BY <1>5 DEF Call, CallReschedules, Ran, futureVars
<1> QED
  BY <1>1, <1>2, <1>3, <1>4, <1>5 DEF Next, Main, Wait

LEMMA UnusedStep ==
  ASSUME TypeOK, QueueOrder, Waiting, Unused, Next
  PROVE  Unused'
<1> SUFFICES ASSUME NEW t \in Ticket, added' < t
             PROVE  tasks'[t] = <<>> /\ answer'[t] = "none" /\ owner'[t] = NoCaller
  BY DEF Unused
<1>1. /\ added \in Nat /\ t \in Nat /\ added < t
      /\ tasks[t] = <<>> /\ answer[t] = "none" /\ owner[t] = NoCaller
      /\ owner'[t] = NoCaller
  <2>1. t \in Nat /\ added \in Nat
    BY BoundsAssumption DEF TypeOK, Ticket
  <2> QED BY <2>1, OwnerLemma DEF Unused
<1>2. tasks'[t] = <<>>
  <2>1. ASSUME NEW c \in Caller, pc[c] \in {"wait", "woken"} PROVE t # ticket[c]
    <3>1. ticket[c] <= added /\ ticket[c] \in Ticket
      BY <2>1 DEF Waiting, TypeOK
    <3> QED BY <1>1, <3>1, BoundsAssumption DEF Ticket
  <2>2. Signal => t # Current
    BY <1>1 DEF Signal
  <2> QED BY <1>1, <2>1, <2>2, TasksLemma DEF TypeOK
<1>3. answer'[t] = "none"
  <2>1. ASSUME NEW c \in Caller, GiveUp(c) \/ Return(c) PROVE answer'[t] = answer[t]
    <3>1. ticket[c] <= added /\ ticket[c] \in Ticket
      BY <2>1 DEF Waiting, TypeOK, GiveUp, Return
    <3>2. ticket[c] # t
      BY <1>1, <3>1, BoundsAssumption DEF Ticket
    <3> QED BY <2>1, <3>2 DEF GiveUp, Return, TypeOK
  <2>2. ASSUME NEW c \in Caller, Ask(c) \/ AddRefused(c) \/ Check(c) \/ Take(c) \/ TakeTimeout(c)
        PROVE  answer' = answer
    BY <2>2 DEF Ask, Add, AddRefused, Check, Take, TakeTimeout, vars, callerVars
  <2>3. CASE Main \/ RunEmpty
    BY <1>1, <2>3 DEF Main, RunEmpty, Swap, Call, CallReschedules, Ran, Notify, Signal,
                      Done, vars, callerVars
  <2> QED BY <1>1, <2>1, <2>2, <2>3 DEF Next, Wait
<1> QED BY <1>1, <1>2, <1>3

LEMMA OwnHandlesStep ==
  ASSUME TypeOK, QueueOrder, Waiting, Unused, OwnHandles, Next
  PROVE  OwnHandles'
<1> SUFFICES ASSUME NEW t \in Ticket PROVE Entries(tasks'[t]) \subseteq {owner'[t]}
  BY DEF OwnHandles
<1>0. tasks[t] \in Seq(Caller) /\ t \in Nat /\ added \in Nat
  BY BoundsAssumption DEF TypeOK, Ticket
<1>1. CASE tasks'[t] = tasks[t]
  <2>1. CASE t <= added
    BY <1>1, <2>1, OwnerLemma DEF OwnHandles
  <2>2. CASE added < t
    <3>1. Entries(tasks[t]) = {}
      BY <2>2 DEF Unused, Entries
    <3> QED BY <1>1, <3>1
  <2> QED BY <1>0, <2>1, <2>2
<1>2. ASSUME NEW c \in Caller, pc[c] \in {"wait", "woken"}, t = ticket[c],
             tasks'[t] = Append(tasks[t], c)
      PROVE  Entries(tasks'[t]) \subseteq {owner'[t]}
  <2>1. Entries(tasks'[t]) = Entries(tasks[t]) \cup {c}
    BY <1>0, <1>2, AppendLemma
  <2>2. owner[t] = c /\ t <= added
    BY <1>2 DEF Waiting
  <2> QED BY <2>1, <2>2, OwnerLemma DEF OwnHandles
<1>3. CASE Signal /\ t = Current /\ tasks[t] # <<>> /\ tasks'[t] = Tail(tasks[t])
  <2>1. Entries(tasks'[t]) \subseteq Entries(tasks[t])
    BY <1>0, <1>3, TailLemma
  <2>2. owner' = owner
    BY <1>3 DEF Signal, queueVars
  <2> QED BY <2>1, <2>2 DEF OwnHandles
<1>4. \/ tasks'[t] = tasks[t]
      \/ \E c \in Caller : /\ pc[c] \in {"wait", "woken"} /\ t = ticket[c]
                           /\ tasks'[t] = Append(tasks[t], c)
      \/ Signal /\ t = Current /\ tasks[t] # <<>> /\ tasks'[t] = Tail(tasks[t])
  <2>1. tasks \in [Ticket -> Seq(Caller)]
    BY DEF TypeOK
  <2>2. CASE tasks' = tasks
    BY <2>2
  <2>3. ASSUME NEW c \in Caller, pc[c] \in {"wait", "woken"},
               tasks' = [tasks EXCEPT ![ticket[c]] = Append(@, c)]
        PROVE  tasks'[t] = tasks[t] \/ (t = ticket[c] /\ tasks'[t] = Append(tasks[t], c))
    BY <2>1, <2>3
  <2>4. CASE /\ Signal /\ tasks[Current] # <<>>
             /\ tasks' = [tasks EXCEPT ![Current] = Tail(@)]
    BY <2>1, <2>4
  <2> QED BY <2>2, <2>3, <2>4, TasksLemma
<1> QED BY <1>1, <1>2, <1>3, <1>4

LEMMA NoHandleStep ==
  ASSUME TypeOK, QueueOrder, NoHandleLeft, Next
  PROVE  NoHandleLeft'
<1> SUFFICES ASSUME NEW t \in Ticket, code'[t] # "Last", ~Locked(t)'
             PROVE  tasks'[t] = <<>>
  BY DEF NoHandleLeft
<1>1. ASSUME NEW c \in Caller, Check(c) PROVE tasks'[t] = <<>>
  <2>1. UNCHANGED <<code, epc, pos, read_queue>>
    BY <1>1 DEF Check, queueVars
  <2>2. code[t] # "Last" /\ ~Locked(t)
    BY <2>1 DEF Locked, Current
  <2>3. tasks'[t] = tasks[t]
    BY <1>1, <2>2 DEF Check, QueueHandle, TypeOK
  <2> QED BY <2>2, <2>3 DEF NoHandleLeft
<1>2. CASE Notify
  <2>1. t # Current
    BY <1>2 DEF Notify, Locked, Current
  <2>2. code[t] # "Last" /\ ~Locked(t) /\ tasks' = tasks
    BY <1>2, <2>1 DEF Notify, Locked, TypeOK
  <2> QED BY <2>2 DEF NoHandleLeft
<1>3. CASE Signal
  <2>1. code' = code /\ Current' = Current /\ epc' = epc
    BY <1>3 DEF Signal, queueVars, Current
  <2>2. t # Current /\ code[t] # "Last" /\ ~Locked(t)
    BY <1>3, <2>1 DEF Signal, Locked
  <2>3. tasks'[t] = tasks[t]
    BY <1>3, <2>2 DEF Signal, TypeOK
  <2> QED BY <2>2, <2>3 DEF NoHandleLeft
<1>4. CASE Done
  <2>1. UNCHANGED <<code, tasks>> /\ tasks[Current] = <<>>
    BY <1>4 DEF Done, futureVars
  <2> QED BY <2>1 DEF NoHandleLeft, Locked
<1>5. ASSUME UNCHANGED <<code, tasks>>, epc # "broadcast" PROVE tasks'[t] = <<>>
  BY <1>5 DEF NoHandleLeft, Locked
<1>6. ASSUME UNCHANGED <<code, tasks, read_queue, pos, epc>> PROVE tasks'[t] = <<>>
  BY <1>6 DEF NoHandleLeft, Locked, Current
<1>7. ASSUME NEW c \in Caller, \/ Ask(c) \/ AddRefused(c) \/ Take(c) \/ TakeTimeout(c)
                               \/ GiveUp(c) \/ Return(c)
      PROVE  UNCHANGED <<code, tasks, read_queue, pos, epc>>
  BY <1>7 DEF Ask, Add, AddRefused, Take, TakeTimeout, GiveUp, Return, vars, queueVars, futureVars
<1>8. CASE RunEmpty \/ Swap
  BY <1>5, <1>8 DEF RunEmpty, Swap, vars, futureVars
<1>9. ASSUME NEW r \in Result, Call(r) \/ CallReschedules(r) PROVE tasks'[t] = <<>>
  BY <1>5, <1>9 DEF Call, CallReschedules, Ran, futureVars
<1> QED
  BY <1>1, <1>2, <1>3, <1>4, <1>6, <1>7, <1>8, <1>9 DEF Next, Main, Wait

LEMMA ReachableStep ==
  ASSUME TypeOK, QueueOrder, Reachable, Next
  PROVE  Reachable'
<1> SUFFICES ASSUME NEW c \in Caller, pc'[c] = "blocked"
             PROVE  c \in Entries(tasks'[ticket'[c]]) \/ notified'[c] > 0
  BY DEF Reachable
<1>0. /\ ticket[c] \in Ticket /\ tasks[ticket[c]] \in Seq(Caller)
      /\ notified[c] \in Nat
      /\ pc[c] = "blocked" => c \in Entries(tasks[ticket[c]]) \/ notified[c] > 0
  BY DEF TypeOK, Reachable
<1>1. ASSUME NEW d \in Caller, Check(d)
      PROVE  c \in Entries(tasks'[ticket'[c]]) \/ notified'[c] > 0
  <2>1. ticket' = ticket /\ notified' = notified
    BY <1>1 DEF Check
  <2>2. CASE c = d
    <3>1. tasks'[ticket[c]] = Append(tasks[ticket[c]], c)
      BY <1>0, <1>1, <2>2 DEF Check, QueueHandle, TypeOK
    <3> QED BY <1>0, <2>1, <3>1, AppendLemma
  <2>3. CASE c # d
    <3>1. pc[c] = "blocked"
      BY <1>1, <2>3 DEF Check, TypeOK
    <3>2. \/ tasks'[ticket[c]] = tasks[ticket[c]]
          \/ tasks'[ticket[c]] = Append(tasks[ticket[c]], d)
      <4>1. \/ tasks' = tasks
            \/ tasks' = [tasks EXCEPT ![ticket[d]] = Append(@, d)]
        BY <1>1 DEF Check, QueueHandle
      <4>2. tasks \in [Ticket -> Seq(Caller)]
        BY DEF TypeOK
      <4> QED BY <1>0, <4>1, <4>2
    <3>3. Entries(tasks[ticket[c]]) \subseteq Entries(tasks'[ticket[c]])
      <4>1. CASE tasks'[ticket[c]] = tasks[ticket[c]]
        BY <4>1
      <4>2. CASE tasks'[ticket[c]] = Append(tasks[ticket[c]], d)
        <5>1. Entries(Append(tasks[ticket[c]], d)) = Entries(tasks[ticket[c]]) \cup {d}
          BY <1>0, AppendLemma
        <5> QED BY <4>2, <5>1
      <4> QED BY <3>2, <4>1, <4>2
    <3> QED BY <1>0, <2>1, <3>1, <3>3
  <2> QED BY <2>2, <2>3
<1>2. ASSUME NEW d \in Caller, Ask(d) \/ Take(d) \/ TakeTimeout(d) \/ GiveUp(d) \/ Return(d)
      PROVE  c \in Entries(tasks'[ticket'[c]]) \/ notified'[c] > 0
  <2>1. c # d /\ pc[c] = "blocked"
    BY <1>2 DEF Ask, Add, Take, TakeTimeout, GiveUp, Return, TypeOK
  <2>2. tasks' = tasks /\ ticket'[c] = ticket[c] /\ notified'[c] = notified[c]
    BY <1>2, <2>1 DEF Ask, Add, Take, TakeTimeout, GiveUp, Return, TypeOK, futureVars
  <2> QED BY <1>0, <2>1, <2>2
<1>3. CASE Signal
  <2>1. /\ pc[c] = "blocked" /\ ticket' = ticket /\ Current \in Ticket
        /\ tasks[Current] \in Seq(Caller) /\ tasks[Current] # <<>>
        /\ tasks' = [tasks EXCEPT ![Current] = Tail(@)]
        /\ notified' = [notified EXCEPT ![Head(tasks[Current])] = @ + 1]
    BY <1>3, CurrentLemma DEF Signal, TypeOK
  <2>2. Head(tasks[Current]) \in Caller
    BY <2>1, TailLemma
  <2>3. CASE c = Head(tasks[Current])
    <3>1. notified'[c] = notified[c] + 1
      BY <2>1, <2>3 DEF TypeOK
    <3> QED BY <1>0, <3>1
  <2>4. CASE c # Head(tasks[Current])
    <3>1. notified'[c] = notified[c]
      BY <2>1, <2>4 DEF TypeOK
    <3>2. c \in Entries(tasks[ticket[c]]) => c \in Entries(tasks'[ticket[c]])
      <4>1. CASE ticket[c] = Current
        <5>1. tasks'[Current] = Tail(tasks[Current])
          BY <2>1 DEF TypeOK
        <5> QED BY <2>1, <2>4, <4>1, <5>1, TailLemma
      <4>2. CASE ticket[c] # Current
        BY <1>0, <2>1, <4>2 DEF TypeOK
      <4> QED BY <4>1, <4>2
    <3> QED BY <1>0, <2>1, <3>1, <3>2
  <2> QED BY <2>3, <2>4
<1>4. ASSUME UNCHANGED <<tasks, callerVars>>
      PROVE  c \in Entries(tasks'[ticket'[c]]) \/ notified'[c] > 0
  BY <1>0, <1>4 DEF callerVars
<1>5. CASE RunEmpty \/ Swap \/ Notify \/ Done
  BY <1>4, <1>5 DEF RunEmpty, Swap, Notify, Done, vars, futureVars, callerVars
<1>6. ASSUME NEW r \in Result, Call(r) \/ CallReschedules(r)
      PROVE  UNCHANGED <<tasks, callerVars>>
  BY <1>6 DEF Call, CallReschedules, Ran, futureVars, callerVars
<1>7. ASSUME NEW d \in Caller, AddRefused(d) PROVE UNCHANGED <<tasks, callerVars>>
  BY <1>7 DEF AddRefused, vars, futureVars, callerVars
<1> QED
  BY <1>1, <1>2, <1>3, <1>4, <1>5, <1>6, <1>7 DEF Next, Main, Wait

\* Under the broadcast, the future at hand has its result.
LEMMA BroadcastLemma ==
  ASSUME TypeOK, QueueOrder, CodeOrder, epc = "broadcast"
  PROVE  Current \in Ticket /\ code[Current] # "Last"
<1>1. Current \in Ticket /\ Current = Before + 1 /\ Before \in Nat
  BY CurrentLemma
<1>2. Current <= Finished
  BY <1>1 DEF Finished
<1> QED BY <1>1, <1>2 DEF CodeOrder

LEMMA QueuedOnceStep ==
  ASSUME TypeOK, QueueOrder, CodeOrder, Waiting, Unused, OwnHandles, QueuedOnce, Calm, Next
  PROVE  QueuedOnce'
<1> DEFINE Once(t, c) == /\ Len(tasks[t]) = 1 /\ ticket[c] = t
                         /\ pc[c] \in {"blocked", "late"} /\ notified[c] = 0
<1> SUFFICES ASSUME NEW t \in Ticket, NEW c \in Caller, owner'[t] = c,
                    ~Abandoned(c)', tasks'[t] # <<>>, answer'[t] # "expired"
             PROVE  Once(t, c)'
  BY DEF QueuedOnce
<1>0. /\ tasks[t] \in Seq(Caller) /\ t \in Nat /\ added \in Nat
      /\ notified[c] \in Nat /\ ticket[c] \in Ticket /\ ~Abandoned(c)
      /\ answer[t] # "expired"
  <2>1. /\ tasks[t] \in Seq(Caller) /\ t \in Nat /\ added \in Nat
        /\ notified[c] \in Nat /\ ticket[c] \in Ticket
    BY BoundsAssumption DEF TypeOK, Ticket
  <2>2. ~Abandoned(c)
    BY AbandonedStable
  <2>3. answer[t] # "expired"
    BY RequestStable
  <2> QED BY <2>1, <2>2, <2>3
<1>1. ASSUME tasks[t] # <<>> PROVE owner[t] = c /\ Once(t, c)
  <2>1. t <= added
    BY <1>0, <1>1 DEF Unused
  <2>2. owner[t] = c
    BY <2>1, OwnerLemma
  <2> QED BY <1>0, <1>1, <2>2 DEF QueuedOnce
<1>2. ASSUME NEW d \in Caller, pc[d] \in {"wait", "woken"}, Check(d),
             code[ticket[d]] = "Last",
             tasks' = [tasks EXCEPT ![ticket[d]] = Append(@, d)]
      PROVE  Once(t, c)'
  <2>1. UNCHANGED <<ticket, notified, owner>> /\ pc' = [pc EXCEPT ![d] = "blocked"]
    BY <1>2 DEF Check, queueVars
  <2>2. CASE t = ticket[d]
    <3>1. owner[t] = d /\ c = d
      BY <1>2, <2>1, <2>2 DEF Waiting
    <3>2. notified[c] = 0
      BY <1>0, <1>2, <3>1 DEF Calm
    <3>3. tasks[t] = <<>>
      BY <1>1, <1>2, <3>1
    <3>4. tasks'[t] = Append(tasks[t], c) /\ pc'[c] = "blocked"
      BY <1>2, <2>1, <2>2, <3>1 DEF TypeOK
    <3>5. Len(tasks'[t]) = 1
      BY <3>3, <3>4
    <3> QED BY <2>1, <2>2, <3>1, <3>2, <3>4, <3>5
  <2>3. CASE t # ticket[d]
    <3>1. tasks'[t] = tasks[t]
      BY <1>2, <2>3 DEF TypeOK
    <3>2. c # d
      BY <1>1, <1>2, <3>1
    <3> QED BY <1>1, <2>1, <3>1, <3>2 DEF TypeOK
  <2> QED BY <2>2, <2>3
<1>3. CASE /\ Signal /\ Current \in Ticket /\ tasks[Current] # <<>>
           /\ tasks' = [tasks EXCEPT ![Current] = Tail(@)]
  <2>1. UNCHANGED <<ticket, pc, owner>>
    BY <1>3 DEF Signal, queueVars
  <2>2. t # Current
    <3>1. ASSUME t = Current PROVE FALSE
      <4>1. tasks[t] # <<>> /\ tasks'[t] = Tail(tasks[t])
        BY <1>3, <3>1 DEF TypeOK
      <4>2. Len(tasks[t]) = 1
        BY <1>1, <4>1
      <4>3. tasks'[t] \in Seq(Caller) /\ Len(tasks'[t]) = 0
        BY <1>0, <4>1, <4>2, TailLemma
      <4> QED BY <4>3
    <3> QED BY <3>1
  <2>3. tasks'[t] = tasks[t]
    BY <1>3, <2>2 DEF TypeOK
  <2>4. Head(tasks[Current]) # c
    <3>1. Head(tasks[Current]) \in Entries(tasks[Current])
      BY <1>3, TailLemma DEF TypeOK
    <3>2. Head(tasks[Current]) = owner[Current]
      BY <1>3, <3>1 DEF OwnHandles
    <3>3. code[Current] # "Last"
      BY <1>3, BroadcastLemma DEF Signal
    <3>4. owner[Current] = c => answer[Current] # "expired"
      BY <1>0, <1>3, <3>3 DEF Abandoned
    <3>5. owner[Current] = c => ticket[c] = Current
      BY <1>0, <1>3, <3>4 DEF QueuedOnce
    <3> QED BY <1>1, <2>2, <2>3, <3>2, <3>5
  <2>5. notified'[c] = notified[c]
    BY <1>0, <1>3, <2>4 DEF Signal, TypeOK
  <2> QED BY <1>1, <2>1, <2>3, <2>5
<1>4. ASSUME tasks' = tasks PROVE Once(t, c)'
  <2>1. Once(t, c)
    BY <1>1, <1>4
  <2>2. ASSUME NEW d \in Caller, Wait(d) \/ Ask(d), c # d
        PROVE  ticket'[c] = ticket[c] /\ pc'[c] = pc[c] /\ notified'[c] = notified[c]
    BY <1>0, <2>2 DEF Wait, Ask, Add, Check, Take, TakeTimeout, GiveUp, Return, TypeOK
  <2>3. ASSUME Ask(c) \/ Check(c) \/ Take(c) \/ Return(c) PROVE FALSE
    BY <2>1, <2>3 DEF Ask, Add, Check, Take, Return
  <2>4. ASSUME GiveUp(c) PROVE FALSE
    BY <1>0, <2>1, <2>4 DEF GiveUp, TypeOK
  <2>5. ASSUME TakeTimeout(c) PROVE Once(t, c)'
    BY <1>4, <2>1, <2>5 DEF TakeTimeout, TypeOK
  <2>6. CASE Signal
    <3>1. /\ Current \in Ticket /\ tasks[Current] \in Seq(Caller) /\ tasks[Current] # <<>>
          /\ tasks' = [tasks EXCEPT ![Current] = Tail(@)]
      BY <2>6, CurrentLemma DEF Signal, TypeOK
    <3>2. Tail(tasks[Current]) = tasks[Current]
      BY <1>4, <3>1 DEF TypeOK
    <3>3. Len(tasks[Current]) = Len(tasks[Current]) - 1 /\ Len(tasks[Current]) \in Nat
      <4>1. Len(Tail(tasks[Current])) = Len(tasks[Current]) - 1
        BY <3>1, TailLemma
      <4>2. Len(tasks[Current]) \in Nat
        BY <3>1
      <4> QED BY <3>2, <4>1, <4>2
    <3> QED BY <3>3
  <2>7. ASSUME ticket'[c] = ticket[c], pc'[c] = pc[c], notified'[c] = notified[c]
        PROVE  Once(t, c)'
    BY <1>4, <2>1, <2>7
  <2>8. ASSUME UNCHANGED callerVars PROVE Once(t, c)'
    BY <2>7, <2>8 DEF callerVars
  <2>9. ASSUME NEW d \in Caller, AddRefused(d) PROVE UNCHANGED callerVars
    BY <2>9 DEF AddRefused, vars
  <2>10. ASSUME RunEmpty \/ Swap \/ Notify \/ Done PROVE UNCHANGED callerVars
    BY <2>10 DEF RunEmpty, Swap, Notify, Done, vars
  <2>11. ASSUME NEW r \in Result, Call(r) \/ CallReschedules(r) PROVE UNCHANGED callerVars
    BY <2>11 DEF Call, CallReschedules, Ran
  <2>12. ASSUME NEW d \in Caller, Wait(d) \/ Ask(d) PROVE Once(t, c)'
    <3>1. CASE c # d
      BY <2>2, <2>7, <2>12, <3>1
    <3>2. CASE c = d
      BY <2>3, <2>4, <2>5, <2>12, <3>2 DEF Wait
    <3> QED BY <3>1, <3>2
  <2> HIDE DEF Once
  <2> QED BY <2>6, <2>8, <2>9, <2>10, <2>11, <2>12 DEF Next, Main
<1> QED BY <1>2, <1>3, <1>4, TasksLemma

LEMMA CalmStep ==
  ASSUME TypeOK, QueueOrder, CodeOrder, Waiting, Unused, OwnHandles, QueuedOnce, Calm, Next
  PROVE  Calm'
<1> DEFINE Quiet(c) == /\ notified[c] > 0 => pc[c] \in {"blocked", "late"}
                       /\ notified[c] > 0 \/ pc[c] = "woken" => code[ticket[c]] # "Last"
<1> SUFFICES ASSUME NEW c \in Caller, ~Abandoned(c)' PROVE Quiet(c)'
  BY DEF Calm
<1>0. /\ ~Abandoned(c) /\ Quiet(c) /\ notified[c] \in Nat /\ ticket[c] \in Ticket
      /\ code[ticket[c]] # "Last" => code'[ticket[c]] # "Last"
  <2>1. notified[c] \in Nat /\ ticket[c] \in Ticket
    BY DEF TypeOK
  <2>2. ~Abandoned(c)
    BY AbandonedStable
  <2> QED BY <2>1, <2>2, CodeStable DEF Calm
<1>1. ASSUME ticket'[c] = ticket[c], pc'[c] = pc[c], notified'[c] = notified[c]
      PROVE  Quiet(c)'
  BY <1>0, <1>1
<1>2. ASSUME NEW d \in Caller, Ask(d) PROVE Quiet(c)'
  <2>1. CASE c = d
    BY <1>0, <1>2, <2>1 DEF Ask, Add, TypeOK
  <2>2. CASE c # d
    BY <1>0, <1>1, <1>2, <2>2 DEF Ask, Add, TypeOK
  <2> QED BY <2>1, <2>2
<1>3. ASSUME NEW d \in Caller, Wait(d) PROVE Quiet(c)'
  <2>1. CASE c # d
    <3>1. ticket'[c] = ticket[c] /\ pc'[c] = pc[c] /\ notified'[c] = notified[c]
      BY <1>0, <1>3, <2>1 DEF Wait, Check, Take, TakeTimeout, GiveUp, Return, TypeOK
    <3> QED BY <1>1, <3>1
  <2>2. CASE c = d /\ Take(d)
    <3>1. /\ notified[c] > 0 /\ notified'[c] = 0 /\ pc'[c] = "woken" /\ ticket' = ticket
      BY <1>0, <2>2 DEF Take, TypeOK
    <3> QED BY <1>0, <3>1
  <2>3. CASE c = d /\ (Check(d) \/ Return(d))
    <3>1. /\ notified' = notified /\ ticket' = ticket
          /\ pc[c] \notin {"blocked", "late"} /\ pc'[c] # "woken"
      BY <1>0, <2>3 DEF Check, Return, TypeOK
    <3> QED BY <1>0, <3>1
  <2>4. CASE c = d /\ TakeTimeout(d)
    <3>1. /\ notified' = notified /\ ticket' = ticket /\ pc'[c] = "late"
      BY <1>0, <2>4 DEF TakeTimeout, TypeOK
    <3> QED BY <1>0, <3>1
  <2>5. CASE c = d /\ GiveUp(d)
    <3>1. /\ UNCHANGED <<notified, ticket, owner, code>> /\ pc'[c] = "idle"
          /\ pc[c] # "idle" /\ answer' = [answer EXCEPT ![ticket[c]] = "expired"]
      BY <1>0, <2>5 DEF GiveUp, TypeOK, queueVars, futureVars
    <3>2. owner'[ticket[c]] = c /\ answer'[ticket[c]] = "expired"
      BY <1>0, <3>1 DEF Waiting, TypeOK
    <3>3. code[ticket[c]] = "Last"
      BY <1>0, <3>1, <3>2 DEF Abandoned
    <3> QED BY <1>0, <3>1, <3>3
  <2> QED BY <1>3, <2>1, <2>2, <2>3, <2>4, <2>5 DEF Wait
<1>4. CASE Signal
  <2>1. UNCHANGED <<ticket, pc>> /\ epc = "broadcast" /\ tasks[Current] # <<>>
        /\ notified' = [notified EXCEPT ![Head(tasks[Current])] = @ + 1]
    BY <1>4 DEF Signal
  <2>2. Current \in Ticket /\ code[Current] # "Last"
    BY <2>1, BroadcastLemma
  <2>3. Head(tasks[Current]) \in Caller /\ Head(tasks[Current]) = owner[Current]
    <3>1. tasks[Current] \in Seq(Caller)
      BY <2>2 DEF TypeOK
    <3>2. Head(tasks[Current]) \in Caller /\ Head(tasks[Current]) \in Entries(tasks[Current])
      BY <2>1, <3>1, TailLemma
    <3> QED BY <2>2, <3>2 DEF OwnHandles
  <2>4. CASE Head(tasks[Current]) # c
    <3>1. notified'[c] = notified[c]
      BY <1>0, <2>1, <2>4 DEF TypeOK
    <3> QED BY <1>1, <2>1, <3>1
  <2>5. CASE Head(tasks[Current]) = c
    <3>1. answer[Current] # "expired"
      BY <1>0, <2>2, <2>3, <2>5 DEF Abandoned
    <3>2. pc[c] \in {"blocked", "late"} /\ ticket[c] = Current
      BY <1>0, <2>1, <2>2, <2>3, <2>5, <3>1 DEF QueuedOnce
    <3> QED BY <1>0, <2>1, <2>2, <3>2
  <2> QED BY <2>4, <2>5
<1>5. ASSUME UNCHANGED callerVars PROVE Quiet(c)'
  <2>1. ticket' = ticket /\ pc' = pc /\ notified' = notified
    BY <1>5 DEF callerVars
  <2> QED BY <1>1, <2>1
<1>6. ASSUME NEW d \in Caller, AddRefused(d) PROVE UNCHANGED callerVars
  BY <1>6 DEF AddRefused, vars
<1>7. CASE RunEmpty \/ Swap \/ Notify \/ Done
  BY <1>5, <1>7 DEF RunEmpty, Swap, Notify, Done, vars
<1>8. ASSUME NEW r \in Result, Call(r) \/ CallReschedules(r) PROVE UNCHANGED callerVars
  BY <1>8 DEF Call, CallReschedules, Ran
<1> HIDE DEF Quiet
<1> QED
  BY <1>2, <1>3, <1>4, <1>5, <1>6, <1>7, <1>8 DEF Next, Main

LEMMA CapturesStep ==
  ASSUME TypeOK, QueueOrder, CodeOrder, Waiting, Unused, CapturesAlive, Next
  PROVE  CapturesAlive'
<1> DEFINE Alive(t, c) == \/ ticket[c] = t /\ pc[c] # "idle"
                          \/ limit[t] = "finite" /\ answer[t] = "expired"
<1> SUFFICES ASSUME NEW t \in Ticket, NEW c \in Caller, owner'[t] = c, Finished' < t
             PROVE  Alive(t, c)'
  BY DEF CapturesAlive
<1>0. /\ t \in Nat /\ added \in Nat /\ Finished \in Nat /\ Started \in Nat
      /\ c # NoCaller /\ ticket[c] \in Ticket
      /\ owner[t] = c /\ Finished < t => Alive(t, c)
      /\ owner[t] = c => t <= added
  <2>1. t \in Nat /\ added \in Nat
    BY BoundsAssumption DEF TypeOK, Ticket
  <2>2. Finished \in Nat /\ Started \in Nat
    BY CurrentLemma
  <2>3. ticket[c] \in Ticket
    BY DEF TypeOK
  <2>4. c # NoCaller
    BY CallersAssumption
  <2>5. owner[t] = c /\ Finished < t => Alive(t, c)
    BY DEF CapturesAlive
  <2>6. owner[t] = c => t <= added
    BY <2>1, <2>4 DEF Unused
  <2> QED BY <2>1, <2>2, <2>3, <2>4, <2>5, <2>6
<1>1. ASSUME owner[t] = c, limit[t] = "finite", answer[t] = "expired" PROVE Alive(t, c)'
  BY <1>0, <1>1, RequestStable
<1>2. ASSUME NEW d \in Caller, Ask(d) PROVE Alive(t, c)'
  <2>1. /\ owner' = [owner EXCEPT ![added + 1] = d] /\ Finished' = Finished
        /\ pc[d] = "idle" /\ pc' = [pc EXCEPT ![d] = "wait"]
        /\ ticket' = [ticket EXCEPT ![d] = added + 1]
    BY <1>2, ProgressLemma DEF Ask, Add, Push
  <2>2. CASE t = added + 1
    <3>1. c = d
      BY <2>1, <2>2 DEF TypeOK
    <3> QED BY <2>1, <2>2, <3>1 DEF TypeOK
  <2>3. CASE t # added + 1
    <3>1. owner[t] = c /\ Finished < t
      BY <2>1, <2>3 DEF TypeOK
    <3>2. CASE ticket[c] = t /\ pc[c] # "idle"
      BY <2>1, <3>2 DEF TypeOK
    <3> QED BY <1>0, <1>1, <3>1, <3>2
  <2> QED BY <2>2, <2>3
<1>3. ASSUME NEW d \in Caller, Wait(d) PROVE Alive(t, c)'
  <2>1. owner[t] = c /\ Finished < t
    BY <1>3, WaitLemma, ProgressLemma DEF queueVars
  <2>2. code[t] = "Last"
    BY <1>0, <2>1 DEF CodeOrder
  <2>3. ASSUME ticket[c] = t, pc[c] # "idle" PROVE Alive(t, c)'
    <3>1. CASE c # d
      BY <1>3, <2>3, <3>1 DEF Wait, Check, Take, TakeTimeout, GiveUp, Return, TypeOK
    <3>2. CASE c = d /\ (Check(d) \/ Take(d) \/ TakeTimeout(d))
      BY <2>3, <3>2 DEF Check, Take, TakeTimeout, TypeOK
    <3>3. CASE c = d /\ GiveUp(d)
      <4>1. limit' = limit /\ pc[c] = "late"
            /\ answer' = [answer EXCEPT ![t] = "expired"]
        BY <2>3, <3>3 DEF GiveUp, queueVars
      <4> QED BY <2>3, <4>1 DEF Waiting, TypeOK
    <3>4. c # d \/ ~Return(d)
      BY <2>2, <2>3 DEF Return, Waiting
    <3> QED BY <1>3, <3>1, <3>2, <3>3, <3>4 DEF Wait
  <2> QED BY <1>0, <1>1, <2>1, <2>3
<1>4. ASSUME owner[t] = c, Finished < t, ticket' = ticket, pc' = pc PROVE Alive(t, c)'
  BY <1>0, <1>1, <1>4
<1>5. ASSUME NEW r \in Result, Call(r) \/ CallReschedules(r) PROVE Alive(t, c)'
  <2>1. Finished' = Finished /\ ticket' = ticket /\ pc' = pc
    BY <1>5, ProgressLemma DEF Call, CallReschedules, Ran, callerVars
  <2>2. owner[t] = c
    BY <1>0, <1>5 DEF Call, CallReschedules, Push, TypeOK
  <2> QED BY <1>4, <2>1, <2>2
<1>6. CASE RunEmpty \/ Swap \/ Notify \/ Signal \/ Done
  <2>1. owner' = owner /\ ticket' = ticket /\ pc' = pc
    BY <1>6 DEF RunEmpty, Swap, Notify, Signal, Done, vars, queueVars, callerVars
  <2>2. Finished <= Finished' /\ Finished' \in Nat
    BY <1>0, <1>6, ProgressLemma
  <2>3. Finished < t
    BY <1>0, <2>2
  <2> QED BY <1>4, <2>1, <2>3
<1>7. ASSUME NEW d \in Caller, AddRefused(d) PROVE Alive(t, c)'
  <2>1. Finished' = Finished
    BY <1>7, ProgressLemma
  <2> QED BY <1>4, <1>7, <2>1 DEF AddRefused, vars, queueVars, callerVars
<1> HIDE DEF Alive
<1> QED
  BY <1>2, <1>3, <1>5, <1>6, <1>7 DEF Next, Main

-----------------------------------------------------------------------------
(* The theorems. *)

LEMMA InitLemma == Init => IInv
<1> SUFFICES ASSUME Init PROVE IInv
  OBVIOUS
<1>1. TypeOK
  BY BoundsAssumption DEF Init, TypeOK, Ticket, Limit
<1>2. /\ Len(write_queue) = 0 /\ Len(read_queue) = 0
      /\ Started = 0 /\ Finished = 0
  <2>1. Len(write_queue) = 0 /\ Len(read_queue) = 0
    BY DEF Init
  <2>2. added = 0 /\ pos = 1 /\ epc = "idle"
    BY DEF Init
  <2> QED BY <2>1, <2>2 DEF Started, Finished, Before
<1>3. \A t \in Ticket : ~(t <= 0) /\ Entries(tasks[t]) = {}
  <2> SUFFICES ASSUME NEW t \in Ticket PROVE ~(t <= 0) /\ Entries(tasks[t]) = {}
    OBVIOUS
  <2>1. ~(t <= 0)
    BY BoundsAssumption DEF Ticket
  <2>2. tasks[t] = <<>>
    BY DEF Init
  <2>3. DOMAIN tasks[t] = {}
    BY <2>2
  <2> QED BY <2>1, <2>3 DEF Entries
<1>4. QueueOrder
  BY <1>2 DEF Init, QueueOrder
<1>5. RunsOnceInOrder /\ CodeOrder
  BY <1>2, <1>3 DEF Init, RunsOnceInOrder, CodeOrder
<1>6. Waiting /\ Unused /\ OwnHandles
  BY <1>3 DEF Init, Waiting, Unused, OwnHandles
<1>7. NoHandleLeft /\ Reachable /\ QueuedOnce /\ Calm
  BY DEF Init, NoHandleLeft, Reachable, QueuedOnce, Calm
<1>8. CapturesAlive
  BY CallersAssumption DEF Init, CapturesAlive
<1> QED
  BY <1>1, <1>4, <1>5, <1>6, <1>7, <1>8 DEF IInv

LEMMA StepLemma == IInv /\ [Next]_vars => IInv'
<1> SUFFICES ASSUME IInv, [Next]_vars PROVE IInv'
  OBVIOUS
<1>1. CASE Next
  <2> USE <1>1 DEF IInv
  <2>1. TypeOK' /\ QueueOrder'
    BY TypeStep, QueueStep
  <2>2. RunsOnceInOrder' /\ CodeOrder'
    BY RunsStep, CodeStep
  <2>3. Waiting' /\ Unused' /\ OwnHandles'
    BY WaitingStep, UnusedStep, OwnHandlesStep
  <2>4. NoHandleLeft' /\ Reachable' /\ QueuedOnce'
    BY NoHandleStep, ReachableStep, QueuedOnceStep
  <2>5. Calm' /\ CapturesAlive'
    BY CalmStep, CapturesStep
  <2> QED BY <2>1, <2>2, <2>3, <2>4, <2>5
<1>2. CASE UNCHANGED vars
  BY <1>2 DEF vars, queueVars, futureVars, callerVars, IInv, TypeOK, QueueOrder,
     RunsOnceInOrder, CodeOrder, Waiting, Unused, OwnHandles, NoHandleLeft, Reachable,
     QueuedOnce, Calm, Abandoned, CapturesAlive, Started, Finished, Before, Locked, Current
<1> QED
  BY <1>1, <1>2

THEOREM Inductive == Spec => []IInv
BY InitLemma, StepLemma, PTL DEF Spec

\* The types of the state, the capacity of both queues among them.
THEOREM TypeCorrect == Spec => []TypeOK
<1>1. IInv => TypeOK
  BY DEF IInv
<1> QED BY <1>1, Inductive, PTL

\* Every accepted function runs exactly once, in the order of acceptance.
THEOREM FunctionsRunOnceInOrder == Spec => []RunsOnceInOrder
<1>1. IInv => RunsOnceInOrder
  BY DEF IInv
<1> QED BY <1>1, Inductive, PTL

\* No wakeup is lost: a task asleep on a future with a result has been notified,
\* or the broadcast under way still has it in its queue.
THEOREM WakeupsArrive == Spec => []NoLostWakeup
<1>1. IInv => NoLostWakeup
  <2> SUFFICES ASSUME IInv, NEW c \in Caller,
                      pc[c] = "blocked", code[ticket[c]] # "Last", ~(notified[c] > 0)
               PROVE  Locked(ticket[c]) /\ c \in Entries(tasks[ticket[c]])
    BY DEF NoLostWakeup
  <2>1. c \in Entries(tasks[ticket[c]])
    BY DEF IInv, Reachable
  <2>2. tasks[ticket[c]] # <<>>
    BY <2>1 DEF Entries
  <2>3. ticket[c] \in Ticket
    BY DEF IInv, TypeOK
  <2> QED BY <2>1, <2>2, <2>3 DEF IInv, NoHandleLeft
<1> QED BY <1>1, Inductive, PTL

\* A notified future has no task left in its condition variable.
THEOREM BroadcastsReachAll == Spec => []NoHandleLeft
<1>1. IInv => NoHandleLeft
  BY DEF IInv
<1> QED BY <1>1, Inductive, PTL

\* A task is woken without its result only when it gave up a function that has run.
THEOREM WakeupsMeanResults == Spec => []StrayWakeupsExplained
<1>1. IInv => StrayWakeupsExplained
  BY DEF IInv, Calm, StrayWakeupsExplained
<1> QED BY <1>1, Inductive, PTL

\* A caller leaves before its function has run only by giving up a limited wait,
\* whatever wakes it: what an unlimited caller captured outlives the function.
THEOREM CapturesOutliveFunctions == Spec => []CapturesAlive
<1>1. IInv => CapturesAlive
  BY DEF IInv
<1> QED BY <1>1, Inductive, PTL

\* What is outstanding fits in two full queues.
LEMMA OutstandingLemma ==
  ASSUME TypeOK, QueueOrder, HasRoom
  PROVE  added < MaxCalls /\ added - Finished < 2 * MaxEventCount
<1>1. /\ Len(write_queue) \in Nat /\ Len(read_queue) \in Nat
      /\ Len(write_queue) < MaxEventCount /\ Len(read_queue) <= MaxEventCount
      /\ MaxEventCount \in Nat /\ added \in Nat /\ pos \in Nat \ {0}
  <2>1. /\ Len(write_queue) \in Nat /\ Len(write_queue) <= MaxEventCount
        /\ Len(read_queue) \in Nat /\ Len(read_queue) <= MaxEventCount
    BY DEF TypeOK
  <2>2. MaxEventCount \in Nat /\ added \in Nat /\ pos \in Nat \ {0}
    BY BoundsAssumption DEF TypeOK
  <2>3. Len(write_queue) < MaxEventCount
    BY <2>1, <2>2 DEF HasRoom
  <2> QED BY <2>1, <2>2, <2>3
<1>2. added - Before <= Len(write_queue) + Len(read_queue)
  BY <1>1 DEF Before
<1>3. Before <= Finished /\ Before \in Nat /\ Finished \in Nat
  BY CurrentLemma DEF Finished
<1> QED BY <1>1, <1>2, <1>3 DEF HasRoom

LEMMA RefinementStep ==
  ASSUME IInv, Next
  PROVE  Promise!CallNext \/ UNCHANGED Promise!callVars
<1> USE DEF Promise!callVars
<1>0. /\ TypeOK /\ QueueOrder /\ CodeOrder /\ Waiting
      /\ added \in Nat /\ Started \in Nat /\ Finished \in Nat
      /\ Promise!Ticket = Ticket
  <2>1. TypeOK /\ QueueOrder /\ CodeOrder /\ Waiting
    BY DEF IInv
  <2>2. added \in Nat
    BY <2>1, BoundsAssumption DEF TypeOK
  <2>3. Promise!Ticket = Ticket
    BY DEF Promise!Ticket, Ticket
  <2> QED BY <2>1, <2>2, <2>3, CurrentLemma
<1>1. ASSUME NEW c \in Caller, Ask(c) PROVE Promise!Accept
  <2>1. PICK l \in Limit : Add(c, l)
    BY <1>1 DEF Ask
  <2>2. \E m \in Promise!Limit : limit' = [limit EXCEPT ![added + 1] = m]
    BY <2>1 DEF Add, Limit, Promise!Limit
  <2> QED BY <1>0, <1>1, <2>1, <2>2, OutstandingLemma, ProgressLemma
          DEF Add, Promise!Accept, futureVars
<1>2. ASSUME NEW c \in Caller, AddRefused(c) \/ Check(c) \/ Take(c) \/ TakeTimeout(c)
      PROVE  UNCHANGED Promise!callVars
  <2>1. code' = code /\ answer' = answer /\ limit' = limit
    BY <1>2 DEF AddRefused, Check, Take, TakeTimeout, vars, queueVars, futureVars, callerVars
  <2> QED BY <1>0, <1>2, <2>1, ProgressLemma DEF Wait
<1>3. ASSUME NEW c \in Caller, Return(c) PROVE Promise!Answer(ticket[c])
  <2>1. /\ ticket[c] \in Ticket /\ code[ticket[c]] # "Last"
        /\ answer[ticket[c]] = "none"
    BY <1>0, <1>3 DEF Return, Waiting, TypeOK
  <2>2. ticket[c] <= Finished
    BY <1>0, <2>1 DEF CodeOrder
  <2>3. UNCHANGED <<added, Started, Finished>> /\ code' = code /\ limit' = limit
    BY <1>0, <1>3, ProgressLemma DEF Wait, Return, queueVars, futureVars
  <2> QED BY <1>3, <2>1, <2>2, <2>3 DEF Return, Promise!Answer
<1>4. ASSUME NEW c \in Caller, GiveUp(c) PROVE Promise!Expire(ticket[c])
  <2>1. /\ ticket[c] <= added /\ answer[ticket[c]] = "none"
        /\ limit[ticket[c]] = "finite"
    BY <1>0, <1>4 DEF GiveUp, Waiting
  <2>2. UNCHANGED <<added, Started, Finished>> /\ code' = code /\ limit' = limit
    BY <1>0, <1>4, ProgressLemma DEF Wait, GiveUp, queueVars, futureVars
  <2> QED BY <1>4, <2>1, <2>2 DEF GiveUp, Promise!Expire
<1>5. CASE RunEmpty \/ Swap \/ Signal \/ Done
  <2>1. code' = code /\ answer' = answer /\ limit' = limit
    BY <1>5 DEF RunEmpty, Swap, Signal, Done, vars, queueVars, futureVars, callerVars
  <2> QED BY <1>0, <1>5, <2>1, ProgressLemma
<1>6. ASSUME NEW r \in Result, Call(r) \/ CallReschedules(r)
      PROVE  Promise!Start \/ Promise!StartAndAccept
  <2>1. code' = code /\ answer' = answer /\ limit' = limit /\ epc = "call"
    BY <1>6 DEF Call, CallReschedules, Ran, futureVars, callerVars
  <2>2. Started = Finished /\ Started' = Started + 1 /\ Finished' = Finished
        /\ Started' = Current /\ Current <= added
    BY <1>0, <1>6, <2>1, ProgressLemma, CurrentLemma
  <2>3. Started < added
    BY <1>0, <2>2
  <2>4. CASE Call(r)
    BY <1>0, <2>1, <2>2, <2>3, <2>4, ProgressLemma DEF Promise!Start
  <2>5. CASE CallReschedules(r)
    <3>1. added' = added + 1 /\ HasRoom
      BY <1>0, <2>5, ProgressLemma DEF CallReschedules
    <3> QED BY <1>0, <2>1, <2>2, <2>3, <3>1, OutstandingLemma DEF Promise!StartAndAccept
  <2> QED BY <1>6, <2>4, <2>5
<1>7. CASE Notify
  <2>1. /\ fn_result \in Result /\ answer' = answer /\ limit' = limit
        /\ code' = [code EXCEPT ![Current] = fn_result]
    BY <1>0, <1>7 DEF Notify, QueueOrder, callerVars
  <2>2. Promise!Finish(fn_result)
    <3>1. /\ added' = added /\ Started' = Started /\ Finished' = Started
          /\ Started = Finished + 1 /\ Started = Current
      BY <1>0, <1>7, ProgressLemma
    <3>2. Finished < Started
      BY <1>0, <3>1
    <3> QED BY <2>1, <3>1, <3>2 DEF Promise!Finish
  <2> QED BY <2>1, <2>2 DEF Promise!CallNext
<1>8. \A c \in Caller : ticket[c] \in Promise!Ticket
  BY <1>0 DEF TypeOK
<1> QED
  BY <1>1, <1>2, <1>3, <1>4, <1>5, <1>6, <1>7, <1>8
  DEF Next, Main, Wait, Promise!CallNext

\* The queues, futures and condition variables implement the promise: requests
\* are served one at a time and in order, at most two full queues of them are
\* outstanding, and an answer is the published result of the caller's own function.
THEOREM ImplementsPromise == Spec => KeepsPromise
<1>1. Init => Promise!CallInit
  <2> SUFFICES ASSUME Init PROVE Promise!CallInit
    OBVIOUS
  <2>1. added = 0 /\ pos = 1 /\ epc = "idle" /\ Len(write_queue) = 0 /\ Len(read_queue) = 0
    BY DEF Init
  <2>2. Started = 0 /\ Finished = 0
    BY <2>1 DEF Started, Finished, Before
  <2> QED BY <2>1, <2>2 DEF Init, Promise!CallInit, Promise!Ticket, Ticket
<1>2. IInv /\ [Next]_vars => [Promise!CallNext]_(Promise!callVars)
  <2>1. UNCHANGED vars => UNCHANGED Promise!callVars
    BY DEF vars, queueVars, futureVars, callerVars, Promise!callVars,
           Started, Finished, Before
  <2> QED BY <2>1, RefinementStep
<1> QED
  BY <1>1, <1>2, Inductive, PTL DEF Spec, KeepsPromise, Promise!CallSpec
=============================================================================
