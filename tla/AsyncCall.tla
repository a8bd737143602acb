------------------------------ MODULE AsyncCall ------------------------------
(***************************************************************************)
(* What the asynchronous-function service promises to the tasks that use   *)
(* it, whatever the queues, condition variables and task notifications     *)
(* underneath do.  A request is accepted, its function runs once, after    *)
(* the functions of all earlier requests and on its own, its result is     *)
(* published, and the requester gets that result, or gives up if its       *)
(* request has a time limit.                                               *)
(***************************************************************************)
EXTENDS Integers, FiniteSets

CONSTANTS MaxEventCount,  \* capacity given to AsyncFuncScheduler
          MaxCalls,       \* bound on the requests a behaviour accepts
          Result          \* the status codes a function may return

Ticket == 1..MaxCalls
Limit  == {"finite", "forever"}  \* how long a requester may wait

VARIABLES accepted,  \* number of requests accepted so far
          started,   \* number of requests whose function was started
          finished,  \* number of requests whose result was published
          limit,     \* the limit on the wait for each request
          result,    \* what each function returned
          answer     \* what each requester was told

callVars == <<accepted, started, finished, limit, result, answer>>

CallInit == /\ accepted = 0 /\ started = 0 /\ finished = 0
            /\ limit  = [t \in Ticket |-> "forever"]
            /\ result = [t \in Ticket |-> "Last"]
            /\ answer = [t \in Ticket |-> "none"]

\* One batch may be running while another one is being collected.
Accept == /\ accepted < MaxCalls
          /\ accepted - finished < 2 * MaxEventCount
          /\ accepted' = accepted + 1
          /\ \E l \in Limit : limit' = [limit EXCEPT ![accepted + 1] = l]
          /\ UNCHANGED <<started, finished, result, answer>>

\* The oldest request is started, once the previous one has finished.
Start == /\ started = finished
         /\ started < accepted
         /\ started' = started + 1
         /\ UNCHANGED <<accepted, finished, limit, result, answer>>

\* A function that asks for another one while it runs has it queued before
\* it is seen to have run.
StartAndAccept == /\ started = finished
                  /\ started < accepted
                  /\ accepted < MaxCalls
                  /\ accepted - finished < 2 * MaxEventCount
                  /\ started' = started + 1
                  /\ accepted' = accepted + 1
                  /\ UNCHANGED <<finished, limit, result, answer>>

Finish(r) == /\ finished < started
             /\ finished' = started
             /\ result' = [result EXCEPT ![started] = r]
             /\ UNCHANGED <<accepted, started, limit, answer>>

\* A requester is told the result of its own function, never before it ran.
Answer(t) == /\ t <= finished
             /\ answer[t] = "none"
             /\ answer' = [answer EXCEPT ![t] = result[t]]
             /\ UNCHANGED <<accepted, started, finished, limit, result>>

\* Only a request with a limit is ever given up.
Expire(t) == /\ t <= accepted
             /\ limit[t] = "finite"
             /\ answer[t] = "none"
             /\ answer' = [answer EXCEPT ![t] = "expired"]
             /\ UNCHANGED <<accepted, started, finished, limit, result>>

CallNext == \/ Accept
            \/ Start
            \/ StartAndAccept
            \/ \E r \in Result : Finish(r)
            \/ \E t \in Ticket : Answer(t) \/ Expire(t)

CallSpec == CallInit /\ [][CallNext]_callVars
=============================================================================
