------------------------------- MODULE FsmStore -------------------------------
(***************************************************************************)
(* FsmStore: runs the handlers of the current state of an FsmBlock and takes *)
(* the block through a transition in two of its runs.  The run that finds  *)
(* the block ready to transit marks the beginning; the next run tells the  *)
(* handlers of the state that is left, has the block transit, and goes on  *)
(* with the handlers of the state entered.                                 *)
(*                                                                         *)
(* The store, the periodic save of the block and its reboot handler are    *)
(* tasks of one scheduler: they do not run inside each other, the restart  *)
(* of the device may come at any point of any of them.                     *)
(***************************************************************************)
EXTENDS FsmBlock

CONSTANTS Handled,  \* states some handler was added for
          Asked     \* what handlers and other code give to set_next

ASSUME HandlersAssumption == 0 \in Handled /\ Asked \subseteq Handled
                             /\ Handled \subseteq State

VARIABLES is_transit_begin,  \* is_transit_begin_
          step,              \* where FsmStore::run is
          settled            \* history: handle_state ran for the current state

storeVars == <<is_transit_begin, step, settled>>
allVars == <<blockVars, storeVars>>

StoreInit == /\ BlockInit
             /\ is_transit_begin = FALSE
             /\ step = "idle"
             /\ settled = FALSE

\* run: the duration is brought up to date first.
StartRun == /\ step = "idle"
            /\ ~is_transit_begin
            /\ Update
            /\ step' = "state"
            /\ UNCHANGED <<is_transit_begin, settled>>

\* configASSERT in handle_state_ and handle_transit_end_.
HasHandlers == curr_state \in Handled

\* run and handle_transit_end_, up to the first write of the block.  Whatever
\* handle_transit and the writes return, the transition is over.
\* Mutant: a transition ends in the run that could have begun it.
EndTransit_atOnce ==
  /\ step = "idle" /\ Idle
  /\ is_in_transit
  /\ HasHandlers
  /\ EnterNext(Duration)
  /\ BeginSave("transit")
  /\ is_transit_begin' = FALSE
  /\ step' = "state"
  /\ settled' = FALSE
  /\ UNCHANGED <<now, nvsVars, bootVars, total>>
EndTransit ==
  /\ step = "idle" /\ Idle
  /\ is_transit_begin
  /\ HasHandlers
  /\ EnterNext(Duration)
  /\ BeginSave("transit")
  /\ is_transit_begin' = FALSE
  /\ step' = "state"
  /\ settled' = FALSE
  /\ UNCHANGED <<now, nvsVars, bootVars, total>>

\* handle_state_ of the current state's handlers, one of which may ask for a
\* state, then handle_transit_begin_.
HandleState(s) ==
  /\ step = "state" /\ Idle
  /\ HasHandlers
  /\ s \in Asked \cup {next_state}
  /\ SetNext(s)
  /\ is_transit_begin' = is_in_transit'
  /\ step' = "idle"
  /\ settled' = TRUE

\* set_next by other code of the same scheduler, between two runs.
Ask(s) == /\ step = "idle"
          /\ SetNext(s)
          /\ UNCHANGED storeVars

\* The block's own tasks run between two runs of the store, its writes whenever a
\* save is under way.
BlockTask == /\ \/ step = "idle" /\ (Run \/ HandleReboot \/ Tick)
                \/ WriteKey \/ WriteFails
             /\ UNCHANGED storeVars

StoreRestart == /\ \E n \in 0..Len(Keys) : Restart(n)
                /\ is_transit_begin' = FALSE
                /\ step' = "idle"
                /\ settled' = FALSE

StoreNext == \/ StartRun
             \/ EndTransit
             \/ \E s \in State : HandleState(s)
             \/ \E s \in Asked : Ask(s)
             \/ BlockTask
             \/ StoreRestart

StoreSpec == StoreInit /\ [][StoreNext]_allVars

-----------------------------------------------------------------------------
\* The assertions of the store never fire, whatever the last restart could read:
\* a record cut short, or one mixed from two saves, leaves a state with handlers.
AssertionsHold == (step = "state" /\ Idle) \/ (step = "idle" /\ is_transit_begin)
                    => HasHandlers

Transits == saver = "none" /\ saver' = "transit"

\* No state is passed over: the machine leaves a state only after a run of the
\* store, since the state was entered or restored, handled it, and after that
\* run announced the transition.
LeavesHandledState == [][Transits => settled /\ is_transit_begin]_allVars
=============================================================================
