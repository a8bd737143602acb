------------------------------- MODULE MCServices -------------------------------
(***************************************************************************)
(* The services of a device that share no state, checked in one run: a     *)
(* behaviour is about one of them, part, and the others rest in one of     *)
(* their initial states.                                                   *)
(***************************************************************************)
EXTENDS NetworkConfig, PersistentCounters, AsyncTasks, ApNetwork, HttpResponse,
        JsonDocument

VARIABLE part

MCPrefix == {<<"home", "homestead">>}
MCTask == 1 .. 3

\* The device's documents meet the hypothesis under which they are proved sound.
ASSUME MCServicesAssumption == \A d \in Document : KeysDiffer(d)

Rests(p, atRest) == part = p \/ atRest

Init ==
  /\ part \in {"config", "counters", "tasks", "ap", "response", "document"}
  /\ ConfigInit /\ Rests("config", kind = "mdns")
  /\ CounterInit /\ TasksInit /\ ApInit
  /\ RespInit /\ Rests("response", uri = "root" /\ size = 0)
  /\ JsonInit /\ Rests("document", doc = StaHandlerGet)

Does(p, step_, others) == part = p /\ step_ /\ UNCHANGED <<part, others>>

Next ==
  \/ Does("config", ConfigNext, <<counterVars, taskVars, apVars, respVars, jsonVars>>)
  \/ Does("counters", CounterNext, <<configVars, taskVars, apVars, respVars, jsonVars>>)
  \/ Does("tasks", TasksNext, <<configVars, counterVars, apVars, respVars, jsonVars>>)
  \/ Does("ap", ApNext, <<configVars, counterVars, taskVars, respVars, jsonVars>>)
  \/ Does("response", RespNext, <<configVars, counterVars, taskVars, apVars, jsonVars>>)
  \/ Does("document", JsonNext, <<configVars, counterVars, taskVars, apVars, respVars>>)

vars == <<part, configVars, counterVars, taskVars, apVars, respVars, jsonVars>>

\* The fairness of AsyncTasks and of ApNetwork, for the part that acts.
Fairness == /\ WF_taskVars(part = "tasks" /\ Scheduler)
            /\ WF_apVars(part = "ap" /\ EventTask)
            /\ WF_apVars(part = "ap" /\ ServerTask)
            /\ WF_apVars(part = "ap" /\ Check)

Spec == Init /\ [][Next]_vars /\ Fairness

\* The types of all of them.
TypeOK == /\ ConfigTypeOK /\ CounterTypeOK /\ TasksTypeOK /\ ApTypeOK /\ RespTypeOK
          /\ JsonTypeOK
=============================================================================
