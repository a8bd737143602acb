------------------------------ MODULE ApNetwork ------------------------------
(***************************************************************************)
(* The access point a device opens, and the HTTP server that runs while    *)
(* it is up: ApNetwork, the FanoutNetworkHandler and the HttpPipeline it   *)
(* tells, and Server on the httpd of ESP-IDF.                              *)
(*                                                                         *)
(* Three tasks share the mutex mu_.  The application's task starts the     *)
(* network, waits for it on a condition variable and may stop it.  The     *)
(* event task of ESP-IDF handles the events of the driver one by one; it   *)
(* holds mu_ while it starts or stops the server.  The server's task       *)
(* serves one request at a time; telemetry and registration ask the        *)
(* network for its state, and that takes mu_.  httpd_stop (external)       *)
(* returns when the request being served has been answered.                *)
(***************************************************************************)
EXTENDS Integers, Sequences

CONSTANTS
  MaxJoins,   \* bound: stations that join, ever
  Byte,       \* connection_count_ is a uint8_t
  Forever     \* WaitNetworkRunner waits with portMAX_DELAY

ASSUME ApAssumption == MaxJoins \in Nat /\ Byte \in Nat \ {0} /\ Forever \in BOOLEAN

VARIABLES
  app,        \* where the application's task is
  ap,         \* the driver: "off", "on", "stopped" by the application
  apEvents,   \* events it posted and the event task has not handled
  stations,   \* the stations that are joined
  joins,      \* history: how many ever joined
  mu,         \* mu_: the event task holds it while it calls the handlers, or nobody
  apCode,     \* code_
  connection_count,
  call,       \* the handler the event task calls: "connect", "stopping" or none
  httpd,      \* the server: "off", "on"
  request     \* the request the server's task is at

apVars == <<app, ap, apEvents, stations, joins, mu, apCode, connection_count, call,
            httpd, request>>

ApTypeOK ==
  /\ app \in {"new", "checking", "waiting", "signalled", "up", "failed", "stopped"}
  /\ ap \in {"off", "on", "stopped"} /\ mu \in {"event", "none"}
  /\ apEvents \in Seq({"START", "STOP", "JOIN", "LEAVE"})
  /\ stations \in 0..MaxJoins /\ joins \in stations..MaxJoins
  /\ apCode \in {"Last", "OK", "Error"}
  /\ connection_count \in 0..(Byte - 1)
  /\ call \in {"none", "connect", "disconnect", "stopping"}
  /\ httpd \in {"off", "on"}
  /\ request \in {"none", "plain", "info", "answer"}

ApInit == /\ app = "new" /\ ap = "off" /\ apEvents = <<>>
          /\ stations = 0 /\ joins = 0
          /\ mu = "none" /\ apCode = "Last" /\ connection_count = 0
          /\ call = "none" /\ httpd = "off" /\ request = "none"

wifiVars == <<ap, apEvents, stations, joins>>
loopVars == <<mu, apCode, connection_count, call>>

-----------------------------------------------------------------------------
(* The application's task: WaitNetworkRunner on ApNetwork *)

\* ApNetwork::start: esp_wifi_set_config or esp_wifi_start may fail; then stop is
\* called, which has nothing to stop.
StartAp == /\ app = "new"
           /\ \/ /\ app' = "checking" /\ ap' = "on"
                 /\ apEvents' = Append(apEvents, "START")
              \/ app' = "failed" /\ UNCHANGED <<ap, apEvents>>
           /\ UNCHANGED <<stations, joins, loopVars, httpd, request>>

\* ApNetwork::wait, its loop: the code is there, or the condition variable is next.
Check == /\ app \in {"checking", "signalled"} /\ mu = "none"
         /\ app' = CASE apCode = "OK" -> "up" [] apCode = "Error" -> "failed"
                      [] apCode = "Last" -> "waiting"
         /\ UNCHANGED <<wifiVars, loopVars, httpd, request>>

\* esp_wifi_stop, by the application or by the runner; a second stop does nothing.
\* What becomes of joined stations is the driver's: each may be announced to leave.
PostStop == /\ ap' = "stopped" /\ stations' = 0
            /\ \E n \in 0..stations :
                 apEvents' = apEvents \o [i \in 1..n |-> "LEAVE"] \o <<"STOP">>

StopAp == /\ app = "up" /\ app' = "stopped"
          /\ PostStop
          /\ UNCHANGED <<joins, loopVars, httpd, request>>

\* Cond::wait gives up, and the runner stops the network.  That it then also resets and
\* reboots (ResetNetworkRunner) ends the behaviour here; StaNetwork models it.
WaitTimesOut == /\ app = "waiting" /\ ~Forever /\ mu = "none"
                /\ app' = "stopped"
                /\ PostStop
                /\ UNCHANGED <<joins, loopVars, httpd, request>>

-----------------------------------------------------------------------------
(* The driver (external) *)

Join == /\ ap = "on" /\ joins < MaxJoins
        /\ stations' = stations + 1 /\ joins' = joins + 1
        /\ apEvents' = Append(apEvents, "JOIN")
        /\ UNCHANGED <<app, ap, loopVars, httpd, request>>
Leave == /\ ap = "on" /\ stations > 0
         /\ stations' = stations - 1
         /\ apEvents' = Append(apEvents, "LEAVE")
         /\ UNCHANGED <<app, ap, joins, loopVars, httpd, request>>

-----------------------------------------------------------------------------
(* The event task *)

Handles(e) == /\ call = "none" /\ mu = "none"
              /\ apEvents # <<>> /\ Head(apEvents) = e
              /\ apEvents' = Tail(apEvents)
              /\ UNCHANGED <<ap, stations, joins, httpd, request>>

\* cond_.broadcast().  Mutant: it is forgotten.
Broadcast_not == UNCHANGED app
Broadcast == app' = IF app = "waiting" THEN "signalled" ELSE app

\* handle_wifi_event_ap_sta_start_, up to the call of the handlers under mu_.
HandleStart == /\ Handles("START")
               /\ apCode' = "OK" /\ Broadcast
               /\ mu' = "event" /\ call' = "connect"
               /\ UNCHANGED connection_count

\* handle_wifi_event_ap_sta_stop_.
HandleStop == /\ Handles("STOP")
              /\ apCode' = "Error" /\ Broadcast
              /\ mu' = "event" /\ call' = "disconnect"
              /\ UNCHANGED connection_count

HandleJoin == /\ Handles("JOIN")
              /\ connection_count' = (connection_count + 1) % Byte
              /\ UNCHANGED <<app, mu, apCode, call>>
\* Mutant: a station that leaves is counted twice.
HandleLeave_twice == /\ Handles("LEAVE")
                     /\ connection_count' = (connection_count + Byte - 2) % Byte
                     /\ UNCHANGED <<app, mu, apCode, call>>
HandleLeave == /\ Handles("LEAVE")
               /\ connection_count' = (connection_count + Byte - 1) % Byte
               /\ UNCHANGED <<app, mu, apCode, call>>

Unlock == mu' = "none" /\ call' = "none"

\* HttpPipeline::handle_connect: httpd_start may fail, which is logged.
Connect == /\ call = "connect"
           /\ httpd' \in {"on", "off"}
           /\ Unlock
           /\ UNCHANGED <<app, wifiVars, apCode, connection_count, request>>

\* HttpPipeline::handle_disconnect: Server::stop, with or without a handle.
Disconnect == /\ call = "disconnect"
              /\ IF httpd = "on" THEN call' = "stopping" /\ UNCHANGED mu ELSE Unlock
              /\ UNCHANGED <<app, wifiVars, apCode, connection_count, httpd, request>>
\* Mutant: the handle is forgotten and the server is not stopped.
HttpdStops_not == /\ call = "stopping" /\ request = "none"
                  /\ Unlock
                  /\ UNCHANGED <<app, wifiVars, apCode, connection_count, httpd,
                                 request>>
HttpdStops == /\ call = "stopping" /\ request = "none"
              /\ httpd' = "off"
              /\ Unlock
              /\ UNCHANGED <<app, wifiVars, apCode, connection_count, request>>

-----------------------------------------------------------------------------
(* The server's task *)

\* A request arrives; httpd_stop lets the one being served finish.
Request(r) == /\ httpd = "on" /\ call # "stopping" /\ request = "none"
              /\ request' = r
              /\ UNCHANGED <<app, wifiVars, loopVars, httpd>>

\* DataHandler: the formatter of the network asks get_info, under mu_.
GetInfo == /\ request = "info" /\ mu = "none"
           /\ request' = "answer"
           /\ UNCHANGED <<app, wifiVars, loopVars, httpd>>

AnswerRequest == /\ request \in {"plain", "answer"}
                 /\ request' = "none"
                 /\ UNCHANGED <<app, wifiVars, loopVars, httpd>>

EventTask == \/ HandleStart \/ HandleStop \/ HandleJoin \/ HandleLeave
             \/ Connect \/ Disconnect \/ HttpdStops
ServerTask == GetInfo \/ AnswerRequest
ApNext == \/ StartAp \/ Check \/ StopAp \/ WaitTimesOut
          \/ Join \/ Leave
          \/ EventTask \/ ServerTask
          \/ \E r \in {"plain", "info"} : Request(r)

\* The tasks of ESP-IDF and the application's are all scheduled.
ApFairness == /\ WF_apVars(EventTask) /\ WF_apVars(ServerTask)
              /\ WF_apVars(Check)

ApSpec == ApInit /\ [][ApNext]_apVars /\ ApFairness

-----------------------------------------------------------------------------
(* Properties *)

\* The server does not outlive the access point: when every event has been handled,
\* a stopped network has no server.
NoServerWithoutAp ==
  ap = "stopped" /\ apEvents = <<>> /\ call = "none" => httpd = "off"

\* The number of connections that telemetry shows never wraps around: whatever
\* joins and leaves while a stop is under way, it is at most the stations joined.
CountNeverWraps == connection_count <= joins

\* A caller of wait that set no limit is woken when the access point starts.
Asks == app \in {"checking", "waiting", "signalled"}
WaitEnds == Asks ~> ~Asks

\* iserver.h:24, of stop: "Stop HTTP server."  When the network stops, the server stops,
\* whatever it is serving.
ServerStops == call = "stopping" ~> httpd = "off"
=============================================================================
