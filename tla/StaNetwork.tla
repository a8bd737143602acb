------------------------------ MODULE StaNetwork ------------------------------
(***************************************************************************)
(* How a device joins a WiFi network and what it does when it cannot:      *)
(* StaNetwork, the WaitNetworkRunner and ResetNetworkRunner around it, and *)
(* the choice SelectNetworkPipeline makes at every start.                  *)
(*                                                                         *)
(* Three parties interleave.  The application's task starts the network,   *)
(* waits for an event bit, and on failure stops the network, erases its    *)
(* configuration and reboots.  The event task of ESP-IDF handles the WiFi  *)
(* events one by one: it sets and clears the bits, retries, and tells the  *)
(* HTTP pipeline to start or stop the server.  The WiFi driver (external)  *)
(* joins, loses and refuses, and posts the events.                         *)
(*                                                                         *)
(* The access point that a device without configuration opens is only the  *)
(* mode "ap" here: the user provisions the station over it.                *)
(***************************************************************************)
EXTENDS Integers, Sequences, FiniteSets

CONSTANT MaxRetry  \* StaNetworkConfig::get_max_retry_count()

ASSUME RetryAssumption == MaxRetry \in Nat \ {0}

VARIABLES
  config,       \* the STA configuration in flash: "valid" or "erased"
  mode,         \* the network of this start: "sta" or "ap"
  main,         \* where the application's task is in start()
  seen,         \* the bits xEventGroupWaitBits woke it with
  bits,         \* event_group_
  retry_count,  \* retry_count_
  loop,         \* the callback the event task has yet to make
  server,       \* the HTTP server
  wifi,         \* the driver
  events,       \* events it posted and the event task has not handled
  \* History, for the properties.
  refused,      \* an esp_wifi_connect returned an error, in this start
  faults        \* what went wrong on the device itself, ever

mainVars  == <<config, mode, main, seen>>
loopVars  == <<bits, retry_count, loop, server>>
wifiVars  == <<wifi, events>>
histVars  == <<refused, faults>>
vars == <<mainVars, loopVars, wifiVars, histVars>>

\* SelectNetworkPipeline: a station if its configuration is valid.
Boot == /\ UNCHANGED config
        /\ mode' = IF config = "valid" THEN "sta" ELSE "ap"
        /\ main' = "start" /\ seen' = {}
        /\ bits' = {} /\ retry_count' = 0
        /\ loop' = "idle" /\ server' = "off"
        /\ wifi' = "off" /\ events' = <<>>
        /\ refused' = FALSE

Init == /\ config = "valid" /\ mode = "sta"
        /\ main = "start" /\ seen = {}
        /\ bits = {} /\ retry_count = 0
        /\ loop = "idle" /\ server = "off"
        /\ wifi = "off" /\ events = <<>>
        /\ refused = FALSE /\ faults = {}

Sta(m) == mode = "sta" /\ main = m
Post(e) == events' = Append(events, e)

-----------------------------------------------------------------------------
(* The application's task. *)

\* StaNetwork::start.
Start == /\ Sta("start")
         /\ \/ main' = "started" /\ wifi' = "idle" /\ Post("start")
               /\ UNCHANGED faults
            \/ main' = "stop" /\ faults' = faults \cup {"start"}
               /\ UNCHANGED wifiVars
         /\ UNCHANGED <<config, mode, seen, loopVars, refused>>

\* StaNetwork::wait is called: a bit is already set, or the task blocks.
Wait == /\ Sta("started")
        /\ IF bits = {} THEN main' = "waiting" /\ UNCHANGED seen
                        ELSE main' = "woken" /\ seen' = bits
        /\ UNCHANGED <<config, mode, loopVars, wifiVars, histVars>>

\* StaNetwork::wait returns what the bits say.  Mutant: the test is inverted.
Woken_inverted == /\ Sta("woken")
                  /\ main' = IF "FAILED" \in seen THEN "up" ELSE "stop"
                  /\ UNCHANGED <<config, mode, seen, loopVars, wifiVars, histVars>>
Woken == /\ Sta("woken")
         /\ main' = IF "CONNECTED" \in seen THEN "up" ELSE "stop"
         /\ UNCHANGED <<config, mode, seen, loopVars, wifiVars, histVars>>

\* The wait interval is over and no bit is set: configASSERT(false).
WaitTimeout == /\ Sta("waiting")
               /\ main' = "aborted"
               /\ faults' = faults \cup {"timeout"}
               /\ UNCHANGED <<config, mode, seen, loopVars, wifiVars, refused>>

\* WaitNetworkRunner::stop; an error of esp_wifi_stop is only logged.
Stop == /\ Sta("stop")
        /\ main' = "reset"
        /\ \/ /\ wifi' = "off"
              /\ IF wifi \in {"connecting", "connected"}
                 THEN Post("disconnected") ELSE UNCHANGED events
              /\ UNCHANGED faults
           \/ faults' = faults \cup {"stop"} /\ UNCHANGED wifiVars
        /\ UNCHANGED <<config, mode, seen, loopVars, refused>>

\* ResetNetworkRunner::reset_, up to the call of the rebooter.
\* Mutant: the device reboots without erasing.
Reset_rebootOnly == /\ Sta("reset")
                    /\ main' = "reboot"
                    /\ UNCHANGED <<config, mode, seen, loopVars, wifiVars, histVars>>
Reset == /\ Sta("reset")
         /\ main' = "reboot"
         /\ \/ config' = "erased" /\ UNCHANGED faults
            \/ faults' = faults \cup {"erase"} /\ UNCHANGED config
         /\ UNCHANGED <<mode, seen, loopVars, wifiVars, refused>>

\* esp_restart, or the panic handler after a failed assertion.
Restart == /\ main \in {"reboot", "aborted"}
           /\ Boot
           /\ UNCHANGED faults

\* The user writes the STA configuration over the access point; the HTTP handler
\* has the device reboot.
Provision == /\ mode = "ap" /\ main = "start"
             /\ config' = "valid"
             /\ main' = "reboot"
             /\ UNCHANGED <<mode, seen, loopVars, wifiVars, histVars>>

PowerCut == /\ Boot
            /\ faults' = faults \cup {"power"}

-----------------------------------------------------------------------------
(* The event task.  Event bits wake the application's task if it is blocked. *)

SetBit(b) == /\ bits' = bits \cup {b}
             /\ IF main = "waiting" THEN main' = "woken" /\ seen' = bits'
                                    ELSE UNCHANGED <<main, seen>>

\* esp_wifi_connect: it may fail, and does when the driver is stopped.
Connect(queue) ==
  /\ events' = queue
  /\ \/ wifi = "idle" /\ wifi' = "connecting" /\ UNCHANGED refused
     \/ refused' = TRUE /\ UNCHANGED wifi

Due(e) == loop = "idle" /\ events # <<>> /\ Head(events) = e

\* handle_wifi_event_sta_start_: an error is only logged.
HandleStart == /\ Due("start")
               /\ Connect(Tail(events))
               /\ UNCHANGED <<mainVars, loopVars, faults>>

\* handle_wifi_event_sta_disconnected_, up to the callback.
Retry == /\ retry_count < MaxRetry
         /\ retry_count' = retry_count + 1
         /\ bits' = bits \ {"CONNECTED"}
         /\ Connect(Tail(events))
         /\ UNCHANGED <<main, seen>>

\* The waiting task can see nothing between the clear and the set.
GiveUp == /\ retry_count >= MaxRetry
          /\ bits' = (bits \ {"CONNECTED"}) \cup {"FAILED"}
          /\ IF main = "waiting" THEN main' = "woken" /\ seen' = bits'
                                 ELSE UNCHANGED <<main, seen>>
          /\ events' = Tail(events)
          /\ UNCHANGED <<retry_count, wifi, refused>>

HandleDisconnected == /\ Due("disconnected")
                      /\ Retry \/ GiveUp
                      /\ loop' = "disconnect"
                      /\ UNCHANGED <<config, mode, server, faults>>

\* handle_ip_event_sta_got_ip_, up to the callback.
HandleGotIp == /\ Due("got_ip")
               /\ retry_count' = 0
               /\ SetBit("CONNECTED")
               /\ events' = Tail(events)
               /\ loop' = "connect"
               /\ UNCHANGED <<config, mode, server, wifi, refused, faults>>

\* HttpPipeline::handle_connect, and Server::start, which may fail.
\* Mutant: the pipeline does not start the server.
HandleConnect_forgets == /\ loop = "connect"
                         /\ loop' = "idle"
                         /\ UNCHANGED <<mainVars, bits, retry_count, server,
                                        wifiVars, histVars>>
HandleConnect == /\ loop = "connect"
                 /\ loop' = "idle"
                 /\ \/ server' = "on" /\ UNCHANGED faults
                    \/ faults' = faults \cup {"server"} /\ UNCHANGED server
                 /\ UNCHANGED <<mainVars, bits, retry_count, wifiVars, refused>>

\* HttpPipeline::handle_disconnect, and Server::stop.
\* Mutant: the pipeline leaves the server running.
HandleDisconnect_keeps == /\ loop = "disconnect"
                          /\ loop' = "idle"
                          /\ UNCHANGED <<mainVars, bits, retry_count, server,
                                         wifiVars, histVars>>
HandleDisconnect == /\ loop = "disconnect"
                    /\ loop' = "idle"
                    /\ server' = "off"
                    /\ UNCHANGED <<mainVars, bits, retry_count, wifiVars, histVars>>

-----------------------------------------------------------------------------
(* The WiFi driver (external).  "connecting" lasts until there is an address:
   an access point that accepts the station and a DHCP server that does not
   answer leave it there, without an event. *)

Join == /\ wifi = "connecting"
        /\ wifi' = "connected"
        /\ Post("got_ip")
        /\ UNCHANGED <<mainVars, loopVars, histVars>>

\* The attempt fails (Refuse) or the connection is lost (Lose).
Disconnect == /\ wifi' = "idle"
              /\ Post("disconnected")
              /\ UNCHANGED <<mainVars, loopVars, histVars>>
Refuse == wifi = "connecting" /\ Disconnect
Lose   == wifi = "connected" /\ Disconnect

MainNext == Start \/ Wait \/ Woken \/ WaitTimeout \/ Stop \/ Reset \/ Restart
LoopNext == \/ HandleStart \/ HandleDisconnected \/ HandleGotIp
            \/ HandleConnect \/ HandleDisconnect

Next == \/ MainNext
        \/ LoopNext
        \/ Join \/ Refuse \/ Lose
        \/ Provision \/ PowerCut

Spec == Init /\ [][Next]_vars
\* FreeRTOS schedules both tasks, and the wait interval is finite.  Nothing is
\* assumed of the driver and of the network behind it.
FairSpec == Spec /\ WF_vars(MainNext) /\ WF_vars(LoopNext)

-----------------------------------------------------------------------------
\* Type correctness of the tasks, the event group, the driver and the history.
TypeOK ==
  /\ config \in {"valid", "erased"} /\ mode \in {"sta", "ap"}
  /\ main \in {"start", "started", "waiting", "woken", "up", "stop", "reset",
               "reboot", "aborted"}
  /\ {seen, bits} \subseteq SUBSET {"CONNECTED", "FAILED"}
  /\ retry_count \in 0..MaxRetry
  /\ loop \in {"idle", "connect", "disconnect"}
  /\ server \in {"off", "on"}
  /\ wifi \in {"off", "idle", "connecting", "connected"}
  /\ events \in Seq({"start", "disconnected", "got_ip"})
  /\ refused \in BOOLEAN
  /\ faults \subseteq {"start", "timeout", "stop", "erase", "server", "power"}

Quiet == events = <<>> /\ loop = "idle"

\* Once all events are handled, the bit, the driver and the server agree: the bit
\* says connected exactly if the driver is, and the server runs only then, however
\* often the link came and went while the event task was behind.
BitsTellTheLink ==
  Quiet => /\ ("CONNECTED" \in bits) = (wifi = "connected")
           /\ server = "on" => wifi = "connected"

\* A configuration that works is never erased: the start that erases it was told
\* that the station gave up, or could not start the driver, and the station is
\* not connected, even if stopping it failed.
ErasesOnlyFailed ==
  [][config = "valid" /\ config' = "erased" /\ mode = "sta"
     => "CONNECTED" \notin seen \cup bits /\ wifi # "connected"]_vars

\* reset_network_runner.h: "If the network fails to start, the network
\* configuration is reset."  No start that failed ends in the next one with the
\* configuration still there, if the flash did erase it when asked to.
FailedStartResets ==
  [][mode = "sta" /\ main \in {"reboot", "aborted"} /\ main' = "start"
       /\ "erase" \notin faults
     => config = "erased"]_vars

\* A connection leads to a running server, unless it is lost or the device goes
\* down first, or the server cannot be started.
ConnectionServes ==
  wifi = "connected" ~> (server = "on" \/ wifi # "connected" \/ "server" \in faults)

\* A station that cannot connect ends as an access point by itself, where it can
\* be given another configuration: when nothing fails on the device and it never
\* connects, it starts in mode "ap".
FallsBackToAp ==
  [](faults = {} /\ ~refused /\ wifi # "connected") => <>(mode = "ap")
=============================================================================
