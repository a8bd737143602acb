--------------------------- MODULE StaNetworkProofs ---------------------------
(***************************************************************************)
(* Proofs about the WiFi station, for any number of retries and any        *)
(* interleaving of the application's task, the event task and the driver:  *)
(* the event bits tell the state of the link when all events are handled,  *)
(* and a configuration is erased only if the station gave up.              *)
(***************************************************************************)
EXTENDS StaNetwork, SequenceTheorems, TLAPS

Event == {"start", "disconnected", "got_ip"}

\* What the event group will say when the events are handled: the last of them that is
\* about the link decides.
Linked ==
  \/ \E i \in 1..Len(events) : /\ events[i] = "got_ip"
                               /\ \A j \in (i + 1)..Len(events) : events[j] = "start"
  \/ "CONNECTED" \in bits /\ \A i \in 1..Len(events) : events[i] = "start"
LinkInv == Linked <=> wifi = "connected"

\* A server that runs belongs to a connection, or is about to be stopped.
ServerInv == /\ server = "on" => "CONNECTED" \in bits \/ loop = "disconnect"
             /\ loop = "connect" => "CONNECTED" \in bits

\* The driver posts nothing while it is idle, so that a disconnection is the last event
\* until it has been handled.
LastInv == \A i \in 1..Len(events) :
             events[i] # "got_ip" => i = Len(events) /\ wifi \in {"idle", "off"}

\* Once it has given up, the station does nothing any more.
GivenUp == /\ "CONNECTED" \notin bits /\ events = <<>> /\ wifi \in {"idle", "off"}
FailedInv == /\ "FAILED" \in bits => GivenUp
             /\ "FAILED" \in seen => "FAILED" \in bits
             /\ main \in {"stop", "reset"} => GivenUp /\ "CONNECTED" \notin seen
             /\ main = "woken" => "CONNECTED" \in seen \/ "FAILED" \in seen
             /\ main = "start" => bits = {} /\ seen = {} /\ events = <<>> /\ wifi = "off"

StaType == /\ bits \subseteq {"CONNECTED", "FAILED"} /\ seen \subseteq {"CONNECTED", "FAILED"}
           /\ events \in Seq(Event)

StaIInv == StaType /\ LinkInv /\ ServerInv /\ LastInv /\ FailedInv

-----------------------------------------------------------------------------
LEMMA TailLemma ==
  ASSUME NEW s \in Seq(Event), s # <<>>
  PROVE  /\ Tail(s) \in Seq(Event) /\ Len(s) \in Nat /\ Len(s) > 0
         /\ Len(Tail(s)) = Len(s) - 1
         /\ \A i \in 1..Len(Tail(s)) : Tail(s)[i] = s[i + 1]
         /\ Head(s) = s[1]
  OBVIOUS

LEMMA AppendLemma ==
  ASSUME NEW s \in Seq(Event), NEW e \in Event
  PROVE  /\ Append(s, e) \in Seq(Event) /\ Len(s) \in Nat
         /\ Len(Append(s, e)) = Len(s) + 1
         /\ \A i \in 1..Len(s) : Append(s, e)[i] = s[i]
         /\ Append(s, e)[Len(s) + 1] = e
  OBVIOUS

LEMMA EmptyLemma ==
  ASSUME events = <<>>
  PROVE  LastInv /\ (Linked <=> "CONNECTED" \in bits)
<1>1. Len(events) = 0
  OBVIOUS
<1>2. QED
  BY <1>1 DEF LastInv, Linked

\* A boot, or the first start.
LEMMA FreshLemma ==
  ASSUME bits = {}, seen = {}, loop = "idle", server = "off", wifi = "off", events = <<>>,
         main = "start"
  PROVE  StaIInv
<1>1. LinkInv /\ LastInv
  BY EmptyLemma DEF LinkInv
<1>2. StaType
  BY DEF StaType
<1>3. QED
  BY <1>1, <1>2 DEF StaIInv, ServerInv, FailedInv

LEMMA StaInitial == Init => StaIInv
  BY FreshLemma DEF Init

-----------------------------------------------------------------------------
(* The queue of events *)

\* An event that is handled takes effect in the bits: the outlook stays the same.
LEMMA PopLemma ==
  ASSUME StaType, events # <<>>, events' = Tail(events),
         events[1] = "start" => ("CONNECTED" \in bits' <=> "CONNECTED" \in bits),
         events[1] = "got_ip" => "CONNECTED" \in bits',
         events[1] = "disconnected" => "CONNECTED" \notin bits'
  PROVE  Linked' <=> Linked
<1>1. PICK n \in Nat : n = Len(events) /\ n > 0
  BY TailLemma DEF StaType
<1>2. Len(events') = n - 1 /\ \A i \in 1..(n - 1) : events'[i] = events[i + 1]
  BY <1>1, TailLemma DEF StaType
<1>3. events[1] \in Event
  BY <1>1 DEF StaType
<1>4. ASSUME Linked' PROVE Linked
  <2>1. CASE \E i \in 1..(n - 1) : /\ events'[i] = "got_ip"
                                  /\ \A j \in (i + 1)..(n - 1) : events'[j] = "start"
    <3>1. PICK i \in 1..(n - 1) : /\ events'[i] = "got_ip"
                                  /\ \A j \in (i + 1)..(n - 1) : events'[j] = "start"
      BY <2>1
    <3>2. i + 1 \in 1..n /\ events[i + 1] = "got_ip"
      BY <3>1, <1>1, <1>2
    <3>3. ASSUME NEW j \in (i + 2)..n PROVE events[j] = "start"
      <4>1. j - 1 \in (i + 1)..(n - 1) /\ j - 1 \in 1..(n - 1) /\ (j - 1) + 1 = j
        BY <3>1, <1>1
      <4>2. QED
        BY <4>1, <3>1, <1>2
    <3>4. (i + 1) + 1 = i + 2
      BY <3>1
    <3>5. QED
      BY <3>2, <3>3, <3>4, <1>1 DEF Linked
  <2>2. CASE "CONNECTED" \in bits' /\ \A i \in 1..(n - 1) : events'[i] = "start"
    <3>1. ASSUME NEW j \in 2..n PROVE events[j] = "start"
      <4>1. j - 1 \in 1..(n - 1) /\ (j - 1) + 1 = j
        BY <1>1
      <4>2. QED
        BY <4>1, <2>2, <1>2
    <3>2. CASE events[1] = "got_ip"
      BY <3>1, <3>2, <1>1 DEF Linked
    <3>3. CASE events[1] = "start"
      <4>1. \A j \in 1..n : events[j] = "start"
        BY <3>1, <3>3, <1>1
      <4>2. QED
        BY <4>1, <2>2, <3>3, <1>1 DEF Linked
    <3>4. QED
      BY <3>2, <3>3, <2>2, <1>3 DEF Event
  <2>3. QED
    BY <1>4, <1>2, <2>1, <2>2 DEF Linked
<1>5. ASSUME Linked PROVE Linked'
  <2>1. CASE \E i \in 1..n : /\ events[i] = "got_ip"
                            /\ \A j \in (i + 1)..n : events[j] = "start"
    <3>1. PICK i \in 1..n : /\ events[i] = "got_ip"
                            /\ \A j \in (i + 1)..n : events[j] = "start"
      BY <2>1
    <3>2. CASE i = 1
      <4>1. \A k \in 1..(n - 1) : events'[k] = "start"
        BY <3>1, <3>2, <1>1, <1>2
      <4>2. QED
        BY <3>1, <3>2, <4>1, <1>2 DEF Linked
    <3>3. CASE i # 1
      <4>1. i - 1 \in 1..(n - 1) /\ (i - 1) + 1 = i
        BY <3>1, <3>3, <1>1
      <4>2. events'[i - 1] = "got_ip"
        BY <4>1, <3>1, <1>2
      <4>3. ASSUME NEW k \in ((i - 1) + 1)..(n - 1) PROVE events'[k] = "start"
        <5>1. k \in 1..(n - 1) /\ k + 1 \in (i + 1)..n
          BY <4>1, <3>1, <1>1
        <5>2. QED
          BY <5>1, <3>1, <1>2
      <4>4. QED
        BY <4>1, <4>2, <4>3, <1>2 DEF Linked
    <3>4. QED
      BY <3>2, <3>3
  <2>2. CASE "CONNECTED" \in bits /\ \A i \in 1..n : events[i] = "start"
    <3>1. events[1] = "start"
      BY <2>2, <1>1
    <3>2. \A k \in 1..(n - 1) : events'[k] = "start"
      BY <2>2, <1>1, <1>2
    <3>3. QED
      BY <2>2, <3>1, <3>2, <1>2 DEF Linked
  <2>3. QED
    BY <1>5, <1>1, <2>1, <2>2 DEF Linked
<1>6. QED
  BY <1>4, <1>5

\* The event that is posted last decides.
LEMMA PushLemma ==
  ASSUME StaType, NEW e \in {"disconnected", "got_ip"}, events' = Append(events, e)
  PROVE  /\ events' \in Seq(Event)
         /\ Linked' <=> e = "got_ip"
<1>1. PICK n \in Nat : n = Len(events)
  BY DEF StaType
<1>2. e \in Event
  BY DEF Event
<1>3. /\ events' \in Seq(Event) /\ Len(events') = n + 1
      /\ events'[n + 1] = e
  BY <1>1, <1>2, AppendLemma DEF StaType
<1>4. ASSUME e = "got_ip" PROVE Linked'
  <2>1. n + 1 \in 1..(n + 1) /\ \A j \in ((n + 1) + 1)..(n + 1) : FALSE
    BY <1>1
  <2>2. QED
    BY <1>3, <1>4, <2>1 DEF Linked
<1>5. ASSUME Linked' PROVE e = "got_ip"
  <2>1. CASE \A i \in 1..(n + 1) : events'[i] = "start"
    BY <2>1, <1>1, <1>3
  <2>2. CASE \E i \in 1..(n + 1) : /\ events'[i] = "got_ip"
                                  /\ \A j \in (i + 1)..(n + 1) : events'[j] = "start"
    <3>1. PICK i \in 1..(n + 1) : /\ events'[i] = "got_ip"
                                  /\ \A j \in (i + 1)..(n + 1) : events'[j] = "start"
      BY <2>2
    <3>2. i = n + 1
      BY <3>1, <1>1, <1>3
    <3>3. QED
      BY <3>1, <3>2, <1>3
  <2>3. QED
    BY <1>5, <1>3, <2>1, <2>2 DEF Linked
<1>6. QED
  BY <1>3, <1>4, <1>5

\* All the events are addresses while the driver is at work.
LEMMA BusyLemma ==
  ASSUME StaType, LastInv, wifi \notin {"idle", "off"}, NEW e \in Event,
         events' = Append(events, e), e = "got_ip" \/ wifi' \in {"idle", "off"}
  PROVE  LastInv'
<1>1. PICK n \in Nat : n = Len(events)
  BY DEF StaType
<1>2. /\ Len(events') = n + 1 /\ events'[n + 1] = e
      /\ \A i \in 1..n : events'[i] = events[i]
  BY <1>1, AppendLemma DEF StaType
<1>3. \A i \in 1..n : events[i] = "got_ip"
  BY <1>1 DEF LastInv
<1>4. ASSUME NEW i \in 1..(n + 1), events'[i] # "got_ip"
      PROVE  i = n + 1 /\ wifi' \in {"idle", "off"}
  <2>1. i = n + 1
    BY <1>2, <1>3, <1>4, <1>1
  <2>2. QED
    BY <2>1, <1>2, <1>4
<1>5. QED
  BY <1>2, <1>4 DEF LastInv

LEMMA LastPopLemma ==
  ASSUME StaType, LastInv, events # <<>>, events' = Tail(events)
  PROVE  /\ events' \in Seq(Event)
         /\ wifi' = wifi => LastInv'
         /\ events[1] # "got_ip" => events' = <<>> /\ wifi \in {"idle", "off"} /\ LastInv'
<1>1. PICK n \in Nat : n = Len(events) /\ n > 0
  BY TailLemma DEF StaType
<1>2. /\ events' \in Seq(Event) /\ Len(events') = n - 1
      /\ \A i \in 1..(n - 1) : events'[i] = events[i + 1]
  BY <1>1, TailLemma DEF StaType
<1>3. ASSUME wifi' = wifi PROVE LastInv'
  <2>1. ASSUME NEW i \in 1..(n - 1), events'[i] # "got_ip"
        PROVE  i = n - 1 /\ wifi' \in {"idle", "off"}
    <3>1. i + 1 \in 1..n /\ events[i + 1] # "got_ip"
      BY <2>1, <1>1, <1>2
    <3>2. i + 1 = n /\ wifi \in {"idle", "off"}
      BY <3>1, <1>1 DEF LastInv
    <3>3. QED
      BY <3>2, <1>3, <1>1
  <2>2. QED
    BY <2>1, <1>2 DEF LastInv
<1>4. ASSUME events[1] # "got_ip" PROVE events' = <<>> /\ wifi \in {"idle", "off"} /\ LastInv'
  <2>1. n = 1 /\ wifi \in {"idle", "off"}
    BY <1>1, <1>4 DEF LastInv
  <2>2. Len(events') = 0
    BY <2>1, <1>2
  <2>3. events' = <<>>
    BY <1>2, <2>2
  <2>4. QED
    BY <2>1, <2>2, <2>3 DEF LastInv
<1>5. QED
  BY <1>2, <1>3, <1>4

-----------------------------------------------------------------------------
(* The steps *)

\* Steps of the application that leave driver, events, bits and server alone.
LEMMA MainLemma ==
  ASSUME StaIInv, UNCHANGED <<bits, loop, server, wifi, events>>, FailedInv',
         seen' \subseteq {"CONNECTED", "FAILED"}
  PROVE  StaIInv'
  BY DEF StaIInv, StaType, LinkInv, Linked, ServerInv, LastInv

LEMMA StartStep == StaIInv /\ Start => StaIInv'
<1> SUFFICES ASSUME StaIInv, Start PROVE StaIInv'
  OBVIOUS
<1>1. /\ main = "start" /\ bits = {} /\ seen = {} /\ events = <<>> /\ wifi = "off"
      /\ UNCHANGED <<seen, bits, loop, server>>
  BY DEF Start, Sta, StaIInv, FailedInv, loopVars
<1>2. CASE main' = "started" /\ wifi' = "idle" /\ events' = Append(events, "start")
  <2>1. events' = <<"start">> /\ Len(events') = 1 /\ events'[1] = "start"
    BY <1>1, <1>2
  <2>2. LinkInv' /\ LastInv'
    BY <1>1, <1>2, <2>1 DEF LinkInv, Linked, LastInv
  <2>3. events' \in Seq(Event)
    BY <2>1 DEF Event
  <2>4. QED
    BY <1>1, <1>2, <2>2, <2>3 DEF StaIInv, StaType, ServerInv, FailedInv, GivenUp
<1>3. CASE main' = "stop" /\ UNCHANGED wifiVars
  <2>1. FailedInv'
    BY <1>1, <1>3 DEF wifiVars, FailedInv, GivenUp
  <2>2. QED
    BY <1>1, <1>3, <2>1, MainLemma DEF wifiVars
<1>4. QED
  BY <1>2, <1>3 DEF Start, Post

LEMMA AppStep ==
  StaIInv /\ (Wait \/ Woken \/ WaitTimeout \/ Reset \/ Provision) => StaIInv'
<1> SUFFICES ASSUME StaIInv, Wait \/ Woken \/ WaitTimeout \/ Reset \/ Provision
             PROVE  StaIInv'
  OBVIOUS
<1>1. UNCHANGED <<bits, loop, server, wifi, events>>
  BY DEF Wait, Woken, WaitTimeout, Reset, Provision, loopVars, wifiVars
<1>2. bits \subseteq {"CONNECTED", "FAILED"} /\ seen \subseteq {"CONNECTED", "FAILED"}
  BY DEF StaIInv, StaType
<1>3. GivenUp' <=> GivenUp
  BY <1>1 DEF GivenUp
<1>4. FailedInv' /\ seen' \subseteq {"CONNECTED", "FAILED"}
  <2>1. CASE Wait
    BY <1>1, <1>2, <1>3, <2>1 DEF Wait, Sta, StaIInv, FailedInv
  <2>2. CASE Woken
    BY <1>1, <1>2, <1>3, <2>2 DEF Woken, Sta, StaIInv, FailedInv
  <2>3. CASE WaitTimeout \/ Reset \/ Provision
    BY <1>1, <1>2, <1>3, <2>3 DEF WaitTimeout, Reset, Provision, Sta, StaIInv, FailedInv
  <2>4. QED
    BY <2>1, <2>2, <2>3
<1>5. QED
  BY <1>1, <1>4, MainLemma

LEMMA StopStep == StaIInv /\ Stop => StaIInv'
<1> SUFFICES ASSUME StaIInv, Stop PROVE StaIInv'
  OBVIOUS
<1>1. /\ GivenUp /\ "CONNECTED" \notin seen /\ main' = "reset"
      /\ UNCHANGED <<seen, bits, loop, server>>
  BY DEF Stop, Sta, StaIInv, FailedInv, loopVars
<1>2. events' = events /\ wifi' \in {"idle", "off"}
  BY <1>1 DEF Stop, GivenUp, wifiVars
<1>3. GivenUp'
  BY <1>1, <1>2 DEF GivenUp
<1>4. LinkInv' /\ LastInv'
  BY <1>1, <1>2, EmptyLemma DEF GivenUp, LinkInv, Linked, LastInv
<1>5. FailedInv'
  BY <1>1, <1>3 DEF StaIInv, FailedInv
<1>6. QED
  BY <1>1, <1>2, <1>4, <1>5 DEF StaIInv, StaType, ServerInv

LEMMA BootStep == Restart \/ PowerCut => StaIInv'
<1> SUFFICES ASSUME Boot PROVE StaIInv'
  BY DEF Restart, PowerCut
<1>1. /\ bits' = {} /\ seen' = {} /\ loop' = "idle" /\ server' = "off" /\ wifi' = "off"
      /\ events' = <<>> /\ main' = "start" /\ Len(events') = 0
  BY DEF Boot
<1>2. StaType' /\ LinkInv' /\ LastInv'
  BY <1>1 DEF StaType, LinkInv, Linked, LastInv
<1>3. QED
  BY <1>1, <1>2 DEF StaIInv, ServerInv, FailedInv

\* What is due has been posted, so that the station has not given up.
LEMMA DueLemma ==
  ASSUME StaIInv, NEW e, Due(e)
  PROVE  /\ events # <<>> /\ events[1] = e /\ loop = "idle"
         /\ "FAILED" \notin bits /\ "FAILED" \notin seen
         /\ main \notin {"start", "stop", "reset"}
<1>1. events # <<>> /\ loop = "idle" /\ Head(events) = e
  BY DEF Due
<1>2. events[1] = e
  BY <1>1
<1>3. QED
  BY <1>1, <1>2 DEF StaIInv, FailedInv, GivenUp

LEMMA HandleStartStep == StaIInv /\ HandleStart => StaIInv'
<1> SUFFICES ASSUME StaIInv, HandleStart PROVE StaIInv'
  OBVIOUS
<1>1. /\ events # <<>> /\ events[1] = "start" /\ events' = Tail(events)
      /\ wifi' \in {wifi, "connecting"}
      /\ UNCHANGED <<main, seen, bits, loop, server>>
      /\ "FAILED" \notin bits /\ "FAILED" \notin seen
      /\ main \notin {"start", "stop", "reset"}
  BY DueLemma DEF HandleStart, Connect, mainVars, loopVars
<1>2. Linked' <=> Linked
  BY <1>1, PopLemma DEF StaIInv
<1>3. events' \in Seq(Event) /\ wifi \in {"idle", "off"} /\ LastInv'
  BY <1>1, LastPopLemma DEF StaIInv
<1>4. LinkInv'
  BY <1>1, <1>2, <1>3 DEF StaIInv, LinkInv
<1>5. QED
  BY <1>1, <1>3, <1>4 DEF StaIInv, StaType, ServerInv, FailedInv

LEMMA HandleDisconnectedStep == StaIInv /\ HandleDisconnected => StaIInv'
<1> SUFFICES ASSUME StaIInv, HandleDisconnected PROVE StaIInv'
  OBVIOUS
<1>1. /\ events # <<>> /\ events[1] = "disconnected" /\ events' = Tail(events)
      /\ wifi' \in {wifi, "connecting"} /\ "CONNECTED" \notin bits'
      /\ loop' = "disconnect" /\ server' = server
      /\ "FAILED" \notin bits /\ "FAILED" \notin seen
      /\ main \notin {"start", "stop", "reset"}
  BY DueLemma DEF HandleDisconnected, Retry, GiveUp, Connect
<1>2. Linked' <=> Linked
  BY <1>1, PopLemma DEF StaIInv
<1>3. /\ events' \in Seq(Event) /\ events' = <<>> /\ wifi \in {"idle", "off"} /\ LastInv'
  BY <1>1, LastPopLemma DEF StaIInv
<1>4. LinkInv'
  BY <1>1, <1>2, <1>3 DEF StaIInv, LinkInv
<1>5. bits \subseteq {"CONNECTED", "FAILED"} /\ seen \subseteq {"CONNECTED", "FAILED"}
  BY DEF StaIInv, StaType
<1>6. /\ bits' \subseteq {"CONNECTED", "FAILED"} /\ seen' \subseteq {"CONNECTED", "FAILED"}
      /\ FailedInv'
  <2>1. CASE Retry
    <3>1. bits' = bits \ {"CONNECTED"} /\ UNCHANGED <<main, seen>>
      BY <2>1 DEF Retry
    <3>2. QED
      BY <1>1, <1>5, <3>1 DEF StaIInv, FailedInv
  <2>2. CASE GiveUp
    <3>1. /\ bits' = (bits \ {"CONNECTED"}) \cup {"FAILED"} /\ wifi' = wifi
          /\ IF main = "waiting" THEN main' = "woken" /\ seen' = bits'
                                 ELSE UNCHANGED <<main, seen>>
      BY <2>2 DEF GiveUp
    <3>2. GivenUp'
      BY <1>1, <1>3, <3>1 DEF GivenUp
    <3>3. QED
      BY <1>1, <1>5, <3>1, <3>2 DEF StaIInv, FailedInv
  <2>3. QED
    BY <2>1, <2>2 DEF HandleDisconnected
<1>7. QED
  BY <1>1, <1>3, <1>4, <1>6 DEF StaIInv, StaType, ServerInv

LEMMA HandleGotIpStep == StaIInv /\ HandleGotIp => StaIInv'
<1> SUFFICES ASSUME StaIInv, HandleGotIp PROVE StaIInv'
  OBVIOUS
<1>1. /\ events # <<>> /\ events[1] = "got_ip" /\ events' = Tail(events)
      /\ wifi' = wifi /\ bits' = bits \cup {"CONNECTED"}
      /\ loop' = "connect" /\ server' = server
      /\ "FAILED" \notin bits /\ "FAILED" \notin seen
      /\ main \notin {"start", "stop", "reset"}
      /\ IF main = "waiting" THEN main' = "woken" /\ seen' = bits'
                             ELSE UNCHANGED <<main, seen>>
  BY DueLemma DEF HandleGotIp, SetBit
<1>2. Linked' <=> Linked
  BY <1>1, PopLemma DEF StaIInv
<1>3. events' \in Seq(Event) /\ LastInv'
  BY <1>1, LastPopLemma DEF StaIInv
<1>4. LinkInv'
  BY <1>1, <1>2 DEF StaIInv, LinkInv
<1>5. bits' \subseteq {"CONNECTED", "FAILED"} /\ seen' \subseteq {"CONNECTED", "FAILED"}
  BY <1>1 DEF StaIInv, StaType
<1>6. FailedInv'
  BY <1>1 DEF StaIInv, FailedInv
<1>7. QED
  BY <1>1, <1>3, <1>4, <1>5, <1>6 DEF StaIInv, StaType, ServerInv

LEMMA CallbackStep == StaIInv /\ (HandleConnect \/ HandleDisconnect) => StaIInv'
<1> SUFFICES ASSUME StaIInv, HandleConnect \/ HandleDisconnect PROVE StaIInv'
  OBVIOUS
<1>1. UNCHANGED <<main, seen, bits, wifi, events>> /\ loop' = "idle"
  BY DEF HandleConnect, HandleDisconnect, mainVars, wifiVars
<1>2. ServerInv'
  BY <1>1 DEF HandleConnect, HandleDisconnect, StaIInv, ServerInv
<1>3. StaType' /\ LinkInv' /\ LastInv' /\ FailedInv'
  BY <1>1 DEF StaIInv, StaType, LinkInv, Linked, LastInv, FailedInv, GivenUp
<1>4. QED
  BY <1>2, <1>3 DEF StaIInv

LEMMA DriverStep == StaIInv /\ (Join \/ Refuse \/ Lose) => StaIInv'
<1> SUFFICES ASSUME StaIInv, Join \/ Refuse \/ Lose PROVE StaIInv'
  OBVIOUS
<1>1. PICK e \in {"disconnected", "got_ip"} :
        /\ events' = Append(events, e)
        /\ e = "got_ip" <=> wifi' = "connected"
        /\ e = "disconnected" => wifi' = "idle"
  BY DEF Join, Refuse, Lose, Disconnect, Post
<1>2. /\ wifi \notin {"idle", "off"} /\ UNCHANGED <<main, seen, bits, loop, server>>
  BY DEF Join, Refuse, Lose, Disconnect, mainVars, loopVars
<1>3. events' \in Seq(Event) /\ LinkInv'
  BY <1>1, PushLemma DEF StaIInv, LinkInv
<1>4. LastInv'
  BY <1>1, <1>2, BusyLemma DEF StaIInv, Event
<1>5. FailedInv'
  BY <1>2 DEF StaIInv, FailedInv, GivenUp
<1>6. QED
  BY <1>2, <1>3, <1>4, <1>5 DEF StaIInv, StaType, ServerInv

LEMMA StaStep == StaIInv /\ [Next]_vars => StaIInv'
<1> SUFFICES ASSUME StaIInv, [Next]_vars PROVE StaIInv'
  OBVIOUS
<1>1. CASE UNCHANGED vars
  <2>1. UNCHANGED <<main, seen, bits, loop, server, wifi, events>>
    BY <1>1 DEF vars, mainVars, loopVars, wifiVars
  <2>2. FailedInv'
    BY <2>1 DEF StaIInv, FailedInv, GivenUp
  <2>3. QED
    BY <2>1, <2>2, MainLemma DEF StaIInv, StaType
<1>2. QED
  BY <1>1, StartStep, AppStep, StopStep, BootStep, HandleStartStep, HandleDisconnectedStep,
     HandleGotIpStep, CallbackStep, DriverStep
  DEF Next, MainNext, LoopNext

LEMMA StaInvariant == Spec => []StaIInv
  BY StaInitial, StaStep, PTL DEF Spec

-----------------------------------------------------------------------------
(* The theorems *)

\* For any number of retries: when all events are handled, the CONNECTED bit is that of
\* the driver and the server runs only then, however far the event task was behind
\* (handle_wifi_event_, handle_ip_event_, HttpPipeline).
THEOREM BitsFollowTheLink == Spec => []BitsTellTheLink
<1>1. StaIInv => BitsTellTheLink
  <2> SUFFICES ASSUME StaIInv, Quiet PROVE BitsTellTheLink
    BY DEF BitsTellTheLink
  <2>1. events = <<>> /\ loop = "idle"
    BY DEF Quiet
  <2>2. "CONNECTED" \in bits <=> wifi = "connected"
    BY <2>1, EmptyLemma DEF StaIInv, LinkInv
  <2>3. server = "on" => "CONNECTED" \in bits
    BY <2>1 DEF StaIInv, ServerInv
  <2>4. QED
    BY <2>2, <2>3 DEF BitsTellTheLink
<1>2. QED
  BY <1>1, StaInvariant, PTL

\* For any number of retries: a configuration that is erased belongs to a station that
\* has given up or was never started (ResetNetworkRunner::start, StaNetwork::wait).
THEOREM OnlyFailedIsErased == Spec => ErasesOnlyFailed
<1>1. ASSUME StaIInv, [Next]_vars, config = "valid", config' = "erased", mode = "sta"
      PROVE  "CONNECTED" \notin seen \cup bits /\ wifi # "connected"
  <2>1. main = "reset"
    BY <1>1 DEF Next, MainNext, LoopNext, Start, Wait, Woken, WaitTimeout, Stop, Reset,
                Restart, Boot, Provision, PowerCut, HandleStart, HandleDisconnected,
                HandleGotIp, HandleConnect, HandleDisconnect, Join, Refuse, Lose,
                Disconnect, Sta, vars, mainVars
  <2>2. QED
    BY <1>1, <2>1 DEF StaIInv, FailedInv, GivenUp
<1>2. StaIInv /\ [Next]_vars =>
        [config = "valid" /\ config' = "erased" /\ mode = "sta"
           => "CONNECTED" \notin seen \cup bits /\ wifi # "connected"]_vars
  BY <1>1
<1>3. QED
  BY <1>2, StaInvariant, PTL DEF Spec, ErasesOnlyFailed
=============================================================================
