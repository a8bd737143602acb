----------------------------- MODULE ServiceProofs -----------------------------
(***************************************************************************)
(* Proofs about the services of a device, each part under its own          *)
(* specification: the configurations, the access point, the response to a  *)
(* request; the AsyncTaskScheduler, which loses no event, and the          *)
(* PeriodicTaskScheduler with the persistent counters it saves, neither of *)
(* which counts time the device was off, while the lifetime loses no more  *)
(* than it may.                                                            *)
(***************************************************************************)
EXTENDS NetworkConfig, ApNetwork, HttpResponse, AsyncTasks, PersistentCounters,
        FiniteSetTheorems, SequenceTheorems, TLAPS

-----------------------------------------------------------------------------
(* The configurations: what was answered with OK is what the next start uses, for any    *)
(* names, passwords and numbers, whatever writes fail and wherever the power goes.       *)
(*                                                                                       *)
(* The argument follows a key through configure.  A key still to be written will hold    *)
(* what was asked for; any other already shows it, or was taken for the old value.  For  *)
(* that a text in flash must never be empty, because an empty one agrees with            *)
(* everything: configure of MdnsConfig takes "" but, for that very reason, never writes  *)
(* it.                                                                                   *)

\* What the next start finds under a key that can be read.
Shown(f) == Load(f, Key(kind))

NoEmptyText ==
  \A f \in Key(kind) : IsText(f) =>
    /\ flash[f] # NoText
    /\ members[f] = NoText => kind = "sta"
    /\ f \in todo => wanted[f] # NoText

\* The keys that are not to be written any more.
Carried ==
  ~stale /\ handler = "writing" =>
    \A f \in Key(kind) \ todo : Shown(f) = wanted[f] \/ TakenForOld(f)

\* The answer is OK: every key shows what was asked for, or was taken for the old value.
Answered ==
  handler \in {"respond", "rebooting"} =>
    stale \/ \A f \in Key(kind) : Shown(f) = wanted[f] \/ TakenForOld(f)

\* configure has keys to write while it runs only.
TodoWhileWriting == handler # "writing" => todo = {}

\* "reset=1" asks for what is built in.
ErasesAll == handler = "erasing" => \A f \in Key(kind) : wanted[f] = Builtin(kind, f)

ConfigIInv ==
  /\ ConfigTypeOK /\ TodoWhileWriting /\ ErasesAll
  /\ NoEmptyText /\ Carried /\ Answered

-----------------------------------------------------------------------------
LEMMA KeysLemma ==
  /\ \A f \in Key("sta") : IsText(f) => f \in {"ssid", "password"}
  /\ {"ssid", "password"} \subseteq Key("sta")
<1>1. Key("sta") = {"retry", "ssid", "password"}
  BY DEF Key, Turn
<1> QED
  BY <1>1 DEF IsText

\* Which values there are, and that none of them reads as an absent key.
LEMMA ValuesLemma ==
  ASSUME NEW k \in Kind, NEW f \in Key(k)
  PROVE  /\ Absent \notin Legal(f) /\ Absent # Builtin(k, f)
         /\ Legal(f) \subseteq Text \cup Number \cup {NoText}
         /\ Builtin(k, f) \in Text \cup Number \cup {NoText}
         /\ IsText(f) /\ k # "sta" => Builtin(k, f) # NoText
         /\ IsText(f) /\ k = "sta" => NoText \notin Legal(f)
<1>1. Absent # NoText
  BY DEF Absent, NoText
<1>2. /\ BuiltinText \in Text /\ BuiltinNumber \in Number
      /\ NoText \notin Text /\ Absent \notin Text /\ Absent \notin Number
  BY ConfigAssumption
<1>3. Builtin(k, f) \in {BuiltinText, BuiltinNumber, NoText}
  BY DEF Builtin
<1>4. IsText(f) /\ k # "sta" => Builtin(k, f) = BuiltinText
  BY DEF Builtin
<1>5. Legal(f) \in {Text, Number, Text \cup {NoText}}
  BY DEF Legal
<1>6. IsText(f) /\ k = "sta" => Legal(f) = Text
  BY KeysLemma DEF Legal
<1> QED
  BY <1>1, <1>2, <1>3, <1>4, <1>5, <1>6

LEMMA ConfigStart == ConfigInit => ConfigIInv
<1> SUFFICES ASSUME ConfigInit PROVE ConfigIInv
  OBVIOUS
<1>1. kind \in Kind /\ handler = "idle" /\ todo = {} /\ stale = FALSE
  BY DEF ConfigInit
<1>2. \A f \in Key(kind) : /\ flash[f] = Absent
                           /\ members[f] = Builtin(kind, f) /\ wanted[f] = members[f]
  BY DEF ConfigInit
<1>3. flash \in [Key(kind) -> Text \cup Number \cup {Absent}]
  BY DEF ConfigInit
<1>4. members \in [Key(kind) -> Text \cup Number \cup {NoText}]
  BY <1>1, ValuesLemma DEF ConfigInit
<1>5. ConfigTypeOK
  BY <1>1, <1>2, <1>3, <1>4 DEF ConfigTypeOK
<1>6. NoEmptyText
  <2>1. Absent # NoText
    BY DEF Absent, NoText
  <2> QED
    BY <1>1, <1>2, <2>1, ValuesLemma DEF NoEmptyText
<1>7. TodoWhileWriting /\ ErasesAll /\ Carried /\ Answered
  BY <1>1 DEF TodoWhileWriting, ErasesAll, Carried, Answered
<1> QED
  BY <1>5, <1>6, <1>7 DEF ConfigIInv

\* The constructors read what is stored or keep what is built in.
LEMMA StartKeeps ==
  ASSUME ConfigIInv, NEW readable \in SUBSET Key(kind), StartConfig(readable),
         UNCHANGED <<kind, flash>>
  PROVE  ConfigIInv'
<1> USE DEF ConfigIInv
<1>1. /\ kind \in Kind /\ handler' = "idle" /\ todo' = {} /\ stale' = FALSE
      /\ wanted' = members'
  BY DEF StartConfig, ConfigTypeOK
<1>2. \A f \in Key(kind) :
        members'[f] = Builtin(kind, f) \/ (members'[f] = flash[f] /\ flash[f] # Absent)
  BY DEF StartConfig, Load
<1>3. \A f \in Key(kind) : members'[f] \in Legal(f) \cup {Builtin(kind, f)}
  BY <1>2 DEF ConfigTypeOK
<1>4. members' \in [Key(kind) -> Text \cup Number \cup {NoText}]
  <2>1. members' = [f \in Key(kind) |-> members'[f]]
    BY DEF StartConfig
  <2> QED
    BY <1>1, <1>3, <2>1, ValuesLemma
<1>5. ConfigTypeOK'
  BY <1>1, <1>3, <1>4 DEF ConfigTypeOK
<1>6. NoEmptyText'
  BY <1>1, <1>2, ValuesLemma DEF NoEmptyText
<1>7. (TodoWhileWriting /\ ErasesAll /\ Carried /\ Answered)'
  BY <1>1 DEF TodoWhileWriting, ErasesAll, Carried, Answered
<1> QED
  BY <1>5, <1>6, <1>7

\* A key that configure does not write: the object shows what the flash holds, and
\* either that is asked for, or it agrees with it over the shorter length.
LEMMA UnmodifiedLemma ==
  ASSUME ConfigIInv, NEW f \in Key(kind), NEW value, ~Modified(f, value)
  PROVE  /\ members[f] = value \/ (NoText # members[f] /\ Agrees(members[f], value))
         /\ ~IsText(f) => members[f] = value
         /\ IsText(f) => NoText # members[f]
<1>1. CASE ~IsText(f)
  BY <1>1 DEF Modified
<1>2. CASE IsText(f)
  <2>1. Valid /\ Agrees(members[f], value)
    BY <1>2 DEF Modified
  <2>2. members[f] # NoText
    BY <1>2, <2>1, KeysLemma DEF ConfigIInv, NoEmptyText, Valid
  <2> QED
    BY <1>2, <2>1, <2>2
<1> QED
  BY <1>1, <1>2

LEMMA ConfigureKeeps ==
  ASSUME ConfigIInv, Configure
  PROVE  ConfigIInv'
<1> USE DEF ConfigIInv
<1>1. PICK value : /\ \A f \in Key(kind) : value[f] \in Legal(f)
                   /\ wanted' = value
                   /\ todo' = {f \in Key(kind) : Modified(f, value[f])}
  BY DEF Configure
<1>2. /\ handler' = "writing"
      /\ stale' = (\E f \in Key(kind) : members[f] # Load(f, Key(kind)))
      /\ UNCHANGED <<kind, flash, members>>
  BY DEF Configure
<1>3. ConfigTypeOK'
  <2>1. stale' \in BOOLEAN
    BY <1>2
  <2> QED
    BY <1>1, <1>2, <2>1 DEF ConfigTypeOK
<1>4. NoEmptyText'
  <2> SUFFICES ASSUME NEW f \in Key(kind), IsText(f), f \in todo' PROVE value[f] # NoText
    BY <1>1, <1>2 DEF NoEmptyText
  <2>1. kind # "sta" => members[f] # NoText
    BY DEF NoEmptyText
  <2>2. CASE kind = "sta"
    BY <1>1, <2>2, ValuesLemma DEF ConfigTypeOK
  <2>3. CASE kind # "sta"
    BY <1>1, <2>3 DEF Modified, Valid, Agrees
  <2> QED
    BY <2>2, <2>3
<1>5. Carried'
  <2> SUFFICES ASSUME ~stale', NEW f \in Key(kind), f \notin todo'
               PROVE  (Shown(f) = wanted[f] \/ TakenForOld(f))'
    BY <1>2 DEF Carried
  <2>1. members[f] = Shown(f)
    BY <1>2 DEF Shown
  <2>2. members[f] = value[f] \/ (NoText # members[f] /\ Agrees(members[f], value[f]))
    BY <1>1, UnmodifiedLemma
  <2>3. Shown(f)' = Shown(f)
    BY <1>2 DEF Shown, Load
  <2> QED
    BY <1>1, <1>2, <2>1, <2>2, <2>3 DEF TakenForOld
<1>6. TodoWhileWriting' /\ ErasesAll' /\ Answered'
  BY <1>2 DEF TodoWhileWriting, ErasesAll, Answered
<1> QED
  BY <1>3, <1>4, <1>5, <1>6

\* A write changes its key alone, and to what was asked for.
LEMMA WriteKeeps ==
  ASSUME ConfigIInv, WriteField \/ WriteFieldFails
  PROVE  ConfigIInv'
<1> USE DEF ConfigIInv
<1>1. PICK f \in todo :
        /\ handler = "writing" /\ UNCHANGED <<kind, members, wanted, stale>>
        /\ \/ flash' = flash
           \/ flash' = [flash EXCEPT ![f] = wanted[f]]
        /\ \/ /\ flash' = [flash EXCEPT ![f] = wanted[f]]
              /\ todo' = todo \ {f} /\ handler' = handler
           \/ todo' = {} /\ handler' = "idle"
  BY DEF WriteField, WriteFieldFails
<1>2. /\ kind \in Kind /\ f \in Key(kind)
      /\ wanted[f] \in Legal(f) \cup {Builtin(kind, f)}
      /\ wanted[f] \in Text \cup Number \cup {NoText}
      /\ IsText(f) => wanted[f] # NoText
  BY ValuesLemma DEF ConfigTypeOK, NoEmptyText
<1>3. wanted[f] \in Legal(f) /\ wanted[f] # Absent /\ wanted[f] \in Text \cup Number
  <2>1. wanted[f] # Absent
    BY <1>2, ValuesLemma
  <2>2. CASE IsText(f)
    <3>1. Builtin(kind, f) \in Legal(f) \cup {NoText}
      BY <2>2, ConfigAssumption DEF Builtin, Legal
    <3> QED
      BY <1>2, <2>1, <2>2, <3>1
  <2>3. CASE ~IsText(f)
    <3>1. Legal(f) = Number /\ Builtin(kind, f) \in Number
      BY <2>3, ConfigAssumption DEF Builtin, Legal, IsText
    <3> QED
      BY <1>2, <2>1, <3>1
  <2> QED
    BY <2>2, <2>3
<1>4. /\ flash' \in [Key(kind) -> Text \cup Number \cup {Absent}]
      /\ \A g \in Key(kind) : g # f => flash'[g] = flash[g]
      /\ flash'[f] = flash[f] \/ flash'[f] = wanted[f]
  BY <1>1, <1>2, <1>3 DEF ConfigTypeOK
<1>5. todo' \subseteq todo /\ handler' \in {"writing", "idle"}
  BY <1>1
<1>6. ConfigTypeOK'
  BY <1>1, <1>3, <1>4, <1>5 DEF ConfigTypeOK
<1>7. NoEmptyText'
  BY <1>1, <1>2, <1>4, <1>5 DEF NoEmptyText
<1>8. Carried'
  <2> SUFFICES ASSUME ~stale', handler' = "writing", NEW g \in Key(kind), g \notin todo'
               PROVE  (Shown(g) = wanted[g] \/ TakenForOld(g))'
    BY <1>1 DEF Carried
  <2>1. flash' = [flash EXCEPT ![f] = wanted[f]] /\ todo' = todo \ {f}
    BY <1>1
  <2>2. CASE g = f
    <3>1. flash'[f] = wanted[f]
      BY <1>2, <2>1 DEF ConfigTypeOK
    <3> QED
      BY <1>1, <1>2, <1>3, <2>2, <3>1 DEF Shown, Load
  <2>3. CASE g # f
    <3>1. Shown(g)' = Shown(g)
      BY <1>1, <1>4, <2>3 DEF Shown, Load
    <3>2. Shown(g) = wanted[g] \/ TakenForOld(g)
      BY <1>1, <2>1, <2>3 DEF Carried
    <3> QED
      BY <1>1, <3>1, <3>2 DEF TakenForOld
  <2> QED
    BY <2>2, <2>3
<1>9. TodoWhileWriting' /\ ErasesAll' /\ Answered'
  BY <1>1, <1>5 DEF TodoWhileWriting, ErasesAll, Answered
<1> QED
  BY <1>6, <1>7, <1>8, <1>9

\* A reset asks for what is built in, and erases.
LEMMA EraseKeeps ==
  ASSUME ConfigIInv, ResetConfig \/ EraseField \/ EraseEnds
  PROVE  ConfigIInv'
<1> USE DEF ConfigIInv
<1>1. CASE ResetConfig
  <2>1. \A f \in Key(kind) : wanted'[f] = Builtin(kind, f)
    BY <1>1 DEF ResetConfig
  <2>2. /\ handler = "idle" /\ handler' = "erasing" /\ todo = {} /\ todo' = {}
        /\ UNCHANGED <<kind, flash, members, stale>>
    BY <1>1 DEF ResetConfig, TodoWhileWriting
  <2>3. ConfigTypeOK'
    BY <2>1, <2>2 DEF ConfigTypeOK
  <2> QED
    BY <2>1, <2>2, <2>3 DEF TodoWhileWriting, ErasesAll, NoEmptyText, Carried, Answered
<1>2. CASE EraseField
  <2>1. /\ handler = "erasing" /\ todo = {}
        /\ UNCHANGED <<kind, members, handler, wanted, todo, stale>>
    BY <1>2 DEF EraseField, TodoWhileWriting
  <2>2. PICK f \in Key(kind) : flash' = [flash EXCEPT ![f] = Absent]
    BY <1>2 DEF EraseField
  <2>3. /\ flash' \in [Key(kind) -> Text \cup Number \cup {Absent}]
        /\ \A g \in Key(kind) : flash'[g] = flash[g] \/ flash'[g] = Absent
    BY <2>2 DEF ConfigTypeOK
  <2>4. ConfigTypeOK'
    BY <2>1, <2>3 DEF ConfigTypeOK
  <2>5. NoEmptyText'
    <3>1. Absent # NoText
      BY DEF Absent, NoText
    <3> QED
      BY <2>1, <2>3, <3>1 DEF NoEmptyText
  <2> QED
    BY <2>1, <2>4, <2>5 DEF TodoWhileWriting, ErasesAll, Carried, Answered
<1>3. CASE EraseEnds
  <2>1. /\ handler = "erasing" /\ handler' \in {"respond", "idle"} /\ todo = {}
        /\ UNCHANGED <<kind, flash, members, wanted, todo, stale>>
    BY <1>3 DEF EraseEnds, TodoWhileWriting
  <2>2. handler' = "respond" => \A f \in Key(kind) : Shown(f)' = wanted'[f]
    \* nothing is stored, and a reset wants what is built in
    BY <1>3, <2>1 DEF EraseEnds, Shown, Load, ErasesAll
  <2>3. Answered'
    BY <2>1, <2>2 DEF Answered
  <2> QED
    BY <2>1, <2>3 DEF ConfigTypeOK, TodoWhileWriting, ErasesAll, NoEmptyText, Carried
<1> QED
  BY <1>1, <1>2, <1>3

LEMMA AnswerKeeps ==
  ASSUME ConfigIInv, Configured \/ Respond
  PROVE  ConfigIInv'
<1> USE DEF ConfigIInv
<1>1. UNCHANGED <<kind, flash, members, wanted, todo, stale>>
  BY DEF Configured, Respond
<1>2. \A f \in Key(kind) : /\ Shown(f)' = Shown(f)
                           /\ TakenForOld(f)' = TakenForOld(f)
  BY <1>1 DEF Shown, Load, TakenForOld
<1>3. CASE Configured
  <2>1. handler = "writing" /\ handler' = "respond" /\ todo = {}
    BY <1>3 DEF Configured
  <2>2. stale \/ \A f \in Key(kind) : Shown(f) = wanted[f] \/ TakenForOld(f)
    BY <2>1 DEF Carried
  <2>3. Answered'
    BY <1>1, <1>2, <2>2 DEF Answered
  <2> QED
    BY <1>1, <2>1, <2>3 DEF ConfigTypeOK, TodoWhileWriting, ErasesAll, NoEmptyText, Carried
<1>4. CASE Respond
  <2>1. handler = "respond" /\ handler' \in {"rebooting", "idle"} /\ todo = {}
    BY <1>4 DEF Respond, TodoWhileWriting
  <2>2. Answered'
    BY <1>1, <1>2, <2>1 DEF Answered
  <2> QED
    BY <1>1, <2>1, <2>2 DEF ConfigTypeOK, TodoWhileWriting, ErasesAll, NoEmptyText, Carried
<1> QED
  BY <1>3, <1>4

LEMMA ConfigStep == ConfigIInv /\ [ConfigNext]_configVars => ConfigIInv'
<1> SUFFICES ASSUME ConfigIInv, [ConfigNext]_configVars PROVE ConfigIInv'
  OBVIOUS
<1>1. CASE Serve
  BY <1>1, ConfigureKeeps, WriteKeeps, EraseKeeps, AnswerKeeps DEF Serve
<1>2. ASSUME NEW readable \in SUBSET Key(kind),
             ConfigReboot(readable) \/ ConfigPowerCut(readable)
      PROVE  ConfigIInv'
  <2>1. StartConfig(readable) /\ UNCHANGED <<kind, flash>>
    BY <1>2 DEF ConfigReboot, ConfigPowerCut
  <2> QED
    BY <2>1, StartKeeps
<1>3. CASE UNCHANGED configVars
  <2>1. \A f \in Key(kind) : /\ Shown(f)' = Shown(f)
                             /\ TakenForOld(f)' = TakenForOld(f)
    BY <1>3 DEF configVars, Shown, Load, TakenForOld
  <2>2. ConfigTypeOK' /\ TodoWhileWriting' /\ ErasesAll' /\ NoEmptyText'
    BY <1>3 DEF configVars, ConfigIInv, ConfigTypeOK, TodoWhileWriting, ErasesAll, NoEmptyText
  <2>3. Carried' /\ Answered'
    BY <1>3, <2>1 DEF configVars, ConfigIInv, Carried, Answered
  <2> QED
    BY <2>2, <2>3 DEF ConfigIInv
<1> QED
  BY <1>1, <1>2, <1>3 DEF ConfigNext

-----------------------------------------------------------------------------
\* The keys hold legal values or nothing, and the members legal ones or the built-in
\* (the constructors, configure and reset of the three configurations).
THEOREM ConfigTypeCorrect == ConfigSpec => []ConfigTypeOK
<1>1. ConfigIInv => ConfigTypeOK
  BY DEF ConfigIInv
<1> QED
  BY <1>1, ConfigStart, ConfigStep, PTL DEF ConfigSpec

\* What configure and reset acknowledged is what the reboot makes effective, for any set
\* of texts and any relation of which begins which (handle_update_ of StaNetworkHandler and
\* ApNetworkHandler, then Rebooter).
THEOREM AcknowledgedIsApplied == ConfigSpec => AcknowledgedApplied
<1>1. ASSUME ConfigIInv, ConfigReboot(Key(kind))
      PROVE  \/ stale
             \/ \A f \in Key(kind) : members'[f] = wanted[f] \/ TakenForOld(f)
  <2>1. handler = "rebooting" /\ \A f \in Key(kind) : members'[f] = Shown(f)
    BY <1>1 DEF ConfigReboot, StartConfig, Shown
  <2>2. stale \/ \A f \in Key(kind) : Shown(f) = wanted[f] \/ TakenForOld(f)
    BY <1>1, <2>1 DEF ConfigIInv, Answered
  <2> QED
    BY <2>1, <2>2
<1>2. ConfigIInv => [ConfigReboot(Key(kind)) =>
                       \/ stale
                       \/ \A f \in Key(kind) :
                            members'[f] = wanted[f] \/ TakenForOld(f)]_configVars
  BY <1>1
<1> QED
  BY <1>2, ConfigStart, ConfigStep, PTL DEF ConfigSpec, AcknowledgedApplied

-----------------------------------------------------------------------------
(* The access point: the HTTP server does not outlive it, and the number of connections  *)
(* never wraps below zero, for any number of stations and any width of the counter.      *)
(*                                                                                       *)
(* Both are about events that are posted but not handled.  The server is safe because    *)
(* START is the first event of all and STOP the last; the counter because the events in  *)
(* the queue can be replayed on it without ever needing a station that has not joined.   *)

Event == {"START", "STOP", "JOIN", "LEAVE"}

\* Nobody joins and nothing is posted before the driver is started.
NewIsOff == app = "new" => ap = "off" /\ apEvents = <<>>
OffIsEmpty == (ap # "on" => stations = 0) /\ (ap = "off" => apEvents = <<>>)

StartIsFirst == \A i \in DOMAIN apEvents : apEvents[i] = "START" => i = 1

StopIsLast == apEvents # <<>> /\ apEvents[Len(apEvents)] = "STOP"

\* A stopped access point has its STOP still to handle, or the server is being stopped, or
\* it is stopped and nothing left in the queue can start it again.
StopReachesServer ==
  ap = "stopped" =>
    \/ StopIsLast
    \/ /\ call \in {"disconnect", "stopping"} \/ (httpd = "off" /\ call = "none")
       /\ \A i \in DOMAIN apEvents : apEvents[i] # "START"

\* What an event does to the number of joined stations.
Change(e) == CASE e = "JOIN" -> 1 [] e = "LEAVE" -> -1 [] OTHER -> 0

\* level[i] is the number of stations after i of the queued events; it starts with the
\* value that connection_count shows, up to multiples of its range.
Replays(level) ==
  /\ level \in [0 .. Len(apEvents) -> Nat]
  /\ \E k \in Nat : level[0] = connection_count + Byte * k
  /\ \A i \in 1 .. Len(apEvents) : level[i] = level[i - 1] + Change(apEvents[i])
  /\ \A i \in 0 .. Len(apEvents) : level[i] <= joins
  /\ stations <= level[Len(apEvents)]

CountReplays == \E level : Replays(level)

ApIInv == /\ ApTypeOK /\ NewIsOff /\ OffIsEmpty /\ StartIsFirst
          /\ StopReachesServer /\ CountReplays

-----------------------------------------------------------------------------
\* connection_count_ counts modulo its range.
LEMMA ByteLemma ==
  ASSUME NEW n \in 0 .. Byte - 1
  PROVE  /\ n + 1 < Byte => (n + 1) % Byte = n + 1
         /\ n + 1 = Byte => (n + 1) % Byte = 0
         /\ n >= 1 => (n + Byte - 1) % Byte = n - 1
         /\ n = 0 => (n + Byte - 1) % Byte = Byte - 1
<1>1. Byte \in Nat /\ Byte > 0
  BY ApAssumption
<1>2. \A m \in 0 .. Byte - 1 : m % Byte = m
  BY <1>1
<1>3. \A m \in Byte .. 2 * Byte - 1 : m % Byte = m - Byte
  BY <1>1
<1> QED
  BY <1>1, <1>2, <1>3

LEMMA ApStart == ApInit => ApIInv
<1> SUFFICES ASSUME ApInit PROVE ApIInv
  OBVIOUS
<1>1. Byte \in Nat /\ Byte > 0 /\ MaxJoins \in Nat
  BY ApAssumption
<1>2. apEvents \in Seq(Event) /\ Len(apEvents) = 0 /\ DOMAIN apEvents = {}
  BY DEF ApInit
<1>3. ApTypeOK
  BY <1>1, <1>2 DEF ApInit, ApTypeOK, Event
<1>4. CountReplays
  <2> DEFINE level == [i \in 0 .. 0 |-> 0]
  <2>1. Replays(level)
    BY <1>1, <1>2 DEF ApInit, Replays
  <2> QED
    BY <2>1 DEF CountReplays
<1>5. NewIsOff /\ OffIsEmpty /\ StartIsFirst /\ StopReachesServer
  BY <1>2 DEF ApInit, NewIsOff, OffIsEmpty, StartIsFirst, StopReachesServer
<1> QED
  BY <1>3, <1>4, <1>5 DEF ApIInv

LEMMA TypesLemma ==
  ASSUME ApTypeOK
  PROVE  /\ Byte \in Nat /\ Byte > 0 /\ MaxJoins \in Nat
         /\ apEvents \in Seq(Event) /\ Len(apEvents) \in Nat
         /\ DOMAIN apEvents = 1 .. Len(apEvents)
         /\ stations \in Nat /\ joins \in Nat /\ connection_count \in 0 .. Byte - 1
BY ApAssumption DEF ApTypeOK, Event

\* An event posted last is replayed last.
LEMMA PostReplays ==
  ASSUME ApTypeOK, NEW level, Replays(level), NEW e \in Event,
         apEvents' = Append(apEvents, e), UNCHANGED connection_count,
         joins' \in Nat, joins <= joins', stations' \in Nat,
         level[Len(apEvents)] + Change(e) \in 0 .. joins',
         stations' <= level[Len(apEvents)] + Change(e)
  PROVE  CountReplays'
<1> DEFINE n == Len(apEvents)
<1>1. n \in Nat /\ joins \in Nat
  BY TypesLemma
<1>2. /\ level \in [0 .. n -> Nat]
      /\ \A i \in 1 .. n : level[i] = level[i - 1] + Change(apEvents[i])
      /\ \A i \in 0 .. n : level[i] <= joins
  BY DEF Replays
<1>3. /\ Len(apEvents') = n + 1 /\ apEvents'[n + 1] = e
      /\ \A i \in 1 .. n : apEvents'[i] = apEvents[i]
  BY TypesLemma, AppendProperties
<1>4. level[n] + Change(e) \in Nat
  OBVIOUS
<1> HIDE DEF n
<1>5. PICK next \in [0 .. n + 1 -> Nat] :
         /\ \A i \in 0 .. n : next[i] = level[i]
         /\ next[n + 1] = level[n] + Change(e)
  <2> DEFINE f == [i \in 0 .. n + 1 |-> IF i <= n THEN level[i] ELSE level[n] + Change(e)]
  <2>1. /\ f \in [0 .. n + 1 -> Nat]
        /\ \A i \in 0 .. n : f[i] = level[i]
        /\ f[n + 1] = level[n] + Change(e)
    BY <1>1, <1>2, <1>4
  <2> QED
    BY <2>1
<1>6. \A i \in 1 .. n + 1 : next[i] = next[i - 1] + Change(apEvents'[i])
  <2> SUFFICES ASSUME NEW i \in 1 .. n + 1
               PROVE  next[i] = next[i - 1] + Change(apEvents'[i])
    OBVIOUS
  <2>1. CASE i = n + 1
    BY <1>1, <1>3, <1>5, <2>1
  <2>2. CASE i # n + 1
    <3>1. i \in 1 .. n /\ i - 1 \in 0 .. n
      BY <1>1, <2>2
    <3> QED
      BY <1>2, <1>3, <1>5, <3>1
  <2> QED
    BY <2>1, <2>2
<1>7. \A i \in 0 .. n + 1 : next[i] <= joins'
  <2> SUFFICES ASSUME NEW i \in 0 .. n + 1 PROVE next[i] <= joins'
    OBVIOUS
  <2>1. CASE i = n + 1
    BY <1>5, <2>1 DEF n
  <2>2. CASE i # n + 1
    <3>1. i \in 0 .. n
      BY <1>1, <2>2
    <3> QED
      BY <1>1, <1>2, <1>5, <3>1
  <2> QED
    BY <2>1, <2>2
<1>8. \E k \in Nat : next[0] = connection_count' + Byte * k
  BY <1>1, <1>5 DEF Replays
<1>9. stations' <= next[n + 1]
  BY <1>5 DEF n
<1>10. Replays(next)'
  BY <1>3, <1>5, <1>6, <1>7, <1>8, <1>9 DEF Replays
<1> QED
  BY <1>10 DEF CountReplays

\* When the first event is handled, the rest replays from the new count.
LEMMA HandleReplays ==
  ASSUME ApTypeOK, NEW level, Replays(level), apEvents # <<>>,
         apEvents' = Tail(apEvents), UNCHANGED <<joins, stations>>,
         \E k \in Nat : level[1] = connection_count' + Byte * k
  PROVE  CountReplays'
<1> DEFINE n == Len(apEvents)
<1>1. n \in Nat /\ n >= 1
  BY TypesLemma, EmptySeq
<1>2. /\ level \in [0 .. n -> Nat]
      /\ \A i \in 1 .. n : level[i] = level[i - 1] + Change(apEvents[i])
      /\ \A i \in 0 .. n : level[i] <= joins
      /\ stations <= level[n]
  BY DEF Replays
<1>3. /\ Len(apEvents') = n - 1
      /\ \A i \in 1 .. n - 1 : apEvents'[i] = apEvents[i + 1]
  BY TypesLemma, HeadTailProperties
<1> HIDE DEF n
<1>4. PICK next \in [0 .. n - 1 -> Nat] : \A i \in 0 .. n - 1 : next[i] = level[i + 1]
  <2> DEFINE f == [i \in 0 .. n - 1 |-> level[i + 1]]
  <2>1. f \in [0 .. n - 1 -> Nat] /\ \A i \in 0 .. n - 1 : f[i] = level[i + 1]
    BY <1>1, <1>2
  <2> QED
    BY <2>1
<1>5. next[0] = level[1] /\ next[n - 1] = level[n]
  BY <1>1, <1>4
<1>6. \A i \in 1 .. n - 1 : next[i] = next[i - 1] + Change(apEvents'[i])
  <2> SUFFICES ASSUME NEW i \in 1 .. n - 1
               PROVE  next[i] = next[i - 1] + Change(apEvents'[i])
    OBVIOUS
  <2>1. i \in 0 .. n - 1 /\ i - 1 \in 0 .. n - 1 /\ i + 1 \in 1 .. n /\ i + 1 - 1 = i
        /\ i - 1 + 1 = i
    BY <1>1
  <2>2. level[i + 1] = level[i] + Change(apEvents[i + 1])
    BY <1>2, <2>1
  <2> QED
    BY <1>3, <1>4, <2>1, <2>2
<1>7. \A i \in 0 .. n - 1 : next[i] <= joins'
  BY <1>1, <1>2, <1>4
<1>8. Replays(next)'
  BY <1>2, <1>3, <1>4, <1>5, <1>6, <1>7 DEF Replays
<1> QED
  BY <1>8 DEF CountReplays

\* What esp_wifi_stop leaves in the queue: departures of some who are joined, and STOP.
LEMMA StopLemma ==
  ASSUME ApTypeOK, PostStop
  PROVE  \E m \in 0 .. stations :
           LET n == Len(apEvents)
           IN /\ apEvents' \in Seq(Event) /\ Len(apEvents') = n + m + 1
              /\ \A i \in 1 .. n : apEvents'[i] = apEvents[i]
              /\ \A i \in n + 1 .. n + m : apEvents'[i] = "LEAVE"
              /\ apEvents'[n + m + 1] = "STOP"
<1>1. PICK m \in 0 .. stations :
        apEvents' = apEvents \o [i \in 1 .. m |-> "LEAVE"] \o <<"STOP">>
  BY DEF PostStop
<1> DEFINE n == Len(apEvents)
           leaves == [i \in 1 .. m |-> "LEAVE"]
           most == apEvents \o leaves
<1>2. m \in Nat /\ n \in Nat /\ apEvents \in Seq(Event)
  BY TypesLemma
<1>3. leaves \in Seq(Event) /\ Len(leaves) = m
  BY <1>2 DEF Event
<1>4. \A i \in 1 .. m : leaves[i] = "LEAVE"
  OBVIOUS
<1>5. apEvents' = most \o <<"STOP">>
  BY <1>1
<1> HIDE DEF leaves
<1>6. /\ most \in Seq(Event) /\ Len(most) = n + m
      /\ \A i \in 1 .. n + m : most[i] = IF i <= n THEN apEvents[i] ELSE leaves[i - n]
  BY <1>2, <1>3, ConcatProperties
<1> HIDE DEF most
<1>7. /\ apEvents' \in Seq(Event) /\ Len(apEvents') = n + m + 1
      /\ \A i \in 1 .. n + m : apEvents'[i] = most[i]
      /\ apEvents'[n + m + 1] = "STOP"
  <2>1. "STOP" \in Event
    BY DEF Event
  <2>2. apEvents' = Append(most, "STOP")
    BY <1>5, <1>6, <2>1, AppendIsConcat
  <2> QED
    BY <1>6, <2>1, <2>2, AppendProperties
<1> HIDE DEF n
<1>8. \A i \in 1 .. n : apEvents'[i] = apEvents[i]
  BY <1>2, <1>6, <1>7
<1>9. \A i \in n + 1 .. n + m : apEvents'[i] = "LEAVE"
  <2> SUFFICES ASSUME NEW i \in n + 1 .. n + m PROVE apEvents'[i] = "LEAVE"
    OBVIOUS
  <2>1. i \in 1 .. n + m /\ ~(i <= n) /\ i - n \in 1 .. m
    BY <1>2
  <2> QED
    BY <1>4, <1>6, <1>7, <2>1
<1> QED
  BY <1>7, <1>8, <1>9 DEF n

LEMMA StopReplays ==
  ASSUME ApIInv, PostStop, UNCHANGED <<joins, connection_count>>
  PROVE  CountReplays'
<1>1. PICK m \in 0 .. stations :
         /\ Len(apEvents') = Len(apEvents) + m + 1
         /\ \A i \in 1 .. Len(apEvents) : apEvents'[i] = apEvents[i]
         /\ \A i \in Len(apEvents) + 1 .. Len(apEvents) + m : apEvents'[i] = "LEAVE"
         /\ apEvents'[Len(apEvents) + m + 1] = "STOP"
  BY StopLemma DEF ApIInv
<1>2. PICK level : Replays(level)
  BY DEF ApIInv, CountReplays
<1> DEFINE n == Len(apEvents)
<1>3. n \in Nat /\ stations \in Nat /\ m \in Nat /\ m <= stations /\ joins \in Nat
  BY TypesLemma DEF ApIInv
<1>4. /\ level \in [0 .. n -> Nat]
      /\ \A i \in 1 .. n : level[i] = level[i - 1] + Change(apEvents[i])
      /\ \A i \in 0 .. n : level[i] <= joins
      /\ stations <= level[n]
  BY <1>2 DEF Replays
<1>5. level[n] \in Nat /\ m <= level[n] /\ level[n] <= joins
  BY <1>3, <1>4
<1> HIDE DEF n
<1>6. PICK next \in [0 .. n + m + 1 -> Nat] :
        /\ \A i \in 0 .. n : next[i] = level[i]
        /\ \A i \in n .. n + m : next[i] = level[n] - (i - n)
        /\ next[n + m + 1] = level[n] - m
  <2> DEFINE f == [i \in 0 .. n + m + 1 |-> IF i <= n THEN level[i]
                                            ELSE IF i <= n + m THEN level[n] - (i - n)
                                            ELSE level[n] - m]
  <2>1. f \in [0 .. n + m + 1 -> Nat]
    BY <1>3, <1>4, <1>5
  <2>2. \A i \in 0 .. n : f[i] = level[i]
    BY <1>3
  <2>3. \A i \in n .. n + m : f[i] = level[n] - (i - n)
    BY <1>3, <1>5
  <2>4. f[n + m + 1] = level[n] - m
    BY <1>3
  <2> HIDE DEF f
  <2> QED
    BY <2>1, <2>2, <2>3, <2>4
<1>7. \A i \in 1 .. n + m + 1 : next[i] = next[i - 1] + Change(apEvents'[i])
  <2> SUFFICES ASSUME NEW i \in 1 .. n + m + 1
               PROVE  next[i] = next[i - 1] + Change(apEvents'[i])
    OBVIOUS
  <2>1. CASE i <= n
    <3>1. i \in 1 .. n /\ i \in 0 .. n /\ i - 1 \in 0 .. n /\ apEvents'[i] = apEvents[i]
      BY <1>1, <1>3, <2>1 DEF n
    <3> QED
      BY <1>4, <1>6, <3>1
  <2>2. CASE n < i /\ i <= n + m
    <3>1. i \in n + 1 .. n + m /\ i \in n .. n + m /\ i - 1 \in n .. n + m
      BY <1>3, <2>2
    <3>2. Change(apEvents'[i]) = -1
      BY <1>1, <3>1 DEF n, Change
    <3>3. next[i] = level[n] - (i - n) /\ next[i - 1] = level[n] - (i - 1 - n)
      BY <1>6, <3>1
    <3>4. n \in Int /\ i \in Int /\ level[n] \in Int
      BY <1>3, <1>5
    <3>5. next[i] = next[i - 1] + (-1)
      BY <3>3, <3>4
    <3> QED
      BY <3>2, <3>5
  <2>3. CASE i = n + m + 1
    <3>1. Change(apEvents'[i]) = 0
      BY <1>1, <2>3 DEF n, Change
    <3>2. i - 1 = n + m /\ n + m \in n .. n + m /\ n + m - n = m
      BY <1>3, <2>3
    <3> QED
      BY <1>3, <1>5, <1>6, <2>3, <3>1, <3>2
  <2> QED
    BY <1>3, <2>1, <2>2, <2>3
<1>8. \A i \in 0 .. n + m + 1 : next[i] <= joins'
  <2> SUFFICES ASSUME NEW i \in 0 .. n + m + 1 PROVE next[i] <= joins
    OBVIOUS
  <2>1. CASE i <= n
    BY <1>3, <1>4, <1>6, <2>1
  <2>2. CASE n < i /\ i <= n + m
    BY <1>3, <1>5, <1>6, <2>2
  <2>3. CASE i = n + m + 1
    BY <1>3, <1>5, <1>6, <2>3
  <2> QED
    BY <1>3, <2>1, <2>2, <2>3
<1>9. \E k \in Nat : next[0] = connection_count' + Byte * k
  BY <1>2, <1>3, <1>6 DEF Replays
<1>10. stations' <= next[n + m + 1]
  BY <1>3, <1>5, <1>6 DEF PostStop
<1>11. Len(apEvents') = n + m + 1
  BY <1>1 DEF n
<1>12. Replays(next)'
  BY <1>6, <1>7, <1>8, <1>9, <1>10, <1>11 DEF Replays
<1> QED
  BY <1>12 DEF CountReplays

LEMMA RestReplays ==
  ASSUME CountReplays, UNCHANGED <<apEvents, stations, joins, connection_count>>
  PROVE  CountReplays'
<1>1. PICK level : Replays(level)
  BY DEF CountReplays
<1>2. Replays(level)'
  BY <1>1 DEF Replays
<1> QED
  BY <1>2 DEF CountReplays

-----------------------------------------------------------------------------
\* ApNetwork::start posts the first event there is.
LEMMA StartApKeeps == ASSUME ApIInv, StartAp PROVE ApIInv'
<1> USE DEF ApIInv
<1>1. /\ app = "new" /\ ap = "off" /\ apEvents = <<>> /\ stations = 0
      /\ UNCHANGED <<stations, joins, mu, apCode, connection_count, call, httpd, request>>
  BY DEF StartAp, NewIsOff, OffIsEmpty, loopVars
<1>2. CASE app' = "checking" /\ ap' = "on" /\ apEvents' = Append(apEvents, "START")
  <2>1. /\ apEvents' \in Seq(Event) /\ Len(apEvents') = 1 /\ apEvents'[1] = "START"
        /\ DOMAIN apEvents' = 1 .. 1
    BY <1>1, <1>2 DEF Event
  <2>2. ApTypeOK'
    BY <1>1, <1>2, <2>1 DEF ApTypeOK, Event
  <2>3. CountReplays'
    <3>1. PICK level : Replays(level)
      BY DEF CountReplays
    <3>2. /\ Len(apEvents) = 0 /\ 0 \in 0 .. Len(apEvents)
          /\ level[0] \in Nat /\ level[0] <= joins /\ stations <= level[0]
      BY <1>1, <3>1, TypesLemma DEF Replays
    <3>3. Change("START") = 0 /\ "START" \in Event
      BY DEF Change, Event
    <3> QED
      BY <1>1, <1>2, <3>1, <3>2, <3>3, PostReplays, TypesLemma
  <2>4. NewIsOff' /\ OffIsEmpty' /\ StartIsFirst' /\ StopReachesServer'
    BY <1>1, <1>2, <2>1 DEF NewIsOff, OffIsEmpty, StartIsFirst, StopReachesServer
  <2> QED
    BY <2>2, <2>3, <2>4
<1>3. CASE app' = "failed" /\ UNCHANGED <<ap, apEvents>>
  <2>1. ApTypeOK' /\ CountReplays'
    BY <1>1, <1>3, RestReplays DEF ApTypeOK
  <2> QED
    BY <1>1, <1>3, <2>1 DEF NewIsOff, OffIsEmpty, StartIsFirst, StopReachesServer
<1> QED
  BY <1>2, <1>3 DEF StartAp

\* A step that posts and handles nothing, and leaves the server as it is or stops it.
LEMMA QuietKeeps ==
  ASSUME ApIInv, ApTypeOK', StopReachesServer', app' = "new" => app = "new",
         UNCHANGED <<ap, apEvents, stations, joins, connection_count>>
  PROVE  ApIInv'
<1>1. CountReplays'
  BY RestReplays DEF ApIInv
<1>2. NewIsOff' /\ OffIsEmpty' /\ StartIsFirst'
  BY DEF ApIInv, NewIsOff, OffIsEmpty, StartIsFirst
<1> QED
  BY <1>1, <1>2 DEF ApIInv

\* The application waits, and requests are served, without a change to the events.
LEMMA TasksKeep ==
  ASSUME ApIInv, \/ Check \/ GetInfo \/ AnswerRequest
                 \/ \E r \in {"plain", "info"} : Request(r)
  PROVE  ApIInv'
<1> USE DEF ApIInv
<1>1. /\ UNCHANGED <<ap, apEvents, stations, joins, mu, apCode, connection_count, call, httpd>>
      /\ app' \in {app, "up", "failed", "waiting"}
      /\ request' \in {request, "plain", "info", "answer", "none"}
  BY DEF Check, GetInfo, AnswerRequest, Request, wifiVars, loopVars, ApTypeOK
<1>2. ApTypeOK'
  BY <1>1 DEF ApTypeOK
<1>3. StopReachesServer'
  BY <1>1 DEF StopReachesServer, StopIsLast
<1> QED
  BY <1>1, <1>2, <1>3, QuietKeeps

\* HttpPipeline under mu_: the server is started for START, stopped for STOP.
LEMMA HandlersKeep ==
  ASSUME ApIInv, Connect \/ Disconnect \/ HttpdStops
  PROVE  ApIInv'
<1> USE DEF ApIInv
<1>1. UNCHANGED <<app, ap, apEvents, stations, joins, apCode, connection_count, request>>
  BY DEF Connect, Disconnect, HttpdStops, wifiVars
<1>2. CASE Connect
  <2>1. call = "connect" /\ call' = "none" /\ mu' = "none" /\ httpd' \in {"on", "off"}
    BY <1>2 DEF Connect, Unlock
  <2>2. ApTypeOK'
    BY <1>1, <2>1 DEF ApTypeOK
  <2>3. StopReachesServer'
    BY <1>1, <2>1 DEF StopReachesServer, StopIsLast
  <2> QED
    BY <1>1, <2>2, <2>3, QuietKeeps
<1>3. CASE Disconnect \/ HttpdStops
  <2>1. /\ call \in {"disconnect", "stopping"}
        /\ \/ call' = "stopping" /\ UNCHANGED <<mu, httpd>>
           \/ call' = "none" /\ mu' = "none" /\ httpd' = "off"
    BY <1>3 DEF Disconnect, HttpdStops, Unlock, ApTypeOK
  <2>2. ApTypeOK'
    BY <1>1, <2>1 DEF ApTypeOK
  <2>3. StopReachesServer'
    BY <1>1, <2>1 DEF StopReachesServer, StopIsLast
  <2> QED
    BY <1>1, <2>2, <2>3, QuietKeeps
<1> QED
  BY <1>2, <1>3

\* esp_wifi_stop posts STOP, the last event there is.
LEMMA StopApKeeps == ASSUME ApIInv, StopAp \/ WaitTimesOut PROVE ApIInv'
<1> USE DEF ApIInv
<1>1. /\ app' = "stopped" /\ PostStop /\ ap' = "stopped" /\ stations' = 0
      /\ UNCHANGED <<joins, mu, apCode, connection_count, call, httpd, request>>
  BY DEF StopAp, WaitTimesOut, PostStop, loopVars
<1>2. PICK m \in 0 .. stations :
         /\ apEvents' \in Seq(Event) /\ Len(apEvents') = Len(apEvents) + m + 1
         /\ \A i \in 1 .. Len(apEvents) : apEvents'[i] = apEvents[i]
         /\ \A i \in Len(apEvents) + 1 .. Len(apEvents) + m : apEvents'[i] = "LEAVE"
         /\ apEvents'[Len(apEvents) + m + 1] = "STOP"
  BY <1>1, StopLemma
<1>3. Len(apEvents) \in Nat /\ m \in Nat /\ joins \in Nat
  BY TypesLemma
<1>4. ApTypeOK'
  <2>1. stations' \in 0 .. MaxJoins /\ joins' \in stations' .. MaxJoins
    BY <1>1, <1>3, TypesLemma DEF ApTypeOK
  <2> QED
    BY <1>1, <1>2, <2>1 DEF ApTypeOK, Event
<1>5. CountReplays'
  BY <1>1, StopReplays
<1>6. StopIsLast'
  BY <1>2, <1>3, EmptySeq DEF StopIsLast
<1>7. StartIsFirst'
  <2> SUFFICES ASSUME NEW i \in DOMAIN apEvents', apEvents'[i] = "START" PROVE i = 1
    BY DEF StartIsFirst
  <2>1. i \in 1 .. Len(apEvents) + m + 1
    BY <1>2, LenProperties
  <2>2. CASE i \in 1 .. Len(apEvents)
    BY <1>2, <2>2, TypesLemma DEF StartIsFirst
  <2>3. CASE i \notin 1 .. Len(apEvents)
    BY <1>2, <1>3, <2>1, <2>3
  <2> QED
    BY <2>2, <2>3
<1>8. NewIsOff' /\ OffIsEmpty' /\ StopReachesServer'
  BY <1>1, <1>6 DEF NewIsOff, OffIsEmpty, StopReachesServer
<1> QED
  BY <1>4, <1>5, <1>7, <1>8

\* The driver posts what happens to its stations.
LEMMA StationsKeep == ASSUME ApIInv, Join \/ Leave PROVE ApIInv'
<1> USE DEF ApIInv
<1>1. PICK e \in {"JOIN", "LEAVE"} :
         /\ apEvents' = Append(apEvents, e)
         /\ e = "JOIN" => stations' = stations + 1 /\ joins' = joins + 1 /\ joins < MaxJoins
         /\ e = "LEAVE" => stations' = stations - 1 /\ joins' = joins /\ stations > 0
  BY DEF Join, Leave
<1>2. /\ ap = "on" /\ UNCHANGED <<app, ap, mu, apCode, connection_count, call, httpd, request>>
  BY DEF Join, Leave, loopVars
<1>3. e \in Event
  BY DEF Event
<1>4. /\ apEvents' \in Seq(Event) /\ apEvents' # <<>>
      /\ Len(apEvents') = Len(apEvents) + 1 /\ apEvents'[Len(apEvents) + 1] = e
      /\ \A i \in 1 .. Len(apEvents) : apEvents'[i] = apEvents[i]
  BY <1>1, <1>3, TypesLemma, AppendProperties
<1>5. ApTypeOK'
  <2>1. stations' \in 0 .. MaxJoins /\ joins' \in stations' .. MaxJoins
    BY <1>1, TypesLemma DEF ApTypeOK
  <2> QED
    BY <1>2, <1>4, <2>1 DEF ApTypeOK, Event
<1>6. CountReplays'
  <2>1. PICK level : Replays(level)
    BY DEF CountReplays
  <2>2. /\ Len(apEvents) \in 0 .. Len(apEvents)
        /\ level[Len(apEvents)] \in Nat
        /\ level[Len(apEvents)] <= joins /\ stations <= level[Len(apEvents)]
    BY <2>1, TypesLemma DEF Replays
  <2>3. Change("JOIN") = 1 /\ Change("LEAVE") = -1
    BY DEF Change
  <2>4. /\ joins' \in Nat /\ joins <= joins' /\ stations' \in Nat
        /\ level[Len(apEvents)] + Change(e) \in 0 .. joins'
        /\ stations' <= level[Len(apEvents)] + Change(e)
    <3>1. joins \in Nat /\ stations \in Nat
      BY TypesLemma
    <3>2. CASE e = "JOIN"
      BY <1>1, <2>2, <2>3, <3>1, <3>2
    <3>3. CASE e = "LEAVE"
      BY <1>1, <2>2, <2>3, <3>1, <3>3
    <3> QED
      BY <1>1, <3>2, <3>3
  <2> QED
    BY <1>1, <1>2, <1>3, <2>1, <2>4, PostReplays
<1>7. StartIsFirst'
  <2> SUFFICES ASSUME NEW i \in DOMAIN apEvents', apEvents'[i] = "START" PROVE i = 1
    BY DEF StartIsFirst
  <2>1. i \in 1 .. Len(apEvents) + 1 /\ Len(apEvents) \in Nat
    BY <1>4, LenProperties, TypesLemma
  <2>2. i # Len(apEvents) + 1
    BY <1>4
  <2>3. i \in 1 .. Len(apEvents)
    BY <2>1, <2>2
  <2> QED
    BY <1>4, <2>3, TypesLemma DEF StartIsFirst
<1>8. NewIsOff' /\ OffIsEmpty' /\ StopReachesServer'
  BY <1>2 DEF NewIsOff, OffIsEmpty, StopReachesServer
<1> QED
  BY <1>5, <1>6, <1>7, <1>8

\* The event task takes the first event of the queue.
LEMMA HandleKeeps ==
  ASSUME ApIInv, HandleStart \/ HandleStop \/ HandleJoin \/ HandleLeave
  PROVE  ApIInv'
<1> USE DEF ApIInv
<1>1. PICK e \in Event :
        /\ Handles(e)
        /\ e = "START" => call' = "connect" /\ mu' = "event" /\ apCode' = "OK"
        /\ e = "STOP" => call' = "disconnect" /\ mu' = "event" /\ apCode' = "Error"
        /\ e \in {"JOIN", "LEAVE"} => call' = call /\ mu' = mu /\ apCode' = apCode
        /\ e = "JOIN" => connection_count' = (connection_count + 1) % Byte
        /\ e = "LEAVE" => connection_count' = (connection_count + Byte - 1) % Byte
        /\ e \in {"START", "STOP"} => connection_count' = connection_count
        /\ app' \in {app, "signalled"}
  BY DEF HandleStart, HandleStop, HandleJoin, HandleLeave, Broadcast, Event
<1>2. /\ call = "none" /\ mu = "none" /\ apEvents # <<>> /\ Head(apEvents) = e
      /\ apEvents' = Tail(apEvents)
      /\ UNCHANGED <<ap, stations, joins, httpd, request>>
  BY <1>1 DEF Handles
<1> DEFINE n == Len(apEvents)
<1>3. n \in Nat /\ n >= 1 /\ apEvents[1] = e
  BY <1>2, TypesLemma, EmptySeq
<1>4. /\ apEvents' \in Seq(Event) /\ Len(apEvents') = n - 1 /\ DOMAIN apEvents' = 1 .. n - 1
      /\ \A i \in 1 .. n - 1 : apEvents'[i] = apEvents[i + 1]
  BY <1>2, TypesLemma, HeadTailProperties, LenProperties
<1>5. /\ connection_count' \in 0 .. Byte - 1
      /\ e = "JOIN" => \/ connection_count' = connection_count + 1
                       \/ connection_count' = connection_count + 1 - Byte
      /\ e = "LEAVE" => \/ connection_count >= 1 /\ connection_count' = connection_count - 1
                        \/ connection_count = 0 /\ connection_count' = Byte - 1
  <2>1. connection_count \in 0 .. Byte - 1 /\ Byte \in Nat /\ Byte > 0
    BY TypesLemma
  <2>2. CASE e = "JOIN"
    BY <1>1, <2>1, <2>2, ByteLemma
  <2>3. CASE e = "LEAVE"
    BY <1>1, <2>1, <2>3, ByteLemma
  <2>4. CASE e \in {"START", "STOP"}
    BY <1>1, <2>1, <2>4
  <2> QED
    BY <2>2, <2>3, <2>4 DEF Event
<1>6. ApTypeOK'
  BY <1>1, <1>2, <1>4, <1>5 DEF ApTypeOK, Event
<1>7. CountReplays'
  <2>1. PICK level : Replays(level)
    BY DEF CountReplays
  <2>2. PICK k \in Nat : level[0] = connection_count + Byte * k
    BY <2>1 DEF Replays
  <2>3. level[0] \in Nat /\ level[1] \in Nat /\ level[1] = level[0] + Change(e)
    <3>1. 1 \in 1 .. n /\ 0 \in 0 .. n /\ 1 \in 0 .. n /\ 1 - 1 = 0
      BY <1>3
    <3> QED
      BY <1>3, <2>1, <3>1 DEF Replays
  <2>4. /\ Change("JOIN") = 1 /\ Change("LEAVE") = -1
        /\ e \in {"START", "STOP"} => Change(e) = 0
    BY DEF Change
  <2>5. /\ Byte \in Nat /\ Byte > 0 /\ connection_count \in Nat
        /\ \A j \in Nat : Byte * j \in Nat /\ Byte * (j + 1) = Byte * j + Byte
    BY TypesLemma
  <2>6. \E j \in Nat : level[1] = connection_count' + Byte * j
    <3>1. CASE connection_count' = connection_count + Change(e)
      <4>1. level[1] = connection_count' + Byte * k
        BY <2>2, <2>3, <2>4, <2>5, <3>1, <1>1 DEF Event
      <4> QED
        BY <4>1
    <3>2. CASE e = "JOIN" /\ connection_count' = connection_count + 1 - Byte
      <4>1. level[1] = connection_count' + Byte * (k + 1)
        BY <2>2, <2>3, <2>4, <2>5, <3>2
      <4> QED
        BY <4>1
    <3>3. CASE e = "LEAVE" /\ connection_count = 0 /\ connection_count' = Byte - 1
      \* a station leaves, so that there is one: the count has gone round before
      <4>1. level[0] = Byte * k /\ level[1] = Byte * k - 1
        BY <2>2, <2>3, <2>4, <2>5, <3>3
      <4>2. PICK j \in Nat : k = j + 1
        <5>1. k # 0
          BY <2>3, <2>5, <4>1
        <5>2. k - 1 \in Nat /\ k = (k - 1) + 1
          BY <5>1
        <5> QED
          BY <5>2
      <4>3. level[1] = connection_count' + Byte * j
        BY <2>5, <3>3, <4>1, <4>2
      <4> QED
        BY <4>3
    <3>4. CASE e \in {"START", "STOP"}
      BY <1>1, <2>4, <2>5, <3>1, <3>4
    <3> QED
      BY <1>5, <2>4, <3>1, <3>2, <3>3, <3>4 DEF Event
  <2> QED
    BY <1>2, <2>1, <2>6, HandleReplays
<1>8. \A i \in DOMAIN apEvents' : apEvents'[i] # "START"
  <2> SUFFICES ASSUME NEW i \in 1 .. n - 1 PROVE apEvents'[i] # "START"
    BY <1>4
  <2>1. i + 1 \in DOMAIN apEvents /\ i + 1 # 1
    BY <1>3, TypesLemma
  <2> QED
    BY <1>4, <2>1 DEF StartIsFirst
<1>9. StopReachesServer'
  <2> SUFFICES ASSUME ap = "stopped" PROVE StopReachesServer'
    BY <1>2 DEF StopReachesServer
  <2>1. CASE StopIsLast /\ n = 1
    BY <1>1, <1>3, <1>8, <2>1 DEF StopIsLast, StopReachesServer
  <2>2. CASE StopIsLast /\ n # 1
    <3>1. n - 1 \in 1 .. n - 1 /\ n - 1 + 1 = n
      BY <1>3, <2>2
    <3>2. apEvents'[n - 1] = "STOP" /\ apEvents' # <<>>
      BY <1>4, <2>2, <3>1, EmptySeq DEF StopIsLast
    <3> QED
      BY <1>4, <3>2 DEF StopIsLast, StopReachesServer
  <2>3. CASE ~StopIsLast
    <3>1. httpd = "off" /\ apEvents[1] # "START"
      <4>1. 1 \in DOMAIN apEvents
        BY <1>3, TypesLemma
      <4> QED
        BY <1>2, <2>3, <4>1 DEF StopReachesServer
    <3>2. call' \in {"disconnect", "none"}
      BY <1>1, <1>2, <1>3, <3>1 DEF Event
    <3> QED
      BY <1>2, <1>8, <3>1, <3>2 DEF StopReachesServer
  <2> QED
    BY <2>1, <2>2, <2>3
<1>10. NewIsOff' /\ OffIsEmpty' /\ StartIsFirst'
  BY <1>1, <1>2, <1>8 DEF NewIsOff, OffIsEmpty, StartIsFirst
<1> QED
  BY <1>6, <1>7, <1>9, <1>10

LEMMA ApStep == ApIInv /\ [ApNext]_apVars => ApIInv'
<1> SUFFICES ASSUME ApIInv, [ApNext]_apVars PROVE ApIInv'
  OBVIOUS
<1>1. CASE ApNext
  BY <1>1, StartApKeeps, TasksKeep, StopApKeeps, StationsKeep, HandleKeeps, HandlersKeep
     DEF ApNext, EventTask, ServerTask
<1>2. CASE UNCHANGED apVars
  <2>1. UNCHANGED <<app, ap, apEvents, stations, joins, mu, apCode, connection_count, call,
                    httpd, request>>
    BY <1>2 DEF apVars
  <2>2. ApTypeOK' /\ StopReachesServer'
    BY <2>1 DEF ApIInv, ApTypeOK, StopReachesServer, StopIsLast
  <2> QED
    BY <2>1, <2>2, QuietKeeps
<1> QED
  BY <1>1, <1>2

-----------------------------------------------------------------------------
\* The tasks, the queue of events and the server are where they can be, and no more
\* stations are joined than ever joined (ApNetwork).
THEOREM ApTypeCorrect == ApSpec => []ApTypeOK
<1>1. ApIInv => ApTypeOK
  BY DEF ApIInv
<1> QED
  BY <1>1, ApStart, ApStep, PTL DEF ApSpec

\* When the events of a stopped access point have been handled there is no server, however
\* the calls of the application, the driver and the event task follow each other
\* (HttpPipeline::handle_connect, handle_disconnect).
THEOREM ServerGoesWithAp == ApSpec => []NoServerWithoutAp
<1>1. ApIInv => NoServerWithoutAp
  BY DEF ApIInv, StopReachesServer, StopIsLast, NoServerWithoutAp
<1> QED
  BY <1>1, ApStart, ApStep, PTL DEF ApSpec

\* The number of connections never exceeds the stations that ever joined, for a counter of
\* any width: no LEAVE is handled without its JOIN (handle_wifi_event_ap_sta_disconnected_).
THEOREM ConnectionsNeverWrap == ApSpec => []CountNeverWraps
<1>1. ASSUME ApIInv PROVE CountNeverWraps
  <2>1. PICK level : Replays(level)
    BY <1>1 DEF ApIInv, CountReplays
  <2>2. PICK k \in Nat : level[0] = connection_count + Byte * k
    BY <2>1 DEF Replays
  <2>3. level[0] <= joins /\ Byte * k \in Nat
    <3>1. 0 \in 0 .. Len(apEvents)
      BY <1>1, TypesLemma DEF ApIInv
    <3> QED
      BY <1>1, <2>1, <2>2, <3>1, TypesLemma DEF Replays, ApIInv
  <2> QED
    BY <1>1, <2>2, <2>3, TypesLemma DEF ApIInv, CountNeverWraps
<1> QED
  BY <1>1, ApStart, ApStep, PTL DEF ApSpec

-----------------------------------------------------------------------------
(* The response: what the client takes for a whole file is one, for any size of file     *)
(* and buffer.                                                                           *)
(*                                                                                       *)
(* A read that comes up short sets the end-of-file indicator, and only then may the loop *)
(* have sent a chunk without data; after it only the end is sent.  So no part follows an *)
(* end, and a stream that was a success has seen the end of the file.                    *)

Ended == Position("end") # {}

NoPartAfterEnd == \A e \in Position("end"), p \in Position("part") : p < e

\* Before the file is read nothing has been sent, and nothing has failed.
Untouched == step \in {"match", "prepare", "open"} =>
               sent = <<>> /\ ~eof /\ code = "OK"

\* Within the loop, no end without the indicator, and none before the chunk is written.
EndNeedsEof == /\ step = "read" => (Ended => eof)
               /\ step = "chunk" => ~Ended /\ (buffered = 0 => eof)

\* The code is OK behind the loop only if the file was read to its end.
SuccessNeedsEof == uri = "file" /\ code = "OK" /\ step \in {"close", "finish", "done"} => eof

EofIsAtEnd == eof => pos = size

\* A file is streamed, in chunks, and nothing else is.
FileStreams == /\ uri = "file" => step \notin {"write", "written"}
               /\ uri # "file" => step \notin {"open", "read", "chunk", "close"}
               /\ chunked => uri = "file"

RespIInv == /\ RespTypeOK /\ Untouched /\ NoPartAfterEnd /\ EofIsAtEnd
            /\ uri = "file" => EndNeedsEof
            /\ SuccessNeedsEof /\ FileStreams

\* Something appended to what was sent.
LEMMA AppendedLemma ==
  ASSUME RespIInv, NEW w \in {"whole", "part", "end", "error"}, sent' = Append(sent, w)
  PROVE  /\ sent' \in Seq({"whole", "part", "end", "error"})
         /\ \A what : Position(what)' = Position(what)
                                         \cup (IF what = w THEN {Len(sent) + 1} ELSE {})
         /\ \A what : \A i \in Position(what) : i \in 1 .. Len(sent)
         /\ w = "part" /\ ~Ended => NoPartAfterEnd'
         /\ w # "part" => NoPartAfterEnd'
<1>1. sent \in Seq({"whole", "part", "end", "error"}) /\ Len(sent) \in Nat
  BY DEF RespIInv, RespTypeOK
<1>2. /\ sent' \in Seq({"whole", "part", "end", "error"}) /\ Len(sent') = Len(sent) + 1
      /\ sent'[Len(sent) + 1] = w /\ \A i \in 1 .. Len(sent) : sent'[i] = sent[i]
  BY <1>1
<1>3. DOMAIN sent = 1 .. Len(sent) /\ DOMAIN sent' = 1 .. Len(sent) + 1
  BY <1>1, <1>2
<1>4. \A what : \A i \in Position(what) : i \in 1 .. Len(sent)
  BY <1>3 DEF Position
<1>5. \A i : i \in 1 .. Len(sent) + 1 <=> i \in 1 .. Len(sent) \/ i = Len(sent) + 1
  BY <1>1
<1>6. \A what : Position(what)' = Position(what)
                                  \cup (IF what = w THEN {Len(sent) + 1} ELSE {})
  BY <1>2, <1>3, <1>5 DEF Position
<1>7. NoPartAfterEnd
  BY DEF RespIInv
<1>8. ASSUME w = "part", ~Ended PROVE NoPartAfterEnd'
  <2>1. Position("end")' = {}
    BY <1>6, <1>8 DEF Ended
  <2> QED BY <2>1 DEF NoPartAfterEnd
<1>9. ASSUME w # "part" PROVE NoPartAfterEnd'
  <2>1. Position("part")' = Position("part")
        /\ \A e \in Position("end")' : e \in Position("end") \/ e = Len(sent) + 1
    BY <1>6, <1>9
  <2>2. \A i \in Position("part") : i < Len(sent) + 1
    BY <1>1, <1>4
  <2> QED BY <1>7, <2>1, <2>2 DEF NoPartAfterEnd
<1> QED BY <1>2, <1>4, <1>6, <1>8, <1>9

LEMMA RespStart == RespInit => RespIInv
<1> SUFFICES ASSUME RespInit PROVE RespIInv
  OBVIOUS
<1>1. RespTypeOK
  <2>1. <<>> \in Seq({"whole", "part", "end", "error"}) /\ 0 \in 0..Buffer /\ 0 \in 0..size
    BY StreamAssumption DEF RespInit
  <2> QED BY <2>1 DEF RespInit, RespTypeOK
<1>2. \A what : Position(what) = {}
  BY DEF RespInit, Position
<1>3. Untouched /\ EofIsAtEnd /\ FileStreams /\ SuccessNeedsEof
  BY DEF RespInit, Untouched, EofIsAtEnd, FileStreams, SuccessNeedsEof
<1>4. EndNeedsEof /\ NoPartAfterEnd
  BY <1>2 DEF RespInit, EndNeedsEof, NoPartAfterEnd
<1> QED BY <1>1, <1>3, <1>4 DEF RespIInv

\* What of the invariant is not about what was sent.
Rest == /\ uri \in Endpoint \cup {"unknown"}
        /\ step \in {"match", "prepare", "write", "written", "open", "read", "chunk",
                     "close", "finish", "done"}
        /\ chunked \in BOOLEAN /\ eof \in BOOLEAN
        /\ code \in {"OK", "InvalidArg", "InvalidState", "NoMem", "Timeout", "Error"}
        /\ size \in 0..MaxFile /\ pos \in 0..size /\ buffered \in 0..Buffer
        /\ SuccessNeedsEof /\ FileStreams /\ EofIsAtEnd

\* A step that sends nothing.
LEMMA NothingSent ==
  ASSUME RespIInv, UNCHANGED <<sent, uri>>, Rest', Untouched',
         uri = "file" => /\ step' = "read" => (Ended => eof')
                         /\ step' = "chunk" => ~Ended /\ (buffered' = 0 => eof')
  PROVE  RespIInv'
<1>1. \A what : Position(what)' = Position(what)
  BY DEF Position
<1>2. NoPartAfterEnd' /\ RespTypeOK'
  BY <1>1 DEF NoPartAfterEnd, Rest, RespIInv, RespTypeOK
<1>3. uri' = "file" => EndNeedsEof'
  BY <1>1 DEF EndNeedsEof, Ended
<1> QED BY <1>2, <1>3 DEF RespIInv, Rest

\* A step that sends something, a part only if no end was sent.
LEMMA SomethingSent ==
  ASSUME RespIInv, NEW w \in {"whole", "part", "end", "error"}, sent' = Append(sent, w),
         UNCHANGED uri, Rest', w = "part" => ~Ended,
         step' \notin {"match", "prepare", "open", "chunk"},
         uri = "file" => (step' = "read" => (Ended \/ w = "end" => eof'))
  PROVE  RespIInv'
<1>1. /\ sent' \in Seq({"whole", "part", "end", "error"}) /\ NoPartAfterEnd'
      /\ Position("end")' # {} => Ended \/ w = "end"
  BY AppendedLemma DEF Ended
<1>2. RespTypeOK' /\ Untouched'
  BY <1>1 DEF Rest, RespTypeOK, Untouched
<1>3. uri' = "file" => EndNeedsEof'
  BY <1>1 DEF EndNeedsEof, Ended
<1> QED BY <1>1, <1>2, <1>3 DEF RespIInv, Rest

LEMMA RespStep == RespIInv /\ [RespNext]_respVars => RespIInv'
<1> SUFFICES ASSUME RespIInv, [RespNext]_respVars PROVE RespIInv'
  OBVIOUS
<1> DEFINE file == uri = "file"
<1>0. Rest /\ Untouched /\ (file => EndNeedsEof)
  BY DEF RespIInv, Rest, RespTypeOK
<1>1. CASE Match \/ Prepare
  <2>1. UNCHANGED <<sent, uri>> /\ step' \notin {"read", "chunk"}
    BY <1>1 DEF Match, Prepare, Return
  <2>2. \A e :
          Refusals(e) \subseteq {"InvalidArg", "InvalidState", "NoMem", "Timeout", "Error"}
    BY DEF Refusals
  <2>3. UNCHANGED <<size, pos, eof, buffered>> /\ ~eof /\ code = "OK"
    BY <1>0, <1>1 DEF Match, Prepare, fileVars, Untouched
  <2>4. ASSUME Match PROVE Rest' /\ Untouched'
    BY <1>0, <2>1, <2>3, <2>4
       DEF Match, Return, Rest, SuccessNeedsEof, FileStreams, EofIsAtEnd, Untouched
  <2>5. ASSUME Prepare PROVE Rest' /\ Untouched'
    <3>2. CASE \E c \in Refusals(uri) : Return(c) /\ UNCHANGED chunked
      BY <1>0, <2>1, <2>2, <2>3, <2>5, <3>2
         DEF Prepare, Return, Rest, SuccessNeedsEof, FileStreams, EofIsAtEnd, Untouched
    <3>3. CASE /\ step' = IF uri = "file" THEN "open" ELSE "write"
               /\ chunked' = (uri = "file")
               /\ UNCHANGED code
      BY <1>0, <2>1, <2>3, <2>5, <3>3
         DEF Prepare, Rest, SuccessNeedsEof, FileStreams, EofIsAtEnd, Untouched
    <3> QED BY <2>5, <3>2, <3>3 DEF Prepare
  <2> QED BY <1>1, <2>1, <2>4, <2>5, NothingSent
<1>2. CASE WriteWhole
  <2>1. CASE UNCHANGED sent /\ Return("Error")
    <3>1. Rest' /\ Untouched' /\ UNCHANGED <<sent, uri>> /\ step' = "finish"
      BY <1>0, <1>2, <2>1 DEF WriteWhole, Return, fileVars, Rest, SuccessNeedsEof,
                              FileStreams, EofIsAtEnd, Untouched
    <3> QED BY <3>1, NothingSent
  <2>2. CASE Send(1) /\ step' = "written" /\ UNCHANGED code
    <3>1. sent' = Append(sent, "whole")
      BY <1>0, <1>2, <2>2 DEF Send, WriteWhole, Rest, FileStreams
    <3>2. Rest' /\ UNCHANGED uri /\ ~file
      BY <1>0, <1>2, <2>2 DEF WriteWhole, fileVars, Rest, SuccessNeedsEof, FileStreams,
                              EofIsAtEnd
    <3> QED BY <2>2, <3>1, <3>2, SomethingSent
  <2> QED BY <1>2, <2>1, <2>2 DEF WriteWhole
<1>3. CASE Written \/ OpenFile \/ ReadEnds \/ ReadFails
  <2>1. UNCHANGED <<sent, uri>> /\ step' # "chunk"
    BY <1>3 DEF Written, OpenFile, ReadEnds, ReadFails, Return, Close
  <2>2. Rest' /\ Untouched'
    BY <1>0, <1>3 DEF Written, OpenFile, ReadEnds, ReadFails, Return, Close, fileVars, Rest,
                      SuccessNeedsEof, FileStreams, EofIsAtEnd, Untouched
  <2>3. step' = "read" => ~Ended
    BY <1>0, <1>3 DEF Written, OpenFile, ReadEnds, ReadFails, Return, Close, Untouched,
                      Ended, Position
  <2> QED BY <2>1, <2>2, <2>3, NothingSent
<1>4. CASE ReadChunk
  <2>1. file /\ ~eof /\ step = "read" /\ UNCHANGED <<uri, chunked, code, size, sent>>
    BY <1>0, <1>4 DEF ReadChunk, Rest, FileStreams
  <2> DEFINE k == Least(Buffer, size - pos)
  <2>2. pos' = pos + k /\ buffered' = k /\ eof' = (k < Buffer) /\ step' = "chunk"
    BY <1>4 DEF ReadChunk
  <2>3. /\ size \in Nat /\ pos \in Nat /\ pos <= size /\ Buffer \in Nat /\ Buffer > 0
        /\ size <= MaxFile /\ MaxFile \in Nat
    BY <1>0, StreamAssumption DEF Rest
  <2>4. /\ k \in 0..Buffer /\ pos + k \in 0..size
        /\ k < Buffer => pos + k = size
        /\ k = 0 => k < Buffer
    BY <2>3 DEF Least
  <2> HIDE DEF k
  <2>5. /\ pos' \in 0..size' /\ buffered' \in 0..Buffer /\ eof' \in BOOLEAN
        /\ eof' => pos' = size'
        /\ buffered' = 0 => eof'
    <3>1. eof' \in BOOLEAN
      BY <2>2
    <3>2. eof' <=> k < Buffer
      BY <2>2, <2>3, <2>4
    <3> QED BY <2>1, <2>2, <2>4, <3>1, <3>2
  <2>6. Rest'
    BY <1>0, <2>1, <2>2, <2>5 DEF Rest, SuccessNeedsEof, FileStreams, EofIsAtEnd
  <2>7. ~Ended /\ Untouched'
    BY <1>0, <2>1, <2>2 DEF EndNeedsEof, Untouched
  <2> QED BY <2>1, <2>2, <2>5, <2>6, <2>7, NothingSent
<1>5. CASE WriteChunk
  <2>1. file /\ step = "chunk" /\ ~Ended /\ (buffered = 0 => eof)
        /\ UNCHANGED <<uri, chunked, size, pos, eof>> /\ buffered' = 0 /\ buffered \in Nat
    BY <1>0, <1>5 DEF WriteChunk, Rest, FileStreams, EndNeedsEof
  <2>2. CASE UNCHANGED sent /\ Close("Error")
    <3>1. Rest' /\ Untouched' /\ step' = "close"
      BY <1>0, <2>1, <2>2, StreamAssumption
         DEF Close, Rest, SuccessNeedsEof, FileStreams, EofIsAtEnd, Untouched
    <3> QED BY <2>1, <2>2, <3>1, NothingSent
  <2>3. CASE Send(buffered) /\ step' = "read" /\ UNCHANGED code
    <3>1. PICK w \in {"whole", "part", "end"} :
               sent' = Append(sent, w) /\ (w = "end" => buffered = 0)
      BY <2>1, <2>3 DEF Send
    <3>2. Rest'
      BY <1>0, <2>1, <2>3, StreamAssumption
         DEF Rest, SuccessNeedsEof, FileStreams, EofIsAtEnd
    <3> QED BY <2>1, <2>3, <3>1, <3>2, SomethingSent
  <2> QED BY <1>5, <2>2, <2>3 DEF WriteChunk
<1>6. CASE CloseFile
  <2>1. /\ step = "close" /\ step' = "finish"
        /\ Send(0) \/ UNCHANGED sent
        /\ UNCHANGED <<uri, chunked, code, fileVars>>
    BY <1>6 DEF CloseFile
  <2>2. Rest' /\ Untouched' /\ UNCHANGED uri
    BY <1>0, <2>1 DEF fileVars, Rest, SuccessNeedsEof, FileStreams, EofIsAtEnd, Untouched
  <2>3. CASE UNCHANGED sent
    BY <2>1, <2>2, <2>3, NothingSent
  <2>4. CASE Send(0)
    <3>1. PICK w \in {"whole", "end"} : sent' = Append(sent, w)
      BY <2>4 DEF Send
    <3> QED BY <2>1, <2>2, <3>1, SomethingSent
  <2> QED BY <2>1, <2>3, <2>4
<1>7. CASE Finish
  <2>1. /\ step = "finish" /\ step' = "done" /\ UNCHANGED <<uri, chunked, code, fileVars>>
        /\ sent' = Append(sent, "error") \/ UNCHANGED sent
    BY <1>7 DEF Finish
  <2>2. Rest' /\ Untouched' /\ UNCHANGED uri
    BY <1>0, <2>1 DEF fileVars, Rest, SuccessNeedsEof, FileStreams, EofIsAtEnd, Untouched
  <2> QED BY <2>1, <2>2, NothingSent, SomethingSent
<1>8. CASE UNCHANGED respVars
  <2>1. UNCHANGED <<uri, step, chunked, code, size, pos, eof, buffered, sent>>
    BY <1>8 DEF respVars
  <2>2. Rest' /\ Untouched'
    BY <1>0, <2>1 DEF Rest, SuccessNeedsEof, FileStreams, EofIsAtEnd, Untouched
  <2> QED BY <1>0, <2>1, <2>2, NothingSent DEF EndNeedsEof
<1> QED
  BY <1>1, <1>2, <1>3, <1>4, <1>5, <1>6, <1>7, <1>8 DEF RespNext

\* Type correctness of the response.
THEOREM ResponseTypeCorrect == RespSpec => []RespTypeOK
<1>1. RespIInv => RespTypeOK
  BY DEF RespIInv
<1> QED BY <1>1, RespStart, RespStep, PTL DEF RespSpec

\* A stream that ended with OK, and that the client saw the end of, carried the whole file
\* before it, for every size of the file and of the buffer.
THEOREM WholeFileIsWhole == RespSpec => []SuccessIsWhole
<1>1. RespIInv => SuccessIsWhole
  BY DEF RespIInv, SuccessIsWhole, SuccessNeedsEof, EofIsAtEnd, NoPartAfterEnd
<1> QED BY <1>1, RespStart, RespStep, PTL DEF RespSpec

-----------------------------------------------------------------------------
(* AsyncTaskScheduler.  EventsKept is not inductive alone: that a pass which ends leaves
   nothing behind needs pass to be empty whenever the loop waits or is stopped, as
   TakeBits overwrites it. *)

\* The loop goes to wait, and may be stopped, only when its pass is over
\* (run_ returns after the last task).
PassBelongsToLoop == loop \in {"stopped", "waiting"} => pass = {}

\* The inductive invariant.
TaskIInv == TasksTypeOK /\ PassBelongsToLoop /\ EventsKept

LEMMA TasksStart == TasksInit => TaskIInv
<1> SUFFICES ASSUME TasksInit PROVE TaskIInv
  OBVIOUS
<1>1. Cardinality(nodes) = 0
  BY FS_EmptySet DEF TasksInit
<1>2. TasksTypeOK
  BY <1>1, TasksAssumption DEF TasksInit, TasksTypeOK
<1>3. PassBelongsToLoop /\ EventsKept
  BY DEF TasksInit, PassBelongsToLoop, EventsKept
<1> QED
  BY <1>2, <1>3 DEF TaskIInv

\* AsyncTaskScheduler::add refuses a task beyond the bits of the event group.
LEMMA AddTaskKeeps ==
  ASSUME TaskIInv, NEW t \in Task, AddTask(t)
  PROVE  TaskIInv'
<1> USE DEF TaskIInv
<1>1. IsFiniteSet(nodes)
  BY TasksAssumption, FS_Subset DEF TasksTypeOK
<1>2. Cardinality(nodes) \in Nat /\ Cardinality(nodes \cup {t}) = Cardinality(nodes) + 1
  BY <1>1, FS_CardinalityType, FS_AddElement DEF AddTask
<1>3. Cardinality(nodes') <= MaxCount
  BY <1>2, TasksAssumption DEF AddTask
<1>4. TasksTypeOK'
  BY <1>3 DEF AddTask, TasksTypeOK
<1>5. (PassBelongsToLoop /\ EventsKept)'
  BY DEF AddTask, PassBelongsToLoop, EventsKept
<1> QED
  BY <1>4, <1>5

LEMMA TasksStep == TaskIInv /\ [TasksNext]_taskVars => TaskIInv'
<1> SUFFICES ASSUME TaskIInv, [TasksNext]_taskVars PROVE TaskIInv'
  OBVIOUS
<1> USE DEF TaskIInv, TasksTypeOK, PassBelongsToLoop, EventsKept
<1>1. ASSUME StartTimers PROVE TaskIInv'
  BY <1>1 DEF StartTimers
<1>2. ASSUME TakeBits PROVE TaskIInv'
  \* Nothing of an earlier pass is overwritten.
  BY <1>2 DEF TakeBits
<1>3. ASSUME PassEnds PROVE TaskIInv'
  BY <1>3 DEF PassEnds
<1>4. ASSUME NEW t \in Task, RunTask(t) PROVE TaskIInv'
  BY <1>4 DEF RunTask, IsFirst
<1>5. ASSUME StartTasks PROVE TaskIInv'
  BY <1>5 DEF StartTasks
<1>6. ASSUME StopTasks PROVE TaskIInv'
  BY <1>6 DEF StopTasks
<1>7. ASSUME NEW t \in Task, AddTask(t) PROVE TaskIInv'
  BY <1>7, AddTaskKeeps
<1>8. ASSUME NEW t \in Task, Fire(t) PROVE TaskIInv'
  BY <1>8 DEF Fire
<1>9. CASE UNCHANGED taskVars
  BY <1>9 DEF taskVars
<1> QED
  BY <1>1, <1>2, <1>3, <1>4, <1>5, <1>6, <1>7, <1>8, <1>9 DEF TasksNext, Scheduler

\* Never more tasks than the event group has bits, and no timer, bit or task of a pass
\* that belongs to no registered task (AsyncTaskScheduler::add, run_).
THEOREM TasksTypeCorrect == TasksSpec => []TasksTypeOK
<1>1. TaskIInv => TasksTypeOK
  BY DEF TaskIInv
<1> QED
  BY <1>1, TasksStart, TasksStep, PTL DEF TasksSpec

\* A timer that fired has its bit set or its task still to run, for any number of
\* tasks (AsyncTask::run against xEventGroupWaitBits of run_).
THEOREM NoEventIsLost == TasksSpec => []EventsKept
<1>1. TaskIInv => EventsKept
  BY DEF TaskIInv
<1> QED
  BY <1>1, TasksStart, TasksStep, PTL DEF TasksSpec

-----------------------------------------------------------------------------
(* The counters.  What a counter was read as is related to the time lived before this
   boot, and the loop never lets more than a period pass since the save the RateLimiter
   remembers. *)

\* The ticks in so many units.
Ticks(units) == Resolution * units

\* What a start would read.
Held(c) == IF stored[c] = NotStored THEN 0 ELSE stored[c]

\* The time on top of which a counter counts is time the device had lived.
BaseIsLived == \A c \in Counter : Ticks(base[c]) + now <= lived
HeldIsLived == \A c \in Counter : Ticks(Held(c)) <= lived

Starting == {"read_uptime", "erase_uptime", "read_lifetime"}

\* Since the save that start_ remembers at most a Period has passed, less if the loop
\* has run in this tick (RateLimiter::allow).
SavesOften ==
  /\ start <= now
  /\ phase \in Starting => now = 0
  /\ now - start <= Period
  /\ looped => now - start < Period

\* What was read lacks what earlier boots missed; what is stored also lacks a fraction
\* of a unit and what was counted since the save; a save of the reboot makes up for that.
Complete ==
  ~faulty =>
    /\ phase \notin Starting => lived - (Ticks(base["lifetime"]) + now) <= missed
    /\ phase \in Starting => lived - Ticks(Held("lifetime")) <= missed
    /\ lived - Ticks(Held("lifetime")) < missed + (now - start) + Resolution
    /\ phase = "restart" => lived - Ticks(Held("lifetime")) < missed + Resolution

CounterIInv == CounterTypeOK /\ BaseIsLived /\ HeldIsLived /\ SavesOften /\ Complete

-----------------------------------------------------------------------------
\* TimeCounter: whole units only, so that less than one is lost.
LEMMA ConstantsTyped ==
  /\ Resolution \in Nat /\ Resolution > 0
  /\ Period \in Nat /\ Period > 0 /\ MaxLived \in Nat
BY CountersAssumption

LEMMA TicksLemma ==
  /\ Ticks(0) = 0
  /\ \A n \in Nat : Ticks(n) \in Nat
  /\ \A n, m \in Nat : Ticks(n + m) = Ticks(n) + Ticks(m)
BY ConstantsTyped DEF Ticks

LEMMA UnitBounds ==
  ASSUME NEW n \in Nat
  PROVE  /\ n \div Resolution \in Nat
         /\ Ticks(n \div Resolution) <= n
         /\ n < Ticks(n \div Resolution) + Resolution
<1>1. n \div Resolution \in Nat
  BY ConstantsTyped
<1>2. Resolution * (n \div Resolution) <= n
  BY ConstantsTyped
<1>3. n < Resolution * (n \div Resolution) + Resolution
  BY ConstantsTyped
<1> QED
  BY <1>1, <1>2, <1>3 DEF Ticks

\* The parts of the invariant whose terms keep their values.
LEMMA NumbersTyped ==
  ASSUME CounterTypeOK
  PROVE  /\ now \in Nat /\ start \in Nat /\ lived \in Nat /\ missed \in Nat
         /\ \A c \in Counter : /\ base[c] \in Nat /\ Held(c) \in Nat
                               /\ Ticks(base[c]) \in Nat /\ Ticks(Held(c)) \in Nat
<1>1. \A c \in Counter : base[c] \in Nat /\ Held(c) \in Nat
  BY DEF CounterTypeOK, Held, NotStored
<1>2. now \in Nat /\ start \in Nat /\ lived \in Nat /\ missed \in Nat
  BY ConstantsTyped DEF CounterTypeOK
<1> QED
  BY <1>1, <1>2, TicksLemma

LEMMA GetBounds ==
  ASSUME CounterTypeOK, NEW c \in Counter
  PROVE  /\ Get(c) \in Nat
         /\ Ticks(Get(c)) \in Nat
         /\ Ticks(Get(c)) <= Ticks(base[c]) + now
         /\ Ticks(base[c]) + now < Ticks(Get(c)) + Resolution
<1> DEFINE units == now \div Resolution
<1>1. units \in Nat /\ Ticks(units) <= now /\ now < Ticks(units) + Resolution
  BY UnitBounds, NumbersTyped
<1>2. Get(c) = base[c] + units
  BY DEF Get
<1> HIDE DEF units
<1>3. Get(c) \in Nat
  BY <1>1, <1>2, NumbersTyped
<1>4. Ticks(Get(c)) = Ticks(base[c]) + Ticks(units)
  BY <1>1, <1>2, NumbersTyped, TicksLemma
<1>5. Ticks(units) \in Nat /\ Ticks(base[c]) \in Nat /\ Ticks(Get(c)) \in Nat
  BY <1>1, <1>3, NumbersTyped, TicksLemma
<1> QED
  BY <1>1, <1>3, <1>4, <1>5, NumbersTyped, ConstantsTyped

LEMMA CountersStart == CounterInit => CounterIInv
<1> SUFFICES ASSUME CounterInit PROVE CounterIInv
  OBVIOUS
<1>1. /\ base \in [Counter -> Nat] /\ stored \in [Counter -> Nat \cup {NotStored}]
      /\ looped \in BOOLEAN /\ faulty \in BOOLEAN
  BY DEF CounterInit
<1>2. /\ now \in 0..MaxLived /\ start \in 0..MaxLived
      /\ lived \in now..MaxLived /\ missed \in 0..MaxLived
  BY ConstantsTyped DEF CounterInit
<1>3. CounterTypeOK
  BY <1>1, <1>2 DEF CounterInit, CounterTypeOK
<1>4. \A c \in Counter : base[c] = 0 /\ Held(c) = 0
  BY DEF CounterInit, Held
<1>5. BaseIsLived /\ HeldIsLived
  BY ConstantsTyped, TicksLemma, <1>4 DEF CounterInit, BaseIsLived, HeldIsLived
<1>6. SavesOften
  BY ConstantsTyped DEF CounterInit, SavesOften
<1>7. Complete
  BY ConstantsTyped, TicksLemma, <1>4 DEF CounterInit, Complete, Starting, Counter
<1> QED
  BY <1>3, <1>5, <1>6, <1>7 DEF CounterIInv

-----------------------------------------------------------------------------
\* A read at startup takes what is stored, or a failure leaves zero (BasicPersistentCounter).
LEMMA ReadKeeps ==
  ASSUME CounterIInv, ReadUptime \/ ReadLifetime
  PROVE  CounterIInv'
<1> USE DEF CounterIInv
<1>1. PICK c \in Counter : /\ Read(c)
                           /\ c = "lifetime" <=> phase = "read_lifetime"
  BY DEF ReadUptime, ReadLifetime, Counter
<1>2. /\ phase \in Starting /\ phase' \in {"erase_uptime", "running"}
      /\ phase' = "running" <=> c = "lifetime"
      /\ UNCHANGED <<now, start, looped, stored, lived, missed>>
  BY <1>1 DEF ReadUptime, ReadLifetime, Goto, Starting
<1>3. \/ base' = [base EXCEPT ![c] = Held(c)] /\ faulty' = faulty
      \/ base' = [base EXCEPT ![c] = 0] /\ faulty' = TRUE
  BY <1>1 DEF Read, Held
<1>4. now = 0
  BY <1>2 DEF SavesOften
<1>5. CounterTypeOK'
  <2>1. base' \in [Counter -> Nat]
    <3>1. base \in [Counter -> Nat] /\ Held(c) \in Nat
      BY NumbersTyped DEF CounterTypeOK
    <3> QED
      BY <1>3, <3>1
  <2>2. faulty' \in BOOLEAN
    BY <1>3 DEF CounterTypeOK
  <2> QED
    BY <1>2, <2>1, <2>2 DEF CounterTypeOK
<1>6. \A d \in Counter : Held(d)' = Held(d)
  BY <1>2 DEF Held
<1>7. BaseIsLived'
  <2> SUFFICES ASSUME NEW d \in Counter PROVE Ticks(base'[d]) <= lived
    <3>1. \A d \in Counter : base'[d] \in Nat /\ Ticks(base'[d]) \in Nat
      BY <1>5, TicksLemma DEF CounterTypeOK
    <3> QED
      BY <1>2, <1>4, <3>1, NumbersTyped DEF BaseIsLived
  <2>1. base'[d] = base[d] \/ base'[d] = Held(d) \/ base'[d] = 0
    BY <1>3 DEF CounterTypeOK
  <2>2. Ticks(base[d]) <= lived /\ Ticks(Held(d)) <= lived /\ Ticks(0) <= lived
    BY <1>4, NumbersTyped, TicksLemma DEF BaseIsLived, HeldIsLived
  <2> QED
    BY <2>1, <2>2
<1>8. HeldIsLived'
  BY <1>2, <1>6 DEF HeldIsLived
<1>9. SavesOften'
  BY <1>2, <1>4 DEF SavesOften
<1>10. Complete'
  <2>1. ASSUME ~faulty', c = "lifetime" PROVE base'["lifetime"] = Held("lifetime")
    BY <1>3, <2>1 DEF CounterTypeOK
  <2>2. Held("lifetime")' = Held("lifetime")
    BY <1>6 DEF Counter
  <2>3. Ticks(Held("lifetime")) \in Nat
    BY NumbersTyped DEF Counter
  <2> SUFFICES ASSUME ~faulty' PROVE Complete'
    BY DEF Complete
  <2>4. ~faulty /\ lived - Ticks(Held("lifetime")) <= missed
    BY <1>2, <1>3 DEF Complete
  <2>5. phase' \notin Starting =>
          lived - (Ticks(base'["lifetime"]) + now) <= missed
    BY <1>2, <1>4, <2>1, <2>3, <2>4, NumbersTyped DEF Starting
  <2>6. phase' # "restart"
    BY <1>2
  <2> QED
    BY <1>2, <1>4, <2>2, <2>4, <2>5, <2>6 DEF Complete
<1> QED
  BY <1>5, <1>7, <1>8, <1>9, <1>10

\* What BasicPersistentCounter::save_ leaves in flash: the value, or what was there.
LEMMA SaveLemma ==
  ASSUME CounterTypeOK, NEW c \in Counter, Save(c)
  PROVE  /\ stored' \in [Counter -> Nat \cup {NotStored}] /\ faulty' \in BOOLEAN
         /\ faulty => faulty'
         /\ \A d \in Counter : d # c => Held(d)' = Held(d)
         /\ Held(c)' = Held(c) \/ Held(c)' = Get(c)
         /\ ~faulty' => Held(c)' = Get(c)
<1>1. stored \in [Counter -> Nat \cup {NotStored}] /\ faulty \in BOOLEAN
  BY DEF CounterTypeOK
<1>2. Get(c) \in Nat /\ Get(c) # NotStored
  BY GetBounds DEF NotStored
<1>3. \/ stored' = [stored EXCEPT ![c] = Get(c)]
      \/ stored' = stored /\ faulty' = TRUE
  BY DEF Save
<1>4. faulty' = faulty \/ faulty' = TRUE
  BY DEF Save
<1>5. stored' \in [Counter -> Nat \cup {NotStored}]
  BY <1>1, <1>2, <1>3
<1>6. faulty' \in BOOLEAN /\ (faulty => faulty')
  BY <1>1, <1>4
<1>7. \A d \in Counter : d # c => Held(d)' = Held(d)
  BY <1>1, <1>3 DEF Held
<1>8. stored' = [stored EXCEPT ![c] = Get(c)] => Held(c)' = Get(c)
  BY <1>1, <1>2 DEF Held
<1>9. stored' = stored => Held(c)' = Held(c)
  BY DEF Held
<1> QED
  BY <1>3, <1>5, <1>6, <1>7, <1>8, <1>9

\* Every save leaves no more than was lived.
LEMMA SaveHeldIsLived ==
  ASSUME CounterIInv, NEW c \in Counter, Save(c), UNCHANGED lived
  PROVE  HeldIsLived'
<1>1. Ticks(Get(c)) <= lived
  BY GetBounds, NumbersTyped DEF CounterIInv, BaseIsLived
<1>2. \A d \in Counter : Held(d)' = Held(d) \/ Held(d)' = Get(c)
  BY SaveLemma DEF CounterIInv
<1>3. \A d \in Counter : Ticks(Held(d)') <= lived
  BY <1>1, <1>2 DEF CounterIInv, HeldIsLived
<1> QED
  BY <1>3 DEF HeldIsLived

\* With a save that succeeds, less than a unit is missing in flash of what the counter
\* shows.
LEMMA SaveIsComplete ==
  ASSUME CounterIInv, Save("lifetime"), ~faulty', phase \notin Starting
  PROVE  /\ ~faulty
         /\ lived - Ticks(Held("lifetime")') < missed + Resolution
<1>1. "lifetime" \in Counter
  BY DEF Counter
<1>2. ~faulty /\ Held("lifetime")' = Get("lifetime")
  BY <1>1, SaveLemma DEF CounterIInv
<1>3. lived - (Ticks(base["lifetime"]) + now) <= missed
  BY <1>2 DEF CounterIInv, Complete
<1> QED
  BY <1>1, <1>2, <1>3, GetBounds, NumbersTyped, ConstantsTyped DEF CounterIInv

\* MemPersistentCounter erases its key: what a start reads is then zero.
LEMMA EraseCounterKeeps ==
  ASSUME CounterIInv, EraseUptime
  PROVE  CounterIInv'
<1> USE DEF CounterIInv
<1>1. /\ phase = "erase_uptime" /\ phase' = "read_lifetime"
      /\ UNCHANGED <<now, start, looped, base, lived, missed>>
  BY DEF EraseUptime, Goto
<1>2. /\ stored' = stored \/ stored' = [stored EXCEPT !["uptime"] = NotStored]
      /\ faulty' = faulty \/ faulty' = TRUE
  BY DEF EraseUptime
<1>3. "lifetime" \in Counter /\ "lifetime" # "uptime"
  BY DEF Counter
<1>4. stored' \in [Counter -> Nat \cup {NotStored}] /\ faulty' \in BOOLEAN
  BY <1>2 DEF CounterTypeOK
<1>5. CounterTypeOK'
  BY <1>1, <1>4 DEF CounterTypeOK
<1>6. /\ \A c \in Counter : Held(c)' = Held(c) \/ Held(c)' = 0
      /\ Held("lifetime")' = Held("lifetime")
  BY <1>2, <1>3 DEF Held, CounterTypeOK
<1>7. BaseIsLived'
  BY <1>1 DEF BaseIsLived
<1>8. HeldIsLived'
  <2>1. Ticks(0) <= lived
    BY TicksLemma, NumbersTyped
  <2>2. \A c \in Counter : Ticks(Held(c)') <= lived
    BY <1>6, <2>1 DEF HeldIsLived
  <2> QED
    BY <1>1, <2>2 DEF HeldIsLived
<1>9. SavesOften' /\ Complete'
  BY <1>1, <1>2, <1>6 DEF SavesOften, Complete, Starting
<1> QED
  BY <1>5, <1>7, <1>8, <1>9

\* A save of the loop is remembered by the RateLimiter: the next is due in a Period.
LEMMA LoopKeeps ==
  ASSUME CounterIInv, LoopSaves \/ LoopSkips
  PROVE  CounterIInv'
<1> USE DEF CounterIInv
<1>1. CASE LoopSaves
  <2>1. /\ phase = "running" /\ start' = now /\ looped' = TRUE
        /\ Save("lifetime") /\ UNCHANGED <<phase, now, base, lived, missed>>
    BY <1>1 DEF LoopSaves
  <2>2. "lifetime" \in Counter
    BY DEF Counter
  <2>3. CounterTypeOK'
    <3>1. stored' \in [Counter -> Nat \cup {NotStored}] /\ faulty' \in BOOLEAN
      BY <2>1, <2>2, SaveLemma
    <3>2. start' \in 0..MaxLived
      BY <2>1 DEF CounterTypeOK
    <3> QED
      BY <2>1, <3>1, <3>2 DEF CounterTypeOK
  <2>4. BaseIsLived' /\ HeldIsLived'
    BY <2>1, <2>2, SaveHeldIsLived DEF BaseIsLived
  <2>5. SavesOften'
    BY <2>1, NumbersTyped, ConstantsTyped DEF SavesOften, Starting
  <2>6. Complete'
    <3> SUFFICES ASSUME ~faulty' PROVE Complete'
      BY DEF Complete
    <3>1. ~faulty /\ lived - Ticks(Held("lifetime")') < missed + Resolution
      BY <2>1, SaveIsComplete DEF Starting
    <3>2. lived - Ticks(Held("lifetime")') < missed + (now - now) + Resolution
      BY <3>1, NumbersTyped
    <3> QED
      BY <2>1, <3>1, <3>2 DEF Complete, Starting
  <2> QED
    BY <2>3, <2>4, <2>5, <2>6
<1>2. CASE LoopSkips
  <2>1. /\ phase = "running" /\ looped' = TRUE /\ start # 0 /\ ~(now - start >= Period)
        /\ UNCHANGED <<phase, now, start, base, stored, lived, missed, faulty>>
    BY <1>2 DEF LoopSkips, Allow
  <2>2. CounterTypeOK'
    BY <2>1 DEF CounterTypeOK
  <2>3. \A c \in Counter : Held(c)' = Held(c)
    BY <2>1 DEF Held
  <2>4. BaseIsLived' /\ HeldIsLived'
    BY <2>1, <2>3 DEF BaseIsLived, HeldIsLived
  <2>5. SavesOften'
    BY <2>1, NumbersTyped, ConstantsTyped DEF SavesOften
  <2>6. Complete'
    BY <2>1, <2>3 DEF Complete, Counter
  <2> QED
    BY <2>2, <2>4, <2>5, <2>6
<1> QED
  BY <1>1, <1>2

\* A tick is lived and counted.
LEMMA TickKeeps ==
  ASSUME CounterIInv, Tick
  PROVE  CounterIInv'
<1> USE DEF CounterIInv
<1>1. /\ phase = "running" /\ looped /\ lived < MaxLived
      /\ now' = now + 1 /\ lived' = lived + 1 /\ looped' = FALSE
      /\ UNCHANGED <<phase, start, base, stored, missed, faulty>>
  BY DEF Tick
<1>2. CounterTypeOK'
  <2>1. now' \in 0..MaxLived /\ lived' \in now'..MaxLived
    BY <1>1, ConstantsTyped DEF CounterTypeOK
  <2> QED
    BY <1>1, <2>1 DEF CounterTypeOK
<1>3. \A c \in Counter : Held(c)' = Held(c)
  BY <1>1 DEF Held
<1>4. BaseIsLived'
  BY <1>1, NumbersTyped DEF BaseIsLived
<1>5. HeldIsLived'
  BY <1>1, <1>3, NumbersTyped DEF HeldIsLived
<1>6. SavesOften'
  BY <1>1, NumbersTyped, ConstantsTyped DEF SavesOften, Starting
<1>7. Complete'
  BY <1>1, <1>3, NumbersTyped, ConstantsTyped DEF Complete, Counter, Starting
<1> QED
  BY <1>2, <1>4, <1>5, <1>6, <1>7

\* The reboot handlers save one counter each; the save of the lifetime, if it succeeds,
\* makes up for the time since the last of the loop.
LEMMA RebootSaves ==
  ASSUME CounterIInv, BeginReboot \/ SaveUptime \/ SaveLifetime
  PROVE  CounterIInv'
<1> USE DEF CounterIInv
<1>1. /\ phase \notin Starting /\ phase' \in {"save_uptime", "save_lifetime", "restart"}
      /\ UNCHANGED <<now, start, looped, base, lived, missed>>
  BY DEF BeginReboot, SaveUptime, SaveLifetime, Goto, Starting
<1>2. BaseIsLived' /\ SavesOften'
  BY <1>1 DEF BaseIsLived, SavesOften, Starting
<1>3. CASE BeginReboot
  <2>1. phase' = "save_uptime" /\ UNCHANGED <<stored, faulty>>
    BY <1>3 DEF BeginReboot, Goto
  <2>2. CounterTypeOK'
    BY <1>1, <2>1 DEF CounterTypeOK
  <2>3. \A c \in Counter : Held(c)' = Held(c)
    BY <2>1 DEF Held
  <2>4. HeldIsLived' /\ Complete'
    BY <1>1, <2>1, <2>3 DEF HeldIsLived, Complete, Counter, Starting
  <2> QED
    BY <1>2, <2>2, <2>4
<1>4. CASE SaveUptime \/ SaveLifetime
  <2>1. PICK c \in Counter :
          /\ Save(c)
          /\ c = "uptime" => phase' = "save_lifetime"
          /\ c = "lifetime" => phase' = "restart"
    BY <1>4 DEF SaveUptime, SaveLifetime, Goto, Counter
  <2>2. CounterTypeOK'
    <3>1. stored' \in [Counter -> Nat \cup {NotStored}] /\ faulty' \in BOOLEAN
      BY <2>1, SaveLemma
    <3> QED
      BY <1>1, <3>1 DEF CounterTypeOK
  <2>3. HeldIsLived'
    BY <1>1, <2>1, SaveHeldIsLived
  <2>4. Complete'
    <3> SUFFICES ASSUME ~faulty' PROVE Complete'
      BY DEF Complete
    <3>1. ~faulty
      BY <2>1, SaveLemma
    <3>2. CASE c = "uptime"
      <4>1. Held("lifetime")' = Held("lifetime") /\ phase' = "save_lifetime"
        BY <2>1, <3>2, SaveLemma DEF Counter
      <4> QED
        BY <1>1, <3>1, <4>1 DEF Complete, Starting
    <3>3. CASE c = "lifetime"
      <4>1. lived - Ticks(Held("lifetime")') < missed + Resolution
        BY <1>1, <2>1, <3>3, SaveIsComplete
      <4>2. Ticks(Held("lifetime")') \in Nat
        <5>1. "lifetime" \in Counter
          BY DEF Counter
        <5>2. Held("lifetime")' = Held("lifetime") \/ Held("lifetime")' = Get("lifetime")
          BY <2>1, <3>3, <5>1, SaveLemma
        <5> QED
          BY <5>1, <5>2, GetBounds, NumbersTyped
      <4>3. lived - Ticks(Held("lifetime")') < missed + (now - start) + Resolution
        BY <4>1, <4>2, NumbersTyped, ConstantsTyped DEF SavesOften
      <4> QED
        BY <1>1, <2>1, <3>1, <3>3, <4>1, <4>3 DEF Complete, Starting
    <3> QED
      BY <3>2, <3>3 DEF Counter
  <2> QED
    BY <1>2, <2>2, <2>3, <2>4
<1> QED
  BY <1>3, <1>4

\* A boot loses what flash lacks: a fraction of a unit after an ordered reboot, up to a
\* period more after a power cut at any point.
LEMMA BootKeeps ==
  ASSUME CounterIInv, Restart \/ PowerCut
  PROVE  CounterIInv'
<1> USE DEF CounterIInv
<1>1. PICK lacking \in Nat :
        /\ Boot(lacking)
        /\ ~faulty => lived - Ticks(Held("lifetime")) <= missed + lacking
  <2>1. Ticks(Held("lifetime")) \in Nat
    BY NumbersTyped DEF Counter
  <2>2. CASE Restart
    <3>1. Resolution - 1 \in Nat /\ phase = "restart" /\ Boot(Resolution - 1)
      BY <2>2, ConstantsTyped DEF Restart
    <3>2. ~faulty => lived - Ticks(Held("lifetime")) <= missed + (Resolution - 1)
      BY <2>1, <3>1, NumbersTyped, ConstantsTyped DEF Complete
    <3> QED
      BY <3>1, <3>2
  <2>3. CASE PowerCut
    <3>1. Period + Resolution - 1 \in Nat /\ Boot(Period + Resolution - 1)
      BY <2>3, ConstantsTyped DEF PowerCut
    <3>2. ~faulty =>
            lived - Ticks(Held("lifetime")) <= missed + (Period + Resolution - 1)
      BY <2>1, NumbersTyped, ConstantsTyped DEF Complete, SavesOften
    <3> QED
      BY <3>1, <3>2
  <2> QED
    BY <2>2, <2>3
<1>2. /\ phase' = "read_uptime" /\ now' = 0 /\ start' = 0 /\ looped' = FALSE
      /\ base' = [c \in Counter |-> 0] /\ UNCHANGED <<stored, lived, faulty>>
  BY <1>1 DEF Boot, Goto
<1>3. /\ missed' \in 0..MaxLived
      /\ ~faulty => lived - Ticks(Held("lifetime")) <= missed'
  <2>1. missed' = IF missed + lacking > MaxLived THEN MaxLived ELSE missed + lacking
    BY <1>1 DEF Boot
  <2>2. Ticks(Held("lifetime")) \in Nat /\ lived <= MaxLived
    BY NumbersTyped, ConstantsTyped DEF Counter, CounterTypeOK
  <2> QED
    BY <1>1, <2>1, <2>2, NumbersTyped, ConstantsTyped
<1>4. CounterTypeOK'
  <2>1. base' \in [Counter -> Nat]
    BY <1>2
  <2>2. now' \in 0..MaxLived /\ start' \in 0..MaxLived /\ lived' \in now'..MaxLived
    BY <1>2, ConstantsTyped DEF CounterTypeOK
  <2> QED
    BY <1>2, <1>3, <2>1, <2>2 DEF CounterTypeOK
<1>5. \A c \in Counter : Held(c)' = Held(c) /\ base'[c] = 0
  BY <1>2 DEF Held
<1>6. BaseIsLived'
  BY <1>2, <1>5, TicksLemma, NumbersTyped DEF BaseIsLived
<1>7. HeldIsLived'
  BY <1>2, <1>5 DEF HeldIsLived
<1>8. SavesOften'
  BY <1>2, ConstantsTyped DEF SavesOften
<1>9. Complete'
  <2> SUFFICES ASSUME ~faulty' PROVE Complete'
    BY DEF Complete
  <2>1. lived' - Ticks(Held("lifetime")') <= missed'
    BY <1>2, <1>3, <1>5 DEF Counter
  <2>2. Ticks(Held("lifetime")') \in Nat /\ lived' \in Nat /\ missed' \in Nat
    BY <1>2, <1>3, <1>5, NumbersTyped, ConstantsTyped DEF Counter
  <2>3. lived' - Ticks(Held("lifetime")') < missed' + (now' - start') + Resolution
    BY <1>2, <2>1, <2>2, ConstantsTyped
  <2> QED
    BY <1>2, <2>1, <2>3 DEF Complete, Starting
<1> QED
  BY <1>4, <1>6, <1>7, <1>8, <1>9

LEMMA CountersStep == CounterIInv /\ [CounterNext]_counterVars => CounterIInv'
<1> SUFFICES ASSUME CounterIInv, [CounterNext]_counterVars PROVE CounterIInv'
  OBVIOUS
<1>1. CASE Startup
  BY <1>1, ReadKeeps, EraseCounterKeeps DEF Startup
<1>2. CASE Loop
  BY <1>2, LoopKeeps, TickKeeps DEF Loop
<1>3. CASE Reboot \/ PowerCut
  BY <1>3, RebootSaves, BootKeeps DEF Reboot
<1>4. CASE UNCHANGED counterVars
  <2>1. \A c \in Counter : Held(c)' = Held(c)
    BY <1>4 DEF counterVars, Held
  <2>2. CounterTypeOK'
    BY <1>4 DEF counterVars, CounterIInv, CounterTypeOK
  <2>3. BaseIsLived' /\ HeldIsLived' /\ SavesOften'
    BY <1>4, <2>1 DEF counterVars, CounterIInv, BaseIsLived, HeldIsLived, SavesOften
  <2>4. Complete'
    BY <1>4, <2>1 DEF counterVars, CounterIInv, Complete, Counter
  <2> QED
    BY <2>2, <2>3, <2>4 DEF CounterIInv
<1> QED
  BY <1>1, <1>2, <1>3, <1>4 DEF CounterNext

-----------------------------------------------------------------------------
\* The counters, the clock and the keys have their types (TimeCounter, BasicPersistentCounter).
THEOREM CountersTypeCorrect == CounterSpec => []CounterTypeOK
<1>1. CounterIInv => CounterTypeOK
  BY DEF CounterIInv
<1> QED
  BY <1>1, CountersStart, CountersStep, PTL DEF CounterSpec

\* No counter, in memory or in flash, exceeds the time the device was on, whatever
\* startups, saves and erases are cut off or fail (MemPersistentCounter's constructor
\* erases what AccPersistentCounter's keeps).
THEOREM CountersNotInflated == CounterSpec => []NotInflated
<1>1. ASSUME CounterIInv PROVE NotInflated
  <2> SUFFICES ASSUME NEW c \in Counter
               PROVE  Resolution * Get(c) <= lived /\ Resolution * stored[c] <= lived
    BY DEF NotInflated
  <2>1. Ticks(Get(c)) <= lived
    BY <1>1, GetBounds, NumbersTyped DEF CounterIInv, BaseIsLived
  <2>2. Ticks(Held(c)) <= lived
    BY <1>1 DEF CounterIInv, HeldIsLived
  <2>3. CASE stored[c] = NotStored
    <3>1. Resolution * (-1) <= 0
      BY ConstantsTyped
    <3> QED
      BY <1>1, <2>1, <2>3, <3>1, NumbersTyped, ConstantsTyped
         DEF CounterIInv, Ticks, NotStored
  <2>4. CASE stored[c] # NotStored
    BY <2>1, <2>2, <2>4 DEF Ticks, Held
  <2> QED
    BY <2>3, <2>4
<1> QED
  BY <1>1, CountersStart, CountersStep, PTL DEF CounterSpec

\* Without failures the lifetime lacks at most a fraction of a unit per restart and a
\* Period per power cut, for every resolution and period (the task that
\* PeriodicTaskScheduler runs, and FanoutRebootHandler).
THEOREM LifetimeLossBounded == CounterSpec => []LossBounded
<1>1. ASSUME CounterIInv PROVE LossBounded
  <2> SUFFICES ASSUME phase = "running", ~faulty
               PROVE  lived - Resolution * Get("lifetime") < missed + Resolution
    BY DEF LossBounded
  <2>1. lived - (Ticks(base["lifetime"]) + now) <= missed
    BY <1>1 DEF CounterIInv, Complete, Starting
  <2>2. "lifetime" \in Counter
    BY DEF Counter
  <2>3. lived - Ticks(Get("lifetime")) < missed + Resolution
    BY <1>1, <2>1, <2>2, GetBounds, NumbersTyped, ConstantsTyped DEF CounterIInv
  <2> QED
    BY <2>3 DEF Ticks
<1> QED
  BY <1>1, CountersStart, CountersStep, PTL DEF CounterSpec
=============================================================================
