---------------------------- MODULE NetworkConfig ----------------------------
(***************************************************************************)
(* How a device is configured over HTTP: StaNetworkConfig, ApNetworkConfig *)
(* and MdnsConfig with their handlers, up to the reboot that makes a new   *)
(* configuration effective.                                                *)
(*                                                                         *)
(* A configuration is a few keys of one NVS namespace.  Its members are    *)
(* read once, by the constructor; configure writes the keys that differ    *)
(* from the members, one after the other, and changes no member.  The      *)
(* handler answers and asks the main task to reboot; it is the only        *)
(* request served at a time.  A write or an erase may fail, the client may *)
(* be gone, the queue of the main task may be full, and the power may go   *)
(* at any time.                                                            *)
(*                                                                         *)
(* The three configurations share no key and no member: a behaviour is     *)
(* about one of them, kind.                                                *)
(***************************************************************************)
EXTENDS Naturals

CONSTANTS
  Text,           \* names and passwords of a legal length
  Prefix,         \* pairs of them, the first of which begins the second
  Number,         \* retries, channels and connections within their bounds
  BuiltinText, BuiltinNumber  \* what is used when a key is not stored

NoText == ""      \* the members of a station without configuration
Absent == "absent"

ASSUME ConfigAssumption ==
  /\ Prefix \subseteq Text \X Text
  /\ NoText \notin Text /\ Absent \notin Text \cup Number
  /\ BuiltinText \in Text /\ BuiltinNumber \in Number

Kind == {"sta", "ap", "mdns"}

\* The keys of a configuration, and which of them configure writes first.
Turn(k) == CASE k = "sta"  -> [retry |-> 1, ssid |-> 2, password |-> 3]
             [] k = "ap"   -> [password |-> 1, channel |-> 2, max_conn |-> 3]
             [] k = "mdns" -> [host |-> 1]
Key(k) == DOMAIN Turn(k)
IsText(f) == f \in {"ssid", "password", "host"}
Legal(f) == CASE f = "host" -> Text \cup {NoText}  \* MdnsConfig has no lower bound
              [] IsText(f) /\ f # "host" -> Text
              [] OTHER -> Number

Builtin(k, f) == CASE ~IsText(f) -> BuiltinNumber
                   [] k = "sta" /\ IsText(f) -> NoText
                   [] OTHER -> BuiltinText

VARIABLES
  kind,      \* the configuration this behaviour is about
  flash,     \* its keys in NVS
  members,   \* the members of the object, read at startup
  handler,   \* where the handler is
  wanted,    \* the values it was asked for
  todo,      \* the keys configure has still to write
  stale      \* history: when wanted was asked for, the members did not show the flash: a key
             \* could not be read, or an earlier request failed half-way

configVars == <<kind, flash, members, handler, wanted, todo, stale>>

ConfigTypeOK ==
  /\ kind \in Kind
  /\ flash \in [Key(kind) -> Text \cup Number \cup {Absent}]
  /\ members \in [Key(kind) -> Text \cup Number \cup {NoText}]
  /\ \A f \in Key(kind) : /\ flash[f] \in Legal(f) \cup {Absent}
                          /\ members[f] \in Legal(f) \cup {Builtin(kind, f)}
                          /\ wanted[f] \in Legal(f) \cup {Builtin(kind, f)}
  /\ handler \in {"idle", "writing", "erasing", "respond", "rebooting"}
  /\ todo \subseteq Key(kind)
  /\ stale \in BOOLEAN

-----------------------------------------------------------------------------
(* Startup *)

\* StorageOps::prob_read into a member: a key that is absent or cannot be read
\* leaves the built-in value.
Load(f, readable) == IF f \in readable /\ flash[f] # Absent
                     THEN flash[f] ELSE Builtin(kind, f)

\* The constructors: every key on its own, whatever became of the others.
StartConfig(readable) ==
  /\ members' = [f \in Key(kind) |-> Load(f, readable)]
  /\ handler' = "idle" /\ todo' = {}
  /\ wanted' = members'
  /\ stale' = FALSE

ConfigInit ==
  /\ kind \in Kind
  /\ flash = [f \in Key(kind) |-> Absent]
  /\ members = [f \in Key(kind) |-> Builtin(kind, f)]
  /\ handler = "idle" /\ todo = {} /\ wanted = members
  /\ stale = FALSE

\* StaNetworkConfig::valid: the device joins a network as a station.
Valid == kind = "sta" => NoText \notin {members["ssid"], members["password"]}

-----------------------------------------------------------------------------
(* A request *)

\* strncmp over the length of the shorter text.
Agrees(a, b) == a = b \/ NoText \in {a, b} \/ <<a, b>> \in Prefix \/ <<b, a>> \in Prefix

\* The condition under which configure writes a key.  Mutant: the SSID and the
\* password of a station that has none are compared like any other.
Modified_anyway(f, value) == IF IsText(f) THEN ~Agrees(members[f], value)
                                          ELSE members[f] # value
Modified(f, value) == IF IsText(f) THEN ~Valid \/ ~Agrees(members[f], value)
                                   ELSE members[f] # value

\* handle_update_ takes what the query does not name from the members; configure
\* refuses a value that is not legal, and nothing changes.
Configure ==
  /\ handler = "idle"
  /\ \E named \in (SUBSET Key(kind)) \ {{}} :
       \E asked \in [named -> Text \cup Number \cup {NoText}] :
         LET value == [f \in Key(kind) |->
                         IF f \in named THEN asked[f] ELSE members[f]]
         IN /\ \A f \in Key(kind) : value[f] \in Legal(f)
            /\ wanted' = value
            /\ todo' = {f \in Key(kind) : Modified(f, value[f])}
  /\ handler' = "writing"
  /\ stale' = (\E f \in Key(kind) : members[f] # Load(f, Key(kind)))
  /\ UNCHANGED <<kind, flash, members>>

IsNext(f) == f \in todo /\ \A g \in todo : Turn(kind)[f] <= Turn(kind)[g]

\* storage_.write of the next key.
WriteField ==
  /\ handler = "writing"
  /\ \E f \in todo : /\ IsNext(f)
                    /\ flash' = [flash EXCEPT ![f] = wanted[f]]
                    /\ todo' = todo \ {f}
  /\ UNCHANGED <<kind, members, handler, wanted, stale>>

\* It fails, before nvs_set_blob has stored the value or in nvs_commit after it:
\* configure returns, and so does the handler.
WriteFieldFails ==
  /\ handler = "writing"
  /\ \E f \in todo : /\ IsNext(f)
                    /\ flash' \in {flash, [flash EXCEPT ![f] = wanted[f]]}
  /\ handler' = "idle" /\ todo' = {}
  /\ UNCHANGED <<kind, members, wanted, stale>>

Configured ==
  /\ handler = "writing" /\ todo = {}
  /\ handler' = "respond"
  /\ UNCHANGED <<kind, flash, members, wanted, todo, stale>>

\* "reset=1": nvs_erase_all, or nvs_erase_key of the one key; NVS marks the
\* entries one by one.
ResetConfig ==
  /\ handler = "idle"
  /\ handler' = "erasing"
  /\ wanted' = [f \in Key(kind) |-> Builtin(kind, f)]
  /\ UNCHANGED <<kind, flash, members, todo, stale>>

EraseField ==
  /\ handler = "erasing"
  /\ \E f \in Key(kind) : /\ flash[f] # Absent
                          /\ flash' = [flash EXCEPT ![f] = Absent]
  /\ UNCHANGED <<kind, members, handler, wanted, todo, stale>>

EraseEnds ==
  /\ handler = "erasing"
  /\ \/ handler' = "respond" /\ \A f \in Key(kind) : flash[f] = Absent
     \/ handler' = "idle"
  /\ UNCHANGED <<kind, flash, members, wanted, todo, stale>>

\* write_text, then the reboot task: the response may fail, the queue of the main
\* task may be full, and there is no reboot.  The handler then waits without a limit.  Whether anything was
\* modified makes no difference: the code of write_text has replaced that answer.
Respond ==
  /\ handler = "respond"
  /\ handler' \in {"rebooting", "idle"}
  /\ UNCHANGED <<kind, flash, members, wanted, todo, stale>>

\* The main task runs RebootTask: DelayRebooter, Rebooter, esp_restart.
ConfigReboot(readable) ==
  /\ handler = "rebooting"
  /\ StartConfig(readable)
  /\ UNCHANGED <<kind, flash>>

ConfigPowerCut(readable) == StartConfig(readable) /\ UNCHANGED <<kind, flash>>

Serve == \/ Configure \/ WriteField \/ WriteFieldFails \/ Configured
         \/ ResetConfig \/ EraseField \/ EraseEnds \/ Respond

ConfigNext ==
  \/ Serve
  \/ \E readable \in SUBSET Key(kind) : ConfigReboot(readable) \/ ConfigPowerCut(readable)

ConfigSpec == ConfigInit /\ [][ConfigNext]_configVars

-----------------------------------------------------------------------------
(* Properties *)

\* The comparison is over the shorter length: a value that begins the one in use,
\* or begins with it, is taken for it.
TakenForOld(f) == members[f] # wanted[f] /\ NoText # members[f]
                  /\ Agrees(members[f], wanted[f])

\* What was answered with OK is what the next start uses, key by key, if every key
\* can be read.  The two exceptions are where the code does otherwise: a text taken
\* for the old one, and members that did not show what the flash held.
AcknowledgedApplied ==
  [][ConfigReboot(Key(kind)) =>
       \/ stale
       \/ \A f \in Key(kind) : members'[f] = wanted[f] \/ TakenForOld(f)]_configVars
=============================================================================
