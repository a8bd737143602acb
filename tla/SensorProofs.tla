------------------------------ MODULE SensorProofs ------------------------------
(***************************************************************************)
(* Proofs about the sensors, each under the specification of its own       *)
(* component: the configuration of the DS18B20 and of the analog sensors   *)
(* that a restart finds, the heating count of the SHT41, the sum of        *)
(* samples of the soil sensor, bytes over the 1-Wire bus, bit by bit, and  *)
(* the readings of the BME280, conversion by conversion.                   *)
(***************************************************************************)
EXTENDS Ds18b20, Sht41, RelaySensor, AnalogConfig, AnalogSensors, OneWireBus, Bme280,
        SequenceTheorems, TLAPS

-----------------------------------------------------------------------------
(* SHT41: the heating count *)

\* The heater is on only between a command and its answer, and is counted next.
ShtIInv == /\ ShtTypeOK
           /\ EveryHeatCounted

LEMMA ShtInitial == ShtInit => ShtIInv
  BY DEF ShtInit, ShtIInv, ShtTypeOK, EveryHeatCounted

LEMMA ShtStep == ShtIInv /\ [ShtNext]_shtVars => ShtIInv'
<1> SUFFICES ASSUME ShtIInv, [ShtNext]_shtVars
             PROVE  ShtIInv'
  OBVIOUS
<1> USE Sht41Assumption DEF ShtIInv, ShtTypeOK, EveryHeatCounted
<1>1. ASSUME NEW kind \in {"measure", "heat"}, SendCommand(kind) PROVE ShtIInv'
  BY <1>1 DEF SendCommand
<1>2. CASE SoftReset
  BY <1>2 DEF SoftReset
<1>3. CASE ReceiveMeasured
  BY <1>3 DEF ReceiveMeasured
<1>4. CASE ReceiveHeated
  BY <1>4 DEF ReceiveHeated
<1>5. CASE ReceiveFails
  BY <1>5 DEF ReceiveFails
<1>6. CASE SaveCount
  BY <1>6 DEF SaveCount
<1>7. CASE RestartSht
  BY <1>7 DEF RestartSht
<1>8. CASE UNCHANGED shtVars
  BY <1>8 DEF shtVars
<1>9. QED
  BY <1>1, <1>2, <1>3, <1>4, <1>5, <1>6, <1>7, <1>8 DEF ShtNext

\* For any number of activations, failures and restarts, the heating count accounts for
\* every activation: it is counted once, under way, or lost by a failure that is known
\* (heat_ counts, saves and publishes in three steps).
THEOREM HeatingCountIsExact == ShtSpec => []EveryHeatCounted
<1>1. ShtInit => ShtIInv
  BY ShtInitial
<1>2. ShtIInv /\ [ShtNext]_shtVars => ShtIInv'
  BY ShtStep
<1>3. ShtIInv => EveryHeatCounted
  BY DEF ShtIInv
<1>4. QED
  BY <1>1, <1>2, <1>3, PTL DEF ShtSpec

-----------------------------------------------------------------------------
(* Soil sensor: the sum of the samples *)

Levels == 2^BitWidth

LEMMA LevelsLemma == Levels \in Nat /\ Levels > 0 /\ Level = 0 .. Levels - 1
  BY RelaySensorAssumption DEF Levels, Level

LEMMA AverageLemma ==
  ASSUME NEW sum \in Nat, NEW number \in Nat, number > 0, NEW top \in Nat, sum <= number * top
  PROVE  sum \div number \in 0 .. top
<1>1. PICK q \in Int : q = sum \div number
  OBVIOUS
<1>2. q * number <= sum /\ sum < (q + 1) * number
  BY <1>1
<1>3. q >= 0
  BY <1>2
<1>4. q <= top
  BY <1>2
<1>5. QED
  BY <1>1, <1>3, <1>4

\* While it samples, the sum is that of the samples taken, and all of them would fit.
RelayIInv ==
  /\ SumFits
  /\ samples \in Nat /\ taken \in Nat /\ total \in Nat
  /\ at = "sampling" =>
       samples > 0 /\ samples * Levels <= IntMax /\ taken <= samples
       /\ total <= taken * (Levels - 1)

LEMMA RelayInitial == RelayInit => RelayIInv
  BY RelaySensorAssumption DEF RelayInit, RelayIInv, SumFits

LEMMA SampleStep ==
  ASSUME RelayIInv, NEW level \in Level, Sample(level)
  PROVE  RelayIInv'
<1>1. level \in Nat /\ level <= Levels - 1 /\ Levels \in Nat /\ Levels > 0
  BY LevelsLemma
<1>2. PICK top \in Nat : top = Levels - 1
  BY <1>1
<1>3. /\ at = "sampling" /\ at' = at /\ samples' = samples /\ raw' = raw
      /\ taken' = taken + 1 /\ total' = total + level
      /\ taken \in Nat /\ total \in Nat /\ samples \in Nat /\ taken < samples
      /\ total <= taken * top /\ samples * Levels <= IntMax
  BY <1>2 DEF RelayIInv, Sample
<1>4. total' <= taken' * top
  BY <1>1, <1>2, <1>3
<1>5. taken' * top <= samples * Levels
  <2>1. taken' <= samples /\ top <= Levels
    BY <1>1, <1>2, <1>3
  <2>2. taken' * top <= samples * top
    BY <2>1, <1>3
  <2>3. samples * top <= samples * Levels
    BY <2>1, <1>1, <1>3
  <2>4. QED
    BY <2>2, <2>3, <1>1, <1>3, <2>1
<1>6. total' <= IntMax
  BY <1>1, <1>3, <1>4, <1>5, RelaySensorAssumption
<1>7. raw' \in Level \cup {-1}
  BY <1>3 DEF RelayIInv, SumFits
<1>8. samples' \in Nat /\ taken' \in Nat /\ total' \in Nat
  BY <1>1, <1>3
<1>9. samples' > 0 /\ samples' * Levels <= IntMax /\ taken' <= samples'
  BY <1>1, <1>3
<1>10. QED
  BY <1>2, <1>4, <1>6, <1>7, <1>8, <1>9 DEF RelayIInv, SumFits

LEMMA RelayStep == RelayIInv /\ [RelayNext]_relayVars => RelayIInv'
<1> SUFFICES ASSUME RelayIInv, [RelayNext]_relayVars
             PROVE  RelayIInv'
  OBVIOUS
<1>1. CASE TurnOn
  BY <1>1 DEF TurnOn, RelayIInv, SumFits
<1>2. CASE TurnOnFails
  BY <1>2 DEF TurnOnFails, RelayIInv, SumFits
<1>3. CASE ReadSamples
  <2>1. PICK number \in SampleCount :
          samples' = number /\ at' = (IF Fits(number) THEN "sampling" ELSE "ending")
    BY <1>3 DEF ReadSamples
  <2>2. number \in Nat /\ taken' = 0 /\ total' = 0 /\ raw' = raw
    BY <1>3, RelaySensorAssumption DEF ReadSamples
  <2>3. at' = "sampling" => number > 0 /\ number * Levels <= IntMax
    BY <2>1, <2>2 DEF Fits, Levels
  <2>4. 0 <= 0 * (Levels - 1)
    BY LevelsLemma
  <2>5. QED
    BY <2>1, <2>2, <2>3, <2>4, RelaySensorAssumption DEF RelayIInv, SumFits
<1>4. ASSUME NEW level \in Level, Sample(level) PROVE RelayIInv'
  BY <1>4, SampleStep
<1>5. CASE SampleFails
  BY <1>5 DEF SampleFails, RelayIInv, SumFits
<1>6. CASE Average
  <2>1. PICK top \in Nat : top = Levels - 1
    BY LevelsLemma
  <2>2. samples > 0 /\ total <= samples * top /\ samples \in Nat /\ total \in Nat
    BY <1>6, <2>1 DEF Average, RelayIInv
  <2>3. total \div samples \in 0 .. top
    BY <2>2, AverageLemma
  <2>4. raw' \in Level
    BY <1>6, <2>1, <2>3, LevelsLemma DEF Average
  <2>5. QED
    BY <1>6, <2>4 DEF Average, RelayIInv, SumFits
<1>7. CASE TurnOff
  BY <1>7 DEF TurnOff, RelayIInv, SumFits
<1>8. CASE TurnOffFails
  BY <1>8 DEF TurnOffFails, RelayIInv, SumFits
<1>9. CASE UNCHANGED relayVars
  BY <1>9 DEF relayVars, RelayIInv, SumFits
<1>10. QED
  BY <1>1, <1>2, <1>3, <1>4, <1>5, <1>6, <1>7, <1>8, <1>9 DEF RelayNext

\* For any bit width, any counts that are configured and any largest int, the sum of the
\* samples fits an int at every step, and the reading is one the ADC can make: the check
\* of AnalogSampleReader::read before the loop is enough.
THEOREM SumNeverOverflows == RelaySpec => []SumFits
<1>1. RelayInit => RelayIInv
  BY RelayInitial
<1>2. RelayIInv /\ [RelayNext]_relayVars => RelayIInv'
  BY RelayStep
<1>3. RelayIInv => SumFits
  BY DEF RelayIInv
<1>4. QED
  BY <1>1, <1>2, <1>3, PTL DEF RelaySpec

-----------------------------------------------------------------------------
(* Analog configuration: what the next start finds *)

\* A configuration is one number per key.
AnalogIInv ==
  /\ stored \in [Key -> Nat \cup {NoData}] /\ config \in [Key -> Nat]
  /\ update.want \in Config /\ update.left \in Seq(Key)
  /\ AnalogConfigKept

LEMMA ConfigLemma ==
  ASSUME NEW c \in Config
  PROVE  c \in [Key -> Nat]
<1>1. c.min \in Nat /\ c.max \in Nat /\ c.count \in Nat
  BY AnalogConfigAssumption DEF Config
<1>2. \A k \in Key : c[k] \in Nat
  BY <1>1 DEF Key
<1>3. c = [k \in Key |-> c[k]]
  BY DEF Config, Key
<1>4. QED
  BY <1>2, <1>3

LEMMA BuiltinLemma == Builtin \in Config /\ Builtin \in [Key -> Nat]
  BY AnalogConfigAssumption, ConfigLemma

LEMMA NoDataLemma == NoData \notin Nat
  BY DEF NoData

LEMMA KeyLemma ==
  ASSUME AnalogIInv, ~Idling
  PROVE  /\ key \in Key /\ rest \in Seq(Key)
         /\ update.want[key] \in Nat
<1>1. update.left # <<>> /\ update.left \in Seq(Key)
  BY DEF AnalogIInv, Idling
<1>2. Len(update.left) \in Nat /\ Len(update.left) > 0
  BY <1>1
<1>3. key \in Key
  BY <1>1, <1>2 DEF key
<1>4. rest \in Seq(Key)
  BY <1>1, <1>2 DEF rest
<1>5. QED
  BY <1>3, <1>4, ConfigLemma DEF AnalogIInv

LEMMA AnswerLemma ==
  ASSUME NEW answered, Answer(answered)
  PROVE  update'.want \in Config /\ update'.left \in Seq(Key)
  BY BuiltinLemma DEF Answer, Idle

LEMMA AdvanceLemma ==
  ASSUME AnalogIInv, ~Idling, Advance
  PROVE  update'.want \in Config /\ update'.left \in Seq(Key)
<1>1. CASE rest = <<>>
  BY <1>1, AnswerLemma DEF Advance
<1>2. CASE rest # <<>>
  <2>1. update' = [update EXCEPT !.left = rest]
    BY <1>2 DEF Advance
  <2>2. QED
    BY <2>1, KeyLemma DEF AnalogIInv
<1>3. QED
  BY <1>1, <1>2

LEMMA AnalogInitial == AnalogInit => AnalogIInv
<1> SUFFICES ASSUME AnalogInit PROVE AnalogIInv
  OBVIOUS
<1>1. update.want \in Config /\ update.left \in Seq(Key)
  BY BuiltinLemma DEF AnalogInit, Idle
<1>2. stored \in [Key -> Nat \cup {NoData}] /\ config \in [Key -> Nat]
  BY BuiltinLemma DEF AnalogInit
<1>3. \A k \in Key : config[k] = Restored[k]
  BY DEF AnalogInit, Restored
<1>4. QED
  BY <1>1, <1>2, <1>3 DEF AnalogIInv, AnalogConfigKept

LEMMA AnalogStep == AnalogIInv /\ [AnalogNext]_analogVars => AnalogIInv'
<1> SUFFICES ASSUME AnalogIInv, [AnalogNext]_analogVars
             PROVE  AnalogIInv'
  OBVIOUS
<1>1. ASSUME NEW new \in Config, Configure(new) PROVE AnalogIInv'
  <2>1. update'.want \in Config /\ update'.left \in Seq(Key)
    <3>1. CASE new.min >= new.max
      BY <1>1, <3>1, AnswerLemma DEF Configure
    <3>2. CASE ~(new.min >= new.max)
      <4>1. update' = [want |-> new, left |-> <<"min", "max", "count">>]
        BY <1>1, <3>2 DEF Configure
      <4>2. <<"min", "max", "count">> \in Seq(Key)
        BY DEF Key
      <4>3. QED
        BY <4>1, <4>2
    <3>3. QED
      BY <3>1, <3>2
  <2>2. UNCHANGED <<stored, config, diverged>>
    BY <1>1 DEF Configure
  <2>3. QED
    BY <2>1, <2>2 DEF AnalogIInv, AnalogConfigKept, Restored
<1>2. CASE Unmodified
  <2>1. update'.want \in Config /\ update'.left \in Seq(Key)
    BY <1>2, AdvanceLemma DEF Unmodified
  <2>2. UNCHANGED <<stored, config, diverged>>
    BY <1>2 DEF Unmodified
  <2>3. QED
    BY <2>1, <2>2 DEF AnalogIInv, AnalogConfigKept, Restored
<1>3. CASE WriteKey
  <2>1. update'.want \in Config /\ update'.left \in Seq(Key)
    BY <1>3, AdvanceLemma DEF WriteKey
  <2>2. PICK k \in Key, new \in Nat : k = key /\ new = update.want[key]
    BY <1>3, KeyLemma DEF WriteKey
  <2>3. /\ stored' = [stored EXCEPT ![k] = new] /\ config' = [config EXCEPT ![k] = new]
        /\ diverged' = diverged \ {k}
    BY <1>3, <2>2 DEF WriteKey
  <2>4. stored' \in [Key -> Nat \cup {NoData}] /\ config' \in [Key -> Nat]
    BY <2>2, <2>3 DEF AnalogIInv
  <2>5. ASSUME NEW l \in Key \ diverged' PROVE config'[l] = Restored'[l]
    <3>1. CASE l = k
      BY <2>2, <2>3, <3>1, NoDataLemma DEF AnalogIInv, Restored
    <3>2. CASE l # k
      BY <2>2, <2>3, <3>2 DEF AnalogIInv, AnalogConfigKept, Restored
    <3>3. QED
      BY <3>1, <3>2
  <2>6. QED
    BY <2>1, <2>4, <2>5 DEF AnalogIInv, AnalogConfigKept
<1>4. CASE WriteFails
  <2>1. update'.want \in Config /\ update'.left \in Seq(Key)
    BY <1>4, AnswerLemma DEF WriteFails
  <2>2. PICK k \in Key, new \in Nat : k = key /\ new = update.want[key]
    BY <1>4, KeyLemma DEF WriteFails
  <2>3. /\ config' = config
        /\ \/ UNCHANGED <<stored, diverged>>
           \/ stored' = [stored EXCEPT ![k] = new] /\ diverged' = diverged \cup {k}
    BY <1>4, <2>2 DEF WriteFails
  <2>4. stored' \in [Key -> Nat \cup {NoData}] /\ config' \in [Key -> Nat]
    BY <2>2, <2>3 DEF AnalogIInv
  <2>5. ASSUME NEW l \in Key \ diverged' PROVE config'[l] = Restored'[l]
    BY <2>2, <2>3 DEF AnalogIInv, AnalogConfigKept, Restored
  <2>6. QED
    BY <2>1, <2>4, <2>5 DEF AnalogIInv, AnalogConfigKept
<1>5. CASE ResetAnalog
  <2>1. update'.want \in Config /\ update'.left \in Seq(Key)
    BY <1>5, AnswerLemma DEF ResetAnalog
  <2>2. config' = Builtin /\ config' \in [Key -> Nat]
    BY <1>5, BuiltinLemma DEF ResetAnalog
  <2>3. \/ stored' = [k \in Key |-> NoData] /\ diverged' = {}
        \/ /\ stored' \in {stored, [k \in Key |-> NoData]}
           /\ diverged' = diverged \cup {k \in Key : stored'[k] # NoData}
    BY <1>5 DEF ResetAnalog
  <2>4. stored' \in [Key -> Nat \cup {NoData}]
    BY <2>3 DEF AnalogIInv
  <2>5. ASSUME NEW l \in Key \ diverged' PROVE config'[l] = Restored'[l]
    BY <2>2, <2>3 DEF Restored
  <2>6. QED
    BY <2>1, <2>2, <2>4, <2>5 DEF AnalogIInv, AnalogConfigKept
<1>6. CASE RestartAnalog
  <2>1. PICK unread \in SUBSET {k \in Key : stored[k] # NoData} :
          /\ config' = [k \in Key |-> IF k \in unread THEN Builtin[k] ELSE Restored[k]]
          /\ diverged' = unread
    BY <1>6 DEF RestartAnalog
  <2>2. update' = Idle /\ stored' = stored
    BY <1>6 DEF RestartAnalog, Answer
  <2>3. update'.want \in Config /\ update'.left \in Seq(Key)
    BY <2>2, BuiltinLemma DEF Idle
  <2>4. \A k \in Key : Restored[k] \in Nat /\ Builtin[k] \in Nat
    BY BuiltinLemma DEF AnalogIInv, Restored
  <2>5. config' \in [Key -> Nat]
    BY <2>1, <2>4
  <2>6. ASSUME NEW l \in Key \ diverged' PROVE config'[l] = Restored'[l]
    BY <2>1, <2>2 DEF Restored
  <2>7. QED
    BY <2>2, <2>3, <2>5, <2>6 DEF AnalogIInv, AnalogConfigKept
<1>7. CASE UNCHANGED analogVars
  BY <1>7 DEF analogVars, AnalogIInv, AnalogConfigKept, Restored
<1>8. QED
  BY <1>1, <1>2, <1>3, <1>4, <1>5, <1>6, <1>7 DEF AnalogNext

\* For any values, counts and defaults, the configuration in use is the one the next start
\* finds, except in the keys a flash operation failed for (configure writes key by key
\* and assigns after the write).
THEOREM AnalogConfigSurvives == AnalogSpec => []AnalogConfigKept
<1>1. AnalogInit => AnalogIInv
  BY AnalogInitial
<1>2. AnalogIInv /\ [AnalogNext]_analogVars => AnalogIInv'
  BY AnalogStep
<1>3. AnalogIInv => AnalogConfigKept
  BY DEF AnalogIInv
<1>4. QED
  BY <1>1, <1>2, <1>3, PTL DEF AnalogSpec

-----------------------------------------------------------------------------
(* DS18B20: flash, object and answer *)

DsBase == /\ flash \in [Sensor -> Configuration \cup {None}]
          /\ assigned \in [Sensor -> Configuration \cup {None}]
          /\ op \in Operation \cup {None}
          /\ (phase = "none") <=> (op = None)

\* Between the flash and the object, a write has what was asked for in flash.
StoredIsWanted == phase = "stored" => op.kind = "write" /\ flash[target] = wanted

DsIInv == DsBase /\ StoredIsWanted /\ ConfiguredIsStored /\ AnsweredIsDone

LEMMA OperationLemma ==
  ASSUME DsBase, phase # "none"
  PROVE  /\ op \in Operation /\ op # None
         /\ target \in Sensor /\ wanted \in Configuration /\ wanted # None
<1>1. op \in Operation /\ op # None
  BY DEF DsBase
<1>2. target \in Sensor /\ wanted \in Configuration
  BY <1>1 DEF Operation, target, wanted
<1>3. QED
  BY <1>1, <1>2, Ds18b20Assumption

LEMMA NoneLemma == None \notin Operation /\ None \notin Configuration
  BY Ds18b20Assumption

LEMMA DsInitial == DsInit => DsIInv
  BY DEF DsInit, DsIInv, DsBase, StoredIsWanted, ConfiguredIsStored, AnsweredIsDone

\* A step that leaves flash, objects and history alone, and goes to a phase in which
\* nothing is claimed of them.
LEMMA ElsewhereStep ==
  ASSUME DsIInv, UNCHANGED <<flash, assigned, torn>>, DsBase', phase # "stored",
         phase' \notin {"stored", "answer"}, phase # "undefined"
  PROVE  DsIInv'
<1>1. ASSUME NEW t \in Sensor, assigned'[t] # None, phase' # "undefined"
      PROVE  assigned'[t] = flash'[t] \/ t \in torn'
  BY <1>1 DEF DsIInv, ConfiguredIsStored, At
<1>2. ConfiguredIsStored'
  BY <1>1 DEF ConfiguredIsStored
<1>3. QED
  BY <1>2 DEF DsIInv, StoredIsWanted, AnsweredIsDone

LEMMA ScanStep == DsIInv /\ Scan => DsIInv'
<1> SUFFICES ASSUME DsIInv, Scan PROVE DsIInv'
  OBVIOUS
<1>1. /\ phase = "queued" /\ op.kind \in {"scan", "read"} /\ phase' = "answer"
      /\ UNCHANGED <<flash, assigned, torn, op>>
  BY DEF Scan, At, memVars
<1>2. DsBase'
  BY <1>1 DEF DsIInv, DsBase
<1>3. ConfiguredIsStored'
  BY <1>1 DEF DsIInv, ConfiguredIsStored, At
<1>4. QED
  BY <1>1, <1>2, <1>3 DEF DsIInv, StoredIsWanted, AnsweredIsDone

LEMMA EraseStep == DsIInv /\ Erase => DsIInv'
<1> SUFFICES ASSUME DsIInv, Erase PROVE DsIInv'
  OBVIOUS
<1>1. PICK g \in Sensor : g = target
  BY OperationLemma DEF DsIInv, Erase, At
<1>2. /\ phase = "queued" /\ op.kind = "erase" /\ phase' = "answer"
      /\ flash' = [flash EXCEPT ![g] = None]
      /\ assigned' = (IF flash[g] = None THEN assigned ELSE [assigned EXCEPT ![g] = None])
      /\ UNCHANGED <<torn, op>>
  BY <1>1 DEF Erase, At
<1>3. DsBase'
  BY <1>1, <1>2 DEF DsIInv, DsBase
<1>4. g \in torn \/ assigned'[g] = None
  BY <1>1, <1>2 DEF DsIInv, DsBase, ConfiguredIsStored, At
<1>5. flash'[g] = None
  BY <1>2 DEF DsIInv, DsBase
<1>6. ASSUME NEW t \in Sensor, assigned'[t] # None
      PROVE  assigned'[t] = flash'[t] \/ t \in torn'
  <2>1. CASE t = g
    BY <1>2, <1>4, <1>6, <2>1
  <2>2. CASE t # g
    BY <1>1, <1>2, <1>6, <2>2 DEF DsIInv, DsBase, ConfiguredIsStored, At
  <2>3. QED
    BY <2>1, <2>2
<1>7. ConfiguredIsStored'
  BY <1>6 DEF ConfiguredIsStored
<1>8. target' = g
  BY <1>1, <1>2 DEF target
<1>9. AnsweredIsDone'
  BY <1>2, <1>4, <1>5, <1>8 DEF AnsweredIsDone
<1>10. QED
  BY <1>2, <1>3, <1>7, <1>9 DEF DsIInv, StoredIsWanted

\* A flash operation that fails and takes effect makes its sensor an exception.
LEMMA TornStep == DsIInv /\ (EraseTorn \/ PersistTorn) => DsIInv'
<1> SUFFICES ASSUME DsIInv, EraseTorn \/ PersistTorn PROVE DsIInv'
  OBVIOUS
<1>1. PICK g \in Sensor : g = target /\ phase \in {"queued", "verified"}
  BY OperationLemma DEF DsIInv, EraseTorn, PersistTorn, At
<1>2. PICK c \in Configuration \cup {None} : flash' = [flash EXCEPT ![g] = c]
  BY <1>1, OperationLemma DEF DsIInv, EraseTorn, PersistTorn
<1>3. /\ torn' = torn \cup {g} /\ op' = None /\ phase' = "none" /\ assigned' = assigned
  BY <1>1 DEF EraseTorn, PersistTorn, Fail, memVars
<1>4. DsBase'
  BY <1>2, <1>3 DEF DsIInv, DsBase
<1>5. ASSUME NEW t \in Sensor, assigned'[t] # None
      PROVE  assigned'[t] = flash'[t] \/ t \in torn'
  BY <1>1, <1>2, <1>3, <1>5 DEF DsIInv, DsBase, ConfiguredIsStored, At
<1>6. QED
  BY <1>3, <1>4, <1>5 DEF DsIInv, StoredIsWanted, ConfiguredIsStored, AnsweredIsDone

LEMMA PersistStep == DsIInv /\ Persist => DsIInv'
<1> SUFFICES ASSUME DsIInv, Persist PROVE DsIInv'
  OBVIOUS
<1>1. PICK g \in Sensor, c \in Configuration : g = target /\ c = wanted
  BY OperationLemma DEF DsIInv, Persist, At
<1>2. /\ phase = "verified" /\ op.kind = "write" /\ phase' = "stored"
      /\ flash' = [flash EXCEPT ![g] = c] /\ UNCHANGED <<assigned, torn, op>>
  BY <1>1 DEF Persist, At, memVars
<1>3. DsBase'
  BY <1>1, <1>2 DEF DsIInv, DsBase
<1>4. target' = g /\ wanted' = c /\ At("write", "stored")'
  BY <1>1, <1>2 DEF target, wanted, At
<1>5. flash'[g] = c
  BY <1>2 DEF DsIInv, DsBase
<1>6. ASSUME NEW t \in Sensor, assigned'[t] # None
      PROVE  assigned'[t] = flash'[t] \/ t \in torn' \/ t = g
  BY <1>1, <1>2, <1>6 DEF DsIInv, DsBase, ConfiguredIsStored, At
<1>7. QED
  BY <1>2, <1>3, <1>4, <1>5, <1>6
  DEF DsIInv, StoredIsWanted, ConfiguredIsStored, AnsweredIsDone

LEMMA AssignStep == DsIInv /\ Assign => DsIInv'
<1> SUFFICES ASSUME DsIInv, Assign PROVE DsIInv'
  OBVIOUS
<1>1. PICK g \in Sensor, c \in Configuration : g = target /\ c = wanted
  BY OperationLemma DEF DsIInv, Assign, At
<1>2. /\ phase = "stored" /\ op.kind = "write" /\ phase' = "answer"
      /\ assigned' = [assigned EXCEPT ![g] = c] /\ UNCHANGED <<flash, torn, op>>
  BY <1>1 DEF Assign, At
<1>3. DsBase'
  BY <1>1, <1>2 DEF DsIInv, DsBase
<1>4. target' = g /\ wanted' = c
  BY <1>1, <1>2 DEF target, wanted
<1>5. flash'[g] = c /\ assigned'[g] = c
  BY <1>1, <1>2 DEF DsIInv, DsBase, StoredIsWanted
<1>6. ASSUME NEW t \in Sensor, assigned'[t] # None
      PROVE  assigned'[t] = flash'[t] \/ t \in torn'
  BY <1>1, <1>2, <1>5, <1>6 DEF DsIInv, DsBase, ConfiguredIsStored, At
<1>7. ConfiguredIsStored'
  BY <1>6 DEF ConfiguredIsStored
<1>8. AnsweredIsDone'
  BY <1>2, <1>4, <1>5 DEF AnsweredIsDone
<1>9. QED
  BY <1>2, <1>3, <1>7, <1>8 DEF DsIInv, StoredIsWanted

LEMMA RestartStep == DsIInv /\ Restart => DsIInv'
<1> SUFFICES ASSUME DsIInv, Restart PROVE DsIInv'
  OBVIOUS
<1>1. PICK restored \in SUBSET Sensor :
        assigned' = [t \in Sensor |-> IF t \in restored THEN flash[t] ELSE None]
  BY DEF Restart
<1>2. op' = None /\ phase' = "none" /\ flash' = flash
  BY DEF Restart
<1>3. DsBase'
  BY <1>1, <1>2 DEF DsIInv, DsBase
<1>4. QED
  BY <1>1, <1>2, <1>3 DEF DsIInv, StoredIsWanted, ConfiguredIsStored, AnsweredIsDone

LEMMA DsStep == DsIInv /\ [DsNext]_dsVars => DsIInv'
<1> SUFFICES ASSUME DsIInv, [DsNext]_dsVars PROVE DsIInv'
  OBVIOUS
<1> USE NoneLemma
<1>1. ASSUME NEW o \in Operation, Ask(o) PROVE DsIInv'
  <2>1. /\ phase = "none" /\ op' = o /\ phase' = "queued"
        /\ UNCHANGED <<flash, assigned, torn>>
    BY <1>1 DEF Ask, memVars
  <2>2. QED
    BY <2>1, ElsewhereStep DEF DsIInv, DsBase
<1>2. CASE TimeOut
  <2>1. /\ phase # "none" /\ op' = op /\ phase' = "undefined"
        /\ UNCHANGED <<flash, assigned, torn>>
    BY <1>2 DEF TimeOut, memVars
  <2>2. DsBase'
    BY <2>1 DEF DsIInv, DsBase
  <2>3. QED
    BY <2>1, <2>2 DEF DsIInv, StoredIsWanted, ConfiguredIsStored, AnsweredIsDone
<1>3. CASE Respond
  <2>1. /\ phase = "answer" /\ op' = None /\ phase' = "none"
        /\ UNCHANGED <<flash, assigned, torn>>
    BY <1>3 DEF Respond, memVars
  <2>2. QED
    BY <2>1, ElsewhereStep DEF DsIInv, DsBase
<1>4. CASE Refused
  <2>1. /\ phase \in {"queued", "found", "written", "verified"} /\ op' = None /\ phase' = "none"
        /\ UNCHANGED <<flash, assigned, torn>>
    BY <1>4 DEF Refused, Fail, memVars
  <2>2. QED
    BY <2>1, ElsewhereStep DEF DsIInv, DsBase
<1>5. ASSUME \/ Find \/ WriteScratchpad \/ Verify PROVE DsIInv'
  <2>1. /\ phase \in {"queued", "found", "written"} /\ op' = op
        /\ phase' \in {"found", "written", "verified"}
        /\ UNCHANGED <<flash, assigned, torn>>
    BY <1>5 DEF Find, WriteScratchpad, Verify, At, memVars
  <2>2. QED
    BY <2>1, ElsewhereStep DEF DsIInv, DsBase
<1>6. ASSUME \/ \E t \in Sensor : Measure(t)
             \/ \E d \in Device : Plug(d)
             \/ UNCHANGED dsVars
      PROVE DsIInv'
  <2>1. UNCHANGED <<flash, assigned, op, phase, torn>>
    BY <1>6 DEF Measure, Plug, dsVars, memVars
  <2>2. DsBase' /\ StoredIsWanted'
    BY <2>1 DEF DsIInv, DsBase, StoredIsWanted, target, wanted
  <2>3. ConfiguredIsStored' /\ AnsweredIsDone'
    BY <2>1 DEF DsIInv, ConfiguredIsStored, AnsweredIsDone, At, target, wanted
  <2>4. QED
    BY <2>2, <2>3 DEF DsIInv
<1>7. QED
  BY <1>1, <1>2, <1>3, <1>4, <1>5, <1>6, ScanStep, EraseStep, TornStep, PersistStep,
     AssignStep, RestartStep
  DEF DsNext, Function

\* For any sensors, devices and resolutions, a sensor that is configured has its
\* configuration in flash, and a request that was answered with OK has been carried out,
\* whatever is unplugged, refused or cut off (store.cpp and the handler).
THEOREM ConfigurationSurvives == DsSpec => []ConfigurationKept
<1>1. DsInit => DsIInv
  BY DsInitial
<1>2. DsIInv /\ [DsNext]_dsVars => DsIInv'
  BY DsStep
<1>3. DsIInv => ConfigurationKept
  BY DEF DsIInv, ConfigurationKept
<1>4. QED
  BY <1>1, <1>2, <1>3, PTL DEF DsSpec
-----------------------------------------------------------------------------
(* Analog sensors: status and moisture of one reading *)

LEMMA RangeLemma ==
  ASSUME SoilTypeOK, NEW r \in Raw
  PROVE  /\ range.min \in Nat /\ range.max \in Nat /\ r \in Nat
         /\ Width \in Int /\ Width = range.max - range.min
         /\ Offset(r) \in Int /\ Offset(r) = r - range.min
         /\ Valid => Width > 0
         /\ ~Invalid(r) => 0 <= Offset(r) /\ Offset(r) <= Width
<1>1. range.min \in Nat /\ range.max \in Nat /\ r \in Nat
  BY AnalogSensorsAssumption DEF SoilTypeOK
<1> QED BY <1>1 DEF Width, Offset, Valid, Invalid

LEMMA PercentLemma ==
  ASSUME NEW width \in Nat, width > 0, NEW part \in 0 .. width
  PROVE  (100 * part) \div width \in 0 .. 100
<1>1. PICK percent \in Int : percent = (100 * part) \div width
  OBVIOUS
<1>2. percent * width <= 100 * part /\ 100 * part < (percent + 1) * width
  BY <1>1
<1>3. percent >= 0
  BY <1>2
<1>4. percent <= 100
  BY <1>2
<1> QED BY <1>1, <1>3, <1>4

LEMMA MoistureLemma ==
  ASSUME SoilTypeOK, Valid, NEW r \in Raw
  PROVE  Moisture(r) \in 0 .. 100
<1>1. CASE Invalid(r)
  BY <1>1 DEF Moisture
<1>2. CASE ~Invalid(r)
  <2>1. Width \in Nat /\ Width > 0 /\ Width - Offset(r) \in 0 .. Width
    BY <1>2, RangeLemma
  <2> QED BY <1>2, <2>1, PercentLemma DEF Moisture
<1> QED BY <1>1, <1>2

\* A quarter of the range is a quarter of the percentages.
LEMMA QuarterLemma ==
  ASSUME NEW length \in Nat, length > 0, NEW offset \in Nat, offset < 4 * length,
         NEW width \in Nat, width = 4 * length
  PROVE  /\ offset \div length \in 0 .. 3
         /\ (100 * (width - offset)) \div width
              \in 75 - 25 * (offset \div length) .. 100 - 25 * (offset \div length)
<1>1. PICK quarter \in Int : quarter = offset \div length
  OBVIOUS
<1>2. quarter * length <= offset /\ offset < (quarter + 1) * length
  BY <1>1
<1>3. quarter >= 0
  BY <1>2
<1>4. quarter <= 3
  BY <1>2
<1>5. quarter \in {0, 1, 2, 3}
  BY <1>3, <1>4
<1>6. PICK percent \in Int : percent = (100 * (width - offset)) \div width
  OBVIOUS
<1>7. /\ percent * width <= 100 * (width - offset)
      /\ 100 * (width - offset) < (percent + 1) * width
  BY <1>6
<1>8. ASSUME NEW low \in Int, offset < (4 - low) * length, low \in {0, 1, 2, 3}
      PROVE  25 * low <= percent
  <2>1. 100 * (width - offset) > 25 * low * width
    BY <1>8
  <2>2. (percent + 1) * width > (25 * low) * width
    BY <1>7, <2>1
  <2> QED BY <2>2
<1>9. ASSUME NEW high \in Int, offset >= (4 - high) * length, high \in {1, 2, 3, 4}
      PROVE  percent <= 25 * high
  <2>1. 100 * (width - offset) <= 25 * high * width
    BY <1>9
  <2>2. percent * width <= (25 * high) * width
    BY <1>7, <2>1
  <2> QED BY <2>2
<1>10. 75 - 25 * quarter <= percent
  BY <1>2, <1>5, <1>8
<1>11. percent <= 100 - 25 * quarter
  BY <1>2, <1>5, <1>9
<1> QED BY <1>1, <1>5, <1>6, <1>10, <1>11

LEMMA StatusLemma ==
  ASSUME SoilTypeOK, Valid, NEW r \in Raw
  PROVE  Status(r) \subseteq Unknown .. Unnamed
<1>1. CASE Invalid(r)
  BY <1>1 DEF Status, Unknown, Unnamed, Broken
<1>2. CASE ~Invalid(r) /\ (StatusLen = 0 \/ Offset(r) \div StatusLen >= StatusCount)
  BY <1>2 DEF Status
<1>3. CASE ~Invalid(r) /\ ~(StatusLen = 0 \/ Offset(r) \div StatusLen >= StatusCount)
  <2>1. StatusLen \in Nat /\ StatusLen > 0 /\ Offset(r) \in Nat
    BY <1>3, RangeLemma DEF StatusLen, StatusCount
  <2>2. Offset(r) \div StatusLen \in Nat /\ Offset(r) \div StatusLen < 4
    BY <1>3, <2>1 DEF StatusCount
  <2> QED BY <1>3, <2>2 DEF Status, Unknown, Unnamed
<1> QED BY <1>1, <1>2, <1>3

LEMMA SoilRunTypes ==
  ASSUME SoilTypeOK, NEW r \in Raw, SoilRun(r)
  PROVE  SoilTypeOK'
<1>1. PICK next \in Status(r) :
        /\ soil' = IF Held(r, next) THEN HeldReading(r, next) ELSE FreeReading(r, next)
        /\ status' = soil'.status
  BY DEF SoilRun
<1>2. Valid /\ UNCHANGED <<range, light>> /\ kept' \in {kept, status'}
  BY DEF SoilRun
<1>3. next \in 0 .. 6 /\ status \in 0 .. 6
  BY <1>2, StatusLemma DEF SoilTypeOK, Unknown, Unnamed
<1>4. PICK held \in -50 .. 100 : held = IF status = Broken THEN 0 ELSE 100 - 25 * status
  BY <1>3
<1>5. HeldReading(r, next) \in Reading
  BY <1>3, <1>4 DEF HeldReading, Reading, Unknown, Unnamed
<1>6. PICK moisture \in -50 .. 100 : moisture = Moisture(r)
  BY <1>2, MoistureLemma
<1>7. PICK free \in 0 .. 6 : free = IF next = Unknown THEN status ELSE next
  BY <1>3
<1>8. FreeReading(r, next) \in Reading
  BY <1>6, <1>7 DEF FreeReading, Reading, Unknown, Unnamed
<1>9. soil' \in Reading
  BY <1>1, <1>5, <1>8
<1>10. status' \in Unknown .. Unnamed
  BY <1>1, <1>9 DEF Reading
<1> QED BY <1>2, <1>9, <1>10 DEF SoilTypeOK

LEMMA LightRunTypes ==
  ASSUME SoilTypeOK, NEW r \in Raw, LightRun(r)
  PROVE  SoilTypeOK'
<1>1. light' \in 0 .. 100
  <2>1. CASE r >= range.max
    BY <2>1 DEF LightRun
  <2>2. CASE r <= range.min
    BY <2>2, RangeLemma DEF LightRun, Valid
  <2>3. CASE range.min < r /\ r < range.max
    <3>1. Width \in Nat /\ Width > 0 /\ Offset(r) \in 0 .. Width
      BY <2>3, RangeLemma
    <3>2. light' = (100 * Offset(r)) \div Width
      BY <2>3, RangeLemma DEF LightRun
    <3> QED BY <3>1, <3>2, PercentLemma
  <2> QED BY <2>1, <2>2, <2>3, RangeLemma
<1> QED BY <1>1 DEF LightRun, SoilTypeOK

LEMMA SoilInitial == SoilInit => SoilTypeOK
  BY DEF SoilInit, SoilTypeOK, Unknown, Unnamed

LEMMA SoilStep == SoilTypeOK /\ [SoilNext]_soilVars => SoilTypeOK'
<1> SUFFICES ASSUME SoilTypeOK, [SoilNext]_soilVars PROVE SoilTypeOK'
  OBVIOUS
<1>1. ASSUME NEW r \in Raw, SoilRun(r) PROVE SoilTypeOK'
  BY <1>1, SoilRunTypes
<1>2. ASSUME NEW r \in Raw, LightRun(r) PROVE SoilTypeOK'
  BY <1>2, LightRunTypes
<1>3. CASE SaveStatus
  BY <1>3 DEF SaveStatus, SoilTypeOK
<1>4. CASE RestartSoil
  BY <1>4 DEF RestartSoil, SoilTypeOK
<1>5. CASE Reconfigure
  BY <1>5 DEF Reconfigure, SoilTypeOK
<1>6. CASE UNCHANGED soilVars
  BY <1>6 DEF soilVars, SoilTypeOK
<1> QED BY <1>1, <1>2, <1>3, <1>4, <1>5, <1>6 DEF SoilNext

\* For any readings and limits, what the analog sensors publish stays within its range:
\* the moisture of a status held at the end of what its bytes can be, the light within a
\* hundred.
THEOREM SoilTypeCorrect == SoilSpec => []SoilTypeOK
<1> QED BY SoilInitial, SoilStep, PTL DEF SoilSpec

LEMMA QuarterOfReading ==
  ASSUME SoilTypeOK, NEW r \in Raw, SoilRun(r), soil'.status \in 1 .. StatusCount,
         Width % StatusCount = 0, soil'.raw # range.max
  PROVE  soil'.moisture \in 100 - 25 * soil'.status .. 125 - 25 * soil'.status
<1>1. PICK next \in Status(r) :
        soil' = IF Held(r, next) THEN HeldReading(r, next) ELSE FreeReading(r, next)
  BY DEF SoilRun
<1>2. Valid /\ status \in 0 .. 6 /\ next \in 0 .. 6
  BY StatusLemma DEF SoilRun, SoilTypeOK, Unknown, Unnamed
<1>3. CASE Held(r, next)
  <2>1. /\ soil'.status = status
        /\ soil'.moisture = IF status = Broken THEN 0 ELSE 100 - 25 * status
    BY <1>1, <1>3 DEF HeldReading
  <2> QED BY <1>2, <2>1 DEF StatusCount, Broken
<1>4. CASE ~Held(r, next)
  <2>1. /\ soil'.raw = r /\ soil'.moisture = Moisture(r)
        /\ soil'.status = IF next = Unknown THEN status ELSE next
    BY <1>1, <1>4 DEF FreeReading
  <2>2. CASE Invalid(r)
    BY <1>2, <2>1, <2>2 DEF Status, StatusCount, Unknown, Broken
  <2>3. CASE ~Invalid(r)
    <3>1. /\ Width \in Nat /\ Width > 0 /\ Offset(r) \in Nat /\ Offset(r) < Width
      BY <1>2, <2>1, <2>3, RangeLemma
    <3>2. PICK length \in Nat : length = StatusLen
      BY <3>1 DEF StatusLen, StatusCount
    <3>3. length > 0 /\ Width = 4 * length /\ Offset(r) < 4 * length
      BY <3>1, <3>2 DEF StatusLen, StatusCount
    <3>4. /\ Offset(r) \div length \in 0 .. 3
          /\ (100 * (Width - Offset(r))) \div Width
               \in 75 - 25 * (Offset(r) \div length) .. 100 - 25 * (Offset(r) \div length)
      BY <3>1, <3>3, QuarterLemma
    <3>5. next = 1 + Offset(r) \div length
      <4>1. ~(StatusLen = 0 \/ Offset(r) \div StatusLen >= 4)
        BY <3>2, <3>3, <3>4
      <4> QED BY <2>3, <3>2, <4>1 DEF Status, StatusCount
    <3>6. Moisture(r) = (100 * (Width - Offset(r))) \div Width
      BY <2>3 DEF Moisture
    <3>7. PICK quarter \in 0 .. 3 : quarter = Offset(r) \div length
      BY <3>4
    <3> QED BY <2>1, <3>4, <3>5, <3>6, <3>7 DEF Unknown
  <2> QED BY <2>2, <2>3
<1> QED BY <1>3, <1>4

\* For any readings, limits and threshold, the published moisture lies in the quarter of
\* the published status, whether the status follows the reading or is held against it
\* (calculate_status_, calculate_moisture_ and override_status_progress_ divide the range
\* on their own).
THEOREM StatusAndMoistureAgree == SoilSpec => MoistureOfStatus
<1>1. SoilTypeOK /\ [SoilNext]_soilVars =>
        [soil' # soil /\ soil'.status \in 1 .. StatusCount
         /\ Width % StatusCount = 0 /\ soil'.raw # range.max =>
           soil'.moisture \in 100 - 25 * soil'.status .. 125 - 25 * soil'.status]_soilVars
  <2> SUFFICES ASSUME SoilTypeOK, SoilNext, soil' # soil, soil'.status \in 1 .. StatusCount,
                      Width % StatusCount = 0, soil'.raw # range.max
               PROVE  soil'.moisture \in 100 - 25 * soil'.status .. 125 - 25 * soil'.status
    OBVIOUS
  <2>1. ASSUME RestartSoil PROVE FALSE
    <3>1. soil'.status = 0
      BY <2>1 DEF RestartSoil, NoReading, Unknown
    <3> QED BY <3>1 DEF StatusCount
  <2>2. PICK r \in Raw : SoilRun(r)
    BY <2>1 DEF SoilNext, LightRun, SaveStatus, Reconfigure
  <2> QED BY <2>2, QuarterOfReading
<1> QED BY <1>1, SoilTypeCorrect, PTL DEF SoilSpec, MoistureOfStatus

\* A valid reading lies before the end of the fourth quarter of its range.
QuartersCover ==
  \A min, max \in Limit, r \in Raw :
    min <= r /\ r <= max /\ min < max => r - min < StatusCount * ((max - min) \div StatusCount)

SoilIInv == /\ SoilTypeOK
            /\ {status, kept} \subseteq Unknown .. Broken
            /\ StatusIsKnown

LEMMA NextStatus ==
  ASSUME QuartersCover, SoilTypeOK, Valid, NEW r \in Raw
  PROVE  Status(r) \subseteq 1 .. Broken
<1>1. CASE Invalid(r)
  BY <1>1 DEF Status, Broken
<1>2. CASE ~Invalid(r)
  <2>1. /\ range.min \in Limit /\ range.max \in Limit /\ range.min < range.max
        /\ range.min <= r /\ r <= range.max
    BY <1>2, RangeLemma DEF SoilTypeOK, Valid, Invalid
  <2>2. PICK length \in Int : length = StatusLen
    BY RangeLemma DEF StatusLen, StatusCount
  <2>3. PICK offset \in Nat : offset = Offset(r)
    BY <1>2, RangeLemma
  <2>4. offset < 4 * length
    BY <2>1, <2>2, <2>3, RangeLemma DEF QuartersCover, StatusLen, StatusCount
  <2>5. length > 0
    BY <2>4
  <2>6. PICK quarter \in Int : quarter = offset \div length
    BY <2>5
  <2>7. quarter * length <= offset /\ offset < (quarter + 1) * length
    BY <2>5, <2>6
  <2>8. quarter >= 0
    BY <2>5, <2>7
  <2>9. quarter <= 3
    BY <2>4, <2>5, <2>7
  <2>10. Status(r) = {1 + quarter}
    BY <1>2, <2>2, <2>3, <2>5, <2>6, <2>9 DEF Status, StatusCount
  <2> QED BY <2>8, <2>9, <2>10 DEF Broken
<1> QED BY <1>1, <1>2

LEMMA SoilRunKnown ==
  ASSUME QuartersCover, SoilIInv, NEW r \in Raw, SoilRun(r)
  PROVE  SoilIInv'
<1>1. PICK next \in Status(r) :
        /\ soil' = IF Held(r, next) THEN HeldReading(r, next) ELSE FreeReading(r, next)
        /\ status' = soil'.status
  BY DEF SoilRun
<1>2. next \in 1 .. Broken /\ status \in Unknown .. Broken /\ kept' \in {kept, status'}
  BY NextStatus DEF SoilRun, SoilIInv
<1>3. soil'.status \in 1 .. Broken
  <2>1. CASE Held(r, next)
    BY <1>1, <1>2, <2>1 DEF Held, HeldReading, Unknown, Broken
  <2>2. CASE ~Held(r, next)
    BY <1>1, <1>2, <2>2 DEF FreeReading, Unknown, Broken
  <2> QED BY <2>1, <2>2
<1>4. SoilTypeOK'
  BY SoilRunTypes DEF SoilIInv
<1> QED BY <1>1, <1>2, <1>3, <1>4 DEF SoilIInv, StatusIsKnown, Unknown, Broken

LEMMA SoilStepKnown ==
  ASSUME QuartersCover
  PROVE  SoilIInv /\ [SoilNext]_soilVars => SoilIInv'
<1> SUFFICES ASSUME SoilIInv, [SoilNext]_soilVars PROVE SoilIInv'
  OBVIOUS
<1>1. SoilTypeOK'
  BY SoilStep DEF SoilIInv
<1>2. ASSUME NEW r \in Raw, SoilRun(r) PROVE SoilIInv'
  BY <1>2, SoilRunKnown
<1>3. ASSUME NEW r \in Raw, LightRun(r) PROVE SoilIInv'
  BY <1>1, <1>3 DEF LightRun, SoilIInv, StatusIsKnown
<1>4. CASE SaveStatus
  BY <1>1, <1>4 DEF SaveStatus, SoilIInv, StatusIsKnown
<1>5. CASE RestartSoil
  BY <1>1, <1>5 DEF RestartSoil, SoilIInv, StatusIsKnown
<1>6. CASE Reconfigure
  BY <1>1, <1>6 DEF Reconfigure, SoilIInv, StatusIsKnown
<1>7. CASE UNCHANGED soilVars
  BY <1>1, <1>7 DEF soilVars, SoilIInv, StatusIsKnown
<1> QED BY <1>2, <1>3, <1>4, <1>5, <1>6, <1>7 DEF SoilNext

\* The two ways to a status that docs/sensors/soil_analog.md does not name, a reading of
\* max and a width that four does not divide, are the only ones: as long as every valid
\* reading lies in one of the four quarters, the published status is a documented one, over
\* held statuses, restarts, writes that fail and new configurations.
THEOREM DocumentedStatuses ==
  ASSUME QuartersCover
  PROVE  SoilSpec => []StatusIsKnown
<1>1. SoilInit => SoilIInv
  BY SoilInitial DEF SoilInit, SoilIInv, StatusIsKnown, Unknown, Broken
<1>2. SoilIInv /\ [SoilNext]_soilVars => SoilIInv'
  BY SoilStepKnown
<1>3. SoilIInv => StatusIsKnown
  BY DEF SoilIInv
<1> QED BY <1>1, <1>2, <1>3, PTL DEF SoilSpec

-----------------------------------------------------------------------------
(* The 1-Wire bus *)

BusDevice == [there : BOOLEAN, heard : ByteValue, at : 0 .. ByteBits, answer : ByteValue,
           asked : ByteValue]

\* A slot belongs to a transfer, and to a bit of it.
SlotInJob == slot # "ended" => job # "none" /\ (job # "reset" => n < ByteBits)

\* What the device counts is one bit ahead from the release of the line to the end of the
\* slot, and so is what is left of a byte to write.
Counted ==
  job \in {"write", "read"} => device.at = IF slot = "released" THEN n + 1 ELSE n

WriteInv ==
  job = "write" =>
    /\ \A i \in Place : device.heard[i] = IF i < device.at THEN device.asked[i] ELSE 0
    /\ \A i, k \in Place : k = i + device.at => byte[i] = device.asked[k]

ReadInv ==
  job = "read" =>
    \A i \in Place : i < n => byte[i] = IF device.there THEN device.answer[i] ELSE 1

BusIInv == BusTypeOK /\ SlotInJob /\ Counted /\ WriteInv /\ ReadInv

LEMMA PlaceLemma == /\ ByteBits \in Nat /\ ByteBits > 0 /\ 0 \in Place
                    /\ 0 \in 0 .. ByteBits
                    /\ Zero \in ByteValue /\ \A i \in Place : Zero[i] = 0
                    /\ \A k : k \in Place <=> k \in Nat /\ k < ByteBits
BY OneWireBusAssumption DEF Place, ByteValue, Zero

LEMMA BusStart == BusInit => BusIInv
<1> SUFFICES ASSUME BusInit PROVE BusIInv
  OBVIOUS
<1>1. device \in BusDevice
  BY PlaceLemma DEF BusInit, BusDevice
<1>2. BusTypeOK
  BY <1>1, PlaceLemma DEF BusInit, BusTypeOK, BusDevice
<1> QED BY <1>2 DEF BusInit, BusIInv, SlotInJob, Counted, WriteInv, ReadInv

\* The line is released: the device has heard a bit, the master has one less to write.
LEMMA ReleaseKeeps == BusIInv /\ Release => BusIInv'
<1> SUFFICES ASSUME BusIInv, Release PROVE BusIInv'
  OBVIOUS
<1>1. /\ slot = "held" /\ slot' = "released" /\ line' = "high" /\ device' = Hears
      /\ byte' = (IF job = "write" THEN Rest(byte) ELSE byte)
      /\ UNCHANGED <<job, n, code, synced>>
  BY DEF Release
<1>2. /\ byte \in ByteValue /\ n \in 0 .. ByteBits /\ device \in BusDevice
  BY DEF BusIInv, BusTypeOK, BusDevice
<1>3. /\ device.heard \in ByteValue /\ device.asked \in ByteValue
      /\ device.at \in 0 .. ByteBits
  BY <1>2 DEF BusDevice
<1>4. CASE job = "write"
  <2>1. device.at = n /\ n \in Place /\ n \in Nat
    BY <1>1, <1>2, <1>4, PlaceLemma DEF BusIInv, Counted, SlotInJob
  <2>2. byte[0] = device.asked[n] /\ device.asked[n] \in {0, 1}
    BY <1>3, <1>4, <2>1, PlaceLemma DEF BusIInv, WriteInv, ByteValue
  <2> DEFINE heard == [device.heard EXCEPT ![n] = device.asked[n]]
  <2>3. device' = [device EXCEPT !.heard = heard, !.at = n + 1]
    BY <1>1, <1>4, <2>1, <2>2 DEF Hears, Pulse
  <2>4. /\ heard \in ByteValue
        /\ \A i \in Place : heard[i] = IF i < n + 1 THEN device.asked[i] ELSE 0
    BY <1>3, <1>4, <2>1, <2>2, PlaceLemma DEF BusIInv, WriteInv, ByteValue
  <2> HIDE DEF heard
  <2>5. n + 1 \in 0 .. ByteBits
    BY <2>1, PlaceLemma
  <2>6. /\ device' \in BusDevice /\ device'.at = n + 1 /\ device'.heard = heard
        /\ device'.asked = device.asked
    BY <1>2, <2>3, <2>4, <2>5 DEF BusDevice
  <2>7. /\ byte' \in ByteValue
        /\ \A i \in Place : i # ByteBits - 1 => byte'[i] = byte[i + 1] /\ i + 1 \in Place
    BY <1>1, <1>2, <1>4, PlaceLemma DEF Rest, ByteValue
  <2>8. ASSUME NEW i \in Place, NEW k \in Place, k = i + (n + 1)
        PROVE  byte'[i] = device.asked[k]
    <3>1. i # ByteBits - 1 /\ k = (i + 1) + n
      BY <2>1, <2>8, PlaceLemma
    <3> QED BY <1>4, <2>1, <2>7, <3>1 DEF BusIInv, WriteInv
  <2>9. WriteInv'
    BY <2>4, <2>6, <2>8 DEF WriteInv
  <2> QED BY <1>1, <1>4, <2>1, <2>6, <2>7, <2>9, PlaceLemma
          DEF BusIInv, BusTypeOK, BusDevice, SlotInJob, Counted, ReadInv
<1>5. CASE job = "read"
  <2>1. device.at = n /\ n + 1 \in 0 .. ByteBits
    BY <1>1, <1>2, <1>5, PlaceLemma DEF BusIInv, Counted, SlotInJob
  <2>2. device' = [device EXCEPT !.at = n + 1]
    BY <1>1, <1>5, <2>1 DEF Hears, Pulse
  <2>3. /\ device' \in BusDevice /\ device'.at = n + 1
        /\ device'.there = device.there /\ device'.answer = device.answer
    BY <1>2, <2>1, <2>2 DEF BusDevice
  <2> QED BY <1>1, <1>5, <2>3
          DEF BusIInv, BusTypeOK, BusDevice, SlotInJob, Counted, WriteInv, ReadInv
<1>6. CASE job = "reset"
  <2>1. device' = [device EXCEPT !.heard = Zero, !.at = 0]
    BY <1>1, <1>6 DEF Hears, Pulse
  <2>2. device' \in BusDevice
    BY <1>2, <2>1, PlaceLemma DEF BusDevice
  <2> QED BY <1>1, <1>6, <2>2
          DEF BusIInv, BusTypeOK, BusDevice, SlotInJob, Counted, WriteInv, ReadInv
<1> QED BY <1>1, <1>4, <1>5, <1>6 DEF BusIInv, BusTypeOK, SlotInJob

LEMMA TransferKeeps ==
  ASSUME BusIInv, NEW kind \in {"reset", "write", "read"}, NEW value \in ByteValue,
         NEW answer \in ByteValue, Transfer(kind, value, answer)
  PROVE  BusIInv'
<1>1. /\ job = "none" /\ job' = kind /\ n' = 0 /\ byte' = value
      /\ UNCHANGED <<line, slot, code>> /\ synced' = (synced /\ device'.there)
      /\ device' \in [there : BOOLEAN, heard : {Zero}, at : {0}, answer : {answer},
                      asked : {value}]
  BY DEF Transfer
<1>2. /\ device' \in BusDevice /\ device'.at = 0 /\ device'.heard = Zero
      /\ device'.asked = value
  BY <1>1, PlaceLemma DEF BusDevice
<1>3. slot = "ended"
  BY <1>1 DEF BusIInv, SlotInJob
<1>4. BusTypeOK'
  BY <1>1, <1>2, PlaceLemma DEF BusIInv, BusTypeOK, BusDevice
<1>5. \A i, k \in Place : k = i + 0 => i = k
  BY PlaceLemma
<1>6. WriteInv' /\ ReadInv'
  BY <1>1, <1>2, <1>5, PlaceLemma DEF WriteInv, ReadInv
<1>7. QED
  BY <1>1, <1>2, <1>3, <1>4, <1>6 DEF BusIInv, SlotInJob, Counted

\* The level that the master reads is the bit the device has reached.
LEMMA ReceiveKeeps == BusIInv /\ Receive => BusIInv'
<1> SUFFICES ASSUME BusIInv, Receive PROVE BusIInv'
  OBVIOUS
<1>1. /\ slot = "released" /\ job = "read" /\ slot' = "ended" /\ n' = n + 1
      /\ byte' = [byte EXCEPT ![n] = Driven]
      /\ UNCHANGED <<line, job, code, synced, device>>
  BY DEF Receive
<1>2. /\ byte \in ByteValue /\ n \in 0 .. ByteBits /\ device \in BusDevice
      /\ device.answer \in ByteValue /\ device.there \in BOOLEAN
  BY DEF BusIInv, BusTypeOK, BusDevice
<1>3. n \in Place /\ n \in Nat /\ n + 1 \in 0 .. ByteBits /\ device.at = n + 1
  BY <1>1, <1>2, PlaceLemma DEF BusIInv, SlotInJob, Counted
<1>4. /\ Driven = (IF device.there THEN device.answer[n] ELSE 1)
      /\ Driven \in {0, 1}
  BY <1>2, <1>3 DEF Driven, ByteValue
<1>5. byte' \in ByteValue
  BY <1>1, <1>2, <1>3, <1>4 DEF ByteValue
<1>6. ASSUME NEW i \in Place, i < n + 1
      PROVE  byte'[i] = IF device.there THEN device.answer[i] ELSE 1
  <2>1. CASE i = n
    BY <1>1, <1>2, <1>4, <2>1 DEF ByteValue
  <2>2. CASE i # n
    <3>1. i < n /\ byte'[i] = byte[i]
      BY <1>1, <1>2, <1>3, <1>6, <2>2, PlaceLemma DEF ByteValue
    <3> QED BY <1>1, <3>1 DEF BusIInv, ReadInv
  <2> QED BY <2>1, <2>2
<1>7. ReadInv'
  BY <1>1, <1>6 DEF ReadInv
<1> QED BY <1>1, <1>2, <1>3, <1>5, <1>7
        DEF BusIInv, BusTypeOK, BusDevice, SlotInJob, Counted, WriteInv

LEMMA BusStep == BusIInv /\ [BusNext]_busVars => BusIInv'
<1> SUFFICES ASSUME BusIInv, [BusNext]_busVars PROVE BusIInv'
  OBVIOUS
<1> USE DEF BusIInv
<1>1. ASSUME NEW kind \in {"reset", "write", "read"}, NEW value \in ByteValue,
             NEW answer \in ByteValue, Transfer(kind, value, answer)
      PROVE  BusIInv'
  BY <1>1, TransferKeeps
<1>2. CASE Hold
  <2>1. job = "reset" \/ n < ByteBits
    BY <1>2 DEF Hold, Slots
  <2> QED BY <1>2, <2>1 DEF Hold, BusTypeOK, SlotInJob, Counted, WriteInv, ReadInv
<1>3. CASE Release
  BY <1>3, ReleaseKeeps
<1>4. CASE Receive
  BY <1>4, ReceiveKeeps
<1>5. CASE EndWrite
  <2>1. n + 1 \in 0 .. ByteBits
    BY <1>5, PlaceLemma DEF EndWrite, BusTypeOK, SlotInJob
  <2> QED BY <1>5, <2>1 DEF EndWrite, BusTypeOK, SlotInJob, Counted, WriteInv, ReadInv
<1>6. CASE Presence
  <2>1. device.there \in BOOLEAN
    BY DEF BusTypeOK
  <2> QED BY <1>6, <2>1 DEF Presence, BusTypeOK, SlotInJob, Counted, WriteInv, ReadInv
<1>7. CASE Complete
  BY <1>7 DEF Complete, BusTypeOK, SlotInJob, Counted, WriteInv, ReadInv
<1>8. CASE DriverFails
  BY <1>8 DEF DriverFails, BusTypeOK, SlotInJob, Counted, WriteInv, ReadInv
<1>9. CASE UNCHANGED busVars
  BY <1>9 DEF busVars, BusTypeOK, SlotInJob, Counted, WriteInv, ReadInv
<1> QED BY <1>1, <1>2, <1>3, <1>4, <1>5, <1>6, <1>7, <1>8, <1>9 DEF BusNext

\* What the master has transferred when the loop over the bits ends.
LEMMA ByteIsThere ==
  ASSUME BusIInv, Complete, device.there
  PROVE  IF job = "write" THEN device.heard = device.asked ELSE byte' = device.answer
<1>1. /\ job \in {"write", "read"} /\ slot = "ended" /\ n = ByteBits /\ byte' = byte
  BY DEF Complete
<1>2. /\ device.at = ByteBits /\ device.heard \in ByteValue /\ device.asked \in ByteValue
      /\ device.answer \in ByteValue /\ byte \in ByteValue
  BY <1>1 DEF BusIInv, BusTypeOK, Counted
<1>3. \A i \in Place : i < ByteBits
  BY PlaceLemma
<1>4. CASE job = "write"
  <2>1. \A i \in Place : device.heard[i] = device.asked[i]
    BY <1>2, <1>3, <1>4 DEF BusIInv, WriteInv
  <2> QED BY <1>2, <1>4, <2>1 DEF ByteValue
<1>5. CASE job = "read"
  <2>1. \A i \in Place : byte[i] = device.answer[i]
    BY <1>1, <1>3, <1>5 DEF BusIInv, ReadInv
  <2> QED BY <1>1, <1>2, <1>5, <2>1 DEF ByteValue
<1> QED BY <1>1, <1>4, <1>5

\* At every step the bits transferred stay within the byte, on the bus and in the device.
THEOREM BusTypeCorrect == BusSpec => []BusTypeOK
<1>1. BusIInv => BusTypeOK
  BY DEF BusIInv
<1> QED BY <1>1, BusStart, BusStep, PTL DEF BusSpec

\* For bytes of any length and devices that come and go, a write that completes has
\* given the device every bit of the byte, and a read has every bit of the answer,
\* whatever failed in the transfers before (Bus::write_byte, Bus::read_byte).
THEOREM BytesArriveIntact == BusSpec => BytesArrive
<1>1. BusInit => BusIInv
  BY BusStart
<1>2. BusIInv /\ [BusNext]_busVars => BusIInv'
  BY BusStep
<1>3. BusIInv /\ [BusNext]_busVars =>
        [Complete /\ device.there =>
           IF job = "write" THEN device.heard = device.asked
                            ELSE byte' = device.answer]_busVars
  BY ByteIsThere
<1> QED BY <1>1, <1>2, <1>3, PTL DEF BusSpec, BytesArrive

-----------------------------------------------------------------------------
(* BME280: the readings of its conversions *)

\* While run waits for a conversion of its own in forced mode, the chip is configured, and
\* once it is not measuring it has made a conversion that is not yet read.
AwaitsOwn ==
  mode = "Forced" /\ waiting =>
    /\ todo = 0 /\ chip.configured
    /\ ~chip.measuring => chip.made > reading.of

BmeIInv == /\ BmeTypeOK /\ AwaitsOwn
           /\ fine = reading.of /\ chip.made >= reading.of

LEMMA BmeInitial == BmeInit => BmeIInv
<1> SUFFICES ASSUME BmeInit PROVE BmeIInv
  OBVIOUS
<1>1. chip \in Chip
  BY DEF BmeInit, Chip, Mode
<1>2. reading \in Published /\ reading.of = 0
  BY DEF BmeInit, Unread, Published
<1>3. /\ chip.made = 0 /\ fine = 0 /\ todo = 6 /\ 6 \in 0 .. 6 /\ calibrated = {}
      /\ mode \in Mode
  BY DEF BmeInit
<1>4. ~waiting /\ waiting \in BOOLEAN
  BY DEF BmeInit
<1> QED BY <1>1, <1>2, <1>3, <1>4 DEF BmeIInv, BmeTypeOK, AwaitsOwn

LEMMA ConfiguredLemma ==
  ASSUME BmeTypeOK, WriteConfiguration
  PROVE  /\ chip' \in Chip
         /\ chip'.made = chip.made
         /\ mode = "Forced" => chip'.configured /\ chip'.measuring
<1>1. chip \in Chip /\ mode \in Mode
  BY DEF BmeTypeOK
<1>2. CASE chip' = Configured(chip)
  BY <1>1, <1>2 DEF Configured, Chip
<1>3. CASE mode = "Normal" /\ chip' = Ignored(chip)
  BY <1>1, <1>3 DEF Configured, Ignored, Chip
<1> QED BY <1>2, <1>3 DEF WriteConfiguration

LEMMA BmeStep == BmeIInv /\ [BmeNext]_bmeVars => BmeIInv'
<1> SUFFICES ASSUME BmeIInv, [BmeNext]_bmeVars PROVE BmeIInv'
  OBVIOUS
<1>a. /\ todo \in 0 .. 6 /\ (todo > 0 => todo - 1 \in 0 .. 6) /\ 6 \in 0 .. 6
      /\ mode \in Mode /\ chip \in Chip /\ chip.made \in Nat /\ fine \in Nat
      /\ reading \in Published /\ reading.of = fine /\ chip.made >= fine
  BY DEF BmeIInv, BmeTypeOK, Chip
<1>b. Unread \in Published /\ Unread.of = 0
  BY DEF Unread, Published
<1> USE DEF BmeIInv, BmeTypeOK, AwaitsOwn
<1>1. CASE Convert
  <2>1. /\ chip' = [chip EXCEPT !.made = chip.made + 1, !.measuring = FALSE,
                                !.mode = IF chip.mode = "Forced" THEN "Sleep" ELSE chip.mode]
        /\ UNCHANGED <<mode, todo, waiting, calibrated, fine, reading>>
    BY <1>1 DEF Convert
  <2>2. PICK m \in Mode : m = IF chip.mode = "Forced" THEN "Sleep" ELSE chip.mode
    BY <1>a DEF Chip, Mode
  <2>3. PICK made \in Nat : made = chip.made + 1
    BY <1>a
  <2>4. chip' \in Chip
    <3>1. chip' = [chip EXCEPT !.made = made, !.measuring = FALSE, !.mode = m]
      BY <2>1, <2>2, <2>3
    <3> QED BY <1>a, <3>1 DEF Chip
  <2>5. chip'.made = chip.made + 1 /\ chip'.configured = chip.configured
    BY <1>a, <2>1 DEF Chip
  <2> QED BY <1>a, <2>1, <2>4, <2>5
<1>2. CASE Begin
  BY <1>2, <1>a DEF Begin, Chip
<1>3. CASE ResetChip
  <2>1. /\ chip' = [chip EXCEPT !.mode = "Sleep", !.configured = FALSE, !.measuring = FALSE]
        /\ todo' = todo - 1 /\ todo = 6
        /\ UNCHANGED <<mode, waiting, calibrated, fine, reading>>
    BY <1>3 DEF ResetChip, Done
  <2>2. chip' \in Chip /\ chip'.made = chip.made
    BY <1>a, <2>1 DEF Chip, Mode
  <2> QED BY <1>a, <2>1, <2>2 DEF Chip
<1>4. CASE Setup
  BY <1>4, <1>a, ConfiguredLemma DEF Setup, Done, Chip
<1>5. CASE ReadCalibration
  BY <1>5, <1>a DEF ReadCalibration, Done
<1>6. CASE LogRegisters
  BY <1>6, <1>a DEF LogRegisters, Done
<1>7. CASE SetupFails
  BY <1>7, <1>a DEF SetupFails, Done
<1>8. CASE Start
  BY <1>8, <1>a, ConfiguredLemma DEF Start, Chip
<1>9. CASE ReadData
  <2>1. /\ fine' = chip.made /\ ~waiting' /\ waiting' \in BOOLEAN
        /\ reading' = [of |-> chip.made, pressure |-> fine, humidity |-> chip.made]
        /\ UNCHANGED <<mode, chip, todo, calibrated>>
    BY <1>9 DEF ReadData, Fine
  <2>2. reading' \in Published /\ reading'.of = chip.made
    BY <1>a, <2>1 DEF Published
  <2> QED BY <1>a, <2>1, <2>2
<1>10. CASE RunFails
  BY <1>10, <1>a DEF RunFails
<1>11. CASE RestartBme
  <2>1. /\ reading' = Unread /\ fine' = 0 /\ todo' = 6 /\ ~waiting'
        /\ waiting' \in BOOLEAN /\ calibrated' = {} /\ UNCHANGED <<mode, chip>>
    BY <1>11 DEF RestartBme
  <2> QED BY <1>a, <1>b, <2>1
<1>12. CASE UNCHANGED bmeVars
  BY <1>12, <1>a DEF bmeVars
<1> QED BY <1>1, <1>2, <1>3, <1>4, <1>5, <1>6, <1>7, <1>8, <1>9, <1>10, <1>11, <1>12
        DEF BmeNext

\* Only a read changes what is published, but for a restart that forgets it.
LEMMA ReadingLemma ==
  ASSUME BmeIInv, [BmeNext]_bmeVars, reading' # reading, reading' # Unread
  PROVE  /\ mode = "Forced" => chip.configured /\ reading'.of > reading.of
         /\ reading'.humidity = reading'.of /\ reading'.pressure = reading.of
<1>1. ReadData
  BY DEF BmeNext, bmeVars, Convert, Begin, ResetChip, Setup, ReadCalibration, LogRegisters,
         SetupFails, Start, RunFails, RestartBme
<1>2. /\ reading' = [of |-> chip.made, pressure |-> fine, humidity |-> chip.made]
      /\ mode = "Forced" => waiting /\ ~chip.measuring
  BY <1>1 DEF ReadData, Ready, Fine
<1> QED BY <1>2 DEF BmeIInv, AwaitsOwn

\* However conversions, transfers, failures and restarts fall, a reading in forced mode is
\* of a conversion of its own, made after the chip was configured, and in every mode its
\* values are compensated with the temperatures of this reading and of the one before.
THEOREM ConversionsStayApart == BmeSpec => ReadingsBelongTogether
<1>1. BmeInit => BmeIInv
  BY BmeInitial
<1>2. BmeIInv /\ [BmeNext]_bmeVars => BmeIInv'
  BY BmeStep
<1>3. BmeIInv /\ [BmeNext]_bmeVars =>
        [reading' # reading /\ reading' # Unread =>
           /\ mode = "Forced" => chip.configured /\ reading'.of > reading.of
           /\ reading'.humidity = reading'.of /\ reading'.pressure = reading.of]_bmeVars
  BY ReadingLemma
<1> QED BY <1>1, <1>2, <1>3, PTL DEF BmeSpec, ReadingsBelongTogether
=============================================================================
