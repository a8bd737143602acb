# Verification of control-components

TLA+ specifications of [control-components](../src/README.md), the C++ library
of IoT components for ESP32 devices: sensors, state machines, WiFi, an HTTP
server, task schedulers and flash storage on top of FreeRTOS and ESP-IDF. The
modules are model-checked with TLC on small instances and, where marked, proved
with TLAPS for every instance.

`PROJECT.json` links every definition to the lines it models, every property to
a run and to a change of the code (a "mutant" operator in the module) that
breaks it, and every hazard to the properties that watch it. Paths below are
under `src/components/`.

## 1. The system

One firmware is a handful of FreeRTOS tasks that share objects of this library.

* The **main task** runs `SystemPipeline::start`: an endless loop over a
  scheduler. Everything that touches sensors, state machines and counters is a
  task of it, so these do not interleave with each other.
* The **HTTP server task** (ESP-IDF) runs the handlers of
  `ocs_pipeline/httpserver`. A handler that needs something of the main task
  hands it a function through `AsyncFuncScheduler` and waits on a `Future`.
* The **timer task** (ESP-IDF) sets the event bits of `AsyncTaskScheduler`.
* The **event task** (ESP-IDF) delivers WiFi and IP events to `StaNetwork` and
  `ApNetwork`, which start and stop the HTTP server through
  `FanoutNetworkHandler` and `HttpPipeline`.
* The **application task** starts the network and waits for it.
* The **power** may go at any moment; state that must survive is in NVS, one key
  at a time.

| Component | State | Operations | Talks to | What is hard |
|---|---|---|---|---|
| Asynchronous functions: `AsyncFuncScheduler`, `AsyncFunc`, `Future`, `Cond` | two queues, result code and waiting handles of each future, one notification counter per task | `add`, `run`, `notify`, `wait`, `broadcast` | HTTP handlers, main task | notifications shared by all condition variables, timeouts that race with results, functions that capture the caller's stack |
| `FsmBlock`, `FsmBlockPipeline` | previous, current and next state, durations, write counter, the same in NVS | `update`, `set_next`, `transit`, `run`, `handle_reboot`, constructor | NVS, rebooter, soil sensor | five keys per save with failures and restarts between them |
| `FsmStore` | handlers per state, `is_transit_begin_` | `run` in two phases | `FsmBlock` | requests between the phases, restarts |
| WiFi station: `StaNetwork`, `WaitNetworkRunner`, `ResetNetworkRunner`, `SelectNetworkPipeline` | event bits, retry counter, driver | `start`, `wait`, `stop`, events | ESP-IDF, HTTP server, rebooter | three parties, event bits never cleared, recovery by reset |
| WiFi access point: `ApNetwork` | `code_`, connection counter, mutex | `start`, `stop`, `wait`, `get_info`, events | HTTP server and its formatters | callbacks under a mutex which a served request may want |
| Network configuration: `StaNetworkConfig`, `ApNetworkConfig`, `MdnsConfig` and handlers | values read at startup, NVS | `configure`, `reset`, `valid` | HTTP handlers, rebooter | partial writes, comparison with stale values and over a prefix |
| HTTP server, router, response | server handle, what has been sent | `start`, `stop`, `serve_http`, chunks | handlers | stop while serving, errors half-way through a response |
| Task schedulers: `AsyncTaskScheduler`, `PeriodicTaskScheduler`, timers, rate limiter | event bits, last run of each task | `add`, `start`, `stop`, `run` | main task | coalesced events, clock that starts at zero |
| Persistent counters | base value, NVS | `run`, `handle_reboot`, `get`, constructor | NVS, rebooter | value counted twice or lost over crashes |
| Reboot and suspension: `FanoutRebootHandler`, `DelayRebooter`, `FanoutSuspender` | lists of handlers, suspension count | `reboot`, `suspend`, `resume` | everything persistent | one handler of several failing |
| Storage: `NvsStorage`, `StorageOps` | NVS | `probe`, `read`, `write`, `erase`, `erase_all` | ESP-IDF | missing keys against failed reads |
| Soil and light sensors, relay | calibration, latest data, an `FsmBlock`, a GPIO | `run` | ADC, `FsmBlock` | integer arithmetic at the bounds of the range |
| Analog configuration | range and sample count, NVS | `configure`, `reset`, constructor | HTTP handler | three keys, one object |
| DS18B20 sensors and store | ROM code and resolution in flash, object and scratchpad | `run`, `read` and `write_configuration`, `erase_configuration`, `add` | 1-Wire bus, HTTP handler | three copies, unplugging, time limits |
| SHT41 | heating count, latest data | `run`, `reset`, `heat` | I2C, NVS | count, save and publish in three steps |
| BME280 | calibration, fine temperature, latest data | constructor, `run` | SPI | a chip that converts meanwhile |
| 1-Wire bus, `RomCodeScanner` | position of the search, level of the line | `reset`, `read`, `write`, `scan` | GPIO, DS18B20 handler | the search tree, devices that go away, refused GPIO calls |
| JSON formatters | the tree under construction | `format` | handlers, cJSON | who owns an item when an allocation fails |
| Algorithms: time, CRC, bits, URI, strings | none | conversions | all | wrap-around, bit order |
| mDNS server, HTTP client, security, status codes, drivers | none that anything depends on | | | |

What makes each component correct, in a sentence:

* **Asynchronous functions**: what is accepted runs once and in order, whoever
  waits gets the result of his own function or a timeout, no wakeup is lost, and
  a function never outlives the stack it refers to.
* **FSM block**: what a restart restores is a recent state, with a duration that
  was really spent in it, and an orderly reboot loses nothing.
* **FSM store**: a state that is entered is handled, and no transition is made
  that was not announced.
* **WiFi**: the bits tell the state of the link, a configuration is erased only
  when it does not work, a device that cannot connect becomes reachable as an
  access point, and the HTTP server runs while there is a network and no longer.
* **Configuration**: what was answered with OK is what the next start uses.
* **Counters**: never more than was lived, and little less.
* **Schedulers**: a timer that fired leads to a run of its task.
* **Responses and documents**: what looks complete is complete, and memory is
  given back once, wherever it runs out.
* **Sensors**: what is published belongs together, and the configuration in use is
  the one a restart finds.
* **ROM code search**: every device is listed, once, and no other.

## 2. Modules

| Module | Models | Kind |
|---|---|---|
| `AsyncCall` | what asynchronous functions promise | abstract specification |
| `AsyncFunc` | `AsyncFuncScheduler`, `AsyncFunc`, `Future`, `Cond` | detailed specification |
| `MCAsyncFunc` | an instance of it | model checking |
| `AsyncFuncProofs` | its theorems, and the refinement of `AsyncCall` | proofs |
| `FsmBlock` | `FsmBlock`, `FsmBlockPipeline`, its use of `NvsStorage` | specification |
| `FsmStore` | `FsmStore` and the other clients of the block | extends `FsmBlock` |
| `FsmStoreProofs` | theorems about both | proofs |
| `StaNetwork`, `StaNetworkProofs` | `StaNetwork`, both runners, the choice of `SelectNetworkPipeline`, `HttpPipeline` | specification, proofs |
| `ApNetwork` | `ApNetwork`, `FanoutNetworkHandler`, `HttpPipeline`, `Server`, `get_info` | specification |
| `NetworkConfig` | the three configurations and their HTTP handlers | specification |
| `AsyncTasks` | `AsyncTaskScheduler`, `AsyncTask`, `HighResolutionTimer` | specification |
| `PersistentCounters` | the counters, `PeriodicTaskScheduler`, `RateLimiter`, `FanoutRebootHandler` | specification |
| `HttpResponse` | `Server`, `Router`, handlers, `ResponseWriter`, `StreamTransceiver`, `FileStreamReader`, `ChunkStreamWriter` | specification |
| `ServiceProofs` | theorems about `NetworkConfig`, `ApNetwork`, `HttpResponse`, `AsyncTasks` and `PersistentCounters` | proofs |
| `Formatters`, `JsonDocument`, `JsonProofs` | every formatter of `ocs_fmt` and `ocs_pipeline/jsonfmt`; ownership of cJSON items | operators, specification, proofs |
| `Ds18b20` | `Sensor`, `Store`, `Scratchpad` of `ds18b20`, `DS18B20Handler` | specification |
| `AnalogConfig` | `AnalogConfig`, `AnalogConfigStoreHandler` | specification |
| `AnalogSensors` | soil and light sensors | specification |
| `RelaySensor` | `AnalogRelaySensor`, `GpioGuard`, `DelayGpio`, `AnalogSampleReader`, `OneshotReader` | specification |
| `Sht41`, `Bme280` | the I2C and SPI sensors with their chips | specifications |
| `OneWireBus` | `Bus`, its slots, `SystemStateGuard` and the GPIO under it | specification |
| `SensorProofs` | theorems about `Ds18b20`, `AnalogConfig`, `AnalogSensors`, `Sht41`, `RelaySensor`, `OneWireBus`, `Bme280` | proofs |
| `RomCodeScanner`, `RomCodeScannerProofs` | `RomCodeScanner`, `scan_rom_codes`, `find_rom_code` | specification, proofs |
| `Algorithms`, `AlgorithmProofs` | `TimeOps`, `CrcOps`, `UriOps`, `StringOps`, `BitOps`, temperature of a scratchpad | pure functions, proofs |
| `MCServices`, `MCSensors` | components that share no state, side by side | model checking |

### AsyncFunc

The actions of a caller are the stretches of `AsyncFunc::run` between two points
where another task can interfere: `Add` or `AddRefused` (`add` under its mutex),
`Check` (the head of the loop in `Future::wait`, with the handle queued by
`Cond::append_task_` before the mutex is released), `Take` and `TakeTimeout`
(`ulTaskNotifyTake`), `GiveUp` and `Return`. The actions of the main task are
`Swap`, `Call` (`CallReschedules` when the function adds one itself), `Notify`,
one `Signal` for each handle of the broadcast, and `Done`. A broadcast holds
`Future::mu_` all the time (`Locked`); a task it wakes may preempt it and then
waits for the mutex.

Each task has one notification counter (`notified`), used by every condition
variable it waits on, and a caller that times out leaves its handle in `tasks`:
that is how a notification for one future reaches a wait for another one. Whether
a wait has a limit belongs to the call (`limit`, chosen in `Ask`), not to the task:
the HTTP server task waits with one for sensors and configurations
(`ds18b20_handler.cpp`, `analog_config_store_handler.cpp`) and without one for the
reboot (`system_pipeline.cpp`), one request after the other. An unlimited wait can
thus be woken by the function of a request given up before; it then finds no
result, queues its handle a second time and sleeps again. That wait is reached in
the run: `StrayWakeupsExplained` says where such wakeups come from, and
`CapturesAlive` that they end no wait.

`AsyncCall` says nothing of queues and notifications: requests are accepted,
started and finished in order, and answers are published results. `AsyncFunc`
implements it with `started` and `finished` computed from the two queues and the
position in them (`Started`, `Finished`).

### FsmBlock and FsmStore

A save is one step per key (`WriteKey`), each of which may fail (`WriteFails`)
and end the save, with the value stored or not (`StoreKey`: `nvs_commit` may report
an error behind an `nvs_set_blob` that was carried out); `Restart(n)` may come between any two of them and reads the
first `n` keys into the members, as the constructor does, which stops at the
first read that fails. A single write is atomic: that is what NVS provides.
`EnterNext` is what `transit` does to the members, and `Transit`, `Run` and
`HandleReboot` end where the first write begins.

Time is a clock in ticks; a tick passes only when no save is under way, as
saves are far shorter than the resolution of the durations. History
variables record the time really spent in each state (`total`), the save that
wrote each key (`gen`) and the states since the last complete save (`recent`).

`FsmStore` drives the same block: `StartRun`, `EndTransit` and `HandleState` are
the parts of `FsmStore::run` between which the writes of a transition lie;
`Ask` is `set_next` by other tasks of the scheduler, between two runs. 0 is a
state like others there (the block starts in it), so it must have handlers; it
is also what withdraws a request.

### StaNetwork and ApNetwork

In `StaNetwork` three parties interleave. The application's task (`Start`, `Wait`,
`Woken`, `WaitTimeout`, `Stop`, `Reset`, `Restart`) goes through
`ResetNetworkRunner` and `WaitNetworkRunner`. The event task handles one event at
a time, in two steps: the bits and the retry under no lock (`HandleStart`,
`HandleDisconnected`, `HandleGotIp`), then the callback that starts or stops the
HTTP server (`HandleConnect`, `HandleDisconnect`). The driver joins, refuses and
loses the connection as it likes, and says so by events that wait in a queue. A
task blocked on the event group remembers the bits it was woken with (`seen`),
whatever happens to the bits before it runs. The access point is only the mode
`"ap"` here, in which a user may provide a configuration (`Provision`).

`ApNetwork` is that mode in detail: the same event task and application task, and
the task of the HTTP server, which serves requests that need `mu_`. The event
task has `mu_` from the beginning of a handler to the end of its callbacks;
`httpd_stop` is a step that waits for the request being served.

### NetworkConfig, PersistentCounters, AnalogConfig

Each is a sequence of accesses to NVS, one step per access, with three outcomes:
done, failed without effect, and failed although it took effect; the power may
go between any two. What is in flash and what is in the object are separate
variables; a text is a model value, and which text begins which is a constant
relation (`Prefix`) of which the code's comparison over the shorter length is
made. In `PersistentCounters` the clock, the rate limiter and the periodic
scheduler decide when the lifetime is saved; `lived` is the time really passed.

### HttpResponse, Formatters, JsonDocument

`HttpResponse` follows one request through router, handler and stream; what the
client gets is a sequence of headers, chunks, ends and errors. `Formatters` gives
for each formatter the items it adds, in order and with their keys: a document is
the sequence of these additions, with objects and arrays opened and closed in
between. `JsonDocument` makes any document of the constant `Document` while
allocations, additions and the printing fail. Each item knows its parent and its
tree, the items `cJSON_Delete` deletes with it; an addition (`Linked`) puts the tree
of the child into every tree its parent is in. `freed` counts how often each was
deleted. The only assumption about a document is that it is nested (`Nested`), as
formatters that call each other cannot but be.

### Sensors

`Ds18b20` has the handler's request, the steps of the function on the main task,
the devices that come and go, and the time limit after which the function works
on variables that no longer exist (`TimeOut`, which ends the behaviour: what the
function then reads and writes is undefined, and no restart follows).
`Sht41` and `Bme280` have the chip as part of the state; a conversion is its
number. `AnalogSensors` computes in the integers of the code. `RelaySensor` has the
state of the relay and the sum of the samples. `OneWireBus` models a slot by the
class of its pulse (short, long, very long) and each GPIO call as a step that
may be refused; a byte is the function of its bits, and the shifts of `write_byte`
and `read_byte` move them.

### RomCodeScanner

One step per bit of the code. The devices that still take part answer together:
`Agreement` follows them, `Resolve`, `Discover` and `Follow` are the three ways
through `handle_discrepancy_`, `AssertionFails` its assertions, `Silence` two
ones on the bus. `CodeRead` returns a code to the loop that lists all of them or
looks for the one `wanted`. Devices may be unplugged and the bus may fail at
every bit. The CRC is abstracted: a device's code is right, and a code with a
wrong one is a failure of the bus. (`Algorithms!BurstsAreFound` is about the CRC:
there a byte is the set of the positions of its 1 bits, so that exclusive or is
the symmetric difference of two sets.)

### MCServices and MCSensors

The components of these runs share no variable, so their product would only
multiply the states. A behaviour chooses one of them (`part`) and the others
rest in one initial state; every behaviour of each component is a behaviour of
the run. Components that do interact are composed in their own modules.

## 3. What the runs check

| Run | Bounds | States | What it shows |
|---|---|---|---|
| `async` | 2 callers, each request with or without a limit, 3 functions, queues of 2, two results | 216,000 | `TypeOK`, `RunsOnceInOrder`, `NoLostWakeup`, `StrayWakeupsExplained`, `CapturesAlive`, the refinement `KeepsPromise`; `EveryCallerAnswered`, `EveryFunctionFinishes` |
| `fsm` | 4 states, one of them without handlers, 2 saves, resolution 2, 2 ticks per state | 1,475,000 | `AssertionsHold`, `DurationsNotInflated`, `RestoresRecentState`, `LeavesHandledState`, `RebootKeepsBlock` |
| `fsm_block_torn` | 3 states | | finding: `TimeSpentInCurrentState` fails |
| `sta_network` | 2 retries | 14,000 | `BitsTellTheLink`, `ErasesOnlyFailed`, `ConnectionServes`, `FallsBackToAp` |
| `sta_network_timeout` | 1 retry | | finding: `FailedStartResets` fails |
| `rom_code_search` | codes of 3 bits, every set of up to 3 devices | 555,000 | `FindsBothDevices`, `EndsComplete`, `OnlyConnectedDevices`, `SearchEnds` |
| `rom_code_three` | codes of 4 bits, the first in common, 3 devices | | finding: `FindsEveryDevice` fails |
| `services` | below | 198,000 | configuration, counters, task scheduler, access point, response, document |
| `sensors` | below | 402,000 | the sensors, the bus and the algorithms |
| `ap_stop` | 1 station | | finding: `ServerStops` fails |
| `soil_status` | ranges of 0 and 8 | | finding: `StatusIsKnown` fails |
| `temperature` | 10 bits around zero | | finding: `TemperatureInCelsius` fails |

What `services` checks, and its bounds:

| Property | Bound | Meaning |
|---|---|---|
| `AcknowledgedApplied` | 3 texts, one of which begins another; 2 numbers | a configuration answered with OK is the one in use after the reboot, except where a text is taken for the old one, or members were stale |
| `NotInflated`, `LossBounded` | 8 ticks of life, resolution 2, period 3 | counters are never too high; the lifetime lacks a fraction per restart and a period per power cut |
| `EventsKept`, `FiredTaskRuns` | 3 tasks asked for, room for 2 | a timer that fired is not forgotten, and its task runs |
| `NoServerWithoutAp`, `CountNeverWraps`, `WaitEnds` | 2 stations, a counter of 256 | after a stop there is no server; the counter does not wrap; `wait` ends |
| `SuccessIsWhole` | files of 0 to 4 bytes, buffer of 2 | a success carried the whole file before the first end |
| `DocumentSound` | every document, 2 sensors per store | every item freed once, no key hides another |

What `sensors` checks, and its bounds:

| Property | Bound | Meaning |
|---|---|---|
| `ConfigurationKept` | 2 sensors, 2 devices | flash, object and answer agree |
| `AnalogConfigKept` | 3 values, 2 counts | the configuration in use is the one the next start finds |
| `MoistureOfStatus` | ranges up to 8, readings on both sides of every boundary | moisture and status belong together |
| `SumFits` | 2 bits, counts 0 to 5, the largest int 12 | the sum of the samples fits |
| `EveryHeatCounted` | 4 activations | each is counted once or known to be lost |
| `ReadingsBelongTogether` | 4 conversions | a reading is that of a new conversion, compensated with the right temperature |
| `BytesArrive` | bytes of 3 bits | a transfer that returned OK moved the byte |
| `MatchesReference`, `BurstsAreFound` | a clock of 8, every register of a positive temperature, words, two messages | the algorithms against their references |

Why the bounds are enough:

* **AsyncFunc**. A queue of two is full while another batch runs, so refusal,
  swapping and the order within and across batches all occur. Three functions let
  one caller be notified for a future it gave up while it waits without a limit for
  a second one, and the other caller (or a function that adds one) be queued in
  between; what a stray notification does needs no more than one request given up
  and one that waits.
* **FsmBlock**. A record mixed from two saves needs two saves. `MaxTicks` 2 with
  resolution 2 gives one full interval and a fraction of one. The state without
  handlers is what `AssertionsHold` would fail on.
* **StaNetwork**. The queue of events is not bounded by a constant: connections
  that come and go are bounded by the retries and by the event task, which must
  handle a disconnection before the station connects again.
* **RomCodeScanner**. Three bits give every shape of a search tree of three
  devices: both discrepancies on one path, or on two.
* **NetworkConfig**. The old text, a longer one it begins and an unrelated one
  are the three outcomes of the comparison; a second change needs the members of
  the first start, which are never updated.
* **PersistentCounters**. Eight ticks hold two periods, a power cut in between
  and fractions of a unit on both sides.
* **AsyncTasks, ApNetwork, HttpResponse, sensors**. Two of a kind are enough for one
  to be disturbed by the other; sizes are chosen on and beside the boundary
  (a multiple of the buffer and one more, a count whose sum just fits).

For the components with proofs the bounds are then removed.

The deadlock check is on where the system runs for ever (`async`, `fsm`,
`sta_network`). It is off for the search, which ends, for `services` and `sensors`,
in which samples, requests and documents end, and for `ap_stop`, `soil_status` and
`temperature`, which look for one counterexample.

## 4. Fairness

* `AsyncFunc`: weak fairness of the main task and of each caller that is
  waiting. The main task loops for ever over its scheduler, in which
  `AsyncFuncScheduler` is registered with a period of one second, and FreeRTOS
  runs every ready task. A caller is not obliged to ask for anything, and a
  caller whose wait has a limit goes on at the latest when it is over; one without
  goes on only when it is notified.
* `StaNetwork`: weak fairness of the application's task and of the event task;
  the wait interval is finite. Nothing is assumed of the driver and of the
  network behind it, so `ConnectionServes` and `FallsBackToAp` name what they need
  of them. `FallsBackToAp` is about a station that is refused each time: where no
  event comes at all the wait ends in an assertion, which is the finding of
  `sta_network_timeout`.
* `ApNetwork`: weak fairness of the event task, of the server's task and of the
  waiting application; not of the one that calls `stop`, nor of the stations.
* `AsyncTasks`: weak fairness of the loop, not of the timers.
* `RomCodeScanner`: weak fairness of the search, which runs on the main task
  without giving way.
* In `MCServices` these are stated for the part that acts, with the variables of
  that component as subscript. The other modules state safety only.

## 5. What is proved

Each theorem holds for every value of the constants that satisfies the named
assumptions of its module. But for types, none of the invariants is inductive by
itself; the parts that were added are named with each.

* **`AsyncFuncProofs`**: `TypeCorrect`, `FunctionsRunOnceInOrder`, `WakeupsArrive`,
  `BroadcastsReachAll`, `WakeupsMeanResults`, `CapturesOutliveFunctions`, and
  `ImplementsPromise`, the refinement of `AsyncCall`. The invariant `IInv` adds:
  `QueueOrder`, that the two queues hold consecutive tickets; `CodeOrder`, that a
  future has its result exactly if its ticket is among the finished; `Waiting` and
  `Unused`, which tie a caller to a ticket of its own; `OwnHandles`, that only the
  owner of a future is queued on it; `Reachable`, that a sleeping task is queued or
  notified; `NoHandleLeft`, that a notified future has no task queued, which
  `BroadcastsReachAll` states; and, about a task of which no request given up has run yet, `QueuedOnce`,
  that it is queued once on the future it waits for and only while it sleeps there,
  and `Calm`, that it is notified of its own result only. A request keeps its owner,
  its limit and its answer (`RequestStable`), and a request given up that has run
  stays so (`AbandonedStable`), which is why a step cannot make either part false by
  changing its premise. `CapturesOutliveFunctions` is about every caller, the ones
  whose functions refer to their stack included: before its function has run a
  caller leaves only by giving up a wait with a limit, never because it was woken for
  another reason. `ProgressLemma` says what every step does to the three counters
  of the promise and serves both `RunsStep` and the refinement.
* **`FsmStoreProofs`**: `DurationsAreHonest`, `RestoredStateIsRecent`,
  `AssertionsNeverFire`, and the action properties `NoStateIsPassedOver` and
  `OrderlyRebootKeepsBlock`. `SaveInv` says which keys the save under way has
  written, with what it holds in memory, and that all others are of earlier saves;
  hence a state and a duration with the same writer belong together (`PairInv`),
  which is what a restart that mixed nothing reads. `RamInv` bounds the duration
  the clock would give, not only the one last computed. `RebootInv` carries the
  duration of an orderly reboot to the end of its save. `StoreStep` covers a write
  that fails with and without its effect. `BlockInv` keeps every
  state in memory and flash among those with handlers.
* **`ServiceProofs`**, in five parts.
  `ConfigTypeCorrect`, `AcknowledgedIsApplied`: what a request that got this far has
  done is carried key by key (`TodoWhileWriting`, `Carried`, `ErasesAll`) to the
  answer (`Answered`) and to the reboot.
  `ApTypeCorrect`, `ServerGoesWithAp`, `ConnectionsNeverWrap`: the counter is tied to
  the driver by replaying the queue: there is a level after each queued event, never
  below zero, that ends at the number of stations joined (`CountReplays`).
  `StopReachesServer` says that a server without an access point has a stop event
  still to come.
  `ResponseTypeCorrect`, `WholeFileIsWhole`, for any size of file and buffer: no end
  is sent before the end-of-file indicator (`EndNeedsEof`) and no part after an end
  (`NoPartAfterEnd`), and behind the loop the code is OK only if the file was read to
  its end (`SuccessNeedsEof`, `EofIsAtEnd`).
  `TasksTypeCorrect` and `NoEventIsLost` of `AsyncTasks`;
  `CountersTypeCorrect`, `CountersNotInflated` and `LifetimeLossBounded` of
  `PersistentCounters`. `BaseIsLived` and `HeldIsLived` bound what is in flash and
  what a startup holds between its read and its erase; `SavesOften` bounds the age
  of the last save by the period, `Complete` says what a counter lacks.
* **`StaNetworkProofs`**: `BitsFollowTheLink` and the action property
  `OnlyFailedIsErased`. `LinkInv` looks ahead in the queue: the last event in it that
  is about the link decides what the bits will say, and that is the state of the
  driver. `LastInv` makes a disconnection the last event until it is handled,
  `ServerInv` ties the server to a connection or to a callback still to come, and
  `FailedInv` says that a station that has given up does nothing any more.
* **`AlgorithmProofs`**: `WrappingClockIsUnderstood` is the part of `MatchesReference`
  about `TimeOps::after`, for an integer type of any width. `EveryBurstIsFound` states
  `BurstsAreFound` for messages of any length. A turn of the loop in `crc8` is linear
  (`ShiftLinear`) and maps nothing but zero to zero (`ShiftNothing`), because both
  polynomials have their last bit set; so the registers of the transfer sent and of the
  one received agree before the damage and, once they differ, differ to the end
  (`DifferBefore`, `DifferBehind`). A burst lies in one byte or in two, and
  `BurstLemma` follows the eight turns from both ends: the first part still has its
  first bit in the register when, run backwards, the second part cannot have any there.
  That the recursion over the message is well-defined (`RegistersLemma`) and the two
  inductions along it use `UpTo`, from the library's theorem that the natural numbers
  are well-founded.
* **`SensorProofs`**: `ConfigurationSurvives` (`StoredIsWanted` bridges the step
  between flash and object), `AnalogConfigSurvives`, `HeatingCountIsExact`,
  `SumNeverOverflows` (while it samples, the sum is at most the samples taken times
  the largest level), and of `AnalogSensors` `SoilTypeCorrect` and the action
  property `StatusAndMoistureAgree`, for any limits, readings and threshold: the
  types are inductive, and `QuarterLemma` relates the two divisions the code makes
  of the same reading, by a quarter of the range and by the range.
  `DocumentedStatuses` closes the finding of `soil_status`: if every valid reading
  lies in one of the four quarters (`QuartersCover`), the status is a documented one,
  over held statuses, failed writes, restarts and new configurations, so a reading of
  `max` and what a division by four leaves over are the only ways to another.
  `BusTypeCorrect`, `BytesArriveIntact`, for bytes of any length:
  what the device counts is at most one bit ahead of the master (`Counted`, between
  the release of the line and the end of the slot), what is left of the byte to
  write is the rest of the one asked for (`WriteInv`), and the bits below the
  counter are those of the answer (`ReadInv`). `ConversionsStayApart`: while `run`
  waits in forced mode, the chip is configured, and once it is not measuring it has
  made a conversion that was not read (`AwaitsOwn`); the fine temperature is that of
  the published reading.
* **`JsonProofs`**: `DocumentTypeCorrect`, `ItemsAreFreedOnce` and `DocumentsAreSound`,
  for documents of any length. The trees of the guarded items are apart
  (`GuardsApart`) and hold exactly the items not yet deleted (`Accounted`), so a guard
  that goes deletes what no other guard will. An addition keeps them apart only if it
  is made in the tree of the guard below: `ScopesGuarded` says under which guard each
  of the objects and arrays being filled is, its own for an object, that of its parent
  for an array. For the keys, an item is placed by its depth in the document:
  `ScopesNested` ties the depth of the next addition to the number of open scopes,
  `Parented` says that an item lies one level below its parent with nothing less deep
  in between, hence two children of one parent are additions at one level of one
  object, whose keys differ by hypothesis (`KeysDiffer`). That the documents of this
  device meet the hypothesis is evaluated by TLC (`MCServicesAssumption`); that they
  are nested, with `JsonDocumentAssumption`.
* **`RomCodeScannerProofs`**. `CodesAreReal`, for any number of devices: every bit
  chosen is the bit of a device that takes part (`BitLemma`). `TwoAreFound` and
  `ThreeEndComplete`, for codes of any width: an undisturbed search goes through
  phases, each a stretch of positions with what has been found, the two
  discrepancies the scanner remembers, how many it still counts and the devices
  taking part (`Phase`). `OneInv`, `TwoInv`, `LastInv` and `FirstInv` list the
  phases by the shape of the tree the codes form, and `TwoStep`, `LastStep` and
  `FirstStep` show that a step stays in its phase or enters the next. With three
  devices the order matters: if the one that parts first sends the 1, all are found
  (`LastInv`); if it sends the 0, the search never says that it has finished
  (`FirstInv`), which is why `EndsComplete` holds and `FindsEveryDevice` does not.
  That codes have such a shape (`ForkExists`, `ForksExist`) takes the first position
  in which they differ (`LeastNat`, from the library's theorem that the natural
  numbers are well-founded).

Only model-checked:

* liveness (`EveryCallerAnswered`, `EveryFunctionFinishes`, `ConnectionServes`,
  `FallsBackToAp`, `SearchEnds`, `FiredTaskRuns`, `WaitEnds`), which is out of the
  prover's reach;
* the rest of `MatchesReference`: the temperatures that are not negative are all
  evaluated; queries and serial numbers are folds and recursions over texts, of which
  only induction would say anything for every length.

## 6. Findings

1. **Torn save** (`fsm_block_torn`, `ocs_control/fsm_block.cpp:130`). State and
   duration are two keys. A restart between their writes gives the new state
   the duration of the old one. `DurationsNotInflated` shows that this is the only
   way to get a duration too long.
2. **Timeout asserts** (`sta_network_timeout`, `ocs_net/target_esp32/sta_network.cpp:143`).
   If no bit is set within the wait interval, `wait` fails an assertion; the
   network is neither stopped nor its configuration reset, as
   `reset_network_runner.h` promises.
3. **Three devices** (`rom_code_three`, `ocs_onewire/rom_code_scanner.cpp:132`).
   With three sensors on one GPIO the search can go on for ever, or fail an
   assertion; with four it can end without one. `FindsBothDevices` shows that two
   are always found.
4. **Stop against a request** (`ap_stop`, `ocs_net/target_esp32/ap_network.cpp:181`).
   The event task stops the server under `mu_`, and the request the server is
   serving may want `mu_`: both wait for ever.
5. **Status of a reading at its maximum** (`soil_status`,
   `ocs_sensor/soil/analog_sensor.cpp:125`). The index is beyond the last status, for
   ranges that four does not divide also below the maximum; a range below four
   divides by zero.
6. **Temperatures below zero** (`temperature`, `ocs_sensor/ds18b20/scratchpad.cpp:97`).
   The register is in two's complement and read as a magnitude with sign bits.

Smaller observations the models carry, without a run of their own: the station
makes one attempt more than `max_retry_count` (`sta_network.cpp:216`); handlers
overwrite the status of `configure` with that of the answer, so that a request
that changes nothing reboots all the same; an mDNS name equal to the empty text
is never stored; a read error in the middle of a file still ends the chunked
response as complete; `SystemHandler` answers OK before it may answer with an
error; an erased DS18B20 goes on showing its last reading, and two sensors may be
assigned one device; a relay that could not be switched on does not keep the
sensor from being read; the heater is counted only when its measurement has
arrived; two soil sensors use the same telemetry keys.

## 7. What is not modelled

* **mDNS server**, **HTTP client**: registration once at start; a wrapper that no
  pipeline uses.
* **Security, status codes, test helpers, projects**: a hash by mbedTLS, an
  enumeration, mocks, demonstration programs.
* **Conversion formulas** of SHT41 and BME280 (floating point and 64-bit
  arithmetic); of the latter only the fine temperature the formulas share.
* **Time on the wire**: pulses are classes, not microseconds; the delays of chips
  and relays are steps.
* **Creation of drivers** (ADC units, I2C and SPI buses): calls of ESP-IDF without
  state that changes afterwards.
* **Estimators** of `PeriodicTaskScheduler` other than the constant one, and several
  tasks at once in it; the single task is the one that saves the lifetime.
* **One handler for several URIs**: requests are served one at a time by ESP-IDF, so
  nothing of one is seen by another but what is in the components.
* **Functions after their handler gave up**: a limited wait that ends leaves the
  function with references to a stack that is gone (`ds18b20_handler.cpp:193`,
  `analog_config_store_handler.cpp:82`, where the function writes the response).
  What it then does is undefined; `CapturesAlive` says when it can happen, and
  `Ds18b20` ends there and `HttpResponse` leaves it out.
* **Recovery of a device whose access point did not start**: the runner's reset and
  reboot are modelled in `StaNetwork` only; `ApNetwork` ends with `wait`.
* **Unplugging inside one bit** of a ROM code search: the two reads and the write of
  a bit are one step of `RomCodeScanner`.
* **Waiting without bound on a chip**: `bme280/sensor.cpp:103` polls until the chip
  is ready; nothing in the code bounds that loop.

What could be added next: the composition of `Ds18b20` with the promise of
`AsyncCall` instead of the request it now carries itself.
