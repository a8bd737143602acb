------------------------------- MODULE Formatters -------------------------------
(***************************************************************************)
(* What the formatters of ocs_pipeline and ocs_fmt add to a document: one  *)
(* operator per formatter, the sequence of its additions in their order.   *)
(*                                                                         *)
(*   leaf   a number, string, bool or null with its key                    *)
(*   open   an object of its own, guarded until it is added at its close   *)
(*   array  an array added at once, which its end leaves                   *)
(*                                                                         *)
(* Values are left out; a key is kept, because two formatters of one       *)
(* document must not use the same one.  An element of an array has none.   *)
(***************************************************************************)
EXTENDS Sequences, SequencesExt, FiniteSetsExt

CONSTANTS
  SensorId,  \* ids of the DS18B20 and analog sensors of the device
  TaskId     \* the FreeRTOS tasks

NoKey == ""

\* CjsonObjectFormatter, CjsonArrayFormatter
Leaf(key) == [what |-> "leaf", key |-> key]
Leaves(keys) == [i \in DOMAIN keys |-> Leaf(keys[i])]
Element(value) == <<Leaf(NoKey)>>

\* FieldFormatter, or an object a handler makes: its key, then what is inside.
Object(key, inside) == <<[what |-> "open", key |-> key]>> \o inside
                       \o <<[what |-> "close", key |-> key]>>

\* cJSON_AddArrayToObject
Array(key, inside) == <<[what |-> "array", key |-> key]>> \o inside
                      \o <<[what |-> "end", key |-> key]>>

\* FanoutFormatter; a formatter per element of a set, in some order.
Fanout(formatters) == FlattenSeq(formatters)
Each(S, Format(_)) == FlattenSeq([i \in DOMAIN SetToSeq(S) |-> Format(SetToSeq(S)[i])])

-----------------------------------------------------------------------------
(* Telemetry and registration *)

SystemFormatter ==
  Leaves(<<"system_memory_heap", "system_memory_heap_min", "system_memory_heap_internal",
           "system_reset_reason">>)

CounterFormatter == Leaves(<<"c_sys_uptime", "c_sys_lifetime">>)

ApNetworkFormatter ==
  Leaves(<<"network_ap_channel", "network_ap_cur_conn", "network_ap_max_conn">>)

StaNetworkFormatter ==
  Leaves(<<"network_sta_ssid", "network_sta_rssi", "network_sta_signal_strength",
           "network_sta_ip">>)

SoilAnalogSensorFormatter ==
  Leaves(<<"sensor_soil_raw", "sensor_soil_voltage", "sensor_soil_moisture",
           "sensor_soil_prev_status", "sensor_soil_prev_status_dur",
           "sensor_soil_curr_status", "sensor_soil_curr_status_dur",
           "sensor_soil_write_count", "sensor_soil_status_progress">>)

LdrAnalogSensorFormatter ==
  Leaves(<<"sensor_ldr_raw", "sensor_ldr_voltage", "sensor_ldr_lightness">>)

BME280SensorFormatter ==
  Leaves(<<"sensor_bme280_pressure", "sensor_bme280_temperature",
           "sensor_bme280_humidity">>)

SHT41SensorFormatter ==
  Leaves(<<"sensor_sht41_humidity", "sensor_sht41_temperature",
           "sensor_sht41_heating_count">>)

\* The key is the id of the sensor.
DS18B20SensorFormatter(id) == <<Leaf(id)>>

TimeFormatter == Leaves(<<"timestamp">>)

VersionFormatter == Leaves(<<"version_esp_idf">>)

\* Four pairs are added to those of VersionFormatter; the order is that of a hash table.
RegistrationFormatter ==
  VersionFormatter \o Leaves(<<"fw_version", "fw_name", "fw_description", "device_id">>)

TelemetryFormatter(network, sensors) ==
  Fanout(<<SystemFormatter, CounterFormatter, network>> \o sensors)

\* One access point or station, one sensor of each kind, and the DS18B20 sensors:
\* what SensorPipelines of a device add to the telemetry of DataPipeline.
Telemetry ==
  {TelemetryFormatter(network, sensors \o <<Each(SensorId, DS18B20SensorFormatter)>>) :
     network \in {ApNetworkFormatter, StaNetworkFormatter},
     sensors \in {<<SoilAnalogSensorFormatter, LdrAnalogSensorFormatter>>,
                  <<BME280SensorFormatter, SHT41SensorFormatter, TimeFormatter>>}}

-----------------------------------------------------------------------------
(* What the handlers format themselves *)

\* One object per task, the numbers of a core and of the run time where FreeRTOS has them.
FormatTaskState(t) ==
  Object(NoKey, Leaves(<<"name", "state", "number", "priority", "stack_free", "core_id",
                         "runtime_abs", "runtime_rel">>))
SystemStateFormatter == Array("tasks", Each(TaskId, FormatTaskState))

StaHandlerGet == Leaves(<<"retry", "ssid">>)
ApHandlerGet == Leaves(<<"channel", "max_conn">>)

\* AnalogConfigStoreHandler: one configuration, or all.
FormatAnalogConfig == Leaves(<<"min", "max", "oversampling", "bitwidth">>)
AnalogHandlerAll == Each(SensorId, LAMBDA id : Object(NoKey, <<Leaf("id")>> \o FormatAnalogConfig))

\* DS18B20Handler: what is on the bus and what is configured, or one configuration.
FormatSensor(id) == Object(NoKey, Leaves(<<"id", "configured">>))
FormatConfiguration == Leaves(<<"resolution", "serial_number">>)
ScanRomCode == Array("rom_codes", Each(SensorId, Element))
FormatSensors == Array("sensors", Each(SensorId, FormatSensor))
ScanFormat == ScanRomCode \o FormatSensors

\* A document of a client: formatters below a field of their own (FieldFormatter).
FieldFormatter == Object("device", RegistrationFormatter)

Documents == Telemetry \cup
  {RegistrationFormatter, SystemStateFormatter, StaHandlerGet, ApHandlerGet,
   FormatAnalogConfig, AnalogHandlerAll, FormatConfiguration, ScanFormat, FieldFormatter}
=============================================================================
