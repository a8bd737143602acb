------------------------------- MODULE MCSensors -------------------------------
(***************************************************************************)
(* The sensors, their buses and the functions they rely on share no state  *)
(* and are checked in one run: a behaviour is about one of them, part, and *)
(* the others rest in one of their initial states.                         *)
(***************************************************************************)
EXTENDS Ds18b20, AnalogConfig, AnalogSensors, RelaySensor, Sht41, Bme280, OneWireBus,
        Algorithms

VARIABLE part

MCBuiltin == [min |-> 2, max |-> 10, count |-> 1]
\* All readings of a temperature that is not negative; 65374 is -10.125 degrees.
MCRawTemperature == 0 .. 2047 \cup {65374}
MCWord == {<<>>, <<"a">>, <<"b">>, <<"a", "b">>}
MCMessage == {<<1, 90>>, <<255, 0>>}

Rests(p, atRest) == part = p \/ atRest

Init ==
  /\ part \in {"ds18b20", "config", "soil", "relay", "sht41", "bme280", "bus", "algorithms"}
  /\ DsInit /\ Rests("ds18b20", plugged = {} /\ scratch = [d \in Device |-> 9])
  /\ AnalogInit /\ RelayInit /\ ShtInit /\ BusInit
  /\ SoilInit /\ Rests("soil", range = [min |-> 2, max |-> 10])
  /\ BmeInit /\ Rests("bme280", mode = "Sleep")
  /\ AlgInit /\ Rests("algorithms", sample = [kind |-> "temperature", raw |-> 0, bits |-> 9])

Does(p, step_, others) == part = p /\ step_ /\ UNCHANGED <<part, others>>

Next ==
  \/ Does("ds18b20", DsNext,
          <<analogVars, soilVars, relayVars, shtVars, bmeVars, busVars, algVars>>)
  \/ Does("config", AnalogNext,
          <<dsVars, soilVars, relayVars, shtVars, bmeVars, busVars, algVars>>)
  \/ Does("soil", SoilNext,
          <<dsVars, analogVars, relayVars, shtVars, bmeVars, busVars, algVars>>)
  \/ Does("relay", RelayNext,
          <<dsVars, analogVars, soilVars, shtVars, bmeVars, busVars, algVars>>)
  \/ Does("sht41", ShtNext,
          <<dsVars, analogVars, soilVars, relayVars, bmeVars, busVars, algVars>>)
  \/ Does("bme280", BmeNext,
          <<dsVars, analogVars, soilVars, relayVars, shtVars, busVars, algVars>>)
  \/ Does("bus", BusNext,
          <<dsVars, analogVars, soilVars, relayVars, shtVars, bmeVars, algVars>>)
  \/ Does("algorithms", AlgNext,
          <<dsVars, analogVars, soilVars, relayVars, shtVars, bmeVars, busVars>>)

vars == <<part, dsVars, analogVars, soilVars, relayVars, shtVars, bmeVars, busVars, algVars>>

Spec == Init /\ [][Next]_vars
=============================================================================
