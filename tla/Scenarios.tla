----------------------------- MODULE Scenarios ------------------------------
(***************************************************************************)
(* The catalogue of appliance scenarios (appliance_scenarios.py): what is  *)
(* said about a device, given its use today and the conditions of its      *)
(* room.  An alert is a priority and a scenario; its text is left out.     *)
(*                                                                         *)
(* The use d is a record: N cycles, wh used today, minutes active, and     *)
(* the fields the callers fill with constants.  Energy is in Wh, factors   *)
(* in percent, and eaec, the energy per cycle, is compared as a product.   *)
(***************************************************************************)
EXTENDS Integers

\* The second names of the catalogue.
Canonical(key) ==
    CASE key = "washing_machine" -> "washingmachine"
      [] key = "coffee_machine"  -> "coffeemachine"
      [] key = "air_fryer"       -> "airfryer"
      [] key = "gaming_console"  -> "xbox"
      [] key = "waterpurifier"   -> "water_purifier"
      [] OTHER -> key

-----------------------------------------------------------------------------
(* Environmental factors *)

TemperatureFactor(key, t) ==
    CASE key = "kettle" /\ t < 10 -> 115
      [] key = "kettle" /\ t \in 10..14 -> 110
      [] key = "kettle" /\ t > 25 -> 95
      [] key = "dryer" /\ t < 15 -> 108
      [] key = "dryer" /\ t \in 15..17 -> 105
      [] key = "xbox" /\ t > 28 -> 110
      [] key = "xbox" /\ t \in 26..28 -> 105
      [] key = "washingmachine" /\ t < 10 -> 105
      [] OTHER -> 100

HumidityFactor(key, h) ==
    CASE key \notin {"dryer", "washingmachine"} -> 100
      [] h > 80 -> 120
      [] h \in 71..80 -> 110
      [] h \in 61..70 -> 105
      [] OTHER -> 100

-----------------------------------------------------------------------------
(* The scenarios: <<priority, scenario, condition>> *)

PerCycle(d, limit) == d.N > 0 /\ d.wh > limit * d.N
Peak(d) == d.isPeakTime /\ d.N > 0

Dryer(d) ==
    {<<"critical", "High_energy_per_cycle", PerCycle(d, 4500)>>,
     <<"warning", "Daily_consumption_high", d.N > 0 /\ d.wh > 7000>>,
     <<"notice", "Humidity_spike_adjustment", d.N > 0 /\ d.fH > 115>>,
     <<"caution", "Multiple_cycles_per_day", d.N > 2>>}

\* Mutant of Kettle: its critical limit is one use too high.
KettleGap(d) ==
    {<<"critical", "Excessive_daily_usage", d.N > 13>>,
     <<"warning", "High_cycles_moderate_use", d.N \in 9..12>>,
     <<"notice", "Cold_weather_energy_increase", d.fT > 110 /\ d.N > 0>>,
     <<"caution", "Late_night_usage", d.lateNightHours > 0>>}

Kettle(d) ==
    {<<"critical", "Excessive_daily_usage", d.N > 12>>,
     <<"warning", "High_cycles_moderate_use", d.N \in 9..12>>,
     <<"notice", "Cold_weather_energy_increase", d.fT > 110 /\ d.N > 0>>,
     <<"caution", "Late_night_usage", d.lateNightHours > 0>>}

Microwave(d) ==
    {<<"critical", "Extended_continuous_use", d.minutes > 30 /\ d.N > 0>>,
     <<"warning", "High_daily_energy", d.N > 0 /\ d.wh > 800>>,
     <<"caution", "Peak_time_usage", Peak(d)>>}

WashingMachine(d) ==
    {<<"critical", "High_energy_per_wash", PerCycle(d, 2000)>>,
     <<"warning", "Multiple_washes_per_day", d.N > 2>>,
     <<"notice", "High_humidity", d.fH > 110 /\ d.N > 0>>,
     <<"caution", "Peak_tariff_wash", Peak(d)>>}

Dishwasher(d) ==
    {<<"critical", "Not_full", PerCycle(d, 2500)>>,
     <<"warning", "Multiple_runs_per_day", d.N > 1>>,
     <<"caution", "Peak_time_run", Peak(d)>>}

CoffeeMachine(d) ==
    {<<"critical", "Standby_drain_detected", d.standbyPower > 8 /\ d.standbyTime > 60>>,
     <<"warning", "High_daily_usage", d.N > 8>>,
     <<"caution", "Keep_warm_mode_overuse", d.keepWarmTime > 30>>}

AirFryer(d) ==
    {<<"critical", "Extended_session_energy", PerCycle(d, 2000)>>,
     <<"warning", "Multiple_sessions", d.N > 3>>,
     <<"caution", "Peak_time_cooking", Peak(d)>>}

Toaster(d) ==
    {<<"warning", "High_daily_cycles", d.N > 10>>,
     <<"caution", "Short_use_pattern", d.shortUseCount > 5>>}

Cooker(d) ==
    {<<"critical", "Very_high_energy_session", PerCycle(d, 3000)>>,
     <<"warning", "Extended_cook_time", d.minutes > 90 /\ d.N > 0>>,
     <<"caution", "Peak_time_cooking", Peak(d)>>}

Xbox(d) ==
    {<<"critical", "Extended_gaming_session", d.minutes > 240 /\ d.N > 0>>,
     <<"warning", "High_temperature_effect", d.fT > 108 /\ d.N > 0>>,
     <<"notice", "Standby_power", d.standbyPower > 5 /\ d.standbyTime > 120>>,
     <<"caution", "Late_night_gaming", d.lateNightHours > 1>>}

WaterPurifier(d) ==
    {<<"critical", "Abnormally_high_energy", PerCycle(d, 1000)>>,
     <<"warning", "Continuous_operation", d.minutes > 120 /\ d.N > 0>>}

APPLIANCE_SCENARIOS(key, d) ==
    CASE key = "dryer" -> Dryer(d)
      [] key = "kettle" -> Kettle(d)
      [] key = "microwave" -> Microwave(d)
      [] key = "washingmachine" -> WashingMachine(d)
      [] key = "dishwasher" -> Dishwasher(d)
      [] key = "coffeemachine" -> CoffeeMachine(d)
      [] key = "airfryer" -> AirFryer(d)
      [] key = "toaster" -> Toaster(d)
      [] key = "cooker" -> Cooker(d)
      [] key = "xbox" -> Xbox(d)
      [] key = "water_purifier" -> WaterPurifier(d)
      [] OTHER -> {}      \* an appliance without scenarios

\* generate_alerts
Alerts(key, d) ==
    {<<s[1], s[2]>> : s \in {t \in APPLIANCE_SCENARIOS(Canonical(key), d) : t[3]}}

\* calculate_optimization, as far as the alerts go.
Optimized(key, temperature, humidity, usage) ==
    Alerts(key, [N |-> usage.N, wh |-> usage.wh, minutes |-> usage.minutes,
                 fT |-> TemperatureFactor(Canonical(key), temperature),
                 fH |-> HumidityFactor(Canonical(key), humidity),
                 standbyTime |-> 0, standbyPower |-> 0, lateNightHours |-> 0,
                 keepWarmTime |-> 0, shortUseCount |-> 0, isPeakTime |-> usage.isPeakTime])
=============================================================================
