---------------------------- MODULE WaterQuality ----------------------------
(***************************************************************************)
(* functions/waterqualities/waterqualities.go: the newest temperature, *)
(* in tenths of a degree; the sensor's values are in hundredths.           *)
(***************************************************************************)
EXTENDS FunctionRun

CONSTANT ClockSkew   \* how far in the future a measurement may be: 5 seconds

ASSUME ClockSkewAssumption == ClockSkew \in Nat

WaterQualityMem == [temperature : Int, timestamp : Nat]

WaterQualityNew == [temperature |-> 0, timestamp |-> ZeroTime]

(* Mutant: the newest to arrive counts. *)
Latest(s, m) == m.value[SensorValue] # None

(* ts.After(wq.Timestamp): only a newer measurement counts. *)
Newer(s, m) == m.value[SensorValue] # None /\ m.time > s.timestamp

BadTimestamp(m, now) == m.value[SensorValue] # None /\ m.time > now + ClockSkew

WaterQualityHandle(s, m, now) ==
    LET new == [temperature |-> Round(m.value[SensorValue], 10), timestamp |-> m.time]
    IN  IF m.obj # "temperature" \/ BadTimestamp(m, now) THEN Rejected(s)
        ELSE IF ~Newer(s, m) THEN Unchanged(s)
        ELSE IF new.temperature = s.temperature THEN Unchanged(new)
        ELSE Run(new, << OnChange("temperature", new.temperature, m.time, new) >>,
                 "changed", "stop")
=============================================================================
