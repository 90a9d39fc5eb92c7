----------------------------- MODULE AirQuality -----------------------------
(***************************************************************************)
(* functions/airquality/airquality.go: a temperature and six particulates, *)
(* each the value of the last message that carried it.                     *)
(***************************************************************************)
EXTENDS FunctionRun

(* The labels in the order they are handled, and the resource of each. *)
AirLabels == << "temperature", "pm1", "pm10", "pm25", "no", "no2", "co2" >>
AirResource == << "5700", "5", "1", "3", "19", "15", "17" >>

AirQualityMem == [values : [1 .. 7 -> Int], timestamp : Nat]

AirQualityNew == [values |-> [i \in 1 .. 7 |-> 0], timestamp |-> ZeroTime]

Measured(s, m, i) ==
    IF m.value[AirResource[i]] = None THEN s.values[i] ELSE m.value[AirResource[i]]

Differs(s, m, i) == Measured(s, m, i) # s.values[i]

(* The value i is stored if it differs; the timestamp is set after the last *)
(* of the rows. The values in between are assigned one by one; here they    *)
(* are all assigned before the first row.                                   *)
AirRow(s, m, i, now) ==
    LET values == [k \in 1 .. 7 |-> Measured(s, m, k)]
        last   == \A k \in i + 1 .. 7 : ~Differs(s, m, k)
    IN  IF Differs(s, m, i)
        THEN << OnChange(AirLabels[i], values[i], m.time,
                         [values |-> values,
                          timestamp |-> IF last THEN now ELSE s.timestamp]) >>
        ELSE << >>

AirRows(s, m, now) ==
    LET row(i) == AirRow(s, m, i, now)
    IN  row(1) \o row(2) \o row(3) \o row(4) \o row(5) \o row(6) \o row(7)

(* Mutant: hasChanged is only set for the temperature. *)
TemperatureHasChanged(s, m) == Differs(s, m, 1)

AirHasChanged(s, m) == \E i \in 1 .. 7 : Differs(s, m, i)

AirQualityHandle(s, m, now) ==
    IF m.obj # "airquality" THEN Rejected(s)
    ELSE Run([s EXCEPT !.values = [i \in 1 .. 7 |-> Measured(s, m, i)]],
             AirRows(s, m, now),
             IF AirHasChanged(s, m) THEN "changed" ELSE "unchanged", "join")
=============================================================================
