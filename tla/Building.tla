------------------------------ MODULE Building ------------------------------
(***************************************************************************)
(* functions/buildings/buildings.go: the power and energy of a building.   *)
(* A number is a ten-thousandth of a kW in the function and a tenth of a W *)
(* in the message, of a kWh and 360 J for energy: dividing by 1000, or by  *)
(* 3600000, changes the unit and leaves the number.                        *)
(***************************************************************************)
EXTENDS FunctionRun

BuildingMem == [power : Int, energy : Int]

BuildingNew == [power |-> 0, energy |-> 0]

(* Mutant: only a rise is a change. *)
HasRisen(previous, new) == new - previous >= 10

(* math.Abs(new - previous) >= 0.001, against the value of the last message *)
(* and not against the last one that was announced                          *)
HasChanged(previous, new) == Abs(new - previous) >= 10

BuildingHandle(s, m) ==
    LET v    == m.value[SensorValue]
        used == [power  |-> IF m.obj = "power" THEN v ELSE s.power,
                 energy |-> IF m.obj = "energy" THEN v ELSE s.energy]
        row  == IF m.obj = "power" THEN OnChange("power", used.power, m.time, used)
                                   ELSE OnChange("energy", used.energy, m.time, used)
    IN  IF m.obj \notin {"power", "energy"} THEN Rejected(s)
        ELSE IF v = None THEN Unchanged(s)
        ELSE IF HasChanged(s.power, used.power) \/ HasChanged(s.energy, used.energy)
             THEN Run(used, << row >>, "changed", "stop")
        ELSE Unchanged(used)
=============================================================================
