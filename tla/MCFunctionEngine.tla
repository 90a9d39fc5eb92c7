-------------------------- MODULE MCFunctionEngine --------------------------
(***************************************************************************)
(* Small instances of FunctionEngine: the functions, their types and the   *)
(* messages of each run.                                                   *)
(***************************************************************************)
EXTENDS FunctionRefinement, TLC

CONSTANTS f1, f2, f3, w1, w2

NoMeta == [k \in MetaKeys |-> None]
WithMeta(v) == [k \in MetaKeys |-> v]

NoValues == [r \in Resources |-> None]

(* A digital input at time t. *)
Input(f, t, on) ==
    [fn |-> f, accepted |-> t, meta |-> NoMeta, obj |-> "digitalinput",
     state |-> on, value |-> NoValues, time |-> t]

Inputs(f, times) == {Input(f, t, on) : t \in times, on \in BOOLEAN}

(* A measurement: an object with values. *)
Measure(f, t, obj, values) ==
    [Input(f, t, None) EXCEPT !.obj = obj, !.value = values @@ NoValues]

NotAnInput(f, t) == [Input(f, t, None) EXCEPT !.obj = "other"]
-----------------------------------------------------------------------------
(* engine: a presence and a counter that is published for every message *)
EngineTypes == f1 :> "presence" @@ f2 :> "counter"

EngineMessages ==
    { [Input(f1, 1, TRUE) EXCEPT !.meta = WithMeta("v")],
      Input(f1, 2, FALSE),
      Input(f2, 1, TRUE),
      [Input(f2, 2, FALSE) EXCEPT !.value[DigitalInputCounter] = 21],
      NotAnInput(f2, 1),
      NotAnInput(None, 1) }
-----------------------------------------------------------------------------
(* liveness: a presence and messages that change it *)
LivenessTypes == f1 :> "presence"

LivenessMessages == Inputs(f1, {1}) \cup {NotAnInput(None, 1)}

(* first update: a presence that hears of its tenant with its first message, *)
(* which a sensor at rest sends                                              *)
FirstUpdateMessages ==
    {[Input(f1, 1, on) EXCEPT !.meta = WithMeta("v")] : on \in BOOLEAN}
-----------------------------------------------------------------------------
(* recovery: a presence that goes on and off, and a level that is measured *)
(* both ways, by two sensors that differ by half a millimetre              *)
RecoveryTypes == f1 :> "presence" @@ f2 :> "level"

RecoveryLevelConfig ==
    [maxDistance |-> 8000, maxLevel |-> 5000, meanLevel |-> 2000, offsetLevel |-> 0,
     cosAlpha |-> 866]

RecoveryMessages ==
    { Input(f1, 1, FALSE), Input(f1, 2, FALSE),
      [Input(f1, 1, TRUE) EXCEPT !.obj = "presence"],
      Measure(f2, 1, "distance", SensorValue :> 4200),
      Measure(f2, 2, "distance", SensorValue :> 4160),
      Measure(f2, 2, "fillinglevel", ActualFillingLevel :> 3301 @@ HighThreshold :> 6000),
      Measure(f2, 2, "fillinglevel", ActualFillingPercentage :> 140000
                                     @@ ActualFillingLevel :> 3302) }
-----------------------------------------------------------------------------
(* inputs: the functions that count, some of whose messages bring a count, *)
(* and a stopwatch: rounds in any order, and a message without a time      *)
InputsTypes == f1 :> "counter" @@ f2 :> "digitalinput" @@ f3 :> "stopwatch"

InputsMessages ==
    UNION {Inputs(f, {1}) : f \in {f1, f2}}
    \cup {[Input(f, 1, TRUE) EXCEPT !.value[DigitalInputCounter] = 21] : f \in {f1, f2}}
    \cup {[Input(f1, 1, TRUE) EXCEPT !.state = None]}
    \cup Inputs(f3, 1 .. 2)
    \cup {[Input(f3, 1, TRUE) EXCEPT !.time = ZeroTime,
                                      !.value[DigitalInputCounter] = 29],
          NotAnInput(f3, 1)}
-----------------------------------------------------------------------------
(* measurements: the functions that keep several values, and temperatures  *)
(* in any order, two that round to the same tenth and one from the future  *)
MeasurementsTypes == f1 :> "building" @@ f2 :> "airquality" @@ f3 :> "waterquality"

MeasurementsMessages ==
    { Measure(f1, 1, "power", SensorValue :> 8),
      Measure(f1, 2, "power", SensorValue :> 16),
      Measure(f1, 2, "power", SensorValue :> 25),
      Measure(f1, 2, "energy", SensorValue :> 25),
      Measure(f2, 1, "airquality", "5700" :> 21 @@ "17" :> 400),
      Measure(f2, 2, "airquality", "5700" :> 21 @@ "3" :> 7) }
    \cup {[Measure(f3, t, "temperature", SensorValue :> v) EXCEPT !.accepted = 1] :
             t \in {1, 2, 4}, v \in {104, 96, -15}}
-----------------------------------------------------------------------------
DefaultLevelConfig ==
    [maxDistance |-> 0, maxLevel |-> 0, meanLevel |-> 0, offsetLevel |-> 0,
     cosAlpha |-> 1000]
=============================================================================
