------------------------------ MODULE Presence ------------------------------
(***************************************************************************)
(* functions/presences/presences.go: presence or absence, from a digital   *)
(* input or from a presence sensor.                                        *)
(***************************************************************************)
EXTENDS FunctionRun

PresenceMem == [state : BOOLEAN]

(* math.Abs(v) >= 0.001; only whole values are ever stored *)
PresenceNew(v) == [state |-> v # 0]

(* Mutant: the rows are stored under the name of the object. *)
NamedByObject(s, t) ==
    << OnChange("digitalinput", Number(~s.state), t, s),
       OnChange("digitalinput", Number(s.state), t, s) >>

(* Both rows of a change have the same time: a square wave for the charts. *)
SquareWave(s, t) ==
    << OnChange("presence", Number(~s.state), t, s),
       OnChange("presence", Number(s.state), t, s) >>

PresenceHandle(s, m) ==
    IF m.obj \notin {"digitalinput", "presence"} THEN Rejected(s)
    ELSE IF m.state \in {None, s.state} THEN Unchanged(s)
    ELSE LET new == [state |-> m.state]
         IN  Run(new, SquareWave(new, m.time), "changed", "stop")
=============================================================================
