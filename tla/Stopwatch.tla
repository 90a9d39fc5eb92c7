----------------------------- MODULE Stopwatch -----------------------------
(***************************************************************************)
(* functions/stopwatch/stopwatch.go: how long a digital input is on, each  *)
(* time and altogether.  Durations are whole seconds.                      *)
(***************************************************************************)
EXTENDS FunctionRun

StopwatchMem ==
    [state          : BOOLEAN,
     startTime      : Nat,
     stopTime       : Nat \cup {None},
     duration       : Int \cup {None},
     cumulativeTime : Int,
     count          : Int]

StopwatchNew ==
    [state |-> FALSE, startTime |-> ZeroTime, stopTime |-> None,
     duration |-> None, cumulativeTime |-> 0, count |-> 0]

(* Mutant: the stop time and duration of the last round stay. *)
StartedOver(s, t) == [s EXCEPT !.state = TRUE, !.startTime = t]

(* Off -> On: a new round, without the stop time and duration of the last. *)
Started(s, t) ==
    [s EXCEPT !.state = TRUE, !.startTime = t, !.stopTime = None, !.duration = None]

(* On -> On: the duration so far. *)
Running(s, t) == [s EXCEPT !.duration = t - s.startTime]

(* Mutant: the duration so far is added, as an On -> On message left it. *)
StoppedEarly(s, t) ==
    [s EXCEPT !.state = FALSE, !.stopTime = t, !.duration = t - s.startTime,
              !.cumulativeTime = @ + (IF s.duration = None THEN t - s.startTime ELSE s.duration)]

(* On -> Off: the duration of the round, added to the cumulative time. *)
Stopped(s, t) ==
    [s EXCEPT !.state = FALSE, !.stopTime = t, !.duration = t - s.startTime,
              !.cumulativeTime = @ + (t - s.startTime)]

(* The sensor's own count, else one more for every message that is handled. *)
Recount(s, m) ==
    [s EXCEPT !.count = IF m.value[DigitalInputCounter] = None THEN @ + 1 ELSE Truncate(m.value[DigitalInputCounter])]

(* The rows of one call: the last one before the count leaves the new count *)
(* behind, and the count is stored after that.                              *)
StopwatchRows(new, m, t) ==
    LET counted == Recount(new, m)
        countRow == OnChange("count", counted.count, t, counted)
        state(v, then) == OnChange("state", v, t, then)
        duration(then) == OnChange("duration", new.duration, t, then)
    IN  CASE new.duration = None ->
               << state(0, new), state(1, counted), countRow >>
          [] new.duration # None /\ new.state ->
               << duration(counted), countRow >>
          [] new.duration # None /\ ~new.state ->
               << state(1, new), state(0, new), duration(new),
                  OnChange("cumulativeTime", new.cumulativeTime, t, counted), countRow >>

StopwatchHandle(s, m, now) ==
    LET t   == IF m.time = ZeroTime THEN now ELSE m.time
        new == CASE m.state = TRUE  /\ ~s.state -> Started(s, t)
                 [] m.state = TRUE  /\ s.state  -> Running(s, t)
                 [] m.state = FALSE /\ s.state  -> Stopped(s, t)
                 [] m.state = FALSE /\ ~s.state -> s
    IN  IF m.obj # "digitalinput" \/ m.state = None THEN Rejected(s)
        ELSE IF ~m.state /\ ~s.state THEN Unchanged(s)
        ELSE Run(new, StopwatchRows(new, m, t), "changed", "stop")
=============================================================================
