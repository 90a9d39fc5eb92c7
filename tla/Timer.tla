------------------------------- MODULE Timer -------------------------------
(***************************************************************************)
(* functions/timers/timer.go: how long a digital input is on, without the  *)
(* ticker that logs a running timer (see TimerUpdater).  Durations are     *)
(* whole seconds.                                                          *)
(***************************************************************************)
EXTENDS FunctionRun

TimerMem ==
    [state         : BOOLEAN,
     startTime     : Nat,
     endTime       : Nat \cup {None},
     duration      : Int \cup {None},
     totalDuration : Int]

TimerNew ==
    [state |-> FALSE, startTime |-> ZeroTime, endTime |-> None, duration |-> None,
     totalDuration |-> 0]

(* Mutant: "to ensure we don't send out the wrong ones later" left out *)
TimerStartedOver(s, t) == [s EXCEPT !.state = TRUE, !.startTime = t]

TimerStarted(s, t) ==
    [s EXCEPT !.state = TRUE, !.startTime = t, !.endTime = None, !.duration = None]

(* Mutant: the total is that of the last round. *)
TimerStoppedAnew(s, t) ==
    [s EXCEPT !.state = FALSE, !.endTime = t, !.duration = t - s.startTime,
              !.totalDuration = t - s.startTime]

TimerStopped(s, t) ==
    [s EXCEPT !.state = FALSE, !.endTime = t, !.duration = t - s.startTime,
              !.totalDuration = @ + (t - s.startTime)]

(* Both kinds of change log a square wave and the total. A start is taken   *)
(* before the first row, a stop after the second.                           *)
TimerRows(s, new, t) ==
    LET before == IF new.state THEN new ELSE s
    IN  << OnChange("state", Number(~new.state), t, before),
           OnChange("state", Number(new.state), t, new),
           OnChange("time", new.totalDuration, t, new) >>

TimerHandle(s, m) ==
    LET t   == m.time
        new == IF m.state = TRUE THEN TimerStarted(s, t) ELSE TimerStopped(s, t)
    IN  IF m.obj # "digitalinput" THEN Rejected(s)
        ELSE IF m.state \in {None, s.state} THEN Unchanged(s)
        ELSE Run(IF new.state THEN new ELSE s, TimerRows(s, new, t), "changed", "stop")
=============================================================================
