---------------------------- MODULE TimerUpdater ----------------------------
(***************************************************************************)
(* functions/timers/timer.go: the ticker of a timer, on top of the path of *)
(* a message.                                                              *)
(*                                                                         *)
(* The first start of a timer creates a ticker and a goroutine that lives  *)
(* as long as the process.  Once a minute, while the timer is on, it logs  *)
(* the time so far.  The goroutine does not take app.mu: it reads the      *)
(* fields of the timer one by one while a worker may be changing them, and *)
(* sets the timestamp of the function behind the back of fnct.Handle.      *)
(* When a row cannot be stored it ends, and the timer never gets another.  *)
(*                                                                         *)
(* So the onchange of a worker is three steps here: it stores the row, it  *)
(* looks whether the row is newer than the timestamp, and it sets the      *)
(* timestamp; and so is that of the goroutine.                             *)
(*                                                                         *)
(* A worker assigns the fields that the goroutine reads (state, startTime, *)
(* totalDuration) in one step, with the row before them.  A start changes  *)
(* only the first two and a stop only the first and third, and the         *)
(* goroutine reads each of the three on its own; what is lost is that it   *)
(* could log two rows, a minute apart, between a row of a stop and the     *)
(* assignments that follow it.                                             *)
(***************************************************************************)
EXTENDS FunctionRefinement

VARIABLES
    ticker,    \* valueUpdater and its goroutine, by function, or None
    onchange   \* what the worker's onchange has stored and not yet stamped, or None

timerVars == << vars, ticker, onchange >>

(* Where the goroutine is, when it last looked at the clock, and what it    *)
(* has read for the row it is going to log.                                 *)
Tickers ==
    [step  : {"waiting", "clock", "reading", "checking", "stamping", "ended"},
     last  : Nat,
     total : Int \cup {None},
     start : Nat \cup {None}]

(* The time of the row, and whether it was found to be newer *)
Unstamped == [time : Nat, newer : BOOLEAN]

ASSUME TimerAssumption == None \notin Unstamped

NewTicker == [step |-> "waiting", last |-> now, total |-> None, start |-> None]

Timers == OfType("timer")

At(f, step) == ticker[f] # None /\ ticker[f].step = step
-----------------------------------------------------------------------------
TimerInit ==
    /\ Init
    /\ ticker = [f \in Functions |-> None]
    /\ onchange = None

(* storage.Add *)
AddRow(w) ==
    /\ onchange = None
    /\ StoreRow(w)
    /\ onchange' = [time |-> Head(run[w].writes).time, newer |-> FALSE]
    /\ UNCHANGED << stamp, ticker >>

(* if t.valueUpdater == nil, after the last row of a start *)
CreatesTicker(w) ==
    /\ Fn(w) \in Timers
    /\ run[w].writes = << >>
    /\ mem[Fn(w)].state
    /\ ticker[Fn(w)] = None

(* onchange returns to the handler. *)
EndOnchange(w) ==
    /\ onchange' = None
    /\ ticker' = IF CreatesTicker(w) THEN [ticker EXCEPT ![Fn(w)] = NewTicker] ELSE ticker

(* if ts.After(f.Timestamp) *)
CheckStamp(w) ==
    /\ Handling(w)
    /\ onchange # None
    /\ ~onchange.newer
    /\ IF onchange.time > stamp[Fn(w)]
       THEN onchange' = [onchange EXCEPT !.newer = TRUE] /\ UNCHANGED ticker
       ELSE EndOnchange(w)
    /\ UNCHANGED vars

(* f.Timestamp = ts.UTC(), though it may be newer by now *)
SetStamp(w) ==
    /\ Handling(w)
    /\ onchange # None
    /\ onchange.newer
    /\ stamp' = [stamp EXCEPT ![Fn(w)] = onchange.time]
    /\ EndOnchange(w)
    /\ UNCHANGED << now, mu, pc, msg, run, mem, meta, history, registered, updates,
                    synced, deliveries, faults, restarts >>

(* The goroutine dies with the process. *)
TimerRestart ==
    /\ Restart
    /\ ticker' = [f \in Functions |-> None]
    /\ onchange' = None

(* Mutant: the goroutine ends when it finds the timer off. *)
FireWhileOn(f) ==
    /\ At(f, "waiting")
    /\ now > ticker[f].last
    /\ ticker' = [ticker EXCEPT ![f].step = IF mem[f].state THEN "clock" ELSE "ended",
                                ![f].last = now]
    /\ UNCHANGED vars

(* A tick: there is nothing to do while the timer is off. *)
Fire(f) ==
    /\ At(f, "waiting")
    /\ now > ticker[f].last
    /\ ticker' = [ticker EXCEPT ![f].step = IF mem[f].state THEN "clock" ELSE "waiting",
                                ![f].last = now]
    /\ UNCHANGED vars

(* now := time.Now().UTC() *)
ReadClock(f) ==
    /\ At(f, "clock")
    /\ ticker' = [ticker EXCEPT ![f].step = "reading", ![f].last = now]
    /\ UNCHANGED vars

(* t.TotalDuration + now.Sub(t.StartTime): either one may be read first *)
ReadTotal(f) ==
    /\ At(f, "reading")
    /\ ticker[f].total = None
    /\ ticker' = [ticker EXCEPT ![f].total = mem[f].totalDuration]
    /\ UNCHANGED vars

ReadStart(f) ==
    /\ At(f, "reading")
    /\ ticker[f].start = None
    /\ ticker' = [ticker EXCEPT ![f].start = mem[f].startTime]
    /\ UNCHANGED vars

TimeRow(f) ==
    [label |-> "time", value |-> ticker[f].total + (ticker[f].last - ticker[f].start),
     time  |-> ticker[f].last]

ReadAll(f) ==
    /\ At(f, "reading")
    /\ None \notin {ticker[f].total, ticker[f].start}

(* Mutant: what was read is kept for the next row. *)
ResetStep(f, step) == ticker' = [ticker EXCEPT ![f].step = step]

Reset(f, step) ==
    ticker' = [ticker EXCEPT ![f].step = step, ![f].total = None, ![f].start = None]

(* Mutant: the time so far is added to the total at every tick. *)
LogIntoTotal(f) ==
    /\ ReadAll(f)
    /\ f \in registered
    /\ Stored(f, TimeRow(f))
    /\ mem' = [mem EXCEPT ![f].totalDuration = TimeRow(f).value]
    /\ Reset(f, "waiting")
    /\ UNCHANGED << now, mu, pc, msg, run, stamp, meta, registered, updates, synced,
                    deliveries, faults, restarts >>

(* onchange: the row, *)
Log(f) ==
    /\ ReadAll(f)
    /\ f \in registered
    /\ Stored(f, TimeRow(f))
    /\ Reset(f, "checking")
    /\ UNCHANGED << now, process, registered, updates, synced, deliveries, faults, restarts >>

(* the comparison, *)
Check(f) ==
    /\ At(f, "checking")
    /\ ticker' = [ticker EXCEPT ![f].step =
                     IF ticker[f].last > stamp[f] THEN "stamping" ELSE "waiting"]
    /\ UNCHANGED vars

(* Mutant: the clock is looked at once more. *)
StampWithClock(f) ==
    /\ At(f, "stamping")
    /\ stamp' = [stamp EXCEPT ![f] = now]
    /\ ticker' = [ticker EXCEPT ![f].step = "waiting"]
    /\ UNCHANGED << now, mu, pc, msg, run, mem, meta, history, registered, updates,
                    synced, deliveries, faults, restarts >>

(* and the timestamp: by now it may be newer, it is set all the same. *)
Stamp(f) ==
    /\ At(f, "stamping")
    /\ stamp' = [stamp EXCEPT ![f] = ticker[f].last]
    /\ ticker' = [ticker EXCEPT ![f].step = "waiting"]
    /\ UNCHANGED << now, mu, pc, msg, run, mem, meta, history, registered, updates,
                    synced, deliveries, faults, restarts >>

LogFails(f) ==
    /\ ReadAll(f)
    /\ AddFails(f, TimeRow(f))
    /\ Reset(f, "ended")
    /\ UNCHANGED << now, process, registered, updates, synced, deliveries, restarts >>
-----------------------------------------------------------------------------
Updater(f) ==
    /\ \/ Fire(f)
       \/ ReadClock(f)
       \/ ReadTotal(f)
       \/ ReadStart(f)
       \/ Log(f)
       \/ Check(f)
       \/ Stamp(f)
       \/ LogFails(f)
    /\ UNCHANGED onchange

(* The steps of the engine that concern neither the ticker nor onchange. *)
Elsewhere(w) ==
    \/ Receive(w)
    \/ Lock(w)
    \/ /\ onchange = None
       /\ \/ StoreFails(w)
          \/ ReturnError(w)
          \/ ReturnSilently(w)
          \/ Publish(w)
          \/ PublishFails(w)

TimerNext ==
    \/ Tick /\ UNCHANGED << ticker, onchange >>
    \/ TimerRestart
    \/ \E w \in Workers :
          \/ AddRow(w) \/ CheckStamp(w) \/ SetStamp(w)
          \/ Elsewhere(w) /\ UNCHANGED << ticker, onchange >>
    \/ \E f \in Timers : Updater(f)

TimerSpec == TimerInit /\ [][TimerNext]_timerVars

(* The goroutine is scheduled, and the database answers it. *)
FairTimerSpec == TimerSpec /\ \A f \in Timers : WF_timerVars(Updater(f))
-----------------------------------------------------------------------------
(* Only a timer has a ticker; what its goroutine has read of the timer is   *)
(* forgotten with the row it was read for; and the timestamp is only set    *)
(* behind a row that is in the history, by the goroutine and by the worker  *)
(* (timer.go: the loop over the ticks; functions.go: onchange).             *)
TickerOK ==
    /\ ticker \in [Functions -> {None} \cup Tickers]
    /\ onchange \in {None} \cup Unstamped
    /\ \A w \in Workers :
          Handling(w) /\ onchange # None =>
              \E i \in DOMAIN history[Fn(w)] : history[Fn(w)][i].time = onchange.time
    /\ mu = None => onchange = None
    /\ \A f \in Functions \ Timers : ticker[f] = None
    /\ \A f \in Timers :
          ticker[f] # None /\ ~At(f, "reading") =>
              ticker[f].total = None /\ ticker[f].start = None
    /\ \A f \in Timers :
          At(f, "checking") \/ At(f, "stamping") =>
              \E i \in DOMAIN history[f] :
                  history[f][i].label = "time" /\ history[f][i].time = ticker[f].last

(* Every round of a timer is logged while it runs, not only the first: from *)
(* a moment when the timer is on, nobody is handling a message for it and   *)
(* the ticker is due, a row of that moment or later follows, unless the     *)
(* timer is stopped first or something has failed.                          *)
RunningIsLogged ==
    \A f \in Timers, t \in 1 .. MaxTime :
        /\ mem[f].state
        /\ IdleFunction(f)
        /\ now = t
        /\ ticker[f] = None \/ ticker[f].last < t
        ~>
        \/ \E i \in DOMAIN history[f] : history[f][i].label = "time" /\ history[f][i].time >= t
        \/ ~mem[f].state
        \/ ~Undisturbed
=============================================================================
