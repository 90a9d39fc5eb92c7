----------------------------- MODULE TimerProofs -----------------------------
(***************************************************************************)
(* The ticker of a timer runs beside the workers and takes no mutex.  Its  *)
(* own fields stay in order, and what is proved of the workers stays true: *)
(* a step of a goroutine leaves everything alone but the history, the      *)
(* timestamp and the count of the faults.                                  *)
(***************************************************************************)
EXTENDS TimerUpdater, FunctionViewProofs

(* A step is one of the engine, one of a goroutine, or the last of the      *)
(* three that a worker's onchange takes.                                    *)
LEMMA TimerSteps ==
    ASSUME [TimerNext]_timerVars
    PROVE  \/ [AnyStep]_vars
           \/ \E f \in Timers : Updater(f)
           \/ \E w \in Workers : SetStamp(w)
<1>1. ASSUME NEW w \in Workers, AddRow(w)
      PROVE  AnyStep
  BY <1>1 DEF AddRow, AnyStep
<1>2. ASSUME NEW w \in Workers, Elsewhere(w)
      PROVE  AnyStep
  BY <1>2 DEF Elsewhere, AnyStep, Next, Proceed
<1>3. ASSUME NEW w \in Workers, CheckStamp(w)
      PROVE  UNCHANGED vars
  BY <1>3 DEF CheckStamp
<1>4. CASE Tick \/ TimerRestart
  BY <1>4 DEF TimerRestart, AnyStep, Next
<1>5. CASE UNCHANGED timerVars
  BY <1>5 DEF timerVars
<1> QED
  BY <1>1, <1>2, <1>3, <1>4, <1>5 DEF TimerNext

(* A goroutine of a ticker writes the history, a timestamp and a fault,     *)
(* nothing else.                                                            *)
LEMMA UpdaterKeeps ==
    ASSUME NEW f \in Timers, Updater(f)
    PROVE  UNCHANGED << now, mu, pc, msg, run, mem, meta, registered, updates, synced,
                        deliveries, restarts >>
  BY DEF Updater, Fire, ReadClock, ReadTotal, ReadStart, Log, Check, Stamp, LogFails, vars, process

(* A timer is a function of that type. *)
LEMMA TimedFields ==
    ASSUME TypeOK, NEW f \in Timers
    PROVE  /\ f \in Functions
           /\ mem[f].totalDuration \in Int /\ mem[f].startTime \in Nat
<1>1. f \in Functions /\ Type[f] = "timer"
  BY DEF Timers, OfType
<1>2. mem[f] \in TimerMem
  BY <1>1 DEF TypeOK, Memory
<1>3. \A s \in TimerMem : s.totalDuration \in Int /\ s.startTime \in Nat
  BY DEF TimerMem
<1> QED
  BY <1>1, <1>2, <1>3

(* The row of a goroutine that has read everything. *)
LEMMA TimeRowTyped ==
    ASSUME TickerOK, NEW f \in Timers, ReadAll(f)
    PROVE  /\ TimeRow(f) \in Row
           /\ TimeRow(f).label = "time" /\ TimeRow(f).time = ticker[f].last
<1>1. ticker[f] \in Tickers
  BY DEF TickerOK, Timers, OfType, ReadAll, At
<1>2. ticker[f].total \in Int /\ ticker[f].start \in Nat /\ ticker[f].last \in Nat
  BY <1>1 DEF Tickers, ReadAll
<1>3. "time" \in Labels
  BY DEF Labels
<1> QED
  BY <1>2, <1>3 DEF TimeRow, Row

(* What a goroutine does to the history: one row more, or nothing. *)
LEMMA UpdaterLogs ==
    ASSUME TypeOK, TickerOK, NEW f \in Timers, Updater(f)
    PROVE  /\ \/ UNCHANGED history
              \/ /\ ReadAll(f)
                 /\ history' = [history EXCEPT ![f] = Append(history[f], TimeRow(f))]
           /\ faults' \in Nat /\ faults' >= faults
<1>1. faults \in Nat
  BY DEF TypeOK
<1>2. CASE Fire(f) \/ ReadClock(f) \/ ReadTotal(f) \/ ReadStart(f) \/ Check(f)
  BY <1>1, <1>2 DEF Fire, ReadClock, ReadTotal, ReadStart, Check, vars
<1>3. CASE Stamp(f)
  BY <1>1, <1>3 DEF Stamp
<1>4. ASSUME Stored(f, TimeRow(f))
      PROVE  history' = [history EXCEPT ![f] = Append(history[f], TimeRow(f))]
  BY <1>4 DEF Stored, TimeRow
<1>5. CASE Log(f)
  BY <1>1, <1>4, <1>5 DEF Log
<1>6. CASE LogFails(f)
  BY <1>1, <1>4, <1>6 DEF LogFails, AddFails, Fault
<1> QED
  BY <1>2, <1>3, <1>5, <1>6 DEF Updater

(* Rows are added and never change, whoever adds them. *)
LEMMA UpdaterHistory ==
    ASSUME TypeOK, TickerOK, NEW f \in Timers, Updater(f)
    PROVE  /\ history' \in [Functions -> Seq(Row)]
           /\ \A g \in Functions : \A r \in DOMAIN history[g] :
                 r \in DOMAIN history'[g] /\ history'[g][r] = history[g][r]
<1>0. history \in [Functions -> Seq(Row)] /\ f \in Functions
  BY DEF TypeOK, Timers, OfType
<1>1. CASE UNCHANGED history
  BY <1>0, <1>1
<1>2. CASE ReadAll(f) /\ history' = [history EXCEPT ![f] = Append(history[f], TimeRow(f))]
  <2> DEFINE row == TimeRow(f)
  <2>1. row \in Row
    BY <1>2, TimeRowTyped
  <2> HIDE DEF row
  <2>2. history' = [history EXCEPT ![f] = Append(history[f], row)]
    BY <1>2 DEF row
  <2>3. history' \in [Functions -> Seq(Row)]
    BY <1>0, <2>1, <2>2
  <2>4. ASSUME NEW g \in Functions, NEW r \in DOMAIN history[g]
        PROVE  r \in DOMAIN history'[g] /\ history'[g][r] = history[g][r]
    BY <1>0, <2>1, <2>2, AppendProperties
  <2> QED
    BY <2>3, <2>4
<1> QED
  BY <1>1, <1>2, UpdaterLogs

(* It leaves the variables of the engine in their types.                    *)
LEMMA UpdaterTypes ==
    ASSUME TypeOK, TickerOK, NEW f \in Timers, Updater(f)
    PROVE  TypeOK'
<1>1. stamp' \in [Functions -> Nat]
  <2>1. CASE Stamp(f)
    <3>1. ticker[f] \in Tickers
      BY <2>1 DEF Stamp, At, TickerOK, Timers, OfType
    <3>2. ticker[f].last \in Nat
      BY <3>1 DEF Tickers
    <3> QED
      BY <2>1, <3>2 DEF Stamp, TypeOK
  <2>2. CASE ~Stamp(f)
    BY <2>2 DEF Updater, Fire, ReadClock, ReadTotal, ReadStart, Log, Check, LogFails, vars, process,
       TypeOK
  <2> QED
    BY <2>1, <2>2
<1>2. history' \in [Functions -> Seq(Row)] /\ faults' \in Nat
  BY UpdaterHistory, UpdaterLogs
<1>3. UNCHANGED << now, mu, pc, msg, run, mem, meta, registered, updates, synced,
                   deliveries, restarts >>
  BY UpdaterKeeps
<1> QED
  BY <1>1, <1>2, <1>3 DEF TypeOK, Handling, Fn

(* A step of a goroutine is one beside the workers,                         *)
LEMMA UpdaterAside ==
    ASSUME TypeOK, TickerOK, NEW f \in Timers, Updater(f)
    PROVE  Aside
  BY UpdaterKeeps, UpdaterTypes, UpdaterLogs, UpdaterHistory DEF Aside

(* and so is that of a worker which sets the timestamp of its function.     *)
LEMMA SetStampAside ==
    ASSUME TypeOK, TickerOK, NEW w \in Workers, SetStamp(w)
    PROVE  Aside
<1>1. UNCHANGED << now, mu, pc, msg, run, mem, meta, history, registered, updates, synced,
                   deliveries, faults, restarts >>
  BY DEF SetStamp
<1>2. onchange.time \in Nat
  <2>1. onchange \in Unstamped
    BY DEF SetStamp, TickerOK
  <2> QED
    BY <2>1 DEF Unstamped
<1>3. stamp' \in [Functions -> Nat]
  BY <1>2 DEF SetStamp, TypeOK
<1>4. TypeOK'
  BY <1>1, <1>3 DEF TypeOK, Handling, Fn
<1>5. faults' >= faults
  BY <1>1 DEF TypeOK
<1> QED
  BY <1>1, <1>4, <1>5 DEF Aside

(* Rows are added and never change, whoever makes the step.                 *)
LEMMA TimerHistory ==
    ASSUME TypeOK, TickerOK, [TimerNext]_timerVars,
           NEW g \in Functions, NEW r \in DOMAIN history[g]
    PROVE  r \in DOMAIN history'[g] /\ history'[g][r] = history[g][r]
<1>1. CASE [AnyStep]_vars
  BY <1>1, HistoryGrows
<1>2. CASE Aside
  BY <1>2 DEF Aside
<1> QED
  BY <1>1, <1>2, TimerSteps, UpdaterAside, SetStampAside
-----------------------------------------------------------------------------
(* What a goroutine has read is forgotten with the row it was read for, and *)
(* the timestamp waits for a row that is in the history.                    *)
TickerFields(f) ==
    ticker[f] # None /\ ~At(f, "reading") => ticker[f].total = None /\ ticker[f].start = None

Stamping(f) ==
    At(f, "checking") \/ At(f, "stamping") =>
        \E i \in DOMAIN history[f] :
            history[f][i].label = "time" /\ history[f][i].time = ticker[f].last

(* The row behind a timestamp that is still to be set stays.                *)
LEMMA StampingKept ==
    ASSUME TypeOK, TickerOK, [TimerNext]_timerVars, NEW g \in Functions, Stamping(g),
           At(g, "checking")' \/ At(g, "stamping")' =>
               (At(g, "checking") \/ At(g, "stamping")) /\ ticker'[g].last = ticker[g].last
    PROVE  Stamping(g)'
<1> SUFFICES ASSUME At(g, "checking")' \/ At(g, "stamping")'
             PROVE  \E i \in DOMAIN history'[g] :
                       history'[g][i].label = "time" /\ history'[g][i].time = ticker[g].last
  BY DEF Stamping
<1>1. PICK i \in DOMAIN history[g] :
         history[g][i].label = "time" /\ history[g][i].time = ticker[g].last
  BY DEF Stamping
<1>2. i \in DOMAIN history'[g] /\ history'[g][i] = history[g][i]
  BY TimerHistory
<1> QED
  BY <1>1, <1>2

(* What a step makes of the ticker: only a row that is logged leads to a stamp. *)
LEMMA UpdaterTicks ==
    ASSUME TypeOK, TickerOK, NEW f \in Timers, Updater(f)
    PROVE  \E t \in Tickers :
              /\ ticker' = [ticker EXCEPT ![f] = t]
              /\ t.step # "reading" => t.total = None /\ t.start = None
              /\ t.step \in {"checking", "stamping"} =>
                    (Log(f) \/ At(f, "checking")) /\ t.last = ticker[f].last
<1>0. ticker \in [Functions -> {None} \cup Tickers] /\ f \in Functions
  BY DEF TickerOK, Timers, OfType
<1> DEFINE t == ticker[f]
<1>1. t \in Tickers /\ (t.step # "reading" => t.total = None /\ t.start = None)
  <2>1. t # None
    BY DEF Updater, Fire, ReadClock, ReadTotal, ReadStart, Log, Check, Stamp, LogFails, ReadAll, At
  <2> QED
    BY <1>0, <2>1 DEF TickerOK, At
<1>2. now \in Nat /\ mem[f].totalDuration \in Int /\ mem[f].startTime \in Nat
  BY TimedFields DEF TypeOK
<1>3. CASE Fire(f) \/ ReadClock(f)
  <2>1. PICK step \in {"waiting", "clock", "reading"} :
            ticker' = [ticker EXCEPT ![f] = [t EXCEPT !.step = step, !.last = now]]
    BY <1>0, <1>3 DEF Fire, ReadClock
  <2>2. t.step # "reading"
    BY <1>3 DEF Fire, ReadClock, At
  <2> DEFINE s == [t EXCEPT !.step = step, !.last = now]
  <2>3. s \in Tickers /\ s.step = step /\ s.total = t.total /\ s.start = t.start
    BY <1>1, <1>2 DEF Tickers
  <2>4. ticker' = [ticker EXCEPT ![f] = s]
    BY <2>1
  <2> HIDE DEF s, t
  <2> QED
    BY <1>1, <2>2, <2>3, <2>4
<1>4. CASE ReadTotal(f)
  <2> DEFINE s == [t EXCEPT !.total = mem[f].totalDuration]
  <2>1. ticker' = [ticker EXCEPT ![f] = s] /\ t.step = "reading"
    BY <1>0, <1>4 DEF ReadTotal, At
  <2>2. s \in Tickers /\ s.step = t.step
    BY <1>1, <1>2 DEF Tickers
  <2> HIDE DEF s, t
  <2> QED
    BY <2>1, <2>2
<1>5. CASE ReadStart(f)
  <2> DEFINE s == [t EXCEPT !.start = mem[f].startTime]
  <2>1. ticker' = [ticker EXCEPT ![f] = s] /\ t.step = "reading"
    BY <1>0, <1>5 DEF ReadStart, At
  <2>2. s \in Tickers /\ s.step = t.step
    BY <1>1, <1>2 DEF Tickers
  <2> HIDE DEF s, t
  <2> QED
    BY <2>1, <2>2
<1>6. CASE Log(f) \/ LogFails(f)
  <2>1. PICK step \in {"checking", "ended"} :
            /\ ticker' = [ticker EXCEPT ![f] = [t EXCEPT !.step = step, !.total = None, !.start = None]]
            /\ step = "checking" => Log(f)
    BY <1>0, <1>6 DEF Log, LogFails, Reset
  <2> DEFINE s == [t EXCEPT !.step = step, !.total = None, !.start = None]
  <2>2. s \in Tickers /\ s.step = step /\ s.total = None /\ s.start = None /\ s.last = t.last
    BY <1>1 DEF Tickers
  <2>3. ticker' = [ticker EXCEPT ![f] = s]
    BY <2>1
  <2>4. t.last = ticker[f].last
    OBVIOUS
  <2> HIDE DEF s, t
  <2> QED
    BY <2>1, <2>2, <2>3, <2>4
<1>7. CASE Check(f) \/ Stamp(f)
  <2>1. PICK step \in {"waiting", "stamping"} :
            /\ ticker' = [ticker EXCEPT ![f] = [t EXCEPT !.step = step]]
            /\ step = "stamping" => At(f, "checking")
    BY <1>0, <1>7 DEF Check, Stamp
  <2>2. t.step # "reading"
    BY <1>7 DEF Check, Stamp, At
  <2> DEFINE s == [t EXCEPT !.step = step]
  <2>3. s \in Tickers /\ s.step = step /\ s.total = t.total /\ s.start = t.start /\ s.last = t.last
    BY <1>1 DEF Tickers
  <2>4. ticker' = [ticker EXCEPT ![f] = s] /\ t.last = ticker[f].last
    BY <2>1
  <2> HIDE DEF s, t
  <2> QED
    BY <1>1, <2>1, <2>2, <2>3, <2>4
<1> QED
  BY <1>3, <1>4, <1>5, <1>6, <1>7 DEF Updater

(* The tickers, and what a worker's onchange has stored.                    *)
TickersOK ==
    /\ ticker \in [Functions -> {None} \cup Tickers]
    /\ \A f \in Functions \ Timers : ticker[f] = None
    /\ \A f \in Timers : TickerFields(f) /\ Stamping(f)

OnchangeOK ==
    /\ onchange \in {None} \cup Unstamped
    /\ \A w \in Workers :
          Handling(w) /\ onchange # None =>
              \E i \in DOMAIN history[Fn(w)] : history[Fn(w)][i].time = onchange.time
    /\ mu = None => onchange = None

(* Together they are TickerOK.                                             *)
LEMMA TickerParts == TickerOK <=> TickersOK /\ OnchangeOK
  BY DEF TickerOK, TickersOK, OnchangeOK, TickerFields, Stamping

(* A step of a goroutine keeps its own fields and those of the others.     *)
LEMMA UpdaterTicksOK ==
    ASSUME TypeOK, TickerOK, NEW f \in Timers, Updater(f)
    PROVE  TickersOK'
<1>0. ticker \in [Functions -> {None} \cup Tickers] /\ f \in Functions /\ Timers \subseteq Functions
  BY DEF TickerOK, Timers, OfType
<1>1. PICK t \in Tickers :
              /\ ticker' = [ticker EXCEPT ![f] = t]
              /\ t.step # "reading" => t.total = None /\ t.start = None
              /\ t.step \in {"checking", "stamping"} =>
                    (Log(f) \/ At(f, "checking")) /\ t.last = ticker[f].last
  BY UpdaterTicks
<1>2. \A g \in Functions : ticker'[g] = IF g = f THEN t ELSE ticker[g]
  BY <1>0, <1>1
<1>3. ticker' \in [Functions -> {None} \cup Tickers]
  BY <1>0, <1>1
<1>4. \A g \in Functions \ Timers : ticker'[g] = None
  BY <1>2 DEF TickerOK
<1>5. \A g \in Timers : TickerFields(g)'
  BY <1>0, <1>1, <1>2 DEF TickerOK, TickerFields, At
<1>6. ASSUME NEW g \in Timers
      PROVE  Stamping(g)'
  <2>1. g \in Functions /\ Stamping(g) /\ [TimerNext]_timerVars
    BY <1>0, TickerParts DEF TickersOK, TimerNext
  <2>2. CASE g = f /\ Log(f)
    <3>1. history' = [history EXCEPT ![f] = Append(history[f], TimeRow(f))] /\ ReadAll(f)
      BY <2>2 DEF Log, Stored, TimeRow
    <3> DEFINE row == TimeRow(f)
    <3>2. row \in Row /\ row.label = "time" /\ row.time = ticker[f].last
      BY <3>1, TimeRowTyped
    <3> HIDE DEF row
    <3>3. history[f] \in Seq(Row) /\ history'[f] = Append(history[f], row)
      BY <1>0, <3>1 DEF TypeOK, row
    <3>4. Len(history'[f]) \in DOMAIN history'[f] /\ history'[f][Len(history'[f])] = row
      BY <3>2, <3>3, AppendProperties
    <3>5. At(f, "checking")' \/ At(f, "stamping")' => ticker'[f].last = ticker[f].last
      BY <1>1, <1>2, <2>1, <2>2 DEF At
    <3> QED
      BY <2>2, <3>2, <3>4, <3>5 DEF Stamping
  <2>3. CASE g = f /\ ~Log(f)
    <3>1. At(g, "checking")' \/ At(g, "stamping")' =>
             At(g, "checking") /\ ticker'[g].last = ticker[g].last
      BY <1>1, <1>2, <2>1, <2>3 DEF At
    <3> QED
      BY <2>1, <3>1, StampingKept
  <2>4. CASE g # f
    <3>1. ticker'[g] = ticker[g]
      BY <1>2, <2>1, <2>4
    <3> QED
      BY <2>1, <3>1, StampingKept DEF At
  <2> QED
    BY <2>2, <2>3, <2>4
<1> QED
  BY <1>3, <1>4, <1>5, <1>6 DEF TickersOK

(* A step of a worker creates a ticker, a restart ends them all, and no     *)
(* other does anything to any.                                              *)
LEMMA EngineTicks ==
    ASSUME TypeOK, TickerOK, [TimerNext]_timerVars, ~\E f \in Timers : Updater(f)
    PROVE  TickersOK'
<1>0. ticker \in [Functions -> {None} \cup Tickers] /\ Timers \subseteq Functions /\ TickersOK
  BY TickerParts DEF TickerOK, Timers, OfType
<1>1. CASE TimerRestart
  <2>1. ticker' = [f \in Functions |-> None]
    BY <1>1 DEF TimerRestart
  <2>2. ticker' \in [Functions -> {None} \cup Tickers] /\ \A f \in Functions : ticker'[f] = None
    BY <2>1
  <2> QED
    BY <1>0, <2>2 DEF TickersOK, TickerFields, Stamping, At
<1>2. ASSUME NEW g \in Timers, ticker' = [ticker EXCEPT ![g] = NewTicker], ticker[g] = None
      PROVE  TickersOK'
  <2>1. NewTicker \in Tickers /\ NewTicker.step = "waiting" /\ NewTicker.total = None
        /\ NewTicker.start = None
    BY DEF NewTicker, Tickers, TypeOK
  <2> DEFINE new == NewTicker
  <2> HIDE DEF new
  <2>2. \A f \in Functions : ticker'[f] = IF f = g THEN new ELSE ticker[f]
    BY <1>0, <1>2 DEF new
  <2>3. ticker' \in [Functions -> {None} \cup Tickers]
    BY <1>0, <1>2, <2>1
  <2>4. \A f \in Functions \ Timers : ticker'[f] = None
    BY <1>0, <2>2 DEF TickersOK
  <2>5. \A f \in Timers : TickerFields(f)'
    BY <1>0, <2>1, <2>2 DEF TickersOK, TickerFields, At, new
  <2>6. ASSUME NEW f \in Timers
        PROVE  Stamping(f)'
    <3>1. At(f, "checking")' \/ At(f, "stamping")' => f # g
      BY <1>0, <2>1, <2>2 DEF At, new
    <3>2. f # g => ticker'[f] = ticker[f]
      BY <1>0, <2>2
    <3> QED
      BY <1>0, <3>1, <3>2, StampingKept DEF TickersOK, At
  <2> QED
    BY <2>3, <2>4, <2>5, <2>6 DEF TickersOK
<1>3. CASE UNCHANGED ticker
  <2>1. ASSUME NEW f \in Timers
        PROVE  Stamping(f)'
    BY <1>0, <1>3, StampingKept DEF TickersOK, At
  <2> QED
    BY <1>0, <1>3, <2>1 DEF TickersOK, TickerFields, At
<1>4. ASSUME NEW w \in Workers, CheckStamp(w) \/ SetStamp(w)
      PROVE  UNCHANGED ticker \/ \E g \in Timers : /\ ticker' = [ticker EXCEPT ![g] = NewTicker]
                                                   /\ ticker[g] = None
  BY <1>4 DEF CheckStamp, SetStamp, EndOnchange, CreatesTicker
<1> QED
  BY <1>1, <1>2, <1>3, <1>4 DEF TimerNext, timerVars, AddRow

(* A worker's onchange is behind its row from its first step to its last.   *)
LEMMA OnchangeStep ==
    ASSUME TypeOK, MutualExclusion, TickerOK, [TimerNext]_timerVars
    PROVE  OnchangeOK'
<1>0. OnchangeOK
  BY TickerParts
<1>1. CASE onchange' = None
  BY <1>1 DEF OnchangeOK
<1>2. ASSUME mu' = mu, onchange' # None, onchange # None, onchange' \in Unstamped,
             onchange'.time = onchange.time,
             \A w \in Workers : Handling(w)' => Handling(w) /\ Fn(w)' = Fn(w)
      PROVE  OnchangeOK'
  <2>1. ASSUME NEW w \in Workers, Handling(w)'
        PROVE  \E i \in DOMAIN history'[Fn(w)] : history'[Fn(w)][i].time = onchange.time
    <3>1. Handling(w) /\ Fn(w) \in Functions
      BY <1>2, <2>1, HandlingTyped
    <3>2. PICK i \in DOMAIN history[Fn(w)] : history[Fn(w)][i].time = onchange.time
      BY <1>0, <1>2, <3>1 DEF OnchangeOK
    <3>3. i \in DOMAIN history'[Fn(w)] /\ history'[Fn(w)][i] = history[Fn(w)][i]
      BY <3>1, TimerHistory
    <3> QED
      BY <3>2, <3>3
  <2>2. mu' # None
    BY <1>0, <1>2 DEF OnchangeOK
  <2> QED
    BY <1>2, <2>1, <2>2 DEF OnchangeOK
<1>3. CASE UNCHANGED << mu, pc, msg, onchange >>
  <2>1. onchange # None => onchange \in Unstamped
    BY <1>0 DEF OnchangeOK
  <2> QED
    BY <1>1, <1>2, <1>3, <2>1 DEF Handling, Fn
<1>4. ASSUME NEW w \in Workers, AddRow(w)
      PROVE  OnchangeOK'
  <2> DEFINE write == Head(run[w].writes)
             n == Len(history[Fn(w)]) + 1
  <2>1. /\ Handling(w) /\ Fn(w) \in Functions /\ write.time \in Nat
        /\ Stored(Fn(w), write) /\ UNCHANGED << mu, pc, msg >>
        /\ onchange' = [time |-> write.time, newer |-> FALSE]
    BY <1>4, NextWriteTyped, HandlingTyped DEF AddRow, StoreRow, Writes
  <2> HIDE DEF write
  <2>2. n \in DOMAIN history'[Fn(w)] /\ history'[Fn(w)][n].time = write.time
    BY <2>1, StoredLast
  <2> HIDE DEF n
  <2>3. onchange' \in Unstamped /\ onchange'.time = write.time
    BY <2>1 DEF Unstamped
  <2>4. ASSUME NEW v \in Workers, Handling(v)'
        PROVE  \E i \in DOMAIN history'[Fn(v)] : history'[Fn(v)][i].time = onchange'.time
    <3>1. v = w
      BY <2>1, <2>4 DEF MutualExclusion, Handling
    <3> QED
      BY <2>2, <2>3, <3>1
  <2>5. mu' # None
    BY <2>1, EngineAssumption DEF MutualExclusion
  <2> QED
    BY <2>1, <2>3, <2>4, <2>5 DEF OnchangeOK, Fn
<1>5. ASSUME NEW w \in Workers, CheckStamp(w) \/ SetStamp(w)
      PROVE  OnchangeOK'
  <2>1. CASE onchange' = [onchange EXCEPT !.newer = TRUE]
    <3>1. onchange \in Unstamped /\ onchange # None
      BY <1>0, <1>5 DEF OnchangeOK, CheckStamp, SetStamp
    <3>2. onchange' \in Unstamped /\ onchange'.time = onchange.time
      BY <2>1, <3>1 DEF Unstamped
    <3>3. UNCHANGED << mu, pc, msg >>
      BY <1>5 DEF CheckStamp, SetStamp, vars
    <3> QED
      BY <1>1, <1>2, <3>1, <3>2, <3>3 DEF Handling, Fn
  <2> QED
    BY <1>1, <1>5, <2>1 DEF CheckStamp, SetStamp, EndOnchange
<1>6. ASSUME NEW w \in Workers, Elsewhere(w), UNCHANGED onchange
      PROVE  OnchangeOK'
  <2>1. CASE onchange # None
    <3>1. mu # None
      BY <1>0, <2>1 DEF OnchangeOK
    <3>2. Receive(w)
      BY <1>6, <2>1, <3>1 DEF Elsewhere, Lock, Ignore, StartHandle, LockFree
    <3>3. mu' = mu /\ \A v \in Workers : Handling(v)' => Handling(v) /\ Fn(v)' = Fn(v)
      BY <3>2 DEF Receive, Handling, Fn, TypeOK
    <3>4. onchange \in Unstamped
      BY <1>0, <2>1 DEF OnchangeOK
    <3> QED
      BY <1>2, <1>6, <2>1, <3>3, <3>4
  <2> QED
    BY <1>1, <1>6, <2>1
<1>7. CASE Tick /\ UNCHANGED << ticker, onchange >>
  BY <1>3, <1>7 DEF Tick, process
<1>8. ASSUME NEW f \in Timers, Updater(f)
      PROVE  OnchangeOK'
  BY <1>3, <1>8, UpdaterKeeps DEF Updater
<1> QED
  BY <1>1, <1>3, <1>4, <1>5, <1>6, <1>7, <1>8 DEF TimerNext, TimerRestart, timerVars, vars

(* What is true of the engine and of the tickers, step by step. *)
TimerInvariant == EngineInvariant /\ TickerOK

(* It is true at first.                                                     *)
LEMMA TimerInvariantInit == TimerInit => TimerInvariant
<1> SUFFICES ASSUME TimerInit PROVE TimerInvariant
  OBVIOUS
<1>1. EngineInvariant
  BY EngineInit DEF TimerInit
<1>2. Timers \subseteq Functions /\ ticker = [f \in Functions |-> None]
  BY DEF TimerInit, Timers, OfType
<1>3. ticker \in [Functions -> {None} \cup Tickers] /\ \A f \in Functions : ticker[f] = None
  BY <1>2
<1> QED
  BY <1>1, <1>2, <1>3 DEF TimerInvariant, TickerOK, At, TimerInit

(* It is kept by the workers and by the goroutines.                         *)
LEMMA TimerInvariantStep ==
    ASSUME TimerInvariant, [TimerNext]_timerVars
    PROVE  TimerInvariant'
<1>0. EngineInvariant /\ TypeOK /\ MutualExclusion /\ TickerOK
  BY DEF TimerInvariant, EngineInvariant
<1>1. EngineInvariant'
  BY <1>0, TimerSteps, UpdaterAside, SetStampAside, AsideEngine, EngineStep
<1>2. TickersOK' /\ OnchangeOK'
  BY <1>0, UpdaterTicksOK, EngineTicks, OnchangeStep
<1>3. TickerOK'
  BY <1>2 DEF TickerOK, TickersOK, OnchangeOK, TickerFields, Stamping
<1> QED
  BY <1>1, <1>3 DEF TimerInvariant

(* So it is true for ever.                                                  *)
LEMMA TimerInvariantHolds == TimerSpec => []TimerInvariant
<1>1. TimerInvariant /\ [TimerNext]_timerVars => TimerInvariant'
  BY TimerInvariantStep
<1> QED
  BY TimerInvariantInit, <1>1, PTL DEF TimerSpec

(* Only a timer has a ticker, what its goroutine has read is forgotten with *)
(* the row it was read for, and the timestamp is only set behind a row that *)
(* is in the history, however the reads fall between the steps of a worker  *)
(* (timer.go: the loop over the ticks).                                     *)
THEOREM TickerOKHolds == TimerSpec => []TickerOK
<1>1. TimerInvariant => TickerOK
  BY DEF TimerInvariant
<1> QED
  BY <1>1, TimerInvariantHolds, PTL

(* Whatever is kept by the engine and beside it, is kept.                   *)
LEMMA TimerAsideOrNext ==
    ASSUME TimerInvariant, [TimerNext]_timerVars
    PROVE  Aside \/ [AnyStep]_vars
  BY TimerSteps, UpdaterAside, SetStampAside DEF TimerInvariant, EngineInvariant

(* No subscriber is shown the end of an earlier round of a timer, though    *)
(* the goroutine reads the rounds while they are being changed.             *)
THEOREM TimerRoundsApart == TimerSpec => []RoundsApart
<1>1. TimerInit => RoundsInvariant
  BY RoundsInit DEF TimerInit
<1>2. RoundsInvariant /\ TimerInvariant /\ [TimerNext]_timerVars => RoundsInvariant'
  BY TimerAsideOrNext, AsideRounds, RoundsStep DEF TimerInvariant
<1>3. RoundsInvariant => RoundsApart
  BY RoundsShown
<1> QED
  BY <1>1, <1>2, <1>3, TimerInvariantHolds, PTL DEF TimerSpec

(* The ticker logs the total and never adds to it: beside a ticker too, the *)
(* total is the sum of the rounds that were announced.                      *)
THEOREM TimerTotalIsSum == TimerSpec => []TotalIsSum
<1>1. TimerInit => TotalInvariant
  BY TotalInit DEF TimerInit
<1>2. TotalInvariant /\ TimerInvariant /\ [TimerNext]_timerVars => TotalInvariant'
  BY TimerAsideOrNext, AsideTotal, TotalInvariantStep DEF TimerInvariant
<1>3. TotalInvariant => TotalIsSum
  BY TotalShown
<1> QED
  BY <1>1, <1>2, <1>3, TimerInvariantHolds, PTL DEF TimerSpec

(* Subscribers are shown a timer as it is, though its goroutine logs and    *)
(* stamps beside the worker.                                                *)
THEOREM TimerSubscriberInSync == TimerSpec => []SubscriberInSync
<1>1. TimerInit => SyncInvariant
  BY SyncInit DEF TimerInit
<1>2. SyncInvariant /\ TimerInvariant /\ [TimerNext]_timerVars => SyncInvariant'
  BY TimerAsideOrNext, AsideSync, SyncStep DEF TimerInvariant, EngineInvariant
<1>3. TimerInvariant /\ SyncInvariant => SubscriberInSync
  BY SyncShown DEF TimerInvariant, EngineInvariant
<1> QED
  BY <1>1, <1>2, <1>3, TimerInvariantHolds, PTL DEF TimerSpec

(* Nothing is announced as a change without its row, though others add rows *)
(* to the same history.                                                     *)
THEOREM TimerPersistBeforePublish == TimerSpec => []PersistBeforePublish
<1>1. TimerInit => PersistInvariant
  BY DEF TimerInit, Init, PersistInvariant, PersistAt, Handling
<1>2. PersistInvariant /\ TimerInvariant /\ [TimerNext]_timerVars => PersistInvariant'
  BY TimerAsideOrNext, AsidePersist, PersistStep DEF TimerInvariant, EngineInvariant
<1>3. PersistInvariant => PersistBeforePublish
  BY PersistShown
<1> QED
  BY <1>1, <1>2, <1>3, TimerInvariantHolds, PTL DEF TimerSpec
-----------------------------------------------------------------------------
(* Between the steps of onchange a call may be without the timestamp that   *)
(* it is about to get.                                                      *)
TimerStampInvariant ==
    /\ StampHasRow
    /\ onchange = None => \A w \in Workers : StampAt(w)

(* A goroutine sets the timestamp behind a row of its own. *)
LEMMA UpdaterStamps ==
    ASSUME TimerInvariant, TimerStampInvariant, NEW f \in Timers, Updater(f)
    PROVE  TimerStampInvariant'
<1>0. TypeOK /\ TickerOK /\ Aside /\ f \in Functions /\ UNCHANGED onchange
  BY UpdaterAside DEF TimerInvariant, EngineInvariant, Timers, OfType, Updater
<1>1. \A g \in Functions : \/ stamp'[g] = stamp[g]
                           \/ \E i \in DOMAIN history[g] : history[g][i].time = stamp'[g]
  <2>1. CASE Stamp(f)
    <3>1. \A g \in Functions : stamp'[g] = IF g = f THEN ticker[f].last ELSE stamp[g]
      BY <1>0, <2>1 DEF Stamp, TypeOK
    <3>2. \E i \in DOMAIN history[f] : history[f][i].time = ticker[f].last
      BY <1>0, <2>1 DEF TickerOK, Stamp
    <3> QED
      BY <1>0, <3>1, <3>2
  <2>2. CASE ~Stamp(f)
    <3>1. stamp' = stamp
      BY <2>2 DEF Updater, Fire, ReadClock, ReadTotal, ReadStart, Log, Check, LogFails, vars, process
    <3> QED
      BY <3>1
  <2> QED
    BY <2>1, <2>2
<1>2. StampHasRow'
  BY <1>0, <1>1, AsideStampRow DEF TimerStampInvariant
<1>3. ASSUME NEW w \in Workers, onchange = None
      PROVE  StampAt(w)'
  BY <1>0, <1>1, <1>3, AsideStampAt DEF TimerStampInvariant
<1> QED
  BY <1>0, <1>2, <1>3 DEF TimerStampInvariant

(* A worker finds that its row is not newer than the timestamp: there is a  *)
(* timestamp then, or the row has no time.                                  *)
LEMMA CheckStamps ==
    ASSUME TimerInvariant, TimerStampInvariant, NEW w \in Workers, CheckStamp(w)
    PROVE  TimerStampInvariant'
<1>0. TypeOK /\ MutualExclusion /\ TickerOK /\ UNCHANGED vars
  BY DEF TimerInvariant, EngineInvariant, CheckStamp
<1>1. StampHasRow'
  BY <1>0 DEF TimerStampInvariant, StampHasRow, vars
<1>2. ASSUME onchange' = None, NEW v \in Workers
      PROVE  StampAt(v)'
  <2>1. StampAt(v)' <=> StampAt(v)
    BY <1>0 DEF StampAt, RowAt, Handling, Changed, Fn, vars
  <2>2. Handling(v) => v = w
    BY <1>0 DEF CheckStamp, MutualExclusion
  <2>3. /\ onchange \in Unstamped /\ ~(onchange.time > stamp[Fn(w)])
        /\ \E i \in DOMAIN history[Fn(w)] : history[Fn(w)][i].time = onchange.time
    <3>1. onchange \in Unstamped /\ Handling(w) /\ onchange # None
      BY <1>0 DEF TickerOK, CheckStamp
    <3>2. [onchange EXCEPT !.newer = TRUE] \in Unstamped
      BY <3>1 DEF Unstamped
    <3>3. None \notin Unstamped
      BY TimerAssumption
    <3> QED
      BY <1>0, <1>2, <3>1, <3>2, <3>3 DEF CheckStamp, TickerOK
  <2>4. Handling(w) => Fn(w) \in Functions
    BY <1>0, HandlingTyped
  <2>5. CASE onchange.time = ZeroTime
    BY <2>1, <2>2, <2>3, <2>5 DEF StampAt, RowAt
  <2>6. CASE onchange.time # ZeroTime
    <3>1. onchange.time \in Nat
      BY <2>3 DEF Unstamped
    <3>2. Handling(w) => stamp[Fn(w)] \in Nat
      BY <1>0, <2>4 DEF TypeOK
    <3>3. Handling(w) => stamp[Fn(w)] # ZeroTime
      BY <2>3, <2>6, <3>1, <3>2 DEF ZeroTime
    <3> QED
      BY <2>1, <2>2, <3>3 DEF StampAt
  <2> QED
    BY <2>5, <2>6
<1> QED
  BY <1>1, <1>2 DEF TimerStampInvariant

(* A worker sets the timestamp behind the row it has stored, though a       *)
(* goroutine has set a newer one since it looked.                           *)
LEMMA SetStamps ==
    ASSUME TimerInvariant, TimerStampInvariant, NEW w \in Workers, SetStamp(w)
    PROVE  TimerStampInvariant'
<1>0. TypeOK /\ MutualExclusion /\ TickerOK /\ Aside
  BY SetStampAside DEF TimerInvariant, EngineInvariant
<1>1. Handling(w) /\ onchange # None /\ stamp' = [stamp EXCEPT ![Fn(w)] = onchange.time]
  BY DEF SetStamp
<1>2. Fn(w) \in Functions /\ stamp \in [Functions -> Nat]
  BY <1>0, <1>1, HandlingTyped DEF TypeOK
<1>3. PICK r \in DOMAIN history[Fn(w)] : history[Fn(w)][r].time = onchange.time
  BY <1>0, <1>1 DEF TickerOK
<1>4. \A g \in Functions : \/ stamp'[g] = stamp[g]
                           \/ \E i \in DOMAIN history[g] : history[g][i].time = stamp'[g]
  BY <1>1, <1>2, <1>3
<1>5. StampHasRow'
  BY <1>0, <1>4, AsideStampRow DEF TimerStampInvariant
<1>6. ASSUME NEW v \in Workers
      PROVE  StampAt(v)'
  <2>1. Handling(v)' => v = w /\ Fn(v)' = Fn(w)
    BY <1>0, <1>1 DEF Aside, Handling, Fn, MutualExclusion
  <2>2. stamp'[Fn(w)] = onchange.time /\ history' = history
    BY <1>1, <1>2 DEF SetStamp
  <2>3. stamp'[Fn(w)] # ZeroTime \/ \E i \in DOMAIN history'[Fn(w)] : history'[Fn(w)][i].time = ZeroTime
    BY <1>3, <2>2
  <2> QED
    BY <2>1, <2>3 DEF StampAt, RowAt
<1> QED
  BY <1>5, <1>6 DEF TimerStampInvariant

(* Whoever makes the step, a timestamp has its row.                         *)
LEMMA TimerStampStep ==
    ASSUME TimerInvariant, PersistInvariant, TimerStampInvariant, [TimerNext]_timerVars
    PROVE  TimerStampInvariant'
<1>0. TypeOK /\ MutualExclusion /\ TickerOK
  BY DEF TimerInvariant, EngineInvariant
<1>1. ASSUME NEW w \in Workers, AddRow(w)
      PROVE  TimerStampInvariant'
  <2>1. [AnyStep]_vars /\ stamp' = stamp /\ onchange' # None
    <3>1. None \notin Unstamped
      BY TimerAssumption
    <3>2. StoreRow(w) /\ UNCHANGED stamp
      BY <1>1 DEF AddRow
    <3>3. Head(run[w].writes).time \in Nat
      BY <1>0, <3>2, NextWriteTyped DEF StoreRow, Writes
    <3>4. onchange' \in Unstamped
      BY <1>1, <3>3 DEF AddRow, Unstamped
    <3> QED
      BY <3>1, <3>2, <3>4 DEF AnyStep
  <2>2. StampHasRow'
    BY <1>0, <2>1, StampKept DEF TimerStampInvariant, StampHasRow
  <2> QED
    BY <2>1, <2>2 DEF TimerStampInvariant
<1>2. ASSUME [OtherStep]_vars, UNCHANGED onchange, onchange = None \/ UNCHANGED stamp
      PROVE  TimerStampInvariant'
  <2>1. CASE onchange = None
    <3>1. \A w \in Workers : StampAt(w)
      BY <2>1 DEF TimerStampInvariant
    <3>2. StampHasRow'
      BY <1>0, <1>2, <3>1, StampRowStep DEF TimerStampInvariant
    <3>3. \A w \in Workers : StampAt(w)'
      BY <1>0, <1>2, <3>1, StampAtStep
    <3> QED
      BY <3>2, <3>3 DEF TimerStampInvariant
  <2>2. CASE onchange # None /\ UNCHANGED stamp
    <3>1. [AnyStep]_vars
      BY <1>2, OtherIsNext
    <3>2. StampHasRow'
      BY <1>0, <2>2, <3>1, StampKept DEF TimerStampInvariant, StampHasRow
    <3> QED
      BY <1>2, <2>2, <3>2 DEF TimerStampInvariant
  <2> QED
    BY <2>1, <2>2, <1>2
<1>3. CASE TimerRestart
  BY <1>3 DEF TimerRestart, Restart, TimerStampInvariant, StampHasRow, StampAt, Handling
<1>4. ASSUME NEW w \in Workers, Elsewhere(w), UNCHANGED onchange
      PROVE  TimerStampInvariant'
  <2>1. OtherStep
    BY <1>4 DEF Elsewhere, OtherStep
  <2>2. onchange = None \/ UNCHANGED stamp
    BY <1>4 DEF Elsewhere, Receive, Lock, Ignore, StartHandle
  <2> QED
    BY <1>2, <1>4, <2>1, <2>2
<1>5. CASE Tick /\ UNCHANGED << ticker, onchange >>
  BY <1>2, <1>5 DEF OtherStep, Tick, process
<1>6. CASE UNCHANGED timerVars
  BY <1>2, <1>6 DEF timerVars, vars
<1> QED
  BY <1>1, <1>3, <1>4, <1>5, <1>6, UpdaterStamps, CheckStamps, SetStamps DEF TimerNext

(* The timestamp a timer is listed with is the time of one of its rows,     *)
(* whether a message or the ticker has set it (timer.go, functions.go:      *)
(* onchange).                                                               *)
THEOREM TimerStampHasRow == TimerSpec => []StampHasRow
<1>1. TimerInit => PersistInvariant /\ TimerStampInvariant
  BY DEF TimerInit, Init, PersistInvariant, PersistAt, TimerStampInvariant, StampHasRow, StampAt,
         Handling
<1>2. PersistInvariant /\ TimerInvariant /\ [TimerNext]_timerVars => PersistInvariant'
  BY TimerAsideOrNext, AsidePersist, PersistStep DEF TimerInvariant, EngineInvariant
<1>3. TimerStampInvariant /\ PersistInvariant /\ TimerInvariant /\ [TimerNext]_timerVars
      => TimerStampInvariant'
  BY TimerStampStep
<1>4. TimerStampInvariant => StampHasRow
  BY DEF TimerStampInvariant
<1> QED
  BY <1>1, <1>2, <1>3, <1>4, TimerInvariantHolds, PTL DEF TimerSpec

(* The tickers are nobody's business but the history's: with them too the   *)
(* engine implements functions that handle one message at a time.           *)
THEOREM TimerImplementsSerial ==
    ASSUME MaxTime > 0, LogValues = Int
    PROVE  TimerSpec => ImplementsSerial
<1>1. TimerInit => SerialInvariant /\ Serial!Init
  BY SerialInit DEF TimerInit
<1>2. SerialInvariant /\ TimerInvariant /\ [TimerNext]_timerVars => SerialInvariant'
  BY TimerAsideOrNext, AsideSerial, SerialStep DEF TimerInvariant, EngineInvariant
<1>3. SerialInvariant /\ TimerInvariant /\ TimerInvariant' /\ [TimerNext]_timerVars
      => [Serial!Next]_<< Settled, AnnouncedMemory >>
  BY TimerAsideOrNext, AsideSerial, EngineStepIsSerial DEF TimerInvariant, EngineInvariant
<1> QED
  BY <1>1, <1>2, <1>3, TimerInvariantHolds, PTL
  DEF TimerSpec, ImplementsSerial, Serial!Spec
=============================================================================
