------------------------ MODULE FunctionEngineProofs ------------------------
(***************************************************************************)
(* Theorems about the path of a message, for any number of functions of    *)
(* any type, workers, messages and faults.  First what is true of every    *)
(* handler: it stays within its type, keeps no change of what is shown to  *)
(* itself, and reports what it has stored; then the types of the engine.   *)
(***************************************************************************)
EXTENDS FunctionProperties, FiniteSetTheorems, TLAPS

(* A write and a run are typed when their parts are. *)
LEMMA OnChangeTyped ==
    ASSUME NEW M, NEW label \in Labels, NEW value \in Int, NEW time \in Nat, NEW then \in M
    PROVE  OnChange(label, value, time, then) \in Writes(M)
  BY DEF OnChange, Writes

LEMMA RunTyped ==
    ASSUME NEW M, NEW begin \in M, NEW writes \in Seq(Writes(M)),
           NEW outcome \in Outcomes, NEW onerr \in {"stop", "join", "drop"}
    PROVE  Run(begin, writes, outcome, onerr) \in Runs(M)
  BY DEF Run, Runs

LEMMA EmptyRunsTyped ==
    ASSUME NEW M, NEW s \in M
    PROVE  Unchanged(s) \in Runs(M) /\ Rejected(s) \in Runs(M)
  BY DEF Unchanged, Rejected, Run, Runs, Outcomes

LEMMA NumberTyped == \A b \in BOOLEAN : Number(b) \in Int
  BY DEF Number

LEMMA MessageTyped ==
    ASSUME NEW m \in Message
    PROVE  /\ m.state \in BOOLEAN \cup {None}
           /\ \A r \in Resources : m.value[r] \in Int \cup {None}
           /\ m.time \in Nat
           /\ m.accepted \in Nat
           /\ DigitalInputCounter \in Resources
           /\ SensorValue \in Resources
           /\ ActualFillingPercentage \in Resources
           /\ ActualFillingLevel \in Resources
           /\ HighThreshold \in Resources
  BY DEF Message, Resources, DigitalInputCounter, SensorValue,
         ActualFillingPercentage, ActualFillingLevel, HighThreshold

LEMMA CeilTyped == \A n \in Int : Ceil(n) \in Int
  BY DEF Ceil

LEMMA TruncateTyped == \A n \in Int : Truncate(n) \in Int
  BY DEF Truncate

LEMMA RoundTyped == \A n \in Int, unit \in {10, 20000} : Round(n, unit) \in Int
  BY DEF Round
-----------------------------------------------------------------------------
LEMMA SquareWaveTyped ==
    ASSUME NEW s \in PresenceMem, NEW t \in Nat
    PROVE  SquareWave(s, t) \in Seq(Writes(PresenceMem))
<1>1. Number(s.state) \in Int /\ Number(~s.state) \in Int
  BY NumberTyped DEF PresenceMem
<1>2. OnChange("presence", Number(~s.state), t, s) \in Writes(PresenceMem)
  BY <1>1, OnChangeTyped DEF Labels
<1>3. OnChange("presence", Number(s.state), t, s) \in Writes(PresenceMem)
  BY <1>1, OnChangeTyped DEF Labels
<1> QED
  BY <1>2, <1>3 DEF SquareWave

LEMMA PresenceTyped ==
    ASSUME NEW s \in PresenceMem, NEW m \in Message
    PROVE  PresenceHandle(s, m) \in Runs(PresenceMem)
<1>1. CASE m.obj \notin {"digitalinput", "presence"} \/ m.state \in {None, s.state}
  BY <1>1, EmptyRunsTyped DEF PresenceHandle
<1>2. CASE m.obj \in {"digitalinput", "presence"} /\ m.state \notin {None, s.state}
  <2> DEFINE new == [state |-> m.state]
  <2>1. new \in PresenceMem
    BY <1>2, MessageTyped DEF PresenceMem
  <2>2. PresenceHandle(s, m) = Run(new, SquareWave(new, m.time), "changed", "stop")
    BY <1>2 DEF PresenceHandle
  <2> HIDE DEF new
  <2>3. SquareWave(new, m.time) \in Seq(Writes(PresenceMem))
    BY <2>1, MessageTyped, SquareWaveTyped
  <2> QED
    BY <2>1, <2>2, <2>3, RunTyped DEF Outcomes
<1> QED
  BY <1>1, <1>2
-----------------------------------------------------------------------------
LEMMA CountedTyped ==
    ASSUME NEW s \in CounterMem, NEW m \in Message, m.state # None
    PROVE  Counted(s, m) \in CounterMem
<1>1. m.state \in BOOLEAN
  BY MessageTyped
<1>2. m.value[DigitalInputCounter] # None => Ceil(m.value[DigitalInputCounter]) \in Int
  BY MessageTyped, CeilTyped
<1>3. s.count \in Int /\ s.count + Number(RisingEdge(s, m)) \in Int
  BY <1>1 DEF CounterMem, Number
<1> QED
  BY <1>1, <1>2, <1>3 DEF Counted, CounterMem

LEMMA CounterRowsTyped ==
    ASSUME NEW s \in CounterMem, NEW m \in Message, NEW new \in CounterMem
    PROVE  CounterRows(s, new, m) \in Seq(Writes(CounterMem))
<1>1. OnChange("count", new.count, m.time, new) \in Writes(CounterMem)
  BY MessageTyped, OnChangeTyped DEF Labels, CounterMem
<1>2. Number(new.state) \in Int
  BY NumberTyped DEF CounterMem
<1>3. OnChange("state", Number(new.state), m.time, new) \in Writes(CounterMem)
  BY <1>2, MessageTyped, OnChangeTyped DEF Labels
<1> QED
  BY <1>1, <1>3 DEF CounterRows

LEMMA CounterTyped ==
    ASSUME NEW s \in CounterMem, NEW m \in Message
    PROVE  CounterHandle(s, m) \in Runs(CounterMem)
<1>1. CASE m.obj # "digitalinput" \/ m.state = None
  BY <1>1, EmptyRunsTyped DEF CounterHandle
<1>2. CASE m.obj = "digitalinput" /\ m.state # None
  <2> DEFINE new == Counted(s, m)
             rows == CounterRows(s, new, m)
             outcome == IF rows = << >> THEN "unchanged" ELSE "changed"
  <2>1. CounterHandle(s, m) = Run(new, rows, outcome, "join")
    BY <1>2 DEF CounterHandle
  <2>2. new \in CounterMem
    BY <1>2, CountedTyped
  <2>3. rows \in Seq(Writes(CounterMem))
    BY <2>2, CounterRowsTyped
  <2>4. outcome \in Outcomes
    BY DEF Outcomes
  <2> HIDE DEF new, rows, outcome
  <2> QED
    BY <2>1, <2>2, <2>3, <2>4, RunTyped
<1> QED
  BY <1>1, <1>2
-----------------------------------------------------------------------------
LEMMA DigitalInputTyped ==
    ASSUME NEW s \in DigitalInputMem, NEW m \in Message
    PROVE  DigitalInputHandle(s, m) \in Runs(DigitalInputMem)
<1> DEFINE t == InputTime(m)
           pending == [state     |-> NextState(s, m),
                       counter   |-> NextCounter(s, m),
                       timestamp |-> s.timestamp]
           new == [pending EXCEPT !.timestamp = t]
           stateRow(then) == OnChange("state", Number(new.state), t, then)
           counterRow     == OnChange("counter", new.counter, t, new)
           stateChanged   == pending.state # s.state
           counterChanged == pending.counter # Stepped(s, m)
           rows == CASE stateChanged /\ counterChanged  -> << stateRow(pending), counterRow >>
                     [] stateChanged /\ ~counterChanged -> << stateRow(new) >>
                     [] ~stateChanged                   -> << counterRow >>
<1>1. NextState(s, m) \in BOOLEAN
  BY MessageTyped DEF NextState, DigitalInputMem
<1>2. NextCounter(s, m) \in Int
  <2>1. Number(NextState(s, m) /\ ~s.state) \in Int
    BY NumberTyped
  <2>2. Stepped(s, m) \in Int
    BY <2>1 DEF Stepped, DigitalInputMem
  <2> QED
    BY <2>2, MessageTyped, TruncateTyped DEF NextCounter
<1>3. t \in Nat
  BY MessageTyped DEF InputTime
<1>4. pending \in DigitalInputMem /\ new \in DigitalInputMem
  BY <1>1, <1>2, <1>3 DEF DigitalInputMem
<1>5. Number(new.state) \in Int /\ new.counter \in Int
  BY <1>1, <1>2, NumberTyped
<1>6. DigitalInputHandle(s, m) \in
        {Rejected(s), Unchanged(s), Run(pending, rows, "changed", "join")}
  BY DEF DigitalInputHandle
<1> HIDE DEF t, pending, new
<1>7. /\ stateRow(pending) \in Writes(DigitalInputMem)
      /\ stateRow(new) \in Writes(DigitalInputMem)
      /\ counterRow \in Writes(DigitalInputMem)
  BY <1>3, <1>4, <1>5, OnChangeTyped DEF Labels
<1> HIDE DEF stateRow, counterRow
<1>8. rows \in Seq(Writes(DigitalInputMem))
  BY <1>7
<1> HIDE DEF rows
<1> QED
  BY <1>4, <1>6, <1>8, RunTyped, EmptyRunsTyped DEF Outcomes
-----------------------------------------------------------------------------
LEMMA WaterQualityTyped ==
    ASSUME NEW s \in WaterQualityMem, NEW m \in Message, NEW t \in Nat
    PROVE  WaterQualityHandle(s, m, t) \in Runs(WaterQualityMem)
<1> DEFINE new == [temperature |-> Round(m.value[SensorValue], 10), timestamp |-> m.time]
           row == OnChange("temperature", new.temperature, m.time, new)
<1>1. CASE m.obj # "temperature" \/ BadTimestamp(m, t) \/ ~Newer(s, m)
  BY <1>1, EmptyRunsTyped DEF WaterQualityHandle
<1>2. CASE ~(m.obj # "temperature" \/ BadTimestamp(m, t) \/ ~Newer(s, m))
  <2>1. m.value[SensorValue] \in Int
    BY <1>2, MessageTyped DEF Newer
  <2>2. new \in WaterQualityMem /\ new.temperature \in Int
    BY <2>1, MessageTyped, RoundTyped DEF WaterQualityMem
  <2>3. WaterQualityHandle(s, m, t) \in {Unchanged(new), Run(new, << row >>, "changed", "stop")}
    BY <1>2 DEF WaterQualityHandle
  <2> HIDE DEF new
  <2>4. row \in Writes(WaterQualityMem)
    BY <2>2, MessageTyped, OnChangeTyped DEF Labels
  <2> HIDE DEF row
  <2>5. << row >> \in Seq(Writes(WaterQualityMem))
    BY <2>4
  <2> QED
    BY <2>2, <2>3, <2>5, EmptyRunsTyped, RunTyped DEF Outcomes
<1> QED
  BY <1>1, <1>2
-----------------------------------------------------------------------------
LEMMA StopwatchStepsTyped ==
    ASSUME NEW s \in StopwatchMem, NEW t \in Nat
    PROVE  /\ Started(s, t) \in StopwatchMem
           /\ Running(s, t) \in StopwatchMem /\ Running(s, t).duration \in Int
           /\ Stopped(s, t) \in StopwatchMem /\ Stopped(s, t).duration \in Int
<1>1. s.startTime \in Nat /\ s.cumulativeTime \in Int /\ s.count \in Int
  BY DEF StopwatchMem
<1>2. t - s.startTime \in Int /\ s.cumulativeTime + (t - s.startTime) \in Int
  BY <1>1
<1>3. Started(s, t) \in StopwatchMem
  BY DEF StopwatchMem, Started
<1>4. Running(s, t) \in StopwatchMem /\ Running(s, t).duration \in Int
  BY <1>2 DEF StopwatchMem, Running
<1>5. Stopped(s, t) \in StopwatchMem /\ Stopped(s, t).duration \in Int
  BY <1>2 DEF StopwatchMem, Stopped
<1> QED
  BY <1>3, <1>4, <1>5

LEMMA RecountTyped ==
    ASSUME NEW s \in StopwatchMem, NEW m \in Message
    PROVE  Recount(s, m) \in StopwatchMem
<1>1. m.value[DigitalInputCounter] # None => Truncate(m.value[DigitalInputCounter]) \in Int
  BY MessageTyped, TruncateTyped
<1> QED
  BY <1>1 DEF Recount, StopwatchMem

LEMMA StopwatchRowsTyped ==
    ASSUME NEW new \in StopwatchMem, NEW m \in Message, NEW t \in Nat
    PROVE  StopwatchRows(new, m, t) \in Seq(Writes(StopwatchMem))
<1> DEFINE counted == Recount(new, m)
           countRow == OnChange("count", counted.count, t, counted)
           state(v, then) == OnChange("state", v, t, then)
           duration(then) == OnChange("duration", new.duration, t, then)
           total == OnChange("cumulativeTime", new.cumulativeTime, t, counted)
           W == Writes(StopwatchMem)
<1>1. counted \in StopwatchMem
  BY RecountTyped
<1>2. counted.count \in Int
  BY <1>1 DEF StopwatchMem
<1>3. StopwatchRows(new, m, t) =
        CASE new.duration = None ->
               << state(0, new), state(1, counted), countRow >>
          [] new.duration # None /\ new.state ->
               << duration(counted), countRow >>
          [] new.duration # None /\ ~new.state ->
               << state(1, new), state(0, new), duration(new), total, countRow >>
  BY DEF StopwatchRows
<1> HIDE DEF counted
<1>4. countRow \in W /\ total \in W
  BY <1>1, <1>2, OnChangeTyped DEF Labels, StopwatchMem
<1>5. /\ state(0, new) \in W /\ state(1, counted) \in W
      /\ state(1, new) \in W
  BY <1>1, OnChangeTyped DEF Labels
<1>6. new.duration # None => duration(new) \in W /\ duration(counted) \in W
  BY <1>1, OnChangeTyped DEF Labels, StopwatchMem
<1>7. new.state \in BOOLEAN
  BY DEF StopwatchMem
<1> HIDE DEF countRow, state, duration, total, W
<1>8. CASE new.duration = None
  <2>1. StopwatchRows(new, m, t) = << state(0, new), state(1, counted), countRow >>
    BY <1>3, <1>8
  <2> QED
    BY <2>1, <1>4, <1>5 DEF W
<1>9. CASE new.duration # None /\ new.state
  <2>1. StopwatchRows(new, m, t) = << duration(counted), countRow >>
    BY <1>3, <1>9
  <2> QED
    BY <2>1, <1>4, <1>6, <1>9 DEF W
<1>10. CASE new.duration # None /\ ~new.state
  <2>1. StopwatchRows(new, m, t) =
          << state(1, new), state(0, new), duration(new), total, countRow >>
    BY <1>3, <1>10
  <2> QED
    BY <2>1, <1>4, <1>5, <1>6, <1>10 DEF W
<1> QED
  BY <1>7, <1>8, <1>9, <1>10

LEMMA StopwatchTyped ==
    ASSUME NEW s \in StopwatchMem, NEW m \in Message, NEW now0 \in Nat
    PROVE  StopwatchHandle(s, m, now0) \in Runs(StopwatchMem)
<1> DEFINE t == IF m.time = ZeroTime THEN now0 ELSE m.time
           new == CASE m.state = TRUE  /\ ~s.state -> Started(s, t)
                    [] m.state = TRUE  /\ s.state  -> Running(s, t)
                    [] m.state = FALSE /\ s.state  -> Stopped(s, t)
                    [] m.state = FALSE /\ ~s.state -> s
           rows == StopwatchRows(new, m, t)
<1>1. CASE m.obj # "digitalinput" \/ m.state = None \/ (~m.state /\ ~s.state)
  BY <1>1, EmptyRunsTyped DEF StopwatchHandle
<1>2. CASE ~(m.obj # "digitalinput" \/ m.state = None \/ (~m.state /\ ~s.state))
  <2>1. StopwatchHandle(s, m, now0) = Run(new, rows, "changed", "stop")
    BY <1>2 DEF StopwatchHandle
  <2>2. t \in Nat
    BY MessageTyped
  <2>3. m.state \in BOOLEAN /\ s.state \in BOOLEAN
    BY <1>2, MessageTyped DEF StopwatchMem
  <2> HIDE DEF t
  <2>4. new \in {Started(s, t), Running(s, t), Stopped(s, t)}
    BY <1>2, <2>3
  <2>5. new \in StopwatchMem
    BY <2>2, <2>4, StopwatchStepsTyped
  <2> HIDE DEF new
  <2>6. rows \in Seq(Writes(StopwatchMem))
    BY <2>2, <2>5, StopwatchRowsTyped
  <2> HIDE DEF rows
  <2> QED
    BY <2>1, <2>5, <2>6, RunTyped DEF Outcomes
<1> QED
  BY <1>1, <1>2
-----------------------------------------------------------------------------
LEMMA TimerTyped ==
    ASSUME NEW s \in TimerMem, NEW m \in Message
    PROVE  TimerHandle(s, m) \in Runs(TimerMem)
<1> DEFINE t == m.time
           new == IF m.state = TRUE THEN TimerStarted(s, t) ELSE TimerStopped(s, t)
           before == IF new.state THEN new ELSE s
           rows == TimerRows(s, new, t)
<1>1. t \in Nat
  BY MessageTyped
<1>2. new \in TimerMem
  <2>1. TimerStarted(s, t) \in TimerMem
    BY <1>1 DEF TimerStarted, TimerMem
  <2>2. t - s.startTime \in Int /\ s.totalDuration + (t - s.startTime) \in Int
    BY <1>1 DEF TimerMem
  <2>3. TimerStopped(s, t) \in TimerMem
    BY <1>1, <2>2 DEF TimerStopped, TimerMem
  <2> QED
    BY <2>1, <2>3
<1> HIDE DEF new
<1>3. before \in TimerMem /\ new.state \in BOOLEAN /\ new.totalDuration \in Int
  BY <1>2 DEF TimerMem
<1>4. Number(~new.state) \in Int /\ Number(new.state) \in Int
  BY <1>3, NumberTyped
<1>5. /\ OnChange("state", Number(~new.state), t, before) \in Writes(TimerMem)
      /\ OnChange("state", Number(new.state), t, new) \in Writes(TimerMem)
      /\ OnChange("time", new.totalDuration, t, new) \in Writes(TimerMem)
  BY <1>1, <1>2, <1>3, <1>4, OnChangeTyped DEF Labels
<1>6. rows \in Seq(Writes(TimerMem))
  BY <1>5 DEF TimerRows
<1>7. TimerHandle(s, m) \in {Rejected(s), Unchanged(s), Run(before, rows, "changed", "stop")}
  BY DEF TimerHandle, new
<1> HIDE DEF rows, before
<1> QED
  BY <1>3, <1>6, <1>7, EmptyRunsTyped, RunTyped DEF Outcomes
-----------------------------------------------------------------------------
LEMMA BuildingTyped ==
    ASSUME NEW s \in BuildingMem, NEW m \in Message
    PROVE  BuildingHandle(s, m) \in Runs(BuildingMem)
<1> DEFINE v == m.value[SensorValue]
           used == [power  |-> IF m.obj = "power" THEN v ELSE s.power,
                    energy |-> IF m.obj = "energy" THEN v ELSE s.energy]
           row == IF m.obj = "power" THEN OnChange("power", used.power, m.time, used)
                                     ELSE OnChange("energy", used.energy, m.time, used)
<1>1. CASE m.obj \notin {"power", "energy"} \/ v = None
  BY <1>1, EmptyRunsTyped DEF BuildingHandle
<1>2. CASE m.obj \in {"power", "energy"} /\ v # None
  <2>1. BuildingHandle(s, m) \in {Unchanged(used), Run(used, << row >>, "changed", "stop")}
    BY <1>2 DEF BuildingHandle
  <2>2. used \in BuildingMem
    BY <1>2, MessageTyped DEF BuildingMem
  <2> HIDE DEF used
  <2>3. /\ OnChange("power", used.power, m.time, used) \in Writes(BuildingMem)
        /\ OnChange("energy", used.energy, m.time, used) \in Writes(BuildingMem)
    BY <2>2, MessageTyped, OnChangeTyped DEF Labels, BuildingMem
  <2>4. row \in Writes(BuildingMem)
    BY <2>3
  <2> HIDE DEF row
  <2>5. << row >> \in Seq(Writes(BuildingMem))
    BY <2>4
  <2> QED
    BY <2>1, <2>2, <2>5, EmptyRunsTyped, RunTyped DEF Outcomes
<1> QED
  BY <1>1, <1>2
-----------------------------------------------------------------------------
LEMMA MeasuredTyped ==
    ASSUME NEW s \in AirQualityMem, NEW m \in Message, NEW i \in 1 .. 7
    PROVE  Measured(s, m, i) \in Int
<1>1. AirResource[i] \in Resources
  BY DEF AirResource, Resources
<1> QED
  BY <1>1, MessageTyped DEF Measured, AirQualityMem

LEMMA AirRowTyped ==
    ASSUME NEW s \in AirQualityMem, NEW m \in Message, NEW t \in Nat, NEW i \in 1 .. 7
    PROVE  AirRow(s, m, i, t) \in Seq(Writes(AirQualityMem))
<1> DEFINE values == [k \in 1 .. 7 |-> Measured(s, m, k)]
           last == \A k \in i + 1 .. 7 : ~Differs(s, m, k)
           then == [values |-> values, timestamp |-> IF last THEN t ELSE s.timestamp]
           row == OnChange(AirLabels[i], values[i], m.time, then)
<1>1. values \in [1 .. 7 -> Int]
  BY MeasuredTyped
<1>2. AirLabels[i] \in Labels
  BY DEF AirLabels, Labels
<1>3. AirRow(s, m, i, t) = IF Differs(s, m, i) THEN << row >> ELSE << >>
  BY DEF AirRow
<1> HIDE DEF values, last
<1>4. then \in AirQualityMem
  BY <1>1 DEF AirQualityMem
<1> HIDE DEF then
<1>5. row \in Writes(AirQualityMem)
  BY <1>1, <1>2, <1>4, MessageTyped, OnChangeTyped
<1> HIDE DEF row
<1> QED
  BY <1>3, <1>5

LEMMA AirQualityTyped ==
    ASSUME NEW s \in AirQualityMem, NEW m \in Message, NEW t \in Nat
    PROVE  AirQualityHandle(s, m, t) \in Runs(AirQualityMem)
<1> DEFINE begin == [s EXCEPT !.values = [i \in 1 .. 7 |-> Measured(s, m, i)]]
<1>1. begin \in AirQualityMem
  BY MeasuredTyped DEF AirQualityMem
<1>2. AirRows(s, m, t) \in Seq(Writes(AirQualityMem))
  <2> DEFINE row(i) == AirRow(s, m, i, t)
  <2>1. AirRows(s, m, t) =
          row(1) \o row(2) \o row(3) \o row(4) \o row(5) \o row(6) \o row(7)
    BY DEF AirRows
  <2>2. \A i \in 1 .. 7 : row(i) \in Seq(Writes(AirQualityMem))
    BY AirRowTyped
  <2> HIDE DEF row
  <2> QED
    BY <2>1, <2>2
<1>3. AirQualityHandle(s, m, t) \in
        {Rejected(s), Run(begin, AirRows(s, m, t), "changed", "join"),
         Run(begin, AirRows(s, m, t), "unchanged", "join")}
  BY DEF AirQualityHandle
<1> HIDE DEF begin
<1> QED
  BY <1>1, <1>2, <1>3, EmptyRunsTyped, RunTyped DEF Outcomes
-----------------------------------------------------------------------------
LEMMA PercentageTyped ==
    ASSUME NEW current \in Int, NEW maxLevel \in Nat, maxLevel # 0
    PROVE  Percentage(current, maxLevel) \in Int
<1>1. (current * Hundred) \in Int
  BY DEF Hundred
<1>2. (current * Hundred) \div maxLevel \in Int
  BY <1>1
<1> QED
  BY <1>2 DEF Percentage, Hundred

LEMMA NonzeroMaximum ==
    ASSUME NEW n \in Nat, IsNotZero(n)
    PROVE  n # 0
  BY DEF IsNotZero, Abs

LEMMA LevelNewTyped ==
    ASSUME NEW v \in Int
    PROVE  LevelNew(v) \in LevelMem
<1>1. LevelConfig.maxLevel \in Nat /\ LevelConfig.meanLevel \in Int
  BY LevelConfigAssumption
<1>2. IsNotZero(LevelConfig.maxLevel) => Percentage(v, LevelConfig.maxLevel) \in Int
  BY <1>1, PercentageTyped, NonzeroMaximum
<1> QED
  BY <1>1, <1>2 DEF LevelNew, LevelMem, OffsetOf

LEMMA RepercentTyped ==
    ASSUME NEW s \in LevelMem
    PROVE  /\ Repercent(s) \in LevelMem
           /\ Repercent(s).current = s.current
           /\ Repercent(s).maxLevel = s.maxLevel
           /\ Repercent(s).percent # s.percent => IsNotZero(s.maxLevel)
<1>1. IsNotZero(s.maxLevel) => Percentage(s.current, s.maxLevel) \in Int
  BY PercentageTyped, NonzeroMaximum DEF LevelMem
<1> QED
  BY <1>1 DEF Repercent, LevelMem

LEMMA LevelAtTyped ==
    ASSUME NEW d \in Int
    PROVE  LevelAt(d) \in Int /\ LevelAt(d) % Centimetre = 0
<1>1. LevelConfig.maxDistance \in Int /\ LevelConfig.cosAlpha \in Int
  BY LevelConfigAssumption
<1> DEFINE n == (LevelConfig.maxDistance - d) * LevelConfig.cosAlpha
<1>2. n \in Int
  BY <1>1
<1> HIDE DEF n
<1> DEFINE k == Round(n, 20000)
<1>3. k \in Int
  BY <1>2, RoundTyped
<1>4. LevelAt(d) = 20 * k
  BY DEF LevelAt, Centimetre, n
<1> HIDE DEF k
<1>5. 20 * k \in Int /\ (20 * k) % 20 = 0
  BY <1>3
<1> QED
  BY <1>4, <1>5 DEF Centimetre

LEMMA PercentRowTyped ==
    ASSUME NEW new \in LevelMem, NEW then \in LevelMem, NEW t \in Nat, new.percent \in Int
    PROVE  PercentRow(new, t, then) \in Writes(LevelMem)
  BY OnChangeTyped DEF PercentRow, Labels

LEMMA LevelRowTyped ==
    ASSUME NEW new \in LevelMem, NEW then \in LevelMem, NEW t \in Nat
    PROVE  OnChange("level", new.current, t, then) \in Writes(LevelMem)
  BY OnChangeTyped DEF Labels, LevelMem

LEMMA HandleDistanceTyped ==
    ASSUME NEW s \in LevelMem, NEW m \in Message
    PROVE  HandleDistance(s, m) \in Runs(LevelMem)
<1> DEFINE v      == m.value[SensorValue]
           raised == [s EXCEPT !.current = LevelAt(v + LevelConfig.offsetLevel)]
           scaled == Repercent(raised)
           new    == [scaled EXCEPT !.offset = IF IsNotZero(LevelConfig.meanLevel)
                                               THEN scaled.current - LevelConfig.meanLevel ELSE @]
           level(then) == OnChange("level", new.current, m.time, then)
           one == << level(new) >>
           two == << level(scaled), PercentRow(scaled, m.time, new) >>
<1>1. CASE v = None
  BY <1>1, EmptyRunsTyped DEF HandleDistance
<1>2. CASE v # None
  <2>1. HandleDistance(s, m) =
          IF ~LevelHasChanged(s.current, raised.current) THEN Unchanged(raised)
          ELSE IF IsNotZero(s.maxLevel) /\ PercentStored(s.percent, scaled.percent)
               THEN Run(raised, two, "changed", "join")
          ELSE Run(raised, one, "changed", "join")
    BY <1>2 DEF HandleDistance
  <2>2. LevelAt(v + LevelConfig.offsetLevel) \in Int
    BY <1>2, MessageTyped, LevelAtTyped, LevelConfigAssumption
  <2>3. raised \in LevelMem
    BY <2>2 DEF LevelMem
  <2> HIDE DEF raised
  <2>4. scaled \in LevelMem
    BY <2>3, RepercentTyped
  <2>40. PercentStored(s.percent, scaled.percent) => scaled.percent \in Int
    BY <2>4 DEF PercentStored, LevelMem
  <2> HIDE DEF scaled
  <2>5. new \in LevelMem
    BY <2>4, LevelConfigAssumption DEF LevelMem
  <2> HIDE DEF new
  <2>6. level(new) \in Writes(LevelMem) /\ level(scaled) \in Writes(LevelMem)
    BY <2>4, <2>5, MessageTyped, LevelRowTyped
  <2>7. PercentStored(s.percent, scaled.percent)
        => PercentRow(scaled, m.time, new) \in Writes(LevelMem)
    BY <2>4, <2>40, <2>5, MessageTyped, PercentRowTyped
  <2> HIDE DEF level
  <2>8. /\ one \in Seq(Writes(LevelMem))
        /\ PercentStored(s.percent, scaled.percent) => two \in Seq(Writes(LevelMem))
    BY <2>6, <2>7
  <2> HIDE DEF one, two
  <2> QED
    BY <2>1, <2>3, <2>8, EmptyRunsTyped, RunTyped DEF Outcomes
<1> QED
  BY <1>1, <1>2

LEMMA HandleFillingLevelTyped ==
    ASSUME NEW s \in LevelMem, NEW m \in Message
    PROVE  HandleFillingLevel(s, m) \in Runs(LevelMem)
<1> DEFINE p == m.value[ActualFillingPercentage]
           l == m.value[ActualFillingLevel]
           h == m.value[HighThreshold]
           t == m.time
           W == Writes(LevelMem)
           usesPercent == p # None /\ ~IsNotZero(LevelConfig.offsetLevel)
           raised == [s EXCEPT !.maxLevel = IF h # None /\ h > @ THEN h ELSE @]
           shown  == [raised EXCEPT !.percent = IF usesPercent THEN p ELSE @]
           filled == Repercent([shown EXCEPT !.current = l + LevelConfig.offsetLevel])
           shownRow(then) == << PercentRow(shown, t, then) >>
           levelRow == OnChange("level", filled.current, t, filled)
           isStored == IsNotZero(shown.maxLevel) /\ PercentStored(shown.percent, filled.percent)
           filledRows ==
               IF isStored
               THEN << PercentRow(filled, t, filled), levelRow >>
               ELSE << levelRow >>
<1>1. /\ p \in Int \cup {None} /\ l \in Int \cup {None} /\ h \in Int \cup {None}
      /\ t \in Nat
  BY MessageTyped
<1>2. \/ HandleFillingLevel(s, m) \in {Rejected(s), Unchanged(raised)}
      \/ /\ usesPercent
         /\ HandleFillingLevel(s, m) \in
              {Run(shown, shownRow(shown), "changed", "stop"),
               Run(shown, shownRow(shown), "changed", "join"),
               Run(shown, shownRow(shown), "unchanged", "drop")}
      \/ /\ usesPercent /\ l # None
         /\ HandleFillingLevel(s, m) =
              Run(shown, shownRow(filled) \o filledRows, "changed", "join")
      \/ /\ l # None
         /\ HandleFillingLevel(s, m) = Run(filled, filledRows, "changed", "join")
  BY <1>1 DEF HandleFillingLevel
<1>3. raised \in LevelMem
  BY <1>1 DEF LevelMem
<1> HIDE DEF raised
<1>4. shown \in LevelMem /\ (usesPercent => shown.percent \in Int)
  BY <1>1, <1>3 DEF LevelMem
<1> HIDE DEF shown
<1>5. usesPercent => shownRow(shown) \in Seq(W)
  BY <1>1, <1>4, PercentRowTyped
<1>6. l # None => /\ filled \in LevelMem
                  /\ filledRows \in Seq(W)
                  /\ usesPercent => shownRow(filled) \in Seq(W)
  <2> SUFFICES ASSUME l # None
               PROVE  /\ filled \in LevelMem
                      /\ filledRows \in Seq(W)
                      /\ usesPercent => shownRow(filled) \in Seq(W)
    OBVIOUS
  <2> DEFINE moved == [shown EXCEPT !.current = l + LevelConfig.offsetLevel]
  <2>1. moved \in LevelMem /\ moved.percent = shown.percent
    BY <1>1, <1>4, LevelConfigAssumption DEF LevelMem
  <2> HIDE DEF moved
  <2>2. filled = Repercent(moved)
    BY DEF moved
  <2> HIDE DEF filled
  <2>3. filled \in LevelMem /\ (isStored => filled.percent \in Int)
    BY <2>1, <2>2, RepercentTyped DEF PercentStored, LevelMem
  <2> HIDE DEF isStored
  <2>4. levelRow \in W
    BY <1>1, <2>3, LevelRowTyped
  <2>5. isStored => PercentRow(filled, t, filled) \in W
    BY <1>1, <2>3, PercentRowTyped
  <2>6. usesPercent => PercentRow(shown, t, filled) \in W
    BY <1>1, <1>4, <2>3, PercentRowTyped
  <2> HIDE DEF levelRow, W
  <2> QED
    BY <2>3, <2>4, <2>5, <2>6
<1> HIDE DEF filled, filledRows, shownRow, usesPercent
<1>7. usesPercent /\ l # None => shownRow(filled) \o filledRows \in Seq(W)
  BY <1>6
<1> QED
  BY <1>2, <1>3, <1>4, <1>5, <1>6, <1>7, EmptyRunsTyped, RunTyped DEF Outcomes

LEMMA LevelTyped ==
    ASSUME NEW s \in LevelMem, NEW m \in Message
    PROVE  LevelHandle(s, m) \in Runs(LevelMem)
  BY HandleDistanceTyped, HandleFillingLevelTyped, EmptyRunsTyped DEF LevelHandle
-----------------------------------------------------------------------------
(* A handler called with a memory of its type stays within that type, and   *)
(* so does every row it stores (functions.go: f.handle).                    *)
LEMMA HandleTyped ==
    ASSUME NEW type \in FunctionTypeNames, NEW s \in Memory(type),
           NEW m \in Message, NEW t \in Nat
    PROVE  Handle(type, s, m, t) \in Runs(Memory(type))
<1>1. CASE type = "presence"
  BY <1>1, PresenceTyped DEF Handle, Memory
<1>2. CASE type = "counter"
  BY <1>2, CounterTyped DEF Handle, Memory
<1>3. CASE type = "digitalinput"
  BY <1>3, DigitalInputTyped DEF Handle, Memory
<1>4. CASE type = "waterquality"
  BY <1>4, WaterQualityTyped DEF Handle, Memory
<1>5. CASE type = "stopwatch"
  BY <1>5, StopwatchTyped DEF Handle, Memory
<1>6. CASE type = "building"
  BY <1>6, BuildingTyped DEF Handle, Memory
<1>7. CASE type = "airquality"
  BY <1>7, AirQualityTyped DEF Handle, Memory
<1>8. CASE type = "level"
  BY <1>8, LevelTyped DEF Handle, Memory
<1>9. CASE type = "timer"
  BY <1>9, TimerTyped DEF Handle, Memory
<1> QED
  BY <1>1, <1>2, <1>3, <1>4, <1>5, <1>6, <1>7, <1>8, <1>9 DEF FunctionTypeNames

LEMMA NewTyped ==
    ASSUME NEW type \in FunctionTypeNames, NEW v \in Int
    PROVE  New(type, v) \in Memory(type)
<1>1. PresenceNew(v) \in PresenceMem
  BY DEF PresenceNew, PresenceMem
<1>2. CounterNew \in CounterMem
  BY DEF CounterNew, CounterMem
<1>3. DigitalInputNew(v) \in DigitalInputMem
  BY DEF DigitalInputNew, DigitalInputMem, ZeroTime
<1>4. WaterQualityNew \in WaterQualityMem
  BY DEF WaterQualityNew, WaterQualityMem, ZeroTime
<1>5. StopwatchNew \in StopwatchMem
  BY DEF StopwatchNew, StopwatchMem, ZeroTime
<1>6. BuildingNew \in BuildingMem
  BY DEF BuildingNew, BuildingMem
<1>7. AirQualityNew \in AirQualityMem
  BY DEF AirQualityNew, AirQualityMem, ZeroTime
<1>8. TimerNew \in TimerMem
  BY DEF TimerNew, TimerMem, ZeroTime
<1> QED
  BY <1>1, <1>2, <1>3, <1>4, <1>5, <1>6, <1>7, <1>8, LevelNewTyped
     DEF FunctionTypeNames, New, Memory
-----------------------------------------------------------------------------
(* What a call of a candid handler leaves behind when it reports no change. *)
FinalMemory(r) == FinalOf(r.begin, r.writes)

LEMMA EmptyRunsFinal ==
    ASSUME NEW s
    PROVE  /\ FinalMemory(Unchanged(s)) = s
           /\ FinalMemory(Rejected(s)) = s
  BY DEF FinalMemory, FinalOf, Unchanged, Rejected, Run

LEMMA RunOutcome ==
    ASSUME NEW begin, NEW writes, NEW outcome, NEW onerr
    PROVE  Run(begin, writes, outcome, onerr).outcome = outcome
  BY DEF Run

LEMMA PresenceCandid ==
    ASSUME NEW s, NEW m, PresenceHandle(s, m).outcome # "changed"
    PROVE  FinalMemory(PresenceHandle(s, m)) = s
  BY EmptyRunsFinal, RunOutcome DEF PresenceHandle

(* An edge that is counted is also a change of state: no row, no change. *)
LEMMA CounterCandid ==
    ASSUME NEW s \in CounterMem, NEW m \in Message,
           CounterHandle(s, m).outcome # "changed"
    PROVE  FinalMemory(CounterHandle(s, m)) = s
<1>1. CASE m.obj # "digitalinput" \/ m.state = None
  BY <1>1, EmptyRunsFinal DEF CounterHandle
<1>2. CASE m.obj = "digitalinput" /\ m.state # None
  <2> DEFINE new == Counted(s, m)
             countRows == IF m.value[DigitalInputCounter] # None /\ new.count # s.count
                          THEN << OnChange("count", new.count, m.time, new) >> ELSE << >>
             stateRows == IF new.state # s.state
                          THEN << OnChange("state", Number(new.state), m.time, new) >>
                          ELSE << >>
             rows == CounterRows(s, new, m)
  <2>1. CounterHandle(s, m) =
          Run(new, rows, IF rows = << >> THEN "unchanged" ELSE "changed", "join")
    BY <1>2 DEF CounterHandle
  <2>2. rows = << >>
    BY <2>1, RunOutcome
  <2>3. rows = countRows \o stateRows
    BY DEF CounterRows
  <2>4. countRows \in Seq(Writes(CounterMem)) /\ stateRows \in Seq(Writes(CounterMem))
    <3>1. new \in CounterMem
      BY <1>2, CountedTyped
    <3> HIDE DEF new
    <3>2. OnChange("count", new.count, m.time, new) \in Writes(CounterMem)
      BY <3>1, MessageTyped, OnChangeTyped DEF Labels, CounterMem
    <3>3. Number(new.state) \in Int
      BY <3>1, NumberTyped DEF CounterMem
    <3>4. OnChange("state", Number(new.state), m.time, new) \in Writes(CounterMem)
      BY <3>1, <3>3, MessageTyped, OnChangeTyped DEF Labels
    <3> QED
      BY <3>2, <3>4
  <2>5. countRows = << >> /\ stateRows = << >>
    <3> HIDE DEF countRows, stateRows, rows
    <3>1. Len(countRows \o stateRows) = Len(countRows) + Len(stateRows)
      BY <2>4
    <3> QED
      BY <2>2, <2>3, <2>4, <3>1
  <2>6. new.state = s.state
    BY <2>5
  <2>7. new.count = s.count
    <3>1. CASE m.value[DigitalInputCounter] # None
      BY <2>5, <3>1
    <3>2. CASE m.value[DigitalInputCounter] = None
      <4>1. ~RisingEdge(s, m)
        BY <2>6 DEF RisingEdge, Counted
      <4>2. s.count + Number(RisingEdge(s, m)) = s.count
        BY <4>1 DEF Number, CounterMem
      <4> QED
        BY <3>2, <4>2 DEF Counted
    <3> QED
      BY <3>1, <3>2
  <2>8. new = s
    BY <2>6, <2>7 DEF Counted, CounterMem
  <2> QED
    BY <2>1, <2>2, <2>8 DEF FinalMemory, FinalOf, Run
<1> QED
  BY <1>1, <1>2

LEMMA DigitalInputCandid ==
    ASSUME NEW s, NEW m, DigitalInputHandle(s, m).outcome # "changed"
    PROVE  FinalMemory(DigitalInputHandle(s, m)) = s
  BY EmptyRunsFinal, RunOutcome DEF DigitalInputHandle

(* A newer measurement of the same temperature only moves the time. *)
LEMMA WaterQualityCandid ==
    ASSUME NEW s, NEW m, NEW t, WaterQualityHandle(s, m, t).outcome # "changed"
    PROVE  FinalMemory(WaterQualityHandle(s, m, t)).temperature = s.temperature
  BY EmptyRunsFinal, RunOutcome DEF WaterQualityHandle

LEMMA StopwatchCandid ==
    ASSUME NEW s, NEW m, NEW t, StopwatchHandle(s, m, t).outcome # "changed"
    PROVE  FinalMemory(StopwatchHandle(s, m, t)) = s
  BY EmptyRunsFinal, RunOutcome DEF StopwatchHandle

LEMMA TimerCandid ==
    ASSUME NEW s, NEW m, TimerHandle(s, m).outcome # "changed"
    PROVE  FinalMemory(TimerHandle(s, m)) = s
  BY EmptyRunsFinal, RunOutcome DEF TimerHandle

(* Without a change no value is assigned and no row is stored. *)
LEMMA AirQualityCandid ==
    ASSUME NEW s \in AirQualityMem, NEW m, NEW t,
           AirQualityHandle(s, m, t).outcome # "changed"
    PROVE  FinalMemory(AirQualityHandle(s, m, t)) = s
<1>1. CASE m.obj # "airquality"
  BY <1>1, EmptyRunsFinal DEF AirQualityHandle
<1>2. CASE m.obj = "airquality"
  <2> DEFINE begin == [s EXCEPT !.values = [i \in 1 .. 7 |-> Measured(s, m, i)]]
             run0(outcome) == Run(begin, AirRows(s, m, t), outcome, "join")
  <2>1. AirQualityHandle(s, m, t) = IF AirHasChanged(s, m) THEN run0("changed") ELSE run0("unchanged")
    BY <1>2 DEF AirQualityHandle
  <2>2. ~AirHasChanged(s, m)
    BY <2>1, RunOutcome
  <2>3. \A i \in 1 .. 7 : Measured(s, m, i) = s.values[i]
    BY <2>2 DEF AirHasChanged, Differs
  <2>4. begin = s
    BY <2>3 DEF AirQualityMem
  <2>5. \A i \in 1 .. 7 : AirRow(s, m, i, t) = << >>
    BY <2>3 DEF AirRow, Differs
  <2>6. AirRows(s, m, t) = << >>
    BY <2>5 DEF AirRows
  <2> HIDE DEF begin
  <2> QED
    BY <2>1, <2>2, <2>4, <2>6 DEF FinalMemory, FinalOf, Run
<1> QED
  BY <1>1, <1>2

(* A distance that is found not to have changed the level has moved it by   *)
(* less than a millimetre, and to a whole number of centimetres.            *)
LEMMA DistanceCandid ==
    ASSUME NEW s \in LevelMem, NEW m \in Message, HandleDistance(s, m).outcome # "changed"
    PROVE  Stays("level", s, FinalMemory(HandleDistance(s, m)))
<1> DEFINE v      == m.value[SensorValue]
           level  == LevelAt(v + LevelConfig.offsetLevel)
           raised == [s EXCEPT !.current = level]
<1>1. CASE v = None
  <2>1. FinalMemory(HandleDistance(s, m)) = s
    BY <1>1, EmptyRunsFinal DEF HandleDistance
  <2> QED
    BY <2>1 DEF Stays
<1>2. CASE v # None
  <2>1. HandleDistance(s, m) = Unchanged(raised) /\ ~LevelHasChanged(s.current, raised.current)
    BY <1>2, RunOutcome DEF HandleDistance
  <2>2. raised.current = level
    BY DEF LevelMem
  <2>3. level % Centimetre = 0
    BY <1>2, MessageTyped, LevelAtTyped, LevelConfigAssumption
  <2> HIDE DEF raised, level
  <2> QED
    BY <2>1, <2>2, <2>3, EmptyRunsFinal DEF Stays
<1> QED
  BY <1>1, <1>2

(* A filling level that is new is announced, also when it comes with a      *)
(* percentage.                                                              *)
LEMMA FillingLevelCandid ==
    ASSUME NEW s \in LevelMem, NEW m \in Message,
           HandleFillingLevel(s, m).outcome # "changed"
    PROVE  FinalMemory(HandleFillingLevel(s, m)).current = s.current
<1> DEFINE usesPercent == /\ m.value[ActualFillingPercentage] # None
                          /\ ~IsNotZero(LevelConfig.offsetLevel)
           raised == [s EXCEPT !.maxLevel =
                         IF m.value[HighThreshold] # None /\ m.value[HighThreshold] > @
                         THEN m.value[HighThreshold] ELSE @]
           shown == [raised EXCEPT !.percent =
                        IF usesPercent THEN m.value[ActualFillingPercentage] ELSE @]
           row == PercentRow(shown, m.time, shown)
           result == HandleFillingLevel(s, m)
<1>1. raised.current = s.current
  BY DEF LevelMem
<1>2. shown.current = s.current
  BY <1>1 DEF LevelMem
<1> HIDE DEF raised, shown
<1>3. row.then = shown
  BY DEF PercentRow, OnChange
<1>4. \/ result.outcome = "changed"
      \/ result \in {Rejected(s), Unchanged(raised), Run(shown, << row >>, "unchanged", "drop")}
  BY MessageTyped DEF HandleFillingLevel, Run, raised, shown
<1>5. FinalMemory(Run(shown, << row >>, "unchanged", "drop")) = shown
  BY <1>3 DEF FinalMemory, FinalOf, Run
<1> HIDE DEF result, row
<1> QED
  BY <1>1, <1>2, <1>4, <1>5, EmptyRunsFinal DEF result

(* What a level keeps to itself does not add up. *)
LEMMA LevelCandid ==
    ASSUME NEW s \in LevelMem, NEW m \in Message, LevelHandle(s, m).outcome # "changed"
    PROVE  Stays("level", s, FinalMemory(LevelHandle(s, m)))
<1>1. CASE m.obj = "distance"
  BY <1>1, DistanceCandid DEF LevelHandle
<1>2. CASE m.obj = "fillinglevel"
  BY <1>2, FillingLevelCandid DEF LevelHandle, Stays
<1>3. CASE m.obj \notin {"distance", "fillinglevel"}
  BY <1>3, EmptyRunsFinal DEF LevelHandle, Stays
<1> QED
  BY <1>1, <1>2, <1>3

(* A candid handler that reports no change has made none that subscribers    *)
(* are shown (functions.go: changed).                                        *)
LEMMA HandleCandid ==
    ASSUME NEW type \in CandidTypes, NEW s \in Memory(type),
           NEW m \in Message, NEW t \in Nat,
           Handle(type, s, m, t).outcome # "changed"
    PROVE  Stays(type, s, FinalMemory(Handle(type, s, m, t)))
<1>1. CASE type = "presence"
  BY <1>1, PresenceCandid DEF Handle, View, Stays
<1>2. CASE type = "counter"
  BY <1>2, CounterCandid DEF Handle, View, Memory, Stays
<1>3. CASE type = "digitalinput"
  BY <1>3, DigitalInputCandid DEF Handle, View, Stays
<1>4. CASE type = "waterquality"
  BY <1>4, WaterQualityCandid DEF Handle, View, Stays
<1>5. CASE type = "stopwatch"
  BY <1>5, StopwatchCandid DEF Handle, View, Stays
<1>6. CASE type = "airquality"
  BY <1>6, AirQualityCandid DEF Handle, View, Memory, Stays
<1>7. CASE type = "level"
  BY <1>7, LevelCandid DEF Handle, Memory
<1>8. CASE type = "timer"
  BY <1>8, TimerCandid DEF Handle, View, Stays
<1> QED
  BY <1>1, <1>2, <1>3, <1>4, <1>5, <1>6, <1>7, <1>8 DEF CandidTypes, FunctionTypeNames
-----------------------------------------------------------------------------
(* The count that a handler takes from a message is a number. *)
LEMMA CountTakenTyped ==
    ASSUME NEW type, NEW m \in Message
    PROVE  CountTaken(type, m) \in Int \cup {None}
<1> DEFINE count == m.value[DigitalInputCounter]
<1>1. count # None => Ceil(count) \in Int /\ Truncate(count) \in Int
  BY MessageTyped, CeilTyped, TruncateTyped
<1>2. CountTaken(type, m) \in {Ceil(count), Truncate(count), None}
  BY DEF CountTaken
<1>3. CountTaken(type, m) # None => count # None
  BY DEF CountTaken
<1> HIDE DEF count
<1> QED
  BY <1>1, <1>2, <1>3
-----------------------------------------------------------------------------
(* What a handler stores it reports as a change, unless it means to forget  *)
(* an error of storing it.                                                  *)
Reported(r) == r.writes = << >> \/ r.onerr = "drop" \/ r.outcome = "changed"

(* When a run is one that reports what it stores. *)
LEMMA RunReported ==
    ASSUME NEW begin, NEW writes, NEW outcome, NEW onerr,
           writes = << >> \/ onerr = "drop" \/ outcome = "changed"
    PROVE  Reported(Run(begin, writes, outcome, onerr))
BY DEF Reported, Run

(* Runs that store nothing have nothing to report. *)
LEMMA EmptyRunsReported ==
    ASSUME NEW s
    PROVE  Reported(Unchanged(s)) /\ Reported(Rejected(s))
BY DEF Reported, Unchanged, Rejected, Run

(* An air quality stores a row for what differs only. *)
LEMMA AirQualityReported ==
    ASSUME NEW s, NEW m, NEW t
    PROVE  Reported(AirQualityHandle(s, m, t))
<1>. DEFINE begin == [s EXCEPT !.values = [i \in 1 .. 7 |-> Measured(s, m, i)]]
            rows == AirRows(s, m, t)
            outcome == IF AirHasChanged(s, m) THEN "changed" ELSE "unchanged"
<1>1. CASE AirHasChanged(s, m)
  <2>1. outcome = "changed"
    BY <1>1
  <2>. HIDE DEF begin, rows, outcome
  <2>2. Reported(Run(begin, rows, outcome, "join"))
    BY <2>1, RunReported
  <2>. QED
    BY <2>2, EmptyRunsReported DEF AirQualityHandle, begin, rows, outcome
<1>2. CASE ~AirHasChanged(s, m)
  <2>1. \A i \in 1 .. 7 : AirRow(s, m, i, t) = << >>
    BY <1>2 DEF AirHasChanged, AirRow
  <2>2. << >> \o << >> = << >>
    OBVIOUS
  <2>3. rows = << >>
    BY <2>1, <2>2 DEF AirRows
  <2>. HIDE DEF begin, rows, outcome
  <2>4. Reported(Run(begin, rows, outcome, "join"))
    BY <2>3, RunReported
  <2>. QED
    BY <2>4, EmptyRunsReported DEF AirQualityHandle, begin, rows, outcome
<1>. QED
  BY <1>1, <1>2

(* A level forgets the error of a percentage that came with no new level. *)
LEMMA LevelReported ==
    ASSUME NEW s, NEW m
    PROVE  Reported(LevelHandle(s, m))
<1>1. Reported(HandleDistance(s, m))
  BY RunReported, EmptyRunsReported DEF HandleDistance
<1>2. Reported(HandleFillingLevel(s, m))
  BY RunReported, EmptyRunsReported DEF HandleFillingLevel
<1>. QED
  BY <1>1, <1>2, EmptyRunsReported DEF LevelHandle

(* Whatever its type, a handler reports what it stores. *)
LEMMA HandleReported ==
    ASSUME NEW type \in FunctionTypeNames, NEW s \in Memory(type),
           NEW m \in Message, NEW t \in Nat
    PROVE  Reported(Handle(type, s, m, t))
<1>. USE RunReported, EmptyRunsReported
<1>1. CASE type = "presence"
  BY <1>1 DEF Handle, PresenceHandle
<1>2. CASE type = "counter"
  BY <1>2 DEF Handle, CounterHandle
<1>3. CASE type = "digitalinput"
  BY <1>3 DEF Handle, DigitalInputHandle
<1>4. CASE type = "waterquality"
  BY <1>4 DEF Handle, WaterQualityHandle
<1>5. CASE type = "stopwatch"
  BY <1>5 DEF Handle, StopwatchHandle
<1>6. CASE type = "building"
  BY <1>6 DEF Handle, BuildingHandle
<1>7. CASE type = "airquality"
  BY <1>7, AirQualityReported DEF Handle
<1>8. CASE type = "level"
  BY <1>8, LevelReported DEF Handle
<1>9. CASE type = "timer"
  BY <1>9 DEF Handle, TimerHandle
<1>. QED
  BY <1>1, <1>2, <1>3, <1>4, <1>5, <1>6, <1>7, <1>8, <1>9 DEF FunctionTypeNames
-----------------------------------------------------------------------------
LEMMA SubsetFinite ==
    ASSUME NEW S \in SUBSET Functions
    PROVE  Cardinality(S) \in Nat
<1>1. IsFiniteSet(S)
  BY EngineAssumption, FS_Subset
<1> QED
  BY <1>1, FS_CardinalityType

(* What is read back from the history is the value of one of its rows, or   *)
(* zero (registry.go: lastLogValue).                                        *)
LEMMA LastLogValueTyped ==
    ASSUME NEW rows \in Seq(Row), NEW label
    PROVE  LastLogValue(rows, label) \in Int
<1> DEFINE kept == LastRows(rows, label, 1)
           later(i) == {j \in RowsOf(rows, label) : Later(rows, j, i)}
           last == History(rows, label, 1)
<1>1. IsFiniteSet(RowsOf(rows, label)) /\ RowsOf(rows, label) \subseteq 1 .. Len(rows)
  <2>1. IsFiniteSet(1 .. Len(rows))
    BY FS_Interval
  <2> QED
    BY <2>1, FS_Subset DEF RowsOf
<1>2. kept \subseteq RowsOf(rows, label) /\ IsFiniteSet(kept) /\ Cardinality(kept) \in Nat
  BY <1>1, FS_Subset, FS_CardinalityType DEF LastRows
<1>3. \A i \in kept : later(i) = {}
  <2> TAKE i \in kept
  <2>1. IsFiniteSet(later(i)) /\ Cardinality(later(i)) \in Nat
    BY <1>1, FS_Subset, FS_CardinalityType
  <2>2. Cardinality(later(i)) < 1
    BY DEF LastRows
  <2> HIDE DEF later
  <2>3. Cardinality(later(i)) = 0
    BY <2>1, <2>2
  <2> QED
    BY <2>1, <2>3, FS_EmptySet
<1>4. CASE last = << >>
  BY <1>4 DEF LastLogValue
<1>5. CASE last # << >>
  <2>1. last = [k \in 1 .. Cardinality(kept) |-> rows[NthOf(rows, kept, k)]]
    BY DEF History
  <2>2. Cardinality(kept) # 0
    <3> SUFFICES ASSUME Cardinality(kept) = 0
                 PROVE  FALSE
      OBVIOUS
    <3>1. 1 .. Cardinality(kept) = {}
      OBVIOUS
    <3> QED
      BY <1>5, <2>1, <3>1
  <2>3. last[1] = rows[NthOf(rows, kept, 1)]
    BY <1>2, <2>1, <2>2
  <2>4. PICK i \in kept : TRUE
    BY <1>2, <2>2, FS_EmptySet
  <2>5. {j \in kept : Later(rows, i, j)} = {}
    BY <1>2, <1>3
  <2>6. Cardinality({j \in kept : Later(rows, i, j)}) = 1 - 1
    BY <2>5, FS_EmptySet
  <2>7. NthOf(rows, kept, 1) \in kept
    BY <2>6 DEF NthOf
  <2>8. rows[NthOf(rows, kept, 1)] \in Row
    BY <1>1, <1>2, <2>7
  <2> QED
    BY <1>5, <2>3, <2>8 DEF LastLogValue, Row
<1> QED
  BY <1>4, <1>5

LEMMA RestoredTyped ==
    ASSUME TypeOK, NEW f \in Functions, NEW lost
    PROVE  Restored(f, lost) \in Memory(Type[f])
<1>1. Type[f] \in FunctionTypeNames
  BY EngineAssumption
<1>2. history[f] \in Seq(Row)
  BY DEF TypeOK
<1>3. LastLogValue(history[f], DefaultHistoryLabel(Type[f])) \in Int
  BY <1>2, LastLogValueTyped
<1> QED
  BY <1>1, <1>3, NewTyped DEF Restored
-----------------------------------------------------------------------------
(* Type correctness, one lemma per action. *)

(* What TypeOK says of a worker that is handling a message. *)
LEMMA HandlingTyped ==
    ASSUME TypeOK, NEW w \in Workers, Handling(w)
    PROVE  /\ msg[w] \in Message
           /\ Fn(w) \in Functions
           /\ run[w] \in Pending(Memory(Type[Fn(w)]))
           /\ mem[Fn(w)] \in Memory(Type[Fn(w)])
  BY DEF TypeOK, Handling

LEMMA NextWriteTyped ==
    ASSUME TypeOK, NEW w \in Workers, NextWrite(w)
    PROVE  /\ Handling(w)
           /\ Head(run[w].writes) \in Writes(Memory(Type[Fn(w)]))
           /\ Tail(run[w].writes) \in Seq(Writes(Memory(Type[Fn(w)])))
<1>1. Handling(w) /\ run[w].writes # << >>
  BY DEF NextWrite
<1> DEFINE W == Writes(Memory(Type[Fn(w)]))
           writes == run[w].writes
<1>2. writes \in Seq(W)
  BY <1>1, HandlingTyped DEF Pending
<1>3. writes # << >>
  BY <1>1
<1> HIDE DEF W, writes
<1>4. Head(writes) \in W /\ Tail(writes) \in Seq(W)
  BY <1>2, <1>3
<1> QED
  BY <1>1, <1>4 DEF W, writes

(* A worker that has unlocked is idle, and its run is over. *)
LEMMA UnlockTyped ==
    ASSUME TypeOK, NEW w \in Workers, Unlock(w)
    PROVE  /\ mu' \in Workers \cup {None}
           /\ pc' \in [Workers -> {"idle", "waiting", "handling"}]
           /\ DOMAIN msg' = Workers
           /\ DOMAIN run' = Workers
           /\ \A v \in Workers : IF pc'[v] = "idle" THEN msg'[v] = None
                                                   ELSE msg'[v] \in Message
           /\ \A v \in Workers :
                 IF Handling(v)'
                 THEN Fn(v)' \in Functions /\ run'[v] \in Pending(Memory(Type[Fn(v)']))
                 ELSE run'[v] = None
  BY DEF TypeOK, Unlock, Handling, Fn

LEMMA InitTyped == Init => TypeOK
<1> SUFFICES ASSUME Init PROVE TypeOK
  OBVIOUS
<1>1. \A f \in Functions : New(Type[f], 0) \in Memory(Type[f])
  BY EngineAssumption, NewTyped
<1>2. registered \subseteq Functions /\ faults \in Nat
  BY SubsetFinite DEF Init
<1> QED
  BY <1>1, <1>2 DEF Init, TypeOK, Handling, ZeroTime

LEMMA ReceiveTyped ==
    ASSUME TypeOK, NEW w \in Workers, Receive(w)
    PROVE  TypeOK'
<1>1. PICK m \in Messages : msg' = [msg EXCEPT ![w] = m]
  BY DEF Receive
<1>2. m \in Message
  BY EngineAssumption
<1>3. deliveries' \in Nat
  BY DEF Receive, TypeOK
<1> QED
  BY <1>1, <1>2, <1>3 DEF Receive, TypeOK, Handling, Fn

LEMMA IgnoreTyped ==
    ASSUME TypeOK, NEW w \in Workers, Ignore(w)
    PROVE  TypeOK'
  BY DEF Ignore, TypeOK, Handling, Fn

LEMMA StartHandleTyped ==
    ASSUME TypeOK, NEW w \in Workers, StartHandle(w)
    PROVE  TypeOK'
<1> DEFINE m == msg[w]
           f == Fn(w)
           r == Handle(Type[f], mem[f], m, now)
           started == [entry |-> mem[f], writes |-> r.writes, rows |-> {},
                       outcome |-> r.outcome, onerr |-> r.onerr, failed |-> FALSE]
<1>1. m \in Message /\ f \in Functions /\ now \in Nat
  BY DEF StartHandle, TypeOK, Ignorable, Message, Fn
<1>2. r \in Runs(Memory(Type[f])) /\ mem[f] \in Memory(Type[f])
  BY <1>1, EngineAssumption, HandleTyped DEF TypeOK
<1>3. started \in Pending(Memory(Type[f]))
  BY <1>2 DEF Runs, Pending
<1>4. FillMeta(f, m) \in [MetaKeys -> MetaValues \cup {None}]
  BY <1>1 DEF FillMeta, TypeOK, Message
<1>5. /\ pc[w] = "waiting" /\ mu' = w
      /\ pc' = [pc EXCEPT ![w] = "handling"]
      /\ meta' = [meta EXCEPT ![f] = FillMeta(f, m)]
      /\ mem' = [mem EXCEPT ![f] = r.begin]
      /\ run' = [run EXCEPT ![w] = started]
      /\ UNCHANGED << now, msg, stamp, history, registered, updates, synced,
                      deliveries, faults, restarts >>
  BY DEF StartHandle
<1>6. r.begin \in Memory(Type[f])
  BY <1>2 DEF Runs
<1> HIDE DEF m, r, started
<1>7. /\ DOMAIN mem' = Functions
      /\ \A g \in Functions : mem'[g] \in Memory(Type[g])
  BY <1>1, <1>5, <1>6 DEF TypeOK
<1>8. meta' \in [Functions -> [MetaKeys -> MetaValues \cup {None}]]
  BY <1>1, <1>4, <1>5 DEF TypeOK
<1>9. \A v \in Workers : IF pc'[v] = "idle" THEN msg'[v] = None ELSE msg'[v] \in Message
  BY <1>5 DEF TypeOK
<1>10. \A v \in Workers :
         IF Handling(v)'
         THEN Fn(v)' \in Functions /\ run'[v] \in Pending(Memory(Type[Fn(v)']))
         ELSE run'[v] = None
  BY <1>1, <1>3, <1>5 DEF TypeOK, Handling, Fn
<1> QED
  BY <1>5, <1>7, <1>8, <1>9, <1>10 DEF TypeOK

(* Going on to the next write. *)
LEMMA NextRunTyped ==
    ASSUME TypeOK, NEW w \in Workers, NextWrite(w), NEW failed \in BOOLEAN,
           NEW rows \in SUBSET (Nat \ {0}),
           run' = [run EXCEPT ![w].writes = Tail(@), ![w].rows = rows, ![w].failed = failed],
           UNCHANGED << mu, pc, msg >>
    PROVE  /\ DOMAIN run' = Workers
           /\ \A v \in Workers :
                 IF Handling(v)'
                 THEN Fn(v)' \in Functions /\ run'[v] \in Pending(Memory(Type[Fn(v)']))
                 ELSE run'[v] = None
<1> DEFINE next == [run[w] EXCEPT !.writes = Tail(@), !.rows = rows, !.failed = failed]
           M == Memory(Type[Fn(w)])
<1>1. Handling(w) /\ Fn(w) \in Functions /\ run[w] \in Pending(M)
  BY HandlingTyped DEF NextWrite
<1>2. Tail(run[w].writes) \in Seq(Writes(M))
  BY NextWriteTyped
<1>3. next \in Pending(M)
  BY <1>1, <1>2 DEF Pending
<1>4. run' = [run EXCEPT ![w] = next]
  BY DEF TypeOK
<1> HIDE DEF next
<1> QED
  BY <1>1, <1>3, <1>4 DEF TypeOK, Handling, Fn

LEMMA StoredTyped ==
    ASSUME TypeOK, NEW f \in Functions, NEW M, NEW write \in Writes(M), Stored(f, write)
    PROVE  history' \in [Functions -> Seq(Row)]
<1> DEFINE row == [label |-> write.label, value |-> write.value, time |-> write.time]
<1>1. row \in Row
  BY DEF Row, Writes
<1>2. history' = [history EXCEPT ![f] = Append(history[f], row)]
  BY DEF Stored, TypeOK
<1> HIDE DEF row
<1>3. Append(history[f], row) \in Seq(Row)
  BY <1>1 DEF TypeOK
<1> QED
  BY <1>2, <1>3 DEF TypeOK

(* The steps of the engine, and those of an engine whose worker stores a    *)
(* row and does not touch the timestamp yet.                                *)
AnyStep == Next \/ \E w \in Workers : StoreRow(w) /\ UNCHANGED stamp

LEMMA StoreStampTyped ==
    ASSUME TypeOK, NEW w \in Workers, Store(w)
    PROVE  StoreRow(w) /\ stamp' \in [Functions -> Nat]
<1> DEFINE write == Head(run[w].writes)
<1>1. StoreRow(w) /\ NextWrite(w)
  BY DEF Store, StoreRow
<1>2. write \in Writes(Memory(Type[Fn(w)])) /\ Fn(w) \in Functions
  BY <1>1, NextWriteTyped, HandlingTyped
<1>3. write.time \in Nat
  BY <1>2 DEF Writes
<1>4. stamp' = [stamp EXCEPT ![Fn(w)] = StampAfterWrite(Fn(w), write.time)]
  BY DEF Store
<1> HIDE DEF write
<1> QED
  BY <1>1, <1>2, <1>3, <1>4 DEF StampAfterWrite, TypeOK

LEMMA StoreTyped ==
    ASSUME TypeOK, NEW w \in Workers, StoreRow(w), stamp' \in [Functions -> Nat]
    PROVE  TypeOK'
<1> DEFINE f == Fn(w)
           write == Head(run[w].writes)
<1>1. NextWrite(w) /\ f \in Functions /\ write \in Writes(Memory(Type[f]))
  BY NextWriteTyped, HandlingTyped DEF StoreRow
<1>2. run[w].failed \in BOOLEAN
  BY <1>1, HandlingTyped DEF NextWrite, Pending
<1> DEFINE rows == run[w].rows \cup {Len(history[f]) + 1}
<1>3. run' = [run EXCEPT ![w].writes = Tail(@), ![w].rows = rows, ![w].failed = run[w].failed]
  BY <1>1, HandlingTyped DEF StoreRow, NextWrite, TypeOK, Pending
<1>4. history' \in [Functions -> Seq(Row)]
  BY <1>1, StoredTyped DEF StoreRow
<1>5. rows \in SUBSET (Nat \ {0})
  <2>1. run[w].rows \in SUBSET (Nat \ {0})
    BY <1>1, HandlingTyped DEF NextWrite, Pending
  <2>2. Len(history[f]) + 1 \in Nat \ {0}
    BY <1>1 DEF TypeOK
  <2> QED
    BY <2>1, <2>2
<1>6. /\ DOMAIN mem' = Functions
      /\ \A g \in Functions : mem'[g] \in Memory(Type[g])
  BY <1>1 DEF StoreRow, TypeOK, Writes
<1>7. UNCHANGED << now, mu, pc, msg, meta, registered, updates, synced,
                  deliveries, faults, restarts >>
  BY DEF StoreRow
<1> HIDE DEF f, write, rows
<1>8. /\ DOMAIN run' = Workers
      /\ \A v \in Workers :
            IF Handling(v)'
            THEN Fn(v)' \in Functions /\ run'[v] \in Pending(Memory(Type[Fn(v)']))
            ELSE run'[v] = None
  BY <1>1, <1>2, <1>3, <1>5, <1>7, NextRunTyped
<1> QED
  BY <1>4, <1>6, <1>7, <1>8 DEF TypeOK

LEMMA StoreFailsTyped ==
    ASSUME TypeOK, NEW w \in Workers, StoreFails(w)
    PROVE  TypeOK'
<1> DEFINE f == Fn(w)
           write == Head(run[w].writes)
<1>1. NextWrite(w) /\ f \in Functions /\ write \in Writes(Memory(Type[f]))
  BY NextWriteTyped, HandlingTyped DEF StoreFails
<1>2. AddFails(f, write) /\ UNCHANGED << now, stamp, meta, registered, updates,
                                        deliveries, restarts >>
  BY DEF StoreFails
<1>3. history' \in [Functions -> Seq(Row)] /\ faults' \in Nat
  <2>1. CASE UNCHANGED history /\ (UNCHANGED faults \/ Fault)
    BY <2>1 DEF TypeOK, Fault
  <2>2. CASE Fault /\ Stored(f, write)
    <3>1. history' \in [Functions -> Seq(Row)]
      BY <1>1, <2>2, StoredTyped
    <3> QED
      BY <2>2, <3>1 DEF TypeOK, Fault
  <2> QED
    BY <1>2, <2>1, <2>2 DEF AddFails
<1>4. CASE run[w].onerr = "stop"
  <2>1. Unlock(w) /\ UNCHANGED mem /\ Desync(f)
    BY <1>4 DEF StoreFails
  <2>2. synced' \in [Functions -> BOOLEAN]
    BY <2>1 DEF Desync, TypeOK
  <2> QED
    BY <1>2, <1>3, <2>1, <2>2, UnlockTyped DEF TypeOK
<1>5. CASE run[w].onerr # "stop"
  <2> DEFINE failed == run[w].failed \/ run[w].onerr = "join"
  <2>1. /\ run' = [run EXCEPT ![w].writes = Tail(@), ![w].rows = run[w].rows,
                              ![w].failed = failed]
        /\ mem' = [mem EXCEPT ![f] = write.then]
        /\ UNCHANGED << mu, pc, msg, synced >>
    BY <1>5, <1>1, HandlingTyped DEF StoreFails, NextWrite, TypeOK, Pending
  <2>2. failed \in BOOLEAN /\ run[w].rows \in SUBSET (Nat \ {0})
    BY <1>1, HandlingTyped DEF NextWrite, Pending
  <2>3. /\ DOMAIN mem' = Functions
        /\ \A g \in Functions : mem'[g] \in Memory(Type[g])
    BY <1>1, <2>1 DEF TypeOK, Writes
  <2> HIDE DEF failed, f, write
  <2>4. /\ DOMAIN run' = Workers
        /\ \A v \in Workers :
              IF Handling(v)'
              THEN Fn(v)' \in Functions /\ run'[v] \in Pending(Memory(Type[Fn(v)']))
              ELSE run'[v] = None
    BY <1>1, <2>1, <2>2, NextRunTyped
  <2> QED
    BY <1>2, <1>3, <2>1, <2>3, <2>4 DEF TypeOK
<1> QED
  BY <1>4, <1>5

LEMMA ReturnErrorTyped ==
    ASSUME TypeOK, NEW w \in Workers, ReturnError(w)
    PROVE  TypeOK'
<1>1. Unlock(w) /\ UNCHANGED << now, mem, stamp, meta, history, registered, updates,
                                deliveries, faults, restarts >>
  BY DEF ReturnError
<1>2. synced' \in [Functions -> BOOLEAN]
  BY DEF ReturnError, Desync, TypeOK
<1> QED
  BY <1>1, <1>2, UnlockTyped DEF TypeOK

LEMMA ReturnSilentlyTyped ==
    ASSUME TypeOK, NEW w \in Workers, ReturnSilently(w)
    PROVE  TypeOK'
<1>1. Unlock(w) /\ UNCHANGED << now, mem, stamp, meta, history, registered, updates,
                                synced, deliveries, faults, restarts >>
  BY DEF ReturnSilently
<1> QED
  BY <1>1, UnlockTyped DEF TypeOK

LEMMA RestampTyped ==
    ASSUME TypeOK, NEW w \in Workers, Handling(w), NEW changed \in BOOLEAN,
           Restamp(Fn(w), msg[w], changed)
    PROVE  stamp' \in [Functions -> Nat]
<1>1. msg[w].accepted \in Nat /\ Fn(w) \in Functions /\ now \in Nat
  BY HandlingTyped, MessageTyped DEF TypeOK
<1> QED
  BY <1>1 DEF Restamp, AnnouncedStamp, TypeOK

LEMMA PublishTyped ==
    ASSUME TypeOK, NEW w \in Workers, Publish(w)
    PROVE  TypeOK'
<1> DEFINE f == Fn(w)
           update == [mem |-> mem[f], stamp |-> stamp'[f],
                      meta |-> meta[f], changed |-> Changed(w),
                      entry |-> run[w].entry, rows |-> run[w].rows,
                      count |-> CountTaken(Type[f], msg[w])]
<1>1. /\ Unlock(w) /\ Handling(w) /\ f \in Functions
      /\ synced' = [synced EXCEPT ![f] = TRUE]
      /\ UNCHANGED << now, mem, meta, history, registered, deliveries, faults, restarts >>
  BY HandlingTyped DEF Publish, Succeeded, Handled
<1>2. Changed(w) \in BOOLEAN
  BY DEF Changed
<1>3. stamp' \in [Functions -> Nat]
  BY <1>1, <1>2, RestampTyped DEF Publish
<1>4. update \in Update(f)
  <2>1. /\ run[w].entry \in Memory(Type[f])
        /\ run[w].rows \in SUBSET (Nat \ {0})
    BY <1>1, HandlingTyped DEF Pending
  <2>2. CountTaken(Type[f], msg[w]) \in Int \cup {None}
    BY <1>1, HandlingTyped, CountTakenTyped
  <2> QED
    BY <1>1, <1>2, <1>3, <2>1, <2>2 DEF Update, TypeOK
<1>5. updates' = [updates EXCEPT ![f] = Append(updates[f], update)]
  BY DEF Publish, TypeOK
<1> HIDE DEF update
<1>6. Append(updates[f], update) \in Seq(Update(f))
  BY <1>1, <1>4 DEF TypeOK
<1>7. /\ DOMAIN updates' = Functions
      /\ \A g \in Functions : updates'[g] \in Seq(Update(g))
  BY <1>1, <1>5, <1>6 DEF TypeOK
<1> QED
  BY <1>1, <1>3, <1>7, UnlockTyped DEF TypeOK

LEMMA PublishFailsTyped ==
    ASSUME TypeOK, NEW w \in Workers, PublishFails(w)
    PROVE  TypeOK'
<1>1. /\ Unlock(w) /\ Handling(w) /\ Fault /\ Desync(Fn(w))
      /\ UNCHANGED << now, mem, meta, history, registered, updates, deliveries, restarts >>
  BY DEF PublishFails, Succeeded, Handled
<1>2. Changed(w) \in BOOLEAN
  BY DEF Changed
<1>3. stamp' \in [Functions -> Nat]
  BY <1>1, <1>2, RestampTyped DEF PublishFails
<1>4. synced' \in [Functions -> BOOLEAN] /\ faults' \in Nat
  BY <1>1 DEF Desync, Fault, TypeOK
<1> QED
  BY <1>1, <1>3, <1>4, UnlockTyped DEF TypeOK

LEMMA RestartTyped ==
    ASSUME TypeOK, Restart
    PROVE  TypeOK'
<1>1. PICK lost \in SUBSET Functions, refused \in SUBSET Functions :
          /\ faults' = faults + Cardinality(lost) + Cardinality(refused)
          /\ mem' = [f \in Functions |-> Restored(f, lost)]
          /\ registered' = registered \cup (Functions \ refused)
  BY DEF Restart
<1>2. faults' \in Nat /\ restarts' \in Nat
  <2>1. Cardinality(lost) \in Nat /\ Cardinality(refused) \in Nat
    BY SubsetFinite
  <2>2. faults \in Nat /\ restarts \in Nat
    BY DEF TypeOK
  <2>3. restarts' = restarts + 1
    BY DEF Restart
  <2> QED
    BY <1>1, <2>1, <2>2, <2>3
<1>3. \A f \in Functions : mem'[f] \in Memory(Type[f])
  BY <1>1, RestoredTyped
<1>4. registered' \subseteq Functions /\ DOMAIN mem' = Functions
  BY <1>1 DEF TypeOK
<1> QED
  BY <1>2, <1>3, <1>4 DEF Restart, TypeOK, Handling, Fn, ZeroTime

LEMMA TickTyped ==
    ASSUME TypeOK, Tick
    PROVE  TypeOK'
<1>1. now' \in Nat
  BY DEF Tick, TypeOK
<1> QED
  BY <1>1 DEF Tick, TypeOK, process, Handling, Fn

(* No step of the engine takes a variable out of its type. *)
LEMMA TypeStep ==
    ASSUME TypeOK, [AnyStep]_vars
    PROVE  TypeOK'
<1>1. CASE Tick
  BY <1>1, TickTyped
<1>2. CASE Restart
  BY <1>2, RestartTyped
<1>3. ASSUME NEW w \in Workers, Receive(w)
      PROVE  TypeOK'
  BY <1>3, ReceiveTyped
<1>4. ASSUME NEW w \in Workers, Lock(w)
      PROVE  TypeOK'
  BY <1>4, IgnoreTyped, StartHandleTyped DEF Lock
<1>5. ASSUME NEW w \in Workers, Proceed(w)
      PROVE  TypeOK'
  BY <1>5, StoreStampTyped, StoreTyped, StoreFailsTyped, ReturnErrorTyped,
     ReturnSilentlyTyped, PublishTyped, PublishFailsTyped DEF Proceed
<1>6. ASSUME NEW w \in Workers, StoreRow(w), UNCHANGED stamp
      PROVE  TypeOK'
  <2>1. stamp' \in [Functions -> Nat]
    BY <1>6 DEF TypeOK
  <2> QED
    BY <1>6, <2>1, StoreTyped
<1>7. CASE UNCHANGED vars
  BY <1>7 DEF TypeOK, vars, Handling, Fn
<1> QED
  BY <1>1, <1>2, <1>3, <1>4, <1>5, <1>6, <1>7 DEF AnyStep, Next

(* Every variable keeps its type: no handler leaves its type's memory, no   *)
(* row and no update is malformed, also across faults and restarts.         *)
THEOREM TypeCorrect == Spec => []TypeOK
<1>1. Init => TypeOK
  BY InitTyped
<1>2. TypeOK /\ [Next]_vars => TypeOK'
  BY TypeStep DEF AnyStep
<1> QED
  BY <1>1, <1>2, PTL DEF Spec
=============================================================================
