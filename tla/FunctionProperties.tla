------------------------- MODULE FunctionProperties -------------------------
(***************************************************************************)
(* What the operators of iot-core may rely on: properties of the path of   *)
(* a message, and of the function types as seen through that path.         *)
(***************************************************************************)
EXTENDS FunctionEngine, FiniteSetsExt

Last(s) == s[Len(s)]

(* What a subscriber is shown of a function. The time of the newest         *)
(* measurement of a water quality is not part of it: a new measurement of   *)
(* the same temperature is not a change.                                    *)
View(type, s) == IF type = "waterquality" THEN s.temperature ELSE s

(* Of a level it is the level, to the millimetre: a new percentage that     *)
(* comes with the level as it was is stored and not announced, and a level  *)
(* less than a millimetre away is taken without a row or an update.         *)
Alike(type, s, t) ==
    IF type = "level" THEN ~LevelHasChanged(s.current, t.current)
    ELSE View(type, s) = View(type, t)

OfType(type) == {f \in Functions : Type[f] = type}

(* The functions whose rows and updates tell the whole story. *)
Undisturbed == faults = 0 /\ restarts = 0
-----------------------------------------------------------------------------
(* A worker handles a message exactly while it holds app.mu, so that no two *)
(* of them are ever inside MessageAccepted (iotcore.go: a.mu).              *)
MutualExclusion == \A w \in Workers : Handling(w) <=> mu = w

(* The types whose handlers report every change of what is shown: all but   *)
(* the building, which reports none below a threshold, however many come.   *)
CandidTypes == FunctionTypeNames \ {"building"}

(* The last update of f shows it as it is with the memory s. *)
IsShown(f, s) ==
    /\ updates[f] # << >>
    /\ Alike(Type[f], Last(updates[f]).mem, s)

(* No change is kept from the subscribers: when nobody is handling a        *)
(* message for a function and nothing has failed since its last update,     *)
(* that update shows the function as it is, and many small changes do not   *)
(* add up to one that is not shown (fnct.Handle: changed; levels.go: the    *)
(* level is assigned before it is found not to have changed).               *)
SubscriberInSync ==
    \A f \in Functions :
        Type[f] \in CandidTypes /\ synced[f] /\ IdleFunction(f) => IsShown(f, mem[f])

(* Why a level does not creep: one that is taken without being announced    *)
(* comes from a distance and is a whole number of centimetres, so the next  *)
(* one that is taken in this way is the same.                               *)
Stays(type, s, t) ==
    IF type = "level"
    THEN \/ t.current = s.current
         \/ t.current % Centimetre = 0 /\ ~LevelHasChanged(s.current, t.current)
    ELSE View(type, s) = View(type, t)

ShownStays(f, s) ==
    /\ updates[f] # << >>
    /\ Stays(Type[f], Last(updates[f]).mem, s)

(* Why: nobody but the worker at work touches a function, and what it has   *)
(* still to do will leave what the subscribers are shown as it was when it  *)
(* took the mutex, unless the function is going to be announced.            *)
SyncAt(f) ==
    /\ synced[f] /\ IdleFunction(f) => ShownStays(f, mem[f])
    /\ \A w \in Workers :
          Handling(w) /\ Fn(w) = f =>
            /\ synced[f] => ShownStays(f, run[w].entry)
            /\ run[w].outcome # "changed" =>
                  Stays(Type[f], run[w].entry, FinalOf(mem[f], run[w].writes))

SyncInvariant == \A f \in Functions : Type[f] \in CandidTypes => SyncAt(f)

Fact(label, value) == [label |-> label, value |-> value]

FactIfAny(label, value) == IF value = None THEN {} ELSE {Fact(label, value)}

(* A count that stays, or that follows from a rising edge, has no row. *)
CountFact(label, before, after, rises) ==
    IF after \in {before, before + Number(rises)} THEN {} ELSE {Fact(label, after)}

(* What the history is to say of a function that a message has taken from   *)
(* the memory e to the memory s, by label.                                  *)
Facts(type, e, s) ==
    CASE type = "presence"     -> {Fact("presence", Number(s.state))}
      [] type = "counter"      ->
            {Fact("state", Number(s.state))}
            \cup CountFact("count", e.count, s.count, s.state /\ ~e.state)
      [] type = "digitalinput" ->
            {Fact("state", Number(s.state))}
            \cup CountFact("counter", e.counter, s.counter, s.state /\ ~e.state)
      [] type = "waterquality" -> {Fact("temperature", s.temperature)}
      [] type = "stopwatch"    ->
            {Fact("state", Number(s.state)), Fact("count", s.count),
             Fact("cumulativeTime", s.cumulativeTime)}
            \cup FactIfAny("duration", s.duration)
      [] type = "timer"        -> {Fact("state", Number(s.state)), Fact("time", s.totalDuration)}
      [] type = "building"     -> {Fact("power", s.power), Fact("energy", s.energy)}
      [] type = "airquality"   -> {Fact(AirLabels[i], s.values[i]) : i \in 1 .. 7}
      [] type = "level"        -> {Fact("level", s.current)} \cup FactIfAny("percent", s.percent)

(* x and y, facts or rows, say the same of a function. *)
SameFact(type, x, y) ==
    /\ x.label = y.label
    /\ IF type = "level" THEN ~LevelHasChanged(x.value, y.value) ELSE x.value = y.value

(* What is new in s *)
News(type, e, s) ==
    {x \in Facts(type, e, s) : \A y \in Facts(type, e, e) : ~SameFact(type, x, y)}

(* No change is announced before it is in the database: for everything that *)
(* an update says anew of a function there is a row of that value, and the  *)
(* row was stored for the very message that is announced, whatever else is  *)
(* in the history and whatever fails (fnct.Handle returns the error of      *)
(* onchange before it publishes; errors.Join in the handlers).              *)
PersistBeforePublish ==
    \A f \in Functions : \A i \in DOMAIN updates[f] :
        LET u == updates[f][i]
        IN  u.changed =>
                /\ u.rows # {}
                /\ u.rows \subseteq DOMAIN history[f]
                /\ \A x \in News(Type[f], u.entry, u.mem) :
                      \E r \in u.rows : SameFact(Type[f], x, history[f][r])

(* The timestamp of a function never goes back while the process lives, in  *)
(* whatever order its measurements arrive; a function with OnUpdate takes   *)
(* the time of every message (onchange: if ts.After(f.Timestamp)).          *)
StampMonotone ==
    [][restarts' = restarts =>
          \A f \in Functions \ OnUpdate : stamp'[f] >= stamp[f]]_vars

(* The timestamp a function is listed with is the time of a row of its      *)
(* history, whatever fails and whoever stores the row: the time of a row    *)
(* that could not be stored is not shown (onchange: Add, then Timestamp; a  *)
(* first row without a time is announced with the clock's).                 *)
StampHasRow ==
    \A f \in Functions \ OnUpdate :
        stamp[f] # ZeroTime =>
            \E i \in DOMAIN history[f] : history[f][i].time \in {stamp[f], ZeroTime}

(* Every message that is delivered is done with in the end, whatever fails  *)
(* in the messages before it: the mutex is always given back.               *)
EveryMessageReturns ==
    \A w \in Workers : pc[w] = "waiting" ~> pc[w] = "idle"

(* A change is announced in the end, unless something fails on the way.     *)
ChangeIsAnnounced ==
    \A w \in Workers, f \in Functions, n \in 0 .. MaxDeliveries :
        Handling(w) /\ Fn(w) = f /\ Changed(w) /\ Len(updates[f]) = n
        ~> Len(updates[f]) > n \/ ~Undisturbed

(* The first message a function handles without an error makes it known to  *)
(* its subscribers, whether or not it changes the state (functions.go:      *)
(* "Temporary fix to force an update the first time a function is called"). *)
ForcedFirstUpdate ==
    Undisturbed =>
        \A f \in Functions :
            IdleFunction(f) /\ (\E k \in MetaKeys : meta[f][k] # None) => updates[f] # << >>

(* A history that is asked for without a bound is the whole history         *)
(* (functions_test.go: six values stored, History("", 0) returns six).      *)
UnboundedHistory ==
    \A f \in Functions :
        LET label == DefaultHistoryLabel(Type[f])
        IN  Len(History(history[f], label, 0)) = Cardinality(RowsOf(history[f], label))
-----------------------------------------------------------------------------
(* What the subscribers last heard of a building *)
AnnouncedBuilding(f) == IF updates[f] = << >> THEN BuildingNew ELSE Last(updates[f]).mem

(* A building may drift away from what its subscribers know, but by less    *)
(* than a thousandth for every message that was delivered and not announced *)
(* (buildings.go: hasChanged compares with the value of the last message).  *)
DriftBounded ==
    Undisturbed =>
        \A f \in OfType("building") :
            IdleFunction(f) =>
                LET bound == 9 * (deliveries - Len(updates[f]))
                IN  /\ Abs(mem[f].power - AnnouncedBuilding(f).power) <= bound
                    /\ Abs(mem[f].energy - AnnouncedBuilding(f).energy) <= bound

InTimeOrder(rows) ==
    \A i, j \in DOMAIN rows : i < j => rows[i].time <= rows[j].time

(* A presence and a level survive a restart: as long as the database works  *)
(* and the measurements come in order, what the registry would restore is   *)
(* what the function is, at every moment the process can be killed between  *)
(* messages, and also after it was killed in the middle of a square wave    *)
(* (registry.go: lastLogValue; presences.go: the two rows of a change).     *)
Recoverable ==
    faults = 0 =>
        \A f \in OfType("presence") \cup OfType("level") :
            IdleFunction(f) /\ InTimeOrder(history[f]) =>
                Alike(Type[f], Restored(f, {}), mem[f])

(* The rising edges among the updates after the i-th *)
EdgesAfter(f, i) ==
    LET on(j) == updates[f][j].mem.state
    IN  Cardinality({j \in DOMAIN updates[f] : j > i /\ on(j) /\ (j = 1 \/ ~on(j - 1))})

EdgeCount(f) == IF Type[f] = "counter" THEN mem[f].count ELSE mem[f].counter

(* The i-th update is the last with a count that came with its message, or  *)
(* there is none and i is 0.                                                *)
LastTaken(f, i) ==
    /\ i = 0 \/ updates[f][i].count # None
    /\ \A j \in i + 1 .. Len(updates[f]) : updates[f][j].count = None

CountAt(f, i) == IF i = 0 THEN 0 ELSE updates[f][i].count

(* No message for f carries a count: nothing has decorated it. *)
Undecorated(f) == \A m \in Messages : m.fn = f => CountTaken(Type[f], m) = None

(* Every rising edge is counted, and counted once, also when the broker     *)
(* delivers it again: the count is the last one that a message has brought, *)
(* from the sensor or from the command path, and the number of edges in the *)
(* updates since then; where nothing brings a count, an update that fails   *)
(* does not lose its edge (counters.go, digitalinput.go: Count_++,          *)
(* Counter_++, and the count that replaces them).                           *)
CountsEveryEdge ==
    restarts = 0 =>
        \A f \in OfType("counter") \cup OfType("digitalinput") :
            IdleFunction(f) =>
                /\ faults = 0 =>
                      \A i \in 0 .. Len(updates[f]) :
                          LastTaken(f, i) => EdgeCount(f) = CountAt(f, i) + EdgesAfter(f, i)
                /\ Undecorated(f) => EdgeCount(f) >= EdgesAfter(f, 0)

(* While the process lives the history of a water quality is in the order   *)
(* of time whatever the order of delivery, never ahead of the clock by more *)
(* than the skew, and, unless a row was lost, only logs changes             *)
(* (waterqualities.go: ts.After(wq.Timestamp), ErrBadTimestamp).            *)
TemperatureLog ==
    restarts = 0 =>
        \A f \in OfType("waterquality") :
            LET rows == history[f]
            IN  \A i \in DOMAIN rows :
                    /\ rows[i].time <= now + ClockSkew
                    /\ i > 1 => rows[i].time > rows[i - 1].time
                    /\ i > 1 /\ faults = 0 => rows[i].value # rows[i - 1].value

(* A stopwatch and a timer time rounds. *)
Timed == OfType("stopwatch") \cup OfType("timer")

EndOf(f, s) == IF Type[f] = "timer" THEN s.endTime ELSE s.stopTime

TotalOf(f, s) == IF Type[f] = "timer" THEN s.totalDuration ELSE s.cumulativeTime

(* While it is running, a stopwatch or a timer never shows the end of an    *)
(* earlier round, and one that has just stopped shows the duration of its   *)
(* own round (stopwatch.go, timer.go: "to ensure we don't send out the      *)
(* wrong ones later").                                                      *)
RoundsApart ==
    \A f \in Timed : \A i \in DOMAIN updates[f] :
        LET s == updates[f][i].mem
        IN  /\ s.state => EndOf(f, s) = None
            /\ ~s.state /\ updates[f][i].changed =>
                  EndOf(f, s) # None /\ s.duration = EndOf(f, s) - s.startTime

(* The total time is the sum of the durations of the rounds that were       *)
(* announced, however late and however often the messages come              *)
(* (stopwatch.go: CumulativeTime; timer.go: TotalDuration).                 *)
TotalIsSum ==
    Undisturbed =>
        \A f \in Timed :
            IdleFunction(f) =>
                TotalOf(f, mem[f]) =
                    MapThenSumSet(LAMBDA i : updates[f][i].mem.duration,
                                  {i \in DOMAIN updates[f] :
                                      updates[f][i].changed /\ ~updates[f][i].mem.state})
=============================================================================
