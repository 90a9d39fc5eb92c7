# iot-core in TLA+

TLA+ modules, TLC configurations and TLAPS proofs about iot-core: how a sensor
message becomes an accepted message with a count, then the state of a *function*
(a presence, a counter, a level ...), rows of its history, `function.updated`
and `message.transformed` events, while several goroutines work at once, calls
of the database, the broker and other services fail, and the process is killed
and started again.

Every definition is translated from the Go code; `PROJECT.json` ("map") names
the file and lines each one stands for.

## 1. The system

| Part | Code | State | Operations |
|---|---|---|---|
| Command path | `cmd/iot-core/main.go` (newCommandHandler), `iotcore.go` (MessageReceived), `application/decorators`, `events/decorators.go` | none of its own | look up the device, decorate the pack with tenant, source, place and a count, publish `message.accepted` |
| Measurements client, cache | `measurements/measurementsclient.go`, `infrastructure/cache/cache.go` | responses by URL, with expiry | ask another service for a count; Get, Set, Cleanup |
| Message path | `main.go` (newTopicMessageHandler), `iotcore.go` (MessageAccepted), `functions/functions.go` | `app.mu`; of each function its memory, `Timestamp`, `Tenant`, `Source`, `Location` | lock, find the function of the device, handle the message, store rows (`onchange`), publish `function.updated` |
| Function types | `functions/{presences,counters,digitalinput,waterqualities,stopwatch,timers,buildings,airquality,levels}` | the memory of one function | `New`, `Handle` |
| Timer's ticker | `functions/timers/timer.go` | a ticker and a goroutine per timer | log the running time once a minute |
| Registry | `functions/registry.go` | the functions, by sensor | read the configuration, restore, find |
| History database | `infrastructure/database/database.go` | tables `fnct`, `fnct_history` | AddFnct, Add, History |
| Transformation | `functions/transform.go` | none | `function.updated` to `message.transformed` |
| API | `presentation/api` | none | list the functions, query a history |

How they interact. The messaging library calls the handlers of `main.go` from
goroutines of its own. A command handler asks device management and the
measurements service, the latter through a cache it shares with all others, and
publishes what it accepts; the measurements service learns of these messages
from the same topic, at its own pace. Accepted messages meet at `app.mu`, one
mutex for all functions, which is held across every call of the database and the
broker. A handler changes its function's fields and calls `onchange` for each
row; the closure stores the row in the database and moves the timestamp.
Outside the mutex are the goroutine of a timer's ticker, which reads and writes,
and the API, which reads. What is published comes back to the handler of
`function.updated`, in any order. A restart loses all but the database; only
presences, levels and (in intention) digital inputs take up their last logged
value.

What is hard here, and what must hold:

- **Concurrency.** Handlers must act as if messages came one by one
  (`MutualExclusion`, `ImplementsSerial`), although the ticker goroutine reads
  and logs at the same time (`StampHasRow`); handlers that miss the cache
  together must not pass on old answers (`StalenessBound`, `FreshCount`), nor
  may its cleaner be noticed (`ImplementsMap`).
- **Partial failure.** Memory is assigned before rows are stored, rows are
  stored before the update is published; each call may fail, a row possibly
  after it was committed (`PersistBeforePublish`, `SubscriberInSync`). The
  registry drops the errors of the database and of the reader
  (`LoggedOrRefused`, `StartedAsConfigured`).
- **Order.** Measurements, updates and commands arrive late, early and twice
  (`StampMonotone`, `TemperatureLog`, `CountsEveryEdge`, `RoundsApart`,
  `TotalIsSum`, `CountsNoMore`, `CounterNoMore`, `TransformedInOrder`).
- **Staleness.** What a client of the API is shown is looked for in the history
  later (`ListedIsLogged`); a building compares with what nobody was told
  (`DriftBounded`).
- **Restarts**, also between the two rows of one change (`Recoverable`).
- **Liveness.** The mutex comes back (`EveryMessageReturns`), changes are
  announced (`ChangeIsAnnounced`), every command is done with
  (`EveryCommandReturns`), the ticker outlives its first round
  (`RunningIsLogged`), the cache does not grow for ever (`ExpiredIsDropped`),
  the registry is read to an end (`RegistryLoads`).

The single hazards, at their lines, are listed in `PROJECT.json` ("hazards").

## 2. The modules

| Module | Models | How its state and actions correspond |
|---|---|---|
| `Message` | `events.MessageAccepted` as the functions read it | a record of the function found for the device, the accepted time, metadata, object type, record 5500, numeric records, and their time; numbers are fixed-point |
| `FunctionRun` | one call of a `Handle` method, as data | the memory at the first `onchange`, the calls of `onchange` with the memory that holds after each, the result, and what an error does to the rest |
| `Presence`, `Counter`, `DigitalInput`, `WaterQuality`, `Stopwatch`, `Timer`, `Building`, `AirQuality`, `Level` | the nine function types | `...Mem` the fields, `...New` the constructor, `...Handle` the method |
| `FunctionTypes` | the `if` chain of `NewRegistry` | `New`, `Handle`, `DefaultHistoryLabel` by type |
| `Storage` | `History`, `lastLogValue` | rows in the order of `row_id`; `Later` is the ORDER BY, `LastRows` the LIMIT |
| `FunctionEngine` | the message path with the database, the broker and the registry | see below |
| `FunctionProperties` | | the properties of the engine |
| `SerialFunctions` | abstract: what a subscriber may rely on | each function goes through the states that messages handled one after another lead to |
| `FunctionRefinement` | | the engine implements `SerialFunctions` |
| `TimerUpdater` | the engine with the ticker goroutines | `ticker` holds the program counter and the local reads of each goroutine, `onchange` how far the worker's own `onchange` has come |
| `ResponseCache` | the cache, its cleaner, and a request that goes through it | `items` the map with expiry times; `call` how far each client's `getApiResponse` has come; `cleaner` the goroutine, with the time it read before it takes the lock |
| `ExpiringMap` | abstract: what a cache promises | a map whose entries go when their time is up, without a cleaner |
| `CommandPath` | the command path on top of the engine, `ResponseCache` as an instance of its own | `handler` how far each command has come; `topic` what was accepted, which is what the engine receives; `published` and `stored` what the sensors have sent and the measurements service counts of it |
| `Registry` | `NewRegistry`, `Find`, `Get` | one action per way through the body of the loop, and per way out of it: `EndOfFile`, `TypeUnknown` (the second one), `LevelRefused`, the panic of `Register`, `ReadFails`; `file` is the configuration and `input` the lines the scanner hands out, which a failed read ends at a line, or within one (`Torn`); `StartAgain` starts on a file that may have been edited |
| `Observers` | the handler of `function.updated` and the API, beside the engine | `transforming` the updates in the hands of goroutines, `transformed` what they published, `query` what a client was told |
| `MC...` | | the small instances for TLC |
| `...Proofs` | | theorems, one module per subject |

`Registry` stands on its own because what it does to the engine is already in
the engine: which functions have a row (`registered`), and what they restore.
`CommandPath` leaves out the cleaner, as no URL is asked for after its second
has passed.

`FunctionEngine`, action by action:

| Action | Code |
|---|---|
| `Receive` | the library calls the handler of `message.accepted` (main.go:195) |
| `Ignore` | under the mutex: no function for the device (iotcore.go:51), or a message from the future (functions.go:81) |
| `StartHandle` | lock, find, fill in tenant, source and location, run the type's handler up to its first `onchange` |
| `Store` | `onchange`: the row is added, the timestamp follows if newer, the handler goes on to its next `onchange` |
| `StoreFails` | `onchange` returns an error: the foreign key, or a fault before or after the commit; the handler returns it ("stop"), goes on and joins it ("join"), or forgets it ("drop") |
| `ReturnError`, `ReturnSilently`, `Publish`, `PublishFails` | the four ways out of `fnct.Handle`; each gives back the mutex |
| `Restart` | the process is killed anywhere and `NewRegistry` runs again, with its own dropped errors |
| `Tick` | time passes |

Why steps may be this large. The fields of a function are touched by nobody but
the holder of `app.mu` between two calls of `onchange`, with the exception of
the ticker goroutine and the API. What a handler assigns between two calls is
therefore one step. In `TimerUpdater`, where that argument needs care, the
goroutine reads each field in a step of its own, and the `onchange` of either
side is three steps: `AddRow`, `CheckStamp` and `SetStamp` of the worker, `Log`,
`Check` and `Stamp` of the goroutine. What the worker assigns is still one step,
with the row before it: a start or stop assigns only two of the three fields the
goroutine reads, each read on its own, so that this shows the goroutine every
combination it can see, save that it could log two rows, a minute apart, between
a row of a stop and the assignments after it. (`timer.go:83` takes the time
after the state was read: `ReadClock` is a step as well.) In `Observers` a client
lists a function in one step and asks for its history in another.

Abstractions. A message carries one time for all its records, the base time of
its pack; the count that the command path appends (digitalinput.go:65-68) has no
time of its own, and that senml gives it the base time like the others is
assumed. Numbers are integers on a grid: hundredths of a degree, ten-thousandths
of a kW, tenths of a count, all finer than what the code rounds them to, and
half millimetres and half thousandths of a percent, one below what a level
function takes for a change (levels.go:341-346). A level function itself does
not round what it is told of the filling level, and takes the level that follows
from a distance, in whole centimetres, before it compares it (levels.go:276-283):
both are as in the code, so that a difference of half a millimetre changes the
memory without a row or an update. What the proofs use of it, that
whole centimetres less than a millimetre apart are equal, does not depend on the
grid. Two values exactly a thousandth apart are a change in the model, and may
fall just below it in floating point. Rounding and truncation are modelled, floating-point error is
not. Durations are whole seconds. The name of the device, the JSON of an update and
the logging are left out. A broker that reports an error is taken not to have
delivered the update. Malformed packs (main.go:211) never reach the mutex and
are not delivered. A record is present with a value or absent: a numeric record
without a value is not distinguished from an absent one. A `lastN` below zero,
which the database refuses, is a query that failed.

## 3. The runs

Each checks a question of its own; all bounds are CONSTANTS.

| Run | Instance | States | Shows |
|---|---|---|---|
| `engine` | presence and counter (OnUpdate), 2 workers, 4 deliveries of 6 messages (a stranger's, one without state, one early), 1 fault, 1 restart | 158 k | `TypeOK`, `MutualExclusion`, `StampMonotone`, `ImplementsSerial` |
| `liveness` | presence, 2 workers, 3 deliveries, 1 fault | 654 | `EveryMessageReturns`, `ChangeIsAnnounced` |
| `recovery` | presence and a level measured both ways by sensors half a millimetre apart, 2 workers, 4 deliveries, 1 fault, 1 restart anywhere | 949 k | `Recoverable`, `SubscriberInSync`, `PersistBeforePublish` |
| `inputs` | counter, digital input and stopwatch (OnUpdate), messages with a count and without, 5 deliveries, a message without time, 1 fault | 2.5 M | `CountsEveryEdge`, `RoundsApart`, `TotalIsSum` |
| `measurements` | building, air quality and water quality, several rows per message, a temperature beyond the allowed skew and two that round alike, 4 deliveries, 1 fault | 146 k | `SubscriberInSync`, `PersistBeforePublish`, `TemperatureLog`, `DriftBounded` |
| `timer` | a timer with its ticker, two rounds, 1 fault, 1 restart | 535 k | `TickerOK`, `RoundsApart`, `TotalIsSum`, `StampHasRow`, `ImplementsSerial`, `RunningIsLogged` |
| `cache` | 2 clients, 2 URLs, time to live 1, time-out 1, cleaning every 2, 5 moments | 494 k | `CacheTypeOK`, `StalenessBound`, `ImplementsMap`, `ExpiredIsDropped` |
| `command` | 2 counters, 2 command handlers, 1 worker, 2 commands, 2 deliveries, 1 fault, 1 restart | 470 k | `CommandTypeOK`, `CountsNoMore`, `CounterNoMore`, `FreshCount`, `EveryCommandReturns` |
| `registry` | files of up to 3 of 7 lines, one per way through the loop, 2 sensors in 3 spellings, one the beginning of another, 2 starts, 1 fault, after which a line may be cut off anywhere | 125 k | `RegistryTypeOK`, `StartedAsConfigured`, `LoggedOrRefused`, `RegistryLoads` |
| `observers` | presence and people counter, 2 transformers, 1 client of the API that asks for 0 to 2 values, 3 deliveries, 1 fault, 1 restart | 5.0 M | `ObserverTypeOK`, `TransformedInOrder`, `ListedIsLogged` |
| `first_update` | a first message that is off | | violates `ForcedFirstUpdate` |
| `unbounded_history` | a row, and `History` with 0 | | violates `UnboundedHistory` |

Why these bounds are enough. Interference needs two workers: a third can only
wait for the same mutex; where a run is about something else it has one. Two
command handlers are the least that share the cache, and two transformers the
least that overtake each other. Four deliveries make two full rounds of on and
off, or a change, its redelivery, and two messages that cross it. One fault
reaches every single failing call at every point; properties that speak of
several failures are stated so that one failure decides them. One restart is
enough because it forgets everything but the history. Two functions show that
rows, updates and counts of one do not touch the other. Three lines make a
header, a line and one that replaces it, and any two bad lines in either order.
Five moments let an entry of the cache be stored, expire, be stored again and be
cleaned up once more. Deadlock is not checked: with all deliveries spent and the
clock at its bound the model stops.

Each property has a mutant of the code in the modules (marked "Mutant"): a
plausible error with which TLC finds the property violated.

**Fairness.** `FairSpec` assumes weak fairness of a worker that holds the mutex
(the database and the broker answer, with or without an error) and strong
fairness of taking the mutex: Go's `sync.Mutex` hands the lock over in order of
arrival once a waiter has waited for a millisecond, so that none starves. It
does not assume that messages or time come, or that anything succeeds.
`FairTimerSpec` assumes that the goroutine of a ticker is scheduled and that
the database answers it. `FairCacheSpec` assumes that the goroutine of the
cleaner is scheduled, and nothing of the clients. `FairCommandSpec` assumes that
device management, the token service and the broker answer or fail; for the
measurements service it is the HTTP client that gives up after 30 seconds
(measurementsclient.go:106), while nothing in the code bounds the wait for a
token. `FairRegistrySpec` assumes that the reader and the database return.

**Divergences.** `first_update`: the code sets `changed` when it learns the
tenant, source or location, "to force an update the first time a function is
called" (functions.go:109), and overwrites it at functions.go:137.
`unbounded_history`: a test asks a history for its last 0 values and expects all
of them (functions_test.go:229, with a mock that ignores the number), the API
passes 0 when no number is given, and the database returns no row.

What the properties leave out, since the code does not promise it: a building
announces no change below 1 W or 0.001 kWh, measured against the last message,
so that a slow drift is never announced (`CandidTypes` excludes it, and
`DriftBounded` says how far it may go); a new percentage of a level with the
same level is stored but not announced, and a level is announced and restored to
the millimetre (`Alike`); a function with OnUpdate takes the time of every message, so that its timestamp
may go back; counts, totals and temperatures start from zero after a restart, so
that the properties about them are stated for one life of the process; a digital
input is restored from a label under which nothing is stored (registry.go:108),
so that `Recoverable` is about presences and levels. The count that a command
carries may go back or stand still: the measurements service may lack the latest
messages, an error counts as zero, and within one second the cache answers. Nor
does the question select the true states (measurementsclient.go:144-148 asks for
the aggregation `count` of an id between two times), so that what is counted may
be every state that was sent (`CountsNoMore`, `CounterNoMore` and `FreshCount`
say what is left). The ticker checks and sets a timestamp without the mutex, as
does the worker, so that the timestamp of a timer may go back, to the time of
another of its rows (`StampHasRow`). A client of the API that does not say how
many values it wants gets none, and cannot tell a failed query, or one that
broke off, from a short history (`ListedIsLogged` says the first and leaves the
others out). A registry whose reader fails starts on what it has read, a line
that was cut short included (`StartedAsConfigured`).

## 4. The theorems

`tlapm` proves all of them, for every set of functions, assignment of types,
set of workers, handlers, clients, messages, commands and lines, level
configuration and bound, from the assumptions the modules name
(`NoneAssumption`, `ClockSkewAssumption`, `LevelConfigAssumption`,
`EngineAssumption`, `CommandAssumption`, `CacheAssumption`,
`RegistryAssumption`, `ObserverAssumption`, `TimerAssumption`; TLC evaluates them in the
runs of these modules).

`FunctionEngineProofs`. By type, a handler maps the type's memory and a message
to a run within that memory (`HandleTyped`), and a candid handler that reports no
change leaves what subscribers are shown as it was (`HandleCandid`: of a level,
within a millimetre). With one
lemma per action this gives **`TypeCorrect`** (`Spec => []TypeOK`): the memory of
a call under way stays in the type of *its* function.

`FunctionSafetyProofs`, about the engine as a whole:

- **`MutualExclusionHolds`**; **`StampMonotoneHolds`**, from `TypeOK`.
- **`SubscriberInSyncHolds`**. The property speaks of moments when nobody
  handles the function, and is not inductive. `SyncInvariant` adds what holds in
  between: the call under way started from a memory that is shown, and unless it
  is going to report a change, the memory it will leave behind (`FinalOf`) looks
  like the one it started from. `StartHandle` establishes this by
  `HandleCandid`, `Store` and a forgotten error keep it because the final memory
  of the rest is that of the whole, and a return uses it. For a level, to be
  shown to the millimetre is not inductive: two changes of half a millimetre make
  one. `Stays` says why they do not: a level that is taken unannounced comes from
  a distance and is a whole number of centimetres, and two of these that are less
  than a millimetre from one level are the same.
- **`ImplementsSerialHolds`**: `Spec => Serial!Spec` under the refinement mapping
  of `FunctionRefinement` (a function is seen as it was before the message until
  the handler returns), for `LogValues = Int` and a clock that may reach 1.
  `SerialInvariant` says that a call under way is the rest of *one* result of the
  handler, applied to the memory the function had before: the memory is one of
  the stages of that result and the writes that remain end where it ends. Of the
  handlers it needs `HandleReported` only: what is stored is reported, or its
  error forgotten, so that a call that fails half-way was going to be announced.
  `SerialFunctions` takes the handlers as parameters, so that both sides speak of
  the same ones.
- **`PersistBeforePublishHolds`**. `Facts` says what the history is to say of a
  memory, by label, and `News` which of it a message has changed; each update is
  kept with the memory its call started from and the rows that very call stored
  (`entry`, `rows`). A handler that reports a change asks `onchange` for a row of
  everything that is new, and does not drop the error of storing it, one lemma per
  type; the rows of a count that follows from an edge, and of an end of a round,
  do not exist and are not asked for. By `PersistInvariant`, of a call that is
  going to announce a change, and in which nothing has failed yet, each such row
  is among those it has stored or among those still to be stored: `Store` moves
  it from the one to the other, a failure ends the call or is remembered, and
  `Publish` comes when none is left.
- **`StampHasRowHolds`** follows the same way (`StampInvariant`): such a call
  has set a timestamp, or will store a row, or has stored one without a time.

`FunctionViewProofs`, about single types. `FunctionStep` shows each step of the
engine from the place of one function: nothing of it changes, a call begins, a
row is stored or lost, the handler gives up, returns or announces, or the process
starts again. Each of these properties is then a fact about a handler, one lemma
per type, and an invariant over these eight steps; `Due` are the rows that the
call under way is still to store, `Outlook` the memory it will end with.

- **`RoundsApartHolds`**: memories are kept to open rounds (a running one has no
  end), and a call that reports a change of a stopped one ends in a closed round
  (`RoundsInvariant`).
- **`TotalIsSumHolds`**: the total a call started from is the sum over the
  updates, and what it will leave is that plus the round it is going to announce
  (`TotalInvariant`, which rests on `RoundsInvariant`). `AddsExists` and `SumIs`
  tie `MapThenSumSet` to its recurrence, by induction on a set of numbers.
- **`CountsEveryEdgeHolds`**: the count is that of the last update whose message
  brought one, and the edges in the updates since then, and at most the one edge
  more that is counted and not yet announced, unless something failed
  (`EdgeInvariant`).
- **`TemperatureLogHolds`**: a row that is due is the memory, and later than all
  rows; unless something failed one is due exactly when the last row differs from
  the memory (`TemperatureInvariant`).
- **`DriftBoundedHolds`**: a building is off by at most one threshold for each
  message that is done with and was not announced: those delivered, less the
  updates, less those in the workers' hands (`DriftInvariant`).
- **`RecoverableHolds`**: the last row with the default label, or the last of
  those still due, stands for the memory the call will end with, of a level to the
  millimetre and by way of centimetres as above (`RecallInvariant`; `LastLogValue` is what the order and limit of the query
  make of rows that are in the order of time).

`TimerProofs`. A step of a ticker's goroutine is one *beside* the workers
(`Aside`: rows are added, a timestamp or the count of faults moves, and nothing
else), and so are the last two steps of a worker's `onchange`; the first is
`StoreRow`, for which the lemmas about the engine are stated as well (`AnyStep` is
a step of the engine or `StoreRow`). `TickerOK` and `TimerStampInvariant` are
inductive together with the engine's invariant (**`TickerOKHolds`**). A step
beside keeps the invariants above, so that
**`TimerRoundsApart`**, **`TimerTotalIsSum`**, **`TimerStampHasRow`** (whoever is
about to set a timestamp has its row in the history),
**`TimerSubscriberInSync`**, **`TimerPersistBeforePublish`** and
**`TimerImplementsSerial`** (such a step is a stutter of what subscribers see;
assumptions as above) hold with tickers as well.

`ObserverProofs`. Transformers and clients are beside the workers too, and
change nothing of what subscribers see (**`ObserverImplementsSerial`**).

- **`ObserverTypeCorrect`**: what transformers hold and publish stems from
  updates, which are never taken back (`TransformInvariant`), and a history is
  made of rows (`HistoryIs`: of rows in the total order `Later`, there is one of
  each rank, by induction on their number).
- **`TransformedInOrderHolds`**: whatever was transformed has the picture and the
  timestamp of an update, and the updates are in the order of their timestamps, as
  what comes next is not below them (`OrderInvariant`); so of two updates with
  different timestamps the one with the earlier was made first.
- **`ListedIsLoggedHolds`**: what was listed is in the history, by
  `StampInvariant`, and stays there; all rows of the function have one label, so
  that the answer reaches at least as far if it asks for a row at all
  (`ListedInvariant`); a history that is asked for with 0 is empty.

`ResponseCacheProofs`: **`CacheTypeCorrect`**; **`StalenessBoundHolds`**, from
`FreshInvariant`: an answer is made after it was asked for, and an entry expires
at most a time to live and a time-out after its answer was made;
**`CacheImplementsMap`**: every step of the cache with its cleaner is a step of
`ExpiringMap` or none, because the cleaner only takes out what had expired when
it read the clock.

`CommandPathProofs`:

- **`CommandTypeCorrect`** (what is accepted is a message the engine takes);
  **`CountsNoMoreHolds`**, from `CountInvariant`: no number on its way (in the
  service, the cache, an answer or a handler) is more than the states that are
  published, which only grow; **`FreshCountHolds`**, from
  `FloorInvariant`: nothing in the cache is for a second after the last question
  about its device, so that a question in a new second finds nothing and its
  answer is made after it.
- The path and the engine together. The engine keeps its types on what it is
  given (**`EngineTypeCorrect`**), and **`CounterNoMoreHolds`**, from
  `TallyInvariant`: what a worker has in its hands is from the topic, where every
  digital input has a count, so that a counter takes counts over and never adds
  an edge of its own; neither its memory nor what a call under way will make of
  it is above what has been published.

`RegistryProofs`: **`RegistryTypeCorrect`**; **`StartedAsConfiguredHolds`**, from
`RegistryInvariant`: after each line the table says of every sensor what the last
of its lines so far says, the count of unknown types tells whether there has
been one, and the lines are those of the file or, once the reader has failed,
some of them and a beginning of the next (`AsRead`); **`LoggedOrRefusedHolds`**, which is inductive with the types.

Every safety property of a passing run is the statement of a theorem. Checked by
TLC only: liveness (`EveryMessageReturns`, `ChangeIsAnnounced`, `RunningIsLogged`,
`ExpiredIsDropped`, `EveryCommandReturns`, `RegistryLoads`), which is beyond the
prover, and the two divergences.

Some of these properties speak of fewer cases than a first reading of the code
suggests. `CountsEveryEdge` counts edges from the last count that a message
brought: behind the command path every message of a digital input brings one
(iotcore.go:93-95), which replaces that of the function, and the part about
messages without one is of use where they come from elsewhere. `CountsNoMore` and
`CounterNoMore` are about sensors without a counter of their own (`Uncounted`).
`TransformedInOrder` and `StampMonotone` leave out functions with OnUpdate and
timers, whose timestamps may go back. `ListedIsLogged` asks for an answer as late
as what was listed where the sensor dates its measurements (`Dated`): a first row
without a time is announced with the time of the clock, and no row is as late as
that. All would be false without these conditions, as the proofs showed; the
messages of the runs meet them.

## 5. Not modelled, and the plan

Not modelled, and why:

- `Device`, `PeopleCounter` and the `GetMaxValue` they need: only tests call
  them.
- The mock of the storage: generated, for the tests.
- Set-up of the service, telemetry, connections, the creation of the tables: I/O
  without state of its own. What it makes of the configuration is in `Registry`.
- The other services: device management, the token service and the measurements
  service answer, late or not, or fail.
- The layout of SenML packs, and what is turned away before it reaches any
  state; routes, status codes and JSON of the API. Hence Messages and API are
  called partly modelled.
- Of a function that is listed, everything but its timestamp: the API reads the
  fields one by one without the mutex, and what a torn read shows reaches that
  reader only. A timestamp is taken to be read in one piece, as it is when times
  are whole seconds.
- Two lines with one id share one history in the database; `Get` finds any of
  them, and the engine keeps the histories of its functions apart.

What is left, in this order:

1. The command path in front of the engine: `ImplementsSerial` and
   `SubscriberInSync` for the messages that the path makes, of which only
   `TypeOK` and the counts are proved there.
2. What the abstract map of the cache promises, used by the command path in
   place of the cache itself.
3. The engine with functions that share an id, and so a history.
