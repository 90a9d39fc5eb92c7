----------------------------- MODULE Observers -----------------------------
(***************************************************************************)
(* What is made of the functions beside the path of a message: the handler *)
(* of function.updated, which turns some updates into message.transformed, *)
(* and the HTTP API, which lists functions and answers with their history. *)
(*                                                                         *)
(* Neither takes app.mu.  The messaging library calls the handler from any *)
(* number of goroutines, the Transformers, and may deliver an update late, *)
(* or again.  A Client lists a function and then asks for the last values  *)
(* of its default history; workers go on in between.  A timestamp is taken *)
(* to be read in one piece, which holds for whole seconds; the rest of a   *)
(* listed function is read without any order and nothing is said of it.    *)
(***************************************************************************)
EXTENDS FunctionProperties

CONSTANTS
    Transformers,    \* goroutines that handle function.updated
    Clients,         \* clients of the API
    PeopleCounters,  \* functions of subtype peoplecounter
    MaxTransforms,   \* bound: updates delivered, again or for the first time
    MaxQueries,      \* bound: functions listed
    MaxLastN         \* bound: values asked for

ASSUME ObserverAssumption ==
    /\ PeopleCounters \subseteq Functions
    /\ None \notin Clients
    /\ {MaxTransforms, MaxQueries, MaxLastN} \subseteq Nat

VARIABLES
    transforming,   \* the update each transformer has been called with, or None
    transformed,    \* the message.transformed events, by function
    query,          \* what each client has been told, or None
    transforms, queries   \* what the bounds count

observerVars == << transforming, transformed, query, transforms, queries >>

(* A length in whole metres: int64(f.Level.Current) *)
Metres(v) == IF v < 0 THEN -((-v) \div Metre) ELSE v \div Metre

(* The lwm2m object that is made of an update, or None: only people are     *)
(* counted, a level needs a percentage and a timer the duration of a round. *)
Picture(f, s) ==
    CASE Type[f] = "counter" /\ f \in PeopleCounters ->
            [counted |-> s.count]
      [] Type[f] = "level" /\ s.percent # None ->
            [percentage |-> s.percent, level |-> Metres(s.current)]
      [] Type[f] = "stopwatch" ->
            [cumulative |-> s.cumulativeTime, on |-> s.state, counted |-> s.count]
      [] Type[f] = "timer" /\ s.duration # None ->
            [delay |-> s.duration, cumulative |-> s.totalDuration]
      [] OTHER -> None

(* Mutant: the picture is dated when it is made. *)
TransformedNow(f, u) == [picture |-> Picture(f, u.mem), time |-> now, sent |-> now]

(* The object has the Timestamp of the update, the event its own. *)
Transformed(f, u) == [picture |-> Picture(f, u.mem), time |-> u.stamp, sent |-> now]

Listed == [step : {"listed"}, fn : Functions, stamp : Nat]

(* failed: auxiliary, the database did not give all the rows *)
Answer ==
    [step : {"answered"}, fn : Functions, stamp : Nat, lastN : Nat, values : Seq(Row),
     start : Nat, end : Nat, failed : BOOLEAN]
-----------------------------------------------------------------------------
ObserverInit ==
    /\ Init
    /\ transforming = [t \in Transformers |-> None]
    /\ transformed = [f \in Functions |-> {}]
    /\ query = [c \in Clients |-> None]
    /\ transforms = 0
    /\ queries = 0

ReceiveUpdate(t) ==
    /\ transforming[t] = None
    /\ transforms < MaxTransforms
    /\ transforms' = transforms + 1
    /\ \E f \in Functions : \E i \in DOMAIN updates[f] :
          transforming' = [transforming EXCEPT ![t] = [fn |-> f, update |-> updates[f][i]]]
    /\ UNCHANGED << vars, transformed, query, queries >>

(* Mutant: an update of any type is published. *)
AnyPicture(t) == transforming[t] # None

HasPicture(t) ==
    /\ transforming[t] # None
    /\ Picture(transforming[t].fn, transforming[t].update.mem) # None

Forget(t) == transforming' = [transforming EXCEPT ![t] = None]

DropUpdate(t) ==
    /\ transforming[t] # None
    /\ ~HasPicture(t)
    /\ Forget(t)
    /\ UNCHANGED << vars, transformed, query, transforms, queries >>

PublishTransformed(t) ==
    LET f == transforming[t].fn
    IN  /\ HasPicture(t)
        /\ transformed' = [transformed EXCEPT ![f] =
                              @ \cup {Transformed(f, transforming[t].update)}]
        /\ Forget(t)
        /\ UNCHANGED << vars, query, transforms, queries >>

(* The error is logged, and the update is done with. *)
TransformedNotPublished(t) ==
    /\ HasPicture(t)
    /\ Fault
    /\ Forget(t)
    /\ UNCHANGED << now, process, history, registered, updates, synced, deliveries, restarts,
                    transformed, query, transforms, queries >>
-----------------------------------------------------------------------------
(* GET /functions *)
ListFunctions(c) ==
    /\ query[c] = None
    /\ queries < MaxQueries
    /\ queries' = queries + 1
    /\ \E f \in Functions :
          query' = [query EXCEPT ![c] = [step |-> "listed", fn |-> f, stamp |-> stamp[f]]]
    /\ UNCHANGED << vars, transforming, transformed, transforms >>

(* From the first value to the last, or from the zero time to this moment. *)
Response(q, n, values, failed) ==
    [step |-> "answered", fn |-> q.fn, stamp |-> q.stamp, lastN |-> n, values |-> values,
     start |-> IF values = << >> THEN ZeroTime ELSE values[1].time,
     end   |-> IF values = << >> THEN now ELSE Last(values).time,
     failed |-> failed]

(* fnct.History without a label *)
DefaultHistory(f, n) == History(history[f], DefaultHistoryLabel(Type[f]), n)

(* GET /functions/{id}/history?lastN=n, with the label of the default       *)
(* history; n is 0 when the request has no lastN that can be parsed.  An    *)
(* error of the query is answered with no values at all, and one while the  *)
(* rows are read is not asked for: it is answered with those read so far.   *)
AskHistory(c) ==
    LET q == query[c]
    IN  /\ q # None
        /\ q.step = "listed"
        /\ \E n \in 0 .. MaxLastN :
              LET rows == DefaultHistory(q.fn, n)
              IN  \/ query' = [query EXCEPT ![c] = Response(q, n, rows, FALSE)] /\ UNCHANGED faults
                 \/ /\ Fault
                    /\ \E k \in 0 .. Len(rows) :
                          query' = [query EXCEPT ![c] = Response(q, n, SubSeq(rows, 1, k), TRUE)]
        /\ UNCHANGED << now, process, history, registered, updates, synced, deliveries,
                        restarts, transforming, transformed, transforms, queries >>

(* The client is done with the answer. *)
Leave(c) ==
    /\ query[c] # None
    /\ query[c].step = "answered"
    /\ query' = [query EXCEPT ![c] = None]
    /\ UNCHANGED << vars, transforming, transformed, transforms, queries >>

(* The events are the broker's, and a client can ask across a restart. *)
ObserverRestart ==
    /\ Restart
    /\ transforming' = [t \in Transformers |-> None]
    /\ UNCHANGED << transformed, query, transforms, queries >>

Observe ==
    \/ \E t \in Transformers :
          \/ ReceiveUpdate(t)
          \/ DropUpdate(t)
          \/ PublishTransformed(t)
          \/ TransformedNotPublished(t)
    \/ \E c \in Clients : ListFunctions(c) \/ AskHistory(c) \/ Leave(c)

ObserverNext ==
    \/ Tick /\ UNCHANGED observerVars
    \/ ObserverRestart
    \/ \E w \in Workers : (Receive(w) \/ Lock(w) \/ Proceed(w)) /\ UNCHANGED observerVars
    \/ Observe

ObserverSpec == ObserverInit /\ [][ObserverNext]_<< vars, observerVars >>
-----------------------------------------------------------------------------
(* Every variable has its type.                                             *)
ObserverTypeOK ==
    /\ DOMAIN transforming = Transformers
    /\ \A t \in Transformers :
          transforming[t] # None =>
              /\ transforming[t].fn \in Functions
              /\ transforming[t].update \in Update(transforming[t].fn)
    /\ \A f \in Functions : \A m \in transformed[f] :
          m.picture # None /\ {m.time, m.sent} \subseteq Nat
    /\ query \in [Clients -> {None} \cup Listed \cup Answer]
    /\ {transforms, queries} \subseteq Nat

(* Whoever puts the transformed messages of a function in the order of      *)
(* their times sees its updates in the order in which they were made, each  *)
(* with its own picture, in whatever order they were delivered, how often   *)
(* and how late, and whoever transformed them; it is not so of a function   *)
(* that takes the time of every message, or of a timer, whose ticker sets   *)
(* the time beside the mutex (transform.go: f.Timestamp).                   *)
TransformedInOrder ==
    restarts = 0 =>
        \A f \in Functions \ (OnUpdate \cup OfType("timer")) :
            \A m, n \in transformed[f] :
                m.time < n.time =>
                    \E i, j \in DOMAIN updates[f] :
                        /\ i < j
                        /\ m.time = updates[f][i].stamp
                        /\ m.picture = Picture(f, updates[f][i].mem)
                        /\ n.time = updates[f][j].stamp
                        /\ n.picture = Picture(f, updates[f][j].mem)

(* The functions whose rows are all of one label and have the time of a     *)
(* measurement.                                                             *)
Dated ==
    {f \in (OfType("presence") \cup OfType("waterquality")) \ OnUpdate :
        \A m \in Messages : m.fn = f => m.time # ZeroTime}

(* A client that has seen the timestamp of a function whose sensor gives    *)
(* its measurements a time finds the value that it stands for, or a later   *)
(* one, in the history it asks for next, also when the process was          *)
(* restarted in between, if it says how many values it wants and the        *)
(* database gave them: without a lastN nothing is ever found                *)
(* (api/functions.go: st, et; onchange: Add, then Timestamp).               *)
ListedIsLogged ==
    \A c \in Clients :
        LET q == query[c]
        IN  q # None /\ q.step = "answered" =>
                /\ q.start <= q.end
                /\ q.lastN = 0 => q.values = << >>
                /\ q.lastN > 0 /\ ~q.failed /\ q.stamp # ZeroTime /\ q.fn \in Dated
                   => q.values # << >> /\ q.end >= q.stamp
=============================================================================
