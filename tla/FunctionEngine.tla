--------------------------- MODULE FunctionEngine ---------------------------
(***************************************************************************)
(* The path of a message.accepted event through iot-core: the topic        *)
(* message handler, app.MessageAccepted with its mutex, fnct.Handle, the   *)
(* history in the database and the function.updated event.                 *)
(*                                                                         *)
(* The messaging library calls the topic message handler from any number   *)
(* of goroutines, the Workers.  A worker waits for the mutex, runs the     *)
(* handler of the function that is registered for the device, with one     *)
(* step for every row it stores, publishes the function, and unlocks.      *)
(* The database and the broker can fail at each call; the process can be   *)
(* killed between any two steps and is then started again on the same      *)
(* configuration and the same database.                                    *)
(***************************************************************************)
EXTENDS FunctionTypes, Storage

CONSTANTS
    Workers,        \* goroutines of the messaging library
    Type,           \* the type of each function
    OnUpdate,       \* functions that are published for every message
    Messages,       \* the messages the broker may deliver
    MaxTime,        \* bound: the clock stops here
    MaxDeliveries,  \* bound: messages delivered, again or for the first time
    MaxFaults,      \* bound: calls of the database or the broker that fail
    MaxRestarts     \* bound: kills of the process

ASSUME EngineAssumption ==
    /\ IsFiniteSet(Functions)
    /\ Type \in [Functions -> FunctionTypeNames]
    /\ OnUpdate \subseteq Functions
    /\ Messages \subseteq Message
    /\ None \notin Workers
    /\ {MaxTime, MaxDeliveries, MaxFaults, MaxRestarts} \subseteq Nat

VARIABLES
    now,         \* the clock
    mu,          \* the holder of app.mu, or None
    pc,          \* where each worker is: "idle", "waiting" or "handling"
    msg,         \* the message each worker has been called with
    run,         \* what remains to be done of the Handle call under way
    mem,         \* the memory of each function
    stamp,       \* Timestamp of each function
    meta,        \* Tenant, Source and Location of each function
    history,     \* the rows of fnct_history, by function
    registered,  \* the functions that have a row in fnct
    updates,     \* the function.updated events, by function
    synced,      \* auxiliary: no error or restart since the last update
    deliveries, faults, restarts   \* what the bounds count

vars == << now, mu, pc, msg, run, mem, stamp, meta, history, registered,
           updates, synced, deliveries, faults, restarts >>

process == << mu, pc, msg, run, mem, stamp, meta >>

(* run: what is left of a Handle call, from which memory it started, which  *)
(* rows it has stored, and whether one of its writes has failed.            *)
Pending(M) ==
    [entry   : M,
     writes  : Seq(Writes(M)),
     rows    : SUBSET (Nat \ {0}),
     outcome : Outcomes,
     onerr   : {"stop", "join", "drop"},
     failed  : BOOLEAN]

Row == [label : Labels, value : Int, time : Nat]

(* Besides what is published, an update keeps what led to it: the memory    *)
(* before the message, the rows stored for it, and the count taken from it. *)
Update(f) ==
    [mem     : Memory(Type[f]),
     stamp   : Nat,
     meta    : [MetaKeys -> MetaValues \cup {None}],
     changed : BOOLEAN,
     entry   : Memory(Type[f]),
     rows    : SUBSET (Nat \ {0}),
     count   : Int \cup {None}]
-----------------------------------------------------------------------------
Handling(w) == pc[w] = "handling"

Fn(w) == msg[w].fn

IdleFunction(f) == \A w \in Workers : Handling(w) => Fn(w) # f

(* Fields that are still unset take the value in the message. *)
FillMeta(f, m) ==
    [k \in MetaKeys |-> IF meta[f][k] = None THEN m.meta[k] ELSE meta[f][k]]

(* Mutant: the time of a row is taken whatever the timestamp was. *)
StampEveryWrite(f, t) == t

(* if ts.After(f.Timestamp), in onchange *)
StampAfterWrite(f, t) == IF t > stamp[f] THEN t ELSE stamp[f]

(* The Timestamp of an update: that of the message when nothing changed, *)
(* and never Go's zero time.                                             *)
AnnouncedStamp(f, m, changed) ==
    LET t == IF changed THEN stamp[f] ELSE m.accepted
    IN  IF t = ZeroTime THEN now ELSE t

(* Mutant: MessageAccepted without its mutex. *)
NoLock == TRUE

LockFree == mu = None

(* Mutant: a return that forgets to unlock. *)
ReturnLocked(w) ==
    /\ mu' = mu
    /\ pc' = [pc EXCEPT ![w] = "idle"]
    /\ msg' = [msg EXCEPT ![w] = None]
    /\ run' = [run EXCEPT ![w] = None]

(* defer a.mu.Unlock(), and the end of the topic message handler *)
Unlock(w) ==
    /\ mu' = None
    /\ pc' = [pc EXCEPT ![w] = "idle"]
    /\ msg' = [msg EXCEPT ![w] = None]
    /\ run' = [run EXCEPT ![w] = None]

Desync(f) == synced' = [synced EXCEPT ![f] = FALSE]

Fault == faults < MaxFaults /\ faults' = faults + 1
-----------------------------------------------------------------------------
(* What NewRegistry makes of the configuration. lost: the functions whose *)
(* history cannot be read; refused: those whose AddFnct fails.            *)
Restored(f, lost) ==
    New(Type[f], IF f \in lost THEN 0
                 ELSE LastLogValue(history[f], DefaultHistoryLabel(Type[f])))

Init ==
    /\ now = 1
    /\ mu = None
    /\ pc = [w \in Workers |-> "idle"]
    /\ msg = [w \in Workers |-> None]
    /\ run = [w \in Workers |-> None]
    /\ mem = [f \in Functions |-> New(Type[f], 0)]
    /\ stamp = [f \in Functions |-> ZeroTime]
    /\ meta = [f \in Functions |-> [k \in MetaKeys |-> None]]
    /\ history = [f \in Functions |-> << >>]
    /\ \E refused \in SUBSET Functions :
          /\ Cardinality(refused) <= MaxFaults
          /\ registered = Functions \ refused
          /\ faults = Cardinality(refused)
    /\ updates = [f \in Functions |-> << >>]
    /\ synced = [f \in Functions |-> FALSE]
    /\ deliveries = 0
    /\ restarts = 0

Tick ==
    /\ now < MaxTime
    /\ now' = now + 1
    /\ UNCHANGED << process, history, registered, updates, synced,
                    deliveries, faults, restarts >>

(* The messaging library calls the topic message handler. Any message may  *)
(* come at any time, in any order and more than once. Malformed packs are  *)
(* turned away before they reach the mutex and are not delivered here.     *)
Receive(w) ==
    /\ pc[w] = "idle"
    /\ deliveries < MaxDeliveries
    /\ \E m \in Messages : msg' = [msg EXCEPT ![w] = m]
    /\ pc' = [pc EXCEPT ![w] = "waiting"]
    /\ deliveries' = deliveries + 1
    /\ UNCHANGED << now, mu, run, mem, stamp, meta, history, registered,
                    updates, synced, faults, restarts >>

(* No function for the device, or a message from the future. *)
Ignorable(m) == m.fn = None \/ m.accepted > now

Ignore(w) ==
    /\ pc[w] = "waiting"
    /\ LockFree
    /\ Ignorable(msg[w])
    /\ pc' = [pc EXCEPT ![w] = "idle"]
    /\ msg' = [msg EXCEPT ![w] = None]
    /\ UNCHANGED << now, mu, run, mem, stamp, meta, history, registered,
                    updates, synced, deliveries, faults, restarts >>

(* Lock, find the function, fill in its metadata and call its handler up *)
(* to the first onchange.                                                *)
StartHandle(w) ==
    LET m == msg[w]
        f == Fn(w)
        r == Handle(Type[f], mem[f], m, now)
    IN  /\ pc[w] = "waiting"
        /\ LockFree
        /\ ~Ignorable(m)
        /\ mu' = w
        /\ pc' = [pc EXCEPT ![w] = "handling"]
        /\ meta' = [meta EXCEPT ![f] = FillMeta(f, m)]
        /\ mem' = [mem EXCEPT ![f] = r.begin]
        /\ run' = [run EXCEPT ![w] =
                      [entry |-> mem[f], writes |-> r.writes, rows |-> {},
                       outcome |-> r.outcome, onerr |-> r.onerr, failed |-> FALSE]]
        /\ UNCHANGED << now, msg, stamp, history, registered, updates, synced,
                        deliveries, faults, restarts >>

(* storage.Add *)
Stored(f, write) ==
    history' = [history EXCEPT ![f] =
                   Append(@, [label |-> write.label, value |-> write.value,
                              time |-> write.time])]

NextWrite(w) ==
    /\ Handling(w)
    /\ run[w].writes # << >>

(* onchange: the row is stored, *)
StoreRow(w) ==
    LET f == Fn(w)
        write == Head(run[w].writes)
    IN  /\ NextWrite(w)
        /\ f \in registered
        /\ Stored(f, write)
        /\ mem' = [mem EXCEPT ![f] = write.then]
        /\ run' = [run EXCEPT ![w].writes = Tail(@),
                              ![w].rows = @ \cup {Len(history[f]) + 1}]
        /\ UNCHANGED << now, mu, pc, msg, meta, registered, updates, synced,
                        deliveries, faults, restarts >>

(* and the timestamp follows it.  Nobody but the holder of the mutex sets   *)
(* it, so that the two are one step here; where a ticker sets it as well    *)
(* they are taken apart (TimerUpdater).                                     *)
Store(w) ==
    /\ StoreRow(w)
    /\ stamp' = [stamp EXCEPT ![Fn(w)] =
                    StampAfterWrite(Fn(w), Head(run[w].writes).time)]

(* storage.Add returns an error: always for a function without a row in     *)
(* fnct (the foreign key), else by a fault of the database, which may come  *)
(* after the row was stored. The handler gives up or goes on with the rest. *)
AddFails(f, write) ==
    \/ f \notin registered /\ UNCHANGED << history, faults >>
    \/ f \in registered /\ Fault /\ UNCHANGED history
    \/ f \in registered /\ Fault /\ Stored(f, write)

(* Mutant: every handler forgets the error. *)
StoreFailsUnseen(w) ==
    LET f == Fn(w)
        write == Head(run[w].writes)
    IN  /\ NextWrite(w)
        /\ AddFails(f, write)
        /\ run' = [run EXCEPT ![w].writes = Tail(@)]
        /\ mem' = [mem EXCEPT ![f] = write.then]
        /\ UNCHANGED << now, mu, pc, msg, stamp, meta, registered, updates, synced,
                        deliveries, restarts >>

StoreFails(w) ==
    LET f == Fn(w)
        write == Head(run[w].writes)
    IN  /\ NextWrite(w)
        /\ AddFails(f, write)
        /\ \/ /\ run[w].onerr = "stop"
              /\ Unlock(w)
              /\ Desync(f)
              /\ UNCHANGED mem
           \/ /\ run[w].onerr # "stop"
              /\ run' = [run EXCEPT ![w].writes = Tail(@),
                                    ![w].failed = @ \/ run[w].onerr = "join"]
              /\ mem' = [mem EXCEPT ![f] = write.then]
              /\ UNCHANGED << mu, pc, msg, synced >>
        /\ UNCHANGED << now, stamp, meta, registered, updates, deliveries, restarts >>

(* The handler has made its last write. *)
Handled(w) ==
    /\ Handling(w)
    /\ run[w].writes = << >>

(* ErrNoMatch and the other errors end alike: nothing is published. *)
ReturnError(w) ==
    /\ Handled(w)
    /\ run[w].failed \/ run[w].outcome = "rejected"
    /\ Unlock(w)
    /\ IF run[w].failed THEN Desync(Fn(w)) ELSE UNCHANGED synced
    /\ UNCHANGED << now, mem, stamp, meta, history, registered, updates,
                    deliveries, faults, restarts >>

Succeeded(w) ==
    /\ Handled(w)
    /\ ~run[w].failed
    /\ run[w].outcome # "rejected"

Changed(w) == run[w].outcome = "changed"

(* Mutant: changed && f.OnUpdate *)
MustPublishBoth(w) == Changed(w) /\ Fn(w) \in OnUpdate

(* changed || f.OnUpdate *)
MustPublish(w) == Changed(w) \/ Fn(w) \in OnUpdate

ReturnSilently(w) ==
    /\ Succeeded(w)
    /\ ~MustPublish(w)
    /\ Unlock(w)
    /\ UNCHANGED << now, mem, stamp, meta, history, registered, updates, synced,
                    deliveries, faults, restarts >>

Restamp(f, m, changed) ==
    stamp' = [stamp EXCEPT ![f] = AnnouncedStamp(f, m, changed)]

Publish(w) ==
    LET f == Fn(w)
    IN  /\ Succeeded(w)
        /\ MustPublish(w)
        /\ Restamp(f, msg[w], Changed(w))
        /\ updates' = [updates EXCEPT ![f] =
                          Append(@, [mem |-> mem[f], stamp |-> stamp'[f],
                                     meta |-> meta[f], changed |-> Changed(w),
                                     entry |-> run[w].entry, rows |-> run[w].rows,
                                     count |-> CountTaken(Type[f], msg[w])])]
        /\ synced' = [synced EXCEPT ![f] = TRUE]
        /\ Unlock(w)
        /\ UNCHANGED << now, mem, meta, history, registered, deliveries, faults, restarts >>

PublishFails(w) ==
    LET f == Fn(w)
    IN  /\ Succeeded(w)
        /\ MustPublish(w)
        /\ Fault
        /\ Restamp(f, msg[w], Changed(w))
        /\ Desync(f)
        /\ Unlock(w)
        /\ UNCHANGED << now, mem, meta, history, registered, updates, deliveries, restarts >>

(* The process is killed and started again: the messages in the workers'   *)
(* hands are lost, and so is all memory but what the registry restores.    *)
Restart ==
    /\ restarts < MaxRestarts
    /\ restarts' = restarts + 1
    /\ \E lost, refused \in SUBSET Functions :
          /\ faults + Cardinality(lost) + Cardinality(refused) <= MaxFaults
          /\ faults' = faults + Cardinality(lost) + Cardinality(refused)
          /\ mem' = [f \in Functions |-> Restored(f, lost)]
          /\ registered' = registered \cup (Functions \ refused)
    /\ mu' = None
    /\ pc' = [w \in Workers |-> "idle"]
    /\ msg' = [w \in Workers |-> None]
    /\ run' = [w \in Workers |-> None]
    /\ stamp' = [f \in Functions |-> ZeroTime]
    /\ meta' = [f \in Functions |-> [k \in MetaKeys |-> None]]
    /\ synced' = [f \in Functions |-> FALSE]
    /\ UNCHANGED << now, history, updates, deliveries >>
-----------------------------------------------------------------------------
Lock(w) == Ignore(w) \/ StartHandle(w)

Proceed(w) ==
    \/ Store(w)
    \/ StoreFails(w)
    \/ ReturnError(w)
    \/ ReturnSilently(w)
    \/ Publish(w)
    \/ PublishFails(w)

Next ==
    \/ Tick
    \/ Restart
    \/ \E w \in Workers : Receive(w) \/ Lock(w) \/ Proceed(w)

Spec == Init /\ [][Next]_vars

(* The database and the broker answer, and sync.Mutex lets no goroutine     *)
(* starve: after a millisecond it is handed over in the order of arrival.   *)
Fairness == \A w \in Workers : SF_vars(Lock(w)) /\ WF_vars(Proceed(w))

FairSpec == Spec /\ Fairness
-----------------------------------------------------------------------------
(* Every variable has its type: the memory of a function is that of its    *)
(* type, also in the calls under way and in the published updates.         *)
TypeOK ==
    /\ now \in Nat
    /\ mu \in Workers \cup {None}
    /\ pc \in [Workers -> {"idle", "waiting", "handling"}]
    /\ DOMAIN msg = Workers
    /\ DOMAIN run = Workers
    /\ \A w \in Workers : IF pc[w] = "idle" THEN msg[w] = None ELSE msg[w] \in Message
    /\ \A w \in Workers :
          IF Handling(w)
          THEN Fn(w) \in Functions /\ run[w] \in Pending(Memory(Type[Fn(w)]))
          ELSE run[w] = None
    /\ DOMAIN mem = Functions
    /\ \A f \in Functions : mem[f] \in Memory(Type[f])
    /\ stamp \in [Functions -> Nat]
    /\ meta \in [Functions -> [MetaKeys -> MetaValues \cup {None}]]
    /\ history \in [Functions -> Seq(Row)]
    /\ registered \subseteq Functions
    /\ DOMAIN updates = Functions
    /\ \A f \in Functions : updates[f] \in Seq(Update(f))
    /\ synced \in [Functions -> BOOLEAN]
    /\ {deliveries, faults, restarts} \subseteq Nat
=============================================================================
