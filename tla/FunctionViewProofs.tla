------------------------- MODULE FunctionViewProofs -------------------------
(***************************************************************************)
(* The engine as one function sees it, and what follows for the values the *)
(* functions keep, announce and log.                                       *)
(*                                                                         *)
(* At any moment at most one call of Handle is under way for a function.   *)
(* Whatever the workers do, a function only sees a call begin, a row being *)
(* stored or lost, and the call end; the lemma FunctionStep says so once,  *)
(* and every invariant below is proved over these eight kinds of step.     *)
(***************************************************************************)
EXTENDS FunctionSafetyProofs, WellFoundedInduction

(* A worker has a message for f in its hands.                               *)
Busy(f) == ~IdleFunction(f)

(* The call under way for a function that is busy. *)
Call(f) == run[CHOOSE w \in Workers : Handling(w) /\ Fn(w) = f]

(* The message it was called with. *)
CallMsg(f) == msg[CHOOSE w \in Workers : Handling(w) /\ Fn(w) = f]

(* The rows that the call under way for f is still to store.                *)
Due(f) == IF Busy(f) THEN Call(f).writes ELSE << >>

(* The memory of a function when all that is due has been written. *)
Outlook(f) == FinalOf(mem[f], Due(f))

(* Messages come from the broker; while nothing has failed every function   *)
(* is in the database, and a call remembers a failure only if there was one.*)
EngineInvariant ==
    /\ TypeOK
    /\ MutualExclusion
    /\ \A w \in Workers : pc[w] # "idle" => msg[w] \in Messages
    /\ faults = 0 => registered = Functions
    /\ \A w \in Workers : Handling(w) /\ run[w].failed => faults > 0
-----------------------------------------------------------------------------
(* The steps of one function. *)
RowOf(write) == [label |-> write.label, value |-> write.value, time |-> write.time]

(* The next of them is added to the history.                                *)
Logged(f) == history'[f] = Append(history[f], RowOf(Head(Call(f).writes)))

(* The history of f is left as it is.                                       *)
NotLogged(f) == history'[f] = history[f]

(* Nothing that concerns f happens. *)
Keeps(f) ==
    /\ Busy(f) <=> Busy(f)'
    /\ Busy(f) => Call(f)' = Call(f) /\ CallMsg(f)' = CallMsg(f)
    /\ mem'[f] = mem[f]
    /\ updates'[f] = updates[f]
    /\ NotLogged(f)

(* The handler of f is called. *)
Begins(f) ==
    /\ ~Busy(f) /\ Busy(f)'
    /\ \E m \in Messages :
          LET r == Handle(Type[f], mem[f], m, now)
          IN  /\ m.fn = f
              /\ mem'[f] = r.begin
              /\ Call(f)' = [entry |-> mem[f], writes |-> r.writes, rows |-> {},
                             outcome |-> r.outcome, onerr |-> r.onerr, failed |-> FALSE]
              /\ CallMsg(f)' = m
    /\ updates'[f] = updates[f]
    /\ NotLogged(f)

(* The handler goes on to its next row: the memory is what holds after the  *)
(* one stored.                                                              *)
NextStage(f) ==
    /\ Busy(f) /\ Busy(f)'
    /\ Call(f).writes # << >>
    /\ Call(f)'.writes = Tail(Call(f).writes)
    /\ Call(f)'.entry = Call(f).entry
    /\ Call(f)'.outcome = Call(f).outcome
    /\ Call(f)'.onerr = Call(f).onerr
    /\ CallMsg(f)' = CallMsg(f)
    /\ mem'[f] = Head(Call(f).writes).then
    /\ updates'[f] = updates[f]

(* A row is stored. *)
StoresRow(f) == NextStage(f) /\ Logged(f)

(* A row may be lost, and the handler goes on. *)
LosesRow(f) ==
    /\ NextStage(f)
    /\ Call(f).onerr # "stop"
    /\ Logged(f) \/ NotLogged(f)
    /\ faults' > 0

(* A row may be lost, and the handler returns. *)
GivesUp(f) ==
    /\ Busy(f) /\ ~Busy(f)'
    /\ Call(f).writes # << >>
    /\ Call(f).onerr = "stop"
    /\ mem'[f] = mem[f]
    /\ updates'[f] = updates[f]
    /\ Logged(f) \/ NotLogged(f)
    /\ faults' > 0

Ends(f) ==
    /\ Busy(f) /\ ~Busy(f)'
    /\ Call(f).writes = << >>
    /\ mem'[f] = mem[f]
    /\ NotLogged(f)

(* The handler is done, and nothing is published. *)
Returns(f) ==
    /\ Ends(f)
    /\ \/ Call(f).outcome = "rejected"
       \/ Call(f).outcome = "unchanged"
       \/ faults' > 0
    /\ updates'[f] = updates[f]

(* The handler is done, and the function is published. *)
Announces(f) ==
    /\ Ends(f)
    /\ Call(f).outcome # "rejected"
    /\ Call(f).outcome = "changed" \/ f \in OnUpdate
    /\ updates'[f] = Append(updates[f], [mem     |-> mem[f],
                                         stamp   |-> stamp'[f],
                                         meta    |-> meta[f],
                                         changed |-> Call(f).outcome = "changed",
                                         entry   |-> Call(f).entry,
                                         rows    |-> Call(f).rows,
                                         count   |-> CountTaken(Type[f], CallMsg(f))])

(* The process is killed and started again. *)
StartsAgain(f) ==
    /\ ~Busy(f)'
    /\ \E lost \in SUBSET Functions :
          /\ mem'[f] = Restored(f, lost)
          /\ faults' = 0 => lost = {}
    /\ updates'[f] = updates[f]
    /\ NotLogged(f)
    /\ restarts' > 0
-----------------------------------------------------------------------------
LEMMA CallOf ==
    ASSUME MutualExclusion, NEW w \in Workers, Handling(w)
    PROVE  Busy(Fn(w)) /\ Call(Fn(w)) = run[w] /\ CallMsg(Fn(w)) = msg[w]
<1>1. \A v \in Workers : Handling(v) <=> v = w
  BY DEF MutualExclusion
<1>2. (CHOOSE v \in Workers : Handling(v) /\ Fn(v) = Fn(w)) = w
  BY <1>1
<1> QED
  BY <1>2 DEF Busy, IdleFunction, Call, CallMsg

(* The same after a step. *)
LEMMA CallOfNext ==
    ASSUME NEW w \in Workers, \A v \in Workers : Handling(v)' <=> v = w, NEW f, Fn(w)' = f
    PROVE  Busy(f)' /\ Call(f)' = run'[w] /\ CallMsg(f)' = msg'[w]
<1>1. (CHOOSE v \in Workers : Handling(v)' /\ Fn(v)' = f) = w
  OBVIOUS
<1>2. Busy(f)'
  BY DEF Busy, IdleFunction
<1> QED
  BY <1>1, <1>2 DEF Call, CallMsg

(* The call under way for f is typed for f, and has failed only if there    *)
(* was a fault.                                                             *)
LEMMA CallTyped ==
    ASSUME EngineInvariant, NEW f \in Functions, Busy(f)
    PROVE  /\ Call(f) \in Pending(Memory(Type[f]))
           /\ Call(f).failed => faults > 0
           /\ CallMsg(f) \in Messages /\ CallMsg(f).fn = f
<1>1. PICK w \in Workers : Handling(w) /\ Fn(w) = f
  BY DEF Busy, IdleFunction
<1>2. Call(f) = run[w] /\ CallMsg(f) = msg[w]
  BY <1>1, CallOf DEF EngineInvariant
<1>3. msg[w] \in Messages /\ msg[w].fn = f
  BY <1>1 DEF EngineInvariant, Handling, Fn
<1>4. run[w] \in Pending(Memory(Type[f]))
  BY <1>1, HandlingTyped DEF EngineInvariant
<1>5. run[w].failed => faults > 0
  BY <1>1 DEF EngineInvariant
<1> QED
  BY <1>2, <1>3, <1>4, <1>5

(* The steps of other functions, and those that are about no function. *)
LEMMA ElsewhereKeeps ==
    ASSUME MutualExclusion, NEW f \in Functions,
           mem'[f] = mem[f], updates'[f] = updates[f], history'[f] = history[f],
           \A v \in Workers :
              /\ (Handling(v) /\ Fn(v) = f) <=> (Handling(v)' /\ Fn(v)' = f)
              /\ Handling(v) /\ Fn(v) = f => run'[v] = run[v] /\ msg'[v] = msg[v]
    PROVE  Keeps(f)
<1>1. Busy(f) <=> Busy(f)'
  BY DEF Busy, IdleFunction
<1>2. ASSUME Busy(f)
      PROVE  Call(f)' = Call(f) /\ CallMsg(f)' = CallMsg(f)
  <2>1. PICK w \in Workers : Handling(w) /\ Fn(w) = f
    BY <1>2 DEF Busy, IdleFunction
  <2>2. \A v \in Workers : Handling(v) /\ Fn(v) = f <=> v = w
    BY <2>1 DEF MutualExclusion
  <2>3. (CHOOSE v \in Workers : Handling(v) /\ Fn(v) = f) = w
    BY <2>2
  <2>4. (CHOOSE v \in Workers : Handling(v)' /\ Fn(v)' = f) = w
    BY <2>2
  <2> QED
    BY <2>1, <2>3, <2>4 DEF Call, CallMsg
<1> QED
  BY <1>1, <1>2 DEF Keeps, NotLogged
-----------------------------------------------------------------------------
(* The engine. *)
LEMMA EngineInit == Init => EngineInvariant
<1> SUFFICES ASSUME Init PROVE EngineInvariant
  OBVIOUS
<1>1. TypeOK
  BY InitTyped
<1>2. MutualExclusion
  BY EngineAssumption DEF Init, MutualExclusion, Handling
<1>3. \A w \in Workers : pc[w] = "idle"
  BY DEF Init
<1>4. faults = 0 => registered = Functions
  <2>1. PICK refused \in SUBSET Functions :
           registered = Functions \ refused /\ faults = Cardinality(refused)
    BY DEF Init
  <2>2. IsFiniteSet(refused)
    BY EngineAssumption, FS_Subset
  <2>3. faults = 0 => refused = {}
    BY <2>1, <2>2, FS_EmptySet
  <2> QED
    BY <2>1, <2>3
<1> QED
  BY <1>1, <1>2, <1>3, <1>4 DEF EngineInvariant, Handling

(* A call of the database that fails is counted, now or when the function   *)
(* was refused.                                                             *)
LEMMA FailureCounted ==
    ASSUME EngineInvariant, NEW f \in Functions, NEW write, AddFails(f, write)
    PROVE  faults' > 0 /\ faults' >= faults
<1>1. faults \in Nat
  BY DEF EngineInvariant, TypeOK
<1>2. CASE f \notin registered /\ UNCHANGED << history, faults >>
  BY <1>1, <1>2 DEF EngineInvariant
<1>3. CASE Fault
  BY <1>1, <1>3 DEF Fault
<1> QED
  BY <1>2, <1>3 DEF AddFails

(* Neither the clock nor a bound's count ever goes back. *)
LEMMA Forward ==
    ASSUME EngineInvariant, [AnyStep]_vars
    PROVE  now' >= now /\ faults' >= faults /\ restarts' >= restarts
<1>0. now \in Nat /\ faults \in Nat /\ restarts \in Nat
  BY DEF EngineInvariant, TypeOK
<1>1. CASE Tick \/ UNCHANGED vars
  BY <1>0, <1>1 DEF Tick, vars
<1>2. CASE Restart
  <2>1. PICK lost, refused \in SUBSET Functions :
           faults' = faults + Cardinality(lost) + Cardinality(refused)
    BY <1>2 DEF Restart
  <2>2. Cardinality(lost) \in Nat /\ Cardinality(refused) \in Nat
    BY SubsetFinite
  <2> QED
    BY <1>0, <1>2, <2>1, <2>2 DEF Restart
<1>3. ASSUME NEW w \in Workers, Receive(w) \/ Lock(w)
      PROVE  now' >= now /\ faults' >= faults /\ restarts' >= restarts
  BY <1>0, <1>3 DEF Receive, Lock, Ignore, StartHandle
<1>4. ASSUME NEW w \in Workers, StoreFails(w)
      PROVE  now' >= now /\ faults' >= faults /\ restarts' >= restarts
  <2>1. Handling(w) /\ Fn(w) \in Functions
    BY <1>4, HandlingTyped DEF EngineInvariant, StoreFails, NextWrite
  <2>2. faults' >= faults
    BY <1>4, <2>1, FailureCounted DEF StoreFails
  <2> QED
    BY <1>0, <1>4, <2>2 DEF StoreFails
<1>5. ASSUME NEW w \in Workers, PublishFails(w)
      PROVE  now' >= now /\ faults' >= faults /\ restarts' >= restarts
  BY <1>0, <1>5 DEF PublishFails, Fault
<1>6. ASSUME NEW w \in Workers, StoreRow(w) \/ ReturnError(w) \/ ReturnSilently(w) \/ Publish(w)
      PROVE  now' >= now /\ faults' >= faults /\ restarts' >= restarts
  BY <1>0, <1>6 DEF StoreRow, ReturnError, ReturnSilently, Publish
<1> QED
  BY <1>1, <1>2, <1>3, <1>4, <1>5, <1>6 DEF AnyStep, Next, Proceed, Store

(* The common invariant is inductive.                                       *)
LEMMA EngineStep ==
    ASSUME EngineInvariant, [AnyStep]_vars
    PROVE  EngineInvariant'
<1>0. TypeOK /\ MutualExclusion
  BY DEF EngineInvariant
<1>1. TypeOK' /\ MutualExclusion'
  BY <1>0, TypeStep, MutexStep
<1>2. \A w \in Workers : pc'[w] # "idle" => msg'[w] \in Messages
  <2> SUFFICES ASSUME NEW v \in Workers, pc'[v] # "idle" PROVE msg'[v] \in Messages
    OBVIOUS
  <2>0. DOMAIN pc = Workers /\ DOMAIN msg = Workers
    BY <1>0 DEF TypeOK
  <2>1. CASE Tick \/ UNCHANGED vars
    BY <2>1 DEF EngineInvariant, Tick, process, vars
  <2>2. CASE Restart
    BY <2>2 DEF Restart
  <2>3. ASSUME NEW w \in Workers, Receive(w) \/ Lock(w) PROVE msg'[v] \in Messages
    BY <2>0, <2>3 DEF EngineInvariant, Receive, Lock, Ignore, StartHandle
  <2>4. ASSUME NEW w \in Workers, Proceed(w) \/ StoreRow(w) PROVE msg'[v] \in Messages
    <3>1. Unlock(w) \/ UNCHANGED << pc, msg >>
      BY <2>4 DEF Proceed, Store, StoreRow, StoreFails, ReturnError, ReturnSilently, Publish,
                  PublishFails
    <3> QED
      BY <2>0, <3>1 DEF EngineInvariant, Unlock
  <2> QED
    BY <2>1, <2>2, <2>3, <2>4 DEF AnyStep, Next
<1>3. faults' = 0 => registered' = Functions
  <2> SUFFICES ASSUME faults' = 0 PROVE registered' = Functions
    OBVIOUS
  <2>1. faults \in Nat /\ faults' \in Nat
    BY <1>0, <1>1 DEF TypeOK
  <2>2. faults = 0
    BY <2>1, Forward
  <2>3. registered = Functions
    BY <2>2 DEF EngineInvariant
  <2>4. registered' = registered \/ \E refused : registered' = registered \cup (Functions \ refused)
    BY DEF AnyStep, Next, vars, Tick, Restart, Receive, Lock, Ignore, StartHandle, Proceed,
           Store, StoreRow, StoreFails, ReturnError, ReturnSilently, Publish, PublishFails
  <2> QED
    BY <2>3, <2>4
<1>4. \A w \in Workers : Handling(w)' /\ run'[w].failed => faults' > 0
  <2> SUFFICES ASSUME NEW v \in Workers, Handling(v)', run'[v].failed PROVE faults' > 0
    OBVIOUS
  <2>0. DOMAIN pc = Workers /\ DOMAIN run = Workers /\ faults \in Nat /\ faults' \in Nat
    BY <1>0, <1>1 DEF TypeOK
  <2>1. faults' >= faults
    BY Forward
  <2>2. CASE Handling(v) /\ run[v].failed
    BY <2>0, <2>1, <2>2 DEF EngineInvariant
  <2>3. CASE ~(Handling(v) /\ run[v].failed)
    <3>1. CASE Tick \/ UNCHANGED vars
      BY <2>3, <3>1 DEF Tick, process, vars, Handling
    <3>2. CASE Restart
      BY <3>2 DEF Restart, Handling
    <3>3. ASSUME NEW w \in Workers, Receive(w) \/ Ignore(w) PROVE FALSE
      BY <2>0, <2>3, <3>3 DEF Receive, Ignore, Handling
    <3>4. ASSUME NEW w \in Workers, StartHandle(w) PROVE FALSE
      BY <2>0, <2>3, <3>4 DEF StartHandle, Handling
    <3>5. ASSUME NEW w \in Workers, StoreRow(w) PROVE FALSE
      <4>1. run[w] \in Pending(Memory(Type[Fn(w)]))
        BY <1>0, <3>5, HandlingTyped DEF StoreRow, NextWrite
      <4>2. run'[v].failed = run[v].failed /\ Handling(v)
        BY <2>0, <3>5, <4>1 DEF StoreRow, Handling, Pending
      <4> QED
        BY <2>3, <4>2
    <3>6. ASSUME NEW w \in Workers, StoreFails(w) PROVE faults' > 0
      <4>1. Handling(w) /\ Fn(w) \in Functions
        BY <1>0, <3>6, HandlingTyped DEF StoreFails, NextWrite
      <4> QED
        BY <3>6, <4>1, FailureCounted DEF StoreFails
    <3>7. ASSUME NEW w \in Workers, ReturnError(w) \/ ReturnSilently(w) \/ Publish(w) \/ PublishFails(w)
          PROVE  FALSE
      <4>1. Unlock(w)
        BY <3>7 DEF ReturnError, ReturnSilently, Publish, PublishFails
      <4> QED
        BY <2>0, <2>3, <4>1 DEF Unlock, Handling
    <3> QED
      BY <3>1, <3>2, <3>3, <3>4, <3>5, <3>6, <3>7 DEF AnyStep, Next, Lock, Proceed, Store
  <2> QED
    BY <2>2, <2>3
<1> QED
  BY <1>1, <1>2, <1>3, <1>4 DEF EngineInvariant

(* So it is true for ever.                                                  *)
LEMMA EngineCorrect == Spec => []EngineInvariant
<1>1. EngineInvariant /\ [Next]_vars => EngineInvariant'
  BY EngineStep DEF AnyStep
<1> QED
  BY EngineInit, <1>1, PTL DEF Spec
-----------------------------------------------------------------------------
(* The steps of the engine, as f sees them. *)
LEMMA StartBegins ==
    ASSUME EngineInvariant, NEW w \in Workers, StartHandle(w), NEW f \in Functions, f = Fn(w)
    PROVE  Begins(f)
<1> DEFINE r == Handle(Type[f], mem[f], msg[w], now)
           call == [entry |-> mem[f], writes |-> r.writes, rows |-> {},
                    outcome |-> r.outcome, onerr |-> r.onerr, failed |-> FALSE]
<1>0. TypeOK /\ MutualExclusion
  BY DEF EngineInvariant
<1>1. msg[w] \in Messages
  BY DEF EngineInvariant, StartHandle
<1>2. \A v \in Workers : ~Handling(v)
  BY <1>0, EngineAssumption DEF MutualExclusion, StartHandle, LockFree
<1>3. /\ mem'[f] = r.begin
      /\ run'[w] = call
      /\ UNCHANGED << updates, history, msg >>
      /\ pc' = [pc EXCEPT ![w] = "handling"]
  BY <1>0, <1>1 DEF StartHandle, TypeOK
<1> HIDE DEF r, call
<1>4. \A v \in Workers : Handling(v)' <=> v = w
  BY <1>0, <1>2, <1>3 DEF TypeOK, Handling
<1>5. Fn(w)' = f
  BY <1>3 DEF Fn
<1>6. Busy(f)' /\ Call(f)' = call /\ CallMsg(f)' = msg[w]
  BY <1>3, <1>4, <1>5, CallOfNext
<1>7. ~Busy(f)
  BY <1>2 DEF Busy, IdleFunction
<1>8. msg[w].fn = f
  BY DEF Fn
<1> QED
  BY <1>1, <1>3, <1>6, <1>7, <1>8 DEF Begins, NotLogged, r, call

(* onchange, as the function sees it.                                       *)
LEMMA StoreSteps ==
    ASSUME EngineInvariant, NEW w \in Workers, StoreRow(w) \/ StoreFails(w),
           NEW f \in Functions, f = Fn(w)
    PROVE  StoresRow(f) \/ LosesRow(f) \/ GivesUp(f)
<1> DEFINE write == Head(run[w].writes)
<1>0. TypeOK /\ MutualExclusion
  BY DEF EngineInvariant
<1>1. Handling(w) /\ run[w].writes # << >> /\ updates' = updates
  BY DEF StoreRow, StoreFails, NextWrite
<1>2. f \in Functions /\ run[w] \in Pending(Memory(Type[f]))
  BY <1>0, <1>1, HandlingTyped
<1>3. Busy(f) /\ Call(f) = run[w] /\ CallMsg(f) = msg[w]
  BY <1>0, <1>1, CallOf
<1>4. mem[f] = mem[f] /\ DOMAIN mem = Functions /\ DOMAIN pc = Workers /\ DOMAIN run = Workers
      /\ DOMAIN history = Functions
  BY <1>0 DEF TypeOK
<1>5. ASSUME UNCHANGED << pc, msg >>,
             /\ run'[w].writes = Tail(run[w].writes)
             /\ run'[w].entry = run[w].entry
             /\ run'[w].outcome = run[w].outcome
             /\ run'[w].onerr = run[w].onerr,
             mem' = [mem EXCEPT ![f] = write.then]
      PROVE  NextStage(f)
  <2>2. \A v \in Workers : Handling(v)' <=> v = w
    BY <1>0, <1>1, <1>5 DEF Handling, MutualExclusion
  <2>3. Fn(w)' = f
    BY <1>5 DEF Fn
  <2>4. Busy(f)' /\ Call(f)' = run'[w] /\ CallMsg(f)' = msg[w]
    BY <1>5, <2>2, <2>3, CallOfNext
  <2>5. mem'[f] = write.then
    BY <1>2, <1>4, <1>5
  <2> QED
    BY <1>1, <1>3, <1>5, <2>4, <2>5 DEF NextStage
<1>6. ASSUME Stored(f, write) PROVE Logged(f)
  BY <1>2, <1>3, <1>4, <1>6 DEF Stored, Logged, RowOf
<1>7. CASE StoreRow(w)
  <2>1. /\ run'[w].writes = Tail(run[w].writes)
        /\ run'[w].entry = run[w].entry
        /\ run'[w].outcome = run[w].outcome
        /\ run'[w].onerr = run[w].onerr
    BY <1>2, <1>4, <1>7 DEF StoreRow, Pending
  <2>2. UNCHANGED << pc, msg >> /\ mem' = [mem EXCEPT ![f] = write.then]
    BY <1>7 DEF StoreRow
  <2>3. NextStage(f)
    BY <1>5, <2>1, <2>2
  <2> QED
    BY <1>6, <1>7, <2>3 DEF StoresRow, StoreRow
<1>8. CASE StoreFails(w)
  <2>1. faults' > 0
    BY <1>2, <1>8, FailureCounted DEF StoreFails
  <2>2. Logged(f) \/ NotLogged(f)
    BY <1>6, <1>8 DEF StoreFails, AddFails, NotLogged
  <2>3. CASE run[w].onerr = "stop"
    <3>1. Unlock(w) /\ UNCHANGED mem
      BY <1>8, <2>3 DEF StoreFails
    <3>2. \A v \in Workers : ~Handling(v)'
      BY <1>0, <1>1, <3>1, EngineAssumption DEF MutualExclusion, TypeOK, Unlock, Handling
    <3>3. ~Busy(f)'
      BY <3>2 DEF Busy, IdleFunction
    <3> QED
      BY <1>1, <1>3, <2>1, <2>2, <2>3, <3>1, <3>3 DEF GivesUp
  <2>4. CASE run[w].onerr # "stop"
    <3>1. NextStage(f)
      <4>1. run' = [run EXCEPT ![w].writes = Tail(@),
                               ![w].failed = @ \/ run[w].onerr = "join"]
        BY <1>8, <2>4 DEF StoreFails
      <4>2. /\ run'[w].writes = Tail(run[w].writes)
            /\ run'[w].entry = run[w].entry
            /\ run'[w].outcome = run[w].outcome
            /\ run'[w].onerr = run[w].onerr
        BY <1>2, <1>4, <4>1 DEF Pending
      <4>3. UNCHANGED << pc, msg >> /\ mem' = [mem EXCEPT ![f] = write.then]
        BY <1>8, <2>4 DEF StoreFails
      <4> QED
        BY <1>5, <4>2, <4>3
    <3> QED
      BY <1>3, <2>1, <2>2, <2>4, <3>1 DEF LosesRow
  <2> QED
    BY <2>3, <2>4
<1> QED
  BY <1>7, <1>8

(* The ends of fnct.Handle, as the function sees them.                      *)
LEMMA ReturnSteps ==
    ASSUME EngineInvariant, NEW w \in Workers,
           ReturnError(w) \/ ReturnSilently(w) \/ Publish(w) \/ PublishFails(w),
           NEW f \in Functions, f = Fn(w)
    PROVE  Returns(f) \/ Announces(f)
<1>0. TypeOK /\ MutualExclusion /\ faults \in Nat
  BY DEF EngineInvariant, TypeOK
<1>1. Handling(w) /\ run[w].writes = << >> /\ Unlock(w) /\ UNCHANGED << mem, history >>
  BY DEF ReturnError, ReturnSilently, Publish, PublishFails, Succeeded, Handled
<1>2. f \in Functions /\ run[w] \in Pending(Memory(Type[f]))
  BY <1>0, <1>1, HandlingTyped
<1>3. Busy(f) /\ Call(f) = run[w] /\ CallMsg(f) = msg[w]
  BY <1>0, <1>1, CallOf
<1>4. ~Busy(f)'
  <2>1. \A v \in Workers : ~Handling(v)'
    BY <1>0, <1>1, EngineAssumption DEF MutualExclusion, TypeOK, Unlock, Handling
  <2> QED
    BY <2>1 DEF Busy, IdleFunction
<1>5. Ends(f)
  BY <1>1, <1>3, <1>4 DEF Ends, NotLogged
<1>6. CASE ReturnError(w)
  <2>1. run[w].failed => faults' > 0
    BY <1>1, <1>6 DEF EngineInvariant, ReturnError
  <2> QED
    BY <1>3, <1>5, <1>6, <2>1 DEF Returns, ReturnError
<1>7. CASE ReturnSilently(w)
  <2>1. run[w].outcome = "unchanged"
    BY <1>2, <1>7 DEF ReturnSilently, MustPublish, Changed, Pending, Outcomes, Succeeded
  <2> QED
    BY <1>3, <1>5, <1>7, <2>1 DEF Returns, ReturnSilently
<1>8. CASE PublishFails(w)
  BY <1>0, <1>3, <1>5, <1>8 DEF Returns, PublishFails, Fault
<1>9. CASE Publish(w)
  <2>1. updates'[f] = Append(updates[f], [mem |-> mem[f], stamp |-> stamp'[f], meta |-> meta[f],
                                          changed |-> Changed(w),
                                          entry |-> run[w].entry, rows |-> run[w].rows,
                                          count |-> CountTaken(Type[f], msg[w])])
    BY <1>0, <1>2, <1>9 DEF Publish, TypeOK
  <2>2. Changed(w) = (Call(f).outcome = "changed")
    BY <1>3 DEF Changed
  <2>3. Call(f).outcome # "rejected" /\ (Call(f).outcome = "changed" \/ f \in OnUpdate)
    BY <1>3, <1>9 DEF Publish, Succeeded, MustPublish, Changed
  <2> QED
    BY <1>3, <1>5, <2>1, <2>2, <2>3 DEF Announces
<1> QED
  BY <1>6, <1>7, <1>8, <1>9

(* A restart, as every function sees it.                                    *)
LEMMA RestartStarts ==
    ASSUME EngineInvariant, Restart, NEW f \in Functions
    PROVE  StartsAgain(f)
<1>0. faults \in Nat /\ restarts \in Nat
  BY DEF EngineInvariant, TypeOK
<1>1. PICK lost, refused \in SUBSET Functions :
         /\ faults' = faults + Cardinality(lost) + Cardinality(refused)
         /\ mem' = [g \in Functions |-> Restored(g, lost)]
  BY DEF Restart
<1>2. Cardinality(lost) \in Nat /\ Cardinality(refused) \in Nat /\ IsFiniteSet(lost)
  BY SubsetFinite, EngineAssumption, FS_Subset
<1>3. faults' = 0 => Cardinality(lost) = 0
  BY <1>0, <1>1, <1>2
<1>4. faults' = 0 => lost = {}
  BY <1>2, <1>3, FS_EmptySet
<1>5. ~Busy(f)'
  BY DEF Restart, Busy, IdleFunction, Handling
<1>6. mem'[f] = Restored(f, lost)
  BY <1>1
<1>7. UNCHANGED << updates, history >> /\ restarts' > 0
  BY <1>0 DEF Restart
<1> QED
  BY <1>4, <1>5, <1>6, <1>7 DEF StartsAgain, NotLogged

(* The steps of a worker that is at work for another function. *)
LEMMA OthersKeep ==
    ASSUME EngineInvariant, NEW w \in Workers,
           StartHandle(w) \/ Proceed(w) \/ StoreRow(w),
           NEW f \in Functions, f # Fn(w)
    PROVE  Keeps(f)
<1>0. TypeOK /\ MutualExclusion
  BY DEF EngineInvariant
<1>1. mem'[f] = mem[f] /\ updates'[f] = updates[f] /\ history'[f] = history[f]
  BY <1>0 DEF TypeOK, StartHandle, Proceed, Store, StoreRow, StoreFails, AddFails, Stored, ReturnError,
              ReturnSilently, Publish, PublishFails
<1>2. /\ \A v \in Workers \ {w} : pc'[v] = pc[v] /\ msg'[v] = msg[v] /\ run'[v] = run[v]
      /\ msg'[w] = msg[w] \/ ~Handling(w)'
  BY <1>0 DEF TypeOK, StartHandle, Proceed, Store, StoreRow, StoreFails, ReturnError, ReturnSilently,
              Publish, PublishFails, Unlock, Handling
<1>3. \A v \in Workers :
         /\ (Handling(v) /\ Fn(v) = f) <=> (Handling(v)' /\ Fn(v)' = f)
         /\ Handling(v) /\ Fn(v) = f => run'[v] = run[v] /\ msg'[v] = msg[v]
  BY <1>2 DEF Handling, Fn
<1> QED
  BY <1>0, <1>1, <1>3, ElsewhereKeeps

(* The steps that are about no function.                                   *)
LEMMA WaitingKeeps ==
    ASSUME EngineInvariant, NEW f \in Functions,
           \/ Tick
           \/ UNCHANGED vars
           \/ \E w \in Workers : Receive(w) \/ Ignore(w)
    PROVE  Keeps(f)
<1>0. TypeOK /\ MutualExclusion
  BY DEF EngineInvariant
<1>1. UNCHANGED << mem, updates, history, run >>
  BY DEF Tick, process, vars, Receive, Ignore
<1>2. \A v \in Workers : \/ pc'[v] = pc[v] /\ msg'[v] = msg[v]
                         \/ ~Handling(v) /\ ~Handling(v)'
  BY <1>0 DEF TypeOK, Tick, process, vars, Receive, Ignore, Handling
<1>3. \A v \in Workers :
         /\ (Handling(v) /\ Fn(v) = f) <=> (Handling(v)' /\ Fn(v)' = f)
         /\ Handling(v) /\ Fn(v) = f => run'[v] = run[v] /\ msg'[v] = msg[v]
  BY <1>1, <1>2 DEF Handling, Fn
<1> QED
  BY <1>0, <1>1, <1>3, ElsewhereKeeps

(* One function, one step.                                                 *)
LEMMA FunctionStep ==
    ASSUME EngineInvariant, [AnyStep]_vars, NEW f \in Functions
    PROVE  \/ Keeps(f)
           \/ Begins(f)
           \/ StoresRow(f)
           \/ LosesRow(f)
           \/ GivesUp(f)
           \/ Returns(f)
           \/ Announces(f)
           \/ StartsAgain(f)
<1>1. CASE Restart
  BY <1>1, RestartStarts
<1>2. CASE Tick \/ UNCHANGED vars \/ \E w \in Workers : Receive(w) \/ Ignore(w)
  BY <1>2, WaitingKeeps
<1>3. ASSUME NEW w \in Workers, StartHandle(w)
      PROVE  Keeps(f) \/ Begins(f)
  BY <1>3, StartBegins, OthersKeep
<1>4. ASSUME NEW w \in Workers, Proceed(w) \/ StoreRow(w), f # Fn(w)
      PROVE  Keeps(f)
  BY <1>4, OthersKeep
<1>5. ASSUME NEW w \in Workers, Proceed(w) \/ StoreRow(w), f = Fn(w)
      PROVE  \/ StoresRow(f) \/ LosesRow(f) \/ GivesUp(f) \/ Returns(f) \/ Announces(f)
  <2>1. CASE StoreRow(w) \/ StoreFails(w)
    BY <1>5, <2>1, StoreSteps
  <2>2. CASE ReturnError(w) \/ ReturnSilently(w) \/ Publish(w) \/ PublishFails(w)
    BY <1>5, <2>2, ReturnSteps
  <2> QED
    BY <1>5, <2>1, <2>2 DEF Proceed, Store
<1> QED
  BY <1>1, <1>2, <1>3, <1>4, <1>5 DEF AnyStep, Next, Lock
-----------------------------------------------------------------------------
(* What a call of the handler has still to do. *)
LEMMA OutlookStep ==
    ASSUME EngineInvariant, NEW f \in Functions
    PROVE  /\ Keeps(f) => Outlook(f)' = Outlook(f) /\ Due(f)' = Due(f)
           /\ NextStage(f) => Outlook(f)' = Outlook(f) /\ Due(f)' = Tail(Due(f))
           /\ GivesUp(f) \/ Ends(f) \/ StartsAgain(f) => Outlook(f)' = mem'[f] /\ Due(f)' = << >>
           /\ Ends(f) => Outlook(f) = mem[f]
<1>1. ASSUME Keeps(f)
      PROVE  Outlook(f)' = Outlook(f) /\ Due(f)' = Due(f)
  BY <1>1 DEF Keeps, Outlook, Due
<1>2. ASSUME NextStage(f)
      PROVE  Outlook(f)' = Outlook(f) /\ Due(f)' = Tail(Due(f))
  <2> DEFINE writes == Call(f).writes
  <2>1. writes \in Seq(Writes(Memory(Type[f]))) /\ writes # << >>
    BY <1>2, CallTyped DEF NextStage, Pending
  <2>2. Due(f) = writes /\ Due(f)' = Tail(writes)
    BY <1>2 DEF NextStage, Due
  <2>3. mem'[f] = Head(writes).then
    BY <1>2 DEF NextStage
  <2> HIDE DEF writes
  <2>4. FinalOf(Head(writes).then, Tail(writes)) = FinalOf(mem[f], writes)
    BY <2>1, FinalOfTail
  <2> QED
    BY <2>2, <2>3, <2>4 DEF Outlook
<1>3. ASSUME GivesUp(f) \/ Ends(f) \/ StartsAgain(f)
      PROVE  Outlook(f)' = mem'[f] /\ Due(f)' = << >>
  BY <1>3 DEF GivesUp, Ends, StartsAgain, Outlook, Due, FinalOf
<1>4. ASSUME Ends(f)
      PROVE  Outlook(f) = mem[f]
  BY <1>4 DEF Ends, Outlook, Due, FinalOf
<1> QED
  BY <1>1, <1>2, <1>3, <1>4

(* At its beginning a call leads to the final memory of its run.            *)
LEMMA OutlookBegins ==
    ASSUME NEW f, Begins(f)
    PROVE  \E m \in Messages :
              LET r == Handle(Type[f], mem[f], m, now)
              IN  /\ m.fn = f
                  /\ mem'[f] = r.begin
                  /\ Call(f)'.writes = r.writes /\ Due(f)' = r.writes
                  /\ Call(f)'.outcome = r.outcome
                  /\ CallMsg(f)' = m
                  /\ Outlook(f)' = FinalMemory(r)
  BY DEF Begins, Due, Outlook, FinalMemory

(* The elements of a tail.                                                  *)
LEMMA TailFields ==
    ASSUME NEW W, NEW writes \in Seq(W), writes # << >>
    PROVE  /\ Head(writes) = writes[1] /\ 1 \in DOMAIN writes
           /\ \A i \in DOMAIN Tail(writes) :
                 i + 1 \in DOMAIN writes /\ Tail(writes)[i] = writes[i + 1]
<1>1. Len(writes) \in Nat \ {0} /\ DOMAIN writes = 1 .. Len(writes)
  BY EmptySeq, LenProperties
<1>2. Head(writes) = writes[1] /\ 1 \in DOMAIN writes
  BY <1>1
<1>3. \A i \in DOMAIN Tail(writes) : i + 1 \in DOMAIN writes /\ Tail(writes)[i] = writes[i + 1]
  BY <1>1, HeadTailProperties
<1> QED
  BY <1>2, <1>3

(* What is restored was constructed with the number in some row, or zero.   *)
LEMMA RestoredAs ==
    ASSUME EngineInvariant, NEW f \in Functions, NEW lost
    PROVE  \E v \in Int : Restored(f, lost) = New(Type[f], v)
<1>1. history[f] \in Seq(Row)
  BY DEF EngineInvariant, TypeOK
<1>2. LastLogValue(history[f], DefaultHistoryLabel(Type[f])) \in Int
  BY <1>1, LastLogValueTyped
<1> QED
  BY <1>2 DEF Restored

(* The updates of f are updates of f.                                       *)
LEMMA UpdatesTyped ==
    ASSUME EngineInvariant, NEW f \in Functions
    PROVE  updates[f] \in Seq(Update(f)) /\ Len(updates[f]) \in Nat
<1>1. updates[f] \in Seq(Update(f))
  BY DEF EngineInvariant, TypeOK
<1> QED
  BY <1>1, LenProperties

(* The update that is announced.                                            *)
LEMMA AnnouncedTyped ==
    ASSUME EngineInvariant, EngineInvariant', NEW f \in Functions, Announces(f)
    PROVE  \E update \in Update(f) :
              /\ updates'[f] = Append(updates[f], update)
              /\ update.mem = mem[f]
              /\ update.changed <=> Call(f).outcome = "changed"
              /\ update.count = CountTaken(Type[f], CallMsg(f))
<1> DEFINE update == [mem |-> mem[f], stamp |-> stamp'[f], meta |-> meta[f],
                      changed |-> Call(f).outcome = "changed",
                      entry |-> Call(f).entry, rows |-> Call(f).rows,
                      count |-> CountTaken(Type[f], CallMsg(f))]
<1>1. /\ stamp'[f] \in Nat /\ meta[f] \in [MetaKeys -> MetaValues \cup {None}]
      /\ mem[f] \in Memory(Type[f])
  BY DEF EngineInvariant, TypeOK
<1>2. Call(f) \in Pending(Memory(Type[f])) /\ CallMsg(f) \in Message
  BY CallTyped, EngineAssumption DEF Announces, Ends
<1>3. Call(f).entry \in Memory(Type[f]) /\ Call(f).rows \in SUBSET (Nat \ {0})
  BY <1>2 DEF Pending
<1>4. CountTaken(Type[f], CallMsg(f)) \in Int \cup {None}
  BY <1>2, CountTakenTyped
<1>5. update \in Update(f)
  BY <1>1, <1>3, <1>4 DEF Update
<1>6. /\ updates'[f] = Append(updates[f], update) /\ update.mem = mem[f]
      /\ update.changed <=> Call(f).outcome = "changed"
      /\ update.count = CountTaken(Type[f], CallMsg(f))
  BY DEF Announces
<1> QED
  BY <1>5, <1>6

(* The updates of f: one more, or the same. *)
LEMMA UpdatesStep ==
    ASSUME EngineInvariant, [AnyStep]_vars, NEW f \in Functions
    PROVE  \/ updates'[f] = updates[f]
           \/ /\ Announces(f)
              /\ Len(updates'[f]) = Len(updates[f]) + 1
              /\ \A i \in DOMAIN updates[f] : updates'[f][i] = updates[f][i]
              /\ updates'[f][Len(updates'[f])].mem = mem[f]
              /\ updates'[f][Len(updates'[f])].stamp = stamp'[f]
              /\ updates'[f][Len(updates'[f])].changed <=> Call(f).outcome = "changed"
              /\ updates'[f][Len(updates'[f])].count = CountTaken(Type[f], CallMsg(f))
<1>1. updates[f] \in Seq(Update(f))
  BY UpdatesTyped
<1>2. CASE Announces(f)
  <2> DEFINE update == [mem |-> mem[f], stamp |-> stamp'[f], meta |-> meta[f],
                        changed |-> Call(f).outcome = "changed",
                        entry |-> Call(f).entry, rows |-> Call(f).rows,
                        count |-> CountTaken(Type[f], CallMsg(f))]
             long == Append(updates[f], update)
  <2>1. update.mem = mem[f] /\ update.stamp = stamp'[f]
        /\ (update.changed <=> Call(f).outcome = "changed")
        /\ update.count = CountTaken(Type[f], CallMsg(f))
    OBVIOUS
  <2>2. updates'[f] = long
    BY <1>2 DEF Announces
  <2> HIDE DEF update
  <2>3. /\ Len(long) = Len(updates[f]) + 1
        /\ \A i \in DOMAIN updates[f] : long[i] = updates[f][i]
        /\ long[Len(long)] = update
    BY <1>1, AppendProperties
  <2> QED
    BY <1>2, <2>1, <2>2, <2>3
<1> QED
  BY <1>2, FunctionStep DEF Keeps, Begins, StoresRow, LosesRow, NextStage, GivesUp, Returns,
     StartsAgain
-----------------------------------------------------------------------------
(* A set of memories that no handler leaves: whatever f is, will be during  *)
(* the call under way, or was announced to be, is one of G.                 *)
StaysIn(f, G) ==
    /\ mem[f] \in G
    /\ \A i \in DOMAIN Due(f) : Due(f)[i].then \in G
    /\ \A i \in DOMAIN updates[f] : updates[f][i].mem \in G

(* A set that every call which reports a change ends in: so does the call   *)
(* under way, and so did those announced.                                   *)
ChangesInto(f, H) ==
    /\ Busy(f) /\ Call(f).outcome = "changed" => Outlook(f) \in H
    /\ \A i \in DOMAIN updates[f] : updates[f][i].changed => updates[f][i].mem \in H

(* A set of memories that the constructor leads into and the handler does   *)
(* not leave is kept to.                                                    *)
LEMMA StaysInStep ==
    ASSUME EngineInvariant, [AnyStep]_vars, NEW f \in Functions, NEW G, StaysIn(f, G),
           \A v \in Int : New(Type[f], v) \in G,
           \A s \in G, m \in Messages, t \in Nat : Stages(Handle(Type[f], s, m, t)) \subseteq G
    PROVE  StaysIn(f, G)'
<1>0. now \in Nat
  BY DEF EngineInvariant, TypeOK
<1>1. mem'[f] \in G /\ \A i \in DOMAIN Due(f)' : Due(f)'[i].then \in G
  <2>1. CASE Keeps(f)
    BY <2>1, OutlookStep DEF StaysIn, Keeps
  <2>2. CASE Begins(f)
    <3>1. PICK m \in Messages : /\ mem'[f] = Handle(Type[f], mem[f], m, now).begin
                                /\ Due(f)' = Handle(Type[f], mem[f], m, now).writes
      BY <2>2, OutlookBegins
    <3>2. Stages(Handle(Type[f], mem[f], m, now)) \subseteq G
      BY <1>0 DEF StaysIn
    <3> QED
      BY <3>1, <3>2 DEF Stages
  <2>3. CASE NextStage(f)
    <3>1. Due(f) \in Seq(Writes(Memory(Type[f]))) /\ Due(f) # << >>
      BY <2>3, CallTyped DEF NextStage, Pending, Due
    <3>2. /\ Head(Due(f)) = Due(f)[1] /\ 1 \in DOMAIN Due(f)
          /\ \A i \in DOMAIN Tail(Due(f)) : i + 1 \in DOMAIN Due(f) /\ Tail(Due(f))[i] = Due(f)[i + 1]
      BY <3>1, TailFields
    <3>3. mem'[f] = Head(Due(f)).then
      BY <2>3 DEF NextStage, Due
    <3>4. Due(f)' = Tail(Due(f))
      BY <2>3, OutlookStep
    <3> QED
      BY <3>2, <3>3, <3>4 DEF StaysIn
  <2>4. CASE GivesUp(f) \/ Ends(f)
    <3>1. mem'[f] = mem[f] /\ Due(f)' = << >>
      BY <2>4, OutlookStep DEF GivesUp, Ends
    <3> QED
      BY <3>1 DEF StaysIn
  <2>5. CASE StartsAgain(f)
    <3>1. PICK lost : mem'[f] = Restored(f, lost)
      BY <2>5 DEF StartsAgain
    <3>2. Due(f)' = << >>
      BY <2>5, OutlookStep
    <3> QED
      BY <3>1, <3>2, RestoredAs
  <2> QED
    BY <2>1, <2>2, <2>3, <2>4, <2>5, FunctionStep DEF StoresRow, LosesRow, Returns, Announces
<1>2. \A i \in DOMAIN updates'[f] : updates'[f][i].mem \in G
  <2>1. CASE updates'[f] = updates[f]
    BY <2>1 DEF StaysIn
  <2>2. CASE updates'[f] # updates[f]
    <3> DEFINE n == Len(updates[f])
    <3>1. n \in Nat /\ DOMAIN updates[f] = 1 .. n
      BY UpdatesTyped
    <3>2. /\ \A i \in 1 .. n : updates'[f][i] = updates[f][i]
          /\ updates'[f][n + 1].mem = mem[f]
          /\ Len(updates'[f]) = n + 1
      BY <2>2, <3>1, UpdatesStep
    <3>3. DOMAIN updates'[f] = 1 .. n + 1
      <4>1. EngineInvariant'
        BY EngineStep
      <4> QED
        BY <3>2, <4>1 DEF EngineInvariant, TypeOK
    <3> QED
      BY <3>1, <3>2, <3>3 DEF StaysIn
  <2> QED
    BY <2>1, <2>2
<1> QED
  BY <1>1, <1>2 DEF StaysIn

(* What is announced as changed is in a set that every changing call ends   *)
(* in.                                                                      *)
LEMMA ChangesIntoStep ==
    ASSUME EngineInvariant, [AnyStep]_vars, NEW f \in Functions, NEW G, NEW H,
           mem[f] \in G, ChangesInto(f, H),
           \A s \in G, m \in Messages, t \in Nat :
              LET r == Handle(Type[f], s, m, t)
              IN  r.outcome = "changed" => FinalMemory(r) \in H
    PROVE  ChangesInto(f, H)'
<1>0. now \in Nat
  BY DEF EngineInvariant, TypeOK
<1>1. ASSUME Busy(f)', Call(f)'.outcome = "changed"
      PROVE  Outlook(f)' \in H
  <2>1. CASE Begins(f)
    <3>1. PICK m \in Messages :
             /\ Call(f)'.outcome = Handle(Type[f], mem[f], m, now).outcome
             /\ Outlook(f)' = FinalMemory(Handle(Type[f], mem[f], m, now))
      BY <2>1, OutlookBegins
    <3> QED
      BY <1>0, <1>1, <3>1
  <2>2. CASE Keeps(f) \/ NextStage(f)
    <3>1. Busy(f) /\ Call(f)'.outcome = Call(f).outcome /\ Outlook(f)' = Outlook(f)
      BY <1>1, <2>2, OutlookStep DEF Keeps, NextStage
    <3> QED
      BY <1>1, <3>1 DEF ChangesInto
  <2> QED
    BY <1>1, <2>1, <2>2, FunctionStep DEF StoresRow, LosesRow, GivesUp, Returns, Announces, Ends,
       StartsAgain
<1>2. \A i \in DOMAIN updates'[f] : updates'[f][i].changed => updates'[f][i].mem \in H
  <2>1. CASE updates'[f] = updates[f]
    BY <2>1 DEF ChangesInto
  <2>2. CASE updates'[f] # updates[f]
    <3> DEFINE n == Len(updates[f])
    <3>1. n \in Nat /\ DOMAIN updates[f] = 1 .. n
      BY UpdatesTyped
    <3>2. /\ \A i \in 1 .. n : updates'[f][i] = updates[f][i]
          /\ updates'[f][n + 1].mem = mem[f]
          /\ updates'[f][n + 1].changed <=> Call(f).outcome = "changed"
          /\ Len(updates'[f]) = n + 1
          /\ Announces(f)
      BY <2>2, <3>1, UpdatesStep
    <3>3. DOMAIN updates'[f] = 1 .. n + 1
      <4>1. EngineInvariant'
        BY EngineStep
      <4> QED
        BY <3>2, <4>1 DEF EngineInvariant, TypeOK
    <3>4. Busy(f) /\ Outlook(f) = mem[f]
      BY <3>2, OutlookStep DEF Announces, Ends
    <3> QED
      BY <3>1, <3>2, <3>3, <3>4 DEF ChangesInto
  <2> QED
    BY <2>1, <2>2
<1> QED
  BY <1>1, <1>2 DEF ChangesInto
-----------------------------------------------------------------------------
(* Rounds: a running one has no end, and a call that reports a change of a  *)
(* stopped one leaves an end and a duration that belong to its start.       *)
OpenRounds(f) == {s \in Memory(Type[f]) : s.state => EndOf(f, s) = None}

(* A round that has ended has an end, and the duration from its start.      *)
ClosedRounds(f) ==
    {s \in Memory(Type[f]) :
        ~s.state => EndOf(f, s) # None /\ s.duration = EndOf(f, s) - s.startTime}

(* The fields that tell the rounds apart, and the count that does not.      *)
LEMMA StopwatchStepsFields ==
    ASSUME NEW s \in StopwatchMem, NEW m \in Message, NEW t \in Nat
    PROVE  /\ Started(s, t).state /\ Started(s, t).stopTime = None
           /\ Running(s, t).state = s.state /\ Running(s, t).stopTime = s.stopTime
           /\ ~Stopped(s, t).state /\ Stopped(s, t).stopTime = t
           /\ Stopped(s, t).startTime = s.startTime
           /\ Stopped(s, t).duration = t - s.startTime
           /\ Recount(s, m).state = s.state /\ Recount(s, m).stopTime = s.stopTime
           /\ Recount(s, m).startTime = s.startTime /\ Recount(s, m).duration = s.duration
  BY DEF StopwatchMem, Started, Running, Stopped, Recount

(* What the rows of a stopwatch leave behind. *)
LEMMA StopwatchRowsStages ==
    ASSUME NEW new \in StopwatchMem, NEW m \in Message, NEW t \in Nat
    PROVE  LET rows == StopwatchRows(new, m, t)
           IN  /\ rows # << >> /\ rows[Len(rows)].then = Recount(new, m)
               /\ \A i \in DOMAIN rows : rows[i].then \in {new, Recount(new, m)}
<1> DEFINE counted == Recount(new, m)
           countRow == OnChange("count", counted.count, t, counted)
           total == OnChange("cumulativeTime", new.cumulativeTime, t, counted)
           state(v, then) == OnChange("state", v, t, then)
           duration(then) == OnChange("duration", new.duration, t, then)
           off == state(0, new)
           on == state(1, new)
           started == state(1, counted)
           lap == duration(counted)
           last == duration(new)
           rows == StopwatchRows(new, m, t)
<1>1. /\ countRow.then = counted /\ total.then = counted /\ off.then = new /\ on.then = new
      /\ started.then = counted /\ lap.then = counted /\ last.then = new
  BY OnChangeFields
<1>2. new.state \in BOOLEAN
  BY DEF StopwatchMem
<1>3. \/ rows = << off, started, countRow >>
      \/ rows = << lap, countRow >>
      \/ rows = << on, off, last, total, countRow >>
  BY <1>2 DEF StopwatchRows
<1> HIDE DEF counted, countRow, total, off, on, started, lap, last, rows
<1>4. CASE rows = << off, started, countRow >>
  BY <1>1, <1>4 DEF rows, counted
<1>5. CASE rows = << lap, countRow >>
  BY <1>1, <1>5 DEF rows, counted
<1>6. CASE rows = << on, off, last, total, countRow >>
  BY <1>1, <1>6 DEF rows, counted
<1> QED
  BY <1>3, <1>4, <1>5, <1>6

(* A call of the handler of a stopwatch starts a round, goes on with one or *)
(* stops it, and counts.                                                    *)
LEMMA StopwatchCall ==
    ASSUME NEW s \in StopwatchMem, NEW m \in Message, NEW now0 \in Nat
    PROVE  LET r == StopwatchHandle(s, m, now0)
           IN  \/ r = Rejected(s) \/ r = Unchanged(s)
               \/ \E t \in Nat, new \in StopwatchMem :
                     /\ \/ new = Started(s, t)
                        \/ new = Running(s, t) /\ s.state
                        \/ new = Stopped(s, t)
                     /\ r.outcome = "changed"
                     /\ FinalMemory(r) = Recount(new, m)
                     /\ Stages(r) \subseteq {new, Recount(new, m)}
<1> DEFINE t == IF m.time = ZeroTime THEN now0 ELSE m.time
           new == CASE m.state = TRUE  /\ ~s.state -> Started(s, t)
                    [] m.state = TRUE  /\ s.state  -> Running(s, t)
                    [] m.state = FALSE /\ s.state  -> Stopped(s, t)
                    [] m.state = FALSE /\ ~s.state -> s
           rows == StopwatchRows(new, m, t)
           counted == Recount(new, m)
           r == StopwatchHandle(s, m, now0)
<1>1. CASE m.obj # "digitalinput" \/ m.state = None \/ (~m.state /\ ~s.state)
  BY <1>1 DEF StopwatchHandle
<1>2. CASE ~(m.obj # "digitalinput" \/ m.state = None \/ (~m.state /\ ~s.state))
  <2>1. r = Run(new, rows, "changed", "stop")
    BY <1>2 DEF StopwatchHandle
  <2>2. t \in Nat
    BY MessageTyped
  <2>3. m.state \in BOOLEAN /\ s.state \in BOOLEAN
    BY <1>2, MessageTyped DEF StopwatchMem
  <2> HIDE DEF t
  <2>4. \/ new = Started(s, t)
        \/ new = Running(s, t) /\ s.state
        \/ new = Stopped(s, t)
    BY <1>2, <2>3
  <2> HIDE DEF new
  <2>5. new \in StopwatchMem
    BY <2>2, <2>4, StopwatchStepsTyped
  <2>6. /\ rows # << >> /\ rows[Len(rows)].then = counted
        /\ \A i \in DOMAIN rows : rows[i].then \in {new, counted}
    BY <2>2, <2>5, StopwatchRowsStages
  <2> HIDE DEF rows, counted, r
  <2>7. r.begin = new /\ r.writes = rows /\ r.outcome = "changed"
    BY <2>1 DEF Run
  <2>8. FinalMemory(r) = counted /\ Stages(r) \subseteq {new, counted}
    BY <2>6, <2>7 DEF FinalMemory, FinalOf, Stages
  <2> QED
    BY <2>2, <2>4, <2>5, <2>7, <2>8 DEF counted, r
<1> QED
  BY <1>1, <1>2

(* A call of the handler of a stopwatch keeps its rounds apart. *)
LEMMA StopwatchRounds ==
    ASSUME NEW s \in StopwatchMem, s.state => s.stopTime = None,
           NEW m \in Message, NEW now0 \in Nat
    PROVE  LET r == StopwatchHandle(s, m, now0)
           IN  /\ \A x \in Stages(r) : x.state => x.stopTime = None
               /\ r.outcome = "changed" =>
                    LET x == FinalMemory(r)
                    IN  ~x.state => x.stopTime # None /\ x.duration = x.stopTime - x.startTime
<1> DEFINE r == StopwatchHandle(s, m, now0)
<1>1. CASE r = Rejected(s) \/ r = Unchanged(s)
  BY <1>1 DEF Stages, Unchanged, Rejected, Run
<1>2. ASSUME NEW t \in Nat, NEW new \in StopwatchMem,
             \/ new = Started(s, t)
             \/ new = Running(s, t) /\ s.state
             \/ new = Stopped(s, t),
             FinalMemory(r) = Recount(new, m), Stages(r) \subseteq {new, Recount(new, m)}
      PROVE  /\ \A x \in Stages(r) : x.state => x.stopTime = None
             /\ ~FinalMemory(r).state =>
                   /\ FinalMemory(r).stopTime # None
                   /\ FinalMemory(r).duration = FinalMemory(r).stopTime - FinalMemory(r).startTime
  <2> DEFINE counted == Recount(new, m)
  <2>1. t # None
    BY NoneAssumption
  <2>2. /\ new.state => new.stopTime = None
        /\ ~new.state => new.stopTime # None /\ new.duration = new.stopTime - new.startTime
    BY <1>2, <2>1, StopwatchStepsFields
  <2>3. /\ counted.state = new.state /\ counted.stopTime = new.stopTime
        /\ counted.startTime = new.startTime /\ counted.duration = new.duration
    BY StopwatchStepsFields
  <2> HIDE DEF r, counted
  <2> QED
    BY <1>2, <2>2, <2>3 DEF counted
<1>3. \/ r = Rejected(s) \/ r = Unchanged(s)
      \/ \E t \in Nat, new \in StopwatchMem :
            /\ \/ new = Started(s, t)
               \/ new = Running(s, t) /\ s.state
               \/ new = Stopped(s, t)
            /\ FinalMemory(r) = Recount(new, m) /\ Stages(r) \subseteq {new, Recount(new, m)}
  BY StopwatchCall
<1> HIDE DEF r
<1> QED
  BY <1>1, <1>2, <1>3 DEF r

(* The rows of a timer: before and after the change. *)
LEMMA TimerRunStages ==
    ASSUME NEW s, NEW m
    PROVE  LET new == IF m.state = TRUE THEN TimerStarted(s, m.time)
                                        ELSE TimerStopped(s, m.time)
               r   == TimerHandle(s, m)
           IN  \/ r = Rejected(s) \/ r = Unchanged(s)
               \/ /\ m.state \notin {None, s.state}
                  /\ r.begin \in {s, new}
                  /\ new.state => r.begin = new
                  /\ r.outcome = "changed" /\ r.writes # << >> /\ r.onerr = "stop"
                  /\ FinalMemory(r) = new
                  /\ Stages(r) \subseteq {r.begin, new}
<1> DEFINE t   == m.time
           new == IF m.state = TRUE THEN TimerStarted(s, t) ELSE TimerStopped(s, t)
           before == IF new.state THEN new ELSE s
           squareRow == OnChange("state", Number(~new.state), t, before)
           stateRow == OnChange("state", Number(new.state), t, new)
           timeRow == OnChange("time", new.totalDuration, t, new)
           rows == << squareRow, stateRow, timeRow >>
<1>1. CASE m.obj # "digitalinput" \/ m.state \in {None, s.state}
  BY <1>1 DEF TimerHandle
<1>2. CASE ~(m.obj # "digitalinput" \/ m.state \in {None, s.state})
  <2>1. TimerHandle(s, m) = Run(before, rows, "changed", "stop")
    BY <1>2 DEF TimerHandle, TimerRows
  <2>2. squareRow.then = before /\ stateRow.then = new /\ timeRow.then = new
    BY OnChangeFields
  <2>3. before \in {s, new} /\ (new.state => before = new)
    OBVIOUS
  <2> HIDE DEF t, new, before, squareRow, stateRow, timeRow
  <2>4. /\ rows # << >> /\ Len(rows) = 3 /\ rows[3].then = new
        /\ \A i \in DOMAIN rows : rows[i].then \in {before, new}
    BY <2>2
  <2> HIDE DEF rows
  <2>5. /\ Run(before, rows, "changed", "stop").begin = before
        /\ Run(before, rows, "changed", "stop").writes = rows
        /\ Run(before, rows, "changed", "stop").outcome = "changed"
        /\ Run(before, rows, "changed", "stop").onerr = "stop"
    BY DEF Run
  <2>6. FinalMemory(TimerHandle(s, m)) = new
    BY <2>1, <2>4, <2>5 DEF FinalMemory, FinalOf
  <2>7. Stages(TimerHandle(s, m)) \subseteq {before, new}
    BY <2>1, <2>4, <2>5 DEF Stages
  <2> QED
    BY <1>2, <2>1, <2>3, <2>4, <2>5, <2>6, <2>7 DEF new, t
<1> QED
  BY <1>1, <1>2

(* The same of a timer.                                                     *)
LEMMA TimerStepsFields ==
    ASSUME NEW s \in TimerMem, NEW t \in Nat
    PROVE  /\ TimerStarted(s, t).state /\ TimerStarted(s, t).endTime = None
           /\ ~TimerStopped(s, t).state /\ TimerStopped(s, t).endTime = t
           /\ TimerStopped(s, t).startTime = s.startTime
           /\ TimerStopped(s, t).duration = t - s.startTime
  BY DEF TimerMem, TimerStarted, TimerStopped

(* A timer is stopped with an end and a duration that belong to its start.  *)
LEMMA TimerRounds ==
    ASSUME NEW s \in TimerMem, s.state => s.endTime = None, NEW m \in Message
    PROVE  LET r == TimerHandle(s, m)
           IN  /\ \A x \in Stages(r) : x.state => x.endTime = None
               /\ r.outcome = "changed" =>
                    LET x == FinalMemory(r)
                    IN  ~x.state => x.endTime # None /\ x.duration = x.endTime - x.startTime
<1> DEFINE new == IF m.state = TRUE THEN TimerStarted(s, m.time) ELSE TimerStopped(s, m.time)
           r == TimerHandle(s, m)
<1>1. m.time \in Nat /\ m.time # None
  BY MessageTyped, NoneAssumption
<1>2. /\ new.state => new.endTime = None
      /\ ~new.state => new.endTime # None /\ new.duration = new.endTime - new.startTime
  BY <1>1, TimerStepsFields
<1>3. \/ r = Rejected(s) \/ r = Unchanged(s)
      \/ FinalMemory(r) = new /\ Stages(r) \subseteq {s, new}
  <2>1. \/ r = Rejected(s) \/ r = Unchanged(s)
        \/ FinalMemory(r) = new /\ r.begin \in {s, new} /\ Stages(r) \subseteq {r.begin, new}
    BY TimerRunStages
  <2> HIDE DEF new, r
  <2> QED
    BY <2>1
<1>4. CASE r = Rejected(s) \/ r = Unchanged(s)
  BY <1>4 DEF Stages, Unchanged, Rejected, Run
<1>5. CASE FinalMemory(r) = new /\ Stages(r) \subseteq {s, new}
  <2> HIDE DEF new, r
  <2> QED
    BY <1>2, <1>5 DEF r
<1> QED
  BY <1>3, <1>4, <1>5

(* A timed function is a stopwatch or a timer.                              *)
LEMMA TimedFunction ==
    ASSUME NEW f \in Timed, NEW s \in Memory(Type[f]), NEW m \in Messages, NEW t \in Nat
    PROVE  /\ f \in Functions /\ m \in Message
           /\ \/ /\ Type[f] = "stopwatch" /\ s \in StopwatchMem
                 /\ EndOf(f, s) = s.stopTime
                 /\ Handle(Type[f], s, m, t) = StopwatchHandle(s, m, t)
              \/ /\ Type[f] = "timer" /\ s \in TimerMem
                 /\ EndOf(f, s) = s.endTime
                 /\ Handle(Type[f], s, m, t) = TimerHandle(s, m)
<1>1. f \in Functions /\ (Type[f] = "stopwatch" \/ Type[f] = "timer")
  BY DEF Timed, OfType
<1>2. CASE Type[f] = "stopwatch"
  BY <1>1, <1>2, EngineAssumption DEF Memory, Handle, EndOf
<1>3. CASE Type[f] = "timer"
  BY <1>1, <1>3, EngineAssumption DEF Memory, Handle, EndOf
<1> QED
  BY <1>1, <1>2, <1>3

(* What a handler is called with and passes through stays within the type.  *)
LEMMA StagesTyped ==
    ASSUME NEW f \in Functions, NEW s \in Memory(Type[f]), NEW m \in Messages, NEW t \in Nat
    PROVE  LET r == Handle(Type[f], s, m, t)
           IN  r \in Runs(Memory(Type[f])) /\ Stages(r) \subseteq Memory(Type[f])
                /\ FinalMemory(r) \in Stages(r)
<1> DEFINE r == Handle(Type[f], s, m, t)
           M == Memory(Type[f])
<1>1. r \in Runs(M)
  BY EngineAssumption, HandleTyped
<1> HIDE DEF r
<1>2. r.begin \in M /\ r.writes \in Seq(Writes(M))
  BY <1>1 DEF Runs
<1>3. \A i \in DOMAIN r.writes : r.writes[i].then \in M
  <2>1. \A i \in DOMAIN r.writes : r.writes[i] \in Writes(M)
    BY <1>2
  <2>2. \A x \in Writes(M) : x.then \in M
    BY DEF Writes
  <2> QED
    BY <2>1, <2>2
<1>4. r.writes # << >> => Len(r.writes) \in DOMAIN r.writes
  BY <1>2, EmptySeq, LenProperties
<1>5. Stages(r) \subseteq M /\ FinalMemory(r) \in Stages(r)
  BY <1>2, <1>3, <1>4 DEF Stages, FinalMemory, FinalOf
<1> QED
  BY <1>1, <1>5 DEF r

(* Both handlers, in one.                                                   *)
LEMMA HandleRounds ==
    ASSUME NEW f \in Timed, NEW s \in OpenRounds(f), NEW m \in Messages, NEW t \in Nat
    PROVE  LET r == Handle(Type[f], s, m, t)
           IN  /\ Stages(r) \subseteq OpenRounds(f)
               /\ r.outcome = "changed" => FinalMemory(r) \in ClosedRounds(f)
<1> DEFINE r == Handle(Type[f], s, m, t)
<1>1. s \in Memory(Type[f]) /\ f \in Functions /\ m \in Message
  BY TimedFunction DEF OpenRounds
<1>2. Stages(r) \subseteq Memory(Type[f]) /\ FinalMemory(r) \in Memory(Type[f])
  BY <1>1, StagesTyped
<1>3. /\ \A x \in Stages(r) : x.state => EndOf(f, x) = None
      /\ r.outcome = "changed" =>
           LET x == FinalMemory(r)
           IN  ~x.state => EndOf(f, x) # None /\ x.duration = EndOf(f, x) - x.startTime
  <2>1. CASE Type[f] = "stopwatch"
    <3>1. s \in StopwatchMem /\ (s.state => s.stopTime = None)
          /\ r = StopwatchHandle(s, m, t)
      BY <1>1, <2>1, TimedFunction DEF OpenRounds
    <3>2. \A x : EndOf(f, x) = x.stopTime
      BY <2>1 DEF EndOf
    <3> HIDE DEF r
    <3> QED
      BY <1>1, <3>1, <3>2, StopwatchRounds
  <2>2. CASE Type[f] = "timer"
    <3>1. s \in TimerMem /\ (s.state => s.endTime = None) /\ r = TimerHandle(s, m)
      BY <1>1, <2>2, TimedFunction DEF OpenRounds
    <3>2. \A x : EndOf(f, x) = x.endTime
      BY <2>2 DEF EndOf
    <3> HIDE DEF r
    <3> QED
      BY <1>1, <3>1, <3>2, TimerRounds
  <2> QED
    BY <1>1, <2>1, <2>2, TimedFunction
<1> HIDE DEF r
<1>4. Stages(r) \subseteq OpenRounds(f)
  BY <1>2, <1>3 DEF OpenRounds
<1>5. r.outcome = "changed" => FinalMemory(r) \in ClosedRounds(f)
  BY <1>2, <1>3 DEF ClosedRounds
<1> QED
  BY <1>4, <1>5 DEF r

(* A new one is at rest.                                                    *)
LEMMA NewRound ==
    ASSUME NEW f \in Timed, NEW v \in Int
    PROVE  New(Type[f], v) \in OpenRounds(f)
<1>1. f \in Functions /\ (Type[f] = "stopwatch" \/ Type[f] = "timer") /\ Type[f] \in FunctionTypeNames
  BY EngineAssumption DEF Timed, OfType
<1>2. New(Type[f], v) \in Memory(Type[f])
  BY <1>1, NewTyped
<1>3. ~New(Type[f], v).state
  BY <1>1 DEF New, StopwatchNew, TimerNew
<1> QED
  BY <1>2, <1>3 DEF OpenRounds

(* Memories are open rounds, announced ones closed.                         *)
RoundsInvariant ==
    \A f \in Timed : StaysIn(f, OpenRounds(f)) /\ ChangesInto(f, ClosedRounds(f))

(* It is true at first.                                                     *)
LEMMA RoundsInit == Init => RoundsInvariant
<1> SUFFICES ASSUME Init, NEW f \in Timed
             PROVE  StaysIn(f, OpenRounds(f)) /\ ChangesInto(f, ClosedRounds(f))
  BY DEF RoundsInvariant
<1>1. f \in Functions
  BY DEF Timed, OfType
<1>2. mem[f] = New(Type[f], 0) /\ updates[f] = << >> /\ ~Busy(f)
  BY <1>1 DEF Init, Busy, IdleFunction, Handling
<1>3. mem[f] \in OpenRounds(f)
  BY <1>2, NewRound
<1> QED
  BY <1>2, <1>3 DEF StaysIn, ChangesInto, Due

(* It is kept, restarts included.                                           *)
LEMMA RoundsStep ==
    ASSUME RoundsInvariant, EngineInvariant, [AnyStep]_vars
    PROVE  RoundsInvariant'
<1> SUFFICES ASSUME RoundsInvariant, EngineInvariant, [AnyStep]_vars, NEW f \in Timed
             PROVE  StaysIn(f, OpenRounds(f))' /\ ChangesInto(f, ClosedRounds(f))'
  BY DEF RoundsInvariant
<1>1. f \in Functions
  BY DEF Timed, OfType
<1>2. StaysIn(f, OpenRounds(f)) /\ ChangesInto(f, ClosedRounds(f))
  BY DEF RoundsInvariant
<1>3. \A s \in OpenRounds(f), m \in Messages, t \in Nat :
         /\ Stages(Handle(Type[f], s, m, t)) \subseteq OpenRounds(f)
         /\ Handle(Type[f], s, m, t).outcome = "changed" =>
              FinalMemory(Handle(Type[f], s, m, t)) \in ClosedRounds(f)
  BY HandleRounds
<1>4. \A v \in Int : New(Type[f], v) \in OpenRounds(f)
  BY NewRound
<1> DEFINE G == OpenRounds(f)
           H == ClosedRounds(f)
<1> HIDE DEF G, H
<1>5. StaysIn(f, G)'
  BY <1>1, <1>2, <1>3, <1>4, StaysInStep DEF G
<1>6. ChangesInto(f, H)'
  BY <1>1, <1>2, <1>3, ChangesIntoStep DEF G, H, StaysIn
<1> QED
  BY <1>5, <1>6 DEF G, H

(* It is what RoundsApart asks for.                                         *)
LEMMA RoundsShown == RoundsInvariant => RoundsApart
  BY DEF RoundsInvariant, StaysIn, ChangesInto, OpenRounds, ClosedRounds, RoundsApart

(* No subscriber is ever shown the end of an earlier round, nor the         *)
(* duration of one, whatever fails and however often the process restarts.  *)
THEOREM RoundsApartHolds == Spec => []RoundsApart
<1>1. Init => RoundsInvariant
  BY RoundsInit
<1>2. RoundsInvariant /\ EngineInvariant /\ [AnyStep]_vars => RoundsInvariant'
  BY RoundsStep
<1>3. RoundsInvariant => RoundsApart
  BY RoundsShown
<1> QED
  BY <1>1, <1>2, <1>3, EngineCorrect, PTL DEF AnyStep, Spec
-----------------------------------------------------------------------------
LEMMA RowTyped ==
    ASSUME NEW rows \in Seq(Row), NEW i \in DOMAIN rows
    PROVE  /\ rows[i] \in Row
           /\ rows[i].time \in Nat /\ rows[i].value \in Int /\ rows[i].label \in Labels
<1>1. rows[i] \in Row
  OBVIOUS
<1>2. \A row \in Row : row.time \in Nat /\ row.value \in Int /\ row.label \in Labels
  BY DEF Row
<1> QED
  BY <1>1, <1>2

(* The only element of a sequence.                                          *)
LEMMA OneLeft ==
    ASSUME NEW W, NEW writes \in Seq(W), Len(writes) = 1
    PROVE  Head(writes) = writes[1] /\ Tail(writes) = << >> /\ writes[1] \in W
<1>1. writes # << >>
  OBVIOUS
<1>2. Tail(writes) \in Seq(W) /\ Len(Tail(writes)) = 0
  BY <1>1, HeadTailProperties
<1>3. Tail(writes) = << >>
  BY <1>2, EmptySeq
<1> QED
  BY <1>1, <1>3

(* The log of a water quality. *)
UpTo(rows, t) == \A i \in DOMAIN rows : rows[i].time <= t

(* All rows are from before t.                                              *)
Before(rows, t) == \A i \in DOMAIN rows : rows[i].time < t

(* Each row is later than the one before.                                   *)
Climbs(rows) == \A i \in DOMAIN rows : i > 1 => rows[i].time > rows[i - 1].time

(* Each row has another value than the one before.                          *)
Varies(rows) == \A i \in DOMAIN rows : i > 1 => rows[i].value # rows[i - 1].value

(* The row that is due is the memory, and later than all rows; as long as   *)
(* nothing fails, one is due exactly when the last row is not the memory.   *)
TemperatureAt(f) ==
    LET rows == history[f]
        s    == mem[f]
        due  == Due(f)
    IN  /\ s.timestamp <= now + ClockSkew
        /\ UpTo(rows, s.timestamp)
        /\ Climbs(rows)
        /\ faults = 0 => Varies(rows)
        /\ due # << >> =>
              /\ Len(due) = 1
              /\ due[1].time = s.timestamp /\ due[1].value = s.temperature /\ due[1].then = s
              /\ Before(rows, s.timestamp)
        /\ faults = 0 /\ rows # << >> => (due = << >> <=> Last(rows).value = s.temperature)

(* While the process lives this is true of every water quality.             *)
TemperatureInvariant ==
    restarts = 0 => \A f \in OfType("waterquality") : TemperatureAt(f)

(* What a row that is added makes of the log.                               *)
LEMMA LogGrows ==
    ASSUME NEW rows \in Seq(Row), NEW row \in Row
    PROVE  LET long == Append(rows, row)
           IN  /\ long # << >> /\ Last(long) = row
               /\ UpTo(rows, row.time) => UpTo(long, row.time)
               /\ Climbs(rows) /\ Before(rows, row.time) => Climbs(long)
               /\ Varies(rows) /\ (rows # << >> => Last(rows).value # row.value) => Varies(long)
<1> DEFINE long == Append(rows, row)
           n == Len(rows)
<1>1. /\ n \in Nat /\ DOMAIN rows = 1 .. n /\ DOMAIN long = 1 .. n + 1 /\ Len(long) = n + 1
      /\ long # << >>
      /\ \A i \in 1 .. n : long[i] = rows[i] /\ rows[i].time \in Nat
      /\ long[n + 1] = row
  <2>1. \A i \in 1 .. n : rows[i].time \in Nat
    BY RowTyped
  <2> QED
    BY <2>1, AppendProperties, LenProperties
<1> HIDE DEF long, n
<1>2. Last(long) = row
  BY <1>1 DEF Last
<1>3. ASSUME UpTo(rows, row.time) PROVE UpTo(long, row.time)
  <2>1. row.time \in Nat
    BY DEF Row
  <2> QED
    BY <1>1, <1>3, <2>1 DEF UpTo
<1>4. ASSUME Climbs(rows), Before(rows, row.time) PROVE Climbs(long)
  BY <1>1, <1>4 DEF Climbs, Before
<1>5. ASSUME Varies(rows), rows # << >> => Last(rows).value # row.value PROVE Varies(long)
  <2>1. n > 0 => rows[n].value # row.value
    BY <1>5, <1>1 DEF Last, n
  <2> QED
    BY <1>1, <1>5, <2>1 DEF Varies
<1> QED
  BY <1>1, <1>2, <1>3, <1>4, <1>5 DEF long

(* A newer measurement takes over; one of a new temperature has a row.      *)
LEMMA WaterQualityRun ==
    ASSUME NEW s \in WaterQualityMem, NEW m \in Message, NEW t \in Nat
    PROVE  LET r == WaterQualityHandle(s, m, t)
           IN  \/ r.begin = s /\ r.writes = << >>
               \/ /\ r.begin.timestamp > s.timestamp /\ r.begin.timestamp <= t + ClockSkew
                  /\ \/ r.begin.temperature = s.temperature /\ r.writes = << >>
                     \/ /\ r.begin.temperature # s.temperature
                        /\ r.writes # << >> /\ Len(r.writes) = 1
                        /\ r.writes[1].time = r.begin.timestamp
                        /\ r.writes[1].value = r.begin.temperature
                        /\ r.writes[1].then = r.begin
<1> DEFINE new == [temperature |-> Round(m.value[SensorValue], 10), timestamp |-> m.time]
           write == OnChange("temperature", new.temperature, m.time, new)
           r == WaterQualityHandle(s, m, t)
<1>1. CASE m.obj # "temperature" \/ BadTimestamp(m, t) \/ ~Newer(s, m)
  BY <1>1 DEF WaterQualityHandle, Rejected, Unchanged, Run
<1>2. CASE ~(m.obj # "temperature" \/ BadTimestamp(m, t) \/ ~Newer(s, m))
  <2>1. m.time \in Nat /\ t + ClockSkew \in Nat
    BY MessageTyped, ClockSkewAssumption
  <2>2. new.timestamp > s.timestamp /\ new.timestamp <= t + ClockSkew
    BY <1>2, <2>1 DEF Newer, BadTimestamp, WaterQualityMem
  <2>3. \/ r = Unchanged(new) /\ new.temperature = s.temperature
        \/ r = Run(new, << write >>, "changed", "stop") /\ new.temperature # s.temperature
    BY <1>2 DEF WaterQualityHandle
  <2>4. write.time = new.timestamp /\ write.value = new.temperature /\ write.then = new
    BY DEF OnChange
  <2> HIDE DEF new, write, r
  <2>5. CASE r = Unchanged(new) /\ new.temperature = s.temperature
    BY <2>2, <2>5 DEF Unchanged, Run, r
  <2>6. CASE r = Run(new, << write >>, "changed", "stop") /\ new.temperature # s.temperature
    <3>1. r.begin = new /\ r.writes = << write >>
      BY <2>6 DEF Run
    <3> QED
      BY <2>2, <2>4, <2>6, <3>1 DEF r
  <2> QED
    BY <2>3, <2>5, <2>6
<1> QED
  BY <1>1, <1>2

(* It is kept by every step but a restart.                                  *)
LEMMA TemperatureStep ==
    ASSUME EngineInvariant, EngineInvariant', [AnyStep]_vars, NEW f \in OfType("waterquality"),
           TemperatureAt(f), ~StartsAgain(f)
    PROVE  TemperatureAt(f)'
<1>0. f \in Functions /\ Type[f] = "waterquality"
  BY DEF OfType
<1>1. /\ now \in Nat /\ now' \in Nat /\ faults \in Nat /\ faults' \in Nat
      /\ now' >= now /\ faults' >= faults /\ ClockSkew \in Nat
      /\ history[f] \in Seq(Row) /\ history'[f] \in Seq(Row)
      /\ mem[f] \in WaterQualityMem /\ mem'[f] \in WaterQualityMem
  BY <1>0, Forward, ClockSkewAssumption DEF EngineInvariant, TypeOK, Memory
<1>2. mem[f].timestamp \in Nat /\ mem'[f].timestamp \in Nat
  BY <1>1 DEF WaterQualityMem
<1>3. CASE Keeps(f)
  <2>1. mem'[f] = mem[f] /\ history'[f] = history[f] /\ Due(f)' = Due(f)
    BY <1>0, <1>3, OutlookStep DEF Keeps, NotLogged
  <2> QED
    BY <1>1, <1>2, <2>1 DEF TemperatureAt
<1>4. CASE Begins(f)
  <2>1. PICK m \in Messages :
           /\ mem'[f] = Handle(Type[f], mem[f], m, now).begin
           /\ Due(f)' = Handle(Type[f], mem[f], m, now).writes
    BY <1>4, OutlookBegins
  <2> DEFINE r == WaterQualityHandle(mem[f], m, now)
  <2>2. Handle(Type[f], mem[f], m, now) = r
    BY <1>0 DEF Handle
  <2>3. history'[f] = history[f] /\ Due(f) = << >>
    BY <1>4 DEF Begins, NotLogged, Due
  <2>4. m \in Message
    BY EngineAssumption
  <2>5. mem'[f] = r.begin /\ Due(f)' = r.writes
    BY <2>1, <2>2
  <2>6. \/ r.begin = mem[f] /\ r.writes = << >>
        \/ /\ r.begin.timestamp > mem[f].timestamp /\ r.begin.timestamp <= now + ClockSkew
           /\ \/ r.begin.temperature = mem[f].temperature /\ r.writes = << >>
              \/ /\ r.begin.temperature # mem[f].temperature
                 /\ r.writes # << >> /\ Len(r.writes) = 1
                 /\ r.writes[1].time = r.begin.timestamp
                 /\ r.writes[1].value = r.begin.temperature
                 /\ r.writes[1].then = r.begin
    BY <1>1, <2>4, WaterQualityRun
  <2> HIDE DEF r
  <2>7. \A i \in DOMAIN history[f] : history[f][i].time \in Nat
    BY <1>1, RowTyped
  <2>8. CASE r.begin = mem[f] /\ r.writes = << >>
    BY <1>1, <1>2, <2>3, <2>5, <2>8 DEF TemperatureAt
  <2>9. CASE /\ r.begin.timestamp > mem[f].timestamp /\ r.begin.timestamp <= now + ClockSkew
             /\ \/ r.begin.temperature = mem[f].temperature /\ r.writes = << >>
                \/ /\ r.begin.temperature # mem[f].temperature
                   /\ r.writes # << >> /\ Len(r.writes) = 1
                   /\ r.writes[1].time = r.begin.timestamp
                   /\ r.writes[1].value = r.begin.temperature
                   /\ r.writes[1].then = r.begin
    <3>1. mem'[f].timestamp <= now' + ClockSkew
      BY <1>1, <1>2, <2>5, <2>9
    <3>2. UpTo(history'[f], mem'[f].timestamp) /\ Before(history'[f], mem'[f].timestamp)
      BY <1>1, <1>2, <2>3, <2>5, <2>7, <2>9 DEF TemperatureAt, UpTo, Before
    <3>3. Climbs(history'[f]) /\ (faults' = 0 => Varies(history'[f]))
      BY <1>1, <2>3 DEF TemperatureAt
    <3>4. faults' = 0 /\ history'[f] # << >> => Last(history'[f]).value = mem[f].temperature
      BY <1>1, <2>3 DEF TemperatureAt
    <3> QED
      BY <2>5, <2>9, <3>1, <3>2, <3>3, <3>4 DEF TemperatureAt
  <2> QED
    BY <2>6, <2>8, <2>9
<1>5. CASE StoresRow(f) \/ LosesRow(f) \/ GivesUp(f)
  <2> DEFINE write == Due(f)[1]
             row == RowOf(write)
  <2>1. /\ Due(f) \in Seq(Writes(Memory(Type[f]))) /\ Due(f) # << >> /\ Due(f) = Call(f).writes
    BY <1>0, <1>5, CallTyped DEF StoresRow, LosesRow, GivesUp, NextStage, Pending, Due
  <2>2. /\ Len(Due(f)) = 1
        /\ write.time = mem[f].timestamp /\ write.value = mem[f].temperature
        /\ write.then = mem[f]
        /\ Before(history[f], mem[f].timestamp)
    BY <2>1 DEF TemperatureAt
  <2>3. Head(Due(f)) = write /\ Tail(Due(f)) = << >>
    BY <2>1, <2>2, OneLeft
  <2>4. Due(f)' = << >> /\ mem'[f] = mem[f]
    BY <1>0, <1>5, <2>1, <2>2, <2>3, OutlookStep DEF StoresRow, LosesRow, NextStage, GivesUp
  <2>5. write \in Writes(Memory(Type[f]))
    BY <2>1, <2>2
  <2>6. row \in Row
    BY <2>5 DEF Writes, Row, RowOf
  <2>7. row.time = mem[f].timestamp /\ row.value = mem[f].temperature
    BY <2>2 DEF RowOf
  <2>8. history'[f] = Append(history[f], row) \/ (history'[f] = history[f] /\ faults' > 0)
    BY <1>5, <2>1, <2>3 DEF StoresRow, LosesRow, GivesUp, Logged, NotLogged
  <2> HIDE DEF row, write
  <2>9. CASE history'[f] = Append(history[f], row)
    <3>1. /\ history'[f] # << >> /\ Last(history'[f]) = row
          /\ UpTo(history'[f], row.time)
          /\ Climbs(history'[f])
      BY <1>1, <2>2, <2>6, <2>7, <2>9, LogGrows DEF TemperatureAt
    <3>2. faults' = 0 => Varies(history'[f])
      <4>1. faults = 0 /\ history[f] # << >> => Last(history[f]).value # mem[f].temperature
        BY <2>1 DEF TemperatureAt
      <4> QED
        BY <1>1, <2>6, <2>7, <2>9, <4>1, LogGrows DEF TemperatureAt
    <3> QED
      BY <1>1, <1>2, <2>4, <2>7, <3>1, <3>2 DEF TemperatureAt
  <2>10. CASE history'[f] = history[f] /\ faults' > 0
    BY <1>1, <1>2, <2>4, <2>10 DEF TemperatureAt
  <2> QED
    BY <2>8, <2>9, <2>10
<1>6. CASE Ends(f)
  <2>1. mem'[f] = mem[f] /\ history'[f] = history[f] /\ Due(f)' = << >> /\ Due(f) = << >>
    BY <1>0, <1>6, OutlookStep DEF Ends, NotLogged, Due
  <2> QED
    BY <1>1, <1>2, <2>1 DEF TemperatureAt
<1> QED
  BY <1>0, <1>3, <1>4, <1>5, <1>6, FunctionStep DEF Returns, Announces

(* The log of a water quality is in the order of time and logs changes      *)
(* only, in whatever order and however often measurements are delivered.    *)
THEOREM TemperatureLogHolds == Spec => []TemperatureLog
<1>1. Init => TemperatureInvariant
  <2> SUFFICES ASSUME Init, NEW f \in OfType("waterquality") PROVE TemperatureAt(f)
    BY DEF TemperatureInvariant
  <2>1. f \in Functions /\ Type[f] = "waterquality"
    BY DEF OfType
  <2>2. mem[f] = WaterQualityNew /\ history[f] = << >> /\ ~Busy(f) /\ now = 1
    BY <2>1 DEF Init, New, Busy, IdleFunction, Handling
  <2>3. Due(f) = << >>
    BY <2>2 DEF Due
  <2> QED
    BY <2>2, <2>3, ClockSkewAssumption
    DEF TemperatureAt, WaterQualityNew, ZeroTime, UpTo, Climbs, Varies
<1>2. TemperatureInvariant /\ EngineInvariant /\ [AnyStep]_vars => TemperatureInvariant'
  <2> SUFFICES ASSUME TemperatureInvariant, EngineInvariant, [AnyStep]_vars, restarts' = 0,
                      NEW f \in OfType("waterquality")
               PROVE  TemperatureAt(f)'
    BY DEF TemperatureInvariant
  <2>1. restarts \in Nat /\ restarts' >= restarts
    BY Forward DEF EngineInvariant, TypeOK
  <2>2. TemperatureAt(f) /\ ~StartsAgain(f)
    BY <2>1 DEF TemperatureInvariant, StartsAgain
  <2>3. EngineInvariant'
    BY EngineStep
  <2> QED
    BY <2>2, <2>3, TemperatureStep
<1>3. TemperatureInvariant /\ EngineInvariant => TemperatureLog
  <2> SUFFICES ASSUME TemperatureInvariant, EngineInvariant, restarts = 0,
                      NEW f \in OfType("waterquality"), NEW i \in DOMAIN history[f]
               PROVE  /\ history[f][i].time <= now + ClockSkew
                      /\ i > 1 => history[f][i].time > history[f][i - 1].time
                      /\ i > 1 /\ faults = 0 => history[f][i].value # history[f][i - 1].value
    BY DEF TemperatureLog
  <2>0. f \in Functions /\ Type[f] = "waterquality"
    BY DEF OfType
  <2>1. history[f] \in Seq(Row) /\ mem[f] \in WaterQualityMem /\ now \in Nat
    BY <2>0 DEF EngineInvariant, TypeOK, Memory
  <2>2. history[f][i].time \in Nat /\ mem[f].timestamp \in Nat
    BY <2>1, RowTyped DEF WaterQualityMem
  <2>3. TemperatureAt(f)
    BY DEF TemperatureInvariant
  <2>4. history[f][i].time <= mem[f].timestamp /\ mem[f].timestamp <= now + ClockSkew
    BY <2>3 DEF TemperatureAt, UpTo
  <2> QED
    BY <2>1, <2>2, <2>3, <2>4, ClockSkewAssumption DEF TemperatureAt, Climbs, Varies
<1> QED
  BY <1>1, <1>2, <1>3, EngineCorrect, PTL DEF AnyStep, Spec
-----------------------------------------------------------------------------
(* Edges. While nothing fails the count is known exactly from the last      *)
(* count that a message brought and the edges announced since; where no     *)
(* message brings one it is ahead of the updates, whatever fails, by the    *)
(* edge that is still to be announced and by those whose update failed.     *)
Counting == OfType("counter") \cup OfType("digitalinput")

(* The count in a memory, by type.                                          *)
CountOf(type, s) == IF type = "counter" THEN s.count ELSE s.counter

(* The last update announced an input that is on.                           *)
LastOn(f) == updates[f] # << >> /\ Last(updates[f]).mem.state

(* The edge that is counted and not announced yet.                          *)
Owed(f) == Number(mem[f].state /\ ~LastOn(f))

(* The count is at least the edges announced and the one that is owed.      *)
AheadAt(f) ==
    /\ EdgeCount(f) >= EdgesAfter(f, 0) + Owed(f)
    /\ \A i \in DOMAIN Due(f) :
          /\ Due(f)[i].then.state = mem[f].state
          /\ CountOf(Type[f], Due(f)[i].then) = EdgeCount(f)

(* n is the last count taken and the edges since, and d more.               *)
Tallies(f, n, d) ==
    \A i \in 0 .. Len(updates[f]) :
        LastTaken(f, i) => n = CountAt(f, i) + EdgesAfter(f, i) + d

(* The count that the call under way has taken from its message.            *)
Taken(f) == CountTaken(Type[f], CallMsg(f))

(* What the count will be when the call under way has made its last write.  *)
TallyAt(f) ==
    /\ ~Busy(f) \/ Call(f).outcome # "changed" =>
          /\ Tallies(f, CountOf(Type[f], Outlook(f)), 0)
          /\ Outlook(f).state <=> LastOn(f)
    /\ Busy(f) /\ Call(f).outcome # "rejected" =>
          IF Taken(f) # None THEN CountOf(Type[f], Outlook(f)) = Taken(f)
          ELSE Tallies(f, CountOf(Type[f], Outlook(f)), Number(Outlook(f).state /\ ~LastOn(f)))

(* Both are true of every function that counts while the process lives.     *)
EdgeAt(f) ==
    /\ Undecorated(f) => AheadAt(f)
    /\ faults = 0 => TallyAt(f)

EdgeInvariant == restarts = 0 => \A f \in Counting : EdgeAt(f)

(* Where the edges are among some updates after the k-th.                   *)
EdgesIn(list, k) ==
    {j \in DOMAIN list : j > k /\ list[j].mem.state /\ (j = 1 \/ ~list[j - 1].mem.state)}

(* The edges are finitely many.                                             *)
LEMMA EdgesType ==
    ASSUME NEW S, NEW list \in Seq(S), NEW k \in Nat
    PROVE  /\ IsFiniteSet(EdgesIn(list, k)) /\ Cardinality(EdgesIn(list, k)) \in Nat
           /\ k = Len(list) => Cardinality(EdgesIn(list, k)) = 0
<1>1. IsFiniteSet(1 .. Len(list))
  BY LenProperties, FS_Interval
<1>2. EdgesIn(list, k) \subseteq 1 .. Len(list)
  BY LenProperties DEF EdgesIn
<1>3. IsFiniteSet(EdgesIn(list, k))
  BY <1>1, <1>2, FS_Subset
<1>4. k = Len(list) => EdgesIn(list, k) = {}
  BY LenProperties DEF EdgesIn
<1> QED
  BY <1>3, <1>4, FS_CardinalityType, FS_EmptySet

(* One more update is one more edge if it is on and the last one was not.   *)
LEMMA EdgesGrow ==
    ASSUME NEW S, NEW list \in Seq(S), NEW update \in S, NEW k \in 0 .. Len(list),
           NEW edge \in BOOLEAN,
           edge <=> update.mem.state /\ ~(list # << >> /\ Last(list).mem.state)
    PROVE  Cardinality(EdgesIn(Append(list, update), k))
              = Cardinality(EdgesIn(list, k)) + Number(edge)
<1> DEFINE n == Len(list)
           long == Append(list, update)
<1>1. /\ n \in Nat /\ DOMAIN list = 1 .. n /\ DOMAIN long = 1 .. n + 1
      /\ \A i \in 1 .. n : long[i] = list[i]
      /\ long[n + 1] = update
      /\ n = 0 <=> list = << >>
  BY AppendProperties, LenProperties, EmptySeq
<1>0. k \in Nat /\ k <= n
  BY <1>1
<1>2. IsFiniteSet(EdgesIn(list, k)) /\ Cardinality(EdgesIn(list, k)) \in Nat
  BY <1>0, EdgesType
<1>3. n > 0 => Last(list) = list[n]
  BY DEF Last
<1> HIDE DEF n, long
<1>4. \A i \in 1 .. n : i \in EdgesIn(long, k) <=> i \in EdgesIn(list, k)
  BY <1>1 DEF EdgesIn
<1>5. n + 1 \in EdgesIn(long, k) <=> update.mem.state /\ (n = 0 \/ ~list[n].mem.state)
  BY <1>0, <1>1 DEF EdgesIn
<1>6. n + 1 \in EdgesIn(long, k) <=> edge
  <2>1. CASE n = 0
    <3>1. list = << >>
      BY <1>1, <2>1
    <3> QED
      BY <1>5, <2>1, <3>1
  <2>2. CASE n # 0
    <3>1. list # << >> /\ Last(list) = list[n]
      BY <1>1, <1>3, <2>2
    <3> QED
      BY <1>5, <2>2, <3>1
  <2> QED
    BY <2>1, <2>2
<1>7. EdgesIn(long, k) \subseteq 1 .. n + 1 /\ EdgesIn(list, k) \subseteq 1 .. n
  BY <1>1 DEF EdgesIn
<1>8. CASE edge
  <2>1. EdgesIn(long, k) = EdgesIn(list, k) \cup {n + 1}
    BY <1>1, <1>4, <1>6, <1>7, <1>8
  <2>2. n + 1 \notin EdgesIn(list, k)
    BY <1>1, <1>7
  <2>3. Cardinality(EdgesIn(list, k) \cup {n + 1}) = Cardinality(EdgesIn(list, k)) + 1
    BY <1>2, <2>2, FS_AddElement
  <2> QED
    BY <1>8, <2>1, <2>3 DEF Number, long
<1>9. CASE ~edge
  <2>0. n + 1 \notin EdgesIn(long, k)
    BY <1>6, <1>9
  <2>1. EdgesIn(long, k) = EdgesIn(list, k)
    <3>1. n \in Nat /\ \A i \in 1 .. n + 1 : i # n + 1 => i \in 1 .. n
      BY <1>1
    <3>2. EdgesIn(long, k) \subseteq 1 .. n
      BY <1>7, <2>0, <3>1
    <3> QED
      BY <1>4, <1>7, <3>2
  <2> QED
    BY <1>2, <1>9, <2>1 DEF Number, long
<1> QED
  BY <1>8, <1>9

(* The edges among the updates of a function.                               *)
LEMMA EdgesOf ==
    ASSUME EngineInvariant, NEW f \in Functions, NEW k \in Nat
    PROVE  EdgesAfter(f, k) = Cardinality(EdgesIn(updates[f], k)) /\ EdgesAfter(f, k) \in Nat
<1>1. updates[f] \in Seq(Update(f))
  BY UpdatesTyped
<1>2. EdgesAfter(f, k) = Cardinality(EdgesIn(updates[f], k))
  BY DEF EdgesAfter, EdgesIn
<1> QED
  BY <1>1, <1>2, EdgesType

(* Without a count in the message a rising edge adds one to the count,      *)
(* anything else leaves it alone.                                           *)
LEMMA CounterEdge ==
    ASSUME NEW s \in CounterMem, NEW m \in Message, CountTaken("counter", m) = None
    PROVE  LET r == CounterHandle(s, m)
           IN  \A x \in Stages(r) : /\ x.state = r.begin.state
                                    /\ x.count = s.count + Number(r.begin.state /\ ~s.state)
<1> DEFINE new == Counted(s, m)
           rows == CounterRows(s, new, m)
           stateRow == OnChange("state", Number(new.state), m.time, new)
           r == CounterHandle(s, m)
<1>0. s.count \in Int /\ s.state \in BOOLEAN
  BY DEF CounterMem
<1>1. CASE m.obj # "digitalinput" \/ m.state = None
  <2>1. r.begin = s /\ r.writes = << >>
    BY <1>1 DEF CounterHandle, Rejected, Unchanged, Run
  <2> HIDE DEF r
  <2> QED
    BY <1>0, <2>1 DEF Stages, Number, r
<1>2. CASE ~(m.obj # "digitalinput" \/ m.state = None)
  <2>0. m.value[DigitalInputCounter] = None
    <3>1. m.value[DigitalInputCounter] # None =>
             CountTaken("counter", m) = Ceil(m.value[DigitalInputCounter])
      BY <1>2 DEF CountTaken
    <3>2. m.value[DigitalInputCounter] # None => Ceil(m.value[DigitalInputCounter]) \in Int
      BY MessageTyped, CeilTyped
    <3> QED
      BY <3>1, <3>2, NoneAssumption
  <2>1. r = Run(new, rows, IF rows = << >> THEN "unchanged" ELSE "changed", "join")
    BY <1>2 DEF CounterHandle
  <2>2. m.state \in BOOLEAN
    BY <1>2, MessageTyped
  <2>3. new.state = m.state /\ new.count = s.count + Number(m.state /\ ~s.state)
    BY <1>0, <2>0, <2>2 DEF Counted, RisingEdge
  <2>4. rows = IF new.state # s.state THEN << stateRow >> ELSE << >>
    <3>1. rows = << >> \o (IF new.state # s.state THEN << stateRow >> ELSE << >>)
      BY <2>0 DEF CounterRows
    <3>2. << >> \o << stateRow >> = << stateRow >> /\ << >> \o << >> = << >>
      <4> HIDE DEF stateRow
      <4> QED
        OBVIOUS
    <3> QED
      BY <3>1, <3>2
  <2>5. stateRow.then = new
    BY OnChangeFields
  <2> HIDE DEF new, rows, stateRow, r
  <2>6. r.begin = new /\ r.writes = rows
    BY <2>1 DEF Run
  <2>7. \A x \in Stages(r) : x = new
    BY <2>4, <2>5, <2>6 DEF Stages
  <2> QED
    BY <2>3, <2>6, <2>7 DEF r
<1> QED
  BY <1>1, <1>2

(* A digital input without a count counts a rising edge, and nothing else.  *)
LEMMA DigitalInputEdge ==
    ASSUME NEW s \in DigitalInputMem, NEW m \in Message, CountTaken("digitalinput", m) = None
    PROVE  LET r == DigitalInputHandle(s, m)
           IN  \A x \in Stages(r) : /\ x.state = r.begin.state
                                    /\ x.counter = s.counter + Number(r.begin.state /\ ~s.state)
<1> DEFINE t       == InputTime(m)
           pending == [state     |-> NextState(s, m),
                       counter   |-> NextCounter(s, m),
                       timestamp |-> s.timestamp]
           new     == [pending EXCEPT !.timestamp = t]
           stateRow == OnChange("state", Number(new.state), t, new)
           r == DigitalInputHandle(s, m)
<1>a. m.value[DigitalInputCounter] = None
  <2>1. m.value[DigitalInputCounter] # None =>
           CountTaken("digitalinput", m) = Truncate(m.value[DigitalInputCounter])
    BY DEF CountTaken
  <2>2. m.value[DigitalInputCounter] # None => Truncate(m.value[DigitalInputCounter]) \in Int
    BY MessageTyped, TruncateTyped
  <2> QED
    BY <2>1, <2>2, NoneAssumption
<1>0. s.counter \in Int /\ s.state \in BOOLEAN
  BY DEF DigitalInputMem
<1>1. NextCounter(s, m) = Stepped(s, m)
  BY <1>a DEF NextCounter
<1>2. /\ new.state = NextState(s, m) /\ pending.state = NextState(s, m)
      /\ new.counter = Stepped(s, m) /\ pending.counter = Stepped(s, m)
  BY <1>1
<1>3. r \in {Rejected(s), Unchanged(s)} \/
      r = Run(pending, << stateRow >>, "changed", "join")
  BY <1>1 DEF DigitalInputHandle
<1>4. stateRow.then = new
  BY OnChangeFields
<1> HIDE DEF pending, new, stateRow, r
<1>5. CASE r \in {Rejected(s), Unchanged(s)}
  <2>1. r.begin = s /\ r.writes = << >>
    BY <1>5 DEF Rejected, Unchanged, Run
  <2> QED
    BY <1>0, <2>1 DEF Stages, Number, r
<1>6. CASE r = Run(pending, << stateRow >>, "changed", "join")
  <2>1. r.begin = pending /\ r.writes = << stateRow >>
    BY <1>6 DEF Run
  <2>2. \A x \in Stages(r) : x \in {pending, new}
    BY <1>4, <2>1 DEF Stages
  <2>3. NextState(s, m) \in BOOLEAN
    BY <1>0, MessageTyped DEF NextState
  <2>4. Stepped(s, m) = s.counter + Number(NextState(s, m) /\ ~s.state)
    BY DEF Stepped
  <2> QED
    BY <1>2, <2>1, <2>2, <2>4 DEF r
<1> QED
  BY <1>3, <1>5, <1>6

(* What a call leaves: the count of the message, or the count as it was and *)
(* the edge; without a change, everything as it was.                        *)
CountsTo(r, s, n, n0, taken) ==
    /\ r.outcome # "changed" => FinalMemory(r).state = s.state
    /\ r.outcome = "rejected" => n = n0
    /\ r.outcome = "unchanged" => n = n0
    /\ r.outcome # "rejected" =>
          n = IF taken # None THEN taken ELSE n0 + Number(FinalMemory(r).state /\ ~s.state)

(* A counter.                                                               *)
LEMMA CounterCounts ==
    ASSUME NEW s \in CounterMem, NEW m \in Message
    PROVE  LET r == CounterHandle(s, m)
           IN  CountsTo(r, s, FinalMemory(r).count, s.count, CountTaken("counter", m))
<1> DEFINE new == Counted(s, m)
           rows == CounterRows(s, new, m)
           r == CounterHandle(s, m)
           count == m.value[DigitalInputCounter]
           taken == CountTaken("counter", m)
<1>0. s.count \in Int /\ s.state \in BOOLEAN
  BY DEF CounterMem
<1>1. CASE m.obj # "digitalinput"
  <2>1. r.begin = s /\ r.writes = << >> /\ r.outcome = "rejected"
    BY <1>1 DEF CounterHandle, Rejected, Run
  <2>2. FinalMemory(r) = s
    BY <2>1 DEF FinalMemory, FinalOf
  <2> QED
    BY <2>1, <2>2 DEF CountsTo
<1>2. CASE m.obj = "digitalinput" /\ m.state = None
  <2>1. r.begin = s /\ r.writes = << >> /\ r.outcome = "unchanged"
    BY <1>2 DEF CounterHandle, Unchanged, Run
  <2>2. FinalMemory(r) = s
    BY <2>1 DEF FinalMemory, FinalOf
  <2>3. taken = None
    BY <1>2 DEF CountTaken
  <2>4. Number(s.state /\ ~s.state) = 0
    BY DEF Number
  <2> QED
    BY <1>0, <2>1, <2>2, <2>3, <2>4 DEF CountsTo
<1>3. CASE m.obj = "digitalinput" /\ m.state # None
  <2>1. r = Run(new, rows, IF rows = << >> THEN "unchanged" ELSE "changed", "join")
    BY <1>3 DEF CounterHandle
  <2>2. m.state \in BOOLEAN
    BY <1>3, MessageTyped
  <2>3. /\ count # None => taken = Ceil(count) /\ Ceil(count) \in Int
        /\ count = None => taken = None
    BY <1>3, MessageTyped, CeilTyped DEF CountTaken
  <2>4. new.state = m.state
        /\ new.count = IF count # None THEN Ceil(count) ELSE s.count + Number(m.state /\ ~s.state)
    BY <1>0, <2>2 DEF Counted, RisingEdge
  <2>5. new.count = IF taken # None THEN taken ELSE s.count + Number(new.state /\ ~s.state)
    BY <2>3, <2>4, NoneAssumption
  <2>6. FinalMemory(r) = new /\ (r.outcome = "rejected" <=> FALSE)
        /\ (r.outcome # "changed" => rows = << >>)
    <3>1. \A i \in DOMAIN rows : rows[i].then = new
      BY OnChangeFields DEF CounterRows
    <3>2. rows = << >> \/ (Len(rows) \in DOMAIN rows /\ rows # << >>)
      BY DEF CounterRows
    <3>3. FinalOf(new, rows) = new
      BY <3>1, <3>2 DEF FinalOf
    <3> HIDE DEF new, rows
    <3>4. r.begin = new /\ r.writes = rows
          /\ r.outcome = IF rows = << >> THEN "unchanged" ELSE "changed"
      BY <2>1 DEF Run
    <3> QED
      BY <3>3, <3>4 DEF FinalMemory
  <2>7. rows = << >> => new.state = s.state /\ new.count = s.count
    <3>1. rows = << >> => new.state = s.state
      BY DEF CounterRows
    <3>2. rows = << >> /\ count # None => new.count = s.count
      BY DEF CounterRows
    <3>3. count = None /\ new.state = s.state => new.count = s.count
      BY <1>0, <2>2, <2>4 DEF Number
    <3> QED
      BY <3>1, <3>2, <3>3
  <2> HIDE DEF new, rows, r, taken
  <2> QED
    BY <2>5, <2>6, <2>7 DEF CountsTo, r, taken
<1> QED
  BY <1>1, <1>2, <1>3

(* A digital input.                                                         *)
LEMMA DigitalInputCounts ==
    ASSUME NEW s \in DigitalInputMem, NEW m \in Message
    PROVE  LET r == DigitalInputHandle(s, m)
           IN  CountsTo(r, s, FinalMemory(r).counter, s.counter, CountTaken("digitalinput", m))
<1> DEFINE t       == InputTime(m)
           pending == [state     |-> NextState(s, m),
                       counter   |-> NextCounter(s, m),
                       timestamp |-> s.timestamp]
           new     == [pending EXCEPT !.timestamp = t]
           stateRow(then) == OnChange("state", Number(new.state), t, then)
           counterRow == OnChange("counter", new.counter, t, new)
           r == DigitalInputHandle(s, m)
           count == m.value[DigitalInputCounter]
           taken == CountTaken("digitalinput", m)
           calm == pending.state = s.state /\ pending.counter = Stepped(s, m)
<1>0. s.counter \in Int /\ s.state \in BOOLEAN /\ NextState(s, m) \in BOOLEAN
  BY MessageTyped DEF DigitalInputMem, NextState
<1>1. /\ count # None => taken = Truncate(count) /\ Truncate(count) \in Int
      /\ count = None => taken = None
  BY MessageTyped, TruncateTyped DEF CountTaken
<1>2. /\ new.state = NextState(s, m) /\ new.counter = NextCounter(s, m)
      /\ pending.state = NextState(s, m) /\ pending.counter = NextCounter(s, m)
  OBVIOUS
<1>3. NextCounter(s, m) = IF taken # None THEN taken ELSE s.counter + Number(NextState(s, m) /\ ~s.state)
  BY <1>1, NoneAssumption DEF NextCounter, Stepped
<1>4. CASE m.obj # "digitalinput"
  <2>1. r.begin = s /\ r.writes = << >> /\ r.outcome = "rejected"
    BY <1>4 DEF DigitalInputHandle, Rejected, Run
  <2>2. FinalMemory(r) = s
    BY <2>1 DEF FinalMemory, FinalOf
  <2> QED
    BY <2>1, <2>2 DEF CountsTo
<1>5. CASE m.obj = "digitalinput" /\ calm
  <2>1. r.begin = s /\ r.writes = << >> /\ r.outcome = "unchanged"
    BY <1>5 DEF DigitalInputHandle, Unchanged, Run
  <2>2. FinalMemory(r) = s
    BY <2>1 DEF FinalMemory, FinalOf
  <2>3. NextState(s, m) = s.state /\ Stepped(s, m) = s.counter /\ NextCounter(s, m) = s.counter
    BY <1>0, <1>2, <1>5 DEF Stepped, Number
  <2> QED
    BY <1>3, <2>1, <2>2, <2>3 DEF CountsTo
<1>6. CASE m.obj = "digitalinput" /\ ~calm
  <2>1. \/ r = Run(pending, << stateRow(pending), counterRow >>, "changed", "join")
        \/ r = Run(pending, << stateRow(new) >>, "changed", "join")
        \/ r = Run(pending, << counterRow >>, "changed", "join")
    BY <1>6 DEF DigitalInputHandle
  <2>2. stateRow(new).then = new /\ counterRow.then = new
    BY OnChangeFields
  <2> HIDE DEF pending, new, stateRow, counterRow, r
  <2>3. FinalMemory(r) = new /\ r.outcome = "changed"
    <3>1. CASE r = Run(pending, << stateRow(pending), counterRow >>, "changed", "join")
      BY <2>2, <3>1 DEF Run, FinalMemory, FinalOf
    <3>2. CASE r = Run(pending, << stateRow(new) >>, "changed", "join")
      BY <2>2, <3>2 DEF Run, FinalMemory, FinalOf
    <3>3. CASE r = Run(pending, << counterRow >>, "changed", "join")
      BY <2>2, <3>3 DEF Run, FinalMemory, FinalOf
    <3> QED
      BY <2>1, <3>1, <3>2, <3>3
  <2> QED
    BY <1>2, <1>3, <2>3 DEF CountsTo, r
<1> QED
  BY <1>4, <1>5, <1>6

(* A function that counts is a counter or a digital input.                  *)
LEMMA CountingFunction ==
    ASSUME NEW f \in Counting
    PROVE  /\ f \in Functions
           /\ Type[f] = "counter" \/ Type[f] = "digitalinput"
           /\ \A s \in Memory(Type[f]) : CountOf(Type[f], s) \in Int /\ s.state \in BOOLEAN
<1>1. f \in Functions /\ (Type[f] = "counter" \/ Type[f] = "digitalinput")
  BY DEF Counting, OfType
<1>2. CASE Type[f] = "counter"
  BY <1>1, <1>2 DEF Memory, CounterMem, CountOf
<1>3. CASE Type[f] = "digitalinput"
  BY <1>1, <1>3 DEF Memory, DigitalInputMem, CountOf
<1> QED
  BY <1>1, <1>2, <1>3

(* Both handlers, in one.                                                   *)
LEMMA HandleEdge ==
    ASSUME NEW f \in Counting, Undecorated(f), NEW s \in Memory(Type[f]),
           NEW m \in Messages, m.fn = f, NEW t \in Nat
    PROVE  LET r == Handle(Type[f], s, m, t)
           IN  \A x \in Stages(r) :
                  /\ x.state = r.begin.state
                  /\ CountOf(Type[f], x) = CountOf(Type[f], s) + Number(r.begin.state /\ ~s.state)
<1>1. m \in Message /\ CountTaken(Type[f], m) = None
  BY EngineAssumption DEF Undecorated
<1>2. CASE Type[f] = "counter"
  BY <1>1, <1>2, CounterEdge DEF Handle, Memory, CountOf
<1>3. CASE Type[f] = "digitalinput"
  BY <1>1, <1>3, DigitalInputEdge DEF Handle, Memory, CountOf
<1> QED
  BY <1>2, <1>3, CountingFunction

LEMMA HandleCounts ==
    ASSUME NEW f \in Counting, NEW s \in Memory(Type[f]), NEW m \in Messages, NEW t \in Nat
    PROVE  LET r == Handle(Type[f], s, m, t)
           IN  CountsTo(r, s, CountOf(Type[f], FinalMemory(r)), CountOf(Type[f], s),
                        CountTaken(Type[f], m))
<1>1. m \in Message
  BY EngineAssumption
<1>2. CASE Type[f] = "counter"
  <2>1. s \in CounterMem /\ Handle(Type[f], s, m, t) = CounterHandle(s, m)
    BY <1>2 DEF Handle, Memory
  <2>2. \A x : CountOf(Type[f], x) = x.count
    BY <1>2 DEF CountOf
  <2> QED
    BY <1>1, <1>2, <2>1, <2>2, CounterCounts
<1>3. CASE Type[f] = "digitalinput"
  <2>1. s \in DigitalInputMem /\ Handle(Type[f], s, m, t) = DigitalInputHandle(s, m)
    BY <1>3 DEF Handle, Memory
  <2>2. \A x : CountOf(Type[f], x) = x.counter
    BY <1>3 DEF CountOf
  <2> QED
    BY <1>1, <1>3, <2>1, <2>2, DigitalInputCounts
<1> QED
  BY <1>2, <1>3, CountingFunction

(* What an update makes of the last count taken.                            *)
LEMMA TallyGrows ==
    ASSUME EngineInvariant, NEW f \in Functions, NEW update \in Update(f),
           updates'[f] = Append(updates[f], update), NEW n \in Int, NEW edge \in BOOLEAN,
           edge <=> update.mem.state /\ ~LastOn(f),
           IF update.count # None THEN n = update.count ELSE Tallies(f, n, Number(edge))
    PROVE  Tallies(f, n, 0)'
<1> DEFINE len == Len(updates[f])
<1>1. updates[f] \in Seq(Update(f)) /\ len \in Nat
  BY UpdatesTyped
<1>2. /\ Len(updates'[f]) = len + 1
      /\ \A i \in 1 .. len : updates'[f][i] = updates[f][i]
      /\ updates'[f][len + 1] = update
      /\ updates'[f] \in Seq(Update(f))
  BY <1>1, AppendProperties, LenProperties
<1>3. \A k \in Nat : EdgesAfter(f, k)' = Cardinality(EdgesIn(updates'[f], k))
  BY DEF EdgesAfter, EdgesIn
<1>4. \A k \in 0 .. len : EdgesAfter(f, k)' = EdgesAfter(f, k) + Number(edge)
  <2>1. edge <=> update.mem.state /\ ~(updates[f] # << >> /\ Last(updates[f]).mem.state)
    BY DEF LastOn
  <2>2. \A k \in 0 .. len : Cardinality(EdgesIn(Append(updates[f], update), k))
                              = Cardinality(EdgesIn(updates[f], k)) + Number(edge)
    BY <1>1, <2>1, EdgesGrow
  <2>3. \A k \in 0 .. len : k \in Nat
    BY <1>1
  <2> QED
    BY <1>3, <2>2, <2>3, EdgesOf
<1>5. \A k \in Nat : k = len + 1 => EdgesAfter(f, k)' = 0
  <2>1. \A k \in Nat : k = Len(updates'[f]) => Cardinality(EdgesIn(updates'[f], k)) = 0
    BY <1>2, EdgesType
  <2> QED
    BY <1>2, <1>3, <2>1
<1>6. \A k \in 0 .. len : k # 0 => k \in 1 .. len
  BY <1>1
<1>7. \A k \in 0 .. len : CountAt(f, k)' = CountAt(f, k)
  BY <1>2, <1>6 DEF CountAt
<1> SUFFICES ASSUME NEW i \in 0 .. len + 1, LastTaken(f, i)'
             PROVE  n = CountAt(f, i)' + EdgesAfter(f, i)' + 0
  BY <1>2 DEF Tallies
<1>8. \A j \in i + 1 .. len + 1 : updates'[f][j].count = None
  BY <1>2 DEF LastTaken
<1>9. CASE update.count # None
  <2>1. ~(len + 1 \in i + 1 .. len + 1)
    BY <1>2, <1>8, <1>9
  <2>2. i = len + 1
    BY <1>1, <2>1
  <2>3. CountAt(f, i)' = update.count
    BY <1>1, <1>2, <2>2 DEF CountAt
  <2>4. EdgesAfter(f, i)' = 0
    BY <1>1, <1>5, <2>2
  <2> QED
    BY <1>9, <2>3, <2>4
<1>10. CASE update.count = None
  <2>1. i \in 0 .. len
    <3>1. i # len + 1
      BY <1>1, <1>2, <1>10 DEF LastTaken
    <3> QED
      BY <1>1, <3>1
  <2>2. LastTaken(f, i)
    <3>1. i = 0 \/ updates[f][i].count # None
      BY <1>2, <1>6, <2>1 DEF LastTaken
    <3>2. \A j \in i + 1 .. len : j \in i + 1 .. len + 1 /\ j \in 1 .. len
      BY <1>1, <2>1
    <3>3. \A j \in i + 1 .. len : updates[f][j].count = None
      BY <1>2, <1>8, <3>2
    <3> QED
      BY <3>1, <3>3 DEF LastTaken
  <2>3. n = CountAt(f, i) + EdgesAfter(f, i) + Number(edge)
    BY <1>10, <2>1, <2>2 DEF Tallies
  <2>4. CountAt(f, i) \in Int
    <3>1. i # 0 => updates[f][i] \in Update(f)
      BY <1>1, <1>6, <2>1, ElementOfSeq
    <3>2. i # 0 => updates[f][i].count \in Int
      BY <2>2, <3>1 DEF LastTaken, Update
    <3> QED
      BY <3>2 DEF CountAt
  <2>5. EdgesAfter(f, i) \in Nat /\ Number(edge) \in {0, 1}
    BY <2>1, EdgesOf DEF Number
  <2> QED
    BY <1>4, <1>7, <2>1, <2>3, <2>4, <2>5
<1> QED
  BY <1>9, <1>10

(* A tally depends on the updates alone.                                    *)
LEMMA TallyKept ==
    ASSUME NEW f, updates'[f] = updates[f]
    PROVE  /\ \A n, d : Tallies(f, n, d)' = Tallies(f, n, d)
           /\ LastOn(f)' = LastOn(f)
           /\ \A k : EdgesAfter(f, k)' = EdgesAfter(f, k)
<1>1. \A k : EdgesAfter(f, k)' = EdgesAfter(f, k)
  BY DEF EdgesAfter
<1>2. \A k : CountAt(f, k)' = CountAt(f, k) /\ LastTaken(f, k)' = LastTaken(f, k)
  BY DEF CountAt, LastTaken
<1> QED
  BY <1>1, <1>2 DEF Tallies, LastOn

(* One more to count is one more to add.                                    *)
LEMMA TallyShift ==
    ASSUME EngineInvariant, NEW f \in Functions, NEW n \in Int, NEW d \in Int, Tallies(f, n, 0)
    PROVE  Tallies(f, n + d, d)
<1> SUFFICES ASSUME NEW i \in 0 .. Len(updates[f]), LastTaken(f, i)
             PROVE  n + d = CountAt(f, i) + EdgesAfter(f, i) + d
  BY DEF Tallies
<1>1. n = CountAt(f, i) + EdgesAfter(f, i) + 0
  BY DEF Tallies
<1>2. updates[f] \in Seq(Update(f)) /\ Len(updates[f]) \in Nat
  BY UpdatesTyped
<1>3. CountAt(f, i) \in Int
  <2>1. i # 0 => updates[f][i] \in Update(f)
    BY <1>2, ElementOfSeq
  <2>2. i # 0 => updates[f][i].count \in Int
    BY <2>1 DEF LastTaken, Update
  <2> QED
    BY <2>2 DEF CountAt
<1>4. EdgesAfter(f, i) \in Nat
  BY <1>2, EdgesOf
<1> QED
  BY <1>1, <1>3, <1>4

(* The part about the functions that nothing decorates is kept by every     *)
(* step but a restart.                                                      *)
LEMMA AheadStep ==
    ASSUME EngineInvariant, EngineInvariant', [AnyStep]_vars,
           NEW f \in Counting, Undecorated(f), AheadAt(f), ~StartsAgain(f)
    PROVE  AheadAt(f)'
<1>0. f \in Functions
  BY CountingFunction
<1>1. /\ mem[f] \in Memory(Type[f]) /\ mem'[f] \in Memory(Type[f])
      /\ updates[f] \in Seq(Update(f))
      /\ now \in Nat
  BY <1>0 DEF EngineInvariant, TypeOK
<1>2. /\ EdgeCount(f) = CountOf(Type[f], mem[f]) /\ EdgeCount(f)' = CountOf(Type[f], mem'[f])
      /\ EdgeCount(f) \in Int /\ mem[f].state \in BOOLEAN /\ mem'[f].state \in BOOLEAN
  BY <1>1, CountingFunction DEF EdgeCount, CountOf
<1>3. EdgesAfter(f, 0) = Cardinality(EdgesIn(updates[f], 0)) /\ EdgesAfter(f, 0) \in Nat
  BY <1>0, EdgesOf
<1>4. Owed(f) \in {0, 1} /\ LastOn(f) \in BOOLEAN
  <2>1. updates[f] # << >> => Last(updates[f]) \in Update(f)
    BY <1>1, EmptySeq, LenProperties DEF Last
  <2>2. updates[f] # << >> => Last(updates[f]).mem \in Memory(Type[f])
    BY <2>1 DEF Update
  <2> QED
    BY <2>2, CountingFunction DEF LastOn, Owed, Number
<1>5. updates'[f] = updates[f] => EdgesAfter(f, 0)' = EdgesAfter(f, 0) /\ LastOn(f)' = LastOn(f)
  BY TallyKept
<1>6. CASE Keeps(f)
  <2>1. mem'[f] = mem[f] /\ updates'[f] = updates[f] /\ Due(f)' = Due(f)
    BY <1>0, <1>6, OutlookStep DEF Keeps
  <2>2. EdgeCount(f)' = EdgeCount(f) /\ EdgesAfter(f, 0)' = EdgesAfter(f, 0) /\ Owed(f)' = Owed(f)
    BY <1>2, <1>5, <2>1 DEF Owed
  <2> QED
    BY <2>1, <2>2 DEF AheadAt
<1>7. CASE Begins(f)
  <2>1. PICK m \in Messages :
           /\ m.fn = f
           /\ mem'[f] = Handle(Type[f], mem[f], m, now).begin
           /\ Due(f)' = Handle(Type[f], mem[f], m, now).writes
    BY <1>7, OutlookBegins
  <2> DEFINE r == Handle(Type[f], mem[f], m, now)
  <2>2. \A x \in Stages(r) :
           /\ x.state = r.begin.state
           /\ CountOf(Type[f], x) = CountOf(Type[f], mem[f]) + Number(r.begin.state /\ ~mem[f].state)
    <3>1. m.fn = f
      BY <2>1
    <3>2. \A s \in Memory(Type[f]), t \in Nat :
             \A x \in Stages(Handle(Type[f], s, m, t)) :
                /\ x.state = Handle(Type[f], s, m, t).begin.state
                /\ CountOf(Type[f], x) = CountOf(Type[f], s) +
                      Number(Handle(Type[f], s, m, t).begin.state /\ ~s.state)
      BY <3>1, HandleEdge
    <3> QED
      BY <1>1, <3>2
  <2> HIDE DEF r
  <2>3. mem'[f] = r.begin /\ Due(f)' = r.writes
    BY <2>1 DEF r
  <2>4. mem'[f] \in Stages(r) /\ \A i \in DOMAIN Due(f)' : Due(f)'[i].then \in Stages(r)
    BY <2>3 DEF Stages
  <2>5. EdgeCount(f)' = EdgeCount(f) + Number(mem'[f].state /\ ~mem[f].state)
    BY <1>2, <2>2, <2>3, <2>4
  <2>6. \A i \in DOMAIN Due(f)' : /\ Due(f)'[i].then.state = mem'[f].state
                                  /\ CountOf(Type[f], Due(f)'[i].then) = EdgeCount(f)'
    BY <1>2, <2>2, <2>3, <2>4
  <2>7. updates'[f] = updates[f]
    BY <1>7 DEF Begins
  <2>8. EdgesAfter(f, 0)' = EdgesAfter(f, 0) /\ Owed(f)' = Number(mem'[f].state /\ ~LastOn(f))
    BY <1>5, <2>7 DEF Owed
  <2>9. Owed(f)' <= Owed(f) + Number(mem'[f].state /\ ~mem[f].state)
    BY <1>2, <1>4, <2>8 DEF Owed, Number
  <2>10. EdgeCount(f)' >= EdgesAfter(f, 0)' + Owed(f)'
    <3>1. Number(mem'[f].state /\ ~mem[f].state) \in {0, 1} /\ Owed(f)' \in {0, 1}
      BY <2>8 DEF Number
    <3>2. EdgeCount(f) >= EdgesAfter(f, 0) + Owed(f)
      BY DEF AheadAt
    <3> QED
      BY <1>2, <1>3, <1>4, <2>5, <2>8, <2>9, <3>1, <3>2
  <2> QED
    BY <2>6, <2>10 DEF AheadAt
<1>8. CASE NextStage(f)
  <2>1. /\ Due(f) \in Seq(Writes(Memory(Type[f]))) /\ Due(f) # << >>
        /\ mem'[f] = Head(Due(f)).then /\ Due(f)' = Tail(Due(f))
        /\ updates'[f] = updates[f]
    BY <1>0, <1>8, CallTyped, OutlookStep DEF NextStage, Pending, Due
  <2>2. /\ Head(Due(f)) = Due(f)[1] /\ 1 \in DOMAIN Due(f)
        /\ \A i \in DOMAIN Due(f)' : i + 1 \in DOMAIN Due(f) /\ Due(f)'[i] = Due(f)[i + 1]
    BY <2>1, TailFields
  <2>3. mem'[f].state = mem[f].state /\ EdgeCount(f)' = EdgeCount(f)
    BY <1>2, <2>1, <2>2 DEF AheadAt
  <2>4. EdgesAfter(f, 0)' = EdgesAfter(f, 0) /\ Owed(f)' = Owed(f)
    BY <1>5, <2>1, <2>3 DEF Owed
  <2>5. \A i \in DOMAIN Due(f)' : /\ Due(f)'[i].then.state = mem'[f].state
                                  /\ CountOf(Type[f], Due(f)'[i].then) = EdgeCount(f)'
    BY <2>2, <2>3 DEF AheadAt
  <2> QED
    BY <2>3, <2>4, <2>5 DEF AheadAt
<1>9. CASE GivesUp(f) \/ Returns(f)
  <2>1. mem'[f] = mem[f] /\ updates'[f] = updates[f] /\ Due(f)' = << >>
    BY <1>0, <1>9, OutlookStep DEF GivesUp, Returns, Ends
  <2>2. EdgeCount(f)' = EdgeCount(f) /\ EdgesAfter(f, 0)' = EdgesAfter(f, 0) /\ Owed(f)' = Owed(f)
    BY <1>2, <1>5, <2>1 DEF Owed
  <2> QED
    BY <2>1, <2>2 DEF AheadAt
<1>10. CASE Announces(f)
  <2>1. mem'[f] = mem[f] /\ Due(f)' = << >>
    BY <1>0, <1>10, OutlookStep DEF Announces, Ends
  <2>2. PICK update \in Update(f) :
           updates'[f] = Append(updates[f], update) /\ update.mem = mem[f]
    BY <1>0, <1>10, AnnouncedTyped
  <2> DEFINE edge == mem[f].state /\ ~LastOn(f)
  <2>4. updates'[f] # << >> /\ Last(updates'[f]) = update
    BY <1>1, <2>2, AppendProperties DEF Last
  <2>5. LastOn(f)' <=> mem[f].state
    BY <2>2, <2>4 DEF LastOn
  <2>6. edge \in BOOLEAN /\ (edge <=> update.mem.state /\ ~(updates[f] # << >> /\ Last(updates[f]).mem.state))
    BY <2>2 DEF LastOn
  <2>7. Owed(f) = Number(edge)
    BY DEF Owed
  <2> HIDE DEF edge
  <2>8. EdgesAfter(f, 0)' = EdgesAfter(f, 0) + Number(edge)
    <3>1. 0 \in 0 .. Len(updates[f])
      BY <1>1, LenProperties
    <3>2. Cardinality(EdgesIn(Append(updates[f], update), 0))
             = Cardinality(EdgesIn(updates[f], 0)) + Number(edge)
      BY <1>1, <2>6, <3>1, EdgesGrow
    <3>3. EdgesAfter(f, 0)' = Cardinality(EdgesIn(updates'[f], 0))
      BY DEF EdgesAfter, EdgesIn
    <3> QED
      BY <1>3, <2>2, <3>2, <3>3
  <2>9. Owed(f)' = 0 /\ EdgeCount(f)' = EdgeCount(f)
    BY <1>2, <2>1, <2>5 DEF Owed, Number
  <2>10. EdgesAfter(f, 0)' = EdgesAfter(f, 0) + Owed(f)
    BY <2>7, <2>8
  <2> QED
    BY <1>2, <1>3, <1>4, <2>1, <2>9, <2>10 DEF AheadAt
<1> QED
  BY <1>0, <1>6, <1>7, <1>8, <1>9, <1>10, FunctionStep DEF StoresRow, LosesRow

(* The tally is kept as long as nothing fails.                              *)
LEMMA TallyStep ==
    ASSUME EngineInvariant, EngineInvariant', [AnyStep]_vars, faults' = 0,
           NEW f \in Counting, TallyAt(f), ~StartsAgain(f)
    PROVE  TallyAt(f)'
<1>0. f \in Functions
  BY CountingFunction
<1>1. /\ mem[f] \in Memory(Type[f]) /\ mem'[f] \in Memory(Type[f])
      /\ updates[f] \in Seq(Update(f)) /\ now \in Nat /\ faults' \in Nat
  BY <1>0 DEF EngineInvariant, TypeOK
<1>2. \A s \in Memory(Type[f]) : CountOf(Type[f], s) \in Int /\ s.state \in BOOLEAN
  BY CountingFunction
<1>3. LastOn(f) \in BOOLEAN
  <2>1. updates[f] # << >> => Last(updates[f]) \in Update(f)
    BY <1>1, EmptySeq, LenProperties DEF Last
  <2>2. updates[f] # << >> => Last(updates[f]).mem \in Memory(Type[f])
    BY <2>1 DEF Update
  <2> QED
    BY <1>2, <2>2 DEF LastOn
<1>4. updates'[f] = updates[f] =>
         /\ \A n, d : Tallies(f, n, d)' = Tallies(f, n, d)
         /\ LastOn(f)' = LastOn(f)
  BY TallyKept
<1>5. CASE Keeps(f)
  <2>1. /\ Outlook(f)' = Outlook(f) /\ updates'[f] = updates[f]
        /\ (Busy(f)' <=> Busy(f))
        /\ Busy(f) => Call(f)' = Call(f) /\ CallMsg(f)' = CallMsg(f)
    BY <1>0, <1>5, OutlookStep DEF Keeps
  <2> QED
    BY <1>4, <2>1 DEF TallyAt, Taken
<1>6. CASE Begins(f)
  <2>1. PICK m \in Messages :
           /\ Call(f)'.outcome = Handle(Type[f], mem[f], m, now).outcome
           /\ CallMsg(f)' = m
           /\ Outlook(f)' = FinalMemory(Handle(Type[f], mem[f], m, now))
    BY <1>6, OutlookBegins
  <2> DEFINE r == Handle(Type[f], mem[f], m, now)
             n0 == CountOf(Type[f], mem[f])
             n == CountOf(Type[f], FinalMemory(r))
  <2>2. CountsTo(r, mem[f], n, n0, CountTaken(Type[f], m))
    BY <1>1, HandleCounts
  <2>3. Taken(f)' = CountTaken(Type[f], m)
    BY <2>1 DEF Taken
  <2>4. updates'[f] = updates[f] /\ ~Busy(f) /\ Busy(f)'
    BY <1>6 DEF Begins
  <2>5. Outlook(f) = mem[f]
    BY <2>4 DEF Outlook, Due, FinalOf
  <2>6. Tallies(f, n0, 0) /\ (mem[f].state <=> LastOn(f))
    BY <2>4, <2>5 DEF TallyAt
  <2> HIDE DEF r, n, n0
  <2>7. Call(f)'.outcome = r.outcome /\ Outlook(f)' = FinalMemory(r)
        /\ CountOf(Type[f], Outlook(f)') = n
    BY <2>1 DEF r, n
  <2>8. n0 \in Int
    BY <1>1, <1>2 DEF n0
  <2>9. r.outcome \in Outcomes
    <3>1. m \in Message /\ Type[f] \in FunctionTypeNames
      BY <1>0, EngineAssumption
    <3>2. r \in Runs(Memory(Type[f]))
      BY <1>1, <3>1, HandleTyped DEF r
    <3> QED
      BY <3>2 DEF Runs
  <2>11. \A d \in Int : Tallies(f, n0 + d, d)
    BY <1>0, <2>6, <2>8, TallyShift
  <2>12. r.outcome # "changed" => Tallies(f, n, 0) /\ (Outlook(f)'.state <=> LastOn(f))
    <3>1. r.outcome # "changed" => FinalMemory(r).state = mem[f].state /\ n = n0
      BY <2>2, <2>9 DEF CountsTo, Outcomes
    <3> QED
      BY <2>6, <2>7, <3>1
  <2>13. r.outcome # "rejected" =>
            IF Taken(f)' # None THEN n = Taken(f)'
            ELSE Tallies(f, n, Number(Outlook(f)'.state /\ ~LastOn(f)))
    <3>1. r.outcome # "rejected" =>
             n = IF Taken(f)' # None THEN Taken(f)' ELSE n0 + Number(FinalMemory(r).state /\ ~mem[f].state)
      BY <2>2, <2>3 DEF CountsTo
    <3>2. Number(FinalMemory(r).state /\ ~mem[f].state) = Number(Outlook(f)'.state /\ ~LastOn(f))
      BY <2>6, <2>7 DEF Number
    <3>3. Number(Outlook(f)'.state /\ ~LastOn(f)) \in Int
      BY DEF Number
    <3> QED
      BY <2>11, <3>1, <3>2, <3>3
  <2> QED
    BY <1>4, <2>4, <2>7, <2>12, <2>13 DEF TallyAt
<1>7. CASE NextStage(f)
  <2>1. /\ Outlook(f)' = Outlook(f) /\ updates'[f] = updates[f] /\ Busy(f) /\ Busy(f)'
        /\ Call(f)'.outcome = Call(f).outcome /\ CallMsg(f)' = CallMsg(f)
    BY <1>0, <1>7, OutlookStep DEF NextStage
  <2> QED
    BY <1>4, <2>1 DEF TallyAt, Taken
<1>8. CASE GivesUp(f)
  BY <1>1, <1>8 DEF GivesUp
<1>9. CASE Returns(f)
  <2>1. Outlook(f)' = Outlook(f) /\ updates'[f] = updates[f] /\ Busy(f) /\ ~Busy(f)'
    BY <1>0, <1>9, OutlookStep DEF Returns, Ends
  <2>2. Call(f).outcome # "changed"
    BY <1>1, <1>9 DEF Returns
  <2> QED
    BY <1>4, <2>1, <2>2 DEF TallyAt
<1>10. CASE Announces(f)
  <2>1. Outlook(f)' = mem[f] /\ Outlook(f) = mem[f] /\ Busy(f) /\ ~Busy(f)'
    BY <1>0, <1>10, OutlookStep DEF Announces, Ends
  <2>2. PICK update \in Update(f) :
           /\ updates'[f] = Append(updates[f], update)
           /\ update.mem = mem[f] /\ update.count = Taken(f)
    BY <1>0, <1>10, AnnouncedTyped DEF Taken
  <2> DEFINE edge == mem[f].state /\ ~LastOn(f)
             n == CountOf(Type[f], mem[f])
  <2>3. updates'[f] # << >> /\ Last(updates'[f]) = update
    BY <1>1, <2>2, AppendProperties DEF Last
  <2>4. LastOn(f)' <=> mem[f].state
    BY <2>2, <2>3 DEF LastOn
  <2>5. n \in Int /\ edge \in BOOLEAN
    BY <1>1, <1>2
  <2>6. IF update.count # None THEN n = update.count ELSE Tallies(f, n, Number(edge))
    <3>1. Call(f).outcome # "rejected"
      BY <1>10 DEF Announces
    <3> QED
      BY <2>1, <2>2, <3>1 DEF TallyAt
  <2>7. edge <=> update.mem.state /\ ~LastOn(f)
    BY <2>2
  <2> HIDE DEF edge, n
  <2>8. \A k \in Int : k = n => Tallies(f, k, 0)'
    BY <1>0, <2>2, <2>5, <2>6, <2>7, TallyGrows
  <2>9. CountOf(Type[f], Outlook(f)') = n
    BY <2>1 DEF n
  <2>10. Tallies(f, CountOf(Type[f], Outlook(f)), 0)'
    BY <2>5, <2>8, <2>9
  <2> QED
    BY <2>1, <2>4, <2>10 DEF TallyAt
<1> QED
  BY <1>0, <1>5, <1>6, <1>7, <1>8, <1>9, <1>10, FunctionStep DEF StoresRow, LosesRow

(* Every edge is counted, and counted once.                                 *)
THEOREM CountsEveryEdgeHolds == Spec => []CountsEveryEdge
<1>1. Init => EdgeInvariant
  <2> SUFFICES ASSUME Init, NEW f \in Counting PROVE EdgeAt(f)
    BY DEF EdgeInvariant
  <2>0. EngineInvariant
    BY EngineInit
  <2>1. f \in Functions /\ (Type[f] = "counter" \/ Type[f] = "digitalinput")
    BY CountingFunction
  <2>2. mem[f] = New(Type[f], 0) /\ updates[f] = << >> /\ ~Busy(f)
    BY <2>1 DEF Init, Busy, IdleFunction, Handling
  <2>3. ~mem[f].state /\ EdgeCount(f) = 0 /\ CountOf(Type[f], mem[f]) = 0
    <3>1. CASE Type[f] = "counter"
      BY <2>2, <3>1 DEF New, CounterNew, EdgeCount, CountOf
    <3>2. CASE Type[f] = "digitalinput"
      <4>1. mem[f] = DigitalInputNew(0)
        BY <2>2, <3>2 DEF New
      <4>2. ~DigitalInputNew(0).state /\ DigitalInputNew(0).counter = 0
        BY DEF DigitalInputNew
      <4> QED
        BY <3>2, <4>1, <4>2 DEF EdgeCount, CountOf
    <3> QED
      BY <2>1, <3>1, <3>2
  <2>4. EdgesAfter(f, 0) = 0
    <3>1. EdgesIn(updates[f], 0) = {}
      BY <2>2 DEF EdgesIn
    <3> QED
      BY <2>0, <2>1, <3>1, EdgesOf, FS_EmptySet
  <2>5. Due(f) = << >> /\ ~LastOn(f) /\ Owed(f) = 0 /\ Outlook(f) = mem[f]
    BY <2>2, <2>3 DEF Due, LastOn, Owed, Number, Outlook, FinalOf
  <2>6. Tallies(f, 0, 0)
    <3>1. 0 .. Len(updates[f]) = {0}
      BY <2>2
    <3> QED
      BY <2>4, <3>1 DEF Tallies, CountAt
  <2>7. AheadAt(f)
    BY <2>3, <2>4, <2>5 DEF AheadAt
  <2>8. TallyAt(f)
    BY <2>2, <2>3, <2>5, <2>6 DEF TallyAt
  <2> QED
    BY <2>7, <2>8 DEF EdgeAt
<1>2. EdgeInvariant /\ EngineInvariant /\ [AnyStep]_vars => EdgeInvariant'
  <2> SUFFICES ASSUME EdgeInvariant, EngineInvariant, [AnyStep]_vars, restarts' = 0,
                      NEW f \in Counting
               PROVE  EdgeAt(f)'
    BY DEF EdgeInvariant
  <2>1. /\ restarts \in Nat /\ restarts' >= restarts
        /\ faults \in Nat /\ faults' >= faults
    BY Forward DEF EngineInvariant, TypeOK
  <2>2. EdgeAt(f) /\ ~StartsAgain(f)
    BY <2>1 DEF EdgeInvariant, StartsAgain
  <2>3. EngineInvariant'
    BY EngineStep
  <2>4. Undecorated(f) => AheadAt(f)'
    BY <2>2, <2>3, AheadStep DEF EdgeAt
  <2>5. faults' = 0 => TallyAt(f)'
    <3>1. faults' = 0 => faults = 0 
      BY <2>1
    <3> QED
      BY <2>2, <2>3, <3>1, TallyStep DEF EdgeAt
  <2>6. Undecorated(f)' <=> Undecorated(f)
    BY DEF Undecorated
  <2> QED
    BY <2>4, <2>5, <2>6 DEF EdgeAt
<1>3. EdgeInvariant /\ EngineInvariant => CountsEveryEdge
  <2> SUFFICES ASSUME EdgeInvariant, EngineInvariant, restarts = 0,
                      NEW f \in Counting, IdleFunction(f)
               PROVE  /\ faults = 0 =>
                            \A i \in 0 .. Len(updates[f]) :
                               LastTaken(f, i) => EdgeCount(f) = CountAt(f, i) + EdgesAfter(f, i)
                      /\ Undecorated(f) => EdgeCount(f) >= EdgesAfter(f, 0)
    BY DEF CountsEveryEdge, Counting
  <2>1. f \in Functions
    BY CountingFunction
  <2>2. mem[f] \in Memory(Type[f]) /\ updates[f] \in Seq(Update(f)) /\ Len(updates[f]) \in Nat
    BY <2>1, UpdatesTyped DEF EngineInvariant, TypeOK
  <2>3. EdgeCount(f) = CountOf(Type[f], mem[f]) /\ EdgeCount(f) \in Int
    BY <2>2, CountingFunction DEF EdgeCount, CountOf
  <2>4. EdgeAt(f) /\ ~Busy(f)
    BY DEF EdgeInvariant, Busy
  <2>5. EdgesAfter(f, 0) \in Nat /\ Owed(f) \in {0, 1}
    BY <2>1, EdgesOf DEF Owed, Number
  <2>6. Undecorated(f) => EdgeCount(f) >= EdgesAfter(f, 0)
    <3>1. Undecorated(f) => EdgeCount(f) >= EdgesAfter(f, 0) + Owed(f)
      BY <2>4 DEF EdgeAt, AheadAt
    <3> QED
      BY <2>3, <2>5, <3>1
  <2>7. Outlook(f) = mem[f]
    BY <2>4 DEF Outlook, Due, FinalOf
  <2>8. faults = 0 => Tallies(f, EdgeCount(f), 0)
    BY <2>3, <2>4, <2>7 DEF EdgeAt, TallyAt
  <2>9. ASSUME faults = 0, NEW i \in 0 .. Len(updates[f]), LastTaken(f, i)
        PROVE  EdgeCount(f) = CountAt(f, i) + EdgesAfter(f, i)
    <3>1. EdgeCount(f) = CountAt(f, i) + EdgesAfter(f, i) + 0
      BY <2>8, <2>9 DEF Tallies
    <3>2. EdgesAfter(f, i) \in Nat
      BY <2>1, <2>2, EdgesOf
    <3>3. i # 0 => updates[f][i] \in Update(f)
      BY <2>2, ElementOfSeq
    <3>4. CountAt(f, i) \in Int
      BY <2>9, <3>3 DEF CountAt, LastTaken, Update
    <3> QED
      BY <3>1, <3>2, <3>4
  <2> QED
    BY <2>6, <2>9
<1> QED
  BY <1>1, <1>2, <1>3, EngineCorrect, PTL DEF AnyStep, Spec
-----------------------------------------------------------------------------
(* The drift of a building: the calls that have ended without an update     *)
(* are those of the messages delivered, less the updates, less the messages *)
(* in the workers' hands.                                                   *)
AtWork == {w \in Workers : pc[w] # "idle"}

(* The messages that are done with and were not announced.                  *)
Spare(f) == deliveries - Len(updates[f]) - Cardinality(AtWork)

(* The memory a call under way has started from. *)
Entry(f) == IF Busy(f) THEN Call(f).entry ELSE mem[f]

(* Two memories differ by at most what n messages below the threshold can   *)
(* add up to.                                                               *)
Near(s, t, n) == Abs(s.power - t.power) <= 9 * n /\ Abs(s.energy - t.energy) <= 9 * n

(* The memory a call started from has drifted by at most the messages not   *)
(* announced.                                                               *)
DriftAt(f) ==
    /\ Near(Entry(f), AnnouncedBuilding(f), Spare(f))
    /\ Busy(f) /\ Call(f).outcome # "changed" => Near(Outlook(f), Entry(f), 1)

(* As long as nothing fails and the process lives this is true of every     *)
(* building.                                                                *)
DriftInvariant ==
    /\ IsFiniteSet(AtWork)
    /\ Undisturbed => \A f \in OfType("building") : DriftAt(f)

(* An unlock takes one worker from those at work. *)
LEMMA UnlockSpares ==
    ASSUME EngineInvariant, IsFiniteSet(AtWork), NEW w \in Workers, Handling(w), Unlock(w)
    PROVE  /\ IsFiniteSet(AtWork)'
           /\ Cardinality(AtWork)' = Cardinality(AtWork) - 1
<1>1. pc' = [pc EXCEPT ![w] = "idle"] /\ DOMAIN pc = Workers
  BY DEF Unlock, EngineInvariant, TypeOK
<1>2. AtWork' = AtWork \ {w}
  BY <1>1 DEF AtWork
<1>3. w \in AtWork
  BY DEF AtWork, Handling
<1> QED
  BY <1>2, <1>3, FS_RemoveElement

(* A function is not left by its worker in any other way than these.        *)
LEMMA StaysBusy ==
    ASSUME NEW f, Busy(f),
           \A v \in Workers : Handling(v) => Handling(v)' /\ msg'[v] = msg[v]
    PROVE  Busy(f)'
  BY DEF Busy, IdleFunction, Fn

(* There are finitely many workers at work, as a step adds at most one.     *)
LEMMA AtWorkFinite ==
    ASSUME EngineInvariant, IsFiniteSet(AtWork), [AnyStep]_vars
    PROVE  IsFiniteSet(AtWork)'
<1>1. \E w : AtWork' \subseteq AtWork \cup {w}
  <2>0. DOMAIN pc = Workers
    BY DEF EngineInvariant, TypeOK
  <2>1. CASE pc' = pc \/ Restart
    BY <2>1 DEF AtWork, Restart
  <2>2. ASSUME NEW w \in Workers, NEW stage, pc' = [pc EXCEPT ![w] = stage]
        PROVE  AtWork' \subseteq AtWork \cup {w}
    BY <2>0, <2>2 DEF AtWork
  <2>3. pc' = pc \/ Restart \/ \E w \in Workers : \E stage : pc' = [pc EXCEPT ![w] = stage]
    BY DEF AnyStep, Next, vars, Tick, process, Receive, Lock, Ignore, StartHandle, Proceed, Store,
           StoreRow, StoreFails, ReturnError, ReturnSilently, Publish, PublishFails, Unlock
  <2> QED
    BY <2>1, <2>2, <2>3
<1>2. PICK w : AtWork' \subseteq AtWork \cup {w}
  BY <1>1
<1>3. IsFiniteSet(AtWork \cup {w})
  BY FS_AddElement
<1> QED
  BY <1>2, <1>3, FS_Subset

(* The messages not announced never get fewer, and one more when a call     *)
(* ends in silence.                                                         *)
SpareGrows(f) ==
    /\ Spare(f)' >= Spare(f)
    /\ Busy(f) /\ ~Busy(f)' /\ updates'[f] = updates[f] =>
          Spare(f)' >= Spare(f) + 1 \/ restarts' > 0

(* The difference never shrinks, and grows when a call ends unannounced.    *)
LEMMA SpareStep ==
    ASSUME EngineInvariant, EngineInvariant', IsFiniteSet(AtWork), [AnyStep]_vars,
           NEW f \in Functions
    PROVE  SpareGrows(f)
<1> DEFINE n == Len(updates[f])
           k == Cardinality(AtWork)
<1>1. /\ deliveries \in Nat /\ deliveries' \in Nat /\ restarts \in Nat /\ restarts' \in Nat
      /\ n \in Nat /\ n' \in Nat /\ k \in Nat
  <2>1. updates[f] \in Seq(Update(f)) /\ updates'[f] \in Seq(Update(f))
    BY DEF EngineInvariant, TypeOK
  <2> QED
    BY <2>1, LenProperties, FS_CardinalityType DEF EngineInvariant, TypeOK
<1>2. DOMAIN pc = Workers /\ DOMAIN msg = Workers /\ DOMAIN updates = Functions
      /\ \A w \in Workers : Handling(w) => w \in AtWork
  BY DEF EngineInvariant, TypeOK, AtWork, Handling
<1>3. Spare(f) = deliveries - n - k /\ Spare(f)' = deliveries' - n' - k'
  BY DEF Spare
<1>4. CASE Tick \/ UNCHANGED vars
  <2>1. UNCHANGED << pc, msg, deliveries, updates >>
    BY <1>4 DEF Tick, process, vars
  <2>2. AtWork' = AtWork /\ n' = n
    BY <2>1 DEF AtWork
  <2>3. Busy(f) => Busy(f)'
    BY <2>1, StaysBusy DEF Handling
  <2> QED
    BY <1>1, <1>3, <2>1, <2>2, <2>3 DEF SpareGrows
<1>5. CASE Restart
  <2>1. AtWork' = {} /\ n' = n /\ deliveries' = deliveries /\ restarts' > 0
    BY <1>1, <1>5 DEF Restart, AtWork
  <2>2. IsFiniteSet(AtWork') /\ k' = 0
    BY <2>1, FS_EmptySet
  <2> QED
    BY <1>1, <1>3, <2>1, <2>2 DEF SpareGrows
<1>6. ASSUME NEW w \in Workers, Receive(w) PROVE SpareGrows(f)
  <2>1. /\ pc[w] = "idle" /\ pc' = [pc EXCEPT ![w] = "waiting"]
        /\ deliveries' = deliveries + 1 /\ n' = n
        /\ \A v \in Workers \ {w} : msg'[v] = msg[v]
    BY <1>2, <1>6 DEF Receive
  <2>2. AtWork' = AtWork \cup {w} /\ w \notin AtWork
    BY <1>2, <2>1 DEF AtWork
  <2>3. IsFiniteSet(AtWork') /\ k' = k + 1
    BY <2>2, FS_AddElement
  <2>4. Busy(f) => Busy(f)'
    BY <1>2, <2>1, StaysBusy DEF Handling
  <2>5. n' = n /\ deliveries' = deliveries + 1
    BY <2>1
  <2> HIDE DEF n, k
  <2>6. Spare(f)' = Spare(f)
    BY <1>1, <1>3, <2>3, <2>5
  <2>7. Spare(f) \in Int
    BY <1>1, <1>3
  <2> QED
    BY <2>3, <2>4, <2>6, <2>7 DEF SpareGrows
<1>7. ASSUME NEW w \in Workers, Ignore(w) PROVE SpareGrows(f)
  <2>1. /\ pc[w] = "waiting" /\ pc' = [pc EXCEPT ![w] = "idle"]
        /\ deliveries' = deliveries /\ n' = n
        /\ \A v \in Workers \ {w} : msg'[v] = msg[v]
    BY <1>2, <1>7 DEF Ignore
  <2>2. AtWork' = AtWork \ {w} /\ w \in AtWork
    BY <1>2, <2>1 DEF AtWork
  <2>3. IsFiniteSet(AtWork') /\ k' = k - 1
    BY <2>2, FS_RemoveElement
  <2>4. Busy(f) => Busy(f)'
    BY <1>2, <2>1, StaysBusy DEF Handling
  <2> QED
    BY <1>1, <1>3, <2>1, <2>3, <2>4 DEF SpareGrows
<1>8. ASSUME NEW w \in Workers, StartHandle(w) PROVE SpareGrows(f)
  <2>1. /\ pc[w] = "waiting" /\ pc' = [pc EXCEPT ![w] = "handling"]
        /\ deliveries' = deliveries /\ n' = n /\ msg' = msg
    BY <1>8 DEF StartHandle
  <2>2. AtWork' = AtWork
    BY <1>2, <2>1 DEF AtWork
  <2>3. Busy(f) => Busy(f)'
    BY <1>2, <2>1, StaysBusy DEF Handling
  <2> QED
    BY <1>1, <1>3, <2>1, <2>2, <2>3 DEF SpareGrows
<1>9. ASSUME NEW w \in Workers, Handling(w), UNCHANGED << pc, msg, deliveries, updates >>
      PROVE  SpareGrows(f)
  <2>1. AtWork' = AtWork /\ n' = n
    BY <1>9 DEF AtWork
  <2>2. Busy(f) => Busy(f)'
    BY <1>9, StaysBusy DEF Handling
  <2> QED
    BY <1>1, <1>3, <1>9, <2>1, <2>2 DEF SpareGrows
<1>10. ASSUME NEW w \in Workers, Handling(w), Unlock(w), UNCHANGED deliveries,
              n' = n \/ (n' = n + 1 /\ updates'[f] # updates[f])
       PROVE  SpareGrows(f)
  <2>1. IsFiniteSet(AtWork)' /\ k' = k - 1
    BY <1>10, UnlockSpares
  <2> QED
    BY <1>1, <1>3, <1>10, <2>1 DEF SpareGrows
<1>11. ASSUME NEW w \in Workers, Proceed(w) \/ StoreRow(w) PROVE SpareGrows(f)
  <2>1. Handling(w) /\ deliveries' = deliveries
    BY <1>11 DEF Proceed, Store, StoreRow, StoreFails, NextWrite, ReturnError, ReturnSilently, Publish,
                 PublishFails, Succeeded, Handled
  <2>2. CASE UNCHANGED << pc, msg, updates >>
    BY <1>9, <2>1, <2>2
  <2>3. CASE ~UNCHANGED << pc, msg, updates >>
    <3>1. Unlock(w) /\ (updates' = updates \/ Publish(w))
      BY <1>11, <2>3 DEF Proceed, Store, StoreRow, StoreFails, ReturnError, ReturnSilently, Publish,
                         PublishFails
    <3>2. updates'[f] = updates[f] \/ Len(updates'[f]) = n + 1
      BY <1>2, UpdatesStep
    <3>3. n' = n \/ (n' = n + 1 /\ updates'[f] # updates[f])
      BY <1>1, <3>2
    <3> HIDE DEF n
    <3> QED
      BY <1>10, <2>1, <3>1, <3>3
  <2> QED
    BY <2>2, <2>3
<1> QED
  BY <1>4, <1>5, <1>6, <1>7, <1>8, <1>11 DEF AnyStep, Next, Lock

(* Without a change a building moves by less than a thousandth.             *)
LEMMA BuildingStill ==
    ASSUME NEW s \in BuildingMem, NEW m \in Message, BuildingHandle(s, m).outcome # "changed"
    PROVE  Near(FinalMemory(BuildingHandle(s, m)), s, 1)
<1> DEFINE v    == m.value[SensorValue]
           used == [power  |-> IF m.obj = "power" THEN v ELSE s.power,
                    energy |-> IF m.obj = "energy" THEN v ELSE s.energy]
<1>0. s.power \in Int /\ s.energy \in Int
  BY DEF BuildingMem
<1>1. Near(s, s, 1)
  BY <1>0 DEF Near, Abs
<1>2. CASE m.obj \notin {"power", "energy"} \/ v = None
  <2>1. BuildingHandle(s, m) \in {Rejected(s), Unchanged(s)}
    BY <1>2 DEF BuildingHandle
  <2> QED
    BY <1>1, <2>1, EmptyRunsFinal
<1>3. CASE ~(m.obj \notin {"power", "energy"} \/ v = None)
  <2>1. v \in Int
    BY <1>3, MessageTyped
  <2>2. used.power \in Int /\ used.energy \in Int
    BY <1>0, <2>1
  <2>3. CASE HasChanged(s.power, used.power) \/ HasChanged(s.energy, used.energy)
    BY <1>3, <2>3, RunOutcome DEF BuildingHandle
  <2>4. CASE ~(HasChanged(s.power, used.power) \/ HasChanged(s.energy, used.energy))
    <3>1. BuildingHandle(s, m) = Unchanged(used)
      BY <1>3, <2>4 DEF BuildingHandle
    <3> HIDE DEF used
    <3>2. Near(used, s, 1)
      BY <1>0, <2>2, <2>4 DEF Near, HasChanged, Abs
    <3> QED
      BY <3>1, <3>2, EmptyRunsFinal
  <2> QED
    BY <2>3, <2>4
<1> QED
  BY <1>2, <1>3

(* Drift adds up.                                                           *)
LEMMA NearFurther ==
    ASSUME NEW s \in BuildingMem, NEW t \in BuildingMem, NEW n \in Int, Near(s, t, n),
           NEW k \in Int
    PROVE  /\ n >= 0
           /\ k >= n => Near(s, t, k)
           /\ \A u \in BuildingMem : Near(u, s, 1) => Near(u, t, n + 1)
           /\ k >= 0 => Near(s, s, k)
<1>1. \A u \in BuildingMem : u.power \in Int /\ u.energy \in Int
  BY DEF BuildingMem
<1>2. n >= 0
  BY <1>1 DEF Near, Abs
<1>3. k >= n => Near(s, t, k)
  BY <1>1 DEF Near, Abs
<1>4. \A u \in BuildingMem : Near(u, s, 1) => Near(u, t, n + 1)
  <2> TAKE u \in BuildingMem
  <2> DEFINE a == u.power
             b == s.power
             c == t.power
             d == u.energy
             e == s.energy
             g == t.energy
  <2>1. a \in Int /\ b \in Int /\ c \in Int /\ d \in Int /\ e \in Int /\ g \in Int
    BY <1>1
  <2> HIDE DEF a, b, c, d, e, g
  <2>2. Abs(a - b) <= 9 /\ Abs(b - c) <= 9 * n => Abs(a - c) <= 9 * (n + 1)
    BY <2>1 DEF Abs
  <2>3. Abs(d - e) <= 9 /\ Abs(e - g) <= 9 * n => Abs(d - g) <= 9 * (n + 1)
    BY <2>1 DEF Abs
  <2> QED
    BY <2>2, <2>3 DEF Near, a, b, c, d, e, g
<1>5. k >= 0 => Near(s, s, k)
  BY <1>1 DEF Near, Abs
<1> QED
  BY <1>2, <1>3, <1>4, <1>5

(* It is kept by every step without a fault or a restart.                   *)
LEMMA DriftStep ==
    ASSUME EngineInvariant, EngineInvariant', IsFiniteSet(AtWork), IsFiniteSet(AtWork)',
           [AnyStep]_vars, faults' = 0, restarts' = 0, NEW f \in OfType("building"), DriftAt(f)
    PROVE  DriftAt(f)'
<1>0. f \in Functions /\ Type[f] = "building"
  BY DEF OfType
<1>1. /\ mem[f] \in BuildingMem /\ mem'[f] \in BuildingMem
      /\ now \in Nat
      /\ updates[f] \in Seq(Update(f)) /\ updates'[f] \in Seq(Update(f))
  BY <1>0 DEF EngineInvariant, TypeOK, Memory
<1>2. /\ Entry(f) \in BuildingMem /\ AnnouncedBuilding(f) \in BuildingMem
      /\ AnnouncedBuilding(f)' \in BuildingMem
  <2>1. Entry(f) \in BuildingMem
    BY <1>0, <1>1, CallTyped DEF Entry, Pending, Memory
  <2>2. \A u \in Seq(Update(f)) : u # << >> => Last(u) \in Update(f)
    BY EmptySeq, LenProperties DEF Last
  <2>3. \A x \in Update(f) : x.mem \in BuildingMem
    BY <1>0 DEF Update, Memory
  <2>4. BuildingNew \in BuildingMem
    BY DEF BuildingNew, BuildingMem
  <2> QED
    BY <1>1, <2>1, <2>2, <2>3, <2>4 DEF AnnouncedBuilding
<1>3. Spare(f) \in Int /\ Spare(f)' \in Int
  <2>1. deliveries \in Nat /\ deliveries' \in Nat
    BY DEF EngineInvariant, TypeOK
  <2>2. Cardinality(AtWork) \in Nat /\ Cardinality(AtWork)' \in Nat
    BY FS_CardinalityType
  <2>3. Len(updates[f]) \in Nat /\ Len(updates'[f]) \in Nat
    BY <1>1, LenProperties
  <2> QED
    BY <2>1, <2>2, <2>3 DEF Spare
<1>4. SpareGrows(f)
  BY <1>0, SpareStep
<1>5. Near(Entry(f), AnnouncedBuilding(f), Spare(f))
  BY DEF DriftAt
<1>6. Spare(f) >= 0 /\ Spare(f)' >= Spare(f) /\ Spare(f)' >= 0
  BY <1>2, <1>3, <1>4, <1>5, NearFurther DEF SpareGrows
<1>7. Near(Entry(f), AnnouncedBuilding(f), Spare(f)')
  BY <1>2, <1>3, <1>5, <1>6, NearFurther
<1>8. updates'[f] = updates[f] => AnnouncedBuilding(f)' = AnnouncedBuilding(f)
  BY DEF AnnouncedBuilding
<1>9. CASE Keeps(f) \/ NextStage(f)
  <2>1. /\ Entry(f)' = Entry(f) /\ Outlook(f)' = Outlook(f) /\ updates'[f] = updates[f]
        /\ Busy(f)' => Busy(f) /\ Call(f)'.outcome = Call(f).outcome
    BY <1>0, <1>9, OutlookStep DEF Keeps, NextStage, Entry
  <2> QED
    BY <1>7, <1>8, <2>1 DEF DriftAt
<1>10. CASE Begins(f)
  <2>1. PICK m \in Messages :
           /\ Call(f)'.entry = mem[f]
           /\ Call(f)'.outcome = Handle(Type[f], mem[f], m, now).outcome
           /\ Outlook(f)' = FinalMemory(Handle(Type[f], mem[f], m, now))
    BY <1>10 DEF Begins, Outlook, Due, FinalMemory
  <2>2. Entry(f)' = mem[f] /\ Entry(f) = mem[f] /\ updates'[f] = updates[f]
    BY <1>10, <2>1 DEF Begins, Entry
  <2>3. Handle(Type[f], mem[f], m, now) = BuildingHandle(mem[f], m) /\ m \in Message
    BY <1>0, EngineAssumption DEF Handle
  <2>4. Call(f)'.outcome # "changed" => Near(Outlook(f)', mem[f], 1)
    BY <1>1, <2>1, <2>3, BuildingStill
  <2> QED
    BY <1>7, <1>8, <2>2, <2>4 DEF DriftAt
<1>11. CASE Returns(f)
  <2>1. /\ Entry(f)' = mem[f] /\ Outlook(f) = mem[f] /\ updates'[f] = updates[f]
        /\ Busy(f) /\ ~Busy(f)' /\ Call(f).outcome # "changed"
    BY <1>0, <1>11, OutlookStep DEF Returns, Ends, Entry
  <2>2. Near(mem[f], Entry(f), 1)
    BY <2>1 DEF DriftAt
  <2>3. Near(mem[f], AnnouncedBuilding(f), Spare(f) + 1)
    BY <1>1, <1>2, <1>3, <1>5, <2>2, NearFurther
  <2>4. Spare(f)' >= Spare(f) + 1
    BY <1>4, <2>1 DEF SpareGrows
  <2>5. Near(mem[f], AnnouncedBuilding(f), Spare(f)')
    BY <1>1, <1>2, <1>3, <2>3, <2>4, NearFurther
  <2> QED
    BY <1>8, <2>1, <2>5 DEF DriftAt
<1>12. CASE Announces(f)
  <2>1. Entry(f)' = mem[f] /\ ~Busy(f)'
    BY <1>12 DEF Announces, Ends, Entry
  <2>2. PICK update \in Update(f) :
           updates'[f] = Append(updates[f], update) /\ update.mem = mem[f]
    BY <1>0, <1>12, AnnouncedTyped
  <2>4. updates'[f] # << >> /\ Last(updates'[f]) = update
    BY <1>1, <2>2, AppendProperties DEF Last
  <2>5. AnnouncedBuilding(f)' = mem[f]
    BY <2>2, <2>4 DEF AnnouncedBuilding
  <2>6. Near(mem[f], mem[f], Spare(f)')
    BY <1>1, <1>3, <1>6 DEF Near, Abs, BuildingMem
  <2> QED
    BY <2>1, <2>5, <2>6 DEF DriftAt
<1> QED
  BY <1>0, <1>9, <1>10, <1>11, <1>12, FunctionStep DEF StoresRow, LosesRow, GivesUp, StartsAgain

(* A building drifts from what its subscribers know by less than a          *)
(* thousandth for every message that was delivered and not announced.       *)
THEOREM DriftBoundedHolds == Spec => []DriftBounded
<1>1. Init => DriftInvariant
  <2> SUFFICES ASSUME Init PROVE DriftInvariant
    OBVIOUS
  <2>1. AtWork = {}
    BY DEF Init, AtWork
  <2>2. IsFiniteSet(AtWork) /\ Cardinality(AtWork) = 0
    BY <2>1, FS_EmptySet
  <2>3. ASSUME NEW f \in OfType("building") PROVE DriftAt(f)
    <3>1. f \in Functions /\ Type[f] = "building"
      BY DEF OfType
    <3>2. mem[f] = BuildingNew /\ updates[f] = << >> /\ ~Busy(f) /\ deliveries = 0
      BY <3>1 DEF Init, New, Busy, IdleFunction, Handling
    <3>3. Spare(f) = 0
      <4>1. Len(updates[f]) = 0
        BY <3>2, EmptySeq
      <4>2. deliveries = 0
        BY <3>2
      <4>3. Spare(f) = 0 - 0 - 0
        BY <2>2, <4>1, <4>2 DEF Spare
      <4> QED
        BY <4>3
    <3>4. Entry(f) = BuildingNew /\ AnnouncedBuilding(f) = BuildingNew
      BY <3>2 DEF Entry, AnnouncedBuilding
    <3>5. Near(BuildingNew, BuildingNew, 0)
      BY DEF Near, BuildingNew, Abs
    <3> QED
      BY <3>2, <3>3, <3>4, <3>5 DEF DriftAt
  <2> QED
    BY <2>2, <2>3 DEF DriftInvariant
<1>2. DriftInvariant /\ EngineInvariant /\ [AnyStep]_vars => DriftInvariant'
  <2> SUFFICES ASSUME DriftInvariant, EngineInvariant, [AnyStep]_vars
               PROVE  DriftInvariant'
    OBVIOUS
  <2>1. EngineInvariant'
    BY EngineStep
  <2>2. IsFiniteSet(AtWork)
    BY DEF DriftInvariant
  <2>3. IsFiniteSet(AtWork)'
    BY <2>2, AtWorkFinite
  <2>4. ASSUME Undisturbed', NEW f \in OfType("building")
        PROVE  DriftAt(f)'
    <3>1. faults' = 0 /\ restarts' = 0
      BY <2>4 DEF Undisturbed
    <3>2. Undisturbed
      <4>1. faults \in Nat /\ restarts \in Nat
        BY DEF EngineInvariant, TypeOK
      <4> QED
        BY <3>1, <4>1, Forward DEF Undisturbed
    <3> QED
      BY <2>1, <2>2, <2>3, <3>1, <3>2, DriftStep DEF DriftInvariant
  <2> QED
    BY <2>3, <2>4 DEF DriftInvariant
<1>3. DriftInvariant /\ EngineInvariant => DriftBounded
  <2> SUFFICES ASSUME DriftInvariant, EngineInvariant, Undisturbed,
                      NEW f \in OfType("building"), IdleFunction(f)
               PROVE  LET bound == 9 * (deliveries - Len(updates[f]))
                      IN  /\ Abs(mem[f].power - AnnouncedBuilding(f).power) <= bound
                          /\ Abs(mem[f].energy - AnnouncedBuilding(f).energy) <= bound
    BY DEF DriftBounded
  <2> DEFINE d == deliveries
             n == Len(updates[f])
             k == Cardinality(AtWork)
             x == Abs(mem[f].power - AnnouncedBuilding(f).power)
             y == Abs(mem[f].energy - AnnouncedBuilding(f).energy)
  <2>1. d \in Nat /\ n \in Nat /\ k \in Nat
    <3>1. f \in Functions
      BY DEF OfType
    <3> QED
      BY <3>1, UpdatesTyped, FS_CardinalityType DEF EngineInvariant, TypeOK, DriftInvariant
  <2>2. ~Busy(f) /\ DriftAt(f)
    BY DEF Busy, DriftInvariant
  <2>3. Near(mem[f], AnnouncedBuilding(f), d - n - k)
    BY <2>2 DEF DriftAt, Entry, Spare
  <2>4. x <= 9 * (d - n - k) /\ y <= 9 * (d - n - k)
    BY <2>3 DEF Near
  <2>5. x \in Int /\ y \in Int
    <3>0. f \in Functions /\ Type[f] = "building"
      BY DEF OfType
    <3>1. mem[f] \in BuildingMem /\ updates[f] \in Seq(Update(f))
      BY <3>0 DEF EngineInvariant, TypeOK, Memory
    <3>2. \A u \in Seq(Update(f)) : u # << >> => Last(u) \in Update(f)
      BY EmptySeq, LenProperties DEF Last
    <3>3. \A z \in Update(f) : z.mem \in BuildingMem
      BY <3>0 DEF Update, Memory
    <3>4. BuildingNew \in BuildingMem
      BY DEF BuildingNew, BuildingMem
    <3>5. AnnouncedBuilding(f) \in BuildingMem
      BY <3>1, <3>2, <3>3, <3>4 DEF AnnouncedBuilding
    <3> QED
      BY <3>1, <3>5 DEF BuildingMem, Abs
  <2> HIDE DEF d, n, k, x, y
  <2>6. x <= 9 * (d - n) /\ y <= 9 * (d - n)
    BY <2>1, <2>4, <2>5
  <2> QED
    BY <2>6 DEF d, n, x, y
<1> QED
  BY <1>1, <1>2, <1>3, EngineCorrect, PTL DEF AnyStep, Spec
-----------------------------------------------------------------------------
(* What the registry would restore: the value of the last row with the      *)
(* label, or zero if there is none.                                         *)
Carries(list, label) == \E i \in DOMAIN list : list[i].label = label

(* The last row with the label has the value v.                             *)
LastWith(list, label, v) ==
    \E i \in DOMAIN list :
        /\ list[i].label = label /\ list[i].value = v
        /\ \A j \in DOMAIN list : j > i => list[j].label # label

(* v is what lastLogValue makes of the rows.                                *)
Yields(rows, label, v) == IF Carries(rows, label) THEN LastWith(rows, label, v) ELSE v = 0

(* A row with the label is the last one, another leaves it as it was.       *)
LEMMA LastWithAppend ==
    ASSUME NEW S, NEW rows \in Seq(S), NEW row \in S, NEW label, NEW v, Yields(rows, label, v)
    PROVE  LET long == Append(rows, row)
           IN  IF row.label = label THEN Yields(long, label, row.value) ELSE Yields(long, label, v)
<1> DEFINE n == Len(rows)
           long == Append(rows, row)
<1>1. /\ n \in Nat /\ DOMAIN rows = 1 .. n /\ DOMAIN long = 1 .. n + 1
      /\ \A i \in 1 .. n : long[i] = rows[i]
      /\ long[n + 1] = row
  BY AppendProperties, LenProperties
<1> HIDE DEF n, long
<1>2. CASE row.label = label
  <2>1. Carries(long, label)
    BY <1>1, <1>2 DEF Carries
  <2>2. LastWith(long, label, row.value)
    BY <1>1, <1>2 DEF LastWith
  <2> QED
    BY <1>2, <2>1, <2>2 DEF Yields, long
<1>3. CASE row.label # label
  <2>1. Carries(long, label) <=> Carries(rows, label)
    BY <1>1, <1>3 DEF Carries
  <2>2. LastWith(rows, label, v) => LastWith(long, label, v)
    BY <1>1, <1>3 DEF LastWith
  <2> QED
    BY <1>3, <2>1, <2>2 DEF Yields, long
<1> QED
  BY <1>2, <1>3

(* The last of some writes counts if it has the label.                      *)
LEMMA LastWriteCounts ==
    ASSUME NEW S, NEW list \in Seq(S), list # << >>, NEW label, list[Len(list)].label = label
    PROVE  Carries(list, label) /\ LastWith(list, label, list[Len(list)].value)
<1>1. Len(list) \in Nat \ {0} /\ DOMAIN list = 1 .. Len(list)
  BY EmptySeq, LenProperties
<1> QED
  BY <1>1 DEF Carries, LastWith

(* Once the first is done, what counts is in the rest, or was the first.    *)
LEMMA LastWithTail ==
    ASSUME NEW S, NEW list \in Seq(S), list # << >>, NEW label, NEW v
    PROVE  /\ LastWith(list, label, v) /\ Carries(Tail(list), label) =>
                 LastWith(Tail(list), label, v)
           /\ LastWith(list, label, v) /\ ~Carries(Tail(list), label) =>
                 Head(list).label = label /\ Head(list).value = v
           /\ ~Carries(list, label) => ~Carries(Tail(list), label) /\ Head(list).label # label
<1> DEFINE n == Len(list)
           rest == Tail(list)
<1>1. /\ n \in Nat \ {0} /\ DOMAIN list = 1 .. n /\ DOMAIN rest = 1 .. n - 1
      /\ \A i \in 1 .. n - 1 : rest[i] = list[i + 1]
      /\ Head(list) = list[1]
  BY EmptySeq, LenProperties, HeadTailProperties
<1> HIDE DEF n, rest
<1>2. ASSUME NEW i \in 1 .. n, i # 1
      PROVE  i - 1 \in 1 .. n - 1 /\ rest[i - 1] = list[i]
  BY <1>1, <1>2
<1>3. ASSUME LastWith(list, label, v), Carries(rest, label)
      PROVE  LastWith(rest, label, v)
  <2>1. PICK i \in 1 .. n : /\ list[i].label = label /\ list[i].value = v
                            /\ \A j \in 1 .. n : j > i => list[j].label # label
    BY <1>1, <1>3 DEF LastWith
  <2>2. PICK k \in 1 .. n - 1 : rest[k].label = label
    BY <1>1, <1>3 DEF Carries
  <2>3. i # 1
    BY <1>1, <2>1, <2>2
  <2>4. i - 1 \in 1 .. n - 1 /\ rest[i - 1] = list[i]
    BY <1>2, <2>3
  <2>5. \A j \in 1 .. n - 1 : j > i - 1 => rest[j].label # label
    BY <1>1, <2>1
  <2> QED
    BY <1>1, <2>1, <2>4, <2>5 DEF LastWith
<1>4. ASSUME LastWith(list, label, v), ~Carries(rest, label)
      PROVE  list[1].label = label /\ list[1].value = v
  <2>1. PICK i \in 1 .. n : list[i].label = label /\ list[i].value = v
    BY <1>1, <1>4 DEF LastWith
  <2>2. i = 1
    BY <1>1, <1>2, <1>4, <2>1 DEF Carries
  <2> QED
    BY <2>1, <2>2
<1>5. ASSUME ~Carries(list, label)
      PROVE  ~Carries(rest, label) /\ list[1].label # label
  <2>1. \A i \in 1 .. n : list[i].label # label
    BY <1>1, <1>5 DEF Carries
  <2>2. \A i \in 1 .. n - 1 : i + 1 \in 1 .. n /\ rest[i] = list[i + 1]
    BY <1>1
  <2>3. \A i \in 1 .. n - 1 : rest[i].label # label
    BY <2>1, <2>2
  <2>4. 1 \in 1 .. n
    BY <1>1
  <2> QED
    BY <1>1, <2>1, <2>3, <2>4 DEF Carries
<1> QED
  BY <1>1, <1>3, <1>4, <1>5 DEF rest

(* In an ordered history what was stored last is what the query returns.    *)
LEMMA YieldsLastLogValue ==
    ASSUME NEW rows \in Seq(Row), InTimeOrder(rows), NEW label, NEW v, Yields(rows, label, v)
    PROVE  LastLogValue(rows, label) = v
<1> DEFINE with == RowsOf(rows, label)
           kept == LastRows(rows, label, 1)
           later(i) == {j \in with : Later(rows, j, i)}
           last == History(rows, label, 1)
<1>1. /\ DOMAIN rows = 1 .. Len(rows) /\ Len(rows) \in Nat
      /\ \A i \in 1 .. Len(rows) : rows[i].time \in Nat
  BY LenProperties, RowTyped
<1>2. last = [k \in 1 .. Cardinality(kept) |-> rows[NthOf(rows, kept, k)]]
  BY DEF History
<1>3. CASE ~Carries(rows, label)
  <2>1. with = {}
    BY <1>1, <1>3 DEF RowsOf, Carries
  <2>2. kept = {}
    BY <2>1 DEF LastRows
  <2>3. Cardinality(kept) = 0
    BY <2>2, FS_EmptySet
  <2>4. last = << >>
    <3>1. 1 .. Cardinality(kept) = {}
      BY <2>3
    <3> HIDE DEF kept
    <3>2. last = [k \in {} |-> rows[NthOf(rows, kept, k)]]
      BY <1>2, <3>1
    <3> QED
      BY <3>2
  <2>5. v = 0
    BY <1>3 DEF Yields
  <2> QED
    BY <2>4, <2>5 DEF LastLogValue
<1>4. CASE Carries(rows, label)
  <2>1. PICK i \in DOMAIN rows : /\ rows[i].label = label /\ rows[i].value = v
                                 /\ \A j \in DOMAIN rows : j > i => rows[j].label # label
    BY <1>4 DEF Yields, LastWith
  <2>2. i \in with /\ \A j \in with : j <= i
    BY <1>1, <2>1 DEF RowsOf
  <2>3. \A j \in with : Later(rows, i, j) <=> j # i
    BY <1>1, <2>1, <2>2 DEF RowsOf, Later, InTimeOrder
  <2>4. \A j \in with : ~Later(rows, j, i)
    BY <1>1, <2>1, <2>2 DEF RowsOf, Later, InTimeOrder
  <2>5. later(i) = {} /\ \A j \in with : j # i => i \in later(j)
    BY <2>2, <2>3, <2>4
  <2>6. IsFiniteSet(with)
    <3>1. IsFiniteSet(1 .. Len(rows))
      BY <1>1, FS_Interval
    <3> QED
      BY <3>1, FS_Subset DEF RowsOf
  <2>7. \A j \in with : Cardinality(later(j)) < 1 <=> j = i
    <3> SUFFICES ASSUME NEW j \in with PROVE Cardinality(later(j)) < 1 <=> j = i
      OBVIOUS
    <3>1. IsFiniteSet(later(j))
      BY <2>6, FS_Subset
    <3>2. Cardinality(later(j)) \in Nat /\ (Cardinality(later(j)) = 0 <=> later(j) = {})
      BY <3>1, FS_CardinalityType, FS_EmptySet
    <3>3. later(j) = {} <=> j = i
      BY <2>5
    <3> HIDE DEF later
    <3> QED
      BY <3>2, <3>3
  <2>8. kept = {i}
    BY <2>2, <2>7 DEF LastRows
  <2> HIDE DEF kept
  <2>9. Cardinality(kept) = 1
    <3>1. Cardinality({} \cup {i}) = 0 + 1
      BY FS_EmptySet, FS_AddElement
    <3> QED
      BY <2>8, <3>1
  <2>10. last[1] = rows[NthOf(rows, kept, 1)] /\ last # << >>
    BY <1>2, <2>9
  <2>11. NthOf(rows, kept, 1) = i
    <3>1. {j \in kept : Later(rows, i, j)} = {}
      BY <2>2, <2>4, <2>8
    <3>2. Cardinality({j \in kept : Later(rows, i, j)}) = 1 - 1
      BY <3>1, FS_EmptySet
    <3>3. NthOf(rows, kept, 1) \in kept
      BY <2>8, <3>2 DEF NthOf
    <3> QED
      BY <2>8, <3>3
  <2> HIDE DEF last
  <2> QED
    BY <2>1, <2>10, <2>11 DEF LastLogValue, last
<1> QED
  BY <1>3, <1>4

(* A call stores the value its result would be restored from, or leaves     *)
(* what is restored as it was.                                              *)
Remembered == OfType("presence") \cup OfType("level")

(* v is what a memory like s is restored from. *)
Stands(type, v, s) == v \in Int /\ Stays(type, New(type, v), s)

(* What a run stores last stands for the memory it ends with, or it stays   *)
(* what it was.                                                             *)
Recorded(type, label, r, s) ==
    IF Carries(r.writes, label)
    THEN \E v : LastWith(r.writes, label, v) /\ Stands(type, v, FinalMemory(r))
    ELSE Stays(type, s, FinalMemory(r))

(* A run that stores nothing changes nothing to be restored.                *)
LEMMA EmptyRunsRecorded ==
    ASSUME NEW type, NEW label, NEW s, NEW x, Stays(type, s, x)
    PROVE  Recorded(type, label, Unchanged(x), s) /\ Recorded(type, label, Rejected(x), s)
<1>1. /\ Unchanged(x).writes = << >> /\ Rejected(x).writes = << >>
      /\ FinalMemory(Unchanged(x)) = x /\ FinalMemory(Rejected(x)) = x
  BY EmptyRunsFinal DEF Unchanged, Rejected, Run
<1>2. ~Carries(<< >>, label)
  BY DEF Carries
<1> QED
  BY <1>1, <1>2 DEF Recorded

(* The last write has the label, and records its own memory.                *)
LEMMA LastRecorded ==
    ASSUME NEW type, NEW label, NEW s, NEW W, NEW writes \in Seq(W), writes # << >>,
           writes[Len(writes)].label = label,
           Stands(type, writes[Len(writes)].value, writes[Len(writes)].then),
           NEW begin, NEW outcome, NEW onerr
    PROVE  Recorded(type, label, Run(begin, writes, outcome, onerr), s)
<1> DEFINE r == Run(begin, writes, outcome, onerr)
<1>1. r.writes = writes /\ FinalMemory(r) = writes[Len(writes)].then
  BY DEF Run, FinalMemory, FinalOf
<1>2. Carries(writes, label) /\ LastWith(writes, label, writes[Len(writes)].value)
  BY LastWriteCounts
<1> HIDE DEF r
<1>3. Recorded(type, label, r, s)
  BY <1>1, <1>2 DEF Recorded
<1> QED
  BY <1>3 DEF r

(* A presence stores its state last.                                        *)
LEMMA PresenceRecorded ==
    ASSUME NEW s \in PresenceMem, NEW m \in Message
    PROVE  Recorded("presence", "presence", PresenceHandle(s, m), s)
<1> DEFINE new == [state |-> m.state]
           first == OnChange("presence", Number(~new.state), m.time, new)
           row == OnChange("presence", Number(new.state), m.time, new)
           writes == << first, row >>
<1>1. \/ PresenceHandle(s, m) \in {Rejected(s), Unchanged(s)}
      \/ /\ m.state \in BOOLEAN
         /\ PresenceHandle(s, m) = Run(new, writes, "changed", "stop")
  BY MessageTyped DEF PresenceHandle, SquareWave
<1>2. ASSUME m.state \in BOOLEAN
      PROVE  Stands("presence", row.value, row.then)
  <2>1. row.value = Number(m.state) /\ row.then = new
    BY OnChangeFields
  <2>2. New("presence", Number(m.state)) = PresenceNew(Number(m.state))
    BY DEF New
  <2>3. PresenceNew(Number(m.state)) = new
    BY <1>2 DEF PresenceNew, Number
  <2>4. Number(m.state) \in Int
    BY DEF Number
  <2> QED
    BY <2>1, <2>2, <2>3, <2>4 DEF Stands, Stays
<1>3. row.label = "presence"
  BY OnChangeFields
<1> HIDE DEF new, first, row
<1>4. writes \in Seq({first, row}) /\ writes # << >> /\ writes[Len(writes)] = row
  OBVIOUS
<1> HIDE DEF writes
<1>5. m.state \in BOOLEAN => Recorded("presence", "presence", Run(new, writes, "changed", "stop"), s)
  BY <1>2, <1>3, <1>4, LastRecorded
<1>6. Stays("presence", s, s)
  BY DEF Stays
<1> QED
  BY <1>1, <1>5, <1>6, EmptyRunsRecorded

(* A level is restored from its current value.                              *)
LEMMA LevelStands ==
    ASSUME NEW v \in Int, NEW s, s.current = v
    PROVE  Stands("level", v, s)
<1>1. New("level", v).current = v
  BY DEF New, LevelNew
<1> QED
  BY <1>1 DEF Stands, Stays

(* A level measured by distance stores its current value last.              *)
LEMMA DistanceRecorded ==
    ASSUME NEW s \in LevelMem, NEW m \in Message
    PROVE  Recorded("level", "level", HandleDistance(s, m), s)
<1> DEFINE v      == m.value[SensorValue]
           raised == [s EXCEPT !.current = LevelAt(v + LevelConfig.offsetLevel)]
           scaled == Repercent(raised)
           new    == [scaled EXCEPT !.offset = IF IsNotZero(LevelConfig.meanLevel)
                                               THEN scaled.current - LevelConfig.meanLevel ELSE @]
           level == OnChange("level", new.current, m.time, new)
           early == OnChange("level", new.current, m.time, scaled)
           percent == PercentRow(scaled, m.time, new)
<1>1. \/ HandleDistance(s, m) = Rejected(s)
      \/ /\ v \in Int /\ HandleDistance(s, m) = Unchanged(raised)
         /\ ~LevelHasChanged(s.current, raised.current)
      \/ /\ v \in Int
         /\ \/ HandleDistance(s, m) = Run(raised, << level >>, "changed", "join")
            \/ HandleDistance(s, m) = Run(raised, << early, percent >>, "changed", "join")
  BY MessageTyped DEF HandleDistance
<1>2. ASSUME v \in Int PROVE new.current \in Int
  <2>1. LevelAt(v + LevelConfig.offsetLevel) \in Int
    BY <1>2, LevelConfigAssumption, LevelAtTyped
  <2>2. raised \in LevelMem
    BY <2>1 DEF LevelMem
  <2> HIDE DEF raised
  <2>3. scaled \in LevelMem
    BY <2>2, RepercentTyped
  <2> HIDE DEF scaled
  <2> QED
    BY <2>3 DEF LevelMem
<1>3. /\ level.label = "level" /\ level.value = new.current /\ level.then = new
      /\ early.label = "level" /\ early.value = new.current
      /\ percent.label = "percent" /\ percent.then = new
  BY OnChangeFields DEF PercentRow
<1>a. raised.current = LevelAt(v + LevelConfig.offsetLevel)
  BY DEF LevelMem
<1>b. v \in Int => raised.current % Centimetre = 0
  BY <1>a, LevelConfigAssumption, LevelAtTyped
<1> HIDE DEF v, raised, scaled, new, level, early, percent
<1>4. ASSUME v \in Int
      PROVE  Recorded("level", "level", Run(raised, << level >>, "changed", "join"), s)
  <2> DEFINE writes == << level >>
  <2>1. writes \in Seq({level}) /\ writes # << >> /\ writes[Len(writes)] = level
    OBVIOUS
  <2>2. Stands("level", new.current, new)
    BY <1>2, <1>4, LevelStands
  <2> HIDE DEF writes
  <2>3. Recorded("level", "level", Run(raised, writes, "changed", "join"), s)
    BY <1>3, <2>1, <2>2, LastRecorded
  <2> QED
    BY <2>3 DEF writes
<1>5. ASSUME v \in Int
      PROVE  Recorded("level", "level", Run(raised, << early, percent >>, "changed", "join"), s)
  <2> DEFINE writes == << early, percent >>
             r == Run(raised, writes, "changed", "join")
  <2>1. Stands("level", new.current, new)
    BY <1>2, <1>5, LevelStands
  <2>2. Len(writes) = 2 /\ writes # << >> /\ writes[1] = early /\ writes[2] = percent
        /\ DOMAIN writes = 1 .. 2
    OBVIOUS
  <2> HIDE DEF writes
  <2>3. r.writes = writes /\ FinalMemory(r) = new
    BY <1>3, <2>2 DEF Run, FinalMemory, FinalOf
  <2>4. Carries(writes, "level") /\ LastWith(writes, "level", new.current)
    BY <1>3, <2>2 DEF Carries, LastWith
  <2> HIDE DEF r
  <2>5. Recorded("level", "level", r, s)
    BY <2>1, <2>3, <2>4 DEF Recorded
  <2> QED
    BY <2>5 DEF r, writes
<1>6. Recorded("level", "level", Rejected(s), s)
  BY EmptyRunsRecorded DEF Stays
<1>7. ASSUME v \in Int, ~LevelHasChanged(s.current, raised.current)
      PROVE  Recorded("level", "level", Unchanged(raised), s)
  <2>1. Stays("level", s, raised)
    BY <1>b, <1>7 DEF Stays
  <2> QED
    BY <2>1, EmptyRunsRecorded
<1> QED
  BY <1>1, <1>4, <1>5, <1>6, <1>7

(* A level measured by its filling stores its current value last.           *)
LEMMA FillingLevelRecorded ==
    ASSUME NEW s \in LevelMem, NEW m \in Message
    PROVE  Recorded("level", "level", HandleFillingLevel(s, m), s)
<1> DEFINE p == m.value[ActualFillingPercentage]
           l == m.value[ActualFillingLevel]
           h == m.value[HighThreshold]
           t == m.time
           usesPercent == p # None /\ ~IsNotZero(LevelConfig.offsetLevel)
           raised == [s EXCEPT !.maxLevel = IF h # None /\ h > @ THEN h ELSE @]
           shown  == [raised EXCEPT !.percent = IF usesPercent THEN p ELSE @]
           moved  == [shown EXCEPT !.current = l + LevelConfig.offsetLevel]
           filled == Repercent([shown EXCEPT !.current = l + LevelConfig.offsetLevel])
           shownRow(then) == << PercentRow(shown, t, then) >>
           levelRow == OnChange("level", filled.current, t, filled)
           percentRow == PercentRow(filled, t, filled)
           filledRows ==
               IF IsNotZero(shown.maxLevel) /\ PercentStored(shown.percent, filled.percent)
               THEN << percentRow, levelRow >> ELSE << levelRow >>
           first == PercentRow(shown, t, shown)
           second == PercentRow(shown, t, filled)
<1>1. /\ p \in Int \cup {None} /\ l \in Int \cup {None} /\ h \in Int \cup {None}
      /\ t \in Nat
  BY MessageTyped
<1>2. \/ HandleFillingLevel(s, m) \in
           {Rejected(s), Unchanged(raised),
            Run(shown, << first >>, "changed", "stop"),
            Run(shown, << first >>, "changed", "join"),
            Run(shown, << first >>, "unchanged", "drop")}
      \/ /\ l \in Int
         /\ HandleFillingLevel(s, m) \in
              {Run(shown, << second >> \o filledRows, "changed", "join"),
               Run(filled, filledRows, "changed", "join")}
  BY <1>1 DEF HandleFillingLevel
<1>3. filledRows \in {<< levelRow >>, << percentRow, levelRow >>}
  OBVIOUS
<1>4. raised.current = s.current /\ shown.current = s.current
  BY DEF LevelMem
<1>5. ASSUME l \in Int PROVE filled.current \in Int
  <2>1. raised \in LevelMem
    BY <1>1 DEF LevelMem
  <2> HIDE DEF raised
  <2>2. shown \in LevelMem
    BY <1>1, <2>1 DEF LevelMem
  <2> HIDE DEF shown
  <2>3. moved \in LevelMem
    BY <1>5, <2>2, LevelConfigAssumption DEF LevelMem
  <2>4. filled = Repercent(moved)
    OBVIOUS
  <2> HIDE DEF moved, filled
  <2>5. filled \in LevelMem
    BY <2>3, <2>4, RepercentTyped
  <2> QED
    BY <2>5 DEF LevelMem
<1>6. /\ levelRow.label = "level" /\ levelRow.value = filled.current /\ levelRow.then = filled
      /\ first.label = "percent" /\ first.then = shown
  BY OnChangeFields DEF PercentRow
<1> DEFINE W == {second, percentRow, levelRow}
<1>7. second \in W /\ percentRow \in W /\ levelRow \in W
  OBVIOUS
<1> HIDE DEF filledRows, raised, shown, moved, filled, l, first, second, levelRow, percentRow, W
<1>8. /\ << second >> \in Seq(W) /\ filledRows \in Seq(W)
      /\ filledRows # << >> /\ filledRows[Len(filledRows)] = levelRow
  <2>1. CASE filledRows = << levelRow >>
    BY <1>7, <2>1
  <2>2. CASE filledRows = << percentRow, levelRow >>
    BY <1>7, <2>2
  <2> QED
    BY <1>3, <2>1, <2>2
<1>9. ASSUME l \in Int
      PROVE  /\ Recorded("level", "level", Run(filled, filledRows, "changed", "join"), s)
             /\ Recorded("level", "level", Run(shown, << second >> \o filledRows, "changed", "join"), s)
  <2> DEFINE rows == << second >> \o filledRows
  <2>1. rows \in Seq(W) /\ rows # << >> /\ rows[Len(rows)] = levelRow
    BY <1>8, ConcatLast
  <2>2. Stands("level", levelRow.value, levelRow.then)
    BY <1>5, <1>6, <1>9, LevelStands
  <2> HIDE DEF rows
  <2>3. Recorded("level", "level", Run(filled, filledRows, "changed", "join"), s)
    BY <1>6, <1>8, <2>2, LastRecorded
  <2>4. Recorded("level", "level", Run(shown, rows, "changed", "join"), s)
    BY <1>6, <2>1, <2>2, LastRecorded
  <2> QED
    BY <2>3, <2>4 DEF rows
<1>10. ASSUME NEW outcome, NEW onerr
       PROVE  Recorded("level", "level", Run(shown, << first >>, outcome, onerr), s)
  <2> DEFINE r == Run(shown, << first >>, outcome, onerr)
  <2>1. r.writes = << first >> /\ FinalMemory(r) = shown
    BY <1>6 DEF Run, FinalMemory, FinalOf
  <2>2. ~Carries(<< first >>, "level")
    BY <1>6 DEF Carries
  <2> HIDE DEF r
  <2>3. Recorded("level", "level", r, s)
    BY <1>4, <2>1, <2>2 DEF Recorded, Stays
  <2> QED
    BY <2>3 DEF r
<1>11. Recorded("level", "level", Rejected(s), s) /\ Recorded("level", "level", Unchanged(raised), s)
  BY <1>4, EmptyRunsRecorded DEF Stays
<1> QED
  BY <1>2, <1>9, <1>10, <1>11

(* Both handlers, in one.                                                   *)
LEMMA HandleRecorded ==
    ASSUME NEW f \in Remembered, NEW s \in Memory(Type[f]), NEW m \in Messages, NEW t \in Nat
    PROVE  Recorded(Type[f], DefaultHistoryLabel(Type[f]), Handle(Type[f], s, m, t), s)
<1>1. m \in Message /\ (Type[f] = "presence" \/ Type[f] = "level")
  BY EngineAssumption DEF Remembered, OfType
<1>2. CASE Type[f] = "presence"
  <2>1. s \in PresenceMem /\ DefaultHistoryLabel(Type[f]) = "presence"
        /\ Handle(Type[f], s, m, t) = PresenceHandle(s, m)
    BY <1>2 DEF Memory, DefaultHistoryLabel, Handle
  <2> QED
    BY <1>1, <1>2, <2>1, PresenceRecorded
<1>3. CASE Type[f] = "level"
  <2>1. s \in LevelMem /\ DefaultHistoryLabel(Type[f]) = "level"
        /\ Handle(Type[f], s, m, t) = LevelHandle(s, m)
    BY <1>3 DEF Memory, DefaultHistoryLabel, Handle
  <2>2. Recorded("level", "level", LevelHandle(s, m), s)
    BY <1>1, <2>1, DistanceRecorded, FillingLevelRecorded, EmptyRunsRecorded
       DEF LevelHandle, Stays
  <2> QED
    BY <1>3, <2>1, <2>2
<1> QED
  BY <1>1, <1>2, <1>3

(* What is recorded, or is still to be, is what the memory will be when     *)
(* the call under way has ended.                                            *)
RecallAt(f) ==
    LET type  == Type[f]
        label == DefaultHistoryLabel(type)
        rows  == history[f]
    IN  /\ \E v \in Int : Yields(rows, label, v)
        /\ InTimeOrder(rows) =>
              \E v : /\ Stands(type, v, Outlook(f))
                     /\ IF Carries(Due(f), label) THEN LastWith(Due(f), label, v)
                                                  ELSE Yields(rows, label, v)

(* As long as nothing fails this is true of every function that is          *)
(* restored.                                                                *)
RecallInvariant == faults = 0 => \A f \in Remembered : RecallAt(f)

(* It is kept by every step without a fault, restarts included.             *)
LEMMA RecallStep ==
    ASSUME EngineInvariant, EngineInvariant', [AnyStep]_vars, faults' = 0,
           NEW f \in Remembered, RecallAt(f)
    PROVE  RecallAt(f)'
<1> DEFINE type  == Type[f]
           label == DefaultHistoryLabel(type)
           rows  == history[f]
<1>0. f \in Functions
  BY DEF Remembered, OfType
<1>1. rows \in Seq(Row) /\ now \in Nat /\ mem[f] \in Memory(type)
  BY <1>0 DEF EngineInvariant, TypeOK
<1>b. type \in FunctionTypeNames
  BY <1>0, EngineAssumption
<1>2. PICK v0 \in Int : Yields(rows, label, v0)
  BY DEF RecallAt
<1>3. InTimeOrder(rows) =>
         \E v : /\ Stands(type, v, Outlook(f))
                /\ IF Carries(Due(f), label) THEN LastWith(Due(f), label, v)
                                             ELSE Yields(rows, label, v)
  BY DEF RecallAt
<1>4. CASE Keeps(f) \/ Ends(f)
  <2>1. Outlook(f)' = Outlook(f) /\ Due(f)' = Due(f) /\ history'[f] = rows
    BY <1>0, <1>4, OutlookStep DEF Keeps, Ends, NotLogged, Due
  <2> HIDE DEF label, type
  <2> QED
    BY <1>2, <1>3, <2>1 DEF RecallAt, type, label
<1>5. CASE Begins(f)
  <2>1. PICK m \in Messages :
           /\ Due(f)' = Handle(type, mem[f], m, now).writes
           /\ Outlook(f)' = FinalMemory(Handle(type, mem[f], m, now))
    BY <1>5, OutlookBegins
  <2> DEFINE r == Handle(type, mem[f], m, now)
  <2>2. Recorded(type, label, r, mem[f])
    BY <1>1, HandleRecorded
  <2>8. FinalMemory(r) \in Memory(type)
    <3>1. r \in Runs(Memory(type))
      BY <1>1, <1>b, EngineAssumption, HandleTyped
    <3> QED
      BY <3>1, FinalTyped DEF Runs, FinalMemory
  <2>3. history'[f] = rows /\ Due(f) = << >> /\ Outlook(f) = mem[f]
    BY <1>5 DEF Begins, NotLogged, Due, Outlook, FinalOf
  <2>4. ~Carries(Due(f), label)
    BY <2>3 DEF Carries
  <2> HIDE DEF r, label, type
  <2>5. Due(f)' = r.writes /\ Outlook(f)' = FinalMemory(r)
    BY <2>1 DEF r
  <2>6. CASE Carries(r.writes, label)
    <3>1. PICK v : LastWith(r.writes, label, v) /\ Stands(type, v, FinalMemory(r))
      BY <2>2, <2>6 DEF Recorded
    <3> QED
      BY <1>2, <2>3, <2>5, <2>6, <3>1 DEF RecallAt, type, label
  <2>7. CASE ~Carries(r.writes, label)
    <3>1. Stays(type, mem[f], FinalMemory(r))
      BY <2>2, <2>7 DEF Recorded
    <3>2. \A v : Stands(type, v, mem[f]) => Stands(type, v, FinalMemory(r))
      BY <1>1, <1>b, <2>8, <3>1, NewTyped, StaysTransitive DEF Stands
    <3>3. InTimeOrder(rows) => \E v : Stands(type, v, FinalMemory(r)) /\ Yields(rows, label, v)
      BY <1>3, <2>3, <2>4, <3>2
    <3> QED
      BY <1>2, <2>3, <2>5, <2>7, <3>3 DEF RecallAt, type, label
  <2> QED
    BY <2>6, <2>7
<1>6. CASE StoresRow(f)
  <2> DEFINE write == Head(Due(f))
             row == RowOf(write)
             W == Writes(Memory(type))
  <2>1. /\ Due(f) \in Seq(W) /\ Due(f) # << >> /\ Due(f) = Call(f).writes
    BY <1>0, <1>6, CallTyped DEF StoresRow, NextStage, Pending, Due
  <2>2. Outlook(f)' = Outlook(f) /\ Due(f)' = Tail(Due(f))
    BY <1>0, <1>6, OutlookStep DEF StoresRow
  <2>3. history'[f] = Append(rows, row)
    BY <1>6, <2>1 DEF StoresRow, Logged
  <2>4. write \in W
    BY <2>1
  <2>5. row \in Row /\ row.label = write.label /\ row.value = write.value /\ row.value \in Int
    BY <2>4 DEF Writes, Row, RowOf
  <2> HIDE DEF label, type, W, row
  <2>6. IF row.label = label THEN Yields(Append(rows, row), label, row.value)
                             ELSE Yields(Append(rows, row), label, v0)
    BY <1>1, <1>2, <2>5, LastWithAppend
  <2>7. \E v \in Int : Yields(history'[f], label, v)
    BY <1>2, <2>3, <2>5, <2>6
  <2>8. ASSUME InTimeOrder(history'[f])
        PROVE  \E v : /\ Stands(type, v, Outlook(f)')
                      /\ IF Carries(Due(f)', label) THEN LastWith(Due(f)', label, v)
                                                    ELSE Yields(history'[f], label, v)
    <3>1. InTimeOrder(rows)
      <4>1. /\ DOMAIN rows \subseteq DOMAIN Append(rows, row)
            /\ \A i \in DOMAIN rows : Append(rows, row)[i] = rows[i]
        BY <1>1, <2>5, AppendProperties, LenProperties
      <4> QED
        BY <2>3, <2>8, <4>1 DEF InTimeOrder
    <3>2. PICK v : /\ Stands(type, v, Outlook(f))
                   /\ IF Carries(Due(f), label) THEN LastWith(Due(f), label, v)
                                                ELSE Yields(rows, label, v)
      BY <1>3, <3>1
    <3>3. CASE Carries(Due(f), label) /\ Carries(Tail(Due(f)), label)
      <4>1. LastWith(Tail(Due(f)), label, v)
        BY <2>1, <3>2, <3>3, LastWithTail
      <4> QED
        BY <2>2, <3>2, <3>3, <4>1
    <3>4. CASE Carries(Due(f), label) /\ ~Carries(Tail(Due(f)), label)
      <4>1. write.label = label /\ write.value = v
        BY <2>1, <3>2, <3>4, LastWithTail
      <4>2. Yields(history'[f], label, v)
        BY <2>3, <2>5, <2>6, <4>1
      <4> QED
        BY <2>2, <3>2, <3>4, <4>2
    <3>5. CASE ~Carries(Due(f), label)
      <4>1. ~Carries(Tail(Due(f)), label) /\ write.label # label
        BY <2>1, <3>5, LastWithTail
      <4>2. Yields(rows, label, v)
        BY <3>2, <3>5
      <4>3. Yields(history'[f], label, v)
        BY <1>1, <2>3, <2>5, <4>1, <4>2, LastWithAppend
      <4> QED
        BY <2>2, <3>2, <4>1, <4>3
    <3> QED
      BY <3>3, <3>4, <3>5
  <2> QED
    BY <2>7, <2>8 DEF RecallAt, type, label
<1>7. CASE StartsAgain(f)
  <2>1. mem'[f] = Restored(f, {}) /\ history'[f] = rows
    BY <1>7 DEF StartsAgain, NotLogged
  <2>2. Outlook(f)' = mem'[f] /\ Due(f)' = << >>
    BY <1>0, <1>7, OutlookStep
  <2>3. mem'[f] = New(type, LastLogValue(rows, label))
    BY <2>1 DEF Restored
  <2>4. ~Carries(Due(f)', label)
    BY <2>2 DEF Carries
  <2> HIDE DEF label, type
  <2>5. InTimeOrder(rows) => LastLogValue(rows, label) = v0
    BY <1>1, <1>2, YieldsLastLogValue
  <2>6. InTimeOrder(rows) => Stands(type, v0, Outlook(f)')
    BY <2>2, <2>3, <2>5 DEF Stands, Stays
  <2> QED
    BY <1>2, <2>1, <2>4, <2>6 DEF RecallAt, type, label
<1>8. ~LosesRow(f) /\ ~GivesUp(f)
  BY DEF LosesRow, GivesUp
<1>9. Returns(f) \/ Announces(f) => Ends(f)
  BY DEF Returns, Announces
<1> HIDE DEF label, type, rows
<1>10. \/ Keeps(f) \/ Begins(f) \/ StoresRow(f) \/ LosesRow(f)
       \/ GivesUp(f) \/ Returns(f) \/ Announces(f) \/ StartsAgain(f)
  BY <1>0, FunctionStep
<1> QED
  BY <1>4, <1>5, <1>6, <1>7, <1>8, <1>9, <1>10

(* A presence and a level survive a restart: what would be restored is what *)
(* the function is, as long as the database works and time goes forward.    *)
THEOREM RecoverableHolds == Spec => []Recoverable
<1>1. Init => RecallInvariant
  <2> SUFFICES ASSUME Init, NEW f \in Remembered PROVE RecallAt(f)
    BY DEF RecallInvariant
  <2>1. f \in Functions
    BY DEF Remembered, OfType
  <2>2. mem[f] = New(Type[f], 0) /\ history[f] = << >> /\ ~Busy(f)
    BY <2>1 DEF Init, Busy, IdleFunction, Handling
  <2>3. Due(f) = << >> /\ Outlook(f) = mem[f]
    BY <2>2 DEF Due, Outlook, FinalOf
  <2>4. \A label : ~Carries(<< >>, label) /\ Yields(<< >>, label, 0)
    BY DEF Carries, Yields
  <2>5. Stands(Type[f], 0, Outlook(f))
    BY <2>2, <2>3 DEF Stands, Stays
  <2> QED
    BY <2>2, <2>3, <2>4, <2>5 DEF RecallAt
<1>2. RecallInvariant /\ EngineInvariant /\ [AnyStep]_vars => RecallInvariant'
  <2> SUFFICES ASSUME RecallInvariant, EngineInvariant, [AnyStep]_vars, faults' = 0,
                      NEW f \in Remembered
               PROVE  RecallAt(f)'
    BY DEF RecallInvariant
  <2>1. faults \in Nat /\ faults' >= faults
    BY Forward DEF EngineInvariant, TypeOK
  <2>2. RecallAt(f)
    BY <2>1 DEF RecallInvariant
  <2>3. EngineInvariant'
    BY EngineStep
  <2> QED
    BY <2>2, <2>3, RecallStep
<1>3. RecallInvariant /\ EngineInvariant => Recoverable
  <2> SUFFICES ASSUME RecallInvariant, EngineInvariant, faults = 0, NEW f \in Remembered,
                      IdleFunction(f), InTimeOrder(history[f])
               PROVE  Alike(Type[f], Restored(f, {}), mem[f])
    BY DEF Recoverable, Remembered
  <2> DEFINE label == DefaultHistoryLabel(Type[f])
  <2>1. Due(f) = << >> /\ Outlook(f) = mem[f]
    BY DEF Due, Outlook, FinalOf, Busy
  <2>2. ~Carries(Due(f), label)
    BY <2>1 DEF Carries
  <2>3. PICK v : Stands(Type[f], v, mem[f]) /\ Yields(history[f], label, v)
    BY <2>1, <2>2 DEF RecallInvariant, RecallAt
  <2>4. history[f] \in Seq(Row)
    BY DEF EngineInvariant, TypeOK, Remembered, OfType
  <2>5. LastLogValue(history[f], label) = v
    BY <2>3, <2>4, YieldsLastLogValue
  <2>6. Restored(f, {}) = New(Type[f], v)
    BY <2>5 DEF Restored
  <2>7. Type[f] \in FunctionTypeNames /\ mem[f] \in Memory(Type[f])
    BY EngineAssumption DEF EngineInvariant, TypeOK, Remembered, OfType
  <2>8. New(Type[f], v) \in Memory(Type[f]) /\ Stays(Type[f], New(Type[f], v), mem[f])
    BY <2>3, <2>7, NewTyped DEF Stands
  <2> QED
    BY <2>6, <2>7, <2>8, StaysAlike
<1> QED
  BY <1>1, <1>2, <1>3, EngineCorrect, PTL DEF AnyStep, Spec
-----------------------------------------------------------------------------
(* A set that holds 0 and the successors of what it holds, holds all of Nat. *)
LEMMA NatStepwise ==
    ASSUME NEW G, 0 \in G, \A n \in Nat : n \in G => n + 1 \in G
    PROVE  Nat \subseteq G
<1> SUFFICES ASSUME Nat \ G # {} PROVE FALSE
  OBVIOUS
<1> DEFINE R == OpToRel(<, Nat)
<1>1. IsWellFoundedOn(R, Nat)
  BY NatLessThanWellFounded
<1>2. \A x, y \in Nat : << x, y >> \in R <=> x < y
  BY DEF OpToRel
<1> HIDE DEF R
<1>3. PICK n \in Nat \ G : \A y \in Nat \ G : << y, n >> \notin R
  BY <1>1, WFMin
<1>4. n # 0 /\ n - 1 \in Nat /\ n - 1 < n
  BY <1>3
<1>5. n - 1 \notin G
  BY <1>3, <1>4
  <1>6. FALSE
  BY <1>3, <1>4, <1>5, <1>2
<1> QED
  BY <1>6
-----------------------------------------------------------------------------
(* The durations of some of the updates in a list, added up. *)
SumOver(list, S) == MapThenSumSet(LAMBDA i : list[i].mem.duration, S)

(* What a sum is: whichever element is left out, it is what remains and that. *)
Adds(d, S, h) ==
    /\ h \in [SUBSET S -> Int]
    /\ h[{}] = 0
    /\ \A T \in SUBSET S : \A i \in T : h[T] = d[i] + h[T \ {i}]

(* A sum over some elements is a sum over these and one more. *)
LEMMA AddsOneMore ==
    ASSUME NEW S, NEW n, n \notin S, NEW d, \A i \in S \cup {n} : d[i] \in Int,
           NEW h, Adds(d, S, h)
    PROVE  \E g : Adds(d, S \cup {n}, g)
<1> DEFINE U == S \cup {n}
           g == [T \in SUBSET U |-> IF n \in T THEN d[n] + h[T \ {n}] ELSE h[T]]
<1>1. \A T \in SUBSET U : T \ {n} \in SUBSET S /\ (n \notin T => T \in SUBSET S)
  OBVIOUS
<1>2. h \in [SUBSET S -> Int] /\ \A T \in SUBSET S : h[T] \in Int
  BY DEF Adds
<1>3. g \in [SUBSET U -> Int]
  BY <1>1, <1>2
<1>4. g[{}] = 0
  BY DEF Adds
<1>5. \A T \in SUBSET U : g[T] = IF n \in T THEN d[n] + h[T \ {n}] ELSE h[T]
  OBVIOUS
<1> HIDE DEF g
<1>6. ASSUME NEW T \in SUBSET U, NEW i \in T
      PROVE  g[T] = d[i] + g[T \ {i}]
  <2>1. T \ {i} \in SUBSET U
    OBVIOUS
  <2>2. CASE i = n
    BY <1>5, <2>1, <2>2
  <2>3. CASE i # n /\ n \in T
    <3>1. i \in T \ {n} /\ T \ {n} \in SUBSET S /\ i \in S
      BY <2>3
    <3>2. (T \ {n}) \ {i} = (T \ {i}) \ {n} /\ (T \ {n}) \ {i} \in SUBSET S
      BY <3>1
    <3>3. h[T \ {n}] = d[i] + h[(T \ {i}) \ {n}]
      <4>1. \A V \in SUBSET S : \A j \in V : h[V] = d[j] + h[V \ {j}]
        BY DEF Adds
      <4>2. h[T \ {n}] = d[i] + h[(T \ {n}) \ {i}]
        BY <3>1, <4>1
      <4> QED
        BY <3>2, <4>2
    <3>4. g[T] = d[n] + h[T \ {n}] /\ g[T \ {i}] = d[n] + h[(T \ {i}) \ {n}]
      BY <1>5, <2>1, <2>3
    <3>5. h[(T \ {i}) \ {n}] \in Int /\ d[n] \in Int /\ d[i] \in Int
      BY <1>2, <3>1, <3>2
    <3> QED
      BY <3>3, <3>4, <3>5
  <2>4. CASE n \notin T
    <3>1. T \in SUBSET S /\ n \notin T \ {i}
      BY <2>4
    <3>2. g[T] = h[T] /\ g[T \ {i}] = h[T \ {i}]
      BY <1>5, <2>1, <2>4, <3>1
    <3>3. h[T] = d[i] + h[T \ {i}]
      BY <3>1 DEF Adds
    <3> QED
      BY <3>2, <3>3
  <2> QED
    BY <2>2, <2>3, <2>4
<1> QED
  BY <1>3, <1>4, <1>6 DEF Adds

(* Every finite set of numbers has such a function.                         *)
LEMMA AddsExists ==
    ASSUME NEW k \in Nat, NEW S, S \subseteq 1 .. k, NEW d, \A i \in S : d[i] \in Int
    PROVE  \E h : Adds(d, S, h)
<1> DEFINE Upto(n) == {i \in S : i <= n}
           G == {n \in Nat : \E h : Adds(d, Upto(n), h)}
<1>0. \A i \in S : i \in Nat /\ 1 <= i /\ i <= k
  OBVIOUS
<1>1. 0 \in G
  <2>1. Upto(0) = {}
    <3> HIDE DEF G
    <3>1. \A i \in S : ~(i <= 0)
      BY <1>0
    <3> QED
      BY <3>1
  <2>2. Adds(d, {}, [T \in SUBSET {} |-> 0])
    BY DEF Adds
  <2> QED
    BY <2>1, <2>2
<1>2. ASSUME NEW n \in Nat, n \in G
      PROVE  n + 1 \in G
  <2>1. PICK h : Adds(d, Upto(n), h)
    BY <1>2
  <2>2. CASE n + 1 \in S
    <3>1. Upto(n + 1) = Upto(n) \cup {n + 1} /\ n + 1 \notin Upto(n)
      <4> HIDE DEF G
      <4>1. \A i \in S : i <= n + 1 <=> i <= n \/ i = n + 1
        BY <1>0
      <4>2. \A i : i \in Upto(n + 1) <=> i \in Upto(n) \/ i = n + 1
        BY <2>2, <4>1
      <4>3. n + 1 \notin Upto(n)
        OBVIOUS
      <4> HIDE DEF Upto
      <4> QED
        BY <4>2, <4>3
    <3>2. \A i \in Upto(n) \cup {n + 1} : d[i] \in Int
      BY <2>2
    <3> DEFINE P == Upto(n)
    <3>3. \E g : Adds(d, P \cup {n + 1}, g)
      <4> HIDE DEF P, G
      <4>1. n + 1 \notin P /\ (\A i \in P \cup {n + 1} : d[i] \in Int) /\ Adds(d, P, h)
        BY <2>1, <3>1, <3>2 DEF P
      <4> HIDE DEF Upto
      <4> QED
        BY <4>1, AddsOneMore
    <3> QED
      BY <3>1, <3>3
  <2>3. CASE n + 1 \notin S
    <3>1. Upto(n + 1) = Upto(n)
      <4> HIDE DEF G
      <4>1. \A i \in S : i <= n + 1 <=> i <= n
        BY <1>0, <2>3
      <4> QED
        BY <4>1
    <3> QED
      BY <2>1, <3>1
  <2> QED
    BY <2>2, <2>3
<1> HIDE DEF G
<1>3. k \in G
  BY <1>1, <1>2, NatStepwise
<1>4. Upto(k) = S
  BY <1>0
<1> QED
  BY <1>3, <1>4 DEF G

(* There is one sum, the one that the fold of the updates computes.         *)
LEMMA SumIs ==
    ASSUME NEW list, NEW S, IsFiniteSet(S), NEW h,
           Adds([i \in S |-> list[i].mem.duration], S, h)
    PROVE  SumOver(list, S) = h[S]
<1> DEFINE Any(t) == CHOOSE x \in t : TRUE
           Body(g) == [t \in SUBSET S |-> IF t = {} THEN 0
                                          ELSE list[Any(t)].mem.duration + g[t \ {Any(t)}]]
<1>1. SumOver(list, S) = (CHOOSE g : g = Body(g))[S]
  BY DEF SumOver, MapThenSumSet, MapThenFoldSet
<1>2. h = Body(h)
  <2>1. h \in [SUBSET S -> Int]
    BY DEF Adds
  <2>2. ASSUME NEW t \in SUBSET S PROVE h[t] = Body(h)[t]
    <3>1. CASE t = {}
      BY <3>1 DEF Adds
    <3>2. CASE t # {}
      <4>1. Any(t) \in t
        BY <3>2
      <4> HIDE DEF Any
      <4>2. Body(h)[t] = list[Any(t)].mem.duration + h[t \ {Any(t)}]
        BY <3>2
      <4> QED
        BY <4>1, <4>2 DEF Adds
    <3> QED
      BY <3>1, <3>2
  <2> HIDE DEF Any
  <2> QED
    BY <2>1, <2>2
<1>3. ASSUME NEW g, g = Body(g), NEW t \in SUBSET S, g[t] # h[t]
      PROVE  FALSE
  <2> DEFINE G == {n \in Nat : \A u \in SUBSET S : Cardinality(u) = n => g[u] = h[u]}
  <2>1. 0 \in G
    <3>1. \A u \in SUBSET S : Cardinality(u) = 0 => u = {}
      BY FS_Subset, FS_EmptySet
    <3>2. g[{}] = 0 /\ h[{}] = 0
      BY <1>2, <1>3
    <3> QED
      BY <3>1, <3>2
  <2>2. ASSUME NEW n \in Nat, n \in G
        PROVE  n + 1 \in G
    <3> SUFFICES ASSUME NEW u \in SUBSET S, Cardinality(u) = n + 1 PROVE g[u] = h[u]
      OBVIOUS
    <3>1. u # {} /\ IsFiniteSet(u)
      BY FS_Subset, FS_EmptySet
    <3>2. Any(u) \in u
      BY <3>1
    <3> DEFINE v == u \ {Any(u)}
    <3>3. Cardinality(v) = n /\ v \in SUBSET S
      <4> HIDE DEF G, Body, Any
      <4>1. Cardinality(v) = Cardinality(u) - 1
        BY <3>1, <3>2, FS_RemoveElement
      <4> QED
        BY <4>1
    <3>4. g[v] = h[v]
      BY <2>2, <3>3
    <3>5. g[u] = list[Any(u)].mem.duration + g[v] /\ h[u] = list[Any(u)].mem.duration + h[v]
      <4> HIDE DEF Any
      <4>1. Body(g)[u] = list[Any(u)].mem.duration + g[v] /\ Body(h)[u] = list[Any(u)].mem.duration + h[v]
        BY <3>1
      <4> QED
        BY <1>2, <1>3, <4>1
    <3> QED
      BY <3>4, <3>5
  <2>3. IsFiniteSet(t) /\ Cardinality(t) \in Nat
    BY FS_Subset, FS_CardinalityType
  <2> HIDE DEF G
  <2>4. Cardinality(t) \in G
    BY <2>1, <2>2, <2>3, NatStepwise
  <2> QED
    BY <1>3, <2>4 DEF G
<1>4. \A g : g = Body(g) => g[S] = h[S]
  BY <1>3
<1> HIDE DEF Body
<1> QED
  BY <1>1, <1>2, <1>4

(* The ends of rounds among the updates, and the sum of their durations. *)
Ended(list) == {i \in DOMAIN list : list[i].changed /\ ~list[i].mem.state}

(* The sum of the rounds announced.                                         *)
RoundSum(list) == SumOver(list, Ended(list))

(* An interval and its last number.                                         *)
LEMMA LastOfInterval ==
    ASSUME NEW n \in Nat
    PROVE  /\ \A i \in 1 .. n : i \in 1 .. n - 1 \/ i = n
           /\ 1 .. n - 1 \subseteq 1 .. n
           /\ n \notin 1 .. n - 1
  OBVIOUS

(* An update that announces the end of a round adds its duration. *)
LEMMA RoundSumGrows ==
    ASSUME NEW U, NEW list \in Seq(U), NEW u \in U,
           \A i \in Ended(list) : list[i].mem.duration \in Int,
           u.changed /\ ~u.mem.state => u.mem.duration \in Int
    PROVE  /\ RoundSum(list) \in Int
           /\ RoundSum(Append(list, u)) =
                RoundSum(list) + (IF u.changed /\ ~u.mem.state THEN u.mem.duration ELSE 0)
<1> DEFINE long == Append(list, u)
           n == Len(list) + 1
           E == Ended(list)
           F == Ended(long)
           d == [i \in F |-> long[i].mem.duration]
           e == [i \in E |-> list[i].mem.duration]
<1>1. /\ n \in Nat /\ n >= 1 /\ n = Len(long) /\ long[n] = u
      /\ DOMAIN list = 1 .. n - 1 /\ DOMAIN long = 1 .. n
      /\ \A i \in DOMAIN list : long[i] = list[i] /\ i # n
  BY AppendProperties, LenProperties
<1> HIDE DEF long, n
<1>2. F = IF u.changed /\ ~u.mem.state THEN E \cup {n} ELSE E
  <2>1. \A i \in DOMAIN long : i \in DOMAIN list \/ i = n
    <3>1. \A i \in 1 .. n : i \in 1 .. n - 1 \/ i = n
      BY <1>1, LastOfInterval
    <3> QED
      BY <1>1, <3>1
  <2>2. DOMAIN list \subseteq DOMAIN long /\ n \in DOMAIN long
    BY <1>1, LastOfInterval
  <2>3. n \in F <=> u.changed /\ ~u.mem.state
    BY <1>1, <2>2 DEF Ended
  <2>4. \A i \in DOMAIN list : i \in F <=> i \in E
    BY <1>1, <2>2 DEF Ended
  <2>5. F \subseteq DOMAIN long /\ E \subseteq DOMAIN list
    BY DEF Ended
  <2>6. n \notin DOMAIN list
    BY <1>1
  <2> HIDE DEF F, E
  <2>7. \A i : i \in F <=> i \in E \/ (i = n /\ u.changed /\ ~u.mem.state)
    BY <2>1, <2>2, <2>3, <2>4, <2>5, <2>6
  <2> QED
    BY <2>7
<1>3. E \subseteq F /\ F \subseteq 1 .. n /\ E \subseteq DOMAIN list
  BY <1>1, <1>2 DEF Ended
<1>4. \A i \in F : d[i] \in Int
  BY <1>1, <1>2, <1>3
<1>5. \A i \in E : d[i] = e[i]
  BY <1>1, <1>3
<1>6. IsFiniteSet(F) /\ IsFiniteSet(E)
  <2>1. IsFiniteSet(1 .. n)
    BY <1>1, FS_Interval
  <2> QED
    BY <1>3, <2>1, FS_Subset
<1>7. PICK h : Adds(d, F, h)
  <2> HIDE DEF d, F, E
  <2> QED
    BY <1>1, <1>3, <1>4, AddsExists
<1>8. RoundSum(long) = h[F]
  <2> HIDE DEF F
  <2>1. SumOver(long, F) = h[F]
    BY <1>6, <1>7, SumIs
  <2> QED
    BY <2>1 DEF RoundSum, F
<1>9. RoundSum(list) = h[E] /\ h[E] \in Int
  <2> DEFINE g == [T \in SUBSET E |-> h[T]]
  <2>1. Adds(e, E, g)
    <3> HIDE DEF d, e, E, F
    <3>1. h \in [SUBSET F -> Int] /\ h[{}] = 0
          /\ \A T \in SUBSET F : \A i \in T : h[T] = d[i] + h[T \ {i}]
      BY <1>7 DEF Adds
    <3>2. \A T \in SUBSET E : T \in SUBSET F /\ g[T] = h[T]
      BY <1>3
    <3>3. g \in [SUBSET E -> Int] /\ g[{}] = 0
      BY <3>1, <3>2
    <3>4. ASSUME NEW T \in SUBSET E, NEW i \in T PROVE g[T] = e[i] + g[T \ {i}]
      <4>1. T \ {i} \in SUBSET E /\ T \in SUBSET F /\ e[i] = d[i]
        BY <1>3, <1>5
      <4>2. h[T] = d[i] + h[T \ {i}]
        BY <3>1, <4>1
      <4>3. g[T] = h[T] /\ g[T \ {i}] = h[T \ {i}]
        BY <3>2, <4>1
      <4> QED
        BY <4>1, <4>2, <4>3
    <3> HIDE DEF g
    <3> QED
      BY <3>3, <3>4 DEF Adds
  <2>2. g[E] = h[E] /\ h[E] \in Int
    BY <1>3, <1>7 DEF Adds
  <2> HIDE DEF E, g
  <2>3. SumOver(list, E) = g[E]
    BY <1>6, <2>1, SumIs
  <2> QED
    BY <2>2, <2>3 DEF RoundSum, E
<1>10. CASE u.changed /\ ~u.mem.state
  <2>1. F = E \cup {n} /\ n \notin E /\ n \in F /\ d[n] = u.mem.duration
    BY <1>1, <1>2, <1>3, <1>10
  <2>2. h[F] = d[n] + h[F \ {n}]
    <3> HIDE DEF d, E, F
    <3> QED
      BY <1>7, <2>1 DEF Adds
  <2>3. F \ {n} = E
    <3> HIDE DEF E, F
    <3> QED
      BY <2>1
  <2> HIDE DEF d, E, F
  <2>4. d[n] \in Int
    BY <1>4, <2>1
  <2>5. h[F] = h[E] + d[n]
    <3>1. h[F] = d[n] + h[E]
      BY <2>2, <2>3
    <3>2. h[E] \in Int
      BY <1>9
    <3> QED
      BY <2>4, <3>1, <3>2
  <2> QED
    BY <1>8, <1>9, <1>10, <2>1, <2>5 DEF long
<1>11. CASE ~(u.changed /\ ~u.mem.state)
  <2>1. F = E
    BY <1>2, <1>11
  <2> HIDE DEF E, F
  <2>2. h[F] = h[E] + 0
    BY <1>9, <2>1
  <2> QED
    BY <1>8, <1>9, <1>11, <2>2 DEF long
<1> QED
  BY <1>9, <1>10, <1>11

(* No updates, no rounds.                                                   *)
LEMMA NoRounds ==
    ASSUME NEW list, list = << >>
    PROVE  RoundSum(list) = 0
<1> DEFINE d == [i \in {} |-> list[i].mem.duration]
           h == [T \in SUBSET {} |-> 0]
<1>1. Ended(list) = {}
  BY DEF Ended
<1>2. Adds(d, {}, h)
  BY DEF Adds
<1>3. h[{}] = 0
  OBVIOUS
<1> HIDE DEF h
<1>4. SumOver(list, {}) = h[{}]
  BY <1>2, FS_EmptySet, SumIs
<1> QED
  BY <1>1, <1>3, <1>4 DEF RoundSum
-----------------------------------------------------------------------------
(* What a call adds to the total: the duration of the round that it ends. *)
Added(changed, s) == IF changed /\ ~s.state THEN s.duration ELSE 0

(* A stopwatch adds the duration of the round that it ends.                 *)
LEMMA StopwatchAdds ==
    ASSUME NEW s \in StopwatchMem, NEW m \in Message, NEW now0 \in Nat
    PROVE  LET r == StopwatchHandle(s, m, now0)
               x == FinalMemory(r)
           IN  x.cumulativeTime = s.cumulativeTime + Added(r.outcome = "changed", x)
<1> DEFINE r == StopwatchHandle(s, m, now0)
           x == FinalMemory(r)
<1>0. s.cumulativeTime \in Int /\ s.startTime \in Int /\ s.state \in BOOLEAN
  BY DEF StopwatchMem
<1>1. CASE r = Rejected(s) \/ r = Unchanged(s)
  <2>1. x = s /\ r.outcome # "changed"
    BY <1>1 DEF FinalMemory, FinalOf, Unchanged, Rejected, Run
  <2> HIDE DEF r, x
  <2> QED
    BY <1>0, <2>1 DEF Added, r, x
<1>2. ASSUME NEW t \in Nat, NEW new \in StopwatchMem,
             \/ new = Started(s, t)
             \/ new = Running(s, t) /\ s.state
             \/ new = Stopped(s, t),
             r.outcome = "changed", x = Recount(new, m)
      PROVE  x.cumulativeTime = s.cumulativeTime + Added(r.outcome = "changed", x)
  <2>1. /\ x.state = new.state /\ x.duration = new.duration
        /\ x.cumulativeTime = new.cumulativeTime
    BY <1>2 DEF StopwatchMem, Recount
  <2>2. CASE new = Started(s, t)
    <3>1. new.state /\ new.cumulativeTime = s.cumulativeTime
      BY <2>2 DEF StopwatchMem, Started
    <3> HIDE DEF r, x
    <3> QED
      BY <1>0, <2>1, <3>1 DEF Added
  <2>3. CASE new = Running(s, t) /\ s.state
    <3>1. new.state /\ new.cumulativeTime = s.cumulativeTime
      BY <2>3 DEF StopwatchMem, Running
    <3> HIDE DEF r, x
    <3> QED
      BY <1>0, <2>1, <3>1 DEF Added
  <2>4. CASE new = Stopped(s, t)
    <3>1. /\ ~new.state /\ new.duration = t - s.startTime
          /\ new.cumulativeTime = s.cumulativeTime + (t - s.startTime)
      BY <2>4 DEF StopwatchMem, Stopped
    <3> HIDE DEF r, x
    <3> QED
      BY <1>0, <1>2, <2>1, <3>1 DEF Added
  <2> QED
    BY <1>2, <2>2, <2>3, <2>4
<1>3. \/ r = Rejected(s) \/ r = Unchanged(s)
      \/ \E t \in Nat, new \in StopwatchMem :
            /\ \/ new = Started(s, t)
               \/ new = Running(s, t) /\ s.state
               \/ new = Stopped(s, t)
            /\ r.outcome = "changed" /\ x = Recount(new, m)
  BY StopwatchCall
<1> HIDE DEF r, x
<1> QED
  BY <1>1, <1>2, <1>3 DEF r, x

(* So does a timer.                                                         *)
LEMMA TimerAdds ==
    ASSUME NEW s \in TimerMem, NEW m \in Message
    PROVE  LET r == TimerHandle(s, m)
               x == FinalMemory(r)
           IN  x.totalDuration = s.totalDuration + Added(r.outcome = "changed", x)
<1> DEFINE new == IF m.state = TRUE THEN TimerStarted(s, m.time) ELSE TimerStopped(s, m.time)
           r == TimerHandle(s, m)
           x == FinalMemory(r)
<1>0. s.totalDuration \in Int /\ s.startTime \in Int /\ m.time \in Int
  BY MessageTyped DEF TimerMem
<1>1. \/ r = Rejected(s) \/ r = Unchanged(s)
      \/ r.outcome = "changed" /\ x = new
  BY TimerRunStages
<1>2. CASE r = Rejected(s) \/ r = Unchanged(s)
  <2>1. x = s /\ r.outcome # "changed"
    BY <1>2 DEF FinalMemory, FinalOf, Unchanged, Rejected, Run
  <2> HIDE DEF r, x
  <2> QED
    BY <1>0, <2>1 DEF Added, r, x
<1>3. CASE r.outcome = "changed" /\ x = new
  <2>1. \/ new.state /\ new.totalDuration = s.totalDuration
        \/ /\ ~new.state /\ new.duration = m.time - s.startTime
           /\ new.totalDuration = s.totalDuration + (m.time - s.startTime)
    BY DEF TimerMem, TimerStarted, TimerStopped
  <2> HIDE DEF r, x, new
  <2>2. x.totalDuration = s.totalDuration + Added(r.outcome = "changed", x)
    BY <1>0, <1>3, <2>1 DEF Added
  <2> QED
    BY <2>2 DEF r, x
<1> QED
  BY <1>1, <1>2, <1>3

(* Both handlers, in one.                                                   *)
LEMMA HandleAdds ==
    ASSUME NEW f \in Timed, NEW s \in Memory(Type[f]), NEW m \in Messages, NEW t \in Nat
    PROVE  LET r == Handle(Type[f], s, m, t)
               x == FinalMemory(r)
           IN  TotalOf(f, x) = TotalOf(f, s) + Added(r.outcome = "changed", x)
<1>0. m \in Message
  BY TimedFunction
<1>1. CASE Type[f] = "stopwatch"
  <2>1. s \in StopwatchMem /\ Handle(Type[f], s, m, t) = StopwatchHandle(s, m, t)
    BY <1>1, TimedFunction
  <2>2. \A x : TotalOf(f, x) = x.cumulativeTime
    BY <1>1 DEF TotalOf
  <2> QED
    BY <1>0, <2>1, <2>2, StopwatchAdds
<1>2. CASE Type[f] = "timer"
  <2>1. s \in TimerMem /\ Handle(Type[f], s, m, t) = TimerHandle(s, m)
    BY <1>2, TimedFunction
  <2>2. \A x : TotalOf(f, x) = x.totalDuration
    BY <1>2 DEF TotalOf
  <2> QED
    BY <1>0, <2>1, <2>2, TimerAdds
<1> QED
  BY <1>1, <1>2 DEF Timed, OfType

(* The end and the duration of a round that was announced are times. *)
LEMMA LapTyped ==
    ASSUME NEW f \in Timed, NEW s \in ClosedRounds(f), ~s.state
    PROVE  s.duration \in Int
<1>1. f \in Functions /\ (Type[f] = "stopwatch" \/ Type[f] = "timer")
  BY DEF Timed, OfType
<1>2. s.startTime \in Nat /\ EndOf(f, s) \in Nat \cup {None}
  <2>1. CASE Type[f] = "stopwatch"
    BY <2>1 DEF ClosedRounds, Memory, StopwatchMem, EndOf
  <2>2. CASE Type[f] = "timer"
    BY <2>2 DEF ClosedRounds, Memory, TimerMem, EndOf
  <2> QED
    BY <1>1, <2>1, <2>2
<1>3. EndOf(f, s) # None /\ s.duration = EndOf(f, s) - s.startTime
  BY DEF ClosedRounds
<1> QED
  BY <1>2, <1>3

(* The total a call has started from is the sum of what was announced, and *)
(* what it will leave is that and what it is going to announce.            *)
TotalAt(f) ==
    /\ TotalOf(f, Entry(f)) = RoundSum(updates[f])
    /\ Busy(f) => TotalOf(f, Outlook(f)) =
                    TotalOf(f, Entry(f)) + Added(Call(f).outcome = "changed", Outlook(f))

(* As long as nothing fails and the process lives this is true of every     *)
(* timed function.                                                          *)
TotalInvariant == RoundsInvariant /\ (Undisturbed => \A f \in Timed : TotalAt(f))

(* It is kept by every step without a fault or a restart.                   *)
LEMMA TotalStep ==
    ASSUME EngineInvariant, EngineInvariant', RoundsInvariant, [AnyStep]_vars,
           faults' = 0, restarts' = 0, NEW f \in Timed, TotalAt(f)
    PROVE  TotalAt(f)'
<1>0. f \in Functions
  BY DEF Timed, OfType
<1>1. /\ mem[f] \in Memory(Type[f]) /\ now \in Nat
      /\ updates[f] \in Seq(Update(f)) /\ updates'[f] \in Seq(Update(f))
  BY <1>0 DEF EngineInvariant, TypeOK
<1>2. CASE Keeps(f) \/ NextStage(f)
  <2>1. /\ Entry(f)' = Entry(f) /\ Outlook(f)' = Outlook(f) /\ updates'[f] = updates[f]
        /\ Busy(f)' => Busy(f) /\ Call(f)'.outcome = Call(f).outcome
    BY <1>0, <1>2, OutlookStep DEF Keeps, NextStage, Entry
  <2> QED
    BY <2>1 DEF TotalAt, TotalOf
<1>3. CASE Begins(f)
  <2>1. PICK m \in Messages :
           /\ Call(f)'.entry = mem[f]
           /\ Call(f)'.outcome = Handle(Type[f], mem[f], m, now).outcome
           /\ Outlook(f)' = FinalMemory(Handle(Type[f], mem[f], m, now))
    BY <1>3 DEF Begins, Outlook, Due, FinalMemory
  <2>2. Entry(f)' = mem[f] /\ Entry(f) = mem[f] /\ updates'[f] = updates[f]
    BY <1>3, <2>1 DEF Begins, Entry
  <2>3. \A s \in Memory(Type[f]), n \in Messages, t \in Nat :
           TotalOf(f, FinalMemory(Handle(Type[f], s, n, t))) =
           TotalOf(f, s) + Added(Handle(Type[f], s, n, t).outcome = "changed",
                                 FinalMemory(Handle(Type[f], s, n, t)))
    BY HandleAdds
  <2>4. TotalOf(f, Outlook(f)') = TotalOf(f, mem[f]) + Added(Call(f)'.outcome = "changed", Outlook(f)')
    BY <1>1, <2>1, <2>3
  <2> QED
    BY <2>2, <2>4 DEF TotalAt, TotalOf
<1>4. Ends(f) => /\ Entry(f)' = mem[f] /\ Outlook(f) = mem[f] /\ Busy(f) /\ ~Busy(f)'
                 /\ TotalOf(f, mem[f]) = RoundSum(updates[f]) + Added(Call(f).outcome = "changed", mem[f])
  BY <1>0, OutlookStep DEF Ends, Entry, TotalAt
<1>5. /\ \A i \in Ended(updates[f]) : updates[f][i].mem.duration \in Int
      /\ Busy(f) /\ Call(f).outcome = "changed" /\ ~Outlook(f).state => Outlook(f).duration \in Int
  <2>1. ChangesInto(f, ClosedRounds(f))
    BY DEF RoundsInvariant
  <2>2. \A s \in ClosedRounds(f) : ~s.state => s.duration \in Int
    BY LapTyped
  <2> DEFINE H == ClosedRounds(f)
  <2> HIDE DEF H
  <2> QED
    BY <2>1, <2>2 DEF ChangesInto, Ended, H
<1>6. \A list \in Seq(Update(f)), u \in Update(f) :
         /\ \A i \in Ended(list) : list[i].mem.duration \in Int
         /\ u.changed /\ ~u.mem.state => u.mem.duration \in Int
         => /\ RoundSum(list) \in Int
            /\ RoundSum(Append(list, u)) = RoundSum(list) + Added(u.changed, u.mem)
  BY RoundSumGrows DEF Added
<1>7. CASE Returns(f)
  <2>1. updates'[f] = updates[f] /\ Call(f).outcome # "changed" /\ Ends(f)
    BY <1>7 DEF Returns
  <2>2. RoundSum(updates[f]) \in Int
    <3>1. \A s \in Memory(Type[f]) : TotalOf(f, s) \in Int
      BY DEF Timed, OfType, TotalOf, Memory, StopwatchMem, TimerMem
    <3>2. Entry(f) \in Memory(Type[f])
      BY <1>0, <1>1, CallTyped DEF Entry, Pending
    <3> QED
      BY <3>1, <3>2 DEF TotalAt
  <2>3. TotalOf(f, mem[f]) = RoundSum(updates[f])
    BY <1>4, <2>1, <2>2 DEF Added
  <2> QED
    BY <1>4, <2>1, <2>3 DEF TotalAt, TotalOf
<1>8. CASE Announces(f)
  <2>1. Ends(f)
    BY <1>8 DEF Announces
  <2>2. PICK update \in Update(f) :
           /\ updates'[f] = Append(updates[f], update)
           /\ update.mem = mem[f]
           /\ update.changed <=> Call(f).outcome = "changed"
    BY <1>0, <1>8, AnnouncedTyped
  <2>3. RoundSum(updates'[f]) = RoundSum(updates[f]) + Added(update.changed, mem[f])
    BY <1>1, <1>4, <1>5, <1>6, <2>1, <2>2
  <2>5. Added(update.changed, mem[f]) = Added(Call(f).outcome = "changed", mem[f])
    BY <2>2 DEF Added
  <2>4. TotalOf(f, mem[f]) = RoundSum(updates'[f])
    BY <1>4, <2>1, <2>3, <2>5
  <2> QED
    BY <1>4, <2>1, <2>4 DEF TotalAt, TotalOf
<1> QED
  BY <1>0, <1>2, <1>3, <1>7, <1>8, FunctionStep DEF StoresRow, LosesRow, GivesUp, StartsAgain

(* It is true at first.                                                     *)
LEMMA TotalInit == Init => TotalInvariant
<1> SUFFICES ASSUME Init PROVE TotalInvariant
  OBVIOUS
<1>1. RoundsInvariant
  BY RoundsInit
<1>2. ASSUME NEW f \in Timed PROVE TotalAt(f)
  <2>1. f \in Functions /\ (Type[f] = "stopwatch" \/ Type[f] = "timer")
    BY DEF Timed, OfType
  <2>2. mem[f] = New(Type[f], 0) /\ updates[f] = << >> /\ ~Busy(f)
    BY <2>1 DEF Init, Busy, IdleFunction, Handling
  <2>3. TotalOf(f, New(Type[f], 0)) = 0
    BY <2>1 DEF New, TotalOf, StopwatchNew, TimerNew
  <2>4. RoundSum(updates[f]) = 0
    BY <2>2, NoRounds
  <2> QED
    BY <2>2, <2>3, <2>4 DEF TotalAt, Entry
<1> QED
  BY <1>1, <1>2 DEF TotalInvariant

(* It is inductive, with the rounds and the common invariant.               *)
LEMMA TotalInvariantStep ==
    ASSUME TotalInvariant, EngineInvariant, [AnyStep]_vars
    PROVE  TotalInvariant'
<1>1. EngineInvariant' /\ RoundsInvariant /\ RoundsInvariant'
  BY EngineStep, RoundsStep DEF TotalInvariant
<1>2. ASSUME Undisturbed', NEW f \in Timed
      PROVE  TotalAt(f)'
  <2>1. faults' = 0 /\ restarts' = 0
    BY <1>2 DEF Undisturbed
  <2>2. Undisturbed
    <3>1. faults \in Nat /\ restarts \in Nat
      BY DEF EngineInvariant, TypeOK
    <3> QED
      BY <2>1, <3>1, Forward DEF Undisturbed
  <2> QED
    BY <1>1, <2>1, <2>2, TotalStep DEF TotalInvariant
<1> QED
  BY <1>1, <1>2 DEF TotalInvariant

(* Between calls it is what TotalIsSum asks for.                            *)
LEMMA TotalShown == TotalInvariant => TotalIsSum
<1> SUFFICES ASSUME TotalInvariant, Undisturbed, NEW f \in Timed, IdleFunction(f)
             PROVE  TotalOf(f, mem[f]) =
                        MapThenSumSet(LAMBDA i : updates[f][i].mem.duration,
                                      {i \in DOMAIN updates[f] :
                                          updates[f][i].changed /\ ~updates[f][i].mem.state})
  BY DEF TotalIsSum
<1>1. TotalOf(f, mem[f]) = RoundSum(updates[f])
  BY DEF TotalInvariant, TotalAt, Entry, Busy
<1> QED
  BY <1>1 DEF RoundSum, SumOver, Ended

(* The total of a stopwatch or a timer is the sum of the rounds that were   *)
(* announced, while nothing fails and the process lives.                    *)
THEOREM TotalIsSumHolds == Spec => []TotalIsSum
<1>1. Init => TotalInvariant
  BY TotalInit
<1>2. TotalInvariant /\ EngineInvariant /\ [AnyStep]_vars => TotalInvariant'
  BY TotalInvariantStep
<1>3. TotalInvariant => TotalIsSum
  BY TotalShown
<1> QED
  BY <1>1, <1>2, <1>3, EngineCorrect, PTL DEF AnyStep, Spec
-----------------------------------------------------------------------------
(* A step beside the workers: somebody who takes no mutex adds a row, moves *)
(* a timestamp, or meets a fault.                                           *)
Aside ==
    /\ UNCHANGED << now, mu, pc, msg, run, mem, meta, registered, updates, synced,
                    deliveries, restarts >>
    /\ TypeOK'
    /\ faults' >= faults
    /\ \A f \in Functions : \A r \in DOMAIN history[f] :
          r \in DOMAIN history'[f] /\ history'[f][r] = history[f][r]

(* Such a step keeps the common invariant,                                  *)
LEMMA AsideEngine ==
    ASSUME EngineInvariant, Aside
    PROVE  EngineInvariant'
<1>1. /\ TypeOK /\ MutualExclusion
      /\ \A w \in Workers : pc[w] # "idle" => msg[w] \in Messages
      /\ faults = 0 => registered = Functions
      /\ \A w \in Workers : Handling(w) /\ run[w].failed => faults > 0
  BY DEF EngineInvariant
<1>2. faults \in Nat /\ faults' \in Nat /\ faults' >= faults
  BY <1>1 DEF Aside, TypeOK
<1>3. (faults' = 0 => faults = 0) /\ (faults > 0 => faults' > 0)
  BY <1>2
<1> QED
  BY <1>1, <1>3 DEF Aside, EngineInvariant, MutualExclusion, Handling

(* the rounds,                                                              *)
LEMMA AsideRounds ==
    ASSUME RoundsInvariant, Aside
    PROVE  RoundsInvariant'
  BY DEF Aside, RoundsInvariant, StaysIn, ChangesInto, OpenRounds, ClosedRounds, Due, Busy, IdleFunction,
         Call, Outlook, Handling, Fn

(* the totals,                                                              *)
LEMMA AsideTotal ==
    ASSUME EngineInvariant, TotalInvariant, Aside
    PROVE  TotalInvariant'
<1>1. RoundsInvariant'
  BY AsideRounds DEF TotalInvariant
<1>2. Undisturbed' => Undisturbed
  <2>1. faults \in Nat /\ faults' \in Nat
    BY DEF EngineInvariant, Aside, TypeOK
  <2> QED
    BY <2>1 DEF Undisturbed, Aside
<1>3. ASSUME NEW f \in Timed, TotalAt(f)
      PROVE  TotalAt(f)'
  BY <1>3 DEF Aside, TotalAt, Entry, Due, Busy, IdleFunction, Call, Outlook, Handling, Fn
<1> QED
  BY <1>1, <1>2, <1>3 DEF TotalInvariant

(* what is on record of an announcement, as rows stay where they are,       *)
LEMMA AsidePersist ==
    ASSUME PersistInvariant, TypeOK, Aside
    PROVE  PersistInvariant'
<1>1. ASSUME NEW f \in Functions, NEW rows, rows \subseteq DOMAIN history[f]
      PROVE  /\ rows \subseteq DOMAIN history'[f]
             /\ \A type, x : \A r \in rows :
                   SameFact(type, x, history[f][r]) => SameFact(type, x, history'[f][r])
             /\ \A type, writes, x :
                   Told(type, history[f], rows, writes, x) => Told(type, history'[f], rows, writes, x)
  <2>1. \A r \in rows : r \in DOMAIN history'[f] /\ history'[f][r] = history[f][r]
    BY <1>1 DEF Aside
  <2> QED
    BY <2>1 DEF Told
<1>2. ASSUME NEW f \in Functions, NEW i \in DOMAIN updates'[f]
      PROVE  OnRecord(Type[f], history'[f], updates'[f][i])
  <2>1. i \in DOMAIN updates[f] /\ updates'[f][i] = updates[f][i]
    BY DEF Aside
  <2> DEFINE u == updates[f][i]
  <2>2. OnRecord(Type[f], history[f], u)
    BY <2>1 DEF PersistInvariant
  <2> HIDE DEF u
  <2>3. OnRecord(Type[f], history'[f], u)
    BY <1>1, <2>2 DEF OnRecord
  <2> QED
    BY <2>1, <2>3 DEF u
<1>3. ASSUME NEW w \in Workers
      PROVE  PersistAt(w)'
  <2>1. PersistAt(w)
    BY DEF PersistInvariant
  <2>2. Fn(w)' = Fn(w) /\ run'[w] = run[w] /\ mem' = mem
    BY DEF Aside, Fn
  <2>3. (Handling(w)' <=> Handling(w)) /\ (Changed(w)' <=> Changed(w))
    BY DEF Aside, Handling, Changed
  <2> SUFFICES ASSUME Handling(w), Changed(w), ~run[w].failed
               PROVE  PersistAt(w)'
    BY <2>2, <2>3 DEF PersistAt
  <2>4. Fn(w) \in Functions
    BY HandlingTyped
  <2>5. /\ run[w].onerr # "drop"
        /\ run[w].rows \subseteq DOMAIN history[Fn(w)]
        /\ run[w].rows # {} \/ run[w].writes # << >>
        /\ \A x \in News(Type[Fn(w)], run[w].entry, FinalOf(mem[Fn(w)], run[w].writes)) :
              Told(Type[Fn(w)], history[Fn(w)], run[w].rows, run[w].writes, x)
    BY <2>1 DEF PersistAt
  <2>6. /\ run[w].rows \subseteq DOMAIN history'[Fn(w)]
        /\ \A x \in News(Type[Fn(w)], run[w].entry, FinalOf(mem[Fn(w)], run[w].writes)) :
              Told(Type[Fn(w)], history'[Fn(w)], run[w].rows, run[w].writes, x)
    BY <1>1, <2>4, <2>5
  <2> QED
    BY <2>2, <2>3, <2>5, <2>6 DEF PersistAt
<1> QED
  BY <1>2, <1>3 DEF PersistInvariant

(* what subscribers are shown,                                              *)
LEMMA AsideSync ==
    ASSUME SyncInvariant, Aside
    PROVE  SyncInvariant'
  BY DEF Aside, SyncInvariant, SyncAt, ShownStays, IdleFunction, Handling, Fn

(* and the place of every call in the serial order.                         *)
LEMMA AsideSerial ==
    ASSUME EngineInvariant, SerialInvariant, Aside
    PROVE  SerialInvariant' /\ UNCHANGED << Settled, AnnouncedMemory >>
<1>1. SerialInvariant'
  BY DEF Aside, SerialInvariant, Handling, Fn, RestOf, ResultsFrom
<1>2. MutualExclusion'
  BY DEF Aside, EngineInvariant, MutualExclusion, Handling
<1> QED
  BY <1>1, <1>2, QuietStep DEF EngineInvariant, Aside, Handling, Fn

(* Who sets a timestamp sets it behind a row,                               *)
LEMMA AsideStampRow ==
    ASSUME StampHasRow, Aside,
           \A g \in Functions : \/ stamp'[g] = stamp[g]
                                \/ \E i \in DOMAIN history[g] : history[g][i].time = stamp'[g]
    PROVE  StampHasRow'
<1> SUFFICES ASSUME NEW g \in Functions \ OnUpdate, stamp'[g] # ZeroTime
             PROVE  \E r \in DOMAIN history'[g] : history'[g][r].time \in {stamp'[g], ZeroTime}
  BY DEF StampHasRow
<1>1. PICK r \in DOMAIN history[g] : history[g][r].time \in {stamp'[g], ZeroTime}
  <2>1. CASE stamp'[g] = stamp[g]
    BY <2>1 DEF StampHasRow
  <2>2. CASE stamp'[g] # stamp[g]
    BY <2>2
  <2> QED
    BY <2>1, <2>2
<1>2. r \in DOMAIN history'[g] /\ history'[g][r] = history[g][r]
  BY DEF Aside
<1> QED
  BY <1>1, <1>2

(* and leaves no call without one.                                          *)
LEMMA AsideStampAt ==
    ASSUME TypeOK, Aside, NEW w \in Workers, StampAt(w),
           \A g \in Functions : \/ stamp'[g] = stamp[g]
                                \/ \E i \in DOMAIN history[g] : history[g][i].time = stamp'[g]
    PROVE  StampAt(w)'
<1>1. Fn(w)' = Fn(w) /\ run'[w] = run[w]
  BY DEF Aside, Fn
<1>2. (Handling(w)' <=> Handling(w)) /\ (Changed(w)' <=> Changed(w))
  BY DEF Aside, Handling, Changed
<1> SUFFICES ASSUME Handling(w), Fn(w) \notin OnUpdate, Changed(w), ~run[w].failed
             PROVE  StampAt(w)'
  BY <1>1, <1>2 DEF StampAt
<1>3. Fn(w) \in Functions
  BY HandlingTyped
<1>4. RowAt(Fn(w), ZeroTime) => \E r \in DOMAIN history'[Fn(w)] : history'[Fn(w)][r].time = ZeroTime
  BY <1>3 DEF RowAt, Aside
<1>5. \/ run[w].writes # << >>
      \/ stamp'[Fn(w)] # ZeroTime
      \/ \E r \in DOMAIN history'[Fn(w)] : history'[Fn(w)][r].time = ZeroTime
  <2>1. CASE run[w].writes # << >> \/ RowAt(Fn(w), ZeroTime)
    BY <1>4, <2>1
  <2>2. CASE stamp[Fn(w)] # ZeroTime /\ stamp'[Fn(w)] = ZeroTime
    <3>1. \E i \in DOMAIN history[Fn(w)] : history[Fn(w)][i].time = ZeroTime
      BY <1>3, <2>2
    <3> QED
      BY <1>3, <3>1 DEF Aside
  <2> QED
    BY <2>1, <2>2 DEF StampAt
<1> QED
  BY <1>1, <1>5 DEF StampAt, RowAt

-----------------------------------------------------------------------------
(* What is due to be stored, and what has been: a call brings its rows, and *)
(* they go to the history one by one, or are lost.                          *)
LEMMA DueStep ==
    ASSUME EngineInvariant, [AnyStep]_vars, NEW f \in Functions
    PROVE  /\ \/ history'[f] = history[f]
              \/ Due(f) # << >> /\ history'[f] = Append(history[f], RowOf(Head(Due(f))))
           /\ \/ Due(f)' = Due(f)
              \/ Due(f)' = << >>
              \/ Due(f) # << >> /\ Due(f)' = Tail(Due(f))
              \/ \E m \in Messages : m.fn = f /\ Due(f)' = Handle(Type[f], mem[f], m, now).writes
<1>1. CASE Keeps(f)
  BY <1>1, OutlookStep DEF Keeps, NotLogged
<1>2. CASE Begins(f)
  BY <1>2, OutlookBegins DEF Begins, NotLogged
<1>3. CASE StoresRow(f) \/ LosesRow(f)
  BY <1>3, OutlookStep DEF StoresRow, LosesRow, NextStage, Logged, NotLogged, Due
<1>4. CASE GivesUp(f)
  BY <1>4, OutlookStep DEF GivesUp, Logged, NotLogged, Due
<1>5. CASE Returns(f) \/ Announces(f) \/ StartsAgain(f)
  BY <1>5, OutlookStep DEF Returns, Announces, Ends, StartsAgain, NotLogged
<1> QED
  BY <1>1, <1>2, <1>3, <1>4, <1>5, FunctionStep

(* Whatever every write of the handler of f is like, so are its rows.       *)
LEMMA RowsAlike ==
    ASSUME EngineInvariant, [AnyStep]_vars, NEW f \in Functions, NEW R,
           \A i \in DOMAIN history[f] : history[f][i] \in R,
           \A i \in DOMAIN Due(f) : RowOf(Due(f)[i]) \in R,
           \A m \in Messages : m.fn = f =>
              LET writes == Handle(Type[f], mem[f], m, now).writes
              IN  \A i \in DOMAIN writes : RowOf(writes[i]) \in R
    PROVE  /\ \A i \in DOMAIN history'[f] : history'[f][i] \in R
           /\ \A i \in DOMAIN Due(f)' : RowOf(Due(f)'[i]) \in R
<1> DEFINE W == Writes(Memory(Type[f]))
<1>1. history[f] \in Seq(Row) /\ Due(f) \in Seq(W)
  <2>1. Busy(f) => Call(f).writes \in Seq(W)
    BY CallTyped DEF Pending
  <2> HIDE DEF W
  <2>2. << >> \in Seq(W)
    OBVIOUS
  <2>3. Due(f) \in Seq(W)
    BY <2>1, <2>2 DEF Due
  <2>4. history[f] \in Seq(Row)
    BY DEF EngineInvariant, TypeOK
  <2> QED
    BY <2>3, <2>4
<1>2. Due(f) # << >> => RowOf(Head(Due(f))) \in R
  <2> SUFFICES ASSUME Due(f) # << >> PROVE RowOf(Head(Due(f))) \in R
    OBVIOUS
  <2>1. Head(Due(f)) = Due(f)[1] /\ 1 \in DOMAIN Due(f)
    BY <1>1, TailFields
  <2> QED
    BY <2>1
<1>3. \A i \in DOMAIN history'[f] : history'[f][i] \in R
  <2>1. CASE history'[f] = history[f]
    BY <2>1
  <2>2. CASE Due(f) # << >> /\ history'[f] = Append(history[f], RowOf(Head(Due(f))))
    <3> DEFINE row == RowOf(Head(Due(f)))
    <3>1. row \in R
      BY <1>2, <2>2
    <3>2. history'[f] = Append(history[f], row)
      BY <2>2
    <3> HIDE DEF row
    <3>3. \A i \in DOMAIN history'[f] : \/ i \in DOMAIN history[f] /\ history'[f][i] = history[f][i]
                                        \/ history'[f][i] = row
      BY <1>1, <3>2
    <3> QED
      BY <3>1, <3>3
  <2> QED
    BY <2>1, <2>2, DueStep
<1>4. \A i \in DOMAIN Due(f)' : RowOf(Due(f)'[i]) \in R
  <2>1. CASE Due(f) # << >> /\ Due(f)' = Tail(Due(f))
    <3>1. \A i \in DOMAIN Tail(Due(f)) : i + 1 \in DOMAIN Due(f) /\ Tail(Due(f))[i] = Due(f)[i + 1]
      BY <1>1, <2>1, TailFields
    <3> QED
      BY <2>1, <3>1
  <2>2. CASE Due(f)' = << >> \/ Due(f)' = Due(f)
    BY <2>2
  <2>3. CASE \E m \in Messages : m.fn = f /\ Due(f)' = Handle(Type[f], mem[f], m, now).writes
    BY <2>3
  <2> QED
    BY <2>1, <2>2, <2>3, DueStep
<1> QED
  BY <1>3, <1>4
=============================================================================
