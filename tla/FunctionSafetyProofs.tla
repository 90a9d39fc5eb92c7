------------------------ MODULE FunctionSafetyProofs ------------------------
(***************************************************************************)
(* The mutex of the application does its work; no change of a function is  *)
(* kept from its subscribers; and what is announced or listed has a row.   *)
(***************************************************************************)
EXTENDS FunctionEngineProofs, FunctionRefinement, SequenceTheorems

(* No step of the engine lets two workers in, or takes the mutex away. *)
LEMMA MutexStep ==
    ASSUME MutualExclusion, TypeOK, [AnyStep]_vars
    PROVE  MutualExclusion'
<1> USE EngineAssumption DEF MutualExclusion, Handling, TypeOK
<1>1. CASE Tick
  BY <1>1 DEF Tick, process
<1>2. CASE Restart
  BY <1>2 DEF Restart
<1>3. ASSUME NEW w \in Workers, Receive(w)
      PROVE  MutualExclusion'
  BY <1>3 DEF Receive
<1>4. ASSUME NEW w \in Workers, Ignore(w)
      PROVE  MutualExclusion'
  BY <1>4 DEF Ignore
<1>5. ASSUME NEW w \in Workers, StartHandle(w)
      PROVE  MutualExclusion'
  BY <1>5 DEF StartHandle, LockFree
<1>6. ASSUME NEW w \in Workers, Handling(w), Unlock(w)
      PROVE  MutualExclusion'
  BY <1>6 DEF Unlock
<1>7. ASSUME NEW w \in Workers, StoreRow(w) \/ Store(w) \/ StoreFails(w)
      PROVE  MutualExclusion'
  BY <1>6, <1>7 DEF Store, StoreRow, StoreFails, NextWrite
<1>8. ASSUME NEW w \in Workers,
             ReturnError(w) \/ ReturnSilently(w) \/ Publish(w) \/ PublishFails(w)
      PROVE  MutualExclusion'
  BY <1>6, <1>8 DEF ReturnError, ReturnSilently, Publish, PublishFails, Succeeded, Handled
<1>9. CASE UNCHANGED vars
  BY <1>9 DEF vars
<1> QED
  BY <1>1, <1>2, <1>3, <1>4, <1>5, <1>7, <1>8, <1>9 DEF AnyStep, Next, Lock, Proceed

(* A worker handles a message exactly while it holds the mutex.             *)
THEOREM MutualExclusionHolds == Spec => []MutualExclusion
<1>1. Init => MutualExclusion
  BY EngineAssumption DEF Init, MutualExclusion, Handling
<1>2. MutualExclusion /\ TypeOK /\ [Next]_vars => MutualExclusion'
  BY MutexStep DEF AnyStep
<1> QED
  BY <1>1, <1>2, TypeCorrect, PTL DEF Spec
-----------------------------------------------------------------------------
(* Making the first of the remaining writes does not change where they end. *)
LEMMA FinalOfTail ==
    ASSUME NEW W, NEW writes \in Seq(W), writes # << >>, NEW s
    PROVE  FinalOf(Head(writes).then, Tail(writes)) = FinalOf(s, writes)
<1> DEFINE rest == Tail(writes)
<1>1. /\ Len(writes) \in Nat \ {0}
      /\ rest \in Seq(W) /\ Len(rest) = Len(writes) - 1
      /\ \A i \in 1 .. Len(rest) : rest[i] = writes[i + 1]
      /\ Head(writes) = writes[1]
  BY HeadTailProperties, EmptySeq
<1> HIDE DEF rest
<1>2. CASE rest = << >>
  <2>1. Len(writes) = 1
    BY <1>1, <1>2
  <2> QED
    BY <1>1, <1>2, <2>1 DEF FinalOf, rest
<1>3. CASE rest # << >>
  <2>1. Len(rest) \in 1 .. Len(rest)
    BY <1>1, <1>3, EmptySeq
  <2>2. rest[Len(rest)] = writes[Len(writes)]
    BY <1>1, <2>1
  <2> QED
    BY <1>3, <2>2 DEF FinalOf, rest
<1> QED
  BY <1>2, <1>3

(* Levels in whole centimetres differ by a centimetre at least. *)
LEMMA SameCentimetre ==
    ASSUME NEW x \in Int, NEW y \in Int, x % 20 = 0, y % 20 = 0,
           ~(x - y >= 2), ~(y - x >= 2)
    PROVE  x = y
  OBVIOUS

(* A level that is taken without being announced lets the next one only be  *)
(* announced or the same.                                                   *)
LEMMA StaysTransitive ==
    ASSUME NEW type, NEW s \in Memory(type), NEW t \in Memory(type), NEW u \in Memory(type),
           Stays(type, s, t), Stays(type, t, u)
    PROVE  Stays(type, s, u)
<1>1. CASE type # "level"
  BY <1>1 DEF Stays
<1>2. CASE type = "level"
  <2>1. s.current \in Int /\ t.current \in Int /\ u.current \in Int
    BY <1>2 DEF Memory, LevelMem
  <2>2. CASE u.current = t.current \/ t.current = s.current
    BY <1>2, <2>2 DEF Stays
  <2>3. CASE u.current # t.current /\ t.current # s.current
    <3>1. /\ t.current % 20 = 0 /\ u.current % 20 = 0
          /\ ~(u.current - t.current >= 2) /\ ~(t.current - u.current >= 2)
      BY <1>2, <2>1, <2>3 DEF Stays, Centimetre, LevelHasChanged, IsNotZero, Abs
    <3> QED
      BY <2>1, <2>3, <3>1, SameCentimetre
  <2> QED
    BY <2>2, <2>3
<1> QED
  BY <1>1, <1>2

(* What stays is shown alike. *)
LEMMA StaysAlike ==
    ASSUME NEW type, NEW s \in Memory(type), NEW t \in Memory(type), Stays(type, s, t)
    PROVE  Alike(type, s, t)
<1>1. CASE type # "level"
  BY <1>1 DEF Stays, Alike
<1>2. CASE type = "level"
  <2>1. s.current \in Int /\ t.current \in Int
    BY <1>2 DEF Memory, LevelMem
  <2> QED
    BY <1>2, <2>1 DEF Stays, Alike, LevelHasChanged, IsNotZero, Abs
<1> QED
  BY <1>1, <1>2

(* What a worker will leave behind is a memory of the function's type. *)
LEMMA FinalTyped ==
    ASSUME NEW M, NEW s \in M, NEW writes \in Seq(Writes(M))
    PROVE  FinalOf(s, writes) \in M
<1>1. CASE writes = << >>
  BY <1>1 DEF FinalOf
<1>2. CASE writes # << >>
  <2>1. Len(writes) \in 1 .. Len(writes)
    BY <1>2, EmptySeq
  <2>2. writes[Len(writes)] \in Writes(M)
    BY <2>1, ElementOfSeq
  <2> QED
    BY <1>2, <2>2 DEF FinalOf, Writes
<1> QED
  BY <1>1, <1>2

(* The newest update shows a memory of the function's type. *)
LEMMA LastUpdateTyped ==
    ASSUME TypeOK, NEW f \in Functions, updates[f] # << >>
    PROVE  Last(updates[f]).mem \in Memory(Type[f])
<1>1. updates[f] \in Seq(Update(f))
  BY DEF TypeOK
<1>2. Len(updates[f]) \in 1 .. Len(updates[f])
  BY <1>1, EmptySeq
<1>3. Last(updates[f]) \in Update(f)
  BY <1>1, <1>2, ElementOfSeq DEF Last
<1> QED
  BY <1>3 DEF Update

(* A step that does not touch f, nor who is handling it, keeps it in sync. *)
LEMMA UntouchedInSync ==
    ASSUME NEW f \in Functions, SyncAt(f),
           mem'[f] = mem[f], updates'[f] = updates[f], synced'[f] = synced[f],
           \A w \in Workers :
              /\ (Handling(w) /\ Fn(w) = f) <=> (Handling(w) /\ Fn(w) = f)'
              /\ Handling(w) /\ Fn(w) = f => run'[w] = run[w]
    PROVE  SyncAt(f)'
<1>1. IdleFunction(f) <=> IdleFunction(f)'
  BY DEF IdleFunction
<1>2. \A s : ShownStays(f, s) <=> ShownStays(f, s)'
  BY DEF ShownStays
<1> QED
  BY <1>1, <1>2 DEF SyncAt, ShownStays

(* A step of a worker in another function touches nothing of f. *)
LEMMA ElsewhereInSync ==
    ASSUME TypeOK, NEW w \in Workers, StartHandle(w) \/ StoreRow(w) \/ Proceed(w),
           NEW f \in Functions, f # Fn(w), SyncAt(f)
    PROVE  SyncAt(f)'
<1>1. mem'[f] = mem[f] /\ updates'[f] = updates[f] /\ synced'[f] = synced[f]
  BY DEF TypeOK, StartHandle, Proceed, Store, StoreRow, StoreFails, ReturnError,
         ReturnSilently, Publish, PublishFails, Desync
<1>2. \A v \in Workers :
         /\ (Handling(v) /\ Fn(v) = f) <=> (Handling(v) /\ Fn(v) = f)'
         /\ v # w => run'[v] = run[v]
  BY DEF TypeOK, StartHandle, Proceed, Store, StoreRow, StoreFails, ReturnError,
         ReturnSilently, Publish, PublishFails, Unlock, Handling, Fn
<1> QED
  BY <1>1, <1>2, UntouchedInSync

(* The handler of a candid function starts from the memory that is shown,   *)
(* and if it will not announce the function it will not change the view.    *)
LEMMA StartInSync ==
    ASSUME TypeOK, MutualExclusion, NEW w \in Workers, StartHandle(w),
           NEW f \in Functions, f = Fn(w), Type[f] \in CandidTypes, SyncAt(f)
    PROVE  SyncAt(f)'
<1> DEFINE r == Handle(Type[f], mem[f], msg[w], now)
           started == [entry |-> mem[f], writes |-> r.writes, rows |-> {},
                       outcome |-> r.outcome, onerr |-> r.onerr, failed |-> FALSE]
<1>1. msg[w] \in Message /\ now \in Nat /\ mem[f] \in Memory(Type[f])
  BY DEF StartHandle, TypeOK
<1>2. r.outcome # "changed" => Stays(Type[f], mem[f], FinalOf(r.begin, r.writes))
  BY <1>1, HandleCandid DEF FinalMemory
<1>3. /\ mu = None /\ UNCHANGED << msg, updates, synced >>
      /\ pc' = [pc EXCEPT ![w] = "handling"]
      /\ mem' = [mem EXCEPT ![f] = r.begin]
      /\ run' = [run EXCEPT ![w] = started]
  BY DEF StartHandle, LockFree
<1> DEFINE begin == r.begin
<1> HIDE DEF r, begin
<1>4. mem'[f] = begin
  BY <1>3 DEF TypeOK, begin
<1>5. run'[w] = started
  BY <1>3 DEF TypeOK
<1>6. \A v \in Workers : ~Handling(v)
  BY <1>3, EngineAssumption DEF MutualExclusion
<1>7. \A v \in Workers : Handling(v)' <=> v = w
  BY <1>3, <1>6 DEF TypeOK, Handling
<1>8. synced[f] => ShownStays(f, mem[f])
  BY <1>6 DEF SyncAt, IdleFunction
<1>9. ~IdleFunction(f)'
  BY <1>3, <1>7 DEF IdleFunction, Fn
<1>10. synced'[f] => ShownStays(f, run[w].entry)'
  BY <1>3, <1>5, <1>8 DEF ShownStays
<1>11. run'[w].outcome # "changed" =>
          Stays(Type[f], run'[w].entry, FinalOf(mem'[f], run'[w].writes))
  BY <1>2, <1>4, <1>5 DEF begin
<1> QED
  BY <1>7, <1>9, <1>10, <1>11 DEF SyncAt

(* Once the worker has unlocked, nobody is handling anything. *)
LEMMA UnlockedInSync ==
    ASSUME TypeOK, MutualExclusion, NEW w \in Workers, Handling(w), Unlock(w),
           NEW f \in Functions, synced'[f] => ShownStays(f, mem[f])'
    PROVE  SyncAt(f)'
<1>1. \A v \in Workers : ~Handling(v)'
  BY EngineAssumption DEF MutualExclusion, TypeOK, Unlock, Handling
<1> QED
  BY <1>1 DEF SyncAt

(* A row that could not be stored is not among those of the call. *)
LEMMA RowsKept ==
    ASSUME TypeOK, NEW w \in Workers, run[w] \in Pending(Memory(Type[Fn(w)])),
           run' = [run EXCEPT ![w].writes = Tail(@), ![w].failed = @ \/ run[w].onerr = "join"]
    PROVE  run' = [run EXCEPT ![w].writes = Tail(@), ![w].rows = run[w].rows,
                              ![w].failed = run[w].failed \/ run[w].onerr = "join"]
<1> DEFINE failed == run[w].failed \/ run[w].onerr = "join"
<1>1. [run[w] EXCEPT !.writes = Tail(@), !.failed = failed]
      = [run[w] EXCEPT !.writes = Tail(@), !.rows = run[w].rows, !.failed = failed]
  BY DEF Pending
<1> HIDE DEF failed
<1>2. run' = [run EXCEPT ![w] = [run[w] EXCEPT !.writes = Tail(@), !.failed = failed]]
  BY DEF failed
<1> QED
  BY <1>1, <1>2 DEF failed

(* A row that is stored, or lost, leaves the end of the call where it was. *)
LEMMA WriteInSync ==
    ASSUME TypeOK, NEW w \in Workers, NextWrite(w), NEW f \in Functions, f = Fn(w),
           MutualExclusion, SyncAt(f),
           mem' = [mem EXCEPT ![f] = Head(run[w].writes).then],
           run'[w].writes = Tail(run[w].writes),
           run'[w].entry = run[w].entry,
           run'[w].outcome = run[w].outcome,
           UNCHANGED << pc, msg, updates, synced >>
    PROVE  SyncAt(f)'
<1>1. Handling(w) /\ run[w].writes # << >>
  BY DEF NextWrite
<1>2. run[w].writes \in Seq(Writes(Memory(Type[f])))
  BY <1>1, HandlingTyped DEF Pending
<1>3. mem'[f] = Head(run[w].writes).then
  BY DEF TypeOK
<1>4. FinalOf(mem'[f], run'[w].writes) = FinalOf(mem[f], run[w].writes)
  BY <1>1, <1>2, <1>3, FinalOfTail
<1>5. \A v \in Workers : Handling(v)' <=> v = w
  BY <1>1 DEF MutualExclusion, Handling
<1>6. ~IdleFunction(f)'
  BY <1>5 DEF IdleFunction, Fn
<1>7. synced'[f] => ShownStays(f, run[w].entry)'
  BY <1>1 DEF SyncAt, ShownStays
<1>8. run'[w].outcome # "changed" =>
          Stays(Type[f], run'[w].entry, FinalOf(mem'[f], run'[w].writes))
  BY <1>1, <1>4 DEF SyncAt
<1> QED
  BY <1>5, <1>6, <1>7, <1>8 DEF SyncAt

LEMMA StoreInSync ==
    ASSUME TypeOK, MutualExclusion, NEW w \in Workers, StoreRow(w) \/ StoreFails(w),
           NEW f \in Functions, f = Fn(w), SyncAt(f)
    PROVE  SyncAt(f)'
<1>1. NextWrite(w) /\ Handling(w) /\ updates' = updates
  BY DEF StoreRow, StoreFails, NextWrite
<1>2. run[w] \in Pending(Memory(Type[f]))
  BY <1>1, HandlingTyped
<1>3. CASE Unlock(w) /\ Desync(f)
  <2>1. ~synced'[f]
    BY <1>3 DEF Desync, TypeOK
  <2> QED
    BY <1>1, <1>3, <2>1, UnlockedInSync
<1>4. ASSUME NEW rows, NEW failed,
             run' = [run EXCEPT ![w].writes = Tail(@), ![w].rows = rows, ![w].failed = failed],
             mem' = [mem EXCEPT ![f] = Head(run[w].writes).then],
             UNCHANGED << pc, msg, synced >>
      PROVE  SyncAt(f)'
  <2>1. /\ run'[w].writes = Tail(run[w].writes)
        /\ run'[w].entry = run[w].entry
        /\ run'[w].outcome = run[w].outcome
    BY <1>2, <1>4 DEF TypeOK, Pending
  <2> QED
    BY <1>1, <1>4, <2>1, WriteInSync
<1>5. CASE StoreRow(w)
  <2>1. run' = [run EXCEPT ![w].writes = Tail(@),
                           ![w].rows = run[w].rows \cup {Len(history[f]) + 1},
                           ![w].failed = run[w].failed]
    BY <1>2, <1>5 DEF StoreRow, TypeOK, Pending
  <2> QED
    BY <1>4, <1>5, <2>1 DEF StoreRow
<1>6. CASE StoreFails(w)
  <2>1. CASE run[w].onerr = "stop"
    BY <1>3, <1>6, <2>1 DEF StoreFails
  <2>2. CASE run[w].onerr # "stop"
    <3>1. run' = [run EXCEPT ![w].writes = Tail(@), ![w].failed = @ \/ run[w].onerr = "join"]
      BY <1>6, <2>2 DEF StoreFails
    <3>2. run' = [run EXCEPT ![w].writes = Tail(@), ![w].rows = run[w].rows,
                             ![w].failed = run[w].failed \/ run[w].onerr = "join"]
      BY <1>2, <3>1, RowsKept
    <3> QED
      BY <1>4, <1>6, <2>2, <3>2 DEF StoreFails
  <2> QED
    BY <2>1, <2>2
<1> QED
  BY <1>5, <1>6

(* A handler that returns leaves the function as it is shown, or marks it as *)
(* out of sync.                                                              *)
LEMMA ReturnInSync ==
    ASSUME TypeOK, MutualExclusion, NEW w \in Workers,
           ReturnError(w) \/ ReturnSilently(w) \/ PublishFails(w),
           NEW f \in Functions, f = Fn(w), SyncAt(f)
    PROVE  SyncAt(f)'
<1>1. /\ Handling(w) /\ run[w].writes = << >> /\ Unlock(w)
      /\ UNCHANGED << mem, updates >>
  BY DEF ReturnError, ReturnSilently, PublishFails, Succeeded, Handled
<1>2. CASE Desync(f)
  <2>1. ~synced'[f]
    BY <1>2 DEF Desync, TypeOK
  <2> QED
    BY <1>1, <2>1, UnlockedInSync
<1>3. CASE run[w].outcome # "changed" /\ UNCHANGED synced
  <2>1. Stays(Type[f], run[w].entry, mem[f])
    BY <1>1, <1>3 DEF SyncAt, FinalOf
  <2>2. synced[f] => ShownStays(f, run[w].entry)
    BY <1>1 DEF SyncAt
  <2>3. run[w].entry \in Memory(Type[f]) /\ mem[f] \in Memory(Type[f])
    BY <1>1, HandlingTyped DEF Pending
  <2>4. synced[f] => ShownStays(f, mem[f])
    BY <2>1, <2>2, <2>3, LastUpdateTyped, StaysTransitive DEF ShownStays
  <2>5. synced'[f] => ShownStays(f, mem[f])'
    BY <1>1, <1>3, <2>4 DEF ShownStays
  <2> QED
    BY <1>1, <2>5, UnlockedInSync
<1> QED
  BY <1>2, <1>3 DEF ReturnError, ReturnSilently, PublishFails, MustPublish, Changed

(* An update shows the function as it is. *)
LEMMA PublishInSync ==
    ASSUME TypeOK, MutualExclusion, NEW w \in Workers, Publish(w),
           NEW f \in Functions, f = Fn(w)
    PROVE  SyncAt(f)'
<1> DEFINE update == [mem |-> mem[f], stamp |-> stamp'[f],
                      meta |-> meta[f], changed |-> Changed(w),
                      entry |-> run[w].entry, rows |-> run[w].rows,
                      count |-> CountTaken(Type[f], msg[w])]
<1>1. /\ Handling(w) /\ Unlock(w) /\ UNCHANGED mem
      /\ updates' = [updates EXCEPT ![f] = Append(updates[f], update)]
  BY DEF Publish, Succeeded, Handled, TypeOK
<1>2. update.mem = mem[f]
  OBVIOUS
<1> HIDE DEF update
<1>3. updates'[f] = Append(updates[f], update) /\ updates[f] \in Seq(Update(f))
  BY <1>1 DEF TypeOK
<1>4. updates'[f] # << >> /\ Last(updates'[f]) = update
  BY <1>3 DEF Last
<1>5. ShownStays(f, mem[f])'
  BY <1>1, <1>2, <1>4 DEF ShownStays, Stays
<1> QED
  BY <1>1, <1>5, UnlockedInSync
-----------------------------------------------------------------------------
(* At first nobody has been shown anything, and nobody is busy.             *)
LEMMA SyncInit == Init => SyncInvariant
  BY DEF Init, SyncInvariant, SyncAt, Handling

(* Subscribers are kept in sync by every step, whoever takes it.            *)
LEMMA SyncStep ==
    ASSUME SyncInvariant, MutualExclusion, TypeOK, [AnyStep]_vars
    PROVE  SyncInvariant'
<1> SUFFICES ASSUME SyncInvariant, MutualExclusion, TypeOK, [AnyStep]_vars,
                    NEW f \in Functions, Type[f] \in CandidTypes
             PROVE  SyncAt(f)'
  BY DEF SyncInvariant
<1>0. SyncAt(f)
  BY DEF SyncInvariant
<1>1. CASE Tick \/ UNCHANGED vars
  BY <1>0, <1>1, UntouchedInSync DEF Tick, process, vars, Handling, Fn
<1>2. CASE Restart
  BY <1>2 DEF Restart, SyncAt, Handling
<1>3. ASSUME NEW w \in Workers, Receive(w) \/ Ignore(w)
      PROVE  SyncAt(f)'
  BY <1>0, <1>3, UntouchedInSync DEF Receive, Ignore, TypeOK, Handling, Fn
<1>4. ASSUME NEW w \in Workers, StartHandle(w)
      PROVE  SyncAt(f)'
  BY <1>0, <1>4, StartInSync, ElsewhereInSync
<1>5. ASSUME NEW w \in Workers, StoreRow(w) \/ StoreFails(w)
      PROVE  SyncAt(f)'
  BY <1>0, <1>5, StoreInSync, ElsewhereInSync DEF Proceed
<1>6. ASSUME NEW w \in Workers, ReturnError(w) \/ ReturnSilently(w) \/ PublishFails(w)
      PROVE  SyncAt(f)'
  BY <1>0, <1>6, ReturnInSync, ElsewhereInSync DEF Proceed
<1>7. ASSUME NEW w \in Workers, Publish(w)
      PROVE  SyncAt(f)'
  BY <1>0, <1>7, PublishInSync, ElsewhereInSync DEF Proceed
<1> QED
  BY <1>1, <1>2, <1>3, <1>4, <1>5, <1>6, <1>7 DEF AnyStep, Next, Lock, Proceed, Store

(* Between calls it is what SubscriberInSync asks for.                      *)
LEMMA SyncShown ==
    ASSUME TypeOK, SyncInvariant
    PROVE  SubscriberInSync
<1> SUFFICES ASSUME NEW f \in Functions, Type[f] \in CandidTypes, synced[f], IdleFunction(f)
             PROVE  IsShown(f, mem[f])
  BY DEF SubscriberInSync
<1>1. ShownStays(f, mem[f])
  BY DEF SyncInvariant, SyncAt
<1>2. mem[f] \in Memory(Type[f])
  BY DEF TypeOK
<1> QED
  BY <1>1, <1>2, LastUpdateTyped, StaysAlike DEF ShownStays, IsShown

(* When nobody is handling a message for a function whose handler reports   *)
(* every change, and nothing has failed since its last update, that update  *)
(* shows it as it is.                                                       *)
THEOREM SubscriberInSyncHolds == Spec => []SubscriberInSync
<1>1. Init => SyncInvariant
  BY SyncInit
<1>2. SyncInvariant /\ MutualExclusion /\ TypeOK /\ [Next]_vars => SyncInvariant'
  BY SyncStep DEF AnyStep
<1>3. TypeOK /\ SyncInvariant => SubscriberInSync
  BY SyncShown
<1> QED
  BY <1>1, <1>2, <1>3, TypeCorrect, MutualExclusionHolds, PTL DEF Spec
-----------------------------------------------------------------------------
(* An update of a function without OnUpdate is an update of a change, and   *)
(* then the timestamp only moves off the zero time.                         *)
LEMMA RestampForward ==
    ASSUME TypeOK, NEW w \in Workers, Handling(w), MustPublish(w),
           Restamp(Fn(w), msg[w], Changed(w)), NEW f \in Functions \ OnUpdate
    PROVE  stamp'[f] >= stamp[f]
<1>1. stamp \in [Functions -> Nat] /\ now \in Nat
  BY DEF TypeOK
<1>2. CASE f # Fn(w)
  BY <1>1, <1>2 DEF Restamp
<1>3. CASE f = Fn(w)
  <2>1. Changed(w)
    BY <1>3 DEF MustPublish
  <2>2. stamp'[f] = IF stamp[f] = 0 THEN now ELSE stamp[f]
    BY <1>1, <1>3, <2>1 DEF Restamp, AnnouncedStamp, ZeroTime
  <2> QED
    BY <1>1, <2>2
<1> QED
  BY <1>2, <1>3

LEMMA StampForward ==
    ASSUME TypeOK, Next, restarts' = restarts, NEW f \in Functions \ OnUpdate
    PROVE  stamp'[f] >= stamp[f]
<1>0. stamp[f] \in Nat
  BY DEF TypeOK
<1>1. CASE UNCHANGED stamp
  BY <1>0, <1>1
<1>2. CASE Tick
  BY <1>1, <1>2 DEF Tick, process
<1>3. ~Restart
  BY DEF Restart, TypeOK
<1>4. ASSUME NEW w \in Workers, Receive(w) \/ Lock(w)
      PROVE  stamp'[f] >= stamp[f]
  BY <1>1, <1>4 DEF Receive, Lock, Ignore, StartHandle
<1>5. ASSUME NEW w \in Workers, StoreFails(w) \/ ReturnError(w) \/ ReturnSilently(w)
      PROVE  stamp'[f] >= stamp[f]
  BY <1>1, <1>5 DEF StoreFails, ReturnError, ReturnSilently
<1>6. ASSUME NEW w \in Workers, Store(w)
      PROVE  stamp'[f] >= stamp[f]
  <2>1. Head(run[w].writes).time \in Nat
    BY <1>6, NextWriteTyped DEF Store, StoreRow, Writes
  <2>2. stamp' = [stamp EXCEPT ![Fn(w)] = StampAfterWrite(Fn(w), Head(run[w].writes).time)]
    BY <1>6 DEF Store
  <2> QED
    BY <1>0, <2>1, <2>2 DEF StampAfterWrite, TypeOK
<1>7. ASSUME NEW w \in Workers, Publish(w) \/ PublishFails(w)
      PROVE  stamp'[f] >= stamp[f]
  BY <1>7, RestampForward DEF Publish, PublishFails, Succeeded, Handled
<1> QED
  BY <1>2, <1>3, <1>4, <1>5, <1>6, <1>7 DEF Next, Proceed

(* The timestamp of a function without OnUpdate never goes back while the   *)
(* process lives, in whatever order its measurements arrive.                *)
THEOREM StampMonotoneHolds == Spec => StampMonotone
<1> DEFINE Forward == \A f \in Functions \ OnUpdate : stamp'[f] >= stamp[f]
<1>1. TypeOK /\ [Next]_vars => [restarts' = restarts => Forward]_vars
  BY StampForward
<1> QED
  BY <1>1, TypeCorrect, PTL DEF Spec, StampMonotone
-----------------------------------------------------------------------------
(* What the handler of f can make of a message when it starts from s. *)
ResultsFrom(f, s) ==
    {Handle(Type[f], s, m, t) : m \in {m \in Messages : m.fn = f}, t \in 1 .. MaxTime}

(* The memories that a result passes through. *)
Stages(r) == {r.begin} \cup {r.writes[i].then : i \in DOMAIN r.writes}

(* A call under way is what is left of a result. *)
RestOf(s, call, r) ==
    /\ call.outcome = r.outcome
    /\ call.onerr = r.onerr
    /\ FinalOf(s, call.writes) = FinalOf(r.begin, r.writes)
    /\ s \in Stages(r)
    /\ \A i \in DOMAIN call.writes : call.writes[i].then \in Stages(r)
    /\ call.writes # << >> \/ call.failed => r.writes # << >>
    /\ call.failed => r.onerr = "join"

(* Every call under way is the rest of what the handler made of a message,  *)
(* starting from the memory the function had before.                        *)
SerialInvariant ==
    /\ now \in 1 .. MaxTime
    /\ \A w \in Workers : pc[w] # "idle" => msg[w] \in Messages
    /\ \A w \in Workers :
          Handling(w) =>
              \E r \in ResultsFrom(Fn(w), run[w].entry) : RestOf(mem[Fn(w)], run[w], r)

(* While a worker handles a message, its function is seen as it was before. *)
LEMMA SettledWhenHandled ==
    ASSUME MutualExclusion, NEW w \in Workers, Handling(w), Fn(w) \in Functions
    PROVE  Settled[Fn(w)] = run[w].entry
<1>1. \A v \in Workers : Handling(v) <=> v = w
  BY DEF MutualExclusion
<1>2. ~IdleFunction(Fn(w))
  BY DEF IdleFunction
<1>3. (CHOOSE v \in Workers : Handling(v) /\ Fn(v) = Fn(w)) = w
  BY <1>1
<1>. QED
  BY <1>2, <1>3 DEF Settled

(* A function that nobody handles a message for is seen as it is. *)
LEMMA SettledWhenIdle ==
    ASSUME NEW f \in Functions, IdleFunction(f)
    PROVE  Settled[f] = mem[f]
BY DEF Settled

(* The same after a step that has set off the only handler. *)
LEMMA SettledWhenStarted ==
    ASSUME NEW w \in Workers, \A v \in Workers : Handling(v)' <=> v = w,
           NEW f \in Functions, Fn(w)' = f
    PROVE  Settled'[f] = run'[w].entry
<1>1. ~IdleFunction(f)'
  BY DEF IdleFunction
<1>2. (CHOOSE v \in Workers : Handling(v)' /\ Fn(v)' = f) = w
  OBVIOUS
<1>. QED
  BY <1>1, <1>2 DEF Settled

(* A step that neither begins to handle a message that has an effect nor     *)
(* ends to handle one is not seen.                                           *)
LEMMA QuietStep ==
    ASSUME TypeOK, MutualExclusion, MutualExclusion', updates' = updates,
           \A w \in Workers :
              /\ Handling(w)' <=> Handling(w)
              /\ Handling(w) => Fn(w)' = Fn(w) /\ run'[w].entry = run[w].entry,
           \A f \in Functions : IdleFunction(f) => mem'[f] = mem[f]
    PROVE  UNCHANGED << Settled, AnnouncedMemory >>
<1>1. AnnouncedMemory' = AnnouncedMemory
  BY DEF AnnouncedMemory
<1>2. ASSUME NEW f \in Functions
      PROVE  Settled'[f] = Settled[f]
  <2>1. CASE IdleFunction(f)
    <3>1. IdleFunction(f)'
      BY <2>1 DEF IdleFunction
    <3>. QED
      BY <2>1, <3>1 DEF Settled
  <2>2. CASE ~IdleFunction(f)
    <3>1. PICK w \in Workers : Handling(w) /\ Fn(w) = f
      BY <2>2 DEF IdleFunction
    <3>2. Settled[f] = run[w].entry
      BY <3>1, SettledWhenHandled
    <3>3. (\A v \in Workers : Handling(v)' <=> v = w) /\ Fn(w)' = f
      BY <3>1 DEF MutualExclusion
    <3>4. Settled'[f] = run'[w].entry
      BY <3>3, SettledWhenStarted
    <3>. QED
      BY <3>1, <3>2, <3>4
  <2>. QED
    BY <2>1, <2>2
<1>3. Settled' = Settled
  BY <1>2 DEF Settled
<1>. QED
  BY <1>1, <1>3

(* When a worker unlocks, what its call has made of the function is seen. *)
LEMMA ReturnStep ==
    ASSUME TypeOK, MutualExclusion, NEW w \in Workers, Handling(w), Unlock(w), mem' = mem
    PROVE  Settled' = [Settled EXCEPT ![Fn(w)] = mem[Fn(w)]]
<1>. DEFINE f == Fn(w)
<1>1. f \in Functions
  BY HandlingTyped
<1>2. \A v \in Workers : ~Handling(v)'
  BY EngineAssumption DEF MutualExclusion, TypeOK, Unlock, Handling
<1>3. \A g \in Functions : Settled'[g] = mem[g]
  BY <1>2 DEF Settled, IdleFunction
<1>4. \A g \in Functions \ {f} : IdleFunction(g)
  BY DEF MutualExclusion, IdleFunction
<1>5. \A g \in Functions \ {f} : Settled[g] = mem[g]
  BY <1>4, SettledWhenIdle
<1>. QED
  BY <1>1, <1>3, <1>5 DEF Settled

(* The memories announced grow with the updates. *)
LEMMA MappedAppend ==
    ASSUME NEW S, NEW seq \in Seq(S), NEW e \in S
    PROVE  [i \in DOMAIN Append(seq, e) |-> Append(seq, e)[i].mem]
              = Append([i \in DOMAIN seq |-> seq[i].mem], e.mem)
<1>. DEFINE n == Len(seq)
            long == Append(seq, e)
            image == [i \in DOMAIN seq |-> seq[i].mem]
<1>1. n \in Nat /\ DOMAIN seq = 1 .. n
  OBVIOUS
<1>2. /\ DOMAIN long = 1 .. (n + 1)
      /\ \A i \in 1 .. n : long[i] = seq[i]
      /\ long[n + 1] = e
  BY <1>1
<1>3. image \in Seq({seq[i].mem : i \in DOMAIN seq}) /\ Len(image) = n
  BY <1>1
<1>4. /\ DOMAIN Append(image, e.mem) = 1 .. (n + 1)
      /\ \A i \in 1 .. n : Append(image, e.mem)[i] = image[i]
      /\ Append(image, e.mem)[n + 1] = e.mem
      /\ Append(image, e.mem) = [i \in 1 .. (n + 1) |-> Append(image, e.mem)[i]]
  BY <1>1, <1>3
<1>5. \A i \in 1 .. (n + 1) : long[i].mem = Append(image, e.mem)[i]
  BY <1>1, <1>2, <1>4
<1>. HIDE DEF image, long, n
<1>. QED
  BY <1>2, <1>4, <1>5 DEF image, long

(* A message that fails on the way leaves the function at some stage. *)
LEMMA AbortStep ==
    ASSUME NEW f \in Functions, NEW r \in ResultsFrom(f, Settled[f]),
           r.outcome = "changed" \/ f \in OnUpdate,
           NEW s \in Stages(r), Settled' = [Settled EXCEPT ![f] = s],
           AnnouncedMemory' = AnnouncedMemory
    PROVE  Serial!Next
<1>1. r \in Serial!Results(f)
  BY DEF Serial!Results, ResultsFrom
<1>2. Serial!Abort(f)
  BY <1>1 DEF Serial!Abort, Stages
<1>. QED
  BY <1>2 DEF Serial!Next

(* A result that is not announced takes effect as a whole. *)
LEMMA AbsorbStep ==
    ASSUME NEW f \in Functions, NEW r \in ResultsFrom(f, Settled[f]),
           r.outcome = "rejected" \/ (r.outcome = "unchanged" /\ f \notin OnUpdate),
           Settled' = [Settled EXCEPT ![f] = FinalOf(r.begin, r.writes)],
           AnnouncedMemory' = AnnouncedMemory
    PROVE  Serial!Next
<1>1. r \in Serial!Results(f) /\ ~Serial!Announced(f, r)
  BY DEF Serial!Results, Serial!Announced, ResultsFrom
<1>2. Serial!Absorb(f)
  BY <1>1 DEF Serial!Absorb
<1>. QED
  BY <1>2 DEF Serial!Next

(* So does one that is announced. *)
LEMMA AnnounceStep ==
    ASSUME NEW f \in Functions, NEW r \in ResultsFrom(f, Settled[f]),
           r.outcome = "changed" \/ (r.outcome = "unchanged" /\ f \in OnUpdate),
           Settled' = [Settled EXCEPT ![f] = FinalOf(r.begin, r.writes)],
           AnnouncedMemory' = [AnnouncedMemory EXCEPT ![f] =
                                  Append(@, FinalOf(r.begin, r.writes))]
    PROVE  Serial!Next
<1>1. r \in Serial!Results(f) /\ Serial!Announced(f, r)
  BY DEF Serial!Results, Serial!Announced, ResultsFrom
<1>2. Serial!Announce(f)
  BY <1>1 DEF Serial!Announce
<1>. QED
  BY <1>2 DEF Serial!Next
-----------------------------------------------------------------------------
(* After a write, stored or given up, the rest of the call is still the rest *)
(* of the same result.                                                       *)
LEMMA RestTail ==
    ASSUME NEW W, NEW call, NEW next, NEW r, NEW s, RestOf(s, call, r),
           call.writes \in Seq(W), call.writes # << >>,
           next.outcome = call.outcome, next.onerr = call.onerr,
           next.writes = Tail(call.writes),
           next.failed => call.failed \/ call.onerr = "join"
    PROVE  RestOf(Head(call.writes).then, next, r)
<1>. DEFINE writes == call.writes
            rest == Tail(call.writes)
<1>1. FinalOf(Head(writes).then, rest) = FinalOf(s, writes)
  BY FinalOfTail
<1>2. /\ Head(writes) = writes[1] /\ 1 \in DOMAIN writes
      /\ \A i \in DOMAIN rest : i + 1 \in DOMAIN writes /\ rest[i] = writes[i + 1]
  BY HeadTailProperties, EmptySeq
<1>3. Head(writes).then \in Stages(r) /\ \A i \in DOMAIN rest : rest[i].then \in Stages(r)
  BY <1>2 DEF RestOf
<1>. HIDE DEF rest, writes
<1>4. next.writes = rest /\ call.writes = writes
  BY DEF rest, writes
<1>. QED
  BY <1>1, <1>3, <1>4 DEF RestOf

(* A call begins as the whole of a result. *)
LEMMA SerialStart ==
    ASSUME TypeOK, MutualExclusion, SerialInvariant, NEW w \in Workers, StartHandle(w)
    PROVE  SerialInvariant'
<1>. DEFINE f == Fn(w)
            r == Handle(Type[f], mem[f], msg[w], now)
            call == [entry |-> mem[f], writes |-> r.writes, rows |-> {},
                     outcome |-> r.outcome, onerr |-> r.onerr, failed |-> FALSE]
<1>1. /\ UNCHANGED << now, msg >> /\ mu = None /\ pc[w] = "waiting"
      /\ pc' = [pc EXCEPT ![w] = "handling"]
      /\ mem' = [mem EXCEPT ![f] = r.begin]
      /\ run' = [run EXCEPT ![w] = call]
  BY DEF StartHandle, LockFree
<1>2. msg[w] \in Messages /\ f \in Functions
  BY <1>1 DEF SerialInvariant, StartHandle, Ignorable, TypeOK, Message, Fn
<1>3. r \in ResultsFrom(f, mem[f])
  BY <1>2 DEF ResultsFrom, SerialInvariant, Fn
<1>4. RestOf(r.begin, call, r)
  <2>. HIDE DEF r
  <2>. QED
    BY DEF RestOf, Stages
<1>5. run'[w] = call /\ run'[w].entry = mem[f]
  BY <1>1 DEF TypeOK
<1>. HIDE DEF r, call
<1>6. mem'[f] = r.begin
  BY <1>1, <1>2 DEF TypeOK
<1>7. \A v \in Workers : Handling(v)' => v = w
  BY <1>1, EngineAssumption DEF MutualExclusion, TypeOK, Handling
<1>8. \A v \in Workers : pc'[v] # "idle" => msg'[v] \in Messages
  BY <1>1, <1>2 DEF SerialInvariant, TypeOK
<1>9. Fn(w)' = f
  BY <1>1 DEF Fn
<1>. QED
  BY <1>1, <1>3, <1>4, <1>5, <1>6, <1>7, <1>8, <1>9 DEF SerialInvariant

(* A write leaves the rest of the call that it is part of. *)
LEMMA SerialWrite ==
    ASSUME TypeOK, MutualExclusion, SerialInvariant, NEW w \in Workers, NextWrite(w),
           UNCHANGED << now, pc, msg >>,
           mem' = [mem EXCEPT ![Fn(w)] = Head(run[w].writes).then],
           NEW rows, NEW failed, failed => run[w].failed \/ run[w].onerr = "join",
           run' = [run EXCEPT ![w].writes = Tail(@), ![w].rows = rows, ![w].failed = failed]
    PROVE  SerialInvariant'
<1>. DEFINE f == Fn(w)
            W == Writes(Memory(Type[f]))
<1>1. /\ Handling(w) /\ run[w].writes # << >> /\ f \in Functions
      /\ run[w] \in Pending(Memory(Type[f]))
  BY HandlingTyped DEF NextWrite
<1>2. run[w].writes \in Seq(W)
  BY <1>1 DEF Pending
<1>3. /\ run'[w].entry = run[w].entry
      /\ run'[w].outcome = run[w].outcome /\ run'[w].onerr = run[w].onerr
      /\ run'[w].writes = Tail(run[w].writes)
      /\ run'[w].failed = failed
  BY <1>1 DEF TypeOK, Pending
<1>. HIDE DEF W
<1>4. PICK r \in ResultsFrom(f, run[w].entry) : RestOf(mem[f], run[w], r)
  BY <1>1 DEF SerialInvariant
<1>5. RestOf(Head(run[w].writes).then, run'[w], r)
  BY <1>1, <1>2, <1>3, <1>4, RestTail
<1>6. mem'[f] = Head(run[w].writes).then
  BY <1>1 DEF TypeOK
<1>7. \A v \in Workers : Handling(v)' => v = w
  BY <1>1 DEF MutualExclusion, Handling
<1>. QED
  BY <1>3, <1>4, <1>5, <1>6, <1>7 DEF SerialInvariant, Fn

(* Nothing is under way once the worker has unlocked. *)
LEMMA SerialUnlock ==
    ASSUME TypeOK, MutualExclusion, SerialInvariant, NEW w \in Workers, Handling(w),
           Unlock(w), now' = now
    PROVE  SerialInvariant'
<1>1. \A v \in Workers : ~Handling(v)'
  BY EngineAssumption DEF MutualExclusion, TypeOK, Unlock, Handling
<1>2. \A v \in Workers : pc'[v] # "idle" => pc[v] # "idle" /\ msg'[v] = msg[v]
  BY DEF TypeOK, Unlock
<1>. QED
  BY <1>1, <1>2 DEF SerialInvariant

(* SerialInvariant is inductive, given the types and the mutex. *)
LEMMA SerialStep ==
    ASSUME TypeOK, MutualExclusion, SerialInvariant, [AnyStep]_vars
    PROVE  SerialInvariant'
<1>1. CASE Tick
  <2>1. now' \in 1 .. MaxTime
    BY <1>1, EngineAssumption DEF Tick, SerialInvariant
  <2>. QED
    BY <1>1, <2>1 DEF Tick, process, SerialInvariant, Handling, Fn
<1>2. CASE Restart
  BY <1>2 DEF Restart, SerialInvariant, Handling
<1>3. ASSUME NEW w \in Workers, Receive(w)
      PROVE  SerialInvariant'
  <2>1. PICK m \in Messages : msg' = [msg EXCEPT ![w] = m]
    BY <1>3 DEF Receive
  <2>2. /\ pc[w] = "idle" /\ pc' = [pc EXCEPT ![w] = "waiting"]
        /\ UNCHANGED << now, run, mem >>
    BY <1>3 DEF Receive
  <2>3. \A v \in Workers : Handling(v)' => Handling(v) /\ Fn(v)' = Fn(v)
    BY <2>1, <2>2 DEF TypeOK, Handling, Fn
  <2>4. \A v \in Workers : pc'[v] # "idle" => msg'[v] \in Messages
    BY <2>1, <2>2 DEF TypeOK, SerialInvariant
  <2>. QED
    BY <2>2, <2>3, <2>4 DEF SerialInvariant
<1>4. ASSUME NEW w \in Workers, Ignore(w)
      PROVE  SerialInvariant'
  <2>1. /\ pc' = [pc EXCEPT ![w] = "idle"] /\ msg' = [msg EXCEPT ![w] = None]
        /\ UNCHANGED << now, run, mem >>
    BY <1>4 DEF Ignore
  <2>2. \A v \in Workers : Handling(v)' => Handling(v) /\ Fn(v)' = Fn(v)
    BY <2>1 DEF TypeOK, Handling, Fn
  <2>3. \A v \in Workers : pc'[v] # "idle" => msg'[v] \in Messages
    BY <2>1 DEF TypeOK, SerialInvariant
  <2>. QED
    BY <2>1, <2>2, <2>3 DEF SerialInvariant
<1>5. ASSUME NEW w \in Workers, StartHandle(w)
      PROVE  SerialInvariant'
  BY <1>5, SerialStart
<1>6. ASSUME NEW w \in Workers, StoreRow(w)
      PROVE  SerialInvariant'
  <2>1. run[w] \in Pending(Memory(Type[Fn(w)]))
    BY <1>6, HandlingTyped DEF StoreRow, NextWrite
  <2>. DEFINE failed == run[w].failed
              rows == run[w].rows \cup {Len(history[Fn(w)]) + 1}
  <2>2. run' = [run EXCEPT ![w].writes = Tail(@), ![w].rows = @ \cup {Len(history[Fn(w)]) + 1}]
    BY <1>6 DEF StoreRow
  <2>3. /\ NextWrite(w) /\ UNCHANGED << now, pc, msg >>
        /\ mem' = [mem EXCEPT ![Fn(w)] = Head(run[w].writes).then]
    BY <1>6 DEF StoreRow
  <2>4. failed => run[w].failed \/ run[w].onerr = "join"
    OBVIOUS
  <2>5. run' = [run EXCEPT ![w].writes = Tail(@), ![w].rows = rows, ![w].failed = failed]
    BY <2>1, <2>2 DEF TypeOK, Pending
  <2>. HIDE DEF failed, rows
  <2>. QED
    BY <2>3, <2>4, <2>5, SerialWrite
<1>7. ASSUME NEW w \in Workers, StoreFails(w)
      PROVE  SerialInvariant'
  <2>1. CASE Unlock(w)
    BY <1>7, <2>1, SerialUnlock DEF StoreFails, NextWrite
  <2>2. CASE ~Unlock(w)
    <3>1. run[w] \in Pending(Memory(Type[Fn(w)]))
      BY <1>7, HandlingTyped DEF StoreFails, NextWrite
    <3>. DEFINE failed == run[w].failed \/ run[w].onerr = "join"
    <3>3. run' = [run EXCEPT ![w].writes = Tail(@), ![w].failed = @ \/ run[w].onerr = "join"]
      BY <1>7, <2>2 DEF StoreFails
    <3>2. run' = [run EXCEPT ![w].writes = Tail(@), ![w].rows = run[w].rows,
                             ![w].failed = failed]
      BY <3>1, <3>3, RowsKept
    <3>. QED
      BY <1>7, <2>2, <3>2, SerialWrite DEF StoreFails
  <2>. QED
    BY <2>1, <2>2
<1>8. ASSUME NEW w \in Workers,
             ReturnError(w) \/ ReturnSilently(w) \/ Publish(w) \/ PublishFails(w)
      PROVE  SerialInvariant'
  BY <1>8, SerialUnlock
  DEF ReturnError, ReturnSilently, Publish, PublishFails, Succeeded, Handled
<1>9. CASE UNCHANGED vars
  BY <1>9 DEF vars, SerialInvariant, Handling, Fn
<1>. QED
  BY <1>1, <1>2, <1>3, <1>4, <1>5, <1>6, <1>7, <1>8, <1>9
  DEF AnyStep, Next, Lock, Proceed, Store
-----------------------------------------------------------------------------
(* What is known of the call of a worker that returns. *)
LEMMA ReturningCall ==
    ASSUME TypeOK, MutualExclusion, SerialInvariant, NEW w \in Workers, Handling(w)
    PROVE  \E r \in ResultsFrom(Fn(w), Settled[Fn(w)]) :
              /\ RestOf(mem[Fn(w)], run[w], r)
              /\ Reported(r)
<1>. DEFINE f == Fn(w)
<1>1. f \in Functions /\ run[w].entry \in Memory(Type[f])
  BY HandlingTyped DEF Pending
<1>2. Settled[f] = run[w].entry
  BY <1>1, SettledWhenHandled
<1>3. PICK r \in ResultsFrom(f, run[w].entry) : RestOf(mem[f], run[w], r)
  BY DEF SerialInvariant
<1>4. PICK m \in Messages, t \in 1 .. MaxTime : r = Handle(Type[f], run[w].entry, m, t)
  BY <1>3 DEF ResultsFrom
<1>5. m \in Message /\ t \in Nat /\ Type[f] \in FunctionTypeNames
  BY <1>1, <1>4, EngineAssumption
<1>6. Reported(r)
  BY <1>1, <1>4, <1>5, HandleReported
<1>. QED
  BY <1>2, <1>3, <1>6

(* A handler that gives up after it has stored something, or had to, or     *)
(* whose update is not published.                                           *)
LEMMA FailedReturn ==
    ASSUME TypeOK, MutualExclusion, SerialInvariant, NEW w \in Workers, Handling(w),
           Unlock(w), UNCHANGED << mem, updates >>,
           \/ run[w].writes # << >> /\ run[w].onerr = "stop"
           \/ run[w].failed
           \/ MustPublish(w)
    PROVE  Serial!Next
<1>. DEFINE f == Fn(w)
<1>1. PICK r \in ResultsFrom(f, Settled[f]) : RestOf(mem[f], run[w], r) /\ Reported(r)
  BY ReturningCall
<1>2. r.outcome = "changed" \/ f \in OnUpdate
  BY <1>1 DEF RestOf, Reported, MustPublish, Changed
<1>3. mem[f] \in Stages(r) /\ f \in Functions
  BY <1>1, HandlingTyped DEF RestOf
<1>4. Settled' = [Settled EXCEPT ![f] = mem[f]]
  BY ReturnStep
<1>5. AnnouncedMemory' = AnnouncedMemory
  BY DEF AnnouncedMemory
<1>. QED
  BY <1>1, <1>2, <1>3, <1>4, <1>5, AbortStep

(* A handler that has nothing to announce. *)
LEMMA SilentReturn ==
    ASSUME TypeOK, MutualExclusion, SerialInvariant, NEW w \in Workers, Handled(w),
           Unlock(w), UNCHANGED << mem, updates >>,
           run[w].outcome = "rejected" \/ ~MustPublish(w)
    PROVE  Serial!Next
<1>. DEFINE f == Fn(w)
<1>0. Handling(w) /\ run[w].writes = << >>
  BY DEF Handled
<1>1. PICK r \in ResultsFrom(f, Settled[f]) : RestOf(mem[f], run[w], r)
  BY <1>0, ReturningCall
<1>2. f \in Functions /\ run[w].outcome \in Outcomes
  BY <1>0, HandlingTyped DEF Pending
<1>3. r.outcome = "rejected" \/ (r.outcome = "unchanged" /\ f \notin OnUpdate)
  BY <1>1, <1>2 DEF RestOf, MustPublish, Changed, Outcomes
<1>4. mem[f] = FinalOf(r.begin, r.writes)
  BY <1>0, <1>1 DEF RestOf, FinalOf
<1>5. Settled' = [Settled EXCEPT ![f] = mem[f]]
  BY <1>0, ReturnStep
<1>6. AnnouncedMemory' = AnnouncedMemory
  BY DEF AnnouncedMemory
<1>. QED
  BY <1>1, <1>2, <1>3, <1>4, <1>5, <1>6, AbsorbStep

(* A handler whose update is published. *)
LEMMA AnnouncedReturn ==
    ASSUME TypeOK, MutualExclusion, SerialInvariant, NEW w \in Workers, Publish(w)
    PROVE  Serial!Next
<1>. DEFINE f == Fn(w)
            update == [mem |-> mem[f], stamp |-> stamp'[f],
                       meta |-> meta[f], changed |-> Changed(w),
                       entry |-> run[w].entry, rows |-> run[w].rows,
                       count |-> CountTaken(Type[f], msg[w])]
<1>0. /\ Handling(w) /\ run[w].writes = << >> /\ run[w].outcome # "rejected"
      /\ MustPublish(w) /\ Unlock(w) /\ mem' = mem
      /\ updates' = [updates EXCEPT ![f] = Append(updates[f], update)]
  BY DEF Publish, Succeeded, Handled, TypeOK
<1>1. PICK r \in ResultsFrom(f, Settled[f]) : RestOf(mem[f], run[w], r)
  BY <1>0, ReturningCall
<1>2. f \in Functions /\ run[w].outcome \in Outcomes
  BY <1>0, HandlingTyped DEF Pending
<1>3. r.outcome = "changed" \/ (r.outcome = "unchanged" /\ f \in OnUpdate)
  BY <1>0, <1>1, <1>2 DEF RestOf, MustPublish, Changed, Outcomes
<1>4. mem[f] = FinalOf(r.begin, r.writes)
  BY <1>0, <1>1 DEF RestOf, FinalOf
<1>5. Settled' = [Settled EXCEPT ![f] = mem[f]]
  BY <1>0, ReturnStep
<1>6. AnnouncedMemory' = [AnnouncedMemory EXCEPT ![f] = Append(@, mem[f])]
  <2>1. DOMAIN updates = Functions /\ updates[f] \in Seq(Update(f))
    BY <1>2 DEF TypeOK
  <2>2. update.mem = mem[f]
    OBVIOUS
  <2>. HIDE DEF update
  <2>3. updates'[f] = Append(updates[f], update)
    BY <1>0, <1>2, <2>1
  <2>4. updates[f] \in Seq(Update(f) \cup {update})
    BY <2>1
  <2>5. AnnouncedMemory'[f] = Append(AnnouncedMemory[f], mem[f])
    BY <1>2, <2>2, <2>3, <2>4, MappedAppend DEF AnnouncedMemory
  <2>6. \A g \in Functions \ {f} : AnnouncedMemory'[g] = AnnouncedMemory[g]
    BY <1>0, <2>1 DEF AnnouncedMemory
  <2>. QED
    BY <1>2, <2>5, <2>6 DEF AnnouncedMemory
<1>. QED
  BY <1>1, <1>2, <1>3, <1>4, <1>5, <1>6, AnnounceStep

(* A restart gives every function a value it may be restored from. *)
LEMMA RestartStep ==
    ASSUME TypeOK, Restart, LogValues = Int
    PROVE  Serial!Next
<1>1. PICK lost \in SUBSET Functions : mem' = [f \in Functions |-> Restored(f, lost)]
  BY DEF Restart
<1>. DEFINE v == [f \in Functions |->
                     IF f \in lost THEN 0
                     ELSE LastLogValue(history[f], DefaultHistoryLabel(Type[f]))]
<1>2. v \in [Functions -> LogValues]
  BY LastLogValueTyped DEF TypeOK
<1>3. mem' = [f \in Functions |-> New(Type[f], v[f])]
  BY <1>1 DEF Restored
<1>. HIDE DEF v
<1>4. \A f \in Functions : IdleFunction(f)'
  BY DEF Restart, IdleFunction, Handling
<1>5. Settled' = mem'
  BY <1>3, <1>4 DEF Settled
<1>6. AnnouncedMemory' = AnnouncedMemory
  BY DEF Restart, AnnouncedMemory
<1>. QED
  BY <1>2, <1>3, <1>5, <1>6 DEF Serial!Next, Serial!Restart

(* Every step of the engine is a step of the serial functions or none. *)
LEMMA EngineStepIsSerial ==
    ASSUME TypeOK, MutualExclusion, MutualExclusion', SerialInvariant, LogValues = Int,
           [AnyStep]_vars
    PROVE  Serial!Next \/ UNCHANGED << Settled, AnnouncedMemory >>
<1>1. CASE Tick \/ UNCHANGED vars
  BY <1>1, QuietStep DEF Tick, process, vars, Handling, Fn
<1>2. CASE Restart
  BY <1>2, RestartStep
<1>3. ASSUME NEW w \in Workers, Receive(w) \/ Ignore(w)
      PROVE  UNCHANGED << Settled, AnnouncedMemory >>
  <2>1. UNCHANGED << run, mem, updates >>
    BY <1>3 DEF Receive, Ignore
  <2>2. \A v \in Workers : (Handling(v)' <=> Handling(v)) /\ (Handling(v) => Fn(v)' = Fn(v))
    BY <1>3 DEF Receive, Ignore, TypeOK, Handling, Fn
  <2>. QED
    BY <2>1, <2>2, QuietStep
<1>4. ASSUME NEW w \in Workers, StartHandle(w)
      PROVE  UNCHANGED << Settled, AnnouncedMemory >>
  <2>. DEFINE f == Fn(w)
  <2>1. /\ UNCHANGED << msg, updates >> /\ mu = None
        /\ pc' = [pc EXCEPT ![w] = "handling"]
        /\ \E s : mem' = [mem EXCEPT ![f] = s]
        /\ run'[w].entry = mem[f]
    BY <1>4 DEF StartHandle, LockFree, TypeOK
  <2>2. f \in Functions
    BY <1>4 DEF StartHandle, Ignorable, TypeOK, Message, Fn
  <2>3. Handling(w)' /\ Fn(w)' = f
    BY <2>1 DEF TypeOK, Handling, Fn
  <2>4. \A g \in Functions : IdleFunction(g)
    BY <2>1, EngineAssumption DEF MutualExclusion, IdleFunction
  <2>5. \A v \in Workers : Handling(v)' <=> v = w
    BY <2>3 DEF MutualExclusion
  <2>6. \A g \in Functions \ {f} : IdleFunction(g)'
    BY <2>3, <2>5 DEF IdleFunction
  <2>7. Settled'[f] = mem[f]
    <3>1. Settled'[f] = run'[w].entry
      BY <2>2, <2>3, <2>5, SettledWhenStarted
    <3>. QED
      BY <2>1, <3>1
  <2>8. \A g \in Functions : Settled'[g] = Settled[g]
    BY <2>1, <2>4, <2>6, <2>7 DEF Settled, TypeOK
  <2>. QED
    BY <2>1, <2>8 DEF Settled, AnnouncedMemory
<1>5. ASSUME NEW w \in Workers, NextWrite(w), ~Unlock(w), StoreRow(w) \/ StoreFails(w)
      PROVE  UNCHANGED << Settled, AnnouncedMemory >>
  <2>1. /\ Handling(w) /\ UNCHANGED << pc, msg, updates >>
        /\ mem' = [mem EXCEPT ![Fn(w)] = Head(run[w].writes).then]
    BY <1>5 DEF StoreRow, StoreFails, NextWrite
  <2>2. run[w] \in Pending(Memory(Type[Fn(w)]))
    BY <2>1, HandlingTyped
  <2>3. ASSUME NEW v \in Workers
        PROVE  run'[v].entry = run[v].entry
    <3>1. \/ run' = [run EXCEPT ![w].writes = Tail(@),
                                ![w].rows = @ \cup {Len(history[Fn(w)]) + 1}]
          \/ run' = [run EXCEPT ![w].writes = Tail(@),
                                ![w].failed = run[w].failed \/ run[w].onerr = "join"]
      BY <1>5, <2>2 DEF StoreRow, StoreFails, TypeOK, Pending
    <3>2. CASE run' = [run EXCEPT ![w].writes = Tail(@),
                                  ![w].rows = @ \cup {Len(history[Fn(w)]) + 1}]
      BY <2>2, <3>2 DEF TypeOK, Pending
    <3>3. CASE run' = [run EXCEPT ![w].writes = Tail(@),
                                  ![w].failed = run[w].failed \/ run[w].onerr = "join"]
      BY <2>2, <3>3 DEF TypeOK, Pending
    <3>. QED
      BY <3>1, <3>2, <3>3
  <2>4. \A f \in Functions : IdleFunction(f) => mem'[f] = mem[f]
    BY <2>1 DEF IdleFunction, TypeOK
  <2>. QED
    BY <2>1, <2>3, <2>4, QuietStep DEF Handling, Fn
<1>6. ASSUME NEW w \in Workers, NextWrite(w), Unlock(w), StoreRow(w) \/ StoreFails(w)
      PROVE  Serial!Next
  <2>1. Handling(w) /\ run[w].writes # << >>
    BY <1>6 DEF NextWrite
  <2>2. ~StoreRow(w)
    <3>1. pc'[w] = "idle"
      BY <1>6 DEF Unlock, TypeOK
    <3>. QED
      BY <2>1, <3>1 DEF StoreRow, Handling
  <2>3. run[w].onerr = "stop" /\ UNCHANGED << mem, updates >>
    <3>1. pc'[w] # pc[w]
      BY <1>6, <2>1 DEF Unlock, TypeOK, Handling
    <3>. QED
      BY <1>6, <2>2, <3>1 DEF StoreFails
  <2>. QED
    BY <1>6, <2>1, <2>3, FailedReturn
<1>7. ASSUME NEW w \in Workers, ReturnError(w)
      PROVE  Serial!Next
  <2>1. CASE run[w].failed
    BY <1>7, <2>1, FailedReturn DEF ReturnError, Handled
  <2>2. CASE ~run[w].failed
    BY <1>7, <2>2, SilentReturn DEF ReturnError
  <2>. QED
    BY <2>1, <2>2
<1>8. ASSUME NEW w \in Workers, ReturnSilently(w)
      PROVE  Serial!Next
  BY <1>8, SilentReturn DEF ReturnSilently, Succeeded
<1>9. ASSUME NEW w \in Workers, Publish(w)
      PROVE  Serial!Next
  BY <1>9, AnnouncedReturn
<1>10. ASSUME NEW w \in Workers, PublishFails(w)
       PROVE  Serial!Next
  BY <1>10, FailedReturn DEF PublishFails, Succeeded, Handled
<1>11. ASSUME NEW w \in Workers, StoreRow(w) \/ StoreFails(w)
       PROVE  Serial!Next \/ UNCHANGED << Settled, AnnouncedMemory >>
  BY <1>5, <1>6, <1>11 DEF StoreRow, StoreFails
<1>. QED
  BY <1>1, <1>2, <1>3, <1>4, <1>7, <1>8, <1>9, <1>10, <1>11
  DEF AnyStep, Next, Lock, Proceed, Store

LEMMA SerialInit ==
    ASSUME Init, MaxTime > 0
    PROVE  SerialInvariant /\ Serial!Init
<1>1. SerialInvariant
  BY EngineAssumption DEF Init, SerialInvariant, Handling
<1>2. Settled = mem
  BY DEF Init, Settled, IdleFunction, Handling
<1>3. AnnouncedMemory = [f \in Functions |-> << >>]
  BY DEF Init, AnnouncedMemory
<1>. QED
  BY <1>1, <1>2, <1>3 DEF Init, Serial!Init

(* The workers, the mutex and the rows within a message implement functions *)
(* that handle one message at a time, for any numbers of workers, functions *)
(* and messages, whatever fails and whenever the process is killed. A clock *)
(* that starts at 1 needs a bound that lets it; LogValues are all integers. *)
THEOREM ImplementsSerialHolds ==
    ASSUME MaxTime > 0, LogValues = Int
    PROVE  Spec => ImplementsSerial
<1>1. Init => SerialInvariant /\ Serial!Init
  BY SerialInit
<1>2. TypeOK /\ MutualExclusion /\ SerialInvariant /\ [Next]_vars => SerialInvariant'
  BY SerialStep DEF AnyStep
<1>3. TypeOK /\ MutualExclusion /\ MutualExclusion' /\ SerialInvariant /\ [Next]_vars =>
          [Serial!Next]_<< Settled, AnnouncedMemory >>
  BY EngineStepIsSerial DEF AnyStep
<1>. QED
  BY <1>1, <1>2, <1>3, TypeCorrect, MutualExclusionHolds, PTL
  DEF Spec, ImplementsSerial, Serial!Spec
-----------------------------------------------------------------------------
(***************************************************************************)
(* What is announced, and the timestamp a function is listed with, are     *)
(* backed by rows of the history, whatever fails.                          *)
(***************************************************************************)
(* A call that reports a change stores a row for everything that is new,    *)
(* and does not forget that it could not.                                   *)
Witnessed(type, s, r) ==
    r.outcome = "changed" =>
        /\ r.onerr # "drop"
        /\ r.writes # << >>
        /\ \A x \in News(type, s, FinalMemory(r)) :
              \E i \in DOMAIN r.writes : SameFact(type, x, r.writes[i])

(* A call without a change has nothing to show.                            *)
LEMMA EmptyRunsWitnessed ==
    ASSUME NEW type, NEW s, NEW t
    PROVE  Witnessed(type, s, Unchanged(t)) /\ Witnessed(type, s, Rejected(t))
  BY DEF Witnessed, Unchanged, Rejected, Run

LEMMA UnannouncedWitnessed ==
    ASSUME NEW type, NEW s, NEW begin, NEW writes, NEW onerr
    PROVE  Witnessed(type, s, Run(begin, writes, "unchanged", onerr))
  BY DEF Witnessed, Run

InSeq(x, seq) == \E i \in DOMAIN seq : seq[i] = x

(* What some writes have, those that they are part of have too. *)
LEMMA ConcatHas ==
    ASSUME NEW W, NEW first \in Seq(W), NEW rest \in Seq(W), NEW x,
           InSeq(x, first) \/ InSeq(x, rest)
    PROVE  InSeq(x, first \o rest)
<1> DEFINE both == first \o rest
<1>1. /\ Len(both) = Len(first) + Len(rest) /\ both \in Seq(W)
      /\ \A i \in 1 .. Len(first) : both[i] = first[i]
      /\ \A i \in 1 .. Len(rest) : both[Len(first) + i] = rest[i]
      /\ Len(first) \in Nat /\ Len(rest) \in Nat
  BY ConcatProperties, LenProperties
<1>2. DOMAIN both = 1 .. Len(both) /\ DOMAIN first = 1 .. Len(first) /\ DOMAIN rest = 1 .. Len(rest)
  BY <1>1
<1> HIDE DEF both
<1>3. CASE InSeq(x, first)
  <2>1. PICK i \in 1 .. Len(first) : first[i] = x
    BY <1>2, <1>3 DEF InSeq
  <2>2. i \in DOMAIN both /\ both[i] = x
    BY <1>1, <1>2, <2>1
  <2> QED
    BY <2>2 DEF InSeq, both
<1>4. CASE InSeq(x, rest)
  <2>1. PICK i \in 1 .. Len(rest) : rest[i] = x
    BY <1>2, <1>4 DEF InSeq
  <2>2. Len(first) + i \in DOMAIN both /\ both[Len(first) + i] = x
    BY <1>1, <1>2, <2>1
  <2> QED
    BY <2>2 DEF InSeq, both
<1> QED
  BY <1>3, <1>4

(* The last of some writes is the last of those they are put before. *)
LEMMA ConcatLast ==
    ASSUME NEW W, NEW first \in Seq(W), NEW rest \in Seq(W), rest # << >>
    PROVE  LET both == first \o rest
           IN  both \in Seq(W) /\ both # << >> /\ both[Len(both)] = rest[Len(rest)]
<1>1. Len(first) \in Nat /\ Len(rest) \in Nat \ {0}
  BY EmptySeq, LenProperties
<1> QED
  BY <1>1, ConcatProperties

(* A write has the fields it is made of.                                   *)
LEMMA OnChangeFields ==
    ASSUME NEW label, NEW value, NEW time, NEW then
    PROVE  LET write == OnChange(label, value, time, then)
           IN  write.label = label /\ write.value = value /\ write.then = then
  BY DEF OnChange

(* Everything that is new in where the writes end has one of them.         *)
LEMMA WritesWitness ==
    ASSUME NEW type, NEW s, NEW W, NEW writes \in Seq(W), writes # << >>,
           NEW begin, NEW outcome, NEW onerr, onerr # "drop",
           \A x \in News(type, s, writes[Len(writes)].then) :
               \E write \in W : InSeq(write, writes) /\ SameFact(type, x, write)
    PROVE  Witnessed(type, s, Run(begin, writes, outcome, onerr))
<1> DEFINE r == Run(begin, writes, outcome, onerr)
<1>1. r.writes = writes /\ r.onerr = onerr /\ FinalMemory(r) = writes[Len(writes)].then
  BY DEF Run, FinalMemory, FinalOf
<1> HIDE DEF r
<1>2. ASSUME NEW x \in News(type, s, FinalMemory(r))
      PROVE  \E i \in DOMAIN writes : SameFact(type, x, writes[i])
  BY <1>1, <1>2 DEF InSeq
<1> QED
  BY <1>1, <1>2 DEF Witnessed, r

(* One write                                                               *)
LEMMA OneWriteWitness ==
    ASSUME NEW type, NEW s, NEW write, NEW begin, NEW outcome, NEW onerr, onerr # "drop",
           \A x \in News(type, s, write.then) : SameFact(type, x, write)
    PROVE  Witnessed(type, s, Run(begin, << write >>, outcome, onerr))
<1> DEFINE writes == << write >>
<1>1. writes \in Seq({write}) /\ writes # << >> /\ Len(writes) = 1 /\ writes[1] = write
  OBVIOUS
<1>2. InSeq(write, writes)
  BY <1>1 DEF InSeq
<1> HIDE DEF writes
<1>3. Witnessed(type, s, Run(begin, writes, outcome, onerr))
  BY <1>1, <1>2, WritesWitness
<1> QED
  BY <1>3 DEF writes

(* Two writes                                                              *)
LEMMA TwoWritesWitness ==
    ASSUME NEW type, NEW s, NEW first, NEW write,
           NEW begin, NEW outcome, NEW onerr, onerr # "drop",
           \A x \in News(type, s, write.then) : SameFact(type, x, first) \/ SameFact(type, x, write)
    PROVE  Witnessed(type, s, Run(begin, << first, write >>, outcome, onerr))
<1> DEFINE writes == << first, write >>
<1>1. /\ writes \in Seq({first, write}) /\ writes # << >>
      /\ Len(writes) = 2 /\ writes[1] = first /\ writes[2] = write
  OBVIOUS
<1>2. InSeq(first, writes) /\ InSeq(write, writes)
  BY <1>1 DEF InSeq
<1> HIDE DEF writes
<1>3. Witnessed(type, s, Run(begin, writes, outcome, onerr))
  BY <1>1, <1>2, WritesWitness
<1> QED
  BY <1>3 DEF writes

(* A write says what it is asked to say.                                   *)
LEMMA WriteTells ==
    ASSUME NEW type, type # "level", NEW label, NEW value, NEW write,
           write.label = label, write.value = value
    PROVE  SameFact(type, Fact(label, value), write)
  BY DEF SameFact, Fact

(* What is new is among the facts, and was not before.                     *)
LEMMA NewsAreNew ==
    ASSUME NEW type, type # "level", NEW e, NEW s, NEW x \in News(type, e, s)
    PROVE  x \in Facts(type, e, s) /\ x \notin Facts(type, e, e)
  BY DEF News, SameFact
-----------------------------------------------------------------------------
(* The second row of a square wave is the new state.                       *)
LEMMA PresenceWitnessed ==
    ASSUME NEW s, NEW m
    PROVE  Witnessed("presence", s, PresenceHandle(s, m))
<1> DEFINE new == [state |-> m.state]
           row == OnChange("presence", Number(new.state), m.time, new)
<1>1. row.label = "presence" /\ row.value = Number(new.state) /\ row.then = new
  BY OnChangeFields
<1>2. PresenceHandle(s, m) \in
        {Rejected(s), Unchanged(s),
         Run(new, << OnChange("presence", Number(~new.state), m.time, new), row >>,
             "changed", "stop")}
  BY DEF PresenceHandle, SquareWave
<1> HIDE DEF new, row
<1>3. Facts("presence", s, new) = {Fact("presence", Number(new.state))}
  BY DEF Facts
<1>4. \A x \in News("presence", s, row.then) : SameFact("presence", x, row)
  BY <1>1, <1>3, NewsAreNew, WriteTells
<1> QED
  BY <1>2, <1>4, EmptyRunsWitnessed, TwoWritesWitness

(* A count that does not follow from the edge, and a state that differs,    *)
(* are stored.                                                              *)
LEMMA CounterWitnessed ==
    ASSUME NEW s \in CounterMem, NEW m \in Message
    PROVE  Witnessed("counter", s, CounterHandle(s, m))
<1> DEFINE new == Counted(s, m)
           countRow == OnChange("count", new.count, m.time, new)
           stateRow == OnChange("state", Number(new.state), m.time, new)
           rows == CounterRows(s, new, m)
           R == {countRow, stateRow}
           counts == IF m.value[DigitalInputCounter] # None /\ new.count # s.count
                     THEN << countRow >> ELSE << >>
           states == IF new.state # s.state THEN << stateRow >> ELSE << >>
<1>1. /\ countRow.label = "count" /\ countRow.value = new.count /\ countRow.then = new
      /\ stateRow.label = "state" /\ stateRow.value = Number(new.state) /\ stateRow.then = new
  BY OnChangeFields
<1>2. rows = counts \o states
  BY DEF CounterRows
<1>3. countRow \in R /\ stateRow \in R /\ \A write \in R : write.then = new
  BY <1>1
<1> HIDE DEF countRow, stateRow, R
<1>4. counts \in Seq(R) /\ states \in Seq(R)
  <2>1. << countRow >> \in Seq(R) /\ << stateRow >> \in Seq(R) /\ << >> \in Seq(R)
    BY <1>3
  <2> QED
    BY <2>1
<1>5. /\ m.value[DigitalInputCounter] # None /\ new.count # s.count => InSeq(countRow, counts)
      /\ new.state # s.state => InSeq(stateRow, states)
  <2>1. \A row : InSeq(row, << row >>)
    BY DEF InSeq
  <2> QED
    BY <2>1
<1>6. new.state = m.state
  BY DEF Counted
<1>7. m.value[DigitalInputCounter] = None =>
         new.count = s.count + Number(m.state = TRUE /\ ~s.state)
  BY DEF Counted, RisingEdge
<1>8. \/ CounterHandle(s, m) \in {Rejected(s), Unchanged(s)}
      \/ /\ m.state # None
         /\ CounterHandle(s, m) =
              Run(new, rows, IF rows = << >> THEN "unchanged" ELSE "changed", "join")
  BY DEF CounterHandle
<1> HIDE DEF new
<1>9. rows \in Seq(R)
  <2> HIDE DEF counts, states, rows
  <2> QED
    BY <1>2, <1>4
<1>10. InSeq(countRow, counts) => InSeq(countRow, rows)
  <2> HIDE DEF counts, states, rows
  <2> QED
    BY <1>2, <1>4, ConcatHas
<1>11. InSeq(stateRow, states) => InSeq(stateRow, rows)
  <2> HIDE DEF counts, states, rows
  <2> QED
    BY <1>2, <1>4, ConcatHas
<1> HIDE DEF counts, states, rows
<1>12. ASSUME m.state # None, NEW x \in News("counter", s, new)
       PROVE  \E write \in R : InSeq(write, rows) /\ SameFact("counter", x, write)
  <2>1. m.state \in BOOLEAN
    BY <1>12, MessageTyped
  <2>2. \A t : Facts("counter", s, t) =
                  {Fact("state", Number(t.state))}
                  \cup CountFact("count", s.count, t.count, t.state /\ ~s.state)
    BY DEF Facts
  <2>3. x \in Facts("counter", s, new) /\ x # Fact("state", Number(s.state))
    BY <1>12, <2>2, NewsAreNew
  <2>4. CASE x = Fact("state", Number(new.state))
    <3>1. new.state # s.state
      BY <2>3, <2>4
    <3>2. SameFact("counter", x, stateRow)
      BY <1>1, <2>4, WriteTells
    <3> QED
      BY <1>3, <1>5, <1>11, <3>1, <3>2
  <2>5. CASE x \in CountFact("count", s.count, new.count, new.state /\ ~s.state)
    <3>1. /\ x = Fact("count", new.count)
          /\ new.count \notin {s.count, s.count + Number(new.state /\ ~s.state)}
      BY <2>5 DEF CountFact
    <3>2. m.value[DigitalInputCounter] # None
      BY <1>6, <1>7, <2>1, <3>1
    <3>3. SameFact("counter", x, countRow)
      BY <1>1, <3>1, WriteTells
    <3> QED
      BY <1>3, <1>5, <1>10, <3>1, <3>2, <3>3
  <2> QED
    BY <2>2, <2>3, <2>4, <2>5
<1>13. CASE m.state # None /\ rows # << >>
  <2>1. Len(rows) \in 1 .. Len(rows)
    BY <1>9, <1>13, EmptySeq
  <2>2. rows[Len(rows)].then = new
    BY <1>3, <1>9, <2>1, ElementOfSeq
  <2>3. Witnessed("counter", s, Run(new, rows, "changed", "join"))
    BY <1>9, <1>12, <1>13, <2>2, WritesWitness
  <2> QED
    BY <1>8, <1>13, <2>3, EmptyRunsWitnessed
<1> QED
  BY <1>8, <1>13, EmptyRunsWitnessed, UnannouncedWitnessed

(* So it is with the state and the counter of a digital input.             *)
LEMMA DigitalInputWitnessed ==
    ASSUME NEW s \in DigitalInputMem, NEW m \in Message
    PROVE  Witnessed("digitalinput", s, DigitalInputHandle(s, m))
<1> DEFINE t       == InputTime(m)
           pending == [state     |-> NextState(s, m),
                       counter   |-> NextCounter(s, m),
                       timestamp |-> s.timestamp]
           new     == [pending EXCEPT !.timestamp = t]
           stateRow(then) == OnChange("state", Number(new.state), t, then)
           counterRow     == OnChange("counter", new.counter, t, new)
           stateChanged   == new.state # s.state
           counterChanged == new.counter # s.counter + Number(new.state /\ ~s.state)
<1>1. /\ counterRow.label = "counter" /\ counterRow.value = new.counter /\ counterRow.then = new
      /\ \A then : /\ stateRow(then).label = "state"
                   /\ stateRow(then).value = Number(new.state)
                   /\ stateRow(then).then = then
  BY OnChangeFields
<1>2. new.state = NextState(s, m) /\ new.counter = NextCounter(s, m)
  OBVIOUS
<1>3. \/ DigitalInputHandle(s, m) \in {Rejected(s), Unchanged(s)}
      \/ /\ stateChanged /\ counterChanged
         /\ DigitalInputHandle(s, m) =
               Run(pending, << stateRow(pending), counterRow >>, "changed", "join")
      \/ /\ stateChanged /\ ~counterChanged
         /\ DigitalInputHandle(s, m) = Run(pending, << stateRow(new) >>, "changed", "join")
      \/ /\ ~stateChanged /\ counterChanged
         /\ DigitalInputHandle(s, m) = Run(pending, << counterRow >>, "changed", "join")
  BY <1>2 DEF DigitalInputHandle, Stepped
<1> HIDE DEF t, pending, new
<1> HIDE DEF stateRow, counterRow
<1>4. ASSUME NEW x \in News("digitalinput", s, new)
      PROVE  \/ x = Fact("state", Number(new.state)) /\ stateChanged
             \/ x = Fact("counter", new.counter) /\ counterChanged
  <2>1. \A u : Facts("digitalinput", s, u) =
                  {Fact("state", Number(u.state))}
                  \cup CountFact("counter", s.counter, u.counter, u.state /\ ~s.state)
    BY DEF Facts
  <2>2. x \in Facts("digitalinput", s, new) /\ x # Fact("state", Number(s.state))
    BY <1>4, <2>1, NewsAreNew
  <2>3. x \in CountFact("counter", s.counter, new.counter, new.state /\ ~s.state)
        => x = Fact("counter", new.counter) /\ counterChanged
    BY DEF CountFact
  <2> QED
    BY <2>1, <2>2, <2>3
<1>5. \A then : SameFact("digitalinput", Fact("state", Number(new.state)), stateRow(then))
  BY <1>1, WriteTells
<1>6. SameFact("digitalinput", Fact("counter", new.counter), counterRow)
  BY <1>1, WriteTells
<1> HIDE DEF stateChanged, counterChanged
<1>7. CASE stateChanged /\ counterChanged
  <2>1. \A x \in News("digitalinput", s, counterRow.then) :
            SameFact("digitalinput", x, stateRow(pending)) \/ SameFact("digitalinput", x, counterRow)
    BY <1>1, <1>4, <1>5, <1>6
  <2> QED
    BY <1>3, <1>7, <2>1, EmptyRunsWitnessed, TwoWritesWitness
<1>8. CASE stateChanged /\ ~counterChanged
  <2>1. \A x \in News("digitalinput", s, stateRow(new).then) :
            SameFact("digitalinput", x, stateRow(new))
    BY <1>1, <1>4, <1>5, <1>8
  <2> QED
    BY <1>3, <1>8, <2>1, EmptyRunsWitnessed, OneWriteWitness
<1>9. CASE ~stateChanged /\ counterChanged
  <2>1. \A x \in News("digitalinput", s, counterRow.then) : SameFact("digitalinput", x, counterRow)
    BY <1>1, <1>4, <1>6, <1>9
  <2> QED
    BY <1>3, <1>9, <2>1, EmptyRunsWitnessed, OneWriteWitness
<1> QED
  BY <1>3, <1>7, <1>8, <1>9, EmptyRunsWitnessed

(* A temperature is reported with its row.                                 *)
LEMMA WaterQualityWitnessed ==
    ASSUME NEW s, NEW m, NEW t
    PROVE  Witnessed("waterquality", s, WaterQualityHandle(s, m, t))
<1> DEFINE new == [temperature |-> Round(m.value[SensorValue], 10), timestamp |-> m.time]
           row == OnChange("temperature", new.temperature, m.time, new)
<1>1. row.label = "temperature" /\ row.value = new.temperature /\ row.then = new
  BY OnChangeFields
<1>2. WaterQualityHandle(s, m, t) \in
        {Rejected(s), Unchanged(s), Unchanged(new), Run(new, << row >>, "changed", "stop")}
  BY DEF WaterQualityHandle
<1> HIDE DEF new, row
<1>3. Facts("waterquality", s, new) = {Fact("temperature", new.temperature)}
  BY DEF Facts
<1>4. \A x \in News("waterquality", s, row.then) : SameFact("waterquality", x, row)
  BY <1>1, <1>3, NewsAreNew, WriteTells
<1> QED
  BY <1>2, <1>4, EmptyRunsWitnessed, OneWriteWitness

(* The rows of a stopwatch are its state and its count at a start, the time *)
(* so far and the count at a lap, and all of it at a stop.                  *)
LEMMA StopwatchRowsWitness ==
    ASSUME NEW s \in StopwatchMem, NEW m \in Message, NEW t \in Nat,
           NEW new \in {Started(s, t), Running(s, t), Stopped(s, t)},
           new = Running(s, t) => s.state
    PROVE  LET rows == StopwatchRows(new, m, t)
               final == Recount(new, m)
           IN  /\ rows # << >> /\ rows[Len(rows)].then = final
               /\ \A x \in News("stopwatch", s, final) :
                     \E i \in DOMAIN rows : SameFact("stopwatch", x, rows[i])
<1> DEFINE final == Recount(new, m)
           countRow == OnChange("count", final.count, t, final)
           state(v, then) == OnChange("state", v, t, then)
           duration(then) == OnChange("duration", new.duration, t, then)
           total == OnChange("cumulativeTime", new.cumulativeTime, t, final)
           rows == StopwatchRows(new, m, t)
<1>1. /\ Started(s, t) \in StopwatchMem
      /\ Running(s, t) \in StopwatchMem /\ Running(s, t).duration \in Int
      /\ Stopped(s, t) \in StopwatchMem /\ Stopped(s, t).duration \in Int
  BY StopwatchStepsTyped
<1>2. new \in StopwatchMem
  BY <1>1
<1>3. /\ final.state = new.state /\ final.duration = new.duration
      /\ final.cumulativeTime = new.cumulativeTime
  BY <1>2 DEF Recount, StopwatchMem
<1>4. rows = CASE new.duration = None ->
                    << state(0, new), state(1, final), countRow >>
               [] new.duration # None /\ new.state ->
                    << duration(final), countRow >>
               [] new.duration # None /\ ~new.state ->
                    << state(1, new), state(0, new), duration(new), total, countRow >>
  BY DEF StopwatchRows
<1>5. \A u : Facts("stopwatch", s, u) =
                {Fact("state", Number(u.state)), Fact("count", u.count),
                 Fact("cumulativeTime", u.cumulativeTime)} \cup FactIfAny("duration", u.duration)
  BY DEF Facts
<1>6. ASSUME NEW x \in News("stopwatch", s, final)
      PROVE  \/ x = Fact("state", Number(new.state)) /\ Number(new.state) # Number(s.state)
             \/ x = Fact("count", final.count)
             \/ /\ x = Fact("cumulativeTime", new.cumulativeTime)
                /\ new.cumulativeTime # s.cumulativeTime
             \/ x = Fact("duration", new.duration) /\ new.duration # None
  <2>1. x \in Facts("stopwatch", s, final) /\ x \notin Facts("stopwatch", s, s)
    BY <1>6, NewsAreNew
  <2>2. /\ x # Fact("state", Number(s.state))
        /\ x # Fact("cumulativeTime", s.cumulativeTime)
    BY <1>5, <2>1
  <2>3. x \in FactIfAny("duration", final.duration)
        => x = Fact("duration", new.duration) /\ new.duration # None
    BY <1>3 DEF FactIfAny
  <2> HIDE DEF final
  <2> QED
    BY <1>3, <1>5, <2>1, <2>2, <2>3
<1>7. /\ countRow.label = "count" /\ countRow.value = final.count /\ countRow.then = final
      /\ total.label = "cumulativeTime" /\ total.value = new.cumulativeTime
      /\ \A v, then : state(v, then).label = "state" /\ state(v, then).value = v
      /\ \A then : duration(then).label = "duration" /\ duration(then).value = new.duration
  BY OnChangeFields
<1>8. /\ SameFact("stopwatch", Fact("count", final.count), countRow)
      /\ SameFact("stopwatch", Fact("cumulativeTime", new.cumulativeTime), total)
      /\ \A v, then : SameFact("stopwatch", Fact("state", v), state(v, then))
      /\ \A then : SameFact("stopwatch", Fact("duration", new.duration), duration(then))
  BY <1>7, WriteTells
<1> HIDE DEF final, countRow, state, duration, total, rows
<1>9. CASE new = Started(s, t)
  <2>1. new.state = TRUE /\ new.duration = None /\ new.cumulativeTime = s.cumulativeTime
    BY <1>9 DEF Started, StopwatchMem
  <2>2. rows = << state(0, new), state(1, final), countRow >>
    BY <1>4, <2>1
  <2>3. Number(new.state) = 1
    BY <2>1 DEF Number
  <2>4. /\ rows # << >> /\ DOMAIN rows = 1 .. 3 /\ Len(rows) = 3
        /\ rows[2] = state(1, final) /\ rows[3] = countRow
    BY <2>2
  <2>5. ASSUME NEW x \in News("stopwatch", s, final)
        PROVE  SameFact("stopwatch", x, rows[2]) \/ SameFact("stopwatch", x, rows[3])
    BY <1>6, <1>8, <2>1, <2>3, <2>4, <2>5
  <2> QED
    BY <1>7, <2>4, <2>5 DEF rows, final
<1>10. CASE new = Running(s, t)
  <2>1. new.state = TRUE /\ new.duration # None /\ new.cumulativeTime = s.cumulativeTime
    BY <1>1, <1>10, NoneAssumption DEF Running, StopwatchMem
  <2>2. rows = << duration(final), countRow >>
    BY <1>4, <2>1
  <2>3. Number(new.state) = Number(s.state)
    BY <1>10, <2>1 DEF StopwatchMem
  <2>4. /\ rows # << >> /\ DOMAIN rows = 1 .. 2 /\ Len(rows) = 2
        /\ rows[1] = duration(final) /\ rows[2] = countRow
    BY <2>2
  <2>5. ASSUME NEW x \in News("stopwatch", s, final)
        PROVE  SameFact("stopwatch", x, rows[1]) \/ SameFact("stopwatch", x, rows[2])
    BY <1>6, <1>8, <2>1, <2>3, <2>4, <2>5
  <2> QED
    BY <1>7, <2>4, <2>5 DEF rows, final
<1>11. CASE new = Stopped(s, t)
  <2>1. new.state = FALSE /\ new.duration # None
    BY <1>1, <1>11, NoneAssumption DEF Stopped, StopwatchMem
  <2>2. rows = << state(1, new), state(0, new), duration(new), total, countRow >>
    BY <1>4, <2>1
  <2>3. Number(new.state) = 0
    BY <2>1 DEF Number
  <2>4. /\ rows # << >> /\ DOMAIN rows = 1 .. 5 /\ Len(rows) = 5
        /\ rows[2] = state(0, new) /\ rows[3] = duration(new)
        /\ rows[4] = total /\ rows[5] = countRow
    BY <2>2
  <2>5. ASSUME NEW x \in News("stopwatch", s, final)
        PROVE  \E i \in 2 .. 5 : SameFact("stopwatch", x, rows[i])
    BY <1>6, <1>8, <2>1, <2>3, <2>4, <2>5
  <2> QED
    BY <1>7, <2>4, <2>5 DEF rows, final
<1> QED
  BY <1>9, <1>10, <1>11

(* A start, a stop and a lap are reported after all their rows.            *)
LEMMA StopwatchWitnessed ==
    ASSUME NEW s \in StopwatchMem, NEW m \in Message, NEW t0 \in Nat
    PROVE  Witnessed("stopwatch", s, StopwatchHandle(s, m, t0))
<1> DEFINE t == IF m.time = ZeroTime THEN t0 ELSE m.time
           new == CASE m.state = TRUE  /\ ~s.state -> Started(s, t)
                    [] m.state = TRUE  /\ s.state  -> Running(s, t)
                    [] m.state = FALSE /\ s.state  -> Stopped(s, t)
                    [] m.state = FALSE /\ ~s.state -> s
           rows == StopwatchRows(new, m, t)
<1>1. CASE m.obj # "digitalinput" \/ m.state = None \/ (~m.state /\ ~s.state)
  BY <1>1, EmptyRunsWitnessed DEF StopwatchHandle
<1>2. CASE ~(m.obj # "digitalinput" \/ m.state = None \/ (~m.state /\ ~s.state))
  <2>1. StopwatchHandle(s, m, t0) = Run(new, rows, "changed", "stop")
    BY <1>2 DEF StopwatchHandle
  <2>2. t \in Nat
    BY MessageTyped
  <2>3. m.state \in BOOLEAN /\ s.state \in BOOLEAN
    BY <1>2, MessageTyped DEF StopwatchMem
  <2> HIDE DEF t
  <2>4. \/ new = Started(s, t)
        \/ new = Running(s, t) /\ s.state
        \/ new = Stopped(s, t) /\ s.state
    BY <1>2, <2>3
  <2> HIDE DEF new
  <2>5. new = Running(s, t) => s.state
    <3>1. Started(s, t) # Running(s, t)
      <4>1. Started(s, t).duration = None
        BY DEF Started, StopwatchMem
      <4>2. Running(s, t).duration \in Int
        BY <2>2, StopwatchStepsTyped
      <4> QED
        BY <4>1, <4>2, NoneAssumption
    <3> QED
      BY <2>4, <3>1
  <2>6. /\ rows # << >> /\ rows[Len(rows)].then = Recount(new, m)
        /\ \A x \in News("stopwatch", s, Recount(new, m)) :
              \E i \in DOMAIN rows : SameFact("stopwatch", x, rows[i])
    BY <2>2, <2>4, <2>5, StopwatchRowsWitness
  <2> HIDE DEF rows
  <2>7. FinalMemory(Run(new, rows, "changed", "stop")) = Recount(new, m)
    BY <2>6 DEF FinalMemory, FinalOf, Run
  <2> QED
    BY <2>1, <2>6, <2>7 DEF Witnessed, Run
<1> QED
  BY <1>1, <1>2

(* Of a timer it is the second row that tells the state, and the third that *)
(* tells the time.                                                          *)
LEMMA TimerWitnessed ==
    ASSUME NEW s, NEW m
    PROVE  Witnessed("timer", s, TimerHandle(s, m))
<1> DEFINE t   == m.time
           new == IF m.state = TRUE THEN TimerStarted(s, t) ELSE TimerStopped(s, t)
           before == IF new.state THEN new ELSE s
           stateRow == OnChange("state", Number(new.state), t, new)
           timeRow == OnChange("time", new.totalDuration, t, new)
           rows == TimerRows(s, new, t)
           begin == IF new.state THEN new ELSE s
<1>1. TimerHandle(s, m) \in {Rejected(s), Unchanged(s), Run(begin, rows, "changed", "stop")}
  BY DEF TimerHandle
<1>2. /\ stateRow.label = "state" /\ stateRow.value = Number(new.state)
      /\ timeRow.label = "time" /\ timeRow.value = new.totalDuration /\ timeRow.then = new
  BY OnChangeFields
<1>3. rows = << OnChange("state", Number(~new.state), t, before), stateRow, timeRow >>
  BY DEF TimerRows
<1> HIDE DEF t, new, stateRow, timeRow, before, begin
<1>4. rows # << >> /\ DOMAIN rows = 1 .. 3 /\ rows[2] = stateRow /\ Len(rows) = 3 /\ rows[3] = timeRow
  BY <1>3
<1> HIDE DEF rows
<1>5. Facts("timer", s, new) = {Fact("state", Number(new.state)), Fact("time", new.totalDuration)}
  BY DEF Facts
<1>6. /\ SameFact("timer", Fact("state", Number(new.state)), rows[2])
      /\ SameFact("timer", Fact("time", new.totalDuration), rows[3])
  BY <1>2, <1>4, WriteTells
<1>7. \A x \in News("timer", s, new) : \E i \in DOMAIN rows : SameFact("timer", x, rows[i])
  BY <1>4, <1>5, <1>6, NewsAreNew
<1>8. Witnessed("timer", s, Run(begin, rows, "changed", "stop"))
  BY <1>2, <1>4, <1>7 DEF Witnessed, Run, FinalMemory, FinalOf
<1> QED
  BY <1>1, <1>8, EmptyRunsWitnessed

(* The power or the energy that has moved is the row.                      *)
LEMMA BuildingWitnessed ==
    ASSUME NEW s, NEW m
    PROVE  Witnessed("building", s, BuildingHandle(s, m))
<1> DEFINE v    == m.value[SensorValue]
           used == [power  |-> IF m.obj = "power" THEN v ELSE s.power,
                    energy |-> IF m.obj = "energy" THEN v ELSE s.energy]
           powerRow  == OnChange("power", used.power, m.time, used)
           energyRow == OnChange("energy", used.energy, m.time, used)
<1>1. /\ powerRow.label = "power" /\ powerRow.value = used.power /\ powerRow.then = used
      /\ energyRow.label = "energy" /\ energyRow.value = used.energy /\ energyRow.then = used
  BY OnChangeFields
<1>2. \/ BuildingHandle(s, m) \in {Rejected(s), Unchanged(s), Unchanged(used)}
      \/ m.obj = "power" /\ BuildingHandle(s, m) = Run(used, << powerRow >>, "changed", "stop")
      \/ m.obj = "energy" /\ BuildingHandle(s, m) = Run(used, << energyRow >>, "changed", "stop")
  BY DEF BuildingHandle
<1>3. /\ m.obj = "power" => used.energy = s.energy
      /\ m.obj = "energy" => used.power = s.power
  OBVIOUS
<1> HIDE DEF used, powerRow, energyRow
<1>4. \A u : Facts("building", s, u) = {Fact("power", u.power), Fact("energy", u.energy)}
  BY DEF Facts
<1>5. \A x \in News("building", s, used) :
          \/ x = Fact("power", used.power) /\ used.power # s.power
          \/ x = Fact("energy", used.energy) /\ used.energy # s.energy
  BY <1>4, NewsAreNew
<1>6. /\ SameFact("building", Fact("power", used.power), powerRow)
      /\ SameFact("building", Fact("energy", used.energy), energyRow)
  BY <1>1, WriteTells
<1>7. m.obj = "power" => \A x \in News("building", s, powerRow.then) : SameFact("building", x, powerRow)
  BY <1>1, <1>3, <1>5, <1>6
<1>8. m.obj = "energy" => \A x \in News("building", s, energyRow.then) : SameFact("building", x, energyRow)
  BY <1>1, <1>3, <1>5, <1>6
<1> QED
  BY <1>2, <1>7, <1>8, EmptyRunsWitnessed, OneWriteWitness

(* What a message leaves of an air quality, and the writes that do.        *)
AirValues(s, m) == [k \in 1 .. 7 |-> Measured(s, m, k)]

AirWrites(s, m) == {x \in Writes(AirQualityMem) : x.then.values = AirValues(s, m)}

(* A value that differs has a row, which leaves all the values behind.     *)
LEMMA AirRowWitness ==
    ASSUME NEW s \in AirQualityMem, NEW m \in Message, NEW t \in Nat, NEW i \in 1 .. 7
    PROVE  /\ AirRow(s, m, i, t) \in Seq(AirWrites(s, m))
           /\ Differs(s, m, i) =>
                 \E x \in AirWrites(s, m) :
                     /\ InSeq(x, AirRow(s, m, i, t))
                     /\ x.label = AirLabels[i] /\ x.value = AirValues(s, m)[i]
<1> DEFINE values == AirValues(s, m)
           V == AirWrites(s, m)
           last == \A k \in i + 1 .. 7 : ~Differs(s, m, k)
           then == [values |-> values, timestamp |-> IF last THEN t ELSE s.timestamp]
           row == OnChange(AirLabels[i], values[i], m.time, then)
<1>1. AirRow(s, m, i, t) = IF Differs(s, m, i) THEN << row >> ELSE << >>
  BY DEF AirRow, AirValues
<1>2. CASE Differs(s, m, i)
  <2>1. << row >> = AirRow(s, m, i, t)
    BY <1>1, <1>2
  <2>2. values \in [1 .. 7 -> Int]
    BY MeasuredTyped DEF AirValues
  <2> HIDE DEF values, last
  <2>3. then \in AirQualityMem /\ then.values = values
    BY <2>2 DEF AirQualityMem
  <2> HIDE DEF then
  <2>4. AirLabels[i] \in Labels
    BY DEF AirLabels, Labels
  <2>5. row \in Writes(AirQualityMem)
    BY <2>2, <2>3, <2>4, MessageTyped, OnChangeTyped
  <2>6. row.then = then /\ row.label = AirLabels[i] /\ row.value = values[i]
    BY OnChangeFields
  <2> HIDE DEF row
  <2>7. row \in V
    BY <2>3, <2>5, <2>6 DEF AirWrites, values
  <2> HIDE DEF V
  <2>8. << row >> \in Seq(V) /\ InSeq(row, << row >>)
    BY <2>7 DEF InSeq
  <2>9. AirRow(s, m, i, t) \in Seq(V) /\ InSeq(row, AirRow(s, m, i, t))
    BY <2>1, <2>8
  <2> QED
    BY <2>6, <2>7, <2>9 DEF V, values
<1>3. CASE ~Differs(s, m, i)
  <2>1. AirRow(s, m, i, t) = << >>
    BY <1>1, <1>3
  <2> QED
    BY <1>3, <2>1
<1> QED
  BY <1>2, <1>3

(* All rows of an air quality do, and there is one for each that differs.  *)
LEMMA AirRowsWitness ==
    ASSUME NEW s \in AirQualityMem, NEW m \in Message, NEW t \in Nat
    PROVE  /\ AirRows(s, m, t) \in Seq(AirWrites(s, m))
           /\ \A i \in 1 .. 7 :
                 Differs(s, m, i) =>
                    \E x \in AirWrites(s, m) :
                        /\ InSeq(x, AirRows(s, m, t))
                        /\ x.label = AirLabels[i] /\ x.value = AirValues(s, m)[i]
<1> DEFINE values == AirValues(s, m)
           V == AirWrites(s, m)
           row(i) == AirRow(s, m, i, t)
           rows == AirRows(s, m, t)
<1>1. rows = row(1) \o row(2) \o row(3) \o row(4) \o row(5) \o row(6) \o row(7)
  BY DEF AirRows
<1>2. \A i \in 1 .. 7 :
         /\ row(i) \in Seq(V)
         /\ Differs(s, m, i) =>
               \E x \in V : InSeq(x, row(i)) /\ x.label = AirLabels[i] /\ x.value = values[i]
  BY AirRowWitness
<1> HIDE DEF V, row, values, rows
<1>3. rows \in Seq(V)
  BY <1>1, <1>2
<1>4. ASSUME NEW x, NEW i \in 1 .. 7, InSeq(x, row(i))
      PROVE  InSeq(x, rows)
  <2> DEFINE two == row(1) \o row(2)
             three == two \o row(3)
             four == three \o row(4)
             five == four \o row(5)
             six == five \o row(6)
  <2>1. /\ two \in Seq(V) /\ three \in Seq(V) /\ four \in Seq(V) /\ five \in Seq(V)
        /\ six \in Seq(V)
    BY <1>2
  <2>2. rows = six \o row(7)
    BY <1>1
  <2> USE <1>2, <2>1, ConcatHas
  <2>3. i \in 1 .. 2 => InSeq(x, two)
    BY <1>4
  <2> HIDE DEF two
  <2>4. i \in 1 .. 3 => InSeq(x, three)
    BY <1>4, <2>3
  <2> HIDE DEF three
  <2>5. i \in 1 .. 4 => InSeq(x, four)
    BY <1>4, <2>4
  <2> HIDE DEF four
  <2>6. i \in 1 .. 5 => InSeq(x, five)
    BY <1>4, <2>5
  <2> HIDE DEF five
  <2>7. i \in 1 .. 6 => InSeq(x, six)
    BY <1>4, <2>6
  <2> HIDE DEF six
  <2> QED
    BY <1>4, <2>2, <2>7
<1>5. \A i \in 1 .. 7 :
         Differs(s, m, i) =>
            \E x \in V : InSeq(x, rows) /\ x.label = AirLabels[i] /\ x.value = values[i]
  BY <1>2, <1>4
<1> QED
  BY <1>3, <1>5 DEF V, values, rows

(* An air quality that has changed has stored each value that differs.     *)
LEMMA AirQualityWitnessed ==
    ASSUME NEW s \in AirQualityMem, NEW m \in Message, NEW t \in Nat
    PROVE  Witnessed("airquality", s, AirQualityHandle(s, m, t))
<1> DEFINE values == AirValues(s, m)
           V == AirWrites(s, m)
           begin == [s EXCEPT !.values = [i \in 1 .. 7 |-> Measured(s, m, i)]]
           rows == AirRows(s, m, t)
<1>1. \/ AirQualityHandle(s, m, t) = Rejected(s)
      \/ AirHasChanged(s, m) /\ AirQualityHandle(s, m, t) = Run(begin, rows, "changed", "join")
      \/ AirQualityHandle(s, m, t) = Run(begin, rows, "unchanged", "join")
  BY DEF AirQualityHandle
<1>2. /\ rows \in Seq(V)
      /\ \A i \in 1 .. 7 :
            Differs(s, m, i) =>
               \E x \in V : InSeq(x, rows) /\ x.label = AirLabels[i] /\ x.value = values[i]
  BY AirRowsWitness
<1>3. \A x \in V : x.then.values = values
  BY DEF AirWrites
<1>4. \A i \in 1 .. 7 : Differs(s, m, i) <=> values[i] # s.values[i]
  BY DEF Differs, AirValues
<1> HIDE DEF V, begin, rows, values
<1>5. ASSUME AirHasChanged(s, m)
      PROVE  Witnessed("airquality", s, Run(begin, rows, "changed", "join"))
  <2>1. PICK i \in 1 .. 7 : Differs(s, m, i)
    BY <1>5 DEF AirHasChanged
  <2>2. PICK x \in V : InSeq(x, rows)
    BY <1>2, <2>1
  <2>3. rows # << >> /\ Len(rows) \in 1 .. Len(rows)
    BY <1>2, <2>2, EmptySeq DEF InSeq
  <2> DEFINE final == rows[Len(rows)].then
  <2>4. final.values = values
    BY <1>2, <1>3, <2>3, ElementOfSeq
  <2> HIDE DEF final
  <2>5. ASSUME NEW y \in News("airquality", s, final)
        PROVE  \E write \in V : InSeq(write, rows) /\ SameFact("airquality", y, write)
    <3>1. \A u : Facts("airquality", s, u) = {Fact(AirLabels[k], u.values[k]) : k \in 1 .. 7}
      BY DEF Facts
    <3>2. y \in Facts("airquality", s, final) /\ y \notin Facts("airquality", s, s)
      BY <2>5, NewsAreNew
    <3>3. PICK k \in 1 .. 7 : y = Fact(AirLabels[k], values[k])
      BY <2>4, <3>1, <3>2
    <3>4. values[k] # s.values[k]
      BY <3>1, <3>2, <3>3
    <3>5. PICK write \in V :
            InSeq(write, rows) /\ write.label = AirLabels[k] /\ write.value = values[k]
      BY <1>2, <1>4, <3>4
    <3> QED
      BY <3>3, <3>5, WriteTells
  <2> QED
    BY <1>2, <2>3, <2>5, WritesWitness DEF final
<1> QED
  BY <1>1, <1>5, EmptyRunsWitnessed, UnannouncedWitnessed

(* A level is as far from another as the other is from it.                 *)
LEMMA ChangedEitherWay ==
    ASSUME NEW x \in Int, NEW y \in Int
    PROVE  LevelHasChanged(x, y) <=> LevelHasChanged(y, x)
  BY DEF LevelHasChanged, IsNotZero, Abs

(* A level has not changed from what it is.                                *)
LEMMA UnchangedAlike ==
    ASSUME NEW x \in Int
    PROVE  ~LevelHasChanged(x, x)
  BY DEF LevelHasChanged, IsNotZero, Abs

(* What is new of a level is the level itself or its percentage.           *)
LEMMA LevelNews ==
    ASSUME NEW s \in LevelMem, NEW t \in LevelMem, NEW x \in News("level", s, t)
    PROVE  \/ x = Fact("level", t.current) /\ LevelHasChanged(s.current, t.current)
           \/ x = Fact("percent", t.percent) /\ PercentStored(s.percent, t.percent)
<1>1. \A u : Facts("level", s, u) = {Fact("level", u.current)} \cup FactIfAny("percent", u.percent)
  BY DEF Facts
<1>2. x \in Facts("level", s, t) /\ \A y \in Facts("level", s, s) : ~SameFact("level", x, y)
  BY DEF News
<1>3. CASE x = Fact("level", t.current)
  <2>1. Fact("level", s.current) \in Facts("level", s, s)
    BY <1>1
  <2>2. LevelHasChanged(t.current, s.current)
    BY <1>2, <1>3, <2>1 DEF SameFact, Fact
  <2>3. s.current \in Int /\ t.current \in Int
    BY DEF LevelMem
  <2> QED
    BY <1>3, <2>2, <2>3, ChangedEitherWay
<1>4. CASE x \in FactIfAny("percent", t.percent)
  <2>1. x = Fact("percent", t.percent) /\ t.percent # None
    BY <1>4 DEF FactIfAny
  <2>2. s.percent # None => Fact("percent", s.percent) \in Facts("level", s, s)
    BY <1>1 DEF FactIfAny
  <2>3. s.percent # None => LevelHasChanged(t.percent, s.percent)
    BY <1>2, <2>1, <2>2 DEF SameFact, Fact
  <2>4. t.percent \in Int /\ s.percent \in Int \cup {None}
    BY <2>1 DEF LevelMem
  <2> QED
    BY <2>1, <2>3, <2>4, ChangedEitherWay DEF PercentStored
<1> QED
  BY <1>1, <1>2, <1>3, <1>4

(* A row tells a level, or a percentage, that is not further from it than   *)
(* what is taken for a change.                                              *)
LEMMA LevelTells ==
    ASSUME NEW label, NEW value, NEW write, write.label = label,
           ~LevelHasChanged(value, write.value)
    PROVE  SameFact("level", Fact(label, value), write)
  BY DEF SameFact, Fact

(* The level has its row; the percentage has one if it is found changed.   *)
LEMMA HandleDistanceWitnessed ==
    ASSUME NEW s \in LevelMem, NEW m \in Message
    PROVE  Witnessed("level", s, HandleDistance(s, m))
<1> DEFINE v      == m.value[SensorValue]
           raised == [s EXCEPT !.current = LevelAt(v + LevelConfig.offsetLevel)]
           scaled == Repercent(raised)
           new    == [scaled EXCEPT !.offset = IF IsNotZero(LevelConfig.meanLevel)
                                               THEN scaled.current - LevelConfig.meanLevel ELSE @]
           level(then) == OnChange("level", new.current, m.time, then)
           percent == PercentRow(scaled, m.time, new)
           stored == IsNotZero(s.maxLevel) /\ PercentStored(s.percent, scaled.percent)
<1>1. \/ HandleDistance(s, m) \in {Rejected(s), Unchanged(raised)}
      \/ /\ v # None /\ stored
         /\ HandleDistance(s, m) = Run(raised, << level(scaled), percent >>, "changed", "join")
      \/ /\ v # None /\ ~stored
         /\ HandleDistance(s, m) = Run(raised, << level(new) >>, "changed", "join")
  BY DEF HandleDistance
<1>2. ASSUME v # None
      PROVE  /\ new \in LevelMem /\ new.percent = scaled.percent
             /\ new.percent # s.percent => IsNotZero(s.maxLevel)
  <2>1. LevelAt(v + LevelConfig.offsetLevel) \in Int
    BY <1>2, MessageTyped, LevelAtTyped, LevelConfigAssumption
  <2>2. raised \in LevelMem /\ raised.maxLevel = s.maxLevel /\ raised.percent = s.percent
    BY <2>1 DEF LevelMem
  <2> HIDE DEF raised
  <2>3. scaled \in LevelMem /\ (scaled.percent # s.percent => IsNotZero(s.maxLevel))
    BY <2>2, RepercentTyped
  <2> HIDE DEF scaled
  <2> QED
    BY <2>3, LevelConfigAssumption DEF LevelMem
<1>3. /\ \A then : /\ level(then).label = "level" /\ level(then).value = new.current
                   /\ level(then).then = then
      /\ percent.label = "percent" /\ percent.value = scaled.percent /\ percent.then = new
  BY OnChangeFields DEF PercentRow
<1> HIDE DEF raised, scaled, new, level, percent
<1>4. ASSUME v # None, NEW x \in News("level", s, new)
      PROVE  \/ x = Fact("level", new.current)
             \/ x = Fact("percent", scaled.percent) /\ stored
  <2>1. \/ x = Fact("level", new.current)
        \/ x = Fact("percent", new.percent) /\ PercentStored(s.percent, new.percent)
    BY <1>2, <1>4, LevelNews
  <2>2. PercentStored(s.percent, new.percent) => new.percent # s.percent
    BY UnchangedAlike DEF PercentStored, LevelMem
  <2> QED
    BY <1>2, <1>4, <2>1, <2>2
<1>5. ASSUME v # None
      PROVE  /\ \A then : SameFact("level", Fact("level", new.current), level(then))
             /\ stored => SameFact("level", Fact("percent", scaled.percent), percent)
  <2>1. new.current \in Int /\ (stored => scaled.percent \in Int)
    BY <1>2, <1>5 DEF LevelMem, PercentStored
  <2> QED
    BY <1>3, <2>1, LevelTells, UnchangedAlike
<1>6. CASE v # None /\ stored
  <2>1. \A x \in News("level", s, percent.then) :
            SameFact("level", x, level(scaled)) \/ SameFact("level", x, percent)
    BY <1>3, <1>4, <1>5, <1>6
  <2> QED
    BY <1>1, <1>6, <2>1, EmptyRunsWitnessed, TwoWritesWitness
<1>7. CASE v # None /\ ~stored
  <2>1. \A x \in News("level", s, level(new).then) : SameFact("level", x, level(new))
    BY <1>3, <1>4, <1>5, <1>7
  <2> QED
    BY <1>1, <1>7, <2>1, EmptyRunsWitnessed, OneWriteWitness
<1> QED
  BY <1>1, <1>6, <1>7, EmptyRunsWitnessed

(* Also when the percentage is stored first, both are told in the end.      *)
LEMMA HandleFillingLevelWitnessed ==
    ASSUME NEW s \in LevelMem, NEW m \in Message
    PROVE  Witnessed("level", s, HandleFillingLevel(s, m))
<1> DEFINE p == m.value[ActualFillingPercentage]
           l == m.value[ActualFillingLevel]
           h == m.value[HighThreshold]
           t == m.time
           usesPercent == p # None /\ ~IsNotZero(LevelConfig.offsetLevel)
           raised == [s EXCEPT !.maxLevel = IF h # None /\ h > @ THEN h ELSE @]
           shown  == [raised EXCEPT !.percent = IF usesPercent THEN p ELSE @]
           lifted == [shown EXCEPT !.current = l + LevelConfig.offsetLevel]
           filled == Repercent(lifted)
           first == PercentRow(shown, t, shown)
           second == PercentRow(shown, t, filled)
           levelRow == OnChange("level", filled.current, t, filled)
           percentRow == PercentRow(filled, t, filled)
           stored == IsNotZero(shown.maxLevel) /\ PercentStored(shown.percent, filled.percent)
           filledRows == IF stored THEN << percentRow, levelRow >> ELSE << levelRow >>
<1>1. \/ HandleFillingLevel(s, m) \in
            {Rejected(s), Unchanged(raised), Run(shown, << first >>, "unchanged", "drop")}
      \/ /\ usesPercent
         /\ HandleFillingLevel(s, m) \in
              {Run(shown, << first >>, "changed", "stop"), Run(shown, << first >>, "changed", "join")}
      \/ /\ usesPercent /\ l # None
         /\ HandleFillingLevel(s, m) = Run(shown, << second >> \o filledRows, "changed", "join")
      \/ /\ ~usesPercent /\ l # None
         /\ HandleFillingLevel(s, m) = Run(filled, filledRows, "changed", "join")
  BY DEF HandleFillingLevel
<1>2. /\ first.label = "percent" /\ first.value = shown.percent /\ first.then = shown
      /\ second.label = "percent" /\ second.value = shown.percent /\ second.then = filled
      /\ levelRow.label = "level" /\ levelRow.value = filled.current /\ levelRow.then = filled
      /\ percentRow.label = "percent" /\ percentRow.value = filled.percent /\ percentRow.then = filled
  BY OnChangeFields DEF PercentRow
<1>3. /\ p \in Int \cup {None} /\ l \in Int \cup {None} /\ h \in Int \cup {None}
      /\ LevelConfig.offsetLevel \in Int
  BY MessageTyped, LevelConfigAssumption
<1>4. /\ raised \in LevelMem /\ raised.current = s.current /\ raised.percent = s.percent
  <2>1. s.maxLevel \in Nat
    BY DEF LevelMem
  <2>2. (IF h # None /\ h > s.maxLevel THEN h ELSE s.maxLevel) \in Nat
    BY <1>3, <2>1
  <2> QED
    BY <2>2 DEF LevelMem
<1> HIDE DEF raised
<1>5. /\ shown \in LevelMem /\ shown.current = s.current
      /\ usesPercent => shown.percent = p /\ p \in Int
      /\ ~usesPercent => shown.percent = s.percent
  BY <1>3, <1>4 DEF LevelMem
<1> HIDE DEF shown
<1>6. ASSUME l # None
      PROVE  filled \in LevelMem /\ (filled.percent # shown.percent => IsNotZero(shown.maxLevel))
  <2>1. /\ lifted \in LevelMem /\ lifted.maxLevel = shown.maxLevel
        /\ lifted.percent = shown.percent
    BY <1>3, <1>5, <1>6 DEF LevelMem
  <2> HIDE DEF lifted
  <2> QED
    BY <2>1, RepercentTyped
<1> HIDE DEF lifted, filled
<1> DEFINE W == {second, percentRow, levelRow}
<1>7. second \in W /\ percentRow \in W /\ levelRow \in W
  OBVIOUS
<1> HIDE DEF first, second, levelRow, percentRow, W, usesPercent, p
<1>8. ASSUME usesPercent
      PROVE  \A x \in News("level", s, first.then) : SameFact("level", x, first)
  <2> SUFFICES ASSUME NEW x \in News("level", s, shown)
               PROVE  SameFact("level", x, first)
    BY <1>2
  <2>1. ~LevelHasChanged(s.current, shown.current) /\ ~LevelHasChanged(shown.percent, first.value)
    BY <1>2, <1>5, <1>8, UnchangedAlike DEF LevelMem
  <2>2. x = Fact("percent", shown.percent)
    BY <1>5, <2>1, LevelNews
  <2> QED
    BY <1>2, <2>1, <2>2, LevelTells
<1>9. /\ filledRows \in Seq(W) /\ filledRows # << >>
      /\ filledRows[Len(filledRows)] = levelRow /\ InSeq(levelRow, filledRows)
      /\ stored => InSeq(percentRow, filledRows)
  <2>1. CASE ~stored
    <3>1. filledRows = << levelRow >>
      BY <2>1
    <3> HIDE DEF filledRows
    <3> QED
      BY <1>7, <2>1, <3>1 DEF InSeq
  <2>2. CASE stored
    <3>1. filledRows = << percentRow, levelRow >>
      BY <2>2
    <3> HIDE DEF filledRows, stored
    <3>2. Len(filledRows) = 2 /\ filledRows[1] = percentRow /\ filledRows[2] = levelRow
      BY <3>1
    <3> QED
      BY <1>7, <3>1, <3>2 DEF InSeq
  <2> QED
    BY <2>1, <2>2
<1> HIDE DEF filledRows
<1>10. ASSUME l # None, NEW x \in News("level", s, filled)
       PROVE  \/ SameFact("level", x, levelRow)
              \/ stored /\ SameFact("level", x, percentRow)
              \/ usesPercent /\ SameFact("level", x, second)
  <2>1. CASE x = Fact("level", filled.current)
    <3>1. ~LevelHasChanged(filled.current, levelRow.value)
      BY <1>2, <1>6, <1>10, UnchangedAlike DEF LevelMem
    <3> QED
      BY <1>2, <2>1, <3>1, LevelTells
  <2>2. CASE x = Fact("percent", filled.percent) /\ PercentStored(s.percent, filled.percent)
    <3>1. filled.percent \in Int /\ ~LevelHasChanged(filled.percent, filled.percent)
      BY <1>6, <1>10, <2>2, UnchangedAlike DEF LevelMem, PercentStored
    <3>2. CASE stored
      BY <1>2, <2>2, <3>1, <3>2, LevelTells
    <3>3. CASE ~stored /\ usesPercent
      <4>1. shown.percent \in Int
        BY <1>5, <3>3
      <4>2. ~LevelHasChanged(filled.percent, shown.percent)
        <5>1. CASE filled.percent = shown.percent
          BY <3>1, <5>1
        <5>2. CASE filled.percent # shown.percent
          <6>1. ~PercentStored(shown.percent, filled.percent)
            BY <1>6, <1>10, <3>3, <5>2
          <6>2. filled.percent # None
            BY <2>2 DEF PercentStored
          <6>3. ~LevelHasChanged(shown.percent, filled.percent)
            BY <6>1, <6>2 DEF PercentStored
          <6> QED
            BY <3>1, <4>1, <6>3, ChangedEitherWay
        <5> QED
          BY <5>1, <5>2
      <4> QED
        BY <1>2, <2>2, <3>3, <4>2, LevelTells
    <3>4. CASE ~stored /\ ~usesPercent
      <4>1. PercentStored(shown.percent, filled.percent)
        BY <1>5, <2>2, <3>4
      <4>2. filled.percent = shown.percent
        BY <1>6, <1>10, <3>4, <4>1
      <4> QED
        BY <3>1, <4>1, <4>2, NoneAssumption DEF PercentStored
    <3> QED
      BY <3>2, <3>3, <3>4
  <2> QED
    BY <1>6, <1>10, <2>1, <2>2, LevelNews
<1> HIDE DEF stored
<1>11. CASE usesPercent /\ l # None
  <2> DEFINE rows == << second >> \o filledRows
  <2>1. << second >> \in Seq(W) /\ InSeq(second, << second >>)
    BY <1>7 DEF InSeq
  <2>2. rows \in Seq(W) /\ rows # << >> /\ rows[Len(rows)] = levelRow
    BY <1>9, <2>1, ConcatLast
  <2>3. /\ InSeq(second, rows) /\ InSeq(levelRow, rows)
        /\ stored => InSeq(percentRow, rows)
    BY <1>9, <2>1, ConcatHas
  <2> HIDE DEF rows
  <2>4. \A x \in News("level", s, rows[Len(rows)].then) :
            \E write \in W : InSeq(write, rows) /\ SameFact("level", x, write)
    BY <1>2, <1>7, <1>10, <1>11, <2>2, <2>3
  <2>5. Witnessed("level", s, Run(shown, rows, "changed", "join"))
    BY <2>2, <2>4, WritesWitness
  <2> QED
    BY <1>1, <1>8, <1>11, <2>5, EmptyRunsWitnessed, UnannouncedWitnessed, OneWriteWitness DEF rows
<1>12. CASE ~usesPercent /\ l # None
  <2>1. \A x \in News("level", s, filledRows[Len(filledRows)].then) :
            \E write \in W : InSeq(write, filledRows) /\ SameFact("level", x, write)
    BY <1>2, <1>7, <1>9, <1>10, <1>12
  <2>2. Witnessed("level", s, Run(filled, filledRows, "changed", "join"))
    BY <1>9, <2>1, WritesWitness
  <2> QED
    BY <1>1, <1>12, <2>2, EmptyRunsWitnessed, UnannouncedWitnessed
<1>13. CASE l = None
  BY <1>1, <1>8, <1>13, EmptyRunsWitnessed, UnannouncedWitnessed, OneWriteWitness
<1> QED
  BY <1>11, <1>12, <1>13

(* A level, however it is measured.                                        *)
LEMMA LevelWitnessed ==
    ASSUME NEW s \in LevelMem, NEW m \in Message
    PROVE  Witnessed("level", s, LevelHandle(s, m))
  BY HandleDistanceWitnessed, HandleFillingLevelWitnessed, EmptyRunsWitnessed DEF LevelHandle

(* Whatever its type, a handler that reports a change stores a row for what *)
(* is new, and returns the error if it cannot (functions.go: f.handle).     *)
LEMMA HandleWitnessed ==
    ASSUME NEW type \in FunctionTypeNames, NEW s \in Memory(type),
           NEW m \in Message, NEW t \in Nat
    PROVE  Witnessed(type, s, Handle(type, s, m, t))
<1>1. CASE type = "presence"
  BY <1>1, PresenceWitnessed DEF Handle
<1>2. CASE type = "counter"
  BY <1>2, CounterWitnessed DEF Handle, Memory
<1>3. CASE type = "digitalinput"
  BY <1>3, DigitalInputWitnessed DEF Handle, Memory
<1>4. CASE type = "waterquality"
  BY <1>4, WaterQualityWitnessed DEF Handle
<1>5. CASE type = "stopwatch"
  BY <1>5, StopwatchWitnessed DEF Handle, Memory
<1>6. CASE type = "building"
  BY <1>6, BuildingWitnessed DEF Handle
<1>7. CASE type = "airquality"
  BY <1>7, AirQualityWitnessed DEF Handle, Memory
<1>8. CASE type = "level"
  BY <1>8, LevelWitnessed DEF Handle, Memory
<1>9. CASE type = "timer"
  BY <1>9, TimerWitnessed DEF Handle
<1> QED
  BY <1>1, <1>2, <1>3, <1>4, <1>5, <1>6, <1>7, <1>8, <1>9 DEF FunctionTypeNames
-----------------------------------------------------------------------------
(* There is a row for x, among those that a call has stored or among those  *)
(* that it has still to store.                                              *)
Told(type, log, rows, writes, x) ==
    \/ \E r \in rows : SameFact(type, x, log[r])
    \/ \E i \in DOMAIN writes : SameFact(type, x, writes[i])

(* A call that is going to announce a change has stored, or has still to    *)
(* store, a row for everything that is new.                                 *)
PersistAt(w) ==
    Handling(w) /\ Changed(w) /\ ~run[w].failed =>
        LET f == Fn(w)
        IN  /\ run[w].onerr # "drop"
            /\ run[w].rows \subseteq DOMAIN history[f]
            /\ run[w].rows # {} \/ run[w].writes # << >>
            /\ \A x \in News(Type[f], run[w].entry, FinalOf(mem[f], run[w].writes)) :
                  Told(Type[f], history[f], run[w].rows, run[w].writes, x)

(* What PersistBeforePublish says of an update                              *)
OnRecord(type, log, u) ==
    u.changed =>
        /\ u.rows # {}
        /\ u.rows \subseteq DOMAIN log
        /\ \A x \in News(type, u.entry, u.mem) : \E r \in u.rows : SameFact(type, x, log[r])

PersistInvariant ==
    /\ \A f \in Functions : \A i \in DOMAIN updates[f] : OnRecord(Type[f], history[f], updates[f][i])
    /\ \A w \in Workers : PersistAt(w)

(* Rows are added to the history and never change.                          *)
LEMMA HistoryGrows ==
    ASSUME TypeOK, [AnyStep]_vars, NEW f \in Functions, NEW r \in DOMAIN history[f]
    PROVE  r \in DOMAIN history'[f] /\ history'[f][r] = history[f][r]
<1>1. history \in [Functions -> Seq(Row)]
  BY DEF TypeOK
<1>2. CASE UNCHANGED history
  BY <1>2
<1>3. ASSUME NEW g \in Functions, NEW write, Stored(g, write)
      PROVE  r \in DOMAIN history'[f] /\ history'[f][r] = history[f][r]
  <2> DEFINE row == [label |-> write.label, value |-> write.value, time |-> write.time]
  <2>1. history' = [history EXCEPT ![g] = Append(history[g], row)]
    BY <1>3 DEF Stored
  <2> HIDE DEF row
  <2>2. history'[f] = history[f] \/ history'[f] = Append(history[f], row)
    BY <1>1, <2>1
  <2>3. history[f] \in Seq(Row)
    BY <1>1
  <2> QED
    BY <2>2, <2>3
<1>4. ASSUME NEW w \in Workers, StoreRow(w) \/ StoreFails(w)
      PROVE  r \in DOMAIN history'[f] /\ history'[f][r] = history[f][r]
  <2>1. Fn(w) \in Functions
    BY <1>4, NextWriteTyped, HandlingTyped DEF StoreRow, StoreFails
  <2> QED
    BY <1>2, <1>3, <1>4, <2>1 DEF StoreRow, StoreFails, AddFails
<1> QED
  BY <1>2, <1>4 DEF AnyStep, Next, Tick, Restart, Receive, Lock, Ignore, StartHandle, Proceed,
     Store, ReturnError, ReturnSilently, Publish, PublishFails, vars

(* A row that has just been stored is the last of the history. *)
LEMMA StoredLast ==
    ASSUME TypeOK, NEW f \in Functions, NEW write, Stored(f, write)
    PROVE  LET r == Len(history[f]) + 1
           IN  /\ r \in DOMAIN history'[f]
               /\ history'[f][r].label = write.label
               /\ history'[f][r].value = write.value
               /\ history'[f][r].time = write.time
<1> DEFINE row == [label |-> write.label, value |-> write.value, time |-> write.time]
<1>1. history'[f] = Append(history[f], row) /\ history[f] \in Seq(Row)
  BY DEF TypeOK, Stored
<1>2. row.label = write.label /\ row.value = write.value /\ row.time = write.time
  OBVIOUS
<1> HIDE DEF row
<1>3. /\ Len(history[f]) + 1 \in DOMAIN history'[f]
      /\ history'[f][Len(history[f]) + 1] = row
  BY <1>1
<1> QED
  BY <1>2, <1>3

(* A write that remains is the next one, or remains after it. *)
LEMMA TailHas ==
    ASSUME NEW W, NEW writes \in Seq(W), writes # << >>, NEW i \in DOMAIN writes
    PROVE  \/ writes[i] = Head(writes)
           \/ \E j \in DOMAIN Tail(writes) : Tail(writes)[j] = writes[i]
<1> DEFINE rest == Tail(writes)
<1>1. /\ Len(writes) \in Nat \ {0}
      /\ rest \in Seq(W) /\ Len(rest) = Len(writes) - 1
      /\ \A j \in 1 .. Len(rest) : rest[j] = writes[j + 1]
      /\ Head(writes) = writes[1]
  BY HeadTailProperties, EmptySeq
<1>2. i \in 1 .. Len(writes) /\ DOMAIN rest = 1 .. Len(rest)
  BY <1>1
<1> HIDE DEF rest
<1>3. CASE i = 1
  BY <1>1, <1>3
<1>4. CASE i # 1
  <2>1. i - 1 \in 1 .. Len(rest) /\ (i - 1) + 1 = i
    BY <1>1, <1>2, <1>4
  <2>2. rest[i - 1] = writes[i]
    BY <1>1, <2>1
  <2> QED
    BY <1>2, <2>1, <2>2 DEF rest
<1> QED
  BY <1>3, <1>4
-----------------------------------------------------------------------------
(* What a row has told it goes on telling. *)
LEMMA ToldGrows ==
    ASSUME TypeOK, [AnyStep]_vars, NEW f \in Functions, NEW rows, rows \subseteq DOMAIN history[f]
    PROVE  /\ rows \subseteq DOMAIN history'[f]
           /\ \A type, x : \A r \in rows :
                 SameFact(type, x, history[f][r]) => SameFact(type, x, history'[f][r])
           /\ \A type, writes, x :
                 Told(type, history[f], rows, writes, x) => Told(type, history'[f], rows, writes, x)
<1>1. \A r \in rows : r \in DOMAIN history'[f] /\ history'[f][r] = history[f][r]
  BY HistoryGrows
<1> QED
  BY <1>1 DEF Told

(* Who is not handling a message, or does what it did, has nothing to fear. *)
LEMMA UntouchedPersists ==
    ASSUME TypeOK, [AnyStep]_vars, NEW w \in Workers, PersistAt(w),
           Handling(w)' => Handling(w) /\ Fn(w)' = Fn(w) /\ run'[w] = run[w] /\ mem' = mem
    PROVE  PersistAt(w)'
<1>1. CASE ~Handling(w)'
  BY <1>1 DEF PersistAt
<1>2. CASE Handling(w)'
  <2>1. Handling(w) /\ Fn(w)' = Fn(w) /\ run'[w] = run[w] /\ mem' = mem /\ Fn(w) \in Functions
    BY <1>2, HandlingTyped
  <2>2. Changed(w)' <=> Changed(w)
    BY <2>1 DEF Changed
  <2> SUFFICES ASSUME Changed(w), ~run[w].failed
               PROVE  PersistAt(w)'
    BY <2>1, <2>2 DEF PersistAt
  <2>3. /\ run[w].onerr # "drop"
        /\ run[w].rows \subseteq DOMAIN history[Fn(w)]
        /\ run[w].rows # {} \/ run[w].writes # << >>
        /\ \A x \in News(Type[Fn(w)], run[w].entry, FinalOf(mem[Fn(w)], run[w].writes)) :
              Told(Type[Fn(w)], history[Fn(w)], run[w].rows, run[w].writes, x)
    BY <2>1 DEF PersistAt
  <2>4. /\ run[w].rows \subseteq DOMAIN history'[Fn(w)]
        /\ \A x \in News(Type[Fn(w)], run[w].entry, FinalOf(mem[Fn(w)], run[w].writes)) :
              Told(Type[Fn(w)], history'[Fn(w)], run[w].rows, run[w].writes, x)
    BY <2>1, <2>3, ToldGrows
  <2> QED
    BY <2>1, <2>3, <2>4 DEF PersistAt
<1> QED
  BY <1>1, <1>2

(* What a worker starts with *)
LEMMA StartFields ==
    ASSUME TypeOK, NEW w \in Workers, StartHandle(w)
    PROVE  LET r == Handle(Type[Fn(w)], mem[Fn(w)], msg[w], now)
           IN  /\ Fn(w) \in Functions /\ Fn(w)' = Fn(w)
               /\ mem'[Fn(w)] = r.begin
               /\ run'[w].entry = mem[Fn(w)] /\ run'[w].rows = {}
               /\ run'[w].writes = r.writes /\ run'[w].outcome = r.outcome
               /\ run'[w].onerr = r.onerr
               /\ Witnessed(Type[Fn(w)], mem[Fn(w)], r)
<1> DEFINE f == Fn(w)
           r == Handle(Type[f], mem[f], msg[w], now)
           started == [entry |-> mem[f], writes |-> r.writes, rows |-> {}, outcome |-> r.outcome,
                       onerr |-> r.onerr, failed |-> FALSE]
<1>1. msg[w] \in Message /\ f \in Functions /\ now \in Nat /\ mem[f] \in Memory(Type[f])
  BY DEF StartHandle, TypeOK, Ignorable, Message, Fn
<1>2. Witnessed(Type[f], mem[f], r)
  BY <1>1, EngineAssumption, HandleWitnessed
<1>3. mem' = [mem EXCEPT ![f] = r.begin] /\ run' = [run EXCEPT ![w] = started] /\ msg' = msg
  BY DEF StartHandle
<1> HIDE DEF r
<1>4. mem'[f] = r.begin /\ run'[w] = started
  BY <1>1, <1>3 DEF TypeOK
<1> QED
  BY <1>1, <1>2, <1>3, <1>4 DEF r, Fn

(* A handler starts with the rows that HandleWitnessed promises.           *)
LEMMA StartPersists ==
    ASSUME TypeOK, NEW w \in Workers, StartHandle(w)
    PROVE  PersistAt(w)'
<1> DEFINE f == Fn(w)
           e == mem[f]
           r == Handle(Type[f], e, msg[w], now)
<1>1. /\ f' = f /\ run'[w].entry = e /\ run'[w].rows = {}
      /\ run'[w].writes = r.writes /\ mem'[f] = r.begin
      /\ Changed(w)' <=> r.outcome = "changed"
      /\ run'[w].onerr = r.onerr
      /\ Witnessed(Type[f], e, r)
  BY StartFields DEF Changed
<1> HIDE DEF r, e
<1>2. FinalOf(r.begin, r.writes) = FinalMemory(r)
  BY DEF FinalMemory
<1>3. r.outcome = "changed" =>
        /\ r.onerr # "drop" /\ r.writes # << >>
        /\ \A x \in News(Type[f], e, FinalOf(r.begin, r.writes)) :
              Told(Type[f], history'[f], {}, r.writes, x)
  BY <1>1, <1>2 DEF Witnessed, Told
<1> QED
  BY <1>1, <1>3 DEF PersistAt

(* Once the next row is stored it is one of those of the call, and the end  *)
(* of the call stays as it was.                                             *)
LEMMA WritePersists ==
    ASSUME TypeOK, [AnyStep]_vars, NEW w \in Workers, StoreRow(w), PersistAt(w)
    PROVE  PersistAt(w)'
<1> DEFINE f == Fn(w)
           writes == run[w].writes
           W == Writes(Memory(Type[f]))
           n == Len(history[f]) + 1
           rows == run[w].rows
           s == FinalOf(mem[f], writes)
<1>1. /\ Handling(w) /\ writes # << >> /\ writes \in Seq(W) /\ f \in Functions
      /\ run[w] \in Pending(Memory(Type[f]))
  BY HandlingTyped DEF StoreRow, NextWrite, Pending
<1>2. /\ Stored(f, Head(writes))
      /\ mem' = [mem EXCEPT ![f] = Head(writes).then]
      /\ run' = [run EXCEPT ![w].writes = Tail(@), ![w].rows = @ \cup {n}]
      /\ UNCHANGED << pc, msg >>
  BY DEF StoreRow
<1> HIDE DEF n
<1>3. /\ run'[w].writes = Tail(writes) /\ run'[w].outcome = run[w].outcome
      /\ run'[w].onerr = run[w].onerr /\ run'[w].failed = run[w].failed
      /\ run'[w].entry = run[w].entry /\ run'[w].rows = rows \cup {n}
      /\ mem'[f] = Head(writes).then /\ f' = f /\ Handling(w)'
  BY <1>1, <1>2 DEF TypeOK, Pending, Fn, Handling
<1>4. FinalOf(Head(writes).then, Tail(writes)) = s
  BY <1>1, FinalOfTail
<1>5. n \in DOMAIN history'[f]
      /\ history'[f][n].label = Head(writes).label /\ history'[f][n].value = Head(writes).value
  BY <1>1, <1>2, StoredLast DEF n
<1>6. Changed(w)' <=> Changed(w)
  BY <1>3 DEF Changed
<1> SUFFICES ASSUME Changed(w), ~run[w].failed
             PROVE  PersistAt(w)'
  BY <1>1, <1>3, <1>6 DEF PersistAt
<1>7. /\ run[w].onerr # "drop" /\ rows \subseteq DOMAIN history[f]
      /\ \A x \in News(Type[f], run[w].entry, s) : Told(Type[f], history[f], rows, writes, x)
  BY <1>1 DEF PersistAt
<1>8. rows \cup {n} \subseteq DOMAIN history'[f]
  BY <1>1, <1>5, <1>7, ToldGrows
<1>9. ASSUME NEW x \in News(Type[f], run[w].entry, s)
      PROVE  Told(Type[f], history'[f], rows \cup {n}, Tail(writes), x)
  <2>1. Told(Type[f], history'[f], rows, writes, x)
    BY <1>1, <1>7, <1>9, ToldGrows
  <2>2. CASE \E r \in rows : SameFact(Type[f], x, history'[f][r])
    BY <2>2 DEF Told
  <2>3. CASE SameFact(Type[f], x, Head(writes))
    <3>1. SameFact(Type[f], x, history'[f][n])
      BY <1>5, <2>3 DEF SameFact
    <3> QED
      BY <3>1 DEF Told
  <2>4. CASE \E i \in DOMAIN Tail(writes) : SameFact(Type[f], x, Tail(writes)[i])
    BY <2>4 DEF Told
  <2>5. ASSUME NEW i \in DOMAIN writes, SameFact(Type[f], x, writes[i])
        PROVE  \/ SameFact(Type[f], x, Head(writes))
               \/ \E j \in DOMAIN Tail(writes) : SameFact(Type[f], x, Tail(writes)[j])
    BY <1>1, <2>5, TailHas
  <2> QED
    BY <2>1, <2>2, <2>3, <2>4, <2>5 DEF Told
<1>10. s' = s
  BY <1>3, <1>4
<1> HIDE DEF s, rows, writes
<1> QED
  BY <1>3, <1>7, <1>8, <1>9, <1>10 DEF PersistAt, s, writes, rows

(* A row that could not be stored keeps the change from being announced. *)
LEMMA FailureIsKept ==
    ASSUME TypeOK, NEW w \in Workers, StoreFails(w), PersistAt(w)
    PROVE  Handling(w)' => ~Changed(w)' \/ run'[w].failed
<1>1. Handling(w) /\ w \in DOMAIN pc /\ run[w] \in Pending(Memory(Type[Fn(w)]))
  BY HandlingTyped DEF StoreFails, NextWrite, TypeOK
<1>2. CASE run[w].onerr = "stop"
  <2>1. pc'[w] = "idle"
    BY <1>1, <1>2 DEF StoreFails, Unlock, TypeOK
  <2> QED
    BY <2>1 DEF Handling
<1>3. CASE run[w].onerr # "stop"
  <2>1. run' = [run EXCEPT ![w].writes = Tail(@),
                           ![w].failed = run[w].failed \/ run[w].onerr = "join"]
    BY <1>1, <1>3 DEF StoreFails, Pending, TypeOK
  <2>2. /\ run'[w].failed <=> run[w].failed \/ run[w].onerr = "join"
        /\ run'[w].outcome = run[w].outcome
    BY <1>1, <2>1 DEF Pending, TypeOK
  <2>3. run[w].onerr \in {"join", "drop"}
    BY <1>1, <1>3 DEF Pending
  <2>4. Changed(w)' => Changed(w)
    BY <2>2 DEF Changed
  <2> QED
    BY <1>1, <2>2, <2>3, <2>4 DEF PersistAt
<1> QED
  BY <1>2, <1>3

(* What is published of a change is in the history. *)
LEMMA PublishPersists ==
    ASSUME TypeOK, PersistInvariant, NEW w \in Workers, Publish(w),
           NEW f \in Functions, NEW i \in DOMAIN updates'[f]
    PROVE  OnRecord(Type[f], history'[f], updates'[f][i])
<1> DEFINE g == Fn(w)
           update == [mem |-> mem[g], stamp |-> stamp'[g],
                      meta |-> meta[g], changed |-> Changed(w),
                      entry |-> run[w].entry, rows |-> run[w].rows,
                      count |-> CountTaken(Type[g], msg[w])]
<1>1. /\ Handling(w) /\ run[w].writes = << >> /\ ~run[w].failed /\ UNCHANGED << mem, history >>
      /\ updates' = [updates EXCEPT ![g] = Append(updates[g], update)]
  BY DEF Publish, Succeeded, Handled, TypeOK
<1>2. g \in Functions
  BY <1>1, HandlingTyped
<1>3. /\ update.mem = mem[g] /\ update.changed = Changed(w)
      /\ update.entry = run[w].entry /\ update.rows = run[w].rows
  OBVIOUS
<1> HIDE DEF update
<1>4. OnRecord(Type[g], history[g], update)
  <2>1. FinalOf(mem[g], run[w].writes) = mem[g] /\ DOMAIN run[w].writes = {}
    BY <1>1 DEF FinalOf
  <2>2. PersistAt(w)
    BY DEF PersistInvariant
  <2> QED
    BY <1>1, <1>3, <2>1, <2>2 DEF PersistAt, Told, OnRecord
<1>5. updates[f] \in Seq(Update(f)) /\ DOMAIN updates = Functions
  BY DEF TypeOK
<1>6. CASE i \in DOMAIN updates[f] /\ updates'[f][i] = updates[f][i]
  BY <1>1, <1>6 DEF PersistInvariant
<1>7. CASE f = g /\ updates'[f][i] = update
  BY <1>1, <1>4, <1>7
<1>8. updates'[f] = IF f = g THEN Append(updates[f], update) ELSE updates[f]
  BY <1>1, <1>2, <1>5
<1> QED
  BY <1>5, <1>6, <1>7, <1>8

(* Every step keeps what is announced, or is going to be, recorded. *)
LEMMA PersistStep ==
    ASSUME PersistInvariant, MutualExclusion, TypeOK, [AnyStep]_vars
    PROVE  PersistInvariant'
<1>1. ASSUME NEW f \in Functions, NEW i \in DOMAIN updates'[f]
      PROVE  OnRecord(Type[f], history'[f], updates'[f][i])
  <2>1. CASE UNCHANGED updates
    <3>1. i \in DOMAIN updates[f] /\ updates'[f][i] = updates[f][i]
      BY <1>1, <2>1
    <3> DEFINE u == updates[f][i]
    <3>2. OnRecord(Type[f], history[f], u)
      BY <3>1 DEF PersistInvariant
    <3> HIDE DEF u
    <3>3. OnRecord(Type[f], history'[f], u)
      BY <3>2, ToldGrows DEF OnRecord
    <3> QED
      BY <3>1, <3>3 DEF u
  <2>2. ASSUME NEW w \in Workers, Publish(w)
        PROVE  OnRecord(Type[f], history'[f], updates'[f][i])
    BY <1>1, <2>2, PublishPersists
  <2> QED
    BY <2>1, <2>2 DEF AnyStep, Next, Tick, Restart, Receive, Lock, Ignore, StartHandle, Proceed,
       Store, StoreRow, StoreFails, ReturnError, ReturnSilently, PublishFails, vars
<1>2. ASSUME NEW v \in Workers
      PROVE  PersistAt(v)'
  <2>0. PersistAt(v)
    BY DEF PersistInvariant
  <2>1. CASE Tick \/ UNCHANGED vars
    BY <2>0, <2>1, UntouchedPersists DEF Tick, process, vars, Handling, Fn
  <2>2. CASE Restart
    BY <2>2 DEF Restart, PersistAt, Handling
  <2>3. ASSUME NEW w \in Workers, Receive(w) \/ Ignore(w)
        PROVE  PersistAt(v)'
    BY <2>0, <2>3, UntouchedPersists DEF Receive, Ignore, TypeOK, Handling, Fn
  <2>4. ASSUME NEW w \in Workers, Unlock(w), Handling(w)
        PROVE  PersistAt(v)'
    BY <2>4, EngineAssumption DEF MutualExclusion, Unlock, PersistAt, Handling, TypeOK
  <2>5. ASSUME NEW w \in Workers, StartHandle(w) \/ StoreRow(w) \/ StoreFails(w), v # w
        PROVE  PersistAt(v)'
    <3>1. ~Handling(v)
      BY <2>5, EngineAssumption
      DEF MutualExclusion, StartHandle, LockFree, StoreRow, StoreFails, NextWrite
    <3>2. ~Handling(v)'
      BY <2>5, <3>1 DEF StartHandle, StoreRow, StoreFails, Unlock, Handling, TypeOK
    <3> QED
      BY <3>2 DEF PersistAt
  <2>6. ASSUME StartHandle(v)
        PROVE  PersistAt(v)'
    BY <2>6, StartPersists
  <2>7. ASSUME StoreRow(v)
        PROVE  PersistAt(v)'
    BY <2>0, <2>7, WritePersists
  <2>8. ASSUME StoreFails(v)
        PROVE  PersistAt(v)'
    BY <2>0, <2>8, FailureIsKept DEF PersistAt
  <2> QED
    BY <2>1, <2>2, <2>3, <2>4, <2>5, <2>6, <2>7, <2>8
    DEF AnyStep, Next, Lock, Proceed, Store, ReturnError, ReturnSilently, Publish, PublishFails,
        Succeeded, Handled
<1> QED
  BY <1>1, <1>2 DEF PersistInvariant

(* The invariant says what is announced. *)
LEMMA PersistShown == PersistInvariant => PersistBeforePublish
  BY DEF PersistInvariant, OnRecord, PersistBeforePublish

LEMMA PersistInvariantHolds == Spec => []PersistInvariant
<1>1. Init => PersistInvariant
  BY DEF Init, PersistInvariant, PersistAt, Handling
<1>2. PersistInvariant /\ MutualExclusion /\ TypeOK /\ [Next]_vars => PersistInvariant'
  BY PersistStep DEF AnyStep
<1> QED
  BY <1>1, <1>2, TypeCorrect, MutualExclusionHolds, PTL DEF Spec

(* No change is announced before it is in the database, whatever fails and  *)
(* whenever the process is killed: for everything that an update says anew  *)
(* there is a row that was stored for its message (functions.go: the error  *)
(* of onchange is returned before the function is published).               *)
THEOREM PersistBeforePublishHolds == Spec => []PersistBeforePublish
  BY PersistShown, PersistInvariantHolds, PTL
-----------------------------------------------------------------------------
RowAt(f, t) == \E r \in DOMAIN history[f] : history[f][r].time \in {t, ZeroTime}

(* A call that is going to announce a change of a function that is only     *)
(* announced for changes has set its timestamp, will set it with its next   *)
(* row, or has stored a row without a time.                                 *)
StampAt(w) ==
    Handling(w) /\ Fn(w) \notin OnUpdate /\ Changed(w) /\ ~run[w].failed =>
        \/ run[w].writes # << >>
        \/ stamp[Fn(w)] # ZeroTime
        \/ RowAt(Fn(w), ZeroTime)

StampInvariant == StampHasRow /\ \A w \in Workers : StampAt(w)

(* Who is not handling a message, or does what it did, keeps its stamp.    *)
LEMMA UntouchedStamp ==
    ASSUME TypeOK, [AnyStep]_vars, NEW w \in Workers, StampAt(w),
           Handling(w)' => /\ Handling(w) /\ Fn(w)' = Fn(w) /\ run'[w] = run[w]
                           /\ stamp' = stamp
    PROVE  StampAt(w)'
<1>1. CASE ~Handling(w)'
  BY <1>1 DEF StampAt
<1>2. CASE Handling(w)'
  <2>1. Handling(w) /\ Fn(w)' = Fn(w) /\ run'[w] = run[w] /\ stamp' = stamp /\ Fn(w) \in Functions
    BY <1>2, HandlingTyped
  <2>2. RowAt(Fn(w), ZeroTime) => RowAt(Fn(w), ZeroTime)'
    <3> SUFFICES ASSUME RowAt(Fn(w), ZeroTime)
                 PROVE  \E r \in DOMAIN history'[Fn(w)] : history'[Fn(w)][r].time \in {ZeroTime, ZeroTime}
      BY <2>1 DEF RowAt, ZeroTime
    <3>1. PICK r \in DOMAIN history[Fn(w)] : history[Fn(w)][r].time \in {ZeroTime, ZeroTime}
      BY DEF RowAt
    <3>2. r \in DOMAIN history'[Fn(w)] /\ history'[Fn(w)][r] = history[Fn(w)][r]
      BY <2>1, HistoryGrows
    <3> QED
      BY <3>1, <3>2
  <2>3. Changed(w)' <=> Changed(w)
    BY <2>1 DEF Changed
  <2> QED
    BY <1>2, <2>1, <2>2, <2>3 DEF StampAt
<1> QED
  BY <1>1, <1>2

(* A timestamp that stays has its row for good. *)
LEMMA StampKept ==
    ASSUME TypeOK, [AnyStep]_vars, StampHasRow, NEW f \in Functions \ OnUpdate,
           stamp'[f] = stamp[f], stamp'[f] # ZeroTime
    PROVE  \E r \in DOMAIN history'[f] : history'[f][r].time \in {stamp'[f], ZeroTime}
<1>1. PICK r \in DOMAIN history[f] : history[f][r].time \in {stamp[f], ZeroTime}
  BY DEF StampHasRow
<1>2. r \in DOMAIN history'[f] /\ history'[f][r] = history[f][r]
  BY HistoryGrows
<1> QED
  BY <1>1, <1>2

(* onchange sets the timestamp to the time of the row it has just stored,   *)
(* or leaves it.                                                            *)
LEMMA StoreStamps ==
    ASSUME TypeOK, [Next]_vars, StampInvariant, NEW w \in Workers, Store(w)
    PROVE  /\ StampHasRow'
           /\ StampAt(w)'
<1> DEFINE f == Fn(w)
           write == Head(run[w].writes)
           n == Len(history[f]) + 1
<1>1. f \in Functions /\ write.time \in Nat /\ stamp \in [Functions -> Nat] /\ Handling(w)
  BY NextWriteTyped, HandlingTyped DEF Store, StoreRow, Writes, TypeOK
<1>2. stamp' = [stamp EXCEPT ![f] = StampAfterWrite(f, write.time)] /\ Stored(f, write) /\ f' = f
  BY DEF Store, StoreRow, Fn
<1> HIDE DEF write
<1>5. n \in DOMAIN history'[f] /\ history'[f][n].time = write.time
  BY <1>1, <1>2, StoredLast
<1> HIDE DEF n
<1>3. ASSUME NEW g \in Functions \ OnUpdate, stamp'[g] # ZeroTime
      PROVE  \E r \in DOMAIN history'[g] : history'[g][r].time \in {stamp'[g], ZeroTime}
  <2>1. CASE stamp'[g] = stamp[g]
    BY <1>3, <2>1, StampKept DEF StampInvariant, AnyStep
  <2>2. CASE stamp'[g] # stamp[g]
    <3>1. g = f /\ stamp'[g] = write.time
      BY <1>1, <1>2, <2>2 DEF StampAfterWrite
    <3> QED
      BY <1>5, <3>1
  <2> QED
    BY <2>1, <2>2
<1>4. stamp'[f] # ZeroTime \/ \E r \in DOMAIN history'[f] : history'[f][r].time = ZeroTime
  <2>1. CASE write.time = ZeroTime
    BY <1>5, <2>1
  <2>2. CASE write.time # ZeroTime
    BY <1>1, <1>2, <2>2 DEF StampAfterWrite, ZeroTime
  <2> QED
    BY <2>1, <2>2
<1> QED
  BY <1>2, <1>3, <1>4 DEF StampHasRow, StampAt, RowAt

(* What is announced of a change has a timestamp already, or a row without  *)
(* a time; a function that is announced for a change gets no other.         *)
LEMMA RestampHasRow ==
    ASSUME TypeOK, [Next]_vars, StampHasRow, NEW w \in Workers, StampAt(w),
           Succeeded(w), MustPublish(w), Restamp(Fn(w), msg[w], Changed(w)),
           UNCHANGED history
    PROVE  StampHasRow'
<1> DEFINE f == Fn(w)
<1>1. Handling(w) /\ run[w].writes = << >> /\ ~run[w].failed
  BY DEF Succeeded, Handled
<1>2. f \in Functions /\ stamp \in [Functions -> Nat] /\ now \in Nat
  BY <1>1, HandlingTyped DEF TypeOK
<1> SUFFICES ASSUME NEW g \in Functions \ OnUpdate, stamp'[g] # ZeroTime
             PROVE  \E r \in DOMAIN history[g] : history[g][r].time \in {stamp'[g], ZeroTime}
  BY DEF StampHasRow
<1>3. CASE stamp'[g] = stamp[g]
  BY <1>3 DEF StampHasRow
<1>4. CASE stamp'[g] # stamp[g]
  <2>1. g = f /\ stamp' = [stamp EXCEPT ![f] = AnnouncedStamp(f, msg[w], Changed(w))]
    BY <1>2, <1>4 DEF Restamp
  <2>2. Changed(w)
    BY <2>1 DEF MustPublish
  <2>3. stamp[f] = ZeroTime
    BY <1>2, <1>4, <2>1, <2>2 DEF AnnouncedStamp
  <2>4. RowAt(f, ZeroTime)
    BY <1>1, <2>1, <2>2, <2>3 DEF StampAt
  <2> QED
    BY <2>1, <2>4 DEF RowAt
<1> QED
  BY <1>3, <1>4

(* The steps that store no row, or leave no timestamp behind it             *)
OtherStep ==
    \/ Tick
    \/ Restart
    \/ \E w \in Workers :
          \/ Receive(w)
          \/ Lock(w)
          \/ StoreFails(w)
          \/ ReturnError(w)
          \/ ReturnSilently(w)
          \/ Publish(w)
          \/ PublishFails(w)

LEMMA OtherIsNext ==
    ASSUME [OtherStep]_vars
    PROVE  [Next]_vars /\ [AnyStep]_vars
  BY DEF OtherStep, Next, Proceed, AnyStep

(* They keep a row behind each timestamp.                                   *)
LEMMA StampRowStep ==
    ASSUME StampHasRow, TypeOK, [OtherStep]_vars,
           \A w \in Workers : Handled(w) => StampAt(w)
    PROVE  StampHasRow'
<1>0. [Next]_vars /\ [AnyStep]_vars
  BY OtherIsNext
<1>1. CASE UNCHANGED stamp
  BY <1>0, <1>1, StampKept DEF StampHasRow
<1>2. CASE Restart
  BY <1>2 DEF Restart, StampHasRow
<1>3. ASSUME NEW w \in Workers, Publish(w) \/ PublishFails(w)
      PROVE  StampHasRow'
  BY <1>0, <1>3, RestampHasRow DEF Publish, PublishFails, Succeeded
<1> QED
  BY <1>1, <1>2, <1>3 DEF OtherStep, Tick, Receive, Lock, Ignore, StartHandle,
     StoreFails, ReturnError, ReturnSilently, process, vars

(* And every call that is going to announce a change gets its timestamp,    *)
(* also when another worker stores a row.                                   *)
LEMMA StampAtStep ==
    ASSUME PersistInvariant, MutualExclusion, TypeOK, NEW v \in Workers, StampAt(v),
           [OtherStep]_vars \/ \E w \in Workers : StoreRow(w) /\ v # w
    PROVE  StampAt(v)'
<1>0. [OtherStep]_vars => [AnyStep]_vars
  BY OtherIsNext
<1>1. CASE Tick \/ UNCHANGED vars
  BY <1>0, <1>1, UntouchedStamp DEF OtherStep, Tick, process, vars, Handling, Fn
<1>2. CASE Restart
  BY <1>2 DEF Restart, StampAt, Handling
<1>3. ASSUME NEW w \in Workers, Receive(w) \/ Ignore(w)
      PROVE  StampAt(v)'
  BY <1>0, <1>3, UntouchedStamp DEF OtherStep, Lock, Receive, Ignore, TypeOK, Handling, Fn
<1>4. ASSUME NEW w \in Workers, Unlock(w), Handling(w)
      PROVE  StampAt(v)'
  BY <1>4, EngineAssumption DEF MutualExclusion, Unlock, StampAt, Handling, TypeOK
<1>5. ASSUME NEW w \in Workers, StartHandle(w) \/ StoreRow(w) \/ StoreFails(w), v # w
      PROVE  StampAt(v)'
  <2>1. ~Handling(v)
    BY <1>5, EngineAssumption
    DEF MutualExclusion, StartHandle, LockFree, StoreRow, StoreFails, NextWrite
  <2>2. ~Handling(v)'
    BY <1>5, <2>1 DEF StartHandle, StoreRow, StoreFails, Unlock, Handling, TypeOK
  <2> QED
    BY <2>2 DEF StampAt
<1>6. CASE StartHandle(v)
  <2>1. Changed(v)' => run'[v].writes # << >>
    BY <1>6, StartFields DEF Changed, Witnessed
  <2> QED
    BY <2>1 DEF StampAt
<1>7. CASE StoreFails(v)
  <2>1. Handling(v)' => ~Changed(v)' \/ run'[v].failed
    BY <1>7, FailureIsKept DEF PersistInvariant
  <2> QED
    BY <2>1 DEF StampAt
<1> QED
  BY <1>1, <1>2, <1>3, <1>4, <1>5, <1>6, <1>7
  DEF OtherStep, Lock, ReturnError, ReturnSilently, Publish, PublishFails, Succeeded, Handled

(* Every step keeps a row behind each timestamp. *)
LEMMA StampStep ==
    ASSUME StampInvariant, PersistInvariant, MutualExclusion, TypeOK, [Next]_vars
    PROVE  StampInvariant'
<1>1. CASE [OtherStep]_vars
  BY <1>1, StampRowStep, StampAtStep DEF StampInvariant
<1>2. ASSUME NEW w \in Workers, Store(w)
      PROVE  StampInvariant'
  <2>1. StampHasRow' /\ StampAt(w)'
    BY <1>2, StoreStamps
  <2>2. ASSUME NEW v \in Workers \ {w}
        PROVE  StampAt(v)'
    BY <1>2, StampAtStep DEF Store, StampInvariant
  <2> QED
    BY <2>1, <2>2 DEF StampInvariant
<1> QED
  BY <1>1, <1>2 DEF Next, Proceed, OtherStep

(* The timestamp a function without OnUpdate is listed with is the time of  *)
(* one of its rows, whatever fails and whenever the process is killed       *)
(* (functions.go: onchange stores the row and then sets the timestamp).     *)
THEOREM StampHasRowHolds == Spec => []StampHasRow
<1>1. Init => StampInvariant
  BY DEF Init, StampInvariant, StampHasRow, StampAt, Handling
<1>2. StampInvariant /\ PersistInvariant /\ MutualExclusion /\ TypeOK /\ [Next]_vars
      => StampInvariant'
  BY StampStep
<1>3. StampInvariant => StampHasRow
  BY DEF StampInvariant
<1> QED
  BY <1>1, <1>2, <1>3, PersistInvariantHolds, TypeCorrect, MutualExclusionHolds, PTL DEF Spec
=============================================================================
