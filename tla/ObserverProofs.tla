--------------------------- MODULE ObserverProofs ---------------------------
(***************************************************************************)
(* What is made of the functions beside the path of a message: what the    *)
(* transformers publish and what the clients of the API are answered, from *)
(* the history as the database orders it.                                  *)
(***************************************************************************)
EXTENDS Observers, FunctionViewProofs

-----------------------------------------------------------------------------
(***************************************************************************)
(* The order of the database: of any rows one is the last, and they can be *)
(* counted in that order.                                                  *)
(***************************************************************************)
LEMMA LaterOrder ==
    ASSUME NEW rows \in Seq(Row), NEW i \in DOMAIN rows, NEW j \in DOMAIN rows
    PROVE  /\ ~Later(rows, i, i)
           /\ i # j => Later(rows, i, j) \/ Later(rows, j, i)
           /\ Later(rows, i, j) => ~Later(rows, j, i) /\ rows[i].time >= rows[j].time
           /\ \A k \in DOMAIN rows : Later(rows, i, j) /\ Later(rows, j, k) => Later(rows, i, k)
<1>1. i \in Nat /\ j \in Nat /\ \A k \in DOMAIN rows : k \in Nat
  BY LenProperties
<1>2. rows[i].time \in Nat /\ rows[j].time \in Nat /\ \A k \in DOMAIN rows : rows[k].time \in Nat
  BY RowTyped
<1> QED
  BY <1>1, <1>2 DEF Later

(* m comes last in the order of time among the rows T.                      *)
IsLatest(rows, T, m) == m \in T /\ \A j \in T \ {m} : Later(rows, m, j)

LEMMA SomeLatest ==
    ASSUME NEW rows \in Seq(Row), NEW T \in SUBSET DOMAIN rows, T # {}
    PROVE  \E m \in T : IsLatest(rows, T, m)
<1>0. IsFiniteSet(DOMAIN rows)
  BY FS_Interval, LenProperties
<1> DEFINE G == {n \in Nat : \A S \in SUBSET DOMAIN rows :
                     S # {} /\ Cardinality(S) = n => \E m \in S : IsLatest(rows, S, m)}
<1>1. 0 \in G
  <2>1. \A S \in SUBSET DOMAIN rows : IsFiniteSet(S)
    BY <1>0, FS_Subset
  <2> QED
    BY <2>1, FS_EmptySet
<1>2. ASSUME NEW n \in Nat, n \in G
      PROVE  n + 1 \in G
  <2> SUFFICES ASSUME NEW S \in SUBSET DOMAIN rows, S # {}, Cardinality(S) = n + 1
               PROVE  \E m \in S : IsLatest(rows, S, m)
    OBVIOUS
  <2>1. PICK x \in S : TRUE
    OBVIOUS
  <2> DEFINE R == S \ {x}
  <2>2. IsFiniteSet(S) /\ Cardinality(R) = n
    <3>1. IsFiniteSet(S)
      BY <1>0, FS_Subset
    <3>2. Cardinality(R) = Cardinality(S) - 1
      BY <3>1, FS_RemoveElement
    <3> QED
      BY <3>1, <3>2
  <2>3. CASE R = {}
    BY <2>3 DEF IsLatest
  <2>4. CASE R # {}
    <3>1. PICK m \in R : IsLatest(rows, R, m)
      BY <1>2, <2>2, <2>4
    <3>2. CASE Later(rows, m, x)
      BY <3>1, <3>2 DEF IsLatest
    <3>3. CASE Later(rows, x, m)
      <4>1. \A j \in R : Later(rows, x, j)
        BY <3>1, <3>3, LaterOrder DEF IsLatest
      <4> QED
        BY <4>1 DEF IsLatest
    <3> QED
      BY <3>1, <3>2, <3>3, LaterOrder
  <2> QED
    BY <2>3, <2>4
<1>3. Nat \subseteq G
  BY <1>1, <1>2, NatStepwise
<1>4. Cardinality(T) \in Nat
  BY <1>0, FS_Subset, FS_CardinalityType
<1> QED
  BY <1>3, <1>4

(* The rows of T that i comes after in time.                                *)
SoonerThan(rows, T, i) == {j \in T : Later(rows, i, j)}

(* The row of each rank. *)
LEMMA EveryRank ==
    ASSUME NEW rows \in Seq(Row), NEW T \in SUBSET DOMAIN rows, NEW k \in 1 .. Cardinality(T)
    PROVE  \E i \in T : Cardinality(SoonerThan(rows, T, i)) = k - 1
<1>0. IsFiniteSet(DOMAIN rows)
  BY FS_Interval, LenProperties
<1> DEFINE G == {n \in Nat : \A S \in SUBSET DOMAIN rows :
                     Cardinality(S) = n =>
                        \A r \in 1 .. n : \E i \in S : Cardinality(SoonerThan(rows, S, i)) = r - 1}
<1>1. 0 \in G
  OBVIOUS
<1>2. ASSUME NEW n \in Nat, n \in G
      PROVE  n + 1 \in G
  <2> SUFFICES ASSUME NEW S \in SUBSET DOMAIN rows, Cardinality(S) = n + 1, NEW r \in 1 .. n + 1
               PROVE  \E i \in S : Cardinality(SoonerThan(rows, S, i)) = r - 1
    OBVIOUS
  <2>1. IsFiniteSet(S) /\ S # {}
    <3>1. IsFiniteSet(S)
      BY <1>0, FS_Subset
    <3>2. Cardinality(S) # 0
      OBVIOUS
    <3> QED
      BY <3>1, <3>2, FS_EmptySet
  <2>2. PICK m \in S : IsLatest(rows, S, m)
    BY <2>1, SomeLatest
  <2> DEFINE R == S \ {m}
  <2>3. Cardinality(R) = n
    <3>1. Cardinality(R) = Cardinality(S) - 1
      BY <2>1, FS_RemoveElement
    <3> QED
      BY <3>1
  <2>4. SoonerThan(rows, S, m) = R
    BY <2>2, LaterOrder DEF IsLatest, SoonerThan
  <2>5. \A i \in R : SoonerThan(rows, S, i) = SoonerThan(rows, R, i)
    BY <2>2, LaterOrder DEF IsLatest, SoonerThan
  <2>6. CASE r = n + 1
    <3>1. r - 1 = n
      BY <2>6
    <3>2. Cardinality(SoonerThan(rows, S, m)) = n
      BY <2>3, <2>4
    <3> QED
      BY <3>1, <3>2
  <2>7. CASE r # n + 1
    <3>1. r \in 1 .. n
      BY <2>7
    <3>2. PICK i \in R : Cardinality(SoonerThan(rows, R, i)) = r - 1
      BY <1>2, <2>3, <3>1
    <3> QED
      BY <2>5, <3>2
  <2> QED
    BY <2>6, <2>7
<1>3. Nat \subseteq G
  BY <1>1, <1>2, NatStepwise
<1>4. Cardinality(T) \in Nat
  BY <1>0, FS_Subset, FS_CardinalityType
<1> QED
  BY <1>3, <1>4

(* The history that the database answers with: rows of the function of      *)
(* which the first is the earliest, none when none is asked for, else up to *)
(* the last that there is with the label, which is the latest of all.       *)
LEMMA HistoryIs ==
    ASSUME NEW rows \in Seq(Row), NEW label, NEW n \in Nat
    PROVE  LET h == History(rows, label, n)
           IN  /\ h \in Seq(Row)
               /\ \A k \in DOMAIN h : 1 \in DOMAIN h /\ h[1].time <= h[k].time
               /\ n = 0 => h = << >>
               /\ n > 0 => \A r \in RowsOf(rows, label) :
                              h # << >> /\ rows[r].time <= h[Len(h)].time
<1> DEFINE with == RowsOf(rows, label)
           kept == LastRows(rows, label, n)
           size == Cardinality(kept)
           nth(k) == NthOf(rows, kept, k)
           h == History(rows, label, n)
<1>1. /\ with \subseteq DOMAIN rows /\ kept \subseteq with
      /\ IsFiniteSet(with) /\ IsFiniteSet(kept) /\ size \in Nat
  <2>1. IsFiniteSet(DOMAIN rows) /\ DOMAIN rows = 1 .. Len(rows)
    BY FS_Interval, LenProperties
  <2> QED
    BY <2>1, FS_Subset, FS_CardinalityType DEF RowsOf, LastRows
<1>2. \A k \in 1 .. size : nth(k) \in kept /\ Cardinality(SoonerThan(rows, kept, nth(k))) = k - 1
  <2> SUFFICES ASSUME NEW k \in 1 .. size
               PROVE  nth(k) \in kept /\ Cardinality(SoonerThan(rows, kept, nth(k))) = k - 1
    OBVIOUS
  <2>1. \E i \in kept : Cardinality(SoonerThan(rows, kept, i)) = k - 1
    BY <1>1, EveryRank
  <2> QED
    BY <2>1 DEF NthOf, SoonerThan
<1>3. h = [k \in 1 .. size |-> rows[nth(k)]]
  BY DEF History
<1>4. \A k \in 1 .. size : rows[nth(k)] \in Row
  BY <1>1, <1>2
<1> HIDE DEF kept, nth, h
<1>5. h \in Seq(Row) /\ Len(h) = size /\ DOMAIN h = 1 .. size /\ \A k \in 1 .. size : h[k] = rows[nth(k)]
  <2>1. h \in [1 .. size -> Row]
    BY <1>3, <1>4
  <2> QED
    BY <1>1, <1>3, <2>1
<1>6. h # << >> => size > 0
  BY <1>1, <1>5
<1>7. ASSUME size > 0
      PROVE  IsLatest(rows, kept, nth(size))
  <2> DEFINE last == nth(size)
             before == SoonerThan(rows, kept, last)
  <2>1. last \in kept /\ Cardinality(before) = size - 1
    BY <1>1, <1>2, <1>7
  <2>2. before \subseteq kept \ {last}
    BY <1>1, <2>1, LaterOrder DEF SoonerThan
  <2>3. IsFiniteSet(kept \ {last}) /\ Cardinality(kept \ {last}) = size - 1
    BY <1>1, <2>1, FS_RemoveElement
  <2>4. before = kept \ {last}
    BY <2>1, <2>2, <2>3, FS_Subset
  <2> QED
    BY <2>1, <2>4 DEF IsLatest, SoonerThan
<1>8. ASSUME size > 0, NEW i \in kept
      PROVE  rows[i].time <= h[size].time
  <2>1. nth(size) \in kept /\ h[size] = rows[nth(size)]
    BY <1>1, <1>2, <1>5, <1>8
  <2>2. rows[i].time \in Nat
    BY <1>1, RowTyped
  <2> QED
    BY <1>1, <1>7, <1>8, <2>1, <2>2, LaterOrder DEF IsLatest
<1>9. ASSUME n > 0, NEW r \in with
      PROVE  \E i \in kept : rows[r].time <= rows[i].time
  <2>1. PICK m \in with : IsLatest(rows, with, m)
    BY <1>1, SomeLatest
  <2>2. {j \in with : Later(rows, j, m)} = {}
    BY <1>1, <2>1, LaterOrder DEF IsLatest
  <2>3. m \in kept
    BY <1>9, <2>1, <2>2, FS_EmptySet DEF LastRows, kept
  <2>4. rows[r].time \in Nat /\ rows[m].time \in Nat
    BY <1>1, RowTyped
  <2> QED
    BY <1>1, <2>1, <2>3, <2>4, LaterOrder DEF IsLatest
<1>10. ASSUME n > 0, NEW r \in with
       PROVE  h # << >> /\ rows[r].time <= h[Len(h)].time
  <2>1. PICK i \in kept : rows[r].time <= rows[i].time
    BY <1>9, <1>10
  <2>2. size > 0
    <3>1. kept # {}
      BY <2>1
    <3> QED
      BY <1>1, <3>1, FS_EmptySet
  <2>3. rows[i].time <= h[size].time
    BY <1>8, <2>2
  <2>4. rows[r].time \in Nat /\ rows[i].time \in Nat /\ h[size].time \in Nat
    <3>1. size \in DOMAIN h
      BY <1>1, <1>5, <2>2
    <3> QED
      BY <1>1, <1>5, <3>1, RowTyped
  <2> QED
    BY <1>1, <1>5, <2>1, <2>2, <2>3, <2>4
<1>11. ASSUME NEW k \in DOMAIN h
       PROVE  1 \in DOMAIN h /\ h[1].time <= h[k].time
  <2>1. k \in 1 .. size /\ 1 \in 1 .. size
    BY <1>1, <1>5, <1>11
  <2> DEFINE first == nth(1)
             i == nth(k)
  <2>2. /\ first \in kept /\ Cardinality(SoonerThan(rows, kept, first)) = 0
        /\ i \in kept /\ h[1] = rows[first] /\ h[k] = rows[i]
    BY <1>2, <1>5, <2>1
  <2> HIDE DEF first, i
  <2>3. SoonerThan(rows, kept, first) = {}
    <3>1. SoonerThan(rows, kept, first) \subseteq kept
      BY DEF SoonerThan
    <3>2. IsFiniteSet(SoonerThan(rows, kept, first))
      BY <1>1, <3>1, FS_Subset
    <3> QED
      BY <2>2, <3>2, FS_EmptySet
  <2>4. ~Later(rows, first, i)
    BY <2>2, <2>3 DEF SoonerThan
  <2>5. rows[first].time \in Nat /\ rows[i].time \in Nat
    BY <1>1, <2>2, RowTyped
  <2>6. rows[first].time <= rows[i].time
    BY <2>4, <2>5 DEF Later
  <2> QED
    BY <1>5, <2>1, <2>2, <2>6
<1>12. ASSUME n = 0
       PROVE  h = << >>
  <2>1. ASSUME NEW i \in with
        PROVE  Cardinality({j \in with : Later(rows, j, i)}) \in Nat
    <3>1. {j \in with : Later(rows, j, i)} \subseteq with
      OBVIOUS
    <3> QED
      BY <1>1, <3>1, FS_Subset, FS_CardinalityType
  <2>2. kept = {}
    BY <1>12, <2>1 DEF LastRows, kept
  <2>3. size = 0
    BY <2>2, FS_EmptySet
  <2> QED
    BY <1>5, <2>3
<1> QED
  BY <1>5, <1>10, <1>11, <1>12 DEF h
-----------------------------------------------------------------------------
(* A step is one of the engine, or a fault that concerns nobody in it.      *)
LEMMA ObserverSteps ==
    ASSUME TypeOK, [ObserverNext]_<< vars, observerVars >>
    PROVE  (Aside /\ UNCHANGED << stamp, history >>) \/ [Next]_vars
<1>1. ASSUME UNCHANGED << now, process, history, registered, updates, synced, deliveries, restarts >>,
             Fault
      PROVE  Aside /\ UNCHANGED << stamp, history >>
  <2>1. faults \in Nat /\ faults' = faults + 1
    BY <1>1 DEF TypeOK, Fault
  <2>2. TypeOK'
    BY <1>1, <2>1 DEF TypeOK, process, Handling, Fn
  <2> QED
    BY <1>1, <2>1, <2>2 DEF Aside, process
<1>2. CASE \/ Tick
           \/ ObserverRestart
           \/ \E w \in Workers : Receive(w) \/ Lock(w) \/ Proceed(w)
           \/ UNCHANGED << vars, observerVars >>
  BY <1>2 DEF ObserverRestart, Next
<1>3. ASSUME NEW t \in Transformers,
             ReceiveUpdate(t) \/ DropUpdate(t) \/ PublishTransformed(t) \/ TransformedNotPublished(t)
      PROVE  (Aside /\ UNCHANGED << stamp, history >>) \/ [Next]_vars
  BY <1>1, <1>3 DEF ReceiveUpdate, DropUpdate, PublishTransformed, TransformedNotPublished
<1>4. ASSUME NEW c \in Clients, ListFunctions(c) \/ AskHistory(c) \/ Leave(c)
      PROVE  (Aside /\ UNCHANGED << stamp, history >>) \/ [Next]_vars
  <2>1. AskHistory(c) /\ UNCHANGED faults => UNCHANGED vars
    BY DEF AskHistory, vars, process
  <2>2. AskHistory(c) => UNCHANGED faults \/ Fault
    BY DEF AskHistory
  <2> QED
    BY <1>1, <1>4, <2>1, <2>2 DEF ListFunctions, AskHistory, Leave
<1> QED
  BY <1>2, <1>3, <1>4 DEF ObserverNext, Observe

(* The engine is undisturbed by those who look on.                          *)
LEMMA ObserverEngine == ObserverSpec => []EngineInvariant
<1>1. ObserverInit => EngineInvariant
  BY EngineInit DEF ObserverInit
<1>2. EngineInvariant /\ [ObserverNext]_<< vars, observerVars >> => EngineInvariant'
  BY ObserverSteps, AsideEngine, EngineStep DEF EngineInvariant, AnyStep
<1> QED
  BY <1>1, <1>2, PTL DEF ObserverSpec

(* What was announced is never taken back, not even by a restart.          *)
LEMMA UpdatesStay ==
    ASSUME EngineInvariant, Aside \/ [Next]_vars, NEW f \in Functions, NEW i \in DOMAIN updates[f]
    PROVE  i \in DOMAIN updates'[f] /\ updates'[f][i] = updates[f][i]
<1>1. CASE updates'[f] = updates[f]
  BY <1>1
<1>2. CASE updates'[f] # updates[f]
  <2>1. [Next]_vars
    BY <1>2 DEF Aside
  <2>2. /\ Len(updates'[f]) = Len(updates[f]) + 1
        /\ \A j \in DOMAIN updates[f] : updates'[f][j] = updates[f][j]
    BY <1>2, <2>1, UpdatesStep DEF AnyStep
  <2>3. EngineInvariant'
    BY <2>1, EngineStep DEF AnyStep
  <2>4. updates[f] \in Seq(Update(f)) /\ updates'[f] \in Seq(Update(f))
    BY <2>3 DEF EngineInvariant, TypeOK
  <2> QED
    BY <2>2, <2>4
<1> QED
  BY <1>1, <1>2

(* Rows stay. *)
LEMMA RowsStay ==
    ASSUME EngineInvariant, Aside \/ [Next]_vars, NEW f \in Functions, NEW r \in DOMAIN history[f]
    PROVE  r \in DOMAIN history'[f] /\ history'[f][r] = history[f][r]
  BY HistoryGrows DEF Aside, EngineInvariant, AnyStep
-----------------------------------------------------------------------------
(***************************************************************************)
(* The transformers: what they have in hand was announced, and so was what *)
(* they have published.                                                    *)
(***************************************************************************)
InHand(t) ==
    transforming[t] # None =>
        /\ transforming[t].fn \in Functions
        /\ \E i \in DOMAIN updates[transforming[t].fn] :
              transforming[t].update = updates[transforming[t].fn][i]

(* The update that an event was made of *)
MadeOf(f, m) ==
    \E i \in DOMAIN updates[f] :
        /\ m.picture = Picture(f, updates[f][i].mem)
        /\ m.time = updates[f][i].stamp

(* What transformers hold is an update that was announced, and what they    *)
(* published was made of one.                                               *)
TransformInvariant ==
    /\ DOMAIN transforming = Transformers
    /\ DOMAIN transformed = Functions
    /\ \A t \in Transformers : InHand(t)
    /\ \A f \in Functions : \A m \in transformed[f] :
          MadeOf(f, m) /\ m.picture # None /\ m.sent \in Nat

LEMMA TransformInit == ObserverInit => TransformInvariant
  BY DEF ObserverInit, TransformInvariant, InHand

(* Whatever is announced besides, what was made of the updates stays so.    *)
LEMMA MadeOfStays ==
    ASSUME EngineInvariant, Aside \/ [Next]_vars, NEW f \in Functions, NEW m, MadeOf(f, m)
    PROVE  MadeOf(f, m)'
<1>1. PICK i \in DOMAIN updates[f] :
         m.picture = Picture(f, updates[f][i].mem) /\ m.time = updates[f][i].stamp
  BY DEF MadeOf
<1>2. i \in DOMAIN updates'[f] /\ updates'[f][i] = updates[f][i]
  BY UpdatesStay
<1> QED
  BY <1>1, <1>2 DEF MadeOf, Picture

(* Taking, dropping, transforming and publishing keep it, as updates are    *)
(* never taken back.                                                        *)
LEMMA TransformStep ==
    ASSUME EngineInvariant, TransformInvariant, [ObserverNext]_<< vars, observerVars >>
    PROVE  TransformInvariant'
<1>0. Aside \/ [Next]_vars
  BY ObserverSteps DEF EngineInvariant
<1>1. now \in Nat
  BY DEF EngineInvariant, TypeOK
<1>2. ASSUME NEW x, x.fn \in Functions, NEW i \in DOMAIN updates[x.fn], x.update = updates[x.fn][i]
      PROVE  \E j \in DOMAIN updates'[x.fn] : x.update = updates'[x.fn][j]
  BY <1>0, <1>2, UpdatesStay
<1>3. ASSUME NEW t \in Transformers, transforming'[t] \in {None, transforming[t]}
      PROVE  InHand(t)'
  BY <1>2, <1>3 DEF TransformInvariant, InHand
<1>4. ASSUME NEW t \in Transformers, Forget(t), UNCHANGED transformed
      PROVE  TransformInvariant'
  <2>1. DOMAIN transforming' = Transformers /\ \A u \in Transformers : transforming'[u] \in {None, transforming[u]}
    BY <1>4 DEF Forget, TransformInvariant
  <2> QED
    BY <1>0, <1>3, <1>4, <2>1, MadeOfStays DEF TransformInvariant
<1>5. CASE UNCHANGED << transforming, transformed >>
  BY <1>0, <1>3, <1>5, MadeOfStays DEF TransformInvariant
<1>6. CASE ObserverRestart
  <2>1. DOMAIN transforming' = Transformers /\ \A u \in Transformers : transforming'[u] = None
    BY <1>6 DEF ObserverRestart
  <2> QED
    BY <1>0, <1>3, <1>6, <2>1, MadeOfStays DEF TransformInvariant, ObserverRestart
<1>7. ASSUME NEW t \in Transformers, ReceiveUpdate(t)
      PROVE  TransformInvariant'
  <2>1. PICK f \in Functions : \E i \in DOMAIN updates[f] :
           transforming' = [transforming EXCEPT ![t] = [fn |-> f, update |-> updates[f][i]]]
    BY <1>7 DEF ReceiveUpdate
  <2>2. PICK i \in DOMAIN updates[f] :
           transforming' = [transforming EXCEPT ![t] = [fn |-> f, update |-> updates[f][i]]]
    BY <2>1
  <2> DEFINE x == [fn |-> f, update |-> updates[f][i]]
  <2>3. x.fn = f /\ x.update = updates[f][i]
    OBVIOUS
  <2> HIDE DEF x
  <2>4. DOMAIN transforming' = Transformers /\ transforming'[t] = x
        /\ \A u \in Transformers \ {t} : transforming'[u] = transforming[u]
    BY <2>2 DEF TransformInvariant, x
  <2>5. InHand(t)'
    BY <1>2, <2>3, <2>4 DEF InHand
  <2>6. \A u \in Transformers : InHand(u)'
    BY <1>3, <2>4, <2>5
  <2>7. UNCHANGED transformed
    BY <1>7 DEF ReceiveUpdate
  <2> QED
    BY <1>0, <2>4, <2>6, <2>7, MadeOfStays DEF TransformInvariant
<1>8. ASSUME NEW t \in Transformers, PublishTransformed(t)
      PROVE  TransformInvariant'
  <2> DEFINE f == transforming[t].fn
             e == Transformed(f, transforming[t].update)
  <2>1. f \in Functions /\ MadeOf(f, e)
    BY <1>8 DEF TransformInvariant, InHand, MadeOf, Transformed, PublishTransformed, HasPicture
  <2>2. e.picture # None /\ e.sent \in Nat
    BY <1>1, <1>8 DEF PublishTransformed, HasPicture, Transformed
  <2>3. transformed' = [transformed EXCEPT ![f] = @ \cup {e}]
    BY <1>8 DEF PublishTransformed
  <2>4. DOMAIN transforming' = Transformers /\ \A u \in Transformers : transforming'[u] \in {None, transforming[u]}
    BY <1>8 DEF PublishTransformed, Forget, TransformInvariant
  <2> HIDE DEF f, e
  <2>5. DOMAIN transformed' = Functions
        /\ \A g \in Functions : transformed'[g] = IF g = f THEN transformed[f] \cup {e} ELSE transformed[g]
    BY <2>3 DEF TransformInvariant
  <2>6. ASSUME NEW g \in Functions, NEW m \in transformed'[g]
        PROVE  MadeOf(g, m)' /\ m.picture # None /\ m.sent \in Nat
    <3>1. MadeOf(g, m) /\ m.picture # None /\ m.sent \in Nat
      BY <2>1, <2>2, <2>5, <2>6 DEF TransformInvariant
    <3> QED
      BY <1>0, <3>1, MadeOfStays
  <2> QED
    BY <1>3, <2>4, <2>5, <2>6 DEF TransformInvariant
<1> QED
  BY <1>4, <1>5, <1>6, <1>7, <1>8
  DEF ObserverNext, Observe, observerVars, DropUpdate, TransformedNotPublished, ListFunctions, AskHistory,
      Leave
-----------------------------------------------------------------------------
(***************************************************************************)
(* The clients.                                                            *)
(***************************************************************************)
QueriesTyped ==
    /\ query \in [Clients -> {None} \cup Listed \cup Answer]
    /\ {transforms, queries} \subseteq Nat

(* What a client that has listed a function is answered: all the rows, or   *)
(* the first of them.                                                       *)
LEMMA ResponseFields ==
    ASSUME TypeOK, NEW q \in Listed, NEW n \in Nat, NEW values \in Seq(Row), NEW failed \in BOOLEAN,
           \A k \in DOMAIN values : 1 \in DOMAIN values /\ values[1].time <= values[k].time
    PROVE  LET a == Response(q, n, values, failed)
           IN  /\ a \in Answer
               /\ a.fn = q.fn /\ a.stamp = q.stamp /\ a.step = "answered"
               /\ a.lastN = n /\ a.values = values /\ a.failed = failed
               /\ a.start <= a.end
               /\ values # << >> => a.end = values[Len(values)].time
<1>1. q.fn \in Functions /\ q.stamp \in Nat
  BY DEF Listed
<1>2. now \in Nat /\ ZeroTime \in Nat /\ ZeroTime <= now
  BY DEF TypeOK, ZeroTime
<1>3. values # << >> => Len(values) \in DOMAIN values /\ 1 \in DOMAIN values
  BY LenProperties, EmptySeq
<1>4. values # << >> => /\ values[1].time \in Nat /\ values[Len(values)].time \in Nat
                        /\ values[1].time <= values[Len(values)].time
  BY <1>3, RowTyped
<1> DEFINE start == IF values = << >> THEN ZeroTime ELSE values[1].time
           end == IF values = << >> THEN now ELSE values[Len(values)].time
<1>5. start \in Nat /\ end \in Nat /\ start <= end /\ (values # << >> => end = values[Len(values)].time)
  BY <1>2, <1>4
<1>6. Response(q, n, values, failed) =
         [step |-> "answered", fn |-> q.fn, stamp |-> q.stamp, lastN |-> n, values |-> values,
          start |-> start, end |-> end, failed |-> failed]
  BY DEF Response, Last
<1> HIDE DEF start, end
<1> QED
  BY <1>1, <1>5, <1>6 DEF Answer

(* The first k values of some are values, from the same first one.          *)
LEMMA FirstValues ==
    ASSUME NEW values \in Seq(Row), NEW k \in 0 .. Len(values),
           \A i \in DOMAIN values : 1 \in DOMAIN values /\ values[1].time <= values[i].time
    PROVE  LET h == SubSeq(values, 1, k)
           IN  /\ h \in Seq(Row)
               /\ \A i \in DOMAIN h : 1 \in DOMAIN h /\ h[1].time <= h[i].time
               /\ values = << >> => h = << >>
<1> DEFINE h == SubSeq(values, 1, k)
<1>1. h \in Seq(Row) /\ Len(h) = k /\ \A i \in 1 .. k : h[i] = values[i]
  <2>1. /\ 1 \in 1 .. Len(values) + 1 /\ k \in 0 .. Len(values) /\ Len(values) \in Nat
    OBVIOUS
  <2> QED
    BY <2>1, SubSeqProperties
<1>2. DOMAIN h = 1 .. k /\ DOMAIN values = 1 .. Len(values) /\ k \in Nat /\ Len(values) \in Nat
  BY <1>1
<1>3. values = << >> => h = << >>
  BY <1>1
<1> HIDE DEF h
<1>4. \A i \in DOMAIN h : 1 \in DOMAIN h /\ h[1].time <= h[i].time
  BY <1>1, <1>2
<1> QED
  BY <1>1, <1>3, <1>4 DEF h

(* The steps of a client, as its query sees them. *)
Lists(c) ==
    \E f \in Functions :
        query' = [query EXCEPT ![c] = [step |-> "listed", fn |-> f, stamp |-> stamp[f]]]

(* The API answers with the history as it is, or with an error.             *)
Answers(c) ==
    /\ query[c] # None /\ query[c] \in Listed
    /\ \E n \in 0 .. MaxLastN :
          LET rows == DefaultHistory(query[c].fn, n)
          IN  \/ query' = [query EXCEPT ![c] = Response(query[c], n, rows, FALSE)]
              \/ \E k \in 0 .. Len(rows) :
                    query' = [query EXCEPT ![c] = Response(query[c], n, SubSeq(rows, 1, k), TRUE)]

(* What a client knows is left alone, or changed by one of its own steps.   *)
LEMMA QuerySteps ==
    ASSUME QueriesTyped, [ObserverNext]_<< vars, observerVars >>
    PROVE  \/ UNCHANGED query
           \/ \E c \in Clients :
                 \/ Lists(c) /\ history' = history
                 \/ Answers(c) /\ history' = history
                 \/ query' = [query EXCEPT ![c] = None]
<1>1. ASSUME NEW c \in Clients, ListFunctions(c)
      PROVE  Lists(c) /\ history' = history
  BY <1>1 DEF ListFunctions, Lists, vars
<1>2. ASSUME NEW c \in Clients, AskHistory(c)
      PROVE  Answers(c) /\ history' = history
  <2>1. query[c] \in {None} \cup Listed \cup Answer /\ query[c] # None /\ query[c].step = "listed"
    BY <1>2 DEF AskHistory, QueriesTyped
  <2>2. query[c] \in Listed
    BY <2>1 DEF Answer
  <2> QED
    BY <1>2, <2>1, <2>2 DEF AskHistory, Answers
<1>3. ASSUME NEW c \in Clients, Leave(c)
      PROVE  query' = [query EXCEPT ![c] = None]
  BY <1>3 DEF Leave
<1> QED
  BY <1>1, <1>2, <1>3
  DEF ObserverNext, Observe, observerVars, ObserverRestart, ReceiveUpdate, DropUpdate,
      PublishTransformed, TransformedNotPublished

(* The rows are in the order of time, and all there are when they are asked *)
(* for and none was lost.                                                   *)
LEMMA HistoryFields ==
    ASSUME TypeOK, NEW q \in Listed, NEW n \in 0 .. MaxLastN
    PROVE  LET h == DefaultHistory(q.fn, n)
           IN  /\ h \in Seq(Row)
               /\ \A i \in DOMAIN h : 1 \in DOMAIN h /\ h[1].time <= h[i].time
               /\ n = 0 => h = << >>
               /\ n > 0 => \A r \in RowsOf(history[q.fn], DefaultHistoryLabel(Type[q.fn])) :
                              h # << >> /\ history[q.fn][r].time <= h[Len(h)].time
<1>1. q.fn \in Functions /\ history[q.fn] \in Seq(Row) /\ n \in Nat
  BY ObserverAssumption DEF Listed, TypeOK
<1> QED
  BY <1>1, HistoryIs DEF DefaultHistory

(* What a client holds when it has been answered                            *)
IsAnswer(q, n, a) ==
    /\ a \in Answer
    /\ a.fn = q.fn /\ a.stamp = q.stamp /\ a.step = "answered"
    /\ a.start <= a.end
    /\ a.lastN = n /\ (n = 0 => a.values = << >>)
    /\ n > 0 /\ ~a.failed =>
          \A r \in RowsOf(history[q.fn], DefaultHistoryLabel(Type[q.fn])) :
             a.values # << >> /\ history[q.fn][r].time <= a.end

LEMMA AnswerFields ==
    ASSUME TypeOK, NEW q \in Listed, NEW n \in 0 .. MaxLastN
    PROVE  /\ IsAnswer(q, n, Response(q, n, DefaultHistory(q.fn, n), FALSE))
           /\ \A k \in 0 .. Len(DefaultHistory(q.fn, n)) :
                 IsAnswer(q, n, Response(q, n, SubSeq(DefaultHistory(q.fn, n), 1, k), TRUE))
<1> DEFINE h == DefaultHistory(q.fn, n)
           with == RowsOf(history[q.fn], DefaultHistoryLabel(Type[q.fn]))
<1>1. /\ h \in Seq(Row)
      /\ \A i \in DOMAIN h : 1 \in DOMAIN h /\ h[1].time <= h[i].time
      /\ n = 0 => h = << >>
      /\ n > 0 => \A r \in with : h # << >> /\ history[q.fn][r].time <= h[Len(h)].time
  BY HistoryFields
<1>2. n \in Nat
  BY ObserverAssumption
<1>3. ASSUME NEW v \in Seq(Row), NEW failed \in BOOLEAN,
             \A k \in DOMAIN v : 1 \in DOMAIN v /\ v[1].time <= v[k].time
      PROVE  LET b == Response(q, n, v, failed)
             IN  /\ b \in Answer
                 /\ b.fn = q.fn /\ b.stamp = q.stamp /\ b.step = "answered"
                 /\ b.lastN = n /\ b.values = v /\ b.failed = failed
                 /\ b.start <= b.end
                 /\ v # << >> => b.end = v[Len(v)].time
  BY <1>2, <1>3, ResponseFields
<1> HIDE DEF h, with
<1>4. IsAnswer(q, n, Response(q, n, h, FALSE))
  <2> DEFINE a == Response(q, n, h, FALSE)
  <2>1. /\ a \in Answer
        /\ a.fn = q.fn /\ a.stamp = q.stamp /\ a.step = "answered"
        /\ a.lastN = n /\ a.values = h
        /\ a.start <= a.end
        /\ h # << >> => a.end = h[Len(h)].time
    BY <1>1, <1>3
  <2> HIDE DEF a
  <2>2. n > 0 => \A r \in with : a.values # << >> /\ history[q.fn][r].time <= a.end
    BY <1>1, <2>1
  <2> QED
    BY <1>1, <2>1, <2>2 DEF IsAnswer, a, with
<1>5. ASSUME NEW k \in 0 .. Len(h)
      PROVE  IsAnswer(q, n, Response(q, n, SubSeq(h, 1, k), TRUE))
  <2> DEFINE part == SubSeq(h, 1, k)
             a == Response(q, n, part, TRUE)
  <2>1. /\ part \in Seq(Row)
        /\ \A i \in DOMAIN part : 1 \in DOMAIN part /\ part[1].time <= part[i].time
        /\ h = << >> => part = << >>
    BY <1>1, FirstValues
  <2> HIDE DEF part
  <2>2. /\ a \in Answer
        /\ a.fn = q.fn /\ a.stamp = q.stamp /\ a.step = "answered"
        /\ a.lastN = n /\ a.values = part /\ a.failed = TRUE
        /\ a.start <= a.end
    BY <2>1, <1>3
  <2> HIDE DEF a
  <2>3. n = 0 => a.values = << >>
    BY <1>1, <2>1, <2>2
  <2>4. IsAnswer(q, n, a)
    BY <2>2, <2>3 DEF IsAnswer
  <2> QED
    BY <2>4 DEF a, part
<1> QED
  BY <1>4, <1>5 DEF h

(* Whatever a client is answered, is an answer.                             *)
LEMMA AnswersAre ==
    ASSUME TypeOK, NEW c \in Clients, Answers(c)
    PROVE  /\ query[c] # None /\ query[c] \in Listed
           /\ \E n \in 0 .. MaxLastN, a \in Answer :
                 IsAnswer(query[c], n, a) /\ query' = [query EXCEPT ![c] = a]
<1>1. query[c] # None /\ query[c] \in Listed
  BY DEF Answers
<1>2. PICK n \in 0 .. MaxLastN :
         \/ query' = [query EXCEPT ![c] = Response(query[c], n, DefaultHistory(query[c].fn, n), FALSE)]
         \/ \E k \in 0 .. Len(DefaultHistory(query[c].fn, n)) :
               query' = [query EXCEPT ![c] =
                            Response(query[c], n, SubSeq(DefaultHistory(query[c].fn, n), 1, k), TRUE)]
  BY DEF Answers
<1>3. \A q \in Listed :
         /\ IsAnswer(q, n, Response(q, n, DefaultHistory(q.fn, n), FALSE))
         /\ \A k \in 0 .. Len(DefaultHistory(q.fn, n)) :
               IsAnswer(q, n, Response(q, n, SubSeq(DefaultHistory(q.fn, n), 1, k), TRUE))
  BY AnswerFields
<1>4. /\ IsAnswer(query[c], n, Response(query[c], n, DefaultHistory(query[c].fn, n), FALSE))
      /\ \A k \in 0 .. Len(DefaultHistory(query[c].fn, n)) :
            IsAnswer(query[c], n, Response(query[c], n, SubSeq(DefaultHistory(query[c].fn, n), 1, k), TRUE))
  BY <1>1, <1>3
<1>5. \E a : IsAnswer(query[c], n, a) /\ query' = [query EXCEPT ![c] = a]
  BY <1>2, <1>4
<1>6. \A a : IsAnswer(query[c], n, a) => a \in Answer
  BY DEF IsAnswer
<1> QED
  BY <1>1, <1>5, <1>6

(* Queries stay typed.                                                      *)
LEMMA QueriesStep ==
    ASSUME TypeOK, QueriesTyped, [ObserverNext]_<< vars, observerVars >>
    PROVE  QueriesTyped'
<1>1. {transforms', queries'} \subseteq Nat
  <2>1. /\ transforms' = transforms \/ transforms' = transforms + 1
        /\ queries' = queries \/ queries' = queries + 1
    BY DEF ObserverNext, Observe, observerVars, ObserverRestart, ReceiveUpdate, DropUpdate,
           PublishTransformed, TransformedNotPublished, ListFunctions, AskHistory, Leave
  <2>2. transforms \in Nat /\ queries \in Nat
    BY DEF QueriesTyped
  <2>3. transforms' \in Nat /\ queries' \in Nat
    BY <2>1, <2>2
  <2> QED
    BY <2>3
<1>2. ASSUME NEW c \in Clients, Lists(c)
      PROVE  query' \in [Clients -> {None} \cup Listed \cup Answer]
  <2>1. PICK f \in Functions :
           query' = [query EXCEPT ![c] = [step |-> "listed", fn |-> f, stamp |-> stamp[f]]]
    BY <1>2 DEF Lists
  <2>2. [step |-> "listed", fn |-> f, stamp |-> stamp[f]] \in Listed
    BY DEF Listed, TypeOK
  <2> QED
    BY <2>1, <2>2 DEF QueriesTyped
<1>3. ASSUME NEW c \in Clients, Answers(c)
      PROVE  query' \in [Clients -> {None} \cup Listed \cup Answer]
  <2>1. PICK a \in Answer : query' = [query EXCEPT ![c] = a]
    BY <1>3, AnswersAre
  <2> QED
    BY <2>1 DEF QueriesTyped
<1>4. ASSUME NEW c \in Clients, query' = [query EXCEPT ![c] = None]
      PROVE  query' \in [Clients -> {None} \cup Listed \cup Answer]
  BY <1>4 DEF QueriesTyped
<1> QED
  BY <1>1, <1>2, <1>3, <1>4, QuerySteps DEF QueriesTyped

(* What is true of the engine and of those who look on, step by step.       *)
ObserverInvariant == EngineInvariant /\ TransformInvariant /\ QueriesTyped

(* It is inductive.                                                         *)
LEMMA ObserverInvariantHolds == ObserverSpec => []ObserverInvariant
<1>1. ObserverInit => QueriesTyped
  BY DEF ObserverInit, QueriesTyped
<1>2. EngineInvariant /\ QueriesTyped /\ [ObserverNext]_<< vars, observerVars >> => QueriesTyped'
  BY QueriesStep DEF EngineInvariant
<1>3. EngineInvariant /\ TransformInvariant /\ [ObserverNext]_<< vars, observerVars >>
      => TransformInvariant'
  BY TransformStep
<1> QED
  BY TransformInit, <1>1, <1>2, <1>3, ObserverEngine, PTL DEF ObserverSpec, ObserverInvariant

(* What a transformer holds is an update of a function, what it publishes   *)
(* has a picture and the time of an update, and a client is answered with   *)
(* rows of the history.                                                     *)
THEOREM ObserverTypeCorrect == ObserverSpec => []ObserverTypeOK
<1>1. ObserverInvariant => ObserverTypeOK
  <2> SUFFICES ASSUME ObserverInvariant PROVE ObserverTypeOK
    OBVIOUS
  <2>1. \A f \in Functions : \A i \in DOMAIN updates[f] : updates[f][i] \in Update(f)
    BY DEF ObserverInvariant, EngineInvariant, TypeOK
  <2>2. \A f \in Functions : \A u \in Update(f) : u.stamp \in Nat
    BY DEF Update
  <2>3. ASSUME NEW t \in Transformers, transforming[t] # None
        PROVE  /\ transforming[t].fn \in Functions
               /\ transforming[t].update \in Update(transforming[t].fn)
    BY <2>1, <2>3 DEF ObserverInvariant, TransformInvariant, InHand
  <2>4. ASSUME NEW f \in Functions, NEW m \in transformed[f]
        PROVE  m.picture # None /\ {m.time, m.sent} \subseteq Nat
    <3>1. MadeOf(f, m) /\ m.picture # None /\ m.sent \in Nat
      BY DEF ObserverInvariant, TransformInvariant
    <3> QED
      BY <2>1, <2>2, <3>1 DEF MadeOf
  <2> QED
    BY <2>3, <2>4 DEF ObserverTypeOK, ObserverInvariant, TransformInvariant, QueriesTyped
<1> QED
  BY <1>1, ObserverInvariantHolds, PTL
-----------------------------------------------------------------------------
(***************************************************************************)
(* What a client has seen is in the history it asks for.                   *)
(***************************************************************************)
DatedRow(f) == {row \in Row : row.label = DefaultHistoryLabel(Type[f]) /\ row.time # ZeroTime}

(* The handlers of these functions store nothing else. *)
LEMMA HandleDated ==
    ASSUME NEW f \in Dated, NEW s \in Memory(Type[f]), NEW m \in Messages, m.fn = f, NEW t \in Nat
    PROVE  LET writes == Handle(Type[f], s, m, t).writes
           IN  \A i \in DOMAIN writes : RowOf(writes[i]) \in DatedRow(f)
<1> DEFINE r == Handle(Type[f], s, m, t)
           M == Memory(Type[f])
<1>0. f \in Functions /\ m \in Message /\ m.time \in Nat /\ m.time # ZeroTime
      /\ (Type[f] = "presence" \/ Type[f] = "waterquality")
  BY EngineAssumption, MessageTyped DEF Dated, OfType
<1>1. r.writes \in Seq(Writes(M))
  BY <1>0, StagesTyped DEF Runs
<1>2. \A i \in DOMAIN r.writes : RowOf(r.writes[i]) \in Row
  <2>1. \A x \in Writes(M) : RowOf(x) \in Row
    BY DEF Writes, Row, RowOf
  <2> QED
    BY <1>1, <2>1
<1>3. ASSUME NEW i \in DOMAIN r.writes
      PROVE  r.writes[i].label = DefaultHistoryLabel(Type[f]) /\ r.writes[i].time = m.time
  <2>1. CASE Type[f] = "presence"
    <3>1. r = PresenceHandle(s, m)
      BY <2>1 DEF Handle
    <3>2. r.writes = << >> \/ \E x : r.writes = SquareWave(x, m.time)
      BY <3>1 DEF PresenceHandle, Rejected, Unchanged, Run
    <3>3. PICK x : r.writes = SquareWave(x, m.time)
      BY <3>2
    <3>4. r.writes[i].label = "presence" /\ r.writes[i].time = m.time
      BY <3>3 DEF SquareWave, OnChange
    <3> QED
      BY <2>1, <3>4 DEF DefaultHistoryLabel
  <2>2. CASE Type[f] = "waterquality"
    <3>1. r = WaterQualityHandle(s, m, t)
      BY <2>2 DEF Handle
    <3>2. r.writes = << >> \/ \E v, x : r.writes = << OnChange("temperature", v, m.time, x) >>
      BY <3>1 DEF WaterQualityHandle, Rejected, Unchanged, Run
    <3>3. PICK v, x : r.writes = << OnChange("temperature", v, m.time, x) >>
      BY <3>2
    <3>4. r.writes[i].label = "temperature" /\ r.writes[i].time = m.time
      BY <3>3 DEF OnChange
    <3> QED
      BY <2>2, <3>4 DEF DefaultHistoryLabel
  <2> QED
    BY <1>0, <2>1, <2>2
<1> HIDE DEF r
<1>4. \A i \in DOMAIN r.writes : RowOf(r.writes[i]) \in DatedRow(f)
  BY <1>0, <1>2, <1>3 DEF DatedRow, RowOf
<1> QED
  BY <1>4 DEF r

(* Every row of f, stored or still to be stored, is a dated one.            *)
DatedLog(f) ==
    /\ \A i \in DOMAIN history[f] : history[f][i] \in DatedRow(f)
    /\ \A i \in DOMAIN Due(f) : RowOf(Due(f)[i]) \in DatedRow(f)

(* What a client has listed is in the history, or it was never announced. *)
IsLogged(q) ==
    \E r \in RowsOf(history[q.fn], DefaultHistoryLabel(Type[q.fn])) :
        history[q.fn][r].time = q.stamp

(* What a client has listed is in the log, and the answer it got reaches as *)
(* far.                                                                     *)
QueryLogged(c) ==
    LET q == query[c]
        seen == q.stamp # ZeroTime /\ q.fn \in Dated
    IN  q # None =>
            /\ q.step = "listed" /\ seen => IsLogged(q)
            /\ q.step = "answered" =>
                  /\ q.start <= q.end
                  /\ q.lastN = 0 => q.values = << >>
                  /\ q.lastN > 0 /\ ~q.failed /\ seen => q.values # << >> /\ q.end >= q.stamp

(* PersistInvariant and StampInvariant, and what the clients hold against   *)
(* the log.                                                                 *)
ListedInvariant ==
    /\ PersistInvariant
    /\ StampInvariant
    /\ \A f \in Dated : DatedLog(f)
    /\ \A c \in Clients : QueryLogged(c)

(* A step stores only rows that were due, and makes only dated ones due.    *)
LEMMA DatedLogStep ==
    ASSUME EngineInvariant, (Aside /\ UNCHANGED << stamp, history >>) \/ [Next]_vars,
           NEW f \in Dated, DatedLog(f)
    PROVE  DatedLog(f)'
<1>0. f \in Functions
  BY DEF Dated, OfType
<1>1. CASE [Next]_vars
  <2>1. now \in Nat /\ mem[f] \in Memory(Type[f])
    BY <1>0 DEF EngineInvariant, TypeOK
  <2>2. \A m \in Messages : m.fn = f =>
           LET writes == Handle(Type[f], mem[f], m, now).writes
           IN  \A i \in DOMAIN writes : RowOf(writes[i]) \in DatedRow(f)
    <3>1. \A s \in Memory(Type[f]), m \in Messages, t \in Nat : m.fn = f =>
             LET writes == Handle(Type[f], s, m, t).writes
             IN  \A i \in DOMAIN writes : RowOf(writes[i]) \in DatedRow(f)
      BY HandleDated
    <3> QED
      BY <2>1, <3>1
  <2> DEFINE R == DatedRow(f)
  <2> HIDE DEF R
  <2>3. /\ \A i \in DOMAIN history[f] : history[f][i] \in R
        /\ \A i \in DOMAIN Due(f) : RowOf(Due(f)[i]) \in R
        /\ \A m \in Messages : m.fn = f =>
              LET writes == Handle(Type[f], mem[f], m, now).writes
              IN  \A i \in DOMAIN writes : RowOf(writes[i]) \in R
    BY <2>2 DEF DatedLog, R
  <2>4. /\ \A i \in DOMAIN history'[f] : history'[f][i] \in R
        /\ \A i \in DOMAIN Due(f)' : RowOf(Due(f)'[i]) \in R
    BY <1>0, <1>1, <2>3, RowsAlike DEF AnyStep
  <2> QED
    BY <2>4 DEF DatedLog, DatedRow, RowOf, R
<1>2. CASE Aside /\ UNCHANGED << stamp, history >>
  BY <1>2 DEF Aside, DatedLog, DatedRow, Due, Busy, IdleFunction, Call, Handling, Fn, RowOf
<1> QED
  BY <1>1, <1>2

(* A timestamp that is listed is in the history. *)
LEMMA StampIsLogged ==
    ASSUME TypeOK, StampInvariant, NEW f \in Dated, DatedLog(f), stamp[f] # ZeroTime
    PROVE  \E r \in RowsOf(history[f], DefaultHistoryLabel(Type[f])) : history[f][r].time = stamp[f]
<1>0. f \in Functions \ OnUpdate
  BY DEF Dated, OfType
<1>1. PICK i \in DOMAIN history[f] : history[f][i].time \in {stamp[f], ZeroTime}
  BY <1>0 DEF StampInvariant, StampHasRow
<1>2. history[f][i].label = DefaultHistoryLabel(Type[f]) /\ history[f][i].time # ZeroTime
  BY DEF DatedLog, DatedRow
<1>3. DOMAIN history[f] = 1 .. Len(history[f])
  <2>1. history[f] \in Seq(Row)
    BY <1>0 DEF TypeOK
  <2> QED
    BY <2>1, LenProperties
<1> QED
  BY <1>1, <1>2, <1>3 DEF RowsOf

(* Rows stay, so that what was listed is still there when it is asked for.  *)
LEMMA QueryLoggedStep ==
    ASSUME ObserverInvariant, StampInvariant, \A f \in Dated : DatedLog(f),
           [ObserverNext]_<< vars, observerVars >>, NEW c \in Clients, QueryLogged(c)
    PROVE  QueryLogged(c)'
<1>0. EngineInvariant /\ TypeOK /\ QueriesTyped
  BY DEF ObserverInvariant, EngineInvariant
<1>1. Aside \/ [Next]_vars
  BY <1>0, ObserverSteps
<1> DEFINE q == query[c]
<1>2. ASSUME query'[c] = query[c]
      PROVE  QueryLogged(c)'
  <2>1. ASSUME q # None, q.step = "listed", q.fn \in Dated, IsLogged(q)
        PROVE  \E r \in RowsOf(history'[q.fn], DefaultHistoryLabel(Type[q.fn])) :
                  history'[q.fn][r].time = q.stamp
    <3>1. q.fn \in Functions /\ history[q.fn] \in Seq(Row) /\ history'[q.fn] \in Seq(Row)
      <4>1. EngineInvariant'
        BY <1>0, <1>1, AsideEngine, EngineStep DEF AnyStep
      <4> QED
        BY <1>0, <2>1, <4>1 DEF Dated, OfType, EngineInvariant, TypeOK
    <3>2. PICK r \in RowsOf(history[q.fn], DefaultHistoryLabel(Type[q.fn])) :
             history[q.fn][r].time = q.stamp
      BY <2>1 DEF IsLogged
    <3>3. r \in DOMAIN history[q.fn]
      BY <3>1, LenProperties DEF RowsOf
    <3>4. \A f \in Functions : \A i \in DOMAIN history[f] : i \in DOMAIN history'[f] /\ history'[f][i] = history[f][i]
      BY <1>0, <1>1, RowsStay
    <3>5. r \in DOMAIN history'[q.fn] /\ history'[q.fn][r] = history[q.fn][r]
      BY <3>1, <3>3, <3>4
    <3>6. r \in RowsOf(history'[q.fn], DefaultHistoryLabel(Type[q.fn]))
      BY <3>1, <3>2, <3>5, LenProperties DEF RowsOf
    <3> QED
      BY <3>2, <3>5, <3>6
  <2> QED
    BY <1>2, <2>1 DEF QueryLogged, IsLogged
<1>3. ASSUME Lists(c), history' = history
      PROVE  QueryLogged(c)'
  <2>1. PICK f \in Functions :
           query' = [query EXCEPT ![c] = [step |-> "listed", fn |-> f, stamp |-> stamp[f]]]
    BY <1>3 DEF Lists
  <2>2. query'[c].step = "listed" /\ query'[c].fn = f /\ query'[c].stamp = stamp[f]
    BY <1>0, <2>1 DEF QueriesTyped
  <2>3. f \in Dated /\ stamp[f] # ZeroTime =>
           \E r \in RowsOf(history[f], DefaultHistoryLabel(Type[f])) : history[f][r].time = stamp[f]
    BY <1>0, StampIsLogged
  <2> QED
    BY <1>3, <2>2, <2>3 DEF QueryLogged, IsLogged
<1>4. ASSUME Answers(c)
      PROVE  QueryLogged(c)'
  <2>1. PICK n \in 0 .. MaxLastN, a \in Answer :
           IsAnswer(q, n, a) /\ query' = [query EXCEPT ![c] = a]
    BY <1>0, <1>4, AnswersAre
  <2>2. q # None /\ q \in Listed
    BY <1>0, <1>4, AnswersAre
  <2>3. q.step = "listed" /\ q.fn \in Functions /\ q.stamp \in Nat
    BY <2>2 DEF Listed
  <2>4. query'[c] = a /\ a.end \in Nat /\ a.lastN \in Nat
    BY <1>0, <2>1 DEF QueriesTyped, Answer
  <2>5. ASSUME q.stamp # ZeroTime, q.fn \in Dated, a.lastN > 0, ~a.failed
        PROVE  a.values # << >> /\ a.end >= q.stamp
    <3>1. PICK r \in RowsOf(history[q.fn], DefaultHistoryLabel(Type[q.fn])) :
             history[q.fn][r].time = q.stamp
      BY <2>2, <2>3, <2>5 DEF QueryLogged, IsLogged
    <3>2. a.values # << >> /\ history[q.fn][r].time <= a.end
      BY <2>1, <2>5, <3>1 DEF IsAnswer
    <3> QED
      BY <2>3, <2>4, <3>1, <3>2
  <2>6. /\ a.step = "answered" /\ a.start <= a.end /\ (a.lastN = 0 => a.values = << >>)
        /\ a.fn = q.fn /\ a.stamp = q.stamp
    BY <2>1 DEF IsAnswer
  <2> HIDE DEF q
  <2> QED
    BY <2>4, <2>5, <2>6 DEF QueryLogged
<1>5. ASSUME query' = [query EXCEPT ![c] = None]
      PROVE  QueryLogged(c)'
  <2>1. query'[c] = None
    BY <1>0, <1>5 DEF QueriesTyped
  <2> QED
    BY <2>1 DEF QueryLogged
<1>6. \A d \in Clients : Lists(d) \/ Answers(d) \/ query' = [query EXCEPT ![d] = None]
                         => d = c \/ query'[c] = query[c]
  BY <1>0 DEF Lists, Answers, QueriesTyped
<1> QED
  BY <1>0, <1>2, <1>3, <1>4, <1>5, <1>6, QuerySteps

(* A client that has seen the timestamp of a presence or a water quality    *)
(* finds the row of that time, or a later one, at the end of the history it *)
(* asks for next, whatever the workers, faults and restarts do in between;  *)
(* and the answer of every type is in the order of time (onchange: Add,     *)
(* then Timestamp; database.go: ORDER BY time, row_id).                     *)
THEOREM ListedIsLoggedHolds == ObserverSpec => []ListedIsLogged
<1>1. ObserverInit => ListedInvariant
  <2> SUFFICES ASSUME ObserverInit PROVE ListedInvariant
    OBVIOUS
  <2>1. PersistInvariant /\ StampInvariant
    BY DEF ObserverInit, Init, PersistInvariant, PersistAt, StampInvariant, StampHasRow, StampAt,
           Handling
  <2>2. \A f \in Functions : history[f] = << >> /\ Due(f) = << >>
    BY DEF ObserverInit, Init, Due, Busy, IdleFunction, Handling
  <2>3. \A f \in Dated : DatedLog(f)
    <3>1. Dated \subseteq Functions
      BY DEF Dated, OfType
    <3>2. DOMAIN << >> = {}
      OBVIOUS
    <3> QED
      BY <2>2, <3>1, <3>2 DEF DatedLog
  <2>4. \A c \in Clients : QueryLogged(c)
    BY DEF ObserverInit, QueryLogged
  <2> QED
    BY <2>1, <2>3, <2>4 DEF ListedInvariant
<1>2. ObserverInvariant /\ ListedInvariant /\ [ObserverNext]_<< vars, observerVars >>
      => ListedInvariant'
  <2> SUFFICES ASSUME ObserverInvariant, ListedInvariant, [ObserverNext]_<< vars, observerVars >>
               PROVE  ListedInvariant'
    OBVIOUS
  <2>1. /\ EngineInvariant /\ TypeOK /\ MutualExclusion
        /\ (Aside /\ UNCHANGED << stamp, history >>) \/ [Next]_vars
    BY ObserverSteps DEF ObserverInvariant, EngineInvariant
  <2>2. PersistInvariant'
    BY <2>1, AsidePersist, PersistStep DEF ListedInvariant, AnyStep
  <2>3. StampInvariant'
    <3>1. CASE [Next]_vars
      BY <2>1, <3>1, StampStep DEF ListedInvariant
    <3>2. CASE Aside /\ UNCHANGED << stamp, history >>
      BY <2>1, <3>2, AsideStampRow, AsideStampAt DEF ListedInvariant, StampInvariant
    <3> QED
      BY <2>1, <3>1, <3>2
  <2>4. \A f \in Dated : DatedLog(f)'
    BY <2>1, DatedLogStep DEF ListedInvariant
  <2>5. \A c \in Clients : QueryLogged(c)'
    BY QueryLoggedStep DEF ListedInvariant
  <2> QED
    BY <2>2, <2>3, <2>4, <2>5 DEF ListedInvariant, Dated, OfType
<1>3. ListedInvariant => ListedIsLogged
  BY DEF ListedInvariant, QueryLogged, ListedIsLogged
<1> QED
  BY <1>1, <1>2, <1>3, ObserverInvariantHolds, PTL DEF ObserverSpec
-----------------------------------------------------------------------------
(***************************************************************************)
(* What was announced first is dated first.                                *)
(***************************************************************************)
(* The updates of f are in the order of their timestamps, and none is ahead *)
(* of the function.                                                         *)
InOrder(f) ==
    /\ \A i, j \in DOMAIN updates[f] : i < j => updates[f][i].stamp <= updates[f][j].stamp
    /\ \A i \in DOMAIN updates[f] : updates[f][i].stamp <= stamp[f]

(* A new update has the timestamp that the function has, and so comes last. *)
LEMMA OrderStep ==
    ASSUME EngineInvariant, EngineInvariant', [Next]_vars, restarts' = restarts,
           NEW f \in Functions \ OnUpdate, InOrder(f)
    PROVE  InOrder(f)'
<1>0. /\ stamp[f] \in Nat /\ stamp'[f] \in Nat
      /\ updates[f] \in Seq(Update(f)) /\ updates'[f] \in Seq(Update(f))
      /\ \A i \in DOMAIN updates[f] : updates[f][i].stamp \in Nat
  <2>1. \A u \in Update(f) : u.stamp \in Nat
    BY DEF Update
  <2> QED
    BY <2>1 DEF EngineInvariant, TypeOK
<1>1. stamp'[f] >= stamp[f]
  <2>1. CASE UNCHANGED vars
    BY <1>0, <2>1 DEF vars
  <2>2. CASE Next
    BY <2>2, StampForward DEF EngineInvariant
  <2> QED
    BY <2>1, <2>2
<1>2. \A i \in DOMAIN updates[f] : updates[f][i].stamp <= stamp'[f]
  BY <1>0, <1>1 DEF InOrder
<1>3. CASE updates'[f] = updates[f]
  BY <1>2, <1>3 DEF InOrder
<1>4. CASE updates'[f] # updates[f]
  <2> DEFINE n == Len(updates[f])
             old == updates[f]
             new == updates'[f]
  <2>1. /\ Len(new) = n + 1
        /\ \A i \in DOMAIN old : new[i] = old[i]
        /\ new[Len(new)].stamp = stamp'[f]
    BY <1>4, UpdatesStep DEF AnyStep
  <2>2. n \in Nat /\ DOMAIN old = 1 .. n /\ DOMAIN new = 1 .. Len(new)
    BY <1>0
  <2> HIDE DEF old, new, n
  <2>3. \A i \in DOMAIN new : \/ i \in DOMAIN old /\ new[i] = old[i] /\ i < n + 1
                              \/ i = n + 1 /\ new[i].stamp = stamp'[f]
    BY <2>1, <2>2
  <2>4. \A i \in DOMAIN old : old[i].stamp <= stamp'[f] /\ old[i].stamp \in Nat
    BY <1>0, <1>2 DEF old
  <2>5. \A i \in DOMAIN new : new[i].stamp <= stamp'[f]
    BY <1>0, <2>3, <2>4
  <2>6. ASSUME NEW i \in DOMAIN new, NEW j \in DOMAIN new, i < j
        PROVE  new[i].stamp <= new[j].stamp
    <3>1. i \in Nat /\ j \in Nat /\ j <= n + 1
      BY <2>1, <2>2
    <3>2. i \in DOMAIN old /\ new[i] = old[i]
      BY <2>2, <2>3, <2>6, <3>1
    <3>3. CASE j \in DOMAIN old /\ new[j] = old[j]
      BY <2>6, <3>2, <3>3 DEF InOrder, old
    <3>4. CASE j = n + 1 /\ new[j].stamp = stamp'[f]
      BY <2>4, <3>2, <3>4
    <3> QED
      BY <2>3, <3>3, <3>4
  <2> QED
    BY <2>5, <2>6 DEF InOrder, new
<1> QED
  BY <1>3, <1>4

(* While the process lives this is true of every function that takes the    *)
(* time of its rows.                                                        *)
OrderInvariant == restarts = 0 => \A f \in Functions \ OnUpdate : InOrder(f)

(* Whoever puts the transformed messages of a function in the order of      *)
(* their times sees its updates in the order in which they were made: the   *)
(* transformers may take the updates late, again and in any order, for the  *)
(* time of an event is that of its update (transform.go: f.Timestamp;       *)
(* functions.go: Timestamp never goes back).                                *)
THEOREM TransformedInOrderHolds == ObserverSpec => []TransformedInOrder
<1>1. ObserverInit => OrderInvariant
  <2> SUFFICES ASSUME ObserverInit, NEW f \in Functions \ OnUpdate PROVE InOrder(f)
    BY DEF OrderInvariant
  <2>1. updates[f] = << >>
    BY DEF ObserverInit, Init
  <2> QED
    BY <2>1 DEF InOrder
<1>2. ObserverInvariant /\ OrderInvariant /\ [ObserverNext]_<< vars, observerVars >>
      => OrderInvariant'
  <2> SUFFICES ASSUME ObserverInvariant, OrderInvariant, [ObserverNext]_<< vars, observerVars >>,
                      restarts' = 0, NEW f \in Functions \ OnUpdate
               PROVE  InOrder(f)'
    BY DEF OrderInvariant
  <2>1. EngineInvariant /\ TypeOK /\ restarts \in Nat
    BY DEF ObserverInvariant, EngineInvariant, TypeOK
  <2>2. CASE Aside /\ UNCHANGED << stamp, history >>
    BY <2>2 DEF OrderInvariant, Aside, InOrder
  <2>3. CASE [Next]_vars
    <3>1. EngineInvariant' /\ restarts' >= restarts
      BY <2>1, <2>3, EngineStep, Forward DEF AnyStep
    <3>2. restarts' = restarts /\ restarts = 0
      BY <2>1, <3>1
    <3> QED
      BY <2>1, <2>3, <3>1, <3>2, OrderStep DEF OrderInvariant
  <2> QED
    BY <2>1, <2>2, <2>3, ObserverSteps
<1>3. ObserverInvariant /\ OrderInvariant => TransformedInOrder
  <2> SUFFICES ASSUME ObserverInvariant, OrderInvariant, restarts = 0,
                      NEW f \in Functions \ (OnUpdate \cup OfType("timer")),
                      NEW m \in transformed[f], NEW n \in transformed[f], m.time < n.time
               PROVE  \E i, j \in DOMAIN updates[f] :
                         /\ i < j
                         /\ m.time = updates[f][i].stamp
                         /\ m.picture = Picture(f, updates[f][i].mem)
                         /\ n.time = updates[f][j].stamp
                         /\ n.picture = Picture(f, updates[f][j].mem)
    BY DEF TransformedInOrder
  <2>1. MadeOf(f, m) /\ MadeOf(f, n)
    BY DEF ObserverInvariant, TransformInvariant
  <2>2. PICK i \in DOMAIN updates[f] :
           m.picture = Picture(f, updates[f][i].mem) /\ m.time = updates[f][i].stamp
    BY <2>1 DEF MadeOf
  <2>3. PICK j \in DOMAIN updates[f] :
           n.picture = Picture(f, updates[f][j].mem) /\ n.time = updates[f][j].stamp
    BY <2>1 DEF MadeOf
  <2>4. i \in Nat /\ j \in Nat /\ updates[f][i].stamp \in Nat /\ updates[f][j].stamp \in Nat
    <3>1. updates[f] \in Seq(Update(f)) /\ \A u \in Update(f) : u.stamp \in Nat
      BY DEF ObserverInvariant, EngineInvariant, TypeOK, Update
    <3> QED
      BY <3>1
  <2>5. InOrder(f)
    BY DEF OrderInvariant
  <2>6. ~(j <= i)
    <3>1. j < i => updates[f][j].stamp <= updates[f][i].stamp
      BY <2>5 DEF InOrder
    <3> QED
      BY <2>2, <2>3, <2>4, <3>1
  <2>7. i < j
    BY <2>4, <2>6
  <2> QED
    BY <2>2, <2>3, <2>7
<1> QED
  BY <1>1, <1>2, <1>3, ObserverInvariantHolds, PTL DEF ObserverSpec

(* Transformers and clients leave no trace: with them too the engine        *)
(* implements functions that handle one message at a time.                  *)
THEOREM ObserverImplementsSerial ==
    ASSUME MaxTime > 0, LogValues = Int
    PROVE  ObserverSpec => ImplementsSerial
<1>1. ObserverInit => SerialInvariant /\ Serial!Init
  BY SerialInit DEF ObserverInit
<1>2. SerialInvariant /\ EngineInvariant /\ [ObserverNext]_<< vars, observerVars >>
      => SerialInvariant'
  BY ObserverSteps, AsideSerial, SerialStep DEF EngineInvariant, AnyStep
<1>3. SerialInvariant /\ EngineInvariant /\ EngineInvariant'
      /\ [ObserverNext]_<< vars, observerVars >>
      => [Serial!Next]_<< Settled, AnnouncedMemory >>
  BY ObserverSteps, AsideSerial, EngineStepIsSerial DEF EngineInvariant, AnyStep
<1> QED
  BY <1>1, <1>2, <1>3, ObserverEngine, PTL
  DEF ObserverSpec, ImplementsSerial, Serial!Spec
=============================================================================
