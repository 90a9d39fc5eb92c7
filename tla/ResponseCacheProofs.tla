------------------------ MODULE ResponseCacheProofs ------------------------
(***************************************************************************)
(* Theorems about the cache, for any number of clients and URLs and any    *)
(* times: answers are never too old, and the cleaner cannot be observed.   *)
(***************************************************************************)
EXTENDS ResponseCache, TLAPS

(* What keeps answers fresh: an answer is made after it was asked for, and  *)
(* an entry was stored at most Timeout after its answer was asked for.      *)
FreshItem(i) == i.expiry - i.value <= TTL + Timeout

FreshCall(c) ==
    /\ call[c].step = "answered" => call[c].since <= call[c].value
    /\ call[c].step = "asked" => call[c].since <= now
    /\ call[c].step = "served" => call[c].at - call[c].value <= TTL + Timeout

FreshInvariant ==
    /\ CacheTypeOK
    /\ \A k \in Keys : items[k] # None => FreshItem(items[k])
    /\ \A c \in Clients : call[c] # None => FreshCall(c)

(* What TypeOK says of a request at one of its steps. *)
LEMMA CallFields ==
    ASSUME CacheTypeOK, NEW c \in Clients
    PROVE  /\ call[c] # None => call[c] \in Call
           /\ At(c, "token") => call[c].key \in Keys
           /\ At(c, "asked") => call[c].key \in Keys /\ call[c].since \in Nat
           /\ At(c, "answered") => /\ call[c].key \in Keys
                                   /\ call[c].since \in Nat
                                   /\ call[c].value \in Nat
           /\ At(c, "served") => /\ call[c].key \in Keys
                                 /\ call[c].at \in Nat
                                 /\ call[c].value \in Nat
<1>1. call[c] \in Call \cup {None}
  BY DEF CacheTypeOK
<1>. QED
  BY <1>1 DEF At, Call

LEMMA ItemFields ==
    ASSUME CacheTypeOK, NEW k \in Keys, items[k] # None
    PROVE  items[k] \in Item /\ items[k].value \in Nat /\ items[k].expiry \in Nat
BY DEF CacheTypeOK, Item
-----------------------------------------------------------------------------
LEMMA CacheInitTyped == CacheInit => CacheTypeOK
BY CacheAssumption DEF CacheInit, CacheTypeOK, Cleaner

(* The cache keeps its type at every step. *)
LEMMA CacheTyped ==
    ASSUME CacheTypeOK, [CacheNext]_cacheVars
    PROVE  CacheTypeOK'
<1>. USE CacheAssumption
<1>1. CASE CacheTick
  BY <1>1 DEF CacheTick, CacheTypeOK
<1>2. ASSUME NEW c \in Clients, Request(c)
      PROVE  CacheTypeOK'
  <2>1. ASSUME NEW k \in Keys, Hit(c, k)
        PROVE  CacheTypeOK'
    <3>1. items[k].value \in Nat
      BY <2>1, ItemFields DEF Hit, Live
    <3>2. [key |-> k, step |-> "served", at |-> now, value |-> items[k].value] \in Call
      BY <3>1 DEF Call, CacheTypeOK
    <3>. QED
      BY <2>1, <3>2 DEF Hit, Served, CacheTypeOK
  <2>2. ASSUME NEW k \in Keys, Miss(c, k)
        PROVE  CacheTypeOK'
    BY <2>2 DEF Miss, CacheTypeOK, Call
  <2>3. CASE GotToken(c)
    <3>1. [key |-> call[c].key, step |-> "asked", since |-> now] \in Call
      BY <2>3, CallFields DEF GotToken, Call, CacheTypeOK
    <3>. QED
      BY <2>3, <3>1 DEF GotToken, CacheTypeOK
  <2>4. CASE Answer(c, now)
    <3>1. [key |-> call[c].key, step |-> "answered",
           since |-> call[c].since, value |-> now] \in Call
      BY <2>4, CallFields DEF Answer, Call, CacheTypeOK
    <3>. QED
      BY <2>4, <3>1 DEF Answer, CacheTypeOK
  <2>5. CASE Fill(c)
    <3>1. [key |-> call[c].key, step |-> "served", at |-> now,
           value |-> call[c].value] \in Call
      BY <2>5, CallFields DEF Fill, Call, CacheTypeOK
    <3>2. [value |-> call[c].value, expiry |-> Expiry] \in Item
      BY <2>5, CallFields DEF Fill, Item, Expiry, CacheTypeOK
    <3>. QED
      BY <2>5, <3>1, <3>2 DEF Fill, Served, CacheTypeOK
  <2>6. CASE Fail(c)
    BY <2>6 DEF Fail, CacheTypeOK
  <2>7. CASE Done(c)
    BY <2>7 DEF Done, CacheTypeOK
  <2>. QED
    BY <1>2, <2>1, <2>2, <2>3, <2>4, <2>5, <2>6, <2>7 DEF Request
<1>3. CASE CleanerWakes
  BY <1>3 DEF CleanerWakes, CacheTypeOK, Cleaner
<1>4. CASE Clean
  BY <1>4 DEF Clean, Remaining, CacheTypeOK, Cleaner
<1>5. CASE UNCHANGED cacheVars
  BY <1>5 DEF cacheVars, CacheTypeOK
<1>. QED
  BY <1>1, <1>2, <1>3, <1>4, <1>5 DEF CacheNext

(* The cache is typed, for all clients, URLs and times. *)
THEOREM CacheTypeCorrect == CacheSpec => []CacheTypeOK
<1>1. CacheTypeOK /\ [CacheNext]_cacheVars => CacheTypeOK'
  BY CacheTyped
<1>. QED
  BY <1>1, CacheInitTyped, PTL DEF CacheSpec
-----------------------------------------------------------------------------
LEMMA FreshStep ==
    ASSUME FreshInvariant, [CacheNext]_cacheVars
    PROVE  FreshInvariant'
<1>. USE CacheAssumption
<1>0. CacheTypeOK /\ CacheTypeOK'
  BY CacheTyped DEF FreshInvariant
<1>1. CASE CacheTick
  <2>1. now \in Nat /\ now' = now + 1 /\ items' = items /\ call' = call
    BY <1>1, <1>0 DEF CacheTick, CacheTypeOK
  <2>2. ASSUME NEW c \in Clients, call[c] # None
        PROVE  FreshCall(c)'
    BY <1>0, <2>1, <2>2, CallFields DEF FreshInvariant, FreshCall, At
  <2>. QED
    BY <1>0, <2>1, <2>2 DEF FreshInvariant, FreshItem
<1>2. ASSUME NEW c \in Clients, Request(c)
      PROVE  FreshInvariant'
  <2>. DEFINE Others == \A d \in Clients \ {c} : call'[d] = call[d]
  <2>. SUFFICES /\ \A k \in Keys : items'[k] # None => FreshItem(items'[k])
                /\ now' = now
                /\ Others
                /\ call'[c] # None => FreshCall(c)'
    BY <1>0 DEF FreshInvariant, FreshCall, FreshItem
  <2>1. ASSUME NEW k \in Keys, Hit(c, k)
        PROVE  call'[c].step = "served" /\ call'[c].at - call'[c].value <= TTL + Timeout
    <3>1. call'[c] = [key |-> k, step |-> "served", at |-> now, value |-> items[k].value]
      BY <2>1, <1>0 DEF Hit, Served, CacheTypeOK
    <3>2. items[k].expiry - items[k].value <= TTL + Timeout /\ items[k].expiry >= now
      BY <2>1 DEF Hit, Live, FreshInvariant, FreshItem
    <3>. QED
      BY <3>1, <3>2, <2>1, <1>0, ItemFields DEF Hit, Live, CacheTypeOK
  <2>2. CASE \E k \in Keys : Hit(c, k)
    <3>1. items' = items /\ now' = now /\ Others
      BY <2>2, <1>0 DEF Hit, Served, CacheTypeOK
    <3>. QED
      BY <2>1, <2>2, <3>1 DEF FreshInvariant, FreshCall
  <2>3. CASE \E k \in Keys : Miss(c, k)
    BY <2>3, <1>0 DEF Miss, CacheTypeOK, FreshInvariant, FreshCall
  <2>4. CASE GotToken(c)
    BY <2>4, <1>0 DEF GotToken, CacheTypeOK, FreshInvariant, FreshCall
  <2>5. CASE Answer(c, now)
    <3>1. call[c].since <= now
      BY <2>5 DEF Answer, At, FreshInvariant, FreshCall
    <3>. QED
      BY <2>5, <3>1, <1>0 DEF Answer, CacheTypeOK, FreshInvariant, FreshCall
  <2>6. CASE Fill(c)
    <3>1. /\ call[c].since <= call[c].value
          /\ now <= call[c].since + Timeout
          /\ call[c].since \in Nat /\ call[c].value \in Nat /\ call[c].key \in Keys
      BY <2>6, <1>0, CallFields DEF Fill, At, InTime, FreshInvariant, FreshCall
    <3>2. now - call[c].value <= TTL + Timeout
      BY <3>1, <1>0 DEF CacheTypeOK
    <3>3. Expiry - call[c].value <= TTL + Timeout
      BY <3>1, <1>0 DEF CacheTypeOK, Expiry
    <3>4. call'[c] = [key |-> call[c].key, step |-> "served", at |-> now,
                      value |-> call[c].value]
      BY <2>6, <1>0 DEF Fill, Served, CacheTypeOK
    <3>5. items' = [items EXCEPT ![call[c].key] =
                       [value |-> call[c].value, expiry |-> Expiry]]
      BY <2>6 DEF Fill
    <3>6. \A k \in Keys : items'[k] # None => FreshItem(items'[k])
      BY <3>1, <3>3, <3>5, <1>0 DEF CacheTypeOK, FreshInvariant, FreshItem
    <3>7. now' = now /\ Others
      BY <2>6, <1>0 DEF Fill, Served, CacheTypeOK
    <3>. QED
      BY <3>2, <3>4, <3>6, <3>7 DEF FreshCall
  <2>7. CASE Fail(c)
    BY <2>7, <1>0 DEF Fail, CacheTypeOK, FreshInvariant
  <2>8. CASE Done(c)
    BY <2>8, <1>0 DEF Done, CacheTypeOK, FreshInvariant
  <2>. QED
    BY <1>2, <2>2, <2>3, <2>4, <2>5, <2>6, <2>7, <2>8 DEF Request
<1>3. CASE CleanerWakes
  BY <1>3, <1>0 DEF CleanerWakes, FreshInvariant, FreshCall, FreshItem
<1>4. CASE Clean
  <2>1. \A k \in Keys : items'[k] # None => items'[k] = items[k]
    BY <1>4 DEF Clean, Remaining
  <2>. QED
    BY <1>4, <2>1, <1>0 DEF Clean, FreshInvariant, FreshCall, FreshItem
<1>5. CASE UNCHANGED cacheVars
  BY <1>5, <1>0 DEF cacheVars, FreshInvariant, FreshCall, FreshItem
<1>. QED
  BY <1>1, <1>2, <1>3, <1>4, <1>5 DEF CacheNext

(* No answer is ever served that is older than the time to live and the     *)
(* timeout together.                                                        *)
THEOREM StalenessBoundHolds == CacheSpec => []StalenessBound
<1>1. CacheInit => FreshInvariant
  BY CacheInitTyped DEF CacheInit, FreshInvariant
<1>2. FreshInvariant /\ [CacheNext]_cacheVars => FreshInvariant'
  BY FreshStep
<1>3. FreshInvariant => StalenessBound
  BY DEF FreshInvariant, FreshCall, StalenessBound, At
<1>. QED
  BY <1>1, <1>2, <1>3, PTL DEF CacheSpec
-----------------------------------------------------------------------------
LEMMA LiveUnchanged ==
    ASSUME now' = now, items' = items
    PROVE  LiveItems' = LiveItems
BY DEF LiveItems, Live

(* Every step of the cache is a step of the map, or none of its business:   *)
(* a store is Put, and what the cleaner deletes could not be found before.  *)
LEMMA MapStep ==
    ASSUME CacheTypeOK, cleaner.at <= now, [CacheNext]_cacheVars
    PROVE  [Map!MapNext]_(Map!mapVars)
<1>. USE CacheAssumption DEF Map!mapVars
<1>1. CASE CacheTick
  <2>1. now \in Nat /\ now' = now + 1 /\ items' = items
    BY <1>1 DEF CacheTick, CacheTypeOK
  <2>2. ASSUME NEW k \in Keys
        PROVE  LiveItems'[k] = IF LiveItems[k] # None /\ LiveItems[k].expiry < now'
                               THEN None ELSE LiveItems[k]
    <3>1. CASE items[k] = None
      BY <2>1, <3>1 DEF LiveItems, Live
    <3>2. CASE items[k] # None
      BY <2>1, <3>2, ItemFields DEF LiveItems, Live
    <3>. QED
      BY <3>1, <3>2
  <2>3. Map!Pass
    BY <2>1, <2>2 DEF Map!Pass, LiveItems
  <2>. QED
    BY <2>3 DEF Map!MapNext
<1>2. ASSUME NEW c \in Clients, Request(c)
      PROVE  [Map!MapNext]_(Map!mapVars)
  <2>1. CASE Fill(c)
    <3>. DEFINE k == call[c].key
    <3>. DEFINE e == [value |-> call[c].value, expiry |-> Expiry]
    <3>1. k \in Keys /\ e \in Map!Entry /\ e.expiry >= now /\ e # None
      BY <2>1, CallFields DEF Fill, Map!Entry, Expiry, CacheTypeOK
    <3>2. items' = [items EXCEPT ![k] = e] /\ now' = now
      BY <2>1 DEF Fill
    <3>3. LiveItems' = [LiveItems EXCEPT ![k] = e]
      BY <3>1, <3>2 DEF LiveItems, Live, CacheTypeOK
    <3>4. Map!Put(k)
      BY <3>1, <3>2, <3>3 DEF Map!Put, LiveItems
    <3>. QED
      BY <3>1, <3>4 DEF Map!MapNext
  <2>2. CASE ~Fill(c)
    <3>1. now' = now /\ items' = items
      BY <1>2, <2>2 DEF Request, Hit, Miss, GotToken, Answer, Fail, Done
    <3>. QED
      BY <3>1, LiveUnchanged
  <2>. QED
    BY <2>1, <2>2
<1>3. CASE CleanerWakes
  BY <1>3, LiveUnchanged DEF CleanerWakes
<1>4. CASE Clean
  <2>1. now' = now /\ items' = Remaining
    BY <1>4 DEF Clean
  <2>2. ASSUME NEW k \in Keys
        PROVE  LiveItems'[k] = LiveItems[k]
    <3>1. CASE items[k] = None
      BY <2>1, <3>1 DEF Remaining, LiveItems, Live
    <3>2. CASE items[k] # None
      BY <2>1, <3>2, ItemFields DEF Remaining, Expired, LiveItems, Live, CacheTypeOK, Cleaner
    <3>. QED
      BY <3>1, <3>2
  <2>3. LiveItems' = LiveItems
    BY <2>2 DEF LiveItems
  <2>. QED
    BY <2>1, <2>3
<1>5. CASE UNCHANGED cacheVars
  BY <1>5, LiveUnchanged DEF cacheVars
<1>. QED
  BY <1>1, <1>2, <1>3, <1>4, <1>5 DEF CacheNext

(* The cache with its cleaner, for any clients, URLs and times, is the map   *)
(* whose entries go by themselves.                                           *)
THEOREM CacheImplementsMap == CacheSpec => ImplementsMap
<1>. DEFINE Past == cleaner.at <= now
<1>1. CacheInit => Past /\ Map!MapInit
  BY DEF CacheInit, Map!MapInit, LiveItems, Live
<1>2. CacheTypeOK /\ Past /\ [CacheNext]_cacheVars => Past'
  <2>. SUFFICES ASSUME CacheTypeOK, Past, [CacheNext]_cacheVars
                PROVE  Past'
    OBVIOUS
  <2>1. CASE CacheTick
    BY <2>1 DEF CacheTick, CacheTypeOK, Cleaner
  <2>2. ASSUME NEW c \in Clients, Request(c)
        PROVE  Past'
    BY <2>2 DEF Request, Hit, Miss, GotToken, Answer, Fill, Fail, Done
  <2>3. CASE CleanerWakes
    BY <2>3 DEF CleanerWakes, CacheTypeOK
  <2>4. CASE Clean
    BY <2>4 DEF Clean, CacheTypeOK, Cleaner
  <2>5. CASE UNCHANGED cacheVars
    BY <2>5 DEF cacheVars
  <2>. QED
    BY <2>1, <2>2, <2>3, <2>4, <2>5 DEF CacheNext
<1>3. CacheTypeOK /\ Past /\ [CacheNext]_cacheVars => [Map!MapNext]_(Map!mapVars)
  BY MapStep
<1>. QED
  BY <1>1, <1>2, <1>3, CacheTypeCorrect, PTL DEF CacheSpec, ImplementsMap, Map!MapSpec
=============================================================================
