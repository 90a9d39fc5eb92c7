--------------------------- MODULE ResponseCache ---------------------------
(***************************************************************************)
(* infrastructure/cache/cache.go and the requests of                       *)
(* measurements/measurementsclient.go that go through it.                  *)
(*                                                                         *)
(* A client looks for its URL in the cache, and on a miss gets a token,    *)
(* asks the measurements service and stores what it hears.  The look-up    *)
(* and the store take the lock separately: clients that miss together all  *)
(* ask, and the last one to hear an answer overwrites those before it.     *)
(* A goroutine deletes what has expired.                                   *)
(*                                                                         *)
(* The content of an answer is a number.  Here it is the moment when the   *)
(* service made it, which is what staleness is about; CommandPath asks for *)
(* counts.  Time passes in the units of the clock while a client waits for *)
(* somebody else, and not between the last byte of an answer and its       *)
(* store.                                                                  *)
(***************************************************************************)
EXTENDS Integers

CONSTANTS
    Clients,     \* goroutines that ask
    Keys,        \* URLs
    None,        \* nothing: no item, no request
    TTL,         \* how long an answer is kept: a minute
    Timeout,     \* of the HTTP client: half a minute
    Interval,    \* between two ticks of the cleaner: five minutes
    MaxTime      \* bound: the clock stops here

ASSUME CacheAssumption ==
    /\ {TTL, Timeout, Interval, MaxTime} \subseteq Nat
    /\ None \notin [value : Nat, expiry : Nat]

VARIABLES
    now,        \* the clock
    items,      \* the map of the cache, by key
    call,       \* the request of each client, or None
    cleaner     \* the goroutine of Cleanup

cacheVars == << now, items, call, cleaner >>

Item == [value : Nat, expiry : Nat]

(* A request waits for a token, for the service, and for the body; once it  *)
(* has been answered, at tells when.                                        *)
Call ==
    [key : Keys, step : {"token"}]
    \cup [key : Keys, step : {"asked"}, since : Nat]
    \cup [key : Keys, step : {"answered"}, since : Nat, value : Nat]
    \cup [key : Keys, step : {"served"}, at : Nat, value : Nat]

Cleaner == [step : {"waiting", "cleaning"}, at : Nat]

At(c, step) == call[c] # None /\ call[c].step = step
-----------------------------------------------------------------------------
CacheInit ==
    /\ now = 1
    /\ items = [k \in Keys |-> None]
    /\ call = [c \in Clients |-> None]
    /\ cleaner = [step |-> "waiting", at |-> now]

CacheTick ==
    /\ now < MaxTime
    /\ now' = now + 1
    /\ UNCHANGED << items, call, cleaner >>

(* Mutant: the expiry time is left to the cleaner. *)
Present(k) == items[k] # None

(* !item.ExpiryTime.Before(time.Now()) *)
Live(k) == items[k] # None /\ items[k].expiry >= now

Served(c, k, v) ==
    call' = [call EXCEPT ![c] = [key |-> k, step |-> "served", at |-> now, value |-> v]]

(* c.c.Get(url) *)
Hit(c, k) ==
    /\ call[c] = None
    /\ Live(k)
    /\ Served(c, k, items[k].value)
    /\ UNCHANGED << now, items, cleaner >>

Miss(c, k) ==
    /\ call[c] = None
    /\ ~Live(k)
    /\ call' = [call EXCEPT ![c] = [key |-> k, step |-> "token"]]
    /\ UNCHANGED << now, items, cleaner >>

(* A token of its own for every request; nothing bounds the wait for it. *)
GotToken(c) ==
    /\ At(c, "token")
    /\ call' = [call EXCEPT ![c] = [key |-> @.key, step |-> "asked", since |-> now]]
    /\ UNCHANGED << now, items, cleaner >>

InTime(c) == now <= call[c].since + Timeout

(* The service makes up its answer. *)
Answer(c, v) ==
    /\ At(c, "asked")
    /\ InTime(c)
    /\ call' = [call EXCEPT ![c] = [key |-> @.key, step |-> "answered",
                                    since |-> @.since, value |-> v]]
    /\ UNCHANGED << now, items, cleaner >>

Expiry == now + TTL

(* The body is read, decoded and stored. *)
Fill(c) ==
    /\ At(c, "answered")
    /\ InTime(c)
    /\ items' = [items EXCEPT ![call[c].key] = [value |-> call[c].value, expiry |-> Expiry]]
    /\ Served(c, call[c].key, call[c].value)
    /\ UNCHANGED << now, cleaner >>

(* Mutant: the failure is cached like an answer. *)
FailCached(c) ==
    /\ \E step \in {"token", "asked", "answered"} : At(c, step)
    /\ items' = [items EXCEPT ![call[c].key] = [value |-> None, expiry |-> Expiry]]
    /\ call' = [call EXCEPT ![c] = None]
    /\ UNCHANGED << now, cleaner >>

(* No token, a timeout, an error status or an unusable body: the caller      *)
(* gets an error and nothing is cached. Where it fails makes no difference.  *)
Fail(c) ==
    /\ \E step \in {"token", "asked", "answered"} : At(c, step)
    /\ call' = [call EXCEPT ![c] = None]
    /\ UNCHANGED << now, items, cleaner >>

Done(c) ==
    /\ At(c, "served")
    /\ call' = [call EXCEPT ![c] = None]
    /\ UNCHANGED << now, items, cleaner >>
-----------------------------------------------------------------------------
(* <-ticker.C, and the time before the lock is taken *)
CleanerWakes ==
    /\ cleaner.step = "waiting"
    /\ now >= cleaner.at + Interval
    /\ cleaner' = [step |-> "cleaning", at |-> now]
    /\ UNCHANGED << now, items, call >>

(* Mutant: not After instead of Before. *)
NotAfter(item, t) == item.expiry <= t

Expired(item, t) == item.expiry < t

Remaining ==
    [k \in Keys |-> IF items[k] # None /\ Expired(items[k], cleaner.at) THEN None
                    ELSE items[k]]

(* Mutant: the goroutine cleans up once. *)
CleanOnce ==
    /\ cleaner.step = "cleaning"
    /\ items' = Remaining
    /\ UNCHANGED << now, call, cleaner >>

Clean ==
    /\ cleaner.step = "cleaning"
    /\ items' = Remaining
    /\ cleaner' = [cleaner EXCEPT !.step = "waiting"]
    /\ UNCHANGED << now, call >>
-----------------------------------------------------------------------------
Request(c) ==
    \/ \E k \in Keys : Hit(c, k) \/ Miss(c, k)
    \/ GotToken(c)
    \/ Answer(c, now)
    \/ Fill(c)
    \/ Fail(c)
    \/ Done(c)

CacheNext ==
    \/ CacheTick
    \/ \E c \in Clients : Request(c)
    \/ CleanerWakes
    \/ Clean

CacheSpec == CacheInit /\ [][CacheNext]_cacheVars

(* The goroutine of the cleaner is scheduled. *)
FairCacheSpec == CacheSpec /\ WF_cacheVars(CleanerWakes) /\ WF_cacheVars(Clean)
-----------------------------------------------------------------------------
(* Every variable has its type. *)
CacheTypeOK ==
    /\ now \in Nat
    /\ items \in [Keys -> Item \cup {None}]
    /\ call \in [Clients -> Call \cup {None}]
    /\ cleaner \in Cleaner

(* Nobody is given an answer that is older than the time to live and the     *)
(* time an answer may take, however many clients fill the cache at once and  *)
(* in whatever order their answers come (getApiResponse: Set(url, jar,       *)
(* 1*time.Minute); http.Client Timeout).                                     *)
StalenessBound ==
    \A c \in Clients : At(c, "served") => call[c].at - call[c].value <= TTL + Timeout

(* The cleaner works on the cache while clients use it, and nobody can tell: *)
(* it is a map whose entries go by themselves when their time is up          *)
(* (Cleanup: the time is read before the lock is taken).                     *)
LiveItems == [k \in Keys |-> IF Live(k) THEN items[k] ELSE None]

Map == INSTANCE ExpiringMap WITH live <- LiveItems

ImplementsMap == Map!MapSpec

(* What has expired is dropped in the end, unless it is asked for and        *)
(* replaced: the cache does not grow with the URLs of the past, each of      *)
(* which holds a time of its own (GetCountTrueValues: endTimeAt).            *)
ExpiredIsDropped ==
    \A k \in Keys, t \in 1 .. MaxTime :
        /\ items[k] # None
        /\ items[k].expiry < t
        /\ now = t
        /\ t >= cleaner.at + Interval
        ~> items[k] = None \/ items[k].expiry >= t
=============================================================================
