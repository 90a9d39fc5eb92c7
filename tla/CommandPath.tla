---------------------------- MODULE CommandPath ----------------------------
(***************************************************************************)
(* From message.received to message.accepted, on top of the path of an     *)
(* accepted message: the command handler of main.go, app.MessageReceived   *)
(* and the decorators.                                                     *)
(*                                                                         *)
(* The messaging library calls the command handler from any number of      *)
(* goroutines, the Handlers, and may deliver a command again.  A handler   *)
(* looks up the device, asks the measurements service to count the states  *)
(* of the input until now, by way of the cache, adds that number to the    *)
(* pack, and publishes message.accepted on the topic that the engine       *)
(* receives from.  The measurements service learns of the states from the  *)
(* same topic, at its own pace: a count may lack the latest ones.  It is   *)
(* for the true states that the query is named, but nothing in it selects  *)
(* them: a count may lack the false ones, or have them.                    *)
(*                                                                         *)
(* The device of a command is told by its function; a device without one   *)
(* makes no difference here.  The cleaner of the cache is left out: no URL *)
(* is asked for again once its second has passed.                          *)
(***************************************************************************)
EXTENDS FunctionProperties

CONSTANTS
    Handlers,      \* goroutines of the messaging library
    Commands,      \* the message.received commands that may be delivered
    DeviceMeta,    \* tenant, source and place of each device
    TTL, Timeout,  \* of the cache and of the HTTP client
    MaxCommands    \* bound: commands delivered, again or for the first time

(* A command is a message without the time it was accepted. *)
Command ==
    [fn    : Functions,
     meta  : [MetaKeys -> MetaValues \cup {None}],
     obj   : Objects,
     state : BOOLEAN \cup {None},
     value : [Resources -> Int \cup {None}],
     time  : Nat]

ASSUME CommandAssumption ==
    /\ Commands \subseteq Command
    /\ DeviceMeta \in [Functions -> [MetaKeys -> MetaValues \cup {None}]]
    /\ {TTL, Timeout, MaxCommands} \subseteq Nat
    /\ MaxTime > 0
    /\ None \notin [value : Nat, expiry : Nat]
    /\ None \notin [cmd : Command, step : {"wait"}, count : Nat, floor : Nat]

VARIABLES
    items,      \* the cache of the measurements client, by URL
    call,       \* the request of each handler, or None
    handler,    \* the command each handler has been called with, or None
    topic,      \* the messages published on message.accepted
    published,  \* how many of them have a state, by device
    stored,     \* how many of those the measurements service counts by now
    lastAsk,    \* auxiliary: the second a count was last asked for, by device
    received    \* what the bound counts

commandVars == << items, call, handler, topic, published, stored, lastAsk, received >>

(* A URL names the device and the second in which the count is asked for. *)
URLs == Functions \X (1 .. MaxTime)

(* Mutant: the URL of a count that does not end now. *)
UrlOfDevice(f) == << f, 1 >>

Url(f) == << f, now >>

Cache == INSTANCE ResponseCache
            WITH Clients <- Handlers, Keys <- URLs, Interval <- MaxTime,
                 cleaner <- [step |-> "waiting", at |-> 0]

(* count: what the decorator will add; floor: auxiliary, what the service   *)
(* had counted when the count was asked for, 0 if that says nothing         *)
Handler ==
    [cmd   : Commands,
     step  : {"lookup", "count", "wait", "publish"},
     count : Nat,
     floor : Nat]

On(h, step) == handler[h] # None /\ handler[h].step = step

Device(h) == handler[h].cmd.fn
-----------------------------------------------------------------------------
CommandInit ==
    /\ Init
    /\ items = [k \in URLs |-> None]
    /\ call = [h \in Handlers |-> None]
    /\ handler = [h \in Handlers |-> None]
    /\ topic = {}
    /\ published = [f \in Functions |-> 0]
    /\ stored = [f \in Functions |-> 0]
    /\ lastAsk = [f \in Functions |-> 0]
    /\ received = 0

Deliver(h) ==
    /\ handler[h] = None
    /\ received < MaxCommands
    /\ received' = received + 1
    /\ \E cmd \in Commands :
          handler' = [handler EXCEPT ![h] = [cmd |-> cmd, step |-> "lookup",
                                             count |-> 0, floor |-> 0]]
    /\ UNCHANGED << vars, items, call, topic, published, stored, lastAsk >>

(* Only digital inputs are counted. *)
FindDevice(h) ==
    /\ On(h, "lookup")
    /\ handler' = [handler EXCEPT ![h].step =
                      IF handler[h].cmd.obj = "digitalinput" THEN "count" ELSE "publish"]
    /\ UNCHANGED << vars, items, call, topic, published, stored, lastAsk, received >>

Return(h) == handler' = [handler EXCEPT ![h] = None]

(* Any error of the lookup is ErrCouldNotFindDevice, which the command      *)
(* handler does not return.                                                 *)
DeviceNotFound(h) ==
    /\ On(h, "lookup")
    /\ Return(h)
    /\ UNCHANGED << vars, items, call, topic, published, stored, lastAsk, received >>

(* GetNumberOfTrueValues: the time is taken, the cache is looked into. *)
AskCount(h) ==
    LET f == Device(h)
    IN  /\ On(h, "count")
        /\ Cache!Hit(h, Url(f)) \/ Cache!Miss(h, Url(f))
        /\ handler' = [handler EXCEPT ![h].step = "wait",
                                      ![h].floor = IF lastAsk[f] = now THEN 0 ELSE stored[f]]
        /\ lastAsk' = [lastAsk EXCEPT ![f] = now]
        /\ UNCHANGED << vars, topic, published, stored, received >>

FetchCount(h) ==
    /\ On(h, "wait")
    /\ Cache!GotToken(h) \/ Cache!Answer(h, stored[Device(h)]) \/ Cache!Fill(h)
    /\ UNCHANGED << vars, handler, topic, published, stored, lastAsk, received >>

GotCount(h) ==
    /\ On(h, "wait")
    /\ Cache!Done(h)
    /\ handler' = [handler EXCEPT ![h].step = "publish", ![h].count = call[h].value]
    /\ UNCHANGED << vars, topic, published, stored, lastAsk, received >>

(* Mutant: the service is asked until it answers. *)
AskAgain(h) ==
    /\ On(h, "wait")
    /\ Cache!Fail(h)
    /\ handler' = [handler EXCEPT ![h].step = "count"]
    /\ UNCHANGED << vars, topic, published, stored, lastAsk, received >>

(* An error counts as zero, and so does an answer without a count in it, *)
(* which is kept in the cache like any other.                            *)
NoCount(h) ==
    /\ On(h, "wait")
    /\ Cache!Fail(h) \/ Cache!Done(h)
    /\ handler' = [handler EXCEPT ![h].step = "publish", ![h].floor = 0]
    /\ UNCHANGED << vars, topic, published, stored, lastAsk, received >>
-----------------------------------------------------------------------------
(* Mutant: the message that is under way is counted, with or without a state. *)
CountAnyway(cmd, count) == count + 1

(* The service does not know of the message that is under way. *)
CountWith(cmd, count) == count + Number(cmd.state = TRUE)

(* The decorator DigitalInput leaves the sensor's own count alone.  The     *)
(* record it appends has no time: that senml gives it the base time of the  *)
(* pack, like the other records, is assumed.                                *)
Decorated(cmd, count) ==
    IF cmd.obj # "digitalinput" \/ cmd.value[DigitalInputCounter] # None THEN cmd.value
    ELSE [cmd.value EXCEPT ![DigitalInputCounter] = 10 * CountWith(cmd, count)]

(* What the device has replaces what the pack has; a device without a      *)
(* source leaves the pack's, one without a tenant has the tenant "default". *)
DeviceRecords(cmd) ==
    [k \in MetaKeys |-> IF DeviceMeta[cmd.fn][k] = None THEN cmd.meta[k]
                        ELSE DeviceMeta[cmd.fn][k]]

(* Mutant: the time of acceptance is not filled in. *)
Untimed(cmd, count) ==
    [fn |-> cmd.fn, accepted |-> ZeroTime, meta |-> DeviceRecords(cmd), obj |-> cmd.obj,
     state |-> cmd.state, value |-> Decorated(cmd, count), time |-> cmd.time]

NewMessageAccepted(cmd, count) ==
    [fn |-> cmd.fn, accepted |-> now, meta |-> DeviceRecords(cmd), obj |-> cmd.obj,
     state |-> cmd.state, value |-> Decorated(cmd, count), time |-> cmd.time]

HasState(cmd) == cmd.obj = "digitalinput" /\ cmd.state # None

PublishAccepted(h) ==
    LET cmd == handler[h].cmd
    IN  /\ On(h, "publish")
        /\ topic' = topic \cup {NewMessageAccepted(cmd, handler[h].count)}
        /\ published' = [published EXCEPT ![cmd.fn] = @ + Number(HasState(cmd))]
        /\ Return(h)
        /\ UNCHANGED << vars, items, call, stored, lastAsk, received >>

(* The error goes back to the messaging library. *)
AcceptedNotPublished(h) ==
    /\ On(h, "publish")
    /\ Fault
    /\ Return(h)
    /\ UNCHANGED << now, process, history, registered, updates, synced, deliveries,
                    restarts, items, call, topic, published, stored, lastAsk, received >>
-----------------------------------------------------------------------------
(* The measurements service counts one more state of the input, true or     *)
(* false; one that it already has it may count again or not, and one that   *)
(* it does not count is like one it has not got yet.                        *)
Ingest(f) ==
    /\ stored[f] < published[f]
    /\ stored' = [stored EXCEPT ![f] = @ + 1]
    /\ UNCHANGED << vars, items, call, handler, topic, published, lastAsk, received >>

(* The engine receives what is on the topic, in any order and again. *)
ReceiveFromTopic(w) ==
    /\ Receive(w)
    /\ msg'[w] \in topic
    /\ UNCHANGED commandVars

(* Handlers and cache go with the process; the topic is the broker's. *)
CommandRestart ==
    /\ Restart
    /\ items' = [k \in URLs |-> None]
    /\ call' = [h \in Handlers |-> None]
    /\ handler' = [h \in Handlers |-> None]
    /\ UNCHANGED << topic, published, stored, lastAsk, received >>

HandleCommand(h) ==
    \/ FindDevice(h)
    \/ DeviceNotFound(h)
    \/ AskCount(h)
    \/ FetchCount(h)
    \/ GotCount(h)
    \/ NoCount(h)
    \/ PublishAccepted(h)
    \/ AcceptedNotPublished(h)

CommandNext ==
    \/ Tick /\ UNCHANGED commandVars
    \/ CommandRestart
    \/ \E f \in Functions : Ingest(f)
    \/ \E h \in Handlers : Deliver(h) \/ HandleCommand(h)
    \/ \E w \in Workers : ReceiveFromTopic(w)
    \/ \E w \in Workers : (Lock(w) \/ Proceed(w)) /\ UNCHANGED commandVars

CommandSpec == CommandInit /\ [][CommandNext]_<< vars, commandVars >>

(* Device management, the token service and the broker answer or fail; the  *)
(* HTTP client gives up on the measurements service.                        *)
FairCommandSpec ==
    CommandSpec /\ \A h \in Handlers : WF_<< vars, commandVars >>(HandleCommand(h))
-----------------------------------------------------------------------------
(* Every variable of the command path has its type. *)
CommandTypeOK ==
    /\ items \in [URLs -> Cache!Item \cup {None}]
    /\ call \in [Handlers -> Cache!Call \cup {None}]
    /\ handler \in [Handlers -> Handler \cup {None}]
    /\ topic \subseteq Message
    /\ published \in [Functions -> Nat]
    /\ stored \in [Functions -> Nat]
    /\ lastAsk \in [Functions -> Nat]
    /\ received \in Nat

(* A sensor without a count of its own *)
Uncounted(f) == \A cmd \in Commands : cmd.fn = f => cmd.value[DigitalInputCounter] = None

(* No count is invented: a digital input never carries more than the number *)
(* of states that its sensor has sent, this one included, whatever the      *)
(* service lacks or takes for a true value, whoever shares the cache and    *)
(* however often a command is delivered (decorators/digitalinput.go:        *)
(* digitalInputCounter++).                                                  *)
CountsNoMore ==
    \A m \in topic :
        m.obj = "digitalinput" /\ Uncounted(m.fn) =>
            m.value[DigitalInputCounter] <= 10 * published[m.fn]

(* And so a counter never shows more than the states that were sent, in     *)
(* whatever order and however often it is given the messages, and though it *)
(* takes the count in each for its own (counters.go: Count_ = Ceil(count)). *)
CounterNoMore ==
    \A f \in OfType("counter") : Uncounted(f) => mem[f].count <= published[f]

(* A count is not older than the question, unless the device was already    *)
(* asked about within the same second: the cache never hands out the count  *)
(* of an earlier message (GetCountTrueValues: endTimeAt is part of the URL).*)
FreshCount ==
    \A h \in Handlers : On(h, "publish") => handler[h].count >= handler[h].floor

(* Every command is done with in the end.                                   *)
EveryCommandReturns == \A h \in Handlers : handler[h] # None ~> handler[h] = None
=============================================================================
