------------------------- MODULE CommandPathProofs -------------------------
(***************************************************************************)
(* Theorems about the command path, for any number of handlers, sensors,   *)
(* commands and deliveries; and with the engine behind it, which keeps its *)
(* types on what the path gives it, and makes no counter count more than   *)
(* its sensor has been on.                                                 *)
(***************************************************************************)
EXTENDS CommandPath, FunctionEngineProofs, SequenceTheorems

ClockOK == now \in 1 .. MaxTime

(* Every message on the topic names a sensor, and a digital input without a *)
(* count of its own has been given one.                                     *)
TopicOK ==
    \A m \in topic :
        /\ m.fn \in Functions
        /\ m.obj = "digitalinput" /\ Uncounted(m.fn) => m.value[DigitalInputCounter] \in Int

(* No number on the way to the topic is more than what has been published   *)
(* by now: not what the service has, not what the cache keeps, not what the *)
(* service answered or a handler is about to use.                           *)
CountInvariant ==
    /\ ClockOK
    /\ CommandTypeOK
    /\ \A f \in Functions : stored[f] <= published[f]
    /\ \A k \in URLs : items[k] # None => items[k].value <= published[k[1]]
    /\ \A h \in Handlers :
          call[h] # None =>
              /\ On(h, "wait")
              /\ call[h].key[1] = Device(h)
              /\ call[h].step \in {"answered", "served"} =>
                    call[h].value <= published[Device(h)]
    /\ \A h \in Handlers : handler[h] # None => handler[h].count <= published[Device(h)]
    /\ CountsNoMore
    /\ TopicOK

everything == << vars, commandVars >>

LEMMA NumberIsNat == ASSUME NEW b PROVE Number(b) \in Nat
BY DEF Number

LEMMA HandlerFields ==
    ASSUME CommandTypeOK, NEW h \in Handlers, handler[h] # None
    PROVE  /\ handler[h] \in Handler
           /\ handler[h].cmd \in Commands
           /\ handler[h].cmd \in Command
           /\ Device(h) \in Functions
           /\ handler[h].count \in Nat
           /\ handler[h].floor \in Nat
BY CommandAssumption DEF CommandTypeOK, Handler, Command, Device

LEMMA HandlerIsSome ==
    ASSUME NEW c \in Command, NEW n \in Nat, NEW floor \in Nat
    PROVE  [cmd |-> c, step |-> "wait", count |-> n, floor |-> floor] # None
<1>1. [cmd |-> c, step |-> "wait", count |-> n, floor |-> floor]
          \in [cmd : Command, step : {"wait"}, count : Nat, floor : Nat]
  OBVIOUS
<1>. QED
  BY <1>1, CommandAssumption

LEMMA RequestFields ==
    ASSUME CommandTypeOK, NEW h \in Handlers, call[h] # None
    PROVE  /\ call[h] \in Cache!Call
           /\ call[h].key \in URLs
           /\ call[h].step = "asked" => call[h].since \in Nat
           /\ call[h].step = "answered" => call[h].since \in Nat /\ call[h].value \in Nat
           /\ call[h].step = "served" => call[h].value \in Nat
<1>1. call[h] \in Cache!Call
  BY DEF CommandTypeOK
<1>. QED
  BY <1>1 DEF Cache!Call

LEMMA TenTimes ==
    ASSUME NEW v \in Int, NEW m \in Nat, NEW n \in Nat, v <= 10 * m, n >= m
    PROVE  v <= 10 * n
OBVIOUS
-----------------------------------------------------------------------------
(* The engine does not touch the command path. *)
LEMMA EngineElsewhere ==
    ASSUME CountInvariant, UNCHANGED commandVars, ClockOK'
    PROVE  CountInvariant'
BY DEF CountInvariant, CommandTypeOK, CountsNoMore, TopicOK, commandVars, On, Device

LEMMA EngineClock ==
    ASSUME NEW w \in Workers, Receive(w) \/ Lock(w) \/ Proceed(w)
    PROVE  now' = now
BY DEF Receive, Lock, Ignore, StartHandle, Proceed, Store, StoreRow, StoreFails, ReturnError,
       ReturnSilently, Publish, PublishFails

LEMMA UrlTyped ==
    ASSUME ClockOK, NEW f \in Functions
    PROVE  Url(f) \in URLs /\ Url(f)[1] = f
BY DEF ClockOK, Url, URLs

(* A message that a handler makes is one that the engine can receive. *)
LEMMA AcceptedTyped ==
    ASSUME ClockOK, NEW cmd \in Command, NEW n \in Nat
    PROVE  NewMessageAccepted(cmd, n) \in Message
<1>1. 10 * CountWith(cmd, n) \in Int
  <2>1. Number(cmd.state = TRUE) \in Nat
    BY NumberIsNat
  <2>. QED
    BY <2>1 DEF CountWith
<1>2. Decorated(cmd, n) \in [Resources -> Int \cup {None}]
  BY <1>1 DEF Decorated, Command
<1>3. DeviceRecords(cmd) \in [MetaKeys -> MetaValues \cup {None}]
  BY CommandAssumption DEF DeviceRecords, Command
<1>4. now \in Nat \ {ZeroTime}
  BY EngineAssumption DEF ClockOK, ZeroTime
<1>. QED
  BY <1>2, <1>3, <1>4 DEF NewMessageAccepted, Message, Command
-----------------------------------------------------------------------------
(* One step of one handler. *)
LEMMA HandlerStep ==
    ASSUME CountInvariant, NEW h \in Handlers, Deliver(h) \/ HandleCommand(h)
    PROVE  CountInvariant'
<1>. USE CommandAssumption, EngineAssumption
<1>0. ClockOK /\ CommandTypeOK
  BY DEF CountInvariant
<1>1. CASE Deliver(h)
  <2>1. PICK cmd \in Commands :
            handler' = [handler EXCEPT ![h] = [cmd |-> cmd, step |-> "lookup",
                                               count |-> 0, floor |-> 0]]
    BY <1>1 DEF Deliver
  <2>2. /\ UNCHANGED << now, items, call, topic, published, stored, lastAsk >>
        /\ received' \in Nat
        /\ handler[h] = None
    BY <1>1, <1>0 DEF Deliver, vars, CommandTypeOK
  <2>3. cmd.fn \in Functions /\ published[cmd.fn] \in Nat
    BY <1>0 DEF Command, CommandTypeOK
  <2>4. call[h] = None
    BY <2>2 DEF CountInvariant, On
  <2>5. CommandTypeOK'
    BY <1>0, <2>1, <2>2 DEF CommandTypeOK, Handler
  <2>. QED
    BY <1>0, <2>1, <2>2, <2>3, <2>4, <2>5
    DEF CountInvariant, ClockOK, CountsNoMore, TopicOK, On, Device, CommandTypeOK
<1>2. CASE FindDevice(h)
  <2>1. /\ UNCHANGED << now, items, call, topic, published, stored, lastAsk, received >>
        /\ On(h, "lookup")
    BY <1>2 DEF FindDevice, vars
  <2>2. PICK step \in {"count", "publish"} :
            handler' = [handler EXCEPT ![h].step = step]
    BY <1>2 DEF FindDevice
  <2>3. call[h] = None
    BY <2>1 DEF CountInvariant, On
  <2>4. CommandTypeOK'
    BY <1>0, <2>1, <2>2, HandlerFields DEF CommandTypeOK, Handler, On
  <2>. QED
    BY <1>0, <2>1, <2>2, <2>3, <2>4
    DEF CountInvariant, ClockOK, CountsNoMore, TopicOK, On, Device, CommandTypeOK
<1>3. CASE DeviceNotFound(h)
  <2>1. /\ UNCHANGED << now, items, call, topic, published, stored, lastAsk, received >>
        /\ On(h, "lookup")
        /\ handler' = [handler EXCEPT ![h] = None]
    BY <1>3 DEF DeviceNotFound, vars, Return
  <2>2. call[h] = None
    BY <2>1 DEF CountInvariant, On
  <2>. QED
    BY <1>0, <2>1, <2>2 DEF CountInvariant, ClockOK, CountsNoMore, TopicOK, On, Device, CommandTypeOK
<1>4. CASE AskCount(h)
  <2>. DEFINE f == Device(h)
  <2>1. /\ UNCHANGED << now, items, topic, published, stored, received >>
        /\ On(h, "count")
        /\ lastAsk' = [lastAsk EXCEPT ![f] = now]
        /\ call[h] = None
    BY <1>4 DEF AskCount, vars, Cache!Hit, Cache!Miss
  <2>2. f \in Functions /\ now \in Nat /\ stored[f] \in Nat /\ Url(f) \in URLs /\ Url(f)[1] = f
    BY <1>0, <2>1, HandlerFields, UrlTyped DEF On, ClockOK, CommandTypeOK
  <2>3. PICK n \in Nat : handler' = [handler EXCEPT ![h].step = "wait", ![h].floor = n]
    BY <1>4, <2>2 DEF AskCount
  <2>4. PICK r \in Cache!Call :
            /\ call' = [call EXCEPT ![h] = r]
            /\ r.key = Url(f)
            /\ r.step \in {"answered", "served"} => r.value <= published[f]
    <3>1. CASE Cache!Hit(h, Url(f))
      <4>1. items[Url(f)] # None /\ items[Url(f)] \in Cache!Item
        BY <1>0, <2>2, <3>1 DEF Cache!Hit, Cache!Live, CommandTypeOK
      <4>2. items[Url(f)].value \in Nat /\ items[Url(f)].value <= published[f]
        BY <2>2, <4>1 DEF CountInvariant, Cache!Item
      <4>. DEFINE r == [key |-> Url(f), step |-> "served", at |-> now,
                        value |-> items[Url(f)].value]
      <4>3. r \in Cache!Call /\ r.key = Url(f) /\ r.value <= published[f]
        BY <2>2, <4>2 DEF Cache!Call
      <4>4. call' = [call EXCEPT ![h] = r]
        BY <3>1 DEF Cache!Hit, Cache!Served
      <4>. QED
        BY <4>3, <4>4
    <3>2. CASE Cache!Miss(h, Url(f))
      <4>. DEFINE r == [key |-> Url(f), step |-> "token"]
      <4>1. r \in Cache!Call /\ r.key = Url(f) /\ r.step = "token"
        BY <2>2 DEF Cache!Call
      <4>2. call' = [call EXCEPT ![h] = r]
        BY <3>2 DEF Cache!Miss
      <4>. QED
        BY <4>1, <4>2
    <3>. QED
      BY <1>4, <3>1, <3>2 DEF AskCount
  <2>5. CommandTypeOK'
    <3>1. handler' \in [Handlers -> Handler \cup {None}]
      <4>1. handler[h] \in Handler
        BY <1>0, <2>1, HandlerFields DEF On
      <4>2. [handler[h] EXCEPT !.step = "wait", !.floor = n] \in Handler
        BY <4>1 DEF Handler
      <4>. QED
        BY <1>0, <2>3, <4>2 DEF CommandTypeOK
    <3>2. call' \in [Handlers -> Cache!Call \cup {None}]
      BY <1>0, <2>4 DEF CommandTypeOK
    <3>3. lastAsk' \in [Functions -> Nat]
      BY <1>0, <2>1, <2>2 DEF CommandTypeOK
    <3>. QED
      BY <1>0, <2>1, <3>1, <3>2, <3>3 DEF CommandTypeOK
  <2>6. handler'[h] # None /\ handler'[h].step = "wait" /\ Device(h)' = f
        /\ handler'[h].count = handler[h].count
    <3>1. handler[h] \in Handler /\ handler[h] # None
      BY <1>0, <2>1, HandlerFields DEF On
    <3>2. handler'[h] = [handler[h] EXCEPT !.step = "wait", !.floor = n]
      BY <1>0, <2>3 DEF CommandTypeOK
    <3>4. handler'[h] # None
      <4>1. handler[h].cmd \in Command /\ handler[h].count \in Nat
        BY <1>0, <3>1, HandlerFields
      <4>2. handler'[h] = [cmd |-> handler[h].cmd, step |-> "wait",
                           count |-> handler[h].count, floor |-> n]
        BY <3>1, <3>2 DEF Handler
      <4>. QED
        BY <4>1, <4>2, HandlerIsSome
    <3>. QED
      BY <3>1, <3>2, <3>4 DEF Handler, Device
  <2>7. \A g \in Handlers \ {h} : handler'[g] = handler[g] /\ call'[g] = call[g]
    BY <1>0, <2>3, <2>4 DEF CommandTypeOK
  <2>8. call'[h].key[1] = f /\ (call'[h].step \in {"answered", "served"} =>
                                   call'[h].value <= published[f])
    BY <1>0, <2>2, <2>4 DEF CommandTypeOK
  <2>. QED
    BY <1>0, <2>1, <2>5, <2>6, <2>7, <2>8 DEF CountInvariant, ClockOK, CountsNoMore, TopicOK, On, Device
<1>5. CASE FetchCount(h)
  <2>. DEFINE f == Device(h)
  <2>1. /\ UNCHANGED << now, handler, topic, published, stored, lastAsk, received >>
        /\ On(h, "wait")
    BY <1>5 DEF FetchCount, vars
  <2>2. f \in Functions /\ now \in Nat /\ stored[f] \in Nat /\ stored[f] <= published[f]
    BY <1>0, <2>1, HandlerFields DEF On, ClockOK, CommandTypeOK, CountInvariant
  <2>3. call[h] # None
    BY <1>5 DEF FetchCount, Cache!GotToken, Cache!Answer, Cache!Fill, Cache!At
  <2>4. call[h].key \in URLs /\ call[h].key[1] = f
    BY <1>0, <2>3, RequestFields DEF CountInvariant
  <2>5. PICK r \in Cache!Call :
            /\ call' = [call EXCEPT ![h] = r]
            /\ r.key = call[h].key
            /\ r.step \in {"answered", "served"} => r.value <= published[f]
    <3>1. CASE Cache!GotToken(h)
      <4>. DEFINE r == [key |-> call[h].key, step |-> "asked", since |-> now]
      <4>1. r \in Cache!Call /\ r.key = call[h].key /\ r.step = "asked"
        BY <2>2, <2>4 DEF Cache!Call
      <4>. QED
        BY <3>1, <4>1 DEF Cache!GotToken
    <3>2. CASE Cache!Answer(h, stored[f])
      <4>. DEFINE r == [key |-> call[h].key, step |-> "answered", since |-> call[h].since,
                        value |-> stored[f]]
      <4>1. call[h].since \in Nat
        BY <1>0, <3>2, RequestFields DEF Cache!Answer, Cache!At
      <4>2. r \in Cache!Call /\ r.key = call[h].key /\ r.value <= published[f]
        BY <2>2, <2>4, <4>1 DEF Cache!Call
      <4>. QED
        BY <3>2, <4>2 DEF Cache!Answer
    <3>3. CASE Cache!Fill(h)
      <4>. DEFINE r == [key |-> call[h].key, step |-> "served", at |-> now,
                        value |-> call[h].value]
      <4>1. call[h].value \in Nat /\ call[h].value <= published[f]
        BY <1>0, <3>3, RequestFields DEF Cache!Fill, Cache!At, CountInvariant
      <4>2. r \in Cache!Call /\ r.key = call[h].key /\ r.value <= published[f]
        BY <2>2, <2>4, <4>1 DEF Cache!Call
      <4>. QED
        BY <3>3, <4>2 DEF Cache!Fill, Cache!Served
    <3>. QED
      BY <1>5, <3>1, <3>2, <3>3 DEF FetchCount
  <2>6. /\ items' \in [URLs -> Cache!Item \cup {None}]
        /\ \A k \in URLs : items'[k] # None => items'[k].value <= published[k[1]]
    <3>1. CASE Cache!Fill(h)
      <4>1. call[h].value \in Nat /\ call[h].value <= published[f]
        BY <1>0, <3>1, RequestFields DEF Cache!Fill, Cache!At, CountInvariant
      <4>2. items' = [items EXCEPT ![call[h].key] = [value |-> call[h].value,
                                                      expiry |-> Cache!Expiry]]
        BY <3>1 DEF Cache!Fill
      <4>3. [value |-> call[h].value, expiry |-> Cache!Expiry] \in Cache!Item
        BY <2>2, <4>1 DEF Cache!Item, Cache!Expiry
      <4>. QED
        BY <1>0, <2>4, <4>1, <4>2, <4>3 DEF CommandTypeOK, CountInvariant
    <3>2. CASE ~Cache!Fill(h)
      <4>1. items' = items
        BY <1>5, <3>2 DEF FetchCount, Cache!GotToken, Cache!Answer
      <4>. QED
        BY <1>0, <4>1 DEF CommandTypeOK, CountInvariant
    <3>. QED
      BY <3>1, <3>2
  <2>7. CommandTypeOK'
    BY <1>0, <2>1, <2>5, <2>6 DEF CommandTypeOK
  <2>8. \A g \in Handlers \ {h} : call'[g] = call[g]
    BY <1>0, <2>5 DEF CommandTypeOK
  <2>9. call'[h].key[1] = f /\ (call'[h].step \in {"answered", "served"} =>
                                   call'[h].value <= published[f])
    BY <1>0, <2>4, <2>5 DEF CommandTypeOK
  <2>. QED
    BY <1>0, <2>1, <2>6, <2>7, <2>8, <2>9 DEF CountInvariant, ClockOK, CountsNoMore, TopicOK, On, Device
<1>6. CASE GotCount(h)
  <2>1. /\ UNCHANGED << now, items, topic, published, stored, lastAsk, received >>
        /\ On(h, "wait")
        /\ handler' = [handler EXCEPT ![h].step = "publish", ![h].count = call[h].value]
        /\ call' = [call EXCEPT ![h] = None]
        /\ call[h] # None /\ call[h].step = "served"
    BY <1>6 DEF GotCount, vars, Cache!Done, Cache!At
  <2>2. call[h].value \in Nat /\ call[h].value <= published[Device(h)]
    BY <1>0, <2>1, RequestFields DEF CountInvariant
  <2>3. CommandTypeOK'
    BY <1>0, <2>1, <2>2, HandlerFields DEF CommandTypeOK, Handler, On
  <2>4. handler'[h].count = call[h].value /\ Device(h)' = Device(h)
    BY <1>0, <2>1, HandlerFields DEF On, CommandTypeOK, Device, Handler
  <2>5. \A g \in Handlers \ {h} : handler'[g] = handler[g] /\ call'[g] = call[g]
    BY <1>0, <2>1 DEF CommandTypeOK
  <2>6. call'[h] = None
    BY <1>0, <2>1 DEF CommandTypeOK
  <2>7. handler'[h].count <= published[Device(h)']
    BY <2>2, <2>4
  <2>. QED
    BY <1>0, <2>1, <2>3, <2>5, <2>6, <2>7 DEF CountInvariant, ClockOK, CountsNoMore, TopicOK, On, Device
<1>7. CASE NoCount(h)
  <2>1. /\ UNCHANGED << now, items, topic, published, stored, lastAsk, received >>
        /\ On(h, "wait")
        /\ handler' = [handler EXCEPT ![h].step = "publish", ![h].floor = 0]
        /\ call' = [call EXCEPT ![h] = None]
    BY <1>7 DEF NoCount, vars, Cache!Fail, Cache!Done
  <2>2. CommandTypeOK'
    BY <1>0, <2>1, HandlerFields DEF CommandTypeOK, Handler, On
  <2>3. handler'[h].count = handler[h].count /\ Device(h)' = Device(h)
    BY <1>0, <2>1, HandlerFields DEF On, CommandTypeOK, Device, Handler
  <2>6. handler'[h].count <= published[Device(h)']
    BY <2>1, <2>3 DEF CountInvariant, On
  <2>4. \A g \in Handlers \ {h} : handler'[g] = handler[g] /\ call'[g] = call[g]
    BY <1>0, <2>1 DEF CommandTypeOK
  <2>5. call'[h] = None
    BY <1>0, <2>1 DEF CommandTypeOK
  <2>. QED
    BY <1>0, <2>1, <2>2, <2>4, <2>5, <2>6 DEF CountInvariant, ClockOK, CountsNoMore, TopicOK, On, Device
<1>8. CASE PublishAccepted(h)
  <2>. DEFINE cmd == handler[h].cmd
              m == NewMessageAccepted(cmd, handler[h].count)
  <2>1. /\ UNCHANGED << now, items, call, stored, lastAsk, received >>
        /\ On(h, "publish")
        /\ topic' = topic \cup {m}
        /\ published' = [published EXCEPT ![cmd.fn] = @ + Number(HasState(cmd))]
        /\ handler' = [handler EXCEPT ![h] = None]
    BY <1>8 DEF PublishAccepted, vars, Return
  <2>2. cmd \in Command /\ cmd \in Commands /\ cmd.fn \in Functions /\ handler[h].count \in Nat
        /\ handler[h].count <= published[cmd.fn] /\ published[cmd.fn] \in Nat
    BY <1>0, <2>1, HandlerFields DEF On, Device, CountInvariant, CommandTypeOK
  <2>3. Number(HasState(cmd)) \in Nat /\ published' \in [Functions -> Nat]
    BY <1>0, <2>1, <2>2, NumberIsNat DEF HasState, CommandTypeOK
  <2>4. \A f \in Functions : published[f] \in Nat /\ published'[f] >= published[f]
    BY <1>0, <2>1, <2>2, <2>3 DEF CommandTypeOK
  <2>5. CommandTypeOK'
    BY <1>0, <2>1, <2>2, <2>3, AcceptedTyped DEF CommandTypeOK
  <2>6. call[h] = None
    BY <2>1 DEF CountInvariant, On
  <2>7. ASSUME NEW n \in topic', n.obj = "digitalinput", Uncounted(n.fn)
        PROVE  /\ n.value[DigitalInputCounter] \in Int
               /\ n.value[DigitalInputCounter] <= 10 * published'[n.fn]
    <3>1. CASE n \in topic
      <4>. DEFINE before == published[n.fn]
                  after  == published'[n.fn]
      <4>1. /\ n.fn \in Functions
            /\ n.value[DigitalInputCounter] \in Int
            /\ n.value[DigitalInputCounter] <= 10 * published[n.fn]
        BY <2>7, <3>1 DEF CountInvariant, CountsNoMore, TopicOK
      <4>2. before \in Nat /\ after \in Nat /\ after >= before
        BY <4>1, <2>3, <2>4
      <4>3. n.value[DigitalInputCounter] <= 10 * after
        BY <4>1, <4>2, TenTimes
      <4>. QED
        BY <4>1, <4>3
    <3>2. CASE n = m
      <4>1. n.fn = cmd.fn /\ n.obj = cmd.obj /\ n.value = Decorated(cmd, handler[h].count)
        BY <3>2 DEF NewMessageAccepted
      <4>2. cmd.value[DigitalInputCounter] = None
        BY <2>2, <2>7, <4>1 DEF Uncounted
      <4>3. n.value[DigitalInputCounter] = 10 * (handler[h].count + Number(cmd.state = TRUE))
        BY <2>2, <2>7, <4>1, <4>2
        DEF Decorated, CountWith, Command, Resources, DigitalInputCounter
      <4>4. Number(cmd.state = TRUE) <= Number(HasState(cmd))
        <5>1. CASE cmd.state = TRUE
          <6>1. HasState(cmd)
            BY <2>7, <4>1, <5>1, NoneAssumption DEF HasState
          <6>. QED
            BY <5>1, <6>1 DEF Number
        <5>2. CASE cmd.state # TRUE
          <6>1. Number(cmd.state = TRUE) = 0 /\ Number(HasState(cmd)) \in {0, 1}
            BY <5>2 DEF Number
          <6>. QED
            BY <6>1
        <5>. QED
          BY <5>1, <5>2
      <4>5. published'[n.fn] = published[cmd.fn] + Number(HasState(cmd))
        BY <1>0, <2>1, <2>2, <4>1 DEF CommandTypeOK
      <4>6. Number(cmd.state = TRUE) \in Nat /\ Number(HasState(cmd)) \in Nat
        BY NumberIsNat
      <4>. QED
        BY <2>2, <4>1, <4>3, <4>4, <4>5, <4>6
    <3>. QED
      BY <2>1, <3>1, <3>2
  <2>8. \A k \in URLs : items'[k] # None => items'[k].value <= published'[k[1]]
    <3>. SUFFICES ASSUME NEW k \in URLs, items[k] # None
                  PROVE  items[k].value <= published'[k[1]]
      BY <2>1
    <3>1. k[1] \in Functions /\ items[k] \in Cache!Item /\ items[k].value <= published[k[1]]
      BY <1>0 DEF URLs, CommandTypeOK, CountInvariant
    <3>. QED
      BY <3>1, <2>3, <2>4 DEF Cache!Item
  <2>9. ASSUME NEW g \in Handlers \ {h}
        PROVE  /\ handler'[g] = handler[g]
               /\ handler[g] # None => handler[g].count <= published'[Device(g)]
               /\ call[g] # None /\ call[g].step \in {"answered", "served"} =>
                     call[g].value <= published'[Device(g)]
    <3>1. handler'[g] = handler[g]
      BY <1>0, <2>1 DEF CommandTypeOK
    <3>2. handler[g] # None => handler[g].count <= published'[Device(g)]
      BY <1>0, <2>3, <2>4, HandlerFields DEF CountInvariant
    <3>3. call[g] # None /\ call[g].step \in {"answered", "served"} =>
             call[g].value <= published'[Device(g)]
      BY <1>0, <2>3, <2>4, HandlerFields, RequestFields DEF CountInvariant, On
    <3>. QED
      BY <3>1, <3>2, <3>3
  <2>10. \A f \in Functions : stored'[f] <= published'[f]
    BY <1>0, <2>1, <2>3, <2>4 DEF CountInvariant, CommandTypeOK
  <2>11. CountsNoMore'
    BY <2>7 DEF CountsNoMore, Uncounted
  <2>16. TopicOK'
    <3>1. m.fn \in Functions
      BY <2>2 DEF NewMessageAccepted
    <3>. QED
      BY <2>1, <2>7, <3>1 DEF TopicOK, CountInvariant, Uncounted
  <2>12. handler'[h] = None
    BY <1>0, <2>1 DEF CommandTypeOK
  <2>13. ClockOK'
    BY <1>0, <2>1 DEF ClockOK
  <2>14. ASSUME NEW g \in Handlers, call'[g] # None
         PROVE  /\ On(g, "wait")'
                /\ call'[g].key[1] = Device(g)'
                /\ call'[g].step \in {"answered", "served"} =>
                      call'[g].value <= published'[Device(g)']
    BY <2>1, <2>6, <2>9, <2>14 DEF CountInvariant, On, Device
  <2>15. ASSUME NEW g \in Handlers, handler'[g] # None
         PROVE  handler'[g].count <= published'[Device(g)']
    BY <2>9, <2>12, <2>15 DEF Device
  <2>. QED
    BY <2>5, <2>8, <2>10, <2>11, <2>13, <2>14, <2>15, <2>16 DEF CountInvariant
<1>9. CASE AcceptedNotPublished(h)
  <2>1. /\ UNCHANGED << now, items, call, topic, published, stored, lastAsk, received >>
        /\ On(h, "publish")
        /\ handler' = [handler EXCEPT ![h] = None]
    BY <1>9 DEF AcceptedNotPublished, Return
  <2>2. call[h] = None
    BY <2>1 DEF CountInvariant, On
  <2>. QED
    BY <1>0, <2>1, <2>2 DEF CountInvariant, ClockOK, CountsNoMore, TopicOK, On, Device, CommandTypeOK
<1>. QED
  BY <1>1, <1>2, <1>3, <1>4, <1>5, <1>6, <1>7, <1>8, <1>9 DEF HandleCommand
-----------------------------------------------------------------------------
LEMMA CountStep ==
    ASSUME CountInvariant, [CommandNext]_everything
    PROVE  CountInvariant'
<1>. USE CommandAssumption, EngineAssumption
<1>0. ClockOK /\ CommandTypeOK
  BY DEF CountInvariant
<1>1. CASE Tick /\ UNCHANGED commandVars
  BY <1>1, <1>0, EngineElsewhere DEF Tick, ClockOK
<1>2. CASE CommandRestart
  <2>1. /\ UNCHANGED << now, topic, published, stored, lastAsk, received >>
        /\ items' = [k \in URLs |-> None]
        /\ call' = [h \in Handlers |-> None]
        /\ handler' = [h \in Handlers |-> None]
    BY <1>2 DEF CommandRestart, Restart
  <2>. QED
    BY <1>0, <2>1 DEF CountInvariant, ClockOK, CommandTypeOK, CountsNoMore, TopicOK
<1>3. ASSUME NEW f \in Functions, Ingest(f)
      PROVE  CountInvariant'
  <2>1. /\ UNCHANGED << now, items, call, handler, topic, published, lastAsk, received >>
        /\ stored[f] < published[f]
        /\ stored' = [stored EXCEPT ![f] = @ + 1]
    BY <1>3 DEF Ingest, vars
  <2>2. CommandTypeOK' /\ \A g \in Functions : stored'[g] <= published'[g]
    BY <1>0, <2>1 DEF CommandTypeOK, CountInvariant
  <2>. QED
    BY <1>0, <2>1, <2>2 DEF CountInvariant, ClockOK, CountsNoMore, TopicOK, On, Device
<1>4. ASSUME NEW h \in Handlers, Deliver(h) \/ HandleCommand(h)
      PROVE  CountInvariant'
  BY <1>4, HandlerStep
<1>5. ASSUME NEW w \in Workers, ReceiveFromTopic(w)
      PROVE  CountInvariant'
  BY <1>5, <1>0, EngineElsewhere, EngineClock DEF ReceiveFromTopic, ClockOK
<1>6. ASSUME NEW w \in Workers, Lock(w) \/ Proceed(w), UNCHANGED commandVars
      PROVE  CountInvariant'
  BY <1>6, <1>0, EngineElsewhere, EngineClock DEF ClockOK
<1>7. CASE UNCHANGED everything
  BY <1>7, <1>0, EngineElsewhere DEF everything, vars, ClockOK
<1>. QED
  BY <1>1, <1>2, <1>3, <1>4, <1>5, <1>6, <1>7 DEF CommandNext

LEMMA CountInit == CommandInit => CountInvariant
<1>. USE CommandAssumption, EngineAssumption
<1>1. CommandInit => ClockOK
  BY DEF CommandInit, Init, ClockOK
<1>2. CommandInit => CommandTypeOK
  BY DEF CommandInit, CommandTypeOK
<1>. QED
  BY <1>1, <1>2 DEF CommandInit, CountInvariant, CountsNoMore, TopicOK

(* The command path is typed: in particular every message it publishes is    *)
(* one that the engine is made for.                                          *)
THEOREM CommandTypeCorrect == CommandSpec => []CommandTypeOK
<1>1. CountInvariant /\ [CommandNext]_everything => CountInvariant'
  BY CountStep
<1>2. CountInvariant => CommandTypeOK
  BY DEF CountInvariant
<1>. QED
  BY <1>1, <1>2, CountInit, PTL DEF CommandSpec, everything

(* No count on the topic is more than the number of times the sensor was on  *)
(* in an accepted message, for any handlers, sensors and commands, whatever  *)
(* fails and whatever is delivered again.                                    *)
THEOREM CountsNoMoreHolds == CommandSpec => []CountsNoMore
<1>1. CountInvariant /\ [CommandNext]_everything => CountInvariant'
  BY CountStep
<1>2. CountInvariant => CountsNoMore
  BY DEF CountInvariant
<1>. QED
  BY <1>1, <1>2, CountInit, PTL DEF CommandSpec, everything
-----------------------------------------------------------------------------
(* What keeps the answer of an earlier message from a later one: nothing in *)
(* the cache is for a second after the last question about its device, and  *)
(* what the service had counted when it was asked is in its answer.         *)
FloorOK(h) ==
    handler[h] # None =>
        /\ handler[h].floor <= stored[Device(h)]
        /\ handler[h].step = "lookup" => handler[h].floor = 0
        /\ handler[h].step = "publish" => handler[h].count >= handler[h].floor
        /\ call[h] # None =>
              /\ call[h].key[2] <= lastAsk[Device(h)]
              /\ call[h].step \in {"answered", "served"} => call[h].value >= handler[h].floor

AskedBefore ==
    /\ \A f \in Functions : lastAsk[f] <= now
    /\ \A k \in URLs : items[k] # None => k[2] <= lastAsk[k[1]]

FloorInvariant == AskedBefore /\ \A h \in Handlers : FloorOK(h)

(* The service only ever counts more, and the last question is only ever    *)
(* followed by later ones.                                                  *)
Onward ==
    \A f \in Functions : stored[f] <= stored'[f] /\ lastAsk[f] <= lastAsk'[f]

(* A handler that does nothing is not disturbed by what the others do. *)
LEMMA FloorKept ==
    ASSUME CountInvariant, CommandTypeOK', Onward, NEW h \in Handlers, FloorOK(h),
           handler'[h] = handler[h], call'[h] = call[h]
    PROVE  FloorOK(h)'
<1>. SUFFICES ASSUME handler[h] # None
              PROVE  FloorOK(h)'
  BY DEF FloorOK
<1>. DEFINE f == Device(h)
<1>1. f \in Functions /\ handler[h].floor \in Nat /\ Device(h)' = f
  BY HandlerFields DEF CountInvariant, Device
<1>2. /\ stored[f] \in Nat /\ stored'[f] \in Nat /\ stored[f] <= stored'[f]
      /\ lastAsk[f] \in Nat /\ lastAsk'[f] \in Nat /\ lastAsk[f] <= lastAsk'[f]
  BY <1>1 DEF CountInvariant, CommandTypeOK, Onward
<1>3. handler[h].floor <= stored'[f]
  BY <1>1, <1>2 DEF FloorOK
<1>4. call[h] # None => call[h].key[2] <= lastAsk'[f]
  BY <1>2, RequestFields DEF FloorOK, CountInvariant, URLs
<1>. QED
  BY <1>1, <1>3, <1>4 DEF FloorOK

(* A step of a handler that asks nothing and leaves the cache alone. *)
LEMMA FloorStep ==
    ASSUME CountInvariant, FloorInvariant, CommandTypeOK', NEW h \in Handlers,
           UNCHANGED << now, items, stored, lastAsk >>, FloorOK(h)',
           \A g \in Handlers \ {h} : handler'[g] = handler[g] /\ call'[g] = call[g]
    PROVE  FloorInvariant'
<1>1. Onward
  BY DEF Onward, CountInvariant, CommandTypeOK
<1>2. AskedBefore'
  BY DEF FloorInvariant, AskedBefore
<1>3. ASSUME NEW g \in Handlers \ {h}
      PROVE  FloorOK(g)'
  BY <1>1, <1>3, FloorKept DEF FloorInvariant
<1>. QED
  BY <1>2, <1>3 DEF FloorInvariant

(* A question in a second of its own finds nothing in the cache, so that its *)
(* answer is still to be made; one in a second that has been asked about     *)
(* before is promised nothing.                                               *)
LEMMA FloorAsk ==
    ASSUME CountInvariant, FloorInvariant, CommandTypeOK', NEW h \in Handlers, AskCount(h)
    PROVE  FloorInvariant'
<1>. DEFINE f == Device(h)
            n == IF lastAsk[f] = now THEN 0 ELSE stored[f]
<1>0. ClockOK /\ CommandTypeOK
  BY DEF CountInvariant
<1>1. /\ UNCHANGED << now, items, stored >>
      /\ On(h, "count")
      /\ lastAsk' = [lastAsk EXCEPT ![f] = now]
      /\ handler' = [handler EXCEPT ![h].step = "wait", ![h].floor = n]
      /\ call[h] = None
  BY DEF AskCount, vars, Cache!Hit, Cache!Miss
<1>2. /\ f \in Functions /\ now \in Nat
      /\ stored[f] \in Nat /\ lastAsk[f] \in Nat /\ lastAsk[f] <= now
      /\ Url(f) \in URLs /\ Url(f)[1] = f /\ Url(f)[2] = now
  BY <1>0, <1>1, HandlerFields, UrlTyped
  DEF On, ClockOK, CommandTypeOK, Url, FloorInvariant, AskedBefore
<1>3. Onward
  BY <1>0, <1>1, <1>2 DEF Onward, CommandTypeOK
<1>4. AskedBefore'
  <2>1. \A g \in Functions : lastAsk'[g] <= now'
    BY <1>0, <1>1, <1>2 DEF CommandTypeOK, FloorInvariant, AskedBefore
  <2>2. ASSUME NEW k \in URLs, items[k] # None
        PROVE  k[2] <= lastAsk'[k[1]]
    <3>1. k[1] \in Functions /\ k[2] \in Nat /\ k[2] <= lastAsk[k[1]]
      BY <2>2 DEF URLs, FloorInvariant, AskedBefore
    <3>2. lastAsk[k[1]] \in Nat /\ lastAsk'[k[1]] \in Nat /\ lastAsk[k[1]] <= lastAsk'[k[1]]
      BY <1>0, <1>3, <3>1 DEF CommandTypeOK, Onward
    <3>. QED
      BY <3>1, <3>2
  <2>. QED
    BY <1>1, <2>1, <2>2 DEF AskedBefore
<1>5. /\ handler[h] \in Handler /\ handler[h] # None
      /\ handler'[h] = [handler[h] EXCEPT !.step = "wait", !.floor = n]
  BY <1>0, <1>1, HandlerFields DEF On, CommandTypeOK
<1>6. /\ Device(h)' = f
      /\ handler'[h].step = "wait"
      /\ handler'[h].floor = n
  BY <1>5 DEF Device, Handler
<1>7. call'[h].key = Url(f) /\ (call'[h].step \in {"answered", "served"} => n = 0 /\ call'[h].value \in Nat)
  <2>1. CASE Cache!Hit(h, Url(f))
    <3>1. items[Url(f)] # None /\ items[Url(f)].value \in Nat
      BY <1>0, <1>2, <2>1 DEF Cache!Hit, Cache!Live, CommandTypeOK, Cache!Item
    <3>2. now <= lastAsk[f]
      BY <1>2, <3>1 DEF FloorInvariant, AskedBefore
    <3>3. n = 0
      BY <1>2, <3>2
    <3>4. call'[h] = [key |-> Url(f), step |-> "served", at |-> now, value |-> items[Url(f)].value]
      BY <1>0, <2>1 DEF Cache!Hit, Cache!Served, CommandTypeOK
    <3>. QED
      BY <3>1, <3>3, <3>4
  <2>2. CASE Cache!Miss(h, Url(f))
    <3>1. call'[h] = [key |-> Url(f), step |-> "token"]
      BY <1>0, <2>2 DEF Cache!Miss, CommandTypeOK
    <3>. QED
      BY <3>1
  <2>. QED
    BY <2>1, <2>2 DEF AskCount
<1>8. FloorOK(h)'
  <2>1. n <= stored'[f] /\ Url(f)[2] <= lastAsk'[f]
    BY <1>0, <1>1, <1>2 DEF CommandTypeOK
  <2>. QED
    BY <1>6, <1>7, <2>1 DEF FloorOK
<1>9. ASSUME NEW g \in Handlers \ {h}
      PROVE  FloorOK(g)'
  <2>1. handler'[g] = handler[g]
    BY <1>0, <1>1 DEF CommandTypeOK
  <2>2. call'[g] = call[g]
    BY <1>0 DEF AskCount, Cache!Hit, Cache!Miss, Cache!Served, CommandTypeOK
  <2>. QED
    BY <1>3, <2>1, <2>2, FloorKept DEF FloorInvariant
<1>. QED
  BY <1>4, <1>8, <1>9 DEF FloorInvariant

(* The service answers with what it has counted by then. *)
LEMMA FloorFetch ==
    ASSUME CountInvariant, FloorInvariant, CommandTypeOK', NEW h \in Handlers, FetchCount(h)
    PROVE  FloorInvariant'
<1>. DEFINE f == Device(h)
<1>0. ClockOK /\ CommandTypeOK
  BY DEF CountInvariant
<1>1. /\ UNCHANGED << now, handler, stored, lastAsk >>
      /\ On(h, "wait")
      /\ call[h] # None
  BY DEF FetchCount, vars, Cache!GotToken, Cache!Answer, Cache!Fill, Cache!At
<1>2. /\ f \in Functions /\ stored[f] \in Nat
      /\ call[h].key \in URLs /\ call[h].key[1] = f
      /\ call[h].key[2] <= lastAsk[f]
      /\ handler[h].floor <= stored[f]
  BY <1>0, <1>1, HandlerFields, RequestFields
  DEF On, CommandTypeOK, CountInvariant, FloorInvariant, FloorOK
<1>3. /\ call'[h] # None => call'[h].key = call[h].key
      /\ call'[h].step \in {"answered", "served"} => call'[h].value >= handler[h].floor
  <2>1. CASE Cache!GotToken(h)
    <3>1. call'[h] = [key |-> call[h].key, step |-> "asked", since |-> now]
      BY <1>0, <2>1 DEF Cache!GotToken, CommandTypeOK
    <3>. QED
      BY <3>1
  <2>2. CASE Cache!Answer(h, stored[f])
    <3>1. call'[h] = [key |-> call[h].key, step |-> "answered", since |-> call[h].since,
                      value |-> stored[f]]
      BY <1>0, <2>2 DEF Cache!Answer, CommandTypeOK
    <3>2. handler[h].floor \in Nat
      BY <1>0, <1>1, HandlerFields DEF On
    <3>. QED
      BY <1>2, <3>1, <3>2
  <2>3. CASE Cache!Fill(h)
    <3>1. call'[h] = [key |-> call[h].key, step |-> "served", at |-> now,
                      value |-> call[h].value]
      BY <1>0, <2>3 DEF Cache!Fill, Cache!Served, CommandTypeOK
    <3>2. call[h].value >= handler[h].floor
      BY <1>1, <2>3 DEF Cache!Fill, Cache!At, FloorInvariant, FloorOK, On
    <3>. QED
      BY <3>1, <3>2
  <2>. QED
    BY <2>1, <2>2, <2>3 DEF FetchCount
<1>4. FloorOK(h)'
  BY <1>1, <1>2, <1>3 DEF FloorInvariant, FloorOK, On, Device
<1>5. AskedBefore'
  <2>1. ASSUME NEW k \in URLs, items'[k] # None
        PROVE  items[k] # None \/ k = call[h].key
    BY <1>0, <2>1 DEF FetchCount, Cache!GotToken, Cache!Answer, Cache!Fill, CommandTypeOK
  <2>. QED
    BY <1>1, <1>2, <2>1 DEF FloorInvariant, AskedBefore
<1>6. Onward
  BY <1>0, <1>1 DEF Onward, CommandTypeOK
<1>7. ASSUME NEW g \in Handlers \ {h}
      PROVE  FloorOK(g)'
  <2>1. call'[g] = call[g]
    BY <1>0 DEF FetchCount, Cache!GotToken, Cache!Answer, Cache!Fill, Cache!Served, CommandTypeOK
  <2>. QED
    BY <1>1, <1>6, <2>1, FloorKept DEF FloorInvariant
<1>. QED
  BY <1>4, <1>5, <1>7 DEF FloorInvariant

(* The other steps of a handler: it begins with nothing promised, and goes   *)
(* on to publish with the answer it got or, for want of one, with zero.      *)
LEMMA FloorHandler ==
    ASSUME CountInvariant, FloorInvariant, CommandTypeOK', NEW h \in Handlers,
           Deliver(h) \/ HandleCommand(h)
    PROVE  FloorInvariant'
<1>0. CommandTypeOK /\ FloorOK(h)
  BY DEF CountInvariant, FloorInvariant
<1>1. CASE Deliver(h)
  <2>1. PICK cmd \in Commands :
            handler' = [handler EXCEPT ![h] = [cmd |-> cmd, step |-> "lookup",
                                               count |-> 0, floor |-> 0]]
    BY <1>1 DEF Deliver
  <2>2. UNCHANGED << now, items, call, stored, lastAsk >> /\ call[h] = None
    BY <1>1 DEF Deliver, vars, CountInvariant, On
  <2>3. handler'[h] = [cmd |-> cmd, step |-> "lookup", count |-> 0, floor |-> 0]
    BY <1>0, <2>1 DEF CommandTypeOK
  <2>4. cmd.fn \in Functions /\ stored[cmd.fn] \in Nat
    BY <1>0, CommandAssumption DEF Command, CommandTypeOK
  <2>5. FloorOK(h)'
    BY <2>2, <2>3, <2>4 DEF FloorOK, Device
  <2>6. \A g \in Handlers \ {h} : handler'[g] = handler[g] /\ call'[g] = call[g]
    BY <1>0, <2>1, <2>2 DEF CommandTypeOK
  <2>. QED
    BY <2>2, <2>5, <2>6, FloorStep
<1>2. CASE FindDevice(h)
  <2>1. /\ UNCHANGED << now, items, call, stored, lastAsk >>
        /\ On(h, "lookup")
        /\ call[h] = None
    BY <1>2 DEF FindDevice, vars, CountInvariant, On
  <2>2. PICK step \in {"count", "publish"} :
            handler' = [handler EXCEPT ![h].step = step]
    BY <1>2 DEF FindDevice
  <2>3. handler[h] \in Handler /\ handler[h].count \in Nat /\ handler[h].floor = 0
        /\ Device(h) \in Functions /\ stored[Device(h)] \in Nat
    BY <1>0, <2>1, HandlerFields DEF On, FloorOK, CommandTypeOK
  <2>4. handler'[h] = [handler[h] EXCEPT !.step = step]
    BY <1>0, <2>2 DEF CommandTypeOK
  <2>5. /\ handler'[h].count = handler[h].count
        /\ handler'[h].floor = 0
        /\ handler'[h].step \in {"count", "publish"}
        /\ Device(h)' = Device(h)
    BY <2>3, <2>4 DEF Handler, Device
  <2>6. FloorOK(h)'
    BY <2>1, <2>3, <2>5 DEF FloorOK
  <2>7. \A g \in Handlers \ {h} : handler'[g] = handler[g] /\ call'[g] = call[g]
    BY <1>0, <2>1, <2>2 DEF CommandTypeOK
  <2>. QED
    BY <2>1, <2>6, <2>7, FloorStep
<1>3. CASE DeviceNotFound(h) \/ PublishAccepted(h) \/ AcceptedNotPublished(h)
  <2>1. /\ UNCHANGED << now, items, call, stored, lastAsk >>
        /\ handler' = [handler EXCEPT ![h] = None]
    BY <1>3 DEF DeviceNotFound, PublishAccepted, AcceptedNotPublished, Return, vars
  <2>2. FloorOK(h)' /\ \A g \in Handlers \ {h} : handler'[g] = handler[g] /\ call'[g] = call[g]
    BY <1>0, <2>1 DEF CommandTypeOK, FloorOK
  <2>. QED
    BY <2>1, <2>2, FloorStep
<1>4. CASE AskCount(h)
  BY <1>4, FloorAsk
<1>5. CASE FetchCount(h)
  BY <1>5, FloorFetch
<1>6. CASE GotCount(h)
  <2>1. /\ UNCHANGED << now, items, stored, lastAsk >>
        /\ On(h, "wait")
        /\ handler' = [handler EXCEPT ![h].step = "publish", ![h].count = call[h].value]
        /\ call' = [call EXCEPT ![h] = None]
        /\ call[h] # None /\ call[h].step = "served"
    BY <1>6 DEF GotCount, vars, Cache!Done, Cache!At
  <2>2. handler[h] \in Handler /\ handler[h] # None
    BY <1>0, <2>1, HandlerFields DEF On
  <2>3. handler'[h] = [handler[h] EXCEPT !.step = "publish", !.count = call[h].value]
    BY <1>0, <2>1 DEF CommandTypeOK
  <2>4. /\ handler'[h].count = call[h].value
        /\ handler'[h].floor = handler[h].floor
        /\ handler'[h].step = "publish"
        /\ Device(h)' = Device(h)
    BY <2>2, <2>3 DEF Handler, Device
  <2>5. call'[h] = None /\ \A g \in Handlers \ {h} : handler'[g] = handler[g] /\ call'[g] = call[g]
    BY <1>0, <2>1 DEF CommandTypeOK
  <2>6. FloorOK(h)'
    BY <1>0, <2>1, <2>2, <2>4, <2>5 DEF FloorOK
  <2>. QED
    BY <2>1, <2>5, <2>6, FloorStep
<1>7. CASE NoCount(h)
  <2>1. /\ UNCHANGED << now, items, stored, lastAsk >>
        /\ On(h, "wait")
        /\ handler' = [handler EXCEPT ![h].step = "publish", ![h].floor = 0]
        /\ call' = [call EXCEPT ![h] = None]
    BY <1>7 DEF NoCount, vars, Cache!Fail, Cache!Done
  <2>2. handler[h] \in Handler /\ handler[h].count \in Nat
        /\ Device(h) \in Functions /\ stored[Device(h)] \in Nat
    BY <1>0, <2>1, HandlerFields DEF On, CommandTypeOK
  <2>3. handler'[h] = [handler[h] EXCEPT !.step = "publish", !.floor = 0]
    BY <1>0, <2>1 DEF CommandTypeOK
  <2>4. /\ handler'[h].count = handler[h].count
        /\ handler'[h].floor = 0
        /\ handler'[h].step = "publish"
        /\ Device(h)' = Device(h)
    BY <2>2, <2>3 DEF Handler, Device
  <2>5. call'[h] = None /\ \A g \in Handlers \ {h} : handler'[g] = handler[g] /\ call'[g] = call[g]
    BY <1>0, <2>1 DEF CommandTypeOK
  <2>6. FloorOK(h)'
    BY <2>1, <2>2, <2>4, <2>5 DEF FloorOK
  <2>. QED
    BY <2>1, <2>5, <2>6, FloorStep
<1>. QED
  BY <1>1, <1>2, <1>3, <1>4, <1>5, <1>6, <1>7 DEF HandleCommand
-----------------------------------------------------------------------------
(* The clock only goes forward, and nobody is asked anything meanwhile. *)
LEMMA FloorElsewhere ==
    ASSUME CountInvariant, FloorInvariant, UNCHANGED commandVars,
           ClockOK', now <= now'
    PROVE  FloorInvariant'
<1>1. \A f \in Functions : lastAsk[f] \in Nat /\ lastAsk[f] <= now'
  BY EngineAssumption DEF CountInvariant, CommandTypeOK, ClockOK, FloorInvariant, AskedBefore
<1>. QED
  BY <1>1 DEF FloorInvariant, AskedBefore, FloorOK, Device, commandVars

(* FloorInvariant is inductive, given the types and owners of the requests. *)
LEMMA FloorNext ==
    ASSUME CountInvariant, FloorInvariant, [CommandNext]_everything
    PROVE  FloorInvariant'
<1>0. CountInvariant' /\ CommandTypeOK' /\ ClockOK' /\ ClockOK /\ CommandTypeOK
  BY CountStep DEF CountInvariant
<1>. DEFINE Forward == now <= now'
<1>1. CASE Tick /\ UNCHANGED commandVars
  <2>1. Forward
    BY <1>0, <1>1, EngineAssumption DEF Tick, ClockOK
  <2>. QED
    BY <1>0, <1>1, <2>1, FloorElsewhere
<1>2. CASE CommandRestart
  <2>1. /\ UNCHANGED << now, stored, lastAsk >>
        /\ items' = [k \in URLs |-> None]
        /\ handler' = [h \in Handlers |-> None]
    BY <1>2 DEF CommandRestart, Restart
  <2>. QED
    BY <2>1 DEF FloorInvariant, AskedBefore, FloorOK
<1>3. ASSUME NEW f \in Functions, Ingest(f)
      PROVE  FloorInvariant'
  <2>1. /\ UNCHANGED << now, items, call, handler, lastAsk >>
        /\ stored' = [stored EXCEPT ![f] = @ + 1]
    BY <1>3 DEF Ingest, vars
  <2>2. Onward
    BY <1>0, <2>1 DEF Onward, CommandTypeOK
  <2>3. \A h \in Handlers : FloorOK(h)'
    BY <1>0, <2>1, <2>2, FloorKept DEF FloorInvariant
  <2>. QED
    BY <2>1, <2>3 DEF FloorInvariant, AskedBefore
<1>4. ASSUME NEW h \in Handlers, Deliver(h) \/ HandleCommand(h)
      PROVE  FloorInvariant'
  BY <1>0, <1>4, FloorHandler
<1>5. CASE now' = now /\ UNCHANGED commandVars
  <2>1. Forward
    BY <1>0, <1>5, EngineAssumption DEF ClockOK
  <2>. QED
    BY <1>0, <1>5, <2>1, FloorElsewhere
<1>6. ASSUME NEW w \in Workers, ReceiveFromTopic(w)
      PROVE  FloorInvariant'
  BY <1>5, <1>6, EngineClock DEF ReceiveFromTopic
<1>7. ASSUME NEW w \in Workers, Lock(w) \/ Proceed(w), UNCHANGED commandVars
      PROVE  FloorInvariant'
  BY <1>5, <1>7, EngineClock
<1>8. CASE UNCHANGED everything
  BY <1>5, <1>8 DEF everything, vars
<1>. QED
  BY <1>1, <1>2, <1>3, <1>4, <1>6, <1>7, <1>8 DEF CommandNext

(* No handler publishes a count older than its own question unless the       *)
(* device was asked about within the same second already, for any handlers,  *)
(* any times to live and whatever is slow, lost or started again.            *)
THEOREM FreshCountHolds == CommandSpec => []FreshCount
<1>1. CommandInit => CountInvariant /\ FloorInvariant
  BY CountInit, EngineAssumption
  DEF CommandInit, Init, FloorInvariant, AskedBefore, FloorOK
<1>2. CountInvariant /\ FloorInvariant /\ [CommandNext]_everything =>
          CountInvariant' /\ FloorInvariant'
  BY CountStep, FloorNext
<1>3. FloorInvariant => FreshCount
  BY DEF FloorInvariant, FloorOK, FreshCount, On
<1>. QED
  BY <1>1, <1>2, <1>3, PTL DEF CommandSpec, everything
-----------------------------------------------------------------------------
(* A counter whose sensor leaves the counting to the measurements service. *)
Counting(f) == Type[f] = "counter" /\ Uncounted(f)

WritesBelow(writes, n) == \A i \in DOMAIN writes : writes[i].then.count <= n

(* What a worker has in its hands came from the topic, and neither the      *)
(* memory of a counter nor what a call under way will make of it is above   *)
(* what has been published.                                                 *)
TallyInvariant ==
    /\ \A w \in Workers : pc[w] # "idle" => msg[w] \in topic
    /\ \A f \in Functions : Counting(f) => mem[f].count <= published[f]
    /\ \A w \in Workers :
          Handling(w) /\ Counting(Fn(w)) => WritesBelow(run[w].writes, published[Fn(w)])

(* The topic and the number of messages on it only grow. *)
Growing ==
    /\ topic \subseteq topic'
    /\ \A f \in Functions : published[f] <= published'[f]

(* No step takes a message back. *)
LEMMA TopicGrows ==
    ASSUME CommandTypeOK, [CommandNext]_everything
    PROVE  Growing
<1>1. CASE topic' = topic /\ published' = published
  BY <1>1 DEF Growing, CommandTypeOK
<1>2. ASSUME NEW h \in Handlers, Deliver(h) \/ HandleCommand(h)
      PROVE  Growing
  <2>1. CASE PublishAccepted(h)
    <3>. DEFINE cmd == handler[h].cmd
                n == Number(HasState(cmd))
    <3>1. cmd.fn \in Functions /\ n \in Nat
      BY <2>1, HandlerFields, NumberIsNat DEF PublishAccepted, On, Command
    <3>. HIDE DEF n
    <3>2. /\ topic \subseteq topic'
          /\ published' = [published EXCEPT ![cmd.fn] = @ + n]
      BY <2>1 DEF PublishAccepted, n
    <3>. QED
      BY <3>1, <3>2 DEF Growing, CommandTypeOK
  <2>2. CASE ~PublishAccepted(h)
    BY <1>1, <1>2, <2>2 DEF HandleCommand, Deliver, FindDevice, DeviceNotFound, AskCount,
       FetchCount, GotCount, NoCount, AcceptedNotPublished
  <2>. QED
    BY <2>1, <2>2
<1>3. CASE CommandRestart \/ \E f \in Functions : Ingest(f)
  BY <1>1, <1>3 DEF CommandRestart, Ingest
<1>. QED
  BY <1>1, <1>2, <1>3 DEF CommandNext, ReceiveFromTopic, everything, commandVars

(* A handler leaves the engine alone; a publication that fails is counted. *)
LEMMA HandlerElsewhere ==
    ASSUME NEW h \in Handlers, Deliver(h) \/ HandleCommand(h)
    PROVE  /\ UNCHANGED << now, mu, pc, msg, run, mem, stamp, meta, history, registered,
                           updates, synced, deliveries, restarts >>
           /\ faults' = faults \/ faults' = faults + 1
BY DEF Deliver, HandleCommand, FindDevice, DeviceNotFound, AskCount, FetchCount, GotCount,
       NoCount, PublishAccepted, AcceptedNotPublished, Fault, vars, process
-----------------------------------------------------------------------------
(* A step of the path and the engine together keeps the engine's types. *)
LEMMA EngineTypedStep ==
    ASSUME TypeOK, [CommandNext]_everything
    PROVE  TypeOK'
<1>1. CASE Tick
  BY <1>1, TickTyped
<1>2. CASE CommandRestart
  BY <1>2, RestartTyped DEF CommandRestart
<1>3. ASSUME NEW h \in Handlers, Deliver(h) \/ HandleCommand(h)
      PROVE  TypeOK'
  BY <1>3, HandlerElsewhere DEF TypeOK, Handling, Fn
<1>4. ASSUME NEW w \in Workers, ReceiveFromTopic(w)
      PROVE  TypeOK'
  BY <1>4, ReceiveTyped DEF ReceiveFromTopic
<1>5. ASSUME NEW w \in Workers, Lock(w)
      PROVE  TypeOK'
  BY <1>5, IgnoreTyped, StartHandleTyped DEF Lock
<1>6. ASSUME NEW w \in Workers, Proceed(w)
      PROVE  TypeOK'
  BY <1>6, StoreStampTyped, StoreTyped, StoreFailsTyped, ReturnErrorTyped, ReturnSilentlyTyped,
     PublishTyped, PublishFailsTyped DEF Proceed
<1>7. CASE UNCHANGED vars
  BY <1>7 DEF TypeOK, vars, Handling, Fn
<1>. QED
  BY <1>1, <1>2, <1>3, <1>4, <1>5, <1>6, <1>7 DEF CommandNext, Ingest, everything

(* The engine keeps its types on whatever the handlers of commands publish, *)
(* also when they and the engine share the faults of the broker.            *)
THEOREM EngineTypeCorrect == CommandSpec => []TypeOK
<1>1. CommandInit => TypeOK
  BY InitTyped DEF CommandInit
<1>2. TypeOK /\ [CommandNext]_everything => TypeOK'
  BY EngineTypedStep
<1>. QED
  BY <1>1, <1>2, PTL DEF CommandSpec, everything
-----------------------------------------------------------------------------
(* The count in tenths is taken over as a whole number. *)
LEMMA CeilBelow ==
    ASSUME NEW v \in Int, NEW n \in Nat, v <= 10 * n
    PROVE  Ceil(v) <= n
BY DEF Ceil

(* A counter takes over the count in the message, and nothing else counts:  *)
(* the handler never gets to add an edge of its own.                        *)
LEMMA CounterBelow ==
    ASSUME NEW s \in CounterMem, NEW m \in Message, NEW n \in Nat,
           s.count <= n,
           m.obj = "digitalinput" =>
               m.value[DigitalInputCounter] \in Int /\ m.value[DigitalInputCounter] <= 10 * n
    PROVE  /\ CounterHandle(s, m).begin.count <= n
           /\ WritesBelow(CounterHandle(s, m).writes, n)
<1>. DEFINE r == CounterHandle(s, m)
            new == Counted(s, m)
            rows == CounterRows(s, new, m)
<1>1. CASE m.obj # "digitalinput" \/ m.state = None
  <2>1. r.begin = s /\ r.writes = << >>
    BY <1>1 DEF CounterHandle, Rejected, Unchanged, Run
  <2>. QED
    BY <2>1 DEF WritesBelow
<1>2. CASE m.obj = "digitalinput" /\ m.state # None
  <2>1. r.begin = new /\ r.writes = rows
    BY <1>2 DEF CounterHandle, Run
  <2>2. new.count = Ceil(m.value[DigitalInputCounter])
    BY <1>2, NoneAssumption DEF Counted
  <2>3. new.count <= n
    BY <1>2, <2>2, CeilBelow
  <2>4. ASSUME NEW i \in DOMAIN rows
        PROVE  rows[i].then = new
    BY DEF CounterRows, OnChange
  <2>. QED
    BY <2>1, <2>3, <2>4 DEF WritesBelow
<1>. QED
  BY <1>1, <1>2

(* A bound may be raised. *)
LEMMA BelowMore ==
    ASSUME NEW n \in Nat, NEW k \in Nat, n <= k,
           NEW writes \in Seq(Writes(CounterMem)), WritesBelow(writes, n)
    PROVE  WritesBelow(writes, k)
<1>1. \A i \in DOMAIN writes : writes[i] \in Writes(CounterMem)
  OBVIOUS
<1>2. \A i \in DOMAIN writes : writes[i].then.count \in Int
  BY <1>1 DEF Writes, CounterMem
<1>. QED
  BY <1>2 DEF WritesBelow

(* A bound on all the writes bounds the first and the others. *)
LEMMA BelowHead ==
    ASSUME NEW n, NEW W, NEW writes \in Seq(W), writes # << >>, WritesBelow(writes, n)
    PROVE  Head(writes).then.count <= n /\ WritesBelow(Tail(writes), n)
BY HeadTailProperties, EmptySeq DEF WritesBelow

(* What is published while a worker waits does not unsettle what it holds. *)
LEMMA TallyKept ==
    ASSUME TypeOK, CommandTypeOK, CommandTypeOK', TallyInvariant, Growing,
           UNCHANGED << pc, msg, run, mem >>
    PROVE  TallyInvariant'
<1>0. \A f \in Functions : published[f] \in Nat /\ published'[f] \in Nat
                           /\ published[f] <= published'[f]
  BY DEF Growing, CommandTypeOK
<1>1. \A w \in Workers : pc'[w] # "idle" => msg'[w] \in topic'
  BY DEF TallyInvariant, Growing
<1>2. ASSUME NEW f \in Functions, Counting(f)
      PROVE  mem'[f].count <= published'[f]
  <2>1. mem[f] \in CounterMem /\ mem[f].count <= published[f]
    BY <1>2 DEF TypeOK, Counting, Memory, TallyInvariant
  <2>. QED
    BY <1>0, <2>1 DEF CounterMem
<1>3. ASSUME NEW w \in Workers, Handling(w), Counting(Fn(w))
      PROVE  WritesBelow(run'[w].writes, published'[Fn(w)])
  <2>1. Fn(w) \in Functions /\ run[w].writes \in Seq(Writes(CounterMem))
    BY <1>3, HandlingTyped DEF Pending, Counting, Memory
  <2>. QED
    BY <1>0, <1>3, <2>1, BelowMore DEF TallyInvariant
<1>. QED
  BY <1>1, <1>2, <1>3 DEF TallyInvariant, Handling, Fn, Counting, Uncounted

(* The handler is given a message of the topic. *)
LEMMA TallyStart ==
    ASSUME TypeOK, CommandTypeOK, CountsNoMore, TopicOK, TallyInvariant,
           UNCHANGED << topic, published >>, NEW w \in Workers, StartHandle(w)
    PROVE  TallyInvariant'
<1>. DEFINE f == Fn(w)
            m == msg[w]
            r == Handle(Type[f], mem[f], m, now)
<1>1. /\ pc[w] = "waiting" /\ UNCHANGED msg
      /\ pc' = [pc EXCEPT ![w] = "handling"]
      /\ mem' = [mem EXCEPT ![f] = r.begin]
      /\ run' = [run EXCEPT ![w] =
                    [entry |-> mem[f], writes |-> r.writes, rows |-> {},
                     outcome |-> r.outcome, onerr |-> r.onerr, failed |-> FALSE]]
  BY DEF StartHandle
<1>2. m \in topic /\ m \in Message /\ f \in Functions /\ published[f] \in Nat
  BY <1>1 DEF TallyInvariant, TypeOK, TopicOK, Fn, CommandTypeOK
<1>3. Counting(f) => r.begin.count <= published[f] /\ WritesBelow(r.writes, published[f])
  <2>. SUFFICES ASSUME Counting(f)
                PROVE  r.begin.count <= published[f] /\ WritesBelow(r.writes, published[f])
    OBVIOUS
  <2>1. mem[f] \in CounterMem /\ mem[f].count <= published[f] /\ r = CounterHandle(mem[f], m)
    BY <1>2 DEF Counting, TypeOK, Memory, TallyInvariant, Handle
  <2>2. m.obj = "digitalinput" =>
           /\ m.value[DigitalInputCounter] \in Int
           /\ m.value[DigitalInputCounter] <= 10 * published[f]
    BY <1>2 DEF Counting, CountsNoMore, TopicOK, Fn
  <2>. QED
    BY <1>2, <2>1, <2>2, CounterBelow
<1>. HIDE DEF r
<1>4. \A v \in Workers : pc'[v] # "idle" => msg'[v] \in topic
  BY <1>1, <1>2 DEF TallyInvariant, TypeOK
<1>5. \A g \in Functions : Counting(g) => mem'[g].count <= published[g]
  BY <1>1, <1>2, <1>3 DEF TallyInvariant, TypeOK
<1>6. run'[w].writes = r.writes /\ \A v \in Workers \ {w} : run'[v] = run[v] /\ pc'[v] = pc[v]
  BY <1>1 DEF TypeOK
<1>7. ASSUME NEW v \in Workers, Handling(v)', Counting(Fn(v))
      PROVE  WritesBelow(run'[v].writes, published[Fn(v)])
  BY <1>3, <1>6, <1>7 DEF TallyInvariant, Handling
<1>. QED
  BY <1>1, <1>4, <1>5, <1>7 DEF TallyInvariant, Counting, Uncounted, Fn

(* A write that was made, or that failed without stopping the handler, and  *)
(* a return: the memory follows the writes, and nothing is added to them.   *)
LEMMA TallyProceed ==
    ASSUME TypeOK, TallyInvariant,
           UNCHANGED << topic, published >>, NEW w \in Workers, Proceed(w)
    PROVE  TallyInvariant'
<1>. DEFINE f == Fn(w)
<1>1. CASE Unlock(w) /\ UNCHANGED mem
  <2>1. /\ pc' = [pc EXCEPT ![w] = "idle"]
        /\ msg' = [msg EXCEPT ![w] = None]
        /\ run' = [run EXCEPT ![w] = None]
    BY <1>1 DEF Unlock
  <2>. QED
    BY <1>1, <2>1 DEF TallyInvariant, TypeOK, Handling, Fn, Counting, Uncounted
<1>2. CASE /\ NextWrite(w) /\ UNCHANGED << pc, msg >>
           /\ mem' = [mem EXCEPT ![f] = Head(run[w].writes).then]
           /\ \E rows, failed : run' = [run EXCEPT ![w].writes = Tail(@), ![w].rows = rows,
                                                   ![w].failed = failed]
  <2>. DEFINE writes == run[w].writes
  <2>1. /\ Handling(w) /\ f \in Functions
        /\ writes \in Seq(Writes(Memory(Type[f]))) /\ writes # << >>
        /\ run[w] \in Pending(Memory(Type[f]))
    BY <1>2, HandlingTyped DEF NextWrite, Pending
  <2>2. Counting(f) => /\ Head(writes).then.count <= published[f]
                       /\ WritesBelow(Tail(writes), published[f])
    BY <2>1, BelowHead DEF TallyInvariant
  <2>3. run'[w].writes = Tail(writes)
    BY <1>2, <2>1 DEF TypeOK, Pending
  <2>4. \A v \in Workers \ {w} : run'[v] = run[v]
    BY <1>2 DEF TypeOK
  <2>5. \A g \in Functions : Counting(g) => mem'[g].count <= published[g]
    BY <1>2, <2>1, <2>2 DEF TallyInvariant, TypeOK
  <2>6. ASSUME NEW v \in Workers, Handling(v), Counting(Fn(v))
        PROVE  WritesBelow(run'[v].writes, published[Fn(v)])
    BY <2>2, <2>3, <2>4, <2>6 DEF TallyInvariant
  <2>. QED
    BY <1>2, <2>5, <2>6 DEF TallyInvariant, Handling, Fn, Counting, Uncounted
<1>3. CASE Store(w)
  <2>1. /\ NextWrite(w) /\ UNCHANGED << pc, msg >>
        /\ mem' = [mem EXCEPT ![f] = Head(run[w].writes).then]
        /\ run' = [run EXCEPT ![w].writes = Tail(@), ![w].rows = @ \cup {Len(history[f]) + 1}]
    BY <1>3 DEF Store, StoreRow
  <2>2. run[w] \in Pending(Memory(Type[f]))
    BY <2>1, HandlingTyped DEF NextWrite
  <2>3. run' = [run EXCEPT ![w].writes = Tail(@),
                           ![w].rows = run[w].rows \cup {Len(history[f]) + 1},
                           ![w].failed = run[w].failed]
    BY <2>1, <2>2 DEF TypeOK, Pending
  <2>. QED
    BY <1>2, <2>1, <2>3
<1>4. CASE StoreFails(w)
  <2>1. CASE run[w].onerr = "stop"
    BY <1>1, <1>4, <2>1 DEF StoreFails
  <2>2. CASE run[w].onerr # "stop"
    <3>1. /\ NextWrite(w) /\ UNCHANGED << pc, msg >>
          /\ mem' = [mem EXCEPT ![f] = Head(run[w].writes).then]
          /\ run' = [run EXCEPT ![w].writes = Tail(@),
                                ![w].failed = @ \/ run[w].onerr = "join"]
      BY <1>4, <2>2 DEF StoreFails
    <3>2. run[w] \in Pending(Memory(Type[f]))
      BY <3>1, HandlingTyped DEF NextWrite
    <3>3. run' = [run EXCEPT ![w].writes = Tail(@),
                             ![w].rows = run[w].rows,
                             ![w].failed = run[w].failed \/ run[w].onerr = "join"]
      BY <3>1, <3>2 DEF TypeOK, Pending
    <3>. QED
      BY <1>2, <3>1, <3>3
  <2>. QED
    BY <2>1, <2>2
<1>5. CASE ReturnError(w) \/ ReturnSilently(w) \/ Publish(w) \/ PublishFails(w)
  BY <1>1, <1>5 DEF ReturnError, ReturnSilently, Publish, PublishFails
<1>. QED
  BY <1>3, <1>4, <1>5 DEF Proceed
-----------------------------------------------------------------------------
(* TallyInvariant is inductive, given the counts of the command path. *)
LEMMA TallyStep ==
    ASSUME TypeOK, CountInvariant, TallyInvariant, [CommandNext]_everything
    PROVE  TallyInvariant'
<1>0. CommandTypeOK /\ CommandTypeOK' /\ CountsNoMore /\ TopicOK /\ Growing
  BY CountStep, TopicGrows DEF CountInvariant
<1>1. CASE UNCHANGED << pc, msg, run, mem >>
  BY <1>0, <1>1, TallyKept
<1>2. CASE CommandRestart
  <2>1. /\ pc' = [w \in Workers |-> "idle"]
        /\ published' = published
        /\ \E lost \in SUBSET Functions : mem' = [f \in Functions |-> Restored(f, lost)]
    BY <1>2 DEF CommandRestart, Restart
  <2>2. ASSUME NEW f \in Functions, Counting(f)
        PROVE  mem'[f].count = 0 /\ published'[f] \in Nat
    BY <1>0, <2>1, <2>2 DEF Restored, New, Counting, CounterNew, CommandTypeOK
  <2>. QED
    BY <2>1, <2>2 DEF TallyInvariant, Handling, Counting, Uncounted
<1>3. ASSUME NEW w \in Workers, ReceiveFromTopic(w)
      PROVE  TallyInvariant'
  <2>1. /\ pc[w] = "idle" /\ pc' = [pc EXCEPT ![w] = "waiting"]
        /\ msg'[w] \in topic
        /\ \E m \in Messages : msg' = [msg EXCEPT ![w] = m]
        /\ UNCHANGED << run, mem, topic, published >>
    BY <1>3 DEF ReceiveFromTopic, Receive, commandVars
  <2>2. \A v \in Workers \ {w} : pc'[v] = pc[v] /\ msg'[v] = msg[v]
    BY <2>1 DEF TypeOK
  <2>3. ~Handling(w)'
    BY <2>1 DEF TypeOK, Handling
  <2>. QED
    BY <2>1, <2>2, <2>3 DEF TallyInvariant, Handling, Fn, Counting, Uncounted
<1>4. ASSUME NEW w \in Workers, Ignore(w), UNCHANGED commandVars
      PROVE  TallyInvariant'
  <2>1. /\ pc' = [pc EXCEPT ![w] = "idle"] /\ msg' = [msg EXCEPT ![w] = None]
        /\ UNCHANGED << run, mem, topic, published >>
    BY <1>4 DEF Ignore, commandVars
  <2>2. \A v \in Workers \ {w} : pc'[v] = pc[v] /\ msg'[v] = msg[v]
    BY <2>1 DEF TypeOK
  <2>3. pc'[w] = "idle"
    BY <2>1 DEF TypeOK
  <2>. QED
    BY <2>1, <2>2, <2>3 DEF TallyInvariant, Handling, Fn, Counting, Uncounted
<1>5. ASSUME NEW w \in Workers, StartHandle(w), UNCHANGED commandVars
      PROVE  TallyInvariant'
  BY <1>0, <1>5, TallyStart DEF commandVars
<1>6. ASSUME NEW w \in Workers, Proceed(w), UNCHANGED commandVars
      PROVE  TallyInvariant'
  BY <1>6, TallyProceed DEF commandVars
<1>7. ASSUME NEW h \in Handlers, Deliver(h) \/ HandleCommand(h)
      PROVE  TallyInvariant'
  BY <1>1, <1>7, HandlerElsewhere
<1>8. CASE Tick \/ UNCHANGED vars
  BY <1>1, <1>8 DEF Tick, process, vars
<1>. QED
  BY <1>2, <1>3, <1>4, <1>5, <1>6, <1>7, <1>8 DEF CommandNext, Lock, Ingest, everything

(* A counter whose sensor does not count by itself never counts more than   *)
(* the accepted messages in which it was on, in whatever order, how often   *)
(* and after which failures and restarts the engine is given them.          *)
THEOREM CounterNoMoreHolds == CommandSpec => []CounterNoMore
<1>1. CommandInit => TypeOK /\ CountInvariant
  BY InitTyped, CountInit DEF CommandInit
<1>2. CommandInit => TallyInvariant
  <2>. SUFFICES ASSUME CommandInit
                PROVE  TallyInvariant
    OBVIOUS
  <2>1. ASSUME NEW f \in Functions, Counting(f)
        PROVE  mem[f].count = 0 /\ published[f] = 0
    BY <2>1 DEF CommandInit, Init, New, Counting, CounterNew
  <2>. QED
    BY <2>1 DEF CommandInit, Init, TallyInvariant, Handling
<1>3. TypeOK /\ CountInvariant /\ TallyInvariant /\ [CommandNext]_everything =>
          TypeOK' /\ CountInvariant' /\ TallyInvariant'
  BY EngineTypedStep, CountStep, TallyStep
<1>4. TallyInvariant => CounterNoMore
  BY DEF TallyInvariant, CounterNoMore, Counting, OfType
<1>. QED
  BY <1>1, <1>2, <1>3, <1>4, PTL DEF CommandSpec, everything
=============================================================================
