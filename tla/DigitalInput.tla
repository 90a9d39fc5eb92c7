---------------------------- MODULE DigitalInput ----------------------------
(***************************************************************************)
(* functions/digitalinput/digitalinput.go: the state of a digital input    *)
(* and a counter of its rising edges, overruled by the sensor's own.       *)
(***************************************************************************)
EXTENDS FunctionRun

DigitalInputMem == [state : BOOLEAN, counter : Int, timestamp : Nat]

DigitalInputNew(v) == [state |-> v # 0, counter |-> 0, timestamp |-> ZeroTime]

NextState(s, m) == IF m.state = None THEN s.state ELSE m.state

(* The counter once the state has been handled. *)
Stepped(s, m) == s.counter + Number(NextState(s, m) /\ ~s.state)

NextCounter(s, m) == IF m.value[DigitalInputCounter] = None THEN Stepped(s, m) ELSE Truncate(m.value[DigitalInputCounter])

(* Without a state record the time is that of the message. *)
InputTime(m) == IF m.state = None THEN m.accepted ELSE m.time

(* The timestamp is set after the last row has been tried, stored or not. *)
DigitalInputHandle(s, m) ==
    LET t       == InputTime(m)
        pending == [state     |-> NextState(s, m),
                    counter   |-> NextCounter(s, m),
                    timestamp |-> s.timestamp]
        new     == [pending EXCEPT !.timestamp = t]
        stateChanged   == pending.state # s.state
        counterChanged == pending.counter # Stepped(s, m)
        stateRow(then) == OnChange("state", Number(new.state), t, then)
        counterRow     == OnChange("counter", new.counter, t, new)
        rows == CASE stateChanged /\ counterChanged  -> << stateRow(pending), counterRow >>
                  [] stateChanged /\ ~counterChanged -> << stateRow(new) >>
                  [] ~stateChanged                   -> << counterRow >>
    IN  IF m.obj # "digitalinput" THEN Rejected(s)
        ELSE IF ~stateChanged /\ ~counterChanged THEN Unchanged(s)
        ELSE Run(pending, rows, "changed", "join")
=============================================================================
