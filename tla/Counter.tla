------------------------------ MODULE Counter ------------------------------
(***************************************************************************)
(* functions/counters/counters.go: counts the rising edges of a digital    *)
(* input, or takes over the count the sensor reports.                      *)
(***************************************************************************)
EXTENDS FunctionRun

CounterMem == [count : Int, state : BOOLEAN]

CounterNew == [count |-> 0, state |-> FALSE]

(* Mutant: every message that is on counts. *)
AnyOn(s, m) == m.state = TRUE

RisingEdge(s, m) == m.state = TRUE /\ ~s.state

(* Mutant: the count of the sensor is added to that of the function. *)
CountedOnTop(s, m) ==
    [count |-> IF m.value[DigitalInputCounter] # None
                   THEN s.count + Ceil(m.value[DigitalInputCounter])
                   ELSE s.count + Number(RisingEdge(s, m)),
     state |-> m.state]

Counted(s, m) ==
    [count |-> IF m.value[DigitalInputCounter] # None THEN Ceil(m.value[DigitalInputCounter])
               ELSE s.count + Number(RisingEdge(s, m)),
     state |-> m.state]

(* A count that the pack does not carry is never stored: countTimeOk. *)
CounterRows(s, new, m) ==
    (IF m.value[DigitalInputCounter] # None /\ new.count # s.count
        THEN << OnChange("count", new.count, m.time, new) >> ELSE << >>)
    \o
    (IF new.state # s.state
        THEN << OnChange("state", Number(new.state), m.time, new) >> ELSE << >>)

CounterHandle(s, m) ==
    IF m.obj # "digitalinput" THEN Rejected(s)
    ELSE IF m.state = None THEN Unchanged(s)
    ELSE LET new  == Counted(s, m)
             rows == CounterRows(s, new, m)
         IN  Run(new, rows, IF rows = << >> THEN "unchanged" ELSE "changed", "join")
=============================================================================
