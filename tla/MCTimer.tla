------------------------------ MODULE MCTimer ------------------------------
(***************************************************************************)
(* A timer with its ticker: rounds in any order.                           *)
(***************************************************************************)
EXTENDS TimerUpdater, TLC

CONSTANTS f1, w1

TimerTypes == f1 :> "timer"

(* A digital input that is on or off at time t. *)
Input(t, on) ==
    [fn |-> f1, accepted |-> 1, meta |-> [k \in MetaKeys |-> None], obj |-> "digitalinput",
     state |-> on, value |-> [r \in Resources |-> None], time |-> t]

TimerMessages == {Input(1, TRUE), Input(2, FALSE)}

TimerLevelConfig ==
    [maxDistance |-> 0, maxLevel |-> 0, meanLevel |-> 0, offsetLevel |-> 0,
     cosAlpha |-> 1000]
=============================================================================
