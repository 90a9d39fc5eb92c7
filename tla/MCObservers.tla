---------------------------- MODULE MCObservers ----------------------------
(***************************************************************************)
(* A presence that a client asks about, and people who are counted.        *)
(***************************************************************************)
EXTENDS Observers, TLC

CONSTANTS f1, f2, w1, t1, t2, c1

ObservedTypes == f1 :> "presence" @@ f2 :> "counter"

(* A digital input that is on or off at time t. *)
Input(f, t, on) ==
    [fn |-> f, accepted |-> 1, meta |-> [k \in MetaKeys |-> None], obj |-> "digitalinput",
     state |-> on, value |-> [r \in Resources |-> None], time |-> t]

ObservedMessages ==
    {Input(f1, 1, TRUE), Input(f1, 2, FALSE)}
    \cup {Input(f2, 1, TRUE), Input(f2, 2, FALSE), Input(f2, 2, TRUE)}

NoLevel ==
    [maxDistance |-> 0, maxLevel |-> 0, meanLevel |-> 0, offsetLevel |-> 0,
     cosAlpha |-> 1000]
=============================================================================
