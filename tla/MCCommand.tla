----------------------------- MODULE MCCommand -----------------------------
(***************************************************************************)
(* Two sensors with a counter each, one that sends no state.               *)
(***************************************************************************)
EXTENDS CommandPath, TLC

CONSTANTS f1, f2, w1, h1, h2

CounterTypes == f1 :> "counter" @@ f2 :> "counter"

(* A sensor that does not know its tenant. *)
Input(f, t, on) ==
    [fn |-> f, meta |-> [k \in MetaKeys |-> None], obj |-> "digitalinput",
     state |-> on, value |-> [r \in Resources |-> None], time |-> t]

InputCommands == {Input(f1, 1, TRUE), Input(f1, 1, FALSE)}

(* An input that does not say its state. *)
Stateless == Input(f2, 1, None)

OtherCommand == [Input(f2, 1, None) EXCEPT !.obj = "other"]

CounterCommands == InputCommands \cup {Stateless, OtherCommand}

Places == [f \in Functions |-> [k \in MetaKeys |-> "v"]]

(* What the handlers can make of the commands. *)
AcceptedMessages ==
    {[fn |-> cmd.fn, accepted |-> t, meta |-> Places[cmd.fn], obj |-> cmd.obj,
      state |-> cmd.state,
      value |-> [cmd.value EXCEPT ![DigitalInputCounter] =
                    IF cmd.obj = "digitalinput" THEN 10 * n ELSE None],
      time |-> cmd.time] :
        cmd \in CounterCommands, t \in 1 .. MaxTime, n \in 0 .. MaxCommands}

CounterLevelConfig ==
    [maxDistance |-> 0, maxLevel |-> 0, meanLevel |-> 0, offsetLevel |-> 0,
     cosAlpha |-> 1000]
=============================================================================
