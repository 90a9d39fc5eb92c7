---------------------------- MODULE FunctionRun ----------------------------
(***************************************************************************)
(* One call of a function type's Handle method, as data.                   *)
(*                                                                         *)
(* Handle runs under the mutex of the application, so between two calls of *)
(* onchange nothing else touches the function: all that the outside can    *)
(* see of the call is the function's memory at each call of onchange, the  *)
(* rows onchange is asked to store, and the result.  A run records these:  *)
(*   begin    the memory when the first onchange is called (or at return)  *)
(*   writes   the calls of onchange in order, each with the memory it      *)
(*            leaves behind once it has succeeded                          *)
(*   outcome  "changed" (true, nil), "unchanged" (false, nil) or           *)
(*            "rejected" (an error before anything was done)               *)
(*   onerr    what an error of onchange does: "stop" returns it at once,   *)
(*            "join" makes the remaining calls first (errors.Join),        *)
(*            "drop" makes them and forgets the error                      *)
(***************************************************************************)
EXTENDS Message, Sequences

Outcomes == {"changed", "unchanged", "rejected"}

(* The properties a function logs. *)
Labels ==
    {"presence", "count", "state", "counter", "temperature", "duration",
     "cumulativeTime", "power", "energy", "pm1", "pm10", "pm25", "no", "no2",
     "co2", "level", "percent", "time"}

Writes(M) == [label : Labels, value : Int, time : Nat, then : M]

Runs(M) ==
    [begin   : M,
     writes  : Seq(Writes(M)),
     outcome : Outcomes,
     onerr   : {"stop", "join", "drop"}]

OnChange(label, value, time, then) ==
    [label |-> label, value |-> value, time |-> time, then |-> then]

Run(begin, writes, outcome, onerr) ==
    [begin |-> begin, writes |-> writes, outcome |-> outcome, onerr |-> onerr]

(* return false, nil *)
Unchanged(s) == Run(s, << >>, "unchanged", "stop")

(* return false, err: ErrNoMatch, or a pack the function cannot use *)
Rejected(s) == Run(s, << >>, "rejected", "stop")

(* The memory after the writes that remain when the memory is s. *)
FinalOf(s, writes) == IF writes = << >> THEN s ELSE writes[Len(writes)].then
=============================================================================
