-------------------------- MODULE SerialFunctions --------------------------
(***************************************************************************)
(* What a function promises its subscribers: messages are applied to it    *)
(* one at a time, each to the memory the one before left behind, and what  *)
(* is announced is the memory after the message. There are no workers, no  *)
(* mutex, no rows and no steps within a message.                           *)
(***************************************************************************)
EXTENDS Integers, Sequences

CONSTANTS
    Functions, Type, OnUpdate, Messages, MaxTime,
    New(_, _),              \* the memory of a function that starts
    Handle(_, _, _, _),     \* what its handler makes of a message
    FinalOf(_, _),          \* the memory when all has been stored
    LogValues    \* the values a function may be restored from

VARIABLES
    mem,       \* the memory of each function
    updates    \* the memories announced, by function, in order

Init ==
    /\ mem = [f \in Functions |-> New(Type[f], 0)]
    /\ updates = [f \in Functions |-> << >>]

Results(f) ==
    {Handle(Type[f], mem[f], m, now) : m \in {m \in Messages : m.fn = f},
                                       now \in 1 .. MaxTime}

Announced(f, r) ==
    r.outcome = "changed" \/ (f \in OnUpdate /\ r.outcome = "unchanged")

(* A message is handled and the function announced. *)
Announce(f) ==
    \E r \in Results(f) :
        /\ Announced(f, r)
        /\ mem' = [mem EXCEPT ![f] = FinalOf(r.begin, r.writes)]
        /\ updates' = [updates EXCEPT ![f] = Append(@, FinalOf(r.begin, r.writes))]

(* A message is handled that is nobody's business. *)
Absorb(f) ==
    \E r \in Results(f) :
        /\ ~Announced(f, r)
        /\ mem' = [mem EXCEPT ![f] = FinalOf(r.begin, r.writes)]
        /\ UNCHANGED updates

(* A message fails on the way; the memory stays as far as it had come. *)
Abort(f) ==
    \E r \in Results(f) :
        /\ r.outcome = "changed" \/ f \in OnUpdate
        /\ \E s \in {r.begin} \cup {r.writes[i].then : i \in DOMAIN r.writes} :
              mem' = [mem EXCEPT ![f] = s]
        /\ UNCHANGED updates

(* The process starts again, with or without a last value. *)
Restart ==
    /\ \E v \in [Functions -> LogValues] : mem' = [f \in Functions |-> New(Type[f], v[f])]
    /\ UNCHANGED updates

Next ==
    \/ Restart
    \/ \E f \in Functions : Announce(f) \/ Absorb(f) \/ Abort(f)

Spec == Init /\ [][Next]_<< mem, updates >>
=============================================================================
