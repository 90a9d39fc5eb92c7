------------------------- MODULE FunctionRefinement -------------------------
(***************************************************************************)
(* The workers, the mutex and the steps within a message implement the     *)
(* serial functions: a message takes effect when its handler returns.      *)
(***************************************************************************)
EXTENDS FunctionProperties

CONSTANT LogValues    \* the values in the history: Int, or fewer for TLC

(* Until then the function is what it was before the message. *)
Settled ==
    [f \in Functions |->
        IF IdleFunction(f) THEN mem[f]
        ELSE run[CHOOSE w \in Workers : Handling(w) /\ Fn(w) = f].entry]

AnnouncedMemory ==
    [f \in Functions |-> [i \in DOMAIN updates[f] |-> updates[f][i].mem]]

Serial == INSTANCE SerialFunctions
             WITH mem <- Settled, updates <- AnnouncedMemory

(* Whatever the interleaving of the workers, whatever fails and whenever    *)
(* the process is killed, subscribers see each function go through states   *)
(* that it reaches by handling messages one after another (iotcore.go:      *)
(* MessageAccepted under a.mu).                                             *)
ImplementsSerial == Serial!Spec
=============================================================================
