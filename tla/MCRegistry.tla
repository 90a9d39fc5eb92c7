----------------------------- MODULE MCRegistry -----------------------------
(* Two ids, one sensor in two spellings and another one, and a kind of line *)
(* for every branch of NewRegistry.                                         *)
EXTENDS Registry, TLC

CONSTANTS a, b, A, B, Aa

LowerCase == (A :> a) @@ (Aa :> a) @@ (B :> b)

(* What is left of the sensor A when its end is cut off is B. *)
Beginnings == (A :> {B}) @@ (Aa :> {}) @@ (B :> {})

L(fields, id, type, sensor, onUpdate, settings) ==
    [fields |-> fields, id |-> id, type |-> type, sensor |-> sensor,
     onUpdate |-> onUpdate, settings |-> settings]

ConfigLines ==
    {L(7, "id1", "functionType", A, FALSE, TRUE),   \* the header
     L(3, "id1", "counter", A, FALSE, TRUE),
     L(4, "id2", "counter", A, FALSE, TRUE),
     L(5, "id1", "counter", A, TRUE, TRUE),
     L(6, "id2", "counter", Aa, TRUE, TRUE),
     L(7, "id1", "level", B, FALSE, TRUE),
     L(7, "id2", "level", Aa, FALSE, FALSE)}
=============================================================================
