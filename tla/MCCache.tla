------------------------------ MODULE MCCache ------------------------------
(***************************************************************************)
(* Two clients and two URLs: time to live 1, timeout 1, cleaning every 2.  *)
(***************************************************************************)
EXTENDS ResponseCache

CONSTANTS c1, c2, k1, k2
=============================================================================
