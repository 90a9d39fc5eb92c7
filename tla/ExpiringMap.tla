---------------------------- MODULE ExpiringMap ----------------------------
(***************************************************************************)
(* What cache.Cache promises to its users: a map whose entries are there   *)
(* until their time is up and not a moment longer, with no sign of a       *)
(* cleaner.                                                                *)
(***************************************************************************)
EXTENDS Integers

CONSTANTS Keys, None

VARIABLES
    now,     \* the clock
    live     \* the entries that can be found

mapVars == << now, live >>

Entry == [value : Nat, expiry : Nat]

MapInit ==
    /\ now \in Nat
    /\ live = [k \in Keys |-> None]

(* A new entry takes the place of the one before it. *)
Put(k) ==
    /\ live'[k] \in Entry
    /\ live'[k].expiry >= now
    /\ live' = [live EXCEPT ![k] = live'[k]]
    /\ UNCHANGED now

(* Time takes away what has expired and nothing else. *)
Pass ==
    /\ now' \in Nat
    /\ now' > now
    /\ live' = [k \in Keys |->
                   IF live[k] # None /\ live[k].expiry < now' THEN None ELSE live[k]]

MapNext == Pass \/ \E k \in Keys : Put(k)

MapSpec == MapInit /\ [][MapNext]_mapVars
=============================================================================
