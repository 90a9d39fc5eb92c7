------------------------------ MODULE Storage ------------------------------
(***************************************************************************)
(* infrastructure/database/database.go: the history of one function.       *)
(*                                                                         *)
(* The rows of fnct_history are a sequence in the order of row_id, each    *)
(* with a label, a value and a time; nothing ever updates or deletes one.  *)
(***************************************************************************)
EXTENDS Integers, Sequences, FiniteSets

RowsOf(rows, label) == {i \in 1 .. Len(rows) : rows[i].label = label}

(* Mutant: ORDER BY time DESC, row_id ASC in the inner query *)
EarlierRowFirst(rows, i, j) ==
    \/ rows[i].time > rows[j].time
    \/ rows[i].time = rows[j].time /\ i < j

(* Mutant: the inner query in ascending order *)
Sooner(rows, i, j) ==
    \/ rows[i].time < rows[j].time
    \/ rows[i].time = rows[j].time /\ i < j

(* ORDER BY time, row_id *)
Later(rows, i, j) ==
    \/ rows[i].time > rows[j].time
    \/ rows[i].time = rows[j].time /\ i > j

(* The rows that LIMIT n keeps of those in descending order. *)
LastRows(rows, label, n) ==
    {i \in RowsOf(rows, label) :
        Cardinality({j \in RowsOf(rows, label) : Later(rows, j, i)}) < n}

(* The k-th of some rows, in ascending order. *)
NthOf(rows, kept, k) ==
    CHOOSE i \in kept : Cardinality({j \in kept : Later(rows, i, j)}) = k - 1

(* The n last rows with a label, in ascending order. *)
History(rows, label, n) ==
    [k \in 1 .. Cardinality(LastRows(rows, label, n)) |->
        rows[NthOf(rows, LastRows(rows, label, n), k)]]

(* registry.go's lastLogValue: zero when there is nothing to read. *)
LastLogValue(rows, label) ==
    LET last == History(rows, label, 1)
    IN  IF last = << >> THEN 0 ELSE last[1].value
=============================================================================
