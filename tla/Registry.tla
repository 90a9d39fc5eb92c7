------------------------------ MODULE Registry ------------------------------
(***************************************************************************)
(* functions/registry.go: NewRegistry reads the lines of the configuration *)
(* into a table of functions by sensor, and gives each function its row in *)
(* the table fnct of the database; Find and Get look functions up.         *)
(*                                                                         *)
(* The configuration may be edited between two starts of the process; the  *)
(* rows stay.  What a function is restored to is the engine's matter: here *)
(* it is the line it comes from.                                           *)
(***************************************************************************)
EXTENDS Integers, Sequences, FiniteSets

CONSTANTS
    Ids,        \* function ids
    Spellings,  \* sensor ids as they are written
    Sensors,    \* sensor ids in lower case
    ToLower,    \* the sensor that each spelling stands for
    CutShort,   \* the spellings that are a beginning of each spelling
    Types,      \* the types of functions that there are
    None,
    Lines,      \* the lines a configuration may have
    MaxLines,   \* bound: lines of a configuration
    MaxScans,   \* bound: starts of the process
    MaxFaults   \* bound: calls of the database or the file that fail

(* fields: how many there are in the line; settings: whether levels.New    *)
(* can parse the seventh                                                   *)
Line ==
    [fields   : Nat,
     id       : Ids,
     type     : Types \cup {"functionType"},
     sensor   : Spellings,
     onUpdate : BOOLEAN,
     settings : BOOLEAN]

Function == [id : Ids, type : Types, onUpdate : BOOLEAN]

ASSUME RegistryAssumption ==
    /\ ToLower \in [Spellings -> Sensors]
    /\ CutShort \in [Spellings -> SUBSET Spellings]
    /\ Lines \subseteq Line
    /\ "functionType" \notin Types
    /\ None \notin Types
    /\ None \notin Function
    /\ {MaxLines, MaxScans, MaxFaults} \subseteq Nat

VARIABLES
    file,      \* the configuration
    input,     \* the lines of it that the scanner hands out
    line,      \* the line that is read next
    table,     \* reg.f: the function of each sensor, or None
    unknown,   \* numErrors
    status,    \* how far NewRegistry has come, or how it ended
    rows,      \* the type in the row that each id has in fnct, or None
    cut,       \* the reader has failed, and is not asked again
    refused,   \* auxiliary: the ids whose AddFnct failed in this process
    scans, faults   \* what the bounds count

registryVars == << file, input, line, table, unknown, status, rows, cut, refused, scans, faults >>

Files == UNION {[1 .. n -> Lines] : n \in 0 .. MaxLines}

Start ==
    /\ file' \in Files
    /\ input' = file'
    /\ line' = 1
    /\ table' = [s \in Sensors |-> None]
    /\ unknown' = 0
    /\ status' = "scanning"
    /\ cut' = FALSE
    /\ refused' = {}

RegistryInit ==
    /\ file \in Files
    /\ input = file
    /\ line = 1
    /\ table = [s \in Sensors |-> None]
    /\ unknown = 0
    /\ status = "scanning"
    /\ rows = [id \in Ids |-> None]
    /\ cut = FALSE
    /\ refused = {}
    /\ scans = 1
    /\ faults = 0
-----------------------------------------------------------------------------
Scan ==
    /\ status = "scanning"
    /\ line <= Len(input)

Tokens == input[line]

Fault == faults < MaxFaults /\ faults' = faults + 1

Short(l) == l.fields < 4

(* Mutant: no last else that turns an unknown type away. *)
LongEnough(l) == ~Short(l)

Known(l) == ~Short(l) /\ l.type \in Types

(* The settings are the seventh field, and only a level has any. *)
SettingsFail(l) == l.type = "level" /\ l.fields > 6 /\ ~l.settings

SkipShort ==
    /\ Scan
    /\ Short(Tokens)
    /\ line' = line + 1
    /\ UNCHANGED << file, input, table, unknown, status, rows, cut, refused, scans, faults >>

(* The header of the file is such a line, and the one that is forgiven. *)
TypeUnknown ==
    /\ Scan
    /\ ~Short(Tokens) /\ ~Known(Tokens)
    /\ unknown' = unknown + 1
    /\ IF unknown' > 1
       THEN status' = "failed" /\ UNCHANGED line
       ELSE line' = line + 1 /\ UNCHANGED status
    /\ UNCHANGED << file, input, table, rows, cut, refused, scans, faults >>

(* Mutant: a level that cannot be made is tried again. *)
LevelAgain ==
    /\ Scan
    /\ Known(Tokens) /\ SettingsFail(Tokens)
    /\ UNCHANGED registryVars

LevelRefused ==
    /\ Scan
    /\ Known(Tokens) /\ SettingsFail(Tokens)
    /\ status' = "failed"
    /\ UNCHANGED << file, input, line, table, unknown, rows, cut, refused, scans, faults >>

FunctionOf(l) == [id |-> l.id, type |-> l.type, onUpdate |-> l.fields > 5 /\ l.onUpdate]

(* INSERT ... ON CONFLICT DO NOTHING *)
RowAdded(l) == rows' = [rows EXCEPT ![l.id] = IF @ = None THEN l.type ELSE @]

(* Mutant: only for a sensor that is new. *)
AddNew(l) ==
    /\ table[ToLower[l.sensor]] = None => RowAdded(l)
    /\ table[ToLower[l.sensor]] # None => UNCHANGED rows
    /\ UNCHANGED << refused, faults >>

(* An error is not looked at; the row may be there all the same. *)
AddFnct(l) ==
    \/ RowAdded(l) /\ UNCHANGED << refused, faults >>
    \/ /\ Fault
       /\ refused' = refused \cup {l.id}
       /\ RowAdded(l) \/ UNCHANGED rows

(* Mutant: the first line for a sensor stays. *)
KeepFirst(l) ==
    table' = [table EXCEPT ![ToLower[l.sensor]] = IF @ = None THEN FunctionOf(l) ELSE @]

(* r.f[strings.ToLower(tokens[4])] = f *)
Keep(l) == table' = [table EXCEPT ![ToLower[l.sensor]] = FunctionOf(l)]

(* A line with four fields passes the length check, and there is no fifth.  *)
Register ==
    /\ Scan
    /\ Known(Tokens) /\ ~SettingsFail(Tokens)
    /\ AddFnct(Tokens)
    /\ IF Tokens.fields = 4
       THEN status' = "panicked" /\ UNCHANGED << table, line >>
       ELSE Keep(Tokens) /\ line' = line + 1 /\ UNCHANGED status
    /\ UNCHANGED << file, input, unknown, cut, scans >>

EndOfFile ==
    /\ status = "scanning"
    /\ line = Len(input) + 1
    /\ status' = "ready"
    /\ UNCHANGED << file, input, line, table, unknown, rows, cut, refused, scans, faults >>

(* The lines that the text of a line can be cut off to: it ends somewhere  *)
(* in one of its fields, those before are whole and those behind are gone.  *)
TornAt(l, k) ==
    CASE k = 5 -> {[l EXCEPT !.fields = k, !.sensor = s] : s \in CutShort[l.sensor]}
      [] k = 6 -> {[l EXCEPT !.fields = k, !.onUpdate = u] : u \in BOOLEAN}
      [] k = 7 -> {[l EXCEPT !.fields = k, !.settings = p] : p \in BOOLEAN}
      [] OTHER -> {}

Torn(l) == UNION {{[l EXCEPT !.fields = k]} \cup TornAt(l, k) : k \in 1 .. l.fields}

(* A read that fails, or a line longer than the scanner's buffer, ends the  *)
(* input like the end of the file does: scanner.Err() is not asked.  When a *)
(* read fails within a line, the scanner still hands out what it has of it, *)
(* as the last line.                                                        *)
ReadFails ==
    /\ Scan
    /\ ~cut
    /\ Fault
    /\ cut' = TRUE
    /\ \/ input' = SubSeq(input, 1, line - 1)
       \/ \E rest \in Torn(Tokens) : input' = Append(SubSeq(input, 1, line - 1), rest)
    /\ UNCHANGED << file, line, table, unknown, status, rows, refused, scans >>

(* The process ends, by itself or not, and is started with another file or *)
(* the same.                                                               *)
StartAgain ==
    /\ scans < MaxScans
    /\ scans' = scans + 1
    /\ Start
    /\ UNCHANGED << rows, faults >>

ReadLine == SkipShort \/ TypeUnknown \/ LevelRefused \/ Register \/ EndOfFile \/ ReadFails

RegistryNext == ReadLine \/ StartAgain

RegistrySpec == RegistryInit /\ [][RegistryNext]_registryVars

FairRegistrySpec == RegistrySpec /\ WF_registryVars(ReadLine)
-----------------------------------------------------------------------------
(* Find(MatchSensor(sensor)), Find(MatchAll()) and Get(id); the order of a  *)
(* map is random, and so is the function Get returns of several.            *)
MatchSensor(spelling) == {table[ToLower[spelling]]} \ {None}

MatchAll == {table[s] : s \in Sensors} \ {None}

Get(id) == {f \in MatchAll : f.id = id}
-----------------------------------------------------------------------------
(* Every variable of the registry has its type.                             *)
RegistryTypeOK ==
    /\ file \in Seq(Lines)
    /\ input \in Seq(Line)
    /\ line \in 1 .. Len(input) + 1
    /\ table \in [Sensors -> Function \cup {None}]
    /\ unknown \in Nat
    /\ status \in {"scanning", "ready", "failed", "panicked"}
    /\ rows \in [Ids -> Types \cup {None}]
    /\ cut \in BOOLEAN
    /\ refused \subseteq Ids
    /\ {scans, faults} \subseteq Nat

(* What the first n lines say, read without a loop. *)
Unknown(n) == {i \in 1 .. n : ~Short(input[i]) /\ ~Known(input[i])}

Complete(l) == Known(l) /\ l.fields > 4

Sound(n) ==
    /\ \A i \in 1 .. n : Known(input[i]) => Complete(input[i])
    /\ \A i \in 1 .. n : ~(Complete(input[i]) /\ input[i].type = "level"
                           /\ input[i].fields > 6 /\ ~input[i].settings)
    /\ \A i, j \in Unknown(n) : i = j

LinesOf(n, sensor) ==
    {i \in 1 .. n : Complete(input[i]) /\ ToLower[input[i].sensor] = sensor}

(* What was read: all of the configuration, or the lines before the one the *)
(* reader failed at and perhaps what it had of that.                        *)
ReadBefore(n) ==
    \/ input = SubSeq(file, 1, n)
    \/ \E rest \in Torn(file[n + 1]) : input = Append(SubSeq(file, 1, n), rest)

AsRead == IF cut THEN \E n \in 0 .. Len(file) - 1 : ReadBefore(n) ELSE input = file

(* A service that has started has exactly the functions of the lines it     *)
(* read, of several for one sensor the last, found by whatever spelling of  *)
(* the sensor; it only starts on lines without a bad one; and the lines are *)
(* those of its configuration unless the reader failed, else those before   *)
(* it failed and one that it cut off (registry.go: NewRegistry, Find).      *)
StartedAsConfigured ==
    status = "ready" =>
        /\ AsRead
        /\ line = Len(input) + 1
        /\ Sound(Len(input))
        /\ \A spelling \in Spellings :
              LET lines == LinesOf(Len(input), ToLower[spelling])
              IN  MatchSensor(spelling) =
                      {FunctionOf(input[i]) : i \in {k \in lines : \A j \in lines : j <= k}}

(* Every function that can be found has a row in fnct, so that its history  *)
(* can be stored, unless AddFnct failed for it in this very process: nobody *)
(* else will ever add it (registry.go: the error of AddFnct is dropped).    *)
LoggedOrRefused ==
    \A f \in MatchAll : rows[f.id] # None \/ f.id \in refused

(* The service starts or gives up: the registry is not read for ever.       *)
RegistryLoads == status = "scanning" ~> status # "scanning"
=============================================================================
