--------------------------- MODULE RegistryProofs ---------------------------
(***************************************************************************)
(* Theorems about the registry, for configurations of any length and any   *)
(* number of ids, sensors and spellings.                                   *)
(***************************************************************************)
EXTENDS Registry, SequenceTheorems, TLAPS

(* The file is being read, or has been.                                      *)
Loading == status \in {"scanning", "ready"}

(* The entry of a sensor is that of its last line so far. *)
TableAt(sensor) ==
    LET lines == LinesOf(line - 1, sensor)
    IN  IF table[sensor] = None THEN lines = {}
        ELSE \E k \in lines : /\ table[sensor] = FunctionOf(input[k])
                              /\ \A j \in lines : j <= k

RegistryInvariant ==
    /\ RegistryTypeOK
    /\ AsRead
    /\ status = "ready" => line = Len(input) + 1
    /\ Loading => Sound(line - 1)
    /\ Loading => (unknown = 0 => Unknown(line - 1) = {})
    /\ Loading => \A sensor \in Sensors : TableAt(sensor)
    /\ LoggedOrRefused
-----------------------------------------------------------------------------
LEMMA FilesTyped == Files \subseteq Seq(Lines)
BY RegistryAssumption, SeqDef DEF Files

LEMMA StartsTyped ==
    ASSUME NEW g \in Files
    PROVE  g \in Seq(Lines) /\ g \in Seq(Line) /\ 1 \in 1 .. Len(g) + 1
<1>1. g \in Seq(Lines)
  BY FilesTyped
<1>2. Len(g) \in Nat
  BY <1>1
<1>3. g \in Seq(Line)
  BY <1>1, RegistryAssumption
<1>. QED
  BY <1>1, <1>2, <1>3

LEMMA NothingRead ==
    ASSUME line = 1, table = [s \in Sensors |-> None]
    PROVE  /\ Sound(line - 1)
           /\ Unknown(line - 1) = {}
           /\ \A sensor \in Sensors : TableAt(sensor)
<1>1. 1 .. (line - 1) = {}
  OBVIOUS
<1>2. Unknown(line - 1) = {} /\ \A s \in Sensors : LinesOf(line - 1, s) = {}
  BY <1>1 DEF Unknown, LinesOf
<1>. QED
  BY <1>1, <1>2 DEF Sound, TableAt

LEMMA RegistryStarts == RegistryInit => RegistryInvariant
<1>. SUFFICES ASSUME RegistryInit PROVE RegistryInvariant
  OBVIOUS
<1>1. RegistryTypeOK
  <2>1. file \in Seq(Lines) /\ input \in Seq(Line) /\ line \in 1 .. Len(input) + 1
    BY StartsTyped DEF RegistryInit
  <2>2. table \in [Sensors -> Function \cup {None}] /\ rows \in [Ids -> Types \cup {None}]
    BY DEF RegistryInit
  <2>3. unknown \in Nat /\ {scans, faults} \subseteq Nat /\ refused \subseteq Ids
    BY DEF RegistryInit
  <2>4. cut \in BOOLEAN
    BY Zenon DEF RegistryInit
  <2>5. status = "scanning"
    BY DEF RegistryInit
  <2>. QED
    BY <2>1, <2>2, <2>3, <2>4, <2>5 DEF RegistryTypeOK
<1>2. line = 1 /\ table = [s \in Sensors |-> None] /\ status = "scanning"
  BY DEF RegistryInit
<1>3. LoggedOrRefused
  BY <1>2 DEF LoggedOrRefused, MatchAll
<1>4. AsRead
  BY DEF RegistryInit, AsRead
<1>. QED
  BY <1>1, <1>2, <1>3, <1>4, NothingRead DEF RegistryInvariant
-----------------------------------------------------------------------------
(* What is under the reader *)
LEMMA TokensTyped ==
    ASSUME RegistryTypeOK, Scan
    PROVE  /\ Tokens \in Line
           /\ line \in Nat /\ line - 1 \in Nat
           /\ line + 1 \in 1 .. Len(input) + 1
           /\ Len(input) \in Nat
<1>1. input \in Seq(Line) /\ line \in 1 .. Len(input)
  BY DEF RegistryTypeOK, Scan
<1>2. Tokens \in Line
  BY <1>1 DEF Tokens
<1>. QED
  BY <1>1, <1>2, RegistryAssumption

LEMMA OneMore ==
    ASSUME NEW n \in Nat, n >= 1
    PROVE  1 .. n = (1 .. (n - 1)) \cup {n}
OBVIOUS

LEMMA LinesOfNext ==
    ASSUME RegistryTypeOK, Scan, NEW sensor
    PROVE  LinesOf(line, sensor) =
               LinesOf(line - 1, sensor) \cup
               (IF Complete(Tokens) /\ ToLower[Tokens.sensor] = sensor THEN {line} ELSE {})
<1>1. 1 .. line = (1 .. (line - 1)) \cup {line}
  BY OneMore, TokensTyped DEF RegistryTypeOK, Scan
<1>. QED
  BY <1>1 DEF LinesOf, Tokens

LEMMA UnknownNext ==
    ASSUME RegistryTypeOK, Scan
    PROVE  Unknown(line) =
               Unknown(line - 1) \cup
               (IF ~Short(Tokens) /\ ~Known(Tokens) THEN {line} ELSE {})
<1>1. 1 .. line = (1 .. (line - 1)) \cup {line}
  BY OneMore, TokensTyped DEF RegistryTypeOK, Scan
<1>. QED
  BY <1>1 DEF Unknown, Tokens

(* A line can be read on when it is not bad in itself, nor the second of an *)
(* unknown type.                                                            *)
LEMMA SoundNext ==
    ASSUME RegistryTypeOK, Scan, Sound(line - 1),
           Known(Tokens) => Complete(Tokens) /\ ~SettingsFail(Tokens),
           ~Short(Tokens) /\ ~Known(Tokens) => Unknown(line - 1) = {}
    PROVE  Sound(line)
<1>1. 1 .. line = (1 .. (line - 1)) \cup {line}
  BY OneMore, TokensTyped DEF RegistryTypeOK, Scan
<1>2. \A i \in 1 .. line : Known(input[i]) => Complete(input[i])
  BY <1>1 DEF Sound, Tokens
<1>3. \A i \in 1 .. line : ~(Complete(input[i]) /\ input[i].type = "level"
                              /\ input[i].fields > 6 /\ ~input[i].settings)
  BY <1>1 DEF Sound, Tokens, SettingsFail, Complete
<1>4. \A i, j \in Unknown(line) : i = j
  BY UnknownNext DEF Sound
<1>. QED
  BY <1>2, <1>3, <1>4 DEF Sound

(* A line that registers nothing leaves the table as it should be. *)
LEMMA TablePassed ==
    ASSUME RegistryTypeOK, Scan, ~Complete(Tokens), NEW sensor \in Sensors, TableAt(sensor),
           input' = input, table' = table, line' = line + 1
    PROVE  TableAt(sensor)'
<1>1. line \in Nat /\ line + 1 - 1 = line
  BY TokensTyped
<1>2. LinesOf(line, sensor) = LinesOf(line - 1, sensor)
  BY LinesOfNext
<1>3. LinesOf(line - 1, sensor)' = LinesOf(line - 1, sensor)
  BY <1>1, <1>2 DEF LinesOf
<1>. QED
  BY <1>3 DEF TableAt

(* A line that registers a function leaves it last for its sensor. *)
LEMMA TableKept ==
    ASSUME RegistryTypeOK, Scan, Complete(Tokens), Keep(Tokens),
           NEW sensor \in Sensors, TableAt(sensor),
           input' = input, line' = line + 1
    PROVE  TableAt(sensor)'
<1>. DEFINE lines == LinesOf(line - 1, sensor)
            after == LinesOf(line, sensor)
<1>1. Tokens \in Line /\ line \in Nat /\ line + 1 - 1 = line /\ input[line] = Tokens
  BY TokensTyped DEF Tokens
<1>2. LinesOf(line - 1, sensor)' = after
  BY <1>1 DEF LinesOf
<1>3. ToLower[Tokens.sensor] \in Sensors
  BY <1>1, RegistryAssumption DEF Line
<1>4. CASE ToLower[Tokens.sensor] = sensor
  <2>1. table'[sensor] = FunctionOf(input[line])
    BY <1>1, <1>4 DEF Keep, RegistryTypeOK
  <2>2. FunctionOf(input[line]) \in Function
    BY <1>1 DEF FunctionOf, Function, Line, Complete, Known
  <2>3. line \in after /\ \A j \in after : j <= line
    <3>1. line \in after
      BY <1>4, LinesOfNext
    <3>2. after \subseteq 1 .. line
      BY DEF LinesOf
    <3>. QED
      BY <1>1, <3>1, <3>2
  <2>. QED
    BY <1>2, <2>1, <2>2, <2>3, RegistryAssumption DEF TableAt
<1>5. CASE ToLower[Tokens.sensor] # sensor
  <2>1. table'[sensor] = table[sensor]
    BY <1>3, <1>5 DEF Keep, RegistryTypeOK
  <2>2. after = lines
    BY <1>5, LinesOfNext
  <2>. QED
    BY <1>2, <2>1, <2>2 DEF TableAt
<1>. QED
  BY <1>4, <1>5
-----------------------------------------------------------------------------
LEMMA ReadAlike ==
    ASSUME AsRead, UNCHANGED << file, input, cut >>
    PROVE  AsRead'
BY DEF AsRead, ReadBefore

(* A line that was cut off is a line. *)
LEMMA TornTyped ==
    ASSUME NEW l \in Line, NEW t \in Torn(l)
    PROVE  t \in Line
<1>1. PICK k \in 1 .. l.fields : t \in {[l EXCEPT !.fields = k]} \cup TornAt(l, k)
  BY DEF Torn
<1>2. k \in Nat /\ CutShort[l.sensor] \subseteq Spellings
  BY RegistryAssumption DEF Line
<1>3. CASE t = [l EXCEPT !.fields = k]
  BY <1>2, <1>3 DEF Line
<1>4. CASE t \in TornAt(l, k)
  <2>1. CASE k = 5
    <3>0. TornAt(l, k) = {[l EXCEPT !.fields = k, !.sensor = s] : s \in CutShort[l.sensor]}
      BY <1>2, <2>1 DEF TornAt
    <3>1. PICK s \in CutShort[l.sensor] : t = [l EXCEPT !.fields = k, !.sensor = s]
      BY <1>4, <3>0
    <3>. QED
      BY <1>2, <3>1 DEF Line
  <2>2. CASE k = 6
    <3>0. TornAt(l, k) = {[l EXCEPT !.fields = k, !.onUpdate = u] : u \in BOOLEAN}
      BY <1>2, <2>2 DEF TornAt
    <3>1. PICK v \in BOOLEAN : t = [l EXCEPT !.fields = k, !.onUpdate = v]
      BY <1>4, <3>0
    <3>. QED
      BY <1>2, <3>1 DEF Line
  <2>3. CASE k = 7
    <3>0. TornAt(l, k) = {[l EXCEPT !.fields = k, !.settings = p] : p \in BOOLEAN}
      BY <1>2, <2>3 DEF TornAt
    <3>1. PICK v \in BOOLEAN : t = [l EXCEPT !.fields = k, !.settings = v]
      BY <1>4, <3>0
    <3>. QED
      BY <1>2, <3>1 DEF Line
  <2>. QED
    BY <1>2, <1>4, <2>1, <2>2, <2>3 DEF TornAt
<1>. QED
  BY <1>1, <1>3, <1>4

(* What the reader had read when it failed. *)
LEMMA CutAt ==
    ASSUME NEW s \in Seq(Line), NEW n \in 0 .. Len(s),
           NEW cutOff \in {SubSeq(s, 1, n)} \cup {Append(SubSeq(s, 1, n), t) : t \in Line}
    PROVE  /\ cutOff \in Seq(Line)
           /\ Len(cutOff) \in {n, n + 1}
           /\ \A i \in 1 .. n : cutOff[i] = s[i]
<1>. DEFINE first == SubSeq(s, 1, n)
<1>1. first \in Seq(Line) /\ Len(first) = n /\ \A i \in 1 .. n : first[i] = s[i]
  <2>1. Len(s) \in Nat /\ n \in Nat /\ n <= Len(s)
    OBVIOUS
  <2>2. CASE n = 0
    BY <2>2, SubSeqProperties
  <2>3. CASE n # 0
    BY <2>1, <2>3, SubSeqProperties
  <2>. QED
    BY <2>2, <2>3
<1>. HIDE DEF first
<1>2. CASE cutOff = first
  BY <1>1, <1>2
<1>3. ASSUME NEW t \in Line, cutOff = Append(first, t)
      PROVE  /\ cutOff \in Seq(Line)
             /\ Len(cutOff) = n + 1
             /\ \A i \in 1 .. n : cutOff[i] = s[i]
  BY <1>1, <1>3
<1>. QED
  BY <1>2, <1>3 DEF first

LEMMA RegistryStep ==
    ASSUME RegistryInvariant, [RegistryNext]_registryVars
    PROVE  RegistryInvariant'
<1>0. RegistryTypeOK /\ LoggedOrRefused /\ AsRead
  BY DEF RegistryInvariant
<1>r. ASSUME UNCHANGED << file, input, cut >> PROVE AsRead'
  BY <1>0, <1>r, ReadAlike
<1>1. CASE SkipShort
  <2>1. Scan /\ Loading /\ Loading' /\ Short(Tokens) /\ ~Known(Tokens) /\ ~Complete(Tokens)
    BY <1>1 DEF SkipShort, Scan, Loading, Known, Complete
  <2>2. line \in Nat /\ line' = line + 1 /\ line' - 1 = line
    BY <1>0, <1>1, <2>1, TokensTyped DEF SkipShort
  <2>3. RegistryTypeOK'
    BY <1>0, <1>1, <2>1, TokensTyped DEF SkipShort, RegistryTypeOK
  <2>4. Sound(line - 1)' /\ (unknown' = 0 => Unknown(line - 1)' = {})
    <3>1. Sound(line) /\ Unknown(line) = Unknown(line - 1)
      BY <1>0, <2>1, SoundNext, UnknownNext DEF RegistryInvariant
    <3>2. input' = input /\ unknown' = unknown
      BY <1>1 DEF SkipShort
    <3>3. Sound(line - 1)' = Sound(line) /\ Unknown(line - 1)' = Unknown(line)
      BY <2>2, <3>2 DEF Sound, Unknown
    <3>. QED
      BY <2>1, <3>1, <3>2, <3>3 DEF RegistryInvariant
  <2>5. \A sensor \in Sensors : TableAt(sensor)'
    BY <1>0, <1>1, <2>1, TablePassed DEF SkipShort, RegistryInvariant
  <2>6. LoggedOrRefused'
    BY <1>0, <1>1 DEF SkipShort, LoggedOrRefused, MatchAll
  <2>7. status' # "ready"
    BY <1>1 DEF SkipShort, Scan
  <2>8. AsRead'
    BY <1>1, <1>r DEF SkipShort
  <2>. QED
    BY <2>3, <2>4, <2>5, <2>6, <2>7, <2>8 DEF RegistryInvariant
<1>2. CASE TypeUnknown /\ unknown' > 1
  <2>1. ~Loading' /\ status' # "ready"
    BY <1>2 DEF TypeUnknown, Loading
  <2>2. RegistryTypeOK'
    BY <1>0, <1>2 DEF TypeUnknown, RegistryTypeOK
  <2>3. LoggedOrRefused'
    BY <1>0, <1>2 DEF TypeUnknown, LoggedOrRefused, MatchAll
  <2>4. AsRead'
    BY <1>2, <1>r DEF TypeUnknown
  <2>. QED
    BY <2>1, <2>2, <2>3, <2>4 DEF RegistryInvariant
<1>3. CASE TypeUnknown /\ ~(unknown' > 1)
  <2>1. Scan /\ Loading /\ Loading' /\ ~Known(Tokens) /\ ~Complete(Tokens) /\ ~Short(Tokens)
    BY <1>3 DEF TypeUnknown, Scan, Loading, Complete
  <2>2. line \in Nat /\ line' = line + 1 /\ line' - 1 = line
    BY <1>0, <1>3, <2>1, TokensTyped DEF TypeUnknown
  <2>3. unknown = 0 /\ unknown' = 1
    BY <1>0, <1>3 DEF TypeUnknown, RegistryTypeOK
  <2>4. RegistryTypeOK'
    BY <1>0, <1>3, <2>1, <2>3, TokensTyped DEF TypeUnknown, RegistryTypeOK
  <2>5. Sound(line - 1)'
    <3>1. Sound(line)
      BY <1>0, <2>1, <2>3, SoundNext DEF RegistryInvariant
    <3>2. input' = input
      BY <1>3 DEF TypeUnknown
    <3>. QED
      BY <2>2, <3>1, <3>2 DEF Sound, Unknown
  <2>6. \A sensor \in Sensors : TableAt(sensor)'
    BY <1>0, <1>3, <2>1, TablePassed DEF TypeUnknown, RegistryInvariant
  <2>7. LoggedOrRefused'
    BY <1>0, <1>3 DEF TypeUnknown, LoggedOrRefused, MatchAll
  <2>8. status' # "ready"
    BY <1>3 DEF TypeUnknown, Scan
  <2>9. AsRead'
    BY <1>3, <1>r DEF TypeUnknown
  <2>. QED
    BY <2>3, <2>4, <2>5, <2>6, <2>7, <2>8, <2>9 DEF RegistryInvariant
<1>4. CASE LevelRefused
  <2>1. ~Loading' /\ status' # "ready"
    BY <1>4 DEF LevelRefused, Loading
  <2>2. RegistryTypeOK'
    BY <1>0, <1>4 DEF LevelRefused, RegistryTypeOK
  <2>3. LoggedOrRefused'
    BY <1>0, <1>4 DEF LevelRefused, LoggedOrRefused, MatchAll
  <2>4. AsRead'
    BY <1>4, <1>r DEF LevelRefused
  <2>. QED
    BY <2>1, <2>2, <2>3, <2>4 DEF RegistryInvariant
<1>5. CASE Register
  <2>0. AsRead'
    BY <1>5, <1>r DEF Register
  <2>1. Scan /\ Known(Tokens) /\ ~SettingsFail(Tokens) /\ Loading
    BY <1>5 DEF Register, Scan, Loading
  <2>2. /\ Tokens \in Line /\ Tokens.id \in Ids /\ Tokens.type \in Types /\ Tokens.fields \in Nat
        /\ ToLower[Tokens.sensor] \in Sensors
    BY <1>0, <2>1, TokensTyped, RegistryAssumption DEF Line, Known
  <2>3. FunctionOf(Tokens) \in Function /\ FunctionOf(Tokens).id = Tokens.id
    BY <2>2 DEF FunctionOf, Function, Line
  <2>4. /\ rows' \in [Ids -> Types \cup {None}]
        /\ \A id \in Ids : rows[id] # None => rows'[id] # None
        /\ refused \subseteq refused' /\ refused' \subseteq Ids
        /\ rows'[Tokens.id] # None \/ Tokens.id \in refused'
        /\ faults' \in Nat
    BY <1>0, <1>5, <2>2, RegistryAssumption
    DEF Register, AddFnct, RowAdded, Fault, RegistryTypeOK
  <2>5. CASE Tokens.fields = 4
    <3>1. ~Loading' /\ status' # "ready" /\ UNCHANGED << table, line, input >>
      BY <1>5, <2>5 DEF Register, Loading
    <3>2. RegistryTypeOK'
      BY <1>0, <1>5, <2>4, <2>5 DEF Register, RegistryTypeOK
    <3>3. LoggedOrRefused'
      BY <1>0, <2>4, <3>1 DEF LoggedOrRefused, MatchAll, RegistryTypeOK, Function
    <3>. QED
      BY <2>0, <3>1, <3>2, <3>3 DEF RegistryInvariant
  <2>6. CASE Tokens.fields # 4
    <3>1. /\ Keep(Tokens) /\ line' = line + 1 /\ UNCHANGED << status, input, unknown >>
          /\ line \in Nat /\ line' - 1 = line
      BY <1>0, <1>5, <2>1, <2>6, TokensTyped DEF Register
    <3>2. Complete(Tokens) /\ Loading' /\ status' # "ready"
      BY <2>1, <2>2, <2>6, <3>1 DEF Complete, Known, Short, Loading, Scan
    <3>3. table' \in [Sensors -> Function \cup {None}]
      BY <1>0, <2>2, <2>3, <3>1 DEF Keep, RegistryTypeOK
    <3>4. RegistryTypeOK'
      BY <1>0, <1>5, <2>1, <2>4, <3>1, <3>3, TokensTyped DEF Register, RegistryTypeOK
    <3>5. Sound(line - 1)' /\ (unknown' = 0 => Unknown(line - 1)' = {})
      <4>1. Sound(line) /\ Unknown(line) = Unknown(line - 1)
        BY <1>0, <2>1, <3>2, SoundNext, UnknownNext DEF RegistryInvariant
      <4>2. Sound(line - 1)' = Sound(line) /\ Unknown(line - 1)' = Unknown(line)
        BY <3>1 DEF Sound, Unknown
      <4>. QED
        BY <2>1, <3>1, <4>1, <4>2 DEF RegistryInvariant
    <3>6. \A sensor \in Sensors : TableAt(sensor)'
      BY <1>0, <2>1, <3>1, <3>2, TableKept DEF RegistryInvariant
    <3>7. LoggedOrRefused'
      <4>. SUFFICES ASSUME NEW sensor \in Sensors, table'[sensor] # None
                    PROVE  \/ rows'[table'[sensor].id] # None
                           \/ table'[sensor].id \in refused'
        BY DEF LoggedOrRefused, MatchAll
      <4>1. CASE sensor = ToLower[Tokens.sensor]
        BY <1>0, <2>2, <2>3, <2>4, <3>1, <4>1 DEF Keep, RegistryTypeOK
      <4>2. CASE sensor # ToLower[Tokens.sensor]
        <5>1. table'[sensor] = table[sensor] /\ table[sensor] \in MatchAll
          BY <1>0, <2>2, <3>1, <4>2 DEF Keep, RegistryTypeOK, MatchAll
        <5>2. table[sensor].id \in Ids
          BY <1>0, <4>2, <5>1 DEF RegistryTypeOK, Function
        <5>. QED
          BY <1>0, <2>4, <5>1, <5>2 DEF LoggedOrRefused
      <4>. QED
        BY <4>1, <4>2
    <3>. QED
      BY <2>0, <3>2, <3>4, <3>5, <3>6, <3>7 DEF RegistryInvariant
  <2>. QED
    BY <2>5, <2>6
<1>6. CASE EndOfFile
  <2>1. UNCHANGED << file, input, line, table, unknown, rows, cut, refused, scans, faults >>
        /\ status = "scanning" /\ status' = "ready" /\ line = Len(input) + 1
    BY <1>6 DEF EndOfFile
  <2>2. RegistryTypeOK'
    BY <1>0, <2>1 DEF RegistryTypeOK
  <2>3. Loading /\ Sound(line - 1)' /\ (unknown = 0 => Unknown(line - 1)' = {})
    BY <2>1 DEF RegistryInvariant, Loading, Sound, Unknown
  <2>4. \A sensor \in Sensors : TableAt(sensor)'
    BY <2>1, <2>3 DEF RegistryInvariant, TableAt, LinesOf
  <2>5. LoggedOrRefused' /\ AsRead'
    BY <1>0, <1>r, <2>1 DEF LoggedOrRefused, MatchAll
  <2>. QED
    BY <2>1, <2>2, <2>3, <2>4, <2>5 DEF RegistryInvariant
<1>7. CASE ReadFails
  <2>1. /\ UNCHANGED << file, line, table, unknown, status, rows, refused, scans >>
        /\ status = "scanning" /\ cut' = TRUE /\ faults' \in Nat /\ input = file
        /\ Loading /\ status' # "ready"
    BY <1>0, <1>7 DEF ReadFails, Scan, Fault, AsRead, RegistryTypeOK, Loading
  <2>2. /\ input \in Seq(Line) /\ Tokens \in Line /\ Tokens = file[line]
        /\ line \in Nat /\ line - 1 \in 0 .. Len(input) - 1 /\ Len(input) \in Nat
    BY <1>0, <1>7, <2>1, TokensTyped DEF ReadFails, Scan, RegistryTypeOK, Tokens
  <2>3. /\ input' \in Seq(Line)
        /\ Len(input') \in {line - 1, line - 1 + 1}
        /\ \A i \in 1 .. (line - 1) : input'[i] = input[i]
    <3>1. input' \in {SubSeq(input, 1, line - 1)}
                     \cup {Append(SubSeq(input, 1, line - 1), t) : t \in Line}
      BY <1>7, <2>2, TornTyped DEF ReadFails
    <3>2. line - 1 \in 0 .. Len(input)
      BY <2>2
    <3>. QED
      BY <2>2, <3>1, <3>2, CutAt
  <2>4. RegistryTypeOK'
    <3>1. line' \in 1 .. Len(input') + 1
      BY <2>1, <2>2, <2>3
    <3>. QED
      BY <1>0, <2>1, <2>3, <3>1 DEF RegistryTypeOK
  <2>5. AsRead'
    <3>1. (line - 1) + 1 = line
      BY <2>2
    <3>2. ReadBefore(line - 1)'
      BY <1>7, <2>1, <2>2, <3>1 DEF ReadBefore, ReadFails
    <3>. QED
      BY <2>1, <2>2, <3>2 DEF AsRead
  <2>6. Sound(line - 1)' /\ (unknown = 0 => Unknown(line - 1)' = {})
    BY <2>1, <2>3 DEF RegistryInvariant, Sound, Unknown
  <2>7. \A sensor \in Sensors : TableAt(sensor)'
    <3>. SUFFICES ASSUME NEW sensor \in Sensors PROVE TableAt(sensor)'
      OBVIOUS
    <3>1. LinesOf(line - 1, sensor)' = LinesOf(line - 1, sensor)
      BY <2>1, <2>3 DEF LinesOf
    <3>2. \A k \in LinesOf(line - 1, sensor) : input'[k] = input[k]
      BY <2>3 DEF LinesOf
    <3>. QED
      BY <2>1, <3>1, <3>2 DEF RegistryInvariant, TableAt
  <2>8. LoggedOrRefused'
    BY <1>0, <2>1 DEF LoggedOrRefused, MatchAll
  <2>. QED
    BY <2>1, <2>4, <2>5, <2>6, <2>7, <2>8 DEF RegistryInvariant
<1>8. CASE StartAgain
  <2>1. line' = 1 /\ table' = [s \in Sensors |-> None] /\ status' = "scanning"
    BY <1>8 DEF StartAgain, Start
  <2>2. RegistryTypeOK'
    <3>1. file' \in Seq(Lines) /\ input' \in Seq(Line) /\ line' \in 1 .. Len(input') + 1
      BY <1>8, StartsTyped DEF StartAgain, Start
    <3>2. table' \in [Sensors -> Function \cup {None}] /\ unknown' \in Nat /\ refused' \subseteq Ids
      BY <1>8 DEF StartAgain, Start
    <3>3. cut' \in BOOLEAN
      BY <1>8, Zenon DEF StartAgain, Start
    <3>4. rows' \in [Ids -> Types \cup {None}] /\ {scans, faults}' \subseteq Nat
      BY <1>0, <1>8 DEF StartAgain, RegistryTypeOK
    <3>. QED
      BY <2>1, <3>1, <3>2, <3>3, <3>4 DEF RegistryTypeOK
  <2>3. LoggedOrRefused'
    BY <2>1 DEF LoggedOrRefused, MatchAll
  <2>4. Sound(line - 1)' /\ Unknown(line - 1)' = {} /\ \A sensor \in Sensors : TableAt(sensor)'
    <3>1. 1 .. (line' - 1) = {}
      BY <2>1
    <3>2. Unknown(line - 1)' = {} /\ \A s \in Sensors : LinesOf(line - 1, s)' = {}
      BY <3>1 DEF Unknown, LinesOf
    <3>. QED
      BY <2>1, <3>1, <3>2 DEF Sound, TableAt
  <2>5. AsRead'
    BY <1>8 DEF StartAgain, Start, AsRead
  <2>. QED
    BY <2>1, <2>2, <2>3, <2>4, <2>5 DEF RegistryInvariant
<1>9. CASE UNCHANGED registryVars
  BY <1>0, <1>9, <1>r
  DEF registryVars, RegistryInvariant, RegistryTypeOK, Loading, Sound, Unknown, TableAt, LinesOf,
      LoggedOrRefused, MatchAll
<1>. QED
  BY <1>1, <1>2, <1>3, <1>4, <1>5, <1>6, <1>7, <1>8, <1>9 DEF RegistryNext, ReadLine

LEMMA RegistrySafety == RegistrySpec => []RegistryInvariant
BY RegistryStarts, RegistryStep, PTL DEF RegistrySpec
-----------------------------------------------------------------------------
(* The reader stays within the input, and the two tables within the sensors, *)
(* the ids and the types of the configuration, over any number of scans.    *)
THEOREM RegistryTypeCorrect == RegistrySpec => []RegistryTypeOK
<1>1. RegistryInvariant => RegistryTypeOK
  BY DEF RegistryInvariant
<1>. QED
  BY <1>1, RegistrySafety, PTL

(* A service that has started has the functions of its configuration, for   *)
(* every configuration, and every order of faults and restarts.             *)
THEOREM StartedAsConfiguredHolds == RegistrySpec => []StartedAsConfigured
<1>1. RegistryInvariant => StartedAsConfigured
  <2>. SUFFICES ASSUME RegistryInvariant, status = "ready" PROVE StartedAsConfigured
    BY DEF StartedAsConfigured
  <2>. DEFINE lines(s) == LinesOf(Len(input), s)
  <2>1. Loading /\ RegistryTypeOK /\ Len(input) = line - 1
    BY DEF Loading, RegistryInvariant, RegistryTypeOK
  <2>2. ASSUME NEW spelling \in Spellings
        PROVE  MatchSensor(spelling) =
                   {FunctionOf(input[i]) :
                        i \in {k \in lines(ToLower[spelling]) :
                                   \A j \in lines(ToLower[spelling]) : j <= k}}
    <3>. DEFINE s == ToLower[spelling]
    <3>1. s \in Sensors
      BY RegistryAssumption
    <3>2. TableAt(s)
      BY <2>1, <3>1 DEF RegistryInvariant
    <3>0. LinesOf(line - 1, s) = lines(s)
      BY <2>1
    <3>3. CASE table[s] = None
      <4>1. lines(s) = {}
        BY <3>0, <3>2, <3>3 DEF TableAt
      <4>. QED
        BY <3>3, <4>1 DEF MatchSensor
    <3>4. CASE table[s] # None
      <4>1. PICK k \in lines(s) : table[s] = FunctionOf(input[k]) /\ \A j \in lines(s) : j <= k
        BY <3>0, <3>2, <3>4 DEF TableAt
      <4>2. lines(s) \subseteq Int
        BY <2>1 DEF LinesOf, RegistryTypeOK
      <4>3. \A i \in lines(s) : (\A j \in lines(s) : j <= i) <=> i = k
        BY <4>1, <4>2
      <4>4. {i \in lines(s) : \A j \in lines(s) : j <= i} = {k}
        BY <4>1, <4>3
      <4>. QED
        BY <3>4, <4>1, <4>4 DEF MatchSensor
    <3>. QED
      BY <3>3, <3>4
  <2>. QED
    BY <2>1, <2>2 DEF StartedAsConfigured, RegistryInvariant
<1>. QED
  BY <1>1, RegistrySafety, PTL

(* Every function has its row in fnct or was refused one by a fault.        *)
THEOREM LoggedOrRefusedHolds == RegistrySpec => []LoggedOrRefused
<1>1. RegistryInvariant => LoggedOrRefused
  BY DEF RegistryInvariant
<1>. QED
  BY <1>1, RegistrySafety, PTL
=============================================================================
