------------------------------- MODULE Level -------------------------------
(***************************************************************************)
(* functions/levels/levels.go: a level from a distance sensor above the    *)
(* surface, or from a sensor of the filling level.                         *)
(* Lengths are in half millimetres and percentages in half thousandths of  *)
(* a percent, one below what the code takes for a change of either; the    *)
(* cosine of the mount angle is in thousandths.  A percentage that the     *)
(* code calculates is cut off to this grid.  Values exactly one thousandth *)
(* apart are a change here; in floating point they may fall just below it. *)
(***************************************************************************)
EXTENDS FunctionRun

CONSTANT LevelConfig    \* the configuration of the level functions

ASSUME LevelConfigAssumption ==
    LevelConfig \in [maxDistance : Int, maxLevel : Nat, meanLevel : Int,
                     offsetLevel : Int, cosAlpha : 1 .. 1000]

Metre == 2000

Hundred == 200000

(* math.Abs(value) >= 0.001 *)
IsNotZero(value) == Abs(value) >= 2

LevelHasChanged(previous, new) == IsNotZero(new - previous)

LevelMem ==
    [maxLevel : Nat,
     current  : Int,
     percent  : Int \cup {None},
     offset   : Int \cup {None}]

(* math.Min(current*100.0/maxLevel, 100.0): no lower bound *)
Percentage(current, maxLevel) ==
    LET pct == (current * Hundred) \div maxLevel
    IN  IF pct > Hundred THEN Hundred ELSE pct

(* meanLevel is optional: zero means not configured. *)
OffsetOf(current) ==
    IF IsNotZero(LevelConfig.meanLevel) THEN current - LevelConfig.meanLevel ELSE None

(* Only New keeps the percentage from being negative. *)
LevelNew(v) ==
    [maxLevel |-> LevelConfig.maxLevel,
     current  |-> v,
     percent  |-> IF ~IsNotZero(LevelConfig.maxLevel) THEN None
                  ELSE IF v < 0 THEN 0 ELSE Percentage(v, LevelConfig.maxLevel),
     offset   |-> OffsetOf(v)]

(* The percentage follows the level when there is a maximum to relate it to. *)
Repercent(s) ==
    [s EXCEPT !.percent = IF IsNotZero(s.maxLevel) THEN Percentage(s.current, s.maxLevel) ELSE @]

(* The new percentage is stored if there was none, or it has changed. *)
PercentStored(previous, new) ==
    /\ new # None
    /\ previous = None \/ LevelHasChanged(previous, new)

PercentRow(new, t, then) == OnChange("percent", new.percent, t, then)

(* math.Round((maxDistance-distance)*cosAlpha*100)/100: to whole centimetres *)
Centimetre == 20

LevelAt(distance) ==
    Centimetre * Round((LevelConfig.maxDistance - distance) * LevelConfig.cosAlpha, 1000 * Centimetre)

(* handleDistance: the level is taken before it is compared, so that a small *)
(* difference to what a filling level has left is taken and not stored; then *)
(* the percentage, then the offset.                                          *)
HandleDistance(s, m) ==
    LET v       == m.value[SensorValue]
        raised  == [s EXCEPT !.current = LevelAt(v + LevelConfig.offsetLevel)]
        scaled  == Repercent(raised)
        new     == [scaled EXCEPT !.offset = IF IsNotZero(LevelConfig.meanLevel)
                                             THEN scaled.current - LevelConfig.meanLevel ELSE @]
        level(then) == OnChange("level", new.current, m.time, then)
    IN  IF v = None THEN Rejected(s)
        ELSE IF ~LevelHasChanged(s.current, raised.current) THEN Unchanged(raised)
        ELSE IF IsNotZero(s.maxLevel) /\ PercentStored(s.percent, scaled.percent)
             THEN Run(raised,
                      << level(scaled), PercentRow(scaled, m.time, new) >>,
                      "changed", "join")
        ELSE Run(raised, << level(new) >>, "changed", "join")

(* Mutant: the level is taken before it is compared, as of a distance. *)
HandleFillingLevelCreeps(s, m) ==
    LET filled == [s EXCEPT !.current = m.value[ActualFillingLevel]]
    IN  IF m.value[ActualFillingLevel] = None THEN Rejected(s)
        ELSE IF ~LevelHasChanged(s.current, filled.current) THEN Unchanged(filled)
        ELSE Run(filled, << OnChange("level", filled.current, m.time, filled) >>,
                 "changed", "join")

(* handleFillingLevel: the percentage first, unless an offset is configured, *)
(* then the level, from which a percentage is calculated again. When the     *)
(* percentage has not changed the level is not looked at; when the level has *)
(* not changed, a new percentage is stored but the message has changed       *)
(* nothing, and an error of storing it is lost.                              *)
HandleFillingLevel(s, m) ==
    LET p == m.value[ActualFillingPercentage]
        l == m.value[ActualFillingLevel]
        h == m.value[HighThreshold]
        t == m.time
        usesPercent == p # None /\ ~IsNotZero(LevelConfig.offsetLevel)
        raised == [s EXCEPT !.maxLevel = IF h # None /\ h > @ THEN h ELSE @]
        same   == s.percent # None /\ ~LevelHasChanged(s.percent, p)
        shown  == [raised EXCEPT !.percent = IF usesPercent THEN p ELSE @]
        filled == Repercent([shown EXCEPT !.current = l + LevelConfig.offsetLevel])
        shownRow(then) == << PercentRow(shown, t, then) >>
        level == OnChange("level", filled.current, t, filled)
        filledRows ==
            IF IsNotZero(shown.maxLevel) /\ PercentStored(shown.percent, filled.percent)
            THEN << PercentRow(filled, t, filled), level >> ELSE << level >>
    IN  CASE p = None /\ l = None -> Rejected(s)
          [] usesPercent /\ s.percent = None ->
               Run(shown, shownRow(shown), "changed", "stop")
          [] usesPercent /\ same -> Unchanged(raised)
          [] usesPercent /\ s.percent # None /\ ~same /\ l = None ->
               Run(shown, shownRow(shown), "changed", "join")
          [] usesPercent /\ s.percent # None /\ ~same /\ l # None ->
               IF LevelHasChanged(s.current, filled.current)
               THEN Run(shown, shownRow(filled) \o filledRows, "changed", "join")
               ELSE Run(shown, shownRow(shown), "unchanged", "drop")
          [] ~usesPercent /\ ~(p = None /\ l = None) ->
               IF l # None /\ LevelHasChanged(s.current, filled.current)
               THEN Run(filled, filledRows, "changed", "join")
               ELSE Unchanged(raised)

LevelHandle(s, m) ==
    CASE m.obj = "distance"     -> HandleDistance(s, m)
      [] m.obj = "fillinglevel" -> HandleFillingLevel(s, m)
      [] OTHER                  -> Rejected(s)
=============================================================================
