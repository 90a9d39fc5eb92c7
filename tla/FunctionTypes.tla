--------------------------- MODULE FunctionTypes ---------------------------
(***************************************************************************)
(* What NewRegistry chooses by the type of a function: its memory, its     *)
(* constructor, its Handle method and the label of its default history.    *)
(***************************************************************************)
EXTENDS Presence, Counter, DigitalInput, WaterQuality, Stopwatch,
        Timer, Building, AirQuality, Level

FunctionTypeNames ==
    {"presence", "counter", "digitalinput", "waterquality", "stopwatch",
     "timer", "building", "airquality", "level"}

Memory(type) ==
    CASE type = "presence"     -> PresenceMem
      [] type = "counter"      -> CounterMem
      [] type = "digitalinput" -> DigitalInputMem
      [] type = "waterquality" -> WaterQualityMem
      [] type = "stopwatch"    -> StopwatchMem
      [] type = "timer"        -> TimerMem
      [] type = "building"     -> BuildingMem
      [] type = "airquality"   -> AirQualityMem
      [] type = "level"        -> LevelMem

(* Only some constructors take the last logged value. *)
New(type, v) ==
    CASE type = "presence"     -> PresenceNew(v)
      [] type = "counter"      -> CounterNew
      [] type = "digitalinput" -> DigitalInputNew(v)
      [] type = "waterquality" -> WaterQualityNew
      [] type = "stopwatch"    -> StopwatchNew
      [] type = "timer"        -> TimerNew
      [] type = "building"     -> BuildingNew
      [] type = "airquality"   -> AirQualityNew
      [] type = "level"        -> LevelNew(v)

Handle(type, s, m, now) ==
    CASE type = "presence"     -> PresenceHandle(s, m)
      [] type = "counter"      -> CounterHandle(s, m)
      [] type = "digitalinput" -> DigitalInputHandle(s, m)
      [] type = "waterquality" -> WaterQualityHandle(s, m, now)
      [] type = "stopwatch"    -> StopwatchHandle(s, m, now)
      [] type = "timer"        -> TimerHandle(s, m)
      [] type = "building"     -> BuildingHandle(s, m)
      [] type = "airquality"   -> AirQualityHandle(s, m, now)
      [] type = "level"        -> LevelHandle(s, m)

(* The count that the handler takes from a message in place of its own. *)
CountTaken(type, m) ==
    LET count == m.value[DigitalInputCounter]
    IN  CASE type = "counter" /\ m.state # None /\ count # None -> Ceil(count)
          [] type = "digitalinput" /\ count # None              -> Truncate(count)
          [] OTHER                                              -> None

(* The handler of a digital input stores "state" and "counter": nothing is *)
(* ever stored under the label it is restored from.                        *)
DefaultHistoryLabel(type) ==
    CASE type = "presence"     -> "presence"
      [] type = "counter"      -> "count"
      [] type = "digitalinput" -> "digitalinput"
      [] type = "waterquality" -> "temperature"
      [] type = "stopwatch"    -> "duration"
      [] type = "timer"        -> "time"
      [] type = "building"     -> "power"
      [] type = "airquality"   -> "temperature"
      [] type = "level"        -> "level"
=============================================================================
