------------------------------ MODULE Message ------------------------------
(***************************************************************************)
(* The message.accepted events that reach the functions, and the numbers   *)
(* they carry (pkg/messaging/events/events.go, diwise/senml).              *)
(*                                                                         *)
(* A message is reduced to what the functions read of it: the function     *)
(* registered for its device, the time it was accepted, the metadata       *)
(* records (tenant, source, location), the object type of the pack, the    *)
(* boolean record 5500 and the numeric records.  Absent records are None.  *)
(* All the records of a pack carry one time.                               *)
(*                                                                         *)
(* Time is counted from Go's zero time.Time, which is 0.  Numbers are      *)
(* fixed-point, finer than what the functions round them to.               *)
(***************************************************************************)
EXTENDS Integers

CONSTANTS
    Functions,   \* the functions of the registry, one per configured sensor
    MetaKeys,    \* what a function learns lazily: tenant, source, location
    MetaValues,  \* the values of these
    None         \* nothing: an absent record, field, function or message

ASSUME NoneAssumption ==
    /\ None \notin Functions
    /\ None \notin MetaValues
    /\ None \notin BOOLEAN
    /\ None \notin Int

ZeroTime == 0

(* Object types: pkg/lwm2m/constants.go. *)
Objects ==
    {"digitalinput", "presence", "temperature", "power", "energy",
     "airquality", "distance", "fillinglevel", "other"}

(* Numeric resources. *)
DigitalInputCounter     == "5501"
SensorValue             == "5700"
ActualFillingPercentage == "2"
ActualFillingLevel      == "3"
HighThreshold           == "4"

Resources == {"5501", "5700", "1", "2", "3", "4", "5", "15", "17", "19"}

(* What MatchSensor finds for the device of the pack is part of the message, *)
(* None when no function is configured for that device.                      *)
Message ==
    [fn       : Functions \cup {None},
     accepted : Nat \ {ZeroTime},
     meta     : [MetaKeys -> MetaValues \cup {None}],
     obj      : Objects,
     state    : BOOLEAN \cup {None},
     value    : [Resources -> Int \cup {None}],
     time     : Nat]

(* int(math.Ceil(v)) and the truncating int(v), int32(v) of a count. *)
Ceil(tenths)     == -((-tenths) \div 10)
Truncate(tenths) == IF tenths < 0 THEN -((-tenths) \div 10) ELSE tenths \div 10

(* math.Round(v / unit): to the nearest, halves away from zero. *)
Round(v, unit) ==
    IF v < 0 THEN -((unit \div 2 - v) \div unit) ELSE (v + unit \div 2) \div unit

Abs(v) == IF v < 0 THEN -v ELSE v

(* The value stored for a boolean. *)
Number(b) == IF b THEN 1 ELSE 0
=============================================================================
