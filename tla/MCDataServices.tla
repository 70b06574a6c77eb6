--------------------------- MODULE MCDataServices ---------------------------
(* A small configuration of the meter.  The times of simulator_config.xml   *)
(* are scaled: a quarter of an hour is 3 ticks and a day 12; bytes are not. *)
EXTENDS DataServices

LoadCells == <<"Unsigned", "DoubleLongUnsigned", "DoubleLongUnsigned">>

MCProfiles ==
    [quarter |-> [type |-> "load profile", period |-> 3, clock |-> TRUE, cells |-> LoadCells],
     daily   |-> [type |-> "load profile", period |-> 12, clock |-> TRUE,
                  cells |-> <<"Enum", "Unsigned">>],
     monthly |-> [type |-> "load profile", period |-> 20, clock |-> TRUE, cells |-> LoadCells],
     wide    |-> [type |-> "load profile", period |-> 3, clock |-> TRUE,
                  cells |-> [i \in 1..6 |-> "DoubleLongUnsigned"]],
     noclock |-> [type |-> "load profile", period |-> 3, clock |-> FALSE, cells |-> LoadCells],
     event   |-> [type |-> "event profile", period |-> 3, clock |-> TRUE, cells |-> <<"Enum">>],
     other   |-> [type |-> "no profile", period |-> 3, clock |-> TRUE, cells |-> LoadCells]]

Object(class, obis, attr) == <<class, obis, attr>>

MCDataTypes ==
    [o \in {Object(3, "energy", 2), Object(1, "status", 2), Object(1, "mode", 2),
            Object(1, "time", 2), Object(1, "title", 2), Object(1, "text", 2)} |->
        CASE o[2] = "energy" -> "DoubleLongUnsigned" [] o[2] = "status" -> "Unsigned"
          [] o[2] = "mode"   -> "Enum"               [] o[2] = "time"   -> "DateTime"
          [] o[2] = "title"  -> "OctetString"        [] o[2] = "text"   -> "VisibleString"]

D(class, obis, attr) == [class |-> class, obis |-> obis, attr |-> attr]

AllDescriptors ==
    {D(7, p, 2) : p \in DOMAIN MCProfiles \cup {"unknown"}}
        \cup {D(7, "quarter", a) : a \in {3, 4, 5}}
        \cup {D(o[1], o[2], o[3]) : o \in DOMAIN MCDataTypes}
        \cup {D(1, "eventcode", 2), D(3, "unknown", 2), D(8, "clock", 2)}
        \cup {D(18, "image", a) : a \in 1..7} \cup {D(70, "relay", a) : a \in 1..4}

\* Every selection over three days and a bit, wherever its ends are.
AllSelections == {NoSelection} \cup {Between(s, e) : s \in 0..26, e \in 0..26}

\* Of a list: a whole profile, one that has to be cut, one with rows that a whole buffer
\* cannot hold, and what is not understood.
SomeItems ==
    {[d |-> D(7, p, 2), sel |-> s] : p \in {"quarter", "event"},
        s \in {Between(4, 9), Between(1, 26), Between(7, 6), BadSelection}}
    \cup {[d |-> D(7, "wide", 2), sel |-> Between(1, 26)]}
    \cup {[d |-> d, sel |-> NoSelection] :
        d \in {D(7, "quarter", 3), D(7, "quarter", 4), D(3, "energy", 2), D(1, "status", 2),
               D(1, "title", 2), D(18, "image", 6), D(8, "clock", 2)}}
=============================================================================
