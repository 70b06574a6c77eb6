--------------------------- MODULE ObjectTransfer ---------------------------
(***************************************************************************)
(* What the simulated meter answers for one attribute or method            *)
(* (fee/meter_simulator/object_transfer.cpp, simulator_config.cpp).        *)
(*                                                                         *)
(* Nothing is measured: a load profile's rows are made from the capture    *)
(* period and the selected times, an event profile's rows get random times *)
(* and a register reads zero.  An object here is what the configuration    *)
(* says of it; a cell of a row is its type, because its value is always 0. *)
(* Times are natural numbers; an unsigned int is taken modulo Word.        *)
(***************************************************************************)
EXTENDS Integers, SequencesExt

CONSTANTS
    Profiles,   \* obis -> [type, period, clock, cells], config.profiles
    DataTypes,  \* <<class, obis, attr>> -> type, config.datas and .registers
    EventCode,  \* the obis of the event code object, 0000600B00FF
    Word,       \* 2^32
    Day,        \* 86400
    Zone,       \* how far local time is ahead of UTC
    Now,        \* the time of the request, time(NULL)
    MaxPoints,  \* 32
    RandMax     \* RAND_MAX

ASSUME ObjectTransferAssumption ==
    /\ {Word, Day, MaxPoints} \subseteq Nat \ {0}
    /\ {Zone, Now, RandMax} \subseteq Nat
    /\ Word % 2 = 0
    /\ \A p \in DOMAIN Profiles : Profiles[p].period \in Nat /\ Profiles[p].cells \in Seq(STRING)

-----------------------------------------------------------------------------
(* Answers                                                                 *)

Denied == [kind |-> "denied"]
Value(type, data) == [kind |-> "value", type |-> type, data |-> data]
\* One whose type, length and bytes nobody has set.
Uninitialised == Value("uninitialised", 0)
Table(rows) == [kind |-> "table", count |-> Len(rows), rows |-> rows]
\* The process stops: an integer division by zero, or memory that is not the program's.
Fault == [kind |-> "fault"]

\* A row shows its time only if that is not 0.
Row(time, cells) == [time |-> time, cells |-> cells]

\* A vector of rows that is empty counts as no answer.
TableOf(rows) == IF rows = <<>> THEN Denied ELSE Table(rows)

\* What a loop that pushes some elements of a vector leaves in another one: those at
\* the given places, in their order.
Picked(seq, places) ==
    FoldLeftDomain(LAMBDA sofar, i : IF i \in places THEN Append(sofar, seq[i]) ELSE sofar,
                   <<>>, seq)

-----------------------------------------------------------------------------
(* Load profiles                                                           *)

\* int e_s = end_time - start_time
SignedDifference(start, end) ==
    LET d == (end - start) % Word IN IF d < (Word \div 2) THEN d ELSE d - Word

\* The first local midnight after t, and the one that begins the day of t.
MidnightBefore(t) == (((t + Zone) \div Day) * Day) - Zone
MidnightAfter(t) == MidnightBefore(t) + Day

NextPeriodTime(start, period) ==
    CASE start % period = 0                    -> start
      [] start % period # 0 /\ period < Day    -> ((start \div period) * period) + period
      [] start % period # 0 /\ period = Day    -> MidnightAfter(start)
      [] OTHER                                 -> start

\* A day that was asked for only in part still has a point, unless it is today.
WholePeriods(start, length, period) ==
    IF length \div period = 0 /\ period = Day /\ start < MidnightBefore(Now)
      THEN 1
      ELSE length \div period

\* Fault: a row is added although no end lies on the period.
ExtraPointAlways(start, end, length, period) == IF length > period THEN 1 ELSE 0

ExtraPoint(start, end, length, period) ==
    IF (start % period = 0 \/ end % period = 0) /\ length > period THEN 1 ELSE 0

\* Fault: the cap of 32 rows is forgotten.
AtMostUncapped(points) == points
AtMost(points) == IF points >= MaxPoints THEN MaxPoints ELSE points

Points(start, end, period) ==
    LET length == SignedDifference(start, end)
    IN  IF period = 0 \/ length < 0
          THEN 0
          ELSE AtMost(WholePeriods(start, length, period)
                        + ExtraPoint(start, end, length, period))

\* Cells of other types are left out of a row.
IsFormatted(type) == type \in {"DoubleLongUnsigned", "Unsigned"}
FormattedCells(p) == Picked(p.cells, {k \in DOMAIN p.cells : IsFormatted(p.cells[k])})

LoadRows(p, start, end) ==
    LET points == Points(start, end, p.period)
        first == NextPeriodTime(start, p.period)
    IN  IF p.clock
          THEN [i \in 1..points |->
                  Row((first + (p.period * (i - 1))) % Word, FormattedCells(p))]
          ELSE <<>>

-----------------------------------------------------------------------------
(* Event profiles: one or two events at random times                       *)

\* Fault: the range is one second too long at its end.
EventRangeTooLong(start, end) == SignedDifference(start, end + 2)

\* int range = end_time - start_time + 1
EventRange(start, end) == SignedDifference(start, end + 1)

EventTimes(start, end) ==
    LET range == EventRange(start, end)
        width == IF range < 0 THEN -range ELSE range
    IN  {(start + (r % width)) % Word : r \in 0..RandMax}

EventTables(p, start, end) ==
    IF ~p.clock THEN {Denied}
    ELSE IF EventRange(start, end) = 0 THEN {Fault}
    ELSE {Table(rows) : rows \in
            UNION {[1..n -> {Row(t, <<"Enum">>) : t \in EventTimes(start, end)}] : n \in {1, 2}}}

-----------------------------------------------------------------------------
(* The other attributes of a profile, and the other objects                *)

\* One row of four cells for each capture object, the clock among them.
CaptureObjects(p) ==
    LET cells == <<"LongUnsigned", "OctetString", "Integer", "LongUnsigned">>
    IN  [i \in 1..(Len(p.cells) + IF p.clock THEN 1 ELSE 0) |-> Row(0, cells)]

ProfileAnswers(p, attr, start, end) ==
    CASE p.type \notin {"load profile", "event profile"} -> {Denied}
      [] attr = 2 /\ p.type = "load profile"  -> {TableOf(LoadRows(p, start, end))}
      [] attr = 2 /\ p.type = "event profile" -> EventTables(p, start, end)
      [] attr = 3 -> {TableOf(CaptureObjects(p))}
      [] attr = 4 -> {Value("DoubleLongUnsigned", p.period)}
      [] OTHER    -> {Denied}

\* An octet string leaves the answer as it was and reports success.
RegisterAnswers(d) ==
    IF <<d.class, d.obis, d.attr>> \notin DOMAIN DataTypes
      THEN {Denied}
      ELSE LET type == DataTypes[<<d.class, d.obis, d.attr>>]
           IN  CASE type \in {"DoubleLongUnsigned", "Unsigned", "Enum"} -> {Value(type, 0)}
                 [] type = "DateTime"    -> {Value(type, Now)}
                 [] type = "OctetString" -> {Uninitialised}
                 [] OTHER                -> {Denied}

EventCodeAnswers == {Value("Enum", code) : code \in 1..20}

ImageAnswers(attr, its) ==
    CASE attr = 2 -> {Value("DoubleLongUnsigned", 192)}
      [] attr = 3 -> {Value("BitString", 1)}
      [] attr = 4 -> {Value("DoubleLongUnsigned", 16777215)}
      [] attr = 5 -> {Value("Boolean", 1)}
      [] attr = 6 -> {Value("Enum", its)}
      [] OTHER    -> {Denied}

DisconnectAnswers(attr) ==
    CASE attr = 2 -> {Value("Boolean", 1)}
      [] attr = 3 -> {Value("Enum", 1)}
      [] attr = 4 -> {Value("Enum", 3)}
      [] OTHER    -> {Denied}

\* What a read of d, a [class, obis, attr], may be answered in the image state its.
GetAnswers(d, start, end, its) ==
    CASE d.class = 7 /\ d.obis \in DOMAIN Profiles ->
              ProfileAnswers(Profiles[d.obis], d.attr, start, end)
      [] d.class \in {1, 3} /\ d.obis = EventCode -> EventCodeAnswers
      [] d.class \in {1, 3} /\ d.obis # EventCode -> RegisterAnswers(d)
      [] d.class = 18 -> ImageAnswers(d.attr, its)
      [] d.class = 70 -> DisconnectAnswers(d.attr)
      [] OTHER        -> {Denied}

\* The image state that each method of the image transfer object leads to.
ImageMethods == [m \in {1, 3, 4} |-> CASE m = 1 -> 1 [] m = 3 -> 3 [] m = 4 -> 6]

ActionAccepted(d) == d.class = 18 /\ d.attr \in DOMAIN ImageMethods
=============================================================================
