---------------------------- MODULE DataServices ----------------------------
(***************************************************************************)
(* The data requests of an association: get, get-with-list and action      *)
(* (meter_handler::process_data, fee/meter_simulator/meter_handler.cpp,    *)
(* and the response formats of common/ptcl_codec/ptcl_module_dlms47.cpp).  *)
(* MeterHandler is about who may send what and how it is protected; here   *)
(* it is about the answer.                                                 *)
(***************************************************************************)
EXTENDS ObjectTransfer, FiniteSets

CONSTANTS
    Descriptors,    \* the attributes that are asked for one by one
    Selections,     \* the selections that may go with one
    ListItems,      \* the [d, sel] of a get-with-list
    MaxList,        \* at most so many of them
    ListLimit,      \* 1000 bytes: no row is begun after that many
    AreaSize        \* 1024 bytes of buf_data_area, in which an answer is formatted

VARIABLES
    its_state,      \* the state of the image transfer
    request,        \* the request that is being answered
    response        \* its answer

vars == <<its_state, request, response>>

None == [kind |-> "none"]

\* A selection of rows by time; without one both times are 0.
NoSelection == [kind |-> "none", start |-> 0, end |-> 0]
\* One whose dates get_list_data does not understand.
BadSelection == [kind |-> "bad", start |-> 0, end |-> 0]
Between(start, end) == [kind |-> "range", start |-> start, end |-> end]

\* Times are unsigned ints.
ASSUME DataServicesAssumption ==
    /\ {MaxList, ListLimit, AreaSize} \subseteq Nat
    /\ Selections \cup {item.sel : item \in ListItems}
         \subseteq {NoSelection, BadSelection}
                     \cup {Between(start, end) : start, end \in 0..(Word - 1)}

Answers(d, sel) == GetAnswers(d, sel.start, sel.end, its_state)

Init ==
    /\ its_state = 1
    /\ request = None
    /\ response = None

-----------------------------------------------------------------------------
(* The formats                                                             *)

CellLength(type) ==
    CASE type \in {"DoubleLongUnsigned"}        -> 5
      [] type \in {"Unsigned", "Enum", "Integer"} -> 2
      [] type = "LongUnsigned"                  -> 3
      [] type = "OctetString"                   -> 8

Total(lengths) == FoldLeft(LAMBDA sum, n : sum + n, 0, lengths)

RowLength(row) ==
    (IF row.time = 0 THEN 2 ELSE 16) + Total([k \in DOMAIN row.cells |-> CellLength(row.cells[k])])

TableLength(table) == 3 + Total([i \in DOMAIN table.rows |-> RowLength(table.rows[i])])

\* Nothing guards buf_data_area: a table may be longer, and the length of an
\* uninitialised answer is any number.
Overruns(a) == a = Uninitialised \/ (a.kind = "table" /\ 3 + TableLength(a) > AreaSize)

\* What comes of an answer: it gets through or, if memory was overrun, the process stops.
Sent(a) == IF Overruns(a) THEN {a, Fault} ELSE {a}

GetNormal ==
    /\ request = None
    /\ \E d \in Descriptors, sel \in Selections :
          /\ request' = [kind |-> "get", items |-> <<[d |-> d, sel |-> sel]>>]
          /\ \E a \in Answers(d, sel) : response' \in Sent(a)
    /\ UNCHANGED its_state

-----------------------------------------------------------------------------
(* A get-with-list: tables and other answers are collected apart           *)

AddRow(sofar, row) ==
    IF sofar.length > ListLimit
      THEN sofar
      ELSE [length |-> sofar.length + RowLength(row), rows |-> Append(sofar.rows, row)]

\* The count of rows is written before the rows are.
AddTable(sofar, table) ==
    LET added == FoldLeft(AddRow, [length |-> sofar.length + 3, rows |-> <<>>], table.rows)
    IN  [length |-> added.length, tables |-> Append(sofar.tables, [table EXCEPT !.rows = added.rows])]

TablePacket(tables) == FoldLeft(AddTable, [length |-> 4, tables |-> <<>>], tables)
FormatTables(tables) == TablePacket(tables).tables

IsTable(a) == a.kind = "table"
\* Fault: denials are not counted among the other objects.
IsOtherButDenied(a) == a.kind = "value"
IsOther(a) == a.kind # "table"
IsWritten(a) == a.kind = "value" /\ a # Uninitialised

(* Every value is kept as a pointer to the variable of one iteration of    *)
(* the loop, and read after it: it still holds its value or, when the      *)
(* iterations share the storage, what was last written there.              *)
Kept(answers, shared) ==
    LET last == SelectLastInSeq(answers, IsWritten)
    IN  [i \in DOMAIN answers |->
            IF shared /\ last # 0 /\ answers[i].kind = "value" THEN answers[last] ELSE answers[i]]

TablesOf(answers) == Picked(answers, {i \in DOMAIN answers : IsTable(answers[i])})

\* The second format writes over what the first has put in the packet.
ListResponse(answers, shared) ==
    LET kept == Kept(answers, shared)
        tables == TablesOf(answers)
        others == Picked(kept, {i \in DOMAIN kept : IsOther(kept[i])})
    IN  [kind |-> "list", items |-> IF others # <<>> THEN others ELSE FormatTables(tables)]

\* The limit on the length is looked at before a row, not before a table.
ListOverruns(answers, shared) ==
    \/ Uninitialised \in Range(Kept(answers, shared))
    \/ TablePacket(TablesOf(answers)).length > AreaSize

\* get_list_data stops at a selection that it does not understand.
Understood(items) ==
    LET bad == SelectInSeq(items, LAMBDA item : item.sel.kind = "bad")
    IN  IF bad = 0 THEN items ELSE SubSeq(items, 1, bad - 1)

\* Every combination of what the reads of a list may be answered.
ListAnswers(items) ==
    LET possible == [i \in DOMAIN items |-> Answers(items[i].d, items[i].sel)]
    IN  {answers \in [DOMAIN items -> UNION Range(possible)] :
            \A i \in DOMAIN items : answers[i] \in possible[i]}

ListResponses(items) ==
    IF items = <<>>
      THEN {[kind |-> "unanswered"]}
      ELSE UNION {IF Fault \in Range(answers)
                    THEN {Fault}
                    ELSE {ListResponse(answers, shared) : shared \in BOOLEAN}
                           \cup {Fault : shared \in {b \in BOOLEAN : ListOverruns(answers, b)}} :
                  answers \in ListAnswers(items)}

GetWithList ==
    /\ request = None
    /\ \E n \in 0..MaxList : \E items \in [1..n -> ListItems] :
          /\ request' = [kind |-> "list", items |-> items]
          /\ response' \in ListResponses(Understood(items))
    /\ UNCHANGED its_state

Action ==
    /\ request = None
    /\ \E d \in Descriptors :
          /\ request' = [kind |-> "action", items |-> <<[d |-> d, sel |-> NoSelection]>>]
          /\ response' = [kind |-> "action", result |-> IF ActionAccepted(d) THEN 0 ELSE 3]
          /\ its_state' = IF ActionAccepted(d) THEN ImageMethods[d.attr] ELSE its_state

\* Any other kind of get: neither branch fills the packet.
GetOther ==
    /\ request = None
    /\ request' = [kind |-> "other", items |-> <<>>]
    /\ response' = [kind |-> "unanswered"]
    /\ UNCHANGED its_state

\* The next request; after a division by zero there is no process to take it.
Done ==
    /\ request # None
    /\ response # Fault
    /\ request' = None
    /\ response' = None
    /\ UNCHANGED its_state

Next == GetNormal \/ GetWithList \/ Action \/ GetOther \/ Done

Spec == Init /\ [][Next]_vars

-----------------------------------------------------------------------------
(* Properties                                                              *)

Asked(n) == request.items[n]
IsRead(type) ==
    /\ request.kind = "get"
    /\ Asked(1).d.class = 7
    /\ Asked(1).d.attr = 2
    /\ Asked(1).d.obis \in DOMAIN Profiles
    /\ Profiles[Asked(1).d.obis].type = type

\* What the answers would be one by one, and that they fit in their buffer.
Singly(item) == GetAnswers(item.d, item.sel.start, item.sel.end, its_state)
FitsAlone(item) == \A a \in Singly(item) : ~Overruns(a)

\* The times from start to end at which a profile of the period takes its values.
Captures(start, end, period) == {t \in start..end : t % period = 0}

\* The image state and the rows of a table are what the formats can carry:
\* never more rows than a profile is allowed to have.
TypeOK ==
    /\ its_state \in {1, 3, 6}
    /\ request.kind \in {"none", "get", "list", "action", "other"}
    /\ response.kind \in {"none", "denied", "value", "table", "fault", "list", "action", "unanswered"}
    /\ response.kind = "table" => response.count = Len(response.rows)
    /\ IsRead("load profile") /\ response.kind = "table" => response.count <= MaxPoints

\* The rows of a load profile with a period below a day (calc_points,
\* get_next_period_time) are the captures of the selected times, in order, from
\* the first on: none is made up and none is skipped.  Only the last one may be
\* missing, unless there are more of them than a profile may have.  The rows must fit
\* in the buffer that they are formatted in.
RowsAreCaptures ==
    LET sel == Asked(1).sel
        period == Profiles[Asked(1).d.obis].period
        captures == Captures(sel.start, sel.end, period)
        rows == IF response.kind = "table" THEN response.rows ELSE <<>>
    IN  IsRead("load profile") /\ FitsAlone(Asked(1)) /\ Profiles[Asked(1).d.obis].clock /\ sel.kind = "range"
          /\ period \in 1..(Day - 1)
          /\ sel.end - sel.start \in (-(Word \div 2))..((Word \div 2) - 1)
        => /\ \A i \in DOMAIN rows :
                /\ rows[i].time \in captures
                /\ Cardinality({t \in captures : t < rows[i].time}) = i - 1
           /\ Len(rows) < MaxPoints => Cardinality(captures) - Len(rows) \in {0, 1}

\* The events that an event profile makes up (format_profile_event_attr_2) lie in
\* the selected times, however the random numbers fall.
EventsAreInSelection ==
    LET sel == Asked(1).sel
    IN  IsRead("event profile") /\ FitsAlone(Asked(1)) /\ Profiles[Asked(1).d.obis].clock
          /\ sel.start <= sel.end /\ sel.end - sel.start < (Word \div 2) - 1
        => /\ response.kind = "table"
           /\ \A i \in DOMAIN response.rows : response.rows[i].time \in sel.start..sel.end

IsTabular(item) == \A a \in Singly(item) : a.kind = "table"
FitsList(items) ==
    \A answers \in ListAnswers(items) :
        4 + Total([i \in DOMAIN answers |-> TableLength(answers[i])]) <= ListLimit

\* A get-with-list agrees with the same reads made one by one: profiles that fit
\* in one packet are answered with their tables, in order, and objects without
\* rows with a denial exactly where a single read is denied, and a value that
\* one of them has anywhere else.
ListAgreesWithSingles ==
    LET items == Understood(request.items)
    IN  response.kind = "list" =>
        /\ (\A i \in DOMAIN items : IsTabular(items[i])) /\ FitsList(items) =>
              /\ Len(response.items) = Len(items)
              /\ \A i \in DOMAIN items : response.items[i] \in Singly(items[i])
        /\ (\A i \in DOMAIN items : \A a \in Singly(items[i]) : a.kind # "table") =>
              /\ Len(response.items) = Len(items)
              /\ \A i \in DOMAIN items :
                    /\ response.items[i] = Denied <=> Denied \in Singly(items[i])
                    /\ response.items[i] \in UNION {Singly(item) : item \in Range(items)}

\* Every descriptor of a list has an answer of its own, as in the exchange that
\* bin/ records.  The code does not keep this: see EveryDescriptorIsAnswered's run.
EveryDescriptorIsAnswered ==
    response.kind = "list" /\ Understood(request.items) = request.items
        => Len(response.items) = Len(request.items)
=============================================================================
