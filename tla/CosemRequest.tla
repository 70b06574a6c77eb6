---------------------------- MODULE CosemRequest ----------------------------
(***************************************************************************)
(* From the bytes of a get or action request to what the meter is asked    *)
(* (common/ptcl_codec/asn_parser, ptcl_cosem_dlms.cpp, and process_data in *)
(* fee/meter_simulator/meter_handler.cpp), and how a client of the same    *)
(* library writes those bytes (ptcl_module_dlms47.cpp).                    *)
(*                                                                         *)
(* The parsers call each other; here the calls that are still to be made   *)
(* are on a stack.  They leave a flat list of results, in which the        *)
(* request is then looked up by position.  Types of the grammar that only  *)
(* responses use are left out.                                             *)
(***************************************************************************)
EXTENDS Integers, SequencesExt

CONSTANTS
    Requests,  \* what clients ask
    Summer     \* the hours in which daylight saving time is in force

VARIABLES
    request,   \* the request that is parsed
    buf,       \* its bytes
    todo,      \* the parsers still to run, the next one first
    pos,       \* how many bytes have been read
    results,   \* rs_
    verdict,   \* "parsing", or what process_data does in the end
    asked      \* the attributes or methods that the meter is asked for

vars == <<request, buf, todo, pos, results, verdict, asked>>

-----------------------------------------------------------------------------
(* The client.                                                             *)

Short(n) == <<n \div 256, n % 256>>

\* localtime of a time: its hour stands for all of it.
LocalHour(time) == IF time \in Summer THEN time + 1 ELSE time

\* The last byte of a date_time.  This library always writes "zero"; other clients say
\* whether it is daylight saving time, or that they do not know.
Status(sel, time) ==
    CASE sel.status = "zero" -> 0
      [] sel.status = "set" -> IF time \in Summer THEN 128 ELSE 0
      [] sel.status = "unknown" -> 255

Date(sel, time) == <<7, 230, 1, 1, 1, LocalHour(time), 0, 0, 0, 128, 0, Status(sel, time)>>

\* A value is a tag and bytes, whose number is between them when the tag does not give it.
Value(tag, bytes) == <<tag>> \o bytes
Octets(bytes) == <<9, Len(bytes)>> \o bytes

\* instance_specific, as a date_time or as an octet string.
Instance(sel, time) ==
    IF sel.asDate THEN Value(25, Date(sel, time)) ELSE Octets(Date(sel, time))

\* A captured object: class, logical name, attribute and data index.
Column(class) ==
    <<2, 4>> \o Value(18, Short(class)) \o Octets(<<0, 0, 1, 0, 0, 255>>)
        \o Value(15, <<2>>) \o Value(18, <<0, 0>>)

Columns(n) == FlattenSeq([i \in 1..n |-> Column(3)])

Selection(sel) ==
    CASE sel.kind = "none" -> <<0>>
      [] sel.kind = "range" ->
            <<1, 1, 2, 4>> \o Column(8) \o Instance(sel, sel.start) \o Instance(sel, sel.end)
                \o (<<1, sel.columns>> \o Columns(sel.columns))
      [] sel.kind = "entries" ->
            <<1, 2, 2, 4>> \o Value(6, <<0, 0, 0, 1>>) \o Value(6, <<0, 0, 0, 2>>)
                \o Value(18, <<0, 1>>) \o Value(18, <<0, 0>>)

Descriptor(d) == Short(d.class) \o d.obis \o <<d.attr>>

Encoded(r) ==
    CASE r.kind = "get" -> <<192, 1, 255>> \o Descriptor(r.items[1].d) \o Selection(r.items[1].sel)
      [] r.kind = "next" -> <<192, 2, 255, 0, 0, 0, 1>>
      [] r.kind = "list" ->
            <<192, 3, 193, Len(r.items)>>
                \o FlattenSeq([i \in DOMAIN r.items |->
                                  Descriptor(r.items[i].d) \o Selection(r.items[i].sel)])
      [] r.kind = "action" ->
            <<195, 1, 255>> \o Descriptor(r.items[1].d)
                \o IF r.data = <<>> THEN <<0>> ELSE <<1>> \o r.data
      [] r.kind = "action next" -> <<195, 2, 255, 0, 0, 0, 1>>

Init ==
    /\ request \in Requests
    /\ buf = Encoded(request)
    /\ todo = <<[op |-> "parse", tid |-> "cosem_pdu"]>>
    /\ pos = 0
    /\ results = <<>>
    /\ verdict = "parsing"
    /\ asked = <<>>

-----------------------------------------------------------------------------
(* asn_factory: what the parser of a type is.                              *)

FixedLength ==
    [null |-> 0, boolean |-> 1, bcd |-> 1, integer8 |-> 1, unsigned8 |-> 1, enumerated |-> 1,
     integer16 |-> 2, unsigned16 |-> 2, integer32 |-> 4, unsigned32 |-> 4, float32 |-> 4,
     gen_time |-> 6, integer64 |-> 8, unsigned64 |-> 8, float64 |-> 8, datetime |-> 12,
     invoke_id_and_priority |-> 1, cosem_class_id |-> 2, cosem_object_instance_id |-> 6,
     cosem_object_attribute_id |-> 1]

Unfixed == {"bit_string", "floating_point", "octet_string", "visible_string"}

DataTypes ==
    <<"sequence_of_array", "sequence_of_struct", "boolean", "bit_string", "integer32",
      "unsigned32", "floating_point", "null", "octet_string", "visible_string", "gen_time",
      "null", "bcd", "null", "integer8", "integer16", "unsigned8", "unsigned16", "null",
      "integer64", "unsigned64", "enumerated", "float32", "float64", "datetime">>

\* What a tag chooses; there is no parser for "none".
Chosen(tid, tag) ==
    CASE tid = "data" -> IF tag \in DOMAIN DataTypes THEN DataTypes[tag] ELSE "null"
      [] tid = "cosem_pdu" ->
            IF tag = 192 THEN "get_request" ELSE IF tag = 195 THEN "action_request" ELSE "null"
      [] tid = "get_request" ->
            IF tag \in 1..3
              THEN <<"get_request_normal", "get_request_next", "get_request_with_list">>[tag]
              ELSE IF tag = 0 THEN "null" ELSE "none"
      [] tid = "action_request" ->
            IF tag = 1 THEN "action_request_normal" ELSE IF tag = 0 THEN "null" ELSE "none"

ChoiceTypes == {"data", "cosem_pdu", "get_request", "action_request"}

Sequences ==
    [cosem_attribute_descriptor |->
         <<"cosem_class_id", "cosem_object_instance_id", "cosem_object_attribute_id">>,
     get_request_normal |->
         <<"invoke_id_and_priority", "cosem_attribute_descriptor", "selective_access_descriptor">>,
     get_request_next |-> <<"invoke_id_and_priority", "unsigned32">>,
     get_request_with_list |-> <<"invoke_id_and_priority", "attribute_descriptor_list">>,
     action_request_normal |-> <<"invoke_id_and_priority", "cosem_attribute_descriptor", "data">>,
     selective_access_descriptor |-> <<"unsigned8", "data">>]

\* option_mask 4: the third item is preceded by a byte that says whether it is there.
MaskFour == {"get_request_normal", "action_request_normal"}

Optional(tid, i) == tid \in MaskFour /\ i = 3

\* The number that bytes make, the most significant one first.
Number(bytes) == FoldLeft(LAMBDA n, b : n * 256 + b, 0, bytes)

\* The length of a length, and the length; 0 when it takes more than four bytes.
LengthAt(bytes, p) ==
    LET first == bytes[p + 1]
        count == first % 128
    IN  IF first < 128 THEN [size |-> 1, value |-> first]
        ELSE IF count > 4 THEN [size |-> 0, value |-> 0]
        ELSE [size |-> count + 1, value |-> Number(SubSeq(bytes, p + 2, p + 1 + count))]

-----------------------------------------------------------------------------
(* What clients may ask.  Entries are only selected in a single read, and  *)
(* the data of an action is a value or a structure of values.              *)

IsBytes(b) == b \in Seq(0..255)

\* There is no parser for a compact array.
CompactArray == 19

IsValue(v) ==
    /\ IsBytes(v) /\ Len(v) > 0 /\ v[1] \in DOMAIN DataTypes
    /\ \/ /\ DataTypes[v[1]] \in DOMAIN FixedLength
          /\ Len(v) = 1 + FixedLength[DataTypes[v[1]]]
       \/ /\ DataTypes[v[1]] \in Unfixed /\ Len(v) > 1
          /\ LET info == LengthAt(v, 1)
             IN  info.size # 0 /\ info.value \in Nat /\ Len(v) = 1 + info.size + info.value

\* An array or a structure: its values lie one after the other.
IsStructure(v) ==
    /\ IsBytes(v) /\ Len(v) > 1 /\ v[1] \in {1, 2} /\ v[2] < 128
    /\ \E cut \in [0..v[2] -> 0..Len(v)] :
          /\ cut[0] = 2 /\ cut[v[2]] = Len(v)
          /\ \A i \in 1..v[2] : IsValue(SubSeq(v, cut[i - 1] + 1, cut[i]))

IsData(v) ==
    \/ v = <<>>
    \/ IsBytes(v) /\ Len(v) > 0 /\ v[1] = CompactArray
    \/ IsValue(v)
    \/ IsStructure(v)

ClassIds == 0..65535

IsDescriptor(d) ==
    /\ d.class \in ClassIds /\ d.attr \in 0..255
    /\ IsBytes(d.obis) /\ Len(d.obis) = 6

IsRange(sel) ==
    /\ sel.kind = "range"
    /\ sel.start \in 0..254 /\ sel.end \in 0..254 /\ sel.columns \in 0..127
    /\ sel.asDate \in BOOLEAN /\ sel.status \in {"zero", "set", "unknown"}

IsItem(item, selections) ==
    /\ IsDescriptor(item.d)
    /\ item.sel.kind \in selections
    /\ item.sel.kind = "range" => IsRange(item.sel)

IsRequest(r) ==
    \/ r.kind = "get" /\ r.items = <<r.items[1]>> /\ IsItem(r.items[1], {"none", "range", "entries"})
    \/ /\ r.kind = "list" /\ Len(r.items) \in 0..127
       /\ r.items = [i \in 1..Len(r.items) |-> r.items[i]]
       /\ \A i \in DOMAIN r.items : IsItem(r.items[i], {"none", "range"})
    \/ r.kind = "action" /\ r.items = <<r.items[1]>> /\ IsItem(r.items[1], {"none"}) /\ IsData(r.data)
    \/ r.kind \in {"next", "action next"}

ASSUME CosemRequestAssumption == \A r \in Requests : IsRequest(r)

-----------------------------------------------------------------------------
(* The parsers.                                                            *)

Parse(tid) == [op |-> "parse", tid |-> tid]

Byte(p) == buf[p + 1]
Left == Len(buf) - pos
Next1 == Head(todo)
Parsing(tids) == verdict = "parsing" /\ todo # <<>> /\ Next1.op = "parse" /\ Next1.tid \in tids

Put(tid, val) == results' = Append(results, [tid |-> tid, val |-> val])

LengthInfo == LengthAt(buf, pos)

(* -1 is handed up to the next loop over elements, which adds it to the    *)
(* position like a length, or to parse_block, which refuses the request.   *)
Fail ==
    LET up == SelectInSeq(todo, LAMBDA t : t.op = "element")
    IN  IF up = 0
          THEN verdict' = "refused" /\ todo' = <<>> /\ UNCHANGED pos
          ELSE pos' = todo[up].at - 1 /\ todo' = SubSeq(todo, up + 1, Len(todo)) /\ UNCHANGED verdict

ParseFixed ==
    /\ Parsing(DOMAIN FixedLength)
    /\ LET n == FixedLength[Next1.tid]
       IN  IF Left < n
             THEN Fail /\ UNCHANGED results
             ELSE /\ Put(Next1.tid, SubSeq(buf, pos + 1, pos + n))
                  /\ pos' = pos + n
                  /\ todo' = Tail(todo)
                  /\ UNCHANGED verdict
    /\ UNCHANGED <<request, buf, asked>>

ParseUnfixed ==
    /\ Parsing(Unfixed)
    /\ LET info == LengthInfo
           end == pos + info.size + info.value
       IN  IF info.size = 0 \/ Len(buf) < end
             THEN Fail /\ UNCHANGED results
             ELSE /\ Put(Next1.tid, SubSeq(buf, pos + info.size + 1, end))
                  /\ pos' = end
                  /\ todo' = Tail(todo)
                  /\ UNCHANGED verdict
    /\ UNCHANGED <<request, buf, asked>>

Items(tid) ==
    [i \in DOMAIN Sequences[tid] |->
        [op |-> IF Optional(tid, i) THEN "option" ELSE "parse", tid |-> Sequences[tid][i]]]

ParseSequence ==
    /\ Parsing(DOMAIN Sequences)
    /\ todo' = Items(Next1.tid) \o Tail(todo)
    /\ UNCHANGED <<request, buf, pos, results, verdict, asked>>

ParseOption ==
    /\ verdict = "parsing" /\ todo # <<>> /\ Next1.op = "option"
    /\ pos' = pos + 1
    /\ todo' = (IF Byte(pos) = 0 THEN <<>> ELSE <<Parse(Next1.tid)>>) \o Tail(todo)
    /\ UNCHANGED <<request, buf, results, verdict, asked>>

ParseChoice ==
    /\ Parsing(ChoiceTypes)
    /\ LET tid == Chosen(Next1.tid, Byte(pos))
       IN  IF tid = "none"
             THEN Fail /\ UNCHANGED results
             ELSE /\ IF Next1.tid = "cosem_pdu" THEN Put("cosem_pdu", <<Byte(pos)>>)
                     ELSE UNCHANGED results
                  /\ pos' = pos + 1
                  /\ todo' = <<Parse(tid)>> \o Tail(todo)
                  /\ UNCHANGED verdict
    /\ UNCHANGED <<request, buf, asked>>

Lists == {"sequence_of_array", "sequence_of_struct", "attribute_descriptor_list"}

\* The number of elements: one byte of a list of descriptors, four of data.
Count(n) == IF Next1.tid = "attribute_descriptor_list" THEN <<n % 256>> ELSE <<0, 0>> \o Short(n)

ParseList ==
    /\ Parsing(Lists)
    /\ LET info == LengthInfo
       IN  IF info.size = 0
             THEN Fail /\ UNCHANGED results
             ELSE /\ Put(Next1.tid, Count(info.value))
                  /\ pos' = pos + info.size
                  /\ todo' = <<[op |-> "elements", tid |-> Next1.tid, left |-> info.value]>> \o Tail(todo)
                  /\ UNCHANGED verdict
    /\ UNCHANGED <<request, buf, asked>>

\* One round of the loop over the elements, or its end.
ParseElement ==
    /\ verdict = "parsing" /\ todo # <<>> /\ Next1.op = "elements"
    /\ LET more == [Next1 EXCEPT !.left = @ - 1]
           end == [op |-> "element", at |-> pos]
       IN  todo' = (IF Next1.left = 0 \/ Left <= 0 THEN <<>>
                    ELSE IF Next1.tid = "attribute_descriptor_list"
                      THEN <<Parse("cosem_attribute_descriptor"), end, [op |-> "access"], more>>
                    ELSE <<Parse("data"), end, more>>)
                   \o Tail(todo)
    /\ UNCHANGED <<request, buf, pos, results, verdict, asked>>

EndElement ==
    /\ verdict = "parsing" /\ todo # <<>> /\ Next1.op = "element"
    /\ todo' = Tail(todo)
    /\ UNCHANGED <<request, buf, pos, results, verdict, asked>>

\* Fault: the byte that says there is a selection is read over before its data.
AccessStart == pos + 1

\* It is read once more: it and the selector make an array of one element.
AccessAt == pos

\* The selective access of an element of a get-with-list.
ParseAccess ==
    /\ verdict = "parsing" /\ todo # <<>> /\ Next1.op = "access"
    /\ Put("selective_access_descriptor", <<Byte(pos)>>)
    /\ pos' = CASE Byte(pos) = 0 -> pos + 1
                [] Byte(pos) = 1 -> AccessAt
                [] OTHER -> pos
    /\ todo' = (IF Byte(pos) = 1
                  THEN <<Parse("data"), [op |-> "element", at |-> pos]>>
                  ELSE <<>>) \o Tail(todo)
    /\ UNCHANGED <<request, buf, verdict, asked>>

-----------------------------------------------------------------------------
(* parse_block, ptcl_cosem_request and process_data: what is asked.        *)

Find(tid) == SelectInSeq(results, LAMBDA r : r.tid = tid)

\* The bytes of a result that has room for more; what was not written is 0.
Bytes(i, n) == [k \in 1..n |-> IF k <= Len(results[i].val) THEN results[i].val[k] ELSE 0]

AskedFor(class, obis, attr, start, end) ==
    [class |-> Bytes(class, 2)[1] * 256 + Bytes(class, 2)[2], obis |-> Bytes(obis, 6),
     attr |-> Bytes(attr, 1)[1], start |-> start, end |-> end]

IsOctetDate(i) == results[i].tid = "octet_string" /\ Len(results[i].val) = 12
IsDate(i) == IsOctetDate(i) \/ results[i].tid = "datetime"

\* mktime with tm_isdst from the status; -1 leaves it to the C library.
TimeOf(hour, status) ==
    IF status = 255 THEN CHOOSE t \in {hour - 1, hour} : LocalHour(t) = hour
    ELSE IF status >= 128 THEN hour - 1
    ELSE hour

Time(i) == TimeOf(Bytes(i, 12)[6], Bytes(i, 12)[12])

\* The selector, the two structures, four results of the restricting object.
StartOffset == 7

\* What get_class_id, get_obis and get_attr_id return.
Asked(start, end) ==
    AskedFor(Find("cosem_class_id"), Find("cosem_object_instance_id"),
             Find("cosem_object_attribute_id"), start, end)

Selector == Find("unsigned8")
HasSelector == Selector # 0 /\ Bytes(Selector, 1)[1] > 0

TimeAt(i) == IF IsDate(i) THEN Time(i) ELSE 0

\* No getter looks how many results there are.
InResults(i) == i <= Len(results)

\* get_list_data: the next element, whose results begin at sofar.at.
ListStep(sofar) ==
    LET at == sofar.at
        from == at + 4 + StartOffset
        Ask(s, e) == Append(sofar.asked, AskedFor(at, at + 1, at + 2, s, e))
    IN  IF sofar.end # "more" THEN sofar
        ELSE IF ~InResults(at + 3) THEN [sofar EXCEPT !.end = "fault"]
        ELSE IF Bytes(at + 3, 1)[1] = 0
          THEN [sofar EXCEPT !.at = at + 4, !.asked = Ask(0, 0)]
        ELSE IF ~InResults(from + 1) THEN [sofar EXCEPT !.end = "fault"]
        ELSE IF (IsOctetDate(from) /\ IsOctetDate(from + 1)) \/ results[from].tid = "datetime"
          THEN [sofar EXCEPT !.at = from + 3, !.asked = Ask(Time(from), Time(from + 1))]
        ELSE [sofar EXCEPT !.end = "left"]

List ==
    LET list == Find("attribute_descriptor_list")
        count == results[list].val[1]
        states[n \in 0..count] ==
            IF n = 0
              THEN [at |-> list + 1, asked |-> <<>>, end |-> "more"]
              ELSE ListStep(states[n - 1])
    IN  states[count]

Finished == verdict = "parsing" /\ todo = <<>>

Refuse ==
    /\ Finished
    /\ pos < Len(buf)
    /\ verdict' = "refused"
    /\ UNCHANGED <<request, buf, todo, pos, results, asked>>

Parsed(tag, kinds) == Finished /\ pos >= Len(buf) /\ buf[1] = tag /\ buf[2] \in kinds

Ask(what) ==
    /\ verdict' = "asked"
    /\ asked' = what
    /\ UNCHANGED <<request, buf, todo, pos, results>>

AskNormal ==
    /\ Parsed(192, {1})
    /\ HasSelector => InResults(Selector + StartOffset + 1)
    /\ Ask(<<IF HasSelector
               THEN Asked(TimeAt(Selector + StartOffset), TimeAt(Selector + StartOffset + 1))
               ELSE Asked(0, 0)>>)

\* Fault: a list of which nothing is understood is answered.
UnderstoodAlways == TRUE

Understood == List.asked # <<>>

AskList ==
    /\ Parsed(192, {3})
    /\ List.end # "fault" /\ Understood
    /\ Ask(List.asked)

AskAction == Parsed(195, {1}) /\ Ask(<<Asked(0, 0)>>)

\* A next block, or a list of which nothing was understood.
Leave ==
    /\ \/ Parsed(192, {2})
       \/ Parsed(192, {3}) /\ List.end # "fault" /\ ~Understood
    /\ verdict' = "unanswered"
    /\ UNCHANGED <<request, buf, todo, pos, results, asked>>

\* The vector of results is read behind its end, and anything may follow.
Fault ==
    /\ \/ Parsed(192, {1}) /\ HasSelector /\ ~InResults(Selector + StartOffset + 1)
       \/ Parsed(192, {3}) /\ List.end = "fault"
    /\ verdict' = "fault"
    /\ UNCHANGED <<request, buf, todo, pos, results, asked>>

Next ==
    \/ ParseFixed \/ ParseUnfixed \/ ParseSequence \/ ParseOption \/ ParseChoice
    \/ ParseList \/ ParseElement \/ EndElement \/ ParseAccess
    \/ Refuse \/ AskNormal \/ Fault \/ AskList \/ AskAction \/ Leave

Spec == Init /\ [][Next]_vars

-----------------------------------------------------------------------------
(* Properties.                                                             *)

\* What the client means with an item.
Meant(item) ==
    [class |-> item.d.class, obis |-> item.d.obis, attr |-> item.d.attr,
     start |-> IF item.sel.kind = "none" THEN 0 ELSE item.sel.start,
     end |-> IF item.sel.kind = "none" THEN 0 ELSE item.sel.end]

InStandardTime(sel) == sel.kind = "range" => {sel.start, sel.end} \cap Summer = {}

\* The hour that is shown comes only once: it is not that of the change to standard time.
Unambiguous(time) == \A t \in {LocalHour(time) - 1, LocalHour(time)} \ {time} : LocalHour(t) # LocalHour(time)

\* Nothing is asked with a compact array.
Supported(r) ==
    /\ r.kind \in {"get", "list", "action"}
    /\ r.items # <<>>
    /\ (r.kind = "action" /\ r.data # <<>>) => r.data[1] # CompactArray
    /\ \A i \in DOMAIN r.items : LET sel == r.items[i].sel IN
          /\ sel.kind \in {"none", "range"}
          /\ sel.kind = "range" => (i = Len(r.items) \/ sel.columns = 0)
          /\ (sel.kind = "range" /\ sel.status = "zero") => InStandardTime(sel)
          /\ (sel.kind = "range" /\ sel.status = "unknown")
               => Unambiguous(sel.start) /\ Unambiguous(sel.end)

\* The objects, attributes and times that a client wrote in a request are those that
\* the meter is asked for, in lists of plain and selective reads as well: as long as a
\* selection is by range, columns are only picked by the last one, a client that
\* knows no daylight saving time selects none of it, and one that does not say which
\* time it means selects no hour that comes twice (asn_parser.h:40-71, 103-228;
\* ptcl_cosem_dlms.cpp:145-225; meter_handler.cpp:113-168, 195-203).
UnderstoodAsMeant ==
    (verdict # "parsing" /\ Supported(request)) =>
        /\ verdict = "asked"
        /\ asked = [i \in DOMAIN request.items |-> Meant(request.items[i])]

\* Every variable has its type, and no parser reads over the end of a request.
TypeOK ==
    /\ buf \in Seq(0..255)
    /\ pos \in 0..Len(buf)
    /\ \A i \in DOMAIN results : results[i].val \in Seq(0..255)
    /\ verdict \in {"parsing", "refused", "unanswered", "fault", "asked"}
    /\ (verdict = "asked") <=> (asked # <<>>)
=============================================================================
