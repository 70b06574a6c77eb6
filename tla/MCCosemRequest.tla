--------------------------- MODULE MCCosemRequest ---------------------------
(* The requests of CosemRequest for TLC. *)
EXTENDS CosemRequest

Profile == [class |-> 7, obis |-> <<1, 0, 98, 2, 0, 255>>, attr |-> 2]
Register == [class |-> 3, obis |-> <<1, 0, 1, 8, 0, 255>>, attr |-> 2]

None == [kind |-> "none"]
Entries == [kind |-> "entries"]
\* Of the hours 1 to 3, 2 and 3 are in summer, and the clock shows 4 after it once more.
Ranges(hours, columns) ==
    {[kind |-> "range", start |-> s, end |-> e, asDate |-> d, status |-> t, columns |-> n] :
        s \in hours, e \in hours, d \in BOOLEAN, t \in {"zero", "set", "unknown"}, n \in columns}

Item(d, sel) == [d |-> d, sel |-> sel]
Items2 == {Item(Register, None)} \cup {Item(Profile, r) : r \in Ranges({1, 2}, {0, 1})}

TheRequests ==
    {[kind |-> "get", items |-> <<i>>] :
        i \in {Item(Register, None), Item(Profile, Entries)} \cup {Item(Profile, r) : r \in Ranges({1, 2, 3, 4}, {0, 2})}}
    \cup {[kind |-> "list", items |-> <<i>>] : i \in Items2}
    \cup {[kind |-> "list", items |-> <<i, j>>] : i \in Items2, j \in Items2}
    \cup {[kind |-> "list", items |-> <<Item(Register, None), i, Item(Register, None)>>] : i \in Items2}
    \cup {[kind |-> "action", items |-> <<Item(Register, None)>>, data |-> data] :
              data \in {<<>>, <<9, 1, 1>>, <<9, 129, 128>> \o [n \in 1..128 |-> 0],
                        <<2, 2, 17, 1, 15, 0>>, <<19, 17, 2, 1, 1>>}}
    \cup {[kind |-> "next"], [kind |-> "action next"], [kind |-> "list", items |-> <<>>]}
=============================================================================
