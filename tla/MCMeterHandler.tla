--------------------------- MODULE MCMeterHandler ---------------------------
(* Small instances of MeterHandler.                                          *)
EXTENDS MeterHandler, TLC

Symmetric == Permutations(Workers)

\* Every association request, with and without an error in it.
AllAarqs == AarqType

\* The requests that the two kinds of handshake start with.
TwoAarqs ==
    {[tag |-> "AARQ", ok |-> TRUE, mech |-> m, context |-> "ciphered", sc |-> Flags] :
        m \in {"low", "high"}}

AllApdus ==
    [tag : {"get", "action", "other"}, glo : BOOLEAN, ok : BOOLEAN, invoke : {1}]

\* Besides, others in which each field has each kind of value.
FewAarqs ==
    TwoAarqs \cup
    {[tag |-> "AARQ", ok |-> FALSE, mech |-> "high", context |-> "plain", sc |-> NoSc],
     [tag |-> "AARQ", ok |-> TRUE, mech |-> "other", context |-> "absent", sc |-> {"auth"}],
     [tag |-> "AARQ", ok |-> TRUE, mech |-> "high", context |-> "plain", sc |-> {}],
     [tag |-> "AARQ", ok |-> TRUE, mech |-> "low", context |-> "ciphered", sc |-> {"enc"}]}

\* A ciphered and a clear request with invoke ids of their own.
TwoApdus ==
    {[tag |-> "action", glo |-> TRUE, ok |-> TRUE, invoke |-> 1],
     [tag |-> "get", glo |-> FALSE, ok |-> TRUE, invoke |-> 2]}

\* Besides, one that is refused and one that is not for the data services.
FewApdus ==
    TwoApdus \cup
    {[tag |-> "get", glo |-> TRUE, ok |-> FALSE, invoke |-> 1],
     [tag |-> "other", glo |-> FALSE, ok |-> TRUE, invoke |-> 1]}
==============================================================================
