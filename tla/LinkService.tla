----------------------------- MODULE LinkService -----------------------------
(***************************************************************************)
(* What the C12.18 data link promises its upper layers: every message      *)
(* handed to send() is answered by one call of receive(), with a reply or  *)
(* with an error, and the answers come in the order of the messages.       *)
(***************************************************************************)
EXTENDS Naturals, Sequences

CONSTANTS
    Sdus,     \* the messages of the upper layers, each sent at most once
    Outcomes  \* the error codes that receive() can be called with

VARIABLES
    submitted,  \* the messages handed to send(), in order
    results     \* the calls of receive(), in order: a message and its outcome

Init == submitted = <<>> /\ results = <<>>

New(s) == \A i \in 1..Len(submitted) : submitted[i] # s

Submit(s) ==
    /\ New(s)
    /\ submitted' = Append(submitted, s)
    /\ UNCHANGED results

\* The first message without an answer gets one.
GiveAnswer(o) ==
    /\ Len(results) < Len(submitted)
    /\ results' = Append(results, [sdu |-> submitted[Len(results) + 1], outcome |-> o])

Answer(o) == GiveAnswer(o) /\ UNCHANGED submitted

\* receive() may hand in the next message itself.
AnswerAndSubmit(o, s) ==
    /\ GiveAnswer(o)
    /\ New(s)
    /\ submitted' = Append(submitted, s)

Next ==
    \/ \E s \in Sdus : Submit(s)
    \/ \E o \in Outcomes : Answer(o)
    \/ \E o \in Outcomes, s \in Sdus : AnswerAndSubmit(o, s)

Spec == Init /\ [][Next]_<<submitted, results>>
=============================================================================
