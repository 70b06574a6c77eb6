----------------------------- MODULE TextWriter -----------------------------
(***************************************************************************)
(* The writer thread of the logger that appends messages to text files     *)
(* (common/logger/logger_writer.cpp).                                      *)
(*                                                                         *)
(* Callers collect the messages of an id in one group under mutex_; the    *)
(* thread takes a few groups at a time under the same mutex and writes     *)
(* each to the file of its id without the mutex.  A group whose directory  *)
(* or file cannot be made is gone.  clear_log and the day in the name of a *)
(* file are left out, as in SqliteWriter.                                  *)
(***************************************************************************)
EXTENDS Naturals, SequencesExt

CONSTANTS
    Messages,   \* log_message objects, with the id that names their file
    MaxGroups,  \* no new group is begun beyond (50000 in the code)
    PerPass     \* groups that one pass takes (10)

VARIABLES
    pc,        \* where the thread is
    exit,      \* exit_
    groups,    \* d_v_msg_
    taken,     \* tmp_v of write_message, what is left of it
    stored,    \* the messages in the files, in the order they were written
    lost,      \* history: the messages of groups that could not be written
    accepted   \* history: the messages that got into a group, in order

vars == <<pc, exit, groups, taken, stored, lost, accepted>>

Init ==
    /\ pc = "off"
    /\ exit = FALSE
    /\ groups = <<>>
    /\ taken = <<>>
    /\ stored = <<>>
    /\ lost = {}
    /\ accepted = <<>>

StartThread ==
    /\ pc = "off"
    /\ pc' = "loop"
    /\ UNCHANGED <<exit, groups, taken, stored, lost, accepted>>

Stop ==
    /\ exit' = TRUE
    /\ UNCHANGED <<pc, groups, taken, stored, lost, accepted>>

-----------------------------------------------------------------------------
(* insert_message.                                                         *)

\* A group is known by its first message, and the first group of an id takes the message.
GroupsOf(m) == {i \in 1..Len(groups) : groups[i][1].id = m.id}

Insert(m) ==
    /\ \/ \E i \in GroupsOf(m) :
             /\ \A j \in GroupsOf(m) : i <= j
             /\ groups' = [groups EXCEPT ![i] = Append(@, m)]
             /\ accepted' = Append(accepted, m)
       \/ /\ GroupsOf(m) = {}
          /\ Len(groups) < MaxGroups
          /\ groups' = Append(groups, <<m>>)
          /\ accepted' = Append(accepted, m)
       \/ /\ GroupsOf(m) = {}
          /\ Len(groups) >= MaxGroups
          /\ UNCHANGED <<groups, accepted>>
    /\ UNCHANGED <<pc, exit, taken, stored, lost>>

-----------------------------------------------------------------------------
(* run, write_message.                                                     *)

Count == IF Len(groups) > PerPass THEN PerPass ELSE Len(groups)

\* Fault: the groups that are written stay in the queue.
RestAll == groups

\* pop_front for each group taken
Rest == SubSeq(groups, Count + 1, Len(groups))

\* The head of the loop: after exit_ there is one more pass.
Test ==
    /\ pc = "loop"
    /\ pc' = IF exit THEN "lastpass" ELSE "pass"
    /\ UNCHANGED <<exit, groups, taken, stored, lost, accepted>>

\* The part of a pass under mutex_.
Take ==
    /\ pc \in {"pass", "lastpass"}
    /\ groups # <<>>
    /\ taken' = SubSeq(groups, 1, Count)
    /\ groups' = Rest
    /\ pc' = IF pc = "pass" THEN "write" ELSE "last"
    /\ UNCHANGED <<exit, stored, lost, accepted>>

WriteGroup ==
    /\ pc \in {"write", "last"}
    /\ taken # <<>>
    /\ taken' = Tail(taken)
    /\ stored' = stored \o Head(taken)
    /\ UNCHANGED <<pc, exit, groups, lost, accepted>>

LoseGroup ==
    /\ pc \in {"write", "last"}
    /\ taken # <<>>
    /\ taken' = Tail(taken)
    /\ lost' = lost \cup ToSet(Head(taken))
    /\ UNCHANGED <<pc, exit, groups, stored, accepted>>

EndPass ==
    /\ pc \in {"write", "last"}
    /\ taken = <<>>
    /\ pc' = IF pc = "last" THEN "done" ELSE "loop"
    /\ UNCHANGED <<exit, groups, taken, stored, lost, accepted>>

\* A pass that finds no group.
NothingToWrite ==
    /\ pc \in {"pass", "lastpass"}
    /\ groups = <<>>
    /\ pc' = IF pc = "pass" THEN "loop" ELSE "done"
    /\ UNCHANGED <<exit, groups, taken, stored, lost, accepted>>

Thread == Test \/ Take \/ NothingToWrite \/ WriteGroup \/ LoseGroup \/ EndPass

Next == StartThread \/ Stop \/ Thread \/ \E m \in Messages : Insert(m)

Spec == Init /\ [][Next]_vars

-----------------------------------------------------------------------------
(* Properties.                                                             *)

Groups == Seq(Seq(Messages))

\* Every variable has its type, and a group has a message, which front() needs.
TypeOK ==
    /\ pc \in {"off", "loop", "pass", "write", "lastpass", "last", "done"}
    /\ exit \in BOOLEAN
    /\ groups \in Groups
    /\ taken \in Groups
    /\ \A i \in 1..Len(groups) : groups[i] # <<>>
    /\ \A i \in 1..Len(taken) : taken[i] # <<>>
    /\ stored \in Seq(Messages)
    /\ lost \subseteq Messages
    /\ accepted \in Seq(Messages)

\* The files, the groups that are written next and those that wait, one after the other;
\* message k of part g.
Line == <<stored>> \o taken \o groups
Precedes(g, k, h, l) == g < h \/ (g = h /\ k < l)
Kept == UNION {ToSet(Line[g]) : g \in DOMAIN Line}

\* A message that was accepted is written or waits, unless its group could not be
\* written; the file of an id has its messages once and in the order they were accepted,
\* although the groups of several ids are taken away while callers go on filling them
\* (logger_writer.cpp:69-108, 192-219).
FilesKeepOrder ==
    /\ IsInjective(accepted)
    /\ Kept \cup lost = ToSet(accepted)
    /\ Kept \cap lost = {}
    /\ \A g, h \in DOMAIN Line : \A k \in DOMAIN Line[g], l \in DOMAIN Line[h] :
          Line[g][k].id = Line[h][l].id /\ Precedes(g, k, h, l) =>
             \A i, j \in DOMAIN accepted :
                accepted[i] = Line[g][k] /\ accepted[j] = Line[h][l] => i < j
=============================================================================
