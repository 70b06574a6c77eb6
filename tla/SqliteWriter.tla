---------------------------- MODULE SqliteWriter ----------------------------
(***************************************************************************)
(* The writer thread of the logger that stores messages in a database      *)
(* (common/logger/sqlite_writer.cpp).                                      *)
(*                                                                         *)
(* Callers push messages in one queue under mutex_; the thread swaps the   *)
(* queues under the same mutex when its own is empty and writes a batch of *)
(* its own queue in a transaction, without the mutex.  SQLite is outside   *)
(* the repository: any statement may fail, a failed COMMIT leaves the      *)
(* transaction open, ROLLBACK and closing end it.  The days are those of   *)
(* the file names; within the days of a behaviour clear_log deletes        *)
(* nothing, and which file of a day takes a row is left out.               *)
(***************************************************************************)
EXTENDS Naturals, Sequences

CONSTANTS
    Messages,  \* log_message objects, with the day of their time stamp
    NoDay,     \* a tm_begin_ that is none of the Days; it is not initialised
    NoTxn,     \* no transaction is open
    Limit,     \* a longer queue takes no more messages (210000 in the code)
    Recover,   \* a longer queue ends the state msg_full_ (10000)
    BatchMax,  \* rows of a transaction (10000)
    Days       \* bound: the days of a behaviour

VARIABLES
    pc,        \* where the thread is
    exit,      \* exit_
    started,   \* how far start() is: "no", "thread", "yes"
    insertQ,   \* the queue behind p_d_msg_insert_
    writeQ,    \* the queue behind p_d_msg_write_db_
    full,      \* msg_full_
    db,        \* db_: "none", "open", or "bad" after a failed sqlite3_open
    day,       \* tm_begin_
    txn,       \* the rows of the open transaction
    tries,     \* COMMITs of the batch that have failed
    stored,    \* the rows that were committed
    accepted   \* history: the messages the queue took, in the order it has them

database == <<db, day, txn, stored>>
queues == <<insertQ, writeQ, full, accepted>>
vars == <<pc, exit, started, insertQ, writeQ, full, db, day, txn, tries, stored, accepted>>

Init ==
    /\ pc = "off"
    /\ exit = FALSE
    /\ started = "no"
    /\ insertQ = <<>>
    /\ writeQ = <<>>
    /\ full = FALSE
    /\ db = "none"
    /\ day \in Days \cup {NoDay}
    /\ txn = NoTxn
    /\ tries = 0
    /\ stored = <<>>
    /\ accepted = <<>>

-----------------------------------------------------------------------------
(* insert_message.                                                         *)

\* Fault: the message that fills the queue is not remembered.
FullForgotten == full

\* msg_full_ = true
FullNoted == TRUE

\* At the limit the message itself is pushed in front, and the notice "deque is full"
\* that was built for the purpose is not.
InFront(m) == <<m>> \o insertQ

Insert(m) ==
    /\ started = "yes"
    /\ \/ /\ Len(insertQ) <= Limit
          /\ insertQ' = Append(insertQ, m)
          /\ accepted' = Append(accepted, m)
          /\ full' = (full /\ Len(insertQ) + 1 <= Recover)
       \/ /\ Len(insertQ) > Limit
          /\ ~full
          /\ insertQ' = InFront(m)
          /\ accepted' = SubSeq(accepted, 1, Len(accepted) - Len(insertQ)) \o insertQ'
          /\ full' = FullNoted
       \/ /\ Len(insertQ) > Limit
          /\ full
          /\ UNCHANGED <<insertQ, accepted, full>>
    /\ UNCHANGED <<pc, exit, started, writeQ, database, tries>>

-----------------------------------------------------------------------------
(* open_db: the directory cannot be made, or the day is noted, the old      *)
(* file is closed and sqlite3_open succeeds or fails.                       *)

OpenDb(d) ==
    \/ UNCHANGED <<db, day, txn>>
    \/ /\ db' \in {"open", "bad"}
       /\ day' = d
       /\ txn' = NoTxn

\* start(): the thread runs before the queues and the database are there.
StartThread ==
    /\ started = "no"
    /\ started' = "thread"
    /\ pc' = "loop"
    /\ UNCHANGED <<exit, queues, database, tries>>

StartQueues(today) ==
    /\ started = "thread"
    /\ started' = "yes"
    /\ OpenDb(today)
    /\ UNCHANGED <<pc, exit, queues, tries, stored>>

Stop ==
    /\ started = "yes"
    /\ exit' = TRUE
    /\ UNCHANGED <<pc, started, queues, database, tries>>

-----------------------------------------------------------------------------
(* run, write_message.                                                     *)

\* while (!exit_)
Pass ==
    /\ pc = "loop"
    /\ ~exit
    /\ pc' = "pass"
    /\ UNCHANGED <<exit, started, queues, database, tries>>

\* The thread dereferences a null pointer.
Crash ==
    /\ pc = "pass"
    /\ started = "thread"
    /\ pc' = "crashed"
    /\ UNCHANGED <<exit, started, queues, database, tries>>

\* The file has reached its limit, and the next one is opened.
RollOver(today) ==
    /\ pc = "pass"
    /\ started = "yes"
    /\ db = "open"
    /\ OpenDb(today)
    /\ UNCHANGED <<pc, exit, started, queues, tries, stored>>

Swap == insertQ # <<>> /\ writeQ = <<>>

\* The part of write_message under mutex_; the loop after exit_ wants both queues.
Pick ==
    /\ started = "yes"
    /\ \/ pc = "pass" /\ (insertQ # <<>> \/ writeQ # <<>>)
       \/ pc = "loop" /\ exit /\ insertQ # <<>> /\ writeQ # <<>>
    /\ LET q == IF Swap THEN insertQ ELSE writeQ
       IN  /\ writeQ' = q
           /\ insertQ' = IF Swap THEN writeQ ELSE insertQ
           /\ IF Head(q).day = day THEN UNCHANGED <<db, day, txn>> ELSE OpenDb(Head(q).day)
    /\ pc' = "begin"
    /\ UNCHANGED <<exit, started, full, tries, stored, accepted>>

NothingToWrite ==
    /\ pc = "pass"
    /\ started = "yes"
    /\ insertQ = <<>> /\ writeQ = <<>>
    /\ pc' = "loop"
    /\ UNCHANGED <<exit, started, queues, database, tries>>

\* The loop after exit_ ends as soon as one of the queues is empty.
Finish ==
    /\ pc = "loop"
    /\ started = "yes"
    /\ exit
    /\ insertQ = <<>> \/ writeQ = <<>>
    /\ pc' = "done"
    /\ UNCHANGED <<exit, started, queues, database, tries>>

-----------------------------------------------------------------------------
(* write_db.                                                               *)

\* Fault: an error of BEGIN or of the statement leaves what is open open.
CommitForgotten == UNCHANGED <<txn, stored>>

\* COMMIT of a transaction that may not be open, and that may fail.
CommitAny ==
    \/ UNCHANGED <<txn, stored>>
    \/ /\ txn # NoTxn
       /\ stored' = stored \o txn
       /\ txn' = NoTxn

Begin ==
    /\ pc = "begin"
    /\ db = "open" /\ txn = NoTxn
    /\ txn' = <<>>
    /\ pc' = "rows"
    /\ UNCHANGED <<exit, started, queues, db, day, tries, stored>>

BeginFails ==
    /\ pc = "begin"
    /\ CommitAny
    /\ pc' = "loop"
    /\ UNCHANGED <<exit, started, queues, db, day, tries>>

Size == IF Len(writeQ) > BatchMax THEN BatchMax ELSE Len(writeQ)

Rows ==
    /\ pc = "rows"
    /\ txn' = SubSeq(writeQ, 1, Size)
    /\ pc' = "commit"
    /\ UNCHANGED <<exit, started, queues, db, day, tries, stored>>

\* sqlite3_prepare fails: COMMIT.
PrepareFails ==
    /\ pc = "rows"
    /\ CommitAny
    /\ pc' = "loop"
    /\ UNCHANGED <<exit, started, queues, db, day, tries>>

\* Fault: what has been written is committed, as the comment above it says.
AfterBadRowCommitted(rows) == txn' = NoTxn /\ stored' = stored \o rows

\* ROLLBACK, and a COMMIT without a transaction.
AfterBadRow(rows) == txn' = NoTxn /\ UNCHANGED stored

RowFails ==
    /\ pc = "rows"
    /\ \E n \in 0..(Size - 1) : AfterBadRow(SubSeq(writeQ, 1, n))
    /\ pc' = "loop"
    /\ UNCHANGED <<exit, started, queues, db, day, tries>>

\* pop_front for each row of the batch
Popped(q) == SubSeq(q, Len(txn) + 1, Len(q))

Commit ==
    /\ pc = "commit"
    /\ stored' = stored \o txn
    /\ writeQ' = Popped(writeQ)
    /\ txn' = NoTxn
    /\ tries' = 0
    /\ pc' = "loop"
    /\ UNCHANGED <<exit, started, insertQ, full, accepted, db, day>>

\* ROLLBACK after the third COMMIT.
CommitFails ==
    /\ pc = "commit"
    /\ \/ tries < 2 /\ tries' = tries + 1 /\ UNCHANGED <<pc, txn>>
       \/ tries = 2 /\ tries' = 0 /\ pc' = "loop" /\ txn' = NoTxn
    /\ UNCHANGED <<exit, started, queues, db, day, stored>>

-----------------------------------------------------------------------------
Write == Begin \/ Rows \/ Commit
WriteFails == BeginFails \/ PrepareFails \/ RowFails \/ CommitFails

Thread(today) ==
    Pass \/ Crash \/ RollOver(today) \/ Pick \/ NothingToWrite \/ Finish \/ Write \/ WriteFails

Next ==
    \/ StartThread \/ Stop
    \/ \E today \in Days : StartQueues(today) \/ Thread(today)
    \/ \E m \in Messages : Insert(m)

Spec == Init /\ [][Next]_vars

-----------------------------------------------------------------------------
(* Properties.                                                             *)

\* Every variable has its type.
TypeOK ==
    /\ pc \in {"off", "loop", "pass", "begin", "rows", "commit", "done", "crashed"}
    /\ exit \in BOOLEAN
    /\ started \in {"no", "thread", "yes"}
    /\ insertQ \in Seq(Messages)
    /\ writeQ \in Seq(Messages)
    /\ full \in BOOLEAN
    /\ db \in {"none", "open", "bad"}
    /\ day \in Days \cup {NoDay}
    /\ txn \in Seq(Messages) \cup {NoTxn}
    /\ tries \in 0..2
    /\ stored \in Seq(Messages)
    /\ accepted \in Seq(Messages)

\* What the queues took is stored once, in order and without a gap, whatever
\* statement of SQLite failed in between: at any time the rows followed by the two
\* queues are all that was accepted (sqlite_writer.cpp:327-366, 369-408, 410-487).
StoredInOrder == stored \o writeQ \o insertQ = accepted

\* The queue of a writer whose database does not answer stays bounded: at most one
\* message over the limit goes to its end and one to its front
\* (sqlite_writer.cpp:340-364).
QueueIsBounded == Len(insertQ) <= Limit + 2
=============================================================================
