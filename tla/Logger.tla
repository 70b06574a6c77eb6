------------------------------- MODULE Logger -------------------------------
(***************************************************************************)
(* The logger (common/logger/logger.cpp): its callers, the threads of the  *)
(* simulator, cut packets in pieces and hand messages to the writer that   *)
(* log_config.ini chooses, SqliteWriter or TextWriter.                     *)
(*                                                                         *)
(* Which calls the level and the focus list let through is left open: any  *)
(* may.  What a debug build prints besides is left out.                    *)
(***************************************************************************)
EXTENDS Naturals, Sequences, FiniteSets

CONSTANTS
    Threads,    \* how many threads log at a time
    IdOf,       \* the message id, which names a file, of each call
    Days,       \* bound: the days of a behaviour, 1..n
    Sizes,      \* the lengths of packets
    MaxBuffer,  \* bytes of a message (MAX_BUFFER_LENGTH, 512)
    MaxCalls,   \* bound: calls of the logger in a behaviour
    NoDay, NoTxn, Limit, Recover, BatchMax,   \* of SqliteWriter
    MaxGroups, PerPass                                \* of TextWriter

ASSUME LoggerAssumption ==
    /\ MaxCalls \in Nat
    /\ DOMAIN IdOf = 1..MaxCalls
    /\ Sizes \subseteq Nat
    /\ MaxBuffer \in Nat \ {0}
    /\ 1 \in Days
    /\ NoDay \notin Days
    /\ Limit \in Nat /\ Recover \in 0..Limit
    /\ {BatchMax, MaxGroups, PerPass} \subseteq Nat \ {0}

\* The pieces that logger_packet makes of a packet of that size.
Pieces(size) == (size + MaxBuffer - 1) \div MaxBuffer

\* The numbers that the pieces of a call have.
PieceNumbers == {1} \cup UNION {1..Pieces(s) : s \in Sizes}

\* One piece of a call; an info has one.
Messages ==
    {m \in [call : 1..MaxCalls, piece : PieceNumbers, id : {IdOf[n] : n \in 1..MaxCalls}, day : Days] :
        m.id = IdOf[m.call]}

VARIABLES
    dest,      \* log_to_sqlite_: "sqlite" or "txt"
    today,     \* the day of the clock
    calls,     \* calls so far
    jobs,      \* the calls that are running
    pc, exit, stored, accepted,                                 \* of the writer
    started, insertQ, writeQ, full, db, day, txn, tries,        \* of SqliteWriter
    groups, taken, lost                                         \* of TextWriter

Sqlite == INSTANCE SqliteWriter
Text == INSTANCE TextWriter

front == <<dest, today, calls, jobs>>
sqliteOnly == <<started, insertQ, writeQ, full, db, day, txn, tries>>
textOnly == <<groups, taken, lost>>
vars == <<front, pc, exit, stored, accepted, sqliteOnly, textOnly>>

Init ==
    /\ Sqlite!Init
    /\ Text!Init
    /\ dest \in {"sqlite", "txt"}
    /\ today = 1
    /\ calls = 0
    /\ jobs = {}

\* A step of the writer that was started.
ToSqlite(A) == dest = "sqlite" /\ A /\ UNCHANGED <<front, textOnly>>
ToText(A) == dest = "txt" /\ A /\ UNCHANGED <<front, sqliteOnly>>

-----------------------------------------------------------------------------
(* The callers.                                                            *)

Started == IF dest = "sqlite" THEN started = "yes" ELSE pc # "off"

\* A call that has handed over `piece' messages and has `left' to go; the day is the
\* time stamp of the next one, 0 before it is made.
Job(call, piece, time, left) == [call |-> call, piece |-> piece, day |-> time, left |-> left]

Call(pieces) ==
    /\ Started
    /\ Cardinality(jobs) < Threads
    /\ calls < MaxCalls
    /\ calls' = calls + 1
    /\ jobs' = IF pieces = 0 THEN jobs
               ELSE jobs \cup {Job(calls + 1, 0, 0, pieces)}
    /\ UNCHANGED <<dest, today, pc, exit, stored, accepted, sqliteOnly, textOnly>>

LogInfo == Call(1)

\* Fault: the loop over size / 512 + 1 pieces does not stop at the end of the packet.
LogPacketNoBreak(size) == Call(size \div MaxBuffer + 1)

LogPacket(size) == Call(Pieces(size))

\* The constructor of log_message takes the time.
Stamp(j) ==
    /\ j.day = 0
    /\ jobs' = (jobs \ {j}) \cup {Job(j.call, j.piece + 1, today, j.left)}
    /\ UNCHANGED <<dest, today, calls, pc, exit, stored, accepted, sqliteOnly, textOnly>>

\* insert_message of the writer, and on to the next piece.
Insert(j) ==
    /\ j.day # 0
    /\ jobs' = (jobs \ {j})
                  \cup IF j.left = 1 THEN {} ELSE {Job(j.call, j.piece, 0, j.left - 1)}
    /\ LET m == [call |-> j.call, piece |-> j.piece, id |-> IdOf[j.call], day |-> j.day]
       IN  \/ dest = "sqlite" /\ Sqlite!Insert(m) /\ UNCHANGED textOnly
           \/ dest = "txt" /\ Text!Insert(m) /\ UNCHANGED sqliteOnly
    /\ UNCHANGED <<dest, today, calls>>

Midnight ==
    /\ today + 1 \in Days
    /\ today' = today + 1
    /\ UNCHANGED <<dest, calls, jobs, pc, exit, stored, accepted, sqliteOnly, textOnly>>

-----------------------------------------------------------------------------
(* The writers.                                                            *)

Start ==
    \/ ToSqlite(Sqlite!StartThread)
    \/ ToSqlite(Sqlite!StartQueues(today))
    \/ ToText(Text!StartThread)

Stop ==
    \/ ToSqlite(Sqlite!Stop)
    \/ ToText(Text!Stop) /\ Started

Thread == ToSqlite(Sqlite!Thread(today)) \/ ToText(Text!Thread)

Next ==
    \/ LogInfo \/ \E size \in Sizes : LogPacket(size)
    \/ \E j \in jobs : Stamp(j) \/ Insert(j)
    \/ Midnight \/ Start \/ Stop \/ Thread

Spec == Init /\ [][Next]_vars

(***************************************************************************)
(* The threads run, and SQLite does not refuse for ever: what it is asked  *)
(* again and again succeeds in the end.                                    *)
(***************************************************************************)
Fairness ==
    /\ WF_vars(Start)
    /\ WF_vars(ToSqlite(Sqlite!Pass \/ Sqlite!Pick \/ Sqlite!NothingToWrite))
    /\ WF_vars(ToSqlite(Sqlite!WriteFails))
    /\ SF_vars(ToSqlite(Sqlite!Begin)) /\ SF_vars(ToSqlite(Sqlite!Rows))
    /\ SF_vars(ToSqlite(Sqlite!Commit))
    /\ SF_vars(ToSqlite(Sqlite!BeginFails /\ txn' = NoTxn))
    /\ WF_vars(ToText(Text!Thread))
FairSpec == Spec /\ Fairness

-----------------------------------------------------------------------------
(* Properties.                                                             *)

Jobs == [call : 1..MaxCalls, piece : {0} \cup PieceNumbers, day : Days \cup {0}, left : PieceNumbers]

\* Every variable of the callers and of both writers has its type; a group always has
\* a message.
TypeOK ==
    /\ dest \in {"sqlite", "txt"}
    /\ today \in Days
    /\ calls \in 0..MaxCalls
    /\ jobs \subseteq Jobs
    /\ IF dest = "sqlite" THEN Sqlite!TypeOK ELSE Text!TypeOK

\* What the queues took is stored once, in order and without a gap, whatever
\* statement of SQLite failed in between: at any time the rows followed by the two
\* queues are all that was accepted (sqlite_writer.cpp:327-366, 369-408, 410-487).
StoredInOrder == dest = "sqlite" => Sqlite!StoredInOrder

\* The queue of a writer whose database does not answer stays bounded
\* (sqlite_writer.cpp:340-364).
QueueIsBounded == Sqlite!QueueIsBounded

\* The file of an id has its messages once and in the order they were accepted, but
\* for the groups that could not be written (logger_writer.cpp:69-108, 192-219).
FilesKeepOrder == dest = "txt" => Text!FilesKeepOrder

\* What was accepted gets to the database or to a file as long as nobody stops the
\* logger and the database of the day can be opened: neither a failed statement nor a
\* full queue keeps the thread from it for ever (sqlite_writer.cpp:66-103, 410-487;
\* logger_writer.cpp:47-108).
MessagesAreStored ==
    []<>(\/ Len(stored) + Cardinality(lost) = Len(accepted)
         \/ exit
         \/ dest = "sqlite" /\ (pc = "crashed" \/ db # "open"))
=============================================================================
