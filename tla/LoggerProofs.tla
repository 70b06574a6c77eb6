---------------------------- MODULE LoggerProofs ----------------------------
(***************************************************************************)
(* Proofs about the logger, for any number of callers, calls and days and  *)
(* any limits: the writer of the database keeps what it accepted, in       *)
(* order, and its queue stays bounded; the writer of the files keeps the   *)
(* order of each id; every variable has its type.                          *)
(***************************************************************************)
EXTENDS Logger, SequenceTheorems, TLAPS

-----------------------------------------------------------------------------
(* Lemmas about sequences.                                                 *)

\* Concatenation is associative, also with an element at the end.
LEMMA Associative ==
    ASSUME NEW S, NEW s \in Seq(S), NEW t \in Seq(S), NEW u \in Seq(S)
    PROVE  (s \o t) \o u = s \o (t \o u)
  OBVIOUS

LEMMA AppendLast ==
    ASSUME NEW S, NEW s \in Seq(S), NEW t \in Seq(S), NEW m \in S
    PROVE  s \o Append(t, m) = Append(s \o t, m)
  OBVIOUS

\* The rows of a batch move from the head of a queue to the end of the table.
LEMMA MoveFront ==
    ASSUME NEW S, NEW s \in Seq(S), NEW q \in Seq(S), NEW n \in 0..Len(q)
    PROVE  (s \o SubSeq(q, 1, n)) \o SubSeq(q, n + 1, Len(q)) = s \o q
<1>0. Len(q) \in Nat /\ \A i \in 1..Len(q) : q[i] \in S
  BY LenProperties
<1> DEFINE a == SubSeq(q, 1, n)
           b == SubSeq(q, n + 1, Len(q))
<1>1. a \in Seq(S) /\ b \in Seq(S)
  BY <1>0, SubSeqProperties
<1>2. a \o b = q
  <2>1. 1 \in 1..Len(q) + 1 /\ n \in (1 - 1)..Len(q) /\ Len(q) \in n..Len(q)
    BY <1>0
  <2> QED
    BY <2>1, ConcatAdjacentSubSeq, SubSeqFull
<1> HIDE DEF a, b
<1>3. (s \o a) \o b = s \o (a \o b)
  BY <1>1, Associative, SMTT(30)
<1> QED
  BY <1>2, <1>3 DEF a, b

\* Without its last part a concatenation is the first.
LEMMA WithoutLast ==
    ASSUME NEW S, NEW s \in Seq(S), NEW q \in Seq(S)
    PROVE  SubSeq(s \o q, 1, Len(s \o q) - Len(q)) = s
<1>1. Len(s \o q) = Len(s) + Len(q) /\ s \o q \in Seq(S)
  BY ConcatProperties
<1> DEFINE t == SubSeq(s \o q, 1, Len(s))
<1>2. t \in Seq(S) /\ Len(t) = Len(s) /\ \A i \in 1..Len(s) : t[i] = (s \o q)[i]
  BY <1>1, SubSeqProperties
<1>3. \A i \in 1..Len(s) : t[i] = s[i]
  BY <1>2, ConcatProperties
<1> HIDE DEF t
<1>4. t = s
  BY <1>2, <1>3, SeqEqual
<1> QED
  BY <1>1, <1>4 DEF t

-----------------------------------------------------------------------------
USE LoggerAssumption

\* The pieces that a call has handed over and those it has left are those of a packet;
\* a call runs once.
FrontInv ==
    /\ today \in Days /\ today \in Nat \ {0}
    /\ calls \in 0..MaxCalls
    /\ jobs \subseteq Jobs
    /\ \A j \in jobs :
          /\ j.call <= calls
          /\ j.day = 0 => j.piece + j.left \in PieceNumbers
          /\ j.day # 0 => j.piece # 0 /\ j.piece + j.left - 1 \in PieceNumbers
    /\ \A j, k \in jobs : j.call = k.call => j = k

\* The types of the writer, and what the queue of the callers remembers of its limit.
QueueInv ==
    /\ insertQ \in Seq(Messages)
    /\ writeQ \in Seq(Messages)
    /\ full \in BOOLEAN
    /\ QueueIsBounded
    /\ Len(insertQ) = Limit + 2 => full

\* Where a transaction is: one that was left open is empty, and the one that is
\* committed next has the first rows of the thread's queue. The thread writes nothing
\* before it has its queues.
Writing == {"begin", "rows", "commit"}

TxnInv ==
    /\ pc = "commit" => txn = SubSeq(writeQ, 1, Sqlite!Size)
    /\ pc # "commit" => txn \in {NoTxn, <<>>}
    /\ started # "yes" => pc \notin Writing

StoreInv ==
    dest = "sqlite" =>
        /\ stored \in Seq(Messages)
        /\ TxnInv
        /\ Sqlite!StoredInOrder

LoggerInv == FrontInv /\ QueueInv /\ StoreInv

-----------------------------------------------------------------------------

\* The initial states satisfy the invariant.
LEMMA InitLoggerInv == Init => LoggerInv
<1> SUFFICES ASSUME Init PROVE LoggerInv
  OBVIOUS
<1> USE DEF Init, Sqlite!Init
<1>1. FrontInv
  BY DEF FrontInv, Jobs
<1>2. QueueInv
  <2>1. Len(insertQ) = 0 /\ full = FALSE
    OBVIOUS
  <2>2. QueueIsBounded /\ (Len(insertQ) = Limit + 2 => full)
    BY <2>1 DEF QueueIsBounded, Sqlite!QueueIsBounded
  <2>3. insertQ \in Seq(Messages) /\ writeQ \in Seq(Messages)
    OBVIOUS
  <2> QED
    BY <2>1, <2>2, <2>3 DEF QueueInv
<1>3. StoreInv
  BY DEF StoreInv, TxnInv, Writing, Sqlite!StoredInOrder
<1> QED
  BY <1>1, <1>2, <1>3 DEF LoggerInv

\* A number below that of a piece is the number of a piece.
LEMMA PieceNumbersClosed ==
    /\ 1 \in PieceNumbers
    /\ PieceNumbers \subseteq Nat \ {0}
    /\ \A n \in PieceNumbers : \A k \in 1..n : k \in PieceNumbers
    /\ \A size \in Sizes : Pieces(size) \in Nat /\ (Pieces(size) # 0 => Pieces(size) \in PieceNumbers)
<1>1. \A size \in Sizes : Pieces(size) \in Nat
  BY DEF Pieces
<1> QED
  BY <1>1 DEF PieceNumbers

\* A call begins with all its pieces left.
LEMMA CallKeeps ==
    ASSUME FrontInv, NEW n, n = 0 \/ n \in PieceNumbers, Call(n)
    PROVE  FrontInv'
<1>1. CASE n = 0
  <2>1. calls < MaxCalls /\ calls' = calls + 1 /\ today' = today /\ jobs' = jobs
    BY <1>1 DEF Call
  <2>2. \A j \in jobs : j.call \in Nat /\ j.call <= calls
    BY DEF FrontInv, Jobs
  <2>3. calls' \in 0..MaxCalls /\ \A j \in jobs : j.call <= calls'
    BY <2>1, <2>2 DEF FrontInv
  <2> QED
    BY <2>1, <2>3 DEF FrontInv
<1>2. CASE n # 0
  <2> DEFINE new == Job(calls + 1, 0, 0, n)
  <2>1. n \in PieceNumbers /\ n \in Nat \ {0}
    BY <1>2, PieceNumbersClosed
  <2>2. /\ calls < MaxCalls /\ calls' = calls + 1 /\ today' = today /\ jobs' = jobs \cup {new}
        /\ calls \in Nat /\ calls + 1 \in 1..MaxCalls
    BY <1>2 DEF Call, FrontInv
  <2>3. /\ new \in Jobs /\ new.call = calls + 1 /\ new.day = 0
        /\ new.piece + new.left \in PieceNumbers
    BY <2>1, <2>2 DEF Job, Jobs
  <2> HIDE DEF new
  <2>4. \A j \in jobs : j.call \in Nat /\ j.call <= calls
    BY DEF FrontInv, Jobs
  <2>5. \A j \in jobs : j.call <= calls + 1 /\ j.call # calls + 1
    BY <2>2, <2>4
  <2> QED
    BY <2>2, <2>3, <2>5 DEF FrontInv
<1> QED
  BY <1>1, <1>2

\* A job goes on: it is replaced by itself with another state, or is done.
LEMMA JobKeeps ==
    ASSUME FrontInv, NEW j \in jobs, NEW next \in Jobs, next.call = j.call,
           next.day = 0 => next.piece + next.left \in PieceNumbers,
           next.day # 0 => next.piece # 0 /\ next.piece + next.left - 1 \in PieceNumbers,
           UNCHANGED <<today, calls>>,
           jobs' = (jobs \ {j}) \cup {next} \/ jobs' = jobs \ {j}
    PROVE  FrontInv'
<1>1. next.call <= calls
  BY DEF FrontInv
<1>2. \A k \in jobs : k.call = next.call => k = j
  BY DEF FrontInv
<1> QED
  BY <1>1, <1>2 DEF FrontInv

LEMMA StampKeeps ==
    ASSUME FrontInv, NEW j \in jobs, Stamp(j)
    PROVE  FrontInv'
<1> DEFINE next == Job(j.call, j.piece + 1, today, j.left)
<1>1. /\ j \in Jobs /\ j.day = 0 /\ j.piece + j.left \in PieceNumbers
      /\ today \in Days /\ today \in Nat \ {0}
  BY DEF FrontInv, Stamp
<1>2. j.piece \in Nat /\ j.left \in Nat \ {0}
  <2>1. j.piece \in {0} \cup PieceNumbers /\ j.left \in PieceNumbers
    BY <1>1 DEF Jobs
  <2>2. \A n \in PieceNumbers : n \in Nat \ {0}
    BY PieceNumbersClosed, Zenon
  <2> QED
    BY <2>1, <2>2
<1>3. j.piece + 1 \in PieceNumbers /\ j.piece + 1 + j.left - 1 = j.piece + j.left
  <2>1. j.piece + 1 \in 1..(j.piece + j.left)
    BY <1>2
  <2> QED
    BY <1>1, <1>2, <2>1, PieceNumbersClosed
<1>4. /\ next \in Jobs /\ next.call = j.call /\ next.day # 0 /\ next.piece # 0
      /\ next.piece + next.left - 1 \in PieceNumbers
  BY <1>1, <1>2, <1>3 DEF Job, Jobs
<1>5. UNCHANGED <<today, calls>> /\ jobs' = (jobs \ {j}) \cup {next}
  BY DEF Stamp
<1> HIDE DEF next
<1> QED
  BY <1>4, <1>5, JobKeeps

LEMMA InsertedKeeps ==
    ASSUME FrontInv, NEW j \in jobs, Insert(j)
    PROVE  FrontInv'
<1> DEFINE next == Job(j.call, j.piece, 0, j.left - 1)
<1>1. j \in Jobs /\ j.day # 0 /\ j.piece # 0 /\ j.piece + j.left - 1 \in PieceNumbers
  BY DEF FrontInv, Insert
<1>2. j.piece \in Nat /\ j.left \in Nat \ {0} /\ j.left \in PieceNumbers
  BY <1>1, PieceNumbersClosed DEF Jobs
<1>3. /\ UNCHANGED <<today, calls>>
      /\ jobs' = (jobs \ {j}) \cup IF j.left = 1 THEN {} ELSE {next}
  BY DEF Insert
<1>4. CASE j.left = 1
  <2>1. jobs' = jobs \ {j}
    BY <1>3, <1>4
  <2> QED
    BY <1>3, <2>1 DEF FrontInv
<1>5. CASE j.left # 1
  <2>1. j.left - 1 \in PieceNumbers
    <3>1. j.left - 1 \in 1..j.left
      BY <1>2, <1>5
    <3> QED
      BY <1>2, <3>1, PieceNumbersClosed
  <2>2. j.piece + (j.left - 1) = j.piece + j.left - 1
    BY <1>2
  <2>3. /\ next \in Jobs /\ next.call = j.call /\ next.day = 0
        /\ next.piece + next.left \in PieceNumbers
    BY <1>1, <2>1, <2>2 DEF Job, Jobs
  <2>4. jobs' = (jobs \ {j}) \cup {next}
    BY <1>3, <1>5
  <2> HIDE DEF next
  <2> QED
    BY <1>3, <2>3, <2>4, JobKeeps
<1> QED
  BY <1>4, <1>5

\* A step keeps what is said of the callers.
LEMMA FrontKeeps == LoggerInv /\ [Next]_vars => FrontInv'
<1> SUFFICES ASSUME FrontInv, [Next]_vars PROVE FrontInv'
  BY DEF LoggerInv
<1>1. CASE LogInfo
  BY <1>1, CallKeeps, PieceNumbersClosed DEF LogInfo
<1>2. ASSUME NEW size \in Sizes, LogPacket(size) PROVE FrontInv'
  BY <1>2, CallKeeps, PieceNumbersClosed DEF LogPacket
<1>3. ASSUME NEW j \in jobs, Stamp(j) \/ Insert(j) PROVE FrontInv'
  BY <1>3, StampKeeps, InsertedKeeps
<1>4. CASE Midnight
  BY <1>4 DEF Midnight, FrontInv
<1>5. CASE Start \/ Stop \/ Thread \/ UNCHANGED vars
  BY <1>5 DEF Start, Stop, Thread, ToSqlite, ToText, front, vars, FrontInv
<1> QED
  BY <1>1, <1>2, <1>3, <1>4, <1>5 DEF Next

\* What a caller hands to a writer.
LEMMA InsertedMessage ==
    ASSUME FrontInv, NEW j \in jobs, j.day # 0
    PROVE  [call |-> j.call, piece |-> j.piece, id |-> IdOf[j.call], day |-> j.day] \in Messages
<1>1. j \in Jobs /\ j.piece \in PieceNumbers /\ j.day \in Days
  BY DEF FrontInv, Jobs
<1>2. j.call \in 1..MaxCalls
  BY <1>1 DEF Jobs
<1> QED
  BY <1>1, <1>2 DEF Messages

\* insert_message keeps the queue bounded, and what is in it in order.
LEMMA InsertKeeps ==
    ASSUME QueueInv, NEW m \in Messages, Sqlite!Insert(m)
    PROVE  /\ QueueInv'
           /\ StoreInv /\ dest' = dest => StoreInv'
<1> USE DEF QueueInv
<1>0. Len(insertQ) \in Nat /\ UNCHANGED <<writeQ, stored, txn, pc, started>>
  BY DEF Sqlite!Insert, Sqlite!queues, Sqlite!database
<1>1. CASE /\ Len(insertQ) <= Limit
           /\ insertQ' = Append(insertQ, m)
           /\ accepted' = Append(accepted, m)
           /\ full' = (full /\ Len(insertQ) + 1 <= Recover)
  <2>1. insertQ' \in Seq(Messages) /\ Len(insertQ') = Len(insertQ) + 1
    BY <1>1
  <2>2. full' \in BOOLEAN
    BY <1>1
  <2>3. QueueInv'
    BY <1>0, <1>1, <2>1, <2>2 DEF QueueIsBounded, Sqlite!QueueIsBounded
  <2>4. ASSUME stored \in Seq(Messages), Sqlite!StoredInOrder PROVE Sqlite!StoredInOrder'
    <3>0. stored \o writeQ \in Seq(Messages)
      BY <2>4, ConcatProperties
    <3>1. (stored \o writeQ) \o Append(insertQ, m) = Append((stored \o writeQ) \o insertQ, m)
      <4> DEFINE s == stored \o writeQ
      <4>1. s \in Seq(Messages) /\ insertQ \in Seq(Messages) /\ m \in Messages
        BY <3>0
      <4> HIDE DEF s
      <4>2. s \o Append(insertQ, m) = Append(s \o insertQ, m)
        BY <4>1, AppendLast, SMTT(30)
      <4> QED
        BY <4>2 DEF s
    <3> QED
      BY <1>0, <1>1, <2>4, <3>1 DEF Sqlite!StoredInOrder
  <2> QED
    BY <1>0, <2>3, <2>4 DEF StoreInv, TxnInv, Sqlite!Size
<1>2. CASE /\ Len(insertQ) > Limit
           /\ ~full
           /\ insertQ' = Sqlite!InFront(m)
           /\ accepted' = SubSeq(accepted, 1, Len(accepted) - Len(insertQ)) \o insertQ'
           /\ full' = Sqlite!FullNoted
  <2>1. insertQ' \in Seq(Messages) /\ Len(insertQ') = Len(insertQ) + 1
    BY <1>2, ConcatProperties DEF Sqlite!InFront
  <2>2. full' = TRUE
    BY <1>2 DEF Sqlite!FullNoted
  <2>3. Len(insertQ) # Limit + 2
    BY <1>2
  <2>4. QueueInv'
    BY <1>0, <2>1, <2>2, <2>3 DEF QueueIsBounded, Sqlite!QueueIsBounded
  <2>5. ASSUME stored \in Seq(Messages), Sqlite!StoredInOrder PROVE Sqlite!StoredInOrder'
    <3>1. stored \o writeQ \in Seq(Messages)
      BY <2>5, ConcatProperties
    <3>2. SubSeq(accepted, 1, Len(accepted) - Len(insertQ)) = stored \o writeQ
      BY <2>5, <3>1, WithoutLast DEF Sqlite!StoredInOrder
    <3> QED
      BY <1>0, <1>2, <3>2 DEF Sqlite!StoredInOrder
  <2> QED
    BY <1>0, <2>4, <2>5 DEF StoreInv, TxnInv, Sqlite!Size
<1>3. CASE UNCHANGED <<insertQ, accepted, full>>
  BY <1>0, <1>3 DEF QueueIsBounded, Sqlite!QueueIsBounded, StoreInv, TxnInv, Sqlite!Size,
                    Sqlite!StoredInOrder
<1> QED
  BY <1>1, <1>2, <1>3 DEF Sqlite!Insert

\* open_db ends the transaction or leaves it, and no step but Rows enters "commit".
LEMMA IdleKeeps ==
    ASSUME StoreInv, QueueInv, dest = "sqlite", dest' = dest,
           pc # "commit", pc' # "commit", txn' \in {txn, NoTxn},
           UNCHANGED <<insertQ, writeQ, full, stored, accepted>>,
           started' # "yes" => pc' \notin Writing
    PROVE  StoreInv' /\ QueueInv'
  BY DEF StoreInv, TxnInv, QueueInv, QueueIsBounded, Sqlite!QueueIsBounded,
         Sqlite!StoredInOrder

\* A queue of the callers that becomes the thread's is in the same place.
LEMMA PickKeeps ==
    ASSUME StoreInv, QueueInv, dest = "sqlite", dest' = dest, Sqlite!Pick
    PROVE  StoreInv' /\ QueueInv'
<1> USE DEF StoreInv, QueueInv
<1>0. /\ pc # "commit" /\ pc' # "commit" /\ txn' \in {txn, NoTxn}
      /\ UNCHANGED <<full, stored, accepted, started>> /\ started = "yes"
  BY DEF Sqlite!Pick, Sqlite!OpenDb
<1>1. CASE Sqlite!Swap
  <2>1. writeQ = <<>> /\ writeQ' = insertQ /\ insertQ' = <<>>
    BY <1>1 DEF Sqlite!Pick, Sqlite!Swap
  <2>2. QueueInv'
    BY <1>0, <2>1 DEF QueueIsBounded, Sqlite!QueueIsBounded
  <2>3. Sqlite!StoredInOrder'
    <3>1. stored \o writeQ = stored
      BY <2>1, ConcatEmptySeq
    <3>2. stored \o insertQ \in Seq(Messages)
      BY ConcatProperties
    <3>3. (stored \o insertQ) \o <<>> = stored \o insertQ
      BY <3>2, ConcatEmptySeq
    <3> QED
      BY <1>0, <2>1, <3>1, <3>3 DEF Sqlite!StoredInOrder
  <2> QED
    BY <1>0, <2>2, <2>3 DEF TxnInv
<1>2. CASE ~Sqlite!Swap
  <2>1. UNCHANGED <<insertQ, writeQ>>
    BY <1>2 DEF Sqlite!Pick
  <2> QED
    BY <1>0, <2>1, IdleKeeps
<1> QED
  BY <1>1, <1>2

\* A statement that fails leaves the rows that were stored.
LEMMA WriteFailsKeeps ==
    ASSUME StoreInv, QueueInv, dest = "sqlite", dest' = dest, Sqlite!WriteFails
    PROVE  StoreInv' /\ QueueInv'
<1> USE DEF StoreInv, TxnInv, Sqlite!queues
<1>1. CASE Sqlite!BeginFails \/ Sqlite!PrepareFails
  <2>1. /\ pc # "commit" /\ pc' # "commit" /\ Sqlite!CommitAny
        /\ UNCHANGED <<insertQ, writeQ, full, accepted>> /\ pc' = "loop"
    BY <1>1 DEF Sqlite!BeginFails, Sqlite!PrepareFails
  <2>2. stored' = stored /\ txn' \in {txn, NoTxn}
    BY <2>1, ConcatEmptySeq DEF Sqlite!CommitAny
  <2> QED
    BY <2>1, <2>2, IdleKeeps DEF Writing
<1>2. CASE Sqlite!RowFails
  BY <1>2, IdleKeeps DEF Sqlite!RowFails, Sqlite!AfterBadRow, Writing
<1>3. CASE Sqlite!CommitFails
  <2>1. UNCHANGED <<insertQ, writeQ, full, stored, accepted, started>>
    BY <1>3 DEF Sqlite!CommitFails
  <2>2. \/ pc' = "commit" /\ txn' = txn /\ pc = "commit"
        \/ pc' = "loop" /\ txn' = NoTxn
    BY <1>3 DEF Sqlite!CommitFails
  <2> QED
    BY <2>1, <2>2 DEF QueueInv, QueueIsBounded, Sqlite!QueueIsBounded, Sqlite!StoredInOrder,
                      Sqlite!Size, Writing
<1> QED
  BY <1>1, <1>2, <1>3 DEF Sqlite!WriteFails

\* The rows of a transaction are the front of the thread's queue, and are taken from it
\* when they are stored.
LEMMA WriteKeeps ==
    ASSUME StoreInv, QueueInv, dest = "sqlite", dest' = dest, Sqlite!Write
    PROVE  StoreInv' /\ QueueInv'
<1> USE DEF StoreInv, TxnInv, Sqlite!queues, Writing
<1>1. CASE Sqlite!Begin
  BY <1>1 DEF Sqlite!Begin, QueueInv, QueueIsBounded, Sqlite!QueueIsBounded, Sqlite!StoredInOrder
<1>2. CASE Sqlite!Rows
  BY <1>2 DEF Sqlite!Rows, QueueInv, QueueIsBounded, Sqlite!QueueIsBounded, Sqlite!StoredInOrder,
              Sqlite!Size
<1>3. CASE Sqlite!Commit
  <2> DEFINE n == Sqlite!Size
  <2>0. writeQ \in Seq(Messages) /\ stored \in Seq(Messages) /\ Len(writeQ) \in Nat
    BY LenProperties DEF QueueInv
  <2>1. n \in 0..Len(writeQ)
    BY <2>0 DEF Sqlite!Size
  <2> HIDE DEF n
  <2>2. txn = SubSeq(writeQ, 1, n)
    BY <1>3 DEF Sqlite!Commit, n
  <2>3. Len(txn) = n /\ txn \in Seq(Messages) /\ SubSeq(writeQ, n + 1, Len(writeQ)) \in Seq(Messages)
    <3>1. \A i \in 1..Len(writeQ) : writeQ[i] \in Messages
      BY <2>0
    <3> QED
      BY <2>0, <2>1, <2>2, <3>1, SubSeqProperties
  <2>4. /\ stored' = stored \o SubSeq(writeQ, 1, n)
        /\ writeQ' = SubSeq(writeQ, n + 1, Len(writeQ))
        /\ txn' = NoTxn /\ pc' = "loop"
        /\ UNCHANGED <<insertQ, full, accepted, started>>
    BY <1>3, <2>2, <2>3 DEF Sqlite!Commit, Sqlite!Popped
  <2>5. stored' \o writeQ' = stored \o writeQ
    BY <2>0, <2>1, <2>4, MoveFront
  <2>6. stored' \in Seq(Messages)
    BY <2>0, <2>2, <2>3, <2>4, ConcatProperties
  <2>7. QueueInv'
    BY <2>3, <2>4 DEF QueueInv, QueueIsBounded, Sqlite!QueueIsBounded
  <2> QED
    BY <2>4, <2>5, <2>6, <2>7 DEF Sqlite!StoredInOrder
<1> QED
  BY <1>1, <1>2, <1>3 DEF Sqlite!Write

\* Every step keeps the invariant.
LEMMA StepLoggerInv == LoggerInv /\ [Next]_vars => LoggerInv'
<1> SUFFICES ASSUME LoggerInv, [Next]_vars PROVE QueueInv' /\ StoreInv'
  BY FrontKeeps DEF LoggerInv
<1> USE DEF LoggerInv
<1> DEFINE Same == UNCHANGED <<dest, pc, started, stored, accepted, insertQ, writeQ, full, txn>>
<1>0. Same => QueueInv' /\ StoreInv'
  BY SMTT(30) DEF QueueInv, QueueIsBounded, Sqlite!QueueIsBounded, StoreInv, TxnInv, Sqlite!StoredInOrder,
         Sqlite!Size
<1>1. ASSUME dest' = dest, dest = "txt", UNCHANGED <<insertQ, writeQ, full>>
      PROVE  QueueInv' /\ StoreInv'
  BY <1>1 DEF QueueInv, QueueIsBounded, Sqlite!QueueIsBounded, StoreInv
<1>2. CASE LogInfo \/ (\E size \in Sizes : LogPacket(size)) \/ (\E j \in jobs : Stamp(j))
           \/ Midnight \/ UNCHANGED vars
  <2>1. Same
    BY <1>2 DEF LogInfo, LogPacket, Call, Stamp, Midnight, vars, front, sqliteOnly
  <2> QED
    BY <1>0, <2>1
<1>3. ASSUME NEW j \in jobs, Insert(j) PROVE QueueInv' /\ StoreInv'
  <2> DEFINE m == [call |-> j.call, piece |-> j.piece, id |-> IdOf[j.call], day |-> j.day]
  <2>1. m \in Messages
    BY <1>3, InsertedMessage DEF Insert
  <2>2. /\ dest' = dest
        /\ \/ Sqlite!Insert(m)
           \/ dest = "txt" /\ UNCHANGED sqliteOnly
    BY <1>3 DEF Insert
  <2> HIDE DEF m
  <2>3. CASE Sqlite!Insert(m)
    BY <2>1, <2>2, <2>3, InsertKeeps
  <2>4. CASE dest = "txt" /\ UNCHANGED sqliteOnly
    BY <1>1, <2>2, <2>4 DEF sqliteOnly
  <2> QED
    BY <2>2, <2>3, <2>4
<1>4. CASE Start \/ Stop \/ Thread
  <2>1. CASE dest = "txt"
    BY <1>1, <1>4, <2>1 DEF Start, Stop, Thread, ToSqlite, ToText, front, sqliteOnly
  <2>2. CASE dest = "sqlite"
    <3>0. dest' = dest
      BY <1>4, <2>2 DEF Start, Stop, Thread, ToSqlite, ToText, front
    <3>1. CASE Sqlite!StartThread \/ Sqlite!StartQueues(today)
      BY <2>2, <3>0, <3>1, IdleKeeps
      DEF Sqlite!StartThread, Sqlite!StartQueues, Sqlite!OpenDb, Sqlite!queues, Sqlite!database,
          StoreInv, TxnInv, Writing
    <3>2. CASE Sqlite!Stop
      BY <1>0, <3>0, <3>2 DEF Sqlite!Stop, Sqlite!queues, Sqlite!database
    <3>3. CASE Sqlite!Pass \/ Sqlite!Crash \/ Sqlite!NothingToWrite \/ Sqlite!Finish
               \/ Sqlite!RollOver(today)
      BY <2>2, <3>0, <3>3, IdleKeeps
      DEF Sqlite!Pass, Sqlite!Crash, Sqlite!NothingToWrite, Sqlite!Finish, Sqlite!RollOver,
          Sqlite!OpenDb, Sqlite!queues, Sqlite!database, StoreInv, TxnInv, Writing
    <3>4. CASE Sqlite!Pick
      BY <2>2, <3>0, <3>4, PickKeeps
    <3>5. CASE Sqlite!Write
      BY <2>2, <3>0, <3>5, WriteKeeps
    <3>6. CASE Sqlite!WriteFails
      BY <2>2, <3>0, <3>6, WriteFailsKeeps
    <3> QED
      BY <1>4, <2>2, <3>1, <3>2, <3>3, <3>4, <3>5, <3>6
      DEF Start, Stop, Thread, ToSqlite, ToText, Sqlite!Thread
  <2>3. dest \in {"sqlite", "txt"}
    BY <1>4 DEF Start, Stop, Thread, ToSqlite, ToText
  <2> QED
    BY <2>1, <2>2, <2>3
<1> QED
  BY <1>2, <1>3, <1>4 DEF Next

-----------------------------------------------------------------------------
(* What else the writer of the database has.                               *)

SqliteInv ==
    /\ dest \in {"sqlite", "txt"}
    /\ dest = "sqlite" =>
          /\ pc \in {"off", "loop", "pass", "begin", "rows", "commit", "done", "crashed"}
          /\ exit \in BOOLEAN
          /\ started \in {"no", "thread", "yes"}
          /\ db \in {"none", "open", "bad"}
          /\ day \in Days \cup {NoDay}
          /\ tries \in 0..2

LEMMA InitSqliteInv == Init => SqliteInv
<1> SUFFICES ASSUME Init PROVE SqliteInv
  OBVIOUS
<1>1. /\ pc = "off" /\ exit = FALSE /\ started = "no" /\ db = "none"
      /\ day \in Days \cup {NoDay} /\ tries = 0 /\ dest \in {"sqlite", "txt"}
  BY DEF Init, Sqlite!Init
<1>2. 0 \in 0..2 /\ FALSE \in BOOLEAN
  OBVIOUS
<1> QED
  BY <1>1, <1>2, Zenon DEF SqliteInv

\* open_db is called for the day of a message or for today.
LEMMA FirstOfDay ==
    ASSUME NEW q \in Seq(Messages), q # <<>>
    PROVE  Head(q).day \in Days
<1>1. Head(q) \in Messages
  BY EmptySeq, HeadTailProperties
<1> QED
  BY <1>1 DEF Messages

LEMMA StepSqliteInv == LoggerInv /\ SqliteInv /\ [Next]_vars => SqliteInv'
<1> SUFFICES ASSUME LoggerInv, SqliteInv, [Next]_vars PROVE SqliteInv'
  OBVIOUS
<1> DEFINE Same == UNCHANGED <<dest, pc, exit, started, db, day, tries>>
<1>0. today \in Days
  BY DEF LoggerInv, FrontInv
<1>1. CASE Same
  BY <1>1 DEF SqliteInv
<1>2. CASE dest' = dest /\ dest = "txt"
  BY <1>2 DEF SqliteInv
<1>3. CASE LogInfo \/ (\E size \in Sizes : LogPacket(size)) \/ (\E j \in jobs : Stamp(j))
           \/ Midnight \/ UNCHANGED vars
  <2>1. Same
    BY <1>3 DEF LogInfo, LogPacket, Call, Stamp, Midnight, vars, front, sqliteOnly
  <2> QED
    BY <1>1, <2>1
<1>4. ASSUME NEW j \in jobs, Insert(j) PROVE Same \/ (dest' = dest /\ dest = "txt")
  BY <1>4 DEF Insert, Sqlite!Insert, Sqlite!database
<1>5. CASE dest = "txt" /\ (Start \/ Stop \/ Thread)
  <2>1. dest' = dest
    BY <1>5 DEF Start, Stop, Thread, ToSqlite, ToText, front
  <2> QED
    BY <1>2, <1>5, <2>1
<1>6. CASE dest = "sqlite" /\ (Start \/ Stop \/ Thread)
  <2> USE DEF SqliteInv
  <2>0. dest' = dest
    BY <1>6 DEF Start, Stop, Thread, ToSqlite, ToText, front
  <2>1. CASE Sqlite!StartThread \/ Sqlite!StartQueues(today) \/ Sqlite!Stop \/ Sqlite!RollOver(today)
    BY <1>0, <1>6, <2>0, <2>1
    DEF Sqlite!StartThread, Sqlite!StartQueues, Sqlite!Stop, Sqlite!RollOver, Sqlite!OpenDb,
        Sqlite!database
  <2>2. CASE Sqlite!Pass \/ Sqlite!Crash \/ Sqlite!NothingToWrite \/ Sqlite!Finish
    BY <1>6, <2>0, <2>2
    DEF Sqlite!Pass, Sqlite!Crash, Sqlite!NothingToWrite, Sqlite!Finish, Sqlite!database
  <2>3. CASE Sqlite!Pick
    <3> DEFINE q == IF Sqlite!Swap THEN insertQ ELSE writeQ
    <3>1. q \in Seq(Messages) /\ q # <<>>
      BY <2>3 DEF Sqlite!Pick, Sqlite!Swap, LoggerInv, QueueInv
    <3> HIDE DEF q
    <3>2. Head(q).day \in Days
      BY <3>1, FirstOfDay
    <3>3. /\ UNCHANGED <<db, day>> \/ (db' \in {"open", "bad"} /\ day' = Head(q).day)
          /\ pc' = "begin" /\ UNCHANGED <<exit, started, tries>>
      BY <2>3 DEF Sqlite!Pick, Sqlite!OpenDb, q
    <3> QED
      BY <1>6, <2>0, <3>2, <3>3
  <2>4. CASE Sqlite!Write
    BY <1>6, <2>0, <2>4
    DEF Sqlite!Write, Sqlite!Begin, Sqlite!Rows, Sqlite!Commit
  <2>5. CASE Sqlite!WriteFails
    BY <1>6, <2>0, <2>5
    DEF Sqlite!WriteFails, Sqlite!BeginFails, Sqlite!PrepareFails, Sqlite!RowFails,
        Sqlite!CommitFails
  <2> QED
    BY <1>6, <2>1, <2>2, <2>3, <2>4, <2>5
    DEF Start, Stop, Thread, ToSqlite, ToText, Sqlite!Thread
<1> QED
  BY <1>1, <1>2, <1>3, <1>4, <1>5, <1>6 DEF Next, SqliteInv

\* With what is known of the queues, these are the types of the writer.
LEMMA SqliteTypes == LoggerInv /\ SqliteInv /\ dest = "sqlite" => Sqlite!TypeOK
<1> SUFFICES ASSUME LoggerInv, SqliteInv, dest = "sqlite" PROVE Sqlite!TypeOK
  OBVIOUS
<1>1. /\ insertQ \in Seq(Messages) /\ writeQ \in Seq(Messages) /\ full \in BOOLEAN
      /\ stored \in Seq(Messages) /\ TxnInv /\ accepted = (stored \o writeQ) \o insertQ
  BY DEF LoggerInv, QueueInv, StoreInv, Sqlite!StoredInOrder
<1>2. accepted \in Seq(Messages)
  <2>1. stored \o writeQ \in Seq(Messages)
    BY <1>1, ConcatProperties
  <2> QED
    BY <1>1, <2>1, ConcatProperties
<1>3. txn \in Seq(Messages) \cup {NoTxn}
  <2>1. SubSeq(writeQ, 1, Sqlite!Size) \in Seq(Messages)
    <3>1. Len(writeQ) \in Nat /\ \A i \in 1..Len(writeQ) : writeQ[i] \in Messages
      BY <1>1
    <3>2. Sqlite!Size \in 0..Len(writeQ)
      BY <3>1 DEF Sqlite!Size
    <3> HIDE DEF Sqlite!Size
    <3> QED
      BY <1>1, <3>1, <3>2, SubSeqProperties
  <2>2. txn \in {NoTxn, <<>>} \/ txn = SubSeq(writeQ, 1, Sqlite!Size)
    BY <1>1 DEF TxnInv
  <2>3. <<>> \in Seq(Messages)
    BY EmptySeq
  <2> QED
    BY <2>1, <2>2, <2>3, Zenon
<1> QED
  BY <1>1, <1>2, <1>3 DEF SqliteInv, Sqlite!TypeOK

-----------------------------------------------------------------------------
(* The files: parts of a line of messages, and where the messages are.     *)

Parts == Seq(Seq(Messages))

\* The parts hold the accepted messages but those that are gone, each once, and those of
\* an id in the order in which they were accepted.
Once(acc) == \A i, j \in 1..Len(acc) : acc[i] = acc[j] => i = j
IsAccepted(acc, x) == \E i \in 1..Len(acc) : acc[i] = x
IsKept(line, x) == \E g \in 1..Len(line) : \E k \in 1..Len(line[g]) : line[g][k] = x
OnlyAccepted(line, acc, gone) ==
    \A g \in 1..Len(line) : \A k \in 1..Len(line[g]) :
        line[g][k] \notin gone /\ IsAccepted(acc, line[g][k])
Before(acc, x, y) ==
    x.id = y.id => \A i, j \in 1..Len(acc) : acc[i] = x /\ acc[j] = y => i < j
InOrder(line, acc) ==
    \A g, h \in 1..Len(line) : \A k \in 1..Len(line[g]), l \in 1..Len(line[h]) :
        Text!Precedes(g, k, h, l) => Before(acc, line[g][k], line[h][l])

FileOrder(line, acc, gone) ==
    /\ Once(acc)
    /\ OnlyAccepted(line, acc, gone)
    /\ \A x \in gone : IsAccepted(acc, x)
    /\ \A i \in 1..Len(acc) : acc[i] \in gone \/ IsKept(line, acc[i])
    /\ InOrder(line, acc)

LEMMA PartType ==
    ASSUME NEW line \in Parts
    PROVE  /\ Len(line) \in Nat
           /\ \A g \in 1..Len(line) : line[g] \in Seq(Messages) /\ Len(line[g]) \in Nat
  BY DEF Parts

\* No message is in two places.
LEMMA PlacesDiffer ==
    ASSUME NEW line \in Parts, NEW acc, NEW gone, FileOrder(line, acc, gone),
           NEW g \in 1..Len(line), NEW h \in 1..Len(line),
           NEW k \in 1..Len(line[g]), NEW l \in 1..Len(line[h]), line[g][k] = line[h][l]
    PROVE  g = h /\ k = l
<1>0. InOrder(line, acc) /\ OnlyAccepted(line, acc, gone)
  BY DEF FileOrder
<1>1. PICK i \in 1..Len(acc) : acc[i] = line[g][k]
  BY <1>0 DEF OnlyAccepted, IsAccepted
<1>2. ~Text!Precedes(g, k, h, l) /\ ~Text!Precedes(h, l, g, k)
  <2>1. ~Before(acc, line[g][k], line[g][k])
    <3>1. ~(i < i)
      OBVIOUS
    <3> QED
      BY <1>1, <3>1 DEF Before
  <2> QED
    BY <1>0, <2>1 DEF InOrder
<1>3. g \in Nat /\ h \in Nat /\ k \in Nat /\ l \in Nat
  BY PartType
<1> QED
  BY <1>2, <1>3 DEF Text!Precedes

\* Write a group: the second part is added to the first.
LEMMA MergeParts ==
    ASSUME NEW line \in Parts, NEW new \in Parts, NEW acc \in Seq(Messages), NEW gone,
           FileOrder(line, acc, gone),
           Len(line) >= 2, Len(new) = Len(line) - 1, new[1] = line[1] \o line[2],
           \A g \in 2..Len(new) : new[g] = line[g + 1]
    PROVE  FileOrder(new, acc, gone)
<1> DEFINE n == Len(line[1])
           G(g, k) == IF g >= 2 THEN g + 1 ELSE IF k <= n THEN 1 ELSE 2
           K(g, k) == IF g = 1 /\ k > n THEN k - n ELSE k
<1>1. /\ Len(line) \in Nat /\ Len(new) \in Nat /\ n \in Nat
      /\ line[1] \in Seq(Messages) /\ line[2] \in Seq(Messages) /\ Len(line[2]) \in Nat
      /\ \A g \in 1..Len(new) : Len(new[g]) \in Nat
  BY PartType, SMTT(30)
<1>2. /\ Len(new[1]) = n + Len(line[2])
      /\ \A k \in 1..n : new[1][k] = line[1][k]
      /\ \A k \in 1..Len(line[2]) : new[1][n + k] = line[2][k]
  <2> DEFINE a == line[1]
             b == line[2]
  <2>1. a \in Seq(Messages) /\ b \in Seq(Messages) /\ new[1] = a \o b
    BY <1>1
  <2> HIDE DEF a, b
  <2>2. /\ Len(a \o b) = Len(a) + Len(b)
        /\ \A k \in 1..Len(a) : (a \o b)[k] = a[k]
        /\ \A k \in 1..Len(b) : (a \o b)[Len(a) + k] = b[k]
    BY <2>1
  <2> QED
    BY <2>1, <2>2 DEF a, b
<1> HIDE DEF n
<1>3. ASSUME NEW g \in 1..Len(new), NEW k \in 1..Len(new[g])
      PROVE  /\ G(g, k) \in 1..Len(line) /\ K(g, k) \in 1..Len(line[G(g, k)])
             /\ line[G(g, k)][K(g, k)] = new[g][k]
  <2>1. CASE g = 1 /\ k <= n
    <3>1. G(g, k) = 1 /\ K(g, k) = k
      BY <2>1, <1>1
    <3>2. k \in 1..n /\ k \in 1..Len(line[1]) /\ 1 \in 1..Len(line)
      BY <1>1, <2>1 DEF n
    <3>3. new[1][k] = line[1][k]
      BY <1>2, <3>2
    <3> HIDE DEF G, K
    <3> QED
      BY <2>1, <3>1, <3>2, <3>3
  <2>2. CASE g = 1 /\ k > n
    <3>1. G(g, k) = 2 /\ K(g, k) = k - n
      BY <2>2, <1>1
    <3>2. k - n \in 1..Len(line[2]) /\ n + (k - n) = k
      <4> DEFINE b == Len(line[2])
      <4>1. n \in Nat /\ b \in Nat /\ k \in 1..(n + b)
        BY <1>1, <1>2, <1>3, <2>2
      <4> HIDE DEF b
      <4>2. k - n \in 1..b /\ n + (k - n) = k
        BY <2>2, <4>1
      <4> QED
        BY <4>2 DEF b
    <3>3. new[1][k] = line[2][k - n]
      BY <1>2, <3>2
    <3>4. 2 \in 1..Len(line)
      BY <1>1
    <3> HIDE DEF G, K
    <3> QED
      BY <2>2, <3>1, <3>2, <3>3, <3>4
  <2>3. CASE g >= 2
    <3>1. G(g, k) = g + 1 /\ K(g, k) = k
      BY <2>3
    <3>2. g + 1 \in 1..Len(line) /\ new[g] = line[g + 1]
      BY <1>1, <2>3
    <3> HIDE DEF G, K
    <3> QED
      BY <3>1, <3>2
  <2>4. g \in Nat /\ k \in Nat
    OBVIOUS
  <2> HIDE DEF G, K
  <2> QED
    BY <1>1, <2>1, <2>2, <2>3, <2>4
<1>4. ASSUME NEW g \in 1..Len(line), NEW k \in 1..Len(line[g])
      PROVE  \E h \in 1..Len(new) : \E l \in 1..Len(new[h]) : new[h][l] = line[g][k]
  <2>1. CASE g = 1
    <3>0. k \in 1..n /\ 1 \in 1..Len(new)
      BY <1>1, <2>1 DEF n
    <3>1. new[1][k] = line[1][k]
      BY <1>2, <3>0
    <3>2. k \in 1..Len(new[1])
      <4> DEFINE b == Len(line[2])
      <4>1. n \in Nat /\ b \in Nat /\ k \in 1..n /\ Len(new[1]) = n + b
        BY <1>1, <1>2, <3>0
      <4> HIDE DEF b
      <4> QED
        BY <4>1
    <3> QED
      BY <2>1, <3>0, <3>1, <3>2
  <2>2. CASE g = 2
    <3>0. k \in 1..Len(line[2]) /\ 1 \in 1..Len(new)
      BY <1>1, <2>2
    <3>1. new[1][n + k] = line[2][k]
      BY <1>2, <3>0
    <3>2. n + k \in 1..Len(new[1])
      <4> DEFINE b == Len(line[2])
      <4>1. n \in Nat /\ b \in Nat /\ k \in 1..b /\ Len(new[1]) = n + b
        BY <1>1, <1>2, <3>0
      <4> HIDE DEF b
      <4> QED
        BY <4>1
    <3> QED
      BY <2>2, <3>0, <3>1, <3>2
  <2>3. CASE g > 2
    <3>1. g - 1 \in 2..Len(new) /\ g - 1 \in 1..Len(new) /\ new[g - 1] = line[g]
      BY <1>1, <2>3
    <3> QED
      BY <3>1
  <2> QED
    BY <1>1, <2>1, <2>2, <2>3
<1>5. ASSUME NEW g \in 1..Len(new), NEW h \in 1..Len(new),
             NEW k \in 1..Len(new[g]), NEW l \in 1..Len(new[h]), Text!Precedes(g, k, h, l)
      PROVE  Text!Precedes(G(g, k), K(g, k), G(h, l), K(h, l))
  BY <1>1, <1>5 DEF Text!Precedes
<1> HIDE DEF G, K
<1>6. InOrder(new, acc)
  <2>1. ASSUME NEW g \in 1..Len(new), NEW h \in 1..Len(new),
               NEW k \in 1..Len(new[g]), NEW l \in 1..Len(new[h]), Text!Precedes(g, k, h, l)
        PROVE  Before(acc, new[g][k], new[h][l])
    <3> DEFINE a == G(g, k)
               b == K(g, k)
               c == G(h, l)
               d == K(h, l)
    <3>1. /\ a \in 1..Len(line) /\ b \in 1..Len(line[a]) /\ line[a][b] = new[g][k]
          /\ c \in 1..Len(line) /\ d \in 1..Len(line[c]) /\ line[c][d] = new[h][l]
      BY <1>3
    <3>2. Text!Precedes(a, b, c, d)
      BY <1>5, <2>1
    <3> HIDE DEF a, b, c, d
    <3>3. Before(acc, line[a][b], line[c][d])
      BY <3>1, <3>2 DEF FileOrder, InOrder
    <3> QED
      BY <3>1, <3>3
  <2> QED
    BY <2>1 DEF InOrder
<1>7. OnlyAccepted(new, acc, gone)
  <2>1. ASSUME NEW g \in 1..Len(new), NEW k \in 1..Len(new[g])
        PROVE  new[g][k] \notin gone /\ IsAccepted(acc, new[g][k])
    <3> DEFINE a == G(g, k)
               b == K(g, k)
    <3>1. a \in 1..Len(line) /\ b \in 1..Len(line[a]) /\ line[a][b] = new[g][k]
      BY <1>3
    <3> HIDE DEF a, b
    <3>2. line[a][b] \notin gone /\ IsAccepted(acc, line[a][b])
      BY <3>1 DEF FileOrder, OnlyAccepted
    <3> QED
      BY <3>1, <3>2
  <2> QED
    BY <2>1 DEF OnlyAccepted
<1>8. ASSUME NEW x, IsKept(line, x) PROVE IsKept(new, x)
  <2>0. PICK g \in 1..Len(line) : \E k \in 1..Len(line[g]) : line[g][k] = x
    BY <1>8 DEF IsKept
  <2>1. PICK k \in 1..Len(line[g]) : line[g][k] = x
    BY <2>0
  <2>2. \E h \in 1..Len(new) : \E l \in 1..Len(new[h]) : new[h][l] = line[g][k]
    BY <1>4
  <2> QED
    BY <2>1, <2>2 DEF IsKept
<1> QED
  BY <1>6, <1>7, <1>8 DEF FileOrder

\* Lose a group: the second part goes.
LEMMA DropPart ==
    ASSUME NEW line \in Parts, NEW new \in Parts, NEW acc \in Seq(Messages), NEW gone,
           FileOrder(line, acc, gone),
           Len(line) >= 2, Len(new) = Len(line) - 1, new[1] = line[1],
           \A g \in 2..Len(new) : new[g] = line[g + 1],
           NEW gone2, gone2 = gone \cup {line[2][k] : k \in 1..Len(line[2])}
    PROVE  FileOrder(new, acc, gone2)
<1> DEFINE G(g) == IF g >= 2 THEN g + 1 ELSE 1
<1>1. /\ Len(line) \in Nat /\ Len(new) \in Nat
      /\ \A g \in 1..Len(new) : Len(new[g]) \in Nat
  BY PartType
<1>2. ASSUME NEW g \in 1..Len(new)
      PROVE  G(g) \in 1..Len(line) /\ G(g) # 2 /\ line[G(g)] = new[g]
  BY <1>1, <1>2
<1>3. ASSUME NEW g \in 1..Len(line), g # 2 PROVE \E h \in 1..Len(new) : new[h] = line[g]
  <2>1. CASE g = 1
    <3>1. 1 \in 1..Len(new)
      BY <1>1
    <3> QED
      BY <2>1, <3>1
  <2>2. CASE g # 1
    <3>1. g - 1 \in 2..Len(new) /\ g - 1 \in 1..Len(new) /\ new[g - 1] = line[g]
      BY <1>1, <1>3, <2>2
    <3> QED
      BY <3>1
  <2> QED
    BY <2>1, <2>2
<1>4. ASSUME NEW g \in 1..Len(new), NEW h \in 1..Len(new),
             NEW k \in 1..Len(new[g]), NEW l \in 1..Len(new[h]), Text!Precedes(g, k, h, l)
      PROVE  Text!Precedes(G(g), k, G(h), l)
  BY <1>1, <1>4, SMTT(30) DEF Text!Precedes
<1> HIDE DEF G
<1>5. InOrder(new, acc)
  <2>1. ASSUME NEW g \in 1..Len(new), NEW h \in 1..Len(new),
               NEW k \in 1..Len(new[g]), NEW l \in 1..Len(new[h]), Text!Precedes(g, k, h, l)
        PROVE  Before(acc, new[g][k], new[h][l])
    <3> DEFINE a == G(g)
               c == G(h)
    <3>1. a \in 1..Len(line) /\ line[a] = new[g] /\ c \in 1..Len(line) /\ line[c] = new[h]
      BY <1>2
    <3>2. Text!Precedes(a, k, c, l)
      BY <1>4, <2>1
    <3> HIDE DEF a, c
    <3>3. k \in 1..Len(line[a]) /\ l \in 1..Len(line[c])
      BY <2>1, <3>1
    <3>4. Before(acc, line[a][k], line[c][l])
      BY <3>1, <3>2, <3>3 DEF FileOrder, InOrder
    <3> QED
      BY <3>1, <3>4
  <2> QED
    BY <2>1 DEF InOrder
<1>6. OnlyAccepted(new, acc, gone2)
  <2>1. ASSUME NEW g \in 1..Len(new), NEW k \in 1..Len(new[g])
        PROVE  new[g][k] \notin gone2 /\ IsAccepted(acc, new[g][k])
    <3> DEFINE a == G(g)
    <3>1. a \in 1..Len(line) /\ a # 2 /\ line[a] = new[g]
      BY <1>2
    <3> HIDE DEF a
    <3>2. k \in 1..Len(line[a]) /\ line[a][k] = new[g][k]
      BY <3>1
    <3>3. ASSUME NEW l \in 1..Len(line[2]), line[2][l] = line[a][k] PROVE FALSE
      <4>1. 2 \in 1..Len(line)
        BY <1>1
      <4> QED
        BY <3>1, <3>2, <3>3, <4>1, PlacesDiffer
    <3>4. line[a][k] \notin gone /\ IsAccepted(acc, line[a][k])
      BY <3>1, <3>2 DEF FileOrder, OnlyAccepted
    <3>5. line[a][k] \notin gone2
      BY <3>3, <3>4
    <3> QED
      BY <3>2, <3>4, <3>5
  <2> QED
    BY <2>1 DEF OnlyAccepted
<1>7. ASSUME NEW x \in gone2 PROVE IsAccepted(acc, x)
  <2>1. 2 \in 1..Len(line)
    BY <1>1
  <2>2. CASE x \in gone
    BY <2>2 DEF FileOrder
  <2>3. ASSUME NEW k \in 1..Len(line[2]), x = line[2][k] PROVE IsAccepted(acc, x)
    BY <2>1, <2>3 DEF FileOrder, OnlyAccepted
  <2> QED
    BY <1>7, <2>2, <2>3
<1>8. ASSUME NEW x, x \notin gone2, IsKept(line, x) PROVE IsKept(new, x)
  <2>1. PICK g \in 1..Len(line) : \E k \in 1..Len(line[g]) : line[g][k] = x
    BY <1>8 DEF IsKept
  <2>2. g # 2
    BY <1>8, <2>1
  <2>3. PICK h \in 1..Len(new) : new[h] = line[g]
    BY <1>3, <2>2
  <2> QED
    BY <2>1, <2>3 DEF IsKept
<1>9. \A i \in 1..Len(acc) : acc[i] \in gone2 \/ IsKept(new, acc[i])
  <2>1. \A i \in 1..Len(acc) : acc[i] \in gone \/ IsKept(line, acc[i])
    BY DEF FileOrder
  <2> QED
    BY <1>8, <2>1
<1>10. Once(acc)
  BY DEF FileOrder
<1> QED
  BY <1>5, <1>6, <1>7, <1>9, <1>10 DEF FileOrder

\* A part without messages can stand at the end.
LEMMA AddPart ==
    ASSUME NEW line \in Parts, NEW acc \in Seq(Messages), NEW gone, FileOrder(line, acc, gone)
    PROVE  /\ Append(line, <<>>) \in Parts
           /\ FileOrder(Append(line, <<>>), acc, gone)
<1> DEFINE new == Append(line, <<>>)
<1>1. /\ new \in Parts /\ Len(line) \in Nat /\ Len(new) = Len(line) + 1
      /\ \A g \in 1..Len(line) : new[g] = line[g] /\ g \in 1..Len(new)
      /\ new[Len(line) + 1] = <<>>
  BY DEF Parts
<1> HIDE DEF new
<1>2. ASSUME NEW g \in 1..Len(new), NEW k \in 1..Len(new[g])
      PROVE  g \in 1..Len(line) /\ new[g] = line[g]
  <2>1. Len(<<>>) = 0 /\ 1..0 = {}
    OBVIOUS
  <2>2. g # Len(line) + 1
    BY <1>1, <1>2, <2>1
  <2> QED
    BY <1>1, <2>2
<1>3. InOrder(new, acc)
  <2>1. ASSUME NEW g \in 1..Len(new), NEW h \in 1..Len(new),
               NEW k \in 1..Len(new[g]), NEW l \in 1..Len(new[h]), Text!Precedes(g, k, h, l)
        PROVE  Before(acc, new[g][k], new[h][l])
    <3>1. g \in 1..Len(line) /\ new[g] = line[g] /\ h \in 1..Len(line) /\ new[h] = line[h]
      BY <1>2
    <3>2. k \in 1..Len(line[g]) /\ l \in 1..Len(line[h])
      BY <2>1, <3>1
    <3>3. Before(acc, line[g][k], line[h][l])
      BY <2>1, <3>1, <3>2 DEF FileOrder, InOrder
    <3> QED
      BY <3>1, <3>3
  <2> QED
    BY <2>1 DEF InOrder
<1>4. OnlyAccepted(new, acc, gone)
  BY <1>2 DEF FileOrder, OnlyAccepted
<1>5. ASSUME NEW x, IsKept(line, x) PROVE IsKept(new, x)
  BY <1>1, <1>5 DEF IsKept
<1>6. FileOrder(new, acc, gone)
  BY <1>3, <1>4, <1>5 DEF FileOrder
<1> QED
  BY <1>1, <1>6 DEF new

\* A message that is accepted goes to the last part that has its id.
LEMMA AddMessage ==
    ASSUME NEW line \in Parts, NEW acc \in Seq(Messages), NEW gone, FileOrder(line, acc, gone),
           NEW new \in Parts, NEW p \in 1..Len(line), NEW m \in Messages,
           Len(new) = Len(line), new[p] = Append(line[p], m),
           \A g \in 1..Len(line) : g # p => new[g] = line[g],
           \A i \in 1..Len(acc) : acc[i] # m,
           \A g \in (p + 1)..Len(line) : \A k \in 1..Len(line[g]) : line[g][k].id # m.id
    PROVE  FileOrder(new, Append(acc, m), gone)
<1> DEFINE more == Append(acc, m)
           last == Len(line[p]) + 1
<1>1. /\ Len(acc) \in Nat /\ Len(more) = Len(acc) + 1 /\ more[Len(acc) + 1] = m
      /\ \A i \in 1..Len(acc) : more[i] = acc[i] /\ i \in 1..Len(more)
      /\ \A i \in 1..Len(more) : i \in 1..Len(acc) \/ i = Len(acc) + 1
      /\ Len(acc) + 1 \in 1..Len(more)
  OBVIOUS
<1>2. /\ Len(line) \in Nat /\ line[p] \in Seq(Messages) /\ Len(line[p]) \in Nat
      /\ \A g \in 1..Len(line) : Len(line[g]) \in Nat
  BY PartType
<1>3. /\ Len(new[p]) = last /\ new[p][last] = m
      /\ \A k \in 1..Len(line[p]) : new[p][k] = line[p][k]
  BY <1>2
<1> HIDE DEF more
\* A place is the new one or an old one.
<1>4. ASSUME NEW g \in 1..Len(new), NEW k \in 1..Len(new[g])
      PROVE  \/ g = p /\ k = last /\ new[g][k] = m
             \/ g \in 1..Len(line) /\ k \in 1..Len(line[g]) /\ new[g][k] = line[g][k]
  <2>1. CASE g = p
    BY <1>2, <1>3, <2>1
  <2>2. CASE g # p
    BY <2>2
  <2> QED
    BY <2>1, <2>2
<1>5. ASSUME NEW g \in 1..Len(line), NEW k \in 1..Len(line[g])
      PROVE  /\ g \in 1..Len(new) /\ k \in 1..Len(new[g]) /\ new[g][k] = line[g][k]
             /\ line[g][k] # m
  <2>1. line[g][k] # m
    <3>1. OnlyAccepted(line, acc, gone)
      BY DEF FileOrder
    <3>2. PICK i \in 1..Len(acc) : acc[i] = line[g][k]
      BY <3>1, SMTT(30) DEF OnlyAccepted, IsAccepted
    <3> QED
      BY <3>2
  <2>2. CASE g = p
    BY <1>2, <1>3, <2>1, <2>2, SMTT(30)
  <2>3. CASE g # p
    BY <2>1, <2>3
  <2> QED
    BY <2>2, <2>3
<1>6. Once(more)
  <2>1. ASSUME NEW i \in 1..Len(more), NEW j \in 1..Len(more), more[i] = more[j] PROVE i = j
    <3>1. CASE i \in 1..Len(acc) /\ j \in 1..Len(acc)
      <4>1. acc[i] = acc[j] /\ Once(acc)
        BY <1>1, <2>1, <3>1 DEF FileOrder
      <4> QED
        BY <3>1, <4>1 DEF Once
    <3>2. CASE i = Len(acc) + 1 \/ j = Len(acc) + 1
      BY <1>1, <2>1, <3>2
    <3> QED
      BY <1>1, <3>1, <3>2
  <2> QED
    BY <2>1 DEF Once
<1>7. m \notin gone
  BY DEF FileOrder, IsAccepted
<1>8. ASSUME NEW x, IsAccepted(acc, x) PROVE IsAccepted(more, x)
  BY <1>1, <1>8 DEF IsAccepted
<1>9. OnlyAccepted(new, more, gone)
  <2>1. ASSUME NEW g \in 1..Len(new), NEW k \in 1..Len(new[g])
        PROVE  new[g][k] \notin gone /\ IsAccepted(more, new[g][k])
    <3>1. CASE g = p /\ k = last /\ new[g][k] = m
      BY <1>1, <1>7, <3>1 DEF IsAccepted
    <3>2. CASE g \in 1..Len(line) /\ k \in 1..Len(line[g]) /\ new[g][k] = line[g][k]
      <4>1. line[g][k] \notin gone /\ IsAccepted(acc, line[g][k])
        BY <3>2 DEF FileOrder, OnlyAccepted
      <4> QED
        BY <1>8, <3>2, <4>1
    <3> QED
      BY <1>4, <3>1, <3>2
  <2> QED
    BY <2>1 DEF OnlyAccepted
<1>10. ASSUME NEW i \in 1..Len(more) PROVE more[i] \in gone \/ IsKept(new, more[i])
  <2>1. CASE i = Len(acc) + 1
    <3>1. p \in 1..Len(new) /\ last \in 1..Len(new[p]) /\ new[p][last] = more[i]
      BY <1>1, <1>2, <1>3, <2>1
    <3> QED
      BY <3>1 DEF IsKept
  <2>2. CASE i \in 1..Len(acc)
    <3>1. acc[i] \in gone \/ IsKept(line, acc[i])
      BY <2>2 DEF FileOrder
    <3>2. IsKept(line, acc[i]) => IsKept(new, acc[i])
      BY <1>5 DEF IsKept
    <3> QED
      BY <1>1, <2>2, <3>1, <3>2
  <2> QED
    BY <1>1, <2>1, <2>2
<1>11. InOrder(new, more)
  <2> SUFFICES ASSUME NEW g \in 1..Len(new), NEW h \in 1..Len(new),
                      NEW k \in 1..Len(new[g]), NEW l \in 1..Len(new[h]),
                      Text!Precedes(g, k, h, l)
               PROVE  Before(more, new[g][k], new[h][l])
    BY DEF InOrder
  <2> SUFFICES ASSUME new[g][k].id = new[h][l].id,
                      NEW i \in 1..Len(more), NEW j \in 1..Len(more),
                      more[i] = new[g][k], more[j] = new[h][l]
               PROVE  i < j
    BY DEF Before
  <2>0. /\ Text!Precedes(g, k, h, l) /\ new[g][k].id = new[h][l].id
        /\ more[i] = new[g][k] /\ more[j] = new[h][l]
    OBVIOUS
  <2>1. CASE h = p /\ l = last /\ new[h][l] = m
    <3>1. j = Len(acc) + 1
      BY <1>1, <1>6, <2>0, <2>1 DEF Once
    <3>2. i # Len(acc) + 1
      <4>1. ASSUME g = p, k = last PROVE FALSE
        <5>1. p \in Nat /\ last \in Nat
          BY <1>2
        <5>2. Text!Precedes(p, last, p, last)
          BY <2>0, <2>1, <4>1
        <5> QED
          BY <5>1, <5>2, SMTT(30) DEF Text!Precedes
      <4>2. g \in 1..Len(line) /\ k \in 1..Len(line[g]) /\ new[g][k] = line[g][k]
        BY <1>4, <4>1
      <4>3. new[g][k] # m
        BY <1>5, <4>2, SMTT(30)
      <4> QED
        BY <1>1, <2>0, <4>3
    <3> QED
      BY <1>1, <3>1, <3>2
  <2>2. CASE h \in 1..Len(line) /\ l \in 1..Len(line[h]) /\ new[h][l] = line[h][l]
    <3>1. ASSUME g = p, k = last PROVE FALSE
      <4>1. g < h \/ (g = h /\ k < l)
        BY <2>0 DEF Text!Precedes
      <4>2. ~(g = h /\ k < l)
        BY <1>2, <2>2, <3>1
      <4>3. h \in (p + 1)..Len(line)
        BY <1>2, <2>2, <3>1, <4>1, <4>2
      <4>4. new[h][l].id = m.id
        BY <1>3, <2>0, <3>1
      <4> QED
        BY <2>2, <4>3, <4>4
    <3>2. g \in 1..Len(line) /\ k \in 1..Len(line[g]) /\ new[g][k] = line[g][k]
      BY <1>4, <3>1
    <3>3. new[g][k] # m /\ new[h][l] # m
      BY <1>5, <2>2, <3>2
    <3>4. i \in 1..Len(acc) /\ j \in 1..Len(acc) /\ acc[i] = line[g][k] /\ acc[j] = line[h][l]
      BY <1>1, <2>0, <2>2, <3>2, <3>3
    <3>5. Before(acc, line[g][k], line[h][l])
      BY <2>0, <2>2, <3>2 DEF FileOrder, InOrder
    <3>6. line[g][k].id = line[h][l].id
      BY <2>0, <2>2, <3>2
    <3> QED
      BY <3>4, <3>5, <3>6 DEF Before
  <2> QED
    BY <1>4, <2>1, <2>2
<1>12. \A x \in gone : IsAccepted(more, x)
  BY <1>8 DEF FileOrder
<1>13. FileOrder(new, more, gone)
  BY <1>6, <1>9, <1>10, <1>11, <1>12 DEF FileOrder
<1> QED
  BY <1>13 DEF more

-----------------------------------------------------------------------------
(* The writer of the files.                                                *)

\* The line of TextWriter: the files, the groups that are written next and those that wait.
LineOf(st, tk, gr) == (<<st>> \o tk) \o gr

\* A group has the messages of one id, and no two that wait have the same.
OneId(gr) ==
    /\ \A i \in 1..Len(gr) : \A k \in 1..Len(gr[i]) : gr[i][k].id = gr[i][1].id
    /\ \A i, j \in 1..Len(gr) : gr[i][1].id = gr[j][1].id => i = j

\* A call has handed over the pieces that came before the one it is at.
Handed ==
    \A i \in 1..Len(accepted) :
        /\ accepted[i].call <= calls
        /\ \A j \in jobs : accepted[i].call = j.call =>
              /\ accepted[i].piece <= j.piece
              /\ j.day # 0 => accepted[i].piece # j.piece

\* What the writer of the files has: between two passes nothing is taken.
GroupInv ==
    /\ Text!TypeOK
    /\ pc \notin {"write", "last"} => taken = <<>>
    /\ OneId(groups)
    /\ FileOrder(LineOf(stored, taken, groups), accepted, lost)

FileInv == dest = "txt" => GroupInv /\ Handed

\* Where the parts stand in the line.
Arranged(line, st, tk, gr) ==
    /\ line \in Parts
    /\ Len(tk) \in Nat /\ Len(gr) \in Nat
    /\ Len(line) = 1 + Len(tk) + Len(gr)
    /\ line[1] = st
    /\ \A i \in 1..Len(tk) : line[1 + i] = tk[i]
    /\ \A i \in 1..Len(gr) : line[1 + Len(tk) + i] = gr[i]

LEMMA LineShape ==
    ASSUME NEW st \in Seq(Messages), NEW tk \in Parts, NEW gr \in Parts
    PROVE  Arranged(LineOf(st, tk, gr), st, tk, gr)
<1> DEFINE P == Seq(Messages)
           s == <<st>>
           a == s \o tk
           b == a \o gr
<1>1. s \in Seq(P) /\ Len(s) = 1 /\ s[1] = st
  OBVIOUS
<1>2. tk \in Seq(P) /\ gr \in Seq(P) /\ Len(tk) \in Nat /\ Len(gr) \in Nat
  BY DEF Parts
<1> HIDE DEF P, s
<1>3. /\ a \in Seq(P) /\ Len(a) = 1 + Len(tk) /\ a[1] = st
      /\ \A i \in 1..Len(tk) : a[1 + i] = tk[i]
  <2>1. a \in Seq(P) /\ Len(a) = Len(s) + Len(tk)
    BY <1>1, <1>2, ConcatProperties
  <2>2. \A i \in 1..(Len(s) + Len(tk)) : a[i] = IF i <= Len(s) THEN s[i] ELSE tk[i - Len(s)]
    BY <1>1, <1>2, ConcatProperties
  <2> HIDE DEF a
  <2> QED
    BY <1>1, <1>2, <2>1, <2>2, SMTT(30)
<1> HIDE DEF a
<1>4. /\ b \in Seq(P) /\ Len(b) = 1 + Len(tk) + Len(gr) /\ b[1] = st
      /\ \A i \in 1..Len(tk) : b[1 + i] = tk[i]
      /\ \A i \in 1..Len(gr) : b[1 + Len(tk) + i] = gr[i]
  <2>1. b \in Seq(P) /\ Len(b) = Len(a) + Len(gr)
    BY <1>2, <1>3, ConcatProperties
  <2>2. \A i \in 1..(Len(a) + Len(gr)) : b[i] = IF i <= Len(a) THEN a[i] ELSE gr[i - Len(a)]
    BY <1>2, <1>3, ConcatProperties
  <2> HIDE DEF b
  <2> DEFINE n == Len(tk)
             k == Len(gr)
  <2>3. n \in Nat /\ k \in Nat /\ Len(a) = 1 + n
    BY <1>2, <1>3
  <2>4. \A i \in 1..((1 + n) + k) : b[i] = IF i <= 1 + n THEN a[i] ELSE gr[i - (1 + n)]
    BY <2>2, <2>3
  <2>5. \A i \in 1..n : a[1 + i] = tk[i]
    BY <1>3
  <2>6. Len(b) = 1 + n + k
    BY <2>1, <2>3
  <2> HIDE DEF n, k
  <2>7. b[1] = st /\ \A i \in 1..n : b[1 + i] = tk[i]
    BY <1>3, <2>3, <2>4, <2>5
  <2>8. ASSUME NEW i \in 1..k PROVE b[1 + n + i] = gr[i]
    <3>1. 1 + n + i \in 1..((1 + n) + k) /\ ~(1 + n + i <= 1 + n) /\ (1 + n + i) - (1 + n) = i
      BY <2>3
    <3> QED
      BY <2>4, <3>1
  <2> QED
    BY <2>1, <2>6, <2>7, <2>8 DEF n, k
<1> HIDE DEF b
<1>5. LineOf(st, tk, gr) = b
  BY DEF LineOf, b, a, s
<1>6. b \in Parts
  BY <1>4 DEF Parts, P
<1> QED
  BY <1>2, <1>4, <1>5, <1>6 DEF Arranged

\* The same line, with a group less between the files and the groups that wait.
LEMMA ShorterLine ==
    ASSUME NEW st \in Seq(Messages), NEW st2 \in Seq(Messages), NEW tk \in Parts, tk # <<>>,
           NEW gr \in Parts, NEW line, line = LineOf(st, tk, gr),
           NEW new, new = LineOf(st2, Tail(tk), gr)
    PROVE  /\ Head(tk) \in Seq(Messages) /\ Tail(tk) \in Parts
           /\ line \in Parts /\ new \in Parts
           /\ Len(line) >= 2 /\ Len(new) = Len(line) - 1
           /\ line[1] = st /\ line[2] = Head(tk) /\ new[1] = st2
           /\ \A g \in 2..Len(new) : new[g] = line[g + 1]
<1>1. /\ Tail(tk) \in Parts /\ Len(tk) \in Nat /\ Len(tk) >= 1 /\ Len(Tail(tk)) = Len(tk) - 1
      /\ \A i \in 1..Len(Tail(tk)) : Tail(tk)[i] = tk[i + 1]
      /\ Head(tk) = tk[1] /\ Head(tk) \in Seq(Messages)
  BY DEF Parts
<1> DEFINE t == Tail(tk)
<1>2. /\ line \in Parts /\ Len(line) = 1 + Len(tk) + Len(gr) /\ line[1] = st /\ Len(gr) \in Nat
      /\ \A i \in 1..Len(tk) : line[1 + i] = tk[i]
      /\ \A i \in 1..Len(gr) : line[1 + Len(tk) + i] = gr[i]
  <2>1. Arranged(line, st, tk, gr)
    BY LineShape
  <2> QED
    BY <2>1 DEF Arranged
<1>3. /\ new \in Parts /\ Len(new) = 1 + Len(t) + Len(gr) /\ new[1] = st2
      /\ \A i \in 1..Len(t) : new[1 + i] = t[i]
      /\ \A i \in 1..Len(gr) : new[1 + Len(t) + i] = gr[i]
  <2>1. Arranged(new, st2, t, gr)
    BY <1>1, LineShape
  <2> HIDE DEF t
  <2> QED
    BY <2>1 DEF Arranged
<1> HIDE DEF t
<1>4. Len(line) >= 2 /\ Len(new) = Len(line) - 1
  <2> DEFINE n == Len(tk)
             k == Len(gr)
  <2>1. /\ n \in Nat /\ n >= 1 /\ k \in Nat /\ Len(line) = 1 + n + k
        /\ Len(new) = 1 + (n - 1) + k
    BY <1>1, <1>2, <1>3 DEF t
  <2> HIDE DEF n, k
  <2> QED
    BY <2>1
<1>5. line[2] = Head(tk)
  <2>1. 1 \in 1..Len(tk) /\ 1 + 1 = 2
    BY <1>1
  <2> QED
    BY <1>1, <1>2, <2>1
<1>6. ASSUME NEW g \in 2..Len(new) PROVE new[g] = line[g + 1]
  <2> DEFINE n == Len(t)
             k == Len(gr)
  <2>0. n \in Nat /\ k \in Nat /\ Len(tk) = n + 1 /\ g \in 2..(1 + n + k)
    BY <1>1, <1>2, <1>3 DEF t
  <2> HIDE DEF n, k
  <2>1. CASE g - 1 \in 1..n
    <3>1. /\ 1 + (g - 1) = g /\ g \in 1..Len(tk) /\ 1 + g = g + 1 /\ (g - 1) + 1 = g
          /\ g - 1 \in 1..Len(t)
      BY <2>0, <2>1 DEF n
    <3>2. new[g] = t[g - 1] /\ t[g - 1] = tk[g] /\ line[g + 1] = tk[g]
      BY <1>1, <1>2, <1>3, <3>1, ZenonT(60) DEF t
    <3> QED
      BY <3>2
  <2>2. CASE g - 1 \notin 1..n
    <3> DEFINE i == g - 1 - n
    <3>1. i \in 1..k /\ 1 + n + i = g /\ 1 + Len(tk) + i = g + 1
      BY <2>0, <2>2
    <3> HIDE DEF i
    <3>2. new[g] = gr[i] /\ line[g + 1] = gr[i]
      BY <1>2, <1>3, <3>1 DEF n, k
    <3> QED
      BY <3>2
  <2> QED
    BY <2>1, <2>2
<1> QED
  BY <1>1, <1>2, <1>3, <1>4, <1>5, <1>6

\* A pass takes groups from the front: the line stays.
LEMMA FrontParts ==
    ASSUME NEW gr \in Parts, \A i \in 1..Len(gr) : gr[i] # <<>>, OneId(gr), NEW n \in 0..Len(gr),
           NEW st \in Seq(Messages)
    PROVE  /\ SubSeq(gr, 1, n) \in Parts /\ SubSeq(gr, n + 1, Len(gr)) \in Parts
           /\ \A i \in 1..Len(SubSeq(gr, 1, n)) : SubSeq(gr, 1, n)[i] # <<>>
           /\ \A i \in 1..Len(SubSeq(gr, n + 1, Len(gr))) : SubSeq(gr, n + 1, Len(gr))[i] # <<>>
           /\ OneId(SubSeq(gr, n + 1, Len(gr)))
           /\ LineOf(st, SubSeq(gr, 1, n), SubSeq(gr, n + 1, Len(gr))) = LineOf(st, <<>>, gr)
<1> DEFINE a == SubSeq(gr, 1, n)
           b == SubSeq(gr, n + 1, Len(gr))
<1>0. Len(gr) \in Nat /\ n \in Nat /\ n <= Len(gr) /\ \A i \in 1..Len(gr) : gr[i] \in Seq(Messages)
  BY DEF Parts
<1>1. a \in Parts /\ Len(a) = n /\ \A i \in 1..n : a[i] = gr[i] /\ i \in 1..Len(gr)
  BY <1>0 DEF Parts
<1>2. /\ b \in Parts /\ Len(b) = Len(gr) - n
      /\ \A i \in 1..Len(b) : b[i] = gr[n + i] /\ n + i \in 1..Len(gr)
  BY <1>0 DEF Parts
<1>3. LineOf(st, a, b) = LineOf(st, <<>>, gr)
  <2> DEFINE P == Seq(Messages)
             s == <<st>>
  <2>1. gr \in Seq(P) /\ s \in Seq(P)
    BY DEF Parts
  <2> HIDE DEF P, s
  <2>2. s \o <<>> = s
    BY <2>1, ConcatEmptySeq
  <2>3. (s \o a) \o b = s \o gr
    BY <2>1, MoveFront
  <2>4. (s \o a) \o b = (s \o <<>>) \o gr
    BY <2>2, <2>3
  <2> QED
    BY <2>4 DEF LineOf, s
<1> HIDE DEF a, b
<1>4. OneId(b)
  <2>1. ASSUME NEW i \in 1..Len(b), NEW k \in 1..Len(b[i]) PROVE b[i][k].id = b[i][1].id
    <3>1. b[i] = gr[n + i] /\ n + i \in 1..Len(gr)
      BY <1>2
    <3> QED
      BY <3>1 DEF OneId
  <2>2. ASSUME NEW i \in 1..Len(b), NEW j \in 1..Len(b), b[i][1].id = b[j][1].id PROVE i = j
    <3>1. /\ b[i] = gr[n + i] /\ n + i \in 1..Len(gr)
          /\ b[j] = gr[n + j] /\ n + j \in 1..Len(gr)
      BY <1>2
    <3>2. n + i = n + j
      BY <2>2, <3>1 DEF OneId
    <3> QED
      BY <1>0, <1>2, <3>2
  <2> QED
    BY <2>1, <2>2 DEF OneId
<1>5. \A i \in 1..Len(b) : b[i] # <<>>
  BY <1>2
<1>6. \A i \in 1..Len(a) : a[i] # <<>>
  BY <1>1
<1> QED
  BY <1>1, <1>2, <1>3, <1>4, <1>5, <1>6 DEF a, b

\* The invariant says what FilesKeepOrder says.
LEMMA LineKeepsOrder ==
    ASSUME FileInv, dest = "txt"
    PROVE  Text!FilesKeepOrder
<1> DEFINE line == LineOf(stored, taken, groups)
<1>0. Text!Line = line
  BY DEF Text!Line, LineOf
<1>1. /\ stored \in Seq(Messages) /\ taken \in Parts /\ groups \in Parts
      /\ accepted \in Seq(Messages) /\ FileOrder(line, accepted, lost)
  BY DEF FileInv, GroupInv, Text!TypeOK, Text!Groups, Parts
<1>2. line \in Parts
  BY <1>1, LineShape DEF Arranged
<1> HIDE DEF line
<1>3. /\ DOMAIN accepted = 1..Len(accepted) /\ DOMAIN line = 1..Len(line)
      /\ \A g \in 1..Len(line) : DOMAIN line[g] = 1..Len(line[g])
  BY <1>1, <1>2 DEF Parts
<1>4. Text!IsInjective(accepted)
  BY <1>1, <1>3 DEF Text!IsInjective, FileOrder, Once
<1>5. \A x : x \in Text!ToSet(accepted) <=> IsAccepted(accepted, x)
  BY <1>3 DEF Text!ToSet, IsAccepted
<1>6. \A x : x \in Text!Kept <=> IsKept(line, x)
  <2>1. ASSUME NEW x PROVE x \in Text!Kept <=> \E g \in DOMAIN line : \E k \in DOMAIN line[g] : line[g][k] = x
    BY <1>0 DEF Text!Kept, Text!ToSet
  <2> QED
    BY <1>3, <2>1 DEF IsKept
<1>7. Text!Kept \cup lost = Text!ToSet(accepted)
  <2>1. ASSUME NEW x, IsKept(line, x) PROVE IsAccepted(accepted, x)
    BY <1>1, <2>1 DEF IsKept, FileOrder, OnlyAccepted
  <2>2. \A x \in lost : IsAccepted(accepted, x)
    BY <1>1 DEF FileOrder
  <2>3. ASSUME NEW x, IsAccepted(accepted, x) PROVE x \in lost \/ IsKept(line, x)
    BY <1>1, <2>3 DEF IsAccepted, FileOrder
  <2> QED
    BY <1>5, <1>6, <2>1, <2>2, <2>3
<1>8. Text!Kept \cap lost = {}
  <2>1. ASSUME NEW x, IsKept(line, x) PROVE x \notin lost
    BY <1>1, <2>1 DEF IsKept, FileOrder, OnlyAccepted
  <2> QED
    BY <1>6, <2>1
<1>9. ASSUME NEW g \in DOMAIN line, NEW h \in DOMAIN line,
             NEW k \in DOMAIN line[g], NEW l \in DOMAIN line[h],
             line[g][k].id = line[h][l].id, Text!Precedes(g, k, h, l),
             NEW i \in DOMAIN accepted, NEW j \in DOMAIN accepted,
             accepted[i] = line[g][k], accepted[j] = line[h][l]
      PROVE  i < j
  <2>1. g \in 1..Len(line) /\ h \in 1..Len(line) /\ k \in 1..Len(line[g]) /\ l \in 1..Len(line[h])
    BY <1>3
  <2>2. Before(accepted, line[g][k], line[h][l])
    BY <1>1, <1>9, <2>1 DEF FileOrder, InOrder
  <2> QED
    BY <1>3, <1>9, <2>2 DEF Before
<1> QED
  BY <1>0, <1>4, <1>7, <1>8, <1>9 DEF Text!FilesKeepOrder

\* A step that leaves the groups and the files alone.
LEMMA GroupsStay ==
    ASSUME GroupInv, UNCHANGED <<groups, taken, stored, lost, accepted>>,
           pc' \in {"off", "loop", "pass", "write", "lastpass", "last", "done"}, exit' \in BOOLEAN,
           pc' \notin {"write", "last"} => taken = <<>>
    PROVE  GroupInv'
  BY DEF GroupInv, Text!TypeOK

LEMMA TakeKeeps ==
    ASSUME GroupInv, Text!Take
    PROVE  GroupInv'
<1> DEFINE n == Text!Count
           a == SubSeq(groups, 1, n)
           b == SubSeq(groups, n + 1, Len(groups))
<1>1. /\ groups \in Parts /\ Len(groups) \in Nat /\ \A i \in 1..Len(groups) : groups[i] # <<>>
      /\ stored \in Seq(Messages) /\ OneId(groups) /\ exit \in BOOLEAN
      /\ lost \subseteq Messages /\ accepted \in Seq(Messages)
      /\ FileOrder(LineOf(stored, taken, groups), accepted, lost)
  BY DEF GroupInv, Text!TypeOK, Text!Groups, Parts
<1>2. taken = <<>>
  BY DEF GroupInv, Text!Take
<1>3. n \in 0..Len(groups)
  BY <1>1 DEF Text!Count
<1> HIDE DEF n
<1>4. /\ taken' = a /\ groups' = b /\ pc' \in {"write", "last"}
      /\ UNCHANGED <<exit, stored, lost, accepted>>
  BY DEF Text!Take, Text!Rest, n
<1>5. /\ a \in Parts /\ b \in Parts
      /\ \A i \in 1..Len(a) : a[i] # <<>>
      /\ \A i \in 1..Len(b) : b[i] # <<>>
      /\ OneId(b) /\ LineOf(stored, a, b) = LineOf(stored, <<>>, groups)
  BY <1>1, <1>3, FrontParts
<1> HIDE DEF a, b
<1>6. FileOrder(LineOf(stored', taken', groups'), accepted', lost')
  BY <1>1, <1>2, <1>4, <1>5
<1>7. Text!TypeOK'
  BY <1>1, <1>4, <1>5 DEF Text!TypeOK, Text!Groups, Parts
<1> QED
  BY <1>4, <1>5, <1>6, <1>7 DEF GroupInv

\* The first of the groups that were taken goes to its file, or is lost.
LEMMA GroupKeeps ==
    ASSUME GroupInv, Text!WriteGroup \/ Text!LoseGroup
    PROVE  GroupInv'
<1> DEFINE line == LineOf(stored, taken, groups)
           new == LineOf(stored', Tail(taken), groups)
<1>1. /\ groups \in Parts /\ taken \in Parts /\ taken # <<>>
      /\ \A i \in 1..Len(taken) : taken[i] # <<>>
      /\ stored \in Seq(Messages) /\ lost \subseteq Messages /\ accepted \in Seq(Messages)
      /\ FileOrder(line, accepted, lost)
  BY DEF GroupInv, Text!TypeOK, Text!Groups, Parts, Text!WriteGroup, Text!LoseGroup
<1>2. Head(taken) \in Seq(Messages)
  BY <1>1 DEF Parts
<1>3. /\ taken' = Tail(taken) /\ UNCHANGED <<pc, exit, groups, accepted>>
      /\ \/ stored' = stored \o Head(taken) /\ lost' = lost
         \/ stored' = stored /\ lost' = lost \cup Text!ToSet(Head(taken))
  BY DEF Text!WriteGroup, Text!LoseGroup
<1>4. stored' \in Seq(Messages)
  BY <1>1, <1>2, <1>3, ConcatProperties, ZenonT(60)
<1>5. /\ Tail(taken) \in Parts /\ line \in Parts /\ new \in Parts
      /\ Len(line) >= 2 /\ Len(new) = Len(line) - 1
      /\ line[1] = stored /\ line[2] = Head(taken) /\ new[1] = stored'
      /\ \A g \in 2..Len(new) : new[g] = line[g + 1]
  BY <1>1, <1>4, ShorterLine
<1>6. new = LineOf(stored', taken', groups')
  BY <1>3
<1> HIDE DEF line, new
<1>7. Text!ToSet(Head(taken)) = {line[2][k] : k \in 1..Len(line[2])}
  <2>1. DOMAIN Head(taken) = 1..Len(Head(taken))
    BY <1>2
  <2> QED
    BY <1>5, <2>1 DEF Text!ToSet
<1>8. FileOrder(new, accepted, lost')
  <2>1. CASE stored' = stored \o Head(taken) /\ lost' = lost
    BY <1>1, <1>5, <2>1, MergeParts
  <2>2. CASE stored' = stored /\ lost' = lost \cup Text!ToSet(Head(taken))
    <3>1. new[1] = line[1]
      BY <1>5, <2>2
    <3>2. lost' = lost \cup {line[2][k] : k \in 1..Len(line[2])}
      BY <1>7, <2>2
    <3> QED
      BY <1>1, <1>5, <3>1, <3>2, DropPart
  <2> QED
    BY <1>3, <2>1, <2>2
<1>9. lost' \subseteq Messages
  <2>1. \A k \in 1..Len(line[2]) : line[2][k] \in Messages
    BY <1>2, <1>5
  <2>2. Text!ToSet(Head(taken)) \subseteq Messages
    BY <1>7, <2>1
  <2> QED
    BY <1>1, <1>3, <2>2
<1>10. \A i \in 1..Len(Tail(taken)) : Tail(taken)[i] # <<>>
  BY <1>1 DEF Parts
<1>11. Text!TypeOK'
  BY <1>1, <1>3, <1>4, <1>5, <1>9, <1>10 DEF GroupInv, Text!TypeOK, Text!Groups, Parts
<1> QED
  BY <1>1, <1>3, <1>6, <1>8, <1>11 DEF GroupInv, Text!WriteGroup, Text!LoseGroup

\* A message that was not accepted before goes to the group of its id.
LEMMA JoinKeeps ==
    ASSUME GroupInv, NEW m \in Messages, \A i \in 1..Len(accepted) : accepted[i] # m,
           UNCHANGED <<pc, exit, taken, stored, lost>>,
           NEW q \in Text!GroupsOf(m), groups' = [groups EXCEPT ![q] = Append(@, m)],
           accepted' = Append(accepted, m)
    PROVE  GroupInv'
<1> DEFINE line == LineOf(stored, taken, groups)
           new == LineOf(stored, taken, groups')
           x == Len(taken)
           p == 1 + x + q
<1>1. /\ groups \in Parts /\ taken \in Parts /\ Len(groups) \in Nat /\ x \in Nat
      /\ \A i \in 1..Len(groups) : groups[i] # <<>> /\ groups[i] \in Seq(Messages)
      /\ stored \in Seq(Messages) /\ lost \subseteq Messages /\ accepted \in Seq(Messages)
      /\ FileOrder(line, accepted, lost) /\ OneId(groups)
  BY SMTT(30) DEF GroupInv, Text!TypeOK, Text!Groups, Parts
<1>2. q \in 1..Len(groups) /\ groups[q][1].id = m.id
  BY DEF Text!GroupsOf
<1>3. /\ groups' \in Parts /\ Len(groups') = Len(groups)
      /\ groups'[q] = Append(groups[q], m)
      /\ \A i \in 1..Len(groups) : i # q => groups'[i] = groups[i]
  <2>1. Append(groups[q], m) \in Seq(Messages)
    BY <1>1, <1>2
  <2> QED
    BY <1>1, <1>2, <2>1, SMTT(30) DEF Parts
<1>4. \A i \in 1..Len(groups) : groups'[i] # <<>> /\ groups'[i][1] = groups[i][1]
  <2>1. Append(groups[q], m) # <<>> /\ Append(groups[q], m)[1] = groups[q][1]
    <3> DEFINE s == groups[q]
    <3>1. s \in Seq(Messages) /\ s # <<>>
      BY <1>1, <1>2
    <3> HIDE DEF s
    <3>2. Append(s, m) # <<>> /\ Append(s, m)[1] = s[1]
      BY <3>1
    <3> QED
      BY <3>2 DEF s
  <2> QED
    BY <1>1, <1>3, <2>1
<1>5. OneId(groups')
  <2>1. ASSUME NEW i \in 1..Len(groups'), NEW k \in 1..Len(groups'[i])
        PROVE  groups'[i][k].id = groups'[i][1].id
    <3>1. CASE i = q
      <4>1. groups'[q][k] = m \/ (k \in 1..Len(groups[q]) /\ groups'[q][k] = groups[q][k])
        BY <1>1, <1>2, <1>3, <3>1
      <4> QED
        BY <1>1, <1>2, <1>4, <3>1, <4>1 DEF OneId
    <3>2. CASE i # q
      BY <1>1, <1>3, <3>2 DEF OneId
    <3> QED
      BY <3>1, <3>2
  <2>2. ASSUME NEW i \in 1..Len(groups'), NEW j \in 1..Len(groups'),
               groups'[i][1].id = groups'[j][1].id
        PROVE  i = j
    <3>1. groups[i][1].id = groups[j][1].id /\ i \in 1..Len(groups) /\ j \in 1..Len(groups)
      BY <1>3, <1>4, <2>2
    <3> QED
      BY <1>1, <3>1 DEF OneId
  <2> QED
    BY <2>1, <2>2 DEF OneId
<1>6. Arranged(line, stored, taken, groups) /\ Arranged(new, stored, taken, groups')
  BY <1>1, <1>3, LineShape
<1> HIDE DEF line, new, x
<1>7. /\ Len(new) = Len(line) /\ p \in 1..Len(line) /\ Len(line) = 1 + x + Len(groups)
      /\ line \in Parts /\ new \in Parts
  BY <1>1, <1>2, <1>3, <1>6 DEF Arranged, x
<1>8. line[p] = groups[q] /\ new[p] = Append(line[p], m)
  BY <1>2, <1>3, <1>6 DEF Arranged, x
<1>9. ASSUME NEW g \in 1..Len(line)
      PROVE  \/ g = 1 /\ line[g] = stored /\ new[g] = stored
             \/ \E i \in 1..x : g = 1 + i /\ line[g] = taken[i] /\ new[g] = taken[i]
             \/ \E i \in 1..Len(groups) :
                   g = 1 + x + i /\ line[g] = groups[i] /\ new[g] = groups'[i]
  <2> DEFINE y == Len(groups)
  <2>0. x \in Nat /\ y \in Nat /\ g \in 1..(1 + x + y)
    BY <1>1, <1>7
  <2> HIDE DEF y
  <2>1. CASE g = 1
    BY <1>6, <2>1 DEF Arranged
  <2>2. CASE g - 1 \in 1..x
    <3>1. 1 + (g - 1) = g
      BY <2>0
    <3>2. line[1 + (g - 1)] = taken[g - 1] /\ new[1 + (g - 1)] = taken[g - 1]
      BY <1>6, <2>2 DEF Arranged, x
    <3> QED
      BY <2>2, <3>1, <3>2
  <2>3. CASE g # 1 /\ g - 1 \notin 1..x
    <3> DEFINE i == g - 1 - x
    <3>1. i \in 1..y /\ 1 + x + i = g
      BY <2>0, <2>3
    <3> HIDE DEF i
    <3>2. line[1 + x + i] = groups[i] /\ new[1 + x + i] = groups'[i]
      BY <1>3, <1>6, <3>1 DEF Arranged, x, y
    <3> QED
      BY <3>1, <3>2 DEF y
  <2> QED
    BY <2>1, <2>2, <2>3
<1>10. ASSUME NEW g \in 1..Len(line), g # p PROVE new[g] = line[g]
  <2>1. ASSUME NEW i \in 1..Len(groups), g = 1 + x + i PROVE i # q
    BY <1>10, <2>1
  <2> QED
    BY <1>3, <1>9, <2>1
<1>11. ASSUME NEW g \in (p + 1)..Len(line), NEW k \in 1..Len(line[g]) PROVE line[g][k].id # m.id
  <2>0. g \in 1..Len(line) /\ g > 1 + x + q /\ q \in Nat
    BY <1>1, <1>2, <1>7
  <2>1. PICK i \in 1..Len(groups) : g = 1 + x + i /\ line[g] = groups[i]
    <3>1. g # 1 /\ \A i \in 1..x : g # 1 + i
      BY <1>1, <2>0
    <3> QED
      BY <1>9, <2>0, <3>1
  <2>2. i # q
    BY <1>1, <2>0, <2>1
  <2>3. groups[i][k].id = groups[i][1].id /\ groups[i][1].id # groups[q][1].id
    BY <1>1, <1>2, <1>11, <2>1, <2>2 DEF OneId
  <2> QED
    BY <1>2, <2>1, <2>3
<1> HIDE DEF p
<1>12. FileOrder(new, Append(accepted, m), lost)
  BY <1>1, <1>7, <1>8, <1>10, <1>11, AddMessage
<1>13. Append(accepted, m) \in Seq(Messages)
  BY <1>1
<1>14. Text!TypeOK'
  BY <1>1, <1>3, <1>4, <1>13 DEF GroupInv, Text!TypeOK, Text!Groups, Parts
<1> QED
  BY <1>5, <1>12, <1>14 DEF GroupInv, new

\* Or it begins a group.
LEMMA BeginKeeps ==
    ASSUME GroupInv, NEW m \in Messages, \A i \in 1..Len(accepted) : accepted[i] # m,
           UNCHANGED <<pc, exit, taken, stored, lost>>,
           Text!GroupsOf(m) = {}, groups' = Append(groups, <<m>>),
           accepted' = Append(accepted, m)
    PROVE  GroupInv'
<1> DEFINE line == LineOf(stored, taken, groups)
           longer == Append(line, <<>>)
           new == LineOf(stored, taken, groups')
           p == Len(line) + 1
<1>1. /\ groups \in Parts /\ taken \in Parts /\ Len(groups) \in Nat /\ Len(taken) \in Nat
      /\ \A i \in 1..Len(groups) : groups[i] # <<>> /\ groups[i] \in Seq(Messages)
      /\ stored \in Seq(Messages) /\ lost \subseteq Messages /\ accepted \in Seq(Messages)
      /\ FileOrder(line, accepted, lost) /\ OneId(groups)
  BY SMTT(30) DEF GroupInv, Text!TypeOK, Text!Groups, Parts
<1>2. \A i \in 1..Len(groups) : groups[i][1].id # m.id
  BY DEF Text!GroupsOf
<1>3. /\ groups' \in Parts /\ Len(groups') = Len(groups) + 1
      /\ \A i \in 1..Len(groups) : groups'[i] = groups[i]
      /\ groups'[Len(groups) + 1] = <<m>>
  <2>1. <<m>> \in Seq(Messages)
    OBVIOUS
  <2> QED
    BY <1>1, <2>1 DEF Parts
<1>4. <<m>> # <<>> /\ Len(<<m>>) = 1 /\ <<m>>[1] = m
  OBVIOUS
<1>5. \A i \in 1..Len(groups') : groups'[i] # <<>>
  BY <1>1, <1>3, <1>4
<1>6. OneId(groups')
  <2>1. ASSUME NEW i \in 1..Len(groups'), NEW k \in 1..Len(groups'[i])
        PROVE  groups'[i][k].id = groups'[i][1].id
    <3>1. CASE i \in 1..Len(groups)
      BY <1>1, <1>3, <3>1 DEF OneId
    <3>2. CASE i = Len(groups) + 1
      <4>1. groups'[i] = <<m>>
        BY <1>3, <3>2
      <4>2. k \in 1..1
        BY <1>4, <2>1, <4>1
      <4>3. k = 1
        BY <4>2
      <4> QED
        BY <4>3
    <3>3. i \in 1..Len(groups) \/ i = Len(groups) + 1
      BY <1>1, <1>3
    <3> QED
      BY <3>1, <3>2, <3>3
  <2>2. ASSUME NEW i \in 1..Len(groups'), NEW j \in 1..Len(groups'),
               groups'[i][1].id = groups'[j][1].id
        PROVE  i = j
    <3>1. \/ i \in 1..Len(groups) /\ groups'[i] = groups[i]
          \/ i = Len(groups) + 1 /\ groups'[i][1] = m
      BY <1>1, <1>3, <1>4, SMTT(30)
    <3>2. \/ j \in 1..Len(groups) /\ groups'[j] = groups[j]
          \/ j = Len(groups) + 1 /\ groups'[j][1] = m
      BY <1>1, <1>3, <1>4
    <3> QED
      BY <1>1, <1>2, <2>2, <3>1, <3>2 DEF OneId
  <2> QED
    BY <2>1, <2>2 DEF OneId
<1>7. new = Append(line, <<m>>)
  <2> DEFINE P == Seq(Messages)
             s == <<stored>> \o taken
  <2>1. s \in Seq(P) /\ groups \in Seq(P) /\ <<m>> \in P
    BY <1>1, ConcatProperties DEF Parts
  <2> HIDE DEF P, s
  <2>2. s \o Append(groups, <<m>>) = Append(s \o groups, <<m>>)
    BY <2>1, AppendLast, SMTT(30)
  <2> QED
    BY <2>2 DEF LineOf, s
<1>8. line \in Parts
  BY <1>1, LineShape DEF Arranged
<1> HIDE DEF line, new
<1>9. longer \in Parts /\ FileOrder(longer, accepted, lost)
  BY <1>1, <1>8, AddPart
<1>10. /\ Len(line) \in Nat /\ Len(longer) = p /\ p \in 1..p /\ longer[p] = <<>>
       /\ \A g \in 1..Len(line) : longer[g] = line[g]
  BY <1>8 DEF Parts
<1>11. /\ Len(new) = p /\ new[p] = <<m>> /\ new \in Parts
       /\ \A g \in 1..Len(line) : new[g] = line[g]
  BY <1>7, <1>8 DEF Parts
<1>12. <<m>> = Append(<<>>, m)
  OBVIOUS
<1> HIDE DEF longer
<1>13. \A g \in 1..Len(longer) : g # p => new[g] = longer[g]
  <2>1. ASSUME NEW g \in 1..p, g # p PROVE g \in 1..Len(line)
    BY <1>10, <2>1
  <2> HIDE DEF p
  <2> QED
    BY <1>10, <1>11, <2>1
<1>14. (p + 1)..Len(longer) = {}
  BY <1>10
<1> HIDE DEF p
<1>15. FileOrder(new, Append(accepted, m), lost)
  <2>1. p \in 1..Len(longer) /\ Len(new) = Len(longer) /\ new[p] = Append(longer[p], m)
    BY <1>10, <1>11, <1>12
  <2>2. \A g \in (p + 1)..Len(longer) : \A k \in 1..Len(longer[g]) : longer[g][k].id # m.id
    BY <1>14
  <2>3. longer \in Parts /\ new \in Parts
    BY <1>9, <1>11
  <2> QED
    BY <1>1, <1>9, <1>13, <2>1, <2>2, <2>3, AddMessage
<1>16. Append(accepted, m) \in Seq(Messages)
  BY <1>1
<1>17. Text!TypeOK'
  BY <1>1, <1>3, <1>5, <1>16 DEF GroupInv, Text!TypeOK, Text!Groups, Parts
<1> QED
  BY <1>6, <1>15, <1>17 DEF GroupInv, new

-----------------------------------------------------------------------------
(* Every step of the callers and of the writer of the files.               *)

\* What a caller hands over was not handed over before.
LEMMA NewMessage ==
    ASSUME Handed, NEW j \in jobs, j.day # 0,
           NEW m, m.call = j.call, m.piece = j.piece
    PROVE  \A i \in 1..Len(accepted) : accepted[i] # m
  BY DEF Handed

LEMMA AcceptedTypes ==
    ASSUME accepted \in Seq(Messages)
    PROVE  \A i \in 1..Len(accepted) : accepted[i].call \in Nat /\ accepted[i].piece \in Nat
<1>1. \A i \in 1..Len(accepted) : accepted[i] \in Messages
  OBVIOUS
<1>2. \A n \in PieceNumbers : n \in Nat
  BY PieceNumbersClosed, Zenon
<1>3. ASSUME NEW m \in Messages PROVE m.call \in Nat /\ m.piece \in Nat
  <2>1. m.call \in 1..MaxCalls /\ m.piece \in PieceNumbers
    BY DEF Messages
  <2> QED
    BY <1>2, <2>1
<1> QED
  BY <1>1, <1>3

LEMMA JobTypes ==
    ASSUME FrontInv
    PROVE  \A j \in jobs : j.call \in Nat /\ j.piece \in Nat /\ j.call <= calls
<1>1. \A j \in jobs : j \in Jobs
  BY DEF FrontInv
<1>2. \A n \in PieceNumbers : n \in Nat
  BY PieceNumbersClosed, Zenon
<1>3. ASSUME NEW j \in Jobs PROVE j.call \in Nat /\ j.piece \in Nat
  <2>1. j.call \in 1..MaxCalls /\ j.piece \in {0} \cup PieceNumbers
    BY DEF Jobs
  <2> QED
    BY <1>2, <2>1
<1> QED
  BY <1>1, <1>3 DEF FrontInv

LEMMA HandedCall ==
    ASSUME FrontInv, Handed, accepted \in Seq(Messages), NEW n, Call(n)
    PROVE  Handed'
<1>1. calls \in Nat /\ calls' = calls + 1 /\ accepted' = accepted
  BY DEF Call, FrontInv
<1>2. \A j \in jobs' : j \in jobs \/ j.call = calls + 1
  BY DEF Call, Job
<1>3. ASSUME NEW i \in 1..Len(accepted)
      PROVE  accepted[i].call <= calls + 1 /\ accepted[i].call # calls + 1
  BY <1>1, AcceptedTypes DEF Handed
<1> QED
  BY <1>1, <1>2, <1>3 DEF Handed

LEMMA HandedStamp ==
    ASSUME FrontInv, Handed, accepted \in Seq(Messages), NEW j \in jobs, Stamp(j)
    PROVE  Handed'
<1>1. calls' = calls /\ accepted' = accepted /\ j.piece \in Nat
  BY JobTypes DEF Stamp
<1>2. \A k \in jobs' : k \in jobs \/ (k.call = j.call /\ k.piece = j.piece + 1)
  BY DEF Stamp, Job
<1>3. ASSUME NEW i \in 1..Len(accepted), accepted[i].call = j.call
      PROVE  accepted[i].piece <= j.piece + 1 /\ accepted[i].piece # j.piece + 1
  BY <1>1, <1>3, AcceptedTypes DEF Handed
<1> QED
  BY <1>1, <1>2, <1>3 DEF Handed

LEMMA HandedInsert ==
    ASSUME FrontInv, Handed, accepted \in Seq(Messages), NEW j \in jobs, Insert(j),
           NEW m, m.call = j.call, m.piece = j.piece,
           accepted' = accepted \/ accepted' = Append(accepted, m)
    PROVE  Handed'
<1>1. calls' = calls /\ j.piece \in Nat /\ j.call <= calls
  BY JobTypes DEF Insert
<1>2. \A k \in jobs' : k.call = j.call => k.piece = j.piece /\ k.day = 0
  <2>1. \A k \in jobs \ {j} : k.call # j.call
    BY DEF FrontInv
  <2> QED
    BY <2>1 DEF Insert, Job
<1>3. \A k \in jobs' : k.call # j.call => k \in jobs
  BY DEF Insert, Job
<1>4. ASSUME NEW i \in 1..Len(accepted)
      PROVE  /\ accepted[i].call <= calls
             /\ accepted[i].call = j.call => accepted[i].piece <= j.piece
  BY DEF Handed
<1>5. ASSUME NEW i \in 1..Len(accepted')
      PROVE  (i \in 1..Len(accepted) /\ accepted'[i] = accepted[i]) \/ accepted'[i] = m
  OBVIOUS
<1>6. ASSUME NEW i \in 1..Len(accepted')
      PROVE  /\ accepted'[i].call <= calls'
             /\ \A k \in jobs' : accepted'[i].call = k.call =>
                   /\ accepted'[i].piece <= k.piece
                   /\ k.day # 0 => accepted'[i].piece # k.piece
  <2>1. CASE accepted'[i] = m
    BY <1>1, <1>2, <2>1
  <2>2. CASE i \in 1..Len(accepted) /\ accepted'[i] = accepted[i]
    BY <1>1, <1>2, <1>3, <1>4, <2>2 DEF Handed
  <2> QED
    BY <1>5, <2>1, <2>2
<1> QED
  BY <1>6 DEF Handed

LEMMA InitFileInv == Init => FileInv
<1> SUFFICES ASSUME Init PROVE GroupInv /\ Handed
  BY DEF FileInv
<1>1. /\ pc = "off" /\ exit = FALSE /\ groups = <<>> /\ taken = <<>> /\ stored = <<>>
      /\ lost = {} /\ accepted = <<>>
  BY DEF Init, Text!Init
<1>2. <<>> \in Seq(Messages) /\ <<>> \in Parts /\ Len(<<>>) = 0 /\ 1..0 = {}
  BY DEF Parts
<1>3. Handed
  BY <1>1, <1>2 DEF Handed
<1>4. OneId(<<>>)
  BY <1>2 DEF OneId
<1>5. Text!TypeOK
  BY <1>1, <1>2 DEF Text!TypeOK, Text!Groups, Parts
<1>6. FileOrder(LineOf(<<>>, <<>>, <<>>), <<>>, {})
  <2> DEFINE line == LineOf(<<>>, <<>>, <<>>)
  <2>1. Len(line) = 1 /\ line[1] = <<>>
    <3>1. Arranged(line, <<>>, <<>>, <<>>)
      BY <1>2, LineShape
    <3> HIDE DEF line
    <3> QED
      BY <1>2, <3>1 DEF Arranged
  <2> HIDE DEF line
  <2>2. \A g \in 1..Len(line) : 1..Len(line[g]) = {}
    BY <1>2, <2>1
  <2> QED
    BY <1>2, <2>2 DEF FileOrder, Once, OnlyAccepted, InOrder, line
<1> QED
  BY <1>1, <1>3, <1>4, <1>5, <1>6 DEF GroupInv

LEMMA StepFileInv == LoggerInv /\ FileInv /\ [Next]_vars => FileInv'
<1> SUFFICES ASSUME LoggerInv, FileInv, [Next]_vars, dest' = "txt"
             PROVE  GroupInv' /\ Handed'
  BY DEF FileInv
<1>0. dest = "txt" /\ dest' = dest
  BY DEF Next, LogInfo, LogPacket, Call, Stamp, Insert, Midnight, Start, Stop, Thread, ToSqlite,
         ToText, front, vars
<1>1. GroupInv /\ Handed /\ FrontInv /\ accepted \in Seq(Messages)
  BY <1>0 DEF FileInv, LoggerInv, GroupInv, Text!TypeOK
<1> DEFINE Same == UNCHANGED <<pc, exit, groups, taken, stored, lost, accepted>>
<1>2. Same => GroupInv'
  BY <1>1 DEF GroupInv, Text!TypeOK
<1>3. UNCHANGED <<calls, jobs, accepted>> => Handed'
  BY <1>1 DEF Handed
<1>4. ASSUME NEW n, Call(n) PROVE GroupInv' /\ Handed'
  <2>1. Same
    BY <1>4 DEF Call, sqliteOnly, textOnly
  <2> QED
    BY <1>1, <1>2, <1>4, <2>1, HandedCall
<1>5. ASSUME NEW j \in jobs, Stamp(j) PROVE GroupInv' /\ Handed'
  <2>1. Same
    BY <1>5 DEF Stamp, sqliteOnly, textOnly
  <2> QED
    BY <1>1, <1>2, <1>5, <2>1, HandedStamp
<1>6. ASSUME NEW j \in jobs, Insert(j) PROVE GroupInv' /\ Handed'
  <2> DEFINE m == [call |-> j.call, piece |-> j.piece, id |-> IdOf[j.call], day |-> j.day]
  <2>1. m \in Messages /\ m.call = j.call /\ m.piece = j.piece /\ j.day # 0
    BY <1>1, <1>6, InsertedMessage DEF Insert
  <2>2. Text!Insert(m)
    BY <1>0, <1>6 DEF Insert
  <2> HIDE DEF m
  <2>3. \A i \in 1..Len(accepted) : accepted[i] # m
    BY <1>1, <2>1, NewMessage
  <2>4. UNCHANGED <<pc, exit, taken, stored, lost>>
    BY <2>2 DEF Text!Insert
  <2>5. \/ /\ accepted' = Append(accepted, m)
           /\ \E q \in Text!GroupsOf(m) : groups' = [groups EXCEPT ![q] = Append(@, m)]
        \/ /\ accepted' = Append(accepted, m)
           /\ Text!GroupsOf(m) = {} /\ groups' = Append(groups, <<m>>)
        \/ UNCHANGED <<groups, accepted>>
    BY <2>2 DEF Text!Insert
  <2>6. GroupInv'
    <3>1. ASSUME accepted' = Append(accepted, m), NEW q \in Text!GroupsOf(m),
                 groups' = [groups EXCEPT ![q] = Append(@, m)]
          PROVE  GroupInv'
      BY <1>1, <2>1, <2>3, <2>4, <3>1, JoinKeeps
    <3>2. ASSUME accepted' = Append(accepted, m), Text!GroupsOf(m) = {},
                 groups' = Append(groups, <<m>>)
          PROVE  GroupInv'
      BY <1>1, <2>1, <2>3, <2>4, <3>2, BeginKeeps
    <3> QED
      BY <1>2, <2>4, <2>5, <3>1, <3>2
  <2>7. Handed'
    BY <1>1, <1>6, <2>1, <2>5, HandedInsert
  <2> QED
    BY <2>6, <2>7
<1>7. CASE Midnight \/ UNCHANGED vars
  <2>1. Same /\ UNCHANGED <<calls, jobs>>
    BY <1>7 DEF Midnight, vars, front, sqliteOnly, textOnly
  <2> QED
    BY <1>2, <1>3, <2>1
<1>8. CASE Start \/ Stop \/ Thread
  <2>1. UNCHANGED <<calls, jobs>>
    BY <1>8 DEF Start, Stop, Thread, ToSqlite, ToText, front
  <2>2. CASE Text!StartThread \/ Text!Stop \/ Text!Test \/ Text!NothingToWrite \/ Text!EndPass
    <3>1. /\ UNCHANGED <<groups, taken, stored, lost, accepted>>
          /\ pc' \in {"off", "loop", "pass", "write", "lastpass", "last", "done"} /\ exit' \in BOOLEAN
          /\ pc' \notin {"write", "last"} => taken = <<>>
      BY <1>1, <2>2 DEF GroupInv, Text!TypeOK, Text!StartThread, Text!Stop, Text!Test,
             Text!NothingToWrite, Text!EndPass
    <3> QED
      BY <1>1, <1>3, <2>1, <3>1, GroupsStay
  <2>3. CASE Text!Take
    BY <1>1, <1>3, <2>1, <2>3, TakeKeeps DEF Text!Take
  <2>4. CASE Text!WriteGroup \/ Text!LoseGroup
    BY <1>1, <1>3, <2>1, <2>4, GroupKeeps DEF Text!WriteGroup, Text!LoseGroup
  <2> QED
    BY <1>0, <1>8, <2>2, <2>3, <2>4
    DEF Start, Stop, Thread, ToSqlite, ToText, Text!Thread
<1> QED
  BY <1>4, <1>5, <1>6, <1>7, <1>8 DEF Next, LogInfo, LogPacket

-----------------------------------------------------------------------------

\* The invariant holds at all times: of the callers and the queues, of the thread that
\* writes to the database, and of the one that writes the files.
THEOREM LoggerInvariant == Spec => [](LoggerInv /\ SqliteInv /\ FileInv)
  BY InitLoggerInv, InitSqliteInv, InitFileInv, StepLoggerInv, StepSqliteInv, StepFileInv,
     PTL DEF Spec

\* Every variable has its type and no group is without a message, so that front() has
\* one to give, for any number of callers and pieces (logger_writer.cpp:192-219).
THEOREM LoggerTypeTheorem == Spec => []TypeOK
<1>1. LoggerInv /\ SqliteInv /\ FileInv => TypeOK
  BY SqliteTypes DEF LoggerInv, FrontInv, SqliteInv, FileInv, GroupInv, TypeOK
<1> QED
  BY <1>1, LoggerInvariant, PTL

\* However callers and the thread take turns at the groups, each file has the messages
\* of its id once and in the order they were accepted, and only those of groups that
\* could not be written are missing (logger_writer.cpp:69-108, 192-219).
THEOREM FilesTheorem == Spec => []FilesKeepOrder
<1>1. FileInv => FilesKeepOrder
  BY LineKeepsOrder DEF FilesKeepOrder
<1> QED
  BY <1>1, LoggerInvariant, PTL

\* Whatever statement fails, and whenever callers insert, the rows of the database and
\* the two queues behind them are what was accepted, in its order
\* (sqlite_writer.cpp:327-487).
THEOREM StoredTheorem == Spec => []StoredInOrder
<1>1. LoggerInv => StoredInOrder
  BY DEF LoggerInv, StoreInv, StoredInOrder
<1> QED
  BY <1>1, LoggerInvariant, PTL

\* The queue of the callers stays bounded however long the database does not answer
\* (sqlite_writer.cpp:340-364).
THEOREM BoundedTheorem == Spec => []QueueIsBounded
<1>1. LoggerInv => QueueIsBounded
  BY DEF LoggerInv, QueueInv
<1> QED
  BY <1>1, LoggerInvariant, PTL
=============================================================================
