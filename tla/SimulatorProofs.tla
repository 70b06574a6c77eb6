-------------------------- MODULE SimulatorProofs --------------------------
(***************************************************************************)
(* Proofs about the reader and about the composition.                      *)
(*                                                                         *)
(* The reader: for every stream, every cut of it and every header length   *)
(* what became a packet never overlaps (DisjointTheorem), is a frame of    *)
(* the peer when headers are unambiguous (OnlyFramesTheorem), and nothing  *)
(* of a read that starts with a frame is left out (WholeFramesTheorem).    *)
(*                                                                         *)
(* The composition, for any stream and any number of workers: every step   *)
(* of the simulator is, of each of its parts, a step or none, so that what *)
(* is proved of the parts holds in the whole.                              *)
(***************************************************************************)
EXTENDS Simulator, FiniteSetTheorems, TLAPS

ChannelProofs == INSTANCE ServerChannelProofs WITH
    Conns <- {Conn}, Replies <- Tasks, Empty <- {}, BlockLen <- 1, IdLimit <- 1,
    CopiedAtCall <- TRUE

USE FrameReaderAssumption

-----------------------------------------------------------------------------
(* The reader.                                                             *)

\* What Init says of the stream, which never changes.
StreamInv ==
    /\ starts \subseteq Positions
    /\ claim \in [Positions -> {0} \cup PacketLens]
    /\ \A s \in starts :
          /\ claim[s] # 0
          /\ FrameEnd(s) = StreamLen \/ FrameEnd(s) + 1 \in starts
          /\ \A t \in starts : t <= s \/ t > FrameEnd(s)

\* The buffer is a part of what was read; between two reads it is empty.
BufferInv ==
    /\ got \in 0..StreamLen
    /\ first \in 1..(StreamLen + 1)
    /\ lo \in 1..(StreamLen + 1)
    /\ lo <= got + 1
    /\ running \in BOOLEAN
    /\ delivered \in Seq([from : Positions, to : Positions])

\* While the loop runs on a read that started with a frame, lo is the start of a
\* frame or the end of the read, and all frames before it were delivered.
LoopInv ==
    running /\ first \in starts =>
        /\ first <= lo
        /\ lo \in starts \/ lo = got + 1
        /\ \A s \in starts :
              first <= s /\ s < lo =>
                 \E i \in 1..Len(delivered) :
                    delivered[i] = [from |-> s, to |-> FrameEnd(s)]

\* The invariant that every step preserves.
FrameInv ==
    /\ StreamInv /\ BufferInv
    /\ PacketsAreDisjoint /\ OnlyFramesAreDelivered
    /\ LoopInv /\ WholeFramesAreDelivered

-----------------------------------------------------------------------------

\* The initial states satisfy the invariant: nothing was read yet.
LEMMA InitFrameInv == Init => FrameInv
<1> SUFFICES ASSUME Init PROVE FrameInv
  OBVIOUS
<1> USE DEF Init, Positions, PacketLens
<1>1. StreamInv
  BY DEF StreamInv, FrameEnd
<1>2. BufferInv
  <2>1. delivered \in Seq([from : Positions, to : Positions])
    OBVIOUS
  <2>2. got \in 0..StreamLen /\ first \in 1..(StreamLen + 1) /\ lo \in 1..(StreamLen + 1)
    OBVIOUS
  <2>3. lo <= got + 1
    OBVIOUS
  <2>4. running \in BOOLEAN
    BY Zenon
  <2> QED
    BY <2>1, <2>2, <2>3, <2>4, Zenon DEF BufferInv
<1>3. PacketsAreDisjoint /\ OnlyFramesAreDelivered /\ LoopInv
  BY DEF PacketsAreDisjoint, OnlyFramesAreDelivered, LoopInv
<1>4. WholeFramesAreDelivered
  <2> SUFFICES ASSUME NEW s \in starts, first <= s, FrameEnd(s) <= got PROVE FALSE
    BY DEF WholeFramesAreDelivered
  <2>1. claim[s] \in PacketLens /\ claim[s] >= 1 /\ s \in Nat
    BY <1>1 DEF StreamInv
  <2> QED
    BY <2>1 DEF FrameEnd
<1> QED
  BY <1>1, <1>2, <1>3, <1>4 DEF FrameInv

\* A frame is at least one position long and ends inside the stream.
LEMMA FrameBounds ==
    ASSUME StreamInv, NEW s \in starts
    PROVE  /\ s \in Positions
           /\ claim[s] \in Nat /\ claim[s] >= HeaderLen /\ claim[s] >= 1
           /\ FrameEnd(s) \in Nat /\ s <= FrameEnd(s) /\ FrameEnd(s) <= StreamLen
<1>1. s \in Positions /\ claim[s] \in Nat /\ claim[s] >= HeaderLen /\ claim[s] >= 1
  BY DEF StreamInv, Positions, PacketLens
<1>2. FrameEnd(s) = StreamLen \/ FrameEnd(s) + 1 \in Positions
  BY DEF StreamInv
<1> QED
  BY <1>1, <1>2 DEF FrameEnd, Positions

\* An element of a sequence is in the sequence's set.
LEMMA ElementOfSeq ==
    ASSUME NEW S, NEW q \in Seq(S), NEW i \in 1..Len(q) PROVE q[i] \in S
  OBVIOUS

\* The delivered parts have numbers for their ends.
LEMMA PartBounds ==
    ASSUME delivered \in Seq([from : Positions, to : Positions])
    PROVE  \A i \in 1..Len(delivered) :
              delivered[i].from \in Nat /\ delivered[i].to \in Nat
<1> SUFFICES ASSUME NEW i \in 1..Len(delivered)
               PROVE  delivered[i].from \in Nat /\ delivered[i].to \in Nat
  OBVIOUS
<1>2. delivered[i] \in [from : Positions, to : Positions]
  BY ElementOfSeq, Zenon
<1>3. delivered[i].from \in Positions /\ delivered[i].to \in Positions
  BY <1>2
<1> QED
  BY <1>3 DEF Positions

\* A read starts a loop on what it returned.
LEMMA ReadKeeps == ASSUME FrameInv, NEW n \in 1..ReadMax, Read(n) PROVE FrameInv'
<1> USE DEF Read, FrameInv, stream
<1>0. n \in Nat /\ n >= 1 /\ got \in Nat /\ lo \in Nat
  BY DEF BufferInv
<1>1. StreamInv'
  BY DEF StreamInv, FrameEnd
<1>2. BufferInv'
  BY <1>0 DEF BufferInv
<1>3. PacketsAreDisjoint'
  <2>1. lo <= lo'
    BY <1>0 DEF BufferInv
  <2>2. \A i \in 1..Len(delivered) : delivered[i].to \in Nat
    BY PartBounds DEF BufferInv
  <2> QED
    BY <1>0, <2>1, <2>2 DEF PacketsAreDisjoint
<1>4. OnlyFramesAreDelivered'
  BY DEF OnlyFramesAreDelivered, Unambiguous, FrameEnd
<1>5. LoopInv'
  BY <1>0 DEF LoopInv, StreamInv, Positions
<1>6. WholeFramesAreDelivered'
  BY DEF WholeFramesAreDelivered
<1> QED
  BY <1>1, <1>2, <1>3, <1>4, <1>5, <1>6

\* Leaving the loop because the buffer holds no whole packet that starts at lo.
LEMMA LeaveKeeps ==
    ASSUME FrameInv, running, Leave,
           lo \in starts => ~LongEnough \/ ~Fits(PacketLen)
    PROVE  FrameInv'
<1> USE DEF Leave, FrameInv, stream
<1>0. got \in Nat /\ lo \in Nat /\ lo <= got + 1
  BY DEF BufferInv
<1>1. StreamInv'
  BY DEF StreamInv, FrameEnd
<1>2. BufferInv'
  <2>1. got + 1 \in 1..(StreamLen + 1)
    BY DEF BufferInv
  <2>2. lo' \in 1..(StreamLen + 1) /\ lo' <= got' + 1
    BY <1>0, <2>1
  <2>3. running' \in BOOLEAN
    BY Zenon
  <2>4. /\ got' \in 0..StreamLen /\ first' \in 1..(StreamLen + 1)
        /\ delivered' \in Seq([from : Positions, to : Positions])
    BY Zenon DEF BufferInv
  <2> QED
    BY <2>2, <2>3, <2>4, Zenon DEF BufferInv
<1>3. PacketsAreDisjoint'
  <2>1. \A i \in 1..Len(delivered) : delivered[i].to \in Nat
    BY PartBounds DEF BufferInv
  <2> QED
    BY <1>0, <2>1 DEF PacketsAreDisjoint
<1>4. OnlyFramesAreDelivered'
  BY DEF OnlyFramesAreDelivered, Unambiguous, FrameEnd
<1>5. LoopInv'
  BY DEF LoopInv
<1>6. WholeFramesAreDelivered'
  <2> SUFFICES ASSUME first \in starts, NEW s \in starts, first <= s,
                      FrameEnd(s) <= got, FrameEnd(s) < got \/ claim[s] > HeaderLen
               PROVE  \E i \in 1..Len(delivered) :
                         delivered[i] = [from |-> s, to |-> FrameEnd(s)]
    BY DEF WholeFramesAreDelivered, FrameEnd
  <2>1. s \in Nat /\ claim[s] \in Nat /\ claim[s] >= HeaderLen /\ s <= FrameEnd(s)
    BY FrameBounds DEF Positions
  <2>2. CASE s < lo
    BY <2>2 DEF LoopInv
  <2>3. CASE lo <= s
    <3>1. lo \in starts
      BY <2>1, <2>3, <1>0 DEF LoopInv, FrameEnd
    <3>2. claim[lo] \in Nat /\ claim[lo] >= HeaderLen /\ lo <= FrameEnd(lo)
      BY <3>1, FrameBounds
    <3>3. FrameEnd(lo) <= FrameEnd(s)
      BY <2>1, <2>3, <3>1, <3>2, <1>0 DEF StreamInv, FrameEnd
    <3>4. Fits(PacketLen)
      BY <3>2, <3>3, <2>1, <1>0 DEF Fits, PacketLen, Size, FrameEnd
    <3>5. LongEnough
      <4>1. CASE s = lo
        BY <4>1, <2>1, <3>2, <1>0 DEF LongEnough, Size, FrameEnd
      <4>2. CASE lo < s
        <5>1. FrameEnd(lo) < s
          BY <4>2, <3>1, <3>2, <2>1, <1>0 DEF StreamInv, FrameEnd
        <5> QED
          BY <5>1, <4>2, <2>1, <3>2, <1>0 DEF LongEnough, Size, FrameEnd
      <4> QED
        BY <4>1, <4>2, <2>1, <2>3, <1>0
    <3> QED
      BY <3>1, <3>4, <3>5
  <2> QED
    BY <2>1, <2>2, <2>3, <1>0
<1> QED
  BY <1>1, <1>2, <1>3, <1>4, <1>5, <1>6

\* A packet is taken from the front of the buffer.
LEMMA DeliverKeeps == ASSUME FrameInv, Deliver PROVE FrameInv'
<1> DEFINE len == claim[lo]
           part == [from |-> lo, to |-> lo + len - 1]
<1> USE DEF FrameInv
<1>0. /\ running /\ running' = running /\ first' = first /\ got' = got
      /\ starts' = starts /\ claim' = claim
      /\ lo' = lo + len /\ len # 0 /\ len <= got + 1 - lo
      /\ delivered' = Append(delivered, part)
  BY DEF Deliver, stream, Fits, PacketLen, Size, Removed
<1>1. /\ got \in Nat /\ lo \in Nat /\ lo >= 1 /\ lo <= got + 1 /\ got <= StreamLen
      /\ delivered \in Seq([from : Positions, to : Positions])
  BY DEF BufferInv
<1>2. lo \in Positions
  <2>1. claim \in [Positions -> {0} \cup PacketLens]
    BY DEF StreamInv
  <2>2. lo <= got
    BY <1>0, <1>1 DEF Deliver, LongEnough, Size
  <2> QED
    BY <2>2, <1>1 DEF Positions
<1>3. len \in Nat /\ len >= 1
  BY <1>0, <1>2 DEF StreamInv, PacketLens
<1>4. part \in [from : Positions, to : Positions]
  BY <1>0, <1>1, <1>2, <1>3 DEF Positions
<1>5. /\ Len(delivered') = Len(delivered) + 1
      /\ delivered'[Len(delivered) + 1] = part
      /\ \A i \in 1..Len(delivered) : delivered'[i] = delivered[i]
      /\ Len(delivered) \in Nat
      /\ delivered' \in Seq([from : Positions, to : Positions])
  BY <1>0, <1>1, <1>4
<1> HIDE DEF part, len
<1>6. part.from = lo /\ part.to = lo + len - 1
  BY DEF part
<1>7. \A i \in 1..Len(delivered') :
         i \in 1..Len(delivered) \/ i = Len(delivered) + 1
  BY <1>5
<1>11. StreamInv'
  BY <1>0 DEF StreamInv, FrameEnd
<1>12. BufferInv'
  BY <1>0, <1>1, <1>3, <1>5 DEF BufferInv
<1>13. PacketsAreDisjoint'
  <2>1. \A i \in 1..Len(delivered) : delivered[i].to \in Nat /\ delivered[i].from \in Nat
    BY <1>1, PartBounds
  <2>2. lo' <= got' + 1
    BY <1>0, <1>1, <1>3
  <2>3. ASSUME NEW i \in 1..Len(delivered')
        PROVE  /\ delivered'[i].from <= delivered'[i].to
               /\ delivered'[i].to < lo'
               /\ \A j \in 1..(i - 1) : delivered'[j].to < delivered'[i].from
    <3>1. CASE i \in 1..Len(delivered)
      BY <3>1, <1>0, <1>1, <1>3, <1>5, <2>1 DEF PacketsAreDisjoint
    <3>2. CASE i = Len(delivered) + 1
      <4>1. \A j \in 1..(i - 1) : delivered'[j].to < lo
        BY <3>2, <1>5 DEF PacketsAreDisjoint
      <4> QED
        BY <3>2, <4>1, <1>0, <1>1, <1>3, <1>5, <1>6
    <3> QED
      BY <3>1, <3>2, <1>7
  <2> QED
    BY <2>2, <2>3 DEF PacketsAreDisjoint
<1>14. OnlyFramesAreDelivered'
  <2> SUFFICES ASSUME Unambiguous, NEW i \in 1..Len(delivered')
               PROVE  /\ delivered'[i].from \in starts
                      /\ delivered'[i].to = FrameEnd(delivered'[i].from)
    BY <1>0 DEF OnlyFramesAreDelivered, Unambiguous, FrameEnd
  <2>1. CASE i \in 1..Len(delivered)
    BY <2>1, <1>5 DEF OnlyFramesAreDelivered
  <2>2. CASE i = Len(delivered) + 1
    BY <2>2, <1>0, <1>2, <1>5, <1>6 DEF Unambiguous, FrameEnd, len
  <2> QED
    BY <2>1, <2>2, <1>7
<1>15. LoopInv'
  <2> SUFFICES ASSUME first \in starts
               PROVE  /\ first <= lo'
                      /\ lo' \in starts \/ lo' = got + 1
                      /\ \A s \in starts :
                            first <= s /\ s < lo' =>
                               \E i \in 1..Len(delivered') :
                                  delivered'[i] = [from |-> s, to |-> FrameEnd(s)]
    BY <1>0 DEF LoopInv, FrameEnd
  <2>1. lo \in starts
    BY <1>0, <1>1, <1>3 DEF LoopInv
  <2>2. first \in Nat /\ first <= lo
    BY <1>0 DEF LoopInv, BufferInv
  <2>3. FrameEnd(lo) = lo + len - 1
    BY DEF FrameEnd, len
  <2>4. lo' \in starts \/ lo' = got + 1
    <3>1. FrameEnd(lo) = StreamLen \/ FrameEnd(lo) + 1 \in starts
      BY <2>1 DEF StreamInv
    <3> QED
      BY <3>1, <2>3, <1>0, <1>1, <1>3
  <2>5. ASSUME NEW s \in starts, first <= s, s < lo'
        PROVE  \E i \in 1..Len(delivered') :
                  delivered'[i] = [from |-> s, to |-> FrameEnd(s)]
    <3>0. s \in Nat
      BY FrameBounds DEF Positions
    <3>1. CASE s < lo
      <4>1. PICK i \in 1..Len(delivered) :
                    delivered[i] = [from |-> s, to |-> FrameEnd(s)]
        BY <3>1, <2>5, <1>0 DEF LoopInv
      <4>2. i \in 1..Len(delivered') /\ delivered'[i] = delivered[i]
        BY <1>5
      <4> QED
        BY <4>1, <4>2
    <3>2. CASE s = lo
      <4>1. part = [from |-> s, to |-> FrameEnd(s)]
        BY <3>2, <2>3 DEF part
      <4>2. Len(delivered) + 1 \in 1..Len(delivered')
        BY <1>5
      <4> QED
        BY <4>1, <4>2, <1>5
    <3>3. CASE s > lo
      <4>1. s > FrameEnd(lo)
        BY <3>0, <3>3, <2>1, <1>1 DEF StreamInv
      <4> QED
        BY <4>1, <2>3, <2>5, <3>0, <1>0, <1>1, <1>3
    <3> QED
      BY <3>0, <3>1, <3>2, <3>3, <1>1
  <2> QED
    BY <2>2, <2>4, <2>5, <1>0, <1>1, <1>3
<1>16. WholeFramesAreDelivered'
  BY <1>0 DEF WholeFramesAreDelivered
<1> QED
  BY <1>11, <1>12, <1>13, <1>14, <1>15, <1>16

\* Every step preserves the invariant.
LEMMA StepFrameInv == FrameInv /\ [Next]_vars => FrameInv'
<1> SUFFICES ASSUME FrameInv, [Next]_vars PROVE FrameInv'
  OBVIOUS
<1>1. CASE \E n \in 1..ReadMax : Read(n)
  BY <1>1, ReadKeeps
<1>2. CASE TooShort
  BY <1>2, LeaveKeeps DEF TooShort
<1>3. CASE Discard
  BY <1>3, LeaveKeeps DEF Discard, FrameInv, StreamInv
<1>4. CASE Incomplete
  BY <1>4, LeaveKeeps DEF Incomplete
<1>5. CASE Deliver
  BY <1>5, DeliverKeeps
<1>6. CASE UNCHANGED vars
  BY <1>6 DEF vars, stream, FrameInv, StreamInv, BufferInv, PacketsAreDisjoint, LoopInv,
              OnlyFramesAreDelivered, WholeFramesAreDelivered, Unambiguous, FrameEnd
<1> QED
  BY <1>1, <1>2, <1>3, <1>4, <1>5, <1>6 DEF Next

\* The invariant holds for every stream, every cut and every header length.
THEOREM FrameInvariant == Spec => []FrameInv
  BY InitFrameInv, StepFrameInv, PTL DEF Spec

\* The variables of the reader always have their types: in particular no packet
\* reaches beyond the stream (frame_buffer.cpp:68-77).
THEOREM ReaderTypeTheorem == Spec => []TypeOK
<1>1. FrameInv => TypeOK
  BY DEF FrameInv, StreamInv, BufferInv, TypeOK
<1> QED
  BY <1>1, FrameInvariant, PTL

\* No byte of the stream is in two packets, and packets keep the order of the stream.
THEOREM DisjointTheorem == Spec => []PacketsAreDisjoint
<1>1. FrameInv => PacketsAreDisjoint
  BY DEF FrameInv
<1> QED
  BY <1>1, FrameInvariant, PTL

\* With unambiguous headers only whole frames of the peer become packets.
THEOREM OnlyFramesTheorem == Spec => []OnlyFramesAreDelivered
<1>1. FrameInv => OnlyFramesAreDelivered
  BY DEF FrameInv
<1> QED
  BY <1>1, FrameInvariant, PTL

\* A read that starts with a frame delivers every frame that it holds whole.
THEOREM WholeFramesTheorem == Spec => []WholeFramesAreDelivered
<1>1. FrameInv => WholeFramesAreDelivered
  BY DEF FrameInv
<1> QED
  BY <1>1, FrameInvariant, PTL

-----------------------------------------------------------------------------
(* The reader in the composition.                                          *)

\* A step of the simulator is a step of the reader or leaves it alone.
LEMMA ReaderStep == [SimNext]_simVars => [Next]_vars
<1> SUFFICES ASSUME [SimNext]_simVars PROVE [Next]_vars
  OBVIOUS
<1>1. CASE Send \/ Transport \/ Accept \/ OtherHandlers \/ UNCHANGED simVars
  BY <1>1 DEF Send, Transport, Accept, OtherHandlers, simVars, readerVars, vars
<1>2. CASE StartReading \/ MakeTask \/ StopReading
  BY <1>2 DEF StartReading, MakeTask, StopReading, Next
<1>3. ASSUME NEW w \in Workers, Worker(w) PROVE [Next]_vars
  BY <1>3 DEF Worker, TakeTask, Reply, NoReply, FinishTask, readerVars, vars
<1> QED
  BY <1>1, <1>2, <1>3 DEF SimNext

\* The stream and the buffer of the connection behave as FrameReader says, whatever the
\* other threads do (server_channel.hpp:240-263, ptcl_handler_serv.cpp:17-59).
THEOREM ReaderTheorem == SimSpec => Spec
<1>1. SimInit => Init
  BY DEF SimInit
<1> QED
  BY <1>1, ReaderStep, PTL DEF SimSpec, Spec

\* In the simulator, too, only whole frames of the peer become packets, in its order
\* (ptcl_handler_serv.cpp:17-59).
THEOREM SimulatorFramesTheorem ==
    SimSpec => [](PacketsAreDisjoint /\ OnlyFramesAreDelivered /\ WholeFramesAreDelivered)
  BY ReaderTheorem, DisjointTheorem, OnlyFramesTheorem, WholeFramesTheorem, PTL

-----------------------------------------------------------------------------
(* The queue of tasks.                                                     *)

\* Tasks are the packets in their order; a task that is held or handled was taken, and
\* nobody else holds it.
TaskInv ==
    /\ Len(delivered) < lo
    /\ tasks \in Seq(Tasks) /\ Len(tasks) = Len(delivered)
    /\ \A i \in 1..Len(tasks) : tasks[i] = i
    /\ taken \in 0..Len(tasks)
    /\ holding \in [Workers -> Tasks \cup {NoTask}]
    /\ \A w \in Workers : holding[w] # NoTask => holding[w] \in 1..taken
    /\ \A v, w \in Workers : holding[v] # NoTask /\ holding[v] = holding[w] => v = w
    /\ handled \subseteq 1..taken

QueueInv == FrameInv /\ TaskInv

\* Initially there are no tasks.
LEMMA InitQueueInv == SimInit => QueueInv
<1> SUFFICES ASSUME SimInit PROVE TaskInv
  BY InitFrameInv DEF SimInit, QueueInv
<1> QED
  BY DEF SimInit, Init, Work!Init, TaskInv

\* The number of the next packet is that of a position.
LEMMA NextTask ==
    ASSUME QueueInv, running, LongEnough
    PROVE  Len(delivered) + 1 \in Tasks
  BY DEF QueueInv, TaskInv, FrameInv, BufferInv, LongEnough, Size, Tasks, Positions

\* A packet becomes the last task.
LEMMA MakeTaskKeeps == QueueInv /\ MakeTask => TaskInv'
<1> SUFFICES ASSUME QueueInv, MakeTask PROVE TaskInv'
  OBVIOUS
<1> USE DEF QueueInv, TaskInv
<1>1. /\ running /\ LongEnough /\ claim[lo] # 0
      /\ lo' = lo + claim[lo]
      /\ \E d : delivered' = Append(delivered, d)
      /\ UNCHANGED <<starts, claim, got>>
  BY DEF MakeTask, Deliver, Removed, PacketLen, stream
<1>2. lo \in Positions /\ lo \in Nat
  BY <1>1 DEF LongEnough, Size, FrameInv, BufferInv, Positions
<1>3. claim[lo] \in Nat /\ claim[lo] >= 1
  BY <1>1, <1>2 DEF FrameInv, StreamInv, PacketLens
<1>4. /\ Len(delivered) \in Nat
      /\ Len(delivered') = Len(delivered) + 1
  BY <1>1 DEF FrameInv, BufferInv
<1>5. Len(delivered') < lo'
  BY <1>1, <1>2, <1>3, <1>4
<1>6. Len(delivered) + 1 \in Tasks
  BY <1>1, NextTask
<1>7. /\ tasks' = Append(tasks, Len(delivered) + 1)
      /\ UNCHANGED <<taken, holding, handled>>
  BY DEF MakeTask, Work!Put
<1>8. /\ tasks' \in Seq(Tasks) /\ Len(tasks') = Len(tasks) + 1
      /\ \A i \in 1..Len(tasks') : tasks'[i] = i
  BY <1>6, <1>7
<1> QED
  BY <1>4, <1>5, <1>7, <1>8 DEF Tasks

\* Workers take tasks in turn, and handle none but their own.
LEMMA WorkerKeeps ==
    ASSUME QueueInv, NEW w \in Workers, Worker(w)
    PROVE  TaskInv'
<1> USE DEF QueueInv, TaskInv, workVars
<1>0. UNCHANGED <<lo, delivered, tasks>>
  BY DEF Worker, TakeTask, Reply, NoReply, FinishTask, readerVars, Work!Take, Work!Finish
<1>1. CASE TakeTask(w)
  <2>1. /\ taken < Len(tasks) /\ taken' = taken + 1
        /\ holding' = [holding EXCEPT ![w] = tasks[taken + 1]]
        /\ handled' = handled
    BY <1>1 DEF TakeTask, Work!Take
  <2>2. taken \in Nat /\ taken + 1 \in 1..Len(tasks) /\ tasks[taken + 1] = taken + 1
    BY <2>1
  <2>3. tasks[taken + 1] \in Tasks
    BY <2>2
  <2>4. /\ holding' \in [Workers -> Tasks \cup {NoTask}]
        /\ holding'[w] = taken + 1
        /\ \A v \in Workers \ {w} : holding'[v] = holding[v]
    BY <2>1, <2>2, <2>3
  <2>5. \A v \in Workers : holding'[v] # NoTask => holding'[v] \in 1..taken'
    BY <2>1, <2>2, <2>4
  <2>6. \A v \in Workers \ {w} : holding'[v] # holding'[w]
    BY <2>2, <2>3, <2>4, SimulatorAssumption
  <2>7. \A u, v \in Workers : holding'[u] # NoTask /\ holding'[u] = holding'[v] => u = v
    BY <2>4, <2>6
  <2>8. taken' \in 0..Len(tasks) /\ handled' \subseteq 1..taken'
    BY <2>1, <2>2
  <2> QED
    BY <1>0, <2>4, <2>5, <2>7, <2>8
<1>2. CASE Reply(w) \/ NoReply(w)
  <2>1. handled' = handled \cup {holding[w]} /\ holding[w] # NoTask
        /\ UNCHANGED <<taken, holding>>
    BY <1>2 DEF Reply, NoReply, InHandler, HandlesOnReply
  <2> QED
    BY <1>0, <2>1
<1>3. CASE FinishTask(w)
  <2>1. holding' = [holding EXCEPT ![w] = NoTask] /\ UNCHANGED <<taken, handled>>
    BY <1>3 DEF FinishTask, Work!Finish
  <2> QED
    BY <1>0, <2>1
<1> QED
  BY <1>1, <1>2, <1>3 DEF Worker

\* Every step keeps the invariant of the queue.
LEMMA StepQueueInv == QueueInv /\ [SimNext]_simVars => QueueInv'
<1> SUFFICES ASSUME QueueInv, [SimNext]_simVars PROVE TaskInv'
  BY ReaderStep, StepFrameInv DEF QueueInv
<1>1. CASE Send \/ Transport \/ Accept \/ OtherHandlers \/ UNCHANGED simVars
  BY <1>1 DEF QueueInv, TaskInv, Send, Transport, Accept, OtherHandlers, simVars, readerVars,
              workVars
<1>2. CASE StartReading \/ StopReading
  <2>1. lo' >= lo /\ lo \in Nat /\ lo' \in Nat /\ UNCHANGED <<delivered, handled, workVars>>
    BY <1>2 DEF QueueInv, FrameInv, BufferInv, StartReading, StopReading, Read, TooShort, Discard,
                Incomplete, Leave, vars
  <2> QED
    BY <2>1 DEF QueueInv, TaskInv, FrameInv, BufferInv, workVars
<1>3. CASE MakeTask
  BY <1>3, MakeTaskKeeps
<1>4. ASSUME NEW w \in Workers, Worker(w) PROVE TaskInv'
  BY <1>4, WorkerKeeps
<1> QED
  BY <1>1, <1>2, <1>3, <1>4 DEF SimNext

\* The tasks of a connection are a queue in which each packet is put once, for any
\* number of packets and workers (ptcl_handler_serv.cpp:46-59, thread_pool.hpp:36-53).
THEOREM QueueTheorem == SimSpec => Work!Spec
<1>1. SimInit => Work!Init
  BY DEF SimInit
<1>2. QueueInv /\ [SimNext]_simVars => [Work!Next]_(Work!vars)
  <2> SUFFICES ASSUME QueueInv, [SimNext]_simVars PROVE [Work!Next]_(Work!vars)
    OBVIOUS
  <2> USE DEF Work!vars, workVars
  <2>1. CASE Send \/ Transport \/ Accept \/ OtherHandlers \/ StartReading \/ StopReading
             \/ UNCHANGED simVars
    BY <2>1 DEF Send, Transport, Accept, OtherHandlers, StartReading, StopReading, simVars
  <2>2. CASE MakeTask
    <3>1. Len(delivered) + 1 \in Tasks
      BY <2>2, NextTask DEF MakeTask, Deliver
    <3> QED
      BY <2>2, <3>1 DEF MakeTask, Work!Next
  <2>3. ASSUME NEW w \in Workers, Worker(w) PROVE [Work!Next]_(Work!vars)
    BY <2>3 DEF Worker, TakeTask, Reply, NoReply, FinishTask, Work!Next
  <2> QED
    BY <2>1, <2>2, <2>3 DEF SimNext
<1> QED
  BY <1>1, <1>2, InitQueueInv, StepQueueInv, PTL DEF SimSpec, Work!Spec

-----------------------------------------------------------------------------
(* The server channel.                                                     *)

\* ChannelProofs is an instance of ServerChannel too, and its operators are those of
\* Channel.
LEMMA SameInit == Channel!Init => ChannelProofs!Init
  BY DEF Channel!Init, ChannelProofs!Init, Channel!Ids, ChannelProofs!Ids

LEMMA SameVars == UNCHANGED channelVars => UNCHANGED ChannelProofs!vars
  BY DEF channelVars, ChannelProofs!vars

LEMMA SameAccept == ASSUME NEW c, Channel!Accept(c) PROVE ChannelProofs!Accept(c)
  BY DEF
      Channel!Accept, Channel!NextMeterId, Channel!Insert, Channel!writeVars,
      ChannelProofs!Accept, ChannelProofs!NextMeterId, ChannelProofs!Insert,
      ChannelProofs!writeVars

LEMMA SameStopping == ASSUME NEW c, Channel!Stopping(c) PROVE ChannelProofs!Stopping(c)
  BY DEF
      Channel!StopStep, Channel!StopAgain, Channel!CloseSocket, Channel!GoOffline,
      Channel!OwnsEntry, Channel!FindHandler, Channel!RemoveHandler, Channel!MarkRemoved,
      Channel!Stopping, Channel!acceptVars, Channel!writeVars, ChannelProofs!StopStep,
      ChannelProofs!StopAgain, ChannelProofs!CloseSocket, ChannelProofs!GoOffline,
      ChannelProofs!OwnsEntry, ChannelProofs!FindHandler, ChannelProofs!RemoveHandler,
      ChannelProofs!MarkRemoved, ChannelProofs!Stopping, ChannelProofs!acceptVars,
      ChannelProofs!writeVars

LEMMA SameReading ==
    ASSUME NEW c, \/ Channel!ReadCompletes(c) \/ Channel!HandleRead(c) \/ Channel!HandleReadEnd(c)
    PROVE  ChannelProofs!ReadCompletes(c) \/ ChannelProofs!Handling(c)
  BY DEF ChannelProofs!Handling,
      Channel!ReadCompletes, Channel!HandleRead, Channel!HandleReadEnd, Channel!Readable,
      Channel!StopStep, Channel!acceptVars, Channel!writeVars,
      ChannelProofs!ReadCompletes, ChannelProofs!HandleRead, ChannelProofs!HandleReadEnd,
      ChannelProofs!Readable, ChannelProofs!StopStep, ChannelProofs!acceptVars,
      ChannelProofs!writeVars

LEMMA SamePut == ASSUME NEW c, NEW m, Channel!Put(c, m) PROVE ChannelProofs!Put(c, m)
  BY DEF
      Channel!Put, Channel!MayStartInPut, Channel!Started, Channel!Units,
      Channel!Pending, Channel!acceptVars, ChannelProofs!Put,
      ChannelProofs!MayStartInPut, ChannelProofs!Started, ChannelProofs!Units,
      ChannelProofs!Pending, ChannelProofs!acceptVars

LEMMA SameWriteCompletes ==
    ASSUME NEW c, Channel!WriteCompletes(c) PROVE ChannelProofs!WriteCompletes(c)
  BY DEF
      Channel!WriteCompletes, Channel!OnTheWire, Channel!Pending, Channel!Failed,
      Channel!acceptVars, ChannelProofs!WriteCompletes, ChannelProofs!OnTheWire,
      ChannelProofs!Pending, ChannelProofs!Failed, ChannelProofs!acceptVars

LEMMA SameHandleWrite ==
    ASSUME NEW c, Channel!HandleWrite(c) \/ Channel!HandleWriteEnd(c)
    PROVE  ChannelProofs!Handling(c)
  BY DEF ChannelProofs!Handling,
      Channel!HandleWrite, Channel!HandleWriteEnd, Channel!Advanced, Channel!StartNext,
      Channel!Started, Channel!Units, Channel!Pending, Channel!Failed, Channel!StopStep,
      Channel!acceptVars, ChannelProofs!HandleWrite, ChannelProofs!HandleWriteEnd,
      ChannelProofs!Advanced, ChannelProofs!StartNext, ChannelProofs!Started,
      ChannelProofs!Units, ChannelProofs!Pending, ChannelProofs!Failed,
      ChannelProofs!StopStep, ChannelProofs!acceptVars

\* The process stays up here, and the only reply that a worker puts is its task.
SimInv == QueueInv /\ up

LEMMA InitSimInv == SimInit => SimInv
  BY InitQueueInv DEF SimInit, SimInv, Channel!Init

LEMMA StepSimInv == SimInv /\ [SimNext]_simVars => SimInv'
<1> SUFFICES ASSUME SimInv, [SimNext]_simVars PROVE up' = up
  BY StepQueueInv DEF SimInv
<1>1. CASE Send \/ StartReading \/ MakeTask \/ StopReading \/ UNCHANGED simVars
  BY <1>1 DEF Send, StartReading, MakeTask, StopReading, simVars, channelVars, Channel!HandleRead,
              Channel!acceptVars
<1>2. CASE Transport \/ Accept
  BY <1>2 DEF Transport, Accept, Channel!Accept, Channel!ReadCompletes, Channel!WriteCompletes,
              Channel!acceptVars
<1>3. CASE OtherHandlers
  BY <1>3 DEF OtherHandlers, Channel!HandleReadEnd, Channel!HandleWrite, Channel!HandleWriteEnd,
              Channel!Stopping, Channel!StopAgain, Channel!CloseSocket, Channel!GoOffline,
              Channel!FindHandler, Channel!RemoveHandler, Channel!MarkRemoved, Channel!acceptVars
<1>4. ASSUME NEW w \in Workers, Worker(w) PROVE up' = up
  BY <1>4 DEF Worker, TakeTask, Reply, NoReply, FinishTask, channelVars, Channel!Put,
              Channel!acceptVars
<1> QED
  BY <1>1, <1>2, <1>3, <1>4 DEF SimNext

\* A step of the simulator is a step of the channel or leaves it alone.
LEMMA ChannelStep == SimInv /\ [SimNext]_simVars => [ChannelProofs!Next]_(ChannelProofs!vars)
<1> SUFFICES ASSUME SimInv, [SimNext]_simVars
             PROVE  UNCHANGED channelVars \/ ChannelProofs!Next
  BY SameVars
<1>0. up
  BY DEF SimInv
<1>1. CASE Send \/ MakeTask \/ StopReading \/ UNCHANGED simVars
  BY <1>1 DEF Send, MakeTask, StopReading, simVars
<1>2. CASE Accept
  BY <1>0, <1>2, SameAccept DEF Accept, ChannelProofs!Next
<1>3. CASE Transport \/ StartReading
  <2>1. \/ Channel!WriteCompletes(Conn) \/ Channel!ReadCompletes(Conn) \/ Channel!HandleRead(Conn)
    BY <1>3 DEF Transport, StartReading
  <2> QED
    BY <1>0, <2>1, SameReading, SameWriteCompletes DEF ChannelProofs!Next
<1>4. CASE OtherHandlers
  <2>1. \/ Channel!HandleReadEnd(Conn) \/ Channel!HandleWrite(Conn)
        \/ Channel!HandleWriteEnd(Conn) \/ Channel!Stopping(Conn)
    BY <1>4 DEF OtherHandlers
  <2> QED
    BY <1>0, <2>1, SameReading, SameHandleWrite, SameStopping DEF ChannelProofs!Next
<1>5. ASSUME NEW w \in Workers, Worker(w) PROVE UNCHANGED channelVars \/ ChannelProofs!Next
  <2>1. CASE Reply(w)
    <3>1. holding[w] \in Tasks
      BY <2>1 DEF Reply, InHandler, SimInv, QueueInv, TaskInv
    <3>2. ChannelProofs!Put(Conn, holding[w])
      BY <2>1, SamePut DEF Reply
    <3> QED
      BY <1>0, <3>1, <3>2 DEF ChannelProofs!Next
  <2>2. CASE TakeTask(w) \/ NoReply(w) \/ FinishTask(w)
    BY <2>2 DEF TakeTask, NoReply, FinishTask
  <2> QED
    BY <1>5, <2>1, <2>2 DEF Worker
<1> QED
  BY <1>1, <1>2, <1>3, <1>4, <1>5 DEF SimNext

\* The connection's handler, and the map it is in, behave as ServerChannel says when the
\* replies are those of the workers (server_channel.hpp:59-263).
THEOREM ChannelTheorem == SimSpec => ChannelProofs!Spec
<1>1. SimInit => ChannelProofs!Init
  BY SameInit DEF SimInit
<1> QED
  BY <1>1, ChannelStep, InitSimInv, StepSimInv, PTL DEF SimSpec, ChannelProofs!Spec

\* So what is proved of the channel holds in the simulator.
LEMMA ChannelHolds == SimSpec => []ChannelProofs!ChannelInv
<1>1. ChannelProofs!ServerChannelAssumption
  BY SimulatorAssumption DEF ChannelProofs!ServerChannelAssumption
<1> QED
  BY <1>1, ChannelTheorem, ChannelProofs!ChannelInvariant, PTL

\* In the simulator, too, a socket has one write at a time, no reply is left waiting
\* while the connection is online, and what is on the wire are the replies of the
\* workers in their order, each complete before the next
\* (server_channel.hpp:88-99, 176-227).
THEOREM SimulatorWritesTheorem ==
    SimSpec => [](/\ ChannelProofs!OneWriteInFlight
                  /\ ChannelProofs!NoStalledReply
                  /\ ChannelProofs!WireIsTheStream)
<1>1. ChannelProofs!ServerChannelAssumption
  BY SimulatorAssumption DEF ChannelProofs!ServerChannelAssumption
<1> QED
  BY <1>1, ChannelTheorem, ChannelProofs!OneWriteTheorem, ChannelProofs!NoStalledTheorem,
     ChannelProofs!StreamTheorem, PTL

-----------------------------------------------------------------------------
(* A peer that waits for its replies.                                      *)

FramesUpTo(p) == Cardinality({s \in starts : s <= p})

LEMMA FramesFinite ==
    ASSUME starts \subseteq Positions, NEW p
    PROVE  IsFiniteSet({s \in starts : s <= p}) /\ FramesUpTo(p) \in Nat
<1>1. IsFiniteSet(Positions)
  BY FS_Interval DEF Positions
<1>2. {s \in starts : s <= p} \in SUBSET Positions
  OBVIOUS
<1> QED
  BY <1>1, <1>2, FS_Subset, FS_CardinalityType DEF FramesUpTo

\* There are not fewer frames up to a later position ...
LEMMA FramesGrow ==
    ASSUME starts \subseteq Positions, NEW p \in Nat, NEW q \in Nat, p <= q
    PROVE  FramesUpTo(p) <= FramesUpTo(q)
<1>0. \A s \in starts : s <= p => s <= q
  BY DEF Positions
<1>1. {s \in starts : s <= p} \in SUBSET {s \in starts : s <= q}
  BY <1>0, Zenon
<1> QED
  BY <1>1, FramesFinite, FS_Subset DEF FramesUpTo

\* ... more if one starts in between ...
LEMMA FramesMore ==
    ASSUME starts \subseteq Positions, NEW p \in Nat, NEW q \in Nat,
           NEW r \in starts, p < r, r <= q
    PROVE  FramesUpTo(p) + 1 <= FramesUpTo(q)
<1> DEFINE P == {s \in starts : s <= p}
           Q == {s \in starts : s <= q}
<1>0. ~(r <= p) /\ \A s \in starts : s <= p => s <= q
  BY DEF Positions
<1>1. P \cup {r} \in SUBSET Q /\ r \notin P
  BY <1>0, Zenon
<1>2. IsFiniteSet(P) /\ IsFiniteSet(Q)
  BY FramesFinite
<1> HIDE DEF P, Q
<1>3. Cardinality(P \cup {r}) = Cardinality(P) + 1
  BY <1>1, <1>2, FS_AddElement
<1>4. Cardinality(P \cup {r}) <= Cardinality(Q)
  BY <1>1, <1>2, FS_Subset
<1> QED
  BY <1>3, <1>4 DEF FramesUpTo, P, Q

\* ... and one more if it is the only one.
LEMMA FramesOneMore ==
    ASSUME starts \subseteq Positions, NEW p \in Nat, NEW q \in Nat,
           NEW r, \A s \in starts : p < s /\ s <= q => s = r
    PROVE  FramesUpTo(q) <= FramesUpTo(p) + 1
<1> DEFINE P == {s \in starts : s <= p}
           Q == {s \in starts : s <= q}
<1>0. \A s \in starts : s <= q => s <= p \/ s = r
  BY DEF Positions
<1>1. Q \in SUBSET (P \cup {r})
  BY <1>0, Zenon
<1>2. IsFiniteSet(P) /\ FramesUpTo(p) \in Nat
  BY FramesFinite
<1> HIDE DEF P, Q
<1>3. IsFiniteSet(P \cup {r}) /\ Cardinality(P \cup {r}) <= Cardinality(P) + 1
  BY <1>2, FS_AddElement DEF FramesUpTo, P
<1>4. Cardinality(Q) <= Cardinality(P \cup {r})
  BY <1>1, <1>3, FS_Subset
<1>5. Cardinality(P) \in Nat /\ Cardinality(P \cup {r}) \in Nat /\ Cardinality(Q) \in Nat
  BY <1>1, <1>2, <1>3, FS_CardinalityType, FS_Subset
<1> QED
  BY <1>3, <1>4, <1>5 DEF FramesUpTo, P, Q

-----------------------------------------------------------------------------
\* The positions sent and delivered: no packet without a frame of its own.
SentInv ==
    /\ sent \in Nat /\ got <= sent
    /\ waits \in BOOLEAN
    /\ Unambiguous => Len(delivered) <= FramesUpTo(lo - 1)

\* Nothing is on the wire that was not put, nor put by other than a handler; an
\* outstanding write is of a reply that is not on the wire yet.
Carried == IF writes[Conn] # <<>> /\ writes[Conn][1].result = 1 THEN 1 ELSE 0

WireInv ==
    /\ Len(put[Conn]) <= Cardinality(handled)
    /\ Len(wire[Conn]) <= Len(put[Conn])
    /\ writes[Conn] # <<>> /\ writes[Conn][1].result = 2 => Len(wire[Conn]) < Len(put[Conn])
    /\ ~removed[Conn] => Len(wire[Conn]) + Len(queue[Conn]) - Carried <= Len(put[Conn])

\* A waiting peer is at most one frame ahead of the handlers.
AheadInv == waits /\ Unambiguous => FramesUpTo(sent) <= Cardinality(handled) + 1

PeerInv == SimInv /\ SentInv /\ WireInv /\ AheadInv

\* What ServerChannel's invariant says of this connection, whose replies are one unit.
Blocks == [msg : Tasks, rd : {0}]
Pending == 2

LinesInv ==
    /\ wire \in [{Conn} -> Seq({Garbage} \cup (Tasks \X (1..1)))]
    /\ put \in [{Conn} -> Seq(Tasks)]
    /\ queue \in [{Conn} -> Seq(Blocks)]
    /\ ops \in [{Conn} -> Nat]
    /\ removed \in [{Conn} -> BOOLEAN]
    /\ writes \in [{Conn} -> Seq(ChannelProofs!Write)]
    /\ ops[Conn] = Len(writes[Conn]) /\ ops[Conn] <= 1
    /\ writes[Conn] # <<>> =>
          queue[Conn] # <<>> /\ writes[Conn][1].len = 1 /\ writes[Conn][1].result \in 0..3
    /\ removed[Conn] => chs[Conn] # "online"

LEMMA LinesHold == ChannelProofs!ChannelInv => LinesInv
<1> SUFFICES ASSUME ChannelProofs!ChannelInv PROVE LinesInv
  OBVIOUS
<1> USE DEF ChannelProofs!ChannelInv
<1>1. ChannelProofs!Block = Blocks
  BY DEF ChannelProofs!Block, Blocks
<1>2. /\ wire \in [{Conn} -> Seq({Garbage} \cup (Tasks \X (1..1)))]
      /\ put \in [{Conn} -> Seq(Tasks)]
      /\ queue \in [{Conn} -> Seq(Blocks)]
      /\ ops \in [{Conn} -> Nat]
      /\ removed \in [{Conn} -> BOOLEAN]
      /\ writes \in [{Conn} -> Seq(ChannelProofs!Write)]
  BY <1>1 DEF ChannelProofs!TypeOK
<1>3. ops[Conn] = Len(writes[Conn]) /\ ops[Conn] <= 1
  BY DEF ChannelProofs!WriteInv, ChannelProofs!WriteInvOf
<1>4. ASSUME writes[Conn] # <<>>
      PROVE  queue[Conn] # <<>> /\ writes[Conn][1].len = 1 /\ writes[Conn][1].result \in 0..3
  <2>1. queue[Conn] # <<>> /\ ChannelProofs!CarriesFirst(queue[Conn], writes[Conn][1])
    BY <1>4 DEF ChannelProofs!WriteInv, ChannelProofs!WriteInvOf
  <2>2. queue[Conn][1] \in Blocks
    BY <1>2, <2>1
  <2> QED
    BY <2>1, <2>2 DEF ChannelProofs!CarriesFirst, ChannelProofs!Units, ChannelProofs!Pending,
                      ChannelProofs!Failed, Blocks
<1>5. removed[Conn] => chs[Conn] # "online"
  BY DEF ChannelProofs!StopInv
<1> QED
  BY <1>2, <1>3, <1>4, <1>5 DEF LinesInv

LEMMA AppendFirst == ASSUME NEW x PROVE Append(<<>>, x) # <<>> /\ Append(<<>>, x)[1] = x
<1>1. <<>> \in Seq({x}) /\ x \in {x}
  OBVIOUS
<1> QED
  BY <1>1

\* The set of the handled tasks is finite, and grows by the one that is handled.
LEMMA HandledGrows ==
    ASSUME QueueInv, NEW x
    PROVE  /\ IsFiniteSet(handled) /\ Cardinality(handled) \in Nat
           /\ Cardinality(handled \cup {x}) \in Nat
           /\ Cardinality(handled \cup {x})
                 = IF x \in handled THEN Cardinality(handled) ELSE Cardinality(handled) + 1
<1>1. taken \in Int /\ handled \in SUBSET (1..taken) /\ IsFiniteSet(1..taken)
  BY FS_Interval DEF QueueInv, TaskInv
<1>2. IsFiniteSet(handled)
  BY <1>1, FS_Subset
<1> QED
  BY <1>2, FS_AddElement, FS_CardinalityType

\* A worker's reply lengthens the queue and what was put.
LEMMA ReplyKeepsWire ==
    ASSUME QueueInv, LinesInv, WireInv, NEW w \in Workers, Reply(w)
    PROVE  WireInv'
<1> USE DEF LinesInv, WireInv, Carried
<1>1. /\ put'[Conn] = Append(put[Conn], holding[w])
      /\ queue'[Conn] = Append(queue[Conn], [msg |-> holding[w], rd |-> 0])
      /\ wire' = wire /\ removed' = removed
      /\ \/ ops[Conn] = 0 /\ chs[Conn] = "online"
            /\ \E x : writes'[Conn] = Append(writes[Conn], x) /\ x.result = 2
         \/ writes' = writes
  <2>1. Channel!Put(Conn, holding[w])
    BY DEF Reply
  <2>2. /\ put' = [put EXCEPT ![Conn] = Append(put[Conn], holding[w])]
        /\ wire' = wire /\ removed' = removed
    BY <2>1 DEF Channel!Put
  <2> DEFINE q == Append(queue[Conn], [msg |-> holding[w], rd |-> 0])
             x == [msg |-> Head(q).msg, rd |-> Head(q).rd,
                   len |-> Channel!Units(Head(q).msg) - Head(q).rd, result |-> 2]
  <2>3. queue' = [queue EXCEPT ![Conn] = q]
    BY <2>1 DEF Channel!Put
  <2>4. \/ ops[Conn] = 0 /\ chs[Conn] = "online" /\ writes' = [writes EXCEPT ![Conn] = Append(@, x)]
        \/ writes' = writes
    BY <2>1, SMTT(30) DEF Channel!Put, Channel!MayStartInPut, Channel!Started, Channel!Pending
  <2>5. x.result = 2
    OBVIOUS
  <2> HIDE DEF x, q
  <2>6. put'[Conn] = Append(put[Conn], holding[w]) /\ queue'[Conn] = q
    BY <2>2, <2>3
  <2>7. \/ ops[Conn] = 0 /\ chs[Conn] = "online"
           /\ writes'[Conn] = Append(writes[Conn], x) /\ x.result = 2
        \/ writes' = writes
    BY <2>4, <2>5
  <2> QED
    BY <2>2, <2>6, <2>7 DEF q
<1>2. /\ Len(put[Conn]) \in Nat /\ Len(put'[Conn]) = Len(put[Conn]) + 1
      /\ Len(queue[Conn]) \in Nat /\ Len(queue'[Conn]) = Len(queue[Conn]) + 1
      /\ Len(wire[Conn]) \in Nat
  BY <1>1
<1>3. Cardinality(handled) \in Nat /\ Cardinality(handled') = Cardinality(handled) + 1
  BY HandledGrows DEF Reply, InHandler, HandlesOnReply
<1>4. CASE writes' = writes
  BY <1>1, <1>2, <1>3, <1>4, SMTT(30)
<1>5. CASE /\ ops[Conn] = 0 /\ chs[Conn] = "online"
           /\ \E x : writes'[Conn] = Append(writes[Conn], x) /\ x.result = 2
  <2>0. Len(writes[Conn]) = 0 /\ writes[Conn] \in Seq(ChannelProofs!Write)
    BY <1>5
  <2>1. writes[Conn] = <<>> /\ ~removed[Conn]
    BY <1>5, <2>0
  <2>2. writes'[Conn] # <<>> /\ writes'[Conn][1].result = 2
    BY <1>5, <2>1
  <2> QED
    BY <1>1, <1>2, <1>3, <2>1, <2>2
<1> QED
  BY <1>1, <1>4, <1>5

\* TCP takes the unit of the outstanding write, or fails.
LEMMA CompletionKeepsWire ==
    ASSUME LinesInv, WireInv, Channel!WriteCompletes(Conn), handled' = handled
    PROVE  WireInv'
<1> USE DEF LinesInv, WireInv, Carried
<1>1. PICK i \in 1..Len(writes[Conn]) :
        /\ writes[Conn][i].result = Pending
        /\ \/ \E n \in IF writes[Conn][i].len = 0 THEN {0} ELSE 1..writes[Conn][i].len :
                /\ writes' = [writes EXCEPT ![Conn][i].result = n]
                /\ \E u \in [1..n -> {Garbage} \cup (Tasks \X (1..1))] :
                      wire' = [wire EXCEPT ![Conn] = @ \o u]
           \/ /\ writes' = [writes EXCEPT ![Conn][i].result = 3]
              /\ UNCHANGED wire
  <2>1. 1 + 1 = Pending /\ 1 + 2 = 3
    BY DEF Pending
  <2> QED
    BY <2>1, ZenonT(60) DEF Channel!WriteCompletes, Channel!Pending, Channel!Failed
<1>2. /\ i = 1 /\ Len(writes[Conn]) = 1 /\ writes[Conn] # <<>>
      /\ writes[Conn][1].len = 1 /\ writes[Conn][1].result = 2
  BY <1>1 DEF Pending
<1>3. UNCHANGED <<put, queue, removed>>
  BY DEF Channel!WriteCompletes
<1>4. /\ Len(wire[Conn]) \in Nat /\ Len(queue[Conn]) \in Nat /\ Len(put[Conn]) \in Nat
  OBVIOUS
<1>5. CASE /\ writes' = [writes EXCEPT ![Conn][1].result = 1]
           /\ \E u \in [1..1 -> {Garbage} \cup (Tasks \X (1..1))] :
                 wire' = [wire EXCEPT ![Conn] = @ \o u]
  <2>1. Len(wire'[Conn]) = Len(wire[Conn]) + 1
    BY <1>5
  <2>2. writes'[Conn] # <<>> /\ writes'[Conn][1].result = 1
    BY <1>2, <1>5
  <2> QED
    BY <1>2, <1>3, <1>4, <2>1, <2>2
<1>6. CASE writes' = [writes EXCEPT ![Conn][1].result = 3] /\ UNCHANGED wire
  <2>1. writes'[Conn] # <<>> /\ writes'[Conn][1].result = 3
    BY <1>2, <1>6
  <2> QED
    BY <1>2, <1>3, <1>4, <1>6, <2>1
<1> QED
  <2>1. (IF writes[Conn][i].len = 0 THEN {0} ELSE 1..writes[Conn][i].len) = {1}
    BY <1>2
  <2> QED
    BY <1>1, <1>2, <1>5, <1>6, <2>1, ZenonT(60)

\* handle_write takes the reply that was written from the queue and starts the next.
LEMMA HandleWriteKeepsWire ==
    ASSUME LinesInv, WireInv, Channel!HandleWrite(Conn), handled' = handled
    PROVE  WireInv'
<1> USE DEF LinesInv, WireInv, Carried
<1> DEFINE q == Channel!Advanced(queue[Conn], Head(writes[Conn]))
<1>1. /\ writes[Conn] # <<>> /\ ~removed[Conn] /\ Head(writes[Conn]) = writes[Conn][1]
      /\ writes[Conn][1].result \in {0, 1} /\ writes[Conn][1].len = 1
      /\ queue[Conn] # <<>>
  BY DEF Channel!HandleWrite
<1>2. /\ Len(wire[Conn]) \in Nat /\ Len(queue[Conn]) \in Nat /\ Len(put[Conn]) \in Nat
  OBVIOUS
<1>3. Len(q) \in Nat /\ Len(q) = Len(queue[Conn]) - Carried
  <2>1. queue[Conn] \in Seq(Blocks)
    OBVIOUS
  <2>2. CASE writes[Conn][1].result = 1
    <3>1. q = Tail(queue[Conn]) /\ Carried = 1
      BY <1>1, <2>2 DEF Channel!Advanced
    <3> QED
      BY <1>1, <2>1, <3>1
  <2>3. CASE writes[Conn][1].result = 0
    <3>0. Head(writes[Conn]).result # Head(writes[Conn]).len
      BY <1>1, <2>3
    <3>1. q = [queue[Conn] EXCEPT ![1].rd = @ + Head(writes[Conn]).result] /\ Carried = 0
      BY <2>3, <3>0 DEF Channel!Advanced
    <3>2. Len(q) = Len(queue[Conn])
      BY <2>1, <3>1
    <3> QED
      BY <2>1, <3>1, <3>2
  <2> QED
    BY <1>1, <2>2, <2>3
<1>4. UNCHANGED <<put, wire, removed>> /\ queue' = [queue EXCEPT ![Conn] = q]
  BY DEF Channel!HandleWrite
<1>5. \/ /\ q # <<>>
         /\ \E x : writes' = [writes EXCEPT ![Conn] = Append(Tail(@), x)] /\ x.result = 2
      \/ writes' = [writes EXCEPT ![Conn] = Tail(@)]
  BY DEF Channel!HandleWrite, Channel!StartNext, Channel!Started, Channel!Pending
<1> HIDE DEF q
<1>6. Tail(writes[Conn]) = <<>>
  <2>1. Len(Tail(writes[Conn])) = 0
    BY <1>1
  <2> QED
    BY <1>1, <2>1
<1>7. queue'[Conn] = q
  BY <1>4
<1>8. \/ writes'[Conn] # <<>> /\ writes'[Conn][1].result = 2 /\ q # <<>>
      \/ writes'[Conn] = <<>>
  <2>1. CASE /\ q # <<>>
             /\ \E x : writes' = [writes EXCEPT ![Conn] = Append(Tail(@), x)] /\ x.result = 2
    <3>1. PICK x : writes' = [writes EXCEPT ![Conn] = Append(Tail(@), x)] /\ x.result = 2
      BY <2>1
    <3>2. writes'[Conn] = Append(Tail(writes[Conn]), x)
      BY <3>1
    <3>3. writes'[Conn] # <<>> /\ writes'[Conn][1] = x
      BY <1>6, <3>2, AppendFirst
    <3> QED
      BY <2>1, <3>1, <3>3
  <2>2. CASE writes' = [writes EXCEPT ![Conn] = Tail(@)]
    BY <1>6, <2>2
  <2> QED
    BY <1>5, <2>1, <2>2
<1> QED
  BY <1>1, <1>2, <1>3, <1>4, <1>7, <1>8

\* A connection that lost a write, or is removed, writes no more.
LEMMA HandleWriteEndKeepsWire ==
    ASSUME LinesInv, WireInv, Channel!HandleWriteEnd(Conn), handled' = handled
    PROVE  WireInv'
<1> USE DEF LinesInv, WireInv, Carried
<1>1. /\ writes[Conn] # <<>>
      /\ writes[Conn][1].result = 3 \/ removed[Conn]
      /\ writes' = [writes EXCEPT ![Conn] = Tail(@)]
      /\ UNCHANGED <<put, wire, removed, queue>>
  BY DEF Channel!HandleWriteEnd, Channel!Failed
<1>2. writes'[Conn] = <<>>
  <2>1. Len(Tail(writes[Conn])) = 0
    BY <1>1
  <2> QED
    BY <1>1, <2>1
<1> QED
  BY <1>1, <1>2

\* Every step keeps what is said of the wire.
LEMMA StepWireInv ==
    ASSUME SimInv, LinesInv, WireInv, [SimNext]_simVars
    PROVE  WireInv'
<1>0. ASSUME UNCHANGED <<writes, queue, put, wire, handled>>, removed'[Conn] \in {removed[Conn], TRUE}
      PROVE  WireInv'
  BY <1>0 DEF WireInv, Carried
<1>1. CASE Send \/ Accept \/ StartReading \/ MakeTask \/ StopReading \/ UNCHANGED simVars
  BY <1>0, <1>1 DEF Send, Accept, StartReading, MakeTask, StopReading, simVars, channelVars,
                    Channel!Accept, Channel!HandleRead, Channel!writeVars
<1>2. CASE Transport
  <2>1. CASE Channel!WriteCompletes(Conn)
    BY <1>2, <2>1, CompletionKeepsWire DEF Transport
  <2>2. CASE Channel!ReadCompletes(Conn)
    BY <1>0, <1>2, <2>2 DEF Transport, Channel!ReadCompletes, Channel!writeVars
  <2> QED
    BY <1>2, <2>1, <2>2 DEF Transport
<1>3. CASE OtherHandlers
  <2>0. handled' = handled
    BY <1>3 DEF OtherHandlers
  <2>1. CASE Channel!HandleReadEnd(Conn)
    BY <1>0, <2>0, <2>1 DEF Channel!HandleReadEnd, Channel!writeVars
  <2>2. CASE Channel!HandleWrite(Conn)
    BY <2>0, <2>2, HandleWriteKeepsWire
  <2>3. CASE Channel!HandleWriteEnd(Conn)
    BY <2>0, <2>3, HandleWriteEndKeepsWire
  <2>4. CASE Channel!Stopping(Conn)
    <3>1. UNCHANGED <<writes, queue, put, wire>> /\ removed' \in {removed, [removed EXCEPT ![Conn] = TRUE]}
      BY <2>4 DEF Channel!Stopping, Channel!StopAgain, Channel!CloseSocket, Channel!GoOffline,
                  Channel!FindHandler, Channel!RemoveHandler, Channel!MarkRemoved,
                  Channel!writeVars
    <3>2. removed'[Conn] \in {removed[Conn], TRUE}
      BY <3>1 DEF LinesInv
    <3> QED
      BY <1>0, <2>0, <3>1, <3>2
  <2> QED
    BY <1>3, <2>1, <2>2, <2>3, <2>4 DEF OtherHandlers
<1>4. ASSUME NEW w \in Workers, Worker(w) PROVE WireInv'
  <2>1. CASE Reply(w)
    BY <2>1, ReplyKeepsWire DEF SimInv
  <2>2. CASE TakeTask(w) \/ FinishTask(w)
    BY <1>0, <2>2 DEF TakeTask, FinishTask, channelVars
  <2>3. CASE NoReply(w)
    <3>1. UNCHANGED channelVars /\ handled' = handled \cup {holding[w]}
      BY <2>3 DEF NoReply
    <3> DEFINE h == handled \cup {holding[w]}
    <3>2. Cardinality(handled) \in Nat /\ Cardinality(h) \in Nat
          /\ Cardinality(h) \in {Cardinality(handled), Cardinality(handled) + 1}
      BY HandledGrows DEF SimInv
    <3>3. handled' = h
      BY <3>1
    <3> HIDE DEF h
    <3>4. Cardinality(handled) <= Cardinality(handled')
      BY <3>2, <3>3
    <3>5. UNCHANGED <<writes, queue, put, wire, removed>>
      BY <3>1 DEF channelVars
    <3>6. Len(put[Conn]) \in Nat
      BY DEF LinesInv
    <3>7. Len(put'[Conn]) <= Cardinality(handled')
      BY <3>2, <3>3, <3>4, <3>5, <3>6 DEF WireInv
    <3> QED
      BY <3>5, <3>7 DEF WireInv, Carried
  <2> QED
    BY <1>4, <2>1, <2>2, <2>3 DEF Worker
<1> QED
  BY <1>1, <1>2, <1>3, <1>4 DEF SimNext

\* Every step keeps what is said of the positions.
LEMMA StepSentInv ==
    ASSUME SimInv, SentInv, [SimNext]_simVars
    PROVE  SentInv'
<1> USE DEF SentInv
<1>0. /\ StreamInv /\ BufferInv /\ starts \subseteq Positions
      /\ lo \in Nat /\ lo - 1 \in Nat /\ got \in Nat /\ lo - 1 <= got
      /\ Len(delivered) \in Nat
  BY DEF SimInv, QueueInv, FrameInv, StreamInv, BufferInv
<1>1. CASE Send
  <2>1. sent + 1 \in starts /\ sent' = FrameEnd(sent + 1) /\ UNCHANGED <<readerVars, waits>>
    BY <1>1 DEF Send
  <2>2. claim[sent + 1] \in Nat /\ claim[sent + 1] >= 1
    BY <1>0, <2>1 DEF StreamInv, PacketLens
  <2>3. sent' \in Nat /\ sent' > sent
    BY <2>1, <2>2 DEF FrameEnd
  <2> QED
    BY <1>0, <2>1, <2>3 DEF readerVars, FramesUpTo, Unambiguous
<1>2. CASE StartReading \/ StopReading
  <2>1. /\ UNCHANGED <<starts, claim, delivered, sent, waits>>
        /\ lo' = got + 1 /\ got' \in Nat /\ got' <= sent
    BY <1>0, <1>2 DEF StartReading, StopReading, Read, TooShort, Discard, Incomplete, Leave, stream,
                      peerVars
  <2>2. FramesUpTo(lo - 1) <= FramesUpTo(got) /\ FramesUpTo(lo - 1) \in Nat /\ FramesUpTo(got) \in Nat
    BY <1>0, FramesGrow, FramesFinite
  <2>3. FramesUpTo(lo - 1)' = FramesUpTo(got)
    BY <1>0, <2>1 DEF FramesUpTo
  <2> QED
    BY <1>0, <2>1, <2>2, <2>3 DEF Unambiguous
<1>3. CASE MakeTask
  <2>1. /\ running /\ LongEnough /\ claim[lo] # 0
        /\ lo' = lo + claim[lo]
        /\ \E d : delivered' = Append(delivered, d)
        /\ UNCHANGED <<starts, claim, got, sent, waits>>
    BY <1>3 DEF MakeTask, Deliver, Removed, PacketLen, stream, peerVars
  <2>2. lo \in Positions
    BY <2>1 DEF LongEnough, Size, SimInv, QueueInv, FrameInv, BufferInv, Positions
  <2>3. claim[lo] \in Nat /\ claim[lo] >= 1
    BY <1>0, <2>1, <2>2 DEF StreamInv, PacketLens
  <2>4. Len(delivered') = Len(delivered) + 1
    BY <2>1 DEF SimInv, QueueInv, FrameInv, BufferInv
  <2>5. ASSUME Unambiguous PROVE Len(delivered') <= FramesUpTo(lo' - 1)
    <3>1. lo \in starts /\ lo - 1 < lo /\ lo <= lo' - 1 /\ lo' - 1 \in Nat
      BY <1>0, <2>1, <2>2, <2>3, <2>5 DEF Unambiguous
    <3>2. FramesUpTo(lo - 1) + 1 <= FramesUpTo(lo' - 1)
      BY <1>0, <3>1, FramesMore
    <3>3. FramesUpTo(lo - 1) \in Nat /\ FramesUpTo(lo' - 1) \in Nat
      BY <1>0, FramesFinite
    <3> QED
      BY <1>0, <2>4, <2>5, <3>2, <3>3
  <2>6. FramesUpTo(lo - 1)' = FramesUpTo(lo' - 1)
    BY <2>1 DEF FramesUpTo
  <2> QED
    BY <2>1, <2>5, <2>6 DEF Unambiguous
<1>4. CASE Transport \/ Accept \/ OtherHandlers \/ UNCHANGED simVars
  BY <1>4 DEF Transport, Accept, OtherHandlers, simVars, readerVars, peerVars, Unambiguous, FramesUpTo
<1>5. ASSUME NEW w \in Workers, Worker(w) PROVE SentInv'
  BY <1>5 DEF Worker, TakeTask, Reply, NoReply, FinishTask, readerVars, peerVars, Unambiguous,
              FramesUpTo
<1> QED
  BY <1>1, <1>2, <1>3, <1>4, <1>5 DEF SimNext

\* The peer sends its next frame when the last one is answered, and not before.
LEMMA StepAheadInv ==
    ASSUME SimInv, LinesInv, SentInv, WireInv, AheadInv, [SimNext]_simVars
    PROVE  AheadInv'
<1> USE DEF AheadInv
<1>0. starts \subseteq Positions /\ StreamInv /\ sent \in Nat /\ Cardinality(handled) \in Nat
  BY HandledGrows DEF SimInv, QueueInv, FrameInv, StreamInv, SentInv
<1>1. CASE Send
  <2>1. /\ sent + 1 \in starts /\ sent' = FrameEnd(sent + 1)
        /\ waits => Len(wire[Conn]) = FramesUpTo(sent)
        /\ UNCHANGED <<starts, claim, waits, handled>>
    BY <1>1 DEF Send, Requested, FramesUpTo, readerVars
  <2>2. SUFFICES ASSUME waits PROVE FramesUpTo(sent') <= Cardinality(handled) + 1
    BY <2>1 DEF FramesUpTo, Unambiguous
  <2>3. FramesUpTo(sent) <= Cardinality(handled)
    BY <1>0, <2>1, <2>2 DEF WireInv, LinesInv
  <2>4. claim[sent + 1] \in Nat /\ sent' \in Nat
    BY <1>0, <2>1 DEF StreamInv, PacketLens, FrameEnd
  <2>5. \A s \in starts : sent < s /\ s <= sent' => s = sent + 1
    BY <1>0, <2>1, <2>4 DEF StreamInv, Positions
  <2>6. FramesUpTo(sent') <= FramesUpTo(sent) + 1
    BY <1>0, <2>4, <2>5, FramesOneMore
  <2>7. FramesUpTo(sent) \in Nat /\ FramesUpTo(sent') \in Nat
    BY <1>0, <2>4, FramesFinite
  <2> QED
    BY <1>0, <2>3, <2>6, <2>7
<1>2. ASSUME UNCHANGED <<starts, claim, waits, sent>>,
             handled' = handled \/ \E x : handled' = handled \cup {x}
      PROVE  AheadInv'
  <2>1. Cardinality(handled') \in Nat /\ Cardinality(handled') >= Cardinality(handled)
    <3>1. CASE handled' = handled
      BY <1>0, <3>1
    <3>2. ASSUME NEW x, handled' = handled \cup {x}
          PROVE  Cardinality(handled') \in Nat /\ Cardinality(handled') >= Cardinality(handled)
      <4> DEFINE h == handled \cup {x}
      <4>1. Cardinality(h) \in Nat /\ Cardinality(h) \in {Cardinality(handled), Cardinality(handled) + 1}
        BY HandledGrows DEF SimInv
      <4>2. handled' = h
        BY <3>2
      <4> HIDE DEF h
      <4> QED
        BY <1>0, <4>1, <4>2
    <3> QED
      BY <1>2, <3>1, <3>2
  <2>2. FramesUpTo(sent)' = FramesUpTo(sent) /\ FramesUpTo(sent) \in Nat
    BY <1>0, <1>2, FramesFinite DEF FramesUpTo
  <2> QED
    BY <1>0, <1>2, <2>1, <2>2 DEF Unambiguous
<1>3. CASE Transport \/ Accept \/ StartReading \/ MakeTask \/ StopReading \/ OtherHandlers
           \/ UNCHANGED simVars
  <2>1. UNCHANGED <<starts, claim, waits, sent, handled>>
    BY <1>3 DEF Transport, Accept, StartReading, MakeTask, StopReading, OtherHandlers, simVars,
                readerVars, peerVars, Read, TooShort, Discard, Incomplete, Leave, Deliver, stream
  <2> QED
    BY <1>2, <2>1
<1>4. ASSUME NEW w \in Workers, Worker(w) PROVE AheadInv'
  <2>1. UNCHANGED <<starts, claim, waits, sent>>
    BY <1>4 DEF Worker, TakeTask, Reply, NoReply, FinishTask, readerVars, peerVars
  <2>2. handled' = handled \/ \E x : handled' = handled \cup {x}
    BY <1>4 DEF Worker, TakeTask, Reply, NoReply, FinishTask, HandlesOnReply
  <2> QED
    BY <1>2, <2>1, <2>2
<1> QED
  BY <1>1, <1>3, <1>4 DEF SimNext

\* Initially nothing is sent, put or handled.
LEMMA InitPeerInv == SimInit => PeerInv
<1> SUFFICES ASSUME SimInit PROVE SentInv /\ WireInv /\ AheadInv
  BY InitSimInv DEF PeerInv
<1>1. /\ sent = 0 /\ handled = {} /\ got = 0 /\ lo = 1 /\ delivered = <<>> /\ waits \in BOOLEAN
      /\ starts \subseteq Positions
  BY SimulatorAssumption, InitFrameInv DEF SimInit, Init, FrameInv, StreamInv
<1>2. /\ put = [c \in {Conn} |-> <<>>] /\ wire = [c \in {Conn} |-> <<>>]
      /\ queue = [c \in {Conn} |-> <<>>] /\ writes = [c \in {Conn} |-> <<>>]
  BY DEF SimInit, Channel!Init
<1>3. /\ put[Conn] = <<>> /\ wire[Conn] = <<>> /\ queue[Conn] = <<>> /\ writes[Conn] = <<>>
  BY <1>2
<1>4. Cardinality(handled) = 0
  BY <1>1, FS_EmptySet
<1>5. FramesUpTo(0) = 0
  <2>0. \A s \in starts : ~(s <= 0)
    BY <1>1 DEF Positions
  <2>1. {s \in starts : s <= 0} = {}
    BY <2>0, Zenon
  <2> QED
    BY <2>1, FS_EmptySet DEF FramesUpTo
<1>6. SentInv
  BY <1>1, <1>5 DEF SentInv
<1>7. WireInv
  BY <1>3, <1>4 DEF WireInv, Carried
<1>8. AheadInv
  BY <1>1, <1>4, <1>5 DEF AheadInv
<1> QED
  BY <1>6, <1>7, <1>8

LEMMA StepPeerInv == ChannelProofs!ChannelInv /\ PeerInv /\ [SimNext]_simVars => PeerInv'
  BY LinesHold, StepSimInv, StepWireInv, StepSentInv, StepAheadInv DEF PeerInv

\* The tasks in handlers are taken, not handled, and each in one handler.
LEMMA HandlersAreFew ==
    ASSUME QueueInv
    PROVE  LET H == {w \in Workers : InHandler(w)} IN
           Cardinality(H) \in Nat /\ Cardinality(H) <= taken - Cardinality(handled)
<1> DEFINE H == {w \in Workers : InHandler(w)}
           T == (1..taken) \ handled
           f == [w \in H |-> holding[w]]
<1>1. taken \in Nat /\ handled \in SUBSET (1..taken)
  BY DEF QueueInv, TaskInv
<1>2. f \in Injection(H, T)
  <2>1. \A w \in H : holding[w] \in T
    BY DEF QueueInv, TaskInv, InHandler
  <2>2. \A v, w \in H : holding[v] = holding[w] => v = w
    BY DEF QueueInv, TaskInv, InHandler
  <2> QED
    BY <2>1, <2>2 DEF Injection, IsInjective
<1>3. IsFiniteSet(1..taken) /\ Cardinality(1..taken) = taken
  BY <1>1, FS_Interval
<1>4. (1..taken) \cap handled = handled
  BY <1>1
<1>5. IsFiniteSet(T) /\ Cardinality(T) = taken - Cardinality(handled)
  BY <1>3, <1>4, FS_Difference, ZenonT(60)
<1> HIDE DEF H, T, f
<1>6. IsFiniteSet(H) /\ Cardinality(H) <= Cardinality(T) /\ Cardinality(H) \in Nat
  BY <1>2, <1>5, FS_Injection, FS_CardinalityType
<1> QED
  BY <1>5, <1>6 DEF H

\* No two handlers run for a peer that waits for its replies, for any stream in which only
\* the starts of frames look like headers, any number of workers and whatever the
\* connection does: every frame but the last is answered, so its task is handled
\* (server_channel.hpp:88-99, 176-227, 240-263; ptcl_handler_serv.cpp:17-59;
\* thread_pool.hpp:36-53).
THEOREM OneHandlerTheorem == SimSpec => []WaitingPeerHasOneHandler
<1>1. PeerInv => WaitingPeerHasOneHandler
  <2> SUFFICES ASSUME PeerInv, waits, Unambiguous
               PROVE  Cardinality({w \in Workers : InHandler(w)}) + Len(tasks) - taken <= 1
    BY DEF WaitingPeerHasOneHandler
  <2> DEFINE n == Cardinality({w \in Workers : InHandler(w)})
             k == Cardinality(handled)
  <2>1. /\ Len(tasks) = Len(delivered) /\ taken \in Nat /\ Len(tasks) \in Nat
        /\ lo \in Nat /\ lo - 1 \in Nat /\ lo - 1 <= sent /\ sent \in Nat
        /\ starts \subseteq Positions
    BY DEF PeerInv, SimInv, QueueInv, TaskInv, FrameInv, StreamInv, BufferInv, SentInv
  <2>2. n \in Nat /\ k \in Nat /\ n <= taken - k
    BY HandlersAreFew, HandledGrows DEF PeerInv, SimInv
  <2>3. Len(tasks) <= FramesUpTo(lo - 1) /\ FramesUpTo(sent) <= k + 1
    BY <2>1 DEF PeerInv, SentInv, AheadInv
  <2>4. FramesUpTo(lo - 1) <= FramesUpTo(sent)
    BY <2>1, FramesGrow
  <2>5. FramesUpTo(lo - 1) \in Nat /\ FramesUpTo(sent) \in Nat
    BY <2>1, FramesFinite
  <2> HIDE DEF n, k
  <2>6. n + Len(tasks) - taken <= 1
    BY <2>1, <2>2, <2>3, <2>4, <2>5
  <2> QED
    BY <2>6 DEF n
<1> QED
  BY <1>1, ChannelHolds, InitPeerInv, StepPeerInv, PTL DEF SimSpec
=============================================================================
