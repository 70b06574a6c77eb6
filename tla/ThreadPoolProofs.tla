--------------------------- MODULE ThreadPoolProofs ---------------------------
(***************************************************************************)
(* Proofs about ThreadPool, for any number of workers and of tasks.        *)
(***************************************************************************)
EXTENDS ThreadPool, TLAPS

\* A worker holds a task exactly while it executes one.
HoldingInv ==
    \A w \in Workers : pc[w] = "execute" <=> holding[w] # NoTask

\* Each mutex has the owner that the program points say it has, and a sleeping
\* thread is inside cond_.wait.
MutexInv ==
    /\ \A w \in Workers :
        /\ queueMutex = w <=> pc[w] \in {"test", "pop", "crash"}
        /\ enterMutex = w <=> pc[w] \in {"lock", "test", "wait", "pop", "crash"}
    /\ \A w \in sleeping : pc[w] = "wait"

\* A thread that was woken inside cond_.wait has a task to find: nobody else
\* can pop before it leaves get_task.
WokenFindsTask ==
    ~woken =>
        \A w \in Workers : pc[w] = "wait" /\ w \notin sleeping => queue # <<>>

\* No step breaks the types, nor the link between a worker's program point and
\* the task it holds.
LEMMA TypeStep == TypeOK /\ HoldingInv /\ [Next]_vars => TypeOK' /\ HoldingInv'
<1> SUFFICES ASSUME TypeOK, HoldingInv, [Next]_vars PROVE TypeOK' /\ HoldingInv'
  OBVIOUS
<1> USE DEF TypeOK, HoldingInv, Points, locks, history, Goto
<1>1. CASE Start
  BY <1>1 DEF Start
<1>2. CASE Stop
  BY <1>2 DEF Stop
<1>3. ASSUME NEW t \in Tasks, Put(t) PROVE TypeOK' /\ HoldingInv'
  BY <1>3 DEF Put, Pushed, NotifyOne
<1>4. ASSUME NEW w \in Workers, Loop(w) PROVE TypeOK' /\ HoldingInv'
  BY <1>4 DEF Loop, GoOn
<1>5. ASSUME NEW w \in Workers, Enter(w) PROVE TypeOK' /\ HoldingInv'
  BY <1>5 DEF Enter, EntryIsFree
<1>6. ASSUME NEW w \in Workers, Lock(w) PROVE TypeOK' /\ HoldingInv'
  BY <1>6 DEF Lock
<1>7. ASSUME NEW w \in Workers, Sleep(w) PROVE TypeOK' /\ HoldingInv'
  BY <1>7 DEF Sleep
<1>8. ASSUME NEW w \in Workers, DoNotSleep(w) PROVE TypeOK' /\ HoldingInv'
  BY <1>8 DEF DoNotSleep
<1>9. ASSUME NEW w \in Workers, WakeSpuriously(w) PROVE TypeOK' /\ HoldingInv'
  BY <1>9 DEF WakeSpuriously
<1>10. ASSUME NEW w \in Workers, Return(w) PROVE TypeOK' /\ HoldingInv'
  BY <1>10 DEF Return
<1>11. ASSUME NEW w \in Workers, Pop(w) PROVE TypeOK' /\ HoldingInv'
  BY ThreadPoolAssumption, <1>11 DEF Pop, Popped
<1>12. ASSUME NEW w \in Workers, PopEmpty(w) PROVE TypeOK' /\ HoldingInv'
  BY <1>12 DEF PopEmpty
<1>13. ASSUME NEW w \in Workers, Execute(w) PROVE TypeOK' /\ HoldingInv'
  BY <1>13 DEF Execute
<1>14. CASE UNCHANGED vars
  BY <1>14 DEF vars
<1>15. QED
  BY <1>1, <1>2, <1>3, <1>4, <1>5, <1>6, <1>7, <1>8, <1>9, <1>10, <1>11, <1>12, <1>13, <1>14 DEF Next, Worker

\* Types, and a task in hand exactly while executing: the invariant every other
\* proof starts from (the whole of thread_pool.hpp).
THEOREM TypeCorrect == Spec => [](TypeOK /\ HoldingInv)
<1>1. Init => TypeOK /\ HoldingInv
  <2> SUFFICES ASSUME Init PROVE TypeOK /\ HoldingInv
    OBVIOUS
  <2>1. queue \in Seq(Tasks) /\ put \in Seq(Tasks)
    BY DEF Init
  <2>2. QED
    BY <2>1 DEF Init, TypeOK, HoldingInv, Points
<1>2. QED
  BY <1>1, TypeStep, PTL DEF Spec

\* Mutual exclusion is kept by every step.
LEMMA MutexStep == TypeOK /\ MutexInv /\ [Next]_vars => MutexInv'
<1> SUFFICES ASSUME TypeOK, MutexInv, [Next]_vars PROVE MutexInv'
  OBVIOUS
<1> USE ThreadPoolAssumption DEF TypeOK, MutexInv, Points, locks, history, Goto
<1>1. CASE Start
  BY <1>1 DEF Start
<1>2. CASE Stop
  BY <1>2 DEF Stop
<1>3. ASSUME NEW t \in Tasks, Put(t) PROVE MutexInv'
  BY <1>3 DEF Put, Pushed, NotifyOne
<1>4. ASSUME NEW w \in Workers, Loop(w) PROVE MutexInv'
  BY <1>4 DEF Loop, GoOn
<1>5. ASSUME NEW w \in Workers, Enter(w) PROVE MutexInv'
  BY <1>5 DEF Enter, EntryIsFree
<1>6. ASSUME NEW w \in Workers, Lock(w) PROVE MutexInv'
  BY <1>6 DEF Lock
<1>7. ASSUME NEW w \in Workers, Sleep(w) PROVE MutexInv'
  BY <1>7 DEF Sleep
<1>8. ASSUME NEW w \in Workers, DoNotSleep(w) PROVE MutexInv'
  BY <1>8 DEF DoNotSleep
<1>9. ASSUME NEW w \in Workers, WakeSpuriously(w) PROVE MutexInv'
  BY <1>9 DEF WakeSpuriously
<1>10. ASSUME NEW w \in Workers, Return(w) PROVE MutexInv'
  BY <1>10 DEF Return
<1>11. ASSUME NEW w \in Workers, Pop(w) PROVE MutexInv'
  BY <1>11 DEF Pop, Popped
<1>12. ASSUME NEW w \in Workers, PopEmpty(w) PROVE MutexInv'
  BY <1>12 DEF PopEmpty
<1>13. ASSUME NEW w \in Workers, Execute(w) PROVE MutexInv'
  BY <1>13 DEF Execute
<1>14. CASE UNCHANGED vars
  BY <1>14 DEF vars
<1>15. QED
  BY <1>1, <1>2, <1>3, <1>4, <1>5, <1>6, <1>7, <1>8, <1>9, <1>10, <1>11, <1>12, <1>13, <1>14 DEF Next, Worker

\* A put with a sleeper wakes the only thread that can be asleep.
LEMMA OneSleeper ==
  ASSUME TypeOK, MutexInv, NEW v \in sleeping, NEW w \in sleeping
  PROVE  v = w
<1>1. enterMutex = v /\ enterMutex = w
  BY DEF TypeOK, MutexInv
<1>2. QED
  BY <1>1

\* The queue stays empty while a thread sleeps.
LEMMA SleepStep ==
  TypeOK /\ MutexInv /\ NoLostNotification /\ [Next]_vars => NoLostNotification'
<1> SUFFICES ASSUME TypeOK, MutexInv, NoLostNotification, [Next]_vars
             PROVE  NoLostNotification'
  OBVIOUS
<1> USE DEF TypeOK, NoLostNotification, locks, history, Goto
<1>1. CASE Start
  BY <1>1 DEF Start
<1>2. CASE Stop
  BY <1>2 DEF Stop
<1>3. ASSUME NEW t \in Tasks, Put(t) PROVE NoLostNotification'
  BY OneSleeper, <1>3 DEF Put, Pushed, NotifyOne
<1>4. ASSUME NEW w \in Workers, Loop(w) PROVE NoLostNotification'
  BY <1>4 DEF Loop, GoOn
<1>5. ASSUME NEW w \in Workers, Enter(w) PROVE NoLostNotification'
  BY <1>5 DEF Enter, EntryIsFree
<1>6. ASSUME NEW w \in Workers, Lock(w) PROVE NoLostNotification'
  BY <1>6 DEF Lock
<1>7. ASSUME NEW w \in Workers, Sleep(w) PROVE NoLostNotification'
  BY ThreadPoolAssumption, <1>7 DEF Sleep
<1>8. ASSUME NEW w \in Workers, DoNotSleep(w) PROVE NoLostNotification'
  BY <1>8 DEF DoNotSleep
<1>9. ASSUME NEW w \in Workers, WakeSpuriously(w) PROVE NoLostNotification'
  BY <1>9 DEF WakeSpuriously
<1>10. ASSUME NEW w \in Workers, Return(w) PROVE NoLostNotification'
  BY <1>10 DEF Return
<1>11. ASSUME NEW w \in Workers, Pop(w) PROVE NoLostNotification'
  BY ThreadPoolAssumption, <1>11 DEF Pop, Popped
<1>12. ASSUME NEW w \in Workers, PopEmpty(w) PROVE NoLostNotification'
  BY <1>12 DEF PopEmpty
<1>13. ASSUME NEW w \in Workers, Execute(w) PROVE NoLostNotification'
  BY <1>13 DEF Execute
<1>14. CASE UNCHANGED vars
  BY <1>14 DEF vars
<1>15. QED
  BY <1>1, <1>2, <1>3, <1>4, <1>5, <1>6, <1>7, <1>8, <1>9, <1>10, <1>11, <1>12, <1>13, <1>14 DEF Next, Worker

\* A lone wake-up by notify_one finds the task that was put with it.
LEMMA PopStep ==
  TypeOK /\ MutexInv /\ WokenFindsTask /\ PopFindsTask /\ [Next]_vars
    => WokenFindsTask' /\ PopFindsTask'
<1> SUFFICES ASSUME TypeOK, MutexInv, WokenFindsTask, PopFindsTask, [Next]_vars
             PROVE  WokenFindsTask' /\ PopFindsTask'
  OBVIOUS
<1> USE DEF TypeOK, WokenFindsTask, PopFindsTask, locks, history, Goto
<1>1. CASE Start
  BY <1>1 DEF Start
<1>2. CASE Stop
  BY <1>2 DEF Stop
<1>3. ASSUME NEW t \in Tasks, Put(t) PROVE WokenFindsTask' /\ PopFindsTask'
  <2>1. queue' # <<>>
    BY <1>3, SMTT(30) DEF Put, Pushed
  <2>2. QED
    BY <2>1
<1>4. ASSUME NEW w \in Workers, Loop(w) PROVE WokenFindsTask' /\ PopFindsTask'
  BY <1>4 DEF Loop, GoOn
<1>5. ASSUME NEW w \in Workers, Enter(w) PROVE WokenFindsTask' /\ PopFindsTask'
  BY <1>5 DEF Enter, EntryIsFree
<1>6. ASSUME NEW w \in Workers, Lock(w) PROVE WokenFindsTask' /\ PopFindsTask'
  BY <1>6 DEF Lock
<1>7. ASSUME NEW w \in Workers, Sleep(w) PROVE WokenFindsTask' /\ PopFindsTask'
  BY <1>7 DEF Sleep
<1>8. ASSUME NEW w \in Workers, DoNotSleep(w) PROVE WokenFindsTask' /\ PopFindsTask'
  BY <1>8 DEF DoNotSleep
<1>9. ASSUME NEW w \in Workers, WakeSpuriously(w) PROVE WokenFindsTask' /\ PopFindsTask'
  BY <1>9 DEF WakeSpuriously
<1>10. ASSUME NEW w \in Workers, Return(w) PROVE WokenFindsTask' /\ PopFindsTask'
  BY <1>10 DEF Return
<1>11. ASSUME NEW w \in Workers, Pop(w) PROVE WokenFindsTask' /\ PopFindsTask'
  BY <1>11 DEF Pop, Popped, MutexInv
<1>12. ASSUME NEW w \in Workers, PopEmpty(w) PROVE WokenFindsTask' /\ PopFindsTask'
  BY <1>12 DEF PopEmpty
<1>13. ASSUME NEW w \in Workers, Execute(w) PROVE WokenFindsTask' /\ PopFindsTask'
  BY <1>13 DEF Execute
<1>14. CASE UNCHANGED vars
  BY <1>14 DEF vars
<1>15. QED
  BY <1>1, <1>2, <1>3, <1>4, <1>5, <1>6, <1>7, <1>8, <1>9, <1>10, <1>11, <1>12, <1>13, <1>14 DEF Next, Worker

\* No notification is lost: the queue is empty while a worker sleeps, with any
\* interleaving of any number of puts and workers (thread_pool.hpp:36-53).
THEOREM NotificationTheorem == Spec => []NoLostNotification
<1>1. Init => MutexInv /\ NoLostNotification
  BY ThreadPoolAssumption DEF Init, MutexInv, NoLostNotification
<1>2. QED
  BY <1>1, TypeCorrect, MutexStep, SleepStep, PTL DEF Spec

\* Until the platform ends a wait by itself, get_task never reads the front of
\* an empty queue, although it does not test size() again (thread_pool.hpp:46-51).
THEOREM PopTheorem == Spec => []PopFindsTask
<1>1. Init => MutexInv /\ WokenFindsTask /\ PopFindsTask
  BY ThreadPoolAssumption DEF Init, MutexInv, WokenFindsTask, PopFindsTask
<1>2. TypeOK /\ MutexInv /\ WokenFindsTask /\ PopFindsTask /\ [Next]_vars
        => WokenFindsTask' /\ PopFindsTask'
  BY PopStep
<1>3. QED
  BY <1>1, <1>2, TypeCorrect, MutexStep, PTL DEF Spec

-----------------------------------------------------------------------------
(* What is popped, and by whom.                                            *)

\* What Append does to a queue of tasks.
LEMMA AppendLemma ==
  ASSUME NEW q \in Seq(Tasks), NEW t \in Tasks
  PROVE  /\ Append(q, t) \in Seq(Tasks)
         /\ Len(Append(q, t)) = Len(q) + 1
         /\ Append(q, t)[Len(q) + 1] = t
         /\ \A i \in 1..Len(q) : Append(q, t)[i] = q[i]
OBVIOUS

\* Puts and pops keep the order of the tasks.
LEMMA FifoStep == TypeOK /\ QueueIsFifo /\ [Next]_vars => QueueIsFifo'
<1> SUFFICES ASSUME TypeOK, QueueIsFifo, [Next]_vars PROVE QueueIsFifo'
  OBVIOUS
<1> USE DEF TypeOK, QueueIsFifo, locks, history, Goto
<1>1. CASE Start
  BY <1>1 DEF Start
<1>2. CASE Stop
  BY <1>2 DEF Stop
<1>3. ASSUME NEW t \in Tasks, Put(t) PROVE QueueIsFifo'
  <2>1. queue' = Append(queue, t) /\ put' = Append(put, t) /\ taken' = taken
    BY <1>3 DEF Put, Pushed
  <2>2. queue \in Seq(Tasks) /\ put \in Seq(Tasks) /\ taken \in Nat
    OBVIOUS
  <2>3. Len(put') = Len(put) + 1 /\ Len(queue') = Len(queue) + 1
    BY <2>1, <2>2, AppendLemma
  <2>4. ASSUME NEW i \in 1..Len(queue') PROVE queue'[i] = put'[taken' + i]
    <3>1. CASE i = Len(queue) + 1
      BY <2>1, <2>2, <2>3, <3>1, AppendLemma
    <3>2. CASE i \in 1..Len(queue)
      <4>1. queue'[i] = queue[i] /\ put'[taken + i] = put[taken + i]
        BY <2>1, <2>2, <3>2, AppendLemma
      <4>2. QED
        BY <2>1, <3>2, <4>1
    <3>3. QED
      BY <2>2, <2>3, <3>1, <3>2
  <2>5. Len(put') = taken' + Len(queue')
    <3>1. Len(put) = taken + Len(queue) /\ Len(put) \in Nat /\ Len(queue) \in Nat
      BY <2>2
    <3> HIDE DEF TypeOK, QueueIsFifo
    <3>2. QED
      BY <2>1, <2>2, <2>3, <3>1
  <2> HIDE DEF TypeOK
  <2>6. QED
    BY <2>4, <2>5
<1>4. ASSUME NEW w \in Workers, Loop(w) PROVE QueueIsFifo'
  BY <1>4 DEF Loop, GoOn
<1>5. ASSUME NEW w \in Workers, Enter(w) PROVE QueueIsFifo'
  BY <1>5 DEF Enter, EntryIsFree
<1>6. ASSUME NEW w \in Workers, Lock(w) PROVE QueueIsFifo'
  BY <1>6 DEF Lock
<1>7. ASSUME NEW w \in Workers, Sleep(w) PROVE QueueIsFifo'
  BY <1>7 DEF Sleep
<1>8. ASSUME NEW w \in Workers, DoNotSleep(w) PROVE QueueIsFifo'
  BY <1>8 DEF DoNotSleep
<1>9. ASSUME NEW w \in Workers, WakeSpuriously(w) PROVE QueueIsFifo'
  BY <1>9 DEF WakeSpuriously
<1>10. ASSUME NEW w \in Workers, Return(w) PROVE QueueIsFifo'
  BY <1>10 DEF Return
<1>11. ASSUME NEW w \in Workers, Pop(w) PROVE QueueIsFifo'
  <2>1. queue # <<>> /\ queue' = Tail(queue) /\ taken' = taken + 1 /\ put' = put
    BY <1>11 DEF Pop, Popped
  <2>2. Len(queue') = Len(queue) - 1
        /\ \A i \in 1..Len(queue') : queue'[i] = queue[i + 1]
    BY <2>1
  <2>3. Len(put') = taken' + Len(queue')
    <3>1. Len(put) = taken + Len(queue) /\ taken \in Nat /\ Len(queue) \in Nat
      OBVIOUS
    <3>2. Len(put') = Len(put)
      BY <2>1
    <3>3. Len(queue') = Len(queue) - 1 /\ taken' = taken + 1
      BY <2>1, <2>2
    <3>4. QED
      BY <3>1, <3>2, <3>3
  <2>4. ASSUME NEW i \in 1..Len(queue') PROVE queue'[i] = put'[taken' + i]
    <3>1. i + 1 \in 1..Len(queue) /\ taken' + i = taken + (i + 1)
      BY <2>1, <2>2
    <3>2. queue'[i] = put[taken + (i + 1)]
      BY <2>2, <3>1
    <3>3. QED
      BY <2>1, <3>1, <3>2
  <2>5. QED
    BY <2>3, <2>4
<1>12. ASSUME NEW w \in Workers, PopEmpty(w) PROVE QueueIsFifo'
  BY <1>12 DEF PopEmpty
<1>13. ASSUME NEW w \in Workers, Execute(w) PROVE QueueIsFifo'
  BY <1>13 DEF Execute
<1>14. CASE UNCHANGED vars
  BY <1>14 DEF vars
<1>15. QED
  BY <1>1, <1>2, <1>3, <1>4, <1>5, <1>6, <1>7, <1>8, <1>9, <1>10, <1>11, <1>12, <1>13, <1>14 DEF Next, Worker

\* The queue is first in, first out, and neither loses nor repeats a task, for
\* any number of workers (thread_pool.hpp:36-53).
THEOREM FifoTheorem == Spec => []QueueIsFifo
<1>1. Init => QueueIsFifo
  BY DEF Init, QueueIsFifo
<1>2. QED
  BY <1>1, TypeCorrect, FifoStep, PTL DEF Spec

\* Whatever is being or has been executed was popped, and no task was put twice.
OnceInv ==
    /\ \A i, j \in 1..Len(put) : put[i] = put[j] => i = j
    /\ \A t \in executed : \E i \in 1..taken : put[i] = t
    /\ \A w \in Workers : holding[w] # NoTask => \E i \in 1..taken : put[i] = holding[w]
    /\ ExecutedOnce

\* Popping hands out a task nobody had before.
LEMMA OnceStep ==
  TypeOK /\ HoldingInv /\ QueueIsFifo /\ OnceInv /\ [Next]_vars => OnceInv'
<1> SUFFICES ASSUME TypeOK, HoldingInv, QueueIsFifo, OnceInv, [Next]_vars PROVE OnceInv'
  OBVIOUS
<1>0. /\ holding \in [Workers -> Tasks \cup {NoTask}]
      /\ taken \in Nat /\ Len(put) \in Nat /\ taken <= Len(put)
  BY DEF TypeOK, QueueIsFifo
<1> USE <1>0 DEF HoldingInv, OnceInv, ExecutedOnce, locks, history, Goto
<1>1. CASE Start
  BY <1>1 DEF Start
<1>2. CASE Stop
  BY <1>2 DEF Stop
<1>3. ASSUME NEW t \in Tasks, Put(t) PROVE OnceInv'
  <2>1. put' = Append(put, t) /\ put \in Seq(Tasks) /\ \A i \in 1..Len(put) : put[i] # t
    BY <1>3 DEF Put, TypeOK
  <2>2. /\ Len(put') = Len(put) + 1 /\ put'[Len(put) + 1] = t
        /\ \A i \in 1..Len(put) : put'[i] = put[i]
    BY <2>1
  <2>3. \A i, j \in 1..Len(put') : put'[i] = put'[j] => i = j
    BY <2>1, <2>2
  <2>4. \A i \in 1..taken : i \in 1..Len(put) /\ put'[i] = put[i]
    BY <2>2
  <2>5. \A u \in executed : \E i \in 1..taken : put'[i] = u
    BY <2>4
  <2>6. \A w \in Workers : holding[w] # NoTask => \E i \in 1..taken : put'[i] = holding[w]
    BY <2>4
  <2>7. taken' = taken /\ executed' = executed /\ holding' = holding
    BY <1>3 DEF Put
  <2>8. /\ \A u \in executed' : \E i \in 1..taken' : put'[i] = u
        /\ \A w \in Workers : holding'[w] # NoTask => \E i \in 1..taken' : put'[i] = holding'[w]
    BY <2>7, <2>5, <2>6
  <2>9. ExecutedOnce'
    BY <2>7
  <2>10. QED
    BY <2>3, <2>8, <2>9, Zenon
<1>4. ASSUME NEW w \in Workers, Loop(w) PROVE OnceInv'
  BY <1>4 DEF Loop, GoOn
<1>5. ASSUME NEW w \in Workers, Enter(w) PROVE OnceInv'
  BY <1>5 DEF Enter, EntryIsFree
<1>6. ASSUME NEW w \in Workers, Lock(w) PROVE OnceInv'
  BY <1>6 DEF Lock
<1>7. ASSUME NEW w \in Workers, Sleep(w) PROVE OnceInv'
  BY <1>7 DEF Sleep
<1>8. ASSUME NEW w \in Workers, DoNotSleep(w) PROVE OnceInv'
  BY <1>8 DEF DoNotSleep
<1>9. ASSUME NEW w \in Workers, WakeSpuriously(w) PROVE OnceInv'
  BY <1>9 DEF WakeSpuriously
<1>10. ASSUME NEW w \in Workers, Return(w) PROVE OnceInv'
  BY <1>10 DEF Return
<1>11. ASSUME NEW w \in Workers, Pop(w) PROVE OnceInv'
  <2>1. /\ taken < Len(put) /\ Head(queue) = put[taken + 1]
        /\ taken' = taken + 1 /\ put' = put /\ executed' = executed
        /\ holding' = [holding EXCEPT ![w] = put[taken + 1]]
        /\ put[taken + 1] \in Tasks
    <3>1. queue \in Seq(Tasks) /\ queue # <<>> /\ put \in Seq(Tasks)
      BY <1>11 DEF Pop, TypeOK
    <3>2. Len(queue) \in Nat \ {0} /\ 1 \in 1..Len(queue) /\ Head(queue) = queue[1]
      BY <3>1
    <3>3. taken < Len(put) /\ Head(queue) = put[taken + 1]
      BY <3>2 DEF QueueIsFifo
    <3>4. put[taken + 1] \in Tasks
      BY <3>1, <3>3
    <3>5. QED
      BY <1>11, <3>3, <3>4 DEF Pop
  <2>2. \A i \in 1..taken : put[i] # put[taken + 1]
    BY <2>1
  <2>3. \A t \in executed : t # put[taken + 1]
    BY <2>2
  <2>4. \A v \in Workers : holding[v] # put[taken + 1]
    BY <2>1, <2>2, ThreadPoolAssumption
  <2>5. \A t \in executed' : \E i \in 1..taken' : put'[i] = t
    <3>1. \A i \in 1..taken : i \in 1..taken'
      BY <2>1
    <3>2. QED
      BY <2>1, <3>1
  <2>6. ASSUME NEW v \in Workers, holding'[v] # NoTask
        PROVE  \E i \in 1..taken' : put'[i] = holding'[v]
    <3>1. \A i \in 1..taken : i \in 1..taken'
      BY <2>1
    <3>2. taken + 1 \in 1..taken'
      BY <2>1
    <3>3. CASE v = w
      BY <2>1, <3>2, <3>3
    <3>4. CASE v # w
      BY <2>1, <2>6, <3>1, <3>4
    <3>5. QED
      BY <3>3, <3>4
  <2>7. ExecutedOnce'
    BY <2>1, <2>3, <2>4
  <2>8. \A i, j \in 1..Len(put') : put'[i] = put'[j] => i = j
    BY <2>1
  <2>9. QED
    BY <2>5, <2>6, <2>7, <2>8, Zenon
<1>12. ASSUME NEW w \in Workers, PopEmpty(w) PROVE OnceInv'
  BY <1>12 DEF PopEmpty
<1>13. ASSUME NEW w \in Workers, Execute(w) PROVE OnceInv'
  <2>1. /\ holding[w] # NoTask /\ executed' = executed \cup {holding[w]}
        /\ holding' = [holding EXCEPT ![w] = NoTask] /\ put' = put /\ taken' = taken
    BY <1>13 DEF Execute
  <2>2. ASSUME NEW t \in executed' PROVE \E i \in 1..taken' : put'[i] = t
    <3>1. CASE t \in executed
      BY <2>1, <3>1
    <3>2. CASE t = holding[w]
      BY <2>1, <3>2
    <3>3. QED
      BY <2>1, <3>1, <3>2
  <2>3. \A v \in Workers : holding'[v] # NoTask => v # w /\ holding'[v] = holding[v]
    BY <2>1
  <2>4. ExecutedOnce'
    BY <2>1, <2>3
  <2>5. /\ \A i, j \in 1..Len(put') : put'[i] = put'[j] => i = j
        /\ \A v \in Workers : holding'[v] # NoTask => \E i \in 1..taken' : put'[i] = holding'[v]
    BY <2>1, <2>3
  <2>6. QED
    BY <2>2, <2>4, <2>5, Zenon
<1>14. CASE UNCHANGED vars
  BY <1>14 DEF vars
<1>15. QED
  BY <1>1, <1>2, <1>3, <1>4, <1>5, <1>6, <1>7, <1>8, <1>9, <1>10, <1>11, <1>12, <1>13, <1>14 DEF Next, Worker

\* No task is executed twice, by one worker or by two (thread_pool.hpp:42-53).
THEOREM OnceTheorem == Spec => []ExecutedOnce
<1>1. Init => OnceInv /\ QueueIsFifo
  BY DEF Init, OnceInv, ExecutedOnce, QueueIsFifo
<1>2. OnceInv => ExecutedOnce
  BY DEF OnceInv
<1>3. QED
  BY <1>1, <1>2, TypeCorrect, FifoStep, OnceStep, PTL DEF Spec

\* A worker that began a task after stop() is executing it, or is on its way out.
StopInv ==
    \A w \in Workers :
        \/ afterStop[w] = 0
        \/ afterStop[w] = 1 /\ ~isRun /\ pc[w] \in {"execute", "loop", "exit"}

\* Nobody restarts the pool, so is_run stays false for good.
LEMMA StopStep == TypeOK /\ StopInv /\ [Next]_vars => StopInv'
<1> SUFFICES ASSUME TypeOK, StopInv, [Next]_vars PROVE StopInv'
  OBVIOUS
<1> USE DEF TypeOK, StopInv, Points, locks, history, Goto
<1>1. CASE Start
  BY <1>1 DEF Start
<1>2. CASE Stop
  BY <1>2 DEF Stop
<1>3. ASSUME NEW t \in Tasks, Put(t) PROVE StopInv'
  BY <1>3 DEF Put, Pushed, NotifyOne
<1>4. ASSUME NEW w \in Workers, Loop(w) PROVE StopInv'
  BY <1>4 DEF Loop, GoOn
<1>5. ASSUME NEW w \in Workers, Enter(w) PROVE StopInv'
  BY <1>5 DEF Enter, EntryIsFree
<1>6. ASSUME NEW w \in Workers, Lock(w) PROVE StopInv'
  BY <1>6 DEF Lock
<1>7. ASSUME NEW w \in Workers, Sleep(w) PROVE StopInv'
  BY <1>7 DEF Sleep
<1>8. ASSUME NEW w \in Workers, DoNotSleep(w) PROVE StopInv'
  BY <1>8 DEF DoNotSleep
<1>9. ASSUME NEW w \in Workers, WakeSpuriously(w) PROVE StopInv'
  BY <1>9 DEF WakeSpuriously
<1>10. ASSUME NEW w \in Workers, Return(w) PROVE StopInv'
  BY <1>10 DEF Return
<1>11. ASSUME NEW w \in Workers, Pop(w) PROVE StopInv'
  BY <1>11 DEF Pop, Popped
<1>12. ASSUME NEW w \in Workers, PopEmpty(w) PROVE StopInv'
  BY <1>12 DEF PopEmpty
<1>13. ASSUME NEW w \in Workers, Execute(w) PROVE StopInv'
  BY <1>13 DEF Execute
<1>14. CASE UNCHANGED vars
  BY <1>14 DEF vars
<1>15. QED
  BY <1>1, <1>2, <1>3, <1>4, <1>5, <1>6, <1>7, <1>8, <1>9, <1>10, <1>11, <1>12, <1>13, <1>14 DEF Next, Worker

\* After stop() each worker begins at most one more task (thread_pool.hpp:81-84,
\* 101-109).
THEOREM StopTheorem == Spec => []OneTaskAfterStop
<1>1. Init => StopInv
  BY DEF Init, StopInv
<1>2. StopInv => OneTaskAfterStop
  BY DEF StopInv, OneTaskAfterStop
<1>3. QED
  BY <1>1, <1>2, TypeCorrect, StopStep, PTL DEF Spec

-----------------------------------------------------------------------------
(* The pool implements WorkQueue.                                          *)

\* push_task is a Put, the pop is a Take, the end of execute() is a Finish, and
\* the steps on the locks and on is_run are invisible to the pool's users.
LEMMA RefinementStep ==
  TypeOK /\ HoldingInv /\ QueueIsFifo /\ [Next]_vars => [Abstract!Next]_(Abstract!vars)
<1> SUFFICES ASSUME TypeOK, HoldingInv, QueueIsFifo, [Next]_vars
             PROVE  [Abstract!Next]_(Abstract!vars)
  OBVIOUS
<1> USE DEF Abstract!vars, locks, history, Goto
<1>1. CASE Start
  BY <1>1 DEF Start
<1>2. CASE Stop
  BY <1>2 DEF Stop
<1>3. ASSUME NEW t \in Tasks, Put(t) PROVE [Abstract!Next]_(Abstract!vars)
  <2>1. Abstract!Put(t)
    BY <1>3 DEF Put, Abstract!Put
  <2>2. QED
    BY <2>1 DEF Abstract!Next
<1>4. ASSUME NEW w \in Workers, Loop(w) PROVE [Abstract!Next]_(Abstract!vars)
  BY <1>4 DEF Loop, GoOn
<1>5. ASSUME NEW w \in Workers, Enter(w) PROVE [Abstract!Next]_(Abstract!vars)
  BY <1>5 DEF Enter, EntryIsFree
<1>6. ASSUME NEW w \in Workers, Lock(w) PROVE [Abstract!Next]_(Abstract!vars)
  BY <1>6 DEF Lock
<1>7. ASSUME NEW w \in Workers, Sleep(w) PROVE [Abstract!Next]_(Abstract!vars)
  BY <1>7 DEF Sleep
<1>8. ASSUME NEW w \in Workers, DoNotSleep(w) PROVE [Abstract!Next]_(Abstract!vars)
  BY <1>8 DEF DoNotSleep
<1>9. ASSUME NEW w \in Workers, WakeSpuriously(w) PROVE [Abstract!Next]_(Abstract!vars)
  BY <1>9 DEF WakeSpuriously
<1>10. ASSUME NEW w \in Workers, Return(w) PROVE [Abstract!Next]_(Abstract!vars)
  BY <1>10 DEF Return
<1>11. ASSUME NEW w \in Workers, Pop(w) PROVE [Abstract!Next]_(Abstract!vars)
  <2>1. Head(queue) = put[taken + 1] /\ taken < Len(put) /\ holding[w] = NoTask
    BY <1>11 DEF Pop, TypeOK, QueueIsFifo, HoldingInv
  <2>2. Abstract!Take(w)
    BY <1>11, <2>1 DEF Pop, Abstract!Take
  <2>3. QED
    BY <2>2 DEF Abstract!Next
<1>12. ASSUME NEW w \in Workers, PopEmpty(w) PROVE [Abstract!Next]_(Abstract!vars)
  BY <1>12 DEF PopEmpty
<1>13. ASSUME NEW w \in Workers, Execute(w) PROVE [Abstract!Next]_(Abstract!vars)
  <2>1. Abstract!Finish(w)
    BY <1>13 DEF Execute, HoldingInv, Abstract!Finish
  <2>2. QED
    BY <2>1 DEF Abstract!Next
<1>14. CASE UNCHANGED vars
  BY <1>14 DEF vars
<1>15. QED
  BY <1>1, <1>2, <1>3, <1>4, <1>5, <1>6, <1>7, <1>8, <1>9, <1>10, <1>11, <1>12, <1>13, <1>14 DEF Next, Worker

\* Whatever the interleaving of its threads, the pool behaves as the queue of
\* work its users rely on (thread_pool.hpp:33-110).
THEOREM RefinementTheorem == Spec => ImplementsWorkQueue
<1>1. Init => Abstract!Init /\ QueueIsFifo
  BY DEF Init, Abstract!Init, QueueIsFifo
<1>2. QED
  BY <1>1, TypeCorrect, FifoStep, RefinementStep, PTL
     DEF Spec, ImplementsWorkQueue, Abstract!Spec
===============================================================================
