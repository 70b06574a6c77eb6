------------------------------ MODULE ThreadPool ------------------------------
(***************************************************************************)
(* The thread pool of the meter simulator                                  *)
(* (src/simulator_meter/fee/meter_simulator/thread_pool.hpp): a queue of   *)
(* tasks guarded by task_queue_mutex_, a condition variable on which an    *)
(* idle worker sleeps, and enter_mutex_, which a worker holds from the     *)
(* entry of get_task until it has popped its task.                         *)
(*                                                                         *)
(* The condition is tested with an IF, not in a loop, so everything        *)
(* depends on enter_mutex_: it makes the sleeping worker the only one that *)
(* can reach the queue.  push_task does all its work under                 *)
(* task_queue_mutex_ and blocks on nothing else, so it is one action.      *)
(***************************************************************************)
EXTENDS Naturals, Sequences, FiniteSets

CONSTANTS
    Workers,         \* the pool's threads (thread_num; the simulator has 2)
    Tasks,           \* the thread_task objects, each put at most once
    NoTask,          \* an empty thread_task_ptr
    NoThread         \* "owner" of a mutex nobody holds

ASSUME ThreadPoolAssumption ==
    /\ NoThread \notin Workers
    /\ NoTask \notin Tasks

VARIABLES
    isRun,       \* is_run
    queue,       \* task_queue_
    queueMutex,  \* owner of task_queue_mutex_
    enterMutex,  \* owner of enter_mutex_
    sleeping,    \* the threads blocked in cond_.wait that nothing woke yet
    pc,          \* where each thread is
    holding,     \* the local variable task of run
    put,         \* history: the tasks pushed, in order
    taken,       \* history: how many tasks have been popped
    executed,    \* history: the tasks whose execute() has returned
    afterStop,   \* history: how many tasks each worker began after stop()
    woken        \* history: a wait has ended without a notify_one

locks == <<queueMutex, enterMutex, sleeping>>
history == <<put, taken, executed, afterStop, woken>>
vars == <<isRun, queue, queueMutex, enterMutex, sleeping, pc, holding,
          put, taken, executed, afterStop, woken>>

Points == {"none",     \* the thread does not exist yet
           "loop",     \* about to test is_run
           "enter",    \* about to lock enter_mutex_
           "lock",     \* about to lock task_queue_mutex_
           "test",     \* about to test task_queue_.size()
           "wait",     \* inside cond_.wait
           "pop",      \* about to read task_queue_.front()
           "execute",  \* running the task
           "exit",     \* run() has returned
           "crash"}    \* front() of an empty queue was dereferenced

Init ==
    /\ isRun = FALSE
    /\ queue = <<>>
    /\ queueMutex = NoThread
    /\ enterMutex = NoThread
    /\ sleeping = {}
    /\ pc = [w \in Workers |-> "none"]
    /\ holding = [w \in Workers |-> NoTask]
    /\ put = <<>>
    /\ taken = 0
    /\ executed = {}
    /\ afterStop = [w \in Workers |-> 0]
    /\ woken = FALSE

Goto(w, from, to) ==
    /\ pc[w] = from
    /\ pc' = [pc EXCEPT ![w] = to]

-----------------------------------------------------------------------------
(* The thread that owns the pool.                                          *)

\* start() sets is_run before it creates the threads.
Start ==
    /\ \A w \in Workers : pc[w] = "none"
    /\ isRun' = TRUE
    /\ pc' = [w \in Workers |-> "loop"]
    /\ UNCHANGED <<queue, locks, holding, history>>

\* stop() clears is_run and wakes nobody.
Stop ==
    /\ isRun
    /\ isRun' = FALSE
    /\ UNCHANGED <<queue, locks, pc, holding, history>>

\* Fault: push_task forgets cond_.notify_one().
NotifyNobody == UNCHANGED sleeping

\* notify_one wakes one of the threads blocked in wait, if there is one.
NotifyOne ==
    IF sleeping = {}
    THEN UNCHANGED sleeping
    ELSE \E w \in sleeping : sleeping' = sleeping \ {w}

\* Faults: the task is pushed at the wrong end; an empty pointer is pushed.
PushedInFront(t) == <<t>> \o queue
PushedNull(t) == Append(queue, NoTask)

\* task_queue_.push(task)
Pushed(t) == Append(queue, t)

\* put() of the thread that read a packet: push_task under the queue's mutex.
Put(t) ==
    /\ queueMutex = NoThread
    /\ \A i \in 1..Len(put) : put[i] # t
    /\ queue' = Pushed(t)
    /\ put' = Append(put, t)
    /\ NotifyOne
    /\ UNCHANGED <<isRun, queueMutex, enterMutex, pc, holding, taken,
                   executed, afterStop, woken>>

-----------------------------------------------------------------------------
(* The worker threads.                                                     *)

\* Fault: the loop does not look at is_run.
GoOnForever == TRUE

\* while(is_run)
GoOn == isRun

Loop(w) ==
    /\ Goto(w, "loop", IF GoOn THEN "enter" ELSE "exit")
    /\ UNCHANGED <<isRun, queue, locks, holding, history>>

\* Fault: get_task without enter_mutex_.
NobodyExcluded == TRUE

\* scoped_lock enter_lock(enter_mutex_)
EntryIsFree == enterMutex = NoThread

Enter(w) ==
    /\ Goto(w, "enter", "lock")
    /\ EntryIsFree
    /\ enterMutex' = w
    /\ UNCHANGED <<isRun, queue, queueMutex, sleeping, holding, history>>

\* unique_lock lock(task_queue_mutex_)
Lock(w) ==
    /\ Goto(w, "lock", "test")
    /\ queueMutex = NoThread
    /\ queueMutex' = w
    /\ UNCHANGED <<isRun, queue, enterMutex, sleeping, holding, history>>

\* size()==0: cond_.wait(lock) gives up task_queue_mutex_ but not enter_mutex_.
Sleep(w) ==
    /\ queue = <<>>
    /\ Goto(w, "test", "wait")
    /\ queueMutex' = NoThread
    /\ sleeping' = sleeping \cup {w}
    /\ UNCHANGED <<isRun, queue, enterMutex, holding, history>>

\* size()!=0: no wait.
DoNotSleep(w) ==
    /\ queue # <<>>
    /\ Goto(w, "test", "pop")
    /\ UNCHANGED <<isRun, queue, locks, holding, history>>

\* The platform may end a wait by itself.
WakeSpuriously(w) ==
    /\ w \in sleeping
    /\ sleeping' = sleeping \ {w}
    /\ woken' = TRUE
    /\ UNCHANGED <<isRun, queue, queueMutex, enterMutex, pc, holding, put, taken,
                   executed, afterStop>>

\* cond_.wait returns once it owns the mutex again; size() is not tested again.
Return(w) ==
    /\ Goto(w, "wait", "pop")
    /\ w \notin sleeping
    /\ queueMutex = NoThread
    /\ queueMutex' = w
    /\ UNCHANGED <<isRun, queue, enterMutex, sleeping, holding, history>>

\* Fault: front() is copied but pop() is forgotten.
NotPopped == queue

\* task_queue_.pop()
Popped == Tail(queue)

\* front(), pop(), and both locks are released on return.
Pop(w) ==
    /\ queue # <<>>
    /\ Goto(w, "pop", "execute")
    /\ holding' = [holding EXCEPT ![w] = Head(queue)]
    /\ queue' = Popped
    /\ taken' = taken + 1
    /\ queueMutex' = NoThread
    /\ enterMutex' = NoThread
    /\ afterStop' = [afterStop EXCEPT ![w] = IF isRun THEN @ ELSE @ + 1]
    /\ UNCHANGED <<isRun, sleeping, put, executed, woken>>

\* front() of an empty std::queue has no defined result: the process dies.
PopEmpty(w) ==
    /\ queue = <<>>
    /\ Goto(w, "pop", "crash")
    /\ UNCHANGED <<isRun, queue, locks, holding, history>>

\* task->execute(), then back to the loop; the result is ignored.
Execute(w) ==
    /\ Goto(w, "execute", "loop")
    /\ executed' = executed \cup {holding[w]}
    /\ holding' = [holding EXCEPT ![w] = NoTask]
    /\ UNCHANGED <<isRun, queue, locks, put, taken, afterStop, woken>>

Worker(w) ==
    \/ Loop(w) \/ Enter(w) \/ Lock(w)
    \/ Sleep(w) \/ DoNotSleep(w) \/ Return(w)
    \/ Pop(w) \/ PopEmpty(w) \/ Execute(w)

Crashed == \E w \in Workers : pc[w] = "crash"

Next ==
    /\ ~Crashed
    /\ \/ Start
       \/ Stop
       \/ \E t \in Tasks : Put(t)
       \/ \E w \in Workers : Worker(w) \/ WakeSpuriously(w)

Spec == Init /\ [][Next]_vars

(***************************************************************************)
(* Each thread is scheduled as long as it can run.  Nothing says that the  *)
(* io thread puts a task or that the owner calls stop().                   *)
(***************************************************************************)
Fairness == WF_vars(Start) /\ \A w \in Workers : WF_vars(Worker(w))
FairSpec == Spec /\ Fairness

-----------------------------------------------------------------------------
(* Properties.                                                             *)

\* Every variable has its type, whatever the threads did.
TypeOK ==
    /\ isRun \in BOOLEAN
    /\ queue \in Seq(Tasks)
    /\ queueMutex \in Workers \cup {NoThread}
    /\ enterMutex \in Workers \cup {NoThread}
    /\ sleeping \in SUBSET Workers
    /\ pc \in [Workers -> Points]
    /\ holding \in [Workers -> Tasks \cup {NoTask}]
    /\ put \in Seq(Tasks)
    /\ taken \in Nat
    /\ executed \in SUBSET Tasks
    /\ afterStop \in [Workers -> Nat]
    /\ woken \in BOOLEAN

\* get_task reads front() without testing size() again after the wait: a
\* worker that is about to pop must find a task (thread_pool.hpp:46-51).
\* It holds until the platform wakes a thread by itself.
PopFindsTask == ~woken => \A w \in Workers : pc[w] = "pop" => queue # <<>>

\* A worker asleep on the condition variable and a queue that holds a task
\* never coexist: no notification is lost, whatever the order of the puts and
\* of the workers' steps (thread_pool.hpp:36-53).
NoLostNotification == sleeping # {} => queue = <<>>

\* The queue is FIFO and loses or repeats nothing: behind the tasks popped so
\* far, what was put is exactly what is queued (thread_pool.hpp:36-53).
QueueIsFifo ==
    /\ Len(put) = taken + Len(queue)
    /\ \A i \in 1..Len(queue) : queue[i] = put[taken + i]

\* No two workers ever execute the same task, and no worker executes again a
\* task that has been executed (thread_pool.hpp:42-53, 101-109).
ExecutedOnce ==
    \A w \in Workers : holding[w] # NoTask =>
        /\ holding[w] \notin executed
        /\ \A v \in Workers \ {w} : holding[v] # holding[w]

\* stop() is seen by a worker before its next get_task returns twice: each
\* worker begins at most one task after it (thread_pool.hpp:81-84, 103-108).
OneTaskAfterStop == \A w \in Workers : afterStop[w] <= 1

\* Every task that is put is executed, as long as nobody calls stop() and no
\* spurious wake-up kills the process (thread_pool.hpp:86-89, 101-109).
TasksAreExecuted ==
    \A t \in Tasks :
        (isRun /\ \E i \in 1..Len(put) : put[i] = t)
            ~> (t \in executed \/ ~isRun \/ Crashed)

\* A worker that is executing a task when stop() is called does return from
\* run(): join() can only be held up by workers inside get_task
\* (thread_pool.hpp:81-84, 91-94, 101-109).
BusyWorkersExit ==
    \A w \in Workers : (~isRun /\ pc[w] = "execute") ~> (pc[w] = "exit" \/ Crashed)

\* The pool implements the queue of work its users rely on.
Abstract == INSTANCE WorkQueue
ImplementsWorkQueue == Abstract!Spec
=============================================================================
