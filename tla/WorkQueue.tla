------------------------------ MODULE WorkQueue ------------------------------
(***************************************************************************)
(* What the thread pool of the simulator promises to the connection        *)
(* handlers that put tasks in it (thread_pool.hpp): a task is put once,    *)
(* taken in the order of the puts by exactly one worker, and executed by   *)
(* the worker that took it.  No lock, no condition variable, no thread     *)
(* scheduling: ThreadPool is the specification that has those, and it is   *)
(* shown to implement this one.                                            *)
(***************************************************************************)
EXTENDS Naturals, Sequences

CONSTANTS Workers,  \* the threads of the pool
          Tasks,    \* the thread_task objects that may be put
          NoTask    \* what a worker without a task holds

VARIABLES put,       \* the tasks put so far, in order
          taken,     \* how many of them have been taken out of the queue
          holding,   \* the task each worker is executing
          executed   \* the tasks whose handle_response has returned

vars == <<put, taken, holding, executed>>

Init ==
    /\ put = <<>>
    /\ taken = 0
    /\ holding = [w \in Workers |-> NoTask]
    /\ executed = {}

Put(t) ==
    /\ \A i \in 1..Len(put) : put[i] # t
    /\ put' = Append(put, t)
    /\ UNCHANGED <<taken, holding, executed>>

Take(w) ==
    /\ holding[w] = NoTask
    /\ taken < Len(put)
    /\ taken' = taken + 1
    /\ holding' = [holding EXCEPT ![w] = put[taken + 1]]
    /\ UNCHANGED <<put, executed>>

Finish(w) ==
    /\ holding[w] # NoTask
    /\ executed' = executed \cup {holding[w]}
    /\ holding' = [holding EXCEPT ![w] = NoTask]
    /\ UNCHANGED <<put, taken>>

Next ==
    \/ \E t \in Tasks : Put(t)
    \/ \E w \in Workers : Take(w) \/ Finish(w)

Spec == Init /\ [][Next]_vars
=============================================================================
