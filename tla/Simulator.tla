----------------------------- MODULE Simulator -----------------------------
(***************************************************************************)
(* One connection through the whole simulator: the peer sends frames, the  *)
(* io thread reads them and makes tasks (FrameReader), the workers of the  *)
(* pool take the tasks (WorkQueue, which ThreadPool implements) and put    *)
(* replies, and the io threads write these (ServerChannel).                *)
(*                                                                         *)
(* handle_read runs on the strand of the connection until the buffer is    *)
(* cleared, so the other handlers of the connection wait for it; the       *)
(* workers do not.  What a meter_handler does with a request is left to    *)
(* MeterHandler: here it replies, or it does not.  What becomes of the     *)
(* acceptor and of other connections is left to ServerChannel.             *)
(***************************************************************************)
EXTENDS FrameReader, FiniteSets

CONSTANTS
    Workers,   \* threads of the pool
    Conn,      \* the connection
    NoTask, None, Garbage,
    Waits      \* the peer sends a request when it has the replies to all before

\* A task, and the reply to it, is the number of the packet that it was made of.
Tasks == Positions

ASSUME SimulatorAssumption ==
    /\ Waits \subseteq BOOLEAN
    /\ NoTask \notin Tasks
    /\ None \notin {Conn} \cup Nat
    /\ Garbage \notin Tasks \X (1..1)

VARIABLES
    waits,     \* whether this peer waits for its replies
    sent,      \* the positions that the peer has sent
    handled,   \* the tasks whose handler has replied, or has decided not to
    \* of WorkQueue
    tasks, taken, holding, executed,
    \* of ServerChannel
    accepting, up, meterId, handlers, at, id, chs, removed, open, reading, meter,
    queue, ops, writes, put, wire

Work == INSTANCE WorkQueue WITH put <- tasks
Channel == INSTANCE ServerChannel WITH
    Conns <- {Conn}, Replies <- Tasks, Empty <- {}, BlockLen <- 1, IdLimit <- 1,
    CopiedAtCall <- TRUE

readerVars == <<starts, claim, got, first, lo, running, delivered>>
peerVars == <<waits, sent>>
workVars == <<tasks, taken, holding, executed>>
channelVars == <<accepting, up, meterId, handlers, at, id, chs, removed, open, reading,
                 meter, queue, ops, writes, put, wire>>
simVars == <<readerVars, peerVars, handled, workVars, channelVars>>

SimInit ==
    /\ Init
    /\ Work!Init
    /\ Channel!Init
    /\ waits \in Waits
    /\ sent = 0
    /\ handled = {}

-----------------------------------------------------------------------------
(* The peer and TCP.                                                       *)

Requested == Cardinality({s \in starts : s <= sent})

Send ==
    /\ open[Conn]
    /\ sent + 1 \in starts
    /\ waits => Len(wire[Conn]) = Requested
    /\ sent' = FrameEnd(sent + 1)
    /\ UNCHANGED <<readerVars, waits, handled, workVars, channelVars>>

\* A write is taken by TCP, and a read returns when there is something to read.
Transport ==
    /\ \/ Channel!WriteCompletes(Conn)
       \/ /\ ~running
          /\ Channel!ReadCompletes(Conn)
          /\ reading'[Conn] = "data" => got < sent
    /\ UNCHANGED <<readerVars, peerVars, handled, workVars>>

-----------------------------------------------------------------------------
(* The io threads.                                                         *)

Accept ==
    /\ Channel!Accept(Conn)
    /\ UNCHANGED <<readerVars, peerVars, handled, workVars>>

\* handle_read, from its start ...
StartReading ==
    /\ Channel!HandleRead(Conn)
    /\ \E n \in 1..ReadMax : got + n <= sent /\ Read(n)
    /\ UNCHANGED <<peerVars, handled, workVars>>

\* ... over the packets, each of which becomes a task ...
MakeTask ==
    /\ Deliver
    /\ Work!Put(Len(delivered) + 1)
    /\ UNCHANGED <<peerVars, handled, channelVars>>

\* ... to the end of process_packet.
StopReading ==
    /\ TooShort \/ Discard \/ Incomplete
    /\ UNCHANGED <<peerVars, handled, workVars, channelVars>>

\* The strand runs no other handler of the connection meanwhile.
OtherHandlers ==
    /\ ~running
    /\ \/ Channel!HandleReadEnd(Conn) \/ Channel!HandleWrite(Conn)
       \/ Channel!HandleWriteEnd(Conn) \/ Channel!Stopping(Conn)
    /\ UNCHANGED <<readerVars, peerVars, handled, workVars>>

-----------------------------------------------------------------------------
(* The workers.                                                            *)

TakeTask(w) ==
    /\ Work!Take(w)
    /\ UNCHANGED <<readerVars, peerVars, handled, channelVars>>

\* Fault: a worker replies before it has handled the request.
HandlesOnReplyLate(w) == handled

\* channel_handler_->put is the last thing that handle_response does.
HandlesOnReply(w) == handled \cup {holding[w]}

InHandler(w) == holding[w] # NoTask /\ holding[w] \notin handled

Reply(w) ==
    /\ InHandler(w)
    /\ Channel!Put(Conn, holding[w])
    /\ handled' = HandlesOnReply(w)
    /\ UNCHANGED <<readerVars, peerVars, workVars>>

NoReply(w) ==
    /\ InHandler(w)
    /\ handled' = handled \cup {holding[w]}
    /\ UNCHANGED <<readerVars, peerVars, workVars, channelVars>>

FinishTask(w) ==
    /\ ~InHandler(w)
    /\ Work!Finish(w)
    /\ UNCHANGED <<readerVars, peerVars, handled, channelVars>>

Worker(w) == TakeTask(w) \/ Reply(w) \/ NoReply(w) \/ FinishTask(w)

-----------------------------------------------------------------------------
SimNext ==
    \/ Send \/ Transport \/ Accept
    \/ StartReading \/ MakeTask \/ StopReading \/ OtherHandlers
    \/ \E w \in Workers : Worker(w)

SimSpec == SimInit /\ [][SimNext]_simVars

(***************************************************************************)
(* As long as a thread has something to do, or TCP a write to complete,    *)
(* one of them does it.  Streams are finite here, so more is not needed.   *)
(* Nothing makes a peer send.                                              *)
(***************************************************************************)
Busy ==
    \/ StopReading \/ MakeTask \/ OtherHandlers
    \/ Transport /\ writes'[Conn] # writes[Conn]
    \/ \E w \in Workers : Worker(w)
SimFairness == WF_simVars(Busy)
SimFairSpec == SimSpec /\ SimFairness

-----------------------------------------------------------------------------
(* Properties.                                                             *)

\* Two workers never hold unanswered requests of a peer that waits for its replies,
\* however TCP cuts its frames, as long as only the starts of frames look like headers:
\* for such a peer a meter_handler, which has no lock, handles one request at a time
\* (thread_pool.hpp:36-53, 101-109; server_channel.hpp:88-99, 240-263;
\* ptcl_handler_serv.cpp:46-59).  A frame of which a part was dropped and the rest holds
\* bytes 00 01 twice may become two tasks.
WaitingPeerHasOneHandler ==
    (waits /\ Unambiguous) =>
        Cardinality({w \in Workers : InHandler(w)}) + Len(tasks) - taken <= 1

Answered(n) ==
    /\ n \in handled
    /\ (\E i \in 1..Len(put[Conn]) : put[Conn][i] = n)
          => \E i \in 1..Len(wire[Conn]) : wire[Conn][i] = <<n, 1>>

\* A packet that was read is handled, and what its handler puts is written, unless the
\* connection goes down first: none of the queues on the way keeps it
\* (ptcl_handler_serv.cpp:46-59, thread_pool.hpp:36-53, server_channel.hpp:88-99,
\* 176-227).
PacketsAreAnswered ==
    []<>(chs[Conn] = "offline" \/ \A n \in 1..Len(delivered) : Answered(n))
=============================================================================
