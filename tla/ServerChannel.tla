---------------------------- MODULE ServerChannel ----------------------------
(***************************************************************************)
(* The TCP side of the simulator: server_channel accepts connections and   *)
(* keeps their handlers in a map; a server_channel_handler reads requests, *)
(* queues replies and writes them one at a time                            *)
(* (fee/meter_simulator/server_channel.hpp, channel/event_channel.hpp).    *)
(*                                                                         *)
(* Two io threads run the completion handlers.  The strand of a connection *)
(* runs its handlers one after the other, but not those of different       *)
(* connections or of the acceptor; put() is called by the threads of the   *)
(* pool at any time.  mutex_w_mb_ makes put() and the bookkeeping of       *)
(* handle_write atomic towards each other, mutex_handler_ each access to   *)
(* the map; stop() holds no lock, so its steps are separate here and the   *)
(* other threads fall between them.                                        *)
(***************************************************************************)
EXTENDS Naturals, Sequences, FiniteSets

CONSTANTS
    Conns,     \* handlers: each is given to one accepted connection
    Replies,   \* reply packets, each put at most once
    Empty,     \* the replies that do not fit in a message_block, which stays empty
    BlockLen,  \* the units that another reply has, so that writes can be partial
    IdLimit,   \* the limit of get_next_meter_id (100000 in the code)
    None,      \* no connection; also an unset id
    Garbage,   \* a unit on the wire that no put() ever supplied
    CopiedAtCall  \* TRUE when async_write_some copies its buffer before it returns

ASSUME ServerChannelAssumption ==
    /\ None \notin Conns \cup Nat
    /\ Empty \subseteq Replies
    /\ BlockLen \in Nat \ {0}
    /\ IdLimit \in Nat \ {0}
    /\ Garbage \notin Replies \X (1..BlockLen)
    /\ CopiedAtCall \in BOOLEAN

Ids == 2..(IdLimit + 1)

VARIABLES
    accepting,  \* an async_accept is pending
    up,         \* the process runs
    meterId,    \* meter_id_
    handlers,   \* map_handlers_
    at,         \* where the strand is in stop(); "idle" outside it
    id,         \* id_
    chs,        \* state_; "new" before the connection is accepted
    removed,    \* removed_
    open,       \* socket_ is open
    reading,    \* the pending async_read_some, and its result once it has one
    meter,      \* meter_handler_ is set
    queue,      \* d_w_mb_
    ops,        \* w_op_counts_
    writes,     \* the async_write_some calls whose handler has not run yet
    put,        \* history: the replies put, in order
    wire        \* history: the units the transport took, in order

acceptVars == <<accepting, up, meterId>>
writeVars == <<queue, ops, writes, put, wire>>
vars == <<accepting, up, meterId, handlers, at, id, chs, removed, open,
          reading, meter, queue, ops, writes, put, wire>>

Units(m) == IF m \in Empty THEN 0 ELSE BlockLen

\* A queued message_block: a reply and how far rd_ptr_ has moved.
Block == [msg : Replies, rd : 0..(BlockLen - 1)]
Pending == BlockLen + 1
Failed == BlockLen + 2
\* A write call, with the units it carried once it is complete.
Write == [msg : Replies, rd : 0..(BlockLen - 1), len : 0..BlockLen,
          result : (0..BlockLen) \cup {Pending, Failed}]

Init ==
    /\ accepting = TRUE
    /\ up = TRUE
    /\ meterId = 1
    /\ handlers = [i \in Ids |-> None]
    /\ at = [c \in Conns |-> "idle"]
    /\ id = [c \in Conns |-> None]
    /\ chs = [c \in Conns |-> "new"]
    /\ removed = [c \in Conns |-> FALSE]
    /\ open = [c \in Conns |-> FALSE]
    /\ reading = [c \in Conns |-> "none"]
    /\ meter = [c \in Conns |-> FALSE]
    /\ queue = [c \in Conns |-> <<>>]
    /\ ops = [c \in Conns |-> 0]
    /\ writes = [c \in Conns |-> <<>>]
    /\ put = [c \in Conns |-> <<>>]
    /\ wire = [c \in Conns |-> <<>>]

-----------------------------------------------------------------------------
(* Accepting.                                                              *)

NextMeterId == IF meterId > IdLimit THEN 2 ELSE meterId + 1

\* insert_handler refuses an id that is already in the map.
Insert(c, i) ==
    IF handlers[i] = None
    THEN handlers' = [handlers EXCEPT ![i] = c]
    ELSE UNCHANGED handlers

\* handle_accept and the new handler's start(), then start_accept again.
Accept(c) ==
    /\ accepting
    /\ chs[c] = "new"
    /\ meterId' = NextMeterId
    /\ id' = [id EXCEPT ![c] = NextMeterId]
    /\ chs' = [chs EXCEPT ![c] = "idle"]
    /\ open' = [open EXCEPT ![c] = TRUE]
    /\ Insert(c, NextMeterId)
    /\ reading' = [reading EXCEPT ![c] = "pending"]
    /\ UNCHANGED <<accepting, up, at, removed, meter, writeVars>>

\* After an error nobody starts another async_accept.
AcceptFails ==
    /\ accepting
    /\ accepting' = FALSE
    /\ UNCHANGED <<up, meterId, handlers, at, id, chs, removed, open, reading,
                   meter, writeVars>>

\* set_option and remote_endpoint throw when the peer is gone; nothing catches.
AcceptThrows ==
    /\ accepting
    /\ \E c \in Conns : chs[c] = "new"
    /\ up' = FALSE
    /\ UNCHANGED <<accepting, meterId, handlers, at, id, chs, removed, open,
                   reading, meter, writeVars>>

-----------------------------------------------------------------------------
(* stop(), called at the end of a completion handler.                      *)

StopStep(c, from, to) == at[c] = from /\ at' = [at EXCEPT ![c] = to]

\* if (!removed_)
StopAgain(c) ==
    /\ removed[c]
    /\ StopStep(c, "stop", "idle")
    /\ UNCHANGED <<acceptVars, handlers, id, chs, removed, open, reading, meter, writeVars>>

CloseSocket(c) ==
    /\ ~removed[c]
    /\ StopStep(c, "stop", IF chs[c] = "idle" THEN "mark" ELSE "offline")
    /\ open' = [open EXCEPT ![c] = FALSE]
    /\ UNCHANGED <<acceptVars, handlers, id, chs, removed, reading, meter, writeVars>>

GoOffline(c) ==
    /\ StopStep(c, "offline", "find")
    /\ chs' = [chs EXCEPT ![c] = "offline"]
    /\ UNCHANGED <<acceptVars, handlers, id, removed, open, reading, meter, writeVars>>

\* Faults: stop() removes whatever handler has its id, or none.
OwnsEntryAlways(c) == TRUE
OwnsEntryNever(c) == FALSE

\* if (handler == shared_from_this())
OwnsEntry(c) == handlers[id[c]] = c

FindHandler(c) ==
    /\ StopStep(c, "find", IF OwnsEntry(c) THEN "remove" ELSE "mark")
    /\ UNCHANGED <<acceptVars, handlers, id, chs, removed, open, reading, meter, writeVars>>

RemoveHandler(c) ==
    /\ StopStep(c, "remove", "mark")
    /\ handlers' = [handlers EXCEPT ![id[c]] = None]
    /\ UNCHANGED <<acceptVars, id, chs, removed, open, reading, meter, writeVars>>

MarkRemoved(c) ==
    /\ StopStep(c, "mark", "idle")
    /\ removed' = [removed EXCEPT ![c] = TRUE]
    /\ UNCHANGED <<acceptVars, handlers, id, chs, open, reading, meter, writeVars>>

-----------------------------------------------------------------------------
(* Reading.                                                                *)

\* The transport completes the read: with data, or with an error.
ReadCompletes(c) ==
    /\ reading[c] = "pending"
    /\ \E r \in IF open[c] THEN {"data", "error"} ELSE {"error"} :
          reading' = [reading EXCEPT ![c] = r]
    /\ UNCHANGED <<acceptVars, handlers, at, id, chs, removed, open, meter, writeVars>>

\* Fault: handle_read ignores removed_.
ReadableAlways(c) == reading[c] = "data"

\* if (!e && !removed_)
Readable(c) == reading[c] = "data" /\ ~removed[c]

\* handle_read with data: the meter is created on the first read, the packets go
\* to the pool and the next read is started.
HandleRead(c) ==
    /\ at[c] = "idle"
    /\ Readable(c)
    /\ meter' = [meter EXCEPT ![c] = TRUE]
    /\ chs' = [chs EXCEPT ![c] = "online"]
    /\ reading' = [reading EXCEPT ![c] = "pending"]
    /\ UNCHANGED <<acceptVars, handlers, at, id, removed, open, writeVars>>

\* handle_read with an error, or after stop(): no further read.
HandleReadEnd(c) ==
    /\ StopStep(c, "idle", "stop")
    /\ reading[c] \in {"data", "error"}
    /\ ~Readable(c)
    /\ reading' = [reading EXCEPT ![c] = "none"]
    /\ UNCHANGED <<acceptVars, handlers, id, chs, removed, open, meter, writeVars>>

-----------------------------------------------------------------------------
(* Writing.                                                                *)

\* start_write hands the rest of the first block of q to the socket.
Started(q, ws) ==
    Append(ws, [msg |-> Head(q).msg, rd |-> Head(q).rd,
                len |-> Units(Head(q).msg) - Head(q).rd, result |-> Pending])

\* Fault: put starts a write although one is in progress.
MayStartInPutAlways(c) == chs[c] = "online"

\* if (w_op_counts_ == 0 && !d_w_mb_.empty() && state_ == chs_online), after the push
MayStartInPut(c) == ops[c] = 0 /\ chs[c] = "online"

\* put() of a worker that has a reply for the connection.
Put(c, m) ==
    /\ meter[c]
    /\ \A d \in Conns : \A i \in 1..Len(put[d]) : put[d][i] # m
    /\ put' = [put EXCEPT ![c] = Append(@, m)]
    /\ LET q == Append(queue[c], [msg |-> m, rd |-> 0])
       IN  /\ queue' = [queue EXCEPT ![c] = q]
           /\ IF MayStartInPut(c)
              THEN /\ ops' = [ops EXCEPT ![c] = @ + 1]
                   /\ writes' = [writes EXCEPT ![c] = Started(q, @)]
              ELSE UNCHANGED <<ops, writes>>
    /\ UNCHANGED <<acceptVars, handlers, at, id, chs, removed, open, reading, meter, wire>>

\* What the peer may see of unit k of a reply: start_write passes a buffer inside
\* a local message_block, which is gone when the function returns.
OnTheWire(m, k) ==
    IF CopiedAtCall THEN {<<m, k>>} ELSE {<<m, k>>, Garbage}

\* The transport completes the oldest write call: it takes some units, or fails.
WriteCompletes(c) ==
    \E i \in 1..Len(writes[c]) :
        /\ \A j \in 1..(i - 1) : writes[c][j].result # Pending
        /\ writes[c][i].result = Pending
        /\ \/ /\ open[c]
              /\ \E n \in (IF writes[c][i].len = 0 THEN {0} ELSE 1..writes[c][i].len) :
                    /\ writes' = [writes EXCEPT ![c][i].result = n]
                    /\ \E u \in [1..n -> {Garbage} \cup (Replies \X (1..BlockLen))] :
                          /\ \A k \in 1..n :
                                u[k] \in OnTheWire(writes[c][i].msg, writes[c][i].rd + k)
                          /\ wire' = [wire EXCEPT ![c] = @ \o u]
           \/ /\ writes' = [writes EXCEPT ![c][i].result = Failed]
              /\ UNCHANGED wire
    /\ UNCHANGED <<acceptVars, handlers, at, id, chs, removed, open, reading, meter,
                   queue, ops, put>>

\* Faults: a partial write drops the block; a complete one only advances it.
AdvancedDropping(q, w) == Tail(q)
AdvancedTooFar(q, w) == [q EXCEPT ![1].rd = @ + w.result]

\* pop_front after a complete write, rd_ptr moved after a partial one.
Advanced(q, w) ==
    IF w.result = w.len
    THEN Tail(q)
    ELSE [q EXCEPT ![1].rd = @ + w.result]

\* Fault: handle_write does not start the next write.
StartNextNever(c, q) == FALSE

\* if (w_op_counts_ == 0 && !d_w_mb_.empty()), after the decrement
StartNext(c, q) == ops[c] = 1 /\ q # <<>>

\* handle_write of a successful write, under mutex_w_mb_.
HandleWrite(c) ==
    /\ at[c] = "idle"
    /\ writes[c] # <<>>
    /\ Head(writes[c]).result \in 0..BlockLen
    /\ ~removed[c]
    /\ LET q == Advanced(queue[c], Head(writes[c]))
       IN  /\ queue' = [queue EXCEPT ![c] = q]
           /\ IF StartNext(c, q)
              THEN /\ writes' = [writes EXCEPT ![c] = Started(q, Tail(@))]
                   /\ UNCHANGED ops
              ELSE /\ writes' = [writes EXCEPT ![c] = Tail(@)]
                   /\ ops' = [ops EXCEPT ![c] = @ - 1]
    /\ UNCHANGED <<acceptVars, handlers, at, id, chs, removed, open, reading, meter, put, wire>>

\* handle_write of a failed write, or after stop(): stop().
HandleWriteEnd(c) ==
    /\ StopStep(c, "idle", "stop")
    /\ writes[c] # <<>>
    /\ Head(writes[c]).result # Pending
    /\ Head(writes[c]).result = Failed \/ removed[c]
    /\ writes' = [writes EXCEPT ![c] = Tail(@)]
    /\ ops' = [ops EXCEPT ![c] = @ - 1]
    /\ UNCHANGED <<acceptVars, handlers, id, chs, removed, open, reading, meter, queue, put, wire>>

-----------------------------------------------------------------------------
Stopping(c) ==
    \/ StopAgain(c) \/ CloseSocket(c) \/ GoOffline(c)
    \/ FindHandler(c) \/ RemoveHandler(c) \/ MarkRemoved(c)
Handling(c) == HandleRead(c) \/ HandleReadEnd(c) \/ HandleWrite(c) \/ HandleWriteEnd(c)

Next ==
    /\ up
    /\ \/ AcceptFails \/ AcceptThrows
       \/ \E c \in Conns :
             \/ Accept(c) \/ Stopping(c) \/ Handling(c)
             \/ ReadCompletes(c) \/ WriteCompletes(c)
             \/ \E m \in Replies : Put(c, m)

Spec == Init /\ [][Next]_vars

-----------------------------------------------------------------------------
(* Properties.                                                             *)

\* Every field has its type: in particular rd_ptr_ never leaves its block.
TypeOK ==
    /\ accepting \in BOOLEAN
    /\ up \in BOOLEAN
    /\ meterId \in 1..(IdLimit + 1)
    /\ handlers \in [Ids -> Conns \cup {None}]
    /\ at \in [Conns -> {"idle", "stop", "offline", "find", "remove", "mark"}]
    /\ id \in [Conns -> Ids \cup {None}]
    /\ chs \in [Conns -> {"new", "idle", "online", "offline"}]
    /\ removed \in [Conns -> BOOLEAN]
    /\ open \in [Conns -> BOOLEAN]
    /\ reading \in [Conns -> {"none", "pending", "data", "error"}]
    /\ meter \in [Conns -> BOOLEAN]
    /\ queue \in [Conns -> Seq(Block)]
    /\ ops \in [Conns -> Nat]
    /\ writes \in [Conns -> Seq(Write)]
    /\ put \in [Conns -> Seq(Replies)]
    /\ wire \in [Conns -> Seq({Garbage} \cup (Replies \X (1..BlockLen)))]

\* At most one async_write_some is outstanding on a socket, and w_op_counts_
\* counts it, although put() runs in the pool's threads while handle_write runs
\* in the io thread (server_channel.hpp:88-99, 176-227).
OneWriteInFlight == \A c \in Conns : ops[c] = Len(writes[c]) /\ ops[c] <= 1

\* A reply never waits on an online connection with no write in progress: one of
\* put() and handle_write has always taken care of it, unless the connection has
\* lost a write and is about to stop (server_channel.hpp:88-99, 195-227).
NoStalledReply ==
    \A c \in Conns :
        chs[c] = "online" /\ queue[c] # <<>> /\ at[c] = "idle" => ops[c] = 1

\* The replies that have units, by their places in put, and what is unit k of the
\* stream that they make up.
Sent(c) == {i \in 1..Len(put[c]) : put[c][i] \notin Empty}
IsStreamUnit(c, k, u) ==
    \E i \in Sent(c) :
        /\ Cardinality({j \in Sent(c) : j < i}) = (k - 1) \div BlockLen
        /\ u = <<put[c][i], ((k - 1) % BlockLen) + 1>>

\* The peer receives the replies in the order of the puts, each once and without
\* a gap, whatever the sizes of the partial writes, and all of them once the queue
\* is empty; only the late reading of the write buffer can replace a unit
\* (server_channel.hpp:88-99, 176-227).
WireIsTheStream ==
    \A c \in Conns :
        /\ queue[c] = <<>> => Len(wire[c]) = BlockLen * Cardinality(Sent(c))
        /\ \A k \in 1..Len(wire[c]) :
              \/ IsStreamUnit(c, k, wire[c][k])
              \/ ~CopiedAtCall /\ wire[c][k] = Garbage

\* A connection that was stopped after its first packet is out of the map for
\* good (server_channel.hpp:159-171).
StoppedIsUnregistered ==
    \A c \in Conns : removed[c] /\ meter[c] => \A i \in Ids : handlers[i] # c

\* Only the connection that owns an entry takes it out of the map: wrapped-around
\* ids never make one connection unregister another (server_channel.hpp:163-168).
OnlyOwnEntryRemoved ==
    [][\A i \in Ids : handlers[i] # None /\ handlers'[i] # handlers[i]
          => handlers'[i] = None /\ at[handlers[i]] = "remove"]_vars

\* A stopped connection stays stopped, also when completions that were queued
\* before its socket was closed are handled afterwards
\* (server_channel.hpp:154, 205, 245).
StoppedForGood ==
    [][\A c \in Conns : removed[c] =>
          /\ chs'[c] = chs[c]
          /\ reading'[c] = "pending" => reading[c] = "pending"]_vars
=============================================================================
