------------------------- MODULE ServerChannelProofs -------------------------
(***************************************************************************)
(* Proofs about the server channel, for any set of connections and replies *)
(* and any id limit: the map of the handlers and stop(), and the write     *)
(* queue.                                                                  *)
(***************************************************************************)
EXTENDS ServerChannel, SequenceTheorems, FiniteSetTheorems, TLAPS

USE ServerChannelAssumption

Unregistered(c) == \A i \in Ids : handlers[i] # c

\* Where the strand of a connection is in stop(), against its state.
StopInv ==
    \A c \in Conns :
        /\ chs[c] = "new" => ~removed[c] /\ at[c] = "idle" /\ reading[c] = "none"
        /\ meter[c] <=> chs[c] \in {"online", "offline"}
        /\ removed[c] => at[c] \in {"idle", "stop"} /\ chs[c] # "online"
        /\ chs[c] = "offline" => removed[c] \/ at[c] \in {"find", "remove", "mark"}
        /\ at[c] \in {"find", "remove"} => chs[c] = "offline"
        /\ at[c] = "offline" => chs[c] = "online"
        /\ at[c] = "mark" => chs[c] \in {"offline", "idle"}

\* The entries of the map against the ids of the connections.
MapInv ==
    \A c \in Conns :
        /\ chs[c] # "new" => id[c] \in Ids
        /\ \A i \in Ids : handlers[i] = c => id[c] = i /\ chs[c] # "new"
        /\ at[c] = "remove" => handlers[id[c]] = c
        /\ chs[c] = "offline" /\ at[c] \notin {"find", "remove"} => Unregistered(c)

\* The write that is in progress carries the rest of the first block.
CarriesFirst(q, w) ==
    /\ w.msg = q[1].msg /\ w.rd = q[1].rd
    /\ w.len = Units(w.msg) - w.rd
    /\ w.result \in (0..w.len) \cup {Pending, Failed}

\* The queue and the writes of a connection.
WriteInvOf(c) ==
    /\ ops[c] = Len(writes[c]) /\ ops[c] <= 1
    /\ writes[c] # <<>> => queue[c] # <<>> /\ CarriesFirst(queue[c], writes[c][1])
    /\ ~meter[c] => queue[c] = <<>>
    /\ \A i \in 1..Len(queue[c]) : queue[c][i].rd <= Units(queue[c][i].msg)

WriteInv == \A c \in Conns : WriteInvOf(c)

ChannelInv == TypeOK /\ StopInv /\ MapInv /\ WriteInv /\ NoStalledReply

-----------------------------------------------------------------------------

\* The initial states satisfy the invariants.
LEMMA InitChannelInv == Init => ChannelInv
<1> SUFFICES ASSUME Init PROVE ChannelInv
  OBVIOUS
<1> USE DEF Init
<1>1. TypeOK
  BY DEF TypeOK, Ids
<1>2. StopInv /\ MapInv
  BY DEF StopInv, MapInv, Unregistered
<1>3. WriteInv /\ NoStalledReply
  BY DEF WriteInv, WriteInvOf, NoStalledReply
<1> QED
  BY <1>1, <1>2, <1>3 DEF ChannelInv

\* A sequence that is not empty and has at most one element.
LEMMA OneElement ==
    ASSUME NEW S, NEW s \in Seq(S), s # <<>>, Len(s) <= 1
    PROVE  Len(s) = 1 /\ Head(s) = s[1] /\ s[1] \in S /\ Tail(s) = <<>>
<1>1. Len(s) \in Nat \ {0}
  BY EmptySeq
<1>2. Len(s) = 1
  BY <1>1
<1>3. Head(s) \in S /\ Tail(s) \in Seq(S) /\ Len(Tail(s)) = 0
  BY <1>2, HeadTailProperties
<1>4. Tail(s) = <<>>
  BY <1>3, EmptySeq
<1>5. Head(s) = s[1]
  OBVIOUS
<1> QED
  BY <1>2, <1>3, <1>4, <1>5

\* A new id is an id.
LEMMA NextIdIsId == ASSUME meterId \in 1..(IdLimit + 1) PROVE NextMeterId \in Ids
  BY DEF NextMeterId, Ids

\* The rest of the first block of a queue is a write call.
LEMMA StartedType ==
    ASSUME NEW q \in Seq(Block), q # <<>>, q[1].rd <= Units(q[1].msg),
           NEW ws \in Seq(Write)
    PROVE  /\ Started(q, ws) \in Seq(Write)
           /\ Len(Started(q, ws)) = Len(ws) + 1
           /\ ws = <<>> => CarriesFirst(q, Started(q, ws)[1])
<1> DEFINE w == [msg |-> q[1].msg, rd |-> q[1].rd,
                 len |-> Units(q[1].msg) - q[1].rd, result |-> Pending]
<1>1. Started(q, ws) = Append(ws, w) /\ Len(q) >= 1
  BY DEF Started
<1>2. q[1] \in Block
  BY <1>1, ElementOfSeq
<1>3. w \in Write
  BY <1>2 DEF Block, Write, Pending, Units
<1>4. CarriesFirst(q, w)
  BY DEF CarriesFirst
<1> HIDE DEF w
<1>5. Len(Append(ws, w)) = Len(ws) + 1 /\ Append(ws, w) \in Seq(Write)
  BY <1>3
<1>6. ws = <<>> => Append(ws, w)[1] = w
  OBVIOUS
<1> QED
  BY <1>1, <1>4, <1>5, <1>6

\* What a successful write leaves of the queue.
LEMMA AdvancedType ==
    ASSUME NEW q \in Seq(Block), q # <<>>, NEW w \in Write,
           CarriesFirst(q, w), w.result \in 0..BlockLen,
           \A i \in 1..Len(q) : q[i].rd <= Units(q[i].msg)
    PROVE  /\ Advanced(q, w) \in Seq(Block)
           /\ \A i \in 1..Len(Advanced(q, w)) :
                 Advanced(q, w)[i].rd <= Units(Advanced(q, w)[i].msg)
<1>1. Len(q) \in Nat /\ Len(q) >= 1 /\ q[1] \in Block
  BY ElementOfSeq
<1>2. CASE w.result = w.len
  <2>1. Advanced(q, w) = Tail(q)
    BY <1>2 DEF Advanced
  <2>2. /\ Tail(q) \in Seq(Block) /\ Len(Tail(q)) = Len(q) - 1
        /\ \A i \in 1..Len(Tail(q)) : Tail(q)[i] = q[i + 1]
    BY HeadTailProperties
  <2> QED
    BY <1>1, <2>1, <2>2
<1>3. CASE w.result # w.len
  <2> DEFINE b == [q[1] EXCEPT !.rd = @ + w.result]
  <2>1. w.result \in 0..w.len
    BY DEF CarriesFirst, Pending, Failed
  <2>2. b \in Block /\ b.rd <= Units(b.msg)
    <3>1. /\ q[1].rd \in 0..(BlockLen - 1) /\ q[1].msg \in Replies
          /\ q[1] = [msg |-> q[1].msg, rd |-> q[1].rd]
      BY <1>1 DEF Block
    <3>2. b = [msg |-> q[1].msg, rd |-> q[1].rd + w.result]
      BY <3>1
    <3>3. w.len = Units(q[1].msg) - q[1].rd
      BY DEF CarriesFirst
    <3>4. Units(q[1].msg) \in {0, BlockLen}
      BY DEF Units
    <3>5. q[1].rd + w.result < Units(q[1].msg)
      BY <1>3, <2>1, <3>1, <3>3, <3>4
    <3>6. q[1].rd + w.result \in 0..(BlockLen - 1)
      BY <2>1, <3>1, <3>3, <3>4, <3>5
    <3> HIDE DEF b
    <3> QED
      BY <3>1, <3>2, <3>5, <3>6, <3>4 DEF Block
  <2>3. Advanced(q, w) = [q EXCEPT ![1] = b]
    BY <1>3 DEF Advanced
  <2> HIDE DEF b
  <2>4. /\ [q EXCEPT ![1] = b] \in Seq(Block)
        /\ Len([q EXCEPT ![1] = b]) = Len(q)
        /\ \A j \in 1..Len(q) : [q EXCEPT ![1] = b][j] = IF j = 1 THEN b ELSE q[j]
    BY <1>1, <2>2, ExceptSeq
  <2> QED
    BY <2>2, <2>3, <2>4
<1> QED
  BY <1>2, <1>3

\* Every step keeps the types.
LEMMA TypeStep ==
    TypeOK /\ StopInv /\ WriteInv /\ [Next]_vars => TypeOK'
<1> SUFFICES ASSUME TypeOK, StopInv, WriteInv, [Next]_vars PROVE TypeOK'
  OBVIOUS
<1> USE DEF acceptVars, writeVars, StopStep
<1>1. CASE AcceptFails
  BY <1>1 DEF AcceptFails, TypeOK
<1>2. CASE AcceptThrows
  BY <1>2 DEF AcceptThrows, TypeOK
<1>3. ASSUME NEW c \in Conns, Accept(c) PROVE TypeOK'
  <2>1. NextMeterId \in Ids
    BY NextIdIsId DEF TypeOK
  <2>2. handlers' \in [Ids -> Conns \cup {None}]
    BY <1>3, <2>1, ZenonT(60) DEF Accept, Insert, TypeOK
  <2>3. meterId' \in 1..(IdLimit + 1)
    BY <1>3, <2>1 DEF Accept, Ids
  <2> QED
    BY <1>3, <2>1, <2>2, <2>3 DEF Accept, TypeOK
<1>4. ASSUME NEW c \in Conns, StopAgain(c) PROVE TypeOK'
  BY <1>4 DEF StopAgain, TypeOK
<1>5. ASSUME NEW c \in Conns, CloseSocket(c) PROVE TypeOK'
  BY <1>5 DEF CloseSocket, TypeOK
<1>6. ASSUME NEW c \in Conns, GoOffline(c) PROVE TypeOK'
  BY <1>6 DEF GoOffline, TypeOK
<1>7. ASSUME NEW c \in Conns, FindHandler(c) PROVE TypeOK'
  BY <1>7 DEF FindHandler, TypeOK, OwnsEntry
<1>8. ASSUME NEW c \in Conns, RemoveHandler(c) PROVE TypeOK'
  BY <1>8 DEF RemoveHandler, TypeOK
<1>9. ASSUME NEW c \in Conns, MarkRemoved(c) PROVE TypeOK'
  BY <1>9 DEF MarkRemoved, TypeOK
<1>10. ASSUME NEW c \in Conns, HandleRead(c) PROVE TypeOK'
  BY <1>10 DEF HandleRead, TypeOK, Readable
<1>11. ASSUME NEW c \in Conns, HandleReadEnd(c) PROVE TypeOK'
  BY <1>11 DEF HandleReadEnd, TypeOK, Readable
<1>12. ASSUME NEW c \in Conns, HandleWrite(c) PROVE TypeOK'
  <2> DEFINE q == Advanced(queue[c], Head(writes[c]))
  <2>1. /\ writes[c] # <<>> /\ writes[c] \in Seq(Write) /\ queue[c] \in Seq(Block)
        /\ Head(writes[c]).result \in 0..BlockLen /\ queue[c] # <<>>
        /\ \A i \in 1..Len(queue[c]) : queue[c][i].rd <= Units(queue[c][i].msg)
        /\ CarriesFirst(queue[c], writes[c][1]) /\ ops[c] = Len(writes[c])
    BY <1>12 DEF HandleWrite, TypeOK, WriteInv, WriteInvOf
  <2>2. /\ Head(writes[c]) = writes[c][1] /\ Head(writes[c]) \in Write
        /\ Tail(writes[c]) \in Seq(Write) /\ Len(writes[c]) >= 1
    BY <2>1, HeadTailProperties
  <2>3. q \in Seq(Block) /\ \A i \in 1..Len(q) : q[i].rd <= Units(q[i].msg)
    BY <2>1, <2>2, AdvancedType
  <2>4. queue' = [queue EXCEPT ![c] = q]
    BY <1>12 DEF HandleWrite
  <2>5. \/ /\ q # <<>> /\ writes' = [writes EXCEPT ![c] = Started(q, Tail(@))] /\ ops' = ops
        \/ /\ writes' = [writes EXCEPT ![c] = Tail(@)]
           /\ ops' = [ops EXCEPT ![c] = @ - 1]
    BY <1>12 DEF HandleWrite, StartNext
  <2> HIDE DEF q
  <2>6. q # <<>> => Started(q, Tail(writes[c])) \in Seq(Write)
    <3>1. q # <<>> => 1 \in 1..Len(q)
      BY <2>3
    <3> QED
      BY <2>2, <2>3, <3>1, StartedType
  <2>7. queue' \in [Conns -> Seq(Block)]
    BY <2>3, <2>4 DEF TypeOK
  <2>8. writes' \in [Conns -> Seq(Write)] /\ ops' \in [Conns -> Nat]
    <3>1. ops[c] - 1 \in Nat
      BY <2>1, <2>2
    <3>2. writes \in [Conns -> Seq(Write)] /\ ops \in [Conns -> Nat]
      BY DEF TypeOK
    <3>3. CASE /\ q # <<>> /\ writes' = [writes EXCEPT ![c] = Started(q, Tail(@))]
               /\ ops' = ops
      BY <2>6, <3>2, <3>3
    <3>4. CASE /\ writes' = [writes EXCEPT ![c] = Tail(@)]
               /\ ops' = [ops EXCEPT ![c] = @ - 1]
      BY <2>2, <3>1, <3>2, <3>4
    <3> QED
      BY <2>5, <3>3, <3>4
  <2> QED
    BY <1>12, <2>7, <2>8 DEF HandleWrite, TypeOK
<1>13. ASSUME NEW c \in Conns, HandleWriteEnd(c) PROVE TypeOK'
  <2>1. /\ Tail(writes[c]) \in Seq(Write) /\ ops[c] = Len(writes[c])
        /\ Len(writes[c]) \in Nat /\ Len(writes[c]) >= 1
    BY <1>13 DEF HandleWriteEnd, TypeOK, WriteInv, WriteInvOf
  <2>2. /\ writes' = [writes EXCEPT ![c] = Tail(@)]
        /\ ops' = [ops EXCEPT ![c] = @ - 1]
        /\ at' = [at EXCEPT ![c] = "stop"]
    BY <1>13 DEF HandleWriteEnd
  <2>3. /\ writes' \in [Conns -> Seq(Write)] /\ ops' \in [Conns -> Nat]
        /\ at' \in [Conns -> {"idle", "stop", "offline", "find", "remove", "mark"}]
    BY <2>1, <2>2 DEF TypeOK
  <2> QED
    BY <1>13, <2>3 DEF HandleWriteEnd, TypeOK
<1>14. ASSUME NEW c \in Conns, ReadCompletes(c) PROVE TypeOK'
  BY <1>14 DEF ReadCompletes, TypeOK
<1>15. ASSUME NEW c \in Conns, WriteCompletes(c) PROVE TypeOK'
  <2> DEFINE Unit == {Garbage} \cup (Replies \X (1..BlockLen))
  <2>1. PICK i \in 1..Len(writes[c]) :
           \/ \E n \in (IF writes[c][i].len = 0 THEN {0} ELSE 1..writes[c][i].len) :
                 /\ writes' = [writes EXCEPT ![c][i].result = n]
                 /\ \E u \in [1..n -> Unit] : wire' = [wire EXCEPT ![c] = @ \o u]
           \/ /\ writes' = [writes EXCEPT ![c][i].result = Failed]
              /\ wire' = wire
    BY <1>15 DEF WriteCompletes
  <2>2. writes[c] \in Seq(Write) /\ writes[c][i] \in Write
    BY ElementOfSeq DEF TypeOK
  <2>3. writes[c][i].len \in 0..BlockLen
    BY <2>2 DEF Write
  <2>9. writes[c][i].len = 0 \/ writes[c][i].len \in 1..BlockLen
    BY <2>3
  <2>10. \A n \in (IF writes[c][i].len = 0 THEN {0} ELSE 1..writes[c][i].len) :
            n \in 0..BlockLen
    BY <2>9
  <2>4. \E r \in (0..BlockLen) \cup {Failed} : writes' = [writes EXCEPT ![c][i].result = r]
    <3>1. CASE writes' = [writes EXCEPT ![c][i].result = Failed]
      BY <3>1, Zenon
    <3>2. CASE \E n \in (IF writes[c][i].len = 0 THEN {0} ELSE 1..writes[c][i].len) :
                  writes' = [writes EXCEPT ![c][i].result = n]
      BY <3>2, <2>10, Zenon
    <3> QED
      BY <2>1, <3>1, <3>2, Zenon
  <2>5. writes' \in [Conns -> Seq(Write)]
    <3>1. PICK r \in (0..BlockLen) \cup {Failed} :
             writes' = [writes EXCEPT ![c] = [writes[c] EXCEPT ![i] =
                          [writes[c][i] EXCEPT !.result = r]]]
      BY <2>4
    <3>2. [writes[c][i] EXCEPT !.result = r] \in Write
      BY <2>2 DEF Write
    <3>3. [writes[c] EXCEPT ![i] = [writes[c][i] EXCEPT !.result = r]] \in Seq(Write)
      BY <2>2, <3>2, ExceptSeq
    <3> QED
      BY <3>1, <3>3 DEF TypeOK
  <2>6. wire' \in [Conns -> Seq(Unit)]
    <3>1. CASE wire' = wire
      BY <3>1 DEF TypeOK
    <3>2. CASE \E n \in Nat : \E u \in [1..n -> Unit] : wire' = [wire EXCEPT ![c] = @ \o u]
      <4>0. PICK n \in Nat : \E u \in [1..n -> Unit] : wire' = [wire EXCEPT ![c] = @ \o u]
        BY <3>2
      <4>1. PICK u \in [1..n -> Unit] : wire' = [wire EXCEPT ![c] = @ \o u]
        BY <4>0
      <4>2. u \in Seq(Unit) /\ wire[c] \in Seq(Unit)
        BY SeqDef DEF TypeOK
      <4>3. wire[c] \o u \in Seq(Unit)
        BY <4>2, ConcatProperties
      <4> QED
        BY <4>1, <4>3 DEF TypeOK
    <3>3. wire' = wire \/ \E n \in 0..BlockLen : \E u \in [1..n -> Unit] :
                             wire' = [wire EXCEPT ![c] = @ \o u]
      BY <2>1, <2>10, Zenon
    <3>4. \A n \in 0..BlockLen : n \in Nat
      OBVIOUS
    <3> QED
      BY <3>1, <3>2, <3>3, <3>4, Zenon
  <2> QED
    BY <1>15, <2>5, <2>6 DEF WriteCompletes, TypeOK
<1>16. ASSUME NEW c \in Conns, NEW m \in Replies, Put(c, m) PROVE TypeOK'
  <2> DEFINE b == [msg |-> m, rd |-> 0]
             q == Append(queue[c], b)
  <2>1. queue[c] \in Seq(Block) /\ put[c] \in Seq(Replies) /\ writes[c] \in Seq(Write)
    BY DEF TypeOK
  <2>2. b \in Block /\ b.rd <= Units(b.msg)
    BY DEF Block, Units
  <2>3. /\ queue' = [queue EXCEPT ![c] = q] /\ put' = [put EXCEPT ![c] = Append(@, m)]
        /\ \/ /\ ops' = [ops EXCEPT ![c] = @ + 1]
              /\ writes' = [writes EXCEPT ![c] = Started(q, @)]
           \/ ops' = ops /\ writes' = writes
    BY <1>16 DEF Put
  <2>4. q \in Seq(Block) /\ q # <<>> /\ q[1].rd <= Units(q[1].msg)
    <3> HIDE DEF b
    <3>1. /\ q \in Seq(Block) /\ Len(q) = Len(queue[c]) + 1 /\ Len(queue[c]) \in Nat
          /\ q[1] = IF queue[c] = <<>> THEN b ELSE queue[c][1]
      BY <2>1, <2>2
    <3>2. queue[c] # <<>> => queue[c][1].rd <= Units(queue[c][1].msg)
      BY <2>1 DEF WriteInv, WriteInvOf
    <3> QED
      BY <2>2, <3>1, <3>2
  <2> HIDE DEF q
  <2>5. Started(q, writes[c]) \in Seq(Write) /\ Append(put[c], m) \in Seq(Replies)
    BY <2>1, <2>4, StartedType
  <2>6. /\ queue' \in [Conns -> Seq(Block)] /\ put' \in [Conns -> Seq(Replies)]
        /\ ops' \in [Conns -> Nat] /\ writes' \in [Conns -> Seq(Write)]
    <3>1. queue' \in [Conns -> Seq(Block)]
      BY <2>3, <2>4 DEF TypeOK
    <3>2. put' \in [Conns -> Seq(Replies)]
      BY <2>3, <2>5 DEF TypeOK
    <3>3. ops' \in [Conns -> Nat]
      <4>1. ops' = ops \/ ops' = [ops EXCEPT ![c] = @ + 1]
        BY <2>3
      <4>2. ops \in [Conns -> Nat]
        BY DEF TypeOK
      <4> QED
        BY <4>1, <4>2
    <3>4. writes' \in [Conns -> Seq(Write)]
      BY <2>3, <2>5 DEF TypeOK
    <3> QED
      BY <3>1, <3>2, <3>3, <3>4
  <2> QED
    BY <1>16, <2>6 DEF Put, TypeOK
<1>17. CASE UNCHANGED vars
  BY <1>17 DEF vars, TypeOK
<1> QED
  BY <1>1, <1>2, <1>3, <1>4, <1>5, <1>6, <1>7, <1>8, <1>9, <1>10, <1>11, <1>12, <1>13, <1>14, <1>15, <1>16, <1>17
     DEF Next, Stopping, Handling

\* Every step keeps the states of stop().
LEMMA StopInvStep ==
    TypeOK /\ StopInv /\ WriteInv /\ [Next]_vars => StopInv'
<1> SUFFICES ASSUME TypeOK, StopInv, WriteInv, [Next]_vars PROVE StopInv'
  OBVIOUS
<1> USE DEF acceptVars, writeVars, StopStep
<1>1. CASE AcceptFails
  BY <1>1 DEF AcceptFails, TypeOK, StopInv
<1>2. CASE AcceptThrows
  BY <1>2 DEF AcceptThrows, TypeOK, StopInv
<1>3. ASSUME NEW c \in Conns, Accept(c) PROVE StopInv'
  BY <1>3 DEF Accept, TypeOK, StopInv, NextMeterId, Insert
<1>4. ASSUME NEW c \in Conns, StopAgain(c) PROVE StopInv'
  BY <1>4 DEF StopAgain, TypeOK, StopInv
<1>5. ASSUME NEW c \in Conns, CloseSocket(c) PROVE StopInv'
  BY <1>5 DEF CloseSocket, TypeOK, StopInv
<1>6. ASSUME NEW c \in Conns, GoOffline(c) PROVE StopInv'
  BY <1>6 DEF GoOffline, TypeOK, StopInv
<1>7. ASSUME NEW c \in Conns, FindHandler(c) PROVE StopInv'
  BY <1>7 DEF FindHandler, TypeOK, StopInv, OwnsEntry
<1>8. ASSUME NEW c \in Conns, RemoveHandler(c) PROVE StopInv'
  BY <1>8 DEF RemoveHandler, TypeOK, StopInv
<1>9. ASSUME NEW c \in Conns, MarkRemoved(c) PROVE StopInv'
  BY <1>9 DEF MarkRemoved, TypeOK, StopInv
<1>10. ASSUME NEW c \in Conns, HandleRead(c) PROVE StopInv'
  BY <1>10 DEF HandleRead, TypeOK, StopInv, Readable
<1>11. ASSUME NEW c \in Conns, HandleReadEnd(c) PROVE StopInv'
  BY <1>11 DEF HandleReadEnd, TypeOK, StopInv, Readable
<1>12. ASSUME NEW c \in Conns, HandleWrite(c) PROVE StopInv'
  BY <1>12 DEF HandleWrite, TypeOK, StopInv
<1>13. ASSUME NEW c \in Conns, HandleWriteEnd(c) PROVE StopInv'
  <2>1. /\ at[c] = "idle" /\ at' = [at EXCEPT ![c] = "stop"] /\ writes[c] # <<>>
        /\ chs' = chs /\ removed' = removed /\ reading' = reading /\ meter' = meter
    BY <1>13 DEF HandleWriteEnd
  <2>2. chs[c] # "new"
    BY <2>1 DEF WriteInv, WriteInvOf, StopInv
  <2> QED
    BY <2>1, <2>2 DEF TypeOK, StopInv
<1>14. ASSUME NEW c \in Conns, ReadCompletes(c) PROVE StopInv'
  BY <1>14 DEF ReadCompletes, TypeOK, StopInv
<1>15. ASSUME NEW c \in Conns, WriteCompletes(c) PROVE StopInv'
  BY <1>15 DEF WriteCompletes, TypeOK, StopInv
<1>16. ASSUME NEW c \in Conns, NEW m \in Replies, Put(c, m) PROVE StopInv'
  BY <1>16 DEF Put, MayStartInPut, Started, TypeOK, StopInv
<1>17. CASE UNCHANGED vars
  BY <1>17 DEF vars, TypeOK, StopInv
<1> QED
  BY <1>1, <1>2, <1>3, <1>4, <1>5, <1>6, <1>7, <1>8, <1>9, <1>10, <1>11, <1>12, <1>13, <1>14, <1>15, <1>16, <1>17
     DEF Next, Stopping, Handling

\* Every step keeps the map.
LEMMA MapStep ==
    TypeOK /\ StopInv /\ MapInv /\ [Next]_vars => MapInv'
<1> SUFFICES ASSUME TypeOK, StopInv, MapInv, [Next]_vars PROVE MapInv'
  OBVIOUS
<1> USE DEF acceptVars, writeVars, StopStep
<1>1. CASE AcceptFails
  BY <1>1 DEF AcceptFails, TypeOK, StopInv, MapInv, Unregistered
<1>2. CASE AcceptThrows
  BY <1>2 DEF AcceptThrows, TypeOK, StopInv, MapInv, Unregistered
<1>3. ASSUME NEW c \in Conns, Accept(c) PROVE MapInv'
  <2> DEFINE n == NextMeterId
  <2>1. n \in Ids
    BY NextIdIsId DEF TypeOK
  <2>2. /\ chs[c] = "new" /\ chs' = [chs EXCEPT ![c] = "idle"]
        /\ id' = [id EXCEPT ![c] = n] /\ at' = at
        /\ \/ handlers[n] = None /\ handlers' = [handlers EXCEPT ![n] = c]
           \/ handlers' = handlers
    BY <1>3 DEF Accept, Insert
  <2> HIDE DEF n
  <2>3. \A d \in Conns : d # c => chs'[d] = chs[d] /\ id'[d] = id[d]
    BY <2>2
  <2>4. chs'[c] = "idle" /\ id'[c] = n /\ at[c] = "idle"
    BY <2>2 DEF TypeOK, StopInv
  <2>5. \A i \in Ids : handlers[i] # c
    BY <2>2 DEF MapInv
  <2>6. \A i \in Ids : handlers'[i] = handlers[i] \/ (i = n /\ handlers'[i] = c /\ handlers[i] = None)
    BY <2>1, <2>2 DEF TypeOK
  <2>7. \A d \in Conns : d # None
    OBVIOUS
  <2>8. ASSUME NEW d \in Conns, d # c
        PROVE  /\ chs'[d] # "new" => id'[d] \in Ids
               /\ \A i \in Ids : handlers'[i] = d => id'[d] = i /\ chs'[d] # "new"
               /\ at'[d] = "remove" => handlers'[id'[d]] = d
               /\ chs'[d] = "offline" /\ at'[d] \notin {"find", "remove"}
                     => \A i \in Ids : handlers'[i] # d
    <3>1. \A i \in Ids : handlers'[i] = d <=> handlers[i] = d
      BY <2>6, <2>7, <2>8
    <3>2. at[d] = "remove" => id[d] \in Ids
      BY DEF StopInv, MapInv
    <3> QED
      BY <2>2, <2>3, <2>8, <3>1, <3>2 DEF MapInv, Unregistered
  <2>9. /\ id'[c] \in Ids
        /\ \A i \in Ids : handlers'[i] = c => id'[c] = i /\ chs'[c] # "new"
        /\ at'[c] # "remove" /\ chs'[c] # "offline"
    BY <2>1, <2>2, <2>4, <2>5, <2>6
  <2> QED
    BY <2>8, <2>9 DEF MapInv, Unregistered
<1>4. ASSUME NEW c \in Conns, StopAgain(c) PROVE MapInv'
  BY <1>4 DEF StopAgain, TypeOK, StopInv, MapInv, Unregistered
<1>5. ASSUME NEW c \in Conns, CloseSocket(c) PROVE MapInv'
  BY <1>5 DEF CloseSocket, TypeOK, StopInv, MapInv, Unregistered
<1>6. ASSUME NEW c \in Conns, GoOffline(c) PROVE MapInv'
  BY <1>6 DEF GoOffline, TypeOK, StopInv, MapInv, Unregistered
<1>7. ASSUME NEW c \in Conns, FindHandler(c) PROVE MapInv'
  BY <1>7 DEF FindHandler, TypeOK, StopInv, MapInv, Unregistered, OwnsEntry
<1>8. ASSUME NEW c \in Conns, RemoveHandler(c) PROVE MapInv'
  BY <1>8 DEF RemoveHandler, TypeOK, StopInv, MapInv, Unregistered
<1>9. ASSUME NEW c \in Conns, MarkRemoved(c) PROVE MapInv'
  BY <1>9 DEF MarkRemoved, TypeOK, StopInv, MapInv, Unregistered
<1>10. ASSUME NEW c \in Conns, HandleRead(c) PROVE MapInv'
  BY <1>10 DEF HandleRead, TypeOK, StopInv, MapInv, Unregistered, Readable
<1>11. ASSUME NEW c \in Conns, HandleReadEnd(c) PROVE MapInv'
  BY <1>11 DEF HandleReadEnd, TypeOK, StopInv, MapInv, Unregistered, Readable
<1>12. ASSUME NEW c \in Conns, HandleWrite(c) PROVE MapInv'
  BY <1>12 DEF HandleWrite, TypeOK, StopInv, MapInv, Unregistered
<1>13. ASSUME NEW c \in Conns, HandleWriteEnd(c) PROVE MapInv'
  BY <1>13, SMTT(30) DEF HandleWriteEnd, TypeOK, StopInv, MapInv, Unregistered
<1>14. ASSUME NEW c \in Conns, ReadCompletes(c) PROVE MapInv'
  BY <1>14 DEF ReadCompletes, TypeOK, StopInv, MapInv, Unregistered
<1>15. ASSUME NEW c \in Conns, WriteCompletes(c) PROVE MapInv'
  BY <1>15, SMTT(30) DEF WriteCompletes, TypeOK, StopInv, MapInv, Unregistered
<1>16. ASSUME NEW c \in Conns, NEW m \in Replies, Put(c, m) PROVE MapInv'
  BY <1>16, SMTT(30) DEF Put, MayStartInPut, Started, TypeOK, StopInv, MapInv, Unregistered
<1>17. CASE UNCHANGED vars
  BY <1>17 DEF vars, TypeOK, StopInv, MapInv, Unregistered
<1> QED
  BY <1>1, <1>2, <1>3, <1>4, <1>5, <1>6, <1>7, <1>8, <1>9, <1>10, <1>11, <1>12, <1>13, <1>14, <1>15, <1>16, <1>17
     DEF Next, Stopping, Handling

\* put() and handle_write leave at most one write in progress, on the first block.
LEMMA WriteStep ==
    TypeOK /\ WriteInv /\ [Next]_vars => WriteInv'
<1> SUFFICES ASSUME TypeOK, WriteInv, [Next]_vars PROVE WriteInv'
  OBVIOUS
<1> USE DEF acceptVars, writeVars, StopStep, CarriesFirst
<1>1. CASE AcceptFails
  BY <1>1 DEF AcceptFails, TypeOK, WriteInv, WriteInvOf
<1>2. CASE AcceptThrows
  BY <1>2 DEF AcceptThrows, TypeOK, WriteInv, WriteInvOf
<1>3. ASSUME NEW c \in Conns, Accept(c) PROVE WriteInv'
  BY <1>3 DEF Accept, TypeOK, WriteInv, WriteInvOf
<1>4. ASSUME NEW c \in Conns, StopAgain(c) PROVE WriteInv'
  BY <1>4 DEF StopAgain, TypeOK, WriteInv, WriteInvOf
<1>5. ASSUME NEW c \in Conns, CloseSocket(c) PROVE WriteInv'
  BY <1>5 DEF CloseSocket, TypeOK, WriteInv, WriteInvOf
<1>6. ASSUME NEW c \in Conns, GoOffline(c) PROVE WriteInv'
  BY <1>6 DEF GoOffline, TypeOK, WriteInv, WriteInvOf
<1>7. ASSUME NEW c \in Conns, FindHandler(c) PROVE WriteInv'
  BY <1>7 DEF FindHandler, TypeOK, WriteInv, WriteInvOf
<1>8. ASSUME NEW c \in Conns, RemoveHandler(c) PROVE WriteInv'
  BY <1>8 DEF RemoveHandler, TypeOK, WriteInv, WriteInvOf
<1>9. ASSUME NEW c \in Conns, MarkRemoved(c) PROVE WriteInv'
  BY <1>9 DEF MarkRemoved, TypeOK, WriteInv, WriteInvOf
<1>10. ASSUME NEW c \in Conns, HandleRead(c) PROVE WriteInv'
  BY <1>10 DEF HandleRead, TypeOK, WriteInv, WriteInvOf, Readable
<1>11. ASSUME NEW c \in Conns, HandleReadEnd(c) PROVE WriteInv'
  BY <1>11 DEF HandleReadEnd, TypeOK, WriteInv, WriteInvOf
<1>12. ASSUME NEW c \in Conns, HandleWrite(c) PROVE WriteInv'
  <2> DEFINE q == Advanced(queue[c], Head(writes[c]))
  <2>1. /\ writes[c] # <<>> /\ writes[c] \in Seq(Write) /\ queue[c] \in Seq(Block)
        /\ Head(writes[c]).result \in 0..BlockLen /\ queue[c] # <<>>
        /\ \A i \in 1..Len(queue[c]) : queue[c][i].rd <= Units(queue[c][i].msg)
        /\ CarriesFirst(queue[c], writes[c][1])
        /\ ops[c] = Len(writes[c]) /\ ops[c] <= 1 /\ meter[c]
    BY <1>12 DEF HandleWrite, TypeOK, WriteInv, WriteInvOf
  <2>2. /\ Head(writes[c]) = writes[c][1] /\ Head(writes[c]) \in Write
        /\ Tail(writes[c]) = <<>> /\ ops[c] = 1
    <3>1. Len(writes[c]) <= 1
      BY <2>1
    <3>2. /\ Len(writes[c]) = 1 /\ Head(writes[c]) = writes[c][1]
          /\ writes[c][1] \in Write /\ Tail(writes[c]) = <<>>
      BY <2>1, <3>1, OneElement, Zenon
    <3> QED
      BY <2>1, <3>2
  <2>3. q \in Seq(Block) /\ \A i \in 1..Len(q) : q[i].rd <= Units(q[i].msg)
    BY <2>1, <2>2, AdvancedType
  <2>4. /\ queue' = [queue EXCEPT ![c] = q] /\ meter' = meter
        /\ \/ /\ q # <<>> /\ writes' = [writes EXCEPT ![c] = Started(q, Tail(@))]
              /\ ops' = ops
           \/ /\ writes' = [writes EXCEPT ![c] = Tail(@)]
              /\ ops' = [ops EXCEPT ![c] = @ - 1]
    BY <1>12 DEF HandleWrite, StartNext
  <2> HIDE DEF q
  <2>5. q # <<>> => /\ Started(q, <<>>) \in Seq(Write) /\ Len(Started(q, <<>>)) = 1
                    /\ CarriesFirst(q, Started(q, <<>>)[1])
    <3>1. q # <<>> => 1 \in 1..Len(q)
      BY <2>3
    <3>2. <<>> \in Seq(Write) /\ Len(<<>>) = 0
      OBVIOUS
    <3> SUFFICES ASSUME q # <<>>
                 PROVE  /\ Started(q, <<>>) \in Seq(Write) /\ Len(Started(q, <<>>)) = 1
                        /\ CarriesFirst(q, Started(q, <<>>)[1])
      OBVIOUS
    <3>3. /\ Started(q, <<>>) \in Seq(Write) /\ Len(Started(q, <<>>)) = Len(<<>>) + 1
          /\ CarriesFirst(q, Started(q, <<>>)[1])
      <4> HIDE DEF CarriesFirst
      <4>1. q[1].rd <= Units(q[1].msg)
        BY <2>3, <3>1
      <4> QED
        BY <2>3, <3>2, <4>1, StartedType, Zenon
    <3> QED
      BY <3>2, <3>3
  <2>6. /\ queue'[c] = q
        /\ \/ ops'[c] = 1 /\ q # <<>> /\ writes'[c] = Started(q, <<>>)
           \/ ops'[c] = 0 /\ writes'[c] = <<>>
    <3>1. /\ queue \in [Conns -> Seq(Block)] /\ writes \in [Conns -> Seq(Write)]
          /\ ops \in [Conns -> Nat]
      BY DEF TypeOK
    <3>2. queue'[c] = q
      BY <2>4, <3>1
    <3>3. CASE /\ q # <<>> /\ writes' = [writes EXCEPT ![c] = Started(q, Tail(@))]
               /\ ops' = ops
      BY <2>2, <3>1, <3>2, <3>3
    <3>4. CASE /\ writes' = [writes EXCEPT ![c] = Tail(@)]
               /\ ops' = [ops EXCEPT ![c] = @ - 1]
      <4>1. writes'[c] = Tail(writes[c]) /\ ops'[c] = ops[c] - 1
        BY <3>1, <3>4
      <4> QED
        BY <2>2, <3>2, <4>1
    <3> QED
      BY <2>4, <3>3, <3>4
  <2>7. WriteInvOf(c)'
    <3> HIDE DEF CarriesFirst
    <3>1. meter'[c] /\ queue'[c] = q
      BY <2>1, <2>4, <2>6
    <3>2. ops'[c] = Len(writes'[c]) /\ ops'[c] <= 1
      <4>1. CASE ops'[c] = 1 /\ q # <<>> /\ writes'[c] = Started(q, <<>>)
        <5>1. Len(writes'[c]) = 1 /\ ops'[c] = 1
          BY <2>5, <4>1, Zenon
        <5> QED
          BY <5>1
      <4>2. CASE ops'[c] = 0 /\ writes'[c] = <<>>
        BY <4>2
      <4> QED
        BY <2>6, <4>1, <4>2, Zenon
    <3>3. writes'[c] # <<>> => q # <<>> /\ CarriesFirst(q, writes'[c][1])
      BY <2>5, <2>6
    <3>4. writes'[c] # <<>> => queue'[c] # <<>> /\ CarriesFirst(queue'[c], writes'[c][1])
      BY <3>1, <3>3 DEF CarriesFirst, Units
    <3>5. \A i \in 1..Len(queue'[c]) : queue'[c][i].rd <= Units(queue'[c][i].msg)
      BY <2>3, <3>1, Zenon
    <3> QED
      BY <3>1, <3>2, <3>4, <3>5 DEF WriteInvOf, CarriesFirst, Units
  <2>8. ASSUME NEW d \in Conns, d # c PROVE WriteInvOf(d)'
    <3>1. /\ queue'[d] = queue[d] /\ writes'[d] = writes[d] /\ ops'[d] = ops[d]
          /\ meter'[d] = meter[d]
      <4>1. writes'[d] = writes[d] /\ ops'[d] = ops[d]
        <5>1. \/ writes' = [writes EXCEPT ![c] = Started(q, Tail(@))] /\ ops' = ops
              \/ /\ writes' = [writes EXCEPT ![c] = Tail(@)]
                 /\ ops' = [ops EXCEPT ![c] = @ - 1]
          BY <2>4
        <5> QED
          BY <2>8, <5>1, Zenon DEF TypeOK
      <4> QED
        BY <2>4, <2>8, <4>1
    <3> QED
      BY <3>1 DEF WriteInv, WriteInvOf, CarriesFirst
  <2> QED
    BY <2>7, <2>8 DEF WriteInv
<1>13. ASSUME NEW c \in Conns, HandleWriteEnd(c) PROVE WriteInv'
  <2>1. /\ writes[c] # <<>> /\ writes[c] \in Seq(Write)
        /\ ops[c] = Len(writes[c]) /\ ops[c] <= 1
    BY <1>13 DEF HandleWriteEnd, TypeOK, WriteInv, WriteInvOf
  <2>2. Tail(writes[c]) = <<>> /\ ops[c] = 1
    <3>1. Len(writes[c]) <= 1
      BY <2>1
    <3>2. Len(writes[c]) = 1 /\ Tail(writes[c]) = <<>>
      BY <2>1, <3>1, OneElement, Zenon
    <3> QED
      BY <2>1, <3>2
  <2>3. /\ writes' = [writes EXCEPT ![c] = <<>>] /\ ops' = [ops EXCEPT ![c] = 0]
        /\ queue' = queue /\ meter' = meter
    <3>1. /\ writes' = [writes EXCEPT ![c] = Tail(@)] /\ ops' = [ops EXCEPT ![c] = @ - 1]
          /\ queue' = queue /\ meter' = meter
      BY <1>13 DEF HandleWriteEnd
    <3>2. writes' = [writes EXCEPT ![c] = Tail(writes[c])]
      BY <3>1
    <3>3. ops' = [ops EXCEPT ![c] = ops[c] - 1] /\ ops[c] - 1 = 0
      BY <2>2, <3>1
    <3> QED
      BY <2>2, <3>1, <3>2, <3>3, Zenon
  <2> QED
    BY <2>3 DEF TypeOK, WriteInv, WriteInvOf, CarriesFirst
<1>14. ASSUME NEW c \in Conns, ReadCompletes(c) PROVE WriteInv'
  BY <1>14 DEF ReadCompletes, TypeOK, WriteInv, WriteInvOf
<1>15. ASSUME NEW c \in Conns, WriteCompletes(c) PROVE WriteInv'
  <2>1. PICK i \in 1..Len(writes[c]) :
           /\ queue' = queue /\ ops' = ops /\ meter' = meter
           /\ \E n \in (IF writes[c][i].len = 0 THEN {0} ELSE 1..writes[c][i].len) \cup {Failed} :
                 writes' = [writes EXCEPT ![c][i].result = n]
    BY <1>15 DEF WriteCompletes
  <2>2. /\ writes[c] \in Seq(Write) /\ ops[c] = Len(writes[c]) /\ ops[c] <= 1
        /\ queue[c] # <<>> /\ CarriesFirst(queue[c], writes[c][1])
    BY <2>1 DEF TypeOK, WriteInv, WriteInvOf
  <2>3. i = 1 /\ Len(writes[c]) = 1 /\ writes[c][1] \in Write
    <3>1. writes[c] # <<>>
      BY <2>1
    <3>2. Len(writes[c]) <= 1
      BY <2>2
    <3>3. Len(writes[c]) = 1 /\ writes[c][1] \in Write
      BY <2>2, <3>1, <3>2, OneElement, Zenon
    <3> QED
      BY <2>1, <3>3
  <2>4. PICK n \in (0..writes[c][1].len) \cup {Failed} :
           writes' = [writes EXCEPT ![c] = [writes[c] EXCEPT ![1] =
                        [writes[c][1] EXCEPT !.result = n]]]
    <3>1. writes[c][1].len \in Nat
      BY <2>3 DEF Write
    <3>2. \A n \in (IF writes[c][1].len = 0 THEN {0} ELSE 1..writes[c][1].len) \cup {Failed} :
             n \in (0..writes[c][1].len) \cup {Failed}
      <4>1. CASE writes[c][1].len = 0
        BY <4>1
      <4>2. CASE writes[c][1].len # 0
        BY <4>2, <3>1
      <4> QED
        BY <4>1, <4>2
    <3>3. PICK n \in (0..writes[c][1].len) \cup {Failed} :
             writes' = [writes EXCEPT ![c][1].result = n]
      BY <2>1, <2>3, <3>2, Zenon
    <3> QED
      BY <3>3
  <2> DEFINE w == [writes[c][1] EXCEPT !.result = n]
  <2>5. w \in Write /\ CarriesFirst(queue[c], w)
    BY <2>2, <2>3, <2>4, SMTT(30) DEF Write, CarriesFirst
  <2> HIDE DEF w
  <2>6. writes'[c] = [writes[c] EXCEPT ![1] = w] /\ \A d \in Conns : d # c => writes'[d] = writes[d]
    BY <2>4 DEF TypeOK, w
  <2>7. Len(writes'[c]) = Len(writes[c]) /\ writes'[c][1] = w
    BY <2>2, <2>3, <2>5, <2>6, ExceptSeq
  <2>8. WriteInvOf(c)'
    BY <2>1, <2>2, <2>5, <2>7 DEF WriteInv, WriteInvOf, CarriesFirst
  <2>9. ASSUME NEW d \in Conns, d # c PROVE WriteInvOf(d)'
    BY <2>1, <2>6, <2>9 DEF WriteInv, WriteInvOf, CarriesFirst
  <2> QED
    BY <2>8, <2>9 DEF WriteInv
<1>16. ASSUME NEW c \in Conns, NEW m \in Replies, Put(c, m) PROVE WriteInv'
  <2> DEFINE b == [msg |-> m, rd |-> 0]
             q == Append(queue[c], b)
  <2>1. queue[c] \in Seq(Block) /\ writes[c] \in Seq(Write) /\ ops[c] \in Nat
    BY DEF TypeOK
  <2>2. b \in Block /\ b.rd <= Units(b.msg)
    BY DEF Block, Units
  <2>3. /\ queue' = [queue EXCEPT ![c] = q] /\ meter[c] /\ meter' = meter
        /\ \/ /\ ops[c] = 0 /\ ops' = [ops EXCEPT ![c] = @ + 1]
              /\ writes' = [writes EXCEPT ![c] = Started(q, @)]
           \/ ops' = ops /\ writes' = writes
    BY <1>16 DEF Put, MayStartInPut
  <2> HIDE DEF b
  <2>4. /\ q \in Seq(Block) /\ Len(q) = Len(queue[c]) + 1 /\ Len(queue[c]) \in Nat
        /\ q[Len(queue[c]) + 1] = b
        /\ \A i \in 1..Len(queue[c]) : q[i] = queue[c][i]
    BY <2>1, <2>2
  <2> HIDE DEF q
  <2>5. \A i \in 1..Len(q) : q[i].rd <= Units(q[i].msg)
    <3> SUFFICES ASSUME NEW i \in 1..Len(q) PROVE q[i].rd <= Units(q[i].msg)
      OBVIOUS
    <3>1. CASE i \in 1..Len(queue[c])
      BY <2>4, <3>1 DEF WriteInv, WriteInvOf
    <3>2. CASE i = Len(queue[c]) + 1
      BY <2>2, <2>4, <3>2
    <3> QED
      BY <2>4, <3>1, <3>2
  <2>6. q # <<>> /\ 1 \in 1..Len(q)
    BY <2>4, EmptySeq
  <2>7. WriteInvOf(c)'
    <3>1. queue'[c] = q /\ meter'[c]
      BY <2>3 DEF TypeOK
    <3>2. CASE ops' = ops /\ writes' = writes
      <4>1. writes[c] # <<>> => q[1] = queue[c][1]
        BY <2>1, <2>4, EmptySeq DEF WriteInv, WriteInvOf
      <4> QED
        BY <2>5, <2>6, <3>1, <3>2, <4>1 DEF WriteInv, WriteInvOf, CarriesFirst
    <3>3. CASE /\ ops[c] = 0 /\ ops' = [ops EXCEPT ![c] = @ + 1]
               /\ writes' = [writes EXCEPT ![c] = Started(q, @)]
      <4>1. writes[c] = <<>> /\ Len(writes[c]) = 0
        BY <2>1, <3>3, EmptySeq DEF WriteInv, WriteInvOf
      <4>2. writes'[c] = Started(q, writes[c]) /\ ops'[c] = 1
        BY <3>3 DEF TypeOK
      <4>3. Len(writes'[c]) = 1 /\ CarriesFirst(q, writes'[c][1])
        <5> HIDE DEF CarriesFirst
        <5>1. q[1].rd <= Units(q[1].msg)
          BY <2>5, <2>6
        <5>2. /\ Len(Started(q, writes[c])) = Len(writes[c]) + 1
              /\ CarriesFirst(q, Started(q, writes[c])[1])
          BY <2>1, <2>4, <2>6, <4>1, <5>1, StartedType, Zenon
        <5> QED
          BY <4>1, <4>2, <5>2
      <4> QED
        BY <2>5, <2>6, <3>1, <4>2, <4>3 DEF WriteInvOf, CarriesFirst
    <3> QED
      BY <2>3, <3>2, <3>3
  <2>8. ASSUME NEW d \in Conns, d # c PROVE WriteInvOf(d)'
    <3>1. /\ queue'[d] = queue[d] /\ writes'[d] = writes[d] /\ ops'[d] = ops[d]
          /\ meter'[d] = meter[d]
      <4>1. writes'[d] = writes[d] /\ ops'[d] = ops[d]
        <5>1. \/ /\ writes' = [writes EXCEPT ![c] = Started(q, @)]
                 /\ ops' = [ops EXCEPT ![c] = @ + 1]
              \/ writes' = writes /\ ops' = ops
          BY <2>3
        <5> QED
          BY <2>8, <5>1, Zenon DEF TypeOK
      <4> QED
        BY <2>3, <2>8, <4>1
    <3> QED
      BY <3>1 DEF WriteInv, WriteInvOf, CarriesFirst
  <2> QED
    BY <2>7, <2>8 DEF WriteInv
<1>17. CASE UNCHANGED vars
  BY <1>17 DEF vars, TypeOK, WriteInv, WriteInvOf
<1> QED
  BY <1>1, <1>2, <1>3, <1>4, <1>5, <1>6, <1>7, <1>8, <1>9, <1>10, <1>11, <1>12, <1>13, <1>14, <1>15, <1>16, <1>17
     DEF Next, Stopping, Handling

\* put() and handle_write never both leave a reply behind: with the write queue and
\* the states of stop(), an online connection with a reply has a write in progress.
LEMMA NoStalledStep ==
    TypeOK /\ StopInv /\ WriteInv /\ NoStalledReply /\ [Next]_vars => NoStalledReply'
<1> SUFFICES ASSUME TypeOK, StopInv, WriteInv, NoStalledReply, [Next]_vars
             PROVE  NoStalledReply'
  OBVIOUS
<1> USE DEF acceptVars, writeVars, StopStep
<1>1. CASE AcceptFails
  BY <1>1 DEF AcceptFails, TypeOK, StopInv, WriteInv, WriteInvOf, NoStalledReply
<1>2. CASE AcceptThrows
  BY <1>2 DEF AcceptThrows, TypeOK, StopInv, WriteInv, WriteInvOf, NoStalledReply
<1>3. ASSUME NEW c \in Conns, Accept(c) PROVE NoStalledReply'
  BY <1>3 DEF Accept, TypeOK, StopInv, WriteInv, WriteInvOf, NoStalledReply
<1>4. ASSUME NEW c \in Conns, StopAgain(c) PROVE NoStalledReply'
  BY <1>4 DEF StopAgain, TypeOK, StopInv, WriteInv, WriteInvOf, NoStalledReply
<1>5. ASSUME NEW c \in Conns, CloseSocket(c) PROVE NoStalledReply'
  BY <1>5 DEF CloseSocket, TypeOK, StopInv, WriteInv, WriteInvOf, NoStalledReply
<1>6. ASSUME NEW c \in Conns, GoOffline(c) PROVE NoStalledReply'
  BY <1>6 DEF GoOffline, TypeOK, StopInv, WriteInv, WriteInvOf, NoStalledReply
<1>7. ASSUME NEW c \in Conns, FindHandler(c) PROVE NoStalledReply'
  BY <1>7 DEF FindHandler, TypeOK, StopInv, WriteInv, WriteInvOf, NoStalledReply
<1>8. ASSUME NEW c \in Conns, RemoveHandler(c) PROVE NoStalledReply'
  BY <1>8 DEF RemoveHandler, TypeOK, StopInv, WriteInv, WriteInvOf, NoStalledReply
<1>9. ASSUME NEW c \in Conns, MarkRemoved(c) PROVE NoStalledReply'
  <2>1. at[c] = "mark" /\ chs' = chs /\ queue' = queue /\ ops' = ops
    BY <1>9 DEF MarkRemoved
  <2>2. chs'[c] # "online" /\ \A d \in Conns : d # c => at'[d] = at[d]
    BY <1>9, <2>1 DEF MarkRemoved, TypeOK, StopInv
  <2> QED
    BY <2>1, <2>2 DEF NoStalledReply
<1>10. ASSUME NEW c \in Conns, HandleRead(c) PROVE NoStalledReply'
  <2>1. /\ at[c] = "idle" /\ reading[c] = "data" /\ ~removed[c]
        /\ chs' = [chs EXCEPT ![c] = "online"]
        /\ at' = at /\ queue' = queue /\ ops' = ops
    BY <1>10 DEF HandleRead, Readable
  <2>2. \A d \in Conns : d # c => chs'[d] = chs[d]
    BY <2>1 DEF TypeOK
  <2>3. chs[c] \in {"idle", "online"}
    BY <2>1 DEF TypeOK, StopInv
  <2>4. chs[c] = "idle" => queue[c] = <<>>
    BY DEF StopInv, WriteInv, WriteInvOf
  <2>5. chs[c] = "online" /\ queue[c] # <<>> => ops[c] = 1
    BY <2>1 DEF NoStalledReply
  <2> QED
    BY <2>1, <2>2, <2>3, <2>4, <2>5 DEF NoStalledReply
<1>11. ASSUME NEW c \in Conns, HandleReadEnd(c) PROVE NoStalledReply'
  BY <1>11 DEF HandleReadEnd, Readable, TypeOK, StopInv, WriteInv, WriteInvOf, NoStalledReply
<1>12. ASSUME NEW c \in Conns, HandleWrite(c) PROVE NoStalledReply'
  <2> DEFINE q == Advanced(queue[c], Head(writes[c]))
  <2>1. /\ writes[c] # <<>> /\ writes[c] \in Seq(Write)
        /\ ops[c] = Len(writes[c]) /\ ops[c] <= 1
    BY <1>12 DEF HandleWrite, TypeOK, WriteInv, WriteInvOf
  <2>2. ops[c] = 1
    <3>1. Len(writes[c]) = 1
      BY <2>1, OneElement, Zenon
    <3> QED
      BY <2>1, <3>1
  <2>3. /\ chs' = chs /\ at' = at /\ queue' = [queue EXCEPT ![c] = q]
        /\ \/ ops' = ops
           \/ q = <<>> /\ ops' = [ops EXCEPT ![c] = @ - 1]
    BY <1>12, <2>2 DEF HandleWrite, StartNext
  <2> HIDE DEF q
  <2>4. queue'[c] = q /\ \A d \in Conns : d # c => queue'[d] = queue[d]
    BY <2>3 DEF TypeOK
  <2>5. CASE ops' = ops
    BY <2>2, <2>3, <2>4, <2>5 DEF NoStalledReply
  <2>6. CASE q = <<>> /\ ops' = [ops EXCEPT ![c] = @ - 1]
    <3>1. \A d \in Conns : d # c => ops'[d] = ops[d]
      BY <2>6 DEF TypeOK
    <3> QED
      BY <2>3, <2>4, <2>6, <3>1 DEF NoStalledReply
  <2> QED
    BY <2>3, <2>5, <2>6
<1>13. ASSUME NEW c \in Conns, HandleWriteEnd(c) PROVE NoStalledReply'
  <2>1. /\ at' = [at EXCEPT ![c] = "stop"] /\ chs' = chs /\ queue' = queue
        /\ ops' = [ops EXCEPT ![c] = @ - 1]
    BY <1>13 DEF HandleWriteEnd
  <2>2. at'[c] = "stop" /\ \A d \in Conns : d # c => at'[d] = at[d] /\ ops'[d] = ops[d]
    BY <2>1 DEF TypeOK
  <2> QED
    BY <2>1, <2>2 DEF NoStalledReply
<1>14. ASSUME NEW c \in Conns, ReadCompletes(c) PROVE NoStalledReply'
  BY <1>14 DEF ReadCompletes, NoStalledReply
<1>15. ASSUME NEW c \in Conns, WriteCompletes(c) PROVE NoStalledReply'
  <2>1. chs' = chs /\ at' = at /\ queue' = queue /\ ops' = ops
    BY <1>15 DEF WriteCompletes
  <2> QED
    BY <2>1 DEF NoStalledReply
<1>16. ASSUME NEW c \in Conns, NEW m \in Replies, Put(c, m) PROVE NoStalledReply'
  <2>1. /\ chs' = chs /\ at' = at
        /\ \A d \in Conns : d # c => queue'[d] = queue[d]
        /\ \/ ops[c] = 0 /\ ops' = [ops EXCEPT ![c] = @ + 1]
           \/ (ops[c] # 0 \/ chs[c] # "online") /\ ops' = ops
    BY <1>16 DEF Put, MayStartInPut, TypeOK
  <2>2. ops[c] \in {0, 1}
    BY DEF TypeOK, WriteInv, WriteInvOf
  <2>3. chs[c] = "online" => ops'[c] = 1
    <3>1. CASE ops[c] = 0 /\ ops' = [ops EXCEPT ![c] = @ + 1]
      BY <3>1 DEF TypeOK
    <3>2. CASE (ops[c] # 0 \/ chs[c] # "online") /\ ops' = ops
      BY <2>2, <3>2
    <3> QED
      BY <2>1, <3>1, <3>2
  <2>4. \A d \in Conns : d # c => ops'[d] = ops[d]
    <3>1. ops' = [ops EXCEPT ![c] = @ + 1] \/ ops' = ops
      BY <2>1
    <3> QED
      BY <3>1 DEF TypeOK
  <2> QED
    BY <2>1, <2>3, <2>4 DEF NoStalledReply
<1>17. CASE UNCHANGED vars
  BY <1>17 DEF vars, NoStalledReply
<1> QED
  BY <1>1, <1>2, <1>3, <1>4, <1>5, <1>6, <1>7, <1>8, <1>9, <1>10, <1>11, <1>12, <1>13, <1>14, <1>15, <1>16, <1>17
     DEF Next, Stopping, Handling

-----------------------------------------------------------------------------
(* The stream: counting the replies with units.                            *)

LEMMA DivisionOf ==
    ASSUME NEW p \in Nat \ {0}, NEW m \in Nat, NEW r \in 0..(p - 1)
    PROVE  (p * m + r) \div p = m /\ (p * m + r) % p = r
<1> DEFINE t == p * m + r
           k == t \div p
           q == t % p
<1>1. t \in Nat
  OBVIOUS
<1> HIDE DEF t
<1>2. k \in Nat /\ q \in 0..(p - 1) /\ t = p * k + q
  BY <1>1
<1> HIDE DEF k, q
<1>3. \A a, b \in Int : a < b => p * a + p <= p * b
  OBVIOUS
<1>4. ~(k < m)
  <2>1. k < m => p * k + p <= p * m
    BY <1>2, <1>3
  <2>2. t = p * m + r
    BY DEF t
  <2> QED
    BY <1>2, <2>1, <2>2
<1>5. ~(m < k)
  <2>1. m < k => p * m + p <= p * k
    BY <1>2, <1>3
  <2>2. t = p * m + r
    BY DEF t
  <2> QED
    BY <1>2, <2>1, <2>2
<1>6. k = m
  BY <1>2, <1>4, <1>5
<1>7. q = r
  BY <1>2, <1>6 DEF t
<1> QED
  BY <1>6, <1>7 DEF t, k, q

-----------------------------------------------------------------------------
(* The invariant.                                                          *)

\* How many of the first n replies have units, and what unit k of their stream may be.
Whole(p, n) == Cardinality({j \in 1..n : p[j] \notin Empty})
IsUnit(p, k, u) ==
    \E i \in 1..Len(p) :
        /\ p[i] \notin Empty
        /\ Whole(p, i - 1) = (k - 1) \div BlockLen
        /\ u = <<p[i], ((k - 1) % BlockLen) + 1>>

\* The queue holds the last replies, only the first of them in part.
Follows(p, q) ==
    /\ Len(q) <= Len(p)
    /\ \A i \in 1..Len(q) :
          /\ q[i].msg = p[Len(p) - Len(q) + i]
          /\ i > 1 => q[i].rd = 0

UnitsInOrder(p, w) ==
    \A k \in 1..Len(w) : IsUnit(p, k, w[k]) \/ (~CopiedAtCall /\ w[k] = Garbage)

\* What the transport took and handle_write does not know of yet.
TakenBy(ws) == IF ws # <<>> /\ ws[1].result \in 0..BlockLen THEN ws[1].result ELSE 0

\* How far the wire is: it has the replies before the queue, what rd_ptr_ says of the
\* first in it, and what was taken since.  Only the result of a write that a stopped
\* connection handles is lost, and nothing is written after it.
WireLength(p, q, ws, length, gone) ==
    /\ q = <<>> => length = BlockLen * Whole(p, Len(p))
    /\ q # <<>> /\ (ws # <<>> \/ ~gone) =>
          length = BlockLen * Whole(p, Len(p) - Len(q)) + q[1].rd + TakenBy(ws)

StreamInvOf(p, q, ws, w, gone) ==
    Follows(p, q) /\ UnitsInOrder(p, w) /\ WireLength(p, q, ws, Len(w), gone)

StreamInv ==
    \A c \in Conns : StreamInvOf(put[c], queue[c], writes[c], wire[c], removed[c])

-----------------------------------------------------------------------------
(* Lemmas about the stream.                                                *)

LEMMA WholeType ==
    ASSUME NEW p, NEW n \in Nat
    PROVE  /\ IsFiniteSet({j \in 1..n : p[j] \notin Empty})
           /\ Whole(p, n) \in Nat
<1> DEFINE S == {j \in 1..n : p[j] \notin Empty}
<1>1. IsFiniteSet(1..n)
  BY FS_Interval
<1>2. IsFiniteSet(S)
  BY <1>1, FS_Subset
<1> QED
  BY <1>2, FS_CardinalityType DEF Whole

LEMMA BaseType ==
    ASSUME NEW p, NEW n \in Nat
    PROVE  BlockLen * Whole(p, n) \in Nat
<1>1. \A x \in Nat : BlockLen * x \in Nat
  OBVIOUS
<1> QED
  BY <1>1, WholeType

\* One reply more.
LEMMA WholeNext ==
    ASSUME NEW p, NEW n \in Nat
    PROVE  BlockLen * Whole(p, n + 1) = BlockLen * Whole(p, n) + Units(p[n + 1])
<1> DEFINE S == {j \in 1..n : p[j] \notin Empty}
           T == {j \in 1..(n + 1) : p[j] \notin Empty}
<1>0. IsFiniteSet(S) /\ Whole(p, n) = Cardinality(S) /\ Whole(p, n + 1) = Cardinality(T)
      /\ Whole(p, n) \in Nat
  BY WholeType DEF Whole
<1>1. CASE p[n + 1] \in Empty
  <2>1. T = S
    BY <1>1
  <2> HIDE DEF S, T
  <2>2. Whole(p, n + 1) = Whole(p, n) /\ Units(p[n + 1]) = 0
    BY <1>0, <1>1, <2>1 DEF Units
  <2>3. BlockLen * Whole(p, n) = BlockLen * Whole(p, n) + 0
    BY <1>0
  <2> QED
    BY <2>2, <2>3, Zenon
<1>2. CASE p[n + 1] \notin Empty
  <2>1. T = S \cup {n + 1} /\ n + 1 \notin S
    BY <1>2
  <2> HIDE DEF S, T
  <2>2. Cardinality(T) = Cardinality(S) + 1
    BY <1>0, <2>1, FS_AddElement
  <2>3. BlockLen * (Whole(p, n) + 1) = BlockLen * Whole(p, n) + BlockLen
    BY <1>0
  <2>4. Whole(p, n + 1) = Whole(p, n) + 1
    BY <1>0, <2>2
  <2>5. Units(p[n + 1]) = BlockLen
    BY <1>2 DEF Units
  <2> QED
    BY <2>3, <2>4, <2>5, Zenon
<1> QED
  BY <1>1, <1>2

\* A reply that is put does not change what was before it.
LEMMA WholeAppend ==
    ASSUME NEW p \in Seq(Replies), NEW m \in Replies, NEW n \in 0..Len(p)
    PROVE  Whole(Append(p, m), n) = Whole(p, n)
<1>1. \A j \in 1..n : Append(p, m)[j] = p[j]
  OBVIOUS
<1>2. {j \in 1..n : Append(p, m)[j] \notin Empty} = {j \in 1..n : p[j] \notin Empty}
  BY <1>1
<1> QED
  BY <1>2 DEF Whole

LEMMA IsUnitAppend ==
    ASSUME NEW p \in Seq(Replies), NEW m \in Replies, NEW k, NEW u, IsUnit(p, k, u)
    PROVE  IsUnit(Append(p, m), k, u)
<1>1. PICK i \in 1..Len(p) :
         /\ p[i] \notin Empty
         /\ Whole(p, i - 1) = (k - 1) \div BlockLen
         /\ u = <<p[i], ((k - 1) % BlockLen) + 1>>
  BY DEF IsUnit
<1>2. i \in 1..Len(Append(p, m)) /\ Append(p, m)[i] = p[i] /\ i - 1 \in 0..Len(p)
  OBVIOUS
<1>3. Whole(Append(p, m), i - 1) = Whole(p, i - 1)
  BY <1>2, WholeAppend
<1> QED
  BY <1>1, <1>2, <1>3 DEF IsUnit

\* What a write of the first block in the queue carries.
LEMMA NextUnit ==
    ASSUME NEW p \in Seq(Replies), NEW n \in Nat, n < Len(p), p[n + 1] \notin Empty,
           NEW r \in 0..(BlockLen - 1)
    PROVE  IsUnit(p, BlockLen * Whole(p, n) + r + 1, <<p[n + 1], r + 1>>)
<1> DEFINE k == BlockLen * Whole(p, n) + r + 1
<1>1. Whole(p, n) \in Nat
  BY WholeType
<1>2. k - 1 = BlockLen * Whole(p, n) + r
  BY <1>1
<1>3. (k - 1) \div BlockLen = Whole(p, n) /\ (k - 1) % BlockLen = r
  <2>1. /\ (BlockLen * Whole(p, n) + r) \div BlockLen = Whole(p, n)
        /\ (BlockLen * Whole(p, n) + r) % BlockLen = r
    BY <1>1, DivisionOf
  <2> HIDE DEF k
  <2> QED
    BY <1>2, <2>1
<1>4. n + 1 \in 1..Len(p) /\ (n + 1) - 1 = n
  OBVIOUS
<1> HIDE DEF k
<1>5. IsUnit(p, k, <<p[n + 1], r + 1>>)
  BY <1>3, <1>4 DEF IsUnit
<1> QED
  BY <1>5 DEF k

LEMMA FollowsFrom ==
    ASSUME NEW p, NEW q, NEW n, Len(q) <= Len(p), Len(p) - Len(q) = n,
           \A i \in 1..Len(q) : q[i].msg = p[n + i] /\ (i > 1 => q[i].rd = 0)
    PROVE  Follows(p, q)
BY DEF Follows

\* The definitions of the property are those of the invariant.
LEMMA StreamIsWire == TypeOK /\ StreamInv => WireIsTheStream
<1> SUFFICES ASSUME TypeOK, NEW c \in Conns,
                    StreamInvOf(put[c], queue[c], writes[c], wire[c], removed[c])
             PROVE  /\ queue[c] = <<>> => Len(wire[c]) = BlockLen * Cardinality(Sent(c))
                    /\ \A k \in 1..Len(wire[c]) :
                          \/ IsStreamUnit(c, k, wire[c][k])
                          \/ ~CopiedAtCall /\ wire[c][k] = Garbage
  BY DEF StreamInv, WireIsTheStream
<1>0. put[c] \in Seq(Replies)
  BY DEF TypeOK
<1>1. Cardinality(Sent(c)) = Whole(put[c], Len(put[c]))
  BY DEF Whole, Sent
<1>2. ASSUME NEW k, NEW u, IsUnit(put[c], k, u) PROVE IsStreamUnit(c, k, u)
  <2>1. PICK i \in 1..Len(put[c]) :
           /\ put[c][i] \notin Empty
           /\ Whole(put[c], i - 1) = (k - 1) \div BlockLen
           /\ u = <<put[c][i], ((k - 1) % BlockLen) + 1>>
    BY <1>2 DEF IsUnit
  <2>2. {j \in Sent(c) : j < i} = {j \in 1..(i - 1) : put[c][j] \notin Empty}
    BY <1>0 DEF Sent
  <2>3. i \in Sent(c) /\ Cardinality({j \in Sent(c) : j < i}) = (k - 1) \div BlockLen
    BY <2>1, <2>2 DEF Sent, Whole
  <2> QED
    BY <2>1, <2>3 DEF IsStreamUnit
<1> QED
  BY <1>1, <1>2 DEF StreamInvOf, WireLength, UnitsInOrder

-----------------------------------------------------------------------------
(* The steps of the stream.                                                *)

\* A write that has just been started has taken nothing.
LEMMA StartedTakesNothing ==
    ASSUME NEW q
    PROVE  Started(q, <<>>) # <<>> /\ TakenBy(Started(q, <<>>)) = 0
<1> DEFINE x == [msg |-> Head(q).msg, rd |-> Head(q).rd,
                 len |-> Units(Head(q).msg) - Head(q).rd, result |-> Pending]
<1>1. Started(q, <<>>) = <<x>> /\ x.result = Pending
  BY DEF Started
<1> HIDE DEF x
<1>2. <<x>> # <<>> /\ <<x>>[1] = x
  OBVIOUS
<1>3. Pending \notin 0..BlockLen
  BY DEF Pending
<1> QED
  BY <1>1, <1>2, <1>3 DEF TakenBy

\* put(): a reply more at the end of the queue, and a write perhaps.
LEMMA PutStream ==
    ASSUME NEW p \in Seq(Replies), NEW q \in Seq(Block), NEW ws, NEW w \in Seq({Garbage} \cup (Replies \X (1..BlockLen))),
           NEW gone, NEW m \in Replies, NEW ws2,
           StreamInvOf(p, q, ws, w, gone),
           ws # <<>> => q # <<>>,
           ws2 = ws \/ (ws = <<>> /\ ~gone /\ ws2 # <<>> /\ TakenBy(ws2) = 0)
    PROVE  StreamInvOf(Append(p, m), Append(q, [msg |-> m, rd |-> 0]), ws2, w, gone)
<1> DEFINE b == [msg |-> m, rd |-> 0]
           pp == Append(p, m)
           qq == Append(q, b)
           n == Len(p) - Len(q)
<1>0. b \in Block /\ b.msg = m /\ b.rd = 0
  BY DEF Block
<1> HIDE DEF b
<1>1. /\ Len(p) \in Nat /\ Len(q) \in Nat /\ Len(q) <= Len(p) /\ n \in 0..Len(p)
      /\ \A i \in 1..Len(q) : q[i].msg = p[n + i] /\ (i > 1 => q[i].rd = 0)
  BY DEF StreamInvOf, Follows
<1>2. /\ Len(pp) = Len(p) + 1 /\ pp[Len(p) + 1] = m
      /\ \A i \in 1..Len(p) : pp[i] = p[i]
      /\ Len(qq) = Len(q) + 1 /\ qq[Len(q) + 1] = b
      /\ \A i \in 1..Len(q) : qq[i] = q[i]
  BY <1>0
<1> HIDE DEF pp, qq, n
<1>3. Len(pp) - Len(qq) = n
  BY <1>1, <1>2 DEF n
<1>4. Follows(pp, qq)
  <2>1. ASSUME NEW i \in 1..Len(qq)
        PROVE  qq[i].msg = pp[n + i] /\ (i > 1 => qq[i].rd = 0)
    <3>1. CASE i \in 1..Len(q)
      <4>1. n + i \in 1..Len(p)
        BY <1>1, <3>1 DEF n
      <4> QED
        BY <1>1, <1>2, <3>1, <4>1
    <3>2. CASE i = Len(q) + 1
      <4>1. n + i = Len(p) + 1
        BY <1>1, <3>2 DEF n
      <4> QED
        BY <1>0, <1>2, <3>2, <4>1
    <3> QED
      BY <1>1, <1>2, <3>1, <3>2
  <2>2. Len(qq) <= Len(pp)
    BY <1>1, <1>2
  <2> QED
    BY <1>3, <2>1, <2>2, FollowsFrom, Zenon
<1>5. UnitsInOrder(pp, w)
  BY IsUnitAppend DEF StreamInvOf, UnitsInOrder, pp
<1>6. WireLength(pp, qq, ws2, Len(w), gone)
  <2>1. Whole(pp, n) = Whole(p, n)
    BY <1>1, WholeAppend DEF pp
  <2>2. qq # <<>>
    BY <1>1, <1>2
  <2>3. ASSUME ws2 # <<>> \/ ~gone
        PROVE  Len(w) = BlockLen * Whole(p, n) + qq[1].rd + TakenBy(ws2)
    <3>1. CASE q = <<>>
      <4>1. qq[1].rd = 0 /\ n = Len(p)
        BY <1>0, <1>2, <3>1 DEF n
      <4>2. TakenBy(ws2) = 0
        BY <3>1 DEF TakenBy
      <4>3. Len(w) = BlockLen * Whole(p, n) /\ Len(w) \in Nat
        BY <3>1, <4>1 DEF StreamInvOf, WireLength
      <4> QED
        BY <4>1, <4>2, <4>3
    <3>2. CASE q # <<>>
      <4>1. qq[1] = q[1]
        BY <1>2, <3>2, EmptySeq
      <4>2. ws # <<>> \/ ~gone
        BY <2>3
      <4>3. TakenBy(ws2) = TakenBy(ws)
        BY DEF TakenBy
      <4> QED
        BY <3>2, <4>1, <4>2, <4>3 DEF StreamInvOf, WireLength, n
    <3> QED
      BY <3>1, <3>2
  <2> QED
    BY <1>3, <2>1, <2>2, <2>3 DEF WireLength
<1> QED
  BY <1>4, <1>5, <1>6 DEF StreamInvOf, pp, qq, b

\* The transport takes units of the first block in the queue.
LEMMA TakeStream ==
    ASSUME NEW p \in Seq(Replies), NEW q \in Seq(Block), NEW ws,
           NEW w \in Seq({Garbage} \cup (Replies \X (1..BlockLen))), NEW gone,
           StreamInvOf(p, q, ws, w, gone),
           ws # <<>>, q # <<>>, CarriesFirst(q, ws[1]), ws[1].result = Pending,
           q[1].rd <= Units(q[1].msg),
           NEW n \in 0..ws[1].len, NEW u \in [1..n -> {Garbage} \cup (Replies \X (1..BlockLen))],
           \A k \in 1..n : u[k] \in OnTheWire(ws[1].msg, ws[1].rd + k),
           NEW ws2, ws2 # <<>>, ws2[1].result = n
    PROVE  StreamInvOf(p, q, ws2, w \o u, gone)
<1> DEFINE before == Len(p) - Len(q)
           Unit == {Garbage} \cup (Replies \X (1..BlockLen))
           base == BlockLen * Whole(p, before)
<1>1. /\ Len(p) \in Nat /\ Len(q) \in Nat \ {0} /\ Len(q) <= Len(p)
      /\ before \in Nat /\ before < Len(p) /\ q[1] \in Block
  <2>1. Len(q) \in Nat \ {0}
    BY EmptySeq
  <2>2. q[1] \in Block
    BY <2>1, ElementOfSeq
  <2> QED
    BY <2>1, <2>2 DEF StreamInvOf, Follows
<1> HIDE DEF before
<1>2. q[1].msg = p[before + 1]
  BY <1>1 DEF StreamInvOf, Follows, before
<1>3. /\ ws[1].msg = p[before + 1] /\ ws[1].rd = q[1].rd
      /\ ws[1].len = Units(p[before + 1]) - q[1].rd
      /\ q[1].rd \in 0..(BlockLen - 1) /\ Units(p[before + 1]) \in {0, BlockLen}
      /\ q[1].rd <= Units(p[before + 1])
  BY <1>1, <1>2 DEF CarriesFirst, Block, Units
<1>4. n \in 0..BlockLen /\ q[1].rd + n <= BlockLen
      /\ (n # 0 => p[before + 1] \notin Empty)
  BY <1>3 DEF Units
<1>5. base \in Nat
  BY <1>1, BaseType
<1> HIDE DEF base
<1>6. Len(w) = base + q[1].rd
  <2>1. Len(w) = base + q[1].rd + TakenBy(ws)
    BY DEF StreamInvOf, WireLength, before, base
  <2>2. TakenBy(ws) = 0
    BY DEF TakenBy, Pending
  <2> QED
    BY <1>3, <1>5, <2>1, <2>2
<1>7. u \in Seq(Unit) /\ Len(u) = n
  BY <1>4, SeqDef
<1>8. /\ Len(w \o u) = Len(w) + n
      /\ \A k \in 1..(Len(w) + n) : (w \o u)[k] = IF k <= Len(w) THEN w[k] ELSE u[k - Len(w)]
  <2>1. w \in Seq(Unit) /\ Len(w) \in Nat
    OBVIOUS
  <2> HIDE DEF Unit
  <2>2. /\ Len(w \o u) = Len(w) + Len(u)
        /\ \A k \in 1..(Len(w) + Len(u)) :
              (w \o u)[k] = IF k <= Len(w) THEN w[k] ELSE u[k - Len(w)]
    BY <1>7, <2>1, ConcatProperties
  <2> QED
    BY <1>7, <2>2
<1>9. UnitsInOrder(p, w \o u)
  <2> SUFFICES ASSUME NEW k \in 1..(Len(w) + n)
               PROVE  \/ IsUnit(p, k, (w \o u)[k])
                      \/ ~CopiedAtCall /\ (w \o u)[k] = Garbage
    BY <1>8 DEF UnitsInOrder
  <2>0. Len(w) \in Nat /\ n \in Nat /\ k \in Nat \ {0} /\ k <= Len(w) + n
    BY <1>3, <1>4, <1>5, <1>6
  <2>1. CASE k <= Len(w)
    <3>1. (w \o u)[k] = w[k] /\ k \in 1..Len(w)
      BY <1>8, <2>0, <2>1
    <3>2. IsUnit(p, k, w[k]) \/ (~CopiedAtCall /\ w[k] = Garbage)
      BY <3>1 DEF StreamInvOf, UnitsInOrder
    <3> QED
      BY <3>1, <3>2, Zenon
  <2>2. CASE k > Len(w)
    <3> DEFINE x == k - Len(w)
    <3>1. x \in 1..n /\ (w \o u)[k] = u[x]
      BY <1>8, <2>0, <2>2
    <3>2. k = base + q[1].rd + x
      BY <1>3, <1>5, <1>6, <2>0
    <3> HIDE DEF x
    <3>3. IsUnit(p, k, <<p[before + 1], q[1].rd + x>>)
      <4> DEFINE d == q[1].rd
                 r == d + x - 1
      <4>0. /\ d \in 0..(BlockLen - 1) /\ n \in 0..BlockLen /\ d + n <= BlockLen
            /\ x \in 1..n /\ k = base + d + x
            /\ p[before + 1] \notin Empty
        BY <1>3, <1>4, <3>1, <3>2
      <4> HIDE DEF d
      <4>1. r \in 0..(BlockLen - 1) /\ r + 1 = d + x
        <5>1. d \in Int /\ x \in Int /\ d >= 0 /\ x >= 1 /\ x <= n /\ n \in Int
          BY <4>0
        <5>2. d + x <= BlockLen /\ BlockLen \in Int
          BY <4>0, <5>1
        <5> QED
          BY <5>1, <5>2, SMTT(30)
      <4>2. k = base + r + 1
        BY <1>5, <4>0
      <4> HIDE DEF r
      <4>3. IsUnit(p, BlockLen * Whole(p, before) + r + 1, <<p[before + 1], r + 1>>)
        BY <1>1, <4>0, <4>1, NextUnit
      <4> QED
        BY <4>1, <4>2, <4>3 DEF base, d
    <3>4. u[x] \in OnTheWire(p[before + 1], q[1].rd + x)
      BY <1>3, <3>1
    <3> QED
      BY <3>1, <3>3, <3>4 DEF OnTheWire
  <2> QED
    BY <2>0, <2>1, <2>2
<1>10. WireLength(p, q, ws2, Len(w \o u), gone)
  <2>1. TakenBy(ws2) = n
    BY <1>4 DEF TakenBy
  <2>2. Len(w \o u) = base + q[1].rd + n
    BY <1>6, <1>8
  <2> QED
    BY <2>1, <2>2 DEF WireLength, base, before
<1> QED
  BY <1>9, <1>10 DEF StreamInvOf

\* handle_write: the block that is done leaves the queue, or rd_ptr_ moves on.
LEMMA AdvanceStream ==
    ASSUME NEW p \in Seq(Replies), NEW q \in Seq(Block), NEW ws, NEW w \in Seq({Garbage} \cup (Replies \X (1..BlockLen))),
           StreamInvOf(p, q, ws, w, FALSE),
           ws # <<>>, q # <<>>, CarriesFirst(q, ws[1]), ws[1].result \in 0..BlockLen,
           \A i \in 1..Len(q) : q[i].rd <= Units(q[i].msg),
           NEW ws2, TakenBy(ws2) = 0
    PROVE  StreamInvOf(p, Advanced(q, ws[1]), ws2, w, FALSE)
<1> DEFINE n == Len(p) - Len(q)
           qq == Advanced(q, ws[1])
           got == ws[1].result
<1>1. /\ Len(p) \in Nat /\ Len(q) \in Nat \ {0} /\ Len(q) <= Len(p)
      /\ n \in Nat /\ n < Len(p) /\ q[1] \in Block
      /\ \A i \in 1..Len(q) : q[i].msg = p[n + i] /\ (i > 1 => q[i].rd = 0)
  <2>1. Len(q) \in Nat \ {0}
    BY EmptySeq
  <2>2. q[1] \in Block
    BY <2>1, ElementOfSeq
  <2> QED
    BY <2>1, <2>2 DEF StreamInvOf, Follows
<1>2. Len(w) = BlockLen * Whole(p, n) + q[1].rd + got
  BY DEF StreamInvOf, WireLength, TakenBy
<1> HIDE DEF n
<1>3. /\ q[1].msg = p[n + 1] /\ q[1].rd \in 0..(BlockLen - 1)
      /\ ws[1].len = Units(p[n + 1]) - q[1].rd
      /\ Units(p[n + 1]) \in {0, BlockLen}
  BY <1>1 DEF Block, CarriesFirst, Units
<1>4. BlockLen * Whole(p, n) \in Nat
  BY <1>1, BaseType
<1>5. UnitsInOrder(p, w)
  BY DEF StreamInvOf
<1>6. CASE got = ws[1].len
  <2>1. /\ qq \in Seq(Block) /\ Len(qq) = Len(q) - 1
        /\ \A i \in 1..Len(qq) : qq[i] = q[i + 1]
    BY <1>6, HeadTailProperties DEF Advanced
  <2> HIDE DEF qq
  <2>2. Len(p) - Len(qq) = n + 1
    BY <1>1, <2>1 DEF n
  <2>3. Follows(p, qq)
    <3>1. ASSUME NEW i \in 1..Len(qq)
          PROVE  qq[i].msg = p[n + 1 + i] /\ qq[i].rd = 0
      <4>1. i + 1 \in 1..Len(q) /\ i + 1 > 1
        BY <1>1, <2>1
      <4>2. q[i + 1].msg = p[n + (i + 1)] /\ q[i + 1].rd = 0
        BY <1>1, <4>1
      <4>3. n + (i + 1) = n + 1 + i
        BY <1>1, <4>1
      <4> QED
        BY <2>1, <4>2, <4>3
    <3>2. Len(qq) <= Len(p)
      BY <1>1, <2>1
    <3>3. \A i \in 1..Len(qq) : qq[i].msg = p[(n + 1) + i] /\ (i > 1 => qq[i].rd = 0)
      BY <3>1, Zenon
    <3> QED
      BY <2>2, <3>2, <3>3, FollowsFrom, Zenon
  <2>4. Len(w) = BlockLen * Whole(p, n + 1)
    <3>1. BlockLen * Whole(p, n + 1) = BlockLen * Whole(p, n) + Units(p[n + 1])
      BY <1>1, WholeNext
    <3> QED
      BY <1>2, <1>3, <1>4, <1>6, <3>1
  <2>5. qq = <<>> => n + 1 = Len(p)
    BY <1>1, <2>2
  <2>6. qq # <<>> => qq[1].rd = 0
    <3>1. qq # <<>> => 1 \in 1..Len(qq) /\ 1 + 1 \in 1..Len(q) /\ 1 + 1 > 1
      BY <1>1, <2>1, EmptySeq
    <3> QED
      BY <1>1, <2>1, <3>1
  <2>7. WireLength(p, qq, ws2, Len(w), FALSE)
    BY <2>2, <2>4, <2>5, <2>6 DEF WireLength
  <2> QED
    BY <1>5, <2>3, <2>7 DEF StreamInvOf, qq
<1>7. CASE got # ws[1].len
  <2> DEFINE b == [q[1] EXCEPT !.rd = @ + got]
  <2>1. b.msg = q[1].msg /\ b.rd = q[1].rd + got
    BY <1>1 DEF Block
  <2>2. qq = [q EXCEPT ![1] = b]
    BY <1>7 DEF Advanced
  <2> HIDE DEF b
  <2>3. /\ Len(qq) = Len(q) /\ qq[1] = b
        /\ \A i \in 1..Len(q) : i # 1 => qq[i] = q[i]
    BY <1>1, <2>2
  <2> HIDE DEF qq
  <2>4. Follows(p, qq)
    BY <1>1, <2>1, <2>3 DEF Follows, n
  <2>5. WireLength(p, qq, ws2, Len(w), FALSE)
    <3>1. qq # <<>>
      BY <1>1, <2>3
    <3>2. Len(w) = BlockLen * Whole(p, n) + qq[1].rd + 0
      BY <1>2, <1>3, <1>4, <2>1, <2>3, SMTT(30)
    <3> QED
      BY <2>3, <3>1, <3>2 DEF WireLength, n
  <2> QED
    BY <1>5, <2>4, <2>5 DEF StreamInvOf, qq
<1> QED
  BY <1>6, <1>7

\* A write that failed has taken nothing, and what another one took is forgotten only
\* when nothing more is written.
LEMMA LoseStream ==
    ASSUME NEW p, NEW q, NEW ws, NEW w, NEW gone, NEW ws2, NEW gone2,
           StreamInvOf(p, q, ws, w, gone),
           gone => gone2,
           \/ ws2 = ws
           \/ ws2 # <<>> /\ ws # <<>> /\ TakenBy(ws2) = TakenBy(ws)
           \/ ws2 = <<>> /\ (gone2 \/ (TakenBy(ws) = 0 /\ ws # <<>>))
    PROVE  StreamInvOf(p, q, ws2, w, gone2)
<1>1. TakenBy(<<>>) = 0
  BY DEF TakenBy
<1> QED
  BY <1>1 DEF StreamInvOf, WireLength

\* The initial states satisfy the invariant.
LEMMA InitStream == Init => StreamInv
<1>0. ASSUME Init, NEW c \in Conns
      PROVE  /\ put[c] = <<>> /\ queue[c] = <<>> /\ writes[c] = <<>> /\ wire[c] = <<>>
             /\ removed[c] = FALSE
  BY <1>0 DEF Init
<1>1. Whole(<<>>, 0) = 0
  <2>1. {j \in 1..0 : <<>>[j] \notin Empty} = {}
    OBVIOUS
  <2> QED
    BY <2>1, FS_EmptySet DEF Whole
<1>2. BlockLen * 0 = 0 /\ Len(<<>>) = 0
  OBVIOUS
<1>3. StreamInvOf(<<>>, <<>>, <<>>, <<>>, FALSE)
  BY <1>1, <1>2 DEF StreamInvOf, Follows, UnitsInOrder, WireLength
<1> QED
  BY <1>0, <1>3 DEF StreamInv

\* The connections that a step leaves alone.
StreamKept(d) ==
    /\ put'[d] = put[d] /\ queue'[d] = queue[d]
    /\ writes'[d] = writes[d] /\ wire'[d] = wire[d]
    /\ removed[d] => removed'[d]

LEMMA KeptStream ==
    ASSUME StreamInv, NEW d \in Conns, StreamKept(d) PROVE
    StreamInvOf(put'[d], queue'[d], writes'[d], wire'[d], removed'[d])
<1>1. StreamInvOf(put[d], queue[d], writes[d], wire[d], removed[d])
  BY DEF StreamInv
<1>2. StreamInvOf(put[d], queue[d], writes[d], wire[d], removed'[d])
  <2>1. removed[d] => removed'[d]
    BY DEF StreamKept
  <2> QED
    BY <1>1, <2>1, LoseStream
<1> QED
  BY <1>2, Zenon DEF StreamKept

LEMMA PutStreamStep ==
    ASSUME ChannelInv, StreamInv, NEW c \in Conns, NEW m \in Replies, Put(c, m)
    PROVE  StreamInv'
<1> DEFINE b == [msg |-> m, rd |-> 0]
           q == Append(queue[c], b)
<1>0. TypeOK /\ StopInv /\ WriteInv
  BY DEF ChannelInv
<1>1. /\ put' = [put EXCEPT ![c] = Append(put[c], m)] /\ queue' = [queue EXCEPT ![c] = q]
      /\ wire' = wire /\ removed' = removed
      /\ \/ writes' = writes
         \/ /\ ops[c] = 0 /\ chs[c] = "online"
            /\ writes' = [writes EXCEPT ![c] = Started(q, writes[c])]
  BY DEF Put, MayStartInPut
<1>2. /\ put[c] \in Seq(Replies) /\ queue[c] \in Seq(Block) /\ writes[c] \in Seq(Write)
      /\ wire[c] \in Seq({Garbage} \cup (Replies \X (1..BlockLen)))
      /\ ops[c] = Len(writes[c])
      /\ writes[c] # <<>> => queue[c] # <<>>
      /\ chs[c] = "online" => ~removed[c]
      /\ removed[c] \in BOOLEAN
  BY <1>0 DEF TypeOK, StopInv, WriteInv, WriteInvOf
<1> HIDE DEF q
<1>3. \/ writes'[c] = writes[c]
      \/ writes[c] = <<>> /\ ~removed[c] /\ writes'[c] # <<>> /\ TakenBy(writes'[c]) = 0
  <2>1. CASE writes' = writes
    BY <2>1
  <2>2. CASE /\ ops[c] = 0 /\ chs[c] = "online"
             /\ writes' = [writes EXCEPT ![c] = Started(q, writes[c])]
    <3>1. writes[c] = <<>>
      BY <1>2, <2>2, EmptySeq
    <3>2. writes'[c] = Started(q, <<>>)
      BY <1>0, <2>2, <3>1 DEF TypeOK
    <3> QED
      BY <1>2, <2>2, <3>1, <3>2, StartedTakesNothing, Zenon
  <2> QED
    BY <1>1, <2>1, <2>2
<1>4. put'[c] = Append(put[c], m) /\ queue'[c] = q /\ wire'[c] = wire[c] /\ removed'[c] = removed[c]
  BY <1>0, <1>1 DEF TypeOK
<1>5. StreamInvOf(put'[c], queue'[c], writes'[c], wire'[c], removed'[c])
  <2>1. StreamInvOf(put[c], queue[c], writes[c], wire[c], removed[c])
    BY DEF StreamInv
  <2>2. StreamInvOf(Append(put[c], m), Append(queue[c], [msg |-> m, rd |-> 0]),
                    writes'[c], wire[c], removed[c])
    BY <1>2, <1>3, <2>1, PutStream
  <2> QED
    BY <1>4, <2>2 DEF q
<1>6. ASSUME NEW d \in Conns, d # c PROVE StreamKept(d)
  BY <1>0, <1>1, <1>6 DEF StreamKept, TypeOK
<1> QED
  BY <1>5, <1>6, KeptStream, Zenon DEF StreamInv

LEMMA OnlyIndex ==
    ASSUME NEW ws \in Seq(Write), Len(ws) <= 1, NEW i \in 1..Len(ws)
    PROVE  i = 1 /\ ws # <<>> /\ Len(ws) = 1
<1>1. Len(ws) \in Nat
  BY LenProperties
<1> DEFINE n == Len(ws)
<1> HIDE DEF n
<1>2. n \in Nat /\ n <= 1 /\ i \in 1..n
  BY <1>1 DEF n
<1>3. i = 1 /\ n = 1
  BY <1>2
<1> QED
  BY <1>3, EmptySeq DEF n

LEMMA CompletesStreamStep ==
    ASSUME ChannelInv, StreamInv, NEW c \in Conns, WriteCompletes(c)
    PROVE  StreamInv'
<1> DEFINE Unit == {Garbage} \cup (Replies \X (1..BlockLen))
           w == writes[c][1]
           ws2 == writes'[c]
<1>0. TypeOK /\ WriteInv
  BY DEF ChannelInv
<1>1. /\ put[c] \in Seq(Replies) /\ queue[c] \in Seq(Block) /\ writes[c] \in Seq(Write)
      /\ wire[c] \in Seq(Unit) /\ Len(writes[c]) <= 1
      /\ writes[c] # <<>> => queue[c] # <<>> /\ CarriesFirst(queue[c], w)
      /\ \A i \in 1..Len(queue[c]) : queue[c][i].rd <= Units(queue[c][i].msg)
  BY <1>0 DEF TypeOK, WriteInv, WriteInvOf
<1>2. PICK i \in 1..Len(writes[c]) :
         /\ writes[c][i].result = Pending
         /\ \/ \E n \in (IF writes[c][i].len = 0 THEN {0} ELSE 1..writes[c][i].len) :
                  /\ writes' = [writes EXCEPT ![c][i].result = n]
                  /\ \E u \in [1..n -> Unit] :
                        /\ \A k \in 1..n :
                              u[k] \in OnTheWire(writes[c][i].msg, writes[c][i].rd + k)
                        /\ wire' = [wire EXCEPT ![c] = @ \o u]
            \/ /\ writes' = [writes EXCEPT ![c][i].result = Failed]
               /\ UNCHANGED wire
  BY DEF WriteCompletes
<1>3. i = 1 /\ writes[c] # <<>> /\ w \in Write /\ Len(writes[c]) = 1
  <2>1. i = 1 /\ writes[c] # <<>> /\ Len(writes[c]) = 1
    <3>1. i \in 1..Len(writes[c])
      BY <1>2
    <3> QED
      BY <1>1, <3>1, OnlyIndex, Zenon
  <2> QED
    BY <1>1, <2>1
<1>4. put' = put /\ queue' = queue /\ removed' = removed
  BY DEF WriteCompletes
<1>5. w.result = Pending /\ queue[c] # <<>> /\ CarriesFirst(queue[c], w)
      /\ w.len \in Nat /\ queue[c][1].rd <= Units(queue[c][1].msg)
  <2>1. queue[c] # <<>> /\ CarriesFirst(queue[c], w)
    BY <1>1, <1>3
  <2>2. 1 \in 1..Len(queue[c])
    BY <1>1, <2>1, EmptySeq
  <2>3. w.result = Pending /\ w.len \in Nat
    BY <1>2, <1>3 DEF Write
  <2> QED
    BY <1>1, <2>1, <2>2, <2>3
<1> HIDE DEF Unit
<1>6. StreamInvOf(put[c], queue[c], writes[c], wire[c], removed[c])
  BY DEF StreamInv
<1>7. CASE \E n \in (IF w.len = 0 THEN {0} ELSE 1..w.len) :
              /\ writes' = [writes EXCEPT ![c][1].result = n]
              /\ \E u \in [1..n -> Unit] :
                    /\ \A k \in 1..n : u[k] \in OnTheWire(w.msg, w.rd + k)
                    /\ wire' = [wire EXCEPT ![c] = @ \o u]
  <2>1. PICK n \in (IF w.len = 0 THEN {0} ELSE 1..w.len) :
               /\ writes' = [writes EXCEPT ![c][1].result = n]
               /\ \E u \in [1..n -> Unit] :
                     /\ \A k \in 1..n : u[k] \in OnTheWire(w.msg, w.rd + k)
                     /\ wire' = [wire EXCEPT ![c] = @ \o u]
    BY <1>7
  <2>2. PICK u \in [1..n -> Unit] :
               /\ \A k \in 1..n : u[k] \in OnTheWire(w.msg, w.rd + k)
               /\ wire' = [wire EXCEPT ![c] = wire[c] \o u]
    BY <2>1
  <2>3. n \in 0..w.len
    BY <1>5
  <2>4. ws2 # <<>> /\ ws2[1].result = n
    <3>1. ws2 = [writes[c] EXCEPT ![1].result = n]
      BY <1>0, <2>1 DEF TypeOK
    <3> QED
      BY <1>1, <1>3, <3>1 DEF Write
  <2>5. wire'[c] = wire[c] \o u
    BY <1>0, <2>2 DEF TypeOK
  <2>6. StreamInvOf(put[c], queue[c], ws2, wire[c] \o u, removed[c])
    <3> HIDE DEF ws2
    <3> QED
      BY <1>1, <1>3, <1>5, <1>6, <2>2, <2>3, <2>4, TakeStream DEF Unit
  <2>7. StreamInvOf(put'[c], queue'[c], writes'[c], wire'[c], removed'[c])
    BY <1>4, <2>5, <2>6
  <2>8. ASSUME NEW d \in Conns, d # c PROVE StreamKept(d)
    BY <1>0, <1>4, <2>1, <2>2, <2>8 DEF StreamKept, TypeOK
  <2> QED
    BY <2>7, <2>8, KeptStream, Zenon DEF StreamInv
<1>8. CASE writes' = [writes EXCEPT ![c][1].result = Failed] /\ UNCHANGED wire
  <2>1. ws2 # <<>> /\ ws2[1].result = Failed
    <3>1. ws2 = [writes[c] EXCEPT ![1].result = Failed]
      BY <1>0, <1>8 DEF TypeOK
    <3> QED
      BY <1>1, <1>3, <3>1 DEF Write
  <2>2. TakenBy(ws2) = 0 /\ TakenBy(writes[c]) = 0
    BY <1>5, <2>1 DEF TakenBy, Failed, Pending
  <2>3. StreamInvOf(put[c], queue[c], ws2, wire[c], removed[c])
    <3> HIDE DEF ws2
    <3> QED
      BY <1>3, <1>6, <2>1, <2>2, LoseStream
  <2>4. StreamInvOf(put'[c], queue'[c], writes'[c], wire'[c], removed'[c])
    BY <1>4, <1>8, <2>3
  <2>5. ASSUME NEW d \in Conns, d # c PROVE StreamKept(d)
    BY <1>0, <1>4, <1>8, <2>5 DEF StreamKept, TypeOK
  <2> QED
    BY <2>4, <2>5, KeptStream, Zenon DEF StreamInv
<1> QED
  BY <1>2, <1>3, <1>7, <1>8

LEMMA HandleStreamStep ==
    ASSUME ChannelInv, StreamInv, NEW c \in Conns, HandleWrite(c)
    PROVE  StreamInv'
<1> DEFINE q == Advanced(queue[c], writes[c][1])
           ws2 == writes'[c]
<1>0. TypeOK /\ WriteInv
  BY DEF ChannelInv
<1>1. /\ put[c] \in Seq(Replies) /\ queue[c] \in Seq(Block) /\ writes[c] \in Seq(Write)
      /\ wire[c] \in Seq({Garbage} \cup (Replies \X (1..BlockLen))) /\ Len(writes[c]) <= 1
      /\ writes[c] # <<>> => queue[c] # <<>> /\ CarriesFirst(queue[c], writes[c][1])
      /\ \A i \in 1..Len(queue[c]) : queue[c][i].rd <= Units(queue[c][i].msg)
  BY <1>0 DEF TypeOK, WriteInv, WriteInvOf
<1>2. writes[c] # <<>> /\ removed[c] = FALSE
  BY <1>0 DEF HandleWrite, TypeOK
<1>3. Head(writes[c]) = writes[c][1] /\ Tail(writes[c]) = <<>>
  BY <1>1, <1>2, OneElement, Zenon
<1>4. /\ put' = put /\ wire' = wire /\ removed' = removed
      /\ queue' = [queue EXCEPT ![c] = q] /\ writes[c][1].result \in 0..BlockLen
      /\ \/ writes' = [writes EXCEPT ![c] = Started(q, Tail(@))]
         \/ writes' = [writes EXCEPT ![c] = Tail(@)]
  BY <1>3 DEF HandleWrite, StartNext
<1> HIDE DEF q
<1>5. TakenBy(ws2) = 0
  <2>1. ws2 = Started(q, <<>>) \/ ws2 = <<>>
    BY <1>0, <1>3, <1>4 DEF TypeOK
  <2>2. TakenBy(<<>>) = 0
    BY DEF TakenBy
  <2> QED
    BY <2>1, <2>2, StartedTakesNothing, Zenon
<1>6. queue'[c] = q
  BY <1>0, <1>4 DEF TypeOK
<1>7. StreamInvOf(put[c], queue[c], writes[c], wire[c], FALSE)
  BY <1>2 DEF StreamInv
<1>8. StreamInvOf(put[c], q, ws2, wire[c], FALSE)
  <2> HIDE DEF ws2
  <2> QED
    BY <1>1, <1>2, <1>4, <1>5, <1>7, AdvanceStream DEF q
<1>9. StreamInvOf(put'[c], queue'[c], writes'[c], wire'[c], removed'[c])
  BY <1>2, <1>4, <1>6, <1>8
<1>10. ASSUME NEW d \in Conns, d # c PROVE StreamKept(d)
  <2>1. writes'[d] = writes[d]
    BY <1>0, <1>4, <1>10 DEF TypeOK
  <2> QED
    BY <1>0, <1>4, <1>10, <2>1 DEF StreamKept, TypeOK
<1> QED
  BY <1>9, <1>10, KeptStream, Zenon DEF StreamInv

LEMMA HandleEndStreamStep ==
    ASSUME ChannelInv, StreamInv, NEW c \in Conns, HandleWriteEnd(c)
    PROVE  StreamInv'
<1>0. TypeOK /\ WriteInv
  BY DEF ChannelInv
<1>1. writes[c] \in Seq(Write) /\ Len(writes[c]) <= 1
  BY <1>0 DEF TypeOK, WriteInv, WriteInvOf
<1>2. /\ writes[c] # <<>> /\ put' = put /\ queue' = queue /\ wire' = wire /\ removed' = removed
      /\ writes' = [writes EXCEPT ![c] = Tail(writes[c])]
      /\ Head(writes[c]).result = Failed \/ removed[c]
  BY DEF HandleWriteEnd
<1>3. Head(writes[c]) = writes[c][1] /\ Tail(writes[c]) = <<>>
  BY <1>1, <1>2, OneElement, Zenon
<1>4. writes'[c] = <<>> /\ (removed[c] \/ TakenBy(writes[c]) = 0)
  <2>1. Failed \notin 0..BlockLen
    BY DEF Failed
  <2> QED
    BY <1>0, <1>2, <1>3, <2>1 DEF TypeOK, TakenBy
<1>5. StreamInvOf(put[c], queue[c], writes[c], wire[c], removed[c])
  BY DEF StreamInv
<1>6. StreamInvOf(put[c], queue[c], <<>>, wire[c], removed[c])
  BY <1>2, <1>4, <1>5, LoseStream
<1>7. StreamInvOf(put'[c], queue'[c], writes'[c], wire'[c], removed'[c])
  BY <1>2, <1>4, <1>6
<1>8. ASSUME NEW d \in Conns, d # c PROVE StreamKept(d)
  BY <1>0, <1>2, <1>8 DEF StreamKept, TypeOK
<1> QED
  BY <1>7, <1>8, KeptStream, Zenon DEF StreamInv

\* Every step preserves the invariant.
LEMMA StreamStep ==
    ChannelInv /\ StreamInv /\ [Next]_vars => StreamInv'
<1> SUFFICES ASSUME ChannelInv, StreamInv, [Next]_vars PROVE StreamInv'
  OBVIOUS
<1>1. CASE UNCHANGED writeVars /\ \A d \in Conns : removed[d] => removed'[d]
  <2>1. ASSUME NEW d \in Conns PROVE StreamKept(d)
    BY <1>1 DEF StreamKept, writeVars
  <2> QED
    BY <2>1, KeptStream, Zenon DEF StreamInv
<1>2. ASSUME NEW c \in Conns, MarkRemoved(c)
      PROVE  UNCHANGED writeVars /\ \A d \in Conns : removed[d] => removed'[d]
  BY <1>2 DEF MarkRemoved, ChannelInv, TypeOK
<1>3. ASSUME NEW c \in Conns,
             \/ Accept(c) \/ StopAgain(c) \/ CloseSocket(c) \/ GoOffline(c)
             \/ FindHandler(c) \/ RemoveHandler(c)
             \/ HandleRead(c) \/ HandleReadEnd(c) \/ ReadCompletes(c)
      PROVE  UNCHANGED writeVars /\ removed' = removed
  BY <1>3 DEF Accept, StopAgain, CloseSocket, GoOffline, FindHandler, RemoveHandler,
              HandleRead, HandleReadEnd, ReadCompletes
<1>4. AcceptFails \/ AcceptThrows \/ UNCHANGED vars => UNCHANGED writeVars /\ removed' = removed
  BY DEF AcceptFails, AcceptThrows, vars, writeVars
<1>5. \/ AcceptFails \/ AcceptThrows \/ UNCHANGED vars
      \/ \E c \in Conns :
            \/ MarkRemoved(c) \/ HandleWrite(c) \/ HandleWriteEnd(c) \/ WriteCompletes(c)
            \/ Accept(c) \/ StopAgain(c) \/ CloseSocket(c) \/ GoOffline(c)
            \/ FindHandler(c) \/ RemoveHandler(c)
            \/ HandleRead(c) \/ HandleReadEnd(c) \/ ReadCompletes(c)
            \/ \E m \in Replies : Put(c, m)
  BY Zenon DEF Next, Stopping, Handling
<1>6. ASSUME NEW c \in Conns, \E m \in Replies : Put(c, m) PROVE StreamInv'
  BY <1>6, PutStreamStep, Zenon
<1> QED
  BY <1>1, <1>2, <1>3, <1>4, <1>5, <1>6, CompletesStreamStep, HandleStreamStep,
     HandleEndStreamStep, Zenon

-----------------------------------------------------------------------------
(* The theorems.                                                           *)

\* The invariants hold in every reachable state.
THEOREM ChannelInvariant == Spec => []ChannelInv
<1>1. ChannelInv /\ [Next]_vars => ChannelInv'
  BY TypeStep, StopInvStep, MapStep, WriteStep, NoStalledStep, Zenon DEF ChannelInv
<1> QED
  BY InitChannelInv, <1>1, PTL DEF Spec

\* Every field has its type; rd_ptr_ never leaves its block (server_channel.hpp:195-227).
THEOREM ChannelTypeTheorem == Spec => []TypeOK
<1>1. ChannelInv => TypeOK
  BY DEF ChannelInv
<1> QED
  BY ChannelInvariant, <1>1, PTL

\* At most one write is outstanding on a socket, whatever the pool's threads put
\* while handle_write runs (server_channel.hpp:88-99, 176-227).
THEOREM OneWriteTheorem == Spec => []OneWriteInFlight
<1>1. ChannelInv => OneWriteInFlight
  BY DEF ChannelInv, WriteInv, WriteInvOf, OneWriteInFlight
<1> QED
  BY ChannelInvariant, <1>1, PTL

\* A reply never waits on an online connection without a write in progress
\* (server_channel.hpp:88-99, 195-227).
THEOREM NoStalledTheorem == Spec => []NoStalledReply
<1>1. ChannelInv => NoStalledReply
  BY DEF ChannelInv
<1> QED
  BY ChannelInvariant, <1>1, PTL

\* The peer receives the replies in the order of the puts, each once and without a gap,
\* however the transport splits the writes, and all of them once the queue is empty
\* (server_channel.hpp:88-99, 176-227).
THEOREM StreamTheorem == Spec => []WireIsTheStream
<1>1. ChannelInv /\ StreamInv => WireIsTheStream
  BY StreamIsWire DEF ChannelInv
<1> QED
  BY ChannelInvariant, InitStream, StreamStep, <1>1, PTL DEF Spec

\* A connection stopped after its first packet is out of the map, whichever ids
\* the other connections were given (server_channel.hpp:152-173, 319-326).
THEOREM UnregisteredTheorem == Spec => []StoppedIsUnregistered
<1>1. ChannelInv => StoppedIsUnregistered
  BY DEF ChannelInv, StopInv, MapInv, Unregistered, StoppedIsUnregistered
<1> QED
  BY ChannelInvariant, <1>1, PTL

\* Only the owner of an entry takes it out of the map (server_channel.hpp:163-168).
THEOREM OwnEntryTheorem == Spec => OnlyOwnEntryRemoved
<1> DEFINE P == \A i \in Ids : handlers[i] # None /\ handlers'[i] # handlers[i]
                    => handlers'[i] = None /\ at[handlers[i]] = "remove"
<1>1. ChannelInv /\ [Next]_vars => [P]_vars
  <2> SUFFICES ASSUME ChannelInv, Next PROVE P
    BY DEF vars
  <2> USE DEF acceptVars, writeVars, StopStep
  <2>1. TypeOK /\ MapInv
    BY DEF ChannelInv
  <2>2. ASSUME NEW c \in Conns, Accept(c) PROVE P
    BY <2>1, <2>2 DEF Accept, Insert, TypeOK
  <2>3. ASSUME NEW c \in Conns, RemoveHandler(c) PROVE P
    BY <2>1, <2>3 DEF RemoveHandler, MapInv, TypeOK
  <2>4. CASE handlers' = handlers
    BY <2>4
  <2>5. \/ handlers' = handlers
        \/ \E c \in Conns : Accept(c) \/ RemoveHandler(c)
    BY ZenonT(60) DEF Next, Stopping, Handling, AcceptFails, AcceptThrows, StopAgain, CloseSocket,
           GoOffline, FindHandler, MarkRemoved, HandleRead, HandleReadEnd, HandleWrite,
           HandleWriteEnd, ReadCompletes, WriteCompletes, Put
  <2> QED
    BY <2>2, <2>3, <2>4, <2>5
<1> QED
  BY ChannelInvariant, <1>1, PTL DEF Spec, OnlyOwnEntryRemoved

\* A stopped connection stays stopped, whatever completions are still to be handled
\* (server_channel.hpp:154, 205, 245).
THEOREM StoppedTheorem == Spec => StoppedForGood
<1> DEFINE P == \A c \in Conns : removed[c] =>
                    /\ chs'[c] = chs[c]
                    /\ reading'[c] = "pending" => reading[c] = "pending"
<1>1. ChannelInv /\ [Next]_vars => [P]_vars
  <2> SUFFICES ASSUME ChannelInv, Next PROVE P
    BY DEF vars
  <2> USE DEF acceptVars, writeVars, StopStep
  <2>1. TypeOK /\ StopInv
    BY DEF ChannelInv
  <2>2. ASSUME NEW c \in Conns, Accept(c) PROVE P
    BY <2>1, <2>2 DEF Accept, StopInv, TypeOK
  <2>3. ASSUME NEW c \in Conns, GoOffline(c) PROVE P
    BY <2>1, <2>3 DEF GoOffline, StopInv, TypeOK
  <2>4. ASSUME NEW c \in Conns, ReadCompletes(c) PROVE P
    BY <2>1, <2>4 DEF ReadCompletes, TypeOK
  <2>5. ASSUME NEW c \in Conns, HandleRead(c) PROVE P
    BY <2>1, <2>5 DEF HandleRead, Readable, TypeOK
  <2>6. ASSUME NEW c \in Conns, HandleReadEnd(c) PROVE P
    BY <2>1, <2>6 DEF HandleReadEnd, TypeOK
  <2>7. CASE chs' = chs /\ reading' = reading
    BY <2>7
  <2>8. \/ chs' = chs /\ reading' = reading
        \/ \E c \in Conns : \/ Accept(c) \/ GoOffline(c) \/ ReadCompletes(c)
                              \/ HandleRead(c) \/ HandleReadEnd(c)
    <3>1. AcceptFails \/ AcceptThrows => chs' = chs /\ reading' = reading
      BY DEF AcceptFails, AcceptThrows
    <3>2. ASSUME NEW c \in Conns
          PROVE  (StopAgain(c) \/ CloseSocket(c) \/ FindHandler(c)
                    \/ RemoveHandler(c) \/ MarkRemoved(c)) => chs' = chs /\ reading' = reading
      BY DEF StopAgain, CloseSocket, FindHandler, RemoveHandler, MarkRemoved
    <3>3. ASSUME NEW c \in Conns, NEW m \in Replies
          PROVE  Put(c, m) => chs' = chs /\ reading' = reading
      BY DEF Put
    <3>4. AcceptFails \/ AcceptThrows
             \/ \E c \in Conns :
                   \/ Accept(c) \/ Stopping(c) \/ Handling(c) \/ ReadCompletes(c)
                   \/ WriteCompletes(c) \/ \E m \in Replies : Put(c, m)
      BY DEF Next
    <3>5. CASE AcceptFails \/ AcceptThrows
      BY <3>1, <3>5
    <3>6. ASSUME NEW c \in Conns,
                 \/ Accept(c) \/ Stopping(c) \/ Handling(c) \/ ReadCompletes(c)
                 \/ WriteCompletes(c) \/ \E m \in Replies : Put(c, m)
          PROVE  \/ chs' = chs /\ reading' = reading
                 \/ Accept(c) \/ GoOffline(c) \/ ReadCompletes(c)
                 \/ HandleRead(c) \/ HandleReadEnd(c)
      <4>1. CASE \E m \in Replies : Put(c, m)
        BY <3>3, <4>1, Zenon
      <4>2. CASE Stopping(c)
        BY <3>2, <4>2, Zenon DEF Stopping
      <4>3. CASE Handling(c) \/ WriteCompletes(c)
        <5>1. HandleWrite(c) \/ HandleWriteEnd(c) \/ WriteCompletes(c)
                 => chs' = chs /\ reading' = reading
          BY DEF HandleWrite, HandleWriteEnd, WriteCompletes
        <5> QED
          BY <4>3, <5>1, Zenon DEF Handling
      <4> QED
        BY <3>6, <4>1, <4>2, <4>3, Zenon
    <3> QED
      BY <3>4, <3>5, <3>6, Zenon
  <2> QED
    BY <2>2, <2>3, <2>4, <2>5, <2>6, <2>7, <2>8
<1> QED
  BY ChannelInvariant, <1>1, PTL DEF Spec, StoppedForGood
=============================================================================
