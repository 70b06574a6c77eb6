---------------------------- MODULE FrameReader ----------------------------
(***************************************************************************)
(* How the bytes of a connection become request packets                    *)
(* (fee/meter_simulator/ptcl_handler_serv.cpp, frame_buffer.cpp,           *)
(* server_channel.hpp handle_read, ptcl_packet_dlms47.cpp parse_header).   *)
(*                                                                         *)
(* The peer sends frames, a header and a payload each, and TCP hands them  *)
(* over cut anywhere.  What matters of a position of the stream is the     *)
(* packet length that process_packet reads there, if the two bytes 00 01   *)
(* are there: always at the start of a frame, and anywhere else when the   *)
(* bytes happen to look like a header (the ports in a header often do).    *)
(* recv_buf_ is always a contiguous part of the stream, lo..got.           *)
(***************************************************************************)
EXTENDS Naturals, Sequences

CONSTANTS
    StreamLen,  \* positions of the stream
    HeaderLen,  \* positions of a header (8 bytes)
    ReadMax,    \* the most that one read returns (1024 bytes)
    MaxPacket   \* the longest packet that a header, real or not, announces

ASSUME FrameReaderAssumption ==
    /\ StreamLen \in Nat
    /\ HeaderLen \in Nat \ {0}
    /\ ReadMax \in Nat \ {0}
    /\ MaxPacket \in Nat

Positions == 1..StreamLen
PacketLens == HeaderLen..MaxPacket

VARIABLES
    starts,     \* the positions at which the peer's frames start
    claim,      \* the packet length that a header at a position announces, or 0
    got,        \* the positions that reads have returned so far
    first,      \* the first position of the last read
    lo,         \* the first position in recv_buf_
    running,    \* process_packet is in its loop
    delivered   \* history: the parts of the stream that became tasks, in order

stream == <<starts, claim>>
vars == <<starts, claim, got, first, lo, running, delivered>>

\* Where the frame that starts at s ends: before the next one, or with the stream.
FrameEnd(s) == s + claim[s] - 1

Init ==
    /\ starts \in SUBSET Positions
    /\ claim \in [Positions -> {0} \cup PacketLens]
    /\ \A s \in starts :
          /\ claim[s] # 0
          /\ FrameEnd(s) = StreamLen \/ FrameEnd(s) + 1 \in starts
          /\ \A t \in starts : t <= s \/ t > FrameEnd(s)
    /\ StreamLen > 0 => 1 \in starts
    /\ got = 0
    /\ first = 1
    /\ lo = 1
    /\ running = FALSE
    /\ delivered = <<>>

Size == got + 1 - lo

\* handle_read: the bytes of one read go to the empty recv_buf_.
Read(n) ==
    /\ ~running
    /\ n <= ReadMax
    /\ got + n <= StreamLen
    /\ got' = got + n
    /\ first' = got + 1
    /\ lo' = got + 1
    /\ running' = TRUE
    /\ UNCHANGED <<stream, delivered>>

\* Leaving the loop: handle_read clears recv_buf_.
Leave ==
    /\ lo' = got + 1
    /\ running' = FALSE
    /\ UNCHANGED <<stream, got, first, delivered>>

\* while (buffer.size() > 8)
LongEnough == Size > HeaderLen

TooShort == running /\ ~LongEnough /\ Leave

\* The first bytes are not 00 01: the whole buffer is extracted, and then
\* parse_response_frame finds no header in it.
Discard == running /\ LongEnough /\ claim[lo] = 0 /\ Leave

\* Fault: the length field of the header taken for the length of the packet.
PayloadLen == claim[lo] - HeaderLen

PacketLen == claim[lo]

\* Fault: the packet must be shorter than the buffer.
FitsLoosely(n) == n < Size

\* extract_block: if (buffer_.size() < begin+len) return false
Fits(n) == n <= Size

Incomplete == running /\ LongEnough /\ claim[lo] # 0 /\ ~Fits(PacketLen) /\ Leave

\* Fault: the block is copied and left in the buffer.
KeptInBuffer(n) == lo

Removed(n) == lo + n

\* extract_block, and handle_response_mb: a task for the pool.
Deliver ==
    /\ running
    /\ LongEnough
    /\ claim[lo] # 0
    /\ Fits(PacketLen)
    /\ delivered' = Append(delivered, [from |-> lo, to |-> lo + PacketLen - 1])
    /\ lo' = Removed(PacketLen)
    /\ UNCHANGED <<stream, got, first, running>>

Next ==
    \/ \E n \in 1..ReadMax : Read(n)
    \/ TooShort \/ Discard \/ Incomplete \/ Deliver

Spec == Init /\ [][Next]_vars

-----------------------------------------------------------------------------
(* Properties.                                                             *)

\* Every variable has its type, and every delivered part lies in the stream.
TypeOK ==
    /\ starts \subseteq Positions
    /\ claim \in [Positions -> {0} \cup PacketLens]
    /\ got \in 0..StreamLen
    /\ first \in 1..(StreamLen + 1)
    /\ lo \in 1..(StreamLen + 1)
    /\ running \in BOOLEAN
    /\ delivered \in Seq([from : Positions, to : Positions])

\* No byte is in two packets, packets keep the order of the stream, and no packet
\* reaches into what is still in the buffer or was not read yet
\* (ptcl_handler_serv.cpp:17-43, frame_buffer.cpp:46-77).
PacketsAreDisjoint ==
    /\ lo <= got + 1
    /\ \A i \in 1..Len(delivered) :
          /\ delivered[i].from <= delivered[i].to
          /\ delivered[i].to < lo
          /\ \A j \in 1..(i - 1) : delivered[j].to < delivered[i].from

Unambiguous == \A p \in Positions : claim[p] # 0 => p \in starts

\* Wherever TCP cuts the stream, nothing but whole frames of the peer becomes a
\* packet, as long as only frame starts look like headers
\* (ptcl_handler_serv.cpp:21-25, server_channel.hpp:253-260).
OnlyFramesAreDelivered ==
    Unambiguous =>
        \A i \in 1..Len(delivered) :
            /\ delivered[i].from \in starts
            /\ delivered[i].to = FrameEnd(delivered[i].from)

\* A read that starts with a frame recovers from every earlier cut: all frames
\* that it holds whole are delivered by the end of the loop, only a header without
\* payload at its very end is not (ptcl_handler_serv.cpp:17-43).
WholeFramesAreDelivered ==
    ~running /\ first \in starts =>
        \A s \in starts :
            /\ first <= s
            /\ FrameEnd(s) <= got
            /\ FrameEnd(s) < got \/ claim[s] > HeaderLen
            => \E i \in 1..Len(delivered) :
                  delivered[i] = [from |-> s, to |-> FrameEnd(s)]
=============================================================================
