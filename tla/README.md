# Verification of the meter simulator

This directory holds TLA+ models of the DLMS/COSEM meter simulator in
`src/simulator_meter`, the TLC configurations that check them on small instances,
and TLAPS proofs of their safety properties for every instance. Source paths below
are relative to `src/simulator_meter`; `fee/` stands for `fee/meter_simulator/`.

- `tlc -workers 2 -config X.cfg M` checks a run (`PROJECT.json` lists them).
- `tlapm M.tla` checks a proof module.

## 1. The system

The simulator listens on a TCP port, accepts head-end systems and answers each
connection as one electricity meter would. Nothing is measured and nothing is kept
over a restart: the objects come from `bin/simulator_config.xml`, the values are
zeros, random events and times.

    io threads (2)                          workers (2)
    accept ─► server_channel_handler ─► frame_buffer ─► thread_task ─► thread_pool
                     ▲  handle_read      process_packet                   │
                     │                                                    ▼
              handle_write ◄── d_w_mb_ ◄── put() ◄── meter_handler.handle_response
                                                     ├─ access_security / data_security
                                                     └─ object_transfer, simulator_config
                         every part ─► logger ─► text or SQLite files

| Part | Where | State | Operations | What makes it correct |
|---|---|---|---|---|
| Thread pool | `fee/thread_pool.hpp` | `task_queue_`, two mutexes, a condition variable, `is_run` | `put`, worker loop, `stop`, `join` | every task is executed once, in order of the queue, and no wake-up is lost |
| Server channel | `fee/server_channel.hpp`, `include/channel/event_channel.hpp`, `common/channel/message_block.cpp` | acceptor, `map_handlers_`, `meter_id_`; per connection `state_`, `removed_`, `d_w_mb_`, `w_op_counts_` | accept, read, `put`, write completions, `stop` | one write at a time, replies leave in order and complete, the map holds live connections only |
| Framing | `fee/ptcl_handler_serv.cpp`, `fee/frame_buffer.cpp`, `common/ptcl_codec/ptcl_packet_dlms47.cpp` | `recv_buf_` | `process_packet`, `parse_response_frame` | packets are frames of the peer, whatever TCP does to the stream |
| Meter handler, session | `fee/meter_handler.cpp`, `fee/access_security.cpp`, `fee/data_security.cpp` | handler state, association state, security control, invocation counter, `is_cipher_`, `invokeid_` | AARQ, RLRQ, HLS pass 3, data requests; cipher and decipher | a request gets its own answer, protected as it was; no handshake stays half done; no invocation counter is used twice (which the code does not ensure) |
| Data services | `fee/meter_handler.cpp`, `fee/object_transfer.cpp`, `fee/simulator_config.cpp`, `common/ptcl_codec/ptcl_module_dlms47.cpp`, `ptcl_cosem_dlms.cpp` | image transfer state | get, get-with-list, action | rows and events lie in the selection, a list agrees with single reads |
| C12.18 data link | `include/ptcl_codec/ansi/data_link_layer.hpp` | toggle bit, frame and message queue, link state, timer | `send`, timer, receive, channel errors | one answer per message, in order, each the answer to that message; never stuck |
| Logger | `common/logger/*` | the two queues of `sqlite_writer`, the groups of `logger_writer`, files, database | log, insert, write, day change, stop | accepted messages are stored once and in order, and the queues are bounded |
| COSEM requests | `common/ptcl_codec/asn_parser.*`, `ptcl_cosem_dlms.cpp`, `fee/meter_handler.cpp` (`process_data`) | the list of results of one request | parse, look up by position, convert times | the meter is asked what the client wrote |
| Packet formats | the rest of `common/ptcl_codec/*` | none | build and parse | what is built is parsed back (not modelled) |
| Process | `fee/meter_simulator.cpp`, `fee/meter_simulator_server.cpp` | none of its own | start, stop | the parts together answer each request on its connection |

What is hard here:

- **No lock around a meter.** The two workers may hold two requests of one
  connection; `is_cipher_`, `invokeid_`, `handler_state_`, the association state and
  the invocation counter are shared between them.
- **Three kinds of threads per connection.** `put()` runs in a worker, completion
  handlers in an io thread, and `stop()` takes no lock.
- **Partial failures.** Partial writes, frames cut by TCP, association requests that
  fail after they have changed fields, accepts that fail, lists that do not fit.
- **Two writers behind one logger.** Callers push while a writer thread empties a
  second queue without the lock, in transactions of which any statement may fail.
- **Positions instead of names.** The parsers leave a flat list of results in which
  a request is found again by counting, although optional parts, lists and structures
  change how many results there are.
- **Timing.** In the data link a timer may expire although the answer is already on
  its way, and a repeated frame is answered twice.

## 2. Modules

| Module | Models | Variables and actions in the code |
|---|---|---|
| `WorkQueue` | abstract: tasks are taken in order by exactly one worker and executed | the promise of `thread_pool::put` |
| `ThreadPool` | the pool, one action per access to shared state | `queueMutex`/`enterMutex` are the owners of `task_queue_mutex_`/`enter_mutex_`; `Enter`, `Lock`, `Sleep`, `Pop` … are the lines of `get_task`; `WakeSpuriously` is the platform |
| `ServerChannel` | acceptor, map and all connections | `Accept*` = `handle_accept`; `Put`, `HandleWrite`, `HandleRead` the functions of that name; `StopAgain` … `MarkRemoved` the unlocked steps of `stop()`; `ReadCompletes`, `WriteCompletes` are asio |
| `FrameReader` | one connection's stream and `recv_buf_` | `Read` = `handle_read`; `TooShort`, `Discard`, `Incomplete`, `Deliver` the ways through the loop of `process_packet` |
| `MeterHandler` | one `meter_handler` with several workers | a label per place where another worker may come between; `Dispatch`, `IsData`, `IsConnect` = the three reads of `handler_state_` in `handle_response`, `ResponseAarq` … = `proc_response`, `LoadIc`/`StoreIc` = `request_next_client_ic`, `Seal` … `Encrypt` = `call_encrypt` |
| `ObjectTransfer` | the answers of the object model, as operators without state | `Points` = `calc_points`, `NextPeriodTime`, `LoadRows`, `EventTables`, `GetAnswers` = `format_get_normal_response` |
| `DataServices` | the data requests on top of it | `GetNormal`, `GetWithList`, `Action` = the branches of `process_data`; `FormatTables` = `format_packet_get_response_with_list` |
| `LinkService` | abstract: one answer per message, in order | the promise of `DataLinkLayer_CT::send` / `receive` |
| `DataLink` | the link layer, the line and the meter at its other end | each function of the class is one action (it is single-threaded); `Lose`, `MeterAnswers`, `MeterNaks` are outside the repository |
| `SqliteWriter` | the writer thread of the database | `Insert` = `insert_message`; `Pick`, `Begin`, `Rows`, `Commit` and their failures = `write_message`, `write_db`; `StartThread`/`StartQueues` the two halves of `start()`; `RollOver`, `OpenDb` = `open_db` |
| `TextWriter` | the writer thread of the text files | `Insert` = `insert_message`; `Test` = the loop's look at `exit_`; `Take`, `NothingToWrite`, `WriteGroup`, `LoseGroup`, `EndPass` = `write_message` |
| `Logger` | the callers, with either writer as an instance, and the clock | `LogInfo`, `LogPacket` = the functions of `logger`; `Stamp` = the constructor of `log_message` |
| `CosemRequest` | one request, from its bytes to the attributes and times that are asked for | `Encoded` = the client's formats; `Parse*` = the parsers, `todo` is their call stack; `AskNormal`, `AskList`, `AskAction` = the lookups of `process_data` |
| `Simulator` | one connection through reader, queue, workers and writer | extends `FrameReader`, instantiates `WorkQueue` and `ServerChannel`; `MakeTask` joins `Deliver` to `Put` of the queue, `Reply` joins a worker to `Put` of the channel; `OtherHandlers` is the strand |
| `MC*` | constants for TLC, symmetry sets | |
| `*Proofs` | theorems about the module of the same name; those about `FrameReader` are in `SimulatorProofs` | |

`Simulator` puts the parts together: what `FrameReader` delivers becomes a task in the
same step, a worker takes it and its reply is a `Put` of `ServerChannel`. It uses
`WorkQueue` where the code has the thread pool, which `RefinementTheorem` (and the
property `ImplementsWorkQueue` of run `pool`) justifies, so that the steps inside
`get_task` need not be interleaved with everything else. Between taking a task and
replying, a handler is one state: what several handlers of a connection do to each
other is `MeterHandler`'s, whose step `Format` is in turn a request of
`DataServices`; that a peer which waits for its replies never gets two of them is
`WaitingPeerHasOneHandler`, and this is when `MeterHandler`'s statements about
requests that do not overlap apply. `CosemRequest` is what comes before
`DataServices`: how the descriptors and selections of a request are found.

Abstractions: payloads are model values; a byte stream is its positions and the
places where a header is, or seems to be; cryptography is the *form* of a reply
(`clear`, `sealed`, `tag only`, `encrypted`, `failed`, `doubled`, `overrun`); a cell of a
profile row is its type, because the simulator's values are all zero; the calls of
the logger are left out of the other modules. In `CosemRequest` bytes are bytes, but
a time is its hour. Undefined behaviour is a choice: a transport that reads the dangling
write buffer late may send garbage (`CopiedAtCall`), and a get-with-list that reads
pointers to a finished iteration sees either each iteration's value or the last one.

Replies are formatted in arrays of 1024 bytes that nothing guards. In `DataServices` a
single table, or a list's tables, that needs more (`Overruns`, `ListOverruns`), and the
answer of an octet string register, whose length nobody has set (`Uninitialised`), is
either answered as if nothing had happened or the process stops (`Fault`). `RowsAreCaptures` and
`EventsAreInSelection` are stated for reads whose answers fit (`FitsAlone`),
`ListAgreesWithSingles` for lists that fit or have no tables, and for those that get an
answer. In `MeterHandler`, which does not know lengths, any
get may overrun the formats' array (`FormatOverrun`) or, ciphered, those of
`call_encrypt` (`EncryptOverrun`); the reply then has the form `overrun`, about which
`AloneIsAnsweredRight` says nothing. It is assumed there that an overrun spoils no more
than its reply. Not modelled is a list of so many objects without rows that they
alone fill the array, which takes about seventy of them or more; and that a reply of
more than 1536 bytes is sent as an empty one is in `MeterHandler` only (`TooLong`).

## 3. Runs

| Run | Instance | Distinct states | Shows |
|---|---|---|---|
| `pool` | 3 workers, 3 tasks, spurious wake-ups | 81 363 | no lost notification, no pop of an empty queue, refinement of `WorkQueue`, tasks are executed, busy workers exit |
| `channel` | 2 connections on one id, 3 replies (one does not fit in a block), blocks of 2 units | 2 143 335 | one write in flight, nothing stalls, the wire carries the replies in order and complete, stopped connections are out of the map, nobody takes out another one's entry |
| `handler` | 2 workers, six kinds of association requests, four of data requests, counter up to 2 | 3 248 039 | a request handled alone after any overlap is answered right; no half-done handshake; a challenge means connecting |
| `handler_pass4` | 1 worker, all requests | – | violation, see section 6 |
| `objects` | 31 attributes, all selections of 3 scaled days, lists of up to 2, a buffer of 144 bytes | 153 102 | rows are captures, events are in the selection, lists agree with single reads |
| `objects_list` | the same | – | violation |
| `requests` | lists of up to three items, selections from and to hours in and out of summer time, all clock statuses, an hour that comes twice, up to 2 columns | 325 543 | what the meter is asked is what the client meant |
| `link_safety` | 2 messages, 1 resend, 1 fault, 3 frames per direction | 1 474 242 | replies belong to their messages, never stuck, gives up after all tries, refinement of `LinkService` |
| `link_liveness` | 2 messages, no resend, 1 fault, a meter that may fall silent | 153 882 | every message is answered; the link comes to rest |
| `link_closing` | no fault | – | violation |
| `logger` | 2 threads, 2 calls, packets of 0 and 2 pieces, 2 days, queues of 1 | 342 879 | what was accepted is stored once, in order, and in the end; queues are bounded |
| `simulator` | every stream of frames of 4 positions, 2 workers, peers that wait and peers that do not | 1 151 882 | packets are disjoint and, without accidental headers, whole frames; then also one handler at a time for a peer that waits; every packet is handled and its reply written |

### Why the bounds are enough

- *pool*: the races are between one worker that sleeps, one that is about to and one
  that is busy, which needs three; three tasks let one be queued behind another
  while the third is executed. The simulator has two workers. The safety properties
  are proved for every number.
- *channel*: three replies give a front, a middle and a last one, blocks of two units
  every kind of partial write, and one reply that stays empty the `copy` that fails.
  Two connections share one id, so that it comes back while its first owner is still
  there. All of it is proved for every number of connections and replies and every
  length of a block.
- *handler*: two workers give every overlap of two requests, six associations one of
  each outcome and mechanism, four data requests each way of protecting them; the
  bound on the counter (`MaxIc`) only stops new requests. Proved for any number of
  workers and requests.
- *simulator*: four positions with headers of one hold up to four frames, or two with a
  payload, or one as long as the stream; a read takes from one position to all four. The three properties of
  `FrameReader` are proved for every stream. Two workers are those of the code, and
  the smallest number with which a peer could have two handlers.
- *logger*: `Limit` 1 and `Recover` 0 let the queue overflow, drain and overflow again
  within four messages; a batch of two is cut from a longer queue, and `PerPass` 1
  leaves groups behind. Two calls of two threads with two pieces meet in every order,
  over one midnight. What a third call would meet is a queue, a batch and a file that
  these states already have. The safety properties are proved for every value.
- *requests*: three items are a first, a middle and a last one, which is where the
  lookup of a list differs; two columns are the fewest that leave more results than a
  selection has times. Hours 2 and 3 are summer, 1 and 4 are not, so a range starts, ends
  or lies in either, and the clock shows 4 twice, at hours 3 and 4. Proved for any hours,
  objects and values and up to 127 items and columns.
- *objects*: a quarter of an hour is 3 ticks, a day 12, a profile has at most 4 rows
  and an int 6 bits, so every alignment of both ends of a selection with the period,
  selections that are reversed, longer than the cap and too long for an int all
  happen. Of lists, two items are a pair of everything: tables that fit, tables that
  are cut, tables that overrun the buffer, values, denials and selections that are not
  understood. What is said of rows and
  events is proved for every period, selection and width of an int, and what is said of
  lists for every list.
- *link*: `MaxFaults` bounds the faults of a behaviour, `Capacity` the frames on the
  line; a second fault of the same kind meets the same states of the class, whose
  only memory of faults is the resend count, and the count needs one resend to be
  inherited wrongly. `CountRange` (4 for 256) keeps the count's width above
  `MaxResends`. The safety properties are proved for every value of these bounds.

Deadlock is not checked in any run, because every instance really stops: the tasks,
replies, requests, messages or bytes it is given are used up, a stopped pool's idle
workers wait for ever, and an exception of `accept` or a division by zero ends the
process, and so may an overrun. What must not stop is stated as a property instead: `NoLostNotification`,
`NoStalledReply` and `NeverStuck` say when the system may rest, and the liveness
properties that it gets there.

## 4. Fairness

- `ThreadPool`: weak fairness of `Start` and of each worker's next step. Threads are
  preemptive and a step is enabled only when its lock is free; `enter_mutex_` is held
  by one worker that is itself fair, so no strong fairness is needed. `Put`, `Stop`
  and `WakeSpuriously` are not fair: nobody has to call or to wake.
- `Simulator`: weak fairness of one action, `Busy`: as long as a handler or a worker has
  something to do, or a write is outstanding, one of them does it. This is less than
  fairness per thread and is enough, because a finite stream gives finite work. The
  peer is not fair: nobody has to send, and a read need not return.
- `Logger`: weak fairness of starting the writer and of its thread's steps, and strong
  fairness of the SQL statements: the thread asks for a batch again and again, and what
  is asked again and again succeeds in the end. Opening a database, stopping and the
  crash at the start are not fair, and a logger that meets one of them owes nothing.
- `DataLink`: weak fairness of the queued timer handler, of delivering what has
  arrived at the master and of the running timer's expiry. Nothing makes the meter take
  a request, let alone answer it, so `EverySduIsAnswered` and `LinkComesToRest` include
  the meter that falls silent for good at any moment; a frame on its way to the master
  arrives or is one of the `MaxFaults` that are lost. What the properties do need is
  that the meter does not send NAKs for ever: `resend_cur_frame` counts them but looks
  at no limit, and `MaxFaults` bounds them.
- `ServerChannel`, `MeterHandler`, `DataServices` and `CosemRequest` have safety
  properties only.

## 5. Proofs

All theorems are for arbitrary values of the constants under the `ASSUME` of the
module. `PROJECT.json` lists them with the property each one states.

- **`ThreadPoolProofs`** builds up in layers, each lemma one step of `Next`.
  `HoldingInv` ties `holding` to the program point; `MutexInv` ties the mutexes'
  owners to it. From these `WokenFindsTask` — a thread that was woken and has not
  left `get_task` has a task in the queue, since it still owns `enter_mutex_` and
  nobody else can pop — and `NoLostNotification` are preserved together, and
  `PopFindsTask` follows. `QueueIsFifo` is inductive with the types; `OnceInv`
  (pushed tasks are distinct, every executed or held task was popped) gives
  `ExecutedOnce`; `StopInv` gives `OneTaskAfterStop`. `RefinementTheorem` maps `Pop`
  to `Take`, `Execute` to `Finish`, `Put` to `Put` and all else to stuttering.
- **`MeterHandlerProofs`** has two invariants. `HandlerInv` holds under any overlap:
  `LocalInv` (what a label says about local variables), `SettlingInv` (an association
  state other than the quiet ones has a worker that will take it back) and `AloneInv`
  (what a worker finds in the shared fields while no other request joined). They give
  `QuietState` and `AloneIsAnsweredRight`. `OrderInv` is conditional on requests
  never having overlapped and gives `ChallengeIsConnecting`. The invocation counter is in
  neither: that it increases is not true of the code (section 6).
- **`LoggerProofs`** proves the types, `StoredInOrder` and `QueueIsBounded` of the
  database writer, and `FilesKeepOrder` of the other one. The bound needs `QueueInv` (a queue of `Limit + 2` messages is noted as
  full, so that nothing more goes in). For the order, `TxnInv` says where a
  transaction is: one that a failed statement left open has no rows, and one that is
  about to be committed has exactly the first rows of the thread's queue, so that
  removing that many from the queue after `COMMIT` keeps `stored \o writeQ \o insertQ`
  equal to what was accepted. One lemma per action of the thread, and one for the
  insertion of a message at the end or in front. `FrontInv` ties the pieces that a call
  has handed over and those it has left to the pieces of a packet.
  The files are proved from what three steps do to a line of parts (the files, the groups
  that are written next, the groups that wait): `MergeParts` writes the second part
  behind the first, `DropPart` loses it, `AddMessage` puts a message into the last part
  with its id. `FileOrder` says that the line has the accepted messages once and those of
  an id in their order; it is inductive with `OneId` (a group has one id and no two
  waiting groups the same) and `Handed`, which relates the callers to what was accepted:
  a call hands over its pieces once and in turn, so that a message is always new.
- **`SimulatorProofs`** has two parts. About the reader it proves one invariant
  `FrameInv`: what `Init` says of the stream (`StreamInv`), the buffer's place in it
  (`BufferInv`), and `LoopInv` — while the loop runs on a read that started with a
  frame, its position is a frame's start or the end, and all frames before it were
  delivered. The last is what makes `WholeFramesAreDelivered` inductive.
  About the composition it first shows that each of its steps is, of each part, a step
  or a stutter: `ReaderTheorem`, `QueueTheorem` and `ChannelTheorem` say that a
  behaviour of the simulator is one of `FrameReader`, of `WorkQueue` and of
  `ServerChannel`. So the theorems about the parts hold in the whole
  (`SimulatorFramesTheorem`; `SimulatorWritesTheorem`, with the content of the wire),
  and `ServerChannel`'s invariant can be used for the rest. `OneHandlerTheorem` counts:
  `WireInv` (nothing is on the wire that was not put, nothing put that was not handled;
  an outstanding write has a reply of its own to finish), `AheadInv` (so a peer that
  waits has sent at most one frame more than were handled), `SentInv` (a packet has a
  frame of its own among those read) and `TaskInv` (each handler holds a task of its own
  that was taken and not handled), hence handlers and waiting tasks together are at
  most one.
- **`ServerChannelProofs`** proves `ChannelInv`, the conjunction of the types,
  `StopInv` (how far `stop()` has come determines socket, state and registration),
  `MapInv` (an entry's id is its owner's), `WriteInv` (the write count, the
  outstanding write and the front of the queue agree) and `NoStalledReply`; the two
  action properties follow from it. `StreamTheorem` needs `StreamInv` besides: the queue
  holds the last of the replies that were put, unit `k` of the wire is unit
  `(k - 1) % BlockLen + 1` of the reply after `(k - 1) \div BlockLen` whole ones, and the
  length of the wire is the whole replies that left the queue, what was written of the
  front one and what an outstanding write has already taken. It holds for any block
  length and any sizes of the partial writes.
- **`DataLinkProofs`** goes from lemmas about the operators of the class (`SendNext`,
  `Resend`, `Finish` …) to what each function does to the link (a frame more on the line,
  a message more or less, an answer) and then to the parts of the invariant. `QueueInv`:
  the messages handed in are those answered and those that wait, in order, from which
  `LinkServiceTheorem` gets the refinement. `TriesInv`: the resend count, which is a byte
  and wraps around, stays below the number of times the frame was sent; `GivesUpTheorem`
  follows. `BitsInv`: the line holds frames with the other bit and then frames with the
  expected one, so that an accepted answer is the first to a frame sent since the bit
  changed; `SessionInv`: in a session that frame is the outstanding one. Together they
  give `RepliesBelongTheorem`: one bit is enough on a line that does not reorder,
  whatever it loses and repeats. `NeverStuck` is its own invariant.
- **`DataServicesProofs`** proves about `Points` and `NextPeriodTime`, which are
  divisions, that the rows of a load profile are the multiples of its period from the
  start of the selection on, all of them or all but the last (`RowsTheorem`, from lemmas
  on multiples in an interval), and that scaled random numbers stay in the interval
  (`EventsTheorem`). `AnswerInv` says that an answer is one the object model gives for the
  request; with it both are properties of operators. The proofs needed the conditions
  that the properties name: a clock column, a period that is not 0, and ends of a selection
  whose distance an `int` holds; beyond that the code wraps around.
  `ListTheorem` is about what a list makes of answers that are right one by one. Its tables
  are cut by folds over their rows, which are proved through the states they run through:
  a fold is the last state of a recursive function, whose domain is a set of naturals that
  is well-founded, so the least counterexample to an invariant of the fold contradicts its
  step (stated for first-order invariants of this module, not as a scheme). Hence a table
  whose rows all fit is written whole, a list without tables keeps the answers in their
  order, and `ListInv` says of an answered list where its parts came from. The property
  speaks of every answer that a single read could have been given, because the one with
  most rows need not be the one with most bytes; and of lists whose items select nothing or
  a range (`ListItems`' assumption), the only selections a list's parser lets through.
- **`CosemRequestProofs`** is about every request that satisfies
  `CosemRequestAssumption`: any objects and summer hours, times up to 254 (a time is its
  hour, which a date shows in one byte), at most 127 items and columns (the encoder
  writes a count in one byte), selections by entries only in a single read, and as data
  of an action a value of any type, an array or structure of up to 127 values, or a
  compact array, which the parsers do not know. Structures in structures are
  left out: what the parsers do with them would be an induction over data.
  The proof has four parts. `Reads(v, front, rs)` says of a part `v` of a request that,
  wherever it lies in whatever bytes, the parsers `front` take the position from its
  start to its end and leave the results `rs`, whatever is still to do behind them;
  there is a lemma for each type of the grammar, and parts that lie side by side are put
  together by `ReadsBoth`, repeated ones by an induction on their number (`ReadsMany`,
  through the least counterexample). `AllWritten` says so of each request that a client
  writes, together with the results that it leaves. `ParsesOn` turns this into an
  invariant: the parser is deterministic, so that every place it is at is on the way to
  that end, which stays within the request, and where nothing is left to do the
  results are those of `AllWritten`. `FinishMeant` and the lemmas before it are about
  what follows: the lookups by position, with their fixed distances from what they find
  first, hit the results of the descriptors and times that were written, in lists by an
  induction over the items whose positions add up (`Shown`). `UnderstoodTheorem` and
  `TypeOKTheorem` follow from the invariant `Inv`. The proof showed that a client which
  leaves the status of a time open ("unknown") is understood only when the hour it shows
  comes once; the property says so now (`Unambiguous`), and the run has such hours.

Only model-checked: everything with fairness, which TLAPS cannot do, that is
`TasksAreExecuted`, `BusyWorkersExit`, `MessagesAreStored`, `PacketsAreAnswered`,
`EverySduIsAnswered` and `LinkComesToRest`. All other properties of the passing runs
are theorems.

Only proved, because a run would say less: `QueueIsFifo`, `ExecutedOnce`,
`OneTaskAfterStop` of the pool, `StoppedForGood` of the channel, the types of
`FrameReader`.

## 6. What the violated runs show

- `handler_pass4`: the comment at `fee/access_security.cpp:521` says that the last
  message of the handshake is encrypted and authenticated with control 0x30. The
  function installs the control that the association request left, and without
  ciphered user information that protects nothing: the message says 0x30 and is in
  clear.
- `objects_list`: `bin/调试with-list.txt` records a get-with-list of two descriptors
  answered by two results. A list that mixes a profile with a register gets one: the
  second format call overwrites the packet.
- `link_closing`: the comment at `include/ptcl_codec/ansi/data_link_layer.hpp:52`
  says one question, one answer. A message handed in while the logoff is outstanding
  is answered by the logoff's response and never sent.

Seen while modelling, without a text in the repository to hold it against, and so
listed as hazards at most. The models contain these behaviours unless it says
otherwise.

- Pool and connections: idle workers never leave `get_task` after `stop()` and
  `join()` waits for them; one failed accept ends accepting; a connection that fails
  before its first packet stays in the map; with overlapping requests an invocation
  counter is used twice (`LoadIc`, `StoreIc`), which nothing detects, because
  `check_ic_is_validate` is never called; when the start of a frame is lost, its rest may hold two false
  headers and become two requests, so that even a peer which waits for its replies has
  two handlers.
- Objects: replies of more than 1024 bytes, or ciphered ones of more than 995, overrun
  arrays; an octet string register is answered from memory that nobody has set; a daily profile may show a row after the end of the selection (it starts at
  local midnights and counts days of UTC); an event profile asked for the second
  before its start divides by zero; selecting entries instead of a range reads behind
  the list of results (`Fault` in `CosemRequest`).
- Requests: columns in a list's item other than the last make `get_list_data` look in
  the wrong place; the library's own client writes clock status 0 next to a local
  hour, so that in summer the meter is asked for the hour after.
- Logger: the writer thread may run before its queues are set, and dereferences null;
  messages may be left in one queue at exit; the notice that the queue is full is built
  and then the message itself is pushed in front in its place
  (`sqlite_writer.cpp:352-362`); the text of a packet is cut to 512 bytes on its way
  into the database (the length of a text is not modelled); the comment at
  `sqlite_writer.cpp:450` speaks of a commit where the code rolls back.
- Data link: a NAK may find no frame to repeat (`resend_cur_frame`'s assertion).
- HDLC (not modelled): lengths are written with eleven bits and read with ten, and
  addresses from 16384 on do not come back as they were.

## 7. Not modelled, and the plan

Not modelled for good: vendored libraries (their headers are about 29 000 of the 46 000
lines of the tree), crash dumps and helpers, and the formats of other meter
families and of HDLC in the codec library, which are stateless layout and which
nothing in the simulator calls. Of the DLMS formats, what a request means is in
`CosemRequest`, what a list's formats do to the answer in `DataServices` and how a
reply is protected in `MeterHandler`; the bytes of the other APDUs are layout. Of
`simulator_config.cpp`, reading the XML file happens once, before the first thread.

Done: thread pool, server channel, framing, meter handler, data services, data link,
logger, requests, and the composition of one connection.

Next, in this order:

1. **Structures in structures** as data of an action: TLC could check them to a depth;
   a proof needs induction over data.
2. **Codecs** as operators against reference definitions, if they come into use: APDU
   layout, BCD and time conversions, HDLC addresses and check sequence.
