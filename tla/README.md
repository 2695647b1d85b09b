# TLA+ models of boost-utils

TLA+ specifications of the parts of boost-utils that keep state and have a
protocol: the sockets and payloads of `netw/`, the databases and buffers of
`tools/`, the log line of `log/`. TLC checks them on small instances; TLAPS
proves what matters most for every value of the constants. Paths below are
relative to `src/`.

## 1. The system

| Component | State it keeps | Operations | Talks to |
|---|---|---|---|
| TCP stream framing (`TCP_`, `netw/socket.cpp`) | `frame`, `header`, `cbuf`, the socket | `write`, `writeHeader`, `start`, `read`, `readed`, `close` | the peer's `TCP_` through kernel buffers; `CmdH_::OnCmd`, `ConH_::OnClose` |
| TCP lifecycle (`Acceptor_`, `Connector_`) | `act`, `local`, the operations and handlers outstanding | `Acceptor_::start/accept/accepted/close`, `Connector_::connect/connected`, `TCP_::start/readed/close` | `ConH_::OnConn/OnClose`, the kernel's listen queue |
| UDP monitor (`Monitor_`, `UDP_`) | `endpoint`, `remote`, `tremote`, `cbuf` | `start`, `receive`, `received`, `write`, `close` | `OnCmd`; answers go through the `UDP_` of the command |
| Object ids | `sequence` under `sequence_lck` | constructors of `Writer_`, `UDP_`, `Acceptor_` | every thread that makes an object |
| Frame header (`M1LX`, `netw/socket.hpp`) | `magic[8]`, `big` | `full`, `header`, `parse` | used by `TCP_` and `Monitor_` |
| `Cmd_`, `Data_` and zlib (`netw/socket.cpp`, `tools/data.cpp`) | `offset`, `length`; `data`, `len` | `slice` (not modelled), `deflate`, `inflate`, `cmp`, `DataComparer` | made by `readed()`, used by `OnCmd` |
| SQLite initialisation (`tools/sqlite.cpp`) | `_env_` and the schema, in the file; `cver` | `init`, `version`, `execscript` | other processes, through the file |
| SQLite statements (`tools/sqlite.cpp`) | `STMT_::stmt`, the locks on the file | `exec`, `intv`, `floatv`, `stringv`, `blobv`, `prepare`, `bind`, `step`, `finalize` | sqlite3; other processes, through the file's locks |
| Log line (`log/log.c`) | a buffer of the heap, made and freed by each call | `v_cwf_log_file`, `v_cwf_log_print` | every component |
| `Fail_`, endian buffer, cached file | buffers | constructors, conversions | |

All socket handlers run on one `asio::io_service`, by one thread, in an order
nothing fixes; the kernel, the network and the program's other threads (which
may call `write()` or `close()`) act between them. The hard behaviours are
there: a `close()` that races a completion already queued, a connector that
connects again while handlers of its old connection wait, blocking writes from
several threads, byte streams cut anywhere, accept and receive chains that must
re-arm themselves on every path, datagrams that are lost, repeated and
reordered into one shared buffer, which a `receive()` on another thread may fill
under the handler that reads it. In `tools/sqlite` they are a process that dies
between two statements, two processes that open one new file, and statements
that keep a lock. `PROJECT.json` lists the hazards with their lines and the
properties for each; section 5 has those of code that is not modelled.

What makes each component correct:

* stream framing: commands are the written messages, whole, in order, none
  missing; a connection is given up only for a reason; `OnClose` comes once, last;
* lifecycle: each `OnConn` that was not refused has one `OnClose`; no connected
  socket and no listening acceptor is left without an operation that will notice
  its end;
* UDP: a command is one datagram's payload, a server's answer goes to its sender, the
  monitor never stops receiving, and stops when closed;
* ids: unique, increasing in each thread;
* header and payload: `parse` inverts `full` up to the width of the length;
  `inflate` stays inside its buffer, ends, and undoes `deflate`, byte for byte;
* SQLite: one process runs the schema script, the version is written once; a call
  tells the truth about its step and its row, leaves no statement behind and lets others write.

## 2. Modules

| Module | Models | Notes |
|---|---|---|
| `FrameChannel` | what one direction of a connection promises | abstract FIFO channel that may close |
| `TcpStream` | `TCP_::write`, the kernel's bytes, `read`/`readed`/`close` | implements `FrameChannel` (`ChannelSpec`) |
| `TcpStreamProof` | | `TypeCorrect`, `ClosedOnce`, for all constants |
| `TcpStreamOrderProof` | | the inductive invariant of the framing; `CommandsInOrder`, `DropsJustified`, and the refinement, `ImplementsChannel` |
| `TcpServer`, `TcpServerProof` | `Acceptor_`, `Connector_` and the sockets on one `io_service` | any number of connectors, which connect again at any time |
| `UdpMonitor`, `MCUdpMonitor`, `UdpMonitorProof` | `Monitor_` | the MC module names the datagrams |
| `AtomicIds` | what `sequence++` promises | abstract: an id is drawn in one step |
| `ObjectIds`, `ObjectIdsProof` | the id counter and its lock | implements `AtomicIds` (`AtomicSpec`) |
| `FrameHeader` | `M1LX` | arithmetic in any base and width |
| `ByteTools` | `DataComparer`, `cmp`, the layout of a log line | pure operators |
| `Payload`, `PayloadProof` | the `Cmd_` of a frame, the `Data_` below | composes `FrameHeader` and `ByteTools` |
| `SchemaFile` | what the processes that open a database make of its file | abstract: one process, one version, one script |
| `SqliteInit`, `SqliteInitProof` | `SQLite_::init` | implements `SchemaFile` (`FileSpec`) |
| `SqliteStmt`, `MCSqliteStmt`, `SqliteStmtProof` | the calls and statements of `SQLite_` and `STMT_` | beside another process; the MC module says what a blob reads as |

How state and actions correspond:

* **TcpStream.** One action per system call or handler. `Write` enters
  `TCP_::write`; `WriteSome` is one `write_some` of the header's or the payload's
  `asio::write` (no lock is held between two); `ReadSome` is one `read_some` of
  `async_read`; `Readed` is the whole handler, with `HeaderRead` and
  `PayloadRead` its two branches and `Drop` the `OnClose; close(); return;` all
  error paths share. A byte is a number: the k-th message owns the next
  `HeaderLen + length` numbers. `Parse` of bytes that are not a header gives any
  length, so that a receiver out of step does anything it could do.
  `FrameInit` is what the memory of `TCP_::frame`, which no constructor sets, may
  hold. OnCmd's own effects (writes, a close) are the actions `Write` and
  `ReceiverClose` of other steps. `Writers` are threads; those in `Handlers` write
  inside a handler, as the tests' `OnConn` and `OnCmd` do: until such a `write()`
  returns the `io_service` runs nothing else, the reader neither (`IoFree`).
* **TcpServer.** Per end, `connecting`, `reading` count the operations under way,
  `connected`, `refused`, `readed`, `failed` the handlers queued: `close()` turns
  the former into failed handlers and cannot take back the latter, and `connect()`
  after it adds new operations, so that handlers of two connections may wait for
  one socket. Each of `TCP_::start/readed`, `Acceptor_::accepted` and
  `Connector_::connected` is one action, with the read or the accept it ends in.
  A callback that closes the socket or the acceptor is `Close` or `CloseAcceptor`
  right after the handler, which makes the same of the operation it just began.
  Bytes are abstracted to reads that end well, badly, or with bytes that are refused.
  A read begun while the socket is connecting (`Readable`) waits for the connection.
* **UdpMonitor.** `waits` counts outstanding `async_receive_from`, `fired` the
  queued handlers. All receives share `cbuf` and `remote`, as the code's do. The
  handler is two steps, `Received` up to the tests of the header and `Deliver`, the
  copy of `cbuf` and `remote` for OnCmd and the next receive, with `frame` what it
  parsed in between. asio completes an operation that waits in the thread that runs
  the handlers, so never between the two; but a `receive()` called on another
  thread, by `start()` or by a client's first `write()`, tries `recvfrom` at once
  when nothing else waits (`ReceiveElsewhere`), and fills `cbuf` whatever the
  handler is at. `raced` remembers that it did. `WriteAdopt` is the branch a
  client's first `write()` takes, a step of its own for the same reason.
* **ObjectIds.** `sequence++` is a load and a store; a `UDP_` draws twice.
* **FrameHeader.** `Base` stands for 256, `Width` for `bits`; `Weight[k]` is what
  the k-th byte from the end counts.
* **Payload.** A char is the position at which it came, `Zipped` in what `deflate()`
  wrote, or `Junk` where nobody wrote. `packs` holds, for each `deflate()` in force,
  its offset and the data before it. `inflate` is its loop, one `::inflate` and one
  growth of `ndata` at a time, with the content of `ndata`, which each growth
  copies, and the counts the code computes the room from; at the stream's end
  `ndata` is the data. In a stream `::inflate` stops early only for want of room;
  over other bytes, a cut stream too, it may give any number of chars before it
  fails. `Next` of `FrameHeader` runs until a frame is announced, `Deliver` makes
  its `Cmd_`.
* **SqliteInit.** Each statement is a transaction of its own; `Throw` and `Exit`
  may come between any two. `Effects`, the statements whose effect is in the file,
  is its refinement mapping.
* **SqliteStmt.** A call of `SQLite_` is prepare, step and finalize-and-return; the
  other process's locks change between them. `STMT_` is one action per method. The
  file's lock is derived (`Holding`): whoever stands on a row has it. Preparing and
  stepping may fail at any time, also with `SQLITE_BUSY`. `Answer` is what a call
  makes of its column: `intv` reads a whole number, `floatv` puts the double in an
  int, which is the same one (`tools/sqlite.cpp:328`), `stringv` cuts a text at its
  zero byte, `blobv` builds a blob of no bytes from NULL (`:373`). A `stringv` of NULL kills
  the process (`strlen(NULL)`, `tools/sqlite.cpp:351`).

Operators whose comment starts with "Mutant" are plausible bugs. They are used
by nothing: substituted for the definition after them, each makes the property
that `PROJECT.json` names fail, which shows that the property can.

## 3. Runs

Passing:

| Run | Question | Bounds |
|---|---|---|
| `stream` | Is the stream cut back into the messages, in order (`InOrder`, `ChannelSpec`), given up only for a reason (`DropJustified`), closed once and last (`CloseIsLast`)? Does everything arrive (`Delivered`)? | 1 writer, on a thread of its own, 3 messages of 0..3 bytes, header of 2, `cbuf` of 2, kernel buffer of 2: payloads longer than `cbuf`, empty ones, frames larger than the kernel buffer, reads that end inside a header all occur |
| `stream_any` | What is left with two writers, truncated lengths and any `frame`? Every end is reported (`CloseReported`), every `write()` returns, or is one in a handler that waits for room only it could make (`WriteReturns`) | 2 writers, one of them in handlers (`Handlers`); 3 messages, lengths on both sides of `LenMod`, kernel buffer of 2 bytes, less than the longer frame |
| `server` | Do `OnConn` and `OnClose` pair up through reconnects (`ChainsPaired`), is no socket (`Attended`) and no accept chain (`KeepsAccepting`) left without an operation? Is each link announced by `OnConn` (`Served`), each connector told of its end (`ConnectorToldOfClose`), and does `run()` return once the program closed its ends (`RunReturns`)? | 1 connector, 2 calls of `connect()`, 2 links (`MaxTries`, `MaxConnects`): the second `connect()` meets handlers of the first |
| `udp` | Whole datagrams, unless another thread receives between parse and copy (`WholeDatagram`), a server's answers to the sender (`AnswersSender`), receive chain alive (`KeepsReceiving`, `Consumed`), nothing left to run after close (`RunReturns`)? | 2 peers, 2 queued datagrams, server and client, 2 writing threads |
| `ids` | Are ids unique (`UniqueIds`), is the load and store of `sequence++` one atomic draw of the next number (`AtomicSpec`), is each object that a thread begins constructed (`Constructed`)? | 3 threads, objects of 1 and of 2 ids |
| `payload` | Does `parse` invert `full` up to the width (`RoundTrip`)? Does `inflate` stay inside its buffer (`PayloadTypeOK`), end (`InflateEnds`), and give back each char `deflate` took (`InflateRestores`)? Is `DataComparer` a strict order (`StrictOrder`)? | base 3, width 2, lengths up to 10, 9 being the first that does not fit; one frame; 2 deflates on top of each other; 2 growths of the buffer over bytes that are no stream; data of up to 3 chars of 2 values |
| `sqlite_share` | What do processes that share a new file do to it (`OneScripter`, `TablesPrefix`), is it as one process of one version leaves it (`FileSpec`), and does each `init()` end (`InitEnds`)? | 3 processes, 2 versions, 2 tables; any statement may fail, any process die |
| `sqlite_stmt` | Does a call leave its statement behind (`NoStray`), is what it says so (`AnswersTrue`), does another process get to commit (`WriterGetsIn`)? | 2 blobs, one empty, one with a zero byte in it, NULL, an empty table; 1 query and 1 write held as `STMT_` |

The bounds suffice because the code compares a count only with the header's
length, the frame and the size of a buffer, and each run has values on both sides
of each comparison; three processes or threads give one that overtakes while
another is between two steps. `connect()` needs a closed socket, so that handlers
of at most the old connections wait for the new one, and two tries give that case.
A second query in `sqlite_stmt` would show what two cursors stepped in turn,
never both at their end, do to `WriterGetsIn`: the other process waits for ever.
That is how the program uses sqlite3, not what this code does. What section 4
proves does not depend on the bounds.

Violations (what a comment, log or test says, refuted by what the code does):

| Run | Shows |
|---|---|
| `stream_uninit` | an unset `frame` (`netw/socket.hpp:202`) makes the receiver drop a well-formed stream |
| `udp_dropped` | the log says one datagram is dropped (`netw/socket.cpp:183`); the receive chain stops for ever |
| `udp_test` | a client monitor never opens its socket: its `write()` fails, against `netw/socket_test.hpp:151` |
| `sqlite_torn` | the schema the test counts on (`tools/sqlite_test.hpp:45`) is missing when `init()` returns, while another process is between `VER_SQL` and the script's end, or after one died there |

Disagreements seen while modelling that no run is spent on; the models do what
the code does:

* `OnClose` is the "event on socket close" (`netw/socket.hpp:77`), but a socket that `OnConn` refuses is closed without it (`netw/socket.cpp:387`);
  `ChainsPaired` counts these apart (`declined`).
* The length test of a datagram is one-sided (`netw/socket.cpp:186`): one shorter
  than its header says is delivered, with bytes that are not its own. `udp` sends
  only what `Monitor_::write` makes; `udp_dropped` has the others.
* A client whose first `write()` runs beside the handlers can get a command that is
  a mixture: `received()` parses one datagram, `receive()` of `write()`
  (`netw/socket.cpp:256`) fills `cbuf` with the next, and the rest of `received()`
  copies from it. Nothing says that a client's first `write()` must come before
  `run()`. `WholeDatagram` is about all other commands. `write()` also sets
  `UDP_::remote`, so that the command may answer nobody (`:255`).
* `blobv` returns an empty blob for NULL (`tools/sqlite.cpp:373`), so that the caller
  cannot tell the two apart, and `floatv`, a `double`, has no fraction (`:328`).
* `cmp()` with a `Data_` of length 0 compares with the C string at its address
  (`tools/data.cpp:113`): `Data_` built from no bytes have no zero there, so that it
  reads what follows. Two empty `Data_` are never equal. `StrictOrder` holds `cmp` to
  the order's equality where the other has chars.
* The comment of `parse()` says it returns 0, 100 or -1 for complete, more data
  needed and error (`netw/socket.hpp:60`); it returns the payload's length, and 0
  when no magic matches (`:321`).
* `SQLite_` "provide db version manager" (`tools/sqlite.hpp:55`), but a database
  of another version is left as it is (`tools/sqlite.cpp:212`), which is
  part of what `FileSpec` states, and no property catches: only the second statement writes `ver`.
* A query whose step fails, with `SQLITE_BUSY` for example, throws 404, "no row"
  (`tools/sqlite.cpp:311`): `AnswersTrue` leaves 404 out.
* A log call in a source file of 10000 lines or more overflows the buffer of
  `log/log.c:53`: `LogLineFits` (section 4) is about files with fewer.

`CHECK_DEADLOCK FALSE`, except in `sqlite_stmt`: a closed connection, a stopped
server or an initialised database really has nothing left to do.

**Fairness.** Weak fairness of queued handlers (`io_service::run()` runs them
all), of asio operations that can complete, and of a blocking write while the
kernel takes bytes (in `UdpMonitor` also of the handler's second half, `Deliver`, and
of a `write()` under way, `WriteAdopt`). While a handler stands in `write()`, the
reader's steps are disabled (`IoFree`) and fairness asks nothing of them, so that
`Delivered` is about writers on threads of their own, and `WriteReturns` excepts a
handler that waits on full kernel buffers (`Stuck`): there the code does block for
ever, since every `write()` of more than the kernel holds, inside `OnCmd`, stops
the thread which would have to read. Nothing forces the program to write, connect or close.

Two assumptions are strong. In `TcpServer` a read on a link that was shut may go on
completing with bytes still on their way, but these are finite, so that a read which
is again and again under way there in the end fails (`SF(ReadFails)`). In
`SqliteStmt` the program may do other calls between two steps of a query, but
comes back to a query it began until it is at its end or dropped, as
the tests' `while (stmt->step())` does (`SF` of `StepQuery` or `Finalize` on a row).

`ObjectIds` assumes that each waiting thread goes on as long as it can; ids are
bounded, so that an unfair lock cannot starve anybody for ever. A call of
`inflate()` or of `SQLite_` runs to its end.

## 4. Proofs

All theorems are checked by TLAPS for every value of the constants that meets the
named assumption of the model (`StreamAssumption`, `ServerAssumption`,
`MonitorAssumption`, `IdsAssumption`, `HeaderAssumption` and `PayloadAssumption`,
`SqliteAssumption`).

| Theorem | Property | Further assumption |
|---|---|---|
| `TypeCorrect` | `TypeOK` of `TcpStream`: no read spans more than `cbuf` | none |
| `ClosedOnce` | `CloseIsLast` | none: any writers, lengths and first `frame` |
| `CommandsInOrder` | `InOrder` | `Sane` |
| `DropsJustified` | `DropJustified` | `Sane` |
| `ImplementsChannel` | `ChannelSpec`, the refinement of `FrameChannel` | `Sane` |
| `ServerTypeCorrect` | `TypeOK` of `TcpServer` | none |
| `ChainsPairedAlways`, `AttendedAlways`, `KeepsAcceptingAlways` | the three safety properties of `TcpServer` | none |
| `ClosedWindsDown`, `ToldWhenDone` | a socket that stays closed gets no new work, and each of its handlers leaves less; a connector without work had an `OnClose` for each `OnConn` (no run has these) | none |
| `MonitorTypeCorrect` | `TypeOK` of `UdpMonitor`: `waits` is bounded by the writers that can adopt a port | none: also peers that send what is no frame |
| `WholeDatagramAlways`, `AnswersSenderAlways`, `KeepsReceivingAlways` | the three of `UdpMonitor`, an action property and two invariants | `SoundPeers` |
| `IdsTypeCorrect`, `IdsUnique` | `TypeOK`, `UniqueIds` of `ObjectIds` | none |
| `ImplementsAtomic` | `AtomicSpec`, the refinement of `AtomicIds` | none |
| `IdsGrow`, `LockNotLost` | the ids of one thread increase; who has the lock is on its way to give it back (no run has these) | none |
| `InitTypeCorrect`, `ScriptPrefix` | `TypeOK`, `TablesPrefix` of `SqliteInit` | none |
| `ScriptedOnce` | `OneScripter` | no build has version 0 |
| `ImplementsFile` | `FileSpec`, the refinement of `SchemaFile` | none |
| `VersionWrittenOnce`, `ScripterReady`, `InitDescends` | a version row is never changed; an `init()` that ends in the script leaves the whole schema; no `init()` takes more than `Tables + 5` statements (no run has these) | none |
| `StmtTypeCorrect`, `NoStrayAlways`, `AnswersTrueAlways` | the three safety properties of `SqliteStmt` | none |
| `PayloadTypeCorrect`, `BuffersFit` | `PayloadTypeOK`, and its part `DataTypeOK`: the room of `::inflate` is never negative | none |
| `RoundTripAlways` | `RoundTrip` | none: any base, width, length and byte order |
| `InflateRestoresAlways` | `InflateRestores` | none |
| `InflateDescends` | what is left of a stream shrinks with every turn of `inflate`'s loop (no run has it) | none |
| `DataComparerOrders`, `StrictOrderAlways` | `StrictOrder`, of data of any length and any chars | none |
| `LogLineFits` | a log line fits its buffer, for any path and format; no run has it, for it is about no state | less than 10000 lines |

`Sane` says what the framing relies on and the code does not enforce: one thread
writes at a time, every length fits the header (`len < LenMod`), and `frame` is 0
in a new `TCP_`. `stream_any` and `stream_uninit` show what happens without it.
`SoundPeers` says that peers send what `Monitor_::write` makes, and what fits
`cbuf`; `udp_dropped` shows one that does not. Version 0 is what `init()` takes for
a new file, so that a build with `cver = 0` would run the script on every start.

**Types.** `TypeOK` of `TcpStream` is not inductive: the arithmetic of `WriteSome` needs that a
write under way is that of a message with bytes left (`UnderWay`), and that of
`ReadSome` that `cbuf` has not outgrown the read (`CbufFits`). `TypeInv` is the
three together.

**Order.** `InOrder` says nothing of the bytes still on their way, so it cannot be
kept by itself. `OrderInv` adds: the messages lie end to end in the byte numbers
(`Layout`); what is being written is the last message (`LastWritten`); `cbuf`
followed by `stream` holds consecutive bytes from where the receiver stands
(`Contiguous`), up to where the writer stands while the connection is up
(`WrittenUpto`); and `frame`, `header`, `want` and `rerr` are what that place in
the stream calls for (`Framed`). From it, `HeaderHere` and `PayloadHere` show that
`readed()` always finds exactly the next message's header, or payload cut to
`cbuf`, which gives order, the reasons to drop, and the step of the channel.
`TcpStreamOrderProof` has one lemma per action.

**Refinement.** `ChannelInit`, `StepMaps`: `Write` is a `Send`, a payload read a
`Receive`, `Drop` a `Close`, all else a stutter. `CloseEnds` (after `OnClose` no
read is under way) gives that the channel is open when something happens.

**Lifecycle.** `ChainsPaired` is an equation between counts, and each handler
keeps it: what one counter loses another gains. Only the refusal of a socket
(`DeclineSock`) closes one without a failed read to show for it, so the proof needs
`StartsFresh`: a `TCP_` that `accept()` has not handed over has nothing under way,
and is open only when it was just connected. `Attended` rests on it as well.
`ReadsOpen` adds that nothing is read from a socket that is not connected.
`AcceptChain` relates `made`, `links` and `backlog`, and gives that `made` never
outgrows the links by more than one, without which `TypeOK` is not inductive. The
proof is split into the acceptor's part (`AcceptorStep`) and the ends' part
(`EndsInv`), in which a step touches one end at a time (`Others`).

`ClosedWindsDown` rests on `Quiet`: a closed socket has no connect under way, and
the `TCP_` whose `accepted()` is queued is still connected, so that `accepted()`
never starts to read from a closed one. `Work` counts a queued `readed()` twice, for
it may leave a failed read behind.

**UDP.** `WholeDatagram` says nothing of handlers that wait while `cbuf` is
overwritten. `HandlersInv`: whatever handler is queued, `cbuf` starts with one whole
datagram, the last (`Filled`), so that `received()` finds a header and never a
mixture, and while its second half is to come `frame` is that datagram's length,
unless `raced`; with sound peers it delivers that one or, when the counts differ,
stops. `ChainInv`: with no receive under way nor a handler between its halves, the
handler queued last is that of the datagram in `cbuf` (`LastFits`), so that it is the
one that receives again: those before it may end their receives, and the chain
survives. `ServerInv`: a server's writers never reach the branch that receives and
sets `remote`, and its `start()` finds no datagram to receive, so that nobody fills
`cbuf` under its handlers.

Its `TypeOK` bounds the receives under way. A handler that receives again is gone
from `fired` when its receive is in `waits`, so that the proof counts both
(`Chains`), and the handler between its halves. A client's first `write()` adds one, and so may every writer that saw
the endpoint unset at the same time: `ChainsBounded` keeps the chains and the
writers that have still to adopt (`Adopting`) together below one more than there
are writers. The cardinality of that set goes down by one with each `WriteAdopt`.

**Ids.** `Alone`: between lock and unlock a thread holds the lock; `Dense`: the
k-th id given is k - 1, and what a thread has loaded is still the counter, which
makes its store the `Draw` of `AtomicIds`. `HolderInside` is the safety half of why
each thread gets the lock: fairness does the rest.

**Header.** `RoundTrip` is about sums over bytes, which the provers know only by
their recursive definitions. In place of an induction, whose library theorem they
cannot instantiate, `NumberOfLowBytes` takes the least number of bytes for which
the claim would fail (`LeastMember`) and steps once below it; `RecursionExists`
shows in the same way that `Weight` and the sum of `Number` are functions with the
values their definitions say. `ModProduct` is the arithmetic of one byte: n cut to
k + 1 bytes is its k-th byte and n cut to k. The invariant is `HeaderInv`: the
bytes of `buf` after the magic one are those of the length in the byte order of the
M1LX that filled it, whatever became of its magic slots since.

**Payload.** `InflateRestores` speaks of the end of a loop, so it needs what each turn
keeps. `PacksInv`: from the top of the stack down, no deflate touched the bytes
before its offset (`SharePrefix`), and none left nothing. `JobInv`: `ndata` holds the
bytes before the offset and, over a stream, the first `total_out` bytes of what was
deflated there (`WrittenFacts` for `::inflate`, `GrowPayload` for the copy to the
larger buffer); its second half is what makes `InflateEnd` leave exactly the old
data (`Restored`). `InflateDescends` needs the third: a turn of the loop begins with
room in `ndata`, which `Grow` must have made. `DataComparerOrders` rests on
`FirstDifference`, the well-foundedness of the positions where two sequences differ.

**SQLite.** `Elected`: without `_env_` nobody runs the script, with a version row
nobody begins to (it is not 0); `Behind`: who runs the script has all tables up to
its own statement, so that with `TablesPrefix` the file holds exactly the first so
many, and its next table is the next `Statement` of `SchemaFile`. `RowFirst`:
tables are there only when the version is, which puts the two statements of
`VER_SQL` before the script's in `Effects`, whoever ran them. That mapping needs no
election: two scripters would write the same file, or fail.

In `SqliteStmt` a call stands only where its kind can (`CallSteps`), which gives
`NoStray`; `ExecKnows` keeps what `sqlite3_step` said until `exec` returns it;
`RowCurrent`, what is read from a row is what the table has, holds as long as the
other process cannot commit while somebody is on a row (`Holding`), and that is all
that makes an answer true when the call returns it.

Every invariant, action property and refinement that a run checks is a theorem.
Only model-checked are the properties under fairness, which TLAPS cannot do
(`ENABLED`): `Delivered`, `CloseReported`, `WriteReturns`, `Served`, both
`RunReturns`, `ConnectorToldOfClose`, `Consumed`, `Constructed`, `InflateEnds`,
`InitEnds`, `WriterGetsIn`. For some the proofs have the part that is safety: a
measure that each step lowers and no other step raises (`InitDescends` for
`InitEnds`, `ClosedWindsDown` for `RunReturns` of `TcpServer`, `InflateDescends` for
`InflateEnds` where there is a stream). Where there is none, how often `::inflate`
fills its buffer is up to zlib and the input's end, and `MaxGrows` bounds it.

## 5. Not modelled

* `Fail_` (a formatted message), the endian buffer (stream operators over
  `boost::endian`), the cached file (a constructor and `close()` so far), the level
  test and output of the log, printing and `FromHex` in `tools/data.cpp`. `FromHex`
  (`tools/data.cpp:227`) indexes its input twice too far; nothing in the library
  calls it.
* Object lifetime: `Monitor_::receive` binds a raw `this`. `~SQLite_` frees its
  handle with `sqlite3_free`, not `sqlite3_close`; `inflate` frees with `delete`
  what was made with `new[]`.
* Two threads in one `SQLite_`, which share `buf`, and how much `vsprintf` writes to
  it (`tools/sqlite.cpp:264`).
* Calls out of order that the library never makes: `connect()` on an open socket
  (`open()` throws), `STMT_::prepare` a second time (the old handle is lost,
  `tools/sqlite.cpp:107`).
* `Data_::iss`, which decides whether `bind` binds text or blob: `Bind` takes both
  alike.
* `Cmd_::slice()`, which takes its rest from the slice's length but its offset from
  the data's start and checks neither (`netw/socket.cpp:46`): `length - offset` wraps.
  That a slice stays inside the payload is its caller's precondition, and nothing in
  the library calls it.
* An `Acceptor_` or a `Monitor_` that is started again after `close()`, and
  `Connector_::setlocal()`.
* What a `Connector_` whose connection ended in the middle of a payload takes for
  `frame` in its next one: `TcpStream` is of one connection, and `FrameInit` only stands
  in for it.
* Two ends on `io_service`s of their own that both write inside `OnCmd` and block
  each other. One that blocks the thread of its own reader is `Stuck` (section 3).

## 6. Plan

1. done: `TcpStream` with `FrameChannel`, `TcpServer` with eager reconnects,
   `UdpMonitor`, `ObjectIds` with `AtomicIds`, `FrameHeader`, `ByteTools`, `Payload`,
   `SqliteInit` with `SchemaFile`, `SqliteStmt`, and the proofs of section 4.
2. Proofs: measures for other liveness properties: the bytes of a `write()` under way
   (`WriteReturns`), the handlers of a closed `Monitor_` (`RunReturns`).
3. `TcpDuplex`: two ends whose `OnCmd` writes back, on one or two io threads: when
   do blocking writes inside handlers stop both (`WriteReturns` for a pair)?
