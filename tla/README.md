# Models and proofs of the Duino-Coin mining rig

This directory holds TLA+ models of the firmware in this repository, the
configurations that check them with TLC, and proofs for TLAPS. The firmware
runs on RP2040 boards with W5100S Ethernet chips: a *master* board that speaks
to the Duino-Coin server over TCP, and up to ten *slave* boards on an I2C bus
that search for hashes, one search per core.

## 1. The system

| Part | Source | State | Operations | What makes it hard |
|---|---|---|---|---|
| Character buffer | `port/utils/src/charbuffer.cpp` | array, length | write, read, readStringUntil, setBuffer, addString, clear | the separator is looked up in the whole array; no lock |
| Mining slave | `examples/minerSlave/minerSlave.cpp` | two status words, receive and result buffers, a request and a configuration buffer | two core loops, the I2C receive and request callbacks | an interrupt on core 0 against core 0 and core 1 |
| Commands to a slave | `minerMaster.cpp` 380-425, 545-723 | state and retry counter of each client, receiveBuffer | writeCmd, readData, the states that call them | old answers, lost commands, restarts of one side |
| Clients and server | `minerMaster.cpp` 473-914 | `ducoClient[]`, `g_tcp_connect_retry` | the state loop (core 0), lwIP callbacks (core 1), timers, watchdog | two cores write the same fields without a lock |
| Wire, I2C interrupt | `port/utils/src/Wire.cpp`, `port/i2c_slave` | message buffer, transfer flag, interrupt bits | transmissions, the four interrupts | late interrupts, lengths of 8 bits |
| Hash search | `port/utils/src/duinoCoinUtils.cpp` | - | calculateHashCore0/1 | the bound, the result 0 |
| Stand-alone miner | `examples/miner_W5100S-EVB-Pico` | a loop state and a socket per core | connect, get, calculate, send | blocking waits, stale buffers |
| When clients open | `minerMaster.cpp` 261-320, 431-543 | `wait_open_time`, `g_start_min`, the clock | the main loop, `set_client_connect_timeout` | a minute that is never read costs an hour |
| LCD log | `minerMaster.cpp` 951-985, `ILI9340` | ring of results, the panel | add, draw | wrap-around, texts without room |
| lwIP link, Ethernet chip | `port/lwip/src/w5x00_lwip.c`, `port/ioLibrary_Driver/src/w5x00_spi.c` | tx_frame, the critical section, registers of the chip | boot, send, receive | both cores share all of it |
| DNS, HTTP, TLS, MQTT | `port/aws-iot-device-sdk-embedded-C` | configuration and contexts of each client | resolve, connect, handshake, send, receive, close | partial failure, time-outs, what a close leaves |
| Timers, board set-up | `port/timer`, `port/utils/src/hwSetupUtils.c` | ticks, pins | - | - |

How they interact. For every core of every slave the master keeps a *client*: a
TCP connection and a state. A client connects, is greeted, asks for a job,
writes the job line to its core (`CMD_WRITE_JOB`), polls the status
(`CMD_STATUS`), reads the result (`CMD_READ_RESULT`), sends it to the server and
waits for the verdict. The main loop on the master's core 0 takes the clients in
turn; lwIP runs on core 1 and calls `tcp_callback_received`, which moves a
client on when a message comes. On a slave, commands arrive in the I2C interrupt
on core 0; the loops of core 0 and core 1 look for a newline in their receive
buffer, read the three fields, search, print the result and set the status. There
are no locks: what keeps the parties apart is the order of the commands and of
the server's messages, and that is what most of the properties are about.
`PROJECT.json` lists the hazards, each at its line.

## 2. The modules

* `ByteFifo` - what a user of a character buffer relies on: a bounded queue that
  can be cut at a separator.
* `CharBuffer` - the class, on its array and its length; `IsFifo` says that it
  implements `ByteFifo`. The constant `LoadShrinks` says whether a caller may
  replace a text by a shorter one with `setBuffer`, which breaks it.
* `HashWorker` - what the rig expects of the cores: one job at a time, finished
  once, delivered or dropped.
* `MinerSlave` - one slave: both core loops and the interrupt handler, each cut
  into the steps the others can come between.
* `SlaveLink` - the slave with the part of the master that commands it, the I2C
  faults, and restarts of the master. The server is a source of messages here.
  `IsHashWorker` says that it implements `HashWorker`.
* `MinerMaster` - the clients of the master, both cores, with the TCP connection,
  the timers and the watchdog. A slave is a worker here: it loses nothing, or, if it is
  in `Faulty`, a job, a status, a read, and its result may be 0.
* `SoloMiner` - the stand-alone miner, which has no slaves: the loop both of its
  cores run, over blocking sockets. A wait for an answer (`AwaitGreeting`, `AwaitJob`,
  `AwaitVerdict`) is a place of its own, for the code stays there while the server
  and the network act; everything else in a block is one action.
* `OpenSchedule` - when the clients of the master open their connections: the pass of
  the loop, the clock read at its end, and `wait_open_time`. `MinerMaster` takes from it
  that the minute of a client comes.
* `TwoWire`, `I2cSlave`, `I2cBus` - the Wire object, the interrupt handler of a slave
  with the FIFOs it reads and fills, and the master's scan and commands byte by byte
  over the wires. `SlaveLink` takes from it that a command arrives whole or not at all
  or cut, and that an answer is to the command before it.
* `EthChip`, `NetLink` - the W5100S behind its critical section, and the link of lwIP
  to it from both cores, from boot on. lwIP is external: it sends and takes frames.
* `WizSockets` (external), `DnsClient`, `TlsTransport`, `HttpClient`, `MqttClient`,
  `CloudClients` - the sockets of the chip and the clients over them. One thread makes
  every call; `pc` is where it is and `call` the call it is in, so that the clients share
  the steps of DNS and TLS as they do in the code. `update_pool` is the call the miners
  make.
* `Ili9340`, `LcdConsole` - the display driver as operators from a panel to a panel, and
  the ring of results that is drawn with it. What can be read on the panel is a set of
  *marks*: a character, its place and its colour; drawing over part of one removes it. A
  redraw is a `Wipe` and ten strings for each block, drawn character by character (`Draw`),
  so that a reboot finds it at any of them.
* `CharBufferProofs`, `SlaveLinkProofs`, `MinerMasterProofs`, `SoloMinerProofs`,
  `I2cBusProofs`, `NetLinkProofs`, `CloudClientsProofs`, `MasterLoopProofs` - the theorems; the last one
  is about both `LcdConsole` and `OpenSchedule`, which share the loop and no state.
* `MCCharBuffer`, `MCSlaveLink`, `MCI2cBus`, `MCNetLink`, `MCCloudClients`,
  `MCLcdConsole` - instances for TLC; `MinerMaster`, `OpenSchedule` and `SoloMiner` are
  checked as they are.

How state and actions correspond to the code. Variables carry the names of the
source where it has one (`buffer`, `buf_len`, `state`, `clientNo`), and a comment
names the variable of the code otherwise (`rx` is `receiveBuffer0/1`, `temp` is
`TempBufferCore0/1`, `waits` stands for `wait_open_time`, `tries` for
`g_tcp_connect_retry`). One action is one handler, or one part of it where another
flow can come between and matters: `ReadFind`/`ReadMove` are the two halves of
`readStringUntil`, `OnReadResult`/`ResultIdle` the copy and the status of
`CMD_READ_RESULT`, `Receive`/`LookAtState`/`SetState` the copy, the switch and the
assignment of `tcp_callback_received`, and in `MinerMaster` the variable `mid` tells
where core 0 is inside a handler. The definitions whose comment calls them mutants are
wrong versions of an action that no specification uses; each shows that a
property notices the mistake.

Data is abstracted to what the properties tell apart. A job line is three chunks,
one per field, and a chunk that was cut has no separator; a buffer of the slave is
a sequence of chunks. That a buffer is a queue that is cut at separators is what
`CharBuffer` shows. A server message is one of greeting, job, bad, verdict. A
result buffer holds the result of a job, zeros, a text half printed, or the result
of fields of different lines. On the bus a byte is its message and its place in it, an
answer the message it is given after; in the memory of the Ethernet chip a cell is a run
of bytes of one frame. A name that is looked up and the host that is reached by its address
are one value. In `SoloMiner` the buffer of a core holds the texts that
one read found; jobs are numbered modulo `Jobs`, and a result carries the job whose
nonce it is, whatever job it is sent for.

## 3. The runs

| Run | Shows | Bounds |
|---|---|---|
| `char_buffer` | BufferInv, IsFifo | capacity 3, two separators and one other character: every overlap of a cut, a full buffer, an embedded NUL |
| `link_gentle` | IInv, NoRace, OneJobAtATime, IsHashWorker | one slave (slaves share nothing), two jobs, one lost job or read, one restart with the clients in any state |
| `link_fault` | WholeResult, ResultOfLastJob | one fault of any of five kinds, all kinds of server messages, three jobs, one of them with the result 0, no restart; a field that is too long for its array may stop its core |
| `link_live` | JobGetsResult | one job, one lost read |
| `master_session` | IInv, JobIsAnswer, ResultAsWritten, InStep, Reconnects | two clients, one of them with a slave that may fail in any way and any number of times, one retry, any number of restarts; the connection timer expires at any time, the others only after the connection is gone |
| `master_late` | JobMessage is **violated** | one request that times out |
| `solo_miner` | SoloInv, ResultIsOfJob, InStep, StopsOnlyInConnect, NoticesLoss | one core, with DHCP; four jobs, three late answers, three lost connections |
| `open_schedule` | TurnComes | two clients, an hour of seven minutes, a minute of four ticks, a watchdog of three |
| `i2c_bus` | IInv, WholeMessages, OneMessage, AnswerToCommand, BytesKept, TransferEnds | one slave, a scan of three addresses, the delay and two more messages of one to three bytes, a FIFO of two, one transfer given up |
| `net_link` | IInv, OneAccess, FramesOnWire, FramesTaken, PbufsAccounted, SendEnds | both cores from boot, two frames out (one in two parts, one padded), two frames in, of which the first is longer than `pack2`, one pbuf; DHCP on a socket of its own meanwhile |
| `cloud_clients` | HttpCanBeCalled, RightHost, BodyIsAnswer, SendsOverSession, HeldOnlyAfterFailure, CallReturns | two calls over the network and any others between, two hosts, TLS for both clients (with certificates for one), bodies of two reads, words of three bits |
| `lcd_console` | RingHoldsLast, LinesAreLast | the real ring, panel and layout; a short and a long result, in any order, with reboots between any two characters |

Why the bounds are enough. Two jobs tell a result of the last line from one of an
earlier line; a third adds nothing, since a core holds at most one line and a
result. A receive buffer of six chunks takes two whole lines; a core gets a second
line only after a fault, and one fault makes at most one extra line. In
`MinerMaster` clients share the loop, the callback core and the retry counter, and
two of them show every way to share. The cores of the stand-alone miner share only the
address of the server, which is fetched before the second one starts, and the core
with DHCP can do all the other can; the theorems are for any number of cores. It may
really stop, so deadlock is not checked there: `StopsOnlyInConnect` says where.
What lies beyond one fault was explored too: two
faults of the kinds "read lost" and "status lost" let the client read a result buffer
that is being wiped; "read lost" and "result lost" hand the result of one core to the
other client; a line that is cut, or a message that is no job, followed by a restart
of the master, gives a core two jobs. The faults are independent, rare events, which
is why the runs allow one and the theorems say exactly which kinds are harmless in any
number.

On the bus one slave is enough, for slaves only share the START and the STOP, which the
address that nobody answers sends to it too. Three messages make a message that is handled
while the next is written and a third is read; a FIFO of two overflows with the longest
message. In `net_link` the two frames of lwIP can be one of each core, at once or one behind
the other. Two calls of the cloud clients show what a call leaves for the next, of
the other client or its own, and an answer of DNS that comes in the call after the one that
asked; a word of three bits makes an error in place of a count wrap the total. A minute of
`open_schedule` is longer than the watchdog, as in the code; the numbers of the two clients
give start minutes before the clock's first and behind it. The display is not scaled down.
A boot that halts, a bound that is reached and the fault of the processor end a behaviour,
so deadlock is not checked in `i2c_bus`, `net_link` and `cloud_clients`; nor in `link_fault`,
where a core 0 that a field has stopped answers no command: the master then waits on the
bus for its watchdog, and that run has no restart.

### Fairness

`SlaveLink!LiveSpec`: the main loop takes every client in turn (WF of `Turn`), core 1
of the slave and its interrupt handler run on (WF), core 0 of the slave has strong
fairness: every command suspends it, but it runs between commands, which are 10 ms
apart. Nothing is assumed of the server or the faults. `MinerMaster!LiveSpec`: both
cores and the watchdog run (WF), a worker ends its job (what `JobGetsResult` shows for the
slave), a timer that is looked at again and again expires, and a status DONE and a result that
are asked for again and again are read at last (SF, since the loop leaves the state
of being at that client and comes back, and since a single transfer may fail). All but the
first are for the clients in `Watched` only, one of the two: the other one may do anything.
Nothing is assumed of the server, and nothing of a job that is written: that it may be lost
is why `Reconnects` names its dead ends.
`SoloMiner!Spec`: each core runs on and the server answers what has reached it (WF). The
late answers are bounded, hence the second; a wait that has nothing to come always ends,
as its timer is read in the loop that waits, except in `connect_to_server`.
`I2cBus!LiveSpec`: the wires move, the SDK's loop sees that a transfer is over, and a slave
serves its interrupts (WF). No time-out is needed, and `MaxTimeout` bounds those there are.
`NetLink!LiveSpec`: a core goes on, and gets into the critical section between two accesses of
the other (SF, an access takes microseconds), and the chip carries out a SEND. `CloudClients!LiveSpec`: the one thread goes on (WF); its timers are read in
the loops that wait, so that an expiry is among its steps and nothing is assumed of the network.

### Where the code does not do what it says

* `master_late`: a request that timed out is repeated on the same connection. When
  the server answers both, the client is one message behind for the rest of the
  connection and works on a verdict as if it was a job.
* SEND_RESULT resets `retryCounter` on entry (line 663), so "retry to get the hash result
  twice" (line 689) never ends; a job whose result is 0, or a result text that is not a
  number, keeps the client in this state (`SlaveLink!NoResult`, `MinerMaster!ReadZero`).
* The time-out of CALCULATION_WAIT (line 657) only starts the timer again; a job lost on
  the bus stops the client for good. `link_live` therefore loses reads and not jobs.
* Nothing leaves SLAVE_FAULT (line 125). With the two above these are the dead ends
  (`DeadEnd`) from which `Reconnects` promises no return.
* `tcp_write` keeps a pointer to `socketBuffer`; when the timer of RESULT_WAIT can expire
  before the answer, the greeting of the new connection overwrites a result that the old one
  has still to send (`ResultAsWritten` with "RESULT_WAIT" in `Timers`).
* TLS: `ssl_transport_init` frees nothing when it fails, and `http_close` frees the parts of a
  NULL context when the handshake was not reached (`HttpCloseNull`, undefined);
  `mqtt_transport_close` never frees a context, as nothing sets `ssl_flag` but the subscription
  behind the last slot, which writes over it (`Subscribe`). The body of a response that does
  not fit the buffer is read and not handed on (`More`), and an error of the read counts as
  bytes, so that the call succeeds without a body: what `http_get` returns says nothing, and
  `BodyIsAnswer` is about the body itself, which is all that `update_pool` looks at.
* `http_post` clears the configuration that would hold its body (line 411), so its requests
  are empty; and it takes a NULL context for TLS, which `http_get` refuses (`NoContext`).
* `pack2` has 1500 bytes (minerMaster.cpp 188) and a frame up to 1514: `recv_lwip` is told what
  the chip holds and not what the buffer does. What a longer frame overwrites is undefined
  (`Recv`: core 1 goes on, or stops); `FramesTaken` is about the frames that fit.
* The fields of a job are copied to arrays of 64, 64 and 8 characters without their size
  (minerSlave.cpp 177-186): `Overrun`. No line that is written whole and read by a core that scans
  has such a field; one that was cut and completed by another, or a message that is no job, may.
* When both cores are in `netif_output` at once they share `tx_frame`: `FramesOnWire` and
  `SendEnds` hold without that overlap, and fail with it.
* A search time of 100 s or more takes the first digit of the difficulty off the display.
  `LinesAreLast` lets this one character off (`LetOff`), and no other.

## 4. The proofs

The proofs hold for every value of the constants that satisfies the named
assumptions (`BufAssumption`, `SlaveAssumption`, `LinkAssumption`, `PanelAssumption`,
`ConsoleAssumption`, `MasterAssumption`, `ChipAssumption`, `WireAssumption`,
`BusAssumption`, `SocketsAssumption`, `DnsAssumption`, `HttpAssumption`, `LayoutAssumption`,
`ScheduleAssumption`). A theorem that needs more
says so in its ASSUME: `LoadShrinks = FALSE`, `Gentle`, `Prompt`. Each inductive invariant
is an invariant of a run, so TLC has it checked on the small instance; those of
`CloudClientsProofs` and `MasterLoopProofs` are stated there, hold on the instances of
`cloud_clients`, `lcd_console` (with two entries) and `open_schedule` too, and the runs check
the properties they are for.

* `CharBufferProofs!BufferInvariant`: `BufferInv` is inductive for every capacity and
  alphabet when `LoadShrinks` is FALSE. The tail that is zero is needed for
  the length: the position that `readStringUntil` subtracts comes from the whole
  array, and only because nothing but NUL lies beyond the length is it inside.
  `IsFifoTheorem` is the refinement: the characters in use are the queue of `ByteFifo`.
  Two facts carry it. Sequences with the same length and elements are equal
  (`SameElements`), which makes a statement on array cells one on queues; and the first
  separator of the whole array, looked for as `indexOf` does, is the first one of the
  queue or lies behind it (`FoundInQueue`). `CallOfQueue` is the step.
* `SlaveLinkProofs`: for every set of jobs, any number of restarts, lost jobs and lost
  reads (`Gentle`), `IInv == LinkTypeOK /\ LinkInv` is inductive. The properties are
  not: that the interrupt handler stores only to a core that scans (`NoRace`) says
  nothing about why a job is never written to a busy core. `LinkInv` therefore says,
  for each core, which *phase* its job is in (quiet, coming in, being read, hashed or
  printed, done), with the exact content of its buffers, which phases each state of
  the client can meet (`ClientInv`), and what the answer to a pending command says
  about the present (`AskedInv`): a status answer is old when it is read, but DONE can
  only be undone by the client that reads it, and IDLE together with JOB_REQUEST means
  quiet. `InitIInv` and `NextIInv` prove the invariant (one lemma per action);
  the lemmas before them say what one step of a core or of the interrupt handler does to a
  phase. `LinkInvariant`, `NoRaceTheorem`, `WholeResultTheorem`, `OneJobTheorem` and
  `ResultOfLastJobTheorem` follow, and `IsHashWorkerTheorem`: under the same faults the
  client, the bus and the core together implement `HashWorker`, each step of the
  detailed specification being one of the worker or none. `FieldsFit` says that under these
  faults no field overruns its array.
* `SoloMinerProofs`: `SoloInv` is inductive for any number of cores, late answers and
  lost connections. `ResultIsOfJob` and `InStep` speak of the places where they can be
  broken; the invariant says of every block what can be under way on the connection
  (`Phase`), and that a socket is closed before it is connected again, except the first
  time (`FreshSocket`), so that a verdict that came too late is not read as a job.
  `SoloInvariant` proves it, one lemma per action, `OneCore` reduces each to the core
  that moves; `SoloMinerResult` and `SoloMinerInStep` derive the two properties. They hold *until a
  fetch fails* (`missed`): after that the buffer is parsed whatever it holds, and a core
  whose job comes late stays one answer behind on that connection.
* `MinerMasterProofs`: for any number of clients, retries and restarts, `IInv ==
  TypeOK /\ SessionInv` is inductive. `ConversationInv` says which messages can be under
  way for each state of a client *and* each place inside its handler at which core 1 may
  call back; `BufferInv` what `socketBuffer` then holds; `CallbackInv` that the state a
  callback read is still the state when it sets the next one, unless the client has
  closed the connection: then it waits for a minute and cannot be in a conversation
  (`Closed`). `TurnFrame`, `Untouched` and `Elsewhere` reduce a step to its client.
  `SessionInvariant`, `JobIsAnswerTheorem`, `ResultAsWrittenTheorem` and `InStepTheorem`
  assume `Prompt`: of the timers only that of CONNECT_WAIT expires on an open connection,
  that is, a server that is connected answers a request within the time-out. Without it
  they are not true: `master_late` is a behaviour against `JobIsAnswer`, and a late
  verdict is stored over a result that is still queued.
* `I2cBusProofs`: for any slaves with distinct addresses, any scan, any messages, any depth
  of the FIFO and any delay of the interrupts, `IInv` is inductive. `BusAssumption` says that
  a message and two full FIFOs fit the buffer of 256 bytes: what the FIFO holds when a STOP is
  served stays there and is read with the message behind it. None of the four properties is inductive:
  they say what the handler did, and not what it has still to do. `BytesInv` gives the place of
  every byte acknowledged (`written` is `handled`, `buf`, `rx`, in this order) and shows
  that `bufLen_` never wraps; `NumberInv` says that the messages are written in their order;
  `OrderInv` says that when the buffer and the FIFO hold bytes of different messages, the
  START between them is pending and is served first (`CutFirst`), also when the
  handler works on a copy of the interrupt bits that is old; `AnswerInv` says that a slave that
  is read has handled the last message before it writes a byte of its answer, and that
  what is on the wires and in the master's buffer is of that answer; `WholeInv` says that, with no delay,
  no end of a transfer is pending inside a message. `DownInv` and `MasterInv` are the slave
  before `Wire1.begin` and the master's side. `StepKeeps` puts the lemmas on the actions
  together. `I2cInvariant`, `BytesKeptTheorem`, `OneMessageTheorem`, `WholeMessagesTheorem`
  and `AnswerToCommandTheorem` have no further hypothesis: which delay each allows is in
  the property.
* `NetLinkProofs`: for any frames, any chains of pbufs a frame is made of, and any
  pool, `IInv == TypeOK /\ BootInv /\ RoomInv /\ WireInv /\ RxInv` is inductive.
  `BootInv` is who may be at the chip: the critical section is registered before
  the second core starts, and CS is down only between its entry and exit. `RoomInv` says
  that the write pointer stays inside the memory and a chain inside `tx_frame` (the
  part of `tot_len` that is not copied yet is that of the pbufs left). `WireInv` follows a
  frame of lwIP from the pbufs through `tx_frame` and the memory of the chip to the wire, as
  long as the cores have not overlapped; `RxInv` says the receive memory holds
  exactly the frames that arrived and were not taken, each behind its length
  (`InMemory`). `LinkInvariant`, `OneAccessTheorem`, `FramesOnWireTheorem`,
  `FramesTakenTheorem` and `PbufsAccountedTheorem` have no further hypothesis; that
  `FramesOnWire` is for cores that do not overlap, and `FramesTaken` for frames that fit
  `pack2`, is in the property.
* `CloudClientsProofs`: for any hosts, any choice of certificates, any sizes and any number of
  calls, `IInv` is inductive. The properties speak of the thread at rest, or about to send;
  the invariant says what each place inside a call has made sure of. `QuestionInv`: what waits
  for an answer was asked from this local port or an earlier one, and what was asked from this
  one is the question of the call (each lookup opens the socket anew, with the next port, which
  is why a late answer is never taken). `AddressInv` carries the host from the answer to the
  socket. `HttpInv` ties `g_http_tls_context_ptr` to the handshake of this call: it is set
  exactly while a call over TLS is behind its handshake, so that `http_close` frees what it has
  to; `BodyInv` says that a call has no body before its request is answered; `MqttInv` says that the session under an MQTT context over TLS is that of its socket, except while
  a call of MQTT replaces both. A lemma for each action; the ways back to rest are `HttpClose`,
  `HttpCloseNull`, `Accepted` and `CloseCall`. `CloudInvariant`, `HttpCanBeCalledTheorem`,
  `RightHostTheorem`, `BodyIsAnswerTheorem`, `SendsOverSessionTheorem` and
  `HeldOnlyAfterFailureTheorem` have no further hypothesis.
* `MasterLoopProofs`, the ring: for a ring of any size and any set of results. `RingHoldsLast` speaks of
  the moments when nothing is drawn; the invariant `LogInv` adds where the loop over the ring
  is (`start` is `First` moved on `i` places round the ring) and that the last results stand
  in the ring from `First` on, the newest already among them: the index moves only when the
  loop ends. `ResultKeeps`, `NextBlockKeeps` and
  `LoopEndsKeeps` are the three actions that matter, `EmptyLog` is the start and every
  reboot; `LogInvHolds` is the invariant and `RingAlwaysHoldsLast` the property.
* `MasterLoopProofs`, the display: nothing wipes a block as a whole (the `FillRect` is 100
  pixels wide, a block 230), so that the new log is right rests on the fixed places: each string is drawn
  with all the bytes of its field, each of its characters on the place it had before.
  `PanelInv` says that every mark is the new one of a character that is drawn (`IsNew`), or
  stands where one is still to be drawn (`IsOld`), or is of the text before the first
  result, and that every character that is drawn can be read (`Kept`). `Apart` (no two characters of the log
  touch) makes `DrawPanel` go through; `FillRectDoes` and `DrawNextDoes` say what the driver and
  the panel do with their bytes, `ResetDoes` that the panel is ready in whatever state a
  reboot finds it. `EntryByte` is what the 25 bytes of an entry hold after the five writes, each
  of which may run into the next field: it makes what is drawn what is to be read,
  but for the digits that are let off (`ReadsAre`, `BlockIs`). `PanelInvariant` is the invariant and `LinesAlwaysLast` the property;
  that the blocks lie on the panel is `LayoutAssumption` (the six blocks take 296 of its 320 lines).
* `MasterLoopProofs`, the schedule: for any clients, any minute and hour, and any watchdog
  that is shorter than a minute. `TurnComes` bounds a wait and is not inductive: it does not
  say why the wait ends. `ClockInv` says that `g_start_min` is the minute of `dog` ticks ago;
  `Behind` is how far the minute of a client lies back, or ahead (negative); a wait is no longer
  than its cause is worth and `Behind` (`Awaited`), until the clock is read in that minute and one turn is
  left (`Due`), or has no minute and ends at the next turn (`AtOnce`). `ClockTurn` is where the watchdog
  counts: a pass is shorter than a minute, so the first reading after the minute began is in
  it. `NewWait` is the arithmetic of `set_client_connect_timeout` round the hour, `RebootTurn`
  and `ScheduleStart` that of the start minutes, where the clock starts at minute 1: the clients
  of minute 0 wait for the rest of the hour, which `Minutes` says. `ScheduleInvariant` is the
  invariant and `TurnComesTheorem` the property.

Only model-checked: the liveness properties (temporal reasoning with fairness is
beyond the prover); everything under lost status or result commands and cut lines (the
invariant is not inductive there, and with two such faults the properties fail). Every
safety property that a passing run checks is a theorem, under the hypotheses above.

## 5. Assumptions and what is left out

* A restart of the master takes a minute; a slave picks up a complete line in that
  time (`PickedUp`).
* A callback of lwIP returns before the minute a client waits for can come, that is,
  within the rest of a turn of the main loop (`Minute`).
* A connection delivers messages in order, one per callback; when the server closes
  it, nothing more is read by it. A reset by the server is left out: lwIP frees the
  pcb and the client keeps the pointer.
* `CMD_RESET` is left out: the master never sends it (and numbers it differently).
* `printf`, LEDs and the text of messages are left out.
* The stand-alone miner: what `strchr` and `atol` make of a text that is no job is
  `Garbage`, and a search for it finds nothing; `duco_numeric_result` before the
  first search is `Unset`. The server's jobs have a nonce within their difficulty. A new
  address from DHCP while a socket is open, and the reset of the device, which no path
  reaches (`get_duino_hash_data` returns 0), are left out.
* Undefined behaviour: a delay read from an uninitialised array is the value
  "uninitialised" of `config`; nothing depends on it.

* The bus: no slave shares an address with another, at most ten answer, and noise on the
  wires is SlaveLink's faults. `late` and `overrun` say how far the interrupt handler has
  fallen behind; the properties say what holds up to which delay.
* The Ethernet link: frames that are sent fit `tx_frame` and the chip's memory, which is not a
  ring here. A frame that arrives may be longer than the buffer of core 1. The chip has
  taken a RECV by the next access of core 1, which does not wait for it.
* The watchdog of `OpenSchedule` is as the code asks for it (60 s, and a pass is shorter); the
  chip's counter ends at 8.3 s, which only makes a pass shorter.
* A client of the cloud is called by one thread and with a socket of its own.
* The display: a client has at most two digits, a hash rate is below 100 kH/s, a difficulty
  below a million, a time below 1000 s, so that no text leaves its entry.

### Not modelled

* The lwIP client helper `tcp_client.c`, `w5x00_gpio_irq.c`: no example calls them.
* The timers of `port/timer` and `timer_interface.c`: a tick counter; that it wraps is not
  modelled, a time-out is an expiry at any time.
* The rest of the display driver (rotation, lines, gradients, bitmaps, circles): not called;
  the bits of the font, most of the driver's lines: a glyph is the character it shows.
* The text conversions of `util.c` and `duinoCoinUtils.cpp`, SHA-1, the CRC of
  `netif_output` (computed, not used), and everything in submodules, which is external.
* The memory of lwIP under calls from both cores, a reset by the peer, and a DHCP buffer
  that is freed and used: what they do is not defined by this code.

## 6. Plan

Done: every component that keeps state and is called by an example has a model. Proved:
the character buffer and its refinement, the slave link and its refinement, the clients of
the master, their schedule, the stand-alone miner, the I2C messages, the Ethernet link, the
cloud clients, the ring and the display of the log.

Next, in this order:

1. `MiningRig`: `MinerMaster` over `SlaveLink`, in place of its abstract workers.
2. The wrap of the millisecond tick, and the bound of the hash search.

The number of runs is kept small: a later component joins an existing question where it
can, and a run for a disagreement gives way to one for a component.
