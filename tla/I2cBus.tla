------------------------------- MODULE I2cBus -------------------------------
(***************************************************************************)
(* The master board on the bus: duino_master_init, busScan, writeCmd and   *)
(* readData (examples/minerMaster/minerMaster.cpp) over TwoWire, and the   *)
(* slaves of I2cSlave.  The wires and the master's I2C block (external)    *)
(* move one byte per step, and every slave sees the START and the STOP of  *)
(* every transfer.  A message is the bytes of one writeCmd, numbered.      *)
(*                                                                         *)
(* late[s] says how far the interrupt handler of slave s has fallen        *)
(* behind: 1 when a message ended on the bus with bytes still in its FIFO, *)
(* 2 when another transfer began before the message was handled.           *)
(***************************************************************************)
EXTENDS I2cSlave, FiniteSets

CONSTANTS M,          \* the master's board
          Scanned,    \* the addresses busScan visits, in order
          Command,    \* lengths of messages, and whether an answer is read
          ReadLen,    \* the bytes a readData asks for
          MaxMsg,     \* bound: messages written
          MaxTimeout  \* bound: transfers given up

\* The code has room for ten slaves, and lets an eleventh in behind the array.
\* The longest message is a job: a command, a core and what socketBuffer holds
\* (SOCK_BUF_SIZE is 128), which with two FIFOs of 16 is less than 256.
ASSUME BusAssumption ==
  /\ IsFiniteSet(Slave) /\ Cardinality(Slave) <= 10
  /\ M \notin Slave /\ Board = {M} \cup Slave
  /\ Scanned \in Seq(0..127)
  /\ Command # {}
  /\ \A c \in Command : /\ c.len \in Nat \ {0} /\ c.read \in BOOLEAN
                         /\ 2 * RxDepth + c.len < Length
  /\ ReadLen \in Nat \ {0} /\ MaxMsg \in Nat /\ MaxTimeout \in Nat
  /\ \A s, t \in Slave : Address(s) = Address(t) => s = t

VARIABLES
  at,       \* where the master is
  scan,     \* busScan: how many addresses are done
  found,    \* g_duino_slave[0 .. g_slave_count - 1]
  bus,      \* the transfer on the bus
  call,     \* what the master waits for: the message number, and the read
  result,   \* what the last call of the SDK returned
  timeouts, \* transfers given up
  late, overrun,  \* history, of a slave: how late it was, bytes lost
  written         \* history, of a slave: the bytes it acknowledged

masterVars == <<at, scan, found, call, result, timeouts>>
history    == <<late, overrun, written>>
vars       == <<slaveVars, masterVars, bus, history>>

\* the byte a read still waits for
Wanted     == [msg |-> 0, nr |-> 0]
NoTransfer == [dir |-> "none", by |-> {}, todo |-> <<>>, got |-> <<>>]

Init ==
  /\ WireInit /\ IrqInit
  /\ at = "off" /\ scan = 0 /\ found = <<>>
  /\ bus = NoTransfer
  /\ call = [msg |-> 0, to |-> 0, read |-> FALSE]
  /\ result = 0 /\ timeouts = 0
  /\ late    = [s \in Slave |-> 0]
  /\ overrun = [s \in Slave |-> FALSE]
  /\ written = [s \in Slave |-> <<>>]

-----------------------------------------------------------------------------
(* The wires *)

At(a) == {s \in Slave : Up(s) /\ Address(s) = a}

\* Bytes that slave_on_receive has not got, and an interrupt still to serve
Behind(s) == /\ rx[s] # <<>> \/ buf[s] # <<>>
             /\ irq[s] # {} \/ Pending(s) # {}

\* START: the bit at every slave; the one that is addressed acknowledges.  A slave
\* that is to be read asks for a byte, and throws away what is left in its FIFO
\* from a read that was given up.
Start(dir, a, todo) ==
  /\ bus.dir = "none"
  /\ bus' = [dir |-> dir, by |-> At(a), todo |-> todo, got |-> <<>>]
  /\ raw' = [s \in Slave |->
       IF ~Up(s) THEN raw[s]
       ELSE raw[s] \cup {"START"}
              \cup (IF dir = "read" /\ s \in At(a) THEN {"RD_REQ"} ELSE {})
              \cup (IF dir = "read" /\ s \in At(a) /\ tx[s] # <<>> THEN {"TX_ABRT"} ELSE {})]
  /\ tx' = [s \in Slave |-> IF dir = "read" /\ s \in At(a) THEN <<>> ELSE tx[s]]
  /\ late' = [s \in Slave |-> IF Behind(s) THEN 2 ELSE late[s]]
  /\ UNCHANGED <<rx, irq, transfer_in_progress, calls, overrun>>

\* A byte of a message: acknowledged, and lost when the FIFO is full.
SendByte ==
  /\ bus.dir = "write" /\ bus.todo # <<>> /\ bus.by # {}
  /\ LET s == CHOOSE t \in bus.by : TRUE
         x == Head(bus.todo)
     IN  /\ rx' = [rx EXCEPT ![s] = IF Len(@) < RxDepth THEN Append(@, x) ELSE @]
         /\ overrun' = [overrun EXCEPT ![s] = @ \/ Len(rx[s]) = RxDepth]
         /\ written' = [written EXCEPT ![s] = Append(@, x)]
         /\ bus' = [bus EXCEPT !.todo = Tail(@), !.got = Append(@, x)]
  /\ UNCHANGED <<wireVars, raw, tx, irq, transfer_in_progress, calls, masterVars, late>>

\* A byte of an answer; the slave is asked for the next one when it has none.
TakeByte ==
  /\ bus.dir = "read" /\ bus.todo # <<>>
  /\ \E s \in bus.by :
       /\ tx[s] # <<>>
       /\ tx' = [tx EXCEPT ![s] = Tail(@)]
       /\ bus' = [bus EXCEPT !.todo = Tail(@), !.got = Append(@, Head(tx[s]))]
       /\ raw' = [raw EXCEPT ![s] = IF Len(bus.todo) > 1 /\ Len(tx[s]) = 1
                                    THEN @ \cup {"RD_REQ"} ELSE @]
  /\ UNCHANGED <<wireVars, rx, irq, transfer_in_progress, calls, masterVars, history>>

\* The end of a transfer, with the STOP or (given up) perhaps without
Over(r, stop) ==
  /\ bus' = NoTransfer
  /\ result' = r
  /\ raw' = [s \in Slave |-> IF stop /\ Up(s) THEN raw[s] \cup {"STOP"} ELSE raw[s]]
  /\ late' = [s \in Slave |-> IF rx[s] # <<>> /\ late[s] = 0 THEN 1 ELSE late[s]]
  /\ UNCHANGED <<rx, tx, irq, transfer_in_progress, calls, overrun, written>>

Goes(there) == at' = there

\* The SDK's result of a transfer: the bytes moved, PICO_ERROR_GENERIC (-1)
\* when nobody acknowledged, PICO_ERROR_TIMEOUT (-2) after 100 ms; busScan's
\* read has no time-out.
Done ==
  /\ bus.dir # "none"
  /\ \/ bus.todo = <<>> /\ Over(Len(bus.got), TRUE) /\ UNCHANGED timeouts
     \/ bus.by = {} /\ Over(-1, TRUE) /\ UNCHANGED timeouts
     \/ /\ at # "probe" /\ timeouts < MaxTimeout
        /\ \E stop \in BOOLEAN : Over(-2, stop)
        /\ timeouts' = timeouts + 1

-----------------------------------------------------------------------------
(* The master *)

\* duino_master_init: Wire1.begin
MasterBegin ==
  /\ at = "off" /\ Goes("scan")
  /\ Begin(M, "Master")
  /\ UNCHANGED <<irqVars, calls, bus, scan, found, call, result, timeouts, history>>

\* reserved_addr: 0000xxx and 1111xxx
reserved_addr(a) == (a \div 8) % 16 \in {0, 15}

\* busScan: one byte is read from every address that is not reserved
Probe ==
  /\ at = "scan" /\ scan < Len(Scanned) /\ ~reserved_addr(Scanned[scan + 1])
  /\ Goes("probe")
  /\ Start("read", Scanned[scan + 1], <<Wanted>>)
  /\ UNCHANGED <<wireVars, scan, found, call, result, timeouts, written>>

Skip ==
  /\ at = "scan" /\ scan < Len(Scanned) /\ reserved_addr(Scanned[scan + 1])
  /\ scan' = scan + 1
  /\ UNCHANGED <<slaveVars, bus, history, at, found, call, result, timeouts>>

Probed ==
  /\ at = "probe" /\ Done /\ Goes("scan")
  /\ scan' = scan + 1
  /\ found' = IF result' > 0 THEN Append(found, Scanned[scan + 1]) ELSE found
  /\ UNCHANGED <<wireVars, call>>

\* duino_master_init goes on: the delay is configured at every slave found,
\* and the loop of the miner starts.
Configured == at = "scan" /\ scan >= Len(Scanned) /\ scan < Len(Scanned) + Len(found)

\* writeCmd: the message, handed to the SDK
WriteCmd(a, c) ==
  /\ call.msg < MaxMsg /\ bus.dir = "none"
  /\ call' = [msg |-> call.msg + 1, to |-> a, read |-> c.read]
  /\ Goes("write")
  /\ Transmission(M, a, [i \in 1..c.len |-> [msg |-> call.msg + 1, nr |-> i]])
  /\ UNCHANGED <<irqVars, calls, bus, history, found, result, timeouts>>

Configure ==
  /\ Configured
  /\ \E c \in Command : ~c.read /\ WriteCmd(found[scan - Len(Scanned) + 1], c)
  /\ scan' = scan + 1

Work ==
  /\ at = "scan" /\ scan = Len(Scanned) + Len(found)
  /\ \E i \in DOMAIN found, c \in Command : WriteCmd(found[i], c)
  /\ UNCHANGED scan

\* endTransmission: i2c_write_blocking_until ...
StartWrite ==
  /\ at = "write" /\ Goes("writing")
  /\ Start("write", txAddress[M], buf[M])
  /\ UNCHANGED <<wireVars, scan, found, call, result, timeouts, written>>

\* ... and its result; writeCmd's caller does not look at the code.
Written ==
  /\ at = "writing" /\ Done
  /\ Goes(IF call.read THEN "read" ELSE "scan")
  /\ EndTransmission(M)
  /\ UNCHANGED <<scan, found, call>>

\* readData: requestFrom ...
StartRead ==
  /\ at = "read" /\ Goes("reading")
  /\ Start("read", call.to, [i \in 1..Count(ReadLen) |-> Wanted])
  /\ UNCHANGED <<wireVars, scan, found, call, result, timeouts, written>>

ReadDone ==
  /\ at = "reading" /\ Done /\ Goes("got")
  /\ Requested(M, bus.got, result')
  /\ UNCHANGED <<scan, found, call>>

\* ... and the loop that takes the bytes over into receiveBuffer
Got ==
  /\ at = "got" /\ Goes("scan")
  /\ ReadAll(M)
  /\ UNCHANGED <<irqVars, calls, bus, history, scan, found, call, result, timeouts>>

-----------------------------------------------------------------------------

SlaveStep(s) == /\ SlaveBegin(s) \/ Interrupt(s)
                /\ UNCHANGED <<masterVars, bus, history>>

Master == \/ MasterBegin \/ Probe \/ Skip \/ Probed \/ Configure \/ Work
          \/ StartWrite \/ Written \/ StartRead \/ ReadDone \/ Got

Wires == SendByte \/ TakeByte

Next == Master \/ Wires \/ \E s \in Slave : SlaveStep(s)

Spec == Init /\ [][Next]_vars

\* The interrupt of a slave is served and the wires move, and so does the
\* SDK's loop: a transfer that can end does.  MaxTimeout bounds the time-outs,
\* so there are behaviours in which none is left to end it.
LiveSpec == /\ Spec
            /\ WF_vars(Wires) /\ WF_vars(Probed \/ Written \/ ReadDone)
            /\ \A s \in Slave : WF_vars(SlaveStep(s))

-----------------------------------------------------------------------------
(* Properties *)

\* A byte: its message and its place in it.  One of an answer has the message it
\* answers, 0 when there is none, and no place.
Byte == [msg : 0..MaxMsg, nr : Nat]

SlaveTypeOK(s) ==
  /\ txAddress[s] = NoAddress /\ pos[s] = 0
  /\ Len(buf[s]) < Length
  /\ Len(rx[s]) <= RxDepth
  /\ cuts[s] \subseteq 1..Len(handled[s])

\* What the master's buffer and the bus hold at each place of the master; a
\* transmission is open only between beginTransmission and endTransmission (the
\* assertions of Wire.cpp).
MasterTypeOK ==
  /\ txAddress[M] = (IF at \in {"write", "writing"} THEN call.to ELSE NoAddress)
  /\ Len(buf[M]) < Length /\ pos[M] \in 0..Len(buf[M])
  /\ bus.dir = (CASE at = "writing" -> "write" [] at \in {"probe", "reading"} -> "read" [] OTHER -> "none")
  /\ bus.dir = "none" => bus = NoTransfer
  /\ scan <= Len(Scanned) + Len(found) /\ (at = "probe" => scan < Len(Scanned))

\* The values of the variables.
WireTypeOK ==
  /\ mode \in [Board -> {"Unassigned", "Master", "Slave"}] /\ txAddress \in [Board -> 0..NoAddress]
  /\ buf \in [Board -> Seq(Byte)] /\ pos \in [Board -> Nat]

IrqTypeOK ==
  /\ raw \in [Slave -> SUBSET (Bits \ {"RX_FULL"})] /\ irq \in [Slave -> SUBSET Bits]
  /\ rx \in [Slave -> Seq(Byte)] /\ tx \in [Slave -> Seq(Byte)]
  /\ transfer_in_progress \in [Slave -> BOOLEAN]
  /\ handled \in [Slave -> Seq(Byte)] /\ cuts \in [Slave -> SUBSET (Nat \ {0})]

BusTypeOK ==
  /\ at \in {"off", "scan", "probe", "write", "writing", "read", "reading", "got"}
  /\ call \in [msg : 0..MaxMsg, to : 0..127, read : BOOLEAN]
  /\ bus \in [dir : {"none", "write", "read"}, by : SUBSET Slave, todo : Seq(Byte), got : Seq(Byte)]
  /\ found \in Seq(0..127) /\ scan \in Nat /\ result \in Int /\ timeouts \in 0..MaxTimeout
  /\ late \in [Slave -> 0..2] /\ overrun \in [Slave -> BOOLEAN] /\ written \in [Slave -> Seq(Byte)]

TypeOK == /\ WireTypeOK /\ IrqTypeOK /\ BusTypeOK
          /\ MasterTypeOK /\ \A s \in Slave : SlaveTypeOK(s)

\* The message that byte i of those written to a slave belongs to ends with it.
EndsAt(s, i) == i = Len(written[s]) \/ written[s][i].msg # written[s][i + 1].msg

\* As long as a slave has read every byte of a message out of its FIFO when the
\* message ends, and no byte was lost, its receive handler gets the messages
\* the master wrote, whole and in order (i2c_slave_irq_handler serves STOP
\* before RX_FULL).
WholeMessages ==
  \A s \in Slave : late[s] = 0 /\ ~overrun[s] =>
    /\ Len(handled[s]) <= Len(written[s])
    /\ \A i \in 1..Len(handled[s]) : /\ handled[s][i] = written[s][i]
                                     /\ i \in cuts[s] <=> EndsAt(s, i)

\* A slave that is late by no more than the STOP can get a message in two
\* pieces, but never pieces of two messages in one.
OneMessage ==
  \A s \in Slave : late[s] <= 1 =>
    \A i \in 1..(Len(handled[s]) - 1) :
      i \notin cuts[s] => handled[s][i].msg = handled[s][i + 1].msg

\* Nor does the master then get an answer to an earlier command: the START of
\* the read makes the slave handle the message before it is asked for a byte
\* (the assertion bufLen_ == 0 of I2C_SLAVE_REQUEST, Wire.cpp:182).
AnswerToCommand ==
  at = "got" => \A s \in At(call.to) : late[s] <= 1 /\ written[s] # <<>> =>
    \A i \in DOMAIN Rest(M) : Rest(M)[i].msg = written[s][Len(written[s])].msg

\* However late a slave is, every byte it acknowledged is handled once and in
\* its order, or waits for it, unless the FIFO had no room.
BytesKept == \A s \in Slave : ~overrun[s] => (handled[s] \o buf[s]) \o rx[s] = written[s]

\* Every transfer ends, the one-byte reads of busScan too, which have no
\* time-out: a slave that is asked for a byte gives one.
TransferEnds == (bus.dir # "none") ~> (bus.dir = "none")

-----------------------------------------------------------------------------
(* Why they hold *)

\* the room for messages: two FIFOs fit the buffer of a slave with any message
Longest    == Length - 1 - 2 * RxDepth
Latest(s)  == written[s][Len(written[s])].msg
Ongoing(s) == bus.dir = "write" /\ s \in bus.by
Asked(s)   == bus.dir = "read" /\ s \in bus.by
Of(q, m)   == \A i \in 1..Len(q) : q[i].msg = m

\* The START is served before the bits in bits are.
CutFirst(s, bit) == "START" \in irq[s] \/ ("START" \in raw[s] /\ bit \notin irq[s])

MasterInv ==
  /\ at \in {"write", "writing"} => Len(buf[M]) <= Longest /\ Of(buf[M], call.msg)
  /\ at = "writing" => Len(bus.got) + Len(bus.todo) <= Longest /\ Of(bus.todo, call.msg)
  /\ at \in {"probe", "reading"} => Len(bus.got) + Len(bus.todo) <= Length
  /\ at \in {"write", "writing", "got"} => pos[M] = 0
  /\ \A s, t \in bus.by : s = t

\* A slave that has not begun has seen nothing of the bus.
DownInv(s) ==
  ~Up(s) => /\ raw[s] = {} /\ irq[s] = {} /\ rx[s] = <<>> /\ buf[s] = <<>> /\ s \notin bus.by
            /\ handled[s] = <<>> /\ written[s] = <<>>

\* Every byte is in its place, and the buffer has room for those in the FIFO:
\* without an end of a transfer waiting, the bytes since the last one that was
\* served are of one message, but for what the FIFO held then.
BytesInv(s) ==
  /\ ~overrun[s] => (handled[s] \o buf[s]) \o rx[s] = written[s]
  /\ buf[s] # <<>> => transfer_in_progress[s]
  /\ "RX_FULL" \in irq[s] => rx[s] # <<>>
  /\ (raw[s] \cup irq[s]) \cap Ends = {} =>
       Len(buf[s]) + Len(rx[s]) <= RxDepth + (IF Ongoing(s) THEN Len(bus.got) ELSE Longest)
  /\ "RX_FULL" \in irq[s] /\ irq[s] \cap Ends = {} => Len(buf[s]) <= RxDepth + Longest

\* The messages are numbered in the order they are written.
NumberInv(s) ==
  /\ \A i \in 1..Len(written[s]) : written[s][i].msg <= call.msg
  /\ at = "write" \/ (at = "writing" /\ bus.got = <<>>) =>
       \A i \in 1..Len(written[s]) : written[s][i].msg < call.msg
  /\ Ongoing(s) /\ bus.got # <<>> => written[s] # <<>> /\ Latest(s) = call.msg

\* Up to a delay of a STOP: the buffer and the FIFO hold bytes of one message
\* each, the latest behind, and a START comes between them when they differ.
OrderInv(s) ==
  /\ \A i \in 1..(Len(handled[s]) - 1) :
       i \notin cuts[s] => handled[s][i].msg = handled[s][i + 1].msg
  /\ \A i \in 1..Len(buf[s]) : buf[s][i].msg = buf[s][1].msg
  /\ Of(rx[s], Latest(s))
  /\ rx[s] = <<>> => Of(buf[s], Latest(s))
  /\ rx[s] = <<>> /\ buf[s] = <<>> /\ written[s] # <<>> =>
       handled[s] # <<>> /\ handled[s][Len(handled[s])].msg = Latest(s)
  /\ rx[s] # <<>> => Of(buf[s], Latest(s)) \/ CutFirst(s, "RX_FULL")
  /\ Ongoing(s) /\ bus.got = <<>> =>
       rx[s] = <<>> /\ (buf[s] # <<>> => CutFirst(s, "RX_FULL"))

\* ... and a slave that is read answers what was written last, after the START.
AnswerInv(s) ==
  /\ Asked(s) => /\ rx[s] = <<>>
                 /\ written[s] # <<>> => Of(tx[s], Latest(s)) /\ Of(bus.got, Latest(s))
                 /\ buf[s] # <<>> => tx[s] = <<>> /\ bus.got = <<>> /\ CutFirst(s, "RD_REQ")
  /\ at = "reading" /\ Address(s) = call.to /\ written[s] # <<>> => s \in bus.by
  /\ at = "got" /\ Address(s) = call.to /\ written[s] # <<>> => Of(buf[M], Latest(s))

\* Without any delay and loss, calls end where messages do: nothing that ends a
\* transfer waits while a part of the message under way is in the buffer.
WholeInv(s) ==
  /\ \A i \in 1..Len(handled[s]) : i \in cuts[s] <=> EndsAt(s, i)
  /\ ~Ongoing(s) => rx[s] = <<>>
  /\ "RX_FULL" \in irq[s] => raw[s] \cap Ends \subseteq irq[s]
  /\ Ongoing(s) => \A i \in 1..Len(handled[s]) : handled[s][i].msg # call.msg
  /\ Ongoing(s) /\ buf[s] # <<>> /\ Of(buf[s], call.msg) => (raw[s] \cup irq[s]) \cap Ends = {}

SlaveInv(s) ==
  /\ DownInv(s) /\ BytesInv(s) /\ NumberInv(s)
  /\ handled[s] # <<>> => Len(handled[s]) \in cuts[s]
  /\ late[s] <= 1 => OrderInv(s) /\ AnswerInv(s)
  /\ late[s] = 0 /\ ~overrun[s] => WholeInv(s)

\* The inductive invariant: the types, the master's side, and of every slave
\* which bytes are where and what its handler has still to serve.
IInv == TypeOK /\ MasterInv /\ \A s \in Slave : SlaveInv(s)

=============================================================================
