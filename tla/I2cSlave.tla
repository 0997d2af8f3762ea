------------------------------ MODULE I2cSlave ------------------------------
(***************************************************************************)
(* The slave side of the bus: the interrupt handler of port/i2c_slave/     *)
(* i2c_slave.c, the TwoWire object it drives, and the I2C block of the     *)
(* RP2040 as the handler uses it (external): a receive FIFO, a transmit    *)
(* FIFO and the interrupt bits.                                            *)
(*                                                                         *)
(* The handler copies the interrupt bits once and then serves them in the  *)
(* order of its if statements, whatever order they were raised in; the bus *)
(* goes on meanwhile.  irq[s] is what it still has to serve of its copy.   *)
(***************************************************************************)
EXTENDS TwoWire

CONSTANTS Slave,   \* the slaves, a subset of Board
          Pins,    \* the address switch of a slave: GPIO 16..19 as a number
          RxDepth  \* the places of the receive FIFO

ASSUME SlaveAssumption == /\ Slave \subseteq Board
                          /\ Pins \in [Slave -> 0..15]
                          /\ RxDepth \in Nat \ {0}

VARIABLES
  raw,         \* the interrupt bits raised and not cleared
  rx, tx,      \* the FIFOs
  irq,         \* the bits of intr_stat the handler has still to serve
  transfer_in_progress,
  handled,     \* history: the bytes slave_on_receive was called with,
  cuts         \* ... and after which of them a call ended

irqVars   == <<raw, rx, tx, irq, transfer_in_progress>>
calls     == <<handled, cuts>>
slaveVars == <<wireVars, irqVars, calls>>

IrqInit == /\ raw     = [s \in Slave |-> {}]
           /\ rx      = [s \in Slave |-> <<>>]
           /\ tx      = [s \in Slave |-> <<>>]
           /\ irq     = [s \in Slave |-> {}]
           /\ transfer_in_progress = [s \in Slave |-> FALSE]
           /\ handled = [s \in Slave |-> <<>>]
           /\ cuts    = [s \in Slave |-> {}]

\* getAddress: DEFAULT_SLAVE_ADDRESS | the switch
Address(s) == IF Pins[s] > 0 /\ Pins[s] < 128 THEN 80 + Pins[s] ELSE 80

\* The slave answers on the bus: its main has come to Wire1.begin.
Up(s) == mode[s] = "Slave"

\* Wire1.begin(getAddress()) of the slave's main, with i2c_slave_init
SlaveBegin(s) == /\ mode[s] = "Unassigned"
                 /\ Begin(s, "Slave")
                 /\ UNCHANGED <<irqVars, calls>>

-----------------------------------------------------------------------------
(* i2c_slave_irq_handler *)

\* Mutant of Before: START comes behind RX_FULL.
BeforeStartLater(bit) == CASE bit = "TX_ABRT" -> {}
                           [] bit = "STOP"    -> {"TX_ABRT"}
                           [] bit = "RX_FULL" -> {"TX_ABRT", "STOP"}
                           [] bit = "START"   -> {"TX_ABRT", "STOP", "RX_FULL"}
                           [] bit = "RD_REQ"  -> {"TX_ABRT", "STOP", "RX_FULL", "START"}

\* The bits that end a transfer, and all of them
Ends == {"TX_ABRT", "START", "STOP"}
Bits == Ends \cup {"RX_FULL", "RD_REQ"}

\* The order of its if statements: those before the one for a bit
Before(bit) == CASE bit = "TX_ABRT" -> {}
                 [] bit = "START"   -> {"TX_ABRT"}
                 [] bit = "STOP"    -> {"TX_ABRT", "START"}
                 [] bit = "RX_FULL" -> Ends
                 [] bit = "RD_REQ"  -> Ends \cup {"RX_FULL"}

\* RX_FULL is not cleared: it is there while the FIFO is not empty.
Pending(s) == raw[s] \cup (IF rx[s] # <<>> THEN {"RX_FULL"} ELSE {})

IrqEnter(s) ==
  /\ Up(s) /\ irq[s] = {} /\ Pending(s) # {}
  /\ irq' = [irq EXCEPT ![s] = Pending(s)]
  /\ UNCHANGED <<wireVars, raw, rx, tx, transfer_in_progress, calls>>

Serves(s, bit) == /\ bit \in irq[s] /\ irq[s] \cap Before(bit) = {}
                  /\ irq' = [irq EXCEPT ![s] = @ \ {bit}]

Clears(s, bit) == raw' = [raw EXCEPT ![s] = @ \ {bit}]

\* slave_on_receive is called with the bytes of the buffer, if there are any.
Handle(s) ==
  /\ handled' = [handled EXCEPT ![s] = @ \o buf[s]]
  /\ cuts'    = [cuts EXCEPT ![s] = IF buf[s] = <<>> THEN @ ELSE @ \cup {Len(handled'[s])}]

\* Mutant of Finish: a START ends no message.
FinishNotStart(s, bit) ==
  /\ Serves(s, bit) /\ Clears(s, bit)
  /\ IF transfer_in_progress[s] /\ bit # "START"
       THEN /\ OnFinish(s)
            /\ Handle(s)
            /\ transfer_in_progress' = [transfer_in_progress EXCEPT ![s] = FALSE]
       ELSE UNCHANGED <<wireVars, calls, transfer_in_progress>>
  /\ UNCHANGED <<rx, tx>>

\* TX_ABRT, START, STOP: clear the bit, finish_transfer
Finish(s, bit) ==
  /\ Serves(s, bit) /\ Clears(s, bit)
  /\ IF transfer_in_progress[s]
       THEN /\ OnFinish(s)
            /\ Handle(s)
            /\ transfer_in_progress' = [transfer_in_progress EXCEPT ![s] = FALSE]
       ELSE UNCHANGED <<wireVars, calls, transfer_in_progress>>
  /\ UNCHANGED <<rx, tx>>

\* Mutant of Receive: one byte of the FIFO, and the rest is thrown away.
ReceiveOne(s) ==
  /\ Serves(s, "RX_FULL")
  /\ OnReceive(s, SubSeq(rx[s], 1, 1))
  /\ rx' = [rx EXCEPT ![s] = <<>>]
  /\ transfer_in_progress' = [transfer_in_progress EXCEPT ![s] = TRUE]
  /\ UNCHANGED <<raw, tx, calls>>

\* RX_FULL: I2C_SLAVE_RECEIVE
Receive(s) ==
  /\ Serves(s, "RX_FULL")
  /\ OnReceive(s, rx[s])
  /\ rx' = [rx EXCEPT ![s] = <<>>]
  /\ transfer_in_progress' = [transfer_in_progress EXCEPT ![s] = TRUE]
  /\ UNCHANGED <<raw, tx, calls>>

\* One character of the answer to the message the slave handled last: 0 before the first.
Response(s) ==
  [msg |-> IF handled[s] = <<>> THEN 0 ELSE handled[s][Len(handled[s])].msg, nr |-> 0]

\* Mutant of Request: only the first byte of a read is answered.
RequestOnce(s) ==
  /\ Serves(s, "RD_REQ") /\ Clears(s, "RD_REQ")
  /\ tx' = [tx EXCEPT ![s] = IF transfer_in_progress[s] THEN @
                             ELSE Append(@, Response(s))]
  /\ transfer_in_progress' = [transfer_in_progress EXCEPT ![s] = TRUE]
  /\ UNCHANGED <<wireVars, rx, calls>>

\* RD_REQ: slave_on_request writes one character of the answer to the message
\* handled last into the transmit FIFO (i2c_write_byte).
Request(s) ==
  /\ Serves(s, "RD_REQ") /\ Clears(s, "RD_REQ")
  /\ tx' = [tx EXCEPT ![s] = Append(@, Response(s))]
  /\ transfer_in_progress' = [transfer_in_progress EXCEPT ![s] = TRUE]
  /\ UNCHANGED <<wireVars, rx, calls>>

Interrupt(s) == \/ IrqEnter(s)
                \/ \E bit \in Ends : Finish(s, bit)
                \/ Receive(s)
                \/ Request(s)
=============================================================================
