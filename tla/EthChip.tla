------------------------------- MODULE EthChip -------------------------------
(***************************************************************************)
(* The W5100S as both cores of the master use it: the SPI bus behind the   *)
(* critical section of port/ioLibrary_Driver/src/w5x00_spi.c, and socket 0 *)
(* of the chip in MACRAW mode (external).  ioLibrary reads or writes a     *)
(* register or a run of the buffer memory in one access: it enters the     *)
(* critical section, pulls CS down, moves the bytes, lets CS go and leaves *)
(* the critical section.  Before wizchip_cris_initialize it enters none.   *)
(*                                                                         *)
(* A cell of the buffer memory stands for a run of bytes; it holds the     *)
(* number of the frame it is from, 0 for zeros.                            *)
(***************************************************************************)
EXTENDS Integers, Sequences

CONSTANTS TxMem,      \* cells of the transmit memory
          MaxArrive   \* bound: frames that arrive

ASSUME ChipAssumption == TxMem \in Nat \ {0} /\ MaxArrive \in Nat

Core == {0, 1}

VARIABLES
  cris,        \* the critical section is registered
  section,     \* the core in it, or NoCore
  access,      \* access[c]: core c holds CS down
  opened,      \* the MACRAW socket is open
  txMem, TX_RD, TX_WR,  \* the transmit memory and its pointers
  CR,          \* a SEND the chip has not taken yet
  IR,          \* Sn_IR: SENDOK, TIMEOUT
  rxMem,       \* the receive memory: each frame behind its two length bytes
  arrived,     \* history: the frames that came, by length
  wire         \* history: the packets that were sent

spiVars  == <<cris, section, access>>
sockVars == <<opened, txMem, TX_RD, TX_WR, CR, IR, rxMem, arrived, wire>>
chipVars == <<spiVars, sockVars>>
NoCore   == 2

ChipInit ==
  /\ cris = FALSE /\ section = NoCore /\ access = [c \in Core |-> FALSE]
  /\ opened = FALSE
  /\ txMem = [n \in 1..TxMem |-> 0] /\ TX_RD = 0 /\ TX_WR = 0
  /\ CR = FALSE /\ IR = {}
  /\ rxMem = <<>> /\ arrived = <<>> /\ wire = <<>>

-----------------------------------------------------------------------------
(* One access *)

\* Mutant of Enter: the critical section keeps nobody out.
EnterAnyway(c) ==
  /\ ~access[c]
  /\ section' = IF cris THEN c ELSE section
  /\ access' = [access EXCEPT ![c] = TRUE]
  /\ UNCHANGED <<cris, sockVars>>

\* wizchip_critical_section_lock, wizchip_select
Enter(c) ==
  /\ ~access[c]
  /\ cris => section = NoCore
  /\ section' = IF cris THEN c ELSE section
  /\ access' = [access EXCEPT ![c] = TRUE]
  /\ UNCHANGED <<cris, sockVars>>

\* ..., the bytes, then wizchip_deselect, wizchip_critical_section_unlock
Leave(c) ==
  /\ access[c]
  /\ access' = [access EXCEPT ![c] = FALSE]
  /\ section' = IF cris THEN NoCore ELSE section
  /\ UNCHANGED cris

\* wizchip_cris_initialize
RegisterCris == /\ ~cris /\ cris' = TRUE
                /\ UNCHANGED <<section, access, sockVars>>

-----------------------------------------------------------------------------
(* The registers and the memory, each within one access *)

\* WIZCHIP_WRITE_BUF in wiz_send_data, setSn_TX_WR, setSn_CR(SEND)
PutBytes(ptr, cells) ==
  /\ txMem' = [n \in 1..TxMem |-> IF n > ptr /\ n <= ptr + Len(cells)
                                  THEN cells[n - ptr] ELSE txMem[n]]
  /\ UNCHANGED <<opened, TX_RD, TX_WR, CR, IR, rxMem, arrived, wire>>

SetTxWr(ptr) == /\ TX_WR' = ptr
                /\ UNCHANGED <<opened, txMem, TX_RD, CR, IR, rxMem, arrived, wire>>

SetSend == /\ CR' = TRUE
           /\ UNCHANGED <<opened, txMem, TX_RD, TX_WR, IR, rxMem, arrived, wire>>

\* setSn_IR: the bit is cleared
ClearIR(bit) == /\ IR' = IR \ {bit}
                /\ UNCHANGED <<opened, txMem, TX_RD, TX_WR, CR, rxMem, arrived, wire>>

\* wiz_recv_data, wiz_recv_ignore, with the RECV command: n cells are gone
TakeCells(n) == /\ rxMem' = SubSeq(rxMem, n + 1, Len(rxMem))
                /\ UNCHANGED <<opened, txMem, TX_RD, TX_WR, CR, IR, arrived, wire>>

-----------------------------------------------------------------------------
(* What the chip does by itself *)

\* It takes the SEND command and sends what is between the pointers, or gives
\* up.
ChipSends ==
  /\ CR /\ opened
  /\ CR' = FALSE
  /\ \/ /\ IR' = IR \cup {"SENDOK"}
        /\ wire' = Append(wire, SubSeq(txMem, TX_RD + 1, TX_WR))
     \/ /\ IR' = IR \cup {"TIMEOUT"}
        /\ UNCHANGED wire
  /\ TX_RD' = TX_WR
  /\ UNCHANGED <<spiVars, opened, txMem, TX_WR, rxMem, arrived>>

\* A frame of n cells arrives: two cells of length, then the frame.
Head2(k, n) == <<[frame |-> k, len |-> n + 2], [frame |-> k, len |-> n + 2]>>
Cells(k, n) == [i \in 1..n |-> [frame |-> k, len |-> 0]]

ChipReceives(n) ==
  /\ opened /\ Len(arrived) < MaxArrive
  /\ arrived' = Append(arrived, n)
  /\ rxMem' = rxMem \o Head2(Len(arrived) + 1, n) \o Cells(Len(arrived) + 1, n)
  /\ UNCHANGED <<spiVars, opened, txMem, TX_RD, TX_WR, CR, IR, wire>>
=============================================================================
