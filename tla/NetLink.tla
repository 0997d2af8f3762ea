------------------------------- MODULE NetLink -------------------------------
(***************************************************************************)
(* The link between lwIP and the Ethernet chip: port/lwip/src/w5x00_lwip.c *)
(* as minerMaster calls it, from both cores.  Core 1 runs                  *)
(* wizchip_lwip_process for ever; core 0 calls lwIP from the states of the *)
(* miner (tcp_connect, tcp_write, tcp_close), and lwIP calls netif_output  *)
(* on whichever core it was called.  lwIP itself is external: it asks for  *)
(* frames to be sent, and takes or refuses the ones that arrive.           *)
(*                                                                         *)
(* The critical section covers one access to the chip, not netif_output:   *)
(* overlap says that both cores were in it at once, with one tx_frame and  *)
(* one transmit pointer between them.                                      *)
(***************************************************************************)
EXTENDS EthChip

CONSTANTS Chains,     \* the pbuf chains lwIP sends on a core
          Arrivals,   \* Arrivals[k]: the lengths the k-th frame that arrives may have
          MinFrame,   \* 60: the length netif_output pads to
          FrameSize,  \* 1542: the cells of tx_frame
          PackSize,   \* ETHERNET_MTU, 1500: the cells of pack2, the buffer for a frame
          PoolSize,   \* the pbufs of PBUF_POOL
          MaxFrame    \* bound: frames lwIP sends

\* A pbuf's tot_len counts its own bytes and those of the pbufs behind it.
PbufChain(chain) ==
  /\ chain \in Seq([len : Nat, tot_len : Nat]) /\ chain # <<>>
  /\ \A i \in DOMAIN chain :
       chain[i].tot_len = chain[i].len + IF i = Len(chain) THEN 0 ELSE chain[i + 1].tot_len

Total(chain) == chain[1].tot_len

ASSUME LinkAssumption ==
  /\ \A c \in Core : \A ch \in Chains[c] : PbufChain(ch) /\ Total(ch) \in 1..FrameSize
  /\ Arrivals \in [1..MaxArrive -> SUBSET (Nat \ {0})]
  /\ FrameSize \in Nat /\ MinFrame \in 1..FrameSize /\ PackSize \in Nat /\ PoolSize \in Nat /\ MaxFrame \in Nat
  /\ TxMem >= FrameSize * MaxFrame

VARIABLES
  pc,        \* where each core is
  tx_frame,  \* the frame buffer of both cores
  out,       \* locals of netif_output and send_lwip
  pack_len,  \* local of wizchip_lwip_process, and of recv_lwip
  pool,      \* pbufs that are free
  held,      \* pbufs lwIP keeps
  leased,    \* the DHCP client has an address
  overlap,   \* history: both cores were in netif_output at once
  frames,    \* history: the frames lwIP had sent, as they should be on the wire
  taken      \* history: what pack2 held of each frame that core 1 read

linkVars == <<tx_frame, out, pack_len, pool, held, leased>>
history  == <<overlap, frames, taken>>
vars     == <<chipVars, pc, linkVars, history>>

Nothing == [id |-> 0, parts |-> <<>>, len |-> 0, ptr |-> 0, back |-> "idle"]

Init ==
  /\ ChipInit
  /\ pc = [c \in Core |-> IF c = 0 THEN "spi" ELSE "off"]
  /\ tx_frame = [n \in 1..FrameSize |-> 0]
  /\ out  = [c \in Core |-> Nothing]
  /\ pack_len = 0
  /\ pool = PoolSize /\ held = 0
  /\ leased = FALSE
  /\ overlap = FALSE /\ frames = <<>> /\ taken = <<>>

Go(c, there) == pc' = [pc EXCEPT ![c] = there]
Quiet        == UNCHANGED sockVars

\* Core c moves from one place to the next, in an access to the chip or without.
ByAccess(c, here, there) == pc[c] = here /\ Leave(c) /\ Go(c, there)
ByItself(c, here, there) == pc[c] = here /\ UNCHANGED chipVars /\ Go(c, there)

-----------------------------------------------------------------------------
(* main of minerMaster, up to its loop *)

\* wizchip_spi_initialize (CS up); wizchip_reset comes behind Cris
Spi  == ByItself(0, "spi", "cris") /\ UNCHANGED <<linkVars, history>>

Cris == /\ pc[0] = "cris" /\ RegisterCris /\ Go(0, "init")
        /\ UNCHANGED <<linkVars, history>>

\* wizchip_initialize: a chip that does not answer is only reported, and the
\* loop goes on until there is a link.
Initialize == /\ \E there \in {"init", "check"} : ByAccess(0, "init", there)
              /\ Quiet /\ UNCHANGED <<linkVars, history>>

\* wizchip_check: the wrong version stops core 0
Check == /\ \E there \in {"lease", "halt"} : ByAccess(0, "check", there)
         /\ Quiet /\ UNCHANGED <<linkVars, history>>

\* Mutant of Lease: DHCP_run is called once.
LeaseOnce == /\ \E there \in {"lease", "lwip", "halt"} :
                  /\ ByAccess(0, "lease", IF there = "lease" THEN "lwip" ELSE there)
                  /\ leased' = (there = "lwip")
             /\ Quiet /\ UNCHANGED <<tx_frame, out, pack_len, pool, held, history>>

\* wizchip_net_info_set: DHCP_run until there is an address (wizchip_dhcp_assign
\* writes it into the chip); a conflict stops core 0.
Lease == /\ \E there \in {"lease", "lwip", "halt"} :
              /\ ByAccess(0, "lease", there)
              /\ leased' = (there = "lwip")
         /\ Quiet /\ UNCHANGED <<tx_frame, out, pack_len, pool, held, history>>

\* update_pool: DNS and HTTP with sockets of their own, while the MACRAW socket is
\* not open; core 0 uses the chip any number of times.
UpdatePool == ByAccess(0, "lwip", "lwip") /\ Quiet /\ UNCHANGED <<linkVars, history>>

\* wizchip_lwip_init: the MACRAW socket, which is only reported when it fails; the
\* frames that lwIP sends when the interface comes up are those of Output.
LwipInit == /\ ByAccess(0, "lwip", "launch")
            /\ opened' \in BOOLEAN
            /\ UNCHANGED <<txMem, TX_RD, TX_WR, CR, IR, rxMem, arrived, wire>>
            /\ UNCHANGED <<linkVars, history>>

\* multicore_launch_core1
Launch == /\ pc[0] = "launch" /\ pc' = [pc EXCEPT ![0] = "idle", ![1] = "process"]
          /\ UNCHANGED <<chipVars, linkVars, history>>

\* DHCP_run in the loop of main, with a socket of its own: core 0 uses the chip.  (A
\* core 0 that a conflict stops is one that never sends again.)
DhcpRun == /\ \/ ByItself(0, "idle", "dhcp")
              \/ Quiet /\ \E there \in {"dhcp", "idle"} : ByAccess(0, "dhcp", there)
           /\ UNCHANGED <<linkVars, history>>

Boot == Spi \/ Cris \/ Initialize \/ Check \/ Lease \/ UpdatePool \/ LwipInit \/ Launch
        \/ DhcpRun

-----------------------------------------------------------------------------
(* netif_output and send_lwip, on core c *)

Sending == {"clear", "copy", "wr", "put", "setwr", "send", "ir", "ack", "nak"}

\* A pbuf chain as it should be on the wire: its bytes, padded with zeros
Padded(id, len) == [n \in 1..(IF len < MinFrame THEN MinFrame ELSE len) |->
                      IF n <= len THEN id ELSE 0]

\* Where lwIP runs on a core: on core 0 in netif_set_up before the launch, then in
\* the calls of the miner, on core 1 in netif->input or sys_check_timeouts.
Callers(c) == IF c = 0 THEN {"launch", "idle"} ELSE {"timers"}

\* lwIP has a frame to send.
Output(c, chain) ==
  /\ pc[c] \in Callers(c)
  /\ Len(frames) < MaxFrame
  /\ Go(c, "clear")
  /\ out' = [out EXCEPT ![c] = [id |-> Len(frames) + 1, parts |-> chain,
                               len |-> 0, ptr |-> 0, back |-> pc[c]]]
  /\ frames' = Append(frames, Padded(Len(frames) + 1, Total(chain)))
  /\ overlap' = (overlap \/ pc[1 - c] \in Sending)
  /\ UNCHANGED <<chipVars, tx_frame, pack_len, pool, held, leased, taken>>

\* Mutant of Clear: the frame before is still in the buffer.
ClearNot(c) == /\ ByItself(c, "clear", "copy")
               /\ UNCHANGED <<linkVars, history>>

Clear(c) == /\ ByItself(c, "clear", "copy")
            /\ tx_frame' = [n \in 1..FrameSize |-> 0]
            /\ UNCHANGED <<out, pack_len, pool, held, leased, history>>

\* A pbuf of the chain; the last is the one whose len is its tot_len, and then
\* the length is padded.
Copy(c) ==
  LET o    == out[c]
      n    == Head(o.parts).len
      last == n = Head(o.parts).tot_len
  IN  /\ ByItself(c, "copy", IF last THEN "wr" ELSE "copy")
      /\ tx_frame' = [k \in 1..FrameSize |-> IF k > o.len /\ k <= o.len + n
                                             THEN o.id ELSE tx_frame[k]]
      /\ out' = [out EXCEPT ![c] = [@ EXCEPT
                   !.len = IF last /\ o.len + n < MinFrame THEN MinFrame ELSE o.len + n,
                   !.parts = Tail(o.parts)]]
      /\ UNCHANGED <<pack_len, pool, held, leased, history>>

\* wiz_send_data: getSn_TX_WR, the bytes, setSn_TX_WR
ReadTxWr(c) == /\ ByAccess(c, "wr", "put") /\ Quiet
               /\ out' = [out EXCEPT ![c] = [@ EXCEPT !.ptr = TX_WR]]
               /\ UNCHANGED <<tx_frame, pack_len, pool, held, leased, history>>

Put(c) == /\ ByAccess(c, "put", "setwr")
          /\ PutBytes(out[c].ptr, SubSeq(tx_frame, 1, out[c].len))
          /\ UNCHANGED <<linkVars, history>>

WriteTxWr(c) == /\ ByAccess(c, "setwr", "send")
                /\ SetTxWr(out[c].ptr + out[c].len)
                /\ UNCHANGED <<linkVars, history>>

\* setSn_CR(Sn_CR_SEND); the loop waits until the chip has taken the command
Send(c) == /\ ByAccess(c, "send", "ir") /\ SetSend
           /\ UNCHANGED <<linkVars, history>>

\* Mutant of PollIR: the loop ends with SENDOK only.
PollIRSendOk(c) ==
  /\ ~CR
  /\ ByAccess(c, "ir", IF "SENDOK" \in IR THEN "ack" ELSE "ir")
  /\ Quiet
  /\ UNCHANGED <<linkVars, history>>

\* The loop over Sn_IR, which ends with SENDOK or TIMEOUT only
PollIR(c) ==
  /\ ~CR
  /\ ByAccess(c, "ir", IF "SENDOK" \in IR THEN "ack"
                       ELSE IF "TIMEOUT" \in IR THEN "nak" ELSE "ir")
  /\ Quiet
  /\ UNCHANGED <<linkVars, history>>

\* setSn_IR; netif_output says ERR_OK either way
Sent(c) ==
  /\ \/ ByAccess(c, "ack", out[c].back) /\ ClearIR("SENDOK")
     \/ ByAccess(c, "nak", out[c].back) /\ ClearIR("TIMEOUT")
  /\ out' = [out EXCEPT ![c] = Nothing]
  /\ UNCHANGED <<tx_frame, pack_len, pool, held, leased, history>>

NetifOutput(c) == \/ \E chain \in Chains[c] : Output(c, chain)
                  \/ Clear(c) \/ Copy(c) \/ ReadTxWr(c) \/ Put(c)
                  \/ WriteTxWr(c) \/ Send(c) \/ PollIR(c) \/ Sent(c)

-----------------------------------------------------------------------------
(* core1_entry: wizchip_lwip_process for ever *)

\* getsockopt(SO_RECVBUF)
RecvBuf == /\ ByAccess(1, "process", IF rxMem = <<>> THEN "timers" ELSE "recv") /\ Quiet
           /\ pack_len' = Len(rxMem)
           /\ UNCHANGED <<tx_frame, out, pool, held, leased, history>>

\* What pack2 has room for.
InPack(n) == IF n > PackSize THEN PackSize ELSE n

\* Mutant of Recv: the two bytes of the length are taken for part of the frame.
RecvWithHead ==
  LET n == rxMem[1].len
  IN  /\ ByAccess(1, "recv", IF n > pack_len THEN "timers" ELSE "input")
      /\ TakeCells(n + 2)
      /\ pack_len' = IF n > pack_len THEN 0 ELSE n
      /\ taken' = Append(taken, IF n > pack_len THEN <<>> ELSE
                    SubSeq(rxMem, 3, IF n + 2 < Len(rxMem) THEN n + 2 ELSE Len(rxMem)))
      /\ UNCHANGED <<tx_frame, out, pool, held, leased, overlap, frames>>

\* recv_lwip: the length, then the frame, or nothing of one that is longer than
\* what getsockopt said.  The size of pack2 is not known here: a frame that is
\* longer is written behind it as well, and what comes of that is undefined (the
\* core goes on, or stops).  Only core 1 receives: its accesses are one step.  That
\* the chip has taken a RECV by the next access is assumed: nothing waits for it.
Recv ==
  LET n == rxMem[1].len - 2
  IN  /\ \/ ByAccess(1, "recv", IF n > pack_len THEN "timers" ELSE "input")
         \/ ByAccess(1, "recv", "halt") /\ n <= pack_len /\ n > PackSize
      /\ TakeCells(n + 2)
      /\ pack_len' = IF n > pack_len THEN 0 ELSE n
      /\ taken' = Append(taken, IF n > pack_len THEN <<>> ELSE SubSeq(rxMem, 3, 2 + InPack(n)))
      /\ UNCHANGED <<tx_frame, out, pool, held, leased, overlap, frames>>

\* Mutant of Taken: a frame that lwIP refuses is not freed.
TakenLeaks(answer) == /\ held' = held + (IF answer = "kept" THEN 1 ELSE 0)
                      /\ pool' = pool - (IF answer \in {"kept", "refused"} THEN 1 ELSE 0)

\* What becomes of the pbuf: lwIP keeps it, has freed it, or refuses it, and
\* then wizchip_lwip_process frees it.
Taken(answer) == /\ held' = held + (IF answer = "kept" THEN 1 ELSE 0)
                 /\ pool' = pool - (IF answer = "kept" THEN 1 ELSE 0)

\* pbuf_alloc, pbuf_take, netif->input: without a free pbuf the frame is dropped
Input ==
  /\ ByItself(1, "input", "timers")
  /\ IF pool = 0 THEN UNCHANGED <<pool, held>>
                  ELSE \E answer \in {"kept", "done", "refused"} : Taken(answer)
  /\ UNCHANGED <<tx_frame, out, pack_len, leased, history>>

\* sys_check_timeouts, with no more frames to send
Timers == /\ ByItself(1, "timers", "process")
          /\ pack_len' = 0
          /\ UNCHANGED <<tx_frame, out, pool, held, leased, history>>

\* lwIP hands the bytes of a pbuf it kept to the miner's callback.
LwipFrees == /\ held > 0 /\ held' = held - 1 /\ pool' = pool + 1
             /\ UNCHANGED <<chipVars, pc, tx_frame, out, pack_len, leased, history>>

Process == RecvBuf \/ Recv \/ Input \/ Timers

-----------------------------------------------------------------------------

AtChip(c) == pc[c] \in {"init", "check", "lease", "lwip", "dhcp", "wr", "put", "setwr",
                        "send", "ir", "ack", "nak", "process", "recv"}

EnterChip(c) == AtChip(c) /\ Enter(c) /\ UNCHANGED <<pc, linkVars, history>>

CoreStep(c) == \/ EnterChip(c)
               \/ NetifOutput(c)
               \/ c = 0 /\ Boot
               \/ c = 1 /\ Process

Chip == /\ \/ ChipSends
           \/ /\ Len(arrived) < MaxArrive
              /\ \E n \in Arrivals[Len(arrived) + 1] : ChipReceives(n)
        /\ UNCHANGED <<pc, linkVars, history>>

Next == (\E c \in Core : CoreStep(c)) \/ Chip \/ LwipFrees

Spec == Init /\ [][Next]_vars

\* A core goes on, and gets into the critical section between two accesses of the
\* other (an access is a few microseconds long): it does not wait for ever for what
\* is free again and again, hence strong fairness.  The chip carries out what it is told.  Nothing makes a frame arrive,
\* and nothing makes lwIP free a pbuf.
LiveSpec == /\ Spec
            /\ \A c \in Core : SF_vars(CoreStep(c))
            /\ WF_vars(ChipSends /\ UNCHANGED <<pc, linkVars, history>>)

-----------------------------------------------------------------------------
(* Properties *)

Pc == Sending \cup {"spi", "cris", "init", "check", "lease", "lwip", "launch", "halt",
                   "off", "idle", "dhcp", "process", "recv", "input", "timers"}

OutRecord == [id : 0..MaxFrame, parts : Seq([len : Nat, tot_len : Nat]), len : 0..FrameSize,
              ptr : 0..TxMem, back : {"launch", "idle", "timers"}]
Cell      == [frame : Nat, len : Nat]

CoreType == /\ pc \in [Core -> Pc] /\ access \in [Core -> BOOLEAN]
            /\ section \in Core \cup {NoCore} /\ cris \in BOOLEAN /\ leased \in BOOLEAN
            /\ pc[1] # "off" => cris /\ leased
OutType  == /\ tx_frame \in [1..FrameSize -> 0..MaxFrame] /\ out \in [Core -> OutRecord]
            /\ frames \in Seq(Seq(0..MaxFrame)) /\ overlap \in BOOLEAN
ChipType == /\ opened \in BOOLEAN /\ CR \in BOOLEAN /\ IR \subseteq {"SENDOK", "TIMEOUT"}
            /\ txMem \in [1..TxMem -> 0..MaxFrame]
            /\ TX_RD \in 0..TxMem /\ TX_WR \in 0..TxMem /\ wire \in Seq(Seq(0..MaxFrame))
RxType   == /\ arrived \in Seq(Nat \ {0}) /\ rxMem \in Seq(Cell) /\ taken \in Seq(Seq(Cell))
            /\ pack_len \in Nat
PbufType == pool \in 0..PoolSize /\ held \in 0..PoolSize

\* The values of the variables; a frame never outgrows tx_frame, nor the pointers
\* the memory of the chip.
TypeOK == CoreType /\ OutType /\ ChipType /\ RxType /\ PbufType

\* Never do both cores hold CS down: the critical section is registered before
\* core 1 starts, and each access is inside it.
OneAccess == ~(access[0] /\ access[1])

\* As long as the cores do not overlap in netif_output, every packet on the
\* wire is a frame as lwIP gave it, padded with zeros, and the packets are in
\* the order of the frames, each at most once.
FramesOnWire ==
  ~overlap =>
    \A i \in DOMAIN wire :
      /\ \E f \in DOMAIN frames : wire[i] = frames[f]
      /\ i > 1 => wire[i - 1][1] < wire[i][1]

\* A frame that fits into pack2 is taken out of the chip whole and in its turn, also
\* behind one that does not fit (longer than ETHERNET_MTU, which the header of an
\* Ethernet frame is enough for), and whatever the other core does meanwhile.
FramesTaken == \A i \in DOMAIN taken : arrived[i] <= PackSize => taken[i] = Cells(i, arrived[i])

\* Every pbuf is free or lwIP's: none is lost with a frame that is refused.
PbufsAccounted == pool + held = PoolSize

\* Without an overlap a core comes back from netif_output, when the socket is
\* open (the loop over Sn_IR has no time-out).
SendEnds ==
  \A c \in Core : pc[c] \in Sending ~> (pc[c] \notin Sending \/ overlap \/ ~opened)

-----------------------------------------------------------------------------
(* Why they hold *)

Frame(k) == [frame |-> k, len |-> 0]
Room(n)  == FrameSize * n

\* the frames for which TX_WR has been moved, or is not to be
Owes(c)  == IF pc[c] \in {"clear", "copy", "wr", "put", "setwr"} THEN 1 ELSE 0
Written  == Len(frames) - (Owes(0) + Owes(1))

\* The chip is used behind the critical section only, and core 1 starts last.
BootInv ==
  /\ pc[0] \in Pc \ {"off", "process", "recv", "input", "timers"}
  /\ pc[1] \in Sending \cup {"off", "process", "recv", "input", "timers", "halt"}
  /\ pc[0] \in {"spi", "cris"} \/ cris
  /\ pc[0] \notin Sending \cup {"idle", "dhcp"} => pc[1] = "off"
  /\ pc[0] \in {"lwip", "launch"} => leased
  /\ \A c \in Core : access[c] => cris /\ section = c /\ AtChip(c)
  /\ \A c \in Core : pc[c] \in Sending => out[c].back \in Callers(c)
  /\ pc[0] \in Sending /\ out[0].back = "launch" => pc[1] = "off" /\ leased

\* There is room for every frame in tx_frame and in the chip, in whatever order
\* the cores get there.
RoomFor(c) ==
  LET o == out[c]
  IN  /\ pc[c] \in {"put", "setwr"} => o.ptr <= Room(Written)
      /\ pc[c] \in {"clear", "copy"} =>
           PbufChain(o.parts) /\ o.len + Total(o.parts) \in 1..FrameSize
      /\ pc[c] \in Sending => o.id \in 1..Len(frames)

RoomInv ==
  /\ Written \in Nat /\ TX_WR <= Room(Written) /\ Len(frames) <= MaxFrame
  /\ \A c \in Core : RoomFor(c)

\* Where the frame of a core is, as long as the cores do not overlap: on its way
\* from the pbufs through tx_frame and the chip's memory to the wire.
OnItsWay(c) ==
  LET o == out[c]
      f == frames[o.id]
      Fresh == \A i \in DOMAIN wire : wire[i][1] < o.id
      Still == ~CR /\ TX_RD = TX_WR
  IN  /\ o.id = Len(frames) /\ pc[1 - c] \notin Sending
      /\ pc[c] \in {"clear", "copy", "wr", "put", "setwr", "send"} => ~CR /\ Fresh
      /\ pc[c] \in {"clear", "copy", "wr", "put", "setwr"} => TX_RD = TX_WR
      /\ pc[c] = "clear" => o.len = 0
      /\ pc[c] \in {"clear", "copy"} => f = Padded(o.id, o.len + Total(o.parts))
      /\ pc[c] = "copy" => tx_frame = [k \in 1..FrameSize |-> IF k <= o.len THEN o.id ELSE 0]
      /\ pc[c] \in {"wr", "put"} => SubSeq(tx_frame, 1, o.len) = f
      /\ pc[c] \in {"put", "setwr"} => o.ptr = TX_WR
      /\ pc[c] \in {"wr", "put", "setwr"} => Len(f) = o.len
      /\ pc[c] = "setwr" => SubSeq(txMem, o.ptr + 1, o.ptr + o.len) = f
      /\ pc[c] = "send" => SubSeq(txMem, TX_RD + 1, TX_WR) = f
      /\ pc[c] = "ir" /\ CR => SubSeq(txMem, TX_RD + 1, TX_WR) = f /\ Fresh
      /\ pc[c] = "ir" /\ ~CR => TX_RD = TX_WR
      /\ pc[c] \in {"ack", "nak"} => Still

WireInv ==
  /\ \A f \in DOMAIN frames : frames[f] # <<>> /\ frames[f][1] = f
  /\ ~overlap => /\ \A c \in Core : pc[c] \in Sending => OnItsWay(c)
                 /\ (\A c \in Core : pc[c] \notin Sending) => ~CR /\ TX_RD = TX_WR

\* The memory mem holds the frames of arr behind the t that were taken, each where
\* the one before ends.
InMemory(start, t, arr, mem) ==
  /\ start[t + 1] = 0 /\ start[Len(arr) + 1] = Len(mem)
  /\ \A k \in (t + 1)..Len(arr) :
       /\ start[k + 1] = start[k] + 2 + arr[k]
       /\ \A j \in (k + 1)..(Len(arr) + 1) : start[k + 1] <= start[j]
       /\ mem[start[k] + 1].len = arr[k] + 2
       /\ \A i \in 1..arr[k] : mem[start[k] + 2 + i] = Frame(k)

Holds(t, arr, mem) ==
  \E start \in [(t + 1)..(Len(arr) + 1) -> 0..Len(mem)] : InMemory(start, t, arr, mem)

RxInv ==
  /\ Len(taken) <= Len(arrived)
  /\ pc[1] = "recv" => Len(taken) < Len(arrived) /\ pack_len >= arrived[Len(taken) + 1] + 2
  /\ Holds(Len(taken), arrived, rxMem)

\* The inductive invariant: the types, who is at the chip, where a frame that is
\* sent is, and what is in the receive memory.
IInv == /\ TypeOK /\ BootInv /\ RoomInv /\ WireInv /\ RxInv
        /\ FramesOnWire /\ FramesTaken /\ PbufsAccounted
=============================================================================
