---------------------------- MODULE NetLinkProofs ----------------------------
(***************************************************************************)
(* The link between lwIP and the Ethernet chip, for any frames, any number *)
(* of them and any pool of pbufs.                                          *)
(***************************************************************************)
EXTENDS NetLink, TLAPS

-----------------------------------------------------------------------------
(* Sequences and the room for frames *)

\* A memory of cells is a sequence of its cells.
LEMMA Memory ==
  ASSUME NEW S, NEW n \in Nat, NEW m \in [1..n -> S]
  PROVE  m \in Seq(S) /\ Len(m) = n
OBVIOUS

\* What a burst of bytes is: a part of a memory, cell by cell.
LEMMA Burst ==
  ASSUME NEW S, NEW s \in Seq(S), NEW m \in Nat, NEW n \in Nat, m + n <= Len(s)
  PROVE  /\ SubSeq(s, m + 1, m + n) = [i \in 1..n |-> s[m + i]]
         /\ SubSeq(s, m + 1, m + n) \in Seq(S)
         /\ Len(SubSeq(s, m + 1, m + n)) = n
<1>1. SubSeq(s, m + 1, m + n) = [i \in 1..n |-> s[m + i]]
  OBVIOUS
<1>2. \A i \in 1..n : s[m + i] \in S
  OBVIOUS
<1> QED
  BY <1>1, <1>2

\* The rest of a sequence.
LEMMA Rest ==
  ASSUME NEW S, NEW s \in Seq(S), NEW m \in 0..Len(s)
  PROVE  /\ SubSeq(s, m + 1, Len(s)) \in Seq(S)
         /\ Len(SubSeq(s, m + 1, Len(s))) = Len(s) - m
         /\ \A i \in 1..(Len(s) - m) : SubSeq(s, m + 1, Len(s))[i] = s[m + i]
OBVIOUS

\* An element behind a sequence.
LEMMA Behind ==
  ASSUME NEW S, NEW s \in Seq(S), NEW x \in S
  PROVE  /\ Append(s, x) \in Seq(S) /\ Len(Append(s, x)) = Len(s) + 1
         /\ DOMAIN Append(s, x) = DOMAIN s \cup {Len(s) + 1}
         /\ Append(s, x)[Len(s) + 1] = x
         /\ \A i \in DOMAIN s : i \in 1..Len(s) /\ Append(s, x)[i] = s[i]
OBVIOUS

\* An element of a sequence.
LEMMA Element ==
  ASSUME NEW S, NEW s \in Seq(S)
  PROVE  \A i \in 1..Len(s) : s[i] \in S
OBVIOUS

\* A sequence with something in it is not empty.
LEMMA NotEmpty ==
  ASSUME NEW S, NEW s \in Seq(S), Len(s) >= 1
  PROVE  s # <<>>
OBVIOUS

\* The room that frames need.
LEMMA RoomForFrames ==
  /\ FrameSize \in Nat /\ MaxFrame \in Nat
  /\ \A n \in Nat : Room(n) \in Nat /\ Room(n + 1) = Room(n) + FrameSize
  /\ \A m, n \in Nat : m <= n => Room(m) <= Room(n)
  /\ Room(MaxFrame) <= TxMem
<1>1. FrameSize \in Nat /\ MaxFrame \in Nat /\ TxMem >= FrameSize * MaxFrame
  BY LinkAssumption
<1>2. ASSUME NEW n \in Nat PROVE FrameSize * n \in Nat /\ FrameSize * (n + 1) = FrameSize * n + FrameSize
  BY <1>1
<1>3. ASSUME NEW m \in Nat, NEW n \in Nat, m <= n PROVE FrameSize * m <= FrameSize * n
  BY <1>1, <1>3
<1> QED
  BY <1>1, <1>2, <1>3 DEF Room

\* A core and the other.
LEMMA TwoCores ==
  ASSUME NEW c \in Core
  PROVE  /\ 1 - c \in Core /\ 1 - c # c /\ 1 - (1 - c) = c /\ Core = {c, 1 - c}
         /\ 0 \in Core /\ 1 \in Core /\ NoCore \notin Core
BY DEF Core, NoCore

\* A pbuf of a chain, and the chain behind it.
LEMMA ChainStep ==
  ASSUME NEW ch, PbufChain(ch)
  PROVE  /\ Head(ch) = ch[1] /\ ch[1].len \in Nat /\ Total(ch) \in Nat /\ Total(ch) >= ch[1].len
         /\ Tail(ch) \in Seq([len : Nat, tot_len : Nat])
         /\ Total(ch) # ch[1].len => PbufChain(Tail(ch)) /\ Total(ch) = ch[1].len + Total(Tail(ch))
<1>1. /\ ch \in Seq([len : Nat, tot_len : Nat]) /\ ch # <<>>
      /\ \A i \in DOMAIN ch : ch[i].tot_len = ch[i].len + IF i = Len(ch) THEN 0 ELSE ch[i + 1].tot_len
  BY DEF PbufChain
<1>2. Len(ch) \in Nat \ {0} /\ DOMAIN ch = 1..Len(ch)
  BY <1>1
<1>3. \A i \in 1..Len(ch) : ch[i] \in [len : Nat, tot_len : Nat]
  BY <1>1, Element
<1>4. Head(ch) = ch[1] /\ ch[1].len \in Nat /\ ch[1].tot_len \in Nat
  BY <1>1, <1>2, <1>3
<1>5. Tail(ch) \in Seq([len : Nat, tot_len : Nat])
  BY <1>1
<1>6. ch[1].tot_len >= ch[1].len
  <2>1. CASE Len(ch) = 1
    BY <1>1, <1>2, <1>4, <2>1
  <2>2. CASE Len(ch) # 1
    <3>1. 1 \in DOMAIN ch /\ 2 \in 1..Len(ch) /\ 1 + 1 = 2
      BY <1>2, <2>2
    <3>2. ch[2].tot_len \in Nat
      BY <1>3, <3>1
    <3>3. ch[1].tot_len = ch[1].len + ch[2].tot_len
      BY <1>1, <2>2, <3>1
    <3> QED
      BY <1>4, <3>2, <3>3
  <2> QED
    BY <2>1, <2>2
<1>7. ASSUME ch[1].tot_len # ch[1].len
      PROVE  PbufChain(Tail(ch)) /\ ch[1].tot_len = ch[1].len + Tail(ch)[1].tot_len
  <2>1. Len(ch) > 1
    BY <1>1, <1>2, <1>4, <1>7
  <2>2. /\ Len(Tail(ch)) = Len(ch) - 1 /\ DOMAIN Tail(ch) = 1..(Len(ch) - 1)
        /\ \A i \in 1..(Len(ch) - 1) : Tail(ch)[i] = ch[i + 1]
    BY <1>1, <1>2
  <2>3. ASSUME NEW i \in DOMAIN Tail(ch)
        PROVE  Tail(ch)[i].tot_len = Tail(ch)[i].len + IF i = Len(Tail(ch)) THEN 0 ELSE Tail(ch)[i + 1].tot_len
    <3>1. i \in 1..(Len(ch) - 1) /\ i + 1 \in DOMAIN ch /\ i + 1 \in 1..Len(ch)
      BY <1>2, <2>2
    <3>2. ch[i + 1].tot_len = ch[i + 1].len + IF i + 1 = Len(ch) THEN 0 ELSE ch[i + 2].tot_len
      <4>1. (i + 1) + 1 = i + 2
        BY <3>1
      <4> QED
        BY <1>1, <3>1, <4>1
    <3>3. i = Len(Tail(ch)) <=> i + 1 = Len(ch)
      BY <1>2, <2>2, <3>1
    <3>4. i + 1 # Len(ch) => i + 1 \in 1..(Len(ch) - 1)
      BY <1>2, <3>1
    <3>5. i + 1 # Len(ch) => Tail(ch)[i + 1] = ch[i + 2]
      BY <2>2, <3>1, <3>4
    <3> QED
      BY <2>2, <3>1, <3>2, <3>3, <3>5
  <2>4. Tail(ch) # <<>>
    <3>1. Len(Tail(ch)) >= 1
      BY <1>2, <2>1, <2>2
    <3> QED
      BY <1>5, <3>1, NotEmpty
  <2>5. ch[1].tot_len = ch[1].len + ch[2].tot_len /\ Tail(ch)[1] = ch[2]
    <3>1. 1 \in DOMAIN ch /\ 1 \in 1..(Len(ch) - 1) /\ 1 + 1 = 2 /\ 1 # Len(ch)
      BY <1>2, <2>1
    <3> QED
      BY <1>1, <2>2, <3>1
  <2> QED
    BY <1>5, <2>3, <2>4, <2>5 DEF PbufChain
<1> QED
  BY <1>4, <1>5, <1>6, <1>7 DEF Total

-----------------------------------------------------------------------------
(* The bus of the chip: one core at a time *)

Idle(c) == pc'[c] = pc[c] /\ access'[c] = access[c]

\* Where a step leads, and what it leaves of the other core.
LEMMA Goes ==
  ASSUME TypeOK, NEW c \in Core, NEW there \in Pc, Go(c, there)
  PROVE  pc' \in [Core -> Pc] /\ pc'[c] = there /\ pc'[1 - c] = pc[1 - c]
BY TwoCores DEF TypeOK, CoreType, Go

\* What the steps of a core in netif_output and send_lwip leave of out.
LEMMA Locals ==
  ASSUME TypeOK, NEW c \in Core
  PROVE  /\ out[c] \in OutRecord /\ out[1 - c] \in OutRecord
         /\ Copy(c) =>
              /\ out'[1 - c] = out[1 - c] /\ out'[c].id = out[c].id /\ out'[c].back = out[c].back
              /\ out'[c].ptr = out[c].ptr /\ out'[c].parts = Tail(out[c].parts)
              /\ LET len == out[c].len + Head(out[c].parts).len
                 IN out'[c].len = IF Head(out[c].parts).len = Head(out[c].parts).tot_len /\ len < MinFrame
                                  THEN MinFrame ELSE len
         /\ ReadTxWr(c) =>
              /\ out'[1 - c] = out[1 - c] /\ out'[c].id = out[c].id /\ out'[c].back = out[c].back
              /\ out'[c].ptr = TX_WR /\ out'[c].parts = out[c].parts /\ out'[c].len = out[c].len
         /\ Sent(c) => out'[1 - c] = out[1 - c] /\ out'[c] = Nothing
<1>1. out[c] \in OutRecord /\ out[1 - c] \in OutRecord /\ out \in [Core -> OutRecord]
  BY TwoCores DEF TypeOK, OutType
<1>2. 1 - c # c /\ 1 - c \in Core
  BY TwoCores
<1>3. ASSUME Copy(c)
      PROVE  /\ out'[1 - c] = out[1 - c] /\ out'[c].id = out[c].id /\ out'[c].back = out[c].back
             /\ out'[c].ptr = out[c].ptr /\ out'[c].parts = Tail(out[c].parts)
             /\ LET len == out[c].len + Head(out[c].parts).len
                IN out'[c].len = IF Head(out[c].parts).len = Head(out[c].parts).tot_len /\ len < MinFrame
                                 THEN MinFrame ELSE len
  <2> DEFINE o == out[c]
             n == Head(o.parts).len
             m == IF n = Head(o.parts).tot_len /\ o.len + n < MinFrame THEN MinFrame ELSE o.len + n
             r == [o EXCEPT !.len = m, !.parts = Tail(o.parts)]
  <2>1. out' = [out EXCEPT ![c] = r]
    BY <1>3 DEF Copy
  <2>2. r.id = o.id /\ r.back = o.back /\ r.ptr = o.ptr /\ r.parts = Tail(o.parts) /\ r.len = m
    <3> HIDE DEF m, o
    <3>1. o \in OutRecord
      BY <1>1 DEF o
    <3> QED
      BY <3>1 DEF OutRecord
  <2>3. out'[c] = r /\ out'[1 - c] = out[1 - c]
    <3> HIDE DEF r
    <3> QED
      BY <1>1, <1>2, <2>1
  <2> QED
    BY <2>2, <2>3
<1>4. ASSUME ReadTxWr(c)
      PROVE  /\ out'[1 - c] = out[1 - c] /\ out'[c].id = out[c].id /\ out'[c].back = out[c].back
             /\ out'[c].ptr = TX_WR /\ out'[c].parts = out[c].parts /\ out'[c].len = out[c].len
  BY <1>1, <1>2, <1>4 DEF ReadTxWr, OutRecord
<1>5. ASSUME Sent(c) PROVE out'[1 - c] = out[1 - c] /\ out'[c] = Nothing
  BY <1>1, <1>2, <1>5 DEF Sent
<1> QED
  BY <1>1, <1>3, <1>4, <1>5

\* What lwIP hands over.
LEMMA OutputLocals ==
  ASSUME TypeOK, NEW c \in Core, NEW chain \in Chains[c], Output(c, chain)
  PROVE  /\ out'[1 - c] = out[1 - c] /\ out'[c].id = Len(frames) + 1 /\ out'[c].parts = chain
         /\ out'[c].len = 0 /\ out'[c].ptr = 0 /\ out'[c].back = pc[c]
<1> DEFINE r == [id |-> Len(frames) + 1, parts |-> chain, len |-> 0, ptr |-> 0, back |-> pc[c]]
<1>1. out' = [out EXCEPT ![c] = r]
  BY DEF Output
<1>2. r.id = Len(frames) + 1 /\ r.parts = chain /\ r.len = 0 /\ r.ptr = 0 /\ r.back = pc[c]
  OBVIOUS
<1>3. out'[c] = r /\ out'[1 - c] = out[1 - c]
  <2> HIDE DEF r
  <2> QED
    BY <1>1, TwoCores DEF TypeOK, OutType
<1> QED
  BY <1>2, <1>3

\* What these steps do beside.
LEMMA Moves ==
  ASSUME TypeOK, NEW c \in Core
  PROVE  /\ Copy(c) => /\ pc[c] = "copy" /\ UNCHANGED chipVars /\ UNCHANGED leased
                       /\ \E there \in {"copy", "wr"} : Go(c, there)
         /\ ReadTxWr(c) => pc[c] = "wr" /\ Leave(c) /\ Go(c, "put") /\ UNCHANGED leased
         /\ Sent(c) => pc[c] \in {"ack", "nak"} /\ Leave(c) /\ Go(c, out[c].back) /\ UNCHANGED leased
         /\ Copy(c) \/ ReadTxWr(c) => out'[0].back = out[0].back /\ out'[1].back = out[1].back
         /\ Sent(c) => out'[1 - c] = out[1 - c]
<1>1. Copy(c) => /\ pc[c] = "copy" /\ UNCHANGED chipVars /\ UNCHANGED leased
                 /\ \E there \in {"copy", "wr"} : Go(c, there)
  BY DEF Copy, ByItself
<1>2. ReadTxWr(c) => pc[c] = "wr" /\ Leave(c) /\ Go(c, "put") /\ UNCHANGED leased
  BY DEF ReadTxWr, ByAccess
<1>3. Sent(c) => pc[c] \in {"ack", "nak"} /\ Leave(c) /\ Go(c, out[c].back) /\ UNCHANGED leased
  BY DEF Sent, ByAccess
<1>4. /\ Copy(c) \/ ReadTxWr(c) => out'[0].back = out[0].back /\ out'[1].back = out[1].back
      /\ Sent(c) => out'[1 - c] = out[1 - c]
  BY Locals, TwoCores DEF Core
<1> QED
  BY <1>1, <1>2, <1>3, <1>4

\* A core in netif_output stays on the bus or leaves it, and comes back where it was.
LEMMA SendingGoesOn ==
  ASSUME TypeOK, BootInv, NEW c \in Core, NEW there \in Sending, pc[c] \in Sending,
         Go(c, there), (pc[c] = "copy" /\ UNCHANGED chipVars) \/ Leave(c), UNCHANGED leased,
         out'[0].back = out[0].back, out'[1].back = out[1].back
  PROVE  BootInv'
<1>1. c \in {0, 1} /\ pc' = [pc EXCEPT ![c] = there]
  BY DEF Core, Go
<1>2. CASE Leave(c)
  <2>1. CASE c = 0
    BY <1>1, <1>2, <2>1 DEF TypeOK, CoreType, BootInv, Core, NoCore, Leave, Pc, Sending, AtChip
  <2>2. CASE c = 1
    BY <1>1, <1>2, <2>2 DEF TypeOK, CoreType, BootInv, Core, NoCore, Leave, Pc, Sending, AtChip
  <2> QED
    BY <1>1, <2>1, <2>2
<1>3. CASE pc[c] = "copy" /\ UNCHANGED chipVars
  <2>1. CASE c = 0
    BY <1>1, <1>3, <2>1 DEF TypeOK, CoreType, BootInv, Core, NoCore, chipVars, spiVars, Pc, Sending, AtChip
  <2>2. CASE c = 1
    BY <1>1, <1>3, <2>2 DEF TypeOK, CoreType, BootInv, Core, NoCore, chipVars, spiVars, Pc, Sending, AtChip
  <2> QED
    BY <1>1, <2>1, <2>2
<1> QED
  BY <1>2, <1>3

\* netif_output ends.
LEMMA SendingEnds ==
  ASSUME TypeOK, BootInv, NEW c \in Core, pc[c] \in Sending,
         Go(c, out[c].back), Leave(c), UNCHANGED leased, out'[1 - c] = out[1 - c]
  PROVE  BootInv'
<1>1. out[c].back \in Callers(c)
  BY DEF BootInv
<1>2. CASE c = 0
  <2>1. CASE out[0].back = "launch"
    <3>1. pc' = [pc EXCEPT ![0] = "launch"] /\ pc[1] = "off" /\ leased
      BY <1>2, <2>1 DEF Go, BootInv
    <3> QED
      BY <1>2, <3>1 DEF TypeOK, CoreType, BootInv, Core, NoCore, Leave, Pc, Sending, AtChip
  <2>2. CASE out[0].back = "idle"
    <3>1. pc' = [pc EXCEPT ![0] = "idle"]
      BY <1>2, <2>2 DEF Go
    <3> QED
      BY <1>2, <3>1 DEF TypeOK, CoreType, BootInv, Core, NoCore, Leave, Pc, Sending, AtChip
  <2> QED
    BY <1>1, <1>2, <2>1, <2>2 DEF Callers
<1>3. CASE c = 1
  <2>1. out[c].back = "timers"
    BY <1>1, <1>3 DEF Callers
  <2>2. pc' = [pc EXCEPT ![1] = "timers"]
    BY <1>3, <2>1 DEF Go
  <2> QED
    BY <1>3, <2>2 DEF TypeOK, CoreType, BootInv, Core, NoCore, Leave, Pc, Sending, AtChip
<1> QED
  BY <1>2, <1>3 DEF Core

\* netif_output begins.
LEMMA SendingBegins ==
  ASSUME TypeOK, BootInv, NEW c \in Core, pc[c] \in Callers(c),
         Go(c, "clear"), UNCHANGED chipVars, UNCHANGED leased,
         out'[c].back = pc[c], out'[1 - c] = out[1 - c]
  PROVE  BootInv'
<1>1. CASE c = 0
  BY <1>1 DEF TypeOK, CoreType, BootInv, Callers, Core, NoCore, chipVars, spiVars, Go, Pc, Sending, AtChip
<1>2. CASE c = 1
  BY <1>2 DEF TypeOK, CoreType, BootInv, Callers, Core, NoCore, chipVars, spiVars, Go, Pc, Sending, AtChip
<1> QED
  BY <1>1, <1>2 DEF Core

\* The critical section is registered and core 1 started in their order, and each
\* access is inside it.
LEMMA BootStep ==
  ASSUME TypeOK, BootInv, [Next]_vars
  PROVE  BootInv'
<1>9. ASSUME NEW c \in Core, NEW chain \in Chains[c], Output(c, chain) PROVE BootInv'
  <2>1. out'[c].back = pc[c] /\ out'[1 - c] = out[1 - c]
    BY <1>9, OutputLocals
  <2>2. pc[c] \in Callers(c) /\ Go(c, "clear")
        /\ UNCHANGED chipVars /\ UNCHANGED leased
    BY <1>9 DEF Output
  <2> QED
    BY <2>1, <2>2, SendingBegins
<1>11. ASSUME NEW c \in Core, Copy(c) PROVE BootInv'
  <2>1. PICK there \in {"copy", "wr"} : Go(c, there)
    BY <1>11, Moves
  <2>2. pc[c] \in Sending /\ there \in Sending
    BY <1>11, Moves DEF Sending
  <2> QED
    BY <1>11, <2>1, <2>2, Moves, SendingGoesOn
<1>12. ASSUME NEW c \in Core, ReadTxWr(c) PROVE BootInv'
  <2>1. pc[c] \in Sending /\ "put" \in Sending
    BY <1>12, Moves DEF Sending
  <2> QED
    BY <1>12, <2>1, Moves, SendingGoesOn
<1>17. ASSUME NEW c \in Core, Sent(c) PROVE BootInv'
  <2>1. pc[c] \in Sending
    BY <1>17, Moves DEF Sending
  <2> QED
    BY <1>17, <2>1, Moves, SendingEnds
<1> USE DEF TypeOK, CoreType, BootInv, Core, NoCore, chipVars, spiVars, sockVars, linkVars, history, Go, ByItself, ByAccess, Leave, Quiet
<1> USE DEF Pc, Sending, AtChip
<1>1. ASSUME NEW c \in Core, EnterChip(c) PROVE BootInv'
  BY <1>1 DEF EnterChip, Enter
<1>2. CASE Spi
  BY <1>2 DEF Spi
<1>3. CASE Cris
  BY <1>3 DEF Cris, RegisterCris
<1>4. CASE Initialize
  BY <1>4 DEF Initialize
<1>5. CASE Check
  BY <1>5 DEF Check
<1>6. CASE Lease
  BY <1>6 DEF Lease
<1>7. CASE LwipInit
  BY <1>7 DEF LwipInit
<1>8. CASE Launch
  BY <1>8 DEF Launch
<1>10. ASSUME NEW c \in Core, Clear(c) PROVE BootInv'
  BY <1>10 DEF Clear
<1>13. ASSUME NEW c \in Core, Put(c) PROVE BootInv'
  BY <1>13 DEF Put
<1>14. ASSUME NEW c \in Core, WriteTxWr(c) PROVE BootInv'
  BY <1>14 DEF WriteTxWr
<1>15. ASSUME NEW c \in Core, Send(c) PROVE BootInv'
  BY <1>15 DEF Send
<1>16. ASSUME NEW c \in Core, PollIR(c) PROVE BootInv'
  BY <1>16 DEF PollIR
<1>18. CASE RecvBuf
  BY <1>18 DEF RecvBuf
<1>19. CASE Recv
  BY <1>19 DEF Recv
<1>20. CASE Input
  BY <1>20 DEF Input
<1>21. CASE Timers
  BY <1>21 DEF Timers
<1>22. CASE Chip
  BY <1>22 DEF Chip, ChipSends, ChipReceives
<1>23. CASE LwipFrees
  BY <1>23 DEF LwipFrees
<1>24. CASE UNCHANGED vars
  BY <1>24 DEF vars
<1>25. CASE DhcpRun
  BY <1>25 DEF DhcpRun
<1>26. CASE UpdatePool
  BY <1>26 DEF UpdatePool
<1> QED
  BY <1>26, <1>1, <1>2, <1>3, <1>4, <1>5, <1>6, <1>7, <1>8, <1>9, <1>10, <1>11, <1>12, <1>13,
     <1>14, <1>15, <1>16, <1>17, <1>18, <1>19, <1>20, <1>21, <1>22, <1>23, <1>24, <1>25
     DEF Next, CoreStep, NetifOutput, Boot, Process

-----------------------------------------------------------------------------
(* What a step leaves alone *)

regVars  == <<opened, txMem, TX_RD, TX_WR, CR, IR, wire>>
rxVars   == <<rxMem, arrived, taken, pack_len>>
outVars  == <<tx_frame, out, frames, overlap>>
pbufVars == <<pool, held>>

\* What each step leaves alone, by groups of variables.
LEMMA Footprint ==
  ASSUME NEW c \in Core
  PROVE  /\ EnterChip(c) => UNCHANGED <<regVars, rxVars, outVars, pbufVars, pc>>
         /\ Spi => UNCHANGED <<regVars, rxVars, outVars, pbufVars>>
         /\ Cris => UNCHANGED <<regVars, rxVars, outVars, pbufVars>>
         /\ Initialize => UNCHANGED <<regVars, rxVars, outVars, pbufVars>>
         /\ Check => UNCHANGED <<regVars, rxVars, outVars, pbufVars>>
         /\ Lease => UNCHANGED <<regVars, rxVars, outVars, pbufVars>>
         /\ Launch => UNCHANGED <<regVars, rxVars, outVars, pbufVars>>
         /\ UpdatePool => UNCHANGED <<regVars, rxVars, outVars, pbufVars>>
         /\ DhcpRun => UNCHANGED <<regVars, rxVars, outVars, pbufVars>>
         /\ PollIR(c) => UNCHANGED <<regVars, rxVars, outVars, pbufVars>>
         /\ LwipInit => UNCHANGED <<rxVars, outVars, pbufVars, txMem, TX_RD, TX_WR, CR, IR, wire>>
         /\ (\E chain \in Chains[c] : Output(c, chain)) \/ Clear(c) \/ Copy(c) \/ ReadTxWr(c) => UNCHANGED <<regVars, rxVars, pbufVars>>
         /\ Put(c) \/ WriteTxWr(c) \/ Send(c) => UNCHANGED <<rxVars, outVars, pbufVars>>
         /\ Sent(c) => UNCHANGED <<rxVars, pbufVars, opened, txMem, TX_RD, TX_WR, CR, wire, tx_frame, frames, overlap>>
         /\ RecvBuf \/ Recv \/ Timers => UNCHANGED <<regVars, outVars, pbufVars>>
         /\ Input => UNCHANGED <<regVars, rxVars, outVars>>
         /\ Chip => UNCHANGED <<spiVars, outVars, pbufVars, pc, leased, taken, pack_len>>
         /\ LwipFrees => UNCHANGED <<regVars, rxVars, outVars, chipVars, pc, leased>>
<1>1. EnterChip(c) => UNCHANGED <<regVars, rxVars, outVars, pbufVars, pc>>
  BY DEF EnterChip, Enter, chipVars, spiVars, sockVars, linkVars, history, ByItself, ByAccess, Leave, Quiet, regVars, rxVars, outVars, pbufVars
<1>2. Spi => UNCHANGED <<regVars, rxVars, outVars, pbufVars>>
  BY DEF Spi, chipVars, spiVars, sockVars, linkVars, history, ByItself, ByAccess, Leave, Quiet, regVars, rxVars, outVars, pbufVars
<1>3. Cris => UNCHANGED <<regVars, rxVars, outVars, pbufVars>>
  BY DEF Cris, RegisterCris, chipVars, spiVars, sockVars, linkVars, history, ByItself, ByAccess, Leave, Quiet, regVars, rxVars, outVars, pbufVars
<1>4. Initialize => UNCHANGED <<regVars, rxVars, outVars, pbufVars>>
  BY DEF Initialize, chipVars, spiVars, sockVars, linkVars, history, ByItself, ByAccess, Leave, Quiet, regVars, rxVars, outVars, pbufVars
<1>5. Check => UNCHANGED <<regVars, rxVars, outVars, pbufVars>>
  BY DEF Check, chipVars, spiVars, sockVars, linkVars, history, ByItself, ByAccess, Leave, Quiet, regVars, rxVars, outVars, pbufVars
<1>6. Lease => UNCHANGED <<regVars, rxVars, outVars, pbufVars>>
  BY DEF Lease, chipVars, spiVars, sockVars, linkVars, history, ByItself, ByAccess, Leave, Quiet, regVars, rxVars, outVars, pbufVars
<1>7. Launch => UNCHANGED <<regVars, rxVars, outVars, pbufVars>>
  BY DEF Launch, chipVars, spiVars, sockVars, linkVars, history, ByItself, ByAccess, Leave, Quiet, regVars, rxVars, outVars, pbufVars
<1>8. PollIR(c) => UNCHANGED <<regVars, rxVars, outVars, pbufVars>>
  BY DEF PollIR, chipVars, spiVars, sockVars, linkVars, history, ByItself, ByAccess, Leave, Quiet, regVars, rxVars, outVars, pbufVars
<1>9. LwipInit => UNCHANGED <<rxVars, outVars, pbufVars, txMem, TX_RD, TX_WR, CR, IR, wire>>
  BY DEF LwipInit, chipVars, spiVars, sockVars, linkVars, history, ByItself, ByAccess, Leave, Quiet, regVars, rxVars, outVars, pbufVars
<1>10. (\E chain \in Chains[c] : Output(c, chain)) \/ Clear(c) \/ Copy(c) \/ ReadTxWr(c) => UNCHANGED <<regVars, rxVars, pbufVars>>
  BY DEF Output, Clear, Copy, ReadTxWr, chipVars, spiVars, sockVars, linkVars, history, ByItself, ByAccess, Leave, Quiet, regVars, rxVars, outVars, pbufVars
<1>11. Put(c) \/ WriteTxWr(c) \/ Send(c) => UNCHANGED <<rxVars, outVars, pbufVars>>
  BY DEF Put, WriteTxWr, Send, PutBytes, SetTxWr, SetSend, chipVars, spiVars, sockVars, linkVars, history, ByItself, ByAccess, Leave, Quiet, regVars, rxVars, outVars, pbufVars
<1>12. Sent(c) => UNCHANGED <<rxVars, pbufVars, opened, txMem, TX_RD, TX_WR, CR, wire, tx_frame, frames, overlap>>
  BY DEF Sent, ClearIR, chipVars, spiVars, sockVars, linkVars, history, ByItself, ByAccess, Leave, Quiet, regVars, rxVars, outVars, pbufVars
<1>13. RecvBuf \/ Recv \/ Timers => UNCHANGED <<regVars, outVars, pbufVars>>
  BY DEF RecvBuf, Recv, Timers, TakeCells, chipVars, spiVars, sockVars, linkVars, history, ByItself, ByAccess, Leave, Quiet, regVars, rxVars, outVars, pbufVars
<1>14. Input => UNCHANGED <<regVars, rxVars, outVars>>
  BY DEF Input, chipVars, spiVars, sockVars, linkVars, history, ByItself, ByAccess, Leave, Quiet, regVars, rxVars, outVars, pbufVars
<1>15. Chip => UNCHANGED <<spiVars, outVars, pbufVars, pc, leased, taken, pack_len>>
  BY DEF Chip, ChipSends, ChipReceives, chipVars, spiVars, sockVars, linkVars, history, ByItself, ByAccess, Leave, Quiet, regVars, rxVars, outVars, pbufVars
<1>16. LwipFrees => UNCHANGED <<regVars, rxVars, outVars, chipVars, pc, leased>>
  BY DEF LwipFrees, chipVars, spiVars, sockVars, linkVars, history, ByItself, ByAccess, Leave, Quiet, regVars, rxVars, outVars, pbufVars
<1>17. DhcpRun => UNCHANGED <<regVars, rxVars, outVars, pbufVars>>
  BY DEF DhcpRun, chipVars, spiVars, sockVars, linkVars, history, ByItself, ByAccess, Leave, Quiet, regVars, rxVars, outVars, pbufVars
<1>18. UpdatePool => UNCHANGED <<regVars, rxVars, outVars, pbufVars>>
  BY DEF UpdatePool, chipVars, spiVars, sockVars, linkVars, history, ByItself, ByAccess, Leave, Quiet, regVars, rxVars, outVars, pbufVars
<1> QED
  BY <1>1, <1>2, <1>3, <1>4, <1>5, <1>6, <1>7, <1>8, <1>9, <1>10, <1>11, <1>12, <1>13, <1>14, <1>15, <1>16, <1>17, <1>18

-----------------------------------------------------------------------------
(* The room for frames *)

\* The number of frames that count for TX_WR.
LEMMA Counted ==
  ASSUME TypeOK
  PROVE  /\ Len(frames) \in Nat
         /\ \A c \in Core : /\ Owes(c) \in {0, 1}
                            /\ Written = Len(frames) - (Owes(c) + Owes(1 - c))
BY DEF TypeOK, OutType, Owes, Written, Core

\* A step that moves no pointer and does not count for TX_WR.
LEMMA RoomKept ==
  ASSUME TypeOK, RoomInv, UNCHANGED outVars, UNCHANGED TX_WR,
         \A c \in Core : \/ pc'[c] = pc[c]
                         \/ pc[c] \notin Sending /\ pc'[c] \notin Sending
                         \/ /\ pc[c] \in Sending \ {"clear", "copy", "wr", "put", "setwr"}
                            /\ pc'[c] \in {"ir", "ack", "nak"}
                         \/ pc[c] = "put" /\ pc'[c] = "setwr"
  PROVE  RoomInv'
<1>1. \A c \in Core : Owes(c)' = Owes(c)
  BY DEF Owes, Sending
<1>2. Written' = Written
  BY <1>1 DEF Written, outVars, Core
<1>3. \A c \in Core : RoomFor(c)'
  BY <1>2 DEF RoomInv, RoomFor, outVars, Sending, Room, PbufChain, Total
<1> QED
  BY <1>2, <1>3 DEF RoomInv, outVars, Room

\* What a step of core c must do for the room of the other to stay.
LEMMA RoomOfOther ==
  ASSUME TypeOK, RoomInv, NEW c \in Core, out'[1 - c] = out[1 - c], pc'[1 - c] = pc[1 - c],
         Len(frames') \in Nat, Len(frames) <= Len(frames'), Written' \in Nat, Written <= Written'
  PROVE  RoomFor(1 - c)'
<1> DEFINE d == 1 - c
<1>1. d \in Core /\ RoomFor(d)
  BY TwoCores DEF RoomInv
<1>2. Room(Written) <= Room(Written') /\ Room(Written) \in Nat /\ Room(Written') \in Nat
  BY RoomForFrames DEF RoomInv
<1>3. out[d].ptr \in Nat /\ out[d].id \in Nat /\ Len(frames) \in Nat
  BY <1>1, Counted DEF TypeOK, OutType, OutRecord
<1>4. out'[d] = out[d] /\ pc'[d] = pc[d]
  OBVIOUS
<1> HIDE DEF d
<1>5. pc[d] \in {"put", "setwr"} => out[d].ptr <= Room(Written')
  BY <1>1, <1>2, <1>3 DEF RoomFor
<1>6. pc[d] \in Sending => out[d].id \in 1..Len(frames')
  BY <1>1, <1>3 DEF RoomFor
<1>7. RoomFor(d)'
  BY <1>1, <1>4, <1>5, <1>6 DEF RoomFor, Room, PbufChain, Total
<1> QED
  BY <1>7 DEF d

\* Every frame keeps its room.
LEMMA RoomStep ==
  ASSUME TypeOK, BootInv, RoomInv, [Next]_vars
  PROVE  RoomInv'
<1>1. ASSUME NEW c \in Core, EnterChip(c) \/ LwipFrees \/ Chip \/ Input PROVE RoomInv'
  <2>1. UNCHANGED outVars /\ UNCHANGED TX_WR
    <3>1. CASE EnterChip(c) \/ LwipFrees \/ Input
      BY <3>1, Footprint DEF regVars
    <3>2. CASE Chip
      BY <3>2, Footprint DEF Chip, ChipSends, ChipReceives
    <3> QED
      BY <1>1, <3>1, <3>2
  <2>2. \A d \in Core : pc'[d] = pc[d] \/ (pc[d] \notin Sending /\ pc'[d] \notin Sending)
    <3>1. CASE Input
      BY <3>1, TwoCores DEF Input, ByItself, Go, TypeOK, CoreType, Sending
    <3> QED
      BY <1>1, <3>1, Footprint
  <2> QED
    BY <2>1, <2>2, RoomKept
<1>2. CASE Spi \/ Cris \/ Initialize \/ Check \/ Lease \/ UpdatePool \/ LwipInit \/ Launch \/ DhcpRun
  <2>0. 0 \in Core
    BY DEF Core
  <2>1. UNCHANGED outVars /\ UNCHANGED TX_WR
    <3>1. CASE LwipInit
      <4>1. UNCHANGED <<rxVars, outVars, pbufVars, txMem, TX_RD, TX_WR, CR, IR, wire>>
        BY <2>0, <3>1, Footprint
      <4> QED
        BY <4>1
    <3>2. CASE Spi \/ Cris \/ Initialize \/ Check \/ Lease \/ UpdatePool \/ Launch \/ DhcpRun
      <4>1. UNCHANGED <<regVars, rxVars, outVars, pbufVars>>
        BY <2>0, <3>2, Footprint
      <4> QED
        BY <4>1 DEF regVars
    <3> QED
      BY <1>2, <3>1, <3>2
  <2>2. pc[0] \notin Sending /\ pc'[0] \notin Sending
        /\ (pc'[1] = pc[1] \/ (pc[1] \notin Sending /\ pc'[1] \notin Sending))
    BY <1>2 DEF Spi, Cris, Initialize, Check, Lease, UpdatePool, LwipInit, Launch, DhcpRun, ByItself, ByAccess, Go,
                TypeOK, CoreType, BootInv, Core, Pc, Sending
  <2> QED
    BY <2>1, <2>2, RoomKept DEF Core
<1>3. CASE RecvBuf \/ Recv \/ Timers
  <2>1. UNCHANGED outVars /\ UNCHANGED TX_WR
    <3>1. 1 \in Core
      BY DEF Core
    <3>2. UNCHANGED <<regVars, outVars, pbufVars>>
      BY <1>3, <3>1, Footprint
    <3> QED
      BY <3>2 DEF regVars
  <2>2. pc[1] \notin Sending /\ pc'[1] \notin Sending /\ pc'[0] = pc[0]
    BY <1>3 DEF RecvBuf, Recv, Timers, ByItself, ByAccess, Go, TypeOK, CoreType, Core, Sending
  <2> QED
    BY <2>1, <2>2, RoomKept DEF Core
<1>4. ASSUME NEW c \in Core, NEW chain \in Chains[c], Output(c, chain) PROVE RoomInv'
  <2>1. pc[c] \notin Sending /\ pc'[c] = "clear" /\ pc'[1 - c] = pc[1 - c]
    <3>1. Go(c, "clear") /\ "clear" \in Pc /\ pc[c] \in {"launch", "idle", "timers"}
      BY <1>4 DEF Output, Callers, Pc, Sending
    <3> QED
      BY <3>1, Goes DEF Sending
  <2>2. /\ Len(frames') = Len(frames) + 1 /\ Len(frames) < MaxFrame /\ TX_WR' = TX_WR
        /\ Len(frames) \in Nat
    <3>1. Len(frames) < MaxFrame /\ frames' = Append(frames, Padded(Len(frames) + 1, Total(chain)))
      BY <1>4 DEF Output
    <3>2. TX_WR' = TX_WR
      BY <1>4, Footprint DEF regVars
    <3>3. Len(frames') = Len(frames) + 1 /\ Len(frames) \in Nat
      BY <3>1 DEF TypeOK, OutType
    <3> QED
      BY <3>1, <3>2, <3>3
  <2>3. Written' = Written
    <3>1. Owes(c) = 0 /\ Owes(c)' = 1 /\ Owes(1 - c)' = Owes(1 - c) /\ Owes(1 - c) \in {0, 1}
      BY <2>1, Counted, TwoCores DEF Owes, Sending
    <3>2. Written' = Len(frames') - (Owes(c)' + Owes(1 - c)') /\ Written = Len(frames) - (Owes(c) + Owes(1 - c))
      BY <3>1 DEF Written, Core
    <3> QED
      BY <2>2, <3>1, <3>2
  <2>4. RoomFor(1 - c)'
    BY <1>4, <2>1, <2>2, <2>3, RoomOfOther, OutputLocals DEF RoomInv
  <2>5. RoomFor(c)'
    <3>1. PbufChain(chain) /\ Total(chain) \in 1..FrameSize
      BY <1>4, LinkAssumption
    <3>2. out'[c].parts = chain /\ out'[c].len = 0 /\ out'[c].id = Len(frames) + 1
      BY <1>4, OutputLocals
    <3>3. 0 + Total(chain) \in 1..FrameSize
      BY <3>1
    <3>4. Len(frames) + 1 \in 1..Len(frames')
      BY <2>2
    <3>5. PbufChain(out'[c].parts) /\ out'[c].len + Total(out'[c].parts) \in 1..FrameSize
          /\ out'[c].id \in 1..Len(frames')
      BY <3>1, <3>2, <3>3, <3>4
    <3> QED
      BY <2>1, <3>5 DEF RoomFor, PbufChain, Total
  <2> QED
    <3>1. Len(frames') <= MaxFrame
      BY <2>2, RoomForFrames
    <3>2. Written' \in Nat /\ TX_WR' <= Room(Written')
      BY <2>2, <2>3 DEF RoomInv
    <3> QED
      BY <2>4, <2>5, <3>1, <3>2, TwoCores DEF RoomInv, Room
<1>5. ASSUME NEW c \in Core, Clear(c) \/ Copy(c) \/ ReadTxWr(c) PROVE RoomInv'
  <2>1. /\ pc[c] \in {"clear", "copy", "wr"} /\ pc'[c] \in {"copy", "wr", "put"}
        /\ pc'[1 - c] = pc[1 - c]
    BY <1>5, TwoCores DEF Clear, Copy, ReadTxWr, ByItself, ByAccess, Go, TypeOK, CoreType
  <2>2. TX_WR' = TX_WR /\ frames' = frames /\ out'[1 - c] = out[1 - c] /\ out'[c].id = out[c].id
    BY <1>5, Footprint, Locals DEF regVars, Clear, Copy, ReadTxWr, history
  <2>3. Written' = Written
    <3>1. Owes(c)' = Owes(c) /\ Owes(1 - c)' = Owes(1 - c)
      BY <2>1 DEF Owes
    <3>2. Owes(0)' = Owes(0) /\ Owes(1)' = Owes(1)
      BY <3>1 DEF Core
    <3> QED
      BY <2>2, <3>2 DEF Written
  <2>4. RoomFor(1 - c)'
    <3>1. Written' \in Nat /\ Written <= Written' /\ Len(frames') \in Nat /\ Len(frames) <= Len(frames')
      BY <2>2, <2>3, Counted DEF RoomInv
    <3> QED
      BY <2>1, <2>2, <3>1, RoomOfOther
  <2>5. RoomFor(c)'
    <3>1. out[c].id \in 1..Len(frames) /\ RoomFor(c)
      BY <2>1 DEF RoomInv, RoomFor, Sending
    <3>2. CASE Clear(c)
      BY <2>1, <2>2, <3>1, <3>2 DEF Clear, ByItself, Go, TypeOK, CoreType, RoomFor, PbufChain, Total
    <3>3. CASE ReadTxWr(c)
      <4>1. pc'[c] = "put" /\ out'[c].ptr = TX_WR
        BY <3>3, Locals, Moves, Goes DEF Pc, Sending
      <4> QED
        BY <2>2, <2>3, <3>1, <4>1 DEF RoomFor, RoomInv, Room
    <3>4. CASE Copy(c)
      <4> DEFINE o == out[c]
      <4>1. PbufChain(o.parts) /\ o.len + Total(o.parts) \in 1..FrameSize /\ o.len \in Nat
        BY <3>1, <3>4, Moves, Locals DEF RoomFor, OutRecord
      <4>2. CASE Head(o.parts).len = Head(o.parts).tot_len
        <5>1. pc'[c] = "wr"
          BY <3>4, <4>2 DEF Copy, ByItself, Go, TypeOK, CoreType
        <5> QED
          BY <2>2, <3>1, <5>1 DEF RoomFor
      <4>3. CASE Head(o.parts).len # Head(o.parts).tot_len
        <5>1. pc'[c] = "copy"
          BY <3>4, <4>3 DEF Copy, ByItself, Go, TypeOK, CoreType
        <5>2. out'[c].parts = Tail(o.parts) /\ out'[c].len = o.len + Head(o.parts).len
          BY <3>4, <4>3, Locals
        <5>3. /\ Head(o.parts) = o.parts[1] /\ o.parts[1].len \in Nat
              /\ PbufChain(Tail(o.parts)) /\ Total(o.parts) = o.parts[1].len + Total(Tail(o.parts))
          BY <4>1, <4>3, ChainStep DEF Total
        <5>4. Total(Tail(o.parts)) \in Nat
          BY <5>3, ChainStep
        <5>5. out'[c].len + Total(out'[c].parts) \in 1..FrameSize /\ PbufChain(out'[c].parts)
          <6>1. (o.len + o.parts[1].len) + Total(Tail(o.parts)) = o.len + Total(o.parts)
            BY <4>1, <5>3, <5>4
          <6> QED
            BY <4>1, <5>2, <5>3, <6>1
        <5> QED
          BY <2>2, <3>1, <5>1, <5>5 DEF RoomFor, PbufChain, Total
      <4> QED
        BY <4>2, <4>3
    <3> QED
      BY <1>5, <3>2, <3>3, <3>4
  <2> QED
    BY <2>2, <2>3, <2>4, <2>5, TwoCores DEF RoomInv, Room
<1>6. ASSUME NEW c \in Core, Put(c) \/ Send(c) \/ PollIR(c) PROVE RoomInv'
  <2>1. UNCHANGED outVars /\ UNCHANGED TX_WR
    BY <1>6, Footprint DEF regVars, Put, PutBytes, Send, SetSend
  <2>2. /\ pc'[1 - c] = pc[1 - c]
        /\ \/ pc[c] \in {"send", "ir"} /\ pc'[c] \in {"ir", "ack", "nak"}
           \/ pc[c] = "put" /\ pc'[c] = "setwr"
    BY <1>6, TwoCores DEF Put, Send, PollIR, ByAccess, Go, TypeOK, CoreType
  <2> QED
    BY <2>1, <2>2, RoomKept, TwoCores DEF Sending
<1>7. ASSUME NEW c \in Core, WriteTxWr(c) PROVE RoomInv'
  <2>1. /\ pc[c] = "setwr" /\ pc'[c] = "send" /\ pc'[1 - c] = pc[1 - c]
        /\ UNCHANGED outVars /\ TX_WR' = out[c].ptr + out[c].len
    BY <1>7, TwoCores, Footprint DEF WriteTxWr, SetTxWr, ByAccess, Go, TypeOK, CoreType
  <2>2. Written' = Written + 1 /\ Written' <= Len(frames) /\ frames' = frames /\ out' = out
    <3>1. Owes(c) = 1 /\ Owes(c)' = 0 /\ Owes(1 - c)' = Owes(1 - c) /\ Owes(1 - c) \in {0, 1}
      BY <2>1, Counted, TwoCores DEF Owes
    <3>2. Written' = Len(frames') - (Owes(c)' + Owes(1 - c)') /\ Written = Len(frames) - (Owes(c) + Owes(1 - c))
      BY <3>1 DEF Written, Core
    <3>3. frames' = frames /\ out' = out
      BY <2>1 DEF outVars
    <3> QED
      BY <3>1, <3>2, <3>3, Counted
  <2>3. TX_WR' <= Room(Written')
    <3>1. out[c].ptr <= Room(Written) /\ out[c].len \in 0..FrameSize /\ out[c].ptr \in Nat
      BY <2>1, Locals DEF RoomInv, RoomFor, OutRecord
    <3>2. Room(Written') = Room(Written) + FrameSize /\ Room(Written) \in Nat /\ FrameSize \in Nat
      BY <2>2, RoomForFrames DEF RoomInv
    <3> QED
      BY <2>1, <3>1, <3>2
  <2>4. RoomFor(1 - c)'
    BY <2>1, <2>2, Counted, RoomOfOther DEF RoomInv
  <2>5. RoomFor(c)'
    BY <2>1, <2>2 DEF RoomInv, RoomFor, Sending
  <2> QED
    BY <2>2, <2>3, <2>4, <2>5, TwoCores DEF RoomInv, Room
<1>8. ASSUME NEW c \in Core, Sent(c) PROVE RoomInv'
  <2>1. /\ pc[c] \in {"ack", "nak"} /\ pc'[c] \in {"launch", "idle", "timers"} /\ pc'[1 - c] = pc[1 - c]
        /\ frames' = frames /\ TX_WR' = TX_WR /\ out'[1 - c] = out[1 - c]
    <3>1. out[c].back \in {"launch", "idle", "timers"}
      BY Locals DEF OutRecord
    <3> QED
      BY <1>8, <3>1, Footprint, Moves, Goes DEF Pc
  <2>2. Written' = Written
    BY <2>1, TwoCores DEF Written, Owes, Core
  <2>3. RoomFor(1 - c)'
    BY <2>1, <2>2, Counted, RoomOfOther DEF RoomInv
  <2>4. RoomFor(c)'
    BY <2>1 DEF RoomFor, Sending
  <2> QED
    BY <2>1, <2>2, <2>3, <2>4, TwoCores DEF RoomInv, Room
<1>9. CASE UNCHANGED vars
  BY <1>9, RoomKept DEF vars, chipVars, sockVars, linkVars, history, outVars
<1> QED
  BY <1>1, <1>2, <1>3, <1>4, <1>5, <1>6, <1>7, <1>8, <1>9, TwoCores
     DEF Next, CoreStep, NetifOutput, Boot, Process, Core

-----------------------------------------------------------------------------
(* The types *)

\* A part of a sequence.
LEMMA Part ==
  ASSUME NEW S, NEW s \in Seq(S), NEW m \in Nat, NEW n \in Nat, n <= Len(s)
  PROVE  SubSeq(s, m + 1, n) \in Seq(S)
OBVIOUS

\* The constants of the model.
LEMMA Constants ==
  /\ FrameSize \in Nat /\ MinFrame \in 1..FrameSize /\ MaxFrame \in Nat /\ PoolSize \in Nat
  /\ TxMem \in Nat \ {0} /\ PackSize \in Nat
BY LinkAssumption, ChipAssumption

\* The chip sends, or a frame of one of the lengths arrives.
LEMMA ChipSteps ==
  ASSUME TypeOK, Chip
  PROVE  ChipSends \/ \E n \in Nat \ {0} : ChipReceives(n)
<1>1. CASE ChipSends
  BY <1>1
<1>2. CASE Len(arrived) < MaxArrive /\ \E n \in Arrivals[Len(arrived) + 1] : ChipReceives(n)
  <2>1. MaxArrive \in Nat /\ Len(arrived) \in Nat
    BY ChipAssumption DEF TypeOK, RxType
  <2>2. Len(arrived) + 1 \in 1..MaxArrive
    BY <1>2, <2>1
  <2>3. Arrivals[Len(arrived) + 1] \subseteq Nat \ {0}
    BY <2>2, LinkAssumption
  <2> QED
    BY <1>2, <2>3
<1> QED
  BY <1>1, <1>2 DEF Chip

\* The values of the variables of the cores.
LEMMA CoreTypeStep ==
  ASSUME TypeOK, BootInv, [Next]_vars
  PROVE  CoreType'
<1>1. ASSUME NEW c \in Core, Copy(c) PROVE CoreType'
  <2>1. PICK there \in {"copy", "wr"} : Go(c, there)
    BY <1>1, Moves
  <2>2. UNCHANGED <<cris, section, access, leased>> /\ pc[c] = "copy"
    BY <1>1, Moves DEF chipVars, spiVars
  <2> QED
    BY <2>1, <2>2 DEF TypeOK, CoreType, Go, Pc, Sending
<1>2. ASSUME NEW c \in Core, ReadTxWr(c) PROVE CoreType'
  <2>1. pc[c] = "wr" /\ Leave(c) /\ Go(c, "put") /\ UNCHANGED leased
    BY <1>2, Moves
  <2> QED
    BY <2>1 DEF TypeOK, CoreType, Go, Leave, Pc, Sending
<1>3. ASSUME NEW c \in Core, Sent(c) PROVE CoreType'
  <2>1. pc[c] \in {"ack", "nak"} /\ Leave(c) /\ Go(c, out[c].back) /\ UNCHANGED leased
    BY <1>3, Moves
  <2>2. out[c].back \in {"launch", "idle", "timers"}
    BY Locals DEF OutRecord
  <2> QED
    BY <2>1, <2>2 DEF TypeOK, CoreType, Go, Leave, Pc, Sending
<1>19. CASE Recv
  <2>1. PICK there \in {"timers", "input", "halt"} : ByAccess(1, "recv", there)
    BY <1>19 DEF Recv
  <2>2. leased' = leased
    BY <1>19 DEF Recv
  <2> QED
    BY <2>1, <2>2 DEF TypeOK, CoreType, Core, NoCore, ByAccess, Leave, Go, Pc, Sending
<1>25. CASE DhcpRun
  <2>1. leased' = leased
    BY <1>25 DEF DhcpRun, linkVars
  <2>2. CASE ByItself(0, "idle", "dhcp")
    BY <2>1, <2>2 DEF TypeOK, CoreType, Core, ByItself, Go, chipVars, spiVars, Pc, Sending
  <2>3. CASE \E there \in {"dhcp", "idle"} : ByAccess(0, "dhcp", there)
    BY <2>1, <2>3 DEF TypeOK, CoreType, Core, NoCore, ByAccess, Leave, Go, Pc, Sending
  <2> QED
    BY <1>25, <2>2, <2>3 DEF DhcpRun
<1> USE DEF TypeOK, CoreType, Core, NoCore, chipVars, spiVars, Go, ByItself, ByAccess, Leave
<1> USE DEF Pc, Sending, AtChip
<1>4. ASSUME NEW c \in Core, EnterChip(c) PROVE CoreType'
  BY <1>4 DEF EnterChip, Enter, linkVars
<1>5. CASE Spi
  BY <1>5 DEF Spi, linkVars
<1>6. CASE Cris
  BY <1>6 DEF Cris, RegisterCris, linkVars
<1>7. CASE Initialize
  BY <1>7 DEF Initialize, linkVars
<1>8. CASE Check
  BY <1>8 DEF Check, linkVars
<1>26. CASE UpdatePool
  BY <1>26 DEF UpdatePool, linkVars
<1>9. CASE Lease
  BY <1>9 DEF Lease, BootInv
<1>10. CASE LwipInit
  BY <1>10 DEF LwipInit, linkVars
<1>11. CASE Launch
  BY <1>11 DEF Launch, BootInv, linkVars
<1>12. ASSUME NEW c \in Core, NEW chain \in Chains[c], Output(c, chain) PROVE CoreType'
  BY <1>12 DEF Output, BootInv, Callers
<1>13. ASSUME NEW c \in Core, Clear(c) PROVE CoreType'
  BY <1>13 DEF Clear
<1>14. ASSUME NEW c \in Core, Put(c) PROVE CoreType'
  BY <1>14 DEF Put, linkVars
<1>15. ASSUME NEW c \in Core, WriteTxWr(c) PROVE CoreType'
  BY <1>15 DEF WriteTxWr, linkVars
<1>16. ASSUME NEW c \in Core, Send(c) PROVE CoreType'
  BY <1>16 DEF Send, linkVars
<1>17. ASSUME NEW c \in Core, PollIR(c) PROVE CoreType'
  BY <1>17 DEF PollIR, linkVars
<1>18. CASE RecvBuf
  BY <1>18 DEF RecvBuf
<1>20. CASE Input
  BY <1>20 DEF Input
<1>21. CASE Timers
  BY <1>21 DEF Timers
<1>22. CASE Chip
  BY <1>22 DEF Chip, ChipSends, ChipReceives, linkVars
<1>23. CASE LwipFrees
  BY <1>23 DEF LwipFrees
<1>24. CASE UNCHANGED vars
  BY <1>24 DEF vars, linkVars
<1> QED
  BY <1>1, <1>2, <1>3, <1>4, <1>5, <1>6, <1>7, <1>8, <1>9, <1>10, <1>11, <1>12, <1>13, <1>14, <1>15, <1>16, <1>17, <1>18, <1>19, <1>20, <1>21, <1>22, <1>23, <1>24, <1>25, <1>26 DEF Next, CoreStep, NetifOutput, Boot, Process

\* The values of tx_frame, of the locals and of the frames.
LEMMA OutTypeStep ==
  ASSUME TypeOK, BootInv, RoomInv, [Next]_vars
  PROVE  OutType'
<1>0. 0 \in Core /\ 1 \in Core
  BY DEF Core
<1>1. ASSUME UNCHANGED outVars PROVE OutType'
  BY <1>1 DEF TypeOK, OutType, outVars
<1>2. ASSUME NEW c \in Core, NEW chain \in Chains[c], Output(c, chain) PROVE OutType'
  <2>1. /\ frames' = Append(frames, Padded(Len(frames) + 1, Total(chain)))
        /\ tx_frame' = tx_frame /\ overlap' = (overlap \/ pc[1 - c] \in Sending)
        /\ Len(frames) < MaxFrame /\ Len(frames) \in Nat
    BY <1>2, Counted DEF Output
  <2>2. Total(chain) \in 1..FrameSize /\ chain \in Seq([len : Nat, tot_len : Nat])
    BY <1>2, LinkAssumption DEF PbufChain
  <2>3. Padded(Len(frames) + 1, Total(chain)) \in Seq(0..MaxFrame)
    <3>1. Len(frames) + 1 \in 0..MaxFrame /\ 0 \in 0..MaxFrame
      BY <2>1, Constants
    <3>2. (IF Total(chain) < MinFrame THEN MinFrame ELSE Total(chain)) \in Nat
      BY <2>2, Constants
    <3> QED
      BY <3>1, <3>2, Memory DEF Padded
  <2>4. frames' \in Seq(Seq(0..MaxFrame))
    BY <2>1, <2>3, Behind DEF TypeOK, OutType
  <2>5. out' \in [Core -> OutRecord]
    <3> DEFINE r == [id |-> Len(frames) + 1, parts |-> chain, len |-> 0, ptr |-> 0, back |-> pc[c]]
    <3>1. out' = [out EXCEPT ![c] = r]
      BY <1>2 DEF Output
    <3>2. r \in OutRecord
      <4>1. Len(frames) + 1 \in 0..MaxFrame /\ 0 \in 0..FrameSize /\ 0 \in 0..TxMem
        BY <2>1, Constants
      <4>2. pc[c] \in {"launch", "idle", "timers"}
        BY <1>2 DEF Output, Callers
      <4> QED
        BY <2>2, <4>1, <4>2 DEF OutRecord
    <3> HIDE DEF r
    <3> QED
      BY <3>1, <3>2 DEF TypeOK, OutType
  <2>6. overlap' \in BOOLEAN
    BY <2>1 DEF TypeOK, OutType
  <2> QED
    BY <2>1, <2>4, <2>5, <2>6 DEF TypeOK, OutType
<1>3. ASSUME NEW c \in Core, Clear(c) PROVE OutType'
  <2>1. tx_frame' = [n \in 1..FrameSize |-> 0] /\ 0 \in 0..MaxFrame
    BY <1>3, Constants DEF Clear
  <2> QED
    BY <1>3, <2>1 DEF Clear, TypeOK, OutType, history
<1>4. ASSUME NEW c \in Core, Copy(c) PROVE OutType'
  <2> DEFINE o == out[c]
             n == Head(o.parts).len
             m == IF n = Head(o.parts).tot_len /\ o.len + n < MinFrame THEN MinFrame ELSE o.len + n
             r == [o EXCEPT !.len = m, !.parts = Tail(o.parts)]
  <2>1. o \in OutRecord
    BY Locals
  <2>2. PbufChain(o.parts) /\ o.len + Total(o.parts) \in 1..FrameSize /\ o.len \in Nat /\ o.id \in 0..MaxFrame
    BY <1>4, <2>1, Moves DEF RoomInv, RoomFor, OutRecord
  <2>3. n \in Nat /\ Total(o.parts) \in Nat /\ n <= Total(o.parts) /\ Tail(o.parts) \in Seq([len : Nat, tot_len : Nat])
    BY <2>2, ChainStep
  <2>4. m \in 0..FrameSize
    <3> HIDE DEF n, o
    <3> QED
      BY SMTT(30), <2>2, <2>3, Constants
  <2>5. r \in OutRecord
    <3> HIDE DEF m, o
    <3> QED
      BY <2>1, <2>3, <2>4 DEF OutRecord
  <2>6. out' \in [Core -> OutRecord]
    <3>1. out' = [out EXCEPT ![c] = r]
      BY <1>4 DEF Copy
    <3> HIDE DEF r
    <3> QED
      BY <2>5, <3>1 DEF TypeOK, OutType
  <2>7. tx_frame' \in [1..FrameSize -> 0..MaxFrame]
    <3>1. tx_frame' = [k \in 1..FrameSize |-> IF k > o.len /\ k <= o.len + n THEN o.id ELSE tx_frame[k]]
      BY <1>4 DEF Copy
    <3> HIDE DEF o, n
    <3> QED
      BY <2>2, <3>1 DEF TypeOK, OutType
  <2>8. frames' = frames /\ overlap' = overlap
    BY <1>4 DEF Copy, history
  <2> QED
    BY <2>6, <2>7, <2>8 DEF TypeOK, OutType
<1>5. ASSUME NEW c \in Core, ReadTxWr(c) PROVE OutType'
  <2>1. out' \in [Core -> OutRecord]
    <3>1. out[c] \in OutRecord /\ TX_WR \in 0..TxMem
      BY Locals DEF TypeOK, ChipType
    <3>2. [out[c] EXCEPT !.ptr = TX_WR] \in OutRecord
      BY <3>1 DEF OutRecord
    <3>3. out' = [out EXCEPT ![c] = [out[c] EXCEPT !.ptr = TX_WR]]
      BY <1>5 DEF ReadTxWr
    <3> QED
      BY <3>2, <3>3 DEF TypeOK, OutType
  <2> QED
    BY <1>5, <2>1 DEF ReadTxWr, TypeOK, OutType, history
<1>6. ASSUME NEW c \in Core, Sent(c) PROVE OutType'
  <2>1. Nothing \in OutRecord
    <3>1. 0 \in 0..MaxFrame /\ 0 \in 0..FrameSize /\ 0 \in 0..TxMem
      BY Constants
    <3>2. <<>> \in Seq([len : Nat, tot_len : Nat])
      OBVIOUS
    <3> QED
      BY <3>1, <3>2 DEF Nothing, OutRecord
  <2>2. out' = [out EXCEPT ![c] = Nothing]
    BY <1>6 DEF Sent
  <2>3. UNCHANGED <<tx_frame, frames, overlap>>
    BY <1>6, Footprint
  <2> QED
    BY <2>1, <2>2, <2>3 DEF TypeOK, OutType
<1>7. ASSUME NEW c \in Core, \/ EnterChip(c) \/ Put(c) \/ WriteTxWr(c) \/ Send(c) \/ PollIR(c) \/ Boot
                             \/ Process \/ Chip \/ LwipFrees \/ UNCHANGED vars
      PROVE  UNCHANGED outVars
  BY <1>7, Footprint DEF Boot, Process, vars, linkVars, history, outVars
<1> QED
  BY <1>0, <1>1, <1>2, <1>3, <1>4, <1>5, <1>6, <1>7 DEF Next, CoreStep, NetifOutput

\* The values of the registers and the memory of the chip.
LEMMA ChipTypeStep ==
  ASSUME TypeOK, BootInv, RoomInv, RoomInv', [Next]_vars
  PROVE  ChipType'
<1>0. 0 \in Core /\ 1 \in Core
  BY DEF Core
<1>1. ASSUME UNCHANGED regVars PROVE ChipType'
  BY <1>1 DEF TypeOK, ChipType, regVars
<1>2. CASE LwipInit
  <2>1. UNCHANGED <<txMem, TX_RD, TX_WR, CR, IR, wire>>
    BY <1>0, <1>2, Footprint
  <2> QED
    BY <1>2, <2>1 DEF LwipInit, TypeOK, ChipType
<1>3. ASSUME NEW c \in Core, Put(c) PROVE ChipType'
  <2> DEFINE cells == SubSeq(tx_frame, 1, out[c].len)
  <2>1. out[c].ptr \in Nat /\ out[c].len \in 0..FrameSize
    BY Locals DEF OutRecord
  <2>2. tx_frame \in Seq(0..MaxFrame) /\ Len(tx_frame) = FrameSize
    BY Constants, Memory DEF TypeOK, OutType
  <2>3. cells \in Seq(0..MaxFrame)
    <3>1. SubSeq(tx_frame, 0 + 1, out[c].len) \in Seq(0..MaxFrame)
      BY <2>1, <2>2, Part, Constants
    <3> QED
      BY <3>1
  <2>4. /\ txMem' = [n \in 1..TxMem |-> IF n > out[c].ptr /\ n <= out[c].ptr + Len(cells)
                                       THEN cells[n - out[c].ptr] ELSE txMem[n]]
        /\ UNCHANGED <<opened, TX_RD, TX_WR, CR, IR, wire>>
    BY <1>3 DEF Put, PutBytes
  <2>5. \A n \in 1..TxMem : n > out[c].ptr /\ n <= out[c].ptr + Len(cells)
                              => cells[n - out[c].ptr] \in 0..MaxFrame
    <3> HIDE DEF cells
    <3> TAKE n \in 1..TxMem
    <3> HAVE n > out[c].ptr /\ n <= out[c].ptr + Len(cells)
    <3>1. n - out[c].ptr \in 1..Len(cells)
      BY <2>1, <2>3
    <3> QED
      BY <2>3, <3>1, Element
  <2>6. txMem' \in [1..TxMem -> 0..MaxFrame]
    <3> HIDE DEF cells
    <3> QED
      BY <2>4, <2>5 DEF TypeOK, ChipType
  <2> QED
    BY <2>4, <2>6 DEF TypeOK, ChipType
<1>4. ASSUME NEW c \in Core, WriteTxWr(c) PROVE ChipType'
  <2>1. TX_WR' = out[c].ptr + out[c].len /\ UNCHANGED <<opened, txMem, TX_RD, CR, IR, wire>>
    BY <1>4 DEF WriteTxWr, SetTxWr
  <2>2. out[c].ptr \in Nat /\ out[c].len \in Nat
    BY Locals, Constants DEF OutRecord
  <2>3. TX_WR' <= TxMem
    <3>1. TX_WR' <= Room(Written') /\ Written' \in Nat /\ Written' <= MaxFrame
      <4>1. OutType'
        BY OutTypeStep
      <4>2. Len(frames') \in Nat /\ Owes(0)' \in Nat /\ Owes(1)' \in Nat
        BY <4>1 DEF OutType, Owes
      <4> QED
        BY <4>2, Constants DEF RoomInv, Written
    <3>2. Room(Written') <= Room(MaxFrame) /\ Room(MaxFrame) <= TxMem
          /\ Room(Written') \in Nat /\ Room(MaxFrame) \in Nat
      BY <3>1, RoomForFrames
    <3> QED
      BY <2>1, <2>2, <3>1, <3>2, Constants
  <2>4. TX_WR' \in 0..TxMem
    BY <2>1, <2>2, <2>3, Constants
  <2> QED
    BY <2>1, <2>4 DEF TypeOK, ChipType
<1>5. ASSUME NEW c \in Core, Send(c) PROVE ChipType'
  BY <1>5 DEF Send, SetSend, TypeOK, ChipType
<1>6. ASSUME NEW c \in Core, Sent(c) PROVE ChipType'
  <2>1. UNCHANGED <<opened, txMem, TX_RD, TX_WR, CR, wire>>
    BY <1>6, Footprint
  <2>2. IR' \subseteq IR
    BY <1>6 DEF Sent, ClearIR
  <2> QED
    BY <2>1, <2>2 DEF TypeOK, ChipType
<1>7. CASE ChipSends
  <2>1. txMem \in Seq(0..MaxFrame) /\ Len(txMem) = TxMem
    BY Constants, Memory DEF TypeOK, ChipType
  <2>2. SubSeq(txMem, TX_RD + 1, TX_WR) \in Seq(0..MaxFrame)
    BY <2>1, Part, Constants DEF TypeOK, ChipType
  <2>3. wire' \in Seq(Seq(0..MaxFrame))
    <3>1. wire' = wire \/ wire' = Append(wire, SubSeq(txMem, TX_RD + 1, TX_WR))
      BY <1>7 DEF ChipSends
    <3>2. wire \in Seq(Seq(0..MaxFrame))
      BY DEF TypeOK, ChipType
    <3> DEFINE packet == SubSeq(txMem, TX_RD + 1, TX_WR)
    <3>3. packet \in Seq(0..MaxFrame) /\ (wire' = wire \/ wire' = Append(wire, packet))
      BY <2>2, <3>1
    <3> HIDE DEF packet
    <3>4. Append(wire, packet) \in Seq(Seq(0..MaxFrame))
      BY <3>2, <3>3, Behind
    <3> QED
      BY <3>2, <3>3, <3>4
  <2>4. IR' \subseteq {"SENDOK", "TIMEOUT"}
    BY <1>7 DEF ChipSends, TypeOK, ChipType
  <2> QED
    BY <1>7, <2>3, <2>4 DEF ChipSends, TypeOK, ChipType
<1>8. ASSUME NEW n \in Nat \ {0}, ChipReceives(n) PROVE ChipType'
  BY <1>8 DEF ChipReceives, TypeOK, ChipType
<1>9. ASSUME NEW c \in Core, \/ EnterChip(c) \/ Clear(c) \/ Copy(c) \/ ReadTxWr(c) \/ PollIR(c)
                             \/ \E chain \in Chains[c] : Output(c, chain)
      PROVE  UNCHANGED regVars
  BY <1>9, Footprint
<1>10. ASSUME Spi \/ Cris \/ Initialize \/ Check \/ Lease \/ UpdatePool \/ Launch \/ DhcpRun \/ Process \/ LwipFrees \/ UNCHANGED vars
       PROVE  UNCHANGED regVars
  <2>1. CASE Spi \/ Cris \/ Initialize \/ Check \/ Lease \/ UpdatePool \/ Launch \/ DhcpRun
    BY <1>0, <2>1, Footprint
  <2>2. CASE Process
    BY <1>0, <2>2, Footprint DEF Process
  <2>3. CASE LwipFrees
    BY <1>0, <2>3, Footprint
  <2>4. CASE UNCHANGED vars
    BY <2>4 DEF vars, chipVars, sockVars, regVars
  <2> QED
    BY <1>10, <2>1, <2>2, <2>3, <2>4
<1> QED
  BY <1>1, <1>2, <1>3, <1>4, <1>5, <1>6, <1>7, <1>8, <1>9, <1>10, ChipSteps
     DEF Next, CoreStep, NetifOutput, Boot

\* Every pbuf is free or lwIP's.
LEMMA PbufStep ==
  ASSUME TypeOK, PbufsAccounted, [Next]_vars
  PROVE  PbufType' /\ PbufsAccounted'
<1>0. 0 \in Core /\ 1 \in Core
  BY DEF Core
<1>1. ASSUME UNCHANGED pbufVars PROVE PbufType' /\ PbufsAccounted'
  BY <1>1 DEF TypeOK, PbufType, PbufsAccounted, pbufVars
<1>2. CASE Input
  <2>1. CASE pool = 0
    BY <1>1, <1>2, <2>1 DEF Input, pbufVars
  <2>2. CASE pool # 0
    <3>1. PICK answer \in {"kept", "done", "refused"} : Taken(answer)
      BY <1>2, <2>2 DEF Input
    <3>2. pool \in 0..PoolSize /\ held \in 0..PoolSize /\ pool + held = PoolSize
      BY DEF TypeOK, PbufType, PbufsAccounted
    <3>3. \/ held' = held + 1 /\ pool' = pool - 1
          \/ held' = held + 0 /\ pool' = pool - 0
      BY <3>1 DEF Taken
    <3> QED
      BY <2>2, <3>2, <3>3, Constants DEF PbufType, PbufsAccounted
  <2> QED
    BY <2>1, <2>2
<1>3. CASE LwipFrees
  <2>1. pool \in 0..PoolSize /\ held \in 0..PoolSize /\ pool + held = PoolSize
    BY DEF TypeOK, PbufType, PbufsAccounted
  <2>2. held > 0 /\ held' = held - 1 /\ pool' = pool + 1
    BY <1>3 DEF LwipFrees
  <2> QED
    BY <2>1, <2>2, Constants DEF PbufType, PbufsAccounted
<1>4. ASSUME NEW c \in Core, \/ EnterChip(c) \/ NetifOutput(c)
      PROVE  UNCHANGED pbufVars
  BY <1>4, Footprint DEF NetifOutput
<1>5. ASSUME Boot \/ RecvBuf \/ Recv \/ Timers \/ Chip \/ UNCHANGED vars
      PROVE  UNCHANGED pbufVars
  <2>1. CASE Boot
    BY <1>0, <2>1, Footprint DEF Boot
  <2>2. CASE RecvBuf \/ Recv \/ Timers
    BY <1>0, <2>2, Footprint
  <2>3. CASE Chip
    BY <1>0, <2>3, Footprint
  <2>4. CASE UNCHANGED vars
    BY <2>4 DEF vars, linkVars, pbufVars
  <2> QED
    BY <1>5, <2>1, <2>2, <2>3, <2>4
<1> QED
  BY <1>1, <1>2, <1>3, <1>4, <1>5 DEF Next, CoreStep, Process

-----------------------------------------------------------------------------
(* What is in the receive memory *)

\* Two sequences, one behind the other.
LEMMA Concat ==
  ASSUME NEW S, NEW s \in Seq(S), NEW u \in Seq(S)
  PROVE  /\ s \o u \in Seq(S) /\ Len(s \o u) = Len(s) + Len(u)
         /\ \A i \in 1..Len(s) : (s \o u)[i] = s[i]
         /\ \A i \in 1..Len(u) : (s \o u)[Len(s) + i] = u[i]
OBVIOUS

\* mem2 is mem with a frame of n cells behind it, after its two length bytes.
WithFrame(mem, k, n, mem2) ==
  /\ mem2 \in Seq(Cell) /\ Len(mem2) = Len(mem) + 2 + n
  /\ \A i \in 1..Len(mem) : mem2[i] = mem[i]
  /\ mem2[Len(mem) + 1].len = n + 2
  /\ \A i \in 1..n : mem2[Len(mem) + 2 + i] = Frame(k)

\* What ChipReceives puts into the memory.
LEMMA FrameInMemory ==
  ASSUME NEW k \in Nat, NEW n \in Nat, NEW mem \in Seq(Cell),
         NEW mem2, mem2 = mem \o Head2(k, n) \o Cells(k, n)
  PROVE  WithFrame(mem, k, n, mem2)
<1> DEFINE h  == Head2(k, n)
           b  == Cells(k, n)
           mh == mem \o h
           m  == Len(mem)
<1>1. h \in Seq(Cell) /\ Len(h) = 2 /\ h[1].len = n + 2
  BY DEF Head2, Cell
<1>2. b \in Seq(Cell) /\ Len(b) = n /\ \A i \in 1..n : b[i] = Frame(k)
  <2>1. Frame(k) \in Cell /\ b = [i \in 1..n |-> Frame(k)]
    BY DEF Frame, Cell, Cells
  <2> HIDE DEF b
  <2> QED
    BY <2>1, Memory
<1> HIDE DEF h, b
<1>3. m \in Nat
  OBVIOUS
<1>4. /\ mh \in Seq(Cell) /\ Len(mh) = m + 2
      /\ \A i \in 1..m : mh[i] = mem[i]
      /\ \A i \in 1..2 : mh[m + i] = h[i]
  <2>1. /\ mem \o h \in Seq(Cell) /\ Len(mem \o h) = Len(mem) + Len(h)
        /\ \A i \in 1..Len(mem) : (mem \o h)[i] = mem[i]
        /\ \A i \in 1..Len(h) : (mem \o h)[Len(mem) + i] = h[i]
    <3>1. mem \in Seq(Cell) /\ h \in Seq(Cell)
      BY <1>1
    <3> QED
      BY <3>1, Concat
  <2> QED
    BY <1>1, <2>1
<1> HIDE DEF mh
<1>5. /\ mh \o b \in Seq(Cell) /\ Len(mh \o b) = (m + 2) + n
      /\ \A i \in 1..(m + 2) : (mh \o b)[i] = mh[i]
      /\ \A i \in 1..n : (mh \o b)[(m + 2) + i] = b[i]
  <2>1. /\ mh \o b \in Seq(Cell) /\ Len(mh \o b) = Len(mh) + Len(b)
        /\ \A i \in 1..Len(mh) : (mh \o b)[i] = mh[i]
        /\ \A i \in 1..Len(b) : (mh \o b)[Len(mh) + i] = b[i]
    <3>1. mh \in Seq(Cell) /\ b \in Seq(Cell)
      BY <1>2, <1>4
    <3> QED
      BY <3>1, Concat
  <2> QED
    BY <1>2, <1>4, <2>1
<1>0. mem2 = mh \o b
  BY DEF mh, h, b
<1>6. \A i \in 1..m : i \in 1..(m + 2)
  BY <1>3
<1>7. m + 1 \in 1..(m + 2) /\ 1 \in 1..2
  BY <1>3
<1> HIDE DEF m
<1>8. /\ mem2 \in Seq(Cell) /\ Len(mem2) = m + 2 + n
      /\ \A i \in 1..m : mem2[i] = mem[i]
      /\ mem2[m + 1].len = n + 2
      /\ \A i \in 1..n : mem2[m + 2 + i] = Frame(k)
  BY SMTT(30), <1>0, <1>1, <1>2, <1>4, <1>5, <1>6, <1>7
<1> QED
  BY <1>8 DEF m, WithFrame

\* A frame that arrives is behind the others.
LEMMA MoreFrames ==
  ASSUME NEW arr \in Seq(Nat), NEW mem \in Seq(Cell), NEW t \in 0..Len(arr), NEW n \in Nat,
         Holds(t, arr, mem)
  PROVE  Holds(t, Append(arr, n), mem \o Head2(Len(arr) + 1, n) \o Cells(Len(arr) + 1, n))
<1> DEFINE a    == Len(arr)
           m    == Len(mem)
           arr2 == Append(arr, n)
           mem2 == mem \o Head2(a + 1, n) \o Cells(a + 1, n)
<1>1. PICK start \in [(t + 1)..(a + 1) -> 0..m] : InMemory(start, t, arr, mem)
  BY DEF Holds
<1>2. t \in Nat /\ a \in Nat /\ t <= a /\ m \in Nat /\ \A k \in 1..a : arr[k] \in Nat
  BY Element
<1>3. Len(arr2) = a + 1 /\ arr2[a + 1] = n /\ \A k \in 1..a : arr2[k] = arr[k]
  BY <1>2, Behind
<1>4. /\ Len(mem2) = m + 2 + n
      /\ \A i \in 1..m : mem2[i] = mem[i]
      /\ mem2[m + 1].len = n + 2
      /\ \A i \in 1..n : mem2[m + 2 + i] = Frame(a + 1)
  <2> DEFINE k == a + 1
  <2>1. k \in Nat
    BY <1>2
  <2>2. mem2 = mem \o Head2(k, n) \o Cells(k, n)
    OBVIOUS
  <2> HIDE DEF mem2, a, m, k
  <2>3. WithFrame(mem, k, n, mem2)
    BY <2>1, <2>2, FrameInMemory
  <2> QED
    BY <2>3 DEF WithFrame, m, k
<1>5. /\ start[t + 1] = 0 /\ start[a + 1] = m
      /\ \A k \in (t + 1)..a :
           /\ start[k + 1] = start[k] + 2 + arr[k]
           /\ \A j \in (k + 1)..(a + 1) : start[k + 1] <= start[j]
           /\ mem[start[k] + 1].len = arr[k] + 2
           /\ \A i \in 1..arr[k] : mem[start[k] + 2 + i] = Frame(k)
  BY <1>1 DEF InMemory
<1> HIDE DEF a, m, arr2, mem2
<1> DEFINE start2 == [k \in (t + 1)..(a + 2) |-> IF k = a + 2 THEN m + 2 + n ELSE start[k]]
<1>6. /\ start2[a + 2] = m + 2 + n
      /\ \A k \in (t + 1)..(a + 1) : start2[k] = start[k] /\ start[k] \in 0..m
      /\ t + 1 \in (t + 1)..(a + 1) /\ a + 1 \in (t + 1)..(a + 1)
  BY <1>2
<1>7. start2 \in [(t + 1)..(a + 2) -> 0..(m + 2 + n)]
  <2>1. \A k \in (t + 1)..(a + 2) : k = a + 2 \/ k \in (t + 1)..(a + 1)
    BY <1>2
  <2>2. \A k \in (t + 1)..(a + 2) : (IF k = a + 2 THEN m + 2 + n ELSE start[k]) \in 0..(m + 2 + n)
    BY <1>2, <1>6, <2>1
  <2> QED
    BY <2>2
<1> HIDE DEF start2
<1>8. ASSUME NEW k \in (t + 1)..a
      PROVE  /\ start2[k + 1] = start2[k] + 2 + arr2[k]
             /\ \A j \in (k + 1)..(a + 2) : start2[k + 1] <= start2[j]
             /\ mem2[start2[k] + 1].len = arr2[k] + 2
             /\ \A i \in 1..arr2[k] : mem2[start2[k] + 2 + i] = Frame(k)
  <2> DEFINE s == start[k]
             r == start[k + 1]
             l == arr[k]
  <2>1. k \in 1..a /\ k + 1 \in (t + 1)..(a + 1) /\ k \in (t + 1)..(a + 1) /\ a + 1 \in (k + 1)..(a + 1)
    BY <1>2
  <2>2. start2[k + 1] = r /\ start2[k] = s /\ arr2[k] = l /\ l \in Nat /\ s \in Nat /\ r \in Nat
    BY SMTT(30), <1>2, <1>3, <1>6, <2>1
  <2>3. r = s + 2 + l /\ r <= m
    BY <1>5, <2>1
  <2>4. ASSUME NEW j \in (k + 1)..(a + 2) PROVE r <= start2[j]
    <3>1. j = a + 2 \/ (j \in (k + 1)..(a + 1) /\ j \in (t + 1)..(a + 1))
      BY <1>2
    <3>2. r <= m + 2 + n
      BY <1>2, <2>2, <2>3
    <3> QED
      BY <1>5, <1>6, <3>1, <3>2
  <2>5. mem[s + 1].len = l + 2 /\ \A i \in 1..l : mem[s + 2 + i] = Frame(k)
    BY <1>5
  <2> HIDE DEF s, r, l
  <2>6. s + 1 \in 1..m /\ \A i \in 1..l : s + 2 + i \in 1..m
    BY <1>2, <2>2, <2>3
  <2> QED
    BY <1>4, <2>2, <2>3, <2>4, <2>5, <2>6
<1>9. /\ start2[a + 2] = start2[a + 1] + 2 + arr2[a + 1]
      /\ \A j \in (a + 2)..(a + 2) : start2[a + 2] <= start2[j]
      /\ mem2[start2[a + 1] + 1].len = arr2[a + 1] + 2
      /\ \A i \in 1..arr2[a + 1] : mem2[start2[a + 1] + 2 + i] = Frame(a + 1)
  <2>1. start2[a + 1] = m /\ start2[a + 2] = m + 2 + n /\ arr2[a + 1] = n
    BY <1>3, <1>5, <1>6
  <2>2. \A j \in (a + 2)..(a + 2) : j = a + 2
    BY <1>2
  <2>3. m + 2 + n <= m + 2 + n
    BY <1>2
  <2> QED
    BY <1>4, <2>1, <2>2, <2>3
<1>10. InMemory(start2, t, arr2, mem2)
  <2>1. \A k \in (t + 1)..(a + 1) : k \in (t + 1)..a \/ k = a + 1
    BY <1>2
  <2>2. start2[t + 1] = 0 /\ start2[a + 2] = Len(mem2)
    BY <1>4, <1>5, <1>6
  <2>3. (a + 1) + 1 = a + 2
    BY <1>2
  <2>4. ASSUME NEW k \in (t + 1)..(a + 1)
        PROVE  /\ start2[k + 1] = start2[k] + 2 + arr2[k]
               /\ \A j \in (k + 1)..(a + 2) : start2[k + 1] <= start2[j]
               /\ mem2[start2[k] + 1].len = arr2[k] + 2
               /\ \A i \in 1..arr2[k] : mem2[start2[k] + 2 + i] = Frame(k)
    <3>1. CASE k \in (t + 1)..a
      BY <1>8, <3>1
    <3>2. CASE k = a + 1
      BY <1>9, <2>3, <3>2
    <3> QED
      BY <2>1, <3>1, <3>2
  <2> QED
    BY <1>3, <2>2, <2>3, <2>4 DEF InMemory
<1>11. start2 \in [(t + 1)..(Len(arr2) + 1) -> 0..Len(mem2)]
  <2>1. (a + 1) + 1 = a + 2
    BY <1>2
  <2> QED
    BY <1>3, <1>4, <1>7, <2>1
<1>12. Holds(t, arr2, mem2)
  BY <1>10, <1>11 DEF Holds
<1> QED
  BY <1>12 DEF arr2, mem2, a

\* The first frame in the memory is whole, and without it the others are there.
LEMMA FirstFrame ==
  ASSUME NEW arr \in Seq(Nat), NEW mem \in Seq(Cell), NEW t \in 0..Len(arr), t < Len(arr),
         Holds(t, arr, mem)
  PROVE  LET n == arr[t + 1]
         IN  /\ n \in Nat /\ 2 + n <= Len(mem) /\ mem[1].len = n + 2
             /\ \A i \in 1..n : mem[2 + i] = Frame(t + 1)
             /\ Holds(t + 1, arr, SubSeq(mem, (2 + n) + 1, Len(mem)))
<1> DEFINE a    == Len(arr)
           m    == Len(mem)
           n    == arr[t + 1]
           d    == 2 + n
           mem2 == SubSeq(mem, d + 1, m)
<1>1. PICK start \in [(t + 1)..(a + 1) -> 0..m] : InMemory(start, t, arr, mem)
  BY DEF Holds
<1>2. t \in Nat /\ a \in Nat /\ t < a /\ m \in Nat /\ \A k \in 1..a : arr[k] \in Nat
  BY Element
<1>3. /\ start[t + 1] = 0 /\ start[a + 1] = m
      /\ \A k \in (t + 1)..a :
           /\ start[k + 1] = start[k] + 2 + arr[k]
           /\ \A j \in (k + 1)..(a + 1) : start[k + 1] <= start[j]
           /\ mem[start[k] + 1].len = arr[k] + 2
           /\ \A i \in 1..arr[k] : mem[start[k] + 2 + i] = Frame(k)
  BY <1>1 DEF InMemory
<1>4. n \in Nat /\ d \in Nat /\ d = 2 + n
  <2>1. t + 1 \in 1..a
    BY <1>2
  <2> QED
    BY <1>2, <2>1
<1>5. start[t + 2] = d /\ \A j \in (t + 2)..(a + 1) : d <= start[j]
  <2>1. t + 1 \in (t + 1)..a /\ (t + 1) + 1 = t + 2
    BY <1>2
  <2>2. start[t + 2] = 0 + 2 + n
    BY <1>3, <2>1
  <2>3. start[t + 2] = d
    BY <1>4, <2>2
  <2>4. \A j \in (t + 2)..(a + 1) : start[t + 2] <= start[j]
    BY <1>3, <2>1
  <2> QED
    BY <2>3, <2>4
<1>6. d <= m
  <2>1. a + 1 \in (t + 2)..(a + 1)
    BY <1>2
  <2> QED
    BY <1>3, <1>5, <2>1
<1>7. mem[1].len = n + 2 /\ \A i \in 1..n : mem[2 + i] = Frame(t + 1)
  <2>1. t + 1 \in (t + 1)..a
    BY <1>2
  <2>2. mem[0 + 1].len = n + 2 /\ \A i \in 1..n : mem[0 + 2 + i] = Frame(t + 1)
    BY <1>3, <2>1
  <2>3. 0 + 1 = 1 /\ \A i \in 1..n : 0 + 2 + i = 2 + i
    BY <1>4
  <2> QED
    BY <2>2, <2>3
<1>8. Len(mem2) = m - d /\ \A i \in 1..(m - d) : mem2[i] = mem[d + i]
  <2>1. d \in 0..Len(mem)
    BY <1>2, <1>4, <1>6
  <2> HIDE DEF d
  <2> QED
    BY <2>1, Rest
<1> HIDE DEF a, m, n, d, mem2
<1> DEFINE start2 == [k \in (t + 2)..(a + 1) |-> start[k] - d]
<1>9. \A k \in (t + 2)..(a + 1) : start[k] \in 0..m /\ d <= start[k] /\ start2[k] = start[k] - d
  <2>1. \A k \in (t + 2)..(a + 1) : k \in (t + 1)..(a + 1)
    BY <1>2
  <2> QED
    BY <1>5, <2>1
<1>10. start2 \in [(t + 2)..(a + 1) -> 0..(m - d)]
  BY SMTT(30), <1>2, <1>4, <1>6, <1>9
<1> HIDE DEF start2
<1>11. ASSUME NEW k \in (t + 2)..a
       PROVE  /\ start2[k + 1] = start2[k] + 2 + arr[k]
              /\ \A j \in (k + 1)..(a + 1) : start2[k + 1] <= start2[j]
              /\ mem2[start2[k] + 1].len = arr[k] + 2
              /\ \A i \in 1..arr[k] : mem2[start2[k] + 2 + i] = Frame(k)
  <2> DEFINE s == start[k]
             r == start[k + 1]
             l == arr[k]
  <2>1. /\ k \in 1..a /\ k + 1 \in (t + 2)..(a + 1) /\ k \in (t + 2)..(a + 1)
        /\ a + 1 \in (k + 1)..(a + 1) /\ k \in (t + 1)..a
    BY <1>2
  <2>2. /\ start2[k + 1] = r - d /\ start2[k] = s - d /\ l \in Nat
        /\ s \in 0..m /\ r \in 0..m /\ d <= s /\ d <= r
    BY <1>2, <1>9, <2>1
  <2>3. r = s + 2 + l /\ r <= m
    BY <1>3, <2>1
  <2>4. ASSUME NEW j \in (k + 1)..(a + 1) PROVE r - d <= start2[j]
    <3>0. \A i \in (k + 1)..(a + 1) : r <= start[i]
      BY <1>3, <2>1
    <3>1. j \in (t + 2)..(a + 1) /\ r <= start[j]
      BY <1>2, <2>1, <3>0
    <3>2. start2[j] = start[j] - d /\ start[j] \in 0..m
      BY <1>9, <3>1
    <3> DEFINE q == start[j]
               y == start2[j]
    <3>3. r <= q /\ y = q - d
      BY <3>1, <3>2
    <3>4. r \in Nat /\ q \in Nat /\ d \in Nat
      BY <1>2, <1>4, <2>2, <3>2
    <3>5. r - d <= y
      <4> HIDE DEF q, r, y
      <4> QED
        BY <3>3, <3>4
    <3> QED
      BY <3>5
  <2>5. mem[s + 1].len = l + 2 /\ \A i \in 1..l : mem[s + 2 + i] = Frame(k)
    BY <1>3, <2>1
  <2> HIDE DEF s, r, l
  <2>6. /\ (s - d) + 1 \in 1..(m - d) /\ d + ((s - d) + 1) = s + 1
        /\ \A i \in 1..l : (s - d) + 2 + i \in 1..(m - d) /\ d + ((s - d) + 2 + i) = s + 2 + i
    BY <1>2, <1>4, <2>2, <2>3
  <2>7. r - d = (s - d) + 2 + l
    BY <1>2, <1>4, <2>2, <2>3
  <2>8. mem2[(s - d) + 1] = mem[s + 1] /\ \A i \in 1..l : mem2[(s - d) + 2 + i] = mem[s + 2 + i]
    BY <1>8, <2>6
  <2>9. /\ start2[k + 1] = start2[k] + 2 + l
        /\ \A j \in (k + 1)..(a + 1) : start2[k + 1] <= start2[j]
        /\ mem2[start2[k] + 1].len = l + 2
        /\ \A i \in 1..l : mem2[start2[k] + 2 + i] = Frame(k)
    BY <2>2, <2>4, <2>5, <2>7, <2>8
  <2> QED
    BY <2>9 DEF l
<1>12. start2[t + 2] = 0 /\ start2[a + 1] = m - d
  <2>1. t + 2 \in (t + 2)..(a + 1) /\ a + 1 \in (t + 2)..(a + 1)
    BY <1>2
  <2> QED
    BY <1>3, <1>4, <1>5, <1>9, <2>1
<1>13. Holds(t + 1, arr, mem2)
  <2>1. (t + 1) + 1 = t + 2
    BY <1>2
  <2>2. InMemory(start2, t + 1, arr, mem2)
    BY <1>8, <1>11, <1>12, <2>1 DEF InMemory, a
  <2>3. start2 \in [((t + 1) + 1)..(Len(arr) + 1) -> 0..Len(mem2)]
    BY <1>8, <1>10, <2>1 DEF a
  <2> QED
    BY <2>2, <2>3 DEF Holds
<1> QED
  BY <1>4, <1>6, <1>7, <1>13 DEF mem2, d, n, m

\* Steps that neither bring a frame nor take one.
LEMMA RxKept ==
  ASSUME TypeOK, RxInv, FramesTaken, UNCHANGED <<rxMem, arrived, taken>>,
         pc'[1] = "recv" => pc[1] = "recv" /\ pack_len' = pack_len,
         pack_len' \in Nat
  PROVE  RxType' /\ RxInv' /\ FramesTaken'
BY DEF RxInv, FramesTaken, Cells, TypeOK, RxType, Holds, InMemory, Frame

\* A sequence over a set is one over a larger set.
LEMMA Wider ==
  ASSUME NEW S, NEW T, S \subseteq T, NEW s \in Seq(S)
  PROVE  s \in Seq(T)
OBVIOUS

\* The numbers of the frames that came and that were taken.
LEMMA RxNumbers ==
  ASSUME TypeOK, RxInv
  PROVE  /\ Len(taken) \in 0..Len(arrived) /\ Len(arrived) \in Nat /\ Len(rxMem) \in Nat
         /\ arrived \in Seq(Nat) /\ rxMem \in Seq(Cell)
<1>1. Nat \ {0} \subseteq Nat /\ arrived \in Seq(Nat \ {0})
  BY DEF TypeOK, RxType
<1>2. arrived \in Seq(Nat)
  BY <1>1, Wider
<1> QED
  BY <1>2 DEF TypeOK, RxType, RxInv

\* getsockopt: the frame that recv_lwip will read is whole.
LEMMA RecvBufStep ==
  ASSUME TypeOK, RxInv, FramesTaken, RecvBuf
  PROVE  RxType' /\ RxInv' /\ FramesTaken'
<1>1. UNCHANGED <<rxMem, arrived, taken>> /\ pack_len' = Len(rxMem)
  BY DEF RecvBuf, Quiet, sockVars, history
<1>2. ASSUME pc'[1] = "recv"
      PROVE  Len(taken) < Len(arrived) /\ pack_len' >= arrived[Len(taken) + 1] + 2
  <2>1. rxMem # <<>>
    BY <1>2 DEF RecvBuf, ByAccess, Go, TypeOK, CoreType, Core
  <2>2. Len(rxMem) > 0
    BY <2>1 DEF TypeOK, RxType
  <2>3. Len(taken) # Len(arrived)
    BY <2>2 DEF RxInv, Holds, InMemory
  <2>4. Len(taken) < Len(arrived)
    BY <2>3, RxNumbers
  <2>5. LET n == arrived[Len(taken) + 1] IN n \in Nat /\ 2 + n <= Len(rxMem)
    BY <2>4, RxNumbers, FirstFrame DEF RxInv
  <2> QED
    BY <1>1, <2>4, <2>5, RxNumbers
<1>3. RxInv'
  BY <1>1, <1>2 DEF RxInv, Holds, InMemory, Frame
<1>4. FramesTaken'
  BY <1>1 DEF FramesTaken, Cells
<1>5. RxType'
  BY <1>1 DEF TypeOK, RxType
<1> QED
  BY <1>3, <1>4, <1>5

\* A frame arrives behind the others.
LEMMA ReceiveStep ==
  ASSUME TypeOK, RxInv, FramesTaken, NEW n \in Nat \ {0}, ChipReceives(n), UNCHANGED <<pc, taken, pack_len>>
  PROVE  RxType' /\ RxInv' /\ FramesTaken'
<1>1. n \in Nat
  OBVIOUS
<1>2. /\ arrived' = Append(arrived, n)
      /\ rxMem' = rxMem \o Head2(Len(arrived) + 1, n) \o Cells(Len(arrived) + 1, n)
  BY DEF ChipReceives
<1>3. /\ Len(arrived') = Len(arrived) + 1
      /\ \A k \in 1..Len(arrived) : arrived'[k] = arrived[k]
  BY <1>1, <1>2, RxNumbers, Behind
<1>4. Holds(Len(taken'), arrived', rxMem')
  BY <1>1, <1>2, RxNumbers, MoreFrames DEF RxInv
<1>5. RxInv'
  <2>1. Len(taken') <= Len(arrived')
    BY <1>3, RxNumbers
  <2>2. pc'[1] = "recv" => Len(taken') < Len(arrived') /\ pack_len' >= arrived'[Len(taken') + 1] + 2
    <3> HAVE pc'[1] = "recv"
    <3>1. Len(taken) < Len(arrived) /\ pack_len >= arrived[Len(taken) + 1] + 2
      BY DEF RxInv
    <3>2. Len(taken) + 1 \in 1..Len(arrived)
      BY <3>1, RxNumbers
    <3> QED
      BY <1>3, <3>1, <3>2, RxNumbers
  <2> QED
    BY <1>4, <2>1, <2>2 DEF RxInv
<1>6. FramesTaken'
  <2>1. \A i \in DOMAIN taken : i \in 1..Len(arrived)
                                /\ (arrived[i] <= PackSize => taken'[i] = Cells(i, arrived[i]))
    <3>1. DOMAIN taken = 1..Len(taken)
      BY DEF TypeOK, RxType
    <3>2. \A i \in DOMAIN taken : i \in 1..Len(arrived)
      BY <3>1, RxNumbers
    <3>3. taken' = taken
      OBVIOUS
    <3> QED
      BY <3>2, <3>3, Zenon DEF FramesTaken
  <2> QED
    BY <1>3, <2>1 DEF FramesTaken, Cells
<1>7. RxType'
  <2>1. arrived' \in Seq(Nat \ {0})
    <3> DEFINE Lengths == Nat \ {0}
    <3>1. arrived \in Seq(Lengths) /\ n \in Lengths
      BY DEF TypeOK, RxType
    <3> HIDE DEF Lengths
    <3>2. Append(arrived, n) \in Seq(Lengths)
      BY <3>1, Behind
    <3> QED
      BY <1>2, <3>2 DEF Lengths
  <2>2. rxMem' \in Seq(Cell)
    <3> DEFINE k == Len(arrived) + 1
    <3>1. k \in Nat /\ rxMem \in Seq(Cell) /\ rxMem' = rxMem \o Head2(k, n) \o Cells(k, n)
      BY <1>2, RxNumbers
    <3> HIDE DEF k
    <3>2. WithFrame(rxMem, k, n, rxMem')
      BY <1>1, <3>1, FrameInMemory
    <3> QED
      BY <3>2 DEF WithFrame
  <2> QED
    BY <2>1, <2>2 DEF TypeOK, RxType
<1> QED
  BY <1>5, <1>6, <1>7

\* recv_lwip takes the first frame, as it came.
LEMMA RecvStep ==
  ASSUME TypeOK, RxInv, FramesTaken, Recv
  PROVE  RxType' /\ RxInv' /\ FramesTaken'
<1> DEFINE t == Len(taken)
           n == arrived[t + 1]
<1>1. t < Len(arrived) /\ pack_len >= n + 2 /\ t \in Nat /\ pack_len \in Nat
  BY RxNumbers DEF RxInv, Recv, ByAccess, TypeOK, RxType
<1>2. /\ n \in Nat /\ 2 + n <= Len(rxMem) /\ rxMem[1].len = n + 2
      /\ \A i \in 1..n : rxMem[2 + i] = Frame(t + 1)
      /\ Holds(t + 1, arrived, SubSeq(rxMem, (2 + n) + 1, Len(rxMem)))
  BY <1>1, RxNumbers, FirstFrame DEF RxInv
<1> HIDE DEF n, t
<1>3. rxMem[1].len - 2 = n /\ ~(n > pack_len) /\ (n + 2) + 1 = (2 + n) + 1
  BY <1>1, <1>2
<1>4. /\ rxMem' = SubSeq(rxMem, (2 + n) + 1, Len(rxMem)) /\ arrived' = arrived
      /\ taken' = Append(taken, SubSeq(rxMem, 3, 2 + InPack(n))) /\ pack_len' = n
      /\ Go(1, "input") \/ Go(1, "halt")
  BY <1>3 DEF Recv, TakeCells, ByAccess
<1> DEFINE frame == SubSeq(rxMem, 3, 2 + InPack(n))
<1>5. n <= PackSize => frame = Cells(t + 1, n)
  <2> HAVE n <= PackSize
  <2>1. SubSeq(rxMem, 2 + 1, 2 + n) = [i \in 1..n |-> rxMem[2 + i]]
    BY <1>2, RxNumbers, Burst
  <2>2. 2 + 1 = 3 /\ InPack(n) = n
    BY <1>2, Constants DEF InPack
  <2> QED
    BY <1>2, <2>1, <2>2 DEF Cells, Frame
<1>6. frame \in Seq(Cell)
  <2>1. InPack(n) \in Nat /\ 2 + InPack(n) \in Nat /\ 2 + InPack(n) <= Len(rxMem)
    BY <1>2, Constants, RxNumbers DEF InPack
  <2>2. SubSeq(rxMem, 2 + 1, 2 + InPack(n)) \in Seq(Cell)
    BY <2>1, RxNumbers, Part
  <2> QED
    BY <2>2
<1> HIDE DEF frame
<1>7. /\ taken' \in Seq(Seq(Cell)) /\ Len(taken') = t + 1 /\ taken'[t + 1] = frame
      /\ \A i \in 1..t : taken'[i] = taken[i]
      /\ DOMAIN taken' = 1..(t + 1)
  <2>1. taken \in Seq(Seq(Cell)) /\ frame \in Seq(Cell) /\ taken' = Append(taken, frame)
    BY <1>4, <1>6 DEF TypeOK, RxType, frame
  <2>2. /\ Append(taken, frame) \in Seq(Seq(Cell))
        /\ Len(Append(taken, frame)) = Len(taken) + 1
        /\ Append(taken, frame)[Len(taken) + 1] = frame
        /\ \A i \in 1..Len(taken) : Append(taken, frame)[i] = taken[i]
    BY <2>1, Behind
  <2>3. DOMAIN Append(taken, frame) = 1..Len(Append(taken, frame))
    BY <2>2
  <2> QED
    BY <2>1, <2>2, <2>3 DEF t
<1>8. RxInv'
  <2>1. pc'[1] # "recv"
    BY <1>4 DEF Go, TypeOK, CoreType, Core
  <2>2. Holds(Len(taken'), arrived', rxMem')
    BY <1>2, <1>4, <1>7
  <2>3. Len(taken') <= Len(arrived')
    BY <1>1, <1>4, <1>7, RxNumbers
  <2> QED
    BY <2>1, <2>2, <2>3 DEF RxInv
<1>9. FramesTaken'
  <2>1. \A i \in 1..t : arrived[i] <= PackSize => taken[i] = Cells(i, arrived[i])
    BY DEF FramesTaken, t, TypeOK, RxType
  <2>2. \A i \in 1..(t + 1) : i \in 1..t \/ i = t + 1
    BY <1>1
  <2>3. \A i \in 1..(t + 1) : arrived[i] <= PackSize => taken'[i] = Cells(i, arrived[i])
    BY <1>5, <1>7, <2>1, <2>2 DEF n
  <2>4. DOMAIN taken' = 1..(t + 1)
    BY <1>7
  <2> QED
    BY <1>4, <2>3, <2>4 DEF FramesTaken, Cells
<1>10. RxType'
  <2>1. SubSeq(rxMem, (2 + n) + 1, Len(rxMem)) \in Seq(Cell)
    <3>1. 2 + n \in Nat
      BY <1>2
    <3> QED
      BY <3>1, RxNumbers, Part
  <2> QED
    BY <1>2, <1>4, <1>7, <2>1 DEF TypeOK, RxType
<1> QED
  BY <1>8, <1>9, <1>10

\* Every step keeps the receive memory in order.
LEMMA RxStep ==
  ASSUME TypeOK, RxInv, FramesTaken, [Next]_vars
  PROVE  RxType' /\ RxInv' /\ FramesTaken'
<1>0. 0 \in Core /\ 1 \in Core
  BY DEF Core
<1>1. ASSUME UNCHANGED rxVars, pc'[1] = "recv" => pc[1] = "recv"
      PROVE  RxType' /\ RxInv' /\ FramesTaken'
  <2>1. UNCHANGED <<rxMem, arrived, taken>> /\ pack_len' = pack_len /\ pack_len' \in Nat
    BY <1>1 DEF rxVars, TypeOK, RxType
  <2> QED
    BY <1>1, <2>1, RxKept
<1>2. CASE RecvBuf
  BY <1>2, RecvBufStep
<1>3. CASE Recv
  BY <1>3, RecvStep
<1>4. CASE Timers
  <2>1. UNCHANGED <<rxMem, arrived, taken>> /\ pack_len' = 0 /\ pc'[1] # "recv"
    BY <1>4 DEF Timers, ByItself, Go, chipVars, sockVars, history, TypeOK, CoreType, Core
  <2> QED
    BY <2>1, RxKept
<1>5. CASE Chip
  <2>1. ASSUME NEW n \in Nat \ {0}, ChipReceives(n) PROVE RxType' /\ RxInv' /\ FramesTaken'
    <3>1. UNCHANGED <<pc, taken, pack_len>>
      BY <1>0, <1>5, Footprint
    <3> QED
      BY <2>1, <3>1, ReceiveStep
  <2>2. CASE ChipSends
    <3>1. UNCHANGED rxVars /\ pc' = pc
      BY <1>5, <2>2 DEF Chip, ChipSends, rxVars, linkVars, history
    <3> QED
      BY <1>1, <3>1
  <2> QED
    BY <1>5, <2>1, <2>2, ChipSteps
<1>6. ASSUME NEW c \in Core, EnterChip(c) \/ NetifOutput(c)
      PROVE  UNCHANGED rxVars /\ (pc'[1] = "recv" => pc[1] = "recv")
  <2>1. UNCHANGED rxVars
    BY <1>6, Footprint DEF NetifOutput
  <2>2. CASE EnterChip(c)
    BY <2>1, <2>2, Footprint
  <2>3. CASE NetifOutput(c)
    <3>1. out[c].back \in {"launch", "idle", "timers"}
      BY Locals DEF OutRecord
    <3>2. \E there \in (Sending \cup {"launch", "idle", "timers"}) : Go(c, there)
      BY <2>3, <3>1, Moves DEF NetifOutput, Output, Callers, Clear, Put, WriteTxWr, Send, PollIR, ByItself, ByAccess, Sending
    <3> QED
      BY <2>1, <3>2 DEF Go, Sending, TypeOK, CoreType
  <2> QED
    BY <1>6, <2>2, <2>3
<1>7. CASE Boot \/ Input \/ LwipFrees
  <2>1. UNCHANGED rxVars
    BY <1>0, <1>7, Footprint DEF Boot
  <2>2. pc'[1] = "recv" => pc[1] = "recv"
    BY <1>7 DEF Boot, Spi, Cris, Initialize, Check, Lease, UpdatePool, LwipInit, Launch, DhcpRun, Input, LwipFrees,
                ByItself, ByAccess, Go, TypeOK, CoreType, Core
  <2> QED
    BY <1>1, <2>1, <2>2
<1>8. CASE UNCHANGED vars
  BY <1>1, <1>8 DEF vars, rxVars, chipVars, sockVars, linkVars, history
<1> QED
  BY <1>1, <1>2, <1>3, <1>4, <1>5, <1>6, <1>7, <1>8 DEF Next, CoreStep, Process

-----------------------------------------------------------------------------
(* A frame on its way to the wire *)

\* What is known of a core in netif_output, while the cores have not overlapped.
LEMMA Alone ==
  ASSUME TypeOK, RoomInv, WireInv, ~overlap, NEW c \in Core, pc[c] \in Sending
  PROVE  /\ OnItsWay(c) /\ pc[1 - c] \notin Sending
         /\ out[c].id = Len(frames) /\ out[c].id \in 1..Len(frames)
         /\ frames[out[c].id] # <<>> /\ frames[out[c].id][1] = out[c].id
<1>1. OnItsWay(c)
  BY DEF WireInv
<1>2. out[c].id \in 1..Len(frames)
  BY DEF RoomInv, RoomFor
<1>3. frames[out[c].id] # <<>> /\ frames[out[c].id][1] = out[c].id
  BY <1>2 DEF WireInv, TypeOK, OutType
<1> QED
  BY <1>1, <1>2, <1>3 DEF OnItsWay

\* A step outside of netif_output that leaves the way to the wire alone.
LEMMA WireKept ==
  ASSUME WireInv, FramesOnWire, UNCHANGED outVars, UNCHANGED <<txMem, TX_RD, TX_WR, CR, wire>>,
         \A c \in Core : pc'[c] = pc[c] \/ (pc[c] \notin Sending /\ pc'[c] \notin Sending)
  PROVE  WireInv' /\ FramesOnWire'
<1>1. /\ tx_frame' = tx_frame /\ out' = out /\ frames' = frames /\ overlap' = overlap
      /\ txMem' = txMem /\ TX_RD' = TX_RD /\ TX_WR' = TX_WR /\ CR' = CR /\ wire' = wire
  BY DEF outVars
<1>2. \A c \in Core : pc'[c] \in Sending <=> pc[c] \in Sending
  BY DEF Sending
<1>3. ASSUME NEW c \in Core, pc'[c] \in Sending, OnItsWay(c)
      PROVE  OnItsWay(c)'
  <2>1. pc'[c] = pc[c] /\ (pc'[1 - c] \notin Sending <=> pc[1 - c] \notin Sending)
    BY <1>2, <1>3, TwoCores
  <2> QED
    BY <1>1, <1>3, <2>1 DEF OnItsWay, Padded, Total
<1>4. FramesOnWire'
  BY <1>1 DEF FramesOnWire
<1>5. \A f \in DOMAIN frames' : frames'[f] # <<>> /\ frames'[f][1] = f
  BY <1>1 DEF WireInv
<1>6. ASSUME ~overlap'
      PROVE  /\ \A c \in Core : pc'[c] \in Sending => OnItsWay(c)'
             /\ (\A c \in Core : pc'[c] \notin Sending) => ~CR' /\ TX_RD' = TX_WR'
  BY <1>1, <1>2, <1>3, <1>6 DEF WireInv
<1>7. WireInv'
  BY <1>5, <1>6 DEF WireInv
<1> QED
  BY <1>4, <1>7

\* A core goes on in netif_output.
LEMMA WireGoesOn ==
  ASSUME TypeOK, RoomInv, WireInv, FramesOnWire, NEW c \in Core,
         pc[c] \in Sending, pc'[c] \in Sending, pc'[1 - c] = pc[1 - c],
         UNCHANGED <<frames, overlap, wire>>, ~overlap => OnItsWay(c)'
  PROVE  WireInv' /\ FramesOnWire'
<1>1. FramesOnWire'
  BY DEF FramesOnWire
<1>2. \A f \in DOMAIN frames' : frames'[f] # <<>> /\ frames'[f][1] = f
  BY DEF WireInv
<1>3. ASSUME ~overlap'
      PROVE  /\ \A d \in Core : pc'[d] \in Sending => OnItsWay(d)'
             /\ \E d \in Core : pc'[d] \in Sending
  <2>1. pc'[1 - c] \notin Sending /\ OnItsWay(c)'
    BY <1>3, Alone
  <2> QED
    BY <2>1, TwoCores
<1>4. WireInv'
  BY <1>2, <1>3 DEF WireInv
<1> QED
  BY <1>1, <1>4

\* lwIP hands a frame over: it comes behind those on the wire.
LEMMA OutputOnWire ==
  ASSUME TypeOK, RoomInv, WireInv, FramesOnWire,
         NEW c \in Core, NEW chain \in Chains[c], Output(c, chain)
  PROVE  WireInv' /\ FramesOnWire'
<1> DEFINE k == Len(frames) + 1
           f == Padded(k, Total(chain))
<1>1. /\ Total(chain) \in Nat \ {0} /\ PbufChain(chain) /\ MinFrame \in Nat
      /\ MinFrame <= FrameSize /\ FrameSize \in Nat
  BY LinkAssumption
<1>2. k \in Nat /\ frames \in Seq(Seq(0..MaxFrame)) /\ Len(frames) < MaxFrame /\ k \in 0..MaxFrame
  BY LinkAssumption DEF Output, TypeOK, OutType
<1>3. f \in Seq(0..MaxFrame) /\ f # <<>> /\ f[1] = k
  <2> DEFINE n == IF Total(chain) < MinFrame THEN MinFrame ELSE Total(chain)
  <2>1. n \in Nat \ {0} /\ n >= Total(chain) /\ 1 \in 1..n
    BY <1>1
  <2>2. f = [i \in 1..n |-> IF i <= Total(chain) THEN k ELSE 0]
    BY DEF Padded
  <2>3. f[1] = k
    BY <1>1, <2>1, <2>2
  <2>4. f \in [1..n -> 0..MaxFrame]
    <3> HIDE DEF n, k
    <3>1. 0 \in 0..MaxFrame
      BY LinkAssumption
    <3> QED
      BY <1>2, <2>2, <3>1
  <2> HIDE DEF f, n
  <2>5. f \in Seq(0..MaxFrame) /\ Len(f) = n
    BY <2>1, <2>4, Memory
  <2>6. f # <<>>
    BY <2>1, <2>5, NotEmpty
  <2> QED
    BY <2>3, <2>5, <2>6
<1>4. frames' = Append(frames, f)
  BY DEF Output
<1> HIDE DEF f
<1>5. /\ Len(frames') = k /\ DOMAIN frames' = DOMAIN frames \cup {k} /\ frames'[k] = f
      /\ \A i \in DOMAIN frames : i \in 1..Len(frames) /\ frames'[i] = frames[i]
  BY <1>2, <1>3, <1>4, Behind
<1> HIDE DEF k
<1>6. wire' = wire /\ UNCHANGED <<txMem, TX_RD, TX_WR, CR>>
  BY DEF Output, chipVars, sockVars
<1>7. FramesOnWire'
  <2>1. overlap' = (overlap \/ pc[1 - c] \in Sending)
    BY DEF Output
  <2>2. ASSUME ~overlap, NEW i \in DOMAIN wire
        PROVE  /\ \E j \in DOMAIN frames' : wire[i] = frames'[j]
               /\ i > 1 => wire[i - 1][1] < wire[i][1]
    <3>1. PICK j \in DOMAIN frames : wire[i] = frames[j]
      BY <2>2 DEF FramesOnWire
    <3>2. j \in DOMAIN frames' /\ wire[i] = frames'[j]
      BY <1>5, <3>1
    <3> QED
      BY <2>2, <3>2 DEF FramesOnWire
  <2> QED
    BY <1>6, <2>1, <2>2 DEF FramesOnWire
<1>8. \A i \in DOMAIN frames' : frames'[i] # <<>> /\ frames'[i][1] = i
  BY <1>3, <1>5 DEF WireInv
<1>9. ASSUME ~overlap'
      PROVE  /\ \A d \in Core : pc'[d] \in Sending => OnItsWay(d)'
             /\ \E d \in Core : pc'[d] \in Sending
  <2>1. ~overlap /\ pc[1 - c] \notin Sending
    BY <1>9 DEF Output
  <2>2. pc'[c] = "clear" /\ pc'[1 - c] = pc[1 - c] /\ pc[c] \notin Sending
    <3>1. Go(c, "clear") /\ "clear" \in Pc /\ pc[c] \in {"launch", "idle", "timers"}
      BY DEF Output, Callers, Pc, Sending
    <3> QED
      BY <3>1, Goes DEF Sending
  <2>3. ~CR /\ TX_RD = TX_WR
    BY <2>1, <2>2, TwoCores DEF WireInv
  <2>4. \A i \in DOMAIN wire : wire[i][1] < k
    <3>1. \A i \in DOMAIN wire : \E j \in DOMAIN frames : wire[i] = frames[j]
      BY <2>1 DEF FramesOnWire
    <3>2. \A j \in DOMAIN frames : frames[j][1] = j /\ j < k
      BY <1>2 DEF WireInv, k
    <3> QED
      BY <3>1, <3>2
  <2>5. out'[c].id = k /\ out'[c].parts = chain /\ out'[c].len = 0
    BY OutputLocals DEF k
  <2>6. 0 + Total(chain) = Total(chain)
    BY <1>1
  <2>7. OnItsWay(c)'
    <3>1. frames'[out'[c].id] = Padded(out'[c].id, out'[c].len + Total(out'[c].parts))
      BY <1>5, <2>5, <2>6 DEF f
    <3> QED
      BY <1>5, <1>6, <2>1, <2>2, <2>3, <2>4, <2>5, <3>1 DEF OnItsWay, Padded, Total, Sending
  <2> QED
    BY <2>1, <2>2, <2>7, TwoCores DEF Sending
<1>10. WireInv'
  BY <1>8, <1>9 DEF WireInv
<1> QED
  BY <1>7, <1>10

\* tx_frame is cleared.
LEMMA ClearOnWire ==
  ASSUME TypeOK, RoomInv, WireInv, FramesOnWire, NEW c \in Core, Clear(c)
  PROVE  WireInv' /\ FramesOnWire'
<1>1. pc[c] = "clear" /\ pc'[c] = "copy" /\ pc'[1 - c] = pc[1 - c]
  BY Goes DEF Clear, ByItself, Pc, Sending
<1>2. /\ UNCHANGED <<frames, overlap, wire, out, CR, TX_RD, TX_WR>>
      /\ tx_frame' = [n \in 1..FrameSize |-> 0]
  BY DEF Clear, ByItself, chipVars, sockVars, history
<1>3. ASSUME ~overlap PROVE OnItsWay(c)'
  <2>1. OnItsWay(c) /\ pc[1 - c] \notin Sending
    BY <1>1, <1>3, Alone DEF Sending
  <2>2. out[c].len = 0
    BY <1>1, <2>1 DEF OnItsWay
  <2>3. tx_frame' = [k \in 1..FrameSize |-> IF k <= out[c].len THEN out[c].id ELSE 0]
    BY <1>2, <2>2, LinkAssumption
  <2> QED
    BY <1>1, <1>2, <2>1, <2>3 DEF OnItsWay, Padded, Total, Sending
<1> QED
  BY <1>1, <1>2, <1>3, WireGoesOn DEF Sending

\* A pbuf is copied behind the ones before it; with the last one the frame is whole.
LEMMA CopyOnWire ==
  ASSUME TypeOK, RoomInv, WireInv, FramesOnWire, NEW c \in Core, Copy(c)
  PROVE  WireInv' /\ FramesOnWire'
<1> DEFINE o == out[c]
           n == Head(o.parts).len
           last == n = Head(o.parts).tot_len
           f == frames[o.id]
<1>1. /\ pc[c] = "copy" /\ pc'[c] = (IF last THEN "wr" ELSE "copy") /\ pc'[1 - c] = pc[1 - c]
      /\ pc'[c] \in Sending /\ pc[c] \in Sending
  BY Goes DEF Copy, ByItself, Pc, Sending
<1>2. /\ UNCHANGED <<frames, overlap, wire, CR, TX_RD, TX_WR>>
      /\ tx_frame' = [k \in 1..FrameSize |-> IF k > o.len /\ k <= o.len + n THEN o.id ELSE tx_frame[k]]
  BY DEF Copy, ByItself, chipVars, sockVars, history
<1>3. /\ out'[c].id = o.id /\ out'[c].parts = Tail(o.parts)
      /\ out'[c].len = IF last /\ o.len + n < MinFrame THEN MinFrame ELSE o.len + n
  BY Locals
<1>4. /\ o.len \in Nat /\ n \in Nat /\ FrameSize \in Nat /\ MinFrame \in Nat /\ MinFrame <= FrameSize
      /\ Total(o.parts) \in Nat /\ o.len + Total(o.parts) <= FrameSize /\ Total(o.parts) >= n
      /\ last => Total(o.parts) = n
      /\ ~last => Total(Tail(o.parts)) \in Nat /\ Total(o.parts) = n + Total(Tail(o.parts))
  <2>1. PbufChain(o.parts) /\ o.len + Total(o.parts) \in 1..FrameSize /\ o.len \in Nat
    BY <1>1, Locals DEF RoomInv, RoomFor, OutRecord
  <2>2. /\ Head(o.parts) = o.parts[1] /\ n \in Nat /\ Total(o.parts) \in Nat /\ Total(o.parts) >= n
        /\ last <=> Total(o.parts) = n
    BY <2>1, ChainStep DEF Total
  <2>3. ~last => PbufChain(Tail(o.parts)) /\ Total(o.parts) = n + Total(Tail(o.parts))
    BY <2>1, <2>2, ChainStep
  <2>4. ~last => Total(Tail(o.parts)) \in Nat
    BY <2>3, ChainStep
  <2> QED
    BY <2>1, <2>2, <2>3, <2>4, LinkAssumption
<1> HIDE DEF n, last
<1>5. ASSUME ~overlap PROVE OnItsWay(c)'
  <2>1. OnItsWay(c) /\ pc[1 - c] \notin Sending
    BY <1>1, <1>5, Alone
  <2>2. /\ o.id = Len(frames) /\ ~CR /\ (\A i \in DOMAIN wire : wire[i][1] < o.id) /\ TX_RD = TX_WR
        /\ f = Padded(o.id, o.len + Total(o.parts))
        /\ tx_frame = [k \in 1..FrameSize |-> IF k <= o.len THEN o.id ELSE 0]
    BY <1>1, <2>1 DEF OnItsWay
  <2>3. tx_frame' = [k \in 1..FrameSize |-> IF k <= o.len + n THEN o.id ELSE 0]
    <3> HIDE DEF o
    <3>1. ASSUME NEW k \in 1..FrameSize
          PROVE  (IF k > o.len /\ k <= o.len + n THEN o.id ELSE tx_frame[k])
                   = IF k <= o.len + n THEN o.id ELSE 0
      BY <1>4, <2>2
    <3> QED
      BY <1>2, <3>1
  <2>4. CASE last
    <3> DEFINE m == IF o.len + n < MinFrame THEN MinFrame ELSE o.len + n
    <3>1. out'[c].len = m /\ m \in Nat /\ m <= FrameSize
      BY <1>3, <1>4, <2>4
    <3>2. f = [k \in 1..m |-> IF k <= o.len + n THEN o.id ELSE 0]
      BY <1>4, <2>2, <2>4 DEF Padded
    <3> DEFINE buffer == [k \in 1..FrameSize |-> IF k <= o.len + n THEN o.id ELSE 0]
    <3>3. buffer \in [1..FrameSize -> Nat]
      <4>1. o.id \in Nat
        BY Locals DEF OutRecord
      <4> HIDE DEF o
      <4> QED
        BY <4>1
    <3>4. SubSeq(buffer, 0 + 1, 0 + m) = [k \in 1..m |-> buffer[0 + k]] /\ Len(buffer) = FrameSize
      <4> HIDE DEF buffer, m
      <4>1. buffer \in Seq(Nat) /\ Len(buffer) = FrameSize
        BY <1>4, <3>3, Memory
      <4>2. 0 + m <= Len(buffer)
        BY <3>1, <4>1, <1>4
      <4> QED
        BY <3>1, <4>1, <4>2, Burst
    <3>5. \A k \in 1..m : buffer[0 + k] = IF k <= o.len + n THEN o.id ELSE 0
      BY <1>4, <3>1
    <3>6. SubSeq(buffer, 1, m) = f
      <4> HIDE DEF buffer, m, o, f
      <4>1. 0 + 1 = 1 /\ 0 + m = m
        BY <3>1
      <4> QED
        BY <3>2, <3>4, <3>5, <4>1
    <3>7. Len(f) = m
      <4> HIDE DEF m, o, f
      <4> QED
        BY <3>1, <3>2
    <3>8. frames'[out'[c].id] = f /\ out'[c].id = o.id /\ pc'[c] = "wr"
          /\ SubSeq(tx_frame', 1, out'[c].len) = f
      BY <1>1, <1>2, <1>3, <2>3, <2>4, <3>1, <3>6
    <3> HIDE DEF f, m, buffer
    <3> QED
      BY <1>1, <1>2, <2>1, <2>2, <3>1, <3>7, <3>8 DEF OnItsWay, Sending
  <2>5. CASE ~last
    <3>1. out'[c].len = o.len + n /\ pc'[c] = "copy"
      BY <1>1, <1>3, <2>5
    <3>2. (o.len + n) + Total(Tail(o.parts)) = o.len + Total(o.parts)
      BY <1>4, <2>5
    <3>3. frames'[out'[c].id] = Padded(out'[c].id, out'[c].len + Total(out'[c].parts))
      BY <1>2, <1>3, <2>2, <3>1, <3>2
    <3>4. tx_frame' = [k \in 1..FrameSize |-> IF k <= out'[c].len THEN out'[c].id ELSE 0]
      BY <1>3, <2>3, <3>1
    <3> HIDE DEF f
    <3> QED
      BY <1>1, <1>2, <1>3, <2>1, <2>2, <3>1, <3>3, <3>4 DEF OnItsWay, Padded, Total, Sending
  <2> QED
    BY <2>4, <2>5
<1> QED
  BY <1>1, <1>2, <1>5, WireGoesOn

\* The pointer is read, the frame put behind it, the pointer moved, SEND given.
LEMMA TransmitOnWire ==
  ASSUME TypeOK, TypeOK', RoomInv, WireInv, FramesOnWire, NEW c \in Core,
         ReadTxWr(c) \/ Put(c) \/ WriteTxWr(c) \/ Send(c)
  PROVE  WireInv' /\ FramesOnWire'
<1> DEFINE o == out[c]
           f == frames[o.id]
<1>1. pc[c] \in Sending /\ pc'[c] \in Sending /\ pc'[1 - c] = pc[1 - c]
  BY Goes DEF ReadTxWr, Put, WriteTxWr, Send, ByAccess, Pc, Sending
<1>2. UNCHANGED <<frames, overlap, wire, TX_RD, tx_frame>>
  BY DEF ReadTxWr, Put, WriteTxWr, Send, Quiet, sockVars, PutBytes, SetTxWr, SetSend, linkVars, history
<1>3. ASSUME ~overlap PROVE OnItsWay(c) /\ pc'[1 - c] \notin Sending /\ f # <<>>
  BY <1>1, <1>3, Alone
<1>4. ASSUME ~overlap, ReadTxWr(c) PROVE OnItsWay(c)'
  <2>1. pc[c] = "wr" /\ pc'[c] = "put"
    BY <1>4, Moves, Goes DEF Pc, Sending
  <2>2. UNCHANGED <<CR, TX_WR>>
    BY <1>4 DEF ReadTxWr, Quiet, sockVars
  <2>3. out'[c].id = o.id /\ out'[c].len = o.len /\ out'[c].ptr = TX_WR
    BY <1>4, Locals
  <2> HIDE DEF f, o
  <2> QED
    BY <1>2, <1>3, <1>4, <2>1, <2>2, <2>3 DEF OnItsWay, Sending, o, f
<1>5. ASSUME ~overlap, Put(c) PROVE OnItsWay(c)'
  <2>1. pc[c] = "put" /\ pc'[c] = "setwr"
    BY <1>5, Goes DEF Put, ByAccess, Pc, Sending
  <2>2. UNCHANGED <<CR, TX_WR, out>>
    BY <1>5 DEF Put, PutBytes, linkVars
  <2>3. SubSeq(tx_frame, 1, o.len) = f /\ o.ptr = TX_WR /\ Len(f) = o.len
    BY <1>3, <1>5, <2>1 DEF OnItsWay
  <2>4. txMem' = [n \in 1..TxMem |-> IF n > o.ptr /\ n <= o.ptr + o.len THEN f[n - o.ptr] ELSE txMem[n]]
    BY <1>5, <2>3 DEF Put, PutBytes
  <2>5. o.ptr \in Nat /\ o.len \in Nat /\ o.ptr + o.len <= TxMem /\ TxMem \in Nat
    <3>1. o.ptr \in Nat /\ o.len \in Nat /\ o.len <= FrameSize
      BY Locals, LinkAssumption DEF OutRecord
    <3>2. o.ptr <= Room(Written)
      BY <2>1 DEF RoomInv, RoomFor
    <3>3. Written \in Nat /\ Written + 1 <= MaxFrame
      <4>1. Owes(c) = 1
        BY <2>1 DEF Owes
      <4> QED
        BY <4>1, Counted, TwoCores, LinkAssumption DEF RoomInv
    <3>4. /\ Room(Written) + FrameSize <= Room(MaxFrame) /\ Room(MaxFrame) <= TxMem
          /\ Room(Written) \in Nat /\ Room(MaxFrame) \in Nat /\ FrameSize \in Nat
      <4> DEFINE w == Written
      <4>1. w \in Nat /\ w + 1 \in Nat /\ w + 1 <= MaxFrame /\ MaxFrame \in Nat
        BY <3>3, Constants
      <4> HIDE DEF w
      <4>2. Room(w + 1) <= Room(MaxFrame) /\ Room(w + 1) = Room(w) + FrameSize
        BY <4>1, RoomForFrames
      <4>3. Room(w) \in Nat /\ Room(MaxFrame) \in Nat /\ Room(MaxFrame) <= TxMem /\ FrameSize \in Nat
        BY <4>1, RoomForFrames
      <4> QED
        BY <4>2, <4>3 DEF w
    <3> QED
      BY <3>1, <3>2, <3>4, Constants
  <2>6. f \in Seq(0..MaxFrame)
    <3>1. o.id \in 1..Len(frames)
      BY <1>1 DEF RoomInv, RoomFor
    <3> QED
      BY <3>1 DEF TypeOK, OutType
  <2>7. SubSeq(txMem', o.ptr + 1, o.ptr + o.len) = f
    <3>1. txMem' \in Seq(0..MaxFrame) /\ Len(txMem') = TxMem
      BY <2>5, Memory DEF TypeOK, ChipType
    <3> HIDE DEF f, o
    <3>2. SubSeq(txMem', o.ptr + 1, o.ptr + o.len) = [i \in 1..o.len |-> txMem'[o.ptr + i]]
      BY SMTT(30), <2>5, <3>1, Burst
    <3>3. \A i \in 1..o.len : txMem'[o.ptr + i] = f[i]
      <4> TAKE i \in 1..o.len
      <4>1. /\ o.ptr + i \in 1..TxMem /\ o.ptr + i > o.ptr /\ o.ptr + i <= o.ptr + o.len
            /\ (o.ptr + i) - o.ptr = i
        BY <2>5
      <4> QED
        BY <2>4, <4>1
    <3>4. f = [i \in 1..o.len |-> f[i]]
      BY <2>3, <2>6
    <3> QED
      BY <3>2, <3>3, <3>4
  <2> HIDE DEF f, o
  <2> QED
    BY <1>2, <1>3, <1>5, <2>1, <2>2, <2>3, <2>7 DEF OnItsWay, Sending, o, f
<1>6. ASSUME ~overlap, WriteTxWr(c) PROVE OnItsWay(c)'
  <2>1. pc[c] = "setwr" /\ pc'[c] = "send"
    BY <1>6, Goes DEF WriteTxWr, ByAccess, Pc, Sending
  <2>2. UNCHANGED <<CR, out, txMem>> /\ TX_WR' = o.ptr + o.len
    BY <1>6 DEF WriteTxWr, SetTxWr, linkVars
  <2>3. SubSeq(txMem, o.ptr + 1, o.ptr + o.len) = f /\ o.ptr = TX_RD
    BY <1>3, <1>6, <2>1 DEF OnItsWay
  <2> HIDE DEF f, o
  <2> QED
    BY <1>2, <1>3, <1>6, <2>1, <2>2, <2>3 DEF OnItsWay, Sending, o, f
<1>7. ASSUME ~overlap, Send(c) PROVE OnItsWay(c)'
  <2>1. pc[c] = "send" /\ pc'[c] = "ir"
    BY <1>7, Goes DEF Send, ByAccess, Pc, Sending
  <2>2. UNCHANGED <<TX_WR, out, txMem>> /\ CR' = TRUE
    BY <1>7 DEF Send, SetSend, linkVars
  <2> HIDE DEF f, o
  <2> QED
    BY <1>2, <1>3, <1>7, <2>1, <2>2 DEF OnItsWay, Sending, o, f
<1> QED
  BY <1>1, <1>2, <1>4, <1>5, <1>6, <1>7, WireGoesOn

\* Behind the wait for the chip nothing is left to send.
LEMMA WaitOnWire ==
  ASSUME TypeOK, RoomInv, WireInv, FramesOnWire, NEW c \in Core, PollIR(c) \/ Sent(c)
  PROVE  WireInv' /\ FramesOnWire'
<1>1. CASE PollIR(c)
  <2>1. pc[c] = "ir" /\ pc'[c] \in {"ir", "ack", "nak"} /\ pc'[1 - c] = pc[1 - c] /\ ~CR
    BY <1>1, Goes DEF PollIR, ByAccess, Pc, Sending
  <2>2. UNCHANGED <<frames, overlap, wire, CR, TX_RD, TX_WR, out>>
    BY <1>1 DEF PollIR, Quiet, sockVars, linkVars, history
  <2>3. ASSUME ~overlap PROVE OnItsWay(c)'
    <3>1. OnItsWay(c)
      BY <2>1, <2>3, Alone DEF Sending
    <3> QED
      BY <2>1, <2>2, <3>1 DEF OnItsWay, Sending
  <2> QED
    BY <2>1, <2>2, <2>3, WireGoesOn DEF Sending
<1>2. CASE Sent(c)
  <2>1. pc[c] \in {"ack", "nak"} /\ pc'[c] \notin Sending /\ pc'[1 - c] = pc[1 - c]
    <3>1. out[c].back \in {"launch", "idle", "timers"}
      BY Locals DEF OutRecord
    <3> QED
      BY <1>2, <3>1, Moves, Goes DEF Pc, Sending
  <2>2. UNCHANGED <<frames, overlap, wire, CR, TX_RD, TX_WR>>
    BY <1>2, Footprint
  <2>3. ASSUME ~overlap PROVE pc[1 - c] \notin Sending /\ ~CR /\ TX_RD = TX_WR
    <3>1. OnItsWay(c)
      BY <2>1, <2>3, Alone DEF Sending
    <3> QED
      BY <2>1, <3>1 DEF OnItsWay
  <2>4. FramesOnWire'
    BY <2>2 DEF FramesOnWire
  <2>5. WireInv'
    BY <2>1, <2>2, <2>3, TwoCores DEF WireInv
  <2> QED
    BY <2>4, <2>5
<1> QED
  BY <1>1, <1>2

\* What the chip puts on the wire is the frame of the core that waits for it.
LEMMA ChipOnWire ==
  ASSUME TypeOK, RoomInv, WireInv, FramesOnWire, ChipSends,
         UNCHANGED <<pc, linkVars, history>>
  PROVE  WireInv' /\ FramesOnWire'
<1>1. /\ CR /\ ~CR' /\ TX_RD' = TX_WR /\ TX_WR' = TX_WR
      /\ wire' = Append(wire, SubSeq(txMem, TX_RD + 1, TX_WR)) \/ wire' = wire
      /\ frames' = frames /\ overlap' = overlap /\ out' = out /\ pc' = pc
  BY DEF ChipSends, linkVars, history
<1>2. ASSUME ~overlap
      PROVE  \E c \in Core : pc[c] = "ir" /\ pc[1 - c] \notin Sending /\ OnItsWay(c)
  <2>1. PICK c \in Core : pc[c] \in Sending
    BY <1>1, <1>2 DEF WireInv
  <2>2. OnItsWay(c) /\ pc[1 - c] \notin Sending
    BY <1>2, <2>1, Alone
  <2>3. pc[c] = "ir"
    BY <1>1, <2>1, <2>2 DEF OnItsWay, Sending
  <2> QED
    BY <2>2, <2>3
<1>3. ASSUME ~overlap, NEW c \in Core, pc[c] = "ir", pc[1 - c] \notin Sending, OnItsWay(c)
      PROVE  /\ OnItsWay(c)' /\ \A d \in Core : pc'[d] \in Sending => d = c
             /\ FramesOnWire'
  <2> DEFINE k == out[c].id
             f == SubSeq(txMem, TX_RD + 1, TX_WR)
  <2>1. OnItsWay(c)'
    BY <1>1, <1>3 DEF OnItsWay, Sending
  <2>2. \A d \in Core : pc'[d] \in Sending => d = c
    BY <1>1, <1>3, TwoCores
  <2>3. k \in DOMAIN frames /\ f = frames[k] /\ f[1] = k /\ \A i \in DOMAIN wire : wire[i][1] < k
    <3>1. k \in 1..Len(frames) /\ frames[k][1] = k
      BY <1>3, Alone DEF Sending
    <3>2. f = frames[k] /\ \A i \in DOMAIN wire : wire[i][1] < k
      BY <1>1, <1>3 DEF OnItsWay
    <3>3. DOMAIN frames = 1..Len(frames)
      BY DEF TypeOK, OutType
    <3> HIDE DEF k, f
    <3> QED
      BY <3>1, <3>2, <3>3
  <2>4. CASE wire' = wire
    BY <1>1, <2>1, <2>2, <2>4 DEF FramesOnWire
  <2>5. CASE wire' = Append(wire, f)
    <3>1. f \in Seq(0..MaxFrame) /\ wire \in Seq(Seq(0..MaxFrame))
      <4> HIDE DEF f, k
      <4>1. frames \in Seq(Seq(0..MaxFrame)) /\ wire \in Seq(Seq(0..MaxFrame))
        BY DEF TypeOK, OutType, ChipType
      <4> QED
        BY <2>3, <4>1
    <3> HIDE DEF f, k
    <3>2. /\ DOMAIN wire' = DOMAIN wire \cup {Len(wire) + 1} /\ wire'[Len(wire) + 1] = f
          /\ \A i \in DOMAIN wire : i \in 1..Len(wire) /\ wire'[i] = wire[i]
      BY <2>5, <3>1, Behind
    <3>3. Len(wire) \in Nat /\ DOMAIN wire = 1..Len(wire)
      BY <3>1
    <3>4. ASSUME NEW i \in DOMAIN wire'
          PROVE  /\ \E j \in DOMAIN frames : wire'[i] = frames[j]
                 /\ i > 1 => wire'[i - 1][1] < wire'[i][1]
      <4>1. CASE i \in DOMAIN wire
        <5>1. wire'[i] = wire[i] /\ (i > 1 => i - 1 \in DOMAIN wire)
          BY <3>2, <3>3, <4>1
        <5>2. i > 1 => wire'[i - 1] = wire[i - 1]
          BY <3>2, <5>1
        <5> QED
          BY <1>3, <4>1, <5>1, <5>2 DEF FramesOnWire
      <4>2. CASE i = Len(wire) + 1
        <5>1. wire'[i] = f /\ (i > 1 => i - 1 \in DOMAIN wire)
          BY <3>2, <3>3, <4>2
        <5>2. i > 1 => wire'[i - 1] = wire[i - 1]
          BY <3>2, <5>1
        <5> QED
          BY <2>3, <5>1, <5>2
      <4> QED
        BY <3>2, <3>4, <4>1, <4>2
    <3>5. FramesOnWire'
      BY <1>1, <3>4 DEF FramesOnWire
    <3> QED
      BY <2>1, <2>2, <3>5
  <2> QED
    BY <1>1, <2>4, <2>5
<1>4. FramesOnWire'
  BY <1>1, <1>2, <1>3 DEF FramesOnWire
<1>5. WireInv'
  <2>1. \A f \in DOMAIN frames' : frames'[f] # <<>> /\ frames'[f][1] = f
    BY <1>1 DEF WireInv
  <2>2. ASSUME ~overlap'
        PROVE  /\ \A d \in Core : pc'[d] \in Sending => OnItsWay(d)'
               /\ ~CR' /\ TX_RD' = TX_WR'
    <3>1. PICK c \in Core : pc[c] = "ir" /\ pc[1 - c] \notin Sending /\ OnItsWay(c)
      BY <1>1, <1>2, <2>2
    <3> QED
      BY <1>1, <1>3, <2>2, <3>1
  <2> QED
    BY <2>1, <2>2 DEF WireInv
<1> QED
  BY <1>4, <1>5

\* Every step keeps the frames in order on their way.
LEMMA WireStep ==
  ASSUME TypeOK, TypeOK', BootInv, RoomInv, WireInv, FramesOnWire, [Next]_vars
  PROVE  WireInv' /\ FramesOnWire'
<1>0. 0 \in Core /\ 1 \in Core
  BY DEF Core
<1>1. ASSUME NEW c \in Core, \E chain \in Chains[c] : Output(c, chain)
      PROVE  WireInv' /\ FramesOnWire'
  BY <1>1, OutputOnWire
<1>2. ASSUME NEW c \in Core, NetifOutput(c), ~\E chain \in Chains[c] : Output(c, chain)
      PROVE  WireInv' /\ FramesOnWire'
  BY <1>2, ClearOnWire, CopyOnWire, TransmitOnWire, WaitOnWire DEF NetifOutput
<1>3. ASSUME NEW c \in Core, EnterChip(c) PROVE WireInv' /\ FramesOnWire'
  <2>1. UNCHANGED <<outVars, txMem, TX_RD, TX_WR, CR, wire, pc>>
    BY <1>3, Footprint DEF regVars
  <2> QED
    BY <2>1, WireKept
<1>4. CASE Boot \/ Process
  <2>1. UNCHANGED outVars /\ UNCHANGED <<txMem, TX_RD, TX_WR, CR, wire>>
    BY <1>0, <1>4, Footprint DEF Boot, Process, regVars
  <2>2. \A c \in Core : pc'[c] = pc[c] \/ (pc[c] \notin Sending /\ pc'[c] \notin Sending)
    <3>1. CASE Boot
      BY <3>1 DEF Boot, Spi, Cris, Initialize, Check, Lease, UpdatePool, LwipInit, Launch, DhcpRun,
                  ByItself, ByAccess, Go, TypeOK, CoreType, BootInv, Core, Sending
    <3>2. CASE Process
      BY <3>2 DEF Process, RecvBuf, Recv, Input, Timers,
                  ByItself, ByAccess, Go, TypeOK, CoreType, Core, Sending
    <3> QED
      BY <1>4, <3>1, <3>2
  <2> QED
    BY <2>1, <2>2, WireKept
<1>5. CASE LwipFrees \/ UNCHANGED vars
  <2>1. UNCHANGED <<outVars, txMem, TX_RD, TX_WR, CR, wire, pc>>
    BY <1>5 DEF LwipFrees, vars, chipVars, sockVars, linkVars, history, outVars
  <2> QED
    BY <2>1, WireKept
<1>6. CASE Chip
  <2>1. CASE ChipSends
    BY <1>6, <2>1, ChipOnWire DEF Chip
  <2>2. CASE \E n \in Nat \ {0} : ChipReceives(n)
    <3>1. UNCHANGED <<outVars, txMem, TX_RD, TX_WR, CR, wire, pc>>
      BY <1>6, <2>2 DEF Chip, ChipReceives, linkVars, history, outVars
    <3> QED
      BY <3>1, WireKept
  <2> QED
    BY <1>6, <2>1, <2>2, ChipSteps
<1> QED
  BY <1>1, <1>2, <1>3, <1>4, <1>5, <1>6 DEF Next, CoreStep

-----------------------------------------------------------------------------
(* The invariant *)

\* There is the empty sequence over any set.
LEMMA Empty ==
  ASSUME NEW S
  PROVE  <<>> \in Seq(S)
OBVIOUS

\* It holds when the master is switched on.
LEMMA InitIInv == Init => IInv
<1> SUFFICES ASSUME Init PROVE IInv
  OBVIOUS
<1>1. /\ cris = FALSE /\ section = NoCore /\ access = [c \in Core |-> FALSE] /\ opened = FALSE
      /\ txMem = [n \in 1..TxMem |-> 0] /\ TX_RD = 0 /\ TX_WR = 0 /\ CR = FALSE /\ IR = {}
      /\ rxMem = <<>> /\ arrived = <<>> /\ wire = <<>>
      /\ pc = [c \in Core |-> IF c = 0 THEN "spi" ELSE "off"]
      /\ tx_frame = [n \in 1..FrameSize |-> 0] /\ out = [c \in Core |-> Nothing]
      /\ pack_len = 0 /\ pool = PoolSize /\ held = 0 /\ leased = FALSE /\ overlap = FALSE
      /\ frames = <<>> /\ taken = <<>>
  BY DEF Init, ChipInit
<1>2. CoreType
  <2>1. pc \in [Core -> Pc] /\ pc[1] = "off"
    BY <1>1 DEF Core, Pc
  <2>2. access \in [Core -> BOOLEAN] /\ section \in Core \cup {NoCore}
    BY <1>1
  <2> QED
    BY <1>1, <2>1, <2>2 DEF CoreType
<1>3. OutType
  <2>1. 0 \in 0..MaxFrame /\ 0 \in 0..FrameSize /\ 0 \in 0..TxMem
    BY Constants
  <2>2. Nothing \in OutRecord
    BY <2>1 DEF Nothing, OutRecord
  <2>3. out \in [Core -> OutRecord]
    BY <1>1, <2>2
  <2>4. tx_frame \in [1..FrameSize -> 0..MaxFrame]
    BY <1>1, <2>1
  <2>5. frames \in Seq(Seq(0..MaxFrame)) /\ overlap \in BOOLEAN
    BY <1>1, Empty
  <2> QED
    BY <2>3, <2>4, <2>5 DEF OutType
<1>4. ChipType
  <2>1. 0 \in 0..MaxFrame /\ 0 \in 0..TxMem
    BY Constants
  <2>2. txMem \in [1..TxMem -> 0..MaxFrame]
    BY <1>1, <2>1
  <2>3. TX_RD \in 0..TxMem /\ TX_WR \in 0..TxMem
    BY <1>1, <2>1
  <2>4. opened \in BOOLEAN /\ CR \in BOOLEAN /\ IR \subseteq {"SENDOK", "TIMEOUT"} /\ wire \in Seq(Seq(0..MaxFrame))
    BY <1>1, Empty
  <2> QED
    BY <2>2, <2>3, <2>4 DEF ChipType
<1>5. RxType /\ PbufType /\ PbufsAccounted
  BY <1>1, Constants DEF RxType, PbufType, PbufsAccounted
<1>6. BootInv
  BY <1>1 DEF BootInv, Core, NoCore, Pc, Sending
<1>7. RoomInv
  <2>1. Owes(0) = 0 /\ Owes(1) = 0
    BY <1>1 DEF Owes, Core
  <2>2. Written = 0
    BY <1>1, <2>1 DEF Written
  <2>3. \A c \in Core : RoomFor(c)
    BY <1>1 DEF RoomFor, Core, Sending
  <2> QED
    BY <1>1, <2>2, <2>3, RoomForFrames DEF RoomInv
<1>8. WireInv /\ FramesOnWire
  BY <1>1 DEF WireInv, FramesOnWire, Core, Sending
<1>9. RxInv /\ FramesTaken
  <2> DEFINE start == [k \in 1..1 |-> 0]
  <2>1. start \in [(0 + 1)..(0 + 1) -> 0..0]
    OBVIOUS
  <2>2. InMemory(start, 0, <<>>, <<>>)
    BY DEF InMemory
  <2>3. Holds(0, <<>>, <<>>)
    BY <2>1, <2>2 DEF Holds
  <2>4. Len(taken) = 0 /\ Len(arrived) = 0 /\ pc[1] # "recv"
    BY <1>1 DEF Core
  <2>5. Holds(Len(taken), arrived, rxMem)
    BY <1>1, <2>3, <2>4
  <2> QED
    BY <1>1, <2>4, <2>5 DEF RxInv, FramesTaken
<1> QED
  BY <1>2, <1>3, <1>4, <1>5, <1>6, <1>7, <1>8, <1>9 DEF IInv, TypeOK

\* Every step keeps it.
LEMMA NextIInv == IInv /\ [Next]_vars => IInv'
<1> SUFFICES ASSUME IInv, [Next]_vars PROVE IInv'
  OBVIOUS
<1>1. TypeOK /\ BootInv /\ RoomInv /\ WireInv /\ RxInv /\ FramesOnWire /\ FramesTaken /\ PbufsAccounted
  BY DEF IInv
<1>2. BootInv'
  BY <1>1, BootStep
<1>3. RoomInv'
  BY <1>1, RoomStep
<1>4. RxType' /\ RxInv' /\ FramesTaken'
  BY <1>1, RxStep
<1>5. PbufType' /\ PbufsAccounted'
  BY <1>1, PbufStep
<1>6. CoreType' /\ OutType' /\ ChipType'
  BY <1>1, <1>3, CoreTypeStep, OutTypeStep, ChipTypeStep
<1>7. TypeOK'
  BY <1>4, <1>5, <1>6 DEF TypeOK
<1>8. WireInv' /\ FramesOnWire'
  BY <1>1, <1>7, WireStep
<1> QED
  BY <1>2, <1>3, <1>4, <1>5, <1>7, <1>8 DEF IInv

\* The inductive invariant of the link: the types, who is at the chip, where each
\* frame is that is sent, and what the receive memory holds.
THEOREM LinkInvariant == Spec => []IInv
BY InitIInv, NextIInv, PTL DEF Spec

\* CS is held down by one core at a time, since the critical section is registered
\* before the other core is started.
THEOREM OneAccessTheorem == Spec => []OneAccess
<1>1. IInv => OneAccess
  BY DEF IInv, BootInv, OneAccess, Core
<1> QED
  BY <1>1, LinkInvariant, PTL

\* Whatever the pbuf chains are, each packet on the wire is a frame as lwIP gave
\* it, padded, in the order of the frames, as long as the cores do not overlap in
\* netif_output.
THEOREM FramesOnWireTheorem == Spec => []FramesOnWire
<1>1. IInv => FramesOnWire
  BY DEF IInv
<1> QED
  BY <1>1, LinkInvariant, PTL

\* Core 1 takes the frames that fit into pack2, each whole and in its turn, overlap
\* or not, and also those behind a frame that is written behind pack2 (as long as
\* the core goes on).
THEOREM FramesTakenTheorem == Spec => []FramesTaken
<1>1. IInv => FramesTaken
  BY DEF IInv
<1> QED
  BY <1>1, LinkInvariant, PTL

\* No pbuf is lost, for a pool of any size.
THEOREM PbufsAccountedTheorem == Spec => []PbufsAccounted
<1>1. IInv => PbufsAccounted
  BY DEF IInv
<1> QED
  BY <1>1, LinkInvariant, PTL

=============================================================================
