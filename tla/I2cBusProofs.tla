---------------------------- MODULE I2cBusProofs ----------------------------
(***************************************************************************)
(* The messages on the bus, for any slaves, scan, commands and delays: no  *)
(* byte is lost while a FIFO has room, and as long as a slave is late by   *)
(* no more than a STOP its receive handler gets pieces of one message each *)
(* and its answers are to the last command.                                *)
(***************************************************************************)
EXTENDS I2cBus, TLAPS

-----------------------------------------------------------------------------
(* Sequences *)

\* Two sequences with the same elements are equal.
LEMMA SameElements ==
  ASSUME NEW S, NEW s \in Seq(S), NEW t \in Seq(S),
         Len(s) = Len(t), \A i \in 1..Len(s) : s[i] = t[i]
  PROVE  s = t
OBVIOUS

\* What a concatenation holds.
LEMMA Concat ==
  ASSUME NEW S, NEW s \in Seq(S), NEW t \in Seq(S)
  PROVE  /\ s \o t \in Seq(S) /\ Len(s \o t) = Len(s) + Len(t)
         /\ \A i \in 1..Len(s) : (s \o t)[i] = s[i]
         /\ \A i \in 1..Len(t) : (s \o t)[Len(s) + i] = t[i]
OBVIOUS

\* An element behind a sequence.
LEMMA Behindmost ==
  ASSUME NEW S, NEW s \in Seq(S), NEW x \in S
  PROVE  /\ Append(s, x) \in Seq(S) /\ Len(Append(s, x)) = Len(s) + 1
         /\ Append(s, x)[Len(s) + 1] = x
         /\ \A i \in 1..Len(s) : Append(s, x)[i] = s[i]
         /\ Append(s, x) # <<>>
OBVIOUS

\* The first element of a sequence, and those behind it.
LEMMA Foremost ==
  ASSUME NEW S, NEW s \in Seq(S), s # <<>>
  PROVE  /\ Head(s) \in S /\ Head(s) = s[1] /\ 1 \in 1..Len(s)
         /\ Tail(s) \in Seq(S) /\ Len(Tail(s)) = Len(s) - 1
         /\ \A i \in 1..Len(Tail(s)) : i + 1 \in 1..Len(s) /\ Tail(s)[i] = s[i + 1]
OBVIOUS

\* The length and the elements of a sequence; one without elements is empty.
LEMMA Element ==
  ASSUME NEW S, NEW s \in Seq(S)
  PROVE  /\ Len(s) \in Nat /\ (Len(s) = 0 <=> s = <<>>)
         /\ \A i \in 1..Len(s) : s[i] \in S
OBVIOUS

\* No bytes.
LEMMA NoBytes == \A S : <<>> \in Seq(S) /\ Len(<<>>) = 0
OBVIOUS

\* Three sequences, one behind the other.
AllOf(h, b, r) == (h \o b) \o r

\* ... and what w is when it is theirs.
Holds(w, h, b, r) == /\ Len(w) = Len(h) + Len(b) + Len(r)
                     /\ \A i \in 1..Len(h) : w[i] = h[i]
                     /\ \A i \in 1..Len(b) : w[Len(h) + i] = b[i]
                     /\ \A i \in 1..Len(r) : w[Len(h) + Len(b) + i] = r[i]

\* They hold what their parts hold.
LEMMA Joined ==
  ASSUME NEW S, NEW h \in Seq(S), NEW b \in Seq(S), NEW r \in Seq(S)
  PROVE  Holds(AllOf(h, b, r), h, b, r)
<1> DEFINE m == h \o b
<1>1. /\ m \in Seq(S) /\ Len(m) = Len(h) + Len(b)
      /\ \A i \in 1..Len(h) : m[i] = h[i]
      /\ \A i \in 1..Len(b) : m[Len(h) + i] = b[i]
  BY Concat
<1>2. Len(h) \in Nat /\ Len(b) \in Nat /\ Len(r) \in Nat
  BY Element
<1> HIDE DEF m
<1>3. /\ m \o r \in Seq(S) /\ Len(m \o r) = Len(m) + Len(r)
      /\ \A i \in 1..Len(m) : (m \o r)[i] = m[i]
      /\ \A i \in 1..Len(r) : (m \o r)[Len(m) + i] = r[i]
  <2>1. m \in Seq(S)
    BY <1>1
  <2> QED
    BY <2>1, Concat
<1> DEFINE u == m \o r
<1>4. ASSUME NEW i \in 1..Len(h) PROVE u[i] = h[i]
  <2>1. i \in 1..Len(m)
    BY <1>1, <1>2
  <2> QED
    BY <1>1, <1>3, <2>1
<1>5. ASSUME NEW i \in 1..Len(b) PROVE u[Len(h) + i] = b[i]
  <2>1. Len(h) + i \in 1..Len(m)
    BY <1>1, <1>2
  <2> QED
    BY <1>1, <1>3, <2>1
<1>6. ASSUME NEW i \in 1..Len(r) PROVE u[Len(h) + Len(b) + i] = r[i]
  BY <1>1, <1>3
<1> HIDE DEF u
<1>7. u = AllOf(h, b, r) /\ Len(u) = Len(h) + Len(b) + Len(r)
  BY <1>1, <1>3 DEF u, m, AllOf
<1> QED
  BY <1>4, <1>5, <1>6, <1>7 DEF Holds

\* A byte comes behind the third.
LEMMA JoinedGrows ==
  ASSUME NEW S, NEW h \in Seq(S), NEW b \in Seq(S), NEW r \in Seq(S), NEW x \in S
  PROVE  AllOf(h, b, Append(r, x)) = Append(AllOf(h, b, r), x)
<1>1. h \o b \in Seq(S)
  BY Concat
<1> DEFINE m == h \o b
<1> HIDE DEF m
<1>2. ASSUME m \in Seq(S) PROVE m \o Append(r, x) = Append(m \o r, x)
  BY <1>2
<1> QED
  BY <1>1, <1>2 DEF m, AllOf

\* The second goes behind the first, and the third behind the second.
LEMMA JoinedMoves ==
  ASSUME NEW S, NEW h \in Seq(S), NEW b \in Seq(S), NEW r \in Seq(S)
  PROVE  /\ ((h \o b) \o <<>>) \o r = (h \o b) \o r
         /\ (h \o (b \o r)) \o <<>> = (h \o b) \o r
<1>1. h \o b \in Seq(S) /\ b \o r \in Seq(S)
  BY Concat
<1>2. \A m \in Seq(S) : m \o <<>> = m
  OBVIOUS
<1>3. h \o (b \o r) \in Seq(S)
  BY <1>1, Concat
<1>4. h \o (b \o r) = (h \o b) \o r
  OBVIOUS
<1>5. (h \o b) \o <<>> = h \o b
  BY <1>1, <1>2
<1>6. (h \o (b \o r)) \o <<>> = h \o (b \o r)
  BY <1>2, <1>3
<1> QED
  BY <1>4, <1>5, <1>6

\* The buffer of TwoWire has room for bytes that do not fill it.
LEMMA Grows ==
  ASSUME NEW S, NEW s \in Seq(S), NEW t \in Seq(S), Len(s) + Len(t) < Length
  PROVE  GrownBy(s, t) = s \o t
<1> DEFINE all == s \o t
           n   == Len(all)
<1>1. all \in Seq(S) /\ n = Len(s) + Len(t)
  BY Concat
<1>2. n \in Nat /\ n < Length /\ Length \in Nat \ {0}
  BY <1>1, WireAssumption, Element
<1>3. n % Length = n
  <2> HIDE DEF n
  <2> QED
    BY <1>2
<1>4. GrownBy(s, t) = SubSeq(all, n - (n % Length) + 1, n)
  BY DEF GrownBy
<1>5. n - (n % Length) + 1 = 1
  <2> HIDE DEF n
  <2> QED
    BY <1>2, <1>3
<1>6. SubSeq(all, 1, Len(all)) = all
  <2> HIDE DEF all
  <2> QED
    BY <1>1
<1> QED
  BY <1>4, <1>5, <1>6

-----------------------------------------------------------------------------
(* Types *)

\* The slaves and the master's board are different boards.
LEMMA Boards == M \in Board /\ \A s \in Slave : s \in Board /\ s # M
BY BusAssumption

\* The numbers the model is made of.
LEMMA Numbers ==
  /\ Length \in Nat \ {0} /\ RxDepth \in Nat \ {0} /\ ReadLen \in Nat \ {0}
  /\ MaxMsg \in Nat /\ MaxTimeout \in Nat
BY WireAssumption, SlaveAssumption, BusAssumption

\* A message of writeCmd is a sequence of bytes of its number.
LEMMA Message ==
  ASSUME NEW m \in 0..MaxMsg, NEW c \in Command
  PROVE  LET bytes == [i \in 1..c.len |-> [msg |-> m, nr |-> i]]
         IN  /\ GrownBy(<<>>, bytes) = bytes /\ bytes \in Seq(Byte) /\ Len(bytes) = c.len
             /\ Of(bytes, m) /\ c.len \in Nat /\ c.len <= Longest
<1> DEFINE bytes == [i \in 1..c.len |-> [msg |-> m, nr |-> i]]
<1>1. c.len \in Nat /\ 2 * RxDepth + c.len < Length
  BY BusAssumption
<1>2. \A i \in 1..c.len : [msg |-> m, nr |-> i] \in Byte /\ bytes[i].msg = m
  BY <1>1 DEF Byte
<1>3. bytes \in [1..c.len -> Byte]
  BY <1>2
<1>4. bytes \in Seq(Byte) /\ Len(bytes) = c.len
  BY <1>1, <1>3
<1>5. Of(bytes, m)
  BY <1>2, <1>4 DEF Of
<1> HIDE DEF bytes
<1>6. GrownBy(<<>>, bytes) = <<>> \o bytes
  <2>1. <<>> \in Seq(Byte) /\ Len(<<>>) + Len(bytes) < Length
    BY <1>1, <1>4, Numbers
  <2> QED
    BY <1>4, <2>1, Grows
<1>7. <<>> \o bytes = bytes
  BY <1>4
<1>8. c.len <= Longest
  BY <1>1, Numbers DEF Longest
<1> QED
  BY <1>1, <1>4, <1>5, <1>6, <1>7, <1>8 DEF bytes

\* START raises bits, and the transfer is one of those there are.
LEMMA StartTypes ==
  ASSUME TypeOK, NEW dir \in {"write", "read"}, NEW a, NEW todo \in Seq(Byte), Start(dir, a, todo),
         UNCHANGED <<wireVars, written, result, timeouts, found, scan, call>>,
         at' \in {"probe", "writing", "reading"}
  PROVE  WireTypeOK' /\ IrqTypeOK' /\ BusTypeOK'
<1> USE DEF TypeOK, WireTypeOK, IrqTypeOK, BusTypeOK, Start
<1>1. WireTypeOK'
  BY DEF wireVars
<1>2. raw' \in [Slave -> SUBSET (Bits \ {"RX_FULL"})]
  BY DEF Bits, Ends
<1>3. tx' \in [Slave -> Seq(Byte)]
  BY NoBytes
<1>4. IrqTypeOK'
  BY <1>2, <1>3 DEF calls
<1>5. bus' \in [dir : {"none", "write", "read"}, by : SUBSET Slave, todo : Seq(Byte), got : Seq(Byte)]
  BY NoBytes DEF At
<1>6. late' \in [Slave -> 0..2]
  OBVIOUS
<1>7. BusTypeOK'
  BY <1>5, <1>6
<1> QED
  BY <1>1, <1>4, <1>7

\* So does the end of a transfer.
LEMMA OverTypes ==
  ASSUME TypeOK, Done
  PROVE  /\ IrqTypeOK' /\ result' \in Int /\ timeouts' \in 0..MaxTimeout /\ bus' = NoTransfer
         /\ bus' \in [dir : {"none", "write", "read"}, by : SUBSET Slave, todo : Seq(Byte), got : Seq(Byte)]
         /\ late' \in [Slave -> 0..2] /\ overrun' = overrun /\ written' = written
<1>1. timeouts \in 0..MaxTimeout /\ Len(bus.got) \in Int /\ IrqTypeOK /\ late \in [Slave -> 0..2]
  BY Element DEF TypeOK, BusTypeOK
<1>2. (\E r \in Int, stop \in BOOLEAN : Over(r, stop)) /\ timeouts' \in 0..MaxTimeout
  <2>1. CASE bus.todo = <<>> /\ Over(Len(bus.got), TRUE) /\ UNCHANGED timeouts
    <3>1. Len(bus.got) \in Int /\ TRUE \in BOOLEAN /\ Over(Len(bus.got), TRUE)
      BY <1>1, <2>1
    <3>2. \E r \in Int : Over(r, TRUE)
      <4> DEFINE n == Len(bus.got)
      <4>1. n \in Int /\ Over(n, TRUE)
        BY <3>1
      <4> HIDE DEF n
      <4> QED
        BY <4>1
    <3>3. \E r \in Int, stop \in BOOLEAN : Over(r, stop)
      BY Zenon, <3>2
    <3>4. timeouts' \in 0..MaxTimeout
      BY <1>1, <2>1
    <3> QED
      BY <3>3, <3>4
  <2>2. CASE bus.by = {} /\ Over(-1, TRUE) /\ UNCHANGED timeouts
    <3>1. -1 \in Int
      OBVIOUS
    <3>2. \E r \in Int, stop \in BOOLEAN : Over(r, stop)
      BY Zenon, <2>2, <3>1
    <3>3. timeouts' \in 0..MaxTimeout
      BY <1>1, <2>2
    <3> QED
      BY <3>2, <3>3
  <2>3. CASE /\ at # "probe" /\ timeouts < MaxTimeout
             /\ \E stop \in BOOLEAN : Over(-2, stop)
             /\ timeouts' = timeouts + 1
    <3>1. timeouts' \in 0..MaxTimeout
      BY <1>1, <2>3, Numbers
    <3>2. -2 \in Int
      OBVIOUS
    <3>3. \E r \in Int, stop \in BOOLEAN : Over(r, stop)
      BY Zenon, <2>3, <3>2
    <3> QED
      BY <3>1, <3>3
  <2> QED
    BY <2>1, <2>2, <2>3 DEF Done
<1>3. PICK r \in Int, stop \in BOOLEAN : Over(r, stop)
  BY <1>2
<1>4. IrqTypeOK' /\ result' \in Int /\ late' \in [Slave -> 0..2]
  <2>1. raw' \in [Slave -> SUBSET (Bits \ {"RX_FULL"})]
    BY <1>1, <1>3 DEF IrqTypeOK, Over, Bits, Ends
  <2>2. UNCHANGED <<rx, tx, irq, transfer_in_progress, handled, cuts>>
    BY <1>3 DEF Over, calls
  <2>3. late' \in [Slave -> 0..2]
    BY <1>1, <1>3 DEF Over
  <2> QED
    BY <1>1, <1>3, <2>1, <2>2, <2>3 DEF IrqTypeOK, Over
<1>5. NoTransfer \in [dir : {"none", "write", "read"}, by : SUBSET Slave, todo : Seq(Byte), got : Seq(Byte)]
  BY NoBytes DEF NoTransfer
<1> QED
  BY <1>2, <1>3, <1>4, <1>5 DEF Over

-----------------------------------------------------------------------------
(* What the steps of a slave do *)

\* Nothing of a slave changes, nor of the master's buffer.
Still(s) ==
  /\ mode'[s] = mode[s] /\ txAddress'[s] = txAddress[s] /\ buf'[s] = buf[s] /\ pos'[s] = pos[s]
  /\ raw'[s] = raw[s] /\ irq'[s] = irq[s] /\ rx'[s] = rx[s] /\ tx'[s] = tx[s]
  /\ transfer_in_progress'[s] = transfer_in_progress[s]
  /\ handled'[s] = handled[s] /\ cuts'[s] = cuts[s]
  /\ late'[s] = late[s] /\ overrun'[s] = overrun[s] /\ written'[s] = written[s]

MasterStill == buf'[M] = buf[M] /\ pos'[M] = pos[M] /\ txAddress'[M] = txAddress[M]

\* The step is of slave s alone.
Only(s) == MasterStill /\ \A t \in Slave : t # s => Still(t)

\* Nothing that the step of a slave's handler leaves alone changes.
Handles(s) == /\ UNCHANGED <<masterVars, bus, history>> /\ Only(s) /\ mode' = mode /\ txAddress' = txAddress
              /\ WireTypeOK' /\ IrqTypeOK' /\ pos'[s] = 0

\* The bus and the master do not move while a slave's handler does.
LEMMA HandlerAlone ==
  ASSUME TypeOK, UNCHANGED <<masterVars, bus, history>>
  PROVE  BusTypeOK'
BY DEF TypeOK, BusTypeOK, masterVars, history

\* The slave's main begins.
LEMMA SlaveBegins ==
  ASSUME TypeOK, NEW s \in Slave, SlaveBegin(s), UNCHANGED <<masterVars, bus, history>>
  PROVE  /\ Only(s) /\ WireTypeOK' /\ IrqTypeOK' /\ ~Up(s) /\ Up(s)'
         /\ buf'[s] = <<>> /\ pos'[s] = 0 /\ txAddress' = txAddress
         /\ raw'[s] = raw[s] /\ irq'[s] = irq[s] /\ rx'[s] = rx[s] /\ tx'[s] = tx[s]
         /\ handled'[s] = handled[s] /\ cuts'[s] = cuts[s]
<1> USE DEF TypeOK, WireTypeOK, IrqTypeOK, SlaveBegin, Begin, Empty, irqVars, calls, history
<1>1. s \in Board /\ s # M /\ M \in Board /\ \A t \in Slave : t \in Board /\ t # M
  BY Boards
<1>2. WireTypeOK' /\ IrqTypeOK'
  BY <1>1, NoBytes
<1>3. ~Up(s) /\ Up(s)'
  BY <1>1 DEF Up
<1>4. Only(s)
  BY <1>1 DEF Only, MasterStill, Still
<1> QED
  BY <1>1, <1>2, <1>3, <1>4

\* i2c_slave_irq_handler copies the bits.
LEMMA IrqEnters ==
  ASSUME TypeOK, NEW s \in Slave, IrqEnter(s), UNCHANGED <<masterVars, bus, history>>
  PROVE  /\ Handles(s) /\ irq[s] = {} /\ irq'[s] = Pending(s) /\ Up(s)
         /\ raw'[s] = raw[s] /\ rx'[s] = rx[s] /\ tx'[s] = tx[s] /\ buf'[s] = buf[s]
         /\ transfer_in_progress'[s] = transfer_in_progress[s]
         /\ handled'[s] = handled[s] /\ cuts'[s] = cuts[s]
<1> USE DEF TypeOK, WireTypeOK, IrqTypeOK, IrqEnter, wireVars, calls, history
<1>1. Pending(s) \in SUBSET Bits
  BY DEF Pending, Bits
<1>2. WireTypeOK' /\ IrqTypeOK'
  BY <1>1
<1>3. Only(s)
  BY DEF Only, MasterStill, Still
<1>4. pos'[s] = 0
  BY DEF SlaveTypeOK
<1> QED
  BY <1>2, <1>3, <1>4 DEF Handles

\* finish_transfer: the bytes of the buffer are handled, if there are any.
LEMMA Finishes ==
  ASSUME TypeOK, NEW s \in Slave, BytesInv(s), NEW bit \in Ends, Finish(s, bit),
         UNCHANGED <<masterVars, bus, history>>
  PROVE  /\ Handles(s) /\ bit \in irq[s] /\ irq[s] \cap Before(bit) = {}
         /\ irq'[s] = irq[s] \ {bit} /\ raw'[s] = raw[s] \ {bit}
         /\ rx'[s] = rx[s] /\ tx'[s] = tx[s] /\ buf'[s] = <<>>
         /\ handled'[s] = handled[s] \o buf[s]
         /\ cuts'[s] = (IF buf[s] = <<>> THEN cuts[s] ELSE cuts[s] \cup {Len(handled'[s])})
<1>1. s \in Board /\ s # M /\ M \in Board /\ \A t \in Slave : t \in Board /\ t # M
  BY Boards
<1>2. WireTypeOK /\ IrqTypeOK /\ pos[s] = 0
  BY DEF TypeOK, SlaveTypeOK
<1>3. buf[s] \in Seq(Byte) /\ handled[s] \in Seq(Byte) /\ cuts[s] \in SUBSET (Nat \ {0})
  BY <1>1, <1>2 DEF WireTypeOK, IrqTypeOK
<1> DEFINE h == handled[s] \o buf[s]
           k == IF buf[s] = <<>> THEN cuts[s] ELSE cuts[s] \cup {Len(h)}
<1>4. h \in Seq(Byte) /\ (buf[s] = <<>> => h = handled[s])
  <2>1. h \in Seq(Byte)
    BY <1>3
  <2>2. \A q \in Seq(Byte) : q \o <<>> = q
    OBVIOUS
  <2> QED
    BY <1>3, <2>1, <2>2
<1>5. ASSUME buf[s] # <<>> PROVE Len(h) \in Nat \ {0}
  <2>1. Len(h) = Len(handled[s]) + Len(buf[s])
    BY <1>3, Concat
  <2>2. Len(handled[s]) \in Nat /\ Len(buf[s]) \in Nat \ {0}
    BY <1>3, <1>5, Element
  <2> DEFINE a == Len(handled[s])
             b == Len(buf[s])
             n == Len(h)
  <2>3. n = a + b /\ a \in Nat /\ b \in Nat \ {0}
    BY <2>1, <2>2
  <2>4. n \in Nat \ {0}
    <3> HIDE DEF a, b, n
    <3> QED
      BY <2>3
  <2> QED
    BY <2>4
<1>6. k \in SUBSET (Nat \ {0})
  <2> HIDE DEF h
  <2> QED
    BY <1>3, <1>5
<1> HIDE DEF h, k
<1>7. /\ handled' = [handled EXCEPT ![s] = h] /\ cuts' = [cuts EXCEPT ![s] = k]
      /\ buf' = [buf EXCEPT ![s] = <<>>] /\ pos' = pos
      /\ transfer_in_progress' = [transfer_in_progress EXCEPT ![s] = FALSE]
  <2>1. CASE transfer_in_progress[s]
    <3>1. handled' = [handled EXCEPT ![s] = h]
      BY <2>1 DEF Finish, Handle, h
    <3>2. handled'[s] = h
      BY <1>2, <3>1 DEF IrqTypeOK
    <3>3. cuts' = [cuts EXCEPT ![s] = k]
      BY <2>1, <3>2 DEF Finish, Handle, k
    <3>4. buf' = [buf EXCEPT ![s] = <<>>] /\ pos' = pos
      <4>1. OnFinish(s)
        BY <2>1 DEF Finish
      <4>2. CASE buf[s] = <<>>
        BY <1>1, <1>2, <4>1, <4>2 DEF OnFinish, WireTypeOK
      <4>3. CASE buf[s] # <<>>
        BY <1>1, <1>2, <4>1, <4>3 DEF OnFinish, Empty, WireTypeOK
      <4> QED
        BY <4>2, <4>3
    <3>5. transfer_in_progress' = [transfer_in_progress EXCEPT ![s] = FALSE]
      BY <2>1 DEF Finish
    <3> QED
      BY <3>1, <3>3, <3>4, <3>5
  <2>2. CASE ~transfer_in_progress[s]
    <3>1. buf[s] = <<>> /\ transfer_in_progress[s] = FALSE
      BY <1>2, <2>2 DEF BytesInv, IrqTypeOK
    <3>2. h = handled[s] /\ k = cuts[s]
      BY <1>4, <3>1 DEF k
    <3>3. UNCHANGED <<buf, pos, handled, cuts, transfer_in_progress>>
      BY <2>2 DEF Finish, wireVars, calls
    <3>4. buf' = [buf EXCEPT ![s] = <<>>]
      BY <1>1, <1>2, <3>1, <3>3 DEF WireTypeOK
    <3>5. handled' = [handled EXCEPT ![s] = h] /\ cuts' = [cuts EXCEPT ![s] = k]
      BY <1>2, <3>2, <3>3 DEF IrqTypeOK
    <3>6. transfer_in_progress' = [transfer_in_progress EXCEPT ![s] = FALSE]
      BY <1>2, <3>1, <3>3 DEF IrqTypeOK
    <3> QED
      BY <3>3, <3>4, <3>5, <3>6
  <2> QED
    BY <2>1, <2>2
<1>8. /\ bit \in irq[s] /\ irq[s] \cap Before(bit) = {} /\ irq' = [irq EXCEPT ![s] = @ \ {bit}]
      /\ raw' = [raw EXCEPT ![s] = @ \ {bit}] /\ UNCHANGED <<rx, tx>>
  BY DEF Finish, Serves, Clears
<1>9. mode' = mode /\ txAddress' = txAddress
  BY DEF Finish, OnFinish, wireVars
<1>10. WireTypeOK' /\ IrqTypeOK'
  <2>1. WireTypeOK'
    BY <1>2, <1>7, <1>9, NoBytes DEF WireTypeOK
  <2>2. handled' \in [Slave -> Seq(Byte)] /\ cuts' \in [Slave -> SUBSET (Nat \ {0})]
    BY <1>2, <1>4, <1>6, <1>7 DEF IrqTypeOK
  <2>3. transfer_in_progress' \in [Slave -> BOOLEAN]
    BY <1>2, <1>7 DEF IrqTypeOK
  <2>4. raw' \in [Slave -> SUBSET (Bits \ {"RX_FULL"})] /\ irq' \in [Slave -> SUBSET Bits]
    BY <1>2, <1>8 DEF IrqTypeOK
  <2> QED
    BY <1>2, <1>8, <2>1, <2>2, <2>3, <2>4 DEF IrqTypeOK
<1>11. Only(s)
  BY <1>1, <1>7, <1>8, <1>9 DEF Only, MasterStill, Still, history
<1>12. /\ irq'[s] = irq[s] \ {bit} /\ raw'[s] = raw[s] \ {bit} /\ buf'[s] = <<>> /\ pos'[s] = 0
       /\ handled'[s] = h /\ cuts'[s] = k
  BY <1>1, <1>2, <1>7, <1>8 DEF WireTypeOK, IrqTypeOK
<1>13. Handles(s)
  BY <1>9, <1>10, <1>11, <1>12 DEF Handles
<1>14. cuts'[s] = (IF buf[s] = <<>> THEN cuts[s] ELSE cuts[s] \cup {Len(handled'[s])})
  BY <1>12 DEF k
<1> QED
  BY <1>8, <1>12, <1>13, <1>14 DEF h

\* RX_FULL: the bytes of the FIFO go behind those of the buffer.
LEMMA Receives ==
  ASSUME TypeOK, NEW s \in Slave, BytesInv(s), Receive(s), UNCHANGED <<masterVars, bus, history>>
  PROVE  /\ Handles(s) /\ "RX_FULL" \in irq[s] /\ irq[s] \cap Ends = {}
         /\ irq'[s] = irq[s] \ {"RX_FULL"} /\ raw'[s] = raw[s]
         /\ rx'[s] = <<>> /\ tx'[s] = tx[s] /\ buf'[s] = buf[s] \o rx[s]
         /\ Len(buf[s]) + Len(rx[s]) < Length
         /\ transfer_in_progress'[s] = TRUE /\ handled'[s] = handled[s] /\ cuts'[s] = cuts[s]
<1>1. s \in Board /\ s # M /\ M \in Board /\ \A t \in Slave : t \in Board /\ t # M
  BY Boards
<1>2. WireTypeOK /\ IrqTypeOK /\ pos[s] = 0 /\ Len(rx[s]) <= RxDepth
  BY DEF TypeOK, SlaveTypeOK
<1>3. buf[s] \in Seq(Byte) /\ rx[s] \in Seq(Byte)
  BY <1>1, <1>2 DEF WireTypeOK, IrqTypeOK
<1>4. "RX_FULL" \in irq[s] /\ irq[s] \cap Ends = {}
  BY DEF Receive, Serves, Before
<1>5. Len(buf[s]) + Len(rx[s]) < Length
  <2>1. Len(buf[s]) <= RxDepth + Longest
    BY <1>4 DEF BytesInv
  <2>2. Len(buf[s]) \in Nat /\ Len(rx[s]) \in Nat
    BY <1>3, Element
  <2> DEFINE a == Len(buf[s])
             b == Len(rx[s])
  <2>3. a \in Nat /\ b \in Nat /\ b <= RxDepth /\ a <= RxDepth + (Length - 1 - 2 * RxDepth)
    BY <1>2, <2>1, <2>2 DEF Longest
  <2>4. a + b < Length
    <3> HIDE DEF a, b
    <3> QED
      BY <2>3, Numbers
  <2> QED
    BY <2>4
<1> DEFINE q == buf[s] \o rx[s]
<1>6. GrownBy(buf[s], rx[s]) = q
  BY <1>3, <1>5, Grows
<1>7. q \in Seq(Byte)
  BY <1>3, Concat
<1> HIDE DEF q
<1>8. /\ buf' = [buf EXCEPT ![s] = q] /\ UNCHANGED <<mode, txAddress, pos>>
      /\ irq' = [irq EXCEPT ![s] = @ \ {"RX_FULL"}] /\ rx' = [rx EXCEPT ![s] = <<>>]
      /\ transfer_in_progress' = [transfer_in_progress EXCEPT ![s] = TRUE]
      /\ UNCHANGED <<raw, tx, handled, cuts>>
  BY <1>6 DEF Receive, Serves, OnReceive, calls
<1>9. WireTypeOK' /\ IrqTypeOK'
  BY <1>1, <1>2, <1>7, <1>8, NoBytes DEF WireTypeOK, IrqTypeOK
<1>10. Only(s)
  BY <1>1, <1>8 DEF Only, MasterStill, Still, history
<1>11. /\ irq'[s] = irq[s] \ {"RX_FULL"} /\ rx'[s] = <<>> /\ buf'[s] = q
       /\ transfer_in_progress'[s] = TRUE /\ pos'[s] = 0
  BY <1>1, <1>2, <1>8 DEF WireTypeOK, IrqTypeOK
<1>12. Handles(s)
  BY <1>8, <1>9, <1>10, <1>11 DEF Handles
<1> QED
  BY <1>4, <1>5, <1>8, <1>11, <1>12 DEF q

\* RD_REQ: a byte of the answer to the message handled last.
LEMMA Requests ==
  ASSUME TypeOK, NEW s \in Slave, Request(s), UNCHANGED <<masterVars, bus, history>>
  PROVE  /\ Handles(s) /\ "RD_REQ" \in irq[s] /\ irq[s] \cap (Ends \cup {"RX_FULL"}) = {}
         /\ irq'[s] = irq[s] \ {"RD_REQ"} /\ raw'[s] = raw[s] \ {"RD_REQ"}
         /\ rx'[s] = rx[s] /\ buf'[s] = buf[s] /\ tx'[s] = Append(tx[s], Response(s))
         /\ Response(s) \in Byte
         /\ transfer_in_progress'[s] = TRUE /\ handled'[s] = handled[s] /\ cuts'[s] = cuts[s]
<1>1. s \in Board /\ s # M /\ M \in Board /\ \A t \in Slave : t \in Board /\ t # M
  BY Boards
<1>2. WireTypeOK /\ IrqTypeOK /\ pos[s] = 0
  BY DEF TypeOK, SlaveTypeOK
<1>3. tx[s] \in Seq(Byte) /\ handled[s] \in Seq(Byte)
  BY <1>2 DEF IrqTypeOK
<1>4. "RD_REQ" \in irq[s] /\ irq[s] \cap (Ends \cup {"RX_FULL"}) = {}
  BY DEF Request, Serves, Before
<1>5. Response(s) \in Byte
  <2>1. CASE handled[s] = <<>>
    BY <2>1, Numbers DEF Response, Byte
  <2>2. CASE handled[s] # <<>>
    <3>1. Len(handled[s]) \in 1..Len(handled[s])
      BY <1>3, <2>2
    <3>2. handled[s][Len(handled[s])] \in Byte
      BY <1>3, <3>1, Element
    <3> QED
      BY <2>2, <3>2 DEF Response, Byte
  <2> QED
    BY <2>1, <2>2
<1> DEFINE q == Append(tx[s], Response(s))
<1>6. q \in Seq(Byte)
  BY <1>3, <1>5, Behindmost
<1>7. tx' = [tx EXCEPT ![s] = q]
  BY DEF Request
<1> HIDE DEF q
<1>8. /\ irq' = [irq EXCEPT ![s] = @ \ {"RD_REQ"}] /\ raw' = [raw EXCEPT ![s] = @ \ {"RD_REQ"}]
      /\ transfer_in_progress' = [transfer_in_progress EXCEPT ![s] = TRUE]
      /\ UNCHANGED <<mode, txAddress, buf, pos, rx, handled, cuts>>
  BY DEF Request, Serves, Clears, wireVars, calls
<1>9. WireTypeOK' /\ IrqTypeOK'
  BY <1>2, <1>6, <1>7, <1>8 DEF WireTypeOK, IrqTypeOK
<1>10. Only(s)
  BY <1>7, <1>8 DEF Only, MasterStill, Still, history
<1>11. /\ irq'[s] = irq[s] \ {"RD_REQ"} /\ raw'[s] = raw[s] \ {"RD_REQ"} /\ tx'[s] = q
       /\ transfer_in_progress'[s] = TRUE
  BY <1>2, <1>7, <1>8 DEF IrqTypeOK
<1>12. Handles(s)
  BY <1>2, <1>8, <1>9, <1>10 DEF Handles
<1> QED
  BY <1>4, <1>5, <1>8, <1>11, <1>12 DEF q

-----------------------------------------------------------------------------
(* What the steps of the wires and of the master do *)

\* A byte of a message reaches the one slave that is addressed.
LEMMA ByteSent ==
  ASSUME IInv, SendByte
  PROVE  \E s \in bus.by :
           /\ bus.by = {s} /\ s \in Slave /\ bus.dir = "write" /\ at = "writing"
           /\ UNCHANGED <<at, call>> /\ bus'.dir = "write" /\ bus'.by = bus.by
           /\ \E x \in Byte :
                /\ x.msg = call.msg
                /\ written'[s] = Append(written[s], x)
                /\ rx'[s] = (IF Len(rx[s]) < RxDepth THEN Append(rx[s], x) ELSE rx[s])
                /\ overrun'[s] = (overrun[s] \/ Len(rx[s]) = RxDepth)
           /\ Len(bus'.got) = Len(bus.got) + 1 /\ bus'.got # <<>>
           /\ bus.todo # <<>> /\ Len(bus'.todo) = Len(bus.todo) - 1 /\ Of(bus'.todo, call.msg)
           /\ mode' = mode /\ buf'[s] = buf[s] /\ raw'[s] = raw[s] /\ irq'[s] = irq[s]
           /\ tx'[s] = tx[s] /\ transfer_in_progress'[s] = transfer_in_progress[s]
           /\ handled'[s] = handled[s] /\ cuts'[s] = cuts[s] /\ late'[s] = late[s]
           /\ Only(s) /\ WireTypeOK' /\ IrqTypeOK' /\ BusTypeOK' /\ UNCHANGED <<wireVars, masterVars>>
<1> DEFINE s == CHOOSE t \in bus.by : TRUE
           x == Head(bus.todo)
<1>1. WireTypeOK /\ IrqTypeOK /\ BusTypeOK /\ MasterTypeOK /\ MasterInv
  BY DEF IInv, TypeOK
<1>2. bus.by # {} /\ bus.by \subseteq Slave /\ bus.dir = "write" /\ bus.todo # <<>>
  BY <1>1 DEF SendByte, BusTypeOK
<1>3. s \in bus.by /\ s \in Slave
  BY <1>2
<1> HIDE DEF s
<1>4. bus.by = {s}
  BY <1>1, <1>3 DEF MasterInv
<1>5. bus.todo \in Seq(Byte) /\ bus.got \in Seq(Byte)
  BY <1>1 DEF BusTypeOK
<1>6. at = "writing"
  BY <1>1, <1>2 DEF MasterTypeOK, BusTypeOK
<1>7. /\ x \in Byte /\ x = bus.todo[1] /\ 1 \in 1..Len(bus.todo)
      /\ Tail(bus.todo) \in Seq(Byte) /\ Len(Tail(bus.todo)) = Len(bus.todo) - 1
      /\ \A i \in 1..Len(Tail(bus.todo)) : i + 1 \in 1..Len(bus.todo) /\ Tail(bus.todo)[i] = bus.todo[i + 1]
  BY <1>2, <1>5, Foremost
<1>8. x.msg = call.msg /\ Of(Tail(bus.todo), call.msg)
  BY <1>1, <1>6, <1>7 DEF MasterInv, Of
<1> DEFINE q == IF Len(rx[s]) < RxDepth THEN Append(rx[s], x) ELSE rx[s]
           w == Append(written[s], x)
           g == Append(bus.got, x)
           o == overrun[s] \/ Len(rx[s]) = RxDepth
<1>9. /\ rx' = [rx EXCEPT ![s] = q] /\ written' = [written EXCEPT ![s] = w]
      /\ overrun' = [overrun EXCEPT ![s] = o]
      /\ bus' = [bus EXCEPT !.todo = Tail(bus.todo), !.got = g]
  BY DEF SendByte, s
<1>10. /\ UNCHANGED <<wireVars, masterVars, raw, tx, irq, transfer_in_progress, handled, cuts, late>>
       /\ UNCHANGED <<at, call, mode, txAddress, buf, pos, result, timeouts, scan, found>>
  BY DEF SendByte, wireVars, masterVars, calls
<1>11. q \in Seq(Byte) /\ w \in Seq(Byte) /\ g \in Seq(Byte) /\ Len(g) = Len(bus.got) + 1 /\ g # <<>>
  <2>1. rx[s] \in Seq(Byte) /\ written[s] \in Seq(Byte)
    BY <1>1, <1>3 DEF IrqTypeOK, BusTypeOK
  <2> HIDE DEF x
  <2>2. Append(rx[s], x) \in Seq(Byte) /\ w \in Seq(Byte) /\ g \in Seq(Byte)
    BY <1>5, <1>7, <2>1, Behindmost
  <2>3. Len(g) = Len(bus.got) + 1 /\ g # <<>>
    BY <1>5, <1>7, Behindmost
  <2> QED
    BY <2>1, <2>2, <2>3
<1>12. o \in BOOLEAN
  OBVIOUS
<1> HIDE DEF q, w, g, o
<1>13. WireTypeOK' /\ IrqTypeOK'
  BY <1>1, <1>9, <1>10, <1>11 DEF WireTypeOK, IrqTypeOK
<1>14. BusTypeOK'
  <2>1. bus' \in [dir : {"none", "write", "read"}, by : SUBSET Slave, todo : Seq(Byte), got : Seq(Byte)]
    BY <1>1, <1>7, <1>9, <1>11 DEF BusTypeOK
  <2>2. overrun' \in [Slave -> BOOLEAN] /\ written' \in [Slave -> Seq(Byte)]
    BY <1>1, <1>9, <1>11, <1>12 DEF BusTypeOK
  <2> QED
    BY <1>1, <1>10, <2>1, <2>2 DEF BusTypeOK
<1>15. Only(s)
  BY <1>9, <1>10 DEF Only, MasterStill, Still
<1>16. /\ bus'.dir = "write" /\ bus'.by = bus.by /\ Len(bus'.got) = Len(bus.got) + 1 /\ bus'.got # <<>>
       /\ Len(bus'.todo) = Len(bus.todo) - 1 /\ Of(bus'.todo, call.msg)
  <2>1. bus'.got = g /\ bus'.todo = Tail(bus.todo) /\ bus'.dir = bus.dir /\ bus'.by = bus.by
    BY <1>1, <1>9 DEF BusTypeOK
  <2> QED
    BY <1>2, <1>7, <1>8, <1>11, <2>1
<1>17. rx'[s] = q /\ written'[s] = w /\ overrun'[s] = o
  BY <1>1, <1>3, <1>9 DEF IrqTypeOK, BusTypeOK
<1> QED
  <2>1. /\ x \in Byte /\ x.msg = call.msg /\ written'[s] = Append(written[s], x)
        /\ rx'[s] = (IF Len(rx[s]) < RxDepth THEN Append(rx[s], x) ELSE rx[s])
        /\ overrun'[s] = (overrun[s] \/ Len(rx[s]) = RxDepth)
    BY <1>7, <1>8, <1>17 DEF q, w, o
  <2> HIDE DEF x
  <2> QED
    BY <1>2, <1>3, <1>4, <1>6, <1>10, <1>13, <1>14, <1>15, <1>16, <2>1

\* A byte of an answer is taken from the one slave that is read.
LEMMA ByteTaken ==
  ASSUME IInv, TakeByte
  PROVE  \E s \in bus.by :
           /\ bus.by = {s} /\ s \in Slave /\ bus.dir = "read" /\ at \in {"probe", "reading"}
           /\ UNCHANGED <<at, call>> /\ bus'.dir = "read" /\ bus'.by = bus.by
           /\ tx[s] # <<>> /\ tx'[s] = Tail(tx[s]) /\ bus'.got = Append(bus.got, Head(tx[s]))
           /\ bus.todo # <<>> /\ Len(bus'.todo) = Len(bus.todo) - 1
           /\ raw'[s] = raw[s] \/ raw'[s] = raw[s] \cup {"RD_REQ"}
           /\ mode' = mode /\ buf'[s] = buf[s] /\ rx'[s] = rx[s] /\ irq'[s] = irq[s]
           /\ transfer_in_progress'[s] = transfer_in_progress[s] /\ UNCHANGED history
           /\ handled'[s] = handled[s] /\ cuts'[s] = cuts[s]
           /\ Only(s) /\ WireTypeOK' /\ IrqTypeOK' /\ BusTypeOK' /\ UNCHANGED <<wireVars, masterVars>>
<1>1. WireTypeOK /\ IrqTypeOK /\ BusTypeOK /\ MasterTypeOK /\ MasterInv
  BY DEF IInv, TypeOK
<1>2. PICK s \in bus.by :
        /\ tx[s] # <<>>
        /\ tx' = [tx EXCEPT ![s] = Tail(@)]
        /\ bus' = [bus EXCEPT !.todo = Tail(@), !.got = Append(@, Head(tx[s]))]
        /\ raw' = [raw EXCEPT ![s] = IF Len(bus.todo) > 1 /\ Len(tx[s]) = 1
                                     THEN @ \cup {"RD_REQ"} ELSE @]
  BY DEF TakeByte
<1>3. bus.by = {s} /\ s \in Slave /\ bus.dir = "read" /\ bus.todo # <<>>
  BY <1>1, <1>2 DEF TakeByte, BusTypeOK, MasterInv
<1>4. bus.todo \in Seq(Byte) /\ bus.got \in Seq(Byte) /\ tx[s] \in Seq(Byte)
  BY <1>1, <1>3 DEF BusTypeOK, IrqTypeOK
<1>5. at \in {"probe", "reading"}
  BY <1>1, <1>3 DEF MasterTypeOK, BusTypeOK
<1>6. /\ Tail(bus.todo) \in Seq(Byte) /\ Len(Tail(bus.todo)) = Len(bus.todo) - 1
      /\ Tail(tx[s]) \in Seq(Byte) /\ Head(tx[s]) \in Byte
  BY <1>2, <1>3, <1>4, Foremost
<1>7. Append(bus.got, Head(tx[s])) \in Seq(Byte)
  BY <1>4, <1>6, Behindmost
<1>8. /\ UNCHANGED <<wireVars, masterVars, history, rx, irq, transfer_in_progress, handled, cuts>>
      /\ UNCHANGED <<at, call, mode, txAddress, buf, pos, result, timeouts, scan, found, late, overrun, written>>
  BY DEF TakeByte, wireVars, masterVars, calls, history
<1> DEFINE t == Tail(tx[s])
           g == Append(bus.got, Head(tx[s]))
           d == Tail(bus.todo)
           w == IF Len(bus.todo) > 1 /\ Len(tx[s]) = 1 THEN raw[s] \cup {"RD_REQ"} ELSE raw[s]
<1>9. /\ tx' = [tx EXCEPT ![s] = t] /\ bus' = [bus EXCEPT !.todo = d, !.got = g]
      /\ raw' = [raw EXCEPT ![s] = w]
  BY <1>2
<1>10. t \in Seq(Byte) /\ g \in Seq(Byte) /\ d \in Seq(Byte)
  BY <1>6, <1>7
<1>11. (w = raw[s] \/ w = raw[s] \cup {"RD_REQ"}) /\ w \in SUBSET (Bits \ {"RX_FULL"})
  <2>1. raw[s] \in SUBSET (Bits \ {"RX_FULL"})
    BY <1>1, <1>3 DEF IrqTypeOK
  <2> QED
    BY <2>1 DEF Bits
<1> HIDE DEF t, g, d, w
<1>12. WireTypeOK' /\ IrqTypeOK'
  BY <1>1, <1>8, <1>9, <1>10, <1>11 DEF WireTypeOK, IrqTypeOK
<1>13. BusTypeOK'
  <2>1. bus' \in [dir : {"none", "write", "read"}, by : SUBSET Slave, todo : Seq(Byte), got : Seq(Byte)]
    BY <1>1, <1>9, <1>10 DEF BusTypeOK
  <2> QED
    BY <1>1, <1>8, <2>1 DEF BusTypeOK
<1>14. Only(s)
  BY <1>8, <1>9 DEF Only, MasterStill, Still
<1>15. bus'.got = g /\ bus'.todo = d /\ bus'.dir = bus.dir /\ bus'.by = bus.by
  BY <1>1, <1>9 DEF BusTypeOK
<1>16. tx'[s] = t /\ (raw'[s] = raw[s] \/ raw'[s] = raw[s] \cup {"RD_REQ"})
  BY <1>1, <1>3, <1>9, <1>11 DEF IrqTypeOK
<1>17. Len(bus'.todo) = Len(bus.todo) - 1 /\ bus'.got = Append(bus.got, Head(tx[s])) /\ tx'[s] = Tail(tx[s])
  BY <1>6, <1>15, <1>16 DEF t, g, d
<1> QED
  BY <1>2, <1>3, <1>5, <1>8, <1>12, <1>13, <1>14, <1>15, <1>16, <1>17

\* What START changes of a slave.
Started(s, dir, by) ==
  /\ mode'[s] = mode[s] /\ buf'[s] = buf[s] /\ irq'[s] = irq[s] /\ rx'[s] = rx[s]
  /\ transfer_in_progress'[s] = transfer_in_progress[s]
  /\ handled'[s] = handled[s] /\ cuts'[s] = cuts[s] /\ overrun'[s] = overrun[s] /\ written'[s] = written[s]
  /\ IF Up(s) THEN "START" \in raw'[s] /\ raw[s] \subseteq raw'[s] ELSE raw'[s] = raw[s]
  /\ tx'[s] = (IF dir = "read" /\ s \in by THEN <<>> ELSE tx[s])
  /\ late'[s] = (IF Behind(s) THEN 2 ELSE late[s])

\* A transfer begins for the slave that has its address.
LEMMA Starts ==
  ASSUME TypeOK, NEW dir \in {"write", "read"}, NEW a, NEW todo, Start(dir, a, todo),
         UNCHANGED <<wireVars, written>>
  PROVE  /\ bus = NoTransfer /\ bus' = [dir |-> dir, by |-> At(a), todo |-> todo, got |-> <<>>]
         /\ \A s \in At(a) : Up(s) /\ Address(s) = a /\ s \in Slave
         /\ \A s \in Slave : /\ Started(s, dir, At(a))
                             /\ Up(s) /\ Address(s) = a => s \in At(a)
                             /\ Up(s)' = Up(s)
<1>1. bus = NoTransfer
  BY DEF TypeOK, MasterTypeOK, Start
<1>2. \A s \in At(a) : Up(s) /\ Address(s) = a /\ s \in Slave
  BY DEF At
<1>3. ASSUME NEW s \in Slave
      PROVE  Started(s, dir, At(a)) /\ (Up(s) /\ Address(s) = a => s \in At(a)) /\ Up(s)' = Up(s)
  <2>1. /\ mode' = mode /\ buf' = buf /\ irq' = irq /\ rx' = rx /\ handled' = handled /\ cuts' = cuts
        /\ transfer_in_progress' = transfer_in_progress /\ overrun' = overrun /\ written' = written
    BY DEF Start, wireVars, calls
  <2>2. IF Up(s) THEN "START" \in raw'[s] /\ raw[s] \subseteq raw'[s] ELSE raw'[s] = raw[s]
    BY DEF Start
  <2>3. tx'[s] = (IF dir = "read" /\ s \in At(a) THEN <<>> ELSE tx[s])
    BY DEF Start
  <2>4. late'[s] = (IF Behind(s) THEN 2 ELSE late[s])
    BY DEF Start
  <2>5. Up(s)' = Up(s)
    BY <2>1 DEF Up
  <2> QED
    BY <2>1, <2>2, <2>3, <2>4, <2>5 DEF Started, At
<1> QED
  BY <1>1, <1>2, <1>3 DEF Start

\* What the end of a transfer changes of a slave.
Ended(s) ==
  /\ mode'[s] = mode[s] /\ irq'[s] = irq[s] /\ rx'[s] = rx[s] /\ tx'[s] = tx[s]
  /\ transfer_in_progress'[s] = transfer_in_progress[s]
  /\ handled'[s] = handled[s] /\ cuts'[s] = cuts[s] /\ overrun'[s] = overrun[s] /\ written'[s] = written[s]
  /\ raw'[s] = raw[s] \/ (Up(s) /\ raw'[s] = raw[s] \cup {"STOP"})
  /\ late'[s] = (IF rx[s] # <<>> /\ late[s] = 0 THEN 1 ELSE late[s])

\* There is no transfer when one has ended.
LEMMA EndsTransfer ==
  ASSUME Done, mode' = mode
  PROVE  bus.dir # "none" /\ bus' = NoTransfer /\ \A s \in Slave : Ended(s) /\ Up(s)' = Up(s)
<1>1. ASSUME NEW r, NEW stop \in BOOLEAN, Over(r, stop)
      PROVE  bus' = NoTransfer /\ \A s \in Slave : Ended(s) /\ Up(s)' = Up(s)
  <2>1. /\ irq' = irq /\ rx' = rx /\ tx' = tx /\ handled' = handled /\ cuts' = cuts
        /\ transfer_in_progress' = transfer_in_progress /\ overrun' = overrun /\ written' = written
    BY <1>1 DEF Over, calls
  <2>2. ASSUME NEW s \in Slave PROVE raw'[s] = raw[s] \/ (Up(s) /\ raw'[s] = raw[s] \cup {"STOP"})
    BY <1>1 DEF Over
  <2>3. ASSUME NEW s \in Slave PROVE late'[s] = (IF rx[s] # <<>> /\ late[s] = 0 THEN 1 ELSE late[s])
    BY <1>1 DEF Over
  <2>4. \A s \in Slave : Ended(s) /\ Up(s)' = Up(s)
    BY <2>1, <2>2, <2>3 DEF Ended, Up
  <2> QED
    BY <1>1, <2>4 DEF Over
<1> QED
  BY <1>1 DEF Done

-----------------------------------------------------------------------------
(* The master's side *)

\* All of the types, and what is known of the master.
MasterSide == WireTypeOK /\ IrqTypeOK /\ BusTypeOK /\ MasterTypeOK /\ MasterInv

\* Nothing of the master's side changes in a step of a slave.
LEMMA MasterStands ==
  ASSUME IInv, MasterStill, UNCHANGED <<at, call, bus, scan, found>>,
         WireTypeOK', IrqTypeOK', BusTypeOK'
  PROVE  MasterSide'
<1>1. MasterTypeOK /\ MasterInv
  BY DEF IInv, TypeOK
<1>2. MasterTypeOK'
  BY <1>1 DEF MasterTypeOK, MasterStill
<1>3. MasterInv'
  BY <1>1 DEF MasterInv, MasterStill, Of
<1> QED
  BY <1>2, <1>3 DEF MasterSide

\* The bytes on the bus, at the master, while they move.
LEMMA BytesMove ==
  ASSUME IInv, Wires
  PROVE  MasterSide'
<1>1. MasterTypeOK /\ MasterInv /\ BusTypeOK
  BY DEF IInv, TypeOK
<1>2. Len(bus.got) \in Nat /\ Len(bus.todo) \in Nat
  BY <1>1, Element DEF BusTypeOK
<1>3. CASE SendByte
  <2>1. /\ at = "writing" /\ UNCHANGED <<wireVars, masterVars>> /\ bus.dir = "write" /\ bus'.dir = "write"
        /\ bus'.by = bus.by /\ Len(bus'.got) = Len(bus.got) + 1 /\ Len(bus'.todo) = Len(bus.todo) - 1
        /\ Of(bus'.todo, call.msg) /\ WireTypeOK' /\ IrqTypeOK' /\ BusTypeOK'
    BY <1>3, ByteSent
  <2>2. MasterTypeOK'
    BY <1>1, <2>1 DEF MasterTypeOK, wireVars, masterVars
  <2>3. Len(bus'.got) + Len(bus'.todo) <= Longest
    <3>1. Len(bus.got) + Len(bus.todo) <= Longest
      BY <1>1, <2>1 DEF MasterInv
    <3> DEFINE a == Len(bus.got)
               b == Len(bus.todo)
               c == Len(bus'.got)
               d == Len(bus'.todo)
    <3>2. a \in Nat /\ b \in Nat /\ c = a + 1 /\ d = b - 1 /\ a + b <= Longest
      BY <1>2, <2>1, <3>1
    <3>3. c + d <= Longest
      <4> HIDE DEF a, b, c, d
      <4> QED
        BY <3>2, Numbers DEF Longest
    <3> QED
      BY <3>3
  <2>4. MasterInv'
    BY <1>1, <2>1, <2>3 DEF MasterInv, wireVars, masterVars, Of
  <2> QED
    BY <2>1, <2>2, <2>4 DEF MasterSide
<1>4. CASE TakeByte
  <2>1. PICK s \in bus.by :
          /\ at \in {"probe", "reading"} /\ UNCHANGED <<wireVars, masterVars>> /\ bus.dir = "read" /\ bus'.dir = "read"
          /\ bus'.by = bus.by /\ bus'.got = Append(bus.got, Head(tx[s])) /\ tx[s] # <<>> /\ s \in Slave
          /\ Len(bus'.todo) = Len(bus.todo) - 1
          /\ WireTypeOK' /\ IrqTypeOK' /\ BusTypeOK'
    BY <1>4, ByteTaken
  <2>2. MasterTypeOK'
    BY <1>1, <2>1 DEF MasterTypeOK, wireVars, masterVars
  <2>3. Len(bus'.got) = Len(bus.got) + 1
    <3>1. tx[s] \in Seq(Byte) /\ bus.got \in Seq(Byte)
      BY <1>1, <2>1 DEF IInv, TypeOK, IrqTypeOK, BusTypeOK
    <3>2. Head(tx[s]) \in Byte
      BY <2>1, <3>1, Foremost
    <3> QED
      BY <2>1, <3>1, <3>2, Behindmost
  <2>4. Len(bus'.got) + Len(bus'.todo) <= Length
    <3>1. Len(bus.got) + Len(bus.todo) <= Length
      BY <1>1, <2>1 DEF MasterInv
    <3> DEFINE a == Len(bus.got)
               b == Len(bus.todo)
               c == Len(bus'.got)
               d == Len(bus'.todo)
    <3>2. a \in Nat /\ b \in Nat /\ c = a + 1 /\ d = b - 1 /\ a + b <= Length
      BY <1>2, <2>1, <2>3, <3>1
    <3>3. c + d <= Length
      <4> HIDE DEF a, b, c, d
      <4> QED
        BY <3>2, Numbers DEF Longest
    <3> QED
      BY <3>3
  <2>5. MasterInv'
    BY <1>1, <2>1, <2>4 DEF MasterInv, wireVars, masterVars
  <2> QED
    BY <2>1, <2>2, <2>5 DEF MasterSide
<1> QED
  BY <1>3, <1>4 DEF Wires

\* writeCmd: the message is in the master's buffer.
LEMMA CmdWritten ==
  ASSUME IInv, NEW a \in 0..127, NEW c \in Command, WriteCmd(a, c), at = "scan",
         scan' \in Nat, scan' <= Len(Scanned) + Len(found)
  PROVE  /\ MasterSide' /\ bus = NoTransfer /\ bus' = bus /\ at' = "write" /\ call'.msg = call.msg + 1
         /\ \A s \in Slave : Still(s)
<1>1. WireTypeOK /\ IrqTypeOK /\ BusTypeOK /\ MasterTypeOK /\ MasterInv
  BY DEF IInv, TypeOK
<1>2. M \in Board /\ \A s \in Slave : s \in Board /\ s # M
  BY Boards
<1> DEFINE m == call.msg + 1
           q == GrownBy(<<>>, [i \in 1..c.len |-> [msg |-> m, nr |-> i]])
<1>3. call.msg \in 0..MaxMsg /\ call.msg < MaxMsg /\ bus.dir = "none" /\ bus = NoTransfer
  BY <1>1 DEF WriteCmd, BusTypeOK, MasterTypeOK
<1>4. m \in 0..MaxMsg
  BY <1>3, Numbers
<1>5. q \in Seq(Byte) /\ Of(q, m) /\ Len(q) \in Nat /\ Len(q) <= Longest
  <2> HIDE DEF m
  <2> QED
    BY <1>4, Message
<1>6. /\ txAddress' = [txAddress EXCEPT ![M] = a] /\ buf' = [buf EXCEPT ![M] = q]
      /\ pos' = [pos EXCEPT ![M] = 0] /\ mode' = mode /\ at' = "write"
      /\ call' = [msg |-> m, to |-> a, read |-> c.read]
      /\ UNCHANGED <<irqVars, calls, bus, history, found, result, timeouts>>
  BY DEF WriteCmd, Transmission, Goes
<1> HIDE DEF q, m
<1>7. a \in 0..NoAddress /\ c.read \in BOOLEAN
  BY BusAssumption DEF NoAddress
<1>8. WireTypeOK'
  BY <1>1, <1>5, <1>6, <1>7 DEF WireTypeOK
<1>9. IrqTypeOK'
  BY <1>1, <1>6 DEF IrqTypeOK, irqVars, calls
<1>10. BusTypeOK'
  BY <1>1, <1>4, <1>6, <1>7 DEF BusTypeOK, history
<1>11. buf'[M] = q /\ txAddress'[M] = a /\ pos'[M] = 0 /\ call'.msg = m /\ call'.to = a
  BY <1>1, <1>2, <1>6 DEF WireTypeOK
<1>12. Len(q) < Length
  BY <1>5, Numbers DEF Longest
<1>13. MasterTypeOK'
  BY <1>3, <1>5, <1>6, <1>11, <1>12 DEF MasterTypeOK
<1>14. MasterInv'
  <2>1. bus'.by = {}
    BY <1>3, <1>6 DEF NoTransfer
  <2> QED
    BY <1>5, <1>6, <1>11, <2>1 DEF MasterInv
<1>15. \A s \in Slave : Still(s)
  BY <1>2, <1>6 DEF Still, irqVars, calls, history
<1> QED
  BY <1>3, <1>6, <1>8, <1>9, <1>10, <1>11, <1>13, <1>14, <1>15 DEF MasterSide, m

-----------------------------------------------------------------------------
(* What every slave keeps *)

\* Nothing changes that the invariant of a slave is about.
Quiet(s) ==
  /\ Still(s) /\ bus'.dir = bus.dir /\ bus'.by = bus.by /\ (s \in bus.by => bus'.got = bus.got)
  /\ call.msg <= call'.msg /\ (Ongoing(s) => call'.msg = call.msg)
  /\ at' = "write" \/ (at' = "writing" /\ bus'.got = <<>>) =>
       \A i \in 1..Len(written[s]) : written[s][i].msg < call'.msg
  /\ at' \in {"reading", "got"} => at' = at /\ call' = call /\ buf'[M] = buf[M]

\* The slave has its types and its invariant.
Kept(s) == SlaveTypeOK(s) /\ SlaveInv(s)

\* Bytes that stay where they are keep their order.
LEMMA OrderStays ==
  ASSUME NEW s \in Slave, OrderInv(s),
         handled'[s] = handled[s], cuts'[s] = cuts[s], buf'[s] = buf[s], rx'[s] = rx[s],
         written'[s] = written[s], CutFirst(s, "RX_FULL") => CutFirst(s, "RX_FULL")',
         Ongoing(s)' /\ bus'.got = <<>> => Ongoing(s) /\ bus.got = <<>>
  PROVE  OrderInv(s)'
<1>1. Latest(s)' = Latest(s)
  BY DEF Latest
<1>2. /\ \A i \in 1..(Len(handled'[s]) - 1) :
           i \notin cuts'[s] => handled'[s][i].msg = handled'[s][i + 1].msg
      /\ \A i \in 1..Len(buf'[s]) : buf'[s][i].msg = buf'[s][1].msg
  BY DEF OrderInv
<1>3. Of(rx'[s], Latest(s)') /\ (rx'[s] = <<>> => Of(buf'[s], Latest(s)'))
  BY <1>1 DEF OrderInv
<1>4. rx'[s] = <<>> /\ buf'[s] = <<>> /\ written'[s] # <<>> =>
        handled'[s] # <<>> /\ handled'[s][Len(handled'[s])].msg = Latest(s)'
  BY <1>1 DEF OrderInv
<1>5. rx'[s] # <<>> => Of(buf'[s], Latest(s)') \/ CutFirst(s, "RX_FULL")'
  BY <1>1 DEF OrderInv
<1>6. Ongoing(s)' /\ bus'.got = <<>> =>
        rx'[s] = <<>> /\ (buf'[s] # <<>> => CutFirst(s, "RX_FULL")')
  BY DEF OrderInv
<1> QED
  BY <1>2, <1>3, <1>4, <1>5, <1>6 DEF OrderInv

\* A step that leaves a slave alone keeps its invariant.
LEMMA QuietKeeps ==
  ASSUME IInv, NEW s \in Slave, Quiet(s), call' \in [msg : 0..MaxMsg, to : 0..127, read : BOOLEAN]
  PROVE  Kept(s)'
<1>1. Kept(s) /\ BusTypeOK
  BY DEF IInv, TypeOK, Kept
<1>2. Still(s) /\ (Up(s)' = Up(s)) /\ (Ongoing(s)' = Ongoing(s)) /\ (Asked(s)' = Asked(s))
  BY DEF Quiet, Still, Up, Ongoing, Asked
<1>3. SlaveTypeOK(s)'
  BY <1>1, <1>2 DEF Kept, SlaveTypeOK, Still
<1>4. DownInv(s)'
  BY <1>1, <1>2 DEF Kept, SlaveInv, DownInv, Still, Quiet
<1>5. BytesInv(s)'
  <2>1. BytesInv(s)
    BY <1>1 DEF Kept, SlaveInv
  <2>2. IF Ongoing(s) THEN bus'.got = bus.got ELSE TRUE
    BY DEF Quiet, Ongoing
  <2> QED
    BY <1>2, <2>1, <2>2 DEF BytesInv, Still
<1>6. NumberInv(s)'
  <2>1. NumberInv(s) /\ written[s] \in Seq(Byte)
    BY <1>1 DEF Kept, SlaveInv, BusTypeOK
  <2>2. ASSUME NEW i \in 1..Len(written[s]) PROVE written[s][i].msg <= call'.msg
    <3>1. written[s][i] \in Byte /\ written[s][i].msg <= call.msg
      BY <2>1, Element DEF NumberInv
    <3> QED
      <4> DEFINE m == written[s][i].msg
      <4>1. m \in Int /\ call.msg \in Int /\ call'.msg \in Int
        BY <1>1, <3>1 DEF Byte, BusTypeOK
      <4>2. m <= call.msg /\ call.msg <= call'.msg
        BY <3>1 DEF Quiet
      <4> HIDE DEF m
      <4>3. m <= call'.msg
        BY <4>1, <4>2
      <4> QED
        BY <4>3 DEF m
  <2>3. Ongoing(s)' /\ bus'.got # <<>> => written[s] # <<>> /\ Latest(s) = call'.msg
    BY <1>2, <2>1 DEF NumberInv, Quiet, Ongoing
  <2> QED
    BY <1>2, <2>2, <2>3 DEF NumberInv, Still, Quiet, Latest
<1>7. (handled[s] # <<>> => Len(handled[s]) \in cuts[s])'
  BY <1>1, <1>2 DEF Kept, SlaveInv, Still
<1>8. (late[s] <= 1 => OrderInv(s))'
  <2>1. late[s] <= 1 => OrderInv(s)
    BY <1>1 DEF Kept, SlaveInv
  <2> QED
    BY <1>2, <2>1, OrderStays DEF Still, Quiet, CutFirst, Ongoing
<1>9. (late[s] <= 1 => AnswerInv(s))'
  <2>1. late[s] <= 1 => AnswerInv(s)
    BY <1>1 DEF Kept, SlaveInv
  <2> QED
    BY <1>2, <2>1 DEF AnswerInv, Still, Quiet, Latest, CutFirst, Of, Asked
<1>10. (late[s] = 0 /\ ~overrun[s] => WholeInv(s))'
  <2>1. late[s] = 0 /\ ~overrun[s] => WholeInv(s)
    BY <1>1 DEF Kept, SlaveInv
  <2> QED
    BY <1>2, <2>1 DEF WholeInv, Still, Quiet, EndsAt, Of, Ongoing
<1> QED
  BY <1>3, <1>4, <1>5, <1>6, <1>7, <1>8, <1>9, <1>10 DEF Kept, SlaveInv

\* Without a loss the bytes written to a slave are those handled, in the buffer and in the FIFO.
LEMMA Places ==
  ASSUME IInv, NEW s \in Slave, ~overrun[s]
  PROVE  /\ Len(written[s]) = Len(handled[s]) + Len(buf[s]) + Len(rx[s])
         /\ \A i \in 1..Len(handled[s]) : i \in 1..Len(written[s]) /\ handled[s][i] = written[s][i]
         /\ \A i \in 1..Len(buf[s]) :
              Len(handled[s]) + i \in 1..Len(written[s]) /\ buf[s][i] = written[s][Len(handled[s]) + i]
         /\ rx[s] # <<>> => /\ Len(handled[s]) + Len(buf[s]) + 1 \in 1..Len(written[s])
                            /\ rx[s][1] = written[s][Len(handled[s]) + Len(buf[s]) + 1]
<1>1. handled[s] \in Seq(Byte) /\ buf[s] \in Seq(Byte) /\ rx[s] \in Seq(Byte)
  BY Boards DEF IInv, TypeOK, WireTypeOK, IrqTypeOK
<1>2. (handled[s] \o buf[s]) \o rx[s] = written[s]
  BY DEF IInv, SlaveInv, BytesInv
<1> DEFINE h == handled[s]
           b == buf[s]
           r == rx[s]
           w == written[s]
<1>3. /\ Len(w) = Len(h) + Len(b) + Len(r)
      /\ \A i \in 1..Len(h) : w[i] = h[i]
      /\ \A i \in 1..Len(b) : w[Len(h) + i] = b[i]
      /\ \A i \in 1..Len(r) : w[Len(h) + Len(b) + i] = r[i]
  <2>1. h \in Seq(Byte) /\ b \in Seq(Byte) /\ r \in Seq(Byte) /\ AllOf(h, b, r) = w
    BY <1>1, <1>2 DEF AllOf
  <2> HIDE DEF h, b, r, w
  <2>2. Holds(w, h, b, r)
    BY <2>1, Joined
  <2> QED
    BY <2>2 DEF Holds
<1>4. Len(h) \in Nat /\ Len(b) \in Nat /\ Len(r) \in Nat
  BY <1>1, Element
<1>5. r # <<>> => 1 \in 1..Len(r)
  BY <1>1, Foremost
<1> HIDE DEF h, b, r, w
<1>6. /\ \A i \in 1..Len(h) : i \in 1..Len(w)
      /\ \A i \in 1..Len(b) : Len(h) + i \in 1..Len(w)
      /\ 1 \in 1..Len(r) => Len(h) + Len(b) + 1 \in 1..Len(w)
  BY <1>3, <1>4
<1> QED
  BY <1>3, <1>5, <1>6 DEF h, b, r, w

\* The bits of the types, one by one.
LEMMA SlaveTypes ==
  ASSUME IInv, NEW s \in Slave
  PROVE  /\ raw[s] \subseteq Bits \ {"RX_FULL"} /\ irq[s] \subseteq Bits
         /\ rx[s] \in Seq(Byte) /\ tx[s] \in Seq(Byte) /\ buf[s] \in Seq(Byte)
         /\ handled[s] \in Seq(Byte) /\ written[s] \in Seq(Byte) /\ cuts[s] \subseteq Nat \ {0}
         /\ late[s] \in 0..2 /\ overrun[s] \in BOOLEAN /\ transfer_in_progress[s] \in BOOLEAN
         /\ call.msg \in Int /\ Kept(s)
<1>1. WireTypeOK /\ IrqTypeOK /\ BusTypeOK /\ Kept(s)
  BY DEF IInv, TypeOK, Kept
<1>2. buf[s] \in Seq(Byte)
  BY <1>1, Boards DEF WireTypeOK
<1>3. late[s] \in 0..2 /\ overrun[s] \in BOOLEAN /\ written[s] \in Seq(Byte) /\ call.msg \in Int
  BY <1>1 DEF BusTypeOK
<1> QED
  BY <1>1, <1>2, <1>3 DEF IrqTypeOK

\* START: a slave that is not late has handled all, or will first hear of the START.
LEMMA StartKeeps ==
  ASSUME IInv, NEW s \in Slave, NEW dir \in {"write", "read"}, NEW by, Started(s, dir, by),
         UNCHANGED <<wireVars, call>>, bus = NoTransfer,
         bus'.dir = dir, bus'.by = by, bus'.got = <<>>, s \in by => Up(s),
         dir = "write" => at = "write" /\ at' = "writing",
         dir = "read" => at' \in {"probe", "reading"},
         at' = "reading" /\ Up(s) /\ Address(s) = call.to => s \in by
  PROVE  Kept(s)'
<1>1. SlaveTypeOK(s) /\ SlaveInv(s)
  BY DEF IInv, TypeOK
<1>2. UNCHANGED <<mode, txAddress, buf, pos>> /\ Up(s)' = Up(s) /\ call' = call
  BY DEF wireVars, Up
<1>3. SlaveTypeOK(s)'
  BY <1>1, <1>2 DEF SlaveTypeOK, Started
<1>4. DownInv(s)'
  BY <1>1, <1>2 DEF SlaveInv, DownInv, Started
<1>5. BytesInv(s)'
  <2>1. BytesInv(s) /\ DownInv(s)
    BY <1>1 DEF SlaveInv
  <2>2. CASE Up(s)
    <3>1. "START" \in raw'[s] /\ "START" \in Ends
      BY <2>2 DEF Started, Ends
    <3> QED
      BY <1>2, <2>1, <3>1 DEF BytesInv, Started
  <2>3. CASE ~Up(s)
    <3>1. raw'[s] = raw[s] /\ ~Ongoing(s) /\ ~Ongoing(s)'
      BY <2>3, <2>1 DEF Started, Ongoing, NoTransfer
    <3> QED
      BY <1>2, <2>1, <3>1 DEF BytesInv, Started
  <2> QED
    BY <2>2, <2>3
<1>6. NumberInv(s)'
  BY <1>1, <1>2 DEF SlaveInv, NumberInv, Started
<1>7. (handled[s] # <<>> => Len(handled[s]) \in cuts[s])'
  BY <1>1 DEF SlaveInv, Started
<1>8. ASSUME late'[s] <= 1
      PROVE  /\ late'[s] = late[s] /\ rx[s] = <<>>
             /\ buf[s] = <<>> \/ irq[s] = {}
  BY <1>8 DEF Started, Behind, Pending
<1>9. (late[s] <= 1 => OrderInv(s))'
  <2> SUFFICES ASSUME late'[s] <= 1 PROVE OrderInv(s)'
    OBVIOUS
  <2>1. OrderInv(s) /\ late'[s] = late[s] /\ rx[s] = <<>> /\ (buf[s] = <<>> \/ irq[s] = {})
    BY <1>1, <1>8 DEF SlaveInv
  <2>2. Ongoing(s)' /\ buf[s] # <<>> => CutFirst(s, "RX_FULL")'
    BY <2>1 DEF Ongoing, Started, CutFirst
  <2> QED
    BY <1>2, <2>1, <2>2 DEF OrderInv, Started, Of, Latest
<1>10. (late[s] <= 1 => AnswerInv(s))'
  <2> SUFFICES ASSUME late'[s] <= 1 PROVE AnswerInv(s)'
    OBVIOUS
  <2>1. rx[s] = <<>> /\ (buf[s] = <<>> \/ irq[s] = {})
    BY <1>8
  <2>2. ASSUME Asked(s)' PROVE tx'[s] = <<>> /\ (buf[s] # <<>> => CutFirst(s, "RD_REQ")')
    BY <2>1, <2>2 DEF Asked, Started, CutFirst
  <2>3. Of(<<>>, Latest(s)')
    BY NoBytes DEF Of
  <2>4. at' = "reading" /\ Address(s) = call.to /\ written[s] # <<>> => s \in by
    BY <1>1 DEF SlaveInv, DownInv
  <2> QED
    BY <1>2, <2>1, <2>2, <2>3, <2>4 DEF AnswerInv, Started, Asked
<1>11. (late[s] = 0 /\ ~overrun[s] => WholeInv(s))'
  <2> SUFFICES ASSUME late'[s] = 0, ~overrun'[s] PROVE WholeInv(s)'
    OBVIOUS
  <2>1. WholeInv(s) /\ rx[s] = <<>> /\ ~overrun[s] /\ BytesInv(s) /\ NumberInv(s)
    BY <1>1, <1>8 DEF SlaveInv, Started
  <2>2. "RX_FULL" \notin irq[s]
    BY <2>1 DEF BytesInv
  <2>3. ASSUME Ongoing(s)' PROVE \A i \in 1..Len(written[s]) : written[s][i].msg # call.msg
    <3>1. \A i \in 1..Len(written[s]) : written[s][i].msg < call.msg
      BY <2>1, <2>3 DEF Ongoing, NumberInv
    <3>2. \A i \in 1..Len(written[s]) : written[s][i].msg \in Int
      <4>1. \A i \in 1..Len(written[s]) : written[s][i] \in Byte
        BY SlaveTypes, Element
      <4> QED
        BY <4>1 DEF Byte
    <3> QED
      BY <3>1, <3>2, SlaveTypes
  <2>4. ASSUME Ongoing(s)' PROVE \A i \in 1..Len(handled[s]) : handled[s][i].msg # call.msg
    BY <2>1, <2>3, <2>4, Places
  <2>5. ASSUME Ongoing(s)', buf[s] # <<>>, Of(buf[s], call.msg) PROVE FALSE
    <3>1. buf[s] \in Seq(Byte)
      BY SlaveTypes
    <3>2. 1 \in 1..Len(buf[s])
      BY <2>5, <3>1, Foremost
    <3>3. buf[s][1].msg = call.msg /\ buf[s][1] = written[s][Len(handled[s]) + 1] /\ Len(handled[s]) + 1 \in 1..Len(written[s])
      BY <2>1, <2>5, <3>2, Places DEF Of
    <3> QED
      BY <2>3, <2>5, <3>3
  <2> QED
    BY <1>2, <2>1, <2>2, <2>4, <2>5 DEF WholeInv, Started, EndsAt, Of, Ongoing
<1> QED
  BY <1>3, <1>4, <1>5, <1>6, <1>7, <1>9, <1>10, <1>11 DEF Kept, SlaveInv

\* The end of a transfer: what is left in a FIFO makes the slave late.
LEMMA OverKeeps ==
  ASSUME IInv, NEW s \in Slave, Ended(s), bus' = NoTransfer, UNCHANGED <<mode, call>>,
         txAddress'[s] = txAddress[s], pos'[s] = pos[s], buf'[s] = buf[s],
         at' \in {"scan", "read", "got"},
         at' = "got" => at = "reading" /\ bus.dir = "read" /\ buf'[M] \in {<<>>, bus.got}
  PROVE  Kept(s)'
<1>1. SlaveTypeOK(s) /\ SlaveInv(s) /\ MasterInv /\ MasterTypeOK /\ BusTypeOK
  BY DEF IInv, TypeOK
<1>2. Up(s)' = Up(s) /\ ~Ongoing(s)' /\ ~Asked(s)' /\ bus'.by = {}
  BY DEF Up, Ongoing, Asked, NoTransfer
<1>3. SlaveTypeOK(s)'
  BY <1>1 DEF SlaveTypeOK, Ended
<1>4. DownInv(s)'
  BY <1>1, <1>2 DEF SlaveInv, DownInv, Ended
<1>5. BytesInv(s)'
  <2>1. BytesInv(s)
    BY <1>1 DEF SlaveInv
  <2>2. ASSUME (raw'[s] \cup irq'[s]) \cap Ends = {}
        PROVE  Len(buf[s]) + Len(rx[s]) <= RxDepth + Longest
    <3>1. (raw[s] \cup irq[s]) \cap Ends = {}
      BY <2>2 DEF Ended
    <3>2. CASE ~Ongoing(s)
      BY <2>1, <3>1, <3>2 DEF BytesInv
    <3>3. CASE Ongoing(s)
      <4> DEFINE n == Len(buf[s]) + Len(rx[s])
                 g == Len(bus.got)
                 t == Len(bus.todo)
      <4>1. n <= RxDepth + g
        BY <2>1, <3>1, <3>3 DEF BytesInv
      <4>2. at = "writing"
        BY <1>1, <3>3 DEF Ongoing, MasterTypeOK, BusTypeOK
      <4>3. g + t <= Longest
        BY <1>1, <4>2 DEF MasterInv
      <4>4. n \in Nat /\ g \in Nat /\ t \in Nat
        <5>1. Len(buf[s]) \in Nat /\ Len(rx[s]) \in Nat
          BY SlaveTypes, Element
        <5>2. g \in Nat /\ t \in Nat
          BY <1>1, Element DEF BusTypeOK
        <5> DEFINE a == Len(buf[s])
                   b == Len(rx[s])
        <5>3. a \in Nat /\ b \in Nat
          BY <5>1
        <5>4. a + b \in Nat
          <6> HIDE DEF a, b
          <6> QED
            BY <5>3
        <5> QED
          BY <5>2, <5>4
      <4>5. n <= RxDepth + Longest
        <5> HIDE DEF n, g, t
        <5> QED
          BY <4>1, <4>3, <4>4, Numbers DEF Longest
      <4> QED
        BY <4>5
    <3> QED
      BY <3>2, <3>3
  <2> QED
    BY <1>2, <2>1, <2>2 DEF BytesInv, Ended
<1>6. NumberInv(s)'
  BY <1>1, <1>2 DEF SlaveInv, NumberInv, Ended
<1>7. (handled[s] # <<>> => Len(handled[s]) \in cuts[s])'
  BY <1>1 DEF SlaveInv, Ended
<1>8. late[s] \in 0..2 /\ (late'[s] <= 1 => late[s] <= 1) /\ (late'[s] = 0 => late[s] = 0 /\ rx[s] = <<>>)
  BY SlaveTypes DEF Ended
<1>9. (late[s] <= 1 => OrderInv(s))'
  <2> SUFFICES ASSUME late'[s] <= 1 PROVE OrderInv(s)'
    OBVIOUS
  <2>1. OrderInv(s)
    BY <1>1, <1>8 DEF SlaveInv
  <2>2. CutFirst(s, "RX_FULL") => CutFirst(s, "RX_FULL")'
    BY DEF CutFirst, Ended
  <2> QED
    BY <1>2, <2>1, <2>2, OrderStays DEF Ended
<1>10. (late[s] <= 1 => AnswerInv(s))'
  <2> SUFFICES ASSUME late'[s] <= 1 PROVE AnswerInv(s)'
    OBVIOUS
  <2>1. AnswerInv(s)
    BY <1>1, <1>8 DEF SlaveInv
  <2>2. ASSUME at' = "got", Address(s) = call.to, written[s] # <<>>
        PROVE  Of(buf'[M], Latest(s))
    <3>1. Asked(s)
      BY <2>1, <2>2 DEF AnswerInv, Asked
    <3>2. Of(bus.got, Latest(s)) /\ Of(<<>>, Latest(s))
      BY <2>1, <2>2, <3>1, NoBytes DEF AnswerInv, Of
    <3> QED
      BY <2>2, <3>2
  <2>3. Latest(s)' = Latest(s) /\ written'[s] = written[s] /\ call' = call
    BY DEF Ended, Latest
  <2> QED
    BY <1>2, <2>2, <2>3 DEF AnswerInv, Of
<1>11. (late[s] = 0 /\ ~overrun[s] => WholeInv(s))'
  <2> SUFFICES ASSUME late'[s] = 0, ~overrun'[s] PROVE WholeInv(s)'
    OBVIOUS
  <2>1. WholeInv(s) /\ rx[s] = <<>> /\ "RX_FULL" \notin irq[s]
    BY <1>1, <1>8 DEF SlaveInv, Ended, BytesInv
  <2> QED
    BY <1>2, <2>1 DEF WholeInv, Ended, EndsAt
<1> QED
  BY <1>3, <1>4, <1>5, <1>6, <1>7, <1>9, <1>10, <1>11 DEF Kept, SlaveInv

-----------------------------------------------------------------------------
(* What a slave keeps in its own steps *)

\* What the step of a slave's handler leaves alone.
LEMMA Frame ==
  ASSUME NEW s \in Slave, Handles(s)
  PROVE  /\ at' = at /\ call' = call /\ bus' = bus /\ buf'[M] = buf[M] /\ Up(s)' = Up(s)
         /\ late'[s] = late[s] /\ overrun'[s] = overrun[s] /\ written'[s] = written[s]
         /\ txAddress'[s] = txAddress[s] /\ pos'[s] = 0
         /\ Ongoing(s)' = Ongoing(s) /\ Asked(s)' = Asked(s) /\ Latest(s)' = Latest(s)
BY DEF Handles, masterVars, history, Only, MasterStill, Up, Ongoing, Asked, Latest

\* There is room for a message.
LEMMA MessageRoom == Longest \in Nat /\ Longest + 2 * RxDepth < Length
<1>1. PICK c \in Command : c.len \in Nat \ {0} /\ 2 * RxDepth + c.len < Length
  BY BusAssumption
<1> DEFINE n == c.len
<1>2. n \in Nat /\ 2 * RxDepth + n < Length
  BY <1>1
<1> HIDE DEF n
<1> QED
  BY <1>2, Numbers DEF Longest

\* A slave has room for what was sent to it of a message, and for any message.
LEMMA Room ==
  ASSUME IInv, NEW s \in Slave
  PROVE  /\ Longest \in Nat /\ Longest + 2 * RxDepth < Length
         /\ Ongoing(s) => at = "writing" /\ Len(bus.got) \in 0..Longest
<1>1. Longest \in Nat /\ Longest + 2 * RxDepth < Length
  BY MessageRoom
<1>2. ASSUME Ongoing(s) PROVE at = "writing" /\ Len(bus.got) \in 0..Longest
  <2>1. MasterTypeOK /\ BusTypeOK /\ MasterInv
    BY DEF IInv, TypeOK
  <2>2. at = "writing"
    BY <1>2, <2>1 DEF Ongoing, MasterTypeOK, BusTypeOK
  <2> DEFINE g == Len(bus.got)
             t == Len(bus.todo)
  <2>3. g \in Nat /\ t \in Nat /\ g + t <= Longest
    BY <2>1, <2>2, Element DEF BusTypeOK, MasterInv
  <2>4. g \in 0..Longest
    <3> HIDE DEF g, t
    <3> QED
      BY <1>1, <2>3
  <2> QED
    BY <2>2, <2>4
<1> QED
  BY <1>1, <1>2

\* The slave's main begins: nothing has come yet.
LEMMA BeginKeeps ==
  ASSUME IInv, NEW s \in Slave, SlaveBegin(s), UNCHANGED <<masterVars, bus, history>>
  PROVE  Kept(s)'
<1>1. Kept(s) /\ TypeOK /\ SlaveInv(s) /\ SlaveTypeOK(s)
  BY SlaveTypes DEF IInv, Kept
<1>2. /\ Only(s) /\ ~Up(s) /\ Up(s)' /\ buf'[s] = <<>> /\ pos'[s] = 0 /\ txAddress' = txAddress
      /\ raw'[s] = raw[s] /\ irq'[s] = irq[s] /\ rx'[s] = rx[s] /\ tx'[s] = tx[s]
      /\ handled'[s] = handled[s] /\ cuts'[s] = cuts[s]
  BY <1>1, SlaveBegins
<1>3. buf[s] = <<>> /\ irq[s] = {} /\ rx[s] = <<>> /\ s \notin bus.by /\ buf'[M] = buf[M]
  BY <1>1, <1>2 DEF SlaveInv, DownInv, Only, MasterStill
<1>4. /\ UNCHANGED <<at, call, bus, late, overrun, written, transfer_in_progress>>
      /\ Ongoing(s)' = Ongoing(s) /\ Asked(s)' = Asked(s)
  BY DEF SlaveBegin, masterVars, history, irqVars, Ongoing, Asked
<1>5. SlaveTypeOK(s)'
  BY <1>1, <1>2, <1>3 DEF SlaveTypeOK
<1>6. DownInv(s)'
  BY <1>2 DEF DownInv
<1>7. BytesInv(s)'
  BY <1>1, <1>2, <1>3, <1>4 DEF SlaveInv, BytesInv
<1>8. NumberInv(s)'
  BY <1>1, <1>4 DEF SlaveInv, NumberInv, Latest
<1>9. (late[s] <= 1 => OrderInv(s))'
  <2>1. late[s] <= 1 => OrderInv(s)
    BY <1>1 DEF SlaveInv
  <2> QED
    BY <1>2, <1>3, <1>4, <2>1, OrderStays DEF CutFirst
<1>10. (late[s] <= 1 => AnswerInv(s))'
  <2>1. late[s] <= 1 => AnswerInv(s)
    BY <1>1 DEF SlaveInv
  <2> QED
    BY <1>2, <1>3, <1>4, <2>1 DEF AnswerInv, Latest, Of, CutFirst
<1>11. (late[s] = 0 /\ ~overrun[s] => WholeInv(s))'
  <2>1. late[s] = 0 /\ ~overrun[s] => WholeInv(s)
    BY <1>1 DEF SlaveInv
  <2> QED
    BY <1>2, <1>3, <1>4, <2>1 DEF WholeInv, EndsAt, Of
<1> QED
  BY <1>1, <1>2, <1>5, <1>6, <1>7, <1>8, <1>9, <1>10, <1>11 DEF Kept, SlaveInv

\* The handler begins: it has every bit that is raised.
LEMMA EnterKeeps ==
  ASSUME IInv, NEW s \in Slave, IrqEnter(s), UNCHANGED <<masterVars, bus, history>>
  PROVE  Kept(s)'
<1>1. TypeOK /\ SlaveInv(s) /\ SlaveTypeOK(s)
  BY DEF IInv, TypeOK
<1>2. /\ Handles(s) /\ irq[s] = {} /\ irq'[s] = Pending(s) /\ Up(s)
      /\ raw'[s] = raw[s] /\ rx'[s] = rx[s] /\ tx'[s] = tx[s] /\ buf'[s] = buf[s]
      /\ transfer_in_progress'[s] = transfer_in_progress[s]
      /\ handled'[s] = handled[s] /\ cuts'[s] = cuts[s]
  BY <1>1, IrqEnters
<1>3. /\ at' = at /\ call' = call /\ bus' = bus /\ buf'[M] = buf[M] /\ Up(s)' = Up(s)
      /\ late'[s] = late[s] /\ overrun'[s] = overrun[s] /\ written'[s] = written[s]
      /\ txAddress'[s] = txAddress[s] /\ pos'[s] = 0
      /\ Ongoing(s)' = Ongoing(s) /\ Asked(s)' = Asked(s) /\ Latest(s)' = Latest(s)
  BY <1>2, Frame
<1>4. /\ raw[s] \subseteq irq'[s] /\ irq'[s] \cap Ends = raw[s] \cap Ends
      /\ "RX_FULL" \in irq'[s] => rx[s] # <<>>
      /\ \A bit : CutFirst(s, bit) => CutFirst(s, bit)'
  BY <1>2, SlaveTypes DEF Pending, Ends, CutFirst
<1>5. SlaveTypeOK(s)'
  BY <1>1, <1>2, <1>3 DEF SlaveTypeOK
<1>6. DownInv(s)'
  BY <1>2, <1>3 DEF DownInv
<1>7. BytesInv(s)'
  <2>1. BytesInv(s)
    BY <1>1 DEF SlaveInv
  <2>2. ASSUME irq'[s] \cap Ends = {} PROVE Len(buf[s]) <= RxDepth + Longest
    <3> DEFINE a == Len(buf[s])
               b == Len(rx[s])
               g == Len(bus.got)
    <3>1. a + b <= RxDepth + (IF Ongoing(s) THEN g ELSE Longest)
      BY <1>2, <1>4, <2>1, <2>2 DEF BytesInv
    <3>2. a \in Nat /\ b \in Nat
      BY SlaveTypes, Element
    <3>3. Longest \in Nat /\ (Ongoing(s) => g \in 0..Longest)
      BY Room
    <3>4. a <= RxDepth + Longest
      <4> HIDE DEF a, b, g
      <4> QED
        BY <3>1, <3>2, <3>3, Numbers
    <3> QED
      BY <3>4
  <2> QED
    BY <1>2, <1>3, <1>4, <2>1, <2>2 DEF BytesInv
<1>8. NumberInv(s)'
  BY <1>1, <1>3 DEF SlaveInv, NumberInv
<1>9. (late[s] <= 1 => OrderInv(s))'
  <2>1. late[s] <= 1 => OrderInv(s)
    BY <1>1 DEF SlaveInv
  <2> QED
    BY <1>2, <1>3, <1>4, <2>1, OrderStays
<1>10. (late[s] <= 1 => AnswerInv(s))'
  <2>1. late[s] <= 1 => AnswerInv(s)
    BY <1>1 DEF SlaveInv
  <2> QED
    BY <1>2, <1>3, <1>4, <2>1 DEF AnswerInv, Of
<1>11. (late[s] = 0 /\ ~overrun[s] => WholeInv(s))'
  <2>1. late[s] = 0 /\ ~overrun[s] => WholeInv(s)
    BY <1>1 DEF SlaveInv
  <2> QED
    BY <1>2, <1>3, <1>4, <2>1 DEF WholeInv, EndsAt, Of
<1> QED
  BY <1>1, <1>2, <1>5, <1>6, <1>7, <1>8, <1>9, <1>10, <1>11 DEF Kept, SlaveInv

\* RX_FULL: what was in the FIFO goes into the buffer, of the message that is there.
LEMMA ReceiveKeeps ==
  ASSUME IInv, NEW s \in Slave, Receive(s), UNCHANGED <<masterVars, bus, history>>
  PROVE  Kept(s)'
<1>1. TypeOK /\ SlaveInv(s) /\ SlaveTypeOK(s) /\ BytesInv(s)
  BY DEF IInv, TypeOK, SlaveInv
<1>2. /\ Handles(s) /\ "RX_FULL" \in irq[s] /\ irq[s] \cap Ends = {}
      /\ irq'[s] = irq[s] \ {"RX_FULL"} /\ raw'[s] = raw[s]
      /\ rx'[s] = <<>> /\ tx'[s] = tx[s] /\ buf'[s] = buf[s] \o rx[s]
      /\ Len(buf[s]) + Len(rx[s]) < Length
      /\ transfer_in_progress'[s] = TRUE /\ handled'[s] = handled[s] /\ cuts'[s] = cuts[s]
  BY <1>1, Receives
<1>3. /\ at' = at /\ call' = call /\ bus' = bus /\ buf'[M] = buf[M] /\ Up(s)' = Up(s)
      /\ late'[s] = late[s] /\ overrun'[s] = overrun[s] /\ written'[s] = written[s]
      /\ txAddress'[s] = txAddress[s] /\ pos'[s] = 0
      /\ Ongoing(s)' = Ongoing(s) /\ Asked(s)' = Asked(s) /\ Latest(s)' = Latest(s)
  BY <1>2, Frame
<1> DEFINE q == buf[s] \o rx[s]
<1>4. rx[s] # <<>> /\ buf[s] \in Seq(Byte) /\ rx[s] \in Seq(Byte) /\ handled[s] \in Seq(Byte)
  BY <1>1, <1>2, SlaveTypes DEF BytesInv
<1>5. /\ q \in Seq(Byte) /\ Len(q) = Len(buf[s]) + Len(rx[s])
      /\ \A i \in 1..Len(buf[s]) : q[i] = buf[s][i]
      /\ \A i \in 1..Len(rx[s]) : q[Len(buf[s]) + i] = rx[s][i]
  <2> DEFINE b == buf[s]
             r == rx[s]
  <2>1. b \in Seq(Byte) /\ r \in Seq(Byte)
    BY <1>4
  <2> HIDE DEF b, r
  <2>2. /\ b \o r \in Seq(Byte) /\ Len(b \o r) = Len(b) + Len(r)
        /\ \A i \in 1..Len(b) : (b \o r)[i] = b[i]
        /\ \A i \in 1..Len(r) : (b \o r)[Len(b) + i] = r[i]
    BY <2>1, Concat
  <2> QED
    BY <2>2 DEF b, r
<1>6. Len(buf[s]) \in Nat /\ Len(rx[s]) \in Nat \ {0} /\ Len(<<>>) = 0
  BY <1>4, Element
<1>7. (handled[s] \o q) \o <<>> = (handled[s] \o buf[s]) \o rx[s]
  <2> DEFINE h == handled[s]
             b == buf[s]
             r == rx[s]
  <2>1. h \in Seq(Byte) /\ b \in Seq(Byte) /\ r \in Seq(Byte)
    BY <1>4
  <2> HIDE DEF h, b, r
  <2>2. (h \o (b \o r)) \o <<>> = (h \o b) \o r
    BY <2>1, JoinedMoves
  <2> QED
    BY <2>2 DEF h, b, r
<1>8. q # <<>> /\ (\A m : Of(buf[s], m) /\ Of(rx[s], m) => Of(q, m)) /\ (\A m : Of(q, m) => Of(buf[s], m))
  <2> DEFINE b == buf[s]
             r == rx[s]
             n == Len(b)
             k == Len(r)
  <2>1. n \in Nat /\ k \in Nat \ {0} /\ Len(q) = n + k
    BY <1>5, <1>6
  <2>2. (\A i \in 1..n : q[i] = b[i]) /\ (\A i \in 1..k : q[n + i] = r[i])
    BY <1>5
  <2>3. q # <<>>
    BY <1>5, <2>1
  <2> HIDE DEF q, n, k, b, r
  <2>4. ASSUME NEW m, \A i \in 1..n : b[i].msg = m, \A i \in 1..k : r[i].msg = m, NEW i \in 1..Len(q)
        PROVE  q[i].msg = m
    <3>1. CASE i \in 1..n
      BY <2>2, <2>4, <3>1
    <3>2. CASE i \notin 1..n
      <4>1. i - n \in 1..k /\ i = n + (i - n)
        BY <2>1, <3>2
      <4>2. q[n + (i - n)] = r[i - n]
        BY <2>2, <4>1
      <4> QED
        BY <2>4, <4>1, <4>2
    <3> QED
      BY <3>1, <3>2
  <2>5. ASSUME NEW m, \A i \in 1..Len(q) : q[i].msg = m, NEW i \in 1..n PROVE b[i].msg = m
    <3>1. i \in 1..Len(q)
      BY <2>1
    <3> QED
      BY <2>2, <2>5, <3>1
  <2> QED
    BY <2>3, <2>4, <2>5 DEF Of, n, k, b, r
<1>9. Len(<<>>) = 0 /\ buf'[s] = q /\ rx'[s] = <<>>
  BY <1>2, <1>6
<1> HIDE DEF q
<1>10. SlaveTypeOK(s)'
  <2>1. Len(buf'[s]) < Length
    BY <1>2, <1>5, <1>9
  <2>2. Len(rx'[s]) <= RxDepth
    <3>1. Len(rx'[s]) = 0
      BY <1>9
    <3> QED
      BY <3>1, Numbers
  <2> QED
    BY <1>1, <1>2, <1>3, <2>1, <2>2 DEF SlaveTypeOK
<1>11. DownInv(s)'
  BY <1>1, <1>2, <1>3 DEF SlaveInv, DownInv
<1>12. BytesInv(s)'
  <2>1. ASSUME (raw'[s] \cup irq'[s]) \cap Ends = {}
        PROVE  Len(buf'[s]) + Len(rx'[s]) <= RxDepth + (IF Ongoing(s) THEN Len(bus.got) ELSE Longest)
    <3>1. (raw[s] \cup irq[s]) \cap Ends = {}
      BY <1>2, <2>1
    <3>2. Len(buf[s]) + Len(rx[s]) <= RxDepth + (IF Ongoing(s) THEN Len(bus.got) ELSE Longest)
      BY <1>1, <3>1 DEF BytesInv
    <3>3. Len(buf'[s]) + Len(rx'[s]) = Len(buf[s]) + Len(rx[s])
      <4>1. Len(buf'[s]) = Len(buf[s]) + Len(rx[s]) /\ Len(rx'[s]) = 0
        BY <1>5, <1>9
      <4> DEFINE a == Len(buf[s])
                 b == Len(rx[s])
                 c == Len(buf'[s])
                 d == Len(rx'[s])
      <4>2. a \in Nat /\ b \in Nat /\ c = a + b /\ d = 0
        BY <1>6, <4>1
      <4>3. c + d = a + b
        <5> HIDE DEF a, b, c, d
        <5> QED
          BY <4>2
      <4> QED
        BY <4>3
    <3> QED
      BY <3>2, <3>3
  <2>2. ~overrun'[s] => (handled'[s] \o buf'[s]) \o rx'[s] = written'[s]
    BY <1>1, <1>2, <1>3, <1>7, <1>9 DEF BytesInv
  <2> QED
    BY <1>2, <1>3, <2>1, <2>2 DEF BytesInv
<1>13. NumberInv(s)'
  BY <1>1, <1>3 DEF SlaveInv, NumberInv
<1>14. (late[s] <= 1 => OrderInv(s))'
  <2> SUFFICES ASSUME late'[s] <= 1 PROVE OrderInv(s)'
    OBVIOUS
  <2>1. OrderInv(s)
    BY <1>1, <1>3 DEF SlaveInv
  <2>2. ~CutFirst(s, "RX_FULL")
    BY <1>2 DEF CutFirst, Ends
  <2>3. Of(q, Latest(s))
    BY <1>4, <1>8, <2>1, <2>2 DEF OrderInv
  <2>4. ~(Ongoing(s) /\ bus.got = <<>>)
    BY <1>4, <2>1 DEF OrderInv
  <2>5. \A i \in 1..Len(q) : q[i].msg = q[1].msg
    <3>1. 1 \in 1..Len(q)
      BY <1>5, <1>8, Foremost
    <3> QED
      BY <2>3, <3>1 DEF Of
  <2>6. Of(<<>>, Latest(s))
    BY NoBytes DEF Of
  <2>7. \A i \in 1..(Len(handled[s]) - 1) : i \notin cuts[s] => handled[s][i].msg = handled[s][i + 1].msg
    BY <2>1 DEF OrderInv
  <2> QED
    <3>1. /\ \A i \in 1..(Len(handled'[s]) - 1) :
               i \notin cuts'[s] => handled'[s][i].msg = handled'[s][i + 1].msg
          /\ \A i \in 1..Len(buf'[s]) : buf'[s][i].msg = buf'[s][1].msg
      BY <1>2, <1>9, <2>5, <2>7
    <3>2. Of(rx'[s], Latest(s)') /\ Of(buf'[s], Latest(s)')
      BY <1>3, <1>9, <2>3, <2>6
    <3>3. rx'[s] = <<>> /\ buf'[s] # <<>> /\ ~(Ongoing(s)' /\ bus'.got = <<>>)
      BY <1>3, <1>8, <1>9, <2>4
    <3> QED
      BY <3>1, <3>2, <3>3 DEF OrderInv
<1>15. (late[s] <= 1 => AnswerInv(s))'
  <2>1. late[s] <= 1 => AnswerInv(s) /\ ~Asked(s)
    BY <1>1, <1>4 DEF SlaveInv, AnswerInv
  <2> QED
    BY <1>2, <1>3, <2>1 DEF AnswerInv
<1>16. (late[s] = 0 /\ ~overrun[s] => WholeInv(s))'
  <2> SUFFICES ASSUME late'[s] = 0, ~overrun'[s] PROVE WholeInv(s)'
    OBVIOUS
  <2>1. WholeInv(s)
    BY <1>1, <1>3 DEF SlaveInv
  <2>2. (raw'[s] \cup irq'[s]) \cap Ends = {} /\ "RX_FULL" \notin irq'[s]
    BY <1>2, <2>1 DEF WholeInv
  <2> QED
    BY <1>2, <1>3, <1>9, <2>1, <2>2 DEF WholeInv, EndsAt
<1> QED
  BY <1>1, <1>2, <1>10, <1>11, <1>12, <1>13, <1>14, <1>15, <1>16 DEF Kept, SlaveInv

\* RD_REQ: the slave has handled the message before it is asked.
LEMMA RequestKeeps ==
  ASSUME IInv, NEW s \in Slave, Request(s), UNCHANGED <<masterVars, bus, history>>
  PROVE  Kept(s)'
<1>1. TypeOK /\ SlaveInv(s) /\ SlaveTypeOK(s)
  BY DEF IInv, TypeOK
<1>2. /\ Handles(s) /\ "RD_REQ" \in irq[s] /\ irq[s] \cap (Ends \cup {"RX_FULL"}) = {}
      /\ irq'[s] = irq[s] \ {"RD_REQ"} /\ raw'[s] = raw[s] \ {"RD_REQ"}
      /\ rx'[s] = rx[s] /\ buf'[s] = buf[s] /\ tx'[s] = Append(tx[s], Response(s))
      /\ Response(s) \in Byte
      /\ transfer_in_progress'[s] = TRUE /\ handled'[s] = handled[s] /\ cuts'[s] = cuts[s]
  BY <1>1, Requests
<1>3. /\ at' = at /\ call' = call /\ bus' = bus /\ buf'[M] = buf[M] /\ Up(s)' = Up(s)
      /\ late'[s] = late[s] /\ overrun'[s] = overrun[s] /\ written'[s] = written[s]
      /\ txAddress'[s] = txAddress[s] /\ pos'[s] = 0
      /\ Ongoing(s)' = Ongoing(s) /\ Asked(s)' = Asked(s) /\ Latest(s)' = Latest(s)
  BY <1>2, Frame
<1>4. /\ (raw'[s] \cup irq'[s]) \cap Ends = (raw[s] \cup irq[s]) \cap Ends
      /\ "RX_FULL" \notin irq'[s]
      /\ CutFirst(s, "RX_FULL") => CutFirst(s, "RX_FULL")'
      /\ ~CutFirst(s, "RD_REQ")
  BY <1>2 DEF Ends, CutFirst
<1>5. SlaveTypeOK(s)'
  BY <1>1, <1>2, <1>3 DEF SlaveTypeOK
<1>6. DownInv(s)'
  BY <1>1, <1>2, <1>3 DEF SlaveInv, DownInv
<1>7. BytesInv(s)'
  BY <1>1, <1>2, <1>3, <1>4 DEF SlaveInv, BytesInv
<1>8. NumberInv(s)'
  BY <1>1, <1>3 DEF SlaveInv, NumberInv
<1>9. (late[s] <= 1 => OrderInv(s))'
  <2>1. late[s] <= 1 => OrderInv(s)
    BY <1>1 DEF SlaveInv
  <2> QED
    BY <1>2, <1>3, <1>4, <2>1, OrderStays
<1>10. (late[s] <= 1 => AnswerInv(s))'
  <2> SUFFICES ASSUME late'[s] <= 1 PROVE AnswerInv(s)'
    OBVIOUS
  <2>1. AnswerInv(s) /\ OrderInv(s)
    BY <1>1, <1>3 DEF SlaveInv
  <2>2. ASSUME Asked(s) PROVE rx[s] = <<>> /\ buf[s] = <<>>
    BY <1>4, <2>1, <2>2 DEF AnswerInv
  <2>3. ASSUME Asked(s), written[s] # <<>> PROVE Of(tx'[s], Latest(s))
    <3>1. Of(tx[s], Latest(s)) /\ Response(s).msg = Latest(s)
      BY <2>1, <2>2, <2>3 DEF AnswerInv, OrderInv, Response
    <3> DEFINE t == tx[s]
               x == Response(s)
               q == Append(t, x)
    <3>2. t \in Seq(Byte) /\ x \in Byte /\ x.msg = Latest(s) /\ \A i \in 1..Len(t) : t[i].msg = Latest(s)
      BY <1>2, <3>1, SlaveTypes DEF Of
    <3>3. \A i \in 1..Len(q) : q[i].msg = Latest(s)
      <4> HIDE DEF t, x
      <4> QED
        BY <3>2
    <3> QED
      BY <1>2, <3>3 DEF Of
  <2>4. Asked(s) => /\ rx[s] = <<>> /\ buf[s] = <<>>
                    /\ written[s] # <<>> => Of(tx'[s], Latest(s)) /\ Of(bus.got, Latest(s))
    BY <2>1, <2>2, <2>3 DEF AnswerInv
  <2>5. /\ at = "reading" /\ Address(s) = call.to /\ written[s] # <<>> => s \in bus.by
        /\ at = "got" /\ Address(s) = call.to /\ written[s] # <<>> => Of(buf[M], Latest(s))
    BY <2>1 DEF AnswerInv
  <2> QED
    BY <1>2, <1>3, <2>4, <2>5 DEF AnswerInv
<1>11. (late[s] = 0 /\ ~overrun[s] => WholeInv(s))'
  <2>1. late[s] = 0 /\ ~overrun[s] => WholeInv(s)
    BY <1>1 DEF SlaveInv
  <2> QED
    BY <1>2, <1>3, <1>4, <2>1 DEF WholeInv, EndsAt, Of
<1> QED
  BY <1>1, <1>2, <1>5, <1>6, <1>7, <1>8, <1>9, <1>10, <1>11 DEF Kept, SlaveInv

\* The bytes of the buffer behind those that were handled.
LEMMA Handled ==
  ASSUME NEW h \in Seq(Byte), NEW b \in Seq(Byte), NEW q, q = h \o b, b # <<>>
  PROVE  /\ Len(h) \in Nat /\ Len(q) \in Nat \ {0} /\ Len(h) < Len(q) /\ q # <<>>
         /\ Len(q) - Len(h) \in 1..Len(b) /\ q[Len(q)] = b[Len(q) - Len(h)] /\ 1 \in 1..Len(b)
         /\ \A i \in 1..Len(q) : IF i <= Len(h) THEN i \in 1..Len(h) /\ q[i] = h[i]
                                 ELSE i - Len(h) \in 1..Len(b) /\ q[i] = b[i - Len(h)]
<1> DEFINE n == Len(h)
           k == Len(b)
<1>1. n \in Nat /\ k \in Nat \ {0}
  BY Element
<1>2. /\ q \in Seq(Byte) /\ Len(q) = n + k
      /\ \A i \in 1..n : q[i] = h[i]
      /\ \A i \in 1..k : q[n + i] = b[i]
  BY Concat
<1> HIDE DEF n, k
<1>3. n < Len(q) /\ Len(q) - n \in 1..k /\ 1 \in 1..k /\ Len(q) \in Nat \ {0} /\ q # <<>>
  BY <1>1, <1>2
<1>4. ASSUME NEW i \in 1..Len(q)
      PROVE  IF i <= n THEN i \in 1..n /\ q[i] = h[i] ELSE i - n \in 1..k /\ q[i] = b[i - n]
  <2>1. CASE i <= n
    BY <1>1, <1>2, <2>1
  <2>2. CASE ~(i <= n)
    <3>1. i - n \in 1..k /\ n + (i - n) = i
      BY <1>1, <1>2, <2>2
    <3>2. q[n + (i - n)] = b[i - n]
      BY <1>2, <3>1
    <3> QED
      BY <2>2, <3>1, <3>2
  <2> QED
    BY <2>1, <2>2
<1>5. q[Len(q)] = b[Len(q) - n]
  <2>1. Len(q) \in 1..Len(q) /\ ~(Len(q) <= n)
    BY <1>1, <1>3
  <2> QED
    BY <1>4, <2>1
<1> QED
  BY <1>1, <1>3, <1>4, <1>5 DEF n, k

\* What ends a transfer at a slave: its bit is cleared, and the bytes are handled.
LEMMA FinishFrame ==
  ASSUME IInv, NEW s \in Slave, NEW bit \in Ends, Finish(s, bit), UNCHANGED <<masterVars, bus, history>>
  PROVE  /\ Handles(s) /\ bit \in irq[s] /\ irq'[s] = irq[s] \ {bit} /\ raw'[s] = raw[s] \ {bit}
         /\ rx'[s] = rx[s] /\ tx'[s] = tx[s] /\ buf'[s] = <<>>
         /\ Up(s) /\ handled'[s] = handled[s] \o buf[s]
         /\ buf[s] = <<>> => handled'[s] = handled[s] /\ cuts'[s] = cuts[s]
         /\ buf[s] # <<>> => cuts'[s] = cuts[s] \cup {Len(handled'[s])}
<1>1. TypeOK /\ SlaveInv(s) /\ BytesInv(s)
  BY DEF IInv, SlaveInv
<1>2. /\ Handles(s) /\ bit \in irq[s] /\ irq[s] \cap Before(bit) = {}
      /\ irq'[s] = irq[s] \ {bit} /\ raw'[s] = raw[s] \ {bit}
      /\ rx'[s] = rx[s] /\ tx'[s] = tx[s] /\ buf'[s] = <<>>
      /\ handled'[s] = handled[s] \o buf[s]
      /\ cuts'[s] = (IF buf[s] = <<>> THEN cuts[s] ELSE cuts[s] \cup {Len(handled'[s])})
  BY <1>1, Finishes
<1>3. Up(s)
  BY <1>1, <1>2 DEF SlaveInv, DownInv
<1>4. buf[s] = <<>> => handled'[s] = handled[s]
  <2>1. \A q \in Seq(Byte) : q \o <<>> = q
    OBVIOUS
  <2> QED
    BY <1>2, <2>1, SlaveTypes
<1> QED
  BY <1>2, <1>3, <1>4

\* ... and the handler's order does not mix messages.
LEMMA FinishOrders ==
  ASSUME IInv, NEW s \in Slave, NEW bit \in Ends, Finish(s, bit), UNCHANGED <<masterVars, bus, history>>,
         OrderInv(s)
  PROVE  OrderInv(s)'
<1>1. /\ Handles(s) /\ rx'[s] = rx[s] /\ buf'[s] = <<>> /\ handled'[s] = handled[s] \o buf[s]
      /\ buf[s] = <<>> => handled'[s] = handled[s] /\ cuts'[s] = cuts[s]
      /\ buf[s] # <<>> => cuts'[s] = cuts[s] \cup {Len(handled'[s])}
  BY FinishFrame
<1>2. /\ bus' = bus /\ written'[s] = written[s] /\ Ongoing(s)' = Ongoing(s) /\ Latest(s)' = Latest(s)
  BY <1>1, Frame
<1>3. SlaveInv(s) /\ handled[s] \in Seq(Byte) /\ buf[s] \in Seq(Byte)
  BY SlaveTypes DEF Kept
<1> DEFINE h == handled[s]
           b == buf[s]
           q == handled'[s]
<1>4. b # <<>> =>
        /\ Len(h) \in Nat /\ Len(q) \in Nat \ {0} /\ Len(h) < Len(q) /\ q # <<>>
        /\ Len(q) - Len(h) \in 1..Len(b) /\ q[Len(q)] = b[Len(q) - Len(h)] /\ 1 \in 1..Len(b)
        /\ \A i \in 1..Len(q) : IF i <= Len(h) THEN i \in 1..Len(h) /\ q[i] = h[i]
                                ELSE i - Len(h) \in 1..Len(b) /\ q[i] = b[i - Len(h)]
  <2>1. h \in Seq(Byte) /\ b \in Seq(Byte) /\ q = h \o b
    BY <1>1, <1>3
  <2> HIDE DEF h, b, q
  <2> QED
    BY <2>1, Handled
<1>5. \A i \in 1..(Len(q) - 1) : i \notin cuts'[s] => q[i].msg = q[i + 1].msg
  <2>1. CASE b = <<>>
    BY <1>1, <2>1 DEF OrderInv
  <2>2. CASE b # <<>>
    <3> SUFFICES ASSUME NEW i \in 1..(Len(q) - 1), i \notin cuts'[s] PROVE q[i].msg = q[i + 1].msg
      OBVIOUS
    <3>1. i \notin cuts[s] /\ (h # <<>> => Len(h) \in cuts[s])
      BY <1>1, <1>3, <2>2 DEF SlaveInv
    <3>2. /\ \A k \in 1..(Len(h) - 1) : k \notin cuts[s] => h[k].msg = h[k + 1].msg
          /\ \A k \in 1..Len(b) : b[k].msg = b[1].msg
      BY DEF OrderInv
    <3>3. Len(h) = 0 <=> h = <<>>
      BY <1>3, Element
    <3> HIDE DEF h, b, q
    <3>4. i \in 1..Len(q) /\ i + 1 \in 1..Len(q) /\ i \in Nat /\ i > 0
      BY <1>4, <2>2
    <3>5. CASE i < Len(h)
      <4>1. i \in 1..(Len(h) - 1) /\ i <= Len(h) /\ i + 1 <= Len(h)
        BY <1>4, <2>2, <3>4, <3>5
      <4>2. q[i] = h[i] /\ q[i + 1] = h[i + 1]
        BY <1>4, <2>2, <3>4, <4>1
      <4> QED
        BY <3>1, <3>2, <4>1, <4>2
    <3>6. CASE i = Len(h)
      BY <3>1, <3>3, <3>4, <3>6
    <3>7. CASE i > Len(h)
      <4>1. ~(i <= Len(h)) /\ ~(i + 1 <= Len(h))
        BY <1>4, <2>2, <3>4, <3>7
      <4>2. /\ i - Len(h) \in 1..Len(b) /\ q[i] = b[i - Len(h)]
            /\ i + 1 - Len(h) \in 1..Len(b) /\ q[i + 1] = b[i + 1 - Len(h)]
        BY <1>4, <2>2, <3>4, <4>1
      <4> QED
        BY <3>2, <4>2
    <3> QED
      BY <1>4, <2>2, <3>4, <3>5, <3>6, <3>7
  <2> QED
    BY <2>1, <2>2
<1>6. rx[s] = <<>> /\ written[s] # <<>> => q # <<>> /\ q[Len(q)].msg = Latest(s)
  <2>1. CASE b = <<>>
    BY <1>1, <2>1 DEF OrderInv
  <2>2. CASE b # <<>>
    <3>1. rx[s] = <<>> => Of(b, Latest(s))
      BY DEF OrderInv
    <3> HIDE DEF h, b, q
    <3> QED
      BY <1>4, <2>2, <3>1 DEF Of
  <2> QED
    BY <2>1, <2>2
<1> HIDE DEF q
<1>7. Of(rx[s], Latest(s)) /\ (Ongoing(s) /\ bus.got = <<>> => rx[s] = <<>>)
  BY DEF OrderInv
<1>8. \A m : Of(<<>>, m)
  BY NoBytes DEF Of
<1>9. \A i \in 1..Len(<<>>) : <<>>[i].msg = <<>>[1].msg
  BY NoBytes
<1> QED
  BY <1>1, <1>2, <1>5, <1>6, <1>7, <1>8, <1>9 DEF OrderInv, q

\* ... and ends a call where the message ends, when nothing was left in the FIFO.
LEMMA FinishWhole ==
  ASSUME IInv, NEW s \in Slave, NEW bit \in Ends, Finish(s, bit), UNCHANGED <<masterVars, bus, history>>,
         WholeInv(s), OrderInv(s), ~overrun[s]
  PROVE  WholeInv(s)'
<1>1. /\ Handles(s) /\ bit \in irq[s] /\ irq'[s] = irq[s] \ {bit} /\ raw'[s] = raw[s] \ {bit}
      /\ rx'[s] = rx[s] /\ buf'[s] = <<>> /\ handled'[s] = handled[s] \o buf[s]
      /\ buf[s] = <<>> => handled'[s] = handled[s] /\ cuts'[s] = cuts[s]
      /\ buf[s] # <<>> => cuts'[s] = cuts[s] \cup {Len(handled'[s])}
  BY FinishFrame
<1>2. /\ bus' = bus /\ call' = call /\ written'[s] = written[s]
      /\ Ongoing(s)' = Ongoing(s) /\ Latest(s)' = Latest(s)
  BY <1>1, Frame
<1>3. /\ SlaveInv(s) /\ handled[s] \in Seq(Byte) /\ buf[s] \in Seq(Byte) /\ rx[s] \in Seq(Byte)
      /\ SlaveTypeOK(s)
  BY SlaveTypes DEF Kept
<1> DEFINE h == handled[s]
           b == buf[s]
           r == rx[s]
           w == written[s]
           q == handled'[s]
<1>4. b # <<>> =>
        /\ Len(h) \in Nat /\ Len(q) \in Nat \ {0} /\ Len(h) < Len(q) /\ q # <<>>
        /\ Len(q) - Len(h) \in 1..Len(b) /\ q[Len(q)] = b[Len(q) - Len(h)] /\ 1 \in 1..Len(b)
        /\ \A i \in 1..Len(q) : IF i <= Len(h) THEN i \in 1..Len(h) /\ q[i] = h[i]
                                ELSE i - Len(h) \in 1..Len(b) /\ q[i] = b[i - Len(h)]
  <2>1. h \in Seq(Byte) /\ b \in Seq(Byte) /\ q = h \o b
    BY <1>1, <1>3
  <2> HIDE DEF h, b, q
  <2> QED
    BY <2>1, Handled
<1>5. Len(q) = Len(h) + Len(b) /\ Len(h) \in Nat /\ Len(b) \in Nat /\ Len(r) \in Nat /\ (r = <<>> <=> Len(r) = 0)
  <2>1. h \in Seq(Byte) /\ b \in Seq(Byte) /\ q = h \o b /\ r \in Seq(Byte)
    BY <1>1, <1>3
  <2> HIDE DEF h, b, q, r
  <2> QED
    BY <2>1, Concat, Element
<1>6. /\ Len(w) = Len(h) + Len(b) + Len(r)
      /\ \A i \in 1..Len(b) : b[i] = w[Len(h) + i]
      /\ r # <<>> => r[1] = w[Len(h) + Len(b) + 1]
  BY Places
<1>7. \A i \in 1..Len(b) : b[i].msg = b[1].msg
  BY DEF OrderInv
<1>8. Ongoing(s) /\ b # <<>> => b[1].msg # call.msg
  <2> SUFFICES ASSUME Ongoing(s), b # <<>>, b[1].msg = call.msg PROVE FALSE
    OBVIOUS
  <2>1. Of(b, call.msg)
    BY <1>7 DEF Of
  <2> QED
    BY <1>1, <2>1 DEF WholeInv
<1>9. r # <<>> => Ongoing(s) /\ r[1].msg = call.msg
  <2> SUFFICES ASSUME r # <<>> PROVE Ongoing(s) /\ r[1].msg = call.msg
    OBVIOUS
  <2>1. Ongoing(s) /\ bus.got # <<>>
    BY DEF WholeInv, OrderInv
  <2>2. Latest(s) = call.msg
    BY <1>3, <2>1 DEF SlaveInv, NumberInv
  <2>3. 1 \in 1..Len(r)
    BY <1>3, Foremost
  <2> QED
    BY <2>1, <2>2, <2>3 DEF OrderInv, Of
<1>10. \A i \in 1..Len(q) : i \in cuts'[s] <=> EndsAt(s, i)
  <2>1. CASE b = <<>>
    BY <1>1, <2>1 DEF WholeInv
  <2>2. CASE b # <<>>
    <3> SUFFICES ASSUME NEW i \in 1..Len(q) PROVE i \in cuts'[s] <=> EndsAt(s, i)
      OBVIOUS
    <3>1. cuts'[s] = cuts[s] \cup {Len(q)} /\ cuts[s] \subseteq 1..Len(h)
      BY <1>1, <1>3, <2>2 DEF SlaveTypeOK
    <3>2. \A k \in 1..Len(h) : k \in cuts[s] <=> EndsAt(s, k)
      BY DEF WholeInv
    <3>3. EndsAt(s, i) <=> i = Len(w) \/ w[i].msg # w[i + 1].msg
      BY DEF EndsAt
    <3> DEFINE e == EndsAt(s, i)
    <3> HIDE DEF h, b, q, r, w
    <3>4. CASE i <= Len(h)
      <4>1. i \in 1..Len(h) /\ i # Len(q)
        BY <1>4, <2>2, <3>4
      <4> QED
        BY <3>1, <3>2, <4>1
    <3>5. CASE i > Len(h) /\ i < Len(q)
      <4>1. i \notin cuts'[s]
        BY <1>4, <2>2, <3>1, <3>5
      <4>2. i - Len(h) \in 1..Len(b) /\ i + 1 - Len(h) \in 1..Len(b) /\ i # Len(w)
        BY <1>5, <1>6, <3>5
      <4>3. b[i - Len(h)] = w[Len(h) + (i - Len(h))] /\ b[i + 1 - Len(h)] = w[Len(h) + (i + 1 - Len(h))]
        BY <1>6, <4>2
      <4>4. Len(h) + (i - Len(h)) = i /\ Len(h) + (i + 1 - Len(h)) = i + 1
        BY <1>5, <3>5
      <4>5. w[i].msg = w[i + 1].msg
        BY <1>7, <4>2, <4>3, <4>4
      <4> QED
        BY <3>3, <4>1, <4>2, <4>5
    <3>6. CASE i = Len(q)
      <4>1. i \in cuts'[s]
        BY <3>1, <3>6
      <4>2. CASE r = <<>>
        <5>1. i = Len(w)
          BY <1>5, <1>6, <3>6, <4>2
        <5> QED
          BY <3>3, <4>1, <5>1
      <4>3. CASE r # <<>>
        <5>1. w[i + 1].msg = call.msg
          BY <1>5, <1>6, <1>9, <3>6, <4>3
        <5>2. w[i].msg = b[1].msg
          <6>1. i - Len(h) \in 1..Len(b)
            BY <1>4, <2>2, <3>6
          <6>2. b[i - Len(h)] = w[Len(h) + (i - Len(h))] /\ Len(h) + (i - Len(h)) = i
            BY <1>5, <1>6, <6>1
          <6> QED
            BY <1>7, <6>1, <6>2
        <5>3. w[i].msg # w[i + 1].msg
          BY <1>8, <1>9, <2>2, <4>3, <5>1, <5>2
        <5> QED
          BY <3>3, <4>1, <5>3
      <4> QED
        BY <4>2, <4>3
    <3>7. i \in Nat
      BY <1>4, <2>2
    <3> QED
      BY <1>4, <2>2, <3>4, <3>5, <3>6, <3>7
  <2> QED
    BY <2>1, <2>2
<1>11. Ongoing(s) => \A i \in 1..Len(q) : q[i].msg # call.msg
  <2> SUFFICES ASSUME Ongoing(s), NEW i \in 1..Len(q) PROVE q[i].msg # call.msg
    OBVIOUS
  <2>1. \A k \in 1..Len(h) : h[k].msg # call.msg
    BY DEF WholeInv
  <2>2. CASE b = <<>>
    BY <1>1, <2>1, <2>2
  <2>3. CASE b # <<>>
    <3> HIDE DEF h, b, q, r, w
    <3> QED
      BY <1>4, <1>7, <1>8, <2>1, <2>3
  <2> QED
    BY <2>2, <2>3
<1> HIDE DEF q
<1>12. /\ ~Ongoing(s) => rx[s] = <<>>
       /\ "RX_FULL" \in irq'[s] => raw'[s] \cap Ends \subseteq irq'[s]
  BY <1>1 DEF WholeInv
<1>13. \A i : EndsAt(s, i)' <=> EndsAt(s, i)
  BY <1>2 DEF EndsAt
<1> QED
  BY <1>1, <1>2, <1>10, <1>11, <1>12, <1>13 DEF WholeInv, q

\* All of it.
LEMMA FinishKeeps ==
  ASSUME IInv, NEW s \in Slave, NEW bit \in Ends, Finish(s, bit), UNCHANGED <<masterVars, bus, history>>
  PROVE  Kept(s)'
<1>1. SlaveInv(s) /\ SlaveTypeOK(s) /\ BytesInv(s)
  BY DEF IInv, TypeOK, SlaveInv
<1>2. /\ Handles(s) /\ bit \in irq[s] /\ irq'[s] = irq[s] \ {bit} /\ raw'[s] = raw[s] \ {bit}
      /\ rx'[s] = rx[s] /\ tx'[s] = tx[s] /\ buf'[s] = <<>>
      /\ Up(s) /\ handled'[s] = handled[s] \o buf[s]
      /\ buf[s] = <<>> => handled'[s] = handled[s] /\ cuts'[s] = cuts[s]
      /\ buf[s] # <<>> => cuts'[s] = cuts[s] \cup {Len(handled'[s])}
  BY FinishFrame
<1>3. /\ at' = at /\ call' = call /\ bus' = bus /\ buf'[M] = buf[M] /\ Up(s)' = Up(s)
      /\ late'[s] = late[s] /\ overrun'[s] = overrun[s] /\ written'[s] = written[s]
      /\ txAddress'[s] = txAddress[s] /\ pos'[s] = 0
      /\ Ongoing(s)' = Ongoing(s) /\ Asked(s)' = Asked(s) /\ Latest(s)' = Latest(s)
  BY <1>2, Frame
<1>4. handled[s] \in Seq(Byte) /\ buf[s] \in Seq(Byte) /\ rx[s] \in Seq(Byte)
  BY SlaveTypes
<1>5. buf[s] # <<>> => /\ Len(handled[s]) \in Nat /\ Len(handled'[s]) \in Nat \ {0}
                       /\ Len(handled[s]) < Len(handled'[s])
  <2> DEFINE h == handled[s]
             b == buf[s]
             q == handled'[s]
  <2>1. h \in Seq(Byte) /\ b \in Seq(Byte) /\ q = h \o b
    BY <1>2, <1>4
  <2>2. b # <<>> => Len(h) \in Nat /\ Len(q) \in Nat \ {0} /\ Len(h) < Len(q)
    <3> HIDE DEF h, b, q
    <3> QED
      BY <2>1, Handled
  <2> QED
    BY <2>2
<1>6. Len(buf'[s]) = 0 /\ Len(buf'[s]) + Len(rx'[s]) = Len(rx[s]) /\ Len(rx[s]) \in Nat /\ Len(rx[s]) <= RxDepth
  <2>1. Len(buf'[s]) = 0 /\ Len(rx[s]) \in Nat /\ Len(rx[s]) <= RxDepth
    BY <1>1, <1>2, <1>4, NoBytes, Element DEF SlaveTypeOK
  <2> QED
    BY <1>2, <2>1
<1>7. SlaveTypeOK(s)'
  <2>1. cuts'[s] \subseteq 1..Len(handled'[s])
    <3>1. cuts[s] \subseteq 1..Len(handled[s])
      BY <1>1 DEF SlaveTypeOK
    <3>2. CASE buf[s] = <<>>
      BY <1>2, <3>1, <3>2
    <3>3. CASE buf[s] # <<>>
      <4> DEFINE n == Len(handled[s])
                 k == Len(handled'[s])
                 c == cuts[s]
      <4>1. n \in Nat /\ k \in Nat \ {0} /\ n < k /\ c \subseteq 1..n /\ cuts'[s] = c \cup {k}
        BY <1>2, <1>5, <3>1, <3>3
      <4>2. c \cup {k} \subseteq 1..k
        <5> HIDE DEF n, k, c
        <5> QED
          BY <4>1
      <4> QED
        BY <4>1, <4>2
    <3> QED
      BY <3>2, <3>3
  <2>2. Len(buf'[s]) < Length
    BY <1>6, Numbers
  <2> QED
    BY <1>1, <1>2, <1>3, <2>1, <2>2 DEF SlaveTypeOK
<1>8. DownInv(s)'
  BY <1>2, <1>3 DEF DownInv
<1>9. BytesInv(s)'
  <2>1. ~overrun'[s] => (handled'[s] \o buf'[s]) \o rx'[s] = written'[s]
    <3> DEFINE h == handled[s]
               b == buf[s]
               r == rx[s]
    <3>1. h \in Seq(Byte) /\ b \in Seq(Byte) /\ r \in Seq(Byte)
      BY <1>4
    <3>2. ((h \o b) \o <<>>) \o r = (h \o b) \o r
      <4> HIDE DEF h, b, r
      <4> QED
        BY <3>1, JoinedMoves
    <3> QED
      BY <1>1, <1>2, <1>3, <3>2 DEF BytesInv
  <2>2. Len(buf'[s]) + Len(rx'[s]) <= RxDepth + (IF Ongoing(s) THEN Len(bus.got) ELSE Longest)
    <3> DEFINE a == Len(buf'[s]) + Len(rx'[s])
               b == Len(rx[s])
               g == Len(bus.got)
    <3>1. a = b /\ b \in Nat /\ b <= RxDepth
      BY <1>6
    <3>2. Longest \in Nat /\ (Ongoing(s) => g \in 0..Longest)
      BY Room
    <3> HIDE DEF a, b, g
    <3>3. a <= RxDepth + (IF Ongoing(s) THEN g ELSE Longest)
      BY <3>1, <3>2, Numbers
    <3> QED
      BY <3>3 DEF a, g
  <2>3. Len(buf'[s]) <= RxDepth + Longest
    BY <1>6, Room, Numbers
  <2>4. "RX_FULL" \in irq'[s] => rx'[s] # <<>>
    BY <1>1, <1>2 DEF BytesInv
  <2> QED
    BY <1>2, <1>3, <2>1, <2>2, <2>3, <2>4 DEF BytesInv
<1>10. NumberInv(s)'
  BY <1>1, <1>3 DEF SlaveInv, NumberInv
<1>11. (handled[s] # <<>> => Len(handled[s]) \in cuts[s])'
  BY <1>1, <1>2 DEF SlaveInv
<1>12. (late[s] <= 1 => OrderInv(s))'
  BY <1>1, <1>3, FinishOrders DEF SlaveInv
<1>13. (late[s] <= 1 => AnswerInv(s))'
  <2>1. late[s] <= 1 => AnswerInv(s)
    BY <1>1 DEF SlaveInv
  <2> QED
    BY <1>2, <1>3, <2>1 DEF AnswerInv
<1>14. (late[s] = 0 /\ ~overrun[s] => WholeInv(s))'
  <2> SUFFICES ASSUME late[s] = 0, ~overrun[s] PROVE WholeInv(s)'
    BY <1>3
  <2>1. WholeInv(s) /\ OrderInv(s)
    BY <1>1 DEF SlaveInv
  <2> QED
    BY <2>1, FinishWhole
<1> QED
  BY <1>1, <1>2, <1>7, <1>8, <1>9, <1>10, <1>11, <1>12, <1>13, <1>14 DEF Kept, SlaveInv

-----------------------------------------------------------------------------
(* What a slave keeps when a byte moves *)

\* A byte of a message: the first of a new one finds the FIFO empty.
LEMMA SentKeeps ==
  ASSUME IInv, NEW s \in Slave, NEW x \in Byte, s \in bus.by, bus.dir = "write", at = "writing",
         UNCHANGED <<at, call, wireVars>>, bus'.dir = "write", bus'.by = bus.by,
         x.msg = call.msg, written'[s] = Append(written[s], x),
         rx'[s] = (IF Len(rx[s]) < RxDepth THEN Append(rx[s], x) ELSE rx[s]),
         overrun'[s] = (overrun[s] \/ Len(rx[s]) = RxDepth),
         Len(bus'.got) = Len(bus.got) + 1, bus'.got # <<>>,
         raw'[s] = raw[s], irq'[s] = irq[s],
         tx'[s] = tx[s], transfer_in_progress'[s] = transfer_in_progress[s],
         handled'[s] = handled[s], cuts'[s] = cuts[s], late'[s] = late[s]
  PROVE  Kept(s)'
<1>1. SlaveInv(s) /\ SlaveTypeOK(s) /\ BytesInv(s) /\ NumberInv(s)
  BY DEF IInv, TypeOK, SlaveInv
<1>2. /\ handled[s] \in Seq(Byte) /\ buf[s] \in Seq(Byte) /\ rx[s] \in Seq(Byte) /\ written[s] \in Seq(Byte)
      /\ call.msg \in Int
  BY SlaveTypes
<1>3. /\ UNCHANGED <<mode, txAddress, buf, pos>> /\ Up(s) /\ Up(s)' /\ Ongoing(s) /\ Ongoing(s)' /\ ~Asked(s)'
  BY <1>1 DEF wireVars, Up, Ongoing, Asked, SlaveInv, DownInv
<1> DEFINE w == written[s]
           v == Append(w, x)
           r == rx[s]
           q == rx'[s]
<1>4. Len(r) \in Nat /\ Len(r) <= RxDepth /\ (Len(r) = 0 <=> r = <<>>) /\ Len(w) \in Nat
  BY <1>1, <1>2, Element DEF SlaveTypeOK
<1>5. /\ v \in Seq(Byte) /\ Len(v) = Len(w) + 1 /\ v # <<>> /\ v[Len(v)].msg = call.msg
      /\ v[Len(w) + 1] = x /\ \A i \in 1..Len(w) : v[i] = w[i]
  <2>1. w \in Seq(Byte)
    BY <1>2
  <2> HIDE DEF w
  <2> QED
    BY <2>1, Behindmost
<1>6. /\ q # <<>> /\ Len(q) \in Nat /\ Len(q) <= RxDepth /\ Len(q) <= Len(r) + 1
      /\ Of(r, call.msg) => Of(q, call.msg)
  <2>1. CASE Len(r) < RxDepth
    <3>1. q = Append(r, x) /\ r \in Seq(Byte)
      BY <1>2, <2>1
    <3> HIDE DEF r, q
    <3>2. q # <<>> /\ Len(q) = Len(r) + 1 /\ q[Len(r) + 1] = x /\ \A i \in 1..Len(r) : q[i] = r[i]
      BY <3>1, Behindmost
    <3>3. Of(r, call.msg) => Of(q, call.msg)
      BY <1>4, <3>2 DEF Of
    <3> QED
      BY <1>4, <2>1, <3>2, <3>3, Numbers
  <2>2. CASE ~(Len(r) < RxDepth)
    <3>1. q = r
      BY <2>2
    <3> HIDE DEF r, q
    <3> QED
      BY <1>4, <2>2, <3>1, Numbers
  <2> QED
    BY <2>1, <2>2
<1>7. ASSUME ~overrun'[s] PROVE ~overrun[s] /\ q = Append(r, x)
  <2> DEFINE n == Len(r)
  <2>1. ~overrun[s] /\ n # RxDepth
    BY <1>7
  <2>2. n \in Nat /\ n <= RxDepth
    BY <1>4
  <2>3. n < RxDepth
    <3> HIDE DEF n
    <3> QED
      BY <2>1, <2>2, Numbers
  <2> QED
    BY <2>1, <2>3
<1>8. SlaveTypeOK(s)'
  BY <1>1, <1>3, <1>6 DEF SlaveTypeOK
<1>9. DownInv(s)'
  BY <1>3 DEF DownInv
<1>10. BytesInv(s)'
  <2>1. ASSUME ~overrun'[s] PROVE (handled'[s] \o buf'[s]) \o rx'[s] = written'[s]
    <3>1. q = Append(r, x) /\ (handled[s] \o buf[s]) \o r = w
      BY <1>1, <1>7, <2>1 DEF BytesInv
    <3> DEFINE h == handled[s]
               b == buf[s]
    <3>2. h \in Seq(Byte) /\ b \in Seq(Byte) /\ r \in Seq(Byte) /\ x \in Byte
      BY <1>2
    <3>3. AllOf(h, b, Append(r, x)) = Append(AllOf(h, b, r), x)
      <4> HIDE DEF h, b, r
      <4> QED
        BY <3>2, JoinedGrows
    <3> QED
      BY <1>3, <3>1, <3>3 DEF AllOf
  <2>2. ASSUME (raw[s] \cup irq[s]) \cap Ends = {}
        PROVE  Len(buf[s]) + Len(rx'[s]) <= RxDepth + Len(bus'.got)
    <3> DEFINE a == Len(buf[s])
               b == Len(r)
               c == Len(q)
               g == Len(bus.got)
    <3>1. a + b <= RxDepth + g
      BY <1>1, <1>3, <2>2 DEF BytesInv
    <3>2. a \in Nat /\ b \in Nat /\ c \in Nat /\ c <= b + 1 /\ g \in Nat
      BY <1>2, <1>3, <1>4, <1>6, Element, Room
    <3>3. a + c <= RxDepth + (g + 1)
      <4> HIDE DEF a, b, c, g
      <4> QED
        BY <3>1, <3>2, Numbers
    <3> QED
      BY <3>3
  <2> QED
    BY <1>1, <1>3, <1>6, <2>1, <2>2 DEF BytesInv
<1>11. NumberInv(s)'
  <2>1. \A i \in 1..Len(w) : w[i].msg <= call.msg
    BY <1>1 DEF NumberInv
  <2>2. \A i \in 1..Len(v) : v[i].msg <= call.msg
    <3> SUFFICES ASSUME NEW i \in 1..Len(v) PROVE v[i].msg <= call.msg
      OBVIOUS
    <3> HIDE DEF w, v
    <3>1. CASE i = Len(w) + 1
      <4>1. v[i].msg = call.msg
        BY <1>5, <3>1
      <4> QED
        BY <1>2, <4>1
    <3>2. CASE i # Len(w) + 1
      <4>1. i \in 1..Len(w)
        BY <1>4, <1>5, <3>2
      <4> QED
        BY <1>5, <2>1, <4>1
    <3> QED
      BY <3>1, <3>2
  <2>3. written'[s] = v
    OBVIOUS
  <2> HIDE DEF v
  <2> QED
    BY <1>3, <1>5, <2>2, <2>3 DEF NumberInv, Latest
<1>12. (late[s] <= 1 => OrderInv(s))'
  <2> SUFFICES ASSUME late[s] <= 1 PROVE OrderInv(s)'
    OBVIOUS
  <2>1. OrderInv(s)
    BY <1>1 DEF SlaveInv
  <2>2. Of(r, call.msg) /\ (Of(buf[s], call.msg) \/ CutFirst(s, "RX_FULL"))
    <3>1. CASE bus.got = <<>>
      <4>1. r = <<>> /\ (buf[s] = <<>> \/ CutFirst(s, "RX_FULL"))
        BY <1>3, <2>1, <3>1 DEF OrderInv
      <4>2. Of(<<>>, call.msg)
        BY NoBytes DEF Of
      <4> QED
        BY <4>1, <4>2
    <3>2. CASE bus.got # <<>>
      <4>1. Latest(s) = call.msg
        BY <1>1, <1>3, <3>2 DEF NumberInv
      <4> QED
        BY <2>1, <4>1 DEF OrderInv
    <3> QED
      BY <3>1, <3>2
  <2>3. CutFirst(s, "RX_FULL") => CutFirst(s, "RX_FULL")'
    BY DEF CutFirst
  <2>4. Latest(s)' = call.msg /\ buf'[s] = buf[s]
    BY <1>3, <1>5 DEF Latest
  <2> QED
    BY <1>3, <1>6, <2>1, <2>2, <2>3, <2>4 DEF OrderInv
<1>13. (late[s] <= 1 => AnswerInv(s))'
  BY <1>3 DEF AnswerInv
<1>14. (late[s] = 0 /\ ~overrun[s] => WholeInv(s))'
  <2> SUFFICES ASSUME late[s] = 0, ~overrun'[s] PROVE WholeInv(s)'
    OBVIOUS
  <2>1. WholeInv(s) /\ ~overrun[s] /\ rx'[s] = Append(r, x)
    BY <1>1, <1>7 DEF SlaveInv
  <2>2. ASSUME NEW i \in 1..Len(handled[s]) PROVE i \in cuts[s] <=> EndsAt(s, i)'
    <3>1. i \in 1..Len(w) /\ w[i].msg # call.msg /\ (i \in cuts[s] <=> EndsAt(s, i))
      BY <1>3, <2>1, Places DEF WholeInv
    <3>2. EndsAt(s, i)' <=> i = Len(v) \/ v[i].msg # v[i + 1].msg
      BY DEF EndsAt
    <3>3. EndsAt(s, i) <=> i = Len(w) \/ w[i].msg # w[i + 1].msg
      BY DEF EndsAt
    <3> DEFINE ends == EndsAt(s, i)
               e == EndsAt(s, i)'
    <3> HIDE DEF w, v
    <3>4. CASE i = Len(w)
      <4>1. v[i] = w[i] /\ v[i + 1] = x
        BY <1>5, <3>1, <3>4
      <4> QED
        BY <3>1, <3>2, <3>3, <3>4, <4>1
    <3>5. CASE i # Len(w)
      <4>1. i + 1 \in 1..Len(w) /\ i # Len(v)
        BY <1>4, <1>5, <3>1, <3>5
      <4>2. v[i] = w[i] /\ v[i + 1] = w[i + 1]
        BY <1>5, <3>1, <4>1
      <4> QED
        BY <3>1, <3>2, <3>3, <3>5, <4>1, <4>2
    <3> QED
      BY <3>4, <3>5
  <2>3. "RX_FULL" \in irq'[s] => raw'[s] \cap Ends \subseteq irq'[s]
    BY <2>1 DEF WholeInv
  <2>4. /\ \A i \in 1..Len(handled[s]) : handled[s][i].msg # call.msg
        /\ buf[s] # <<>> /\ Of(buf[s], call.msg) => (raw[s] \cup irq[s]) \cap Ends = {}
    BY <1>3, <2>1 DEF WholeInv
  <2> QED
    BY <1>3, <2>2, <2>3, <2>4 DEF WholeInv
<1> QED
  BY <1>1, <1>8, <1>9, <1>10, <1>11, <1>12, <1>13, <1>14 DEF Kept, SlaveInv

\* A byte of an answer: it is to what was written last.
LEMMA TakenKeeps ==
  ASSUME IInv, NEW s \in Slave, s \in bus.by, bus.dir = "read", at \in {"probe", "reading"},
         UNCHANGED <<at, call, wireVars, history>>, bus'.dir = "read", bus'.by = bus.by,
         tx[s] # <<>>, tx'[s] = Tail(tx[s]), bus'.got = Append(bus.got, Head(tx[s])),
         raw'[s] = raw[s] \/ raw'[s] = raw[s] \cup {"RD_REQ"},
         rx'[s] = rx[s], irq'[s] = irq[s], transfer_in_progress'[s] = transfer_in_progress[s],
         handled'[s] = handled[s], cuts'[s] = cuts[s]
  PROVE  Kept(s)'
<1>1. SlaveInv(s) /\ SlaveTypeOK(s)
  BY DEF IInv, TypeOK, SlaveInv
<1>2. UNCHANGED <<mode, txAddress, buf, pos, late, overrun, written>>
  BY DEF wireVars, history
<1>3. Up(s) /\ Up(s)' /\ ~Ongoing(s) /\ ~Ongoing(s)' /\ Asked(s) /\ Asked(s)' /\ Latest(s)' = Latest(s)
  BY <1>1, <1>2 DEF Up, Ongoing, Asked, Latest, SlaveInv, DownInv
<1>4. /\ (raw'[s] \cup irq'[s]) \cap Ends = (raw[s] \cup irq[s]) \cap Ends
      /\ raw'[s] \cap Ends = raw[s] \cap Ends
      /\ CutFirst(s, "RX_FULL") => CutFirst(s, "RX_FULL")'
  BY DEF Ends, CutFirst
<1>5. SlaveTypeOK(s)'
  BY <1>1, <1>2 DEF SlaveTypeOK
<1>6. DownInv(s)'
  BY <1>3 DEF DownInv
<1>7. BytesInv(s)'
  BY <1>1, <1>2, <1>3, <1>4 DEF SlaveInv, BytesInv
<1>8. NumberInv(s)'
  BY <1>1, <1>2, <1>3 DEF SlaveInv, NumberInv
<1>9. (late[s] <= 1 => OrderInv(s))'
  <2>1. late[s] <= 1 => OrderInv(s)
    BY <1>1 DEF SlaveInv
  <2> QED
    BY <1>2, <1>3, <1>4, <2>1, OrderStays
<1>10. (late[s] <= 1 => AnswerInv(s))'
  <2> SUFFICES ASSUME late[s] <= 1 PROVE AnswerInv(s)'
    BY <1>2
  <2>1. AnswerInv(s)
    BY <1>1 DEF SlaveInv
  <2>2. rx[s] = <<>> /\ buf[s] = <<>>
    BY <1>3, <2>1 DEF AnswerInv
  <2>3. ASSUME written[s] # <<>> PROVE Of(tx'[s], Latest(s)) /\ Of(bus'.got, Latest(s))
    <3> DEFINE t == tx[s]
               g == bus.got
               m == Latest(s)
    <3>1. t \in Seq(Byte) /\ g \in Seq(Byte) /\ t # <<>>
      BY SlaveTypes DEF IInv, TypeOK, BusTypeOK
    <3>2. (\A i \in 1..Len(t) : t[i].msg = m) /\ (\A i \in 1..Len(g) : g[i].msg = m)
      BY <1>3, <2>1, <2>3 DEF AnswerInv, Of
    <3> HIDE DEF t, g, m
    <3>3. /\ Head(t) \in Byte /\ Head(t) = t[1] /\ 1 \in 1..Len(t)
          /\ \A i \in 1..Len(Tail(t)) : i + 1 \in 1..Len(t) /\ Tail(t)[i] = t[i + 1]
      BY <3>1, Foremost
    <3>4. \A i \in 1..Len(Tail(t)) : Tail(t)[i].msg = m
      BY <3>2, <3>3
    <3>5. Head(t).msg = m
      BY <3>2, <3>3
    <3> DEFINE x == Head(t)
    <3> HIDE DEF x
    <3>6. \A i \in 1..Len(Append(g, x)) : Append(g, x)[i].msg = m
      <4>1. x \in Byte /\ x.msg = m
        BY <3>3, <3>5 DEF x
      <4> QED
        BY <3>1, <3>2, <4>1
    <3> QED
      BY <3>4, <3>6 DEF Of, t, g, m, x
  <2>4. at = "reading" /\ Address(s) = call.to /\ written[s] # <<>> => s \in bus.by
    OBVIOUS
  <2> QED
    BY <1>2, <1>3, <2>2, <2>3, <2>4 DEF AnswerInv
<1>11. (late[s] = 0 /\ ~overrun[s] => WholeInv(s))'
  <2>1. late[s] = 0 /\ ~overrun[s] => WholeInv(s)
    BY <1>1 DEF SlaveInv
  <2> QED
    BY <1>2, <1>3, <1>4, <2>1 DEF WholeInv, EndsAt
<1> QED
  BY <1>1, <1>5, <1>6, <1>7, <1>8, <1>9, <1>10, <1>11 DEF Kept, SlaveInv

-----------------------------------------------------------------------------
(* The steps of the master *)

\* The master's side, and every slave.
AllKept == MasterSide /\ \A s \in Slave : Kept(s)

\* No two slaves have one address.
LEMMA OneAddress ==
  ASSUME NEW a, NEW s \in At(a), NEW t \in At(a)
  PROVE  s = t
BY BusAssumption DEF At

\* duino_master_init begins.
LEMMA MasterBegins ==
  ASSUME IInv, MasterBegin
  PROVE  AllKept'
<1>1. WireTypeOK /\ IrqTypeOK /\ BusTypeOK /\ MasterTypeOK /\ MasterInv
  BY DEF IInv, TypeOK
<1>2. M \in Board /\ \A s \in Slave : s \in Board /\ s # M
  BY Boards
<1>3. /\ at = "off" /\ at' = "scan" /\ mode' = [mode EXCEPT ![M] = "Master"] /\ txAddress[M] = NoAddress
      /\ buf' = [buf EXCEPT ![M] = <<>>] /\ pos' = [pos EXCEPT ![M] = 0]
      /\ UNCHANGED <<txAddress, raw, rx, tx, irq, transfer_in_progress, handled, cuts, bus, scan, found,
                     call, result, timeouts, late, overrun, written>>
  BY DEF MasterBegin, Begin, Empty, Goes, irqVars, calls, history
<1>4. bus = NoTransfer /\ bus.dir = "none"
  BY <1>1, <1>3 DEF MasterTypeOK, BusTypeOK
<1>5. WireTypeOK' /\ IrqTypeOK' /\ BusTypeOK'
  <2>1. WireTypeOK'
    BY <1>1, <1>2, <1>3, NoBytes DEF WireTypeOK
  <2>2. IrqTypeOK'
    BY <1>1, <1>3 DEF IrqTypeOK
  <2>3. BusTypeOK'
    BY <1>1, <1>3 DEF BusTypeOK
  <2> QED
    BY <2>1, <2>2, <2>3
<1>6. buf'[M] = <<>> /\ pos'[M] = 0 /\ txAddress'[M] = NoAddress /\ Len(<<>>) = 0
  BY <1>1, <1>2, <1>3, NoBytes DEF WireTypeOK
<1>7. MasterTypeOK'
  BY <1>1, <1>3, <1>4, <1>6, Numbers DEF MasterTypeOK
<1>8. MasterInv'
  BY <1>1, <1>3 DEF MasterInv
<1>9. ASSUME NEW s \in Slave PROVE Kept(s)'
  <2>1. Quiet(s)
    <3>1. Still(s)
      BY <1>2, <1>3 DEF Still
    <3>2. call.msg <= call'.msg
      BY <1>3, SlaveTypes
    <3> QED
      BY <1>3, <3>1, <3>2 DEF Quiet
  <2>2. call' \in [msg : 0..MaxMsg, to : 0..127, read : BOOLEAN]
    BY <1>1, <1>3 DEF BusTypeOK
  <2> QED
    BY <2>1, <2>2, QuietKeeps
<1> QED
  BY <1>5, <1>7, <1>8, <1>9 DEF AllKept, MasterSide

\* busScan goes past a reserved address.
LEMMA Skips ==
  ASSUME IInv, Skip
  PROVE  AllKept'
<1>1. WireTypeOK /\ IrqTypeOK /\ BusTypeOK /\ MasterTypeOK /\ MasterInv
  BY DEF IInv, TypeOK
<1>2. /\ at = "scan" /\ scan < Len(Scanned) /\ scan' = scan + 1
      /\ UNCHANGED <<mode, txAddress, buf, pos, raw, rx, tx, irq, transfer_in_progress, handled, cuts,
                     bus, at, found, call, result, timeouts, late, overrun, written>>
  BY DEF Skip, slaveVars, wireVars, irqVars, calls, history
<1>3. WireTypeOK' /\ IrqTypeOK'
  BY <1>1, <1>2 DEF WireTypeOK, IrqTypeOK
<1>4. scan' \in Nat /\ scan' <= Len(Scanned) + Len(found')
  <2> DEFINE k == Len(Scanned)
             n == Len(found)
  <2>1. k \in Nat /\ n \in Nat /\ scan \in Nat /\ scan < k
    BY <1>1, <1>2, BusAssumption, Element DEF BusTypeOK
  <2>2. scan + 1 \in Nat /\ scan + 1 <= k + n
    <3> HIDE DEF k, n
    <3> QED
      BY <2>1
  <2> QED
    BY <1>2, <2>2
<1>5. BusTypeOK'
  BY <1>1, <1>2, <1>4 DEF BusTypeOK
<1>6. MasterTypeOK'
  BY <1>1, <1>2, <1>4 DEF MasterTypeOK
<1>7. MasterInv'
  BY <1>1, <1>2 DEF MasterInv
<1>8. ASSUME NEW s \in Slave PROVE Kept(s)'
  <2>1. Quiet(s)
    <3>1. Still(s) /\ call.msg <= call'.msg
      BY <1>2, SlaveTypes DEF Still
    <3> QED
      BY <1>2, <3>1 DEF Quiet
  <2>2. call' \in [msg : 0..MaxMsg, to : 0..127, read : BOOLEAN]
    BY <1>1, <1>2 DEF BusTypeOK
  <2> QED
    BY <2>1, <2>2, QuietKeeps
<1> QED
  BY <1>3, <1>5, <1>6, <1>7, <1>8 DEF AllKept, MasterSide

\* readData takes the bytes over.
LEMMA Gets ==
  ASSUME IInv, Got
  PROVE  AllKept'
<1>1. WireTypeOK /\ IrqTypeOK /\ BusTypeOK /\ MasterTypeOK /\ MasterInv
  BY DEF IInv, TypeOK
<1>2. M \in Board /\ \A s \in Slave : s \in Board /\ s # M
  BY Boards
<1>3. /\ at = "got" /\ at' = "scan" /\ pos' = [pos EXCEPT ![M] = Len(buf[M])]
      /\ UNCHANGED <<mode, txAddress, buf, raw, rx, tx, irq, transfer_in_progress, handled, cuts, bus, scan,
                     found, call, result, timeouts, late, overrun, written>>
  BY DEF Got, ReadAll, Goes, irqVars, calls, history
<1>4. Len(buf[M]) \in Nat
  BY <1>1, <1>2, Element DEF WireTypeOK
<1>5. WireTypeOK' /\ IrqTypeOK' /\ BusTypeOK'
  <2>1. WireTypeOK'
    BY <1>1, <1>3, <1>4 DEF WireTypeOK
  <2>2. IrqTypeOK'
    BY <1>1, <1>3 DEF IrqTypeOK
  <2>3. BusTypeOK'
    BY <1>1, <1>3 DEF BusTypeOK
  <2> QED
    BY <2>1, <2>2, <2>3
<1>6. pos'[M] \in 0..Len(buf'[M])
  <2> DEFINE n == Len(buf[M])
  <2>1. n \in Nat /\ pos'[M] = n /\ Len(buf'[M]) = n
    BY <1>1, <1>2, <1>3, <1>4 DEF WireTypeOK
  <2> HIDE DEF n
  <2> QED
    BY <2>1
<1>7. MasterTypeOK'
  BY <1>1, <1>3, <1>6 DEF MasterTypeOK, BusTypeOK
<1>8. MasterInv'
  BY <1>1, <1>3 DEF MasterInv
<1>9. ASSUME NEW s \in Slave PROVE Kept(s)'
  <2>1. Quiet(s)
    <3>1. Still(s) /\ call.msg <= call'.msg
      BY <1>2, <1>3, SlaveTypes DEF Still
    <3> QED
      BY <1>3, <3>1 DEF Quiet
  <2>2. call' \in [msg : 0..MaxMsg, to : 0..127, read : BOOLEAN]
    BY <1>1, <1>3 DEF BusTypeOK
  <2> QED
    BY <2>1, <2>2, QuietKeeps
<1> QED
  BY <1>5, <1>7, <1>8, <1>9 DEF AllKept, MasterSide

\* A message to one of the slaves found is written.
LEMMA Writes ==
  ASSUME IInv, Configure \/ Work
  PROVE  AllKept'
<1>1. BusTypeOK /\ MasterTypeOK
  BY DEF IInv, TypeOK
<1> DEFINE k == Len(Scanned)
           n == Len(found)
<1>2. k \in Nat /\ n \in Nat /\ scan \in Nat /\ scan <= k + n
  BY <1>1, BusAssumption, Element DEF BusTypeOK, MasterTypeOK
<1>3. \A i \in 1..n : found[i] \in 0..127
  BY <1>1, Element DEF BusTypeOK
<1>4. \E a \in 0..127, c \in Command :
        WriteCmd(a, c) /\ at = "scan" /\ scan' \in Nat /\ scan' <= k + n
  <2>1. CASE Configure
    <3> DEFINE j == scan - k + 1
    <3>1. PICK c \in Command : WriteCmd(found[j], c)
      BY <2>1 DEF Configure
    <3>2. at = "scan" /\ scan >= k /\ scan < k + n /\ scan' = scan + 1
      BY <2>1 DEF Configure, Configured
    <3>3. j \in 1..n /\ scan' \in Nat /\ scan' <= k + n
      <4> HIDE DEF k, n
      <4> QED
        BY <1>2, <3>2
    <3> HIDE DEF j
    <3> QED
      BY <1>3, <3>1, <3>2, <3>3
  <2>2. CASE Work
    <3>1. at = "scan" /\ scan' = scan
      BY <2>2 DEF Work
    <3>2. PICK i \in DOMAIN found, c \in Command : WriteCmd(found[i], c)
      BY <2>2 DEF Work
    <3>3. i \in 1..n
      BY <1>1, <3>2 DEF BusTypeOK
    <3> QED
      BY <1>2, <1>3, <3>1, <3>2, <3>3
  <2> QED
    BY <2>1, <2>2
<1>5. PICK a \in 0..127, c \in Command :
        WriteCmd(a, c) /\ at = "scan" /\ scan' \in Nat /\ scan' <= Len(Scanned) + Len(found)
  BY <1>4
<1>6. /\ MasterSide' /\ bus = NoTransfer /\ bus' = bus /\ at' = "write" /\ call'.msg = call.msg + 1
      /\ \A s \in Slave : Still(s)
  BY <1>5, CmdWritten
<1>7. ASSUME NEW s \in Slave PROVE Kept(s)'
  <2>1. ASSUME NEW i \in 1..Len(written[s]) PROVE written[s][i].msg < call'.msg
    <3>1. written[s][i].msg <= call.msg /\ written[s][i] \in Byte /\ call.msg \in Int
      BY SlaveTypes, Element DEF Kept, SlaveInv, NumberInv
    <3> QED
      BY <1>6, <3>1 DEF Byte
  <2>2. call.msg <= call'.msg
    BY <1>6, SlaveTypes
  <2>3. Quiet(s)
    BY <1>6, <2>1, <2>2 DEF Quiet, Ongoing, NoTransfer
  <2>4. call' \in [msg : 0..MaxMsg, to : 0..127, read : BOOLEAN]
    BY <1>6 DEF MasterSide, BusTypeOK
  <2> QED
    BY <2>3, <2>4, QuietKeeps
<1> QED
  BY <1>6, <1>7 DEF AllKept

\* The bytes a read waits for.
LEMMA Waits ==
  /\ <<Wanted>> \in Seq(Byte) /\ Len(<<Wanted>>) = 1
  /\ LET bytes == [i \in 1..Count(ReadLen) |-> Wanted]
     IN  bytes \in Seq(Byte) /\ Len(bytes) = Count(ReadLen) /\ Count(ReadLen) \in Nat /\ Count(ReadLen) <= Length
<1>1. Wanted \in Byte
  BY Numbers DEF Wanted, Byte
<1>2. Count(ReadLen) \in Nat /\ Count(ReadLen) <= Length
  BY Numbers DEF Count
<1> DEFINE k == Count(ReadLen)
           x == Wanted
<1>3. <<x>> \in Seq(Byte) /\ Len(<<x>>) = 1
  <2> HIDE DEF x
  <2> QED
    BY <1>1 DEF x
<1>4. [i \in 1..k |-> x] \in Seq(Byte) /\ Len([i \in 1..k |-> x]) = k
  <2>1. k \in Nat /\ x \in Byte
    BY <1>1, <1>2
  <2> HIDE DEF k, x
  <2>2. [i \in 1..k |-> x] \in [1..k -> Byte]
    BY <2>1
  <2> QED
    BY <2>1, <2>2
<1> QED
  BY <1>2, <1>3, <1>4

\* The SDK is called for a transfer: START.
LEMMA TransferBegins ==
  ASSUME IInv, Probe \/ StartWrite \/ StartRead
  PROVE  AllKept'
<1>1. WireTypeOK /\ IrqTypeOK /\ BusTypeOK /\ MasterTypeOK /\ MasterInv /\ TypeOK
  BY DEF IInv, TypeOK
<1> DEFINE dir == IF at = "write" THEN "write" ELSE "read"
           a == IF at = "write" THEN txAddress[M] ELSE IF at = "read" THEN call.to ELSE Scanned[scan + 1]
           todo == IF at = "write" THEN buf[M]
                   ELSE IF at = "read" THEN [i \in 1..Count(ReadLen) |-> Wanted] ELSE <<Wanted>>
<1>2. /\ Start(dir, a, todo) /\ UNCHANGED <<wireVars, scan, found, call, result, timeouts, written>>
      /\ \/ at = "scan" /\ at' = "probe" /\ scan < Len(Scanned)
         \/ at = "write" /\ at' = "writing"
         \/ at = "read" /\ at' = "reading"
  <2>1. CASE Probe
    BY <2>1 DEF Probe, Goes
  <2>2. CASE StartWrite
    BY <2>2 DEF StartWrite, Goes
  <2>3. CASE StartRead
    BY <2>3 DEF StartRead, Goes
  <2> QED
    BY <2>1, <2>2, <2>3
<1>3. /\ todo \in Seq(Byte) /\ Len(todo) \in Nat
      /\ at = "write" => todo = buf[M] /\ Len(todo) <= Longest /\ Of(todo, call.msg)
      /\ at # "write" => Len(todo) <= Length
  <2>1. CASE at = "write"
    <3>1. buf[M] \in Seq(Byte) /\ Len(buf[M]) <= Longest /\ Of(buf[M], call.msg)
      BY <1>1, <2>1, Boards DEF WireTypeOK, MasterInv
    <3> QED
      BY <2>1, <3>1, Element
  <2>2. CASE at = "read"
    BY <2>2, Waits
  <2>3. CASE at \notin {"write", "read"}
    <3>1. todo = <<Wanted>>
      BY <2>3
    <3>2. 1 <= Length /\ 1 \in Nat
      BY Numbers
    <3> QED
      BY <2>3, <3>1, <3>2, Waits
  <2> QED
    BY <2>1, <2>2, <2>3
<1>4. dir \in {"write", "read"} /\ (at = "write" <=> dir = "write") /\ (at = "read" => a = call.to)
  OBVIOUS
<1> HIDE DEF dir, a, todo
<1>5. WireTypeOK' /\ IrqTypeOK' /\ BusTypeOK'
  BY <1>1, <1>2, <1>3, <1>4, StartTypes
<1>6. /\ bus = NoTransfer /\ bus' = [dir |-> dir, by |-> At(a), todo |-> todo, got |-> <<>>]
      /\ \A s \in At(a) : Up(s) /\ Address(s) = a /\ s \in Slave
      /\ \A s \in Slave : /\ Started(s, dir, At(a))
                          /\ Up(s) /\ Address(s) = a => s \in At(a)
                          /\ Up(s)' = Up(s)
  BY <1>1, <1>2, <1>4, Starts
<1>7. /\ UNCHANGED <<txAddress, buf, pos, call, scan, found>>
      /\ bus'.dir = dir /\ bus'.by = At(a) /\ bus'.todo = todo /\ bus'.got = <<>>
  BY <1>2, <1>6 DEF wireVars
<1>8. MasterTypeOK'
  BY <1>1, <1>2, <1>4, <1>7 DEF MasterTypeOK
<1>9. MasterInv'
  <2>1. \A s, t \in bus'.by : s = t
    BY <1>7, OneAddress
  <2>2. Len(bus'.got) + Len(bus'.todo) = Len(todo)
    <3>1. Len(bus'.got) = 0
      BY <1>7, NoBytes
    <3> QED
      BY <1>3, <1>7, <3>1
  <2> QED
    BY <1>1, <1>2, <1>3, <1>7, <2>1, <2>2 DEF MasterInv
<1>10. ASSUME NEW s \in Slave PROVE Kept(s)'
  <2> DEFINE by == At(a)
  <2>1. /\ Started(s, dir, by) /\ bus'.by = by /\ (s \in by => Up(s))
        /\ UNCHANGED <<wireVars, call>>
    BY <1>2, <1>6, <1>7
  <2>2. /\ dir = "write" => at = "write" /\ at' = "writing"
        /\ dir = "read" => at' \in {"probe", "reading"}
        /\ at' = "reading" /\ Up(s) /\ Address(s) = call.to => s \in by
    BY <1>2, <1>4, <1>6
  <2> HIDE DEF by
  <2> QED
    BY <1>4, <1>6, <1>7, <2>1, <2>2, StartKeeps
<1> QED
  BY <1>5, <1>8, <1>9, <1>10 DEF AllKept, MasterSide

\* The SDK's result of a transfer.
LEMMA TransferIsOver ==
  ASSUME IInv, Probed \/ Written \/ ReadDone
  PROVE  AllKept'
<1>1. WireTypeOK /\ IrqTypeOK /\ BusTypeOK /\ MasterTypeOK /\ MasterInv /\ TypeOK
  BY DEF IInv, TypeOK
<1>2. M \in Board /\ \A s \in Slave : s \in Board /\ s # M
  BY Boards
<1>3. Done
  BY DEF Probed, Written, ReadDone
<1>4. /\ IrqTypeOK' /\ result' \in Int /\ timeouts' \in 0..MaxTimeout /\ bus' = NoTransfer
      /\ bus' \in [dir : {"none", "write", "read"}, by : SUBSET Slave, todo : Seq(Byte), got : Seq(Byte)]
      /\ late' \in [Slave -> 0..2] /\ overrun' = overrun /\ written' = written
  BY <1>1, <1>3, OverTypes
<1> DEFINE q == IF at = "probe" THEN buf[M]
                ELSE IF at = "writing" \/ result' < 0 \/ Len(bus.got) = Length THEN <<>> ELSE bus.got
           n == IF at = "writing" THEN NoAddress ELSE txAddress[M]
           p == IF at = "reading" THEN 0 ELSE pos[M]
<1>5. /\ at \in {"probe", "writing", "reading"} /\ mode' = mode /\ call' = call
      /\ at = "probe" => at' = "scan" /\ scan' = scan + 1 /\ found' \in Seq(0..127)
                         /\ Len(found') >= Len(found)
      /\ at # "probe" => scan' = scan /\ found' = found
      /\ at = "writing" => at' \in {"read", "scan"}
      /\ at = "reading" => at' = "got"
      /\ buf' = [buf EXCEPT ![M] = q] /\ txAddress' = [txAddress EXCEPT ![M] = n]
      /\ pos' = [pos EXCEPT ![M] = p]
  <2>1. CASE Probed
    <3>1. /\ at = "probe" /\ at' = "scan" /\ scan' = scan + 1 /\ UNCHANGED <<mode, txAddress, buf, pos, call>>
          /\ found' = IF result' > 0 THEN Append(found, Scanned[scan + 1]) ELSE found
      BY <2>1 DEF Probed, Goes, wireVars
    <3>2. found' \in Seq(0..127) /\ Len(found') >= Len(found)
      <4>1. found \in Seq(0..127) /\ Scanned[scan + 1] \in 0..127 /\ Len(found) \in Nat
        <5>1. scan \in Nat /\ scan < Len(Scanned) /\ Scanned \in Seq(0..127) /\ found \in Seq(0..127)
          BY <1>1, <3>1, BusAssumption DEF MasterTypeOK, BusTypeOK
        <5>2. scan + 1 \in 1..Len(Scanned)
          BY <5>1, Element
        <5> QED
          BY <5>1, <5>2, Element
      <4> DEFINE x == Scanned[scan + 1]
                 f == found
      <4>2. Append(f, x) \in Seq(0..127) /\ Len(Append(f, x)) = Len(f) + 1
        <5> HIDE DEF x, f
        <5> QED
          BY <4>1, Behindmost DEF x, f
      <4> QED
        BY <3>1, <4>1, <4>2
    <3> QED
      BY <1>1, <3>1, <3>2 DEF WireTypeOK
  <2>2. CASE Written
    <3>1. /\ at = "writing" /\ at' \in {"read", "scan"} /\ UNCHANGED <<mode, pos, scan, found, call>>
          /\ buf' = [buf EXCEPT ![M] = <<>>] /\ txAddress' = [txAddress EXCEPT ![M] = NoAddress]
      BY <2>2 DEF Written, EndTransmission, Goes
    <3> QED
      BY <1>1, <3>1 DEF WireTypeOK
  <2>3. CASE ReadDone
    <3>1. /\ at = "reading" /\ at' = "got" /\ UNCHANGED <<mode, txAddress, scan, found, call>>
          /\ buf' = [buf EXCEPT ![M] = IF result' < 0 \/ Len(bus.got) = Length THEN <<>> ELSE bus.got]
          /\ pos' = [pos EXCEPT ![M] = 0]
      BY <2>3 DEF ReadDone, Requested, Goes
    <3> QED
      BY <1>1, <3>1 DEF WireTypeOK
  <2> QED
    BY <2>1, <2>2, <2>3
<1>6. /\ q \in Seq(Byte) /\ Len(q) < Length /\ n \in 0..NoAddress /\ p \in Nat /\ p \in 0..Len(q) /\ n = NoAddress
      /\ at = "reading" => q \in {<<>>, bus.got} /\ p = 0
  <2>1. CASE at = "probe"
    <3>1. buf[M] \in Seq(Byte) /\ Len(buf[M]) < Length /\ txAddress[M] = NoAddress /\ pos[M] \in 0..Len(buf[M])
          /\ pos[M] \in Nat
      BY <1>1, <1>2, <2>1 DEF WireTypeOK, MasterTypeOK
    <3> QED
      BY <2>1, <3>1 DEF NoAddress
  <2>2. CASE at = "writing"
    <3>1. pos[M] = 0 /\ Len(<<>>) = 0 /\ <<>> \in Seq(Byte)
      BY <1>1, <2>2, NoBytes DEF MasterInv
    <3> QED
      BY <2>2, <3>1, Numbers DEF NoAddress
  <2>3. CASE at = "reading"
    <3>1. /\ bus.got \in Seq(Byte) /\ bus.todo \in Seq(Byte) /\ txAddress[M] = NoAddress
          /\ Len(bus.got) + Len(bus.todo) <= Length /\ Len(<<>>) = 0 /\ <<>> \in Seq(Byte)
      BY <1>1, <2>3, NoBytes DEF MasterInv, MasterTypeOK, BusTypeOK
    <3> DEFINE c == Len(bus.got)
               d == Len(bus.todo)
    <3>2. c \in Nat /\ d \in Nat /\ c + d <= Length
      BY <3>1, Element
    <3>3. c # Length => c < Length
      <4> HIDE DEF c, d
      <4> QED
        BY <3>2, Numbers
    <3>4. q \in {<<>>, bus.got} /\ Len(q) < Length /\ q \in Seq(Byte) /\ Len(q) \in Nat
      <4>1. CASE q = <<>>
        <5>1. Len(q) = 0 /\ q \in Seq(Byte)
          BY <3>1, <4>1
        <5> QED
          BY <4>1, <5>1, Numbers
      <4>2. CASE q # <<>>
        <5>1. q = bus.got /\ c # Length
          BY <2>3, <4>2
        <5>2. Len(q) < Length /\ Len(q) \in Nat
          BY <3>2, <3>3, <5>1
        <5> QED
          BY <3>1, <5>1, <5>2
      <4> QED
        BY <4>1, <4>2
    <3> HIDE DEF q
    <3> QED
      BY <2>3, <3>1, <3>4 DEF NoAddress
  <2> QED
    BY <1>5, <2>1, <2>2, <2>3
<1> HIDE DEF q, n, p
<1>7. WireTypeOK'
  BY <1>1, <1>5, <1>6 DEF WireTypeOK
<1>8. /\ buf'[M] = q /\ txAddress'[M] = NoAddress /\ pos'[M] = p
      /\ \A s \in Slave : buf'[s] = buf[s] /\ txAddress'[s] = txAddress[s] /\ pos'[s] = pos[s]
  BY <1>1, <1>2, <1>5, <1>6 DEF WireTypeOK
<1>9. scan' \in Nat /\ scan' <= Len(Scanned) + Len(found') /\ found' \in Seq(0..127)
  <2>1. scan \in Nat /\ scan <= Len(Scanned) + Len(found) /\ found \in Seq(0..127)
        /\ (at = "probe" => scan < Len(Scanned))
    BY <1>1 DEF MasterTypeOK, BusTypeOK
  <2>2. found' \in Seq(0..127)
    BY <1>5, <2>1
  <2> DEFINE k == Len(Scanned)
             f == Len(found)
             g == Len(found')
  <2>3. k \in Nat /\ f \in Nat /\ g \in Nat
    BY <2>1, <2>2, BusAssumption, Element
  <2>4. scan' \in Nat /\ scan' <= k + g
    <3>1. CASE at = "probe"
      <4>1. scan' = scan + 1 /\ scan < k
        BY <1>5, <2>1, <3>1
      <4> HIDE DEF k, f, g
      <4> QED
        BY <2>1, <2>3, <4>1
    <3>2. CASE at # "probe"
      BY <1>5, <2>1, <3>2
    <3> QED
      BY <3>1, <3>2
  <2> QED
    BY <2>2, <2>4
<1>10. BusTypeOK'
  <2>1. at' \in {"scan", "read", "got"} /\ call' \in [msg : 0..MaxMsg, to : 0..127, read : BOOLEAN]
    BY <1>1, <1>5 DEF BusTypeOK
  <2> QED
    BY <1>1, <1>4, <1>9, <2>1 DEF BusTypeOK
<1>11. MasterTypeOK'
  <2>1. bus'.dir = "none" /\ at' \in {"scan", "read", "got"}
    BY <1>4, <1>5 DEF NoTransfer
  <2> QED
    BY <1>4, <1>6, <1>8, <1>9, <2>1 DEF MasterTypeOK
<1>12. MasterInv'
  <2>1. bus'.by = {} /\ at' \in {"scan", "read", "got"} /\ (at' = "got" => at = "reading")
    BY <1>4, <1>5 DEF NoTransfer
  <2> QED
    BY <1>6, <1>8, <2>1 DEF MasterInv
<1>13. ASSUME NEW s \in Slave PROVE Kept(s)'
  <2>1. Ended(s)
    BY <1>3, <1>5, EndsTransfer
  <2>2. at' = "got" => at = "reading" /\ bus.dir = "read" /\ buf'[M] \in {<<>>, bus.got}
    BY <1>1, <1>5, <1>6, <1>8 DEF MasterTypeOK
  <2>3. at' \in {"scan", "read", "got"} /\ UNCHANGED <<mode, call>>
    BY <1>5
  <2> QED
    BY <1>4, <1>8, <2>1, <2>2, <2>3, OverKeeps
<1> QED
  BY <1>4, <1>7, <1>10, <1>11, <1>12, <1>13 DEF AllKept, MasterSide

-----------------------------------------------------------------------------
(* Every step *)

\* A step of one slave is none of another.
LEMMA OthersKeep ==
  ASSUME IInv, NEW s \in Slave, Only(s), UNCHANGED <<at, call, bus>>, NEW t \in Slave, t # s
  PROVE  Kept(t)'
<1>1. Still(t) /\ buf'[M] = buf[M] /\ SlaveInv(t) /\ call.msg <= call'.msg
  BY SlaveTypes DEF Only, MasterStill, Kept
<1>2. Quiet(t)
  BY <1>1 DEF Quiet, SlaveInv, NumberInv
<1>3. call' \in [msg : 0..MaxMsg, to : 0..127, read : BOOLEAN]
  BY DEF IInv, TypeOK, BusTypeOK
<1> QED
  BY <1>2, <1>3, QuietKeeps

\* A step of a slave.
LEMMA SlaveKeeps ==
  ASSUME IInv, NEW s \in Slave, SlaveStep(s)
  PROVE  AllKept'
<1>1. TypeOK /\ BytesInv(s)
  BY DEF IInv, SlaveInv
<1>2. UNCHANGED <<masterVars, bus, history>> /\ UNCHANGED <<at, call, bus, scan, found>>
  BY DEF SlaveStep, masterVars
<1>3. Only(s) /\ WireTypeOK' /\ IrqTypeOK' /\ Kept(s)'
  <2>1. CASE SlaveBegin(s)
    BY <1>1, <1>2, <2>1, SlaveBegins, BeginKeeps
  <2>2. CASE IrqEnter(s)
    <3>1. Handles(s)
      BY <1>1, <1>2, <2>2, IrqEnters
    <3> QED
      BY <1>2, <2>2, <3>1, EnterKeeps DEF Handles
  <2>3. CASE \E bit \in Ends : Finish(s, bit)
    <3>1. PICK bit \in Ends : Finish(s, bit)
      BY <2>3
    <3>2. Handles(s)
      BY <1>2, <3>1, FinishFrame
    <3> QED
      BY <1>2, <3>1, <3>2, FinishKeeps DEF Handles
  <2>4. CASE Receive(s)
    <3>1. Handles(s)
      BY <1>1, <1>2, <2>4, Receives
    <3> QED
      BY <1>2, <2>4, <3>1, ReceiveKeeps DEF Handles
  <2>5. CASE Request(s)
    <3>1. Handles(s)
      BY <1>1, <1>2, <2>5, Requests
    <3> QED
      BY <1>2, <2>5, <3>1, RequestKeeps DEF Handles
  <2> QED
    BY <2>1, <2>2, <2>3, <2>4, <2>5 DEF SlaveStep, Interrupt
<1>4. BusTypeOK'
  BY <1>1, <1>2, HandlerAlone
<1>5. MasterSide'
  BY <1>2, <1>3, <1>4, MasterStands DEF Only
<1>6. ASSUME NEW t \in Slave PROVE Kept(t)'
  BY <1>2, <1>3, OthersKeep
<1> QED
  BY <1>5, <1>6 DEF AllKept

\* A byte on the wires.
LEMMA WiresKeep ==
  ASSUME IInv, Wires
  PROVE  AllKept'
<1>1. MasterSide'
  BY BytesMove
<1>2. CASE SendByte
  <2>1. PICK s \in bus.by :
          /\ bus.by = {s} /\ s \in Slave /\ bus.dir = "write" /\ at = "writing"
          /\ UNCHANGED <<at, call>> /\ bus'.dir = "write" /\ bus'.by = bus.by
          /\ \E x \in Byte :
               /\ x.msg = call.msg
               /\ written'[s] = Append(written[s], x)
               /\ rx'[s] = (IF Len(rx[s]) < RxDepth THEN Append(rx[s], x) ELSE rx[s])
               /\ overrun'[s] = (overrun[s] \/ Len(rx[s]) = RxDepth)
          /\ Len(bus'.got) = Len(bus.got) + 1 /\ bus'.got # <<>>
          /\ raw'[s] = raw[s] /\ irq'[s] = irq[s]
          /\ tx'[s] = tx[s] /\ transfer_in_progress'[s] = transfer_in_progress[s]
          /\ handled'[s] = handled[s] /\ cuts'[s] = cuts[s] /\ late'[s] = late[s]
          /\ Only(s) /\ UNCHANGED <<wireVars, masterVars>>
    BY <1>2, ByteSent
  <2>2. Kept(s)'
    BY <2>1, SentKeeps
  <2>3. ASSUME NEW t \in Slave, t # s PROVE Kept(t)'
    <3>1. Still(t) /\ buf'[M] = buf[M] /\ t \notin bus.by /\ call.msg <= call'.msg
      BY <2>1, <2>3, SlaveTypes DEF Only, MasterStill
    <3>2. Quiet(t)
      BY <2>1, <3>1 DEF Quiet, Ongoing
    <3>3. call' \in [msg : 0..MaxMsg, to : 0..127, read : BOOLEAN]
      BY <1>1 DEF MasterSide, BusTypeOK
    <3> QED
      BY <3>2, <3>3, QuietKeeps
  <2> QED
    BY <1>1, <2>2, <2>3 DEF AllKept
<1>3. CASE TakeByte
  <2>1. PICK s \in bus.by :
          /\ bus.by = {s} /\ s \in Slave /\ bus.dir = "read" /\ at \in {"probe", "reading"}
          /\ UNCHANGED <<at, call>> /\ bus'.dir = "read" /\ bus'.by = bus.by
          /\ tx[s] # <<>> /\ tx'[s] = Tail(tx[s]) /\ bus'.got = Append(bus.got, Head(tx[s]))
          /\ raw'[s] = raw[s] \/ raw'[s] = raw[s] \cup {"RD_REQ"}
          /\ rx'[s] = rx[s] /\ irq'[s] = irq[s]
          /\ transfer_in_progress'[s] = transfer_in_progress[s] /\ UNCHANGED history
          /\ handled'[s] = handled[s] /\ cuts'[s] = cuts[s]
          /\ Only(s) /\ UNCHANGED <<wireVars, masterVars>>
    BY <1>3, ByteTaken
  <2>2. Kept(s)'
    BY <2>1, TakenKeeps
  <2>3. ASSUME NEW t \in Slave, t # s PROVE Kept(t)'
    <3>1. Still(t) /\ buf'[M] = buf[M] /\ t \notin bus.by /\ call.msg <= call'.msg
      BY <2>1, <2>3, SlaveTypes DEF Only, MasterStill
    <3>2. Quiet(t)
      BY <2>1, <3>1 DEF Quiet, Ongoing
    <3>3. call' \in [msg : 0..MaxMsg, to : 0..127, read : BOOLEAN]
      BY <1>1 DEF MasterSide, BusTypeOK
    <3> QED
      BY <3>2, <3>3, QuietKeeps
  <2> QED
    BY <1>1, <2>2, <2>3 DEF AllKept
<1> QED
  BY <1>2, <1>3 DEF Wires

\* Nothing has moved at first.
LEMMA AtFirst ==
  ASSUME Init
  PROVE  IInv
<1>1. M \in Board /\ \A s \in Slave : s \in Board /\ s # M
  BY Boards
<1>2. /\ mode = [b \in Board |-> "Unassigned"] /\ txAddress = [b \in Board |-> NoAddress]
      /\ buf = [b \in Board |-> <<>>] /\ pos = [b \in Board |-> 0]
      /\ at = "off" /\ scan = 0 /\ found = <<>> /\ bus = NoTransfer
      /\ call = [msg |-> 0, to |-> 0, read |-> FALSE] /\ result = 0 /\ timeouts = 0
  BY DEF Init, WireInit
<1>3. WireTypeOK
  BY <1>2, NoBytes DEF WireTypeOK, NoAddress
<1>4. IrqTypeOK
  BY NoBytes DEF Init, IrqInit, IrqTypeOK
<1>5. BusTypeOK
  <2>1. NoTransfer \in [dir : {"none", "write", "read"}, by : SUBSET Slave, todo : Seq(Byte), got : Seq(Byte)]
    BY NoBytes DEF NoTransfer
  <2>2. 0 \in 0..MaxMsg /\ 0 \in 0..MaxTimeout
    BY Numbers
  <2>3. late \in [Slave -> 0..2] /\ overrun \in [Slave -> BOOLEAN] /\ written \in [Slave -> Seq(Byte)]
    BY NoBytes DEF Init
  <2>4. call \in [msg : 0..MaxMsg, to : 0..127, read : BOOLEAN]
    BY <1>2, <2>2
  <2>5. found \in Seq(0..127)
    BY <1>2, NoBytes
  <2> QED
    BY <1>2, <2>1, <2>2, <2>3, <2>4, <2>5 DEF BusTypeOK
<1>6. MasterTypeOK
  <2>1. buf[M] = <<>> /\ pos[M] = 0 /\ txAddress[M] = NoAddress /\ Len(<<>>) = 0
    BY <1>1, <1>2, NoBytes
  <2>2. scan <= Len(Scanned) + Len(found)
    <3>1. Len(Scanned) \in Nat /\ Len(found) = 0
      BY <1>2, NoBytes, BusAssumption, Element
    <3> QED
      BY <1>2, <3>1
  <2> QED
    BY <1>2, <2>1, <2>2, Numbers DEF MasterTypeOK, NoTransfer
<1>7. MasterInv
  BY <1>2 DEF MasterInv, NoTransfer
<1>8. ASSUME NEW s \in Slave PROVE SlaveTypeOK(s) /\ SlaveInv(s)
  <2>1. /\ txAddress[s] = NoAddress /\ pos[s] = 0 /\ buf[s] = <<>> /\ mode[s] = "Unassigned"
        /\ raw[s] = {} /\ irq[s] = {} /\ rx[s] = <<>> /\ tx[s] = <<>> /\ transfer_in_progress[s] = FALSE
        /\ handled[s] = <<>> /\ cuts[s] = {} /\ late[s] = 0 /\ overrun[s] = FALSE /\ written[s] = <<>>
        /\ Len(<<>>) = 0 /\ bus.by = {} /\ bus.dir = "none"
    BY <1>1, <1>2, NoBytes DEF Init, IrqInit, NoTransfer
  <2>2. ~Ongoing(s) /\ ~Asked(s) /\ \A m : Of(<<>>, m)
    BY <2>1 DEF Ongoing, Asked, Of
  <2>3. SlaveTypeOK(s)
    BY <2>1, Numbers DEF SlaveTypeOK
  <2>4. DownInv(s)
    BY <2>1 DEF DownInv
  <2>5. BytesInv(s)
    <3>1. (<<>> \o <<>>) \o <<>> = <<>>
      OBVIOUS
    <3>2. 0 + 0 <= RxDepth + Longest
      BY MessageRoom, Numbers
    <3> QED
      BY <2>1, <2>2, <3>1, <3>2 DEF BytesInv
  <2>6. NumberInv(s)
    BY <1>2, <2>1, <2>2 DEF NumberInv
  <2>7. OrderInv(s)
    BY <2>1, <2>2 DEF OrderInv
  <2>8. AnswerInv(s)
    BY <1>2, <2>1, <2>2 DEF AnswerInv
  <2>9. WholeInv(s)
    BY <2>1, <2>2 DEF WholeInv
  <2> QED
    BY <2>1, <2>3, <2>4, <2>5, <2>6, <2>7, <2>8, <2>9 DEF SlaveInv
<1> QED
  BY <1>3, <1>4, <1>5, <1>6, <1>7, <1>8 DEF IInv, TypeOK

\* Every step keeps the invariant.
LEMMA StepKeeps ==
  ASSUME IInv, [Next]_vars
  PROVE  IInv'
<1>1. CASE Next
  <2>1. AllKept'
    <3>1. CASE Master
      BY <3>1, MasterBegins, Skips, Gets, Writes, TransferBegins, TransferIsOver DEF Master
    <3>2. CASE Wires
      BY <3>2, WiresKeep
    <3>3. CASE \E s \in Slave : SlaveStep(s)
      BY <3>3, SlaveKeeps
    <3> QED
      BY <1>1, <3>1, <3>2, <3>3 DEF Next
  <2> QED
    BY <2>1 DEF AllKept, MasterSide, Kept, IInv, TypeOK
<1>2. CASE UNCHANGED vars
  <2>1. UNCHANGED <<mode, txAddress, buf, pos, raw, rx, tx, irq, transfer_in_progress, handled, cuts,
                    at, scan, found, call, result, timeouts, bus, late, overrun, written>>
    BY <1>2 DEF vars, slaveVars, wireVars, irqVars, calls, masterVars, history
  <2>2. TypeOK'
    <3>1. WireTypeOK' /\ IrqTypeOK' /\ BusTypeOK' /\ MasterTypeOK'
      BY <2>1 DEF IInv, TypeOK, WireTypeOK, IrqTypeOK, BusTypeOK, MasterTypeOK
    <3>2. \A s \in Slave : SlaveTypeOK(s)'
      BY <2>1 DEF IInv, TypeOK, SlaveTypeOK
    <3> QED
      BY <3>1, <3>2 DEF TypeOK
  <2>3. MasterInv'
    BY <2>1 DEF IInv, MasterInv, Of
  <2>4. ASSUME NEW s \in Slave PROVE SlaveInv(s)'
    <3>1. Still(s) /\ call.msg <= call'.msg /\ SlaveInv(s)
      BY <2>1, SlaveTypes DEF Still, Kept
    <3>2. Quiet(s)
      BY <2>1, <3>1 DEF Quiet, SlaveInv, NumberInv
    <3>3. call' \in [msg : 0..MaxMsg, to : 0..127, read : BOOLEAN]
      BY <2>1 DEF IInv, TypeOK, BusTypeOK
    <3> QED
      BY <3>2, <3>3, QuietKeeps DEF Kept
  <2> QED
    BY <2>2, <2>3, <2>4 DEF IInv
<1> QED
  BY <1>1, <1>2

\* The buffers, the FIFOs, the handler and the master always fit together: the
\* inductive invariant holds for any slaves, scan, commands and time-outs.
THEOREM I2cInvariant == Spec => []IInv
BY AtFirst, StepKeeps, PTL DEF Spec

\* No byte that a slave acknowledged is lost, doubled or moved while its FIFO had room.
THEOREM BytesKeptTheorem == Spec => []BytesKept
<1>1. IInv => BytesKept
  BY DEF IInv, SlaveInv, BytesInv, BytesKept
<1> QED
  BY <1>1, I2cInvariant, PTL

\* The receive handler never gets pieces of two messages in one call, unless
\* the next transfer began before it was done with the last.
THEOREM OneMessageTheorem == Spec => []OneMessage
<1>1. IInv => OneMessage
  BY DEF IInv, SlaveInv, OrderInv, OneMessage
<1> QED
  BY <1>1, I2cInvariant, PTL

\* A slave that was never late and lost nothing handles the messages whole.
THEOREM WholeMessagesTheorem == Spec => []WholeMessages
<1>1. ASSUME IInv PROVE WholeMessages
  <2> SUFFICES ASSUME NEW s \in Slave, late[s] = 0, ~overrun[s]
               PROVE  /\ Len(handled[s]) <= Len(written[s])
                      /\ \A i \in 1..Len(handled[s]) : /\ handled[s][i] = written[s][i]
                                                       /\ i \in cuts[s] <=> EndsAt(s, i)
    BY DEF WholeMessages
  <2>1. WholeInv(s)
    BY <1>1 DEF IInv, SlaveInv
  <2>2. Len(handled[s]) <= Len(written[s])
    <3> DEFINE h == Len(handled[s])
               b == Len(buf[s])
               r == Len(rx[s])
               w == Len(written[s])
    <3>1. w = h + b + r /\ h \in Nat /\ b \in Nat /\ r \in Nat
      BY <1>1, Places, SlaveTypes, Element
    <3>2. h <= w
      <4> HIDE DEF h, b, r, w
      <4> QED
        BY <3>1
    <3> QED
      BY <3>2
  <2>3. \A i \in 1..Len(handled[s]) : handled[s][i] = written[s][i]
    BY <1>1, Places
  <2> QED
    BY <2>1, <2>2, <2>3 DEF WholeInv
<1> QED
  BY <1>1, I2cInvariant, PTL

\* The answer that the master takes over is to the last message, unless the slave was late.
THEOREM AnswerToCommandTheorem == Spec => []AnswerToCommand
<1>1. ASSUME IInv PROVE AnswerToCommand
  <2> SUFFICES ASSUME at = "got", NEW s \in At(call.to), late[s] <= 1, written[s] # <<>>,
                      NEW i \in DOMAIN Rest(M)
               PROVE  Rest(M)[i].msg = written[s][Len(written[s])].msg
    BY DEF AnswerToCommand
  <2>1. s \in Slave /\ Address(s) = call.to
    BY DEF At
  <2>2. Of(buf[M], Latest(s))
    BY <1>1, <2>1 DEF IInv, SlaveInv, AnswerInv
  <2>3. Rest(M) = buf[M]
    <3>1. pos[M] = 0 /\ buf[M] \in Seq(Byte)
      BY <1>1, Boards DEF IInv, MasterInv, TypeOK, WireTypeOK
    <3> DEFINE q == buf[M]
    <3>2. SubSeq(q, 1, Len(q)) = q
      <4>1. q \in Seq(Byte)
        BY <3>1
      <4> HIDE DEF q
      <4> QED
        BY <4>1
    <3> QED
      BY <3>1, <3>2 DEF Rest
  <2>4. i \in 1..Len(buf[M])
    BY <1>1, <2>3, Boards DEF IInv, TypeOK, WireTypeOK
  <2> QED
    BY <2>2, <2>3, <2>4 DEF Of, Latest
<1> QED
  BY <1>1, I2cInvariant, PTL

=============================================================================
