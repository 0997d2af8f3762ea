--------------------------- MODULE SlaveLinkProofs ---------------------------
(***************************************************************************)
(* The safety of the I2C protocol between the master and a slave, and that *)
(* the cores behind it are hash workers (HashWorker), for any set of jobs, *)
(* any buffer that a line does not fill, and any number of restarts of the *)
(* master, of reads that get nothing and of lines that get lost whole      *)
(* (Gentle).                                                               *)
(***************************************************************************)
EXTENDS SlaveLink, SequenceTheorems, TLAPS

-----------------------------------------------------------------------------
(* The phases of a job in a core of the slave: what the operators on lines *)
(* return, what a step leaves alone, and that each step of the core or of  *)
(* the interrupt handler takes the job to its next phase.                  *)

USE DEF Core

\* A sequence with an element is not the empty one.
LEMMA NotEmpty == \A x : <<x>> # <<>>
<1>1. \A x : Len(<<x>>) = 1
  OBVIOUS
<1>2. Len(<<>>) = 0
  OBVIOUS
<1> QED
  BY <1>1, <1>2

\* A line is three chunks; nothing in it ends with a separator too early.
LEMMA LineFacts ==
  ASSUME NEW j
  PROVE  /\ Line(j) = Rest(j, 0) /\ Line(j) = Begun(j, 3)
         /\ Begun(j, 0) = <<>> /\ Rest(j, 3) = <<>> /\ Cut(j, 0) = <<>>
         /\ Line(j) # <<>> /\ Len(Line(j)) = 3
         /\ Line(j)[1].job = j
         /\ Has(Line(j), "\n")
<1>1. Line(j) = Rest(j, 0) /\ Line(j) = Begun(j, 3)
  BY DEF Line, Rest, Begun
<1>2. Begun(j, 0) = <<>> /\ Rest(j, 3) = <<>> /\ Cut(j, 0) = <<>>
  BY DEF Begun, Rest, Cut
<1>3. Line(j) # <<>> /\ Len(Line(j)) = 3 /\ Line(j)[1].job = j
  BY DEF Line
<1>4. 3 \in DOMAIN Line(j) /\ Line(j)[3].fld = 3
  BY DEF Line
<1> QED
  BY <1>1, <1>2, <1>3, <1>4 DEF Has, Ends

\* Storing the next chunk of a line moves it from what is left to what is there.
LEMMA StoreFacts ==
  ASSUME NEW j, NEW n \in 0..2
  PROVE  /\ Append(Begun(j, n), Head(Rest(j, n))) = Begun(j, n + 1)
         /\ Len(Begun(j, n)) = n /\ Len(Rest(j, n)) = 3 - n
         /\ n < 2 => Tail(Rest(j, n)) = Rest(j, n + 1)
         /\ ~Has(Begun(j, n), "\n")
<1>1. Len(Begun(j, n)) = n /\ Len(Rest(j, n)) = 3 - n
  BY DEF Begun, Rest
<1>2. Head(Rest(j, n)) = [job |-> j, fld |-> n + 1]
  BY <1>1 DEF Rest
<1>3. Append(Begun(j, n), [job |-> j, fld |-> n + 1]) = Begun(j, n + 1)
  BY <1>1 DEF Begun
<1>4. n < 2 => Tail(Rest(j, n)) = Rest(j, n + 1)
  BY <1>1 DEF Rest
<1>5. \A k \in DOMAIN Begun(j, n) : Begun(j, n)[k].fld # 3
  BY DEF Begun
<1>6. ~Has(Begun(j, n), "\n")
  BY <1>5 DEF Has, Ends
<1> QED
  BY <1>1, <1>2, <1>3, <1>4, <1>6

\* Of what is left of a line a readStringUntil takes just the next chunk.
LEMMA ReadFacts ==
  ASSUME NEW j, NEW n \in 0..2
  PROVE  LET s   == Rest(j, n)
             sep == Separator(n + 1)
         IN  /\ Has(s, sep)
             /\ \A k \in DOMAIN s : FirstIsAt(s, sep, k) => k = 1
             /\ SubSeq(s, 1, 1) = <<[job |-> j, fld |-> n + 1]>>
             /\ SubSeq(s, 2, Len(s)) = Rest(j, n + 1)
             /\ Append(Cut(j, n), <<[job |-> j, fld |-> n + 1]>>) = Cut(j, n + 1)
             /\ Len(Cut(j, n)) = n
<1> DEFINE s   == Rest(j, n)
           sep == Separator(n + 1)
<1>1. Len(s) = 3 - n /\ DOMAIN s = 1..(3 - n) /\ \A k \in 1..(3 - n) : s[k] = [job |-> j, fld |-> n + k]
  BY DEF Rest
<1>2. Ends(s[1], sep)
  BY <1>1 DEF Ends, Separator
<1>3. Has(s, sep)
  BY <1>1, <1>2 DEF Has
<1>4. \A k \in DOMAIN s : FirstIsAt(s, sep, k) => k = 1
  BY <1>1, <1>2 DEF FirstIsAt
<1>5. SubSeq(s, 1, 1) = <<[job |-> j, fld |-> n + 1]>>
  <2>1. s[1] = [job |-> j, fld |-> n + 1]
    BY <1>1
  <2>2. SubSeq(s, 1, 1) \in Seq({s[1]}) /\ Len(SubSeq(s, 1, 1)) = 1
    BY <1>1
  <2>3. SubSeq(s, 1, 1)[1] = s[1]
    BY <1>1
  <2>4. <<s[1]>> \in Seq({s[1]}) /\ Len(<<s[1]>>) = 1 /\ <<s[1]>>[1] = s[1]
    OBVIOUS
  <2>5. SubSeq(s, 1, 1) = <<s[1]>>
    <3> DEFINE a == SubSeq(s, 1, 1)
               b == <<s[1]>>
               S == {s[1]}
    <3>1. a \in Seq(S) /\ b \in Seq(S) /\ Len(a) = Len(b)
      BY <2>2, <2>4
    <3>2. \A i \in 1..Len(a) : a[i] = b[i]
      BY <2>2, <2>3, <2>4
    <3> HIDE DEF a, b, S
    <3>3. a = b
      BY <3>1, <3>2, SeqEqual
    <3> QED
      BY <3>3 DEF a, b
  <2> QED
    BY <2>1, <2>5
<1>6. SubSeq(s, 2, Len(s)) = Rest(j, n + 1)
  BY <1>1 DEF Rest
<1>7. Len(Cut(j, n)) = n
  BY DEF Cut
<1>8. Append(Cut(j, n), <<[job |-> j, fld |-> n + 1]>>) = Cut(j, n + 1)
  BY <1>7 DEF Cut
<1> QED
  BY <1>3, <1>4, <1>5, <1>6, <1>7, <1>8

-----------------------------------------------------------------------------
(* What a step leaves alone *)

\* The phase of a core depends on its own variables, and on the interrupt
\* handler only when that is storing a line for it.
LEMMA Frame ==
  ASSUME NEW d,
         status'[d] = status[d], rx'[d] = rx[d], temp'[d] = temp[d], pc'[d] = pc[d],
         field'[d] = field[d], seen'[d] = seen[d],
         \/ isr' = isr
         \/ ~(isr.op = "job" /\ isr.core = d) /\ ~(isr'.op = "job" /\ isr'.core = d)
  PROVE  /\ Quiet(d)' <=> Quiet(d)
         /\ \A j : Coming(d, j)' <=> Coming(d, j)
         /\ \A j : InWork(d, j)' <=> InWork(d, j)
         /\ \A j : Done(d, j)' <=> Done(d, j)
<1>1. Quiet(d)' <=> Quiet(d)
  BY DEF Quiet
<1>2. ASSUME NEW j
      PROVE  /\ Coming(d, j)' <=> Coming(d, j)
             /\ InWork(d, j)' <=> InWork(d, j)
             /\ Done(d, j)' <=> Done(d, j)
  <2>1. Coming(d, j)' <=> Coming(d, j)
    BY DEF Coming
  <2>2. InWork(d, j)' <=> InWork(d, j)
    BY DEF InWork, Reading, Hashing, Printed
  <2>3. Done(d, j)' <=> Done(d, j)
    BY DEF Done
  <2> QED
    BY <2>1, <2>2, <2>3
<1> QED
  BY <1>1, <1>2

\* A core that waits for a line does not move.
LEMMA AtRest ==
  ASSUME NEW c \in Core, pc[c] = "scan", rx[c] = <<>>
  PROVE  ~CoreStep(c)
BY DEF CoreStep, Scan, Wipe, SetBusy, ReadFind, ReadMove, Overrun, BadData, Calculate, PrintResult, SetDone, Has

\* A step of a core touches its own variables only.
LEMMA CoreStepFrame ==
  ASSUME SlaveTypeOK, NEW c \in Core, NEW d \in Core, d # c, CoreStep(c)
  PROVE  /\ status'[d] = status[d] /\ rx'[d] = rx[d] /\ temp'[d] = temp[d]
         /\ pc'[d] = pc[d] /\ field'[d] = field[d] /\ seen'[d] = seen[d]
<1> USE DEF SlaveTypeOK
<1>1. CASE Scan(c) BY <1>1 DEF Scan
<1>2. CASE Wipe(c) BY <1>2 DEF Wipe
<1>3. CASE SetBusy(c) BY <1>3 DEF SetBusy
<1>4. CASE ReadFind(c) BY <1>4 DEF ReadFind
<1>5. CASE ReadMove(c) BY <1>5 DEF ReadMove
<1>6. CASE BadData(c) BY <1>6 DEF BadData
<1>7. CASE Calculate(c) BY <1>7 DEF Calculate
<1>8. CASE PrintResult(c) BY <1>8 DEF PrintResult
<1>9. CASE SetDone(c) BY <1>9 DEF SetDone
<1>10. CASE Overrun(c) BY <1>10 DEF Overrun
<1> QED BY <1>1, <1>2, <1>3, <1>4, <1>5, <1>6, <1>7, <1>8, <1>9, <1>10 DEF CoreStep

\* A core touches nothing of the interrupt handler's, unless it stops.
LEMMA CoreStepUnchanged ==
  ASSUME NEW c \in Core, CoreStep(c), ~Overrun(c)
  PROVE  isr' = isr /\ request' = request /\ config' = config
BY DEF CoreStep, Scan, Wipe, SetBusy, ReadFind, ReadMove, BadData, Calculate, PrintResult, SetDone

-----------------------------------------------------------------------------
(* A core at work on the line of a job *)

\* The fields of a line that is read from its start have room in their arrays.
LEMMA FieldsFit ==
  ASSUME NEW c \in Core, NEW j \in Jobs, Coming(c, j) \/ InWork(c, j)
  PROVE  ~Overrun(c)
<1>1. SUFFICES ASSUME Overrun(c) PROVE FALSE
  OBVIOUS
<1>2. pc[c] = "move"
  BY <1>1 DEF Overrun
<1>3. Reading(c, j)
  BY <1>2 DEF Coming, InWork, Hashing, Printed
<1>4. PICK n \in 0..2 : seen[c] = Rest(j, n) /\ field[c] = Cut(j, n)
  BY <1>2, <1>3 DEF Reading
<1> DEFINE s   == Rest(j, n)
           sep == Separator(n + 1)
           cut == SubSeq(s, 1, 1)
<1>5. /\ \A k \in DOMAIN s : FirstIsAt(s, sep, k) => k = 1
      /\ cut = <<[job |-> j, fld |-> n + 1]>>
      /\ Len(field[c]) = n
  BY <1>4, ReadFacts
<1>6. PICK k \in DOMAIN s : FirstIsAt(s, sep, k) /\ MayOverrun(SubSeq(s, 1, k))
  BY <1>1, <1>4, <1>5 DEF Overrun
<1>7. MayOverrun(cut)
  BY <1>5, <1>6
<1>8. Len(cut) = 1 /\ DOMAIN cut = {1} /\ cut[1].job = j
  <2>1. \A x : Len(<<x>>) = 1 /\ DOMAIN <<x>> = {1} /\ <<x>>[1] = x
    OBVIOUS
  <2>2. PICK x : x = [job |-> j, fld |-> n + 1]
    OBVIOUS
  <2>3. x.job = j /\ cut = <<x>>
    BY <1>5, <2>2
  <2> HIDE DEF cut
  <2> QED
    BY <2>1, <2>3
<1> HIDE DEF cut
<1> QED
  BY <1>7, <1>8, SlaveAssumption DEF MayOverrun

\* While the interrupt handler stores a line for a core the core finds no
\* newline, and stays.
LEMMA ComingStep ==
  ASSUME SlaveTypeOK, NEW c \in Core, NEW j \in Jobs, Coming(c, j), CoreStep(c)
  PROVE  Coming(c, j)' \/ InWork(c, j)'
<1> USE DEF SlaveTypeOK
<1>1. ~(isr.op = "job" /\ isr.core = c)
  <2> SUFFICES ASSUME isr.op = "job" /\ isr.core = c PROVE FALSE
    OBVIOUS
  <2>1. PICK n \in 0..2 : rx[c] = Begun(j, n)
    BY DEF Coming
  <2>2. pc[c] = "scan" /\ ~Has(rx[c], "\n")
    BY SMTT(30), <2>1, StoreFacts DEF Coming
  <2> QED
    BY <2>2 DEF CoreStep, Scan, Wipe, SetBusy, ReadFind, ReadMove, Overrun, BadData, Calculate, PrintResult, SetDone
<1>2. /\ status[c] = IDLE /\ rx[c] = Line(j) /\ pc[c] \in {"scan", "wipe", "busy"}
      /\ isr' = isr
  BY <1>1, CoreStepUnchanged, FieldsFit DEF Coming
<1>3. CASE pc[c] = "scan"
  <2>1. Scan(c)
    BY <1>3 DEF CoreStep, Wipe, SetBusy, ReadFind, ReadMove, Overrun, BadData, Calculate, PrintResult, SetDone
  <2>2. Len(rx[c]) # BufCap
    <3>1. Len(Line(j)) = 3
      BY LineFacts
    <3> QED
      BY <1>2, <3>1, SlaveAssumption
  <2>3. status' = status /\ rx'[c] = rx[c] /\ pc'[c] = "wipe"
    BY <2>1, <2>2 DEF Scan
  <2> QED
    BY <1>1, <1>2, <2>3 DEF Coming
<1>4. CASE pc[c] = "wipe"
  <2>1. Wipe(c)
    BY <1>4 DEF CoreStep, Scan, SetBusy, ReadFind, ReadMove, Overrun, BadData, Calculate, PrintResult, SetDone
  <2>2. status' = status /\ rx' = rx /\ pc'[c] = "busy"
    BY <2>1 DEF Wipe
  <2> QED
    BY <1>1, <1>2, <2>2 DEF Coming
<1>5. CASE pc[c] = "busy"
  <2>1. SetBusy(c)
    BY <1>5 DEF CoreStep, Scan, Wipe, ReadFind, ReadMove, Overrun, BadData, Calculate, PrintResult, SetDone
  <2>2. status'[c] = BUSY /\ rx' = rx /\ pc'[c] = "read" /\ field'[c] = <<>>
    BY <2>1 DEF SetBusy
  <2>3. rx'[c] = Rest(j, 0) /\ field'[c] = Cut(j, 0)
    BY <1>2, <2>2, LineFacts
  <2> QED
    BY <1>1, <1>2, <2>2, <2>3 DEF InWork, Reading
<1> QED
  BY <1>2, <1>3, <1>4, <1>5

\* A busy core cuts the line into its three fields, and its result is that of
\* the job.
LEMMA InWorkStep ==
  ASSUME SlaveTypeOK, NEW c \in Core, NEW j \in Jobs, InWork(c, j), CoreStep(c)
  PROVE  InWork(c, j)' \/ (Done(c, j)' /\ status'[c] = DONE)
<1> USE DEF SlaveTypeOK
<1>1. status[c] = BUSY /\ ~(isr.op = "job" /\ isr.core = c) /\ isr' = isr
  BY CoreStepUnchanged, FieldsFit DEF InWork
<1>2. ASSUME NEW n \in 0..2, pc[c] \in {"read", "move"}, rx[c] = Rest(j, n),
             field[c] = Cut(j, n), pc[c] = "move" => seen[c] = rx[c]
      PROVE  InWork(c, j)'
  <2>1. CASE pc[c] = "read"
    <3>1. ReadFind(c)
      BY <2>1 DEF CoreStep, Scan, Wipe, SetBusy, ReadMove, Overrun, BadData, Calculate, PrintResult, SetDone
    <3>2. /\ status' = status /\ rx' = rx /\ field' = field
          /\ pc'[c] = "move" /\ seen'[c] = rx[c]
      BY <3>1 DEF ReadFind
    <3> QED
      BY <1>1, <1>2, <3>2 DEF InWork, Reading
  <2>2. CASE pc[c] = "move"
    <3> DEFINE s   == Rest(j, n)
               sep == Separator(n + 1)
    <3>1. ReadMove(c)
      BY <2>2, FieldsFit DEF CoreStep, Scan, Wipe, SetBusy, ReadFind, BadData, Calculate, PrintResult, SetDone
    <3>2. Len(field[c]) = n /\ seen[c] = s
      <4> HIDE DEF SlaveTypeOK
      <4>1. Len(Cut(j, n)) = n
        BY ReadFacts
      <4>2. field[c] = Cut(j, n) /\ seen[c] = Rest(j, n)
        BY <1>2, <2>2
      <4> QED
        BY <4>1, <4>2
    <3>3. /\ status' = status
          /\ pc'[c] = IF n = 2 THEN "check" ELSE "read"
      BY <3>1, <3>2 DEF ReadMove
    <3>4. /\ field'[c] = Append(field[c], SubSeq(s, 1, 1))
          /\ rx'[c] = SubSeq(s, 2, Len(s))
      <4>1. Has(s, sep) /\ \A k \in DOMAIN s : FirstIsAt(s, sep, k) => k = 1
        BY ReadFacts
      <4>2. PICK k \in DOMAIN s : /\ FirstIsAt(s, sep, k)
                                  /\ field' = [field EXCEPT ![c] = Append(@, SubSeq(s, 1, k))]
                                  /\ rx' = [rx EXCEPT ![c] = SubSeq(s, k + 1, Len(s))]
        <5> HIDE DEF SlaveTypeOK, s, sep
        <5>1. Separator(Len(field[c]) + 1) = sep
          BY <3>2 DEF sep
        <5> QED
          BY <3>1, <3>2, <4>1, <5>1 DEF ReadMove
      <4>3. k = 1 /\ 1 + 1 = 2
        BY <4>1, <4>2
      <4> HIDE DEF s
      <4> QED
        BY <4>2, <4>3
    <3>5. field'[c] = Cut(j, n + 1) /\ rx'[c] = Rest(j, n + 1)
      BY <1>2, <3>4, ReadFacts
    <3>6. CASE n < 2
      BY <1>1, <3>3, <3>5, <3>6 DEF InWork, Reading
    <3>7. CASE n = 2
      BY <1>1, <3>3, <3>5, <3>7, LineFacts DEF InWork, Hashing
    <3> QED
      BY <3>6, <3>7
  <2> QED
    BY <1>2, <2>1, <2>2
<1>3. ASSUME pc[c] \in {"check", "print"}, rx[c] = <<>>, field[c] = Cut(j, 3)
      PROVE  InWork(c, j)'
  <2>1. \A k \in 1..3 : field[c][k] = <<[job |-> j, fld |-> k]>>
    BY <1>3 DEF Cut
  <2>2. j # Junk
    BY SlaveAssumption
  <2>3. ~Zero(field[c][3]) /\ field[c][1] # <<>> /\ field[c][2] # <<>>
    <3>1. field[c][1] # <<>> /\ field[c][2] # <<>> /\ field[c][3] # <<>>
      <4>1. \A k \in 1..3 : field[c][k] # <<>>
        BY <2>1, NotEmpty
      <4> QED
        BY <4>1
    <3>2. field[c][3][1].fld = 3 /\ field[c][3][1].job = j
      BY SMTT(30), <2>1
    <3> QED
      BY <2>2, <3>1, <3>2 DEF Zero
  <2>4. CASE pc[c] = "check"
    <3>1. Calculate(c)
      BY <2>3, <2>4 DEF CoreStep, Scan, Wipe, SetBusy, ReadFind, ReadMove, Overrun, BadData, PrintResult, SetDone
    <3>2. status' = status /\ rx' = rx /\ field' = field /\ pc'[c] = "print"
      BY <3>1 DEF Calculate
    <3> QED
      BY <1>1, <1>3, <3>2 DEF InWork, Hashing
  <2>5. CASE pc[c] = "print"
    <3>1. PrintResult(c)
      BY <2>5 DEF CoreStep, Scan, Wipe, SetBusy, ReadFind, ReadMove, Overrun, BadData, Calculate, SetDone
    <3>2. ResultOf(field[c]) = j
      <4>1. field[c][3][1].job = j
        BY <2>1
      <4>2. Cut(j, 3) = [n \in 1..3 |-> <<[job |-> j, fld |-> n]>>]
        BY DEF Cut
      <4> QED
        BY <1>3, <4>1, <4>2 DEF ResultOf
    <3>3. status' = status /\ rx' = rx /\ temp'[c] = j /\ pc'[c] = "done"
      BY <3>1, <3>2 DEF PrintResult
    <3> QED
      BY <1>1, <1>3, <3>3 DEF InWork, Printed
  <2> QED
    BY <1>3, <2>4, <2>5
<1>4. ASSUME pc[c] = "done", rx[c] = <<>>, temp[c] = j
      PROVE  Done(c, j)' /\ status'[c] = DONE
  <2>1. SetDone(c)
    BY <1>4 DEF CoreStep, Scan, Wipe, SetBusy, ReadFind, ReadMove, Overrun, BadData, Calculate, PrintResult
  <2>2. status'[c] = DONE /\ rx' = rx /\ temp' = temp /\ pc'[c] = "scan"
    BY <2>1 DEF SetDone
  <2> QED
    BY <1>1, <1>4, <2>2 DEF Done
<1>5. CASE Reading(c, j)
  <2>1. PICK n \in 0..2 : /\ pc[c] \in {"read", "move"}
                          /\ rx[c] = Rest(j, n) /\ field[c] = Cut(j, n)
                          /\ pc[c] = "move" => seen[c] = rx[c]
    BY <1>5 DEF Reading
  <2> QED
    BY <2>1, <1>2
<1>6. CASE Hashing(c, j)
  BY <1>6, <1>3 DEF Hashing
<1>7. CASE Printed(c, j)
  BY <1>7, <1>4 DEF Printed
<1> QED
  BY <1>5, <1>6, <1>7 DEF InWork

\* The next chunk of the line arrives.
LEMMA StoreStep ==
  ASSUME SlaveTypeOK, NEW j \in Jobs, NEW c \in Core,
         isr.op = "job", isr.core = c, Coming(c, j), WriteChunk
  PROVE  Coming(c, j)'
<1> USE DEF SlaveTypeOK
<1>2. PICK n \in 0..2 : rx[c] = Begun(j, n) /\ isr.todo = Rest(j, n)
  BY DEF Coming
<1>3. status[c] = IDLE /\ pc[c] = "scan" /\ status' = status /\ pc' = pc
  BY DEF Coming, WriteChunk, coreVars
<1>4. rx'[c] = Begun(j, n + 1)
  <2>1. Len(rx[c]) < BufCap
    BY SMTT(30), <1>2, StoreFacts, SlaveAssumption
  <2>2. Append(rx[c], Head(isr.todo)) = Begun(j, n + 1)
    BY <1>2, StoreFacts
  <2>3. rx' = [rx EXCEPT ![c] = IF Len(@) >= BufCap THEN @ ELSE Append(@, Head(isr.todo))]
    BY DEF WriteChunk
  <2>4. rx'[c] = IF Len(rx[c]) >= BufCap THEN rx[c] ELSE Append(rx[c], Head(isr.todo))
    BY <2>3
  <2>5. Len(rx[c]) \in Nat /\ BufCap \in Nat
    BY SlaveAssumption
  <2>6. ~(Len(rx[c]) >= BufCap)
    BY <2>1, <2>5
  <2>7. rx'[c] = Append(rx[c], Head(isr.todo))
    BY <2>4, <2>6
  <2> QED
    BY <2>2, <2>7
<1>5. CASE n < 2
  <2>0. Len(isr.todo) = 3 - n
    BY SMTT(30), <1>2, StoreFacts
  <2>1. Len(isr.todo) # 1
    <3>1. n \in Nat
      OBVIOUS
    <3> HIDE DEF SlaveTypeOK
    <3> QED
      BY <1>5, <2>0, <3>1
  <2>2. Tail(isr.todo) = Rest(j, n + 1)
    BY <1>2, <1>5, StoreFacts
  <2>3. isr' = [isr EXCEPT !.todo = Tail(@)]
    BY <2>1 DEF WriteChunk
  <2>4. isr'.op = "job" /\ isr'.core = c /\ isr'.todo = Rest(j, n + 1)
    BY <2>2, <2>3 DEF IsrWork
  <2>5. n + 1 \in 0..2
    BY <1>5
  <2> QED
    BY <1>3, <1>4, <2>4, <2>5 DEF Coming
<1>6. CASE n = 2
  <2>1. Len(isr.todo) = 3 - n
    BY SMTT(30), <1>2, StoreFacts
  <2>2. isr' = Ready
    BY <1>6, <2>1 DEF WriteChunk
  <2>3. isr'.op = "none"
    BY <2>2 DEF Ready
  <2>4. rx'[c] = Line(j)
    BY <1>4, <1>6, LineFacts
  <2> QED
    BY <1>3, <2>3, <2>4 DEF Coming
<1> QED
  BY <1>5, <1>6

-----------------------------------------------------------------------------
(* The phases exclude each other, and a step goes from one to the next *)

\* A core that is being given a line is in no other phase.
LEMMA ComingOnly ==
  ASSUME NEW c \in Core, NEW j, Coming(c, j)
  PROVE  ~Quiet(c) /\ (\A k : ~InWork(c, k) /\ ~Done(c, k))
<1>1. Line(j) # <<>>
  BY LineFacts
<1>2. status[c] = IDLE /\ (rx[c] = Line(j) \/ (isr.op = "job" /\ isr.core = c))
  BY DEF Coming
<1>3. ~Quiet(c)
  BY <1>1, <1>2 DEF Quiet
<1>4. ASSUME NEW k PROVE ~InWork(c, k) /\ ~Done(c, k)
  BY <1>1, <1>2 DEF InWork, Done, IDLE, BUSY
<1> QED
  BY <1>3, <1>4

\* A quiet core and one that is done do nothing; a core with a job goes on with
\* that job and is not being given one any more once it is busy.
LEMMA PhaseStep ==
  ASSUME SlaveTypeOK, NEW c \in Core, Phase(c), CoreStep(c), given' = given
  PROVE  /\ Phase(c)' /\ ~Quiet(c) /\ (\A j : ~Done(c, j))
         /\ (given[c] \in Jobs => ~Coming(c, given[c])) =>
              (given[c] \in Jobs => ~Coming(c, given[c])')
<1>1. ~Quiet(c) /\ (\A j : ~Done(c, j))
  BY AtRest DEF Quiet, Done
<1>2. given[c] \in Jobs /\ (Coming(c, given[c]) \/ InWork(c, given[c]))
  BY <1>1 DEF Phase
<1>3. CASE Coming(c, given[c])
  BY <1>1, <1>2, <1>3, ComingStep DEF Phase
<1>4. CASE InWork(c, given[c])
  <2>1. InWork(c, given[c])' \/ (Done(c, given[c])' /\ status'[c] = DONE)
    BY <1>2, <1>4, InWorkStep
  <2>2. ~Coming(c, given[c])'
    BY <2>1 DEF InWork, Coming, IDLE, BUSY, DONE
  <2> QED
    BY <1>1, <1>2, <2>1, <2>2 DEF Phase
<1> QED
  BY <1>2, <1>3, <1>4

-----------------------------------------------------------------------------
(* The link *)

\* No status or result command is lost, no line is cut, and the server sends
\* jobs or complaints.
Gentle == /\ Faults \subseteq {"read lost", "job lost"}
          /\ ServerSays \subseteq {"job", "bad"}

-----------------------------------------------------------------------------
(* Types *)

\* The four kinds of replies of requestBuffer are replies.
LEMMA ReplyTypes ==
  /\ NoReply \in Reply /\ PaddingReply \in Reply
  /\ \A s \in [Core -> HashCalStatus] : StatusReply(s) \in Reply
  /\ \A r \in Result : ResultReply(r) \in Reply
BY DEF NoReply, PaddingReply, StatusReply, ResultReply, Reply, Result, HashCalStatus

\* A fault, or none, leaves the two counters within their bounds.
LEMMA BoundTypes ==
  ASSUME LinkTypeOK
  PROVE  /\ 0 \in 0..MaxRetry /\ 1 \in 0..MaxRetry
         /\ \A kind : Fault(kind) => faults' \in 0..MaxFaults /\ reboots' = reboots
<1>1. MaxRetry \in Nat \ {0} /\ MaxFaults \in Nat
  BY LinkAssumption
<1>2. faults \in 0..MaxFaults
  BY DEF LinkTypeOK
<1>3. ASSUME NEW kind, Fault(kind) PROVE faults' \in 0..MaxFaults /\ reboots' = reboots
  <2>1. faults < MaxFaults /\ faults' = faults + 1 /\ reboots' = reboots
    BY <1>3 DEF Fault
  <2> QED
    BY <1>1, <1>2, <2>1
<1> QED
  BY <1>1, <1>3

\* The interrupt handler at rest is one of its states.
LEMMA ReadyType == Ready \in IsrWork /\ Ready.op = "none"
<1>1. <<>> \in Seq(Chunk)
  OBVIOUS
<1> QED
  BY <1>1 DEF Ready, IsrWork, Core

\* The steps of slaveLoop and slaveLoopCore1 keep the types of the slave.
LEMMA CoreStepType ==
  ASSUME SlaveTypeOK, NEW c \in Core, CoreStep(c)
  PROVE  SlaveTypeOK'
<1> USE DEF SlaveTypeOK
<1>1. CASE Scan(c)
  <2>1. rx' = [rx EXCEPT ![c] = IF Len(@) = BufCap THEN <<>> ELSE @]
    BY <1>1 DEF Scan
  <2>2. rx' \in [Core -> Seq(Chunk)] /\ \A d \in Core : Len(rx'[d]) <= BufCap
    BY <2>1, SlaveAssumption
  <2>3. pc' \in [Core -> Pc]
    BY <1>1 DEF Scan, Pc
  <2> QED
    BY <1>1, <2>2, <2>3 DEF Scan
<1>2. CASE Wipe(c)
  BY <1>2 DEF Wipe, Result, Pc
<1>3. CASE SetBusy(c)
  BY <1>3 DEF SetBusy, HashCalStatus, Pc
<1>4. CASE ReadFind(c)
  BY <1>4 DEF ReadFind, Pc
<1>5. CASE ReadMove(c)
  <2>1. seen' \in [Core -> Seq(Chunk)] /\ \A d \in Core : Len(seen'[d]) <= BufCap
    BY <1>5, SlaveAssumption DEF ReadMove
  <2>2. pc' \in [Core -> Pc]
    BY <1>5 DEF ReadMove, Pc
  <2>3. /\ rx' \in [Core -> Seq(Chunk)] /\ \A d \in Core : Len(rx'[d]) <= BufCap
        /\ field' \in [Core -> Seq(Seq(Chunk))]
    <3> DEFINE s == seen[c]
    <3>1. s \in Seq(Chunk) /\ Len(s) <= BufCap /\ Len(s) \in Nat /\ BufCap \in Nat
      BY SlaveAssumption
    <3>2. CASE /\ field' = [field EXCEPT ![c] = Append(@, <<>>)]
               /\ rx' = rx
      BY <3>2
    <3>3. CASE \E n \in DOMAIN s : /\ field' = [field EXCEPT ![c] = Append(@, SubSeq(s, 1, n))]
                                   /\ rx' = [rx EXCEPT ![c] = SubSeq(s, n + 1, Len(s))]
      <4>1. PICK n \in 1..Len(s) :
              /\ field' = [field EXCEPT ![c] = Append(@, SubSeq(s, 1, n))]
              /\ rx' = [rx EXCEPT ![c] = SubSeq(s, n + 1, Len(s))]
        <5>1. DOMAIN s = 1..Len(s)
          BY <3>1
        <5> HIDE DEF s
        <5> QED
          BY <3>3, <5>1
      <4>2. SubSeq(s, 1, n) \in Seq(Chunk) /\ SubSeq(s, n + 1, Len(s)) \in Seq(Chunk)
        BY <3>1
      <4>3. Len(SubSeq(s, n + 1, Len(s))) <= BufCap
        BY <3>1
      <4> HIDE DEF s
      <4> QED
        BY <4>1, <4>2, <4>3
    <3> QED
      BY <1>5, <3>2, <3>3 DEF ReadMove
  <2> QED
    BY <1>5, <2>1, <2>2, <2>3 DEF ReadMove
<1>6. CASE BadData(c)
  BY <1>6 DEF BadData, HashCalStatus, Pc
<1>7. CASE Calculate(c)
  BY <1>7 DEF Calculate, Result, Pc
<1>8. CASE PrintResult(c)
  <2>1. ResultOf(field[c]) \in Result
    BY DEF ResultOf, Result
  <2> QED
    BY <1>8, <2>1 DEF PrintResult, Pc
<1>9. CASE SetDone(c)
  BY <1>9 DEF SetDone, HashCalStatus, Pc
<1>10. CASE Overrun(c)
  <2>1. Stopped \in IsrWork /\ Stopped.op # "job"
    <3>1. <<>> \in Seq(Chunk)
      OBVIOUS
    <3> QED
      BY <3>1 DEF Stopped, IsrWork, Core
  <2>2. isr' \in IsrWork /\ (isr'.op = "job" => isr'.todo # <<>>)
    BY <1>10, <2>1 DEF Overrun
  <2>3. pc' \in [Core -> Pc]
    BY <1>10 DEF Overrun, Pc
  <2> QED
    BY <1>10, <2>2, <2>3 DEF Overrun
<1> QED BY <1>1, <1>2, <1>3, <1>4, <1>5, <1>6, <1>7, <1>8, <1>9, <1>10 DEF CoreStep

\* The steps left to the interrupt handler keep the types of the slave.
LEMMA IsrStepType ==
  ASSUME SlaveTypeOK, IsrStep
  PROVE  SlaveTypeOK'
<1> USE DEF SlaveTypeOK
<1>1. CASE WriteChunk
  <2> DEFINE d == isr.core
  <2>1. d \in Core /\ isr.todo \in Seq(Chunk) /\ isr.todo # <<>>
    BY <1>1 DEF WriteChunk, IsrWork
  <2>2. Head(isr.todo) \in Chunk /\ Tail(isr.todo) \in Seq(Chunk)
    BY <2>1
  <2>3. rx' = [rx EXCEPT ![d] = IF Len(@) >= BufCap THEN @ ELSE Append(@, Head(isr.todo))]
    BY <1>1 DEF WriteChunk
  <2>4. rx' \in [Core -> Seq(Chunk)] /\ \A e \in Core : Len(rx'[e]) <= BufCap
    BY <2>1, <2>2, <2>3, SlaveAssumption
  <2>5. isr' \in IsrWork /\ (isr'.op = "job" => isr'.todo # <<>>)
    <3>1. CASE Len(isr.todo) = 1
      BY <1>1, <3>1, ReadyType DEF WriteChunk
    <3>2. CASE Len(isr.todo) # 1
      <4>1. isr' = [isr EXCEPT !.todo = Tail(@)]
        BY <1>1, <3>2 DEF WriteChunk
      <4>2. Len(Tail(isr.todo)) = Len(isr.todo) - 1 /\ Len(isr.todo) \in Nat \ {0, 1}
        BY <2>1, <3>2
      <4>3. Tail(isr.todo) # <<>>
        <5> DEFINE rest == Tail(isr.todo)
        <5>1. Len(rest) # 0
          BY <4>2
        <5> HIDE DEF rest
        <5>2. rest # <<>>
          BY <5>1, Len(<<>>) = 0
        <5> QED
          BY <5>2 DEF rest
      <4> QED
        BY <2>2, <4>1, <4>3 DEF IsrWork
    <3> QED
      BY <3>1, <3>2
  <2> QED
    BY <1>1, <2>4, <2>5 DEF WriteChunk, coreVars
<1>2. CASE ResultIdle
  BY <1>2, ReadyType DEF ResultIdle, coreVars, HashCalStatus, IsrWork
<1> QED
  BY <1>1, <1>2 DEF IsrStep

\* slave_on_receive and slave_on_request keep the types of the slave, whatever
\* the command.
LEMMA CommandTypes ==
  ASSUME SlaveTypeOK
  PROVE  /\ OnReadStatus => SlaveTypeOK'
         /\ OnRequest => SlaveTypeOK'
         /\ OnConfigure => SlaveTypeOK'
         /\ \A c \in Core : OnReadResult(c) => SlaveTypeOK'
         /\ \A c \in Core, line \in Seq(Chunk) : OnJobAllocate(c, line) => SlaveTypeOK'
         /\ UNCHANGED slaveVars => SlaveTypeOK'
<1> USE DEF SlaveTypeOK, coreVars
<1>1. OnReadStatus => SlaveTypeOK'
  BY ReplyTypes DEF OnReadStatus
<1>2. OnRequest => SlaveTypeOK'
  BY ReplyTypes DEF OnRequest
<1>3. OnConfigure => SlaveTypeOK'
  BY DEF OnConfigure, Config
<1>4. ASSUME NEW c \in Core, OnReadResult(c) PROVE SlaveTypeOK'
  <2>1. isr' \in IsrWork /\ isr'.op = "result"
    BY <1>4 DEF OnReadResult, IsrWork
  <2> QED
    BY <1>4, <2>1, ReplyTypes DEF OnReadResult
<1>5. ASSUME NEW c \in Core, NEW line \in Seq(Chunk), OnJobAllocate(c, line) PROVE SlaveTypeOK'
  <2>1. isr' \in IsrWork /\ (isr'.op = "job" => isr'.todo # <<>>)
    BY <1>5, ReadyType DEF OnJobAllocate, IsrWork
  <2> QED
    BY <1>5, <2>1 DEF OnJobAllocate
<1>6. UNCHANGED slaveVars => SlaveTypeOK'
  BY DEF slaveVars
<1> QED
  BY <1>1, <1>2, <1>3, <1>4, <1>5, <1>6

-----------------------------------------------------------------------------
(* What holds of a client whose core and whose own state do not change *)

\* Nothing the phase of core d depends on changes.
Still(d) ==
  /\ status'[d] = status[d] /\ rx'[d] = rx[d] /\ temp'[d] = temp[d] /\ pc'[d] = pc[d]
  /\ field'[d] = field[d] /\ seen'[d] = seen[d]
  /\ \/ isr' = isr
     \/ ~(isr.op = "job" /\ isr.core = d) /\ ~(isr'.op = "job" /\ isr'.core = d)

\* A step that leaves a core and the interrupt handler's work for it alone leaves
\* the phase of its job.
LEMMA StillPhase ==
  ASSUME NEW d \in Core, Still(d), given'[d] = given[d]
  PROVE  /\ Quiet(d)' <=> Quiet(d)
         /\ Phase(d)' <=> Phase(d)
         /\ \A j : Coming(d, j)' <=> Coming(d, j)
         /\ \A j : Done(d, j)' <=> Done(d, j)
<1>1. /\ Quiet(d)' <=> Quiet(d)
      /\ \A j : Coming(d, j)' <=> Coming(d, j)
      /\ \A j : InWork(d, j)' <=> InWork(d, j)
      /\ \A j : Done(d, j)' <=> Done(d, j)
  BY Frame DEF Still
<1>2. Phase(d)' <=> Phase(d)
  BY <1>1 DEF Phase, Still
<1> QED
  BY <1>1, <1>2

\* What ClientInv says of a client that a step does not concern stays true.
LEMMA ClientFrame ==
  ASSUME NEW d \in Core, Still(d), state'[d] = state[d], given'[d] = given[d],
         sent'[d] = sent[d], socket'[d] = socket[d], ClientInv(d)
  PROVE  ClientInv(d)'
<1>1. status'[d] = status[d]
  BY DEF Still
<1> QED
  BY <1>1, StillPhase DEF ClientInv

\* The commands that only fill requestBuffer leave every core alone.
LEMMA RequestStill ==
  ASSUME OnReadStatus \/ OnRequest \/ OnConfigure \/ UNCHANGED slaveVars
  PROVE  /\ \A d \in Core : Still(d) /\ status'[d] = status[d]
         /\ isr' = isr
BY DEF OnReadStatus, OnRequest, OnConfigure, slaveVars, coreVars, Still

\* The two ways a client whose core is quiet, or has a result nobody has read,
\* can be waiting.
LEMMA QuietPhase ==
  ASSUME NEW c \in Core, Quiet(c)
  PROVE  Phase(c) /\ (given[c] \in Jobs => ~Coming(c, given[c]))
BY ComingOnly DEF Phase

\* A core that is done has a phase, and its job is not still coming in.
LEMMA DonePhase ==
  ASSUME NEW c \in Core, given[c] \in Jobs, Done(c, given[c]), status[c] \in {IDLE, DONE}
  PROVE  Phase(c) /\ ~Coming(c, given[c])
<1>1. ~Coming(c, given[c])
  BY ComingOnly
<1>2. status[c] = IDLE => Quiet(c)
  BY DEF Quiet, Done
<1> QED
  BY <1>1, <1>2 DEF Phase

\* A polled status other than BUSY says where the job of the core is.
LEMMA PhaseStatus ==
  ASSUME NEW c \in Core, Phase(c)
  PROVE  /\ status[c] = DONE => given[c] \in Jobs /\ Done(c, given[c])
         /\ status[c] = IDLE /\ (given[c] \in Jobs => ~Coming(c, given[c])) => Quiet(c)
BY DEF Phase, Quiet, Coming, InWork, IDLE, BUSY, DONE

-----------------------------------------------------------------------------
(* The invariant and the steps of the slave *)

\* A core that moves has a job, and its fields fit.
LEMMA AtWork ==
  ASSUME IInv, NEW c \in Core, CoreStep(c)
  PROVE  ~Overrun(c)
<1> USE DEF IInv, LinkInv
<1>1. ~Quiet(c) /\ (\A j : ~Done(c, j))
  BY AtRest DEF Quiet, Done
<1>2. state[c] \in {"CALCULATION_WAIT", "CONNECT", "JOB_REQUEST", "SLAVE_FAULT"}
  BY <1>1 DEF ClientInv, LinkTypeOK, States
<1>3. Phase(c)
  BY <1>2 DEF ClientInv
<1>4. given[c] \in Jobs /\ (Coming(c, given[c]) \/ InWork(c, given[c]))
  BY <1>1, <1>3 DEF Phase
<1> QED
  BY <1>4, FieldsFit

\* A step of a core loop keeps the invariant.
LEMMA SlaveStep ==
  ASSUME IInv, NEW c \in Core, Slave(c)
  PROVE  IInv'
<1> USE DEF IInv, LinkInv
<1>0. CoreStep(c) /\ SlaveTypeOK /\ ~Overrun(c)
  BY AtWork DEF Slave, LinkTypeOK
<1>1. /\ CoreStep(c) /\ UNCHANGED <<masterVars, bounds, given, sent>>
      /\ SlaveTypeOK /\ isr' = isr /\ request' = request
  BY <1>0, CoreStepUnchanged DEF Slave
<1>2. LinkTypeOK'
  BY <1>1, CoreStepType DEF LinkTypeOK, masterVars, bounds
<1>3. ASSUME NEW d \in Core, d # c PROVE Still(d)
  BY <1>1, <1>3, CoreStepFrame DEF Still
<1>4. ASSUME NEW d \in Core, d # c PROVE ClientInv(d)'
  BY <1>1, <1>3, <1>4, ClientFrame DEF masterVars
<1>5. ~Quiet(c) /\ (\A j : ~Done(c, j))
  BY <1>1, AtRest DEF Quiet, Done
<1>6. ClientInv(c)'
  <2>1. state[c] \in {"CALCULATION_WAIT", "CONNECT", "JOB_REQUEST", "SLAVE_FAULT"}
    BY <1>5 DEF ClientInv, LinkTypeOK, States
  <2>2. Phase(c)
    BY <2>1 DEF ClientInv
  <2>3. state'[c] = state[c] /\ given' = given
    BY <1>1 DEF masterVars
  <2>4. /\ Phase(c)'
        /\ (given[c] \in Jobs => ~Coming(c, given[c])) =>
             (given[c] \in Jobs => ~Coming(c, given[c])')
    BY <1>1, <2>2, <2>3, PhaseStep
  <2> QED
    BY <2>1, <2>3, <2>4 DEF ClientInv
<1>7. AskedInv'
  <2>1. /\ state' = state /\ given' = given /\ clientNo' = clientNo /\ asked' = asked
        /\ retry' = retry
    BY <1>1 DEF masterVars
  <2>2. clientNo \in Core
    BY DEF LinkTypeOK
  <2>3. CASE clientNo = c
    BY <1>1, <1>5, <2>1, <2>3 DEF AskedInv, ClientInv
  <2>4. CASE clientNo # c
    BY <1>1, <1>3, <2>1, <2>2, <2>4, StillPhase DEF AskedInv, Still
  <2> QED
    BY <2>3, <2>4
<1>8. WholeResult'
  BY <1>1 DEF WholeResult
<1> QED
  BY <1>2, <1>4, <1>6, <1>7, <1>8

\* A step left to the interrupt handler keeps the invariant: a chunk stored for
\* a core that scans, a status set to IDLE for the client that asked.
LEMMA IsrInvStep ==
  ASSUME IInv, Isr
  PROVE  IInv'
<1> USE DEF IInv, LinkInv
<1>1. /\ IsrStep /\ UNCHANGED <<masterVars, bounds, given, sent>> /\ SlaveTypeOK
      /\ request' = request /\ isr.core \in Core
  BY DEF Isr, IsrStep, WriteChunk, ResultIdle, LinkTypeOK, SlaveTypeOK, IsrWork
<1>2. LinkTypeOK'
  BY <1>1, IsrStepType DEF LinkTypeOK, masterVars, bounds
<1>3. /\ state' = state /\ given' = given /\ clientNo' = clientNo /\ asked' = asked
      /\ socket' = socket /\ sent' = sent /\ retry' = retry
  BY <1>1 DEF masterVars
<1>4. clientNo \in Core
  BY DEF LinkTypeOK
<1>5. WholeResult'
  BY <1>1 DEF WholeResult
<1>6. CASE WriteChunk
  <2>0. PICK c \in Core : c = isr.core
    BY <1>1
  <2>1. isr.op = "job" /\ (isr'.op = "none" \/ (isr'.op = "job" /\ isr'.core = c))
    BY <1>1, <1>6, <2>0, ReadyType DEF WriteChunk, SlaveTypeOK, IsrWork
  <2>2. ASSUME NEW d \in Core, d # c PROVE Still(d)
    BY <1>1, <1>6, <2>0, <2>1, <2>2 DEF WriteChunk, SlaveTypeOK, coreVars, Still
  <2>3. ASSUME NEW d \in Core, d # c PROVE ClientInv(d)'
    BY <1>3, <2>2, <2>3, ClientFrame
  <2>4. /\ state[c] = "CALCULATION_WAIT" /\ given[c] \in Jobs /\ Coming(c, given[c])
    BY <2>0, <2>1 DEF ClientInv, Phase, Quiet, Done, InWork, LinkTypeOK, States
  <2>5. Coming(c, given[c])'
    <3>1. Coming(c, given[c]) /\ isr.core = c /\ given[c] \in Jobs
      BY <2>0, <2>4
    <3>2. \A j \in Jobs : Coming(c, j) => Coming(c, j)'
      BY <1>1, <1>6, <2>0, <2>1, StoreStep
    <3> QED
      BY <1>3, <3>1, <3>2
  <2>6. ClientInv(c)'
    BY <1>3, <2>4, <2>5 DEF ClientInv, Phase
  <2>7. AskedInv'
    <3>1. CASE clientNo = c
      BY <1>1, <1>3, <2>1, <2>4, <3>1, ComingOnly DEF AskedInv
    <3>2. CASE clientNo # c
      BY <1>1, <1>3, <1>4, <2>1, <2>2, <3>2, StillPhase DEF AskedInv, Still
    <3> QED
      BY <3>1, <3>2
  <2> QED
    BY <1>2, <1>5, <2>3, <2>6, <2>7
<1>7. CASE ResultIdle
  <2> DEFINE c == clientNo
  <2>1. /\ isr.op = "result" /\ asked /\ isr.core = c /\ state[c] = "SEND_RESULT"
    BY <1>7 DEF ResultIdle, AskedInv
  <2>2. isr'.op = "none" /\ status'[c] = IDLE
    BY <1>1, <1>7, <2>1, ReadyType DEF ResultIdle, SlaveTypeOK
  <2>3. ASSUME NEW d \in Core, d # c PROVE Still(d)
    BY <1>1, <1>7, <2>1, <2>2, <2>3 DEF ResultIdle, SlaveTypeOK, coreVars, Still
  <2>4. ASSUME NEW d \in Core, d # c PROVE ClientInv(d)'
    BY <1>3, <2>3, <2>4, ClientFrame
  <2>5. given[c] \in Jobs /\ Done(c, given[c])
    BY <1>4, <2>1 DEF ClientInv
  <2>6. Done(clientNo, given[clientNo])'
    BY <1>3, <1>7, <2>2, <2>5 DEF Done, ResultIdle, coreVars
  <2>7. ClientInv(clientNo)'
    BY <1>3, <2>1, <2>2, <2>5, <2>6 DEF ClientInv
  <2>8. AskedInv'
    BY <1>1, <1>3, <2>1, <2>2 DEF AskedInv
  <2> QED
    BY <1>2, <1>3, <1>4, <1>5, <2>4, <2>7, <2>8
<1> QED
  BY <1>1, <1>6, <1>7 DEF IsrStep

-----------------------------------------------------------------------------
(* The steps of the master *)

\* What the server says, when it says no junk, is a job line or a "BAD," line.
LEMMA AnswerTypes ==
  ASSUME Gentle
  PROVE  /\ \A s \in Answers : s = BadLine \/ \E j \in Jobs : s = Line(j)
         /\ \A j \in Jobs : Line(j) \in Seq(Chunk)
<1>1. \A s \in Answers : s = BadLine \/ \E j \in Jobs : s = Line(j)
  BY DEF Gentle, Answers
<1>2. ASSUME NEW j \in Jobs PROVE Line(j) \in Seq(Chunk)
  <2>1. \A n \in 1..3 : [job |-> j, fld |-> n] \in Chunk
    BY DEF Chunk, Texts
  <2>2. Line(j) \in [1..3 -> Chunk]
    BY <2>1 DEF Line
  <2> QED
    BY <2>2, SeqDef
<1> QED
  BY <1>1, <1>2

\* A read leaves every core alone, and what it gets is what the slave has ready
\* or nothing.
LEMMA ReadStill ==
  ASSUME IInv, NEW reply, Read(reply)
  PROVE  /\ isr = Ready /\ isr' = isr /\ isr.op = "none"
         /\ reply = request \/ reply = NoReply
         /\ \A d \in Core : Still(d) /\ status'[d] = status[d]
         /\ SlaveTypeOK' /\ WholeResult'
         /\ faults' \in 0..MaxFaults /\ reboots' = reboots
<1> USE DEF IInv, LinkTypeOK
<1>0. LinkTypeOK /\ faults \in 0..MaxFaults
  OBVIOUS
<1>1. isr = Ready /\ isr.op = "none" /\ (reply = request \/ reply = NoReply)
  BY ReadyType DEF Read
<1>2. OnRequest \/ UNCHANGED slaveVars
  BY DEF Read
<1>3. /\ isr' = isr /\ SlaveTypeOK'
      /\ \A d \in Core : Still(d) /\ status'[d] = status[d]
  BY <1>2, RequestStill, CommandTypes
<1>4. WholeResult'
  BY <1>2 DEF LinkInv, WholeResult, OnRequest, slaveVars, NoReply, PaddingReply
<1>5. faults' \in 0..MaxFaults /\ reboots' = reboots
  BY <1>0, BoundTypes DEF Read, bounds
<1> QED
  BY <1>1, <1>3, <1>4, <1>5

\* When no answer is pending, AskedInv says only that the handler is not setting
\* a status.
LEMMA NotAsked ==
  ASSUME ~asked', isr'.op # "result"
  PROVE  AskedInv'
BY DEF AskedInv

\* Whoever the loop is at, an answer to nothing is not waited for.
LEMMA AtWaits ==
  ASSUME IInv, NEW c, At(c, "HASH_CALCULATION") \/ At(c, "CONNECT") \/ At(c, "REQUEST_WAIT")
                        \/ At(c, "RESULT_WAIT") \/ At(c, "SLAVE_FAULT")
  PROVE  ~asked /\ isr.op # "result"
BY DEF IInv, LinkInv, AskedInv, At

\* writeCmd(CMD_STATUS) keeps the invariant.
LEMMA AskStatusStep ==
  ASSUME IInv, Gentle, NEW c \in Core, AskStatus(c)
  PROVE  IInv'
<1> USE DEF IInv, LinkInv
<1>1. /\ OnReadStatus /\ UNCHANGED bounds
      /\ state' = state /\ socket' = socket /\ retry' = retry /\ clientNo' = clientNo
      /\ given' = given /\ sent' = sent /\ asked' = TRUE
      /\ clientNo = c /\ state[c] \in {"JOB_REQUEST", "CALCULATION_WAIT"}
  BY DEF AskStatus, Written, Fault, Gentle, At
<1>2. /\ isr' = isr /\ isr.op = "none" /\ request' = StatusReply(status)
      /\ \A d \in Core : Still(d) /\ status'[d] = status[d]
  BY <1>1, RequestStill, ReadyType DEF OnReadStatus
<1>3. LinkTypeOK'
  BY <1>1, CommandTypes DEF LinkTypeOK, bounds
<1>4. \A d \in Core : ClientInv(d)'
  BY <1>1, <1>2, ClientFrame
<1>5. WholeResult'
  BY <1>2 DEF WholeResult, StatusReply
<1>6. AskedInv'
  <2>1. Phase(c) /\ (state[c] = "JOB_REQUEST" /\ given[c] \in Jobs => ~Coming(c, given[c]))
    BY <1>1 DEF ClientInv
  <2>2. request'.kind = "status" /\ request'.status[c] = status[c]
    BY <1>2 DEF StatusReply
  <2>3. status[c] = DONE => given[c] \in Jobs /\ Done(c, given[c])'
    BY <1>1, <1>2, <2>1, PhaseStatus, StillPhase
  <2>4. status[c] = IDLE /\ state[c] = "JOB_REQUEST" => Quiet(c)'
    BY <1>1, <1>2, <2>1, PhaseStatus, StillPhase
  <2> QED
    BY <1>1, <1>2, <2>2, <2>3, <2>4 DEF AskedInv
<1> QED
  BY <1>3, <1>4, <1>5, <1>6

\* JOB_REQUEST keeps the invariant: an IDLE that is 10 ms old still means quiet.
LEMMA JobRequestStep ==
  ASSUME IInv, Gentle, NEW c \in Core, JobRequest(c)
  PROVE  IInv'
<1> USE DEF IInv, LinkInv
<1>0. PICK reply : \E s \in StatusOf(c, reply) :
        /\ Read(reply)
        /\ \/ s = IDLE /\ (Become(c, "REQUEST_WAIT") \/ Become(c, "CONNECT")) /\ retry' = retry
           \/ s = BUSY /\ state' = state /\ retry' = retry
           \/ s = DONE /\ Become(c, "SEND_RESULT") /\ retry' = retry
           \/ /\ s = "wrong" /\ retry[c] < MaxRetry /\ state' = state
              /\ retry' = [retry EXCEPT ![c] = @ + 1]
           \/ s = "wrong" /\ Become(c, "SLAVE_FAULT") /\ retry' = retry
  BY DEF JobRequest
<1>1. PICK s \in StatusOf(c, reply) :
        /\ Read(reply)
        /\ \/ s = IDLE /\ (Become(c, "REQUEST_WAIT") \/ Become(c, "CONNECT")) /\ retry' = retry
           \/ s = BUSY /\ state' = state /\ retry' = retry
           \/ s = DONE /\ Become(c, "SEND_RESULT") /\ retry' = retry
           \/ /\ s = "wrong" /\ retry[c] < MaxRetry /\ state' = state
              /\ retry' = [retry EXCEPT ![c] = @ + 1]
           \/ s = "wrong" /\ Become(c, "SLAVE_FAULT") /\ retry' = retry
  BY <1>0
<1>2. /\ clientNo = c /\ state[c] = "JOB_REQUEST" /\ asked /\ asked' = FALSE /\ clientNo' = 1 - c
      /\ socket' = socket /\ given' = given /\ sent' = sent
  BY DEF JobRequest, At, NextClient
<1>3. /\ isr' = isr /\ isr.op = "none" /\ (reply = request \/ reply = NoReply)
      /\ \A d \in Core : Still(d) /\ status'[d] = status[d]
      /\ SlaveTypeOK' /\ WholeResult' /\ faults' \in 0..MaxFaults /\ reboots' = reboots
  BY <1>1, ReadStill
<1>4. /\ state' \in [Core -> States] /\ retry' \in [Core -> 0..MaxRetry]
      /\ clientNo' \in Core
  <2>1. state' \in [Core -> States]
    BY <1>1 DEF LinkTypeOK, States, Become
  <2>2. retry \in [Core -> 0..MaxRetry] /\ MaxRetry \in Nat
    BY LinkAssumption DEF LinkTypeOK
  <2>3. retry' = retry \/ (retry[c] < MaxRetry /\ retry' = [retry EXCEPT ![c] = @ + 1])
    BY <1>1
  <2>4. retry' \in [Core -> 0..MaxRetry]
    BY <2>2, <2>3
  <2> QED
    BY <1>2, <2>1, <2>4 DEF Core
<1>5. LinkTypeOK'
  BY <1>2, <1>3, <1>4 DEF LinkTypeOK
<1>6. ASSUME NEW d \in Core, d # c PROVE ClientInv(d)'
  <2>1. state'[d] = state[d]
    BY <1>1, <1>6 DEF Become, LinkTypeOK
  <2> QED
    BY <1>2, <1>3, <2>1, ClientFrame
<1>7. ClientInv(c)'
  <2>1. request.kind = "status" /\ NoReply.kind = "empty"
    BY <1>2 DEF AskedInv, NoReply
  <2>2. s = request.status[c] \/ s = "wrong"
    BY <1>1, <1>3, <2>1 DEF StatusOf
  <2>3. CASE s = IDLE
    <3>1. Quiet(c)
      BY <1>2, <2>2, <2>3 DEF AskedInv, IDLE
    <3>2. state'[c] \in {"REQUEST_WAIT", "CONNECT"}
      BY <1>1, <2>3 DEF Become, LinkTypeOK, IDLE, BUSY, DONE
    <3>3. Quiet(c)' /\ Phase(c)' /\ (given'[c] \in Jobs => ~Coming(c, given[c])')
      BY <1>2, <1>3, <3>1, QuietPhase, StillPhase
    <3> QED
      BY <1>2, <3>2, <3>3 DEF ClientInv
  <2>4. CASE s = DONE
    <3>1. given[c] \in Jobs /\ Done(c, given[c]) /\ status[c] = DONE
      BY <1>2, <2>2, <2>4 DEF AskedInv, DONE
    <3>2. state'[c] = "SEND_RESULT"
      BY <1>1, <2>4 DEF Become, LinkTypeOK, IDLE, BUSY, DONE
    <3>3. Done(c, given[c])' /\ status'[c] = DONE
      BY <1>2, <1>3, <3>1, StillPhase
    <3> QED
      BY <1>2, <3>1, <3>2, <3>3 DEF ClientInv
  <2>5. CASE s # IDLE /\ s # DONE
    <3>1. state'[c] \in {"JOB_REQUEST", "SLAVE_FAULT"}
      BY <1>1, <1>2, <2>5 DEF Become, LinkTypeOK
    <3>2. Phase(c)' /\ (given[c] \in Jobs => ~Coming(c, given[c])')
      BY <1>2, <1>3, StillPhase DEF ClientInv
    <3> QED
      BY <1>2, <3>1, <3>2 DEF ClientInv
  <2> QED
    BY <2>3, <2>4, <2>5
<1>8. AskedInv'
  BY <1>2, <1>3, NotAsked
<1> QED
  BY <1>3, <1>5, <1>6, <1>7, <1>8

\* CALCULATION_WAIT keeps the invariant: a DONE that is 10 ms old still holds.
LEMMA CalculationWaitStep ==
  ASSUME IInv, Gentle, NEW c \in Core, CalculationWait(c)
  PROVE  IInv'
<1> USE DEF IInv, LinkInv
<1>0. PICK reply : \E s \in StatusOf(c, reply) :
        /\ Read(reply)
        /\ \/ s = DONE /\ Become(c, "SEND_RESULT")
           \/ state' = state
  BY DEF CalculationWait
<1>1. PICK s \in StatusOf(c, reply) :
        /\ Read(reply)
        /\ \/ s = DONE /\ Become(c, "SEND_RESULT")
           \/ state' = state
  BY <1>0
<1>2. /\ clientNo = c /\ state[c] = "CALCULATION_WAIT" /\ asked /\ asked' = FALSE /\ clientNo' = 1 - c
      /\ socket' = socket /\ given' = given /\ sent' = sent /\ retry' = retry
  BY DEF CalculationWait, At, NextClient
<1>3. /\ isr' = isr /\ isr.op = "none" /\ (reply = request \/ reply = NoReply)
      /\ \A d \in Core : Still(d) /\ status'[d] = status[d]
      /\ SlaveTypeOK' /\ WholeResult' /\ faults' \in 0..MaxFaults /\ reboots' = reboots
  BY <1>1, ReadStill
<1>4. state' \in [Core -> States] /\ clientNo' \in Core
  BY <1>1, <1>2 DEF LinkTypeOK, States, Become, Core
<1>5. LinkTypeOK'
  BY <1>2, <1>3, <1>4 DEF LinkTypeOK
<1>6. ASSUME NEW d \in Core, d # c PROVE ClientInv(d)'
  <2>1. state'[d] = state[d]
    BY <1>1, <1>6 DEF Become, LinkTypeOK
  <2> QED
    BY <1>2, <1>3, <2>1, ClientFrame
<1>7. ClientInv(c)'
  <2>1. CASE state' = state
    BY <1>2, <1>3, <2>1, ClientFrame
  <2>2. CASE s = DONE /\ Become(c, "SEND_RESULT")
    <3>1. request.kind = "status" /\ NoReply.kind = "empty"
      BY <1>2 DEF AskedInv, NoReply
    <3>2. request.status[c] = DONE
      BY <1>1, <1>3, <2>2, <3>1 DEF StatusOf, DONE
    <3>3. given[c] \in Jobs /\ Done(c, given[c]) /\ status[c] = DONE
      BY <1>2, <3>2 DEF AskedInv
    <3>4. Done(c, given[c])' /\ status'[c] = DONE
      BY <1>2, <1>3, <3>3, StillPhase
    <3>5. state'[c] = "SEND_RESULT"
      BY <2>2 DEF Become, LinkTypeOK
    <3> QED
      BY <1>2, <3>3, <3>4, <3>5 DEF ClientInv
  <2> QED
    BY <1>1, <2>1, <2>2
<1>8. AskedInv'
  BY <1>2, <1>3, NotAsked
<1> QED
  BY <1>3, <1>5, <1>6, <1>7, <1>8

\* An answer that starts with "BAD," leads back to JOB_REQUEST, and keeps it.
LEMMA BadJobStep ==
  ASSUME IInv, NEW c \in Core, BadJob(c)
  PROVE  IInv'
<1> USE DEF IInv, LinkInv
<1>1. /\ At(c, "HASH_CALCULATION") /\ state' = [state EXCEPT ![c] = "JOB_REQUEST"]
      /\ clientNo' = 1 - c /\ UNCHANGED slaveVars /\ bounds' = bounds
      /\ socket' = socket /\ given' = given /\ sent' = sent /\ retry' = retry /\ asked' = asked
  BY DEF BadJob, At, Become, NextClient
<1>2. /\ isr' = isr /\ \A d \in Core : Still(d) /\ status'[d] = status[d]
  BY <1>1, RequestStill
<1>3. LinkTypeOK'
  BY <1>1, CommandTypes DEF LinkTypeOK, States, bounds, Core
<1>4. ASSUME NEW d \in Core, d # c PROVE ClientInv(d)'
  BY <1>1, <1>2, <1>4, ClientFrame DEF LinkTypeOK
<1>5. ClientInv(c)'
  <2>1. Quiet(c) /\ state'[c] = "JOB_REQUEST"
    BY <1>1 DEF ClientInv, At, LinkTypeOK
  <2>2. Phase(c)' /\ (given'[c] \in Jobs => ~Coming(c, given[c])')
    BY <1>1, <1>2, <2>1, QuietPhase, StillPhase
  <2> QED
    BY <1>1, <2>1, <2>2 DEF ClientInv
<1>6. AskedInv'
  BY <1>1, <1>2, AtWaits, NotAsked
<1>7. WholeResult'
  BY <1>1 DEF WholeResult, slaveVars
<1> QED
  BY <1>3, <1>4, <1>5, <1>6, <1>7

\* writeCmd(CMD_WRITE_JOB), or its loss, keeps the invariant: the core is quiet
\* and the line starts to come in.
LEMMA WriteJobStep ==
  ASSUME IInv, Gentle, NEW c \in Core, WriteJob(c)
  PROVE  IInv'
<1> USE DEF IInv, LinkInv
<1>1. /\ At(c, "HASH_CALCULATION") /\ state' = [state EXCEPT ![c] = "CALCULATION_WAIT"]
      /\ clientNo' = 1 - c
      /\ socket' = socket /\ sent' = sent /\ retry' = retry /\ asked' = asked
  BY DEF WriteJob, At, Become, NextClient
<1>2. ~asked /\ isr.op # "result"
  BY <1>1, AtWaits
<1>3. Quiet(c) /\ state'[c] = "CALCULATION_WAIT"
  BY <1>1 DEF ClientInv, At, LinkTypeOK
<1>4. PICK j \in Jobs : socket[c] = Line(j)
  BY <1>1, AnswerTypes DEF WriteJob, At, ClientInv
<1>5. CASE Fault("job lost") /\ UNCHANGED <<slaveVars, given>>
  <2>1. /\ isr' = isr /\ given' = given
        /\ \A d \in Core : Still(d) /\ status'[d] = status[d]
    BY <1>5, RequestStill
  <2>2. faults' \in 0..MaxFaults /\ reboots' = reboots
    BY <1>5, BoundTypes
  <2>3. LinkTypeOK'
    <3>1. SlaveTypeOK'
      BY <1>5, CommandTypes DEF LinkTypeOK
    <3>2. state' \in [Core -> States] /\ clientNo' \in Core
      BY <1>1 DEF LinkTypeOK, States, At, Core
    <3> QED
      BY <1>1, <2>1, <2>2, <3>1, <3>2 DEF LinkTypeOK
  <2>4. ASSUME NEW d \in Core, d # c PROVE ClientInv(d)'
    BY <1>1, <2>1, <2>4, ClientFrame DEF LinkTypeOK
  <2>5. ClientInv(c)'
    BY <1>3, <2>1, QuietPhase, StillPhase DEF ClientInv
  <2>6. AskedInv' /\ WholeResult'
    BY <1>1, <1>2, <1>5, <2>1, NotAsked DEF WholeResult, slaveVars
  <2> QED
    BY <2>3, <2>4, <2>5, <2>6
<1>6. CASE /\ OnJobAllocate(c, socket[c]) /\ UNCHANGED bounds
           /\ given' = [given EXCEPT ![c] = socket[c][1].job]
  <2>1. /\ isr = Ready /\ isr.op = "none" /\ Line(j) # <<>>
        /\ isr' = [op |-> "job", core |-> c, todo |-> Line(j)]
        /\ UNCHANGED <<status, rx, temp, pc, field, seen, request>>
    BY <1>4, <1>6, LineFacts, ReadyType DEF OnJobAllocate, coreVars
  <2>2. given' = [given EXCEPT ![c] = j]
    BY <1>4, <1>6, LineFacts
  <2>3. SlaveTypeOK'
    BY <1>4, <1>6, AnswerTypes, CommandTypes DEF LinkTypeOK
  <2>4. LinkTypeOK'
    BY <1>1, <1>6, <2>2, <2>3 DEF LinkTypeOK, States, Texts, bounds, Core
  <2>5. ASSUME NEW d \in Core, d # c PROVE ClientInv(d)'
    <3>1. Still(d)
      BY <2>1, <2>5 DEF Still
    <3> QED
      BY <1>1, <2>2, <2>5, <3>1, ClientFrame DEF LinkTypeOK
  <2>6. ClientInv(c)'
    <3>1. given'[c] = j
      BY <2>2 DEF LinkTypeOK
    <3>2. status'[c] = IDLE /\ pc'[c] = "scan" /\ rx'[c] = Begun(j, 0)
      BY <1>3, <2>1, LineFacts DEF Quiet
    <3>3. isr'.op = "job" /\ isr'.core = c /\ isr'.todo = Rest(j, 0)
      BY <2>1, LineFacts
    <3>4. Coming(c, j)'
      BY <3>2, <3>3 DEF Coming
    <3>5. Coming(c, given[c])'
      BY <3>1, <3>4
    <3> QED
      BY <1>3, <3>1, <3>5 DEF ClientInv, Phase
  <2>7. AskedInv' /\ WholeResult'
    BY <1>1, <1>2, <2>1, NotAsked DEF WholeResult
  <2> QED
    BY <2>4, <2>5, <2>6, <2>7
<1> QED
  BY <1>5, <1>6 DEF WriteJob, Fault, Gentle

\* writeCmd(CMD_READ_RESULT) keeps the invariant: the copy is the result of the
\* last line.
LEMMA AskResultStep ==
  ASSUME IInv, Gentle, NEW c \in Core, AskResult(c)
  PROVE  IInv'
<1> USE DEF IInv, LinkInv
<1>1. /\ OnReadResult(c) /\ UNCHANGED bounds
      /\ state' = state /\ socket' = socket /\ clientNo' = clientNo
      /\ given' = given /\ sent' = sent /\ asked' = TRUE
      /\ clientNo = c /\ state[c] = "SEND_RESULT" /\ retry' = [retry EXCEPT ![c] = 0]
  BY DEF AskResult, Written, Fault, Gentle, At
<1>2. /\ isr.op = "none" /\ isr'.op = "result" /\ isr'.core = c
      /\ request' = ResultReply(temp[c])
      /\ UNCHANGED <<status, rx, temp, pc, field, seen>>
  BY <1>1, ReadyType DEF OnReadResult, coreVars
<1>3. \A d \in Core : Still(d)
  BY <1>2 DEF Still
<1>4. retry' \in [Core -> 0..MaxRetry] /\ retry'[c] = 0
  BY <1>1, BoundTypes DEF LinkTypeOK
<1>5. LinkTypeOK'
  BY <1>1, <1>4, CommandTypes DEF LinkTypeOK, bounds
<1>6. \A d \in Core : ClientInv(d)'
  BY <1>1, <1>3, ClientFrame
<1>7. given[c] \in Jobs /\ temp[c] = given[c]
  BY <1>1 DEF ClientInv, Done
<1>8. WholeResult'
  BY <1>2, <1>7 DEF WholeResult, ResultReply
<1>9. AskedInv'
  BY <1>1, <1>2, <1>4, <1>7 DEF AskedInv
<1> QED
  BY <1>5, <1>6, <1>8, <1>9

\* SEND_RESULT keeps the invariant, whether the result arrives or the read fails.
LEMMA SendResultStep ==
  ASSUME IInv, NEW c \in Core, SendResult(c)
  PROVE  IInv'
<1> USE DEF IInv, LinkInv
<1>1. PICK reply :
        /\ Read(reply)
        /\ \/ /\ retry' = [retry EXCEPT ![c] = @ + 1] /\ state' = state /\ sent' = sent
           \/ /\ Become(c, "CONNECT") /\ retry' = retry /\ sent' = sent
           \/ /\ ~NoResult(reply) /\ Become(c, "RESULT_WAIT") /\ retry' = retry
              /\ sent' = [sent EXCEPT ![c] = reply.result]
  BY DEF SendResult
<1>2. /\ clientNo = c /\ state[c] = "SEND_RESULT" /\ asked /\ asked' = FALSE /\ clientNo' = 1 - c
      /\ socket' = socket /\ given' = given
  BY DEF SendResult, At, NextClient
<1>3. /\ isr' = isr /\ isr.op = "none" /\ (reply = request \/ reply = NoReply)
      /\ \A d \in Core : Still(d) /\ status'[d] = status[d]
      /\ SlaveTypeOK' /\ WholeResult' /\ faults' \in 0..MaxFaults /\ reboots' = reboots
  BY <1>1, ReadStill
<1>4. /\ request = ResultReply(given[c]) /\ retry[c] = 0 /\ status[c] = IDLE
      /\ given[c] \in Jobs /\ Done(c, given[c])
  BY <1>2, <1>3 DEF AskedInv, ClientInv
<1>5. Quiet(c)
  BY <1>4 DEF Quiet, Done
<1>6. ~NoResult(reply) => reply.result = given[c]
  BY <1>3, <1>4 DEF NoResult, NoReply, ResultReply
<1>7. /\ state' \in [Core -> States] /\ retry' \in [Core -> 0..MaxRetry]
      /\ sent' \in [Core -> Result \cup {NoJob}] /\ clientNo' \in Core
  <2>1. state' \in [Core -> States] /\ clientNo' \in Core
    BY <1>1, <1>2 DEF LinkTypeOK, States, Become, Core
  <2>2. retry' = retry \/ retry' = [retry EXCEPT ![c] = 1]
    BY <1>1, <1>4 DEF LinkTypeOK
  <2>3. retry \in [Core -> 0..MaxRetry] /\ 1 \in 0..MaxRetry
    BY BoundTypes DEF LinkTypeOK
  <2>4. retry' \in [Core -> 0..MaxRetry]
    BY <2>2, <2>3
  <2>5. sent' = sent \/ sent' = [sent EXCEPT ![c] = given[c]]
    BY <1>1, <1>6
  <2>6. sent' \in [Core -> Result \cup {NoJob}]
    BY <1>4, <2>5 DEF LinkTypeOK, Result
  <2> QED
    BY <2>1, <2>4, <2>6
<1>8. LinkTypeOK'
  BY <1>2, <1>3, <1>7 DEF LinkTypeOK
<1>9. ASSUME NEW d \in Core, d # c PROVE ClientInv(d)'
  <2>1. state'[d] = state[d] /\ sent'[d] = sent[d]
    BY <1>1, <1>9 DEF Become, LinkTypeOK
  <2> QED
    BY <1>2, <1>3, <2>1, ClientFrame
<1>10. ClientInv(c)'
  <2>1. /\ Quiet(c)' /\ Phase(c)' /\ Done(c, given[c])' /\ status'[c] = IDLE
        /\ (given'[c] \in Jobs => ~Coming(c, given[c])')
    BY <1>2, <1>3, <1>4, <1>5, QuietPhase, StillPhase
  <2>2. CASE state' = state
    BY <1>2, <1>4, <2>1, <2>2 DEF ClientInv
  <2>3. CASE Become(c, "CONNECT")
    <3>1. state'[c] = "CONNECT"
      BY <2>3 DEF Become, LinkTypeOK
    <3> QED
      BY <2>1, <3>1 DEF ClientInv
  <2>4. CASE Become(c, "RESULT_WAIT") /\ sent' = [sent EXCEPT ![c] = reply.result] /\ ~NoResult(reply)
    <3>1. state'[c] = "RESULT_WAIT" /\ sent'[c] = given[c] /\ given'[c] = given[c]
      BY <1>2, <1>6, <2>4 DEF Become, LinkTypeOK
    <3> QED
      BY <2>1, <3>1 DEF ClientInv
  <2> QED
    BY <1>1, <2>2, <2>3, <2>4
<1>11. AskedInv'
  BY <1>2, <1>3, NotAsked
<1> QED
  BY <1>3, <1>8, <1>9, <1>10, <1>11

\* A step that only moves a client on, from a state in which its core is quiet,
\* or not out of its state.
LEMMA MovedOn ==
  ASSUME IInv, NEW c \in Core, UNCHANGED slaveVars, given' = given, sent' = sent,
         socket' = socket,
         \/ state' = state
         \/ /\ state[c] \in {"REQUEST_WAIT", "RESULT_WAIT"}
            /\ \E s \in {"JOB_REQUEST", "CONNECT"} : state' = [state EXCEPT ![c] = s]
  PROVE  /\ \A d \in Core : ClientInv(d)'
         /\ state' \in [Core -> States]
<1> USE DEF IInv, LinkInv
<1>1. \A d \in Core : Still(d)
  BY RequestStill
<1>2. ASSUME NEW d \in Core, state'[d] = state[d] PROVE ClientInv(d)'
  BY <1>1, <1>2, ClientFrame
<1>3. ASSUME state[c] \in {"REQUEST_WAIT", "RESULT_WAIT"},
             NEW s \in {"JOB_REQUEST", "CONNECT"}, state' = [state EXCEPT ![c] = s]
      PROVE  (\A d \in Core : ClientInv(d)') /\ state' \in [Core -> States]
  <2>1. state'[c] = s /\ (\A d \in Core : d # c => state'[d] = state[d])
        /\ state' \in [Core -> States]
    BY <1>3 DEF LinkTypeOK, States
  <2>2. Quiet(c)
    BY <1>3 DEF ClientInv
  <2>3. Phase(c)' /\ (given'[c] \in Jobs => ~Coming(c, given[c])')
    BY <1>1, <2>2, QuietPhase, StillPhase
  <2>4. ClientInv(c)'
    BY <2>1, <2>3 DEF ClientInv
  <2> QED
    BY <1>2, <2>1, <2>4
<1>4. CASE state' = state
  BY <1>2, <1>4 DEF LinkTypeOK
<1> QED
  BY <1>3, <1>4

\* A turn of a client that waits for the server keeps the invariant.
LEMMA WaitStep ==
  ASSUME IInv, NEW c \in Core, Wait(c)
  PROVE  IInv'
<1>1. /\ clientNo = c /\ clientNo' = 1 - c /\ UNCHANGED slaveVars /\ bounds' = bounds
      /\ socket' = socket /\ given' = given /\ sent' = sent /\ retry' = retry /\ asked' = asked
  BY DEF Wait, NextClient
<1>2. \/ state' = state
      \/ /\ state[c] \in {"REQUEST_WAIT", "RESULT_WAIT"}
         /\ \E s \in {"JOB_REQUEST", "CONNECT"} : state' = [state EXCEPT ![c] = s]
  BY DEF Wait, Become
<1>3. state' \in [Core -> States] /\ \A d \in Core : ClientInv(d)'
  BY <1>1, <1>2, MovedOn
<1>4. LinkTypeOK'
  BY <1>1, <1>3, CommandTypes DEF IInv, LinkTypeOK, bounds, Core
<1>5. ~asked /\ isr.op # "result"
  <2>1. state[c] \in {"CONNECT", "REQUEST_WAIT", "RESULT_WAIT", "SLAVE_FAULT"}
    BY DEF Wait
  <2> QED
    BY <1>1, <2>1, AtWaits DEF At
<1>6. AskedInv' /\ WholeResult'
  BY <1>1, <1>5, NotAsked DEF IInv, LinkInv, WholeResult, slaveVars
<1> QED
  BY <1>3, <1>4, <1>6 DEF IInv, LinkInv

\* The callbacks move a client that waits; the client that was asked about is
\* not one of those.
LEMMA NetworkStep ==
  ASSUME IInv, NEW c \in Core, Connected(c) \/ Answered(c) \/ Judged(c)
  PROVE  IInv'
<1> USE DEF IInv, LinkInv
<1>1. /\ UNCHANGED slaveVars /\ bounds' = bounds /\ clientNo' = clientNo
      /\ given' = given /\ sent' = sent /\ retry' = retry /\ asked' = asked
  BY DEF Connected, Answered, Judged, Network
<1>2. PICK s \in {"JOB_REQUEST", "HASH_CALCULATION"} : state' = [state EXCEPT ![c] = s]
  BY DEF Connected, Answered, Judged, Become
<1>3. state[c] \in {"CONNECT", "REQUEST_WAIT", "RESULT_WAIT"}
  BY DEF Connected, Answered, Judged
<1>4. /\ state' \in [Core -> States] /\ state'[c] = s
      /\ \A d \in Core : d # c => state'[d] = state[d]
  BY <1>2 DEF LinkTypeOK, States
<1>5. /\ \A d \in Core : Still(d)
      /\ socket' = socket \/ \E a \in Answers : socket' = [socket EXCEPT ![c] = a]
  BY <1>1, RequestStill DEF Connected, Answered, Judged
<1>6. LinkTypeOK'
  BY <1>1, <1>4, <1>5, CommandTypes DEF LinkTypeOK, bounds
<1>7. ASSUME NEW d \in Core, d # c PROVE ClientInv(d)'
  <2>1. socket'[d] = socket[d]
    BY <1>5, <1>7 DEF LinkTypeOK
  <2> QED
    BY <1>1, <1>4, <1>5, <1>7, <2>1, ClientFrame
<1>8. ClientInv(c)'
  <2>1. CASE Answered(c)
    <3>1. Quiet(c)
      BY <2>1 DEF Answered, ClientInv
    <3>2. state'[c] = "HASH_CALCULATION" /\ socket'[c] \in Answers
      BY <2>1 DEF Answered, Become, LinkTypeOK
    <3> QED
      BY <1>1, <1>5, <3>1, <3>2, StillPhase DEF ClientInv
  <2>2. CASE Connected(c) \/ Judged(c)
    <3>1. Phase(c) /\ (given[c] \in Jobs => ~Coming(c, given[c]))
      BY <2>2, QuietPhase DEF Connected, Judged, ClientInv
    <3>2. state'[c] = "JOB_REQUEST"
      BY <2>2 DEF Connected, Judged, Become, LinkTypeOK
    <3>3. Phase(c)' /\ (given'[c] \in Jobs => ~Coming(c, given[c])')
      BY <1>1, <1>5, <3>1, StillPhase
    <3> QED
      BY <1>1, <3>2, <3>3 DEF ClientInv
  <2> QED
    BY <2>1, <2>2
<1>9. AskedInv'
  <2>1. clientNo \in Core /\ (asked => clientNo # c)
    BY <1>3 DEF LinkTypeOK, AskedInv
  <2>2. /\ isr' = isr /\ request' = request /\ \A d \in Core : status'[d] = status[d]
    BY <1>1 DEF slaveVars
  <2>3. CASE ~asked
    BY <1>1, <2>2, <2>3, NotAsked DEF AskedInv
  <2>4. CASE asked
    <3>1. state'[clientNo] = state[clientNo]
      BY <1>4, <2>1, <2>4
    <3>2. /\ Quiet(clientNo)' <=> Quiet(clientNo)
          /\ Done(clientNo, given[clientNo])' <=> Done(clientNo, given[clientNo])
      BY <1>1, <1>5, <2>1, StillPhase
    <3> QED
      BY <1>1, <2>1, <2>2, <2>4, <3>1, <3>2 DEF AskedInv
  <2> QED
    BY <2>3, <2>4
<1>10. WholeResult'
  BY <1>1 DEF WholeResult, slaveVars
<1> QED
  BY <1>6, <1>7, <1>8, <1>9, <1>10

\* A restarted master finds every core at rest, at work, or with a result that
\* nobody has read, but never with a line that it does not look at yet.
LEMMA RebootStep ==
  ASSUME IInv, Reboot
  PROVE  IInv'
<1> USE DEF IInv, LinkInv
<1>1. /\ OnConfigure /\ isr = Ready /\ isr' = isr /\ isr.op = "none" /\ given' = given /\ sent' = sent
      /\ request' = request /\ faults' = faults /\ reboots' \in 0..MaxReboots
      /\ clientNo' = 0 /\ asked' = FALSE
      /\ state' = [c \in Core |-> "CONNECT"] /\ socket' = [c \in Core |-> <<>>]
      /\ retry' = [c \in Core |-> 0]
  <2>1. reboots' \in 0..MaxReboots
    <3>1. MaxReboots \in Nat /\ reboots \in 0..MaxReboots
      BY LinkAssumption DEF LinkTypeOK
    <3> QED
      BY <3>1 DEF Reboot
  <2> QED
    BY <2>1, ReadyType DEF Reboot, OnConfigure
<1>2. \A d \in Core : Still(d) /\ status'[d] = status[d]
  BY <1>1, RequestStill
<1>3. LinkTypeOK'
  BY <1>1, CommandTypes, BoundTypes DEF LinkTypeOK, States, Core
<1>4. ASSUME NEW c \in Core PROVE ClientInv(c)'
  <2>1. PickedUp(c) /\ state[c] \in States
    BY DEF Reboot, LinkTypeOK
  <2>2. ASSUME NEW j \in Jobs, Coming(c, j) PROVE FALSE
    BY <1>1, <2>1, <2>2, LineFacts DEF PickedUp, Coming
  <2>3. Phase(c) /\ (given[c] \in Jobs => ~Coming(c, given[c]))
    BY <2>1, <2>2, QuietPhase, DonePhase DEF ClientInv, States
  <2>4. Phase(c)' /\ (given'[c] \in Jobs => ~Coming(c, given[c])')
    BY <1>1, <1>2, <2>3, StillPhase
  <2>5. state'[c] = "CONNECT"
    BY <1>1
  <2> QED
    BY <2>4, <2>5 DEF ClientInv
<1>5. AskedInv'
  BY <1>1, NotAsked
<1>6. WholeResult'
  BY <1>1 DEF WholeResult
<1> QED
  BY <1>3, <1>4, <1>5, <1>6

\* The invariant holds when master and slave start.
LEMMA InitIInv == Init => IInv
<1> SUFFICES ASSUME Init PROVE IInv
  OBVIOUS
<1>1. SlaveTypeOK
  BY ReadyType, ReplyTypes, SlaveAssumption
     DEF Init, SlaveInit, SlaveTypeOK, HashCalStatus, Result, Pc, Config
<1>2. faults \in 0..MaxFaults /\ reboots \in 0..MaxReboots /\ retry \in [Core -> 0..MaxRetry]
  <2>1. MaxFaults \in Nat /\ MaxReboots \in Nat /\ MaxRetry \in Nat
    BY LinkAssumption
  <2>2. 0 \in 0..MaxFaults /\ 0 \in 0..MaxReboots /\ 0 \in 0..MaxRetry
    BY <2>1
  <2> QED
    BY <2>2 DEF Init
<1>3. LinkTypeOK
  BY <1>1, <1>2 DEF Init, LinkTypeOK, States, Core
<1>4. ASSUME NEW c \in Core PROVE ClientInv(c)
  <2>1. Quiet(c) /\ state[c] = "CONNECT"
    BY ReadyType DEF Init, SlaveInit, Quiet
  <2> QED
    BY <2>1, QuietPhase DEF ClientInv
<1>5. AskedInv /\ WholeResult
  BY ReadyType DEF Init, SlaveInit, AskedInv, WholeResult, NoReply
<1> QED
  BY <1>3, <1>4, <1>5 DEF IInv, LinkInv

\* Every step keeps the invariant.
LEMMA NextIInv ==
  ASSUME Gentle, IInv, [Next]_vars
  PROVE  IInv'
<1>1. ASSUME NEW c \in Core, Turn(c) PROVE IInv'
  BY <1>1, AskStatusStep, JobRequestStep, CalculationWaitStep, BadJobStep, WriteJobStep,
     AskResultStep, SendResultStep, WaitStep DEF Turn
<1>2. ASSUME NEW c \in Core, Connected(c) \/ Answered(c) \/ Judged(c) PROVE IInv'
  BY <1>2, NetworkStep
<1>3. ASSUME NEW c \in Core, Slave(c) PROVE IInv'
  BY <1>3, SlaveStep
<1>4. CASE Isr
  BY <1>4, IsrInvStep
<1>5. CASE Reboot
  BY <1>5, RebootStep
<1>6. CASE UNCHANGED vars
  <2>1. UNCHANGED <<slaveVars, state, socket, retry, clientNo, asked, faults, reboots, given, sent>>
    BY <1>6 DEF vars, masterVars, bounds
  <2>2. LinkTypeOK'
    BY <2>1, CommandTypes DEF IInv, LinkTypeOK
  <2>3. \A d \in Core : ClientInv(d)'
    BY <2>1, MovedOn
  <2>4. /\ isr' = isr /\ request' = request /\ status' = status
        /\ \A d \in Core : (Quiet(d)' <=> Quiet(d)) /\ \A j : Done(d, j)' <=> Done(d, j)
    BY <2>1, RequestStill, StillPhase DEF slaveVars
  <2>5. AskedInv' /\ WholeResult'
    BY <2>1, <2>4 DEF IInv, LinkInv, LinkTypeOK, AskedInv, WholeResult
  <2> QED
    BY <2>2, <2>3, <2>5 DEF IInv, LinkInv
<1> QED
  BY <1>1, <1>2, <1>3, <1>4, <1>5, <1>6 DEF Next

\* The phases of every client, for any number of jobs, restarts, lost reads and
\* lost lines.
THEOREM LinkInvariant ==
  ASSUME Gentle
  PROVE  Spec => []IInv
<1>1. Init => IInv
  BY InitIInv
<1>2. IInv /\ [Next]_vars => IInv'
  BY NextIInv
<1> QED
  BY <1>1, <1>2, PTL DEF Spec

-----------------------------------------------------------------------------
(* What it says of the buffers and of the results *)

\* The invariant implies NoRace.
LEMMA IInvNoRace == IInv => NoRace
<1> SUFFICES ASSUME IInv, isr.op = "job" PROVE pc[isr.core] = "scan"
  BY DEF NoRace
<1>1. PICK c \in Core : c = isr.core
  BY DEF IInv, LinkTypeOK, SlaveTypeOK, IsrWork
<1>2. ClientInv(c) /\ state[c] \in States
  BY DEF IInv, LinkInv, LinkTypeOK
<1>3. Coming(c, given[c])
  BY <1>1, <1>2 DEF ClientInv, Phase, Quiet, Done, InWork, States
<1> QED
  BY <1>1, <1>3 DEF Coming

\* The invariant implies what the results and the jobs are required to be.
LEMMA IInvResults == IInv => WholeResult /\ OneJobAtATime /\ ResultOfLastJob
BY DEF IInv, LinkInv, ClientInv, OneJobAtATime, ResultOfLastJob

\* The interrupt handler never writes to a receive buffer that its core is
\* reading: write and readStringUntil of charbuffer.cpp need no lock here.
THEOREM NoRaceTheorem ==
  ASSUME Gentle
  PROVE  Spec => []NoRace
<1>1. Spec => []IInv
  BY LinkInvariant
<1>2. IInv => NoRace
  BY IInvNoRace
<1> QED
  BY <1>1, <1>2, PTL

\* No result leaves the slave before sprintf has finished it, or after the
\* buffer was wiped for the next job.
THEOREM WholeResultTheorem ==
  ASSUME Gentle
  PROVE  Spec => []WholeResult
<1>1. Spec => []IInv
  BY LinkInvariant
<1>2. IInv => WholeResult
  BY IInvResults
<1> QED
  BY <1>1, <1>2, PTL

\* No job is written to a core that has one, restarted master or not.
THEOREM OneJobTheorem ==
  ASSUME Gentle
  PROVE  Spec => []OneJobAtATime
<1>1. Spec => []IInv
  BY LinkInvariant
<1>2. IInv => OneJobAtATime
  BY IInvResults
<1> QED
  BY <1>1, <1>2, PTL

\* The server gets, for a client, the result of the job it last had.
THEOREM ResultOfLastJobTheorem ==
  ASSUME Gentle
  PROVE  Spec => []ResultOfLastJob
<1>1. Spec => []IInv
  BY LinkInvariant
<1>2. IInv => ResultOfLastJob
  BY IInvResults
<1> QED
  BY <1>1, <1>2, PTL

-----------------------------------------------------------------------------
(* The cores are hash workers *)

\* What a core is to the rig in each phase of its job.
LEMMA WorkPhase ==
  ASSUME NEW c \in Core
  PROVE  /\ Quiet(c) /\ state[c] # "SEND_RESULT" => WorkOf(c) = Worker!Free
         /\ state[c] = "SEND_RESULT" \/ status[c] = DONE =>
              WorkOf(c) = [job |-> given[c], stage |-> "finished"]
         /\ \A j : (Coming(c, j) \/ InWork(c, j)) /\ state[c] # "SEND_RESULT" =>
              WorkOf(c) = Worker!Taken(given[c])
<1>1. ASSUME NEW j, Coming(c, j) \/ InWork(c, j), state[c] # "SEND_RESULT"
      PROVE  WorkOf(c) = Worker!Taken(given[c])
  <2>1. status[c] # DONE
    BY <1>1 DEF Coming, InWork, IDLE, BUSY, DONE
  <2>2. pc[c] # "scan" \/ rx[c] # <<>> \/ (isr.op = "job" /\ isr.core = c)
    <3>1. CASE Coming(c, j)
      BY <3>1, LineFacts DEF Coming
    <3>2. CASE InWork(c, j)
      BY <3>2 DEF InWork, Reading, Hashing, Printed
    <3> QED
      BY <1>1, <3>1, <3>2
  <2> QED
    BY <1>1, <2>1, <2>2 DEF WorkOf, Worker!Taken
<1>2. Quiet(c) /\ state[c] # "SEND_RESULT" => WorkOf(c) = Worker!Free
  BY DEF Quiet, WorkOf, Worker!Free, IDLE, DONE
<1>3. state[c] = "SEND_RESULT" \/ status[c] = DONE =>
        WorkOf(c) = [job |-> given[c], stage |-> "finished"]
  BY DEF WorkOf
<1> QED
  BY <1>1, <1>2, <1>3

\* The same of the state that a step leads to.
LEMMA WorkPhaseNext ==
  ASSUME NEW c \in Core
  PROVE  /\ Quiet(c)' /\ state'[c] # "SEND_RESULT" => WorkOf(c)' = Worker!Free
         /\ state'[c] = "SEND_RESULT" \/ status'[c] = DONE =>
              WorkOf(c)' = [job |-> given'[c], stage |-> "finished"]
         /\ \A j : (Coming(c, j)' \/ InWork(c, j)') /\ state'[c] # "SEND_RESULT" =>
              WorkOf(c)' = Worker!Taken(given'[c])
<1>1. ASSUME NEW j, Coming(c, j)' \/ InWork(c, j)', state'[c] # "SEND_RESULT"
      PROVE  WorkOf(c)' = Worker!Taken(given'[c])
  <2>1. status'[c] # DONE
    BY <1>1 DEF Coming, InWork, IDLE, BUSY, DONE
  <2>2. pc'[c] # "scan" \/ rx'[c] # <<>> \/ (isr'.op = "job" /\ isr'.core = c)
    <3>1. CASE Coming(c, j)'
      BY <3>1, LineFacts DEF Coming
    <3>2. CASE InWork(c, j)'
      BY <3>2 DEF InWork, Reading, Hashing, Printed
    <3> QED
      BY <1>1, <3>1, <3>2
  <2> QED
    BY <1>1, <2>1, <2>2 DEF WorkOf, Worker!Taken
<1>2. Quiet(c)' /\ state'[c] # "SEND_RESULT" => WorkOf(c)' = Worker!Free
  BY DEF Quiet, WorkOf, Worker!Free, IDLE, DONE
<1>3. state'[c] = "SEND_RESULT" \/ status'[c] = DONE =>
        WorkOf(c)' = [job |-> given'[c], stage |-> "finished"]
  BY DEF WorkOf
<1> QED
  BY <1>1, <1>2, <1>3

\* A step that leaves a core, its job and SEND_RESULT alone leaves its work.
LEMMA WorkStill ==
  ASSUME NEW d \in Core, Still(d), given'[d] = given[d],
         state'[d] = "SEND_RESULT" <=> state[d] = "SEND_RESULT"
  PROVE  WorkOf(d)' = WorkOf(d)
BY DEF WorkOf, Still

\* A step of the abstract worker, from what it does to the work of one core.
LEMMA WorkerStep ==
  ASSUME NEW c \in Core, \A d \in Core : d # c => WorkOf(d)' = WorkOf(d),
         LinkTypeOK,
         \/ sent' = sent /\ WorkOf(c)' = WorkOf(c)
         \/ \E j \in Jobs : /\ WorkOf(c) = Worker!Free /\ WorkOf(c)' = Worker!Taken(j)
                            /\ sent' = sent
         \/ /\ WorkOf(c) = Worker!Taken(given[c]) /\ sent' = sent
            /\ WorkOf(c)' = [job |-> given[c], stage |-> "finished"]
         \/ /\ WorkOf(c) = [job |-> given[c], stage |-> "finished"]
            /\ WorkOf(c)' = Worker!Free
            /\ sent' = sent \/ sent' = [sent EXCEPT ![c] = given[c]]
  PROVE  [Worker!Next]_(Worker!workerVars)
<1> DEFINE W == [d \in Core |-> WorkOf(d)]
           N == [d \in Core |-> WorkOf(d)']
<1>1. N = [W EXCEPT ![c] = WorkOf(c)']
  OBVIOUS
<1>2. W[c] = WorkOf(c)
  OBVIOUS
<1>3. CASE sent' = sent /\ WorkOf(c)' = WorkOf(c)
  <2>1. N = W
    BY <1>3
  <2> QED
    BY <1>3, <2>1 DEF Worker!workerVars
<1>4. ASSUME NEW j \in Jobs, WorkOf(c) = Worker!Free, WorkOf(c)' = Worker!Taken(j), sent' = sent
      PROVE  Worker!Next
  <2>1. Worker!Assign(c, j)
    BY <1>1, <1>4 DEF Worker!Assign
  <2> QED
    BY <2>1 DEF Worker!Next
<1>5. CASE /\ WorkOf(c) = Worker!Taken(given[c]) /\ sent' = sent
           /\ WorkOf(c)' = [job |-> given[c], stage |-> "finished"]
  <2>1. W[c].stage = "taken"
    BY <1>5 DEF Worker!Taken
  <2>2. [W EXCEPT ![c].stage = "finished"] = [W EXCEPT ![c] = WorkOf(c)']
    <3>1. [W[c] EXCEPT !.stage = "finished"] = WorkOf(c)'
      BY <1>5 DEF Worker!Taken
    <3> HIDE DEF W
    <3> QED
      BY <3>1
  <2>3. Worker!Finish(c)
    BY <1>1, <1>5, <2>1, <2>2 DEF Worker!Finish
  <2>4. Worker!Next
    <3> HIDE DEF W, N
    <3> QED
      BY Zenon, <2>3 DEF Worker!Next
  <2> QED
    BY <2>4
<1>6. CASE /\ WorkOf(c) = [job |-> given[c], stage |-> "finished"]
           /\ WorkOf(c)' = Worker!Free
           /\ sent' = sent \/ sent' = [sent EXCEPT ![c] = given[c]]
  <2>1. W[c].stage = "finished" /\ W[c].job = given[c]
    BY <1>6
  <2>2. CASE sent' = sent
    <3>1. N = [d \in Core |-> IF d \in {c} THEN Worker!Free ELSE W[d]]
      BY <1>1, <1>6
    <3>2. Worker!Drop({c})
      BY <2>1, <2>2, <3>1 DEF Worker!Drop
    <3>3. {c} \in SUBSET Core
      OBVIOUS
    <3>4. Worker!Next
      <4> HIDE DEF W, N
      <4> QED
        BY Zenon, <3>2, <3>3 DEF Worker!Next
    <3> QED
      BY <3>4
  <2>3. CASE sent' = [sent EXCEPT ![c] = given[c]]
    <3>1. Worker!Deliver(c)
      BY <1>1, <1>6, <2>1, <2>3 DEF Worker!Deliver
    <3> QED
      BY <3>1 DEF Worker!Next
  <2> QED
    BY <1>6, <2>2, <2>3
<1> QED
  BY <1>3, <1>4, <1>5, <1>6

\* A step that leaves both cores alone, keeps both clients in SEND_RESULT or out
\* of it, and sends nothing is no step of the worker.
LEMMA WorkerStutter ==
  ASSUME LinkTypeOK, sent' = sent, given' = given,
         \A d \in Core : Still(d) /\ (state'[d] = "SEND_RESULT" <=> state[d] = "SEND_RESULT")
  PROVE  [Worker!Next]_(Worker!workerVars)
<1>1. \A d \in Core : WorkOf(d)' = WorkOf(d)
  BY WorkStill
<1>2. 0 \in Core
  BY DEF Core
<1> QED
  BY <1>1, <1>2, WorkerStep

\* A step of a core that has a job takes it nowhere else, or works it out.
LEMMA SlaveWorks ==
  ASSUME IInv, NEW c \in Core, Slave(c)
  PROVE  [Worker!Next]_(Worker!workerVars)
<1> USE DEF IInv, LinkInv
<1>0. CoreStep(c) /\ SlaveTypeOK /\ ~Overrun(c)
  BY AtWork DEF Slave, LinkTypeOK
<1>1. /\ CoreStep(c) /\ SlaveTypeOK /\ isr' = isr
      /\ state' = state /\ given' = given /\ sent' = sent
  BY <1>0, CoreStepUnchanged DEF Slave, masterVars
<1>2. ASSUME NEW d \in Core, d # c PROVE WorkOf(d)' = WorkOf(d)
  <2>1. Still(d)
    BY <1>1, <1>2, CoreStepFrame DEF Still
  <2> QED
    BY <1>1, <2>1, WorkStill
<1>3. ~Quiet(c) /\ (\A j : ~Done(c, j))
  BY <1>1, AtRest DEF Quiet, Done
<1>4. Phase(c) /\ state[c] # "SEND_RESULT"
  BY <1>3 DEF ClientInv, LinkTypeOK, States
<1>5. given[c] \in Jobs /\ (Coming(c, given[c]) \/ InWork(c, given[c]))
  BY <1>3, <1>4 DEF Phase
<1>6. WorkOf(c) = Worker!Taken(given[c])
  BY <1>4, <1>5, WorkPhase
<1>7. \/ Coming(c, given[c])' \/ InWork(c, given[c])'
      \/ status'[c] = DONE
  <2>1. \A j \in Jobs : (Coming(c, j) \/ InWork(c, j)) =>
          Coming(c, j)' \/ InWork(c, j)' \/ status'[c] = DONE
    BY <1>1, ComingStep, InWorkStep
  <2> QED
    BY <1>1, <1>5, <2>1
<1>8. \/ WorkOf(c)' = Worker!Taken(given[c])
      \/ WorkOf(c)' = [job |-> given[c], stage |-> "finished"]
  BY <1>1, <1>4, <1>7, WorkPhaseNext
<1> QED
  BY <1>1, <1>2, <1>6, <1>8, WorkerStep

\* What the interrupt handler stores is part of a job that is taken already; the
\* status it sets is that of a core whose result is still to be sent.
LEMMA IsrWorks ==
  ASSUME IInv, Isr
  PROVE  [Worker!Next]_(Worker!workerVars)
<1> USE DEF IInv, LinkInv
<1>1. /\ SlaveTypeOK /\ isr.core \in Core /\ clientNo \in Core
      /\ state' = state /\ given' = given /\ sent' = sent
  BY DEF Isr, LinkTypeOK, SlaveTypeOK, IsrWork, masterVars
<1>2. PICK c \in Core : c = isr.core
  BY <1>1
<1>3. isr'.op = "none" \/ (isr'.op = isr.op /\ isr'.core = c)
  BY <1>1, <1>2, ReadyType DEF Isr, IsrStep, WriteChunk, ResultIdle, SlaveTypeOK, IsrWork
<1>4. ASSUME NEW d \in Core, d # c PROVE WorkOf(d)' = WorkOf(d)
  <2>1. Still(d)
    BY SMTT(30), <1>1, <1>2, <1>3, <1>4 DEF Isr, IsrStep, WriteChunk, ResultIdle, SlaveTypeOK, coreVars, Still
  <2> QED
    BY <1>1, <2>1, WorkStill
<1>5. CASE WriteChunk
  <2>1. isr.op = "job" /\ state[c] = "CALCULATION_WAIT" /\ given[c] \in Jobs /\ Coming(c, given[c])
    BY <1>2, <1>5 DEF ClientInv, Phase, Quiet, Done, InWork, LinkTypeOK, States, WriteChunk
  <2>2. \A j \in Jobs : Coming(c, j) => Coming(c, j)'
    BY <1>1, <1>2, <1>5, <2>1, StoreStep
  <2>3. Coming(c, given[c])'
    BY <1>1, <2>1, <2>2
  <2>4. WorkOf(c) = Worker!Taken(given[c]) /\ WorkOf(c)' = Worker!Taken(given[c])
    BY <1>1, <2>1, <2>3, WorkPhase, WorkPhaseNext
  <2> QED
    BY <1>1, <1>4, <2>4, WorkerStep
<1>6. CASE ResultIdle
  <2>1. c = clientNo /\ state[c] = "SEND_RESULT"
    BY <1>2, <1>6 DEF ResultIdle, AskedInv
  <2>2. WorkOf(c) = [job |-> given[c], stage |-> "finished"] /\ WorkOf(c)' = WorkOf(c)
    BY <1>1, <2>1, WorkPhase, WorkPhaseNext
  <2> QED
    BY <1>1, <1>4, <2>2, WorkerStep
<1> QED
  BY <1>5, <1>6 DEF Isr, IsrStep

\* A polled status DONE is that of a core that is done.
LEMMA PolledDone ==
  ASSUME IInv, NEW c \in Core, NEW reply, clientNo = c, asked,
         state[c] \in {"JOB_REQUEST", "CALCULATION_WAIT"},
         Read(reply), DONE \in StatusOf(c, reply)
  PROVE  status[c] = DONE
<1>1. request.kind = "status" /\ NoReply.kind = "empty" /\ (reply = request \/ reply = NoReply)
  BY ReadStill DEF IInv, LinkInv, AskedInv, NoReply
<1>2. request.status[c] = DONE
  BY <1>1 DEF StatusOf, DONE
<1> QED
  BY <1>2 DEF IInv, LinkInv, AskedInv

\* The polls of the status move the client on, not the work of the core.
LEMMA PollWorks ==
  ASSUME IInv, NEW c \in Core, JobRequest(c) \/ CalculationWait(c)
  PROVE  [Worker!Next]_(Worker!workerVars)
<1>1. /\ clientNo = c /\ asked /\ state[c] \in {"JOB_REQUEST", "CALCULATION_WAIT"}
      /\ given' = given /\ sent' = sent
  BY DEF JobRequest, CalculationWait, At
<1>2. PICK reply : \E s \in StatusOf(c, reply) :
        /\ Read(reply)
        /\ \/ s = DONE /\ Become(c, "SEND_RESULT")
           \/ state' = state
           \/ \E t \in States \ {"SEND_RESULT"} : Become(c, t)
  <2>1. CASE JobRequest(c)
    BY <2>1 DEF JobRequest, States
  <2>2. CASE CalculationWait(c)
    BY <2>2 DEF CalculationWait
  <2> QED
    BY <2>1, <2>2
<1>3. LinkTypeOK /\ \A d \in Core : Still(d) /\ status'[d] = status[d]
  BY <1>2, ReadStill DEF IInv
<1>4. CASE DONE \in StatusOf(c, reply) /\ Become(c, "SEND_RESULT")
  <2>1. status[c] = DONE
    BY <1>1, <1>2, <1>4, PolledDone
  <2>2. state'[c] = "SEND_RESULT" /\ \A d \in Core : d # c => state'[d] = state[d]
    BY <1>3, <1>4 DEF Become, LinkTypeOK
  <2>3. \A d \in Core : d # c => WorkOf(d)' = WorkOf(d)
    BY <1>1, <1>3, <2>2, WorkStill
  <2>4. WorkOf(c) = [job |-> given[c], stage |-> "finished"] /\ WorkOf(c)' = WorkOf(c)
    BY <1>1, <2>1, <2>2, WorkPhase, WorkPhaseNext
  <2> QED
    BY <1>1, <1>3, <2>3, <2>4, WorkerStep
<1>5. CASE state' = state \/ \E t \in States \ {"SEND_RESULT"} : Become(c, t)
  <2>1. \A d \in Core : state'[d] = "SEND_RESULT" <=> state[d] = "SEND_RESULT"
    BY <1>1, <1>3, <1>5 DEF Become, LinkTypeOK
  <2> QED
    BY <1>1, <1>3, <2>1, WorkerStutter
<1> QED
  BY <1>2, <1>4, <1>5

\* Commands that only fill requestBuffer, waiting, and the callbacks of the
\* network are no steps of the worker.
LEMMA QuietWorks ==
  ASSUME IInv, Gentle, NEW c \in Core,
         \/ AskStatus(c) \/ BadJob(c) \/ AskResult(c) \/ Wait(c)
         \/ Connected(c) \/ Answered(c) \/ Judged(c)
  PROVE  [Worker!Next]_(Worker!workerVars)
<1>1. LinkTypeOK /\ given' = given /\ sent' = sent
  BY DEF IInv, AskStatus, BadJob, AskResult, Wait, Connected, Answered, Judged, Network
<1>2. \A d \in Core : Still(d)
  <2>1. CASE AskStatus(c)
    BY <2>1, RequestStill DEF AskStatus, Written, Fault, Gentle
  <2>2. CASE AskResult(c)
    <3>1. OnReadResult(c)
      BY <2>2 DEF AskResult, Written, Fault, Gentle
    <3>2. isr.op = "none" /\ isr'.op = "result"
      BY <3>1, ReadyType DEF OnReadResult
    <3> QED
      BY <3>1, <3>2 DEF OnReadResult, coreVars, Still
  <2>3. CASE BadJob(c) \/ Wait(c) \/ Connected(c) \/ Answered(c) \/ Judged(c)
    BY <2>3, RequestStill DEF BadJob, Wait, Connected, Answered, Judged, Network
  <2> QED
    BY <2>1, <2>2, <2>3
<1>3. \/ state' = state
      \/ state[c] # "SEND_RESULT" /\ \E t \in States \ {"SEND_RESULT"} : Become(c, t)
  <2>1. CASE AskStatus(c) \/ AskResult(c)
    BY <2>1 DEF AskStatus, AskResult
  <2>2. CASE BadJob(c) \/ Wait(c)
    BY <2>2 DEF BadJob, Wait, At, States
  <2>3. CASE Connected(c) \/ Answered(c) \/ Judged(c)
    BY <2>3 DEF Connected, Answered, Judged, States
  <2> QED
    BY <2>1, <2>2, <2>3
<1>4. \A d \in Core : state'[d] = "SEND_RESULT" <=> state[d] = "SEND_RESULT"
  BY <1>1, <1>3 DEF Become, LinkTypeOK
<1> QED
  BY <1>1, <1>2, <1>4, WorkerStutter

\* A line that is written is taken by a free core, one that is lost by none.
LEMMA WriteJobWorks ==
  ASSUME IInv, Gentle, NEW c \in Core, WriteJob(c)
  PROVE  [Worker!Next]_(Worker!workerVars)
<1> USE DEF IInv, LinkInv
<1>1. /\ LinkTypeOK /\ state[c] = "HASH_CALCULATION" /\ sent' = sent
      /\ state' = [state EXCEPT ![c] = "CALCULATION_WAIT"] /\ Quiet(c)
  BY DEF WriteJob, At, Become, ClientInv
<1>2. /\ \A d \in Core : state'[d] = "SEND_RESULT" <=> state[d] = "SEND_RESULT"
      /\ state'[c] = "CALCULATION_WAIT"
  BY <1>1 DEF LinkTypeOK
<1>3. PICK j \in Jobs : socket[c] = Line(j)
  BY <1>1, AnswerTypes DEF WriteJob, ClientInv
<1>4. CASE UNCHANGED <<slaveVars, given>>
  BY <1>1, <1>2, <1>4, RequestStill, WorkerStutter
<1>5. CASE OnJobAllocate(c, socket[c]) /\ given' = [given EXCEPT ![c] = socket[c][1].job]
  <2>1. /\ isr = Ready /\ isr.op = "none" /\ Line(j) # <<>>
        /\ isr' = [op |-> "job", core |-> c, todo |-> Line(j)]
        /\ UNCHANGED <<status, rx, temp, pc, field, seen>>
    BY <1>3, <1>5, LineFacts, ReadyType DEF OnJobAllocate, coreVars
  <2>2. given'[c] = j /\ \A d \in Core : d # c => given'[d] = given[d]
    BY <1>3, <1>5, LineFacts DEF LinkTypeOK
  <2>3. \A d \in Core : d # c => WorkOf(d)' = WorkOf(d)
    <3>1. \A d \in Core : d # c => Still(d)
      BY <2>1 DEF Still
    <3> QED
      BY <1>2, <2>2, <3>1, WorkStill
  <2>4. Coming(c, j)'
    <3>1. status'[c] = IDLE /\ pc'[c] = "scan" /\ rx'[c] = Begun(j, 0)
      BY <1>1, <2>1, LineFacts DEF Quiet
    <3>2. isr'.op = "job" /\ isr'.core = c /\ isr'.todo = Rest(j, 0)
      BY <2>1, LineFacts
    <3> QED
      BY <3>1, <3>2 DEF Coming
  <2>5. WorkOf(c) = Worker!Free /\ WorkOf(c)' = Worker!Taken(j)
    BY <1>1, <1>2, <2>2, <2>4, WorkPhase, WorkPhaseNext
  <2> QED
    BY <1>1, <2>3, <2>5, WorkerStep
<1> QED
  BY <1>4, <1>5 DEF WriteJob, Fault, Gentle

\* A result that was read is delivered, or dropped when the connection is gone;
\* one that was not is read again.
LEMMA SendResultWorks ==
  ASSUME IInv, NEW c \in Core, SendResult(c)
  PROVE  [Worker!Next]_(Worker!workerVars)
<1> USE DEF IInv, LinkInv
<1>1. PICK reply :
        /\ Read(reply)
        /\ \/ state' = state /\ sent' = sent
           \/ Become(c, "CONNECT") /\ sent' = sent
           \/ /\ ~NoResult(reply) /\ Become(c, "RESULT_WAIT")
              /\ sent' = [sent EXCEPT ![c] = reply.result]
  BY DEF SendResult
<1>2. LinkTypeOK /\ clientNo = c /\ state[c] = "SEND_RESULT" /\ asked /\ given' = given
  BY DEF SendResult, At
<1>3. /\ isr.op = "none" /\ (reply = request \/ reply = NoReply)
      /\ \A d \in Core : Still(d) /\ status'[d] = status[d]
  BY <1>1, ReadStill
<1>4. request = ResultReply(given[c]) /\ status[c] = IDLE /\ Done(c, given[c])
  BY <1>2, <1>3 DEF AskedInv, ClientInv
<1>5. ~NoResult(reply) => reply.result = given[c]
  BY <1>3, <1>4 DEF NoResult, NoReply, ResultReply
<1>6. CASE state' = state /\ sent' = sent
  BY <1>2, <1>3, <1>6, WorkerStutter
<1>7. CASE /\ \E s \in {"CONNECT", "RESULT_WAIT"} : Become(c, s)
           /\ sent' = sent \/ sent' = [sent EXCEPT ![c] = given[c]]
  <2>1. state'[c] # "SEND_RESULT" /\ \A d \in Core : d # c => state'[d] = state[d]
    BY <1>2, <1>7 DEF Become, LinkTypeOK
  <2>2. \A d \in Core : d # c => WorkOf(d)' = WorkOf(d)
    BY <1>2, <1>3, <2>1, WorkStill
  <2>3. Quiet(c)'
    <3>1. Quiet(c)
      BY <1>4 DEF Quiet, Done
    <3> QED
      BY <1>2, <1>3, <3>1, StillPhase
  <2>4. /\ WorkOf(c) = [job |-> given[c], stage |-> "finished"]
        /\ WorkOf(c)' = Worker!Free
    BY <1>2, <2>1, <2>3, WorkPhase, WorkPhaseNext
  <2> QED
    BY <1>2, <1>7, <2>2, <2>4, WorkerStep
<1> QED
  BY <1>1, <1>5, <1>6, <1>7

\* A restart of the master drops the results that were read and not sent.
LEMMA RebootWorks ==
  ASSUME IInv, Reboot
  PROVE  [Worker!Next]_(Worker!workerVars)
<1> USE DEF IInv, LinkInv
<1>1. /\ LinkTypeOK /\ OnConfigure /\ isr.op = "none"
      /\ state' = [c \in Core |-> "CONNECT"] /\ given' = given /\ sent' = sent
  BY ReadyType DEF Reboot, OnConfigure
<1>2. \A d \in Core : Still(d) /\ status'[d] = status[d]
  BY <1>1, RequestStill
<1>3. ASSUME NEW c \in Core
      PROVE  WorkOf(c)' = WorkOf(c) \/ (WorkOf(c).stage = "finished" /\ WorkOf(c)' = Worker!Free)
  <2>1. CASE state[c] # "SEND_RESULT"
    BY <1>1, <1>2, <2>1, WorkStill
  <2>2. CASE state[c] = "SEND_RESULT"
    <3>1. WorkOf(c) = [job |-> given[c], stage |-> "finished"]
      BY <2>2, WorkPhase
    <3>2. Done(c, given[c]) /\ status[c] \in {IDLE, DONE}
      BY <2>2 DEF ClientInv
    <3>3. CASE status[c] = DONE
      BY <1>1, <1>2, <3>1, <3>3, WorkPhaseNext
    <3>4. CASE status[c] = IDLE
      <4>1. Quiet(c)
        BY <3>2, <3>4 DEF Quiet, Done
      <4>2. WorkOf(c)' = Worker!Free
        BY <1>1, <1>2, <4>1, StillPhase, WorkPhaseNext
      <4> QED
        BY <3>1, <4>2
    <3> QED
      BY <3>2, <3>3, <3>4
  <2> QED
    BY <2>1, <2>2
<1> DEFINE ws == {c \in Core : WorkOf(c)' # WorkOf(c)}
<1>4. ws \in SUBSET Core /\ \A c \in ws : WorkOf(c).stage = "finished" /\ WorkOf(c)' = Worker!Free
  BY <1>3
<1>5. \A c \in Core : WorkOf(c)' = IF c \in ws THEN Worker!Free ELSE WorkOf(c)
  BY <1>4
<1> HIDE DEF ws
<1>6. Worker!Drop(ws)
  BY <1>1, <1>4, <1>5 DEF Worker!Drop
<1> QED
  BY <1>4, <1>6 DEF Worker!Next

\* The cores with the protocol around them implement the worker that the rig
\* expects: a job is taken by a free core, worked out, and delivered or dropped,
\* once.
THEOREM IsHashWorkerTheorem ==
  ASSUME Gentle
  PROVE  Spec => IsHashWorker
<1>1. Init => Worker!Init
  <2> SUFFICES ASSUME Init PROVE Worker!Init
    OBVIOUS
  <2>1. \A c \in Core : WorkOf(c) = Worker!Free
    <3>1. \A c \in Core : Quiet(c) /\ state[c] = "CONNECT"
      BY ReadyType DEF Init, SlaveInit, Quiet
    <3> QED
      BY <3>1, WorkPhase
  <2>2. sent = [c \in Core |-> NoJob]
    BY DEF Init
  <2> QED
    BY <2>1, <2>2 DEF Worker!Init
<1>2. IInv /\ [Next]_vars => [Worker!Next]_(Worker!workerVars)
  <2> SUFFICES ASSUME IInv, [Next]_vars PROVE [Worker!Next]_(Worker!workerVars)
    OBVIOUS
  <2>1. ASSUME NEW c \in Core, Turn(c) \/ Connected(c) \/ Answered(c) \/ Judged(c)
        PROVE  [Worker!Next]_(Worker!workerVars)
    BY <2>1, PollWorks, QuietWorks, WriteJobWorks, SendResultWorks DEF Turn
  <2>2. ASSUME NEW c \in Core, Slave(c) PROVE [Worker!Next]_(Worker!workerVars)
    BY <2>2, SlaveWorks
  <2>3. CASE Isr
    BY <2>3, IsrWorks
  <2>4. CASE Reboot
    BY <2>4, RebootWorks
  <2>5. CASE UNCHANGED vars
    <3>1. UNCHANGED slaveVars /\ state' = state /\ given' = given /\ sent' = sent
      BY <2>5 DEF vars, masterVars
    <3> QED
      BY <3>1, RequestStill, WorkerStutter DEF IInv
  <2> QED
    BY <2>1, <2>2, <2>3, <2>4, <2>5 DEF Next
<1>3. Spec => []IInv
  BY LinkInvariant
<1> QED
  BY <1>1, <1>2, <1>3, PTL DEF Spec, IsHashWorker, Worker!Spec
=============================================================================
