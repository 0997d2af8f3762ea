----------------------------- MODULE MinerSlave -----------------------------
(***************************************************************************)
(* One mining slave: examples/minerSlave/minerSlave.cpp.                   *)
(*                                                                         *)
(* Three flows of control share its buffers without a lock.  Core 0 runs   *)
(* slaveLoop, core 1 runs slaveLoopCore1, and the I2C interrupt handler    *)
(* (slave_on_receive, slave_on_request) runs on core 0: it suspends core 0 *)
(* and runs concurrently with core 1.  Every step below is one that the    *)
(* other flows can come between.                                           *)
(*                                                                         *)
(* A job line is "<last hash>,<new hash>,<difficulty>\n".  A buffer of     *)
(* characters is modelled by the sequence of the chunks in it, a chunk     *)
(* being the text up to and with a separator: [job, fld] is field fld of   *)
(* the line of job, fields 1 and 2 ended by ',', field 3 by '\n', and      *)
(* field 0 a text with no separator (a line cut short).  CharBuffer        *)
(* shows that a buffer that is written, cut and cleared is such a queue.   *)
(***************************************************************************)
EXTENDS Integers, Sequences

CONSTANTS Jobs,       \* the jobs a server may hand out
          Junk,       \* the text of a server message that is not a job
          BufCap      \* BUF_SIZE of charbuffer.h, counted in chunks

ASSUME SlaveAssumption == /\ Junk \notin Jobs
                          /\ BufCap \in Nat /\ BufCap > 3   \* a line does not fill it

Core  == {0, 1}
Texts == Jobs \cup {Junk}
Chunk == [job : Texts, fld : 0..3]

IDLE == "0"
BUSY == "1"
DONE == "2"
HashCalStatus == {IDLE, BUSY, DONE}

\* What a result buffer may hold besides the result of a job: zeros, a text
\* that sprintf has not finished, the result of fields of different lines.
Zeros   == "zeros"
Torn    == "torn"
Garbled == "garbled"
NoJob   == "none"
Result  == Jobs \cup {Zeros, Torn, Garbled}

VARIABLES
  status,     \* HashCalStatusCore0, HashCalStatusCore1
  rx,         \* receiveBuffer0, receiveBuffer1
  temp,       \* TempBufferCore0, TempBufferCore1
  pc,         \* where the loop of each core is
  field,      \* lastblockhash, newblockhash, tempDifficulty: those read so far
  seen,       \* what a readStringUntil in progress found in the buffer
  isr,        \* the work left to the interrupt handler
  request,    \* requestBuffer: what the master's next read gets
  config      \* configBuffer and the hash delay

coreVars  == <<pc, field, seen>>
slaveVars == <<status, rx, temp, pc, field, seen, isr, request, config>>

\* What a read of requestBuffer gets: nothing (0xff for every character), two
\* status characters, a result and its padding, or the second half of that
\* padding.
Reply == [kind   : {"empty", "status", "result", "zeros"},
          status : [Core -> HashCalStatus],
          result : Result]
NoReply         == [kind |-> "empty", status |-> [c \in Core |-> IDLE], result |-> Zeros]
StatusReply(s)  == [kind |-> "status", status |-> s, result |-> Zeros]
ResultReply(r)  == [kind |-> "result", status |-> [c \in Core |-> IDLE], result |-> r]
PaddingReply    == [kind |-> "zeros", status |-> [c \in Core |-> IDLE], result |-> Zeros]

\* What slave_on_receive has still to do: store the rest of a line in the
\* receive buffer of a core, or the status of a core whose result was taken; or
\* core 0 has stopped, and it with it.
IsrWork == [op : {"none", "job", "result", "stopped"}, core : Core, todo : Seq(Chunk)]
Ready   == [op |-> "none", core |-> 0, todo |-> <<>>]
Stopped == [op |-> "stopped", core |-> 0, todo |-> <<>>]

\* The characters of configBuffer that a readStringUntil left in front of the
\* next command ('\0' of the string literal), and where the delay came from.
Config == [leftover : BOOLEAN, delay : {"default", "set", "uninitialised"}]

Pc == {"scan", "wipe", "busy", "read", "move", "check", "print", "done", "dead"}

\* The values the variables of a slave take; no buffer outgrows its capacity.
SlaveTypeOK ==
  /\ status \in [Core -> HashCalStatus]
  /\ rx \in [Core -> Seq(Chunk)] /\ \A c \in Core : Len(rx[c]) <= BufCap
  /\ temp \in [Core -> Result]
  /\ pc \in [Core -> Pc]
  /\ field \in [Core -> Seq(Seq(Chunk))]
  /\ seen \in [Core -> Seq(Chunk)] /\ \A c \in Core : Len(seen[c]) <= BufCap
  /\ isr \in IsrWork /\ (isr.op = "job" => isr.todo # <<>>)
  /\ request \in Reply
  /\ config \in Config

SlaveInit ==
  /\ status  = [c \in Core |-> IDLE]
  /\ rx      = [c \in Core |-> <<>>]
  /\ temp    = [c \in Core |-> Zeros]
  /\ pc      = [c \in Core |-> "scan"]
  /\ field   = [c \in Core |-> <<>>]
  /\ seen    = [c \in Core |-> <<>>]
  /\ isr     = Ready
  /\ request = NoReply
  /\ config  = [leftover |-> FALSE, delay |-> "default"]

-----------------------------------------------------------------------------
(* charbuffer.cpp on chunks *)

Ends(chunk, sep)      == IF sep = "\n" THEN chunk.fld = 3 ELSE chunk.fld \in {1, 2}
Has(s, sep)           == \E i \in DOMAIN s : Ends(s[i], sep)
FirstIsAt(s, sep, n)  == Ends(s[n], sep) /\ \A k \in 1..(n - 1) : ~Ends(s[k], sep)

\* The separator of the n-th call of readStringUntil in the core loops.
Separator(n) == IF n = 3 THEN "\n" ELSE ","

-----------------------------------------------------------------------------
(* The interrupt handler.  The bus hands a command over when the previous  *)
(* one is finished: the interrupt does not nest.                           *)

\* slave_on_receive, CMD_READ_STATUS
OnReadStatus ==
  /\ isr = Ready
  /\ request' = StatusReply(status)
  /\ UNCHANGED <<status, rx, temp, coreVars, isr, config>>

\* slave_on_receive, CMD_JOB_ALLOCATE: the line that follows the core number,
\* written character by character.
OnJobAllocate(c, line) ==
  /\ isr = Ready
  /\ isr' = IF line = <<>> THEN Ready ELSE [op |-> "job", core |-> c, todo |-> line]
  /\ UNCHANGED <<status, rx, temp, coreVars, request, config>>

WriteChunk ==
  /\ isr.op = "job"
  /\ rx' = [rx EXCEPT ![isr.core] = IF Len(@) >= BufCap THEN @ ELSE Append(@, Head(isr.todo))]
  /\ isr' = IF Len(isr.todo) = 1 THEN Ready ELSE [isr EXCEPT !.todo = Tail(@)]
  /\ UNCHANGED <<status, temp, coreVars, request, config>>

\* Mutant of OnReadResult: the result of core 0, whichever was asked for.
OnReadResultCore0(c) ==
  /\ isr = Ready
  /\ request' = ResultReply(temp[0])
  /\ isr' = [op |-> "result", core |-> c, todo |-> <<>>]
  /\ UNCHANGED <<status, rx, temp, coreVars, config>>

\* slave_on_receive, CMD_READ_RESULT: the copy first, then the status
OnReadResult(c) ==
  /\ isr = Ready
  /\ request' = ResultReply(temp[c])
  /\ isr' = [op |-> "result", core |-> c, todo |-> <<>>]
  /\ UNCHANGED <<status, rx, temp, coreVars, config>>

\* Mutant of ResultIdle: the status stays DONE.
ResultIdleNot ==
  /\ isr.op = "result"
  /\ isr' = Ready
  /\ UNCHANGED <<status, rx, temp, coreVars, request, config>>

ResultIdle ==
  /\ isr.op = "result"
  /\ status' = [status EXCEPT ![isr.core] = IDLE]
  /\ isr' = Ready
  /\ UNCHANGED <<rx, temp, coreVars, request, config>>

\* slave_on_receive, CMD_CFG_HASH_DELAY with "0\n\0": readStringUntil stops at
\* '\n' and leaves the '\0', behind which it finds no '\n' the next time; the
\* delay is then read from an array nothing was copied to.
OnConfigure ==
  /\ isr = Ready
  /\ config' = [leftover |-> TRUE,
                delay    |-> IF config.leftover THEN "uninitialised" ELSE "set"]
  /\ UNCHANGED <<status, rx, temp, coreVars, isr, request>>

\* slave_on_request, once for each of the 128 characters of a read: the two
\* status characters are consumed, a result leaves the last 128 of its 256.
OnRequest ==
  /\ isr = Ready
  /\ request' = IF request.kind = "result" THEN PaddingReply ELSE NoReply
  /\ UNCHANGED <<status, rx, temp, coreVars, isr, config>>

-----------------------------------------------------------------------------
(* The core loops.  Core 0 stands still while the interrupt handler runs.  *)

Runs(c) == c = 1 \/ isr.op = "none"

\* slaveLoop, slaveLoopCore1: the '\n' is in the buffer.  A full buffer is
\* dropped; core 0 then goes on with the empty one, core 1 looks again.
Scan(c) ==
  /\ Runs(c) /\ pc[c] = "scan" /\ Has(rx[c], "\n")
  /\ rx' = [rx EXCEPT ![c] = IF Len(@) = BufCap THEN <<>> ELSE @]
  /\ pc' = [pc EXCEPT ![c] = IF c = 1 /\ Len(rx[c]) = BufCap THEN "scan" ELSE "wipe"]
  /\ UNCHANGED <<status, temp, field, seen, isr, request, config>>

Wipe(c) ==
  /\ Runs(c) /\ pc[c] = "wipe"
  /\ temp' = [temp EXCEPT ![c] = Zeros]
  /\ pc' = [pc EXCEPT ![c] = "busy"]
  /\ UNCHANGED <<status, rx, field, seen, isr, request, config>>

SetBusy(c) ==
  /\ Runs(c) /\ pc[c] = "busy"
  /\ status' = [status EXCEPT ![c] = BUSY]
  /\ field' = [field EXCEPT ![c] = <<>>]
  /\ pc' = [pc EXCEPT ![c] = "read"]
  /\ UNCHANGED <<rx, temp, seen, isr, request, config>>

\* readStringUntil finds the separator and takes buf_len ...
ReadFind(c) ==
  /\ Runs(c) /\ pc[c] = "read"
  /\ seen' = [seen EXCEPT ![c] = rx[c]]
  /\ pc' = [pc EXCEPT ![c] = "move"]
  /\ UNCHANGED <<status, rx, temp, field, isr, request, config>>

\* ... then stores the length that is left of what it found: characters the
\* interrupt handler wrote in between are lost.
ReadMove(c) ==
  /\ Runs(c) /\ pc[c] = "move"
  /\ LET s   == seen[c]
         sep == Separator(Len(field[c]) + 1)
     IN  \/ \E n \in DOMAIN s :
              /\ FirstIsAt(s, sep, n)
              /\ field' = [field EXCEPT ![c] = Append(@, SubSeq(s, 1, n))]
              /\ rx' = [rx EXCEPT ![c] = SubSeq(s, n + 1, Len(s))]
         \/ /\ ~Has(s, sep)
            /\ field' = [field EXCEPT ![c] = Append(@, <<>>)]
            /\ UNCHANGED rx
  /\ seen' = [seen EXCEPT ![c] = <<>>]
  /\ pc' = [pc EXCEPT ![c] = IF Len(field[c]) = 2 THEN "check" ELSE "read"]
  /\ UNCHANGED <<status, temp, isr, request, config>>

\* lastblockhash, newblockhash and tempDifficulty have room for the fields of a job,
\* 64, 64 and 8 characters, which readStringUntil is not told: a text of several
\* chunks, or a junk text, may be longer.
MayOverrun(text) == Len(text) > 1 \/ \E k \in DOMAIN text : text[k].job = Junk

\* It is written over what lies behind the array: what comes of it is undefined.  The
\* core goes on (ReadMove), or it stops here.
Overrun(c) ==
  /\ Runs(c) /\ pc[c] = "move"
  /\ \E n \in DOMAIN seen[c] : /\ FirstIsAt(seen[c], Separator(Len(field[c]) + 1), n)
                               /\ MayOverrun(SubSeq(seen[c], 1, n))
  /\ pc' = [pc EXCEPT ![c] = "dead"]
  /\ isr' = IF c = 0 THEN Stopped ELSE isr
  /\ UNCHANGED <<status, rx, temp, field, seen, request, config>>

\* difficulty == 0: atoi of a field that does not start with a difficulty is 0
\* or, when the text happens to start with digits, not 0.
Zero(f)     == f = <<>> \/ f[1].fld # 3 \/ f[1].job = Junk
MaybeNot(f) == f # <<>> /\ f[1].fld # 3

\* Fields that are empty or have no difficulty: core 0 drops the job, core 1
\* leaves its loop for good.
BadData(c) ==
  /\ Runs(c) /\ pc[c] = "check"
  /\ field[c][1] = <<>> \/ field[c][2] = <<>> \/ Zero(field[c][3])
  /\ status' = [status EXCEPT ![c] = IDLE]
  /\ pc' = [pc EXCEPT ![c] = IF c = 0 THEN "scan" ELSE "dead"]
  /\ field' = [field EXCEPT ![c] = <<>>]
  /\ UNCHANGED <<rx, temp, seen, isr, request, config>>

\* Mutant of Calculate: DONE before the result is printed.
CalculateDone(c) ==
  /\ Runs(c) /\ pc[c] = "check"
  /\ field[c][1] # <<>> /\ field[c][2] # <<>>
  /\ ~Zero(field[c][3]) \/ MaybeNot(field[c][3])
  /\ temp' = [temp EXCEPT ![c] = Torn]
  /\ status' = [status EXCEPT ![c] = DONE]
  /\ pc' = [pc EXCEPT ![c] = "print"]
  /\ UNCHANGED <<rx, field, seen, isr, request, config>>

\* calculateHashCore0, calculateHashCore1, up to the sprintf
Calculate(c) ==
  /\ Runs(c) /\ pc[c] = "check"
  /\ field[c][1] # <<>> /\ field[c][2] # <<>>
  /\ ~Zero(field[c][3]) \/ MaybeNot(field[c][3])
  /\ temp' = [temp EXCEPT ![c] = Torn]
  /\ pc' = [pc EXCEPT ![c] = "print"]
  /\ UNCHANGED <<status, rx, field, seen, isr, request, config>>

\* The result of a job, if the three fields are those of one line.
ResultOf(f) ==
  LET j == f[3][1].job
  IN  IF j \in Jobs /\ f = [n \in 1..3 |-> <<[job |-> j, fld |-> n]>>] THEN j ELSE Garbled

PrintResult(c) ==
  /\ Runs(c) /\ pc[c] = "print"
  /\ temp' = [temp EXCEPT ![c] = ResultOf(field[c])]
  /\ field' = [field EXCEPT ![c] = <<>>]
  /\ pc' = [pc EXCEPT ![c] = "done"]
  /\ UNCHANGED <<status, rx, seen, isr, request, config>>

SetDone(c) ==
  /\ Runs(c) /\ pc[c] = "done"
  /\ status' = [status EXCEPT ![c] = DONE]
  /\ pc' = [pc EXCEPT ![c] = "scan"]
  /\ UNCHANGED <<rx, temp, field, seen, isr, request, config>>

CoreStep(c) == \/ Scan(c) \/ Wipe(c) \/ SetBusy(c) \/ ReadFind(c) \/ ReadMove(c) \/ Overrun(c)
               \/ BadData(c) \/ Calculate(c) \/ PrintResult(c) \/ SetDone(c)

IsrStep == WriteChunk \/ ResultIdle
=============================================================================
