------------------------------ MODULE SlaveLink ------------------------------
(***************************************************************************)
(* A slave (MinerSlave) and the half of the master that talks to it over   *)
(* I2C: the states of duino_master_state_loop (examples/minerMaster/       *)
(* minerMaster.cpp) that call writeCmd and readData.  Client c of the      *)
(* slave works for its core c.  The other half, the connection to the      *)
(* server, is MinerMaster's; here it is the source of messages and the     *)
(* sink of results.                                                        *)
(*                                                                         *)
(* writeCmd and readData return the number of bytes and no caller looks at *)
(* it: a command that was not taken, or a read that got nothing, goes on   *)
(* like one that worked.  Faults says which can happen, MaxFaults how many *)
(* times; Reboots bounds the restarts of the master by its watchdog, which *)
(* the slaves do not notice.                                               *)
(***************************************************************************)
EXTENDS MinerSlave

CONSTANTS ServerSays,  \* the kinds of messages that answer a job request
          ZeroJobs,    \* the jobs whose result is the number 0
          MaxRetry,    \* the status retries of line 580
          Faults,      \* the I2C faults that can happen
          MaxFaults,   \* bound: how many of them
          MaxReboots   \* bound: how many restarts of the master

ASSUME LinkAssumption == /\ ServerSays \subseteq {"job", "junk", "bad"}
                         /\ ZeroJobs \subseteq Jobs
                         /\ MaxRetry \in Nat \ {0}
                         /\ Faults \subseteq {"status lost", "job lost", "job cut",
                                              "result lost", "read lost"}
                         /\ MaxFaults \in Nat /\ MaxReboots \in Nat

VARIABLES
  state,      \* ducoClient[c].state
  socket,     \* ducoClient[c].socketBuffer, when it holds an answer to a request
  retry,      \* ducoClient[c].retryCounter
  clientNo,   \* the client the loop is at
  asked,      \* a command was written and its answer is not read yet
  faults, reboots,
  given,      \* history: the text of the last line a core got
  sent        \* history: the last result sent to the server for a core

masterVars == <<state, socket, retry, clientNo, asked>>
bounds     == <<faults, reboots>>
vars       == <<slaveVars, masterVars, bounds, given, sent>>

States == {"CONNECT", "JOB_REQUEST", "REQUEST_WAIT", "HASH_CALCULATION",
           "CALCULATION_WAIT", "SEND_RESULT", "RESULT_WAIT", "SLAVE_FAULT"}

\* The line of a job, an answer that is no job ("GOOD\n": no ',' but a '\n'),
\* and one that starts with "BAD,".
Line(j)  == [n \in 1..3 |-> [job |-> j, fld |-> n]]
JunkLine == <<[job |-> Junk, fld |-> 3]>>
BadLine  == <<[job |-> Junk, fld |-> 1]>>
Answers  == (IF "job" \in ServerSays THEN {Line(j) : j \in Jobs} ELSE {})
              \cup (IF "junk" \in ServerSays THEN {JunkLine} ELSE {})
              \cup (IF "bad" \in ServerSays THEN {BadLine} ELSE {})

Init ==
  /\ SlaveInit
  /\ state    = [c \in Core |-> "CONNECT"]
  /\ socket   = [c \in Core |-> <<>>]
  /\ retry    = [c \in Core |-> 0]
  /\ clientNo = 0
  /\ asked    = FALSE
  /\ faults   = 0 /\ reboots = 0
  /\ given    = [c \in Core |-> NoJob]
  /\ sent     = [c \in Core |-> NoJob]

-----------------------------------------------------------------------------
(* The bus *)

Fault(kind) == /\ kind \in Faults /\ faults < MaxFaults
               /\ faults' = faults + 1
               /\ UNCHANGED reboots

\* writeCmd hands the command to the slave, or it gets lost.
Written(command, kind) == \/ command /\ UNCHANGED bounds
                          \/ Fault(kind) /\ UNCHANGED slaveVars

\* readData, 10 ms after the command, takes the slave's answer or gets nothing.
Read(reply) ==
  /\ isr = Ready
  /\ \/ /\ reply = request
        /\ OnRequest
        /\ UNCHANGED bounds
     \/ /\ reply = NoReply
        /\ Fault("read lost")
        /\ UNCHANGED slaveVars

\* The character of core c in an answer: what is read in place of a status can
\* be any digit when it is the text of a result.
StatusOf(c, reply) == IF reply.kind = "status" THEN {reply.status[c]}
                      ELSE IF reply.kind = "result" /\ reply.result # Zeros
                           THEN HashCalStatus \cup {"wrong"}
                      ELSE {"wrong"}

-----------------------------------------------------------------------------
(* The states of duino_master_state_loop, for the client it is at *)

At(c, s)    == clientNo = c /\ state[c] = s
NextClient  == clientNo' = 1 - clientNo
Become(c, s) == state' = [state EXCEPT ![c] = s]

\* JOB_REQUEST, CALCULATION_WAIT: writeCmd(CMD_STATUS)
AskStatus(c) ==
  /\ At(c, "JOB_REQUEST") \/ At(c, "CALCULATION_WAIT")
  /\ ~asked /\ asked' = TRUE
  /\ Written(OnReadStatus, "status lost")
  /\ UNCHANGED <<state, socket, retry, clientNo, given, sent>>

\* Mutant of JobRequest: a busy core is taken for an idle one.
JobRequestOfBusy(c) ==
  /\ At(c, "JOB_REQUEST")
  /\ asked /\ asked' = FALSE
  /\ \E reply \in {request, NoReply} : \E s \in StatusOf(c, reply) :
       /\ Read(reply)
       /\ Become(c, IF s = DONE THEN "SEND_RESULT"
                    ELSE IF s = "wrong" THEN "JOB_REQUEST" ELSE "REQUEST_WAIT")
  /\ NextClient
  /\ UNCHANGED <<socket, retry, given, sent>>

\* JOB_REQUEST, from readData on
JobRequest(c) ==
  /\ At(c, "JOB_REQUEST")
  /\ asked /\ asked' = FALSE
  /\ \E reply \in {request, NoReply} : \E s \in StatusOf(c, reply) :
       /\ Read(reply)
       /\ \/ /\ s = IDLE                      \* tcp_write succeeds or fails
             /\ Become(c, "REQUEST_WAIT") \/ Become(c, "CONNECT")
             /\ UNCHANGED retry
          \/ /\ s = BUSY
             /\ UNCHANGED <<state, retry>>
          \/ /\ s = DONE
             /\ Become(c, "SEND_RESULT")
             /\ UNCHANGED retry
          \/ /\ s = "wrong" /\ retry[c] < MaxRetry
             /\ retry' = [retry EXCEPT ![c] = @ + 1]
             /\ UNCHANGED state
          \/ /\ s = "wrong" /\ retry[c] >= MaxRetry
             /\ Become(c, "SLAVE_FAULT")
             /\ UNCHANGED retry
  /\ NextClient
  /\ UNCHANGED <<socket, given, sent>>

\* Mutants of CalculationWait: the expired timer asks for a new job, ...
CalculationWaitGivesUp(c) ==
  /\ At(c, "CALCULATION_WAIT")
  /\ asked /\ asked' = FALSE
  /\ \E reply \in {request, NoReply} : \E s \in StatusOf(c, reply) :
       /\ Read(reply)
       /\ IF s = DONE THEN Become(c, "SEND_RESULT")
                      ELSE Become(c, "JOB_REQUEST") \/ UNCHANGED state
  /\ NextClient
  /\ UNCHANGED <<socket, retry, given, sent>>

\* ... a core that is not busy is taken for one that is done, ...
CalculationWaitNotBusy(c) ==
  /\ At(c, "CALCULATION_WAIT")
  /\ asked /\ asked' = FALSE
  /\ \E reply \in {request, NoReply} : \E s \in StatusOf(c, reply) :
       /\ Read(reply)
       /\ IF s = BUSY THEN UNCHANGED state ELSE Become(c, "SEND_RESULT")
  /\ NextClient
  /\ UNCHANGED <<socket, retry, given, sent>>

\* ... the status is always that of core 0.
CalculationWaitCore0(c) ==
  /\ At(c, "CALCULATION_WAIT")
  /\ asked /\ asked' = FALSE
  /\ \E reply \in {request, NoReply} : \E s \in StatusOf(0, reply) :
       /\ Read(reply)
       /\ IF s = DONE THEN Become(c, "SEND_RESULT") ELSE UNCHANGED state
  /\ NextClient
  /\ UNCHANGED <<socket, retry, given, sent>>

\* CALCULATION_WAIT, from readData on: anything but DONE is waited out, the
\* expiry of the timer only starts it again.
CalculationWait(c) ==
  /\ At(c, "CALCULATION_WAIT")
  /\ asked /\ asked' = FALSE
  /\ \E reply \in {request, NoReply} : \E s \in StatusOf(c, reply) :
       /\ Read(reply)
       /\ IF s = DONE THEN Become(c, "SEND_RESULT") ELSE UNCHANGED state
  /\ NextClient
  /\ UNCHANGED <<socket, retry, given, sent>>

\* HASH_CALCULATION with an answer that starts with "BAD,"
BadJob(c) ==
  /\ At(c, "HASH_CALCULATION") /\ socket[c] = BadLine
  /\ Become(c, "JOB_REQUEST") /\ NextClient
  /\ UNCHANGED <<slaveVars, socket, retry, asked, bounds, given, sent>>

\* HASH_CALCULATION: writeCmd(CMD_WRITE_JOB), the whole line, part of it (the
\* text up to any place in it, with or without the separator), or none of it
Beginnings(line) == {SubSeq(line, 1, n) : n \in 0..(Len(line) - 1)}
                      \cup {Append(SubSeq(line, 1, n - 1), [line[n] EXCEPT !.fld = 0])
                              : n \in DOMAIN line}
WriteJob(c) ==
  /\ At(c, "HASH_CALCULATION") /\ socket[c] # BadLine
  /\ \/ /\ OnJobAllocate(c, socket[c]) /\ UNCHANGED bounds
        /\ given' = [given EXCEPT ![c] = socket[c][1].job]
     \/ /\ Fault("job lost")
        /\ UNCHANGED <<slaveVars, given>>
     \/ /\ Fault("job cut")
        /\ \E part \in Beginnings(socket[c]) : OnJobAllocate(c, part)
        /\ given' = [given EXCEPT ![c] = socket[c][1].job]
  /\ Become(c, "CALCULATION_WAIT") /\ NextClient
  /\ UNCHANGED <<socket, retry, asked, sent>>

\* SEND_RESULT: writeCmd(CMD_READ_RESULT)
AskResult(c) ==
  /\ At(c, "SEND_RESULT")
  /\ ~asked /\ asked' = TRUE
  /\ retry' = [retry EXCEPT ![c] = 0]
  /\ Written(OnReadResult(c), "result lost")
  /\ UNCHANGED <<state, socket, clientNo, given, sent>>

\* hashResult: atoi of the text before the first ',' of the answer
NoResult(reply) == reply.kind # "result" \/ reply.result \in {Zeros} \cup ZeroJobs

\* SEND_RESULT, from readData on.  A result of 0 is read again: retryCounter is
\* 0 here, so the branch for 2 of them is not reached.
SendResult(c) ==
  /\ At(c, "SEND_RESULT")
  /\ asked /\ asked' = FALSE
  /\ \E reply \in {request, NoReply} :
       /\ Read(reply)
       /\ \/ /\ NoResult(reply)
             /\ retry' = [retry EXCEPT ![c] = @ + 1]
             /\ UNCHANGED <<state, sent>>
          \/ /\ ~NoResult(reply)              \* not established, tcp_write fails
             /\ Become(c, "CONNECT")
             /\ UNCHANGED <<retry, sent>>
          \/ /\ ~NoResult(reply)
             /\ Become(c, "RESULT_WAIT")
             /\ sent' = [sent EXCEPT ![c] = reply.result]
             /\ UNCHANGED retry
  /\ NextClient
  /\ UNCHANGED <<socket, given>>

\* The states that only wait for the server, and those that do nothing: the
\* loop goes on to the next client, or their timers expire.
Wait(c) ==
  /\ clientNo = c
  /\ \/ state[c] \in {"CONNECT", "REQUEST_WAIT", "RESULT_WAIT", "SLAVE_FAULT"} /\ UNCHANGED state
     \/ state[c] = "REQUEST_WAIT" /\ Become(c, "JOB_REQUEST")
     \/ state[c] = "RESULT_WAIT" /\ Become(c, "CONNECT")
  /\ NextClient
  /\ UNCHANGED <<slaveVars, socket, retry, asked, bounds, given, sent>>

Turn(c) == \/ AskStatus(c) \/ JobRequest(c) \/ CalculationWait(c) \/ BadJob(c)
           \/ WriteJob(c) \/ AskResult(c) \/ SendResult(c) \/ Wait(c)

-----------------------------------------------------------------------------
(* tcp_callback_received, on the master's other core, at any time *)

Network(c) == UNCHANGED <<slaveVars, retry, clientNo, asked, bounds, given, sent>>

Connected(c) == /\ state[c] = "CONNECT" /\ Become(c, "JOB_REQUEST")
                /\ UNCHANGED socket /\ Network(c)

Answered(c) ==
  /\ state[c] = "REQUEST_WAIT" /\ Become(c, "HASH_CALCULATION")
  /\ \E s \in Answers : socket' = [socket EXCEPT ![c] = s]
  /\ Network(c)

Judged(c) == /\ state[c] = "RESULT_WAIT" /\ Become(c, "JOB_REQUEST")
             /\ UNCHANGED socket /\ Network(c)

-----------------------------------------------------------------------------
(* The watchdog restarts the master when a client of any slave cannot      *)
(* connect (the loops of 504 and 528; they share one counter), on a DHCP   *)
(* conflict (344), or when a pass takes too long: the clients of this      *)
(* slave can be in any state.  No command is cut in two by it (that is     *)
(* "job cut").  A restart takes a minute, in which a slave picks up a line *)
(* that is complete; main then sends the hash delay to the slaves.         *)

PickedUp(c) == Has(rx[c], "\n") => pc[c] \notin {"scan", "wipe", "busy"}

Reboot ==
  /\ reboots < MaxReboots /\ reboots' = reboots + 1
  /\ \A c \in Core : PickedUp(c)
  /\ OnConfigure
  /\ state'    = [c \in Core |-> "CONNECT"]
  /\ socket'   = [c \in Core |-> <<>>]
  /\ retry'    = [c \in Core |-> 0]
  /\ clientNo' = 0
  /\ asked'    = FALSE
  /\ UNCHANGED <<faults, given, sent>>

Slave(c) == (CoreStep(c) /\ UNCHANGED <<masterVars, bounds, given, sent>>)
Isr      == (IsrStep /\ UNCHANGED <<masterVars, bounds, given, sent>>)

Next == \/ \E c \in Core : Turn(c) \/ Connected(c) \/ Answered(c) \/ Judged(c) \/ Slave(c)
        \/ Isr
        \/ Reboot

Spec == Init /\ [][Next]_vars

\* The main loop of the master, the loops of the cores and the interrupt handler
\* go on for ever; nothing is assumed of the server, the network or the faults.
\* Core 0 is suspended by every command of the master and runs between them.
LiveSpec == /\ Spec
            /\ \A c \in Core : WF_vars(Turn(c))
            /\ SF_vars(Slave(0)) /\ WF_vars(Slave(1)) /\ WF_vars(Isr)

-----------------------------------------------------------------------------
\* The values every variable takes; no buffer grows beyond its capacity.
LinkTypeOK ==
  /\ SlaveTypeOK
  /\ state \in [Core -> States] /\ socket \in [Core -> Answers \cup {<<>>}]
  /\ retry \in [Core -> 0..MaxRetry] /\ clientNo \in Core /\ asked \in BOOLEAN
  /\ faults \in 0..MaxFaults /\ reboots \in 0..MaxReboots
  /\ given \in [Core -> Texts \cup {NoJob}] /\ sent \in [Core -> Result \cup {NoJob}]

\* Core c has no job, no part of one, and no result that nobody has read.
Quiet(c) == /\ pc[c] = "scan" /\ rx[c] = <<>> /\ status[c] = IDLE
            /\ ~(isr.op = "job" /\ isr.core = c)

\* The interrupt handler stores characters only in the buffer of a core that
\* is looking for a newline, never in one whose core is between the look-up
\* and the store of readStringUntil: no lock keeps them apart, only the order
\* of the master's commands does.
NoRace == isr.op = "job" => pc[isr.core] = "scan"

\* A result leaves the slave only when it is complete: READ_RESULT never copies
\* a result buffer that is wiped, half printed, or made of two lines.
WholeResult == request.kind = "result" => request.result \in Jobs

\* By the time a line is about to be written to a core, the core has dealt with
\* the one before and its result has been read, although the status that was
\* polled is old by then.
OneJobAtATime == \A c \in Core : state[c] = "HASH_CALCULATION" => Quiet(c)

\* The result sent to the server for a client is the result of the line last
\* written to its core: not the other core's, not an earlier one.
ResultOfLastJob == \A c \in Core : state[c] = "RESULT_WAIT" => sent[c] = given[c]

\* A line that was written to a core leads to its result being sent to the
\* server, unless the connection or the master breaks first.
JobGetsResult == \A c \in Core :
  state[c] = "CALCULATION_WAIT" ~> state[c] \in {"RESULT_WAIT", "CONNECT"}

-----------------------------------------------------------------------------
(* Why they hold: the phases a job goes through in its core, and which of  *)
(* them each state of the client can meet.  This is inductive when no      *)
(* status or result command is lost and no line is cut short.              *)

Begun(j, n) == [k \in 1..n |-> [job |-> j, fld |-> k]]
Rest(j, n)  == [k \in 1..(3 - n) |-> [job |-> j, fld |-> n + k]]
Cut(j, n)   == [k \in 1..n |-> <<[job |-> j, fld |-> k]>>]

\* the interrupt handler has stored n chunks of the line, or the core has all
\* of it and is not busy yet
Coming(c, j) ==
  /\ status[c] = IDLE
  /\ \/ /\ isr.op = "job" /\ isr.core = c /\ pc[c] = "scan"
        /\ \E n \in 0..2 : rx[c] = Begun(j, n) /\ isr.todo = Rest(j, n)
     \/ /\ ~(isr.op = "job" /\ isr.core = c)
        /\ rx[c] = Line(j) /\ pc[c] \in {"scan", "wipe", "busy"}

Reading(c, j) ==
  \E n \in 0..2 : /\ pc[c] \in {"read", "move"}
                  /\ rx[c] = Rest(j, n) /\ field[c] = Cut(j, n)
                  /\ pc[c] = "move" => seen[c] = rx[c]

Hashing(c, j) == pc[c] \in {"check", "print"} /\ rx[c] = <<>> /\ field[c] = Cut(j, 3)

Printed(c, j) == pc[c] = "done" /\ rx[c] = <<>> /\ temp[c] = j

InWork(c, j) ==
  /\ status[c] = BUSY /\ ~(isr.op = "job" /\ isr.core = c)
  /\ Reading(c, j) \/ Hashing(c, j) \/ Printed(c, j)

Done(c, j) == /\ pc[c] = "scan" /\ rx[c] = <<>> /\ temp[c] = j
              /\ ~(isr.op = "job" /\ isr.core = c)

Phase(c) == \/ Quiet(c)
            \/ given[c] \in Jobs /\ (\/ Coming(c, given[c])
                                     \/ InWork(c, given[c])
                                     \/ Done(c, given[c]) /\ status[c] = DONE)

ClientInv(c) ==
  /\ state[c] = "CALCULATION_WAIT" => Phase(c)
  /\ state[c] \in {"CONNECT", "JOB_REQUEST", "SLAVE_FAULT"} =>
       Phase(c) /\ (given[c] \in Jobs => ~Coming(c, given[c]))
  /\ state[c] \in {"REQUEST_WAIT", "HASH_CALCULATION", "RESULT_WAIT"} => Quiet(c)
  /\ state[c] = "SEND_RESULT" => /\ given[c] \in Jobs /\ Done(c, given[c])
                                 /\ status[c] \in {IDLE, DONE}
  /\ state[c] = "RESULT_WAIT" => sent[c] = given[c]
  /\ state[c] = "HASH_CALCULATION" => socket[c] \in Answers

\* What the answer to the pending command says is still so when it is read.
AskedInv ==
  /\ asked => state[clientNo] \in {"JOB_REQUEST", "CALCULATION_WAIT", "SEND_RESULT"}
  /\ asked /\ state[clientNo] = "SEND_RESULT" =>
       /\ request = ResultReply(given[clientNo]) /\ retry[clientNo] = 0
       /\ isr.op = "result" \/ status[clientNo] = IDLE
  /\ asked /\ state[clientNo] # "SEND_RESULT" =>
       /\ request.kind = "status"
       /\ request.status[clientNo] = DONE =>
            /\ given[clientNo] \in Jobs /\ Done(clientNo, given[clientNo])
            /\ status[clientNo] = DONE
       /\ request.status[clientNo] = IDLE /\ state[clientNo] = "JOB_REQUEST" => Quiet(clientNo)
  /\ isr.op = "result" => /\ asked /\ isr.core = clientNo
                          /\ state[clientNo] = "SEND_RESULT"

LinkInv == /\ \A c \in Core : ClientInv(c)
           /\ AskedInv
           /\ WholeResult

\* The inductive invariant: the types of the variables, and of every core which
\* phase its job is in, which states of its client that phase can meet, and
\* what the answer to the command under way still says of the present
\* (the states of minerMaster.cpp against core0_loop and core1_entry).
IInv == LinkTypeOK /\ LinkInv

-----------------------------------------------------------------------------
(* The abstract worker *)

WorkOf(c) ==
  IF state[c] = "SEND_RESULT" \/ status[c] = DONE
    THEN [job |-> given[c], stage |-> "finished"]
  ELSE IF pc[c] # "scan" \/ rx[c] # <<>> \/ (isr.op = "job" /\ isr.core = c)
    THEN [job |-> given[c], stage |-> "taken"]
  ELSE [job |-> NoJob, stage |-> "free"]

Worker == INSTANCE HashWorker
            WITH Workers <- Core, Nothing <- NoJob, work <- [c \in Core |-> WorkOf(c)]

\* The two cores with the protocol around them are hash workers: every job is
\* taken by a free core, finished once, and its result delivered or dropped.
IsHashWorker == Worker!Spec
=============================================================================
