----------------------------- MODULE MinerMaster -----------------------------
(***************************************************************************)
(* The clients of the master and the server: examples/minerMaster/         *)
(* minerMaster.cpp.  Core 0 runs duino_master_state_loop, client by        *)
(* client; core 1 runs the TCP stack (wizchip_lwip_process), which calls   *)
(* tcp_callback_connected and tcp_callback_received at any time.  Both     *)
(* write ducoClient[c].state, .socketBuffer and .tcp_client_pcb without a  *)
(* lock, so a handler is split where the other core can come between: mid  *)
(* is where core 0 is inside a handler, cb where core 1 is.                *)
(*                                                                         *)
(* The cores of the slaves are hash workers here (HashWorker, which        *)
(* SlaveLink implements); those of Faulty clients are behind a bus on      *)
(* which any command or read may get lost. A timer may have expired        *)
(* whenever it is looked at. The TCP stack and the server are external: a  *)
(* connection delivers in order, greets the client first and answers each  *)
(* message with one. A reset by the peer is not modelled: the stack then   *)
(* frees the pcb that the client still holds.                              *)
(***************************************************************************)
EXTENDS Integers, Sequences

CONSTANTS NumClients,   \* g_slave_count * 2
          Retries,      \* SERVER_DISCONNECT_COUNTER
          MaxRetry,     \* the status retries of line 580
          Watched,      \* the clients whose return is looked for
          Faulty,       \* the clients whose slave may fail: read wrong, lost, a 0
          Timers,       \* the waits whose timer can expire before the answer
          MaxLate       \* bound: expiries of the timer of a job request

ASSUME MasterAssumption ==
  /\ NumClients \in Nat \ {0} /\ Retries \in Nat /\ MaxRetry \in Nat
  /\ Watched \subseteq 0..(NumClients - 1) /\ Faulty \subseteq 0..(NumClients - 1)
  /\ Timers \subseteq {"CONNECT_WAIT", "REQUEST_WAIT", "RESULT_WAIT"}
  /\ MaxLate \in Nat

Client == 0..(NumClients - 1)

VARIABLES
  state,     \* ducoClient[c].state
  pcb,       \* ducoClient[c].tcp_client_pcb and the state of that connection
  buffer,    \* ducoClient[c].socketBuffer: what it holds
  waits,     \* wait_open_time is a minute that has not come
  tries,     \* g_tcp_connect_retry
  clientNo,  \* the client core 0 is at
  mid,       \* where core 0 is inside the handler
  cb,        \* the callback on core 1: its client and the state it saw
  toServer,  \* what tcp_write queued and the server has not got
  toClient,  \* what the server sent and the client has not got
  closing,   \* a connection was closed with a result still queued
  worker,    \* the hash worker of each client
  retry,     \* ducoClient[c].retryCounter
  late,      \* the expiries of the timer of a job request
  got        \* history: whether the last result the server got is the one written

coreVars  == <<clientNo, mid>>
netVars   == <<toServer, toClient, closing, got>>
slaveVars == <<worker, retry>>
vars      == <<state, pcb, buffer, waits, tries, coreVars, cb, netVars, slaveVars, late>>

States  == {"CONNECT", "CONNECT_WAIT", "JOB_REQUEST", "REQUEST_WAIT", "HASH_CALCULATION",
            "CALCULATION_WAIT", "SEND_RESULT", "RESULT_WAIT", "RESULT_UPDATE", "SLAVE_FAULT"}
Message == {"greeting", "job", "bad", "verdict"}
Idle    == [client |-> 0, seen |-> "none"]
Mid     == {"start", "connecting", "connect expired", "request expired", "result expired",
            "requested", "parsed", "printed", "sent", "watchdog"}

\* A worker that is done has a result to read or, when it found none, a 0, of
\* which the text stays when it has been read ("zero read").
Worker  == {"idle", "busy", "done", "zero", "zero read"}

\* The values every variable takes.
TypeOK ==
  /\ state \in [Client -> States]
  /\ pcb \in [Client -> {"NULL", "connecting", "open"}]
  /\ buffer \in [Client -> Message \cup {"empty", "result"}]
  /\ waits \in [Client -> BOOLEAN]
  /\ tries \in -1..Retries
  /\ clientNo \in Client
  /\ mid \in Mid
  /\ cb \in [client : Client, seen : States \cup {"none", "copied"}]
  /\ toServer \in [Client -> Seq({"request", "result"})]
  /\ toClient \in [Client -> Seq(Message)]
  /\ closing \in [Client -> BOOLEAN]
  /\ worker \in [Client -> Worker] /\ retry \in [Client -> 0..(MaxRetry + 1)]
  /\ late \in 0..MaxLate
  /\ got \in [Client -> {"result", "other"}]

Init ==
  /\ state    = [c \in Client |-> "CONNECT"]
  /\ pcb      = [c \in Client |-> "NULL"]
  /\ buffer   = [c \in Client |-> "empty"]
  /\ waits    = [c \in Client |-> TRUE]
  /\ tries    = Retries
  /\ clientNo = 0 /\ mid = "start"
  /\ cb       = Idle
  /\ toServer = [c \in Client |-> <<>>]
  /\ toClient = [c \in Client |-> <<>>]
  /\ closing  = [c \in Client |-> FALSE]
  /\ worker   = [c \in Client |-> "idle"]
  /\ retry    = [c \in Client |-> 0]
  /\ late     = 0
  /\ got      = [c \in Client |-> "result"]

-----------------------------------------------------------------------------
(* What the handlers have in common *)

At(c, s)     == clientNo = c /\ mid = "start" /\ state[c] = s
Within(c, m) == clientNo = c /\ mid = m
Become(c, s) == state' = [state EXCEPT ![c] = s]
NextClient   == clientNo' = (clientNo + 1) % NumClients /\ mid' = "start"
Inside(m)    == UNCHANGED clientNo /\ mid' = m

\* set_client_connect_timeout: CONNECT waits for a minute to come.
OpenLater(c) == waits' = [waits EXCEPT ![c] = TRUE]

\* tcp_client_close, after which no callback is called for the connection; a
\* result that is still queued is sent nevertheless, from socketBuffer.
Queued(c) == \E i \in DOMAIN toServer[c] : toServer[c][i] = "result"
Abandon(c, p) ==
  /\ pcb' = [pcb EXCEPT ![c] = p]
  /\ closing' = [closing EXCEPT ![c] = @ \/ Queued(c)]
  /\ toServer' = [toServer EXCEPT ![c] = <<>>]
  /\ toClient' = [toClient EXCEPT ![c] = <<>>]
  /\ UNCHANGED got
Close(c) == Abandon(c, "NULL")

\* tcp_write without a copy queues a pointer; it fails on a closed connection,
\* and when the stack has no memory.
Write(c, message) ==
  /\ pcb[c] = "open"
  /\ toServer' = [toServer EXCEPT ![c] = Append(@, message)]
  /\ UNCHANGED <<pcb, toClient, closing, got>>

-----------------------------------------------------------------------------
(* Core 0: duino_master_state_loop, a turn of client c *)

Idles(c)  == worker[c] \in {"idle", "zero read"}
IsDone(c) == worker[c] \in {"done", "zero"}

\* Nothing to do: the minute of CONNECT has not come, no timer has expired, the
\* core of the slave is at work or its status was not read, its slave is given up.
Pass(c) ==
  /\ \/ At(c, "CONNECT") /\ waits[c]
     \/ \E s \in {"CONNECT_WAIT", "REQUEST_WAIT", "RESULT_WAIT"} : At(c, s)
     \/ At(c, "JOB_REQUEST") /\ worker[c] = "busy"
     \/ At(c, "CALCULATION_WAIT") /\ (IsDone(c) => c \in Faulty)
     \/ At(c, "SLAVE_FAULT")
  /\ NextClient
  /\ UNCHANGED <<state, pcb, buffer, waits, tries, cb, netVars, slaveVars, late>>

\* CONNECT, tcp_connect succeeds: from here on callbacks are called, ...
Connect(c) ==
  /\ At(c, "CONNECT") /\ ~waits[c]
  /\ Abandon(c, "connecting")
  /\ Inside("connecting")
  /\ UNCHANGED <<state, buffer, waits, tries, cb, slaveVars, late>>

\* Mutant of ConnectWait: the greeting is not waited for.
ConnectWaitNot(c) ==
  /\ Within(c, "connecting")
  /\ waits' = [waits EXCEPT ![c] = FALSE]
  /\ tries' = Retries
  /\ Become(c, "JOB_REQUEST") /\ NextClient
  /\ UNCHANGED <<pcb, buffer, cb, netVars, slaveVars, late>>
\* ... and the state follows.
ConnectWait(c) ==
  /\ Within(c, "connecting")
  /\ waits' = [waits EXCEPT ![c] = FALSE]
  /\ tries' = Retries
  /\ Become(c, "CONNECT_WAIT") /\ NextClient
  /\ UNCHANGED <<pcb, buffer, cb, netVars, slaveVars, late>>

\* Mutant of ConnectFails: the last try does not count.
ConnectFailsForEver(c) ==
  /\ At(c, "CONNECT") /\ ~waits[c] /\ tries > -2
  /\ tries' = tries - 1
  /\ Close(c) /\ OpenLater(c) /\ NextClient
  /\ UNCHANGED <<state, buffer, cb, slaveVars, late>>
\* CONNECT, tcp_new or tcp_connect fails: the next try is now or later.
ConnectFails(c) ==
  /\ At(c, "CONNECT") /\ ~waits[c] /\ tries > 0
  /\ tries' = tries - 1
  /\ Close(c)
  /\ UNCHANGED waits \/ OpenLater(c)
  /\ NextClient
  /\ UNCHANGED <<state, buffer, cb, slaveVars, late>>

\* The last try fails: every connection is closed, the watchdog shall restart.
GiveUp(c) ==
  /\ At(c, "CONNECT") /\ ~waits[c] /\ tries = 0
  /\ tries' = -1
  /\ pcb' = [i \in Client |-> "NULL"]
  /\ closing' = [i \in Client |-> closing[i] \/ Queued(i)]
  /\ toServer' = [i \in Client |-> <<>>]
  /\ toClient' = [i \in Client |-> <<>>]
  /\ Inside("watchdog")
  /\ UNCHANGED <<state, buffer, waits, cb, got, slaveVars, late>>

\* CONNECT_WAIT, REQUEST_WAIT, RESULT_WAIT: the timer has expired ...
Expire(c) ==
  /\ \E s \in {"CONNECT_WAIT", "REQUEST_WAIT", "RESULT_WAIT"} :
       /\ At(c, s)
       /\ s \in Timers \/ pcb[c] = "NULL"
       /\ Inside(CASE s = "CONNECT_WAIT" -> "connect expired"
                   [] s = "REQUEST_WAIT" -> "request expired"
                   [] s = "RESULT_WAIT"  -> "result expired")
       /\ late' = IF s = "REQUEST_WAIT" /\ pcb[c] # "NULL" THEN late + 1 ELSE late
       /\ late' <= MaxLate
  /\ UNCHANGED <<state, pcb, buffer, waits, tries, cb, netVars, slaveVars>>

\* Mutant of Expired: the timer of a request is only set again.
ExpiredRenews(c) ==
  /\ \/ /\ Within(c, "connect expired")
        /\ Close(c) /\ OpenLater(c) /\ Become(c, "CONNECT")
     \/ Within(c, "request expired") /\ UNCHANGED <<state, pcb, netVars, waits>>
     \/ /\ Within(c, "result expired")
        /\ OpenLater(c) /\ Become(c, "CONNECT") /\ UNCHANGED <<pcb, netVars>>
  /\ NextClient
  /\ UNCHANGED <<buffer, tries, cb, slaveVars, late>>
\* ... and the client moves, whatever its state has become since.
\* disconnCounter is 2 whenever REQUEST_WAIT looks at it (line 592): its other
\* branch, which connects anew, is never taken.
Expired(c) ==
  /\ \/ /\ Within(c, "connect expired")
        /\ Close(c) /\ OpenLater(c) /\ Become(c, "CONNECT")
     \/ /\ Within(c, "request expired")
        /\ Become(c, "JOB_REQUEST") /\ UNCHANGED <<pcb, netVars, waits>>
     \/ /\ Within(c, "result expired")
        /\ OpenLater(c) /\ Become(c, "CONNECT") /\ UNCHANGED <<pcb, netVars>>
  /\ NextClient
  /\ UNCHANGED <<buffer, tries, cb, slaveVars, late>>

WriteFails(c) == Close(c) /\ OpenLater(c) /\ Become(c, "CONNECT") /\ NextClient

\* JOB_REQUEST: a status that is none of the three is asked for again, until
\* the slave is given up.
JobRequest(c) ==
  /\ At(c, "JOB_REQUEST")
  /\ \/ Idles(c) /\ Write(c, "request") /\ Inside("requested") /\ UNCHANGED <<state, waits, retry>>
     \/ Idles(c) /\ WriteFails(c) /\ UNCHANGED retry
     \/ /\ IsDone(c) /\ Become(c, "SEND_RESULT") /\ NextClient
        /\ UNCHANGED <<pcb, netVars, waits, retry>>
     \/ /\ c \in Faulty /\ retry[c] < MaxRetry /\ retry' = [retry EXCEPT ![c] = @ + 1] /\ NextClient
        /\ UNCHANGED <<state, pcb, netVars, waits>>
     \/ /\ c \in Faulty /\ retry[c] >= MaxRetry /\ Become(c, "SLAVE_FAULT") /\ NextClient
        /\ UNCHANGED <<pcb, netVars, waits, retry>>
  /\ UNCHANGED <<buffer, tries, cb, worker, late>>

RequestWait(c) ==
  /\ Within(c, "requested")
  /\ Become(c, "REQUEST_WAIT") /\ NextClient
  /\ UNCHANGED <<pcb, buffer, waits, tries, cb, netVars, slaveVars, late>>

\* HASH_CALCULATION: a line that starts with "BAD," is not passed on; another
\* one is read from jobBuffer and then, by sprintf, from socketBuffer again.
HashCalculation(c) ==
  /\ At(c, "HASH_CALCULATION")
  /\ \/ buffer[c] = "bad" /\ Become(c, "JOB_REQUEST") /\ NextClient
     \/ buffer[c] # "bad" /\ Inside("parsed") /\ UNCHANGED state
  /\ UNCHANGED <<pcb, buffer, waits, tries, cb, netVars, slaveVars, late>>

\* The line gets to the core of the slave, or it is lost.
WriteJob(c) ==
  /\ Within(c, "parsed")
  /\ \/ worker' = [worker EXCEPT ![c] = IF buffer[c] = "job" THEN "busy" ELSE @]
     \/ c \in Faulty /\ UNCHANGED worker
  /\ Become(c, "CALCULATION_WAIT") /\ NextClient
  /\ UNCHANGED <<pcb, buffer, waits, tries, cb, netVars, retry, late>>

CalculationWait(c) ==
  /\ At(c, "CALCULATION_WAIT") /\ IsDone(c)
  /\ Become(c, "SEND_RESULT") /\ NextClient
  /\ UNCHANGED <<pcb, buffer, waits, tries, cb, netVars, slaveVars, late>>

\* SEND_RESULT: the command to read the result makes the status of the core
\* IDLE and leaves the text.
HasZero(c)    == worker[c] \in {"zero", "zero read"}
WorkerRead(c) == [worker EXCEPT ![c] = IF HasZero(c) THEN "zero read" ELSE "idle"]

\* A result is read and printed to socketBuffer, ...
ReadResult(c) ==
  /\ At(c, "SEND_RESULT") /\ ~HasZero(c)
  /\ worker' = WorkerRead(c)
  /\ retry' = [retry EXCEPT ![c] = 0]
  /\ buffer' = [buffer EXCEPT ![c] = "result"]
  /\ Inside("printed")
  /\ UNCHANGED <<state, pcb, waits, tries, cb, netVars, late>>

\* ... a 0, or nothing because the command or the read was lost, is read again:
\* retryCounter is 0 whenever it is looked at, so its other branch, which
\* connects anew, is never taken, ...
ReadZero(c) ==
  /\ At(c, "SEND_RESULT") /\ c \in Faulty
  /\ UNCHANGED worker \/ worker' = WorkerRead(c)
  /\ retry' = [retry EXCEPT ![c] = 1]
  /\ NextClient
  /\ UNCHANGED <<state, pcb, buffer, waits, tries, cb, netVars, late>>

\* ... and given to tcp_write if the connection is established.
SendResult(c) ==
  /\ Within(c, "printed")
  /\ \/ Write(c, "result") /\ Inside("sent") /\ UNCHANGED <<state, waits>>
     \/ WriteFails(c)
     \/ /\ pcb[c] # "open" /\ Become(c, "CONNECT") /\ NextClient
        /\ UNCHANGED <<pcb, netVars, waits>>
  /\ UNCHANGED <<buffer, tries, cb, slaveVars, late>>

\* Mutants of ResultWait: the next job is asked for before the verdict; the
\* client connects anew as soon as the result is written.
ResultWaitNot(c) ==
  /\ Within(c, "sent")
  /\ Become(c, "JOB_REQUEST") /\ NextClient
  /\ UNCHANGED <<pcb, buffer, waits, tries, cb, netVars, slaveVars, late>>
ResultWaitConnects(c) ==
  /\ Within(c, "sent")
  /\ Become(c, "CONNECT") /\ NextClient
  /\ UNCHANGED <<pcb, buffer, waits, tries, cb, netVars, slaveVars, late>>

ResultWait(c) ==
  /\ Within(c, "sent")
  /\ Become(c, "RESULT_WAIT") /\ NextClient
  /\ UNCHANGED <<pcb, buffer, waits, tries, cb, netVars, slaveVars, late>>

ResultUpdate(c) ==
  /\ At(c, "RESULT_UPDATE")
  /\ Become(c, "JOB_REQUEST") /\ NextClient
  /\ UNCHANGED <<pcb, buffer, waits, tries, cb, netVars, slaveVars, late>>

Turn(c) ==
  \/ Pass(c) \/ Connect(c) \/ ConnectWait(c) \/ ConnectFails(c) \/ GiveUp(c)
  \/ Expire(c) \/ Expired(c)
  \/ JobRequest(c) \/ RequestWait(c) \/ HashCalculation(c) \/ WriteJob(c)
  \/ CalculationWait(c) \/ ReadResult(c) \/ ReadZero(c) \/ SendResult(c) \/ ResultWait(c)
  \/ ResultUpdate(c)

-----------------------------------------------------------------------------
(* Core 1: the callbacks of the TCP stack *)

Callback == cb = Idle

\* The connection is established (tcp_callback_connected), the server greets.
Establish(c) ==
  /\ Callback /\ pcb[c] = "connecting"
  /\ pcb' = [pcb EXCEPT ![c] = "open"]
  /\ toClient' = [toClient EXCEPT ![c] = Append(@, "greeting")]
  /\ UNCHANGED <<state, buffer, waits, tries, coreVars, cb, toServer, closing, got, slaveVars, late>>

\* tcp_callback_received with data: the copy to socketBuffer, ...
Receive(c) ==
  /\ Callback /\ pcb[c] = "open" /\ toClient[c] # <<>>
  /\ buffer' = [buffer EXCEPT ![c] = Head(toClient[c])]
  /\ toClient' = [toClient EXCEPT ![c] = Tail(@)]
  /\ cb' = [client |-> c, seen |-> "copied"]
  /\ UNCHANGED <<state, pcb, waits, tries, coreVars, toServer, closing, got, slaveVars, late>>

\* ... the look at the state, ...
LookAtState ==
  /\ cb.seen = "copied"
  /\ cb' = [cb EXCEPT !.seen = state[cb.client]]
  /\ UNCHANGED <<state, pcb, buffer, waits, tries, coreVars, netVars, slaveVars, late>>

\* ... and the new state.
After(s) == CASE s = "CONNECT_WAIT" -> {"JOB_REQUEST"}
              [] s = "REQUEST_WAIT" -> {"HASH_CALCULATION"}
              [] s = "RESULT_WAIT"  -> {"RESULT_UPDATE"}
              [] OTHER              -> {}
SetState ==
  /\ cb.seen \in States
  /\ state' = [state EXCEPT ![cb.client] = IF After(cb.seen) = {} THEN @ ELSE CHOOSE s \in After(cb.seen) : TRUE]
  /\ cb' = Idle
  /\ UNCHANGED <<pcb, buffer, waits, tries, coreVars, netVars, slaveVars, late>>

\* The peer is gone and reads no more: tcp_client_close has nothing left to send.
PeerGone(c) ==
  /\ pcb' = [pcb EXCEPT ![c] = "NULL"]
  /\ toServer' = [toServer EXCEPT ![c] = <<>>]
  /\ toClient' = [toClient EXCEPT ![c] = <<>>]
  /\ UNCHANGED <<closing, got>>

\* tcp_callback_received without data: the server has closed the connection.
PeerCloses(c) ==
  /\ Callback /\ pcb[c] = "open" /\ toClient[c] = <<>>
  /\ PeerGone(c)
  /\ UNCHANGED <<state, buffer, waits, tries, coreVars, cb, slaveVars, late>>

\* tcp_callback_received with an error.
Aborted(c) ==
  /\ Callback /\ pcb[c] = "open"
  /\ PeerGone(c) /\ Become(c, "CONNECT")
  /\ UNCHANGED <<buffer, waits, tries, coreVars, cb, slaveVars, late>>

-----------------------------------------------------------------------------
(* The server, the slaves, the clock and the watchdog *)

Content(c) == IF buffer[c] = "result" THEN "result" ELSE "other"

\* The stack sends what tcp_write queued, the server answers.
Serve(c) ==
  /\ pcb[c] = "open" /\ toServer[c] # <<>>
  /\ toServer' = [toServer EXCEPT ![c] = Tail(@)]
  /\ \E m \in IF Head(toServer[c]) = "request" THEN {"job", "bad"} ELSE {"verdict"} :
       toClient' = [toClient EXCEPT ![c] = Append(@, m)]
  /\ got' = IF Head(toServer[c]) = "result" THEN [got EXCEPT ![c] = Content(c)] ELSE got
  /\ UNCHANGED <<state, pcb, buffer, waits, tries, coreVars, cb, closing, slaveVars, late>>

\* What was queued when the connection was closed is sent.
SendRest(c) ==
  /\ closing[c]
  /\ closing' = [closing EXCEPT ![c] = FALSE]
  /\ got' = [got EXCEPT ![c] = Content(c)]
  /\ UNCHANGED <<state, pcb, buffer, waits, tries, coreVars, cb, toServer, toClient, slaveVars, late>>

Work(c) ==
  /\ worker[c] = "busy"
  /\ \E w \in {"done"} \cup IF c \in Faulty THEN {"zero"} ELSE {} :
       worker' = [worker EXCEPT ![c] = w]
  /\ UNCHANGED <<state, pcb, buffer, waits, tries, coreVars, cb, netVars, retry, late>>

\* The minute of wait_open_time comes: duino_print_rtc_log sets g_start_min after
\* the loop has ended, by when a callback that was running has returned.
Minute(c) ==
  /\ waits[c] /\ Callback /\ mid = "start"
  /\ waits' = [waits EXCEPT ![c] = FALSE]
  /\ UNCHANGED <<state, pcb, buffer, tries, coreVars, cb, netVars, slaveVars, late>>

\* The watchdog restarts the master; the slaves go on.
Reboot ==
  /\ mid = "watchdog"
  /\ state' = [c \in Client |-> "CONNECT"]
  /\ pcb' = [c \in Client |-> "NULL"]
  /\ buffer' = [c \in Client |-> "empty"]
  /\ waits' = [c \in Client |-> TRUE]
  /\ tries' = Retries
  /\ retry' = [c \in Client |-> 0]
  /\ clientNo' = 0 /\ mid' = "start"
  /\ cb' = Idle
  /\ toServer' = [c \in Client |-> <<>>]
  /\ toClient' = [c \in Client |-> <<>>]
  /\ closing' = [c \in Client |-> FALSE]
  /\ UNCHANGED <<worker, late, got>>

Core1(c) == Establish(c) \/ Receive(c) \/ PeerCloses(c) \/ Aborted(c)
Next ==
  \/ \E c \in Client : \/ Turn(c) \/ Core1(c)
                       \/ Serve(c) \/ SendRest(c) \/ Work(c) \/ Minute(c)
  \/ LookAtState \/ SetState
  \/ Reboot

Spec == Init /\ [][Next]_vars

\* Both cores run for ever, and so does the watchdog.  Of a client that is watched,
\* the worker ends its job; the timer, looked at again and again, has expired at
\* last; and the status DONE and the result, asked for again and again, are read
\* at last.  Nothing is assumed of a job that is written or of a status that is
\* asked for, nor of the network, the server or the other clients.
LiveSpec ==
  /\ Spec
  /\ WF_vars(\E c \in Client : Turn(c))
  /\ \A c \in Watched : /\ WF_vars(Work(c)) /\ SF_vars(Expire(c))
                       /\ SF_vars(CalculationWait(c)) /\ SF_vars(ReadResult(c))
  /\ WF_vars(LookAtState \/ SetState) /\ WF_vars(Reboot)

-----------------------------------------------------------------------------
\* What the master works on as a job, and passes on to a slave, is the server's
\* answer to its last request: not a greeting, a verdict or its own result that
\* got into socketBuffer before or since.
JobIsAnswer == \A c \in Client :
  /\ state[c] = "HASH_CALCULATION" => buffer[c] \in {"job", "bad"}
  /\ Within(c, "parsed") => buffer[c] = "job"

\* The server gets every result as it was given to tcp_write, although the text
\* is only pointed to until it is sent and socketBuffer takes the next message.
ResultAsWritten == \A c \in Client : got[c] # "other"

\* No answer arrives that the client has not asked for: on a connection there is
\* never more than one message under way, and the client waits for that one.
InStep == \A c \in Client :
  pcb[c] = "open" =>
    /\ Len(toServer[c]) + Len(toClient[c]) <= 1
    /\ toServer[c] # <<>> => state[c] \notin {"HASH_CALCULATION", "CALCULATION_WAIT"}

\* Where a client stays for good, or until the master is restarted: its slave is
\* given up, its job never got to the slave, its result is the number 0.
DeadEnd(c) == \/ state[c] = "SLAVE_FAULT"
              \/ state[c] = "CALCULATION_WAIT" /\ Idles(c)
              \/ state[c] = "SEND_RESULT" /\ HasZero(c)

\* A client whose connection was closed comes back to connect again whatever it
\* was doing, unless it gets to one of the three dead ends that the slave can
\* lead it to: no wait for the server and no race with a callback is another.
Reconnects == \A c \in Watched :
  pcb[c] = "NULL" ~> (state[c] = "CONNECT" \/ pcb[c] # "NULL" \/ DeadEnd(c))

\* What HASH_CALCULATION reads as "the job message" (line 612) is an answer to a
\* job request, although a request that is late is sent again.
JobMessage == \A c \in Client : At(c, "HASH_CALCULATION") => buffer[c] \in {"job", "bad"}

-----------------------------------------------------------------------------
(* Why they hold: where a conversation stands, for each state of its client  *)
(* and each place where core 0 can be in the handler of it.  This is         *)
(* inductive when no timer but that of CONNECT_WAIT expires while there is a *)
(* connection.                                                               *)

\* where core 0 is with client c, and whether core 1 is in a callback for it
Where(c)   == IF clientNo = c THEN mid ELSE "start"
Pending(c) == cb.client = c /\ cb.seen # "none"
Silent(c)  == toServer[c] = <<>> /\ toClient[c] = <<>>

\* the answers to a request
Answer == {"job", "bad"}

\* The client waits for the connection, or for the greeting of the server.
Opening(c) == \/ Where(c) = "connecting" /\ state[c] = "CONNECT"
              \/ Where(c) \in {"start", "connect expired"} /\ state[c] = "CONNECT_WAIT"

Greeting(c) == /\ Opening(c)
               /\ Silent(c) \/ (toServer[c] = <<>> /\ toClient[c] = <<"greeting">> /\ ~Pending(c))

\* A job request is on its way, or its answer, or the answer is in socketBuffer.
Asking(c) ==
  /\ \/ Where(c) = "requested" /\ state[c] = "JOB_REQUEST"
     \/ Where(c) = "start" /\ state[c] = "REQUEST_WAIT"
  /\ \/ Silent(c) /\ (Pending(c) => buffer[c] \in Answer)
     \/ toServer[c] = <<"request">> /\ toClient[c] = <<>> /\ ~Pending(c)
     \/ toServer[c] = <<>> /\ (\E m \in Answer : toClient[c] = <<m>>) /\ ~Pending(c)

\* A result is on its way, and still in socketBuffer, or the verdict on it.
Telling(c) ==
  /\ \/ Where(c) = "sent" /\ state[c] = "SEND_RESULT"
     \/ Where(c) = "start" /\ state[c] = "RESULT_WAIT"
  /\ \/ Silent(c)
     \/ toServer[c] = <<"result">> /\ toClient[c] = <<>> /\ buffer[c] = "result" /\ ~Pending(c)
     \/ toServer[c] = <<>> /\ toClient[c] = <<"verdict">> /\ ~Pending(c)

\* Nothing is on its way: the client has what it asked for and has not asked again.
Resting(c) ==
  /\ Silent(c) /\ ~Pending(c)
  /\ \/ Where(c) = "start" /\ state[c] \in {"JOB_REQUEST", "HASH_CALCULATION", "CALCULATION_WAIT",
                                           "SEND_RESULT", "RESULT_UPDATE", "SLAVE_FAULT"}
     \/ Where(c) = "connect expired" /\ state[c] = "JOB_REQUEST"
     \/ Where(c) = "parsed" /\ state[c] = "HASH_CALCULATION"
     \/ Where(c) = "printed" /\ state[c] = "SEND_RESULT"

\* A connection that core 0 has closed under a callback is not opened again
\* before the minute of CONNECT comes.
Closed(c) == /\ Silent(c)
             /\ Pending(c) => \/ mid = "watchdog"
                              \/ Where(c) = "start" /\ state[c] = "CONNECT" /\ waits[c]

ConversationInv(c) ==
  \/ pcb[c] = "NULL" /\ Closed(c)
  \/ pcb[c] = "connecting" /\ Opening(c) /\ Silent(c) /\ ~Pending(c)
  \/ pcb[c] = "open" /\ (Greeting(c) \/ Asking(c) \/ Telling(c) \/ Resting(c))

\* What the state and the place in the handler say of socketBuffer.
BufferInv(c) ==
  /\ state[c] = "HASH_CALCULATION" => buffer[c] \in Answer
  /\ Where(c) = "parsed" => buffer[c] = "job"
  /\ Where(c) = "printed" => buffer[c] = "result"
  /\ closing[c] => mid = "watchdog" /\ buffer[c] = "result"
  /\ got[c] # "other"

\* The state that a callback saw is still the state of its client when it sets
\* the next one, unless the client has closed the connection meanwhile.
CallbackInv(c) ==
  cb.client = c =>
    /\ cb.seen \in {"copied", "REQUEST_WAIT"} /\ state[c] = "REQUEST_WAIT" => buffer[c] \in Answer
    /\ cb.seen \in {"REQUEST_WAIT", "RESULT_WAIT"} => state[c] = cb.seen
    /\ cb.seen = "CONNECT_WAIT" =>
         state[c] = cb.seen \/ (Where(c) = "start" /\ state[c] = "CONNECT" /\ pcb[c] = "NULL")

SessionInv ==
  /\ \A c \in Client : ConversationInv(c) /\ BufferInv(c) /\ CallbackInv(c)
  /\ mid = "watchdog" => \A c \in Client : pcb[c] = "NULL"

\* The inductive invariant: the types, and of every client what is under way on
\* its connection, what socketBuffer holds and what a callback may still set
\* (duino_master_state_loop against tcp_callback_received).
IInv == TypeOK /\ SessionInv
=============================================================================
