------------------------------ MODULE SoloMiner ------------------------------
(***************************************************************************)
(* The stand-alone miner: examples/miner_W5100S-EVB-Pico.  Each core runs  *)
(* the same loop over a socket of its own: connect, fetch a job, compute,  *)
(* send the result.  A socket call blocks; the waits for an answer are     *)
(* actions of their own here, for that is where the server acts.           *)
(*                                                                         *)
(* Core 0 also runs the DHCP client after every block, and gave it the     *)
(* buffer of its own answers to work in.  The chip's sockets, DHCP and the *)
(* server are external: a connection delivers in order, is greeted first,  *)
(* and the server answers each message with one.                           *)
(***************************************************************************)
EXTENDS Integers, Sequences

CONSTANTS Cores,      \* main and core1_entry
          DhcpCores,  \* those that call DHCP_run: core 0
          Jobs,       \* the number of jobs told apart, for each core
          MaxLate,    \* bound: waits that end although the answer was to come
          MaxLosses   \* bound: connections lost

ASSUME SoloAssumption == /\ DhcpCores \subseteq Cores
                         /\ Jobs \in Nat \ {0}
                         /\ MaxLate \in Nat /\ MaxLosses \in Nat

VARIABLES
  host,       \* g_duino_host
  loop,       \* loop_state, and the wait a block is in
  closeFlag,  \* close_flag
  buf,        \* g_ethernet_buf_core0, g_ethernet_buf_core1: the texts in it
  job,        \* last_block_hash_str, expected_hash_str and difficulty
  num,        \* duco_numeric_result: the job that it solves
  sock,       \* the status of the socket
  toServer, toClient,
  given,      \* the last job the server gave the core
  missed,     \* history: a fetch on this connection went without its answer
  late, losses

netVars  == <<sock, toServer, toClient, given>>
coreVars == <<loop, closeFlag, buf, job, num, missed>>
vars     == <<host, coreVars, netVars, late, losses>>

Job     == 0..(Jobs - 1)
Garbage == -1      \* what a text that is no job is parsed to
Unset   == -2      \* what num holds before the first nonce is found

Text(k, j) == [kind |-> k, of |-> j]
Greeting   == Text("greeting", Garbage)
Verdict    == Text("verdict", Garbage)
Dhcp       == Text("dhcp", Garbage)
Open       == Text("open", Garbage)        \* to the server: a connection
Request    == Text("request", Garbage)
JobLine(j) == Text("job", j)
Result(j)  == Text("result", j)

Blocks  == {"ConServer", "GetHash", "CalHash", "SendHash"}
Waits   == {"AwaitGreeting", "AwaitJob", "AwaitVerdict"}
Results == {Result(j) : j \in Job \cup {Unset}}
Answers == {Greeting, Verdict} \cup {JobLine(j) : j \in Job}

\* The values every variable takes.
TypeOK ==
  /\ host \in {"unknown", "none", "server"}
  /\ loop \in [Cores -> Blocks \cup Waits \cup {"Halted"}]
  /\ closeFlag \in [Cores -> BOOLEAN]
  /\ buf \in [Cores -> Seq(Answers \cup Results \cup {Dhcp})]
  /\ job \in [Cores -> Job \cup {Garbage}]
  /\ num \in [Cores -> Job \cup {Unset}]
  /\ sock \in [Cores -> {"established", "closeWait", "closed"}]
  /\ toServer \in [Cores -> Seq(Results \cup {Open, Request})]
  /\ toClient \in [Cores -> Seq(Answers)]
  /\ given \in [Cores -> Job]
  /\ missed \in [Cores -> BOOLEAN]
  /\ late \in 0..MaxLate /\ losses \in 0..MaxLosses

Init ==
  /\ host      = "unknown"
  /\ loop      = [c \in Cores |-> "ConServer"]
  /\ closeFlag = [c \in Cores |-> FALSE]
  /\ buf       = [c \in Cores |-> <<>>]
  /\ job       = [c \in Cores |-> Garbage]
  /\ num       = [c \in Cores |-> Unset]
  /\ sock      = [c \in Cores |-> "closed"]
  /\ toServer  = [c \in Cores |-> <<>>] /\ toClient = [c \in Cores |-> <<>>]
  /\ given     = [c \in Cores |-> 0]
  /\ missed    = [c \in Cores |-> FALSE]
  /\ late = 0 /\ losses = 0

\* update_pool, once, before core 1 is launched: a reply that is no JSON leaves
\* no address.
UpdatePool ==
  /\ host = "unknown" /\ host' \in {"none", "server"}
  /\ UNCHANGED <<coreVars, netVars, late, losses>>

-----------------------------------------------------------------------------
(* What the blocks have in common *)

At(c, l) == host # "unknown" /\ loop[c] = l

\* The end of a block.  DHCP_run may use the buffer to renew the lease, and
\* wizchip_dhcp_conflict halts the core.
EndBlock(c, l, text) ==
  \/ loop' = [loop EXCEPT ![c] = l] /\ buf' = [buf EXCEPT ![c] = text]
  \/ /\ c \in DhcpCores
     /\ \E after \in {l, "Halted"} : loop' = [loop EXCEPT ![c] = after]
     /\ buf' = [buf EXCEPT ![c] = <<Dhcp>>]

Send(c, text) ==
  toServer' = IF sock[c] = "established" THEN [toServer EXCEPT ![c] = Append(@, text)]
              ELSE toServer

\* recv_data_from_server takes all that has come; recv fails on a closed socket,
\* the buffer is cleared before.
Came(c)    == toClient[c] # <<>>
Readable(c) == sock[c] # "closed"
Taken(c)   == IF Readable(c) THEN toClient[c] ELSE <<>>
Take(c)    == toClient' = [toClient EXCEPT ![c] = <<>>]

AnswerDue(c) == sock[c] = "established" /\ toServer[c] # <<>>

\* Mutant of TimesOut: no time-out, as in connect_to_server.
TimesOutNever(c) == FALSE /\ UNCHANGED late

\* US_TIMER_WAIT_TIMEOUT passes while there is nothing to read.
TimesOut(c) ==
  /\ ~Came(c)
  /\ IF AnswerDue(c) THEN late < MaxLate /\ late' = late + 1 ELSE UNCHANGED late

Reconnect(c, text) == /\ closeFlag' = [closeFlag EXCEPT ![c] = TRUE]
                      /\ EndBlock(c, "ConServer", text)

-----------------------------------------------------------------------------
(* The blocks of a core *)

\* connect_to_server: whatever connect returns but SOCK_FATAL, the greeting is
\* waited for without a time-out.
ConServer(c) ==
  /\ At(c, "ConServer")
  /\ toClient' = IF closeFlag[c] THEN [toClient EXCEPT ![c] = <<>>] ELSE toClient
  /\ \/ /\ host = "server"
        /\ sock' = [sock EXCEPT ![c] = "established"]
        /\ toServer' = [toServer EXCEPT ![c] = <<Open>>]
        /\ missed' = [missed EXCEPT ![c] = FALSE]
        /\ loop' = [loop EXCEPT ![c] = "AwaitGreeting"]
     \/ /\ sock' = [sock EXCEPT ![c] = "closed"]
        /\ toServer' = [toServer EXCEPT ![c] = <<>>]
        /\ \E l \in {"AwaitGreeting", "Halted"} : loop' = [loop EXCEPT ![c] = l]
        /\ UNCHANGED missed
  /\ UNCHANGED <<host, closeFlag, buf, job, num, given, late, losses>>

Greeted(c) ==
  /\ At(c, "AwaitGreeting") /\ Came(c)
  /\ Take(c)
  /\ closeFlag' = [closeFlag EXCEPT ![c] = FALSE]
  /\ EndBlock(c, "GetHash", buf[c])
  /\ UNCHANGED <<host, job, num, missed, sock, toServer, given, late, losses>>

GetHash(c) ==
  /\ At(c, "GetHash")
  /\ Send(c, Request)
  /\ loop' = [loop EXCEPT ![c] = "AwaitJob"]
  /\ UNCHANGED <<host, closeFlag, buf, job, num, missed, sock, toClient, given, late, losses>>

\* get_duino_hash_data parses whatever the buffer holds and returns 0: the
\* branch that counts failures and resets the device is never taken.
Parsed(text) == IF text # <<>> /\ Head(text).kind = "job" THEN Head(text).of ELSE Garbage
Parse(c, text) == /\ job' = [job EXCEPT ![c] = Parsed(text)]
                  /\ EndBlock(c, "CalHash", text)

\* Mutant of JobComes: the buffer is parsed before it is filled.
JobComesParsedFirst(c) ==
  /\ At(c, "AwaitJob") /\ Came(c)
  /\ Take(c)
  /\ job' = [job EXCEPT ![c] = Parsed(buf[c])]
  /\ EndBlock(c, "CalHash", Taken(c))
  /\ missed' = [missed EXCEPT ![c] = @ \/ ~Readable(c)]
  /\ UNCHANGED <<host, closeFlag, num, sock, toServer, given, late, losses>>

JobComes(c) ==
  /\ At(c, "AwaitJob") /\ Came(c)
  /\ Take(c)
  /\ Parse(c, Taken(c))
  /\ missed' = [missed EXCEPT ![c] = @ \/ ~Readable(c)]
  /\ UNCHANGED <<host, closeFlag, num, sock, toServer, given, late, losses>>

JobMissed(c) ==
  /\ At(c, "AwaitJob") /\ TimesOut(c)
  /\ Parse(c, buf[c])
  /\ missed' = [missed EXCEPT ![c] = TRUE]
  /\ UNCHANGED <<host, closeFlag, num, netVars, losses>>

\* calculate_hash_core0, calculate_hash_core1: a search that finds nothing
\* leaves the result as it was.
CalHash(c) ==
  /\ At(c, "CalHash")
  /\ num' = [num EXCEPT ![c] = IF job[c] = Garbage THEN @ ELSE job[c]]
  /\ EndBlock(c, "SendHash", buf[c])
  /\ UNCHANGED <<host, closeFlag, job, missed, netVars, late, losses>>

SendHash(c) ==
  /\ At(c, "SendHash") /\ sock[c] = "established"
  /\ buf' = [buf EXCEPT ![c] = <<Result(num[c])>>]
  /\ Send(c, Result(num[c]))
  /\ loop' = [loop EXCEPT ![c] = "AwaitVerdict"]
  /\ UNCHANGED <<host, closeFlag, job, num, missed, sock, toClient, given, late, losses>>

\* The result is dropped; send_flag is set and never read.
SendLost(c) ==
  /\ At(c, "SendHash") /\ sock[c] # "established"
  /\ Reconnect(c, buf[c])
  /\ UNCHANGED <<host, job, num, missed, netVars, late, losses>>

\* GOOD or BAD is only printed; an answer that is neither is passed over.
VerdictComes(c) ==
  /\ At(c, "AwaitVerdict") /\ Came(c)
  /\ Take(c)
  /\ IF Readable(c) THEN EndBlock(c, "GetHash", Taken(c)) /\ UNCHANGED closeFlag
     ELSE Reconnect(c, Taken(c))
  /\ UNCHANGED <<host, job, num, missed, sock, toServer, given, late, losses>>

\* Mutants of VerdictMissed: the core goes on with the same connection; it
\* connects again without closing the socket.
VerdictMissedKeeps(c) ==
  /\ At(c, "AwaitVerdict") /\ TimesOut(c)
  /\ EndBlock(c, "GetHash", buf[c])
  /\ UNCHANGED <<host, closeFlag, job, num, missed, netVars, losses>>

VerdictMissedOpen(c) ==
  /\ At(c, "AwaitVerdict") /\ TimesOut(c)
  /\ EndBlock(c, "ConServer", buf[c])
  /\ UNCHANGED <<host, closeFlag, job, num, missed, netVars, losses>>

VerdictMissed(c) ==
  /\ At(c, "AwaitVerdict") /\ TimesOut(c)
  /\ Reconnect(c, buf[c])
  /\ UNCHANGED <<host, job, num, missed, netVars, losses>>

-----------------------------------------------------------------------------
(* The server and the network *)

NewJob(c) == (given[c] + 1) % Jobs
AnswerTo(c, text) == IF text = Open THEN Greeting
                     ELSE IF text = Request THEN JobLine(NewJob(c))
                     ELSE Verdict

ServerAnswers(c) ==
  /\ AnswerDue(c)
  /\ toServer' = [toServer EXCEPT ![c] = Tail(@)]
  /\ toClient' = [toClient EXCEPT ![c] = Append(@, AnswerTo(c, Head(toServer[c])))]
  /\ given' = IF Head(toServer[c]) = Request THEN [given EXCEPT ![c] = NewJob(c)] ELSE given
  /\ UNCHANGED <<host, coreVars, sock, late, losses>>

\* The server closes the connection, or it breaks.
ConnectionLost(c) ==
  /\ sock[c] = "established" /\ losses < MaxLosses /\ losses' = losses + 1
  /\ \E s \in {"closeWait", "closed"} : sock' = [sock EXCEPT ![c] = s]
  /\ toServer' = [toServer EXCEPT ![c] = <<>>]
  /\ UNCHANGED <<host, coreVars, toClient, given, late>>

CoreStep(c) ==
  \/ ConServer(c) \/ Greeted(c) \/ GetHash(c) \/ JobComes(c) \/ JobMissed(c)
  \/ CalHash(c) \/ SendHash(c) \/ SendLost(c) \/ VerdictComes(c) \/ VerdictMissed(c)

Next == UpdatePool \/ \E c \in Cores : CoreStep(c) \/ ServerAnswers(c) \/ ConnectionLost(c)

\* A core runs on, and the server answers what has reached it.
Spec == /\ Init /\ [][Next]_vars
        /\ WF_vars(UpdatePool)
        /\ \A c \in Cores : WF_vars(CoreStep(c)) /\ WF_vars(ServerAnswers(c))

-----------------------------------------------------------------------------
(* The inductive invariant *)

\* What is under way on a connection: nothing, a message, or its answer.
Quiet(c) == toServer[c] = <<>> /\ toClient[c] = <<>>
Exchange(c, text, answer) == \/ Quiet(c)
                             \/ toServer[c] = <<text>> /\ toClient[c] = <<>>
                             \/ toServer[c] = <<>> /\ toClient[c] = <<answer>>

\* In which block it can be.  A result that is not waited for any more is on its
\* way until the socket is closed.
Phase(c) ==
  /\ loop[c] = "AwaitGreeting" => Exchange(c, Open, Greeting)
  /\ loop[c] \in {"GetHash", "CalHash", "SendHash"} => Quiet(c)
  /\ loop[c] = "AwaitJob" => Exchange(c, Request, JobLine(given[c]))
  /\ loop[c] \in {"AwaitVerdict", "ConServer", "Halted"} => Exchange(c, Result(given[c]), Verdict)
  /\ loop[c] = "CalHash" => job[c] = given[c]
  /\ loop[c] = "SendHash" => num[c] = given[c]

\* The first connection alone is opened on a socket that is not closed before.
FreshSocket(c) == loop[c] = "ConServer" /\ ~closeFlag[c] =>
                    toClient[c] = <<>> /\ sock[c] = "closed"

\* A core is in step with the server unless a fetch on the connection failed;
\* what one connection leaves behind does not reach the next (connect_to_server).
SoloInv == /\ TypeOK
           /\ \A c \in Cores : FreshSocket(c) /\ (~missed[c] => Phase(c))

-----------------------------------------------------------------------------
(* Properties *)

\* As long as no fetch on its connection went without an answer, the result a
\* core sends is that of the job it was given last (recv_data_from_server,
\* get_duino_hash_data and duco_numeric_result): neither one left in the buffer
\* from an earlier connection or by DHCP, nor the nonce of the job before.
ResultIsOfJob ==
  \A c \in Cores : ~missed[c] =>
    \A i \in DOMAIN toServer[c] :
      toServer[c][i].kind = "result" => toServer[c][i].of = given[c]

\* And each wait reads the answer it waits for: an answer that came too late for
\* the wait it was for is gone with the connection.
Awaited == [AwaitGreeting |-> "greeting", AwaitJob |-> "job", AwaitVerdict |-> "verdict"]
InStep ==
  \A c \in Cores : ~missed[c] /\ loop[c] \in Waits =>
    \A i \in DOMAIN toClient[c] : i = 1 /\ toClient[c][i].kind = Awaited[loop[c]]

\* A core goes on fetching jobs for ever; it stops only in connect_to_server,
\* where it waits for a greeting that does not come, or where the code halts.
Stuck(c) == \/ loop[c] = "Halted"
            \/ loop[c] = "AwaitGreeting" /\ ~Came(c) /\ ~AnswerDue(c)
StopsOnlyInConnect == \A c \in Cores : []<>(loop[c] = "GetHash") \/ <>[]Stuck(c)

\* A core that lost its connection finds out, in whatever block it is.
NoticesLoss == \A c \in Cores :
  sock[c] # "established" ~> loop[c] = "ConServer" \/ Stuck(c)
=============================================================================
