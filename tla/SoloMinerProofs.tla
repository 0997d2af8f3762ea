--------------------------- MODULE SoloMinerProofs ---------------------------
(***************************************************************************)
(* The safety of the stand-alone miner, for any number of cores, of jobs,  *)
(* of late answers and of lost connections.                                *)
(***************************************************************************)
EXTENDS SoloMiner, TLAPS

-----------------------------------------------------------------------------
(* Types *)

\* What a buffer, a message to the server and a message to a core can be.
BufText  == Answers \cup Results \cup {Dhcp}
SentText == Results \cup {Open, Request}
Places   == Blocks \cup Waits \cup {"Halted"}

\* The end of a block types the buffer and the place, and concerns one core.
LEMMA EndBlockType ==
  ASSUME TypeOK, NEW c \in Cores, NEW l \in Places, NEW text \in Seq(BufText),
         EndBlock(c, l, text)
  PROVE  /\ loop' \in [Cores -> Places] /\ loop'[c] \in {l, "Halted"}
         /\ buf' \in [Cores -> Seq(BufText)]
         /\ \A d \in Cores \ {c} : loop'[d] = loop[d]
<1> USE DEF TypeOK, Places
<1>1. <<Dhcp>> \in Seq(BufText)
  BY DEF BufText
<1>2. buf \in [Cores -> Seq(BufText)]
  BY DEF BufText
<1>3. "Halted" \in Places
  OBVIOUS
<1>4. PICK after \in {l, "Halted"}, b \in Seq(BufText) :
        loop' = [loop EXCEPT ![c] = after] /\ buf' = [buf EXCEPT ![c] = b]
  BY <1>1 DEF EndBlock
<1> QED
  BY <1>2, <1>3, <1>4

\* What a core reads is a text its buffer can hold.
LEMMA TakenType ==
  ASSUME TypeOK, NEW c \in Cores
  PROVE  /\ Taken(c) \in Seq(BufText) /\ buf[c] \in Seq(BufText)
         /\ Take(c) => /\ toClient' \in [Cores -> Seq(Answers)]
                       /\ toClient'[c] = <<>>
                       /\ \A d \in Cores \ {c} : toClient'[d] = toClient[d]
<1>1. toClient[c] \in Seq(Answers) /\ <<>> \in Seq(Answers) /\ <<>> \in Seq(BufText)
  BY DEF TypeOK
<1>2. Seq(Answers) \subseteq Seq(BufText)
  BY DEF BufText
<1>3. Taken(c) \in Seq(BufText)
  BY <1>1, <1>2 DEF Taken
<1>4. buf[c] \in Seq(BufText)
  BY DEF TypeOK, BufText
<1>5. ASSUME Take(c)
      PROVE  /\ toClient' \in [Cores -> Seq(Answers)]
             /\ toClient'[c] = <<>>
             /\ \A d \in Cores \ {c} : toClient'[d] = toClient[d]
  BY <1>1, <1>5 DEF Take, TypeOK
<1> QED
  BY <1>3, <1>4, <1>5

\* A text that is no job is parsed to Garbage, a job line to its job.
LEMMA ParsedType ==
  /\ \A text \in Seq(BufText) : Parsed(text) \in Job \cup {Garbage}
  /\ \A j \in Job : Parsed(<<JobLine(j)>>) = j
<1>1. ASSUME NEW text \in Seq(BufText) PROVE Parsed(text) \in Job \cup {Garbage}
  <2>1. CASE text # <<>> /\ Head(text).kind = "job"
    <3>1. Head(text) \in BufText
      BY <2>1
    <3>2. \E j \in Job : Head(text) = JobLine(j)
      BY <2>1, <3>1 DEF BufText, Answers, Results, Greeting, Verdict, Dhcp, Result, JobLine, Text
    <3>3. Head(text).of \in Job
      BY <3>2 DEF JobLine, Text
    <3> QED
      BY <2>1, <3>3 DEF Parsed
  <2>2. CASE ~(text # <<>> /\ Head(text).kind = "job")
    BY <2>2 DEF Parsed
  <2> QED
    BY <2>1, <2>2
<1>2. ASSUME NEW j \in Job PROVE Parsed(<<JobLine(j)>>) = j
  <2>1. <<JobLine(j)>> # <<>> /\ Head(<<JobLine(j)>>) = JobLine(j)
    OBVIOUS
  <2>2. JobLine(j).kind = "job" /\ JobLine(j).of = j
    BY DEF JobLine, Text
  <2> QED
    BY <2>1, <2>2 DEF Parsed
<1> QED
  BY <1>1, <1>2

\* A wait that ends counts at most one late answer.
LEMMA TimesOutType ==
  ASSUME TypeOK, NEW c \in Cores, TimesOut(c)
  PROVE  late' \in 0..MaxLate /\ toClient[c] = <<>>
BY SoloAssumption DEF TypeOK, TimesOut, Came

\* What the server answers to each message of a core.
LEMMA AnswerType ==
  ASSUME TypeOK, NEW c \in Cores
  PROVE  /\ NewJob(c) \in Job
         /\ \A text \in SentText : AnswerTo(c, text) \in Answers
         /\ AnswerTo(c, Open) = Greeting
         /\ AnswerTo(c, Request) = JobLine(NewJob(c))
         /\ \A j \in Job \cup {Unset} : AnswerTo(c, Result(j)) = Verdict
<1>1. NewJob(c) \in Job
  BY SoloAssumption DEF TypeOK, NewJob, Job
<1>2. AnswerTo(c, Open) = Greeting
  BY DEF AnswerTo, Open, Text
<1>3. AnswerTo(c, Request) = JobLine(NewJob(c))
  BY DEF AnswerTo, Open, Request, Text
<1>4. \A j \in Job \cup {Unset} : AnswerTo(c, Result(j)) = Verdict
  BY DEF AnswerTo, Open, Request, Result, Text
<1>5. \A text \in SentText : AnswerTo(c, text) \in Answers
  BY <1>1, <1>2, <1>3, <1>4 DEF SentText, Results, Answers
<1> QED
  BY <1>1, <1>2, <1>3, <1>4, <1>5

-----------------------------------------------------------------------------
(* The steps *)

\* What SoloInv says of one core, and what of a core a step of another leaves.
CoreInv(c) == FreshSocket(c) /\ (~missed[c] => Phase(c))
Same(d) == /\ loop'[d] = loop[d] /\ closeFlag'[d] = closeFlag[d]
           /\ job'[d] = job[d] /\ num'[d] = num[d] /\ missed'[d] = missed[d]
           /\ sock'[d] = sock[d] /\ given'[d] = given[d]
           /\ toServer'[d] = toServer[d] /\ toClient'[d] = toClient[d]

\* A step of one core has to be looked at for that core alone.
LEMMA OneCore ==
  ASSUME SoloInv, NEW c \in Cores, TypeOK', CoreInv(c)',
         \A d \in Cores \ {c} : Same(d)
  PROVE  SoloInv'
<1>1. ASSUME NEW d \in Cores PROVE CoreInv(d)'
  <2>1. CASE d = c
    BY <2>1
  <2>2. CASE d # c
    <3>1. CoreInv(d) /\ Same(d)
      BY <2>2 DEF SoloInv, CoreInv
    <3> QED
      BY <3>1 DEF CoreInv, Same, FreshSocket, Phase, Exchange, Quiet
  <2> QED
    BY <2>1, <2>2
<1> QED
  BY <1>1 DEF SoloInv, CoreInv

\* The sockets are connected anew: nothing is left of the connection before.
LEMMA ConServerStep ==
  ASSUME SoloInv, NEW c \in Cores, ConServer(c)
  PROVE  SoloInv'
<1> USE DEF SoloInv, TypeOK
<1>1. toClient'[c] = <<>> /\ \A d \in Cores \ {c} : toClient'[d] = toClient[d]
  BY DEF ConServer, At, FreshSocket
<1>2. toClient' \in [Cores -> Seq(Answers)]
  BY DEF ConServer
<1>3. /\ <<>> \in Seq(Results \cup {Open, Request})
      /\ <<Open>> \in Seq(Results \cup {Open, Request})
  OBVIOUS
<1>4. TypeOK'
  <2>1. toServer' \in [Cores -> Seq(Results \cup {Open, Request})]
    BY <1>3 DEF ConServer
  <2>2. /\ sock' \in [Cores -> {"established", "closeWait", "closed"}]
        /\ missed' \in [Cores -> BOOLEAN]
    BY DEF ConServer
  <2>3. loop' \in [Cores -> Blocks \cup Waits \cup {"Halted"}]
    BY DEF ConServer, Waits
  <2>4. UNCHANGED <<host, closeFlag, buf, job, num, given, late, losses>>
    BY DEF ConServer
  <2> QED
    BY <1>2, <2>1, <2>2, <2>3, <2>4
<1>5. \A d \in Cores \ {c} : Same(d)
  BY <1>1 DEF ConServer, Same
<1>6. CoreInv(c)'
  <2>1. /\ loop'[c] = "AwaitGreeting" \/ (loop'[c] = "Halted" /\ toServer'[c] = <<>>)
        /\ toServer'[c] \in {<<>>, <<Open>>}
    BY DEF ConServer
  <2> QED
    BY <1>1, <2>1 DEF CoreInv, FreshSocket, Phase, Exchange, Quiet
<1> QED
  BY <1>4, <1>5, <1>6, OneCore

LEMMA GreetedStep ==
  ASSUME SoloInv, NEW c \in Cores, Greeted(c)
  PROVE  SoloInv'
<1>1. /\ EndBlock(c, "GetHash", buf[c]) /\ Take(c)
      /\ closeFlag' = [closeFlag EXCEPT ![c] = FALSE]
      /\ At(c, "AwaitGreeting") /\ Came(c)
      /\ UNCHANGED <<host, job, num, missed, sock, toServer, given, late, losses>>
  BY DEF Greeted
<1>2. /\ loop' \in [Cores -> Places] /\ loop'[c] \in {"GetHash", "Halted"}
      /\ buf' \in [Cores -> Seq(BufText)]
      /\ \A d \in Cores \ {c} : loop'[d] = loop[d]
  BY <1>1, TakenType, EndBlockType DEF SoloInv, Places, Blocks
<1>3. /\ toClient' \in [Cores -> Seq(Answers)] /\ toClient'[c] = <<>>
      /\ \A d \in Cores \ {c} : toClient'[d] = toClient[d]
  BY <1>1, TakenType DEF SoloInv
<1>4. TypeOK'
  BY <1>1, <1>2, <1>3 DEF SoloInv, TypeOK, Places, BufText
<1>5. \A d \in Cores \ {c} : Same(d)
  BY <1>1, <1>2, <1>3 DEF Same, SoloInv, TypeOK
<1>6. CoreInv(c)'
  BY <1>1, <1>2, <1>3 DEF SoloInv, CoreInv, FreshSocket, Phase, Exchange, Quiet, Came, At
<1> QED
  BY <1>4, <1>5, <1>6, OneCore

\* The job is asked for when nothing is under way.
LEMMA GetHashStep ==
  ASSUME SoloInv, NEW c \in Cores, GetHash(c)
  PROVE  SoloInv'
<1>1. /\ At(c, "GetHash") /\ Send(c, Request)
      /\ loop' = [loop EXCEPT ![c] = "AwaitJob"]
      /\ UNCHANGED <<host, closeFlag, buf, job, num, missed, sock, toClient, given, late, losses>>
  BY DEF GetHash
<1>2. /\ toServer' \in [Cores -> Seq(SentText)]
      /\ toServer'[c] \in {toServer[c], Append(toServer[c], Request)}
      /\ \A d \in Cores \ {c} : toServer'[d] = toServer[d]
  BY <1>1 DEF Send, SoloInv, TypeOK, SentText
<1>3. TypeOK'
  BY <1>1, <1>2 DEF SoloInv, TypeOK, SentText, Waits
<1>4. \A d \in Cores \ {c} : Same(d)
  BY <1>1, <1>2 DEF Same, SoloInv, TypeOK
<1>5. CoreInv(c)'
  <2>1. loop'[c] = "AwaitJob" /\ loop[c] = "GetHash"
    BY <1>1 DEF SoloInv, TypeOK, At
  <2>2. ~missed[c] => Quiet(c) /\ toServer'[c] \in {<<>>, <<Request>>}
    <3>1. Append(<<>>, Request) = <<Request>>
      OBVIOUS
    <3>2. ~missed[c] => Quiet(c)
      BY <2>1 DEF SoloInv, Phase
    <3> QED
      BY <1>2, <3>1, <3>2 DEF Quiet
  <2> QED
    BY <1>1, <2>1, <2>2 DEF CoreInv, FreshSocket, Phase, Exchange, Quiet
<1> QED
  BY <1>3, <1>4, <1>5, OneCore

\* The answer to the request is the job given last, and it is the one parsed.
LEMMA JobComesStep ==
  ASSUME SoloInv, NEW c \in Cores, JobComes(c)
  PROVE  SoloInv'
<1>1. /\ At(c, "AwaitJob") /\ Came(c) /\ Take(c)
      /\ job' = [job EXCEPT ![c] = Parsed(Taken(c))]
      /\ EndBlock(c, "CalHash", Taken(c))
      /\ missed' = [missed EXCEPT ![c] = @ \/ ~Readable(c)]
      /\ UNCHANGED <<host, closeFlag, num, sock, toServer, given, late, losses>>
  BY DEF JobComes, Parse
<1>2. /\ loop' \in [Cores -> Places] /\ loop'[c] \in {"CalHash", "Halted"}
      /\ buf' \in [Cores -> Seq(BufText)]
      /\ \A d \in Cores \ {c} : loop'[d] = loop[d]
  BY <1>1, TakenType, EndBlockType DEF SoloInv, Places, Blocks
<1>3. /\ toClient' \in [Cores -> Seq(Answers)] /\ toClient'[c] = <<>>
      /\ \A d \in Cores \ {c} : toClient'[d] = toClient[d]
  BY <1>1, TakenType DEF SoloInv
<1>4. Parsed(Taken(c)) \in Job \cup {Garbage}
  BY TakenType, ParsedType DEF SoloInv
<1>5. TypeOK'
  <2>1. missed' \in [Cores -> BOOLEAN]
    BY <1>1 DEF SoloInv, TypeOK
  <2> QED
    BY <1>1, <1>2, <1>3, <1>4, <2>1 DEF SoloInv, TypeOK, Places, BufText
<1>6. \A d \in Cores \ {c} : Same(d)
  BY <1>1, <1>2, <1>3 DEF Same, SoloInv, TypeOK
<1>7. CoreInv(c)'
  <2>1. SUFFICES ASSUME ~missed'[c] PROVE Phase(c)'
    BY <1>2 DEF CoreInv, FreshSocket
  <2>2. ~missed[c] /\ Readable(c)
    BY <1>1, <2>1 DEF SoloInv, TypeOK
  <2>3. toServer[c] = <<>> /\ toClient[c] = <<JobLine(given[c])>>
    BY <1>1, <2>2 DEF SoloInv, Phase, Exchange, Quiet, At, Came
  <2>4. job'[c] = given[c]
    BY <1>1, <2>2, <2>3, ParsedType DEF Taken, SoloInv, TypeOK
  <2> QED
    BY <1>1, <1>2, <1>3, <2>3, <2>4 DEF Phase, Exchange, Quiet
<1> QED
  BY <1>5, <1>6, <1>7, OneCore

\* After a fetch without an answer nothing is claimed of the connection.
LEMMA JobMissedStep ==
  ASSUME SoloInv, NEW c \in Cores, JobMissed(c)
  PROVE  SoloInv'
<1>1. /\ TimesOut(c)
      /\ job' = [job EXCEPT ![c] = Parsed(buf[c])]
      /\ EndBlock(c, "CalHash", buf[c])
      /\ missed' = [missed EXCEPT ![c] = TRUE]
      /\ UNCHANGED <<host, closeFlag, num, netVars, losses>>
  BY DEF JobMissed, Parse
<1>2. /\ loop' \in [Cores -> Places] /\ loop'[c] \in {"CalHash", "Halted"}
      /\ buf' \in [Cores -> Seq(BufText)]
      /\ \A d \in Cores \ {c} : loop'[d] = loop[d]
  BY <1>1, TakenType, EndBlockType DEF SoloInv, Places, Blocks
<1>3. Parsed(buf[c]) \in Job \cup {Garbage} /\ late' \in 0..MaxLate
  BY <1>1, TakenType, ParsedType, TimesOutType DEF SoloInv
<1>4. TypeOK'
  BY <1>1, <1>2, <1>3 DEF SoloInv, TypeOK, Places, BufText, netVars
<1>5. \A d \in Cores \ {c} : Same(d)
  BY <1>1, <1>2 DEF Same, SoloInv, TypeOK, netVars
<1>6. CoreInv(c)'
  BY <1>1, <1>2 DEF CoreInv, FreshSocket, SoloInv, TypeOK
<1> QED
  BY <1>4, <1>5, <1>6, OneCore

\* The job given is one, so its nonce is found and the result is its own.
LEMMA CalHashStep ==
  ASSUME SoloInv, NEW c \in Cores, CalHash(c)
  PROVE  SoloInv'
<1>1. /\ At(c, "CalHash") /\ EndBlock(c, "SendHash", buf[c])
      /\ num' = [num EXCEPT ![c] = IF job[c] = Garbage THEN @ ELSE job[c]]
      /\ UNCHANGED <<host, closeFlag, job, missed, netVars, late, losses>>
  BY DEF CalHash
<1>2. /\ loop' \in [Cores -> Places] /\ loop'[c] \in {"SendHash", "Halted"}
      /\ buf' \in [Cores -> Seq(BufText)]
      /\ \A d \in Cores \ {c} : loop'[d] = loop[d]
  BY <1>1, TakenType, EndBlockType DEF SoloInv, Places, Blocks
<1>3. num' \in [Cores -> Job \cup {Unset}]
  BY <1>1 DEF SoloInv, TypeOK
<1>4. TypeOK'
  BY <1>1, <1>2, <1>3 DEF SoloInv, TypeOK, Places, BufText, netVars
<1>5. \A d \in Cores \ {c} : Same(d)
  BY <1>1, <1>2 DEF Same, SoloInv, TypeOK, netVars
<1>6. CoreInv(c)'
  <2>1. SUFFICES ASSUME ~missed[c] PROVE Phase(c)'
    BY <1>1, <1>2 DEF CoreInv, FreshSocket, netVars
  <2>2. job[c] = given[c] /\ Quiet(c)
    BY <1>1, <2>1 DEF SoloInv, Phase, At
  <2>3. given[c] # Garbage
    BY SoloAssumption DEF SoloInv, TypeOK, Job, Garbage
  <2>4. num'[c] = given[c]
    BY <1>1, <2>2, <2>3 DEF SoloInv, TypeOK
  <2> QED
    BY <1>1, <1>2, <2>2, <2>4 DEF Phase, Exchange, Quiet, netVars
<1> QED
  BY <1>4, <1>5, <1>6, OneCore

LEMMA SendHashStep ==
  ASSUME SoloInv, NEW c \in Cores, SendHash(c)
  PROVE  SoloInv'
<1>1. /\ At(c, "SendHash") /\ Send(c, Result(num[c])) /\ sock[c] = "established"
      /\ buf' = [buf EXCEPT ![c] = <<Result(num[c])>>]
      /\ loop' = [loop EXCEPT ![c] = "AwaitVerdict"]
      /\ UNCHANGED <<host, closeFlag, job, num, missed, sock, toClient, given, late, losses>>
  BY DEF SendHash
<1>2. Result(num[c]) \in Results
  BY DEF SoloInv, TypeOK, Results
<1>3. /\ toServer' \in [Cores -> Seq(SentText)]
      /\ toServer'[c] = Append(toServer[c], Result(num[c]))
      /\ \A d \in Cores \ {c} : toServer'[d] = toServer[d]
  BY <1>1, <1>2 DEF Send, SoloInv, TypeOK, SentText
<1>4. buf' \in [Cores -> Seq(BufText)]
  <2>1. <<Result(num[c])>> \in Seq(BufText)
    BY <1>2 DEF BufText
  <2> QED
    BY <1>1, <2>1 DEF SoloInv, TypeOK, BufText
<1>5. TypeOK'
  BY <1>1, <1>3, <1>4 DEF SoloInv, TypeOK, SentText, BufText, Waits
<1>6. \A d \in Cores \ {c} : Same(d)
  BY <1>1, <1>3 DEF Same, SoloInv, TypeOK
<1>7. CoreInv(c)'
  <2>1. loop'[c] = "AwaitVerdict"
    BY <1>1 DEF SoloInv, TypeOK
  <2>2. SUFFICES ASSUME ~missed[c] PROVE Phase(c)'
    BY <1>1, <2>1 DEF CoreInv, FreshSocket
  <2>3. num[c] = given[c] /\ Quiet(c)
    BY <1>1, <2>2 DEF SoloInv, Phase, At
  <2>4. Append(<<>>, Result(given[c])) = <<Result(given[c])>>
    OBVIOUS
  <2>5. toServer'[c] = <<Result(given[c])>>
    BY <1>3, <2>3, <2>4 DEF Quiet
  <2> QED
    BY <1>1, <2>1, <2>3, <2>5 DEF Phase, Exchange, Quiet
<1> QED
  BY <1>5, <1>6, <1>7, OneCore

\* To connect again, whatever happened: close_flag is set.
LEMMA ReconnectStep ==
  ASSUME SoloInv, NEW c \in Cores, NEW text \in Seq(BufText), Reconnect(c, text),
         loop[c] \in {"SendHash", "AwaitVerdict"},
         toServer' = toServer, sock' = sock, given' = given,
         toClient' \in [Cores -> Seq(Answers)], toClient'[c] \in {toClient[c], <<>>},
         \A d \in Cores \ {c} : toClient'[d] = toClient[d],
         late' \in 0..MaxLate,
         UNCHANGED <<host, job, num, missed, losses>>
  PROVE  SoloInv'
<1>1. /\ closeFlag' = [closeFlag EXCEPT ![c] = TRUE]
      /\ EndBlock(c, "ConServer", text)
  BY DEF Reconnect
<1>2. /\ loop' \in [Cores -> Places] /\ loop'[c] \in {"ConServer", "Halted"}
      /\ buf' \in [Cores -> Seq(BufText)]
      /\ \A d \in Cores \ {c} : loop'[d] = loop[d]
  BY <1>1, EndBlockType DEF SoloInv, Places, Blocks
<1>3. TypeOK'
  BY <1>1, <1>2 DEF SoloInv, TypeOK, Places, BufText
<1>4. \A d \in Cores \ {c} : Same(d)
  BY <1>1, <1>2 DEF Same, SoloInv, TypeOK
<1>5. CoreInv(c)'
  <2>1. closeFlag'[c]
    BY <1>1 DEF SoloInv, TypeOK
  <2>2. SUFFICES ASSUME ~missed[c] PROVE Phase(c)'
    BY <2>1 DEF CoreInv, FreshSocket
  <2>3. Exchange(c, Result(given[c]), Verdict)
    BY <2>2 DEF SoloInv, Phase, Exchange
  <2>4. Exchange(c, Result(given[c]), Verdict)'
    BY <2>3 DEF Exchange, Quiet
  <2> QED
    BY <1>2, <2>4 DEF Phase
<1> QED
  BY <1>3, <1>4, <1>5, OneCore

LEMMA SendLostStep ==
  ASSUME SoloInv, NEW c \in Cores, SendLost(c)
  PROVE  SoloInv'
<1>1. /\ At(c, "SendHash") /\ Reconnect(c, buf[c])
      /\ UNCHANGED <<host, job, num, missed, netVars, late, losses>>
  BY DEF SendLost
<1>2. buf[c] \in Seq(BufText)
  BY TakenType DEF SoloInv
<1>3. /\ toClient' \in [Cores -> Seq(Answers)] /\ late' \in 0..MaxLate
      /\ toServer' = toServer /\ sock' = sock /\ given' = given /\ toClient' = toClient
  BY <1>1 DEF SoloInv, TypeOK, netVars
<1> QED
  BY <1>1, <1>2, <1>3, ReconnectStep DEF At

\* Whatever comes ends the exchange, and the next job can be asked for.
LEMMA VerdictComesStep ==
  ASSUME SoloInv, NEW c \in Cores, VerdictComes(c)
  PROVE  SoloInv'
<1>1. /\ At(c, "AwaitVerdict") /\ Came(c) /\ Take(c)
      /\ UNCHANGED <<host, job, num, missed, sock, toServer, given, late, losses>>
  BY DEF VerdictComes
<1>2. /\ toClient' \in [Cores -> Seq(Answers)] /\ toClient'[c] = <<>>
      /\ \A d \in Cores \ {c} : toClient'[d] = toClient[d]
  BY <1>1, TakenType DEF SoloInv
<1>3. Taken(c) \in Seq(BufText)
  BY TakenType DEF SoloInv
<1>4. CASE Readable(c)
  <2>1. EndBlock(c, "GetHash", Taken(c)) /\ closeFlag' = closeFlag
    BY <1>4 DEF VerdictComes
  <2>2. /\ loop' \in [Cores -> Places] /\ loop'[c] \in {"GetHash", "Halted"}
        /\ buf' \in [Cores -> Seq(BufText)]
        /\ \A d \in Cores \ {c} : loop'[d] = loop[d]
    BY <1>3, <2>1, EndBlockType DEF SoloInv, Places, Blocks
  <2>3. TypeOK'
    BY <1>1, <1>2, <2>1, <2>2 DEF SoloInv, TypeOK, Places, BufText
  <2>4. \A d \in Cores \ {c} : Same(d)
    BY <1>1, <1>2, <2>1, <2>2 DEF Same
  <2>5. CoreInv(c)'
    BY <1>1, <1>2, <2>2 DEF SoloInv, CoreInv, FreshSocket, Phase, Exchange, Quiet, At, Came
  <2> QED
    BY <2>3, <2>4, <2>5, OneCore
<1>5. CASE ~Readable(c)
  <2>1. Reconnect(c, Taken(c)) /\ late' \in 0..MaxLate
    BY <1>1, <1>5 DEF VerdictComes, SoloInv, TypeOK
  <2> QED
    BY <1>1, <1>2, <1>3, <2>1, ReconnectStep DEF At
<1> QED
  BY <1>4, <1>5

LEMMA VerdictMissedStep ==
  ASSUME SoloInv, NEW c \in Cores, VerdictMissed(c)
  PROVE  SoloInv'
<1>1. /\ At(c, "AwaitVerdict") /\ Reconnect(c, buf[c]) /\ TimesOut(c)
      /\ UNCHANGED <<host, job, num, missed, netVars, losses>>
  BY DEF VerdictMissed
<1>2. buf[c] \in Seq(BufText) /\ late' \in 0..MaxLate
  BY <1>1, TakenType, TimesOutType DEF SoloInv
<1>3. /\ toClient' \in [Cores -> Seq(Answers)]
      /\ toServer' = toServer /\ sock' = sock /\ given' = given /\ toClient' = toClient
  BY <1>1 DEF SoloInv, TypeOK, netVars
<1> QED
  BY <1>1, <1>2, <1>3, ReconnectStep DEF At

\* The server turns the message under way into its answer.
LEMMA ServerAnswersStep ==
  ASSUME SoloInv, NEW c \in Cores, ServerAnswers(c)
  PROVE  SoloInv'
<1> DEFINE text == Head(toServer[c])
<1>1. /\ AnswerDue(c)
      /\ toServer' = [toServer EXCEPT ![c] = Tail(@)]
      /\ toClient' = [toClient EXCEPT ![c] = Append(@, AnswerTo(c, text))]
      /\ given' = IF text = Request THEN [given EXCEPT ![c] = NewJob(c)] ELSE given
      /\ UNCHANGED <<host, coreVars, sock, late, losses>>
  BY DEF ServerAnswers
<1>2. toServer[c] \in Seq(SentText) /\ toServer[c] # <<>>
  BY <1>1 DEF SoloInv, TypeOK, SentText, AnswerDue
<1>3. text \in SentText /\ Tail(toServer[c]) \in Seq(SentText)
  BY <1>2
<1>4. AnswerTo(c, text) \in Answers /\ NewJob(c) \in Job
  BY <1>3, AnswerType DEF SoloInv
<1>5. TypeOK'
  <2>1. toServer' \in [Cores -> Seq(SentText)]
    BY <1>1, <1>3 DEF SoloInv, TypeOK, SentText
  <2>2. toClient' \in [Cores -> Seq(Answers)]
    BY <1>1, <1>4 DEF SoloInv, TypeOK
  <2>3. given' \in [Cores -> Job]
    BY <1>1, <1>4 DEF SoloInv, TypeOK
  <2> QED
    BY <1>1, <2>1, <2>2, <2>3 DEF SoloInv, TypeOK, SentText, coreVars
<1>6. \A d \in Cores \ {c} : Same(d)
  BY <1>1 DEF Same, SoloInv, TypeOK, coreVars
<1>7. CoreInv(c)'
  <2>1. FreshSocket(c)'
    BY <1>1 DEF SoloInv, FreshSocket, AnswerDue, coreVars
  <2>2. SUFFICES ASSUME ~missed[c] PROVE Phase(c)'
    BY <1>1, <2>1 DEF CoreInv, coreVars
  <2>3. ASSUME NEW m, toServer[c] = <<m>>, toClient[c] = <<>>
        PROVE  text = m /\ toServer'[c] = <<>> /\ toClient'[c] = <<AnswerTo(c, m)>>
    <3>1. Head(<<m>>) = m /\ Tail(<<m>>) = <<>>
      OBVIOUS
    <3>2. Append(<<>>, AnswerTo(c, m)) = <<AnswerTo(c, m)>>
      OBVIOUS
    <3> QED
      BY <1>1, <2>3, <3>1, <3>2 DEF SoloInv, TypeOK
  <2>4. given[c] \in Job \cup {Unset}
    BY DEF SoloInv, TypeOK
  <2>5. CASE loop[c] = "AwaitGreeting"
    <3>1. toServer[c] = <<Open>> /\ toClient[c] = <<>>
      BY <1>2, <2>2, <2>5 DEF SoloInv, Phase, Exchange, Quiet
    <3>2. toServer'[c] = <<>> /\ toClient'[c] = <<Greeting>>
      BY <2>3, <3>1, AnswerType DEF SoloInv
    <3> QED
      BY <1>1, <2>5, <3>2 DEF Phase, Exchange, coreVars
  <2>6. CASE loop[c] = "AwaitJob"
    <3>1. toServer[c] = <<Request>> /\ toClient[c] = <<>>
      BY <1>2, <2>2, <2>6 DEF SoloInv, Phase, Exchange, Quiet
    <3>2. toServer'[c] = <<>> /\ toClient'[c] = <<JobLine(NewJob(c))>> /\ text = Request
      BY <2>3, <3>1, AnswerType DEF SoloInv
    <3>3. given'[c] = NewJob(c)
      BY <1>1, <3>2 DEF SoloInv, TypeOK
    <3> QED
      BY <1>1, <2>6, <3>2, <3>3 DEF Phase, Exchange, coreVars
  <2>7. CASE loop[c] \in {"AwaitVerdict", "ConServer", "Halted"}
    <3>1. toServer[c] = <<Result(given[c])>> /\ toClient[c] = <<>>
      BY <1>2, <2>2, <2>7 DEF SoloInv, Phase, Exchange, Quiet
    <3>2. toServer'[c] = <<>> /\ toClient'[c] = <<Verdict>> /\ text = Result(given[c])
      BY <2>3, <2>4, <3>1, AnswerType DEF SoloInv
    <3> QED
      BY <1>1, <2>7, <3>2 DEF Phase, Exchange, coreVars
  <2>8. CASE loop[c] \in {"GetHash", "CalHash", "SendHash"}
    BY <1>2, <2>2, <2>8 DEF SoloInv, Phase, Quiet
  <2> QED
    BY <2>5, <2>6, <2>7, <2>8 DEF SoloInv, TypeOK, Blocks, Waits
<1> QED
  BY <1>5, <1>6, <1>7, OneCore

LEMMA ConnectionLostStep ==
  ASSUME SoloInv, NEW c \in Cores, ConnectionLost(c)
  PROVE  SoloInv'
<1>1. PICK s \in {"closeWait", "closed"} :
        /\ sock[c] = "established" /\ sock' = [sock EXCEPT ![c] = s]
        /\ losses < MaxLosses /\ losses' = losses + 1
        /\ toServer' = [toServer EXCEPT ![c] = <<>>]
        /\ UNCHANGED <<host, coreVars, toClient, given, late>>
  BY DEF ConnectionLost
<1>2. TypeOK'
  <2>1. toServer' \in [Cores -> Seq(Results \cup {Open, Request})]
    BY <1>1 DEF SoloInv, TypeOK
  <2>2. losses' \in 0..MaxLosses
    BY <1>1, SoloAssumption DEF SoloInv, TypeOK
  <2> QED
    BY <1>1, <2>1, <2>2 DEF SoloInv, TypeOK, coreVars
<1>3. \A d \in Cores \ {c} : Same(d)
  BY <1>1 DEF Same, SoloInv, TypeOK, coreVars
<1>4. CoreInv(c)'
  <2>1. toServer'[c] = <<>>
    BY <1>1 DEF SoloInv, TypeOK
  <2> QED
    BY <1>1, <2>1 DEF SoloInv, CoreInv, FreshSocket, Phase, Exchange, Quiet, coreVars
<1> QED
  BY <1>2, <1>3, <1>4, OneCore

-----------------------------------------------------------------------------
(* The theorems *)

\* The invariant is inductive: a core that has not missed a job is in step with
\* the server in every block, and a connection begins with nothing under way.
THEOREM SoloInvariant == Spec => []SoloInv
<1>1. Init => SoloInv
  BY SoloAssumption DEF Init, SoloInv, TypeOK, FreshSocket, Phase, Exchange, Quiet,
     Job, Blocks, Waits
<1>2. SoloInv /\ [Next]_vars => SoloInv'
  <2> SUFFICES ASSUME SoloInv, [Next]_vars PROVE SoloInv'
    OBVIOUS
  <2>1. CASE UpdatePool
    BY <2>1 DEF UpdatePool, SoloInv, TypeOK, FreshSocket, Phase, Exchange, Quiet, coreVars, netVars
  <2>2. ASSUME NEW c \in Cores, CoreStep(c) PROVE SoloInv'
    BY <2>2, ConServerStep, GreetedStep, GetHashStep, JobComesStep, JobMissedStep, CalHashStep,
       SendHashStep, SendLostStep, VerdictComesStep, VerdictMissedStep DEF CoreStep
  <2>3. ASSUME NEW c \in Cores, ServerAnswers(c) PROVE SoloInv'
    BY <2>3, ServerAnswersStep
  <2>4. ASSUME NEW c \in Cores, ConnectionLost(c) PROVE SoloInv'
    BY <2>4, ConnectionLostStep
  <2>5. CASE UNCHANGED vars
    BY <2>5 DEF vars, coreVars, netVars, SoloInv, TypeOK, FreshSocket, Phase, Exchange, Quiet
  <2> QED
    BY <2>1, <2>2, <2>3, <2>4, <2>5 DEF Next
<1> QED
  BY <1>1, <1>2, PTL DEF Spec

\* The invariant implies what results and answers are required to be.
LEMMA SoloInvInStep == SoloInv => ResultIsOfJob /\ InStep
<1> SUFFICES ASSUME SoloInv, NEW c \in Cores, ~missed[c]
             PROVE  /\ \A i \in DOMAIN toServer[c] :
                         toServer[c][i].kind = "result" => toServer[c][i].of = given[c]
                    /\ loop[c] \in Waits => \A i \in DOMAIN toClient[c] :
                         i = 1 /\ toClient[c][i].kind = Awaited[loop[c]]
  BY DEF ResultIsOfJob, InStep
<1>1. Phase(c) /\ loop[c] \in Places
  BY DEF SoloInv, TypeOK, Places
<1>2. toServer[c] \in {<<>>, <<Open>>, <<Request>>, <<Result(given[c])>>}
  BY <1>1 DEF Phase, Exchange, Quiet, Places, Blocks, Waits
<1>3. \A i \in DOMAIN toServer[c] :
        toServer[c][i].kind = "result" => toServer[c][i].of = given[c]
  BY <1>2 DEF Open, Request, Result, Text
<1>4. ASSUME loop[c] \in Waits
      PROVE  \A i \in DOMAIN toClient[c] : i = 1 /\ toClient[c][i].kind = Awaited[loop[c]]
  <2>1. CASE loop[c] = "AwaitGreeting"
    <3>1. toClient[c] \in {<<>>, <<Greeting>>}
      BY <1>1, <2>1 DEF Phase, Exchange, Quiet
    <3> QED
      BY <2>1, <3>1 DEF Awaited, Greeting, Text
  <2>2. CASE loop[c] = "AwaitJob"
    <3>1. toClient[c] \in {<<>>, <<JobLine(given[c])>>}
      BY <1>1, <2>2 DEF Phase, Exchange, Quiet
    <3> QED
      BY <2>2, <3>1 DEF Awaited, JobLine, Text
  <2>3. CASE loop[c] = "AwaitVerdict"
    <3>1. toClient[c] \in {<<>>, <<Verdict>>}
      BY <1>1, <2>3 DEF Phase, Exchange, Quiet
    <3> QED
      BY <2>3, <3>1 DEF Awaited, Verdict, Text
  <2> QED
    BY <1>4, <2>1, <2>2, <2>3 DEF Waits
<1> QED
  BY <1>3, <1>4

\* The result a core sends is that of the job it was given last, until a fetch
\* fails on the connection; a verdict that comes late, a lost connection and DHCP
\* in the buffer do no harm.
THEOREM SoloMinerResult == Spec => []ResultIsOfJob
<1>1. SoloInv => ResultIsOfJob
  BY SoloInvInStep
<1> QED
  BY <1>1, SoloInvariant, PTL

\* Every wait of recv_data_from_server reads the answer it is for, until a fetch
\* fails on the connection.
THEOREM SoloMinerInStep == Spec => []InStep
<1>1. SoloInv => InStep
  BY SoloInvInStep
<1> QED
  BY <1>1, SoloInvariant, PTL

=============================================================================
