-------------------------- MODULE MinerMasterProofs --------------------------
(***************************************************************************)
(* The conversation of the master's clients with the server, for any       *)
(* number of clients, retries and restarts, when no timer but that of      *)
(* CONNECT_WAIT expires while there is a connection (Prompt).              *)
(***************************************************************************)
EXTENDS MinerMaster, TLAPS

\* The server answers a job request and a result in time, or not at all.
Prompt == Timers \subseteq {"CONNECT_WAIT"}

-----------------------------------------------------------------------------
(* Sequences of one message, and the next client *)

\* A queue of one message: what is at its head, and that nothing is behind it.
LEMMA OneMessage ==
  ASSUME NEW x
  PROVE  /\ <<x>> # <<>> /\ Head(<<x>>) = x /\ Tail(<<x>>) = <<>> /\ Append(<<>>, x) = <<x>>
         /\ Len(<<x>>) = 1 /\ Len(<<>>) = 0 /\ DOMAIN <<x>> = {1} /\ <<x>>[1] = x
         /\ \A y : <<x>> = <<y>> => x = y
<1>1. Len(<<x>>) = 1 /\ Len(<<>>) = 0 /\ <<x>>[1] = x
  OBVIOUS
<1>2. <<x>> # <<>>
  BY <1>1
<1>3. Head(<<x>>) = x /\ Tail(<<x>>) = <<>> /\ Append(<<>>, x) = <<x>>
  OBVIOUS
<1>4. DOMAIN <<x>> = {1}
  OBVIOUS
<1>5. \A y : <<x>> = <<y>> => x = y
  OBVIOUS
<1> QED
  BY <1>1, <1>2, <1>3, <1>4, <1>5

\* The loop goes from a client to a client.
LEMMA NextIsClient ==
  /\ 0 \in Client
  /\ \A i \in Client : (i + 1) % NumClients \in Client
<1>1. NumClients \in Nat \ {0}
  BY MasterAssumption
<1>2. ASSUME NEW i \in Client PROVE (i + 1) % NumClients \in Client
  <2>1. (i + 1) % NumClients \in 0..(NumClients - 1)
    BY <1>1 DEF Client
  <2> QED
    BY <2>1 DEF Client
<1> QED
  BY <1>1, <1>2 DEF Client

\* A message joins a queue of messages.
LEMMA AppendType ==
  ASSUME NEW S, NEW q \in Seq(S), NEW x \in S
  PROVE  Append(q, x) \in Seq(S)
OBVIOUS

\* The counters stay within their bounds.
LEMMA Counting ==
  ASSUME NEW n \in Nat
  PROVE  /\ \A t \in -1..n : t > 0 => t - 1 \in -1..n
         /\ \A t \in 0..n : t + 1 <= n => t + 1 \in 0..n
OBVIOUS

\* So does the counter of retries.
LEMMA RetryRange ==
  /\ 0 \in 0..(MaxRetry + 1) /\ 1 \in 0..(MaxRetry + 1)
  /\ \A r \in 0..(MaxRetry + 1) : r < MaxRetry => r + 1 \in 0..(MaxRetry + 1)
BY MasterAssumption

-----------------------------------------------------------------------------
(* What a step of one client leaves of the others *)

Same(d) ==
  /\ state'[d] = state[d] /\ pcb'[d] = pcb[d] /\ buffer'[d] = buffer[d] /\ waits'[d] = waits[d]
  /\ toServer'[d] = toServer[d] /\ toClient'[d] = toClient[d]
  /\ closing'[d] = closing[d] /\ got'[d] = got[d]

ClientInv(d) == ConversationInv(d) /\ BufferInv(d) /\ CallbackInv(d)

\* What the invariant says of a client that a step does not concern stays true.
LEMMA Untouched ==
  ASSUME NEW d \in Client, ClientInv(d), Same(d), Where(d)' = Where(d),
         cb' = cb \/ (~Pending(d) /\ ~Pending(d)'),
         mid = "watchdog" => mid' = "watchdog"
  PROVE  ClientInv(d)'
<1>1. Pending(d)' <=> Pending(d)
  BY DEF Pending
<1>2. Silent(d)' <=> Silent(d)
  BY DEF Same, Silent
<1>3. Opening(d)' <=> Opening(d)
  BY DEF Same, Opening
<1>4. Greeting(d)' <=> Greeting(d)
  BY <1>1, <1>2, <1>3 DEF Same, Greeting
<1>5. Asking(d)' <=> Asking(d)
  BY <1>1, <1>2 DEF Same, Asking
<1>6. Telling(d)' <=> Telling(d)
  BY <1>1, <1>2 DEF Same, Telling
<1>7. Resting(d)' <=> Resting(d)
  BY <1>1, <1>2 DEF Same, Resting
<1>8. Closed(d) => Closed(d)'
  BY <1>1, <1>2 DEF Same, Closed
<1>9. ConversationInv(d)'
  BY <1>1, <1>2, <1>3, <1>4, <1>5, <1>6, <1>7, <1>8 DEF ClientInv, ConversationInv, Same
<1>10. BufferInv(d)'
  BY DEF ClientInv, BufferInv, Same
<1>11. CallbackInv(d)'
  BY DEF ClientInv, CallbackInv, Same, Pending
<1> QED
  BY <1>9, <1>10, <1>11 DEF ClientInv

\* A step of core 0 in the handler of client c leaves the other clients alone.
LEMMA CoreZero ==
  ASSUME IInv, NEW c \in Client, clientNo = c, mid # "watchdog", mid' # "watchdog",
         NextClient \/ clientNo' = clientNo, cb' = cb,
         \A d \in Client : d # c => Same(d),
         ClientInv(c)'
  PROVE  SessionInv'
<1>1. ASSUME NEW d \in Client, d # c PROVE ClientInv(d)'
  <2>1. Where(d)' = Where(d)
    BY <1>1 DEF Where, NextClient
  <2>2. ClientInv(d)
    BY DEF IInv, SessionInv, ClientInv
  <2> QED
    BY <1>1, <2>1, <2>2, Untouched
<1> QED
  BY <1>1 DEF SessionInv, ClientInv

\* A step elsewhere for client c leaves the other clients alone.
LEMMA Elsewhere ==
  ASSUME IInv, NEW c \in Client, UNCHANGED <<clientNo, mid>>,
         \A d \in Client : d # c => Same(d) /\ (cb' = cb \/ (~Pending(d) /\ ~Pending(d)')),
         pcb[c] = "NULL" => pcb'[c] = "NULL",
         ClientInv(c)'
  PROVE  SessionInv'
<1>1. ASSUME NEW d \in Client, d # c PROVE ClientInv(d)'
  <2>1. Where(d)' = Where(d)
    BY DEF Where
  <2>2. ClientInv(d)
    BY DEF IInv, SessionInv, ClientInv
  <2> QED
    BY <1>1, <2>1, <2>2, Untouched
<1>2. mid' = "watchdog" => \A d \in Client : pcb'[d] = "NULL"
  BY DEF IInv, SessionInv, Same
<1> QED
  BY <1>1, <1>2 DEF SessionInv, ClientInv

-----------------------------------------------------------------------------
(* Core 0 *)

\* A turn of client c is at c, and changes nothing of another client or of the
\* callbacks, unless it gives up.
LEMMA TurnFrame ==
  ASSUME TypeOK, NEW c \in Client, Turn(c), ~GiveUp(c)
  PROVE  /\ clientNo = c /\ mid # "watchdog" /\ mid' # "watchdog" /\ cb' = cb
         /\ NextClient \/ clientNo' = clientNo
         /\ \A d \in Client : d # c => Same(d)
<1> USE DEF TypeOK, Same, At, Within, Inside, NextClient, Become, netVars
<1>1. CASE Pass(c)
  BY <1>1 DEF Pass
<1>2. CASE Connect(c)
  BY <1>2 DEF Connect, Abandon
<1>3. CASE ConnectWait(c)
  BY <1>3 DEF ConnectWait
<1>4. CASE ConnectFails(c)
  BY <1>4 DEF ConnectFails, Close, Abandon, OpenLater
<1>5. CASE Expire(c)
  BY <1>5 DEF Expire
<1>6. CASE Expired(c)
  <2>1. NextClient /\ UNCHANGED cb /\ UNCHANGED buffer
    BY <1>6 DEF Expired
  <2>2. clientNo = c /\ mid # "watchdog"
    BY <1>6 DEF Expired
  <2>3. CASE Within(c, "connect expired") /\ Close(c) /\ OpenLater(c) /\ Become(c, "CONNECT")
    <3>1. \A d \in Client : d # c => Same(d)
      BY <2>1, <2>3 DEF Close, Abandon, OpenLater
    <3> QED
      BY <2>1, <2>2, <3>1
  <2>4. CASE Within(c, "request expired") /\ Become(c, "JOB_REQUEST") /\ UNCHANGED <<pcb, netVars, waits>>
    <3>1. \A d \in Client : d # c => Same(d)
      BY <2>1, <2>4
    <3> QED
      BY <2>1, <2>2, <3>1
  <2>5. CASE Within(c, "result expired") /\ OpenLater(c) /\ Become(c, "CONNECT") /\ UNCHANGED <<pcb, netVars>>
    <3>1. \A d \in Client : d # c => Same(d)
      BY <2>1, <2>5 DEF OpenLater
    <3> QED
      BY <2>1, <2>2, <3>1
  <2> QED
    BY <1>6, <2>3, <2>4, <2>5 DEF Expired
<1>7. CASE JobRequest(c)
  BY <1>7 DEF JobRequest, Write, WriteFails, Close, Abandon, OpenLater
<1>8. CASE RequestWait(c)
  BY <1>8 DEF RequestWait
<1>9. CASE HashCalculation(c)
  BY <1>9 DEF HashCalculation
<1>10. CASE WriteJob(c)
  BY <1>10 DEF WriteJob
<1>11. CASE CalculationWait(c)
  BY <1>11 DEF CalculationWait
<1>12. CASE ReadResult(c) \/ ReadZero(c)
  BY <1>12 DEF ReadResult, ReadZero
<1>13. CASE SendResult(c)
  BY <1>13 DEF SendResult, Write, WriteFails, Close, Abandon, OpenLater
<1>14. CASE ResultWait(c)
  BY <1>14 DEF ResultWait
<1>15. CASE ResultUpdate(c)
  BY <1>15 DEF ResultUpdate
<1> QED
  BY <1>1, <1>2, <1>3, <1>4, <1>5, <1>6, <1>7, <1>8, <1>9, <1>10, <1>11, <1>12, <1>13,
     <1>14, <1>15 DEF Turn

\* Where core 0 is with client c, before and after a step of its turn.
LEMMA WhereIs ==
  ASSUME NEW c \in Client, clientNo = c
  PROVE  /\ Where(c) = mid
         /\ NextClient => Where(c)' = "start"
         /\ \A m : Inside(m) => Where(c)' = m
BY DEF Where, NextClient, Inside

\* What a client that core 0 is at says of its conversation.
LEMMA Stands ==
  ASSUME IInv, NEW c \in Client, clientNo = c
  PROVE  /\ ClientInv(c) /\ Where(c) = mid
         /\ mid = "start" /\ state[c] = "CONNECT" => pcb[c] = "NULL"
         /\ mid = "start" /\ state[c] \in {"JOB_REQUEST", "HASH_CALCULATION", "CALCULATION_WAIT",
                                         "SEND_RESULT", "RESULT_UPDATE", "SLAVE_FAULT"} =>
              Silent(c) /\ ~Pending(c)
         /\ mid \in {"connecting", "connect expired", "parsed", "printed"} /\ pcb[c] = "open" =>
              toServer[c] = <<>>
         /\ closing[c] => mid = "watchdog"
<1>1. ClientInv(c) /\ Where(c) = mid
  BY WhereIs DEF IInv, SessionInv, ClientInv
<1>2. closing[c] => mid = "watchdog"
  BY <1>1 DEF ClientInv, BufferInv
<1>3. mid = "start" /\ state[c] = "CONNECT" => pcb[c] = "NULL"
  BY <1>1 DEF ClientInv, ConversationInv, Opening, Greeting, Asking, Telling, Resting, IInv, TypeOK
<1>4. mid = "start" /\ state[c] \in {"JOB_REQUEST", "HASH_CALCULATION", "CALCULATION_WAIT",
                                   "SEND_RESULT", "RESULT_UPDATE", "SLAVE_FAULT"} =>
        Silent(c) /\ ~Pending(c)
  BY <1>1 DEF ClientInv, ConversationInv, Opening, Greeting, Asking, Telling, Resting, Closed
<1>5. mid \in {"connecting", "connect expired", "parsed", "printed"} /\ pcb[c] = "open" =>
        toServer[c] = <<>>
  BY <1>1 DEF ClientInv, ConversationInv, Opening, Greeting, Asking, Telling, Resting, Silent
<1> QED
  BY <1>1, <1>2, <1>3, <1>4, <1>5

\* A client whose connection is closed, or that has none, when its core 0 is done
\* with it.
LEMMA WithoutConnection ==
  ASSUME IInv, NEW c \in Client, clientNo = c, mid # "watchdog", NextClient, cb' = cb,
         buffer'[c] = buffer[c], got'[c] = got[c], ~closing'[c],
         pcb'[c] = "NULL", toServer'[c] = <<>>, toClient'[c] = <<>>,
         state'[c] = "CONNECT", waits'[c] \/ ~Pending(c),
         mid = "start" => state[c] \notin {"REQUEST_WAIT", "RESULT_WAIT"}
  PROVE  ClientInv(c)'
<1>1. Where(c)' = "start" /\ Where(c) = mid /\ ClientInv(c)
  BY WhereIs, Stands
<1>2. ConversationInv(c)'
  BY <1>1 DEF ConversationInv, Closed, Silent, Pending
<1>3. BufferInv(c)'
  BY <1>1 DEF ClientInv, BufferInv
<1>4. CallbackInv(c)'
  <2>1. ASSUME cb.client = c, cb.seen \in {"REQUEST_WAIT", "RESULT_WAIT"} PROVE FALSE
    <3>1. state[c] = cb.seen /\ Pending(c)
      BY <1>1, <2>1 DEF ClientInv, CallbackInv, Pending
    <3>2. mid = "start"
      BY <1>1, <2>1, <3>1 DEF ClientInv, ConversationInv, Closed, Opening, Greeting, Asking, Telling, Resting
    <3> QED
      BY <1>1, <2>1, <3>1, <3>2
  <2> QED
    BY <1>1, <2>1 DEF CallbackInv
<1> QED
  BY <1>2, <1>3, <1>4 DEF ClientInv

\* CONNECT keeps the invariant: there is no connection, and no callback.
LEMMA ConnectStep ==
  ASSUME IInv, NEW c \in Client, Connect(c) \/ ConnectWait(c) \/ ConnectFails(c)
  PROVE  ClientInv(c)'
<1> USE DEF IInv, TypeOK
<1>1. CASE Connect(c)
  <2>1. /\ clientNo = c /\ mid = "start" /\ state[c] = "CONNECT" /\ ~waits[c]
        /\ Where(c)' = "connecting"
    BY <1>1, WhereIs DEF Connect, At
  <2>2. /\ ClientInv(c) /\ pcb[c] = "NULL" /\ ~closing[c] /\ ~Queued(c)
    BY <2>1, Stands DEF ClientInv, ConversationInv, Closed, Silent, Queued
  <2>3. ~Pending(c)
    BY <2>1, <2>2 DEF ClientInv, ConversationInv, Closed
  <2>4. /\ pcb'[c] = "connecting" /\ toServer'[c] = <<>> /\ toClient'[c] = <<>> /\ ~closing'[c]
        /\ state'[c] = "CONNECT" /\ buffer' = buffer /\ got' = got /\ cb' = cb
    BY <1>1, <2>1, <2>2 DEF Connect, Abandon
  <2>5. ConversationInv(c)'
    BY <2>1, <2>3, <2>4 DEF ConversationInv, Opening, Silent, Pending
  <2>6. BufferInv(c)'
    BY <2>1, <2>2, <2>4 DEF ClientInv, BufferInv
  <2>7. CallbackInv(c)'
    BY <2>3, <2>4 DEF CallbackInv, Pending
  <2> QED
    BY <2>5, <2>6, <2>7 DEF ClientInv
<1>2. CASE ConnectWait(c)
  <2>1. /\ clientNo = c /\ mid = "connecting" /\ Where(c)' = "start"
        /\ state'[c] = "CONNECT_WAIT" /\ ~waits'[c]
        /\ UNCHANGED <<pcb, buffer, toServer, toClient, closing, got, cb>>
    BY <1>2, WhereIs DEF ConnectWait, Within, Become, netVars
  <2>2. ClientInv(c) /\ Where(c) = "connecting" /\ ~closing[c]
    BY <2>1, Stands
  <2>3. pcb[c] = "open" => Greeting(c)
    BY <2>2 DEF ClientInv, ConversationInv, Asking, Telling, Resting
  <2>4. pcb[c] = "NULL" => Silent(c) /\ ~Pending(c)
    BY <2>1, <2>2 DEF ClientInv, ConversationInv, Closed
  <2>5. pcb[c] = "connecting" => Silent(c) /\ ~Pending(c)
    BY <2>2 DEF ClientInv, ConversationInv
  <2>6. ConversationInv(c)'
    BY <2>1, <2>3, <2>4, <2>5 DEF ConversationInv, Closed, Opening, Greeting, Silent, Pending
  <2>7. BufferInv(c)'
    BY <2>1, <2>2 DEF ClientInv, BufferInv
  <2>8. CallbackInv(c)'
    <3>1. cb.client = c => cb.seen \notin {"REQUEST_WAIT", "RESULT_WAIT"}
      BY <2>2, <2>3, <2>4, <2>5
         DEF ClientInv, ConversationInv, CallbackInv, Greeting, Opening, Pending
    <3> QED
      BY <2>1, <3>1 DEF CallbackInv
  <2> QED
    BY <2>6, <2>7, <2>8 DEF ClientInv
<1>3. CASE ConnectFails(c)
  <2>1. /\ clientNo = c /\ mid = "start" /\ state[c] = "CONNECT" /\ ~waits[c] /\ NextClient
    BY <1>3 DEF ConnectFails, At
  <2>2. /\ ClientInv(c) /\ pcb[c] = "NULL" /\ ~closing[c] /\ ~Queued(c) /\ Where(c) = "start"
    BY <2>1, Stands DEF ClientInv, ConversationInv, Closed, Silent, Queued
  <2>3. ~Pending(c)
    BY <2>1, <2>2 DEF ClientInv, ConversationInv, Closed
  <2>4. /\ pcb'[c] = "NULL" /\ toServer'[c] = <<>> /\ toClient'[c] = <<>> /\ ~closing'[c]
        /\ state'[c] = "CONNECT" /\ buffer' = buffer /\ got' = got /\ cb' = cb
    BY <1>3, <2>1, <2>2 DEF ConnectFails, Close, Abandon
  <2> QED
    BY <2>1, <2>3, <2>4, WithoutConnection
<1> QED
  BY <1>1, <1>2, <1>3

\* The expiry of a timer keeps the invariant: the client that connects anew has
\* closed its connection, the others have lost theirs.
LEMMA ExpireStep ==
  ASSUME Prompt, IInv, NEW c \in Client, Expire(c) \/ Expired(c)
  PROVE  ClientInv(c)'
<1> USE DEF IInv, TypeOK
<1>1. CASE Expire(c)
  <2>1. /\ clientNo = c /\ mid = "start"
        /\ \/ state[c] = "CONNECT_WAIT" /\ Where(c)' = "connect expired"
           \/ state[c] = "REQUEST_WAIT" /\ Where(c)' = "request expired" /\ pcb[c] = "NULL"
           \/ state[c] = "RESULT_WAIT" /\ Where(c)' = "result expired" /\ pcb[c] = "NULL"
        /\ UNCHANGED <<state, pcb, buffer, waits, toServer, toClient, closing, got, cb>>
    BY <1>1, WhereIs DEF Expire, At, Prompt, netVars
  <2>2. ClientInv(c) /\ Where(c) = "start" /\ ~closing[c]
    BY <2>1, Stands
  <2>3. CASE state[c] = "CONNECT_WAIT"
    <3>1. Where(c)' = "connect expired"
      BY <2>1, <2>3
    <3>2. pcb[c] = "NULL" => Silent(c) /\ ~Pending(c)
      BY <2>1, <2>2, <2>3 DEF ClientInv, ConversationInv, Closed
    <3>3. pcb[c] = "open" => Greeting(c)
      BY <2>2, <2>3 DEF ClientInv, ConversationInv, Asking, Telling, Resting
    <3>4. pcb[c] = "connecting" => Silent(c) /\ ~Pending(c)
      BY <2>2 DEF ClientInv, ConversationInv
    <3>5. ConversationInv(c)'
      BY <2>1, <2>3, <3>1, <3>2, <3>3, <3>4
         DEF ConversationInv, Closed, Opening, Greeting, Silent, Pending
    <3>6. BufferInv(c)' /\ CallbackInv(c)'
      BY <2>1, <2>2, <2>3, <3>1 DEF ClientInv, BufferInv, CallbackInv
    <3> QED
      BY <3>5, <3>6 DEF ClientInv
  <2>4. CASE pcb[c] = "NULL" /\ state[c] # "CONNECT_WAIT"
    <3>1. /\ Where(c)' \in {"request expired", "result expired"}
          /\ state[c] \in {"REQUEST_WAIT", "RESULT_WAIT"}
      BY <2>1, <2>4
    <3>2. Silent(c) /\ ~Pending(c)
      BY <2>1, <2>2, <2>4, <3>1 DEF ClientInv, ConversationInv, Closed
    <3>3. ConversationInv(c)'
      BY <2>1, <2>4, <3>2 DEF ConversationInv, Closed, Silent, Pending
    <3>4. BufferInv(c)' /\ CallbackInv(c)'
      BY <2>1, <2>2, <3>1, <3>2 DEF ClientInv, BufferInv, CallbackInv, Pending
    <3> QED
      BY <3>3, <3>4 DEF ClientInv
  <2> QED
    BY <2>1, <2>3, <2>4
<1>2. CASE Expired(c)
  <2>1. /\ clientNo = c /\ NextClient /\ buffer' = buffer /\ cb' = cb /\ Where(c)' = "start"
        /\ mid \in {"connect expired", "request expired", "result expired"}
    BY <1>2, WhereIs DEF Expired, Within
  <2>2. ClientInv(c) /\ Where(c) = mid /\ ~closing[c]
    BY <2>1, Stands
  <2>3. CASE mid = "connect expired"
    <3>1. ~Queued(c)
      <4>1. pcb[c] # "open" => toServer[c] = <<>>
        BY <2>2 DEF ClientInv, ConversationInv, Closed, Silent
      <4>2. toServer[c] = <<>>
        BY <2>1, <2>3, <4>1, Stands
      <4> QED
        BY <4>2 DEF Queued
    <3>2. /\ pcb'[c] = "NULL" /\ toServer'[c] = <<>> /\ toClient'[c] = <<>> /\ ~closing'[c]
          /\ state'[c] = "CONNECT" /\ got' = got /\ waits'[c]
      BY ZenonT(60), <1>2, <2>1, <2>2, <2>3, <3>1 DEF Expired, Within, Close, Abandon, OpenLater, Become
    <3> QED
      BY <2>1, <2>3, <3>2, WithoutConnection
  <2>4. CASE mid # "connect expired"
    <3>1. pcb[c] = "NULL" /\ Silent(c) /\ ~Pending(c)
      BY <2>1, <2>2, <2>4
         DEF ClientInv, ConversationInv, Closed, Opening, Greeting, Asking, Telling, Resting
    <3>2. /\ state'[c] \in {"JOB_REQUEST", "CONNECT"}
          /\ UNCHANGED <<pcb, toServer, toClient, closing, got>>
      BY <1>2, <2>4 DEF Expired, Within, Become, netVars
    <3>3. ConversationInv(c)'
      BY <2>1, <3>1, <3>2 DEF ConversationInv, Closed, Silent, Pending
    <3>4. BufferInv(c)' /\ CallbackInv(c)'
      BY <2>1, <2>2, <3>1, <3>2 DEF ClientInv, BufferInv, CallbackInv, Pending
    <3> QED
      BY <3>3, <3>4 DEF ClientInv
  <2> QED
    BY <2>3, <2>4
<1> QED
  BY <1>1, <1>2

\* JOB_REQUEST and REQUEST_WAIT keep the invariant: a request is written when
\* nothing is on its way.
LEMMA RequestStep ==
  ASSUME IInv, NEW c \in Client, JobRequest(c) \/ RequestWait(c)
  PROVE  ClientInv(c)'
<1> USE DEF IInv, TypeOK
<1>1. CASE JobRequest(c)
  <2>1. clientNo = c /\ mid = "start" /\ state[c] = "JOB_REQUEST" /\ buffer' = buffer /\ cb' = cb
    BY <1>1 DEF JobRequest, At
  <2>2. /\ ClientInv(c) /\ Where(c) = "start" /\ ~closing[c] /\ Silent(c) /\ ~Pending(c) /\ ~Queued(c)
    BY <2>1, Stands DEF Silent, Queued
  <2>3. CASE Write(c, "request") /\ Inside("requested") /\ UNCHANGED <<state, waits>>
    <3>1. /\ Where(c)' = "requested" /\ toServer'[c] = <<"request">> /\ pcb[c] = "open"
          /\ UNCHANGED <<state, pcb, toClient, closing, got>>
      BY <2>1, <2>2, <2>3, WhereIs, OneMessage DEF Write, Silent
    <3>2. ConversationInv(c)'
      BY <2>1, <2>2, <3>1 DEF ConversationInv, Asking, Silent, Pending
    <3>3. BufferInv(c)' /\ CallbackInv(c)'
      BY <2>1, <2>2, <3>1 DEF ClientInv, BufferInv, CallbackInv, Pending
    <3> QED
      BY <3>2, <3>3 DEF ClientInv
  <2>4. CASE WriteFails(c)
    <3>1. /\ pcb'[c] = "NULL" /\ toServer'[c] = <<>> /\ toClient'[c] = <<>> /\ ~closing'[c]
          /\ state'[c] = "CONNECT" /\ got' = got /\ NextClient
      BY <2>1, <2>2, <2>4 DEF WriteFails, Close, Abandon, OpenLater, Become
    <3> QED
      BY <2>1, <2>2, <3>1, WithoutConnection
  <2>5. CASE Become(c, "SEND_RESULT") /\ NextClient /\ UNCHANGED <<pcb, netVars, waits>>
    <3>1. /\ Where(c)' = "start" /\ state'[c] = "SEND_RESULT"
          /\ UNCHANGED <<pcb, toServer, toClient, closing, got>>
      BY <2>1, <2>5, WhereIs DEF Become, netVars
    <3>2. ConversationInv(c)'
      BY <2>1, <2>2, <3>1
         DEF ClientInv, ConversationInv, Opening, Closed, Resting, Silent, Pending
    <3>3. BufferInv(c)' /\ CallbackInv(c)'
      BY <2>1, <2>2, <3>1 DEF ClientInv, BufferInv, CallbackInv, Pending
    <3> QED
      BY <3>2, <3>3 DEF ClientInv
  <2>6. CASE NextClient /\ UNCHANGED <<state, pcb, netVars, waits>>
    <3>1. Same(c) /\ Where(c)' = Where(c)
      BY <2>1, <2>2, <2>6, WhereIs DEF Same, netVars
    <3> QED
      BY <2>1, <2>2, <2>6, <3>1, Untouched
  <2>7. CASE Become(c, "SLAVE_FAULT") /\ NextClient /\ UNCHANGED <<pcb, netVars, waits>>
    <3>1. /\ Where(c)' = "start" /\ state'[c] = "SLAVE_FAULT"
          /\ UNCHANGED <<pcb, toServer, toClient, closing, got>>
      BY <2>1, <2>7, WhereIs DEF Become, netVars
    <3>2. ConversationInv(c)'
      BY <2>1, <2>2, <3>1
         DEF ClientInv, ConversationInv, Opening, Closed, Resting, Silent, Pending
    <3>3. BufferInv(c)' /\ CallbackInv(c)'
      BY <2>1, <2>2, <3>1 DEF ClientInv, BufferInv, CallbackInv, Pending
    <3> QED
      BY <3>2, <3>3 DEF ClientInv
  <2> QED
    BY <1>1, <2>3, <2>4, <2>5, <2>6, <2>7 DEF JobRequest
<1>2. CASE RequestWait(c)
  <2>1. /\ clientNo = c /\ mid = "requested" /\ Where(c)' = "start" /\ state'[c] = "REQUEST_WAIT"
        /\ UNCHANGED <<pcb, buffer, waits, toServer, toClient, closing, got, cb>>
    BY <1>2, WhereIs DEF RequestWait, Within, Become, netVars
  <2>2. ClientInv(c) /\ Where(c) = "requested" /\ ~closing[c]
    BY <2>1, Stands
  <2>3. pcb[c] = "NULL" => Silent(c) /\ ~Pending(c)
    BY <2>1, <2>2 DEF ClientInv, ConversationInv, Closed
  <2>4. pcb[c] # "NULL" => pcb[c] = "open" /\ Asking(c)
    BY <2>2 DEF ClientInv, ConversationInv, Opening, Greeting, Telling, Resting
  <2>5. ConversationInv(c)'
    BY <2>1, <2>3, <2>4 DEF ConversationInv, Closed, Asking, Silent, Pending
  <2>6. Pending(c) => buffer[c] \in Answer /\ state[c] = "JOB_REQUEST"
    BY <2>2, <2>3, <2>4, OneMessage DEF Asking
  <2>7. BufferInv(c)' /\ CallbackInv(c)'
    BY <2>1, <2>2, <2>6 DEF ClientInv, BufferInv, CallbackInv, Pending
  <2> QED
    BY <2>5, <2>7 DEF ClientInv
<1> QED
  BY <1>1, <1>2

\* The states of the job keep the invariant: nothing is on its way meanwhile, and
\* socketBuffer is not written.
LEMMA JobStep ==
  ASSUME IInv, NEW c \in Client,
         \/ Pass(c) \/ HashCalculation(c) \/ WriteJob(c) \/ CalculationWait(c)
         \/ ReadResult(c) \/ ReadZero(c) \/ ResultUpdate(c)
  PROVE  ClientInv(c)'
<1> USE DEF IInv, TypeOK
<1>1. clientNo = c /\ ClientInv(c) /\ Where(c) = mid /\ (mid # "watchdog" => ~closing[c])
  BY Stands DEF Pass, HashCalculation, WriteJob, CalculationWait, ReadResult, ReadZero, ResultUpdate, At, Within
<1>2. CASE Pass(c) \/ ReadZero(c)
  <2>1. mid = "start" /\ NextClient /\ Same(c) /\ cb' = cb
    BY <1>2 DEF Pass, ReadZero, At, Same, netVars
  <2>2. Where(c)' = Where(c)
    BY <1>1, <2>1, WhereIs
  <2> QED
    BY <1>1, <2>1, <2>2, Untouched
<1>3. CASE HashCalculation(c) \/ CalculationWait(c) \/ ResultUpdate(c)
  <2>1. /\ mid = "start" /\ state[c] \in {"HASH_CALCULATION", "CALCULATION_WAIT", "RESULT_UPDATE"}
        /\ UNCHANGED <<pcb, buffer, waits, toServer, toClient, closing, got, cb>>
        /\ \/ Where(c)' = "start" /\ state'[c] \in {"JOB_REQUEST", "SEND_RESULT"}
           \/ /\ Where(c)' = "parsed" /\ state' = state /\ state[c] = "HASH_CALCULATION"
              /\ buffer[c] # "bad"
    BY <1>1, <1>3, WhereIs DEF HashCalculation, CalculationWait, ResultUpdate, At, Become, netVars
  <2>2. Silent(c) /\ ~Pending(c)
    BY <1>1, <2>1, Stands
  <2>3. ConversationInv(c)'
    BY <1>1, <2>1, <2>2 DEF ClientInv, ConversationInv, Opening, Closed, Resting, Silent, Pending
  <2>4. BufferInv(c)' /\ CallbackInv(c)'
    BY <1>1, <2>1, <2>2 DEF ClientInv, BufferInv, CallbackInv, Pending, Answer
  <2> QED
    BY <2>3, <2>4 DEF ClientInv
<1>4. CASE WriteJob(c)
  <2>1. /\ mid = "parsed" /\ Where(c)' = "start" /\ state'[c] = "CALCULATION_WAIT"
        /\ UNCHANGED <<pcb, buffer, waits, toServer, toClient, closing, got, cb>>
    BY <1>1, <1>4, WhereIs DEF WriteJob, Within, Become, netVars
  <2>2. pcb[c] \in {"NULL", "open"} /\ Silent(c) /\ ~Pending(c)
    BY <1>1, <2>1 DEF ClientInv, ConversationInv, Closed, Opening, Greeting, Asking, Telling, Resting
  <2>3. ConversationInv(c)'
    BY <2>1, <2>2 DEF ConversationInv, Closed, Resting, Silent, Pending
  <2>4. BufferInv(c)' /\ CallbackInv(c)'
    BY <1>1, <2>1, <2>2 DEF ClientInv, BufferInv, CallbackInv, Pending
  <2> QED
    BY <2>3, <2>4 DEF ClientInv
<1>5. CASE ReadResult(c)
  <2>1. /\ mid = "start" /\ Where(c)' = "printed" /\ state[c] = "SEND_RESULT" /\ buffer'[c] = "result"
        /\ UNCHANGED <<state, pcb, waits, toServer, toClient, closing, got, cb>>
    BY <1>1, <1>5, WhereIs DEF ReadResult, At, netVars
  <2>2. pcb[c] \in {"NULL", "open"} /\ Silent(c) /\ ~Pending(c)
    BY <1>1, <2>1, Stands DEF ClientInv, ConversationInv, Opening
  <2>3. ConversationInv(c)'
    BY <2>1, <2>2 DEF ConversationInv, Closed, Resting, Silent, Pending
  <2>4. BufferInv(c)' /\ CallbackInv(c)'
    BY <1>1, <2>1, <2>2 DEF ClientInv, BufferInv, CallbackInv, Pending
  <2> QED
    BY <2>3, <2>4 DEF ClientInv
<1> QED
  BY <1>2, <1>3, <1>4, <1>5

\* SEND_RESULT and RESULT_WAIT keep the invariant: the result is in socketBuffer
\* when a pointer to it is queued, and no message can come to overwrite it.
LEMMA ResultStep ==
  ASSUME IInv, NEW c \in Client, SendResult(c) \/ ResultWait(c)
  PROVE  ClientInv(c)'
<1> USE DEF IInv, TypeOK
<1>1. CASE SendResult(c)
  <2>1. clientNo = c /\ mid = "printed" /\ buffer' = buffer /\ cb' = cb
    BY <1>1 DEF SendResult, Within
  <2>2. ClientInv(c) /\ Where(c) = "printed" /\ ~closing[c] /\ buffer[c] = "result"
    BY <2>1, Stands DEF ClientInv, BufferInv
  <2>3. /\ pcb[c] \in {"NULL", "open"} /\ Silent(c) /\ ~Pending(c) /\ ~Queued(c)
        /\ pcb[c] = "open" => state[c] = "SEND_RESULT"
    <3>1. /\ pcb[c] \in {"NULL", "open"} /\ Silent(c) /\ ~Pending(c)
          /\ pcb[c] = "open" => state[c] = "SEND_RESULT"
      BY <2>1, <2>2
         DEF ClientInv, ConversationInv, Closed, Opening, Greeting, Asking, Telling, Resting
    <3> QED
      BY <3>1 DEF Silent, Queued
  <2>4. CASE Write(c, "result") /\ Inside("sent") /\ UNCHANGED <<state, waits>>
    <3>1. /\ Where(c)' = "sent" /\ toServer'[c] = <<"result">> /\ pcb[c] = "open"
          /\ UNCHANGED <<state, pcb, toClient, closing, got>>
      BY <2>1, <2>3, <2>4, WhereIs, OneMessage DEF Write, Silent
    <3>2. ConversationInv(c)'
      BY <2>1, <2>2, <2>3, <3>1 DEF ConversationInv, Telling, Silent, Pending
    <3>3. BufferInv(c)' /\ CallbackInv(c)'
      BY <2>1, <2>2, <2>3, <3>1 DEF ClientInv, BufferInv, CallbackInv, Pending
    <3> QED
      BY <3>2, <3>3 DEF ClientInv
  <2>5. CASE WriteFails(c)
    <3>1. /\ pcb'[c] = "NULL" /\ toServer'[c] = <<>> /\ toClient'[c] = <<>> /\ ~closing'[c]
          /\ state'[c] = "CONNECT" /\ got' = got /\ NextClient
      BY <2>1, <2>2, <2>3, <2>5 DEF WriteFails, Close, Abandon, OpenLater, Become
    <3> QED
      BY <2>1, <2>3, <3>1, WithoutConnection
  <2>6. CASE pcb[c] # "open" /\ Become(c, "CONNECT") /\ NextClient /\ UNCHANGED <<pcb, netVars, waits>>
    <3>1. /\ pcb'[c] = "NULL" /\ toServer'[c] = <<>> /\ toClient'[c] = <<>> /\ ~closing'[c]
          /\ state'[c] = "CONNECT" /\ got' = got /\ NextClient
      BY <2>2, <2>3, <2>6 DEF Become, netVars, Silent
    <3> QED
      BY <2>1, <2>3, <3>1, WithoutConnection
  <2> QED
    BY <1>1, <2>4, <2>5, <2>6 DEF SendResult
<1>2. CASE ResultWait(c)
  <2>1. /\ clientNo = c /\ mid = "sent" /\ Where(c)' = "start" /\ state'[c] = "RESULT_WAIT"
        /\ UNCHANGED <<pcb, buffer, waits, toServer, toClient, closing, got, cb>>
    BY <1>2, WhereIs DEF ResultWait, Within, Become, netVars
  <2>2. ClientInv(c) /\ Where(c) = "sent" /\ ~closing[c]
    BY <2>1, Stands
  <2>3. pcb[c] = "NULL" => Silent(c) /\ ~Pending(c)
    BY <2>1, <2>2 DEF ClientInv, ConversationInv, Closed
  <2>4. pcb[c] # "NULL" => pcb[c] = "open" /\ Telling(c)
    BY <2>2 DEF ClientInv, ConversationInv, Opening, Greeting, Asking, Resting
  <2>5. ConversationInv(c)'
    BY <2>1, <2>3, <2>4 DEF ConversationInv, Closed, Telling, Silent, Pending
  <2>6. Pending(c) => state[c] = "SEND_RESULT"
    BY <2>2, <2>3, <2>4 DEF Telling
  <2>7. BufferInv(c)' /\ CallbackInv(c)'
    BY <2>1, <2>2, <2>6 DEF ClientInv, BufferInv, CallbackInv, Pending
  <2> QED
    BY <2>5, <2>7 DEF ClientInv
<1> QED
  BY <1>1, <1>2

\* A client that gives up closes every connection; a result that is still queued
\* is in its socketBuffer.
LEMMA GiveUpStep ==
  ASSUME IInv, NEW c \in Client, GiveUp(c)
  PROVE  SessionInv'
<1> USE DEF IInv, TypeOK
<1>1. /\ clientNo = c /\ mid = "start" /\ mid' = "watchdog" /\ clientNo' = c
      /\ state[c] = "CONNECT" /\ ~waits[c]
      /\ UNCHANGED <<state, buffer, waits, got, cb>>
      /\ pcb' = [i \in Client |-> "NULL"]
      /\ closing' = [i \in Client |-> closing[i] \/ Queued(i)]
      /\ toServer' = [i \in Client |-> <<>>] /\ toClient' = [i \in Client |-> <<>>]
  BY DEF GiveUp, At, Inside
<1>2. ASSUME NEW d \in Client PROVE ClientInv(d)'
  <2>1. ClientInv(d)
    BY DEF SessionInv, ClientInv
  <2>2. ConversationInv(d)'
    BY <1>1 DEF ConversationInv, Closed, Silent
  <2>3. Queued(d) => buffer[d] = "result"
    <3>1. CASE toServer[d] = <<>>
      BY <3>1 DEF Queued
    <3>2. CASE toServer[d] = <<"request">>
      BY <3>2, OneMessage DEF Queued
    <3>3. CASE toServer[d] = <<"result">> /\ buffer[d] = "result"
      BY <3>3
    <3> QED
      BY <2>1, <3>1, <3>2, <3>3
         DEF ClientInv, ConversationInv, Closed, Greeting, Asking, Telling, Resting, Silent
  <2>4. closing'[d] => buffer'[d] = "result"
    BY <1>1, <2>1, <2>3 DEF ClientInv, BufferInv
  <2>5. Where(d)' = "watchdog" \/ (Where(d)' = "start" /\ Where(d) = "start" /\ d # c)
    BY <1>1 DEF Where
  <2>6. BufferInv(d)'
    BY <1>1, <2>1, <2>4, <2>5 DEF ClientInv, BufferInv
  <2>7. CallbackInv(d)'
    <3>1. d = c => ~Pending(d)
      BY <1>1, Stands DEF ClientInv, ConversationInv, Closed
    <3>2. UNCHANGED <<state, buffer, cb>> /\ pcb'[d] = "NULL" /\ CallbackInv(d)
      BY <1>1, <2>1 DEF ClientInv
    <3>3. CASE d = c
      BY <3>1, <3>2, <3>3 DEF CallbackInv, Pending
    <3>4. CASE d # c
      BY <1>1, <2>5, <3>2, <3>4 DEF CallbackInv, Where
    <3> QED
      BY <3>3, <3>4
  <2> QED
    BY <2>2, <2>6, <2>7 DEF ClientInv
<1> QED
  BY <1>1, <1>2 DEF SessionInv, ClientInv

\* A turn of core 0 keeps the invariant.
LEMMA TurnStep ==
  ASSUME Prompt, IInv, NEW c \in Client, Turn(c)
  PROVE  SessionInv'
<1>1. CASE GiveUp(c)
  BY <1>1, GiveUpStep
<1>2. CASE ~GiveUp(c)
  <2>1. ClientInv(c)'
    BY <1>2, ConnectStep, ExpireStep, RequestStep, JobStep, ResultStep DEF Turn
  <2> QED
    BY <1>2, <2>1, TurnFrame, CoreZero DEF IInv
<1> QED
  BY <1>1, <1>2

-----------------------------------------------------------------------------
(* Core 1, the server, the workers and the clock *)

\* What the invariant says of a client, and that core 0 is where it was.
LEMMA Elsewhere1 ==
  ASSUME IInv, NEW c \in Client, UNCHANGED coreVars
  PROVE  /\ ClientInv(c) /\ Where(c)' = Where(c) /\ clientNo' = clientNo /\ mid' = mid
         /\ pcb[c] = "open" => mid # "watchdog" /\ ~closing[c]
         /\ Callback => \A d : ~Pending(d)
BY DEF IInv, SessionInv, ClientInv, BufferInv, Where, coreVars, Callback, Pending, Idle

\* The callbacks that start keep the invariant: a message is copied while its
\* client waits for it, or has not come to wait for it yet.
LEMMA CoreOneStep ==
  ASSUME IInv, NEW c \in Client, Core1(c)
  PROVE  SessionInv'
<1> USE DEF IInv, TypeOK
<1>1. UNCHANGED coreVars /\ waits' = waits /\ closing' = closing /\ got' = got
  BY DEF Core1, Establish, Receive, PeerCloses, Aborted, PeerGone
<1>2. /\ ClientInv(c) /\ Where(c)' = Where(c) /\ clientNo' = clientNo /\ mid' = mid
      /\ pcb[c] = "open" => mid # "watchdog" /\ ~closing[c]
      /\ \A d : ~Pending(d)
      /\ pcb[c] # "NULL"
  BY <1>1, Elsewhere1 DEF Core1, Establish, Receive, PeerCloses, Aborted
<1>3. ASSUME NEW d \in Client, d # c PROVE Same(d)
  BY <1>1, <1>3 DEF Core1, Establish, Receive, PeerCloses, Aborted, PeerGone, Become, Same
<1>4. CASE Establish(c)
  <2>1. /\ pcb[c] = "connecting" /\ pcb'[c] = "open" /\ toClient'[c] = Append(toClient[c], "greeting")
        /\ UNCHANGED <<state, buffer, toServer, cb>>
    BY <1>4 DEF Establish
  <2>2. Opening(c) /\ Silent(c)
    BY <1>2, <2>1 DEF ClientInv, ConversationInv
  <2>3. toServer'[c] = <<>> /\ toClient'[c] = <<"greeting">>
    BY <2>1, <2>2, OneMessage DEF Silent
  <2>4. ConversationInv(c)'
    BY <1>2, <2>1, <2>2, <2>3 DEF ConversationInv, Greeting, Opening, Pending
  <2>5. BufferInv(c)' /\ CallbackInv(c)'
    BY <1>1, <1>2, <2>1 DEF ClientInv, BufferInv, CallbackInv, Pending
  <2> QED
    BY <1>1, <1>2, <1>3, <2>1, <2>4, <2>5, Elsewhere DEF ClientInv
<1>5. CASE Receive(c)
  <2>1. /\ pcb[c] = "open" /\ toClient[c] # <<>> /\ cb' = [client |-> c, seen |-> "copied"]
        /\ buffer'[c] = Head(toClient[c]) /\ toClient'[c] = Tail(toClient[c])
        /\ UNCHANGED <<state, pcb, toServer>>
    BY <1>5 DEF Receive
  <2>2. \/ Opening(c) /\ toServer[c] = <<>> /\ toClient[c] = <<"greeting">>
        \/ Asking(c) /\ toServer[c] = <<>> /\ \E m \in Answer : toClient[c] = <<m>>
        \/ Telling(c) /\ toServer[c] = <<>> /\ toClient[c] = <<"verdict">>
    BY <1>2, <2>1 DEF ClientInv, ConversationInv, Greeting, Asking, Telling, Resting, Silent
  <2>3. PICK m : toClient[c] = <<m>> /\ (Asking(c) => m \in Answer)
    <3>1. Asking(c) => ~Opening(c) /\ ~Telling(c)
      BY DEF Asking, Opening, Telling
    <3> QED
      BY <2>2, <3>1
  <2>4. buffer'[c] = m /\ toServer'[c] = <<>> /\ toClient'[c] = <<>>
    BY <2>1, <2>2, <2>3, OneMessage
  <2>5. Silent(c)'
    BY <2>4 DEF Silent
  <2>6. ConversationInv(c)'
    <3>1. CASE Opening(c)
      BY <1>2, <2>1, <2>5, <3>1 DEF ConversationInv, Greeting, Opening
    <3>2. CASE Asking(c)
      BY <1>2, <2>1, <2>3, <2>4, <2>5, <3>2 DEF ConversationInv, Asking
    <3>3. CASE Telling(c)
      BY <1>2, <2>1, <2>5, <3>3 DEF ConversationInv, Telling
    <3> QED
      BY <2>2, <3>1, <3>2, <3>3
  <2>7. /\ state[c] \in {"CONNECT", "CONNECT_WAIT", "JOB_REQUEST", "REQUEST_WAIT", "SEND_RESULT", "RESULT_WAIT"}
        /\ Where(c) \notin {"parsed", "printed"}
        /\ state[c] = "REQUEST_WAIT" => Asking(c)
    BY <2>2 DEF Opening, Asking, Telling
  <2>8. BufferInv(c)' /\ CallbackInv(c)'
    BY <1>1, <1>2, <2>1, <2>3, <2>4, <2>7 DEF ClientInv, BufferInv, CallbackInv
  <2>9. ASSUME NEW d \in Client, d # c PROVE ~Pending(d)'
    BY <2>1, <2>9 DEF Pending
  <2> QED
    BY <1>1, <1>2, <1>3, <2>1, <2>6, <2>8, <2>9, Elsewhere DEF ClientInv
<1>6. CASE PeerCloses(c) \/ Aborted(c)
  <2>1. /\ pcb'[c] = "NULL" /\ toServer'[c] = <<>> /\ toClient'[c] = <<>> /\ buffer' = buffer /\ cb' = cb
        /\ state'[c] \in {state[c], "CONNECT"}
    BY <1>6 DEF PeerCloses, Aborted, PeerGone, Become
  <2>2. ConversationInv(c)'
    BY <1>2, <2>1 DEF ConversationInv, Closed, Silent, Pending
  <2>3. BufferInv(c)' /\ CallbackInv(c)'
    BY <1>1, <1>2, <2>1 DEF ClientInv, BufferInv, CallbackInv, Pending
  <2> QED
    BY <1>1, <1>2, <1>3, <2>1, <2>2, <2>3, Elsewhere DEF ClientInv
<1> QED
  BY <1>4, <1>5, <1>6 DEF Core1

\* The second and third step of a callback keep the invariant: the state that
\* was seen is still there, or nothing comes of it.
LEMMA CallbackStep ==
  ASSUME IInv, LookAtState \/ SetState
  PROVE  SessionInv'
<1> USE DEF IInv, TypeOK
<1>1. PICK c \in Client : c = cb.client
  OBVIOUS
<1>2. /\ UNCHANGED <<pcb, buffer, waits, tries, coreVars, netVars, slaveVars, late>>
      /\ UNCHANGED <<clientNo, mid, toServer, toClient, closing, got>>
  BY DEF LookAtState, SetState, coreVars, netVars
<1>3. Pending(c) /\ ClientInv(c) /\ Where(c)' = Where(c)
  BY <1>1, <1>2, Elsewhere1 DEF LookAtState, SetState, Pending, States
<1>4. ASSUME NEW d \in Client, d # c
      PROVE  Same(d) /\ ~Pending(d) /\ ~Pending(d)'
  <2>1. cb'.client = c \/ cb'.seen = "none"
    BY <1>1 DEF LookAtState, SetState, Idle
  <2>2. ~Pending(d) /\ ~Pending(d)'
    BY <1>1, <1>4, <2>1 DEF Pending
  <2>3. Same(d)
    BY <1>1, <1>2, <1>4 DEF LookAtState, SetState, Same
  <2> QED
    BY <2>2, <2>3
<1>5. Silent(c) /\ (Silent(c)' <=> Silent(c))
  BY <1>2, <1>3 DEF ClientInv, ConversationInv, Closed, Greeting, Asking, Telling, Resting, Silent
<1>6. pcb[c] = "NULL" => mid = "watchdog" \/ (Where(c) = "start" /\ state[c] = "CONNECT" /\ waits[c])
  BY <1>3 DEF ClientInv, ConversationInv, Closed
<1>7. pcb[c] # "NULL" => pcb[c] = "open" /\ (Opening(c) \/ Asking(c) \/ Telling(c))
  BY <1>3 DEF ClientInv, ConversationInv, Greeting, Resting
<1>8. CASE LookAtState
  <2>1. /\ cb.seen = "copied" /\ cb'.client = c /\ cb'.seen = state[c] /\ state' = state
    BY <1>1, <1>8 DEF LookAtState
  <2>2. Pending(c)'
    BY <2>1 DEF Pending, States
  <2>3. ConversationInv(c)'
    <3>1. CASE pcb[c] = "NULL"
      BY <1>2, <1>3, <1>5, <1>6, <2>1, <3>1 DEF ConversationInv, Closed
    <3>2. CASE pcb[c] = "open" /\ Opening(c)
      BY <1>2, <1>3, <1>5, <2>1, <3>2 DEF ConversationInv, Greeting, Opening
    <3>3. CASE pcb[c] = "open" /\ Asking(c)
      <4>1. buffer[c] \in Answer
        BY <1>3, <3>3 DEF Asking
      <4> QED
        BY <1>2, <1>3, <1>5, <2>1, <3>3, <4>1 DEF ConversationInv, Asking
    <3>4. CASE pcb[c] = "open" /\ Telling(c)
      BY <1>2, <1>3, <1>5, <2>1, <3>4 DEF ConversationInv, Telling
    <3> QED
      BY <1>7, <3>1, <3>2, <3>3, <3>4
  <2>4. BufferInv(c)' /\ CallbackInv(c)'
    BY <1>1, <1>2, <1>3, <2>1 DEF ClientInv, BufferInv, CallbackInv
  <2> QED
    BY <1>2, <1>4, <2>3, <2>4, Elsewhere DEF ClientInv
<1>9. CASE SetState
  <2>1. /\ cb.seen \in States /\ cb' = Idle
        /\ \/ cb.seen = "CONNECT_WAIT" /\ state'[c] = "JOB_REQUEST"
           \/ cb.seen = "REQUEST_WAIT" /\ state'[c] = "HASH_CALCULATION"
           \/ cb.seen = "RESULT_WAIT" /\ state'[c] = "RESULT_UPDATE"
           \/ cb.seen \notin {"CONNECT_WAIT", "REQUEST_WAIT", "RESULT_WAIT"} /\ state'[c] = state[c]
    BY <1>1, <1>9 DEF SetState, After
  <2>2. ~Pending(c)' /\ cb'.seen = "none"
    BY <2>1 DEF Pending, Idle
  <2>3. /\ cb.seen \in {"REQUEST_WAIT", "RESULT_WAIT"} => state[c] = cb.seen
        /\ cb.seen = "CONNECT_WAIT" =>
             state[c] = cb.seen \/ (Where(c) = "start" /\ state[c] = "CONNECT" /\ pcb[c] = "NULL")
        /\ cb.seen = "REQUEST_WAIT" => buffer[c] \in Answer
    BY <1>1, <1>3 DEF ClientInv, CallbackInv
  <2>4. ConversationInv(c)'
    <3>1. CASE pcb[c] = "NULL"
      BY <1>2, <1>5, <2>2, <3>1 DEF ConversationInv, Closed
    <3>2. CASE pcb[c] = "open" /\ Opening(c)
      BY <1>2, <1>3, <1>5, <2>1, <2>2, <2>3, <3>2 DEF ConversationInv, Greeting, Resting, Opening
    <3>3. CASE pcb[c] = "open" /\ Asking(c)
      BY <1>2, <1>3, <1>5, <2>1, <2>2, <2>3, <3>3 DEF ConversationInv, Asking, Resting
    <3>4. CASE pcb[c] = "open" /\ Telling(c)
      BY <1>2, <1>3, <1>5, <2>1, <2>2, <2>3, <3>4 DEF ConversationInv, Telling, Resting
    <3> QED
      BY <1>7, <3>1, <3>2, <3>3, <3>4
  <2>5. BufferInv(c)'
    BY <1>2, <1>3, <2>1, <2>3 DEF ClientInv, BufferInv
  <2>6. CallbackInv(c)'
    BY <2>2 DEF CallbackInv
  <2> QED
    BY <1>2, <1>4, <2>4, <2>5, <2>6, Elsewhere DEF ClientInv
<1> QED
  BY <1>8, <1>9

\* The server and the stack keep the invariant: the answer to a request is a job
\* or a refusal, that to a result the verdict, and what is sent is the result.
LEMMA ServeStep ==
  ASSUME IInv, NEW c \in Client, Serve(c)
  PROVE  SessionInv'
<1> USE DEF IInv, TypeOK
<1>1. /\ pcb[c] = "open" /\ toServer[c] # <<>>
      /\ UNCHANGED <<state, pcb, buffer, waits, coreVars, cb, closing>>
  BY DEF Serve
<1>2. ClientInv(c) /\ Where(c)' = Where(c) /\ UNCHANGED <<clientNo, mid>>
  BY <1>1, Elsewhere1 DEF coreVars
<1>3. ASSUME NEW d \in Client, d # c PROVE Same(d)
  BY <1>1, <1>3 DEF Serve, Same
<1>4. CASE Head(toServer[c]) = "request"
  <2>1. /\ Asking(c) /\ ~Pending(c) /\ toServer[c] = <<"request">> /\ toClient[c] = <<>>
    BY <1>1, <1>2, <1>4, OneMessage
       DEF ClientInv, ConversationInv, Greeting, Asking, Telling, Resting, Silent
  <2>2. PICK m \in Answer : toClient'[c] = <<m>>
    BY <1>4, <2>1, OneMessage DEF Serve, Answer
  <2>3. toServer'[c] = <<>> /\ got'[c] = got[c]
    BY <1>4, <2>1, OneMessage DEF Serve
  <2>4. ConversationInv(c)'
    BY <1>1, <1>2, <2>1, <2>2, <2>3 DEF ConversationInv, Asking, Pending
  <2>5. BufferInv(c)' /\ CallbackInv(c)'
    BY <1>1, <1>2, <2>3 DEF ClientInv, BufferInv, CallbackInv
  <2> QED
    BY <1>1, <1>2, <1>3, <2>4, <2>5, Elsewhere DEF ClientInv
<1>5. CASE Head(toServer[c]) # "request"
  <2>1. /\ Telling(c) /\ ~Pending(c) /\ toServer[c] = <<"result">> /\ toClient[c] = <<>>
        /\ buffer[c] = "result"
    BY ZenonT(60), <1>1, <1>2, <1>5, OneMessage
       DEF ClientInv, ConversationInv, Greeting, Asking, Telling, Resting, Silent
  <2>2. toClient'[c] = <<"verdict">>
    BY <1>5, <2>1, OneMessage DEF Serve
  <2>3. toServer'[c] = <<>> /\ got'[c] = "result"
    BY <1>5, <2>1, OneMessage DEF Serve, Content
  <2>4. ConversationInv(c)'
    BY <1>1, <1>2, <2>1, <2>2, <2>3 DEF ConversationInv, Telling, Pending
  <2>5. BufferInv(c)' /\ CallbackInv(c)'
    BY <1>1, <1>2, <2>3 DEF ClientInv, BufferInv, CallbackInv
  <2> QED
    BY <1>1, <1>2, <1>3, <2>4, <2>5, Elsewhere DEF ClientInv
<1> QED
  BY <1>4, <1>5

\* What is left of a closed connection, the workers and the clock keep it: what
\* is sent is the result, and no minute comes while a callback runs.
LEMMA AroundStep ==
  ASSUME IInv, NEW c \in Client, SendRest(c) \/ Work(c) \/ Minute(c)
  PROVE  SessionInv'
<1> USE DEF IInv, TypeOK
<1>1. /\ UNCHANGED <<state, pcb, buffer, coreVars, cb, toServer, toClient>>
      /\ UNCHANGED <<clientNo, mid>>
  BY DEF SendRest, Work, Minute, coreVars, netVars
<1>2. ClientInv(c) /\ Where(c)' = Where(c)
  BY <1>1, Elsewhere1
<1>3. ASSUME NEW d \in Client, d # c PROVE Same(d)
  BY <1>1, <1>3 DEF SendRest, Work, Minute, netVars, Same
<1>4. CASE SendRest(c)
  <2>1. /\ buffer[c] = "result" /\ waits' = waits /\ got'[c] = "result" /\ ~closing'[c]
    BY <1>2, <1>4 DEF SendRest, Content, ClientInv, BufferInv
  <2>2. ConversationInv(c)'
    BY <1>1, <1>2, <2>1 DEF ClientInv, ConversationInv, Opening, Greeting, Asking, Telling, Resting,
                            Closed, Silent, Pending
  <2>3. BufferInv(c)' /\ CallbackInv(c)'
    BY <1>1, <1>2, <2>1 DEF ClientInv, BufferInv, CallbackInv
  <2> QED
    BY <1>1, <1>2, <1>3, <2>2, <2>3, Elsewhere DEF ClientInv
<1>5. CASE Work(c)
  <2>1. Same(c)
    BY <1>1, <1>5 DEF Work, netVars, Same
  <2>2. ClientInv(c)'
    BY <1>1, <1>2, <2>1, Untouched
  <2> QED
    BY <1>1, <1>3, <2>2, Elsewhere
<1>6. CASE Minute(c)
  <2>1. ~Pending(c) /\ UNCHANGED <<closing, got>>
    BY <1>1, <1>6, Elsewhere1 DEF Minute, netVars
  <2>2. ConversationInv(c)'
    BY <1>1, <1>2, <2>1 DEF ClientInv, ConversationInv, Opening, Greeting, Asking, Telling, Resting,
                            Closed, Silent, Pending
  <2>3. BufferInv(c)' /\ CallbackInv(c)'
    BY <1>1, <1>2, <2>1 DEF ClientInv, BufferInv, CallbackInv
  <2> QED
    BY <1>1, <1>2, <1>3, <2>2, <2>3, Elsewhere DEF ClientInv
<1> QED
  BY <1>4, <1>5, <1>6

\* A restarted master starts like a new one; the history of the results stays.
LEMMA RebootStep ==
  ASSUME IInv, Reboot
  PROVE  SessionInv'
<1> USE DEF IInv, TypeOK
<1>1. ASSUME NEW d \in Client PROVE ClientInv(d)'
  <2>1. got[d] # "other"
    BY DEF SessionInv, BufferInv
  <2>2. /\ pcb'[d] = "NULL" /\ state'[d] = "CONNECT" /\ ~closing'[d] /\ got'[d] = got[d]
        /\ toServer'[d] = <<>> /\ toClient'[d] = <<>> /\ cb'.seen = "none" /\ mid' = "start"
    BY DEF Reboot, Idle
  <2> QED
    BY <2>1, <2>2 DEF ClientInv, ConversationInv, Closed, Silent, Pending, BufferInv, CallbackInv, Where
<1> QED
  BY <1>1 DEF Reboot, SessionInv, ClientInv

-----------------------------------------------------------------------------
(* Types *)

\* The empty sequence is one of any type.
LEMMA EmptySeq == \A S : <<>> \in Seq(S)
OBVIOUS

\* Core 0 keeps the types.
LEMMA TurnType ==
  ASSUME TypeOK, NEW c \in Client, Turn(c)
  PROVE  TypeOK'
<1> USE DEF TypeOK, At, Within, Become, netVars, slaveVars, States, Message, Mid
<1>1. /\ NextClient => clientNo' \in Client /\ mid' \in Mid
      /\ \A m \in Mid : clientNo = c /\ Inside(m) => clientNo' \in Client /\ mid' \in Mid
  <2>1. clientNo \in Client
    OBVIOUS
  <2> HIDE DEF TypeOK
  <2> QED
    BY <2>1, NextIsClient DEF NextClient, Inside
<1>2. /\ \A p \in {"NULL", "connecting"} : Abandon(c, p) =>
           /\ pcb' \in [Client -> {"NULL", "connecting", "open"}] /\ closing' \in [Client -> BOOLEAN]
           /\ toServer' \in [Client -> Seq({"request", "result"})] /\ toClient' \in [Client -> Seq(Message)]
           /\ got' = got
      /\ \A m \in {"request", "result"} : Write(c, m) =>
           /\ toServer' \in [Client -> Seq({"request", "result"})]
           /\ UNCHANGED <<pcb, toClient, closing, got>>
      /\ OpenLater(c) => waits' \in [Client -> BOOLEAN]
  <2>1. ASSUME NEW p \in {"NULL", "connecting"}, Abandon(c, p)
        PROVE  /\ pcb' \in [Client -> {"NULL", "connecting", "open"}] /\ closing' \in [Client -> BOOLEAN]
               /\ toServer' \in [Client -> Seq({"request", "result"})] /\ toClient' \in [Client -> Seq(Message)]
               /\ got' = got
    <3>1. (closing[c] \/ Queued(c)) \in BOOLEAN
      BY DEF Queued
    <3>2. closing' = [closing EXCEPT ![c] = closing[c] \/ Queued(c)]
      BY <2>1 DEF Abandon
    <3>3. closing' \in [Client -> BOOLEAN]
      BY <3>1, <3>2, Zenon
    <3>4. <<>> \in Seq({"request", "result"}) /\ <<>> \in Seq(Message)
      BY EmptySeq
    <3> QED
      BY <2>1, <3>3, <3>4 DEF Abandon
  <2>2. ASSUME NEW m \in {"request", "result"}, Write(c, m)
        PROVE  /\ toServer' \in [Client -> Seq({"request", "result"})]
               /\ UNCHANGED <<pcb, toClient, closing, got>>
    <3>1. Append(toServer[c], m) \in Seq({"request", "result"})
      <4>1. toServer[c] \in Seq({"request", "result"})
        OBVIOUS
      <4> HIDE DEF TypeOK
      <4> QED
        BY <4>1, AppendType
    <3>2. toServer' = [toServer EXCEPT ![c] = Append(toServer[c], m)]
      BY <2>2 DEF Write
    <3>3. toServer' \in [Client -> Seq({"request", "result"})]
      BY <3>1, <3>2
    <3> QED
      BY <2>2, <3>3 DEF Write
  <2>3. OpenLater(c) => waits' \in [Client -> BOOLEAN]
    BY DEF OpenLater
  <2> QED
    BY <2>1, <2>2, <2>3
<1>3. Retries \in Nat
  BY MasterAssumption
<1>4. CASE Pass(c)
  BY <1>1, <1>4 DEF Pass
<1>5. CASE Connect(c)
  BY <1>1, <1>2, <1>5 DEF Connect
<1>6. CASE ConnectWait(c)
  <2>1. tries' \in -1..Retries
    BY <1>3, <1>6 DEF ConnectWait
  <2>2. clientNo' \in Client /\ mid' \in Mid
    BY <1>1, <1>6 DEF ConnectWait
  <2> QED
    BY <1>6, <2>1, <2>2 DEF ConnectWait
<1>7. CASE ConnectFails(c)
  <2>1. tries' \in -1..Retries
    <3>1. tries \in -1..Retries /\ tries > 0 /\ tries' = tries - 1
      BY <1>7 DEF ConnectFails
    <3> HIDE DEF TypeOK
    <3> QED
      BY <1>3, <3>1, Counting
  <2>2. clientNo' \in Client /\ mid' \in Mid
    BY <1>1, <1>7 DEF ConnectFails
  <2> QED
    BY <1>2, <1>7, <2>1, <2>2 DEF ConnectFails, Close
<1>8. CASE GiveUp(c)
  <2>1. closing' \in [Client -> BOOLEAN]
    <3>1. \A i \in Client : (closing[i] \/ Queued(i)) \in BOOLEAN
      BY DEF Queued
    <3>2. closing' = [i \in Client |-> closing[i] \/ Queued(i)]
      BY <1>8 DEF GiveUp
    <3> QED
      BY <3>1, <3>2, Zenon
  <2>2. /\ pcb' \in [Client -> {"NULL", "connecting", "open"}]
        /\ toServer' \in [Client -> Seq({"request", "result"})] /\ toClient' \in [Client -> Seq(Message)]
    BY <1>8 DEF GiveUp
  <2>3. tries' \in -1..Retries
    BY <1>3, <1>8 DEF GiveUp
  <2>4. clientNo' \in Client /\ mid' \in Mid
    BY <1>1, <1>8 DEF GiveUp
  <2> QED
    BY <1>8, <2>1, <2>2, <2>3, <2>4 DEF GiveUp
<1>9. CASE Expire(c)
  <2>1. clientNo' \in Client /\ mid' \in Mid
    BY <1>1, <1>9 DEF Expire
  <2>2. late' \in 0..MaxLate
    <3>1. (late' = late \/ late' = late + 1) /\ late' <= MaxLate
      BY <1>9 DEF Expire
    <3>2. late \in 0..MaxLate /\ MaxLate \in Nat
      BY MasterAssumption
    <3> HIDE DEF TypeOK
    <3> QED
      BY <3>1, <3>2, Counting
  <2> QED
    BY <1>9, <2>1, <2>2 DEF Expire
<1>10. CASE Expired(c)
  BY ZenonT(60), <1>1, <1>2, <1>10 DEF Expired, Close
<1>11. CASE JobRequest(c)
  <2>1. retry' \in [Client -> 0..(MaxRetry + 1)]
    <3>1. retry' = retry \/ (retry[c] < MaxRetry /\ retry' = [retry EXCEPT ![c] = retry[c] + 1])
      BY <1>11 DEF JobRequest
    <3>2. retry[c] \in 0..(MaxRetry + 1)
      OBVIOUS
    <3>3. retry[c] < MaxRetry => retry[c] + 1 \in 0..(MaxRetry + 1)
      BY <3>2, RetryRange
    <3> QED
      BY <3>1, <3>3
  <2>2. /\ state' \in [Client -> States] /\ clientNo' \in Client /\ mid' \in Mid
        /\ pcb' \in [Client -> {"NULL", "connecting", "open"}] /\ closing' \in [Client -> BOOLEAN]
        /\ waits' \in [Client -> BOOLEAN]
        /\ toServer' \in [Client -> Seq({"request", "result"})] /\ toClient' \in [Client -> Seq(Message)]
        /\ got' = got
    BY ZenonT(60), <1>1, <1>2, <1>11 DEF JobRequest, WriteFails, Close
  <2>3. UNCHANGED <<buffer, tries, cb, worker, late>>
    BY <1>11 DEF JobRequest
  <2> QED
    BY <2>1, <2>2, <2>3
<1>12. CASE RequestWait(c)
  BY <1>1, <1>12 DEF RequestWait
<1>13. CASE HashCalculation(c)
  BY <1>1, <1>13 DEF HashCalculation
<1>14. CASE WriteJob(c)
  <2>1. \/ worker' = worker
        \/ \E w \in {"busy", worker[c]} : worker' = [worker EXCEPT ![c] = w]
    BY <1>14 DEF WriteJob
  <2>2. worker' \in [Client -> Worker]
    BY <2>1 DEF Worker
  <2>3. UNCHANGED <<pcb, buffer, waits, tries, cb, netVars, retry, late>>
    BY <1>14 DEF WriteJob
  <2>4. state' \in [Client -> States] /\ clientNo' \in Client /\ mid' \in Mid
    BY <1>1, <1>14 DEF WriteJob
  <2> QED
    BY <2>2, <2>3, <2>4
<1>15. CASE CalculationWait(c)
  BY <1>1, <1>15 DEF CalculationWait
<1>16. CASE ReadResult(c) \/ ReadZero(c)
  <2>1. 0 \in 0..(MaxRetry + 1) /\ 1 \in 0..(MaxRetry + 1)
    BY RetryRange
  <2>2. retry' \in [Client -> 0..(MaxRetry + 1)]
    BY Zenon, <1>16, <2>1 DEF ReadResult, ReadZero
  <2>3. worker' \in [Client -> Worker]
    <3>1. WorkerRead(c) \in [Client -> Worker]
      BY DEF WorkerRead, Worker
    <3> QED
      BY <1>16, <3>1 DEF ReadResult, ReadZero
  <2>4. /\ clientNo' \in Client /\ mid' \in Mid
        /\ buffer' \in [Client -> Message \cup {"empty", "result"}]
    BY <1>1, <1>16 DEF ReadResult, ReadZero
  <2>5. UNCHANGED <<state, pcb, waits, tries, cb, netVars, late>>
    BY <1>16 DEF ReadResult, ReadZero
  <2> QED
    BY <2>2, <2>3, <2>4, <2>5
<1>17. CASE SendResult(c)
  BY ZenonT(60), <1>1, <1>2, <1>17 DEF SendResult, WriteFails, Close
<1>18. CASE ResultWait(c)
  BY <1>1, <1>18 DEF ResultWait
<1>19. CASE ResultUpdate(c)
  BY <1>1, <1>19 DEF ResultUpdate
<1> QED
  BY <1>4, <1>5, <1>6, <1>7, <1>8, <1>9, <1>10, <1>11, <1>12, <1>13, <1>14, <1>15, <1>16,
     <1>17, <1>18, <1>19 DEF Turn

\* The callbacks, the server, the workers and the clock keep the types.
LEMMA OthersType ==
  ASSUME TypeOK, NEW c \in Client,
         \/ Core1(c) \/ Serve(c) \/ SendRest(c) \/ Work(c) \/ Minute(c)
         \/ LookAtState \/ SetState
  PROVE  TypeOK'
<1> USE DEF TypeOK, Become, coreVars, netVars, slaveVars, Message
<1>1. CASE Establish(c)
  BY <1>1 DEF Establish
<1>2. CASE Receive(c)
  <2>1. Head(toClient[c]) \in Message /\ Tail(toClient[c]) \in Seq(Message)
    BY <1>2 DEF Receive
  <2> QED
    BY <1>2, <2>1 DEF Receive, States
<1>3. CASE PeerCloses(c) \/ Aborted(c)
  <2>1. /\ toServer' \in [Client -> Seq({"request", "result"})]
        /\ toClient' \in [Client -> Seq(Message)]
    <3>1. PeerGone(c)
      BY <1>3 DEF PeerCloses, Aborted
    <3>2. <<>> \in Seq({"request", "result"}) /\ <<>> \in Seq(Message)
      BY EmptySeq
    <3> QED
      BY <3>1, <3>2 DEF PeerGone
  <2>2. state' \in [Client -> States]
    BY <1>3 DEF PeerCloses, Aborted, States
  <2> QED
    BY <1>3, <2>1, <2>2 DEF PeerCloses, Aborted, PeerGone
<1>4. CASE Serve(c)
  <2>1. toServer' \in [Client -> Seq({"request", "result"})]
    BY <1>4 DEF Serve
  <2>2. toClient' \in [Client -> Seq(Message)]
    BY <1>4 DEF Serve
  <2>3. got' \in [Client -> {"result", "other"}]
    BY <1>4 DEF Serve, Content
  <2> QED
    BY <1>4, <2>1, <2>2, <2>3 DEF Serve
<1>5. CASE SendRest(c)
  BY <1>5 DEF SendRest, Content
<1>6. CASE Work(c)
  <2>1. PICK w \in {"done", "zero"} : worker' = [worker EXCEPT ![c] = w]
    BY <1>6 DEF Work
  <2>2. worker' \in [Client -> Worker]
    BY <2>1 DEF Worker
  <2>3. UNCHANGED <<state, pcb, buffer, waits, tries, coreVars, cb, netVars, retry, late>>
    BY <1>6 DEF Work
  <2> QED
    BY <2>2, <2>3
<1>7. CASE Minute(c)
  BY <1>7 DEF Minute
<1>8. CASE LookAtState
  BY <1>8 DEF LookAtState, States
<1>9. CASE SetState
  <2>1. Idle \in [client : Client, seen : States \cup {"none", "copied"}]
    BY NextIsClient DEF Idle
  <2>2. state' \in [Client -> States]
    BY <1>9 DEF SetState, After, States
  <2> QED
    BY <1>9, <2>1, <2>2 DEF SetState
<1> QED
  BY <1>1, <1>2, <1>3, <1>4, <1>5, <1>6, <1>7, <1>8, <1>9 DEF Core1

\* So does a restart.
LEMMA RebootType ==
  ASSUME IInv, Reboot
  PROVE  TypeOK'
<1>1. retry' \in [Client -> 0..(MaxRetry + 1)]
  <2>1. 0 \in 0..(MaxRetry + 1)
    BY RetryRange
  <2> QED
    BY <2>1 DEF Reboot
<1>2. /\ Idle \in [client : Client, seen : States \cup {"none", "copied"}]
      /\ clientNo' \in Client /\ mid' \in Mid
  BY NextIsClient DEF Reboot, Idle, Mid
<1>3. tries' \in -1..Retries
  BY MasterAssumption DEF Reboot
<1>4. /\ toServer' \in [Client -> Seq({"request", "result"})]
      /\ toClient' \in [Client -> Seq(Message)]
  BY DEF Reboot
<1>5. /\ state' \in [Client -> States] /\ pcb' \in [Client -> {"NULL", "connecting", "open"}]
      /\ buffer' \in [Client -> Message \cup {"empty", "result"}]
      /\ waits' \in [Client -> BOOLEAN] /\ closing' \in [Client -> BOOLEAN]
      /\ cb' = Idle /\ UNCHANGED <<worker, late, got>>
  BY DEF Reboot, States, Message
<1>6. TypeOK
  BY DEF IInv
<1> QED
  BY <1>1, <1>2, <1>3, <1>4, <1>5, <1>6 DEF TypeOK

-----------------------------------------------------------------------------
(* The invariant, and what it says of jobs and results *)

\* The invariant holds when the master starts.
LEMMA InitIInv == Init => IInv
<1> SUFFICES ASSUME Init PROVE IInv
  OBVIOUS
<1>1. TypeOK
  <2>1. Retries \in -1..Retries /\ 0 \in 0..MaxLate
    BY MasterAssumption
  <2>2. Idle \in [client : Client, seen : States \cup {"none", "copied"}] /\ 0 \in Client
    BY NextIsClient DEF Idle
  <2>3. retry \in [Client -> 0..(MaxRetry + 1)]
    BY RetryRange DEF Init
  <2>4. tries \in -1..Retries /\ late \in 0..MaxLate
    BY <2>1 DEF Init
  <2> QED
    BY <2>2, <2>3, <2>4 DEF Init, TypeOK, States, Message, Mid, Worker
<1>2. \A d \in Client : ClientInv(d)
  BY DEF Init, ClientInv, ConversationInv, Closed, Silent, Pending, BufferInv, CallbackInv, Where, Idle
<1>3. mid = "start"
  BY DEF Init
<1> QED
  BY <1>1, <1>2, <1>3 DEF IInv, SessionInv, ClientInv

\* Every step keeps the invariant.
LEMMA NextIInv ==
  ASSUME Prompt, IInv, [Next]_vars
  PROVE  IInv'
<1>1. ASSUME NEW c \in Client, Turn(c) PROVE IInv'
  BY <1>1, TurnStep, TurnType DEF IInv
<1>2. ASSUME NEW c \in Client, Core1(c) \/ Serve(c) \/ SendRest(c) \/ Work(c) \/ Minute(c)
      PROVE  IInv'
  BY <1>2, CoreOneStep, ServeStep, AroundStep, OthersType DEF IInv
<1>3. CASE LookAtState \/ SetState
  BY <1>3, CallbackStep, OthersType, NextIsClient DEF IInv
<1>4. CASE Reboot
  BY <1>4, RebootStep, RebootType DEF IInv
<1>5. CASE UNCHANGED vars
  <2>1. TypeOK'
    BY <1>5 DEF IInv, TypeOK, vars, coreVars, netVars, slaveVars
  <2>2. ASSUME NEW d \in Client PROVE ClientInv(d)'
    <3>1. Same(d) /\ Where(d)' = Where(d) /\ cb' = cb /\ mid' = mid /\ ClientInv(d)
      BY <1>5 DEF vars, coreVars, netVars, Same, Where, IInv, SessionInv, ClientInv
    <3> QED
      BY <3>1, Untouched
  <2>3. mid' = "watchdog" => \A d \in Client : pcb'[d] = "NULL"
    BY <1>5 DEF vars, coreVars, IInv, SessionInv
  <2> QED
    BY <2>1, <2>2, <2>3 DEF IInv, SessionInv, ClientInv
<1> QED
  BY <1>1, <1>2, <1>3, <1>4, <1>5 DEF Next

\* What is under way of every client, for any number of clients and restarts.
THEOREM SessionInvariant ==
  ASSUME Prompt
  PROVE  Spec => []IInv
<1>1. Init => IInv
  BY InitIInv
<1>2. IInv /\ [Next]_vars => IInv'
  BY NextIInv
<1> QED
  BY <1>1, <1>2, PTL DEF Spec

\* The invariant implies what jobs, results and answers are required to be.
LEMMA IInvSession == IInv => JobIsAnswer /\ ResultAsWritten /\ InStep
<1> SUFFICES ASSUME IInv PROVE JobIsAnswer /\ ResultAsWritten /\ InStep
  OBVIOUS
<1>1. \A c \in Client : ClientInv(c)
  BY DEF IInv, SessionInv, ClientInv
<1>2. JobIsAnswer
  BY <1>1 DEF ClientInv, BufferInv, JobIsAnswer, Answer, Within, Where
<1>3. ResultAsWritten
  BY <1>1 DEF ClientInv, BufferInv, ResultAsWritten
<1>4. InStep
  <2> SUFFICES ASSUME NEW c \in Client, pcb[c] = "open"
               PROVE  /\ Len(toServer[c]) + Len(toClient[c]) <= 1
                      /\ toServer[c] # <<>> => state[c] \notin {"HASH_CALCULATION", "CALCULATION_WAIT"}
    BY DEF InStep
  <2>1. \/ Silent(c)
        \/ toServer[c] = <<>> /\ \E m : toClient[c] = <<m>>
        \/ (\E m : toServer[c] = <<m>>) /\ toClient[c] = <<>> /\ (Asking(c) \/ Telling(c))
    BY <1>1 DEF ClientInv, ConversationInv, Greeting, Asking, Telling, Resting
  <2>2. Len(toServer[c]) + Len(toClient[c]) <= 1
    <3>1. Len(<<>>) = 0 /\ \A m : Len(<<m>>) = 1
      BY OneMessage
    <3>2. CASE Silent(c)
      BY <3>1, <3>2 DEF Silent
    <3>3. CASE toServer[c] = <<>> /\ \E m : toClient[c] = <<m>>
      <4>1. Len(toServer[c]) = 0 /\ Len(toClient[c]) = 1
        BY <3>1, <3>3
      <4> QED
        BY <4>1, SMT
    <3>4. CASE (\E m : toServer[c] = <<m>>) /\ toClient[c] = <<>>
      <4>1. Len(toServer[c]) = 1 /\ Len(toClient[c]) = 0
        BY <3>1, <3>4
      <4> QED
        BY <4>1, SMT
    <3> QED
      BY <2>1, <3>2, <3>3, <3>4
  <2>3. toServer[c] # <<>> => Asking(c) \/ Telling(c)
    BY <2>1 DEF Silent
  <2> QED
    BY <2>2, <2>3 DEF Asking, Telling
<1> QED
  BY <1>2, <1>3, <1>4

\* The line that duino_master_state_loop takes for a job, and passes on to a
\* slave, is the server's answer to the last request of that client.
THEOREM JobIsAnswerTheorem ==
  ASSUME Prompt
  PROVE  Spec => []JobIsAnswer
<1>1. Spec => []IInv
  BY SessionInvariant
<1>2. IInv => JobIsAnswer
  BY IInvSession
<1> QED
  BY <1>1, <1>2, PTL

\* socketBuffer is not written between tcp_write, which only points to it, and
\* the moment the stack sends it.
THEOREM ResultAsWrittenTheorem ==
  ASSUME Prompt
  PROVE  Spec => []ResultAsWritten
<1>1. Spec => []IInv
  BY SessionInvariant
<1>2. IInv => ResultAsWritten
  BY IInvSession
<1> QED
  BY <1>1, <1>2, PTL

\* At most one message is under way on a connection, and no answer arrives for
\* a client that works on a job.
THEOREM InStepTheorem ==
  ASSUME Prompt
  PROVE  Spec => []InStep
<1>1. Spec => []IInv
  BY SessionInvariant
<1>2. IInv => InStep
  BY IInvSession
<1> QED
  BY <1>1, <1>2, PTL

=============================================================================
