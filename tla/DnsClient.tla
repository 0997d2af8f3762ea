----------------------------- MODULE DnsClient ------------------------------
(***************************************************************************)
(* The DNS client, port/aws-iot-device-sdk-embedded-C/src/dns_interface.c: *)
(* get_ipaddr_from_dns polls DNS_run_handler, a state machine, until it no *)
(* longer says DNS_RET_RUNNING.  The clients call it in the middle of a    *)
(* call of their own: pc is where the one thread of the application is,    *)
(* call the call it is in.                                                 *)
(*                                                                         *)
(* The query and its answer are external: an answer comes late, or never,  *)
(* to the local port of the query, and reads as DnsSays.                   *)
(***************************************************************************)
EXTENDS WizSockets

CONSTANT DnsSays   \* what parseDNSMSG makes of an answer

ASSUME DnsAssumption == DnsSays \subseteq {"address", "error", "name too long"}

VARIABLES pc,        \* where the thread is
          call,      \* the call of a client it is in
          ip,        \* http_ip and mqtt_ip: the host whose address they hold
          dns_state,
          port,      \* the local port of the DNS socket: a new one each time
          queries    \* what was asked and not yet answered, from which port

dnsVars == <<dns_state, port, queries>>

DnsInit == /\ ip = [c \in Client |-> Unset]
           /\ dns_state = "STOP" /\ port = 0 /\ queries = {}

\* The thread is with the application, or in a call of a client for a host.
NoCall == [client |-> "none", op |-> "none", https |-> FALSE, given |-> FALSE, host |-> Unset,
           ret |-> "ok", unread |-> FALSE, total |-> 0, length |-> 0]
Call(client, op, https, tls_context, name) ==
  [NoCall EXCEPT !.client = client, !.op = op, !.https = https, !.given = tls_context, !.host = name]
Return == pc' = "rest" /\ call' = NoCall

\* The thread goes on, or fails: the caller closes and returns -1.
Go(p)  == pc' = p /\ UNCHANGED call
Fail   == pc' = "close" /\ call' = [call EXCEPT !.ret = "error"]

-----------------------------------------------------------------------------

\* DNS_init_handler
InitHandler ==
  /\ pc = "resolve"
  /\ dns_state' = "INIT"
  /\ Close(DnsSocket)
  /\ Go("dns")
  /\ UNCHANGED <<ip, port, queries>>

\* Mutant of NextPort: the socket has a fixed local port.
NextPortFixed == port' = 1
\* socket() with local port 0: the next port that is free.
NextPort == port' = port + 1

\* STATE_DNS_INIT
OpenSocket ==
  /\ pc = "dns" /\ dns_state = "INIT"
  /\ OpenUdp(DnsSocket) /\ NextPort
  /\ dns_state' = "SEND_QUERY"
  /\ UNCHANGED <<pc, call, ip, queries>>

\* STATE_DNS_SEND_QUERY
SendQuery ==
  /\ pc = "dns" /\ dns_state = "SEND_QUERY"
  /\ queries' = queries \cup {[from |-> port, name |-> call.host]}
  /\ dns_state' = "RECV_RESPONSE"
  /\ UNCHANGED <<sock, host, pc, call, ip, port>>

\* STATE_DNS_RECV_RESPONSE, an answer: parseDNSMSG writes an address through
\* ip_from_dns when it returns 1; it returns 0 for an error and -1 for a name
\* that is too long, and whatever is not 0 counts as DNS_RET_SUCCESS.  Then the
\* time is looked at, and a timeout takes the place of the answer.
Receive(q, says, late) ==
  /\ pc = "dns" /\ dns_state = "RECV_RESPONSE"
  /\ q.from = port
  /\ queries' = queries \ {q}
  /\ ip' = [ip EXCEPT ![call.client] = IF says = "address" THEN q.name ELSE @]
  /\ dns_state' = "DONE"
  /\ IF late \/ says = "error"
     THEN Fail
     ELSE pc' = "connect" /\ call' = [call EXCEPT !.unread = says = "name too long"]
  /\ UNCHANGED <<sock, host, port>>

\* Mutant of Expire: the handler of a response is left only with a response.
ExpireNever == FALSE
\* STATE_DNS_RECV_RESPONSE, nothing came in time.
Expire ==
  /\ pc = "dns" /\ dns_state = "RECV_RESPONSE"
  /\ dns_state' = "DONE"
  /\ Fail
  /\ UNCHANGED <<sock, host, ip, port, queries>>

\* A query or its answer is lost.
Lose(q) == /\ queries' = queries \ {q}
           /\ UNCHANGED <<sock, host, pc, call, ip, dns_state, port>>

\* The loop of get_ipaddr_from_dns ends with the first result that is not
\* RUNNING, so that STATE_DNS_DONE, which closes the socket, is never run.
DnsStep == \/ InitHandler \/ OpenSocket \/ SendQuery \/ Expire
           \/ \E q \in queries, says \in DnsSays, late \in BOOLEAN : Receive(q, says, late)
=============================================================================
