---------------------------- MODULE CloudClients ----------------------------
(***************************************************************************)
(* The clients for the cloud together: one thread of the application calls *)
(* the HTTP and the MQTT client in any order, and both use the DNS client, *)
(* the TLS transport and the sockets of the chip.  update_pool of          *)
(* examples/minerMaster/minerMaster.cpp is the call the miners make: it    *)
(* asks for the address of the server by http_get.                         *)
(***************************************************************************)
EXTENDS HttpClient, MqttClient

CONSTANT MaxCalls    \* bound: calls of http_get, http_post and mqtt_transport_connect

ASSUME CallsAssumption == MaxCalls \in Nat

VARIABLES calls,
          pool      \* g_tcp_client_target_ip: the host whose answer gave it

vars == <<sock, host, pc, call, ip, dnsVars, tls, httpVars, mqttVars, calls, pool>>

Init == /\ SockInit /\ DnsInit /\ TlsInit /\ HttpInit /\ MqttInit
        /\ pc = "rest" /\ call = NoCall
        /\ calls = 0 /\ pool = Unset

\* update_pool, after http_get: what that returned is not looked at, but
\* JSON_Validate refuses a body that is NULL, or is no JSON.
UpdatePool ==
  /\ pc = "rest" /\ given.body # NoBody
  /\ pool' \in {pool, given.body.from}
  /\ given' = Nothing
  /\ UNCHANGED <<sock, host, pc, call, ip, dnsVars, tls, http_state, ssl_flag, http_tls, body, mqttVars, calls>>

\* A call that goes over the network, one that does not, and the steps of a call.
Application ==
  \/ /\ calls < MaxCalls /\ calls' = calls + 1
     /\ \/ HttpCalls /\ UNCHANGED mqttVars
        \/ \E ssl, literal \in BOOLEAN, name \in Hosts :
             ConnectCall(ssl, literal, name) /\ UNCHANGED httpVars
     /\ UNCHANGED pool
  \/ UpdatePool
  \/ /\ Setup \/ Hangup \/ Yield \/ \E qos \in 0..2, sent \in BOOLEAN : Subscribe(qos, sent)
     /\ UNCHANGED <<httpVars, calls, pool>>
  \/ /\ \E c \in Client : Deinit(c) \/ Disconnect(c) \/ SessionReset(c)
     /\ UNCHANGED <<httpVars, mqttVars, calls, pool>>

Running ==
  \/ DnsStep  /\ UNCHANGED <<tls, httpVars, mqttVars, calls, pool>>
  \/ HttpStep /\ UNCHANGED <<mqttVars, calls, pool>>
  \/ MqttStep /\ UNCHANGED <<httpVars, calls, pool>>

\* The servers may close their side at any time, and answers may be lost.
Peer == \/ /\ \E c \in Client : PeerCloses(SocketOf[c])
           /\ UNCHANGED <<pc, call, ip, dnsVars, tls, httpVars, mqttVars, calls, pool>>
        \/ /\ \E q \in queries : Lose(q)
           /\ UNCHANGED <<tls, httpVars, mqttVars, calls, pool>>

Next == Application \/ Running \/ Peer

Spec == Init /\ [][Next]_vars

\* The one thread goes on, and the timers it looks at run out.
LiveSpec == Spec /\ WF_vars(Running)

-----------------------------------------------------------------------------
(* Properties *)

\* However a call ends, the HTTP client can be called again: idle, its socket
\* closed, no pointer to a context (http_get, http_post and http_close).
HttpCanBeCalled == pc = "rest" => /\ http_state = "IDLE"
                                  /\ sock[SocketOf["http"]] = "closed"
                                  /\ ~http_tls

\* No connection is made to the answer to another question: late answers of the
\* DNS server are not taken.  (Not so for MQTT when the name in the answer was too
\* long for the DNS client, which then keeps the address it had.)
RightHost == \A c \in Client :
  LET asked == IF c = "http" THEN call.host ELSE broker
      wrong == c = "mqtt" /\ call.unread IN
  pc = "request" /\ call.client = c /\ ~wrong => host[SocketOf[c]] = asked

\* A caller that looks at the body alone, as update_pool does, is not misled: when
\* http_get left one, it has succeeded, the body is of the host this call asked and
\* as long as that host announced, whatever calls went before, and although a
\* response that did not fit may be called a success on the strength of an error
\* counted as bytes (http_get, http_send_request).
BodyIsAnswer == given.body # NoBody =>
  /\ given.ok
  /\ given.body.from = given.asked
  /\ given.body.len = given.body.announced

\* At rest, an MQTT context that sends over TLS has an open session on an
\* established socket, or the socket refuses it: nothing goes out in the clear
\* or over the session of an older connection (mqtt_transport_connect).
SendsOverSession ==
  pc = "rest" /\ transport = "tls" /\ Established(MqttSocket) => tls["mqtt"].session = "open"

\* At rest, a context of HTTP holds memory only if its call failed before the
\* handshake was over, when http_close has no pointer to it; a call that got that
\* far has freed everything, whatever came after (http_close).
HeldOnlyAfterFailure ==
  pc = "rest" /\ tls["http"].holds # {} => tls["http"].session \in {"none", "ready"}

\* Every call comes back to the application, whatever the network does, unless the
\* processor stopped (the loops over DNS_run_handler, mbedtls_ssl_handshake and
\* recv, and their time-outs).
CallReturns == pc # "rest" ~> pc \in {"rest", "fault"}
=============================================================================
