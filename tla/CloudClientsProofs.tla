-------------------------- MODULE CloudClientsProofs --------------------------
(***************************************************************************)
(* The safety of the cloud clients, for any hosts, sizes of buffers and    *)
(* bodies, choice of certificates and number of calls: whatever fails in a *)
(* call, and whatever the network still delivers of an earlier one.        *)
(***************************************************************************)
EXTENDS CloudClients, TLAPS

Names    == Hosts \cup {Unset}
Parts    == {"cacert", "hostname", "clicert", "pkey", "own cert", "session"}
Sessions == {"none", "ready", "open", "over"}
Calls    == [client : {"none"} \cup Client, op : {"none", "get", "post", "connect", "close"},
             https : BOOLEAN, given : BOOLEAN, host : Names, ret : {"ok", "error"},
             unread : BOOLEAN, total : Nat, length : Nat]
Bodies   == [from : Names, len : Nat, announced : Nat]
Contexts == [holds : SUBSET Parts, session : Sessions]

SockOK == /\ sock \in [Sockets -> {"closed", "udp", "init", "established", "peer closed"}]
          /\ host \in [Sockets -> Names]
CallOK == /\ pc \in {"rest", "resolve", "dns", "connect", "handshake", "request", "more",
                    "close", "fault"}
          /\ call \in Calls
          /\ ip \in [Client -> Names]
DnsOK  == /\ dns_state \in {"STOP", "INIT", "SEND_QUERY", "RECV_RESPONSE", "DONE"}
          /\ port \in Nat /\ queries \subseteq [from : Nat, name : Names]
TlsOK  == tls \in [Client -> Contexts]
HttpOK == /\ http_state \in {"IDLE", "RUNNING"} /\ ssl_flag \in BOOLEAN /\ http_tls \in BOOLEAN
          /\ body \in Bodies /\ given \in [asked : Names, ok : BOOLEAN, body : Bodies]
MqttOK == /\ mqtt_up \in BOOLEAN /\ transport \in {"none", "plain", "tls"}
          /\ mqtt_tls \in BOOLEAN /\ mqtt_ssl \in BOOLEAN /\ subs \in Nat /\ broker \in Names
TypeOK == SockOK /\ CallOK /\ DnsOK /\ TlsOK /\ HttpOK /\ MqttOK /\ calls \in Nat /\ pool \in Names

\* Where the thread is, and what the call it is in has kept of its arguments.
PlaceInv ==
  /\ pc = "rest" <=> call.client = "none"
  /\ pc = "more" => call.client = "http"
  /\ pc = "handshake" => call.https
  /\ call.client = "http" => ssl_flag = call.https
  /\ call.client = "mqtt" /\ pc \notin {"close", "fault"} => broker = call.host

\* An answer for the local port of now answers the question of now.
QuestionInv ==
  /\ \A q \in queries : q.from <= port
  /\ pc = "dns" => dns_state \in {"INIT", "SEND_QUERY", "RECV_RESPONSE"}
  /\ pc = "dns" /\ dns_state = "SEND_QUERY" => \A q \in queries : q.from < port
  /\ pc = "dns" /\ dns_state = "RECV_RESPONSE" =>
       \A q \in queries : q.from = port => q.name = call.host

\* The address a call connects to, and the host it is then connected to.
AddressInv ==
  /\ call.client = "http" => ip["http"] \in {Unset, call.host}
  /\ pc = "connect" /\ call.client = "mqtt" => call.unread \/ ip["mqtt"] = call.host
  /\ pc \in {"handshake", "request"} =>
       host[SocketOf[call.client]] = call.host \/ (call.client = "mqtt" /\ call.unread)

\* What HTTP leaves behind, and the pointer to its context while a call runs.
HttpInv ==
  /\ call.client # "http" => /\ http_state = "IDLE" /\ ~http_tls
                             /\ sock[SocketOf["http"]] = "closed"
  /\ http_tls => call.https
  /\ pc \in {"request", "more"} /\ call.client = "http" => http_tls = call.https
  /\ ~http_tls /\ tls["http"].holds # {} => tls["http"].session \in {"none", "ready"}

\* What g_http_config holds of a body, and what the caller was left.
Unanswered == {"resolve", "dns", "connect", "handshake", "request", "more"}
BodyInv ==
  /\ call.client = "http" /\ pc \in Unanswered => body = NoBody
  /\ BodyIsAnswer

\* The session behind an MQTT context that sends over TLS.
MqttInv ==
  /\ call.client # "mqtt" /\ transport = "tls" /\ Established(MqttSocket) => tls["mqtt"].session = "open"
  /\ pc = "request" /\ call.client = "mqtt" /\ call.https => tls["mqtt"].session = "open"

IInv == TypeOK /\ PlaceInv /\ QuestionInv /\ AddressInv /\ HttpInv /\ BodyInv /\ MqttInv

-----------------------------------------------------------------------------
(* What the operators of the clients do *)

\* The sockets of the clients and of DNS are three.
LEMMA SocketFacts ==
  /\ Client = {"http", "mqtt"} /\ DnsSocket \in Sockets
  /\ \A c \in Client : SocketOf[c] \in Sockets /\ SocketOf[c] # DnsSocket
  /\ SocketOf["http"] # SocketOf["mqtt"]
BY SocketsAssumption DEF Client, Sockets

\* The bounds are numbers, and a word has room.
LEMMA SizeFacts == BufMax \in Nat /\ MaxBody \in Nat /\ Word \in Nat /\ Word > 0
BY HttpAssumption

\* No call is of no client.
LEMMA NoCallFacts == NoCall \in Calls /\ NoCall.client = "none"
BY DEF NoCall, Calls, Names

\* Only the session of one context changes.
LEMMA SessionFacts ==
  ASSUME TlsOK, NEW c \in Client, NEW x \in Sessions, tls' = [tls EXCEPT ![c].session = x]
  PROVE  /\ TlsOK'
         /\ tls'[c].holds = tls[c].holds /\ tls'[c].session = x
         /\ \A d \in Client : d # c => tls'[d] = tls[d]
BY DEF TlsOK, Contexts

\* A context that is freed holds nothing.
LEMMA FreedFacts ==
  ASSUME TlsOK, NEW c \in Client, Freed(c)
  PROVE  /\ TlsOK'
         /\ tls'[c].holds = {}
         /\ \A d \in Client : d # c => tls'[d] = tls[d]
<1>1. Blank \in Contexts /\ Blank.holds = {}
  BY DEF Blank, Contexts, Sessions
<1> QED
  BY <1>1 DEF TlsOK, Freed

\* Tuples of members are sequences.
LEMMA TupleFacts ==
  ASSUME NEW P, NEW u \in P, NEW v \in P, NEW w \in P
  PROVE  <<u>> \in Seq(P) /\ <<u, v>> \in Seq(P) /\ <<u, v, w>> \in Seq(P)
OBVIOUS

\* What a context is made of.
LEMMA AllocationFacts == \A c \in Client : Allocations(c) \in Seq(Parts)
<1>1. /\ "cacert" \in Parts /\ "hostname" \in Parts /\ "clicert" \in Parts
      /\ "pkey" \in Parts /\ "own cert" \in Parts /\ "session" \in Parts
  BY DEF Parts
<1>2. /\ <<"cacert", "hostname">> \in Seq(Parts) /\ <<"session">> \in Seq(Parts)
      /\ <<"clicert", "pkey", "own cert">> \in Seq(Parts)
  BY <1>1, TupleFacts, Zenon
<1>3. ASSUME NEW a \in Seq(Parts), NEW b \in Seq(Parts), NEW s \in Seq(Parts)
      PROVE  <<>> \in Seq(Parts) /\ (a \o b) \o s \in Seq(Parts)
  OBVIOUS
<1> QED
  BY <1>2, <1>3, Zenon DEF Allocations

\* ssl_transport_init leaves a context without an open session.
LEMMA InitFacts ==
  ASSUME TlsOK, NEW c \in Client, NEW n, TransportInit(c, n)
  PROVE  /\ TlsOK' /\ tls'[c].session \in {"none", "ready"}
         /\ \A d \in Client : d # c => tls'[d] = tls[d]
<1> DEFINE new == [holds   |-> ToSet(SubSeq(Allocations(c), 1, n)),
                   session |-> IF n = Len(Allocations(c)) THEN "ready" ELSE "none"]
<1>1. Allocations(c) \in Seq(Parts) /\ n \in 0..Len(Allocations(c))
  BY AllocationFacts DEF TransportInit
<1>2. SubSeq(Allocations(c), 1, n) \in Seq(Parts)
  BY <1>1
<1>3. ToSet(SubSeq(Allocations(c), 1, n)) \subseteq Parts
  BY <1>2 DEF ToSet
<1>4. new \in Contexts /\ new.session \in {"none", "ready"}
  BY <1>3 DEF Contexts, Sessions
<1>5. tls' = [tls EXCEPT ![c] = new]
  BY DEF TransportInit
<1> QED
  BY <1>4, <1>5 DEF TlsOK

\* The TLS transport's steps in a call of either client
TlsOfCall ==
  /\ call.client \in Client
  /\ http_tls' = (http_tls \/ (call.client = "http" /\ pc' = "request"))
  /\ mqtt_tls' \in BOOLEAN
  /\ UNCHANGED <<http_state, ssl_flag, body, given, mqtt_up, transport, mqtt_ssl, subs, broker, calls, pool>>

\* Variables that keep their values keep their types.
LEMMA Untouched ==
  ASSUME TypeOK
  PROVE  /\ (sock' = sock /\ host' = host) => SockOK'
         /\ (pc' = pc /\ call' = call /\ ip' = ip) => CallOK'
         /\ (dns_state' = dns_state /\ port' = port /\ queries' = queries) => DnsOK'
         /\ (tls' = tls) => TlsOK'
         /\ (http_state' = http_state /\ ssl_flag' = ssl_flag /\ http_tls' = http_tls
             /\ body' = body /\ given' = given) => HttpOK'
         /\ (mqtt_up' = mqtt_up /\ transport' = transport /\ mqtt_tls' = mqtt_tls /\ mqtt_ssl' = mqtt_ssl
             /\ subs' = subs /\ broker' = broker) => MqttOK'
<1>1. (sock' = sock /\ host' = host) => SockOK'
  BY DEF TypeOK, SockOK
<1>2. (pc' = pc /\ call' = call /\ ip' = ip) => CallOK'
  BY DEF TypeOK, CallOK
<1>3. (dns_state' = dns_state /\ port' = port /\ queries' = queries) => DnsOK'
  BY DEF TypeOK, DnsOK
<1>4. (tls' = tls) => TlsOK'
  BY DEF TypeOK, TlsOK
<1>5. (http_state' = http_state /\ ssl_flag' = ssl_flag /\ http_tls' = http_tls
             /\ body' = body /\ given' = given) => HttpOK'
  BY DEF TypeOK, HttpOK
<1>6. (mqtt_up' = mqtt_up /\ transport' = transport /\ mqtt_tls' = mqtt_tls /\ mqtt_ssl' = mqtt_ssl
       /\ subs' = subs /\ broker' = broker) => MqttOK'
  BY DEF TypeOK, MqttOK
<1> QED
  BY <1>1, <1>2, <1>3, <1>4, <1>5, <1>6

\* A step that leaves the body alone, outside http_send_request or before its end.
LEMMA BodyStays ==
  ASSUME BodyInv, body' = body, given' = given,
         call'.client = "http" /\ pc' \in Unanswered => call.client = "http" /\ pc \in Unanswered
  PROVE  BodyInv'
BY DEF BodyInv, BodyIsAnswer

\* At the end of http_send_request, when what it leaves is NULL or a body of the host
\* that was asked.
LEMMA HandOnFacts ==
  ASSUME HttpOK, CallOK, BodyIsAnswer, NEW b \in Bodies, NEW ok \in BOOLEAN, HandOn(b, ok),
         b # NoBody => ok /\ b.from = call.host /\ b.len = b.announced
  PROVE  HttpOK' /\ BodyIsAnswer'
<1>1. call.host \in Names
  BY DEF CallOK, Calls
<1>2. CASE call.op = "get"
  <2>1. given' = [asked |-> call.host, ok |-> ok, body |-> b] /\ body' = b
    BY <1>2 DEF HandOn
  <2> QED
    BY <1>1, <2>1 DEF HttpOK, HandOn, BodyIsAnswer
<1>3. CASE call.op # "get"
  BY <1>3 DEF HttpOK, HandOn, BodyIsAnswer
<1> QED
  BY <1>2, <1>3

-----------------------------------------------------------------------------
(* Each step keeps the invariant *)

\* The answer goes into the pool or is refused, and is not kept.
LEMMA UpdatePoolKeeps ==
  ASSUME IInv, UpdatePool
  PROVE  IInv'
<1>1. SockOK' /\ CallOK' /\ DnsOK' /\ TlsOK' /\ MqttOK' /\ calls' \in Nat /\ pool' \in Names
  <2>1. given.body.from \in Names
    BY DEF IInv, TypeOK, HttpOK, Bodies
  <2> QED
    BY <2>1, Untouched DEF IInv, TypeOK, UpdatePool, dnsVars, mqttVars
<1>2. HttpOK'
  BY DEF IInv, TypeOK, HttpOK, UpdatePool, Bodies, Nothing, NoBody, Names
<1>3. PlaceInv'
  BY DEF IInv, PlaceInv, UpdatePool
<1>4. QuestionInv'
  BY DEF IInv, QuestionInv, UpdatePool, dnsVars
<1>5. AddressInv'
  BY DEF IInv, AddressInv, UpdatePool
<1>6. HttpInv'
  BY DEF IInv, HttpInv, UpdatePool
<1>7. MqttInv'
  BY DEF IInv, MqttInv, Established, UpdatePool, mqttVars
<1>8. BodyInv'
  BY DEF IInv, BodyInv, BodyIsAnswer, UpdatePool, Nothing
<1> QED
  BY <1>1, <1>2, <1>3, <1>4, <1>5, <1>6, <1>7, <1>8 DEF IInv, TypeOK

\* http_get and http_post, up to the lookup.
LEMMA BeginKeeps ==
  ASSUME IInv, NEW op \in {"get", "post"}, NEW scheme \in {"http", "https", "other"},
         NEW readable \in BOOLEAN, NEW literal \in BOOLEAN, NEW context \in BOOLEAN, NEW name \in Hosts,
         Begin(op, scheme, readable, literal, context, name), UNCHANGED <<mqttVars, pool>>, calls' \in Nat
  PROVE  IInv'
<1>1. SockOK' /\ DnsOK' /\ TlsOK' /\ MqttOK' /\ calls' \in Nat /\ pool' \in Names
  BY Untouched DEF IInv, TypeOK, Begin, Names, mqttVars, dnsVars
<1>2. CallOK'
  <2>1. /\ scheme \in {"http", "https", "other"} /\ (scheme = "https") \in BOOLEAN
        /\ "http" \in Client /\ name \in Names
    BY SocketFacts DEF Names
  <2>2. call' \in Calls
    BY <2>1 DEF Begin, Call, Calls, NoCall
  <2>3. pc' \in {"resolve", "connect", "close"} /\ ip' \in [Client -> Names]
    BY <2>1 DEF IInv, TypeOK, CallOK, Begin, Where, Names
  <2> QED
    BY <2>2, <2>3 DEF CallOK
<1>3. HttpOK'
  BY DEF IInv, TypeOK, HttpOK, Begin, Bodies, Nothing, NoBody, Names
<1>4. PlaceInv'
  BY DEF IInv, PlaceInv, Begin, Where, Call
<1>5. QuestionInv'
  BY DEF IInv, QuestionInv, Begin, Where, dnsVars
<1>6. AddressInv'
  BY SocketFacts DEF IInv, TypeOK, CallOK, AddressInv, Begin, Where, Call
<1>7. HttpInv'
  BY DEF IInv, PlaceInv, HttpInv, Begin, Where, Call
<1>8. MqttInv'
  BY DEF IInv, PlaceInv, MqttInv, Established, Begin, Call, mqttVars
<1>9. BodyInv'
  BY DEF BodyInv, BodyIsAnswer, Begin, Nothing
<1> QED
  BY <1>1, <1>2, <1>3, <1>4, <1>5, <1>6, <1>7, <1>8, <1>9 DEF IInv, TypeOK

\* mqtt_transport_connect, up to the lookup.
LEMMA ConnectCallKeeps ==
  ASSUME IInv, NEW ssl \in BOOLEAN, NEW literal \in BOOLEAN, NEW name \in Hosts,
         ConnectCall(ssl, literal, name), UNCHANGED <<httpVars, pool>>, calls' \in Nat
  PROVE  IInv'
<1>1. SockOK' /\ DnsOK' /\ TlsOK' /\ HttpOK' /\ calls' \in Nat /\ pool' \in Names
  BY Untouched DEF IInv, TypeOK, ConnectCall, Names, httpVars, dnsVars
<1>2. CallOK'
  BY SocketFacts DEF IInv, PlaceInv, TypeOK, CallOK, Calls, ConnectCall, Call, NoCall, Names
<1>3. MqttOK'
  BY DEF IInv, TypeOK, MqttOK, ConnectCall, Names
<1>4. PlaceInv'
  BY DEF IInv, PlaceInv, ConnectCall, Call
<1>5. QuestionInv'
  BY DEF IInv, QuestionInv, ConnectCall, dnsVars
<1>6. AddressInv'
  BY SocketFacts DEF IInv, TypeOK, CallOK, AddressInv, ConnectCall, Call
<1>7. HttpInv'
  BY DEF IInv, PlaceInv, HttpInv, ConnectCall, httpVars
<1>8. MqttInv'
  BY DEF IInv, MqttInv, ConnectCall, Call
<1>9. BodyInv'
  BY BodyStays DEF IInv, TypeOK, CallOK, Calls, PlaceInv, Unanswered, ConnectCall, Go, Fail, Return, Call, NoCall, httpVars
<1> QED
  BY <1>1, <1>2, <1>3, <1>4, <1>5, <1>6, <1>7, <1>8, <1>9 DEF IInv, TypeOK

\* mqtt_transport_init: nothing sends with the MQTT context any more.
LEMMA SetupKeeps ==
  ASSUME IInv, Setup, UNCHANGED <<httpVars, calls, pool>>
  PROVE  IInv'
<1>1. SockOK' /\ DnsOK' /\ TlsOK' /\ HttpOK' /\ calls' \in Nat /\ pool' \in Names
  BY Untouched DEF IInv, TypeOK, Setup, dnsVars, httpVars
<1>2. CallOK'
  BY DEF IInv, TypeOK, CallOK, Setup, Names
<1>3. MqttOK'
  BY DEF IInv, TypeOK, MqttOK, Setup
<1>4. PlaceInv'
  BY DEF IInv, PlaceInv, Setup
<1>5. QuestionInv'
  BY DEF IInv, QuestionInv, Setup, dnsVars
<1>6. AddressInv'
  BY DEF IInv, AddressInv, Setup
<1>7. HttpInv'
  BY DEF IInv, HttpInv, Setup, httpVars
<1>8. MqttInv'
  BY DEF IInv, MqttInv, Setup
<1>9. BodyInv'
  BY BodyStays DEF IInv, TypeOK, CallOK, Calls, PlaceInv, Unanswered, Setup, Go, Fail, Return, Call, NoCall, httpVars
<1> QED
  BY <1>1, <1>2, <1>3, <1>4, <1>5, <1>6, <1>7, <1>8, <1>9 DEF IInv, TypeOK

\* The application calls mqtt_transport_close.
LEMMA HangupKeeps ==
  ASSUME IInv, Hangup, UNCHANGED <<httpVars, calls, pool>>
  PROVE  IInv'
<1>1. SockOK' /\ DnsOK' /\ TlsOK' /\ HttpOK' /\ MqttOK' /\ calls' \in Nat /\ pool' \in Names
  BY Untouched DEF IInv, TypeOK, Hangup, Names, dnsVars, httpVars, mqttVars
<1>2. CallOK'
  BY SocketFacts DEF IInv, TypeOK, CallOK, Calls, Hangup, Call, NoCall, Names, mqttVars
<1>3. PlaceInv'
  BY DEF IInv, PlaceInv, Hangup, Call
<1>4. QuestionInv'
  BY DEF IInv, QuestionInv, Hangup, dnsVars
<1>5. AddressInv'
  BY DEF IInv, AddressInv, Hangup, Call
<1>6. HttpInv'
  BY DEF IInv, PlaceInv, HttpInv, Hangup, httpVars
<1>7. MqttInv'
  BY DEF IInv, MqttInv, Hangup, Call
<1>8. BodyInv'
  BY BodyStays DEF IInv, TypeOK, CallOK, Calls, PlaceInv, Unanswered, Hangup, Go, Fail, Return, Call, NoCall, httpVars
<1> QED
  BY <1>1, <1>2, <1>3, <1>4, <1>5, <1>6, <1>7, <1>8 DEF IInv, TypeOK

\* A subscription, the one behind the last slot too.
LEMMA SubscribeKeeps ==
  ASSUME IInv, NEW qos \in 0..2, NEW sent \in BOOLEAN,
         Subscribe(qos, sent), UNCHANGED <<httpVars, calls, pool>>
  PROVE  IInv'
<1>1. SockOK' /\ DnsOK' /\ TlsOK' /\ HttpOK' /\ calls' \in Nat /\ pool' \in Names
  BY Untouched DEF IInv, TypeOK, Subscribe, dnsVars, httpVars
<1>2. CallOK'
  BY DEF IInv, TypeOK, CallOK, Subscribe, Names
<1>3. MqttOK'
  BY DEF IInv, TypeOK, MqttOK, Subscribe
<1>4. PlaceInv'
  BY DEF IInv, PlaceInv, Subscribe
<1>5. QuestionInv'
  BY DEF IInv, QuestionInv, Subscribe, dnsVars
<1>6. AddressInv'
  BY DEF IInv, AddressInv, Subscribe
<1>7. HttpInv'
  BY DEF IInv, HttpInv, Subscribe, httpVars
<1>8. MqttInv'
  BY DEF IInv, MqttInv, Established, Subscribe
<1>9. BodyInv'
  BY BodyStays DEF IInv, TypeOK, CallOK, Calls, PlaceInv, Unanswered, Subscribe, Go, Fail, Return, Call, NoCall, httpVars
<1> QED
  BY <1>1, <1>2, <1>3, <1>4, <1>5, <1>6, <1>7, <1>8, <1>9 DEF IInv, TypeOK

\* A context that is freed holds nothing.
LEMMA DeinitKeeps ==
  ASSUME IInv, NEW c \in Client, Deinit(c), UNCHANGED <<httpVars, mqttVars, calls, pool>>
  PROVE  IInv'
<1>1. SockOK' /\ CallOK' /\ DnsOK' /\ HttpOK' /\ MqttOK' /\ calls' \in Nat /\ pool' \in Names
  BY Untouched DEF IInv, TypeOK, Deinit, dnsVars, httpVars, mqttVars
<1>2. TlsOK'
  BY FreedFacts DEF IInv, TypeOK, Deinit
<1>3. PlaceInv'
  BY DEF IInv, PlaceInv, Deinit
<1>4. QuestionInv'
  BY DEF IInv, QuestionInv, Deinit, dnsVars
<1>5. AddressInv'
  BY DEF IInv, AddressInv, Deinit
<1>6. HttpInv'
  BY DEF IInv, HttpInv, Deinit, Freed, Blank, httpVars
<1>7. MqttInv'
  BY DEF IInv, MqttInv, Established, MqttSocket, Deinit, Freed, mqttVars
<1>8. BodyInv'
  BY BodyStays DEF IInv, TypeOK, CallOK, Calls, PlaceInv, Unanswered, Deinit, Go, Fail, Return, Call, NoCall, httpVars
<1> QED
  BY <1>1, <1>2, <1>3, <1>4, <1>5, <1>6, <1>7, <1>8 DEF IInv, TypeOK

\* A socket that is closed carries nothing.
LEMMA DisconnectKeeps ==
  ASSUME IInv, NEW c \in Client, Disconnect(c), UNCHANGED <<httpVars, mqttVars, calls, pool>>
  PROVE  IInv'
<1>1. CallOK' /\ DnsOK' /\ TlsOK' /\ HttpOK' /\ MqttOK' /\ calls' \in Nat /\ pool' \in Names
  BY Untouched DEF IInv, TypeOK, Disconnect, dnsVars, httpVars, mqttVars
<1>2. SockOK'
  BY DEF IInv, TypeOK, SockOK, Disconnect, Close, Becomes, Names
<1>3. PlaceInv'
  BY DEF IInv, PlaceInv, Disconnect
<1>4. QuestionInv'
  BY DEF IInv, QuestionInv, Disconnect, dnsVars
<1>5. AddressInv'
  BY DEF IInv, AddressInv, Disconnect
<1>6. HttpInv'
  BY DEF IInv, HttpInv, Disconnect, Close, Becomes, httpVars
<1>7. MqttInv'
  BY DEF IInv, MqttInv, Established, MqttSocket, Disconnect, Close, Becomes, mqttVars
<1>8. BodyInv'
  BY BodyStays DEF IInv, TypeOK, CallOK, Calls, PlaceInv, Unanswered, Disconnect, Go, Fail, Return, Call, NoCall, httpVars
<1> QED
  BY <1>1, <1>2, <1>3, <1>4, <1>5, <1>6, <1>7, <1>8 DEF IInv, TypeOK

\* A session can be reset only when nothing is sent over it.
LEMMA SessionResetKeeps ==
  ASSUME IInv, NEW c \in Client, SessionReset(c), UNCHANGED <<httpVars, mqttVars, calls, pool>>
  PROVE  IInv'
<1>1. SockOK' /\ CallOK' /\ DnsOK' /\ HttpOK' /\ MqttOK' /\ calls' \in Nat /\ pool' \in Names
  BY Untouched DEF IInv, TypeOK, SessionReset, dnsVars, httpVars, mqttVars
<1>2. TlsOK'
  BY SessionFacts DEF IInv, TypeOK, SessionReset, Sessions
<1>3. PlaceInv'
  BY DEF IInv, PlaceInv, SessionReset
<1>4. QuestionInv'
  BY DEF IInv, QuestionInv, SessionReset, dnsVars
<1>5. AddressInv'
  BY DEF IInv, AddressInv, SessionReset
<1>6. HttpInv'
  <2>1. tls'["http"].holds # {} => tls'["http"].session \in {"none", "ready"}
    <3>1. tls["http"].holds # {} => tls["http"].session \in {"none", "ready"}
      BY DEF IInv, PlaceInv, HttpInv, SessionReset
    <3>2. CASE c = "http"
      BY <3>1, <3>2 DEF IInv, SessionReset
    <3>3. CASE c # "http"
      BY <3>1, <3>3 DEF IInv, SessionReset
    <3> QED
      BY <3>2, <3>3
  <2> QED
    BY <2>1 DEF IInv, HttpInv, SessionReset, httpVars
<1>7. MqttInv'
  BY DEF IInv, MqttInv, Established, MqttSocket, SessionReset, mqttVars
<1>8. BodyInv'
  BY BodyStays DEF IInv, TypeOK, CallOK, Calls, PlaceInv, Unanswered, SessionReset, Go, Fail, Return, Call, NoCall, httpVars
<1> QED
  BY <1>1, <1>2, <1>3, <1>4, <1>5, <1>6, <1>7, <1>8 DEF IInv, TypeOK

\* DNS_init_handler closes its own socket and no other.
LEMMA InitHandlerKeeps ==
  ASSUME IInv, InitHandler, UNCHANGED <<tls, httpVars, mqttVars, calls, pool>>
  PROVE  IInv'
<1>1. TlsOK' /\ HttpOK' /\ MqttOK' /\ calls' \in Nat /\ pool' \in Names
  BY Untouched DEF IInv, TypeOK, InitHandler, httpVars, mqttVars
<1>2. SockOK'
  BY DEF IInv, TypeOK, SockOK, InitHandler, Close, Becomes, Names
<1>3. CallOK'
  BY DEF IInv, TypeOK, CallOK, InitHandler, Go
<1>4. DnsOK'
  BY DEF IInv, TypeOK, DnsOK, InitHandler
<1>5. PlaceInv'
  BY DEF IInv, PlaceInv, InitHandler, Go, httpVars, mqttVars
<1>6. QuestionInv'
  BY DEF IInv, QuestionInv, InitHandler
<1>7. AddressInv'
  BY DEF IInv, AddressInv, InitHandler, Go
<1>8. HttpInv'
  BY DEF IInv, HttpInv, InitHandler, Close, Becomes, Go, httpVars
<1>9. MqttInv'
  BY DEF IInv, MqttInv, Established, MqttSocket, InitHandler, Close, Becomes, Go, mqttVars
<1>10. BodyInv'
  BY BodyStays DEF IInv, TypeOK, CallOK, Calls, PlaceInv, Unanswered, InitHandler, Go, Fail, Return, Call, NoCall, httpVars
<1> QED
  BY <1>1, <1>2, <1>3, <1>4, <1>5, <1>6, <1>7, <1>8, <1>9, <1>10 DEF IInv, TypeOK

\* The new local port is behind that of every question so far.
LEMMA OpenSocketKeeps ==
  ASSUME IInv, OpenSocket, UNCHANGED <<tls, httpVars, mqttVars, calls, pool>>
  PROVE  IInv'
<1>1. CallOK' /\ TlsOK' /\ HttpOK' /\ MqttOK' /\ calls' \in Nat /\ pool' \in Names
  BY Untouched DEF IInv, TypeOK, OpenSocket, httpVars, mqttVars
<1>2. SockOK'
  BY DEF IInv, TypeOK, SockOK, OpenSocket, OpenUdp, Becomes, Names
<1>3. DnsOK'
  BY DEF IInv, TypeOK, DnsOK, OpenSocket, NextPort
<1>4. PlaceInv'
  BY DEF IInv, PlaceInv, OpenSocket, httpVars, mqttVars
<1>5. QuestionInv'
  <2>1. port \in Nat /\ \A p \in queries : p.from \in Nat /\ p.from <= port
    BY DEF IInv, TypeOK, DnsOK, QuestionInv
  <2>2. port' = port + 1 /\ queries' = queries /\ dns_state' = "SEND_QUERY"
    BY DEF OpenSocket, NextPort
  <2>3. \A p \in queries' : p.from <= port' /\ p.from < port'
    BY <2>1, <2>2
  <2> QED
    BY <2>2, <2>3 DEF QuestionInv
<1>6. AddressInv'
  BY DEF IInv, AddressInv, OpenSocket
<1>7. HttpInv'
  BY SocketFacts DEF IInv, HttpInv, OpenSocket, OpenUdp, Becomes, httpVars
<1>8. MqttInv'
  BY DEF IInv, MqttInv, Established, MqttSocket, OpenSocket, OpenUdp, Becomes, mqttVars
<1>9. BodyInv'
  BY BodyStays DEF IInv, TypeOK, CallOK, Calls, PlaceInv, Unanswered, OpenSocket, Go, Fail, Return, Call, NoCall, httpVars
<1> QED
  BY <1>1, <1>2, <1>3, <1>4, <1>5, <1>6, <1>7, <1>8, <1>9 DEF IInv, TypeOK

\* The question of this port is the one of this call.
LEMMA SendQueryKeeps ==
  ASSUME IInv, SendQuery, UNCHANGED <<tls, httpVars, mqttVars, calls, pool>>
  PROVE  IInv'
<1>1. SockOK' /\ CallOK' /\ TlsOK' /\ HttpOK' /\ MqttOK' /\ calls' \in Nat /\ pool' \in Names
  BY Untouched DEF IInv, TypeOK, SendQuery, httpVars, mqttVars
<1>2. DnsOK'
  BY DEF IInv, TypeOK, DnsOK, CallOK, Calls, SendQuery
<1>3. PlaceInv'
  BY DEF IInv, PlaceInv, SendQuery, httpVars, mqttVars
<1>4. QuestionInv'
  <2>1. \A p \in queries' : p \in queries \/ (p.from = port /\ p.name = call.host)
    BY DEF SendQuery
  <2>2. port \in Nat /\ \A p \in queries : p.from \in Nat /\ p.from < port
    BY DEF IInv, TypeOK, DnsOK, QuestionInv, SendQuery
  <2>3. \A p \in queries' : p.from <= port /\ (p.from = port => p.name = call.host)
    BY <2>1, <2>2
  <2> QED
    BY <2>3 DEF QuestionInv, SendQuery
<1>5. AddressInv'
  BY DEF IInv, AddressInv, SendQuery
<1>6. HttpInv'
  BY DEF IInv, HttpInv, SendQuery, httpVars
<1>7. MqttInv'
  BY DEF IInv, MqttInv, Established, SendQuery, mqttVars
<1>8. BodyInv'
  BY BodyStays DEF IInv, TypeOK, CallOK, Calls, PlaceInv, Unanswered, SendQuery, Go, Fail, Return, Call, NoCall, httpVars
<1> QED
  BY <1>1, <1>2, <1>3, <1>4, <1>5, <1>6, <1>7, <1>8 DEF IInv, TypeOK

\* An answer is taken for this port only, hence for the host of the call.
LEMMA ReceiveKeeps ==
  ASSUME IInv, NEW q \in queries, NEW says \in DnsSays, NEW late \in BOOLEAN,
         Receive(q, says, late), UNCHANGED <<tls, httpVars, mqttVars, calls, pool>>
  PROVE  IInv'
<1>1. SockOK' /\ TlsOK' /\ HttpOK' /\ MqttOK' /\ calls' \in Nat /\ pool' \in Names
  BY Untouched DEF IInv, TypeOK, Receive, httpVars, mqttVars
<1>2. CallOK'
  <2>1. q.name \in Names
    BY DEF IInv, TypeOK, DnsOK
  <2>2. ip' \in [Client -> Names]
    BY <2>1 DEF IInv, TypeOK, CallOK, Receive
  <2>3. call' \in Calls
    BY DEF IInv, TypeOK, CallOK, Calls, Receive, Fail
  <2> QED
    BY <2>2, <2>3 DEF CallOK, Receive, Fail
<1>3. DnsOK'
  BY DEF IInv, TypeOK, DnsOK, Receive
<1>4. PlaceInv'
  <2>1. /\ call'.client = call.client /\ call'.https = call.https /\ call'.host = call.host
        /\ pc' \in {"connect", "close"}
    BY DEF IInv, TypeOK, CallOK, Calls, Receive, Fail
  <2> QED
    BY <2>1 DEF IInv, PlaceInv, Receive, httpVars, mqttVars
<1>5. QuestionInv'
  BY DEF IInv, QuestionInv, Receive, Fail
<1>6. AddressInv'
  <2>1. /\ q.name = call.host /\ ip \in [Client -> Names] /\ call \in Calls
    BY DEF IInv, TypeOK, CallOK, QuestionInv, Receive
  <2>2. /\ call'.client = call.client /\ call'.host = call.host
        /\ call'.unread = call.unread \/ call'.unread = (says = "name too long")
    BY <2>1 DEF Calls, Receive, Fail
  <2>3. call.client = "http" => ip'["http"] \in {Unset, call.host}
    BY <2>1 DEF IInv, AddressInv, Receive
  <2>4. pc' = "connect" /\ call.client = "mqtt" => call'.unread \/ ip'["mqtt"] = call.host
    BY <2>1, SocketFacts, DnsAssumption DEF Calls, Receive, Fail
  <2> QED
    BY <2>2, <2>3, <2>4 DEF AddressInv, Receive, Fail
<1>7. HttpInv'
  <2>1. /\ call'.client = call.client /\ call'.https = call.https /\ call'.host = call.host
        /\ pc' \in {"connect", "close"}
    BY DEF IInv, TypeOK, CallOK, Calls, Receive, Fail
  <2> QED
    BY <2>1 DEF IInv, HttpInv, Receive, httpVars
<1>8. MqttInv'
  BY DEF IInv, TypeOK, CallOK, Calls, MqttInv, Established, Receive, Fail, mqttVars
<1>9. BodyInv'
  BY BodyStays DEF IInv, TypeOK, CallOK, Calls, PlaceInv, Unanswered, Receive, Go, Fail, Return, Call, NoCall, httpVars
<1> QED
  BY <1>1, <1>2, <1>3, <1>4, <1>5, <1>6, <1>7, <1>8, <1>9 DEF IInv, TypeOK

\* No answer came: the call fails.
LEMMA ExpireKeeps ==
  ASSUME IInv, Expire, UNCHANGED <<tls, httpVars, mqttVars, calls, pool>>
  PROVE  IInv'
<1>1. SockOK' /\ TlsOK' /\ HttpOK' /\ MqttOK' /\ calls' \in Nat /\ pool' \in Names
  BY Untouched DEF IInv, TypeOK, Expire, httpVars, mqttVars
<1>2. CallOK'
  BY DEF IInv, TypeOK, CallOK, Calls, Expire, Fail
<1>3. DnsOK'
  BY DEF IInv, TypeOK, DnsOK, Expire
<1>4. PlaceInv'
  BY DEF IInv, PlaceInv, Expire, Fail, httpVars
<1>5. QuestionInv'
  BY DEF IInv, QuestionInv, Expire, Fail
<1>6. AddressInv'
  BY DEF IInv, AddressInv, Expire, Fail
<1>7. HttpInv'
  BY DEF IInv, HttpInv, Expire, Fail, httpVars
<1>8. MqttInv'
  BY DEF IInv, MqttInv, Established, Expire, Fail, mqttVars
<1>9. BodyInv'
  BY BodyStays DEF IInv, TypeOK, CallOK, Calls, PlaceInv, Unanswered, Expire, Go, Fail, Return, Call, NoCall, httpVars
<1> QED
  BY <1>1, <1>2, <1>3, <1>4, <1>5, <1>6, <1>7, <1>8, <1>9 DEF IInv, TypeOK

\* A question or an answer is lost.
LEMMA LoseKeeps ==
  ASSUME IInv, NEW q \in queries, Lose(q), UNCHANGED <<tls, httpVars, mqttVars, calls, pool>>
  PROVE  IInv'
<1>1. SockOK' /\ CallOK' /\ TlsOK' /\ HttpOK' /\ MqttOK' /\ calls' \in Nat /\ pool' \in Names
  BY Untouched DEF IInv, TypeOK, Lose, httpVars, mqttVars
<1>2. DnsOK'
  BY DEF IInv, TypeOK, DnsOK, Lose
<1>3. PlaceInv'
  BY DEF IInv, PlaceInv, Lose, httpVars, mqttVars
<1>4. QuestionInv'
  BY DEF IInv, QuestionInv, Lose
<1>5. AddressInv'
  BY DEF IInv, AddressInv, Lose
<1>6. HttpInv'
  BY DEF IInv, HttpInv, Lose, httpVars
<1>7. MqttInv'
  BY DEF IInv, MqttInv, Established, Lose, mqttVars
<1>8. BodyInv'
  BY BodyStays DEF IInv, TypeOK, CallOK, Calls, PlaceInv, Unanswered, Lose, Go, Fail, Return, Call, NoCall, httpVars
<1> QED
  BY <1>1, <1>2, <1>3, <1>4, <1>5, <1>6, <1>7, <1>8 DEF IInv, TypeOK

\* A peer closes its side: that socket is established no longer.
LEMMA PeerClosesKeeps ==
  ASSUME IInv, NEW c \in Client, PeerCloses(SocketOf[c]),
         UNCHANGED <<pc, call, ip, dnsVars, tls, httpVars, mqttVars, calls, pool>>
  PROVE  IInv'
<1>1. CallOK' /\ DnsOK' /\ TlsOK' /\ HttpOK' /\ MqttOK' /\ calls' \in Nat /\ pool' \in Names
  BY Untouched DEF IInv, TypeOK, PeerCloses, dnsVars, httpVars, mqttVars
<1>2. SockOK'
  BY DEF IInv, TypeOK, SockOK, PeerCloses
<1>3. PlaceInv'
  BY DEF IInv, PlaceInv, PeerCloses, httpVars, mqttVars
<1>4. QuestionInv'
  BY DEF IInv, QuestionInv, PeerCloses, dnsVars
<1>5. AddressInv'
  BY DEF IInv, AddressInv, PeerCloses
<1>6. HttpInv'
  BY SocketFacts DEF IInv, TypeOK, SockOK, HttpInv, PeerCloses, httpVars
<1>7. MqttInv'
  BY SocketFacts DEF IInv, TypeOK, SockOK, MqttInv, Established, MqttSocket, PeerCloses, mqttVars
<1>8. BodyInv'
  BY BodyStays DEF IInv, TypeOK, CallOK, Calls, PlaceInv, Unanswered, PeerCloses, Go, Fail, Return, Call, NoCall, httpVars
<1> QED
  BY <1>1, <1>2, <1>3, <1>4, <1>5, <1>6, <1>7, <1>8 DEF IInv, TypeOK

\* HTTP without TLS connects to the address it has, or closes the socket.
LEMMA HttpConnectKeeps ==
  ASSUME IInv, HttpConnect, UNCHANGED <<mqttVars, calls, pool>>
  PROVE  IInv'
<1>1. DnsOK' /\ TlsOK' /\ HttpOK' /\ MqttOK' /\ calls' \in Nat /\ pool' \in Names
  BY Untouched DEF IInv, TypeOK, HttpConnect, dnsVars, httpVars, mqttVars
<1>2. SockOK'
  BY SocketFacts DEF IInv, TypeOK, SockOK, CallOK, HttpConnect, Connects, ConnectFails, Close, Becomes,
     Names
<1>3. CallOK'
  BY DEF IInv, TypeOK, CallOK, Calls, HttpConnect, Go, Fail
<1>4. PlaceInv'
  BY DEF IInv, TypeOK, CallOK, Calls, PlaceInv, HttpConnect, Go, Fail, httpVars
<1>5. QuestionInv'
  BY DEF IInv, QuestionInv, HttpConnect, Go, Fail, dnsVars
<1>6. AddressInv'
  <2>1. CASE Connects(SocketOf["http"], ip["http"]) /\ Go("request")
    BY <2>1, SocketFacts DEF IInv, TypeOK, SockOK, AddressInv, HttpConnect, Connects, Becomes, Go
  <2>2. CASE ConnectFails(SocketOf["http"], ip["http"]) /\ Fail
    BY <2>2 DEF IInv, AddressInv, HttpConnect, Fail
  <2> QED
    BY <2>1, <2>2 DEF HttpConnect
<1>7. HttpInv'
  BY DEF IInv, TypeOK, CallOK, HttpOK, Calls, HttpInv, HttpConnect, Go, Fail, httpVars
<1>8. MqttInv'
  <2>1. sock'[MqttSocket] = sock[MqttSocket]
    BY SocketFacts DEF IInv, TypeOK, SockOK, HttpConnect, Connects, ConnectFails, Close, Becomes,
       MqttSocket
  <2>2. call'.client = "http"
    BY DEF IInv, TypeOK, CallOK, Calls, HttpConnect, Go, Fail
  <2> QED
    BY <2>1, <2>2 DEF IInv, MqttInv, HttpConnect, Established, mqttVars
<1>9. BodyInv'
  BY BodyStays DEF IInv, TypeOK, CallOK, Calls, PlaceInv, Unanswered, HttpConnect, Go, Fail, Return, Call, NoCall, httpVars
<1> QED
  BY <1>1, <1>2, <1>3, <1>4, <1>5, <1>6, <1>7, <1>8, <1>9 DEF IInv, TypeOK

\* http_get has no context for TLS: the call fails.
LEMMA NoContextKeeps ==
  ASSUME IInv, NoContext, UNCHANGED <<mqttVars, calls, pool>>
  PROVE  IInv'
<1>1. SockOK' /\ DnsOK' /\ TlsOK' /\ HttpOK' /\ MqttOK' /\ calls' \in Nat /\ pool' \in Names
  BY Untouched DEF IInv, TypeOK, NoContext, dnsVars, httpVars, mqttVars
<1>2. CallOK'
  BY DEF IInv, TypeOK, CallOK, Calls, NoContext, Fail
<1>0. /\ call'.client = call.client /\ call'.https = call.https /\ call'.host = call.host
      /\ call.client = "http" /\ pc = "connect" /\ pc' \in {"close", "fault"}
  BY DEF IInv, TypeOK, CallOK, Calls, NoContext, Fail
<1>3. PlaceInv'
  BY <1>0 DEF IInv, PlaceInv, NoContext, httpVars
<1>4. QuestionInv'
  BY DEF IInv, QuestionInv, NoContext, Fail, dnsVars
<1>5. AddressInv'
  BY <1>0 DEF IInv, AddressInv, NoContext
<1>6. HttpInv'
  BY <1>0 DEF IInv, HttpInv, NoContext, httpVars
<1>7. MqttInv'
  BY <1>0 DEF IInv, MqttInv, Established, NoContext, mqttVars
<1>8. BodyInv'
  BY BodyStays DEF IInv, TypeOK, CallOK, Calls, PlaceInv, Unanswered, NoContext, Go, Fail, Return, Call, NoCall, httpVars
<1> QED
  BY <1>1, <1>2, <1>3, <1>4, <1>5, <1>6, <1>7, <1>8 DEF IInv, TypeOK

\* The body is whole, and the host that of the socket.
LEMMA RespondKeeps ==
  ASSUME IInv, NEW length \in 0..BufMax, Respond(length), UNCHANGED <<mqttVars, calls, pool>>
  PROVE  IInv'
<1>1. SockOK' /\ DnsOK' /\ TlsOK' /\ MqttOK' /\ calls' \in Nat /\ pool' \in Names
  BY Untouched DEF IInv, TypeOK, Respond, dnsVars, mqttVars
<1>2. CallOK'
  BY DEF IInv, TypeOK, CallOK, Respond, Go
<1>4. PlaceInv'
  BY DEF IInv, PlaceInv, Respond, HandOn, Go
<1>5. QuestionInv'
  BY DEF IInv, QuestionInv, Respond, Go, dnsVars
<1>6. AddressInv'
  BY DEF IInv, AddressInv, Respond, Go
<1>7. HttpInv'
  BY DEF IInv, HttpInv, Respond, HandOn, Go
<1>8. MqttInv'
  BY DEF IInv, MqttInv, Established, Respond, Go, mqttVars
<1>3. HttpOK' /\ BodyInv'
  <2> DEFINE b == IF length = 0 THEN NoBody
                  ELSE [from |-> host[SocketOf["http"]], len |-> length, announced |-> length]
  <2>1. host[SocketOf["http"]] = call.host /\ call.host \in Names /\ length \in Nat
    BY SizeFacts DEF IInv, TypeOK, CallOK, Calls, AddressInv, Respond
  <2>2. b \in Bodies /\ (b # NoBody => b.from = call.host /\ b.len = b.announced)
    BY <2>1 DEF Bodies, NoBody, Names
  <2>3. HandOn(b, TRUE) /\ pc' = "close"
    BY DEF Respond, Go
  <2> HIDE DEF b
  <2>4. HttpOK' /\ BodyIsAnswer'
    BY <2>2, <2>3, HandOnFacts DEF IInv, TypeOK, BodyInv
  <2> QED
    BY <2>3, <2>4 DEF BodyInv, Unanswered
<1> QED
  BY <1>1, <1>2, <1>3, <1>4, <1>5, <1>6, <1>7, <1>8 DEF IInv, TypeOK

\* The response does not fit: the rest is read.
LEMMA OverflowsKeeps ==
  ASSUME IInv, NEW length \in 0..MaxBody, NEW part \in 0..BufMax,
         Overflows(length, part), UNCHANGED <<mqttVars, calls, pool>>
  PROVE  IInv'
<1>1. SockOK' /\ DnsOK' /\ TlsOK' /\ HttpOK' /\ MqttOK' /\ calls' \in Nat /\ pool' \in Names
  BY Untouched DEF IInv, TypeOK, Overflows, dnsVars, httpVars, mqttVars
<1>2. CallOK'
  <2>1. part \in Nat /\ length \in Nat
    BY SizeFacts
  <2> QED
    BY <2>1 DEF IInv, TypeOK, CallOK, Calls, Overflows
<1>3. PlaceInv'
  BY DEF IInv, PlaceInv, Overflows, httpVars
<1>4. QuestionInv'
  BY DEF IInv, QuestionInv, Overflows, dnsVars
<1>5. AddressInv'
  BY DEF IInv, AddressInv, Overflows
<1>6. HttpInv'
  BY DEF IInv, HttpInv, Overflows, httpVars
<1>7. MqttInv'
  BY DEF IInv, MqttInv, Established, Overflows, mqttVars
<1>8. BodyInv'
  BY BodyStays DEF IInv, TypeOK, CallOK, Calls, PlaceInv, Unanswered, Overflows, Go, Fail, Return, Call, NoCall, httpVars
<1> QED
  BY <1>1, <1>2, <1>3, <1>4, <1>5, <1>6, <1>7, <1>8 DEF IInv, TypeOK

\* No response: the call fails.
LEMMA NoResponseKeeps ==
  ASSUME IInv, NoResponse, UNCHANGED <<mqttVars, calls, pool>>
  PROVE  IInv'
<1>1. SockOK' /\ DnsOK' /\ TlsOK' /\ MqttOK' /\ calls' \in Nat /\ pool' \in Names
  BY Untouched DEF IInv, TypeOK, NoResponse, dnsVars, mqttVars
<1>2. CallOK'
  BY DEF IInv, TypeOK, CallOK, Calls, NoResponse, Fail
<1>3. PlaceInv'
  BY DEF IInv, PlaceInv, NoResponse, HandOn, Fail
<1>4. QuestionInv'
  BY DEF IInv, QuestionInv, NoResponse, Fail, dnsVars
<1>5. AddressInv'
  BY DEF IInv, AddressInv, NoResponse, Fail
<1>6. HttpInv'
  BY DEF IInv, HttpInv, NoResponse, HandOn, Fail
<1>7. MqttInv'
  BY DEF IInv, MqttInv, Established, NoResponse, Fail, mqttVars
<1>8. HttpOK' /\ BodyInv'
  <2>1. body = NoBody /\ body \in Bodies /\ HandOn(body, FALSE) /\ pc' = "close"
    BY DEF IInv, TypeOK, HttpOK, BodyInv, Unanswered, NoResponse, Fail
  <2>2. HttpOK' /\ BodyIsAnswer'
    BY <2>1, HandOnFacts DEF IInv, TypeOK, BodyInv
  <2> QED
    BY <2>1, <2>2 DEF BodyInv, Unanswered
<1> QED
  BY <1>1, <1>2, <1>3, <1>4, <1>5, <1>6, <1>7, <1>8 DEF IInv, TypeOK

\* The loop for the rest, which sees an error or the end of the session.
LEMMA MoreKeeps ==
  ASSUME IInv, NEW n \in -1..BufMax, More(n), UNCHANGED <<mqttVars, calls, pool>>
  PROVE  IInv'
<1> DEFINE received == n % Word
           total    == (call.total + received) % Word
<1>a. SockOK' /\ DnsOK' /\ MqttOK' /\ calls' \in Nat /\ pool' \in Names
  <2>1. SockOK'
    BY SocketFacts DEF IInv, TypeOK, SockOK, More, Reads, Close, Becomes, Names
  <2> QED
    BY <2>1, Untouched DEF IInv, TypeOK, More, dnsVars, mqttVars
<1>b. received \in Nat /\ total \in Nat
  <2>1. n \in Int /\ call.total \in Nat
    BY SizeFacts DEF IInv, TypeOK, CallOK, Calls
  <2> QED
    BY <2>1, SizeFacts
<1>c. \/ Fail /\ HandOn(body, FALSE)
      \/ Go("close") /\ HandOn(body, TRUE)
      \/ call' = [call EXCEPT !.total = total] /\ UNCHANGED <<pc, httpVars>>
  BY DEF More
<1>d. ip' = ip /\ pc = "more" /\ pc' \in {"more", "close"} /\ dnsVars' = dnsVars
  BY <1>c DEF More, Fail, Go
<1> HIDE DEF total, received
<1>2. CallOK'
  <2>1. call' \in Calls
    BY <1>b, <1>c DEF IInv, TypeOK, CallOK, Calls, Fail, Go
  <2> QED
    BY <2>1, <1>d DEF IInv, TypeOK, CallOK
<1>e. /\ call'.client = call.client /\ call'.https = call.https /\ call'.host = call.host
      /\ call.client = "http" /\ body = NoBody /\ body \in Bodies
  <2>1. call'.client = call.client /\ call'.https = call.https /\ call'.host = call.host
    BY <1>c DEF IInv, TypeOK, CallOK, Calls, Fail, Go
  <2>2. call.client = "http"
    BY <1>d DEF IInv, PlaceInv
  <2> QED
    BY <2>1, <2>2, <1>d DEF IInv, TypeOK, HttpOK, BodyInv, Unanswered
<1>3. TlsOK'
  <2>1. CASE n < 0 /\ call.https
    BY <2>1, SocketFacts, SessionFacts DEF IInv, TypeOK, More, Reads, Sessions
  <2>2. CASE ~(n < 0 /\ call.https)
    BY <2>2 DEF IInv, TypeOK, TlsOK, More, Reads
  <2> QED
    BY <2>1, <2>2
<1>4. HttpOK' /\ BodyInv'
  <2>1. ASSUME NEW ok \in BOOLEAN, HandOn(body, ok), pc' = "close"
        PROVE  HttpOK' /\ BodyInv'
    BY <2>1, <1>e, HandOnFacts DEF IInv, TypeOK, BodyInv, Unanswered
  <2>2. CASE UNCHANGED <<pc, httpVars>>
    <3>1. HttpOK'
      BY <2>2, Untouched DEF IInv, TypeOK, httpVars
    <3>2. BodyInv'
      BY <2>2, <1>e, BodyStays DEF IInv, httpVars
    <3> QED
      BY <3>1, <3>2
  <2> QED
    BY <2>1, <2>2, <1>c DEF Fail, Go
<1>5. PlaceInv'
  <2>1. ssl_flag' = ssl_flag /\ broker' = broker
    BY <1>c DEF HandOn, httpVars, mqttVars
  <2> QED
    BY <1>d, <1>e, <2>1 DEF IInv, PlaceInv
<1>6. QuestionInv'
  BY <1>d DEF IInv, QuestionInv, dnsVars
<1>7. AddressInv'
  BY <1>d, <1>e DEF IInv, AddressInv
<1>8. HttpInv'
  <2>1. http_tls' = http_tls
    BY <1>c DEF HandOn, httpVars
  <2>2. http_tls = call.https
    BY <1>d, <1>e DEF IInv, HttpInv
  <2>3. ~http_tls => tls' = tls
    BY <2>2 DEF More, Reads
  <2> QED
    BY <1>d, <1>e, <2>1, <2>2, <2>3 DEF IInv, HttpInv
<1>9. MqttInv'
  <2>1. tls'["mqtt"] = tls["mqtt"] /\ sock'[MqttSocket] = sock[MqttSocket]
    BY SocketFacts DEF IInv, TypeOK, TlsOK, SockOK, More, Reads, Close, Becomes, MqttSocket
  <2> QED
    BY <1>d, <1>e, <2>1 DEF IInv, MqttInv, Established, mqttVars
<1> QED
  BY <1>a, <1>2, <1>3, <1>4, <1>5, <1>6, <1>7, <1>8, <1>9 DEF IInv, TypeOK

\* http_close: the socket is closed, the context freed and forgotten.
LEMMA HttpCloseKeeps ==
  ASSUME IInv, HttpClose, UNCHANGED <<mqttVars, calls, pool>>
  PROVE  IInv'
<1>1. DnsOK' /\ MqttOK' /\ calls' \in Nat /\ pool' \in Names
  BY Untouched DEF IInv, TypeOK, HttpClose, Names, dnsVars, mqttVars
<1>2. SockOK'
  BY DEF IInv, TypeOK, SockOK, HttpClose, Close, Becomes, Names
<1>3. CallOK'
  BY NoCallFacts DEF IInv, TypeOK, CallOK, HttpClose, Return
<1>4. TlsOK'
  <2>1. CASE ssl_flag
    BY <2>1, SocketFacts, FreedFacts DEF IInv, TypeOK, HttpClose, CloseContext
  <2>2. CASE ~ssl_flag
    BY <2>2 DEF IInv, TypeOK, TlsOK, HttpClose
  <2> QED
    BY <2>1, <2>2
<1>5. HttpOK'
  BY DEF IInv, TypeOK, HttpOK, HttpClose, CloseContext
<1>6. PlaceInv'
  BY DEF IInv, PlaceInv, HttpClose, Return, NoCall
<1>7. QuestionInv'
  BY DEF IInv, QuestionInv, HttpClose, Return, dnsVars
<1>8. AddressInv'
  BY DEF IInv, AddressInv, HttpClose, Return, NoCall
<1>9. HttpInv'
  <2>1. /\ ~http_tls' /\ http_state' = "IDLE" /\ given' = given
        /\ sock'[SocketOf["http"]] = "closed"
    BY SocketFacts DEF IInv, TypeOK, SockOK, PlaceInv, HttpInv, HttpClose, CloseContext, Close, Becomes
  <2>2. tls'["http"].holds # {} => tls'["http"].session \in {"none", "ready"}
    <3>1. CASE ssl_flag
      BY <3>1, SocketFacts, FreedFacts DEF IInv, TypeOK, HttpClose, CloseContext
    <3>2. CASE ~ssl_flag
      BY <3>2 DEF IInv, PlaceInv, HttpInv, HttpClose
    <3> QED
      BY <3>1, <3>2
  <2>3. call'.client = "none" /\ pc' = "rest"
    BY NoCallFacts DEF HttpClose, Return
  <2> QED
    BY <2>1, <2>2, <2>3 DEF IInv, HttpInv
<1>10. MqttInv'
  BY SocketFacts DEF IInv, TypeOK, TlsOK, MqttInv, Established, MqttSocket, HttpClose, CloseContext,
     Freed, Close, Becomes, Return, mqttVars
<1>11. BodyInv'
  BY BodyStays DEF IInv, TypeOK, CallOK, Calls, PlaceInv, Unanswered, HttpClose, Go, Fail, Return, Call, NoCall, httpVars
<1> QED
  BY <1>1, <1>2, <1>3, <1>4, <1>5, <1>6, <1>7, <1>8, <1>9, <1>10, <1>11 DEF IInv, TypeOK

\* http_close before the handshake was over: the context keeps what it holds.
LEMMA HttpCloseNullKeeps ==
  ASSUME IInv, HttpCloseNull, UNCHANGED <<mqttVars, calls, pool>>
  PROVE  IInv'
<1>1. DnsOK' /\ TlsOK' /\ MqttOK' /\ calls' \in Nat /\ pool' \in Names
  BY Untouched DEF IInv, TypeOK, HttpCloseNull, Names, dnsVars, mqttVars
<1>2. SockOK'
  BY DEF IInv, TypeOK, SockOK, HttpCloseNull, Close, Becomes, Names
<1>3. CallOK'
  BY NoCallFacts DEF IInv, TypeOK, CallOK, HttpCloseNull, Return
<1>4. HttpOK'
  BY DEF IInv, TypeOK, HttpOK, HttpCloseNull
<1>5. PlaceInv'
  <2>1. CASE Return
    BY <2>1, NoCallFacts DEF PlaceInv, Return
  <2>2. CASE pc' = "fault" /\ UNCHANGED call
    BY <2>2 DEF IInv, PlaceInv, HttpCloseNull
  <2> QED
    BY <2>1, <2>2 DEF HttpCloseNull
<1>6. QuestionInv'
  BY DEF IInv, QuestionInv, HttpCloseNull, Return, dnsVars
<1>7. AddressInv'
  <2>1. CASE Return
    BY <2>1, NoCallFacts DEF AddressInv, Return
  <2>2. CASE pc' = "fault" /\ UNCHANGED call
    BY <2>2 DEF IInv, AddressInv, HttpCloseNull
  <2> QED
    BY <2>1, <2>2 DEF HttpCloseNull
<1>8. HttpInv'
  BY SocketFacts DEF IInv, TypeOK, SockOK, HttpInv, HttpCloseNull, Close, Becomes, Return
<1>9. MqttInv'
  BY SocketFacts DEF IInv, TypeOK, SockOK, MqttInv, Established, MqttSocket, HttpCloseNull, Close,
     Becomes, Return, mqttVars
<1>10. BodyInv'
  BY BodyStays DEF IInv, TypeOK, CallOK, Calls, PlaceInv, Unanswered, HttpCloseNull, Go, Fail, Return, Call, NoCall, httpVars
<1> QED
  BY <1>1, <1>2, <1>3, <1>4, <1>5, <1>6, <1>7, <1>8, <1>9, <1>10 DEF IInv, TypeOK

\* MQTT without TLS connects to the address it has, or closes the socket.
LEMMA PlainConnectKeeps ==
  ASSUME IInv, PlainConnect, UNCHANGED <<httpVars, calls, pool>>
  PROVE  IInv'
<1>1. DnsOK' /\ TlsOK' /\ HttpOK' /\ MqttOK' /\ calls' \in Nat /\ pool' \in Names
  BY Untouched DEF IInv, TypeOK, PlainConnect, dnsVars, httpVars, mqttVars
<1>2. SockOK'
  BY SocketFacts DEF IInv, TypeOK, SockOK, CallOK, PlainConnect, Connects, ConnectFails, Close,
     Becomes, Names
<1>3. CallOK'
  BY DEF IInv, TypeOK, CallOK, Calls, PlainConnect, Go, Fail
<1>4. PlaceInv'
  BY DEF IInv, TypeOK, CallOK, Calls, PlaceInv, PlainConnect, Go, Fail, mqttVars
<1>5. QuestionInv'
  BY DEF IInv, QuestionInv, PlainConnect, Go, Fail, dnsVars
<1>6. AddressInv'
  <2>1. CASE Connects(MqttSocket, ip["mqtt"]) /\ Go("request")
    BY <2>1, SocketFacts DEF IInv, TypeOK, SockOK, AddressInv, PlainConnect, Connects, Becomes, Go,
       MqttSocket
  <2>2. CASE ConnectFails(MqttSocket, ip["mqtt"]) /\ Fail
    BY <2>2 DEF IInv, AddressInv, PlainConnect, Fail
  <2> QED
    BY <2>1, <2>2 DEF PlainConnect
<1>7. HttpInv'
  BY SocketFacts DEF IInv, TypeOK, SockOK, DnsOK, HttpOK, MqttOK, PlaceInv, QuestionInv, AddressInv,
     HttpInv, MqttInv, Established, Sent, MqttSocket, PlainConnect, Connects, ConnectFails, Close,
     Becomes, Go, Fail, dnsVars, httpVars, mqttVars
<1>8. MqttInv'
  BY DEF IInv, TypeOK, CallOK, Calls, MqttInv, PlainConnect, Go, Fail
<1>9. BodyInv'
  BY BodyStays DEF IInv, TypeOK, CallOK, Calls, PlaceInv, Unanswered, PlainConnect, Go, Fail, Return, Call, NoCall, httpVars
<1> QED
  BY <1>1, <1>2, <1>3, <1>4, <1>5, <1>6, <1>7, <1>8, <1>9 DEF IInv, TypeOK

\* The broker answered: the MQTT context sends over this connection from now on.
LEMMA AcceptedKeeps ==
  ASSUME IInv, Accepted, UNCHANGED <<httpVars, calls, pool>>
  PROVE  IInv'
<1>1. SockOK' /\ DnsOK' /\ TlsOK' /\ HttpOK' /\ calls' \in Nat /\ pool' \in Names
  BY Untouched DEF IInv, TypeOK, Accepted, Names, dnsVars, httpVars
<1>2. CallOK'
  BY DEF IInv, TypeOK, CallOK, Calls, Accepted, Return, NoCall, Names
<1>3. MqttOK'
  BY DEF IInv, TypeOK, MqttOK, Accepted
<1>4. PlaceInv'
  BY DEF IInv, PlaceInv, Accepted, Return, NoCall
<1>5. QuestionInv'
  BY DEF IInv, QuestionInv, Accepted, Return, dnsVars
<1>6. AddressInv'
  BY DEF IInv, AddressInv, Accepted, Return, NoCall
<1>7. HttpInv'
  BY DEF IInv, HttpInv, Accepted, Return, httpVars
<1>8. MqttInv'
  BY DEF IInv, MqttInv, Accepted, Return
<1>9. BodyInv'
  BY BodyStays DEF IInv, TypeOK, CallOK, Calls, PlaceInv, Unanswered, Accepted, Go, Fail, Return, Call, NoCall, httpVars
<1> QED
  BY <1>1, <1>2, <1>3, <1>4, <1>5, <1>6, <1>7, <1>8, <1>9 DEF IInv, TypeOK

\* It did not: the call fails, with the MQTT context set up or not.
LEMMA RejectedKeeps ==
  ASSUME IInv, Rejected, UNCHANGED <<httpVars, calls, pool>>
  PROVE  IInv'
<1>1. SockOK' /\ DnsOK' /\ TlsOK' /\ HttpOK' /\ calls' \in Nat /\ pool' \in Names
  BY Untouched DEF IInv, TypeOK, Rejected, dnsVars, httpVars
<1>2. CallOK'
  BY DEF IInv, TypeOK, CallOK, Calls, Rejected, Fail
<1>3. MqttOK'
  BY DEF IInv, TypeOK, MqttOK, Rejected
<1>4. PlaceInv'
  BY DEF IInv, PlaceInv, Rejected, Fail
<1>5. QuestionInv'
  BY DEF IInv, QuestionInv, Rejected, Fail, dnsVars
<1>6. AddressInv'
  BY DEF IInv, AddressInv, Rejected, Fail
<1>7. HttpInv'
  BY DEF IInv, HttpInv, Rejected, Fail, httpVars
<1>8. MqttInv'
  BY DEF IInv, MqttInv, Rejected, Fail
<1>9. BodyInv'
  BY BodyStays DEF IInv, TypeOK, CallOK, Calls, PlaceInv, Unanswered, Rejected, Go, Fail, Return, Call, NoCall, httpVars
<1> QED
  BY <1>1, <1>2, <1>3, <1>4, <1>5, <1>6, <1>7, <1>8, <1>9 DEF IInv, TypeOK

\* mqtt_transport_close closes the socket, or the processor stops.
LEMMA CloseCallKeeps ==
  ASSUME IInv, CloseCall, UNCHANGED <<httpVars, calls, pool>>
  PROVE  IInv'
<1>1. DnsOK' /\ HttpOK' /\ calls' \in Nat /\ pool' \in Names
  BY Untouched DEF IInv, TypeOK, CloseCall, Names, dnsVars, httpVars
<1>2. SockOK'
  BY DEF IInv, TypeOK, SockOK, CloseCall, Close, Becomes, Names
<1>3. CallOK'
  BY NoCallFacts DEF IInv, TypeOK, CallOK, CloseCall, Return
<1>4. TlsOK'
  <2>1. CASE mqtt_ssl /\ mqtt_tls
    BY <2>1, SocketFacts, FreedFacts DEF IInv, TypeOK, CloseCall
  <2>2. CASE ~(mqtt_ssl /\ mqtt_tls)
    BY <2>2 DEF IInv, TypeOK, TlsOK, CloseCall
  <2> QED
    BY <2>1, <2>2
<1>5. MqttOK'
  BY DEF IInv, TypeOK, MqttOK, CloseCall
<1>6. PlaceInv'
  <2>1. CASE Return
    BY <2>1, NoCallFacts DEF PlaceInv, Return
  <2>2. CASE pc' = "fault" /\ UNCHANGED call
    BY <2>2 DEF IInv, PlaceInv, CloseCall
  <2> QED
    BY <2>1, <2>2 DEF CloseCall
<1>7. QuestionInv'
  BY DEF IInv, QuestionInv, CloseCall, Return, dnsVars
<1>8. AddressInv'
  <2>1. CASE Return
    BY <2>1, NoCallFacts DEF AddressInv, Return
  <2>2. CASE pc' = "fault" /\ UNCHANGED call
    BY <2>2 DEF IInv, AddressInv, CloseCall
  <2> QED
    BY <2>1, <2>2 DEF CloseCall
<1>9. HttpInv'
  <2>1. call.client = "mqtt" /\ sock'[SocketOf["http"]] = sock[SocketOf["http"]]
    BY SocketFacts DEF IInv, TypeOK, SockOK, CloseCall, MqttSocket, Close, Becomes
  <2>2. tls'["http"] = tls["http"]
    BY SocketFacts, FreedFacts DEF IInv, TypeOK, CloseCall
  <2>3. pc' \in {"rest", "fault"} /\ call'.client # "http"
    BY <2>1, NoCallFacts DEF CloseCall, Return
  <2> QED
    BY <2>1, <2>2, <2>3 DEF IInv, HttpInv, CloseCall, httpVars
<1>10. MqttInv'
  BY SocketFacts DEF IInv, TypeOK, SockOK, MqttInv, Established, MqttSocket, CloseCall, Close, Becomes,
     Return
<1>11. BodyInv'
  BY BodyStays DEF IInv, TypeOK, CallOK, Calls, PlaceInv, Unanswered, CloseCall, Go, Fail, Return, Call, NoCall, httpVars
<1> QED
  BY <1>1, <1>2, <1>3, <1>4, <1>5, <1>6, <1>7, <1>8, <1>9, <1>10, <1>11 DEF IInv, TypeOK

\* ssl_transport_init fails: the context may hold memory, and has no session.
LEMMA TlsInitFailsKeeps ==
  ASSUME IInv, TlsInitFails, TlsOfCall
  PROVE  IInv'
<1>1. SockOK' /\ DnsOK' /\ calls' \in Nat /\ pool' \in Names
  BY Untouched DEF IInv, TypeOK, TlsInitFails, TlsOfCall, dnsVars
<1>2. CallOK'
  BY DEF IInv, TypeOK, CallOK, Calls, TlsInitFails, Fail
<1>3. TlsOK'
  BY InitFacts DEF IInv, TypeOK, TlsInitFails, TlsOfCall
<1>4. HttpOK'
  BY DEF IInv, TypeOK, HttpOK, TlsInitFails, TlsOfCall
<1>5. MqttOK'
  BY DEF IInv, TypeOK, MqttOK, TlsInitFails, TlsOfCall
<1>6. PlaceInv'
  BY DEF IInv, TypeOK, CallOK, Calls, PlaceInv, TlsInitFails, TlsOfCall, Fail
<1>7. QuestionInv'
  BY DEF IInv, QuestionInv, TlsInitFails, Fail, dnsVars
<1>8. AddressInv'
  BY DEF IInv, AddressInv, TlsInitFails, Fail
<1>9. HttpInv'
  <2>1. /\ call'.client = call.client /\ call'.https = call.https /\ pc' \in {"handshake", "close"}
    BY DEF IInv, TypeOK, CallOK, Calls, TlsInitFails, Fail
  <2>2. http_tls' = http_tls /\ http_state' = http_state /\ given' = given
    BY <2>1 DEF TlsOfCall, IInv, TypeOK, HttpOK
  <2>3. call.client # "http" => sock'[SocketOf["http"]] = sock[SocketOf["http"]]
    BY DEF TlsInitFails
  <2>4. tls'["http"].session \in {"none", "ready"} \/ tls'["http"] = tls["http"]
    BY SocketFacts, InitFacts DEF IInv, TypeOK, TlsInitFails, TlsOfCall
  <2> QED
    BY <2>1, <2>2, <2>3, <2>4 DEF IInv, HttpInv
<1>10. MqttInv'
  <2>1. /\ call'.client = call.client /\ pc' \in {"handshake", "close"}
    BY DEF IInv, TlsInitFails, Fail
  <2>2. call.client # "mqtt" => sock'[MqttSocket] = sock[MqttSocket]
    BY DEF TlsInitFails
  <2>3. call.client # "mqtt" => tls'["mqtt"] = tls["mqtt"]
    BY SocketFacts, InitFacts DEF IInv, TypeOK, TlsInitFails, TlsOfCall
  <2> QED
    BY <2>1, <2>2, <2>3 DEF IInv, MqttInv, Established, TlsOfCall
<1>11. BodyInv'
  BY BodyStays DEF IInv, TypeOK, CallOK, Calls, PlaceInv, Unanswered, TlsInitFails, TlsOfCall, Go, Fail, Return, Call, NoCall, httpVars
<1> QED
  BY <1>1, <1>2, <1>3, <1>4, <1>5, <1>6, <1>7, <1>8, <1>9, <1>10, <1>11 DEF IInv, TypeOK

\* The socket is connected with a new context, or closed.
LEMMA TlsConnectsKeeps ==
  ASSUME IInv, TlsConnects, TlsOfCall
  PROVE  IInv'
<1>1. DnsOK' /\ calls' \in Nat /\ pool' \in Names
  BY Untouched DEF IInv, TypeOK, TlsConnects, TlsOfCall, dnsVars
<1>2. SockOK'
  BY DEF IInv, PlaceInv, TypeOK, SockOK, CallOK, Calls, TlsConnects, TlsOfCall, Connects, ConnectFails,
     Close, Becomes, dnsVars, Names
<1>3. CallOK'
  BY DEF IInv, TypeOK, CallOK, Calls, TlsConnects, Go, Fail
<1>4. TlsOK'
  BY InitFacts DEF IInv, TypeOK, TlsConnects, TlsOfCall
<1>5. HttpOK'
  BY DEF IInv, TypeOK, HttpOK, TlsConnects, TlsOfCall
<1>6. MqttOK'
  BY DEF IInv, TypeOK, MqttOK, TlsConnects, TlsOfCall
<1>7. PlaceInv'
  BY DEF IInv, TypeOK, CallOK, Calls, PlaceInv, TlsConnects, TlsOfCall, Go, Fail
<1>8. QuestionInv'
  BY DEF IInv, QuestionInv, TlsConnects, Go, Fail, dnsVars
<1>9. AddressInv'
  <2> DEFINE s == SocketOf[call.client]
  <2>1. s \in Sockets /\ call.client \in Client
    BY SocketFacts DEF TlsOfCall
  <2>2. CASE Connects(s, ip[call.client]) /\ Go("handshake")
    BY <2>1, <2>2, SocketFacts DEF IInv, TypeOK, SockOK, AddressInv, TlsConnects, Connects, Becomes, Go
  <2>3. CASE ConnectFails(s, ip[call.client]) /\ Fail
    BY <2>3 DEF IInv, AddressInv, TlsConnects, Fail
  <2> QED
    BY <2>2, <2>3 DEF TlsConnects
<1>10. HttpInv'
  <2>1. /\ call'.client = call.client /\ call'.https = call.https /\ pc' \in {"handshake", "close"}
    BY DEF IInv, TypeOK, CallOK, Calls, TlsConnects, Go, Fail
  <2>2. http_tls' = http_tls /\ http_state' = http_state /\ given' = given
    BY <2>1 DEF TlsOfCall, IInv, TypeOK, HttpOK
  <2>3. call.client # "http" => sock'[SocketOf["http"]] = sock[SocketOf["http"]]
    <3> SUFFICES ASSUME call.client # "http" PROVE sock'[SocketOf["http"]] = sock[SocketOf["http"]]
      OBVIOUS
    <3>1. call.client = "mqtt"
      BY SocketFacts DEF TlsOfCall
    <3>2. \E state : sock' = [sock EXCEPT ![SocketOf["mqtt"]] = state]
      BY <3>1 DEF TlsConnects, Connects, ConnectFails, Close, Becomes
    <3> QED
      BY <3>2, SocketFacts DEF IInv
  <2>4. tls'["http"].session \in {"none", "ready"} \/ tls'["http"] = tls["http"]
    BY SocketFacts, InitFacts DEF IInv, TypeOK, TlsConnects, TlsOfCall
  <2> QED
    BY <2>1, <2>2, <2>3, <2>4 DEF IInv, HttpInv
<1>11. MqttInv'
  <2>1. /\ call'.client = call.client /\ pc' \in {"handshake", "close"}
    BY DEF IInv, TypeOK, CallOK, Calls, TlsConnects, Go, Fail
  <2>2. call.client # "mqtt" => sock'[MqttSocket] = sock[MqttSocket]
    <3> SUFFICES ASSUME call.client # "mqtt" PROVE sock'[MqttSocket] = sock[MqttSocket]
      OBVIOUS
    <3>1. call.client = "http"
      BY SocketFacts DEF TlsOfCall
    <3>2. \E state : sock' = [sock EXCEPT ![SocketOf["http"]] = state]
      BY <3>1 DEF TlsConnects, Connects, ConnectFails, Close, Becomes
    <3> QED
      BY <3>2, SocketFacts DEF IInv, TypeOK, SockOK, MqttSocket
  <2>3. call.client # "mqtt" => tls'["mqtt"] = tls["mqtt"]
    BY SocketFacts, InitFacts DEF IInv, TypeOK, TlsConnects, TlsOfCall
  <2> QED
    BY <2>1, <2>2, <2>3 DEF IInv, MqttInv, Established, TlsOfCall
<1>12. BodyInv'
  BY BodyStays DEF IInv, TypeOK, CallOK, Calls, PlaceInv, Unanswered, TlsConnects, TlsOfCall, Go, Fail, Return, Call, NoCall, httpVars
<1> QED
  BY <1>1, <1>2, <1>3, <1>4, <1>5, <1>6, <1>7, <1>8, <1>9, <1>10, <1>11, <1>12 DEF IInv, TypeOK

\* After the handshake the session is open and the context the client's own.
LEMMA HandshakeEndsKeeps ==
  ASSUME IInv, NEW ok \in BOOLEAN, HandshakeEnds(ok), TlsOfCall
  PROVE  IInv'
<1>1. SockOK' /\ DnsOK' /\ calls' \in Nat /\ pool' \in Names
  BY Untouched DEF IInv, TypeOK, HandshakeEnds, TlsOfCall, dnsVars
<1>2. CallOK'
  BY DEF IInv, TypeOK, CallOK, Calls, HandshakeEnds, Go, Fail
<1>3. TlsOK'
  <2>1. CASE ok
    BY <2>1, SessionFacts DEF IInv, TypeOK, HandshakeEnds, TlsOfCall, Sessions
  <2>2. CASE ~ok
    BY <2>2 DEF IInv, TypeOK, TlsOK, Contexts, HandshakeEnds
  <2> QED
    BY <2>1, <2>2
<1>4. HttpOK'
  BY DEF IInv, TypeOK, HttpOK, HandshakeEnds, TlsOfCall
<1>5. MqttOK'
  BY DEF IInv, TypeOK, MqttOK, HandshakeEnds, TlsOfCall
<1>6. PlaceInv'
  BY DEF IInv, TypeOK, CallOK, Calls, PlaceInv, HandshakeEnds, TlsOfCall, Go, Fail
<1>7. QuestionInv'
  BY DEF IInv, QuestionInv, HandshakeEnds, Go, Fail, dnsVars
<1>8. AddressInv'
  BY DEF IInv, TypeOK, CallOK, Calls, AddressInv, HandshakeEnds, Go, Fail
<1>9. HttpInv'
  <2>1. /\ call'.client = call.client /\ call'.https = call.https /\ call.https
        /\ pc' = IF ok THEN "request" ELSE "close"
    BY DEF IInv, TypeOK, CallOK, Calls, PlaceInv, HandshakeEnds, Go, Fail
  <2>2. /\ http_tls' = (http_tls \/ (call.client = "http" /\ ok))
        /\ http_state' = http_state /\ given' = given /\ sock' = sock
    BY <2>1 DEF TlsOfCall, HandshakeEnds
  <2>3. (call.client = "http" /\ ok) \/ tls'["http"] = tls["http"]
    BY DEF IInv, TypeOK, TlsOK, Contexts, HandshakeEnds
  <2> QED
    BY <2>1, <2>2, <2>3 DEF IInv, HttpInv
<1>10. MqttInv'
  <2>1. /\ call'.client = call.client /\ pc' = IF ok THEN "request" ELSE "close"
    BY DEF IInv, TypeOK, CallOK, Calls, HandshakeEnds, Go, Fail
  <2>2. call.client # "mqtt" => tls'["mqtt"] = tls["mqtt"]
    BY DEF IInv, HandshakeEnds
  <2>3. call.client = "mqtt" /\ ok => tls'["mqtt"].session = "open"
    BY SocketFacts, SessionFacts DEF IInv, TypeOK, HandshakeEnds, Sessions
  <2> QED
    BY <2>1, <2>2, <2>3 DEF IInv, MqttInv, Established, TlsOfCall, HandshakeEnds
<1>11. BodyInv'
  BY BodyStays DEF IInv, TypeOK, CallOK, Calls, PlaceInv, Unanswered, HandshakeEnds, TlsOfCall, Go, Fail, Return, Call, NoCall, httpVars
<1> QED
  BY <1>1, <1>2, <1>3, <1>4, <1>5, <1>6, <1>7, <1>8, <1>9, <1>10, <1>11 DEF IInv, TypeOK

-----------------------------------------------------------------------------
(* The theorems *)

\* At the start the sockets are closed and nothing was asked.
LEMMA AtFirst == Init => IInv
<1> SUFFICES ASSUME Init PROVE IInv
  OBVIOUS
<1>1. SockOK /\ sock[SocketOf["http"]] = "closed"
  BY SocketFacts DEF Init, SockInit, SockOK, Names
<1>2. CallOK
  BY NoCallFacts DEF Init, DnsInit, CallOK, Names
<1>3. Blank \in Contexts /\ Blank.holds = {}
  BY DEF Blank, Contexts, Sessions
<1>4. TlsOK /\ tls["http"].holds = {}
  BY <1>3, SocketFacts DEF Init, TlsInit, TlsOK
<1>5. DnsOK /\ HttpOK /\ MqttOK /\ calls \in Nat /\ pool \in Names
  BY DEF Init, DnsInit, HttpInit, MqttInit, NoBody, Nothing, Bodies, DnsOK, HttpOK, MqttOK, Names
<1>6. PlaceInv /\ QuestionInv /\ AddressInv
  BY <1>5, NoCallFacts DEF Init, DnsInit, PlaceInv, QuestionInv, AddressInv
<1>7. HttpInv /\ BodyInv /\ MqttInv
  BY <1>1, <1>4, NoCallFacts DEF Init, HttpInit, MqttInit, Nothing, HttpInv, BodyInv, BodyIsAnswer, MqttInv
<1> QED
  BY <1>1, <1>2, <1>4, <1>5, <1>6, <1>7 DEF IInv, TypeOK

\* The calls of the application, and what it does between them.
LEMMA ApplicationKeeps == ASSUME IInv, Application PROVE IInv'
<1>1. CASE UpdatePool
  BY <1>1, UpdatePoolKeeps
<1>2. CASE calls' = calls + 1 /\ HttpCalls /\ UNCHANGED mqttVars /\ UNCHANGED pool
  <2>1. calls' \in Nat
    BY <1>2 DEF IInv, TypeOK
  <2> QED
    BY <1>2, <2>1, BeginKeeps DEF HttpCalls
<1>3. CASE /\ calls' = calls + 1 /\ UNCHANGED pool
           /\ \E ssl, literal \in BOOLEAN, name \in Hosts :
                ConnectCall(ssl, literal, name) /\ UNCHANGED httpVars
  <2>1. calls' \in Nat
    BY <1>3 DEF IInv, TypeOK
  <2> QED
    BY <1>3, <2>1, ConnectCallKeeps
<1>4. CASE Setup /\ UNCHANGED <<httpVars, calls, pool>>
  BY <1>4, SetupKeeps
<1>5. CASE Hangup /\ UNCHANGED <<httpVars, calls, pool>>
  BY <1>5, HangupKeeps
<1>6. CASE Yield /\ UNCHANGED <<httpVars, calls, pool>>
  BY <1>6, PeerClosesKeeps, SocketFacts DEF Yield, MqttSocket
<1>7. CASE /\ \E qos \in 0..2, sent \in BOOLEAN : Subscribe(qos, sent)
           /\ UNCHANGED <<httpVars, calls, pool>>
  BY <1>7, SubscribeKeeps
<1>8. CASE /\ \E c \in Client : Deinit(c) \/ Disconnect(c) \/ SessionReset(c)
           /\ UNCHANGED <<httpVars, mqttVars, calls, pool>>
  BY <1>8, DeinitKeeps, DisconnectKeeps, SessionResetKeeps
<1> QED
  BY <1>1, <1>2, <1>3, <1>4, <1>5, <1>6, <1>7, <1>8 DEF Application

\* The steps of the TLS transport in a call of HTTP or of MQTT.
LEMMA TlsKeeps == ASSUME IInv, TlsStep, TlsOfCall PROVE IInv'
BY TlsInitFailsKeeps, TlsConnectsKeeps, HandshakeEndsKeeps DEF TlsStep

\* The steps of a call.
LEMMA RunningKeeps == ASSUME IInv, Running PROVE IInv'
<1>1. CASE DnsStep /\ UNCHANGED <<tls, httpVars, mqttVars, calls, pool>>
  BY <1>1, InitHandlerKeeps, OpenSocketKeeps, SendQueryKeeps, ExpireKeeps, ReceiveKeeps DEF DnsStep
<1>2. CASE HttpStep /\ UNCHANGED <<mqttVars, calls, pool>>
  <2>1. CASE HttpsConnect
    <3>1. TlsOfCall
      BY <1>2, <2>1, SocketFacts DEF IInv, TypeOK, MqttOK, HttpsConnect, TlsOfCall, mqttVars
    <3> QED
      BY <2>1, <3>1, TlsKeeps DEF HttpsConnect
  <2>2. CASE HttpConnect \/ NoContext \/ NoResponse \/ HttpClose \/ HttpCloseNull
    BY <1>2, <2>2, HttpConnectKeeps, NoContextKeeps, NoResponseKeeps, HttpCloseKeeps,
       HttpCloseNullKeeps
  <2>3. CASE \/ \E length \in 0..BufMax : Respond(length)
             \/ \E length \in 0..MaxBody, part \in 0..BufMax : Overflows(length, part)
             \/ \E n \in -1..BufMax : More(n)
    BY <1>2, <2>3, RespondKeeps, OverflowsKeeps, MoreKeeps
  <2> QED
    BY <1>2, <2>1, <2>2, <2>3 DEF HttpStep
<1>3. CASE MqttStep /\ UNCHANGED <<httpVars, calls, pool>>
  <2>1. CASE TlsConnect
    <3>1. TlsOfCall
      BY <1>3, <2>1, SocketFacts DEF IInv, TypeOK, HttpOK, TlsConnect, TlsOfCall, httpVars
    <3> QED
      BY <2>1, <3>1, TlsKeeps DEF TlsConnect
  <2>2. CASE PlainConnect \/ Accepted \/ Rejected \/ CloseCall
    BY <1>3, <2>2, PlainConnectKeeps, AcceptedKeeps, RejectedKeeps, CloseCallKeeps
  <2> QED
    BY <1>3, <2>1, <2>2 DEF MqttStep
<1> QED
  BY <1>1, <1>2, <1>3 DEF Running

\* What the servers and the network do.
LEMMA PeerKeeps == ASSUME IInv, Peer PROVE IInv'
BY PeerClosesKeeps, LoseKeeps DEF Peer

\* No step breaks the invariant.
LEMMA StepKeeps == IInv /\ [Next]_vars => IInv'
<1>1. ASSUME IInv, UNCHANGED vars PROVE IInv'
  <2>1. TypeOK'
    BY <1>1, Untouched DEF vars, dnsVars, httpVars, mqttVars, IInv, TypeOK
  <2>2. PlaceInv' /\ QuestionInv' /\ AddressInv'
    BY <1>1 DEF vars, dnsVars, httpVars, mqttVars, IInv, PlaceInv, QuestionInv, AddressInv
  <2>3. HttpInv' /\ MqttInv'
    BY <1>1 DEF vars, httpVars, mqttVars, IInv, HttpInv, MqttInv, Established
  <2>4. BodyInv'
    BY <1>1, BodyStays DEF vars, httpVars, IInv
  <2> QED
    BY <2>1, <2>2, <2>3, <2>4 DEF IInv
<1> QED
  BY <1>1, ApplicationKeeps, RunningKeeps, PeerKeeps DEF Next

\* Where the thread may be and what the clients then hold: it holds in every
\* behaviour, for any constants.
THEOREM CloudInvariant == Spec => []IInv
BY AtFirst, StepKeeps, PTL DEF Spec

\* Whatever failed, after every call HTTP is idle, its socket closed and its
\* pointer to a context NULL.
THEOREM HttpCanBeCalledTheorem == Spec => []HttpCanBeCalled
<1>1. IInv => HttpCanBeCalled
  BY DEF IInv, PlaceInv, HttpInv, HttpCanBeCalled
<1> QED
  BY <1>1, CloudInvariant, PTL

\* A request goes to the host it is for: a late answer is never taken for it.
THEOREM RightHostTheorem == Spec => []RightHost
<1>1. ASSUME IInv PROVE RightHost
  <2> SUFFICES ASSUME NEW c \in Client, pc = "request", call.client = c,
                      ~(c = "mqtt" /\ call.unread)
               PROVE  host[SocketOf[c]] = IF c = "http" THEN call.host ELSE broker
    BY DEF RightHost
  <2>1. host[SocketOf[c]] = call.host
    BY <1>1 DEF IInv, AddressInv
  <2>2. c = "mqtt" => broker = call.host
    BY <1>1 DEF IInv, PlaceInv
  <2> QED
    BY <2>1, <2>2, SocketFacts
<1> QED
  BY <1>1, CloudInvariant, PTL

\* A body that http_get left to its caller is the answer to this call and whole, and
\* http_get has succeeded, whatever it counted in the loop for the rest.
THEOREM BodyIsAnswerTheorem == Spec => []BodyIsAnswer
<1>1. IInv => BodyIsAnswer
  BY DEF IInv, BodyInv
<1> QED
  BY <1>1, CloudInvariant, PTL

\* An MQTT context that sends over TLS on an established socket has the session
\* of that socket.
THEOREM SendsOverSessionTheorem == Spec => []SendsOverSession
<1>1. IInv => SendsOverSession
  BY DEF IInv, PlaceInv, MqttInv, SendsOverSession
<1> QED
  BY <1>1, CloudInvariant, PTL

\* A context of HTTP that still holds memory never had an open session.
THEOREM HeldOnlyAfterFailureTheorem == Spec => []HeldOnlyAfterFailure
<1>1. IInv => HeldOnlyAfterFailure
  BY DEF IInv, PlaceInv, HttpInv, HeldOnlyAfterFailure
<1> QED
  BY <1>1, CloudInvariant, PTL

=============================================================================
