---------------------------- MODULE TlsTransport ----------------------------
(***************************************************************************)
(* The TLS transport, port/aws-iot-device-sdk-embedded-C/src/              *)
(* ssl_transport_interface.c, for the HTTP and the MQTT client, each with  *)
(* a tlsContext_t of its own.  What matters of a context is the memory     *)
(* mbedTLS holds for it and how far the session is; mbedTLS is external.   *)
(***************************************************************************)
EXTENDS DnsClient, Sequences, SequencesExt

CONSTANTS Verifies,     \* the clients whose rootca_option is not VERIFY_NONE
          Presents      \* the clients whose clica_option is true

ASSUME TlsAssumption == Verifies \subseteq Client /\ Presents \subseteq Client

VARIABLE tls   \* of each context: the memory it holds, the session

Blank     == [holds |-> {}, session |-> "none"]
TlsInit == tls = [c \in Client |-> Blank]

\* What ssl_transport_init allocates, in this order; each of these may fail, and
\* so may mbedtls_ssl_config_defaults, which allocates nothing.
Allocations(c) ==
  (IF c \in Verifies THEN <<"cacert", "hostname">> ELSE <<>>)
  \o (IF c \in Presents THEN <<"clicert", "pkey", "own cert">> ELSE <<>>)
  \o <<"session">>

\* ssl_transport_init: the context is set to zero first, and what it held is lost; a
\* failure after n allocations returns -1 and frees nothing.
TransportInit(c, n) ==
  /\ n \in 0..Len(Allocations(c))
  /\ tls' = [tls EXCEPT ![c] = [holds   |-> ToSet(SubSeq(Allocations(c), 1, n)),
                                session |-> IF n = Len(Allocations(c)) THEN "ready" ELSE "none"]]

\* Mutant of Freed: all but the session is freed.
FreedNotSession(c) == tls' = [tls EXCEPT ![c].holds = @ \cap {"session"}]
\* The mbedtls_..._free of every part, in http_close and in ssl_transport_deinit.
Freed(c) == tls' = [tls EXCEPT ![c] = Blank]

-----------------------------------------------------------------------------
(* A call that connects over TLS: pc "connect", then "handshake" *)

\* ssl_transport_init fails.
TlsInitFails ==
  /\ pc = "connect" /\ call.https /\ call.given
  /\ \E n \in DOMAIN Allocations(call.client) : TransportInit(call.client, n - 1)
  /\ Fail
  /\ UNCHANGED <<sock, host, ip, dnsVars>>

\* It succeeds, and ssl_socket_connect_timeout opens and connects the socket.
TlsConnects ==
  LET s == SocketOf[call.client] IN
  /\ pc = "connect" /\ call.https /\ call.given
  /\ TransportInit(call.client, Len(Allocations(call.client)))
  /\ \/ Connects(s, ip[call.client]) /\ Go("handshake")
     \/ ConnectFails(s, ip[call.client]) /\ Fail
  /\ UNCHANGED <<ip, dnsVars>>

\* Mutant of HandshakeEnds: a timeout counts as an answer.
HandshakeEndsAnyway(ok) ==
  /\ pc = "handshake"
  /\ tls' = [tls EXCEPT ![call.client].session = IF ok THEN "open" ELSE @]
  /\ Go("request")
  /\ UNCHANGED <<sock, host, ip, dnsVars>>
\* mbedtls_ssl_handshake is repeated while it wants more (which changes nothing
\* here), and until HTTP_TIMEOUT or MQTT_TIMEOUT at the latest.
HandshakeEnds(ok) ==
  /\ pc = "handshake"
  /\ tls' = [tls EXCEPT ![call.client].session = IF ok THEN "open" ELSE @]
  /\ IF ok THEN Go("request") ELSE Fail
  /\ UNCHANGED <<sock, host, ip, dnsVars>>

TlsStep == TlsInitFails \/ TlsConnects \/ \E ok \in BOOLEAN : HandshakeEnds(ok)

-----------------------------------------------------------------------------
(* What the application itself may do with a context it has closed *)

\* ssl_transport_deinit: no client calls it.
Deinit(c) ==
  /\ pc = "rest" /\ ~Established(SocketOf[c]) /\ tls[c].holds # {}
  /\ Freed(c)
  /\ UNCHANGED <<sock, host, pc, call, ip, dnsVars>>

\* ssl_transport_close_notify and ssl_transport_disconnect, which is repeated
\* until the socket is closed or the time is over; the context keeps its memory.
Disconnect(c) ==
  /\ pc = "rest" /\ tls[c].session = "open"
  /\ Close(SocketOf[c])
  /\ UNCHANGED <<pc, call, ip, tls, dnsVars>>

\* ssl_transport_session_reset: the session is over, and may be opened again.
SessionReset(c) ==
  /\ pc = "rest" /\ tls[c].session = "open" /\ ~Established(SocketOf[c])
  /\ tls' = [tls EXCEPT ![c].session = "over"]
  /\ UNCHANGED <<sock, host, pc, call, ip, dnsVars>>
=============================================================================
