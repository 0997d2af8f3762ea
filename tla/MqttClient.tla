----------------------------- MODULE MqttClient -----------------------------
(***************************************************************************)
(* The MQTT client, port/aws-iot-device-sdk-embedded-C/src/                *)
(* mqtt_transport_interface.c: init, connect, subscribe, publish, yield    *)
(* and close, called in any order; mqtt_state never leaves MQTT_IDLE, so   *)
(* that no order is refused.  coreMQTT is external: a call of it fails, or *)
(* was sent over the connection of the context.                            *)
(***************************************************************************)
EXTENDS TlsTransport

CONSTANTS Subscriptions,   \* MQTT_SUBSCRIPTION_MAX_NUM
          MaxSubscribes    \* bound: subscriptions the application makes of a connection

ASSUME MqttAssumption == Subscriptions \in Nat \ {0} /\ MaxSubscribes \in Nat

VARIABLES mqtt_up,     \* mqtt_transport_init was called
          transport,   \* what the MQTT context sends with
          mqtt_tls,    \* g_mqtt_tls_context_ptr is not NULL
          mqtt_ssl,    \* g_mqtt_config.ssl_flag == true: nothing sets it
          subs,        \* subscribe_count
          broker       \* the host of the last connect

mqttVars == <<mqtt_up, transport, mqtt_tls, mqtt_ssl, subs, broker>>

MqttInit == /\ mqtt_up = FALSE /\ transport = "none"
            /\ mqtt_tls = FALSE /\ mqtt_ssl = FALSE
            /\ subs = 0 /\ broker = Unset

MqttSocket == SocketOf["mqtt"]

\* mqtt_transport_init: the configuration is set to zero, the MQTT context of a
\* connection that may be there included; the connection stays.
Setup ==
  /\ pc = "rest"
  /\ mqtt_up' = TRUE /\ transport' = "none" /\ mqtt_ssl' = FALSE /\ subs' = 0
  /\ ip' = [ip EXCEPT !["mqtt"] = Unset]
  /\ UNCHANGED <<sock, host, pc, call, dnsVars, tls, mqtt_tls, broker>>

-----------------------------------------------------------------------------
(* mqtt_transport_connect *)

ConnectCall(ssl, literal, name) ==
  /\ pc = "rest"
  /\ call' = Call("mqtt", "connect", ssl, TRUE, name)
  /\ pc' = IF literal THEN "connect" ELSE "resolve"
  /\ ip' = IF literal THEN [ip EXCEPT !["mqtt"] = name] ELSE ip
  /\ broker' = name
  /\ UNCHANGED <<sock, host, dnsVars, tls, mqtt_up, transport, mqtt_tls, mqtt_ssl, subs>>

\* Without TLS: socket and connect.
PlainConnect ==
  /\ pc = "connect" /\ call.client = "mqtt" /\ ~call.https
  /\ \/ Connects(MqttSocket, ip["mqtt"]) /\ Go("request")
     \/ ConnectFails(MqttSocket, ip["mqtt"]) /\ Fail
  /\ UNCHANGED <<ip, dnsVars, tls, mqttVars>>

\* With TLS, the TLS transport's steps: the pointer is set after the handshake.
TlsConnect ==
  /\ call.client = "mqtt" /\ TlsStep
  /\ mqtt_tls' = (mqtt_tls \/ pc' = "request")
  /\ UNCHANGED <<mqtt_up, transport, mqtt_ssl, subs, broker>>

\* MQTT_Init, and MQTT_Connect is answered within MQTT_TIMEOUT.
Accepted ==
  /\ pc = "request" /\ call.client = "mqtt" /\ mqtt_up /\ Established(MqttSocket)
  /\ transport' = IF call.https THEN "tls" ELSE "plain"
  /\ Return
  /\ UNCHANGED <<sock, host, ip, dnsVars, tls, mqtt_up, mqtt_tls, mqtt_ssl, subs, broker>>

\* One of them fails, MQTT_Connect with the context set up.
Rejected ==
  /\ pc = "request" /\ call.client = "mqtt"
  /\ transport' \in {transport, IF call.https THEN "tls" ELSE "plain"}
  /\ Fail
  /\ UNCHANGED <<sock, host, ip, dnsVars, tls, mqtt_up, mqtt_tls, mqtt_ssl, subs, broker>>

\* Mutant of CloseCall: a connect that failed leaves the socket as it is.
CloseCallKeepsSocket ==
  /\ pc = "close" /\ call.client = "mqtt"
  /\ subs' = 0
  /\ Return
  /\ UNCHANGED <<sock, host, ip, dnsVars, tls, mqtt_up, transport, mqtt_tls, mqtt_ssl, broker>>
\* mqtt_transport_close, called by a connect that failed and by the application.
\* With ssl_flag, which nothing but an overflow can set, it frees the context.
CloseCall ==
  /\ pc = "close" /\ call.client = "mqtt"
  /\ subs' = 0
  /\ IF mqtt_ssl /\ mqtt_tls THEN Freed("mqtt") ELSE UNCHANGED tls
  /\ \/ Return /\ Close(MqttSocket)
     \/ mqtt_ssl /\ ~mqtt_tls /\ pc' = "fault" /\ UNCHANGED <<call, sock, host>>
  /\ UNCHANGED <<ip, dnsVars, mqtt_up, transport, mqtt_tls, mqtt_ssl, broker>>

Hangup ==
  /\ pc = "rest"
  /\ pc' = "close" /\ call' = Call("mqtt", "close", FALSE, FALSE, Unset)
  /\ UNCHANGED <<sock, host, ip, dnsVars, tls, mqttVars>>

-----------------------------------------------------------------------------
(* Calls that send: mqtt_write and mqtts_write want an established socket *)

CanSend == transport # "none" /\ Established(MqttSocket)

\* mqtt_transport_subscribe: there are Subscriptions slots, and one more is let
\* through.  Its qos and its topic are written over subscribe_count, mqtt_ip (which
\* becomes 0.0.0.x) and ssl_flag, which follow the slots; the count may have been
\* read before.
Subscribe(qos, sent) ==
  /\ pc = "rest" /\ subs <= Subscriptions /\ subs < MaxSubscribes
  /\ sent => CanSend
  /\ LET over == subs = Subscriptions IN
     /\ \E count \in IF over THEN {subs, qos} ELSE {subs} : subs' = IF sent THEN count + 1 ELSE count
     /\ mqtt_ssl' \in IF over THEN BOOLEAN ELSE {mqtt_ssl}
     /\ ip' = IF over THEN [ip EXCEPT !["mqtt"] = Unset] ELSE ip
  /\ UNCHANGED <<sock, host, pc, call, dnsVars, tls, mqtt_up, transport, mqtt_tls, broker>>

\* mqtt_transport_publish, and mqtt_transport_yield, whose packets the event
\* callback only reports: they read with mqtt_read and mqtts_read and leave the
\* client as it is; a reader that finds the end of the stream learns it.
Yield ==
  /\ pc = "rest" /\ CanSend
  /\ PeerCloses(MqttSocket)
  /\ UNCHANGED <<pc, call, ip, dnsVars, tls, mqttVars>>

MqttStep == PlainConnect \/ TlsConnect \/ Accepted \/ Rejected \/ CloseCall
=============================================================================
