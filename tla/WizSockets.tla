----------------------------- MODULE WizSockets -----------------------------
(***************************************************************************)
(* The sockets of the Ethernet chip, as the network clients of             *)
(* port/aws-iot-device-sdk-embedded-C use them through the ioLibrary: a    *)
(* submodule, so that everything here is external and says only what the   *)
(* callers can see.  A socket is blocking: each call returns when the chip *)
(* is done, or has given up.                                               *)
(***************************************************************************)
EXTENDS Integers

CONSTANTS Hosts,        \* the names that can be looked up
          DnsSocket,    \* DNS_SOCKET_NUM
          SocketOf      \* the socket the application gives to each client

Client  == {"http", "mqtt"}
Sockets == {DnsSocket} \cup {SocketOf[c] : c \in Client}

\* The application gives each client a socket of its own, and not that of DNS.
ASSUME SocketsAssumption ==
  /\ DOMAIN SocketOf = Client
  /\ SocketOf["http"] # SocketOf["mqtt"]
  /\ DnsSocket \notin {SocketOf["http"], SocketOf["mqtt"]}

VARIABLES sock,   \* the state of each socket
          host    \* the host a socket is connected to

Unset == "0.0.0.0"
SockInit == /\ sock = [s \in Sockets |-> "closed"]
            /\ host = [s \in Sockets |-> Unset]

Becomes(s, state, h) == /\ sock' = [sock EXCEPT ![s] = state]
                        /\ host' = [host EXCEPT ![s] = h]

\* close, and disconnect, which closes too when the peer does not answer.
Close(s) == Becomes(s, "closed", Unset)
OpenUdp(s) == Becomes(s, "udp", Unset)

\* socket() of a TCP socket and connect(): both close what was open before; an
\* address that was never set is refused with the socket left open.
Connects(s, h)      == h # Unset /\ Becomes(s, "established", h)
ConnectFails(s, h)  == IF h = Unset THEN Becomes(s, "init", Unset) ELSE Close(s)

\* getSn_SR() == SOCK_ESTABLISHED: the sends of all clients ask for it.
Established(s) == sock[s] = "established"

\* The peer closes its side: what the chip then says of the socket.
PeerCloses(s) == /\ sock[s] = "established"
                 /\ sock' = [sock EXCEPT ![s] = "peer closed"]
                 /\ UNCHANGED host
=============================================================================
