----------------------------- MODULE HttpClient -----------------------------
(***************************************************************************)
(* The HTTP client, port/aws-iot-device-sdk-embedded-C/src/                *)
(* http_transport_interface.c: http_get and http_post, which resolve the   *)
(* name, connect, send one request, read the response and close.  Both     *)
(* have the same steps; every failure goes through http_close.             *)
(*                                                                         *)
(* HTTPClient_Send is external: it returns the response, or that there was *)
(* no memory for it (HTTPInsufficientMemory), or an error.                 *)
(***************************************************************************)
EXTENDS TlsTransport

CONSTANTS BufMax,     \* HTTP_BUF_MAX_SIZE
          MaxBody,    \* bound: the longest body a server sends
          Word        \* 2^32, the range of currentReceived and currentTotalLen

ASSUME HttpAssumption == BufMax \in Nat \ {0} /\ MaxBody \in Nat /\ Word \in Nat /\ Word > MaxBody

VARIABLES http_state,  \* g_http_config.http_state
          ssl_flag,    \* g_http_config.ssl_flag
          http_tls,    \* g_http_tls_context_ptr is not NULL
          body,        \* g_http_config.bodyDataPtr and bodyLen
          given        \* what the last http_get left to its caller, and what it returned

httpVars == <<http_state, ssl_flag, http_tls, body, given>>

\* A body: the host it came from, its length and the length announced.  NULL is NoBody.
NoBody  == [from |-> Unset, len |-> 0, announced |-> 0]
Nothing == [asked |-> Unset, ok |-> FALSE, body |-> NoBody]
HttpInit == /\ http_state = "IDLE" /\ ssl_flag = FALSE /\ http_tls = FALSE
            /\ body = NoBody /\ given = Nothing

\* Mutant of Where: a URL without a path is answered at once.
WhereReturns(readable, literal) ==
  IF ~readable THEN "rest" ELSE IF literal THEN "connect" ELSE "resolve"
\* Where a call goes on once the URL was read: getUrlInfo wants a host and a
\* path; a host that is an address (is_ipaddr) is not looked up.
Where(readable, literal) ==
  IF ~readable THEN "close" ELSE IF literal THEN "connect" ELSE "resolve"

\* Mutant of Begin: not all of g_http_config is cleared.
BeginKeepsBody(op, scheme, readable, literal, tls_context, name) ==
  LET known == scheme \in {"http", "https"} IN   \* is_https
  /\ pc = "rest" /\ http_state = "IDLE"
  /\ http_state' = "RUNNING"
  /\ ssl_flag' = (scheme = "https")
  /\ ip' = [ip EXCEPT !["http"] = IF known /\ readable /\ literal THEN name ELSE Unset]
  /\ pc' = Where(known /\ readable, literal)
  /\ call' = [Call("http", op, scheme = "https", tls_context, name)
                EXCEPT !.ret = IF known /\ readable THEN "ok" ELSE "error"]
  /\ given' = Nothing
  /\ UNCHANGED <<sock, host, dnsVars, tls, http_tls, body>>
\* http_get and http_post up to the lookup.  memset clears what the last call left;
\* the caller's pointer is NULL until http_send_request is over.
Begin(op, scheme, readable, literal, tls_context, name) ==
  LET known == scheme \in {"http", "https"} IN   \* is_https
  /\ pc = "rest" /\ http_state = "IDLE"
  /\ http_state' = "RUNNING"
  /\ ssl_flag' = (scheme = "https")
  /\ ip' = [ip EXCEPT !["http"] = IF known /\ readable /\ literal THEN name ELSE Unset]
  /\ pc' = Where(known /\ readable, literal)
  /\ call' = [Call("http", op, scheme = "https", tls_context, name)
                EXCEPT !.ret = IF known /\ readable THEN "ok" ELSE "error"]
  /\ body' = NoBody /\ given' = Nothing
  /\ UNCHANGED <<sock, host, dnsVars, tls, http_tls>>

\* http_connect
HttpConnect ==
  LET s == SocketOf["http"] IN
  /\ pc = "connect" /\ call.client = "http" /\ ~call.https
  /\ \/ Connects(s, ip["http"]) /\ Go("request")
     \/ ConnectFails(s, ip["http"]) /\ Fail
  /\ UNCHANGED <<ip, dnsVars, tls, httpVars>>

\* Called without a context for TLS: http_get refuses it; http_post does not look, and
\* ssl_transport_init writes through NULL.  What comes of that is undefined: the
\* processor stops, or one of the init functions fails.
NoContext ==
  /\ pc = "connect" /\ call.client = "http" /\ call.https /\ ~call.given
  /\ \/ Fail
     \/ call.op = "post" /\ pc' = "fault" /\ UNCHANGED call
  /\ UNCHANGED <<sock, host, ip, dnsVars, tls, httpVars>>

\* https_connect, the TLS transport's steps: the context is the client's own
\* only after the handshake.
HttpsConnect ==
  /\ call.client = "http" /\ TlsStep
  /\ http_tls' = (http_tls \/ pc' = "request")
  /\ UNCHANGED <<http_state, ssl_flag, body, given>>

-----------------------------------------------------------------------------
(* http_send_request *)

\* A request is sent when the last header was added (the statuses of the
\* others are overwritten), and the socket still stands.
Sent == Established(SocketOf["http"])

\* http_send_request is over, and leaves b in g_http_config: http_get takes what is
\* there, whatever the result, and http_post nothing.
HandOn(b, ok) ==
  /\ body' = b
  /\ given' = IF call.op = "get" THEN [asked |-> call.host, ok |-> ok, body |-> b] ELSE given
  /\ UNCHANGED <<http_state, ssl_flag, http_tls>>

\* The whole response fits: its body, which may be empty, is put into g_http_config.
Respond(length) ==
  /\ pc = "request" /\ call.client = "http" /\ Sent
  /\ HandOn(IF length = 0 THEN NoBody
            ELSE [from |-> host[SocketOf["http"]], len |-> length, announced |-> length], TRUE)
  /\ Go("close")
  /\ UNCHANGED <<sock, host, ip, dnsVars, tls>>

\* It does not fit: part of the body is in the buffer, or no body at all when the
\* headers were too long, and the rest is read into the same buffer.
Overflows(length, part) ==
  /\ pc = "request" /\ call.client = "http" /\ Sent
  /\ part < length \/ length = 0
  /\ pc' = "more"
  /\ call' = [call EXCEPT !.total = part, !.length = length]
  /\ UNCHANGED <<sock, host, ip, dnsVars, tls, httpVars>>

\* A header did not fit, or HTTPClient_Send fails: nothing sent, no answer in
\* time, no HTTP.
NoResponse ==
  /\ pc = "request" /\ call.client = "http"
  /\ Fail
  /\ HandOn(body, FALSE)
  /\ UNCHANGED <<sock, host, ip, dnsVars, tls>>

\* http_read and https_read: what they return, where 0 is that nothing came until
\* HTTP_TIMEOUT, and a negative number an error: of recv, which then closes the
\* socket that was lost, or of mbedTLS, such as the end of the session, after which
\* it has nothing to read.
Reads(n) == /\ n # 0 => sock[SocketOf["http"]] \in {"established", "peer closed"}
            /\ n < 0 => call.https \/ ~Established(SocketOf["http"])
            /\ n > 0 => (call.https => tls["http"].session = "open")
            /\ IF n < 0 /\ ~call.https THEN Close(SocketOf["http"]) ELSE UNCHANGED <<sock, host>>
            /\ tls' = IF n < 0 /\ call.https THEN [tls EXCEPT !["http"].session = "over"] ELSE tls

\* The loop for the rest.  The count is unsigned: an error is taken for bytes, and
\* the total may wrap; a total that is large enough is a success.  The body is not
\* put into g_http_config.
More(n) ==
  LET received == n % Word
      total    == (call.total + received) % Word IN
  /\ pc = "more" /\ Reads(n)
  /\ \/ received = 0 /\ Fail /\ HandOn(body, FALSE)
     \/ /\ received # 0 /\ total >= call.length
        /\ Go("close") /\ HandOn(body, TRUE)
     \/ /\ received # 0 /\ total < call.length
        /\ call' = [call EXCEPT !.total = total]
        /\ UNCHANGED <<pc, httpVars>>
  /\ UNCHANGED <<ip, dnsVars>>

-----------------------------------------------------------------------------
(* http_close *)

\* Mutant of CloseContext: the pointer keeps its value.
CloseContextKeepsPointer ==
  /\ Freed("http")
  /\ UNCHANGED http_tls
\* With TLS: the context is freed and forgotten.
CloseContext ==
  /\ Freed("http")
  /\ http_tls' = FALSE

\* The thread is back in the application; its socket is closed.
HttpClose ==
  /\ pc = "close" /\ call.client = "http" /\ (ssl_flag => http_tls)
  /\ IF ssl_flag THEN CloseContext ELSE UNCHANGED <<tls, http_tls>>
  /\ Close(SocketOf["http"])
  /\ http_state' = "IDLE"
  /\ Return
  /\ UNCHANGED <<ip, dnsVars, ssl_flag, body, given>>

\* With TLS, and before the handshake was over: g_http_tls_context_ptr is NULL, and
\* its parts are freed nevertheless.  The outcome is undefined: the processor
\* stops, or nothing happens that the client can see.
HttpCloseNull ==
  /\ pc = "close" /\ call.client = "http" /\ ssl_flag /\ ~http_tls
  /\ \/ pc' = "fault" /\ UNCHANGED <<sock, host, call, http_state>>
     \/ Return /\ Close(SocketOf["http"]) /\ http_state' = "IDLE"
  /\ UNCHANGED <<ip, tls, dnsVars, ssl_flag, http_tls, body, given>>

HttpStep == \/ HttpConnect \/ NoContext \/ HttpsConnect
            \/ NoResponse \/ HttpClose \/ HttpCloseNull
            \/ \E length \in 0..BufMax : Respond(length)
            \/ \E length \in 0..MaxBody, part \in 0..BufMax : Overflows(length, part)
            \/ \E n \in -1..BufMax : More(n)
HttpCalls == \E op \in {"get", "post"}, scheme \in {"http", "https", "other"},
                readable, literal, context \in BOOLEAN, name \in Hosts :
                Begin(op, scheme, readable, literal, context, name)
=============================================================================
