-------------------------------- MODULE Http --------------------------------
(***************************************************************************)
(* The HTTP sessions of server/core/http_session.cpp in more detail than  *)
(* Listener has them: plain or TLS, the deadline of the stream, and what  *)
(* becomes of the connection after a response.                            *)
(*                                                                         *)
(* This module adds to each step of Listener what it does to the          *)
(* deadline and to the response.  The deadline belongs to the stream and  *)
(* moves with it from the detector to the HTTP session and on to the      *)
(* websocket session.  Which file or error a response holds is left out:  *)
(* the session asks of it only whether it is the last one.                *)
(***************************************************************************)
EXTENDS Listener

VARIABLES
    tls,                \* is the HTTP session a TLS one
    timer,              \* expires_after was called, and not expires_never since
    reply               \* the response being written: does it end the connection

hvars == <<vars, tls, timer, reply>>

InitH ==
    /\ Init
    /\ tls = [c \in Conns |-> FALSE]
    /\ timer = [c \in Conns |-> FALSE]
    /\ reply = [c \in Conns |-> "none"]

-----------------------------------------------------------------------------
expires_after(c) == timer' = [timer EXCEPT ![c] = TRUE]

\* Faulty variant: the deadline stays.
expires_neverStays(c) == UNCHANGED timer

expires_never(c) == timer' = [timer EXCEPT ![c] = FALSE]

\* handle_request: the response to a request keeps the connection alive if the
\* request asked for it.  All of them have a length, so need_eof is the reverse.
handle_request_keeps(c) ==
    /\ handle_request(c)
    /\ \E r \in {"keep", "close"} : reply' = [reply EXCEPT ![c] = r]
    /\ UNCHANGED timer

\* Faulty variant: the closing handshake has no deadline.
do_close_typedUntimed(c) ==
    IF tls[c]
    THEN Await(c, "shutdown") /\ MakeNothing /\ timer' = [timer EXCEPT ![c] = FALSE]
    ELSE End(c) /\ MakeNothing /\ UNCHANGED timer

\* do_close of the plain and of the TLS session; the latter waits for the
\* closing handshake with a deadline of its own.
do_close_typed(c) ==
    IF tls[c]
    THEN Await(c, "shutdown") /\ MakeNothing /\ expires_after(c)
    ELSE End(c) /\ MakeNothing /\ UNCHANGED timer

-----------------------------------------------------------------------------
\* The detector sets a deadline before it reads.
on_acceptH ==
    /\ on_accept
    /\ IF acceptor = "open" THEN expires_after(next) ELSE UNCHANGED timer
    /\ UNCHANGED <<tls, reply>>

\* A TLS session sets a deadline for the handshake, a plain one for the read.
run_http_sessionH(c) ==
    /\ run_http_session(c)
    /\ tls' = [tls EXCEPT ![c] = (stage'[c] = "handshake")]
    /\ expires_after(c)
    /\ UNCHANGED reply

on_handshakeH(c) == on_handshake(c) /\ expires_after(c) /\ UNCHANGED <<tls, reply>>

\* http_session_base::operator() with a request or the end of the stream
on_readH(c) ==
    /\ stage[c] = "read"
    /\ io[c] = "ok"
    /\ \/ expires_never(c) /\ MakeNext(c, "make_ws", "ws") /\ UNCHANGED reply
       \/ handle_request_keeps(c)
       \/ do_close_typed(c) /\ UNCHANGED reply
    /\ UNCHANGED <<listening, stopVars, tls>>

\* http_session_base::operator() with the response written: close, or run off
\* the end of the coroutine
on_writeH(c) ==
    /\ stage[c] = "write"
    /\ io[c] = "ok"
    /\ IF reply[c] = "close"
       THEN do_close_typed(c)
       ELSE End(c) /\ MakeNothing /\ UNCHANGED timer
    /\ reply' = [reply EXCEPT ![c] = "none"]
    /\ UNCHANGED <<listening, stopVars, tls>>

HandleH(c) ==
    \/ run_http_sessionH(c) \/ on_handshakeH(c) \/ on_readH(c) \/ on_writeH(c)
    \/ /\ on_detect(c) \/ run_ws_session(c) \/ Fail(c) \/ on_shutdown(c) \/ on_message(c)
       /\ UNCHANGED <<tls, timer, reply>>

\* What Listener does without touching streams
Others ==
    /\ \/ on_accept_error \/ on_stop \/ Stop \/ StopSessions
       \/ \E c \in Conns : Arrive(c) \/ IoDone(c) \/ IoFails(c)
       \/ \E o \in Objects : Destroy(o)
    /\ UNCHANGED <<tls, timer, reply>>

NextH ==
    /\ ~crashed
    /\ \/ on_acceptH
       \/ \E c \in Conns : HandleH(c)
       \/ Others

SpecH == InitH /\ [][NextH]_hvars

\* As in Listener, but what ends a wait is the deadline that the session has
\* set, or a socket that was closed.
TimesOutH(c) ==
    (timer[c] \/ sock[c] = "closed") /\ IoFails(c) /\ UNCHANGED <<tls, timer, reply>>

FairnessH ==
    /\ WF_hvars(~crashed /\ on_acceptH)
    /\ WF_hvars(~crashed /\ acceptor = "closed" /\ Others /\ on_accept_error)
    /\ WF_hvars(~crashed /\ Others /\ Stop)
    /\ WF_hvars(~crashed /\ Others /\ StopSessions)
    /\ WF_hvars(~crashed /\ Others /\ \E o \in Objects : Destroy(o))
    /\ \A c \in Conns :
        WF_hvars(~crashed /\ HandleH(c)) /\ WF_hvars(~crashed /\ TimesOutH(c))

FairSpecH == SpecH /\ FairnessH

-----------------------------------------------------------------------------
\* The deadline follows the stream through its owners: a detector or an HTTP
\* session never waits for its client without one, through the TLS handshakes
\* too, and a websocket session never has one left over from them, which would
\* cut it off after 30 seconds.
DeadlineFitsStage ==
    \A c \in Conns : io[c] = "pending" => (timer[c] <=> stage[c] # "ws")

\* http_session.cpp says "A new HTTP parser is required for each message" and
\* "Read the next HTTP request": after a response that keeps the connection
\* alive, the session reads again.
KeptAliveReads ==
    [][\A c \in Conns :
        stage[c] = "write" /\ io[c] = "ok" /\ reply[c] = "keep" /\ stage'[c] # "write"
            => stage'[c] = "read"]_hvars
=============================================================================
