------------------------------ MODULE Listener ------------------------------
(***************************************************************************)
(* A listening socket and the sessions on its connections: listener_impl  *)
(* and detector (server/core/listener.cpp), the HTTP sessions             *)
(* (http_session.cpp) and the websocket sessions (ws_user.cpp), from      *)
(* accepting a connection to stopping the server.                         *)
(*                                                                         *)
(* One connection is driven by up to three objects in turn: a detector    *)
(* hands its stream to an HTTP session, which may hand it to a websocket  *)
(* session.  The constructor of each enters it in sessions_, before       *)
(* make_shared has given it its owner, and the destructor takes it out.   *)
(* The acceptor has a strand, on which detectors are made and do_stop     *)
(* runs; each connection has one for all else about it.                   *)
(***************************************************************************)
EXTENDS Naturals

CONSTANT Conns          \* connections

Kinds == {"detector", "http", "ws"}

Objects == Conns \X Kinds

VARIABLES
    acceptor,           \* is the acceptor open
    accept,             \* the outstanding async_accept
    next,               \* the connection it will give
    stage,              \* what a connection's current object is doing
    io,                 \* the asynchronous operation it waits for
    sock,               \* is the connection's socket open
    objs,               \* the objects that exist
    sessions,           \* sessions_
    stopping,           \* how far on_stop and do_stop of the listener are
    todo,               \* do_stop's local list v
    told,               \* history: objects whose on_stop was called
    missed,             \* history: those do_stop met without an owner
    stops,              \* objects whose own do_stop is posted
    crashed             \* a destroyed object was used, with a bad end

vars == <<acceptor, accept, next, stage, io, sock, objs, sessions,
          stopping, todo, told, missed, stops, crashed>>

conn == <<stage, io, sock>>
stopVars == <<stopping, todo, told, missed, stops, crashed>>
listening == <<acceptor, accept, next>>

NoConn == "none"

Init ==
    /\ acceptor = "open"
    /\ accept = "waiting"
    /\ next = NoConn
    /\ stage = [c \in Conns |-> "none"]
    /\ io = [c \in Conns |-> "none"]
    /\ sock = [c \in Conns |-> "none"]
    /\ objs = {}
    /\ sessions = {}
    /\ stopping = "no"
    /\ todo = {}
    /\ told = {}
    /\ missed = {}
    /\ stops = {}
    /\ crashed = FALSE

-----------------------------------------------------------------------------
\* The kind of object that drives a connection in a stage.  In make_http and
\* make_ws its handler is inside make_shared.
Driver(s) ==
    CASE s \in {"detect", "make_http"} -> "detector"
      [] s \in {"handshake", "read", "make_ws", "write", "shutdown"} -> "http"
      [] s = "ws" -> "ws"
      [] OTHER -> "none"

Drives(o) == Driver(stage[o[1]]) = o[2]

\* The object is entered in sessions_ and has no owner yet: weak_from gives an
\* empty pointer.
Unowned(o) ==
    \/ stage[o[1]] = "make_http" /\ o[2] = "http"
    \/ stage[o[1]] = "make_ws" /\ o[2] = "ws"

\* No handler of c is running, as far as the steps of this module tell.
Free(c) == stage[c] \notin {"make_http", "make_ws"}

\* An object lives as long as it is made, drives its connection or a posted
\* do_stop owns a reference to it; detector::do_stop has a plain pointer.
Referenced(o) == Unowned(o) \/ Drives(o) \/ (o \in stops /\ o[2] # "detector")

\* The constructor of each kind of session enters it in sessions_.
Make(o) ==
    /\ objs' = objs \cup {o}
    /\ sessions' = sessions \cup {o}

MakeNothing == UNCHANGED <<objs, sessions>>

\* The handler of c is inside make_shared for the next object of c, whose
\* constructor has run.
MakeNext(c, s, k) ==
    /\ stage' = [stage EXCEPT ![c] = s]
    /\ UNCHANGED <<io, sock>>
    /\ Make(<<c, k>>)

\* The current object of c starts to wait in stage s.
Await(c, s) ==
    /\ stage' = [stage EXCEPT ![c] = s]
    /\ io' = [io EXCEPT ![c] = "pending"]
    /\ UNCHANGED sock

\* The coroutine returns: nothing drives c any more, and its socket goes.
End(c) ==
    /\ stage' = [stage EXCEPT ![c] = "over"]
    /\ io' = [io EXCEPT ![c] = "none"]
    /\ sock' = [sock EXCEPT ![c] = "closed"]

\* A detector is made for the accepted connection c and starts to read.  That
\* is on the strand of the acceptor, so do_stop meets it with its owner.
RunDetector(c) ==
    /\ stage' = [stage EXCEPT ![c] = "detect"]
    /\ io' = [io EXCEPT ![c] = "pending"]
    /\ sock' = [sock EXCEPT ![c] = "open"]
    /\ Make(<<c, "detector">>)

\* handle_request always finds a response to write, if only an error.
handle_request(c) == Await(c, "write") /\ MakeNothing

\* A plain HTTP session shuts its socket down and returns, a TLS one starts the
\* closing handshake.
do_close(c) == (End(c) \/ Await(c, "shutdown")) /\ MakeNothing

-----------------------------------------------------------------------------
\* The outstanding async_accept gets a connection; the handler is queued.
Arrive(c) ==
    /\ accept = "waiting"
    /\ acceptor = "open"
    /\ stage[c] = "none"
    /\ accept' = "ready"
    /\ next' = c
    /\ UNCHANGED <<acceptor, conn, objs, sessions, stopVars>>

\* Faulty variant: the acceptor is not asked whether it is still open.
on_acceptLate ==
    /\ accept = "ready"
    /\ stopping \notin {"closed", "telling"}
    /\ RunDetector(next)
    /\ accept' = IF acceptor = "open" THEN "waiting" ELSE "over"
    /\ next' = NoConn
    /\ UNCHANGED <<acceptor, stopVars>>

\* listener_impl::operator() with a connection: make a detector for it and
\* accept the next one, unless the acceptor was closed in the meantime.  It is
\* on the strand of do_stop, and does not run in the middle of it.
on_accept ==
    /\ accept = "ready"
    /\ stopping \notin {"closed", "telling"}
    /\ IF acceptor = "closed"
       THEN accept' = "over" /\ End(next) /\ MakeNothing
       ELSE accept' = "waiting" /\ RunDetector(next)
    /\ next' = NoConn
    /\ UNCHANGED <<acceptor, stopVars>>

\* listener_impl::operator() with an error: the acceptor was closed, or the
\* system had no connection to give.  No other one is accepted after that.
on_accept_error ==
    /\ accept = "waiting"
    /\ stopping \notin {"closed", "telling"}
    /\ accept' = "over"
    /\ UNCHANGED <<acceptor, next, conn, objs, sessions, stopVars>>

\* An operation completes; its handler is queued on the connection's strand.
IoDone(c) ==
    /\ io[c] = "pending"
    /\ sock[c] = "open"
    /\ io' = [io EXCEPT ![c] = "ok"]
    /\ UNCHANGED <<listening, stage, sock, objs, sessions, stopVars>>

IoFails(c) ==
    /\ io[c] = "pending"
    /\ io' = [io EXCEPT ![c] = "error"]
    /\ UNCHANGED <<listening, stage, sock, objs, sessions, stopVars>>

\* Any session's handler that finds an error returns.
Fail(c) ==
    /\ io[c] = "error"
    /\ End(c)
    /\ MakeNothing
    /\ UNCHANGED <<listening, stopVars>>

\* detector::operator(): hand the stream to a plain or a TLS HTTP session
on_detect(c) ==
    /\ stage[c] = "detect"
    /\ io[c] = "ok"
    /\ MakeNext(c, "make_http", "http")
    /\ UNCHANGED <<listening, stopVars>>

\* run_http_session and run_https_session, when make_shared returns: the plain
\* session reads at once, the TLS one after a handshake.
run_http_session(c) ==
    /\ stage[c] = "make_http"
    /\ \E s \in {"read", "handshake"} : Await(c, s)
    /\ MakeNothing
    /\ UNCHANGED <<listening, stopVars>>

on_handshake(c) ==
    /\ stage[c] = "handshake"
    /\ io[c] = "ok"
    /\ Await(c, "read")
    /\ MakeNothing
    /\ UNCHANGED <<listening, stopVars>>

\* http_session_base::operator() with a request or the end of the stream: hand
\* the stream to a websocket session, write a response, or close
on_read(c) ==
    /\ stage[c] = "read"
    /\ io[c] = "ok"
    /\ MakeNext(c, "make_ws", "ws") \/ handle_request(c) \/ do_close(c)
    /\ UNCHANGED <<listening, stopVars>>

\* run_ws_session, when make_shared returns
run_ws_session(c) ==
    /\ stage[c] = "make_ws"
    /\ Await(c, "ws")
    /\ MakeNothing
    /\ UNCHANGED <<listening, stopVars>>

\* http_session_base::operator() with the response written: close or, when the
\* connection is to be kept alive, run off the end of the coroutine, which ends
\* the session all the same
on_write(c) ==
    /\ stage[c] = "write"
    /\ io[c] = "ok"
    /\ do_close(c) \/ (End(c) /\ MakeNothing)
    /\ UNCHANGED <<listening, stopVars>>

on_shutdown(c) ==
    /\ stage[c] = "shutdown"
    /\ io[c] = "ok"
    /\ End(c)
    /\ MakeNothing
    /\ UNCHANGED <<listening, stopVars>>

\* ws_session_base::operator() with a message: answer it and read the next
on_message(c) ==
    /\ stage[c] = "ws"
    /\ io[c] = "ok"
    /\ Await(c, "ws")
    /\ MakeNothing
    /\ UNCHANGED <<listening, stopVars>>

\* Faulty variant: the object does not leave sessions_.
DestroyStays(o) ==
    /\ o \in objs
    /\ ~Referenced(o)
    /\ objs' = objs \ {o}
    /\ UNCHANGED <<listening, conn, sessions, stopVars>>

\* The last reference is gone: the destructor takes the object out of
\* sessions_.
Destroy(o) ==
    /\ o \in objs
    /\ ~Referenced(o)
    /\ objs' = objs \ {o}
    /\ sessions' = sessions \ {o}
    /\ UNCHANGED <<listening, conn, stopVars>>

-----------------------------------------------------------------------------
\* listener_impl::on_stop, called once by server::run
on_stop ==
    /\ stopping = "no"
    /\ stopping' = "posted"
    /\ UNCHANGED <<listening, conn, objs, sessions, todo, told, missed, stops, crashed>>

\* listener_impl::do_stop: first it closes the acceptor ...
CloseAcceptor ==
    /\ stopping = "posted"
    /\ stopping' = "closed"
    /\ acceptor' = "closed"
    /\ UNCHANGED <<accept, next, conn, objs, sessions, todo, told, missed, stops, crashed>>

\* Faulty variant: an empty list is looked at.
TakeSessionsCleared ==
    /\ stopping = "closed"
    /\ stopping' = "telling"
    /\ todo' = {}
    /\ missed' = {o \in sessions : Unowned(o)}
    /\ sessions' = {}
    /\ UNCHANGED <<listening, conn, objs, told, stops, crashed>>

\* ... then it takes what is in sessions_, under the mutex, though of a session
\* without an owner it gets a pointer to nothing ...
TakeSessions ==
    /\ stopping = "closed"
    /\ stopping' = "telling"
    /\ todo' = {o \in sessions : ~Unowned(o)}
    /\ missed' = {o \in sessions : Unowned(o)}
    /\ sessions' = {}
    /\ UNCHANGED <<listening, conn, objs, told, stops, crashed>>

\* ... and calls on_stop of each session that still exists.
Tell(o) ==
    /\ stopping = "telling"
    /\ o \in todo
    /\ todo' = todo \ {o}
    /\ IF o \in objs /\ Referenced(o)
       THEN told' = told \cup {o} /\ stops' = stops \cup {o}
       ELSE UNCHANGED <<told, stops>>
    /\ UNCHANGED <<listening, conn, objs, sessions, stopping, missed, crashed>>

Told ==
    /\ stopping = "telling"
    /\ todo = {}
    /\ stopping' = "done"
    /\ UNCHANGED <<listening, conn, objs, sessions, todo, told, missed, stops, crashed>>

\* detector::do_stop cancels the operation that is outstanding, if one is.  The
\* detector may be gone: then the memory is used of an object that was destroyed,
\* which may do nothing or cancel what another one waits for (IoFails has that),
\* or be the end of the program.
do_stop_detector(c) ==
    LET o == <<c, "detector">> IN
    /\ o \in stops
    /\ Free(c)
    /\ stops' = stops \ {o}
    /\ io' = IF Drives(o) /\ io[c] = "pending" THEN [io EXCEPT ![c] = "error"] ELSE io
    /\ crashed' \in IF o \in objs THEN {FALSE} ELSE BOOLEAN
    /\ UNCHANGED <<listening, stage, sock, objs, sessions, stopping, todo, told, missed>>

\* Faulty variant: do_stop leaves the socket open.
do_stop_sessionNothing(c, k) ==
    /\ <<c, k>> \in stops
    /\ Free(c)
    /\ stops' = stops \ {<<c, k>>}
    /\ UNCHANGED <<listening, stage, io, sock, objs, sessions, stopping, todo, told,
                   missed, crashed>>

\* do_stop of an HTTP or a websocket session closes its socket, which is no
\* longer the connection's when the stream has been handed on.
do_stop_session(c, k) ==
    /\ <<c, k>> \in stops
    /\ Free(c)
    /\ stops' = stops \ {<<c, k>>}
    /\ sock' = IF Drives(<<c, k>>) THEN [sock EXCEPT ![c] = "closed"] ELSE sock
    /\ UNCHANGED <<listening, stage, io, objs, sessions, stopping, todo, told,
                   missed, crashed>>

-----------------------------------------------------------------------------
Handle(c) ==
    \/ Fail(c) \/ on_detect(c) \/ run_http_session(c) \/ on_handshake(c)
    \/ on_read(c) \/ run_ws_session(c) \/ on_write(c) \/ on_shutdown(c) \/ on_message(c)

Stop ==
    \/ CloseAcceptor \/ TakeSessions \/ Told
    \/ \E o \in Objects : Tell(o)

StopSessions ==
    \E c \in Conns :
        \/ do_stop_detector(c)
        \/ \E k \in {"http", "ws"} : do_stop_session(c, k)

Next ==
    /\ ~crashed
    /\ \/ on_accept \/ on_accept_error \/ on_stop \/ Stop
       \/ StopSessions
       \/ \E c \in Conns : Arrive(c) \/ IoDone(c) \/ IoFails(c) \/ Handle(c)
       \/ \E o \in Objects : Destroy(o)

Spec == Init /\ [][Next]_vars

\* Handlers run; destructors run; what waits on a closed socket fails; and a
\* detector or an HTTP session gives up after 30 seconds.  A websocket session
\* waits for as long as its client answers pings.
TimesOut(c) == (stage[c] # "ws" \/ sock[c] = "closed") /\ IoFails(c)

Fairness ==
    /\ WF_vars(~crashed /\ (on_accept \/ (acceptor = "closed" /\ on_accept_error)))
    /\ WF_vars(~crashed /\ Stop)
    /\ WF_vars(~crashed /\ StopSessions)
    /\ WF_vars(~crashed /\ \E o \in Objects : Destroy(o))
    /\ \A c \in Conns :
        WF_vars(~crashed /\ Handle(c)) /\ WF_vars(~crashed /\ TimesOut(c))

FairSpec == Spec /\ Fairness

-----------------------------------------------------------------------------
TypeOK ==
    /\ acceptor \in {"open", "closed"}
    /\ accept \in {"waiting", "ready", "over"}
    /\ next \in Conns \cup {NoConn}
    /\ stage \in [Conns -> {"none", "detect", "handshake", "read", "write",
                            "shutdown", "ws", "over", "make_http", "make_ws"}]
    /\ io \in [Conns -> {"none", "pending", "ok", "error"}]
    /\ sock \in [Conns -> {"none", "open", "closed"}]
    /\ objs \in SUBSET Objects
    /\ sessions \in SUBSET Objects
    /\ stopping \in {"no", "posted", "closed", "telling", "done"}
    /\ todo \in SUBSET Objects
    /\ told \in SUBSET Objects
    /\ missed \in SUBSET Objects
    /\ stops \in SUBSET Objects
    /\ crashed \in BOOLEAN
    /\ \A c \in Conns : Driver(stage[c]) # "none" <=> io[c] # "none"
    /\ \A c \in Conns : ~Free(c) => io[c] = "ok"

\* sessions_ holds raw pointers, and do_stop turns each into a weak pointer:
\* every one of them designates an object that exists, on whatever threads
\* sessions are made and destroyed meanwhile.
SessionsExist == sessions \subseteq objs

\* do_stop clears sessions_ while sessions come and go on other threads.  What
\* it loses is only a session that had no owner at that moment: every other
\* object that drives a connection, or is made to, is in sessions_, or in the
\* list that do_stop took from it and works through, or has had its on_stop
\* called.
OnlyUnownedMissed ==
    \A o \in Objects :
        Drives(o) \/ Unowned(o) =>
            o \in objs /\ o \in sessions \cup todo \cup told \cup missed

\* An accepted connection that waits for on_accept is one nobody drives yet.
AcceptedIsNew == accept = "ready" => next \in Conns /\ stage[next] = "none"

\* Until do_stop takes the sessions its list is empty and none has been missed,
\* so none is forgotten when it does.
NothingTaken == stopping \notin {"telling", "done"} => todo = {} /\ missed = {}

\* The inductive invariant
IInv == TypeOK /\ SessionsExist /\ OnlyUnownedMissed /\ AcceptedIsNew /\ NothingTaken

\* Once the acceptor is closed no new connection gets a detector, even when
\* its accept had completed before: "If the acceptor is closed it means we
\* stopped".
NoLateAccept ==
    [][acceptor = "closed" =>
        \A c \in Conns : <<c, "detector">> \in objs' => <<c, "detector">> \in objs]_vars

\* Stopping ends every session whose on_stop was called, though its do_stop may
\* come when it no longer owns the stream: none waits for its client.
ToldSessionsEnd == (stopping = "done") ~> (objs \cap told = {} \/ crashed)

\* session.hpp says of on_stop: "Called when the server stops."  So, once the
\* server has stopped its listener, no session keeps the program running.
StopReachesAll == (stopping = "done") ~> (objs = {} \/ crashed)
=============================================================================
