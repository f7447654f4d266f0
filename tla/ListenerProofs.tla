--------------------------- MODULE ListenerProofs ---------------------------
(***************************************************************************)
(* Proofs about Listener, for any number of connections: sessions_ holds   *)
(* existing sessions only, stopping overlooks no session that had an      *)
(* owner when it looked, and no connection is taken after the close; then *)
(* about Http, which implements it.                                       *)
(***************************************************************************)
EXTENDS Http, TLAPS

\* At the start there is neither a session nor an accepted connection.
LEMMA InitInv == Init => IInv
BY DEF Init, IInv, TypeOK, Free, SessionsExist, OnlyUnownedMissed, AcceptedIsNew,
  NothingTaken, Drives, Unowned, Driver, Objects, Kinds

\* Every handler of the listener, of a detector and of a session keeps it.
LEMMA NextInv == IInv /\ [Next]_vars => IInv'
<1> SUFFICES ASSUME IInv, [Next]_vars PROVE IInv'
  OBVIOUS
<1> USE DEF IInv
<1>1. ASSUME on_accept PROVE IInv'
  <2>1. TypeOK'
    BY <1>1 DEF on_accept, RunDetector, End, Make, MakeNothing, stopVars, TypeOK, Free,
      Driver, Objects, Kinds, AcceptedIsNew
  <2>2. SessionsExist'
    BY <1>1 DEF on_accept, RunDetector, End, Make, MakeNothing, stopVars, SessionsExist
  <2>3. OnlyUnownedMissed'
    BY <1>1 DEF on_accept, RunDetector, End, Make, MakeNothing, stopVars,
      OnlyUnownedMissed, Drives, Unowned, TypeOK, Free, Driver, Objects, Kinds, AcceptedIsNew
  <2>4. AcceptedIsNew'
    BY <1>1 DEF on_accept, RunDetector, End, Make, MakeNothing, stopVars,
      AcceptedIsNew, TypeOK, Free
  <2>5. NothingTaken'
    BY <1>1 DEF on_accept, RunDetector, End, Make, MakeNothing, stopVars, NothingTaken
  <2> QED
    BY <2>1, <2>2, <2>3, <2>4, <2>5
<1>2. ASSUME on_accept_error PROVE IInv'
  <2>1. TypeOK'
    BY <1>2 DEF on_accept_error, conn, stopVars, TypeOK, Free
  <2>2. SessionsExist'
    BY <1>2 DEF on_accept_error, conn, stopVars, SessionsExist
  <2>3. OnlyUnownedMissed'
    BY <1>2 DEF on_accept_error, conn, stopVars, OnlyUnownedMissed, Drives, Unowned
  <2>4. AcceptedIsNew'
    BY <1>2 DEF on_accept_error, conn, stopVars, AcceptedIsNew
  <2>5. NothingTaken'
    BY <1>2 DEF on_accept_error, conn, stopVars, NothingTaken
  <2> QED
    BY <2>1, <2>2, <2>3, <2>4, <2>5
<1>3. ASSUME on_stop PROVE IInv'
  <2>1. TypeOK'
    BY <1>3 DEF on_stop, listening, conn, TypeOK, Free
  <2>2. SessionsExist'
    BY <1>3 DEF on_stop, listening, conn, SessionsExist
  <2>3. OnlyUnownedMissed'
    BY <1>3 DEF on_stop, listening, conn, OnlyUnownedMissed, Drives, Unowned
  <2>4. AcceptedIsNew'
    BY <1>3 DEF on_stop, listening, conn, AcceptedIsNew
  <2>5. NothingTaken'
    BY <1>3 DEF on_stop, listening, conn, NothingTaken
  <2> QED
    BY <2>1, <2>2, <2>3, <2>4, <2>5
<1>4. ASSUME CloseAcceptor PROVE IInv'
  <2>1. TypeOK'
    BY <1>4 DEF CloseAcceptor, conn, TypeOK, Free
  <2>2. SessionsExist'
    BY <1>4 DEF CloseAcceptor, conn, SessionsExist
  <2>3. OnlyUnownedMissed'
    BY <1>4 DEF CloseAcceptor, conn, OnlyUnownedMissed, Drives, Unowned
  <2>4. AcceptedIsNew'
    BY <1>4 DEF CloseAcceptor, conn, AcceptedIsNew
  <2>5. NothingTaken'
    BY <1>4 DEF CloseAcceptor, conn, NothingTaken
  <2> QED
    BY <2>1, <2>2, <2>3, <2>4, <2>5
<1>5. ASSUME TakeSessions PROVE IInv'
  <2>1. TypeOK'
    BY <1>5 DEF TakeSessions, listening, conn, TypeOK, Free
  <2>2. SessionsExist'
    BY <1>5 DEF TakeSessions, listening, conn, SessionsExist
  <2>3. OnlyUnownedMissed'
    BY <1>5 DEF TakeSessions, listening, conn, OnlyUnownedMissed, Drives, Unowned, NothingTaken
  <2>4. AcceptedIsNew'
    BY <1>5 DEF TakeSessions, listening, conn, AcceptedIsNew
  <2>5. NothingTaken'
    BY <1>5 DEF TakeSessions, listening, conn, NothingTaken
  <2> QED
    BY <2>1, <2>2, <2>3, <2>4, <2>5
<1>6. ASSUME Told PROVE IInv'
  <2>1. TypeOK'
    BY <1>6 DEF Told, listening, conn, TypeOK, Free
  <2>2. SessionsExist'
    BY <1>6 DEF Told, listening, conn, SessionsExist
  <2>3. OnlyUnownedMissed'
    BY <1>6 DEF Told, listening, conn, OnlyUnownedMissed, Drives, Unowned
  <2>4. AcceptedIsNew'
    BY <1>6 DEF Told, listening, conn, AcceptedIsNew
  <2>5. NothingTaken'
    BY <1>6 DEF Told, listening, conn, NothingTaken
  <2> QED
    BY <2>1, <2>2, <2>3, <2>4, <2>5
<1>7. ASSUME NEW o \in Objects, Tell(o) PROVE IInv'
  <2>1. TypeOK'
    BY <1>7 DEF Tell, listening, conn, TypeOK, Free, Objects, Kinds
  <2>2. SessionsExist'
    BY <1>7 DEF Tell, listening, conn, SessionsExist
  <2>3. OnlyUnownedMissed'
    BY <1>7 DEF Tell, listening, conn, OnlyUnownedMissed, Drives, Unowned, Referenced
  <2>4. AcceptedIsNew'
    BY <1>7 DEF Tell, listening, conn, AcceptedIsNew
  <2>5. NothingTaken'
    BY <1>7 DEF Tell, listening, conn, NothingTaken
  <2> QED
    BY <2>1, <2>2, <2>3, <2>4, <2>5
<1>8. ASSUME NEW c \in Conns, Arrive(c) PROVE IInv'
  <2>1. TypeOK'
    BY <1>8 DEF Arrive, conn, stopVars, TypeOK, Free
  <2>2. SessionsExist'
    BY <1>8 DEF Arrive, conn, stopVars, SessionsExist
  <2>3. OnlyUnownedMissed'
    BY <1>8 DEF Arrive, conn, stopVars, OnlyUnownedMissed, Drives, Unowned
  <2>4. AcceptedIsNew'
    BY <1>8 DEF Arrive, conn, stopVars, AcceptedIsNew
  <2>5. NothingTaken'
    BY <1>8 DEF Arrive, conn, stopVars, NothingTaken
  <2> QED
    BY <2>1, <2>2, <2>3, <2>4, <2>5
<1>9. ASSUME NEW c \in Conns, IoDone(c) PROVE IInv'
  <2>1. TypeOK'
    BY <1>9 DEF IoDone, listening, stopVars, TypeOK, Free, Drives, Unowned, Driver
  <2>2. SessionsExist'
    BY <1>9 DEF IoDone, listening, stopVars, SessionsExist
  <2>3. OnlyUnownedMissed'
    BY <1>9 DEF IoDone, listening, stopVars, OnlyUnownedMissed, Drives, Unowned
  <2>4. AcceptedIsNew'
    BY <1>9 DEF IoDone, listening, stopVars, AcceptedIsNew
  <2>5. NothingTaken'
    BY <1>9 DEF IoDone, listening, stopVars, NothingTaken
  <2> QED
    BY <2>1, <2>2, <2>3, <2>4, <2>5
<1>10. ASSUME NEW c \in Conns, IoFails(c) PROVE IInv'
  <2>1. TypeOK'
    BY <1>10 DEF IoFails, listening, stopVars, TypeOK, Free, Drives, Unowned, Driver
  <2>2. SessionsExist'
    BY <1>10 DEF IoFails, listening, stopVars, SessionsExist
  <2>3. OnlyUnownedMissed'
    BY <1>10 DEF IoFails, listening, stopVars, OnlyUnownedMissed, Drives, Unowned
  <2>4. AcceptedIsNew'
    BY <1>10 DEF IoFails, listening, stopVars, AcceptedIsNew
  <2>5. NothingTaken'
    BY <1>10 DEF IoFails, listening, stopVars, NothingTaken
  <2> QED
    BY <2>1, <2>2, <2>3, <2>4, <2>5
<1>11. ASSUME NEW c \in Conns, Fail(c) PROVE IInv'
  <2>1. TypeOK'
    BY <1>11 DEF Fail, End, MakeNothing, listening, stopVars, TypeOK, Free, Driver
  <2>2. SessionsExist'
    BY <1>11 DEF Fail, End, MakeNothing, listening, stopVars, SessionsExist
  <2>3. OnlyUnownedMissed'
    BY <1>11 DEF Fail, End, MakeNothing, listening, stopVars, OnlyUnownedMissed,
      Drives, Unowned, TypeOK, Free, Driver, Objects, Kinds
  <2>4. AcceptedIsNew'
    BY <1>11 DEF Fail, End, MakeNothing, listening, stopVars, AcceptedIsNew, TypeOK, Free,
      Driver
  <2>5. NothingTaken'
    BY <1>11 DEF Fail, End, MakeNothing, listening, stopVars, NothingTaken
  <2> QED
    BY <2>1, <2>2, <2>3, <2>4, <2>5
<1>12. ASSUME NEW c \in Conns, on_detect(c) PROVE IInv'
  <2>1. TypeOK'
    BY <1>12 DEF on_detect, MakeNext, Make, listening, stopVars,
      TypeOK, Free, Driver, Objects, Kinds
  <2>2. SessionsExist'
    BY <1>12 DEF on_detect, MakeNext, Make, listening, stopVars,
      SessionsExist
  <2>3. OnlyUnownedMissed'
    BY <1>12 DEF on_detect, MakeNext, Make, listening, stopVars,
      OnlyUnownedMissed, Drives, Unowned, TypeOK, Free, Driver, Objects, Kinds
  <2>4. AcceptedIsNew'
    BY <1>12 DEF on_detect, MakeNext, Make, listening, stopVars,
      AcceptedIsNew, TypeOK, Free
  <2>5. NothingTaken'
    BY <1>12 DEF on_detect, MakeNext, Make, listening, stopVars,
      NothingTaken
  <2> QED
    BY <2>1, <2>2, <2>3, <2>4, <2>5
<1>13. ASSUME NEW c \in Conns, on_handshake(c) PROVE IInv'
  <2>1. TypeOK'
    BY <1>13 DEF on_handshake, Await, MakeNothing, listening, stopVars, TypeOK, Free, Driver
  <2>2. SessionsExist'
    BY <1>13 DEF on_handshake, Await, MakeNothing, listening, stopVars, SessionsExist
  <2>3. OnlyUnownedMissed'
    BY <1>13 DEF on_handshake, Await, MakeNothing, listening, stopVars,
      OnlyUnownedMissed, Drives, Unowned, TypeOK, Free, Driver
  <2>4. AcceptedIsNew'
    BY <1>13 DEF on_handshake, Await, MakeNothing, listening, stopVars, AcceptedIsNew,
      TypeOK, Free
  <2>5. NothingTaken'
    BY <1>13 DEF on_handshake, Await, MakeNothing, listening, stopVars, NothingTaken
  <2> QED
    BY <2>1, <2>2, <2>3, <2>4, <2>5
<1>14. ASSUME NEW c \in Conns, on_read(c) PROVE IInv'
  <2>1. TypeOK'
    BY <1>14 DEF on_read, MakeNext, handle_request, do_close, Await, End, Make,
      MakeNothing, listening, stopVars, TypeOK, Free, Driver, Objects, Kinds
  <2>2. SessionsExist'
    BY <1>14 DEF on_read, MakeNext, handle_request, do_close, Await, End, Make,
      MakeNothing, listening, stopVars, SessionsExist
  <2>3. OnlyUnownedMissed'
    BY <1>14 DEF on_read, MakeNext, handle_request, do_close, Await, End, Make,
      MakeNothing, listening, stopVars, OnlyUnownedMissed, Drives, Unowned, TypeOK, Free, Driver,
      Objects, Kinds
  <2>4. AcceptedIsNew'
    BY <1>14 DEF on_read, MakeNext, handle_request, do_close, Await, End, Make,
      MakeNothing, listening, stopVars, AcceptedIsNew, TypeOK, Free
  <2>5. NothingTaken'
    BY <1>14 DEF on_read, MakeNext, handle_request, do_close, Await, End, Make,
      MakeNothing, listening, stopVars, NothingTaken
  <2> QED
    BY <2>1, <2>2, <2>3, <2>4, <2>5
<1>15. ASSUME NEW c \in Conns, on_write(c) PROVE IInv'
  <2>1. TypeOK'
    BY <1>15 DEF on_write, do_close, Await, End, MakeNothing, listening, stopVars,
      TypeOK, Free, Driver
  <2>2. SessionsExist'
    BY <1>15 DEF on_write, do_close, Await, End, MakeNothing, listening, stopVars,
      SessionsExist
  <2>3. OnlyUnownedMissed'
    BY <1>15 DEF on_write, do_close, Await, End, MakeNothing, listening, stopVars,
      OnlyUnownedMissed, Drives, Unowned, TypeOK, Free, Driver, Objects, Kinds
  <2>4. AcceptedIsNew'
    BY <1>15 DEF on_write, do_close, Await, End, MakeNothing, listening, stopVars,
      AcceptedIsNew, TypeOK, Free
  <2>5. NothingTaken'
    BY <1>15 DEF on_write, do_close, Await, End, MakeNothing, listening, stopVars,
      NothingTaken
  <2> QED
    BY <2>1, <2>2, <2>3, <2>4, <2>5
<1>16. ASSUME NEW c \in Conns, on_shutdown(c) PROVE IInv'
  <2>1. TypeOK'
    BY <1>16 DEF on_shutdown, End, MakeNothing, listening, stopVars, TypeOK, Free, Driver
  <2>2. SessionsExist'
    BY <1>16 DEF on_shutdown, End, MakeNothing, listening, stopVars, SessionsExist
  <2>3. OnlyUnownedMissed'
    BY <1>16 DEF on_shutdown, End, MakeNothing, listening, stopVars, OnlyUnownedMissed,
      Drives, Unowned, TypeOK, Free, Driver, Objects, Kinds
  <2>4. AcceptedIsNew'
    BY <1>16 DEF on_shutdown, End, MakeNothing, listening, stopVars, AcceptedIsNew,
      TypeOK, Free
  <2>5. NothingTaken'
    BY <1>16 DEF on_shutdown, End, MakeNothing, listening, stopVars, NothingTaken
  <2> QED
    BY <2>1, <2>2, <2>3, <2>4, <2>5
<1>17. ASSUME NEW c \in Conns, on_message(c) PROVE IInv'
  <2>1. TypeOK'
    BY <1>17 DEF on_message, Await, MakeNothing, listening, stopVars, TypeOK, Free, Driver
  <2>2. SessionsExist'
    BY <1>17 DEF on_message, Await, MakeNothing, listening, stopVars, SessionsExist
  <2>3. OnlyUnownedMissed'
    BY <1>17 DEF on_message, Await, MakeNothing, listening, stopVars,
      OnlyUnownedMissed, Drives, Unowned, TypeOK, Free, Driver
  <2>4. AcceptedIsNew'
    BY <1>17 DEF on_message, Await, MakeNothing, listening, stopVars, AcceptedIsNew,
      TypeOK, Free
  <2>5. NothingTaken'
    BY <1>17 DEF on_message, Await, MakeNothing, listening, stopVars, NothingTaken
  <2> QED
    BY <2>1, <2>2, <2>3, <2>4, <2>5
<1>18. ASSUME NEW c \in Conns, do_stop_detector(c) PROVE IInv'
  <2>1. TypeOK'
    BY <1>18 DEF do_stop_detector, listening, TypeOK, Free, Drives, Unowned, Driver
  <2>2. SessionsExist'
    BY <1>18 DEF do_stop_detector, listening, SessionsExist
  <2>3. OnlyUnownedMissed'
    BY <1>18 DEF do_stop_detector, listening, OnlyUnownedMissed, Drives, Unowned
  <2>4. AcceptedIsNew'
    BY <1>18 DEF do_stop_detector, listening, AcceptedIsNew
  <2>5. NothingTaken'
    BY <1>18 DEF do_stop_detector, listening, NothingTaken
  <2> QED
    BY <2>1, <2>2, <2>3, <2>4, <2>5
<1>19. ASSUME NEW c \in Conns, NEW k \in {"http", "ws"}, do_stop_session(c, k) PROVE IInv'
  <2>1. TypeOK'
    BY <1>19 DEF do_stop_session, listening, TypeOK, Free
  <2>2. SessionsExist'
    BY <1>19 DEF do_stop_session, listening, SessionsExist
  <2>3. OnlyUnownedMissed'
    BY <1>19 DEF do_stop_session, listening, OnlyUnownedMissed, Drives, Unowned
  <2>4. AcceptedIsNew'
    BY <1>19 DEF do_stop_session, listening, AcceptedIsNew
  <2>5. NothingTaken'
    BY <1>19 DEF do_stop_session, listening, NothingTaken
  <2> QED
    BY <2>1, <2>2, <2>3, <2>4, <2>5
<1>20. ASSUME NEW o \in Objects, Destroy(o) PROVE IInv'
  <2>1. TypeOK'
    BY <1>20 DEF Destroy, Referenced, listening, conn, stopVars, TypeOK, Free
  <2>2. SessionsExist'
    BY <1>20 DEF Destroy, Referenced, listening, conn, stopVars, SessionsExist
  <2>3. OnlyUnownedMissed'
    BY <1>20 DEF Destroy, Referenced, listening, conn, stopVars, OnlyUnownedMissed,
      Drives, Unowned
  <2>4. AcceptedIsNew'
    BY <1>20 DEF Destroy, Referenced, listening, conn, stopVars, AcceptedIsNew
  <2>5. NothingTaken'
    BY <1>20 DEF Destroy, Referenced, listening, conn, stopVars, NothingTaken
  <2> QED
    BY <2>1, <2>2, <2>3, <2>4, <2>5
<1>21. ASSUME NEW c \in Conns, run_http_session(c) PROVE IInv'
  <2>1. TypeOK'
    BY <1>21 DEF run_http_session, Await, MakeNothing, listening, stopVars,
      TypeOK, Free, Driver
  <2>2. SessionsExist'
    BY <1>21 DEF run_http_session, Await, MakeNothing, listening, stopVars,
      SessionsExist
  <2>3. OnlyUnownedMissed'
    BY <1>21 DEF run_http_session, Await, MakeNothing, listening, stopVars,
      OnlyUnownedMissed,
      Drives, Unowned, TypeOK, Free, Driver
  <2>4. AcceptedIsNew'
    BY <1>21 DEF run_http_session, Await, MakeNothing, listening, stopVars,
      AcceptedIsNew, TypeOK
  <2>5. NothingTaken'
    BY <1>21 DEF run_http_session, Await, MakeNothing, listening, stopVars,
      NothingTaken
  <2> QED
    BY <2>1, <2>2, <2>3, <2>4, <2>5
<1>22. ASSUME NEW c \in Conns, run_ws_session(c) PROVE IInv'
  <2>1. TypeOK'
    BY <1>22 DEF run_ws_session, Await, MakeNothing, listening, stopVars, TypeOK, Free, Driver
  <2>2. SessionsExist'
    BY <1>22 DEF run_ws_session, Await, MakeNothing, listening, stopVars,
      SessionsExist
  <2>3. OnlyUnownedMissed'
    BY <1>22 DEF run_ws_session, Await, MakeNothing, listening, stopVars,
      OnlyUnownedMissed,
      Drives, Unowned, TypeOK, Free, Driver
  <2>4. AcceptedIsNew'
    BY <1>22 DEF run_ws_session, Await, MakeNothing, listening, stopVars,
      AcceptedIsNew, TypeOK
  <2>5. NothingTaken'
    BY <1>22 DEF run_ws_session, Await, MakeNothing, listening, stopVars,
      NothingTaken
  <2> QED
    BY <2>1, <2>2, <2>3, <2>4, <2>5
<1>23. ASSUME UNCHANGED vars PROVE IInv'
  BY <1>23 DEF vars, TypeOK, Free, SessionsExist, OnlyUnownedMissed, AcceptedIsNew,
    NothingTaken, Drives, Unowned
<1> QED
  BY <1>1, <1>2, <1>3, <1>4, <1>5, <1>6, <1>7, <1>8, <1>9, <1>10, <1>11, <1>12,
    <1>13, <1>14, <1>15, <1>16, <1>17, <1>18, <1>19, <1>20, <1>21, <1>22, <1>23
    DEF Next, Stop, StopSessions, Handle

\* The inductive invariant holds in every reachable state.
THEOREM Invariance == Spec => []IInv
BY InitInv, NextInv, PTL DEF Spec

-----------------------------------------------------------------------------
\* The acceptor, the sessions and the steps of stopping keep their types.
THEOREM TypeCorrect == Spec => []TypeOK
BY Invariance, PTL DEF IInv

\* sessions_ never holds a pointer to a session that has been destroyed.
THEOREM SessionsExistHolds == Spec => []SessionsExist
BY Invariance, PTL DEF IInv

\* Whatever drives a connection, or is made to, is in sessions_, in the list
\* do_stop took from it, has been told to stop, or had no owner when do_stop met
\* it: nothing else makes stopping overlook a session.
THEOREM OnlyUnownedMissedHolds == Spec => []OnlyUnownedMissed
BY Invariance, PTL DEF IInv

\* The objects of an accepted connection are made by on_accept alone, which
\* returns when it finds the acceptor closed.
LEMMA StepNoLateAccept ==
    IInv /\ [Next]_vars =>
        [acceptor = "closed" =>
            \A c \in Conns : <<c, "detector">> \in objs' => <<c, "detector">> \in objs]_vars
<1> SUFFICES ASSUME IInv, Next, acceptor = "closed", NEW c \in Conns,
                    <<c, "detector">> \in objs'
             PROVE  <<c, "detector">> \in objs
  OBVIOUS
<1>1. ASSUME on_accept PROVE UNCHANGED objs
  BY <1>1 DEF on_accept, MakeNothing
<1>2. ASSUME NEW d \in Conns, Handle(d)
      PROVE  objs' \subseteq objs \cup {<<d, "http">>, <<d, "ws">>}
  BY <1>2 DEF Handle, Fail, on_detect, on_handshake, on_read, on_write, on_shutdown,
    on_message, run_http_session, run_ws_session, handle_request, do_close, MakeNext,
    Make, MakeNothing
<1>3. ASSUME NEW o \in Objects, Destroy(o) PROVE objs' \subseteq objs
  BY <1>3 DEF Destroy
<1>4. ASSUME \/ on_accept_error \/ on_stop \/ Stop \/ StopSessions
             \/ \E d \in Conns : Arrive(d) \/ IoDone(d) \/ IoFails(d)
      PROVE  UNCHANGED objs
  BY <1>4 DEF on_accept_error, on_stop, Stop, StopSessions, CloseAcceptor,
    TakeSessions, Tell, Told, do_stop_detector, do_stop_session, Arrive, IoDone,
    IoFails
<1> QED
  BY <1>1, <1>2, <1>3, <1>4 DEF Next

\* Once the acceptor is closed no connection gets a detector.
THEOREM NoLateAcceptHolds == Spec => NoLateAccept
BY Invariance, StepNoLateAccept, PTL DEF Spec, NoLateAccept
-----------------------------------------------------------------------------
(* Http: its steps are steps of Listener, so that what is proved of the   *)
(* registry holds for it too, and the deadline of every stream is where   *)
(* it belongs.                                                             *)

\* do_close of a plain or of a TLS session is one of the closes of Listener.
LEMMA CloseIsClose ==
    ASSUME NEW c \in Conns, do_close_typed(c)
    PROVE  do_close(c) /\ timer' \in {timer, [timer EXCEPT ![c] = TRUE]}
BY DEF do_close_typed, do_close, expires_after

\* Each step of the detailed sessions is a step of Listener.
LEMMA StepImplements == [NextH]_hvars => [Next]_vars
<1> SUFFICES ASSUME [NextH]_hvars PROVE [Next]_vars
  OBVIOUS
<1>1. ASSUME ~crashed, on_acceptH PROVE Next
  BY <1>1 DEF on_acceptH, Next
<1>2. ASSUME ~crashed, NEW c \in Conns, HandleH(c) PROVE Next
  <2>1. ASSUME run_http_sessionH(c) \/ on_handshakeH(c) PROVE Handle(c)
    BY <2>1 DEF run_http_sessionH, on_handshakeH, Handle
  <2>2. ASSUME on_readH(c) PROVE Handle(c)
    <3>1. on_read(c)
      BY <2>2, CloseIsClose DEF on_readH, on_read, handle_request_keeps
    <3> QED
      BY <3>1 DEF Handle
  <2>3. ASSUME on_writeH(c) PROVE Handle(c)
    <3>1. on_write(c)
      BY <2>3, CloseIsClose DEF on_writeH, on_write
    <3> QED
      BY <3>1 DEF Handle
  <2>4. ASSUME on_detect(c) \/ run_ws_session(c) \/ Fail(c) \/ on_shutdown(c) \/ on_message(c)
        PROVE  Handle(c)
    BY <2>4 DEF Handle
  <2> QED
    BY <1>2, <2>1, <2>2, <2>3, <2>4 DEF HandleH, Next
<1>3. ASSUME ~crashed, Others PROVE Next
  BY <1>3 DEF Others, Next
<1>4. ASSUME UNCHANGED hvars PROVE UNCHANGED vars
  BY <1>4 DEF hvars
<1> QED
  BY <1>1, <1>2, <1>3, <1>4 DEF NextH

\* The HTTP sessions with their deadlines and responses implement the sessions
\* of Listener.
THEOREM ImplementsListener == SpecH => Spec
<1>1. InitH => Init
  BY DEF InitH
<1> QED
  BY <1>1, StepImplements, PTL DEF SpecH, Spec

-----------------------------------------------------------------------------
\* The strengthening of DeadlineFitsStage: the deadline fits also while a
\* handler is queued, because some handlers go on under the one that is set.
Waits == {"detect", "handshake", "read", "write", "shutdown"}

Timed ==
    /\ timer \in [Conns -> BOOLEAN]
    /\ \A c \in Conns :
        /\ stage[c] \in Waits => timer[c]
        /\ stage[c] \in {"make_ws", "ws"} => ~timer[c]

\* Every handler sets, takes back or keeps the deadline as its next wait needs.
LEMMA NextTimed == IInv /\ Timed /\ [NextH]_hvars => Timed'
<1> SUFFICES ASSUME IInv, Timed, [NextH]_hvars PROVE Timed'
  OBVIOUS
<1>t. /\ stage \in [Conns -> {"none", "detect", "handshake", "read", "write",
                              "shutdown", "ws", "over", "make_http", "make_ws"}]
      /\ accept = "ready" => next \in Conns
      /\ acceptor \in {"open", "closed"}
      /\ timer \in [Conns -> BOOLEAN]
  BY DEF IInv, TypeOK, AcceptedIsNew, Timed
\* What becomes of one connection does not matter to the others.
<1>c. ASSUME NEW c \in Conns, NEW s, NEW b \in BOOLEAN,
             stage' = [stage EXCEPT ![c] = s], timer' = [timer EXCEPT ![c] = b],
             s \in Waits => b, s \in {"make_ws", "ws"} => ~b
      PROVE  Timed'
  BY <1>t, <1>c DEF Timed
<1>k. ASSUME NEW c \in Conns, NEW s,
             stage' = [stage EXCEPT ![c] = s], timer' = timer,
             s \in Waits => timer[c], s \in {"make_ws", "ws"} => ~timer[c]
      PROVE  Timed'
  BY <1>t, <1>k DEF Timed
<1>e. ASSUME NEW c \in Conns, End(c), timer' = timer PROVE Timed'
  BY <1>k, <1>e DEF End, Waits
<1>d. ASSUME NEW c \in Conns, do_close_typed(c) PROVE Timed'
  BY <1>c, <1>e, <1>d DEF do_close_typed, Await, expires_after, Waits
<1>1. ASSUME on_acceptH PROVE Timed'
  <2>1. next \in Conns
    BY <1>1, <1>t DEF on_acceptH, on_accept
  <2>2. CASE acceptor = "open"
    BY <1>1, <1>c, <2>1, <2>2 DEF on_acceptH, on_accept, RunDetector, expires_after, Waits
  <2>3. CASE acceptor = "closed"
    BY <1>1, <1>e, <2>1, <2>3 DEF on_acceptH, on_accept
  <2> QED
    BY <1>t, <2>2, <2>3
<1>2. ASSUME NEW c \in Conns, run_http_sessionH(c) PROVE Timed'
  BY <1>2, <1>c DEF run_http_sessionH, run_http_session, Await, expires_after, Waits
<1>3. ASSUME NEW c \in Conns, on_handshakeH(c) PROVE Timed'
  BY <1>3, <1>c DEF on_handshakeH, on_handshake, Await, expires_after, Waits
<1>4. ASSUME NEW c \in Conns, on_readH(c) PROVE Timed'
  <2>1. ASSUME MakeNext(c, "make_ws", "ws"), expires_never(c) PROVE Timed'
    BY <2>1, <1>c DEF MakeNext, expires_never, Waits
  <2>2. ASSUME handle_request_keeps(c) PROVE Timed'
    BY <2>2, <1>4, <1>k DEF on_readH, handle_request_keeps, handle_request, Await, Waits, Timed
  <2> QED
    BY <1>4, <1>d, <2>1, <2>2 DEF on_readH
<1>5. ASSUME NEW c \in Conns, on_writeH(c) PROVE Timed'
  BY <1>5, <1>d, <1>e DEF on_writeH
<1>6. ASSUME NEW c \in Conns, Fail(c) \/ on_shutdown(c), timer' = timer PROVE Timed'
  BY <1>6, <1>e DEF Fail, on_shutdown
<1>7. ASSUME NEW c \in Conns, run_ws_session(c) \/ on_message(c), timer' = timer
      PROVE  Timed'
  BY <1>7, <1>k DEF run_ws_session, on_message, Await, Waits, Timed
<1>10. ASSUME NEW c \in Conns, on_detect(c), timer' = timer PROVE Timed'
  BY <1>10, <1>k DEF on_detect, MakeNext, Waits
<1>8. ASSUME stage' = stage, timer' = timer PROVE Timed'
  BY <1>8 DEF Timed
<1>9. ASSUME Others PROVE Timed'
  <2>1. stage' = stage
    BY <1>9 DEF Others, on_accept_error, on_stop, Stop, StopSessions, Arrive, IoDone,
      IoFails, Destroy, CloseAcceptor, TakeSessions, Told, Tell, do_stop_detector,
      do_stop_session, conn
  <2> QED
    BY <1>8, <1>9, <2>1 DEF Others
<1> QED
  BY <1>1, <1>2, <1>3, <1>4, <1>5, <1>6, <1>7, <1>8, <1>9, <1>10
    DEF NextH, HandleH, hvars, vars

\* No session waits for its client without a deadline, and none is left on a
\* websocket stream.
THEOREM DeadlineFitsStageHolds == SpecH => []DeadlineFitsStage
<1>1. InitH => Timed
  BY DEF InitH, Init, Timed, Waits
<1>2. IInv /\ Timed => DeadlineFitsStage
  <2> SUFFICES ASSUME IInv, Timed, NEW c \in Conns, io[c] = "pending"
               PROVE  timer[c] <=> stage[c] # "ws"
    BY DEF DeadlineFitsStage
  <2>1. stage[c] \in Waits \cup {"ws"}
    BY DEF IInv, TypeOK, Free, Driver, Waits
  <2>2. timer[c] \in BOOLEAN
    BY DEF Timed
  <2> QED
    BY <2>1, <2>2 DEF Timed, Waits
<1> QED
  BY <1>1, <1>2, ImplementsListener, Invariance, NextTimed, PTL DEF SpecH
=============================================================================
