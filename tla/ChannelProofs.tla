--------------------------- MODULE ChannelProofs ---------------------------
(***************************************************************************)
(* Proofs about Channel, for any sets of users and channels: the lists of *)
(* channels and users agree, no channel ever holds a pointer to a freed   *)
(* user, and the channels implement Roster.                               *)
(***************************************************************************)
EXTENDS Channel, TLAPS

\* At the start no user exists and every list is empty.
LEMMA InitInv == Init => IInv
BY SysAssumption DEF Init, IInv, TypeOK, Lists, Noting, Lifetime, MembersNamed

\* Every step of insert, erase, ~user and of a session keeps the invariant.
LEMMA NextInv == IInv /\ [Next]_vars => IInv'
<1> SUFFICES ASSUME IInv, [Next]_vars PROVE IInv'
  OBVIOUS
<1> USE SysAssumption DEF IInv
<1>1. ASSUME NEW u \in Users, Connect(u) PROVE IInv'
  <2>1. TypeOK'
    BY <1>1 DEF Connect, TypeOK
  <2>2. Lists'
    BY <1>1 DEF Connect, TypeOK, Lists, Noting, Lifetime
  <2>3. Lifetime'
    BY <1>1 DEF Connect, TypeOK, Lifetime
  <2>4. MembersNamed'
    BY <1>1 DEF Connect, TypeOK, MembersNamed, Lists, Noting, Lifetime
  <2> QED
    BY <2>1, <2>2, <2>3, <2>4
<1>2. ASSUME NEW u \in Users, do_identify(u) PROVE IInv'
  <2>1. TypeOK'
    BY <1>2 DEF do_identify, InsertList, Ready, TypeOK
  <2>2. Lists'
    BY <1>2 DEF do_identify, InsertList, Ready, TypeOK, Lists, Noting
  <2>3. Lifetime'
    BY <1>2 DEF do_identify, InsertList, Ready, TypeOK, Lifetime
  <2>4. MembersNamed'
    BY <1>2 DEF do_identify, InsertList, Ready, TypeOK, MembersNamed
  <2> QED
    BY <2>1, <2>2, <2>3, <2>4
<1>3. ASSUME NEW u \in Users, NEW c \in Channels, do_join(u, c) PROVE IInv'
  <2>1. TypeOK'
    BY <1>3 DEF do_join, InsertList, Ready, TypeOK
  <2>2. Lists'
    BY <1>3 DEF do_join, InsertList, Ready, TypeOK, Lists, Noting
  <2>3. Lifetime'
    BY <1>3 DEF do_join, InsertList, Ready, TypeOK, Lifetime
  <2>4. MembersNamed'
    BY <1>3 DEF do_join, InsertList, Ready, TypeOK, MembersNamed
  <2> QED
    BY <2>1, <2>2, <2>3, <2>4
<1>4. ASSUME NEW u \in Users, NEW c \in Channels, do_leave(u, c) PROVE IInv'
  <2>1. TypeOK'
    BY <1>4 DEF do_leave, EraseList, Ready, TypeOK
  <2>2. Lists'
    BY <1>4 DEF do_leave, EraseList, Ready, TypeOK, Lists, Noting
  <2>3. Lifetime'
    BY <1>4 DEF do_leave, EraseList, Ready, TypeOK, Lifetime
  <2>4. MembersNamed'
    BY <1>4 DEF do_leave, EraseList, Ready, TypeOK, MembersNamed
  <2> QED
    BY <2>1, <2>2, <2>3, <2>4
<1>5. ASSUME NEW u \in Users, Snapshot(u) PROVE IInv'
  <2>1. TypeOK'
    BY <1>5 DEF Snapshot, TypeOK
  <2>2. Lists'
    BY <1>5 DEF Snapshot, TypeOK, Lists, Noting
  <2>3. Lifetime'
    BY <1>5 DEF Snapshot, TypeOK, Lifetime
  <2>4. MembersNamed'
    BY <1>5 DEF Snapshot, TypeOK, MembersNamed
  <2> QED
    BY <2>1, <2>2, <2>3, <2>4
<1>6. ASSUME NEW u \in Users, NEW v \in Users, SendTo(u, v) PROVE IInv'
  <2>1. TypeOK'
    BY <1>6 DEF SendTo, TypeOK
  <2>2. Lists'
    BY <1>6 DEF SendTo, TypeOK, Lists, Noting
  <2>3. Lifetime'
    BY <1>6 DEF SendTo, TypeOK, Lifetime
  <2>4. MembersNamed'
    BY <1>6 DEF SendTo, TypeOK, MembersNamed
  <2> QED
    BY <2>1, <2>2, <2>3, <2>4
<1>7. ASSUME NEW u \in Users, SendDone(u) PROVE IInv'
  <2>1. TypeOK'
    BY <1>7 DEF SendDone, TypeOK
  <2>2. Lists'
    BY <1>7 DEF SendDone, TypeOK, Lists, Noting
  <2>3. Lifetime'
    BY <1>7 DEF SendDone, TypeOK, Lifetime
  <2>4. MembersNamed'
    BY <1>7 DEF SendDone, TypeOK, MembersNamed
  <2> QED
    BY <2>1, <2>2, <2>3, <2>4
<1>8. ASSUME NEW u \in Users, SendSelf(u) PROVE IInv'
  <2>1. TypeOK'
    BY <1>8 DEF SendSelf, TypeOK
  <2>2. Lists'
    BY <1>8 DEF SendSelf, TypeOK, Lists, Noting
  <2>3. Lifetime'
    BY <1>8 DEF SendSelf, TypeOK, Lifetime
  <2>4. MembersNamed'
    BY <1>8 DEF SendSelf, TypeOK, MembersNamed
  <2> QED
    BY <2>1, <2>2, <2>3, <2>4
<1>9. ASSUME NEW u \in Users, Note(u) PROVE IInv'
  <2>1. TypeOK'
    BY <1>9 DEF Note, TypeOK
  <2>2. Lists'
    BY <1>9 DEF Note, TypeOK, Lists, Noting
  <2>3. Lifetime'
    BY <1>9 DEF Note, TypeOK, Lifetime
  <2>4. MembersNamed'
    BY <1>9 DEF Note, TypeOK, MembersNamed
  <2> QED
    BY <2>1, <2>2, <2>3, <2>4
<1>10. ASSUME NEW u \in Users, Hook(u) PROVE IInv'
  <2>1. TypeOK'
    BY <1>10 DEF Hook, TypeOK
  <2>2. Lists'
    BY <1>10 DEF Hook, TypeOK, Lists, Noting
  <2>3. Lifetime'
    BY <1>10 DEF Hook, TypeOK, Lifetime
  <2>4. MembersNamed'
    BY <1>10 DEF Hook, TypeOK, MembersNamed
  <2> QED
    BY <2>1, <2>2, <2>3, <2>4
<1>11. ASSUME NEW u \in Users, NEW c \in Channels, DestroyOne(u, c) PROVE IInv'
  <2>1. TypeOK'
    BY <1>11 DEF DestroyOne, EraseList, TypeOK
  <2>2. Lists'
    BY <1>11 DEF DestroyOne, EraseList, TypeOK, Lists, Noting
  <2>3. Lifetime'
    BY <1>11 DEF DestroyOne, EraseList, TypeOK, Lifetime
  <2>4. MembersNamed'
    BY <1>11 DEF DestroyOne, EraseList, TypeOK, MembersNamed
  <2> QED
    BY <2>1, <2>2, <2>3, <2>4
<1>12. ASSUME NEW u \in Users, Free(u) PROVE IInv'
  <2>1. TypeOK'
    BY <1>12 DEF Free, TypeOK
  <2>2. Lists'
    BY <1>12 DEF Free, TypeOK, Lists, Noting, Lifetime
  <2>3. Lifetime'
    BY <1>12 DEF Free, TypeOK, Lifetime
  <2>4. MembersNamed'
    BY <1>12 DEF Free, TypeOK, MembersNamed
  <2> QED
    BY <2>1, <2>2, <2>3, <2>4
<1>13. ASSUME NEW u \in Users, EndSession(u) PROVE IInv'
  <2>1. TypeOK'
    BY <1>13 DEF EndSession, Expire, Ready, TypeOK
  <2>2. Lists'
    BY <1>13 DEF EndSession, Expire, Ready, TypeOK, Lists, Noting
  <2>3. Lifetime'
    BY <1>13 DEF EndSession, Expire, Ready, TypeOK, Lifetime
  <2>4. MembersNamed'
    BY <1>13 DEF EndSession, Expire, Ready, TypeOK, MembersNamed
  <2> QED
    BY <2>1, <2>2, <2>3, <2>4
<1>14. ASSUME NEW u \in Users, Release(u) PROVE IInv'
  <2>1. TypeOK'
    BY <1>14 DEF Release, Expire, TypeOK
  <2>2. Lists'
    BY <1>14 DEF Release, Expire, TypeOK, Lists, Noting
  <2>3. Lifetime'
    BY <1>14 DEF Release, Expire, TypeOK, Lifetime
  <2>4. MembersNamed'
    BY <1>14 DEF Release, Expire, TypeOK, MembersNamed
  <2> QED
    BY <2>1, <2>2, <2>3, <2>4
<1>15. ASSUME UNCHANGED vars PROVE IInv'
  BY <1>15 DEF vars, TypeOK, Lists, Noting, Lifetime, MembersNamed
<1> QED
  BY <1>1, <1>2, <1>3, <1>4, <1>5, <1>6, <1>7, <1>8,
    <1>9, <1>10, <1>11, <1>12, <1>13, <1>14, <1>15 DEF Next, Step

\* The inductive invariant holds in every reachable state.
THEOREM Invariance == Spec => []IInv
BY InitInv, NextInv, PTL DEF Spec

-----------------------------------------------------------------------------
\* The state of every list, object and reference has its type.
THEOREM TypeCorrect == Spec => []TypeOK
BY Invariance, PTL DEF IInv

\* No channel holds a pointer to a user that has been freed, so the pointers
\* channel::send turns into weak pointers are all good.
THEOREM MemberExistsHolds == Spec => []MemberExists
<1>1. IInv => MemberExists
  BY DEF IInv, TypeOK, Lists, Noting, Lifetime, MemberExists
<1> QED
  BY <1>1, Invariance, PTL

\* Between operations users_ and channels_ say the same.
THEOREM ListsAgreeHolds == Spec => []ListsAgree
<1>1. IInv => ListsAgree
  BY DEF IInv, TypeOK, Lists, Noting, ListsAgree
<1> QED
  BY <1>1, Invariance, PTL

\* The BOOST_VERIFYs of user::on_insert and user::on_erase never fail.
THEOREM VerifyHoldsHolds == Spec => []VerifyHolds
<1>1. IInv => VerifyHolds
  BY DEF IInv, TypeOK, Lists, Noting, VerifyHolds
<1> QED
  BY <1>1, Invariance, PTL

\* Only users with a name are in a channel other than the system channel.
THEOREM MembersNamedHolds == Spec => []MembersNamed
<1>1. IInv => MembersNamed
  BY DEF IInv
<1> QED
  BY <1>1, Invariance, PTL

\* A user whose destructor has begun cannot be referred to again.
THEOREM NoRevivalHolds == Spec => []NoRevival
<1>1. IInv => NoRevival
  BY DEF IInv, TypeOK, Lifetime, NoRevival
<1> QED
  BY <1>1, Invariance, PTL

-----------------------------------------------------------------------------
\* users_.insert(&u) is a join of the roster.
LEMMA InsertIsJoin ==
    ASSUME TypeOK, NEW u \in Users, NEW c \in Channels, state[u] # "free",
           InsertList(u, c)
    PROVE  R!Join(u, c)
<1>1. Members' = Members \cup {<<u, c>>}
  BY DEF InsertList, TypeOK, Members
<1>2. <<u, c>> \notin Members
  BY DEF InsertList, Members
<1>3. {v \in Users : state[v] # "free"}' = {v \in Users : state[v] # "free"}
  BY DEF InsertList
<1> QED
  BY <1>1, <1>2, <1>3 DEF R!Join

\* users_.erase(&u) is a leave of the roster.
LEMMA EraseIsLeave ==
    ASSUME TypeOK, NEW u \in Users, NEW c \in Channels, state[u] # "free",
           EraseList(u, c)
    PROVE  R!Leave(u, c)
<1>1. Members' = Members \ {<<u, c>>}
  BY DEF EraseList, TypeOK, Members
<1>2. <<u, c>> \in Members
  BY DEF EraseList, Members
<1>3. {v \in Users : state[v] # "free"}' = {v \in Users : state[v] # "free"}
  BY DEF EraseList
<1> QED
  BY <1>1, <1>2, <1>3 DEF R!Leave

\* Each step is a step of the roster, or changes nothing there.
LEMMA StepSimulation == IInv /\ [Next]_vars => [R!Next]_R!vars
<1> SUFFICES ASSUME IInv, [Next]_vars PROVE [R!Next]_R!vars
  OBVIOUS
<1> USE SysAssumption DEF IInv
<1>1. ASSUME NEW u \in Users, Connect(u) PROVE [R!Next]_R!vars
  <2>1. {v \in Users : state[v] # "free"}' = {v \in Users : state[v] # "free"} \cup {u}
    BY <1>1 DEF Connect, TypeOK
  <2>2. R!Appear(u)
    BY <1>1, <2>1 DEF Connect, Members, R!Appear
  <2> QED
    BY <2>2 DEF R!Next
<1>2. ASSUME NEW u \in Users, do_identify(u) PROVE [R!Next]_R!vars
  <2>1. CASE InsertList(u, Sys)
    BY <1>2, <2>1, InsertIsJoin DEF do_identify, Ready, Lifetime, R!Next
  <2>2. CASE UNCHANGED <<users, state>>
    BY <2>2 DEF Members, R!vars
  <2> QED
    BY <1>2, <2>1, <2>2 DEF do_identify
<1>3. ASSUME NEW u \in Users, NEW c \in Channels, do_join(u, c) PROVE [R!Next]_R!vars
  <2>1. R!Join(u, c)
    BY <1>3, InsertIsJoin DEF do_join, Ready, Lifetime
  <2> QED
    BY <2>1 DEF R!Next
<1>4. ASSUME NEW u \in Users, NEW c \in Channels, do_leave(u, c) \/ DestroyOne(u, c)
      PROVE  [R!Next]_R!vars
  <2>1. R!Leave(u, c)
    BY <1>4, EraseIsLeave DEF do_leave, DestroyOne, Ready, Lifetime
  <2> QED
    BY <2>1 DEF R!Next
<1>5. ASSUME NEW u \in Users, Free(u) PROVE [R!Next]_R!vars
  <2>1. {v \in Users : state[v] # "free"}' = {v \in Users : state[v] # "free"} \ {u}
    BY <1>5 DEF Free, TypeOK
  <2>2. u \in {v \in Users : state[v] # "free"}
    BY <1>5 DEF Free
  <2>3. \A c \in Channels : <<u, c>> \notin Members
    BY <1>5 DEF Free, Lists, Noting, Members
  <2>4. Members' = Members
    BY <1>5 DEF Free, Members
  <2>5. R!Vanish(u)
    BY <2>1, <2>2, <2>3, <2>4 DEF R!Vanish
  <2> QED
    BY <2>5 DEF R!Next
<1>6. ASSUME NEW u \in Users, EndSession(u) \/ Release(u) PROVE [R!Next]_R!vars
  <2>1. {v \in Users : state[v] # "free"}' = {v \in Users : state[v] # "free"}
    BY <1>6 DEF EndSession, Release, Ready, Expire, TypeOK, Lifetime
  <2>2. Members' = Members
    BY <1>6 DEF EndSession, Release, Members
  <2> QED
    BY <2>1, <2>2 DEF R!vars
<1>7. ASSUME NEW u \in Users,
             \/ Snapshot(u)
             \/ \E v \in Users : SendTo(u, v)
             \/ SendDone(u) \/ SendSelf(u) \/ Note(u) \/ Hook(u)
      PROVE  [R!Next]_R!vars
  <2>1. UNCHANGED <<users, state>>
    BY <1>7 DEF Snapshot, SendTo, SendDone, SendSelf, Note, Hook
  <2> QED
    BY <2>1 DEF Members, R!vars
<1>8. ASSUME UNCHANGED vars PROVE [R!Next]_R!vars
  BY <1>8 DEF vars, Members, R!vars
<1> QED
  BY <1>1, <1>2, <1>3, <1>4, <1>5, <1>6, <1>7, <1>8 DEF Next, Step

\* insert, erase and ~user, step by step and on any threads, implement the
\* roster: a user is freed only once it has left every channel.
THEOREM ImplementsRoster == Spec => RosterSpec
<1>1. Init => R!Init
  BY DEF Init, Members, R!Init
<1> QED
  BY <1>1, Invariance, StepSimulation, PTL DEF Spec, R!Spec, RosterSpec
=============================================================================
