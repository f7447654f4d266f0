----------------------------- MODULE RpcProofs -----------------------------
(***************************************************************************)
(* Proofs about Rpc, for any number of messages: each one is answered     *)
(* once if it has an id, extract accepts the requests of JSON-RPC but for *)
(* a null id in version 2.0, and what is answered with an error on the    *)
(* session's strand has changed nothing there.                            *)
(***************************************************************************)
EXTENDS Rpc, TLAPS

\* A request on the table's strand; which numbers it may have is Pending's
Waiting == [n : Nat, id : Ids]

\* The types of the variables, apart from the numbers on the strand
Typed ==
    /\ open \in BOOLEAN
    /\ msg_ \in Messages \cup {Other("none")}
    /\ named \in BOOLEAN
    /\ joined \in SUBSET Cids
    /\ strand \in Seq(Waiting)
    /\ log \in Seq(Entry)
    /\ crashed \in BOOLEAN

\* A request on the strand is a message of the log, with the id it came with,
\* and it is there once.
Pending ==
    /\ \A k \in DOMAIN strand :
        strand[k].n \in DOMAIN log /\ strand[k].id = log[strand[k].n].id
    /\ \A j, k \in DOMAIN strand : strand[j].n = strand[k].n => j = k

IInv == Typed /\ Pending /\ AnsweredOnce

-----------------------------------------------------------------------------
\* The values that message fields take
LEMMA MessageFields ==
    ASSUME NEW m \in Messages \cup {Other("none")}
    PROVE  /\ m.id \in Ids /\ m.jsonrpc \in Versions /\ m.method \in Methods
           /\ m.params \in Params
           /\ m.kind # "object" => m.id = "absent"
           /\ m.kind \in {"object", "not_json", "not_object", "none"}
<1>1. CASE m \in Requests
  BY <1>1 DEF Requests
<1>2. CASE m \in {Other("not_json"), Other("not_object"), Other("none")}
  <2>1. /\ m.id = "absent" /\ m.jsonrpc = "absent" /\ m.method = "absent"
        /\ m.params = [kind |-> "absent", obj |-> NoObject]
        /\ m.kind \in {"not_json", "not_object", "none"}
    BY <1>2 DEF Other
  <2>2. m.params \in Params
    BY <2>1 DEF Params
  <2> QED
    BY <2>1, <2>2 DEF Ids, Versions, Methods
<1> QED
  BY <1>1, <1>2 DEF Messages, Envelopes, Calls

\* extract hands on the id of the message, whatever else it says.
LEMMA ExtractId == ASSUME NEW m PROVE extract(m).id = m.id
BY DEF extract

\* extract, check by check, accepts what the JSON-RPC specifications call a
\* request, but for a null id in version 2.0, and nothing else.
LEMMA ExtractAccepts ==
    ASSUME NEW m \in Messages \cup {Other("none")}
    PROVE  extract(m).ec = "none"
             <=> IsRequest(m) /\ ~(m.jsonrpc = "2.0" /\ m.id = "null")
<1>1. /\ m.id \in Ids /\ m.jsonrpc \in Versions /\ m.method \in Methods
      /\ m.params.kind \in {"absent", "array", "other", "object"}
  BY MessageFields DEF Params
<1> QED
  BY <1>1 DEF extract, IsRequest, IsRequest20, IsRequest10, Ids, Versions

\* What the handling of one message may do: it is logged with the replies its
\* id asks for, and changes something only if its result says so; or it waits
\* on the table's strand, unanswered; or it ends the program.
Handled ==
    /\ named' \in BOOLEAN /\ joined' \in SUBSET Cids /\ crashed' \in BOOLEAN
    /\ \/ \E result \in BOOLEAN :
            /\ Logged(complete(msg_.id), result)
            /\ strand' = strand
            /\ ~result => UNCHANGED <<named, joined>>
       \/ PostToTable(msg_.id)
       \/ Crash

\* Every handler checks before it changes anything, and completes the request.
LEMMA DispatchHandles ==
    ASSUME Typed, NEW m, m.params \in Params, dispatch(msg_.id, m)
    PROVE  Handled
<1> USE DEF Typed, Handled
<1> DEFINE id == msg_.id
           c == m.params.obj.cid
           arg == m.params.obj.arg
<1>1. ASSUME Refuse(id) PROVE Handled
  BY <1>1 DEF Refuse
<1>2. ASSUME do_join(id, c), c \in Cids PROVE Handled
  BY <1>1, <1>2 DEF do_join, Succeed
<1>3. ASSUME do_leave(id, c) PROVE Handled
  BY <1>1, <1>3 DEF do_leave, Succeed
<1>4. ASSUME do_identify(id, arg) PROVE Handled
  <2>1. CASE Refuse(id)
    BY <2>1, <1>1
  <2>2. CASE named' = (arg # "empty") /\ joined' = joined \cup {"system"} /\ Succeed(id)
    BY <2>2 DEF Succeed, Cids
  <2> QED
    BY <1>4, <2>1, <2>2 DEF do_identify
<1>5. ASSUME do_shutdown(id) \/ do_say(id, arg) PROVE Handled
  BY <1>1, <1>5 DEF do_shutdown, do_say, Succeed
<1>6. ASSUME PostToTable(id) PROVE Handled
  BY <1>6 DEF PostToTable
<1>7. ASSUME on_dispatch(id, m, c) PROVE Handled
  BY <1>1, <1>4, <1>5, <1>6, <1>7 DEF on_dispatch
<1>8. ASSUME Crash PROVE Handled
  BY <1>8 DEF Crash
<1> QED
  BY <1>1, <1>2, <1>3, <1>7, <1>8 DEF dispatch

\* The read loop does so with every message it is given.
LEMMA OnMessageHandles == ASSUME Typed, OnMessage PROVE Handled
<1>1. /\ msg_ \in Messages \cup {Other("none")}
      /\ msg_.params \in Params
      /\ msg_.kind # "object" => msg_.id = "absent"
  BY MessageFields DEF Typed
<1>2. extract(msg_).id = msg_.id
  BY ExtractId
<1>3. CASE msg_.kind = "not_json"
  BY <1>1, <1>3 DEF OnMessage, Handled, complete, Typed
<1>4. ASSUME Refuse(msg_.id) PROVE Handled
  BY <1>4 DEF Refuse, Handled, Typed
<1>5. ASSUME dispatch(msg_.id, msg_) PROVE Handled
  BY <1>1, <1>5, DispatchHandles
<1>6. CASE msg_.kind # "not_json"
  BY <1>2, <1>4, <1>5, <1>6 DEF OnMessage
<1> QED
  BY <1>3, <1>6

-----------------------------------------------------------------------------
\* Nothing is logged or waits at first.
LEMMA InitIInv == Init => IInv
<1> SUFFICES ASSUME Init PROVE IInv
  OBVIOUS
<1>1. DOMAIN strand = {} /\ DOMAIN log = {} /\ strand \in Seq(Waiting) /\ log \in Seq(Entry)
  BY DEF Init
<1>2. Typed
  BY <1>1 DEF Init, Typed
<1> QED
  BY <1>1, <1>2 DEF IInv, Pending, AnsweredOnce

\* A message that is logged and does not wait
LEMMA LoggedKeeps ==
    ASSUME IInv, Typed', NEW result \in BOOLEAN,
           Logged(complete(msg_.id), result), strand' = strand
    PROVE  IInv'
<1> DEFINE e == [id |-> msg_.id, replies |-> complete(msg_.id), result |-> result]
<1>1. log \in Seq(Entry) /\ log' = Append(log, e)
  BY DEF IInv, Typed, Logged
<1>2. /\ DOMAIN log = 1 .. Len(log) /\ DOMAIN log' = 1 .. Len(log) + 1
      /\ \A n \in DOMAIN log : log'[n] = log[n]
      /\ log'[Len(log) + 1] = e /\ Len(log) \in Nat
  BY <1>1
<1> HIDE DEF e
<1>3. Pending'
  BY <1>2 DEF IInv, Pending
<1>4. ~OnStrand(Len(log) + 1)
  BY <1>2 DEF OnStrand, IInv, Pending
<1>5. e.replies = IF e.id = "absent" THEN 0 ELSE 1
  BY DEF e, complete
<1>6. AnsweredOnce'
  BY <1>2, <1>4, <1>5 DEF AnsweredOnce, IInv, OnStrand
<1> QED
  BY <1>3, <1>6 DEF IInv

\* A message that is moved to the table's strand
LEMMA PostKeeps ==
    ASSUME IInv, Typed', PostToTable(msg_.id)
    PROVE  IInv'
<1> DEFINE e == [id |-> msg_.id, replies |-> 0, result |-> FALSE]
           w == [n |-> Len(log) + 1, id |-> msg_.id]
<1>1. /\ log \in Seq(Entry) /\ log' = Append(log, e)
      /\ strand \in Seq(Waiting) /\ strand' = Append(strand, w)
  BY DEF IInv, Typed, PostToTable, Logged
<1>2. /\ DOMAIN log = 1 .. Len(log) /\ DOMAIN log' = 1 .. Len(log) + 1
      /\ \A n \in DOMAIN log : log'[n] = log[n]
      /\ log'[Len(log) + 1] = e /\ Len(log) \in Nat
  BY <1>1
<1>3. /\ DOMAIN strand = 1 .. Len(strand) /\ DOMAIN strand' = 1 .. Len(strand) + 1
      /\ \A k \in DOMAIN strand : strand'[k] = strand[k]
      /\ strand'[Len(strand) + 1] = w /\ Len(strand) \in Nat
  BY <1>1
<1>4. e.id = w.id /\ w.n = Len(log) + 1 /\ e.replies = 0
  OBVIOUS
<1> HIDE DEF e, w
<1>5. \A k \in DOMAIN strand' : k \in DOMAIN strand \/ strand'[k] = w
  BY <1>3
<1>6. \A k \in DOMAIN strand : strand[k].n \in DOMAIN log /\ strand[k].n # w.n
  BY <1>2, <1>4 DEF IInv, Pending
<1>7. Pending'
  <2>1. ASSUME NEW k \in DOMAIN strand'
        PROVE  strand'[k].n \in DOMAIN log' /\ strand'[k].id = log'[strand'[k].n].id
    <3>1. CASE k \in DOMAIN strand
      BY <3>1, <1>2, <1>3 DEF IInv, Pending
    <3>2. CASE strand'[k] = w
      BY <3>2, <1>2, <1>4
    <3> QED
      BY <3>1, <3>2, <1>5
  <2>2. ASSUME NEW j \in DOMAIN strand', NEW k \in DOMAIN strand',
               strand'[j].n = strand'[k].n
        PROVE  j = k
    <3>1. CASE j \in DOMAIN strand /\ k \in DOMAIN strand
      BY <3>1, <2>2, <1>3 DEF IInv, Pending
    <3>2. CASE j \notin DOMAIN strand /\ k \notin DOMAIN strand
      BY <3>2, <1>3
    <3>3. ASSUME NEW i \in DOMAIN strand, NEW l \in DOMAIN strand' \ DOMAIN strand
          PROVE  strand'[i].n # strand'[l].n
      BY <3>3, <1>3, <1>5, <1>6
    <3> QED
      BY <2>2, <3>1, <3>2, <3>3
  <2> QED
    BY <2>1, <2>2 DEF Pending
<1>8. \A n \in DOMAIN log : OnStrand(n) <=> OnStrand(n)'
  BY <1>2, <1>3, <1>4, <1>5 DEF OnStrand
<1>9. Len(strand) + 1 \in DOMAIN strand'
  BY <1>3
<1>10. AnsweredOnce'
  <2> SUFFICES ASSUME NEW n \in DOMAIN log'
               PROVE  log'[n].replies = IF log'[n].id = "absent" \/ OnStrand(n)' THEN 0 ELSE 1
    BY DEF AnsweredOnce
  <2>1. CASE n \in DOMAIN log
    BY <2>1, <1>2, <1>8 DEF AnsweredOnce, IInv
  <2>2. CASE n = Len(log) + 1
    <3>1. OnStrand(n)'
      BY <2>2, <1>3, <1>4, <1>9 DEF OnStrand
    <3> QED
      BY <2>2, <3>1, <1>2, <1>4
  <2> QED
    BY <2>1, <2>2, <1>2
<1> QED
  BY <1>7, <1>10 DEF IInv

\* The request at the front of the strand is answered and leaves it.
LEMMA RunTableKeeps ==
    ASSUME IInv, RunTable, ~Crash
    PROVE  IInv'
<1> DEFINE w == Head(strand)
<1>1. /\ strand \in Seq(Waiting) /\ strand # << >> /\ log \in Seq(Entry)
      /\ strand' = Tail(strand)
      /\ UNCHANGED <<open, msg_, named, joined, crashed>>
  BY DEF IInv, Typed, RunTable
<1>2. PICK ok \in BOOLEAN : Answered(complete(w.id), ok)
  BY DEF RunTable
<1>3. /\ 1 \in DOMAIN strand /\ w = strand[1]
      /\ DOMAIN strand = 1 .. Len(strand) /\ DOMAIN strand' = 1 .. Len(strand) - 1
      /\ strand' \in Seq(Waiting)
      /\ \A k \in DOMAIN strand' : k + 1 \in DOMAIN strand /\ strand'[k] = strand[k + 1]
      /\ \A k \in DOMAIN strand : k = 1 \/ (k - 1 \in DOMAIN strand' /\ k - 1 + 1 = k)
  BY <1>1
<1>4. w.n \in DOMAIN log /\ w.id = log[w.n].id /\ OnStrand(w.n)
  BY <1>3 DEF IInv, Pending, OnStrand
<1>5. log[w.n].replies = 0 /\ log[w.n] \in Entry
  BY <1>1, <1>4 DEF IInv, AnsweredOnce
<1> DEFINE e == [id |-> w.id, replies |-> complete(w.id), result |-> ok]
           l == [log EXCEPT ![w.n].replies = @ + complete(w.id)]
<1>6. e \in Entry /\ e.id = w.id /\ e.replies = complete(w.id)
  <2>1. complete(w.id) \in 0 .. 1
    BY DEF complete
  <2> QED
    BY <2>1, <1>4, <1>5 DEF Entry
<1>7. log' = [log EXCEPT ![w.n] = e]
  <2>1. log' = [l EXCEPT ![w.n].result = ok]
    BY <1>2 DEF Answered
  <2>2. complete(w.id) \in 0 .. 1 /\ 0 + complete(w.id) = complete(w.id)
    BY DEF complete
  <2>3. l = [log EXCEPT ![w.n] = [log[w.n] EXCEPT !.replies = complete(w.id)]]
    BY <1>5, <2>2
  <2> HIDE DEF l
  <2>4. DOMAIN l = DOMAIN log /\ l[w.n] = [log[w.n] EXCEPT !.replies = complete(w.id)]
    BY <1>4, <2>3
  <2>5. [l[w.n] EXCEPT !.result = ok] = e
    <3>1. log[w.n] = [id |-> w.id, replies |-> 0, result |-> log[w.n].result]
      BY <1>4, <1>5 DEF Entry
    <3>2. l[w.n] = [id |-> w.id, replies |-> complete(w.id), result |-> log[w.n].result]
      BY <2>4, <3>1
    <3> QED
      BY <3>2
  <2>6. log' = [l EXCEPT ![w.n] = e]
    BY <2>1, <2>5
  <2> QED
    BY <2>3, <2>4, <2>6
<1> HIDE DEF e, w
<1>8. /\ DOMAIN log' = DOMAIN log /\ log' \in Seq(Entry)
      /\ log'[w.n] = e /\ \A n \in DOMAIN log : n # w.n => log'[n] = log[n]
  BY <1>1, <1>4, <1>6, <1>7
<1>9. \A n \in DOMAIN log : log'[n].id = log[n].id
  BY <1>4, <1>6, <1>8
<1>10. Typed'
  BY <1>1, <1>3, <1>8 DEF IInv, Typed
<1>11. \A j, k \in DOMAIN strand' : strand'[j].n = strand'[k].n => j = k
  BY <1>3 DEF IInv, Pending
<1>12. Pending'
  BY <1>3, <1>8, <1>9, <1>11 DEF IInv, Pending
<1>13. \A k \in DOMAIN strand' : strand'[k].n # w.n
  <2> SUFFICES ASSUME NEW k \in DOMAIN strand', strand[k + 1].n = strand[1].n PROVE FALSE
    BY <1>3
  <2>1. k + 1 \in DOMAIN strand /\ k + 1 # 1
    BY <1>3
  <2> QED
    BY <2>1, <1>3 DEF IInv, Pending
<1>14. ASSUME NEW n \in DOMAIN log, n # w.n PROVE OnStrand(n)' <=> OnStrand(n)
  <2>1. ASSUME NEW k \in DOMAIN strand, strand[k].n = n
        PROVE  k - 1 \in DOMAIN strand' /\ strand'[k - 1].n = n
    BY <1>3, <1>14, <2>1
  <2>2. ASSUME NEW k \in DOMAIN strand', strand'[k].n = n
        PROVE  k + 1 \in DOMAIN strand /\ strand[k + 1].n = n
    BY <1>3, <2>2
  <2> QED
    BY <2>1, <2>2 DEF OnStrand
<1>15. AnsweredOnce'
  <2> SUFFICES ASSUME NEW n \in DOMAIN log
               PROVE  log'[n].replies = IF log'[n].id = "absent" \/ OnStrand(n)' THEN 0 ELSE 1
    BY <1>8 DEF AnsweredOnce
  <2>1. CASE n = w.n
    <3>1. ~OnStrand(n)'
      BY <2>1, <1>13 DEF OnStrand
    <3>2. log'[n] = e /\ e.replies = IF e.id = "absent" THEN 0 ELSE 1
      BY <2>1, <1>6, <1>8 DEF complete
    <3> QED
      BY <3>1, <3>2
  <2>2. CASE n # w.n
    BY <2>2, <1>8, <1>14 DEF AnsweredOnce, IInv
  <2> QED
    BY <2>1, <2>2
<1> QED
  BY <1>10, <1>12, <1>15 DEF IInv

\* Every step keeps the types, the requests that wait and the count of replies.
LEMMA NextIInv == IInv /\ [Next]_vars => IInv'
<1> SUFFICES ASSUME IInv, [Next]_vars PROVE IInv'
  OBVIOUS
<1>1. ASSUME UNCHANGED <<strand, log>>, Typed' PROVE IInv'
  BY <1>1 DEF IInv, Pending, AnsweredOnce, OnStrand
<1>2. ASSUME Arrive PROVE IInv'
  BY <1>1, <1>2 DEF Arrive, IInv, Typed
<1>3. ASSUME OnMessage PROVE IInv'
  <2>1. Handled
    BY <1>3, OnMessageHandles DEF IInv
  <2>2. open' \in BOOLEAN /\ msg_' = Other("none") /\ msg_.id \in Ids
    BY <1>3, MessageFields DEF OnMessage, IInv, Typed
  <2>3. ASSUME NEW result \in BOOLEAN, Logged(complete(msg_.id), result), strand' = strand
        PROVE  IInv'
    <3>1. [id |-> msg_.id, replies |-> complete(msg_.id), result |-> result] \in Entry
      BY <2>2 DEF Entry, complete
    <3>2. log' \in Seq(Entry)
      BY <2>3, <3>1 DEF Logged, IInv, Typed
    <3>3. Typed'
      BY <2>1, <2>2, <2>3, <3>2 DEF Typed, Handled, IInv
    <3> QED
      BY <2>3, <3>3, LoggedKeeps
  <2>4. ASSUME PostToTable(msg_.id) PROVE IInv'
    <3>1. [id |-> msg_.id, replies |-> 0, result |-> FALSE] \in Entry
      BY <2>2 DEF Entry
    <3>2. log' \in Seq(Entry)
      BY <2>4, <3>1 DEF PostToTable, Logged, IInv, Typed
    <3>3. Len(log) + 1 \in Nat
      BY DEF IInv, Typed
    <3>4. strand' \in Seq(Waiting)
      BY <2>2, <2>4, <3>3 DEF PostToTable, IInv, Typed, Waiting
    <3>5. Typed'
      BY <2>1, <2>2, <3>2, <3>4 DEF Typed, Handled
    <3> QED
      BY <2>4, <3>5, PostKeeps
  <2>5. ASSUME Crash PROVE IInv'
    <3>1. Typed'
      BY <2>1, <2>2, <2>5 DEF Crash, Handled, IInv, Typed
    <3> QED
      BY <1>1, <2>5, <3>1 DEF Crash
  <2> QED
    BY <2>1, <2>3, <2>4, <2>5 DEF Handled
<1>4. ASSUME ReadFails PROVE IInv'
  BY <1>1, <1>4 DEF ReadFails, IInv, Typed
<1>5. ASSUME RunTable PROVE IInv'
  <2>1. CASE Crash
    BY <1>1, <1>5, <2>1 DEF Crash, RunTable, IInv, Typed
  <2> QED
    BY <1>5, <2>1, RunTableKeeps
<1>6. ASSUME UNCHANGED vars PROVE IInv'
  BY <1>1, <1>6 DEF vars, IInv, Typed
<1> QED
  BY <1>2, <1>3, <1>4, <1>5, <1>6 DEF Next

\* Both hold all the time.
LEMMA Invariance == Spec => []IInv
BY InitIInv, NextIInv, PTL DEF Spec

\* A sequence whose elements are in S is a sequence over S.
LEMMA SeqOf ==
    ASSUME NEW S, NEW T, NEW q \in Seq(T), \A k \in 1 .. Len(q) : q[k] \in S
    PROVE  q \in Seq(S)
OBVIOUS

\* The types that Rpc states, with the numbers of the strand those of the log
THEOREM RpcTypeOK == Spec => []TypeOK
<1>1. IInv => TypeOK
  <2> SUFFICES ASSUME IInv PROVE TypeOK
    OBVIOUS
  <2>1. strand \in Seq(Waiting) /\ DOMAIN strand = 1 .. Len(strand)
    BY DEF IInv, Typed
  <2>2. ASSUME NEW k \in 1 .. Len(strand)
        PROVE  strand[k] \in [n : DOMAIN log, id : Ids]
    <3>1. strand[k] \in Waiting
      BY <2>1
    <3>2. strand[k].n \in DOMAIN log
      BY <2>1 DEF IInv, Pending
    <3> QED
      BY <3>1, <3>2 DEF Waiting
  <2>3. strand \in Seq([n : DOMAIN log, id : Ids])
    BY <2>1, <2>2, SeqOf
  <2> QED
    BY <2>3 DEF TypeOK, IInv, Typed
<1> QED
  BY <1>1, Invariance, PTL

\* rpc_call::complete is called once for every message that has an id, on
\* whichever strand it ends, and sends nothing for one without.
THEOREM AnsweredOnceHolds == Spec => []AnsweredOnce
<1>1. IInv => AnsweredOnce
  BY DEF IInv
<1> QED
  BY <1>1, Invariance, PTL

\* Of every message that the read loop meets, rpc_call::extract accepts the
\* requests that JSON-RPC 1.0 and 2.0 describe, except that it insists on an id
\* that is not null in version 2.0, and it refuses all the rest.
THEOREM ExtractRightHolds == Spec => []ExtractRight
<1>1. IInv => ExtractRight
  BY ExtractAccepts DEF IInv, Typed, ExtractRight
<1> QED
  BY <1>1, Invariance, PTL

\* A handler of the session's strand that throws has changed neither the name
\* of the user nor the channels it is in.
THEOREM RefusedIsNoOpHolds == Spec => RefusedIsNoOp
<1> DEFINE A == \A n \in DOMAIN log' \ DOMAIN log :
                    ~log'[n].result => UNCHANGED <<named, joined>>
<1>1. IInv /\ [Next]_vars => [A]_vars
  <2> SUFFICES ASSUME IInv, Next PROVE A
    BY DEF vars
  <2>1. ASSUME OnMessage PROVE A
    <3>1. Handled /\ log \in Seq(Entry)
      BY <2>1, OnMessageHandles DEF IInv, Typed
    <3>2. ASSUME NEW result \in BOOLEAN, Logged(complete(msg_.id), result),
                 ~result => UNCHANGED <<named, joined>>
          PROVE  A
      <4>1. /\ DOMAIN log = 1 .. Len(log) /\ DOMAIN log' = 1 .. Len(log) + 1
            /\ log'[Len(log) + 1].result = result /\ Len(log) \in Nat
        BY <3>1, <3>2 DEF Logged
      <4> QED
        BY <3>2, <4>1
    <3>3. ASSUME PostToTable(msg_.id) PROVE A
      BY <3>3 DEF PostToTable
    <3> QED
      BY <3>1, <3>2, <3>3 DEF Handled, Crash
  <2>2. ASSUME RunTable \/ ReadFails \/ Arrive PROVE A
    BY <2>2 DEF RunTable, ReadFails, Arrive, Crash
  <2> QED
    BY <2>1, <2>2 DEF Next
<1>2. Spec => [][A]_vars
  BY <1>1, Invariance, PTL DEF Spec
<1> QED
  BY <1>2 DEF RefusedIsNoOp
=============================================================================
