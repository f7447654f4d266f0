-------------------------- MODULE BroadcastProofs --------------------------
(***************************************************************************)
(* Proofs about Broadcast, for any set of messages and any number of      *)
(* members: its steps are steps of WriteQueue, so that what is proved of  *)
(* the queue holds when messages are shared; messages are written in order *)
(* while mq_ has held no more than two; and the count of a buffer is the  *)
(* number of its handles.                                                 *)
(***************************************************************************)
EXTENDS Broadcast, WriteQueueProofs, FiniteSetTheorems

-----------------------------------------------------------------------------
\* A step of the queue, with the longest mq_ noted
QueueStep == Next /\ Longest

\* A step of the session is a step of WriteQueue with its bookkeeping; the
\* others leave the queue alone.
LEMMA StepCases == [NextB]_bvars => QueueStep \/ UNCHANGED <<vars, peak>>
<1> SUFFICES ASSUME [NextB]_bvars PROVE QueueStep \/ UNCHANGED <<vars, peak>>
  OBVIOUS
<1>1. ASSUME NEW m \in Messages, make_message(m) \/ SendToOther(m) \/ OtherDrops(m)
      PROVE  UNCHANGED <<vars, peak>>
  BY <1>1 DEF make_message, SendToOther, OtherDrops
<1>2. ASSUME NEW m \in Messages, SendCopy(m) PROVE QueueStep
  BY <1>2 DEF SendCopy, Session, QueueStep, Next
<1>3. ASSUME RunSendHandles \/ Stopping PROVE QueueStep
  BY <1>3 DEF RunSendHandles, Stopping, Session, QueueStep, Next
<1>4. ASSUME NEW w \in writes, Written(w) \/ WriteFails(w) PROVE QueueStep
  BY <1>4 DEF Written, WriteFails, Session, QueueStep, Next
<1>5. ASSUME ReadEnds \/ DestroySession PROVE UNCHANGED <<vars, peak>>
  BY <1>5 DEF ReadEnds, DestroySession
<1>6. ASSUME UNCHANGED bvars PROVE UNCHANGED <<vars, peak>>
  BY <1>6 DEF bvars, counting
<1> QED
  BY <1>1, <1>2, <1>3, <1>4, <1>5, <1>6 DEF NextB, Complete

\* Sharing messages, and the end of the session, add no step to the queue: every
\* theorem about WriteQueue holds here.
THEOREM ImplementsWriteQueue == SpecB => Spec
<1>1. InitB => Init
  BY DEF InitB
<1>2. [NextB]_bvars => [Next]_vars
  BY StepCases DEF QueueStep
<1> QED
  BY <1>1, <1>2, PTL DEF SpecB, Spec

-----------------------------------------------------------------------------
\* What was accepted is what was written followed by what is in mq_, and the
\* write under way is that of the first message.
Fifo ==
    /\ Len(accepted) = Len(wire) + Len(mq)
    /\ \A i \in 1 .. Len(wire) : accepted[i] = wire[i]
    /\ \A i \in 1 .. Len(mq) : accepted[Len(wire) + i] = mq[i]
    /\ \A w \in writes : w.idx = 1

ShortFifo ==
    /\ peak \in Nat
    /\ Len(mq) <= peak
    /\ peak <= 2 => Fifo

\* do_send appends to both; the write it may start is that of the only message.
LEMMA SendKeepsFifo ==
    ASSUME IInv, Fifo, NEW m \in Messages, do_send(m), wire' = wire
    PROVE  Fifo'
<1>t. mq \in Seq(Messages) /\ accepted \in Seq(Messages) /\ wire \in Seq(Messages)
  BY DEF IInv, TypeOK
<1>1. CASE ~isOpen
  BY <1>1 DEF do_send, Fifo
<1>2. CASE isOpen
  <2>1. /\ mq' = Append(mq, m) /\ accepted' = Append(accepted, m)
        /\ \A w \in writes' : w \in writes \/ w.idx = 1
    BY <1>2, <1>t DEF do_send, do_write
  <2>2. /\ Len(mq') = Len(mq) + 1 /\ Len(accepted') = Len(accepted) + 1
        /\ \A i \in 1 .. Len(mq) : mq'[i] = mq[i]
        /\ \A i \in 1 .. Len(accepted) : accepted'[i] = accepted[i]
        /\ mq'[Len(mq) + 1] = m /\ accepted'[Len(accepted) + 1] = m
    BY <2>1, <1>t
  <2>3. Len(mq) \in Nat /\ Len(wire) \in Nat /\ Len(accepted) \in Nat
    BY <1>t
  <2>4. Len(accepted') = Len(wire') + Len(mq')
    BY <2>2, <2>3 DEF Fifo
  <2>5. \A i \in 1 .. Len(wire') : accepted'[i] = wire'[i]
    BY <2>2, <2>3 DEF Fifo
  <2>6. ASSUME NEW i \in 1 .. Len(mq') PROVE accepted'[Len(wire') + i] = mq'[i]
    <3>1. CASE i \in 1 .. Len(mq)
      <4>1. Len(wire) + i \in 1 .. Len(accepted)
        BY <2>3, <3>1 DEF Fifo
      <4> QED
        BY <2>2, <3>1, <4>1 DEF Fifo
    <3>2. CASE i = Len(mq) + 1
      <4>1. Len(wire) + i = Len(accepted) + 1
        BY <2>3, <3>2 DEF Fifo
      <4> QED
        BY <2>2, <3>2, <4>1
    <3> QED
      BY <2>2, <2>3, <3>1, <3>2
  <2> QED
    BY <2>1, <2>4, <2>5, <2>6 DEF Fifo
<1> QED
  BY <1>1, <1>2

\* on_write takes the first of one or two messages; the swap puts the second in
\* its place, and the next write is again that of the first.
LEMMA WriteKeepsFifo ==
    ASSUME IInv, Fifo, Len(mq) <= 2, NEW w \in writes, on_write(w)
    PROVE  Fifo'
<1>t. mq \in Seq(Messages) /\ accepted \in Seq(Messages) /\ wire \in Seq(Messages)
  BY DEF IInv, TypeOK
<1>1. w.idx = 1 /\ Len(mq) \in 1 .. 2 /\ w.msg = mq[1]
  <2>1. w.idx \in 1 .. Len(mq) /\ mq[w.idx] = w.msg
    BY DEF IInv, SlotHoldsMessage
  <2>2. w.idx = 1
    BY DEF Fifo
  <2>3. Len(mq) \in Nat /\ Len(mq) <= 2
    BY <1>t
  <2>4. 1 \in 1 .. Len(mq)
    BY <2>1, <2>2
  <2>5. Len(mq) \in 1 .. 2
    <3> DEFINE n == Len(mq)
    <3>1. n \in Nat /\ n <= 2 /\ 1 \in 1 .. n
      BY <2>3, <2>4
    <3> HIDE DEF n
    <3>2. n \in 1 .. 2
      BY <3>1
    <3> QED
      BY <3>2 DEF n
  <2> QED
    BY <2>1, <2>2, <2>5
<1>2. /\ Len(wire) \in Nat /\ Len(accepted) \in Nat
      /\ wire' = Append(wire, mq[1]) /\ accepted' = accepted
      /\ mq[1] \in Messages
  BY <1>1, <1>t DEF on_write
<1>3. /\ Len(wire') = Len(wire) + 1
      /\ \A i \in 1 .. Len(wire) : wire'[i] = wire[i]
      /\ wire'[Len(wire) + 1] = mq[1]
  BY <1>2, <1>t
<1>4. mq' = [k \in 1 .. Len(mq) - 1 |-> IF k = 1 THEN mq[Len(mq)] ELSE mq[k]]
  BY <1>1 DEF on_write, Removed
<1>5. /\ mq' \in Seq(Messages)
      /\ Len(mq') = Len(mq) - 1
      /\ \A i \in 1 .. Len(mq') : mq'[i] = mq[i + 1]
  <2>1. mq' \in [1 .. Len(mq) - 1 -> Messages] /\ Len(mq) - 1 \in Nat
    BY <1>1, <1>4, <1>t
  <2>2. mq' \in Seq(Messages) /\ Len(mq') = Len(mq) - 1
    BY <2>1
  <2> QED
    BY <1>1, <1>4, <2>2
<1>6. \A v \in writes' : v.idx = 1
  <2>1. writes' = (writes \ {w}) \cup (IF mq' = << >> THEN {} ELSE do_write(mq'))
    BY DEF on_write
  <2>2. mq' # << >> => Len(mq') = 1
    BY <1>1, <1>5
  <2>3. \A v \in do_write(mq') : v.idx = Len(mq')
    BY DEF do_write
  <2> QED
    BY <2>1, <2>2, <2>3 DEF Fifo
<1>7. Len(accepted') = Len(wire') + Len(mq')
  BY <1>1, <1>2, <1>3, <1>5 DEF Fifo
<1>8. ASSUME NEW i \in 1 .. Len(wire') PROVE accepted'[i] = wire'[i]
  <2>1. CASE i \in 1 .. Len(wire)
    BY <1>2, <1>3, <2>1 DEF Fifo
  <2>2. CASE i = Len(wire) + 1
    BY <1>1, <1>2, <1>3, <2>2 DEF Fifo
  <2> QED
    BY <1>2, <1>3, <2>1, <2>2
<1>9. ASSUME NEW i \in 1 .. Len(mq') PROVE accepted'[Len(wire') + i] = mq'[i]
  <2>1. i + 1 \in 1 .. Len(mq) /\ Len(wire') + i = Len(wire) + (i + 1)
    BY <1>1, <1>2, <1>3, <1>5
  <2> QED
    BY <1>2, <1>5, <2>1 DEF Fifo
<1> QED
  BY <1>6, <1>7, <1>8, <1>9 DEF Fifo

\* Every step keeps it, as long as mq_ has been short.
LEMMA NextFifo == IInv /\ IInv' /\ ShortFifo /\ [NextB]_bvars => ShortFifo'
<1> SUFFICES ASSUME IInv, IInv', ShortFifo, [NextB]_bvars PROVE ShortFifo'
  OBVIOUS
<1>l. Len(mq) \in Nat /\ Len(mq') \in Nat
  BY DEF IInv, TypeOK
<1>1. ASSUME UNCHANGED <<vars, peak>> PROVE ShortFifo'
  BY <1>1 DEF vars, ShortFifo, Fifo
<1>2. ASSUME QueueStep PROVE ShortFifo'
  <2>1. peak' \in Nat /\ Len(mq') <= peak' /\ peak <= peak'
    BY <1>2, <1>l DEF QueueStep, Longest, ShortFifo
  <2> SUFFICES ASSUME peak' <= 2 PROVE Fifo'
    BY <2>1 DEF ShortFifo
  <2>2. Fifo /\ Len(mq) <= 2
    BY <2>1, <1>l DEF ShortFifo
  <2>3. ASSUME NEW m \in Messages, SendPosted(m) \/ SendInline(m) PROVE Fifo'
    <3>1. CASE SendPosted(m)
      BY <2>2, <3>1 DEF SendPosted, Fifo
    <3>2. CASE SendInline(m)
      BY <2>2, <3>2, SendKeepsFifo DEF SendInline
    <3> QED
      BY <2>3, <3>1, <3>2
  <2>4. ASSUME RunSend PROVE Fifo'
    <3>1. Head(strand).msg \in Messages
      BY <2>4, RunKeepsStrand DEF RunSend, IInv, Handler
    <3> QED
      BY <2>2, <2>4, <3>1, SendKeepsFifo DEF RunSend
  <2>5. ASSUME on_stop \/ do_stop \/ StreamClose PROVE Fifo'
    BY <2>2, <2>5 DEF on_stop, do_stop, StreamClose, Fifo
  <2>6. ASSUME NEW w \in writes, on_write(w) PROVE Fifo'
    BY <2>2, <2>6, WriteKeepsFifo
  <2>7. ASSUME NEW w \in writes, on_write_error(w) PROVE Fifo'
    BY <2>2, <2>7 DEF on_write_error, Fifo
  <2> QED
    BY <1>2, <2>3, <2>4, <2>5, <2>6, <2>7 DEF QueueStep, Next
<1> QED
  BY <1>1, <1>2, StepCases

\* A client gets its messages in the order do_send accepted them, for as long as
\* no more than two were ever in mq_.
THEOREM InOrderWhenShortHolds == SpecB => []InOrderWhenShort
<1>1. InitB => ShortFifo
  BY DEF InitB, Init, ShortFifo, Fifo
<1>2. IInv /\ ShortFifo => InOrderWhenShort
  <2> SUFFICES ASSUME IInv, ShortFifo, peak <= 2
               PROVE  wire = SubSeq(accepted, 1, Len(wire))
    BY DEF InOrderWhenShort, WrittenInOrder
  <2>1. /\ accepted \in Seq(Messages) /\ wire \in Seq(Messages)
        /\ Len(wire) \in Nat /\ Len(mq) \in Nat
    BY DEF IInv, TypeOK
  <2>2. /\ Len(wire) <= Len(accepted)
        /\ \A i \in 1 .. Len(wire) : accepted[i] = wire[i]
    BY <2>1 DEF ShortFifo, Fifo
  <2>3. SubSeq(accepted, 1, Len(wire)) = [i \in 1 .. Len(wire) |-> accepted[i]]
    BY <2>1, <2>2
  <2>4. wire = [i \in 1 .. Len(wire) |-> wire[i]]
    BY <2>1
  <2> QED
    BY <2>2, <2>3, <2>4
<1> QED
  BY <1>1, <1>2, ImplementsWriteQueue, Invariance, NextFifo, PTL DEF SpecB

-----------------------------------------------------------------------------
(* The counts.  A message is at most once in each of the three places where *)
(* a session keeps handles, so its handles are three yes or no questions.  *)

One(p) == IF p THEN 1 ELSE 0

OnStrand(m) == \E i \in DOMAIN strand : Pending(i) /\ strand[i].msg = m

InQueue(m) == m \in Elements(mq)

BeingWritten(m) == \E w \in writes : w.msg = m

Owned(m) ==
    IF session = "destroyed" THEN 0
    ELSE One(OnStrand(m)) + One(InQueue(m)) + One(BeingWritten(m))

\* A message without a buffer is one that nobody has, because nobody has asked
\* to send it.
Exact ==
    /\ buffer \in [Messages -> Buffers]
    /\ count \in [Messages -> Int]
    /\ held \in [Messages -> Nat]
    /\ \A m \in Messages :
        /\ buffer[m] = "none" => held[m] = 0 /\ m \in unsent
        /\ buffer[m] \in {"live", "freed"} => count[m] = held[m] + Owned(m)
        /\ buffer[m] = "freed" => count[m] = 0

\* A set whose elements are all the same has one element or none.
LEMMA CardinalityOne ==
    ASSUME NEW S, \A x, y \in S : x = y
    PROVE  Cardinality(S) = One(\E x \in S : TRUE)
<1>1. CASE S = {}
  BY <1>1, FS_EmptySet DEF One
<1>2. CASE S # {}
  <2>1. PICK x \in S : TRUE
    BY <1>2
  <2>2. S = {x}
    BY <2>1
  <2>3. Cardinality({x}) = 1
    BY FS_Singleton
  <2> QED
    BY <2>1, <2>2, <2>3 DEF One
<1> QED
  BY <1>1, <1>2

\* So the handles that the session has are counted by the three questions.
LEMMA HandlesOwned ==
    ASSUME IInv, NEW m \in Messages PROVE Handles(m) = Owned(m)
<1> DEFINE S == {i \in DOMAIN strand : Pending(i) /\ strand[i].msg = m}
           Q == {i \in DOMAIN mq : mq[i] = m}
           W == {w \in writes : w.msg = m}
<1>1. \A x, y \in S : x = y
  BY DEF IInv, EachSentOnce
<1>2. \A x, y \in Q : x = y
  BY DEF IInv, NoLossNoDuplicate, Distinct
<1>3. \A x, y \in W : x = y
  BY DEF IInv, OneWriter
<1>4. /\ (\E x \in S : TRUE) <=> OnStrand(m)
      /\ (\E x \in Q : TRUE) <=> InQueue(m)
      /\ (\E x \in W : TRUE) <=> BeingWritten(m)
  BY DEF OnStrand, InQueue, BeingWritten, Elements
<1>5. Handles(m) = IF session = "destroyed" THEN 0 ELSE Cardinality(S) + Cardinality(Q) + Cardinality(W)
  BY DEF Handles
<1> HIDE DEF S, Q, W
<1>6. /\ Cardinality(S) = One(\E x \in S : TRUE)
      /\ Cardinality(Q) = One(\E x \in Q : TRUE)
      /\ Cardinality(W) = One(\E x \in W : TRUE)
  BY <1>1, <1>2, <1>3, CardinalityOne
<1>7. /\ Cardinality(S) = One(OnStrand(m))
      /\ Cardinality(Q) = One(InQueue(m))
      /\ Cardinality(W) = One(BeingWritten(m))
  BY <1>4, <1>6 DEF One
<1> QED
  BY <1>5, <1>7 DEF Owned

\* A message that was not accepted is neither in mq_ nor being written.
LEMMA NotAccepted ==
    ASSUME IInv, NEW m, m \notin Elements(accepted)
    PROVE  ~InQueue(m) /\ ~BeingWritten(m)
<1>1. m \notin Elements(mq)
  BY DEF IInv, NoLossNoDuplicate
<1>2. \A w \in writes : w.msg \in Elements(mq)
  BY DEF IInv, SlotHoldsMessage, Elements, TypeOK
<1> QED
  BY <1>1, <1>2 DEF InQueue, BeingWritten

\* A message whose send was not called is nowhere in the session.
LEMMA UnsentNowhere ==
    ASSUME IInv, NEW m, m \in unsent
    PROVE  ~OnStrand(m) /\ ~InQueue(m) /\ ~BeingWritten(m)
<1>1. m \notin Elements(accepted) /\ ~OnStrand(m)
  BY DEF IInv, EachSentOnce, OnStrand
<1> QED
  BY <1>1, NotAccepted

\* A change d of the counts that is also the change of the handles is exact:
\* the buffer is freed if and only if the last handle goes.
LEMMA AdjustExact ==
    ASSUME Exact, NEW d \in [Messages -> Int], Adjust(d),
           held' \in [Messages -> Nat],
           \A m \in Messages : Owned(m)' \in Nat
             /\ held'[m] + Owned(m)' = held[m] + Owned(m) + d[m],
           \A m \in Messages : d[m] # 0 => held[m] + Owned(m) > 0,
           \A m \in Messages : Owned(m) \in Nat,
           \A m \in Messages : buffer[m] = "none" => held'[m] = 0 /\ m \in unsent'
    PROVE  Exact'
<1> DEFINE n(m) == IF buffer[m] = "null" THEN 0 ELSE count[m] + d[m]
<1>1. /\ count' = [m \in Messages |-> n(m)]
      /\ buffer' = [m \in Messages |->
            IF buffer[m] = "live" /\ n(m) <= 0 THEN "freed" ELSE buffer[m]]
  BY DEF Adjust
<1>2. \A m \in Messages : n(m) \in Int
  BY DEF Exact
<1>3. buffer' \in [Messages -> Buffers]
  BY <1>1 DEF Exact, Buffers
<1>4. count' \in [Messages -> Int]
  BY <1>1, <1>2
<1>5. ASSUME NEW m \in Messages
      PROVE  /\ buffer'[m] = "none" => held'[m] = 0 /\ m \in unsent'
             /\ buffer'[m] \in {"live", "freed"} => count'[m] = held'[m] + Owned(m)'
             /\ buffer'[m] = "freed" => count'[m] = 0
  <2>1. count'[m] = n(m)
        /\ buffer'[m] = IF buffer[m] = "live" /\ n(m) <= 0 THEN "freed" ELSE buffer[m]
    BY <1>1
  <2>2. /\ d[m] \in Int /\ count[m] \in Int /\ held[m] \in Nat /\ held'[m] \in Nat
        /\ Owned(m) \in Nat /\ Owned(m)' \in Nat
        /\ held'[m] + Owned(m)' = held[m] + Owned(m) + d[m]
        /\ d[m] # 0 => held[m] + Owned(m) > 0
    BY DEF Exact
  <2>3. CASE buffer[m] = "none"
    BY <2>1, <2>3
  <2>4. CASE buffer[m] = "null"
    BY <2>1, <2>4
  <2>5. CASE buffer[m] = "freed"
    <3>1. count[m] = 0 /\ count[m] = held[m] + Owned(m)
      BY <2>5 DEF Exact
    <3>2. d[m] = 0
      BY <2>2, <3>1
    <3> QED
      BY <2>1, <2>2, <2>5, <3>1, <3>2
  <2>6. CASE buffer[m] = "live"
    <3>1. count[m] = held[m] + Owned(m)
      BY <2>6 DEF Exact
    <3>2. n(m) = held'[m] + Owned(m)'
      BY <2>2, <2>6, <3>1
    <3> HIDE DEF n
    <3> QED
      BY <2>1, <2>2, <2>6, <3>2
  <2> QED
    BY <2>3, <2>4, <2>5, <2>6 DEF Exact, Buffers
<1> QED
  BY <1>3, <1>4, <1>5 DEF Exact

\* The changes the special members make are functions on messages.
LEMMA Changes ==
    ASSUME NEW m \in Messages
    PROVE  /\ Nothing \in [Messages -> Int]
           /\ Copied(m) \in [Messages -> Int]
           /\ Dropped(m) \in [Messages -> Int]
           /\ \A x \in Messages :
                /\ Nothing[x] = 0
                /\ Copied(m)[x] = One(x = m)
                /\ Dropped(m)[x] = -One(x = m)
           /\ \A f, g \in [Messages -> Int] :
                /\ Both(f, g) \in [Messages -> Int]
                /\ \A x \in Messages : Both(f, g)[x] = f[x] + g[x]
BY DEF Nothing, Copied, Dropped, Both, One

\* The three questions count at most three handles.
LEMMA OwnedIsNat == \A m : Owned(m) \in Nat
<1>1. \A p : One(p) \in Nat
  BY DEF One
<1> QED
  BY <1>1 DEF Owned

\* do_send counts right what it does to mq_ and to the write: the handle it was
\* given is one more in there, or gone.
LEMMA DoSendCounts ==
    ASSUME IInv, NEW m \in Messages, m \notin Elements(accepted), do_send(m)
    PROVE  /\ do_send_handles(m) \in [Messages -> Int]
           /\ \A x \in Messages :
                /\ x # m => do_send_handles(m)[x] = 0
                /\ One(InQueue(x)') + One(BeingWritten(x)')
                     = One(InQueue(x)) + One(BeingWritten(x))
                       + do_send_handles(m)[x] + One(x = m)
<1>1. ~InQueue(m) /\ ~BeingWritten(m)
  BY NotAccepted
<1>2. mq \in Seq(Messages)
  BY DEF IInv, TypeOK
<1>c. /\ Nothing \in [Messages -> Int]
      /\ Copied(m) \in [Messages -> Int]
      /\ Dropped(m) \in [Messages -> Int]
      /\ \A x \in Messages :
           /\ Nothing[x] = 0
           /\ Copied(m)[x] = One(x = m)
           /\ Dropped(m)[x] = -One(x = m)
  BY Changes
<1>3. CASE ~isOpen
  <2>1. do_send_handles(m) = Dropped(m)
    BY <1>3 DEF do_send_handles
  <2>2. UNCHANGED <<mq, writes>>
    BY <1>3 DEF do_send
  <2>3. \A x \in Messages : (InQueue(x)' <=> InQueue(x)) /\ (BeingWritten(x)' <=> BeingWritten(x))
    BY <2>2 DEF InQueue, BeingWritten
  <2> QED
    BY <1>c, <2>1, <2>3 DEF One
<1>4. ASSUME isOpen, NEW x PROVE InQueue(x)' <=> InQueue(x) \/ x = m
  <2>1. mq' = Append(mq, m)
    BY <1>4 DEF do_send
  <2>2. Elements(mq') = Elements(mq) \cup {m}
    BY <1>2, <2>1, AppendElements
  <2> QED
    BY <2>2 DEF InQueue
<1>5. CASE isOpen /\ mq = << >>
  <2>1. do_send_handles(m) = Copied(m)
    BY <1>5 DEF do_send_handles
  <2>2. writes = {}
    BY <1>5 DEF IInv, SlotHoldsMessage
  <2>3. writes' = {[idx |-> Len(<<m>>), msg |-> <<m>>[Len(<<m>>)], live |-> isOpen]}
    BY <1>5 DEF do_send, do_write
  <2>4. <<m>>[Len(<<m>>)] = m
    OBVIOUS
  <2>5. \A x \in Messages : ~BeingWritten(x) /\ (BeingWritten(x)' <=> x = m)
    BY <2>2, <2>3, <2>4 DEF BeingWritten
  <2> QED
    BY <1>1, <1>c, <1>4, <1>5, <2>1, <2>5 DEF One
<1>6. CASE isOpen /\ mq # << >>
  <2>1. do_send_handles(m) = Nothing
    BY <1>6 DEF do_send_handles
  <2>2. writes' = writes
    BY <1>6 DEF do_send
  <2>3. \A x \in Messages : BeingWritten(x)' <=> BeingWritten(x)
    BY <2>2 DEF BeingWritten
  <2> QED
    BY <1>1, <1>c, <1>4, <1>6, <2>1, <2>3 DEF One
<1> QED
  BY <1>3, <1>5, <1>6

\* A posted do_send is one more on the strand, and do_stop is none.
LEMMA PostCounts ==
    ASSUME TypeOK, NEW h \in Handler, strand' = Append(strand, h)
    PROVE  \A x : OnStrand(x)' <=> OnStrand(x) \/ (h.op = "do_send" /\ h.msg = x)
<1>1. /\ DOMAIN strand' = DOMAIN strand \cup {Len(strand) + 1}
      /\ \A i \in DOMAIN strand : strand'[i] = strand[i] /\ i # Len(strand) + 1
      /\ strand'[Len(strand) + 1] = h
  BY PostKeepsStrand
<1> QED
  BY <1>1 DEF OnStrand, Pending

\* The handler that runs leaves the strand, and its message with it.
LEMMA RunCounts ==
    ASSUME IInv, strand # << >>, strand' = Tail(strand)
    PROVE  \A x : OnStrand(x)' <=>
                    OnStrand(x) /\ ~(Head(strand).op = "do_send" /\ Head(strand).msg = x)
<1>1. /\ 1 \in DOMAIN strand /\ Head(strand) = strand[1]
      /\ \A i \in DOMAIN strand' :
           i + 1 \in DOMAIN strand /\ i + 1 # 1 /\ strand'[i] = strand[i + 1]
  BY RunKeepsStrand DEF IInv
<1>2. \A i \in DOMAIN strand : i # 1 => i - 1 \in DOMAIN strand' /\ strand'[i - 1] = strand[i]
  BY DEF IInv, TypeOK
<1>3. \A i, j \in DOMAIN strand :
        Pending(i) /\ Pending(j) /\ strand[i].msg = strand[j].msg => i = j
  BY DEF IInv, EachSentOnce
<1>4. ASSUME NEW x, NEW i \in DOMAIN strand', Pending(i)', strand'[i].msg = x
      PROVE  OnStrand(x) /\ ~(Head(strand).op = "do_send" /\ Head(strand).msg = x)
  <2>1. i + 1 \in DOMAIN strand /\ Pending(i + 1) /\ strand[i + 1].msg = x /\ i + 1 # 1
    BY <1>1, <1>4 DEF Pending
  <2>2. ASSUME Head(strand).op = "do_send", Head(strand).msg = x PROVE FALSE
    <3>1. Pending(1) /\ strand[1].msg = x
      BY <1>1, <2>2 DEF Pending
    <3> QED
      BY <1>1, <1>3, <2>1, <3>1
  <2> QED
    BY <2>1, <2>2 DEF OnStrand
<1>5. ASSUME NEW x, NEW i \in DOMAIN strand, Pending(i), strand[i].msg = x,
             ~(Head(strand).op = "do_send" /\ Head(strand).msg = x)
      PROVE  OnStrand(x)'
  <2>1. i # 1
    BY <1>1, <1>5 DEF Pending
  <2>2. i - 1 \in DOMAIN strand' /\ strand'[i - 1] = strand[i]
    BY <1>2, <2>1
  <2>3. \E k \in DOMAIN strand' : Pending(k)' /\ strand'[k].msg = x
    BY <1>5, <2>2 DEF Pending
  <2> QED
    BY <2>3 DEF OnStrand
<1>6. ASSUME NEW x
      PROVE  OnStrand(x)' <=> OnStrand(x) /\ ~(Head(strand).op = "do_send" /\ Head(strand).msg = x)
  BY <1>4, <1>5 DEF OnStrand
<1> QED
  BY <1>6

\* on_write counts right: its own copy and the slot it shrank away are gone, and
\* the write that follows has a copy of its message.
LEMMA OnWriteCounts ==
    ASSUME IInv, NEW w \in writes, on_write(w)
    PROVE  /\ on_write_handles(w) \in [Messages -> Int]
           /\ \A x \in Messages :
                /\ One(InQueue(x)') + One(BeingWritten(x)')
                     = One(InQueue(x)) + One(BeingWritten(x)) + on_write_handles(w)[x]
                /\ on_write_handles(w)[x] # 0 => InQueue(x)
<1> DEFINE m == w.msg
           q == Removed(mq, w.idx)
           d == IF q = << >> THEN Nothing ELSE Copied(q[Len(q)])
<1>1. mq \in Seq(Messages) /\ Distinct(mq)
  BY DEF IInv, TypeOK, NoLossNoDuplicate
<1>2. w.idx \in 1 .. Len(mq) /\ mq[w.idx] = m
  BY DEF IInv, SlotHoldsMessage
<1>3. m \in Messages
  BY <1>1, <1>2
<1>4. q \in Seq(Messages) /\ Elements(q) = Elements(mq) \ {m}
  BY <1>1, <1>2, RemovedElements
<1>5. mq' = q /\ writes' = (writes \ {w}) \cup (IF q = << >> THEN {} ELSE do_write(q))
  BY DEF on_write
<1>6. writes \ {w} = {}
  BY DEF IInv, OneWriter
<1>7. on_write_handles(w) = Both(Both(Dropped(m), Dropped(m)), d)
  BY <1>2 DEF on_write_handles
<1>m. m \in Elements(mq)
  BY <1>1, <1>2 DEF Elements
<1>w. \A v \in writes : v = w
  BY DEF IInv, OneWriter
<1>8. \A x : /\ InQueue(x)' <=> InQueue(x) /\ x # m
             /\ BeingWritten(x) <=> x = m
  BY <1>4, <1>5, <1>w DEF InQueue, BeingWritten
<1>c. /\ Nothing \in [Messages -> Int] /\ Dropped(m) \in [Messages -> Int]
      /\ \A x \in Messages : Nothing[x] = 0 /\ Dropped(m)[x] = -One(x = m)
      /\ \A f, g \in [Messages -> Int] :
           /\ Both(f, g) \in [Messages -> Int]
           /\ \A x \in Messages : Both(f, g)[x] = f[x] + g[x]
  BY <1>3, Changes
<1> HIDE DEF q, m, d
<1>9. /\ d \in [Messages -> Int]
      /\ \A x \in Messages : /\ d[x] = One(BeingWritten(x)')
                             /\ BeingWritten(x)' => InQueue(x) /\ x # m
  <2>1. CASE q = << >>
    <3>1. d = Nothing /\ writes' = {}
      BY <1>5, <1>6, <2>1 DEF d
    <3> QED
      BY <1>c, <3>1 DEF BeingWritten, One
  <2>2. CASE q # << >>
    <3> DEFINE l == q[Len(q)]
    <3>1. l \in Messages /\ l \in Elements(q)
      <4>1. Len(q) \in DOMAIN q
        BY <1>4, <2>2
      <4> QED
        BY <1>4, <4>1 DEF Elements
    <3>2. d = Copied(l) /\ writes' = {[idx |-> Len(q), msg |-> l, live |-> isOpen]}
      BY <1>5, <1>6, <2>2 DEF d, do_write
    <3> HIDE DEF l
    <3>3. \A x : BeingWritten(x)' <=> x = l
      BY <3>2 DEF BeingWritten
    <3>4. Copied(l) \in [Messages -> Int] /\ \A x \in Messages : Copied(l)[x] = One(x = l)
      BY <3>1, Changes
    <3>5. l \in Elements(mq) /\ l # m
      BY <1>4, <3>1
    <3> QED
      BY <3>2, <3>3, <3>4, <3>5 DEF InQueue, One
  <2> QED
    BY <2>1, <2>2
<1>10. /\ on_write_handles(w) \in [Messages -> Int]
       /\ \A x \in Messages : on_write_handles(w)[x] = (-One(x = m)) + (-One(x = m)) + d[x]
  <2> DEFINE b == Both(Dropped(m), Dropped(m))
  <2>1. b \in [Messages -> Int]
        /\ \A x \in Messages : b[x] = (-One(x = m)) + (-One(x = m))
    BY <1>c
  <2>2. on_write_handles(w) = Both(b, d)
    BY <1>7
  <2> HIDE DEF b
  <2>3. Both(b, d) \in [Messages -> Int] /\ \A x \in Messages : Both(b, d)[x] = b[x] + d[x]
    BY <1>c, <1>9, <2>1
  <2> QED
    BY <2>1, <2>2, <2>3
<1>11. InQueue(m)
  BY <1>m DEF InQueue
<1>12. ASSUME NEW x \in Messages
       PROVE  /\ One(InQueue(x)') + One(BeingWritten(x)')
                   = One(InQueue(x)) + One(BeingWritten(x)) + on_write_handles(w)[x]
              /\ on_write_handles(w)[x] # 0 => InQueue(x)
  <2>1. CASE x = m
    BY <1>8, <1>9, <1>10, <1>11, <2>1 DEF One
  <2>2. CASE x # m
    BY <1>8, <1>9, <1>10, <2>2 DEF One
  <2> QED
    BY <2>1, <2>2
<1> QED
  BY <1>10, <1>12

\* A step of the session that counts its handles right is exact.
LEMMA SessionExact ==
    ASSUME IInv, Exact, NEW ACTION A, NEW d \in [Messages -> Int], Session(A, d),
           \A x \in Messages :
             /\ One(OnStrand(x)') + One(InQueue(x)') + One(BeingWritten(x)')
                  = One(OnStrand(x)) + One(InQueue(x)) + One(BeingWritten(x)) + d[x]
             /\ d[x] # 0 => held[x] > 0 \/ OnStrand(x) \/ InQueue(x) \/ BeingWritten(x)
             /\ held[x] = 0 /\ x \in unsent => x \in unsent'
    PROVE  Exact'
<1>1. session # "destroyed" /\ session' = session /\ held' = held /\ Adjust(d)
  BY DEF Session
<1>2. \A x \in Messages : Owned(x) \in Nat /\ Owned(x)' \in Nat
  BY OwnedIsNat, <1>1 DEF Owned, One
<1>3. ASSUME NEW x \in Messages
      PROVE  /\ held'[x] + Owned(x)' = held[x] + Owned(x) + d[x]
             /\ d[x] # 0 => held[x] + Owned(x) > 0
  <2>1. held[x] \in Nat /\ d[x] \in Int
    BY DEF Exact
  <2>2. /\ Owned(x) = One(OnStrand(x)) + One(InQueue(x)) + One(BeingWritten(x))
        /\ Owned(x)' = One(OnStrand(x)') + One(InQueue(x)') + One(BeingWritten(x)')
    BY <1>1 DEF Owned
  <2>3. Owned(x)' = Owned(x) + d[x]
    BY <2>2
  <2>4. OnStrand(x) \/ InQueue(x) \/ BeingWritten(x) => Owned(x) > 0
    BY <2>2 DEF One
  <2> QED
    BY <1>1, <1>2, <2>1, <2>3, <2>4
<1>4. held' \in [Messages -> Nat]
  BY <1>1 DEF Exact
<1>5. \A x \in Messages : buffer[x] = "none" => held'[x] = 0 /\ x \in unsent'
  BY <1>1 DEF Exact
<1> QED
  BY <1>1, <1>2, <1>3, <1>4, <1>5, AdjustExact

\* A step outside the session that makes or drops one handle is exact.
LEMMA OutsideExact ==
    ASSUME Exact, NEW m \in Messages, NEW d \in [Messages -> Int], Adjust(d),
           held[m] > 0, UNCHANGED <<vars, session>>,
           held' = [held EXCEPT ![m] = @ + d[m]], held[m] + d[m] \in Nat,
           \A x \in Messages : x # m => d[x] = 0
    PROVE  Exact'
<1>1. \A x \in Messages : Owned(x) \in Nat /\ Owned(x)' = Owned(x)
  BY OwnedIsNat DEF vars, Owned, OnStrand, InQueue, BeingWritten, Pending
<1>2. /\ held \in [Messages -> Nat]
      /\ \A x \in Messages : held'[x] = IF x = m THEN held[m] + d[m] ELSE held[x]
  BY DEF Exact
<1>3. held' \in [Messages -> Nat]
  BY <1>2
<1>4. ASSUME NEW x \in Messages
      PROVE  /\ Owned(x)' \in Nat
             /\ held'[x] + Owned(x)' = held[x] + Owned(x) + d[x]
             /\ d[x] # 0 => held[x] + Owned(x) > 0
  <2>1. Owned(x) \in Nat /\ Owned(x)' = Owned(x) /\ held[x] \in Nat /\ d[x] \in Int
    BY <1>1, <1>2
  <2>2. CASE x = m
    BY <1>2, <2>1, <2>2
  <2>3. CASE x # m
    BY <1>2, <2>1, <2>3
  <2> QED
    BY <2>2, <2>3
<1>5. \A x \in Messages : buffer[x] = "none" => held'[x] = 0 /\ x \in unsent'
  <2>1. buffer[m] # "none"
    BY DEF Exact
  <2> QED
    BY <1>2, <2>1 DEF Exact, vars
<1> QED
  BY <1>1, <1>3, <1>4, <1>5, AdjustExact

\* No step of the session, of the sender or of the other members miscounts.
LEMMA NextExact == IInv /\ Exact /\ [NextB]_bvars => Exact'
<1> SUFFICES ASSUME IInv, Exact, [NextB]_bvars PROVE Exact'
  OBVIOUS
<1>o. ASSUME UNCHANGED vars, session' = session \/ (session # "destroyed" /\ session' # "destroyed")
      PROVE  \A x \in Messages : Owned(x)' = Owned(x)
  BY <1>o DEF vars, Owned, OnStrand, InQueue, BeingWritten, Pending
<1>1. ASSUME NEW m \in Messages, make_message(m) PROVE Exact'
  <2>1. /\ buffer[m] = "none"
        /\ held' = [held EXCEPT ![m] = 1]
        /\ buffer' = [buffer EXCEPT ![m] = IF m \in Long THEN "null" ELSE "live"]
        /\ count' = [count EXCEPT ![m] = IF m \in Long THEN 0 ELSE 1]
        /\ UNCHANGED <<vars, session>>
    BY <1>1 DEF make_message, message
  <2>2. \A x \in Messages : Owned(x)' = Owned(x)
    BY <1>o, <2>1
  <2>3. m \in unsent
    BY <2>1 DEF Exact
  <2>4. Owned(m) = 0
    BY <2>3, UnsentNowhere DEF Owned, One
  <2>5. unsent' = unsent
    BY <2>1 DEF vars
  <2>6. /\ buffer' \in [Messages -> Buffers]
        /\ count' \in [Messages -> Int]
        /\ held' \in [Messages -> Nat]
    BY <2>1 DEF Exact, Buffers
  <2>7. ASSUME NEW x \in Messages
        PROVE  /\ buffer'[x] = "none" => held'[x] = 0 /\ x \in unsent'
               /\ buffer'[x] \in {"live", "freed"} => count'[x] = held'[x] + Owned(x)'
               /\ buffer'[x] = "freed" => count'[x] = 0
    <3>1. CASE x = m
      BY <2>1, <2>2, <2>4, <3>1 DEF Exact
    <3>2. CASE x # m
      BY <2>1, <2>2, <2>5, <3>2 DEF Exact
    <3> QED
      BY <3>1, <3>2
  <2> QED
    BY <2>6, <2>7 DEF Exact
<1>2. ASSUME NEW m \in Messages, SendToOther(m) PROVE Exact'
  <2>1. Copied(m) \in [Messages -> Int] /\ \A x \in Messages : Copied(m)[x] = One(x = m)
    BY Changes
  <2>2. Copied(m)[m] = 1 /\ \A x \in Messages : x # m => Copied(m)[x] = 0
    BY <2>1 DEF One
  <2>3. /\ held[m] > 0 /\ Adjust(Copied(m)) /\ UNCHANGED <<vars, session>>
        /\ held' = [held EXCEPT ![m] = held[m] + 1]
    BY <1>2 DEF SendToOther
  <2>4. held[m] \in Nat
    BY DEF Exact
  <2>5. held[m] + 1 \in Nat
    BY <2>4
  <2> QED
    BY <2>1, <2>2, <2>3, <2>5, OutsideExact
<1>3. ASSUME NEW m \in Messages, OtherDrops(m) PROVE Exact'
  <2>1. Dropped(m) \in [Messages -> Int] /\ \A x \in Messages : Dropped(m)[x] = -One(x = m)
    BY Changes
  <2>2. Dropped(m)[m] = -1 /\ \A x \in Messages : x # m => Dropped(m)[x] = 0
    BY <2>1 DEF One
  <2>3. held[m] \in Nat
    BY DEF Exact
  <2>4. held[m] - 1 = held[m] + (-1)
    BY <2>3
  <2>5. /\ held[m] > 0 /\ Adjust(Dropped(m)) /\ UNCHANGED <<vars, session>>
        /\ held' = [held EXCEPT ![m] = held[m] + (-1)]
    BY <1>3, <2>4 DEF OtherDrops
  <2>6. held[m] + (-1) \in Nat
    BY <2>3, <2>5
  <2> QED
    BY <2>1, <2>2, <2>5, <2>6, OutsideExact
<1>4. ASSUME NEW m \in Messages, held[m] > 0, Session(SendPosted(m), Copied(m)) PROVE Exact'
  <2> DEFINE h == [op |-> "do_send", msg |-> m]
  <2>1. /\ m \in unsent /\ unsent' = unsent \ {m} /\ strand' = Append(strand, h)
        /\ UNCHANGED <<mq, writes>>
    BY <1>4 DEF Session, SendPosted
  <2>2. h \in Handler /\ h.op = "do_send" /\ h.msg = m
    BY DEF Handler
  <2> HIDE DEF h
  <2>3. \A x : OnStrand(x)' <=> OnStrand(x) \/ x = m
    BY <2>1, <2>2, PostCounts DEF IInv
  <2>4. \A x : (InQueue(x)' <=> InQueue(x)) /\ (BeingWritten(x)' <=> BeingWritten(x))
    BY <2>1 DEF InQueue, BeingWritten
  <2>5. ~OnStrand(m)
    BY <2>1, UnsentNowhere
  <2>6. Copied(m) \in [Messages -> Int] /\ \A x \in Messages : Copied(m)[x] = One(x = m)
    BY Changes
  <2>7. ASSUME NEW x \in Messages
        PROVE  /\ One(OnStrand(x)') + One(InQueue(x)') + One(BeingWritten(x)')
                    = One(OnStrand(x)) + One(InQueue(x)) + One(BeingWritten(x)) + Copied(m)[x]
               /\ Copied(m)[x] # 0 => held[x] > 0
               /\ held[x] = 0 /\ x \in unsent => x \in unsent'
    <3>1. CASE x = m
      BY <1>4, <2>3, <2>4, <2>5, <2>6, <3>1 DEF One
    <3>2. CASE x # m
      BY <2>1, <2>3, <2>4, <2>6, <3>2 DEF One
    <3> QED
      BY <3>1, <3>2
  <2> QED
    BY <1>4, <2>6, <2>7, SessionExact
<1>5. ASSUME NEW m \in Messages, held[m] > 0,
             Session(SendInline(m), Both(Copied(m), do_send_handles(m)))
      PROVE  Exact'
  <2> DEFINE e == do_send_handles(m)
             d == Both(Copied(m), e)
  <2>1. m \in unsent /\ unsent' = unsent \ {m} /\ do_send(m) /\ UNCHANGED strand
    BY <1>5 DEF Session, SendInline
  <2>2. m \notin Elements(accepted)
    BY <2>1 DEF IInv, EachSentOnce
  <2>3. /\ e \in [Messages -> Int]
        /\ \A x \in Messages :
             /\ x # m => e[x] = 0
             /\ One(InQueue(x)') + One(BeingWritten(x)')
                  = One(InQueue(x)) + One(BeingWritten(x)) + e[x] + One(x = m)
    BY <2>1, <2>2, DoSendCounts
  <2> HIDE DEF e
  <2>4. /\ Copied(m) \in [Messages -> Int] /\ \A x \in Messages : Copied(m)[x] = One(x = m)
        /\ d \in [Messages -> Int] /\ \A x \in Messages : d[x] = Copied(m)[x] + e[x]
    BY <2>3, Changes
  <2>5. \A x : OnStrand(x)' <=> OnStrand(x)
    BY <2>1 DEF OnStrand, Pending
  <2>6. Session(SendInline(m), d)
    BY <1>5 DEF d, e
  <2> HIDE DEF d
  <2>7. ASSUME NEW x \in Messages
        PROVE  /\ One(OnStrand(x)') + One(InQueue(x)') + One(BeingWritten(x)')
                    = One(OnStrand(x)) + One(InQueue(x)) + One(BeingWritten(x)) + d[x]
               /\ d[x] # 0 => held[x] > 0
               /\ held[x] = 0 /\ x \in unsent => x \in unsent'
    <3>1. CASE x = m
      BY <1>5, <2>3, <2>4, <2>5, <3>1 DEF One
    <3>2. CASE x # m
      BY <2>1, <2>3, <2>4, <2>5, <3>2 DEF One
    <3> QED
      BY <3>1, <3>2
  <2> QED
    BY <2>4, <2>6, <2>7, SessionExact
<1>6. ASSUME RunSendHandles PROVE Exact'
  <2> DEFINE m == Head(strand).msg
             d == do_send_handles(m)
  <2>1. /\ strand # << >> /\ Head(strand).op = "do_send" /\ strand' = Tail(strand)
        /\ do_send(m) /\ UNCHANGED unsent
    BY <1>6 DEF RunSendHandles, Session, RunSend
  <2>2. Head(strand) \in Handler /\ 1 \in DOMAIN strand /\ Head(strand) = strand[1]
    BY <2>1, RunKeepsStrand DEF IInv
  <2>3. m \in Messages
    BY <2>1, <2>2 DEF Handler
  <2>4. Pending(1) /\ strand[1].msg = m
    BY <2>1, <2>2 DEF Pending
  <2>5. m \notin Elements(accepted) /\ OnStrand(m)
    BY <2>2, <2>4 DEF IInv, EachSentOnce, OnStrand
  <2>6. \A x : OnStrand(x)' <=> OnStrand(x) /\ x # m
    BY <2>1, RunCounts
  <2>8. Session(RunSend, d)
    BY <1>6 DEF RunSendHandles
  <2> HIDE DEF m
  <2>7. /\ d \in [Messages -> Int]
        /\ \A x \in Messages :
             /\ x # m => d[x] = 0
             /\ One(InQueue(x)') + One(BeingWritten(x)')
                  = One(InQueue(x)) + One(BeingWritten(x)) + d[x] + One(x = m)
    BY <2>1, <2>3, <2>5, DoSendCounts
  <2> HIDE DEF d
  <2>9. ASSUME NEW x \in Messages
        PROVE  /\ One(OnStrand(x)') + One(InQueue(x)') + One(BeingWritten(x)')
                    = One(OnStrand(x)) + One(InQueue(x)) + One(BeingWritten(x)) + d[x]
               /\ d[x] # 0 => OnStrand(x)
               /\ held[x] = 0 /\ x \in unsent => x \in unsent'
    <3>1. CASE x = m
      BY <2>1, <2>5, <2>6, <2>7, <3>1 DEF One
    <3>2. CASE x # m
      BY <2>1, <2>6, <2>7, <3>2 DEF One
    <3> QED
      BY <3>1, <3>2
  <2> QED
    BY <2>7, <2>8, <2>9, SessionExact
<1>7. ASSUME Stopping PROVE Exact'
  <2>1. Session(on_stop \/ do_stop \/ StreamClose, Nothing)
    BY <1>7 DEF Stopping
  <2>2. UNCHANGED <<unsent, mq, writes>>
    BY <2>1 DEF Session, on_stop, do_stop, StreamClose
  <2>3. \A x : OnStrand(x)' <=> OnStrand(x)
    <3>1. CASE on_stop
      <4> DEFINE h == [op |-> "do_stop"]
      <4>1. h \in Handler /\ h.op # "do_send" /\ strand' = Append(strand, h)
        BY <3>1 DEF on_stop, Handler
      <4> HIDE DEF h
      <4> QED
        BY <4>1, PostCounts DEF IInv
    <3>2. CASE do_stop
      BY <3>2, RunCounts DEF do_stop
    <3>3. CASE StreamClose
      BY <3>3 DEF StreamClose, OnStrand, Pending
    <3> QED
      BY <2>1, <3>1, <3>2, <3>3 DEF Session
  <2>4. \A x : (InQueue(x)' <=> InQueue(x)) /\ (BeingWritten(x)' <=> BeingWritten(x))
    BY <2>2 DEF InQueue, BeingWritten
  <2>5. Nothing \in [Messages -> Int] /\ \A x \in Messages : Nothing[x] = 0
    BY DEF Nothing
  <2>6. \A x \in Messages :
          /\ One(OnStrand(x)') + One(InQueue(x)') + One(BeingWritten(x)')
               = One(OnStrand(x)) + One(InQueue(x)) + One(BeingWritten(x)) + Nothing[x]
          /\ Nothing[x] = 0
          /\ x \in unsent => x \in unsent'
    BY <2>2, <2>3, <2>4, <2>5 DEF One
  <2> QED
    BY <2>1, <2>5, <2>6, SessionExact
<1>8. ASSUME NEW w \in writes, Written(w) PROVE Exact'
  <2> DEFINE d == on_write_handles(w)
  <2>1. Session(on_write(w), d)
    BY <1>8 DEF Written
  <2>2. on_write(w) /\ UNCHANGED <<unsent, strand>>
    BY <2>1 DEF Session, on_write
  <2>3. /\ d \in [Messages -> Int]
        /\ \A x \in Messages :
             /\ One(InQueue(x)') + One(BeingWritten(x)')
                  = One(InQueue(x)) + One(BeingWritten(x)) + d[x]
             /\ d[x] # 0 => InQueue(x)
    BY <2>2, OnWriteCounts
  <2> HIDE DEF d
  <2>4. \A x : OnStrand(x)' <=> OnStrand(x)
    BY <2>2 DEF OnStrand, Pending
  <2>5. \A x \in Messages :
          /\ One(OnStrand(x)') + One(InQueue(x)') + One(BeingWritten(x)')
               = One(OnStrand(x)) + One(InQueue(x)) + One(BeingWritten(x)) + d[x]
          /\ d[x] # 0 => InQueue(x)
          /\ x \in unsent => x \in unsent'
    BY <2>2, <2>3, <2>4 DEF One
  <2> QED
    BY <2>1, <2>3, <2>5, SessionExact
<1>9. ASSUME NEW w \in writes, WriteFails(w) PROVE Exact'
  <2> DEFINE m == w.msg
  <2>1. Session(on_write_error(w), Dropped(m))
    BY <1>9 DEF WriteFails
  <2>2. writes' = writes \ {w} /\ UNCHANGED <<unsent, strand, mq>>
    BY <2>1 DEF Session, on_write_error
  <2>3. m \in Messages
    BY DEF IInv, TypeOK, Write
  <2>4. \A v \in writes : v = w
    BY DEF IInv, OneWriter
  <2>5. \A x : /\ OnStrand(x)' <=> OnStrand(x)
               /\ InQueue(x)' <=> InQueue(x)
               /\ ~BeingWritten(x)'
               /\ BeingWritten(x) <=> x = m
    BY <2>2, <2>4 DEF OnStrand, Pending, InQueue, BeingWritten
  <2> HIDE DEF m
  <2>6. Dropped(m) \in [Messages -> Int] /\ \A x \in Messages : Dropped(m)[x] = -One(x = m)
    BY <2>3, Changes
  <2>7. \A x \in Messages :
          /\ One(OnStrand(x)') + One(InQueue(x)') + One(BeingWritten(x)')
               = One(OnStrand(x)) + One(InQueue(x)) + One(BeingWritten(x)) + Dropped(m)[x]
          /\ Dropped(m)[x] # 0 => BeingWritten(x)
          /\ x \in unsent => x \in unsent'
    BY <2>2, <2>5, <2>6 DEF One
  <2> QED
    BY <2>1, <2>6, <2>7, SessionExact
<1>10. ASSUME ReadEnds \/ UNCHANGED bvars PROVE Exact'
  <2>1. UNCHANGED <<vars, buffer, count, held>>
        /\ (session' = session \/ (session # "destroyed" /\ session' # "destroyed"))
    BY <1>10 DEF ReadEnds, bvars, counting
  <2> QED
    BY <1>o, <2>1 DEF Exact, vars
<1>11. ASSUME DestroySession PROVE Exact'
  <2> DEFINE d == [m \in Messages |-> IF m \in Elements(mq) THEN -1 ELSE 0]
  <2>1. /\ session = "ended" /\ session' = "destroyed" /\ strand = << >> /\ writes = {}
        /\ Adjust(d) /\ UNCHANGED <<vars, held>>
    BY <1>11 DEF DestroySession
  <2>2. \A x : ~OnStrand(x) /\ ~BeingWritten(x)
    BY <2>1 DEF OnStrand, BeingWritten
  <2>3. \A x \in Messages : Owned(x) = One(InQueue(x)) /\ Owned(x)' = 0
    BY <2>1, <2>2 DEF Owned, One
  <2>4. d \in [Messages -> Int] /\ \A x \in Messages : d[x] = -One(InQueue(x))
    BY DEF InQueue, One
  <2> HIDE DEF d
  <2>5. ASSUME NEW x \in Messages
        PROVE  /\ Owned(x) \in Nat /\ Owned(x)' \in Nat
               /\ held'[x] + Owned(x)' = held[x] + Owned(x) + d[x]
               /\ d[x] # 0 => held[x] + Owned(x) > 0
    <3>1. held[x] \in Nat /\ held'[x] = held[x]
      BY <2>1 DEF Exact
    <3> QED
      BY <2>3, <2>4, <3>1 DEF One
  <2>6. /\ held' \in [Messages -> Nat]
        /\ \A x \in Messages : buffer[x] = "none" => held'[x] = 0 /\ x \in unsent'
    BY <2>1 DEF Exact, vars
  <2> QED
    BY <2>1, <2>4, <2>5, <2>6, AdjustExact
<1> QED
  BY <1>1, <1>2, <1>3, <1>4, <1>5, <1>6, <1>7, <1>8, <1>9, <1>10, <1>11
     DEF NextB, SendCopy, Complete

\* Nobody has a message when the session begins.
LEMMA InitExact == InitB => Exact
BY DEF InitB, Init, Exact, Buffers

\* The count of a buffer is the number of the handles to it, inside the session
\* and outside, however many members share the message and whatever completes
\* or fails: it is freed with the last handle and not before.
THEOREM CountExactHolds == SpecB => []CountExact
<1>1. IInv /\ Exact => CountExact
  BY HandlesOwned DEF Exact, CountExact
<1> QED
  BY <1>1, InitExact, NextExact, ImplementsWriteQueue, Invariance, PTL DEF SpecB
=============================================================================
