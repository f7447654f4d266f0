-------------------------- MODULE WriteQueueProofs --------------------------
(***************************************************************************)
(* Proofs about WriteQueue, for any set of messages: the session starts   *)
(* at most one write at a time, loses and duplicates nothing, never       *)
(* stalls, and implements Mailbox.                                        *)
(***************************************************************************)
EXTENDS WriteQueue, TLAPS

-----------------------------------------------------------------------------
\* Appending a new element, as mq_.emplace_back does, adds just that element.
LEMMA AppendElements ==
    ASSUME NEW S, NEW s \in Seq(S), NEW x \in S
    PROVE  /\ Append(s, x) \in Seq(S)
           /\ Append(s, x) # << >>
           /\ Len(Append(s, x)) = Len(s) + 1
           /\ \A i \in 1 .. Len(s) : Append(s, x)[i] = s[i]
           /\ Append(s, x)[Len(s) + 1] = x
           /\ Elements(Append(s, x)) = Elements(s) \cup {x}
           /\ Distinct(s) /\ x \notin Elements(s) => Distinct(Append(s, x))
<1>1. /\ Append(s, x) \in Seq(S)
      /\ Append(s, x) # << >>
      /\ Len(Append(s, x)) = Len(s) + 1
      /\ \A i \in 1 .. Len(s) : Append(s, x)[i] = s[i]
      /\ Append(s, x)[Len(s) + 1] = x
  OBVIOUS
<1>2. DOMAIN Append(s, x) = DOMAIN s \cup {Len(s) + 1}
  BY <1>1
<1>3. Elements(Append(s, x)) = Elements(s) \cup {x}
  BY <1>1, <1>2 DEF Elements
<1>4. ASSUME Distinct(s), x \notin Elements(s) PROVE Distinct(Append(s, x))
  BY <1>1, <1>2, <1>4 DEF Elements, Distinct
<1> QED
  BY <1>1, <1>3, <1>4

\* Swapping element i with the last one and shrinking removes just element i.
LEMMA RemovedElements ==
    ASSUME NEW S, NEW q \in Seq(S), NEW i \in 1 .. Len(q), Distinct(q)
    PROVE  /\ Removed(q, i) \in Seq(S)
           /\ Len(Removed(q, i)) = Len(q) - 1
           /\ Elements(Removed(q, i)) = Elements(q) \ {q[i]}
           /\ Distinct(Removed(q, i))
<1> DEFINE n == Len(q)
           r == Removed(q, i)
<1>1. /\ n \in Nat \ {0}
      /\ DOMAIN q = 1 .. n
      /\ n - 1 \in Nat
      /\ \A k \in 1 .. n : q[k] \in S
  OBVIOUS
<1>2. /\ r = [k \in 1 .. n - 1 |-> IF k = i THEN q[n] ELSE q[k]]
      /\ \A k \in 1 .. n - 1 : r[k] = IF k = i THEN q[n] ELSE q[k]
      /\ \A k \in 1 .. n - 1 : r[k] \in S
  BY <1>1 DEF Removed
<1>3. /\ r \in Seq(S)
      /\ Len(r) = n - 1
      /\ DOMAIN r = 1 .. n - 1
  BY <1>1, <1>2
<1>n. i \in 1 .. n
  OBVIOUS
<1> HIDE DEF n, r
<1>4. ASSUME NEW x \in Elements(r) PROVE x \in Elements(q) \ {q[i]}
  <2>1. PICK k \in 1 .. n - 1 : x = r[k]
    BY <1>3, <1>4 DEF Elements
  <2> QED
    BY <1>1, <1>2, <1>n, <2>1 DEF Elements, Distinct
<1>5. ASSUME NEW x \in Elements(q) \ {q[i]} PROVE x \in Elements(r)
  <2>1. PICK k \in 1 .. n : x = q[k] /\ k # i
    BY <1>1, <1>5 DEF Elements
  <2>2. CASE k = n
    <3>1. i \in 1 .. n - 1
      BY <1>1, <1>n, <2>1, <2>2
    <3>2. r[i] = x
      BY <1>2, <2>1, <2>2, <3>1
    <3> QED
      BY <1>3, <3>1, <3>2 DEF Elements
  <2>3. CASE k # n
    <3>1. k \in 1 .. n - 1
      BY <1>1, <1>n, <2>1, <2>3
    <3>2. r[k] = x
      BY <1>2, <2>1, <3>1
    <3> QED
      BY <1>3, <3>1, <3>2 DEF Elements
  <2> QED
    BY <2>2, <2>3
<1>6. Distinct(r)
  <2> SUFFICES ASSUME NEW j \in 1 .. n - 1, NEW k \in 1 .. n - 1, r[j] = r[k]
               PROVE  j = k
    BY <1>3 DEF Distinct
  <2> QED
    BY <1>1, <1>2, <1>n DEF Distinct
<1> QED
  BY <1>3, <1>4, <1>5, <1>6 DEF n, r

-----------------------------------------------------------------------------
\* The part of the inductive invariant that is about mq_ and its writes.
QueueInv ==
    /\ OneWriter
    /\ SlotHoldsMessage
    /\ NoStall
    /\ FailureIsFinal
    /\ NoLossNoDuplicate

\* do_send keeps the queue's invariant, and accepts at most its own message.
LEMMA DoSendKeepsQueue ==
    ASSUME TypeOK, QueueInv, NEW m \in Messages, m \notin Elements(accepted),
           do_send(m), UNCHANGED <<isOpen, failed, wire>>
    PROVE  /\ mq' \in Seq(Messages)
           /\ writes' \in SUBSET Write
           /\ accepted' \in Seq(Messages)
           /\ QueueInv'
           /\ Elements(accepted') \subseteq Elements(accepted) \cup {m}
           /\ Elements(mq') = Elements(mq) \cup {m} \/ UNCHANGED mq
<1>1. CASE ~isOpen
  BY <1>1 DEF do_send, TypeOK, QueueInv, OneWriter, SlotHoldsMessage, NoStall,
    FailureIsFinal, NoLossNoDuplicate
<1>2. CASE isOpen
  <2>1. /\ mq' = Append(mq, m)
        /\ accepted' = Append(accepted, m)
        /\ writes' = IF mq = << >> THEN do_write(<<m>>) ELSE writes
    BY <1>2 DEF do_send
  <2>2. /\ m \notin Elements(mq)
        /\ m \notin Elements(wire)
    BY DEF QueueInv, NoLossNoDuplicate
  <2>3. /\ mq' \in Seq(Messages)
        /\ mq' # << >>
        /\ Len(mq') = Len(mq) + 1
        /\ \A i \in 1 .. Len(mq) : mq'[i] = mq[i]
        /\ mq'[Len(mq) + 1] = m
        /\ Elements(mq') = Elements(mq) \cup {m}
        /\ Distinct(mq')
    BY <2>1, <2>2, AppendElements DEF TypeOK, QueueInv, NoLossNoDuplicate
  <2>4. /\ accepted' \in Seq(Messages)
        /\ Elements(accepted') = Elements(accepted) \cup {m}
    BY <2>1, AppendElements DEF TypeOK
  <2>5. NoLossNoDuplicate'
    BY <2>2, <2>3, <2>4 DEF QueueInv, NoLossNoDuplicate
  <2>6. /\ writes' \in SUBSET Write
        /\ OneWriter'
        /\ SlotHoldsMessage'
        /\ NoStall'
        /\ FailureIsFinal'
    <3>1. CASE mq = << >>
      <4>1. writes' = {[idx |-> 1, msg |-> m, live |-> isOpen]}
        BY <2>1, <3>1 DEF do_write
      <4>2. Len(mq') = 1 /\ mq'[1] = m
        BY <2>3, <3>1
      <4> QED
        BY <2>3, <3>1, <4>1, <4>2 DEF TypeOK, Write, QueueInv, OneWriter,
          SlotHoldsMessage, NoStall, FailureIsFinal
    <3>2. CASE mq # << >>
      <4>1. writes' = writes
        BY <2>1, <3>2
      <4>2. Len(mq) \in Nat
        BY DEF TypeOK
      <4>3. SlotHoldsMessage'
        BY <2>3, <4>1, <4>2 DEF QueueInv, SlotHoldsMessage
      <4> QED
        BY <2>3, <3>2, <4>1, <4>3 DEF TypeOK, QueueInv, OneWriter, NoStall,
          FailureIsFinal
    <3> QED
      BY <3>1, <3>2
  <2> QED
    BY <2>3, <2>4, <2>5, <2>6 DEF QueueInv
<1> QED
  BY <1>1, <1>2

\* on_write removes the message that was written, and starts the next write.
LEMMA OnWriteKeepsQueue ==
    ASSUME TypeOK, QueueInv, NEW w \in writes, on_write(w)
    PROVE  /\ mq' \in Seq(Messages)
           /\ writes' \in SUBSET Write
           /\ wire' \in Seq(Messages)
           /\ QueueInv'
           /\ ~failed
           /\ w.msg \in Elements(mq)
           /\ Elements(mq') = Elements(mq) \ {w.msg}
           /\ wire' = Append(wire, w.msg)
<1> DEFINE q == Removed(mq, w.idx)
<1>1. /\ w.idx \in 1 .. Len(mq)
      /\ mq[w.idx] = w.msg
      /\ w.msg \in Messages
      /\ writes \ {w} = {}
      /\ ~failed
  BY DEF TypeOK, Write, QueueInv, OneWriter, SlotHoldsMessage, FailureIsFinal
<1>2. /\ mq' = q
      /\ wire' = Append(wire, w.msg)
      /\ UNCHANGED <<isOpen, failed, accepted>>
      /\ writes' = IF q = << >> THEN {} ELSE do_write(q)
  BY <1>1 DEF on_write
<1>3. /\ q \in Seq(Messages)
      /\ Elements(q) = Elements(mq) \ {w.msg}
      /\ Distinct(q)
  BY <1>1, RemovedElements DEF TypeOK, QueueInv, NoLossNoDuplicate
<1> HIDE DEF q
<1>4. w.msg \in Elements(mq) /\ w.msg \notin Elements(wire)
  <2>1. w.msg \in Elements(mq)
    BY <1>1 DEF TypeOK, Elements
  <2> QED
    BY <2>1 DEF QueueInv, NoLossNoDuplicate
<1>5. /\ wire' \in Seq(Messages)
      /\ Elements(wire') = Elements(wire) \cup {w.msg}
      /\ Distinct(wire')
  BY <1>1, <1>2, <1>4, AppendElements DEF TypeOK, QueueInv, NoLossNoDuplicate
<1>6. NoLossNoDuplicate'
  <2>1. Elements(mq') = Elements(mq) \ {w.msg} /\ Elements(accepted') = Elements(accepted)
    BY <1>2, <1>3
  <2>2. Distinct(mq')
    BY <1>2, <1>3
  <2> QED
    BY <1>4, <1>5, <2>1, <2>2 DEF QueueInv, NoLossNoDuplicate
<1>7. /\ writes' \in SUBSET Write
      /\ OneWriter'
      /\ SlotHoldsMessage'
      /\ NoStall'
      /\ FailureIsFinal'
  <2>1. CASE q = << >>
    BY <1>1, <1>2, <2>1 DEF OneWriter, SlotHoldsMessage, NoStall, FailureIsFinal
  <2>2. CASE q # << >>
    <3>1. Len(q) \in Nat \ {0} /\ q[Len(q)] \in Messages
      BY <1>3, <2>2
    <3>2. writes' = {[idx |-> Len(q), msg |-> q[Len(q)], live |-> isOpen]}
      BY <1>2, <2>2 DEF do_write
    <3>3. mq' = q /\ failed' = failed /\ ~failed
      BY <1>1, <1>2
    <3>4. writes' \in SUBSET Write
      BY <3>1, <3>2 DEF TypeOK, Write
    <3>5. OneWriter' /\ NoStall' /\ FailureIsFinal'
      BY <3>2, <3>3 DEF OneWriter, NoStall, FailureIsFinal
    <3>6. SlotHoldsMessage'
      BY <3>1, <3>2, <3>3 DEF SlotHoldsMessage
    <3> QED
      BY <3>4, <3>5, <3>6
  <2> QED
    BY <2>1, <2>2
<1> QED
  BY <1>1, <1>2, <1>3, <1>4, <1>5, <1>6, <1>7 DEF QueueInv

\* on_write with an error leaves mq_ alone and nothing being written.
LEMMA OnWriteErrorKeepsQueue ==
    ASSUME TypeOK, QueueInv, NEW w \in writes, on_write_error(w)
    PROVE  writes' = {} /\ QueueInv'
<1>1. /\ writes' = {}
      /\ mq # << >>
      /\ failed' = TRUE
      /\ UNCHANGED <<mq, accepted, wire>>
  BY DEF on_write_error, TypeOK, QueueInv, OneWriter, SlotHoldsMessage
<1> QED
  BY <1>1 DEF QueueInv, OneWriter, SlotHoldsMessage, NoStall, FailureIsFinal,
    NoLossNoDuplicate

-----------------------------------------------------------------------------
\* Posting a handler keeps the strand's bookkeeping.
LEMMA PostKeepsStrand ==
    ASSUME TypeOK, NEW h \in Handler, strand' = Append(strand, h)
    PROVE  /\ strand' \in Seq(Handler)
           /\ DOMAIN strand' = DOMAIN strand \cup {Len(strand) + 1}
           /\ \A i \in DOMAIN strand : strand'[i] = strand[i] /\ i # Len(strand) + 1
           /\ strand'[Len(strand) + 1] = h
BY DEF TypeOK

\* Running the handler at the front shifts the others.
LEMMA RunKeepsStrand ==
    ASSUME TypeOK, strand # << >>, strand' = Tail(strand)
    PROVE  /\ strand' \in Seq(Handler)
           /\ Head(strand) \in Handler
           /\ 1 \in DOMAIN strand
           /\ Head(strand) = strand[1]
           /\ \A i \in DOMAIN strand' :
                i + 1 \in DOMAIN strand /\ i + 1 # 1 /\ strand'[i] = strand[i + 1]
           /\ \A i, j \in DOMAIN strand' : i + 1 = j + 1 => i = j
BY DEF TypeOK

\* The inductive invariant holds when the session starts.
LEMMA InitInv == Init => IInv
<1>1. Elements(<< >>) = {} /\ Distinct(<< >>)
  BY DEF Elements, Distinct
<1>2. Init => TypeOK
  <2>1. << >> \in Seq(Handler) /\ << >> \in Seq(Messages)
    OBVIOUS
  <2>2. TRUE \in BOOLEAN /\ FALSE \in BOOLEAN
    OBVIOUS
  <2>3. SUFFICES ASSUME Init PROVE TypeOK
    OBVIOUS
  <2>4. unsent \in SUBSET Messages /\ writes \in SUBSET Write
    BY <2>3 DEF Init
  <2> QED
    BY <2>1, <2>2, <2>3, <2>4, Zenon DEF Init, TypeOK
<1>3. Init => NoLossNoDuplicate
  BY <1>1 DEF Init, NoLossNoDuplicate
<1>4. Init => EachSentOnce
  BY <1>1 DEF Init, EachSentOnce, Pending
<1> QED
  BY <1>2, <1>3, <1>4 DEF Init, IInv, OneWriter, SlotHoldsMessage, NoStall,
    FailureIsFinal

\* Every handler of the session keeps the inductive invariant.
LEMMA NextInv == IInv /\ [Next]_vars => IInv'
<1> SUFFICES ASSUME IInv, [Next]_vars PROVE IInv'
  OBVIOUS
<1> USE DEF IInv
<1>q. QueueInv
  BY DEF QueueInv
<1>1. ASSUME NEW m \in Messages, SendPosted(m) PROVE IInv'
  <2> DEFINE h == [op |-> "do_send", msg |-> m]
  <2>1. /\ m \in unsent
        /\ unsent' = unsent \ {m}
        /\ strand' = Append(strand, h)
        /\ UNCHANGED <<isOpen, mq, writes, failed, accepted, wire>>
    BY <1>1 DEF SendPosted
  <2>2. h \in Handler
    BY DEF Handler
  <2>3. /\ strand' \in Seq(Handler)
        /\ DOMAIN strand' = DOMAIN strand \cup {Len(strand) + 1}
        /\ \A i \in DOMAIN strand : strand'[i] = strand[i] /\ i # Len(strand) + 1
        /\ strand'[Len(strand) + 1] = h
    BY <2>1, <2>2, PostKeepsStrand
  <2>4. TypeOK'
    BY <2>1, <2>3 DEF TypeOK
  <2>5. QueueInv'
    BY <2>1, <1>q DEF QueueInv, OneWriter, SlotHoldsMessage, NoStall,
      FailureIsFinal, NoLossNoDuplicate
  <2>6. EachSentOnce'
    BY <2>1, <2>3 DEF EachSentOnce, Pending
  <2> QED
    BY <2>4, <2>5, <2>6 DEF QueueInv
<1>2. ASSUME NEW m \in Messages, SendInline(m) PROVE IInv'
  <2>1. /\ m \in unsent
        /\ unsent' = unsent \ {m}
        /\ do_send(m)
        /\ UNCHANGED <<strand, isOpen, failed, wire>>
    BY <1>2 DEF SendInline
  <2>2. m \notin Elements(accepted)
    BY <2>1 DEF EachSentOnce
  <2>3. /\ mq' \in Seq(Messages)
        /\ writes' \in SUBSET Write
        /\ accepted' \in Seq(Messages)
        /\ QueueInv'
        /\ Elements(accepted') \subseteq Elements(accepted) \cup {m}
    BY <1>q, <2>1, <2>2, DoSendKeepsQueue
  <2>4. TypeOK'
    BY <2>1, <2>3 DEF TypeOK
  <2>5. EachSentOnce'
    BY <2>1, <2>3 DEF EachSentOnce, Pending
  <2> QED
    BY <2>3, <2>4, <2>5 DEF QueueInv
<1>3. ASSUME RunSend PROVE IInv'
  <2> DEFINE m == Head(strand).msg
  <2>1. /\ strand # << >>
        /\ Head(strand).op = "do_send"
        /\ strand' = Tail(strand)
        /\ do_send(m)
        /\ UNCHANGED <<unsent, isOpen, failed, wire>>
    BY <1>3 DEF RunSend
  <2>2. /\ strand' \in Seq(Handler)
        /\ Head(strand) \in Handler
        /\ 1 \in DOMAIN strand
        /\ Head(strand) = strand[1]
        /\ \A i \in DOMAIN strand' :
             i + 1 \in DOMAIN strand /\ i + 1 # 1 /\ strand'[i] = strand[i + 1]
        /\ \A i, j \in DOMAIN strand' : i + 1 = j + 1 => i = j
    BY <2>1, RunKeepsStrand
  <2>3. m \in Messages /\ m \notin unsent /\ m \notin Elements(accepted)
    <3>1. Pending(1)
      BY <2>1, <2>2 DEF Pending
    <3>2. m \in Messages
      BY <2>1, <2>2 DEF Handler
    <3> QED
      BY <2>2, <3>1, <3>2 DEF EachSentOnce
  <2>4. /\ mq' \in Seq(Messages)
        /\ writes' \in SUBSET Write
        /\ accepted' \in Seq(Messages)
        /\ QueueInv'
        /\ Elements(accepted') \subseteq Elements(accepted) \cup {m}
    BY <1>q, <2>1, <2>3, DoSendKeepsQueue
  <2>5. TypeOK'
    BY <2>1, <2>2, <2>4 DEF TypeOK
  <2>6. EachSentOnce'
    <3>1. \A i \in DOMAIN strand' : Pending(i)' => Pending(i + 1)
      BY <2>2 DEF Pending
    <3>2. \A i \in DOMAIN strand' : Pending(i)' => strand'[i].msg # m
      BY <2>1, <2>2, <3>1 DEF EachSentOnce, Pending
    <3>3. \A i, j \in DOMAIN strand' :
            Pending(i)' /\ Pending(j)' /\ strand'[i].msg = strand'[j].msg => i = j
      BY <2>2, <3>1 DEF EachSentOnce
    <3> QED
      BY <2>1, <2>2, <2>3, <2>4, <3>1, <3>2, <3>3 DEF EachSentOnce
  <2> QED
    BY <2>4, <2>5, <2>6 DEF QueueInv
<1>4. ASSUME on_stop PROVE IInv'
  <2> DEFINE h == [op |-> "do_stop"]
  <2>1. /\ strand' = Append(strand, h)
        /\ UNCHANGED <<unsent, isOpen, mq, writes, failed, accepted, wire>>
    BY <1>4 DEF on_stop
  <2>2. h \in Handler
    BY DEF Handler
  <2>3. /\ strand' \in Seq(Handler)
        /\ DOMAIN strand' = DOMAIN strand \cup {Len(strand) + 1}
        /\ \A i \in DOMAIN strand : strand'[i] = strand[i] /\ i # Len(strand) + 1
        /\ strand'[Len(strand) + 1] = h
    BY <2>1, <2>2, PostKeepsStrand
  <2>4. TypeOK'
    BY <2>1, <2>3 DEF TypeOK
  <2>5. QueueInv'
    BY <2>1, <1>q DEF QueueInv, OneWriter, SlotHoldsMessage, NoStall,
      FailureIsFinal, NoLossNoDuplicate
  <2>6. EachSentOnce'
    <3>1. h.op # "do_send"
      OBVIOUS
    <3> QED
      BY <2>1, <2>3, <3>1 DEF EachSentOnce, Pending
  <2> QED
    BY <2>4, <2>5, <2>6 DEF QueueInv
<1>5. ASSUME do_stop PROVE IInv'
  <2>1. /\ strand # << >>
        /\ strand' = Tail(strand)
        /\ isOpen' = FALSE
        /\ UNCHANGED <<unsent, mq, writes, failed, accepted, wire>>
    BY <1>5 DEF do_stop
  <2>2. /\ strand' \in Seq(Handler)
        /\ \A i \in DOMAIN strand' :
             i + 1 \in DOMAIN strand /\ strand'[i] = strand[i + 1]
        /\ \A i, j \in DOMAIN strand' : i + 1 = j + 1 => i = j
    BY <2>1, RunKeepsStrand
  <2>3. TypeOK'
    BY <2>1, <2>2 DEF TypeOK
  <2>4. QueueInv'
    BY <2>1, <1>q DEF QueueInv, OneWriter, SlotHoldsMessage, NoStall,
      FailureIsFinal, NoLossNoDuplicate
  <2>5. EachSentOnce'
    BY <2>1, <2>2 DEF EachSentOnce, Pending
  <2> QED
    BY <2>3, <2>4, <2>5 DEF QueueInv
<1>6. ASSUME StreamClose PROVE IInv'
  BY <1>6 DEF StreamClose, TypeOK, OneWriter, SlotHoldsMessage, NoStall,
    FailureIsFinal, NoLossNoDuplicate, EachSentOnce, Pending
<1>7. ASSUME NEW w \in writes, on_write(w) PROVE IInv'
  <2>1. /\ mq' \in Seq(Messages)
        /\ writes' \in SUBSET Write
        /\ wire' \in Seq(Messages)
        /\ QueueInv'
    BY <1>q, <1>7, OnWriteKeepsQueue
  <2>2. UNCHANGED <<unsent, strand, isOpen, failed, accepted>>
    BY <1>7 DEF on_write
  <2> QED
    BY <2>1, <2>2 DEF TypeOK, QueueInv, EachSentOnce, Pending
<1>8. ASSUME NEW w \in writes, on_write_error(w) PROVE IInv'
  <2>1. writes' = {} /\ QueueInv'
    BY <1>q, <1>8, OnWriteErrorKeepsQueue
  <2>2. failed' = TRUE /\ UNCHANGED <<unsent, strand, isOpen, mq, accepted, wire>>
    BY <1>8 DEF on_write_error
  <2> QED
    BY <2>1, <2>2 DEF TypeOK, QueueInv, EachSentOnce, Pending
<1>9. ASSUME UNCHANGED vars PROVE IInv'
  BY <1>9 DEF vars, TypeOK, OneWriter, SlotHoldsMessage, NoStall, FailureIsFinal,
    NoLossNoDuplicate, EachSentOnce, Pending
<1> QED
  BY <1>1, <1>2, <1>3, <1>4, <1>5, <1>6, <1>7, <1>8, <1>9 DEF Next

\* The inductive invariant holds in every reachable state.
THEOREM Invariance == Spec => []IInv
BY InitInv, NextInv, PTL DEF Spec

-----------------------------------------------------------------------------
\* The queue, the strand and the writes have their types.
THEOREM TypeCorrect == Spec => []TypeOK
BY Invariance, PTL DEF IInv

\* At most one async_write is outstanding on the stream, whatever the threads
\* that call send: the rule websocket::stream imposes on do_write.
THEOREM OneWriterHolds == Spec => []OneWriter
BY Invariance, PTL DEF IInv

\* on_write removes from mq_ the message whose write completed.
THEOREM SlotHoldsMessageHolds == Spec => []SlotHoldsMessage
BY Invariance, PTL DEF IInv

\* do_send and on_write together neither lose nor repeat a message.
THEOREM NoLossNoDuplicateHolds == Spec => []NoLossNoDuplicate
BY Invariance, PTL DEF IInv

\* While no write has failed, a nonempty mq_ is being written.
THEOREM NoStallHolds == Spec => []NoStall
BY Invariance, PTL DEF IInv

\* After a failed write the session never writes again.
THEOREM FailureIsFinalHolds == Spec => []FailureIsFinal
BY Invariance, PTL DEF IInv

\* Each step of the session is a step of the mailbox, or changes nothing there.
LEMMA StepSimulation == IInv /\ IInv' /\ [Next]_vars => [MB!Next]_MB!vars
<1> SUFFICES ASSUME IInv, IInv', [Next]_vars PROVE [MB!Next]_MB!vars
  OBVIOUS
<1>q. TypeOK /\ QueueInv
  BY DEF IInv, QueueInv
<1>s. ASSUME NEW m \in Messages, m \notin Elements(accepted), do_send(m),
             UNCHANGED <<isOpen, failed, wire>>
      PROVE  [MB!Next]_MB!vars
  <2>1. Elements(mq') = Elements(mq) \cup {m} \/ UNCHANGED mq
    BY <1>q, <1>s, DoSendKeepsQueue
  <2>2. m \notin Elements(mq) /\ m \notin Elements(wire)
    BY <1>q, <1>s DEF QueueInv, NoLossNoDuplicate
  <2>3. \A i \in DOMAIN wire : wire[i] # m
    BY <2>2 DEF Elements
  <2>4. CASE Elements(mq') = Elements(mq) \cup {m}
    <3>1. MB!Accept(m)
      BY <1>s, <2>2, <2>3, <2>4 DEF MB!Accept
    <3> QED
      BY <3>1 DEF MB!Next
  <2>5. CASE UNCHANGED mq
    BY <1>s, <2>5 DEF MB!vars
  <2> QED
    BY <2>1, <2>4, <2>5
<1>1. ASSUME NEW m \in Messages, SendPosted(m) PROVE [MB!Next]_MB!vars
  BY <1>1 DEF SendPosted, MB!vars
<1>2. ASSUME NEW m \in Messages, SendInline(m) PROVE [MB!Next]_MB!vars
  <2>1. m \notin Elements(accepted)
    BY <1>2 DEF SendInline, IInv, EachSentOnce
  <2> QED
    BY <1>2, <1>s, <2>1 DEF SendInline
<1>3. ASSUME RunSend PROVE [MB!Next]_MB!vars
  <2> DEFINE m == Head(strand).msg
  <2>1. /\ Head(strand) \in Handler
        /\ 1 \in DOMAIN strand
        /\ Head(strand) = strand[1]
        /\ Head(strand).op = "do_send"
    BY <1>3, <1>q, RunKeepsStrand DEF RunSend
  <2>2. m \in Messages
    BY <2>1 DEF Handler
  <2>3. m \notin Elements(accepted)
    BY <2>1 DEF IInv, EachSentOnce, Pending
  <2> QED
    BY <1>3, <1>s, <2>2, <2>3 DEF RunSend
<1>4. ASSUME on_stop \/ do_stop \/ StreamClose PROVE [MB!Next]_MB!vars
  BY <1>4 DEF on_stop, do_stop, StreamClose, MB!vars
<1>5. ASSUME NEW w \in writes, on_write(w) PROVE [MB!Next]_MB!vars
  <2>1. /\ ~failed
        /\ w.msg \in Elements(mq)
        /\ Elements(mq') = Elements(mq) \ {w.msg}
        /\ wire' = Append(wire, w.msg)
        /\ failed' = failed
    BY <1>q, <1>5, OnWriteKeepsQueue DEF on_write
  <2>2. w.msg \in Messages
    BY <1>q DEF TypeOK, Write
  <2>3. MB!Deliver(w.msg)
    BY <2>1 DEF MB!Deliver
  <2> QED
    BY <2>2, <2>3 DEF MB!Next
<1>6. ASSUME NEW w \in writes, on_write_error(w) PROVE [MB!Next]_MB!vars
  <2>1. MB!Break
    BY <1>6 DEF on_write_error, MB!Break
  <2> QED
    BY <2>1 DEF MB!Next
<1>7. ASSUME UNCHANGED vars PROVE [MB!Next]_MB!vars
  BY <1>7 DEF vars, MB!vars
<1> QED
  BY <1>1, <1>2, <1>3, <1>4, <1>5, <1>6, <1>7 DEF Next

\* The session implements the mailbox: what do_send accepts leaves at most
\* once, and nothing leaves after a failed write.
THEOREM ImplementsMailbox == Spec => MailboxSpec
<1>1. Init => MB!Init
  BY DEF Init, MB!Init, Elements
<1> QED
  BY <1>1, Invariance, StepSimulation, PTL DEF Spec, MB!Spec, MailboxSpec
=============================================================================
