----------------------------- MODULE WriteQueue -----------------------------
(***************************************************************************)
(* The sending half of ws_session_base (server/core/ws_user.cpp): send,   *)
(* do_send, do_write, on_write, on_stop and do_stop of one session.       *)
(*                                                                         *)
(* Everything but send and on_stop runs on the strand of the session's    *)
(* stream, so each handler is one atomic step.  net::dispatch runs        *)
(* do_send inline when the caller is already on that strand (the read     *)
(* coroutine answering a request) and otherwise appends it to the         *)
(* strand's queue, from any thread.                                       *)
(***************************************************************************)
EXTENDS Naturals, Sequences

CONSTANT Messages       \* the messages, each of them one call of send

VARIABLES
    unsent,             \* the calls of send that are still to be made
    strand,             \* handlers waiting on the strand, oldest first
    isOpen,             \* is_open() of the socket
    mq,                 \* mq_
    writes,             \* outstanding async_write operations
    failed,             \* on_write was called with an error
    accepted,           \* history: the messages do_send queued, in order
    wire                \* history: the messages written, in order

vars == <<unsent, strand, isOpen, mq, writes, failed, accepted, wire>>

\* A handler is the message do_send is bound to, or the one bound to do_stop.
Handler == [op : {"do_send"}, msg : Messages] \cup [op : {"do_stop"}]

\* An async_write owns a reference to msg and carries the index on_write
\* gets; one started on a closed socket can only fail.
Write == [idx : Nat \ {0}, msg : Messages, live : BOOLEAN]

Init ==
    /\ unsent = Messages
    /\ strand = << >>
    /\ isOpen = TRUE
    /\ mq = << >>
    /\ writes = {}
    /\ failed = FALSE
    /\ accepted = << >>
    /\ wire = << >>

-----------------------------------------------------------------------------
\* do_write: the operation started for the last element of the queue q
do_write(q) == {[idx |-> Len(q), msg |-> q[Len(q)], live |-> isOpen]}

\* Faulty variant: the last element is dropped without the swap.
RemovedNoSwap(q, idx) == SubSeq(q, 1, Len(q) - 1)

\* on_write: swap(mq_[idx], mq_[last]); mq_.resize(last)
Removed(q, idx) ==
    [k \in 1 .. Len(q) - 1 |-> IF k = idx THEN q[Len(q)] ELSE q[k]]

\* Faulty variant: a write is started although one is outstanding.
do_sendAlwaysWrite(m) ==
    IF isOpen
    THEN /\ mq' = Append(mq, m)
         /\ accepted' = Append(accepted, m)
         /\ writes' = writes \cup do_write(Append(mq, m))
    ELSE UNCHANGED <<mq, accepted, writes>>

do_send(m) ==
    IF isOpen
    THEN /\ mq' = Append(mq, m)
         /\ accepted' = Append(accepted, m)
         /\ writes' = IF mq = << >> THEN do_write(<<m>>) ELSE writes
    ELSE UNCHANGED <<mq, accepted, writes>>

-----------------------------------------------------------------------------
\* send(m) called from a thread that is not on the session's strand
SendPosted(m) ==
    /\ m \in unsent
    /\ unsent' = unsent \ {m}
    /\ strand' = Append(strand, [op |-> "do_send", msg |-> m])
    /\ UNCHANGED <<isOpen, mq, writes, failed, accepted, wire>>

\* send(m) called on the session's strand: do_send runs inside the call
SendInline(m) ==
    /\ m \in unsent
    /\ unsent' = unsent \ {m}
    /\ do_send(m)
    /\ UNCHANGED <<strand, isOpen, failed, wire>>

\* A posted do_send reaches the front of the strand.
RunSend ==
    /\ strand # << >>
    /\ Head(strand).op = "do_send"
    /\ strand' = Tail(strand)
    /\ do_send(Head(strand).msg)
    /\ UNCHANGED <<unsent, isOpen, failed, wire>>

\* on_stop, called by the listener, at most once, when the server stops.
\* On a socket that is already closed it would change nothing.
on_stop ==
    /\ isOpen
    /\ \A i \in DOMAIN strand : strand[i].op # "do_stop"
    /\ strand' = Append(strand, [op |-> "do_stop"])
    /\ UNCHANGED <<unsent, isOpen, mq, writes, failed, accepted, wire>>

do_stop ==
    /\ strand # << >>
    /\ Head(strand).op = "do_stop"
    /\ strand' = Tail(strand)
    /\ isOpen' = FALSE
    /\ UNCHANGED <<unsent, mq, writes, failed, accepted, wire>>

\* The stream closes its socket itself: a close frame, or the idle timeout
\* that run() sets.
StreamClose ==
    /\ isOpen
    /\ isOpen' = FALSE
    /\ UNCHANGED <<unsent, strand, mq, writes, failed, accepted, wire>>

\* Faulty variant: no write follows the one that completed.
on_writeNoNext(w) ==
    /\ w \in writes
    /\ w.live
    /\ wire' = Append(wire, w.msg)
    /\ mq' = Removed(mq, w.idx)
    /\ writes' = writes \ {w}
    /\ UNCHANGED <<unsent, strand, isOpen, failed, accepted>>

\* on_write without an error.  A write that had completed before the socket
\* was closed still succeeds.
on_write(w) ==
    /\ w \in writes
    /\ w.live
    /\ wire' = Append(wire, w.msg)
    /\ LET q == Removed(mq, w.idx) IN
        /\ mq' = q
        /\ writes' = (writes \ {w}) \cup (IF q = << >> THEN {} ELSE do_write(q))
    /\ UNCHANGED <<unsent, strand, isOpen, failed, accepted>>

\* Faulty variant: the failed message is tried again.
on_write_errorRetry(w) ==
    /\ w \in writes
    /\ writes' = (writes \ {w}) \cup do_write(mq)
    /\ failed' = TRUE
    /\ UNCHANGED <<unsent, strand, isOpen, mq, accepted, wire>>

\* on_write with an error: mq_ is left as it is and no write follows.
on_write_error(w) ==
    /\ w \in writes
    /\ writes' = writes \ {w}
    /\ failed' = TRUE
    /\ UNCHANGED <<unsent, strand, isOpen, mq, accepted, wire>>

Next ==
    \/ \E m \in Messages : SendPosted(m) \/ SendInline(m)
    \/ RunSend
    \/ on_stop
    \/ do_stop
    \/ StreamClose
    \/ \E w \in writes : on_write(w) \/ on_write_error(w)

Spec == Init /\ [][Next]_vars

-----------------------------------------------------------------------------
Elements(s) == {s[i] : i \in DOMAIN s}

Distinct(s) == \A i, j \in DOMAIN s : s[i] = s[j] => i = j

TypeOK ==
    /\ unsent \in SUBSET Messages
    /\ strand \in Seq(Handler)
    /\ isOpen \in BOOLEAN
    /\ mq \in Seq(Messages)
    /\ writes \in SUBSET Write
    /\ failed \in BOOLEAN
    /\ accepted \in Seq(Messages)
    /\ wire \in Seq(Messages)

\* A websocket stream allows one async_write at a time, and the session never
\* starts a second one, whichever threads call send while on_write is running
\* (the test mq_.size() == 1 in do_send against the one in on_write).
OneWriter == \A v, w \in writes : v = w

\* The index do_write hands to on_write still designates the message that was
\* written when on_write uses it, although do_send has appended since.
SlotHoldsMessage ==
    \A w \in writes : w.idx \in 1 .. Len(mq) /\ mq[w.idx] = w.msg

\* Messages never sit in mq_ with nobody writing them, unless a write failed:
\* do_send relies on a write being outstanding when mq_ is not empty.
NoStall == mq # << >> /\ ~failed => writes # {}

\* Every message do_send accepted is either still in mq_ or has been written,
\* and never both, never twice: swapping and shrinking loses nothing.
NoLossNoDuplicate ==
    /\ Elements(accepted) = Elements(mq) \cup Elements(wire)
    /\ Elements(mq) \cap Elements(wire) = {}
    /\ Distinct(mq)
    /\ Distinct(wire)

\* A failed write ends the writing for good: mq_ keeps the message that failed,
\* so do_send never again finds mq_.size() == 1.
FailureIsFinal == failed => writes = {} /\ mq # << >>

\* The calls of send still to come, the do_send handlers on the strand and the
\* accepted messages are different messages.
Pending(i) == i \in DOMAIN strand /\ strand[i].op = "do_send"

EachSentOnce ==
    /\ unsent \cap Elements(accepted) = {}
    /\ \A i \in DOMAIN strand :
        Pending(i) => strand[i].msg \notin unsent \cup Elements(accepted)
    /\ \A i, j \in DOMAIN strand :
        Pending(i) /\ Pending(j) /\ strand[i].msg = strand[j].msg => i = j

\* The inductive invariant: what the mailbox refinement rests on.
IInv ==
    /\ TypeOK
    /\ OneWriter
    /\ SlotHoldsMessage
    /\ NoStall
    /\ FailureIsFinal
    /\ NoLossNoDuplicate
    /\ EachSentOnce

\* The session implements the mailbox that user::send promises.
MB == INSTANCE Mailbox WITH box <- Elements(mq), out <- wire, broken <- failed

MailboxSpec == MB!Spec

\* The messages reach the client in the order in which do_send accepted them.
\* In general they do not: see Broadcast.
WrittenInOrder == wire = SubSeq(accepted, 1, Len(wire))
=============================================================================
