----------------------------- MODULE Broadcast -----------------------------
(***************************************************************************)
(* Messages as they really travel: class message (server/core/message.hpp *)
(* and message.cpp) is a handle to a buffer that counts its handles.      *)
(* channel::send gives every member of the channel a copy; each session   *)
(* moves its own through the strand into mq_, and async_write takes one   *)
(* more copy for as long as it lasts.                                     *)
(*                                                                         *)
(* This module adds to WriteQueue, step by step, what its actions do to   *)
(* the counts.  The handles outside the session (the one channel::send    *)
(* was called with, those of the other members) are only counted.  The    *)
(* count is atomic, so a decrement and the freeing it may lead to are one *)
(* step; two threads that drop the last two handles do not both free.     *)
(***************************************************************************)
EXTENDS WriteQueue, Integers, FiniteSets

CONSTANTS
    Long,               \* the messages whose text does not fit
    Others,             \* how many other members a message is sent to
    MaxHeld             \* bound: messages held outside the session at a time

ASSUME HandlesAssumption == Long \subseteq Messages /\ Others \in Nat /\ MaxHeld \in Nat

VARIABLES
    buffer,             \* what the handles to a message point to
    count,              \* impl::count
    held,               \* how many handles there are outside the session
    left,               \* how many other members are still to be sent a message
    session,            \* the read coroutine, then the destructor
    crashed,            \* a write was given a null message
    peak                \* history: the most messages mq_ has held

counting == <<buffer, count, held, left, session, crashed, peak>>
bvars == <<vars, counting>>

\* "null" is the message make_message returns when the text does not fit.
Buffers == {"none", "live", "freed", "null"}

InitB ==
    /\ Init
    /\ buffer = [m \in Messages |-> "none"]
    /\ count = [m \in Messages |-> 0]
    /\ held = [m \in Messages |-> 0]
    /\ left = [m \in Messages |-> Others]
    /\ session = "reading"
    /\ crashed = FALSE
    /\ peak = 0

-----------------------------------------------------------------------------
(* What the special members do to the count.  Moving and swapping handles  *)
(* changes no count.                                                       *)

Nothing == [x \in Messages |-> 0]

\* Faulty variant: the copy constructor does not count.
CopiedUncounted(m) == Nothing

\* message(message const&)
Copied(m) == [Nothing EXCEPT ![m] = 1]

\* Faulty variant: the destructor leaves the count alone.
DroppedUncounted(m) == Nothing

\* ~message
Dropped(m) == [Nothing EXCEPT ![m] = -1]

Both(f, g) == [x \in Messages |-> f[x] + g[x]]

\* All of d, counted.  A null handle has no count; the last handle to go frees
\* the buffer.
Adjust(d) ==
    LET n == [m \in Messages |->
                IF buffer[m] = "null" THEN 0 ELSE count[m] + d[m]] IN
    /\ count' = n
    /\ buffer' = [m \in Messages |->
                    IF buffer[m] = "live" /\ n[m] <= 0 THEN "freed" ELSE buffer[m]]

-----------------------------------------------------------------------------
\* Starting a write asks the message for its buffer: begin() of a null one
\* reads through a null pointer.
begin == crashed' = \E w \in writes' : buffer[w.msg] = "null"

Longest == peak' = IF Len(mq') > peak THEN Len(mq') ELSE peak

\* The handles of an action of WriteQueue
Session(A, d) ==
    /\ ~crashed
    /\ session # "destroyed"
    /\ A
    /\ Adjust(d)
    /\ begin
    /\ Longest
    /\ UNCHANGED <<held, left, session>>

\* Faulty variant: a message for a closed socket is kept by nobody.
do_send_handlesLeak(m) ==
    IF isOpen /\ mq = << >> THEN Copied(m) ELSE Nothing

\* do_send(m) has a handle of its own, which it moves into mq_, where
\* async_write copies it, or drops
do_send_handles(m) ==
    IF ~isOpen THEN Dropped(m)
    ELSE IF mq = << >> THEN Copied(m) ELSE Nothing

\* The operation and its copy are gone, resize drops the slot that was swapped
\* to the end, and do_write copies what is the last one then.
on_write_handles(w) ==
    LET q == Removed(mq, w.idx) IN
    Both(Both(Dropped(w.msg), Dropped(mq[w.idx])),
         IF q = << >> THEN Nothing ELSE Copied(q[Len(q)]))

\* The constructors: a buffer with one handle, or a null message
message(m) ==
    /\ buffer' = [buffer EXCEPT ![m] = IF m \in Long THEN "null" ELSE "live"]
    /\ count' = [count EXCEPT ![m] = IF m \in Long THEN 0 ELSE 1]

\* make_message, by whoever is about to call send: a text that is longer than
\* its array of 16384 characters gives a null message.
make_message(m) ==
    /\ ~crashed
    /\ buffer[m] = "none"
    /\ Cardinality({x \in Messages : held[x] > 0}) < MaxHeld
    /\ held' = [held EXCEPT ![m] = 1]
    /\ message(m)
    /\ UNCHANGED <<vars, left, session, crashed, peak>>

\* channel::send hands the message to another member of the channel.
SendToOther(m) ==
    /\ ~crashed
    /\ held[m] > 0
    /\ left[m] > 0
    /\ left' = [left EXCEPT ![m] = @ - 1]
    /\ held' = [held EXCEPT ![m] = @ + 1]
    /\ Adjust(Copied(m))
    /\ UNCHANGED <<vars, session, crashed, peak>>

\* A handle outside the session goes: channel::send returns, another session
\* has written the message.
OtherDrops(m) ==
    /\ ~crashed
    /\ held[m] > 0
    /\ held' = [held EXCEPT ![m] = @ - 1]
    /\ Adjust(Dropped(m))
    /\ UNCHANGED <<vars, left, session, crashed, peak>>

\* send is called with a copy of a message somebody else still holds.
SendCopy(m) ==
    /\ held[m] > 0
    /\ \/ Session(SendPosted(m), Copied(m))
       \/ /\ session = "reading"
          /\ Session(SendInline(m), Both(Copied(m), do_send_handles(m)))

RunSendHandles ==
    Session(RunSend, do_send_handles(Head(strand).msg))

Stopping == Session(on_stop \/ do_stop \/ StreamClose, Nothing)

Written(w) == Session(on_write(w), on_write_handles(w))

WriteFails(w) == Session(on_write_error(w), Dropped(w.msg))

\* The read coroutine ends, and with it the last reference to the session that
\* is not in a handler.
ReadEnds ==
    /\ ~crashed
    /\ session = "reading"
    /\ session' = "ended"
    /\ UNCHANGED <<vars, buffer, count, held, left, crashed, peak>>

\* Faulty variant: the messages are not destroyed with the session.
DestroySessionKeeps ==
    /\ session = "ended"
    /\ strand = << >> /\ writes = {}
    /\ session' = "destroyed"
    /\ UNCHANGED <<vars, buffer, count, held, left, crashed, peak>>

\* ~ws_session_base, when no handler refers to the session any more: it drops
\* what is left in mq_.
DestroySession ==
    /\ ~crashed
    /\ session = "ended"
    /\ strand = << >> /\ writes = {}
    /\ session' = "destroyed"
    /\ Adjust([m \in Messages |-> IF m \in Elements(mq) THEN -1 ELSE 0])
    /\ UNCHANGED <<vars, held, left, crashed, peak>>

Complete == \E w \in writes : Written(w) \/ WriteFails(w)

NextB ==
    \/ \E m \in Messages :
        make_message(m) \/ SendToOther(m) \/ OtherDrops(m) \/ SendCopy(m)
    \/ RunSendHandles \/ Stopping \/ Complete
    \/ ReadEnds \/ DestroySession

SpecB == InitB /\ [][NextB]_bvars

\* Handlers run, writes complete, broadcasts end and other sessions write or
\* drop what they hold; a coroutine whose stream has failed or was closed ends.
\* Each of these happens finitely often, so none keeps another from happening.
Progress ==
    \/ RunSendHandles \/ Session(do_stop, Nothing) \/ Complete
    \/ \E m \in Messages : OtherDrops(m)
    \/ (failed \/ ~isOpen) /\ ReadEnds
    \/ DestroySession

FairnessB == WF_bvars(Progress)

FairSpecB == SpecB /\ FairnessB

-----------------------------------------------------------------------------
\* How many handles to m the session has
Handles(m) ==
    IF session = "destroyed" THEN 0
    ELSE Cardinality({i \in DOMAIN strand : Pending(i) /\ strand[i].msg = m})
       + Cardinality({i \in DOMAIN mq : mq[i] = m})
       + Cardinality({w \in writes : w.msg = m})

\* The count of a buffer is the number of its handles, through every copy,
\* move, swap and shrink of mq_, so that it is freed with the last of them and
\* not before: no session writes memory that another one has given back.
CountExact ==
    \A m \in Messages :
        /\ buffer[m] \in {"live", "freed"} => count[m] = held[m] + Handles(m)
        /\ buffer[m] = "freed" => count[m] = 0

\* No buffer is leaked: every message that is made is freed in the end, be it
\* written, refused by a closed socket, or left in mq_ by a failed write.
BufferFreed ==
    \A m \in Messages :
        (buffer[m] = "live") ~> (buffer[m] = "freed" \/ crashed)

\* Every message accepted in a finite burst of sends is written in the end,
\* unless the connection fails: no order of completions strands one in mq_.
EventuallyWritten ==
    \A m \in Messages :
        m \in Elements(accepted) ~> (m \in Elements(wire) \/ failed \/ crashed)

\* mq_ is written from its end and patched with a swap, and yet a client gets
\* its messages in order as long as no more than two are ever in it, the one
\* being written included; with three the order can be lost.
InOrderWhenShort == peak <= 2 => WrittenInOrder
=============================================================================
