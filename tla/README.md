# BeastLounge in TLA+

This directory holds TLA+ models of the BeastLounge server (`src/server`), TLC
configurations that check them on small instances, and TLAPS proofs for the
parts on which the rest stands. File names below are relative to
`src/server/core/` unless they say otherwise.

## The system

The server is a Boost.Asio/Beast program. An `io_context` is run by several
threads; an object that must not be entered by two of them has a *strand*, and
handlers posted to one strand run one after the other. Locks protect what is
shared between strands.

| part | state | operations | interacts with |
|---|---|---|---|
| server (`server.cpp`) | deadline, timer, signal wait, `stop_`, services | `run`, `shutdown`, `on_timer`, `on_signal`, `stop` | stops the services; asked by the system channel and by signals |
| listener, detector (`listener.cpp`) | acceptor, `sessions_` (plain pointers, mutex) | accept loop, `insert`, `erase`, `on_stop`, `do_stop` | makes detectors, which make HTTP sessions |
| HTTP session (`http_session.cpp`) | stream, parser | read, respond, upgrade, close, `do_stop` | hands its stream to a websocket session |
| websocket session (`ws_user.cpp`) | stream, `mq_` | read loop, `send`, `do_send`, `do_write`, `on_write`, `do_stop` | is the `user` that channels know; dispatches requests |
| user (`user.cpp`) | name, `channels_` (plain pointers, mutex) | `on_insert`, `on_erase`, destructor | leaves every channel when destroyed |
| channel (`channel.cpp`) | `users_` (plain pointers, shared mutex) | `insert`, `erase`, `send`, `do_join`, `do_leave` | calls back into the user and into the derived channel |
| system channel (`system.cpp`) | none | identify, shutdown, stop | names users; calls the server |
| room (`room.cpp`) | none | say | broadcasts |
| blackjack table (`blackjack.cpp`) | game, strand | `on_insert`, `on_erase`, requests, their handlers | keeps addresses of users in seats |
| channel list (`channel_list.cpp`) | channels by number | `insert`, `at`, `dispatch` | looks up the channel of a request |
| JSON-RPC (`rpc.cpp`) | one request | `extract`, `complete`, `fail`, `checked_*` | validates requests, makes replies |
| message (`message.cpp`, `message.hpp`) | buffer and count of handles | copy, move, swap, drop, `make_message` | one buffer shared by every session of a broadcast |
| `main`, configuration (`main.cpp`, `make_server`), logger | configuration, log file | one start, step by step | makes the server, its services and listeners |
| cards (`../blackjack/game.hpp`) | shoe, hand | `shuffle`, `deal`, `eval`, `clear` | used by the tests only; the table has its own copy |

What is hard about it: objects are kept alive by whoever holds a shared
pointer, so the destructor of a user runs on any thread, in the middle of
anything; lists of plain pointers are only right because destructors clean
them; a membership is written down twice under two mutexes; the write queue
reorders its vector while a write is under way, and shares its buffers with
other sessions; the table's handlers refer to
users that may be gone when they run, and addresses are used again; and
stopping races with everything.

What makes each part correct, as stated in the modules: one write at a time,
nothing lost or written twice (WriteQueue), a buffer that lives exactly as long
as its handles (Broadcast); memberships recorded alike on both
sides, and never for a user that is gone (Channel); one seat per user, no seat
touched on behalf of somebody else, chips conserved, every member up to date
(Game, Table); one deadline, announced and kept, and a program that ends
(Server, Countdown), after a start that is complete or given up (Program); a
registry of sessions that exist, of which stopping misses none that has an owner
(Listener), a deadline on every wait for a client (Http); one answer to each request, and no
effect of a refused one (Rpc); hands that are valued by the rules and end (Cards).
The full list of hazards, each at its line, is in `PROJECT.json`.

## Modules

| module | models | extends / instances |
|---|---|---|
| `Mailbox` | abstract: what `user::send` promises | |
| `WriteQueue` | sending half of the websocket session | instance of `Mailbox` |
| `Broadcast` | messages shared by several sessions, on top of the write queue | extends `WriteQueue` |
| `WriteQueueProofs` | theorems about `WriteQueue` | extends `WriteQueue` |
| `Roster` | abstract: what the channels promise about membership | |
| `Channel` | channels, users and the life of a user object | instance of `Roster` |
| `ChannelProofs` | theorems about `Channel` | extends `Channel` |
| `Game` | the blackjack game, as operators on a record | |
| `Seating` | abstract: what the table promises about its seats | |
| `Table` | the table around the game | extends `Game`, instances of `Seating` and `Roster` |
| `Server` | running, shutting down and stopping | |
| `Countdown` | abstract: what a graceful shutdown promises the users | |
| `Program` | `main` and `make_server`, then the server | extends `Server`, instance of `Countdown` |
| `Listener` | listener, detector, HTTP and websocket sessions as objects | |
| `Http` | deadlines, TLS and responses of the HTTP session | extends `Listener` |
| `ListenerProofs` | theorems about `Listener` and `Http` | extends `Http` |
| `Rpc` | the read loop, JSON-RPC requests and their dispatch, room | |
| `Cards` | shoe and hand | |
| `BroadcastProofs`, `ProgramProofs`, `TableProofs`, `RpcProofs`, `CardsProofs` | theorems about the module they name | extend it; the first also `WriteQueueProofs` |
| `MCTable` | symmetry set for the runs | extends `Table` |

Definitions are named after the functions they translate; where one function is
several atomic steps, each step has a name of its own and `PROJECT.json` says
which lines it stands for. A definition under the comment "Faulty variant" is
not part of any specification: it is a plausible mistake that a property must
catch, and `PROJECT.json` pairs each property with one.

### WriteQueue

`do_send`, `do_write` and `on_write` run on the strand of the stream and are
one step each. `send` is called from the strand (`SendInline`: `net::dispatch`
runs `do_send` at once) or from elsewhere (`SendPosted`, then `RunSend`). A
write is a record of the message and of the index bound to its completion;
several could be outstanding, so that `OneWriter` says something. The socket
closes through `do_stop` or by itself (`StreamClose`), and a write may fail at
any time. `accepted` and `wire` are history.

### Broadcast

A `message` is a handle to a buffer with a count. The module repeats every step
of `WriteQueue` together with what it does to the count: a copy for each member
a channel sends to, moves through the strand into `mq_` that count nothing, one
more copy for the asynchronous write, the slot that `resize` drops, what the
destructor of the session finds in `mq_`. `Handles` counts the handles that the
session really has, from the strand, `mq_` and the writes, and `CountExact`
compares. Handles outside the session are a number (`held`). A message of `Long`
is null, because `make_message` returns `{}` for a text that does not fit in
16384 characters; writing it reads through a null pointer, `crashed` records
that, and nothing happens any more.

Order: each write takes the last message of `mq_`, and a swap fills the slot of
the one just written. With at most two messages in `mq_` (the one being written
included) this is first in, first out: `InOrderWhenShort`, where `peak` is the
longest `mq_` has been. With three the order can be lost, and it is lost with
four messages sent at once.

### Channel

`insert` is the change of `users_`, the broadcast, `user::on_insert` and the
hook of the derived channel; `erase` likewise. `at[u]` says how far the one
under way for `u` has got; the broadcast first takes a snapshot of `users_`
under the shared lock (`Snapshot`) and then locks and sends to one weak pointer
at a time (`SendTo`). A user's read coroutine does one thing at a time;
different users interleave freely. When the last reference goes (`EndSession`,
`Release`), the user is dying and its destructor takes it out of one channel
after the other before it is `Free`, after which the address may be used again.
A `SendTo` holds its reference only within the step; what it posts is in
`posted`. `identify` accepts an empty name, which is no name: the user is then
in the system channel, and may identify itself again. Hence `MembersNamed`
leaves that channel out.

### Game and Table

A seat has a player's address, a state, chips, a wager and a number of cards.
`find` returns 0, the dealer's index, for "none", as the code does. Chips start
at any value of `InitChips`, since the constructor leaves them uninitialised.
The table adds the strand, the users' lives, and `epoch`, which tells two users
at one address apart. `do_erase` is bound to a plain reference, the other
handlers to strong ones, so `Referenced` leaves `erase` out. When a handler
reads the name of a user that has been freed, or deals to a full hand (the code
throws where nothing catches), `crashed` records it and nothing happens any
more: what the program does then is undefined or over, and the other properties
of the table hold up to that point. Requests may come from users outside the
channel (unless `JoinFirst` is TRUE), because `on_dispatch` does not ask; seats so
taken have no erase coming and are left out of `NoLostSeat` and `OwnSeatOnly`,
which hold for seats taken from inside the channel even among such requests.

`Seating` is what this comes to for a player: one seat, which is kept until its
player has left the channel, and is open again once the table has dealt with
that. It speaks of persons, where the code has addresses; `Present`, `Erasing`,
`Queued` and `Sitting` map the one to the other with the help of `epoch` and
`holder`. A player who asked from outside the channel is a guest, whose seat only
a later leave from the same address opens. The users' lives are a short form of
what `Channel` has step by step; both implement `Roster` (`TableRoster`).

`on_timer` of the table is never started by the code and `game::insert` is never
called; neither is modelled.

### Server

Time is what is left of the countdown, in half seconds; `Cooldown` (30 s) and
`Chunk` (10 s) have the values of the code. `shutdown` and `stop` called from
other strands are `Call`, then `RunShutdown` and `RunStop`. A timer or signal
wait that is cancelled completes with `aborted`; one whose handler is already
queued cannot be cancelled. `Exit` needs the `io_context` to have no work.

### Program and Countdown

`Program` puts the start before `run`: arguments, the file, the log, the server's
configuration, the constructor of the server, its services, one listener after
the other. Each step may fail (`Try`), and then the program ends. Signals are
caught from the constructor on (`Made`), long before `run` waits for them. The
handlers of the server run only if there is a thread for them. When the
constructor of the server throws, `make_server` reports it through a logger it
has given away; that is the end called `crashed`. `Countdown` is the promise of a
shutdown as the users see it: a deadline that does not move, numbers that get
smaller and are never too small. `CountdownSpec` says that the timer, the
rounding, late handlers and repeated requests implement it.

### Listener

A connection is driven by a detector, an HTTP session and a websocket session
in turn; `stage` says what it waits for and `io` how that went. An object
exists while it drives its connection or a posted `do_stop` owns it. The next
object of a connection is made by `make_shared` inside a handler of the one
before, in two steps: its constructor enters it in `sessions_` (`MakeNext`), and
only when `make_shared` returns does it have an owner and begin to work
(`run_http_session`, `run_ws_session`). A `do_stop` that comes between finds an
entry whose weak pointer is empty (`Unowned`), clears it and tells nobody, which
`missed` records. Detectors are made on the strand that `do_stop` runs on, so
they have no such gap; their own `do_stop` is posted with a plain pointer, and may
find its detector destroyed: what it then does is undefined, so it may do nothing
or end the program (`crashed`). The accept loop ends at any error, with the
acceptor open or closed (`on_accept_error`), and neither it nor `on_accept` runs in
the middle of `do_stop`.
`listener_impl::do_stop` is `CloseAcceptor`, `TakeSessions`, one `Tell` per
session and `Told`: on other threads sessions come and go between these.
Closing a socket makes what waits on it fail; cancelling, which the detector
does, only affects an operation outstanding at that moment.

### Http

Adds to the steps of `Listener` the deadline of the stream (`timer`), whether the
session is a TLS one, and whether the response being written is the last one.
The deadline moves with the stream, which is why `expires_never` before the
upgrade matters. Here what ends a wait is the deadline that the code has set (or
a closed socket), so that `ToldSessionsEnd` depends on the deadlines being there.

### Rpc

One user's requests, from `async_read` to the reply. A message is reduced to
what the code asks of it: which members it has and of which type, which channel
and method it names, and whether its argument is missing, of the wrong type,
empty, good or too long. `extract` gives the first error and the id; an
`rpc_error` anywhere in a handler is `Refuse`. Two other exceptions occur, and
since nothing catches them they end the program (`crashed`): that of `number_cast`
for a `cid` that is no number of its type, and that of `push_back` when `do_start`
deals to a full hand. The requests of the table are moved to the table's strand,
where the game agrees or refuses (`RunTable`); what it then does to the game is in
`Table`. `log` is history. `IsRequest` is the reference for `extract`, taken from
the specifications of JSON-RPC 1.0 and 2.0 and not from the code; the one
difference, a null id in version 2.0, is written down in `ExtractRight`. A request of version 1
is valid but never does anything, since its parameters are an array and
`channel_list::dispatch` wants an object with a `cid`.

### Cards

The shoe is how many of each card are left, and its order is drawn as cards are
dealt; a hand is how often it has each card. `total` is the loop of `eval`, and
`Totals` the reference: all the ways to count the aces. `hand` is dealt to until
it is done, as `test/server/blackjack.cpp` does. The hand of `blackjack.cpp` is a
copy of an earlier form; its `deal` does not call `eval`, and only counting its
cards matters to the table (`Game`).

## Runs

Runs that pass:

| run | bounds | shows |
|---|---|---|
| `WriteQueueCheck` | `Broadcast`, 3 messages, one too long, 1 other member | one writer, no loss, no duplicate, no stall, in order while `mq_` is short; counts exact; implements `Mailbox`; accepted messages are written and all buffers freed |
| `ChannelCheck` | 2 users, 2 channels | members exist, the lists agree, the `BOOST_VERIFY`s hold, members have names; `Channel` implements `Roster`; a disconnected user is removed and freed |
| `TableReuse` | 2 addresses used twice, 1 seat and the dealer, 2 handlers queued, requests to play from outside the channel too | seats are touched for their own users only, never lost, and given up in the end; implements `Seating` |
| `TableGame` | 2 users, 2 seats and the dealer, all requests | one seat per user, members up to date, chips conserved, no hand ahead of the dealer's |
| `ServerCheck` | `Program`, 2 listeners, 0 or 1 threads configured, 2 signals, 2 requests | a whole server or none; implements `Countdown`; the grace period kept; signals heard, during the start too; without signals run returns once it was stopped and the sessions have ended |
| `ListenerCheck` | `Http`, 1 connection | registry sound, only sessions without an owner missed by a stop, no late accept, deadlines where they belong; sessions that are told to stop end |
| `RpcCheck` | 3 messages | the requests of JSON-RPC, but for a null id in 2.0, and no others are accepted; every id is answered once and in the end, or the program has ended; an error reply of the session means no change of the name or the channels |
| `CardsCheck` | 4 decks of two aces, a two and a king | `eval` agrees with the rules; no hand is ever full; every hand ends |

Why these bounds are enough to meet the interesting cases. A swap in `mq_`
that matters needs a write under way and two more messages, which is what there
are; what holds for more messages is proved. A buffer shared with one other
member is freed by either side last, and one message is made at a time
(`MaxHeld`), while those before it are still in the session. Two channels let a user be half in one and in the
other while a second user broadcasts; what holds for more users is proved. Two
epochs per address let an erase of the first user meet the seat of the second,
and in `TableReuse` users join and make requests while another handler waits
(`MaxQueue = 2`; hooks may add more), so that the second user of an
address joins, or asks for a seat, with the erase of the first still queued.
`TableGame` has one user per address and `MaxQueue = 1`. A hand's capacity is 2
cards there, so that a second round is dealt, and 1 elsewhere, instead of 22, and
a second bet is not made before the first is cleared (`MaxWager`): the handlers do
not depend on these numbers but through the full hand, which is reached.
`TableGame` has `JoinFirst = TRUE`, to keep it small; `TableReuse` has the requests
from outside the channel, of which play is the one that matters to who has a
seat. `TableGame` uses symmetry between the addresses, which is sound there
because it checks invariants only. Two signals are what `on_signal`
distinguishes, and `MaxLate` is one tick of half a second, enough for rounding to matter. Connections share
only the acceptor and `sessions_`; the safety properties of `Listener` are proved
for any number, and the run has one, which is enough for a stop at every point of
its life. Three messages are what it takes to have a name, join and act. Two
kinds of ace tell the code of a card from its value; the longest hand of the run
has 19 cards, the longest possible (19 aces and a two) 20. The bounds are
constants of the modules and guard the actions that would exceed them.

Fairness. The `io_context`'s threads run every posted handler, a thread inside
a function goes on, an asynchronous operation completes (the streams have
timeouts: 30 s on the detector and HTTP sessions, idle timeout and pings on
websockets), timers expire. Each is weak fairness of the action in question.
Nothing is assumed of clients and signals: they need not act. In `Listener` a
websocket session whose socket is open may wait for ever, because a client that
answers pings keeps it alive; in `Http` the others are fair only as far as their
deadline is set. A told detector that is gone may end the program, after which
nothing is promised. In `Server` nothing is assumed of the sessions either: that
their work ends (`WorkEnds`) is not fair, since `ListenerStop` shows one that goes
on after the stop, and the properties about the exit begin when it has ended. In
`Broadcast` other members write or drop what they hold, and a
read coroutine whose stream is closed or has failed ends. In `Program` the main
thread goes on, and handlers run if there is a thread. In `Cards` the loop that
deals goes on.

Deadlock is checked for `Channel`, where somebody can always connect, and for
`Cards`, where a hand that is done is followed by another. Elsewhere
the system may stop: all messages written, all addresses used, the program at
its end, or no client.

Runs that show a disagreement between the code and what the repository says of
it; `PROJECT.json` has the quotations under `findings`:

| run | shows |
|---|---|
| `TableDangling` | the table reads the name of a user that has been freed, although every client joins before it plays |
| `ServerExit` | a signal queued when a client stops the server leaves a wait that nobody cancels: no exit, though the sessions have ended |
| `ListenerStop` | a session that takes over a stream during the stop is never stopped |
| `HttpKeepAlive` | a connection to be kept alive is ended after one response |

More things met on the way have no run of their own, because the repository
does not say what ought to happen, or says it too vaguely:

- Messages are written last in, first out when more than two wait, so a client
  can be left with an older state of a game than the one it was sent last
  (`ws_user.cpp` line 223; `user.hpp` line 43 only says "Messages are queued as
  needed").
- `detector::on_stop` posts `do_stop` with the plain pointer `this`, where the
  other sessions pass `shared_from(this)` (`listener.cpp` line 101): when the
  detection completes first, `do_stop` runs on a destroyed detector. In
  `Listener` that does nothing or ends the program.
- A user that plays without joining the channel and disconnects leaves its address
  in its seat for good, since only `channel::erase` calls `on_erase`
  (`blackjack.cpp` line 577); the table reads the name of the freed user in its
  next update. TLC shows it for `NoDanglingName` when `TableDangling` is given
  `JoinFirst = FALSE`.
- A session enters itself in `sessions_` before `make_shared` has given it an owner
  (`http_session.cpp` line 250, `ws_user.cpp` line 55), so a `do_stop` at that
  moment drops it without telling it. `OnlyUnownedMissed` says that this is the
  only way to be dropped; a session that is so dropped, or registers too late, is
  what `StopReachesAll` is about.
- Any error of `async_accept`, such as a lack of file descriptors, ends the accept
  loop for good while the server goes on (`listener.cpp` line 306).
- A `cid` that is not a number, and the deal to a full hand, throw what nobody
  catches (`channel_list.cpp` line 107, `blackjack.cpp` line 500).
- `extract` refuses a null id in version 2.0, which that specification permits
  and the comment in `rpc.cpp` line 174 calls discouraged. In version 1.0 a null
  id marks a notification, and is answered all the same.
- `make_message` answers a text that is too long with a null message, which
  nobody checks for (`message.cpp` line 25).
- `is_shutting_down` returns `stop_`, which is false during the whole countdown,
  while `server.hpp` line 75 says it is true if "the server is shutting down
  gracefully"; its only caller is the timer of the table, which is never started.
- The id of a request may be of any type in version 1, and in a reply to a bad
  request of version 2, while `rpc.hpp` line 139 says "If set, this will be
  string, number, or null".
- `hand::eval` of `blackjack.cpp` adds up codes of cards instead of their values
  and takes code 1 for the only ace; it is never called.
- A configuration without a list of listeners ends the program without a word
  (`server.cpp` line 518), and a shoe of no decks would loop over an empty vector
  (`i < cards_.size() - 1`); `DecksAssumption` excludes it.
- `get_section` of the logger changes a set without a lock, on any thread.

## Proofs

`WriteQueueProofs`, for any set of messages. The inductive invariant `IInv` is
the conjunction of the properties and `EachSentOnce`. None of the properties is
inductive alone: that swap-and-shrink keeps `NoLossNoDuplicate` needs the
index to designate the written message (`SlotHoldsMessage`); that `do_send` does
not start a second writer needs `NoStall` and `FailureIsFinal`, because the code
reads "the queue was empty" as "nobody writes"; and that an appended message is
new needs `EachSentOnce`. Lemmas say what `Append`, `Tail` and `Removed` do to
the elements and the distinctness of a sequence. From the invariant follow
`TypeCorrect`, one theorem per property, and `ImplementsMailbox`.

`ChannelProofs`, for any sets of users and channels. `IInv` adds to the types
and `MembersNamed` the facts `Lists` (the two lists differ for exactly the user
and channel of an operation between its two halves, in the direction of that
operation) and `Lifetime` (who may refer to a user in each state of its life:
a live user has a reference, a dying one is only ever being erased, a free one
is in no channel). `MemberExists` and `ListsAgree` follow, but neither is
inductive: that a freed user is in no `users_` needs its `channels_` to be empty
and the lists to agree. `ImplementsRoster` maps `insert` and `erase` to one join
or leave each, at the change of `users_`.

`ListenerProofs`, for any set of connections. `IInv` adds to the types,
`SessionsExist` and `OnlyUnownedMissed` two facts: `AcceptedIsNew` (the connection
that `on_accept` is about to take is driven by nobody, so that making its
detector does not take it from a session) and `NothingTaken` (the list of
`do_stop` is empty, and nobody has been missed, until it takes the sessions:
taking them a second time would lose those not yet told). `OnlyUnownedMissed`
speaks also of the object that is being made, because it is in `sessions_` before
it drives its connection, and so is not entered again when it begins to. `NoLateAcceptHolds` is an action property: only
`on_accept` makes detectors, and it asks the acceptor first.

`BroadcastProofs`, and `ListenerProofs` for `Http`, first show that every step of the larger
module is a step of the one it extends, or leaves its variables alone
(`ImplementsWriteQueue`, `ImplementsListener`). Hence the theorems above hold for
them, and their invariants may be used. `InOrderWhenShortHolds` rests on `Fifo`:
as long as `peak` is at most 2, what was accepted is what was written followed by
`mq_`, and the write under way is that of slot 1; with two messages the swap of
`on_write` shifts the second into the first slot. `DeadlineFitsStageHolds` needs
`Timed`, which speaks of the stage and not of the operation: a response is
written under the deadline that was set for the read, so the deadline has to be
there also while no operation is pending, and one is taken back before the
websocket session is made.

`CountExactHolds` is about any number of messages and of members that share
them. `Handles` counts sets, and the first step is to get rid of that: by
`IInv` of the queue a message is at most once on the strand, at most once in
`mq_` and in at most one write, so its handles are three yes or no questions
(`Owned`). The invariant `Exact` adds to `CountExact` that a message without a
buffer has not been sent, which is why a new buffer begins with a count of one
and one handle. `AdjustExact` is the core: if a step changes the count of every
message by as much as its handles, and touches only messages that had a handle,
then the buffers that it frees are those that lost their last one. What remains
is arithmetic for `do_send`, `on_write`, the strand and the destructor.

`ProgramProofs`, for any configuration, any number of signals, requests and
threads. `Ready` says what has been made when the start has come to a step, and
that the main thread is in `run` only at the end of it; `WholeServerHolds`
follows. `SignalHeardHolds` uses `Heard`, which is `SignalHeard` from the
beginning of `run` on: `stop` is the only step that lets go of the wait, and it
sets `stop_` first.

`CountdownHolds` is the refinement of `Countdown`, for any `Cooldown`, `Chunk`,
resolution of the clock and lateness of handlers. `shutdown` maps to `Begin`, an
`on_timer` that announces to `Announce`, a tick to `Pass`, whatever sets `stop_` to
`Stop`. What has to be shown is that `on_timer` always has fewer seconds to
announce than last time. The invariant `CountInv` therefore relates the time
that is left to the wait that is outstanding: `left` is at most the last number
announced, less one, in ticks, plus the wait (`Counting`). It holds when a wait is
set because `Chunk` is at least a second and the number was rounded up
(`CeilRounds`), and when the wait ends it says what is needed. It also needs that
there is a wait or an `on_timer` on the strand, never both, and never two of the
latter (`Single`): a second one would announce the same number again.
`GracePeriodKeptHolds` uses the same invariant and `CeilFacts`. `ServerTypeOK`
adds the bounds of the clock and of the counters.

`TableProofs`, for any users, seats, chips, size of a hand, and number of times
an address is used. `Seated` says what a game must be like for `find` to tell a
seat from "none", and lemmas say what `join`, `leave`, `bet`, `surrender` and
dealing do to a game of that kind; `find` and the search for an open seat take the
least of a set of numbers, which exists because the natural numbers are well
founded (`LeastOf`). `HandleSteps` turns them into what a handler may do to the
seats and to what the users were sent. `NoLostSeat` is not inductive. `do_play`
seats a user whose `do_erase` may already be on the strand, and must find it
behind itself (`ErasedLater`); `do_erase` frees the seat that `find` gives for an
address, and must not take that of a later user of the address. For that the
handlers of one address are in the order of its users (`InOrder`), every handler
but `do_erase` is of the present one, which it keeps alive (`Current`), and a seat
was taken by a user that is not later than those of the handlers that wait
(`Later`). With `Lives`, about when an object may be freed, these are `IInv`.
`OwnSeatOnlyHolds`, an action property, follows from it; `ChipsConservedHolds`,
`DealsInTurnHolds` and `NoMissedUpdateHolds` are inductive once it is given.

`TableImplementsSeating` maps `Join` to `Enter`, `Leave` and `Destroy` to `Depart`,
`do_play` to `Sit` and `do_erase` to `Settle`; all else changes nothing that
`Seating` sees. `on_erase` only moves a person from `Erasing` to `Queued`. That
`Sit` is allowed rests on `ErasedLater` and `Current` (`PlayerKnown`); that `Settle`
opens the seat of its own person and no other, on `Later` and `InOrder`
(`HeadOwnsSeat`); and that nothing else opens one, on no seat ever being in state
`waiting`, the only one that `leave` opens at once. `PromiseKeepsSeats` shows
what the promise is worth without the table: a member with a seat is present or
leaving, and nobody has two. `TableImplementsRoster` needs `Lives`.

`RpcProofs`, for any number of messages. `AnsweredOnce` needs `Pending`: what is
on the table's strand is a message of the log, with its id, and no message is
there twice, so that running it answers the one that has not been answered.
`Handled` sums up what the read loop may do with a message: log it with its
replies, move it to the table, or end the program. `ExtractRightHolds` compares
`extract` with `IsRequest`, which is stated from the specifications, on every
message. `RefusedIsNoOpHolds` is an action property about the name and the
channels of the user, which the handlers on the session's strand change.

`CardsProofs`, for any cards and any number of decks. A hand is worth a sum over
its cards, and what a sum over a finite set is has to be proved from its
definition, a recursive function on the subsets. The library's induction theorems
cannot be used for that, but a smallest counterexample can (`SmallestOf`, from the
natural numbers being well founded): `SumsExist` builds the recursive function for
sets of up to n elements from the one for fewer, and `SumNat`, `SumGrows` and
`SumOneMore` look at the smallest set for which they would fail. `ValueIsWorth`
compares `value` with the rules card by card, `LoopRight` is the arithmetic of the
loop over the aces, and `EvalRight` is inductive together with the types. A hand
that is not done is below 21 with every ace as one, and each card is worth at
least one (`UndoneShort`): so it has at most 20 cards, hence `HandFitsAlways`, and
with `SumOneMore` it has one more after each deal (`DealAddsHolds`), which is the
part of `HandEnds` that needs no fairness.

Only model-checked: liveness (`EventuallyWritten`, `BufferFreed`,
`DisconnectCleansUp`, `SeatFreed`, `StopsWhenAsked`, `ExitsUnlessSignalled`,
`ToldSessionsEnd`, `EventuallyAnswered`, `HandEnds`), because TLAPS does not reason
about fairness. Every safety property of the passing runs is proved. The other
way round, the type invariants, `NoLostSeat`, which `SeatingSpec` implies, and
`TableRoster`, which ties the short life of a user in `Table` to the long one in
`Channel`, are proved and no run repeats them. The assumptions on constants are named in the
modules and evaluated by the runs; the proofs use no others, but for
`HandFitsAlways`, whose hypothesis is a capacity above 20 (it is 22 in the code).

## Not modelled

- What replies say.
- Which file or response an HTTP request gets, TLS, and the configuration with
  another `kind` of listener (the constructor of the listener overwrites it).
- What the logger writes, the bytes of a message, what a configuration says
  beyond what `make_server` asks of it, the certificate.
- `include/boost/beast/_experimental/core/expected.hpp`, a generic type that the
  server does not use.
- In what order a client sees the messages of two handlers: `NoMissedUpdate`
  speaks of what was handed to `send`, and afterwards the order is only kept
  while `mq_` is short.

## Plan

Done: `WriteQueue` with `Broadcast`, and `Channel`, with their abstract
specifications and proofs; `Game` and `Table` with `Seating`, with proofs;
`Server` with `Program` and `Countdown`, with proofs; `Listener` and `Http` with
proofs; `Rpc` with proofs; `Cards` with proofs.

To come: `Lounge`, which is `Table` over `Channel` and `Broadcast`, for what a
client last sees of a game.
