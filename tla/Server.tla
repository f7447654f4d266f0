------------------------------- MODULE Server -------------------------------
(***************************************************************************)
(* How the server runs and stops: run, shutdown, on_timer, on_signal and  *)
(* stop of server_impl (server/core/server.cpp).                          *)
(*                                                                         *)
(* The timer and the signal set share one strand, on which shutdown and   *)
(* stop put themselves when called from elsewhere.  The main thread       *)
(* blocks in run until stop_ is set, then stops the services and joins    *)
(* the threads, which return when the io_context has nothing left to do.  *)
(*                                                                         *)
(* Time is kept as what is left of it, in ticks of 1/TicksPerSecond s.    *)
(***************************************************************************)
EXTENDS Integers, Sequences

CONSTANTS
    TicksPerSecond,
    Cooldown,           \* seconds given to shutdown, 30 in the code
    Chunk,              \* longest wait between announcements, 10 in the code
    MaxLate,            \* bound: ticks a deadline may be past
    MaxSignals,         \* bound: SIGINT and SIGTERM delivered
    MaxCalls            \* bound: requests that call shutdown or stop

ASSUME ClockAssumption ==
    /\ TicksPerSecond \in Nat \ {0}
    /\ Cooldown \in Nat \ {0}
    /\ Chunk \in Nat \ {0}

ASSUME BoundsAssumption ==
    MaxLate \in Nat /\ MaxSignals \in Nat /\ MaxCalls \in Nat

VARIABLES
    main,               \* where the main thread is in run
    strand,             \* handlers on the strand, oldest first
    left,               \* shutdown_time_ - now, or Never
    armed,              \* timer_.expiry() # never()
    wait,               \* ticks until the outstanding async_wait ends, or None
    sigwait,            \* signals_.async_wait is outstanding
    undelivered,        \* signals caught while no wait was outstanding
    stop_,
    work,               \* the services and their sessions have work outstanding
    said,               \* history: the seconds announced to the users
    signals,            \* how many signals there have been
    calls               \* how many requests there have been

vars == <<main, strand, left, armed, wait, sigwait, undelivered, stop_, work,
          said, signals, calls>>

timers == <<left, armed, wait, said>>
inputs == <<signals, calls>>

\* time_point::max(), later than any deadline
Never == Cooldown * TicksPerSecond + 1

None == -1

Handlers == {"shutdown", "stop", "on_timer", "on_timer_aborted",
             "on_signal", "on_signal_aborted"}

Init ==
    /\ main = "new"
    /\ strand = << >>
    /\ left = Never
    /\ armed = FALSE
    /\ wait = None
    /\ sigwait = FALSE
    /\ undelivered = 0
    /\ stop_ = FALSE
    /\ work = FALSE
    /\ said = << >>
    /\ signals = 0
    /\ calls = 0

-----------------------------------------------------------------------------
\* Faulty variant: rounds down.
FloorSeconds(d) == d \div TicksPerSecond

\* ceil<seconds> of a number of ticks
CeilSeconds(d) == -((-d) \div TicksPerSecond)

AtMost(n, m) == IF n < m THEN n ELSE m

\* signals_.async_wait, with the strand as the rest of the handler leaves it:
\* a signal caught before completes it at once.
signals_async_wait(q) ==
    IF undelivered > 0
    THEN /\ undelivered' = undelivered - 1
         /\ strand' = Append(q, "on_signal")
         /\ UNCHANGED sigwait
    ELSE /\ sigwait' = TRUE
         /\ strand' = q
         /\ UNCHANGED undelivered

\* Faulty variant: the waits are not cancelled.
stopNoCancel(q) ==
    /\ stop_' = TRUE
    /\ strand' = q
    /\ UNCHANGED <<wait, sigwait>>

\* stop, on the strand: set stop_, cancel the waits that are outstanding
stop(q) ==
    IF stop_ THEN strand' = q /\ UNCHANGED <<stop_, wait, sigwait>>
    ELSE /\ stop_' = TRUE
         /\ strand' = q \o (IF wait # None THEN <<"on_timer_aborted">> ELSE << >>)
                        \o (IF sigwait THEN <<"on_signal_aborted">> ELSE << >>)
         /\ wait' = None
         /\ sigwait' = FALSE

\* on_timer's tail: announce the seconds that remain, wait for at most Chunk
announce(remain) ==
    /\ said' = Append(said, remain)
    /\ armed' = TRUE
    /\ wait' = AtMost(remain, Chunk) * TicksPerSecond

\* Faulty variant: may be called more than once.
shutdownAgain ==
    /\ left' = Cooldown * TicksPerSecond
    /\ announce(CeilSeconds(Cooldown * TicksPerSecond))

\* shutdown, on the strand, which goes straight on to on_timer
shutdown ==
    IF armed THEN UNCHANGED timers
    ELSE /\ left' = Cooldown * TicksPerSecond
         /\ announce(CeilSeconds(Cooldown * TicksPerSecond))

-----------------------------------------------------------------------------
\* run, up to the wait for stop_.  The services start to work.
run ==
    /\ main = "new"
    /\ main' = "blocked"
    /\ work' = TRUE
    /\ signals_async_wait(strand)
    /\ UNCHANGED <<stop_, timers, inputs>>

\* A signal is caught by the signal set.
Signal ==
    /\ signals < MaxSignals
    /\ main # "exited"
    /\ signals' = signals + 1
    /\ IF sigwait
       THEN sigwait' = FALSE /\ strand' = Append(strand, "on_signal")
                             /\ UNCHANGED undelivered
       ELSE undelivered' = undelivered + 1 /\ UNCHANGED <<strand, sigwait>>
    /\ UNCHANGED <<main, timers, stop_, work, calls>>

\* A session calls shutdown or stop for a request to the system channel.
Call(f) ==
    /\ calls < MaxCalls
    /\ work
    /\ calls' = calls + 1
    /\ strand' = Append(strand, f)
    /\ UNCHANGED <<main, timers, sigwait, undelivered, stop_, work, signals>>

Tick ==
    /\ \/ left # Never /\ left > -MaxLate
       \/ wait > 0
    /\ left' = IF left # Never /\ left > -MaxLate THEN left - 1 ELSE left
    /\ wait' = IF wait > 0 THEN wait - 1 ELSE wait
    /\ UNCHANGED <<main, strand, armed, sigwait, undelivered, stop_, work, said, inputs>>

\* The wait on timer_ ends.  The handler may have to queue.
TimerExpires ==
    /\ wait = 0
    /\ wait' = None
    /\ strand' = Append(strand, "on_timer")
    /\ UNCHANGED <<main, left, armed, sigwait, undelivered, stop_, work, said, inputs>>

-----------------------------------------------------------------------------
Run(f) ==
    /\ strand # << >>
    /\ Head(strand) = f
    /\ main # "new"

RunShutdown ==
    /\ Run("shutdown")
    /\ strand' = Tail(strand)
    /\ shutdown
    /\ UNCHANGED <<main, sigwait, undelivered, stop_, work, inputs>>

RunStop ==
    /\ Run("stop")
    /\ stop(Tail(strand))
    /\ UNCHANGED <<main, left, armed, said, undelivered, work, inputs>>

on_timer ==
    /\ Run("on_timer")
    /\ LET remain == CeilSeconds(left) IN
        IF remain <= 0
        THEN stop(Tail(strand)) /\ UNCHANGED <<armed, said>>
        ELSE /\ announce(remain)
             /\ strand' = Tail(strand)
             /\ UNCHANGED <<stop_, sigwait>>
    /\ UNCHANGED <<main, left, undelivered, work, inputs>>

\* on_timer and on_signal return at once when the wait was cancelled.
Aborted ==
    /\ Run("on_timer_aborted") \/ Run("on_signal_aborted")
    /\ strand' = Tail(strand)
    /\ UNCHANGED <<main, timers, sigwait, undelivered, stop_, work, inputs>>

\* Faulty variant: signals are not captured again.
on_signalOnce ==
    /\ Run("on_signal")
    /\ strand' = Tail(strand)
    /\ IF armed THEN stop_' = TRUE /\ UNCHANGED timers
       ELSE shutdown /\ UNCHANGED stop_
    /\ UNCHANGED <<main, sigwait, undelivered, work, inputs>>

on_signal ==
    /\ Run("on_signal")
    /\ IF ~armed
       THEN /\ signals_async_wait(Tail(strand))
            /\ shutdown
            /\ UNCHANGED stop_
       ELSE /\ stop(Tail(strand))
            /\ UNCHANGED <<left, armed, said, undelivered>>
    /\ UNCHANGED <<main, work, inputs>>

-----------------------------------------------------------------------------
\* run, from the wait for stop_ to the joining of the threads: every service
\* is told to stop.
StopServices ==
    /\ main = "blocked"
    /\ stop_
    /\ main' = "joining"
    /\ UNCHANGED <<strand, timers, sigwait, undelivered, stop_, work, inputs>>

\* The services' last work ends.  It may do so before, when the listeners
\* have failed and the clients are gone.
WorkEnds ==
    /\ work
    /\ work' = FALSE
    /\ UNCHANGED <<main, strand, timers, sigwait, undelivered, stop_, inputs>>

\* The io_context has no work, so its threads end and run returns.
Exit ==
    /\ main = "joining"
    /\ strand = << >> /\ wait = None /\ ~sigwait /\ ~work
    /\ main' = "exited"
    /\ UNCHANGED <<strand, timers, sigwait, undelivered, stop_, work, inputs>>

Handle ==
    RunShutdown \/ RunStop \/ on_timer \/ Aborted \/ on_signal

Next ==
    \/ run \/ Signal \/ Tick \/ TimerExpires
    \/ \E f \in {"shutdown", "stop"} : Call(f)
    \/ Handle
    \/ StopServices \/ WorkEnds \/ Exit

Spec == Init /\ [][Next]_vars

\* Threads run handlers, time passes, timers end and the main thread goes on.
\* Neither signals nor requests need come, and the work of the services need not
\* end: Listener has a session that goes on after the stop.
Fairness ==
    /\ WF_vars(Handle)
    /\ WF_vars(Tick)
    /\ WF_vars(TimerExpires)
    /\ WF_vars(StopServices)
    /\ WF_vars(Exit)

FairSpec == Spec /\ Fairness

-----------------------------------------------------------------------------
TypeOK ==
    /\ main \in {"new", "blocked", "joining", "exited"}
    /\ strand \in Seq(Handlers)
    /\ left \in -MaxLate .. Never
    /\ armed \in BOOLEAN
    /\ wait \in None .. Chunk * TicksPerSecond
    /\ sigwait \in BOOLEAN
    /\ undelivered \in 0 .. MaxSignals
    /\ stop_ \in BOOLEAN
    /\ work \in BOOLEAN
    /\ said \in Seq(1 .. Cooldown)
    /\ signals \in 0 .. MaxSignals
    /\ calls \in 0 .. MaxCalls

\* A countdown never stops the server before the time the users were promised;
\* only a second signal or a stop request does.
GracePeriodKept ==
    [][stop_' /\ ~stop_ /\ Head(strand) = "on_timer" => left <= 0]_vars

\* "second time hard stop": while the server runs, a signal is always heard.
\* This is also what keeps the io_context's threads from running out of work.
SignalHeard ==
    main = "blocked" /\ ~stop_ =>
        sigwait \/ \E k \in DOMAIN strand : strand[k] = "on_signal"

\* Unless a signal interferes, run returns once the server has been stopped, by
\* a request or at the end of a countdown, and the sessions have ended: whatever
\* handlers are queued when stop cancels the waits, none leaves a wait of the
\* server itself behind for good.
ExitsUnlessSignalled == (stop_ /\ ~work) ~> (main = "exited" \/ signals > 0)

\* server/README.md promises "Clean shutdown and exit": once the server has
\* been stopped and the last session has ended, run returns.
CleanExit == (stop_ /\ ~work) ~> (main = "exited")
=============================================================================
