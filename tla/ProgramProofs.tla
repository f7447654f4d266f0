--------------------------- MODULE ProgramProofs ---------------------------
(***************************************************************************)
(* Proofs about Program, for any configuration and any number of signals  *)
(* and requests: a server that runs is whole, while it runs a signal has  *)
(* somebody to hear it, and its timer, its rounding and its late handlers *)
(* keep the countdown that the users are promised.                        *)
(***************************************************************************)
EXTENDS Program, TLAPS

-----------------------------------------------------------------------------
\* What the start has achieved when it has come to a step
Ready ==
    /\ at \in {"server_impl", "services", "listeners", "run"} =>
        num_threads \in Nat /\ num_threads > 0
    /\ at \in {"services", "listeners", "run"} => log = "server"
    /\ at \notin {"failed", "crashed"} => opened = seen
    /\ at = "run" => seen = NumListeners
    /\ main # "new" => at = "run"

\* Nothing has been made when main begins.
LEMMA InitReady == InitP => Ready
BY DEF InitP, Init, Ready

\* Only main_run begins to run the server; no handler of the server changes
\* what was made.
LEMMA NextReady == Ready /\ [NextP]_pvars => Ready'
<1> SUFFICES ASSUME Ready, [NextP]_pvars PROVE Ready'
  OBVIOUS
<1> USE DEF Ready
<1>1. ASSUME main_arguments \/ parse_file \/ open PROVE Ready'
  BY <1>1 DEF main_arguments, parse_file, open, Try, vars
<1>2. ASSUME server_config PROVE Ready'
  BY <1>2, ConfigAssumption DEF server_config, Try, vars, server_config_threads
<1>3. ASSUME server_impl \/ make_services PROVE Ready'
  BY <1>3 DEF server_impl, make_services, Try, vars
<1>4. ASSUME run_listener PROVE Ready'
  BY <1>4 DEF run_listener, Try, vars
<1>5. ASSUME main_run PROVE Ready'
  BY <1>5 DEF main_run
<1>6. ASSUME UNCHANGED starting, main' = main \/ main # "new" PROVE Ready'
  BY <1>6 DEF starting
<1>7. ASSUME Signal \/ Tick \/ TimerExpires \/ StopServices \/ WorkEnds \/ Exit
             \/ \E f \in {"shutdown", "stop"} : Call(f)
      PROVE  main' = main \/ main # "new"
  BY <1>7 DEF Signal, Tick, TimerExpires, StopServices, WorkEnds, Exit, Call
<1>8. ASSUME Handle PROVE main' = main
  BY <1>8 DEF Handle, RunShutdown, RunStop, on_timer, Aborted, on_signal
<1>9. ASSUME UNCHANGED pvars PROVE Ready'
  BY <1>9 DEF pvars, starting, vars
<1> QED
  BY <1>1, <1>2, <1>3, <1>4, <1>5, <1>6, <1>7, <1>8, <1>9 DEF NextP, Start, HandleP

\* make_server gives main a server with its log, a thread and all its
\* listeners, or none.
THEOREM WholeServerHolds == SpecP => []WholeServer
<1>1. Ready => WholeServer
  BY DEF Ready, WholeServer
<1> QED
  BY <1>1, InitReady, NextReady, PTL DEF SpecP

-----------------------------------------------------------------------------
\* Somebody hears the next signal: a wait, or a handler that will see to it.
Listening(w, q) == w \/ \E k \in DOMAIN q : q[k] = "on_signal"

\* From the beginning of run on, until stop, somebody listens.
Heard ==
    /\ strand \in Seq(Handlers)
    /\ main # "new" /\ ~stop_ => Listening(sigwait, strand)

\* A handler that is added to the strand leaves the others where they are.
LEMMA AppendKeeps ==
    ASSUME NEW q \in Seq(Handlers), NEW h \in Handlers
    PROVE  /\ Append(q, h) \in Seq(Handlers)
           /\ \E k \in DOMAIN Append(q, h) : Append(q, h)[k] = h
           /\ (\E k \in DOMAIN q : q[k] = "on_signal") =>
                \E k \in DOMAIN Append(q, h) : Append(q, h)[k] = "on_signal"
<1>1. /\ Append(q, h) \in Seq(Handlers)
      /\ Len(Append(q, h)) = Len(q) + 1
      /\ Append(q, h)[Len(q) + 1] = h
      /\ \A k \in 1 .. Len(q) : Append(q, h)[k] = q[k]
  OBVIOUS
<1>2. DOMAIN Append(q, h) = 1 .. Len(q) + 1 /\ DOMAIN q = 1 .. Len(q)
  BY <1>1
<1>3. Len(q) + 1 \in DOMAIN Append(q, h) /\ DOMAIN q \subseteq DOMAIN Append(q, h)
  BY <1>2
<1> QED
  BY <1>1, <1>2, <1>3

\* A handler other than on_signal leaves the strand, and on_signal stays.
LEMMA TailKeeps ==
    ASSUME NEW q \in Seq(Handlers), q # << >>
    PROVE  /\ Tail(q) \in Seq(Handlers)
           /\ Head(q) # "on_signal" /\ (\E k \in DOMAIN q : q[k] = "on_signal") =>
                \E k \in DOMAIN Tail(q) : Tail(q)[k] = "on_signal"
<1>1. /\ Tail(q) \in Seq(Handlers)
      /\ Len(Tail(q)) = Len(q) - 1
      /\ \A k \in 1 .. Len(q) - 1 : Tail(q)[k] = q[k + 1]
      /\ Head(q) = q[1]
  OBVIOUS
<1>2. ASSUME NEW k \in DOMAIN q, q[k] = "on_signal", Head(q) # "on_signal"
      PROVE  \E j \in DOMAIN Tail(q) : Tail(q)[j] = "on_signal"
  <2>1. k \in 1 .. Len(q) /\ k # 1
    BY <1>1, <1>2
  <2>2. k - 1 \in 1 .. Len(q) - 1 /\ (k - 1) + 1 = k
    BY <2>1
  <2>3. k - 1 \in DOMAIN Tail(q) /\ Tail(q)[k - 1] = "on_signal"
    BY <1>1, <1>2, <2>2
  <2> QED
    BY <2>3
<1> QED
  BY <1>1, <1>2

\* Waiting for signals makes somebody listen, whatever is on the strand.
LEMMA WaitListens ==
    ASSUME NEW q \in Seq(Handlers), signals_async_wait(q)
    PROVE  strand' \in Seq(Handlers) /\ Listening(sigwait', strand')
<1>1. "on_signal" \in Handlers
  BY DEF Handlers
<1>2. CASE undelivered > 0
  <2>1. strand' = Append(q, "on_signal")
    BY <1>2 DEF signals_async_wait
  <2>2. /\ Append(q, "on_signal") \in Seq(Handlers)
        /\ \E k \in DOMAIN Append(q, "on_signal") : Append(q, "on_signal")[k] = "on_signal"
    BY <1>1, AppendKeeps
  <2> QED
    BY <2>1, <2>2 DEF Listening
<1>3. CASE ~(undelivered > 0)
  <2>1. strand' = q /\ sigwait' = TRUE
    BY <1>3 DEF signals_async_wait
  <2> QED
    BY <2>1 DEF Listening
<1> QED
  BY <1>2, <1>3

\* stop sets stop_, or had been called before.
LEMMA StopStops ==
    ASSUME NEW q \in Seq(Handlers), stop(q), stop_ \in BOOLEAN
    PROVE  strand' \in Seq(Handlers) /\ stop_'
<1>1. <<"on_timer_aborted">> \in Seq(Handlers) /\ <<"on_signal_aborted">> \in Seq(Handlers)
      /\ << >> \in Seq(Handlers)
  BY DEF Handlers
<1>2. CASE stop_
  BY <1>2 DEF stop
<1>3. CASE ~stop_
  <2> DEFINE a == IF wait # None THEN <<"on_timer_aborted">> ELSE << >>
             b == IF sigwait THEN <<"on_signal_aborted">> ELSE << >>
  <2>1. stop_' = TRUE /\ strand' = (q \o a) \o b
    BY <1>3 DEF stop
  <2>2. a \in Seq(Handlers) /\ b \in Seq(Handlers)
    BY <1>1
  <2> HIDE DEF a, b
  <2>3. (q \o a) \o b \in Seq(Handlers)
    BY <2>2
  <2> QED
    BY <2>1, <2>3
<1> QED
  BY <1>2, <1>3

\* No step of the start, of the server or of its environment deafens it.
LEMMA NextHeard == Ready /\ Heard /\ stop_ \in BOOLEAN /\ [NextP]_pvars => Heard'
<1> SUFFICES ASSUME Ready, Heard, stop_ \in BOOLEAN, [NextP]_pvars PROVE Heard'
  OBVIOUS
<1>h. Handlers = {"shutdown", "stop", "on_timer", "on_timer_aborted",
                  "on_signal", "on_signal_aborted"}
  BY DEF Handlers
<1>1. ASSUME UNCHANGED vars PROVE Heard'
  BY <1>1 DEF vars, Heard, Listening
<1>2. ASSUME run PROVE Heard'
  BY <1>2, WaitListens DEF run, Heard
<1>3. ASSUME Signal PROVE Heard'
  <2>1. CASE sigwait
    <3>1. strand' = Append(strand, "on_signal") /\ strand \in Seq(Handlers)
      BY <1>3, <2>1 DEF Signal, Heard
    <3>2. "on_signal" \in Handlers
      BY <1>h
    <3>3. /\ strand' \in Seq(Handlers)
          /\ \E k \in DOMAIN strand' : strand'[k] = "on_signal"
      BY <3>1, <3>2, AppendKeeps
    <3> QED
      BY <3>3 DEF Heard, Listening
  <2>2. CASE ~sigwait
    BY <1>3, <2>2 DEF Signal, Heard, Listening
  <2> QED
    BY <2>1, <2>2
<1>4. ASSUME NEW f \in {"shutdown", "stop"}, Call(f) PROVE Heard'
  BY <1>4, <1>h, AppendKeeps DEF Call, Heard, Listening
<1>5. ASSUME TimerExpires PROVE Heard'
  BY <1>5, <1>h, AppendKeeps DEF TimerExpires, Heard, Listening
<1>6. ASSUME Tick \/ WorkEnds PROVE Heard'
  BY <1>6 DEF Tick, WorkEnds, Heard, Listening
<1>7. ASSUME StopServices \/ Exit PROVE Heard'
  BY <1>7 DEF StopServices, Exit, Heard, Listening
<1>8. ASSUME RunShutdown \/ Aborted PROVE Heard'
  <2>1. /\ strand # << >> /\ Head(strand) # "on_signal"
        /\ strand' = Tail(strand)
        /\ UNCHANGED <<main, sigwait, stop_>>
    BY <1>8 DEF RunShutdown, Aborted, Run
  <2> QED
    BY <2>1, TailKeeps DEF Heard, Listening
<1>9. ASSUME RunStop PROVE Heard'
  <2>1. strand # << >> /\ Tail(strand) \in Seq(Handlers) /\ stop(Tail(strand))
    BY <1>9, TailKeeps DEF RunStop, Run, Heard
  <2> QED
    BY <2>1, StopStops DEF Heard
<1>10. ASSUME on_timer PROVE Heard'
  <2>1. /\ strand # << >> /\ Head(strand) # "on_signal"
        /\ Tail(strand) \in Seq(Handlers)
    BY <1>10, TailKeeps DEF on_timer, Run, Heard
  <2>2. CASE CeilSeconds(left) <= 0
    BY <1>10, <2>1, <2>2, StopStops DEF on_timer, Heard
  <2>3. CASE ~(CeilSeconds(left) <= 0)
    <3>1. strand' = Tail(strand) /\ UNCHANGED <<main, sigwait, stop_>>
      BY <1>10, <2>3 DEF on_timer
    <3> QED
      BY <2>1, <3>1, TailKeeps DEF Heard, Listening
  <2> QED
    BY <2>2, <2>3
<1>11. ASSUME on_signal PROVE Heard'
  <2>1. strand # << >> /\ Tail(strand) \in Seq(Handlers)
    BY <1>11, TailKeeps DEF on_signal, Run, Heard
  <2>2. CASE ~armed
    BY <1>11, <2>1, <2>2, WaitListens DEF on_signal, Heard
  <2>3. CASE armed
    BY <1>11, <2>1, <2>3, StopStops DEF on_signal, Heard
  <2> QED
    BY <2>2, <2>3
<1> QED
  <2>1. ASSUME Start PROVE Heard'
    BY <2>1, <1>1, <1>2 DEF Start, main_arguments, parse_file, open, server_config,
      server_impl, make_services, run_listener, main_run
  <2>2. ASSUME HandleP PROVE Heard'
    BY <2>2, <1>8, <1>9, <1>10, <1>11 DEF HandleP, Handle
  <2>3. ASSUME UNCHANGED pvars PROVE Heard'
    BY <2>3, <1>1 DEF pvars
  <2> QED
    BY <2>1, <2>2, <2>3, <1>3, <1>4, <1>5, <1>6, <1>7 DEF NextP

\* stop_ is only ever set.
LEMMA StopBoolean == stop_ \in BOOLEAN /\ [NextP]_pvars => (stop_ \in BOOLEAN)'
<1> SUFFICES ASSUME stop_ \in BOOLEAN, [NextP]_pvars PROVE stop_' \in {stop_, TRUE}
  OBVIOUS
<1>1. ASSUME UNCHANGED vars \/ run \/ Signal \/ Tick \/ TimerExpires \/ StopServices
             \/ WorkEnds \/ Exit \/ \E f \in {"shutdown", "stop"} : Call(f)
      PROVE  stop_' = stop_
  BY <1>1 DEF vars, run, Signal, Tick, TimerExpires, StopServices, WorkEnds, Exit, Call
<1>2. ASSUME Start PROVE stop_' = stop_
  BY <1>1, <1>2 DEF Start, main_arguments, parse_file, open, server_config,
    server_impl, make_services, run_listener, main_run
<1>3. ASSUME Handle PROVE stop_' \in {stop_, TRUE}
  BY <1>3 DEF Handle, RunShutdown, RunStop, on_timer, Aborted, on_signal, stop
<1> QED
  BY <1>1, <1>2, <1>3 DEF NextP, HandleP, pvars

\* While the server runs, a signal is heard: by the wait of run, by the one that
\* on_signal starts after the first signal, or by a handler on its way.
THEOREM SignalHeardHolds == SpecP => []SignalHeard
<1>1. InitP => Heard /\ stop_ \in BOOLEAN
  <2>1. << >> \in Seq(Handlers)
    OBVIOUS
  <2> QED
    BY <2>1 DEF InitP, Init, Heard
<1>2. Heard => SignalHeard
  BY DEF Heard, SignalHeard, Listening
<1> QED
  BY <1>1, <1>2, InitReady, NextReady, NextHeard, StopBoolean, PTL DEF SpecP

-----------------------------------------------------------------------------
\* An on_timer waits for its turn on the strand.
Due(q) == \E k \in DOMAIN q : q[k] = "on_timer"

\* No two of them do.
Single(q) ==
    \A j, k \in DOMAIN q : q[j] = "on_timer" /\ q[k] = "on_timer" => j = k

\* From q the strand comes to p without another on_timer.
Calm(q, p) ==
    /\ p \in Seq(Handlers)
    /\ Due(p) => Due(q)
    /\ Single(q) => Single(p)

\* Adding a handler other than on_timer adds no on_timer.
LEMMA AppendCalm ==
    ASSUME NEW q \in Seq(Handlers), NEW h \in Handlers, h # "on_timer"
    PROVE  Calm(q, Append(q, h))
<1> DEFINE p == Append(q, h)
<1>1. /\ p \in Seq(Handlers)
      /\ DOMAIN p = 1 .. Len(q) + 1 /\ DOMAIN q = 1 .. Len(q) /\ Len(q) \in Nat
      /\ p[Len(q) + 1] = h
      /\ \A k \in 1 .. Len(q) : p[k] = q[k]
  OBVIOUS
<1> HIDE DEF p
<1>2. ASSUME NEW k \in DOMAIN p, p[k] = "on_timer" PROVE k \in DOMAIN q /\ q[k] = "on_timer"
  <2>1. k # Len(q) + 1
    BY <1>1, <1>2
  <2> QED
    BY <1>1, <1>2, <2>1
<1>3. Due(p) => Due(q)
  BY <1>2 DEF Due
<1>4. Single(q) => Single(p)
  BY <1>2 DEF Single
<1> QED
  BY <1>1, <1>3, <1>4 DEF Calm, p

\* Nor does running one, and when it was the on_timer none is left.
LEMMA TailCalm ==
    ASSUME NEW q \in Seq(Handlers), q # << >>
    PROVE  /\ Calm(q, Tail(q))
           /\ Single(q) /\ Head(q) = "on_timer" => ~Due(Tail(q))
<1> DEFINE p == Tail(q)
<1>1. /\ p \in Seq(Handlers)
      /\ DOMAIN p = 1 .. Len(q) - 1 /\ DOMAIN q = 1 .. Len(q) /\ Len(q) \in Nat /\ Len(q) > 0
      /\ \A k \in 1 .. Len(q) - 1 : p[k] = q[k + 1]
      /\ Head(q) = q[1]
  OBVIOUS
<1> HIDE DEF p
<1>2. ASSUME NEW k \in DOMAIN p
      PROVE  k \in Nat /\ k > 0 /\ k + 1 \in DOMAIN q /\ p[k] = q[k + 1]
  BY <1>1
<1>3. Due(p) => Due(q)
  BY <1>2 DEF Due
<1>4. ASSUME Single(q), NEW j \in DOMAIN p, NEW k \in DOMAIN p,
             p[j] = "on_timer", p[k] = "on_timer"
      PROVE  j = k
  <2>1. j + 1 = k + 1
    BY <1>2, <1>4 DEF Single
  <2> QED
    BY <1>2, <2>1
<1>5. ASSUME Single(q), Head(q) = "on_timer", NEW k \in DOMAIN p, p[k] = "on_timer"
      PROVE  FALSE
  <2>1. 1 \in DOMAIN q /\ q[1] = "on_timer"
    BY <1>1, <1>5
  <2>2. k + 1 = 1
    BY <1>2, <1>5, <2>1 DEF Single
  <2> QED
    BY <1>2, <2>2
<1>6. Single(q) => Single(p)
  BY <1>4 DEF Single
<1>7. Single(q) /\ Head(q) = "on_timer" => ~Due(p)
  BY <1>5 DEF Due
<1> QED
  BY <1>1, <1>3, <1>6, <1>7 DEF Calm, p

\* One calm change after another is a calm change.
LEMMA CalmCalm ==
    ASSUME NEW q, NEW p, NEW r, Calm(q, p), Calm(p, r) PROVE Calm(q, r)
BY DEF Calm

\* stop puts at most the cancelled waits on the strand.
LEMMA StopCalm ==
    ASSUME NEW q \in Seq(Handlers), stop(q)
    PROVE  Calm(q, strand') /\ wait' \in {wait, None} /\ stop_' \in {stop_, TRUE}
<1> DEFINE t == "on_timer_aborted"
           s == "on_signal_aborted"
<1>1. t \in Handlers /\ s \in Handlers /\ t # "on_timer" /\ s # "on_timer"
  BY DEF Handlers
<1> HIDE DEF t, s
<1>2. Calm(q, q)
  BY DEF Calm
<1>3. Calm(q, Append(q, t)) /\ Calm(q, Append(q, s))
  BY <1>1, AppendCalm
<1>4. Calm(q, Append(Append(q, t), s))
  <2>1. Append(q, t) \in Seq(Handlers)
    BY <1>1
  <2>2. Calm(Append(q, t), Append(Append(q, t), s))
    BY <1>1, <2>1, AppendCalm
  <2> QED
    BY <1>3, <2>2, CalmCalm
<1>5. CASE stop_
  BY <1>2, <1>5 DEF stop
<1>6. CASE ~stop_
  <2> DEFINE a == IF wait # None THEN <<t>> ELSE << >>
             b == IF sigwait THEN <<s>> ELSE << >>
  <2>1. stop_' = TRUE /\ wait' = None /\ strand' = (q \o a) \o b
    BY <1>6 DEF stop, t, s
  <2>2. a \in {<<t>>, << >>} /\ b \in {<<s>>, << >>}
    OBVIOUS
  <2> HIDE DEF a, b
  <2>3. ASSUME NEW p \in Seq(Handlers), NEW h \in Handlers
        PROVE  p \o << >> = p /\ p \o <<h>> = Append(p, h) /\ Append(p, h) \in Seq(Handlers)
    OBVIOUS
  <2>4. q \o a \in {q, Append(q, t)} /\ q \o a \in Seq(Handlers)
    BY <1>1, <2>2, <2>3
  <2>5. (q \o a) \o b \in {q \o a, Append(q \o a, s)}
    BY <1>1, <2>2, <2>3, <2>4
  <2>6. Calm(q, (q \o a) \o b)
    BY <1>2, <1>3, <1>4, <2>4, <2>5
  <2> QED
    BY <2>1, <2>6
<1> QED
  BY <1>5, <1>6

-----------------------------------------------------------------------------
\* The seconds announced are those that remain, rounded up.
LEMMA CeilRounds ==
    ASSUME NEW d \in Int
    PROVE  /\ CeilSeconds(d) \in Int
           /\ CeilSeconds(d) * TicksPerSecond >= d
           /\ (CeilSeconds(d) - 1) * TicksPerSecond < d
<1> DEFINE e == (-d) \div TicksPerSecond
<1>1. TicksPerSecond \in Nat /\ TicksPerSecond > 0 /\ -d \in Int
  BY ClockAssumption
<1>2. e \in Int /\ TicksPerSecond * e <= -d /\ -d < TicksPerSecond * e + TicksPerSecond
  BY <1>1
<1>3. CeilSeconds(d) = -e
  BY DEF CeilSeconds
<1> HIDE DEF e
<1>4. (-e) * TicksPerSecond = -(TicksPerSecond * e)
  BY <1>1, <1>2
<1>5. (-e - 1) * TicksPerSecond = -(TicksPerSecond * e) - TicksPerSecond
  BY <1>1, <1>2
<1>6. TicksPerSecond * e \in Int
  BY <1>1, <1>2
<1> QED
  BY <1>1, <1>2, <1>3, <1>4, <1>5, <1>6

\* Rounding up keeps a whole number of seconds, is monotone, and comes to
\* nothing only when nothing remains.
LEMMA CeilFacts ==
    ASSUME NEW d \in Int, NEW n \in Int
    PROVE  /\ d = n * TicksPerSecond => CeilSeconds(d) = n
           /\ d <= n * TicksPerSecond => CeilSeconds(d) <= n
           /\ CeilSeconds(d) <= 0 => d <= 0
<1> DEFINE c == CeilSeconds(d)
<1>1. TicksPerSecond \in Nat /\ TicksPerSecond > 0
  BY ClockAssumption
<1>2. c \in Int /\ c * TicksPerSecond >= d /\ (c - 1) * TicksPerSecond < d
  BY CeilRounds
<1> HIDE DEF c
<1>3. d <= n * TicksPerSecond => c <= n
  <2>1. ASSUME d <= n * TicksPerSecond PROVE (c - 1) * TicksPerSecond < n * TicksPerSecond
    BY <1>1, <1>2, <2>1
  <2>2. (c - 1) * TicksPerSecond < n * TicksPerSecond => c - 1 < n
    BY <1>1, <1>2
  <2> QED
    BY <1>2, <2>1, <2>2
<1>4. n * TicksPerSecond <= c * TicksPerSecond => n <= c
  BY <1>1, <1>2
<1>5. c <= 0 => c * TicksPerSecond <= 0
  BY <1>1, <1>2
<1>6. c * TicksPerSecond \in Int
  BY <1>1, <1>2
<1> QED
  BY <1>2, <1>3, <1>4, <1>5, <1>6 DEF c

-----------------------------------------------------------------------------
\* The seconds the users heard last
Announced == said[Len(said)]

CountTypes ==
    /\ strand \in Seq(Handlers)
    /\ left \in Int
    /\ wait \in Int /\ wait >= None
    /\ armed \in BOOLEAN
    /\ said \in Seq(1 .. Cooldown)

\* Before shutdown nothing counts: no deadline, no announcement, no wait.
Idle ==
    ~armed => left = Never /\ said = << >> /\ wait = None /\ ~Due(strand)

\* After it there is a deadline, and every wait was chosen so that when it ends
\* a whole second less remains than was announced.
Counting ==
    armed =>
        /\ said # << >>
        /\ left <= Cooldown * TicksPerSecond
        /\ wait # None => left <= (Announced - 1) * TicksPerSecond + wait
        /\ Due(strand) => wait = None /\ left <= (Announced - 1) * TicksPerSecond

CountInv == CountTypes /\ Idle /\ Counting /\ Single(strand)

\* What a step may do to the countdown.  Nothing, but cancel a wait:
Quiet ==
    /\ UNCHANGED <<left, armed, said>>
    /\ wait' \in {wait, None}
    /\ Calm(strand, strand')

\* the first call of shutdown:
Begins ==
    /\ ~armed /\ armed' = TRUE
    /\ left' = Cooldown * TicksPerSecond
    /\ said' = Append(said, Cooldown)
    /\ wait' = AtMost(Cooldown, Chunk) * TicksPerSecond
    /\ Calm(strand, strand')

\* an on_timer before the deadline:
Announces ==
    /\ Run("on_timer")
    /\ strand' = Tail(strand)
    /\ CeilSeconds(left) > 0
    /\ announce(CeilSeconds(left))
    /\ UNCHANGED left

\* shutdown counts from the beginning, once.
LEMMA ShutdownBegins ==
    ASSUME CountTypes, shutdown, Calm(strand, strand') PROVE Quiet \/ Begins
<1>1. Cooldown \in Int /\ Cooldown * TicksPerSecond \in Int
  BY ClockAssumption
<1>2. CeilSeconds(Cooldown * TicksPerSecond) = Cooldown
  BY <1>1, CeilFacts
<1>3. CASE armed
  BY <1>3 DEF shutdown, timers, Quiet
<1>4. CASE ~armed
  BY <1>2, <1>4 DEF shutdown, announce, Begins
<1> QED
  BY <1>3, <1>4

\* Waiting for signals does not touch the countdown.
LEMMA WaitCalm ==
    ASSUME NEW q \in Seq(Handlers), signals_async_wait(q) PROVE Calm(q, strand')
<1>1. "on_signal" \in Handlers
  BY DEF Handlers
<1>2. strand' \in {q, Append(q, "on_signal")}
  BY DEF signals_async_wait
<1>3. Calm(q, q)
  BY DEF Calm
<1> QED
  BY <1>1, <1>2, <1>3, AppendCalm

\* Nothing else happens to a countdown.  Only handlers set stop_, and on_timer
\* does so only when no second remains.
LEMMA CountSteps ==
    ASSUME CountTypes, [NextP]_pvars
    PROVE  /\ Quiet \/ Begins \/ Announces \/ Tick \/ TimerExpires
           /\ Quiet \/ UNCHANGED stop_
           /\ stop_' \in {stop_, TRUE}
           /\ stop_' # stop_ /\ Head(strand) = "on_timer" => CeilSeconds(left) <= 0
<1> DEFINE Goal ==
             /\ Quiet \/ Begins \/ Announces \/ Tick \/ TimerExpires
             /\ Quiet \/ UNCHANGED stop_
             /\ stop_' \in {stop_, TRUE}
             /\ stop_' # stop_ /\ Head(strand) = "on_timer" => CeilSeconds(left) <= 0
<1>s. Calm(strand, strand) /\ strand \in Seq(Handlers)
  BY DEF Calm, CountTypes
<1>h. {"on_signal", "shutdown", "stop"} \subseteq Handlers
  BY DEF Handlers
<1>1. ASSUME UNCHANGED vars \/ StopServices \/ WorkEnds \/ Exit PROVE Goal
  BY <1>1, <1>s DEF vars, timers, StopServices, WorkEnds, Exit, Quiet
<1>2. ASSUME run PROVE Goal
  BY <1>2, <1>s, WaitCalm DEF run, timers, Quiet
<1>3. ASSUME Signal PROVE Goal
  <2>1. strand' \in {strand, Append(strand, "on_signal")}
    BY <1>3 DEF Signal
  <2>2. Calm(strand, strand')
    BY <2>1, <1>s, <1>h, AppendCalm
  <2> QED
    BY <1>3, <2>2 DEF Signal, timers, Quiet
<1>4. ASSUME NEW f \in {"shutdown", "stop"}, Call(f) PROVE Goal
  <2>1. Calm(strand, strand')
    BY <1>4, <1>s, <1>h, AppendCalm DEF Call
  <2> QED
    BY <1>4, <2>1 DEF Call, timers, Quiet
<1>5. ASSUME Tick \/ TimerExpires PROVE Goal
  BY <1>5 DEF Tick, TimerExpires
<1>6. ASSUME strand # << >> PROVE Tail(strand) \in Seq(Handlers) /\ Calm(strand, Tail(strand))
  BY <1>6, <1>s, TailCalm DEF Calm
<1>7. ASSUME RunShutdown PROVE Goal
  <2>1. Calm(strand, strand') /\ shutdown /\ UNCHANGED stop_
    BY <1>6, <1>7 DEF RunShutdown, Run
  <2> QED
    BY <2>1, ShutdownBegins
<1>8. ASSUME Aborted PROVE Goal
  <2>1. Calm(strand, strand') /\ UNCHANGED timers /\ UNCHANGED stop_
    BY <1>6, <1>8 DEF Aborted, Run
  <2> QED
    BY <2>1 DEF timers, Quiet
<1>9. ASSUME strand # << >>, stop(Tail(strand)), UNCHANGED <<left, armed, said>>
      PROVE  Quiet /\ stop_' \in {stop_, TRUE}
  BY <1>6, <1>9, StopCalm, CalmCalm DEF Quiet
<1>10. ASSUME RunStop PROVE Goal
  <2>1. strand # << >> /\ Head(strand) = "stop" /\ stop(Tail(strand)) /\ UNCHANGED <<left, armed, said>>
    BY <1>10 DEF RunStop, Run
  <2> QED
    BY <2>1, <1>9
<1>11. ASSUME on_timer PROVE Goal
  <2>1. strand # << >> /\ Run("on_timer") /\ UNCHANGED left
    BY <1>11 DEF on_timer, Run
  <2>2. CASE CeilSeconds(left) <= 0
    <3>1. stop(Tail(strand)) /\ UNCHANGED <<left, armed, said>>
      BY <1>11, <2>2 DEF on_timer
    <3> QED
      BY <2>1, <2>2, <3>1, <1>9
  <2>3. CASE ~(CeilSeconds(left) <= 0)
    <3>1. announce(CeilSeconds(left)) /\ strand' = Tail(strand) /\ UNCHANGED stop_
      BY <1>11, <2>3 DEF on_timer
    <3>2. left \in Int
      BY DEF CountTypes
    <3>3. CeilSeconds(left) > 0
      BY <2>3, <3>2, CeilRounds
    <3> QED
      BY <2>1, <3>1, <3>3 DEF Announces
  <2> QED
    BY <2>2, <2>3
<1>12. ASSUME on_signal PROVE Goal
  <2>1. strand # << >> /\ Head(strand) = "on_signal"
    BY <1>12 DEF on_signal, Run
  <2>2. CASE ~armed
    <3>1. signals_async_wait(Tail(strand)) /\ shutdown /\ UNCHANGED stop_
      BY <1>12, <2>2 DEF on_signal
    <3>2. Calm(strand, strand')
      BY <2>1, <3>1, <1>6, WaitCalm, CalmCalm
    <3> QED
      BY <3>1, <3>2, ShutdownBegins
  <2>3. CASE armed
    <3>1. stop(Tail(strand)) /\ UNCHANGED <<left, armed, said>>
      BY <1>12, <2>3 DEF on_signal
    <3> QED
      BY <2>1, <3>1, <1>9
  <2> QED
    BY <2>2, <2>3
<1> HIDE DEF Goal
<1>13. ASSUME Start PROVE Goal
  BY <1>13, <1>1, <1>2 DEF Start, main_arguments, parse_file, open, server_config,
    server_impl, make_services, run_listener, main_run
<1>14. ASSUME HandleP PROVE Goal
  BY <1>14, <1>7, <1>8, <1>10, <1>11, <1>12 DEF HandleP, Handle
<1>15. ASSUME UNCHANGED pvars PROVE Goal
  BY <1>15, <1>1 DEF pvars
<1>16. Goal
  BY <1>1, <1>3, <1>4, <1>5, <1>13, <1>14, <1>15 DEF NextP
<1> QED
  BY <1>16 DEF Goal

\* Announcing n >= 1 seconds when at most n remain: the wait that follows lasts
\* a second or more, and so ends with at most n - 1 remaining.
LEMMA WaitLongEnough ==
    ASSUME NEW n \in Int, n > 0, NEW d \in Int, d <= n * TicksPerSecond
    PROVE  /\ AtMost(n, Chunk) * TicksPerSecond \in Int
           /\ AtMost(n, Chunk) * TicksPerSecond > None
           /\ d <= (n - 1) * TicksPerSecond + AtMost(n, Chunk) * TicksPerSecond
<1>1. TicksPerSecond \in Nat /\ TicksPerSecond > 0 /\ Chunk \in Nat /\ Chunk > 0
  BY ClockAssumption
<1>2. AtMost(n, Chunk) \in Int /\ AtMost(n, Chunk) >= 1
  BY <1>1 DEF AtMost
<1>3. AtMost(n, Chunk) * TicksPerSecond \in Int
      /\ AtMost(n, Chunk) * TicksPerSecond >= TicksPerSecond
  BY <1>1, <1>2
<1>4. (n - 1) * TicksPerSecond = n * TicksPerSecond - TicksPerSecond
      /\ n * TicksPerSecond \in Int
  BY <1>1
<1> QED
  BY <1>1, <1>3, <1>4 DEF None

\* The last element of a sequence, and of a longer one
LEMMA LastOf ==
    ASSUME NEW S, NEW s \in Seq(S)
    PROVE  /\ s # << >> => s[Len(s)] \in S
           /\ \A n \in S : /\ Append(s, n) \in Seq(S)
                           /\ Append(s, n) # << >>
                           /\ Append(s, n)[Len(Append(s, n))] = n
<1>1. ASSUME s # << >> PROVE s[Len(s)] \in S
  <2>1. Len(s) \in Nat /\ Len(s) > 0
    BY <1>1
  <2>2. Len(s) \in 1 .. Len(s)
    BY <2>1
  <2> QED
    BY <2>2
<1>2. ASSUME NEW n \in S
      PROVE  /\ Append(s, n) \in Seq(S)
             /\ Append(s, n) # << >>
             /\ Append(s, n)[Len(Append(s, n))] = n
  <2>1. Append(s, n) \in Seq(S) /\ Len(Append(s, n)) = Len(s) + 1 /\ Append(s, n)[Len(s) + 1] = n
    OBVIOUS
  <2>2. Append(s, n) # << >>
    BY <2>1
  <2> QED
    BY <2>1, <2>2
<1> QED
  BY <1>1, <1>2

\* An on_timer that announces has at most the seconds announced last, less one.
LEMMA AnnouncesLess ==
    ASSUME CountInv, Announces
    PROVE  /\ armed /\ said # << >> /\ Announced \in 1 .. Cooldown
           /\ CeilSeconds(left) \in 1 .. Announced - 1
           /\ CeilSeconds(left) * TicksPerSecond >= left
<1>1. strand # << >> /\ Head(strand) = "on_timer" /\ strand \in Seq(Handlers)
  BY DEF Announces, Run, CountInv, CountTypes
<1>2. Due(strand)
  <2>1. 1 \in DOMAIN strand /\ strand[1] = Head(strand)
    BY <1>1
  <2> QED
    BY <1>1, <2>1 DEF Due
<1>3. armed /\ said # << >> /\ left <= (Announced - 1) * TicksPerSecond
  BY <1>2 DEF CountInv, Idle, Counting, CountTypes
<1>4. Announced \in 1 .. Cooldown
  BY <1>3, LastOf DEF Announced, CountInv, CountTypes
<1>5. left \in Int /\ Announced - 1 \in Int
  BY <1>4, ClockAssumption DEF CountInv, CountTypes
<1>6. CeilSeconds(left) \in Int /\ CeilSeconds(left) * TicksPerSecond >= left
  BY <1>5, CeilRounds
<1>7. CeilSeconds(left) <= Announced - 1
  BY <1>3, <1>5, CeilFacts
<1> QED
  BY <1>3, <1>4, <1>5, <1>6, <1>7 DEF Announces

\* Nothing counts when the program begins.
LEMMA InitCount == InitP => CountInv
<1>1. << >> \in Seq(Handlers) /\ << >> \in Seq(1 .. Cooldown)
  OBVIOUS
<1>2. Never \in Int
  BY ClockAssumption DEF Never
<1>3. ~Due(<< >>) /\ Single(<< >>)
  BY DEF Due, Single
<1> SUFFICES ASSUME InitP PROVE CountInv
  OBVIOUS
<1>4. /\ strand = << >> /\ left = Never /\ wait = -1 /\ ~armed /\ armed \in BOOLEAN
      /\ said = << >>
  BY DEF InitP, Init, None
<1>5. CountTypes
  BY <1>1, <1>2, <1>4 DEF CountTypes, None
<1> QED
  BY <1>3, <1>4, <1>5 DEF CountInv, Idle, Counting, None

\* Every step leaves the waits and the announcements matched.
LEMMA NextCount == CountInv /\ [NextP]_pvars => CountInv'
<1> SUFFICES ASSUME CountInv, [NextP]_pvars PROVE CountInv'
  OBVIOUS
<1>t. CountTypes /\ Single(strand)
  BY DEF CountInv
<1>c. TicksPerSecond \in Nat /\ TicksPerSecond > 0 /\ Cooldown \in Nat /\ Cooldown > 0
      /\ Cooldown * TicksPerSecond \in Nat /\ Cooldown * TicksPerSecond # Never
      /\ Cooldown \in 1 .. Cooldown
  BY ClockAssumption DEF Never
<1>a. armed => Announced \in 1 .. Cooldown /\ (Announced - 1) * TicksPerSecond \in Nat
  <2> SUFFICES ASSUME armed PROVE Announced \in 1 .. Cooldown /\ (Announced - 1) * TicksPerSecond \in Nat
    OBVIOUS
  <2>1. said # << >> /\ said \in Seq(1 .. Cooldown)
    BY DEF CountInv, Counting, CountTypes
  <2>2. Announced \in 1 .. Cooldown
    BY <2>1, LastOf DEF Announced
  <2>3. Announced - 1 \in Nat
    BY <1>c, <2>2
  <2> QED
    BY <1>c, <2>2, <2>3
<1>1. ASSUME Quiet PROVE CountInv'
  <2>1. UNCHANGED <<left, armed, said>> /\ wait' \in {wait, None} /\ Announced' = Announced
    BY <1>1 DEF Quiet, Announced
  <2>2. strand' \in Seq(Handlers) /\ (Due(strand') => Due(strand)) /\ Single(strand')
    BY <1>1, <1>t DEF Quiet, Calm
  <2>3. CountTypes'
    BY <2>1, <2>2, <1>t DEF CountTypes, None
  <2>4. Idle'
    BY <2>1, <2>2 DEF CountInv, Idle
  <2>5. Counting'
    BY <2>1, <2>2 DEF CountInv, Counting
  <2> QED
    BY <2>2, <2>3, <2>4, <2>5 DEF CountInv
<1>2. ASSUME Begins PROVE CountInv'
  <2>1. ~armed /\ armed' /\ said = << >> /\ ~Due(strand)
    BY <1>2 DEF Begins, CountInv, Idle
  <2>2. strand' \in Seq(Handlers) /\ ~Due(strand') /\ Single(strand')
    BY <1>2, <1>t, <2>1 DEF Begins, Calm
  <2>3. said' \in Seq(1 .. Cooldown) /\ said' # << >> /\ Announced' = Cooldown
    BY <1>2, <1>t, <1>c, LastOf DEF Begins, CountTypes, Announced
  <2>4. wait' = AtMost(Cooldown, Chunk) * TicksPerSecond
        /\ left' = Cooldown * TicksPerSecond
    BY <1>2 DEF Begins
  <2>5. wait' \in Int /\ wait' > None /\ left' <= (Cooldown - 1) * TicksPerSecond + wait'
    BY <2>4, <1>c, WaitLongEnough
  <2>6. CountTypes'
    BY <1>2, <1>c, <2>2, <2>3, <2>4, <2>5 DEF Begins, CountTypes, None
  <2>7. Counting'
    BY <1>c, <2>2, <2>3, <2>4, <2>5 DEF Counting
  <2> QED
    BY <2>1, <2>2, <2>6, <2>7 DEF CountInv, Idle
<1>3. ASSUME Announces PROVE CountInv'
  <2> DEFINE n == CeilSeconds(left)
  <2>1. armed /\ Announced \in 1 .. Cooldown /\ n \in 1 .. Announced - 1
        /\ n * TicksPerSecond >= left
    BY <1>3, AnnouncesLess
  <2>2. /\ strand # << >> /\ Head(strand) = "on_timer" /\ strand' = Tail(strand)
        /\ said' = Append(said, n) /\ armed' = TRUE /\ left' = left
        /\ wait' = AtMost(n, Chunk) * TicksPerSecond
    BY <1>3 DEF Announces, Run, announce
  <2> HIDE DEF n
  <2>3. strand' \in Seq(Handlers) /\ ~Due(strand') /\ Single(strand')
    BY <2>2, <1>t, TailCalm DEF Calm, CountTypes
  <2>4. n \in 1 .. Cooldown /\ n > 0 /\ left \in Int
    BY <1>c, <1>t, <2>1 DEF CountTypes
  <2>5. said' \in Seq(1 .. Cooldown) /\ said' # << >> /\ Announced' = n
    BY <2>2, <2>4, <1>t, LastOf DEF CountTypes, Announced
  <2>6. wait' \in Int /\ wait' > None /\ left' <= (n - 1) * TicksPerSecond + wait'
    BY <2>1, <2>2, <2>4, WaitLongEnough
  <2>7. CountTypes'
    BY <2>2, <2>3, <2>4, <2>5, <2>6 DEF CountTypes, None
  <2>8. left' <= Cooldown * TicksPerSecond
    BY <2>1, <2>2 DEF CountInv, Counting
  <2>9. Counting'
    BY <2>3, <2>5, <2>6, <2>8 DEF Counting
  <2> QED
    BY <2>2, <2>3, <2>7, <2>9 DEF CountInv, Idle
<1>4. ASSUME Tick PROVE CountInv'
  <2>1. UNCHANGED <<strand, armed, said>> /\ Announced' = Announced
    BY <1>4 DEF Tick, Announced
  <2>2. left \in Int /\ wait \in Int /\ wait >= -1
    BY <1>t DEF CountTypes, None
  <2>3. CASE ~armed
    <3>1. left = Never /\ wait = -1
      BY <2>3 DEF CountInv, Idle, None
    <3> QED
      BY <1>4, <3>1 DEF Tick
  <2>4. CASE armed
    <3>1. MaxLate \in Nat /\ left # Never /\ left <= Cooldown * TicksPerSecond
      BY <2>4, <1>c, <2>2, BoundsAssumption DEF CountInv, Counting, Never
    <3>2. /\ left' = IF left > -MaxLate THEN left - 1 ELSE left
          /\ wait' = IF wait > 0 THEN wait - 1 ELSE wait
      BY <1>4, <3>1 DEF Tick
    <3>3. left' \in Int /\ left' <= left
      BY <2>2, <3>1, <3>2
    <3>4. wait' \in Int /\ wait' >= -1 /\ (wait' = -1 <=> wait = -1)
      BY <2>2, <3>2
    <3>5. CountTypes'
      BY <1>t, <2>1, <3>3, <3>4 DEF CountTypes, None
    <3>6. ASSUME wait # -1 PROVE left' <= (Announced - 1) * TicksPerSecond + wait'
      <4> DEFINE a == (Announced - 1) * TicksPerSecond
      <4>1. a \in Nat /\ left <= a + wait
        BY <1>a, <2>4, <3>6 DEF CountInv, Counting, None
      <4> HIDE DEF a
      <4>2. left' <= a + wait'
        BY <2>2, <3>1, <3>2, <3>6, <4>1
      <4> QED
        BY <4>2 DEF a
    <3>7. ASSUME Due(strand) PROVE wait' = -1 /\ left' <= (Announced - 1) * TicksPerSecond
      <4>1. wait = -1 /\ left <= (Announced - 1) * TicksPerSecond
        BY <2>4, <3>7 DEF CountInv, Counting, None
      <4> QED
        BY <1>a, <2>2, <2>4, <3>3, <3>4, <4>1
    <3>8. left' <= Cooldown * TicksPerSecond
      BY <1>c, <2>2, <3>1, <3>3
    <3>9. said # << >>
      BY <2>4 DEF CountInv, Counting
    <3>10. Counting'
      BY <2>1, <3>4, <3>6, <3>7, <3>8, <3>9 DEF Counting, None
    <3> QED
      BY <1>t, <2>1, <2>4, <3>5, <3>10 DEF CountInv, Idle
  <2> QED
    BY <2>3, <2>4, <1>t DEF CountTypes
<1>5. ASSUME TimerExpires PROVE CountInv'
  <2>1. wait = 0 /\ wait' = None /\ strand' = Append(strand, "on_timer")
        /\ UNCHANGED <<left, armed, said>> /\ Announced' = Announced
    BY <1>5 DEF TimerExpires, Announced
  <2>2. armed /\ said # << >> /\ left <= Cooldown * TicksPerSecond /\ ~Due(strand)
        /\ left <= (Announced - 1) * TicksPerSecond + 0
    BY <1>t, <2>1 DEF CountInv, Idle, Counting, CountTypes, None
  <2>3. left <= (Announced - 1) * TicksPerSecond
    BY <1>a, <2>2
  <2>4. "on_timer" \in Handlers
    BY DEF Handlers
  <2>5. /\ strand' \in Seq(Handlers)
        /\ DOMAIN strand' = 1 .. Len(strand) + 1 /\ DOMAIN strand = 1 .. Len(strand)
        /\ \A k \in 1 .. Len(strand) : strand'[k] = strand[k]
    BY <1>t, <2>1, <2>4 DEF CountTypes
  <2>6. \A k \in DOMAIN strand' : strand'[k] = "on_timer" => k = Len(strand) + 1
    BY <2>2, <2>5 DEF Due
  <2>7. Single(strand')
    BY <2>6 DEF Single
  <2>8. CountTypes'
    BY <1>t, <2>1, <2>5 DEF CountTypes, None
  <2> QED
    BY <2>1, <2>2, <2>3, <2>7, <2>8 DEF CountInv, Idle, Counting
<1> QED
  BY <1>t, <1>1, <1>2, <1>3, <1>4, <1>5, CountSteps

-----------------------------------------------------------------------------
\* A step of the program is a step of the promised countdown, or none of it.
LEMMA CountRefines == CountInv /\ [NextP]_pvars => [CD!Begin \/ CD!Announce \/ CD!Pass \/ CD!Stop]_CD!cvars
<1> SUFFICES ASSUME CountInv, [NextP]_pvars
             PROVE  CD!Begin \/ CD!Announce \/ CD!Pass \/ CD!Stop \/ UNCHANGED CD!cvars
  OBVIOUS
<1>n. CD!Never = Never
  BY DEF CD!Never, Never
<1>c. Cooldown * TicksPerSecond \in Int
  BY ClockAssumption
<1>s. /\ Quiet \/ Begins \/ Announces \/ Tick \/ TimerExpires
      /\ Quiet \/ UNCHANGED stop_
      /\ stop_' \in {stop_, TRUE}
  BY CountSteps DEF CountInv
<1>1. ASSUME Quiet PROVE CD!Stop \/ UNCHANGED CD!cvars
  BY <1>1, <1>s DEF Quiet, CD!Stop, CD!cvars
<1>2. ASSUME Begins, UNCHANGED stop_ PROVE CD!Begin
  <2>1. left = Never /\ said = << >>
    BY <1>2 DEF Begins, CountInv, Idle
  <2>2. said' = <<Cooldown>>
    BY <1>2, <2>1 DEF Begins
  <2> QED
    BY <1>2, <1>n, <2>1, <2>2 DEF Begins, CD!Begin
<1>3. ASSUME Announces, UNCHANGED stop_ PROVE CD!Announce
  <2> DEFINE n == CeilSeconds(left)
  <2>1. armed /\ n \in 1 .. said[Len(said)] - 1 /\ n * TicksPerSecond >= left
    BY <1>3, AnnouncesLess DEF Announced
  <2>2. left # Never
    BY <1>c, <2>1 DEF CountInv, CountTypes, Counting, Never
  <2>3. said' = Append(said, n) /\ left' = left
    BY <1>3 DEF Announces, announce
  <2> HIDE DEF n
  <2> QED
    BY <1>3, <1>n, <2>1, <2>2, <2>3 DEF CD!Announce
<1>4. ASSUME Tick PROVE CD!Pass \/ UNCHANGED CD!cvars
  BY <1>4, <1>n DEF Tick, CD!Pass, CD!cvars
<1>5. ASSUME TimerExpires PROVE UNCHANGED CD!cvars
  BY <1>5 DEF TimerExpires, CD!cvars
<1> QED
  BY <1>s, <1>1, <1>2, <1>3, <1>4, <1>5

\* The countdown that the users hear is the one they are promised: begun once,
\* with one deadline, announced ever closer and never as closer than it is,
\* whatever the length of the cooldown and of the waits, and however late the
\* handlers run.
THEOREM CountdownHolds == SpecP => CountdownSpec
<1>1. InitP => CD!Init
  BY DEF InitP, Init, CD!Init, CD!Never, Never
<1> QED
  BY <1>1, InitCount, NextCount, CountRefines, PTL DEF SpecP, CountdownSpec, CD!Spec

\* The end of a countdown stops the server only when no time is left.
THEOREM GracePeriodKeptHolds == SpecP => GracePeriodKept
<1>1. CountInv /\ [NextP]_pvars =>
        [stop_' /\ ~stop_ /\ Head(strand) = "on_timer" => left <= 0]_vars
  <2> SUFFICES ASSUME CountInv, [NextP]_pvars, stop_', ~stop_, Head(strand) = "on_timer"
               PROVE  left <= 0
    OBVIOUS
  <2>1. CeilSeconds(left) <= 0
    BY CountSteps DEF CountInv
  <2> QED
    BY <2>1, CeilFacts DEF CountInv, CountTypes
<1> QED
  BY <1>1, InitCount, NextCount, PTL DEF SpecP, GracePeriodKept

-----------------------------------------------------------------------------
\* The deadline is at most MaxLate past, and a wait at most Chunk long.
Clock ==
    /\ left >= -MaxLate
    /\ wait <= Chunk * TicksPerSecond

\* The rest of the server's state.  A signal that waits to be delivered has come.
Rest ==
    /\ main \in {"new", "blocked", "joining", "exited"}
    /\ sigwait \in BOOLEAN
    /\ stop_ \in BOOLEAN
    /\ work \in BOOLEAN
    /\ undelivered \in Nat /\ undelivered <= signals
    /\ signals \in 0 .. MaxSignals
    /\ calls \in 0 .. MaxCalls

\* Time stays within its bounds.
LEMMA NextClock == CountInv /\ Clock /\ [NextP]_pvars => Clock'
<1> SUFFICES ASSUME CountInv, Clock, [NextP]_pvars PROVE Clock'
  OBVIOUS
<1>c. /\ Chunk \in Nat /\ Chunk > 0 /\ TicksPerSecond \in Nat /\ MaxLate \in Nat
      /\ Cooldown \in Nat /\ Chunk * TicksPerSecond \in Nat /\ Cooldown * TicksPerSecond \in Nat
  BY ClockAssumption, BoundsAssumption
<1>t. left \in Int /\ wait \in Int /\ wait >= -1
  BY DEF CountInv, CountTypes, None
<1>1. ASSUME NEW n \in Int, wait' = AtMost(n, Chunk) * TicksPerSecond, left' >= -MaxLate
      PROVE  Clock'
  <2>1. AtMost(n, Chunk) \in Int /\ AtMost(n, Chunk) <= Chunk
    BY <1>c DEF AtMost
  <2>2. AtMost(n, Chunk) * TicksPerSecond <= Chunk * TicksPerSecond
    BY <1>c, <2>1
  <2> QED
    BY <1>1, <2>2 DEF Clock
<1>2. ASSUME Quiet \/ TimerExpires PROVE Clock'
  BY <1>2, <1>c, <1>t DEF Quiet, TimerExpires, Clock, None
<1>3. ASSUME Begins PROVE Clock'
  BY <1>3, <1>c, <1>1 DEF Begins
<1>4. ASSUME Announces PROVE Clock'
  <2>1. CeilSeconds(left) \in Int
    BY <1>t, CeilRounds
  <2> QED
    BY <1>4, <1>1, <2>1 DEF Announces, announce, Clock
<1>5. ASSUME Tick PROVE Clock'
  BY <1>5, <1>c, <1>t DEF Tick, Clock
<1> QED
  BY <1>2, <1>3, <1>4, <1>5, CountSteps DEF CountInv

\* So do the main thread, the flags and the counters.
LEMMA NextRest == Rest /\ [NextP]_pvars => Rest'
<1> SUFFICES ASSUME Rest, [NextP]_pvars PROVE Rest'
  OBVIOUS
<1>b. MaxSignals \in Nat /\ MaxCalls \in Nat /\ undelivered \in Nat /\ signals \in Nat
  BY BoundsAssumption DEF Rest
<1>w. ASSUME NEW q, signals_async_wait(q), UNCHANGED signals
      PROVE  sigwait' \in BOOLEAN /\ undelivered' \in Nat /\ undelivered' <= signals'
  <2>1. CASE undelivered > 0
    BY <1>w, <1>b, <2>1 DEF Rest, signals_async_wait
  <2>2. CASE ~(undelivered > 0)
    BY <1>w, <1>b, <2>2 DEF Rest, signals_async_wait
  <2> QED
    BY <2>1, <2>2
<1>s. ASSUME NEW q, stop(q) PROVE stop_' \in BOOLEAN /\ sigwait' \in BOOLEAN
  BY <1>s DEF Rest, stop
<1>1. ASSUME UNCHANGED vars PROVE Rest'
  BY <1>1 DEF vars, Rest
<1>2. ASSUME run PROVE Rest'
  BY <1>2, <1>w DEF run, inputs, Rest
<1>3. ASSUME Signal PROVE Rest'
  <2>1. CASE sigwait
    <3>1. sigwait' \in BOOLEAN /\ UNCHANGED <<main, undelivered, stop_, work, calls>>
      BY <1>3, <2>1 DEF Signal
    <3>2. signals < MaxSignals /\ signals' = signals + 1
      BY <1>3 DEF Signal
    <3> QED
      BY <1>b, <3>1, <3>2 DEF Rest
  <2>2. CASE ~sigwait
    BY <1>3, <1>b, <2>2 DEF Signal, Rest
  <2> QED
    BY <2>1, <2>2
<1>4. ASSUME NEW f \in {"shutdown", "stop"}, Call(f) PROVE Rest'
  BY <1>4, <1>b DEF Call, Rest
<1>5. ASSUME Tick \/ TimerExpires PROVE Rest'
  BY <1>5 DEF Tick, TimerExpires, inputs, Rest
<1>6. ASSUME StopServices \/ WorkEnds \/ Exit PROVE Rest'
  BY <1>6 DEF StopServices, WorkEnds, Exit, inputs, Rest
<1>7. ASSUME RunShutdown \/ Aborted PROVE Rest'
  BY <1>7 DEF RunShutdown, Aborted, inputs, Rest
<1>8. ASSUME RunStop PROVE Rest'
  BY <1>8, <1>s DEF RunStop, inputs, Rest
<1>9. ASSUME on_timer PROVE Rest'
  <2>1. CASE CeilSeconds(left) <= 0
    BY <1>9, <1>s, <2>1 DEF on_timer, inputs, Rest
  <2>2. CASE ~(CeilSeconds(left) <= 0)
    BY <1>9, <2>2 DEF on_timer, inputs, Rest
  <2> QED
    BY <2>1, <2>2
<1>10. ASSUME on_signal PROVE Rest'
  <2>1. CASE ~armed
    BY <1>10, <1>w, <2>1 DEF on_signal, inputs, Rest
  <2>2. CASE armed
    BY <1>10, <1>s, <2>2 DEF on_signal, inputs, Rest
  <2> QED
    BY <2>1, <2>2
<1>11. ASSUME Start PROVE Rest'
  BY <1>11, <1>1, <1>2 DEF Start, main_arguments, parse_file, open, server_config,
    server_impl, make_services, run_listener, main_run
<1>12. ASSUME HandleP PROVE Rest'
  BY <1>12, <1>7, <1>8, <1>9, <1>10 DEF HandleP, Handle
<1>13. ASSUME UNCHANGED pvars PROVE Rest'
  BY <1>13, <1>1 DEF pvars
<1> QED
  BY <1>3, <1>4, <1>5, <1>6, <1>11, <1>12, <1>13 DEF NextP

\* The server keeps its types, through the start of the program and its end: a
\* wait is never longer than Chunk, and nothing but 1 to Cooldown is announced.
THEOREM ServerTypeOK == SpecP => []TypeOK
<1>1. InitP => Clock /\ Rest
  <2>1. Never \in Nat /\ MaxLate \in Nat /\ MaxSignals \in Nat /\ MaxCalls \in Nat
        /\ Chunk * TicksPerSecond \in Nat
    BY ClockAssumption, BoundsAssumption DEF Never
  <2> SUFFICES ASSUME InitP PROVE Clock /\ Rest
    OBVIOUS
  <2>2. Clock
    BY <2>1 DEF InitP, Init, Clock, None
  <2>3. sigwait \in BOOLEAN /\ stop_ \in BOOLEAN /\ work \in BOOLEAN
    BY DEF InitP, Init
  <2>4. main = "new" /\ undelivered = 0 /\ signals = 0 /\ calls = 0
    BY DEF InitP, Init
  <2>5. Rest
    BY <2>1, <2>3, <2>4 DEF Rest
  <2> QED
    BY <2>2, <2>5
<1>2. CountInv /\ Clock /\ Rest => TypeOK
  <2> SUFFICES ASSUME CountInv, Clock, Rest PROVE TypeOK
    OBVIOUS
  <2>1. /\ Cooldown * TicksPerSecond \in Nat /\ Chunk * TicksPerSecond \in Nat
        /\ MaxLate \in Nat /\ MaxSignals \in Nat
    BY ClockAssumption, BoundsAssumption
  <2>2. left \in Int /\ wait \in Int /\ wait >= None
    BY DEF CountInv, CountTypes
  <2>3. left <= Never
    <3>1. CASE armed
      BY <2>1, <2>2, <3>1 DEF CountInv, Counting, Never
    <3>2. CASE ~armed
      BY <2>1, <3>2 DEF CountInv, Idle, Never
    <3> QED
      BY <3>1, <3>2
  <2>4. left \in -MaxLate .. Never
    BY <2>1, <2>2, <2>3 DEF Clock, Never
  <2>5. wait \in None .. Chunk * TicksPerSecond
    BY <2>1, <2>2 DEF Clock, None
  <2>6. undelivered \in 0 .. MaxSignals
    BY <2>1 DEF Rest
  <2> QED
    BY <2>4, <2>5, <2>6 DEF CountInv, CountTypes, Rest, TypeOK
<1> QED
  BY <1>1, <1>2, InitCount, NextCount, NextClock, NextRest, PTL DEF SpecP
=============================================================================
