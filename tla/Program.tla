------------------------------ MODULE Program ------------------------------
(***************************************************************************)
(* The program from main to the end: main (server/core/main.cpp) makes    *)
(* the logger and calls make_server (server.cpp), which reads the         *)
(* configuration, opens the log, makes the server and its listeners and   *)
(* gives up at the first failure; then run, which is module Server.       *)
(*                                                                         *)
(* A configuration is what the code asks of it: each part is right or     *)
(* not.  The handlers of Server run only if the server has threads.       *)
(***************************************************************************)
EXTENDS Server

CONSTANTS
    Threads,            \* the values the configuration may have for "threads"
    NumListeners        \* how many listeners it has

ASSUME ConfigAssumption == Threads \subseteq Nat /\ NumListeners \in Nat

VARIABLES
    at,                 \* the next thing main and make_server do
    log,                \* who owns the logger
    num_threads,        \* server_config::num_threads
    seen,               \* how many listeners of the configuration were gone through
    opened              \* how many of them are open

starting == <<at, log, num_threads, seen, opened>>
pvars == <<vars, starting>>

InitP ==
    /\ Init
    /\ at = "main"
    /\ log = "main"
    /\ num_threads = 0
    /\ seen = 0
    /\ opened = 0

-----------------------------------------------------------------------------
\* One step of the start: it goes on to s, or the program ends here without a
\* server, by returning EXIT_FAILURE or by an exception that is not caught.
Try(here, s) ==
    /\ at = here
    /\ at' \in {s, "failed"}

\* main: the arguments are checked, and make_server gets the logger
main_arguments ==
    /\ Try("main", "parse_file")
    /\ log' = IF at' = "failed" THEN log ELSE "make_server"
    /\ UNCHANGED <<vars, num_threads, seen, opened>>

\* parse_file: the file is opened, measured, read and parsed
parse_file ==
    /\ Try("parse_file", "open")
    /\ UNCHANGED <<vars, log, num_threads, seen, opened>>

\* logger_config and logger::open
open ==
    /\ Try("open", "server_config")
    /\ UNCHANGED <<vars, log, num_threads, seen, opened>>

\* Faulty variant: the number is taken as it is.
server_config_threadsAny(n) == n

\* server_config: at least one thread
server_config_threads(n) == IF n < 1 THEN 1 ELSE n

\* The server's part of the configuration
server_config ==
    /\ Try("server_config", "server_impl")
    /\ \E n \in Threads : num_threads' = server_config_threads(n)
    /\ UNCHANGED <<vars, log, seen, opened>>

\* The constructor of the server takes the logger with it.  If it throws, as
\* registering the signals may, the handler of make_server reports the error
\* through the logger that it has just given away.
server_impl ==
    /\ at = "server_impl"
    /\ at' \in {"services", "crashed"}
    /\ log' = IF at' = "services" THEN "server" ELSE "nobody"
    /\ UNCHANGED <<vars, num_threads, seen, opened>>

\* make_blackjack_service, and the look at the list of listeners; without one
\* make_server ends without a word.
make_services ==
    /\ Try("services", "listeners")
    /\ UNCHANGED <<vars, log, num_threads, seen, opened>>

\* Faulty variant: the result of run_listener is ignored.
run_listenerIgnored ==
    /\ at = "listeners"
    /\ seen < NumListeners
    /\ seen' = seen + 1
    /\ at' = "listeners"
    /\ opened' \in {opened, opened + 1}
    /\ UNCHANGED <<vars, log, num_threads>>

\* listener_config and run_listener, for the next listener of the list: the
\* configuration may be wrong, the constructor and set_option may throw, and
\* opening, binding and listening may fail
run_listener ==
    /\ seen < NumListeners
    /\ seen' = seen + 1
    /\ Try("listeners", "listeners")
    /\ opened' = IF at' = "failed" THEN opened ELSE opened + 1
    /\ UNCHANGED <<vars, log, num_threads>>

\* At the end of the list make_server returns the server, and main calls run.
main_run ==
    /\ at = "listeners"
    /\ seen = NumListeners
    /\ at' = "run"
    /\ run
    /\ UNCHANGED <<log, num_threads, seen, opened>>

Start ==
    \/ main_arguments \/ parse_file \/ open \/ server_config \/ server_impl
    \/ make_services \/ run_listener \/ main_run

\* The signal set of the server catches signals from its construction on.
Made == at \in {"services", "listeners", "run"}

HandleP == num_threads > 0 /\ Handle /\ UNCHANGED starting

NextP ==
    \/ Start
    \/ Made /\ Signal /\ UNCHANGED starting
    \/ HandleP
    \/ /\ Tick \/ TimerExpires \/ StopServices \/ WorkEnds \/ Exit
          \/ \E f \in {"shutdown", "stop"} : Call(f)
       /\ UNCHANGED starting

SpecP == InitP /\ [][NextP]_pvars

\* The main thread goes on; the rest is as in Server.
FairnessP ==
    /\ WF_pvars(Start)
    /\ WF_pvars(HandleP)
    /\ WF_pvars((Tick \/ TimerExpires) /\ UNCHANGED starting)
    /\ WF_pvars(StopServices /\ UNCHANGED starting)
    /\ WF_pvars(Exit /\ UNCHANGED starting)

FairSpecP == SpecP /\ FairnessP

-----------------------------------------------------------------------------
\* A server that runs is whole: make_server hands it to main only with its log,
\* at least one thread and every listener of the configuration open, although
\* each of these is made by a step of its own that may fail.
WholeServer ==
    main # "new" => opened = NumListeners /\ log = "server" /\ num_threads > 0

\* Asked to by a signal, at any time from the construction of the server on, or
\* by a client, the server stops, if it starts at all: a signal that comes while
\* the listeners are opened is not forgotten, and whatever number of threads is
\* configured there is one that counts down.
StopsWhenAsked == (left # Never \/ signals > 0) ~> (stop_ \/ at = "failed")

\* The countdown keeps the promise made to the users.
CD == INSTANCE Countdown WITH stopped <- stop_

CountdownSpec == CD!Spec
=============================================================================
