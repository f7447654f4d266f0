-------------------------------- MODULE Rpc --------------------------------
(***************************************************************************)
(* The requests of one user: the read loop of ws_session_base             *)
(* (server/core/ws_user.cpp), rpc_call::extract and complete (rpc.cpp),   *)
(* channel_list::dispatch (channel_list.cpp), channel::dispatch           *)
(* (channel.cpp) and on_dispatch of the three channels (system.cpp,       *)
(* room.cpp, blackjack.cpp).                                              *)
(*                                                                         *)
(* A request is handled on the session's strand from its arrival to its   *)
(* reply, except that the table moves it to a strand of its own and       *)
(* replies from there.  Errors are exceptions; the read loop, or the      *)
(* table's handler, turns each rpc_error into a reply.  What else is      *)
(* thrown nobody catches, and it ends the program.                        *)
(***************************************************************************)
EXTENDS Naturals, Sequences

CONSTANT MaxRequests    \* bound: messages that are handled

ASSUME BoundAssumption == MaxRequests \in Nat \ {0}

Cids == {"system", "room", "table"}

\* What the program tells apart in a message.  An id is absent, null, a string
\* or number ("scalar"), or of another type.  "shutdown" stands for stop too,
\* "say" for slash, and "play" for every request of the table.
Ids == {"absent", "null", "scalar", "other"}
Versions == {"absent", "not_string", "2.0", "other"}
Methods == {"absent", "not_string", "join", "leave", "identify", "shutdown",
            "say", "play", "unknown"}

\* Parameters that are an object have a "cid", and a "name" or "message".  A cid
\* that is "uncast" is none that number_cast can make a number of its type from.
Args == {"absent", "not_string", "empty", "text", "too_long"}
Objects == [cid : Cids \cup {"absent", "uncast", "unknown"}, arg : Args]
NoObject == [cid |-> "absent", arg |-> "absent"]
Params == [kind : {"absent", "array", "other"}, obj : {NoObject}]
            \cup [kind : {"object"}, obj : Objects]

Requests == [kind : {"object"}, id : Ids, jsonrpc : Versions, method : Methods,
             params : Params]

\* extract does not look into the parameters, and only identify and say have an
\* argument: every envelope with a few parameters, every call in good form.
Envelopes == {m \in Requests :
                /\ m.method \in {"absent", "not_string", "identify"}
                /\ m.params.obj \in {NoObject, [cid |-> "system", arg |-> "text"]}}
Calls == {m \in Requests :
            /\ m.id \in {"absent", "scalar"} /\ m.jsonrpc = "2.0"
            /\ m.method \notin {"absent", "not_string"}
            /\ m.params.kind = "object"
            /\ m.method \notin {"identify", "say"} => m.params.obj.arg = "absent"}

\* Not JSON at all, or JSON that is not an object; and no message
Other(k) == [kind |-> k, id |-> "absent", jsonrpc |-> "absent", method |-> "absent",
             params |-> [kind |-> "absent", obj |-> NoObject]]

Messages == Envelopes \cup Calls \cup {Other("not_json"), Other("not_object")}

VARIABLES
    open,               \* the read loop runs
    msg_,               \* the message a read has put there, if any
    named,              \* the user has a name that is not empty
    joined,             \* the channels it is in
    strand,             \* requests on the table's strand: number and id
    log,                \* history: what became of each message
    crashed             \* an exception left a handler

vars == <<open, msg_, named, joined, strand, log, crashed>>

\* The id the message had, replies sent to it, and whether with a result
Entry == [id : Ids, replies : 0 .. 1, result : BOOLEAN]

Init ==
    /\ open = TRUE
    /\ msg_ = Other("none")
    /\ named = FALSE
    /\ joined = {}
    /\ strand = << >>
    /\ log = << >>
    /\ crashed = FALSE

-----------------------------------------------------------------------------
\* Faulty variant: the id is extracted last, when nothing else is wrong.
extractLateId(m) ==
    LET v1 == m.jsonrpc = "absent"
        ec == IF \/ m.kind # "object" \/ m.jsonrpc \in {"not_string", "other"}
                 \/ m.method \in {"absent", "not_string"}
                 \/ v1 /\ m.params.kind # "array"
                 \/ ~v1 /\ m.params.kind = "other"
              THEN "invalid" ELSE "none"
    IN  [ec |-> ec, id |-> IF ec = "none" THEN m.id ELSE "absent"]

\* Faulty variant: a missing "jsonrpc" is taken for version 2.
extractVersion2(m) ==
    LET ec == IF \/ m.kind # "object" \/ m.jsonrpc \in {"not_string", "other"}
                 \/ m.id \in {"null", "other"}
                 \/ m.method \in {"absent", "not_string"}
                 \/ m.params.kind = "other"
              THEN "invalid" ELSE "none"
    IN  [ec |-> ec, id |-> m.id]

\* rpc_call::extract: the first error in the order of its checks, and the id,
\* which is kept whatever is wrong with it or with the rest
extract(m) ==
    LET version == IF m.jsonrpc = "absent" THEN 1 ELSE 2
        ec == CASE m.kind # "object" -> "expected_object"
                [] m.jsonrpc = "not_string" -> "expected_string_version"
                [] m.jsonrpc = "other" -> "unknown_version"
                [] version = 2 /\ m.id = "null" -> "invalid_null_id"
                [] version = 2 /\ m.id = "other" -> "expected_strnum_id"
                [] version = 1 /\ m.id = "absent" -> "expected_id"
                [] m.method = "absent" -> "missing_method"
                [] m.method = "not_string" -> "expected_string_method"
                [] version = 2 /\ m.params.kind = "other" -> "expected_structured_params"
                [] version = 1 /\ m.params.kind = "absent" -> "missing_params"
                [] version = 1 /\ m.params.kind # "array" -> "expected_array_params"
                [] OTHER -> "none"
    IN  [ec |-> ec, id |-> m.id]

\* rpc_call::complete, with a result or an error: how many replies are sent
complete(id) == IF id = "absent" THEN 0 ELSE 1

\* What became of the message in msg_
Logged(replies, result) ==
    log' = Append(log, [id |-> msg_.id, replies |-> replies, result |-> result])

\* An rpc_error reaches the read loop, which completes the request with it.
Refuse(id) ==
    /\ Logged(complete(id), FALSE)
    /\ UNCHANGED <<named, joined, strand, crashed>>

\* An exception of another kind passes the read loop.
Crash ==
    /\ crashed' = TRUE
    /\ UNCHANGED <<named, joined, strand, log>>

\* A handler has done its work and calls complete.
Succeed(id) ==
    /\ Logged(complete(id), TRUE)
    /\ UNCHANGED <<strand, crashed>>

-----------------------------------------------------------------------------
\* channel::do_join
do_join(id, c) ==
    IF ~named \/ c \in joined THEN Refuse(id)
    ELSE joined' = joined \cup {c} /\ Succeed(id) /\ UNCHANGED named

\* channel::do_leave
do_leave(id, c) ==
    IF c \notin joined THEN Refuse(id)
    ELSE joined' = joined \ {c} /\ Succeed(id) /\ UNCHANGED named

\* Faulty variant: the user is inserted before its name is checked.
do_identifyEarly(id, arg) ==
    /\ joined' = joined \cup {"system"}
    /\ UNCHANGED <<strand, crashed>>
    /\ IF arg \in {"absent", "not_string", "too_long"} \/ named
       THEN Logged(complete(id), FALSE) /\ UNCHANGED named
       ELSE Logged(complete(id), TRUE) /\ named' = (arg # "empty")

\* system_channel::do_identify.  An empty name is accepted, and is no name;
\* insert may find the user there already.
do_identify(id, arg) ==
    IF arg \in {"absent", "not_string", "too_long"} \/ named THEN Refuse(id)
    ELSE /\ named' = (arg # "empty")
         /\ joined' = joined \cup {"system"}
         /\ Succeed(id)

\* system_channel::do_shutdown and do_stop: see Server for what they start
do_shutdown(id) == Succeed(id) /\ UNCHANGED <<named, joined>>

\* room_impl::do_say: see Channel for the broadcast
do_say(id, arg) ==
    IF ~named \/ "room" \notin joined \/ arg \in {"absent", "not_string"}
    THEN Refuse(id)
    ELSE Succeed(id) /\ UNCHANGED <<named, joined>>

\* table::on_dispatch moves the request to the table's strand.
PostToTable(id) ==
    /\ Logged(0, FALSE)
    /\ strand' = Append(strand, [n |-> Len(log) + 1, id |-> id])
    /\ UNCHANGED <<named, joined, crashed>>

\* on_dispatch of each channel
on_dispatch(id, m, c) ==
    CASE c = "system" /\ m.method = "identify" -> do_identify(id, m.params.obj.arg)
      [] c = "system" /\ m.method = "shutdown" -> do_shutdown(id)
      [] c = "room" /\ m.method = "say" -> do_say(id, m.params.obj.arg)
      [] c = "table" /\ m.method = "play" -> PostToTable(id)
      [] OTHER -> Refuse(id)

\* channel_list::dispatch and channel::dispatch.  number_cast throws no rpc_error.
dispatch(id, m) ==
    LET cid == m.params.obj.cid IN
    CASE m.params.kind # "object" \/ cid \in {"absent", "unknown"} -> Refuse(id)
      [] cid = "uncast" -> Crash
      [] cid \in Cids /\ m.method = "join" -> do_join(id, cid)
      [] cid \in Cids /\ m.method = "leave" -> do_leave(id, cid)
      [] OTHER -> on_dispatch(id, m, cid)

\* A read completes with a message.
Arrive ==
    /\ open
    /\ msg_.kind = "none"
    /\ Len(log) < MaxRequests
    /\ msg_' \in Messages
    /\ UNCHANGED <<open, named, joined, strand, log, crashed>>

\* The read loop, from one read to the next: what is not JSON ends it.
OnMessage ==
    /\ msg_.kind # "none"
    /\ msg_' = Other("none")
    /\ IF msg_.kind = "not_json"
       THEN /\ open' = FALSE
            /\ Logged(0, FALSE)
            /\ UNCHANGED <<named, joined, strand, crashed>>
       ELSE /\ UNCHANGED open
            /\ LET rpc == extract(msg_) IN
                IF rpc.ec = "none" THEN dispatch(rpc.id, msg_) ELSE Refuse(rpc.id)

\* A read fails, and the read loop ends.  Requests on the table's strand refer
\* to the user and go on.
ReadFails ==
    /\ open
    /\ msg_.kind = "none"
    /\ open' = FALSE
    /\ UNCHANGED <<msg_, named, joined, strand, log, crashed>>

\* The request at the front of the table's strand has been run.
Answered(replies, ok) ==
    log' = [log EXCEPT ![Head(strand).n].replies = @ + replies,
                       ![Head(strand).n].result = ok]

\* Faulty variant: an rpc_error of the game is not turned into a reply.
RunTableNoCatch ==
    /\ strand # << >>
    /\ \E ok \in BOOLEAN : Answered(IF ok THEN complete(Head(strand).id) ELSE 0, ok)
    /\ strand' = Tail(strand)
    /\ UNCHANGED <<open, msg_, named, joined, crashed>>

\* do_play, do_watch, do_bet and the others: the game agrees or it refuses, and
\* either way the request is completed, unless do_start deals to a full hand (see
\* Table): the length_error of push_back is not caught.
RunTable ==
    /\ strand # << >>
    /\ \/ /\ \E ok \in BOOLEAN : Answered(complete(Head(strand).id), ok)
          /\ strand' = Tail(strand)
          /\ UNCHANGED <<named, joined, crashed>>
       \/ Crash
    /\ UNCHANGED <<open, msg_>>

Next ==
    /\ ~crashed
    /\ Arrive \/ OnMessage \/ ReadFails \/ RunTable

Spec == Init /\ [][Next]_vars

\* The two strands run their handlers; the client need do nothing.
FairSpec == Spec /\ WF_vars(~crashed /\ OnMessage) /\ WF_vars(~crashed /\ RunTable)

-----------------------------------------------------------------------------
OnStrand(n) == \E k \in DOMAIN strand : strand[k].n = n

TypeOK ==
    /\ open \in BOOLEAN
    /\ msg_ \in Messages \cup {Other("none")}
    /\ named \in BOOLEAN
    /\ joined \in SUBSET Cids
    /\ strand \in Seq([n : DOMAIN log, id : Ids])
    /\ log \in Seq(Entry)
    /\ crashed \in BOOLEAN

\* A message with an id, good or bad, is answered once, whether it is a valid
\* request or not ("extract id first so on error, the response can include
\* it"), and one without an id never.  Only requests on their way through the
\* table's strand are still to be answered.  This is so up to an exception that
\* nobody catches, of a bad cid or a full hand, with which the program ends.
AnsweredOnce ==
    \A n \in DOMAIN log :
        log[n].replies = IF log[n].id = "absent" \/ OnStrand(n) THEN 0 ELSE 1

\* A request of JSON-RPC 2.0: the id is optional, and a string, a number or null;
\* the parameters are optional and structured.
IsRequest20(m) ==
    /\ m.jsonrpc = "2.0"
    /\ m.id \in {"absent", "null", "scalar"}
    /\ m.params.kind \in {"absent", "array", "object"}

\* A request of JSON-RPC 1.0: an id of any type, and an array of parameters.
IsRequest10(m) ==
    /\ m.jsonrpc = "absent"
    /\ m.id # "absent"
    /\ m.params.kind = "array"

\* What the specifications of JSON-RPC call a request
IsRequest(m) ==
    /\ m.kind = "object"
    /\ m.method \notin {"absent", "not_string"}
    /\ IsRequest20(m) \/ IsRequest10(m)

\* extract, check by check, accepts the requests of the two specifications and
\* nothing else, with one difference: it refuses the null id that version 2.0
\* permits and its comment calls "discouraged".  No check of one version is
\* applied to the other.
ExtractRight ==
    msg_.kind # "none" =>
        (extract(msg_).ec = "none"
            <=> IsRequest(msg_) /\ ~(msg_.jsonrpc = "2.0" /\ msg_.id = "null"))

\* A message that is answered with an error on the session's strand has changed
\* neither the name of its user nor the channels it is in: the checks of the
\* handlers all come before their first change.  (What the game does with a
\* request that it refuses is in Game.)
RefusedIsNoOp ==
    [][\A n \in DOMAIN log' \ DOMAIN log :
            ~log'[n].result => UNCHANGED <<named, joined>>]_vars

\* Every message with an id gets its answer in the end, through whichever
\* strand, unless what the client sent was not JSON or an exception that nobody
\* catches has ended the program.
EventuallyAnswered ==
    \A n \in 1 .. MaxRequests :
        (Len(log) + 1 = n /\ msg_.id # "absent")
            ~> (crashed \/ (n \in DOMAIN log /\ log[n].replies = 1))
=============================================================================
