---------------------------- MODULE TraceRuntime ----------------------------
(***************************************************************************)
(* The managed trace runtime: servers that record the requests of agents   *)
(* and memories to a model provider (capture), answer them from a bundle   *)
(* (replay) or with a constant (mock); trace_runtime/runtime.py with the   *)
(* counters and queues of matching.py and the writer of bundle.py.         *)
(*                                                                         *)
(* A server has a loop that accepts connections and one thread for each    *)
(* connection that got a slot; a thread handles the requests of its        *)
(* connection one after the other.  stop() ends the loops one by one,      *)
(* waits a limited time for the threads, and leaves them alone after that. *)
(***************************************************************************)
EXTENDS Integers, FiniteSets

CONSTANTS
    Channels,
    Conns,
    Requests,
    ChannelOf,      \* the channel of each connection
    ConnOf,         \* the connection that carries each request
    IdOf,           \* x-request-id: a client may send a request again
    KeyOf,          \* matching_key
    Recorded,       \* replay: how many records the bundle has for a key
    copies,
    concurrency     \* slots of each server

Keys == DOMAIN Recorded
Channel(r) == ChannelOf[ConnOf[r]]

ASSUME TraceAssumption ==
    /\ IsFiniteSet(Requests) /\ IsFiniteSet(Conns)
    /\ ChannelOf \in [Conns -> Channels]
    /\ ConnOf \in [Requests -> Conns]
    /\ KeyOf \in [Requests -> Keys]
    /\ Recorded \in [Keys -> Nat]
    /\ copies \in Nat \ {0}
    /\ concurrency \in [Channels -> Nat \ {0}]

VARIABLES
    mode,
    loop,       \* serve_forever of each server
    asked,      \* the servers whose shutdown() was called
    conn,
    req,
    counters,   \* of each channel
    left,       \* what is left in the queue of each key
    bundle,     \* what the writer has appended
    stopped     \* how far stop() is, and how it ended

traceVars == <<mode, loop, asked, conn, req, counters, left, bundle, stopped>>

servers  == <<mode, loop, asked, stopped>>
recorder == <<counters, left, bundle>>

Busy == {"begun", "answered", "written", "matched", "mismatched"}

TraceTypeOK ==
    /\ mode \in {"off", "capture", "replay", "mock"}
    /\ loop \in [Channels -> {"off", "polling", "blocked", "over"}]
    /\ asked \subseteq Channels
    /\ conn \in [Conns -> {"new", "backlog", "waiting", "open", "gone"}]
    /\ req \in [Requests -> Busy \cup {"new", "unread", "kept", "served", "refused", "failed"}]
    /\ counters \in [Channels -> [matched : Nat, mismatched : Nat, errors : Nat, active : Int]]
    /\ left \in [Keys -> Nat]
    /\ bundle \subseteq Requests
    /\ stopped \in {"no", "stopping", "drained", "timed_out"}

TraceInit ==
    /\ mode \in {"off", "capture", "replay", "mock"}
    /\ loop = [c \in Channels |-> "off"]
    /\ asked = {}
    /\ conn = [k \in Conns |-> "new"]
    /\ req = [r \in Requests |-> "new"]
    /\ counters = [c \in Channels |-> [matched |-> 0, mismatched |-> 0, errors |-> 0, active |-> 0]]
    /\ left = [k \in Keys |-> Recorded[k] * copies]
    /\ bundle = {}
    /\ stopped = "no"

start ==
    /\ mode # "off"
    /\ loop' = [c \in Channels |-> "polling"]
    /\ UNCHANGED <<mode, asked, conn, req, recorder, stopped>>

-----------------------------------------------------------------------------
(* Connections *)

\* Mutant: the slot of a connection that has ended is not given back.
NeverReleased(c) == {k \in Conns : ChannelOf[k] = c /\ conn[k] \in {"open", "gone"}}

Open(c) == {k \in Conns : ChannelOf[k] = c /\ conn[k] = "open"}
HasSlot(c) == Cardinality(Open(c)) < concurrency[c]
Current(k) == {r \in Requests : ConnOf[r] = k /\ req[r] \in Busy}

Connect(k) ==
    /\ conn[k] = "new"
    /\ loop[ChannelOf[k]] # "off"
    /\ stopped \in {"no", "stopping"}
    /\ conn' = [conn EXCEPT ![k] = "backlog"]
    /\ UNCHANGED <<servers, req, recorder>>

\* The loop itself waits for a slot, and hears of nothing else meanwhile.  Once it
\* was asked to end it takes no further connection.
process_request(k) ==
    LET c == ChannelOf[k] IN
    /\ conn[k] = "backlog"
    /\ loop[c] = "polling"
    /\ c \notin asked
    /\ conn' = [conn EXCEPT ![k] = IF HasSlot(c) THEN "open" ELSE "waiting"]
    /\ loop' = [loop EXCEPT ![c] = IF HasSlot(c) THEN "polling" ELSE "blocked"]
    /\ UNCHANGED <<mode, asked, stopped, req, recorder>>

SlotAcquired(k) ==
    /\ conn[k] = "waiting"
    /\ HasSlot(ChannelOf[k])
    /\ conn' = [conn EXCEPT ![k] = "open"]
    /\ loop' = [loop EXCEPT ![ChannelOf[k]] = "polling"]
    /\ UNCHANGED <<mode, asked, stopped, req, recorder>>

\* The client closes the connection, or it has been idle for too long.
ConnectionEnds(k) ==
    /\ conn[k] = "open"
    /\ Current(k) = {}
    /\ conn' = [conn EXCEPT ![k] = "gone"]
    /\ UNCHANGED <<servers, req, recorder>>

-----------------------------------------------------------------------------
(* Requests *)

Sends(r) == req[r] = "new" /\ conn[ConnOf[r]] = "open" /\ Current(ConnOf[r]) = {}

\* An exception in a handler ends the thread and its connection.
HandlerRaises(r) == conn' = [conn EXCEPT ![ConnOf[r]] = "gone"]

Active(r) == counters[Channel(r)].active

Count(r, matched, mismatched, errors, active) ==
    LET n == counters[Channel(r)] IN
    counters' = [counters EXCEPT ![Channel(r)] =
        [matched |-> n.matched + matched, mismatched |-> n.mismatched + mismatched,
         errors |-> n.errors + errors, active |-> active]]

begin(r)  == Count(r, 0, 0, 0, Active(r) + 1)
finish(r, what) ==
    IF what = "error" THEN Count(r, 0, 0, 1, Active(r) - 1) ELSE Count(r, 1, 0, 0, Active(r) - 1)

Becomes(r, s) == req' = [req EXCEPT ![r] = s]

\* The body is too large or malformed.
BadBody(r) ==
    /\ Sends(r)
    /\ Becomes(r, "failed")
    /\ Count(r, 0, 0, 1, Active(r))
    /\ HandlerRaises(r)
    /\ UNCHANGED <<servers, left, bundle>>

\* The rest of the body does not come in time: the connection is closed, and
\* nothing is counted.
BodyNeverCame(r) ==
    /\ Sends(r)
    /\ Becomes(r, "unread")
    /\ HandlerRaises(r)
    /\ UNCHANGED <<servers, recorder>>

CaptureBegins(r) ==
    /\ mode \in {"capture", "mock"}
    /\ Sends(r)
    /\ Becomes(r, "begun")
    /\ begin(r)
    /\ UNCHANGED <<servers, conn, left, bundle>>

\* The provider cannot be reached, or what it sends cannot be used.
UpstreamFails(r) ==
    /\ mode = "capture"
    /\ req[r] = "begun"
    /\ Becomes(r, "failed")
    /\ finish(r, "error")
    /\ HandlerRaises(r) \/ UNCHANGED conn
    /\ UNCHANGED <<servers, left, bundle>>

UpstreamAnswers(r) ==
    /\ mode = "capture"
    /\ req[r] = "begun"
    /\ Becomes(r, "answered")
    /\ UNCHANGED <<servers, conn, recorder>>

\* The client may be gone before it has the whole answer.
ClientIsGone(r) ==
    /\ \/ mode = "capture" /\ req[r] = "answered"
       \/ mode = "mock" /\ req[r] = "begun"
    /\ Becomes(r, "failed")
    /\ finish(r, "error")
    /\ HandlerRaises(r)
    /\ UNCHANGED <<servers, left, bundle>>

AnswerWritten(r) ==
    /\ mode = "capture"
    /\ req[r] = "answered"
    /\ Becomes(r, "written")
    /\ UNCHANGED <<servers, conn, recorder>>

MockAnswers(r) ==
    /\ mode = "mock"
    /\ req[r] = "begun"
    /\ Becomes(r, "kept")
    /\ finish(r, "ok")
    /\ UNCHANGED <<servers, conn, left, bundle>>

Repeated(r) == \E s \in bundle : IdOf[s] = IdOf[r]

\* The client has its answer when the record is appended.  A secret or an id
\* that was used before is refused; an error answer that was cut is appended.
append(r) ==
    /\ req[r] = "written"
    /\ \/ /\ ~Repeated(r)
          /\ bundle' = bundle \cup {r}
          /\ \/ Becomes(r, "kept") /\ finish(r, "ok")
             \/ Becomes(r, "failed") /\ finish(r, "error")
          /\ UNCHANGED conn
       \/ /\ UNCHANGED bundle
          /\ Becomes(r, "failed")
          /\ finish(r, "error")
          /\ HandlerRaises(r)
    /\ UNCHANGED <<servers, left>>

match(r) ==
    /\ mode = "replay"
    /\ Sends(r)
    /\ IF left[KeyOf[r]] > 0
       THEN /\ Becomes(r, "matched")
            /\ Count(r, 1, 0, 0, Active(r) + 1)
            /\ left' = [left EXCEPT ![KeyOf[r]] = @ - 1]
       ELSE /\ Becomes(r, "mismatched")
            /\ Count(r, 0, 1, 0, Active(r) + 1)
            /\ UNCHANGED left
    /\ UNCHANGED <<servers, conn, bundle>>

finish_request(r, raised) ==
    Count(r, 0, 0, IF raised THEN 1 ELSE 0, IF Active(r) > 0 THEN Active(r) - 1 ELSE 0)

\* The body has no digest: the request ends before it was counted as active.
MatchRaises(r) ==
    /\ mode = "replay"
    /\ Sends(r)
    /\ Becomes(r, "failed")
    /\ finish_request(r, TRUE)
    /\ HandlerRaises(r)
    /\ UNCHANGED <<servers, left, bundle>>

\* The record that was matched, or the refusal, goes to the client.
ReplayAnswers(r) ==
    /\ req[r] \in {"matched", "mismatched"}
    /\ \/ /\ Becomes(r, IF req[r] = "matched" THEN "served" ELSE "refused")
          /\ finish_request(r, FALSE)
          /\ UNCHANGED conn
       \/ /\ Becomes(r, "failed")
          /\ finish_request(r, TRUE)
          /\ HandlerRaises(r)
    /\ UNCHANGED <<servers, left, bundle>>

-----------------------------------------------------------------------------
(* stop *)

Shutdown(c) ==
    /\ stopped = "stopping"
    /\ c \notin asked
    /\ \A d \in asked : loop[d] = "over"
    /\ asked' = asked \cup {c}
    /\ UNCHANGED <<mode, loop, stopped, conn, req, recorder>>

LoopEnds(c) ==
    /\ c \in asked
    /\ loop[c] = "polling"
    /\ loop' = [loop EXCEPT ![c] = "over"]
    /\ UNCHANGED <<mode, asked, stopped, conn, req, recorder>>

\* Mutant: a time-out is taken for the end of the requests.
NeverMind == "drained"

Result == IF \E k \in Conns : conn[k] = "open" THEN "timed_out" ELSE "drained"

\* wait_for_drain on every server, until all threads are done or time is up;
\* with the sockets closed, nobody else is accepted.
Drain ==
    /\ stopped = "stopping"
    /\ \A c \in Channels : loop[c] = "over"
    /\ stopped' = Result
    /\ conn' = [k \in Conns |-> IF conn[k] = "open" THEN "open" ELSE "gone"]
    /\ UNCHANGED <<mode, loop, asked, req, recorder>>

\* verify_and_collect: what the counters say, whatever the requests were.
Valid ==
    \A c \in Channels :
        LET n == counters[c] IN
        CASE mode = "capture" -> n.matched > 0 /\ n.errors = 0
          [] mode = "mock"    -> n.errors = 0
          [] OTHER            -> n.mismatched = 0 /\ n.errors = 0 /\ n.active = 0

\* In a replay nothing may remain either.
Remaining == \E k \in Keys : left[k] > 0

verify_and_collect == Valid /\ (mode = "replay" => ~Remaining)

-----------------------------------------------------------------------------
\* A request that was read is dealt with: the provider has a timeout, and so has
\* every write.
Progress(r) ==
    \/ UpstreamFails(r) \/ UpstreamAnswers(r) \/ ClientIsGone(r) \/ AnswerWritten(r)
    \/ MockAnswers(r) \/ append(r) \/ ReplayAnswers(r)

Handler == \E r \in Requests :
    \/ BadBody(r) \/ BodyNeverCame(r)
    \/ CaptureBegins(r) \/ match(r) \/ MatchRaises(r)
    \/ Progress(r)

Accepting == \E k \in Conns : process_request(k) \/ SlotAcquired(k)

TraceNext ==
    \/ Handler
    \/ Accepting
    \/ \E k \in Conns : Connect(k) \/ ConnectionEnds(k)
    \/ \E c \in Channels : LoopEnds(c)

-----------------------------------------------------------------------------
\* A bundle holds exactly the requests that came in and were answered, each of them
\* whole, and in a replay every record was given to a client as often as it was meant
\* to be, and to nobody twice.
Faithful ==
    CASE mode = "capture" -> /\ \A r \in Requests : req[r] \in {"new", "unread", "kept"}
                             /\ bundle = {r \in Requests : req[r] = "kept"}
      [] mode = "mock"    -> \A r \in Requests : req[r] \in {"new", "unread", "kept"}
      [] mode = "replay"  ->
            /\ \A r \in Requests : req[r] \in {"new", "unread", "served"}
            /\ \A k \in Keys : Cardinality({r \in Requests : req[r] = "served" /\ KeyOf[r] = k})
                                 = Recorded[k] * copies
      [] OTHER            -> TRUE
=============================================================================
