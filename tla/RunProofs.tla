------------------------------ MODULE RunProofs ------------------------------
(***************************************************************************)
(* Machine-checked proofs about a run and what it accounts for: the        *)
(* lifecycle (RunLifecycle, with the TraceRuntime beneath it) for any      *)
(* channels, connections and requests, and the token ledger (TokenLedger,  *)
(* with the TokenProxy beneath it) for any runs, attempts, calls, prompts  *)
(* and failures.                                                           *)
(*                                                                         *)
(* A run that is published as a result rests on a faithful trace, and a    *)
(* run directory shows a run of RunOutcome: all steps of a request have    *)
(* one shape (HandlerStep), the request moves along an edge of its mode,   *)
(* and what goes wrong with it is counted.  So the counters, which are all *)
(* verify_and_collect looks at, account for every request as soon as       *)
(* nobody is connected any more.                                           *)
(*                                                                         *)
(* No call counts twice: LedgerIndInv says of each row of the shards which *)
(* calls it stands for, from which follows that the rows of one record     *)
(* agree (RowsDoAgree), that rebuild counts what some row knows            *)
(* (CountsWhatIsEvident) and that no two records know the same call.       *)
(***************************************************************************)
EXTENDS RunLifecycle, TokenLedger, FiniteSetTheorems, FunctionTheorems, SequenceTheorems,
        WellFoundedInduction, TLAPS

-----------------------------------------------------------------------------
(* The invariant of the trace runtime *)

\* A request in progress has an open connection to itself.
BusyInv ==
    /\ \A r \in Requests : req[r] \in Busy => conn[ConnOf[r]] = "open"
    /\ \A r, s \in Requests :
          ConnOf[r] = ConnOf[s] /\ req[r] \in Busy /\ req[s] \in Busy => r = s

\* What a request can be depends on the mode.
ModeInv ==
    /\ mode = "off" => /\ \A c \in Channels : loop[c] = "off"
                       /\ \A k \in Conns : conn[k] = "new"
    /\ \A r \in Requests :
          /\ mode = "capture" => req[r] \in {"new", "unread", "begun", "answered", "written",
                                             "kept", "failed"}
          /\ mode = "mock"    => req[r] \in {"new", "unread", "begun", "kept", "failed"}
          /\ mode = "replay"  => req[r] \in {"new", "unread", "matched", "mismatched",
                                             "served", "refused", "failed"}

\* What went wrong with a request was counted.
CountInv ==
    \A r \in Requests :
        /\ req[r] = "failed" => counters[Channel(r)].errors > 0
        /\ req[r] \in {"mismatched", "refused"} => counters[Channel(r)].mismatched > 0

\* The bundle has what was answered and, maybe, some of what failed.
BundleInv ==
    mode = "capture" => \A r \in Requests :
        /\ req[r] = "kept" => r \in bundle
        /\ r \in bundle => req[r] \in {"kept", "failed"}

Given(k) == {r \in Requests : req[r] \in {"matched", "served"} /\ KeyOf[r] = k}

\* As long as no request failed, what left the queues is with the clients.
QueueInv ==
    (\A r \in Requests : req[r] # "failed") =>
        \A k \in Keys : left[k] + Cardinality(Given(k)) = Recorded[k] * copies

\* Nobody is connected to a runtime that was drained.
DrainedInv == stopped = "drained" => \A k \in Conns : conn[k] = "gone"

TraceInv ==
    TraceTypeOK /\ BusyInv /\ ModeInv /\ CountInv /\ BundleInv /\ QueueInv /\ DrainedInv

LEMMA ChannelShape ==
  ASSUME NEW r \in Requests
  PROVE  Channel(r) \in Channels /\ ConnOf[r] \in Conns /\ KeyOf[r] \in Keys
  BY TraceAssumption DEF Channel, Keys

LEMMA TraceStarts == TraceInit => TraceInv
<1> SUFFICES ASSUME TraceInit PROVE TraceInv
  OBVIOUS
<1>1. TraceTypeOK
  BY TraceAssumption DEF TraceInit, TraceTypeOK, Keys
<1>2. BusyInv /\ ModeInv /\ CountInv /\ BundleInv /\ DrainedInv
  BY DEF TraceInit, BusyInv, ModeInv, CountInv, BundleInv, DrainedInv, Busy
<1>3. \A k \in Keys : Given(k) = {}
  BY DEF TraceInit, Given
<1>4. ASSUME NEW k \in Keys PROVE left[k] + Cardinality(Given(k)) = Recorded[k] * copies
  <2>1. Recorded[k] * copies \in Nat
    BY TraceAssumption
  <2>2. left[k] = Recorded[k] * copies
    BY DEF TraceInit
  <2> QED
    BY <1>3, <2>1, <2>2, FS_EmptySet
<1> QED
  BY <1>1, <1>2, <1>4 DEF TraceInv, QueueInv

(* What a step of a request is, whatever its kind *)

\* A request that failed is counted as an error, one without a record as a mismatch,
\* and no count is ever taken back.
Counts(r) ==
    /\ counters' \in [Channels -> [matched : Nat, mismatched : Nat, errors : Nat, active : Int]]
    /\ \A c \in Channels : /\ counters'[c].errors >= counters[c].errors
                           /\ counters'[c].mismatched >= counters[c].mismatched
    /\ req'[r] = "failed" => counters'[Channel(r)].errors > counters[Channel(r)].errors
    /\ req'[r] = "mismatched" => counters'[Channel(r)].mismatched > counters[Channel(r)].mismatched

\* What may become of a request, by the mode.
Edge(from, to) ==
    \/ from = "new" /\ to \in {"unread", "failed"} /\ mode # "off"
    \/ from = "new" /\ to = "begun" /\ mode \in {"capture", "mock"}
    \/ from = "new" /\ to \in {"matched", "mismatched"} /\ mode = "replay"
    \/ from = "begun" /\ to \in {"failed", "answered"} /\ mode = "capture"
    \/ from = "begun" /\ to \in {"failed", "kept"} /\ mode = "mock"
    \/ from = "answered" /\ to \in {"failed", "written"} /\ mode = "capture"
    \/ from = "written" /\ to \in {"failed", "kept"} /\ mode = "capture"
    \/ from = "matched" /\ to \in {"failed", "served"} /\ mode = "replay"
    \/ from = "mismatched" /\ to \in {"failed", "refused"} /\ mode = "replay"

Outcomes == {"new", "unread", "kept", "served", "refused", "failed"}

HandlerStep(r, to) ==
    /\ UNCHANGED servers
    /\ Counts(r)
    /\ Sends(r) \/ req[r] \in Busy
    /\ Edge(req[r], to)
    /\ req' = [req EXCEPT ![r] = to]
    /\ \/ UNCHANGED conn
       \/ HandlerRaises(r) /\ to \notin Busy
    /\ IF to = "matched"
       THEN left[KeyOf[r]] > 0 /\ left' = [left EXCEPT ![KeyOf[r]] = @ - 1]
       ELSE UNCHANGED left
    /\ \/ UNCHANGED bundle
       \/ req[r] = "written" /\ bundle' = bundle \cup {r}
    /\ mode = "capture" /\ to = "kept" => r \in bundle'

Counter == [matched : Nat, mismatched : Nat, errors : Nat, active : Int]

LEMMA CountersMove ==
  ASSUME TraceTypeOK, NEW r \in Requests,
         NEW matched \in Nat, NEW mismatched \in Nat, NEW errors \in Nat, NEW active \in Int,
         Count(r, matched, mismatched, errors, active),
         req'[r] = "failed" => errors > 0,
         req'[r] = "mismatched" => mismatched > 0
  PROVE  Counts(r)
<1> DEFINE n == counters[Channel(r)]
           m == [matched |-> n.matched + matched, mismatched |-> n.mismatched + mismatched,
                 errors |-> n.errors + errors, active |-> active]
<1>1. Channel(r) \in Channels
  BY ChannelShape
<1>2. counters \in [Channels -> Counter]
  BY DEF TraceTypeOK, Counter
<1>3. \A c \in Channels : /\ counters[c].matched \in Nat
                          /\ counters[c].errors \in Nat /\ counters[c].mismatched \in Nat
  BY <1>2 DEF Counter
<1>4. m \in Counter
  BY <1>1, <1>3 DEF Counter
<1>5. m.errors = n.errors + errors /\ m.mismatched = n.mismatched + mismatched
  OBVIOUS
<1>6. counters' = [counters EXCEPT ![Channel(r)] = m]
  BY DEF Count
<1> HIDE DEF m
<1>7. counters' \in [Channels -> Counter] /\ counters'[Channel(r)] = m
  BY <1>1, <1>2, <1>4, <1>6
<1>8. \A c \in Channels : c # Channel(r) => counters'[c] = counters[c]
  BY <1>1, <1>2, <1>6
<1>9. \A c \in Channels : /\ counters'[c].errors >= counters[c].errors
                          /\ counters'[c].mismatched >= counters[c].mismatched
  BY <1>1, <1>3, <1>5, <1>7, <1>8
<1> QED
  BY <1>1, <1>3, <1>5, <1>7, <1>9 DEF Counts, Counter

LEMMA HandlerSteps ==
  ASSUME TraceInv, NEW r \in Requests,
         \/ BadBody(r) \/ BodyNeverCame(r) \/ CaptureBegins(r) \/ match(r) \/ MatchRaises(r)
         \/ Progress(r)
  PROVE  \E to \in Busy \cup Outcomes : HandlerStep(r, to)
<1>1. /\ TraceTypeOK /\ req \in [Requests -> Busy \cup Outcomes]
      /\ ConnOf[r] \in Conns /\ mode \in {"off", "capture", "replay", "mock"}
      /\ Active(r) \in Int
  BY ChannelShape DEF TraceInv, TraceTypeOK, Outcomes, Active
<1>2. Sends(r) \/ req[r] \in Busy => mode # "off"
  BY <1>1 DEF Sends, TraceInv, ModeInv, BusyInv
<1>3. \A s \in Busy \cup Outcomes : req' = [req EXCEPT ![r] = s] => req'[r] = s
  BY <1>1
<1> USE DEF Becomes
<1>4. CASE BadBody(r)
  <2>1. Counts(r)
    BY <1>1, <1>3, <1>4, CountersMove DEF BadBody, Outcomes
  <2>2. HandlerStep(r, "failed")
    BY <1>1, <1>2, <1>4, <2>1 DEF BadBody, HandlerStep, Edge, Sends, Outcomes, Busy
  <2> QED
    BY <2>2 DEF Busy, Outcomes
<1>5. CASE BodyNeverCame(r)
  <2>1. Counts(r)
    BY <1>1, <1>3, <1>5 DEF BodyNeverCame, Outcomes, Counts, TraceTypeOK, recorder
  <2>2. HandlerStep(r, "unread")
    BY <1>1, <1>2, <1>5, <2>1 DEF BodyNeverCame, HandlerStep, Edge, Sends, Outcomes, Busy,
         recorder
  <2> QED
    BY <2>2 DEF Busy, Outcomes
<1>6. CASE CaptureBegins(r)
  <2>1. Counts(r)
    BY <1>1, <1>3, <1>6, CountersMove DEF CaptureBegins, begin, Outcomes, Busy
  <2>2. HandlerStep(r, "begun")
    BY <1>1, <1>2, <1>6, <2>1 DEF CaptureBegins, HandlerStep, Edge, Sends, Outcomes, Busy
  <2> QED
    BY <2>2 DEF Busy, Outcomes
<1>7. CASE match(r)
  <2>1. Counts(r)
    BY <1>1, <1>3, <1>7, CountersMove DEF match, Outcomes, Busy
  <2>2. HandlerStep(r, "matched") \/ HandlerStep(r, "mismatched")
    BY <1>1, <1>2, <1>7, <2>1 DEF match, HandlerStep, Edge, Sends, Outcomes, Busy
  <2> QED
    BY <2>2 DEF Busy, Outcomes
<1>8. CASE MatchRaises(r)
  <2>1. Counts(r)
    BY <1>1, <1>3, <1>8, CountersMove DEF MatchRaises, finish_request, Outcomes, Busy
  <2>2. HandlerStep(r, "failed")
    BY <1>1, <1>2, <1>8, <2>1 DEF MatchRaises, HandlerStep, Edge, Sends, Outcomes, Busy
  <2> QED
    BY <2>2 DEF Busy, Outcomes
<1>9. CASE UpstreamFails(r)
  <2>1. Counts(r)
    BY <1>1, <1>3, <1>9, CountersMove DEF UpstreamFails, finish, Outcomes, Busy
  <2>2. HandlerStep(r, "failed")
    BY <1>1, <1>2, <1>9, <2>1 DEF UpstreamFails, HandlerStep, Edge, Sends, Outcomes, Busy
  <2> QED
    BY <2>2 DEF Busy, Outcomes
<1>10. CASE UpstreamAnswers(r)
  <2>1. Counts(r)
    BY <1>1, <1>3, <1>10 DEF UpstreamAnswers, Outcomes, Counts, TraceTypeOK, recorder
  <2>2. HandlerStep(r, "answered")
    BY <1>1, <1>2, <1>10, <2>1 DEF UpstreamAnswers, HandlerStep, Edge, Sends, Outcomes, Busy,
         recorder
  <2> QED
    BY <2>2 DEF Busy, Outcomes
<1>11. CASE ClientIsGone(r)
  <2>1. Counts(r)
    BY <1>1, <1>3, <1>11, CountersMove DEF ClientIsGone, finish, Outcomes, Busy
  <2>2. HandlerStep(r, "failed")
    BY <1>1, <1>2, <1>11, <2>1 DEF ClientIsGone, HandlerStep, Edge, Sends, Outcomes, Busy
  <2> QED
    BY <2>2 DEF Busy, Outcomes
<1>12. CASE AnswerWritten(r)
  <2>1. Counts(r)
    BY <1>1, <1>3, <1>12 DEF AnswerWritten, Outcomes, Counts, TraceTypeOK, recorder
  <2>2. HandlerStep(r, "written")
    BY <1>1, <1>2, <1>12, <2>1 DEF AnswerWritten, HandlerStep, Edge, Sends, Outcomes, Busy,
         recorder
  <2> QED
    BY <2>2 DEF Busy, Outcomes
<1>13. CASE MockAnswers(r)
  <2>1. Counts(r)
    BY <1>1, <1>3, <1>13, CountersMove DEF MockAnswers, finish, Outcomes, Busy
  <2>2. HandlerStep(r, "kept")
    BY <1>1, <1>2, <1>13, <2>1 DEF MockAnswers, HandlerStep, Edge, Sends, Outcomes, Busy
  <2> QED
    BY <2>2 DEF Busy, Outcomes
<1>14. CASE append(r)
  <2>1. Counts(r)
    BY <1>1, <1>3, <1>14, CountersMove DEF append, finish, Outcomes, Busy
  <2>2. HandlerStep(r, "kept") \/ HandlerStep(r, "failed")
    BY <1>1, <1>2, <1>14, <2>1 DEF append, HandlerStep, Edge, Sends, Outcomes, Busy,
         TraceInv, ModeInv
  <2> QED
    BY <2>2 DEF Busy, Outcomes
<1>15. CASE ReplayAnswers(r)
  <2>1. Counts(r)
    BY <1>1, <1>3, <1>15, CountersMove DEF ReplayAnswers, finish_request, Outcomes, Busy
  <2>2. HandlerStep(r, "served") \/ HandlerStep(r, "refused") \/ HandlerStep(r, "failed")
    BY <1>1, <1>2, <1>15, <2>1 DEF ReplayAnswers, HandlerStep, Edge, Sends, Outcomes, Busy,
         TraceInv, ModeInv
  <2> QED
    BY <2>2 DEF Busy, Outcomes
<1> QED
  BY <1>4, <1>5, <1>6, <1>7, <1>8, <1>9, <1>10, <1>11, <1>12, <1>13, <1>14, <1>15 DEF Progress

\* Whatever a request does, the invariant of the runtime survives it.
LEMMA HandlerKeeps ==
  ASSUME TraceInv, NEW r \in Requests, NEW to \in Busy \cup Outcomes, HandlerStep(r, to)
  PROVE  TraceInv'
<1>1. /\ TraceTypeOK /\ ConnOf[r] \in Conns /\ Channel(r) \in Channels /\ KeyOf[r] \in Keys
      /\ req' = [req EXCEPT ![r] = to] /\ req'[r] = to
      /\ req' \in [Requests -> Busy \cup Outcomes]
      /\ UNCHANGED <<mode, loop, asked, stopped>>
      /\ Edge(req[r], to)
  BY ChannelShape DEF TraceInv, TraceTypeOK, Outcomes, HandlerStep, servers
<1>2. /\ conn' \in [Conns -> {"new", "backlog", "waiting", "open", "gone"}]
      /\ conn[ConnOf[r]] = "open"
      /\ \A k \in Conns : k # ConnOf[r] => conn'[k] = conn[k]
      /\ to \in Busy => conn' = conn
      /\ conn'[ConnOf[r]] \in {"open", "gone"}
  BY <1>1 DEF HandlerStep, HandlerRaises, Sends, TraceInv, TraceTypeOK, BusyInv
<1>3. \A s \in Requests : s # r => req'[s] = req[s]
  BY <1>1 DEF TraceTypeOK, Outcomes
<1>4. TraceTypeOK'
  <2>1. left' \in [Keys -> Nat]
    BY <1>1 DEF HandlerStep, TraceTypeOK
  <2>2. bundle' \subseteq Requests
    BY <1>1 DEF HandlerStep, TraceTypeOK
  <2> QED
    BY <1>1, <1>2, <2>1, <2>2 DEF HandlerStep, Counts, TraceTypeOK, Outcomes
<1>5. BusyInv'
  <2>1. \A s \in Requests : ConnOf[s] = ConnOf[r] /\ req[s] \in Busy => s = r
    BY <1>1 DEF HandlerStep, Sends, Current, TraceInv, BusyInv
  <2> QED
    BY <1>1, <1>2, <1>3, <2>1, ChannelShape DEF TraceInv, BusyInv
<1>6. ModeInv'
  BY <1>1, <1>2, <1>3 DEF TraceInv, ModeInv, Edge
<1>7. CountInv'
  <2>1. \A c \in Channels : /\ counters[c].errors \in Nat /\ counters[c].mismatched \in Nat
                            /\ counters'[c].errors \in Nat /\ counters'[c].mismatched \in Nat
                            /\ counters'[c].errors >= counters[c].errors
                            /\ counters'[c].mismatched >= counters[c].mismatched
    BY <1>1 DEF HandlerStep, Counts, TraceTypeOK
  <2>2. /\ to = "failed" => counters'[Channel(r)].errors > counters[Channel(r)].errors
        /\ to = "mismatched" => counters'[Channel(r)].mismatched > counters[Channel(r)].mismatched
        /\ to = "refused" => req[r] = "mismatched"
    BY <1>1 DEF HandlerStep, Counts, Edge
  <2>3. \A s \in Requests : Channel(s)' = Channel(s) /\ Channel(s) \in Channels
    BY ChannelShape DEF Channel
  <2>4. \A s \in Requests :
           /\ req'[s] = "failed" => counters'[Channel(s)].errors > 0
           /\ req'[s] \in {"mismatched", "refused"} => counters'[Channel(s)].mismatched > 0
    BY <1>1, <1>3, <2>1, <2>2, <2>3 DEF TraceInv, CountInv
  <2> QED
    BY <2>3, <2>4 DEF CountInv
<1>8. BundleInv'
  BY <1>1, <1>3 DEF TraceInv, BundleInv, HandlerStep, Edge
<1>9. QueueInv'
  <2> SUFFICES ASSUME \A s \in Requests : req'[s] # "failed", NEW k \in Keys
               PROVE  left'[k] + Cardinality(Given(k)') = Recorded[k] * copies
    BY DEF QueueInv, Keys
  <2>1. req[r] # "failed" /\ to # "failed"
    BY <1>1 DEF Edge
  <2>2. left[k] + Cardinality(Given(k)) = Recorded[k] * copies /\ left[k] \in Nat
    BY <1>1, <1>3, <2>1 DEF TraceInv, QueueInv, TraceTypeOK
  <2>3. IsFiniteSet(Given(k)) /\ Cardinality(Given(k)) \in Nat
    BY TraceAssumption, FS_Subset, FS_CardinalityType DEF Given
  <2>4. CASE to = "matched" /\ k = KeyOf[r]
    <3>1. r \notin Given(k) /\ Given(k)' = Given(k) \cup {r}
      BY <1>1, <1>3, <2>4 DEF Given, Edge
    <3>2. left'[k] = left[k] - 1
      BY <1>1, <2>4 DEF HandlerStep, TraceTypeOK
    <3>3. Cardinality(Given(k)') = Cardinality(Given(k)) + 1
      BY <2>3, <3>1, FS_AddElement
    <3> QED
      BY <2>2, <2>3, <3>2, <3>3
  <2>5. CASE ~(to = "matched" /\ k = KeyOf[r])
    <3>1. Given(k)' = Given(k)
      BY <1>1, <1>3, <2>1, <2>5 DEF Given, Edge
    <3>2. left'[k] = left[k]
      BY <1>1, <2>5 DEF HandlerStep, TraceTypeOK
    <3> QED
      BY <2>2, <3>1, <3>2
  <2> QED
    BY <2>4, <2>5
<1>10. DrainedInv'
  BY <1>1, <1>2 DEF TraceInv, DrainedInv
<1> QED
  BY <1>4, <1>5, <1>6, <1>7, <1>8, <1>9, <1>10 DEF TraceInv

\* Connections come and go, and the runtime starts and stops, without a request.
LEMMA ServerKeeps ==
  ASSUME TraceInv, UNCHANGED <<mode, req, counters, left, bundle>>,
         loop' \in [Channels -> {"off", "polling", "blocked", "over"}], asked' \subseteq Channels,
         conn' \in [Conns -> {"new", "backlog", "waiting", "open", "gone"}],
         stopped' \in {"no", "stopping", "drained", "timed_out"},
         \A k \in Conns : conn[k] = "open" /\ conn'[k] # "open" => Current(k) = {},
         mode = "off" => UNCHANGED <<loop, conn>>,
         DrainedInv'
  PROVE  TraceInv'
<1>1. TraceTypeOK'
  BY DEF TraceInv, TraceTypeOK
<1>2. BusyInv'
  BY ChannelShape DEF TraceInv, BusyInv, Current
<1>3. ModeInv' /\ BundleInv'
  BY DEF TraceInv, ModeInv, BundleInv
<1>4. CountInv'
  BY DEF TraceInv, CountInv, Channel
<1>5. QueueInv'
  <2>1. \A k \in Keys : Given(k)' = Given(k)
    BY DEF Given
  <2> QED
    BY <2>1 DEF TraceInv, QueueInv, Keys
<1> QED
  BY <1>1, <1>2, <1>3, <1>4, <1>5 DEF TraceInv

LEMMA TraceKeeps ==
  ASSUME TraceInv, TraceNext
  PROVE  TraceInv'
<1>1. /\ TraceTypeOK
      /\ loop \in [Channels -> {"off", "polling", "blocked", "over"}]
      /\ conn \in [Conns -> {"new", "backlog", "waiting", "open", "gone"}]
      /\ asked \subseteq Channels
      /\ stopped \in {"no", "stopping", "drained", "timed_out"}
      /\ \A k \in Conns : ChannelOf[k] \in Channels
  BY TraceAssumption DEF TraceInv, TraceTypeOK
<1>2. ASSUME NEW k \in Conns, process_request(k) PROVE TraceInv'
  <2>1. mode # "off"
    BY <1>1, <1>2 DEF TraceInv, ModeInv, process_request
  <2> QED
    BY <1>1, <1>2, <2>1, ServerKeeps DEF process_request, recorder, TraceInv, DrainedInv
<1>3. ASSUME NEW k \in Conns, SlotAcquired(k) PROVE TraceInv'
  <2>1. mode # "off"
    BY <1>1, <1>3 DEF TraceInv, ModeInv, SlotAcquired
  <2> QED
    BY <1>1, <1>3, <2>1, ServerKeeps DEF SlotAcquired, recorder, TraceInv, DrainedInv
<1>4. ASSUME NEW k \in Conns, Connect(k) PROVE TraceInv'
  <2>1. mode # "off"
    BY <1>1, <1>4 DEF TraceInv, ModeInv, Connect
  <2> QED
    BY <1>1, <1>4, <2>1, ServerKeeps DEF Connect, servers, recorder, TraceInv, DrainedInv
<1>5. ASSUME NEW k \in Conns, ConnectionEnds(k) PROVE TraceInv'
  <2>1. mode # "off"
    BY <1>1, <1>5 DEF TraceInv, ModeInv, ConnectionEnds
  <2> QED
    BY <1>1, <1>5, <2>1, ServerKeeps DEF ConnectionEnds, servers, recorder, TraceInv,
         DrainedInv
<1>6. ASSUME NEW c \in Channels, LoopEnds(c) PROVE TraceInv'
  <2>1. mode # "off"
    BY <1>1, <1>6 DEF TraceInv, ModeInv, LoopEnds
  <2> QED
    BY <1>1, <1>6, <2>1, ServerKeeps DEF LoopEnds, recorder, TraceInv, DrainedInv
<1> QED
  BY <1>2, <1>3, <1>4, <1>5, <1>6, HandlerSteps, HandlerKeeps DEF TraceNext, Handler,
       Accepting

\* Nothing goes on any more in a runtime that was drained, or never started.
Quiet == mode = "off" \/ stopped = "drained"

LEMMA QuietStays ==
  ASSUME TraceInv, Quiet, TraceNext
  PROVE  UNCHANGED <<mode, stopped, conn, req, counters, left, bundle>>
<1>1. /\ TraceTypeOK
      /\ \A k \in Conns : conn[k] \notin {"backlog", "waiting", "open"}
      /\ \A k \in Conns : Connect(k) => FALSE
  BY TraceAssumption DEF TraceInv, TraceTypeOK, ModeInv, DrainedInv, Quiet, Connect
<1>2. \A r \in Requests : ~Sends(r) /\ req[r] \notin Busy
  BY <1>1, ChannelShape DEF TraceInv, BusyInv, Sends
<1>3. ~Handler
  BY <1>2, HandlerSteps DEF Handler, HandlerStep
<1>4. ~Accepting /\ \A k \in Conns : ~ConnectionEnds(k)
  BY <1>1 DEF Accepting, process_request, SlotAcquired, ConnectionEnds
<1>5. \A c \in Channels : LoopEnds(c) => UNCHANGED <<mode, stopped, conn, req, counters, left, bundle>>
  BY DEF LoopEnds, recorder
<1> QED
  BY <1>1, <1>3, <1>4, <1>5 DEF TraceNext

LEMMA QuietIsFaithful ==
  ASSUME TraceInv, mode # "off" => stopped = "drained" /\ verify_and_collect
  PROVE  /\ Faithful
         /\ \A k \in Conns : conn[k] \notin {"waiting", "open"}
<1>1. \A k \in Conns : conn[k] \notin {"waiting", "open"}
  BY DEF TraceInv, ModeInv, DrainedInv
<1>2. \A r \in Requests : req[r] \notin Busy
  BY <1>1, ChannelShape DEF TraceInv, BusyInv
<1>3. ASSUME mode # "off" PROVE \A r \in Requests : req[r] # "failed"
  <2>1. \A c \in Channels : ~(counters[c].errors > 0)
    BY <1>3 DEF TraceInv, TraceTypeOK, verify_and_collect, Valid
  <2> QED
    BY <2>1, ChannelShape DEF TraceInv, CountInv
<1>4. CASE mode = "off"
  BY <1>1, <1>4 DEF Faithful
<1>5. CASE mode = "capture"
  <2>1. \A r \in Requests : req[r] \in {"new", "unread", "kept"}
    BY <1>2, <1>3, <1>5 DEF TraceInv, ModeInv, Busy
  <2>2. bundle = {r \in Requests : req[r] = "kept"}
    BY <1>3, <1>5 DEF TraceInv, TraceTypeOK, BundleInv
  <2> QED
    BY <1>1, <1>5, <2>1, <2>2 DEF Faithful
<1>6. CASE mode = "mock"
  BY <1>1, <1>2, <1>3, <1>6 DEF Faithful, TraceInv, ModeInv, Busy
<1>7. CASE mode = "replay"
  <2>1. \A c \in Channels : ~(counters[c].mismatched > 0)
    BY <1>7 DEF TraceInv, TraceTypeOK, verify_and_collect, Valid
  <2>2. \A r \in Requests : req[r] \in {"new", "unread", "served"}
    BY <1>2, <1>3, <1>7, <2>1, ChannelShape DEF TraceInv, ModeInv, CountInv, Busy
  <2>3. ASSUME NEW k \in Keys
        PROVE  Cardinality({r \in Requests : req[r] = "served" /\ KeyOf[r] = k})
                 = Recorded[k] * copies
    <3>1. left[k] = 0
      BY <1>7 DEF verify_and_collect, Remaining, TraceInv, TraceTypeOK
    <3>2. Given(k) = {r \in Requests : req[r] = "served" /\ KeyOf[r] = k}
      BY <2>2 DEF Given
    <3>3. left[k] + Cardinality(Given(k)) = Recorded[k] * copies
      BY <1>3, <1>7 DEF TraceInv, QueueInv
    <3>4. Cardinality(Given(k)) \in Nat
      BY TraceAssumption, FS_Subset, FS_CardinalityType DEF Given
    <3> QED
      BY <3>1, <3>2, <3>3, <3>4
  <2> QED
    BY <1>1, <1>7, <2>2, <2>3 DEF Faithful
<1> QED
  BY <1>1, <1>4, <1>5, <1>6, <1>7 DEF TraceInv, TraceTypeOK

-----------------------------------------------------------------------------
(* The invariant of the run *)

\* The trace runtime is off, or it was drained and its counters are in order.
Verified == mode # "off" => stopped = "drained" /\ verify_and_collect

Begun == {"configure", "smoke", "prepare", "start", "setup"}
Over  == {"report", "ended"}

\* Status and summary are written at the end, in this order, and agree.
SettledInv ==
    /\ stage \in Begun => ~executed
    /\ stage \notin Over => status = "running"
    /\ stage # "ended" => summary = NoReport
    /\ stage = "report" => status \in Final /\ report.status = status
    /\ error = "signal" => cut

\* What is known of the runtime and the plugin once the clean-up has come so far.
CleanupInv ==
    /\ External => plugin = "none"
    /\ stage \in {"stop", "stopping", "verify", "evaluate"} /\ error = "none" => plugin # "due"
    /\ stage \in {"stopping", "verify"} => mode # "off"
    /\ stage = "verify" => stopped = "drained"
    /\ stage = "evaluate" /\ error = "none" => Quiet /\ (verification => Verified)

ResultInv == status \in {"passed", "partial"} => Verified /\ plugin \in {"none", "ok"}

\* The variables of the run itself have their types.
RunTypeOK ==
    /\ entrypoint \in {"native", "external"}
    /\ plugin \in {"none", "due", "ok", "failed"}
    /\ stage \in {"configure", "smoke", "prepare", "start", "setup", "execute", "finalize",
                  "stop", "stopping", "verify", "evaluate", "report", "ended"}
    /\ status \in Final \cup {"running"}
    /\ summary \in [status : Final \cup {"none"}, valid : BOOLEAN, score : BOOLEAN]
    /\ report \in [status : Final \cup {"none"}, valid : BOOLEAN, score : BOOLEAN]
    /\ error \in {"none", "execution", "trace", "signal"}
    /\ verification \in BOOLEAN /\ executed \in BOOLEAN /\ cut \in BOOLEAN

\* What a step that leaves the trace runtime alone has to show.
RunPart == RunTypeOK /\ SettledInv /\ CleanupInv /\ ResultInv

RunInv == TraceInv /\ RunPart

LEMMA RunStarts == Init => RunInv
<1> SUFFICES ASSUME Init PROVE RunInv
  OBVIOUS
<1>1. TraceInv
  BY TraceStarts DEF Init
<1>2. RunTypeOK
  <2>1. /\ entrypoint \in {"native", "external"} /\ plugin \in {"none", "due", "ok", "failed"}
        /\ stage = "configure" /\ status = "running" /\ error = "none"
        /\ verification = TRUE /\ executed = FALSE /\ cut = FALSE
    BY DEF Init
  <2>2. /\ summary = NoReport /\ report = NoReport
        /\ NoReport \in [status : Final \cup {"none"}, valid : BOOLEAN, score : BOOLEAN]
    BY DEF Init, NoReport
  <2> QED
    BY <2>1, <2>2 DEF RunTypeOK
<1>3. SettledInv /\ CleanupInv /\ ResultInv
  BY DEF Init, SettledInv, CleanupInv, ResultInv, Begun, Over, External
<1> QED
  BY <1>1, <1>2, <1>3 DEF RunInv, RunPart

LEMMA TraceAtRest ==
  ASSUME NoTrace
  PROVE  (Verified' <=> Verified) /\ (Quiet' <=> Quiet) /\ mode' = mode
         /\ (TraceInv => TraceInv') /\ (verify_and_collect' <=> verify_and_collect)
<1>1. UNCHANGED <<mode, loop, asked, conn, req, counters, left, bundle, stopped>>
  BY DEF NoTrace, traceVars
<1>2. verify_and_collect' <=> verify_and_collect
  BY <1>1 DEF verify_and_collect, Valid, Remaining, Keys
<1>3. TraceInv => TraceInv'
  <2> SUFFICES ASSUME TraceInv PROVE TraceInv'
    OBVIOUS
  <2> QED
    BY <1>1, ServerKeeps DEF TraceInv, TraceTypeOK, DrainedInv
<1> QED
  BY <1>1, <1>2, <1>3 DEF Verified, Quiet

LEMMA SettleShape ==
  ASSUME NEW s \in Final, NEW valid \in BOOLEAN, NEW score \in BOOLEAN, Settle(s, valid, score)
  PROVE  /\ status' = s /\ report'.status = s
         /\ report' \in [status : Final \cup {"none"}, valid : BOOLEAN, score : BOOLEAN]
  BY DEF Settle

LEMMA ConfigureKeeps ==
  ASSUME RunInv, Configure \/ SmokeGate \/ Prepare
  PROVE  RunInv'
<1>1. RunPart /\ TraceInv' /\ NoTrace
  BY TraceAtRest DEF RunInv, Configure, SmokeGate, Prepare
<1>2. (Verified' <=> Verified) /\ (Quiet' <=> Quiet) /\ mode' = mode
  BY <1>1, TraceAtRest
<1>3. /\ UNCHANGED <<entrypoint, summary, cut, plugin, error, verification, executed>>
      /\ stage \in {"configure", "smoke", "prepare"}
  BY DEF Configure, SmokeGate, Prepare, Keep, Goto
<1>4. \/ stage' \in {"smoke", "prepare", "start"} /\ UNCHANGED <<status, report>>
      \/ /\ stage' = "report" /\ status' \in {"failed", "invalid"} /\ report'.status = status'
         /\ report' \in [status : Final \cup {"none"}, valid : BOOLEAN, score : BOOLEAN]
  BY SettleShape DEF Configure, SmokeGate, Prepare, Goto, archive_run_failure, Final
<1>5. RunPart'
  BY <1>1, <1>2, <1>3, <1>4
     DEF RunPart, RunTypeOK, SettledInv, CleanupInv, ResultInv, Begun, Over, External, Final
<1> QED
  BY <1>1, <1>5 DEF RunInv

LEMMA StartKeeps ==
  ASSUME RunInv, StartTrace \/ Setup
  PROVE  RunInv'
<1>1. RunPart
  BY DEF RunInv
<1>2. /\ TraceInv' /\ mode' = mode
      /\ stopped' = stopped
  <2>1. CASE start
    <3>1. TraceInv'
      BY <2>1, ServerKeeps DEF RunInv, TraceInv, TraceTypeOK, DrainedInv, start, recorder
    <3> QED
      BY <2>1, <3>1 DEF start
  <2>2. CASE NoTrace
    BY <2>2, TraceAtRest DEF RunInv, NoTrace, traceVars
  <2> QED
    BY <2>1, <2>2 DEF StartTrace, Setup
<1>3. /\ UNCHANGED <<entrypoint, summary, cut, plugin, verification>>
      /\ stage \in {"start", "setup"} /\ status = "running"
  BY <1>1 DEF StartTrace, Setup, Keep, Goto, RunPart, SettledInv, Over
<1>4. CASE StartTrace
  <2>1. /\ UNCHANGED <<error, executed>> /\ ~executed
        /\ \/ stage' = "setup" /\ UNCHANGED <<status, report>>
           \/ /\ stage' = "report" /\ status' = "failed" /\ report'.status = status'
              /\ report' \in [status : Final \cup {"none"}, valid : BOOLEAN, score : BOOLEAN]
    BY <1>1, <1>4, SettleShape
       DEF StartTrace, Keep, Goto, archive_run_failure, Final, RunPart, SettledInv, Begun
  <2>2. RunTypeOK' /\ ResultInv' /\ CleanupInv'
    BY <1>1, <1>2, <1>3, <2>1 DEF RunPart, RunTypeOK, CleanupInv, ResultInv, External, Final
  <2>3. SettledInv'
    BY <1>1, <1>3, <2>1 DEF RunPart, SettledInv, Begun, Over, Final
  <2> QED
    BY <1>2, <2>2, <2>3 DEF RunInv, RunPart
<1>5. CASE Setup
  <2>1. /\ UNCHANGED <<status, report>> /\ executed' \in BOOLEAN
        /\ \/ stage' \in {"execute", "ended"} /\ UNCHANGED error
           \/ stage' = "stop" /\ error' = "execution"
    BY <1>5 DEF Setup, Keep, Goto
  <2>2. RunTypeOK' /\ ResultInv' /\ CleanupInv'
    BY <1>1, <1>2, <1>3, <2>1 DEF RunPart, RunTypeOK, CleanupInv, ResultInv, External, Final
  <2>3. SettledInv'
    BY <1>1, <1>3, <2>1 DEF RunPart, SettledInv, Begun, Over, Final
  <2> QED
    BY <1>2, <2>2, <2>3 DEF RunInv, RunPart
<1> QED
  BY <1>4, <1>5

LEMMA ExecuteKeeps ==
  ASSUME RunInv, Execute \/ Finalize
  PROVE  RunInv'
<1>1. RunPart /\ TraceInv' /\ mode' = mode
  BY TraceAtRest DEF RunInv, Execute, Finalize
<1>2. /\ UNCHANGED <<entrypoint, summary, cut, verification, executed, status, report>>
      /\ stage \in {"execute", "finalize"} /\ status = "running"
      /\ error' \in {"none", "execution", "trace", "signal"}
      /\ error' = "signal" => error = "signal"
  BY <1>1 DEF Execute, Finalize, Keep, Goto, RunPart, RunTypeOK, SettledInv, Over
<1>3. \/ stage' = "finalize" /\ UNCHANGED plugin
      \/ stage' = "stop" /\ External /\ UNCHANGED plugin
      \/ /\ stage' = "stop" /\ plugin' \in {"none", "ok", "failed"}
         /\ (External => plugin' = plugin)
  BY <1>1 DEF Execute, Finalize, Keep, Goto, Native, External, RunPart, RunTypeOK, CleanupInv
<1>4. RunPart'
  BY <1>1, <1>2, <1>3
     DEF RunPart, RunTypeOK, SettledInv, CleanupInv, ResultInv, Begun, Over, External, Final
<1> QED
  BY <1>1, <1>4 DEF RunInv

LEMMA StopKeeps ==
  ASSUME RunInv, StopTrace \/ StopOne
  PROVE  RunInv'
<1>1. RunPart /\ TraceInv /\ TraceTypeOK
  BY DEF RunInv, TraceInv
<1>2. CASE StopTrace
  <2>1. /\ UNCHANGED <<entrypoint, summary, cut, plugin, status, report, error, verification,
                       executed>>
        /\ stage = "stop" /\ status = "running"
    BY <1>1, <1>2 DEF StopTrace, Keep, RunPart, SettledInv, Over
  <2>2. CASE mode = "off"
    <3>1. stage' = "evaluate" /\ TraceInv' /\ mode' = mode
      BY <1>1, <1>2, <2>2, TraceAtRest DEF StopTrace
    <3>2. RunPart'
      BY <1>1, <2>1, <2>2, <3>1 DEF RunPart, RunTypeOK, SettledInv, CleanupInv, ResultInv,
           Begun, Over, External, Final, Quiet, Verified
    <3> QED
      BY <3>1, <3>2 DEF RunInv
  <2>3. CASE mode # "off"
    <3>1. /\ stage' = "stopping" /\ stopped' = "stopping"
          /\ UNCHANGED <<mode, loop, asked, conn, req, counters, left, bundle>>
      BY <1>2, <2>3 DEF StopTrace, recorder
    <3>2. TraceInv'
      BY <1>1, <2>3, <3>1, ServerKeeps DEF TraceTypeOK, DrainedInv
    <3>3. RunPart'
      BY <1>1, <2>1, <2>3, <3>1 DEF RunPart, RunTypeOK, SettledInv, CleanupInv, ResultInv,
           Begun, Over, External, Final
    <3> QED
      BY <3>2, <3>3 DEF RunInv
  <2> QED
    BY <2>2, <2>3
<1>3. CASE StopOne
  <2>1. /\ UNCHANGED <<mode, loop, stopped, conn, req, counters, left, bundle>>
        /\ asked' \subseteq Channels /\ UNCHANGED runVars /\ stage = "stopping"
    BY <1>1, <1>3 DEF StopOne, Shutdown, recorder, TraceTypeOK
  <2>2. TraceInv'
    BY <1>1, <2>1, ServerKeeps DEF TraceInv, TraceTypeOK, DrainedInv
  <2>3. RunPart'
    BY <1>1, <2>1 DEF RunPart, RunTypeOK, SettledInv, CleanupInv, ResultInv, Begun, Over,
         External, Final, runVars
  <2> QED
    BY <2>2, <2>3 DEF RunInv
<1> QED
  BY <1>2, <1>3

LEMMA StopEndsKeeps ==
  ASSUME RunInv, StopEnds
  PROVE  RunInv'
<1>1. RunPart /\ TraceInv /\ TraceTypeOK
  BY DEF RunInv, TraceInv
<1>2. /\ stopped' = Result
      /\ conn' = [k \in Conns |-> IF conn[k] = "open" THEN "open" ELSE "gone"]
      /\ UNCHANGED <<mode, loop, asked, req, counters, left, bundle>>
      /\ mode # "off" /\ status = "running" /\ stage = "stopping"
  BY <1>1 DEF StopEnds, Drain, Goto, recorder, RunPart, CleanupInv, SettledInv, Over
<1>3. stopped' \in {"drained", "timed_out"} /\ (stopped' = "drained" => \A k \in Conns : conn[k] # "open")
  BY <1>2 DEF Result
<1>4. TraceInv'
  <2>1. DrainedInv'
    BY <1>2, <1>3 DEF DrainedInv
  <2>2. conn' \in [Conns -> {"new", "backlog", "waiting", "open", "gone"}]
    BY <1>2
  <2>3. \A k \in Conns : ~(conn[k] = "open" /\ conn'[k] # "open")
    BY <1>2
  <2> QED
    BY <1>1, <1>2, <1>3, <2>1, <2>2, <2>3, ServerKeeps DEF TraceTypeOK
<1>5. /\ UNCHANGED <<entrypoint, summary, cut, plugin, status, report, verification, executed>>
      /\ \/ stage' = "verify" /\ stopped' = "drained" /\ error' = error
         \/ stage' = "evaluate" /\ error' = TraceError
  BY DEF StopEnds, Keep, Goto
<1>6. TraceError \in {"execution", "trace", "signal"} /\ (TraceError = "signal" => error = "signal")
  BY <1>1 DEF TraceError, RunPart, RunTypeOK
<1>7. RunPart'
  BY <1>1, <1>2, <1>5, <1>6
     DEF RunPart, RunTypeOK, SettledInv, CleanupInv, ResultInv, Begun, Over, External, Final
<1> QED
  BY <1>4, <1>7 DEF RunInv

LEMMA VerifyKeeps ==
  ASSUME RunInv, Verify
  PROVE  RunInv'
<1>1. RunPart /\ TraceInv' /\ mode' = mode /\ stopped' = stopped
      /\ (verify_and_collect' <=> verify_and_collect) /\ verify_and_collect \in BOOLEAN
  BY TraceAtRest DEF RunInv, Verify, NoTrace, traceVars, verify_and_collect
<1>2. /\ UNCHANGED <<entrypoint, summary, cut, plugin, status, report, executed>>
      /\ stage = "verify" /\ stage' = "evaluate" /\ status = "running"
      /\ mode # "off" /\ stopped = "drained"
      /\ \/ verification' = verify_and_collect /\ error' = error
         \/ verification' = verification /\ error' = TraceError
  BY <1>1 DEF Verify, Keep, Goto, RunPart, CleanupInv, SettledInv, Over
<1>3. TraceError \in {"execution", "trace", "signal"} /\ (TraceError = "signal" => error = "signal")
  BY <1>1 DEF TraceError, RunPart, RunTypeOK
<1>4. RunTypeOK' /\ ResultInv' /\ SettledInv'
  BY <1>1, <1>2, <1>3 DEF RunPart, RunTypeOK, SettledInv, ResultInv, Begun, Over, Final
<1>5. CleanupInv'
  BY <1>1, <1>2, <1>3 DEF RunPart, RunTypeOK, CleanupInv, Quiet, Verified, External
<1> QED
  BY <1>1, <1>4, <1>5 DEF RunInv, RunPart

LEMMA EndKeeps ==
  ASSUME RunInv, GoesOn \/ Raise \/ SettleNative \/ SettleExternal \/ Report
  PROVE  RunInv'
<1>1. RunPart /\ TraceInv' /\ (Verified' <=> Verified) /\ (Quiet' <=> Quiet) /\ mode' = mode
  BY TraceAtRest DEF RunInv, GoesOn, Raise, SettleNative, SettleExternal, Report
<1>2. CASE GoesOn
  <2>1. UNCHANGED <<entrypoint, summary, cut, plugin, status, report, error, verification, executed>>
        /\ stage = "evaluate" /\ stage' = "ended"
    BY <1>2 DEF GoesOn, Keep, Goto
  <2>2. RunPart'
    BY <1>1, <2>1
       DEF RunPart, RunTypeOK, SettledInv, CleanupInv, ResultInv, Begun, Over, External, Final
  <2> QED
    BY <1>1, <2>2 DEF RunInv
<1>3. CASE Raise \/ SettleNative \/ SettleExternal
  <2>1. UNCHANGED <<entrypoint, summary, cut, plugin, error, verification, executed>>
        /\ stage = "evaluate" /\ stage' = "report" /\ status = "running" /\ summary = NoReport
    BY <1>1, <1>3 DEF Raise, SettleNative, SettleExternal, Keep, Goto, RunPart, SettledInv,
         Over
  <2>2. /\ status' \in Final /\ report'.status = status'
        /\ report' \in [status : Final \cup {"none"}, valid : BOOLEAN, score : BOOLEAN]
        /\ status' \in {"passed", "partial"} =>
              error = "none" /\ verification /\ (Native => plugin # "failed")
    <3>1. CASE Raise
      BY <3>1, SettleShape DEF Raise, archive_run_failure, Final
    <3>2. CASE SettleExternal
      <4>1. PICK imported \in {"failed", "partial", "passed"} :
               Settle(IF imported # "failed" /\ ~verification THEN "invalid" ELSE imported,
                      verification, FALSE)
        BY <3>2 DEF SettleExternal
      <4>2. verification \in BOOLEAN /\ error = "none" /\ ~Native
        BY <1>1, <3>2 DEF SettleExternal, RunPart, RunTypeOK, Native, External
      <4> DEFINE s == IF imported # "failed" /\ ~verification THEN "invalid" ELSE imported
      <4>3. s \in Final /\ (s \in {"passed", "partial"} => verification)
        BY <4>2 DEF Final
      <4> HIDE DEF s
      <4>4. Settle(s, verification, FALSE)
        BY <4>1 DEF s
      <4> QED
        BY <4>2, <4>3, <4>4, SettleShape
    <3>3. CASE SettleNative
      <4>1. PICK scored \in BOOLEAN, within \in BOOLEAN, all \in BOOLEAN :
               LET valid == within /\ plugin # "failed" IN
               Settle(final_status(scored, valid, all), valid /\ verification, scored /\ valid)
        BY <3>3 DEF SettleNative
      <4>2. verification \in BOOLEAN /\ error = "none"
        BY <1>1, <3>3 DEF SettleNative, RunPart, RunTypeOK
      <4> DEFINE valid == within /\ plugin # "failed"
                 s == final_status(scored, valid, all)
                 v == valid /\ verification
                 w == scored /\ valid
      <4>3. s \in Final /\ (s \in {"passed", "partial"} => verification /\ plugin # "failed")
        BY <4>2 DEF Final, final_status
      <4>4. v \in BOOLEAN /\ w \in BOOLEAN /\ Settle(s, v, w)
        BY <4>1, <4>2
      <4> HIDE DEF s, v, w, valid
      <4> QED
        BY <4>2, <4>3, <4>4, SettleShape
    <3> QED
      BY <1>3, <3>1, <3>2, <3>3
  <2>3. ResultInv'
    BY <1>1, <2>1, <2>2 DEF RunPart, RunTypeOK, ResultInv, CleanupInv, Native, External
  <2>4. RunTypeOK' /\ SettledInv' /\ CleanupInv'
    BY <1>1, <2>1, <2>2 DEF RunPart, RunTypeOK, SettledInv, CleanupInv, Begun, Over, External
  <2> QED
    BY <1>1, <2>3, <2>4 DEF RunInv, RunPart
<1>4. CASE Report
  <2>1. /\ UNCHANGED <<entrypoint, plugin, status, report, error, verification, executed, cut>>
        /\ stage = "report" /\ stage' = "ended" /\ summary' = report
    BY <1>4 DEF Report, Goto
  <2>2. RunPart'
    BY <1>1, <2>1
       DEF RunPart, RunTypeOK, SettledInv, CleanupInv, ResultInv, Begun, Over, External, Final
  <2> QED
    BY <1>1, <2>2 DEF RunInv
<1> QED
  BY <1>2, <1>3, <1>4

LEMMA CutKeeps ==
  ASSUME RunInv, Interrupt \/ Crash
  PROVE  RunInv'
<1>1. RunPart /\ TraceInv' /\ (Verified' <=> Verified) /\ (Quiet' <=> Quiet) /\ mode' = mode
  BY TraceAtRest DEF RunInv, Interrupt, Crash
<1>2. CASE Crash
  <2>1. /\ UNCHANGED <<entrypoint, plugin, status, summary, report, error, verification, executed>>
        /\ stage # "ended" /\ stage' = "ended" /\ cut' = TRUE
    BY <1>2 DEF Crash
  <2>2. RunPart'
    BY <1>1, <2>1
       DEF RunPart, RunTypeOK, SettledInv, CleanupInv, ResultInv, Begun, Over, External, Final
  <2> QED
    BY <1>1, <2>2 DEF RunInv
<1>3. CASE Interrupt
  <2>1. /\ UNCHANGED <<entrypoint, plugin, status, summary, report, verification, executed>>
        /\ stage # "ended" /\ cut' = TRUE
    BY <1>3 DEF Interrupt
  <2>2. \/ /\ Native /\ stage \in {"execute", "finalize"} /\ stage' \in {"finalize", "stop"}
           /\ error' = "signal"
        \/ /\ Native /\ stage \in {"stopping", "verify"} /\ stage' = "evaluate" /\ error' = TraceError
        \/ stage' = "ended" /\ error' = error
    BY <1>3 DEF Interrupt
  <2>3. TraceError \in {"execution", "trace", "signal"}
    BY <1>1 DEF TraceError, RunPart, RunTypeOK
  <2>4. RunTypeOK' /\ SettledInv'
    BY <1>1, <2>1, <2>2, <2>3 DEF RunPart, RunTypeOK, SettledInv, Begun, Over, Final
  <2>5. CleanupInv' /\ ResultInv'
    BY <1>1, <2>1, <2>2, <2>3 DEF RunPart, CleanupInv, ResultInv, External, Native
  <2> QED
    BY <1>1, <2>4, <2>5 DEF RunInv, RunPart
<1> QED
  BY <1>2, <1>3

LEMMA BeneathKeeps ==
  ASSUME RunInv, Beneath
  PROVE  RunInv'
<1>1. RunPart /\ TraceInv /\ TraceInv' /\ TraceNext
  BY TraceKeeps DEF RunInv, Beneath
<1>2. UNCHANGED <<entrypoint, plugin, stage, status, summary, report, error, verification, executed,
                  cut>>
  BY DEF Beneath, runVars
<1>3. Quiet => UNCHANGED <<mode, stopped, counters, left>>
  BY <1>1, QuietStays
<1>4. ASSUME UNCHANGED <<mode, stopped, counters, left>>
      PROVE  (Verified' <=> Verified) /\ (Quiet' <=> Quiet)
  BY <1>4 DEF Verified, Quiet, verify_and_collect, Valid, Remaining, Keys
<1>5. /\ Quiet => Quiet' /\ (Verified' <=> Verified)
      /\ Verified => Quiet
  BY <1>3, <1>4 DEF Verified, Quiet
<1>6. UNCHANGED <<mode, stopped>>
  <2>1. CASE Handler
    BY <1>1, <2>1, HandlerSteps DEF Handler, HandlerStep, servers
  <2>2. CASE Accepting
    BY <2>2 DEF Accepting, process_request, SlotAcquired
  <2>3. CASE \E k \in Conns : Connect(k) \/ ConnectionEnds(k)
    BY <2>3 DEF Connect, ConnectionEnds, servers
  <2>4. CASE \E c \in Channels : LoopEnds(c)
    BY <2>4 DEF LoopEnds
  <2> QED
    BY <1>1, <2>1, <2>2, <2>3, <2>4 DEF TraceNext
<1>7. RunPart'
  BY <1>1, <1>2, <1>5, <1>6
     DEF RunPart, RunTypeOK, SettledInv, CleanupInv, ResultInv, Begun, Over, External, Final
<1> QED
  BY <1>1, <1>7 DEF RunInv

LEMMA RunKeeps == RunInv /\ [Next]_vars => RunInv'
<1> SUFFICES ASSUME RunInv, [Next]_vars PROVE RunInv'
  OBVIOUS
<1>1. CASE UNCHANGED vars
  <2>1. TraceInv'
    BY <1>1, TraceAtRest DEF RunInv, vars, NoTrace
  <2>2. /\ (Verified' <=> Verified) /\ (Quiet' <=> Quiet) /\ mode' = mode /\ stopped' = stopped
        /\ UNCHANGED <<entrypoint, plugin, stage, status, summary, report, error, verification,
                       executed, cut>>
    BY <1>1, TraceAtRest DEF vars, NoTrace, runVars, traceVars
  <2>3. RunPart'
    BY <2>2 DEF RunInv, RunPart, RunTypeOK, SettledInv, CleanupInv, ResultInv, Begun, Over,
         External, Final
  <2> QED
    BY <2>1, <2>3 DEF RunInv
<1> QED
  BY <1>1, ConfigureKeeps, StartKeeps, ExecuteKeeps, StopKeeps, StopEndsKeeps, VerifyKeeps,
     EndKeeps, CutKeeps, BeneathKeeps
     DEF Next, Main

-----------------------------------------------------------------------------
(* The theorems *)

\* The inductive invariant of a run and of the trace runtime beneath it (cli.py,
\* 1187-1741; trace_runtime/runtime.py).
THEOREM RunInvariance == Spec => []RunInv
  BY RunStarts, RunKeeps, PTL DEF Spec

\* A run published as a result rests on a faithful trace, with nothing still going
\* on, and on a plugin that was put back (cli.py, 1594-1628).
THEOREM ResultsAreFaithful == Spec => []PublishedInv
<1>1. RunInv => PublishedInv
  <2> SUFFICES ASSUME RunInv PROVE PublishedInv
    OBVIOUS
  <2>1. TypeOK
    BY DEF RunInv, RunPart, RunTypeOK, TraceInv, TypeOK
  <2>2. PublishedRunIsFaithful
    BY QuietIsFaithful DEF PublishedRunIsFaithful, RunInv, RunPart, ResultInv, Verified
  <2> QED
    BY <2>1, <2>2 DEF PublishedInv
<1> QED
  BY <1>1, RunInvariance, PTL

\* The run as somebody sees it who looks at its directory.
seen == <<status, summary.status, executed, cut, stage = "ended">>

LEMMA OutcomeSteps ==
  ASSUME RunInv, [Next]_vars
  PROVE  [Outcome!Next]_seen
<1>1. RunPart
  BY DEF RunInv
<1>2. ASSUME UNCHANGED <<status, summary, executed, cut>>, stage # "ended", stage' # "ended"
      PROVE  UNCHANGED seen
  BY <1>2 DEF seen
<1>3. ASSUME UNCHANGED <<summary, executed, cut>>, status = "running", status' \in Final,
             stage # "ended", stage' # "ended"
      PROVE  Outcome!Next
  BY <1>3 DEF Outcome!Next, Outcome!Settle, Outcome!Final, Final
<1>4. ASSUME UNCHANGED <<status, summary, cut, executed>>, stage # "ended", stage' = "ended",
             ~executed \/ cut
      PROVE  Outcome!Next
  BY <1>4 DEF Outcome!Next, Outcome!GiveUp
<1>5. ASSUME UNCHANGED <<status, summary, executed>>, stage # "ended", cut' = TRUE
      PROVE  Outcome!Next
  BY <1>5 DEF Outcome!Next, Outcome!Cut
<1>6. CASE Configure \/ SmokeGate \/ Prepare
  <2>1. /\ UNCHANGED <<summary, executed, cut>> /\ status = "running"
        /\ \/ status' = status /\ stage' \in {"smoke", "prepare", "start"}
           \/ status' \in Final /\ stage' = "report"
        /\ stage \in {"configure", "smoke", "prepare"}
    BY <1>1, <1>6, SettleShape DEF Configure, SmokeGate, Prepare, Keep, Goto,
         archive_run_failure, Final, RunPart, SettledInv, Over
  <2> QED
    BY <1>2, <1>3, <2>1
<1>7. CASE StartTrace
  <2>1. /\ UNCHANGED <<summary, executed, cut>> /\ status = "running" /\ stage = "start"
        /\ \/ status' = status /\ stage' = "setup"
           \/ status' \in Final /\ stage' = "report"
    BY <1>1, <1>7, SettleShape DEF StartTrace, Keep, Goto, archive_run_failure, Final,
         RunPart, SettledInv, Over
  <2> QED
    BY <1>2, <1>3, <2>1
<1>8. CASE Setup
  <2>1. /\ UNCHANGED <<status, summary, cut>> /\ status = "running" /\ ~executed
        /\ executed \in BOOLEAN /\ stage = "setup"
        /\ \/ stage' = "execute" /\ executed' = TRUE
           \/ stage' \in {"stop", "ended"} /\ executed' = FALSE
    BY <1>1, <1>8 DEF Setup, Keep, Goto, RunPart, RunTypeOK, SettledInv, Begun, Over
  <2>2. CASE stage' = "execute"
    BY <2>1, <2>2 DEF Outcome!Next, Outcome!Execute
  <2>3. CASE stage' \in {"stop", "ended"}
    BY <1>2, <1>4, <2>1, <2>3
  <2> QED
    BY <2>1, <2>2, <2>3
<1>9. CASE Execute \/ Finalize
  BY <1>2, <1>9 DEF Execute, Finalize, Keep, Goto
<1>10. CASE StopTrace
  BY <1>2, <1>10 DEF StopTrace, Keep
<1>11. CASE StopOne
  BY <1>2, <1>11 DEF StopOne, runVars
<1>12. CASE StopEnds
  BY <1>2, <1>12 DEF StopEnds, Keep, Goto
<1>13. CASE Verify
  BY <1>2, <1>13 DEF Verify, Keep, Goto
<1>14. CASE GoesOn
  BY <1>1, <1>4, <1>14 DEF GoesOn, Keep, Goto, RunPart, SettledInv
<1>15. CASE Raise \/ SettleNative \/ SettleExternal
  <2>1. /\ UNCHANGED <<summary, executed, cut>> /\ status = "running"
        /\ stage = "evaluate" /\ stage' = "report"
    BY <1>1, <1>15 DEF Raise, SettleNative, SettleExternal, Keep, Goto, RunPart, SettledInv,
         Over
  <2>2. status' \in Final
    BY <1>15 DEF Raise, SettleNative, SettleExternal, archive_run_failure, Settle,
         final_status, Final
  <2> QED
    BY <1>3, <2>1, <2>2
<1>16. CASE Report
  BY <1>1, <1>16 DEF Report, Goto, RunPart, SettledInv, NoReport, Outcome!Next,
       Outcome!Publish, Outcome!Final, Final
<1>17. CASE Interrupt \/ Crash
  BY <1>5, <1>17 DEF Interrupt, Crash
<1>18. CASE Beneath
  BY <1>2, <1>18 DEF Beneath, runVars
<1>19. CASE UNCHANGED vars
  BY <1>19 DEF vars, runVars, seen
<1> QED
  BY <1>6, <1>7, <1>8, <1>9, <1>10, <1>11, <1>12, <1>13, <1>14, <1>15, <1>16, <1>17, <1>18,
     <1>19
     DEF Next, Main

\* Somebody who looks at the run directory sees a run of RunOutcome: one final
\* status, and a summary that says the same (cli.py, 1243-1300, 1500-1628).
THEOREM ImplementsTheOutcome == Spec => ImplementsOutcome
<1>1. Init => Outcome!Init
  BY DEF Init, NoReport, Outcome!Init
<1>2. RunInv /\ [Next]_vars => [Outcome!Next]_seen
  BY OutcomeSteps
<1> QED
  BY <1>1, <1>2, RunInvariance, PTL DEF Spec, ImplementsOutcome, Outcome!Spec, seen

-----------------------------------------------------------------------------
(* The invariant of the token ledger *)

\* What the variables are made of.
Lines == {Call("agent", a, k) : a \in Attempts, k \in 1..NumCalls}
Uses == (SUBSET Calls) \cup {Missing}
CounterType == [gen : Nat, n : 0..NumCalls, ever : 0..NumCalls]
EventType == [event : {"started", "finished"}, request : Prompts, use : Uses]
RunType == [at : {"idle", "before1", "before2", "before", "after1", "after2", "after",
                  "looked", "claimed", "open", "closed", "failed", "dead"},
            start : [id : Nat, offset : Nat], seen : CounterType, before : CounterType,
            after : CounterType]
AttType == [at : {"none", "calling", "answered", "failed", "summed", "unsummed", "over"},
            before : [ino : Int, size : Nat], read : SUBSET Lines]
Ids == {<<"agent", a, k>> : a \in Attempts, k \in 0..NumCalls}
          \cup {<<"task", 1, 0>>, <<"counter", 1, 0>>} \cup {<<"proxy", q, 0>> : q \in Prompts}
RowType == [run : Runs, id : Ids, revision : {-1, 0, 1},
            granularity : {"agent_attempt", "request", "task", "run"},
            selected : BOOLEAN, use : Uses]
PostType == {"none", "upstream", "complete", "unmetered", "failed", "audited",
             "unaudited", "refused", "over", "delivered"}

\* The types, one variable at a time.
SourceTypes == source \in Sources /\ faults \in 0..MaxTrouble[source]
AuditTypes ==
    /\ audit \in [id : Nat \ {0}, owner : Runs \cup {NoRun}, log : Seq(EventType)]
    /\ post \in [Prompts -> PostType] /\ began \in [Runs -> SUBSET Prompts]
RunTypes == run \in [Runs -> RunType]
RowTypes == rows \in Seq(RowType)
SessionTypes == session \in [ino : Nat, lines : Seq(Lines)]
AgentTypes ==
    /\ att \in [Attempts -> AttType]
    /\ gateway \in [made : [Attempts -> 0..NumCalls], on : SUBSET Attempts]
CounterTypes == counter \in [gen : Nat \ {0}, n : 0..NumCalls, ever : 0..NumCalls]
Types ==
    /\ SourceTypes /\ AuditTypes /\ RunTypes /\ RowTypes /\ SessionTypes /\ AgentTypes
    /\ CounterTypes

\* What another kind of evidence is about rests.
RestInv ==
    /\ source # "agent" =>
          gateway.on = {} /\ \A a \in Attempts : att[a].at = "none"
    /\ source # "proxy" => \A q \in Prompts : post[q] = "none"
    /\ source \notin {"counter", "proxy"} => \A r \in Runs : run[r] = Idle
    /\ source = "counter" => \A r \in Runs : r # TheRun => run[r].at \in {"idle", "dead"}
    /\ source = "counter" => \A r \in Runs :
          run[r].at \in {"idle", "before1", "before2", "before", "after1", "after2", "after",
                         "closed", "dead"}
    /\ source = "proxy" => \A r \in Runs :
          run[r].at \in {"idle", "looked", "claimed", "open", "closed", "failed", "dead"}

\* The rows of an agent: two of each attempt, the second without revision 0 if
\* that was lost, and one of each line that was read.
LineRow(a, k) ==
    Row(TheRun, Call("agent", a, k), -1, "request", TRUE, {Call("agent", a, k)})
CallsOf(a) == {Call("agent", a, k) : k \in 1..gateway.made[a]}
IsAttempt(i, a, rev) ==
    /\ rows[i].id = <<"agent", a, 0>> /\ rows[i].revision = rev
    /\ rows[i].granularity = "agent_attempt" /\ rows[i].run = TheRun
AgentRow(i) ==
    \E a \in Attempts :
       \/ IsAttempt(i, a, 0) /\ rows[i].use = Missing /\ att[a].at # "none"
       \/ /\ IsAttempt(i, a, 1) /\ att[a].at = "over"
          /\ rows[i].use # Missing => rows[i].use = CallsOf(a) /\ a \notin gateway.on
       \/ \E k \in 1..gateway.made[a] :
             rows[i] = LineRow(a, k) /\ \E b \in Attempts : Call("agent", a, k) \in att[b].read
AgentRowsInv == \A i \in DOMAIN rows : AgentRow(i)
OneResponse ==
    \A i, j \in DOMAIN rows, a \in Attempts :
       IsAttempt(i, a, 1) /\ IsAttempt(j, a, 1) => i = j

\* The attempts of a session follow each other.
AttemptInv ==
    /\ \A a, b \in Attempts : a < b => att[b].at = "none" \/ att[a].at = "over"
    /\ \A a \in Attempts :
          /\ att[a].at = "none" => a \notin gateway.on /\ gateway.made[a] = 0
          /\ att[a].at \in {"answered", "summed"} => a \notin gateway.on /\ gateway.made[a] > 0
          /\ att[a].at \in {"none", "calling", "answered", "failed"} => att[a].read = {}
          /\ gateway.made[a] > 0 => session.ino > 0
          /\ att[a].before.ino <= session.ino
\* Whose line it is, and who may have read it.
LinesInv ==
    /\ \A k \in DOMAIN session.lines :
          \E a \in Attempts : \E m \in 1..gateway.made[a] : session.lines[k] = Call("agent", a, m)
    /\ \A b \in Attempts : \A x \in att[b].read :
          \E a \in Attempts : \E m \in 1..gateway.made[a] : a <= b /\ x = Call("agent", a, m)

\* The lines of an attempt whose response counts: none was read, none will be.
Summed(a) ==
    \E i \in DOMAIN rows : IsAttempt(i, a, 1) /\ rows[i].selected /\ rows[i].use # Missing
SummedInv ==
    \A a \in Attempts : Summed(a) =>
       /\ gateway.made[a] > 0
       /\ \A b \in Attempts, m \in 1..NumCalls : Call("agent", a, m) \notin att[b].read
       /\ \A b \in Attempts : a < b /\ att[b].at \in {"calling", "answered", "failed"} =>
             /\ att[b].before.ino # 0
             /\ att[b].before.ino = session.ino =>
                   \A k \in DOMAIN session.lines, m \in 1..NumCalls :
                      session.lines[k] = Call("agent", a, m) => k <= att[b].before.size

TaskRow(i) ==
    \E use \in {{Call("task", 1, 0)}, Missing} :
       rows[i] = Row(TheRun, <<"task", 1, 0>>, -1, "task", TRUE, use)
TaskInv == \A i \in DOMAIN rows : TaskRow(i)

\* What a snapshot has read, when the container is still that one.
Fits(c) == c.gen = counter.gen => counter.n - c.n = counter.ever - c.ever
CounterInv ==
       /\ counter.n <= counter.ever
       /\ \A r \in Runs :
            /\ run[r].seen.gen <= counter.gen
            /\ run[r].at \in {"before2", "after2"} => Fits(run[r].seen)
            /\ run[r].before.gen <= counter.gen /\ Fits(run[r].before)
            /\ run[r].after.gen = run[r].before.gen =>
                  run[r].after.n - run[r].before.n = run[r].after.ever - run[r].before.ever
            /\ run[r].at \in {"idle", "before1", "before2", "before", "after1", "after2"} =>
                  run[r].after = NoCounter
            /\ run[r].at \in {"idle", "before1", "before2"} => run[r].before = NoCounter
CounterRow ==
    /\ rows[1].run = TheRun /\ rows[1].id = <<"counter", 1, 0>>
    /\ rows[1].use # Missing =>
          LET b == run[TheRun].before
              a == run[TheRun].after
          IN  /\ b.gen = a.gen /\ b.n <= a.n
              /\ rows[1].use = {Call("counter", i, 0) : i \in b.n + 1 .. a.n}
CounterRowsInv ==
       \/ rows = <<>> /\ run[TheRun].at # "closed"
       \/ Len(rows) = 1 /\ run[TheRun].at \in {"closed", "dead"} /\ CounterRow

\* The audit: a request starts once, and what was delivered is written.
LogInv ==
    /\ \A i, j \in DOMAIN audit.log :
          /\ audit.log[i].event = "started" => post[audit.log[i].request] # "none"
          /\ audit.log[i].event = "started" /\ audit.log[j].event = "started"
                /\ audit.log[i].request = audit.log[j].request => i = j
    /\ \A i \in DOMAIN audit.log :
          /\ audit.log[i].event = "finished" =>
                audit.log[i].use \in {Missing, {RequestCall(audit.log[i].request)}}
          /\ audit.log[i].event = "started"
                /\ post[audit.log[i].request] \in {"audited", "delivered"} =>
                \E j \in DOMAIN audit.log : i < j /\
                   audit.log[j] = Event("finished", audit.log[i].request,
                                        {RequestCall(audit.log[i].request)})

\* The windows: what began in one, and that no two of one audit are closed.
WindowInv ==
       /\ \A r \in Runs : \A q \in began[r] : post[q] # "none"
       /\ \A r \in Runs : run[r].at \in {"idle", "looked", "claimed"} => began[r] = {}
       /\ \A r \in Runs : run[r].start.id <= audit.id
       /\ \A r \in Runs : run[r].at = "open" /\ run[r].start.id = audit.id =>
             /\ run[r].start.offset <= Len(audit.log)
             /\ \A q \in Prompts : q \in began[r] <=>
                   \E i \in DOMAIN audit.log : run[r].start.offset < i
                      /\ audit.log[i].event = "started" /\ audit.log[i].request = q
       /\ \A r, s \in Runs : began[r] \cap began[s] # {} => run[r].start.id = run[s].start.id
HasRows(r) == \E i \in DOMAIN rows : rows[i].run = r
ProxyRow(i) ==
    LET r == rows[i].run
    IN  \E q \in began[r] :
           /\ rows[i].id = <<"proxy", q, 0>> /\ rows[i].selected /\ rows[i].granularity = "request"
           /\ rows[i].use \in {Missing, {RequestCall(q)}}
           /\ run[r].at \in {"closed", "dead"}
ProxyRowsInv ==
       /\ \A i \in DOMAIN rows : ProxyRow(i)
       /\ \A i, j \in DOMAIN rows :
             rows[i].run = rows[j].run /\ rows[i].id = rows[j].id => i = j
       /\ \A r \in Runs : run[r].at = "closed" => \A q \in began[r] :
             \E i \in DOMAIN rows : rows[i].run = r /\ rows[i].id = <<"proxy", q, 0>>
       /\ \A r, s \in Runs :
             HasRows(r) /\ HasRows(s) /\ run[r].start.id = run[s].start.id => r = s
       /\ \A r \in Runs : HasRows(r) /\ run[r].start.id = audit.id => audit.owner = r

\* Rows of one record agree on what counts.
Known(i) == rows[i].selected /\ rows[i].use # Missing
RowsAgree ==
    \A i, j \in DOMAIN rows : rows[i].run = rows[j].run /\ rows[i].id = rows[j].id =>
        /\ rows[i].granularity \in {"task", "run"} <=> rows[j].granularity \in {"task", "run"}
        /\ Known(i) /\ (IF rows[j].granularity \in {"task", "run"} THEN rows[j].use # Missing
                         ELSE rows[i].revision <= rows[j].revision) =>
              rows[j].selected /\ rows[j].use = rows[i].use
Evident == UNION {rows[i].use : i \in {j \in DOMAIN rows : Known(j)}}
CountedIsEvident == Counted = Evident

AgentInv == AgentRowsInv /\ OneResponse /\ AttemptInv /\ LinesInv /\ SummedInv
LedgerIndInv ==
    /\ Types /\ RestInv
    /\ source = "agent" => AgentInv
    /\ source = "task" => TaskInv
    /\ source = "counter" => CounterInv /\ CounterRowsInv
    /\ source = "proxy" => LogInv /\ WindowInv /\ ProxyRowsInv

-----------------------------------------------------------------------------
\* Finite sets of numbers have a last and a first element.
LEMMA LastExists ==
    ASSUME NEW R \in SUBSET Int, IsFiniteSet(R), R # {}
    PROVE  \E i \in R : \A j \in R : j <= i
<1> DEFINE Above(i) == {j \in R : i < j}
           T == {Above(i) : i \in R}
<1>1. T \subseteq FiniteSubsetsOf(R) /\ T # {}
  <2>1. ASSUME NEW i \in R
        PROVE  Above(i) \in SUBSET R /\ IsFiniteSet(Above(i))
    <3>1. Above(i) \in SUBSET R
      OBVIOUS
    <3> QED
      BY <3>1, FS_Subset
  <2> QED
    BY <2>1 DEF FiniteSubsetsOf
<1>2. PICK x \in T : \A y \in T : ~(<<y, x>> \in StrictSubsetOrdering(R))
  BY <1>1, FS_StrictSubsetOrderingWellFounded, WFMin
<1>3. PICK i \in R : x = Above(i)
  BY <1>2
<1>4. ASSUME NEW j \in R, i < j
      PROVE  FALSE
  <2>1. Above(j) \in T /\ Above(j) \subseteq Above(i)
    <3>1. Above(j) \in T
      OBVIOUS
    <3>2. i \in Int /\ j \in Int /\ \A k \in R : k \in Int
      OBVIOUS
    <3>3. \A k \in R : j < k => i < k
      BY <1>4, <3>2
    <3> QED
      BY <3>1, <3>3
  <2>2. j \in Above(i) /\ j \notin Above(j)
    BY <1>4
  <2>3. <<Above(j), x>> \in StrictSubsetOrdering(R)
    BY <2>1, <2>2, <1>3 DEF StrictSubsetOrdering
  <2> QED
    BY <2>1, <2>3, <1>2
<1> QED
  BY <1>4

LEMMA FirstExists ==
    ASSUME NEW R \in SUBSET Int, IsFiniteSet(R), R # {}
    PROVE  \E i \in R : \A j \in R : i <= j
<1> DEFINE Below(i) == {j \in R : j < i}
           T == {Below(i) : i \in R}
<1>1. T \subseteq FiniteSubsetsOf(R) /\ T # {}
  <2>1. ASSUME NEW i \in R
        PROVE  Below(i) \in SUBSET R /\ IsFiniteSet(Below(i))
    <3>1. Below(i) \in SUBSET R
      OBVIOUS
    <3> QED
      BY <3>1, FS_Subset
  <2> QED
    BY <2>1 DEF FiniteSubsetsOf
<1>2. PICK x \in T : \A y \in T : ~(<<y, x>> \in StrictSubsetOrdering(R))
  BY <1>1, FS_StrictSubsetOrderingWellFounded, WFMin
<1>3. PICK i \in R : x = Below(i)
  BY <1>2
<1>4. ASSUME NEW j \in R, j < i
      PROVE  FALSE
  <2>1. Below(j) \in T /\ Below(j) \subseteq Below(i)
    <3>1. Below(j) \in T
      OBVIOUS
    <3>2. i \in Int /\ j \in Int /\ \A k \in R : k \in Int
      OBVIOUS
    <3>3. \A k \in R : k < j => k < i
      BY <1>4, <3>2
    <3> QED
      BY <3>1, <3>3
  <2>2. j \in Below(i) /\ j \notin Below(j)
    BY <1>4
  <2>3. <<Below(j), x>> \in StrictSubsetOrdering(R)
    BY <2>1, <2>2, <1>3 DEF StrictSubsetOrdering
  <2> QED
    BY <2>1, <2>3, <1>2
<1> QED
  BY <1>4

\* A sequence that grows at its end.
LEMMA Longer ==
    ASSUME NEW S, NEW s \in Seq(S), NEW t \in Seq(S)
    PROVE  /\ s \o t \in Seq(S) /\ Len(s) \in Nat /\ Len(t) \in Nat
           /\ DOMAIN s = 1..Len(s) /\ DOMAIN t = 1..Len(t)
           /\ DOMAIN (s \o t) = 1..(Len(s) + Len(t))
           /\ \A i \in 1..Len(s) : (s \o t)[i] = s[i]
           /\ \A i \in 1..Len(t) : (s \o t)[Len(s) + i] = t[i]
           /\ \A i \in DOMAIN (s \o t) : i \in 1..Len(s) \/ i - Len(s) \in 1..Len(t)
  OBVIOUS

LEMMA WithoutOne ==
    ASSUME NEW S, NEW s \in Seq(S), NEW i \in DOMAIN s
    PROVE  /\ RemoveAt(s, i) \in Seq(S) /\ Len(RemoveAt(s, i)) = Len(s) - 1
           /\ \A j \in DOMAIN RemoveAt(s, i) : \E k \in DOMAIN s : RemoveAt(s, i)[j] = s[k]
<1> DEFINE a == SubSeq(s, 1, i - 1)
           b == SubSeq(s, i + 1, Len(s))
<1>1. Len(s) \in Nat /\ i \in 1..Len(s)
  OBVIOUS
<1>2. /\ a \in Seq(S) /\ Len(a) = i - 1
      /\ \A k \in 1..Len(a) : k \in DOMAIN s /\ a[k] = s[k]
  BY <1>1
<1>3. /\ b \in Seq(S) /\ Len(b) = Len(s) - i
      /\ \A k \in 1..Len(b) : i + k \in DOMAIN s /\ b[k] = s[i + k]
  BY <1>1
<1>4. RemoveAt(s, i) = a \o b
  BY DEF RemoveAt
<1> HIDE DEF a, b
<1>5. /\ a \o b \in Seq(S) /\ DOMAIN (a \o b) = 1..(Len(a) + Len(b))
      /\ \A k \in 1..Len(a) : (a \o b)[k] = a[k]
      /\ \A k \in 1..Len(b) : (a \o b)[Len(a) + k] = b[k]
      /\ \A k \in DOMAIN (a \o b) : k \in 1..Len(a) \/ k - Len(a) \in 1..Len(b)
  <2>1. a \in Seq(S) /\ b \in Seq(S)
    BY <1>2, <1>3
  <2> QED
    BY <2>1, Longer
<1>6. Len(a \o b) = Len(s) - 1
  BY <1>1, <1>2, <1>3
<1>7. ASSUME NEW j \in DOMAIN (a \o b)
      PROVE  \E k \in DOMAIN s : (a \o b)[j] = s[k]
  <2>1. CASE j \in 1..Len(a)
    BY <2>1, <1>2, <1>5
  <2>2. CASE j - Len(a) \in 1..Len(b)
    <3>1. j = Len(a) + (j - Len(a))
      BY <1>1, <1>2, <1>3, <1>5
    <3>2. (a \o b)[j] = b[j - Len(a)]
      BY <2>2, <3>1, <1>5
    <3> QED
      BY <2>2, <3>2, <1>3
  <2> QED
    BY <2>1, <2>2, <1>5
<1> QED
  BY <1>4, <1>5, <1>6, <1>7
-----------------------------------------------------------------------------
\* How the shards grow: new rows are in T, and there is one at most.
GrowsBy(T) ==
    /\ rows' \in Seq(RowType) /\ DOMAIN rows \subseteq DOMAIN rows'
    /\ \A i \in DOMAIN rows : rows'[i] = rows[i]
    /\ \A i \in DOMAIN rows' \ DOMAIN rows : rows'[i] \in T
OneMore == \A i, j \in DOMAIN rows' \ DOMAIN rows : i = j

LEMMA GrowsByConcat ==
    ASSUME RowTypes, NEW t \in Seq(RowType), rows' = rows \o t
    PROVE  GrowsBy({t[i] : i \in DOMAIN t}) /\ (Len(t) <= 1 => OneMore)
<1>1. /\ rows \o t \in Seq(RowType) /\ Len(rows) \in Nat /\ Len(t) \in Nat
      /\ DOMAIN rows = 1..Len(rows) /\ DOMAIN t = 1..Len(t)
      /\ DOMAIN (rows \o t) = 1..(Len(rows) + Len(t))
      /\ \A i \in 1..Len(rows) : (rows \o t)[i] = rows[i]
      /\ \A i \in 1..Len(t) : (rows \o t)[Len(rows) + i] = t[i]
      /\ \A i \in DOMAIN (rows \o t) : i \in 1..Len(rows) \/ i - Len(rows) \in 1..Len(t)
  <2>1. rows \in Seq(RowType)
    BY DEF RowTypes
  <2> QED
    BY <2>1, Longer
<1> DEFINE m == Len(rows)
           n == Len(t)
<1>2. /\ m \in Nat /\ n \in Nat /\ DOMAIN rows = 1..m /\ DOMAIN t = 1..n
      /\ DOMAIN rows' = 1..(m + n)
      /\ \A i \in 1..m : rows'[i] = rows[i]
      /\ \A i \in 1..n : rows'[m + i] = t[i]
      /\ \A i \in DOMAIN rows' : i \in 1..m \/ i - m \in 1..n
  BY <1>1
<1>3. rows' \in Seq(RowType)
  BY <1>1
<1> HIDE DEF m, n
<1>4. ASSUME NEW i \in DOMAIN rows' \ DOMAIN rows
      PROVE  i - m \in 1..n /\ rows'[i] = t[i - m]
  <2>1. i - m \in 1..n /\ i = m + (i - m)
    BY <1>2
  <2> QED
    BY <2>1, <1>2
<1>5. GrowsBy({t[i] : i \in DOMAIN t})
  <2>1. DOMAIN rows \subseteq DOMAIN rows'
    BY <1>2
  <2>2. \A i \in DOMAIN rows : rows'[i] = rows[i]
    BY <1>2
  <2>3. \A i \in DOMAIN rows' \ DOMAIN rows : rows'[i] \in {t[k] : k \in DOMAIN t}
    BY <1>4, <1>2
  <2> QED
    BY <1>3, <2>1, <2>2, <2>3 DEF GrowsBy
<1>6. ASSUME n <= 1 PROVE OneMore
  <2>1. ASSUME NEW i \in DOMAIN rows' \ DOMAIN rows, NEW j \in DOMAIN rows' \ DOMAIN rows
        PROVE  i = j
    <3>1. i - m \in 1..n /\ j - m \in 1..n /\ i \in Int /\ j \in Int
      BY <1>4, <1>2
    <3> QED
      BY <3>1, <1>2, <1>6
  <2> QED
    BY <2>1 DEF OneMore
<1> QED
  BY <1>5, <1>6 DEF n

LEMMA GrowsByAppend ==
    ASSUME RowTypes, NEW e \in RowType, rows' = Append(rows, e)
    PROVE  GrowsBy({e}) /\ OneMore /\ DOMAIN rows' = DOMAIN rows \cup {Len(rows) + 1}
           /\ rows'[Len(rows) + 1] = e /\ Len(rows') = Len(rows) + 1
<1>1. rows \in Seq(RowType) /\ Len(rows) \in Nat /\ DOMAIN rows = 1..Len(rows)
  BY DEF RowTypes
<1>2. /\ rows' \in Seq(RowType) /\ DOMAIN rows' = 1..(Len(rows) + 1) /\ Len(rows') = Len(rows) + 1
      /\ \A i \in 1..Len(rows) : rows'[i] = rows[i]
      /\ rows'[Len(rows) + 1] = e
  BY <1>1
<1>3. DOMAIN rows' = DOMAIN rows \cup {Len(rows) + 1}
  BY <1>1, <1>2
<1>4. GrowsBy({e}) /\ OneMore
  BY <1>1, <1>2, <1>3 DEF GrowsBy, OneMore
<1> QED
  BY <1>2, <1>3, <1>4

LEMMA GrowsByLog ==
    ASSUME RowTypes, NEW new \in Seq(RowType), Log(new)
    PROVE  GrowsBy({new[i] : i \in DOMAIN new}) /\ (Len(new) <= 1 => OneMore)
<1>1. CASE rows' = rows \o new
  BY <1>1, GrowsByConcat
<1>2. CASE \E i \in DOMAIN new : rows' = rows \o RemoveAt(new, i)
  <2>1. PICK i \in DOMAIN new : rows' = rows \o RemoveAt(new, i)
    BY <1>2
  <2> DEFINE t == RemoveAt(new, i)
  <2>2. /\ t \in Seq(RowType) /\ Len(t) = Len(new) - 1
        /\ \A j \in DOMAIN t : \E k \in DOMAIN new : t[j] = new[k]
    BY WithoutOne
  <2>3. rows' = rows \o t
    BY <2>1
  <2> HIDE DEF t
  <2>4. GrowsBy({t[j] : j \in DOMAIN t}) /\ (Len(t) <= 1 => OneMore)
    BY <2>2, <2>3, GrowsByConcat
  <2>5. {t[j] : j \in DOMAIN t} \subseteq {new[k] : k \in DOMAIN new}
    BY <2>2
  <2>6. Len(new) \in Nat
    OBVIOUS
  <2> QED
    BY <2>2, <2>4, <2>5, <2>6 DEF GrowsBy
<1> QED
  BY <1>1, <1>2 DEF Log
-----------------------------------------------------------------------------
\* Which rows each step adds.
LEMMA LedgerData ==
    /\ TheRun \in Runs /\ Missing \in Uses /\ Missing \notin SUBSET Calls
    /\ NumAttempts \in Nat \ {0} /\ NumCalls \in Nat \ {0}
    /\ Attempts = 1..NumAttempts /\ Lines \subseteq Calls
<1>1. TheRun \in Runs
  BY LedgerAssumption DEF TheRun
<1>2. Missing \in Uses /\ Missing \notin SUBSET Calls
  BY LedgerAssumption DEF Uses
<1>3. NumAttempts \in Nat \ {0} /\ NumCalls \in Nat \ {0} /\ Attempts = 1..NumAttempts
  BY LedgerAssumption DEF Attempts
<1>4. Lines \subseteq Calls
  BY DEF Lines, Calls
<1> QED
  BY <1>1, <1>2, <1>3, <1>4

LEMMA RowIsTyped ==
    ASSUME NEW r \in Runs, NEW id \in Ids, NEW rev \in {-1, 0, 1},
           NEW g \in {"agent_attempt", "request", "task", "run"}, NEW sel \in BOOLEAN,
           NEW use \in Uses
    PROVE  Row(r, id, rev, g, sel, use) \in RowType
  BY DEF Row, RowType

LEMMA LineIsTyped ==
    ASSUME NEW x \in Lines
    PROVE  Row(TheRun, x, -1, "request", TRUE, {x}) \in RowType
<1>1. x \in Ids
  <2>1. PICK a \in Attempts, k \in 1..NumCalls : x = Call("agent", a, k)
    BY DEF Lines
  <2>2. k \in 0..NumCalls
    BY LedgerData
  <2> QED
    BY <2>1, <2>2 DEF Ids, Call
<1>2. {x} \in Uses
  BY LedgerData DEF Uses
<1> QED
  BY <1>1, <1>2, LedgerData, RowIsTyped

LEMMA CallsAreTyped ==
    ASSUME AgentTypes, NEW a \in Attempts
    PROVE  {Call("agent", a, i) : i \in 1..gateway.made[a]} \in SUBSET Lines
<1>1. gateway.made[a] \in 0..NumCalls
  BY DEF AgentTypes
<1>2. \A i \in 1..gateway.made[a] : i \in 1..NumCalls
  BY <1>1, LedgerData
<1> QED
  BY <1>2 DEF Lines

LEMMA NewLinesFacts ==
    ASSUME SessionTypes, AgentTypes, NEW a \in Attempts
    PROVE  /\ NewLines(a) \in Seq(Lines)
           /\ \A i \in DOMAIN NewLines(a) : \E k \in DOMAIN session.lines :
                 /\ NewLines(a)[i] = session.lines[k]
                 /\ att[a].before.ino # 0 =>
                       att[a].before.ino = session.ino /\ att[a].before.size < k
<1> DEFINE b == att[a].before
           s == session.lines
<1>1. b.size \in Nat /\ s \in Seq(Lines) /\ Len(s) \in Nat
  BY DEF AgentTypes, SessionTypes, AttType
<1>2. CASE b.ino = 0
  <2>1. NewLines(a) = s
    BY <1>2 DEF NewLines
  <2> QED
    BY <1>1, <1>2, <2>1
<1>3. CASE session.ino # 0 /\ b.ino = session.ino /\ b.size <= Len(s)
  <2>1. NewLines(a) = SubSeq(s, b.size + 1, Len(s))
    BY <1>3 DEF NewLines
  <2> DEFINE m == b.size
             n == Len(s)
  <2>2. m \in Nat /\ n \in Nat /\ m <= n /\ s \in Seq(Lines) /\ n = Len(s)
    BY <1>1, <1>3
  <2> HIDE DEF m
  <2>3. /\ SubSeq(s, m + 1, n) \in Seq(Lines)
        /\ \A i \in DOMAIN SubSeq(s, m + 1, n) :
              m + i \in DOMAIN s /\ SubSeq(s, m + 1, n)[i] = s[m + i] /\ m < m + i
    BY <2>2
  <2> QED
    BY <1>3, <2>1, <2>3 DEF m
<1>4. CASE b.ino # 0 /\ ~(session.ino # 0 /\ b.ino = session.ino /\ b.size <= Len(s))
  <2>1. NewLines(a) = <<>>
    BY <1>4 DEF NewLines
  <2> QED
    BY <2>1
<1> QED
  BY <1>2, <1>3, <1>4

LEMMA BeginGrows ==
    ASSUME Types, NEW a \in Attempts, Begin(a)
    PROVE  GrowsBy({AttemptRow(a, 0, TRUE, Missing)}) /\ OneMore
<1> DEFINE e == AttemptRow(a, 0, TRUE, Missing)
<1>1. e \in RowType
  <2>1. <<"agent", a, 0>> \in Ids
    BY LedgerData DEF Ids
  <2> QED
    BY <2>1, LedgerData, RowIsTyped DEF AttemptRow
<1>2. Log(<<e>>)
  BY DEF Begin
<1> HIDE DEF e
<1>3. <<e>> \in Seq(RowType) /\ Len(<<e>>) <= 1 /\ \A i \in DOMAIN <<e>> : <<e>>[i] = e
  BY <1>1
<1>4. GrowsBy({<<e>>[i] : i \in DOMAIN <<e>>}) /\ OneMore
  BY <1>2, <1>3, GrowsByLog DEF Types
<1>5. {<<e>>[i] : i \in DOMAIN <<e>>} \subseteq {e}
  BY <1>3
<1> QED
  BY <1>4, <1>5 DEF GrowsBy, e

LEMMA ResponseGrows ==
    ASSUME Types, NEW a \in Attempts, CollectResponse(a)
    PROVE  \E use \in Summary(a) :
              GrowsBy({AttemptRow(a, 1, att[a].read = {}, use)}) /\ OneMore
<1>1. PICK use \in Summary(a) : Log(<<AttemptRow(a, 1, att[a].read = {}, use)>>)
  BY DEF CollectResponse
<1> DEFINE e == AttemptRow(a, 1, att[a].read = {}, use)
<1>2. e \in RowType
  <2>1. <<"agent", a, 0>> \in Ids
    BY LedgerData DEF Ids
  <2>2. Summary(a) \subseteq Uses
    <3>1. {Call("agent", a, i) : i \in 1..gateway.made[a]} \in Uses
      BY CallsAreTyped, LedgerData DEF Types, Uses
    <3> QED
      BY <3>1, LedgerData DEF Summary, Usages
  <2> QED
    BY <2>1, <2>2, LedgerData, RowIsTyped DEF AttemptRow
<1>3. Log(<<e>>)
  BY <1>1
<1> HIDE DEF e
<1>4. <<e>> \in Seq(RowType) /\ Len(<<e>>) <= 1 /\ \A i \in DOMAIN <<e>> : <<e>>[i] = e
  BY <1>2
<1>5. GrowsBy({<<e>>[i] : i \in DOMAIN <<e>>}) /\ OneMore
  BY <1>3, <1>4, GrowsByLog DEF Types
<1>6. {<<e>>[i] : i \in DOMAIN <<e>>} \subseteq {e}
  BY <1>4
<1>7. GrowsBy({e}) /\ OneMore
  BY <1>5, <1>6 DEF GrowsBy
<1> QED
  BY <1>7 DEF e

LEMMA LinesGrow ==
    ASSUME Types, NEW a \in Attempts, CollectLines(a)
    PROVE  GrowsBy({Row(TheRun, x, -1, "request", TRUE, {x}) : x \in ToSet(NewLines(a))})
<1> DEFINE s == NewLines(a)
           new == [i \in DOMAIN s |-> Row(TheRun, s[i], -1, "request", TRUE, {s[i]})]
<1>1. s \in Seq(Lines)
  BY NewLinesFacts DEF Types
<1>2. Log(new)
  BY DEF CollectLines
<1> HIDE DEF s
<1>3. \A i \in DOMAIN s : Row(TheRun, s[i], -1, "request", TRUE, {s[i]}) \in RowType
  <2>1. \A i \in DOMAIN s : s[i] \in Lines
    BY <1>1
  <2> QED
    BY <2>1, LineIsTyped
<1>4. new \in Seq(RowType) /\ DOMAIN new = DOMAIN s
  <2>1. Len(s) \in Nat /\ DOMAIN s = 1..Len(s)
    BY <1>1
  <2>2. new \in [1..Len(s) -> RowType]
    BY <1>3, <2>1
  <2> HIDE DEF new
  <2>3. new \in UNION {[1..n -> RowType] : n \in Nat}
    BY <2>1, <2>2
  <2> QED
    BY <2>1, <2>2, <2>3, SeqDef
<1>5. GrowsBy({new[i] : i \in DOMAIN new})
  <2> HIDE DEF new
  <2> QED
    BY <1>2, <1>4, GrowsByLog DEF Types
<1>6. {new[i] : i \in DOMAIN new}
         \subseteq {Row(TheRun, x, -1, "request", TRUE, {x}) : x \in ToSet(s)}
  BY <1>4 DEF ToSet
<1> QED
  BY <1>5, <1>6 DEF GrowsBy, s

LEMMA TaskGrows ==
    ASSUME Types, ObserveTask
    PROVE  \E use \in {{Call("task", 1, 0)}, Missing} :
              GrowsBy({Row(TheRun, <<"task", 1, 0>>, -1, "task", TRUE, use)})
<1>1. PICK use \in Usages({Call("task", 1, 0)}) :
         rows' = Append(rows, Row(TheRun, <<"task", 1, 0>>, -1, "task", TRUE, use))
  BY DEF ObserveTask
<1>2. <<"task", 1, 0>> \in Ids /\ use \in Uses /\ use \in {{Call("task", 1, 0)}, Missing}
  <2>1. Call("task", 1, 0) \in Calls
    BY DEF Calls
  <2> QED
    BY <2>1, LedgerData DEF Ids, Usages, Uses
<1>3. Row(TheRun, <<"task", 1, 0>>, -1, "task", TRUE, use) \in RowType
  BY <1>2, LedgerData, RowIsTyped
<1> QED
  BY <1>1, <1>2, <1>3, GrowsByAppend DEF Types
LEMMA CounterGrows ==
    ASSUME Types, NEW r \in Runs, RecordWindow(r)
    PROVE  LET b == run[r].before
               a == run[r].after
               use == IF NoCounter \notin {a, b} /\ a.gen = b.gen /\ a.n >= b.n
                        THEN {Call("counter", i, 0) : i \in b.n + 1 .. a.n} ELSE Missing
               e == Row(r, <<"counter", 1, 0>>, -1, "run", TRUE, use)
           IN  /\ GrowsBy({e}) /\ DOMAIN rows' = DOMAIN rows \cup {Len(rows) + 1}
               /\ rows'[Len(rows) + 1] = e /\ Len(rows') = Len(rows) + 1
<1> DEFINE b == run[r].before
           a == run[r].after
           use == IF NoCounter \notin {a, b} /\ a.gen = b.gen /\ a.n >= b.n
                    THEN {Call("counter", i, 0) : i \in b.n + 1 .. a.n} ELSE Missing
           e == Row(r, <<"counter", 1, 0>>, -1, "run", TRUE, use)
<1>1. rows' = Append(rows, e)
  BY DEF RecordWindow
<1>2. use \in Uses
  <2>1. a.n \in 0..NumCalls /\ b.n \in 0..NumCalls
    BY DEF Types, RunTypes, RunType, CounterType
  <2>2. \A i \in b.n + 1 .. a.n : i \in 1..NumCalls
    BY <2>1, LedgerData
  <2>3. {Call("counter", i, 0) : i \in b.n + 1 .. a.n} \subseteq Calls
    BY <2>2 DEF Calls
  <2> QED
    BY <2>3, LedgerData DEF Uses
<1>3. e \in RowType
  <2>1. <<"counter", 1, 0>> \in Ids
    BY DEF Ids
  <2> HIDE DEF use
  <2> QED
    BY <1>2, <2>1, RowIsTyped
<1> HIDE DEF e
<1>4. /\ GrowsBy({e}) /\ DOMAIN rows' = DOMAIN rows \cup {Len(rows) + 1}
      /\ rows'[Len(rows) + 1] = e /\ Len(rows') = Len(rows) + 1
  BY <1>1, <1>3, GrowsByAppend DEF Types
<1> QED
  BY <1>4 DEF e

-----------------------------------------------------------------------------
\* The part of the audit a window is about.
LEMMA FromFacts ==
    ASSUME AuditTypes, NEW m \in Nat
    PROVE  /\ From(m) \in Seq(EventType)
           /\ \A i \in DOMAIN From(m) :
                 /\ m + i \in DOMAIN audit.log /\ From(m)[i] = audit.log[m + i]
                 /\ i \in Nat /\ m < m + i
           /\ \A k \in DOMAIN audit.log : m < k =>
                 k - m \in DOMAIN From(m) /\ From(m)[k - m] = audit.log[k]
<1> DEFINE s == audit.log
           n == Len(s)
<1>1. s \in Seq(EventType) /\ n \in Nat /\ DOMAIN s = 1..n
  BY DEF AuditTypes
<1>2. From(m) = SubSeq(s, m + 1, n)
  BY DEF From
<1> HIDE DEF s
<1>3. CASE m <= n
  <2>1. /\ SubSeq(s, m + 1, n) \in Seq(EventType)
        /\ DOMAIN SubSeq(s, m + 1, n) = 1..(n - m)
        /\ \A i \in 1..(n - m) : SubSeq(s, m + 1, n)[i] = s[m + i]
    BY <1>1, <1>3
  <2> HIDE DEF n
  <2>2. \A i \in 1..(n - m) : m + i \in 1..n /\ i \in Nat /\ m < m + i
    BY <1>1, <1>3
  <2>3. \A k \in 1..n : m < k => k - m \in 1..(n - m) /\ m + (k - m) = k
    BY <1>1, <1>3
  <2> QED
    BY <1>1, <1>2, <2>1, <2>2, <2>3 DEF s
<1>4. CASE n < m
  <2>1. SubSeq(s, m + 1, n) = <<>>
    BY <1>1, <1>4
  <2>2. \A k \in 1..n : ~(m < k)
    BY <1>1, <1>4
  <2> QED
    BY <1>1, <1>2, <2>1, <2>2 DEF s
<1> QED
  BY <1>1, <1>3, <1>4

StartsOf(log) == {i \in DOMAIN log : log[i].event = "started"}

LEMMA WindowRowFacts ==
    ASSUME NEW log \in Seq(EventType), NEW r \in Runs, NEW q \in Prompts
    PROVE  LET w == WindowRow(r, log, q)
           IN  /\ w \in RowType /\ w.run = r /\ w.id = <<"proxy", q, 0>>
               /\ w.selected /\ w.granularity = "request"
               /\ w.use = Missing \/ \E i \in DOMAIN log :
                     log[i].event = "finished" /\ log[i].request = q /\ w.use = log[i].use
               /\ \A i \in DOMAIN log :
                     /\ log[i].event = "finished" /\ log[i].request = q
                     /\ Once(log, "finished")
                     => w.use = log[i].use
<1> DEFINE ends == {e \in ToSet(log) : e.event = "finished" /\ e.request = q}
           w == WindowRow(r, log, q)
           use == IF ends = {} THEN Missing ELSE (CHOOSE e \in ends : TRUE).use
<1>1. /\ w.run = r /\ w.id = <<"proxy", q, 0>> /\ w.selected /\ w.granularity = "request"
      /\ w.use = use
      /\ w = Row(r, <<"proxy", q, 0>>, IF ends = {} THEN 0 ELSE 1, "request", TRUE, use)
  BY DEF WindowRow, Row
<1>2. \A e \in ends : \E i \in DOMAIN log :
         e = log[i] /\ log[i].event = "finished" /\ log[i].request = q
  BY DEF ToSet
<1>3. ends # {} => (CHOOSE e \in ends : TRUE) \in ends
  OBVIOUS
<1>4. use = Missing \/ \E i \in DOMAIN log :
         log[i].event = "finished" /\ log[i].request = q /\ use = log[i].use
  BY <1>2, <1>3
<1>5. \A i \in DOMAIN log : log[i] \in EventType
  OBVIOUS
<1>6. use \in Uses
  BY <1>4, <1>5, LedgerData DEF EventType
<1>7. w \in RowType
  <2> DEFINE rev == IF ends = {} THEN 0 ELSE 1
  <2>1. <<"proxy", q, 0>> \in Ids /\ rev \in {-1, 0, 1}
    BY DEF Ids
  <2>2. w = Row(r, <<"proxy", q, 0>>, rev, "request", TRUE, use)
    BY <1>1
  <2> HIDE DEF use, ends, rev, w
  <2>3. Row(r, <<"proxy", q, 0>>, rev, "request", TRUE, use) \in RowType
    BY <1>6, <2>1, RowIsTyped
  <2> QED
    BY <2>2, <2>3
<1>8. ASSUME NEW i \in DOMAIN log, log[i].event = "finished", log[i].request = q,
             Once(log, "finished")
      PROVE  use = log[i].use
  <2>1. log[i] \in ends
    BY <1>8 DEF ToSet
  <2>2. PICK k \in DOMAIN log : (CHOOSE e \in ends : TRUE) = log[k]
           /\ log[k].event = "finished" /\ log[k].request = q
    BY <1>2, <1>3, <2>1
  <2>3. log[k] = [log[i] EXCEPT !.use = log[k].use]
    <3>1. log[i] \in EventType /\ log[k] \in EventType
      BY <1>5
    <3> QED
      BY <3>1, <1>8, <2>2 DEF EventType
  <2>4. i = k
    BY <1>8, <2>3 DEF Once
  <2> QED
    BY <2>1, <2>2, <2>4
<1> HIDE DEF use
<1> QED
  BY <1>1, <1>4, <1>7, <1>8

LEMMA GrownPlaces ==
    ASSUME RowTypes, NEW t \in Seq(RowType), rows' = rows \o t
    PROVE  /\ Len(rows) \in Nat
           /\ \A i \in DOMAIN rows' \ DOMAIN rows :
                 i - Len(rows) \in DOMAIN t /\ rows'[i] = t[i - Len(rows)] /\ i \in Int
           /\ \A k \in DOMAIN t : Len(rows) + k \in DOMAIN rows' \ DOMAIN rows
<1>1. /\ rows \o t \in Seq(RowType) /\ Len(rows) \in Nat /\ Len(t) \in Nat
      /\ DOMAIN rows = 1..Len(rows) /\ DOMAIN t = 1..Len(t)
      /\ DOMAIN (rows \o t) = 1..(Len(rows) + Len(t))
      /\ \A i \in 1..Len(rows) : (rows \o t)[i] = rows[i]
      /\ \A i \in 1..Len(t) : (rows \o t)[Len(rows) + i] = t[i]
      /\ \A i \in DOMAIN (rows \o t) : i \in 1..Len(rows) \/ i - Len(rows) \in 1..Len(t)
  <2>1. rows \in Seq(RowType)
    BY DEF RowTypes
  <2> QED
    BY <2>1, Longer
<1> DEFINE m == Len(rows)
           n == Len(t)
<1>2. /\ m \in Nat /\ n \in Nat /\ DOMAIN rows = 1..m /\ DOMAIN t = 1..n
      /\ DOMAIN rows' = 1..(m + n)
      /\ \A i \in 1..n : rows'[m + i] = t[i]
      /\ \A i \in DOMAIN rows' : i \in 1..m \/ i - m \in 1..n
  BY <1>1
<1> HIDE DEF m, n
<1>3. ASSUME NEW i \in DOMAIN rows' \ DOMAIN rows
      PROVE  i - m \in DOMAIN t /\ rows'[i] = t[i - m] /\ i \in Int
  <2>1. i - m \in 1..n /\ i = m + (i - m) /\ i \in Int
    BY <1>2
  <2> QED
    BY <2>1, <1>2
<1>4. ASSUME NEW k \in DOMAIN t
      PROVE  m + k \in DOMAIN rows' \ DOMAIN rows
  BY <1>2
<1> QED
  BY <1>2, <1>3, <1>4 DEF m

\* Each start event of the window gives one row, in the order of the audit.
LEMMA WindowGrows ==
    ASSUME Types, NEW r \in Runs, CloseWindow(r), Usable(r, From(run[r].start.offset))
    PROVE  LET log == From(run[r].start.offset)
           IN  /\ GrowsBy({WindowRow(r, log, log[i].request) : i \in StartsOf(log)})
               /\ \E g \in [DOMAIN rows' \ DOMAIN rows -> StartsOf(log)] :
                     /\ \A i, j \in DOMAIN g : g[i] = g[j] => i = j
                     /\ \A i \in DOMAIN g : rows'[i] = WindowRow(r, log, log[g[i]].request)
                     /\ \A k \in StartsOf(log) : \E i \in DOMAIN g : g[i] = k
<1> DEFINE log == From(run[r].start.offset)
           S == StartsOf(log)
<1>1. log \in Seq(EventType) /\ Len(log) \in Nat /\ DOMAIN log = 1..Len(log)
  <2>1. run[r].start.offset \in Nat
    BY DEF Types, RunTypes, RunType
  <2>2. log \in Seq(EventType)
    BY <2>1, FromFacts DEF Types
  <2> HIDE DEF log
  <2> QED
    BY <2>2
<1>2. PICK f \in StartsInOrder(log) :
         rows' = rows \o [i \in DOMAIN f |-> WindowRow(r, log, log[f[i]].request)]
  BY DEF CloseWindow
<1> DEFINE t == [i \in DOMAIN f |-> WindowRow(r, log, log[f[i]].request)]
           c == Cardinality(S)
<1> HIDE DEF log
<1>3. /\ f \in [1..c -> S] /\ \A k \in S : \E i \in 1..c : f[i] = k
      /\ \A i, j \in 1..c : i < j => f[i] < f[j]
  BY <1>2 DEF StartsInOrder, StartsOf, Range
<1>4. c \in Nat
  <2>1. IsFiniteSet(1..Len(log))
    BY <1>1, FS_Interval
  <2>2. IsFiniteSet(S)
    BY <1>1, <2>1, FS_Subset DEF StartsOf
  <2> QED
    BY <2>2, FS_CardinalityType
<1>5. \A k \in S : k \in Nat /\ WindowRow(r, log, log[k].request) \in RowType
  <2>1. \A k \in S : k \in Nat /\ log[k].request \in Prompts
    <3>1. S \subseteq DOMAIN log
      BY DEF StartsOf
    <3>2. \A k \in DOMAIN log : k \in Nat /\ log[k] \in EventType
      BY <1>1
    <3>3. \A e \in EventType : e.request \in Prompts
      BY DEF EventType
    <3> HIDE DEF S
    <3> QED
      BY <3>1, <3>2, <3>3
  <2> HIDE DEF S
  <2> QED
    BY <1>1, <2>1, WindowRowFacts
<1> HIDE DEF c, S
<1>6. \A i, j \in 1..c : f[i] = f[j] => i = j
  <2> SUFFICES ASSUME NEW i \in 1..c, NEW j \in 1..c, f[i] = f[j], i # j
               PROVE  FALSE
    OBVIOUS
  <2>1. i \in Int /\ j \in Int /\ f[i] \in Nat /\ f[j] \in Nat
    BY <1>3, <1>4, <1>5
  <2>2. i < j \/ j < i
    BY <2>1
  <2>3. f[i] < f[j] \/ f[j] < f[i]
    BY <1>3, <2>2
  <2> QED
    BY <2>1, <2>3
<1>7. DOMAIN t = 1..c /\ \A i \in 1..c : t[i] = WindowRow(r, log, log[f[i]].request)
  BY <1>3
<1>8. t \in Seq(RowType)
  <2>1. \A i \in 1..c : WindowRow(r, log, log[f[i]].request) \in RowType
    BY <1>3, <1>5
  <2>2. t \in [1..c -> RowType]
    BY <1>3, <2>1
  <2> HIDE DEF t
  <2>3. t \in UNION {[1..n -> RowType] : n \in Nat}
    BY <1>4, <2>2
  <2> QED
    BY <2>3, SeqDef
<1>9. rows' = rows \o t
  BY <1>2
<1> HIDE DEF t
<1>10. GrowsBy({WindowRow(r, log, log[i].request) : i \in S})
  <2>1. GrowsBy({t[i] : i \in DOMAIN t})
    BY <1>8, <1>9, GrowsByConcat DEF Types
  <2>2. {t[i] : i \in DOMAIN t} \subseteq {WindowRow(r, log, log[i].request) : i \in S}
    BY <1>3, <1>7
  <2> QED
    BY <2>1, <2>2 DEF GrowsBy
<1> DEFINE m == Len(rows)
           g == [i \in DOMAIN rows' \ DOMAIN rows |-> f[i - m]]
<1>11. /\ m \in Nat
       /\ \A i \in DOMAIN rows' \ DOMAIN rows :
             i - m \in 1..c /\ rows'[i] = t[i - m] /\ i \in Int
       /\ \A k \in 1..c : m + k \in DOMAIN rows' \ DOMAIN rows
  BY <1>7, <1>8, <1>9, GrownPlaces DEF Types
<1> HIDE DEF m
<1>12. g \in [DOMAIN rows' \ DOMAIN rows -> S]
  BY <1>3, <1>11
<1>13. ASSUME NEW i \in DOMAIN rows' \ DOMAIN rows, NEW j \in DOMAIN rows' \ DOMAIN rows,
              g[i] = g[j]
       PROVE  i = j
  <2>1. i - m = j - m
    BY <1>6, <1>11, <1>13
  <2> QED
    BY <1>11, <2>1
<1>14. \A i \in DOMAIN rows' \ DOMAIN rows : rows'[i] = WindowRow(r, log, log[g[i]].request)
  BY <1>7, <1>11
<1>15. ASSUME NEW k \in S PROVE \E i \in DOMAIN rows' \ DOMAIN rows : g[i] = k
  <2>1. PICK i \in 1..c : f[i] = k
    BY <1>3
  <2>2. m + i \in DOMAIN rows' \ DOMAIN rows /\ (m + i) - m = i
    BY <1>4, <1>11
  <2> QED
    BY <2>1, <2>2
<1> HIDE DEF g
<1>16. \E h \in [DOMAIN rows' \ DOMAIN rows -> S] :
          /\ \A i, j \in DOMAIN h : h[i] = h[j] => i = j
          /\ \A i \in DOMAIN h : rows'[i] = WindowRow(r, log, log[h[i]].request)
          /\ \A k \in S : \E i \in DOMAIN h : h[i] = k
  <2>1. DOMAIN g = DOMAIN rows' \ DOMAIN rows
    BY <1>12
  <2> QED
    BY <2>1, <1>12, <1>13, <1>14, <1>15
<1> QED
  BY <1>10, <1>16 DEF S, log
-----------------------------------------------------------------------------
\* Which steps a kind of evidence has.
AgentStep ==
    \/ \E a \in Attempts : \/ Begin(a) \/ GatewayCalls(a) \/ GatewayAnswers(a) \/ GiveUp(a)
                           \/ CollectLines(a) \/ CollectResponse(a)
    \/ Rotate \/ Kill
CounterMoves ==
    \/ BackendCalls \/ BackendRestarts \/ Kill
    \/ CounterSnapshot(TheRun) \/ \E r \in Runs : RecordWindow(r)
WindowMoves ==
    \/ ProxyMoves \/ Kill
    \/ \E r \in Runs : Look(r) \/ Claim(r) \/ OpenWindow(r) \/ CloseWindow(r)

LEMMA StepsBySource ==
    ASSUME Types, RestInv, [LedgerNext]_ledgerVars
    PROVE  /\ source' = source
           /\ source = "agent" => AgentStep \/ UNCHANGED ledgerVars
           /\ source = "task" => ObserveTask \/ UNCHANGED ledgerVars
           /\ source = "counter" => CounterMoves \/ UNCHANGED ledgerVars
           /\ source = "proxy" => WindowMoves \/ UNCHANGED ledgerVars
<1>1. /\ ~(source # "agent" /\ \E a \in Attempts :
              \/ Begin(a) \/ GatewayCalls(a) \/ GatewayAnswers(a) \/ GiveUp(a)
              \/ CollectLines(a) \/ CollectResponse(a))
      /\ ~(source # "agent" /\ Rotate)
  BY DEF RestInv, Begin, GatewayCalls, GatewayAnswers, GiveUp, CollectLines, CollectResponse,
         Rotate
<1>2. /\ ~(source # "task" /\ ObserveTask)
      /\ ~(source # "counter" /\ (BackendCalls \/ BackendRestarts))
      /\ ~(source \notin {"agent", "counter", "proxy"} /\ Kill)
      /\ \A r \in Runs : ~(source # "counter" /\ CounterSnapshot(r))
      /\ \A r \in Runs : CounterSnapshot(r) => r = TheRun
      /\ \A r \in Runs : ~(source # "proxy" /\ (Look(r) \/ Claim(r) \/ OpenWindow(r) \/ CloseWindow(r)))
  BY DEF ObserveTask, BackendCalls, BackendRestarts, Kill, CounterSnapshot, CounterStep, Look,
         Claim, OpenWindow, CloseWindow, ProxyStep
<1>3. \A r \in Runs : ~(source # "counter" /\ RecordWindow(r))
  BY DEF RecordWindow
<1>4. ~(source # "proxy" /\ ProxyMoves)
  BY DEF RestInv, ProxyMoves, Receive, ModelAnswers, Finish, Reply, Replace, At
<1>5. source' = source
  <2>1. CASE UNCHANGED ledgerVars
    BY <2>1 DEF ledgerVars
  <2>2. CASE LedgerNext
    BY <2>2 DEF LedgerNext, Begin, GatewayCalls, GatewayAnswers, GiveUp, CollectLines,
         CollectResponse, Rotate, ObserveTask, BackendCalls, BackendRestarts, Kill,
         CounterSnapshot, CounterStep, RecordWindow, Look, Claim, OpenWindow, CloseWindow,
         ProxyStep, ProxyMoves, Receive, ModelAnswers, Finish, Reply, Replace
  <2> QED
    BY <2>1, <2>2
<1> QED
  BY <1>1, <1>2, <1>3, <1>4, <1>5 DEF LedgerNext, AgentStep, CounterMoves, WindowMoves
-----------------------------------------------------------------------------
\* The types.
LEMMA LedgerStarts == LedgerInit => LedgerIndInv
<1> SUFFICES ASSUME LedgerInit PROVE LedgerIndInv
  OBVIOUS
<1> USE DEF LedgerInit, ProxyInit
<1>1. SourceTypes
  BY LedgerAssumption DEF SourceTypes, Sources
<1>2. AuditTypes /\ SessionTypes /\ RowTypes
  BY DEF AuditTypes, SessionTypes, RowTypes, PostType
<1>3. RunTypes /\ AgentTypes /\ CounterTypes
  BY LedgerData DEF RunTypes, AgentTypes, CounterTypes, RunType, CounterType, AttType, Idle,
     NoStart, NoCounter, NoOffset
<1>4. RestInv
  BY DEF RestInv, Idle
<1>5. source = "agent" => AgentInv
  BY DEF AgentInv, AgentRowsInv, OneResponse, AttemptInv, LinesInv, SummedInv, Summed,
         NoOffset
<1>6. TaskInv
  BY DEF TaskInv
<1>7. CounterInv /\ CounterRowsInv
  BY LedgerData DEF CounterInv, CounterRowsInv, Fits, Idle, NoCounter
<1>8. LogInv /\ WindowInv /\ ProxyRowsInv
  BY DEF LogInv, WindowInv, ProxyRowsInv, HasRows, Idle, NoStart
<1> QED
  BY <1>1, <1>2, <1>3, <1>4, <1>5, <1>6, <1>7, <1>8 DEF LedgerIndInv, Types

LEMMA SourceStays ==
    ASSUME Types, RestInv, [LedgerNext]_ledgerVars
    PROVE  SourceTypes'
<1>1. source' = source
  BY StepsBySource
<1>2. faults' \in 0..MaxTrouble[source]
  <2>1. source \in Sources /\ MaxTrouble[source] \in Nat /\ faults \in 0..MaxTrouble[source]
    BY LedgerAssumption DEF Types, SourceTypes
  <2>2. faults' = faults \/ (faults < MaxTrouble[source] /\ faults' = faults + 1)
    <3>1. CASE UNCHANGED ledgerVars
      BY <3>1 DEF ledgerVars
    <3>2. CASE LedgerNext
      BY <3>2 DEF LedgerNext, Begin, GatewayCalls, GatewayAnswers, GiveUp, CollectLines,
         CollectResponse, Rotate, ObserveTask, BackendCalls, BackendRestarts, Kill,
         CounterSnapshot, CounterStep, RecordWindow, Look, Claim, OpenWindow, CloseWindow,
         ProxyStep, ProxyMoves, Receive, ModelAnswers, Finish, Reply, Replace, Log, Emit,
         Trouble, Fine
    <3> QED
      BY <3>1, <3>2
  <2> QED
    BY <2>1, <2>2
<1> QED
  BY <1>1, <1>2 DEF Types, SourceTypes

LEMMA AgentTypesStay ==
    ASSUME Types, source = "agent", AgentStep
    PROVE  /\ AgentTypes' /\ SessionTypes' /\ RowTypes'
           /\ UNCHANGED <<audit, post, run, counter, began>>
<1> USE DEF Types
<1>1. UNCHANGED <<audit, post, run, counter, began>>
  BY DEF AgentStep, Begin, GatewayCalls, GatewayAnswers, GiveUp, CollectLines,
         CollectResponse, Rotate, Kill, proxyVars
<1>2. AgentTypes'
  <2>1. \A b \in Attempts :
           /\ att[b] \in AttType /\ gateway.made[b] \in 0..NumCalls
           /\ att[b].at \in {"none", "calling", "answered", "failed", "summed", "unsummed", "over"}
           /\ att[b].before \in [ino : Int, size : Nat] /\ att[b].read \in SUBSET Lines
    BY DEF AgentTypes, AttType
  <2>2. gateway' \in [made : [Attempts -> 0..NumCalls], on : SUBSET Attempts]
    <3>1. ASSUME NEW a \in Attempts, GatewayCalls(a)
          PROVE  gateway' \in [made : [Attempts -> 0..NumCalls], on : SUBSET Attempts]
      <4>1. gateway.made[a] + 1 \in 0..NumCalls
        BY <2>1, <3>1, LedgerData DEF GatewayCalls
      <4> QED
        BY <3>1, <4>1 DEF GatewayCalls, AgentTypes
    <3>2. ASSUME NEW a \in Attempts, Begin(a) \/ GatewayAnswers(a)
          PROVE  gateway' \in [made : [Attempts -> 0..NumCalls], on : SUBSET Attempts]
      BY <3>2 DEF Begin, GatewayAnswers, AgentTypes
    <3>3. CASE gateway' = gateway
      BY <3>3 DEF AgentTypes
    <3> QED
      BY <3>1, <3>2, <3>3 DEF AgentStep, GiveUp, CollectLines, CollectResponse, Rotate, Kill
  <2>3. ASSUME NEW a \in Attempts, NEW x \in AttType, att' = [att EXCEPT ![a] = x]
        PROVE  att' \in [Attempts -> AttType]
    BY <2>3 DEF AgentTypes
  <2>4. ASSUME NEW a \in Attempts, Begin(a) PROVE att' \in [Attempts -> AttType]
    <3>1. PICK offset \in Offsets :
             att' = [att EXCEPT ![a].at = "calling", ![a].before = offset]
      BY <2>4 DEF Begin
    <3>2. offset \in [ino : Int, size : Nat]
      BY DEF Offsets, NoOffset, SessionTypes
    <3>3. [[att[a] EXCEPT !.at = "calling"] EXCEPT !.before = offset] \in AttType
      BY <2>1, <3>2 DEF AttType
    <3>4. att' = [att EXCEPT ![a] = [[att[a] EXCEPT !.at = "calling"] EXCEPT !.before = offset]]
      BY <3>1 DEF AgentTypes
    <3> QED
      BY <2>3, <3>3, <3>4
  <2>5. ASSUME NEW a \in Attempts, GatewayAnswers(a) \/ GiveUp(a) \/ CollectResponse(a)
        PROVE  att' \in [Attempts -> AttType]
    BY <2>5 DEF GatewayAnswers, GiveUp, CollectResponse, AgentTypes, AttType
  <2>6. ASSUME NEW a \in Attempts, CollectLines(a) PROVE att' \in [Attempts -> AttType]
    <3>1. ToSet(NewLines(a)) \subseteq Lines
      <4>1. NewLines(a) \in Seq(Lines)
        BY NewLinesFacts
      <4> QED
        BY <4>1 DEF ToSet
    <3>2. att' = [att EXCEPT ![a].at = IF @ = "answered" THEN "summed" ELSE "unsummed",
                             ![a].read = ToSet(NewLines(a))]
      BY <2>6 DEF CollectLines
    <3> DEFINE to == IF att[a].at = "answered" THEN "summed" ELSE "unsummed"
               lines == ToSet(NewLines(a))
    <3>3. [[att[a] EXCEPT !.at = to] EXCEPT !.read = lines] \in AttType
      BY <2>1, <3>1 DEF AttType
    <3>4. att' = [att EXCEPT ![a] = [[att[a] EXCEPT !.at = to] EXCEPT !.read = lines]]
      BY <3>2 DEF AgentTypes
    <3> QED
      BY <2>3, <3>3, <3>4
  <2>7. ASSUME Kill PROVE att' \in [Attempts -> AttType]
    <3>1. att' = [b \in Attempts |-> [att[b] EXCEPT !.at = "over"]]
      BY <2>7 DEF Kill
    <3>2. \A b \in Attempts : [att[b] EXCEPT !.at = "over"] \in AttType
      BY <2>1 DEF AttType
    <3> QED
      BY <3>1, <3>2
  <2>8. ASSUME att' = att PROVE att' \in [Attempts -> AttType]
    BY <2>8 DEF AgentTypes
  <2>9. att' \in [Attempts -> AttType]
    BY <2>4, <2>5, <2>6, <2>7, <2>8 DEF AgentStep, GatewayCalls, Rotate
  <2> QED
    BY <2>2, <2>9 DEF AgentTypes
<1>3. SessionTypes'
  <2>1. ASSUME NEW a \in Attempts, GatewayCalls(a) PROVE SessionTypes'
    <3>1. gateway.made[a] \in 0..NumCalls /\ gateway.made[a] < NumCalls
      BY <2>1 DEF GatewayCalls, AgentTypes
    <3>2. gateway.made[a] + 1 \in 1..NumCalls
      BY <3>1, LedgerData
    <3>3. Call("agent", a, gateway.made[a] + 1) \in Lines
      BY <3>2 DEF Lines
    <3> QED
      BY <2>1, <3>3 DEF GatewayCalls, SessionTypes
  <2>2. CASE Rotate
    BY <2>2 DEF Rotate, SessionTypes
  <2>3. CASE session' = session
    BY <2>3 DEF SessionTypes
  <2> QED
    BY <2>1, <2>2, <2>3 DEF AgentStep, Begin, GatewayAnswers, GiveUp, CollectLines,
       CollectResponse, Kill
<1>4. RowTypes'
  <2>1. CASE rows' = rows
    BY <2>1 DEF RowTypes
  <2>2. ASSUME NEW a \in Attempts, Begin(a) \/ CollectLines(a) \/ CollectResponse(a)
        PROVE  RowTypes'
    BY <2>2, BeginGrows, LinesGrow, ResponseGrows DEF GrowsBy, RowTypes
  <2> QED
    BY <2>1, <2>2 DEF AgentStep, GatewayCalls, GatewayAnswers, GiveUp, Rotate, Kill
<1> QED
  BY <1>1, <1>2, <1>3, <1>4

LEMMA CounterTypesStay ==
    ASSUME Types, RestInv, CounterInv, source = "counter", CounterMoves
    PROVE  /\ CounterTypes' /\ RunTypes' /\ RowTypes'
           /\ UNCHANGED <<audit, post, session, att, gateway, began>>
<1> USE DEF Types
<1>1. UNCHANGED <<audit, post, session, att, gateway, began>>
  BY DEF CounterMoves, BackendCalls, BackendRestarts, Kill, CounterSnapshot, CounterStep,
         RecordWindow, proxyVars, agentVars
<1>2. /\ counter.gen \in Nat \ {0} /\ counter.n \in 0..NumCalls /\ counter.ever \in 0..NumCalls
      /\ counter.n <= counter.ever /\ NumCalls \in Nat
  BY LedgerData DEF CounterTypes, CounterInv
<1>3. CounterTypes'
  <2>1. CASE BackendCalls
    <3>1. counter.n + 1 \in 0..NumCalls /\ counter.ever + 1 \in 0..NumCalls
      BY <1>2, <2>1 DEF BackendCalls
    <3> QED
      BY <2>1, <3>1 DEF BackendCalls, CounterTypes
  <2>2. CASE BackendRestarts
    <3>1. counter.gen + 1 \in Nat \ {0} /\ 0 \in 0..NumCalls
      BY <1>2
    <3>2. counter' = [counter EXCEPT !.gen = @ + 1, !.n = 0]
      BY <2>2 DEF BackendRestarts
    <3> QED
      BY <3>1, <3>2 DEF CounterTypes
  <2>3. CASE counter' = counter
    BY <2>3 DEF CounterTypes
  <2> QED
    BY <2>1, <2>2, <2>3 DEF CounterMoves, Kill, CounterSnapshot, CounterStep, RecordWindow
<1>4. \A r \in Runs : run[r] \in RunType
  BY DEF RunTypes
<1>5. RunTypes'
  <2>1. ASSUME NEW r \in Runs, NEW x \in RunType, run' = [run EXCEPT ![r] = x]
        PROVE  RunTypes'
    BY <2>1 DEF RunTypes
  <2>2. CASE CounterSnapshot(TheRun)
    <3> DEFINE v == run[TheRun]
               found == IF counter.gen = v.seen.gen THEN v.seen ELSE NoCounter
    <3>1. TheRun \in Runs /\ v \in RunType /\ found \in CounterType
      BY <1>2, <1>4, LedgerData DEF RunType, CounterType, NoCounter
    <3>2. \E x \in {[v EXCEPT !.at = "before1", !.seen.gen = counter.gen],
                    [v EXCEPT !.at = "after1", !.seen.gen = counter.gen],
                    [v EXCEPT !.at = "before2", !.seen.n = counter.n, !.seen.ever = counter.ever],
                    [v EXCEPT !.at = "after2", !.seen.n = counter.n, !.seen.ever = counter.ever],
                    [v EXCEPT !.at = "before", !.before = found],
                    [v EXCEPT !.at = "after", !.after = found]} :
             run' = [run EXCEPT ![TheRun] = x]
      BY <2>2 DEF CounterSnapshot, Snapshot, Moves
    <3>3. /\ [v EXCEPT !.at = "before1", !.seen.gen = counter.gen] \in RunType
          /\ [v EXCEPT !.at = "after1", !.seen.gen = counter.gen] \in RunType
      BY <1>2, <3>1 DEF RunType, CounterType
    <3>4. /\ [v EXCEPT !.at = "before2", !.seen.n = counter.n, !.seen.ever = counter.ever] \in RunType
          /\ [v EXCEPT !.at = "after2", !.seen.n = counter.n, !.seen.ever = counter.ever] \in RunType
      BY <1>2, <3>1 DEF RunType, CounterType
    <3>5. /\ [v EXCEPT !.at = "before", !.before = found] \in RunType
          /\ [v EXCEPT !.at = "after", !.after = found] \in RunType
      BY <3>1 DEF RunType
    <3> HIDE DEF v, found
    <3> QED
      BY <2>1, <3>1, <3>2, <3>3, <3>4, <3>5
  <2>3. CASE Kill \/ \E r \in Runs : RecordWindow(r)
    <3>1. \E r \in Runs, x \in {"dead", "closed"} : run' = [run EXCEPT ![r] = [run[r] EXCEPT !.at = x]]
      BY <2>3 DEF Kill, RecordWindow, Moves
    <3> QED
      BY <1>4, <2>1, <3>1 DEF RunType
  <2>4. CASE run' = run
    BY <2>4 DEF RunTypes
  <2> QED
    BY <2>2, <2>3, <2>4 DEF CounterMoves, BackendCalls, BackendRestarts
<1>6. RowTypes'
  <2>1. CASE rows' = rows
    BY <2>1 DEF RowTypes
  <2>2. ASSUME NEW r \in Runs, RecordWindow(r) PROVE RowTypes'
    BY <2>2, CounterGrows DEF GrowsBy, RowTypes
  <2> QED
    BY <2>1, <2>2 DEF CounterMoves, BackendCalls, BackendRestarts, Kill, CounterSnapshot,
         CounterStep
<1> QED
  BY <1>1, <1>3, <1>5, <1>6

LEMMA EventsAreTyped ==
    ASSUME NEW q \in Prompts
    PROVE  /\ Event("started", q, Missing) \in EventType /\ Event("finished", q, Missing) \in EventType
           /\ Event("finished", q, {RequestCall(q)}) \in EventType
<1>1. {RequestCall(q)} \in Uses
  BY DEF Uses, Calls
<1> QED
  BY <1>1, LedgerData DEF Event, EventType

LEMMA WindowTypesStay ==
    ASSUME Types, source = "proxy", WindowMoves
    PROVE  /\ AuditTypes' /\ RunTypes' /\ RowTypes'
           /\ UNCHANGED <<session, att, gateway, counter>>
<1> USE DEF Types
<1>1. UNCHANGED <<session, att, gateway, counter>>
  BY DEF WindowMoves, ProxyMoves, Kill, Look, Claim, OpenWindow, CloseWindow, ProxyStep,
         agentVars
<1>2. /\ audit.id \in Nat \ {0} /\ audit.owner \in Runs \cup {NoRun}
      /\ audit.log \in Seq(EventType) /\ Len(audit.log) \in Nat
  BY DEF AuditTypes
<1>3. audit' \in [id : Nat \ {0}, owner : Runs \cup {NoRun}, log : Seq(EventType)]
  <2>1. ASSUME NEW e \in EventType, Emit(e) \/ Written(e)
        PROVE  audit' \in [id : Nat \ {0}, owner : Runs \cup {NoRun}, log : Seq(EventType)]
    <3>1. Append(audit.log, e) \in Seq(EventType)
      BY <1>2
    <3>2. audit' = [audit EXCEPT !.log = Append(@, e)] \/ audit' = audit
      BY <2>1 DEF Emit, Written
    <3> QED
      BY <3>1, <3>2 DEF AuditTypes
  <2>2. ASSUME NEW q \in Prompts, Receive(q) \/ Finish(q), audit' # audit
        PROVE  \E e \in EventType : Emit(e) \/ Written(e)
    BY <2>2, EventsAreTyped DEF Receive, Finish
  <2>3. ASSUME Replace \/ \E r \in Runs : Claim(r)
        PROVE  audit' \in [id : Nat \ {0}, owner : Runs \cup {NoRun}, log : Seq(EventType)]
    <3>1. audit.id + 1 \in Nat \ {0} /\ <<>> \in Seq(EventType)
      BY <1>2
    <3>2. \/ audit' = [id |-> audit.id + 1, owner |-> NoRun, log |-> <<>>]
          \/ \E r \in Runs : audit' = [audit EXCEPT !.owner = r]
          \/ audit' = audit
      BY <2>3 DEF Replace, Claim
    <3>3. ASSUME NEW r \in Runs, audit' = [audit EXCEPT !.owner = r]
          PROVE  audit' \in [id : Nat \ {0}, owner : Runs \cup {NoRun}, log : Seq(EventType)]
      BY <3>3 DEF AuditTypes
    <3>4. ASSUME audit' = [id |-> audit.id + 1, owner |-> NoRun, log |-> <<>>]
          PROVE  audit' \in [id : Nat \ {0}, owner : Runs \cup {NoRun}, log : Seq(EventType)]
      BY <3>1, <3>4
    <3>5. ASSUME audit' = audit
          PROVE  audit' \in [id : Nat \ {0}, owner : Runs \cup {NoRun}, log : Seq(EventType)]
      BY <3>5 DEF AuditTypes
    <3> QED
      BY <3>2, <3>3, <3>4, <3>5
  <2>4. ASSUME audit' = audit
        PROVE  audit' \in [id : Nat \ {0}, owner : Runs \cup {NoRun}, log : Seq(EventType)]
    BY <2>4 DEF AuditTypes
  <2> QED
    BY <2>1, <2>2, <2>3, <2>4 DEF WindowMoves, ProxyMoves, ModelAnswers, Reply, Kill, Look,
       OpenWindow, CloseWindow, ProxyStep, proxyVars
<1>4. post' \in [Prompts -> PostType]
  <2>1. ASSUME NEW q \in Prompts, NEW x \in PostType, post' = [post EXCEPT ![q] = x]
        PROVE  post' \in [Prompts -> PostType]
    BY <2>1 DEF AuditTypes
  <2>2. ASSUME NEW q \in Prompts, Receive(q) \/ ModelAnswers(q) \/ Finish(q) \/ Reply(q)
        PROVE  \E x \in PostType : post' = [post EXCEPT ![q] = x]
    BY <2>2 DEF Receive, ModelAnswers, Finish, Reply, At, PostType
  <2>3. ASSUME Replace PROVE post' \in [Prompts -> PostType]
    BY <2>3 DEF Replace, AuditTypes, PostType
  <2>4. ASSUME post' = post PROVE post' \in [Prompts -> PostType]
    BY <2>4 DEF AuditTypes
  <2> QED
    BY <2>1, <2>2, <2>3, <2>4 DEF WindowMoves, ProxyMoves, Kill, Look, Claim, OpenWindow,
       CloseWindow, ProxyStep, proxyVars
<1>5. began' \in [Runs -> SUBSET Prompts]
  <2>1. ASSUME NEW q \in Prompts, BeginsInWindow(q)
        PROVE  began' \in [Runs -> SUBSET Prompts]
    <3>1. \A r \in Runs : began[r] \in SUBSET Prompts /\ began[r] \cup {q} \in SUBSET Prompts
      BY DEF AuditTypes
    <3> QED
      BY <2>1, <3>1 DEF BeginsInWindow
  <2>2. ASSUME began' = began PROVE began' \in [Runs -> SUBSET Prompts]
    BY <2>2 DEF AuditTypes
  <2> QED
    BY <2>1, <2>2 DEF WindowMoves, ProxyMoves, Kill, Look, Claim, OpenWindow, CloseWindow,
       ProxyStep
<1>6. \A r \in Runs : run[r] \in RunType
  BY DEF RunTypes
<1>7. RunTypes'
  <2>1. ASSUME NEW r \in Runs, NEW x \in RunType, run' = [run EXCEPT ![r] = x]
        PROVE  RunTypes'
    BY <2>1 DEF RunTypes
  <2>2. Here \in [id : Nat, offset : Nat]
    BY <1>2 DEF Here
  <2>3. ASSUME NEW r \in Runs, Look(r) \/ OpenWindow(r) PROVE RunTypes'
    <3>1. \E x \in {[run[r] EXCEPT !.at = "looked", !.start = Here],
                    [run[r] EXCEPT !.at = "open", !.start = Here],
                    [run[r] EXCEPT !.at = "failed"]} : run' = [run EXCEPT ![r] = x]
      BY <2>3 DEF Look, OpenWindow, Moves
    <3>2. /\ [run[r] EXCEPT !.at = "looked", !.start = Here] \in RunType
          /\ [run[r] EXCEPT !.at = "open", !.start = Here] \in RunType
          /\ [run[r] EXCEPT !.at = "failed"] \in RunType
      BY <1>6, <2>2 DEF RunType
    <3> QED
      BY <2>1, <3>1, <3>2
  <2>4. CASE Kill \/ \E r \in Runs : Claim(r) \/ CloseWindow(r)
    <3>1. \E r \in Runs, x \in {"dead", "closed", "claimed", "failed"} :
             run' = [run EXCEPT ![r] = [run[r] EXCEPT !.at = x]]
      BY <2>4 DEF Kill, Claim, CloseWindow, Moves
    <3> QED
      BY <1>6, <2>1, <3>1 DEF RunType
  <2>5. CASE run' = run
    BY <2>5 DEF RunTypes
  <2> QED
    BY <2>3, <2>4, <2>5 DEF WindowMoves, ProxyMoves, Receive, ModelAnswers, Finish, Reply,
         Replace
<1>8. RowTypes'
  <2>1. CASE rows' = rows
    BY <2>1 DEF RowTypes
  <2>2. ASSUME NEW r \in Runs, CloseWindow(r), rows' # rows PROVE RowTypes'
    <3>1. Usable(r, From(run[r].start.offset))
      BY <2>2 DEF CloseWindow
    <3> QED
      BY <2>2, <3>1, WindowGrows DEF GrowsBy, RowTypes
  <2> QED
    BY <2>1, <2>2 DEF WindowMoves, ProxyMoves, Kill, Look, Claim, OpenWindow, ProxyStep
<1> QED
  BY <1>1, <1>3, <1>4, <1>5, <1>7, <1>8 DEF AuditTypes

LEMMA TypesStay ==
    ASSUME LedgerIndInv, [LedgerNext]_ledgerVars
    PROVE  Types'
<1> USE DEF LedgerIndInv
<1>1. SourceTypes'
  BY SourceStays
<1>2. CASE UNCHANGED ledgerVars
  BY <1>1, <1>2 DEF ledgerVars, proxyVars, agentVars, Types, AuditTypes, RunTypes, RowTypes,
     SessionTypes, AgentTypes, CounterTypes
<1>3. CASE source = "agent" /\ AgentStep
  <2>1. /\ AgentTypes' /\ SessionTypes' /\ RowTypes'
        /\ UNCHANGED <<audit, post, run, counter, began>>
    BY <1>3, AgentTypesStay
  <2> QED
    BY <1>1, <2>1 DEF Types, AuditTypes, RunTypes, CounterTypes
<1>4. CASE source = "task" /\ ObserveTask
  <2>1. RowTypes'
    BY <1>4, TaskGrows DEF GrowsBy, RowTypes
  <2>2. UNCHANGED <<audit, post, run, counter, began, session, att, gateway>>
    BY <1>4 DEF ObserveTask, proxyVars, agentVars
  <2> QED
    BY <1>1, <2>1, <2>2 DEF Types, AuditTypes, RunTypes, SessionTypes, AgentTypes,
         CounterTypes
<1>5. CASE source = "counter" /\ CounterMoves
  <2>1. /\ CounterTypes' /\ RunTypes' /\ RowTypes'
        /\ UNCHANGED <<audit, post, session, att, gateway, began>>
    BY <1>5, CounterTypesStay
  <2> QED
    BY <1>1, <2>1 DEF Types, AuditTypes, SessionTypes, AgentTypes
<1>6. CASE source = "proxy" /\ WindowMoves
  <2>1. /\ AuditTypes' /\ RunTypes' /\ RowTypes'
        /\ UNCHANGED <<session, att, gateway, counter>>
    BY <1>6, WindowTypesStay
  <2> QED
    BY <1>1, <2>1 DEF Types, SessionTypes, AgentTypes, CounterTypes
<1>7. source \in Sources
  BY DEF Types, SourceTypes
<1> QED
  BY <1>2, <1>3, <1>4, <1>5, <1>6, <1>7, StepsBySource DEF Sources

LEMMA RestStays ==
    ASSUME LedgerIndInv, [LedgerNext]_ledgerVars
    PROVE  RestInv'
<1> USE DEF LedgerIndInv
<1>1. CASE UNCHANGED ledgerVars
  BY <1>1 DEF ledgerVars, proxyVars, agentVars, RestInv
<1>2. CASE source = "agent" /\ AgentStep
  <2>1. UNCHANGED <<post, run>> /\ source' = source
    BY <1>2, AgentTypesStay, StepsBySource
  <2> QED
    BY <1>2, <2>1 DEF RestInv
<1>3. CASE source = "task" /\ ObserveTask
  BY <1>3 DEF ObserveTask, proxyVars, agentVars, RestInv
<1>4. CASE source = "counter" /\ CounterMoves
  <2>1. UNCHANGED <<post, att, gateway>> /\ source' = source
    BY <1>4, CounterTypesStay, StepsBySource
  <2>2. \A r \in Runs : run[r] \in RunType
    BY DEF Types, RunTypes
  <2>3. ASSUME NEW r \in Runs
        PROVE  run'[r].at \in {"idle", "before1", "before2", "before", "after1", "after2", "after",
                               "closed", "dead"}
               /\ (r # TheRun => run'[r].at \in {"idle", "dead"})
    <3>1. CASE CounterSnapshot(TheRun)
      <4> DEFINE Steps == {"before1", "before2", "before", "after1", "after2", "after"}
      <4>1. \E x : run' = [run EXCEPT ![TheRun] = x] /\ x.at \in Steps
        <5>1. TheRun \in Runs /\ run[TheRun] \in RunType
          BY <2>2, LedgerData
        <5> DEFINE v == run[TheRun]
                   found == IF counter.gen = v.seen.gen THEN v.seen ELSE NoCounter
                   Nexts == {[v EXCEPT !.at = "before1", !.seen.gen = counter.gen],
                       [v EXCEPT !.at = "after1", !.seen.gen = counter.gen],
                       [v EXCEPT !.at = "before2", !.seen.n = counter.n, !.seen.ever = counter.ever],
                       [v EXCEPT !.at = "after2", !.seen.n = counter.n, !.seen.ever = counter.ever],
                       [v EXCEPT !.at = "before", !.before = found],
                       [v EXCEPT !.at = "after", !.after = found]}
        <5>2. \E x \in Nexts : run' = [run EXCEPT ![TheRun] = x]
          BY <3>1 DEF CounterSnapshot, Snapshot, Moves
        <5>3. \A x \in Nexts : x.at \in Steps
          BY <5>1 DEF RunType
        <5> HIDE DEF Nexts
        <5> QED
          BY <5>2, <5>3
      <4>2. run \in [Runs -> RunType]
        BY DEF Types, RunTypes
      <4> QED
        BY <1>4, <4>1, <4>2 DEF RestInv
    <3>2. CASE Kill
      BY <1>4, <2>2, <3>2 DEF Kill, Moves, RestInv, RunType, Types, RunTypes
    <3>3. ASSUME NEW s \in Runs, RecordWindow(s)
          PROVE  run'[r].at \in {"idle", "before1", "before2", "before", "after1", "after2", "after",
                                 "closed", "dead"}
                 /\ (r # TheRun => run'[r].at \in {"idle", "dead"})
      <4>1. s = TheRun
        BY <1>4, <3>3 DEF RecordWindow, RestInv
      <4> QED
        BY <1>4, <2>2, <3>3, <4>1 DEF RecordWindow, RestInv, RunType, Types, RunTypes
    <3>4. CASE run' = run
      BY <1>4, <3>4 DEF RestInv
    <3> QED
      BY <1>4, <3>1, <3>2, <3>3, <3>4 DEF CounterMoves, BackendCalls, BackendRestarts
  <2> QED
    BY <1>4, <2>1, <2>3 DEF RestInv
<1>5. CASE source = "proxy" /\ WindowMoves
  <2>1. UNCHANGED <<att, gateway>> /\ source' = source
    BY <1>5, WindowTypesStay, StepsBySource
  <2>2. \A r \in Runs : run[r] \in RunType
    BY DEF Types, RunTypes
  <2>3. ASSUME NEW r \in Runs
        PROVE  run'[r].at \in {"idle", "looked", "claimed", "open", "closed", "failed", "dead"}
    <3>1. ASSUME NEW s \in Runs, Look(s) \/ Claim(s) \/ OpenWindow(s) \/ CloseWindow(s)
          PROVE  run'[r].at \in {"idle", "looked", "claimed", "open", "closed", "failed", "dead"}
      <4>1. \E x : run' = [run EXCEPT ![s] = x]
                   /\ x.at \in {"looked", "claimed", "open", "closed", "failed"}
        <5>1. run[s] \in RunType
          BY <2>2
        <5> DEFINE Nexts == {[run[s] EXCEPT !.at = "looked", !.start = Here],
                             [run[s] EXCEPT !.at = "open", !.start = Here],
                             [run[s] EXCEPT !.at = "claimed"], [run[s] EXCEPT !.at = "closed"],
                             [run[s] EXCEPT !.at = "failed"]}
        <5>2. \E x \in Nexts : run' = [run EXCEPT ![s] = x]
          BY <3>1 DEF Look, Claim, OpenWindow, CloseWindow, Moves
        <5>3. \A x \in Nexts : x.at \in {"looked", "claimed", "open", "closed", "failed"}
          BY <5>1 DEF RunType
        <5> HIDE DEF Nexts
        <5> QED
          BY <5>2, <5>3
      <4>2. run \in [Runs -> RunType]
        BY DEF Types, RunTypes
      <4> QED
        BY <1>5, <4>1, <4>2 DEF RestInv
    <3>2. CASE Kill
      BY <1>5, <2>2, <3>2 DEF Kill, Moves, RestInv, RunType, Types, RunTypes
    <3>3. CASE run' = run
      BY <1>5, <3>3 DEF RestInv
    <3> QED
      BY <1>5, <3>1, <3>2, <3>3 DEF WindowMoves, ProxyMoves, Receive, ModelAnswers, Finish,
           Reply, Replace
  <2> QED
    BY <1>5, <2>1, <2>3 DEF RestInv
<1>6. source \in Sources
  BY DEF Types, SourceTypes
<1> QED
  BY <1>1, <1>2, <1>3, <1>4, <1>5, <1>6, StepsBySource DEF Sources
-----------------------------------------------------------------------------
\* What a step of the agent does to its attempts, the session and the gateway.
AttemptGoes(a, at, before, read) ==
    /\ att'[a].at = at /\ att'[a].before = before /\ att'[a].read = read
    /\ \A b \in Attempts \ {a} : att'[b] = att[b]
AttemptBegun(a) ==
    /\ att[a].at = "none" /\ \A b \in Attempts : b < a => att[b].at = "over"
    /\ \E offset \in Offsets : AttemptGoes(a, "calling", offset, att[a].read)
    /\ gateway'.made = gateway.made /\ gateway'.on = gateway.on \cup {a} /\ session' = session
Called(a) ==
    /\ a \in gateway.on /\ gateway.made[a] < NumCalls /\ att' = att
    /\ gateway'.on = gateway.on /\ gateway'.made[a] = gateway.made[a] + 1
    /\ \A b \in Attempts \ {a} : gateway'.made[b] = gateway.made[b]
    /\ session'.ino = (IF session.ino = 0 THEN 1 ELSE session.ino)
    /\ session'.lines = Append(session.lines, Call("agent", a, gateway.made[a] + 1))
Answered(a) ==
    /\ a \in gateway.on /\ gateway.made[a] > 0 /\ session' = session
    /\ AttemptGoes(a, IF att[a].at = "calling" THEN "answered" ELSE att[a].at, att[a].before,
               att[a].read)
    /\ gateway'.made = gateway.made /\ gateway'.on = gateway.on \ {a}
GivenUp(a) ==
    /\ att[a].at = "calling" /\ AttemptGoes(a, "failed", att[a].before, att[a].read)
    /\ gateway' = gateway /\ session' = session
Rotated ==
    /\ session.ino # 0 /\ session'.ino = session.ino + 1 /\ session'.lines = <<>>
    /\ att' = att /\ gateway' = gateway
Collected(a) ==
    /\ att[a].at \in {"answered", "failed"} /\ gateway' = gateway /\ session' = session
    /\ AttemptGoes(a, IF att[a].at = "answered" THEN "summed" ELSE "unsummed", att[a].before,
               ToSet(NewLines(a)))
Closed(a) ==
    /\ att[a].at \in {"summed", "unsummed"} /\ gateway' = gateway /\ session' = session
    /\ AttemptGoes(a, "over", att[a].before, att[a].read)
Killed ==
    /\ gateway' = gateway /\ session' = session /\ rows' = rows
    /\ \A a \in Attempts : /\ att'[a].at = "over" /\ att'[a].before = att[a].before
                           /\ att'[a].read = att[a].read

LEMMA AttemptsAreTyped ==
    ASSUME Types
    PROVE  /\ att \in [Attempts -> AttType] /\ gateway.on \subseteq Attempts
           /\ gateway \in [made : [Attempts -> 0..NumCalls], on : SUBSET Attempts]
           /\ \A a \in Attempts :
                /\ att[a] \in AttType /\ gateway.made[a] \in 0..NumCalls
                /\ att[a].read \in SUBSET Lines
                /\ att[a].before.ino \in Int /\ att[a].before.size \in Nat
  BY DEF Types, AgentTypes, AttType

LEMMA ResponseCloses ==
    ASSUME Types, NEW a \in Attempts, CollectResponse(a)
    PROVE  Closed(a)
<1> DEFINE x == [att[a] EXCEPT !.at = "over"]
<1>1. att' = [att EXCEPT ![a] = x]
  BY AttemptsAreTyped DEF CollectResponse
<1>2. x.at = "over" /\ x.before = att[a].before /\ x.read = att[a].read
  BY AttemptsAreTyped DEF AttType
<1> HIDE DEF x
<1>3. AttemptGoes(a, "over", att[a].before, att[a].read)
  BY <1>1, <1>2, AttemptsAreTyped DEF AttemptGoes
<1> QED
  BY <1>3 DEF CollectResponse, Closed

LEMMA AgentEffects ==
    ASSUME Types, source = "agent", AgentStep
    PROVE  \/ \E a \in Attempts : \/ Begin(a) /\ AttemptBegun(a)
                                  \/ GatewayCalls(a) /\ Called(a)
                                  \/ GatewayAnswers(a) /\ Answered(a)
                                  \/ GiveUp(a) /\ GivenUp(a)
                                  \/ CollectLines(a) /\ Collected(a)
                                  \/ CollectResponse(a) /\ Closed(a)
           \/ Rotate /\ Rotated
           \/ Kill /\ Killed
<1>1. ASSUME NEW a \in Attempts, NEW x, att' = [att EXCEPT ![a] = x]
      PROVE  att'[a] = x /\ \A b \in Attempts \ {a} : att'[b] = att[b]
  BY <1>1, AttemptsAreTyped
<1>2. ASSUME NEW a \in Attempts, Begin(a) PROVE AttemptBegun(a)
  <2>1. PICK offset \in Offsets :
           att' = [att EXCEPT ![a].at = "calling", ![a].before = offset]
    BY <1>2 DEF Begin
  <2> DEFINE x == [[att[a] EXCEPT !.at = "calling"] EXCEPT !.before = offset]
  <2>2. att' = [att EXCEPT ![a] = x]
    BY <2>1, AttemptsAreTyped
  <2>3. x.at = "calling" /\ x.before = offset /\ x.read = att[a].read
    BY AttemptsAreTyped DEF AttType
  <2> HIDE DEF x
  <2>4. AttemptGoes(a, "calling", offset, att[a].read)
    BY <1>1, <2>2, <2>3 DEF AttemptGoes
  <2>5. gateway'.made = gateway.made /\ gateway'.on = gateway.on \cup {a}
    BY <1>2, AttemptsAreTyped DEF Begin
  <2> QED
    BY <1>2, <2>4, <2>5 DEF Begin, AttemptBegun
<1>3. ASSUME NEW a \in Attempts, GatewayCalls(a) PROVE Called(a)
  <2>1. gateway' = [gateway EXCEPT !.made[a] = gateway.made[a] + 1]
    BY <1>3 DEF GatewayCalls
  <2>2. /\ gateway'.on = gateway.on /\ gateway'.made[a] = gateway.made[a] + 1
        /\ \A b \in Attempts \ {a} : gateway'.made[b] = gateway.made[b]
    BY <2>1, AttemptsAreTyped
  <2> QED
    BY <1>3, <2>2 DEF GatewayCalls, Called
<1>4. ASSUME NEW a \in Attempts, GatewayAnswers(a) PROVE Answered(a)
  <2> DEFINE to == IF att[a].at = "calling" THEN "answered" ELSE att[a].at
             x == [att[a] EXCEPT !.at = to]
  <2>1. att' = [att EXCEPT ![a] = x]
    BY <1>4, AttemptsAreTyped DEF GatewayAnswers
  <2>2. x.at = to /\ x.before = att[a].before /\ x.read = att[a].read
    BY AttemptsAreTyped DEF AttType
  <2> HIDE DEF x
  <2>3. AttemptGoes(a, to, att[a].before, att[a].read)
    BY <1>1, <2>1, <2>2 DEF AttemptGoes
  <2>4. gateway'.made = gateway.made /\ gateway'.on = gateway.on \ {a}
    BY <1>4, AttemptsAreTyped DEF GatewayAnswers
  <2> QED
    BY <1>4, <2>3, <2>4 DEF GatewayAnswers, Answered
<1>5. ASSUME NEW a \in Attempts, GiveUp(a) PROVE GivenUp(a)
  <2> DEFINE x == [att[a] EXCEPT !.at = "failed"]
  <2>1. att' = [att EXCEPT ![a] = x]
    BY <1>5, AttemptsAreTyped DEF GiveUp
  <2>2. x.at = "failed" /\ x.before = att[a].before /\ x.read = att[a].read
    BY AttemptsAreTyped DEF AttType
  <2> HIDE DEF x
  <2>3. AttemptGoes(a, "failed", att[a].before, att[a].read)
    BY <1>1, <2>1, <2>2 DEF AttemptGoes
  <2> QED
    BY <1>5, <2>3 DEF GiveUp, GivenUp
<1>6. ASSUME NEW a \in Attempts, CollectLines(a) PROVE Collected(a)
  <2> DEFINE to == IF att[a].at = "answered" THEN "summed" ELSE "unsummed"
             lines == ToSet(NewLines(a))
             x == [[att[a] EXCEPT !.at = to] EXCEPT !.read = lines]
  <2>1. att' = [att EXCEPT ![a].at = IF @ = "answered" THEN "summed" ELSE "unsummed",
                           ![a].read = lines]
    BY <1>6 DEF CollectLines
  <2> HIDE DEF lines
  <2>2. att' = [att EXCEPT ![a] = x]
    BY <2>1, AttemptsAreTyped
  <2>3. x.at = to /\ x.before = att[a].before /\ x.read = lines
    BY AttemptsAreTyped DEF AttType
  <2> HIDE DEF x
  <2>4. AttemptGoes(a, to, att[a].before, lines)
    BY <1>1, <2>2, <2>3 DEF AttemptGoes
  <2> QED
    BY <1>6, <2>4 DEF CollectLines, Collected, lines
<1>7. ASSUME NEW a \in Attempts, CollectResponse(a) PROVE Closed(a)
  BY <1>7, ResponseCloses
<1>8. ASSUME Rotate PROVE Rotated
  BY <1>8 DEF Rotate, Rotated
<1>9. ASSUME Kill PROVE Killed
  <2>1. att' = [b \in Attempts |-> [att[b] EXCEPT !.at = "over"]]
    BY <1>9 DEF Kill
  <2>2. \A a \in Attempts :
           LET x == [att[a] EXCEPT !.at = "over"]
           IN  x.at = "over" /\ x.before = att[a].before /\ x.read = att[a].read
    BY AttemptsAreTyped DEF AttType
  <2> QED
    BY <1>9, <2>1, <2>2 DEF Kill, Killed
<1> QED
  BY <1>2, <1>3, <1>4, <1>5, <1>6, <1>7, <1>8, <1>9 DEF AgentStep
-----------------------------------------------------------------------------
\* The agent: its rows, and what they stand for.
LEMMA AgentRowsGrow ==
    ASSUME Types, source = "agent", AgentStep
    PROVE  /\ DOMAIN rows \subseteq DOMAIN rows' /\ \A i \in DOMAIN rows : rows'[i] = rows[i]
           /\ \A i \in DOMAIN rows' \ DOMAIN rows :
                 \/ \E a \in Attempts : Begin(a) /\ rows'[i] = AttemptRow(a, 0, TRUE, Missing)
                 \/ \E a \in Attempts : CollectLines(a) /\ \E x \in ToSet(NewLines(a)) :
                       rows'[i] = Row(TheRun, x, -1, "request", TRUE, {x})
                 \/ \E a \in Attempts : CollectResponse(a) /\ \E use \in Summary(a) :
                       rows'[i] = AttemptRow(a, 1, att[a].read = {}, use) /\ OneMore
<1>1. CASE rows' = rows
  BY <1>1
<1>2. ASSUME NEW a \in Attempts, Begin(a)
      PROVE  GrowsBy({AttemptRow(a, 0, TRUE, Missing)})
  BY <1>2, BeginGrows
<1>3. ASSUME NEW a \in Attempts, CollectLines(a)
      PROVE  GrowsBy({Row(TheRun, x, -1, "request", TRUE, {x}) : x \in ToSet(NewLines(a))})
  BY <1>3, LinesGrow
<1>4. ASSUME NEW a \in Attempts, CollectResponse(a)
      PROVE  \E use \in Summary(a) :
                GrowsBy({AttemptRow(a, 1, att[a].read = {}, use)}) /\ OneMore
  BY <1>4, ResponseGrows
<1>5. CASE \E a \in Attempts : Begin(a)
  BY <1>2, <1>5 DEF GrowsBy
<1>6. CASE \E a \in Attempts : CollectLines(a)
  BY <1>3, <1>6 DEF GrowsBy
<1>7. CASE \E a \in Attempts : CollectResponse(a)
  BY <1>4, <1>7 DEF GrowsBy
<1> QED
  BY <1>1, <1>5, <1>6, <1>7 DEF AgentStep, GatewayCalls, GatewayAnswers, GiveUp, Rotate, Kill

LEMMA AgentGoesOn ==
    ASSUME Types, AttemptInv, source = "agent", AgentStep, NEW b \in Attempts
    PROVE  /\ gateway.made[b] \in 0..NumCalls /\ gateway'.made[b] \in 0..NumCalls
           /\ gateway.made[b] <= gateway'.made[b]
           /\ b \notin gateway.on => gateway'.made[b] = gateway.made[b]
           /\ b \notin gateway.on /\ att[b].at # "none" => b \notin gateway'.on
           /\ att[b].at # "none" => att'[b].at # "none"
           /\ att[b].at = "over" => att'[b].at = "over"
           /\ att[b].read \subseteq att'[b].read
<1>1. gateway.made[b] \in 0..NumCalls /\ NumCalls \in Nat
  BY AttemptsAreTyped, LedgerData
<1>2. gateway'.made[b] \in 0..NumCalls
  BY AgentTypesStay DEF AgentTypes
<1> DEFINE G == /\ gateway.made[b] <= gateway'.made[b]
                /\ b \notin gateway.on => gateway'.made[b] = gateway.made[b]
                /\ b \notin gateway.on /\ att[b].at # "none" => b \notin gateway'.on
                /\ att[b].at # "none" => att'[b].at # "none"
                /\ att[b].at = "over" => att'[b].at = "over"
                /\ att[b].read \subseteq att'[b].read
<1>3. ASSUME NEW a \in Attempts, AttemptBegun(a) PROVE G
  BY <1>1, <1>3 DEF AttemptBegun, AttemptGoes
<1>4. ASSUME NEW a \in Attempts, Called(a) PROVE G
  BY <1>1, <1>4 DEF Called
<1>5. ASSUME NEW a \in Attempts, Answered(a) PROVE G
  BY <1>1, <1>5 DEF Answered, AttemptGoes
<1>6. ASSUME NEW a \in Attempts, GivenUp(a) \/ Closed(a) PROVE G
  BY <1>1, <1>6 DEF GivenUp, Closed, AttemptGoes
<1>7. ASSUME NEW a \in Attempts, Collected(a) PROVE G
  <2>1. att[a].read = {}
    BY <1>7 DEF Collected, AttemptInv
  <2> QED
    BY <1>1, <1>7, <2>1 DEF Collected, AttemptGoes
<1>8. ASSUME Rotated \/ Killed PROVE G
  BY <1>1, <1>8 DEF Rotated, Killed
<1> HIDE DEF G
<1>9. G
  BY <1>3, <1>4, <1>5, <1>6, <1>7, <1>8, AgentEffects
<1> QED
  BY <1>1, <1>2, <1>9 DEF G

LEMMA AgentRowsStay ==
    ASSUME Types, AgentInv, source = "agent", AgentStep
    PROVE  AgentRowsInv' /\ OneResponse'
<1> USE DEF AgentInv
<1>1. ASSUME NEW i \in DOMAIN rows PROVE AgentRow(i)'
  <2>1. rows'[i] = rows[i] /\ AgentRow(i)
    BY AgentRowsGrow DEF AgentRowsInv
  <2>2. PICK a \in Attempts :
          \/ IsAttempt(i, a, 0) /\ rows[i].use = Missing /\ att[a].at # "none"
          \/ /\ IsAttempt(i, a, 1) /\ att[a].at = "over"
             /\ rows[i].use # Missing => rows[i].use = CallsOf(a) /\ a \notin gateway.on
          \/ \E k \in 1..gateway.made[a] :
                rows[i] = LineRow(a, k) /\ \E b \in Attempts : Call("agent", a, k) \in att[b].read
    BY <2>1 DEF AgentRow
  <2>3. CASE IsAttempt(i, a, 0) /\ rows[i].use = Missing /\ att[a].at # "none"
    BY <2>1, <2>3, AgentGoesOn DEF AgentRow, IsAttempt
  <2>4. CASE /\ IsAttempt(i, a, 1) /\ att[a].at = "over"
             /\ rows[i].use # Missing => rows[i].use = CallsOf(a) /\ a \notin gateway.on
    <3>1. att'[a].at = "over" /\ (a \notin gateway.on => a \notin gateway'.on
                                    /\ gateway'.made[a] = gateway.made[a])
      BY <2>4, AgentGoesOn
    <3>2. rows'[i].use # Missing => rows'[i].use = CallsOf(a)' /\ a \notin gateway'.on
      BY <2>1, <2>4, <3>1 DEF CallsOf
    <3>3. IsAttempt(i, a, 1)'
      BY <2>1, <2>4 DEF IsAttempt
    <3> QED
      BY <3>1, <3>2, <3>3 DEF AgentRow
  <2>5. CASE \E k \in 1..gateway.made[a] :
                rows[i] = LineRow(a, k) /\ \E b \in Attempts : Call("agent", a, k) \in att[b].read
    <3>1. PICK k \in 1..gateway.made[a], b \in Attempts :
             rows[i] = LineRow(a, k) /\ Call("agent", a, k) \in att[b].read
      BY <2>5
    <3>2. k \in 1..gateway'.made[a] /\ Call("agent", a, k) \in att'[b].read
      <4>1. gateway.made[a] <= gateway'.made[a] /\ gateway.made[a] \in 0..NumCalls
              /\ gateway'.made[a] \in 0..NumCalls /\ NumCalls \in Nat
        BY AgentGoesOn, LedgerData
      <4>2. att[b].read \subseteq att'[b].read
        BY AgentGoesOn
      <4> QED
        BY <3>1, <4>1, <4>2
    <3>3. rows'[i] = LineRow(a, k)'
      BY <2>1, <3>1 DEF LineRow
    <3> QED
      BY <3>2, <3>3 DEF AgentRow
  <2> QED
    BY <2>2, <2>3, <2>4, <2>5
<1>2. ASSUME NEW i \in DOMAIN rows' \ DOMAIN rows PROVE AgentRow(i)'
  <2>1. ASSUME NEW a \in Attempts, Begin(a), rows'[i] = AttemptRow(a, 0, TRUE, Missing)
        PROVE  AgentRow(i)'
    <3>1. att'[a].at # "none"
      BY <2>1 DEF Begin, Types, AgentTypes, AttType
    <3> QED
      BY <2>1, <3>1 DEF AgentRow, IsAttempt, AttemptRow, Row
  <2>2. ASSUME NEW a \in Attempts, CollectLines(a), NEW x \in ToSet(NewLines(a)),
               rows'[i] = Row(TheRun, x, -1, "request", TRUE, {x})
        PROVE  AgentRow(i)'
    <3>1. PICK k \in DOMAIN session.lines : x = session.lines[k]
      BY NewLinesFacts DEF ToSet, Types
    <3>2. PICK c \in Attempts : \E m \in 1..gateway.made[c] : x = Call("agent", c, m)
      BY <3>1 DEF LinesInv
    <3>2a. PICK m \in 1..gateway.made[c] : x = Call("agent", c, m)
      BY <3>2
    <3>3. gateway'.made[c] = gateway.made[c] /\ x \in att'[a].read
      BY <2>2 DEF CollectLines, Types, AgentTypes, AttType
    <3>4. rows'[i] = LineRow(c, m)'
      BY <2>2, <3>2a DEF LineRow
    <3> QED
      BY <3>2a, <3>3, <3>4 DEF AgentRow
  <2>3. ASSUME NEW a \in Attempts, CollectResponse(a), NEW use \in Summary(a),
               rows'[i] = AttemptRow(a, 1, att[a].read = {}, use)
        PROVE  AgentRow(i)'
    <3>1. att'[a].at = "over" /\ UNCHANGED gateway
      BY <2>3 DEF CollectResponse, Types, AgentTypes, AttType
    <3>2. use # Missing => use = CallsOf(a) /\ att[a].at = "summed"
      BY DEF Summary, Usages, CallsOf
    <3>3. use # Missing => use = CallsOf(a)' /\ a \notin gateway'.on
      BY <3>1, <3>2 DEF AttemptInv, CallsOf
    <3>4. IsAttempt(i, a, 1)' /\ rows'[i].use = use
      BY <2>3 DEF IsAttempt, AttemptRow, Row
    <3> QED
      BY <3>1, <3>3, <3>4 DEF AgentRow
  <2> QED
    BY <2>1, <2>2, <2>3, AgentRowsGrow
<1>3. AgentRowsInv'
  BY <1>1, <1>2 DEF AgentRowsInv
<1>4. ASSUME NEW i \in DOMAIN rows', NEW j \in DOMAIN rows', NEW c \in Attempts,
             IsAttempt(i, c, 1)', IsAttempt(j, c, 1)'
      PROVE  i = j
  <2>1. ASSUME NEW k \in DOMAIN rows' \ DOMAIN rows, IsAttempt(k, c, 1)'
        PROVE  CollectResponse(c) /\ OneMore
    <3>1. ASSUME NEW a \in Attempts, rows'[k] = AttemptRow(a, 0, TRUE, Missing) PROVE FALSE
      BY <2>1, <3>1 DEF IsAttempt, AttemptRow, Row
    <3>2. ASSUME NEW x, rows'[k] = Row(TheRun, x, -1, "request", TRUE, {x}) PROVE FALSE
      BY <2>1, <3>2 DEF IsAttempt, Row
    <3>3. ASSUME NEW a \in Attempts, NEW use, rows'[k] = AttemptRow(a, 1, att[a].read = {}, use)
          PROVE  a = c
      BY <2>1, <3>3 DEF IsAttempt, AttemptRow, Row
    <3> QED
      BY <3>1, <3>2, <3>3, AgentRowsGrow
  <2>2. ASSUME NEW k \in DOMAIN rows, IsAttempt(k, c, 1)'
        PROVE IsAttempt(k, c, 1) /\ ~CollectResponse(c)
    <3>1. IsAttempt(k, c, 1) /\ AgentRow(k)
      BY <2>2, AgentRowsGrow DEF IsAttempt, AgentRowsInv
    <3>2. \A a \in Attempts : \A m \in 1..gateway.made[a] : rows[k] # LineRow(a, m)
      BY <3>1 DEF IsAttempt, LineRow, Row
    <3>3. \A a \in Attempts : ~IsAttempt(k, a, 0) /\ (IsAttempt(k, a, 1) => a = c)
      BY <3>1 DEF IsAttempt
    <3>4. att[c].at = "over"
      BY <3>1, <3>2, <3>3 DEF AgentRow
    <3> QED
      BY <3>1, <3>4 DEF CollectResponse
  <2>3. CASE i \in DOMAIN rows /\ j \in DOMAIN rows
    BY <1>4, <2>2, <2>3 DEF OneResponse
  <2>4. CASE i \notin DOMAIN rows /\ j \notin DOMAIN rows
    BY <1>4, <2>1, <2>4 DEF OneMore
  <2>5. CASE i \in DOMAIN rows /\ j \notin DOMAIN rows
    BY <1>4, <2>1, <2>2, <2>5
  <2>6. CASE i \notin DOMAIN rows /\ j \in DOMAIN rows
    BY <1>4, <2>1, <2>2, <2>6
  <2> QED
    BY <2>3, <2>4, <2>5, <2>6
<1> QED
  BY <1>3, <1>4 DEF OneResponse

LEMMA AttemptsGoOn ==
    ASSUME Types, AttemptInv, source = "agent", AgentStep
    PROVE  AttemptInv'
<1>1. /\ session.ino \in Nat /\ Attempts \subseteq Int
      /\ \A b \in Attempts : /\ att[b].before.ino \in Int /\ gateway.made[b] \in Nat
  BY AttemptsAreTyped, LedgerData DEF Types, SessionTypes
<1> DEFINE Turns == \A a, b \in Attempts : a < b => att'[b].at = "none" \/ att'[a].at = "over"
           Good(b) == /\ att'[b].at = "none" => b \notin gateway'.on /\ gateway'.made[b] = 0
                      /\ att'[b].at \in {"answered", "summed"} =>
                            b \notin gateway'.on /\ gateway'.made[b] > 0
                      /\ att'[b].at \in {"none", "calling", "answered", "failed"} =>
                            att'[b].read = {}
                      /\ gateway'.made[b] > 0 => session'.ino > 0
                      /\ att'[b].before.ino <= session'.ino
<1>2. ASSUME NEW a \in Attempts, AttemptBegun(a) PROVE Turns /\ \A b \in Attempts : Good(b)
  <2>1. Turns
    BY <1>1, <1>2 DEF AttemptBegun, AttemptGoes, AttemptInv
  <2>2. ASSUME NEW b \in Attempts PROVE Good(b)
    <3>1. b = a => att'[b].before.ino <= session'.ino
      BY <1>1, <1>2 DEF AttemptBegun, AttemptGoes, Offsets, NoOffset
    <3> QED
      BY <1>1, <1>2, <3>1 DEF AttemptBegun, AttemptGoes, AttemptInv
  <2> QED
    BY <2>1, <2>2
<1>3. ASSUME NEW a \in Attempts, Called(a) PROVE Turns /\ \A b \in Attempts : Good(b)
  <2>1. Turns
    BY <1>3 DEF Called, AttemptInv
  <2>2. ASSUME NEW b \in Attempts PROVE Good(b)
    BY <1>1, <1>3 DEF Called, AttemptInv
  <2> QED
    BY <2>1, <2>2
<1>4. ASSUME NEW a \in Attempts, Answered(a) PROVE Turns /\ \A b \in Attempts : Good(b)
  <2>1. Turns
    BY <1>1, <1>4 DEF Answered, AttemptGoes, AttemptInv
  <2>2. ASSUME NEW b \in Attempts PROVE Good(b)
    BY <1>1, <1>4 DEF Answered, AttemptGoes, AttemptInv
  <2> QED
    BY <2>1, <2>2
<1>5. ASSUME NEW a \in Attempts, GivenUp(a) PROVE Turns /\ \A b \in Attempts : Good(b)
  <2>1. Turns
    BY <1>1, <1>5 DEF GivenUp, AttemptGoes, AttemptInv
  <2>2. ASSUME NEW b \in Attempts PROVE Good(b)
    BY <1>1, <1>5 DEF GivenUp, AttemptGoes, AttemptInv
  <2> QED
    BY <2>1, <2>2
<1>6. ASSUME NEW a \in Attempts, Collected(a) PROVE Turns /\ \A b \in Attempts : Good(b)
  <2>1. Turns
    BY <1>1, <1>6 DEF Collected, AttemptGoes, AttemptInv
  <2>2. ASSUME NEW b \in Attempts PROVE Good(b)
    BY <1>1, <1>6 DEF Collected, AttemptGoes, AttemptInv
  <2> QED
    BY <2>1, <2>2
<1>7. ASSUME NEW a \in Attempts, Closed(a) PROVE Turns /\ \A b \in Attempts : Good(b)
  <2>1. Turns
    BY <1>1, <1>7 DEF Closed, AttemptGoes, AttemptInv
  <2>2. ASSUME NEW b \in Attempts PROVE Good(b)
    BY <1>1, <1>7 DEF Closed, AttemptGoes, AttemptInv
  <2> QED
    BY <2>1, <2>2
<1>8. ASSUME Rotated PROVE Turns /\ \A b \in Attempts : Good(b)
  BY <1>1, <1>8 DEF Rotated, AttemptInv
<1>9. ASSUME Killed PROVE Turns /\ \A b \in Attempts : Good(b)
  BY <1>1, <1>9 DEF Killed, AttemptInv
<1> HIDE DEF Turns, Good
<1>10. Turns /\ \A b \in Attempts : Good(b)
  BY <1>2, <1>3, <1>4, <1>5, <1>6, <1>7, <1>8, <1>9, AgentEffects
<1> QED
  BY <1>10 DEF AttemptInv, Turns, Good

\* The lines of a session are of attempts that have begun, and an attempt reads
\* none of a later one.
LEMMA LinesStay ==
    ASSUME Types, AttemptInv, LinesInv, source = "agent", AgentStep
    PROVE  LinesInv'
<1> DEFINE Line(x) == \E a \in Attempts : \E m \in 1..gateway.made[a] : x = Call("agent", a, m)
           Later(x) == \E a \in Attempts : \E m \in 1..gateway'.made[a] : x = Call("agent", a, m)
           Before(x, b) == \E a \in Attempts : \E m \in 1..gateway.made[a] :
                              a <= b /\ x = Call("agent", a, m)
<1>1. \A a \in Attempts : \A m \in 1..gateway.made[a] : m \in 1..gateway'.made[a]
  <2> SUFFICES ASSUME NEW a \in Attempts, NEW m \in 1..gateway.made[a]
               PROVE  m \in 1..gateway'.made[a]
    OBVIOUS
  <2>1. /\ gateway.made[a] \in 0..NumCalls /\ gateway'.made[a] \in 0..NumCalls
        /\ gateway.made[a] <= gateway'.made[a] /\ NumCalls \in Nat
    BY AgentGoesOn, LedgerData
  <2> QED
    BY <2>1
<1>2. \A x : Line(x) => Later(x)
  BY <1>1
<1>3. \A x : \A b \in Attempts : Before(x, b) => Before(x, b)'
  BY <1>1
<1>4. /\ \A k \in DOMAIN session.lines : Line(session.lines[k])
      /\ \A b \in Attempts : \A x \in att[b].read : Before(x, b)
  BY DEF LinesInv
<1>5. Attempts \subseteq Int /\ session.lines \in Seq(Lines)
  BY LedgerData DEF Types, SessionTypes
<1>6. ASSUME NEW c \in Attempts, Called(c)
      PROVE  \A k \in DOMAIN session'.lines : Later(session'.lines[k])
  <2> DEFINE x == Call("agent", c, gateway.made[c] + 1)
  <2>1. Later(x)
    <3>1. gateway'.made[c] = gateway.made[c] + 1 /\ gateway.made[c] \in 0..NumCalls
            /\ NumCalls \in Nat
      BY <1>6, AttemptsAreTyped, LedgerData DEF Called
    <3>2. gateway.made[c] + 1 \in 1..gateway'.made[c]
      BY <3>1
    <3> QED
      BY <3>2
  <2>2. session'.lines = Append(session.lines, x)
    BY <1>6 DEF Called
  <2> HIDE DEF x, Line, Later
  <2>3. \A k \in DOMAIN session'.lines :
           session'.lines[k] = x \/ \E j \in DOMAIN session.lines :
              session'.lines[k] = session.lines[j]
    <3>1. Len(session.lines) \in Nat /\ DOMAIN session.lines = 1..Len(session.lines)
      BY <1>5
    <3>2. /\ DOMAIN Append(session.lines, x) = 1..(Len(session.lines) + 1)
          /\ Append(session.lines, x)[Len(session.lines) + 1] = x
          /\ \A j \in 1..Len(session.lines) : Append(session.lines, x)[j] = session.lines[j]
      BY <1>5, AppendProperties, <3>1
    <3> QED
      BY <2>2, <3>1, <3>2
  <2> QED
    BY <1>2, <1>4, <2>1, <2>3
<1>7. ASSUME NEW c \in Attempts, Collected(c)
      PROVE  \A x \in ToSet(NewLines(c)) : Before(x, c)
  <2> SUFFICES ASSUME NEW x \in ToSet(NewLines(c)) PROVE Before(x, c)
    OBVIOUS
  <2>1. PICK k \in DOMAIN session.lines : x = session.lines[k]
    BY NewLinesFacts DEF ToSet, Types
  <2>2. PICK a \in Attempts : \E m \in 1..gateway.made[a] : x = Call("agent", a, m)
    BY <1>4, <2>1
  <2>3. gateway.made[a] \in Nat /\ gateway.made[a] # 0
    BY <2>2, AttemptsAreTyped, LedgerData
  <2>4. att[a].at # "none" /\ att[c].at # "over"
    BY <1>7, <2>3 DEF Collected, AttemptInv
  <2>5. ~(c < a)
    BY <2>4 DEF AttemptInv
  <2>6. a <= c
    BY <1>5, <2>5
  <2> QED
    BY <2>2, <2>6
<1> HIDE DEF Line, Later, Before
<1>8. \A k \in DOMAIN session'.lines : Later(session'.lines[k])
  <2>1. CASE session' = session
    BY <1>2, <1>4, <2>1
  <2>2. CASE Rotated
    BY <2>2 DEF Rotated
  <2> QED
    BY <1>6, <2>1, <2>2, AgentEffects
       DEF AttemptBegun, Answered, GivenUp, Collected, Closed, Killed
<1>9. \A b \in Attempts : \A x \in att'[b].read : Before(x, b)
  <2> SUFFICES ASSUME NEW b \in Attempts PROVE \A x \in att'[b].read : Before(x, b)
    OBVIOUS
  <2>1. CASE att'[b].read = att[b].read
    BY <1>4, <2>1
  <2>2. ASSUME NEW c \in Attempts, Collected(c) PROVE \A x \in att'[b].read : Before(x, b)
    BY <1>4, <1>7, <2>2 DEF Collected, AttemptGoes
  <2>3. CASE \E c \in Attempts : AttemptBegun(c) \/ Answered(c) \/ GivenUp(c) \/ Closed(c)
    <3>1. att'[b].read = att[b].read
      BY <2>3 DEF AttemptBegun, Answered, GivenUp, Closed, AttemptGoes
    <3> QED
      BY <2>1, <3>1
  <2> QED
    BY <2>1, <2>2, <2>3, AgentEffects DEF Called, Rotated, Killed
<1>10. \A b \in Attempts : \A x \in att'[b].read : Before(x, b)'
  BY <1>3, <1>9
<1> QED
  BY <1>8, <1>10 DEF LinesInv, Later, Before

\* What stands for a response that counts is in no line read, now or later.
LEMMA SummedStays ==
    ASSUME Types, AgentInv, source = "agent", AgentStep
    PROVE  SummedInv'
<1> USE DEF AgentInv
<1> DEFINE Unread(a) == \A b \in Attempts, m \in 1..NumCalls : Call("agent", a, m) \notin att[b].read
           Behind(a, b) ==
              /\ att[b].before.ino # 0
              /\ att[b].before.ino = session.ino =>
                    \A k \in DOMAIN session.lines, m \in 1..NumCalls :
                       session.lines[k] = Call("agent", a, m) => k <= att[b].before.size
           Waits(b) == att[b].at \in {"calling", "answered", "failed"}
<1>1. /\ Attempts \subseteq Int /\ session.lines \in Seq(Lines) /\ session.ino \in Nat
      /\ Len(session.lines) \in Nat /\ DOMAIN session.lines = 1..Len(session.lines)
      /\ \A b \in Attempts : /\ att[b].before.ino \in Int /\ att[b].before.size \in Nat
                             /\ gateway.made[b] \in Nat
      /\ NumCalls \in Nat
  BY AttemptsAreTyped, LedgerData DEF Types, SessionTypes
<1>2. ASSUME NEW a \in Attempts, Summed(a)
      PROVE  /\ gateway.made[a] > 0 /\ Unread(a) /\ att[a].at = "over" /\ a \notin gateway.on
             /\ session.ino > 0 /\ \A b \in Attempts : a < b /\ Waits(b) => Behind(a, b)
  <2>1. PICK i \in DOMAIN rows : IsAttempt(i, a, 1) /\ rows[i].use # Missing
    BY <1>2 DEF Summed
  <2>2. AgentRow(i)
    BY <2>1 DEF AgentRowsInv
  <2>3. \A c \in Attempts : \A m \in 1..gateway.made[c] : rows[i] # LineRow(c, m)
    BY <2>1 DEF IsAttempt, LineRow, Row
  <2>4. \A c \in Attempts : ~IsAttempt(i, c, 0) /\ (IsAttempt(i, c, 1) => a = c)
    BY <2>1 DEF IsAttempt
  <2>5. att[a].at = "over" /\ a \notin gateway.on
    BY <2>1, <2>2, <2>3, <2>4 DEF AgentRow
  <2> QED
    BY <1>2, <2>5 DEF SummedInv, AttemptInv
<1> HIDE DEF AgentInv
<1>3. ASSUME NEW a \in Attempts, Summed(a)
      PROVE  gateway'.made[a] > 0 /\ Unread(a)'
  <2>1. gateway'.made[a] > 0
    <3>1. gateway.made[a] <= gateway'.made[a] /\ gateway'.made[a] \in 0..NumCalls
      BY AgentGoesOn DEF AgentInv
    <3> QED
      BY <1>1, <1>2, <1>3, <3>1
  <2>2. ASSUME NEW b \in Attempts, Collected(b), NEW m \in 1..NumCalls,
               Call("agent", a, m) \in ToSet(NewLines(b))
        PROVE  FALSE
    <3> DEFINE x == Call("agent", a, m)
    <3>1. PICK k \in DOMAIN session.lines :
             /\ x = session.lines[k]
             /\ att[b].before.ino # 0 =>
                   att[b].before.ino = session.ino /\ att[b].before.size < k
      BY <2>2, NewLinesFacts DEF ToSet, Types
    <3>2. Waits(b)
      BY <2>2 DEF Collected
    <3>3. a < b
      <4>1. b # a
        BY <1>2, <1>3, <3>2
      <4>2. ~(b < a)
        BY <1>2, <1>3, <3>2 DEF AgentInv, AttemptInv
      <4> QED
        BY <1>1, <4>1, <4>2
    <3>4. Behind(a, b)
      BY <1>2, <1>3, <3>2, <3>3
    <3>5. k <= att[b].before.size /\ att[b].before.size < k
      BY <3>1, <3>4
    <3> QED
      BY <1>1, <3>5
  <2>3. ASSUME NEW c \in Attempts, Collected(c) PROVE Unread(a)'
    BY <1>2, <1>3, <2>2, <2>3 DEF Collected, AttemptGoes
  <2>4. ASSUME NEW c \in Attempts, AttemptBegun(c) \/ Answered(c) \/ GivenUp(c) \/ Closed(c)
        PROVE  Unread(a)'
    BY <1>2, <1>3, <2>4 DEF AttemptBegun, Answered, GivenUp, Closed, AttemptGoes
  <2>5. ASSUME Rotated \/ Killed \/ att' = att PROVE Unread(a)'
    BY <1>2, <1>3, <2>5 DEF Rotated, Killed
  <2> HIDE DEF Unread
  <2> QED
    BY <2>1, <2>3, <2>4, <2>5, AgentEffects DEF Called
<1>4. ASSUME NEW a \in Attempts, Summed(a), NEW b \in Attempts, a < b, Waits(b)'
      PROVE  Behind(a, b)'
  <2>1. ASSUME NEW c \in Attempts, AttemptBegun(c) PROVE Behind(a, b)'
    <3>1. CASE b = c
      <4>1. PICK offset \in Offsets : att'[b].before = offset
        BY <2>1, <3>1 DEF AttemptBegun, AttemptGoes
      <4>2. session' = session
        BY <2>1 DEF AttemptBegun
      <4> QED
        BY <1>1, <1>2, <1>4, <4>1, <4>2 DEF Offsets, NoOffset
    <3>2. CASE b # c
      BY <1>2, <1>4, <2>1, <3>2 DEF AttemptBegun, AttemptGoes
    <3> QED
      BY <3>1, <3>2
  <2>2. ASSUME NEW c \in Attempts, Called(c) PROVE Behind(a, b)'
    <3>1. Behind(a, b) /\ c # a /\ session'.ino = session.ino /\ att' = att
      BY <1>1, <1>2, <1>4, <2>2 DEF Called
    <3> DEFINE y == Call("agent", c, gateway.made[c] + 1)
               n == Len(session.lines)
    <3>2. /\ session'.lines = Append(session.lines, y)
          /\ \A m \in 1..NumCalls : y # Call("agent", a, m)
      BY <2>2, <3>1 DEF Called, Call
    <3> HIDE DEF y
    <3>3. /\ DOMAIN session'.lines = 1..(n + 1) /\ session'.lines[n + 1] = y
          /\ \A j \in 1..n : session'.lines[j] = session.lines[j]
      BY <1>1, <3>2, AppendProperties
    <3>4. ASSUME NEW k \in DOMAIN session'.lines, NEW m \in 1..NumCalls,
                 session'.lines[k] = Call("agent", a, m)
          PROVE  k \in DOMAIN session.lines /\ session.lines[k] = Call("agent", a, m)
      BY <1>1, <3>2, <3>3, <3>4
    <3> QED
      BY <3>1, <3>4
  <2>3. ASSUME NEW c \in Attempts, Answered(c) PROVE Behind(a, b)'
    BY <1>2, <1>4, <2>3 DEF Answered, AttemptGoes
  <2>4. ASSUME NEW c \in Attempts, GivenUp(c) \/ Collected(c) \/ Closed(c) PROVE Behind(a, b)'
    BY <1>2, <1>4, <2>4 DEF GivenUp, Collected, Closed, AttemptGoes
  <2>5. ASSUME Rotated PROVE Behind(a, b)'
    <3>1. att[b].before.ino <= session.ino
      BY DEF AgentInv, AttemptInv
    <3> QED
      BY <1>1, <1>2, <1>4, <2>5, <3>1 DEF Rotated
  <2>6. ASSUME Killed PROVE FALSE
    BY <1>4, <2>6 DEF Killed
  <2> HIDE DEF Behind
  <2> QED
    BY <2>1, <2>2, <2>3, <2>4, <2>5, <2>6, AgentEffects
<1>5. ASSUME NEW a \in Attempts, Summed(a)', ~Summed(a)
      PROVE  gateway'.made[a] > 0 /\ Unread(a)' /\ \A b \in Attempts : a < b => ~Waits(b)'
  <2>1. PICK i \in DOMAIN rows' :
           IsAttempt(i, a, 1)' /\ rows'[i].selected /\ rows'[i].use # Missing
    BY <1>5 DEF Summed
  <2>2. i \notin DOMAIN rows
    BY <1>5, <2>1, AgentRowsGrow DEF Summed, IsAttempt
  <2>3. ASSUME NEW c \in Attempts, rows'[i] = AttemptRow(c, 0, TRUE, Missing) PROVE FALSE
    BY <2>1, <2>3 DEF IsAttempt, AttemptRow, Row
  <2>4. ASSUME NEW x, rows'[i] = Row(TheRun, x, -1, "request", TRUE, {x}) PROVE FALSE
    BY <2>1, <2>4 DEF IsAttempt, Row
  <2>5. PICK c \in Attempts : CollectResponse(c) /\ \E use \in Summary(c) :
           rows'[i] = AttemptRow(c, 1, att[c].read = {}, use)
    BY <2>2, <2>3, <2>4, AgentRowsGrow
  <2>6. c = a /\ att[a].read = {} /\ rows'[i].use \in Summary(a)
    <3>1. PICK use \in Summary(c) : rows'[i] = AttemptRow(c, 1, att[c].read = {}, use)
      BY <2>5
    <3>2. c = a
      BY <2>1, <3>1 DEF IsAttempt, AttemptRow, Row
    <3>3. rows'[i].use = use /\ rows'[i].selected = (att[c].read = {})
      BY <3>1 DEF AttemptRow, Row
    <3> QED
      BY <2>1, <3>2, <3>3
  <2>7. att[a].at = "summed"
    BY <2>1, <2>6 DEF Summary
  <2>8. gateway.made[a] > 0 /\ gateway' = gateway
    BY <2>5, <2>7 DEF AgentInv, AttemptInv, CollectResponse
  <2>9. \A b \in Attempts : a < b => att[b].at = "none"
    BY <2>7 DEF AgentInv, AttemptInv
  <2>10. \A b \in Attempts, m \in 1..NumCalls : Call("agent", a, m) \notin att[b].read
    <3> SUFFICES ASSUME NEW b \in Attempts, NEW m \in 1..NumCalls,
                        Call("agent", a, m) \in att[b].read
                 PROVE  FALSE
      OBVIOUS
    <3>1. PICK d \in Attempts : d <= b /\ \E n \in 1..gateway.made[d] :
             Call("agent", a, m) = Call("agent", d, n)
      BY DEF AgentInv, LinesInv
    <3>2. d = a
      BY <3>1 DEF Call
    <3>3. b = a \/ a < b
      BY <1>1, <3>1, <3>2
    <3>4. att[b].read = {}
      BY <2>6, <2>9, <3>3 DEF AgentInv, AttemptInv
    <3> QED
      BY <3>4
  <2>11. Closed(a)
    <3>1. Types /\ CollectResponse(a)
      BY <2>5, <2>6
    <3> QED
      BY <3>1, ResponseCloses
  <2>12. \A b \in Attempts : att'[b].read = att[b].read /\ (b # a => att'[b] = att[b])
    BY <2>11 DEF Closed, AttemptGoes
  <2>13. Unread(a)'
    BY <2>10, <2>12
  <2>14. ASSUME NEW b \in Attempts, a < b PROVE ~Waits(b)'
    <3>1. b # a /\ att[b].at = "none"
      BY <1>1, <2>9, <2>14
    <3> QED
      BY <2>12, <3>1
  <2> HIDE DEF Unread, Waits
  <2> QED
    BY <2>8, <2>13, <2>14
<1> HIDE DEF Unread, Behind, Waits
<1>6. ASSUME NEW a \in Attempts, Summed(a)'
      PROVE  /\ gateway'.made[a] > 0 /\ Unread(a)'
             /\ \A b \in Attempts : a < b /\ Waits(b)' => Behind(a, b)'
  BY <1>3, <1>4, <1>5, <1>6
<1> QED
  BY <1>6 DEF SummedInv, Unread, Behind, Waits

LEMMA AgentInvStays ==
    ASSUME Types, AgentInv, source = "agent", AgentStep
    PROVE  AgentInv'
  BY AgentRowsStay, AttemptsGoOn, LinesStay, SummedStays DEF AgentInv

-----------------------------------------------------------------------------
\* A task has rows of one record.
LEMMA TaskInvStays ==
    ASSUME Types, TaskInv, ObserveTask
    PROVE  TaskInv'
<1>1. PICK use \in {{Call("task", 1, 0)}, Missing} :
         GrowsBy({Row(TheRun, <<"task", 1, 0>>, -1, "task", TRUE, use)})
  BY TaskGrows
<1> DEFINE e == Row(TheRun, <<"task", 1, 0>>, -1, "task", TRUE, use)
<1>2. GrowsBy({e})
  BY <1>1
<1> HIDE DEF e
<1>3. \A i \in DOMAIN rows' : rows'[i] = e \/ (i \in DOMAIN rows /\ rows'[i] = rows[i])
  BY <1>2 DEF GrowsBy
<1> QED
  BY <1>3 DEF TaskInv, TaskRow, e

-----------------------------------------------------------------------------
\* The counters: what a step does to the run.
OthersStay(r) == \A s \in Runs \ {r} : run'[s] = run[s]

LEMMA RunGoes ==
    ASSUME Types, NEW r \in Runs, NEW x, run' = [run EXCEPT ![r] = x]
    PROVE  run'[r] = x /\ OthersStay(r)
  BY DEF Types, RunTypes, OthersStay

LEMMA RunIsTyped ==
    ASSUME Types, NEW r \in Runs
    PROVE  /\ run[r] \in RunType /\ run[r].seen \in CounterType
           /\ run[r].before \in CounterType /\ run[r].after \in CounterType
           /\ run[r].start.id \in Nat /\ run[r].start.offset \in Nat
  BY DEF Types, RunTypes, RunType

LEMMA SnapshotDoes ==
    ASSUME Types, CounterSnapshot(TheRun)
    PROVE  LET v == run[TheRun]
               w == run'[TheRun]
               found == IF counter.gen = v.seen.gen THEN v.seen ELSE NoCounter
           IN  /\ counter' = counter /\ rows' = rows /\ OthersStay(TheRun)
               /\ \/ /\ (v.at = "idle" /\ w.at = "before1") \/ (v.at = "before" /\ w.at = "after1")
                     /\ w.seen.gen = counter.gen /\ w.before = v.before /\ w.after = v.after
                  \/ /\ (v.at = "before1" /\ w.at = "before2") \/ (v.at = "after1" /\ w.at = "after2")
                     /\ w.seen.gen = v.seen.gen /\ w.seen.n = counter.n
                     /\ w.seen.ever = counter.ever /\ w.before = v.before /\ w.after = v.after
                  \/ /\ v.at = "before2" /\ w.at = "before" /\ w.before = found
                     /\ w.seen = v.seen /\ w.after = v.after
                  \/ /\ v.at = "after2" /\ w.at = "after" /\ w.after = found
                     /\ w.seen = v.seen /\ w.before = v.before
<1> DEFINE v == run[TheRun]
           w == run'[TheRun]
           found == IF counter.gen = v.seen.gen THEN v.seen ELSE NoCounter
           First(x) == /\ x.seen.gen = counter.gen /\ x.before = v.before /\ x.after = v.after
           Second(x) == /\ x.seen.gen = v.seen.gen /\ x.seen.n = counter.n
                        /\ x.seen.ever = counter.ever /\ x.before = v.before /\ x.after = v.after
<1>1. TheRun \in Runs /\ v \in RunType
  BY LedgerData, RunIsTyped
<1>2. counter' = counter /\ rows' = rows
  BY DEF CounterSnapshot, CounterStep
<1>3. ASSUME NEW to \in {"before1", "after1"},
             run' = [run EXCEPT ![TheRun] = [v EXCEPT !.at = to, !.seen.gen = counter.gen]]
      PROVE  OthersStay(TheRun) /\ w.at = to /\ First(w)
  <2> DEFINE x == [v EXCEPT !.at = to, !.seen.gen = counter.gen]
  <2>1. x.at = to /\ First(x)
    BY <1>1 DEF RunType, CounterType
  <2>2. run' = [run EXCEPT ![TheRun] = x]
    BY <1>3
  <2> HIDE DEF x, v
  <2>3. w = x /\ OthersStay(TheRun)
    BY <1>1, <2>2, RunGoes
  <2> QED
    BY <2>1, <2>3
<1>4. ASSUME NEW to \in {"before2", "after2"},
             run' = [run EXCEPT ![TheRun] =
                        [v EXCEPT !.at = to, !.seen.n = counter.n, !.seen.ever = counter.ever]]
      PROVE  OthersStay(TheRun) /\ w.at = to /\ Second(w)
  <2> DEFINE x == [v EXCEPT !.at = to, !.seen.n = counter.n, !.seen.ever = counter.ever]
  <2>1. x.at = to /\ Second(x)
    BY <1>1 DEF RunType, CounterType
  <2>2. run' = [run EXCEPT ![TheRun] = x]
    BY <1>4
  <2> HIDE DEF x, v
  <2>3. w = x /\ OthersStay(TheRun)
    BY <1>1, <2>2, RunGoes
  <2> QED
    BY <2>1, <2>3
<1>5. ASSUME run' = [run EXCEPT ![TheRun] = [v EXCEPT !.at = "before", !.before = found]]
      PROVE  OthersStay(TheRun) /\ w.at = "before" /\ w.before = found /\ w.seen = v.seen
             /\ w.after = v.after
  <2> HIDE DEF found
  <2> DEFINE x == [v EXCEPT !.at = "before", !.before = found]
  <2>1. x.at = "before" /\ x.before = found /\ x.seen = v.seen /\ x.after = v.after
    BY <1>1 DEF RunType
  <2>2. run' = [run EXCEPT ![TheRun] = x]
    BY <1>5
  <2> HIDE DEF x, v
  <2>3. w = x /\ OthersStay(TheRun)
    BY <1>1, <2>2, RunGoes
  <2> QED
    BY <2>1, <2>3
<1>6. ASSUME run' = [run EXCEPT ![TheRun] = [v EXCEPT !.at = "after", !.after = found]]
      PROVE  OthersStay(TheRun) /\ w.at = "after" /\ w.after = found /\ w.seen = v.seen
             /\ w.before = v.before
  <2> HIDE DEF found
  <2> DEFINE x == [v EXCEPT !.at = "after", !.after = found]
  <2>1. x.at = "after" /\ x.after = found /\ x.seen = v.seen /\ x.before = v.before
    BY <1>1 DEF RunType
  <2>2. run' = [run EXCEPT ![TheRun] = x]
    BY <1>6
  <2> HIDE DEF x, v
  <2>3. w = x /\ OthersStay(TheRun)
    BY <1>1, <2>2, RunGoes
  <2> QED
    BY <2>1, <2>3
<1>7. \/ /\ v.at = "idle"
         /\ run' = [run EXCEPT ![TheRun] = [v EXCEPT !.at = "before1", !.seen.gen = counter.gen]]
      \/ /\ v.at = "before"
         /\ run' = [run EXCEPT ![TheRun] = [v EXCEPT !.at = "after1", !.seen.gen = counter.gen]]
      \/ /\ v.at = "before1"
         /\ run' = [run EXCEPT ![TheRun] =
                       [v EXCEPT !.at = "before2", !.seen.n = counter.n, !.seen.ever = counter.ever]]
      \/ /\ v.at = "after1"
         /\ run' = [run EXCEPT ![TheRun] =
                       [v EXCEPT !.at = "after2", !.seen.n = counter.n, !.seen.ever = counter.ever]]
      \/ /\ v.at = "before2"
         /\ run' = [run EXCEPT ![TheRun] = [v EXCEPT !.at = "before", !.before = found]]
      \/ /\ v.at = "after2"
         /\ run' = [run EXCEPT ![TheRun] = [v EXCEPT !.at = "after", !.after = found]]
  BY DEF CounterSnapshot, Snapshot, Moves
<1> HIDE DEF v, w, found
<1>8. /\ OthersStay(TheRun)
      /\ \/ ((v.at = "idle" /\ w.at = "before1") \/ (v.at = "before" /\ w.at = "after1")) /\ First(w)
         \/ ((v.at = "before1" /\ w.at = "before2") \/ (v.at = "after1" /\ w.at = "after2"))
            /\ Second(w)
         \/ /\ v.at = "before2" /\ w.at = "before" /\ w.before = found
            /\ w.seen = v.seen /\ w.after = v.after
         \/ /\ v.at = "after2" /\ w.at = "after" /\ w.after = found
            /\ w.seen = v.seen /\ w.before = v.before
  <2> HIDE DEF First, Second
  <2>1. CASE /\ v.at = "idle"
             /\ run' = [run EXCEPT ![TheRun] = [v EXCEPT !.at = "before1", !.seen.gen = counter.gen]]
    BY <1>3, <2>1
  <2>2. CASE /\ v.at = "before"
             /\ run' = [run EXCEPT ![TheRun] = [v EXCEPT !.at = "after1", !.seen.gen = counter.gen]]
    BY <1>3, <2>2
  <2>3. CASE /\ v.at = "before1"
             /\ run' = [run EXCEPT ![TheRun] =
                       [v EXCEPT !.at = "before2", !.seen.n = counter.n, !.seen.ever = counter.ever]]
    BY <1>4, <2>3
  <2>4. CASE /\ v.at = "after1"
             /\ run' = [run EXCEPT ![TheRun] =
                       [v EXCEPT !.at = "after2", !.seen.n = counter.n, !.seen.ever = counter.ever]]
    BY <1>4, <2>4
  <2>5. CASE /\ v.at = "before2"
             /\ run' = [run EXCEPT ![TheRun] = [v EXCEPT !.at = "before", !.before = found]]
    BY <1>5, <2>5
  <2>6. CASE /\ v.at = "after2"
             /\ run' = [run EXCEPT ![TheRun] = [v EXCEPT !.at = "after", !.after = found]]
    BY <1>6, <2>6
  <2> QED
    BY <1>7, <2>1, <2>2, <2>3, <2>4, <2>5, <2>6
<1> QED
  BY <1>2, <1>8 DEF v, w, found

LEMMA RunStops ==
    ASSUME Types, NEW r \in Runs, NEW to,
           run' = [run EXCEPT ![r] = [run[r] EXCEPT !.at = to]]
    PROVE  /\ OthersStay(r) /\ run'[r].at = to /\ run'[r].start = run[r].start
           /\ run'[r].seen = run[r].seen /\ run'[r].before = run[r].before
           /\ run'[r].after = run[r].after
<1> DEFINE v == run[r]
           x == [v EXCEPT !.at = to]
<1>1. v \in RunType
  BY RunIsTyped
<1>2. x.at = to /\ x.start = v.start /\ x.seen = v.seen /\ x.before = v.before /\ x.after = v.after
  BY <1>1 DEF RunType
<1>3. run' = [run EXCEPT ![r] = x]
  OBVIOUS
<1> HIDE DEF x
<1>4. run'[r] = x /\ OthersStay(r)
  BY <1>3, RunGoes
<1> QED
  BY <1>2, <1>4

LEMMA CounterInvStays ==
    ASSUME Types, RestInv, CounterInv, CounterRowsInv, source = "counter", CounterMoves
    PROVE  CounterInv' /\ CounterRowsInv'
<1> DEFINE Good(r) ==
              /\ run[r].seen.gen <= counter.gen
              /\ run[r].at \in {"before2", "after2"} => Fits(run[r].seen)
              /\ run[r].before.gen <= counter.gen /\ Fits(run[r].before)
              /\ run[r].after.gen = run[r].before.gen =>
                    run[r].after.n - run[r].before.n = run[r].after.ever - run[r].before.ever
              /\ run[r].at \in {"idle", "before1", "before2", "before", "after1", "after2"} =>
                    run[r].after = NoCounter
              /\ run[r].at \in {"idle", "before1", "before2"} => run[r].before = NoCounter
<1>1. /\ counter.n <= counter.ever /\ counter.gen \in Nat /\ counter.gen # 0
      /\ counter.n \in Int /\ counter.ever \in Int
      /\ \A r \in Runs : Good(r)
  BY LedgerData DEF CounterInv, Types, CounterTypes
<1>2. ASSUME NEW r \in Runs
      PROVE  /\ run[r].seen.gen \in Nat /\ run[r].seen.n \in Int /\ run[r].seen.ever \in Int
             /\ run[r].before.gen \in Nat /\ run[r].before.n \in Int /\ run[r].before.ever \in Int
             /\ run[r].after.gen \in Nat /\ run[r].after.n \in Int /\ run[r].after.ever \in Int
  <2>1. \A c \in CounterType : c.gen \in Nat /\ c.n \in Int /\ c.ever \in Int
    BY LedgerData DEF CounterType
  <2> QED
    BY <2>1, RunIsTyped
<1>3. NoCounter.gen = 0 /\ NoCounter.n = 0 /\ NoCounter.ever = 0
  BY DEF NoCounter
<1>4. CASE BackendCalls
  <2>1. /\ counter'.n = counter.n + 1 /\ counter'.ever = counter.ever + 1
        /\ counter'.gen = counter.gen /\ run' = run /\ rows' = rows
    BY <1>4 DEF BackendCalls, Types, CounterTypes
  <2>2. ASSUME NEW r \in Runs PROVE Good(r)'
    BY <1>1, <1>2, <2>1 DEF Fits
  <2>3. counter'.n <= counter'.ever
    BY <1>1, <2>1
  <2> HIDE DEF Good
  <2>4. CounterRowsInv'
    BY <2>1 DEF CounterRowsInv, CounterRow
  <2> QED
    BY <2>2, <2>3, <2>4 DEF CounterInv, Good
<1>5. CASE BackendRestarts
  <2>1. /\ counter'.n = 0 /\ counter'.ever = counter.ever
        /\ counter'.gen = counter.gen + 1 /\ run' = run /\ rows' = rows
    BY <1>5 DEF BackendRestarts, Types, CounterTypes
  <2>2. ASSUME NEW r \in Runs, run[r].at \notin {"before2", "after2"} PROVE Good(r)'
    BY <1>1, <1>2, <2>1, <2>2 DEF Fits
  <2>3. ASSUME NEW r \in Runs, run[r].at \in {"before2", "after2"} PROVE Good(r)'
    BY <1>1, <1>2, <2>1, <2>3 DEF Fits
  <2>4. counter'.n <= counter'.ever
    <3>1. counter.ever \in Nat
      BY LedgerData DEF Types, CounterTypes
    <3> QED
      BY <2>1, <3>1
  <2> HIDE DEF Good
  <2>5. CounterRowsInv'
    BY <2>1 DEF CounterRowsInv, CounterRow
  <2> QED
    BY <2>2, <2>3, <2>4, <2>5 DEF CounterInv, Good
<1>6. CASE Kill
  <2>1. PICK r \in Runs : run' = [run EXCEPT ![r] = [run[r] EXCEPT !.at = "dead"]]
    BY <1>6 DEF Kill, Moves
  <2>2. /\ OthersStay(r) /\ run'[r].at = "dead" /\ run'[r].seen = run[r].seen
        /\ run'[r].before = run[r].before /\ run'[r].after = run[r].after
    BY <2>1, RunStops
  <2>3. counter' = counter /\ rows' = rows
    BY <1>6 DEF Kill
  <2>4. Good(r)'
    BY <1>1, <2>2, <2>3 DEF Fits
  <2>5. \A s \in Runs : s # r => Good(s)'
    BY <1>1, <2>2, <2>3 DEF Fits, OthersStay
  <2> HIDE DEF Good
  <2>6. CounterRowsInv'
    <3>1. /\ run'[TheRun].before = run[TheRun].before /\ run'[TheRun].after = run[TheRun].after
          /\ run'[TheRun].at = run[TheRun].at \/ run'[TheRun].at = "dead"
      BY <2>2, LedgerData DEF OthersStay
    <3> QED
      BY <2>3, <3>1 DEF CounterRowsInv, CounterRow
  <2>7. counter'.n <= counter'.ever
    BY <1>1, <2>3
  <2> QED
    BY <2>4, <2>5, <2>6, <2>7 DEF CounterInv, Good
<1>7. CASE CounterSnapshot(TheRun)
  <2> DEFINE v == run[TheRun]
             w == run'[TheRun]
             found == IF counter.gen = v.seen.gen THEN v.seen ELSE NoCounter
  <2>1. /\ counter' = counter /\ rows' = rows /\ OthersStay(TheRun)
        /\ \/ /\ (v.at = "idle" /\ w.at = "before1") \/ (v.at = "before" /\ w.at = "after1")
              /\ w.seen.gen = counter.gen /\ w.before = v.before /\ w.after = v.after
           \/ /\ (v.at = "before1" /\ w.at = "before2") \/ (v.at = "after1" /\ w.at = "after2")
              /\ w.seen.gen = v.seen.gen /\ w.seen.n = counter.n
              /\ w.seen.ever = counter.ever /\ w.before = v.before /\ w.after = v.after
           \/ /\ v.at = "before2" /\ w.at = "before" /\ w.before = found
              /\ w.seen = v.seen /\ w.after = v.after
           \/ /\ v.at = "after2" /\ w.at = "after" /\ w.after = found
              /\ w.seen = v.seen /\ w.before = v.before
    BY <1>7, SnapshotDoes
  <2>2. \A s \in Runs : s # TheRun => Good(s)'
    BY <1>1, <2>1 DEF Fits, OthersStay
  <2>3. Good(TheRun)
    BY <1>1, LedgerData
  <2>4. /\ v.seen.gen \in Nat /\ v.seen.n \in Int /\ v.seen.ever \in Int
        /\ v.before.gen \in Nat /\ v.before.n \in Int /\ v.before.ever \in Int
        /\ v.after.gen \in Nat /\ v.after.n \in Int /\ v.after.ever \in Int
    BY <1>2, LedgerData
  <2> HIDE DEF v, w
  <2> DEFINE GoodIf(x, c) ==
                /\ x.seen.gen <= c.gen
                /\ x.at \in {"before2", "after2"} => Fits(x.seen)
                /\ x.before.gen <= c.gen /\ Fits(x.before)
                /\ x.after.gen = x.before.gen =>
                      x.after.n - x.before.n = x.after.ever - x.before.ever
                /\ x.at \in {"idle", "before1", "before2", "before", "after1", "after2"} =>
                      x.after = NoCounter
                /\ x.at \in {"idle", "before1", "before2"} => x.before = NoCounter
  <2>5. GoodIf(v, counter)
    BY <2>3 DEF v
  <2>6. ASSUME (v.at = "idle" /\ w.at = "before1") \/ (v.at = "before" /\ w.at = "after1"),
               w.seen.gen = counter.gen, w.before = v.before, w.after = v.after
        PROVE  GoodIf(w, counter)
    BY <1>1, <2>4, <2>5, <2>6 DEF Fits
  <2>7. ASSUME (v.at = "before1" /\ w.at = "before2") \/ (v.at = "after1" /\ w.at = "after2"),
               w.seen.gen = v.seen.gen, w.seen.n = counter.n, w.seen.ever = counter.ever,
               w.before = v.before, w.after = v.after
        PROVE  GoodIf(w, counter)
    BY <1>1, <2>4, <2>5, <2>7 DEF Fits
  <2>8. found.gen <= counter.gen /\ (v.at \in {"before2", "after2"} => Fits(found))
    BY <1>1, <1>3, <2>4, <2>5 DEF Fits
  <2>9. /\ found.gen = 0 => found.n = found.ever
        /\ v.at \in {"before2", "after2"} /\ v.before.gen = found.gen =>
              found.n - v.before.n = found.ever - v.before.ever
        /\ found.n \in Int /\ found.ever \in Int /\ found.gen \in Nat
    <3>1. CASE counter.gen = v.seen.gen
      <4>1. found = v.seen
        BY <3>1
      <4> HIDE DEF found
      <4>2. v.at \in {"before2", "after2"} => Fits(v.seen)
        BY <2>5
      <4>3. Fits(v.before)
        BY <2>5
      <4> HIDE DEF GoodIf
      <4> QED
        BY <1>1, <2>4, <3>1, <4>1, <4>2, <4>3 DEF Fits
    <3>2. CASE counter.gen # v.seen.gen
      <4>1. found = NoCounter
        BY <3>2
      <4> HIDE DEF found
      <4>3. v.at \in {"before2", "after2"} /\ v.before.gen = 0 => v.before.n = v.before.ever
        <5>1. v.at \in {"before2", "after2"} => v.after = NoCounter
          BY <2>5
        <5>2. v.at \in {"before2", "after2"} /\ v.before.gen = 0 =>
                 v.after.n - v.before.n = v.after.ever - v.before.ever
          BY <1>3, <2>5, <5>1
        <5> QED
          BY <1>3, <2>4, <5>1, <5>2
      <4> HIDE DEF GoodIf
      <4> QED
        BY <1>3, <2>4, <4>1, <4>3
    <3> QED
      BY <3>1, <3>2
  <2> HIDE DEF found
  <2>10. ASSUME v.at = "before2", w.at = "before", w.before = found, w.seen = v.seen,
                w.after = v.after
         PROVE  GoodIf(w, counter)
    BY <1>1, <1>3, <2>4, <2>5, <2>8, <2>9, <2>10 DEF Fits
  <2>11. ASSUME v.at = "after2", w.at = "after", w.after = found, w.seen = v.seen,
                w.before = v.before
         PROVE  GoodIf(w, counter)
    BY <1>1, <1>3, <2>4, <2>5, <2>8, <2>9, <2>11 DEF Fits
  <2>12. GoodIf(w, counter)
    <3> HIDE DEF GoodIf
    <3> QED
      BY <2>1, <2>6, <2>7, <2>10, <2>11
  <2>13. Good(TheRun)'
    BY <2>1, <2>12 DEF w, Fits
  <2>14. CounterRowsInv'
    <3>1. v.at \notin {"closed", "dead"} /\ w.at # "closed"
      BY <2>1
    <3> QED
      BY <2>1, <3>1 DEF CounterRowsInv, v, w
  <2>15. \A r \in Runs : Good(r)'
    <3> HIDE DEF Good
    <3> QED
      BY <2>2, <2>13
  <2>16. counter'.n <= counter'.ever
    BY <1>1, <2>1
  <2> HIDE DEF Good
  <2> QED
    BY <2>14, <2>15, <2>16 DEF CounterInv, Good
<1>8. ASSUME NEW r \in Runs, RecordWindow(r) PROVE CounterInv' /\ CounterRowsInv'
  <2>1. r = TheRun /\ run[r].at = "after"
    BY <1>8 DEF RecordWindow, RestInv
  <2>2. /\ OthersStay(r) /\ run'[r].at = "closed" /\ run'[r].seen = run[r].seen
        /\ run'[r].before = run[r].before /\ run'[r].after = run[r].after
    <3>1. run' = [run EXCEPT ![r] = [run[r] EXCEPT !.at = "closed"]]
      BY <1>8 DEF RecordWindow
    <3> QED
      BY <3>1, RunStops
  <2>3. counter' = counter
    BY <1>8 DEF RecordWindow
  <2>4. Good(r)'
    BY <1>1, <2>2, <2>3 DEF Fits
  <2>5. \A s \in Runs : s # r => Good(s)'
    BY <1>1, <2>2, <2>3 DEF Fits, OthersStay
  <2>6. counter'.n <= counter'.ever
    BY <1>1, <2>3
  <2> HIDE DEF Good
  <2>7. CounterRowsInv'
    <3> DEFINE b == run[r].before
               a == run[r].after
               use == IF NoCounter \notin {a, b} /\ a.gen = b.gen /\ a.n >= b.n
                        THEN {Call("counter", i, 0) : i \in b.n + 1 .. a.n} ELSE Missing
               e == Row(r, <<"counter", 1, 0>>, -1, "run", TRUE, use)
    <3>1. /\ DOMAIN rows' = DOMAIN rows \cup {Len(rows) + 1}
          /\ rows'[Len(rows) + 1] = e /\ Len(rows') = Len(rows) + 1
      BY <1>8, CounterGrows
    <3>2. rows = <<>> /\ Len(rows) = 0
      BY <2>1 DEF CounterRowsInv
    <3>3. a.n \in Int /\ b.n \in Int
      BY <1>2
    <3> HIDE DEF use
    <3>4. e.run = TheRun /\ e.id = <<"counter", 1, 0>> /\ e.use = use
      BY <2>1 DEF Row
    <3>5. use # Missing =>
             /\ b.gen = a.gen /\ b.n <= a.n
             /\ use = {Call("counter", i, 0) : i \in b.n + 1 .. a.n}
      BY <3>3 DEF use
    <3> HIDE DEF e
    <3>6. rows'[1] = e /\ Len(rows') = 1
      BY <3>1, <3>2
    <3> QED
      BY <2>1, <2>2, <3>4, <3>5, <3>6 DEF CounterRowsInv, CounterRow
  <2> QED
    BY <2>4, <2>5, <2>6, <2>7 DEF CounterInv, Good
<1> QED
  BY <1>4, <1>5, <1>6, <1>7, <1>8 DEF CounterMoves
-----------------------------------------------------------------------------
\* The proxy and the windows of runs on its audit: what a step does.
PostGoes(q, to) == post'[q] = to /\ \A p \in Prompts \ {q} : post'[p] = post[p]
Logs(e) == audit'.id = audit.id /\ audit'.owner = audit.owner
           /\ audit'.log = Append(audit.log, e)
Received(q) ==
    /\ post[q] = "none" /\ PostGoes(q, "upstream") /\ BeginsInWindow(q)
    /\ run' = run /\ rows' = rows
    /\ audit' = audit \/ Logs(Event("started", q, Missing))
Served(q) ==
    /\ post[q] # "none" /\ run' = run /\ rows' = rows /\ began' = began
    /\ \/ \E to \in PostType \ {"none", "audited", "delivered"} :
             PostGoes(q, to) /\ (audit' = audit \/ Logs(Event("finished", q, Missing)))
       \/ PostGoes(q, "audited") /\ Logs(Event("finished", q, {RequestCall(q)}))
       \/ post[q] = "audited" /\ PostGoes(q, "delivered") /\ audit' = audit
Replaced ==
    /\ audit'.id = audit.id + 1 /\ audit'.owner = NoRun /\ audit'.log = <<>>
    /\ \A p \in Prompts : post'[p] = "none" <=> post[p] = "none"
    /\ run' = run /\ rows' = rows /\ began' = began
RunMoved(r, to, place) ==
    /\ run'[r].at = to /\ run'[r].start = place /\ OthersStay(r)
    /\ post' = post /\ began' = began
Looked(r) == run[r].at = "idle" /\ RunMoved(r, "looked", Here) /\ audit' = audit /\ rows' = rows
Claimed(r) ==
    /\ run[r].at = "looked" /\ audit.owner = NoRun /\ RunMoved(r, "claimed", run[r].start)
    /\ audit'.id = audit.id /\ audit'.owner = r /\ audit'.log = audit.log /\ rows' = rows
Opened(r) == run[r].at = "claimed" /\ RunMoved(r, "open", Here) /\ audit' = audit /\ rows' = rows
Ended(r) ==
    /\ \E to \in {"failed", "dead"} :
          /\ RunMoved(r, to, run[r].start)
          /\ to = "failed" => run[r].at \in {"looked", "claimed", "open"}
    /\ audit' = audit /\ rows' = rows
Shut(r) == /\ run[r].at = "open" /\ RunMoved(r, "closed", run[r].start) /\ audit' = audit
           /\ CloseWindow(r) /\ Usable(r, From(run[r].start.offset))

LEMMA AuditIsTyped ==
    ASSUME Types
    PROVE  /\ audit \in [id : Nat \ {0}, owner : Runs \cup {NoRun}, log : Seq(EventType)]
           /\ audit.id \in Nat \ {0} /\ audit.owner \in Runs \cup {NoRun}
           /\ audit.log \in Seq(EventType) /\ Len(audit.log) \in Nat
           /\ DOMAIN audit.log = 1..Len(audit.log)
           /\ post \in [Prompts -> PostType] /\ began \in [Runs -> SUBSET Prompts]
<1>1. /\ audit \in [id : Nat \ {0}, owner : Runs \cup {NoRun}, log : Seq(EventType)]
      /\ post \in [Prompts -> PostType] /\ began \in [Runs -> SUBSET Prompts]
  BY DEF Types, AuditTypes
<1>2. audit.log \in Seq(EventType) /\ audit.id \in Nat \ {0} /\ audit.owner \in Runs \cup {NoRun}
  BY <1>1
<1> QED
  BY <1>1, <1>2

LEMMA RequestsMove ==
    ASSUME Types, ProxyMoves
    PROVE  (\E q \in Prompts : Received(q) \/ Served(q)) \/ Replaced
<1>1. ASSUME NEW q \in Prompts, NEW from, NEW to, At(q, from, to)
      PROVE  post[q] = from /\ PostGoes(q, to)
  BY <1>1, AuditIsTyped DEF At, PostGoes
<1>2. ASSUME NEW e, Written(e) PROVE Logs(e)
  BY <1>2, AuditIsTyped DEF Written, Logs
<1>3. ASSUME NEW q \in Prompts, Receive(q), BeginsInWindow(q) PROVE Received(q)
  <2>1. At(q, "none", "upstream") /\ Emit(Event("started", q, Missing)) /\ run' = run
    BY <1>3 DEF Receive
  <2>2. audit' = audit \/ Logs(Event("started", q, Missing))
    BY <2>1, <1>2 DEF Emit
  <2> QED
    BY <1>1, <1>3, <2>1, <2>2 DEF Received, ProxyMoves
<1>4. ASSUME NEW q \in Prompts, ModelAnswers(q), UNCHANGED began PROVE Served(q)
  <2>1. PICK to \in {"complete", "unmetered", "failed"} : At(q, "upstream", to)
    BY <1>4 DEF ModelAnswers
  <2>2. post[q] = "upstream" /\ PostGoes(q, to)
    BY <1>1, <2>1
  <2>3. to \in PostType \ {"none", "audited", "delivered"} /\ audit' = audit /\ run' = run
    BY <1>4 DEF ModelAnswers, PostType
  <2> QED
    BY <1>4, <2>2, <2>3 DEF Served, ProxyMoves
<1>5. ASSUME NEW q \in Prompts, Finish(q), UNCHANGED began PROVE Served(q)
  <2>1. run' = run /\ rows' = rows
    BY <1>5 DEF Finish, ProxyMoves
  <2>2. CASE At(q, "complete", "audited") /\ Written(Event("finished", q, {RequestCall(q)}))
    <3>1. /\ post[q] = "complete" /\ PostGoes(q, "audited")
          /\ Logs(Event("finished", q, {RequestCall(q)}))
      BY <1>1, <1>2, <2>2
    <3> QED
      BY <1>5, <2>1, <3>1 DEF Served
  <2>3. CASE At(q, "complete", "unaudited") /\ UNCHANGED audit
    <3>1. post[q] = "complete" /\ PostGoes(q, "unaudited")
      BY <1>1, <2>3
    <3> QED
      BY <1>5, <2>1, <2>3, <3>1 DEF Served, PostType
  <2>4. CASE /\ At(q, "unmetered", "unaudited") \/ At(q, "refused", "over")
             /\ Emit(Event("finished", q, Missing))
    <3>1. PICK to \in {"unaudited", "over"} : post[q] # "none" /\ PostGoes(q, to)
      BY <1>1, <2>4
    <3>2. audit' = audit \/ Logs(Event("finished", q, Missing))
      BY <1>2, <2>4 DEF Emit
    <3> QED
      BY <1>5, <2>1, <3>1, <3>2 DEF Served, PostType
  <2> QED
    BY <1>5, <2>2, <2>3, <2>4 DEF Finish
<1>6. ASSUME NEW q \in Prompts, Reply(q), UNCHANGED began PROVE Served(q)
  <2>1. run' = run /\ rows' = rows /\ audit' = audit
    BY <1>6 DEF Reply, ProxyMoves
  <2>2. CASE At(q, "audited", "delivered")
    <3>1. post[q] = "audited" /\ PostGoes(q, "delivered")
      BY <1>1, <2>2
    <3> QED
      BY <1>6, <2>1, <3>1 DEF Served
  <2>3. CASE At(q, "audited", "over") \/ At(q, "unaudited", "over") \/ At(q, "failed", "refused")
    <3>1. PICK to \in {"over", "refused"} : post[q] # "none" /\ PostGoes(q, to)
      BY <1>1, <2>3
    <3> QED
      BY <1>6, <2>1, <3>1 DEF Served, PostType
  <2> QED
    BY <1>6, <2>2, <2>3 DEF Reply
<1>7. ASSUME Replace, UNCHANGED began PROVE Replaced
  <2>1. \A p \in Prompts : post'[p] = "none" <=> post[p] = "none"
    BY <1>7 DEF Replace
  <2> QED
    BY <1>7, <2>1 DEF Replace, Replaced, ProxyMoves
<1> QED
  BY <1>3, <1>4, <1>5, <1>6, <1>7 DEF ProxyMoves

LEMMA WindowsMove ==
    ASSUME Types, source = "proxy", WindowMoves
    PROVE  \/ \E q \in Prompts : Received(q) \/ Served(q)
           \/ Replaced
           \/ \E r \in Runs : Looked(r) \/ Claimed(r) \/ Opened(r) \/ Ended(r) \/ Shut(r)
<1>1. ASSUME NEW r \in Runs, NEW to, run' = [run EXCEPT ![r] = [run[r] EXCEPT !.at = to]],
             UNCHANGED <<post, began>>
      PROVE  RunMoved(r, to, run[r].start)
  BY <1>1, RunStops DEF RunMoved
<1>2. ASSUME NEW r \in Runs, NEW to,
             run' = [run EXCEPT ![r] = [run[r] EXCEPT !.at = to, !.start = Here]],
             UNCHANGED <<post, began>>
      PROVE  RunMoved(r, to, Here)
  <2> DEFINE x == [run[r] EXCEPT !.at = to, !.start = Here]
  <2>1. x.at = to /\ x.start = Here
    BY RunIsTyped DEF RunType
  <2>2. run' = [run EXCEPT ![r] = x]
    BY <1>2
  <2> HIDE DEF x
  <2>3. run'[r] = x /\ OthersStay(r)
    BY <2>2, RunGoes
  <2> QED
    BY <1>2, <2>1, <2>3 DEF RunMoved
<1>3. ASSUME NEW r \in Runs, Look(r) PROVE Looked(r)
  <2>1. /\ run[r].at = "idle" /\ UNCHANGED <<audit, post, rows, began>>
        /\ run' = [run EXCEPT ![r] = [run[r] EXCEPT !.at = "looked", !.start = Here]]
    BY <1>3 DEF Look, Moves, ProxyStep, proxyVars
  <2> QED
    BY <1>2, <2>1 DEF Looked
<1>4. ASSUME NEW r \in Runs, Claim(r) PROVE Claimed(r) \/ Ended(r)
  <2>1. CASE audit.owner = NoRun
    <3>1. /\ run[r].at = "looked" /\ UNCHANGED <<post, rows, began>>
          /\ run' = [run EXCEPT ![r] = [run[r] EXCEPT !.at = "claimed"]]
          /\ audit' = [audit EXCEPT !.owner = r]
      BY <1>4, <2>1 DEF Claim, Moves
    <3>2. audit'.id = audit.id /\ audit'.owner = r /\ audit'.log = audit.log
      BY <3>1, AuditIsTyped
    <3> QED
      BY <1>1, <2>1, <3>1, <3>2 DEF Claimed
  <2>2. CASE audit.owner # NoRun
    <3>1. /\ run[r].at = "looked" /\ UNCHANGED <<audit, post, rows, began>>
          /\ run' = [run EXCEPT ![r] = [run[r] EXCEPT !.at = "failed"]]
      BY <1>4, <2>2 DEF Claim, Moves
    <3> QED
      BY <1>1, <3>1 DEF Ended
  <2> QED
    BY <2>1, <2>2
<1>5. ASSUME NEW r \in Runs, OpenWindow(r) PROVE Opened(r) \/ Ended(r)
  <2>1. /\ run[r].at = "claimed" /\ UNCHANGED <<audit, post, rows, began>>
        /\ \/ run' = [run EXCEPT ![r] = [run[r] EXCEPT !.at = "open", !.start = Here]]
           \/ run' = [run EXCEPT ![r] = [run[r] EXCEPT !.at = "failed"]]
    BY <1>5 DEF OpenWindow, Moves, ProxyStep, proxyVars
  <2> QED
    BY <1>1, <1>2, <2>1 DEF Opened, Ended
<1>6. ASSUME NEW r \in Runs, CloseWindow(r) PROVE Shut(r) \/ Ended(r)
  <2>1. run[r].at = "open" /\ UNCHANGED <<audit, post, began>>
    BY <1>6 DEF CloseWindow, Moves, proxyVars
  <2>2. CASE Usable(r, From(run[r].start.offset))
    <3>1. run' = [run EXCEPT ![r] = [run[r] EXCEPT !.at = "closed"]]
      BY <1>6, <2>2 DEF CloseWindow, Moves
    <3> QED
      BY <1>1, <1>6, <2>1, <2>2, <3>1 DEF Shut
  <2>3. CASE ~Usable(r, From(run[r].start.offset))
    <3>1. rows' = rows /\ run' = [run EXCEPT ![r] = [run[r] EXCEPT !.at = "failed"]]
      BY <1>6, <2>3 DEF CloseWindow, Moves
    <3> QED
      BY <1>1, <2>1, <3>1 DEF Ended
  <2> QED
    BY <2>2, <2>3
<1>7. ASSUME Kill PROVE \E r \in Runs : Ended(r)
  <2>1. /\ UNCHANGED <<audit, post, rows, began>>
        /\ \E r \in Runs : run' = [run EXCEPT ![r] = [run[r] EXCEPT !.at = "dead"]]
    BY <1>7 DEF Kill, Moves, proxyVars
  <2> QED
    BY <1>1, <2>1 DEF Ended
<1> QED
  BY <1>3, <1>4, <1>5, <1>6, <1>7, RequestsMove DEF WindowMoves

LEMMA LogGrows ==
    ASSUME Types, NEW e, Logs(e)
    PROVE  LET n == Len(audit.log)
           IN  /\ n \in Nat /\ DOMAIN audit.log = 1..n
               /\ DOMAIN audit'.log = 1..(n + 1) /\ audit'.log[n + 1] = e
               /\ Len(audit'.log) = n + 1
               /\ \A i \in 1..n : audit'.log[i] = audit.log[i]
<1> DEFINE s == audit.log
           S == {s[i] : i \in DOMAIN s} \cup {e}
<1>1. s \in Seq(S) /\ e \in S
  <2>1. s \in Seq(EventType)
    BY AuditIsTyped
  <2>2. Len(s) \in Nat /\ s \in [1..Len(s) -> S] /\ DOMAIN s = 1..Len(s)
    BY <2>1
  <2> HIDE DEF s, S
  <2>3. s \in UNION {[1..n -> S] : n \in Nat}
    BY <2>2
  <2>4. s \in Seq(S)
    BY <2>3, SeqDef
  <2> QED
    BY <2>4 DEF S
<1>2. audit'.log = Append(s, e)
  BY DEF Logs
<1> HIDE DEF s, S
<1> DEFINE t == Append(s, e)
<1>3. /\ Len(t) = Len(s) + 1 /\ \A i \in 1..Len(s) : t[i] = s[i]
      /\ t[Len(s) + 1] = e /\ t \in Seq(S)
  BY <1>1, AppendProperties
<1>4. DOMAIN t = 1..(Len(s) + 1) /\ DOMAIN s = 1..Len(s) /\ Len(s) \in Nat
  <2> HIDE DEF t
  <2> QED
    BY <1>1, <1>3
<1> HIDE DEF t
<1>5. audit'.log = t
  BY <1>2 DEF t
<1> QED
  BY <1>3, <1>4, <1>5 DEF s

LEMMA LogStays ==
    ASSUME Types, LogInv, source = "proxy", WindowMoves
    PROVE  LogInv'
<1> DEFINE L == audit.log
           M == audit'.log
           n == Len(L)
           Done == {"audited", "delivered"}
           Begins(i, q) == L[i].event = "started" /\ L[i].request = q
<1>1. \A i \in DOMAIN L : L[i] \in EventType
  BY AuditIsTyped
<1>2. /\ \A i, j \in DOMAIN L :
            /\ L[i].event = "started" => post[L[i].request] # "none"
            /\ L[i].event = "started" /\ L[j].event = "started"
                  /\ L[i].request = L[j].request => i = j
      /\ \A i \in DOMAIN L :
            /\ L[i].event = "finished" => L[i].use \in {Missing, {RequestCall(L[i].request)}}
            /\ L[i].event = "started" /\ post[L[i].request] \in Done =>
                  \E j \in DOMAIN L : i < j /\
                     L[j] = Event("finished", L[i].request, {RequestCall(L[i].request)})
  BY DEF LogInv
<1>3. \A i \in DOMAIN L : L[i].request \in Prompts
  BY <1>1 DEF EventType
<1>4. ASSUME M = L, \A q \in Prompts : /\ post[q] # "none" => post'[q] # "none"
                                       /\ post'[q] \in Done => post[q] \in Done
      PROVE  LogInv'
  <2>1. /\ \A i, j \in DOMAIN M :
              /\ M[i].event = "started" => post'[M[i].request] # "none"
              /\ M[i].event = "started" /\ M[j].event = "started"
                    /\ M[i].request = M[j].request => i = j
        /\ \A i \in DOMAIN M :
              /\ M[i].event = "finished" => M[i].use \in {Missing, {RequestCall(M[i].request)}}
              /\ M[i].event = "started" /\ post'[M[i].request] \in Done =>
                    \E j \in DOMAIN M : i < j /\
                       M[j] = Event("finished", M[i].request, {RequestCall(M[i].request)})
    <3> HIDE DEF L, M, Done
    <3> QED
      BY <1>2, <1>3, <1>4
  <2> QED
    BY <2>1 DEF LogInv
<1>5. ASSUME NEW e, Logs(e)
      PROVE  /\ n \in Nat /\ DOMAIN L = 1..n /\ DOMAIN M = 1..(n + 1) /\ M[n + 1] = e
             /\ \A i \in 1..n : M[i] = L[i]
  BY <1>5, LogGrows
<1>6. ASSUME NEW q \in Prompts, post[q] = "none", PostGoes(q, "upstream"),
             Logs(Event("started", q, Missing))
      PROVE  LogInv'
  <2> DEFINE e == Event("started", q, Missing)
  <2>1. e.event = "started" /\ e.request = q
    BY DEF Event
  <2>2. /\ n \in Nat /\ DOMAIN L = 1..n /\ DOMAIN M = 1..(n + 1) /\ M[n + 1] = e
        /\ \A i \in 1..n : M[i] = L[i]
    BY <1>5, <1>6
  <2>3. \A p \in Prompts : /\ post[p] # "none" => post'[p] # "none"
                           /\ post'[p] \in Done => p # q /\ post[p] \in Done
    BY <1>6 DEF PostGoes
  <2> HIDE DEF e, L, M, n
  <2>4. \A i \in DOMAIN M : (i \in DOMAIN L /\ i # n + 1 /\ M[i] = L[i]) \/ (i = n + 1 /\ M[i] = e)
    BY <2>2
  <2>5. \A i \in DOMAIN L : i \in DOMAIN M /\ M[i] = L[i]
    BY <2>2
  <2>6. \A i \in DOMAIN L : L[i].event = "started" => L[i].request # q
    BY <1>2, <1>6
  <2>7. post'[q] = "upstream"
    BY <1>6 DEF PostGoes
  <2>8. \A i, j \in DOMAIN M :
              /\ M[i].event = "started" => post'[M[i].request] # "none"
              /\ M[i].event = "started" /\ M[j].event = "started"
                    /\ M[i].request = M[j].request => i = j
    BY <1>2, <1>3, <2>1, <2>3, <2>4, <2>6, <2>7
  <2>9. \A i \in DOMAIN M :
              M[i].event = "finished" => M[i].use \in {Missing, {RequestCall(M[i].request)}}
    BY <1>2, <2>1, <2>4
  <2>10. ASSUME NEW i \in DOMAIN M, M[i].event = "started", post'[M[i].request] \in Done
         PROVE  \E j \in DOMAIN M : i < j /\
                       M[j] = Event("finished", M[i].request, {RequestCall(M[i].request)})
    <3>1. i \in DOMAIN L /\ M[i] = L[i]
      BY <2>1, <2>4, <2>7, <2>10
    <3>2. L[i].event = "started" /\ post[L[i].request] \in Done
      BY <1>3, <2>3, <2>10, <3>1
    <3>3. PICK j \in DOMAIN L : i < j /\
             L[j] = Event("finished", L[i].request, {RequestCall(L[i].request)})
      BY <1>2, <3>1, <3>2
    <3> QED
      BY <2>5, <3>1, <3>3
  <2> HIDE DEF Done
  <2> QED
    BY <2>8, <2>9, <2>10 DEF LogInv, M, Done
<1>7. ASSUME NEW q \in Prompts, NEW to, NEW use \in {Missing, {RequestCall(q)}},
             post[q] # "none",
             PostGoes(q, to), to # "none", to \in Done => use = {RequestCall(q)},
             Logs(Event("finished", q, use))
      PROVE  LogInv'
  <2> DEFINE e == Event("finished", q, use)
  <2>1. e.event = "finished" /\ e.request = q /\ e.use = use
    BY DEF Event
  <2>2. /\ n \in Nat /\ DOMAIN L = 1..n /\ DOMAIN M = 1..(n + 1) /\ M[n + 1] = e
        /\ \A i \in 1..n : M[i] = L[i]
    BY <1>5, <1>7
  <2>3. \A p \in Prompts : /\ post[p] # "none" => post'[p] # "none"
                           /\ post'[p] \in Done => (p = q /\ to \in Done) \/ post[p] \in Done
    BY <1>7 DEF PostGoes
  <2>4. to \in Done => e = Event("finished", q, {RequestCall(q)})
    BY <1>7
  <2> HIDE DEF e, L, M, n
  <2>5. \A i \in DOMAIN M : (i \in DOMAIN L /\ i < n + 1 /\ M[i] = L[i]) \/ (i = n + 1 /\ M[i] = e)
    BY <2>2
  <2>6. \A i \in DOMAIN L : i \in DOMAIN M /\ M[i] = L[i]
    BY <2>2
  <2>7. \A i, j \in DOMAIN M :
              /\ M[i].event = "started" => post'[M[i].request] # "none"
              /\ M[i].event = "started" /\ M[j].event = "started"
                    /\ M[i].request = M[j].request => i = j
    BY <1>2, <1>3, <2>1, <2>3, <2>5
  <2>8. \A i \in DOMAIN M :
              M[i].event = "finished" => M[i].use \in {Missing, {RequestCall(M[i].request)}}
    BY <1>2, <1>7, <2>1, <2>5
  <2>9. ASSUME NEW i \in DOMAIN M, M[i].event = "started", post'[M[i].request] \in Done
        PROVE  \E j \in DOMAIN M : i < j /\
                       M[j] = Event("finished", M[i].request, {RequestCall(M[i].request)})
    <3>1. i \in DOMAIN L /\ i < n + 1 /\ M[i] = L[i]
      BY <2>1, <2>5, <2>9
    <3>2. CASE L[i].request = q /\ to \in Done
      <4>1. n + 1 \in DOMAIN M /\ M[n + 1] = Event("finished", q, {RequestCall(q)})
        BY <2>2, <2>4, <3>2
      <4> QED
        BY <3>1, <3>2, <4>1
    <3>3. CASE post[L[i].request] \in Done
      <4>1. PICK j \in DOMAIN L : i < j /\
             L[j] = Event("finished", L[i].request, {RequestCall(L[i].request)})
        BY <1>2, <2>9, <3>1, <3>3
      <4> QED
        BY <2>6, <3>1, <4>1
    <3> QED
      BY <1>3, <2>3, <2>9, <3>1, <3>2, <3>3
  <2> HIDE DEF Done
  <2> QED
    BY <2>7, <2>8, <2>9 DEF LogInv, M, Done
<1>8. ASSUME NEW q \in Prompts, Received(q) PROVE LogInv'
  <2>1. CASE audit' = audit
    <3>1. \A p \in Prompts : /\ post[p] # "none" => post'[p] # "none"
                             /\ post'[p] \in Done => post[p] \in Done
      BY <1>8 DEF Received, PostGoes
    <3> QED
      BY <1>4, <2>1, <3>1
  <2>2. CASE Logs(Event("started", q, Missing))
    BY <1>6, <1>8, <2>2 DEF Received
  <2> QED
    BY <1>8, <2>1, <2>2 DEF Received
<1>9. ASSUME NEW q \in Prompts, Served(q) PROVE LogInv'
  <2>1. ASSUME NEW to \in PostType \ {"none", "audited", "delivered"}, PostGoes(q, to),
               audit' = audit
        PROVE  LogInv'
    <3>1. \A p \in Prompts : /\ post[p] # "none" => post'[p] # "none"
                             /\ post'[p] \in Done => post[p] \in Done
      BY <2>1 DEF PostGoes
    <3> QED
      BY <1>4, <2>1, <3>1
  <2>2. ASSUME NEW to \in PostType \ {"none", "audited", "delivered"}, PostGoes(q, to),
               Logs(Event("finished", q, Missing))
        PROVE  LogInv'
    <3>1. to # "none" /\ to \notin Done /\ post[q] # "none"
      BY <1>9 DEF Served
    <3> QED
      BY <1>7, <2>2, <3>1
  <2>3. ASSUME PostGoes(q, "audited"), Logs(Event("finished", q, {RequestCall(q)}))
        PROVE  LogInv'
    <3>1. post[q] # "none"
      BY <1>9 DEF Served
    <3> QED
      BY <1>7, <2>3, <3>1
  <2>4. ASSUME post[q] = "audited", PostGoes(q, "delivered"), audit' = audit PROVE LogInv'
    <3>1. \A p \in Prompts : /\ post[p] # "none" => post'[p] # "none"
                             /\ post'[p] \in Done => post[p] \in Done
      BY <2>4 DEF PostGoes
    <3> QED
      BY <1>4, <2>4, <3>1
  <2> QED
    BY <1>9, <2>1, <2>2, <2>3, <2>4 DEF Served
<1>10. ASSUME Replaced PROVE LogInv'
  BY <1>10 DEF Replaced, LogInv
<1>11. ASSUME M = L, post' = post PROVE LogInv'
  BY <1>4, <1>11
<1>12. ASSUME NEW r \in Runs, Looked(r) \/ Claimed(r) \/ Opened(r) \/ Ended(r) \/ Shut(r)
       PROVE  M = L /\ post' = post
  BY <1>12 DEF Looked, Claimed, Opened, Ended, Shut, RunMoved
<1> QED
  BY <1>8, <1>9, <1>10, <1>11, <1>12, WindowsMove

\* What began in the window of a run, seen from its place in the audit.
StartsAfter(log, offset, q) ==
    \E i \in DOMAIN log : offset < i /\ log[i].event = "started" /\ log[i].request = q

LEMMA WindowsStay ==
    ASSUME Types, LogInv, WindowInv, source = "proxy", WindowMoves
    PROVE  WindowInv'
<1> DEFINE L == audit.log
           M == audit'.log
           n == Len(L)
           Exact(r) == run[r].at = "open" /\ run[r].start.id = audit.id =>
                          /\ run[r].start.offset <= n
                          /\ \A q \in Prompts :
                                q \in began[r] <=> StartsAfter(L, run[r].start.offset, q)
           Holds(r) == run'[r].at = "open" /\ run'[r].start.id = audit'.id =>
                          /\ run'[r].start.offset <= Len(M)
                          /\ \A q \in Prompts :
                                q \in began'[r] <=> StartsAfter(M, run'[r].start.offset, q)
<1>1. /\ \A r \in Runs : \A q \in began[r] : post[q] # "none"
      /\ \A r \in Runs : run[r].at \in {"idle", "looked", "claimed"} => began[r] = {}
      /\ \A r \in Runs : run[r].start.id <= audit.id
      /\ \A r, s \in Runs : began[r] \cap began[s] # {} => run[r].start.id = run[s].start.id
  BY DEF WindowInv
<1>2. \A r \in Runs : Exact(r)
  BY DEF WindowInv, StartsAfter
<1>3. /\ audit.id \in Nat /\ n \in Nat /\ DOMAIN L = 1..n
      /\ \A r \in Runs : /\ run[r].start.id \in Nat /\ run[r].start.offset \in Nat
                         /\ began[r] \subseteq Prompts
  BY AuditIsTyped, RunIsTyped
<1>4. Here.id = audit.id /\ Here.offset = n
  BY DEF Here
\* A run moves on, and the audit stays as it is.
<1>5. ASSUME NEW r \in Runs, NEW to, NEW place, RunMoved(r, to, place),
             M = L, audit'.id = audit.id, place \in {run[r].start, Here},
             place # run[r].start => began[r] = {},
             to \in {"idle", "looked", "claimed"} => began[r] = {},
             to = "open" => place = Here /\ began[r] = {}
      PROVE  WindowInv'
  <2>1. /\ run'[r].at = to /\ run'[r].start = place /\ post' = post /\ began' = began
        /\ \A s \in Runs : s # r => run'[s] = run[s]
    BY <1>5 DEF RunMoved, OthersStay
  <2>2. \A s \in Runs : \A q \in began'[s] : post'[q] # "none"
    BY <1>1, <2>1
  <2>3. \A s \in Runs : run'[s].at \in {"idle", "looked", "claimed"} => began'[s] = {}
    BY <1>1, <1>5, <2>1
  <2>4. \A s \in Runs : run'[s].start.id <= audit'.id
    BY <1>1, <1>3, <1>4, <1>5, <2>1
  <2>5. \A s, t \in Runs : began'[s] \cap began'[t] # {} => run'[s].start.id = run'[t].start.id
    BY <1>1, <1>5, <2>1
  <2>6. ASSUME NEW s \in Runs PROVE Holds(s)
    <3>1. CASE s # r
      <4>1. run'[s] = run[s] /\ Exact(s)
        BY <1>2, <2>1, <3>1
      <4> HIDE DEF L, M
      <4> QED
        BY <1>5, <2>1, <4>1
    <3>2. CASE s = r /\ to = "open"
      <4>0. run'[r].start.offset = n
        BY <1>4, <1>5, <2>1, <3>2
      <4>1. \A q \in Prompts : ~StartsAfter(M, run'[r].start.offset, q)
        <5>1. \A i \in DOMAIN M : ~(n < i)
          <6> HIDE DEF L, M, n
          <6> QED
            BY <1>3, <1>5
        <5> HIDE DEF L, M, n
        <5> QED
          BY <4>0, <5>1 DEF StartsAfter
      <4>2. run'[r].start.offset <= Len(M)
        BY <1>3, <1>5, <4>0
      <4> QED
        BY <1>5, <2>1, <3>2, <4>1, <4>2
    <3>3. CASE s = r /\ to # "open"
      BY <2>1, <3>3
    <3> QED
      BY <3>1, <3>2, <3>3
  <2> HIDE DEF Exact, Holds
  <2>7. \A s \in Runs : Holds(s)
    BY <2>6
  <2> QED
    BY <2>2, <2>3, <2>4, <2>5, <2>7 DEF WindowInv, Holds, StartsAfter
\* The audit goes on, and nothing begins.
<1>6. ASSUME audit'.id = audit.id, run' = run, began' = began,
             \A q \in Prompts : post[q] # "none" => post'[q] # "none",
             M = L \/ \E q \in Prompts : \E use : Logs(Event("finished", q, use))
      PROVE  WindowInv'
  <2>1. \A s \in Runs : \A q \in began'[s] : post'[q] # "none"
    BY <1>1, <1>3, <1>6
  <2>2. \A r \in Runs, q \in Prompts :
           StartsAfter(M, run[r].start.offset, q) <=> StartsAfter(L, run[r].start.offset, q)
    <3>1. CASE M = L
      BY <1>6, <3>1
    <3>2. ASSUME NEW p \in Prompts, NEW use, Logs(Event("finished", p, use))
          PROVE  \A r \in Runs, q \in Prompts :
           StartsAfter(M, run[r].start.offset, q) <=> StartsAfter(L, run[r].start.offset, q)
      <4>1. /\ DOMAIN M = 1..(n + 1) /\ M[n + 1].event = "finished"
            /\ \A i \in 1..n : M[i] = L[i]
        BY <3>2, LogGrows DEF Event
      <4> HIDE DEF L, M, n
      <4>2. \A i \in DOMAIN M : i \in DOMAIN L \/ M[i].event # "started"
        BY <1>3, <4>1
      <4>3. \A i \in DOMAIN L : i \in DOMAIN M /\ M[i] = L[i]
        BY <1>3, <4>1
      <4> QED
        BY <4>2, <4>3 DEF StartsAfter
    <3> QED
      BY <1>6, <3>1, <3>2
  <2>3. Len(M) \in Nat /\ Len(L) <= Len(M)
    <3>1. CASE M = L
      BY <1>3, <3>1
    <3>2. ASSUME NEW p \in Prompts, NEW use, Logs(Event("finished", p, use))
          PROVE  Len(M) \in Nat /\ Len(L) <= Len(M)
      <4>1. Len(M) = n + 1
        BY <3>2, LogGrows
      <4> QED
        BY <1>3, <4>1
    <3> QED
      BY <1>6, <3>1, <3>2
  <2>4. ASSUME NEW s \in Runs PROVE Holds(s)
    <3>1. run'[s] = run[s] /\ began'[s] = began[s] /\ Exact(s)
      BY <1>2, <1>6
    <3> HIDE DEF L, M
    <3> QED
      BY <1>3, <1>6, <2>2, <2>3, <3>1
  <2> HIDE DEF Exact, Holds
  <2>5. \A s \in Runs : Holds(s)
    BY <2>4
  <2> QED
    BY <1>1, <1>6, <2>1, <2>5 DEF WindowInv, Holds, StartsAfter
<1>7. ASSUME Replaced PROVE WindowInv'
  <2>1. /\ audit'.id = audit.id + 1 /\ run' = run /\ began' = began
        /\ \A q \in Prompts : post[q] # "none" => post'[q] # "none"
    BY <1>7 DEF Replaced
  <2>2. \A s \in Runs : \A q \in began'[s] : post'[q] # "none"
    BY <1>1, <1>3, <2>1
  <2>3. \A s \in Runs : run'[s].start.id <= audit'.id /\ run'[s].start.id # audit'.id
    BY <1>1, <1>3, <2>1
  <2> QED
    BY <1>1, <2>1, <2>2, <2>3 DEF WindowInv
\* A request begins, in the windows that are open on this audit.
<1>8. ASSUME NEW q \in Prompts, Received(q) PROVE WindowInv'
  <2>1. /\ post[q] = "none" /\ PostGoes(q, "upstream") /\ BeginsInWindow(q)
        /\ run' = run /\ audit'.id = audit.id
    BY <1>8 DEF Received, Logs
  <2>2. \A i \in DOMAIN L : L[i].event = "started" => L[i].request # q
    BY <2>1 DEF LogInv
  <2>3. \A r \in Runs : q \notin began[r]
    BY <1>1, <2>1
  <2> DEFINE New == M # L
             IsOpen(r) == run[r].at = "open" /\ run[r].start.id = audit.id
  <2>4. /\ New <=> q \in Started(M) \ Started(L)
        /\ \A r \in Runs, p \in Prompts : run[r].start.offset <= n =>
              (StartsAfter(M, run[r].start.offset, p)
                 <=> StartsAfter(L, run[r].start.offset, p) \/ (New /\ p = q))
        /\ Len(M) \in Nat /\ n <= Len(M)
    <3>1. CASE M = L
      BY <1>3, <2>1, <3>1
    <3>2. CASE Logs(Event("started", q, Missing))
      <4> DEFINE e == Event("started", q, Missing)
      <4>1. /\ DOMAIN M = 1..(n + 1) /\ M[n + 1] = e /\ Len(M) = n + 1
            /\ \A i \in 1..n : M[i] = L[i]
        BY <3>2, LogGrows
      <4>2. e.event = "started" /\ e.request = q
        BY DEF Event
      <4> HIDE DEF e
      <4>3. New
        BY <1>3, <4>1
      <4>4. q \in Started(M)
        <5>1. n + 1 \in DOMAIN M
          BY <1>3, <4>1
        <5> QED
          BY <4>1, <4>2, <5>1 DEF Started
      <4>5. q \notin Started(L)
        BY <2>2 DEF Started
      <4>6. ASSUME NEW r \in Runs, NEW p \in Prompts, run[r].start.offset <= n
            PROVE  StartsAfter(M, run[r].start.offset, p)
                   <=> StartsAfter(L, run[r].start.offset, p) \/ p = q
        <5> DEFINE o == run[r].start.offset
        <5>1. n + 1 \in DOMAIN M /\ o < n + 1
          BY <1>3, <4>1, <4>6
        <5> HIDE DEF L, M, o
        <5>2. \A i \in DOMAIN M : (i \in DOMAIN L /\ M[i] = L[i]) \/ i = n + 1
          BY <1>3, <4>1
        <5>3. \A i \in DOMAIN L : i \in DOMAIN M /\ M[i] = L[i]
          BY <1>3, <4>1
        <5> HIDE DEF n
        <5>4. StartsAfter(L, o, p) => StartsAfter(M, o, p)
          BY <5>3 DEF StartsAfter
        <5>5. p = q => StartsAfter(M, o, p)
          BY <4>1, <4>2, <5>1 DEF StartsAfter
        <5>6. StartsAfter(M, o, p) => StartsAfter(L, o, p) \/ p = q
          BY <4>1, <4>2, <5>2 DEF StartsAfter
        <5> QED
          BY <5>4, <5>5, <5>6 DEF o
      <4>7. Len(M) \in Nat /\ n <= Len(M)
        BY <1>3, <4>1
      <4>8. New <=> q \in Started(M) \ Started(L)
        BY <4>3, <4>4, <4>5
      <4> HIDE DEF New
      <4>9. \A r \in Runs, p \in Prompts : run[r].start.offset <= n =>
              (StartsAfter(M, run[r].start.offset, p)
                 <=> StartsAfter(L, run[r].start.offset, p) \/ (New /\ p = q))
        BY <4>3, <4>6
      <4> HIDE DEF L, M, n
      <4> QED
        BY <4>7, <4>8, <4>9
    <3> QED
      BY <1>8, <3>1, <3>2 DEF Received
  <2>5. \A r \in Runs : began'[r] = IF IsOpen(r) /\ New THEN began[r] \cup {q} ELSE began[r]
    <3> HIDE DEF New, L, M
    <3>1. q \in Started(audit'.log) \ Started(audit.log) <=> New
      BY <2>4 DEF L, M
    <3> QED
      BY <2>1, <3>1 DEF BeginsInWindow
  <2> HIDE DEF New
  <2>6. \A s \in Runs : \A p \in began'[s] : post'[p] # "none"
    <3>1. \A p \in Prompts : (post[p] # "none" \/ p = q) => post'[p] # "none"
      BY <2>1 DEF PostGoes
    <3>2. \A s \in Runs : \A p \in began[s] : p \in Prompts /\ post[p] # "none"
      BY <1>1, <1>3
    <3>3. \A s \in Runs : began'[s] \subseteq began[s] \cup {q}
      BY <2>5
    <3> QED
      BY <3>1, <3>2, <3>3
  <2>7. \A s \in Runs : run'[s].at \in {"idle", "looked", "claimed"} => began'[s] = {}
    BY <1>1, <2>1, <2>5
  <2>8. \A s \in Runs : run'[s].start.id <= audit'.id
    BY <1>1, <2>1
  <2>9. ASSUME NEW s \in Runs, NEW t \in Runs, began'[s] \cap began'[t] # {}
        PROVE  run'[s].start.id = run'[t].start.id
    <3>1. PICK p : p \in began'[s] /\ p \in began'[t]
      BY <2>9
    <3>2. CASE p = q
      <4>1. IsOpen(s) /\ IsOpen(t)
        BY <2>3, <2>5, <3>1, <3>2
      <4> QED
        BY <2>1, <4>1
    <3>3. CASE p # q
      <4>1. p \in began[s] /\ p \in began[t]
        BY <2>5, <3>1, <3>3
      <4> QED
        BY <1>1, <2>1, <4>1
    <3> QED
      BY <3>2, <3>3
  <2>10. ASSUME NEW s \in Runs PROVE Holds(s)
    <3>1. CASE IsOpen(s)
      <4>1. run[s].start.offset <= n /\ \A p \in Prompts :
               p \in began[s] <=> StartsAfter(L, run[s].start.offset, p)
        BY <1>2, <3>1
      <4> HIDE DEF L, M, n
      <4>2. run'[s].start.offset <= Len(M)
        BY <1>3, <2>1, <2>4, <4>1
      <4>3. \A p \in Prompts : p \in began'[s] <=> StartsAfter(M, run'[s].start.offset, p)
        <5> DEFINE o == run[s].start.offset
        <5>1. run'[s].start.offset = o
          BY <2>1
        <5>2. \A p \in Prompts : StartsAfter(M, o, p) <=> StartsAfter(L, o, p) \/ (New /\ p = q)
          BY <2>4, <4>1
        <5>3. \A p \in Prompts : p \in began'[s] <=> p \in began[s] \/ (New /\ p = q)
          BY <2>5, <3>1
        <5> HIDE DEF o
        <5> QED
          BY <4>1, <5>1, <5>2, <5>3 DEF o
      <4> QED
        BY <4>2, <4>3
    <3>2. CASE ~IsOpen(s)
      BY <2>1, <3>2
    <3> QED
      BY <3>1, <3>2
  <2> HIDE DEF Exact, Holds
  <2>11. \A s \in Runs : Holds(s)
    BY <2>10
  <2> QED
    BY <2>6, <2>7, <2>8, <2>9, <2>11 DEF WindowInv, Holds, StartsAfter
<1>9. ASSUME NEW q \in Prompts, Served(q) PROVE WindowInv'
  <2>1. /\ audit'.id = audit.id /\ run' = run /\ began' = began
        /\ M = L \/ \E use : Logs(Event("finished", q, use))
    BY <1>9 DEF Served, Logs
  <2>2. \A p \in Prompts : post[p] # "none" => post'[p] # "none"
    BY <1>9 DEF Served, PostGoes
  <2> QED
    BY <1>6, <2>1, <2>2
<1>10. ASSUME NEW r \in Runs, Looked(r) PROVE WindowInv'
  BY <1>1, <1>5, <1>10 DEF Looked
<1>11. ASSUME NEW r \in Runs, Claimed(r) PROVE WindowInv'
  BY <1>1, <1>5, <1>11 DEF Claimed
<1>12. ASSUME NEW r \in Runs, Opened(r) PROVE WindowInv'
  BY <1>1, <1>5, <1>12 DEF Opened
<1>13. ASSUME NEW r \in Runs, Ended(r) PROVE WindowInv'
  BY <1>5, <1>13 DEF Ended
<1>14. ASSUME NEW r \in Runs, Shut(r) PROVE WindowInv'
  BY <1>5, <1>14 DEF Shut
<1> QED
  BY <1>7, <1>8, <1>9, <1>10, <1>11, <1>12, <1>13, <1>14, WindowsMove

\* The rows of a window: what CloseWindow adds, and that no run takes the place of another.
LEMMA ShutRows ==
    ASSUME Types, LogInv, WindowInv, source = "proxy", NEW r \in Runs, Shut(r)
    PROVE  /\ DOMAIN rows \subseteq DOMAIN rows' /\ \A i \in DOMAIN rows : rows'[i] = rows[i]
           /\ \A i \in DOMAIN rows' \ DOMAIN rows :
                 /\ rows'[i].run = r /\ rows'[i].selected /\ rows'[i].granularity = "request"
                 /\ \E q \in began[r] :
                       /\ rows'[i].id = <<"proxy", q, 0>>
                       /\ rows'[i].use \in {Missing, {RequestCall(q)}}
                       /\ post[q] = "delivered" => rows'[i].use = {RequestCall(q)}
           /\ \A i, j \in DOMAIN rows' \ DOMAIN rows : rows'[i].id = rows'[j].id => i = j
           /\ \A q \in began[r] : \E i \in DOMAIN rows' \ DOMAIN rows :
                 rows'[i].id = <<"proxy", q, 0>>
<1> DEFINE o == run[r].start.offset
           log == From(o)
           L == audit.log
           N == DOMAIN rows' \ DOMAIN rows
<1>1. /\ CloseWindow(r) /\ Usable(r, log) /\ run[r].at = "open" /\ run[r].start.id = audit.id
  BY DEF Shut, Usable
<1>2. /\ DOMAIN rows \subseteq DOMAIN rows' /\ \A i \in DOMAIN rows : rows'[i] = rows[i]
  BY <1>1, WindowGrows DEF GrowsBy
<1>3. PICK g \in [N -> StartsOf(log)] :
         /\ \A i, j \in DOMAIN g : g[i] = g[j] => i = j
         /\ \A i \in DOMAIN g : rows'[i] = WindowRow(r, log, log[g[i]].request)
         /\ \A k \in StartsOf(log) : \E i \in DOMAIN g : g[i] = k
  BY <1>1, WindowGrows
<1>4. o \in Nat /\ L \in Seq(EventType) /\ DOMAIN L = 1..Len(L) /\ Len(L) \in Nat
  BY AuditIsTyped, RunIsTyped
<1>5. /\ log \in Seq(EventType)
      /\ \A i \in DOMAIN log :
            o + i \in DOMAIN L /\ log[i] = L[o + i] /\ i \in Nat /\ o < o + i
      /\ \A k \in DOMAIN L : o < k => k - o \in DOMAIN log /\ log[k - o] = L[k]
  BY <1>4, FromFacts DEF Types
<1>6. \A q \in Prompts : q \in began[r] <=>
         \E i \in DOMAIN L : o < i /\ L[i].event = "started" /\ L[i].request = q
  BY <1>1 DEF WindowInv
<1>7. /\ \A i, j \in DOMAIN L : L[i].event = "started" /\ L[j].event = "started"
            /\ L[i].request = L[j].request => i = j
      /\ \A i \in DOMAIN L :
            L[i].event = "finished" => L[i].use \in {Missing, {RequestCall(L[i].request)}}
      /\ \A i \in DOMAIN L : L[i].event = "started" /\ post[L[i].request] = "delivered" =>
            \E j \in DOMAIN L : i < j /\
               L[j] = Event("finished", L[i].request, {RequestCall(L[i].request)})
  BY DEF LogInv
<1>8. \A i \in DOMAIN L : L[i].request \in Prompts /\ i \in Nat
  <2>1. \A i \in DOMAIN L : L[i] \in EventType /\ i \in Nat
    BY <1>4
  <2> QED
    BY <2>1 DEF EventType
<1>9. Once(log, "finished")
  BY <1>1 DEF Usable
<1> HIDE DEF o, L, log, N
<1>10. ASSUME NEW k \in StartsOf(log)
       PROVE  LET q == log[k].request
                  w == WindowRow(r, log, q)
              IN  /\ k \in DOMAIN log /\ q \in Prompts /\ q \in began[r] /\ w.run = r
                  /\ w.id = <<"proxy", q, 0>> /\ w.selected /\ w.granularity = "request"
                  /\ w.use \in {Missing, {RequestCall(q)}}
                  /\ post[q] = "delivered" => w.use = {RequestCall(q)}
  <2> DEFINE q == log[k].request
             w == WindowRow(r, log, q)
  <2>1. k \in DOMAIN log /\ o + k \in DOMAIN L /\ log[k] = L[o + k] /\ o < o + k
          /\ L[o + k].event = "started" /\ k \in Nat
    BY <1>5 DEF StartsOf
  <2>2. q \in Prompts
    BY <1>8, <2>1
  <2>3. q \in began[r]
    BY <1>6, <2>1, <2>2
  <2> HIDE DEF q
  <2>4. /\ w.run = r /\ w.id = <<"proxy", q, 0>> /\ w.selected /\ w.granularity = "request"
        /\ w.use = Missing \/ \E i \in DOMAIN log :
              log[i].event = "finished" /\ log[i].request = q /\ w.use = log[i].use
        /\ \A i \in DOMAIN log :
              /\ log[i].event = "finished" /\ log[i].request = q /\ Once(log, "finished")
              => w.use = log[i].use
    BY <1>5, <2>2, WindowRowFacts
  <2> HIDE DEF w
  <2>5. w.use \in {Missing, {RequestCall(q)}}
    BY <1>5, <1>7, <2>4
  <2>6. ASSUME post[q] = "delivered" PROVE w.use = {RequestCall(q)}
    <3>1. PICK j \in DOMAIN L : o + k < j /\ L[j] = Event("finished", q, {RequestCall(q)})
      BY <1>7, <2>1, <2>6 DEF q
    <3>2. o < j
      BY <1>4, <1>8, <2>1, <3>1
    <3>3. j - o \in DOMAIN log /\ log[j - o] = Event("finished", q, {RequestCall(q)})
      BY <1>5, <3>1, <3>2
    <3>4. /\ log[j - o].event = "finished" /\ log[j - o].request = q
          /\ log[j - o].use = {RequestCall(q)}
      BY <3>3 DEF Event
    <3> QED
      BY <1>9, <2>4, <3>3, <3>4
  <2> QED
    BY <2>1, <2>2, <2>3, <2>4, <2>5, <2>6 DEF q, w
<1>11. ASSUME NEW i \in N
       PROVE  /\ rows'[i].run = r /\ rows'[i].selected /\ rows'[i].granularity = "request"
              /\ g[i] \in StartsOf(log) /\ log[g[i]].request \in began[r]
              /\ rows'[i].id = <<"proxy", log[g[i]].request, 0>>
              /\ rows'[i].use \in {Missing, {RequestCall(log[g[i]].request)}}
              /\ post[log[g[i]].request] = "delivered" =>
                    rows'[i].use = {RequestCall(log[g[i]].request)}
  <2>1. g[i] \in StartsOf(log) /\ rows'[i] = WindowRow(r, log, log[g[i]].request)
    BY <1>3
  <2> QED
    BY <1>10, <2>1
<1>12. ASSUME NEW i \in N, NEW j \in N, rows'[i].id = rows'[j].id
       PROVE  i = j
  <2>1. log[g[i]].request = log[g[j]].request /\ g[i] \in StartsOf(log) /\ g[j] \in StartsOf(log)
    BY <1>11, <1>12
  <2>2. \A k \in StartsOf(log) : k \in DOMAIN log /\ o + k \in DOMAIN L /\ log[k] = L[o + k]
           /\ L[o + k].event = "started" /\ k \in Nat
    BY <1>5 DEF StartsOf
  <2>3. o + g[i] = o + g[j]
    BY <1>7, <2>1, <2>2
  <2>4. g[i] = g[j]
    BY <1>4, <2>1, <2>2, <2>3
  <2> QED
    BY <1>3, <2>4
<1>13. ASSUME NEW q \in began[r]
       PROVE  \E i \in N : rows'[i].id = <<"proxy", q, 0>>
  <2>1. q \in Prompts
    BY AuditIsTyped
  <2>2. PICK m \in DOMAIN L : o < m /\ L[m].event = "started" /\ L[m].request = q
    BY <1>6, <2>1
  <2>3. m - o \in StartsOf(log) /\ log[m - o].request = q
    BY <1>5, <2>2 DEF StartsOf
  <2>4. PICK i \in N : g[i] = m - o
    BY <1>3, <2>3
  <2> QED
    BY <1>11, <2>3, <2>4
<1> QED
  BY <1>2, <1>11, <1>12, <1>13 DEF N

LEMMA ProxyRowsStay ==
    ASSUME Types, LogInv, WindowInv, ProxyRowsInv, source = "proxy", WindowMoves
    PROVE  ProxyRowsInv'
<1>1. /\ \A i \in DOMAIN rows : ProxyRow(i)
      /\ \A i, j \in DOMAIN rows :
            rows[i].run = rows[j].run /\ rows[i].id = rows[j].id => i = j
      /\ \A s \in Runs : run[s].at = "closed" => \A q \in began[s] :
            \E i \in DOMAIN rows : rows[i].run = s /\ rows[i].id = <<"proxy", q, 0>>
      /\ \A s, t \in Runs :
            HasRows(s) /\ HasRows(t) /\ run[s].start.id = run[t].start.id => s = t
      /\ \A s \in Runs : HasRows(s) /\ run[s].start.id = audit.id => audit.owner = s
  <2>1. /\ \A i \in DOMAIN rows : ProxyRow(i)
        /\ \A i, j \in DOMAIN rows :
              rows[i].run = rows[j].run /\ rows[i].id = rows[j].id => i = j
    BY DEF ProxyRowsInv
  <2>2. \A s \in Runs : run[s].at = "closed" => \A q \in began[s] :
            \E i \in DOMAIN rows : rows[i].run = s /\ rows[i].id = <<"proxy", q, 0>>
    BY DEF ProxyRowsInv
  <2>3. \A s, t \in Runs :
            HasRows(s) /\ HasRows(t) /\ run[s].start.id = run[t].start.id => s = t
    BY DEF ProxyRowsInv
  <2>4. \A s \in Runs : HasRows(s) /\ run[s].start.id = audit.id => audit.owner = s
    BY DEF ProxyRowsInv
  <2> QED
    BY <2>1, <2>2, <2>3, <2>4
<1>2. \A i \in DOMAIN rows : rows[i] \in RowType /\ rows[i].run \in Runs
  <2>1. \A i \in DOMAIN rows : rows[i] \in RowType
    BY DEF Types, RowTypes
  <2> QED
    BY <2>1 DEF RowType
<1>3. \A s \in Runs : HasRows(s) => run[s].at \in {"closed", "dead"}
  BY <1>1 DEF HasRows, ProxyRow
<1>4. /\ audit.id \in Nat /\ \A s \in Runs : run[s].start.id \in Nat /\ run[s].start.id <= audit.id
  BY AuditIsTyped, RunIsTyped DEF WindowInv
\* No row is added.
<1>5. ASSUME rows' = rows,
             \A s \in Runs : HasRows(s) =>
                /\ run'[s].at \in {"closed", "dead"} /\ run'[s].start = run[s].start
                /\ began[s] \subseteq began'[s]
                /\ run[s].start.id = audit'.id => audit'.owner = s,
             \A s \in Runs : run'[s].at = "closed" => run[s].at = "closed" /\ began'[s] = began[s]
      PROVE  ProxyRowsInv'
  <2>1. \A s \in Runs : HasRows(s)' <=> HasRows(s)
    BY <1>5 DEF HasRows
  <2>2. ASSUME NEW i \in DOMAIN rows PROVE ProxyRow(i)'
    <3>1. ProxyRow(i) /\ HasRows(rows[i].run) /\ rows[i].run \in Runs
      BY <1>1, <1>2 DEF HasRows
    <3> QED
      BY <1>5, <3>1 DEF ProxyRow
  <2>3. \A s \in Runs : run'[s].at = "closed" => \A q \in began'[s] :
            \E i \in DOMAIN rows : rows[i].run = s /\ rows[i].id = <<"proxy", q, 0>>
    <3> SUFFICES ASSUME NEW s \in Runs, run'[s].at = "closed", NEW q \in began'[s]
                 PROVE  \E i \in DOMAIN rows : rows[i].run = s /\ rows[i].id = <<"proxy", q, 0>>
      OBVIOUS
    <3>1. run[s].at = "closed" /\ q \in began[s]
      BY <1>5
    <3> QED
      BY <1>1, <3>1
  <2>4. \A s, t \in Runs :
            HasRows(s) /\ HasRows(t) /\ run'[s].start.id = run'[t].start.id => s = t
    BY <1>1, <1>5
  <2>5. \A s \in Runs : HasRows(s) /\ run'[s].start.id = audit'.id => audit'.owner = s
    BY <1>5
  <2>6. \A i, j \in DOMAIN rows : rows[i].run = rows[j].run /\ rows[i].id = rows[j].id => i = j
    BY <1>1
  <2> HIDE DEF HasRows
  <2> QED
    <3>1. \A i \in DOMAIN rows' : ProxyRow(i)'
      BY <1>5, <2>2
    <3>2. \A i, j \in DOMAIN rows' :
             rows'[i].run = rows'[j].run /\ rows'[i].id = rows'[j].id => i = j
      BY <1>5, <2>6
    <3>3. \A s \in Runs : run'[s].at = "closed" => \A q \in began'[s] :
             \E i \in DOMAIN rows' : rows'[i].run = s /\ rows'[i].id = <<"proxy", q, 0>>
      BY <1>5, <2>3
    <3>4. \A s, t \in Runs :
            HasRows(s)' /\ HasRows(t)' /\ run'[s].start.id = run'[t].start.id => s = t
      BY <2>1, <2>4
    <3>5. \A s \in Runs : HasRows(s)' /\ run'[s].start.id = audit'.id => audit'.owner = s
      BY <2>1, <2>5
    <3> QED
      BY <3>1, <3>2, <3>3, <3>4, <3>5 DEF ProxyRowsInv
<1>6. ASSUME NEW q \in Prompts, Received(q) PROVE ProxyRowsInv'
  <2>1. /\ rows' = rows /\ run' = run /\ audit'.id = audit.id /\ audit'.owner = audit.owner
        /\ BeginsInWindow(q)
    BY <1>6 DEF Received, Logs
  <2>2. \A s \in Runs : /\ began[s] \subseteq began'[s]
                        /\ run[s].at # "open" => began'[s] = began[s]
    BY <2>1 DEF BeginsInWindow
  <2> HIDE DEF HasRows
  <2> QED
    BY <1>1, <1>3, <1>5, <2>1, <2>2
<1>7. ASSUME NEW q \in Prompts, Served(q) PROVE ProxyRowsInv'
  <2>1. /\ rows' = rows /\ run' = run /\ audit'.id = audit.id /\ audit'.owner = audit.owner
        /\ began' = began
    BY <1>7 DEF Served, Logs
  <2> HIDE DEF HasRows
  <2> QED
    BY <1>1, <1>3, <1>5, <2>1
<1>8. ASSUME Replaced PROVE ProxyRowsInv'
  <2>1. rows' = rows /\ run' = run /\ began' = began /\ audit'.id = audit.id + 1
    BY <1>8 DEF Replaced
  <2>2. \A s \in Runs : run[s].start.id # audit'.id
    BY <1>4, <2>1
  <2> HIDE DEF HasRows
  <2> QED
    BY <1>1, <1>3, <1>5, <2>1, <2>2
<1>9. ASSUME NEW r \in Runs, NEW to, NEW place, RunMoved(r, to, place), rows' = rows,
             run[r].at \notin {"closed", "dead"}, to # "closed",
             \A s \in Runs : HasRows(s) /\ run[s].start.id = audit'.id => audit'.owner = s
      PROVE  ProxyRowsInv'
  <2>1. /\ began' = began /\ run'[r].at = to /\ \A s \in Runs : s # r => run'[s] = run[s]
    BY <1>9 DEF RunMoved, OthersStay
  <2>2. ~HasRows(r)
    BY <1>3, <1>9
  <2> HIDE DEF HasRows
  <2>3. \A s \in Runs : HasRows(s) =>
                /\ run'[s].at \in {"closed", "dead"} /\ run'[s].start = run[s].start
                /\ began[s] \subseteq began'[s]
                /\ run[s].start.id = audit'.id => audit'.owner = s
    BY <1>3, <1>9, <2>1, <2>2
  <2>4. \A s \in Runs : run'[s].at = "closed" => run[s].at = "closed" /\ began'[s] = began[s]
    BY <1>9, <2>1
  <2> QED
    BY <1>5, <1>9, <2>3, <2>4
<1>10. ASSUME NEW r \in Runs, Looked(r) PROVE ProxyRowsInv'
  BY <1>1, <1>9, <1>10 DEF Looked
<1>11. ASSUME NEW r \in Runs, Opened(r) PROVE ProxyRowsInv'
  BY <1>1, <1>9, <1>11 DEF Opened
<1>12. ASSUME NEW r \in Runs, Claimed(r) PROVE ProxyRowsInv'
  <2>1. \A s \in Runs : HasRows(s) /\ run[s].start.id = audit'.id => audit'.owner = s
    BY <1>1, <1>12, LedgerAssumption DEF Claimed
  <2> QED
    BY <1>9, <1>12, <2>1 DEF Claimed
<1>13. ASSUME NEW r \in Runs, Ended(r) PROVE ProxyRowsInv'
  <2>1. PICK to \in {"failed", "dead"} :
           /\ RunMoved(r, to, run[r].start)
           /\ to = "failed" => run[r].at \in {"looked", "claimed", "open"}
    BY <1>13 DEF Ended
  <2>2. /\ began' = began /\ run'[r].at = to /\ run'[r].start = run[r].start /\ audit' = audit
        /\ rows' = rows /\ \A s \in Runs : s # r => run'[s] = run[s]
    BY <1>13, <2>1 DEF RunMoved, OthersStay, Ended
  <2>3. HasRows(r) => to = "dead"
    BY <1>3, <2>1
  <2> HIDE DEF HasRows
  <2>4. \A s \in Runs : HasRows(s) =>
                /\ run'[s].at \in {"closed", "dead"} /\ run'[s].start = run[s].start
                /\ began[s] \subseteq began'[s]
                /\ run[s].start.id = audit'.id => audit'.owner = s
    BY <1>1, <1>3, <2>2, <2>3
  <2>5. \A s \in Runs : run'[s].at = "closed" => run[s].at = "closed" /\ began'[s] = began[s]
    BY <2>2
  <2> QED
    BY <1>5, <2>2, <2>4, <2>5
<1>14. ASSUME NEW r \in Runs, Shut(r) PROVE ProxyRowsInv'
  <2>1. /\ DOMAIN rows \subseteq DOMAIN rows' /\ \A i \in DOMAIN rows : rows'[i] = rows[i]
        /\ \A i \in DOMAIN rows' \ DOMAIN rows :
              /\ rows'[i].run = r /\ rows'[i].selected /\ rows'[i].granularity = "request"
              /\ \E q \in began[r] :
                    /\ rows'[i].id = <<"proxy", q, 0>>
                    /\ rows'[i].use \in {Missing, {RequestCall(q)}}
        /\ \A i, j \in DOMAIN rows' \ DOMAIN rows : rows'[i].id = rows'[j].id => i = j
        /\ \A q \in began[r] : \E i \in DOMAIN rows' \ DOMAIN rows :
              rows'[i].id = <<"proxy", q, 0>>
    BY <1>14, ShutRows
  <2>2. /\ began' = began /\ run'[r].at = "closed" /\ run'[r].start = run[r].start
        /\ audit' = audit /\ \A s \in Runs : s # r => run'[s] = run[s]
    BY <1>14 DEF Shut, RunMoved, OthersStay
  <2>3. /\ ~HasRows(r) /\ audit.owner = r /\ run[r].start.id = audit.id
    BY <1>3, <1>14 DEF Shut, Usable
  <2>4. \A s \in Runs : HasRows(s)' => s = r \/ HasRows(s)
    BY <2>1 DEF HasRows
  <2>5. \A i \in DOMAIN rows : rows[i].run # r /\ rows[i].run \in Runs
    BY <1>2, <2>3 DEF HasRows
  <2>6. ASSUME NEW i \in DOMAIN rows' PROVE ProxyRow(i)'
    <3>1. CASE i \in DOMAIN rows
      BY <1>1, <2>1, <2>2, <2>5, <3>1 DEF ProxyRow
    <3>2. CASE i \notin DOMAIN rows
      BY <2>1, <2>2, <3>2 DEF ProxyRow
    <3> QED
      BY <3>1, <3>2
  <2>7. ASSUME NEW i \in DOMAIN rows', NEW j \in DOMAIN rows',
               rows'[i].run = rows'[j].run, rows'[i].id = rows'[j].id
        PROVE  i = j
    BY <1>1, <2>1, <2>5, <2>7
  <2>8. ASSUME NEW s \in Runs, run'[s].at = "closed", NEW q \in began'[s]
        PROVE  \E i \in DOMAIN rows' : rows'[i].run = s /\ rows'[i].id = <<"proxy", q, 0>>
    <3>1. CASE s = r
      BY <2>1, <2>2, <2>8, <3>1
    <3>2. CASE s # r
      <4>0. run[s].at = "closed" /\ q \in began[s]
        BY <2>2, <2>8, <3>2
      <4>1. \A p \in began[s] :
               \E i \in DOMAIN rows : rows[i].run = s /\ rows[i].id = <<"proxy", p, 0>>
        <5>1. \A t \in Runs : run[t].at = "closed" => \A p \in began[t] :
                 \E i \in DOMAIN rows : rows[i].run = t /\ rows[i].id = <<"proxy", p, 0>>
          BY <1>1
        <5> QED
          BY <4>0, <5>1
      <4>2. PICK i \in DOMAIN rows : rows[i].run = s /\ rows[i].id = <<"proxy", q, 0>>
        BY <4>0, <4>1
      <4>3. i \in DOMAIN rows' /\ rows'[i] = rows[i]
        BY <2>1
      <4> QED
        BY <4>2, <4>3
    <3> QED
      BY <3>1, <3>2
  <2>9. \A s \in Runs : run'[s].start.id = run[s].start.id
    BY <2>2
  <2>10. \A s \in Runs : HasRows(s)' /\ run'[s].start.id = audit'.id => audit'.owner = s
    BY <1>1, <2>2, <2>3, <2>4, <2>9
  <2>11. ASSUME NEW s \in Runs, NEW t \in Runs, HasRows(s)', HasRows(t)',
                run'[s].start.id = run'[t].start.id
         PROVE  s = t
    <3>1. CASE HasRows(s) /\ HasRows(t)
      BY <1>1, <2>9, <2>11, <3>1
    <3>2. CASE s = r \/ t = r
      <4>1. run[s].start.id = audit.id /\ run[t].start.id = audit.id
        BY <2>3, <2>9, <2>11, <3>2
      <4>2. run'[s].start.id = audit'.id /\ run'[t].start.id = audit'.id
        BY <2>2, <2>9, <4>1
      <4> QED
        BY <2>10, <2>11, <4>2
    <3> QED
      BY <2>4, <2>11, <3>1, <3>2
  <2> HIDE DEF HasRows
  <2> QED
    BY <2>6, <2>7, <2>8, <2>10, <2>11 DEF ProxyRowsInv
<1> QED
  BY <1>6, <1>7, <1>8, <1>10, <1>11, <1>12, <1>13, <1>14, WindowsMove

-----------------------------------------------------------------------------
\* The invariant of the ledger: what its rows stand for, whatever their source.
LEMMA LedgerStays == LedgerIndInv /\ [LedgerNext]_ledgerVars => LedgerIndInv'
<1> SUFFICES ASSUME LedgerIndInv, [LedgerNext]_ledgerVars PROVE LedgerIndInv'
  OBVIOUS
<1>1. Types' /\ RestInv'
  BY TypesStay, RestStays
<1>2. Types /\ RestInv /\ source \in Sources
  BY DEF LedgerIndInv, Types, SourceTypes
<1>3. source' = source
  BY <1>2, StepsBySource
<1>4. CASE UNCHANGED ledgerVars
  <2>1. UNCHANGED <<source, audit, post, run, rows, session, att, gateway, counter, began>>
    BY <1>4 DEF ledgerVars, proxyVars, agentVars
  <2>2. source = "agent" => AgentInv'
    <3>1. AgentRowsInv' <=> AgentRowsInv
      BY <2>1 DEF AgentRowsInv, AgentRow, IsAttempt, LineRow, CallsOf
    <3>2. (OneResponse' <=> OneResponse) /\ (AttemptInv' <=> AttemptInv)
      BY <2>1 DEF OneResponse, IsAttempt, AttemptInv
    <3>3. LinesInv' <=> LinesInv
      BY <2>1 DEF LinesInv
    <3>4. SummedInv' <=> SummedInv
      BY <2>1 DEF SummedInv, Summed, IsAttempt
    <3> QED
      BY <3>1, <3>2, <3>3, <3>4 DEF LedgerIndInv, AgentInv
  <2>3. source = "task" => TaskInv'
    BY <2>1 DEF LedgerIndInv, TaskInv, TaskRow
  <2>4. source = "counter" => CounterInv' /\ CounterRowsInv'
    BY <2>1 DEF LedgerIndInv, CounterInv, Fits, CounterRowsInv, CounterRow
  <2>5. source = "proxy" => LogInv' /\ WindowInv' /\ ProxyRowsInv'
    <3>1. (LogInv' <=> LogInv) /\ (WindowInv' <=> WindowInv)
      BY <2>1 DEF LogInv, WindowInv
    <3>2. ProxyRowsInv' <=> ProxyRowsInv
      BY <2>1 DEF ProxyRowsInv, ProxyRow, HasRows
    <3> QED
      BY <3>1, <3>2 DEF LedgerIndInv
  <2> QED
    BY <1>1, <1>3, <2>2, <2>3, <2>4, <2>5 DEF LedgerIndInv
<1>5. CASE source = "agent" /\ AgentStep
  <2>1. AgentInv'
    BY <1>2, <1>5, AgentInvStays DEF LedgerIndInv
  <2> QED
    BY <1>1, <1>3, <1>5, <2>1 DEF LedgerIndInv
<1>6. CASE source = "task" /\ ObserveTask
  <2>1. TaskInv'
    BY <1>2, <1>6, TaskInvStays DEF LedgerIndInv
  <2> QED
    BY <1>1, <1>3, <1>6, <2>1 DEF LedgerIndInv
<1>7. CASE source = "counter" /\ CounterMoves
  <2>1. CounterInv' /\ CounterRowsInv'
    BY <1>2, <1>7, CounterInvStays DEF LedgerIndInv
  <2> QED
    BY <1>1, <1>3, <1>7, <2>1 DEF LedgerIndInv
<1>8. CASE source = "proxy" /\ WindowMoves
  <2>1. LogInv' /\ WindowInv' /\ ProxyRowsInv'
    BY <1>2, <1>8, LogStays, WindowsStay, ProxyRowsStay DEF LedgerIndInv
  <2> QED
    BY <1>1, <1>3, <1>8, <2>1 DEF LedgerIndInv
<1> QED
  BY <1>2, <1>4, <1>5, <1>6, <1>7, <1>8, StepsBySource DEF Sources

\* In every state of the ledger, each row stands for the calls its evidence is of,
\* and what is still to come stands for others.
THEOREM LedgerInvariance == LedgerSpec => []LedgerIndInv
<1>1. LedgerInit => LedgerIndInv
  BY LedgerStarts
<1>2. LedgerIndInv /\ [LedgerNext]_ledgerVars => LedgerIndInv'
  BY LedgerStays
<1> QED
  BY <1>1, <1>2, PTL DEF LedgerSpec
-----------------------------------------------------------------------------
\* What rebuild selects: of a record, one row, which is the last one whose usage
\* is known or one of the highest revision.
RowsOf(x) == {i \in DOMAIN rows : <<rows[i].run, rows[i].id>> = x}
IsWhole(i) == rows[i].granularity \in {"task", "run"}

LEMMA SelectedFacts ==
    ASSUME Types, NEW x \in Records
    PROVE  \E i \in RowsOf(x) :
              /\ Selected(x) = rows[i]
              /\ (\E j \in RowsOf(x) : IsWhole(j)) /\ (\E j \in RowsOf(x) : rows[j].use # Missing) =>
                    rows[i].use # Missing
              /\ ~(\E j \in RowsOf(x) : IsWhole(j)) =>
                    \A j \in RowsOf(x) : rows[j].revision <= rows[i].revision
<1> DEFINE R == RowsOf(x)
           Top == {i \in R : \A j \in R : rows[j].revision <= rows[i].revision}
           Kn == {i \in R : rows[i].use # Missing}
           S == IF Kn = {} THEN R ELSE Kn
<1>1. /\ Selected(x) = Winner(R)
      /\ R \subseteq DOMAIN rows /\ R # {}
  BY DEF Selected, RowsOf, Records
<1>2. DOMAIN rows = 1..Len(rows) /\ Len(rows) \in Nat
        /\ \A i \in DOMAIN rows : rows[i] \in RowType
  BY DEF Types, RowTypes
<1>3. \A i \in DOMAIN rows : rows[i].revision \in {-1, 0, 1}
  BY <1>2 DEF RowType
<1>4. IsFiniteSet(DOMAIN rows) /\ DOMAIN rows \subseteq Int
  <2>1. IsFiniteSet(1..Len(rows))
    BY <1>2, FS_Interval
  <2> QED
    BY <1>2, <2>1
<1>5. Winner(R) = IF \E i \in R : IsWhole(i) THEN rows[CHOOSE i \in S : \A j \in S : j <= i]
                                          ELSE rows[CHOOSE i \in Top : \A j \in Top : i <= j]
  BY DEF Winner, IsWhole
<1> HIDE DEF R
<1>6. CASE \E i \in R : IsWhole(i)
  <2>1. S \subseteq R /\ S # {} /\ IsFiniteSet(S) /\ S \in SUBSET Int
    <3>1. S \subseteq R /\ S # {}
      BY <1>1
    <3> HIDE DEF S
    <3>2. IsFiniteSet(S)
      BY <1>1, <1>4, <3>1, FS_Subset
    <3> QED
      BY <1>1, <1>4, <3>1, <3>2
  <2>2. (\E j \in R : rows[j].use # Missing) => \A i \in S : rows[i].use # Missing
    OBVIOUS
  <2> HIDE DEF S
  <2>3. \E i \in S : \A j \in S : j <= i
    BY <2>1, LastExists
  <2> DEFINE i == CHOOSE i \in S : \A j \in S : j <= i
  <2>4. i \in S
    BY <2>3
  <2>5. Selected(x) = rows[i]
    BY <1>1, <1>5, <1>6
  <2> HIDE DEF i
  <2> QED
    BY <1>6, <2>1, <2>2, <2>4, <2>5 DEF R
<1>7. CASE ~\E i \in R : IsWhole(i)
  <2>1. Top # {}
    <3>1. CASE \E i \in R : rows[i].revision = 1
      BY <1>1, <1>3, <3>1
    <3>2. CASE (\E i \in R : rows[i].revision = 0) /\ \A i \in R : rows[i].revision # 1
      BY <1>1, <1>3, <3>2
    <3>3. CASE \A i \in R : rows[i].revision = -1
      BY <1>1, <3>3
    <3> QED
      BY <1>1, <1>3, <3>1, <3>2, <3>3
  <2>2. Top \subseteq R /\ \A i \in Top : \A j \in R : rows[j].revision <= rows[i].revision
    OBVIOUS
  <2> HIDE DEF Top
  <2>3. IsFiniteSet(Top) /\ Top \in SUBSET Int
    <3>1. Top \subseteq DOMAIN rows
      BY <1>1, <2>2
    <3> QED
      BY <1>4, <3>1, FS_Subset
  <2>4. \E i \in Top : \A j \in Top : i <= j
    BY <2>1, <2>3, FirstExists
  <2> DEFINE i == CHOOSE i \in Top : \A j \in Top : i <= j
  <2>5. i \in Top
    BY <2>4
  <2>6. Selected(x) = rows[i]
    BY <1>1, <1>5, <1>7
  <2> HIDE DEF i
  <2> QED
    BY <1>7, <2>2, <2>5, <2>6 DEF R
<1> QED
  BY <1>6, <1>7

\* The rows of a record agree on what counts.
LEMMA RowsDoAgree ==
    ASSUME LedgerIndInv
    PROVE  RowsAgree
<1> SUFFICES ASSUME NEW i \in DOMAIN rows, NEW j \in DOMAIN rows,
                    rows[i].run = rows[j].run, rows[i].id = rows[j].id
             PROVE  /\ IsWhole(i) <=> IsWhole(j)
                    /\ Known(i) /\ (IF IsWhole(j) THEN rows[j].use # Missing
                                    ELSE rows[i].revision <= rows[j].revision) =>
                          rows[j].selected /\ rows[j].use = rows[i].use
  BY DEF RowsAgree, IsWhole
<1>1. source \in Sources /\ Types
  BY DEF LedgerIndInv, Types, SourceTypes
<1>2. CASE source = "agent"
  <2>1. AgentRow(i) /\ AgentRow(j) /\ OneResponse
    BY <1>2 DEF LedgerIndInv, AgentInv, AgentRowsInv
  <2>2. \A k \in DOMAIN rows : AgentRow(k) =>
           \/ \E a \in Attempts : IsAttempt(k, a, 0) /\ rows[k].use = Missing
           \/ \E a \in Attempts : IsAttempt(k, a, 1)
           \/ \E a \in Attempts : \E m \in 1..gateway.made[a] : rows[k] = LineRow(a, m)
    BY DEF AgentRow
  <2>3. \A a \in Attempts : gateway.made[a] \in Nat
    BY <1>1, AttemptsAreTyped, LedgerData
  <2>4. ASSUME NEW k \in DOMAIN rows, NEW a \in Attempts, NEW m \in 1..gateway.made[a],
               rows[k] = LineRow(a, m)
        PROVE  /\ rows[k].id = <<"agent", a, m>> /\ m # 0 /\ rows[k].granularity = "request"
               /\ rows[k].selected /\ rows[k].use = {<<"agent", a, m>>}
    BY <2>3, <2>4 DEF LineRow, Row, Call
  <2>5. \A k \in DOMAIN rows : AgentRow(k) => ~IsWhole(k)
    BY <2>2, <2>4 DEF IsWhole, IsAttempt
  <2>6. CASE \E a \in Attempts : IsAttempt(i, a, 0) /\ rows[i].use = Missing
    BY <2>1, <2>5, <2>6 DEF Known
  <2>7. ASSUME NEW a \in Attempts, IsAttempt(i, a, 1), rows[i].revision <= rows[j].revision
        PROVE  i = j
    <3>1. rows[j].id = <<"agent", a, 0>> /\ 1 <= rows[j].revision
      BY <2>7 DEF IsAttempt
    <3>2. \A b \in Attempts : ~IsAttempt(j, b, 0) /\ (IsAttempt(j, b, 1) => a = b)
      BY <3>1 DEF IsAttempt
    <3>3. IsAttempt(j, a, 1)
      BY <2>1, <2>2, <2>4, <3>1, <3>2
    <3> QED
      BY <2>1, <2>7, <3>3 DEF OneResponse
  <2>8. CASE \E a \in Attempts : IsAttempt(i, a, 1)
    <3>1. ~IsWhole(i) /\ ~IsWhole(j)
      BY <2>1, <2>5
    <3>2. rows[i].revision <= rows[j].revision => i = j
      BY <2>7, <2>8
    <3> QED
      BY <3>1, <3>2 DEF Known
  <2>9. CASE \E a \in Attempts : \E m \in 1..gateway.made[a] : rows[i] = LineRow(a, m)
    <3>1. PICK a \in Attempts : \E m \in 1..gateway.made[a] : rows[i] = LineRow(a, m)
      BY <2>9
    <3>2. PICK m \in 1..gateway.made[a] : rows[i] = LineRow(a, m)
      BY <3>1
    <3>3. rows[j].id = <<"agent", a, m>> /\ m # 0 /\ rows[i].use = {<<"agent", a, m>>}
      BY <2>4, <3>2
    <3>4. \A b \in Attempts : ~IsAttempt(j, b, 0) /\ ~IsAttempt(j, b, 1)
      BY <3>3 DEF IsAttempt
    <3>5. rows[j].selected /\ rows[j].use = {rows[j].id}
      <4>1. PICK b \in Attempts : \E n \in 1..gateway.made[b] : rows[j] = LineRow(b, n)
        BY <2>1, <2>2, <3>4
      <4>2. PICK n \in 1..gateway.made[b] : rows[j] = LineRow(b, n)
        BY <4>1
      <4>3. rows[j].id = <<"agent", b, n>> /\ rows[j].selected /\ rows[j].use = {<<"agent", b, n>>}
        BY <2>4, <4>2
      <4> QED
        BY <4>3
    <3> QED
      BY <2>1, <2>5, <3>3, <3>5
  <2> QED
    BY <2>1, <2>2, <2>6, <2>8, <2>9
<1>3. CASE source = "task"
  <2>1. TaskRow(i) /\ TaskRow(j)
    BY <1>3 DEF LedgerIndInv, TaskInv
  <2>2. \A k \in {i, j} : /\ IsWhole(k) /\ rows[k].selected
                          /\ rows[k].use # Missing => rows[k].use = {Call("task", 1, 0)}
    BY <2>1 DEF TaskRow, Row, IsWhole
  <2> QED
    BY <2>2 DEF Known
<1>4. CASE source = "counter"
  <2>1. rows = <<>> \/ Len(rows) = 1
    BY <1>4 DEF LedgerIndInv, CounterRowsInv
  <2>2. DOMAIN rows = 1..Len(rows) /\ Len(rows) \in Nat
    BY <1>1 DEF Types, RowTypes
  <2>3. i = j
    BY <2>1, <2>2
  <2> QED
    BY <2>3 DEF Known, IsWhole
<1>5. CASE source = "proxy"
  <2>1. i = j /\ ProxyRow(i)
    BY <1>5 DEF LedgerIndInv, ProxyRowsInv
  <2> QED
    BY <2>1 DEF Known, IsWhole
<1> QED
  BY <1>1, <1>2, <1>3, <1>4, <1>5 DEF Sources

\* What counts is what some row, which is not left out, knows.
LEMMA CountsWhatIsEvident == LedgerIndInv => Counted = Evident
<1> SUFFICES ASSUME LedgerIndInv PROVE Counted = Evident
  OBVIOUS
<1>1. Types
  BY DEF LedgerIndInv
<1>2. ASSUME NEW x \in Records, IsCounted(x)
      PROVE  Selected(x).use \subseteq Evident
  <2>1. PICK i \in RowsOf(x) : Selected(x) = rows[i]
    BY <1>1, SelectedFacts
  <2>2. i \in DOMAIN rows /\ Known(i)
    BY <1>2, <2>1 DEF IsCounted, Known, RowsOf
  <2> QED
    BY <2>1, <2>2 DEF Evident
<1>3. ASSUME NEW i \in DOMAIN rows, Known(i)
      PROVE  \E x \in Records : IsCounted(x) /\ Selected(x).use = rows[i].use
  <2> DEFINE x == <<rows[i].run, rows[i].id>>
  <2>1. x \in Records /\ i \in RowsOf(x)
    BY DEF Records, RowsOf
  <2>2. PICK j \in RowsOf(x) :
              /\ Selected(x) = rows[j]
              /\ (\E k \in RowsOf(x) : IsWhole(k)) /\ (\E k \in RowsOf(x) : rows[k].use # Missing) =>
                    rows[j].use # Missing
              /\ ~(\E k \in RowsOf(x) : IsWhole(k)) =>
                    \A k \in RowsOf(x) : rows[k].revision <= rows[j].revision
    BY <1>1, <2>1, SelectedFacts
  <2>3. \A k \in RowsOf(x) : k \in DOMAIN rows /\ rows[i].run = rows[k].run /\ rows[i].id = rows[k].id
    BY DEF RowsOf
  <2> HIDE DEF x
  <2>4. RowsAgree
    BY RowsDoAgree
  <2>5. \A k \in RowsOf(x) : IsWhole(i) <=> IsWhole(k)
    BY <2>3, <2>4 DEF RowsAgree, IsWhole
  <2>6. rows[i].use # Missing
    BY <1>3 DEF Known
  <2>7. IF IsWhole(j) THEN rows[j].use # Missing ELSE rows[i].revision <= rows[j].revision
    BY <2>1, <2>2, <2>5, <2>6
  <2>8. rows[j].selected /\ rows[j].use = rows[i].use
    BY <1>3, <2>3, <2>4, <2>7 DEF RowsAgree, IsWhole
  <2> QED
    BY <2>1, <2>2, <2>6, <2>8 DEF IsCounted
<1>4. Counted \subseteq Evident
  BY <1>2 DEF Counted
<1>5. Evident \subseteq Counted
  BY <1>3 DEF Counted, Evident
<1> QED
  BY <1>4, <1>5

-----------------------------------------------------------------------------
\* What the invariant says of the report.
LEMMA CountedFacts ==
    ASSUME Types, NEW x \in {z \in Records : IsCounted(z)}
    PROVE  \E i \in DOMAIN rows : /\ Known(i) /\ Selected(x) = rows[i]
                                  /\ x = <<rows[i].run, rows[i].id>>
<1>1. PICK i \in RowsOf(x) : Selected(x) = rows[i]
  BY SelectedFacts
<1> QED
  BY <1>1 DEF IsCounted, Known, RowsOf

LEMMA NothingTwice == LedgerIndInv => NoCallTwice
<1> SUFFICES ASSUME LedgerIndInv,
                    NEW x \in {z \in Records : IsCounted(z)}, NEW y \in {z \in Records : IsCounted(z)},
                    x # y
             PROVE  Selected(x).use \cap Selected(y).use = {}
  BY DEF NoCallTwice
<1>1. Types /\ source \in Sources
  BY DEF LedgerIndInv, Types, SourceTypes
<1>2. PICK i \in DOMAIN rows :
         Known(i) /\ Selected(x) = rows[i] /\ x = <<rows[i].run, rows[i].id>>
  BY <1>1, CountedFacts
<1>3. PICK j \in DOMAIN rows :
         Known(j) /\ Selected(y) = rows[j] /\ y = <<rows[j].run, rows[j].id>>
  BY <1>1, CountedFacts
<1>4. ~(rows[i].run = rows[j].run /\ rows[i].id = rows[j].id)
  BY <1>2, <1>3
<1>5. CASE source = "agent"
  <2> DEFINE Response(k, a) == IsAttempt(k, a, 1) /\ Summed(a) /\ rows[k].use = CallsOf(a)
             Line(k, a, m) == /\ rows[k] = LineRow(a, m)
                              /\ \E b \in Attempts : Call("agent", a, m) \in att[b].read
  <2>1. AgentRow(i) /\ AgentRow(j) /\ SummedInv
    BY <1>5 DEF LedgerIndInv, AgentInv, AgentRowsInv
  <2>2. ASSUME NEW k \in DOMAIN rows, AgentRow(k), Known(k)
        PROVE  \E a \in Attempts : Response(k, a) \/ \E m \in 1..gateway.made[a] : Line(k, a, m)
    BY <2>2 DEF AgentRow, Known, Summed
  <2>3. PICK a \in Attempts : Response(i, a) \/ \E m \in 1..gateway.made[a] : Line(i, a, m)
    BY <1>2, <2>1, <2>2
  <2>4. PICK b \in Attempts : Response(j, b) \/ \E m \in 1..gateway.made[b] : Line(j, b, m)
    BY <1>3, <2>1, <2>2
  <2>5. ASSUME NEW k \in DOMAIN rows, NEW c \in Attempts, NEW m \in 1..gateway.made[c],
               Line(k, c, m)
        PROVE  /\ rows[k].use = {Call("agent", c, m)} /\ rows[k].run = TheRun
               /\ rows[k].id = Call("agent", c, m) /\ ~Summed(c)
    <3>1. m \in 1..NumCalls
      <4>1. gateway.made[c] \in 0..NumCalls /\ NumCalls \in Nat
        BY <1>1, AttemptsAreTyped, LedgerData
      <4> QED
        BY <4>1
    <3>2. ~Summed(c)
      BY <2>1, <2>5, <3>1 DEF SummedInv
    <3> QED
      BY <2>5, <3>2 DEF LineRow, Row
  <2>6. ASSUME NEW k \in DOMAIN rows, NEW c \in Attempts, Response(k, c)
        PROVE  /\ rows[k].id = <<"agent", c, 0>> /\ rows[k].run = TheRun /\ Summed(c)
               /\ \A z \in rows[k].use : z[2] = c
    BY <2>6 DEF IsAttempt, CallsOf, Call
  <2>7. CASE Response(i, a) /\ Response(j, b)
    <3>1. a # b
      BY <1>4, <2>6, <2>7
    <3> QED
      BY <1>2, <1>3, <2>6, <2>7, <3>1
  <2>8. ASSUME NEW m \in 1..gateway.made[b], Response(i, a), Line(j, b, m)
        PROVE  Selected(x).use \cap Selected(y).use = {}
    <3>1. a # b /\ rows[j].use = {Call("agent", b, m)} /\ \A z \in rows[i].use : z[2] = a
      BY <2>5, <2>6, <2>8
    <3>2. Call("agent", b, m)[2] = b
      BY DEF Call
    <3> QED
      BY <1>2, <1>3, <3>1, <3>2
  <2>9. ASSUME NEW m \in 1..gateway.made[a], Line(i, a, m), Response(j, b)
        PROVE  Selected(x).use \cap Selected(y).use = {}
    <3>1. a # b /\ rows[i].use = {Call("agent", a, m)} /\ \A z \in rows[j].use : z[2] = b
      BY <2>5, <2>6, <2>9
    <3>2. Call("agent", a, m)[2] = a
      BY DEF Call
    <3> QED
      BY <1>2, <1>3, <3>1, <3>2
  <2>10. ASSUME NEW m \in 1..gateway.made[a], Line(i, a, m), NEW n \in 1..gateway.made[b],
                Line(j, b, n)
         PROVE  Selected(x).use \cap Selected(y).use = {}
    <3>1. /\ rows[i].use = {rows[i].id} /\ rows[j].use = {rows[j].id} /\ rows[i].run = rows[j].run
      BY <2>5, <2>10
    <3> QED
      BY <1>2, <1>3, <1>4, <3>1
  <2> HIDE DEF Response, Line
  <2> QED
    BY <2>3, <2>4, <2>7, <2>8, <2>9, <2>10
<1>6. CASE source = "task"
  <2>1. TaskRow(i) /\ TaskRow(j)
    BY <1>6 DEF LedgerIndInv, TaskInv
  <2> QED
    BY <1>4, <2>1 DEF TaskRow, Row
<1>7. CASE source = "counter"
  <2>1. rows = <<>> \/ Len(rows) = 1
    BY <1>7 DEF LedgerIndInv, CounterRowsInv
  <2>2. DOMAIN rows = 1..Len(rows) /\ Len(rows) \in Nat
    BY <1>1 DEF Types, RowTypes
  <2>3. i = j
    BY <2>1, <2>2
  <2> QED
    BY <1>4, <2>3
<1>8. CASE source = "proxy"
  <2>1. ProxyRow(i) /\ ProxyRow(j) /\ ProxyRowsInv /\ WindowInv
    BY <1>8 DEF LedgerIndInv, ProxyRowsInv
  <2> DEFINE r == rows[i].run
             s == rows[j].run
  <2>2. PICK p \in began[r] :
           rows[i].id = <<"proxy", p, 0>> /\ rows[i].use \in {Missing, {RequestCall(p)}}
    BY <2>1 DEF ProxyRow
  <2>3. PICK q \in began[s] :
           rows[j].id = <<"proxy", q, 0>> /\ rows[j].use \in {Missing, {RequestCall(q)}}
    BY <2>1 DEF ProxyRow
  <2>4. rows[i].use = {RequestCall(p)} /\ rows[j].use = {RequestCall(q)}
    BY <1>2, <1>3, <2>2, <2>3 DEF Known
  <2>5. CASE p # q
    <3>1. RequestCall(p) # RequestCall(q)
      BY <2>5 DEF RequestCall, Call
    <3> QED
      BY <1>2, <1>3, <2>4, <3>1
  <2>6. CASE p = q
    <3>1. r # s /\ r \in Runs /\ s \in Runs /\ HasRows(r) /\ HasRows(s)
      <4>1. rows[i] \in RowType /\ rows[j] \in RowType
        BY <1>1 DEF Types, RowTypes
      <4>2. r \in Runs /\ s \in Runs
        BY <4>1 DEF RowType
      <4> QED
        BY <1>4, <2>2, <2>3, <2>6, <4>2 DEF HasRows
    <3>2. began[r] \cap began[s] # {}
      BY <2>2, <2>3, <2>6
    <3>3. run[r].start.id = run[s].start.id
      BY <2>1, <3>1, <3>2 DEF WindowInv
    <3> QED
      BY <2>1, <3>1, <3>3 DEF ProxyRowsInv
  <2> QED
    BY <2>5, <2>6
<1> QED
  BY <1>1, <1>5, <1>6, <1>7, <1>8 DEF Sources

LEMMA WindowsDoExactly == LedgerIndInv => WindowsAreExact
<1> SUFFICES ASSUME LedgerIndInv, NEW r \in Runs, run[r].at = "closed"
             PROVE  IF source = "proxy"
                    THEN {x[2][2] : x \in {y \in Records : y[1] = r}} = began[r]
                    ELSE \A x \in Records : x[1] = r /\ IsCounted(x) =>
                           Cardinality(Selected(x).use) = run[r].after.ever - run[r].before.ever
  BY DEF WindowsAreExact
<1>1. Types /\ RestInv /\ source \in Sources
  BY DEF LedgerIndInv, Types, SourceTypes
<1>2. CASE source = "proxy"
  <2>1. ProxyRowsInv
    BY <1>2 DEF LedgerIndInv
  <2>2. ASSUME NEW x \in Records, x[1] = r PROVE x[2][2] \in began[r]
    <3>1. PICK i \in DOMAIN rows : x = <<rows[i].run, rows[i].id>>
      BY DEF Records
    <3>2. \E q \in began[r] : rows[i].id = <<"proxy", q, 0>>
      BY <2>1, <2>2, <3>1 DEF ProxyRowsInv, ProxyRow
    <3> QED
      BY <3>1, <3>2
  <2>3. ASSUME NEW q \in began[r] PROVE \E x \in Records : x[1] = r /\ x[2][2] = q
    <3>1. PICK i \in DOMAIN rows : rows[i].run = r /\ rows[i].id = <<"proxy", q, 0>>
      BY <2>1 DEF ProxyRowsInv
    <3>2. <<rows[i].run, rows[i].id>> \in Records
      BY DEF Records
    <3> QED
      BY <3>1, <3>2
  <2> QED
    BY <1>2, <2>2, <2>3
<1>3. CASE source \in {"agent", "task"}
  <2>1. run[r].at = "idle"
    BY <1>1, <1>3 DEF RestInv, Idle
  <2> QED
    BY <2>1
<1>4. CASE source = "counter"
  <2> SUFFICES ASSUME NEW x \in Records, x[1] = r, IsCounted(x)
               PROVE  Cardinality(Selected(x).use) = run[r].after.ever - run[r].before.ever
    BY <1>4
  <2>1. r = TheRun /\ CounterInv /\ CounterRowsInv
    BY <1>1, <1>4 DEF LedgerIndInv, RestInv
  <2>2. PICK i \in DOMAIN rows : Known(i) /\ Selected(x) = rows[i]
    BY <1>1, CountedFacts
  <2>3. i = 1 /\ CounterRow
    <3>1. DOMAIN rows = 1..Len(rows) /\ Len(rows) \in Nat
      BY <1>1 DEF Types, RowTypes
    <3> QED
      BY <2>1, <2>2, <3>1 DEF CounterRowsInv
  <2> DEFINE b == run[r].before
             a == run[r].after
             S == b.n + 1 .. a.n
             T == {Call("counter", k, 0) : k \in S}
  <2>4. b.gen = a.gen /\ b.n <= a.n /\ Selected(x).use = T
    BY <2>1, <2>2, <2>3 DEF CounterRow, Known
  <2>5. /\ b.n \in Int /\ a.n \in Int /\ b.ever \in Int /\ a.ever \in Int
    <3>1. \A c \in CounterType : c.n \in Int /\ c.ever \in Int
      BY LedgerData DEF CounterType
    <3> QED
      BY <1>1, <3>1, RunIsTyped
  <2>6. a.n - b.n = a.ever - b.ever
    BY <2>1, <2>4 DEF CounterInv
  <2>7. Cardinality(T) = Cardinality(S)
    <3> DEFINE f == [k \in S |-> Call("counter", k, 0)]
    <3>1. IsFiniteSet(S)
      BY <2>5, FS_Interval
    <3> HIDE DEF S
    <3>2. \A k, m \in S : Call("counter", k, 0) = Call("counter", m, 0) => k = m
      BY DEF Call
    <3>3. f \in [S -> T] /\ (\A k, m \in S : f[k] = f[m] => k = m) /\ \A t \in T : \E k \in S : f[k] = t
      BY <3>2
    <3> HIDE DEF f, T
    <3>4. f \in Bijection(S, T)
      BY <3>3, Fun_IsBij
    <3>5. ExistsBijection(S, T)
      BY <3>4 DEF ExistsBijection
    <3> QED
      BY <3>1, <3>5, FS_Bijection
  <2>8. Cardinality(S) = a.n - b.n
    <3> DEFINE lo == b.n + 1
    <3>1. lo \in Int
      BY <2>5
    <3> HIDE DEF lo
    <3>2. Cardinality(lo .. a.n) = IF lo > a.n THEN 0 ELSE a.n - lo + 1
      BY <2>5, <3>1, FS_Interval
    <3> QED
      BY <2>4, <2>5, <3>2 DEF lo
  <2> HIDE DEF S, T
  <2> QED
    BY <2>4, <2>6, <2>7, <2>8
<1> QED
  BY <1>1, <1>2, <1>3, <1>4 DEF Sources

LEMMA LedgerIsTyped == LedgerIndInv => LedgerTypeOK
<1> SUFFICES ASSUME LedgerIndInv PROVE LedgerTypeOK
  OBVIOUS
<1>1. Types
  BY DEF LedgerIndInv
<1>2. \A i \in DOMAIN rows : rows[i].revision \in {-1, 0, 1} /\ rows[i].run \in Runs
  <2>1. \A i \in DOMAIN rows : rows[i] \in RowType
    BY <1>1 DEF Types, RowTypes
  <2> QED
    BY <2>1 DEF RowType
<1>3. source \in Sources /\ faults \in 0..MaxTrouble[source]
  BY <1>1 DEF Types, SourceTypes
<1> QED
  BY <1>1, <1>2, <1>3, AuditIsTyped, AttemptsAreTyped DEF LedgerTypeOK

\* Rows stay.
LEMMA RowsGrow ==
    ASSUME LedgerIndInv, [LedgerNext]_ledgerVars
    PROVE  DOMAIN rows \subseteq DOMAIN rows' /\ \A i \in DOMAIN rows : rows'[i] = rows[i]
<1>1. Types /\ RestInv /\ source \in Sources
  BY DEF LedgerIndInv, Types, SourceTypes
<1>2. CASE rows' = rows
  BY <1>2
<1>3. CASE source = "agent" /\ AgentStep
  BY <1>1, <1>3, AgentRowsGrow
<1>4. CASE source = "task" /\ ObserveTask
  BY <1>1, <1>4, TaskGrows DEF GrowsBy
<1>5. CASE source = "counter" /\ CounterMoves
  <2>1. ASSUME NEW r \in Runs, RecordWindow(r)
        PROVE  DOMAIN rows \subseteq DOMAIN rows' /\ \A i \in DOMAIN rows : rows'[i] = rows[i]
    BY <1>1, <2>1, CounterGrows DEF GrowsBy
  <2> QED
    BY <1>2, <1>5, <2>1 DEF CounterMoves, BackendCalls, BackendRestarts, Kill,
         CounterSnapshot, CounterStep
<1>6. CASE source = "proxy" /\ WindowMoves
  <2>1. ASSUME NEW r \in Runs, Shut(r)
        PROVE  DOMAIN rows \subseteq DOMAIN rows' /\ \A i \in DOMAIN rows : rows'[i] = rows[i]
    BY <1>1, <1>6, <2>1, ShutRows DEF LedgerIndInv
  <2> QED
    BY <1>1, <1>2, <1>6, <2>1, WindowsMove
       DEF Received, Served, Replaced, Looked, Claimed, Opened, Ended
<1> QED
  BY <1>1, <1>2, <1>3, <1>4, <1>5, <1>6, StepsBySource DEF Sources, ledgerVars

\* Nothing is counted twice, and a window has what began in it and nothing else,
\* for any number of runs, requests, attempts, calls, restarts and failures.
THEOREM LedgerIsRight == LedgerSpec => []LedgerInv
<1>1. LedgerIndInv => LedgerInv
  BY LedgerIsTyped, NothingTwice, WindowsDoExactly DEF LedgerInv
<1> QED
  BY <1>1, LedgerInvariance, PTL

\* What a report has counted, every later report counts.
THEOREM CountedStays == LedgerSpec => CountedNeverShrinks
<1>1. LedgerIndInv /\ (Counted = Evident) /\ (Counted = Evident)' /\ [LedgerNext]_ledgerVars
        => [Counted \subseteq Counted']_ledgerVars
  <2> SUFFICES ASSUME LedgerIndInv, Counted = Evident, (Counted = Evident)',
                      [LedgerNext]_ledgerVars
               PROVE  Counted \subseteq Counted'
    OBVIOUS
  <2>1. Counted = Evident /\ Counted' = Evident'
    OBVIOUS
  <2>2. DOMAIN rows \subseteq DOMAIN rows' /\ \A i \in DOMAIN rows : rows'[i] = rows[i]
    BY RowsGrow
  <2>3. Evident \subseteq Evident'
    BY <2>2 DEF Evident, Known
  <2> QED
    BY <2>1, <2>3
<1> QED
  BY <1>1, CountsWhatIsEvident, LedgerInvariance, PTL DEF LedgerSpec, CountedNeverShrinks

\* An answer that the client has got with its usage is charged to the window in
\* which its request began, when that window is closed.
THEOREM DeliveredCounts == LedgerSpec => DeliveredIsCharged
<1> DEFINE Charged == \A r \in Runs : run[r].at = "open" /\ run'[r].at = "closed" =>
              {RequestCall(q) : q \in {x \in began[r] : post[x] = "delivered"}} \subseteq Counted'
<1>1. LedgerIndInv /\ (Counted = Evident)' /\ [LedgerNext]_ledgerVars => [Charged]_ledgerVars
  <2> SUFFICES ASSUME LedgerIndInv, (Counted = Evident)', [LedgerNext]_ledgerVars,
                      NEW r \in Runs, run[r].at = "open", run'[r].at = "closed",
                      NEW q \in began[r], post[q] = "delivered"
               PROVE  RequestCall(q) \in Counted'
    OBVIOUS
  <2>1. Counted' = Evident'
    OBVIOUS
  <2>2. Types /\ RestInv /\ source \in Sources
    BY DEF LedgerIndInv, Types, SourceTypes
  <2>3. source = "proxy"
    BY <2>2 DEF RestInv, Sources, Idle
  <2>4. WindowMoves
    BY <2>2, <2>3, StepsBySource DEF ledgerVars
  <2>5. Shut(r)
    <3>1. run' # run
      OBVIOUS
    <3>2. PICK s \in Runs : Looked(s) \/ Claimed(s) \/ Opened(s) \/ Ended(s) \/ Shut(s)
      BY <2>2, <2>3, <2>4, <3>1, WindowsMove DEF Received, Served, Replaced
    <3>3. s = r
      BY <3>2 DEF Looked, Claimed, Opened, Ended, Shut, RunMoved, OthersStay
    <3> QED
      BY <3>2, <3>3 DEF Looked, Claimed, Opened, Ended, RunMoved
  <2>6. LogInv /\ WindowInv
    BY <2>3 DEF LedgerIndInv
  <2>7. PICK i \in DOMAIN rows' \ DOMAIN rows : rows'[i].id = <<"proxy", q, 0>>
    BY <2>2, <2>3, <2>5, <2>6, ShutRows
  <2>8. PICK p \in began[r] : /\ rows'[i].id = <<"proxy", p, 0>> /\ rows'[i].selected
                              /\ post[p] = "delivered" => rows'[i].use = {RequestCall(p)}
    BY <2>2, <2>3, <2>5, <2>6, ShutRows
  <2>9. p = q
    BY <2>7, <2>8
  <2>10. rows'[i].selected /\ rows'[i].use = {RequestCall(q)}
    BY <2>8, <2>9
  <2>11. q \in Prompts /\ {RequestCall(q)} # Missing
    <3>1. q \in Prompts
      BY <2>2, AuditIsTyped
    <3>2. {RequestCall(q)} \in SUBSET Calls
      BY <3>1 DEF Calls
    <3> QED
      BY <3>1, <3>2, LedgerAssumption
  <2> QED
    BY <2>1, <2>7, <2>10, <2>11 DEF Evident, Known
<1> QED
  BY <1>1, CountsWhatIsEvident, LedgerInvariance, PTL DEF LedgerSpec, DeliveredIsCharged

=============================================================================
