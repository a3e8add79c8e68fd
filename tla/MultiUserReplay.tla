--------------------------- MODULE MultiUserReplay ---------------------------
(***************************************************************************)
(* The request scheduler of memory_bench_platform/multi_user_replay.py:    *)
(* Replay.phase runs the add, drain and search phases of a multi-user      *)
(* replay over a bounded pool of workers shared by several instances, and  *)
(* Replay.report says how it went.  Requests of one user run one after the *)
(* other; users of one instance share its max_inflight slots.              *)
(*                                                                         *)
(* A user is a position in config.users, an instance a position in         *)
(* Replay.runtimes.  Clock readings are abstracted to the set of users     *)
(* whose ready_at has come; a buffered record is the head of the queue of  *)
(* its user.  InstanceRuntime is the subject of InstanceLifecycle.         *)
(***************************************************************************)
EXTENDS ReplayInstances, Sequences, SequencesExt

CONSTANTS
    NumUsers,
    InstanceOf,         \* the instance of each user
    Adds,               \* the sessions of the add requests of each user, in file order
    Searches,           \* the number of search requests of each user
    Paced,              \* the users with a request rate
    MaxWorkers,
    MaxInflight,        \* max_inflight of each instance
    Drains,             \* mode "openclaw": there is a drain phase
    MaxUsersFailed      \* bound: users of whom some request may fail

Users == 1..NumUsers
Sessions == UNION {ToSet(Adds[u]) : u \in Users}

ASSUME ReplayAssumption ==
    /\ NumUsers \in Nat /\ NumInstances \in Nat
    /\ InstanceOf \in [Users -> Instances]
    /\ Adds \in [Users -> Seq(Nat)]
    /\ Searches \in [Users -> Nat]
    /\ MaxWorkers \in Nat \ {0}
    /\ MaxInflight \in [Instances -> Nat \ {0}]
    /\ Paced \subseteq Users
    /\ Drains \in BOOLEAN
    /\ MaxUsersFailed \in Nat

Operations == {"add", "drain", "search"}

-----------------------------------------------------------------------------
VARIABLES
    pc,             \* running, stopping after an interrupt, completed, interrupted
    operation,      \* the phase
    ready,          \* the instances whose state is "ready"
    queue,          \* what each user still has to request in this phase
    pending,        \* the deque of users waiting for a worker
    turn,           \* how many of them this pass of the for loop still visits
    done,           \* users whose futures the last wait() returned
    due,            \* the users whose ready_at has come
    fut,            \* the future of each user
    current,        \* the request a user's future is about
    inflight,       \* futures of each instance
    remaining,      \* remaining_users of each instance
    sessions,       \* self.sessions of each user, in order of insertion
    unflushed,      \* sessions written to since they were last drained
    events,         \* self.events, counted for each user and operation
    invoked,        \* calls of invoke that ended, counted in the same way
    bad             \* the operations that failed for each user

vars == <<pc, operation, ready, queue, pending, turn, done, due, fut, current, inflight,
          remaining, sessions, unflushed, events, invoked, bad>>

loop == <<pending, turn, done>>
books == <<inflight, remaining>>
results == <<sessions, unflushed, events, invoked, bad>>

Futures  == {u \in Users : fut[u] # "none"}
Finished == {u \in Users : fut[u] \in {"ok", "failed"}}
At(i)    == {u \in Users : InstanceOf[u] = i}

\* remaining_users[i] > 0.
Active == {i \in Instances : remaining[i] > 0}

TypeOK ==
    /\ pc \in {"running", "stopping", "completed", "interrupted"}
    /\ operation \in Operations
    /\ ready \subseteq Instances
    /\ queue \in [Users -> Seq(Nat)]
    /\ pending \in Seq(Users)
    /\ turn \in 0..NumUsers
    /\ done \subseteq Users
    /\ due \subseteq Users
    /\ fut \in [Users -> {"none", "running", "ok", "failed"}]
    /\ current \in [Users -> Nat]
    /\ inflight \in [Instances -> Nat]
    /\ remaining \in [Instances -> Nat]
    /\ sessions \in [Users -> Seq(Sessions)]
    /\ unflushed \in [Users -> SUBSET Sessions]
    /\ events \in [Users -> [Operations -> Nat]]
    /\ invoked \in [Users -> [Operations -> Nat]]
    /\ bad \in [Users -> SUBSET Operations]

-----------------------------------------------------------------------------
(* The start of a phase *)

ReadyUsers(R) == {u \in Users : InstanceOf[u] \in R}

\* Users take turns by instance, so a large group cannot fill the pool first.
Rank(u, R) == Cardinality({v \in ReadyUsers(R) : v < u /\ InstanceOf[v] = InstanceOf[u]})

\* The users the first pass visits before u: those of earlier rounds, and of its own
\* round those of earlier instances.
Ahead(u, R) == {v \in ReadyUsers(R) :
    \/ Rank(v, R) < Rank(u, R)
    \/ Rank(v, R) = Rank(u, R) /\ InstanceOf[v] < InstanceOf[u]}

Ordered(R) == [k \in 1..Cardinality(ReadyUsers(R)) |->
    CHOOSE u \in ReadyUsers(R) : Cardinality(Ahead(u, R)) = k - 1]

Requests(u, o) ==
    CASE o = "add"    -> Adds[u]
      [] o = "drain"  -> sessions[u]
      [] o = "search" -> [k \in 1..Searches[u] |-> k]

InitialRemaining(R) == [i \in Instances |-> IF i \in R THEN Cardinality(At(i)) ELSE 0]

\* Some instances may have failed their set-up: their users are left out.
Init ==
    /\ pc = "running"
    /\ operation = "add"
    /\ ready \in SUBSET Instances
    /\ queue = Adds
    /\ pending = Ordered(ready)
    /\ turn = Len(pending)
    /\ done = {}
    /\ due = Users
    /\ fut = [u \in Users |-> "none"]
    /\ current = [u \in Users |-> 0]
    /\ inflight = [i \in Instances |-> 0]
    /\ remaining = InitialRemaining(ready)
    /\ sessions = [u \in Users |-> <<>>]
    /\ unflushed = [u \in Users |-> {}]
    /\ events = [u \in Users |-> [o \in Operations |-> 0]]
    /\ invoked = [u \in Users |-> [o \in Operations |-> 0]]
    /\ bad = [u \in Users |-> {}]

PhaseOver == pc = "running" /\ turn = 0 /\ done = {} /\ pending = <<>> /\ Futures = {}

After(o) == IF o = "add" /\ Drains THEN "drain" ELSE "search"

StartPhase(o, R) ==
    /\ operation' = o
    /\ ready' = R
    /\ queue' = [u \in Users |-> Requests(u, o)]
    /\ pending' = Ordered(R)
    /\ turn' = Len(pending')
    /\ due' = Users
    /\ remaining' = InitialRemaining(R)
    /\ inflight' = [i \in Instances |-> 0]
    /\ UNCHANGED <<pc, done, fut, current, results>>

\* set_phase("qa") precedes the search phase; an instance it fails on is left
\* out of it.
NextPhase ==
    /\ PhaseOver
    /\ operation # "search"
    /\ \/ StartPhase(After(operation), ready)
       \/ /\ After(operation) = "search"
          /\ \E R \in SUBSET ready \ {ready} : StartPhase("search", R)

Report ==
    /\ PhaseOver
    /\ operation = "search"
    /\ pc' = "completed"
    /\ UNCHANGED <<operation, ready, queue, loop, due, fut, current, books, results>>

-----------------------------------------------------------------------------
(* One pass over the waiting users *)

\* Mutant: an exhausted instance keeps its reservation.
IdleWhateverRemains(i) == inflight[i] = 0

\* An instance with work left and no worker has a slot reserved for it.
Idle(i) == remaining[i] > 0 /\ inflight[i] = 0

Reserved(i) == Cardinality({j \in Instances \ {i} : Idle(j)})

\* Mutant: no slot is reserved for the instances without a worker.
BlockedUnlessFull(u) ==
    LET i == InstanceOf[u] IN
    \/ Cardinality(Futures) >= MaxWorkers
    \/ Cardinality(Active) > MaxWorkers /\ inflight[i] > 0
    \/ inflight[i] >= MaxInflight[i]

Blocked(u) ==
    LET i == InstanceOf[u] IN
    \/ Cardinality(Futures) >= MaxWorkers
    \/ Cardinality(Active) <= MaxWorkers /\ Cardinality(Futures) >= MaxWorkers - Reserved(i)
    \/ Cardinality(Active) > MaxWorkers /\ inflight[i] > 0
    \/ inflight[i] >= MaxInflight[i]

Visiting == pc = "running" /\ turn > 0

PutBack ==
    /\ Visiting
    /\ LET u == Head(pending) IN Blocked(u) \/ (queue[u] # <<>> /\ u \notin due)
    /\ pending' = Append(Tail(pending), Head(pending))
    /\ turn' = turn - 1
    /\ UNCHANGED <<pc, operation, ready, queue, done, due, fut, current, books, results>>

\* The queue of the user is exhausted: it leaves the deque for good.
Retire ==
    /\ Visiting
    /\ LET u == Head(pending) IN
        /\ ~Blocked(u)
        /\ queue[u] = <<>>
        /\ remaining' = [remaining EXCEPT ![InstanceOf[u]] = @ - 1]
    /\ pending' = Tail(pending)
    /\ turn' = turn - 1
    /\ UNCHANGED <<pc, operation, ready, queue, done, due, fut, current, inflight, results>>

\* A rate delays the user's next request, whatever becomes of this one.
Launch ==
    /\ Visiting
    /\ LET u == Head(pending) IN
        /\ ~Blocked(u)
        /\ queue[u] # <<>>
        /\ u \in due
        /\ due' = IF u \in Paced /\ operation # "drain" THEN due \ {u} ELSE due
        /\ fut' = [fut EXCEPT ![u] = "running"]
        /\ current' = [current EXCEPT ![u] = Head(queue[u])]
        /\ queue' = [queue EXCEPT ![u] = Tail(@)]
        /\ inflight' = [inflight EXCEPT ![InstanceOf[u]] = @ + 1]
    /\ pending' = Tail(pending)
    /\ turn' = turn - 1
    /\ UNCHANGED <<pc, operation, ready, done, remaining, results>>

\* The pass is over: wait() for a future, or for its timeout.
Wait ==
    /\ pc = "running"
    /\ turn = 0
    /\ done = {}
    /\ Futures # {}
    /\ done' = Finished
    /\ turn' = IF Finished = {} THEN Len(pending) ELSE 0
    /\ UNCHANGED <<pc, operation, ready, queue, pending, due, fut, current, books, results>>

Sleep ==
    /\ pc = "running"
    /\ turn = 0
    /\ done = {}
    /\ Futures = {}
    /\ pending # <<>>
    /\ turn' = Len(pending)
    /\ UNCHANGED <<pc, operation, ready, queue, pending, done, due, fut, current, books, results>>

\* One more request of the user and the phase.
Counted(counts, u) ==
    [counts EXCEPT ![u] = [counts[u] EXCEPT ![operation] = counts[u][operation] + 1]]

Record(u) ==
    /\ fut' = [fut EXCEPT ![u] = "none"]
    /\ current' = [current EXCEPT ![u] = 0]
    /\ inflight' = [inflight EXCEPT ![InstanceOf[u]] = @ - 1]
    /\ events' = Counted(events, u)
    /\ bad' = [bad EXCEPT ![u] = IF fut[u] = "failed" THEN @ \cup {operation} ELSE @]

Collect(u) ==
    /\ pc = "running"
    /\ u \in done
    /\ done' = done \ {u}
    /\ Record(u)
    /\ pending' = Append(pending, u)
    /\ turn' = IF done' = {} THEN Len(pending') ELSE 0
    /\ UNCHANGED <<pc, operation, ready, queue, due, remaining, sessions, unflushed, invoked>>

-----------------------------------------------------------------------------
(* An interrupt *)

\* Mutant: the futures of an interrupted phase are dropped.
InterruptDropsAll ==
    /\ pc = "running"
    /\ pc' = "stopping"
    /\ turn' = 0
    /\ done' = {}
    /\ fut' = [u \in Users |-> "none"]
    /\ UNCHANGED <<operation, ready, queue, pending, due, current, books, results>>

\* A signal reaches the coordinator: the futures that no worker happens to have
\* taken up are cancelled, the others run to their end.
Interrupt ==
    /\ pc = "running"
    /\ pc' = "stopping"
    /\ turn' = 0
    /\ done' = {}
    /\ \E cancelled \in SUBSET {u \in Users : fut[u] = "running"} :
          fut' = [u \in Users |-> IF u \in cancelled THEN "none" ELSE fut[u]]
    /\ UNCHANGED <<operation, ready, queue, pending, due, current, books, results>>

\* The pool is shut down and then every future not cancelled is collected.
CollectLate(u) ==
    /\ pc = "stopping"
    /\ \A v \in Users : fut[v] # "running"
    /\ u \in Finished
    /\ Record(u)
    /\ pending' = Append(pending, u)
    /\ UNCHANGED <<pc, operation, ready, queue, turn, done, due, remaining, sessions,
                   unflushed, invoked>>

ReportInterrupted ==
    /\ pc = "stopping"
    /\ Futures = {}
    /\ pc' = "interrupted"
    /\ UNCHANGED <<operation, ready, queue, loop, due, fut, current, books, results>>

-----------------------------------------------------------------------------
(* The workers, and the clock *)

\* Mutant: a user has one session, that of its last add.
RememberLast(u) == <<current[u]>>

\* self.sessions is a dictionary: writing to a session again keeps its place.
Remember(u) ==
    IF current[u] \in ToSet(sessions[u]) THEN sessions[u] ELSE Append(sessions[u], current[u])

Succeed(u) ==
    /\ fut[u] = "running"
    /\ fut' = [fut EXCEPT ![u] = "ok"]
    /\ invoked' = Counted(invoked, u)
    /\ sessions' = [sessions EXCEPT ![u] = IF operation = "add" THEN Remember(u) ELSE @]
    /\ unflushed' = [unflushed EXCEPT ![u] =
            CASE operation = "add"    -> @ \cup {current[u]}
              [] operation = "drain"  -> @ \ {current[u]}
              [] operation = "search" -> @]
    /\ UNCHANGED <<pc, operation, ready, queue, loop, due, current, books, events, bad>>

Failing == {u \in Users : bad[u] # {} \/ fut[u] = "failed"}

\* An exception or a timeout of any request is an event like another.
Fail(u) ==
    /\ fut[u] = "running"
    /\ Cardinality(Failing \cup {u}) <= MaxUsersFailed
    /\ fut' = [fut EXCEPT ![u] = "failed"]
    /\ invoked' = Counted(invoked, u)
    /\ UNCHANGED <<pc, operation, ready, queue, loop, due, current, books, sessions,
                   unflushed, events, bad>>

\* The ready_at of a user comes.
ComesDue(u) ==
    /\ pc = "running"
    /\ u \notin due
    /\ due' = due \cup {u}
    /\ UNCHANGED <<pc, operation, ready, queue, loop, fut, current, books, results>>

-----------------------------------------------------------------------------
Coordinator ==
    \/ NextPhase
    \/ Report
    \/ PutBack
    \/ Retire
    \/ Launch
    \/ Wait
    \/ Sleep
    \/ ReportInterrupted
    \/ \E u \in Users : Collect(u) \/ CollectLate(u)

Worker(u) == Succeed(u) \/ Fail(u)

Terminated == pc \in {"completed", "interrupted"} /\ UNCHANGED vars

Next ==
    \/ Coordinator
    \/ Interrupt
    \/ \E u \in Users : Worker(u) \/ ComesDue(u)
    \/ Terminated

Spec == Init /\ [][Next]_vars

\* The coordinator keeps running, every request ends by its timeout, time passes.
Fairness ==
    /\ WF_vars(Coordinator)
    /\ \A u \in Users : WF_vars(Worker(u)) /\ WF_vars(ComesDue(u))

FairSpec == Spec /\ Fairness

-----------------------------------------------------------------------------
(* Safety *)

\* The pool and the slots of each instance are never oversubscribed, and the
\* books of the loop are exact: inflight counts the futures of the instance and
\* remaining_users its users not yet retired (Replay.phase, 227-261).
BoundedInflight ==
    /\ Cardinality(Futures) <= MaxWorkers
    /\ pc = "running" => \A i \in Instances :
          /\ inflight[i] = Cardinality({u \in Futures : InstanceOf[u] = i})
          /\ inflight[i] <= MaxInflight[i]
          /\ remaining[i] = Cardinality({u \in At(i) : u \in Futures \/ u \in ToSet(pending)})

\* No instance is crowded out: while there are as many workers as instances with
\* work left, each of these has a worker or a free one waiting for it, also when
\* instances run out of work one after the other (Replay.phase, 245-254).
ReservedSlot ==
    pc = "running" /\ Cardinality(Active) <= MaxWorkers =>
        Cardinality({i \in Instances : Idle(i)}) <= MaxWorkers - Cardinality(Futures)

\* The books of the loop are exact and every instance gets its share.
SlotsInv == TypeOK /\ BoundedInflight /\ ReservedSlot

\* A search never races with a memory write of its user that was accepted and
\* not drained, unless a drain is reported as failed (run_multi_user, 401-407).
NothingUnflushed ==
    Drains /\ operation = "search" => \A u \in Users :
        unflushed[u] # {} /\ InstanceOf[u] \in ready => "drain" \in bad[u]

UserStatus(u) ==
    CASE InstanceOf[u] \notin ready -> "setup_failed"
      [] InstanceOf[u] \in ready /\ pc # "completed" -> "interrupted"
      [] InstanceOf[u] \in ready /\ pc = "completed" ->
            IF bad[u] \cap {"add", "drain"} # {} THEN "partially_written"
            ELSE IF "search" \in bad[u] THEN "failed" ELSE "completed"

\* The report counts every request that was made, however the run ended, and a
\* user it calls completed has had every request of its files answered and every
\* session drained (Replay.phase, 285-288; Replay.report, 293-310).
ReportIsHonest ==
    pc \in {"completed", "interrupted"} => \A u \in Users :
        /\ events[u] = invoked[u]
        /\ UserStatus(u) = "completed" =>
              /\ events[u]["add"] = Len(Adds[u])
              /\ events[u]["search"] = Searches[u]
              /\ Drains => unflushed[u] = {} /\ events[u]["drain"] = Len(sessions[u])

-----------------------------------------------------------------------------
(* Liveness *)

\* No user is starved or forgotten, whatever the rates and the limits: the run
\* ends, and unless it was interrupted every user of a ready instance has made
\* all its requests (Replay.phase, 242-281).
EveryoneServed ==
    <>( \/ pc = "interrupted"
        \/ pc = "completed" /\ \A u \in Users : InstanceOf[u] \in ready =>
               events[u]["add"] = Len(Adds[u]) /\ events[u]["search"] = Searches[u])
=============================================================================
