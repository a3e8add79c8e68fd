----------------------------- MODULE TokenLedger -----------------------------
(***************************************************************************)
(* Token accounting: evidence of several kinds is appended to shards while *)
(* a run goes on, and rebuild selects from them, at any later time, what   *)
(* counts.  No two kinds of evidence share a record, so that a behaviour   *)
(* has one:                                                                *)
(*                                                                         *)
(*   agent    the response of an attempt and the lines its session grew by *)
(*   task     an OpenViking task, observed by each wait for it             *)
(*   counter  counters of oGMemory before and after the run                *)
(*   proxy    the requests in the window of a run on the proxy's audit     *)
(*                                                                         *)
(* Tokens are represented by the calls they are the tokens of: what counts *)
(* is a set of calls, and what counts twice is seen.                       *)
(***************************************************************************)
EXTENDS TokenProxy, SequencesExt

CONSTANTS
    NumAttempts,  \* agent attempts in one session
    NumCalls,     \* model calls of an attempt, and calls a counter counts
    NumPolls      \* waits for a task

Sources == {"agent", "task", "counter", "proxy"}

Attempts == 1..NumAttempts
Calls == {Call("agent", a, i) : a \in Attempts, i \in 1..NumCalls}
             \cup {Call("task", 1, 0)} \cup {Call("counter", i, 0) : i \in 1..NumCalls}
             \cup {RequestCall(q) : q \in Prompts}

ASSUME LedgerAssumption ==
    /\ IsFiniteSet(Runs) /\ Runs # {} /\ NoRun \notin Runs
    /\ IsFiniteSet(Prompts)
    /\ {NumAttempts, NumCalls, NumPolls} \subseteq Nat \ {0}
    /\ MaxTrouble \in [Sources -> Nat]
    /\ \A use \in SUBSET Calls : use # Missing

VARIABLES
    rows,     \* the shards, in the order of their timestamps
    session,  \* the transcript: its inode and its lines
    att,      \* each attempt: where it is, its offset, the lines it has read
    gateway,  \* for each attempt, the calls made; those it still works on
    counter,  \* [gen, n, ever]: container, its counter; ever is history
    began     \* history: requests begun in the open window of each run

agentVars == <<session, att, gateway>>
ledgerVars == <<source, faults, proxyVars, run, rows, agentVars, counter, began>>

Row(r, id, revision, granularity, selected, use) ==
    [run |-> r, id |-> id, revision |-> revision, granularity |-> granularity,
     selected |-> selected, use |-> use]

NoStart == [id |-> 0, offset |-> 0]
NoCounter == [gen |-> 0, n |-> 0, ever |-> 0]
Idle == [at |-> "idle", start |-> NoStart, seen |-> NoCounter, before |-> NoCounter,
         after |-> NoCounter]
NoOffset == [ino |-> -1, size |-> 0]

LedgerInit ==
    /\ source \in Sources
    /\ ProxyInit
    /\ run = [r \in Runs |-> Idle]
    /\ rows = <<>>
    /\ session = [ino |-> 0, lines |-> <<>>]
    /\ att = [a \in Attempts |-> [at |-> "none", before |-> NoOffset, read |-> {}]]
    /\ gateway = [made |-> [a \in Attempts |-> 0], on |-> {}]
    /\ counter = [gen |-> 1, n |-> 0, ever |-> 0]
    /\ began = [r \in Runs |-> {}]

TheRun == CHOOSE r \in Runs : TRUE

(***************************************************************************)
(* rebuild: of the rows of one record, the highest revision and of those   *)
(* the first; of a task or a run, the last, unless it has lost its usage.  *)
(***************************************************************************)
\* Mutant: a later row replaces an earlier one.
LastWins(R) == rows[CHOOSE i \in R : \A j \in R : j <= i]

Winner(R) ==
    LET Top == {i \in R : \A j \in R : rows[j].revision <= rows[i].revision}
        Known == {i \in R : rows[i].use # Missing}
    IN  IF \E i \in R : rows[i].granularity \in {"task", "run"}
          THEN LET S == IF Known = {} THEN R ELSE Known
               IN rows[CHOOSE i \in S : \A j \in S : j <= i]
          ELSE rows[CHOOSE i \in Top : \A j \in Top : i <= j]

Records == {<<rows[i].run, rows[i].id>> : i \in DOMAIN rows}
Selected(record) == Winner({i \in DOMAIN rows : <<rows[i].run, rows[i].id>> = record})
IsCounted(record) == Selected(record).selected /\ Selected(record).use # Missing
Counted == UNION {Selected(x).use : x \in {y \in Records : IsCounted(y)}}

\* A row that cannot be appended is lost; what is measured goes on.
Log(new) ==
    \/ rows' = rows \o new /\ Fine
    \/ /\ Len(new) > 0 /\ Trouble
       /\ \E i \in DOMAIN new : rows' = rows \o RemoveAt(new, i)

\* normalize_usage of a report on some calls: their tokens, or nothing that can
\* be used (a field is absent, or its total contradicts its parts).
Usages(calls) == {calls, Missing}

(***************************************************************************)
(* An attempt of the agent: capture_agent.  The session it uses is used by *)
(* one attempt at a time, but for the gateway that goes on with attempts   *)
(* that were given up.                                                     *)
(***************************************************************************)
AttemptRow(a, revision, selected, use) ==
    Row(TheRun, <<"agent", a, 0>>, revision, "agent_attempt", selected, use)

\* The transcript may not be the file, or the folder, that is looked at.
Offsets == {[ino |-> session.ino, size |-> Len(session.lines)], NoOffset}

Begin(a) ==
    /\ source = "agent" /\ att[a].at = "none"
    /\ \A b \in Attempts : b < a => att[b].at = "over"
    /\ \E offset \in Offsets :
          att' = [att EXCEPT ![a].at = "calling", ![a].before = offset]
    /\ Log(<<AttemptRow(a, 0, TRUE, Missing)>>)
    /\ gateway' = [gateway EXCEPT !.on = @ \cup {a}]
    /\ UNCHANGED <<source, proxyVars, run, session, counter, began>>

\* The line of a call is in the transcript before the answer is sent.
GatewayCalls(a) ==
    /\ a \in gateway.on /\ gateway.made[a] < NumCalls
    /\ gateway' = [gateway EXCEPT !.made[a] = @ + 1]
    /\ session' = [ino |-> IF session.ino = 0 THEN 1 ELSE session.ino,
                   lines |-> Append(session.lines,
                                    Call("agent", a, gateway.made[a] + 1))]
    /\ Fine
    /\ UNCHANGED <<source, proxyVars, run, rows, att, counter, began>>

GatewayAnswers(a) ==
    /\ a \in gateway.on /\ gateway.made[a] > 0
    /\ gateway' = [gateway EXCEPT !.on = @ \ {a}]
    /\ att' = [att EXCEPT ![a].at = IF @ = "calling" THEN "answered" ELSE @]
    /\ Fine
    /\ UNCHANGED <<source, proxyVars, run, rows, session, counter, began>>

GiveUp(a) ==
    /\ att[a].at = "calling" /\ Trouble
    /\ att' = [att EXCEPT ![a].at = "failed"]
    /\ UNCHANGED <<source, proxyVars, run, rows, session, gateway, counter, began>>

\* The transcript is replaced by another file.
Rotate ==
    /\ source = "agent" /\ session.ino # 0 /\ Trouble
    /\ session' = [ino |-> session.ino + 1, lines |-> <<>>]
    /\ UNCHANGED <<source, proxyVars, run, rows, att, gateway, counter, began>>

\* The lines since the offset; none without one, or in another file.  A file
\* that was not there is read from its beginning.
NewLines(a) ==
    LET b == att[a].before
    IN  CASE b.ino = 0 -> session.lines
          [] session.ino # 0 /\ b.ino = session.ino /\ b.size <= Len(session.lines) ->
                SubSeq(session.lines, b.size + 1, Len(session.lines))
          [] OTHER -> <<>>

CollectLines(a) ==
    /\ att[a].at \in {"answered", "failed"}
    /\ Log([i \in DOMAIN NewLines(a) |->
              Row(TheRun, NewLines(a)[i], -1, "request", TRUE, {NewLines(a)[i]})])
    /\ att' = [att EXCEPT ![a].at = IF @ = "answered" THEN "summed" ELSE "unsummed",
                          ![a].read = ToSet(NewLines(a))]
    /\ UNCHANGED <<source, proxyVars, run, session, gateway, counter, began>>

Summary(a) ==
    IF att[a].at = "summed"
      THEN Usages({Call("agent", a, i) : i \in 1..gateway.made[a]}) ELSE {Missing}

\* Mutant: the response counts, whatever was read from the session.
CollectBoth(a) ==
    /\ att[a].at \in {"summed", "unsummed"}
    /\ \E use \in Summary(a) : Log(<<AttemptRow(a, 1, TRUE, use)>>)
    /\ att' = [att EXCEPT ![a].at = "over"]
    /\ UNCHANGED <<source, proxyVars, run, session, gateway, counter, began>>

\* The usage of the whole response overlaps with that of its lines.
CollectResponse(a) ==
    /\ att[a].at \in {"summed", "unsummed"}
    /\ \E use \in Summary(a) : Log(<<AttemptRow(a, 1, att[a].read = {}, use)>>)
    /\ att' = [att EXCEPT ![a].at = "over"]
    /\ UNCHANGED <<source, proxyVars, run, session, gateway, counter, began>>

(***************************************************************************)
(* A task, whose result each wait that sees its end reports, with usage or *)
(* without.                                                                *)
(***************************************************************************)
ObserveTask ==
    /\ source = "task" /\ Len(rows) < NumPolls
    /\ \E use \in Usages({Call("task", 1, 0)}) :
          rows' = Append(rows, Row(TheRun, <<"task", 1, 0>>, -1, "task", TRUE, use))
    /\ Fine
    /\ UNCHANGED <<source, proxyVars, run, agentVars, counter, began>>

(***************************************************************************)
(* The counters of a container, which a restart sets to zero.              *)
(***************************************************************************)
BackendCalls ==
    /\ source = "counter" /\ counter.ever < NumCalls
    /\ counter' = [counter EXCEPT !.n = @ + 1, !.ever = @ + 1]
    /\ Fine
    /\ UNCHANGED <<source, proxyVars, run, rows, agentVars, began>>

BackendRestarts ==
    /\ source = "counter" /\ Trouble
    /\ counter' = [counter EXCEPT !.gen = @ + 1, !.n = 0]
    /\ UNCHANGED <<source, proxyVars, run, rows, agentVars, began>>

Moves(r, from, to) == run[r].at = from /\ run' = [run EXCEPT ![r] = to]
CounterStep == source = "counter" /\ Fine
               /\ UNCHANGED <<source, proxyVars, rows, agentVars, counter, began>>

\* A snapshot reads the container's generation, the counters, and it again.
Snapshot(r, from, named, read, done) ==
    \/ Moves(r, from, [run[r] EXCEPT !.at = named, !.seen.gen = counter.gen])
    \/ Moves(r, named, [run[r] EXCEPT !.at = read, !.seen.n = counter.n,
                                      !.seen.ever = counter.ever])
    \/ Moves(r, read, done)

CounterSnapshot(r) ==
    LET seen == IF counter.gen = run[r].seen.gen THEN run[r].seen ELSE NoCounter
    IN  /\ CounterStep /\ r = TheRun
        /\ \/ Snapshot(r, "idle", "before1", "before2",
                       [run[r] EXCEPT !.at = "before", !.before = seen])
           \/ Snapshot(r, "before", "after1", "after2",
                       [run[r] EXCEPT !.at = "after", !.after = seen])

RecordWindow(r) ==
    LET b == run[r].before
        a == run[r].after
        usable == NoCounter \notin {a, b} /\ a.gen = b.gen /\ a.n >= b.n
    IN  /\ source = "counter" /\ run[r].at = "after"
        /\ run' = [run EXCEPT ![r].at = "closed"]
        /\ rows' = Append(rows,
              Row(r, <<"counter", 1, 0>>, -1, "run", TRUE,
                  IF usable THEN {Call("counter", i, 0) : i \in b.n + 1 .. a.n}
                            ELSE Missing))
        /\ Fine
        /\ UNCHANGED <<source, proxyVars, agentVars, counter, began>>

(***************************************************************************)
(* The window of a run on the audit of the proxy: token_proxy_audit.       *)
(***************************************************************************)
Here == [id |-> audit.id, offset |-> Len(audit.log)]
ProxyStep == source = "proxy" /\ Fine
             /\ UNCHANGED <<source, proxyVars, rows, agentVars, counter, began>>

Look(r) ==
    ProxyStep /\ Moves(r, "idle", [run[r] EXCEPT !.at = "looked", !.start = Here])

\* run-owner.json is created or the run goes without accounting.
Claim(r) ==
    /\ source = "proxy" /\ Fine
    /\ IF audit.owner = NoRun
         THEN /\ Moves(r, "looked", [run[r] EXCEPT !.at = "claimed"])
              /\ audit' = [audit EXCEPT !.owner = r]
         ELSE Moves(r, "looked", [run[r] EXCEPT !.at = "failed"]) /\ UNCHANGED audit
    /\ UNCHANGED <<source, post, rows, agentVars, counter, began>>

Started(log) == {log[i].request : i \in {j \in DOMAIN log : log[j].event = "started"}}
Finished(log) == {log[i].request : i \in {j \in DOMAIN log : log[j].event = "finished"}}

\* A second look, under the claim; the proxy must be idle.
OpenWindow(r) ==
    /\ ProxyStep
    /\ Moves(r, "claimed",
          IF Started(audit.log) \subseteq Finished(audit.log)
            THEN [run[r] EXCEPT !.at = "open", !.start = Here]
            ELSE [run[r] EXCEPT !.at = "failed"])

\* A request the run has to answer for begins.
BeginsInWindow(q) ==
    began' = [r \in Runs |->
                 IF run[r].at = "open" /\ run[r].start.id = audit.id
                    /\ q \in Started(audit'.log) \ Started(audit.log)
                 THEN began[r] \cup {q} ELSE began[r]]

Once(log, ev) ==
    \A i, j \in DOMAIN log :
        log[i].event = ev /\ log[j] = [log[i] EXCEPT !.use = log[j].use] => i = j

WindowRow(r, log, q) ==
    LET ends == {e \in ToSet(log) : e.event = "finished" /\ e.request = q}
    IN  Row(r, <<"proxy", q, 0>>, IF ends = {} THEN 0 ELSE 1, "request", TRUE,
            IF ends = {} THEN Missing ELSE (CHOOSE e \in ends : TRUE).use)

\* The lines of the audit from one position on.
From(offset) == SubSeq(audit.log, offset + 1, Len(audit.log))

\* The places of the start events of a log, in the order they have there.
StartsInOrder(log) ==
    LET S == {i \in DOMAIN log : log[i].event = "started"}
    IN  {f \in [1..Cardinality(S) -> S] :
            S \subseteq Range(f) /\ \A i, j \in DOMAIN f : i < j => f[i] < f[j]}

Usable(r, log) ==
    /\ audit.owner = r /\ audit.id = run[r].start.id
    /\ Once(log, "started") /\ Once(log, "finished")
    /\ Finished(log) \subseteq Started(log)

CloseWindow(r) ==
    LET log == From(run[r].start.offset)
    IN  /\ source = "proxy" /\ Fine
        /\ IF Usable(r, log)
             THEN /\ Moves(r, "open", [run[r] EXCEPT !.at = "closed"])
                  /\ \E f \in StartsInOrder(log) :
                        rows' = rows \o [i \in DOMAIN f |->
                                            WindowRow(r, log, log[f[i]].request)]
             ELSE /\ Moves(r, "open", [run[r] EXCEPT !.at = "failed"])
                  /\ UNCHANGED rows
        /\ UNCHANGED <<source, proxyVars, agentVars, counter, began>>

\* The process of a run, or of an attempt, is killed.
Kill ==
    /\ Trouble
    /\ \/ /\ source \in {"counter", "proxy"}
          /\ \E r \in Runs : Moves(r, run[r].at, [run[r] EXCEPT !.at = "dead"])
          /\ UNCHANGED att
       \/ /\ source = "agent"
          /\ att' = [a \in Attempts |-> [att[a] EXCEPT !.at = "over"]]
          /\ UNCHANGED run
    /\ UNCHANGED <<source, proxyVars, rows, session, gateway, counter, began>>

ProxyMoves ==
    /\ \/ \E q \in Prompts : Receive(q) /\ BeginsInWindow(q)
       \/ /\ \E q \in Prompts : ModelAnswers(q) \/ Finish(q) \/ Reply(q)
          /\ UNCHANGED began
       \/ Replace /\ UNCHANGED began
    /\ UNCHANGED <<rows, agentVars, counter>>

LedgerNext ==
    \/ \E a \in Attempts :
          \/ Begin(a) \/ GatewayCalls(a) \/ GatewayAnswers(a) \/ GiveUp(a)
          \/ CollectLines(a) \/ CollectResponse(a)
    \/ Rotate \/ ObserveTask \/ BackendCalls \/ BackendRestarts \/ ProxyMoves \/ Kill
    \/ \E r \in Runs :
          CounterSnapshot(r) \/ RecordWindow(r)
          \/ Look(r) \/ Claim(r) \/ OpenWindow(r) \/ CloseWindow(r)

LedgerSpec == LedgerInit /\ [][LedgerNext]_ledgerVars

-----------------------------------------------------------------------------
LedgerTypeOK ==
    /\ source \in Sources
    /\ faults \in 0..MaxTrouble[source]
    /\ \A i \in DOMAIN rows : rows[i].revision \in {-1, 0, 1} /\ rows[i].run \in Runs
    /\ audit.owner \in Runs \cup {NoRun}
    /\ gateway.on \subseteq Attempts

\* No call is counted by two records: neither by a response and the lines of its
\* session, nor by two attempts of which one read what the other, given up or
\* not, left in the session, nor by two runs on one proxy.
NoCallTwice ==
    \A x, y \in {z \in Records : IsCounted(z)} :
        x # y => Selected(x).use \cap Selected(y).use = {}

\* What the report counts once, it counts in every later report: more evidence,
\* of whatever revision, kind and completeness, takes nothing away.
CountedNeverShrinks == [][Counted \subseteq Counted']_ledgerVars

\* A window has all that happened in it and nothing else: the requests that began
\* between its two ends on the proxy, the calls between two snapshots of one
\* container, although containers, proxies and runs restart in between.
WindowsAreExact ==
    \A r \in Runs : run[r].at = "closed" =>
        IF source = "proxy"
        THEN {x[2][2] : x \in {y \in Records : y[1] = r}} = began[r]
        ELSE \A x \in Records : x[1] = r /\ IsCounted(x) =>
                Cardinality(Selected(x).use) = run[r].after.ever - run[r].before.ever

\* Nothing is counted twice, and nothing in the wrong window.
LedgerInv == LedgerTypeOK /\ NoCallTwice /\ WindowsAreExact

\* An answer the client has got with its usage when the window is closed counts:
\* only an event that could not be written is missing, and then it is known to be.
DeliveredIsCharged ==
    [][\A r \in Runs : run[r].at = "open" /\ run'[r].at = "closed" =>
          {RequestCall(q) : q \in {x \in began[r] : post[x] = "delivered"}}
             \subseteq Counted']_ledgerVars
=============================================================================
