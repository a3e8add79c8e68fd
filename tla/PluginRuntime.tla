---------------------------- MODULE PluginRuntime ----------------------------
(***************************************************************************)
(* The memory plugins of OpenClaw a run controls through memory-plugin/1:  *)
(*                                                                         *)
(*   openviking  writes the settings of a shared OpenClaw one by one and   *)
(*               puts back what a snapshot in the run directory says;      *)
(*   ogmemory    owns a dedicated runtime, restarts its gateway on every   *)
(*               change and commits each session to the backend;           *)
(*   mem0        owns a dedicated runtime too, under a file lock, and lets *)
(*               one request at a time through.                            *)
(*                                                                         *)
(* A command is one process; its steps on disk and on the gateway are      *)
(* actions, and any of them may fail or be the last one of a killed run.   *)
(* Commands of two runs do not overlap: mem0 locks, the others say they    *)
(* must not be used that way.  A command that is refused changes nothing   *)
(* and is not an action.                                                   *)
(***************************************************************************)
EXTENDS Integers, Sequences, FiniteSets

CONSTANTS
    Runs,       \* runs that use the plugin, one after the other or together
    NoRun,      \* no run: the operator
    Instances   \* what a behaviour is of: a plugin, the samples of a run, the
                \* agent requests of a sample and phase, and a bound on the
                \* failures, kills and calls that are given up

Plugins == {"openviking", "ogmemory", "mem0"}

ASSUME PluginAssumption ==
    /\ IsFiniteSet(Runs) /\ NoRun \notin Runs
    /\ Instances \subseteq [plugin : Plugins, scopes : Nat \ {0},
                             turns : Nat \ {0}, trouble : Nat]

VARIABLES
    instance,  \* the plugin and the sizes of this behaviour
    conf,      \* its entry in openclaw.json
    gate,      \* the entry the gateway runs with
    st,        \* phase.json of a dedicated runtime
    snapshot,  \* the snapshot in the run directory (openviking), a sequence
    cmd,       \* the command that runs: whose, which, the steps it still has
    life,      \* idle, live, or how its finalize ended
    pos,       \* the user and phase the run was told are in force (pos.n is 0)
    turn,      \* the agent request of each run, and where it is
    asked,     \* requests the gateway has a session of
    inflight,  \* requests the gateway works on
    pending,   \* answered requests it has still to capture
    marks,     \* native receipts logged since the latest before_agent
    store,     \* what the memory of each user was given
    task,      \* the commit of each session: compacting, outbox, done, failed
    recalled,  \* requests that were given memories, and whose
    checked,   \* requests after_agent reported as checked
    faults, left \* history: trouble; a request was left running

memory == <<store, task, recalled>>
gateway == <<gate, asked, inflight, pending, marks>>
history == <<checked, left>>
vars == <<instance, conf, gateway, st, snapshot, cmd, life, pos, turn, memory,
          history, faults>>

plugin == instance.plugin
Scopes == 1..instance.scopes
Users == Runs \X Scopes
Outside == <<NoRun, 0>>  \* the operator's user, or mbp-inactive
Turns == [user : Users, kind : {"ingest", "qa"}, n : 1..instance.turns]
NoTurn == [user |-> Outside, kind |-> "none", n |-> 0]

Entry(user, phase) ==
    [user |-> user, capture |-> phase = "ingest", recall |-> phase = "qa",
     commit |-> "manual"]
NoEntry == [user |-> Outside, capture |-> FALSE, recall |-> FALSE, commit |-> "none"]
Original == [user |-> Outside, capture |-> TRUE, recall |-> TRUE, commit |-> "auto"]
Idle == [by |-> NoRun, act |-> "none", steps |-> <<>>, st |-> [scope |-> 0], conf |-> NoEntry]
Fresh == [active |-> FALSE, owner |-> NoRun, scope |-> 0, phase |-> "inactive",
          loaded |-> NoEntry, lease |-> NoTurn, seen |-> {}]

Shared == plugin = "openviking"
\* A shared OpenClaw reads its settings as they are.
InForce == IF Shared THEN conf ELSE gate

Trouble == faults < instance.trouble /\ faults' = faults + 1
Fine == UNCHANGED faults

Init ==
    /\ instance \in Instances
    /\ conf = IF Shared THEN Original ELSE Entry(Outside, "inactive")
    /\ gate = conf
    /\ st = Fresh
    /\ snapshot = [r \in Runs |-> <<>>]
    /\ cmd = Idle
    /\ life = [r \in Runs |-> "idle"]
    /\ pos = [r \in Runs |-> NoTurn]
    /\ turn = [r \in Runs |-> [id |-> NoTurn, at |-> "none"]]
    /\ asked = {} /\ inflight = {} /\ pending = {} /\ marks = {}
    /\ store = [u \in Users \cup {Outside} |-> {}]
    /\ task = [t \in Turns |-> "none"]
    /\ recalled = {} /\ checked = {}
    /\ faults = 0 /\ left = FALSE

\* Two runs may hold on to a dedicated runtime; its owner check is for them.
Start(r) ==
    /\ life[r] = "idle"
    /\ Shared => \A q \in Runs : life[q] # "live"
    /\ life' = [life EXCEPT ![r] = "live"]
    /\ Fine
    /\ UNCHANGED <<instance, conf, gateway, st, snapshot, cmd, pos, turn, memory,
                   history>>

\* A run gives its next command when it waits for no answer of the agent.
MayCall(r) == cmd = Idle /\ life[r] = "live" /\ turn[r].at = "none"

Command(r, act, steps, newSt, newConf) ==
    cmd' = [by |-> r, act |-> act, steps |-> steps, st |-> newSt, conf |-> newConf]

(***************************************************************************)
(* The dedicated runtimes.  configure saves both files, restarts the       *)
(* gateway and waits until it has loaded them; the two plugins save the    *)
(* files in different order.                                               *)
(***************************************************************************)
Reconfigure ==
    IF plugin = "mem0" THEN <<"save state", "save config", "restart", "loaded">>
    ELSE <<"save config", "save state", "restart", "loaded">>

Foreign(r) == st.active /\ st.owner # r

PrepareDedicated(r, s) ==
    /\ ~Shared /\ MayCall(r) /\ ~Foreign(r)
    /\ plugin = "mem0" => /\ st.lease = NoTurn
                          /\ st.owner = r => s \notin st.seen
    /\ Command(r, "prepare", Reconfigure,
           [active |-> TRUE, owner |-> r, scope |-> s, phase |-> "ingest",
            loaded |-> NoEntry, lease |-> NoTurn,
            seen |-> IF st.owner = r THEN st.seen \cup {s} ELSE {s}],
           Entry(<<r, s>>, "ingest"))
    /\ Fine
    /\ UNCHANGED <<instance, conf, gateway, st, snapshot, life, pos, turn, memory,
                   history>>

\* mem0 leaves a runtime alone that is in the phase already, as it believes.
SetPhaseDedicated(r, phase) ==
    /\ ~Shared /\ MayCall(r) /\ st.active /\ st.owner = r
    /\ plugin = "mem0" => st.lease = NoTurn
    /\ Command(r, "set_phase",
           IF plugin = "mem0" /\ st.phase = phase THEN <<>> ELSE Reconfigure,
           [st EXCEPT !.phase = phase, !.loaded = NoEntry],
           Entry(<<st.owner, st.scope>>, phase))
    /\ Fine
    /\ UNCHANGED <<instance, conf, gateway, st, snapshot, life, pos, turn, memory,
                   history>>

\* ogmemory gives the runtime up before the restart, mem0 after it.
FinalizeDedicated(r) ==
    /\ ~Shared /\ MayCall(r)
    /\ IF plugin = "mem0" THEN st.owner = r ELSE ~Foreign(r)
    /\ Command(r, "finalize", Reconfigure,
           [st EXCEPT !.active = (plugin = "mem0" /\ @), !.phase = "inactive",
                      !.loaded = NoEntry],
           Entry(conf.user, "inactive"))
    /\ Fine
    /\ UNCHANGED <<instance, conf, gateway, st, snapshot, life, pos, turn, memory,
                   history>>

Step(name) == cmd.steps # <<>> /\ Head(cmd.steps) = name
NextStep == cmd' = [cmd EXCEPT !.steps = Tail(@)]

SaveState ==
    /\ Step("save state") /\ NextStep /\ Fine
    /\ st' = cmd.st
    /\ UNCHANGED <<instance, conf, gateway, snapshot, life, pos, turn, memory, history>>

SaveConfig ==
    /\ Step("save config") /\ NextStep /\ Fine
    /\ conf' = cmd.conf
    /\ UNCHANGED <<instance, gateway, st, snapshot, life, pos, turn, memory, history>>

\* docker restart ends what the gateway worked on and makes it read its file.
Restarted == gate' = conf /\ inflight' = {} /\ pending' = {}

\* Mutant: the gateway re-reads its file without a restart.
Reload ==
    /\ Step("restart") /\ NextStep /\ Fine
    /\ gate' = conf
    /\ UNCHANGED <<instance, conf, st, snapshot, life, pos, turn, asked, inflight,
                   pending, marks, memory, history>>

Restart ==
    /\ Step("restart") /\ NextStep /\ Fine
    /\ Restarted
    /\ UNCHANGED <<instance, conf, st, snapshot, life, pos, turn, asked, marks,
                   memory, history>>

\* The gateway answers (and says what it loaded): the runtime may be used.
Loaded ==
    /\ Step("loaded") /\ NextStep /\ Fine
    /\ st' = [st EXCEPT !.loaded = conf,
                 !.active = (@ /\ cmd.act # "finalize"),
                 !.lease = IF cmd.act = "finalize" THEN NoTurn ELSE @]
    /\ UNCHANGED <<instance, conf, gateway, snapshot, life, pos, turn, memory, history>>

(***************************************************************************)
(* The shared OpenClaw.  Every step sets one field by the openclaw command.*)
(***************************************************************************)
Set(field) ==
    /\ Step(field) /\ NextStep /\ Fine
    /\ conf' = [conf EXCEPT ![field] = cmd.conf[field]]
    /\ UNCHANGED <<instance, gateway, st, snapshot, life, pos, turn, memory, history>>

Fields == {"capture", "recall", "commit", "user"}
SetField == \E field \in Fields : Set(field)

\* Mutant: every prepare takes the snapshot.
PrepareSharedAgain(r, s) ==
    /\ Shared /\ MayCall(r)
    /\ Command(r, "prepare", <<"snapshot", "user">>, [scope |-> s],
           [conf EXCEPT !.user = <<r, s>>])
    /\ Fine
    /\ UNCHANGED <<instance, conf, gateway, st, snapshot, life, pos, turn, memory,
                   history>>

\* The snapshot is taken by the first prepare of a run directory.
PrepareShared(r, s) ==
    /\ Shared /\ MayCall(r)
    /\ Command(r, "prepare",
           IF snapshot[r] = <<>> THEN <<"snapshot", "user">> ELSE <<"user">>,
           [scope |-> s], [conf EXCEPT !.user = <<r, s>>])
    /\ Fine
    /\ UNCHANGED <<instance, conf, gateway, st, snapshot, life, pos, turn, memory,
                   history>>

WriteSnapshot ==
    /\ Step("snapshot") /\ NextStep /\ Fine
    /\ snapshot' = [snapshot EXCEPT ![cmd.by] = <<conf>>]
    /\ UNCHANGED <<instance, conf, gateway, st, life, pos, turn, memory, history>>

SetPhaseShared(r, phase) ==
    /\ Shared /\ MayCall(r) /\ pos[r].user # Outside
    /\ Command(r, "set_phase",
           IF phase = "ingest" THEN <<"capture", "recall", "commit">>
                               ELSE <<"capture", "recall">>,
           [scope |-> pos[r].user[2], phase |-> phase], Entry(pos[r].user, phase))
    /\ Fine
    /\ UNCHANGED <<instance, conf, gateway, st, snapshot, life, pos, turn, memory,
                   history>>

\* Without a snapshot there is nothing to restore.
FinalizeShared(r) ==
    /\ Shared /\ MayCall(r)
    /\ IF snapshot[r] = <<>>
         THEN Command(r, "finalize", <<>>, [scope |-> 0], NoEntry)
         ELSE Command(r, "finalize", <<"capture", "recall", "commit", "user">>,
                      [scope |-> 0], snapshot[r][1])
    /\ Fine
    /\ UNCHANGED <<instance, conf, gateway, st, snapshot, life, pos, turn, memory,
                   history>>

(***************************************************************************)
(* How a command ends, and how a run does.                                 *)
(***************************************************************************)
\* What the run now takes to be in force.
Told(r) ==
    CASE cmd.act = "prepare" ->
            [user |-> <<r, cmd.st.scope>>,
             kind |-> IF Shared THEN "none" ELSE "ingest", n |-> 0]
      [] cmd.act = "set_phase" -> [pos[r] EXCEPT !.kind = cmd.st.phase]
      [] OTHER -> pos[r]

Returns ==
    /\ cmd # Idle /\ cmd.steps = <<>> /\ Fine
    /\ pos' = [pos EXCEPT ![cmd.by] = Told(cmd.by)]
    /\ life' = [life EXCEPT ![cmd.by] =
                   IF cmd.act = "finalize" THEN "restored" ELSE @]
    /\ cmd' = Idle
    /\ UNCHANGED <<instance, conf, gateway, st, snapshot, turn, memory, history>>

\* A restart that fails or is cut off may have happened nonetheless.
MaybeRestarted ==
    \/ UNCHANGED <<gate, inflight, pending>>
    \/ (Step("restart") /\ Restarted)

\* The run believes in nothing the command was to bring about: the steps of the
\* sample that depend on it are skipped.
Fails ==
    /\ cmd # Idle /\ Trouble
    /\ MaybeRestarted
    /\ pos' = CASE cmd.act = "prepare"   -> [pos EXCEPT ![cmd.by] = NoTurn]
               [] cmd.act = "set_phase" -> [pos EXCEPT ![cmd.by].kind = "none"]
               [] OTHER -> pos
    /\ life' = [life EXCEPT ![cmd.by] = IF cmd.act = "finalize" THEN "failed" ELSE @]
    /\ cmd' = Idle
    /\ UNCHANGED <<instance, conf, asked, marks, st, snapshot, turn, memory, history>>

Refused(r) ==
    /\ ~Shared /\ MayCall(r)
    /\ IF plugin = "mem0" THEN st.owner # r ELSE Foreign(r)
    /\ life' = [life EXCEPT ![r] = "refused"]
    /\ Fine
    /\ UNCHANGED <<instance, conf, gateway, st, snapshot, cmd, pos, turn, memory,
                   history>>

Asking(r) == turn[r].at \in {"allowed", "calling"}

Kill(r) ==
    /\ life[r] = "live" /\ Trouble
    /\ life' = [life EXCEPT ![r] = "killed"]
    /\ IF cmd.by = r THEN MaybeRestarted /\ cmd' = Idle
                     ELSE UNCHANGED <<gate, inflight, pending, cmd>>
    /\ left' = (left \/ Asking(r))
    /\ turn' = [turn EXCEPT ![r].at = "none"]
    /\ UNCHANGED <<instance, conf, asked, marks, st, snapshot, pos, memory, checked>>

(***************************************************************************)
(* A request of the agent, between before_agent and after_agent.           *)
(***************************************************************************)
ToldOf(r, t) == pos[r].user = t.user /\ pos[r].kind = t.kind

\* The runtime belongs to the run, has loaded its files and is in the phase.
InPhase(r, t) ==
    /\ st.active /\ st.owner = r
    /\ st.loaded = conf
    /\ st.phase = t.kind /\ st.scope = t.user[2]
    /\ plugin = "ogmemory" => conf = Entry(t.user, t.kind)

\* Mutant: a request whose receipt is missing does not hold the next one up.
AllowedUnleased(r, t) ==
    IF Shared THEN ToldOf(r, t)
    ELSE InPhase(r, t) /\ (plugin = "mem0" => t \notin asked)

\* What the runtime must be for the request; openviking has no such check and
\* relies on the order in which its run goes on after success only.
Allowed(r, t) ==
    IF Shared THEN ToldOf(r, t)
    ELSE InPhase(r, t) /\ (plugin = "mem0" => st.lease = NoTurn /\ t \notin asked)

BeforeAgent(r, t) ==
    /\ MayCall(r) /\ t.user[1] = r
    /\ Allowed(r, t)
    /\ turn' = [turn EXCEPT ![r] = [id |-> t, at |-> "allowed"]]
    /\ marks' = {}
    /\ st' = IF plugin = "mem0" THEN [st EXCEPT !.lease = t] ELSE st
    /\ Fine
    /\ UNCHANGED <<instance, conf, gate, asked, inflight, pending, snapshot, cmd,
                   life, pos, memory, history>>

AgentCall(r) ==
    /\ turn[r].at = "allowed"
    /\ turn' = [turn EXCEPT ![r].at = "calling"]
    /\ asked' = asked \cup {turn[r].id}
    /\ inflight' = inflight \cup {turn[r].id}
    /\ Fine
    /\ UNCHANGED <<instance, conf, gate, pending, marks, st, snapshot, cmd, life, pos,
                   memory, history>>

\* The gateway answers with what it recalls, which may be nothing.  The context
\* engines of openviking and ogmemory capture the turn with it, the hook of mem0
\* after it.
GatewayAnswers(t) ==
    /\ t \in inflight
    /\ inflight' = inflight \ {t}
    /\ \/ /\ InForce.recall
          /\ recalled' = recalled \cup {<<t, InForce.user>>}
          /\ marks' = IF Shared THEN marks
                      ELSE marks \cup {[turn |-> t, hook |-> "recall"]}
       \/ ~InForce.recall /\ UNCHANGED <<recalled, marks>>
       \/ InForce.recall /\ plugin # "openviking" /\ UNCHANGED <<recalled, marks>>
    /\ IF plugin = "mem0"
         THEN pending' = pending \cup {t} /\ UNCHANGED store
         ELSE /\ UNCHANGED pending
              /\ store' = IF InForce.capture
                           THEN [store EXCEPT ![InForce.user] = @ \cup {t}] ELSE store
    /\ turn' = [r \in Runs |-> IF turn[r] = [id |-> t, at |-> "calling"]
                               THEN [id |-> t, at |-> "answered"] ELSE turn[r]]
    /\ Fine
    /\ UNCHANGED <<instance, conf, gate, asked, st, snapshot, cmd, life, pos, task,
                   history>>

\* A turn from which mem0 extracts nothing is not marked.
GatewayCaptures(t) ==
    /\ t \in pending
    /\ pending' = pending \ {t}
    /\ \/ /\ InForce.capture
          /\ store' = [store EXCEPT ![InForce.user] = @ \cup {t}]
          /\ marks' = marks \cup {[turn |-> t, hook |-> "capture"]}
       \/ UNCHANGED <<store, marks>>
    /\ Fine
    /\ UNCHANGED <<instance, conf, gate, asked, inflight, st, snapshot, cmd, life, pos,
                   turn, task, recalled, history>>

\* The run stops waiting for the answer; the gateway does not know.
GiveUp(r) ==
    /\ turn[r].at = "calling" /\ Trouble
    /\ turn' = [turn EXCEPT ![r].at = "none"]
    /\ left' = TRUE
    /\ UNCHANGED <<instance, conf, gateway, st, snapshot, cmd, life, pos, memory,
                   checked>>

\* mem0: exactly one receipt of the phase in the window of the request, whosever
\* it is, and no capture while questions are asked.
NativeReceipt(t) ==
    LET hook == IF t.kind = "ingest" THEN "capture" ELSE "recall"
    IN /\ Cardinality({m \in marks : m.hook = hook}) = 1
       /\ t.kind = "qa" => \A m \in marks : m.hook # "capture"

\* ogmemory: the line of the question's own session.
QaRecall(t) == [turn |-> t, hook |-> "recall"] \in marks

Proven(t) ==
    CASE plugin = "mem0" -> NativeReceipt(t)
      [] plugin = "ogmemory" -> t.kind = "qa" => QaRecall(t)
      [] OTHER -> TRUE

AfterAgent(r) ==
    /\ turn[r].at = "answered"
    /\ \/ /\ Fine /\ Proven(turn[r].id)
          /\ st' = IF plugin = "mem0" THEN [st EXCEPT !.lease = NoTurn] ELSE st
          /\ checked' = IF Shared THEN checked ELSE checked \cup {turn[r].id}
       \/ Trouble /\ UNCHANGED <<st, checked>>
    /\ turn' = [turn EXCEPT ![r].at = "none"]
    /\ UNCHANGED <<instance, conf, gateway, snapshot, cmd, life, pos, memory, left>>

(***************************************************************************)
(* commit and wait_ready of one session; mem0 has neither.                 *)
(***************************************************************************)
InScope(r, t) ==
    /\ t.kind = "ingest" /\ t.user[1] = r
    /\ IF Shared THEN ToldOf(r, t)
       ELSE st.active /\ st.owner = r /\ st.scope = t.user[2]

\* sessions.compact of the gateway's session of the request.
Commit(r, t) ==
    /\ plugin # "mem0" /\ MayCall(r) /\ InScope(r, t)
    /\ plugin = "ogmemory" => st.phase = "ingest" /\ st.loaded = conf
    /\ t \in asked \ inflight /\ t \in store[t.user]
    /\ task' = [task EXCEPT ![t] = "compacting"]
    /\ Fine
    /\ UNCHANGED <<instance, conf, gateway, st, snapshot, cmd, life, pos, turn, store,
                   recalled, history>>

BackendStep(t) ==
    /\ \/ /\ Fine /\ task[t] = "compacting"
          /\ task' = [task EXCEPT ![t] = IF Shared THEN "done" ELSE "outbox"]
       \/ Fine /\ task[t] = "outbox" /\ task' = [task EXCEPT ![t] = "done"]
       \/ /\ Trouble /\ task[t] \in {"compacting", "outbox"}
          /\ task' = [task EXCEPT ![t] = "failed"]
    /\ UNCHANGED <<instance, conf, gateway, st, snapshot, cmd, life, pos, turn, store,
                   recalled, history>>

\* ogmemory asks three times: for the session to be idle, for its archive, and
\* for both the session and the outbox to be idle; openviking polls its task.
Checks == IF Shared THEN <<"settled">> ELSE <<"idle", "archived", "settled">>

WaitReady(r, t) ==
    /\ plugin # "mem0" /\ MayCall(r) /\ InScope(r, t)
    /\ task[t] # "none"
    /\ cmd' = [by |-> r, act |-> "wait_ready", steps |-> Checks,
               st |-> [turn |-> t], conf |-> NoEntry]
    /\ Fine
    /\ UNCHANGED <<instance, conf, gateway, st, snapshot, life, pos, turn, memory,
                   history>>

Check ==
    /\ \/ Step("idle") /\ task[cmd.st.turn] # "compacting"
       \/ Step("archived") /\ task[cmd.st.turn] \in {"outbox", "done"}
       \/ Step("settled") /\ task[cmd.st.turn] = "done"
    /\ NextStep /\ Fine
    /\ UNCHANGED <<instance, conf, gateway, st, snapshot, life, pos, turn, memory,
                   history>>

\* No archive, a failed index, a failed task: the command fails without trouble.
CheckFails ==
    /\ cmd.act = "wait_ready" /\ cmd.steps # <<>>
    /\ task[cmd.st.turn] = "failed" /\ Fine
    /\ cmd' = Idle
    /\ UNCHANGED <<instance, conf, gateway, st, snapshot, life, pos, turn, memory,
                   history>>

Next ==
    \/ \E r \in Runs :
          \/ Start(r) \/ Refused(r) \/ Kill(r)
          \/ \E s \in Scopes : PrepareDedicated(r, s) \/ PrepareShared(r, s)
          \/ \E p \in {"ingest", "qa"} : SetPhaseDedicated(r, p) \/ SetPhaseShared(r, p)
          \/ FinalizeDedicated(r) \/ FinalizeShared(r)
          \/ AgentCall(r) \/ GiveUp(r) \/ AfterAgent(r)
          \/ \E t \in Turns : BeforeAgent(r, t) \/ Commit(r, t) \/ WaitReady(r, t)
    \/ SaveState \/ SaveConfig \/ Restart \/ Loaded \/ SetField \/ WriteSnapshot
    \/ Returns \/ Fails \/ Check \/ CheckFails
    \/ \E t \in Turns : GatewayAnswers(t) \/ GatewayCaptures(t) \/ BackendStep(t)

Spec == Init /\ [][Next]_vars

-----------------------------------------------------------------------------
TypeOK ==
    /\ conf \in [user : Users \cup {Outside}, capture : BOOLEAN, recall : BOOLEAN,
                 commit : {"auto", "manual"}]
    /\ Shared => gate = Original
    /\ life \in [Runs -> {"idle", "live", "restored", "failed", "refused", "killed"}]
    /\ turn \in [Runs -> [id : Turns \cup {NoTurn},
                          at : {"none", "allowed", "calling", "answered"}]]
    /\ inflight \subseteq asked /\ pending \subseteq asked
    /\ task \in [Turns -> {"none", "compacting", "outbox", "done", "failed"}]
    /\ faults \in 0..instance.trouble

\* A memory is given the history of its own sample and nothing else, no question,
\* no turn of another sample or run, and no question is given another's memory,
\* whatever fails between the files, the restart and the request, and whoever is
\* still working on a request that was given up.  A shared OpenClaw promises that
\* only while no request is left running: its settings change under the gateway.
MemoriesAreClean ==
    \/ Shared /\ left
    \/ /\ \A u \in DOMAIN store : \A t \in store[u] : t.kind = "ingest" /\ t.user = u
       /\ \A x \in recalled : x[1].kind = "qa" /\ x[1].user = x[2]

\* after_agent confirms what really happened: the turn is in its own memory
\* (mem0), the question was given its own memory (both dedicated runtimes).
ReceiptsAreTrue ==
    \A t \in checked :
        IF t.kind = "qa" THEN <<t, t.user>> \in recalled
        ELSE plugin = "mem0" => t \in store[t.user]

\* When wait_ready is about to report a session as ready, the session is archived
\* and indexed, though each check saw the backend at a moment of its own.
ReadyMeansIndexed ==
    cmd.act = "wait_ready" /\ cmd.steps = <<>> =>
        task[cmd.st.turn] = "done" /\ cmd.st.turn \in store[cmd.st.turn.user]

\* What the plugin confirms, of a turn or of a session, is so.
ConfirmationsAreTrue == ReceiptsAreTrue /\ ReadyMeansIndexed

\* When every run has finalized, none having been killed or failed to, the
\* settings are those from before, and a dedicated runtime is free and quiet.
SettingsComeBack ==
    (\A r \in Runs : life[r] \in {"restored", "refused", "idle"}) =>
        IF Shared THEN conf = Original
        ELSE ~st.active /\ gate = conf /\ ~conf.capture /\ ~conf.recall

\* The records keep their types and what the runs changed comes back.
PluginInv == TypeOK /\ SettingsComeBack
=============================================================================
