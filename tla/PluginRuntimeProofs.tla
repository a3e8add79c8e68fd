-------------------------- MODULE PluginRuntimeProofs --------------------------
(***************************************************************************)
(* What is proved of the plugins of module PluginRuntime, for any runs,    *)
(* samples, requests and bound on the trouble, whichever plugin it is.     *)
(*                                                                         *)
(* The argument for a dedicated runtime is about what the gateway works    *)
(* on: the entry it has loaded is the one of the request, because a turn   *)
(* is allowed only when state, file and gateway agree, nothing is          *)
(* configured while a turn is on, and a restart drops what was going on.   *)
(* Under mem0 the lease adds that at most one request moves at a time, so  *)
(* that a receipt in the window is the receipt of the turn.  For the       *)
(* shared OpenClaw it is about the run: one is live, its requests and its  *)
(* commands take turns, and the settings are what it was told.             *)
(***************************************************************************)
EXTENDS PluginRuntime, FiniteSetTheorems, TLAPS

ConfType == [user : Users \cup {Outside}, capture : BOOLEAN, recall : BOOLEAN,
             commit : {"auto", "manual"}]
Acts == {"prepare", "set_phase", "finalize"}
Phases == {"inactive", "ingest", "qa"}
StType == [active : BOOLEAN, owner : Runs \cup {NoRun}, scope : Scopes \cup {0},
           phase : Phases, loaded : ConfType \cup {NoEntry},
           lease : Turns \cup {NoTurn}, seen : SUBSET Scopes]

-----------------------------------------------------------------------------
\* The types, one variable at a time.
SettingTypes ==
    /\ instance \in Instances
    /\ conf \in ConfType /\ gate \in ConfType
    /\ Shared => gate = Original
    /\ st \in StType
    /\ snapshot \in [Runs -> {<<>>} \cup {<<c>> : c \in ConfType}]
RunTypes ==
    /\ life \in [Runs -> {"idle", "live", "restored", "failed", "refused", "killed"}]
    /\ pos \in [Runs -> [user : Users \cup {Outside}, kind : {"none", "ingest", "qa"},
                         n : {0}]]
    /\ turn \in [Runs -> [id : Turns \cup {NoTurn},
                          at : {"none", "allowed", "calling", "answered"}]]
GatewayTypes ==
    /\ asked \subseteq Turns /\ inflight \subseteq asked /\ pending \subseteq asked
    /\ marks \subseteq [turn : Turns, hook : {"recall", "capture"}]
    /\ pending # {} => plugin = "mem0"
MemoryTypes ==
    /\ store \in [Users \cup {Outside} -> SUBSET Turns]
    /\ task \in [Turns -> {"none", "compacting", "outbox", "done", "failed"}]
    /\ recalled \subseteq Turns \X (Users \cup {Outside})
    /\ checked \subseteq Turns
    /\ left \in BOOLEAN
Types == SettingTypes /\ RunTypes /\ GatewayTypes /\ MemoryTypes
         /\ faults \in 0..instance.trouble

\* A command is of a live run that does not wait for an answer of its agent.
CmdShape ==
    /\ cmd = [by |-> cmd.by, act |-> cmd.act, steps |-> cmd.steps, st |-> cmd.st,
              conf |-> cmd.conf]
    /\ \/ cmd = Idle
       \/ /\ cmd.act \in Acts \cup {"wait_ready"}
          /\ cmd.by \in Runs /\ life[cmd.by] = "live" /\ turn[cmd.by].at = "none"

\* wait_ready: the session it waits for is one that was committed, and once no
\* check is left, it is done.
WaitInv ==
    cmd.act = "wait_ready" =>
        /\ plugin # "mem0"
        /\ cmd.steps \in {<<"idle", "archived", "settled">>, <<"archived", "settled">>,
                          <<"settled">>, <<>>}
        /\ cmd.st = [turn |-> cmd.st.turn] /\ cmd.st.turn \in Turns
        /\ task[cmd.st.turn] # "none"
        /\ cmd.steps = <<>> => task[cmd.st.turn] = "done"
CommittedIsStored == \A t \in Turns : task[t] # "none" => t \in store[t.user]

(***************************************************************************)
(* A dedicated runtime.                                                    *)
(***************************************************************************)
Quiet == ~st.active /\ gate = conf /\ ~conf.capture /\ ~conf.recall

\* What a command is to bring about.
DedicatedAim ==
    /\ cmd.st \in StType /\ cmd.conf \in ConfType
    /\ cmd.st.loaded = NoEntry /\ cmd.conf.commit = "manual"
    /\ cmd.st.active => cmd.st.scope \in Scopes
    /\ cmd.st.owner = cmd.by \/ (plugin = "ogmemory" /\ cmd.act = "finalize")
    /\ cmd.act # "finalize" =>
          /\ cmd.st.active /\ cmd.st.phase \in {"ingest", "qa"}
          /\ cmd.conf = Entry(<<cmd.st.owner, cmd.st.scope>>, cmd.st.phase)
    /\ cmd.act = "prepare" => cmd.st.phase = "ingest"
    /\ cmd.act = "finalize" => /\ ~cmd.conf.capture /\ ~cmd.conf.recall
                               /\ plugin = "ogmemory" => ~cmd.st.active

\* How far it has come with the files and the gateway.
DedicatedProgress ==
    \/ /\ cmd.steps = Reconfigure
       /\ plugin = "mem0" => cmd.st.lease = st.lease
    \/ /\ plugin = "mem0" /\ cmd.steps = <<"save config", "restart", "loaded">>
       /\ st = cmd.st
    \/ /\ plugin = "ogmemory" /\ cmd.steps = <<"save state", "restart", "loaded">>
       /\ conf = cmd.conf
    \/ /\ cmd.steps = <<"restart", "loaded">>
       /\ st = cmd.st /\ conf = cmd.conf
    \/ /\ cmd.steps = <<"loaded">>
       /\ st = cmd.st /\ conf = cmd.conf /\ gate = conf
       /\ inflight = {} /\ pending = {}
    \/ /\ cmd.steps = <<>>
       /\ cmd.act = "finalize" => Quiet

DedicatedInv == ~Shared /\ cmd.act \in Acts => DedicatedAim /\ DedicatedProgress

\* What the state file says was loaded is what the gateway runs with; mem0 says so
\* of the entry of its sample and phase only.
LoadedInv ==
    ~Shared =>
        /\ conf.commit = "manual"
        /\ st.loaded \in {NoEntry, gate}
        /\ plugin = "mem0" /\ st.active /\ st.loaded # NoEntry =>
              conf = Entry(<<st.owner, st.scope>>, st.phase)

\* While a turn is on the runtime is its run's, configured for it.
TurnInv ==
    \A r \in Runs : turn[r].at # "none" =>
        /\ turn[r].id \in Turns /\ life[r] = "live" /\ cmd = Idle
        /\ IF Shared THEN ToldOf(r, turn[r].id)
           ELSE /\ st.active /\ st.owner = r
                /\ conf = Entry(turn[r].id.user, turn[r].id.kind) /\ gate = conf

\* What the gateway works on is what it is configured for.
WorkInv ==
    ~Shared => \A t \in inflight \cup pending : gate = Entry(t.user, t.kind)

\* The receipts in the log are true.
MarksInv ==
    ~Shared => \A m \in marks :
        IF m.hook = "recall" THEN <<m.turn, m.turn.user>> \in recalled
        ELSE m.turn \in store[m.turn.user]

\* mem0: only the request that has the lease moves, but for answered questions,
\* which are not captured; the receipts of its window are its own.
LeaseInv ==
    plugin = "mem0" =>
        /\ inflight \cap pending = {} /\ \A t \in inflight : t = st.lease
        /\ \A t \in pending : t.kind = "ingest" => t = st.lease
        /\ \A r \in Runs :
              /\ turn[r].at # "none" =>
                    st.lease = turn[r].id /\ \A m \in marks : m.turn = turn[r].id
              /\ turn[r].at = "allowed" => turn[r].id \notin asked
              /\ turn[r].at = "answered" => turn[r].id \notin inflight
        /\ \A m \in marks : /\ m.turn \in asked
                            /\ m.hook = "capture" => m.turn \notin inflight \cup pending

\* Who is to be asked about a runtime that is not quiet.
Answerable(r) == r \in Runs /\ life[r] \in {"live", "failed", "killed"}
MessInv ==
    ~Shared =>
        /\ Quiet \/ \E r \in Runs : Answerable(r) /\ (plugin = "mem0" => r = st.owner)
        /\ st.active => Answerable(st.owner) /\ st.scope \in Scopes

(***************************************************************************)
(* A shared OpenClaw.                                                      *)
(***************************************************************************)
OneLive ==
    Shared => \A q, r \in Runs : life[q] = "live" /\ life[r] = "live" => q = r

Begun == \A r \in Runs :
    /\ life[r] = "idle" => pos[r] = NoTurn /\ snapshot[r] = <<>>
    /\ Shared => /\ pos[r].user # Outside => snapshot[r] # <<>>
                 /\ pos[r].kind # "none" => pos[r].user # Outside

\* How far each command has come with the fields of the entry.
SharedPrepare ==
    /\ cmd.st = [scope |-> cmd.st.scope] /\ cmd.st.scope \in Scopes
    /\ cmd.conf \in ConfType /\ cmd.conf.user = <<cmd.by, cmd.st.scope>>
    /\ \/ cmd.steps = <<"snapshot", "user">> /\ snapshot[cmd.by] = <<>>
       \/ cmd.steps = <<"user">> /\ snapshot[cmd.by] # <<>>
       \/ cmd.steps = <<>> /\ snapshot[cmd.by] # <<>> /\ conf.user = cmd.conf.user
SharedSetPhase ==
    /\ cmd.st = [scope |-> cmd.st.scope, phase |-> cmd.st.phase]
    /\ cmd.st.phase \in {"ingest", "qa"}
    /\ snapshot[cmd.by] # <<>> /\ pos[cmd.by].user # Outside
    /\ cmd.conf = Entry(pos[cmd.by].user, cmd.st.phase)
    /\ conf.user = pos[cmd.by].user
    /\ \/ cmd.steps \in {<<"capture", "recall", "commit">>, <<"capture", "recall">>}
       \/ /\ cmd.steps \in {<<"recall", "commit">>, <<"recall">>}
          /\ conf.capture = cmd.conf.capture
       \/ /\ cmd.steps \in {<<"commit">>, <<>>}
          /\ conf.capture = cmd.conf.capture /\ conf.recall = cmd.conf.recall
SharedFinalize ==
    \/ snapshot[cmd.by] = <<>> /\ cmd.steps = <<>>
    \/ /\ snapshot[cmd.by] = <<cmd.conf>> /\ cmd.conf \in ConfType
       /\ \/ cmd.steps = <<"capture", "recall", "commit", "user">>
          \/ /\ cmd.steps = <<"recall", "commit", "user">>
             /\ conf.capture = cmd.conf.capture
          \/ /\ cmd.steps = <<"commit", "user">>
             /\ conf.capture = cmd.conf.capture /\ conf.recall = cmd.conf.recall
          \/ /\ cmd.steps = <<"user">>
             /\ conf.capture = cmd.conf.capture /\ conf.recall = cmd.conf.recall
             /\ conf.commit = cmd.conf.commit
          \/ cmd.steps = <<>> /\ conf = cmd.conf

SharedInv ==
    Shared => /\ cmd.act = "prepare" => SharedPrepare
              /\ cmd.act = "set_phase" => SharedSetPhase
              /\ cmd.act = "finalize" => SharedFinalize

\* Between its commands a run is right about the settings.
ToldInv ==
    Shared => \A r \in Runs : life[r] = "live" /\ cmd.act \notin Acts =>
        /\ pos[r].user # Outside => conf.user = pos[r].user
        /\ pos[r].kind # "none" => /\ conf.capture = (pos[r].kind = "ingest")
                                   /\ conf.recall = (pos[r].kind = "qa")

\* As long as every run has ended well, the settings are the operator's or the
\* snapshot of the live run has them.
RestoreInv ==
    Shared /\ (\A r \in Runs : life[r] \notin {"failed", "killed"}) =>
        /\ (\A r \in Runs : life[r] # "live") => conf = Original
        /\ \A r \in Runs : life[r] = "live" =>
              /\ snapshot[r] = <<>> => conf = Original
              /\ snapshot[r] \in {<<>>, <<Original>>}

\* Unless a request was left running, the gateway works on the live run's only.
SharedWork ==
    Shared /\ ~left => \A t \in inflight : \E r \in Runs :
        turn[r] = [id |-> t, at |-> "calling"]

PluginIndInv ==
    /\ Types /\ CmdShape /\ WaitInv /\ CommittedIsStored
    /\ DedicatedInv /\ LoadedInv /\ TurnInv /\ WorkInv /\ MarksInv /\ LeaseInv /\ MessInv
    /\ OneLive /\ Begun /\ SharedInv /\ ToldInv /\ RestoreInv /\ SharedWork
    /\ MemoriesAreClean /\ ReceiptsAreTrue

-----------------------------------------------------------------------------
\* The data: no turn is the missing one, an entry that was written is one.
LEMMA TurnFacts ==
    /\ NoTurn \notin Turns
    /\ \A t \in Turns : t.user \in Users /\ t.kind \in {"ingest", "qa"}
    /\ \A u \in Users : u # Outside /\ u = <<u[1], u[2]>> /\ u[1] \in Runs /\ u[2] \in Scopes
  BY PluginAssumption DEF Turns, NoTurn, Users, Outside

LEMMA EntryFacts ==
    /\ NoEntry \notin ConfType /\ Original \in ConfType
    /\ \A u \in Users \cup {Outside}, p \in Phases :
          /\ Entry(u, p) \in ConfType /\ Entry(u, p).commit = "manual" /\ Entry(u, p).user = u
          /\ Entry(u, p).capture = (p = "ingest") /\ Entry(u, p).recall = (p = "qa")
  BY DEF NoEntry, Original, ConfType, Entry, Phases

LEMMA PluginFacts ==
    ASSUME instance \in Instances
    PROVE  /\ plugin \in Plugins /\ instance.trouble \in Nat
           /\ Shared <=> plugin = "openviking"
           /\ ~Shared <=> plugin = "mem0" \/ plugin = "ogmemory"
  BY PluginAssumption DEF plugin, Plugins, Shared

\* A behaviour is of one plugin, with one set of samples and requests.
LEMMA Fixed ==
    ASSUME [Next]_vars
    PROVE  /\ instance' = instance /\ plugin' = plugin /\ Shared' = Shared
           /\ Scopes' = Scopes /\ Users' = Users /\ Turns' = Turns
           /\ ConfType' = ConfType /\ StType' = StType /\ Reconfigure' = Reconfigure
<1>1. instance' = instance
  BY ZenonT(30) DEF Next, vars, Start, Refused, Kill, PrepareDedicated, PrepareShared,
         SetPhaseDedicated, SetPhaseShared, FinalizeDedicated, FinalizeShared, AgentCall,
         GiveUp, AfterAgent, BeforeAgent, Commit, WaitReady, SaveState, SaveConfig, Restart,
         Loaded, SetField, Set, WriteSnapshot, Returns, Fails, Check, CheckFails,
         GatewayAnswers, GatewayCaptures, BackendStep, memory, gateway, history
<1> QED
  BY <1>1 DEF plugin, Shared, Scopes, Users, Turns, ConfType, StType, Reconfigure

\* How a sequence of steps goes on.
StepsAre(steps, first, rest) == steps # <<>> /\ Head(steps) = first /\ Tail(steps) = rest

LEMMA FourSteps ==
    \A a, b, c, d : /\ <<a, b, c, d>> # <<>> /\ Head(<<a, b, c, d>>) = a
                    /\ Tail(<<a, b, c, d>>) = <<b, c, d>>
  OBVIOUS

\* Of the commands of a dedicated runtime,
LEMMA DedicatedLits ==
    /\ StepsAre(<<"save state", "save config", "restart", "loaded">>, "save state",
                <<"save config", "restart", "loaded">>)
    /\ StepsAre(<<"save config", "save state", "restart", "loaded">>, "save config",
                <<"save state", "restart", "loaded">>)
    /\ StepsAre(<<"save config", "restart", "loaded">>, "save config", <<"restart", "loaded">>)
    /\ StepsAre(<<"save state", "restart", "loaded">>, "save state", <<"restart", "loaded">>)
    /\ StepsAre(<<"restart", "loaded">>, "restart", <<"loaded">>)
    /\ StepsAre(<<"loaded">>, "loaded", <<>>)
<1>1. StepsAre(<<"save state", "save config", "restart", "loaded">>, "save state",
              <<"save config", "restart", "loaded">>)
  BY FourSteps, Zenon DEF StepsAre
<1>2. StepsAre(<<"save config", "save state", "restart", "loaded">>, "save config",
              <<"save state", "restart", "loaded">>)
  BY FourSteps, Zenon DEF StepsAre
<1>3. StepsAre(<<"save config", "restart", "loaded">>, "save config", <<"restart", "loaded">>)
  BY DEF StepsAre
<1>4. StepsAre(<<"save state", "restart", "loaded">>, "save state", <<"restart", "loaded">>)
  BY DEF StepsAre
<1>5. StepsAre(<<"restart", "loaded">>, "restart", <<"loaded">>)
  BY DEF StepsAre
<1>6. StepsAre(<<"loaded">>, "loaded", <<>>)
  BY DEF StepsAre
<1> QED
  BY <1>1, <1>2, <1>3, <1>4, <1>5, <1>6

\* of those of the shared OpenClaw,
LEMMA SharedLits ==
    /\ StepsAre(<<"snapshot", "user">>, "snapshot", <<"user">>)
    /\ StepsAre(<<"user">>, "user", <<>>)
    /\ StepsAre(<<"capture", "recall", "commit">>, "capture", <<"recall", "commit">>)
    /\ StepsAre(<<"recall", "commit">>, "recall", <<"commit">>)
    /\ StepsAre(<<"commit">>, "commit", <<>>)
    /\ StepsAre(<<"capture", "recall">>, "capture", <<"recall">>)
    /\ StepsAre(<<"recall">>, "recall", <<>>)
    /\ StepsAre(<<"capture", "recall", "commit", "user">>, "capture",
                <<"recall", "commit", "user">>)
    /\ StepsAre(<<"recall", "commit", "user">>, "recall", <<"commit", "user">>)
    /\ StepsAre(<<"commit", "user">>, "commit", <<"user">>)
<1>1. StepsAre(<<"snapshot", "user">>, "snapshot", <<"user">>)
  BY DEF StepsAre
<1>2. StepsAre(<<"user">>, "user", <<>>)
  BY DEF StepsAre
<1>3. StepsAre(<<"capture", "recall", "commit">>, "capture", <<"recall", "commit">>)
  BY DEF StepsAre
<1>4. StepsAre(<<"recall", "commit">>, "recall", <<"commit">>)
  BY DEF StepsAre
<1>5. StepsAre(<<"commit">>, "commit", <<>>)
  BY DEF StepsAre
<1>6. StepsAre(<<"capture", "recall">>, "capture", <<"recall">>)
  BY DEF StepsAre
<1>7. StepsAre(<<"recall">>, "recall", <<>>)
  BY DEF StepsAre
<1>8. StepsAre(<<"capture", "recall", "commit", "user">>, "capture",
              <<"recall", "commit", "user">>)
  BY FourSteps, Zenon DEF StepsAre
<1>9. StepsAre(<<"recall", "commit", "user">>, "recall", <<"commit", "user">>)
  BY DEF StepsAre
<1>10. StepsAre(<<"commit", "user">>, "commit", <<"user">>)
  BY DEF StepsAre
<1> QED
  BY <1>1, <1>2, <1>3, <1>4, <1>5, <1>6, <1>7, <1>8, <1>9, <1>10

\* and of wait_ready.
LEMMA WaitLits ==
    /\ StepsAre(<<"idle", "archived", "settled">>, "idle", <<"archived", "settled">>)
    /\ StepsAre(<<"archived", "settled">>, "archived", <<"settled">>)
    /\ StepsAre(<<"settled">>, "settled", <<>>)
<1>1. StepsAre(<<"idle", "archived", "settled">>, "idle", <<"archived", "settled">>)
  BY DEF StepsAre
<1>2. StepsAre(<<"archived", "settled">>, "archived", <<"settled">>)
  BY DEF StepsAre
<1>3. StepsAre(<<"settled">>, "settled", <<>>)
  BY DEF StepsAre
<1> QED
  BY <1>1, <1>2, <1>3

\* The step a command takes next, and those it has then.
LEMMA DedicatedStep ==
    ASSUME Types, CmdShape, WaitInv, DedicatedInv, SharedInv
    PROVE  /\ Step("save state") =>
                 /\ ~Shared /\ cmd.act \in Acts
                 /\ \/ /\ plugin = "mem0" /\ cmd.st.lease = st.lease
                       /\ Tail(cmd.steps) = <<"save config", "restart", "loaded">>
                    \/ /\ plugin = "ogmemory" /\ conf = cmd.conf
                       /\ Tail(cmd.steps) = <<"restart", "loaded">>
           /\ Step("save config") =>
                 /\ ~Shared /\ cmd.act \in Acts
                 /\ \/ /\ plugin = "mem0" /\ st = cmd.st
                       /\ Tail(cmd.steps) = <<"restart", "loaded">>
                    \/ /\ plugin = "ogmemory"
                       /\ Tail(cmd.steps) = <<"save state", "restart", "loaded">>
           /\ Step("restart") =>
                 /\ ~Shared /\ cmd.act \in Acts /\ st = cmd.st /\ conf = cmd.conf
                 /\ Tail(cmd.steps) = <<"loaded">>
           /\ Step("loaded") =>
                 /\ ~Shared /\ cmd.act \in Acts /\ st = cmd.st /\ conf = cmd.conf
                 /\ gate = conf /\ inflight = {} /\ pending = {} /\ Tail(cmd.steps) = <<>>
<1> SUFFICES ASSUME cmd.steps # <<>>, Head(cmd.steps) \in {"save state", "save config",
                                                          "restart", "loaded"}
             PROVE  /\ Head(cmd.steps) = "save state" =>
                         /\ ~Shared /\ cmd.act \in Acts
                         /\ \/ /\ plugin = "mem0" /\ cmd.st.lease = st.lease
                               /\ Tail(cmd.steps) = <<"save config", "restart", "loaded">>
                            \/ /\ plugin = "ogmemory" /\ conf = cmd.conf
                               /\ Tail(cmd.steps) = <<"restart", "loaded">>
                    /\ Head(cmd.steps) = "save config" =>
                         /\ ~Shared /\ cmd.act \in Acts
                         /\ \/ /\ plugin = "mem0" /\ st = cmd.st
                               /\ Tail(cmd.steps) = <<"restart", "loaded">>
                            \/ /\ plugin = "ogmemory"
                               /\ Tail(cmd.steps) = <<"save state", "restart", "loaded">>
                    /\ Head(cmd.steps) = "restart" =>
                         /\ ~Shared /\ cmd.act \in Acts /\ st = cmd.st /\ conf = cmd.conf
                         /\ Tail(cmd.steps) = <<"loaded">>
                    /\ Head(cmd.steps) = "loaded" =>
                         /\ ~Shared /\ cmd.act \in Acts /\ st = cmd.st /\ conf = cmd.conf
                         /\ gate = conf /\ inflight = {} /\ pending = {}
                         /\ Tail(cmd.steps) = <<>>
  BY DEF Step
<1>1. cmd # Idle
  <2> SUFFICES ASSUME cmd = Idle PROVE cmd.steps = <<>>
    OBVIOUS
  <2> QED
    BY DEF Idle
<1>2. cmd.act # "wait_ready"
  BY WaitLits, Zenon DEF WaitInv, StepsAre
<1>3. cmd.act \in Acts
  BY <1>1, <1>2 DEF CmdShape
<1>4. ~Shared
  <2>1. CASE Shared /\ cmd.act = "prepare"
    BY <1>3, <2>1, SharedLits, Zenon DEF SharedInv, SharedPrepare, SharedSetPhase,
         SharedFinalize, StepsAre
  <2>2. CASE Shared /\ cmd.act = "set_phase"
    BY <1>3, <2>2, SharedLits, Zenon DEF SharedInv, SharedPrepare, SharedSetPhase,
         SharedFinalize, StepsAre
  <2>3. CASE Shared /\ cmd.act = "finalize"
    BY <1>3, <2>3, SharedLits, Zenon DEF SharedInv, SharedPrepare, SharedSetPhase,
         SharedFinalize, StepsAre
  <2> QED
    BY <1>3, <2>1, <2>2, <2>3 DEF Acts
<1>6. plugin = "mem0" \/ plugin = "ogmemory"
  BY <1>4, PluginFacts DEF Types, SettingTypes
<1>5. \/ /\ cmd.steps = Reconfigure
         /\ plugin = "mem0" => cmd.st.lease = st.lease
      \/ /\ plugin = "mem0" /\ cmd.steps = <<"save config", "restart", "loaded">>
         /\ st = cmd.st
      \/ /\ plugin = "ogmemory" /\ cmd.steps = <<"save state", "restart", "loaded">>
         /\ conf = cmd.conf
      \/ /\ cmd.steps = <<"restart", "loaded">>
         /\ st = cmd.st /\ conf = cmd.conf
      \/ /\ cmd.steps = <<"loaded">>
         /\ st = cmd.st /\ conf = cmd.conf /\ gate = conf
         /\ inflight = {} /\ pending = {}
  BY <1>3, <1>4 DEF DedicatedInv, DedicatedAim, DedicatedProgress
<1>7. CASE cmd.steps = Reconfigure /\ plugin = "mem0" /\ cmd.st.lease = st.lease
  BY <1>3, <1>4, <1>7, DedicatedLits DEF Reconfigure, StepsAre
<1>8. CASE cmd.steps = Reconfigure /\ plugin = "ogmemory"
  BY <1>3, <1>4, <1>8, DedicatedLits DEF Reconfigure, StepsAre
<1>9. CASE plugin = "mem0" /\ cmd.steps = <<"save config", "restart", "loaded">> /\ st = cmd.st
  BY <1>3, <1>4, <1>9, DedicatedLits DEF StepsAre
<1>10. CASE /\ plugin = "ogmemory" /\ cmd.steps = <<"save state", "restart", "loaded">>
            /\ conf = cmd.conf
  BY <1>3, <1>4, <1>10, DedicatedLits DEF StepsAre
<1>11. CASE cmd.steps = <<"restart", "loaded">> /\ st = cmd.st /\ conf = cmd.conf
  BY <1>3, <1>4, <1>11, DedicatedLits DEF StepsAre
<1>12. CASE /\ cmd.steps = <<"loaded">> /\ st = cmd.st /\ conf = cmd.conf /\ gate = conf
            /\ inflight = {} /\ pending = {}
  BY <1>3, <1>4, <1>12, DedicatedLits DEF StepsAre
<1> QED
  BY <1>5, <1>6, <1>7, <1>8, <1>9, <1>10, <1>11, <1>12

LEMMA SharedStep ==
    ASSUME Types, CmdShape, WaitInv, DedicatedInv, SharedInv
    PROVE  /\ Step("snapshot") =>
                 /\ Shared /\ cmd.act = "prepare" /\ cmd.steps = <<"snapshot", "user">>
                 /\ Tail(cmd.steps) = <<"user">>
           /\ \A field \in Fields : Step(field) =>
                 Shared /\ cmd.act \in Acts /\ cmd.conf \in ConfType
<1> SUFFICES ASSUME cmd.steps # <<>>, Head(cmd.steps) \in Fields \cup {"snapshot"}
             PROVE  /\ Shared /\ cmd.act \in Acts /\ cmd.conf \in ConfType
                    /\ Head(cmd.steps) = "snapshot" =>
                          /\ cmd.act = "prepare" /\ cmd.steps = <<"snapshot", "user">>
                          /\ Tail(cmd.steps) = <<"user">>
  BY DEF Step
<1>1. cmd # Idle
  <2> SUFFICES ASSUME cmd = Idle PROVE cmd.steps = <<>>
    OBVIOUS
  <2> QED
    BY DEF Idle
<1>2. cmd.act # "wait_ready"
  BY WaitLits, Zenon DEF WaitInv, StepsAre, Fields
<1>3. cmd.act \in Acts
  BY <1>1, <1>2 DEF CmdShape
<1>4. Shared
  <2> SUFFICES ASSUME ~Shared PROVE FALSE
    OBVIOUS
  <2>1. \/ cmd.steps = Reconfigure
        \/ cmd.steps = <<"save config", "restart", "loaded">>
        \/ cmd.steps = <<"save state", "restart", "loaded">>
        \/ cmd.steps = <<"restart", "loaded">>
        \/ cmd.steps = <<"loaded">>
    BY <1>3 DEF DedicatedInv, DedicatedAim, DedicatedProgress
  <2>2. Head(cmd.steps) \in {"save state", "save config", "restart", "loaded"}
    BY <2>1, DedicatedLits, Zenon DEF Reconfigure, StepsAre
  <2> QED
    BY <2>2 DEF Fields
<1>5. CASE cmd.act = "prepare"
  <2>1. cmd.steps = <<"snapshot", "user">> \/ cmd.steps = <<"user">>
    BY <1>3, <1>4, <1>5 DEF SharedInv, SharedPrepare, SharedSetPhase, SharedFinalize
  <2>2. Head(cmd.steps) = "snapshot" =>
          cmd.steps = <<"snapshot", "user">> /\ Tail(cmd.steps) = <<"user">>
    BY <2>1, SharedLits, Zenon DEF StepsAre
  <2> QED
    BY <1>3, <1>4, <1>5, <2>2 DEF SharedInv, SharedPrepare, SharedSetPhase, SharedFinalize
<1>6. CASE cmd.act = "set_phase"
  <2>1. Head(cmd.steps) # "snapshot"
    BY <1>3, <1>4, <1>6, SharedLits, Zenon DEF SharedInv, SharedPrepare, SharedSetPhase,
         SharedFinalize, StepsAre
  <2>2. cmd.conf = Entry(pos[cmd.by].user, cmd.st.phase)
    BY <1>3, <1>4, <1>6 DEF SharedInv, SharedPrepare, SharedSetPhase, SharedFinalize
  <2>3. pos[cmd.by].user \in Users \cup {Outside} /\ cmd.st.phase \in Phases
    BY <1>1, <1>3, <1>4, <1>6 DEF SharedInv, SharedPrepare, SharedSetPhase, SharedFinalize,
         CmdShape, Types, RunTypes, Phases
  <2> QED
    BY <1>3, <1>4, <1>6, <2>1, <2>2, <2>3, EntryFacts
<1>7. CASE cmd.act = "finalize"
  <2>1. Head(cmd.steps) # "snapshot" /\ cmd.conf \in ConfType
    BY <1>3, <1>4, <1>7, SharedLits, Zenon DEF SharedInv, SharedPrepare, SharedSetPhase,
         SharedFinalize, StepsAre
  <2> QED
    BY <1>3, <1>4, <1>7, <2>1
<1> QED
  BY <1>3, <1>5, <1>6, <1>7 DEF Acts

LEMMA WaitStep ==
    ASSUME Types, CmdShape, WaitInv, DedicatedInv, SharedInv, cmd.act = "wait_ready",
           cmd.steps # <<>>
    PROVE  /\ Head(cmd.steps) \in {"idle", "archived", "settled"}
           /\ Tail(cmd.steps) \in {<<"archived", "settled">>, <<"settled">>, <<>>}
           /\ Tail(cmd.steps) = <<>> => Head(cmd.steps) = "settled"
<1>1. CASE cmd.steps = <<"idle", "archived", "settled">>
  BY <1>1, WaitLits, Zenon DEF StepsAre
<1>2. CASE cmd.steps = <<"archived", "settled">>
  BY <1>2, WaitLits, Zenon DEF StepsAre
<1>3. CASE cmd.steps = <<"settled">>
  BY <1>3, WaitLits, Zenon DEF StepsAre
<1> QED
  BY <1>1, <1>2, <1>3 DEF WaitInv

\* A command in its steps is not over, and nobody's turn is on.
LEMMA Busy ==
    ASSUME PluginIndInv, cmd # Idle \/ cmd.steps # <<>> \/ cmd.act # "none"
    PROVE  /\ cmd # Idle /\ \A r \in Runs : turn[r].at = "none"
           /\ cmd.by \in Runs /\ life[cmd.by] = "live"
<1>1. cmd # Idle
  <2> SUFFICES ASSUME cmd = Idle PROVE cmd.steps = <<>> /\ cmd.act = "none"
    OBVIOUS
  <2> QED
    BY DEF Idle
<1> QED
  BY <1>1 DEF PluginIndInv, TurnInv, CmdShape

\* Whoever may give a command for the runtime, finds no turn on.
LEMMA Undisturbed ==
    ASSUME PluginIndInv, NEW q \in Runs, MayCall(q), Shared \/ ~st.active \/ st.owner = q
    PROVE  \A r \in Runs : turn[r].at = "none"
  BY DEF PluginIndInv, MayCall, TurnInv, OneLive

(***************************************************************************)
(* Which steps change what.                                                *)
(***************************************************************************)
LEMMA ConfFrame == ASSUME [Next]_vars PROVE UNCHANGED conf \/ SaveConfig \/ SetField
  BY ZenonT(30) DEF Next, vars, Start, Refused, Kill, PrepareDedicated, PrepareShared,
         SetPhaseDedicated, SetPhaseShared, FinalizeDedicated, FinalizeShared, AgentCall,
         GiveUp, AfterAgent, BeforeAgent, Commit, WaitReady, SaveState, Restart, Loaded,
         WriteSnapshot, Returns, Fails, Check, CheckFails, GatewayAnswers, GatewayCaptures,
         BackendStep, memory, gateway, history

LEMMA GateFrame ==
    ASSUME [Next]_vars
    PROVE  \/ UNCHANGED <<gate>>
           \/ /\ Step("restart") /\ Restarted
              /\ cmd' = Idle \/ Restart
              /\ UNCHANGED <<conf, st, snapshot, memory, asked, marks, checked>>
  BY ZenonT(30) DEF Next, vars, Start, Refused, Kill, PrepareDedicated, PrepareShared,
         SetPhaseDedicated, SetPhaseShared, FinalizeDedicated, FinalizeShared, AgentCall,
         GiveUp, AfterAgent, BeforeAgent, Commit, WaitReady, SaveState, SaveConfig, Restart,
         Loaded, SetField, Set, WriteSnapshot, Returns, Fails, Check, CheckFails,
         GatewayAnswers, GatewayCaptures, BackendStep, memory, gateway, history,
         MaybeRestarted

LEMMA StFrame ==
    ASSUME [Next]_vars
    PROVE  \/ UNCHANGED st \/ SaveState \/ Loaded
           \/ \E r \in Runs : AfterAgent(r) \/ \E t \in Turns : BeforeAgent(r, t)
  BY DEF Next, vars, Start, Refused, Kill, PrepareDedicated, PrepareShared,
         SetPhaseDedicated, SetPhaseShared, FinalizeDedicated, FinalizeShared, AgentCall,
         GiveUp, Commit, WaitReady, SaveConfig, Restart, SetField, Set, WriteSnapshot,
         Returns, Fails, Check, CheckFails, GatewayAnswers, GatewayCaptures, BackendStep,
         memory, gateway, history

LEMMA SnapshotFrame == ASSUME [Next]_vars PROVE UNCHANGED snapshot \/ WriteSnapshot
  BY ZenonT(30) DEF Next, vars, Start, Refused, Kill, PrepareDedicated, PrepareShared,
         SetPhaseDedicated, SetPhaseShared, FinalizeDedicated, FinalizeShared, AgentCall,
         GiveUp, AfterAgent, BeforeAgent, Commit, WaitReady, SaveState, SaveConfig, Restart,
         Loaded, SetField, Set, Returns, Fails, Check, CheckFails, GatewayAnswers,
         GatewayCaptures, BackendStep, memory, gateway, history

LEMMA LifeFrame ==
    ASSUME [Next]_vars
    PROVE  \/ UNCHANGED life \/ Returns \/ Fails
           \/ \E r \in Runs : Start(r) \/ Refused(r) \/ Kill(r)
  BY ZenonT(30) DEF Next, vars, PrepareDedicated, PrepareShared, SetPhaseDedicated,
       SetPhaseShared, FinalizeDedicated, FinalizeShared, AgentCall, GiveUp, AfterAgent,
       BeforeAgent, Commit, WaitReady, SaveState, SaveConfig, Restart, Loaded, SetField, Set,
       WriteSnapshot, Check, CheckFails, GatewayAnswers, GatewayCaptures, BackendStep,
       memory, gateway, history

LEMMA PosFrame == ASSUME [Next]_vars PROVE UNCHANGED pos \/ Returns \/ Fails
  BY ZenonT(30) DEF Next, vars, Start, Refused, Kill, PrepareDedicated, PrepareShared,
         SetPhaseDedicated, SetPhaseShared, FinalizeDedicated, FinalizeShared, AgentCall,
         GiveUp, AfterAgent, BeforeAgent, Commit, WaitReady, SaveState, SaveConfig, Restart,
         Loaded, SetField, Set, WriteSnapshot, Check, CheckFails, GatewayAnswers,
         GatewayCaptures, BackendStep, memory, gateway, history

LEMMA TurnFrame ==
    ASSUME [Next]_vars
    PROVE  \/ UNCHANGED turn
           \/ \E r \in Runs : \/ AgentCall(r) \/ GiveUp(r) \/ AfterAgent(r) \/ Kill(r)
                              \/ \E t \in Turns : BeforeAgent(r, t)
           \/ \E t \in Turns : GatewayAnswers(t)
  BY DEF Next, vars, Start, Refused, PrepareDedicated, PrepareShared, SetPhaseDedicated,
         SetPhaseShared, FinalizeDedicated, FinalizeShared, Commit, WaitReady, SaveState,
         SaveConfig, Restart, Loaded, SetField, Set, WriteSnapshot, Returns, Fails, Check,
         CheckFails, GatewayCaptures, BackendStep, memory, gateway, history

LEMMA WorkFrame ==
    ASSUME [Next]_vars
    PROVE  \/ UNCHANGED <<inflight, pending>>
           \/ Step("restart") /\ Restarted /\ UNCHANGED <<asked, marks, turn, left>>
           \/ \E r \in Runs : Step("restart") /\ Restarted /\ Kill(r)
           \/ \E r \in Runs : AgentCall(r)
           \/ \E t \in Turns : GatewayAnswers(t) \/ GatewayCaptures(t)
  BY ZenonT(30) DEF Next, vars, Start, Refused, Kill, PrepareDedicated, PrepareShared,
         SetPhaseDedicated, SetPhaseShared, FinalizeDedicated, FinalizeShared, GiveUp,
         AfterAgent, BeforeAgent, Commit, WaitReady, SaveState, SaveConfig, Restart, Loaded,
         SetField, Set, WriteSnapshot, Returns, Fails, Check, CheckFails, BackendStep,
         memory, gateway, history, MaybeRestarted

LEMMA AskedFrame == ASSUME [Next]_vars PROVE UNCHANGED asked \/ \E r \in Runs : AgentCall(r)
  BY ZenonT(30) DEF Next, vars, Start, Refused, Kill, PrepareDedicated, PrepareShared,
         SetPhaseDedicated, SetPhaseShared, FinalizeDedicated, FinalizeShared, GiveUp,
         AfterAgent, BeforeAgent, Commit, WaitReady, SaveState, SaveConfig, Restart, Loaded,
         SetField, Set, WriteSnapshot, Returns, Fails, Check, CheckFails, GatewayAnswers,
         GatewayCaptures, BackendStep, memory, gateway, history

LEMMA MarksFrame ==
    ASSUME [Next]_vars
    PROVE  \/ UNCHANGED marks
           \/ \E r \in Runs, t \in Turns : BeforeAgent(r, t)
           \/ \E t \in Turns : GatewayAnswers(t) \/ GatewayCaptures(t)
  BY DEF Next, vars, Start, Refused, Kill, PrepareDedicated, PrepareShared,
         SetPhaseDedicated, SetPhaseShared, FinalizeDedicated, FinalizeShared, AgentCall,
         GiveUp, AfterAgent, Commit, WaitReady, SaveState, SaveConfig, Restart, Loaded,
         SetField, Set, WriteSnapshot, Returns, Fails, Check, CheckFails, BackendStep,
         memory, gateway, history

LEMMA StoreFrame ==
    ASSUME [Next]_vars
    PROVE  \/ UNCHANGED store
           \/ \E t \in Turns : GatewayAnswers(t) \/ GatewayCaptures(t)
  BY ZenonT(30) DEF Next, vars, Start, Refused, Kill, PrepareDedicated, PrepareShared,
         SetPhaseDedicated, SetPhaseShared, FinalizeDedicated, FinalizeShared, AgentCall,
         GiveUp, AfterAgent, BeforeAgent, Commit, WaitReady, SaveState, SaveConfig, Restart,
         Loaded, SetField, Set, WriteSnapshot, Returns, Fails, Check, CheckFails,
         BackendStep, memory, gateway, history

LEMMA RecalledFrame ==
    ASSUME [Next]_vars PROVE UNCHANGED recalled \/ \E t \in Turns : GatewayAnswers(t)
  BY ZenonT(30) DEF Next, vars, Start, Refused, Kill, PrepareDedicated, PrepareShared,
         SetPhaseDedicated, SetPhaseShared, FinalizeDedicated, FinalizeShared, AgentCall,
         GiveUp, AfterAgent, BeforeAgent, Commit, WaitReady, SaveState, SaveConfig, Restart,
         Loaded, SetField, Set, WriteSnapshot, Returns, Fails, Check, CheckFails,
         GatewayCaptures, BackendStep, memory, gateway, history

LEMMA TaskFrame ==
    ASSUME [Next]_vars
    PROVE  \/ UNCHANGED task
           \/ \E t \in Turns : BackendStep(t) \/ \E r \in Runs : Commit(r, t)
  BY DEF Next, vars, Start, Refused, Kill, PrepareDedicated, PrepareShared,
         SetPhaseDedicated, SetPhaseShared, FinalizeDedicated, FinalizeShared, AgentCall,
         GiveUp, AfterAgent, BeforeAgent, WaitReady, SaveState, SaveConfig, Restart, Loaded,
         SetField, Set, WriteSnapshot, Returns, Fails, Check, CheckFails, GatewayAnswers,
         GatewayCaptures, memory, gateway, history

LEMMA CheckedFrame ==
    ASSUME [Next]_vars PROVE UNCHANGED checked \/ \E r \in Runs : AfterAgent(r)
  BY ZenonT(30) DEF Next, vars, Start, Refused, Kill, PrepareDedicated, PrepareShared,
         SetPhaseDedicated, SetPhaseShared, FinalizeDedicated, FinalizeShared, AgentCall,
         GiveUp, BeforeAgent, Commit, WaitReady, SaveState, SaveConfig, Restart, Loaded,
         SetField, Set, WriteSnapshot, Returns, Fails, Check, CheckFails, GatewayAnswers,
         GatewayCaptures, BackendStep, memory, gateway, history

LEMMA LeftFrame ==
    ASSUME [Next]_vars
    PROVE  UNCHANGED left \/ \E r \in Runs : GiveUp(r) \/ Kill(r)
  BY ZenonT(30) DEF Next, vars, Start, Refused, PrepareDedicated, PrepareShared,
       SetPhaseDedicated, SetPhaseShared, FinalizeDedicated, FinalizeShared, AgentCall,
       AfterAgent, BeforeAgent, Commit, WaitReady, SaveState, SaveConfig, Restart, Loaded,
       SetField, Set, WriteSnapshot, Returns, Fails, Check, CheckFails, GatewayAnswers,
       GatewayCaptures, BackendStep, memory, gateway, history

LEMMA CmdFrame ==
    ASSUME [Next]_vars
    PROVE  \/ UNCHANGED cmd \/ cmd' = Idle
           \/ SaveState \/ SaveConfig \/ Restart \/ Loaded \/ SetField \/ WriteSnapshot
           \/ Check
           \/ \E r \in Runs :
                 \/ \E s \in Scopes : PrepareDedicated(r, s) \/ PrepareShared(r, s)
                 \/ \E p \in {"ingest", "qa"} : SetPhaseDedicated(r, p) \/ SetPhaseShared(r, p)
                 \/ FinalizeDedicated(r) \/ FinalizeShared(r)
                 \/ \E t \in Turns : WaitReady(r, t)
  BY DEF Next, vars, Start, Refused, Kill, AgentCall, GiveUp, AfterAgent, BeforeAgent,
         Commit, Returns, Fails, CheckFails, GatewayAnswers, GatewayCaptures, BackendStep,
         memory, gateway, history

LEMMA CmdMoves ==
    ASSUME [Next]_vars
    PROVE  \/ UNCHANGED cmd \/ cmd' = Idle
           \/ cmd.steps # <<>> /\ NextStep
           \/ \E r \in Runs :
                 \/ \E s \in Scopes : PrepareDedicated(r, s) \/ PrepareShared(r, s)
                 \/ \E p \in {"ingest", "qa"} : SetPhaseDedicated(r, p) \/ SetPhaseShared(r, p)
                 \/ FinalizeDedicated(r) \/ FinalizeShared(r)
                 \/ \E t \in Turns : WaitReady(r, t)
  BY CmdFrame DEF SaveState, SaveConfig, Restart, Loaded, SetField, Set, WriteSnapshot,
       Check, Step

(***************************************************************************)
(* The types.                                                              *)
(***************************************************************************)
LEMMA SettingsKeep ==
    ASSUME PluginIndInv, [Next]_vars
    PROVE  SettingTypes'
<1> USE DEF PluginIndInv, Types, SettingTypes
<1>1. conf' \in ConfType
  <2>1. CASE UNCHANGED conf
    BY <2>1
  <2>2. CASE SaveConfig
    BY <2>2, DedicatedStep DEF SaveConfig, DedicatedInv, DedicatedAim, DedicatedProgress
  <2>3. CASE SetField
    <3>1. PICK field \in Fields : Step(field) /\ conf' = [conf EXCEPT ![field] = cmd.conf[field]]
      BY <2>3 DEF SetField, Set
    <3>2. cmd.conf \in ConfType
      BY <3>1, SharedStep
    <3> QED
      BY <3>1, <3>2 DEF ConfType, Fields
  <2> QED
    BY <2>1, <2>2, <2>3, ConfFrame
<1>2. gate' \in ConfType /\ (Shared => gate' = Original)
  BY GateFrame, DedicatedStep DEF Restarted
<1>3. st' \in StType
  <2>1. CASE UNCHANGED st
    BY <2>1
  <2>2. CASE SaveState
    BY <2>2, DedicatedStep DEF SaveState, DedicatedInv, DedicatedAim, DedicatedProgress
  <2>3. CASE Loaded
    BY <2>3 DEF Loaded, StType
  <2>4. ASSUME NEW r \in Runs, AfterAgent(r) PROVE st' \in StType
    <3>1. st' \in {st, [st EXCEPT !.lease = NoTurn]}
      BY <2>4 DEF AfterAgent
    <3> QED
      BY <3>1 DEF StType
  <2>5. ASSUME NEW r \in Runs, NEW t \in Turns, BeforeAgent(r, t) PROVE st' \in StType
    <3>1. st' \in {st, [st EXCEPT !.lease = t]}
      BY <2>5 DEF BeforeAgent
    <3> QED
      BY <3>1 DEF StType
  <2> QED
    BY <2>1, <2>2, <2>3, <2>4, <2>5, StFrame
<1>4. snapshot' \in [Runs -> {<<>>} \cup {<<c>> : c \in ConfType}]
  BY SnapshotFrame DEF WriteSnapshot
<1> QED
  BY <1>1, <1>2, <1>3, <1>4, Fixed

LEMMA RunsKeep ==
    ASSUME PluginIndInv, [Next]_vars
    PROVE  RunTypes'
<1> USE DEF PluginIndInv, Types, RunTypes
<1>1. life' \in [Runs -> {"idle", "live", "restored", "failed", "refused", "killed"}]
  <2>1. CASE UNCHANGED life
    BY <2>1
  <2>2. CASE Returns
    BY <2>2 DEF Returns
  <2>3. CASE Fails
    BY <2>3 DEF Fails
  <2>4. ASSUME NEW r \in Runs, Start(r) \/ Refused(r) \/ Kill(r)
        PROVE  life' \in [Runs -> {"idle", "live", "restored", "failed", "refused", "killed"}]
    BY <2>4 DEF Start, Refused, Kill
  <2> QED
    BY <2>1, <2>2, <2>3, <2>4, LifeFrame
<1>2. pos' \in [Runs -> [user : Users \cup {Outside}, kind : {"none", "ingest", "qa"}, n : {0}]]
  <2> DEFINE Position == [user : Users \cup {Outside}, kind : {"none", "ingest", "qa"}, n : {0}]
  <2>1. CASE UNCHANGED pos
    BY <2>1
  <2>2. CASE Returns
    <3>1. cmd.by \in Runs /\ pos' = [pos EXCEPT ![cmd.by] = Told(cmd.by)]
      BY <2>2, Busy DEF Returns
    <3>2. Told(cmd.by) \in Position
      <4>1. CASE cmd.act = "prepare"
        <5>1. cmd.st.scope \in Scopes
          BY <4>1 DEF DedicatedInv, DedicatedAim, DedicatedProgress, SharedInv,
               SharedPrepare, SharedSetPhase, SharedFinalize, Acts
        <5> QED
          BY <3>1, <4>1, <5>1 DEF Told, Users
      <4>2. CASE cmd.act = "set_phase"
        <5>1. cmd.st.phase \in {"ingest", "qa"}
          BY <4>2 DEF DedicatedInv, DedicatedAim, DedicatedProgress, SharedInv,
               SharedPrepare, SharedSetPhase, SharedFinalize, Acts
        <5>2. Told(cmd.by) = [pos[cmd.by] EXCEPT !.kind = cmd.st.phase]
          BY <4>2 DEF Told
        <5>3. pos[cmd.by] \in Position
          BY <3>1
        <5> QED
          BY <5>1, <5>2, <5>3
      <4>3. CASE cmd.act \notin {"prepare", "set_phase"}
        BY <3>1, <4>3 DEF Told
      <4> QED
        BY <4>1, <4>2, <4>3
    <3> QED
      BY <3>1, <3>2
  <2>3. CASE Fails
    <3>1. cmd.by \in Runs
      BY <2>3, Busy DEF Fails
    <3>2. \/ pos' = [pos EXCEPT ![cmd.by] = NoTurn]
          \/ pos' = [pos EXCEPT ![cmd.by].kind = "none"]
          \/ pos' = pos
      BY <2>3 DEF Fails
    <3> QED
      BY <3>1, <3>2 DEF NoTurn
  <2> QED
    BY <2>1, <2>2, <2>3, PosFrame
<1>3. turn' \in [Runs -> [id : Turns \cup {NoTurn},
                          at : {"none", "allowed", "calling", "answered"}]]
  <2>1. CASE UNCHANGED turn
    BY <2>1
  <2>2. ASSUME NEW r \in Runs, AgentCall(r) \/ GiveUp(r) \/ AfterAgent(r) \/ Kill(r)
        PROVE  turn' \in [Runs -> [id : Turns \cup {NoTurn},
                                   at : {"none", "allowed", "calling", "answered"}]]
    <3>1. PICK v \in {"none", "calling"} : turn' = [turn EXCEPT ![r].at = v]
      BY <2>2 DEF AgentCall, GiveUp, AfterAgent, Kill
    <3> QED
      BY <3>1
  <2>3. ASSUME NEW r \in Runs, NEW t \in Turns, BeforeAgent(r, t)
        PROVE  turn' \in [Runs -> [id : Turns \cup {NoTurn},
                                   at : {"none", "allowed", "calling", "answered"}]]
    BY <2>3 DEF BeforeAgent
  <2>4. ASSUME NEW t \in Turns, GatewayAnswers(t)
        PROVE  turn' \in [Runs -> [id : Turns \cup {NoTurn},
                                   at : {"none", "allowed", "calling", "answered"}]]
    BY <2>4 DEF GatewayAnswers
  <2> QED
    BY <2>1, <2>2, <2>3, <2>4, TurnFrame
<1> QED
  BY <1>1, <1>2, <1>3, Fixed

LEMMA GatewayKeeps ==
    ASSUME PluginIndInv, [Next]_vars
    PROVE  GatewayTypes'
<1> USE DEF PluginIndInv, Types, GatewayTypes, RunTypes
<1>1. /\ asked' \subseteq Turns /\ inflight' \subseteq asked' /\ pending' \subseteq asked'
      /\ pending' # {} => plugin = "mem0"
  <2>1. CASE \E r \in Runs : AgentCall(r)
    <3>1. PICK r \in Runs : AgentCall(r)
      BY <2>1
    <3>2. turn[r].id \in Turns
      BY <3>1 DEF AgentCall, TurnInv
    <3> QED
      BY <3>1, <3>2 DEF AgentCall
  <2>2. CASE \E t \in Turns : GatewayAnswers(t) \/ GatewayCaptures(t)
    BY <2>2 DEF GatewayAnswers, GatewayCaptures
  <2>3. CASE UNCHANGED asked
    BY <2>2, <2>3, WorkFrame DEF Restarted, AgentCall
  <2> QED
    BY <2>1, <2>3, AskedFrame
<1>2. marks' \subseteq [turn : Turns, hook : {"recall", "capture"}]
  <2>1. ASSUME NEW t \in Turns, GatewayAnswers(t)
         PROVE  marks' \in {marks, marks \cup {[turn |-> t, hook |-> "recall"]}}
    BY <2>1 DEF GatewayAnswers
  <2>2. ASSUME NEW t \in Turns, GatewayCaptures(t)
         PROVE  marks' \in {marks, marks \cup {[turn |-> t, hook |-> "capture"]}}
    BY <2>2 DEF GatewayCaptures
  <2>3. ASSUME NEW r \in Runs, NEW t \in Turns, BeforeAgent(r, t) PROVE marks' = {}
    BY <2>3 DEF BeforeAgent
  <2> QED
    BY <2>1, <2>2, <2>3, MarksFrame
<1> QED
  BY <1>1, <1>2, Fixed

\* The settings a request meets, by what it is.
LEMMA RightSettings ==
    ASSUME PluginIndInv, NEW t \in inflight \cup pending, ~(Shared /\ left)
    PROVE  /\ InForce.user = t.user /\ InForce.capture = (t.kind = "ingest")
           /\ InForce.recall = (t.kind = "qa") /\ t \in Turns
<1> USE DEF PluginIndInv
<1>0. t \in Turns
  BY DEF Types, GatewayTypes
<1>1. CASE Shared
  <2>1. t \in inflight
    BY <1>1, PluginFacts DEF Types, SettingTypes, GatewayTypes
  <2>2. PICK r \in Runs : turn[r] = [id |-> t, at |-> "calling"]
    BY <1>1, <2>1 DEF SharedWork
  <2>3. life[r] = "live" /\ cmd = Idle /\ pos[r].user = t.user /\ pos[r].kind = t.kind
    BY <1>1, <2>2 DEF TurnInv, ToldOf
  <2>4. cmd.act \notin Acts
    BY <2>3 DEF Idle, Acts
  <2>5. t.user # Outside /\ t.kind # "none"
    BY <1>0, TurnFacts
  <2> QED
    BY <1>0, <1>1, <2>3, <2>4, <2>5 DEF ToldInv, InForce
<1>2. CASE ~Shared
  <2>1. gate = Entry(t.user, t.kind)
    BY <1>2 DEF WorkInv
  <2>2. t.user \in Users /\ t.kind \in Phases
    BY <1>0, TurnFacts DEF Phases
  <2> QED
    BY <1>0, <1>2, <2>1, <2>2, EntryFacts DEF InForce
<1> QED
  BY <1>1, <1>2

LEMMA MemoryKeeps ==
    ASSUME PluginIndInv, [Next]_vars
    PROVE  /\ MemoryTypes'
           /\ \A u \in Users \cup {Outside} : store[u] \subseteq store'[u]
           /\ recalled \subseteq recalled'
<1> USE DEF PluginIndInv, Types, MemoryTypes, SettingTypes
<1>0. InForce.user \in Users \cup {Outside}
  BY DEF InForce, ConfType
<1>1. /\ store' \in [Users \cup {Outside} -> SUBSET Turns]
      /\ \A u \in Users \cup {Outside} : store[u] \subseteq store'[u]
  <2>1. ASSUME NEW t \in Turns, GatewayAnswers(t) \/ GatewayCaptures(t)
        PROVE  store' \in {store, [store EXCEPT ![InForce.user] = @ \cup {t}]}
    BY <2>1 DEF GatewayAnswers, GatewayCaptures
  <2> QED
    BY <1>0, <2>1, StoreFrame
<1>2. recalled' \subseteq Turns \X (Users \cup {Outside}) /\ recalled \subseteq recalled'
  <2>1. ASSUME NEW t \in Turns, GatewayAnswers(t)
        PROVE  recalled' \in {recalled, recalled \cup {<<t, InForce.user>>}}
    BY <2>1 DEF GatewayAnswers
  <2> QED
    BY <1>0, <2>1, RecalledFrame
<1>3. task' \in [Turns -> {"none", "compacting", "outbox", "done", "failed"}]
  <2>1. ASSUME NEW t \in Turns, BackendStep(t)
        PROVE  \E v \in {"outbox", "done", "failed"} : task' = [task EXCEPT ![t] = v]
    BY <2>1 DEF BackendStep
  <2>2. ASSUME NEW t \in Turns, NEW r \in Runs, Commit(r, t)
        PROVE  task' = [task EXCEPT ![t] = "compacting"]
    BY <2>2 DEF Commit
  <2> QED
    BY <2>1, <2>2, TaskFrame
<1>4. checked' \subseteq Turns
  <2>1. ASSUME NEW r \in Runs, AfterAgent(r) PROVE checked' \subseteq Turns
    <3>1. turn[r].id \in Turns
      BY <2>1 DEF AfterAgent, TurnInv
    <3> QED
      BY <2>1, <3>1 DEF AfterAgent
  <2> QED
    BY <2>1, CheckedFrame
<1>5. left' \in BOOLEAN
  BY LeftFrame DEF GiveUp, Kill
<1> QED
  BY <1>1, <1>2, <1>3, <1>4, <1>5, Fixed

LEMMA TroubleKeeps ==
    ASSUME PluginIndInv, [Next]_vars
    PROVE  (faults \in 0..instance.trouble)'
<1>1. UNCHANGED faults \/ Trouble
  BY ZenonT(30) DEF Next, vars, Start, Refused, Kill, PrepareDedicated, PrepareShared,
         SetPhaseDedicated, SetPhaseShared, FinalizeDedicated, FinalizeShared, AgentCall,
         GiveUp, AfterAgent, BeforeAgent, Commit, WaitReady, SaveState, SaveConfig, Restart,
         Loaded, SetField, Set, WriteSnapshot, Returns, Fails, Check, CheckFails,
         GatewayAnswers, GatewayCaptures, BackendStep, memory, gateway, history, Fine
<1>2. instance.trouble \in Nat
  BY PluginFacts DEF PluginIndInv, Types, SettingTypes
<1> QED
  BY <1>1, <1>2, Fixed DEF Trouble, PluginIndInv, Types

(***************************************************************************)
(* The commands and the turns.                                             *)
(***************************************************************************)
\* What a command is when it is given.
LEMMA Issued ==
    ASSUME PluginIndInv, NEW r \in Runs,
           \/ \E s \in Scopes : PrepareDedicated(r, s) \/ PrepareShared(r, s)
           \/ \E p \in {"ingest", "qa"} : SetPhaseDedicated(r, p) \/ SetPhaseShared(r, p)
           \/ FinalizeDedicated(r) \/ FinalizeShared(r)
    PROVE  /\ cmd' = [by |-> cmd'.by, act |-> cmd'.act, steps |-> cmd'.steps, st |-> cmd'.st,
                      conf |-> cmd'.conf]
           /\ cmd'.by = r /\ cmd'.act \in Acts
           /\ MayCall(r) /\ UNCHANGED <<conf, gateway, st, snapshot, life, pos, turn, memory>>
<1>1. ASSUME NEW act \in Acts, NEW steps, NEW newSt, NEW newConf, Command(r, act, steps,
             newSt, newConf)
      PROVE  /\ cmd' = [by |-> cmd'.by, act |-> cmd'.act, steps |-> cmd'.steps, st |-> cmd'.st,
                        conf |-> cmd'.conf]
             /\ cmd'.by = r /\ cmd'.act \in Acts
  BY <1>1 DEF Command
<1>2. MayCall(r) /\ UNCHANGED <<conf, gateway, st, snapshot, life, pos, turn, memory>>
  BY DEF PrepareDedicated, PrepareShared, SetPhaseDedicated, SetPhaseShared,
         FinalizeDedicated, FinalizeShared
<1>3. CASE \E s \in Scopes : PrepareDedicated(r, s) \/ PrepareShared(r, s)
  BY <1>1, <1>2, <1>3 DEF PrepareDedicated, PrepareShared, Acts
<1>4. CASE \E p \in {"ingest", "qa"} : SetPhaseDedicated(r, p) \/ SetPhaseShared(r, p)
  BY <1>1, <1>2, <1>4 DEF SetPhaseDedicated, SetPhaseShared, Acts
<1>5. CASE FinalizeDedicated(r) \/ FinalizeShared(r)
  BY <1>1, <1>2, <1>5 DEF FinalizeDedicated, FinalizeShared, Acts
<1> QED
  BY <1>3, <1>4, <1>5

LEMMA CmdKeeps ==
    ASSUME PluginIndInv, [Next]_vars
    PROVE  CmdShape'
<1> USE DEF PluginIndInv
<1>1. CASE cmd' = Idle
  BY <1>1 DEF CmdShape, Idle
<1>2. CASE UNCHANGED cmd \/ (cmd.steps # <<>> /\ NextStep)
  <2>1. CASE cmd = Idle
    BY <1>1, <1>2, <2>1, Busy
  <2> SUFFICES ASSUME cmd # Idle, cmd' # Idle PROVE CmdShape'
    BY <1>1, <2>1
  <2>2. /\ cmd.by \in Runs /\ life[cmd.by] = "live" /\ \A r \in Runs : turn[r].at = "none"
        /\ cmd.act \in Acts \cup {"wait_ready"}
    BY Busy DEF CmdShape
  <2>3. /\ cmd' = [by |-> cmd'.by, act |-> cmd'.act, steps |-> cmd'.steps, st |-> cmd'.st,
                   conf |-> cmd'.conf]
        /\ cmd'.by = cmd.by /\ cmd'.act = cmd.act
    BY <1>2 DEF CmdShape, NextStep
  <2>4. life'[cmd.by] = "live"
    <3>1. ASSUME NEW r \in Runs, Start(r) PROVE life'[cmd.by] = "live"
      BY <2>2, <3>1 DEF Start, Types, RunTypes
    <3>2. ASSUME NEW r \in Runs, Refused(r) PROVE FALSE
      BY <3>2 DEF Refused, MayCall
    <3>3. ASSUME NEW r \in Runs, Kill(r) PROVE life'[cmd.by] = "live"
      BY <2>2, <3>3 DEF Kill, Types, RunTypes
    <3> QED
      BY <2>2, <3>1, <3>2, <3>3, LifeFrame DEF Returns, Fails
  <2>5. turn'[cmd.by].at = "none"
    <3>1. ASSUME NEW r \in Runs, AgentCall(r) \/ GiveUp(r) \/ AfterAgent(r) PROVE FALSE
      BY <2>2, <3>1 DEF AgentCall, GiveUp, AfterAgent
    <3>2. ASSUME NEW r \in Runs, NEW t \in Turns, BeforeAgent(r, t) PROVE FALSE
      BY <3>2 DEF BeforeAgent, MayCall
    <3>3. ASSUME NEW r \in Runs, Kill(r) PROVE turn'[cmd.by].at = "none"
      BY <2>2, <3>3 DEF Kill, Types, RunTypes
    <3>4. ASSUME NEW t \in Turns, GatewayAnswers(t) PROVE turn'[cmd.by].at = "none"
      BY <2>2, <3>4 DEF GatewayAnswers
    <3> QED
      BY <2>2, <3>1, <3>2, <3>3, <3>4, TurnFrame
  <2> QED
    BY <2>2, <2>3, <2>4, <2>5 DEF CmdShape
<1>3. ASSUME NEW r \in Runs,
             \/ \E s \in Scopes : PrepareDedicated(r, s) \/ PrepareShared(r, s)
             \/ \E p \in {"ingest", "qa"} : SetPhaseDedicated(r, p) \/ SetPhaseShared(r, p)
             \/ FinalizeDedicated(r) \/ FinalizeShared(r)
             \/ \E t \in Turns : WaitReady(r, t)
      PROVE  CmdShape'
  <2>1. MayCall(r) /\ UNCHANGED <<life, turn>>
    BY <1>3 DEF PrepareDedicated, PrepareShared, SetPhaseDedicated, SetPhaseShared,
                FinalizeDedicated, FinalizeShared, WaitReady
  <2>2. /\ cmd' = [by |-> cmd'.by, act |-> cmd'.act, steps |-> cmd'.steps, st |-> cmd'.st,
                   conf |-> cmd'.conf]
        /\ cmd'.by = r /\ cmd'.act \in Acts \cup {"wait_ready"}
    BY <1>3, Issued DEF WaitReady
  <2> QED
    BY <2>1, <2>2 DEF CmdShape, MayCall
<1> QED
  BY <1>1, <1>2, <1>3, CmdMoves

LEMMA StoredKeeps ==
    ASSUME PluginIndInv, [Next]_vars
    PROVE  CommittedIsStored'
<1> USE DEF PluginIndInv, CommittedIsStored, Types, MemoryTypes
<1>1. \A t \in Turns : store[t.user] \subseteq store'[t.user]
  BY MemoryKeeps, TurnFacts
<1>2. CASE UNCHANGED task
  BY <1>1, <1>2, Fixed
<1>3. ASSUME NEW t \in Turns, BackendStep(t) PROVE CommittedIsStored'
  <2>1. task[t] # "none" /\ \A x \in Turns : x # t => task'[x] = task[x]
    BY <1>3 DEF BackendStep
  <2> QED
    BY <1>1, <2>1, Fixed
<1>4. ASSUME NEW t \in Turns, NEW r \in Runs, Commit(r, t) PROVE CommittedIsStored'
  <2>1. t \in store[t.user] /\ \A x \in Turns : x # t => task'[x] = task[x]
    BY <1>4 DEF Commit
  <2> QED
    BY <1>1, <2>1, Fixed
<1> QED
  BY <1>2, <1>3, <1>4, TaskFrame

LEMMA WaitKeeps ==
    ASSUME PluginIndInv, [Next]_vars
    PROVE  WaitInv'
<1> USE DEF PluginIndInv
<1>1. CASE cmd' = Idle
  BY <1>1 DEF WaitInv, Idle
<1>2. CASE UNCHANGED cmd
  <2> SUFFICES ASSUME cmd.act = "wait_ready" PROVE WaitInv'
    BY <1>2 DEF WaitInv
  <2>1. /\ task'[cmd.st.turn] # "none"
        /\ task[cmd.st.turn] = "done" => task'[cmd.st.turn] = "done"
    <3>1. ASSUME NEW t \in Turns, BackendStep(t)
          PROVE  \A x \in Turns : /\ task[x] # "none" => task'[x] # "none"
                                  /\ task[x] = "done" => task'[x] = "done"
      BY <3>1 DEF BackendStep, Types, MemoryTypes
    <3>2. ASSUME NEW t \in Turns, NEW r \in Runs, Commit(r, t) PROVE FALSE
      BY <3>2, Busy DEF Commit, MayCall
    <3> QED
      BY <3>1, <3>2, TaskFrame DEF WaitInv
  <2> QED
    BY <1>2, <2>1, Fixed DEF WaitInv
<1>3. CASE cmd.steps # <<>> /\ NextStep
  <2> SUFFICES ASSUME cmd'.act = "wait_ready" PROVE WaitInv'
    BY DEF WaitInv
  <2>1. /\ cmd'.act = cmd.act /\ cmd'.st = cmd.st /\ cmd'.steps = Tail(cmd.steps)
    BY <1>3 DEF CmdShape, NextStep
  <2>2. Head(cmd.steps) \in {"idle", "archived", "settled"}
    BY <1>3, <2>1, WaitStep
  <2>3. CASE Check
    <3>1. /\ UNCHANGED task
          /\ Head(cmd.steps) = "settled" => task[cmd.st.turn] = "done"
      BY <2>3 DEF Check, Step, memory
    <3> QED
      BY <1>3, <2>1, <3>1, WaitStep, Fixed DEF WaitInv
  <2>4. cmd.steps # Tail(cmd.steps)
    <3>1. CASE cmd.steps = <<"idle", "archived", "settled">>
      BY <3>1, WaitLits, Zenon DEF StepsAre
    <3>2. CASE cmd.steps = <<"archived", "settled">>
      BY <3>2, WaitLits, Zenon DEF StepsAre
    <3>3. CASE cmd.steps = <<"settled">>
      BY <3>3, WaitLits, Zenon DEF StepsAre
    <3> QED
      BY <1>3, <2>1, <3>1, <3>2, <3>3 DEF WaitInv
  <2>5. Check
    <3>1. UNCHANGED cmd \/ cmd' = Idle \/ Check
          \/ Step("save state") \/ Step("save config") \/ Step("restart") \/ Step("loaded")
          \/ Step("snapshot") \/ (\E field \in Fields : Step(field))
          \/ \E r \in Runs : MayCall(r)
      BY ZenonT(30) DEF Next, vars, Start, Refused, Kill, PrepareDedicated, PrepareShared,
             SetPhaseDedicated, SetPhaseShared, FinalizeDedicated, FinalizeShared,
             AgentCall, GiveUp, AfterAgent, BeforeAgent, Commit, WaitReady, SaveState,
             SaveConfig, Restart, Loaded, SetField, Set, WriteSnapshot, Returns, Fails,
             CheckFails, GatewayAnswers, GatewayCaptures, BackendStep, memory, gateway,
             history
    <3>2. cmd' # Idle
      BY <2>1 DEF Idle
    <3> QED
      BY <1>3, <2>1, <2>2, <2>4, <3>1, <3>2, Busy DEF Step, Fields, MayCall
  <2> QED
    BY <2>3, <2>5
<1>4. ASSUME NEW r \in Runs, NEW t \in Turns, WaitReady(r, t)
      PROVE  WaitInv'
  BY <1>4, Fixed DEF WaitReady, WaitInv, memory, Checks
<1>5. ASSUME NEW r \in Runs,
             \/ \E s \in Scopes : PrepareDedicated(r, s) \/ PrepareShared(r, s)
             \/ \E p \in {"ingest", "qa"} : SetPhaseDedicated(r, p) \/ SetPhaseShared(r, p)
             \/ FinalizeDedicated(r) \/ FinalizeShared(r)
      PROVE  WaitInv'
  BY <1>5, Issued DEF WaitInv, Acts
<1> QED
  BY <1>1, <1>2, <1>3, <1>4, <1>5, CmdMoves

LEMMA TurnKeeps ==
    ASSUME PluginIndInv, [Next]_vars
    PROVE  TurnInv'
<1> USE DEF PluginIndInv
<1>1. ASSUME NEW r \in Runs, NEW t \in Turns, BeforeAgent(r, t) PROVE TurnInv'
  <2>1. /\ MayCall(r) /\ t.user[1] = r /\ Allowed(r, t)
        /\ \A x \in Runs : turn'[x] = IF x = r THEN [id |-> t, at |-> "allowed"] ELSE turn[x]
        /\ UNCHANGED <<conf, gate, cmd, life, pos>>
    BY <1>1 DEF BeforeAgent, Types, RunTypes
  <2>2. st'.active = st.active /\ st'.owner = st.owner
    BY <1>1 DEF BeforeAgent, Types, SettingTypes, StType
  <2>3. CASE Shared
    <3>1. pos[r].user = t.user /\ pos[r].kind = t.kind /\ life[r] = "live" /\ cmd = Idle
      BY <2>1, <2>3 DEF Allowed, ToldOf, MayCall
    <3>2. \A x \in Runs : turn[x].at # "none" =>
             /\ turn[x].id \in Turns /\ life[x] = "live"
             /\ pos[x].user = turn[x].id.user /\ pos[x].kind = turn[x].id.kind
      BY <2>3 DEF TurnInv, ToldOf
    <3>3. \A x \in Runs : turn'[x].at # "none" =>
             /\ turn'[x].id \in Turns /\ life'[x] = "live"
             /\ pos'[x].user = turn'[x].id.user /\ pos'[x].kind = turn'[x].id.kind
      BY <2>1, <3>1, <3>2
    <3>4. cmd' = Idle
      BY <2>1, <3>1
    <3> QED
      BY <2>3, <3>3, <3>4, Fixed DEF TurnInv, ToldOf
  <2>4. CASE ~Shared
    <3>1. InPhase(r, t)
      BY <2>1, <2>4 DEF Allowed
    <3>2. st.loaded = gate /\ gate = conf
      BY <2>4, <3>1, EntryFacts DEF LoadedInv, InPhase, Types, SettingTypes
    <3>3. conf = Entry(t.user, t.kind)
      <4>1. CASE plugin = "ogmemory"
        BY <3>1, <4>1 DEF InPhase
      <4>2. CASE plugin = "mem0"
        <5>1. st.loaded # NoEntry
          BY <3>2, EntryFacts DEF Types, SettingTypes
        <5>2. conf = Entry(<<st.owner, st.scope>>, st.phase)
          BY <2>4, <3>1, <4>2, <5>1 DEF LoadedInv, InPhase
        <5> QED
          BY <2>1, <3>1, <5>2, TurnFacts DEF InPhase
      <4> QED
        BY <2>4, <4>1, <4>2, PluginFacts DEF Types, SettingTypes
    <3> QED
      BY <2>1, <2>2, <2>4, <3>1, <3>2, <3>3, Fixed DEF TurnInv, MayCall, InPhase
  <2> QED
    BY <2>3, <2>4
<1>2. ASSUME NEW r \in Runs, AgentCall(r) \/ GiveUp(r) \/ AfterAgent(r) \/ Kill(r)
      PROVE  TurnInv'
  <2>1. /\ \A x \in Runs : turn'[x].id = turn[x].id /\ (turn'[x].at # "none" => turn[x].at # "none")
        /\ turn'[r].at = "none" \/ UNCHANGED life
        /\ \A x \in Runs : x # r => life'[x] = life[x]
        /\ UNCHANGED <<conf, pos>>
    <3>1. PICK v \in {"none", "calling"} :
             turn' = [turn EXCEPT ![r].at = v] /\ (v = "calling" => turn[r].at = "allowed")
      BY <1>2 DEF AgentCall, GiveUp, AfterAgent, Kill
    <3>2. UNCHANGED <<conf, pos>> /\ (UNCHANGED life \/ Kill(r))
      BY <1>2 DEF AgentCall, GiveUp, AfterAgent, Kill
    <3>3. Kill(r) => turn'[r].at = "none" /\ \A x \in Runs : x # r => life'[x] = life[x]
      BY DEF Kill, Types, RunTypes
    <3> QED
      BY <3>1, <3>2, <3>3 DEF Types, RunTypes
  <2>2. st'.active = st.active /\ st'.owner = st.owner
    BY <1>2 DEF AgentCall, GiveUp, AfterAgent, Kill, Types, SettingTypes, StType
  <2>3. cmd' \in {cmd, Idle}
    BY <1>2 DEF AgentCall, GiveUp, AfterAgent, Kill
  <2>4. ASSUME NEW x \in Runs, turn[x].at # "none" PROVE UNCHANGED gate
    <3>1. cmd.steps = <<>>
      BY <2>4, Busy
    <3> QED
      BY <3>1, GateFrame DEF Step
  <2> QED
    BY <2>1, <2>2, <2>3, <2>4, Fixed DEF TurnInv, ToldOf
<1>3. ASSUME NEW t \in Turns, GatewayAnswers(t) PROVE TurnInv'
  <2>1. /\ \A x \in Runs : turn'[x].id = turn[x].id /\ (turn'[x].at # "none" => turn[x].at # "none")
        /\ UNCHANGED <<conf, gate, cmd, life, pos, st>>
    BY <1>3 DEF GatewayAnswers
  <2> QED
    BY <2>1, Fixed DEF TurnInv, ToldOf
<1>4. CASE UNCHANGED turn
  <2> SUFFICES ASSUME NEW r \in Runs, turn[r].at # "none",
                      ~ \E q \in Runs : \/ AgentCall(q) \/ GiveUp(q) \/ AfterAgent(q) \/ Kill(q)
                                        \/ \E t \in Turns : BeforeAgent(q, t)
               PROVE  /\ life'[r] = "live" /\ UNCHANGED <<cmd, conf, gate, st, pos>>
    BY <1>1, <1>2, <1>4, Fixed DEF TurnInv, ToldOf
  <2>1. cmd = Idle /\ cmd.steps = <<>> /\ life[r] = "live"
    BY Busy DEF TurnInv
  <2>2. UNCHANGED <<conf, gate, st, pos>>
    BY <2>1, ConfFrame, GateFrame, StFrame, PosFrame
       DEF SaveConfig, SetField, Set, Step, SaveState, Loaded, Returns, Fails, Fields
  <2>3. life'[r] = "live"
    <3>1. ASSUME NEW q \in Runs, Start(q) PROVE life'[r] = "live"
      BY <2>1, <3>1 DEF Start, Types, RunTypes
    <3>2. ASSUME NEW q \in Runs, Refused(q) PROVE life'[r] = "live"
      BY <2>1, <3>2 DEF Refused, MayCall, Types, RunTypes
    <3> QED
      BY <2>1, <3>1, <3>2, LifeFrame DEF Returns, Fails
  <2>4. UNCHANGED cmd
    <3>1. ASSUME NEW q \in Runs, MayCall(q), Shared \/ ~st.active \/ st.owner = q PROVE FALSE
      BY <3>1, Undisturbed
    <3>2. ASSUME NEW q \in Runs,
                 \/ \E s \in Scopes : PrepareDedicated(q, s) \/ PrepareShared(q, s)
                 \/ \E p \in {"ingest", "qa"} : SetPhaseDedicated(q, p) \/ SetPhaseShared(q, p)
                 \/ FinalizeDedicated(q) \/ FinalizeShared(q)
                 \/ \E t \in Turns : WaitReady(q, t)
          PROVE  FALSE
      BY <3>1, <3>2 DEF PrepareDedicated, PrepareShared, SetPhaseDedicated, SetPhaseShared,
                FinalizeDedicated, FinalizeShared, WaitReady, Foreign, InScope
    <3> QED
      BY <2>1, <3>2, CmdMoves
  <2> QED
    BY <2>2, <2>3, <2>4
<1> QED
  BY <1>1, <1>2, <1>3, <1>4, TurnFrame

(***************************************************************************)
(* A dedicated runtime: commands, files and gateway.                       *)
(***************************************************************************)
\* While a command configures the runtime, nothing else does, and no turn moves.
LEMMA Configuring ==
    ASSUME PluginIndInv, [Next]_vars, ~Shared, cmd.act \in Acts
    PROVE  \/ cmd' = Idle \/ SaveState \/ SaveConfig \/ Restart \/ Loaded
           \/ /\ UNCHANGED <<cmd, conf, gate, st>>
              /\ inflight' \subseteq inflight /\ (inflight = {} => pending' \subseteq pending)
<1> USE DEF PluginIndInv
<1>1. /\ cmd # Idle /\ cmd.act # "wait_ready" /\ \A r \in Runs : ~MayCall(r)
      /\ \A r \in Runs : turn[r].at = "none"
  BY Busy DEF Acts, MayCall
<1>2. ~Step("snapshot") /\ \A field \in Fields : ~Step(field)
  BY SharedStep
<1>3. ~Step("idle") /\ ~Step("archived") /\ ~Step("settled")
  <2> SUFFICES ASSUME cmd.steps # <<>>
               PROVE  Head(cmd.steps) \in {"save state", "save config", "restart", "loaded"}
    BY DEF Step
  <2>1. \/ cmd.steps = Reconfigure
        \/ cmd.steps = <<"save config", "restart", "loaded">>
        \/ cmd.steps = <<"save state", "restart", "loaded">>
        \/ cmd.steps = <<"restart", "loaded">>
        \/ cmd.steps = <<"loaded">>
    BY DEF DedicatedInv, DedicatedProgress
  <2> QED
    BY <2>1, DedicatedLits, Zenon DEF Reconfigure, StepsAre
<1>4. \/ UNCHANGED cmd \/ cmd' = Idle \/ SaveState \/ SaveConfig \/ Restart \/ Loaded
  BY <1>1, <1>2, <1>3, CmdFrame DEF SetField, Set, WriteSnapshot, Check, PrepareDedicated,
       PrepareShared, SetPhaseDedicated, SetPhaseShared, FinalizeDedicated, FinalizeShared,
       WaitReady
<1>5. UNCHANGED conf \/ SaveConfig
  BY <1>2, ConfFrame DEF SetField, Set
<1>6. UNCHANGED gate \/ cmd' = Idle \/ Restart
  BY GateFrame
<1>7. UNCHANGED st \/ SaveState \/ Loaded
  BY <1>1, StFrame DEF AfterAgent, BeforeAgent
<1>8. \/ cmd' = Idle \/ Restart
      \/ inflight' \subseteq inflight /\ (inflight = {} => pending' \subseteq pending)
  <2>1. ASSUME NEW r \in Runs, AgentCall(r) PROVE FALSE
    BY <1>1, <2>1 DEF AgentCall
  <2>2. CASE UNCHANGED <<inflight, pending>>
    BY <2>2
  <2>3. CASE Restarted
    BY <2>3 DEF Restarted
  <2>4. ASSUME NEW t \in Turns, GatewayAnswers(t) \/ GatewayCaptures(t)
        PROVE  inflight' \subseteq inflight /\ (inflight = {} => pending' \subseteq pending)
    BY <2>4 DEF GatewayAnswers, GatewayCaptures
  <2> QED
    BY <2>1, <2>2, <2>3, <2>4, WorkFrame
<1> QED
  BY <1>4, <1>5, <1>6, <1>7, <1>8

LEMMA DedicatedKeeps ==
    ASSUME PluginIndInv, [Next]_vars
    PROVE  DedicatedInv'
<1> USE DEF PluginIndInv
<1>0. cmd' = Idle => cmd'.act \notin Acts
  BY DEF Idle, Acts
<1> SUFFICES ASSUME ~Shared, cmd' # Idle, cmd'.act \in Acts
             PROVE  DedicatedAim' /\ DedicatedProgress'
  BY <1>0, Fixed DEF DedicatedInv
<1>1. CASE cmd.act \in Acts
  <2> DEFINE Same == /\ cmd'.by = cmd.by /\ cmd'.act = cmd.act /\ cmd'.st = cmd.st
                     /\ cmd'.conf = cmd.conf
  <2>0. DedicatedAim /\ DedicatedProgress
    BY <1>1 DEF DedicatedInv
  <2>1. CASE /\ UNCHANGED <<cmd, conf, gate, st>>
             /\ inflight' \subseteq inflight /\ (inflight = {} => pending' \subseteq pending)
    <3>1. DedicatedAim'
      BY <2>0, <2>1, Fixed DEF DedicatedAim
    <3> QED
      BY <2>0, <2>1, <3>1, Fixed DEF DedicatedProgress, Quiet
  <2>2. NextStep => Same /\ cmd'.steps = Tail(cmd.steps)
    BY DEF NextStep, CmdShape
  <2>3. Same => DedicatedAim'
    BY <2>0, Fixed DEF DedicatedAim
  <2>4. CASE SaveState
    <3>1. Same /\ cmd'.steps = Tail(cmd.steps) /\ st' = cmd.st /\ UNCHANGED conf
      BY <2>2, <2>4 DEF SaveState
    <3>2. \/ plugin = "mem0" /\ Tail(cmd.steps) = <<"save config", "restart", "loaded">>
          \/ /\ plugin = "ogmemory" /\ conf = cmd.conf
             /\ Tail(cmd.steps) = <<"restart", "loaded">>
      BY <2>4, DedicatedStep DEF SaveState
    <3>3. \/ /\ plugin' = "mem0" /\ cmd'.steps = <<"save config", "restart", "loaded">>
             /\ st' = cmd'.st
          \/ /\ cmd'.steps = <<"restart", "loaded">>
             /\ st' = cmd'.st /\ conf' = cmd'.conf
      BY <3>1, <3>2, Fixed
    <3> QED
      BY <2>3, <3>1, <3>3 DEF DedicatedProgress
  <2>5. CASE SaveConfig
    <3>1. Same /\ cmd'.steps = Tail(cmd.steps) /\ conf' = cmd.conf /\ UNCHANGED st
      BY <2>2, <2>5 DEF SaveConfig
    <3>2. \/ plugin = "mem0" /\ st = cmd.st /\ Tail(cmd.steps) = <<"restart", "loaded">>
          \/ /\ plugin = "ogmemory"
             /\ Tail(cmd.steps) = <<"save state", "restart", "loaded">>
      BY <2>5, DedicatedStep DEF SaveConfig
    <3>3. \/ /\ plugin' = "ogmemory" /\ cmd'.steps = <<"save state", "restart", "loaded">>
             /\ conf' = cmd'.conf
          \/ /\ cmd'.steps = <<"restart", "loaded">>
             /\ st' = cmd'.st /\ conf' = cmd'.conf
      BY <3>1, <3>2, Fixed
    <3> QED
      BY <2>3, <3>1, <3>3 DEF DedicatedProgress
  <2>6. CASE Restart
    <3>1. /\ Same /\ cmd'.steps = Tail(cmd.steps) /\ UNCHANGED <<conf, st>>
          /\ gate' = conf /\ inflight' = {} /\ pending' = {}
      BY <2>2, <2>6 DEF Restart, Restarted
    <3>2. st = cmd.st /\ conf = cmd.conf /\ Tail(cmd.steps) = <<"loaded">>
      BY <2>6, DedicatedStep DEF Restart
    <3>3. /\ cmd'.steps = <<"loaded">>
          /\ st' = cmd'.st /\ conf' = cmd'.conf /\ gate' = conf'
      BY <3>1, <3>2
    <3> QED
      BY <2>3, <3>1, <3>3 DEF DedicatedProgress
  <2>7. CASE Loaded
    <3>1. /\ Same /\ cmd'.steps = Tail(cmd.steps) /\ UNCHANGED <<conf, gate>>
          /\ st' = [st EXCEPT !.loaded = conf, !.active = (@ /\ cmd.act # "finalize"),
                       !.lease = IF cmd.act = "finalize" THEN NoTurn ELSE @]
      BY <2>2, <2>7 DEF Loaded, gateway
    <3>2. /\ conf = cmd.conf /\ gate = conf /\ Tail(cmd.steps) = <<>>
      BY <2>7, DedicatedStep DEF Loaded
    <3>3. cmd.act = "finalize" => ~st'.active
      BY <3>1 DEF Types, SettingTypes, StType
    <3>4. cmd.act = "finalize" => ~conf.capture /\ ~conf.recall
      BY <2>0, <3>2 DEF DedicatedAim
    <3>5. cmd'.steps = <<>> /\ (cmd'.act = "finalize" => Quiet')
      BY <3>1, <3>2, <3>3, <3>4 DEF Quiet
    <3> QED
      BY <2>3, <3>1, <3>5 DEF DedicatedProgress
  <2> QED
    BY <1>1, <2>1, <2>4, <2>5, <2>6, <2>7, Configuring
<1>2. CASE cmd.act \notin Acts
  <2>1. PICK r \in Runs :
           \/ \E s \in Scopes : PrepareDedicated(r, s)
           \/ \E p \in {"ingest", "qa"} : SetPhaseDedicated(r, p)
           \/ FinalizeDedicated(r)
    <3>1. cmd'.act # cmd.act
      BY <1>2
    <3>2. ~ (cmd.steps # <<>> /\ NextStep) /\ ~ UNCHANGED cmd
      BY <3>1 DEF NextStep, CmdShape
    <3>3. ~ \E r \in Runs, t \in Turns : WaitReady(r, t)
      BY DEF WaitReady, Acts
    <3> QED
      BY <3>2, <3>3, CmdMoves DEF PrepareShared, SetPhaseShared, FinalizeShared
  <2>2. MayCall(r) /\ UNCHANGED <<conf, gateway, st>>
    BY <2>1, Issued
  <2>3. plugin = "mem0" \/ plugin = "ogmemory"
    BY PluginFacts DEF Types, SettingTypes
  <2>4. ASSUME NEW s \in Scopes, PrepareDedicated(r, s)
        PROVE  DedicatedAim' /\ DedicatedProgress'
    <3>1. /\ cmd'.by = r /\ cmd'.act = "prepare" /\ cmd'.steps = Reconfigure
          /\ cmd'.conf = Entry(<<r, s>>, "ingest")
          /\ cmd'.st = [active |-> TRUE, owner |-> r, scope |-> s, phase |-> "ingest",
                        loaded |-> NoEntry, lease |-> NoTurn,
                        seen |-> IF st.owner = r THEN st.seen \cup {s} ELSE {s}]
          /\ plugin = "mem0" => st.lease = NoTurn
      BY <2>4 DEF PrepareDedicated, Command
    <3>2. cmd'.st \in StType
      BY <3>1 DEF StType, Phases, Types, SettingTypes
    <3>3. <<r, s>> \in Users \cup {Outside}
      BY DEF Users
    <3>4. cmd'.conf \in ConfType /\ cmd'.conf.commit = "manual"
      BY <3>1, <3>3, EntryFacts DEF Phases
    <3>5. DedicatedAim'
      BY <3>1, <3>2, <3>4, Fixed DEF DedicatedAim
    <3>6. cmd'.st.lease = NoTurn
      BY <3>1
    <3> QED
      BY <2>2, <3>1, <3>5, <3>6, Fixed DEF DedicatedProgress
  <2>5. ASSUME NEW p \in {"ingest", "qa"}, SetPhaseDedicated(r, p)
        PROVE  DedicatedAim' /\ DedicatedProgress'
    <3>1. /\ cmd'.by = r /\ cmd'.act = "set_phase" /\ cmd'.steps \in {<<>>, Reconfigure}
          /\ cmd'.conf = Entry(<<st.owner, st.scope>>, p)
          /\ cmd'.st = [st EXCEPT !.phase = p, !.loaded = NoEntry]
          /\ st.active /\ st.owner = r
      BY <2>5 DEF SetPhaseDedicated, Command
    <3>2. /\ cmd'.st \in StType /\ cmd'.st.loaded = NoEntry /\ cmd'.st.phase = p
          /\ cmd'.st.owner = r /\ cmd'.st.scope = st.scope /\ cmd'.st.active
          /\ cmd'.st.lease = st.lease
      BY <3>1 DEF StType, Phases, Types, SettingTypes
    <3>3. st.scope \in Scopes /\ <<st.owner, st.scope>> \in Users
      BY <3>1 DEF MessInv, Answerable, Users
    <3>4. cmd'.conf \in ConfType /\ cmd'.conf.commit = "manual"
      BY <3>1, <3>3, EntryFacts DEF Phases
    <3>5. DedicatedAim'
      BY <3>1, <3>2, <3>3, <3>4, Fixed DEF DedicatedAim
    <3> QED
      BY <2>2, <3>1, <3>2, <3>5, Fixed DEF DedicatedProgress
  <2>6. CASE FinalizeDedicated(r)
    <3>1. /\ cmd'.by = r /\ cmd'.act = "finalize" /\ cmd'.steps = Reconfigure
          /\ cmd'.conf = Entry(conf.user, "inactive")
          /\ cmd'.st = [st EXCEPT !.active = (plugin = "mem0" /\ @), !.phase = "inactive",
                                  !.loaded = NoEntry]
          /\ plugin = "mem0" => st.owner = r
      BY <2>6 DEF FinalizeDedicated, Command
    <3>2. /\ cmd'.st \in StType /\ cmd'.st.loaded = NoEntry
          /\ cmd'.st.owner = st.owner /\ cmd'.st.scope = st.scope
          /\ cmd'.st.active = (plugin = "mem0" /\ st.active) /\ cmd'.st.lease = st.lease
      BY <3>1 DEF StType, Phases, Types, SettingTypes
    <3>3. conf.user \in Users \cup {Outside}
      BY DEF Types, SettingTypes, ConfType
    <3>4. /\ cmd'.conf \in ConfType /\ cmd'.conf.commit = "manual"
          /\ ~cmd'.conf.capture /\ ~cmd'.conf.recall
      <4>1. "inactive" \in Phases
        BY DEF Phases
      <4> DEFINE E == Entry(conf.user, "inactive")
      <4>2. /\ E \in ConfType /\ E.commit = "manual"
            /\ E.capture = ("inactive" = "ingest") /\ E.recall = ("inactive" = "qa")
        BY <3>3, <4>1, EntryFacts, Zenon
      <4>3. ~E.capture /\ ~E.recall
        BY <4>2
      <4> HIDE DEF E
      <4>4. cmd'.conf = E
        BY <3>1 DEF E
      <4> QED
        BY <4>2, <4>3, <4>4
    <3>5. cmd'.st.active => cmd'.st.scope \in Scopes
      BY <3>2 DEF MessInv
    <3>6. DedicatedAim'
      BY <2>3, <3>1, <3>2, <3>4, <3>5, Fixed DEF DedicatedAim
    <3> QED
      BY <2>2, <3>1, <3>2, <3>6, Fixed DEF DedicatedProgress
  <2> QED
    BY <2>1, <2>4, <2>5, <2>6
<1> QED
  BY <1>1, <1>2

LEMMA LoadedKeeps ==
    ASSUME PluginIndInv, [Next]_vars
    PROVE  LoadedInv'
<1> USE DEF PluginIndInv
<1> SUFFICES ASSUME ~Shared PROVE LoadedInv'
  BY Fixed DEF LoadedInv
<1>1. conf'.commit = "manual"
  BY ConfFrame, DedicatedStep, SharedStep DEF SaveConfig, SetField, Set, DedicatedInv,
       DedicatedAim, DedicatedProgress, LoadedInv
<1>2. CASE SaveState
  <2>1. st' = cmd.st /\ cmd.st.loaded = NoEntry
    BY <1>2, DedicatedStep DEF SaveState, DedicatedInv, DedicatedAim, DedicatedProgress
  <2> QED
    BY <1>1, <2>1 DEF LoadedInv
<1>3. CASE Loaded
  <2>1. /\ st'.loaded = conf /\ st'.owner = st.owner /\ st'.scope = st.scope
        /\ st'.phase = st.phase /\ st'.active = (st.active /\ cmd.act # "finalize")
        /\ UNCHANGED <<conf, gate>>
    BY <1>3 DEF Loaded, gateway, Types, SettingTypes, StType
  <2>2. gate = conf /\ st = cmd.st /\ conf = cmd.conf /\ cmd.act \in Acts
    BY <1>3, DedicatedStep DEF Loaded
  <2>3. cmd.act # "finalize" => conf = Entry(<<st.owner, st.scope>>, st.phase)
    BY <2>2 DEF DedicatedInv, DedicatedAim, DedicatedProgress
  <2> QED
    BY <1>1, <2>1, <2>2, <2>3, Fixed DEF LoadedInv
<1>4. CASE SaveConfig
  <2>1. UNCHANGED <<st, gate>>
    BY <1>4 DEF SaveConfig, gateway
  <2>2. plugin = "mem0" => st.loaded = NoEntry
    BY <1>4, DedicatedStep DEF SaveConfig, DedicatedInv, DedicatedAim, DedicatedProgress
  <2> QED
    BY <1>1, <2>1, <2>2, Fixed DEF LoadedInv
<1>5. CASE ~SaveState /\ ~Loaded /\ ~SaveConfig
  <2>1. UNCHANGED conf
    BY <1>5, ConfFrame, SharedStep DEF SetField, Set
  <2>2. /\ st'.loaded = st.loaded /\ st'.owner = st.owner /\ st'.scope = st.scope
        /\ st'.phase = st.phase /\ st'.active = st.active
    <3>1. UNCHANGED st \/ \E t \in Turns \cup {NoTurn} : st' = [st EXCEPT !.lease = t]
      BY <1>5, StFrame DEF AfterAgent, BeforeAgent
    <3> QED
      BY <3>1 DEF Types, SettingTypes, StType
  <2>3. UNCHANGED gate \/ st.loaded = NoEntry
    BY GateFrame, DedicatedStep DEF DedicatedInv, DedicatedAim, DedicatedProgress
  <2> QED
    BY <1>1, <2>1, <2>2, <2>3, Fixed DEF LoadedInv
<1> QED
  BY <1>2, <1>3, <1>4, <1>5

\* What the gateway begins to work on, it is configured for; a restart drops it.
LEMMA WorkKeeps ==
    ASSUME PluginIndInv, [Next]_vars
    PROVE  WorkInv'
<1> USE DEF PluginIndInv
<1> SUFFICES ASSUME ~Shared PROVE WorkInv'
  BY Fixed DEF WorkInv
<1>1. CASE inflight' = {} /\ pending' = {}
  BY <1>1 DEF WorkInv
<1>2. ASSUME NEW r \in Runs, AgentCall(r) PROVE WorkInv'
  <2>1. gate = Entry(turn[r].id.user, turn[r].id.kind)
    BY <1>2 DEF AgentCall, TurnInv
  <2>2. UNCHANGED <<gate, pending>> /\ inflight' = inflight \cup {turn[r].id}
    BY <1>2 DEF AgentCall
  <2> QED
    BY <2>1, <2>2 DEF WorkInv
<1>3. ASSUME NEW t \in Turns, GatewayAnswers(t) \/ GatewayCaptures(t) PROVE WorkInv'
  <2>1. UNCHANGED gate /\ inflight' \cup pending' \subseteq inflight \cup pending
    BY <1>3 DEF GatewayAnswers, GatewayCaptures
  <2> QED
    BY <2>1 DEF WorkInv
<1>4. CASE UNCHANGED <<inflight, pending, gate>>
  BY <1>4 DEF WorkInv
<1> QED
  BY <1>1, <1>2, <1>3, <1>4, WorkFrame, GateFrame DEF Restarted

LEMMA MarksKeep ==
    ASSUME PluginIndInv, [Next]_vars
    PROVE  MarksInv'
<1> USE DEF PluginIndInv
<1> SUFFICES ASSUME ~Shared PROVE MarksInv'
  BY Fixed DEF MarksInv
<1>1. /\ \A t \in Turns : store[t.user] \subseteq store'[t.user]
      /\ recalled \subseteq recalled'
      /\ \A m \in marks : m.turn \in Turns
  BY MemoryKeeps, TurnFacts DEF Types, GatewayTypes
<1>0. ASSUME NEW m \in marks
      PROVE  IF m.hook = "recall" THEN <<m.turn, m.turn.user>> \in recalled'
             ELSE m.turn \in store'[m.turn.user]
  BY <1>1 DEF MarksInv
<1>2. CASE UNCHANGED marks
  BY <1>0, <1>2, Fixed DEF MarksInv
<1>3. ASSUME NEW r \in Runs, NEW t \in Turns, BeforeAgent(r, t) PROVE MarksInv'
  BY <1>3 DEF BeforeAgent, MarksInv
<1>4. ASSUME NEW t \in Turns, GatewayAnswers(t) PROVE MarksInv'
  <2>1. InForce.user = t.user
    BY <1>4, RightSettings DEF GatewayAnswers
  <2>2. \/ UNCHANGED marks
        \/ /\ marks' = marks \cup {[turn |-> t, hook |-> "recall"]}
           /\ <<t, t.user>> \in recalled'
    BY <1>4, <2>1 DEF GatewayAnswers
  <2>3. ASSUME NEW m \in marks'
        PROVE  IF m.hook = "recall" THEN <<m.turn, m.turn.user>> \in recalled'
               ELSE m.turn \in store'[m.turn.user]
    <3>1. CASE m \in marks
      BY <1>0, <3>1
    <3>2. CASE m \notin marks
      BY <2>2, <3>2
    <3> QED
      BY <3>1, <3>2
  <2> QED
    BY <2>3, Fixed DEF MarksInv
<1>5. ASSUME NEW t \in Turns, GatewayCaptures(t) PROVE MarksInv'
  <2>1. InForce.user = t.user /\ t.user \in Users
    BY <1>5, RightSettings, TurnFacts DEF GatewayCaptures
  <2>2. \/ UNCHANGED marks
        \/ /\ marks' = marks \cup {[turn |-> t, hook |-> "capture"]}
           /\ t \in store'[t.user]
    BY <1>5, <2>1 DEF GatewayCaptures, Types, MemoryTypes
  <2>3. ASSUME NEW m \in marks'
        PROVE  IF m.hook = "recall" THEN <<m.turn, m.turn.user>> \in recalled'
               ELSE m.turn \in store'[m.turn.user]
    <3>1. CASE m \in marks
      BY <1>0, <3>1
    <3>2. CASE m \notin marks
      BY <2>2, <3>2
    <3> QED
      BY <3>1, <3>2
  <2> QED
    BY <2>3, Fixed DEF MarksInv
<1> QED
  BY <1>2, <1>3, <1>4, <1>5, MarksFrame

\* The lease: who has it, and whose receipts are in the log.
LEMMA LeaseFrame ==
    ASSUME [Next]_vars
    PROVE  \/ SaveState \/ Loaded
           \/ \E r \in Runs : \/ AgentCall(r) \/ AfterAgent(r) \/ GiveUp(r) \/ Kill(r)
                              \/ \E t \in Turns : BeforeAgent(r, t)
           \/ \E t \in Turns : GatewayAnswers(t) \/ GatewayCaptures(t)
           \/ /\ UNCHANGED <<st, turn, asked, marks>>
              /\ UNCHANGED <<inflight, pending>> \/ Restarted
  BY StFrame, TurnFrame, AskedFrame, MarksFrame, WorkFrame

\* A turn that ends and a gateway that stops take nothing from anyone.
LEMMA LeaseShrinks ==
    ASSUME PluginIndInv, [Next]_vars, plugin = "mem0", st'.lease = st.lease,
           UNCHANGED <<asked, marks>>,
           inflight' \subseteq inflight, pending' \subseteq pending,
           \A x \in Runs : turn'[x].id = turn[x].id /\ turn'[x].at \in {turn[x].at, "none"}
    PROVE  LeaseInv'
  BY Fixed DEF PluginIndInv, LeaseInv

LEMMA LeaseKeeps ==
    ASSUME PluginIndInv, [Next]_vars
    PROVE  LeaseInv'
<1> USE DEF PluginIndInv
<1> SUFFICES ASSUME plugin = "mem0" PROVE LeaseInv'
  BY Fixed DEF LeaseInv
<1>0. ~Shared
  BY PluginFacts DEF Types, SettingTypes
<1>a. ASSUME NEW q \in Runs, NEW r \in Runs, turn[q].at # "none", turn[r].at # "none"
      PROVE  q = r
  BY <1>0, <1>a DEF TurnInv
<1>1. CASE SaveState
  <2>1. st'.lease = st.lease /\ UNCHANGED <<asked, marks, inflight, pending, turn>>
    BY <1>1, DedicatedStep DEF SaveState, gateway
  <2> QED
    BY <2>1, LeaseShrinks
<1>2. CASE Loaded
  <2>1. /\ UNCHANGED <<asked, marks, inflight, pending, turn>>
        /\ inflight = {} /\ pending = {} /\ cmd.steps # <<>>
    BY <1>2, DedicatedStep DEF Loaded, gateway, Step
  <2>2. \A r \in Runs : turn'[r].at = "none"
    BY <2>1, Busy
  <2> QED
    BY <2>1, <2>2, Fixed DEF LeaseInv
<1>3. ASSUME NEW r \in Runs, AgentCall(r) PROVE LeaseInv'
  <2> DEFINE t == turn[r].id
  <2>1. /\ turn[r].at = "allowed" /\ t \notin asked /\ t = st.lease /\ \A m \in marks : m.turn = t
    BY <1>3 DEF AgentCall, LeaseInv
  <2>2. marks = {}
    BY <2>1 DEF LeaseInv
  <2>3. t \notin pending
    BY <2>1 DEF Types, GatewayTypes
  <2>4. /\ UNCHANGED <<st, marks, pending>> /\ inflight' = inflight \cup {t}
        /\ \A x \in Runs : turn'[x].id = turn[x].id
        /\ turn'[r].at = "calling" /\ \A x \in Runs : x # r => turn'[x].at = "none"
    BY <1>3, <1>a, <2>1 DEF AgentCall, Types, RunTypes
  <2> HIDE DEF t
  <2>5. \A x \in Runs : turn'[x].at # "none" => st'.lease = turn'[x].id /\ turn'[x].at = "calling"
    BY <2>1, <2>4 DEF t
  <2> QED
    BY <2>1, <2>2, <2>3, <2>4, <2>5, Fixed DEF LeaseInv
<1>4. ASSUME NEW r \in Runs, AfterAgent(r) PROVE LeaseInv'
  <2> DEFINE t == turn[r].id
  <2>1. /\ turn[r].at = "answered" /\ t \notin inflight /\ t = st.lease /\ \A m \in marks : m.turn = t
    BY <1>4 DEF AfterAgent, LeaseInv
  <2>2. /\ UNCHANGED <<asked, marks, inflight, pending>>
        /\ turn' = [turn EXCEPT ![r].at = "none"]
    BY <1>4 DEF AfterAgent, gateway
  <2>3. CASE UNCHANGED st
    <3>1. \A x \in Runs : turn'[x].id = turn[x].id /\ turn'[x].at \in {turn[x].at, "none"}
      BY <2>2 DEF Types, RunTypes
    <3> QED
      BY <2>2, <2>3, <3>1, LeaseShrinks
  <2>4. CASE Proven(t)
    <3>1. inflight = {}
      BY <2>1 DEF LeaseInv
    <3>2. \A x \in Runs : turn'[x].at = "none"
      BY <1>a, <2>1, <2>2 DEF Types, RunTypes
    <3>3. NativeReceipt(t)
      BY <2>4 DEF Proven
    <3>4. ASSUME NEW p \in pending, p.kind = "ingest" PROVE FALSE
      <4>1. p = t
        BY <2>1, <3>4 DEF LeaseInv
      <4>2. Cardinality({m \in marks : m.hook = "capture"}) = 1
        BY <3>3, <3>4, <4>1 DEF NativeReceipt
      <4>3. {m \in marks : m.hook = "capture"} # {}
        <5> SUFFICES ASSUME {m \in marks : m.hook = "capture"} = {}
                     PROVE  Cardinality({m \in marks : m.hook = "capture"}) = 0
          BY <4>2
        <5> QED
          BY FS_EmptySet
      <4>4. PICK m \in marks : m.hook = "capture"
        BY <4>3
      <4> QED
        BY <2>1, <4>1, <4>4 DEF LeaseInv
    <3> QED
      BY <2>2, <3>1, <3>2, <3>4, Fixed DEF LeaseInv
  <2> QED
    BY <1>4, <2>3, <2>4 DEF AfterAgent
<1>5. ASSUME NEW r \in Runs, GiveUp(r) \/ Kill(r) PROVE LeaseInv'
  <2>1. /\ turn' = [turn EXCEPT ![r].at = "none"] /\ UNCHANGED <<asked, marks, st>>
        /\ inflight' \subseteq inflight /\ pending' \subseteq pending
    BY <1>5 DEF GiveUp, Kill, MaybeRestarted, Restarted, gateway
  <2>2. \A x \in Runs : turn'[x].id = turn[x].id /\ turn'[x].at \in {turn[x].at, "none"}
    BY <2>1 DEF Types, RunTypes
  <2> QED
    BY <2>1, <2>2, LeaseShrinks
<1>6. ASSUME NEW r \in Runs, NEW t \in Turns, BeforeAgent(r, t) PROVE LeaseInv'
  <2>1. st.lease = NoTurn /\ t \notin asked /\ st.owner = r
    BY <1>0, <1>6 DEF BeforeAgent, Allowed, InPhase
  <2>2. inflight = {} /\ \A p \in pending : p.kind # "ingest"
    BY <2>1, TurnFacts DEF LeaseInv, Types, GatewayTypes
  <2>3. /\ UNCHANGED <<asked, inflight, pending>> /\ marks' = {}
        /\ turn' = [turn EXCEPT ![r] = [id |-> t, at |-> "allowed"]]
        /\ st' = [st EXCEPT !.lease = t]
    BY <1>6 DEF BeforeAgent
  <2>4. st'.lease = t
    BY <2>3 DEF Types, SettingTypes, StType
  <2>5. ASSUME NEW x \in Runs, turn'[x].at # "none" PROVE turn'[x] = [id |-> t, at |-> "allowed"]
    BY <1>0, <2>1, <2>3, <2>5 DEF TurnInv, Types, RunTypes
  <2> QED
    BY <2>1, <2>2, <2>3, <2>4, <2>5, Fixed DEF LeaseInv
<1>7. ASSUME NEW t \in Turns, GatewayAnswers(t) PROVE LeaseInv'
  <2>1. /\ t \in inflight /\ inflight' = inflight \ {t} /\ pending' = pending \cup {t}
        /\ marks' \in {marks, marks \cup {[turn |-> t, hook |-> "recall"]}}
        /\ UNCHANGED <<asked, st>>
        /\ turn' = [r \in Runs |-> IF turn[r] = [id |-> t, at |-> "calling"]
                                   THEN [id |-> t, at |-> "answered"] ELSE turn[r]]
    BY <1>7 DEF GatewayAnswers
  <2>2. t = st.lease /\ t \in asked
    BY <2>1 DEF LeaseInv, Types, GatewayTypes
  <2>3. ASSUME NEW m \in marks' PROVE m \in marks \/ (m.turn = t /\ m.hook = "recall")
    BY <2>1
  <2>4. ASSUME NEW r \in Runs
        PROVE  /\ turn'[r].id = turn[r].id /\ (turn'[r].at # "none" => turn[r].at # "none")
               /\ turn'[r].at = "allowed" => turn[r].at = "allowed"
               /\ turn'[r].at = "answered" => turn[r].at = "answered" \/ turn[r].id = t
    BY <2>1
  <2>5. /\ inflight' \cap pending' = {} /\ \A x \in inflight' : x = st'.lease
        /\ \A x \in pending' : x.kind = "ingest" => x = st'.lease
    BY <2>1, <2>2 DEF LeaseInv
  <2>6. ASSUME NEW r \in Runs
        PROVE  /\ turn'[r].at # "none" =>
                    st'.lease = turn'[r].id /\ \A m \in marks' : m.turn = turn'[r].id
               /\ turn'[r].at = "allowed" => turn'[r].id \notin asked'
               /\ turn'[r].at = "answered" => turn'[r].id \notin inflight'
    BY <2>1, <2>2, <2>3, <2>4 DEF LeaseInv
  <2>7. ASSUME NEW m \in marks'
        PROVE  /\ m.turn \in asked'
               /\ m.hook = "capture" => m.turn \notin inflight' \cup pending'
    BY <2>1, <2>2, <2>3 DEF LeaseInv
  <2> QED
    BY <2>5, <2>6, <2>7, Fixed DEF LeaseInv
<1>8. ASSUME NEW t \in Turns, GatewayCaptures(t) PROVE LeaseInv'
  <2>1. /\ t \in pending /\ pending' = pending \ {t}
        /\ UNCHANGED <<asked, inflight, st, turn>>
        /\ \/ UNCHANGED marks
           \/ InForce.capture /\ marks' = marks \cup {[turn |-> t, hook |-> "capture"]}
    BY <1>8 DEF GatewayCaptures
  <2>2. t \in asked /\ (InForce.capture => t = st.lease)
    BY <1>0, <2>1, RightSettings DEF LeaseInv, Types, GatewayTypes
  <2>3. ASSUME NEW m \in marks' PROVE m \in marks \/ (m.turn = t /\ t = st.lease)
    BY <2>1, <2>2
  <2>4. ASSUME NEW r \in Runs, turn[r].at # "none" PROVE \A m \in marks' : m.turn = turn[r].id
    BY <2>3, <2>4 DEF LeaseInv
  <2>5. ASSUME NEW m \in marks'
        PROVE  /\ m.turn \in asked'
               /\ m.hook = "capture" => m.turn \notin inflight' \cup pending'
    BY <2>1, <2>2, <2>3 DEF LeaseInv
  <2> QED
    BY <2>1, <2>4, <2>5, Fixed DEF LeaseInv
<1>9. CASE /\ UNCHANGED <<st, turn, asked, marks>>
           /\ UNCHANGED <<inflight, pending>> \/ Restarted
  <2>1. inflight' \subseteq inflight /\ pending' \subseteq pending
    BY <1>9 DEF Restarted
  <2> QED
    BY <1>9, <2>1, LeaseShrinks
<1> QED
  BY <1>1, <1>2, <1>3, <1>4, <1>5, <1>6, <1>7, <1>8, <1>9, LeaseFrame

\* Who is to be asked: only a finalize that succeeds takes a run off the hook, and
\* then the runtime is quiet; a refused run did not own it.
LEMMA MessKeeps ==
    ASSUME PluginIndInv, [Next]_vars
    PROVE  MessInv'
<1> USE DEF PluginIndInv
<1> SUFFICES ASSUME ~Shared PROVE MessInv'
  BY Fixed DEF MessInv
<1> DEFINE Still(r) == r \in Runs /\ life'[r] \in {"live", "failed", "killed"}
<1>1. CASE SaveState \/ SaveConfig \/ Restart \/ Loaded
  <2>1. cmd.steps # <<>> /\ UNCHANGED life
    BY <1>1 DEF SaveState, SaveConfig, Restart, Loaded, Step
  <2>2. cmd.act \in Acts /\ cmd.by \in Runs /\ life[cmd.by] = "live" /\ DedicatedAim
    BY <1>1, <2>1, Busy, DedicatedStep
       DEF SaveState, SaveConfig, Restart, Loaded, DedicatedInv
  <2>3. Still(cmd.by)
    BY <2>1, <2>2
  <2>4. plugin = "mem0" => st'.owner = cmd.by
    <3>1. CASE SaveState
      BY <2>2, <3>1 DEF SaveState, DedicatedAim
    <3>2. CASE SaveConfig \/ Restart
      BY <2>2, <3>2, DedicatedStep DEF SaveConfig, Restart, DedicatedAim
    <3>3. CASE Loaded
      <4>1. st = cmd.st /\ st'.owner = st.owner
        BY <3>3, DedicatedStep DEF Loaded, Types, SettingTypes, StType
      <4> QED
        BY <2>2, <4>1 DEF DedicatedAim
    <3> QED
      BY <1>1, <3>1, <3>2, <3>3
  <2>5. st'.active => Still(st'.owner) /\ st'.scope \in Scopes
    <3>1. CASE SaveState
      BY <2>2, <2>3, <3>1, PluginFacts DEF SaveState, DedicatedAim, Acts, Answerable
    <3>2. CASE SaveConfig \/ Restart
      BY <2>1, <3>2 DEF SaveConfig, Restart, MessInv, Answerable
    <3>3. CASE Loaded
      <4>1. st'.owner = st.owner /\ st'.scope = st.scope /\ (st'.active => st.active)
        BY <3>3 DEF Loaded, Types, SettingTypes, StType
      <4> QED
        BY <2>1, <4>1 DEF MessInv, Answerable
    <3> QED
      BY <1>1, <3>1, <3>2, <3>3
  <2> QED
    BY <2>2, <2>3, <2>4, <2>5, Fixed DEF MessInv, Answerable
<1>2. CASE ~(SaveState \/ SaveConfig \/ Restart \/ Loaded)
  <2>1. UNCHANGED conf
    BY <1>2, ConfFrame, SharedStep DEF SetField, Set
  <2>2. st'.owner = st.owner /\ st'.scope = st.scope /\ st'.active = st.active
    <3>1. UNCHANGED st \/ \E t \in Turns \cup {NoTurn} : st' = [st EXCEPT !.lease = t]
      BY <1>2, StFrame DEF AfterAgent, BeforeAgent
    <3> QED
      BY <3>1 DEF Types, SettingTypes, StType
  <2>3. Quiet => Quiet'
    BY <2>1, <2>2, GateFrame DEF Quiet, Restarted
  <2>4. CASE \A r \in Runs : Answerable(r) => life'[r] \in {"live", "failed", "killed"}
    BY <2>2, <2>3, <2>4, Fixed DEF MessInv, Answerable
  <2>5. CASE Returns
    <3>1. cmd.act = "finalize" => Quiet
      BY <2>5, DedicatedLits DEF Returns, DedicatedInv, DedicatedProgress, Acts, Reconfigure,
           StepsAre
    <3>2. cmd.act # "finalize" => UNCHANGED life
      BY <2>5, Busy DEF Returns, Types, RunTypes
    <3>3. CASE cmd.act = "finalize"
      BY <2>2, <2>3, <2>5, <3>1, <3>3, Busy DEF MessInv, Quiet, Returns
    <3>4. CASE cmd.act # "finalize"
      BY <2>4, <3>2, <3>4 DEF Answerable
    <3> QED
      BY <3>3, <3>4
  <2>6. CASE Fails
    <3>1. \A r \in Runs : life'[r] \in {life[r], "failed"}
      BY <2>6, Busy DEF Fails, Types, RunTypes
    <3> QED
      BY <2>4, <3>1 DEF Answerable
  <2>7. ASSUME NEW q \in Runs, Start(q) \/ Kill(q) PROVE MessInv'
    <3>1. \A r \in Runs : life'[r] = life[r] \/ life'[r] \in {"live", "killed"}
      BY <2>7 DEF Start, Kill, Types, RunTypes
    <3> QED
      BY <2>4, <3>1 DEF Answerable
  <2>8. ASSUME NEW q \in Runs, Refused(q) PROVE MessInv'
    <3>1. \A r \in Runs : r # q => life'[r] = life[r]
      BY <2>8 DEF Refused, Types, RunTypes
    <3>2. plugin = "mem0" => st.owner # q
      BY <2>8 DEF Refused
    <3>3. st.active => st.owner # q
      <4>1. plugin = "mem0" \/ plugin = "ogmemory"
        BY PluginFacts DEF Types, SettingTypes
      <4> QED
        BY <2>8, <4>1 DEF Refused, Foreign
    <3>4. plugin # "mem0" => st.active
      BY <2>8 DEF Refused, Foreign
    <3>5. st.active => Still(st.owner) /\ st.scope \in Scopes
      BY <3>1, <3>3 DEF MessInv, Answerable
    <3>6. CASE plugin = "mem0"
      <4>1. ASSUME NEW r \in Runs, Answerable(r), r = st.owner PROVE Still(r)
        BY <3>1, <3>2, <3>6, <4>1 DEF Answerable
      <4> QED
        BY <2>2, <2>3, <3>5, <3>6, <4>1, Fixed DEF MessInv, Answerable
    <3>7. CASE plugin # "mem0"
      <4>1. Still(st.owner) /\ st.owner \in Runs
        BY <3>4, <3>5, <3>7 DEF MessInv, Answerable
      <4> QED
        BY <2>2, <3>5, <3>7, <4>1, Fixed DEF MessInv, Answerable
    <3> QED
      BY <3>6, <3>7
  <2> QED
    BY <2>4, <2>5, <2>6, <2>7, <2>8, LifeFrame DEF Answerable
<1> QED
  BY <1>1, <1>2

(***************************************************************************)
(* A shared OpenClaw: one live run, its commands, and what it was told.    *)
(***************************************************************************)
LEMMA OneLiveKeeps ==
    ASSUME PluginIndInv, [Next]_vars
    PROVE  OneLive'
<1> USE DEF PluginIndInv, Types, RunTypes
<1> SUFFICES ASSUME Shared PROVE \A q, r \in Runs : life'[q] = "live" /\ life'[r] = "live" => q = r
  BY Fixed DEF OneLive
<1>1. ASSUME NEW q \in Runs, Start(q) PROVE \A r \in Runs : life'[r] = "live" => r = q
  BY <1>1 DEF Start
<1>2. CASE \A r \in Runs : life'[r] = "live" => life[r] = "live"
  BY <1>2 DEF OneLive
<1>3. ASSUME Returns \/ Fails PROVE \A r \in Runs : life'[r] = "live" => life[r] = "live"
  BY <1>3, Busy DEF Returns, Fails
<1>4. ASSUME NEW q \in Runs, Refused(q) \/ Kill(q)
      PROVE  \A r \in Runs : life'[r] = "live" => life[r] = "live"
  BY <1>4 DEF Refused, Kill
<1> QED
  BY <1>1, <1>2, <1>3, <1>4, LifeFrame

\* The command of a shared OpenClaw, by its kind.
LEMMA SharedShape ==
    ASSUME PluginIndInv, Shared
    PROVE  /\ cmd.act = "prepare" => SharedPrepare
           /\ cmd.act = "set_phase" => SharedSetPhase
           /\ cmd.act = "finalize" => SharedFinalize
  BY DEF PluginIndInv, SharedInv

\* The checks of a session are of wait_ready.
LEMMA CheckIsWait ==
    ASSUME PluginIndInv, Check
    PROVE  cmd.act \notin Acts
<1> USE DEF PluginIndInv
<1> SUFFICES ASSUME cmd.act \in Acts PROVE FALSE
  OBVIOUS
<1>1. cmd.steps # <<>> /\ Head(cmd.steps) \in {"idle", "archived", "settled"}
  BY DEF Check, Step
<1>2. CASE ~Shared
  <2>1. \/ cmd.steps = Reconfigure
        \/ cmd.steps = <<"save config", "restart", "loaded">>
        \/ cmd.steps = <<"save state", "restart", "loaded">>
        \/ cmd.steps = <<"restart", "loaded">>
        \/ cmd.steps = <<"loaded">>
    BY <1>1, <1>2 DEF DedicatedInv, DedicatedProgress
  <2>2. Head(cmd.steps) \in {"save state", "save config", "restart", "loaded"}
    BY <2>1, DedicatedLits, Zenon DEF Reconfigure, StepsAre
  <2> QED
    BY <1>1, <2>2
<1>3. CASE Shared /\ cmd.act = "prepare"
  BY <1>1, <1>3, SharedShape, SharedLits, Zenon DEF SharedPrepare, StepsAre
<1>4. CASE Shared /\ cmd.act = "set_phase"
  BY <1>1, <1>4, SharedShape, SharedLits, Zenon DEF SharedSetPhase, StepsAre
<1>5. CASE Shared /\ cmd.act = "finalize"
  BY <1>1, <1>5, SharedShape, SharedLits, Zenon DEF SharedFinalize, StepsAre
<1> QED
  BY <1>2, <1>3, <1>4, <1>5 DEF Acts

\* A command that sets a field has a snapshot behind it.
LEMMA FieldStep ==
    ASSUME PluginIndInv, SetField
    PROVE  /\ Shared /\ cmd.act \in Acts /\ cmd.by \in Runs /\ life[cmd.by] = "live"
           /\ snapshot[cmd.by] # <<>>
<1> USE DEF PluginIndInv
<1>1. cmd.steps # <<>> /\ Head(cmd.steps) \in Fields /\ \E field \in Fields : Step(field)
  BY DEF SetField, Set, Step
<1>2. /\ Shared /\ cmd.act \in Acts /\ cmd.by \in Runs /\ life[cmd.by] = "live"
  BY <1>1, SharedStep, Busy
<1>3. CASE cmd.act = "prepare"
  <2>1. cmd.steps # <<"snapshot", "user">>
    BY <1>1, SharedLits, Zenon DEF Fields, StepsAre
  <2> QED
    BY <1>1, <1>2, <1>3, <2>1, SharedShape DEF SharedPrepare
<1>4. CASE cmd.act = "set_phase"
  BY <1>1, <1>2, <1>4, SharedShape DEF SharedSetPhase
<1>5. CASE cmd.act = "finalize"
  <2>1. snapshot[cmd.by] = <<cmd.conf>>
    BY <1>1, <1>2, <1>5, SharedShape DEF SharedFinalize
  <2>2. <<cmd.conf>> # <<>>
    OBVIOUS
  <2> QED
    BY <1>2, <2>1, <2>2
<1> QED
  BY <1>2, <1>3, <1>4, <1>5 DEF Acts

LEMMA BegunKeeps ==
    ASSUME PluginIndInv, [Next]_vars
    PROVE  Begun'
<1> USE DEF PluginIndInv, Types
<1>1. \A r \in Runs : life'[r] = "idle" => life[r] = "idle"
  <2>1. ASSUME Returns \/ Fails PROVE \A r \in Runs : life'[r] = "idle" => life[r] = "idle"
    BY <2>1, Busy DEF Returns, Fails, RunTypes
  <2>2. ASSUME NEW q \in Runs, Start(q) \/ Refused(q) \/ Kill(q)
        PROVE  \A r \in Runs : life'[r] = "idle" => life[r] = "idle"
    BY <2>2 DEF Start, Refused, Kill, RunTypes
  <2> QED
    BY <2>1, <2>2, LifeFrame
<1>2. CASE UNCHANGED <<pos, snapshot>>
  BY <1>1, <1>2, Fixed DEF Begun
<1>3. CASE WriteSnapshot
  <2>1. /\ cmd.by \in Runs /\ life[cmd.by] = "live" /\ UNCHANGED pos
        /\ snapshot' = [snapshot EXCEPT ![cmd.by] = <<conf>>]
    BY <1>3, Busy DEF WriteSnapshot, Step
  <2>2. /\ \A r \in Runs : r # cmd.by => snapshot'[r] = snapshot[r]
        /\ snapshot'[cmd.by] # <<>>
    BY <2>1 DEF SettingTypes
  <2> QED
    BY <1>1, <2>1, <2>2, Fixed DEF Begun
<1>4. CASE Returns \/ Fails
  <2>1. cmd.by \in Runs /\ life[cmd.by] = "live" /\ UNCHANGED snapshot
    BY <1>4, Busy DEF Returns, Fails
  <2>2. \A r \in Runs : r # cmd.by => pos'[r] = pos[r]
    BY <1>4, <2>1 DEF Returns, Fails, RunTypes
  <2>3. Shared => /\ pos'[cmd.by].user # Outside => snapshot[cmd.by] # <<>>
                  /\ pos'[cmd.by].kind # "none" => pos'[cmd.by].user # Outside
    <3> SUFFICES ASSUME Shared
                 PROVE  /\ pos'[cmd.by].user # Outside => snapshot[cmd.by] # <<>>
                        /\ pos'[cmd.by].kind # "none" => pos'[cmd.by].user # Outside
      OBVIOUS
    <3>1. CASE Fails
      <4>1. \/ pos'[cmd.by] = NoTurn
            \/ pos'[cmd.by].user = pos[cmd.by].user /\ pos'[cmd.by].kind = "none"
            \/ pos'[cmd.by] = pos[cmd.by]
        BY <2>1, <3>1 DEF Fails, RunTypes
      <4> QED
        BY <2>1, <4>1 DEF Begun, NoTurn
    <3>2. CASE Returns
      <4>1. pos'[cmd.by] = Told(cmd.by) /\ cmd.steps = <<>>
        BY <2>1, <3>2 DEF Returns, RunTypes
      <4>2. CASE cmd.act = "prepare"
        <5>1. pos'[cmd.by].kind = "none"
          BY <4>1, <4>2 DEF Told
        <5>2. snapshot[cmd.by] # <<>>
          BY <4>1, <4>2, SharedShape, SharedLits, Zenon DEF SharedPrepare, StepsAre
        <5> QED
          BY <5>1, <5>2
      <4>3. CASE cmd.act = "set_phase"
        <5>1. pos'[cmd.by].user = pos[cmd.by].user
          BY <2>1, <4>1, <4>3 DEF Told, RunTypes
        <5> QED
          BY <4>3, <5>1, SharedShape DEF SharedSetPhase
      <4>4. CASE cmd.act \notin {"prepare", "set_phase"}
        <5>1. pos'[cmd.by] = pos[cmd.by]
          BY <4>1, <4>4 DEF Told
        <5> QED
          BY <2>1, <5>1 DEF Begun
      <4> QED
        BY <4>2, <4>3, <4>4
    <3> QED
      BY <1>4, <3>1, <3>2
  <2> QED
    BY <1>1, <2>1, <2>2, <2>3, Fixed DEF Begun
<1> QED
  BY <1>2, <1>3, <1>4, PosFrame, SnapshotFrame DEF WriteSnapshot, Returns, Fails

LEMMA SharedKeeps ==
    ASSUME PluginIndInv, [Next]_vars
    PROVE  SharedInv'
<1> USE DEF PluginIndInv, Types
<1> SUFFICES ASSUME Shared, cmd'.act \in Acts
             PROVE  /\ cmd'.act = "prepare" => SharedPrepare'
                    /\ cmd'.act = "set_phase" => SharedSetPhase'
                    /\ cmd'.act = "finalize" => SharedFinalize'
  BY Fixed DEF SharedInv, Acts
<1>0. cmd' # Idle
  BY DEF Idle, Acts
<1> DEFINE Same == /\ cmd'.by = cmd.by /\ cmd'.act = cmd.act /\ cmd'.st = cmd.st
                   /\ cmd'.conf = cmd.conf
<1>n. NextStep => Same /\ cmd'.steps = Tail(cmd.steps)
  BY DEF NextStep, CmdShape
<1> HIDE DEF Same
<1>1. CASE WriteSnapshot
  <2>1. /\ cmd.act = "prepare" /\ Tail(cmd.steps) = <<"user">> /\ SharedPrepare
        /\ cmd.by \in Runs
    BY <1>1, SharedStep, SharedShape, Busy DEF WriteSnapshot, Step
  <2>2. Same /\ cmd'.steps = <<"user">> /\ snapshot'[cmd.by] = <<conf>>
    BY <1>1, <1>n, <2>1 DEF WriteSnapshot, SettingTypes
  <2>3. /\ cmd.st = [scope |-> cmd.st.scope] /\ cmd.st.scope \in Scopes
        /\ cmd.conf \in ConfType /\ cmd.conf.user = <<cmd.by, cmd.st.scope>>
    BY <2>1 DEF SharedPrepare
  <2>4. <<conf>> # <<>>
    OBVIOUS
  <2>5. snapshot'[cmd.by] # <<>>
    BY <2>2, <2>4
  <2>6. SharedPrepare'
    BY <2>2, <2>3, <2>5, Fixed, Zenon DEF Same, SharedPrepare
  <2> QED
    BY <2>1, <2>2, <2>6 DEF Same
<1>2. CASE SetField
  <2>1. PICK field \in Fields : Set(field)
    BY <1>2 DEF SetField
  <2>2. /\ Same /\ cmd'.steps = Tail(cmd.steps) /\ cmd.steps # <<>> /\ Head(cmd.steps) = field
        /\ UNCHANGED <<snapshot, pos>> /\ cmd.conf \in ConfType
    BY <1>n, <2>1, SharedStep DEF Set, Step
  <2>3. /\ conf' = [conf EXCEPT ![field] = cmd.conf[field]] /\ conf \in ConfType
    BY <2>1 DEF Set, SettingTypes
  <2>4. /\ field = "capture" => /\ conf'.capture = cmd.conf.capture /\ conf'.recall = conf.recall
                                /\ conf'.commit = conf.commit /\ conf'.user = conf.user
        /\ field = "recall" => /\ conf'.recall = cmd.conf.recall /\ conf'.capture = conf.capture
                               /\ conf'.commit = conf.commit /\ conf'.user = conf.user
        /\ field = "commit" => /\ conf'.commit = cmd.conf.commit /\ conf'.recall = conf.recall
                               /\ conf'.capture = conf.capture /\ conf'.user = conf.user
        /\ field = "user" => /\ conf'.user = cmd.conf.user /\ conf'.recall = conf.recall
                             /\ conf'.commit = conf.commit /\ conf'.capture = conf.capture
        /\ conf' \in ConfType
    BY <2>2, <2>3 DEF ConfType
  <2>5. CASE cmd.act = "prepare"
    <3>1. SharedPrepare
      BY <2>5, SharedShape
    <3>2. cmd.steps = <<"user">> /\ Tail(cmd.steps) = <<>> /\ field = "user"
      BY <2>2, <3>1, SharedLits, Zenon DEF SharedPrepare, StepsAre, Fields
    <3>3. /\ cmd'.by = cmd.by /\ cmd'.st = cmd.st /\ cmd'.conf = cmd.conf /\ cmd'.steps = <<>>
          /\ snapshot' = snapshot /\ conf'.user = cmd.conf.user
      BY <2>2, <2>4, <3>2 DEF Same
    <3>4. snapshot[cmd.by] # <<>>
      BY <1>2, FieldStep
    <3>5. /\ cmd.st = [scope |-> cmd.st.scope] /\ cmd.st.scope \in Scopes
          /\ cmd.conf \in ConfType /\ cmd.conf.user = <<cmd.by, cmd.st.scope>>
      BY <3>1 DEF SharedPrepare
    <3> HIDE DEF PluginIndInv, Types
    <3> QED
      BY <2>5, <2>2, <3>3, <3>4, <3>5, Fixed, Zenon DEF Same, SharedPrepare
  <2>6. CASE cmd.act = "set_phase"
    <3>1. SharedSetPhase
      BY <2>6, SharedShape
    <3> SUFFICES /\ conf'.user = conf.user
                 /\ \/ cmd'.steps \in {<<"capture", "recall", "commit">>, <<"capture", "recall">>}
                    \/ /\ cmd'.steps \in {<<"recall", "commit">>, <<"recall">>}
                       /\ conf'.capture = cmd.conf.capture
                    \/ /\ cmd'.steps \in {<<"commit">>, <<>>}
                       /\ conf'.capture = cmd.conf.capture /\ conf'.recall = cmd.conf.recall
      BY <2>2, <2>6, <3>1, Fixed DEF Same, SharedSetPhase
    <3>2. CASE cmd.steps = <<"capture", "recall", "commit">>
      BY <2>2, <2>4, <3>2, SharedLits, Zenon DEF StepsAre
    <3>3. CASE cmd.steps = <<"capture", "recall">>
      BY <2>2, <2>4, <3>3, SharedLits, Zenon DEF StepsAre
    <3>4. CASE cmd.steps = <<"recall", "commit">> /\ conf.capture = cmd.conf.capture
      BY <2>2, <2>4, <3>4, SharedLits, Zenon DEF StepsAre
    <3>5. CASE cmd.steps = <<"recall">> /\ conf.capture = cmd.conf.capture
      BY <2>2, <2>4, <3>5, SharedLits, Zenon DEF StepsAre
    <3>6. CASE /\ cmd.steps = <<"commit">>
               /\ conf.capture = cmd.conf.capture /\ conf.recall = cmd.conf.recall
      BY <2>2, <2>4, <3>6, SharedLits, Zenon DEF StepsAre
    <3> QED
      BY <2>2, <3>1, <3>2, <3>3, <3>4, <3>5, <3>6 DEF SharedSetPhase
  <2>7. CASE cmd.act = "finalize"
    <3>1. SharedFinalize /\ snapshot[cmd.by] = <<cmd.conf>>
      BY <2>2, <2>7, SharedShape DEF SharedFinalize
    <3> SUFFICES \/ /\ cmd'.steps = <<"recall", "commit", "user">>
                    /\ conf'.capture = cmd.conf.capture
                 \/ /\ cmd'.steps = <<"commit", "user">>
                    /\ conf'.capture = cmd.conf.capture /\ conf'.recall = cmd.conf.recall
                 \/ /\ cmd'.steps = <<"user">>
                    /\ conf'.capture = cmd.conf.capture /\ conf'.recall = cmd.conf.recall
                    /\ conf'.commit = cmd.conf.commit
                 \/ cmd'.steps = <<>> /\ conf' = cmd.conf
      BY <2>2, <2>7, <3>1, Fixed DEF Same, SharedFinalize
    <3>2. CASE cmd.steps = <<"capture", "recall", "commit", "user">>
      BY <2>2, <2>4, <3>2, SharedLits, Zenon DEF StepsAre
    <3>3. CASE cmd.steps = <<"recall", "commit", "user">> /\ conf.capture = cmd.conf.capture
      BY <2>2, <2>4, <3>3, SharedLits, Zenon DEF StepsAre
    <3>4. CASE /\ cmd.steps = <<"commit", "user">>
               /\ conf.capture = cmd.conf.capture /\ conf.recall = cmd.conf.recall
      BY <2>2, <2>4, <3>4, SharedLits, Zenon DEF StepsAre
    <3>5. CASE /\ cmd.steps = <<"user">>
               /\ conf.capture = cmd.conf.capture /\ conf.recall = cmd.conf.recall
               /\ conf.commit = cmd.conf.commit
      <4>1. field = "user" /\ cmd'.steps = <<>>
        BY <2>2, <3>5, SharedLits, Zenon DEF StepsAre
      <4>2. conf' = cmd.conf
        BY <2>2, <2>4, <3>5, <4>1 DEF ConfType
      <4> QED
        BY <4>1, <4>2
    <3> QED
      BY <2>2, <3>1, <3>2, <3>3, <3>4, <3>5 DEF SharedFinalize
  <2> QED
    BY <2>2, <2>5, <2>6, <2>7 DEF Same
<1>3. CASE ~WriteSnapshot /\ ~SetField
  <2>1. UNCHANGED conf /\ UNCHANGED snapshot
    BY <1>3, ConfFrame, SnapshotFrame, DedicatedStep DEF SaveConfig
  <2>2. UNCHANGED pos
    BY <1>0, PosFrame DEF Returns, Fails
  <2>3. CASE UNCHANGED cmd
    BY <2>1, <2>2, <2>3, SharedShape, Fixed DEF SharedPrepare, SharedSetPhase, SharedFinalize
  <2>4. ASSUME NEW r \in Runs, NEW s \in Scopes, PrepareShared(r, s) PROVE SharedPrepare'
    <3>1. /\ cmd'.by = r /\ cmd'.st = [scope |-> s]
          /\ cmd'.steps = IF snapshot[r] = <<>> THEN <<"snapshot", "user">> ELSE <<"user">>
          /\ cmd'.conf = [conf EXCEPT !.user = <<r, s>>]
      BY <2>4 DEF PrepareShared, Command
    <3>2. cmd'.conf \in ConfType /\ cmd'.conf.user = <<r, s>>
      BY <3>1 DEF ConfType, Users, SettingTypes
    <3>3. cmd'.st = [scope |-> cmd'.st.scope] /\ cmd'.st.scope = s
      BY <3>1
    <3>4. \/ cmd'.steps = <<"snapshot", "user">> /\ snapshot'[r] = <<>>
          \/ cmd'.steps = <<"user">> /\ snapshot'[r] # <<>>
      BY <2>1, <3>1
    <3> QED
      BY <3>1, <3>2, <3>3, <3>4, Fixed DEF SharedPrepare
  <2>5. ASSUME NEW r \in Runs, NEW p \in {"ingest", "qa"}, SetPhaseShared(r, p)
        PROVE  SharedSetPhase'
    <3>1. /\ cmd'.by = r /\ cmd'.st = [scope |-> pos[r].user[2], phase |-> p]
          /\ cmd'.steps \in {<<"capture", "recall", "commit">>, <<"capture", "recall">>}
          /\ cmd'.conf = Entry(pos[r].user, p)
          /\ pos[r].user # Outside /\ life[r] = "live" /\ cmd = Idle
      BY <2>5 DEF SetPhaseShared, Command, MayCall
    <3>2. cmd.act \notin Acts
      BY <3>1 DEF Idle, Acts
    <3>3. conf.user = pos[r].user /\ snapshot[r] # <<>>
      BY <3>1, <3>2 DEF ToldInv, Begun
    <3> QED
      BY <2>1, <2>2, <3>1, <3>3, Fixed DEF SharedSetPhase
  <2>6. ASSUME NEW r \in Runs, FinalizeShared(r) PROVE SharedFinalize'
    <3>1. CASE snapshot[r] = <<>>
      <4>1. cmd'.by = r /\ cmd'.steps = <<>>
        BY <2>6, <3>1 DEF FinalizeShared, Command
      <4> QED
        BY <2>1, <3>1, <4>1 DEF SharedFinalize
    <3>2. CASE snapshot[r] # <<>>
      <4>1. /\ cmd'.by = r /\ cmd'.steps = <<"capture", "recall", "commit", "user">>
            /\ cmd'.conf = snapshot[r][1]
        BY <2>6, <3>2 DEF FinalizeShared, Command
      <4>2. PICK c \in ConfType : snapshot[r] = <<c>>
        BY <3>2 DEF SettingTypes
      <4>3. cmd'.conf = c
        BY <4>1, <4>2
      <4> QED
        BY <2>1, <4>1, <4>2, <4>3, Fixed DEF SharedFinalize
    <3> QED
      BY <3>1, <3>2
  <2>7. /\ ~ \E r \in Runs, t \in Turns : WaitReady(r, t)
        /\ ~ (SaveState \/ SaveConfig \/ Restart \/ Loaded)
        /\ ~Check
    <3>1. ASSUME Check PROVE FALSE
      BY <1>n, <3>1, CheckIsWait DEF Check, Same
    <3>2. ASSUME NEW r \in Runs, NEW t \in Turns, WaitReady(r, t) PROVE FALSE
      <4>1. cmd'.act = "wait_ready"
        BY <3>2 DEF WaitReady
      <4> QED
        BY <4>1 DEF Acts
    <3> QED
      BY <3>1, <3>2, DedicatedStep DEF SaveState, SaveConfig, Restart, Loaded
  <2>8. \/ UNCHANGED cmd
        \/ \E r \in Runs :
              \/ \E s \in Scopes : PrepareShared(r, s)
              \/ \E p \in {"ingest", "qa"} : SetPhaseShared(r, p)
              \/ FinalizeShared(r)
    BY <1>0, <1>3, <2>7, CmdFrame DEF PrepareDedicated, SetPhaseDedicated, FinalizeDedicated
  <2>9. ASSUME NEW r \in Runs
        PROVE  /\ (\E s \in Scopes : PrepareShared(r, s)) => cmd'.act = "prepare"
               /\ (\E p \in {"ingest", "qa"} : SetPhaseShared(r, p)) => cmd'.act = "set_phase"
               /\ FinalizeShared(r) => cmd'.act = "finalize"
    BY DEF PrepareShared, SetPhaseShared, FinalizeShared, Command
  <2> QED
    BY <2>3, <2>4, <2>5, <2>6, <2>8, <2>9
<1> QED
  BY <1>1, <1>2, <1>3

\* A command that is over without being one any more has returned, failed or been
\* killed with its run.
LEMMA Over ==
    ASSUME PluginIndInv, [Next]_vars, cmd.act \in Acts, cmd'.act \notin Acts
    PROVE  Returns \/ Fails \/ \E r \in Runs : Kill(r) /\ cmd.by = r
<1> USE DEF PluginIndInv
<1>1. cmd # Idle /\ \A r \in Runs : ~MayCall(r)
  BY Busy DEF Acts, MayCall
<1>2. ~UNCHANGED cmd /\ ~(cmd.steps # <<>> /\ NextStep)
  BY DEF NextStep, CmdShape
<1>3. cmd' = Idle
  BY <1>1, <1>2, CmdMoves DEF PrepareDedicated, PrepareShared, SetPhaseDedicated,
       SetPhaseShared, FinalizeDedicated, FinalizeShared, WaitReady
<1>4. cmd.act # "wait_ready"
  BY DEF Acts
<1>5. SaveState \/ SaveConfig \/ Restart \/ Loaded \/ SetField \/ WriteSnapshot \/ Check =>
           NextStep /\ cmd.steps # <<>>
  BY DEF SaveState, SaveConfig, Restart, Loaded, SetField, Set, WriteSnapshot, Check, Step
<1>6. \/ Returns \/ Fails \/ CheckFails \/ UNCHANGED cmd
      \/ SaveState \/ SaveConfig \/ Restart \/ Loaded \/ SetField \/ WriteSnapshot \/ Check
      \/ (\E r \in Runs : MayCall(r)) \/ \E r \in Runs : Kill(r) /\ cmd.by = r
  BY ZenonT(30) DEF Next, vars, Start, Refused, Kill, PrepareDedicated, PrepareShared,
       SetPhaseDedicated, SetPhaseShared, FinalizeDedicated, FinalizeShared, AgentCall,
       GiveUp, AfterAgent, BeforeAgent, Commit, WaitReady, GatewayAnswers, GatewayCaptures,
       BackendStep
<1> QED
  BY <1>1, <1>2, <1>4, <1>5, <1>6 DEF CheckFails

LEMMA ToldKeeps ==
    ASSUME PluginIndInv, [Next]_vars
    PROVE  ToldInv'
<1> USE DEF PluginIndInv, Types
<1> SUFFICES ASSUME Shared, NEW r \in Runs, life'[r] = "live", cmd'.act \notin Acts
             PROVE  /\ pos'[r].user # Outside => conf'.user = pos'[r].user
                    /\ pos'[r].kind # "none" => /\ conf'.capture = (pos'[r].kind = "ingest")
                                                /\ conf'.recall = (pos'[r].kind = "qa")
  BY Fixed DEF ToldInv, Acts
<1>1. UNCHANGED conf
  <2>1. ASSUME SetField \/ SaveConfig PROVE FALSE
    <3>1. cmd.act \in Acts /\ NextStep
      BY <2>1, FieldStep, DedicatedStep DEF SaveConfig, SetField, Set
    <3>2. cmd'.act = cmd.act
      BY <3>1 DEF NextStep, CmdShape
    <3> QED
      BY <3>1, <3>2
  <2> QED
    BY <2>1, ConfFrame
<1>2. ASSUME NEW q \in Runs, Start(q) PROVE life[r] = "live" \/ (r = q /\ pos'[r] = NoTurn)
  BY <1>2 DEF Start, Begun, RunTypes
<1>3. life[r] = "live" \/ pos'[r] = NoTurn
  <2>1. ASSUME Returns \/ Fails PROVE life[r] = "live"
    BY <2>1, Busy DEF Returns, Fails, RunTypes
  <2>2. ASSUME NEW q \in Runs, Refused(q) \/ Kill(q) PROVE life[r] = "live"
    BY <2>2 DEF Refused, Kill, RunTypes
  <2> QED
    BY <1>2, <2>1, <2>2, LifeFrame
<1>4. CASE pos'[r] = NoTurn
  BY <1>4 DEF NoTurn
<1>5. CASE life[r] = "live" /\ cmd.act \notin Acts
  <2>1. pos'[r] = pos[r]
    <3>1. ASSUME Returns \/ Fails PROVE pos'[r] = pos[r]
      <4>1. cmd.act \notin {"prepare", "set_phase"} /\ cmd.by \in Runs
        BY <1>5, <3>1, Busy DEF Acts, Returns, Fails
      <4> QED
        BY <3>1, <4>1 DEF Returns, Fails, Told, RunTypes
    <3> QED
      BY <3>1, PosFrame
  <2> QED
    BY <1>1, <1>5, <2>1 DEF ToldInv
<1>6. CASE life[r] = "live" /\ cmd.act \in Acts
  <2>1. cmd.by = r
    BY <1>6, Busy DEF OneLive, Acts
  <2>2. ASSUME NEW q \in Runs, Kill(q), cmd.by = q PROVE FALSE
    BY <2>1, <2>2 DEF Kill, RunTypes
  <2>3. Returns \/ Fails
    BY <1>6, <2>2, Over
  <2>4. cmd.act # "finalize"
    BY <2>1, <2>3 DEF Returns, Fails, RunTypes
  <2>5. CASE cmd.act = "prepare" /\ Fails
    <3>1. pos'[r] = NoTurn
      BY <2>1, <2>5 DEF Fails, RunTypes
    <3> QED
      BY <3>1 DEF NoTurn
  <2>6. CASE cmd.act = "set_phase" /\ Fails
    <3>1. pos'[r].user = pos[r].user /\ pos'[r].kind = "none"
      BY <2>1, <2>6 DEF Fails, RunTypes
    <3> QED
      BY <1>1, <2>1, <2>6, <3>1, SharedShape DEF SharedSetPhase
  <2>7. CASE cmd.act = "prepare" /\ Returns
    <3>1. pos'[r] = [user |-> <<r, cmd.st.scope>>, kind |-> "none", n |-> 0]
      BY <2>1, <2>7 DEF Returns, Told, RunTypes
    <3>2. cmd.steps = <<>> /\ SharedPrepare
      BY <2>7, SharedShape DEF Returns
    <3>3. conf.user = cmd.conf.user
      BY <3>2, SharedLits, Zenon DEF SharedPrepare, StepsAre
    <3>4. cmd.conf.user = <<r, cmd.st.scope>>
      BY <2>1, <3>2 DEF SharedPrepare
    <3> QED
      BY <1>1, <3>1, <3>3, <3>4
  <2>8. CASE cmd.act = "set_phase" /\ Returns
    <3>1. pos'[r].user = pos[r].user /\ pos'[r].kind = cmd.st.phase
      BY <2>1, <2>8 DEF Returns, Told, RunTypes
    <3>2. cmd.steps = <<>> /\ SharedSetPhase
      BY <2>8, SharedShape DEF Returns
    <3>3. conf.capture = cmd.conf.capture /\ conf.recall = cmd.conf.recall
      BY <3>2, SharedLits, Zenon DEF SharedSetPhase, StepsAre
    <3>4. /\ conf.user = pos[r].user /\ cmd.conf = Entry(pos[r].user, cmd.st.phase)
          /\ cmd.st.phase \in Phases /\ pos[r].user \in Users \cup {Outside}
      BY <2>1, <3>2 DEF SharedSetPhase, Phases, RunTypes
    <3> QED
      BY <1>1, <3>1, <3>3, <3>4, EntryFacts
  <2> QED
    BY <1>6, <2>3, <2>4, <2>5, <2>6, <2>7, <2>8 DEF Acts
<1> QED
  BY <1>3, <1>4, <1>5, <1>6

\* The snapshot of the first prepare is the operator's entry, and a finalize that
\* succeeds has put it back.
LEMMA RestoreKeeps ==
    ASSUME PluginIndInv, [Next]_vars
    PROVE  RestoreInv'
<1> USE DEF PluginIndInv, Types
<1> SUFFICES ASSUME Shared, \A r \in Runs : life'[r] \notin {"failed", "killed"}
             PROVE  /\ (\A r \in Runs : life'[r] # "live") => conf' = Original
                    /\ \A r \in Runs : life'[r] = "live" =>
                          /\ snapshot'[r] = <<>> => conf' = Original
                          /\ snapshot'[r] \in {<<>>, <<Original>>}
  BY Fixed DEF RestoreInv
<1>1. \A r \in Runs : life[r] \notin {"failed", "killed"}
  <2>1. ASSUME Returns \/ Fails, NEW r \in Runs, life[r] \in {"failed", "killed"}
        PROVE  life'[r] = life[r]
    BY <2>1, Busy DEF Returns, Fails, RunTypes
  <2>2. ASSUME NEW q \in Runs, Start(q) \/ Refused(q) \/ Kill(q), NEW r \in Runs,
               life[r] \in {"failed", "killed"}
        PROVE  life'[r] = life[r]
    BY <2>2 DEF Start, Refused, Kill, MayCall, RunTypes
  <2> QED
    BY <2>1, <2>2, LifeFrame
<1>2. /\ (\A r \in Runs : life[r] # "live") => conf = Original
      /\ \A r \in Runs : life[r] = "live" =>
            /\ snapshot[r] = <<>> => conf = Original
            /\ snapshot[r] \in {<<>>, <<Original>>}
  BY <1>1 DEF RestoreInv
<1>3. CASE SetField
  <2>1. /\ cmd.by \in Runs /\ life[cmd.by] = "live" /\ snapshot[cmd.by] # <<>>
        /\ UNCHANGED <<life, snapshot>>
    BY <1>3, FieldStep DEF SetField, Set
  <2> QED
    BY <1>2, <2>1 DEF OneLive
<1>4. CASE WriteSnapshot
  <2>1. /\ cmd.by \in Runs /\ life[cmd.by] = "live" /\ UNCHANGED <<life, conf>>
        /\ snapshot' = [snapshot EXCEPT ![cmd.by] = <<conf>>] /\ SharedPrepare
        /\ cmd.steps = <<"snapshot", "user">>
    BY <1>4, SharedStep, SharedShape, Busy DEF WriteSnapshot, Step
  <2>2. snapshot[cmd.by] = <<>>
    BY <2>1, SharedLits, Zenon DEF SharedPrepare, StepsAre
  <2>3. conf = Original
    BY <1>2, <2>1, <2>2
  <2>4. snapshot'[cmd.by] = <<Original>>
    BY <2>1, <2>3 DEF SettingTypes
  <2> QED
    BY <2>1, <2>3, <2>4 DEF OneLive
<1>5. CASE ~SetField /\ ~WriteSnapshot
  <2>1. UNCHANGED conf /\ UNCHANGED snapshot
    BY <1>5, ConfFrame, SnapshotFrame, DedicatedStep DEF SaveConfig
  <2>2. ASSUME NEW r \in Runs, Start(r)
        PROVE  /\ conf = Original /\ snapshot[r] = <<>>
               /\ \A q \in Runs : life'[q] = "live" => q = r
    BY <1>2, <2>2 DEF Start, Begun, RunTypes
  <2>3. ASSUME NEW r \in Runs, Kill(r) \/ Refused(r) PROVE FALSE
    BY <2>3 DEF Kill, Refused, RunTypes
  <2>4. ASSUME Fails PROVE UNCHANGED life
    BY <2>4, Busy DEF Fails, RunTypes
  <2>5. ASSUME Returns, cmd.act # "finalize" PROVE UNCHANGED life
    BY <2>5, Busy DEF Returns, RunTypes
  <2>6. CASE Returns /\ cmd.act = "finalize"
    <3>1. /\ cmd.by \in Runs /\ life[cmd.by] = "live" /\ cmd.steps = <<>> /\ SharedFinalize
          /\ \A r \in Runs : life'[r] # "live"
      BY <2>6, Busy, SharedShape DEF Returns, OneLive, RunTypes
    <3>2. \/ snapshot[cmd.by] = <<>>
          \/ snapshot[cmd.by] = <<cmd.conf>> /\ conf = cmd.conf
      BY <3>1, SharedLits, Zenon DEF SharedFinalize, StepsAre
    <3>3. conf = Original
      <4>1. CASE snapshot[cmd.by] = <<>>
        BY <1>2, <3>1, <4>1
      <4>2. CASE snapshot[cmd.by] = <<cmd.conf>> /\ conf = cmd.conf
        <5>1. <<cmd.conf>> \in {<<>>, <<Original>>}
          BY <1>2, <3>1, <4>2
        <5>2. cmd.conf = Original
          BY <5>1
        <5> QED
          BY <4>2, <5>2
      <4> QED
        BY <3>2, <4>1, <4>2
    <3> QED
      BY <2>1, <3>1, <3>3
  <2>7. CASE UNCHANGED life
    BY <1>2, <2>1, <2>7
  <2>8. ASSUME NEW r \in Runs, Start(r)
        PROVE  /\ (\A q \in Runs : life'[q] # "live") => conf' = Original
               /\ \A q \in Runs : life'[q] = "live" =>
                     /\ snapshot'[q] = <<>> => conf' = Original
                     /\ snapshot'[q] \in {<<>>, <<Original>>}
    BY <2>1, <2>2, <2>8
  <2> QED
    BY <2>3, <2>4, <2>5, <2>6, <2>7, <2>8, LifeFrame
<1> QED
  BY <1>3, <1>4, <1>5

LEMMA SharedWorkKeeps ==
    ASSUME PluginIndInv, [Next]_vars
    PROVE  SharedWork'
<1> USE DEF PluginIndInv, Types
<1> SUFFICES ASSUME Shared, ~left', NEW t \in inflight'
             PROVE  \E r \in Runs : turn'[r] = [id |-> t, at |-> "calling"]
  BY Fixed DEF SharedWork
<1>1. ~left /\ ~ \E r \in Runs : GiveUp(r)
  BY LeftFrame DEF GiveUp, Kill, MemoryTypes
<1>2. ASSUME NEW r \in Runs, AgentCall(r) PROVE t \in inflight \/ turn'[r] = [id |-> t, at |-> "calling"]
  <2>1. turn'[r].id = turn[r].id /\ turn'[r].at = "calling" /\ inflight' = inflight \cup {turn[r].id}
    BY <1>2 DEF AgentCall, RunTypes
  <2>2. turn' \in [Runs -> [id : Turns \cup {NoTurn},
                            at : {"none", "allowed", "calling", "answered"}]]
    BY RunsKeep, Fixed DEF RunTypes
  <2> QED
    BY <2>1, <2>2
<1>3. CASE t \notin inflight
  <2>1. \E r \in Runs : AgentCall(r)
    BY <1>3, WorkFrame DEF Restarted, GatewayAnswers, GatewayCaptures
  <2> QED
    BY <1>2, <1>3, <2>1
<1>4. CASE t \in inflight
  <2>1. PICK r \in Runs : turn[r] = [id |-> t, at |-> "calling"]
    BY <1>1, <1>4 DEF SharedWork
  <2>2. turn[r].at = "calling"
    BY <2>1
  <2>3. ASSUME NEW q \in Runs, AgentCall(q) \/ AfterAgent(q) PROVE turn'[r] = turn[r]
    BY <2>2, <2>3 DEF AgentCall, AfterAgent, RunTypes
  <2>4. ASSUME NEW q \in Runs, NEW x \in Turns, BeforeAgent(q, x) PROVE turn'[r] = turn[r]
    BY <2>2, <2>4 DEF BeforeAgent, MayCall, RunTypes
  <2>5. ASSUME NEW q \in Runs, Kill(q) PROVE turn'[r] = turn[r]
    <3>1. q # r
      BY <2>2, <2>5 DEF Kill, Asking
    <3> QED
      BY <2>5, <3>1 DEF Kill, RunTypes
  <2>6. ASSUME NEW x \in Turns, GatewayAnswers(x) PROVE turn'[r] = turn[r]
    <3>1. x # t
      BY <2>6 DEF GatewayAnswers
    <3> QED
      BY <2>1, <2>6, <3>1 DEF GatewayAnswers
  <2> QED
    BY <1>1, <2>1, <2>3, <2>4, <2>5, <2>6, TurnFrame
<1> QED
  BY <1>3, <1>4

(***************************************************************************)
(* What the properties are about.                                          *)
(***************************************************************************)
LEMMA MemoriesKeep ==
    ASSUME PluginIndInv, [Next]_vars
    PROVE  MemoriesAreClean'
<1> USE DEF PluginIndInv
<1>1. CASE Shared /\ left
  BY <1>1, LeftFrame, Fixed DEF GiveUp, Kill, MemoriesAreClean
<1>2. CASE ~(Shared /\ left)
  <2>1. /\ \A u \in DOMAIN store : \A t \in store[u] : t.kind = "ingest" /\ t.user = u
        /\ \A x \in recalled : x[1].kind = "qa" /\ x[1].user = x[2]
    BY <1>2 DEF MemoriesAreClean
  <2>2. ASSUME NEW t \in Turns, GatewayAnswers(t) \/ GatewayCaptures(t), store' # store
        PROVE  /\ t.kind = "ingest" /\ t.user \in Users
               /\ store' = [store EXCEPT ![t.user] = @ \cup {t}]
    BY <1>2, <2>2, RightSettings, TurnFacts DEF GatewayAnswers, GatewayCaptures
  <2>3. ASSUME NEW t \in Turns, GatewayAnswers(t), recalled' # recalled
        PROVE  t.kind = "qa" /\ recalled' = recalled \cup {<<t, t.user>>}
    BY <1>2, <2>3, RightSettings, TurnFacts DEF GatewayAnswers
  <2>4. DOMAIN store = Users \cup {Outside}
    BY DEF Types, MemoryTypes
  <2>5. \A u \in DOMAIN store' : \A t \in store'[u] : t.kind = "ingest" /\ t.user = u
    <3>1. CASE UNCHANGED store
      BY <2>1, <3>1
    <3>2. ASSUME NEW t \in Turns, GatewayAnswers(t) \/ GatewayCaptures(t), store' # store
          PROVE  \A u \in DOMAIN store' : \A x \in store'[u] : x.kind = "ingest" /\ x.user = u
      BY <2>1, <2>2, <2>4, <3>2
    <3> QED
      BY <3>1, <3>2, StoreFrame
  <2>6. \A x \in recalled' : x[1].kind = "qa" /\ x[1].user = x[2]
    BY <2>1, <2>3, RecalledFrame
  <2> QED
    BY <2>5, <2>6 DEF MemoriesAreClean
<1> QED
  BY <1>1, <1>2

\* A receipt the plugin takes for the turn's is the turn's.
LEMMA ProvenIsSo ==
    ASSUME PluginIndInv, ~Shared, NEW r \in Runs, turn[r].at = "answered", Proven(turn[r].id)
    PROVE  IF turn[r].id.kind = "qa" THEN <<turn[r].id, turn[r].id.user>> \in recalled
           ELSE plugin = "mem0" => turn[r].id \in store[turn[r].id.user]
<1> USE DEF PluginIndInv
<1> DEFINE t == turn[r].id
<1>0. t \in Turns
  BY DEF TurnInv
<1>1. CASE plugin = "mem0"
  <2> DEFINE hook == IF t.kind = "ingest" THEN "capture" ELSE "recall"
  <2>1. Cardinality({m \in marks : m.hook = hook}) = 1
    BY <1>1 DEF Proven, NativeReceipt
  <2>2. {m \in marks : m.hook = hook} # {}
    <3> SUFFICES ASSUME {m \in marks : m.hook = hook} = {}
                 PROVE  Cardinality({m \in marks : m.hook = hook}) = 0
      BY <2>1
    <3> QED
      BY FS_EmptySet
  <2>3. PICK m \in marks : m.hook = hook
    BY <2>2
  <2>4. m.turn = t
    BY <1>1, <2>3 DEF LeaseInv
  <2>5. IF m.hook = "recall" THEN <<m.turn, m.turn.user>> \in recalled
        ELSE m.turn \in store[m.turn.user]
    BY <2>3 DEF MarksInv
  <2>6. t.kind = "qa" \/ t.kind = "ingest"
    BY <1>0, TurnFacts
  <2>7. CASE t.kind = "qa"
    <3>1. m.hook = "recall"
      BY <2>3, <2>7
    <3> QED
      BY <2>4, <2>5, <2>7, <3>1
  <2>8. CASE t.kind = "ingest"
    <3>1. m.hook # "recall"
      BY <2>3, <2>8
    <3> QED
      BY <2>4, <2>5, <2>8, <3>1
  <2> QED
    BY <2>6, <2>7, <2>8
<1>2. CASE plugin = "ogmemory"
  <2> SUFFICES ASSUME t.kind = "qa" PROVE <<t, t.user>> \in recalled
    BY <1>2
  <2>1. [turn |-> t, hook |-> "recall"] \in marks
    BY <1>2 DEF Proven, QaRecall
  <2> QED
    BY <2>1 DEF MarksInv
<1> QED
  BY <1>1, <1>2, PluginFacts DEF Types, SettingTypes

LEMMA ReceiptsKeep ==
    ASSUME PluginIndInv, [Next]_vars
    PROVE  ReceiptsAreTrue'
<1> USE DEF PluginIndInv
<1>1. /\ \A t \in Turns : store[t.user] \subseteq store'[t.user]
      /\ recalled \subseteq recalled' /\ checked \subseteq Turns
  BY MemoryKeeps, TurnFacts DEF Types, MemoryTypes
<1>2. ASSUME NEW t \in checked
      PROVE  IF t.kind = "qa" THEN <<t, t.user>> \in recalled'
             ELSE plugin = "mem0" => t \in store'[t.user]
  BY <1>1 DEF ReceiptsAreTrue
<1>3. CASE UNCHANGED checked
  BY <1>2, <1>3, Fixed DEF ReceiptsAreTrue
<1>4. ASSUME NEW r \in Runs, AfterAgent(r), ~UNCHANGED checked PROVE ReceiptsAreTrue'
  <2>1. /\ checked' = checked \cup {turn[r].id} /\ ~Shared /\ Proven(turn[r].id)
        /\ turn[r].at = "answered" /\ UNCHANGED memory
    BY <1>4 DEF AfterAgent
  <2>2. IF turn[r].id.kind = "qa" THEN <<turn[r].id, turn[r].id.user>> \in recalled'
        ELSE plugin = "mem0" => turn[r].id \in store'[turn[r].id.user]
    BY <2>1, ProvenIsSo DEF memory
  <2> QED
    BY <1>2, <2>1, <2>2, Fixed DEF ReceiptsAreTrue
<1> QED
  BY <1>3, <1>4, CheckedFrame

-----------------------------------------------------------------------------
LEMMA PluginBegins == Init => PluginIndInv
<1> SUFFICES ASSUME Init PROVE PluginIndInv
  OBVIOUS
<1> USE DEF Init
<1>0. /\ plugin \in Plugins /\ instance.trouble \in Nat
      /\ Shared <=> plugin = "openviking"
  BY PluginFacts
<1>1. cmd.by = NoRun /\ cmd.act = "none" /\ cmd.steps = <<>> /\ cmd.act \notin Acts
  BY DEF Idle, Acts
<1>2. Entry(Outside, "inactive") \in ConfType /\ Original \in ConfType
      /\ Entry(Outside, "inactive").commit = "manual"
  BY EntryFacts DEF Phases
<1>3. /\ conf \in ConfType /\ gate = conf /\ instance \in Instances
      /\ Shared => gate = Original
      /\ ~Shared => conf.commit = "manual" /\ ~conf.capture /\ ~conf.recall
  BY <1>2 DEF Entry
<1>4. /\ st \in StType /\ ~st.active /\ st.loaded = NoEntry
      /\ st.lease = NoTurn
  BY DEF Fresh, StType, Phases
<1>5. \A r \in Runs : turn[r].at = "none" /\ life[r] = "idle" /\ pos[r] = NoTurn /\ snapshot[r] = <<>>
  OBVIOUS
<1>6. Types
  <2>1. SettingTypes
    <3>1. snapshot \in [Runs -> {<<>>} \cup {<<c>> : c \in ConfType}]
      OBVIOUS
    <3> HIDE DEF Init
    <3> QED
      BY <1>3, <1>4, <3>1 DEF SettingTypes
  <2>2. RunTypes
    BY DEF RunTypes, NoTurn
  <2>3. GatewayTypes /\ MemoryTypes
    BY DEF GatewayTypes, MemoryTypes
  <2> QED
    BY <1>0, <2>1, <2>2, <2>3 DEF Types
<1>7. CmdShape /\ WaitInv /\ CommittedIsStored
  BY <1>1 DEF CmdShape, WaitInv, CommittedIsStored, Idle
<1>8. DedicatedInv /\ LoadedInv /\ TurnInv
  <2> HIDE DEF Init
  <2> QED
    BY <1>1, <1>3, <1>4, <1>5 DEF DedicatedInv, LoadedInv, TurnInv
<1>9. WorkInv /\ MarksInv /\ LeaseInv
  BY <1>5 DEF WorkInv, MarksInv, LeaseInv
<1>10. MessInv
  <2> HIDE DEF Init
  <2> QED
    BY <1>3, <1>4 DEF MessInv, Quiet
<1>11. OneLive /\ Begun
  BY <1>5 DEF OneLive, Begun, NoTurn
<1>12. SharedInv /\ ToldInv /\ RestoreInv /\ SharedWork
  BY <1>1, <1>5 DEF SharedInv, ToldInv, RestoreInv, SharedWork, Acts
<1>13. MemoriesAreClean /\ ReceiptsAreTrue
  BY DEF MemoriesAreClean, ReceiptsAreTrue
<1> QED
  BY <1>6, <1>7, <1>8, <1>9, <1>10, <1>11, <1>12, <1>13 DEF PluginIndInv

LEMMA PluginGoesOn == PluginIndInv /\ [Next]_vars => PluginIndInv'
<1> SUFFICES ASSUME PluginIndInv, [Next]_vars PROVE PluginIndInv'
  OBVIOUS
<1>1. Types'
  BY SettingsKeep, RunsKeep, GatewayKeeps, MemoryKeeps, TroubleKeeps DEF Types
<1>2. CmdShape' /\ WaitInv' /\ CommittedIsStored'
  BY CmdKeeps, WaitKeeps, StoredKeeps
<1>3. DedicatedInv' /\ LoadedInv' /\ TurnInv' /\ WorkInv' /\ MarksInv'
  BY DedicatedKeeps, LoadedKeeps, TurnKeeps, WorkKeeps, MarksKeep
<1>4. LeaseInv' /\ MessInv' /\ OneLive' /\ Begun' /\ SharedInv' /\ ToldInv'
  BY LeaseKeeps, MessKeeps, OneLiveKeeps, BegunKeeps, SharedKeeps, ToldKeeps
<1>5. RestoreInv' /\ SharedWork' /\ MemoriesAreClean' /\ ReceiptsAreTrue'
  BY RestoreKeeps, SharedWorkKeeps, MemoriesKeep, ReceiptsKeep
<1> QED
  BY <1>1, <1>2, <1>3, <1>4, <1>5 DEF PluginIndInv

\* The inductive invariant of the plugins holds in every state.
THEOREM PluginInductive == Spec => []PluginIndInv
  BY PluginBegins, PluginGoesOn, PTL DEF Spec

\* A memory is given the history of its own sample and no question is given
\* another's memory, for any runs, samples and requests of any of the plugins.
THEOREM MemoriesStayClean == Spec => []MemoriesAreClean
<1>1. PluginIndInv => MemoriesAreClean
  BY DEF PluginIndInv
<1> QED
  BY PluginInductive, <1>1, PTL

\* What after_agent and wait_ready confirm is so: the turn is in its own memory,
\* the question was given its own, the session is archived and indexed.
THEOREM ConfirmationsHold == Spec => []ConfirmationsAreTrue
<1>1. PluginIndInv => ConfirmationsAreTrue
  <2> SUFFICES ASSUME PluginIndInv PROVE ConfirmationsAreTrue
    OBVIOUS
  <2>1. ReceiptsAreTrue
    BY DEF PluginIndInv
  <2>2. ReadyMeansIndexed
    BY DEF PluginIndInv, WaitInv, CommittedIsStored, ReadyMeansIndexed
  <2> QED
    BY <2>1, <2>2 DEF ConfirmationsAreTrue
<1> QED
  BY PluginInductive, <1>1, PTL

\* The records keep their types, and when every run has finalized well the
\* settings are those from before and a dedicated runtime is free and quiet.
THEOREM PluginComesBack == Spec => []PluginInv
<1>1. PluginIndInv => PluginInv
  <2> SUFFICES ASSUME PluginIndInv PROVE PluginInv
    OBVIOUS
  <2>1. TypeOK
    BY DEF PluginIndInv, Types, SettingTypes, RunTypes, GatewayTypes, MemoryTypes, TypeOK,
           ConfType
  <2>2. SettingsComeBack
    <3> SUFFICES ASSUME \A r \in Runs : life[r] \in {"restored", "refused", "idle"}
                 PROVE  IF Shared THEN conf = Original
                        ELSE ~st.active /\ gate = conf /\ ~conf.capture /\ ~conf.recall
      BY DEF SettingsComeBack
    <3>1. Shared => conf = Original
      BY DEF PluginIndInv, RestoreInv
    <3>2. ~Shared => Quiet
      BY DEF PluginIndInv, MessInv, Answerable
    <3> QED
      BY <3>1, <3>2 DEF Quiet
  <2> QED
    BY <2>1, <2>2 DEF PluginInv
<1> QED
  BY PluginInductive, <1>1, PTL
=============================================================================
