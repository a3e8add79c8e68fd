---------------------------- MODULE LocomoRunner ----------------------------
(***************************************************************************)
(* The stand-alone LoCoMo runner (src/locomo_test): one process runs the   *)
(* steps health_check, ingest, qa, judge and stats over one output         *)
(* directory, may be killed or fail in any of them, and is started again   *)
(* by its operator on what it left there.                                  *)
(*                                                                         *)
(* The disk keeps the run lock, the ingest record, the CSV of answers and  *)
(* meta.json; the rest of the program's state dies with the process.  The  *)
(* gateway and the memory backend live on: they keep what was delivered    *)
(* and go on extracting it.                                                *)
(***************************************************************************)
EXTENDS Integers, Sequences, FiniteSets, SequencesExt

CONSTANTS
    NumSessions,   \* sessions of the data, ingested in this order
    SampleOf,      \* the sample of each question, questions in file order
    Configs,       \* the settings [mode, policy] a run may have
    Parallel,      \* cfg.parallel, the workers that answer questions
    JudgeParallel, \* cfg.judge_env.parallel
    Tries,         \* attempts of one gateway request (retries + 1)
    MaxPending,    \* LOCOMO_OPENVIKING_MAX_PENDING_INGEST_SESSIONS, 0: no limit
    MaxTrouble     \* bound on failures of the outside world and kills together

ASSUME LocomoAssumption ==
    /\ {NumSessions, Parallel, JudgeParallel, Tries} \subseteq Nat \ {0}
    /\ {MaxPending, MaxTrouble} \subseteq Nat
    /\ SampleOf \in Seq(Nat \ {0}) /\ SampleOf # <<>>
    /\ Configs \subseteq [mode : {"openviking", "ogmem", "memcore"},
                          policy : {"isolated", "shared"}]

Sessions == 1..NumSessions
Questions == DOMAIN SampleOf
Samples == Range(SampleOf)

\* What the ingest record says of a session: nothing, sent, or how the wait for
\* its extraction ended (completed_event).
Marks == {"no", "sent", "completed", "timeout"}
Grades == {"", "right", "wrong"}
\* A commit task as the backend reports it: "blank" completed without usage.
TaskStates == {"none", "running", "ok", "blank", "failed"}
WorkStates == {"skip", "queued", "running", "answered", "done", "failed"}

VARIABLES
    cfg,       \* the settings of this output directory
    lock,      \* the run lock file exists
    record,    \* .ingest_record.json
    csv,       \* qa_results.csv: the grades of the rows of each question
    meta,      \* meta.json: rows and graded rows it counted; {} before
    reindex,   \* qa_reindex.json: how the last reindexing before QA ended
    pc,        \* the step of the process; "off" when none runs
    next,      \* the session ingest has reached
    tries,     \* failed attempts of the current request
    marked,    \* ingest_record in memory
    pending,   \* pending_ov_sessions
    wait,      \* where wait_ingest_completion is for the oldest of them
    work,      \* what the executor did with each question
    sample,    \* the sample whose executor is open
    held,      \* rows of the judge in memory
    unsaved,   \* graded questions whose save() is still to come
    delivered, \* sessions whose message has reached the agent
    task,      \* the latest commit task (or ogmem extraction) of each session
    newest,    \* the newest completed commit task of each backend session
    extracted, \* sessions whose memories have been extracted
    indexed,   \* those of them the last successful reindexing found
    logged,    \* an extraction line was logged in the current clock second
    heard,     \* the log since the second this session started shows a line
    faults, kills, resumed, gaveUp \* history: bounds, --resume, timeouts

disk == <<lock, record, csv, meta, reindex>>
memory == <<next, tries, marked, pending, wait, work, sample, held, unsaved>>
server == <<delivered, task, newest, extracted, indexed, logged, heard>>
history == <<faults, kills, resumed, gaveUp>>
vars == <<cfg, disk, pc, memory, server, history>>

UsesOpenViking == cfg.mode = "openviking"
\* The backend session a conversation is committed as: its own one under the
\* isolated policy, the user's only one under the shared policy.
Resource(s) == IF cfg.policy = "isolated" THEN s ELSE 1
Least(S) == {k \in S : \A j \in S : k <= j}
NothingMarked == [s \in Sessions |-> "no"]
NoMeta == [rows |-> -1, graded |-> -1]
Answered(c) == {q \in Questions : c[q] # <<>>}
Ungraded(c) == {q \in Questions : "" \in Range(c[q])}
Graded(g) == g # ""
Rows(c) == UNION {{q} \X DOMAIN c[q] : q \in Questions}
RowCount(c) == Cardinality(Rows(c))
GradedCount(c) == Cardinality({x \in Rows(c) : Graded(c[x[1]][x[2]])})

Init ==
    /\ cfg \in Configs
    /\ lock = FALSE /\ record = NothingMarked
    /\ csv = [q \in Questions |-> <<>>] /\ meta = NoMeta
    /\ reindex = "none"
    /\ pc = "off" /\ next = 1 /\ tries = 0 /\ marked = NothingMarked
    /\ pending = <<>> /\ wait = "task"
    /\ work = [q \in Questions |-> "skip"] /\ sample = 1
    /\ held = [q \in Questions |-> <<>>] /\ unsaved = {}
    /\ delivered = {} /\ task = [s \in Sessions |-> "none"]
    /\ newest = [s \in Sessions |-> "none"] /\ extracted = {} /\ indexed = {}
    /\ logged = FALSE /\ heard = FALSE
    /\ faults = 0 /\ kills = 0 /\ resumed = FALSE /\ gaveUp = {}

(***************************************************************************)
(* The process ends: what it had in memory is gone.                        *)
(***************************************************************************)
Forget ==
    /\ pc' = "off" /\ next' = 1 /\ tries' = 0 /\ marked' = NothingMarked
    /\ pending' = <<>> /\ wait' = "task"
    /\ work' = [q \in Questions |-> "skip"] /\ sample' = 1
    /\ held' = [q \in Questions |-> <<>>] /\ unsaved' = {}

\* An exception or sys.exit leaves run_pipeline through its finally clause.
Abort == Forget /\ lock' = FALSE

\* A failure of the outside world.
Fault == faults + kills < MaxTrouble /\ faults' = faults + 1

Kill ==
    /\ pc # "off" /\ faults + kills < MaxTrouble /\ kills' = kills + 1
    /\ Forget
    /\ UNCHANGED <<cfg, disk, server, faults, resumed, gaveUp>>

(***************************************************************************)
(* Starting: the operator runs the pipeline, whole or with --resume, which *)
(* skips health_check and ingest.  A lock file a killed run left refuses   *)
(* every later one until the operator removes it.                          *)
(***************************************************************************)
\* load_executed_records: questions with a row are not asked again.
Executed == [q \in Questions |-> IF csv[q] = <<>> THEN "queued" ELSE "skip"]

BeginQa ==
    /\ work' = Executed /\ sample' \in Least(Samples)
    /\ pc' = IF UsesOpenViking THEN "reindex" ELSE "qa"

Invoke ==
    /\ pc = "off" /\ ~lock /\ lock' = TRUE
    /\ pc' = "health"
    /\ UNCHANGED <<cfg, record, csv, meta, reindex, memory, server, history>>

Resume ==
    /\ pc = "off" /\ ~lock /\ lock' = TRUE
    /\ resumed' = TRUE
    /\ BeginQa
    /\ UNCHANGED <<cfg, record, csv, meta, reindex, next, tries, marked, pending, wait,
                   held, unsaved, server, faults, kills, gaveUp>>

RemoveLock ==
    /\ pc = "off" /\ lock /\ lock' = FALSE
    /\ UNCHANGED <<cfg, record, csv, meta, reindex, pc, memory, server, history>>

HealthCheck ==
    /\ pc = "health"
    /\ \/ /\ pc' = "ingest" /\ marked' = record
          /\ UNCHANGED <<cfg, disk, next, tries, pending, wait, work, sample,
                         held, unsaved, server, history>>
       \/ /\ Fault /\ Abort
          /\ UNCHANGED <<cfg, record, csv, meta, reindex, server, kills, resumed, gaveUp>>

(***************************************************************************)
(* Ingest: one session after the other.  Nothing is written before all of  *)
(* them are through.                                                       *)
(***************************************************************************)
\* An accepted session whose completion is waited for now: the window is full,
\* or every session has been sent.
Due ==
    /\ pc = "ingest" /\ pending # <<>>
    /\ \/ next > NumSessions
       \/ MaxPending > 0 /\ Len(pending) > MaxPending

Current == pc = "ingest" /\ ~Due /\ next <= NumSessions

SkipIngested ==
    /\ Current /\ tries = 0 /\ marked[next] # "no"
    /\ next' = next + 1
    /\ UNCHANGED <<cfg, disk, pc, tries, marked, pending, wait, work, sample,
                   held, unsaved, server, history>>

\* send_message: what reaches the agent.  oGMemory extracts after each turn.
Post(reached) ==
    /\ delivered' = delivered \union reached
    /\ task' = [s \in Sessions |->
                  IF cfg.mode = "ogmem" /\ s \in reached THEN "running"
                                                         ELSE task[s]]

\* Mutant: a session that could not be sent is left out.
SendOrSkip ==
    /\ Current /\ marked[next] = "no"
    /\ heard' = IF tries = 0 THEN logged ELSE heard
    /\ \/ /\ Post({next}) /\ pc' = "accept" /\ UNCHANGED <<next, faults>>
       \/ /\ Fault /\ Post({}) /\ next' = next + 1 /\ UNCHANGED pc
    /\ UNCHANGED <<disk, tries, marked, pending, wait, work, sample, held, unsaved>>
    /\ UNCHANGED <<cfg, newest, extracted, indexed, logged, kills, resumed, gaveUp>>

\* _send_message_with_retry_diagnostics: a request that failed may still have
\* reached the agent.
Send ==
    /\ Current /\ marked[next] = "no"
    /\ heard' = IF tries = 0 THEN logged ELSE heard
    /\ \/ /\ Post({next})
          /\ pc' = "accept" /\ tries' = 0
          /\ UNCHANGED <<disk, next, marked, pending, wait, work, sample, held,
                         unsaved, faults>>
       \/ /\ Fault /\ \E reached \in SUBSET {next} : Post(reached)
          /\ \/ /\ tries + 1 < Tries /\ tries' = tries + 1
                /\ UNCHANGED <<disk, pc, next, marked, pending, wait, work,
                               sample, held, unsaved>>
             \/ /\ tries + 1 = Tries
                /\ Abort /\ UNCHANGED <<record, csv, meta, reindex>>
    /\ UNCHANGED <<cfg, newest, extracted, indexed, logged, kills, resumed, gaveUp>>

\* commit_openviking_session: a 404 is no error, there is just no task.
Commit ==
    \/ task' = [task EXCEPT ![next] = "running"] /\ UNCHANGED faults
    \/ task' = [task EXCEPT ![next] = "none"] /\ Fault

\* wait_ingest_completion asks for the task only if there is one.
FirstPoll(s, tasks) == IF tasks[s] = "none" THEN "latest" ELSE "task"

\* accept_ingest_session, without waiting; no session file, or a commit that
\* fails, aborts.
CommitSession ==
    /\ pc = "accept" /\ UsesOpenViking
    /\ \/ /\ Commit
          /\ pending' = Append(pending, next)
          /\ wait' = IF pending # <<>> THEN wait ELSE FirstPoll(next, task')
          /\ next' = next + 1 /\ pc' = "ingest"
          /\ UNCHANGED <<disk, tries, marked, work, sample, held, unsaved>>
       \/ /\ Fault /\ Abort
          /\ UNCHANGED <<record, csv, meta, reindex, task>>
    /\ UNCHANGED <<cfg, delivered, newest, extracted, indexed, logged, heard, kills,
                   resumed, gaveUp>>

\* wait_for_ogmem_after_turn_extract: a line since the second it started.
OgmemDone == cfg.mode = "ogmem" => heard

\* The other backends: the session is marked at once; oGMemory's extraction is
\* waited for, on a count of log lines, and its timeout aborts.
MarkSent ==
    /\ pc = "accept" /\ ~UsesOpenViking
    /\ \/ /\ OgmemDone
          /\ marked' = [marked EXCEPT ![next] = "sent"]
          /\ next' = next + 1 /\ pc' = "ingest"
          /\ UNCHANGED <<disk, tries, pending, wait, work, sample, held, unsaved,
                         faults>>
       \/ /\ ~OgmemDone
          /\ IF task[next] = "running" THEN Fault ELSE UNCHANGED faults
          /\ Abort /\ UNCHANGED <<record, csv, meta, reindex>>
    /\ UNCHANGED <<cfg, server, kills, resumed, gaveUp>>

(***************************************************************************)
(* wait_ingest_completion of the oldest pending session: ask for its task, *)
(* fall back to the newest completed task of the backend session, give up  *)
(* at a deadline.  Whatever the end, the session is marked as ingested.    *)
(***************************************************************************)
Oldest == Head(pending)
Newest == newest[Resource(Oldest)]

Finalize(event) ==
    /\ marked' = [marked EXCEPT ![Oldest] = event]
    /\ gaveUp' = IF event = "timeout" THEN gaveUp \union {Oldest} ELSE gaveUp
    /\ pending' = Tail(pending)
    /\ wait' = IF pending' = <<>> THEN "task" ELSE FirstPoll(Head(pending'), task)

\* query_ov_task_token_usage: a settled task with usage answers; without, and
\* at the deadline, the newest completed task does when it has usage.
PollTask ==
    /\ Due /\ wait = "task"
    /\ \/ /\ task[Oldest] # "running"
          /\ IF task[Oldest] = "ok" \/ Newest = "ok"
             THEN Finalize("completed")
             ELSE wait' = "latest" /\ UNCHANGED <<marked, pending, gaveUp>>
          /\ UNCHANGED faults
       \/ /\ task[Oldest] = "running" /\ Fault   \* the deadline
          /\ IF Newest = "ok"
             THEN Finalize("timeout")
             ELSE wait' = "latest" /\ UNCHANGED <<marked, pending, gaveUp>>
       \/ /\ Fault                               \* the request fails
          /\ wait' = "latest" /\ UNCHANGED <<marked, pending, gaveUp>>
    /\ UNCHANGED <<cfg, disk, pc, next, tries, work, sample, held, unsaved,
                   server, kills, resumed>>

\* Mutant: the wait that has run out counts as a completion.
PollLatestOnce ==
    /\ Due /\ wait = "latest" /\ Finalize("completed")
    /\ UNCHANGED <<cfg, disk, pc, next, tries, work, sample, held, unsaved,
                   server, faults, kills, resumed>>

\* Mutant: without a completed task the wait begins again.
PollAgain ==
    /\ Due /\ wait = "latest"
    /\ \/ Newest # "none" /\ Finalize("completed")
       \/ Newest = "none" /\ wait' = "task" /\ UNCHANGED <<marked, pending, gaveUp>>
    /\ UNCHANGED <<cfg, disk, pc, next, tries, work, sample, held, unsaved,
                   server, faults, kills, resumed>>

\* wait_for_ov_latest_task: any completed task of the backend session will do.
\* One without any ends at the deadline.
PollLatest ==
    /\ Due /\ wait = "latest"
    /\ \/ Newest # "none" /\ Finalize("completed")
       \/ Newest = "none" /\ Finalize("timeout")
    /\ UNCHANGED <<cfg, disk, pc, next, tries, work, sample, held, unsaved,
                   server, faults, kills, resumed>>

\* The backend extracts in the background, whoever waits.
Extract(s) ==
    /\ task[s] = "running"
    /\ \E end \in {"ok", "failed"} \union (IF UsesOpenViking THEN {"blank"} ELSE {}) :
          /\ task' = [task EXCEPT ![s] = end]
          /\ IF end = "failed" THEN Fault ELSE UNCHANGED faults
          /\ newest' = IF end = "failed" THEN newest
                       ELSE [newest EXCEPT ![Resource(s)] = end]
          /\ extracted' = IF end = "failed" THEN extracted
                          ELSE extracted \union {s}
          /\ logged' = ((end # "failed" /\ ~UsesOpenViking) \/ logged)
          /\ heard' = ((end # "failed" /\ ~UsesOpenViking) \/ heard)
    /\ UNCHANGED <<cfg, disk, pc, memory, delivered, indexed, kills, resumed, gaveUp>>

\* docker logs --since takes whole seconds: a line of the same second counts.
NextSecond ==
    /\ logged /\ logged' = FALSE
    /\ UNCHANGED <<cfg, disk, pc, memory, delivered, task, newest, extracted,
                   indexed, heard, history>>

\* save_ingest_record opens the file for writing, which empties it, and then
\* writes; a failure is only reported, and QA goes on.
SaveRecord ==
    /\ pc = "ingest" /\ next > NumSessions /\ pending = <<>>
    /\ \/ record' = NothingMarked /\ pc' = "saving" /\ UNCHANGED <<faults, work, sample>>
       \/ /\ Fault /\ BeginQa
          /\ UNCHANGED record
    /\ UNCHANGED <<cfg, lock, csv, meta, reindex, next, tries, marked, pending, wait,
                   held, unsaved, server, kills, resumed, gaveUp>>

WriteRecord ==
    /\ pc = "saving"
    /\ BeginQa
    /\ \/ record' = marked /\ UNCHANGED faults
       \/ Fault /\ UNCHANGED record
    /\ UNCHANGED <<cfg, lock, csv, meta, reindex, next, tries, marked, pending, wait,
                   held, unsaved, server, kills, resumed, gaveUp>>

(***************************************************************************)
(* QA: the questions without a row, one executor for each sample.          *)
(***************************************************************************)
Open == {q \in Questions : SampleOf[q] = sample}
Workers == IF cfg.policy = "shared" THEN 1 ELSE Parallel
InState(st) == {q \in Open : work[q] \in st}

TakeQuestion(q) ==
    /\ pc = "qa" /\ q \in InState({"queued"})
    /\ q \in Least(InState({"queued"}))
    /\ Cardinality(InState({"running", "answered"})) < Workers
    /\ work' = [work EXCEPT ![q] = "running"]
    /\ UNCHANGED <<cfg, disk, pc, next, tries, marked, pending, wait, sample,
                   held, unsaved, server, history>>

\* reindex_ov_memory_root: a tree lock and an exception are tried again until
\* the deadline.  How it ended is written down and QA goes on in either case;
\* when it cannot be written, which empties an older file, the run ends.
Reindex ==
    /\ pc = "reindex"
    /\ \/ pc' = "qa" /\ reindex' = "ok" /\ indexed' = extracted /\ UNCHANGED faults
       \/ pc' = "qa" /\ reindex' = "failed" /\ Fault /\ UNCHANGED indexed
    /\ UNCHANGED <<cfg, lock, record, csv, meta, memory, delivered, task, newest,
                   extracted, logged, heard, kills, resumed, gaveUp>>

LoseReindex ==
    /\ pc = "reindex" /\ Fault
    /\ reindex' = "none" /\ indexed' \in {indexed, extracted}
    /\ Abort
    /\ UNCHANGED <<cfg, record, csv, meta, delivered, task, newest, extracted,
                   logged, heard, kills, resumed, gaveUp>>

\* _process_single_question until its answer; any failure is raised.
AnswerQuestion(q) ==
    /\ pc = "qa" /\ work[q] = "running"
    /\ \/ work' = [work EXCEPT ![q] = "answered"] /\ UNCHANGED faults
       \/ work' = [work EXCEPT ![q] = "failed"] /\ Fault
    /\ UNCHANGED <<cfg, disk, pc, next, tries, marked, pending, wait, sample,
                   held, unsaved, server, kills, resumed, gaveUp>>

\* save_record_to_csv under csv_lock; a failure is only reported.
SaveRow(q) ==
    /\ pc = "qa" /\ work[q] = "answered"
    /\ work' = [work EXCEPT ![q] = "done"]
    /\ \/ csv' = [csv EXCEPT ![q] = Append(@, "")] /\ UNCHANGED faults
       \/ Fault /\ UNCHANGED csv
    /\ UNCHANGED <<cfg, lock, record, meta, reindex, pc, next, tries, marked, pending,
                   wait, sample, held, unsaved, server, kills, resumed, gaveUp>>

\* The executor is left when nothing of it is queued or running, also when the
\* result of a failed question has been raised before that.
NextSample ==
    /\ pc = "qa" /\ InState({"queued", "running", "answered"}) = {}
    /\ \/ /\ InState({"failed"}) = {}
          /\ LET rest == {k \in Samples : k > sample} IN
             IF rest # {} THEN sample' \in Least(rest) /\ UNCHANGED pc
                          ELSE pc' = "judge" /\ UNCHANGED sample
          /\ UNCHANGED <<disk, next, tries, marked, pending, wait, work, held,
                         unsaved>>
       \/ /\ InState({"failed"}) # {}
          /\ Abort /\ UNCHANGED <<record, csv, meta, reindex>>
    /\ UNCHANGED <<cfg, server, history>>

(***************************************************************************)
(* Judge: the rows are read once; each grading replaces the file with all  *)
(* rows as they are in memory then.                                        *)
(***************************************************************************)
LoadRows ==
    /\ pc = "judge"
    /\ \/ /\ Answered(csv) # {}
          /\ held' = csv /\ pc' = "judging"
          /\ UNCHANGED <<disk, next, tries, marked, pending, wait, work, sample,
                         unsaved>>
       \/ /\ Answered(csv) = {}            \* "QA results not found"
          /\ Abort /\ UNCHANGED <<record, csv, meta, reindex>>
    /\ UNCHANGED <<cfg, server, history>>

\* A grading call that fails is the grade WRONG.
GradeRow(q) ==
    /\ pc = "judging" /\ q \in Ungraded(held)
    /\ Cardinality(unsaved \union {p \in Ungraded(held) : p < q}) < JudgeParallel
    /\ \E i \in DOMAIN held[q], g \in {"right", "wrong"} :
          /\ held[q][i] = ""
          /\ held' = [held EXCEPT ![q][i] = g]
    /\ unsaved' = unsaved \union {q}
    /\ UNCHANGED <<cfg, disk, pc, next, tries, marked, pending, wait, work,
                   sample, server, history>>

\* Mutant: the file itself is rewritten, not a copy that replaces it.
SaveInPlace(q) ==
    /\ pc = "judging" /\ q \in unsaved
    /\ \/ /\ csv' = held /\ unsaved' = unsaved \ {q}
          /\ UNCHANGED <<lock, record, meta, reindex, pc, next, tries, marked, pending,
                         wait, work, sample, held, faults>>
       \/ /\ Fault /\ Abort /\ csv' = [p \in Questions |-> <<>>]
          /\ UNCHANGED <<record, meta, reindex>>
    /\ UNCHANGED <<cfg, server, kills, resumed, gaveUp>>

SaveGrades(q) ==
    /\ pc = "judging" /\ q \in unsaved
    /\ \/ /\ csv' = held /\ unsaved' = unsaved \ {q}
          /\ UNCHANGED <<lock, record, meta, reindex, pc, next, tries, marked, pending,
                         wait, work, sample, held, faults>>
       \/ /\ Fault /\ Abort /\ UNCHANGED <<record, csv, meta, reindex>>
    /\ UNCHANGED <<cfg, server, kills, resumed, gaveUp>>

\* Mutant: the gradings are waited for, their saves are not.
JudgeGraded ==
    /\ pc = "judging" /\ Ungraded(held) = {}
    /\ pc' = "stats"
    /\ UNCHANGED <<cfg, disk, memory, server, history>>

JudgeDone ==
    /\ pc = "judging" /\ Ungraded(held) = {} /\ unsaved = {}
    /\ pc' = "stats"
    /\ UNCHANGED <<cfg, disk, memory, server, history>>

\* run_stats counts the rows of the file and writes meta.json; the run ends.
WriteMeta ==
    /\ pc = "stats"
    /\ meta' = [rows |-> RowCount(csv), graded |-> GradedCount(csv)]
    /\ Forget /\ lock' = FALSE
    /\ UNCHANGED <<cfg, record, csv, reindex, server, history>>

Main ==
    \/ HealthCheck \/ SkipIngested \/ Send \/ CommitSession \/ MarkSent
    \/ PollTask \/ PollLatest \/ SaveRecord \/ WriteRecord
    \/ Reindex \/ LoseReindex
    \/ NextSample \/ LoadRows \/ JudgeDone \/ WriteMeta
    \/ \E q \in Questions :
          \/ TakeQuestion(q) \/ AnswerQuestion(q) \/ SaveRow(q)
          \/ GradeRow(q) \/ SaveGrades(q)

Operator == Invoke \/ Resume \/ RemoveLock

Next ==
    \/ Main \/ Operator \/ Kill \/ NextSecond
    \/ \E s \in Sessions : Extract(s)

Spec == Init /\ [][Next]_vars

\* Every step of the process is taken in the end; the operator removes a stale
\* lock and runs the whole pipeline again; the backend works off its tasks.
Fairness ==
    /\ WF_vars(Main) /\ WF_vars(Invoke) /\ WF_vars(RemoveLock)
    /\ \A s \in Sessions : WF_vars(Extract(s))

FairSpec == Spec /\ Fairness

-----------------------------------------------------------------------------
TypeOK ==
    /\ cfg \in Configs /\ lock \in BOOLEAN
    /\ {record, marked} \subseteq [Sessions -> Marks]
    /\ {csv, held} \subseteq [Questions -> Seq(Grades)]
    /\ meta \in [rows : Int, graded : Int] /\ reindex \in {"none", "ok", "failed"}
    /\ pc \in {"off", "health", "ingest", "accept", "saving", "reindex", "qa", "judge",
               "judging", "stats"}
    /\ next \in 1..NumSessions + 1 /\ tries \in 0..Tries - 1
    /\ pending \in Seq(Sessions) /\ wait \in {"task", "latest"}
    /\ work \in [Questions -> WorkStates] /\ sample \in Nat \ {0}
    /\ unsaved \subseteq Questions
    /\ delivered \subseteq Sessions /\ extracted \subseteq Sessions
    /\ indexed \subseteq Sessions
    /\ task \in [Sessions -> TaskStates]
    /\ newest \in [Sessions -> {"none", "ok", "blank"}]
    /\ {faults, kills} \subseteq 0..MaxTrouble
    /\ gaveUp \subseteq Sessions /\ {logged, heard, resumed} \subseteq BOOLEAN

(***************************************************************************)
(* What the ingest record says is true: a session it lists has reached the *)
(* agent, and one it calls completed has been extracted, whichever poll    *)
(* and whichever of the process's lives said so.  Under the shared policy  *)
(* several conversations are one backend session, and the newest completed *)
(* task may be another conversation's: nothing is claimed there.           *)
(***************************************************************************)
RecordIsTrue ==
    \A s \in Sessions :
        /\ record[s] # "no" => s \in delivered
        /\ record[s] = "completed" /\ cfg.policy = "isolated" => s \in extracted

\* A run that was not killed leaves no lock behind that refuses the next one.
LockIsReleased == pc = "off" /\ kills = 0 => ~lock

(***************************************************************************)
(* No question has two rows, however often the run was killed, failed in   *)
(* one of its workers or was started again.                                *)
(***************************************************************************)
OneRowPerQuestion == \A q \in Questions : Len(csv[q]) <= 1

\* What the files of a run say, of its ingest and of its answers.
LocomoInv == TypeOK /\ RecordIsTrue /\ LockIsReleased /\ OneRowPerQuestion

(***************************************************************************)
(* A question is answered on the whole history: unless the operator used   *)
(* --resume, every session has been delivered before any row exists, and,  *)
(* with OpenViking and isolated sessions, extracted unless the runner gave *)
(* up waiting for it, and, when the reindexing before QA succeeded, indexed *)
(* then -- also when earlier runs died during ingest, while saving its     *)
(* record or in between.                                                   *)
(***************************************************************************)
AnsweredOnFullHistory ==
    (Answered(csv) # {} /\ ~resumed) =>
        /\ delivered = Sessions
        /\ UsesOpenViking /\ cfg.policy = "isolated" =>
              /\ Sessions \subseteq extracted \union gaveUp
              /\ reindex = "ok" => Sessions \subseteq indexed \union gaveUp

(***************************************************************************)
(* Answers and grades are kept: no step, a kill between a grading and its  *)
(* save included, takes a row from the file or changes its grade.          *)
(***************************************************************************)
RowsAreKept ==
    [][\A q \in Questions : \A i \in DOMAIN csv[q] :
          /\ i \in DOMAIN csv'[q]
          /\ Graded(csv[q][i]) => csv'[q][i] = csv[q][i]]_vars

(***************************************************************************)
(* A written meta.json counts rows all of which are graded, and the whole  *)
(* file; rows are missing from it only when writing one failed.            *)
(***************************************************************************)
ReportIsComplete ==
    pc = "off" /\ meta # NoMeta =>
        /\ meta.rows = meta.graded
        /\ meta.rows < Len(SampleOf) => faults > 0
        /\ meta.rows <= RowCount(csv)

(***************************************************************************)
(* With failures and kills bounded and the operator starting the pipeline  *)
(* again, the report is written in the end.                                *)
(***************************************************************************)
EventuallyReported == <>(meta # NoMeta)

(***************************************************************************)
(* "Wait until oGMemory logs one more background extraction completion"    *)
(* (eval.py): a session is left only when its own extraction is through.   *)
(***************************************************************************)
ExtractAwaited ==
    cfg.mode = "ogmem" => \A s \in Sessions : marked[s] = "sent" =>
                                                 task[s] # "running"
=============================================================================
