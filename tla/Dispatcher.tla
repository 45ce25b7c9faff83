----------------------------- MODULE Dispatcher -----------------------------
(***************************************************************************)
(* One orchestration run as dispatcher.ts drives it: the scheduler's loop  *)
(* (executeSchedule), a round (runRoundOnce: worker, critic, judge), the   *)
(* deadlines (withTimeout), the best-effort checkpoints (persist, failRun) *)
(* and the resume by the orchestrate_resume tool.  Every change of `run`   *)
(* is an event of Kernel.                                                  *)
(*                                                                         *)
(* A step is a stretch of the code between two awaits whose answers matter *)
(* here, with the checkpoint that closes it.  Refusals of the same stretch *)
(* that lead to the same state (budget denied, host call rejected, answer  *)
(* that does not parse) are one action.  Follow-ups are Followups' matter: *)
(* of them only the frontier that moved during a judgement is kept.        *)
(***************************************************************************)
EXTENDS Kernel, FiniteSets

CONSTANTS
  Agents, Models,   \* each agent, and each model, is the set of executors that have it
  Losable,          \* kinds of checkpoint that storage may fail to write
  MaxFaults         \* bound on the checkpoints lost and the restarts

ASSUME CatalogAssumption == UNION Agents = Executors /\ UNION Models = Executors
ASSUME BoundAssumption == MaxFaults \in Nat

VARIABLES
  pc,          \* what the scheduler does next
  mode,        \* the RoundAction of the round
  target,      \* the executor selected for it
  wait,        \* withTimeout around the session the scheduler waits for
  passed,      \* did the worker's two checks pass, and then the critic's?
  observed,    \* the executor the host reports for the worker
  judgements,  \* judgeAttempts
  closed,      \* rounds.length
  used,        \* usedWorkerSessions
  created,     \* worker sessions the host has created
  executing,   \* worker sessions executing in the host
  fenced,      \* worker sessions fenced against tools
  abandoned,   \* was an interruption left unconfirmed?
  stored,      \* the record orchestration/run/<runID>
  intact,      \* was the last checkpoint written?
  faults,
  unrecorded, \* history: storage lost the last human decision, and has had no write since
  late,        \* the pause an initial run has still to write when a resume overtakes it
  overtaken,   \* history: a resume has overtaken it
  byTool,      \* does the scheduler run inside withResumeLock?
  decided,     \* history: the human requests decided so far
  repeated     \* history: one was decided on a record that had lost a decision

memory == <<mode, target, passed, observed, judgements, closed, used>>
host == <<created, executing, fenced, abandoned>>
storage == <<stored, intact, faults, unrecorded>>
resumes == <<late, overtaken, byTool, decided, repeated>>
vars == <<run, pc, wait, memory, host, storage, resumes>>

-----------------------------------------------------------------------------
(* Values *)

Waiting == {"working", "reviewing", "replanning"}
PCs == {"selecting", "opening", "prompting", "judging", "choosing", "pausing",
        "failing", "done"} \cup Waiting
Modes == {"initial", "human-resume"} \cup Recoveries
Switches == {"switch-model", "switch-agent"}
Waits == {"none", "pending", "interrupting",
          "value", "error", "interrupted", "unconfirmed"}
MaxJudgeRefresh == 3

Checkpoints == {"worker-created", "evidence-ready", "verdict-applied", "contract-revised",
                "human-awaiting", "human-decision", "run-failed"}
NothingStored == [checkpoint |-> "none", state |-> CreateRunState(1)]
Record == [checkpoint : Checkpoints, state : RunState] \cup {NothingStored}
NotLate == CreateRunState(1)    \* a run that waits for a human is never this one

-----------------------------------------------------------------------------
(* Helpers *)

\* persist: one write of the canonical record, best effort.
Write(checkpoint, state) ==
  \/ /\ stored' = [checkpoint |-> checkpoint, state |-> state]
     /\ intact' = TRUE /\ unrecorded' = FALSE /\ UNCHANGED faults
  \/ /\ checkpoint \in Losable /\ faults < MaxFaults
     /\ faults' = faults + 1
     /\ intact' = FALSE /\ UNCHANGED stored
     /\ unrecorded' = (unrecorded \/ checkpoint = "human-decision")

\* Mutant of Checkpoint: the state as it was before the step.
CheckpointBefore(checkpoint) == Write(checkpoint, run)

Checkpoint(checkpoint) == Write(checkpoint, run')

Worker == run.executor.session

\* The defense in depth of the loop.
BudgetGuard == run.round > run.maxRounds \/ closed >= run.maxRounds

\* Identity of the round: what was selected, or the executor the kernel preserved.
RoundPair == IF mode \in {"initial"} \cup Switches THEN target ELSE run.executor.pair

\* The executor of the round just closed, and those of all closed rounds.
Current == run.history[Len(run.history)].pair

Attempts == {run.history[i].pair : i \in DOMAIN run.history}

\* What the judge may switch to: the other model keeps the agent, the other agent the
\* model; a pair tried before is refused.
SwitchTargets(action) ==
  {executor \in Executors \ Attempts :
     \E group \in IF action = "switch-model" THEN Agents ELSE Models :
        {executor, Current} \subseteq group}

-----------------------------------------------------------------------------
\* The scheduler returns, or dies, and its variables with it.
Forgets ==
  /\ mode' = "initial" /\ target' = "none" /\ passed' = FALSE /\ observed' = "none"
  /\ judgements' = 0 /\ closed' = 0 /\ used' = {}

Start ==
  /\ Init
  /\ pc = "selecting" /\ wait = "none"
  /\ mode = "initial" /\ target = "none"
  /\ passed = FALSE /\ observed = "none"
  /\ judgements = 0 /\ closed = 0 /\ used = {}
  /\ created = {} /\ executing = {} /\ fenced = {} /\ abandoned = FALSE
  /\ stored = NothingStored /\ intact = TRUE /\ faults = 0 /\ unrecorded = FALSE
  /\ late = NotLate /\ overtaken = FALSE /\ byTool = FALSE /\ decided = <<>> /\ repeated = FALSE

(* Opening a run and a round *)

\* runOrchestrationOnce: CONTRACT_READY, then the judge's selection.
SelectExecutor(executor) ==
  /\ pc = "selecting"
  /\ ContractReady
  /\ target' = executor
  /\ pc' = "opening"
  /\ UNCHANGED <<wait, mode, passed, observed, judgements, closed, used,
                 host, storage, resumes>>

\* Budget denied, no valid selection: the run fails and leaves no record.
SelectFails ==
  /\ pc = "selecting"
  /\ CommandFailed
  /\ pc' = "done" /\ Forgets
  /\ UNCHANGED <<wait, host, storage, resumes>>

\* createWorker (the host may answer with a session it had handed out before, which
\* the code takes only when it does not know it) and EXECUTION_STARTED.
OpenRound(session) ==
  /\ pc = "opening" /\ mode # "repair-same"
  /\ ~BudgetGuard
  /\ mode # "initial" => session \notin used
  /\ ExecutionStarted([pair |-> RoundPair, session |-> session])
  /\ Checkpoint("worker-created")
  /\ created' = created \cup {session}
  /\ used' = used \cup {session}
  /\ pc' = "prompting"
  /\ UNCHANGED <<wait, mode, target, passed, observed, judgements, closed,
                 executing, fenced, abandoned, resumes>>

\* A repair: the session the kernel preserved.
OpenRepair ==
  /\ pc = "opening" /\ mode = "repair-same"
  /\ ~BudgetGuard
  /\ Worker # NoSession
  /\ ExecutionStarted(run.executor)
  /\ Checkpoint("worker-created")
  /\ pc' = "prompting"
  /\ UNCHANGED <<wait, memory, host, resumes>>

NewSession == CHOOSE session \in Sessions : session \notin created
SessionAnswers == created \cup (IF created = Sessions THEN {} ELSE {NewSession})

\* The guard, a denied budget, a host that creates no session or one already used.
OpenFails ==
  /\ pc = "opening"
  /\ pc' = "failing"
  /\ UNCHANGED <<run, wait, memory, host, storage, resumes>>

-----------------------------------------------------------------------------
(* Waiting for a session, with a deadline (withTimeout) *)

\* The session answers, or the wait is rejected, before the deadline.  A worker's
\* answer is the end of its execution.
Settles(answer) ==
  /\ pc \in Waiting /\ wait = "pending"
  /\ pc = "working" /\ answer = "value" => Worker \notin executing
  /\ wait' = answer
  /\ UNCHANGED <<run, pc, memory, host, storage, resumes>>

\* The deadline: the session is fenced, then the host is asked to interrupt it.
TimesOut ==
  /\ pc \in Waiting /\ wait = "pending"
  /\ wait' = "interrupting"
  /\ fenced' = IF pc = "working" THEN fenced \cup {Worker} ELSE fenced
  /\ UNCHANGED <<run, pc, memory, created, executing, abandoned, storage, resumes>>

InterruptConfirmed ==
  /\ pc \in Waiting /\ wait = "interrupting"
  /\ wait' = "interrupted"
  /\ executing' = IF pc = "working" THEN executing \ {Worker} ELSE executing
  /\ UNCHANGED <<run, pc, memory, created, fenced, abandoned, storage, resumes>>

\* Mutant of ConfirmationExpires: the interruption is waited for without a bound.
ConfirmationAwaited ==
  /\ pc \in Waiting /\ wait = "interrupting"
  /\ pc = "working" => Worker \notin executing
  /\ wait' = "unconfirmed" /\ abandoned' = TRUE
  /\ UNCHANGED <<run, pc, memory, created, executing, fenced, storage, resumes>>

\* The interruption fails, is not confirmed, or one second passes; whatever the
\* session answers after its deadline is dropped.
ConfirmationExpires ==
  /\ pc \in Waiting /\ wait = "interrupting"
  /\ wait' = "unconfirmed" /\ abandoned' = TRUE
  /\ UNCHANGED <<run, pc, memory, created, executing, fenced, storage, resumes>>

\* The host: a worker session comes to the end of its execution.
WorkerEnds(session) ==
  /\ session \in executing
  /\ executing' = executing \ {session}
  /\ UNCHANGED <<run, pc, wait, memory, created, fenced, abandoned, storage, resumes>>

-----------------------------------------------------------------------------
(* The worker of the round *)

PromptDelivered ==
  /\ pc = "prompting"
  /\ executing' = executing \cup {Worker}
  /\ pc' = "working" /\ wait' = "pending"
  /\ UNCHANGED <<run, memory, created, fenced, abandoned, storage, resumes>>

\* The prompt is rejected, or the confirmation of its follow-ups is.  `delivered`: the
\* worker has it all the same.  Nobody interrupts or fences it then.
PromptFails(delivered) ==
  /\ pc = "prompting"
  /\ executing' = IF delivered THEN executing \cup {Worker} ELSE executing
  /\ pc' = "failing"
  /\ UNCHANGED <<run, wait, memory, created, fenced, abandoned, storage, resumes>>

\* The wait was rejected or its interruption not confirmed: the run stays `running`.
WorkerLost ==
  /\ pc = "working" /\ wait \in {"error", "unconfirmed"}
  /\ pc' = "failing" /\ wait' = "none"
  /\ UNCHANGED <<run, memory, host, storage, resumes>>

\* Interrupted, or its result cannot be read, or a model out of the pool ran it:
\* EXECUTION_FINISHED, and the run fails.
WorkerUnusable ==
  /\ pc = "working" /\ wait \in {"value", "interrupted"}
  /\ ExecutionFinished
  /\ pc' = "failing" /\ wait' = "none"
  /\ UNCHANGED <<memory, host, storage, resumes>>

\* EXECUTION_FINISHED with a result; the host may report another executor than asked.
WorkerFinished(checks, executor) ==
  /\ pc = "working" /\ wait = "value"
  /\ ExecutionFinished
  /\ passed' = checks /\ observed' = executor
  /\ pc' = "reviewing" /\ wait' = "none"
  /\ UNCHANGED <<mode, target, judgements, closed, used, host, storage, resumes>>

-----------------------------------------------------------------------------
(* The critic, the planner: a new session each, prompted and waited for *)

PromptHelper ==
  /\ pc \in {"reviewing", "replanning"} /\ wait = "none"
  /\ wait' = "pending"
  /\ UNCHANGED <<run, pc, memory, host, storage, resumes>>

PromptHelperFails ==
  /\ pc \in {"reviewing", "replanning"} /\ wait = "none"
  /\ wait' = "error"
  /\ UNCHANGED <<run, pc, memory, host, storage, resumes>>

Settled == {"value", "error", "interrupted", "unconfirmed"}

\* Mutant of HardFailure: a critic that gave no verdict is left out of the checks.
HardFailureOfWorker(criticPassed) == ~passed

HardFailure(criticPassed) == ~passed \/ ~criticPassed

\* Mutant of Reviewed: an unconfirmed interruption is one more failure of the critic.
ReviewedRegardless(criticPassed) ==
  /\ pc = "reviewing" /\ wait \in Settled
  /\ criticPassed => wait = "value"
  /\ EvidenceReady([round |-> run.round, hardFailure |-> HardFailure(criticPassed)],
                   [pair |-> observed, session |-> Worker])
  /\ Checkpoint("evidence-ready")
  /\ pc' = "judging" /\ wait' = "none"
  /\ passed' = (passed /\ criticPassed)
  /\ judgements' = 1
  /\ UNCHANGED <<mode, target, observed, closed, used, host, resumes>>

\* EVIDENCE_READY: any failure of the critic is a failed check and the judge goes on,
\* except an interruption nobody confirmed.
Reviewed(criticPassed) ==
  /\ pc = "reviewing" /\ wait \in Settled
  /\ criticPassed => wait = "value"
  /\ EvidenceReady([round |-> run.round, hardFailure |-> HardFailure(criticPassed)],
                   [pair |-> observed, session |-> Worker])
  /\ Checkpoint("evidence-ready")
  /\ pc' = (IF wait = "unconfirmed" THEN "failing" ELSE "judging") /\ wait' = "none"
  /\ passed' = (passed /\ criticPassed)
  /\ judgements' = 1
  /\ UNCHANGED <<mode, target, observed, closed, used, host, resumes>>

-----------------------------------------------------------------------------
(* The judge *)

\* The frontier moved during the judgement: the judge is asked again, three times at most.
JudgeAgain ==
  /\ pc = "judging"
  /\ IF judgements < MaxJudgeRefresh
     THEN judgements' = judgements + 1 /\ pc' = pc
     ELSE pc' = "failing" /\ UNCHANGED judgements
  /\ UNCHANGED <<run, wait, mode, target, passed, observed, closed, used,
                 host, storage, resumes>>

\* Budget, judge, frontier or binding fail, or the kernel refuses the verdict.
JudgeFails ==
  /\ pc = "judging"
  /\ pc' = "failing"
  /\ UNCHANGED <<run, wait, memory, host, storage, resumes>>

\* Where the loop goes on after a verdict.
Continuation(state) ==
  IF state.phase \in Terminal THEN "done"
  ELSE IF state.phase = "awaiting-human" THEN "pausing"
  ELSE IF state.phase = "planning" THEN "replanning"
  ELSE IF state.lastVerdict \in Switches THEN "choosing"
  ELSE "opening"

\* VERDICT_RECEIVED on the frontier judged, and the loop's dispatch on the command.
CommitVerdict(v) ==
  /\ pc = "judging"
  /\ \/ Accept(v, 0)
     \/ Stop(v)
     \/ AskHuman(v)
     \/ ExhaustBudget(v)
     \/ BeginNextRound(v)
  /\ Checkpoint("verdict-applied")
  /\ pc' = Continuation(run')
  /\ IF pc' \in {"done", "pausing"} THEN Forgets
     ELSE /\ mode' = v.nextAction
          /\ closed' = closed + 1
          /\ judgements' = 0 /\ passed' = FALSE /\ observed' = "none" /\ target' = "none"
          /\ UNCHANGED used
  /\ UNCHANGED <<wait, host, resumes>>

\* selectModel, selectAgent.
ChooseExecutor(executor) ==
  /\ pc = "choosing"
  /\ executor \in SwitchTargets(mode)
  /\ target' = executor
  /\ pc' = "opening"
  /\ UNCHANGED <<run, wait, mode, passed, observed, judgements, closed, used,
                 host, storage, resumes>>

\* A throttled provider, no valid selection, a pair tried before.
ChooseFails ==
  /\ pc = "choosing"
  /\ pc' = "failing"
  /\ UNCHANGED <<run, wait, memory, host, storage, resumes>>

\* The planner's contract: CONTRACT_READY.
Replanned(maxRounds) ==
  /\ pc = "replanning" /\ wait = "value"
  /\ ContractRevised(maxRounds)
  /\ Checkpoint("contract-revised")
  /\ pc' = "opening" /\ wait' = "none"
  /\ UNCHANGED <<mode, target, passed, observed, judgements, closed, used, host, resumes>>

\* The planner fails, or its proposal does not parse or asks for more rounds.
ReplanFails ==
  /\ pc = "replanning" /\ wait \in Settled
  /\ pc' = "failing" /\ wait' = "none"
  /\ UNCHANGED <<run, memory, host, storage, resumes>>

-----------------------------------------------------------------------------
(* The end of a run, and what comes after a pause *)

\* Mutant of FailRun: COMMAND_FAILED in whatever phase.
FailRunAlways ==
  /\ pc = "failing"
  /\ run' = [run EXCEPT !.phase = "failed"]
  /\ Checkpoint("run-failed")
  /\ pc' = "done" /\ Forgets
  /\ UNCHANGED <<wait, host, resumes>>

\* failRun: COMMAND_FAILED where the kernel allows it, and the checkpoint.
FailRun ==
  /\ pc = "failing"
  /\ CommandFailed \/ (run.phase = "running" /\ UNCHANGED run)
  /\ Checkpoint("run-failed")
  /\ pc' = "done" /\ Forgets
  /\ UNCHANGED <<wait, host, resumes>>

\* The last write of a run that waits for a human.
RecordPause ==
  /\ pc = "pausing"
  /\ Write("human-awaiting", run)
  /\ pc' = "done" /\ Forgets
  /\ UNCHANGED <<run, wait, host, resumes>>

\* The same, after a resume has overtaken it.
RecordLatePause ==
  /\ late # NotLate
  /\ Write("human-awaiting", late)
  /\ late' = NotLate
  /\ UNCHANGED <<run, pc, wait, memory, host, overtaken, byTool, decided, repeated>>

\* orchestrate_resume gets the lock of the run: no other resume holds it.  The run that
\* paused first never took that lock.
GetsResumeLock ==
  \/ pc = "done" /\ UNCHANGED <<late, overtaken>>
  \/ pc = "pausing" /\ ~byTool /\ late' = run /\ overtaken' = TRUE

\* A human's decision applied to what storage holds.
Decides(d) ==
  /\ Resumable(stored.state)
  /\ ValidHumanDecision(stored.state, d)
  /\ decided' = Append(decided, d.requestID)
  /\ repeated' = (repeated \/ unrecorded)
  /\ byTool' = TRUE

ToolStops(d) ==
  /\ GetsResumeLock /\ d.action = "stop" /\ Decides(d)
  /\ run' = StoppedByHuman(stored.state, d)
  /\ Checkpoint("human-decision")
  /\ pc' = "done" /\ Forgets
  /\ UNCHANGED <<wait, host>>

\* Mutant of ToolResumes: the decision is not recorded before the round opens.
ToolResumesUnrecorded(d) ==
  /\ GetsResumeLock /\ d.action = "resume" /\ Decides(d)
  /\ run' = ResumedByHuman(stored.state, d)
  /\ pc' = "opening" /\ mode' = "human-resume"
  /\ closed' = 0 /\ used' = {stored.state.executor.session}
  /\ target' = "none" /\ passed' = FALSE /\ observed' = "none" /\ judgements' = 0
  /\ UNCHANGED <<wait, host, storage>>

\* The decision is recorded, then the scheduler runs again: a new `rounds`, and of the
\* sessions used only the paused one.
ToolResumes(d) ==
  /\ GetsResumeLock /\ d.action = "resume" /\ Decides(d)
  /\ run' = ResumedByHuman(stored.state, d)
  /\ Checkpoint("human-decision")
  /\ pc' = "opening" /\ mode' = "human-resume"
  /\ closed' = 0 /\ used' = {stored.state.executor.session}
  /\ target' = "none" /\ passed' = FALSE /\ observed' = "none" /\ judgements' = 0
  /\ UNCHANGED <<wait, host>>

\* The plugin and its host are restarted: what is not in storage is gone.
Restart ==
  /\ pc # "done"
  /\ faults < MaxFaults /\ faults' = faults + 1
  /\ pc' = "done" /\ wait' = "none" /\ Forgets
  /\ executing' = {} /\ late' = NotLate /\ intact' = FALSE
  /\ fenced' = {} /\ abandoned' = FALSE
  /\ UNCHANGED <<run, created, stored, unrecorded, overtaken, byTool, decided, repeated>>

-----------------------------------------------------------------------------
Decisions ==
  [requestID    : {stored.state.pendingHuman.requestID},
   action       : {"resume", "stop"},
   newMaxRounds : 0..BudgetCap]

\* The scheduler's own steps: none of them waits for a session.
Scheduler ==
  \/ \E executor \in Executors : SelectExecutor(executor)
  \/ SelectFails
  \/ \E session \in SessionAnswers : OpenRound(session)
  \/ OpenRepair
  \/ OpenFails
  \/ PromptDelivered
  \/ \E delivered \in BOOLEAN : PromptFails(delivered)
  \/ TimesOut
  \/ ConfirmationExpires
  \/ WorkerLost
  \/ WorkerUnusable
  \/ \E checks \in BOOLEAN, executor \in Executors : WorkerFinished(checks, executor)
  \/ PromptHelper
  \/ PromptHelperFails
  \/ \E criticPassed \in BOOLEAN : Reviewed(criticPassed)
  \/ JudgeAgain
  \/ JudgeFails
  \/ \E v \in Verdict : CommitVerdict(v)
  \/ \E executor \in Executors : ChooseExecutor(executor)
  \/ ChooseFails
  \/ \E maxRounds \in 1..BudgetCap : Replanned(maxRounds)
  \/ ReplanFails
  \/ FailRun
  \/ RecordPause

\* The sessions, storage's slowness, humans and restarts.
Environment ==
  \/ \E answer \in {"value", "error"} : Settles(answer)
  \/ InterruptConfirmed
  \/ \E session \in Sessions : WorkerEnds(session)
  \/ RecordLatePause
  \/ \E d \in Decisions : ToolStops(d) \/ ToolResumes(d)
  \/ Restart

Steps == Scheduler \/ Environment

DispatcherSpec == Start /\ [][Steps]_vars

\* The event loop runs the scheduler on and its timers expire; the calls to the host,
\* the judge and storage that have no deadline are answered or rejected.  Nothing is
\* assumed of the sessions' execution, of interruptions or of the human.
FairSpec == DispatcherSpec /\ WF_vars(Scheduler)

-----------------------------------------------------------------------------
(* Properties *)

\* Every variable keeps its type.
DispatcherTypeOK ==
  /\ run \in RunState
  /\ pc \in PCs /\ mode \in Modes /\ wait \in Waits
  /\ target \in Executors \cup {"none"} /\ observed \in Executors \cup {"none"}
  /\ passed \in BOOLEAN /\ judgements \in 0..MaxJudgeRefresh /\ closed \in 0..BudgetCap
  /\ used \subseteq created /\ created \subseteq Sessions
  /\ executing \subseteq created /\ fenced \subseteq created /\ abandoned \in BOOLEAN
  /\ stored \in Record /\ intact \in BOOLEAN /\ faults \in 0..MaxFaults
  /\ late \in RunState /\ overtaken \in BOOLEAN /\ byTool \in BOOLEAN
  /\ decided \in Seq(RequestID) /\ unrecorded \in BOOLEAN /\ repeated \in BOOLEAN

\* What takes a run out of the hands of its own scheduler: a resume that overtakes its
\* pause, or a decision on a record that had lost an earlier one (RequestIsDecidedOnce and
\* NotOffered are violated then).
Astray == overtaken \/ repeated

\* The scheduler, a round and a resume from storage implement the kernel: no failure
\* path and no lost checkpoint takes the run elsewhere, and no restart does, unless the
\* run has gone astray.
KeepsToKernel == Init /\ [][overtaken \/ repeated' \/ Next]_run

\* "The state machine normally prevents issuing a round beyond maxRounds": whatever
\* repairs, replans that shrink the budget and resumes came before, the loop's own
\* guard never has to stop a run.
GuardNeverStopsARun == pc = "opening" => ~BudgetGuard

\* What is completed was done by a worker that ended by itself and passed its checks, and
\* was approved by a critic of the same round that answered in time.
CompletingStep == run.phase # "completed" /\ run'.phase = "completed" => passed
OnlyReviewedWorkCompletes == [][CompletingStep]_vars

\* After an interruption nobody confirmed there is no later dispatch, judgement or
\* outcome, unless the run has gone astray: the session may be working still.
NothingNew ==
  ~overtaken /\ ~repeated' /\ abandoned /\ abandoned' =>
    /\ executing' \subseteq executing
    /\ run'.history = run.history
    /\ run'.round = run.round
NothingAfterAbandon == [][NothingNew]_vars

\* Storage does not say more than what happened to a run that has not gone astray: an end
\* or a pause found there is the run's, unless it is the pause whose decision storage has
\* lost, and a scheduler whose last checkpoint was written leaves the state it ended in.
StoredIsTrue ==
  ~Astray =>
    /\ stored.state.phase \in Terminal \cup {"awaiting-human"} /\ ~unrecorded =>
         stored.state = run
    /\ pc = "done" /\ stored # NothingStored /\ intact => stored.state = run

\* "Exactly one call wins", which the lock of the run and the stored decision are for: a
\* request for a human is decided once, so that a paused run is resumed into one round
\* and a stopped run is never resumed.
RequestIsDecidedOnce ==
  \A i, j \in DOMAIN decided : decided[i] = decided[j] => i = j

\* The same of a run that has not gone astray: a decision on a record that had lost one is
\* the only other way to decide a request again, whatever other checkpoints are lost.
RequestIsDecidedOnceInTurn == ~Astray => RequestIsDecidedOnce

\* The decision is in storage "ANTES de qualquer worker nova/efeito" (dispatcher.ts:1849): a
\* run that is being driven is none that storage offers to a human.
NotOffered == ~overtaken /\ pc \notin {"pausing", "done"} => stored.state.phase # "awaiting-human"

\* A run comes back to its caller although worker, critic and planner never answer and
\* their interruption never settles.
RunReturns == []<>(pc = "done")

=============================================================================
