-------------------------- MODULE DispatcherProofs --------------------------
(***************************************************************************)
(* What the dispatcher keeps for every catalog, budget cap and number of   *)
(* lost checkpoints and restarts, as long as the run does not go astray:   *)
(* its steps are the kernel's, so the theorems of KernelProofs are about   *)
(* it too, storage is true, a request is decided once, and nothing follows *)
(* an interruption nobody confirmed.  A run goes astray when a resume      *)
(* overtakes its pause, or is given a pause whose decision storage lost.   *)
(*                                                                         *)
(* The argument: a run that is being driven neither waits nor has ended,   *)
(* so that a pause or an end found in storage is the run's own, if storage *)
(* has not lost its decision; a resume then applies the decision to the    *)
(* run as it is.                                                           *)
(*                                                                         *)
(* What a round has at hand (LoopInv) does not depend on that: types, the  *)
(* budget of a round, and the review behind a completion hold whatever is  *)
(* lost and whoever overtakes.                                             *)
(***************************************************************************)
EXTENDS Dispatcher, KernelProofs

-----------------------------------------------------------------------------
(* What holds whatever is lost, restarted or overtaken *)

Started == {"running", "repairing", "evaluating", "awaiting-human"}
InRound == {"prompting", "working", "reviewing", "judging"}

\* A round is within its budget, and one that has begun is of a session the host created.
Sound(s) ==
  /\ s \in RunState /\ s.round <= s.maxRounds
  /\ s.phase \in Started => s.executor \in ExecutorRef /\ s.executor.session \in created

\* What each place of the scheduler has ready for the next event of the kernel, and for the
\* verdict: what the evidence says of the checks is what the scheduler saw of them.
Ready ==
  /\ pc = "selecting" => mode = "initial"
  /\ pc = "opening" => IF mode \in {"initial"} \cup Switches THEN target \in Executors
                                                             ELSE run.executor \in ExecutorRef
  /\ pc = "opening" /\ mode = "repair-same" => run.executor.session \in created
  /\ pc = "choosing" => mode \in Switches
  /\ pc = "replanning" => mode = "replan" /\ run.executor \in ExecutorRef
  /\ pc \in InRound => /\ run.executor \in ExecutorRef /\ run.executor.session \in created
                       /\ closed < BudgetCap
  /\ pc = "reviewing" => observed \in Executors
  /\ pc = "judging" => run.evidence.hardFailure = ~passed

LoopInv == DispatcherTypeOK /\ Sound(run) /\ Sound(stored.state) /\ Sound(late) /\ Ready

LEMMA FirstRunState ==
  ASSUME NEW maxRounds \in 1..BudgetCap
  PROVE  CreateRunState(maxRounds) \in RunState /\ Sound(CreateRunState(maxRounds))
<1>1. CreateRunState(maxRounds) \in RunState
  BY DEF CreateRunState, RunState, Phases
<1> QED BY <1>1, BudgetCapAssumption DEF Sound, Started, CreateRunState

LEMMA LoopStart == Start => LoopInv
<1> SUFFICES ASSUME Start PROVE LoopInv
  OBVIOUS
<1>1. 1 \in 1..BudgetCap
  BY BudgetCapAssumption
<1>2. run \in RunState /\ Sound(run)
  BY FirstRunState DEF Start, Init
<1>3. Sound(stored.state) /\ Sound(late)
  BY <1>1, FirstRunState DEF Start, NothingStored, NotLate
<1>4. DispatcherTypeOK
  <2>1. pc \in PCs /\ mode \in Modes /\ wait \in Waits /\ judgements \in 0..MaxJudgeRefresh
    BY DEF Start, PCs, Modes, Waits, MaxJudgeRefresh
  <2>2. closed \in 0..BudgetCap /\ faults \in 0..MaxFaults
    BY BudgetCapAssumption, BoundAssumption DEF Start
  <2>3. stored \in Record /\ late \in RunState
    BY <1>1, FirstRunState DEF Start, Record, NotLate
  <2>4. used \subseteq created /\ created \subseteq Sessions /\ executing \subseteq created
        /\ fenced \subseteq created /\ decided \in Seq(RequestID)
    BY DEF Start
  <2>5. unrecorded \in BOOLEAN /\ repeated \in BOOLEAN
        /\ abandoned \in BOOLEAN /\ intact \in BOOLEAN /\ overtaken \in BOOLEAN /\ byTool \in BOOLEAN
        /\ passed \in BOOLEAN /\ target \in Executors \cup {"none"}
        /\ observed \in Executors \cup {"none"}
    BY DEF Start
  <2> QED BY <1>2, <2>1, <2>2, <2>3, <2>4, <2>5 DEF DispatcherTypeOK
<1> QED BY <1>2, <1>3, <1>4 DEF LoopInv, Start, Ready, InRound

\* The executor of a round that opens is a whole one.
LEMMA RoundOpens ==
  ASSUME LoopInv, NEW session \in SessionAnswers, pc = "opening"
  PROVE  [pair |-> RoundPair, session |-> session] \in ExecutorRef /\ session \in Sessions
<1>1. RoundPair \in Executors
  BY DEF RoundPair, LoopInv, Ready, ExecutorRef
<1>2. session \in Sessions
  <2>1. CASE session \in created
    BY <2>1 DEF LoopInv, DispatcherTypeOK
  <2>2. CASE session \notin created
    <3>1. created # Sessions /\ session = NewSession
      BY <2>2 DEF SessionAnswers
    <3>2. \E s \in Sessions : s \notin created
      BY <3>1 DEF LoopInv, DispatcherTypeOK
    <3> QED BY <3>1, <3>2 DEF NewSession
  <2> QED BY <2>1, <2>2
<1> QED BY <1>1, <1>2 DEF ExecutorRef

\* A verdict of the judge.
VerdictOn(v) ==
  \/ Accept(v, 0)
  \/ Stop(v)
  \/ AskHuman(v)
  \/ ExhaustBudget(v)
  \/ BeginNextRound(v)

\* The scheduler takes the run nowhere the kernel would not, whatever came before.
LEMMA SchedulerIsKernel ==
  ASSUME LoopInv, Scheduler
  PROVE  [Next]_run
<1>1. ASSUME NEW executor \in Executors, SelectExecutor(executor)
      PROVE  Next
  BY <1>1 DEF SelectExecutor, Next
<1>2. CASE SelectFails \/ FailRun
  BY <1>2 DEF SelectFails, FailRun, Next
<1>3. ASSUME NEW session \in SessionAnswers, OpenRound(session)
      PROVE  Next
  BY <1>3, RoundOpens DEF OpenRound, Next
<1>4. CASE OpenRepair
  <2>1. run.executor \in ExecutorRef
    BY <1>4 DEF OpenRepair, LoopInv, Ready, Switches
  <2> QED BY <1>4, <2>1 DEF OpenRepair, Next
<1>5. CASE WorkerUnusable
  BY <1>5 DEF WorkerUnusable, Next
<1>6. ASSUME NEW checks \in BOOLEAN, NEW executor \in Executors, WorkerFinished(checks, executor)
      PROVE  Next
  BY <1>6 DEF WorkerFinished, Next
<1>7. ASSUME NEW criticPassed \in BOOLEAN, Reviewed(criticPassed)
      PROVE  Next
  <2> DEFINE evidence == [round |-> run.round, hardFailure |-> HardFailure(criticPassed)]
             executor == [pair |-> observed, session |-> Worker]
  <2>1. EvidenceReady(evidence, executor) /\ pc = "reviewing"
    BY <1>7 DEF Reviewed
  <2>2. run.executor \in ExecutorRef /\ observed \in Executors /\ run.round \in 1..BudgetCap
    BY <2>1, BudgetCapAssumption DEF LoopInv, Ready, InRound, Sound, RunState
  <2>3. executor \in ExecutorRef
    BY <2>2 DEF ExecutorRef, Worker
  <2>4. HardFailure(criticPassed) \in BOOLEAN
    BY DEF HardFailure
  <2> HIDE DEF executor
  <2> QED BY <2>1, <2>2, <2>3, <2>4 DEF Next
<1>8. ASSUME NEW v \in Verdict, CommitVerdict(v)
      PROVE  Next
  <2>1. VerdictOn(v) /\ 0 \in 0..1
    BY <1>8 DEF CommitVerdict, VerdictOn
  <2>2. VerdictReceived
    BY <2>1 DEF VerdictOn, VerdictReceived
  <2> QED BY <2>2 DEF Next
<1>9. ASSUME NEW maxRounds \in 1..BudgetCap, Replanned(maxRounds)
      PROVE  Next
  BY <1>9 DEF Replanned, Next
<1>10. ASSUME NEW executor \in Executors, ChooseExecutor(executor)
       PROVE  UNCHANGED run
  BY <1>10 DEF ChooseExecutor
<1>11. CASE \/ OpenFails \/ PromptDelivered \/ (\E delivered \in BOOLEAN : PromptFails(delivered))
            \/ TimesOut \/ ConfirmationExpires \/ WorkerLost \/ PromptHelper \/ PromptHelperFails
            \/ JudgeAgain \/ JudgeFails \/ ChooseFails \/ ReplanFails \/ RecordPause
  BY <1>11 DEF OpenFails, PromptDelivered, PromptFails, TimesOut, ConfirmationExpires, WorkerLost,
     PromptHelper, PromptHelperFails, JudgeAgain, JudgeFails, ChooseFails, ReplanFails, RecordPause
<1> QED
  BY <1>1, <1>2, <1>3, <1>4, <1>5, <1>6, <1>7, <1>8, <1>9, <1>10, <1>11 DEF Scheduler

\* Steps of the scheduler and of the sessions that leave run and storage as they are.
Still ==
  \/ OpenFails \/ PromptDelivered \/ (\E delivered \in BOOLEAN : PromptFails(delivered))
  \/ TimesOut \/ ConfirmationExpires \/ WorkerLost \/ PromptHelper \/ PromptHelperFails
  \/ JudgeAgain \/ JudgeFails \/ ChooseFails \/ ReplanFails
  \/ (\E executor \in Executors : ChooseExecutor(executor))
  \/ (\E answer \in {"value", "error"} : Settles(answer)) \/ InterruptConfirmed
  \/ (\E session \in Sessions : WorkerEnds(session))

\* Steps of the scheduler that change the run.
Driven ==
  \/ (\E executor \in Executors : SelectExecutor(executor))
  \/ SelectFails
  \/ (\E session \in SessionAnswers : OpenRound(session))
  \/ OpenRepair \/ WorkerUnusable
  \/ (\E checks \in BOOLEAN, executor \in Executors : WorkerFinished(checks, executor))
  \/ (\E criticPassed \in BOOLEAN : Reviewed(criticPassed))
  \/ (\E v \in Verdict : CommitVerdict(v))
  \/ (\E maxRounds \in 1..BudgetCap : Replanned(maxRounds))
  \/ FailRun

\* What was sound stays so while the host creates sessions.
LEMMA SoundStays ==
  ASSUME created \subseteq created', NEW s, Sound(s)
  PROVE  Sound(s)'
BY DEF Sound

\* The state a record holds is that of the run, or of the pause that comes late.
LEMMA RecordsStaySound ==
  ASSUME LoopInv, created \subseteq created', Sound(run)',
         \/ stored' = stored
         \/ \E checkpoint \in Checkpoints, state \in {run', late} :
              stored' = [checkpoint |-> checkpoint, state |-> state],
         late' \in {late, run, NotLate}
  PROVE  stored' \in Record /\ late' \in RunState /\ Sound(stored.state)' /\ Sound(late)'
<1>1. Sound(run) /\ Sound(stored.state) /\ Sound(late) /\ stored \in Record
  BY DEF LoopInv, DispatcherTypeOK
<1>2. Sound(NotLate)
  <2>1. 1 \in 1..BudgetCap
    BY BudgetCapAssumption
  <2> QED BY <2>1, FirstRunState DEF NotLate
<1>3. PICK wasLate, wasStored, next, nextLate, nextStored :
        /\ wasLate = late /\ wasStored = stored.state
        /\ next = run' /\ nextLate = late' /\ nextStored = stored'.state
  OBVIOUS
<1>4. Sound(wasLate)' /\ Sound(wasStored)' /\ Sound(next)'
  BY <1>1, <1>3, SoundStays
<1>5. nextStored \in {wasLate, wasStored, next}
  BY <1>3
<1>6. Sound(nextStored)' /\ nextStored \in RunState
  BY <1>4, <1>5 DEF Sound
<1>7. nextLate \in {wasLate, NotLate} \/ nextLate = run
  BY <1>3
<1>8. Sound(nextLate)' /\ nextLate \in RunState
  <2>1. PICK x : x \in {late, run, NotLate} /\ x = nextLate
    BY <1>3
  <2>2. Sound(x)
    BY <1>1, <1>2, <2>1
  <2> QED BY <2>1, <2>2, SoundStays DEF Sound
<1>9. stored' \in Record
  BY <1>1, <1>3, <1>6 DEF Record
<1> QED BY <1>3, <1>6, <1>8, <1>9 DEF Sound

\* A checkpoint is written, or it is lost.
LEMMA WritesOrLoses ==
  ASSUME LoopInv, NEW checkpoint, NEW state, Write(checkpoint, state)
  PROVE  /\ stored' = stored \/ stored' = [checkpoint |-> checkpoint, state |-> state]
         /\ intact' \in BOOLEAN /\ faults' \in 0..MaxFaults /\ unrecorded' \in BOOLEAN
<1>1. faults \in 0..MaxFaults /\ intact \in BOOLEAN /\ unrecorded \in BOOLEAN
  BY DEF LoopInv, DispatcherTypeOK
<1>2. CASE /\ stored' = [checkpoint |-> checkpoint, state |-> state] /\ intact' = TRUE
           /\ unrecorded' = FALSE /\ faults' = faults
  BY <1>1, <1>2
<1>3. CASE /\ faults < MaxFaults /\ faults' = faults + 1 /\ intact' = FALSE /\ stored' = stored
           /\ unrecorded' = (unrecorded \/ checkpoint = "human-decision")
  <2>1. faults' \in 0..MaxFaults
    BY <1>1, <1>3, BoundAssumption
  <2> QED BY <1>3, <2>1
<1> QED BY <1>2, <1>3 DEF Write

\* Steps that leave the run and storage as they are.
LEMMA StillLoops ==
  ASSUME LoopInv, Still
  PROVE  LoopInv'
<1>1. run' = run /\ stored' = stored /\ late' = late /\ created' = created /\ closed' = closed
      /\ used' = used /\ passed' = passed
      /\ intact' = intact /\ faults' = faults /\ overtaken' = overtaken /\ byTool' = byTool
      /\ decided' = decided /\ mode' = mode /\ observed' = observed
      /\ unrecorded' = unrecorded /\ repeated' = repeated
  BY DEF Still, OpenFails, PromptDelivered, PromptFails, TimesOut, ConfirmationExpires, WorkerLost,
     PromptHelper, PromptHelperFails, JudgeAgain, JudgeFails, ChooseFails, ReplanFails,
     ChooseExecutor, Settles, InterruptConfirmed, WorkerEnds, memory, host, storage, resumes
<1>2. \/ pc' = pc /\ target' = target
      \/ pc' = "failing" /\ target' = target
      \/ pc = "prompting" /\ pc' = "working" /\ target' = target
      \/ pc = "choosing" /\ pc' = "opening" /\ target' \in Executors
  BY DEF Still, OpenFails, PromptDelivered, PromptFails, TimesOut, ConfirmationExpires, WorkerLost,
     PromptHelper, PromptHelperFails, JudgeAgain, JudgeFails, ChooseFails, ReplanFails,
     ChooseExecutor, SwitchTargets, Settles, InterruptConfirmed, WorkerEnds, memory
<1>3. wait' \in Waits /\ judgements' \in 0..MaxJudgeRefresh /\ abandoned' \in BOOLEAN
  <2>1. wait' \in Waits
    BY DEF Still, OpenFails, PromptDelivered, PromptFails, TimesOut, ConfirmationExpires, WorkerLost,
       PromptHelper, PromptHelperFails, JudgeAgain, JudgeFails, ChooseFails, ReplanFails,
       ChooseExecutor, Settles, InterruptConfirmed, WorkerEnds, Waits, LoopInv, DispatcherTypeOK
  <2>2. judgements' \in 0..MaxJudgeRefresh
    <3>1. CASE JudgeAgain
      BY <3>1 DEF JudgeAgain, MaxJudgeRefresh, LoopInv, DispatcherTypeOK
    <3>2. CASE ~JudgeAgain
      BY <3>2 DEF Still, OpenFails, PromptDelivered, PromptFails, TimesOut, ConfirmationExpires,
         WorkerLost, PromptHelper, PromptHelperFails, JudgeFails, ChooseFails, ReplanFails,
         ChooseExecutor, Settles, InterruptConfirmed, WorkerEnds, memory, LoopInv, DispatcherTypeOK
    <3> QED BY <3>1, <3>2
  <2>3. abandoned' \in BOOLEAN
    <3>1. abandoned' = abandoned \/ abandoned' = TRUE
      BY DEF Still, OpenFails, PromptDelivered, PromptFails, TimesOut, ConfirmationExpires, WorkerLost,
         PromptHelper, PromptHelperFails, JudgeAgain, JudgeFails, ChooseFails, ReplanFails,
         ChooseExecutor, Settles, InterruptConfirmed, WorkerEnds, host
    <3> QED BY <3>1 DEF LoopInv, DispatcherTypeOK
  <2> QED BY <2>1, <2>2, <2>3
<1>4. executing' \subseteq created /\ fenced' \subseteq created
  <2>1. pc \in InRound => Worker \in created
    BY DEF LoopInv, Ready, Worker
  <2>2. executing' \subseteq executing \cup (IF pc \in InRound THEN {Worker} ELSE {})
        /\ fenced' \subseteq fenced \cup (IF pc \in InRound THEN {Worker} ELSE {})
    BY DEF Still, OpenFails, PromptDelivered, PromptFails, TimesOut, ConfirmationExpires, WorkerLost,
       PromptHelper, PromptHelperFails, JudgeAgain, JudgeFails, ChooseFails, ReplanFails,
       ChooseExecutor, Settles, InterruptConfirmed, WorkerEnds, host, InRound
  <2> QED BY <2>1, <2>2 DEF LoopInv, DispatcherTypeOK
<1>5. Ready'
  BY <1>1, <1>2 DEF LoopInv, Ready, InRound, Switches
<1>6. pc' \in PCs /\ target' \in Executors \cup {"none"}
  BY <1>2 DEF LoopInv, DispatcherTypeOK, PCs, Waiting
<1>7. DispatcherTypeOK'
  BY <1>1, <1>3, <1>4, <1>6 DEF LoopInv, DispatcherTypeOK
<1> QED BY <1>1, <1>5, <1>7 DEF LoopInv, Sound

\* The scheduler returns: nothing of it is left.
LEMMA ReturnLoops ==
  ASSUME LoopInv, Forgets, pc' \in {"done", "pausing"}, wait' \in Waits,
         Sound(run)', Sound(stored.state)', Sound(late)', stored' \in Record, late' \in RunState,
         created' = created, executing' \subseteq executing, fenced' \subseteq fenced,
         abandoned' \in BOOLEAN, intact' \in BOOLEAN, faults' \in 0..MaxFaults,
         overtaken' \in BOOLEAN, byTool' \in BOOLEAN, decided' \in Seq(RequestID),
         unrecorded' \in BOOLEAN, repeated' \in BOOLEAN
  PROVE  LoopInv'
<1>1. mode' \in Modes /\ judgements' \in 0..MaxJudgeRefresh /\ closed' \in 0..BudgetCap
  BY BudgetCapAssumption DEF Forgets, Modes, MaxJudgeRefresh
<1>2. Ready'
  BY DEF Ready, InRound
<1>3. pc' \in PCs
  BY DEF PCs
<1>4. DispatcherTypeOK'
  BY <1>1, <1>3 DEF Forgets, LoopInv, DispatcherTypeOK, Sound
<1> QED BY <1>2, <1>4 DEF LoopInv

\* The steps of the scheduler that change the run.
LEMMA DrivenLoops ==
  ASSUME LoopInv, Driven
  PROVE  LoopInv'
<1>1. run \in RunState /\ run' \in RunState /\ run.round <= run.maxRounds
  <2>1. [Next]_run
    BY SchedulerIsKernel DEF Driven, Scheduler
  <2> QED BY <2>1, TypeStep DEF TypeOK, LoopInv, Sound
<1>2. /\ late' = late /\ overtaken' \in BOOLEAN /\ repeated' \in BOOLEAN /\ byTool' \in BOOLEAN /\ decided' \in Seq(RequestID)
      /\ executing' = executing /\ fenced' = fenced /\ abandoned' = abandoned
      /\ created \subseteq created'
  BY DEF Driven, SelectExecutor, SelectFails, OpenRound, OpenRepair, WorkerUnusable, WorkerFinished,
     Reviewed, CommitVerdict, Replanned, FailRun, resumes, host, LoopInv, DispatcherTypeOK
<1>3. /\ stored' = stored \/ \E checkpoint \in Checkpoints : stored' = [checkpoint |-> checkpoint, state |-> run']
      /\ intact' \in BOOLEAN /\ faults' \in 0..MaxFaults /\ unrecorded' \in BOOLEAN
  <2>1. CASE \E checkpoint \in Checkpoints : Write(checkpoint, run')
    BY <2>1, WritesOrLoses
  <2>2. CASE UNCHANGED storage
    BY <2>2 DEF storage, LoopInv, DispatcherTypeOK
  <2> QED
    BY <2>1, <2>2 DEF Driven, SelectExecutor, SelectFails, OpenRound, OpenRepair, WorkerUnusable,
       WorkerFinished, Reviewed, CommitVerdict, Replanned, FailRun, Checkpoint, Checkpoints
<1>4. ASSUME Sound(run)'
      PROVE  stored' \in Record /\ late' \in RunState /\ Sound(stored.state)' /\ Sound(late)'
  BY <1>2, <1>3, <1>4, RecordsStaySound
<1>5. ASSUME Sound(run)', Ready', pc' \in PCs, mode' \in Modes, wait' \in Waits,
             target' \in Executors \cup {"none"}, observed' \in Executors \cup {"none"},
             passed' \in BOOLEAN, judgements' \in 0..MaxJudgeRefresh, closed' \in 0..BudgetCap,
             used' \subseteq created', created' \subseteq Sessions
      PROVE  LoopInv'
  BY <1>1, <1>2, <1>3, <1>4, <1>5 DEF LoopInv, DispatcherTypeOK
<1>6. /\ pc \in PCs /\ mode \in Modes /\ wait \in Waits
      /\ target \in Executors \cup {"none"} /\ observed \in Executors \cup {"none"}
      /\ passed \in BOOLEAN /\ judgements \in 0..MaxJudgeRefresh /\ closed \in 0..BudgetCap
      /\ used \subseteq created /\ created \subseteq Sessions
      /\ "none" \in Waits /\ {"opening", "prompting", "failing", "reviewing", "judging", "done"} \subseteq PCs
  BY DEF LoopInv, DispatcherTypeOK, Waits, PCs, Waiting
<1>7. ASSUME NEW executor \in Executors, SelectExecutor(executor) PROVE LoopInv'
  <2>1. run'.phase = "ready" /\ run'.round = run.round /\ run'.maxRounds = run.maxRounds
    BY <1>1, <1>7 DEF SelectExecutor, ContractReady, RunState
  <2>2. Sound(run)'
    BY <1>1, <2>1 DEF Sound, Started
  <2>3. Ready'
    BY <1>7 DEF SelectExecutor, Ready, InRound, LoopInv
  <2> QED BY <1>5, <1>6, <1>7, <2>2, <2>3 DEF SelectExecutor, host
<1>8. CASE SelectFails
  <2>1. run'.phase = "failed" /\ run'.round = run.round /\ run'.maxRounds = run.maxRounds
    BY <1>1, <1>8 DEF SelectFails, CommandFailed, RunState
  <2>2. Sound(run)'
    BY <1>1, <2>1 DEF Sound, Started
  <2> QED
    BY <1>2, <1>3, <1>4, <1>6, <1>8, <2>2, ReturnLoops DEF SelectFails, host, LoopInv, DispatcherTypeOK
<1>9. ASSUME NEW session \in SessionAnswers, OpenRound(session) PROVE LoopInv'
  <2>1. [pair |-> RoundPair, session |-> session] \in ExecutorRef /\ session \in Sessions
    BY <1>9, RoundOpens DEF OpenRound
  <2>2. /\ run'.executor = [pair |-> RoundPair, session |-> session]
        /\ run'.round = run.round /\ run'.maxRounds = run.maxRounds
    BY <1>1, <1>9 DEF OpenRound, ExecutionStarted, RunState
  <2>3. run'.executor.session \in created'
    BY <1>9, <2>2 DEF OpenRound
  <2>4. Sound(run)'
    BY <1>1, <2>1, <2>2, <2>3 DEF Sound
  <2>5. closed < BudgetCap /\ closed' = closed
    BY <1>1, <1>6, <1>9, BudgetCapAssumption DEF OpenRound, BudgetGuard, RunState
  <2>6. Ready'
    BY <1>9, <2>1, <2>2, <2>3, <2>5 DEF OpenRound, Ready, InRound
  <2> QED BY <1>5, <1>6, <1>9, <2>1, <2>4, <2>6 DEF OpenRound
<1>10. CASE OpenRepair
  <2>1. /\ run'.executor = run.executor /\ run'.round = run.round /\ run'.maxRounds = run.maxRounds
        /\ created' = created /\ pc' = "prompting"
    BY <1>1, <1>10 DEF OpenRepair, ExecutionStarted, RunState, host
  <2>2. run.executor \in ExecutorRef /\ run.executor.session \in created
    BY <1>10 DEF OpenRepair, LoopInv, Ready, Switches
  <2>3. Sound(run)'
    BY <1>1, <2>1, <2>2 DEF Sound
  <2>4. closed < BudgetCap /\ closed' = closed
    BY <1>1, <1>6, <1>10, BudgetCapAssumption DEF OpenRepair, BudgetGuard, RunState, memory
  <2>5. Ready'
    BY <2>1, <2>2, <2>4 DEF Ready, InRound
  <2> QED BY <1>5, <1>6, <1>10, <2>3, <2>5 DEF OpenRepair, memory, host
<1>11. CASE WorkerUnusable
  <2>1. /\ run'.executor = run.executor /\ run'.round = run.round /\ run'.maxRounds = run.maxRounds
        /\ created' = created /\ pc' = "failing"
    BY <1>1, <1>11 DEF WorkerUnusable, ExecutionFinished, RunState, host
  <2>2. run.executor \in ExecutorRef /\ run.executor.session \in created
    BY <1>11 DEF WorkerUnusable, LoopInv, Ready, InRound
  <2>3. Sound(run)'
    BY <1>1, <2>1, <2>2 DEF Sound
  <2>4. Ready'
    BY <2>1 DEF Ready, InRound
  <2> QED BY <1>5, <1>6, <1>11, <2>3, <2>4 DEF WorkerUnusable, memory, host
<1>12. ASSUME NEW checks \in BOOLEAN, NEW executor \in Executors, WorkerFinished(checks, executor)
       PROVE  LoopInv'
  <2>1. /\ run'.executor = run.executor /\ run'.round = run.round /\ run'.maxRounds = run.maxRounds
        /\ created' = created /\ pc' = "reviewing" /\ closed' = closed /\ observed' = executor
    BY <1>1, <1>12 DEF WorkerFinished, ExecutionFinished, RunState, host
  <2>2. run.executor \in ExecutorRef /\ run.executor.session \in created /\ closed < BudgetCap
    BY <1>12 DEF WorkerFinished, LoopInv, Ready, InRound
  <2>3. Sound(run)'
    BY <1>1, <2>1, <2>2 DEF Sound
  <2>4. Ready'
    BY <2>1, <2>2 DEF Ready, InRound
  <2> QED BY <1>5, <1>6, <1>12, <2>3, <2>4 DEF WorkerFinished, host
<1>13. ASSUME NEW criticPassed \in BOOLEAN, Reviewed(criticPassed) PROVE LoopInv'
  <2>1. /\ run.executor \in ExecutorRef /\ run.executor.session \in created
        /\ closed < BudgetCap /\ observed \in Executors
    BY <1>13 DEF Reviewed, LoopInv, Ready, InRound
  <2>2. /\ run'.executor = [pair |-> observed, session |-> Worker]
        /\ run'.evidence.hardFailure = HardFailure(criticPassed)
        /\ run'.round = run.round /\ run'.maxRounds = run.maxRounds
        /\ created' = created /\ pc' \in {"failing", "judging"} /\ closed' = closed
    BY <1>1, <1>13 DEF Reviewed, EvidenceReady, RunState, host
  <2>3. run'.executor \in ExecutorRef /\ run'.executor.session \in created
    BY <2>1, <2>2 DEF Worker, ExecutorRef
  <2>4. Sound(run)'
    BY <1>1, <2>2, <2>3 DEF Sound
  <2>5. passed' \in BOOLEAN /\ run'.evidence.hardFailure = ~passed'
    BY <1>6, <1>13, <2>2 DEF Reviewed, HardFailure
  <2>6. Ready'
    BY <2>1, <2>2, <2>3, <2>5 DEF Ready, InRound
  <2>7. judgements' \in 0..MaxJudgeRefresh
    BY <1>13 DEF Reviewed, MaxJudgeRefresh
  <2> QED BY <1>5, <1>6, <1>13, <2>4, <2>5, <2>6, <2>7, <2>2 DEF Reviewed, host
<1>14. ASSUME NEW v \in Verdict, CommitVerdict(v) PROVE LoopInv'
  <2>1. /\ run.executor \in ExecutorRef /\ run.executor.session \in created /\ closed < BudgetCap
        /\ v.nextAction \in NextActions /\ {"accept", "stop", "human"} \subseteq NextActions
    BY <1>14 DEF CommitVerdict, LoopInv, Ready, InRound, Verdict, NextActions
  <2>2. \A action \in NextActions :
          /\ Closed(run, action) \in RunState /\ Closed(run, action).round = run.round
          /\ Closed(run, action).maxRounds = run.maxRounds
          /\ Closed(run, action).executor = run.executor /\ Closed(run, action).lastVerdict = action
    BY <1>1, ClosedType DEF Closed, RunState
  <2>3. CASE BeginNextRound(v)
    <3>1. /\ v.nextAction \in Recoveries /\ run.round + 1 <= run.maxRounds
          /\ run'.round = run.round + 1 /\ run'.maxRounds = run.maxRounds
          /\ run'.phase = RecoveryPhase(v.nextAction) /\ run'.lastVerdict = v.nextAction
          /\ run'.executor = RecoveryExecutor(v.nextAction, run.executor)
      BY <2>1, <2>2, <2>3 DEF BeginNextRound, RunState
    <3>2. /\ v.nextAction \notin Switches => run'.executor \in ExecutorRef
          /\ v.nextAction = "repair-same" => run'.executor = run.executor
      BY <2>1, <3>1, WithoutSessionType DEF RecoveryExecutor, Switches
    <3>3. created' = created /\ run'.phase \notin Terminal \cup {"awaiting-human"}
      BY <1>14, <3>1 DEF CommitVerdict, host, RecoveryPhase, Terminal
    <3>4. Sound(run)'
      BY <1>1, <2>1, <3>1, <3>2, <3>3 DEF Sound, Started, RecoveryPhase, Recoveries
    <3>5. pc' = IF v.nextAction = "replan" THEN "replanning"
                ELSE IF v.nextAction \in Switches THEN "choosing" ELSE "opening"
      BY <1>14, <3>1, <3>3 DEF CommitVerdict, Continuation, RecoveryPhase, Switches, Recoveries
    <3>6. /\ mode' = v.nextAction /\ closed' = closed + 1 /\ judgements' = 0 /\ passed' = FALSE
          /\ observed' = "none" /\ target' = "none" /\ used' = used /\ wait' = wait
      BY <1>14, <3>5 DEF CommitVerdict
    <3>7. Ready'
      BY <2>1, <3>1, <3>2, <3>3, <3>5, <3>6 DEF Ready, InRound, Switches, Recoveries
    <3>8. closed' \in 0..BudgetCap /\ judgements' \in 0..MaxJudgeRefresh /\ mode' \in Modes
          /\ pc' \in PCs
      BY <1>6, <2>1, <3>1, <3>5, <3>6, BudgetCapAssumption DEF MaxJudgeRefresh, Modes, PCs, Waiting
    <3> QED BY <1>5, <1>6, <3>3, <3>4, <3>6, <3>7, <3>8
  <2>4. CASE Accept(v, 0) \/ Stop(v) \/ AskHuman(v) \/ ExhaustBudget(v)
    <3>1. /\ run'.phase \in Terminal \cup {"awaiting-human"}
          /\ run'.round = run.round /\ run'.maxRounds = run.maxRounds
          /\ run'.executor = run.executor
      <4>1. CASE Accept(v, 0)
        BY <2>1, <2>2, <4>1 DEF Accept, RunState, Terminal
      <4>2. CASE Stop(v)
        BY <2>1, <2>2, <4>2 DEF Stop, RunState, Terminal
      <4>3. CASE AskHuman(v)
        BY <2>1, <2>2, <4>3 DEF AskHuman, Paused, RunState
      <4>4. CASE ExhaustBudget(v)
        BY <2>1, <2>2, <4>4 DEF ExhaustBudget, Paused, RunState
      <4> QED BY <2>4, <4>1, <4>2, <4>3, <4>4
    <3>2. created' = created /\ wait' = wait
      BY <1>14 DEF CommitVerdict, host
    <3>3. Sound(run)'
      BY <1>1, <2>1, <3>1, <3>2 DEF Sound
    <3>4. pc' \in {"done", "pausing"} /\ Forgets
      BY <1>14, <3>1 DEF CommitVerdict, Continuation
    <3> QED
      BY <1>2, <1>3, <1>4, <1>6, <3>2, <3>3, <3>4, ReturnLoops DEF LoopInv, DispatcherTypeOK
  <2> QED BY <1>14, <2>3, <2>4 DEF CommitVerdict
<1>15. ASSUME NEW maxRounds \in 1..BudgetCap, Replanned(maxRounds) PROVE LoopInv'
  <2>1. /\ run'.executor = run.executor /\ run'.round = run.round /\ run'.maxRounds = maxRounds
        /\ run'.phase = "ready" /\ run.round <= maxRounds
    BY <1>1, <1>15 DEF Replanned, ContractRevised, RunState
  <2>2. Sound(run)'
    BY <1>1, <2>1 DEF Sound, Started
  <2>3. Ready'
    BY <1>15, <2>1 DEF Replanned, LoopInv, Ready, InRound, Switches
  <2> QED BY <1>5, <1>6, <1>15, <2>2, <2>3 DEF Replanned, host
<1>16. CASE FailRun
  <2>1. /\ run'.executor = run.executor /\ run'.round = run.round /\ run'.maxRounds = run.maxRounds
        /\ run'.phase \in {"failed", run.phase}
    BY <1>1, <1>16 DEF FailRun, CommandFailed, RunState
  <2>2. Sound(run)'
    BY <1>1, <2>1, <1>16 DEF Sound, Started, LoopInv, FailRun, host
  <2> QED
    BY <1>2, <1>3, <1>4, <1>6, <1>16, <2>2, ReturnLoops DEF FailRun, host, LoopInv, DispatcherTypeOK
<1> QED
  BY <1>7, <1>8, <1>9, <1>10, <1>11, <1>12, <1>13, <1>14, <1>15, <1>16 DEF Driven

\* A human's decision on a paused state leaves a sound one, whatever run it is of.
LEMMA ToolsLoop ==
  ASSUME LoopInv, NEW d \in Decisions, ToolStops(d) \/ ToolResumes(d)
  PROVE  LoopInv'
<1>1. PICK s : s = stored.state
  OBVIOUS
<1>2. /\ s \in RunState /\ Sound(s) /\ s.phase = "awaiting-human" /\ s.round \in Nat \ {0}
      /\ s.executor \in ExecutorRef /\ s.executor.session \in created
      /\ ValidHumanDecision(s, d)
  BY <1>1 DEF ToolStops, ToolResumes, Decides, Resumable, LoopInv, Sound, Started, RunState
<1>3. d.requestID \in RequestID /\ d.action \in {"resume", "stop"} /\ d.newMaxRounds \in Nat
  <2>1. s.pendingHuman \in HumanRequest /\ d.requestID = s.pendingHuman.requestID
    BY <1>2 DEF ValidHumanDecision, RunState
  <2>2. d.requestID \in RequestID
    BY <2>1 DEF HumanRequest
  <2> QED BY <2>2, BudgetCapAssumption DEF Decisions
<1>4. /\ Decided(s, d) \in RunState /\ EffectiveBudget(s, d) \in s.maxRounds..BudgetCap
      /\ EffectiveBudget(s, d) \in 1..BudgetCap
  BY <1>2, <1>3, AuditedType
<1>5. /\ Decided(s, d).round = s.round /\ Decided(s, d).maxRounds = s.maxRounds
      /\ Decided(s, d).executor = s.executor
  BY <1>2 DEF Decided, RunState
<1>6. /\ created' = created /\ wait' = wait /\ executing' = executing /\ fenced' = fenced
      /\ abandoned' = abandoned /\ late' \in {late, run, NotLate} /\ overtaken' \in BOOLEAN
      /\ byTool' = TRUE /\ decided' = Append(decided, d.requestID) /\ repeated' \in BOOLEAN
  BY DEF ToolStops, ToolResumes, Decides, GetsResumeLock, host, LoopInv, DispatcherTypeOK
<1>7. decided' \in Seq(RequestID)
  BY <1>3, <1>6 DEF LoopInv, DispatcherTypeOK
<1>8. Checkpoint("human-decision")
  BY DEF ToolStops, ToolResumes
<1>9. /\ stored' = stored \/ stored' = [checkpoint |-> "human-decision", state |-> run']
      /\ intact' \in BOOLEAN /\ faults' \in 0..MaxFaults /\ unrecorded' \in BOOLEAN
  BY <1>8, WritesOrLoses DEF Checkpoint
<1>10. ASSUME Sound(run)'
       PROVE  stored' \in Record /\ late' \in RunState /\ Sound(stored.state)' /\ Sound(late)'
  BY <1>6, <1>9, <1>10, RecordsStaySound DEF Checkpoints
<1>11. CASE ToolStops(d)
  <2>1. run' = [Decided(s, d) EXCEPT !.phase = "stopped"]
    BY <1>1, <1>11 DEF ToolStops, StoppedByHuman
  <2>2. Sound(run)'
    BY <1>2, <1>4, <1>5, <2>1 DEF Sound, RunState, Phases, Started
  <2>3. pc' \in {"done", "pausing"} /\ Forgets
    BY <1>11 DEF ToolStops
  <2> QED
    BY <1>6, <1>7, <1>9, <1>10, <2>2, <2>3, ReturnLoops DEF LoopInv, DispatcherTypeOK
<1>12. CASE ToolResumes(d)
  <2>1. run' = [Decided(s, d) EXCEPT !.phase = "ready", !.round = s.round + 1,
                  !.maxRounds = EffectiveBudget(s, d), !.executor = WithoutSession(s.executor)]
    BY <1>1, <1>12 DEF ToolResumes, ResumedByHuman
  <2>2. s.round + 1 <= EffectiveBudget(s, d)
    BY <1>2, <1>4, <1>12 DEF ToolResumes, ValidHumanDecision
  <2>3. WithoutSession(s.executor) \in ExecutorRef
    BY <1>2, WithoutSessionType
  <2>4. run'.executor \in ExecutorRef
    BY <1>4, <2>1, <2>3 DEF RunState
  <2>5. Sound(run)'
    <3>1. run' \in RunState
      <4>1. s.round + 1 \in Nat \ {0} /\ WithoutSession(s.executor) \in ExecutorRef \cup {NoExecutor}
        BY <1>2, <2>3
      <4> QED BY <1>4, <2>1, <4>1 DEF RunState, Phases
    <3>2. run'.phase = "ready" /\ run'.round = s.round + 1 /\ run'.maxRounds = EffectiveBudget(s, d)
      BY <1>4, <2>1 DEF RunState
    <3> QED BY <2>2, <3>1, <3>2 DEF Sound, Started
  <2>6. /\ pc' = "opening" /\ mode' = "human-resume" /\ closed' = 0 /\ used' \subseteq created'
        /\ target' = "none" /\ passed' = FALSE /\ observed' = "none" /\ judgements' = 0
    BY <1>1, <1>2, <1>6, <1>12 DEF ToolResumes
  <2>7. Ready'
    BY <2>4, <2>6 DEF Ready, InRound, Switches
  <2>8. /\ pc' \in PCs /\ mode' \in Modes /\ closed' \in 0..BudgetCap
        /\ judgements' \in 0..MaxJudgeRefresh
    BY <2>6, BudgetCapAssumption DEF PCs, Modes, MaxJudgeRefresh
  <2>9. DispatcherTypeOK'
    BY <1>6, <1>7, <1>9, <1>10, <2>5, <2>6, <2>8 DEF LoopInv, DispatcherTypeOK, Sound
  <2> QED BY <1>10, <2>5, <2>7, <2>9 DEF LoopInv
<1> QED BY <1>11, <1>12

\* The pause is written, in time or late, or the plugin is restarted.
LEMMA EndsLoop ==
  ASSUME LoopInv, RecordPause \/ RecordLatePause \/ Restart
  PROVE  LoopInv'
<1>1. /\ run' = run /\ created' = created /\ byTool' = byTool /\ decided' = decided
      /\ overtaken' = overtaken /\ repeated' = repeated /\ late' \in {late, run, NotLate}
  BY DEF RecordPause, RecordLatePause, Restart, host, resumes
<1>2. Sound(run)' /\ Sound(run)
  BY <1>1 DEF LoopInv, Sound
<1>3. /\ \/ stored' = stored
         \/ \E state \in {run, late} : stored' = [checkpoint |-> "human-awaiting", state |-> state]
      /\ intact' \in BOOLEAN /\ faults' \in 0..MaxFaults /\ unrecorded' \in BOOLEAN
  <2>1. CASE RecordPause \/ RecordLatePause
    BY <2>1, WritesOrLoses DEF RecordPause, RecordLatePause
  <2>2. CASE Restart
    <3>1. faults \in 0..MaxFaults /\ unrecorded \in BOOLEAN
      BY DEF LoopInv, DispatcherTypeOK
    <3>2. unrecorded' = unrecorded /\ stored' = stored /\ intact' = FALSE /\ faults < MaxFaults /\ faults' = faults + 1
      BY <2>2 DEF Restart
    <3>3. faults' \in 0..MaxFaults
      BY <3>1, <3>2, BoundAssumption
    <3> QED BY <3>1, <3>2, <3>3
  <2> QED BY <2>1, <2>2
<1>4. stored' \in Record /\ late' \in RunState /\ Sound(stored.state)' /\ Sound(late)'
  BY <1>1, <1>2, <1>3, RecordsStaySound DEF Checkpoints
<1>5. CASE RecordPause
  BY <1>1, <1>2, <1>3, <1>4, <1>5, ReturnLoops DEF RecordPause, host, LoopInv, DispatcherTypeOK
<1>6. CASE Restart
  BY <1>1, <1>2, <1>3, <1>4, <1>6, ReturnLoops DEF Restart, Waits, LoopInv, DispatcherTypeOK
<1>7. CASE RecordLatePause
  <2>1. /\ pc' = pc /\ wait' = wait /\ mode' = mode /\ target' = target /\ passed' = passed
        /\ observed' = observed /\ judgements' = judgements /\ closed' = closed /\ used' = used
        /\ executing' = executing /\ fenced' = fenced /\ abandoned' = abandoned
    BY <1>7 DEF RecordLatePause, memory, host
  <2>2. Ready'
    BY <1>1, <2>1 DEF Ready, LoopInv
  <2>3. DispatcherTypeOK'
    BY <1>1, <1>3, <1>4, <2>1 DEF LoopInv, DispatcherTypeOK
  <2> QED BY <1>2, <1>4, <2>2, <2>3 DEF LoopInv
<1> QED BY <1>5, <1>6, <1>7

LEMMA LoopStep == LoopInv /\ [Steps]_vars => LoopInv'
<1> SUFFICES ASSUME LoopInv, [Steps]_vars PROVE LoopInv'
  OBVIOUS
<1>1. CASE UNCHANGED vars
  BY <1>1 DEF vars, memory, host, storage, resumes, LoopInv, DispatcherTypeOK, Sound, Ready
<1>2. CASE Steps
  <2>1. \/ Still \/ Driven \/ RecordPause \/ RecordLatePause \/ Restart
        \/ \E d \in Decisions : ToolStops(d) \/ ToolResumes(d)
    BY <1>2 DEF Steps, Scheduler, Environment, Still, Driven
  <2> QED BY <2>1, StillLoops, DrivenLoops, EndsLoop, ToolsLoop
<1> QED BY <1>1, <1>2

\* Only a verdict of accept completes a run.
LEMMA OnlyAcceptCompletes ==
  ASSUME LoopInv, Steps, run.phase # "completed", run'.phase = "completed"
  PROVE  pc = "judging" /\ ~run.evidence.hardFailure
<1>1. run \in RunState
  BY DEF LoopInv, Sound
<1>2. ~Still /\ ~RecordPause /\ ~RecordLatePause /\ ~Restart
  BY DEF Still, OpenFails, PromptDelivered, PromptFails, TimesOut, ConfirmationExpires, WorkerLost,
     PromptHelper, PromptHelperFails, JudgeAgain, JudgeFails, ChooseFails, ReplanFails,
     ChooseExecutor, Settles, InterruptConfirmed, WorkerEnds, RecordPause, RecordLatePause, Restart
<1>3. ASSUME NEW d \in Decisions, ToolStops(d) \/ ToolResumes(d) PROVE FALSE
  <2>1. stored.state \in RunState
    BY DEF LoopInv, Sound
  <2>2. run'.phase \in {"stopped", "ready"}
    BY <1>3, <2>1 DEF ToolStops, ToolResumes, StoppedByHuman, ResumedByHuman, Decided, RunState
  <2> QED BY <2>2
<1>4. PICK v \in Verdict : CommitVerdict(v)
  <2>1. Driven
    BY <1>2, <1>3 DEF Steps, Scheduler, Environment, Still, Driven
  <2> QED
    BY <1>1, <2>1 DEF Driven, SelectExecutor, SelectFails, OpenRound, OpenRepair, WorkerUnusable,
       WorkerFinished, Reviewed, Replanned, FailRun, ContractReady, CommandFailed, ExecutionStarted,
       ExecutionFinished, EvidenceReady, ContractRevised, RunState
<1>5. \A action \in NextActions : Closed(run, action) \in RunState
  BY <1>1, ClosedType
<1>6. v.nextAction \in NextActions /\ {"stop", "human"} \subseteq NextActions
  BY DEF Verdict, NextActions
<1>7. ~Stop(v) /\ ~AskHuman(v)
  BY <1>5, <1>6 DEF Stop, AskHuman, Paused, RunState
<1>8. ~ExhaustBudget(v)
  BY <1>5, <1>6 DEF ExhaustBudget, Paused, RunState
<1>9. ~BeginNextRound(v)
  BY <1>5, <1>6 DEF BeginNextRound, RecoveryPhase, RunState
<1> QED BY <1>4, <1>7, <1>8, <1>9 DEF CommitVerdict, Accept

-----------------------------------------------------------------------------
(* What holds while the run does not go astray *)

Halted == Terminal \cup {"awaiting-human"}

\* A run that is driven neither waits nor has ended, and has closed fewer rounds than it opened.
Fits ==
  /\ pc \notin {"pausing", "done"} => run.phase \notin Halted
  /\ pc = "selecting" => stored = NothingStored
  /\ closed \in Nat /\ closed < run.round

Stored ==
  /\ stored.state.phase \in Halted /\ ~unrecorded => stored.state = run
  /\ pc = "done" /\ stored # NothingStored /\ intact => stored.state = run

\* The requests decided are of rounds before this one, or the one that stopped the run.
DecidedBefore ==
  /\ decided \in Seq(RequestID)
  /\ \A i \in DOMAIN decided :
       \/ decided[i][1] < run.round
       \/ decided[i][1] = run.round /\ run.phase = "stopped"
  /\ RequestIsDecidedOnce

Winding ==
  abandoned => \/ pc \in Waiting /\ wait = "unconfirmed"
               \/ pc = "failing"
               \/ pc = "done" /\ run.phase # "awaiting-human"

InTurn == IInv /\ Fits /\ Stored /\ DecidedBefore /\ Winding

DInv ==
  /\ LoopInv
  /\ late # NotLate => overtaken
  /\ ~Astray => InTurn

-----------------------------------------------------------------------------

\* The start of a run.
LEMMA StartInv == Start => DInv
<1> SUFFICES ASSUME Start PROVE DInv
  OBVIOUS
<1>1. IInv
  BY InvInit DEF Start
<1>2. run.phase = "planning" /\ run.round = 1
  BY DEF Start, Init, CreateRunState
<1>3. Fits
  BY <1>2 DEF Start, Fits, Halted, Terminal
<1>4. Stored
  BY DEF Start, Stored, NothingStored, CreateRunState, Halted, Terminal
<1>5. DecidedBefore
  BY DEF Start, DecidedBefore, RequestIsDecidedOnce
<1> QED BY <1>1, <1>3, <1>4, <1>5, LoopStart DEF Start, DInv, InTurn, Winding

\* No event takes a run back, or a stopped run anywhere.
LEMMA Advances ==
  ASSUME IInv, [Next]_run
  PROVE  run'.round >= run.round /\ (run.phase = "stopped" => run' = run)
<1> run \in RunState /\ run.round \in Nat
  BY DEF IInv, TypeOK, RunState
<1> USE DEF RunState
<1>1. ASSUME NEW v \in Verdict, NEW pendingFollowups \in 0..1,
             Accept(v, pendingFollowups) \/ Stop(v) \/ AskHuman(v) \/ ExhaustBudget(v) \/ BeginNextRound(v)
      PROVE  run.phase = "evaluating" /\ run'.round >= run.round
  <2> DEFINE c(action) == Closed(run, action)
  <2>1. \A action \in NextActions : c(action) \in RunState /\ c(action).round = run.round
    BY ClosedType DEF Closed
  <2>2. v.nextAction \in NextActions /\ {"accept", "stop", "human"} \subseteq NextActions
    BY DEF Verdict, NextActions
  <2> HIDE DEF c
  <2>3. CASE Accept(v, pendingFollowups)
    <3>1. run' = [c("accept") EXCEPT !.phase = "completed"]
      BY <2>3 DEF Accept, c
    <3> QED BY <3>1, <2>1, <2>2, <2>3 DEF Accept, Judgeable
  <2>4. CASE Stop(v)
    <3>1. run' = [c("stop") EXCEPT !.phase = "stopped"]
      BY <2>4 DEF Stop, c
    <3> QED BY <3>1, <2>1, <2>2, <2>4 DEF Stop, Judgeable
  <2>5. CASE AskHuman(v)
    <3>1. run' = Paused(c("human"), "jev-human")
      BY <2>5 DEF AskHuman, c
    <3> QED BY <3>1, <2>1, <2>2, <2>5 DEF AskHuman, Judgeable, Paused
  <2>6. CASE ExhaustBudget(v)
    <3>1. run' = Paused(c(v.nextAction), "max-rounds")
      BY <2>6 DEF ExhaustBudget, c
    <3> QED BY <3>1, <2>1, <2>2, <2>6 DEF ExhaustBudget, Judgeable, Paused
  <2>7. CASE BeginNextRound(v)
    <3>1. run' = [c(v.nextAction) EXCEPT
               !.phase    = RecoveryPhase(v.nextAction),
               !.round    = run.round + 1,
               !.evidence = NoEvidence,
               !.executor = RecoveryExecutor(v.nextAction, run.executor)]
      BY <2>7 DEF BeginNextRound, c
    <3> QED BY <3>1, <2>1, <2>2, <2>7 DEF BeginNextRound, Judgeable
  <2> QED BY <1>1, <2>3, <2>4, <2>5, <2>6, <2>7
<1>2. ASSUME NEW d \in DecisionInputs, HumanStop(d) \/ HumanResume(d)
      PROVE  run.phase = "awaiting-human" /\ run'.round >= run.round
  <2>1. ValidHumanDecision(run, d) /\ run.phase = "awaiting-human"
    BY <1>2 DEF HumanStop, HumanResume
  <2>2. Decided(run, d) \in RunState
    BY <2>1, DecidedType
  <2>3. Decided(run, d).round = run.round
    BY DEF Decided
  <2>4. CASE HumanStop(d)
    BY <2>1, <2>2, <2>3, <2>4 DEF HumanStop, StoppedByHuman
  <2>5. CASE HumanResume(d)
    BY <2>1, <2>2, <2>3, <2>5 DEF HumanResume, ResumedByHuman
  <2> QED BY <1>2, <2>1, <2>4, <2>5
<1>3. CASE ContractReady \/ ExecutionRestarted \/ ExecutionFinished \/ CommandFailed
  BY <1>3 DEF ContractReady, ExecutionRestarted, ExecutionFinished, CommandFailed
<1>4. ASSUME NEW maxRounds \in 1..BudgetCap, ContractRevised(maxRounds)
      PROVE  run.phase = "planning" /\ run'.round >= run.round
  BY <1>4 DEF ContractRevised
<1>5. ASSUME NEW executor \in ExecutorRef, ExecutionStarted(executor)
      PROVE  run.phase # "stopped" /\ run'.round >= run.round
  BY <1>5 DEF ExecutionStarted
<1>6. ASSUME NEW executor \in ExecutorRef, NEW round \in 1..BudgetCap, NEW hardFailure \in BOOLEAN,
             EvidenceReady([round |-> round, hardFailure |-> hardFailure], executor)
      PROVE  run.phase # "stopped" /\ run'.round >= run.round
  BY <1>6 DEF EvidenceReady
<1> HIDE DEF RunState
<1>7. CASE VerdictReceived
  BY <1>1, <1>7 DEF VerdictReceived
<1>8. CASE UNCHANGED run
  BY <1>8
<1> QED BY <1>2, <1>3, <1>4, <1>5, <1>6, <1>7, <1>8 DEF Next

\* A decision that a tool applies is one the kernel takes in the state the run is in.
LEMMA DecisionIsDue ==
  ASSUME IInv, Stored, ~repeated', NEW d \in Decisions, Decides(d)
  PROVE  /\ stored.state = run /\ run.phase = "awaiting-human"
         /\ d \in DecisionInputs /\ ValidHumanDecision(run, d)
         /\ d.requestID \in RequestID /\ d.requestID[1] = run.round
         /\ run.executor \in ExecutorRef
<1>1. stored.state = run /\ run.phase = "awaiting-human"
  BY DEF Decides, Resumable, Stored, Halted
<1>2. /\ run \in RunState /\ run.round \in 1..BudgetCap
      /\ run.pendingHuman = BuildHumanRequest(run, run.round, RequestKind(run.history[run.round].verdict))
  BY <1>1, BudgetCapAssumption DEF IInv, TypeOK, RunState, RoundWithinBudget, RoundIsBacked
<1>3. d.requestID = <<run.round, run.round, RequestKind(run.history[run.round].verdict)>>
  BY <1>1, <1>2 DEF Decisions, BuildHumanRequest
<1>4. RequestKind(run.history[run.round].verdict) \in Kinds
  BY DEF RequestKind, Kinds
<1>5. d.action \in {"resume", "stop"} /\ d.newMaxRounds \in 0..(BudgetCap + 1)
  BY BudgetCapAssumption DEF Decisions
<1>6. d = [requestID |-> d.requestID, action |-> d.action, newMaxRounds |-> d.newMaxRounds]
  BY DEF Decisions
<1>7. d \in DecisionInputs
  BY <1>2, <1>3, <1>4, <1>5, <1>6 DEF DecisionInputs
<1>8. d.requestID \in RequestID /\ d.requestID[1] = run.round
  BY <1>2, <1>3, <1>4, BudgetCapAssumption DEF RequestID
<1> QED BY <1>1, <1>7, <1>8 DEF Decides, IInv, RoundIsBacked

-----------------------------------------------------------------------------
(* Every step is one of the kernel's *)

\* The human's decision on the stored state is the kernel's event on the run.
LEMMA ToolsAreKernel ==
  ASSUME IInv, Stored, ~repeated', NEW d \in Decisions, ToolStops(d) \/ ToolResumes(d)
  PROVE  HumanStop(d) \/ HumanResume(d)
<1>1. Decides(d)
  BY DEF ToolStops, ToolResumes
<1>2. /\ stored.state = run /\ run.phase = "awaiting-human" /\ ValidHumanDecision(run, d)
  BY <1>1, DecisionIsDue
<1> QED BY <1>2 DEF ToolStops, ToolResumes, HumanStop, HumanResume

\* No failure path, lost checkpoint or restart takes the run elsewhere, unless a decision is
\* repeated.
LEMMA StepsAreKernel ==
  ASSUME LoopInv, InTurn, late = NotLate, ~repeated', Steps
  PROVE  [Next]_run
<1>1. CASE Scheduler
  BY <1>1, SchedulerIsKernel
<1>2. ASSUME NEW d \in Decisions, ToolStops(d) \/ ToolResumes(d)
      PROVE  Next
  <2>1. HumanStop(d) \/ HumanResume(d)
    BY <1>2, ToolsAreKernel DEF InTurn
  <2>2. d \in DecisionInputs
    BY <1>2, DecisionIsDue DEF InTurn, ToolStops, ToolResumes
  <2> QED BY <2>1, <2>2 DEF Next
<1>3. CASE \/ (\E answer \in {"value", "error"} : Settles(answer)) \/ InterruptConfirmed
           \/ (\E session \in Sessions : WorkerEnds(session)) \/ RecordLatePause \/ Restart
  BY <1>3 DEF Settles, InterruptConfirmed, WorkerEnds, RecordLatePause, Restart
<1> QED BY <1>1, <1>2, <1>3 DEF Steps, Environment

-----------------------------------------------------------------------------
(* The invariant *)

\* A decision that was repeated stays so.
LEMMA RepeatedStays == ASSUME LoopInv, Steps PROVE repeated => repeated'
<1>1. CASE Scheduler
  BY <1>1 DEF Scheduler, SelectExecutor, SelectFails, OpenRound, OpenRepair, OpenFails,
     PromptDelivered, PromptFails, TimesOut, ConfirmationExpires, WorkerLost, WorkerUnusable,
     WorkerFinished, PromptHelper, PromptHelperFails, Reviewed, JudgeAgain, JudgeFails,
     CommitVerdict, ChooseExecutor, ChooseFails, Replanned, ReplanFails, FailRun, RecordPause,
     resumes
<1>2. ASSUME NEW d \in Decisions, Decides(d) PROVE repeated => repeated'
  BY <1>2 DEF Decides, LoopInv, DispatcherTypeOK
<1>3. CASE \/ (\E answer \in {"value", "error"} : Settles(answer)) \/ InterruptConfirmed
           \/ (\E session \in Sessions : WorkerEnds(session)) \/ RecordLatePause \/ Restart
  BY <1>3 DEF Settles, InterruptConfirmed, WorkerEnds, RecordLatePause, Restart, resumes
<1>4. CASE \E d \in Decisions : ToolStops(d) \/ ToolResumes(d)
  BY <1>2, <1>4 DEF ToolStops, ToolResumes
<1> QED BY <1>1, <1>3, <1>4 DEF Steps, Environment

\* Who overtakes stays an overtaker, and only a pause left behind is late.
LEMMA LateIsOvertaken ==
  ASSUME late # NotLate => overtaken, Steps
  PROVE  (late' # NotLate => overtaken') /\ (overtaken => overtaken')
<1>1. CASE Scheduler
  BY <1>1 DEF Scheduler, SelectExecutor, SelectFails, OpenRound, OpenRepair, OpenFails,
     PromptDelivered, PromptFails, TimesOut, ConfirmationExpires, WorkerLost, WorkerUnusable,
     WorkerFinished, PromptHelper, PromptHelperFails, Reviewed, JudgeAgain, JudgeFails,
     CommitVerdict, ChooseExecutor, ChooseFails, Replanned, ReplanFails, FailRun, RecordPause,
     resumes
<1>2. CASE Environment
  BY <1>2 DEF Environment, Settles, InterruptConfirmed, WorkerEnds, RecordLatePause, ToolStops,
     ToolResumes, GetsResumeLock, Restart, resumes
<1> QED BY <1>1, <1>2 DEF Steps

\* What was decided stays decided before.
LEMMA DecidedStays ==
  ASSUME IInv, [Next]_run, DecidedBefore, decided' = decided
  PROVE  DecidedBefore'
<1>1. run'.round >= run.round /\ (run.phase = "stopped" => run' = run)
  BY Advances
<1>2. run.round \in Nat /\ run'.round \in Nat
  BY TypeStep DEF IInv, TypeOK, RunState
<1>3. \A i \in DOMAIN decided : decided[i][1] \in Nat
  BY DEF DecidedBefore, RequestID
<1> QED BY <1>1, <1>2, <1>3 DEF DecidedBefore, RequestIsDecidedOnce

\* A checkpoint, written or lost, leaves storage true.
LEMMA CheckpointIsTrue ==
  ASSUME NEW checkpoint, Checkpoint(checkpoint), stored.state.phase \notin Halted \/ unrecorded
  PROVE  Stored'
<1>1. CASE stored' = [checkpoint |-> checkpoint, state |-> run']
  BY <1>1 DEF Stored
<1>2. CASE intact' = FALSE /\ stored' = stored /\ (unrecorded => unrecorded')
  BY <1>2 DEF Stored
<1> QED BY <1>1, <1>2 DEF Checkpoint, Write

LEMMA StillInv ==
  ASSUME InTurn, Still
  PROVE  (Fits /\ Stored /\ DecidedBefore /\ Winding)'
<1> USE DEF InTurn
<1>1. /\ run' = run /\ stored' = stored /\ intact' = intact /\ decided' = decided
      /\ unrecorded' = unrecorded
  BY DEF Still, OpenFails, PromptDelivered, PromptFails, TimesOut, ConfirmationExpires, WorkerLost,
     PromptHelper, PromptHelperFails, JudgeAgain, JudgeFails, ChooseFails, ReplanFails,
     ChooseExecutor, Settles, InterruptConfirmed, WorkerEnds, storage, resumes
<1>2. pc' = pc \/ (pc \notin {"pausing", "done"} /\ pc' \in {"failing", "working", "opening"})
  BY DEF Still, OpenFails, PromptDelivered, PromptFails, TimesOut, ConfirmationExpires, WorkerLost,
     PromptHelper, PromptHelperFails, JudgeAgain, JudgeFails, ChooseFails, ReplanFails,
     ChooseExecutor, Settles, InterruptConfirmed, WorkerEnds, Waiting
<1>3. DecidedBefore'
  BY <1>1, DecidedStays
<1>4. Stored'
  BY <1>1, <1>2 DEF Stored
<1>5. closed' = closed
  BY DEF Still, OpenFails, PromptDelivered, PromptFails, TimesOut, ConfirmationExpires, WorkerLost,
     PromptHelper, PromptHelperFails, JudgeAgain, JudgeFails, ChooseFails, ReplanFails,
     ChooseExecutor, SwitchTargets, Settles, InterruptConfirmed, WorkerEnds, memory, host, Waiting
<1>6. Fits'
  BY <1>1, <1>2, <1>5 DEF Fits
<1>7. Winding'
  <2>1. CASE ConfirmationExpires
    BY <2>1 DEF ConfirmationExpires, Winding
  <2>2. CASE ~ConfirmationExpires
    <3>1. abandoned' = abandoned /\ (abandoned /\ pc # "failing" /\ pc # "done" => pc' = "failing" \/ (pc' = pc /\ wait' = wait))
      BY <2>2 DEF Still, OpenFails, PromptDelivered, PromptFails, TimesOut, WorkerLost,
         PromptHelper, PromptHelperFails, JudgeAgain, JudgeFails, ChooseFails, ReplanFails,
         ChooseExecutor, Settles, InterruptConfirmed, WorkerEnds, host, Winding, Waiting
    <3>2. pc \in {"failing", "done"} => pc' = pc
      BY <1>2, <2>2 DEF Still, OpenFails, PromptDelivered, PromptFails, TimesOut, WorkerLost,
         PromptHelper, PromptHelperFails, JudgeAgain, JudgeFails, ChooseFails, ReplanFails,
         ChooseExecutor, Settles, InterruptConfirmed, WorkerEnds, Waiting
    <3> QED BY <1>1, <3>1, <3>2 DEF Winding, Waiting
  <2> QED BY <2>1, <2>2
<1> QED BY <1>3, <1>4, <1>6, <1>7

LEMMA DrivenInv ==
  ASSUME InTurn, [Next]_run, Driven
  PROVE  (Fits /\ Stored /\ DecidedBefore /\ Winding)'
<1> USE DEF InTurn
<1>1. pc \notin {"pausing", "done"} /\ decided' = decided /\ abandoned' = abandoned
  BY DEF Driven, SelectExecutor, SelectFails, OpenRound, OpenRepair, WorkerUnusable, WorkerFinished,
     Reviewed, CommitVerdict, Replanned, FailRun, resumes, host, Waiting
<1>2. run.phase \notin Halted /\ (stored.state.phase \notin Halted \/ unrecorded)
  BY <1>1 DEF Fits, Stored
<1>3. DecidedBefore'
  BY <1>1, DecidedStays
<1>4. /\ run \in RunState /\ run' \in RunState /\ run'.round >= run.round
      /\ run.round \in Nat \ {0} /\ run'.round \in Nat \ {0}
  BY Advances, TypeStep DEF IInv, TypeOK, RunState
<1>5. closed \in Nat /\ closed < run.round
  BY DEF Fits
<1>6. closed' = closed \/ closed' = 0 => closed' \in Nat /\ closed' < run'.round
  BY <1>4, <1>5
<1>7. CASE \E executor \in Executors : SelectExecutor(executor)
  <2>1. run'.phase = "ready"
    BY <1>7, <1>4 DEF SelectExecutor, ContractReady, RunState
  <2>2. Fits'
    BY <1>7, <2>1, <1>5, <1>6 DEF SelectExecutor, Fits, host, Halted, Terminal
  <2>3. Stored' /\ Winding'
    BY <1>7, <1>2 DEF SelectExecutor, Stored, storage, Winding, host, Waiting
  <2> QED BY <1>3, <2>2, <2>3
<1>8. CASE SelectFails
  <2>1. Fits'
    BY <1>8, <1>5, <1>6 DEF SelectFails, Forgets, Fits, host
  <2>2. stored' = stored /\ unrecorded' = unrecorded
    BY <1>8 DEF SelectFails, Fits, storage
  <2>3. Stored'
    BY <2>2, <1>2, <1>8 DEF Stored, SelectFails, Fits
  <2>4. Winding'
    BY <1>8 DEF SelectFails, Winding, host, Waiting
  <2> QED BY <1>3, <2>1, <2>3, <2>4
<1>9. ASSUME NEW session \in SessionAnswers, OpenRound(session)
      PROVE  (Fits /\ Stored /\ DecidedBefore /\ Winding)'
  <2>1. run'.phase = "running"
    BY <1>9, <1>4 DEF OpenRound, ExecutionStarted, RunState
  <2>2. Fits'
    BY <1>9, <2>1, <1>5, <1>6 DEF OpenRound, Fits, Halted, Terminal
  <2>3. Stored'
    BY <1>9, <1>2, CheckpointIsTrue DEF OpenRound
  <2>4. Winding'
    BY <1>9 DEF OpenRound, Winding, Waiting
  <2> QED BY <1>3, <2>2, <2>3, <2>4
<1>10. CASE OpenRepair
  <2>1. run'.phase = "running"
    BY <1>10, <1>4 DEF OpenRepair, ExecutionStarted, RunState
  <2>2. Fits'
    BY <1>10, <2>1, <1>5, <1>6 DEF OpenRepair, Fits, memory, host, Halted, Terminal
  <2>3. Stored'
    BY <1>10, <1>2, CheckpointIsTrue DEF OpenRepair
  <2>4. Winding'
    BY <1>10 DEF OpenRepair, Winding, host, Waiting
  <2> QED BY <1>3, <2>2, <2>3, <2>4
<1>11. CASE WorkerUnusable
  <2>1. run'.phase = "evaluating"
    BY <1>11, <1>4 DEF WorkerUnusable, ExecutionFinished, RunState
  <2>2. Fits'
    BY <1>11, <2>1, <1>5, <1>6 DEF WorkerUnusable, Fits, memory, host, Halted, Terminal
  <2>3. Stored' /\ Winding'
    BY <1>11, <1>2 DEF WorkerUnusable, Stored, storage, Winding, host
  <2> QED BY <1>3, <2>2, <2>3
<1>12. ASSUME NEW checks \in BOOLEAN, NEW executor \in Executors, WorkerFinished(checks, executor)
       PROVE  (Fits /\ Stored /\ DecidedBefore /\ Winding)'
  <2>1. run'.phase = "evaluating"
    BY <1>12, <1>4 DEF WorkerFinished, ExecutionFinished, RunState
  <2>2. Fits'
    BY <1>12, <2>1, <1>5, <1>6 DEF WorkerFinished, Fits, host, Halted, Terminal
  <2>3. Stored' /\ Winding'
    BY <1>12, <1>2 DEF WorkerFinished, Stored, storage, Winding, host
  <2> QED BY <1>3, <2>2, <2>3
<1>13. ASSUME NEW criticPassed \in BOOLEAN, Reviewed(criticPassed)
       PROVE  (Fits /\ Stored /\ DecidedBefore /\ Winding)'
  <2>1. run'.phase = run.phase
    BY <1>13, <1>4 DEF Reviewed, EvidenceReady, RunState
  <2>2. Fits'
    BY <1>13, <2>1, <1>2, <1>5, <1>6 DEF Reviewed, Fits, host
  <2>3. Stored'
    BY <1>13, <1>2, CheckpointIsTrue DEF Reviewed
  <2>4. Winding'
    BY <1>13 DEF Reviewed, Winding, host
  <2> QED BY <1>3, <2>2, <2>3, <2>4
<1>14. ASSUME NEW v \in Verdict, CommitVerdict(v)
       PROVE  (Fits /\ Stored /\ DecidedBefore /\ Winding)'
  <2>1. Stored'
    BY <1>14, <1>2, CheckpointIsTrue DEF CommitVerdict
  <2>2. pc = "judging" /\ created' = created
    BY <1>14 DEF CommitVerdict, host
  <2>3. Winding'
    BY <1>1, <2>2 DEF Winding, Waiting
  <2>4. CASE pc' \in {"done", "pausing"}
    <3>1. closed' = 0
      BY <1>14, <2>4 DEF CommitVerdict, Forgets
    <3> QED BY <2>1, <2>2, <2>3, <2>4, <3>1, <1>3, <1>5, <1>6 DEF Fits
  <2>5. CASE pc' \notin {"done", "pausing"}
    <3>1. mode' = v.nextAction /\ closed' = closed + 1 /\ pc' = Continuation(run')
      BY <1>14, <2>5 DEF CommitVerdict
    <3>2. run'.phase \notin Halted
      BY <3>1, <2>5 DEF Continuation, Halted
    <3>3. v.nextAction \in NextActions /\ {"accept", "stop", "human"} \subseteq NextActions
      BY DEF Verdict, NextActions
    <3>4. BeginNextRound(v)
      <4>1. \A action \in NextActions : Closed(run, action) \in RunState
        BY ClosedType, <1>4
      <4>2. ~Accept(v, 0) /\ ~Stop(v)
        BY <3>2, <3>3, <4>1 DEF Accept, Stop, Halted, Terminal, RunState
      <4>3. ~AskHuman(v) /\ ~ExhaustBudget(v)
        BY <3>2, <3>3, <4>1 DEF AskHuman, ExhaustBudget, Paused, Halted, RunState
      <4> QED BY <1>14, <4>2, <4>3 DEF CommitVerdict
    <3>5. /\ run' = [Closed(run, v.nextAction) EXCEPT
               !.phase    = RecoveryPhase(v.nextAction),
               !.round    = run.round + 1,
               !.evidence = NoEvidence,
               !.executor = RecoveryExecutor(v.nextAction, run.executor)]
          /\ run.phase = "evaluating" /\ v.nextAction \in Recoveries
      BY <3>4 DEF BeginNextRound, Judgeable
    <3>6. Closed(run, v.nextAction) \in RunState /\ Closed(run, v.nextAction).lastVerdict = v.nextAction
      BY <3>3, <1>4, ClosedType DEF Closed, RunState
    <3>7. /\ run'.round = run.round + 1 /\ run'.lastVerdict = v.nextAction
          /\ run'.phase = RecoveryPhase(v.nextAction)
          /\ run'.executor = RecoveryExecutor(v.nextAction, run.executor)
      BY <3>5, <3>6 DEF RunState
    <3>8. Fits'
      BY <2>2, <3>1, <3>2, <3>5, <3>7, <1>4, <1>5 DEF Fits, Continuation
    <3> QED BY <3>8, <2>1, <2>3, <1>3
  <2> QED BY <2>4, <2>5
<1>15. ASSUME NEW maxRounds \in 1..BudgetCap, Replanned(maxRounds)
       PROVE  (Fits /\ Stored /\ DecidedBefore /\ Winding)'
  <2>1. run'.phase = "ready" /\ run'.executor = run.executor
    BY <1>15, <1>4 DEF Replanned, ContractRevised, RunState
  <2>2. Fits'
    BY <1>15, <2>1, <1>5, <1>6 DEF Replanned, Fits, host, Halted, Terminal, Switches
  <2>3. Stored'
    BY <1>15, <1>2, CheckpointIsTrue DEF Replanned
  <2>4. Winding'
    BY <1>15 DEF Replanned, Winding, host
  <2> QED BY <1>3, <2>2, <2>3, <2>4
<1>16. CASE FailRun
  <2>1. run'.phase \in {"failed", "running"}
    BY <1>16, <1>4 DEF FailRun, CommandFailed, RunState
  <2>2. Fits'
    BY <1>16, <1>5, <1>6 DEF FailRun, Forgets, Fits, host
  <2>3. Stored'
    BY <1>16, <1>2, CheckpointIsTrue DEF FailRun
  <2>4. Winding'
    BY <1>16, <2>1 DEF FailRun, Winding, host
  <2> QED BY <1>3, <2>2, <2>3, <2>4
<1> QED BY <1>7, <1>8, <1>9, <1>10, <1>11, <1>12, <1>13, <1>14, <1>15, <1>16 DEF Driven

\* A request of the paused round joins those decided before it.
LEMMA DecidedOnceMore ==
  ASSUME DecidedBefore, run.round \in Nat, run.phase = "awaiting-human",
         NEW id \in RequestID, id[1] = run.round, decided' = Append(decided, id),
         run'.round = run.round + 1 \/ (run'.round = run.round /\ run'.phase = "stopped")
  PROVE  DecidedBefore'
<1>1. /\ decided \in Seq(RequestID) /\ Len(decided) \in Nat /\ DOMAIN decided = 1..Len(decided)
      /\ decided' \in Seq(RequestID) /\ DOMAIN decided' = 1..(Len(decided) + 1)
      /\ decided'[Len(decided) + 1] = id
      /\ \A i \in 1..Len(decided) : decided'[i] = decided[i]
  BY DEF DecidedBefore
<1>2. \A i \in 1..Len(decided) : decided[i][1] < run.round /\ decided[i] \in RequestID
  BY <1>1 DEF DecidedBefore
<1>3. \A i \in 1..Len(decided) : decided[i][1] \in Nat
  BY <1>2 DEF RequestID
<1>4. \A i \in DOMAIN decided' :
        \/ decided'[i][1] < run'.round
        \/ decided'[i][1] = run'.round /\ run'.phase = "stopped"
  BY <1>1, <1>2, <1>3
<1>5. \A i \in 1..Len(decided) : decided[i] # id
  BY <1>2, <1>3
<1>6. RequestIsDecidedOnce'
  BY <1>1, <1>5 DEF DecidedBefore, RequestIsDecidedOnce
<1> QED BY <1>1, <1>4, <1>6 DEF DecidedBefore

\* A tool that takes up a run in storage, or stops it, without overtaking its pause.
LEMMA ToolsInv ==
  ASSUME InTurn, [Next]_run, ~Astray',
         NEW d \in Decisions, ToolStops(d) \/ ToolResumes(d)
  PROVE  (Fits /\ Stored /\ DecidedBefore /\ Winding)'
<1> USE DEF InTurn
<1>1. pc = "done" /\ Decides(d) /\ ~repeated'
  BY DEF ToolStops, ToolResumes, GetsResumeLock, Astray
<1>2. /\ stored.state = run /\ run.phase = "awaiting-human" /\ d \in DecisionInputs
      /\ ValidHumanDecision(run, d) /\ d.requestID \in RequestID /\ d.requestID[1] = run.round
      /\ run.executor \in ExecutorRef
  BY <1>1, DecisionIsDue
<1>3. run \in RunState /\ run.round \in Nat \ {0} /\ run' \in RunState
  BY TypeStep DEF IInv, TypeOK, RunState
<1>4. Decided(run, d) \in RunState /\ Decided(run, d).round = run.round /\ Decided(run, d).executor = run.executor
  BY <1>2, <1>3, DecidedType DEF Decided, RunState
<1>5. \/ stored' = [checkpoint |-> "human-decision", state |-> run']
      \/ unrecorded' /\ ~intact'
  BY DEF ToolStops, ToolResumes, Checkpoint, Write
<1>6. Stored'
  BY <1>5 DEF Stored
<1>7. ~abandoned /\ ~abandoned' /\ created' = created /\ closed' = 0
  BY <1>1, <1>2 DEF ToolStops, ToolResumes, Forgets, host, Winding, Waiting
<1>8. Winding'
  BY <1>7 DEF Winding
<1>9. decided' = Append(decided, d.requestID)
  BY <1>1 DEF Decides
<1>10. CASE ToolStops(d)
  <2>1. run'.phase = "stopped" /\ run'.round = run.round
    BY <1>10, <1>2, <1>3, <1>4 DEF ToolStops, StoppedByHuman, RunState
  <2>2. Fits'
    BY <1>10, <1>3, <1>7, <2>1 DEF ToolStops, Fits
  <2>3. DecidedBefore'
    BY <2>1, <1>2, <1>3, <1>9, DecidedOnceMore
  <2> QED BY <2>2, <2>3, <1>6, <1>8
<1>11. CASE ToolResumes(d)
  <2>1. run'.phase = "ready" /\ run'.round = run.round + 1 /\ run'.executor \in ExecutorRef
    BY <1>11, <1>2, <1>3, <1>4, WithoutSessionType DEF ToolResumes, ResumedByHuman, RunState
  <2>2. Fits'
    BY <1>11, <1>3, <1>7, <2>1 DEF ToolResumes, Fits, Switches, Recoveries, Halted, Terminal
  <2>3. DecidedBefore'
    BY <2>1, <1>2, <1>3, <1>9, DecidedOnceMore
  <2> QED BY <2>2, <2>3, <1>6, <1>8
<1> QED BY <1>10, <1>11

\* The last write of a pause, and a restart.
LEMMA EndsInv ==
  ASSUME InTurn, RecordPause \/ Restart
  PROVE  (Fits /\ Stored /\ DecidedBefore /\ Winding)'
<1> USE DEF InTurn
<1>1. run' = run /\ decided' = decided /\ created' = created /\ closed' = 0 /\ pc' = "done"
  BY DEF RecordPause, Restart, Forgets, host, resumes
<1>2. run.round \in Nat \ {0}
  BY DEF IInv, TypeOK, RunState
<1>3. Fits' /\ DecidedBefore'
  BY <1>1, <1>2, DecidedStays DEF Fits
<1>4. CASE RecordPause
  <2>1. Stored'
    <3>1. CASE stored' = [checkpoint |-> "human-awaiting", state |-> run]
      BY <1>1, <3>1 DEF Stored
    <3>2. CASE stored' = stored /\ intact' = FALSE /\ (unrecorded => unrecorded')
      BY <1>1, <3>2 DEF Stored
    <3> QED BY <1>4, <3>1, <3>2 DEF RecordPause, Write
  <2>2. ~abandoned /\ abandoned' = abandoned
    BY <1>4 DEF RecordPause, Winding, Waiting, host
  <2> QED BY <2>1, <2>2, <1>3 DEF Winding
<1>5. CASE Restart
  <2>1. ~abandoned' /\ ~intact' /\ stored' = stored /\ unrecorded' = unrecorded
    BY <1>5 DEF Restart
  <2>2. Stored'
    BY <1>1, <2>1 DEF Stored
  <2> QED BY <2>1, <2>2, <1>3 DEF Winding
<1> QED BY <1>3, <1>4, <1>5

\* The invariant holds along every step.
LEMMA StepInv ==
  ASSUME DInv, [Steps]_vars
  PROVE  DInv'
<1>0. LoopInv'
  BY LoopStep DEF DInv
<1>1. CASE UNCHANGED vars
  BY <1>0, <1>1 DEF vars, memory, host, storage, resumes, DInv, InTurn, IInv, TypeOK, RoundWithinBudget,
     HistoryIsComplete, RoundClosed, RoundIsBacked, LastEntryIsOpen, AuditsBelong,
     CompletedOnCurrentEvidence, OnlyRepairKeepsSession, Fits, Stored, DecidedBefore,
     RequestIsDecidedOnce, Winding, Astray
<1>2. CASE Steps
  <2>1. (late' # NotLate => overtaken') /\ (Astray => Astray')
    BY <1>2, LateIsOvertaken, RepeatedStays DEF DInv, Astray
  <2>2. ASSUME ~Astray' PROVE InTurn'
    <3>1. LoopInv /\ InTurn /\ late = NotLate /\ ~repeated'
      BY <2>1, <2>2 DEF DInv, Astray
    <3>2. [Next]_run
      BY <1>2, <3>1, StepsAreKernel
    <3>3. IInv'
      BY <3>1, <3>2, InvStep DEF InTurn
    <3>4. \/ Still \/ Driven \/ RecordPause \/ Restart
          \/ \E d \in Decisions : ToolStops(d) \/ ToolResumes(d)
      <4>1. ~RecordLatePause
        BY <3>1 DEF RecordLatePause
      <4> QED BY <1>2, <4>1 DEF Steps, Scheduler, Environment, Still, Driven
    <3>5. (Fits /\ Stored /\ DecidedBefore /\ Winding)'
      BY <2>2, <3>1, <3>2, <3>4, StillInv, DrivenInv, EndsInv, ToolsInv
    <3> QED BY <3>3, <3>5 DEF InTurn
  <2> QED BY <1>0, <2>1, <2>2 DEF DInv
<1> QED BY <1>1, <1>2

-----------------------------------------------------------------------------
(* The properties *)

\* Whatever checkpoints are lost, the human's decision among them, and whichever resume
\* overtakes a pause, the scheduler's variables and the record keep their types, each round
\* is within its budget, and what runs in the host is a session it created
\* (dispatcher.ts:596).
THEOREM LoopIsSound == DispatcherSpec => []LoopInv
BY LoopStart, LoopStep, PTL DEF DispatcherSpec

\* Every variable of the scheduler, of the host and of storage keeps its type
\* (dispatcher.ts:596).
THEOREM DispatcherTypeCorrect == DispatcherSpec => []DispatcherTypeOK
<1>1. LoopInv => DispatcherTypeOK
  BY DEF LoopInv
<1> QED BY <1>1, LoopIsSound, PTL

\* No lost checkpoint, restart or overtaking resume lets a round open past the budget in
\* force (dispatcher.ts:1495).
THEOREM BudgetIsKept == DispatcherSpec => []RoundWithinBudget
<1>1. LoopInv => RoundWithinBudget
  BY DEF LoopInv, Sound, RoundWithinBudget
<1> QED BY <1>1, LoopIsSound, PTL

\* What is completed was done by a worker that ended by itself and passed its checks, and
\* was approved by a critic of the same round that answered in time (dispatcher.ts:1174).
THEOREM OnlyReviewedWork == DispatcherSpec => OnlyReviewedWorkCompletes
<1>1. LoopInv /\ [Steps]_vars => [CompletingStep]_vars
  <2> SUFFICES ASSUME LoopInv, Steps, run.phase # "completed", run'.phase = "completed" PROVE passed
    BY DEF CompletingStep
  <2>1. pc = "judging" /\ ~run.evidence.hardFailure
    BY OnlyAcceptCompletes
  <2> QED BY <2>1 DEF LoopInv, Ready
<1> QED BY <1>1, LoopIsSound, PTL DEF DispatcherSpec, OnlyReviewedWorkCompletes

\* The invariant behind what follows, of a run that has not gone astray, whichever of its
\* checkpoints are lost (dispatcher.ts:596, 1852).
THEOREM DispatcherInvariant == DispatcherSpec => []DInv
BY StartInv, StepInv, PTL DEF DispatcherSpec

\* The scheduler, a round and a resume from storage implement the kernel: no failure path,
\* lost checkpoint or restart takes the run elsewhere, except a resume that overtakes the
\* run's pause or decides on a pause whose decision storage has lost (dispatcher.ts:596).
THEOREM DispatcherImplementsKernel == DispatcherSpec => KeepsToKernel
<1>1. Start => Init
  BY DEF Start
<1>2. DInv /\ [Steps]_vars => [overtaken \/ repeated' \/ Next]_run
  <2> SUFFICES ASSUME DInv, [Steps]_vars, ~overtaken, ~repeated' PROVE [Next]_run
    OBVIOUS
  <2>1. CASE UNCHANGED vars
    BY <2>1 DEF vars
  <2>2. CASE Steps
    <3>1. ~Astray
      BY <2>2, RepeatedStays DEF DInv, Astray
    <3> QED BY <2>2, <3>1, StepsAreKernel DEF DInv, Astray
  <2> QED BY <2>1, <2>2
<1> QED BY <1>1, <1>2, DispatcherInvariant, PTL DEF DispatcherSpec, KeepsToKernel

\* The safety of the kernel, of the run a dispatcher drives.
KernelSafety == RoundWithinBudget /\ HistoryIsComplete /\ CompletedOnCurrentEvidence

\* What KernelProofs shows of a run, the dispatcher keeps of one that has not gone astray: no
\* round past the budget, a complete history, completion on the evidence of the last round
\* (dispatcher.ts:1290).
THEOREM DispatcherIsSafe == DispatcherSpec => [](~Astray => KernelSafety)
<1>1. DInv => (~Astray => KernelSafety)
  BY DEF DInv, InTurn, IInv, KernelSafety
<1> QED BY <1>1, DispatcherInvariant, PTL

\* Of a run that has not gone astray, an end or a pause found in storage is the run's,
\* unless it is the pause whose decision storage has lost (dispatcher.ts:596, 1852).
THEOREM StorageIsTrue == DispatcherSpec => []StoredIsTrue
<1>1. DInv => StoredIsTrue
  BY DEF DInv, InTurn, Stored, StoredIsTrue, Halted
<1> QED BY <1>1, DispatcherInvariant, PTL

\* A request for a human is decided once, so that a stopped run is never resumed and a
\* paused one is resumed into one round, unless the run has gone astray (tools.ts:358).
THEOREM DecisionsAreSingle == DispatcherSpec => []RequestIsDecidedOnceInTurn
<1>1. DInv => RequestIsDecidedOnceInTurn
  BY DEF DInv, InTurn, DecidedBefore, RequestIsDecidedOnceInTurn
<1> QED BY <1>1, DispatcherInvariant, PTL

\* The loop's own guard never stops a run that has not gone astray: the state machine ends
\* the round first (dispatcher.ts:1495).
THEOREM GuardIsIdle == DispatcherSpec => [](~Astray => GuardNeverStopsARun)
<1>1. DInv => (~Astray => GuardNeverStopsARun)
  <2> SUFFICES ASSUME InTurn PROVE GuardNeverStopsARun
    BY DEF DInv
  <2>1. run.round \in Nat /\ run.maxRounds \in Nat /\ closed \in Nat
        /\ run.round <= run.maxRounds /\ closed < run.round
    BY BudgetCapAssumption DEF InTurn, IInv, TypeOK, RunState, RoundWithinBudget, Fits
  <2> QED BY <2>1 DEF GuardNeverStopsARun, BudgetGuard
<1> QED BY <1>1, DispatcherInvariant, PTL

\* After an interruption nobody confirmed there is no later dispatch, judgement or outcome,
\* unless the run has gone astray (dispatcher.ts:986).
THEOREM AbandonEnds == DispatcherSpec => NothingAfterAbandon
<1>1. DInv /\ [Steps]_vars => [NothingNew]_vars
  <2> SUFFICES ASSUME DInv, Steps, ~overtaken, ~repeated', abandoned, abandoned'
               PROVE  executing' \subseteq executing /\ run'.history = run.history /\ run'.round = run.round
    BY DEF NothingNew
  <2>1. InTurn /\ late = NotLate
    <3>1. ~repeated
      BY RepeatedStays DEF DInv
    <3> QED BY <3>1 DEF DInv, Astray
  <2>2. Winding /\ run \in RunState
    BY <2>1 DEF InTurn, IInv, TypeOK
  <2>3. CASE Still
    BY <2>2, <2>3 DEF Still, OpenFails, PromptDelivered, PromptFails, TimesOut, ConfirmationExpires,
       WorkerLost, PromptHelper, PromptHelperFails, JudgeAgain, JudgeFails, ChooseFails, ReplanFails,
       ChooseExecutor, Settles, InterruptConfirmed, WorkerEnds, host, Winding, Waiting
  <2>4. CASE Driven
    <3>1. ~(pc \in {"selecting", "opening", "prompting", "judging", "choosing"}) /\ (pc \in Waiting => wait = "unconfirmed")
      BY <2>2 DEF Winding, Waiting
    <3>2. FailRun \/ \E criticPassed \in BOOLEAN : Reviewed(criticPassed)
      BY <2>4, <3>1 DEF Driven, SelectExecutor, SelectFails, OpenRound, OpenRepair, WorkerUnusable,
         WorkerFinished, CommitVerdict, Replanned, Waiting
    <3>3. CASE FailRun
      BY <2>2, <3>3 DEF FailRun, CommandFailed, host, RunState
    <3>4. CASE \E criticPassed \in BOOLEAN : Reviewed(criticPassed)
      BY <2>2, <3>4 DEF Reviewed, EvidenceReady, host, RunState
    <3> QED BY <3>2, <3>3, <3>4
  <2>5. CASE RecordPause
    BY <2>2, <2>5 DEF RecordPause, host
  <2>6. CASE Restart
    BY <2>6 DEF Restart
  <2>7. ASSUME NEW d \in Decisions, ToolStops(d) \/ ToolResumes(d)
        PROVE  FALSE
    <3>1. run.phase = "awaiting-human"
      BY <2>1, <2>7, DecisionIsDue DEF InTurn, ToolStops, ToolResumes
    <3> QED BY <2>2, <2>7, <3>1 DEF ToolStops, ToolResumes, GetsResumeLock, Winding, Waiting
  <2>8. ~RecordLatePause
    BY <2>1 DEF RecordLatePause
  <2> QED BY <2>3, <2>4, <2>5, <2>6, <2>7, <2>8 DEF Steps, Scheduler, Environment, Still, Driven
<1> QED BY <1>1, DispatcherInvariant, PTL DEF DispatcherSpec, NothingAfterAbandon
=============================================================================
