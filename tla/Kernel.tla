------------------------------- MODULE Kernel -------------------------------
(***************************************************************************)
(* The pure state machine of one orchestration run: transitionRun of       *)
(* src/orchestration/state-machine.ts with the human gate of human-gate.ts *)
(* and the validators of types.ts.                                         *)
(*                                                                         *)
(* `run` is the RunState.  One action per event (one per outcome of        *)
(* VERDICT_RECEIVED).  An event the code answers with an OrchestrationError*)
(* leaves the state as it was, so it is simply not enabled here.           *)
(*                                                                         *)
(* Abstractions of data: an executor is an agent/model pair plus an        *)
(* optional session; an EvidencePacket is its round and whether one of its *)
(* deterministicChecks is "fail" (its executor becomes the run's); a       *)
(* contract is its maxRounds (the runID never changes, the texts are not   *)
(* tested); a stored verdict is its nextAction, which validateVerdict makes*)
(* decide `done` and whether failureClass is "none".                       *)
(***************************************************************************)
EXTENDS Integers, Sequences

CONSTANTS
  Executors,   \* agent/model pairs that may execute a round
  Sessions,    \* identifiers of worker sessions
  BudgetCap    \* CONTRACT_LIMITS.maxRounds (100 in the code)

ASSUME BudgetCapAssumption == BudgetCap \in Nat \ {0}

VARIABLE run

-----------------------------------------------------------------------------
(* Values *)

Phases == {"planning", "ready", "running", "evaluating", "repairing",
           "awaiting-human", "completed", "stopped", "failed"}
Terminal == {"completed", "stopped", "failed"}

NoSession  == "no session"
NoExecutor == [pair |-> "none", session |-> NoSession]
ExecutorRef == [pair : Executors, session : Sessions \cup {NoSession}]

NoEvidence == [round |-> 0, hardFailure |-> FALSE]
EvidencePacket == [round : Nat \ {0}, hardFailure : BOOLEAN]

\* The nextActions that open another round when the budget allows one.
Recoveries == {"repair-same", "fresh-same", "switch-model", "switch-agent", "replan"}
NextActions == Recoveries \cup {"accept", "human", "stop"}
NoVerdict == "none"
Verdict == [done : BOOLEAN, failureClass : {"none", "material"},
            sameExecutorCanRepair : BOOLEAN, nextAction : NextActions]

Kinds == {"jev-human", "max-rounds"}
RequestID == (Nat \ {0}) \X Nat \X Kinds
NoRequest == [requestID |-> <<0, 0, "none">>, round |-> 0,
              currentMaxRounds |-> 0, minimumMaxRounds |-> 0]
HumanRequest == [requestID : RequestID, round : Nat \ {0},
                 currentMaxRounds : Nat, minimumMaxRounds : Nat]

NoBudget == 0     \* newMaxRounds left out of a decision

NoAudit == [requestID |-> <<0, 0, "none">>, action |-> "none", before |-> 0, after |-> 0]
HumanDecisionAudit ==
  [requestID : RequestID, action : {"resume", "stop"}, before : Nat, after : Nat]
NoRevision == [from |-> 0, to |-> 0]
ContractRevision == [from : Nat \ {0}, to : Nat \ {0}]

RoundHistoryEntry ==
  [round            : Nat \ {0},
   pair             : Executors \cup {"none"},
   verdict          : NextActions,
   contractRevision : ContractRevision \cup {NoRevision},
   humanDecision    : HumanDecisionAudit \cup {NoAudit}]

RunState ==
  [phase        : Phases,
   round        : Nat \ {0},
   maxRounds    : 1..BudgetCap,
   executor     : ExecutorRef \cup {NoExecutor},
   evidence     : EvidencePacket \cup {NoEvidence},
   lastVerdict  : NextActions \cup {NoVerdict},
   history      : Seq(RoundHistoryEntry),
   pendingHuman : HumanRequest \cup {NoRequest}]

-----------------------------------------------------------------------------
(* Helpers *)

ValidVerdict(v) ==
  /\ v.done <=> v.nextAction = "accept"
  /\ v.done <=> v.failureClass = "none"
  /\ v.nextAction = "repair-same" => v.sameExecutorCanRepair

WithoutSession(executor) == [executor EXCEPT !.session = NoSession]

\* Mutant of HistoryCap: room for the rounds of the budget but one.
HistoryCapShort(maxRounds) == maxRounds - 1

HistoryCap(maxRounds) == IF maxRounds + 2 > 4 THEN maxRounds + 2 ELSE 4

\* The history with the current round closed by `action`: bounded, oldest first out.
RecordRound(s, action) ==
  LET grown == Append(s.history,
                 [round            |-> s.round,
                  pair             |-> s.executor.pair,
                  verdict          |-> action,
                  contractRevision |-> NoRevision,
                  humanDecision    |-> NoAudit])
      cap   == HistoryCap(s.maxRounds)
  IN  IF Len(grown) > cap THEN SubSeq(grown, Len(grown) - cap + 1, Len(grown))
                          ELSE grown

Closed(s, action) ==
  [s EXCEPT !.lastVerdict = action, !.history = RecordRound(s, action)]

BuildHumanRequest(s, historyLength, kind) ==
  [requestID        |-> <<s.round, historyLength, kind>>,
   round            |-> s.round,
   currentMaxRounds |-> s.maxRounds,
   minimumMaxRounds |-> s.round + 1]

\* Mutant of Paused: the evidence is cleared, as when a round opens.
PausedWithoutEvidence(s, kind) ==
  [s EXCEPT !.phase        = "awaiting-human",
            !.evidence     = NoEvidence,
            !.pendingHuman = BuildHumanRequest(s, Len(s.history), kind)]

\* The pause both roads to awaiting-human take, once the round is closed.
Paused(s, kind) ==
  [s EXCEPT !.phase        = "awaiting-human",
            !.pendingHuman = BuildHumanRequest(s, Len(s.history), kind)]

EffectiveBudget(s, d) == IF d.newMaxRounds = NoBudget THEN s.maxRounds ELSE d.newMaxRounds

\* Mutant of ValidHumanDecision: the new budget is not compared with the one in force.
ValidHumanDecisionLowering(s, d) ==
  /\ d.newMaxRounds # NoBudget => d.newMaxRounds <= BudgetCap
  /\ d.action = "stop" => d.newMaxRounds = NoBudget
  /\ s.pendingHuman # NoRequest
  /\ d.requestID = s.pendingHuman.requestID
  /\ d.action = "resume" => EffectiveBudget(s, d) >= s.round + 1

ValidHumanDecision(s, d) ==
  /\ d.action = "stop" => d.newMaxRounds = NoBudget
  /\ d.newMaxRounds # NoBudget => d.newMaxRounds \in s.maxRounds..BudgetCap
  /\ s.pendingHuman # NoRequest
  /\ d.requestID = s.pendingHuman.requestID
  /\ d.action = "resume" => EffectiveBudget(s, d) >= s.round + 1

\* validateResumableRunState: what a stored state must be for orchestrate_resume.
Resumable(s) ==
  /\ s.phase = "awaiting-human"
  /\ s.maxRounds \in 1..BudgetCap
  /\ s.round >= 1
  /\ s.pendingHuman # NoRequest
  /\ s.pendingHuman.requestID[3] \in Kinds
  /\ s.pendingHuman.round = s.round
  /\ s.pendingHuman.currentMaxRounds = s.maxRounds
  /\ s.pendingHuman.minimumMaxRounds = s.round + 1
  /\ s.executor \in ExecutorRef
  /\ s.evidence # NoEvidence
  /\ s.evidence.round = s.round
  /\ s.lastVerdict # NoVerdict

\* The same history with a field of its last entry filled in; empty stays empty.
AnnotateRevision(history, revision) ==
  IF history = <<>> THEN history
  ELSE [history EXCEPT ![Len(history)].contractRevision = revision]

AnnotateDecision(history, audit) ==
  IF history = <<>> THEN history
  ELSE [history EXCEPT ![Len(history)].humanDecision = audit]

-----------------------------------------------------------------------------
(* Events *)

CreateRunState(maxRounds) ==
  [phase |-> "planning", round |-> 1, maxRounds |-> maxRounds, executor |-> NoExecutor,
   evidence |-> NoEvidence, lastVerdict |-> NoVerdict, history |-> <<>>,
   pendingHuman |-> NoRequest]

Init == \E maxRounds \in 1..BudgetCap : run = CreateRunState(maxRounds)

\* CONTRACT_READY without a contract: the first dispatch.
ContractReady ==
  /\ run.phase = "planning"
  /\ run' = [run EXCEPT !.phase = "ready"]

\* CONTRACT_READY with the contract a replan produced; it may only lower the
\* budget, never below the round already opened.
ContractRevised(maxRounds) ==
  /\ run.phase = "planning"
  /\ maxRounds <= run.maxRounds
  /\ maxRounds >= run.round
  /\ run' = [run EXCEPT !.phase = "ready", !.maxRounds = maxRounds,
                        !.history = AnnotateRevision(@, [from |-> run.maxRounds,
                                                         to   |-> maxRounds])]

ExecutionStarted(executor) ==
  /\ run.phase \in {"ready", "repairing"}
  /\ run' = [run EXCEPT !.phase = "running", !.executor = executor]

\* EXECUTION_STARTED without an executor: only a repair, with the stored one.
ExecutionRestarted ==
  /\ run.phase = "repairing"
  /\ run.executor \in ExecutorRef
  /\ run' = [run EXCEPT !.phase = "running"]

ExecutionFinished ==
  /\ run.phase = "running"
  /\ run' = [run EXCEPT !.phase = "evaluating"]

EvidenceReady(evidence, executor) ==
  /\ run.phase = "evaluating"
  /\ evidence.round = run.round
  /\ run' = [run EXCEPT !.evidence = evidence, !.executor = executor]

\* What every VERDICT_RECEIVED needs: evidence of the current round, a valid verdict.
Judgeable(v) ==
  /\ run.phase = "evaluating"
  /\ run.evidence # NoEvidence
  /\ run.evidence.round = run.round
  /\ ValidVerdict(v)

\* Mutant of Accept: the evidence's checks are not looked at.
AcceptDespiteFailure(v, pendingFollowups) ==
  /\ Judgeable(v) /\ v.nextAction = "accept"
  /\ pendingFollowups = 0
  /\ run' = [Closed(run, "accept") EXCEPT !.phase = "completed"]

\* Accept: refused on a hard failure or while a follow-up is pending.
Accept(v, pendingFollowups) ==
  /\ Judgeable(v) /\ v.nextAction = "accept"
  /\ ~run.evidence.hardFailure
  /\ pendingFollowups = 0
  /\ run' = [Closed(run, "accept") EXCEPT !.phase = "completed"]

Stop(v) ==
  /\ Judgeable(v) /\ v.nextAction = "stop"
  /\ run' = [Closed(run, "stop") EXCEPT !.phase = "stopped"]

AskHuman(v) ==
  /\ Judgeable(v) /\ v.nextAction = "human"
  /\ run' = Paused(Closed(run, "human"), "jev-human")

\* beginNextRound with no round left: the run waits for a human instead.
ExhaustBudget(v) ==
  /\ Judgeable(v) /\ v.nextAction \in Recoveries
  /\ run.round + 1 > run.maxRounds
  /\ run' = Paused(Closed(run, v.nextAction), "max-rounds")

RecoveryPhase(action) ==
  CASE action = "repair-same" -> "repairing"
    [] action = "replan"      -> "planning"
    [] OTHER                  -> "ready"

RecoveryExecutor(action, executor) ==
  CASE action = "repair-same"                      -> executor
    [] action \in {"switch-model", "switch-agent"} -> NoExecutor
    [] OTHER                                       -> WithoutSession(executor)

\* beginNextRound with a round left.
BeginNextRound(v) ==
  /\ Judgeable(v) /\ v.nextAction \in Recoveries
  /\ run.round + 1 <= run.maxRounds
  /\ run' = [Closed(run, v.nextAction) EXCEPT
               !.phase    = RecoveryPhase(v.nextAction),
               !.round    = run.round + 1,
               !.evidence = NoEvidence,
               !.executor = RecoveryExecutor(v.nextAction, run.executor)]

\* The state with the decision audited on the paused round and the request consumed.
Decided(s, d) ==
  [s EXCEPT !.pendingHuman = NoRequest,
            !.history = AnnotateDecision(@, [requestID |-> d.requestID, action |-> d.action,
                                             before |-> s.maxRounds,
                                             after  |-> EffectiveBudget(s, d)])]

\* The states a human's decision leads to: the run stopped, or one more round opened
\* (the evidence of the paused round stays).
StoppedByHuman(s, d) == [Decided(s, d) EXCEPT !.phase = "stopped"]
ResumedByHuman(s, d) ==
  [Decided(s, d) EXCEPT !.phase     = "ready",
                        !.round     = s.round + 1,
                        !.maxRounds = EffectiveBudget(s, d),
                        !.executor  = WithoutSession(s.executor)]

\* HUMAN_DECISION_RECEIVED with action stop.
HumanStop(d) ==
  /\ run.phase = "awaiting-human" /\ d.action = "stop"
  /\ ValidHumanDecision(run, d)
  /\ run' = StoppedByHuman(run, d)

\* HUMAN_DECISION_RECEIVED with action resume: opens exactly one round.
HumanResume(d) ==
  /\ run.phase = "awaiting-human" /\ d.action = "resume"
  /\ ValidHumanDecision(run, d)
  /\ run' = ResumedByHuman(run, d)

CommandFailed ==
  /\ run.phase \in {"ready", "evaluating", "repairing", "awaiting-human", "planning"}
  /\ run' = [run EXCEPT !.phase = "failed"]

\* VERDICT_RECEIVED, whatever the verdict and however many follow-ups are pending.
VerdictReceived ==
  \E v \in Verdict :
    \/ \E pendingFollowups \in 0..1 : Accept(v, pendingFollowups)
    \/ Stop(v)
    \/ AskHuman(v)
    \/ ExhaustBudget(v)
    \/ BeginNextRound(v)

\* The decisions a human may submit: stale requests and budgets out of range included.
DecisionInputs ==
  [requestID    : (1..BudgetCap) \X (1..BudgetCap) \X Kinds,
   action       : {"resume", "stop"},
   newMaxRounds : 0..(BudgetCap + 1)]

Next ==
  \/ ContractReady
  \/ \E maxRounds \in 1..BudgetCap : ContractRevised(maxRounds)
  \/ \E executor \in ExecutorRef : ExecutionStarted(executor)
  \/ ExecutionRestarted
  \/ ExecutionFinished
  \/ \E executor \in ExecutorRef, round \in 1..BudgetCap, hardFailure \in BOOLEAN :
        EvidenceReady([round |-> round, hardFailure |-> hardFailure], executor)
  \/ VerdictReceived
  \/ \E d \in DecisionInputs : HumanStop(d) \/ HumanResume(d)
  \/ CommandFailed

Spec == Init /\ [][Next]_run

-----------------------------------------------------------------------------
(* Properties *)

\* Every field of the RunState keeps its type; a contract budget stays within
\* CONTRACT_LIMITS.maxRounds.
TypeOK == run \in RunState

\* "round NUNCA excede contract.maxRounds": no chain of repairs, switches, replans
\* that shrink the contract and human resumes opens a round beyond the budget in force.
RoundWithinBudget == run.round <= run.maxRounds

RoundClosed == run.phase \in {"awaiting-human", "completed", "stopped"}

\* The bounded history never loses a round: it holds exactly the closed rounds, in
\* order, so the cap of recordRound never bites and the attempts that the selection
\* of another model or agent must avoid are all there.
HistoryIsComplete ==
  /\ \A i \in DOMAIN run.history : run.history[i].round = i
  /\ RoundClosed => Len(run.history) = run.round
  /\ run.phase \notin Terminal \cup {"awaiting-human"} => Len(run.history) = run.round - 1

\* A paused run is always one that orchestrate_resume can take up again: whichever
\* road led to awaiting-human, the state passes validateResumableRunState.
PausedIsResumable == run.phase = "awaiting-human" => Resumable(run)

\* A completed run was accepted on the evidence of its last round, and that evidence
\* has no hard failure; no stale packet of an earlier round stands behind it.
CompletedOnCurrentEvidence ==
  run.phase = "completed" =>
    /\ run.evidence.round = run.round
    /\ ~run.evidence.hardFailure
    /\ run.history[Len(run.history)].verdict = "accept"

RequestKind(verdict) == IF verdict = "human" THEN "jev-human" ELSE "max-rounds"

AuditBelongs(entry, i) ==
  /\ entry.contractRevision # NoRevision => entry.verdict = "replan"
  /\ entry.humanDecision # NoAudit =>
       entry.humanDecision.requestID = <<i, i, RequestKind(entry.verdict)>>

\* Audits sit on the entry they are about: a contract revision on a round closed by
\* replan, a human decision on a round that paused, with the request of that round.
AuditsBelong == \A i \in DOMAIN run.history : AuditBelongs(run.history[i], i)

\* A fresh, switched, replanned or resumed round never starts with the session of the
\* round before it; only a repair keeps one.
OnlyRepairKeepsSession ==
  run.phase \in {"planning", "ready"} => run.executor.session = NoSession

\* What was decided is never rewritten: closed rounds keep their number, executor and
\* verdict, and an audit once written never changes, so no request is decided twice.
KeepsHistory ==
  /\ Len(run.history) <= Len(run'.history)
  /\ \A i \in DOMAIN run.history :
       LET old == run.history[i]
           new == run'.history[i]
       IN  /\ new.round = old.round /\ new.pair = old.pair /\ new.verdict = old.verdict
           /\ old.contractRevision # NoRevision => new.contractRevision = old.contractRevision
           /\ old.humanDecision # NoAudit => new.humanDecision = old.humanDecision
HistoryIsAppendOnly == [][KeepsHistory]_run

\* The budget grows only by a human resume whose audit records the change.
AuditsIncrease ==
  run'.maxRounds > run.maxRounds =>
    /\ run'.history # <<>>
    /\ LET audit == run'.history[Len(run'.history)].humanDecision
       IN  /\ audit.action = "resume"
           /\ audit.before = run.maxRounds
           /\ audit.after = run'.maxRounds
BudgetGrowsOnlyByHuman == [][AuditsIncrease]_run

-----------------------------------------------------------------------------
(* Refinement *)

Stage ==
  CASE run.phase = "awaiting-human" -> "paused"
    [] run.phase \in Terminal       -> "over"
    [] OTHER                        -> "active"

Budget == INSTANCE RoundBudget WITH stage <- Stage, round <- run.round, budget <- run.maxRounds

\* The kernel implements RoundBudget: every event is one of its steps or none.
KernelKeepsBudget == Budget!Spec

=============================================================================
