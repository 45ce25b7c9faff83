---------------------------- MODULE KernelProofs ----------------------------
(***************************************************************************)
(* The properties of Kernel hold for every set of executors and sessions   *)
(* and every budget cap.                                                   *)
(***************************************************************************)
EXTENDS Kernel, SequenceTheorems, TLAPS

-----------------------------------------------------------------------------
(* The history operators *)

\* Closing a round yields a history again.
LEMMA RecordRoundType ==
  ASSUME NEW s \in RunState, NEW action \in NextActions
  PROVE  RecordRound(s, action) \in Seq(RoundHistoryEntry)
<1> DEFINE entry == [round            |-> s.round,
                     pair             |-> s.executor.pair,
                     verdict          |-> action,
                     contractRevision |-> NoRevision,
                     humanDecision    |-> NoAudit]
           grown == Append(s.history, entry)
           cap   == HistoryCap(s.maxRounds)
<1>1. entry \in RoundHistoryEntry
  BY DEF RunState, RoundHistoryEntry, ExecutorRef, NoExecutor
<1>2. grown \in Seq(RoundHistoryEntry) /\ Len(grown) \in Nat
  BY <1>1 DEF RunState
<1>3. cap \in Nat
  BY DEF RunState, HistoryCap
<1>4. CASE Len(grown) > cap
  <2>1. SubSeq(grown, Len(grown) - cap + 1, Len(grown)) \in Seq(RoundHistoryEntry)
    BY <1>2, <1>3, <1>4, SubSeqProperties
  <2>2. QED BY <2>1, <1>4 DEF RecordRound
<1>5. CASE ~(Len(grown) > cap)
  BY <1>2, <1>5 DEF RecordRound
<1>6. QED BY <1>4, <1>5

\* As long as the history has one entry per closed round, closing one only appends.
LEMMA RecordRoundAppends ==
  ASSUME NEW s \in RunState, NEW action \in NextActions,
         Len(s.history) = s.round - 1, s.round <= s.maxRounds
  PROVE  RecordRound(s, action) =
           Append(s.history, [round            |-> s.round,
                              pair             |-> s.executor.pair,
                              verdict          |-> action,
                              contractRevision |-> NoRevision,
                              humanDecision    |-> NoAudit])
BY DEF RecordRound, HistoryCap, RunState, RoundHistoryEntry

\* Filling in an audit field keeps the history a history.
LEMMA AnnotateType ==
  ASSUME NEW history \in Seq(RoundHistoryEntry)
  PROVE  /\ \A revision \in ContractRevision :
              AnnotateRevision(history, revision) \in Seq(RoundHistoryEntry)
         /\ \A audit \in HumanDecisionAudit :
              AnnotateDecision(history, audit) \in Seq(RoundHistoryEntry)
<1>1. CASE history = <<>>
  BY <1>1 DEF AnnotateRevision, AnnotateDecision
<1>2. CASE history # <<>>
  <2>1. Len(history) \in DOMAIN history /\ history[Len(history)] \in RoundHistoryEntry
    BY <1>2
  <2>2. ASSUME NEW revision \in ContractRevision
        PROVE  AnnotateRevision(history, revision) \in Seq(RoundHistoryEntry)
    <3>1. [history[Len(history)] EXCEPT !.contractRevision = revision] \in RoundHistoryEntry
      BY <2>1 DEF RoundHistoryEntry
    <3>2. QED BY <3>1, <2>1, <1>2, ExceptSeq DEF AnnotateRevision
  <2>3. ASSUME NEW audit \in HumanDecisionAudit
        PROVE  AnnotateDecision(history, audit) \in Seq(RoundHistoryEntry)
    <3>1. [history[Len(history)] EXCEPT !.humanDecision = audit] \in RoundHistoryEntry
      BY <2>1 DEF RoundHistoryEntry
    <3>2. QED BY <3>1, <2>1, <1>2, ExceptSeq DEF AnnotateDecision
  <2>4. QED BY <2>2, <2>3
<1>3. QED BY <1>1, <1>2

-----------------------------------------------------------------------------
(* Types *)

\* Closing and pausing keep a RunState a RunState.
LEMMA ClosedType ==
  ASSUME NEW s \in RunState, NEW action \in NextActions
  PROVE  Closed(s, action) \in RunState
BY RecordRoundType DEF Closed, RunState

\* A pause leaves a RunState with a well-formed human request.
LEMMA PausedType ==
  ASSUME NEW s \in RunState, NEW kind \in Kinds
  PROVE  Paused(s, kind) \in RunState
<1>1. BuildHumanRequest(s, Len(s.history), kind) \in HumanRequest
  BY DEF BuildHumanRequest, HumanRequest, RequestID, RunState
<1>2. QED BY <1>1 DEF Paused, RunState, Phases

\* Dropping the session of an executor leaves an executor.
LEMMA WithoutSessionType ==
  ASSUME NEW executor \in ExecutorRef \cup {NoExecutor}
  PROVE  /\ WithoutSession(executor) \in ExecutorRef \cup {NoExecutor}
         /\ WithoutSession(executor).session = NoSession
         /\ executor \in ExecutorRef => WithoutSession(executor) \in ExecutorRef
BY DEF WithoutSession, ExecutorRef, NoExecutor

\* A valid decision names a budget a contract may have, and auditing it keeps the type.
LEMMA AuditedType ==
  ASSUME NEW s \in RunState, NEW d, d.requestID \in RequestID, d.action \in {"resume", "stop"},
         d.newMaxRounds \in Nat, ValidHumanDecision(s, d)
  PROVE  /\ EffectiveBudget(s, d) \in s.maxRounds..BudgetCap
         /\ EffectiveBudget(s, d) \in 1..BudgetCap
         /\ Decided(s, d) \in RunState
<1>1. EffectiveBudget(s, d) \in s.maxRounds..BudgetCap /\ EffectiveBudget(s, d) \in 1..BudgetCap
  BY BudgetCapAssumption DEF ValidHumanDecision, EffectiveBudget, NoBudget, RunState
<1>2. [requestID |-> d.requestID, action |-> d.action, before |-> s.maxRounds,
       after |-> EffectiveBudget(s, d)] \in HumanDecisionAudit
  BY <1>1 DEF HumanDecisionAudit, RunState
<1>3. QED BY <1>1, <1>2, AnnotateType DEF Decided, RunState

LEMMA DecidedType ==
  ASSUME NEW s \in RunState, NEW d \in DecisionInputs, ValidHumanDecision(s, d)
  PROVE  /\ EffectiveBudget(s, d) \in s.maxRounds..BudgetCap
         /\ EffectiveBudget(s, d) \in 1..BudgetCap
         /\ Decided(s, d) \in RunState
<1>1. d.requestID \in RequestID /\ d.action \in {"resume", "stop"} /\ d.newMaxRounds \in Nat
  BY BudgetCapAssumption DEF DecisionInputs, RequestID
<1>2. QED BY <1>1, AuditedType

\* createRunState returns a RunState.
LEMMA TypeInit == Init => TypeOK
BY BudgetCapAssumption DEF Init, CreateRunState, RunState, Phases, TypeOK

\* Every event takes a RunState to a RunState.
LEMMA TypeStep == TypeOK /\ [Next]_run => TypeOK'
<1> USE DEF TypeOK
<1> SUFFICES ASSUME run \in RunState, [Next]_run
             PROVE  run' \in RunState
  OBVIOUS
<1>1. CASE ContractReady
  BY <1>1 DEF ContractReady, RunState, Phases
<1>2. ASSUME NEW maxRounds \in 1..BudgetCap, ContractRevised(maxRounds)
      PROVE  run' \in RunState
  <2>1. [from |-> run.maxRounds, to |-> maxRounds] \in ContractRevision
    BY DEF ContractRevision, RunState
  <2>2. QED BY <2>1, <1>2, AnnotateType DEF ContractRevised, RunState, Phases
<1>3. ASSUME NEW executor \in ExecutorRef, ExecutionStarted(executor)
      PROVE  run' \in RunState
  BY <1>3 DEF ExecutionStarted, RunState, Phases
<1>4. CASE ExecutionRestarted
  BY <1>4 DEF ExecutionRestarted, RunState, Phases
<1>5. CASE ExecutionFinished
  BY <1>5 DEF ExecutionFinished, RunState, Phases
<1>6. ASSUME NEW executor \in ExecutorRef, NEW round \in 1..BudgetCap,
             NEW hardFailure \in BOOLEAN,
             EvidenceReady([round |-> round, hardFailure |-> hardFailure], executor)
      PROVE  run' \in RunState
  <2>1. [round |-> round, hardFailure |-> hardFailure] \in EvidencePacket
    BY DEF EvidencePacket
  <2>2. QED BY <2>1, <1>6 DEF EvidenceReady, RunState
<1>7. ASSUME NEW v \in Verdict, NEW pendingFollowups \in 0..1,
             Accept(v, pendingFollowups)
      PROVE  run' \in RunState
  <2>1. Closed(run, "accept") \in RunState
    BY ClosedType DEF NextActions
  <2>2. QED BY <2>1, <1>7 DEF Accept, RunState, Phases
<1>8. ASSUME NEW v \in Verdict, Stop(v)
      PROVE  run' \in RunState
  <2>1. Closed(run, "stop") \in RunState
    BY ClosedType DEF NextActions
  <2>2. QED BY <2>1, <1>8 DEF Stop, RunState, Phases
<1>9. ASSUME NEW v \in Verdict, AskHuman(v)
      PROVE  run' \in RunState
  BY <1>9, ClosedType, PausedType DEF AskHuman, NextActions, Kinds
<1>10. ASSUME NEW v \in Verdict, ExhaustBudget(v)
       PROVE  run' \in RunState
  BY <1>10, ClosedType, PausedType DEF ExhaustBudget, Verdict, Kinds
<1>11. ASSUME NEW v \in Verdict, BeginNextRound(v)
       PROVE  run' \in RunState
  <2>1. Closed(run, v.nextAction) \in RunState
    BY ClosedType DEF Verdict
  <2>2. RecoveryPhase(v.nextAction) \in Phases
    BY DEF RecoveryPhase, Phases
  <2>3. RecoveryExecutor(v.nextAction, run.executor) \in ExecutorRef \cup {NoExecutor}
    BY WithoutSessionType DEF RecoveryExecutor, RunState
  <2>4. run.round + 1 \in Nat \ {0}
    BY DEF RunState
  <2>5. QED BY <2>1, <2>2, <2>3, <2>4, <1>11 DEF BeginNextRound, RunState
<1>12. ASSUME NEW d \in DecisionInputs, HumanStop(d)
       PROVE  run' \in RunState
  <2>1. Decided(run, d) \in RunState
    BY <1>12, DecidedType DEF HumanStop, StoppedByHuman
  <2>2. QED BY <2>1, <1>12 DEF HumanStop, StoppedByHuman, RunState, Phases
<1>13. ASSUME NEW d \in DecisionInputs, HumanResume(d)
       PROVE  run' \in RunState
  <2>1. Decided(run, d) \in RunState /\ EffectiveBudget(run, d) \in 1..BudgetCap
    BY <1>13, DecidedType DEF HumanResume, ResumedByHuman
  <2>2. WithoutSession(run.executor) \in ExecutorRef \cup {NoExecutor}
    BY WithoutSessionType DEF RunState
  <2>3. run.round + 1 \in Nat \ {0} /\ "ready" \in Phases
    BY DEF RunState, Phases
  <2>4. QED BY <2>1, <2>2, <2>3, <1>13 DEF HumanResume, ResumedByHuman, RunState
<1>14. CASE CommandFailed
  BY <1>14 DEF CommandFailed, RunState, Phases
<1>15. CASE UNCHANGED run
  BY <1>15
<1>16. QED
  BY <1>1, <1>2, <1>3, <1>4, <1>5, <1>6, <1>7, <1>8, <1>9, <1>10, <1>11, <1>12,
     <1>13, <1>14, <1>15 DEF Next, VerdictReceived

\* Type correctness: no event leaves the RunState the code declares, and no contract
\* revision or human decision takes the budget out of 1..CONTRACT_LIMITS.maxRounds.
THEOREM TypeCorrect == Spec => []TypeOK
BY TypeInit, TypeStep, PTL DEF Spec

-----------------------------------------------------------------------------
(* The inductive invariant *)

\* What the open round rests on: once started it has an executor, and a pause has the
\* evidence it was judged by and the one request of its round.
RoundIsBacked ==
  /\ run.phase \in {"running", "evaluating", "repairing", "awaiting-human"}
       => run.executor \in ExecutorRef
  /\ run.phase = "awaiting-human" =>
       /\ run.evidence # NoEvidence
       /\ run.evidence.round = run.round
       /\ run.lastVerdict # NoVerdict
       /\ run.pendingHuman =
            BuildHumanRequest(run, run.round,
                              RequestKind(run.history[run.round].verdict))

\* The entry the next audit goes to is of the right kind and has none yet.
LastEntryIsOpen ==
  /\ run.phase = "planning" /\ run.history # <<>> =>
       /\ run.history[Len(run.history)].verdict = "replan"
       /\ run.history[Len(run.history)].contractRevision = NoRevision
  /\ run.phase = "awaiting-human" =>
       run.history[Len(run.history)].humanDecision = NoAudit

IInv ==
  /\ TypeOK
  /\ RoundWithinBudget
  /\ HistoryIsComplete
  /\ RoundIsBacked
  /\ LastEntryIsOpen
  /\ AuditsBelong
  /\ CompletedOnCurrentEvidence
  /\ OnlyRepairKeepsSession

\* `new` is the history `old` with the contractRevision of its last entry set.
RevisesLast(new, old, revision) ==
  /\ new \in Seq(RoundHistoryEntry)
  /\ Len(new) = Len(old)
  /\ DOMAIN new = DOMAIN old
  /\ \A i \in DOMAIN old :
       /\ new[i].round = old[i].round
       /\ new[i].pair = old[i].pair
       /\ new[i].verdict = old[i].verdict
       /\ new[i].humanDecision = old[i].humanDecision
       /\ new[i].contractRevision = IF i = Len(old) THEN revision ELSE old[i].contractRevision

\* `new` is the history `old` with the humanDecision of its last entry set.
DecidesLast(new, old, audit) ==
  /\ new \in Seq(RoundHistoryEntry)
  /\ Len(new) = Len(old)
  /\ DOMAIN new = DOMAIN old
  /\ \A i \in DOMAIN old :
       /\ new[i].round = old[i].round
       /\ new[i].pair = old[i].pair
       /\ new[i].verdict = old[i].verdict
       /\ new[i].contractRevision = old[i].contractRevision
       /\ new[i].humanDecision = IF i = Len(old) THEN audit ELSE old[i].humanDecision

\* AnnotateRevision fills in the revision of the last entry and touches nothing else.
LEMMA Revise ==
  ASSUME NEW history \in Seq(RoundHistoryEntry), history # <<>>,
         NEW revision \in ContractRevision
  PROVE  RevisesLast(AnnotateRevision(history, revision), history, revision)
<1> DEFINE new == AnnotateRevision(history, revision)
<1>1. /\ Len(history) \in DOMAIN history
      /\ \A i \in DOMAIN history : history[i] \in RoundHistoryEntry
  OBVIOUS
<1>2. new = [history EXCEPT ![Len(history)] = [@ EXCEPT !.contractRevision = revision]]
  BY DEF AnnotateRevision
<1>3. new \in Seq(RoundHistoryEntry)
  BY AnnotateType
<1>4. DOMAIN new = DOMAIN history
  BY <1>2
<1>5. Len(new) = Len(history)
  BY <1>3, <1>4, LenProperties
<1>6. \A i \in DOMAIN history :
        new[i] = IF i = Len(history) THEN [history[i] EXCEPT !.contractRevision = revision]
                                     ELSE history[i]
  BY <1>1, <1>2
<1> HIDE DEF new
<1>7. RevisesLast(new, history, revision)
  BY <1>1, <1>3, <1>4, <1>5, <1>6 DEF RevisesLast, RoundHistoryEntry
<1>8. QED BY <1>7 DEF new

\* AnnotateDecision fills in the decision of the last entry and touches nothing else.
LEMMA Decide ==
  ASSUME NEW history \in Seq(RoundHistoryEntry), history # <<>>,
         NEW audit \in HumanDecisionAudit
  PROVE  DecidesLast(AnnotateDecision(history, audit), history, audit)
<1> DEFINE new == AnnotateDecision(history, audit)
<1>1. /\ Len(history) \in DOMAIN history
      /\ \A i \in DOMAIN history : history[i] \in RoundHistoryEntry
  OBVIOUS
<1>2. new = [history EXCEPT ![Len(history)] = [@ EXCEPT !.humanDecision = audit]]
  BY DEF AnnotateDecision
<1>3. new \in Seq(RoundHistoryEntry)
  BY AnnotateType
<1>4. DOMAIN new = DOMAIN history
  BY <1>2
<1>5. Len(new) = Len(history)
  BY <1>3, <1>4, LenProperties
<1>6. \A i \in DOMAIN history :
        new[i] = IF i = Len(history) THEN [history[i] EXCEPT !.humanDecision = audit]
                                     ELSE history[i]
  BY <1>1, <1>2
<1> HIDE DEF new
<1>7. DecidesLast(new, history, audit)
  BY <1>1, <1>3, <1>4, <1>5, <1>6 DEF DecidesLast, RoundHistoryEntry
<1>8. QED BY <1>7 DEF new

\* c is the run with its round closed by `action`: only lastVerdict and the history
\* differ, and the history has one more entry, of this round, with no audit yet.
ClosesRound(c, action) ==
  /\ c \in RunState
  /\ /\ c.phase = run.phase
     /\ c.round = run.round
     /\ c.maxRounds = run.maxRounds
     /\ c.executor = run.executor
     /\ c.evidence = run.evidence
     /\ c.pendingHuman = run.pendingHuman
     /\ c.lastVerdict = action
  /\ Len(c.history) = run.round
  /\ DOMAIN c.history = 1..run.round
  /\ \A i \in DOMAIN run.history : i \in DOMAIN c.history /\ c.history[i] = run.history[i]
  /\ \A i \in DOMAIN c.history :
       c.history[i].round = i /\ AuditBelongs(c.history[i], i)
  /\ c.history[run.round].verdict = action
  /\ c.history[run.round].contractRevision = NoRevision
  /\ c.history[run.round].humanDecision = NoAudit

\* Closing the current round appends its one entry and leaves every earlier one alone.
LEMMA CloseRound ==
  ASSUME IInv, run.phase = "evaluating", NEW action \in NextActions
  PROVE  ClosesRound(Closed(run, action), action)
<1> DEFINE c == Closed(run, action)
           entry == [round            |-> run.round,
                     pair             |-> run.executor.pair,
                     verdict          |-> action,
                     contractRevision |-> NoRevision,
                     humanDecision    |-> NoAudit]
<1>1. run \in RunState /\ run.round \in Nat \ {0} /\ run.history \in Seq(RoundHistoryEntry)
  BY DEF IInv, TypeOK, RunState
<1>2. Len(run.history) = run.round - 1
  BY DEF IInv, HistoryIsComplete, Terminal
<1>3. c \in RunState
  BY <1>1, ClosedType
<1>4. c.history = Append(run.history, entry)
  BY <1>1, <1>2, RecordRoundAppends DEF IInv, RoundWithinBudget, Closed, RunState
<1>5. /\ c.phase = run.phase
      /\ c.round = run.round
      /\ c.maxRounds = run.maxRounds
      /\ c.executor = run.executor
      /\ c.evidence = run.evidence
      /\ c.pendingHuman = run.pendingHuman
      /\ c.lastVerdict = action
  BY <1>1 DEF Closed, RunState
<1>6. entry \in RoundHistoryEntry
  BY <1>1 DEF RunState, RoundHistoryEntry, ExecutorRef, NoExecutor
<1>7. /\ Len(c.history) = run.round
      /\ DOMAIN c.history = 1..run.round
      /\ DOMAIN run.history = 1..(run.round - 1)
      /\ c.history[run.round] = entry
      /\ \A i \in DOMAIN run.history : c.history[i] = run.history[i]
  BY <1>1, <1>2, <1>4, <1>6, AppendProperties
<1>8. AuditBelongs(entry, run.round)
  BY DEF AuditBelongs
<1>9. /\ \A i \in DOMAIN c.history : c.history[i].round = i
      /\ \A i \in DOMAIN c.history : AuditBelongs(c.history[i], i)
  <2> SUFFICES ASSUME NEW i \in 1..run.round
               PROVE  c.history[i].round = i /\ AuditBelongs(c.history[i], i)
    BY <1>7
  <2>1. CASE i = run.round
    BY <2>1, <1>7, <1>8
  <2>2. CASE i # run.round
    <3>1. i \in 1..(run.round - 1)
      BY <2>2, <1>1
    <3>2. i \in DOMAIN run.history /\ c.history[i] = run.history[i]
      BY <3>1, <1>7
    <3>3. QED BY <3>2 DEF IInv, HistoryIsComplete, AuditsBelong
  <2>3. QED BY <2>1, <2>2
<1> HIDE DEF c
<1>10. ClosesRound(c, action)
  BY <1>1, <1>3, <1>5, <1>7, <1>9 DEF ClosesRound
<1>11. QED BY <1>10 DEF c

\* createRunState establishes the inductive invariant.
LEMMA InvInit == Init => IInv
BY TypeInit DEF Init, IInv, CreateRunState, TypeOK, RoundWithinBudget, HistoryIsComplete,
   RoundClosed, Terminal, RoundIsBacked, LastEntryIsOpen, AuditsBelong,
   CompletedOnCurrentEvidence, OnlyRepairKeepsSession, NoExecutor

\* Every event of the kernel preserves it.
LEMMA InvStep == IInv /\ [Next]_run => IInv'
<1> SUFFICES ASSUME IInv, [Next]_run
             PROVE  IInv'
  OBVIOUS
<1> USE DEF Terminal, RoundClosed
<1>0. TypeOK' /\ run \in RunState
  BY TypeStep DEF IInv, TypeOK
<1>1. CASE ContractReady
  <2>1. run' = [run EXCEPT !.phase = "ready"] /\ run.phase = "planning"
    BY <1>1 DEF ContractReady
  <2>2. QED BY <2>1, <1>0 DEF RunState, IInv, RoundWithinBudget, HistoryIsComplete,
               RoundIsBacked, LastEntryIsOpen, AuditsBelong, CompletedOnCurrentEvidence,
               OnlyRepairKeepsSession
<1>2. ASSUME NEW maxRounds \in 1..BudgetCap, ContractRevised(maxRounds)
      PROVE  IInv'
  <2> DEFINE revision == [from |-> run.maxRounds, to |-> maxRounds]
  <2>1. /\ run' = [run EXCEPT !.phase = "ready", !.maxRounds = maxRounds,
                              !.history = AnnotateRevision(run.history, revision)]
        /\ run.phase = "planning" /\ run.round <= maxRounds
    BY <1>2 DEF ContractRevised
  <2>2. revision \in ContractRevision
    BY <1>0 DEF ContractRevision, RunState
  <2>3. run.history \in Seq(RoundHistoryEntry) /\ Len(run.history) = run.round - 1
    BY <2>1, <1>0 DEF RunState, IInv, HistoryIsComplete
  <2>4. CASE run.history = <<>>
    <3>1. run' = [run EXCEPT !.phase = "ready", !.maxRounds = maxRounds]
      BY <2>1, <2>4, <1>0 DEF AnnotateRevision, RunState
    <3>2. QED BY <3>1, <2>1, <1>0 DEF RunState, IInv, RoundWithinBudget, HistoryIsComplete, RoundIsBacked, LastEntryIsOpen,
        AuditsBelong, CompletedOnCurrentEvidence, OnlyRepairKeepsSession
  <2>5. CASE run.history # <<>>
    <3>1. /\ run'.phase = "ready" /\ run'.maxRounds = maxRounds /\ run'.round = run.round
          /\ run'.executor = run.executor
          /\ run'.history = AnnotateRevision(run.history, revision)
      BY <2>1, <1>0 DEF RunState
    <3>2. RevisesLast(run'.history, run.history, revision)
      BY <3>1, <2>2, <2>3, <2>5, Revise
    <3> HIDE DEF revision
    <3>3. run.history[Len(run.history)].verdict = "replan"
      BY <2>1, <2>5 DEF IInv, LastEntryIsOpen
    <3>4. \A i \in DOMAIN run'.history : AuditBelongs(run'.history[i], i)
      BY <3>2, <3>3 DEF RevisesLast, IInv, AuditsBelong, AuditBelongs
    <3>5. HistoryIsComplete'
      BY <3>1, <3>2, <2>1 DEF RevisesLast, IInv, HistoryIsComplete
    <3>6. QED BY <3>1, <3>4, <3>5, <2>1, <1>0 DEF IInv, RoundWithinBudget, RoundIsBacked,
                 LastEntryIsOpen, AuditsBelong, CompletedOnCurrentEvidence,
                 OnlyRepairKeepsSession
  <2>6. QED BY <2>4, <2>5
<1>3. ASSUME NEW executor \in ExecutorRef, ExecutionStarted(executor)
      PROVE  IInv'
  BY <1>3, <1>0 DEF ExecutionStarted, RunState, IInv, RoundWithinBudget, HistoryIsComplete,
               RoundIsBacked, LastEntryIsOpen, AuditsBelong, CompletedOnCurrentEvidence,
               OnlyRepairKeepsSession
<1>4. CASE ExecutionRestarted
  BY <1>4, <1>0 DEF ExecutionRestarted, RunState, IInv, RoundWithinBudget, HistoryIsComplete,
               RoundIsBacked, LastEntryIsOpen, AuditsBelong, CompletedOnCurrentEvidence,
               OnlyRepairKeepsSession
<1>5. CASE ExecutionFinished
  BY <1>5, <1>0 DEF ExecutionFinished, RunState, IInv, RoundWithinBudget, HistoryIsComplete,
               RoundIsBacked, LastEntryIsOpen, AuditsBelong, CompletedOnCurrentEvidence,
               OnlyRepairKeepsSession
<1>6. ASSUME NEW executor \in ExecutorRef, NEW evidence, EvidenceReady(evidence, executor)
      PROVE  IInv'
  BY <1>6, <1>0 DEF EvidenceReady, RunState, IInv, RoundWithinBudget, HistoryIsComplete,
               RoundIsBacked, LastEntryIsOpen, AuditsBelong, CompletedOnCurrentEvidence,
               OnlyRepairKeepsSession
<1>7. ASSUME NEW v \in Verdict, NEW pendingFollowups \in 0..1, Accept(v, pendingFollowups)
      PROVE  IInv'
  <2> DEFINE c == Closed(run, "accept")
  <2>1. /\ run.phase = "evaluating" /\ "accept" \in NextActions
        /\ run.evidence.round = run.round /\ ~run.evidence.hardFailure
    BY <1>7 DEF Accept, Judgeable, NextActions, Verdict
  <2>2. ClosesRound(c, "accept")
    BY <2>1, CloseRound
  <2>3. /\ run'.phase = "completed"
        /\ run'.round = run.round
        /\ run'.maxRounds = run.maxRounds
        /\ run'.evidence = run.evidence
        /\ run'.history = c.history
    BY <2>2, <1>7 DEF Accept, ClosesRound, RunState
  <2> HIDE DEF c
  <2>4. AuditsBelong' /\ HistoryIsComplete'
    BY <2>2, <2>3, <1>0 DEF AuditsBelong, HistoryIsComplete, ClosesRound
  <2>5. RoundWithinBudget' /\ OnlyRepairKeepsSession'
    BY <2>3 DEF IInv, RoundWithinBudget, OnlyRepairKeepsSession
  <2>6. RoundIsBacked' /\ LastEntryIsOpen'
    BY <2>3 DEF RoundIsBacked, LastEntryIsOpen
  <2>7. CompletedOnCurrentEvidence'
    BY <2>1, <2>2, <2>3 DEF CompletedOnCurrentEvidence, ClosesRound
  <2>8. QED BY <1>0, <2>4, <2>5, <2>6, <2>7 DEF IInv
<1>8. ASSUME NEW v \in Verdict, Stop(v)
      PROVE  IInv'
  <2> DEFINE c == Closed(run, "stop")
  <2>1. /\ run.phase = "evaluating" /\ "stop" \in NextActions
    BY <1>8 DEF Stop, Judgeable, NextActions, Verdict
  <2>2. ClosesRound(c, "stop")
    BY <2>1, CloseRound
  <2>3. /\ run'.phase = "stopped"
        /\ run'.round = run.round
        /\ run'.maxRounds = run.maxRounds
        /\ run'.history = c.history
    BY <2>2, <1>8 DEF Stop, ClosesRound, RunState
  <2> HIDE DEF c
  <2>4. AuditsBelong' /\ HistoryIsComplete'
    BY <2>2, <2>3, <1>0 DEF AuditsBelong, HistoryIsComplete, ClosesRound
  <2>5. RoundWithinBudget' /\ OnlyRepairKeepsSession'
    BY <2>3 DEF IInv, RoundWithinBudget, OnlyRepairKeepsSession
  <2>6. RoundIsBacked' /\ LastEntryIsOpen'
    BY <2>3 DEF RoundIsBacked, LastEntryIsOpen
  <2>7. CompletedOnCurrentEvidence'
    BY <2>1, <2>2, <2>3 DEF CompletedOnCurrentEvidence, ClosesRound
  <2>8. QED BY <1>0, <2>4, <2>5, <2>6, <2>7 DEF IInv
<1>9. ASSUME NEW v \in Verdict, AskHuman(v)
      PROVE  IInv'
  <2> DEFINE c == Closed(run, "human")
  <2>1. /\ run.phase = "evaluating" /\ "human" \in NextActions
        /\ run.evidence # NoEvidence /\ run.evidence.round = run.round
    BY <1>9 DEF AskHuman, Judgeable, NextActions, Verdict
  <2>2. ClosesRound(c, "human")
    BY <2>1, CloseRound
  <2>3. /\ run'.phase = "awaiting-human"
        /\ run'.round = run.round
        /\ run'.maxRounds = run.maxRounds
        /\ run'.evidence = run.evidence
        /\ run'.executor = run.executor
        /\ run'.history = c.history
        /\ run'.lastVerdict = "human"
        /\ run'.pendingHuman = BuildHumanRequest(c, Len(c.history), "jev-human")
    BY <2>2, <1>9 DEF AskHuman, ClosesRound, Paused, RunState
  <2> HIDE DEF c
  <2>4. AuditsBelong' /\ HistoryIsComplete'
    BY <2>2, <2>3, <1>0 DEF AuditsBelong, HistoryIsComplete, ClosesRound
  <2>5. /\ RoundWithinBudget' /\ OnlyRepairKeepsSession' /\ LastEntryIsOpen'
        /\ CompletedOnCurrentEvidence'
    BY <2>2, <2>3 DEF IInv, RoundWithinBudget, OnlyRepairKeepsSession, LastEntryIsOpen,
                      ClosesRound, CompletedOnCurrentEvidence
  <2>6. run'.pendingHuman =
          BuildHumanRequest(run', run'.round, RequestKind(run'.history[run'.round].verdict))
    BY <2>1, <2>2, <2>3 DEF BuildHumanRequest, RequestKind, ClosesRound, Recoveries
  <2>7. RoundIsBacked'
    BY <2>1, <2>3, <2>6 DEF RoundIsBacked, IInv, NextActions, Recoveries, NoVerdict
  <2>8. QED BY <1>0, <2>4, <2>5, <2>7 DEF IInv
<1>10. ASSUME NEW v \in Verdict, ExhaustBudget(v)
      PROVE  IInv'
  <2> DEFINE c == Closed(run, v.nextAction)
  <2>1. /\ run.phase = "evaluating" /\ v.nextAction \in NextActions
        /\ run.evidence # NoEvidence /\ run.evidence.round = run.round
        /\ v.nextAction \in Recoveries
    BY <1>10 DEF ExhaustBudget, Judgeable, NextActions, Verdict
  <2>2. ClosesRound(c, v.nextAction)
    BY <2>1, CloseRound
  <2>3. /\ run'.phase = "awaiting-human"
        /\ run'.round = run.round
        /\ run'.maxRounds = run.maxRounds
        /\ run'.evidence = run.evidence
        /\ run'.executor = run.executor
        /\ run'.history = c.history
        /\ run'.lastVerdict = v.nextAction
        /\ run'.pendingHuman = BuildHumanRequest(c, Len(c.history), "max-rounds")
    BY <2>2, <1>10 DEF ExhaustBudget, ClosesRound, Paused, RunState
  <2> HIDE DEF c
  <2>4. AuditsBelong' /\ HistoryIsComplete'
    BY <2>2, <2>3, <1>0 DEF AuditsBelong, HistoryIsComplete, ClosesRound
  <2>5. /\ RoundWithinBudget' /\ OnlyRepairKeepsSession' /\ LastEntryIsOpen'
        /\ CompletedOnCurrentEvidence'
    BY <2>2, <2>3 DEF IInv, RoundWithinBudget, OnlyRepairKeepsSession, LastEntryIsOpen,
                      ClosesRound, CompletedOnCurrentEvidence
  <2>6. run'.pendingHuman =
          BuildHumanRequest(run', run'.round, RequestKind(run'.history[run'.round].verdict))
    BY <2>1, <2>2, <2>3 DEF BuildHumanRequest, RequestKind, ClosesRound, Recoveries
  <2>7. RoundIsBacked'
    BY <2>1, <2>3, <2>6 DEF RoundIsBacked, IInv, NextActions, Recoveries, NoVerdict
  <2>8. QED BY <1>0, <2>4, <2>5, <2>7 DEF IInv
<1>11. ASSUME NEW v \in Verdict, BeginNextRound(v)
      PROVE  IInv'
  <2> DEFINE c == Closed(run, v.nextAction)
  <2>1. /\ run.phase = "evaluating" /\ v.nextAction \in NextActions
        /\ v.nextAction \in Recoveries /\ run.round + 1 <= run.maxRounds
        /\ run.round \in Nat \ {0}
    BY <1>11, <1>0 DEF BeginNextRound, Judgeable, NextActions, Verdict, RunState
  <2>2. ClosesRound(c, v.nextAction)
    BY <2>1, CloseRound
  <2>3. /\ run'.phase = RecoveryPhase(v.nextAction)
        /\ run'.round = run.round + 1
        /\ run'.maxRounds = run.maxRounds
        /\ run'.executor = RecoveryExecutor(v.nextAction, run.executor)
        /\ run'.history = c.history
    BY <2>2, <1>11 DEF BeginNextRound, ClosesRound, RunState
  <2> HIDE DEF c
  <2>4. /\ RecoveryPhase(v.nextAction) \in {"repairing", "planning", "ready"}
        /\ RecoveryPhase(v.nextAction) = "planning" => v.nextAction = "replan"
        /\ RecoveryPhase(v.nextAction) = "repairing" <=> v.nextAction = "repair-same"
    BY DEF RecoveryPhase
  <2>5. AuditsBelong' /\ HistoryIsComplete'
    BY <2>1, <2>2, <2>3, <2>4 DEF AuditsBelong, HistoryIsComplete, ClosesRound
  <2>6. RoundWithinBudget' /\ CompletedOnCurrentEvidence'
    BY <2>1, <2>3, <2>4 DEF RoundWithinBudget, CompletedOnCurrentEvidence
  <2>7. LastEntryIsOpen'
    BY <2>2, <2>3, <2>4 DEF LastEntryIsOpen, ClosesRound
  <2>8. run.executor \in ExecutorRef
    BY <2>1 DEF IInv, RoundIsBacked
  <2>9. OnlyRepairKeepsSession' /\ RoundIsBacked'
    BY <2>3, <2>4, <2>8, WithoutSessionType
       DEF OnlyRepairKeepsSession, RoundIsBacked, RecoveryExecutor, NoExecutor
  <2>10. QED BY <1>0, <2>5, <2>6, <2>7, <2>9 DEF IInv
<1>12. ASSUME NEW d \in DecisionInputs, HumanStop(d)
       PROVE  IInv'
  <2> DEFINE after == EffectiveBudget(run, d)
             audit == [requestID |-> d.requestID, action |-> d.action,
                       before |-> run.maxRounds, after |-> after]
  <2>1. /\ run.phase = "awaiting-human" /\ ValidHumanDecision(run, d)
        /\ run.round \in Nat \ {0} /\ run.history \in Seq(RoundHistoryEntry)
        /\ Len(run.history) = run.round
    BY <1>12, <1>0 DEF HumanStop, StoppedByHuman, RunState, IInv, HistoryIsComplete
  <2>2. after \in 1..BudgetCap /\ after >= run.maxRounds
    BY <2>1, DecidedType, <1>0 DEF RunState
  <2>3. audit \in HumanDecisionAudit
    BY <2>2, <1>0, BudgetCapAssumption DEF HumanDecisionAudit, RunState, DecisionInputs, RequestID
  <2>4. /\ run'.phase = "stopped" /\ run'.history = AnnotateDecision(run.history, audit)
        /\ run'.round = run.round /\ run'.maxRounds = run.maxRounds
    BY <1>12, <1>0, DecidedType, <2>1 DEF HumanStop, StoppedByHuman, Decided, RunState
  <2> HIDE DEF after
  <2>5. DecidesLast(run'.history, run.history, audit)
    BY <2>1, <2>3, <2>4, Decide
  <2>6. /\ d.requestID = <<run.round, run.round, RequestKind(run.history[run.round].verdict)>>
        /\ run.history[run.round].humanDecision = NoAudit
    BY <2>1 DEF IInv, RoundIsBacked, LastEntryIsOpen, ValidHumanDecision, BuildHumanRequest
  <2>7. AuditsBelong'
    BY <2>1, <2>5, <2>6 DEF DecidesLast, IInv, AuditsBelong, AuditBelongs
  <2>8. HistoryIsComplete'
    BY <2>1, <2>4, <2>5 DEF DecidesLast, IInv, HistoryIsComplete
  <2>9. /\ RoundWithinBudget' /\ CompletedOnCurrentEvidence' /\ LastEntryIsOpen'
        /\ RoundIsBacked' /\ OnlyRepairKeepsSession'
    BY <2>1, <2>2, <2>4, <1>0, WithoutSessionType DEF RoundWithinBudget, CompletedOnCurrentEvidence,
       LastEntryIsOpen, RoundIsBacked, OnlyRepairKeepsSession, IInv, RunState
  <2>10. QED BY <1>0, <2>7, <2>8, <2>9 DEF IInv
<1>13. ASSUME NEW d \in DecisionInputs, HumanResume(d)
       PROVE  IInv'
  <2> DEFINE after == EffectiveBudget(run, d)
             audit == [requestID |-> d.requestID, action |-> d.action,
                       before |-> run.maxRounds, after |-> after]
  <2>1. /\ run.phase = "awaiting-human" /\ ValidHumanDecision(run, d)
        /\ run.round \in Nat \ {0} /\ run.history \in Seq(RoundHistoryEntry)
        /\ Len(run.history) = run.round
        /\ run.round + 1 <= EffectiveBudget(run, d)
    BY <1>13, <1>0 DEF HumanResume, ResumedByHuman, RunState, IInv, HistoryIsComplete, ValidHumanDecision,
           EffectiveBudget, DecisionInputs
  <2>2. after \in 1..BudgetCap /\ after >= run.maxRounds
    BY <2>1, DecidedType, <1>0 DEF RunState
  <2>3. audit \in HumanDecisionAudit
    BY <2>2, <1>0, BudgetCapAssumption DEF HumanDecisionAudit, RunState, DecisionInputs, RequestID
  <2>4. /\ run'.phase = "ready" /\ run'.history = AnnotateDecision(run.history, audit)
        /\ run'.round = run.round + 1 /\ run'.maxRounds = after
        /\ run'.executor = WithoutSession(run.executor)
    BY <1>13, <1>0, DecidedType, <2>1 DEF HumanResume, ResumedByHuman, Decided, RunState
  <2> HIDE DEF after
  <2>5. DecidesLast(run'.history, run.history, audit)
    BY <2>1, <2>3, <2>4, Decide
  <2>6. /\ d.requestID = <<run.round, run.round, RequestKind(run.history[run.round].verdict)>>
        /\ run.history[run.round].humanDecision = NoAudit
    BY <2>1 DEF IInv, RoundIsBacked, LastEntryIsOpen, ValidHumanDecision, BuildHumanRequest
  <2>7. AuditsBelong'
    BY <2>1, <2>5, <2>6 DEF DecidesLast, IInv, AuditsBelong, AuditBelongs
  <2>8. Len(run'.history) = run'.round - 1
    BY <2>1, <2>4, <2>5 DEF DecidesLast
  <2>9. HistoryIsComplete'
    BY <2>4, <2>5, <2>8 DEF DecidesLast, IInv, HistoryIsComplete
  <2>10. RoundWithinBudget'
    BY <2>1, <2>4 DEF RoundWithinBudget, after
  <2>11. OnlyRepairKeepsSession'
    BY <2>4, <1>0, WithoutSessionType DEF OnlyRepairKeepsSession, RunState
  <2>12. CompletedOnCurrentEvidence' /\ LastEntryIsOpen' /\ RoundIsBacked'
    BY <2>4 DEF CompletedOnCurrentEvidence, LastEntryIsOpen, RoundIsBacked
  <2>13. QED BY <1>0, <2>7, <2>9, <2>10, <2>11, <2>12 DEF IInv
<1>14. CASE CommandFailed
  BY <1>14, <1>0 DEF CommandFailed, RunState, IInv, RoundWithinBudget, HistoryIsComplete,
               RoundIsBacked, LastEntryIsOpen, AuditsBelong, CompletedOnCurrentEvidence,
               OnlyRepairKeepsSession
<1>15. CASE UNCHANGED run
  BY <1>15 DEF IInv, TypeOK, RoundWithinBudget, HistoryIsComplete,
               RoundIsBacked, LastEntryIsOpen, AuditsBelong, CompletedOnCurrentEvidence,
               OnlyRepairKeepsSession
<1>16. QED
  BY <1>1, <1>2, <1>3, <1>4, <1>5, <1>6, <1>7, <1>8, <1>9, <1>10, <1>11, <1>12,
     <1>13, <1>14, <1>15 DEF Next, VerdictReceived

\* The strengthening of the invariants that every event of the kernel preserves.
THEOREM InductiveInvariant == Spec => []IInv
BY InvInit, InvStep, PTL DEF Spec

-----------------------------------------------------------------------------
(* The properties *)

\* No round is ever opened beyond the budget in force (the kernel's "round NUNCA excede
\* contract.maxRounds"), whatever mix of recoveries, replans and human decisions.
THEOREM BudgetSafety == Spec => []RoundWithinBudget
BY InductiveInvariant, PTL DEF IInv

\* The history holds exactly the closed rounds, so its cap never drops an attempt.
THEOREM HistorySafety == Spec => []HistoryIsComplete
BY InductiveInvariant, PTL DEF IInv

\* Every pause, by verdict or by exhausted budget, passes validateResumableRunState.
THEOREM PauseSafety == Spec => []PausedIsResumable
<1>1. IInv => PausedIsResumable
  BY DEF IInv, PausedIsResumable, Resumable, RoundIsBacked, BuildHumanRequest, TypeOK,
         RunState, NoRequest, RequestKind, Kinds
<1>2. QED BY <1>1, InductiveInvariant, PTL

\* A completed run was accepted on evidence of its last round without a hard failure.
THEOREM CompletionSafety == Spec => []CompletedOnCurrentEvidence
BY InductiveInvariant, PTL DEF IInv

\* Revisions and human decisions are audited on the round they are about.
THEOREM AuditSafety == Spec => []AuditsBelong
BY InductiveInvariant, PTL DEF IInv

\* Only a repair starts with the session of the round before.
THEOREM SessionSafety == Spec => []OnlyRepairKeepsSession
BY InductiveInvariant, PTL DEF IInv

-----------------------------------------------------------------------------
(* What a step does to the history and to the budget *)

BudgetStep == [Budget!Next]_(Budget!vars)

Safe == KeepsHistory /\ AuditsIncrease /\ BudgetStep

\* A step that leaves round, budget and history alone and does not pause the run.
LEMMA QuietStep ==
  ASSUME IInv, run.phase \notin Terminal,
         run'.phase \in Phases \ {"awaiting-human"},
         run.phase = "awaiting-human" => run'.phase \in Terminal,
         run'.round = run.round, run'.maxRounds = run.maxRounds, run'.history = run.history
  PROVE  Safe
<1>1. run \in RunState /\ run.maxRounds \in Int /\ Len(run.history) \in Nat
  BY DEF IInv, TypeOK, RunState
<1>2. KeepsHistory /\ AuditsIncrease
  BY <1>1 DEF KeepsHistory, AuditsIncrease
<1>3. BudgetStep
  BY DEF BudgetStep, Stage, Budget!Next, Budget!vars, Budget!Finish
<1>4. QED BY <1>2, <1>3 DEF Safe

\* From a state of the invariant, no event rewrites the history, raises the budget without
\* a human or takes a step RoundBudget does not have.
LEMMA StepIsSafe ==
  ASSUME IInv, [Next]_run
  PROVE  Safe
<1> USE DEF Terminal
<1>0. /\ run \in RunState /\ run.maxRounds \in Int /\ run.round \in Nat \ {0}
      /\ Len(run.history) \in Nat /\ run.round <= run.maxRounds
      /\ run.history \in Seq(RoundHistoryEntry)
      /\ DOMAIN run.history = 1..Len(run.history)
  BY DEF IInv, TypeOK, RunState, RoundWithinBudget
<1>1. CASE ContractReady
  BY <1>1, <1>0, QuietStep DEF ContractReady, RunState, Phases
<1>2. ASSUME NEW maxRounds \in 1..BudgetCap, ContractRevised(maxRounds)
      PROVE  Safe
  <2> DEFINE revision == [from |-> run.maxRounds, to |-> maxRounds]
  <2>1. /\ run.phase = "planning" /\ maxRounds \in run.round..run.maxRounds
        /\ run'.phase = "ready" /\ run'.round = run.round /\ run'.maxRounds = maxRounds
        /\ run'.history = AnnotateRevision(run.history, revision)
    BY <1>2, <1>0 DEF ContractRevised, RunState
  <2>2. revision \in ContractRevision
    BY <1>0 DEF ContractRevision, RunState
  <2>3. KeepsHistory
    <3>1. CASE run.history = <<>>
      BY <3>1, <2>1, <1>0 DEF KeepsHistory, AnnotateRevision
    <3>2. CASE run.history # <<>>
      <4>1. RevisesLast(run'.history, run.history, revision)
        BY <3>2, <2>1, <2>2, <1>0, Revise
      <4> HIDE DEF revision
      <4>2. run.history[Len(run.history)].contractRevision = NoRevision
        BY <2>1, <3>2 DEF IInv, LastEntryIsOpen
      <4>3. QED BY <4>1, <4>2, <1>0 DEF RevisesLast, KeepsHistory
    <3>3. QED BY <3>1, <3>2
  <2>4. AuditsIncrease
    BY <2>1, <1>0 DEF AuditsIncrease
  <2>5. BudgetStep
    BY <2>1 DEF BudgetStep, Stage, Budget!Next, Budget!ShrinkBudget
  <2>6. QED BY <2>3, <2>4, <2>5 DEF Safe
<1>3. ASSUME NEW executor \in ExecutorRef, ExecutionStarted(executor)
      PROVE  Safe
  BY <1>3, <1>0, QuietStep DEF ExecutionStarted, RunState, Phases
<1>4. CASE ExecutionRestarted
  BY <1>4, <1>0, QuietStep DEF ExecutionRestarted, RunState, Phases
<1>5. CASE ExecutionFinished
  BY <1>5, <1>0, QuietStep DEF ExecutionFinished, RunState, Phases
<1>6. ASSUME NEW executor \in ExecutorRef, NEW evidence, EvidenceReady(evidence, executor)
      PROVE  Safe
  BY <1>6, <1>0, QuietStep DEF EvidenceReady, RunState, Phases
<1>7. ASSUME NEW v \in Verdict, NEW pendingFollowups \in 0..1, Accept(v, pendingFollowups)
      PROVE  Safe
  <2> DEFINE c == Closed(run, "accept")
  <2>1. run.phase = "evaluating" /\ "accept" \in NextActions
    BY <1>7 DEF Accept, Judgeable, NextActions, Verdict
  <2>2. ClosesRound(c, "accept")
    BY <2>1, CloseRound
  <2>3. /\ run'.round = run.round /\ run'.maxRounds = run.maxRounds /\ run'.history = c.history
        /\ run'.phase = "completed"
    BY <2>2, <1>7 DEF Accept, ClosesRound, Paused, RunState
  <2> HIDE DEF c
  <2>4. KeepsHistory
    BY <2>2, <2>3, <1>0 DEF KeepsHistory, ClosesRound
  <2>5. AuditsIncrease
    BY <2>3, <1>0 DEF AuditsIncrease
  <2>6. BudgetStep
    BY <2>1, <2>3 DEF BudgetStep, Stage, Budget!Next, Budget!Pause, Budget!Finish, Budget!OpenRound
  <2>7. QED BY <2>4, <2>5, <2>6 DEF Safe
<1>8. ASSUME NEW v \in Verdict, Stop(v)
      PROVE  Safe
  <2> DEFINE c == Closed(run, "stop")
  <2>1. run.phase = "evaluating" /\ "stop" \in NextActions
    BY <1>8 DEF Stop, Judgeable, NextActions, Verdict
  <2>2. ClosesRound(c, "stop")
    BY <2>1, CloseRound
  <2>3. /\ run'.round = run.round /\ run'.maxRounds = run.maxRounds /\ run'.history = c.history
        /\ run'.phase = "stopped"
    BY <2>2, <1>8 DEF Stop, ClosesRound, Paused, RunState
  <2> HIDE DEF c
  <2>4. KeepsHistory
    BY <2>2, <2>3, <1>0 DEF KeepsHistory, ClosesRound
  <2>5. AuditsIncrease
    BY <2>3, <1>0 DEF AuditsIncrease
  <2>6. BudgetStep
    BY <2>1, <2>3 DEF BudgetStep, Stage, Budget!Next, Budget!Pause, Budget!Finish, Budget!OpenRound
  <2>7. QED BY <2>4, <2>5, <2>6 DEF Safe
<1>9. ASSUME NEW v \in Verdict, AskHuman(v)
      PROVE  Safe
  <2> DEFINE c == Closed(run, "human")
  <2>1. run.phase = "evaluating" /\ "human" \in NextActions
    BY <1>9 DEF AskHuman, Judgeable, NextActions, Verdict
  <2>2. ClosesRound(c, "human")
    BY <2>1, CloseRound
  <2>3. /\ run'.round = run.round /\ run'.maxRounds = run.maxRounds /\ run'.history = c.history
        /\ run'.phase = "awaiting-human"
    BY <2>2, <1>9 DEF AskHuman, ClosesRound, Paused, RunState
  <2> HIDE DEF c
  <2>4. KeepsHistory
    BY <2>2, <2>3, <1>0 DEF KeepsHistory, ClosesRound
  <2>5. AuditsIncrease
    BY <2>3, <1>0 DEF AuditsIncrease
  <2>6. BudgetStep
    BY <2>1, <2>3 DEF BudgetStep, Stage, Budget!Next, Budget!Pause, Budget!Finish, Budget!OpenRound
  <2>7. QED BY <2>4, <2>5, <2>6 DEF Safe
<1>10. ASSUME NEW v \in Verdict, ExhaustBudget(v)
      PROVE  Safe
  <2> DEFINE c == Closed(run, v.nextAction)
  <2>1. run.phase = "evaluating" /\ v.nextAction \in NextActions
    BY <1>10 DEF ExhaustBudget, Judgeable, NextActions, Verdict
  <2>2. ClosesRound(c, v.nextAction)
    BY <2>1, CloseRound
  <2>3. /\ run'.round = run.round /\ run'.maxRounds = run.maxRounds /\ run'.history = c.history
        /\ run'.phase = "awaiting-human"
    BY <2>2, <1>10 DEF ExhaustBudget, ClosesRound, Paused, RunState
  <2> HIDE DEF c
  <2>4. KeepsHistory
    BY <2>2, <2>3, <1>0 DEF KeepsHistory, ClosesRound
  <2>5. AuditsIncrease
    BY <2>3, <1>0 DEF AuditsIncrease
  <2>6. BudgetStep
    BY <2>1, <2>3 DEF BudgetStep, Stage, Budget!Next, Budget!Pause, Budget!Finish, Budget!OpenRound
  <2>7. QED BY <2>4, <2>5, <2>6 DEF Safe
<1>11. ASSUME NEW v \in Verdict, BeginNextRound(v)
      PROVE  Safe
  <2> DEFINE c == Closed(run, v.nextAction)
  <2>1. run.phase = "evaluating" /\ v.nextAction \in NextActions
    BY <1>11 DEF BeginNextRound, Judgeable, NextActions, Verdict
  <2>2. ClosesRound(c, v.nextAction)
    BY <2>1, CloseRound
  <2>3. /\ run'.round = run.round + 1 /\ run.round + 1 <= run.maxRounds
         /\ run'.maxRounds = run.maxRounds /\ run'.history = c.history
        /\ run'.phase \in {"repairing", "planning", "ready"}
    BY <2>2, <1>11 DEF BeginNextRound, ClosesRound, RecoveryPhase, RunState
  <2> HIDE DEF c
  <2>4. KeepsHistory
    BY <2>2, <2>3, <1>0 DEF KeepsHistory, ClosesRound
  <2>5. AuditsIncrease
    BY <2>3, <1>0 DEF AuditsIncrease
  <2>6. BudgetStep
    BY <2>1, <2>3, <1>0 DEF BudgetStep, Stage, Budget!Next, Budget!Pause, Budget!Finish, Budget!OpenRound
  <2>7. QED BY <2>4, <2>5, <2>6 DEF Safe
<1>12. ASSUME NEW d \in DecisionInputs, HumanStop(d)
      PROVE  Safe
  <2> DEFINE after == EffectiveBudget(run, d)
             audit == [requestID |-> d.requestID, action |-> d.action,
                       before |-> run.maxRounds, after |-> after]
  <2>1. /\ run.phase = "awaiting-human" /\ ValidHumanDecision(run, d)
        /\ Len(run.history) = run.round
    BY <1>12 DEF HumanStop, StoppedByHuman, IInv, HistoryIsComplete, RoundClosed
  <2>2. after \in 1..BudgetCap /\ after \in run.maxRounds..BudgetCap
    BY <2>1, <1>0, DecidedType
  <2>3. audit \in HumanDecisionAudit
    BY <2>2, <1>0, BudgetCapAssumption DEF HumanDecisionAudit, RunState, DecisionInputs, RequestID
  <2>4. /\ run'.history = AnnotateDecision(run.history, audit)
        /\ run'.phase = "stopped"
        /\ run'.round = run.round /\ run'.maxRounds = run.maxRounds
    BY <1>12, <1>0, <2>1, DecidedType DEF HumanStop, StoppedByHuman, Decided, ValidHumanDecision, RunState
  <2>5. DecidesLast(run'.history, run.history, audit)
    BY <2>1, <2>3, <2>4, <1>0, Decide
  <2>6. KeepsHistory
    <3>1. run.history[Len(run.history)].humanDecision = NoAudit
      BY <2>1 DEF IInv, LastEntryIsOpen
    <3> HIDE DEF audit
    <3>2. QED BY <2>5, <3>1, <1>0 DEF DecidesLast, KeepsHistory
  <2>7. AuditsIncrease
    <3>1. run'.history[Len(run'.history)].humanDecision = audit
      BY <2>5, <2>1, <1>0 DEF DecidesLast
    <3>2. QED BY <3>1, <2>4, <1>0 DEF AuditsIncrease
  <2> HIDE DEF after, audit
  <2>8. BudgetStep
    BY <2>1, <2>2, <2>4, <1>0 DEF BudgetStep, Stage, Budget!Next, Budget!Finish, Budget!Resume
  <2>9. QED BY <2>6, <2>7, <2>8 DEF Safe
<1>13. ASSUME NEW d \in DecisionInputs, HumanResume(d)
      PROVE  Safe
  <2> DEFINE after == EffectiveBudget(run, d)
             audit == [requestID |-> d.requestID, action |-> d.action,
                       before |-> run.maxRounds, after |-> after]
  <2>1. /\ run.phase = "awaiting-human" /\ ValidHumanDecision(run, d)
        /\ Len(run.history) = run.round
    BY <1>13 DEF HumanResume, ResumedByHuman, IInv, HistoryIsComplete, RoundClosed
  <2>2. after \in 1..BudgetCap /\ after \in run.maxRounds..BudgetCap
    BY <2>1, <1>0, DecidedType
  <2>3. audit \in HumanDecisionAudit
    BY <2>2, <1>0, BudgetCapAssumption DEF HumanDecisionAudit, RunState, DecisionInputs, RequestID
  <2>4. /\ run'.history = AnnotateDecision(run.history, audit)
        /\ run'.phase = "ready" /\ d.action = "resume"
        /\ run'.round = run.round + 1 /\ run'.maxRounds = after /\ run.round + 1 <= after
    BY <1>13, <1>0, <2>1, DecidedType DEF HumanResume, ResumedByHuman, Decided, ValidHumanDecision, RunState
  <2>5. DecidesLast(run'.history, run.history, audit)
    BY <2>1, <2>3, <2>4, <1>0, Decide
  <2>6. KeepsHistory
    <3>1. run.history[Len(run.history)].humanDecision = NoAudit
      BY <2>1 DEF IInv, LastEntryIsOpen
    <3> HIDE DEF audit
    <3>2. QED BY <2>5, <3>1, <1>0 DEF DecidesLast, KeepsHistory
  <2>7. AuditsIncrease
    <3>1. run'.history[Len(run'.history)].humanDecision = audit
      BY <2>5, <2>1, <1>0 DEF DecidesLast
    <3>2. run'.history # <<>>
      BY <2>5, <2>1, <1>0 DEF DecidesLast
    <3>3. QED BY <3>1, <3>2, <2>4, <1>0 DEF AuditsIncrease
  <2> HIDE DEF after, audit
  <2>8. BudgetStep
    BY <2>1, <2>2, <2>4, <1>0 DEF BudgetStep, Stage, Budget!Next, Budget!Finish, Budget!Resume
  <2>9. QED BY <2>6, <2>7, <2>8 DEF Safe
<1>14. CASE CommandFailed
  BY <1>14, <1>0, QuietStep DEF CommandFailed, RunState, Phases
<1>15. CASE UNCHANGED run
  <2>1. KeepsHistory /\ AuditsIncrease
    BY <1>15, <1>0 DEF KeepsHistory, AuditsIncrease
  <2>2. BudgetStep
    BY <1>15 DEF BudgetStep, Stage, Budget!vars
  <2>3. QED BY <2>1, <2>2 DEF Safe
<1>16. QED
  BY <1>1, <1>2, <1>3, <1>4, <1>5, <1>6, <1>7, <1>8, <1>9, <1>10, <1>11, <1>12, <1>13,
     <1>14, <1>15 DEF Next, VerdictReceived

\* Closed rounds and written audits are never rewritten: no human request decides twice.
THEOREM HistoryTheorem == Spec => HistoryIsAppendOnly
<1>1. IInv /\ [Next]_run => [KeepsHistory]_run
  BY StepIsSafe DEF Safe
<1>2. QED BY <1>1, InductiveInvariant, PTL DEF Spec, HistoryIsAppendOnly

\* Only an audited human resume raises the budget.
THEOREM BudgetGrowth == Spec => BudgetGrowsOnlyByHuman
<1>1. IInv /\ [Next]_run => [AuditsIncrease]_run
  BY StepIsSafe DEF Safe
<1>2. QED BY <1>1, InductiveInvariant, PTL DEF Spec, BudgetGrowsOnlyByHuman

\* Kernel implements RoundBudget: one round at a time, within a budget only a decision
\* raises, and nothing after the end.
THEOREM KernelImplementsRoundBudget == Spec => KernelKeepsBudget
<1>1. Init => Budget!Init
  BY BudgetCapAssumption DEF Init, CreateRunState, Budget!Init, Stage, Terminal
<1>2. IInv /\ [Next]_run => [Budget!Next]_(Budget!vars)
  BY StepIsSafe DEF Safe, BudgetStep
<1>3. QED BY <1>1, <1>2, InductiveInvariant, PTL DEF Spec, KernelKeepsBudget, Budget!Spec

=============================================================================
