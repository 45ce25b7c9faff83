------------------------------ MODULE Followups ------------------------------
(***************************************************************************)
(* The follow-ups of one orchestration run: messages that arrive while the *)
(* run is active and must reach a worker of a later round.  Three actors   *)
(* share the records kept in storage:                                      *)
(*   - admission-rpc.ts attaches a message to the run that the session     *)
(*     binding names, and closes the run's follow-ups when its runner      *)
(*     returns (the completion callback);                                  *)
(*   - followup.ts moves a record through pending, reserved and consumed   *)
(*     around the prompt of a round;                                       *)
(*   - dispatcher.ts executes rounds, judges them against a snapshot of    *)
(*     the input frontier and commits the verdict.                         *)
(*                                                                         *)
(* An operation that runs under the session lock or the run's followup-take*)
(* lock, and that nobody can see half done, is one action; its storage may *)
(* fail, and the action then has the outcomes its error handling produces. *)
(* A worker session is the number of the round that created it (0: none).  *)
(* Wall-clock leases play no part: reserve runs once per round, so a       *)
(* reservation it meets is always of an earlier round.                     *)
(***************************************************************************)
EXTENDS Integers, Sequences, FiniteSets

CONSTANTS
  Messages,         \* messageIDs that may be attached to the run
  PerRun,           \* FOLLOWUP_LIMITS.perRun (10 in the code)
  PerRound,         \* FOLLOWUP_LIMITS.perRound (5 in the code)
  MaxJudgeRefresh,  \* MAX_JUDGE_REFRESH (3 in the code)
  MaxRounds,        \* bound: rounds the run may open, human resumes included
  MaxFaults         \* bound: operations during which storage fails

ASSUME FollowupsAssumption ==
  /\ {PerRun, PerRound, MaxJudgeRefresh, MaxRounds} \subseteq Nat \ {0}
  /\ MaxFaults \in Nat

VARIABLES
  record,      \* orchestration/followup/<run>/<message>
  index,       \* orchestration/followup-index/<run>: messages in order of attachment
  revision,    \* orchestration/followup-rev/<run>
  admission,   \* admission record of each message
  binding,     \* phase of the session binding, as the admission handler reads it
  step,        \* what the dispatcher does next, or the phase the run ended in
  round,       \* round being executed
  session,     \* worker session of the round
  taken,       \* takenFollowups: what the round's prompt carries, in the order of the index
  judged,      \* the frontier the judge was shown
  attempts,    \* judgeAttempts of the round
  completion,  \* the callback that waits for the runner to return
  received,    \* history: <<session, round>> of every prompt that carried a message
  attached,    \* history: messages answered followup-attached
  faults       \* history: operations during which storage failed

storage    == <<record, index, revision, admission>>
dispatcher == <<round, session, taken, judged, attempts>>
history    == <<received, attached>>
vars == <<storage, binding, step, dispatcher, completion, history, faults>>

-----------------------------------------------------------------------------
(* Values *)

Rounds == 1..MaxRounds
NoSession == 0
NoRevision == -1     \* the revision key was never written

States == {"absent", "pending", "reserved", "consumed", "unconsumed"}
Settled == {"consumed", "unconsumed"}
Open == {"pending", "reserved"}

FollowupRecord ==
  [state : States, round : {0} \cup Rounds, session : {NoSession} \cup Rounds,
   delivered : BOOLEAN]

Absent  == [state |-> "absent", round |-> 0, session |-> NoSession, delivered |-> FALSE]
Pending == [Absent EXCEPT !.state = "pending"]

Working == {"reserve", "prompt", "mark", "confirm", "remark", "work", "frontier", "judge", "budget"}
Phases  == {"completed", "stopped", "failed", "awaiting-human"}

Indexed == {index[i] : i \in DOMAIN index}

\* Messages the loops over the index meet before m.
Before(m) == {index[i] : i \in {j \in DOMAIN index : \E k \in DOMAIN index : j < k /\ index[k] = m}}

\* normalizeFollowupRecord drops the receipt of a pending record.
HasReceipt(m) == record[m].delivered /\ record[m].state # "pending"

\* getInputFrontier, with the messages the index names.
Frontier ==
  [revision |-> IF revision = NoRevision THEN Len(index) ELSE revision,
   pending  |-> {m \in Indexed : record[m].state \in Open},
   seen     |-> Indexed]
\* Mutant of Stale: the revision is read again and not compared.
NeverStale == FALSE

Stale == Frontier.revision # judged.revision

StorageFails == /\ faults < MaxFaults
                /\ faults' = faults + 1

-----------------------------------------------------------------------------
Init ==
  /\ record = [m \in Messages |-> Absent]
  /\ index = <<>>
  /\ revision = NoRevision
  /\ admission = [m \in Messages |-> "none"]
  /\ binding = "running"
  /\ step = "reserve"
  /\ round = 1
  /\ session = 1
  /\ taken = {}
  /\ judged = Frontier
  /\ attempts = 0
  /\ completion = [status |-> "waiting", phase |-> "none"]
  /\ received = [m \in Messages |-> {}]
  /\ attached = {}
  /\ faults = 0

-----------------------------------------------------------------------------
(* attachFollowupToActiveRun: the admission handler found the run active. *)

Duplicate(m) == record[m] # Absent /\ (admission[m] = "followup-attached" \/ m \in Indexed)
\* Mutant of Room: off by one at perRun.
RoomForOneMore(m) == m \in Indexed \/ Len(index) <= PerRun

Room(m) == m \in Indexed \/ Len(index) < PerRun
MayAttach(m) == binding = "running" /\ ~Duplicate(m) /\ Room(m)

IndexWith(m) == IF m \in Indexed THEN index ELSE Append(index, m)

Attach(m) ==
  /\ MayAttach(m)
  /\ record' = [record EXCEPT ![m] = Pending]
  /\ index' = IndexWith(m)
  /\ admission' = [admission EXCEPT ![m] = "followup-attached"]
  /\ revision' = Frontier.revision + 1
  /\ attached' = attached \cup {m}
  /\ UNCHANGED <<binding, step, dispatcher, completion, received, faults>>

\* A write failed: the earlier ones are rolled back, as far as storage lets them.
AttachWrites == <<"record", "index", "admission", "revision">>
AttachFailed(m) ==
  /\ MayAttach(m)
  /\ StorageFails
  /\ \E written \in 0..3 : LET done == {AttachWrites[i] : i \in 1..written} IN
       \E kept \in SUBSET done :
         /\ record' = IF "record" \in done
                        THEN [record EXCEPT ![m] = IF "record" \in kept THEN Pending ELSE Absent]
                        ELSE record
         /\ index' = IF "index" \in kept THEN IndexWith(m) ELSE index
         /\ admission' = IF "admission" \in done
                           THEN [admission EXCEPT ![m] = IF "admission" \in kept
                                                           THEN "followup-attached" ELSE "none"]
                           ELSE admission
  /\ UNCHANGED <<revision, binding, step, dispatcher, completion, history>>

-----------------------------------------------------------------------------
(* The prompt of a round: reserve, deliver, mark, confirm. *)

\* runRoundOnce or the runner's caller learn of the end: the first return of the
\* runner is the one the completion callback waits for.
Returns(phase) ==
  /\ step' = phase
  /\ completion' = IF completion.status = "waiting"
                     THEN [status |-> "due", phase |-> phase] ELSE completion

\* checkDelivered: the receipt, or the context of the session it was reserved for;
\* `unreadable` are the messages whose session cannot be read.
DeliveryStatus(m, unreadable) ==
  CASE HasReceipt(m)                                   -> "delivered"
    [] record[m].session = NoSession                   -> "not-delivered"
    [] m \in unreadable                                -> "unknown"
    [] \E d \in received[m] : d[1] = record[m].session -> "delivered"
    [] OTHER                                           -> "not-delivered"

\* Mutant of Reservable: a consumption of an earlier round counts as stale, too.
ReservableAgain(m, unreadable) ==
  \/ record[m].state = "pending"
  \/ record[m].state \in {"reserved", "consumed"} /\ record[m].round < round

Reservable(m, unreadable) ==
  \/ record[m].state = "pending"
  \/ /\ record[m].state = "reserved"
     /\ DeliveryStatus(m, unreadable) = "not-delivered"
     /\ record[m].round < round

ReservableAt(unreadable) == {i \in DOMAIN index : Reservable(index[i], unreadable)}

\* The loop leaves the index where it has found PerRound of them.
Reached(i, unreadable) ==
  Cardinality({j \in ReservableAt(unreadable) : j < i}) < PerRound

Targets(unreadable) ==
  {index[i] : i \in {j \in ReservableAt(unreadable) : Reached(j, unreadable)}}

\* Reservations it meets whose message did reach its worker.
FoundDelivered(unreadable) ==
  {index[i] : i \in {j \in DOMAIN index :
     /\ record[index[j]].state = "reserved"
     /\ DeliveryStatus(index[j], unreadable) = "delivered"
     /\ Reached(j, unreadable)}}

AsReserved == [state |-> "reserved", round |-> round, session |-> session, delivered |-> FALSE]
AsConsumed(r) == [r EXCEPT !.state = "consumed"]

Reserve(unreadable) ==
  /\ step = "reserve"
  /\ taken' = Targets(unreadable)
  /\ record' = [m \in Messages |->
                  CASE m \in FoundDelivered(unreadable) -> AsConsumed(record[m])
                    [] m \in taken'                     -> AsReserved
                    [] OTHER                            -> record[m]]
  /\ step' = "prompt"
  /\ UNCHANGED <<index, revision, admission, binding, round, session, judged, attempts,
                 completion, history, faults>>

\* reserve throws: some reservations may survive the rollback, the round goes on
\* without the section.
ReserveFailed(unreadable) ==
  /\ step = "reserve"
  /\ StorageFails
  /\ LET targets == Targets(unreadable) IN
       \E stuck \in SUBSET {m \in targets : \E t \in targets : m \in Before(t)},
          found \in SUBSET FoundDelivered(unreadable) :
         record' = [m \in Messages |-> CASE m \in stuck -> AsReserved
                                         [] m \in found -> AsConsumed(record[m])
                                         [] OTHER       -> record[m]]
  /\ taken' = {}
  /\ step' = "prompt"
  /\ UNCHANGED <<index, revision, admission, binding, round, session, judged, attempts,
                 completion, history>>

Delivery == [m \in Messages |-> IF m \in taken THEN received[m] \cup {<<session, round>>}
                                               ELSE received[m]]

PromptDelivered ==
  /\ step = "prompt"
  /\ received' = Delivery
  /\ step' = IF taken = {} THEN "work" ELSE "mark"
  /\ UNCHANGED <<storage, binding, dispatcher, completion, attached, faults>>

\* revertFollowupConsumption on the items in `items`.
Reverted(items) ==
  [m \in Messages |->
     IF m \in items /\ ~HasReceipt(m) /\ record[m].state \in {"consumed", "reserved"}
       THEN Pending ELSE record[m]]

\* prompt throws and the run fails.  The dispatcher takes the message as undelivered;
\* when only the reply was lost the worker has it all the same.
PromptFailed(replyLost) ==
  /\ step = "prompt"
  /\ received' = IF replyLost THEN Delivery ELSE received
  /\ \/ record' = Reverted(taken) /\ UNCHANGED faults
     \/ /\ taken # {} /\ StorageFails
        /\ \E items \in SUBSET taken : items # taken /\ record' = Reverted(items)
  /\ Returns("failed")
  /\ UNCHANGED <<index, revision, admission, binding, dispatcher, attached>>

\* The items of the prompt before m, for a loop over them that storage cut short at m.
TakenBefore(m) == taken \cap Before(m)

Marked(items) ==
  [m \in Messages |->
     IF m \in items /\ record[m].state \in Open
       THEN [record[m] EXCEPT !.delivered = TRUE, !.round = round, !.session = session]
       ELSE record[m]]

Confirmed(items) ==
  [m \in Messages |->
     IF m \in items /\ record[m].state \in Open THEN AsConsumed(record[m]) ELSE record[m]]

\* The loops of markDelivered and confirm over the whole prompt, or cut short.
MarkAll == record' = Marked(taken) /\ UNCHANGED faults
MarkSome ==
  /\ StorageFails
  /\ \E m \in taken : record' = Marked(TakenBefore(m))

\* An error of markDelivered is swallowed.
MarkDelivered ==
  /\ step = "mark"
  /\ MarkAll \/ MarkSome
  /\ step' = "confirm"
  /\ UNCHANGED <<index, revision, admission, binding, dispatcher, completion, history>>

Confirm ==
  /\ step = "confirm"
  /\ record' = Confirmed(taken)
  /\ step' = "work"
  /\ UNCHANGED <<index, revision, admission, binding, dispatcher, completion, history, faults>>

ConfirmFailed ==
  /\ step = "confirm"
  /\ StorageFails
  /\ \E m \in taken : record' = Confirmed(TakenBefore(m))
  /\ step' = "remark"
  /\ UNCHANGED <<index, revision, admission, binding, dispatcher, completion, history>>

\* After a failed confirm the receipt is written once more, and the run fails.
MarkAgain ==
  /\ step = "remark"
  /\ MarkAll \/ MarkSome
  /\ Returns("failed")
  /\ UNCHANGED <<index, revision, admission, binding, dispatcher, history>>

-----------------------------------------------------------------------------
(* Execution and judgement of the round. *)

WorkerDone ==
  /\ step = "work"
  /\ step' = "frontier"
  /\ UNCHANGED <<storage, binding, dispatcher, completion, history, faults>>

\* Everything that ends a round early without touching the follow-ups: budget, worker,
\* critic, judge or parse failures, and a verdict the kernel refuses.
RoundFails ==
  /\ step \in {"reserve", "work", "judge", "budget"}
  /\ Returns("failed")
  /\ UNCHANGED <<storage, binding, dispatcher, history, faults>>

ReadFrontier ==
  /\ step = "frontier"
  /\ judged' = Frontier
  /\ attempts' = 1
  /\ step' = "judge"
  /\ UNCHANGED <<storage, binding, round, session, taken, completion, history, faults>>

\* The frontier cannot be read before the judgement, or after it; only a terminal
\* verdict then marks the binding failed, if it can.
FrontierUnreadable ==
  /\ step \in {"frontier", "judge"}
  /\ StorageFails
  /\ binding' \in IF step = "judge" THEN {binding, "over"} ELSE {binding}
  /\ Returns("failed")
  /\ UNCHANGED <<storage, dispatcher, history>>

\* Something was attached while the judge decided: the verdict is thrown away.
Refresh ==
  /\ step = "judge" /\ Stale
  /\ attempts < MaxJudgeRefresh
  /\ judged' = Frontier
  /\ attempts' = attempts + 1
  /\ UNCHANGED <<storage, binding, step, round, session, taken, completion, history, faults>>

RefreshExhausted ==
  /\ step = "judge" /\ Stale
  /\ attempts >= MaxJudgeRefresh
  /\ Returns("failed")
  /\ UNCHANGED <<storage, binding, dispatcher, history, faults>>

\* Mutant of CommitAccept: the kernel does not look at the frontier.
CommitAcceptUnguarded ==
  /\ step = "judge" /\ ~Stale
  /\ binding' = "over"
  /\ Returns("completed")
  /\ UNCHANGED <<storage, dispatcher, history, faults>>

CommitAccept ==
  /\ step = "judge" /\ ~Stale
  /\ Frontier.pending = {}
  /\ binding' = "over"
  /\ Returns("completed")
  /\ UNCHANGED <<storage, dispatcher, history, faults>>

CommitStop ==
  /\ step = "judge" /\ ~Stale
  /\ binding' = "over"
  /\ Returns("stopped")
  /\ UNCHANGED <<storage, dispatcher, history, faults>>

\* The kernel refuses the verdict (a follow-up is pending, or a hard failure), or the
\* binding cannot be written; the catch then marks the binding failed, if it can.
CommitFailed ==
  /\ step = "judge" /\ ~Stale
  /\ \/ binding' = "over" /\ UNCHANGED faults
     \/ StorageFails /\ binding' \in {binding, "over"}
  /\ Returns("failed")
  /\ UNCHANGED <<storage, dispatcher, history>>

\* A verdict that asks for another round has passed the fence; the resource budget of the
\* round is asked before the verdict is applied, and a message may be attached meanwhile.
AskBudget ==
  /\ step = "judge" /\ ~Stale
  /\ step' = "budget"
  /\ UNCHANGED <<storage, binding, dispatcher, completion, history, faults>>

\* The verdict is applied, with the frontier of the fence: repair-same keeps the worker
\* session.
NextRound ==
  /\ step = "budget"
  /\ round < MaxRounds
  /\ round' = round + 1
  /\ session' \in {session, round + 1}
  /\ step' = "reserve"
  /\ UNCHANGED <<storage, binding, taken, judged, attempts, completion, history, faults>>

\* The judge asks for a human, or there is no round left for what he asks.
Pause ==
  /\ \/ step = "judge" /\ ~Stale
     \/ step = "budget"
  /\ Returns("awaiting-human")
  /\ UNCHANGED <<storage, binding, dispatcher, history, faults>>

\* orchestrate_resume: one more round, in a new session, beside whatever the completion
\* callback of the pause still has to do.
HumanResume ==
  /\ step = "awaiting-human"
  /\ round < MaxRounds
  /\ round' = round + 1
  /\ session' = round + 1
  /\ step' = "reserve"
  /\ UNCHANGED <<storage, binding, taken, judged, attempts, completion, history, faults>>

HumanStop ==
  /\ step = "awaiting-human"
  /\ Returns("stopped")
  /\ UNCHANGED <<storage, binding, dispatcher, history, faults>>

-----------------------------------------------------------------------------
(* The completion callback, under the session lock. *)

\* Mutant of ClosedRecords: settled records are stamped again.
ClosedAgain(items) ==
  [m \in Messages |->
     IF m \in items
       THEN [record[m] EXCEPT !.state = IF HasReceipt(m) THEN "consumed" ELSE "unconsumed"]
       ELSE record[m]]

\* closeFollowupsForRun on the messages in `items`.
ClosedRecords(items) ==
  [m \in Messages |->
     IF m \in items /\ record[m].state \in Open
       THEN [record[m] EXCEPT !.state = IF HasReceipt(m) THEN "consumed" ELSE "unconsumed"]
       ELSE record[m]]

\* Mutant of CloseAll: the failure path forgets the follow-ups.
CloseUnlessFailed ==
  /\ record' = IF completion.phase = "failed" THEN record ELSE ClosedRecords(Indexed)
  /\ UNCHANGED faults

CloseAll == record' = ClosedRecords(Indexed) /\ UNCHANGED faults
CloseSome ==
  /\ StorageFails
  /\ \E n \in 0..(Len(index) - 1) : record' = ClosedRecords({index[i] : i \in 1..n})

BindingPhase(phase) == IF phase = "awaiting-human" THEN "awaiting-human" ELSE "over"

\* Closing is best effort; the admission record and the binding follow.
Complete ==
  /\ completion.status = "due"
  /\ CloseAll \/ CloseSome
  /\ binding' = BindingPhase(completion.phase)
  /\ completion' = [completion EXCEPT !.status = "done"]
  /\ UNCHANGED <<index, revision, admission, step, dispatcher, history>>

\* The record or the binding cannot be written: the error path does it all again.
CompleteFailed ==
  /\ completion.status = "due"
  /\ StorageFails
  /\ \E n \in 0..Len(index) : record' = ClosedRecords({index[i] : i \in 1..n})
  /\ completion' = [completion EXCEPT !.status = "retry"]
  /\ UNCHANGED <<index, revision, admission, binding, step, dispatcher, history>>

CompleteAsFailed ==
  /\ completion.status = "retry"
  /\ \/ CloseAll /\ binding' = "over"
     \/ CloseSome /\ binding' \in {binding, "over"}
     \/ record' = ClosedRecords(Indexed) /\ StorageFails /\ UNCHANGED binding
  /\ completion' = [completion EXCEPT !.status = "done"]
  /\ UNCHANGED <<index, revision, admission, step, dispatcher, history>>

-----------------------------------------------------------------------------
Dispatch ==
  \/ \E unreadable \in SUBSET Indexed : Reserve(unreadable) \/ ReserveFailed(unreadable)
  \/ PromptDelivered
  \/ \E replyLost \in BOOLEAN : PromptFailed(replyLost)
  \/ MarkDelivered \/ Confirm \/ ConfirmFailed \/ MarkAgain
  \/ WorkerDone \/ RoundFails
  \/ ReadFrontier \/ FrontierUnreadable \/ Refresh \/ RefreshExhausted
  \/ CommitAccept \/ CommitStop \/ CommitFailed \/ AskBudget \/ NextRound \/ Pause

Completion == Complete \/ CompleteFailed \/ CompleteAsFailed

Human == HumanResume \/ HumanStop

Next ==
  \/ \E m \in Messages : Attach(m) \/ AttachFailed(m)
  \/ Dispatch
  \/ Human
  \/ Completion

Spec == Init /\ [][Next]_vars

\* The event loop keeps running the dispatcher and the completion callback; nobody owes
\* the run a message or a human decision.
Fairness == WF_vars(Dispatch) /\ WF_vars(Completion)
FairSpec == Spec /\ Fairness

-----------------------------------------------------------------------------
(* Properties *)

\* Storage and dispatcher keep their types; the index stays within perRun without
\* repetitions and a prompt within perRound.
TypeOK ==
  /\ record \in [Messages -> FollowupRecord]
  /\ index \in Seq(Messages) /\ Len(index) <= PerRun
  /\ \A i, j \in DOMAIN index : index[i] = index[j] => i = j
  /\ revision \in Nat \cup {NoRevision}
  /\ admission \in [Messages -> {"none", "followup-attached"}]
  /\ binding \in {"running", "awaiting-human", "over"}
  /\ step \in Working \cup Phases
  /\ round \in Rounds /\ session \in Rounds
  /\ taken \subseteq Messages /\ Cardinality(taken) <= PerRound
  /\ judged \in [revision : Nat, pending : SUBSET Messages, seen : SUBSET Messages]
  /\ attempts \in 0..MaxJudgeRefresh
  /\ completion \in [status : {"waiting", "due", "retry", "done"}, phase : Phases \cup {"none"}]
  /\ received \in [Messages -> SUBSET (Rounds \X Rounds)]
  /\ attached \subseteq Messages
  /\ faults \in 0..MaxFaults

\* "exactly-once": no message is put in two prompts of the run, whatever fails around
\* the reservation, the delivery, its receipt and its confirmation.
DeliveredOnce == \A m \in Messages : \A d, e \in received[m] : d = e

\* A run is accepted only when nothing attached to it is left open, and what counts as
\* consumed was in a worker's prompt: a message that arrives while the judge decides is
\* never left behind by a completed run.
CompletedLeavesNothingOpen ==
  step = "completed" =>
    \A m \in attached :
      /\ record[m].state \in Settled
      /\ record[m].state = "consumed" => received[m] # {}

\* A verdict passes the fence only when the judge was shown every message attached by then,
\* whether it ends the run, pauses it or asks for another round.  What is attached after the
\* fence, while the budget of that round is asked, no judge has seen: it is still pending
\* when the run goes on or pauses, unless the callback of an earlier pause has closed it.
JudgedOnWhatWasAttached ==
  [][/\ step = "judge" /\ step' \in {"completed", "stopped", "awaiting-human", "budget"}
          => attached \subseteq judged.seen
     /\ step = "budget" /\ step' \in {"reserve", "awaiting-human"} /\ completion.status = "waiting"
          => \A m \in attached \ judged.seen : record'[m].state = "pending"]_vars

\* A settled record never changes again: closing is idempotent, a late receipt or a
\* revert never reopens it.
SettledIsFinal ==
  [][\A m \in Messages :
       record[m].state \in Settled => record'[m].state = record[m].state]_vars

\* Without storage failures every attached message is eventually settled: consumed in a
\* prompt or honestly closed by the completion callback.
AttachedIsSettled ==
  \A m \in Messages : m \in attached ~> (record[m].state \in Settled \/ faults > 0)

=============================================================================
