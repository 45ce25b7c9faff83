------------------------------ MODULE Admission ------------------------------
(***************************************************************************)
(* Admission of the messages of one session: the RPC handler of            *)
(* admission-rpc.ts, the runs it starts, their terminal commit in          *)
(* dispatcher.ts and the completion callback.  Handlers, commits and       *)
(* completions of a session exclude each other by the session lock         *)
(* (admission/session/<id> of lock.ts); `holder` is the handler inside it, *)
(* and a commit or a completion, which nobody can see half done, is one    *)
(* action enabled while the lock is free.  The failure path of a commit    *)
(* writes the binding without the lock.                                    *)
(*                                                                         *)
(* The runID derives from sessionID and messageID, so a run is named by    *)
(* the message that starts it, and the turn lock inside the session lock   *)
(* excludes nothing more.  A follow-up is open from its attachment until a *)
(* round consumes it or the completion closes it; Followups has the        *)
(* protocol in between.  A storage write that fails has written nothing.   *)
(***************************************************************************)
EXTENDS Integers, FiniteSets

CONSTANTS
  Messages,     \* messageIDs of the session
  Calls,        \* concurrent calls of the RPC method orchestrate
  MaxFaults,    \* bound: operations during which storage fails
  MaxRestarts   \* bound: restarts of the plugin's process

Nobody == "nobody"
NoRun  == "no run"

ASSUME AdmissionAssumption ==
  /\ MaxFaults \in Nat /\ MaxRestarts \in Nat
  /\ Nobody \notin Calls /\ NoRun \notin Messages

VARIABLES
  record,      \* orchestration/admission/<session>/<message>
  binding,     \* orchestration/session/<session>: a run and its phase
  followup,    \* the follow-up a message became: its state and run
  holder,      \* call inside the session lock
  call,        \* each call: its step, its message and the active run it saw
  run,         \* what the runner of each run is doing, or the phase it ended in
  completion,  \* the callback that waits for the runner of each run
  starts,      \* history: runners invoked for each message
  late,        \* history: a run was started before an earlier one was completed
  faults,      \* history: operations during which storage failed
  restarts     \* history: restarts

storage == <<record, binding, followup>>
bounds  == <<faults, restarts>>
vars == <<storage, holder, call, run, completion, starts, late, bounds>>

-----------------------------------------------------------------------------
(* Values *)

Phases == {"completed", "stopped", "failed", "awaiting-human"}
Active == {"live", "marking"}

Record(state, r) == [state |-> state, run |-> r]
NoRecord   == Record("none", NoRun)
NoFollowup == [state |-> "none", run |-> NoRun]
OpenFollowup(r) == [state |-> "open", run |-> r]

Idle == [step |-> "idle", message |-> NoRun, run |-> NoRun]

\* Mutant of BindingStatus: only the human gate keeps a session.
BindingStatusOfGate ==
  IF binding.phase = "awaiting-human" THEN "awaiting-human" ELSE "free"

\* bindingStatusFromPhase, with an absent binding: does a run own the session?
BindingStatus ==
  IF binding.run = NoRun THEN "free"
  ELSE IF binding.phase \in {"running", "awaiting-human"} THEN binding.phase ELSE "free"

\* Mutant of Retryable: a started record is tried again, as if its start had failed.
RetryableStarted(m) == record[m].state \in {"none", "binding-failed", "started"}

\* A record that lets its message start a run: none, or one whose start failed.
Retryable(m) == record[m].state \in {"none", "binding-failed"}

OpenOf(r) == {m \in Messages : followup[m] = OpenFollowup(r)}

StorageFails == faults < MaxFaults /\ faults' = faults + 1

-----------------------------------------------------------------------------
Init ==
  /\ record = [m \in Messages |-> NoRecord]
  /\ binding = [run |-> NoRun, phase |-> "none"]
  /\ followup = [m \in Messages |-> NoFollowup]
  /\ holder = Nobody
  /\ call = [c \in Calls |-> Idle]
  /\ run = [m \in Messages |-> "none"]
  /\ completion = [m \in Messages |-> [status |-> "none", phase |-> "none"]]
  /\ starts = [m \in Messages |-> 0]
  /\ late = FALSE
  /\ faults = 0
  /\ restarts = 0

-----------------------------------------------------------------------------
(* The handler: createAdmissionOrchestrateHandler *)

\* The gateway calls, for a new message or again for an old one.
Arrive(c, m) ==
  /\ call[c] = Idle
  /\ call' = [call EXCEPT ![c] = [step |-> "waiting", message |-> m, run |-> NoRun]]
  /\ UNCHANGED <<storage, holder, run, completion, starts, late, bounds>>

AtLock(c) == call[c].step = "waiting" /\ holder = Nobody
Answer(c) == call' = [call EXCEPT ![c] = Idle]

\* awaiting-human-no-resume.
RefuseWhilePaused(c) ==
  /\ AtLock(c)
  /\ BindingStatus = "awaiting-human"
  /\ Answer(c)
  /\ UNCHANGED <<storage, holder, run, completion, starts, late, bounds>>

EnterActive(c) ==
  /\ AtLock(c)
  /\ BindingStatus = "running"
  /\ holder' = c
  /\ call' = [call EXCEPT ![c].step = "attach", ![c].run = binding.run]
  /\ UNCHANGED <<storage, run, completion, starts, late, bounds>>

\* duplicate-ignored.
IgnoreDuplicate(c) ==
  /\ AtLock(c)
  /\ BindingStatus = "free"
  /\ ~Retryable(call[c].message)
  /\ Answer(c)
  /\ UNCHANGED <<storage, holder, run, completion, starts, late, bounds>>

EnterFree(c) ==
  /\ AtLock(c)
  /\ BindingStatus = "free"
  /\ Retryable(call[c].message)
  /\ holder' = c
  /\ call' = [call EXCEPT ![c].step = "record"]
  /\ UNCHANGED <<storage, run, completion, starts, late, bounds>>

Leave(c) == holder' = Nobody /\ Answer(c)

\* attachFollowupToActiveRun: the message is a duplicate by its admission record.
Attached(m) ==
  /\ ~Retryable(m)
  /\ record[m].state = "followup-attached" => followup[m] # NoFollowup

\* Nothing is written: it is a duplicate, or the run's index, which Followups has, is full
\* or still names a message whose admission record was rolled back.
AttachNothing(c) ==
  /\ call[c].step = "attach"
  /\ Leave(c)
  /\ UNCHANGED <<storage, run, completion, starts, late, bounds>>

Attach(c) ==
  /\ call[c].step = "attach"
  /\ ~Attached(call[c].message)
  /\ followup' = [followup EXCEPT ![call[c].message] = OpenFollowup(call[c].run)]
  /\ record' = [record EXCEPT ![call[c].message] = Record("followup-attached", call[c].run)]
  /\ Leave(c)
  /\ UNCHANGED <<binding, run, completion, starts, late, bounds>>

\* A write failed and the others are rolled back as far as storage allows.
AttachFailed(c) ==
  LET m == call[c].message IN
  /\ call[c].step = "attach"
  /\ ~Attached(m)
  /\ StorageFails
  /\ \E f \in {followup[m], NoFollowup, OpenFollowup(call[c].run)} :
       followup' = [followup EXCEPT ![m] = f]
  /\ \E r \in {record[m], NoRecord, Record("followup-attached", call[c].run)} :
       record' = [record EXCEPT ![m] = r]
  /\ Leave(c)
  /\ UNCHANGED <<binding, run, completion, starts, late, restarts>>

WriteStarted(c) ==
  /\ call[c].step = "record"
  /\ record' = [record EXCEPT ![call[c].message] = Record("started", call[c].message)]
  /\ call' = [call EXCEPT ![c].step = "binding"]
  /\ UNCHANGED <<binding, followup, holder, run, completion, starts, late, bounds>>

\* The binding is written and the runner invoked, with nothing in between.
StartRun(c) ==
  LET m == call[c].message IN
  /\ call[c].step = "binding"
  /\ binding' = [run |-> m, phase |-> "running"]
  /\ run' = [run EXCEPT ![m] = "live"]
  /\ completion' = [completion EXCEPT ![m] = [status |-> "waiting", phase |-> "none"]]
  /\ starts' = [starts EXCEPT ![m] = @ + 1]
  /\ late' = (late \/ \E r \in Messages \ {m} :
                        completion[r].status \in {"due", "retry"})
  /\ Leave(c)
  /\ UNCHANGED <<record, followup, bounds>>

\* Mutant of StartFailed: the record is left as it was written.
StartFailedUnmarked(c) ==
  /\ call[c].step \in {"record", "binding"}
  /\ StorageFails
  /\ UNCHANGED record
  /\ Leave(c)
  /\ UNCHANGED <<binding, followup, run, completion, starts, late, restarts>>

\* Either write fails: the record is marked retryable, unless that second write fails.
StartFailed(c) ==
  /\ call[c].step \in {"record", "binding"}
  /\ \/ /\ StorageFails
        /\ record' = [record EXCEPT ![call[c].message] =
                        Record("binding-failed", call[c].message)]
     \/ /\ faults + 2 <= MaxFaults
        /\ faults' = faults + 2
        /\ UNCHANGED record
  /\ Leave(c)
  /\ UNCHANGED <<binding, followup, run, completion, starts, late, restarts>>

-----------------------------------------------------------------------------
(* The runner of run r: what of runOrchestrationOnce the session can see. *)

\* The runner returns; only its first return reaches the completion callback (a run
\* resumed by a human returns to the tool that resumed it).
Returns(r, phase) ==
  /\ run' = [run EXCEPT ![r] = phase]
  /\ completion' = IF completion[r].status = "waiting"
                     THEN [completion EXCEPT ![r] = [status |-> "due", phase |-> phase]]
                     ELSE completion

TakeFollowups(r) ==
  /\ run[r] = "live"
  /\ OpenOf(r) # {}
  /\ followup' = [m \in Messages |-> IF m \in OpenOf(r)
                                       THEN [followup[m] EXCEPT !.state = "consumed"]
                                       ELSE followup[m]]
  /\ UNCHANGED <<record, binding, holder, call, run, completion, starts, late, bounds>>

\* Accept and stop are committed under the session lock, with the binding.
Commit(r, phase) ==
  /\ run[r] = "live"
  /\ holder = Nobody
  /\ phase = "completed" => OpenOf(r) = {}
  /\ binding' = [run |-> r, phase |-> phase]
  /\ Returns(r, phase)
  /\ UNCHANGED <<record, followup, holder, call, starts, late, bounds>>

\* The kernel refuses the verdict, or storage the binding.
CommitFails(r) ==
  /\ run[r] = "live"
  /\ holder = Nobody
  /\ run' = [run EXCEPT ![r] = "marking"]
  /\ UNCHANGED <<storage, holder, call, completion, starts, late, bounds>>

\* The catch of the commit marks the binding failed, outside the lock.
MarkFailed(r) ==
  /\ run[r] = "marking"
  /\ \/ binding' = [run |-> r, phase |-> "failed"] /\ UNCHANGED faults
     \/ StorageFails /\ UNCHANGED binding
  /\ Returns(r, "failed")
  /\ UNCHANGED <<record, followup, holder, call, starts, late, restarts>>

\* Every other end of the runner leaves the binding to the completion callback.
RunEnds(r) ==
  /\ run[r] = "live"
  /\ \E phase \in {"failed", "awaiting-human"} : Returns(r, phase)
  /\ UNCHANGED <<storage, holder, call, starts, late, bounds>>

\* orchestrate_resume; neither decision touches the binding.
HumanDecides(r) ==
  /\ run[r] = "awaiting-human"
  /\ \E next \in {"live", "stopped"} : run' = [run EXCEPT ![r] = next]
  /\ UNCHANGED <<storage, holder, call, completion, starts, late, bounds>>

-----------------------------------------------------------------------------
(* The completion callback of run r, under the session lock. *)

Closed(r) ==
  [m \in Messages |-> IF m \in OpenOf(r) THEN [followup[m] EXCEPT !.state = "unconsumed"]
                                         ELSE followup[m]]

\* Mutant of AtCompletion: the callback does not take the session lock.
AtCompletionUnlocked(r, status) == completion[r].status = status

AtCompletion(r, status) == completion[r].status = status /\ holder = Nobody
CompletionDone(r) == completion' = [completion EXCEPT ![r].status = "done"]

Complete(r) ==
  /\ AtCompletion(r, "due")
  /\ \/ followup' = Closed(r) /\ UNCHANGED faults
     \/ StorageFails /\ UNCHANGED followup
  /\ record' = [record EXCEPT ![r] = Record(completion[r].phase, r)]
  /\ binding' = [run |-> r, phase |-> completion[r].phase]
  /\ CompletionDone(r)
  /\ UNCHANGED <<holder, call, run, starts, late, restarts>>

CompleteFailed(r) ==
  /\ AtCompletion(r, "due")
  /\ StorageFails
  /\ followup' \in {followup, Closed(r)}
  /\ record' \in {record, [record EXCEPT ![r] = Record(completion[r].phase, r)]}
  /\ completion' = [completion EXCEPT ![r].status = "retry"]
  /\ UNCHANGED <<binding, holder, call, run, starts, late, restarts>>

\* The error path reports the run failed, each write on its own.
CompleteAsFailed(r) ==
  /\ AtCompletion(r, "retry")
  /\ \/ /\ followup' = Closed(r)
        /\ record' = [record EXCEPT ![r] = Record("failed", r)]
        /\ binding' = [run |-> r, phase |-> "failed"]
        /\ UNCHANGED faults
     \/ /\ StorageFails
        /\ followup' \in {followup, Closed(r)}
        /\ record' \in {record, [record EXCEPT ![r] = Record("failed", r)]}
        /\ binding' \in {binding, [run |-> r, phase |-> "failed"]}
  /\ CompletionDone(r)
  /\ UNCHANGED <<holder, call, run, starts, late, restarts>>

-----------------------------------------------------------------------------
\* The process restarts: what was in memory is gone, storage stays.
Restart ==
  /\ restarts < MaxRestarts
  /\ restarts' = restarts + 1
  /\ holder' = Nobody
  /\ call' = [c \in Calls |-> Idle]
  /\ run' = [m \in Messages |-> IF run[m] \in Active THEN "dead" ELSE run[m]]
  /\ completion' = [m \in Messages |->
                      IF completion[m].status \in {"waiting", "due", "retry"}
                        THEN [completion[m] EXCEPT !.status = "lost"] ELSE completion[m]]
  /\ UNCHANGED <<storage, starts, late, faults>>

Enter(c) == RefuseWhilePaused(c) \/ EnterActive(c) \/ IgnoreDuplicate(c) \/ EnterFree(c)
Inside(c) == AttachNothing(c) \/ Attach(c) \/ AttachFailed(c)
               \/ WriteStarted(c) \/ StartRun(c) \/ StartFailed(c)

Runner(r) == TakeFollowups(r) \/ Commit(r, "completed") \/ Commit(r, "stopped")
               \/ CommitFails(r) \/ MarkFailed(r) \/ RunEnds(r)
Callback(r) == Complete(r) \/ CompleteFailed(r) \/ CompleteAsFailed(r)

Next ==
  \/ \E c \in Calls : (\E m \in Messages : Arrive(c, m)) \/ Enter(c) \/ Inside(c)
  \/ \E r \in Messages : Runner(r) \/ HumanDecides(r) \/ Callback(r)
  \/ Restart

Spec == Init /\ [][Next]_vars

-----------------------------------------------------------------------------
(* Properties *)

TypeOK ==
  /\ record \in [Messages -> [state : {"none", "started", "binding-failed",
                                       "followup-attached"} \cup Phases,
                              run : Messages \cup {NoRun}]]
  /\ binding \in [run : Messages \cup {NoRun}, phase : Phases \cup {"none", "running"}]
  /\ followup \in [Messages -> [state : {"none", "open", "consumed", "unconsumed"},
                                run : Messages \cup {NoRun}]]
  /\ holder \in Calls \cup {Nobody}
  /\ call \in [Calls -> [step : {"idle", "waiting", "attach", "record", "binding"},
                         message : Messages \cup {NoRun}, run : Messages \cup {NoRun}]]
  /\ run \in [Messages -> {"none", "dead"} \cup Active \cup Phases]
  /\ completion \in [Messages -> [status : {"none", "waiting", "due", "retry", "done", "lost"},
                                  phase : Phases \cup {"none"}]]
  /\ starts \in [Messages -> Nat]
  /\ late \in BOOLEAN
  /\ faults \in 0..MaxFaults /\ restarts \in 0..MaxRestarts

\* "EXATAMENTE uma execucao": however often a message is submitted, however its start
\* fails and whatever a restart forgets, it starts at most one run; and it is never both
\* a run and a follow-up of another one, unless a failed attachment could not be undone.
OneRunPerMessage ==
  \A m \in Messages :
    /\ starts[m] <= 1
    /\ faults = 0 /\ starts[m] = 1 => followup[m] = NoFollowup

\* "Nao deixar started mentiroso": a record says started only of a message whose run was
\* started, so a duplicate is never ignored for nothing; it takes two failures, or a
\* restart between the record and the runner, to break this.
StartedIsTrue ==
  faults < 2 /\ restarts = 0 =>
    \A m \in Messages :
      record[m].state = "started" =>
        starts[m] = 1 \/ \E c \in Calls : call[c].step = "binding" /\ call[c].message = m

\* The callback of a run is still to come, unless a restart forgot it.
Attended(r) ==
  \/ completion[r].status \in {"waiting", "due"}
  \/ restarts > 0 /\ completion[r].status = "lost"

\* Without failures an open follow-up always has a completion callback still to come that
\* closes it, or had one when the process was restarted: none is attached to a run that
\* was completed.
OpenFollowupIsAttended ==
  faults = 0 => \A m \in Messages : followup[m].state = "open" => Attended(followup[m].run)

\* One run at a time, as long as no run was started between the terminal commit of an
\* earlier one and its completion callback.
OneRunUnlessLate ==
  faults = 0 /\ ~late =>
    \A r, q \in Messages : run[r] \in Active /\ run[q] \in Active => r = q

\* "Terminal phases fall to the normal flow, a new real message may start a new run": when
\* every run has ended for good and no callback is still to come, the session is free.
\* The tool that decides for the human does not write the binding, so it stays paused unless
\* the judge ends the resumed run (Commit).
EndedRunsFreeTheSession ==
  /\ faults = 0 /\ restarts = 0
  /\ \A r \in Messages : run[r] \in {"none", "completed", "stopped", "failed"}
  /\ \A r \in Messages : completion[r].status \in {"none", "done"}
  => BindingStatus = "free"

=============================================================================
