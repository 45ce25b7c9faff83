---------------------------- MODULE AdmissionProofs ----------------------------
(***************************************************************************)
(* What the admission of a session's messages promises, for every set of   *)
(* messages and of concurrent calls, any number of storage failures and    *)
(* restarts.  The argument is the session lock: what a handler has read    *)
(* inside it holds until it leaves (CallSound), so that a run is started   *)
(* once (StartSound), never of a follow-up (FollowupSound), only where the *)
(* binding has no live run (TurnSound), and a follow-up is attached only   *)
(* to a run whose callback is still to come (AttendSound).                 *)
(***************************************************************************)
EXTENDS Admission, TLAPS

Locked == {"attach", "record", "binding"}
ToCome == {"waiting", "due"}

\* A handler past the lock holds it, and what it read inside is still so.
CallSound(c) ==
  /\ call[c].step # "idle" => call[c].message \in Messages
  /\ call[c].step \in Locked => holder = c
  /\ call[c].step = "attach" => call[c].run \in Messages
  /\ call[c].step = "record" => Retryable(call[c].message)
  /\ call[c].step = "binding" =>
       record[call[c].message].state = "started" /\ starts[call[c].message] = 0

\* A message starts once, its record says so from then on, and only a started run runs,
\* returns and is completed.
StartSound(m) ==
  /\ starts[m] \in {0, 1}
  /\ starts[m] = 1 => record[m].state \in {"started"} \cup Phases
  /\ run[m] # "none" \/ completion[m].status # "none" => starts[m] = 1
  /\ completion[m].status \in {"due", "retry"} => completion[m].phase \in Phases

\* Without failures a message is a follow-up only if its record says so.
FollowupSound(m) ==
  faults = 0 /\ followup[m] # NoFollowup => record[m].state = "followup-attached"

\* Without failures the run that owns the session, the run a handler attaches to and the
\* run of an open follow-up have their callback still to come, unless a restart forgot it.
AttendSound ==
  faults = 0 =>
    /\ binding.phase = "running" => Attended(binding.run)
    /\ \A c \in Calls : call[c].step = "attach" => Attended(call[c].run)

\* Without failures a run that goes on, or may be resumed, owns the session, and so does one
\* whose callback is still to come unless a later run overtook the callback.
TurnSound(r) ==
  faults = 0 /\ ~late =>
    /\ run[r] \in Active \cup {"awaiting-human"} =>
         binding.run = r /\ binding.phase \in {"running", "awaiting-human"}
    /\ completion[r].status \in ToCome => binding.run = r
    /\ completion[r].status = "waiting" => run[r] \in Active
    /\ completion[r].status = "due" /\ completion[r].phase # "awaiting-human" =>
         run[r] = completion[r].phase

\* No run starts in a session that has one.
FreeSound ==
  faults = 0 /\ ~late =>
    \A c \in Calls : call[c].step \in {"record", "binding"} => BindingStatus = "free"

IInv ==
  /\ TypeOK
  /\ binding.phase # "none" => binding.run \in Messages
  /\ \A c \in Calls : CallSound(c)
  /\ \A m \in Messages : StartSound(m)
  /\ \A m \in Messages : FollowupSound(m)
  /\ \A m \in Messages : followup[m].state = "open" => followup[m].run \in Messages
  /\ faults = 0 => \A m \in Messages : completion[m].status # "retry"
  /\ AttendSound
  /\ \A m \in Messages : TurnSound(m)
  /\ FreeSound
  /\ StartedIsTrue /\ OpenFollowupIsAttended

-----------------------------------------------------------------------------
(* What a handler may rely on, action by action *)

\* A closed follow-up was an open one of the run.
LEMMA ClosedKeeps ==
  ASSUME TypeOK, NEW r \in Messages
  PROVE  /\ Closed(r) \in [Messages -> [state : {"none", "open", "consumed", "unconsumed"},
                                       run : Messages \cup {NoRun}]]
         /\ \A m \in Messages : \/ Closed(r)[m] = followup[m] /\ followup[m] # OpenFollowup(r)
                                \/ followup[m] = OpenFollowup(r) /\ Closed(r)[m].state = "unconsumed"
<1>1. Closed(r) = [m \in Messages |-> Closed(r)[m]]
  BY DEF Closed
<1>2. ASSUME NEW m \in Messages
      PROVE  Closed(r)[m] = IF followup[m] = OpenFollowup(r)
                              THEN [followup[m] EXCEPT !.state = "unconsumed"] ELSE followup[m]
  BY DEF Closed, OpenOf
<1>3. ASSUME NEW m \in Messages
      PROVE  Closed(r)[m] \in [state : {"none", "open", "consumed", "unconsumed"},
                             run : Messages \cup {NoRun}]
  <2>1. followup[m] \in [state : {"none", "open", "consumed", "unconsumed"},
                       run : Messages \cup {NoRun}]
    BY DEF TypeOK
  <2> QED BY <1>2, <2>1
<1>4. ASSUME NEW m \in Messages
      PROVE  \/ Closed(r)[m] = followup[m] /\ followup[m] # OpenFollowup(r)
             \/ followup[m] = OpenFollowup(r) /\ Closed(r)[m].state = "unconsumed"
  BY <1>2 DEF TypeOK
<1>5. Closed(r) \in [Messages -> [state : {"none", "open", "consumed", "unconsumed"},
                                run : Messages \cup {NoRun}]]
  BY <1>1, <1>3
<1> QED BY <1>4, <1>5

\* While the lock is free no handler is past it.
LEMMA NobodyInside ==
  ASSUME IInv, holder = Nobody
  PROVE  \A c \in Calls : call[c].step \notin Locked
  BY AdmissionAssumption DEF IInv, CallSound

\* The types are kept.
LEMMA TypeNext == ASSUME IInv, Next PROVE TypeOK'
<1> USE AdmissionAssumption DEF storage, bounds, IInv, TypeOK, Idle, NoRecord, NoFollowup, Active,
    Phases, CallSound, Locked, StartSound, Record, OpenFollowup
<1>1. CASE \E c \in Calls : \E m \in Messages : Arrive(c, m)
  BY <1>1 DEF Arrive
<1>2. CASE \E c \in Calls : RefuseWhilePaused(c)
  BY <1>2 DEF RefuseWhilePaused, AtLock, Answer
<1>3. CASE \E c \in Calls : EnterActive(c)
  <2>1. PICK c \in Calls : EnterActive(c)
    BY <1>3
  <2>2. /\ call' = [call EXCEPT ![c].step = "attach", ![c].run = binding.run]
        /\ holder' = c /\ UNCHANGED <<record, binding, followup, run, completion, starts, late, bounds>>
    BY <2>1 DEF EnterActive
  <2>3. /\ binding.run \in Messages \cup {NoRun}
        /\ call \in [Calls -> [step : {"idle", "waiting", "attach", "record", "binding"},
                              message : Messages \cup {NoRun}, run : Messages \cup {NoRun}]]
    OBVIOUS
  <2>4. call' \in [Calls -> [step : {"idle", "waiting", "attach", "record", "binding"},
                           message : Messages \cup {NoRun}, run : Messages \cup {NoRun}]]
    <3> HIDE DEF IInv, TypeOK, NoRun
    <3> QED BY <2>1, <2>2, <2>3
  <2> QED BY <2>2, <2>4
<1>4. CASE \E c \in Calls : IgnoreDuplicate(c)
  BY <1>4 DEF IgnoreDuplicate, AtLock, Answer
<1>5. CASE \E c \in Calls : EnterFree(c)
  BY <1>5 DEF EnterFree, AtLock
<1>6. CASE \E c \in Calls : AttachNothing(c)
  BY <1>6 DEF AttachNothing, Leave, Answer
<1>7. CASE \E c \in Calls : Attach(c)
  BY <1>7 DEF Attach, Leave, Answer, Attached, OpenFollowup, Record
<1>8. CASE \E c \in Calls : AttachFailed(c)
  BY <1>8 DEF AttachFailed, Leave, Answer, Attached, OpenFollowup, Record, StorageFails
<1>9. CASE \E c \in Calls : WriteStarted(c)
  BY <1>9 DEF WriteStarted, Record
<1>10. CASE \E c \in Calls : StartRun(c)
  BY <1>10 DEF StartRun, Leave, Answer
<1>11. CASE \E c \in Calls : StartFailed(c)
  <2>1. PICK c \in Calls : StartFailed(c)
    BY <1>11
  <2>2. call[c].message \in Messages /\ faults' \in 0..MaxFaults
    BY <2>1 DEF StartFailed, StorageFails
  <2>3. record' \in {record, [record EXCEPT ![call[c].message] =
                               Record("binding-failed", call[c].message)]}
    BY <2>1 DEF StartFailed
  <2>4. holder' = Nobody /\ call' = [call EXCEPT ![c] = Idle]
        /\ UNCHANGED <<binding, followup, run, completion, starts, late, restarts>>
    BY <2>1 DEF StartFailed, Leave, Answer
  <2>5. record' \in [Messages -> [state : {"none", "started", "binding-failed",
                                         "followup-attached"} \cup Phases,
                                run : Messages \cup {NoRun}]]
    BY <2>2, <2>3 DEF Record
  <2> QED BY <2>2, <2>4, <2>5
<1>12. CASE \E r \in Messages : TakeFollowups(r)
  BY <1>12 DEF TakeFollowups, OpenOf, OpenFollowup
<1>13. CASE \E r \in Messages : Commit(r, "completed") \/ Commit(r, "stopped")
  <2>1. PICK r \in Messages : Commit(r, "completed") \/ Commit(r, "stopped")
    BY <1>13
  <2>2. PICK phase \in {"completed", "stopped"} : Commit(r, phase)
    BY <2>1
  <2> QED BY <2>1, <2>2 DEF Commit, Returns
<1>14. CASE \E r \in Messages : CommitFails(r)
  BY <1>14 DEF CommitFails
<1>15. CASE \E r \in Messages : MarkFailed(r)
  BY <1>15 DEF MarkFailed, Returns, StorageFails
<1>16. CASE \E r \in Messages : RunEnds(r)
  BY <1>16 DEF RunEnds, Returns
<1>17. CASE \E r \in Messages : HumanDecides(r)
  BY <1>17 DEF HumanDecides
<1>18. CASE \E r \in Messages : Complete(r)
  <2>1. PICK r \in Messages : Complete(r)
    BY <1>18
  <2>2. Closed(r) \in [Messages -> [state : {"none", "open", "consumed", "unconsumed"},
                                  run : Messages \cup {NoRun}]]
    BY ClosedKeeps
  <2>3. \A m \in Messages : \/ Closed(r)[m] = followup[m]
                            \/ followup[m] = OpenFollowup(r) /\ Closed(r)[m].state = "unconsumed"
    BY ClosedKeeps
  <2>4. completion[r].phase \in Phases
    BY <2>1 DEF Complete, AtCompletion
    <2> QED BY <2>1, <2>2, <2>3, <2>4 DEF Complete, AtCompletion, CompletionDone, StorageFails,
      Record, OpenFollowup
<1>19. CASE \E r \in Messages : CompleteFailed(r)
  <2>1. PICK r \in Messages : CompleteFailed(r)
    BY <1>19
  <2>2. Closed(r) \in [Messages -> [state : {"none", "open", "consumed", "unconsumed"},
                                  run : Messages \cup {NoRun}]]
    BY ClosedKeeps
  <2>3. completion[r].phase \in Phases /\ faults' \in 0..MaxFaults
    BY <2>1 DEF CompleteFailed, AtCompletion, StorageFails
  <2>4. /\ followup' \in {followup, Closed(r)}
        /\ record' \in {record, [record EXCEPT ![r] = Record(completion[r].phase, r)]}
        /\ completion' = [completion EXCEPT ![r].status = "retry"]
        /\ UNCHANGED <<binding, holder, call, run, starts, late, restarts>>
    BY <2>1 DEF CompleteFailed
  <2>5. record' \in [Messages -> [state : {"none", "started", "binding-failed",
                                         "followup-attached"} \cup Phases,
                                run : Messages \cup {NoRun}]]
    BY <2>3, <2>4 DEF Record
  <2>6. followup' \in [Messages -> [state : {"none", "open", "consumed", "unconsumed"},
                                run : Messages \cup {NoRun}]]
    BY <2>2, <2>4
  <2>7. completion' \in [Messages -> [status : {"none", "waiting", "due", "retry", "done", "lost"},
                                    phase : Phases \cup {"none"}]]
    BY <2>4
  <2> QED BY <2>3, <2>4, <2>5, <2>6, <2>7
<1>20. CASE \E r \in Messages : CompleteAsFailed(r)
  <2>1. PICK r \in Messages : CompleteAsFailed(r)
    BY <1>20
  <2>2. Closed(r) \in [Messages -> [state : {"none", "open", "consumed", "unconsumed"},
                                  run : Messages \cup {NoRun}]]
    BY ClosedKeeps
  <2>3. faults' \in 0..MaxFaults
    BY <2>1 DEF CompleteAsFailed, StorageFails
  <2>4. /\ followup' \in {followup, Closed(r)}
        /\ record' \in {record, [record EXCEPT ![r] = Record("failed", r)]}
        /\ binding' \in {binding, [run |-> r, phase |-> "failed"]}
        /\ completion' = [completion EXCEPT ![r].status = "done"]
        /\ UNCHANGED <<holder, call, run, starts, late, restarts>>
    BY <2>1 DEF CompleteAsFailed, CompletionDone
  <2>5. record' \in [Messages -> [state : {"none", "started", "binding-failed",
                                         "followup-attached"} \cup Phases,
                                run : Messages \cup {NoRun}]]
    BY <2>4 DEF Record
  <2>6. followup' \in [Messages -> [state : {"none", "open", "consumed", "unconsumed"},
                                run : Messages \cup {NoRun}]]
    BY <2>2, <2>4
  <2>7. completion' \in [Messages -> [status : {"none", "waiting", "due", "retry", "done", "lost"},
                                    phase : Phases \cup {"none"}]]
    BY <2>4
  <2> QED BY <2>3, <2>4, <2>5, <2>6, <2>7
<1>21. CASE Restart
  BY <1>21 DEF Restart
<1> QED
    BY <1>1, <1>2, <1>3, <1>4, <1>5, <1>6, <1>7, <1>8, <1>9, <1>10, <1>11, <1>12, <1>13, <1>14,
      <1>15, <1>16, <1>17, <1>18, <1>19, <1>20, <1>21 DEF Next, Enter, Inside, Runner, Callback

\* What a handler has read inside the lock nobody changes before it leaves.
LEMMA CallsNext == ASSUME IInv, Next PROVE \A c \in Calls : CallSound(c)'
<1> USE AdmissionAssumption DEF storage, bounds, IInv, TypeOK, Idle, NoRecord, NoFollowup, Active,
    Phases, CallSound, StartSound, Locked, Retryable, BindingStatus, Record
<1>1. CASE \E c \in Calls : \E m \in Messages : Arrive(c, m)
  BY <1>1 DEF Arrive
<1>2. CASE \E c \in Calls : RefuseWhilePaused(c)
  BY <1>2 DEF RefuseWhilePaused, AtLock, Answer
<1>3. CASE \E c \in Calls : EnterActive(c)
  BY <1>3 DEF EnterActive, AtLock
<1>4. CASE \E c \in Calls : IgnoreDuplicate(c)
  BY <1>4 DEF IgnoreDuplicate, AtLock, Answer
<1>5. CASE \E c \in Calls : EnterFree(c)
  BY <1>5 DEF EnterFree, AtLock
<1>6. CASE \E c \in Calls : AttachNothing(c)
  BY <1>6 DEF AttachNothing, Leave, Answer
<1>7. CASE \E c \in Calls : Attach(c)
  BY <1>7 DEF Attach, Leave, Answer, Attached, OpenFollowup, Record
<1>8. CASE \E c \in Calls : AttachFailed(c)
  BY <1>8 DEF AttachFailed, Leave, Answer, Attached, OpenFollowup, Record, StorageFails
<1>9. CASE \E c \in Calls : WriteStarted(c)
  <2>1. PICK c \in Calls : WriteStarted(c)
    BY <1>9
  <2> DEFINE m == call[c].message
  <2>2. m \in Messages /\ record[m].state \in {"none", "binding-failed"} /\ holder = c
    BY <2>1 DEF WriteStarted
  <2>3. starts[m] = 0
    BY <2>2
  <2>4. record'[m].state = "started" /\ starts' = starts /\ holder' = holder
        /\ call' = [call EXCEPT ![c].step = "binding"]
    BY <2>1, <2>2 DEF WriteStarted, Record
  <2>5. CallSound(c)'
    BY <2>2, <2>3, <2>4
  <2>6. ASSUME NEW d \in Calls, d # c PROVE CallSound(d)'
    <3>1. call'[d] = call[d] /\ call[d].step \notin Locked
      BY <2>2, <2>4, <2>6
    <3> QED BY <3>1
  <2> QED BY <2>5, <2>6
<1>10. CASE \E c \in Calls : StartRun(c)
  BY <1>10 DEF StartRun, Leave, Answer
<1>11. CASE \E c \in Calls : StartFailed(c)
  BY <1>11 DEF StartFailed, Leave, Answer, Record, StorageFails
<1>12. CASE \E r \in Messages : TakeFollowups(r)
  BY <1>12 DEF TakeFollowups, OpenOf, OpenFollowup
<1>13. CASE \E r \in Messages : Commit(r, "completed") \/ Commit(r, "stopped")
  BY <1>13 DEF Commit, Returns
<1>14. CASE \E r \in Messages : CommitFails(r)
  BY <1>14 DEF CommitFails
<1>15. CASE \E r \in Messages : MarkFailed(r)
  BY <1>15 DEF MarkFailed, Returns, StorageFails
<1>16. CASE \E r \in Messages : RunEnds(r)
  BY <1>16 DEF RunEnds, Returns
<1>17. CASE \E r \in Messages : HumanDecides(r)
  BY <1>17 DEF HumanDecides
<1>18. CASE \E r \in Messages : Complete(r)
  BY <1>18 DEF Complete, AtCompletion, CompletionDone, Closed, StorageFails, Record
<1>19. CASE \E r \in Messages : CompleteFailed(r)
  BY <1>19 DEF CompleteFailed, AtCompletion, Closed, StorageFails, Record
<1>20. CASE \E r \in Messages : CompleteAsFailed(r)
  BY <1>20 DEF CompleteAsFailed, AtCompletion, CompletionDone, Closed, StorageFails, Record
<1>21. CASE Restart
  BY <1>21 DEF Restart
<1> QED
    BY <1>1, <1>2, <1>3, <1>4, <1>5, <1>6, <1>7, <1>8, <1>9, <1>10, <1>11, <1>12, <1>13, <1>14,
      <1>15, <1>16, <1>17, <1>18, <1>19, <1>20, <1>21 DEF Next, Enter, Inside, Runner, Callback

\* A message starts once, and its record says so.
LEMMA StartsNext == ASSUME IInv, Next PROVE \A m \in Messages : StartSound(m)'
<1> USE AdmissionAssumption DEF storage, bounds, IInv, TypeOK, Idle, NoRecord, NoFollowup, Active,
    Phases, CallSound, StartSound, Locked, Retryable, BindingStatus, Record
<1>1. CASE \E c \in Calls : \E m \in Messages : Arrive(c, m)
  BY <1>1 DEF Arrive
<1>2. CASE \E c \in Calls : RefuseWhilePaused(c)
  BY <1>2 DEF RefuseWhilePaused, AtLock, Answer
<1>3. CASE \E c \in Calls : EnterActive(c)
  BY <1>3 DEF EnterActive, AtLock
<1>4. CASE \E c \in Calls : IgnoreDuplicate(c)
  BY <1>4 DEF IgnoreDuplicate, AtLock, Answer
<1>5. CASE \E c \in Calls : EnterFree(c)
  BY <1>5 DEF EnterFree, AtLock
<1>6. CASE \E c \in Calls : AttachNothing(c)
  BY <1>6 DEF AttachNothing, Leave, Answer
<1>7. CASE \E c \in Calls : Attach(c)
  BY <1>7 DEF Attach, Leave, Answer, Attached, OpenFollowup, Record
<1>8. CASE \E c \in Calls : AttachFailed(c)
  BY <1>8 DEF AttachFailed, Leave, Answer, Attached, OpenFollowup, Record, StorageFails
<1>9. CASE \E c \in Calls : WriteStarted(c)
  BY <1>9 DEF WriteStarted, Record
<1>10. CASE \E c \in Calls : StartRun(c)
  BY <1>10 DEF StartRun, Leave, Answer
<1>11. CASE \E c \in Calls : StartFailed(c)
  BY <1>11 DEF StartFailed, Leave, Answer, Record, StorageFails
<1>12. CASE \E r \in Messages : TakeFollowups(r)
  BY <1>12 DEF TakeFollowups, OpenOf, OpenFollowup
<1>13. CASE \E r \in Messages : Commit(r, "completed") \/ Commit(r, "stopped")
  BY <1>13 DEF Commit, Returns
<1>14. CASE \E r \in Messages : CommitFails(r)
  BY <1>14 DEF CommitFails
<1>15. CASE \E r \in Messages : MarkFailed(r)
  BY <1>15 DEF MarkFailed, Returns, StorageFails
<1>16. CASE \E r \in Messages : RunEnds(r)
  BY <1>16 DEF RunEnds, Returns
<1>17. CASE \E r \in Messages : HumanDecides(r)
  BY <1>17 DEF HumanDecides
<1>18. CASE \E r \in Messages : Complete(r)
  <2>1. PICK r \in Messages : Complete(r)
    BY <1>18
  <2>2. Closed(r) \in [Messages -> [state : {"none", "open", "consumed", "unconsumed"},
                                  run : Messages \cup {NoRun}]]
    BY ClosedKeeps
  <2>3. \A m \in Messages : \/ Closed(r)[m] = followup[m]
                            \/ followup[m] = OpenFollowup(r) /\ Closed(r)[m].state = "unconsumed"
    BY ClosedKeeps
  <2>4. completion[r].phase \in Phases
    BY <2>1 DEF Complete, AtCompletion
    <2> QED BY <2>1, <2>2, <2>3, <2>4 DEF Complete, AtCompletion, CompletionDone, StorageFails,
      Record, OpenFollowup
<1>19. CASE \E r \in Messages : CompleteFailed(r)
  <2>1. PICK r \in Messages : CompleteFailed(r)
    BY <1>19
  <2>2. Closed(r) \in [Messages -> [state : {"none", "open", "consumed", "unconsumed"},
                                  run : Messages \cup {NoRun}]]
    BY ClosedKeeps
  <2>3. \A m \in Messages : \/ Closed(r)[m] = followup[m]
                            \/ followup[m] = OpenFollowup(r) /\ Closed(r)[m].state = "unconsumed"
    BY ClosedKeeps
  <2>4. completion[r].phase \in Phases
    BY <2>1 DEF CompleteFailed, AtCompletion
    <2> QED BY <2>1, <2>2, <2>3, <2>4 DEF CompleteFailed, AtCompletion, CompletionDone,
      StorageFails, Record, OpenFollowup
<1>20. CASE \E r \in Messages : CompleteAsFailed(r)
  <2>1. PICK r \in Messages : CompleteAsFailed(r)
    BY <1>20
  <2>2. Closed(r) \in [Messages -> [state : {"none", "open", "consumed", "unconsumed"},
                                  run : Messages \cup {NoRun}]]
    BY ClosedKeeps
  <2>3. \A m \in Messages : \/ Closed(r)[m] = followup[m]
                            \/ followup[m] = OpenFollowup(r) /\ Closed(r)[m].state = "unconsumed"
    BY ClosedKeeps
  <2>4. completion[r].phase \in Phases
    BY <2>1 DEF CompleteAsFailed, AtCompletion
    <2> QED BY <2>1, <2>2, <2>3, <2>4 DEF CompleteAsFailed, AtCompletion, CompletionDone,
      StorageFails, Record, OpenFollowup
<1>21. CASE Restart
  BY <1>21 DEF Restart
<1> QED
    BY <1>1, <1>2, <1>3, <1>4, <1>5, <1>6, <1>7, <1>8, <1>9, <1>10, <1>11, <1>12, <1>13, <1>14,
      <1>15, <1>16, <1>17, <1>18, <1>19, <1>20, <1>21 DEF Next, Enter, Inside, Runner, Callback

\* Only a message that starts no run becomes a follow-up.
LEMMA FollowupsNext == ASSUME IInv, Next PROVE \A m \in Messages : FollowupSound(m)'
<1> USE AdmissionAssumption DEF storage, bounds, IInv, TypeOK, Idle, NoRecord, NoFollowup, Active,
    Phases, CallSound, StartSound, FollowupSound, Locked, Retryable, Record
<1>1. CASE \E c \in Calls : \E m \in Messages : Arrive(c, m)
  BY <1>1 DEF Arrive
<1>2. CASE \E c \in Calls : RefuseWhilePaused(c)
  BY <1>2 DEF RefuseWhilePaused, AtLock, Answer
<1>3. CASE \E c \in Calls : EnterActive(c)
  BY <1>3 DEF EnterActive, AtLock
<1>4. CASE \E c \in Calls : IgnoreDuplicate(c)
  BY <1>4 DEF IgnoreDuplicate, AtLock, Answer
<1>5. CASE \E c \in Calls : EnterFree(c)
  BY <1>5 DEF EnterFree, AtLock
<1>6. CASE \E c \in Calls : AttachNothing(c)
  BY <1>6 DEF AttachNothing, Leave, Answer
<1>7. CASE \E c \in Calls : Attach(c)
  BY <1>7 DEF Attach, Leave, Answer, Attached, OpenFollowup, Record
<1>8. CASE \E c \in Calls : AttachFailed(c)
  BY <1>8 DEF AttachFailed, Leave, Answer, Attached, OpenFollowup, Record, StorageFails
<1>9. CASE \E c \in Calls : WriteStarted(c)
  <2>1. PICK c \in Calls : WriteStarted(c)
    BY <1>9
  <2> DEFINE m == call[c].message
  <2>2. m \in Messages /\ record[m].state # "followup-attached"
    BY <2>1 DEF WriteStarted
  <2>3. /\ \A n \in Messages : n # m => record'[n] = record[n]
        /\ UNCHANGED <<followup, faults>>
    BY <2>1, <2>2 DEF WriteStarted
  <2> QED BY <2>2, <2>3
<1>10. CASE \E c \in Calls : StartRun(c)
  BY <1>10 DEF StartRun, Leave, Answer
<1>11. CASE \E c \in Calls : StartFailed(c)
  BY <1>11 DEF StartFailed, Leave, Answer, Record, StorageFails
<1>12. CASE \E r \in Messages : TakeFollowups(r)
  BY <1>12 DEF TakeFollowups, OpenOf, OpenFollowup
<1>13. CASE \E r \in Messages : Commit(r, "completed") \/ Commit(r, "stopped")
  BY <1>13 DEF Commit, Returns
<1>14. CASE \E r \in Messages : CommitFails(r)
  BY <1>14 DEF CommitFails
<1>15. CASE \E r \in Messages : MarkFailed(r)
  BY <1>15 DEF MarkFailed, Returns, StorageFails
<1>16. CASE \E r \in Messages : RunEnds(r)
  BY <1>16 DEF RunEnds, Returns
<1>17. CASE \E r \in Messages : HumanDecides(r)
  BY <1>17 DEF HumanDecides
<1>18. CASE \E r \in Messages : Complete(r)
  <2>1. PICK r \in Messages : Complete(r)
    BY <1>18
  <2> SUFFICES ASSUME NEW m \in Messages, faults' = 0, followup'[m] # NoFollowup
               PROVE  record'[m].state = "followup-attached"
    OBVIOUS
  <2>2. faults = 0 /\ followup' = Closed(r)
    BY <2>1 DEF Complete, StorageFails
  <2>3. followup[m] # NoFollowup
    BY <2>2, ClosedKeeps DEF OpenFollowup
  <2>4. record[m].state = "followup-attached" /\ m # r
    BY <2>1, <2>2, <2>3 DEF Complete, AtCompletion
  <2> QED BY <2>1, <2>4 DEF Complete
<1>19. CASE \E r \in Messages : CompleteFailed(r)
  <2>1. PICK r \in Messages : CompleteFailed(r)
    BY <1>19
  <2>2. Closed(r) \in [Messages -> [state : {"none", "open", "consumed", "unconsumed"},
                                  run : Messages \cup {NoRun}]]
    BY ClosedKeeps
  <2>3. \A m \in Messages : \/ Closed(r)[m] = followup[m]
                            \/ followup[m] = OpenFollowup(r) /\ Closed(r)[m].state = "unconsumed"
    BY ClosedKeeps
  <2>4. completion[r].phase \in Phases
    BY <2>1 DEF CompleteFailed, AtCompletion
    <2> QED BY <2>1, <2>2, <2>3, <2>4 DEF CompleteFailed, AtCompletion, CompletionDone,
      StorageFails, Record, OpenFollowup
<1>20. CASE \E r \in Messages : CompleteAsFailed(r)
  <2>1. PICK r \in Messages : CompleteAsFailed(r)
    BY <1>20
  <2>2. Closed(r) \in [Messages -> [state : {"none", "open", "consumed", "unconsumed"},
                                  run : Messages \cup {NoRun}]]
    BY ClosedKeeps
  <2>3. \A m \in Messages : \/ Closed(r)[m] = followup[m]
                            \/ followup[m] = OpenFollowup(r) /\ Closed(r)[m].state = "unconsumed"
    BY ClosedKeeps
  <2>4. completion[r].phase \in Phases
    BY <2>1 DEF CompleteAsFailed, AtCompletion
    <2> QED BY <2>1, <2>2, <2>3, <2>4 DEF CompleteAsFailed, AtCompletion, CompletionDone,
      StorageFails, Record, OpenFollowup
<1>21. CASE Restart
  BY <1>21 DEF Restart
<1> QED
    BY <1>1, <1>2, <1>3, <1>4, <1>5, <1>6, <1>7, <1>8, <1>9, <1>10, <1>11, <1>12, <1>13, <1>14,
      <1>15, <1>16, <1>17, <1>18, <1>19, <1>20, <1>21 DEF Next, Enter, Inside, Runner, Callback

\* The owner of the session is attended to while it is marked running.
LEMMA AttendNext == ASSUME IInv, Next PROVE AttendSound'
<1> USE AdmissionAssumption DEF storage, bounds, IInv, TypeOK, Idle, NoRecord, NoFollowup, Active,
    Phases, CallSound, AttendSound, StartSound, Locked, BindingStatus, Attended
<1>1. CASE \E c \in Calls : \E m \in Messages : Arrive(c, m)
  BY <1>1 DEF Arrive
<1>2. CASE \E c \in Calls : RefuseWhilePaused(c)
  BY <1>2 DEF RefuseWhilePaused, AtLock, Answer
<1>3. CASE \E c \in Calls : EnterActive(c)
  BY <1>3 DEF EnterActive, AtLock
<1>4. CASE \E c \in Calls : IgnoreDuplicate(c)
  BY <1>4 DEF IgnoreDuplicate, AtLock, Answer
<1>5. CASE \E c \in Calls : EnterFree(c)
  BY <1>5 DEF EnterFree, AtLock
<1>6. CASE \E c \in Calls : AttachNothing(c)
  BY <1>6 DEF AttachNothing, Leave, Answer
<1>7. CASE \E c \in Calls : Attach(c)
  BY <1>7 DEF Attach, Leave, Answer, Attached, OpenFollowup, Record
<1>8. CASE \E c \in Calls : AttachFailed(c)
  BY <1>8 DEF AttachFailed, Leave, Answer, Attached, OpenFollowup, Record, StorageFails
<1>9. CASE \E c \in Calls : WriteStarted(c)
  BY <1>9 DEF WriteStarted, Record
<1>10. CASE \E c \in Calls : StartRun(c)
  BY <1>10 DEF StartRun, Leave, Answer
<1>11. CASE \E c \in Calls : StartFailed(c)
  BY <1>11 DEF StartFailed, Leave, Answer, Record, StorageFails
<1>12. CASE \E r \in Messages : TakeFollowups(r)
  BY <1>12 DEF TakeFollowups, OpenOf, OpenFollowup
<1>13. CASE \E r \in Messages : Commit(r, "completed") \/ Commit(r, "stopped")
  BY <1>13 DEF Commit, Returns
<1>14. CASE \E r \in Messages : CommitFails(r)
  BY <1>14 DEF CommitFails
<1>15. CASE \E r \in Messages : MarkFailed(r)
  BY <1>15 DEF MarkFailed, Returns, StorageFails
<1>16. CASE \E r \in Messages : RunEnds(r)
  BY <1>16 DEF RunEnds, Returns
<1>17. CASE \E r \in Messages : HumanDecides(r)
  BY <1>17 DEF HumanDecides
<1>18. CASE \E r \in Messages : Complete(r)
  <2>1. PICK r \in Messages : Complete(r)
    BY <1>18
  <2>2. Closed(r) \in [Messages -> [state : {"none", "open", "consumed", "unconsumed"},
                                  run : Messages \cup {NoRun}]]
    BY ClosedKeeps
  <2>3. \A m \in Messages : \/ Closed(r)[m] = followup[m]
                            \/ followup[m] = OpenFollowup(r) /\ Closed(r)[m].state = "unconsumed"
    BY ClosedKeeps
  <2>4. completion[r].phase \in Phases
    BY <2>1 DEF Complete, AtCompletion
    <2> QED BY <2>1, <2>2, <2>3, <2>4 DEF Complete, AtCompletion, CompletionDone, StorageFails,
      Record, OpenFollowup
<1>19. CASE \E r \in Messages : CompleteFailed(r)
  <2>1. PICK r \in Messages : CompleteFailed(r)
    BY <1>19
  <2>2. Closed(r) \in [Messages -> [state : {"none", "open", "consumed", "unconsumed"},
                                  run : Messages \cup {NoRun}]]
    BY ClosedKeeps
  <2>3. \A m \in Messages : \/ Closed(r)[m] = followup[m]
                            \/ followup[m] = OpenFollowup(r) /\ Closed(r)[m].state = "unconsumed"
    BY ClosedKeeps
  <2>4. completion[r].phase \in Phases
    BY <2>1 DEF CompleteFailed, AtCompletion
    <2> QED BY <2>1, <2>2, <2>3, <2>4 DEF CompleteFailed, AtCompletion, CompletionDone,
      StorageFails, Record, OpenFollowup
<1>20. CASE \E r \in Messages : CompleteAsFailed(r)
  <2>1. PICK r \in Messages : CompleteAsFailed(r)
    BY <1>20
  <2>2. Closed(r) \in [Messages -> [state : {"none", "open", "consumed", "unconsumed"},
                                  run : Messages \cup {NoRun}]]
    BY ClosedKeeps
  <2>3. \A m \in Messages : \/ Closed(r)[m] = followup[m]
                            \/ followup[m] = OpenFollowup(r) /\ Closed(r)[m].state = "unconsumed"
    BY ClosedKeeps
  <2>4. completion[r].phase \in Phases
    BY <2>1 DEF CompleteAsFailed, AtCompletion
    <2> QED BY <2>1, <2>2, <2>3, <2>4 DEF CompleteAsFailed, AtCompletion, CompletionDone,
      StorageFails, Record, OpenFollowup
<1>21. CASE Restart
  BY <1>21 DEF Restart
<1> QED
    BY <1>1, <1>2, <1>3, <1>4, <1>5, <1>6, <1>7, <1>8, <1>9, <1>10, <1>11, <1>12, <1>13, <1>14,
      <1>15, <1>16, <1>17, <1>18, <1>19, <1>20, <1>21 DEF Next, Enter, Inside, Runner, Callback

\* A run keeps the session until it ends, and a callback writes the binding of its own run.
LEMMA TurnNext == ASSUME IInv, Next PROVE \A m \in Messages : TurnSound(m)'
<1> USE AdmissionAssumption DEF storage, bounds, IInv, TypeOK, Idle, NoRecord, NoFollowup, Active,
    Phases, CallSound, StartSound, TurnSound, FreeSound, Locked, BindingStatus, ToCome
<1>1. CASE \E c \in Calls : \E m \in Messages : Arrive(c, m)
  BY <1>1 DEF Arrive
<1>2. CASE \E c \in Calls : RefuseWhilePaused(c)
  BY <1>2 DEF RefuseWhilePaused, AtLock, Answer
<1>3. CASE \E c \in Calls : EnterActive(c)
  BY <1>3 DEF EnterActive, AtLock
<1>4. CASE \E c \in Calls : IgnoreDuplicate(c)
  BY <1>4 DEF IgnoreDuplicate, AtLock, Answer
<1>5. CASE \E c \in Calls : EnterFree(c)
  BY <1>5 DEF EnterFree, AtLock
<1>6. CASE \E c \in Calls : AttachNothing(c)
  BY <1>6 DEF AttachNothing, Leave, Answer
<1>7. CASE \E c \in Calls : Attach(c)
  BY <1>7 DEF Attach, Leave, Answer, Attached, OpenFollowup, Record
<1>8. CASE \E c \in Calls : AttachFailed(c)
  BY <1>8 DEF AttachFailed, Leave, Answer, Attached, OpenFollowup, Record, StorageFails
<1>9. CASE \E c \in Calls : WriteStarted(c)
  BY <1>9 DEF WriteStarted, Record
<1>10. CASE \E c \in Calls : StartRun(c)
  <2>1. PICK c \in Calls : StartRun(c)
    BY <1>10
  <2> DEFINE m == call[c].message
  <2> SUFFICES ASSUME NEW r \in Messages, faults = 0, ~late' PROVE TurnSound(r)'
    BY <2>1 DEF StartRun
  <2>2. /\ m \in Messages /\ ~late /\ BindingStatus = "free"
        /\ \A q \in Messages \ {m} : completion[q].status \notin {"due", "retry"}
    BY <2>1 DEF StartRun
  <2>3. /\ binding' = [run |-> m, phase |-> "running"]
        /\ run' = [run EXCEPT ![m] = "live"]
        /\ completion' = [completion EXCEPT ![m] = [status |-> "waiting", phase |-> "none"]]
    BY <2>1 DEF StartRun
  <2>4. CASE r = m
    BY <2>2, <2>3, <2>4
  <2>5. CASE r # m
    <3>1. run[r] \notin Active \cup {"awaiting-human"}
      BY <2>2
    <3> QED BY <2>2, <2>3, <2>5, <3>1
  <2> QED BY <2>4, <2>5
<1>11. CASE \E c \in Calls : StartFailed(c)
  BY <1>11 DEF StartFailed, Leave, Answer, Record, StorageFails
<1>12. CASE \E r \in Messages : TakeFollowups(r)
  BY <1>12 DEF TakeFollowups, OpenOf, OpenFollowup
<1>13. CASE \E r \in Messages : Commit(r, "completed") \/ Commit(r, "stopped")
  <2>1. PICK r \in Messages : Commit(r, "completed") \/ Commit(r, "stopped")
    BY <1>13
  <2>2. PICK phase \in {"completed", "stopped"} : Commit(r, phase)
    BY <2>1
  <2> QED BY <2>1, <2>2 DEF Commit, Returns
<1>14. CASE \E r \in Messages : CommitFails(r)
  BY <1>14 DEF CommitFails
<1>15. CASE \E r \in Messages : MarkFailed(r)
  BY <1>15 DEF MarkFailed, Returns, StorageFails
<1>16. CASE \E r \in Messages : RunEnds(r)
  BY <1>16 DEF RunEnds, Returns
<1>17. CASE \E r \in Messages : HumanDecides(r)
  BY <1>17 DEF HumanDecides
<1>18. CASE \E r \in Messages : Complete(r)
  <2>1. PICK r \in Messages : Complete(r)
    BY <1>18
  <2>2. Closed(r) \in [Messages -> [state : {"none", "open", "consumed", "unconsumed"},
                                  run : Messages \cup {NoRun}]]
    BY ClosedKeeps
  <2>3. \A m \in Messages : \/ Closed(r)[m] = followup[m]
                            \/ followup[m] = OpenFollowup(r) /\ Closed(r)[m].state = "unconsumed"
    BY ClosedKeeps
  <2>4. completion[r].phase \in Phases
    BY <2>1 DEF Complete, AtCompletion
    <2> QED BY <2>1, <2>2, <2>3, <2>4 DEF Complete, AtCompletion, CompletionDone, StorageFails,
      Record, OpenFollowup
<1>19. CASE \E r \in Messages : CompleteFailed(r)
  <2>1. PICK r \in Messages : CompleteFailed(r)
    BY <1>19
  <2>2. Closed(r) \in [Messages -> [state : {"none", "open", "consumed", "unconsumed"},
                                  run : Messages \cup {NoRun}]]
    BY ClosedKeeps
  <2>3. \A m \in Messages : \/ Closed(r)[m] = followup[m]
                            \/ followup[m] = OpenFollowup(r) /\ Closed(r)[m].state = "unconsumed"
    BY ClosedKeeps
  <2>4. completion[r].phase \in Phases
    BY <2>1 DEF CompleteFailed, AtCompletion
    <2> QED BY <2>1, <2>2, <2>3, <2>4 DEF CompleteFailed, AtCompletion, CompletionDone,
      StorageFails, Record, OpenFollowup
<1>20. CASE \E r \in Messages : CompleteAsFailed(r)
  <2>1. PICK r \in Messages : CompleteAsFailed(r)
    BY <1>20
  <2>2. Closed(r) \in [Messages -> [state : {"none", "open", "consumed", "unconsumed"},
                                  run : Messages \cup {NoRun}]]
    BY ClosedKeeps
  <2>3. \A m \in Messages : \/ Closed(r)[m] = followup[m]
                            \/ followup[m] = OpenFollowup(r) /\ Closed(r)[m].state = "unconsumed"
    BY ClosedKeeps
  <2>4. completion[r].phase \in Phases
    BY <2>1 DEF CompleteAsFailed, AtCompletion
    <2> QED BY <2>1, <2>2, <2>3, <2>4 DEF CompleteAsFailed, AtCompletion, CompletionDone,
      StorageFails, Record, OpenFollowup
<1>21. CASE Restart
  BY <1>21 DEF Restart
<1> QED
    BY <1>1, <1>2, <1>3, <1>4, <1>5, <1>6, <1>7, <1>8, <1>9, <1>10, <1>11, <1>12, <1>13, <1>14,
      <1>15, <1>16, <1>17, <1>18, <1>19, <1>20, <1>21 DEF Next, Enter, Inside, Runner, Callback

\* A session that was free when a handler looked is free when it starts its run.
LEMMA FreeNext == ASSUME IInv, Next PROVE FreeSound'
<1> USE AdmissionAssumption DEF storage, bounds, IInv, TypeOK, Idle, NoRecord, NoFollowup, Active,
    Phases, CallSound, StartSound, TurnSound, FreeSound, Locked, BindingStatus, ToCome
<1>1. CASE \E c \in Calls : \E m \in Messages : Arrive(c, m)
  BY <1>1 DEF Arrive
<1>2. CASE \E c \in Calls : RefuseWhilePaused(c)
  BY <1>2 DEF RefuseWhilePaused, AtLock, Answer
<1>3. CASE \E c \in Calls : EnterActive(c)
  BY <1>3 DEF EnterActive, AtLock
<1>4. CASE \E c \in Calls : IgnoreDuplicate(c)
  BY <1>4 DEF IgnoreDuplicate, AtLock, Answer
<1>5. CASE \E c \in Calls : EnterFree(c)
  BY <1>5 DEF EnterFree, AtLock
<1>6. CASE \E c \in Calls : AttachNothing(c)
  BY <1>6 DEF AttachNothing, Leave, Answer
<1>7. CASE \E c \in Calls : Attach(c)
  BY <1>7 DEF Attach, Leave, Answer, Attached, OpenFollowup, Record
<1>8. CASE \E c \in Calls : AttachFailed(c)
  BY <1>8 DEF AttachFailed, Leave, Answer, Attached, OpenFollowup, Record, StorageFails
<1>9. CASE \E c \in Calls : WriteStarted(c)
  BY <1>9 DEF WriteStarted, Record
<1>10. CASE \E c \in Calls : StartRun(c)
  BY <1>10 DEF StartRun, Leave, Answer
<1>11. CASE \E c \in Calls : StartFailed(c)
  BY <1>11 DEF StartFailed, Leave, Answer, Record, StorageFails
<1>12. CASE \E r \in Messages : TakeFollowups(r)
  BY <1>12 DEF TakeFollowups, OpenOf, OpenFollowup
<1>13. CASE \E r \in Messages : Commit(r, "completed") \/ Commit(r, "stopped")
  BY <1>13 DEF Commit, Returns
<1>14. CASE \E r \in Messages : CommitFails(r)
  BY <1>14 DEF CommitFails
<1>15. CASE \E r \in Messages : MarkFailed(r)
  BY <1>15 DEF MarkFailed, Returns, StorageFails
<1>16. CASE \E r \in Messages : RunEnds(r)
  BY <1>16 DEF RunEnds, Returns
<1>17. CASE \E r \in Messages : HumanDecides(r)
  BY <1>17 DEF HumanDecides
<1>18. CASE \E r \in Messages : Complete(r)
  BY <1>18 DEF Complete, AtCompletion, CompletionDone, Closed, StorageFails, Record
<1>19. CASE \E r \in Messages : CompleteFailed(r)
  BY <1>19 DEF CompleteFailed, AtCompletion, Closed, StorageFails, Record
<1>20. CASE \E r \in Messages : CompleteAsFailed(r)
  BY <1>20 DEF CompleteAsFailed, AtCompletion, CompletionDone, Closed, StorageFails, Record
<1>21. CASE Restart
  BY <1>21 DEF Restart
<1> QED
    BY <1>1, <1>2, <1>3, <1>4, <1>5, <1>6, <1>7, <1>8, <1>9, <1>10, <1>11, <1>12, <1>13, <1>14,
      <1>15, <1>16, <1>17, <1>18, <1>19, <1>20, <1>21 DEF Next, Enter, Inside, Runner, Callback

\* A record never says started of a run that will not start.
LEMMA StartedNext == ASSUME IInv, Next PROVE StartedIsTrue'
<1> USE AdmissionAssumption DEF storage, bounds, IInv, TypeOK, Idle, NoRecord, NoFollowup, Active,
    Phases, CallSound, StartedIsTrue, Locked, Record, StartSound
<1>1. CASE \E c \in Calls : \E m \in Messages : Arrive(c, m)
  BY <1>1 DEF Arrive
<1>2. CASE \E c \in Calls : RefuseWhilePaused(c)
  BY <1>2 DEF RefuseWhilePaused, AtLock, Answer
<1>3. CASE \E c \in Calls : EnterActive(c)
  BY <1>3 DEF EnterActive, AtLock
<1>4. CASE \E c \in Calls : IgnoreDuplicate(c)
  BY <1>4 DEF IgnoreDuplicate, AtLock, Answer
<1>5. CASE \E c \in Calls : EnterFree(c)
  BY <1>5 DEF EnterFree, AtLock
<1>6. CASE \E c \in Calls : AttachNothing(c)
  BY <1>6 DEF AttachNothing, Leave, Answer
<1>7. CASE \E c \in Calls : Attach(c)
  BY <1>7 DEF Attach, Leave, Answer, Attached, OpenFollowup, Record
<1>8. CASE \E c \in Calls : AttachFailed(c)
  BY <1>8 DEF AttachFailed, Leave, Answer, Attached, OpenFollowup, Record, StorageFails
<1>9. CASE \E c \in Calls : WriteStarted(c)
  BY <1>9 DEF WriteStarted, Record
<1>10. CASE \E c \in Calls : StartRun(c)
  BY <1>10 DEF StartRun, Leave, Answer
<1>11. CASE \E c \in Calls : StartFailed(c)
  BY <1>11 DEF StartFailed, Leave, Answer, Record, StorageFails
<1>12. CASE \E r \in Messages : TakeFollowups(r)
  BY <1>12 DEF TakeFollowups, OpenOf, OpenFollowup
<1>13. CASE \E r \in Messages : Commit(r, "completed") \/ Commit(r, "stopped")
  BY <1>13 DEF Commit, Returns
<1>14. CASE \E r \in Messages : CommitFails(r)
  BY <1>14 DEF CommitFails
<1>15. CASE \E r \in Messages : MarkFailed(r)
  BY <1>15 DEF MarkFailed, Returns, StorageFails
<1>16. CASE \E r \in Messages : RunEnds(r)
  BY <1>16 DEF RunEnds, Returns
<1>17. CASE \E r \in Messages : HumanDecides(r)
  BY <1>17 DEF HumanDecides
<1>18. CASE \E r \in Messages : Complete(r)
  BY <1>18 DEF Complete, AtCompletion, CompletionDone, Closed, StorageFails, Record
<1>19. CASE \E r \in Messages : CompleteFailed(r)
  BY <1>19 DEF CompleteFailed, AtCompletion, Closed, StorageFails, Record
<1>20. CASE \E r \in Messages : CompleteAsFailed(r)
  BY <1>20 DEF CompleteAsFailed, AtCompletion, CompletionDone, Closed, StorageFails, Record
<1>21. CASE Restart
  BY <1>21 DEF Restart
<1> QED
    BY <1>1, <1>2, <1>3, <1>4, <1>5, <1>6, <1>7, <1>8, <1>9, <1>10, <1>11, <1>12, <1>13, <1>14,
      <1>15, <1>16, <1>17, <1>18, <1>19, <1>20, <1>21 DEF Next, Enter, Inside, Runner, Callback

\* An open follow-up is of a run whose callback is still to come.
LEMMA OpenNext == ASSUME IInv, Next PROVE OpenFollowupIsAttended'
<1> USE AdmissionAssumption DEF storage, bounds, IInv, TypeOK, Idle, NoRecord, NoFollowup, Active,
    Phases, CallSound, StartSound, AttendSound, OpenFollowupIsAttended, Locked, OpenFollowup,
    Record, Attended
<1>1. CASE \E c \in Calls : \E m \in Messages : Arrive(c, m)
  BY <1>1 DEF Arrive
<1>2. CASE \E c \in Calls : RefuseWhilePaused(c)
  BY <1>2 DEF RefuseWhilePaused, AtLock, Answer
<1>3. CASE \E c \in Calls : EnterActive(c)
  BY <1>3 DEF EnterActive, AtLock
<1>4. CASE \E c \in Calls : IgnoreDuplicate(c)
  BY <1>4 DEF IgnoreDuplicate, AtLock, Answer
<1>5. CASE \E c \in Calls : EnterFree(c)
  BY <1>5 DEF EnterFree, AtLock
<1>6. CASE \E c \in Calls : AttachNothing(c)
  BY <1>6 DEF AttachNothing, Leave, Answer
<1>7. CASE \E c \in Calls : Attach(c)
  BY <1>7 DEF Attach, Leave, Answer, Attached, OpenFollowup, Record
<1>8. CASE \E c \in Calls : AttachFailed(c)
  BY <1>8 DEF AttachFailed, Leave, Answer, Attached, OpenFollowup, Record, StorageFails
<1>9. CASE \E c \in Calls : WriteStarted(c)
  BY <1>9 DEF WriteStarted, Record
<1>10. CASE \E c \in Calls : StartRun(c)
  <2>1. PICK c \in Calls : StartRun(c)
    BY <1>10
  <2>2. \A q \in Messages : Attended(q) => Attended(q)'
    BY <2>1 DEF StartRun
  <2> QED BY <2>1, <2>2 DEF StartRun
<1>11. CASE \E c \in Calls : StartFailed(c)
  BY <1>11 DEF StartFailed, Leave, Answer, Record, StorageFails
<1>12. CASE \E r \in Messages : TakeFollowups(r)
  BY <1>12 DEF TakeFollowups, OpenOf, OpenFollowup
<1>13. CASE \E r \in Messages : Commit(r, "completed") \/ Commit(r, "stopped")
  <2>1. PICK r \in Messages : Commit(r, "completed") \/ Commit(r, "stopped")
    BY <1>13
  <2>2. PICK phase \in {"completed", "stopped"} : Commit(r, phase)
    BY <2>1
  <2>3. \A q \in Messages : Attended(q) => Attended(q)'
    BY <2>2 DEF Commit, Returns
  <2> QED BY <2>2, <2>3 DEF Commit
<1>14. CASE \E r \in Messages : CommitFails(r)
  BY <1>14 DEF CommitFails
<1>15. CASE \E r \in Messages : MarkFailed(r)
  <2>1. PICK r \in Messages : MarkFailed(r)
    BY <1>15
  <2>2. \A q \in Messages : Attended(q) => Attended(q)'
    BY <2>1 DEF MarkFailed, Returns
  <2> QED BY <2>1, <2>2 DEF MarkFailed, StorageFails
<1>16. CASE \E r \in Messages : RunEnds(r)
  BY <1>16 DEF RunEnds, Returns
<1>17. CASE \E r \in Messages : HumanDecides(r)
  BY <1>17 DEF HumanDecides
<1>18. CASE \E r \in Messages : Complete(r)
  <2>1. PICK r \in Messages : Complete(r)
    BY <1>18
  <2> SUFFICES ASSUME faults' = 0, NEW m \in Messages, followup'[m].state = "open"
               PROVE  Attended(followup[m].run)'
    BY <2>1 DEF Complete
  <2>2. faults = 0 /\ followup' = Closed(r)
    BY <2>1 DEF Complete, StorageFails
  <2>3. followup'[m] = followup[m] /\ followup[m] # OpenFollowup(r)
    BY <2>2, ClosedKeeps
  <2>4. followup[m] = [state |-> followup[m].state, run |-> followup[m].run]
    OBVIOUS
  <2>5. followup[m].run # r /\ Attended(followup[m].run)
    BY <2>2, <2>3, <2>4
  <2> QED BY <2>1, <2>3, <2>5 DEF Complete, CompletionDone
<1>19. CASE \E r \in Messages : CompleteFailed(r)
  <2>1. PICK r \in Messages : CompleteFailed(r)
    BY <1>19
  <2>2. Closed(r) \in [Messages -> [state : {"none", "open", "consumed", "unconsumed"},
                                  run : Messages \cup {NoRun}]]
    BY ClosedKeeps
  <2>3. \A m \in Messages : \/ Closed(r)[m] = followup[m]
                            \/ followup[m] = OpenFollowup(r) /\ Closed(r)[m].state = "unconsumed"
    BY ClosedKeeps
  <2>4. completion[r].phase \in Phases
    BY <2>1 DEF CompleteFailed, AtCompletion
    <2> QED BY <2>1, <2>2, <2>3, <2>4 DEF CompleteFailed, AtCompletion, CompletionDone,
      StorageFails, Record
<1>20. CASE \E r \in Messages : CompleteAsFailed(r)
  <2>1. PICK r \in Messages : CompleteAsFailed(r)
    BY <1>20
  <2>2. Closed(r) \in [Messages -> [state : {"none", "open", "consumed", "unconsumed"},
                                  run : Messages \cup {NoRun}]]
    BY ClosedKeeps
  <2>3. \A m \in Messages : \/ Closed(r)[m] = followup[m]
                            \/ followup[m] = OpenFollowup(r) /\ Closed(r)[m].state = "unconsumed"
    BY ClosedKeeps
  <2>4. completion[r].phase \in Phases
    BY <2>1 DEF CompleteAsFailed, AtCompletion
    <2> QED BY <2>1, <2>2, <2>3, <2>4 DEF CompleteAsFailed, AtCompletion, CompletionDone,
      StorageFails, Record
<1>21. CASE Restart
  BY <1>21 DEF Restart
<1> QED
    BY <1>1, <1>2, <1>3, <1>4, <1>5, <1>6, <1>7, <1>8, <1>9, <1>10, <1>11, <1>12, <1>13, <1>14,
      <1>15, <1>16, <1>17, <1>18, <1>19, <1>20, <1>21 DEF Next, Enter, Inside, Runner, Callback

\* The binding, and what is open, name runs; a callback tries again only after a failure.
LEMMA RestNext == ASSUME IInv, Next PROVE /\ (binding.phase # "none" => binding.run \in Messages)'
         /\ (\A m \in Messages : followup[m].state = "open" => followup[m].run \in Messages)'
         /\ (faults = 0 => \A m \in Messages : completion[m].status # "retry")'
<1> USE AdmissionAssumption DEF storage, bounds, IInv, TypeOK, Idle, NoRecord, NoFollowup, Active,
    Phases, CallSound, StartSound, Locked, OpenFollowup
<1>1. CASE \E c \in Calls : \E m \in Messages : Arrive(c, m)
  BY <1>1 DEF Arrive
<1>2. CASE \E c \in Calls : RefuseWhilePaused(c)
  BY <1>2 DEF RefuseWhilePaused, AtLock, Answer
<1>3. CASE \E c \in Calls : EnterActive(c)
  BY <1>3 DEF EnterActive, AtLock
<1>4. CASE \E c \in Calls : IgnoreDuplicate(c)
  BY <1>4 DEF IgnoreDuplicate, AtLock, Answer
<1>5. CASE \E c \in Calls : EnterFree(c)
  BY <1>5 DEF EnterFree, AtLock
<1>6. CASE \E c \in Calls : AttachNothing(c)
  BY <1>6 DEF AttachNothing, Leave, Answer
<1>7. CASE \E c \in Calls : Attach(c)
  BY <1>7 DEF Attach, Leave, Answer, Attached, OpenFollowup, Record
<1>8. CASE \E c \in Calls : AttachFailed(c)
  BY <1>8 DEF AttachFailed, Leave, Answer, Attached, OpenFollowup, Record, StorageFails
<1>9. CASE \E c \in Calls : WriteStarted(c)
  BY <1>9 DEF WriteStarted, Record
<1>10. CASE \E c \in Calls : StartRun(c)
  BY <1>10 DEF StartRun, Leave, Answer
<1>11. CASE \E c \in Calls : StartFailed(c)
  BY <1>11 DEF StartFailed, Leave, Answer, Record, StorageFails
<1>12. CASE \E r \in Messages : TakeFollowups(r)
  BY <1>12 DEF TakeFollowups, OpenOf, OpenFollowup
<1>13. CASE \E r \in Messages : Commit(r, "completed") \/ Commit(r, "stopped")
  BY <1>13 DEF Commit, Returns
<1>14. CASE \E r \in Messages : CommitFails(r)
  BY <1>14 DEF CommitFails
<1>15. CASE \E r \in Messages : MarkFailed(r)
  BY <1>15 DEF MarkFailed, Returns, StorageFails
<1>16. CASE \E r \in Messages : RunEnds(r)
  BY <1>16 DEF RunEnds, Returns
<1>17. CASE \E r \in Messages : HumanDecides(r)
  BY <1>17 DEF HumanDecides
<1>18. CASE \E r \in Messages : Complete(r)
  <2>1. PICK r \in Messages : Complete(r)
    BY <1>18
  <2>2. /\ followup' \in {followup, Closed(r)}
        /\ binding' \in {binding} \cup {[run |-> r, phase |-> p] : p \in Phases \cup {"none"}}
    BY <2>1 DEF Complete
  <2>3. \A m \in Messages : followup'[m].state = "open" => followup'[m] = followup[m]
    BY <2>2, ClosedKeeps
  <2>4. faults' = 0 => \A m \in Messages : completion'[m].status # "retry"
    BY <2>1 DEF Complete, CompletionDone, StorageFails
  <2> QED BY <2>1, <2>2, <2>3, <2>4
<1>19. CASE \E r \in Messages : CompleteFailed(r)
  <2>1. PICK r \in Messages : CompleteFailed(r)
    BY <1>19
  <2>2. /\ followup' \in {followup, Closed(r)}
        /\ binding' \in {binding} \cup {[run |-> r, phase |-> p] : p \in Phases \cup {"none"}}
    BY <2>1 DEF CompleteFailed
  <2>3. \A m \in Messages : followup'[m].state = "open" => followup'[m] = followup[m]
    BY <2>2, ClosedKeeps
  <2>4. faults' = 0 => \A m \in Messages : completion'[m].status # "retry"
    BY <2>1 DEF CompleteFailed, CompletionDone, StorageFails
  <2> QED BY <2>1, <2>2, <2>3, <2>4
<1>20. CASE \E r \in Messages : CompleteAsFailed(r)
  <2>1. PICK r \in Messages : CompleteAsFailed(r)
    BY <1>20
  <2>2. /\ followup' \in {followup, Closed(r)}
        /\ binding' \in {binding} \cup {[run |-> r, phase |-> p] : p \in Phases \cup {"none"}}
    BY <2>1 DEF CompleteAsFailed
  <2>3. \A m \in Messages : followup'[m].state = "open" => followup'[m] = followup[m]
    BY <2>2, ClosedKeeps
  <2>4. faults' = 0 => \A m \in Messages : completion'[m].status # "retry"
    BY <2>1 DEF CompleteAsFailed, CompletionDone, StorageFails
  <2> QED BY <2>1, <2>2, <2>3, <2>4
<1>21. CASE Restart
  BY <1>21 DEF Restart
<1> QED
    BY <1>1, <1>2, <1>3, <1>4, <1>5, <1>6, <1>7, <1>8, <1>9, <1>10, <1>11, <1>12, <1>13, <1>14,
      <1>15, <1>16, <1>17, <1>18, <1>19, <1>20, <1>21 DEF Next, Enter, Inside, Runner, Callback

-----------------------------------------------------------------------------
(* The invariant *)

LEMMA InvInit == Init => IInv
<1> SUFFICES ASSUME Init PROVE IInv
  OBVIOUS
<1>1. TypeOK
  <2>1. 0 \in 0..MaxFaults /\ 0 \in 0..MaxRestarts /\ 0 \in Nat
    BY AdmissionAssumption
  <2>2. /\ NoRecord \in [state : {"none", "started", "binding-failed", "followup-attached"} \cup Phases,
                         run : Messages \cup {NoRun}]
        /\ NoFollowup \in [state : {"none", "open", "consumed", "unconsumed"},
                           run : Messages \cup {NoRun}]
        /\ Idle \in [step : {"idle", "waiting", "attach", "record", "binding"},
                     message : Messages \cup {NoRun}, run : Messages \cup {NoRun}]
    BY DEF NoRecord, Record, NoFollowup, Idle
  <2> QED BY <2>1, <2>2 DEF Init, TypeOK
<1>2. /\ binding.phase = "none"
      /\ \A c \in Calls : call[c].step = "idle"
      /\ \A m \in Messages : /\ record[m].state = "none" /\ run[m] = "none"
                             /\ completion[m].status = "none" /\ starts[m] = 0
                             /\ followup[m] = NoFollowup /\ followup[m].state = "none"
  BY DEF Init, NoRecord, Record, NoFollowup, Idle
<1>3. \A c \in Calls : CallSound(c)
  BY <1>2 DEF CallSound, Locked
<1>4. \A m \in Messages : StartSound(m) /\ FollowupSound(m) /\ TurnSound(m)
  BY <1>2 DEF StartSound, FollowupSound, TurnSound, ToCome, Active
<1>5. AttendSound /\ FreeSound /\ StartedIsTrue /\ OpenFollowupIsAttended
  BY <1>2 DEF AttendSound, FreeSound, StartedIsTrue, OpenFollowupIsAttended, Attended
<1> QED BY <1>1, <1>2, <1>3, <1>4, <1>5 DEF IInv

LEMMA InvStutter == ASSUME IInv, UNCHANGED vars PROVE IInv'
  BY DEF vars, storage, bounds, IInv, TypeOK, CallSound, Locked, Retryable, StartSound, FollowupSound,
     AttendSound, Attended, TurnSound, FreeSound, BindingStatus, StartedIsTrue,
     OpenFollowupIsAttended

LEMMA InvNext == IInv /\ [Next]_vars => IInv'
<1>1. CASE Next
  BY <1>1, TypeNext, CallsNext, StartsNext, FollowupsNext, AttendNext, TurnNext, FreeNext,
     StartedNext, OpenNext, RestNext DEF IInv
<1>2. CASE UNCHANGED vars
  BY <1>2, InvStutter
<1> QED BY <1>1, <1>2

-----------------------------------------------------------------------------
(* The theorems *)

\* The invariant of a session's admission: what a handler reads inside the session lock holds
\* until it leaves (admission-rpc.ts, createAdmissionOrchestrateHandler).
THEOREM AdmissionInvariant == Spec => []IInv
  BY InvInit, InvNext, PTL DEF Spec

\* A message starts at most one run, whatever is submitted again, fails or is forgotten, and
\* without failures it is never both a run and a follow-up (admission-rpc.ts).
THEOREM MessagesStartOnce == Spec => []OneRunPerMessage
<1>1. IInv => OneRunPerMessage
  BY DEF IInv, StartSound, FollowupSound, OneRunPerMessage, Phases
<1> QED BY <1>1, AdmissionInvariant, PTL

\* A record says started only of a run that was started or is about to be: a duplicate is
\* never ignored for nothing (admission-rpc.ts, the record before the binding).
THEOREM StartedRecordsAreTrue == Spec => []StartedIsTrue
<1>1. IInv => StartedIsTrue
  BY DEF IInv
<1> QED BY <1>1, AdmissionInvariant, PTL

\* A follow-up is attached only to a run whose completion callback is still to come to
\* close it, and is open after it only if a restart forgot the callback (admission-rpc.ts, attachFollowupToActiveRun and the callback).
THEOREM OpenFollowupsAreAttended == Spec => []OpenFollowupIsAttended
<1>1. IInv => OpenFollowupIsAttended
  BY DEF IInv
<1> QED BY <1>1, AdmissionInvariant, PTL

\* A session has one run at a time unless a run overtook an earlier one's completion callback
\* (admission-rpc.ts and the terminal commit of dispatcher.ts).
THEOREM RunsTakeTurns == Spec => []OneRunUnlessLate
<1>1. IInv => OneRunUnlessLate
  BY DEF IInv, TurnSound, OneRunUnlessLate
<1> QED BY <1>1, AdmissionInvariant, PTL

=============================================================================
