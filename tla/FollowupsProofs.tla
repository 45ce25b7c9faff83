--------------------------- MODULE FollowupsProofs ---------------------------
(***************************************************************************)
(* What the follow-ups of a run promise, for every set of messages, every  *)
(* limit and any number of rounds and failures of storage.  The argument   *)
(* is what a record says of the prompts that carried its message           *)
(* (RecordSound), what holds of the messages of a prompt from their        *)
(* reservation to its confirmation (TakenSound), and that a frontier that  *)
(* has not moved had every attached message in it (JudgedSound).           *)
(***************************************************************************)
EXTENDS Followups, FiniteSetTheorems, WellFoundedInduction, TLAPS

\* Steps from which the run may still go on.
Live == Working \cup {"awaiting-human"}

\* The prompt was delivered and is not yet confirmed.
Delivering == {"mark", "confirm", "remark"}

\* Once a message has been in a prompt, or was attached, index and record keep it; what waits
\* for a prompt of a run that goes on has been in none; a reservation knows the session of
\* the prompt it was in; and a receipt is of a delivery.
RecordSound(m) ==
  /\ \/ record[m].state \in {"reserved"} \cup Settled
     \/ received[m] # {}
     \/ m \in attached
     => m \in Indexed /\ record[m].state # "absent"
  /\ record[m].state = "pending" /\ step \in Live => received[m] = {}
  /\ record[m].state = "reserved" =>
       record[m].session # NoSession /\ \A d \in received[m] : d[1] = record[m].session
  /\ record[m].state = "consumed" \/ record[m].delivered => received[m] # {}

\* What the prompt is about to carry has been in none; what it carried is not taken again.
TakenSound(m) ==
  /\ step = "prompt" =>
       /\ received[m] = {} /\ ~record[m].delivered
       /\ record[m].state \in {"reserved", "unconsumed"}
       /\ record[m].session = session
  /\ step \in Delivering =>
       /\ received[m] # {} /\ record[m].state \in {"reserved"} \cup Settled
       /\ record[m].state = "reserved" => record[m].session = session

\* The revision only grows, and it grew with whatever the judge was not shown.
JudgedSound ==
  step = "judge" =>
    /\ judged.revision <= Frontier.revision
    /\ judged.revision = Frontier.revision => attached \subseteq judged.seen

IInv ==
  /\ TypeOK
  /\ \A m \in Messages : RecordSound(m)
  /\ \A m \in taken : TakenSound(m)
  /\ JudgedSound
  /\ DeliveredOnce /\ CompletedLeavesNothingOpen
  /\ step = "completed" => binding # "running"

-----------------------------------------------------------------------------
(* The operators of the model *)

LEMMA Values ==
  /\ Absent \in FollowupRecord /\ Pending \in FollowupRecord
  /\ \A r \in FollowupRecord : AsConsumed(r) \in FollowupRecord
  /\ round \in Rounds /\ session \in Rounds => AsReserved \in FollowupRecord
  BY DEF FollowupRecord, Absent, Pending, AsConsumed, AsReserved, States

\* A message is indexed once, in the last place.
LEMMA IndexGrows ==
  ASSUME TypeOK, NEW m \in Messages, index' \in {index, IndexWith(m)}, index' # index => Room(m)
  PROVE  /\ index' \in Seq(Messages) /\ Len(index') <= PerRun /\ Len(index') >= Len(index)
         /\ \A i, j \in DOMAIN index' : index'[i] = index'[j] => i = j
         /\ Indexed \subseteq Indexed'
         /\ index' = IndexWith(m) => m \in Indexed'
<1>1. CASE index' = index
  BY <1>1 DEF TypeOK, Indexed, IndexWith
<1>2. CASE index' # index
  <2>1. m \notin Indexed /\ index' = Append(index, m) /\ Len(index) < PerRun
    BY <1>2 DEF IndexWith, Room
  <2>2. index \in Seq(Messages) /\ Len(index) \in Nat /\ PerRun \in Nat
    BY FollowupsAssumption DEF TypeOK
  <2>3. /\ index' \in Seq(Messages) /\ Len(index') = Len(index) + 1
        /\ index'[Len(index) + 1] = m
        /\ \A i \in 1..Len(index) : index'[i] = index[i]
    BY <2>1, <2>2
  <2>4. DOMAIN index' = 1..(Len(index) + 1) /\ DOMAIN index = 1..Len(index)
    BY <2>2, <2>3
  <2>5. \A i \in 1..Len(index) : index[i] # m
    BY <2>1, <2>4 DEF Indexed
  <2>6. \A i, j \in DOMAIN index' : index'[i] = index'[j] => i = j
    <3> SUFFICES ASSUME NEW i \in DOMAIN index', NEW j \in DOMAIN index', index'[i] = index'[j]
                 PROVE  i = j
      OBVIOUS
    <3>1. i \in 1..Len(index) \/ i = Len(index) + 1
      BY <2>2, <2>4
    <3>2. j \in 1..Len(index) \/ j = Len(index) + 1
      BY <2>2, <2>4
    <3> QED BY <2>3, <2>4, <2>5, <3>1, <3>2 DEF TypeOK
  <2>7. m \in Indexed'
    BY <2>2, <2>3, <2>4 DEF Indexed
  <2>8. Indexed \subseteq Indexed'
    BY <2>2, <2>3, <2>4 DEF Indexed
  <2> QED BY <2>1, <2>2, <2>3, <2>6, <2>7, <2>8
<1> QED BY <1>1, <1>2

\* The last element of a finite set of positions.
LEMMA LastPosition ==
  ASSUME NEW n \in Nat, NEW S \in SUBSET (1..n), S # {}
  PROVE  \E i \in S : \A j \in S : j <= i
<1> DEFINE gaps == {n - i : i \in S}
<1>1. gaps \subseteq Nat /\ gaps # {}
  <2>1. \A i \in S : n - i \in Nat
    OBVIOUS
  <2>2. PICK i \in S : TRUE
    OBVIOUS
  <2>3. n - i \in gaps
    BY <2>2
  <2> QED BY <2>1, <2>3
<1>2. PICK x \in gaps : \A y \in gaps : ~(<<y, x>> \in OpToRel(<, Nat))
  <2> HIDE DEF gaps
  <2> QED BY <1>1, NatLessThanWellFounded, WFMin
<1>3. \A y \in gaps : x <= y
  <2> HIDE DEF gaps
  <2>1. \A y \in gaps : ~(y < x)
    BY <1>1, <1>2 DEF OpToRel
  <2> QED BY <1>1, <2>1
<1>4. PICK i \in S : x = n - i
  OBVIOUS
<1>5. ASSUME NEW j \in S PROVE j <= i
  <2>1. n - j \in gaps
    OBVIOUS
  <2> QED BY <1>3, <1>4, <2>1
<1> QED BY <1>5

\* Of any positions, those that have fewer than PerRound of them before are PerRound at most.
LEMMA FirstFew ==
  ASSUME NEW n \in Nat, NEW k \in Nat \ {0}, NEW P \in SUBSET (1..n)
  PROVE  LET few == {i \in P : Cardinality({j \in P : j < i}) < k}
         IN  IsFiniteSet(few) /\ Cardinality(few) <= k
<1> DEFINE few == {i \in P : Cardinality({j \in P : j < i}) < k}
<1>1. IsFiniteSet(P)
  <2>1. IsFiniteSet(1..n)
    BY FS_Interval
  <2> QED BY <2>1, FS_Subset
<1>2. IsFiniteSet(few)
  <2>1. few \in SUBSET P
    OBVIOUS
  <2> QED BY <1>1, <2>1, FS_Subset
<1>3. CASE few = {}
  <2>1. Cardinality(few) = 0
    BY <1>3, FS_EmptySet
  <2> HIDE DEF few
  <2>2. IsFiniteSet(few) /\ Cardinality(few) <= k
    BY <1>2, <2>1
  <2> QED BY <2>2 DEF few
<1>4. CASE few # {}
  <2>1. PICK last \in few : \A j \in few : j <= last
    <3>1. few \in SUBSET (1..n)
      OBVIOUS
    <3> HIDE DEF few
    <3> QED BY <1>4, <3>1, LastPosition
  <2> DEFINE before == {j \in P : j < last}
  <2>2. Cardinality(before) < k /\ IsFiniteSet(before)
    BY <1>1, <2>1, FS_Subset
  <2>3. Cardinality(before) \in Nat
    BY <2>2, FS_CardinalityType
  <2>4. few \subseteq before \cup {last}
    <3>1. \A i \in few : i \in P /\ i \in Nat /\ last \in Nat /\ i <= last
      BY <2>1
    <3>2. \A i \in few : i < last \/ i = last
      <4> HIDE DEF few
      <4> QED BY <3>1
    <3> QED BY <3>1, <3>2
  <2>5. /\ IsFiniteSet(before \cup {last})
        /\ Cardinality(before \cup {last}) <= Cardinality(before) + 1
    <3> HIDE DEF before
    <3>1. /\ IsFiniteSet(before \cup {last})
          /\ Cardinality(before \cup {last}) =
               IF last \in before THEN Cardinality(before) ELSE Cardinality(before) + 1
      BY <2>2, FS_AddElement
    <3> QED BY <2>3, <3>1
  <2> HIDE DEF few, before
  <2>6. Cardinality(few) <= Cardinality(before \cup {last})
    BY <2>4, <2>5, FS_Subset
  <2>7. Cardinality(few) \in Nat /\ Cardinality(before \cup {last}) \in Nat
    BY <1>2, <2>5, FS_CardinalityType
  <2> QED BY <1>2, <2>2, <2>3, <2>5, <2>6, <2>7 DEF few
<1> QED BY <1>3, <1>4

\* What a reservation takes is indexed, reservable, and no more than a prompt may carry.
LEMMA TargetsSound ==
  ASSUME TypeOK, NEW unreadable
  PROVE  /\ Targets(unreadable) \subseteq Indexed
         /\ IsFiniteSet(Targets(unreadable)) /\ Cardinality(Targets(unreadable)) <= PerRound
         /\ \A m \in Targets(unreadable) : Reservable(m, unreadable)
<1> DEFINE P == ReservableAt(unreadable)
           few == {i \in P : Cardinality({j \in P : j < i}) < PerRound}
<1>1. /\ index \in Seq(Messages) /\ Len(index) \in Nat /\ DOMAIN index = 1..Len(index)
      /\ PerRound \in Nat \ {0}
  BY FollowupsAssumption DEF TypeOK
<1>2. P \in SUBSET (1..Len(index))
  BY <1>1 DEF ReservableAt
<1>3. Targets(unreadable) = {index[i] : i \in few}
  BY DEF Targets, Reached
<1>4. IsFiniteSet(few) /\ Cardinality(few) <= PerRound
  <2> HIDE DEF P
  <2> QED BY <1>1, <1>2, FirstFew
<1>5. IsFiniteSet({index[i] : i \in few}) /\ Cardinality({index[i] : i \in few}) <= PerRound
  <2> HIDE DEF few
  <2> DEFINE at == [i \in few |-> index[i]]
  <2>1. at \in Surjection(few, {index[i] : i \in few})
    BY DEF Surjection
  <2>2. IsFiniteSet({index[i] : i \in few}) /\ Cardinality({index[i] : i \in few}) <= Cardinality(few)
    BY <1>4, <2>1, FS_Surjection
  <2>3. Cardinality({index[i] : i \in few}) \in Nat /\ Cardinality(few) \in Nat
    BY <1>4, <2>2, FS_CardinalityType
  <2> QED BY <1>1, <1>4, <2>2, <2>3
<1>6. \A i \in few : i \in DOMAIN index /\ Reservable(index[i], unreadable)
  BY DEF ReservableAt
<1> QED BY <1>3, <1>5, <1>6 DEF Indexed

-----------------------------------------------------------------------------
(* Type correctness and the invariant *)

LEMMA InvInit == Init => IInv
<1> SUFFICES ASSUME Init PROVE IInv
  OBVIOUS
<1>1. /\ index = <<>> /\ index \in Seq(Messages) /\ Len(index) = 0 /\ DOMAIN index = {}
      /\ Indexed = {}
  BY DEF Init, Indexed
<1>2. Frontier \in [revision : Nat, pending : SUBSET Messages, seen : SUBSET Messages]
  BY <1>1 DEF Init, Frontier, NoRevision
<1>3. 1 \in Rounds
  BY FollowupsAssumption DEF Rounds
<1>4. taken = {} /\ Cardinality(taken) = 0
  BY FS_EmptySet DEF Init
<1>5. TypeOK
  BY <1>1, <1>2, <1>3, <1>4, Values, FollowupsAssumption
  DEF Init, TypeOK, Working, NoRevision
<1>6. \A m \in Messages : RecordSound(m)
  BY DEF Init, RecordSound, Absent, Settled
<1> QED
  BY <1>4, <1>5, <1>6 DEF Init, IInv, JudgedSound, DeliveredOnce, CompletedLeavesNothingOpen

LEMMA FrontierType ==
  ASSUME TypeOK
  PROVE  /\ Frontier \in [revision : Nat, pending : SUBSET Messages, seen : SUBSET Messages]
         /\ Indexed \subseteq Messages
<1>1. Indexed \subseteq Messages /\ Len(index) \in Nat
  BY DEF TypeOK, Indexed
<1> QED BY <1>1 DEF TypeOK, Frontier, NoRevision

LEMMA FaultsInBound ==
  ASSUME TypeOK, faults' = faults \/ StorageFails
  PROVE  faults' \in 0..MaxFaults
  BY FollowupsAssumption DEF TypeOK, StorageFails

LEMMA ReturnsType ==
  ASSUME TypeOK, NEW phase \in Phases, Returns(phase)
  PROVE  /\ step' \in Working \cup Phases
         /\ completion' \in [status : {"waiting", "due", "retry", "done"}, phase : Phases \cup {"none"}]
  BY DEF TypeOK, Returns, Phases

\* Nothing that was attached since the judge looked is overlooked by a step that leaves the
\* frontier alone.
LEMMA JudgedKeeps ==
  ASSUME IInv, step' = "judge" => step = "judge", UNCHANGED <<index, revision, attached, judged>>
  PROVE  JudgedSound'
  BY DEF IInv, JudgedSound, Frontier, Indexed

-----------------------------------------------------------------------------
(* The steps that leave the records alone *)

\* Between two prompts the records and the prompts stay, and only an accepted verdict
\* completes the run.
LEMMA BetweenPrompts ==
  ASSUME IInv, TypeOK', JudgedSound', UNCHANGED <<record, index, taken, history>>,
         step \in Live, step' \notin {"prompt"} \cup Delivering,
         step' = "completed" => Frontier.pending = {} /\ binding' = "over"
  PROVE  IInv'
<1>1. ASSUME NEW m \in Messages PROVE RecordSound(m)'
  BY DEF IInv, RecordSound, Indexed, history
<1>2. ASSUME NEW m \in taken' PROVE TakenSound(m)'
  BY DEF TakenSound
<1>3. DeliveredOnce'
  BY DEF IInv, DeliveredOnce, history
<1>4. CompletedLeavesNothingOpen'
  <2> SUFFICES ASSUME step' = "completed", NEW m \in attached
               PROVE  record[m].state \in Settled /\ (record[m].state = "consumed" => received[m] # {})
    BY DEF CompletedLeavesNothingOpen, history
  <2>1. m \in Messages /\ RecordSound(m) /\ record[m] \in FollowupRecord
    BY DEF IInv, TypeOK
  <2>2. record[m].state \notin Open
    BY <2>1 DEF RecordSound, Frontier
  <2> QED BY <2>1, <2>2 DEF RecordSound, FollowupRecord, States, Open, Settled
<1> QED BY <1>1, <1>2, <1>3, <1>4 DEF IInv

Judging ==
  \/ WorkerDone \/ RoundFails
  \/ ReadFrontier \/ FrontierUnreadable \/ Refresh \/ RefreshExhausted
  \/ CommitAccept \/ CommitStop \/ CommitFailed \/ AskBudget \/ NextRound \/ Pause
  \/ HumanResume \/ HumanStop

LEMMA JudgingType == ASSUME IInv, Judging PROVE TypeOK'
<1> USE DEF IInv, storage, dispatcher, history
<1>1. CASE WorkerDone \/ AskBudget
  BY <1>1 DEF WorkerDone, AskBudget, TypeOK, Working
<1>2. CASE \/ RoundFails \/ FrontierUnreadable \/ RefreshExhausted \/ CommitAccept
           \/ CommitStop \/ CommitFailed \/ Pause \/ HumanStop
  <2>1. \E phase \in Phases : Returns(phase)
    BY <1>2 DEF RoundFails, FrontierUnreadable, RefreshExhausted, CommitAccept, CommitStop,
                CommitFailed, Pause, HumanStop, Phases
  <2>2. /\ step' \in Working \cup Phases
        /\ completion' \in [status : {"waiting", "due", "retry", "done"}, phase : Phases \cup {"none"}]
    BY <2>1, ReturnsType
  <2>3. faults' = faults \/ StorageFails
    BY <1>2 DEF RoundFails, FrontierUnreadable, RefreshExhausted, CommitAccept, CommitStop,
                CommitFailed, Pause, HumanStop
  <2>4. faults' \in 0..MaxFaults
    BY <2>3, FaultsInBound
  <2>5. /\ binding' \in {binding, "over"}
        /\ UNCHANGED <<record, index, revision, admission, round, session, taken, judged, attempts,
                       received, attached>>
    BY <1>2 DEF RoundFails, FrontierUnreadable, RefreshExhausted, CommitAccept, CommitStop,
                CommitFailed, Pause, HumanStop
  <2> QED BY <2>2, <2>4, <2>5 DEF TypeOK
<1>3. CASE ReadFrontier \/ Refresh
  <2>1. attempts' \in 0..MaxJudgeRefresh
    BY <1>3, FollowupsAssumption DEF ReadFrontier, Refresh, TypeOK
  <2>2. judged' = Frontier /\ step' \in Working \cup Phases
    BY <1>3 DEF ReadFrontier, Refresh, TypeOK, Working
  <2>3. UNCHANGED <<record, index, revision, admission, binding, round, session, taken,
                    completion, received, attached, faults>>
    BY <1>3 DEF ReadFrontier, Refresh
  <2> QED BY <2>1, <2>2, <2>3, FrontierType DEF TypeOK
<1>4. CASE NextRound \/ HumanResume
  <2>1. round' \in Rounds /\ session' \in Rounds
    BY <1>4, FollowupsAssumption DEF NextRound, HumanResume, TypeOK, Rounds
  <2>2. /\ step' = "reserve"
        /\ UNCHANGED <<record, index, revision, admission, binding, taken, judged, attempts,
                       completion, received, attached, faults>>
    BY <1>4 DEF NextRound, HumanResume
  <2> QED BY <2>1, <2>2 DEF TypeOK, Working
<1> QED BY <1>1, <1>2, <1>3, <1>4 DEF Judging

LEMMA JudgingInv == ASSUME IInv, Judging PROVE IInv'
<1>1. TypeOK'
  BY JudgingType
<1>2. UNCHANGED <<record, index, taken, history>>
  BY DEF Judging, WorkerDone, RoundFails, ReadFrontier, FrontierUnreadable, Refresh,
         RefreshExhausted, CommitAccept, CommitStop, CommitFailed, AskBudget, NextRound, Pause, HumanResume,
         HumanStop, storage, dispatcher
<1>3. step \in Live /\ step' \notin {"prompt"} \cup Delivering
  BY DEF Judging, WorkerDone, RoundFails, ReadFrontier, FrontierUnreadable, Refresh,
         RefreshExhausted, CommitAccept, CommitStop, CommitFailed, AskBudget, NextRound, Pause, HumanResume,
         HumanStop, Returns, Live, Working, Delivering
<1>4. step' = "completed" => Frontier.pending = {} /\ binding' = "over"
  BY DEF Judging, WorkerDone, RoundFails, ReadFrontier, FrontierUnreadable, Refresh,
         RefreshExhausted, CommitAccept, CommitStop, CommitFailed, AskBudget, NextRound, Pause, HumanResume,
         HumanStop, Returns
<1>5. JudgedSound'
  <2>1. CASE ReadFrontier \/ Refresh
    <3>1. judged' = Frontier /\ UNCHANGED <<index, revision, attached, record>>
      BY <2>1 DEF ReadFrontier, Refresh, storage, history
    <3>2. Frontier'.revision = Frontier.revision /\ Frontier.revision \in Nat /\ Frontier.seen = Indexed
      BY <3>1, FrontierType DEF Frontier, Indexed, IInv
    <3>3. attached \subseteq Indexed
      BY DEF IInv, RecordSound, TypeOK
    <3> QED BY <3>1, <3>2, <3>3 DEF JudgedSound
  <2>2. CASE ~(ReadFrontier \/ Refresh)
    <3>1. step' = "judge" => step = "judge"
      BY <2>2 DEF Judging, WorkerDone, RoundFails, FrontierUnreadable,
         RefreshExhausted, CommitAccept, CommitStop, CommitFailed, AskBudget, NextRound, Pause, HumanResume,
         HumanStop, Returns
    <3>2. UNCHANGED <<index, revision, attached, judged>>
      BY <2>2 DEF Judging, WorkerDone, RoundFails, FrontierUnreadable,
         RefreshExhausted, CommitAccept, CommitStop, CommitFailed, AskBudget, NextRound, Pause, HumanResume,
         HumanStop, storage, dispatcher, history
    <3> QED BY <3>1, <3>2, JudgedKeeps
  <2> QED BY <2>1, <2>2
<1> QED BY <1>1, <1>2, <1>3, <1>4, <1>5, BetweenPrompts

-----------------------------------------------------------------------------
(* A message is attached *)

\* Only a message that was in no prompt, or in none that index and record keep, may be attached.
LEMMA AttachingIsNew ==
  ASSUME IInv, NEW m \in Messages, MayAttach(m)
  PROVE  /\ record[m].state \notin {"reserved"} \cup Settled
         /\ received[m] = {} /\ m \notin attached /\ m \notin taken \cap {n \in taken : step \in {"prompt"} \cup Delivering}
<1>1. record[m].state = "absent" \/ m \notin Indexed
  BY DEF MayAttach, Duplicate, Absent
<1>2. /\ record[m].state \notin {"reserved"} \cup Settled
      /\ received[m] = {} /\ m \notin attached
  BY <1>1 DEF IInv, RecordSound, Settled
<1>3. m \in taken => TakenSound(m)
  BY DEF IInv
<1> QED BY <1>2, <1>3 DEF TakenSound, Settled

\* Whatever a write of the attachment leaves in record, index and admission.
LEMMA AttachKeeps ==
  ASSUME IInv, NEW m \in Messages, MayAttach(m),
         NEW r \in {Absent, Pending, record[m]}, record' = [record EXCEPT ![m] = r],
         index' \in {index, IndexWith(m)},
         NEW a \in {"none", "followup-attached", admission[m]}, admission' = [admission EXCEPT ![m] = a],
         \/ revision' = Frontier.revision + 1
         \/ revision' = revision /\ attached' = attached,
         \/ attached' = attached
         \/ attached' = attached \cup {m} /\ r = Pending /\ index' = IndexWith(m),
         faults' = faults \/ StorageFails,
         UNCHANGED <<binding, step, dispatcher, completion, received>>
  PROVE  IInv'
<1> USE DEF dispatcher
<1>1. /\ index' \in Seq(Messages) /\ Len(index') <= PerRun /\ Len(index') >= Len(index)
      /\ \A i, j \in DOMAIN index' : index'[i] = index'[j] => i = j
      /\ Indexed \subseteq Indexed'
      /\ index' = IndexWith(m) => m \in Indexed'
  BY IndexGrows DEF IInv, MayAttach
<1>2. record[m].state \notin {"reserved"} \cup Settled /\ received[m] = {} /\ m \notin attached
  BY AttachingIsNew
<1>3. r \in FollowupRecord /\ a \in {"none", "followup-attached"}
  BY Values DEF IInv, TypeOK
<1>4. TypeOK'
  <2>1. revision' \in Nat \cup {NoRevision}
    BY FrontierType DEF IInv, TypeOK
  <2>2. faults' \in 0..MaxFaults
    BY FaultsInBound DEF IInv
  <2> QED BY <1>1, <1>3, <2>1, <2>2 DEF IInv, TypeOK
<1>5. ASSUME NEW n \in Messages PROVE RecordSound(n)'
  <2>1. CASE n = m
    <3>1. record'[n] = r /\ received'[n] = {}
      BY <1>2, <2>1 DEF IInv, TypeOK
    <3>2. RecordSound(m)
      BY DEF IInv
    <3>3. r.state \notin {"reserved"} \cup Settled
      BY <1>2 DEF Absent, Pending, Settled
    <3>4. r.delivered => received[m] # {}
      BY <3>2 DEF Absent, Pending, RecordSound
    <3>5. n \in attached' => n \in Indexed' /\ r.state # "absent"
      BY <1>1, <1>2, <2>1 DEF Pending, Absent
    <3> QED BY <1>2, <2>1, <3>1, <3>3, <3>4, <3>5 DEF RecordSound, Settled
  <2>2. CASE n # m
    <3>1. record'[n] = record[n] /\ (n \in attached' => n \in attached)
      BY <2>2 DEF IInv, TypeOK
    <3>2. RecordSound(n)
      BY DEF IInv
    <3> QED BY <1>1, <3>1, <3>2 DEF RecordSound
  <2> QED BY <2>1, <2>2
<1>6. ASSUME NEW n \in taken' PROVE TakenSound(n)'
  <2>1. TakenSound(n) /\ n \in Messages
    BY DEF IInv, TypeOK
  <2>2. CASE n = m
    BY <1>2, <2>1, <2>2 DEF TakenSound, Settled
  <2>3. CASE n # m
    BY <2>1, <2>3 DEF TakenSound, IInv, TypeOK
  <2> QED BY <2>2, <2>3
<1>7. JudgedSound'
  <2> SUFFICES ASSUME step = "judge"
               PROVE  /\ judged.revision <= Frontier'.revision
                      /\ judged.revision = Frontier'.revision => attached' \subseteq judged.seen
    BY DEF JudgedSound
  <2>1. judged.revision \in Nat /\ Frontier.revision \in Nat /\ revision \in Nat \cup {NoRevision}
    BY FrontierType DEF IInv, TypeOK
  <2>2. /\ judged.revision <= Frontier.revision
        /\ judged.revision = Frontier.revision => attached \subseteq judged.seen
    BY DEF IInv, JudgedSound
  <2>3. /\ Frontier'.revision = IF revision' = NoRevision THEN Len(index') ELSE revision'
        /\ Frontier.revision = IF revision = NoRevision THEN Len(index) ELSE revision
    BY DEF Frontier
  <2>4. Len(index') \in Nat /\ Len(index) \in Nat
    BY <1>1 DEF IInv, TypeOK
  <2>5. CASE revision' = Frontier.revision + 1
    BY <2>1, <2>2, <2>3, <2>5 DEF NoRevision
  <2>6. CASE revision' = revision /\ attached' = attached
    BY <1>1, <2>1, <2>2, <2>3, <2>4, <2>6 DEF NoRevision
  <2> QED BY <2>5, <2>6
<1>8. DeliveredOnce'
  BY DEF IInv, DeliveredOnce
<1>9. step' # "completed"
  BY DEF IInv, MayAttach
<1> QED BY <1>4, <1>5, <1>6, <1>7, <1>8, <1>9 DEF IInv, CompletedLeavesNothingOpen

LEMMA AttachInv ==
  ASSUME IInv, NEW m \in Messages, Attach(m) \/ AttachFailed(m)
  PROVE  IInv'
<1>1. CASE Attach(m)
  <2>1. /\ MayAttach(m) /\ record' = [record EXCEPT ![m] = Pending] /\ index' = IndexWith(m)
        /\ admission' = [admission EXCEPT ![m] = "followup-attached"]
        /\ revision' = Frontier.revision + 1 /\ attached' = attached \cup {m}
        /\ UNCHANGED <<binding, step, dispatcher, completion, received, faults>>
    BY <1>1 DEF Attach
  <2> QED BY <2>1, AttachKeeps
<1>2. CASE AttachFailed(m)
  <2>1. /\ MayAttach(m) /\ StorageFails
        /\ UNCHANGED <<revision, binding, step, dispatcher, completion, received, attached>>
    BY <1>2 DEF AttachFailed, history
  <2>2. record = [record EXCEPT ![m] = record[m]] /\ admission = [admission EXCEPT ![m] = admission[m]]
    BY DEF IInv, TypeOK
  <2>3. index' \in {index, IndexWith(m)}
    BY <1>2 DEF AttachFailed
  <2>4. \E r \in {Absent, Pending, record[m]} : record' = [record EXCEPT ![m] = r]
    BY <1>2, <2>2 DEF AttachFailed
  <2>5. \E a \in {"none", "followup-attached", admission[m]} : admission' = [admission EXCEPT ![m] = a]
    BY <1>2, <2>2 DEF AttachFailed
  <2> QED BY <2>1, <2>3, <2>4, <2>5, AttachKeeps
<1> QED BY <1>1, <1>2

-----------------------------------------------------------------------------
(* The completion callback closes what is open *)

LEMMA CloseKeeps ==
  ASSUME IInv, NEW items \in SUBSET Indexed, record' = ClosedRecords(items),
         binding' \in {binding, "over", "awaiting-human"},
         completion' \in [status : {"waiting", "due", "retry", "done"}, phase : Phases \cup {"none"}],
         faults' = faults \/ StorageFails,
         UNCHANGED <<index, revision, admission, step, dispatcher, history>>
  PROVE  IInv'
<1> USE DEF dispatcher, history
<1>1. ASSUME NEW m \in Messages
      PROVE  /\ record'[m] \in FollowupRecord
             /\ record'[m].delivered = record[m].delivered /\ record'[m].session = record[m].session
             /\ \/ record'[m] = record[m]
                \/ /\ m \in Indexed /\ record[m].state \in Open /\ record'[m].state \in Settled
                   /\ record'[m].state = "consumed" => record[m].delivered
  <2>1. record[m] \in FollowupRecord
    BY DEF IInv, TypeOK
  <2>2. CASE m \in items /\ record[m].state \in Open
    <3> DEFINE to == IF HasReceipt(m) THEN "consumed" ELSE "unconsumed"
    <3>1. record'[m] = [record[m] EXCEPT !.state = to]
      BY <2>2 DEF ClosedRecords
    <3>2. to \in Settled /\ to \in States /\ (to = "consumed" => record[m].delivered)
      BY DEF HasReceipt, Settled, States
    <3> HIDE DEF to
    <3> QED BY <2>1, <2>2, <3>1, <3>2 DEF FollowupRecord
  <2>3. CASE ~(m \in items /\ record[m].state \in Open)
    <3>1. record'[m] = record[m]
      BY <2>3 DEF ClosedRecords
    <3> QED BY <2>1, <3>1
  <2> QED BY <2>2, <2>3
<1>2. record' \in [Messages -> FollowupRecord]
  BY <1>1 DEF ClosedRecords
<1>3. TypeOK'
  <2>1. faults' \in 0..MaxFaults
    BY FaultsInBound DEF IInv
  <2>2. binding' \in {"running", "awaiting-human", "over"}
    BY DEF IInv, TypeOK
  <2> QED BY <1>2, <2>1, <2>2 DEF IInv, TypeOK
<1>4. ASSUME NEW m \in Messages PROVE RecordSound(m)'
  <2>1. RecordSound(m)
    BY DEF IInv
  <2>2. Indexed' = Indexed
    BY DEF Indexed
  <2> QED BY <1>1, <2>1, <2>2 DEF RecordSound, Settled, Open
<1>5. ASSUME NEW m \in taken' PROVE TakenSound(m)'
  <2>1. TakenSound(m) /\ m \in Messages
    BY DEF IInv, TypeOK
  <2> QED BY <1>1, <2>1 DEF TakenSound, Settled
<1>6. JudgedSound'
  BY JudgedKeeps
<1>7. DeliveredOnce'
  BY DEF IInv, DeliveredOnce
<1>8. CompletedLeavesNothingOpen' /\ (step' = "completed" => binding' # "running")
  <2>1. CASE step = "completed"
    <3>1. \A m \in attached : record'[m] = record[m]
      BY <1>1, <2>1 DEF IInv, TypeOK, CompletedLeavesNothingOpen, Settled, Open
    <3> QED BY <2>1, <3>1 DEF IInv, CompletedLeavesNothingOpen
  <2>2. CASE step # "completed"
    BY <2>2 DEF CompletedLeavesNothingOpen
  <2> QED BY <2>1, <2>2
<1> QED BY <1>3, <1>4, <1>5, <1>6, <1>7, <1>8 DEF IInv

LEMMA CompletionInv == ASSUME IInv, Completion PROVE IInv'
<1>1. PICK items \in SUBSET Indexed : record' = ClosedRecords(items)
  <2>1. \A n \in 0..Len(index) : {index[i] : i \in 1..n} \in SUBSET Indexed
    BY DEF IInv, TypeOK, Indexed
  <2>2. Len(index) \in Nat
    BY DEF IInv, TypeOK
  <2>3. Indexed \in SUBSET Indexed
    OBVIOUS
  <2>4. CloseAll => \E items \in SUBSET Indexed : record' = ClosedRecords(items)
    BY <2>3 DEF CloseAll
  <2>5. CloseSome => \E items \in SUBSET Indexed : record' = ClosedRecords(items)
    <3>1. \A n \in 0..(Len(index) - 1) : n \in 0..Len(index)
      BY <2>2
    <3> QED BY <2>1, <3>1 DEF CloseSome
  <2>6. Complete => \E items \in SUBSET Indexed : record' = ClosedRecords(items)
    BY <2>4, <2>5 DEF Complete
  <2>7. CompleteFailed => \E items \in SUBSET Indexed : record' = ClosedRecords(items)
    BY <2>1 DEF CompleteFailed
  <2>8. CompleteAsFailed => \E items \in SUBSET Indexed : record' = ClosedRecords(items)
    BY <2>3, <2>4, <2>5 DEF CompleteAsFailed
  <2> QED BY <2>6, <2>7, <2>8 DEF Completion
<1>2. /\ binding' \in {binding, "over", "awaiting-human"}
      /\ faults' = faults \/ StorageFails
      /\ UNCHANGED <<index, revision, admission, step, dispatcher, history>>
  BY DEF Completion, Complete, CompleteFailed, CompleteAsFailed, CloseAll, CloseSome, BindingPhase
<1>3. completion' \in [status : {"waiting", "due", "retry", "done"}, phase : Phases \cup {"none"}]
  BY DEF Completion, Complete, CompleteFailed, CompleteAsFailed, IInv, TypeOK
<1> QED BY <1>1, <1>2, <1>3, CloseKeeps

-----------------------------------------------------------------------------
(* A prompt takes its messages *)

\* A reservation is made again only of what was in no prompt.
LEMMA ReservableIsNew ==
  ASSUME IInv, step \in Live, NEW m \in Messages, NEW unreadable, Reservable(m, unreadable)
  PROVE  received[m] = {}
<1>1. RecordSound(m)
  BY DEF IInv
<1>2. CASE record[m].state = "pending"
  BY <1>1, <1>2 DEF RecordSound
<1>3. CASE record[m].state = "reserved" /\ DeliveryStatus(m, unreadable) = "not-delivered"
  <2>1. record[m].session # NoSession
    BY <1>1, <1>3 DEF RecordSound
  <2>2. ~\E d \in received[m] : d[1] = record[m].session
    BY <1>3, <2>1 DEF DeliveryStatus
  <2> QED BY <1>1, <1>3, <2>2 DEF RecordSound
<1> QED BY <1>2, <1>3 DEF Reservable

\* What is found delivered was.
LEMMA FoundIsDelivered ==
  ASSUME IInv, NEW unreadable, NEW m \in FoundDelivered(unreadable)
  PROVE  /\ m \in Indexed /\ m \in Messages /\ record[m].state = "reserved" /\ received[m] # {}
         /\ ~Reservable(m, unreadable)
<1>1. /\ m \in Indexed /\ m \in Messages /\ record[m].state = "reserved"
      /\ DeliveryStatus(m, unreadable) = "delivered"
  BY FrontierType DEF FoundDelivered, Indexed, IInv
<1>2. HasReceipt(m) \/ \E d \in received[m] : d[1] = record[m].session
  BY <1>1 DEF DeliveryStatus
<1>3. received[m] # {}
  BY <1>1, <1>2 DEF HasReceipt, IInv, RecordSound
<1> QED BY <1>1, <1>3 DEF Reservable

LEMMA ReserveKeeps ==
  ASSUME IInv, step = "reserve", NEW unreadable,
         NEW stuck \in SUBSET Targets(unreadable), NEW found \in SUBSET FoundDelivered(unreadable),
         record' = [m \in Messages |-> CASE m \in stuck -> AsReserved
                                         [] m \in found -> AsConsumed(record[m])
                                         [] OTHER       -> record[m]],
         taken' \in {{}, stuck}, step' = "prompt",
         faults' = faults \/ StorageFails,
         UNCHANGED <<index, revision, admission, binding, round, session, judged, attempts,
                     completion, history>>
  PROVE  IInv'
<1> USE DEF history
<1>1. ASSUME NEW m \in stuck
      PROVE  m \in Indexed /\ m \in Messages /\ received[m] = {} /\ m \notin found
  <2>1. m \in Indexed /\ m \in Messages /\ Reservable(m, unreadable)
    BY TargetsSound, FrontierType DEF IInv
  <2>2. step \in Live
    BY DEF Live, Working
  <2> QED BY <2>1, <2>2, ReservableIsNew, FoundIsDelivered
<1>2. ASSUME NEW m \in Messages
      PROVE  /\ record'[m] \in FollowupRecord
             /\ \/ m \in stuck /\ record'[m] = AsReserved
                \/ m \in found /\ record'[m] = AsConsumed(record[m])
                \/ m \notin stuck /\ record'[m] = record[m]
  <2>1. record[m] \in FollowupRecord /\ AsConsumed(record[m]) \in FollowupRecord /\ AsReserved \in FollowupRecord
    BY Values DEF IInv, TypeOK
  <2>2. \/ m \in stuck /\ record'[m] = AsReserved
        \/ m \in found /\ record'[m] = AsConsumed(record[m])
        \/ m \notin stuck /\ record'[m] = record[m]
    BY <1>1
  <2> QED BY <2>1, <2>2
<1>3. TypeOK'
  <2>1. record' \in [Messages -> FollowupRecord]
    BY <1>2
  <2>2. taken' \subseteq Messages
    BY <1>1
  <2>3. faults' \in 0..MaxFaults
    BY FaultsInBound DEF IInv
  <2>4. Cardinality(taken') <= PerRound
    <3>1. CASE taken' = {}
      BY <3>1, FS_EmptySet, FollowupsAssumption
    <3>2. CASE taken' = stuck
      <4>1. IsFiniteSet(Targets(unreadable)) /\ Cardinality(Targets(unreadable)) <= PerRound
        BY TargetsSound DEF IInv
      <4>2. /\ IsFiniteSet(stuck) /\ Cardinality(stuck) <= Cardinality(Targets(unreadable))
        BY <4>1, FS_Subset
      <4>3. Cardinality(stuck) \in Nat /\ Cardinality(Targets(unreadable)) \in Nat /\ PerRound \in Nat
        BY <4>1, <4>2, FS_CardinalityType, FollowupsAssumption
      <4> QED BY <3>2, <4>1, <4>2, <4>3
    <3> QED BY <3>1, <3>2
  <2> QED BY <2>1, <2>2, <2>3, <2>4 DEF IInv, TypeOK, Working
<1>4. ASSUME NEW m \in Messages PROVE RecordSound(m)'
  <2>1. RecordSound(m) /\ Indexed' = Indexed /\ step \in Live
    BY DEF IInv, Indexed, Live, Working
  <2>2. CASE m \in stuck /\ record'[m] = AsReserved
    <3>1. session # NoSession
      BY FollowupsAssumption DEF IInv, TypeOK, Rounds, NoSession
    <3> QED BY <1>1, <2>1, <2>2, <3>1 DEF RecordSound, AsReserved
  <2>3. CASE m \in found /\ record'[m] = AsConsumed(record[m])
    <3>1. /\ m \in Indexed /\ received[m] # {} /\ record[m] \in FollowupRecord
      BY <2>3, FoundIsDelivered DEF IInv, TypeOK
    <3>2. record'[m].state = "consumed"
      BY <2>3, <3>1 DEF AsConsumed, FollowupRecord
    <3> QED BY <2>1, <3>1, <3>2 DEF RecordSound
  <2>4. CASE record'[m] = record[m]
    BY <2>1, <2>4 DEF RecordSound
  <2> QED BY <1>2, <2>2, <2>3, <2>4
<1>5. ASSUME NEW m \in taken' PROVE TakenSound(m)'
  <2>1. m \in stuck
    OBVIOUS
  <2>2. record'[m] = AsReserved /\ received'[m] = {}
    BY <1>1, <1>2, <2>1
  <2> QED BY <2>2 DEF TakenSound, AsReserved, Delivering
<1>6. JudgedSound' /\ CompletedLeavesNothingOpen'
  BY DEF JudgedSound, CompletedLeavesNothingOpen
<1>7. DeliveredOnce'
  BY DEF IInv, DeliveredOnce
<1> QED BY <1>3, <1>4, <1>5, <1>6, <1>7 DEF IInv

LEMMA ReserveInv ==
  ASSUME IInv, NEW unreadable, Reserve(unreadable) \/ ReserveFailed(unreadable)
  PROVE  IInv'
<1>1. CASE Reserve(unreadable)
  <2>1. \A m \in FoundDelivered(unreadable) : m \notin Targets(unreadable)
    BY FoundIsDelivered, TargetsSound DEF IInv
  <2>2. record' = [m \in Messages |-> CASE m \in Targets(unreadable) -> AsReserved
                                        [] m \in FoundDelivered(unreadable) -> AsConsumed(record[m])
                                        [] OTHER -> record[m]]
    BY <1>1, <2>1 DEF Reserve
  <2>3. /\ step = "reserve" /\ taken' = Targets(unreadable) /\ step' = "prompt"
        /\ UNCHANGED <<index, revision, admission, binding, round, session, judged, attempts,
                       completion, history, faults>>
    BY <1>1 DEF Reserve
  <2> HIDE DEF Targets, FoundDelivered
  <2> QED BY <2>2, <2>3, ReserveKeeps
<1>2. CASE ReserveFailed(unreadable)
  <2>1. PICK stuck \in SUBSET Targets(unreadable), found \in SUBSET FoundDelivered(unreadable) :
          record' = [m \in Messages |-> CASE m \in stuck -> AsReserved
                                          [] m \in found -> AsConsumed(record[m])
                                          [] OTHER       -> record[m]]
    BY <1>2 DEF ReserveFailed
  <2>2. /\ step = "reserve" /\ taken' = {} /\ step' = "prompt" /\ StorageFails
        /\ UNCHANGED <<index, revision, admission, binding, round, session, judged, attempts,
                       completion, history>>
    BY <1>2 DEF ReserveFailed
  <2> QED BY <2>1, <2>2, ReserveKeeps
<1> QED BY <1>1, <1>2

-----------------------------------------------------------------------------
(* The prompt is delivered, or fails *)

LEMMA DeliveryIsNew ==
  ASSUME IInv, step = "prompt", NEW m \in Messages
  PROVE  /\ Delivery[m] \subseteq Rounds \X Rounds
         /\ m \in taken => Delivery[m] = {<<session, round>>} /\ TakenSound(m) /\ received[m] = {}
         /\ m \notin taken => Delivery[m] = received[m]
  BY DEF IInv, TypeOK, TakenSound, Delivery

LEMMA PromptDeliveredInv == ASSUME IInv, PromptDelivered PROVE IInv'
<1> USE DEF PromptDelivered, storage, dispatcher
<1>1. TypeOK'
  <2>1. received' \in [Messages -> SUBSET (Rounds \X Rounds)]
    BY DeliveryIsNew DEF Delivery
  <2> QED BY <2>1 DEF IInv, TypeOK, Working
<1>2. ASSUME NEW m \in Messages PROVE RecordSound(m)'
  <2>1. RecordSound(m) /\ Indexed' = Indexed /\ step \in Live
    BY DEF IInv, Indexed, Live, Working
  <2>2. CASE m \in taken
    <3>1. received'[m] = {<<session, round>>} /\ TakenSound(m)
      BY <2>2, DeliveryIsNew
    <3>2. m \in Indexed /\ record[m].state \in {"reserved", "unconsumed"} /\ record[m].session = session
      BY <2>1, <3>1 DEF TakenSound, RecordSound, Settled
    <3> QED BY <2>1, <3>1, <3>2 DEF RecordSound
  <2>3. CASE m \notin taken
    <3>1. received'[m] = received[m]
      BY <2>3, DeliveryIsNew
    <3> QED BY <2>1, <3>1 DEF RecordSound
  <2> QED BY <2>2, <2>3
<1>3. ASSUME NEW m \in taken' PROVE TakenSound(m)'
  <2>1. m \in Messages /\ m \in taken
    BY DEF IInv, TypeOK
  <2>2. received'[m] # {} /\ TakenSound(m)
    BY <2>1, DeliveryIsNew
  <2> QED BY <2>2 DEF TakenSound, Delivering, Settled
<1>4. DeliveredOnce'
  <2>1. \A m \in Messages : received'[m] = received[m] \/ received'[m] = {<<session, round>>}
    BY DeliveryIsNew
  <2> QED BY <2>1 DEF IInv, DeliveredOnce
<1>5. JudgedSound' /\ CompletedLeavesNothingOpen' /\ step' # "completed"
  BY DEF JudgedSound, CompletedLeavesNothingOpen
<1> QED BY <1>1, <1>2, <1>3, <1>4, <1>5 DEF IInv

LEMMA PromptFailedInv ==
  ASSUME IInv, NEW replyLost \in BOOLEAN, PromptFailed(replyLost)
  PROVE  IInv'
<1>1. /\ step = "prompt" /\ step' = "failed" /\ received' \in {received, Delivery}
      /\ faults' = faults \/ StorageFails
      /\ UNCHANGED <<index, revision, admission, binding, round, session, taken, judged, attempts,
                     attached>>
  BY DEF PromptFailed, Returns, dispatcher
<1>2. PICK items \in SUBSET taken : record' = Reverted(items)
  BY DEF PromptFailed
<1>3. ASSUME NEW m \in Messages
      PROVE  /\ record'[m] \in FollowupRecord
             /\ \/ record'[m] = record[m]
                \/ m \in taken /\ record[m].state = "reserved" /\ record'[m] = Pending
  <2>1. record[m] \in FollowupRecord /\ Pending \in FollowupRecord
    BY Values DEF IInv, TypeOK
  <2>2. m \in items /\ record[m].state \in {"consumed", "reserved"} => record[m].state = "reserved"
    BY <1>1 DEF IInv, TakenSound
  <2>3. record'[m] = IF m \in items /\ ~HasReceipt(m) /\ record[m].state \in {"consumed", "reserved"}
                       THEN Pending ELSE record[m]
    BY <1>2 DEF Reverted
  <2> QED BY <1>2, <2>1, <2>2, <2>3
<1>4. TypeOK'
  <2>1. record' \in [Messages -> FollowupRecord]
    BY <1>2, <1>3 DEF Reverted
  <2>2. received' \in [Messages -> SUBSET (Rounds \X Rounds)]
    BY <1>1, DeliveryIsNew DEF Delivery, IInv, TypeOK
  <2>3. /\ step' \in Working \cup Phases
        /\ completion' \in [status : {"waiting", "due", "retry", "done"}, phase : Phases \cup {"none"}]
    BY ReturnsType DEF PromptFailed, Phases, IInv
  <2>4. faults' \in 0..MaxFaults
    BY <1>1, FaultsInBound DEF IInv
  <2> QED BY <1>1, <2>1, <2>2, <2>3, <2>4 DEF IInv, TypeOK
<1>5. ASSUME NEW m \in Messages PROVE RecordSound(m)'
  <2>1. RecordSound(m) /\ Indexed' = Indexed /\ step' \notin Live
    BY <1>1 DEF IInv, Indexed, Live, Working
  <2>2. CASE m \in taken
    <3>1. received'[m] \in {received[m], {<<session, round>>}} /\ received[m] = {} /\ TakenSound(m)
      BY <1>1, <2>2, DeliveryIsNew
    <3>2. m \in Indexed /\ record[m].state \in {"reserved", "unconsumed"} /\ record[m].session = session
          /\ ~record[m].delivered
      BY <1>1, <2>1, <3>1 DEF TakenSound, RecordSound, Settled
    <3>3. CASE record'[m] = record[m]
      BY <2>1, <3>1, <3>2, <3>3 DEF RecordSound
    <3>4. CASE record'[m] = Pending
      BY <2>1, <3>2, <3>4 DEF RecordSound, Pending, Absent
    <3> QED BY <1>3, <3>3, <3>4
  <2>3. CASE m \notin taken
    <3>1. received'[m] = received[m] /\ record'[m] = record[m]
      BY <1>1, <1>3, <2>3, DeliveryIsNew
    <3> QED BY <1>1, <2>1, <3>1 DEF RecordSound
  <2> QED BY <2>2, <2>3
<1>6. ASSUME NEW m \in taken' PROVE TakenSound(m)'
  BY <1>1 DEF TakenSound, Delivering
<1>7. DeliveredOnce'
  <2>1. \A m \in Messages : received'[m] = received[m] \/ received'[m] = {<<session, round>>}
    BY <1>1, DeliveryIsNew
  <2> QED BY <2>1 DEF IInv, DeliveredOnce
<1>8. JudgedSound' /\ CompletedLeavesNothingOpen' /\ step' # "completed"
  BY <1>1 DEF JudgedSound, CompletedLeavesNothingOpen
<1> QED BY <1>4, <1>5, <1>6, <1>7, <1>8 DEF IInv

\* Receipt and confirmation: what was in the prompt is marked, or consumed.
LEMMA ReceiptKeeps ==
  ASSUME IInv, step \in Delivering, NEW items \in SUBSET taken,
         record' \in {Marked(items), Confirmed(items)},
         step' \in {"confirm", "work", "remark", "failed"},
         completion' \in [status : {"waiting", "due", "retry", "done"}, phase : Phases \cup {"none"}],
         faults' = faults \/ StorageFails,
         UNCHANGED <<index, revision, admission, binding, dispatcher, history>>
  PROVE  IInv'
<1> USE DEF dispatcher, history
<1>1. ASSUME NEW m \in Messages
      PROVE  /\ record'[m] \in FollowupRecord
             /\ \/ record'[m] = record[m]
                \/ /\ m \in taken /\ received[m] # {} /\ record[m].state = "reserved"
                   /\ record'[m].state \in {"reserved", "consumed"} /\ record'[m].session = session
  <2>1. record[m] \in FollowupRecord /\ round \in Rounds /\ session \in Rounds
    BY DEF IInv, TypeOK
  <2>2. CASE m \in items /\ record[m].state \in Open
    <3>1. m \in taken /\ received[m] # {} /\ record[m].state = "reserved" /\ record[m].session = session
      BY <2>2 DEF IInv, TakenSound, Open, Settled
    <3>2. \/ record'[m] = [record[m] EXCEPT !.delivered = TRUE, !.round = round, !.session = session]
          \/ record'[m] = [record[m] EXCEPT !.state = "consumed"]
      BY <2>2 DEF Marked, Confirmed, AsConsumed
    <3> QED BY <2>1, <3>1, <3>2 DEF FollowupRecord, States
  <2>3. CASE ~(m \in items /\ record[m].state \in Open)
    <3>1. record'[m] = record[m]
      BY <2>3 DEF Marked, Confirmed
    <3> QED BY <2>1, <3>1
  <2> QED BY <2>2, <2>3
<1>2. TypeOK'
  <2>1. record' \in [Messages -> FollowupRecord]
    BY <1>1 DEF Marked, Confirmed
  <2>2. faults' \in 0..MaxFaults
    BY FaultsInBound DEF IInv
  <2> QED BY <2>1, <2>2 DEF IInv, TypeOK, Working, Phases
<1>3. ASSUME NEW m \in Messages PROVE RecordSound(m)'
  <2>1. RecordSound(m) /\ Indexed' = Indexed /\ step \in Live
    BY DEF IInv, Indexed, Live, Working, Delivering
  <2>2. CASE record'[m] = record[m]
    BY <2>1, <2>2 DEF RecordSound
  <2>3. CASE /\ m \in taken /\ received[m] # {} /\ record[m].state = "reserved"
             /\ record'[m].state \in {"reserved", "consumed"} /\ record'[m].session = session
    <3>1. TakenSound(m)
      BY <2>3 DEF IInv
    <3> QED BY <2>1, <2>3, <3>1 DEF RecordSound, TakenSound
  <2> QED BY <1>1, <2>2, <2>3
<1>4. ASSUME NEW m \in taken' PROVE TakenSound(m)'
  <2>1. TakenSound(m) /\ m \in Messages
    BY DEF IInv, TypeOK
  <2> QED BY <1>1, <2>1 DEF TakenSound, Settled
<1>5. JudgedSound' /\ CompletedLeavesNothingOpen' /\ step' # "completed"
  BY DEF JudgedSound, CompletedLeavesNothingOpen
<1>6. DeliveredOnce'
  BY DEF IInv, DeliveredOnce
<1> QED BY <1>2, <1>3, <1>4, <1>5, <1>6 DEF IInv

LEMMA ReceiptInv == ASSUME IInv, MarkDelivered \/ Confirm \/ ConfirmFailed \/ MarkAgain PROVE IInv'
<1>1. taken \in SUBSET taken /\ \A m \in taken : TakenBefore(m) \in SUBSET taken
  BY DEF TakenBefore
<1>2. \E items \in SUBSET taken : record' \in {Marked(items), Confirmed(items)}
  BY <1>1 DEF MarkDelivered, Confirm, ConfirmFailed, MarkAgain, MarkAll, MarkSome
<1>3. /\ step \in Delivering /\ step' \in {"confirm", "work", "remark", "failed"}
      /\ faults' = faults \/ StorageFails
      /\ UNCHANGED <<index, revision, admission, binding, dispatcher, history>>
  BY DEF MarkDelivered, Confirm, ConfirmFailed, MarkAgain, MarkAll, MarkSome, Returns, Delivering
<1>4. completion' \in [status : {"waiting", "due", "retry", "done"}, phase : Phases \cup {"none"}]
  <2>1. CASE MarkAgain
    BY <2>1, ReturnsType DEF MarkAgain, Phases, IInv
  <2>2. CASE MarkDelivered \/ Confirm \/ ConfirmFailed
    BY <2>2 DEF MarkDelivered, Confirm, ConfirmFailed, IInv, TypeOK
  <2> QED BY <2>1, <2>2
<1> QED BY <1>2, <1>3, <1>4, ReceiptKeeps

-----------------------------------------------------------------------------
(* Every step *)

LEMMA InvNext == IInv /\ [Next]_vars => IInv'
<1> SUFFICES ASSUME IInv, [Next]_vars PROVE IInv'
  OBVIOUS
<1>1. CASE \E m \in Messages : Attach(m) \/ AttachFailed(m)
  BY <1>1, AttachInv
<1>2. CASE Dispatch
  <2>1. CASE \E unreadable \in SUBSET Indexed : Reserve(unreadable) \/ ReserveFailed(unreadable)
    BY <2>1, ReserveInv
  <2>2. CASE PromptDelivered \/ \E replyLost \in BOOLEAN : PromptFailed(replyLost)
    BY <2>2, PromptDeliveredInv, PromptFailedInv
  <2>3. CASE MarkDelivered \/ Confirm \/ ConfirmFailed \/ MarkAgain
    BY <2>3, ReceiptInv
  <2>4. CASE Judging
    BY <2>4, JudgingInv
  <2> QED BY <1>2, <2>1, <2>2, <2>3, <2>4 DEF Dispatch, Judging
<1>3. CASE Human
  BY <1>3, JudgingInv DEF Human, Judging
<1>4. CASE Completion
  BY <1>4, CompletionInv
<1>5. CASE UNCHANGED vars
  <2>1. UNCHANGED <<record, index, revision, admission, binding, step, round, session, taken,
                    judged, attempts, completion, received, attached, faults>>
    BY <1>5 DEF vars, storage, dispatcher, history
  <2> QED
    BY <2>1 DEF IInv, TypeOK, RecordSound, TakenSound, JudgedSound, Frontier, Indexed, DeliveredOnce,
                CompletedLeavesNothingOpen
<1> QED BY <1>1, <1>2, <1>3, <1>4, <1>5 DEF Next

-----------------------------------------------------------------------------
(* The theorems *)

\* The invariant of the follow-ups of a run, from attachment to close (followup.ts,
\* admission-rpc.ts and dispatcher.ts share the records).
THEOREM FollowupsInvariant == Spec => []IInv
  BY InvInit, InvNext, PTL DEF Spec

\* Storage and dispatcher keep their types; index and prompt keep their limits
\* (followup.ts, FOLLOWUP_LIMITS).
THEOREM FollowupsTypeCorrect == Spec => []TypeOK
<1>1. IInv => TypeOK
  BY DEF IInv
<1> QED BY <1>1, FollowupsInvariant, PTL

\* No message is in two prompts of the run, whatever fails around its reservation, its
\* delivery, its receipt and its confirmation (followup.ts, createFollowupTakeSeam).
THEOREM FollowupsDeliverOnce == Spec => []DeliveredOnce
<1>1. IInv => DeliveredOnce
  BY DEF IInv
<1> QED BY <1>1, FollowupsInvariant, PTL

\* A completed run leaves none of its messages open, and what counts as consumed was in a
\* prompt (dispatcher.ts, the commit of an accepted round).
THEOREM CompletedIsComplete == Spec => []CompletedLeavesNothingOpen
<1>1. IInv => CompletedLeavesNothingOpen
  BY DEF IInv
<1> QED BY <1>1, FollowupsInvariant, PTL

\* What was attached after the judge looked waits for a prompt, until the callback of a pause
\* closes it.
LateIsPending ==
  step \in {"judge", "budget"} /\ completion.status = "waiting" =>
    \A m \in attached \ judged.seen : record[m].state = "pending"

LEMMA LateInvariant == Spec => []LateIsPending
<1>1. Init => LateIsPending
  BY DEF Init, LateIsPending
<1>2. IInv /\ LateIsPending /\ [Next]_vars => LateIsPending'
  <2> SUFFICES ASSUME IInv, LateIsPending, Next,
                      step' \in {"judge", "budget"}, completion'.status = "waiting",
                      NEW m \in attached' \ judged'.seen
               PROVE  record'[m].state = "pending"
    BY DEF LateIsPending, vars, storage, dispatcher, history
  <2>1. CASE \E n \in Messages : Attach(n) \/ AttachFailed(n)
    <3>1. PICK n \in Messages : Attach(n) \/ AttachFailed(n)
      BY <2>1
    <3>2. /\ UNCHANGED <<step, completion, judged>> /\ attached \subseteq Messages
          /\ record \in [Messages -> FollowupRecord]
      BY <3>1 DEF Attach, AttachFailed, dispatcher, IInv, TypeOK
    <3>3. n \notin attached
      BY <3>1, AttachingIsNew DEF Attach, AttachFailed
    <3>4. m # n => m \in attached /\ record'[m] = record[m]
      BY <3>1, <3>2 DEF Attach, AttachFailed, history
    <3>5. m = n => record'[m] = Pending
      BY <3>1, <3>2, <3>3 DEF Attach, AttachFailed, history
    <3>6. m \notin judged.seen /\ step \in {"judge", "budget"} /\ completion.status = "waiting"
      BY <3>2
    <3>7. Pending.state = "pending"
      BY DEF Pending, Absent
    <3> QED BY <3>4, <3>5, <3>6, <3>7 DEF LateIsPending
  <2>2. CASE Completion
    BY <2>2 DEF Completion, Complete, CompleteFailed, CompleteAsFailed, IInv, TypeOK
  <2>3. CASE ReadFrontier \/ Refresh
    <3>1. attached' = attached /\ judged'.seen = Indexed
      BY <2>3 DEF ReadFrontier, Refresh, history, Frontier
    <3>2. attached \subseteq Indexed
      BY DEF IInv, RecordSound, TypeOK
    <3> QED BY <3>1, <3>2
  <2>4. CASE AskBudget
    BY <2>4 DEF AskBudget, LateIsPending, storage, dispatcher, history
  <2>5. CASE Human
    BY <2>5 DEF Human, HumanResume, HumanStop, Returns
  <2>6. CASE Dispatch /\ ~(ReadFrontier \/ Refresh \/ AskBudget)
    BY <2>6 DEF Dispatch, Reserve, ReserveFailed, PromptDelivered, PromptFailed, MarkDelivered,
       Confirm, ConfirmFailed, MarkAgain, WorkerDone, RoundFails, FrontierUnreadable,
       RefreshExhausted, CommitAccept, CommitStop, CommitFailed, NextRound, Pause, Returns
  <2> QED BY <2>1, <2>2, <2>3, <2>4, <2>5, <2>6 DEF Next
<1> QED BY <1>1, <1>2, FollowupsInvariant, PTL DEF Spec

\* Every verdict that passes the fence was given by a judge who had been shown every message
\* attached by then, and what comes while the budget is asked waits for the next prompt
\* (dispatcher.ts, the two revision checks and the await before the transition).
THEOREM VerdictsAreFenced == Spec => JudgedOnWhatWasAttached
<1>1. IInv /\ LateIsPending /\ [Next]_vars =>
        [/\ step = "judge" /\ step' \in {"completed", "stopped", "awaiting-human", "budget"}
              => attached \subseteq judged.seen
         /\ step = "budget" /\ step' \in {"reserve", "awaiting-human"} /\ completion.status = "waiting"
              => \A m \in attached \ judged.seen : record'[m].state = "pending"]_vars
  <2> SUFFICES ASSUME IInv, LateIsPending, Next
               PROVE  /\ step = "judge" /\ step' \in {"completed", "stopped", "awaiting-human", "budget"}
                           => attached \subseteq judged.seen
                      /\ step = "budget" /\ step' \in {"reserve", "awaiting-human"} /\ completion.status = "waiting"
                           => \A m \in attached \ judged.seen : record'[m].state = "pending"
    BY DEF vars
  <2>1. step = "judge" /\ step' \in {"completed", "stopped", "awaiting-human", "budget"} => ~Stale
    BY DEF Next, Dispatch, Human, Completion, Attach, AttachFailed, Complete, CompleteFailed,
       CompleteAsFailed, HumanResume, HumanStop, Reserve, ReserveFailed, PromptDelivered,
       PromptFailed, MarkDelivered, Confirm, ConfirmFailed, MarkAgain, WorkerDone, RoundFails,
       ReadFrontier, FrontierUnreadable, Refresh, RefreshExhausted, CommitAccept, CommitStop,
       CommitFailed, AskBudget, NextRound, Pause, Returns
  <2>2. step = "budget" /\ step' \in {"reserve", "awaiting-human"} => UNCHANGED record
    BY DEF Next, Dispatch, Human, Completion, Attach, AttachFailed, Complete, CompleteFailed,
       CompleteAsFailed, HumanResume, HumanStop, Reserve, ReserveFailed, PromptDelivered,
       PromptFailed, MarkDelivered, Confirm, ConfirmFailed, MarkAgain, WorkerDone, RoundFails,
       ReadFrontier, FrontierUnreadable, Refresh, RefreshExhausted, CommitAccept, CommitStop,
       CommitFailed, AskBudget, NextRound, Pause, Returns, storage
  <2> QED BY <2>1, <2>2 DEF IInv, JudgedSound, Stale, LateIsPending
<1> QED BY <1>1, FollowupsInvariant, LateInvariant, PTL DEF Spec, JudgedOnWhatWasAttached

\* A settled record is never opened again: no late receipt, revert, reservation, close or
\* second attachment changes it (followup.ts, the state checks of every transition).
THEOREM RecordsAreFinal == Spec => SettledIsFinal
<1> DEFINE Keeps == \A m \in Messages : record[m].state \in Settled => record'[m].state = record[m].state
<1>1. ASSUME IInv, Next PROVE Keeps
  <2> USE DEF storage
  <2>1. CASE UNCHANGED record
    BY <2>1
  <2>2. CASE \E n \in Messages : Attach(n) \/ AttachFailed(n)
    <3>1. PICK n \in Messages : Attach(n) \/ AttachFailed(n)
      BY <2>2
    <3>2. record[n].state \notin Settled
      BY <1>1, <3>1, AttachingIsNew DEF Attach, AttachFailed
    <3>3. \A m \in Messages : m # n => record'[m] = record[m]
      BY <1>1, <3>1 DEF Attach, AttachFailed, IInv, TypeOK
    <3> QED BY <3>2, <3>3
  <2>3. CASE \E unreadable \in SUBSET Indexed : Reserve(unreadable) \/ ReserveFailed(unreadable)
    <3>1. PICK unreadable \in SUBSET Indexed : Reserve(unreadable) \/ ReserveFailed(unreadable)
      BY <2>3
    <3>2. \A m \in Targets(unreadable) \cup FoundDelivered(unreadable) : record[m].state \notin Settled
      BY <1>1, TargetsSound, FoundIsDelivered DEF IInv, Reservable, Settled
    <3>3. \A m \in Messages :
            m \notin Targets(unreadable) \cup FoundDelivered(unreadable) => record'[m] = record[m]
      BY <3>1 DEF Reserve, ReserveFailed
    <3> QED BY <3>2, <3>3
  <2>4. CASE step = "prompt" /\ \E items \in SUBSET taken : record' = Reverted(items)
    <3>1. \A m \in taken : record[m].state # "consumed"
      BY <1>1, <2>4 DEF IInv, TakenSound
    <3> QED BY <2>4, <3>1 DEF Reverted, Settled
  <2>5. CASE \E items \in SUBSET taken : record' \in {Marked(items), Confirmed(items)}
    BY <2>5 DEF Marked, Confirmed, Settled, Open
  <2>6. CASE Completion
    <3>1. \E items : record' = ClosedRecords(items)
      BY <2>6 DEF Completion, Complete, CompleteFailed, CompleteAsFailed, CloseAll, CloseSome
    <3> QED BY <3>1 DEF ClosedRecords, Settled, Open
  <2>7. CASE Dispatch /\ ~\E unreadable \in SUBSET Indexed : Reserve(unreadable) \/ ReserveFailed(unreadable)
    <3>1. CASE \E replyLost \in BOOLEAN : PromptFailed(replyLost)
      BY <2>4, <3>1 DEF PromptFailed
    <3>2. CASE MarkDelivered \/ Confirm \/ ConfirmFailed \/ MarkAgain
      <4>1. taken \in SUBSET taken /\ \A m \in taken : TakenBefore(m) \in SUBSET taken
        BY DEF TakenBefore
      <4>2. \E items \in SUBSET taken : record' \in {Marked(items), Confirmed(items)}
        BY <3>2, <4>1 DEF MarkDelivered, Confirm, ConfirmFailed, MarkAgain, MarkAll, MarkSome
      <4> QED BY <2>5, <4>2
    <3>3. CASE PromptDelivered \/ WorkerDone \/ RoundFails \/ ReadFrontier \/ FrontierUnreadable
               \/ Refresh \/ RefreshExhausted \/ CommitAccept \/ CommitStop \/ CommitFailed
               \/ AskBudget \/ NextRound \/ Pause
      BY <2>1, <3>3 DEF PromptDelivered, WorkerDone, RoundFails, ReadFrontier, FrontierUnreadable,
           Refresh, RefreshExhausted, CommitAccept, CommitStop, CommitFailed, AskBudget, NextRound, Pause
    <3> QED BY <2>7, <3>1, <3>2, <3>3 DEF Dispatch
  <2>8. CASE Human
    BY <2>1, <2>8 DEF Human, HumanResume, HumanStop
  <2> QED BY <1>1, <2>2, <2>3, <2>6, <2>7, <2>8 DEF Next
<1>2. IInv /\ [Next]_vars => [Keeps]_vars
  BY <1>1
<1> QED BY <1>2, FollowupsInvariant, PTL DEF Spec, SettledIsFinal

=============================================================================
