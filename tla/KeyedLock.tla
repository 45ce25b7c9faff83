------------------------------ MODULE KeyedLock ------------------------------
(***************************************************************************)
(* withKeyedLock of lock.ts, for one key (keys never meet), and with it    *)
(* withResumeLock of resume-lock.ts, which is the same algorithm.          *)
(*                                                                         *)
(* There is no queue: a call chains its own promise `tail` behind the one  *)
(* it found in the map and waits for that one.  A tail settles once the    *)
(* tail before it has settled and its own caller has released.  Settling   *)
(* and resuming a waiter are separate turns of the event loop.             *)
(***************************************************************************)
EXTENDS Integers, Sequences

CONSTANT Calls   \* calls of withKeyedLock for the key, each made once

NoTail == "no tail"   \* the map has no entry for the key

ASSUME CallsAssumption == NoTail \notin Calls

VARIABLES
  tails,     \* the map's entry for the key: the call whose tail it is, or NoTail
  prev,      \* the tail each call waits for, NoTail for a resolved promise
  released,  \* calls whose `current` promise is resolved
  settled,   \* calls whose tail is resolved
  pc,        \* what each call is doing
  order      \* history: calls in the order in which they were made

vars == <<tails, prev, released, settled, pc, order>>

Init ==
  /\ tails = NoTail
  /\ prev = [c \in Calls |-> NoTail]
  /\ released = {}
  /\ settled = {}
  /\ pc = [c \in Calls |-> "idle"]
  /\ order = <<>>

\* Up to the first await: the call is in the chain before anybody else runs.
Call(c) ==
  /\ pc[c] = "idle"
  /\ prev' = [prev EXCEPT ![c] = tails]
  /\ tails' = c
  /\ pc' = [pc EXCEPT ![c] = "waiting"]
  /\ order' = Append(order, c)
  /\ UNCHANGED <<released, settled>>

PrevSettled(c) == prev[c] = NoTail \/ prev[c] \in settled

\* Mutant of Enter: whoever finds the section free goes in.
EnterWhenFree(c) ==
  /\ pc[c] = "waiting"
  /\ \A d \in Calls : pc[d] # "inside"
  /\ pc' = [pc EXCEPT ![c] = "inside"]
  /\ UNCHANGED <<tails, prev, released, settled, order>>

Enter(c) ==
  /\ pc[c] = "waiting"
  /\ PrevSettled(c)
  /\ pc' = [pc EXCEPT ![c] = "inside"]
  /\ UNCHANGED <<tails, prev, released, settled, order>>

\* Mutants of Leave: the entry is never dropped; a throw skips the release.
LeaveKeepingEntry(c) ==
  /\ pc[c] = "inside"
  /\ released' = released \cup {c}
  /\ pc' = [pc EXCEPT ![c] = "left"]
  /\ UNCHANGED <<tails, prev, settled, order>>
LeaveOnReturnOnly(c) ==
  /\ pc[c] = "inside"
  /\ released' \in {released, released \cup {c}}
  /\ tails' = IF tails = c THEN NoTail ELSE tails
  /\ pc' = [pc EXCEPT ![c] = "left"]
  /\ UNCHANGED <<prev, settled, order>>

\* finally, whether fn returned or threw: release, and drop the entry if it is ours.
Leave(c) ==
  /\ pc[c] = "inside"
  /\ released' = released \cup {c}
  /\ tails' = IF tails = c THEN NoTail ELSE tails
  /\ pc' = [pc EXCEPT ![c] = "left"]
  /\ UNCHANGED <<prev, settled, order>>

Settle(c) ==
  /\ c \in released \ settled
  /\ PrevSettled(c)
  /\ settled' = settled \cup {c}
  /\ UNCHANGED <<tails, prev, released, pc, order>>

Next == \E c \in Calls : Call(c) \/ Enter(c) \/ Leave(c) \/ Settle(c)

Spec == Init /\ [][Next]_vars

\* The event loop resumes whoever can go on, and every critical section ends.
Fairness == \A c \in Calls : WF_vars(Enter(c)) /\ WF_vars(Leave(c)) /\ WF_vars(Settle(c))
FairSpec == Spec /\ Fairness

-----------------------------------------------------------------------------
(* Properties *)

TypeOK ==
  /\ tails \in Calls \cup {NoTail}
  /\ prev \in [Calls -> Calls \cup {NoTail}]
  /\ released \subseteq Calls /\ settled \subseteq released
  /\ pc \in [Calls -> {"idle", "waiting", "inside", "left"}]
  /\ order \in Seq(Calls)

\* Two calls with the same key are never inside at once.
MutualExclusion ==
  \A c, d \in Calls : pc[c] = "inside" /\ pc[d] = "inside" => c = d

\* "sem leak": the map keeps no entry once every call that was made has left.
NoLeak == (\A c \in Calls : pc[c] \in {"idle", "left"}) => tails = NoTail

\* "sem lost wakeup": every call that waits gets its turn.
EveryCallEnters == \A c \in Calls : pc[c] = "waiting" ~> pc[c] = "inside"

-----------------------------------------------------------------------------
(* Refinement: the chain of promises implements a line of callers. *)

\* The place of the first call that has not left, one past the last when all have.
FirstInLine ==
  CHOOSE k \in 1..(Len(order) + 1) :
    /\ \A i \in 1..(k - 1) : pc[order[i]] = "left"
    /\ k <= Len(order) => pc[order[k]] # "left"
Line == SubSeq(order, FirstInLine, Len(order))
Inside == {c \in Calls : pc[c] = "inside"}

Fifo == INSTANCE FifoLock WITH line <- Line, inside <- Inside
ImplementsFifoLock == Fifo!Spec

=============================================================================
