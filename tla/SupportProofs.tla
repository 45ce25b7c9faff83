----------------------------- MODULE SupportProofs -----------------------------
(***************************************************************************)
(* The components that stand beside a run and share no state with it: the  *)
(* lock, the poller of the TUI, the launcher and the presentation of       *)
(* results, each for every value of its constants.                         *)
(*                                                                         *)
(* The lock's argument follows the chain of tails: a call waits for the    *)
(* one made just before it, or for nobody when all the earlier ones have   *)
(* left; so the calls that have left come first in the history, and the    *)
(* rest of it is the line of FifoLock.                                     *)
(* The poller's is that of the polls under way at most one is its own, and *)
(* as only that one may show anything, nothing newer was shown since.      *)
(* The launcher's is that a launcher that lives holds the lock, and once   *)
(* its shutdown has begun it starts nothing more and knows of every child  *)
(* that still runs, so that an empty list means that none does.            *)
(* The presentation's is that what is under way has not been seen and what *)
(* was shown has: for as long as the set of those seen evicts nothing.     *)
(***************************************************************************)
EXTENDS KeyedLock, SummaryPoller, Launcher, Presentation,
        SequenceTheorems, FiniteSetTheorems, TLAPS

-----------------------------------------------------------------------------
(* The keyed lock: lock.ts and resume-lock.ts *)

\* The history lists exactly the calls that were made, each once.
OrderLists ==
  /\ \A c \in Calls : pc[c] # "idle" <=> \E i \in 1..Len(order) : order[i] = c
  /\ \A i, j \in 1..Len(order) : order[i] = order[j] => i = j

\* The tail a call waits for is that of the call before it; with none to wait for,
\* every earlier call has left.
Chained ==
  \A i \in 1..Len(order) :
    \/ prev[order[i]] = NoTail /\ \A j \in 1..(i - 1) : pc[order[j]] = "left"
    \/ i > 1 /\ prev[order[i]] = order[i - 1]

\* Calls get inside in the order in which they were made.
InOrder ==
  \A i, j \in 1..Len(order) :
    i < j /\ pc[order[j]] \in {"inside", "left"} => pc[order[i]] = "left"

\* The map's entry is the last call made, until that one leaves.
EntryIsLast ==
  IF tails = NoTail THEN \A c \in Calls : pc[c] \in {"idle", "left"}
  ELSE /\ Len(order) > 0
       /\ tails = order[Len(order)]
       /\ pc[tails] \in {"waiting", "inside"}

ReleasedLeft == \A c \in released : pc[c] = "left"

LockInv == TypeOK /\ OrderLists /\ Chained /\ InOrder /\ EntryIsLast /\ ReleasedLeft

\* The empty history satisfies every part of the invariant.
LEMMA LockInvInit == Init => LockInv
  BY CallsAssumption DEF Init, LockInv, TypeOK, OrderLists, Chained, InOrder, EntryIsLast, ReleasedLeft

\* A call whose previous tail has settled has only calls that left before it.
LEMMA EarlierLeft ==
  ASSUME LockInv, NEW i \in 1..Len(order), PrevSettled(order[i])
  PROVE  \A j \in 1..(i - 1) : pc[order[j]] = "left"
<1>1. CASE prev[order[i]] = NoTail
  <2>1. order[i] \in Calls
    BY DEF LockInv, TypeOK
  <2>2. \A j \in 1..Len(order) : order[j] \in Calls
    BY DEF LockInv, TypeOK
  <2> QED BY <1>1, <2>1, <2>2, CallsAssumption DEF LockInv, Chained
<1>2. CASE prev[order[i]] # NoTail
  <2>1. i > 1 /\ prev[order[i]] = order[i - 1]
    BY <1>2 DEF LockInv, Chained
  <2>2. i - 1 \in 1..Len(order)
    BY <2>1 DEF LockInv, TypeOK
  <2>3. pc[order[i - 1]] = "left"
    BY <1>2, <2>1 DEF LockInv, TypeOK, PrevSettled, ReleasedLeft
  <2>4. \A j \in 1..(i - 1) : j = i - 1 \/ j < i - 1
    BY <2>2
  <2> QED BY <2>2, <2>3, <2>4 DEF LockInv, InOrder, TypeOK
<1> QED BY <1>1, <1>2

\* Making a call extends the chain at its end.
LEMMA CallStep ==
  ASSUME LockInv, NEW c \in Calls, Call(c)
  PROVE  LockInv'
<1> DEFINE n == Len(order)
<1>1. /\ order' = Append(order, c) /\ Len(order') = n + 1 /\ n \in Nat
      /\ order'[n + 1] = c /\ \A i \in 1..n : order'[i] = order[i] /\ order[i] \in Calls
  BY DEF LockInv, TypeOK, Call
<1>2. \A i \in 1..n : order[i] # c
  BY DEF LockInv, OrderLists, Call
<1>3. /\ pc'[c] = "waiting" /\ \A d \in Calls \ {c} : pc'[d] = pc[d]
      /\ prev'[c] = tails /\ \A d \in Calls \ {c} : prev'[d] = prev[d]
      /\ tails' = c /\ released' = released
  BY DEF LockInv, TypeOK, Call
<1>4. 1..Len(order') = 1..n \cup {n + 1}
  BY <1>1
<1> HIDE DEF n
<1>5. TypeOK'
  BY DEF LockInv, TypeOK, Call
<1>6. OrderLists'
  <2>1. \A d \in Calls : pc[d] # "idle" <=> \E i \in 1..n : order[i] = d
    BY DEF LockInv, OrderLists, n
  <2>2. \A i, j \in 1..n : order[i] = order[j] => i = j
    BY DEF LockInv, OrderLists, n
  <2> QED BY <1>1, <1>2, <1>3, <1>4, <2>1, <2>2 DEF OrderLists
<1>7. Chained'
  <2>1. ASSUME NEW i \in 1..n
        PROVE  \/ prev'[order'[i]] = NoTail /\ \A j \in 1..(i - 1) : pc'[order'[j]] = "left"
               \/ i > 1 /\ prev'[order'[i]] = order'[i - 1]
    <3>1. \/ prev[order[i]] = NoTail /\ \A j \in 1..(i - 1) : pc[order[j]] = "left"
          \/ i > 1 /\ prev[order[i]] = order[i - 1]
      BY DEF LockInv, Chained, n
    <3>2. \A j \in 1..(i - 1) : j \in 1..n
      BY <1>1
    <3>3. i > 1 => i - 1 \in 1..n
      BY <1>1
    <3> QED BY <1>1, <1>2, <1>3, <3>1, <3>2, <3>3
  <2>2. CASE tails = NoTail
    <3>1. \A j \in 1..n : pc[order[j]] = "left"
      BY <1>1, <2>2 DEF LockInv, EntryIsLast, OrderLists, n
    <3>2. \A j \in 1..n : pc'[order'[j]] = "left"
      BY <1>1, <1>2, <1>3, <3>1
    <3>3. (n + 1) - 1 = n
      BY <1>1
    <3> QED BY <1>1, <1>3, <1>4, <2>1, <2>2, <3>2, <3>3 DEF Chained
  <2>3. CASE tails # NoTail
    <3>1. n > 0 /\ tails = order[n]
      BY <2>3 DEF LockInv, EntryIsLast, n
    <3>2. n + 1 > 1 /\ (n + 1) - 1 = n /\ n \in 1..n
      BY <1>1, <3>1
    <3> QED BY <1>1, <1>3, <1>4, <2>1, <3>1, <3>2 DEF Chained
  <2> QED BY <2>2, <2>3
<1>8. InOrder'
  <2>1. \A i, j \in 1..n : i < j /\ pc[order[j]] \in {"inside", "left"} => pc[order[i]] = "left"
    BY DEF LockInv, InOrder, n
  <2>2. \A j \in 1..n : ~(n + 1 < j)
    BY <1>1
  <2> QED BY <1>1, <1>2, <1>3, <1>4, <2>1, <2>2 DEF InOrder
<1>9. EntryIsLast'
  BY <1>1, <1>3, CallsAssumption DEF EntryIsLast
<1>10. ReleasedLeft'
  BY <1>3 DEF LockInv, TypeOK, ReleasedLeft, Call
<1> QED BY <1>5, <1>6, <1>7, <1>8, <1>9, <1>10 DEF LockInv

\* A call gets inside only when all the earlier ones have left.
LEMMA EnterStep ==
  ASSUME LockInv, NEW c \in Calls, Enter(c)
  PROVE  LockInv'
<1>1. /\ pc'[c] = "inside" /\ \A d \in Calls \ {c} : pc'[d] = pc[d]
      /\ UNCHANGED <<tails, prev, released, settled, order>>
  BY DEF LockInv, TypeOK, Enter
<1>2. \A i \in 1..Len(order) : order[i] \in Calls
  BY DEF LockInv, TypeOK
<1>3. Len(order) \in Nat
  BY DEF LockInv, TypeOK
<1>4. PICK k \in 1..Len(order) : order[k] = c
  BY DEF LockInv, OrderLists, Enter
<1>5. \A j \in 1..(k - 1) : pc[order[j]] = "left"
  BY <1>4, EarlierLeft DEF Enter
<1>6. \A d \in Calls : pc[d] = "left" => pc'[d] = "left"
  BY <1>1 DEF Enter
<1>7. TypeOK'
  BY DEF LockInv, TypeOK, Enter
<1>8. OrderLists'
  BY <1>1, <1>2 DEF LockInv, OrderLists, Enter
<1>9. Chained'
  <2> SUFFICES ASSUME NEW i \in 1..Len(order)
               PROVE  \/ prev[order[i]] = NoTail /\ \A j \in 1..(i - 1) : pc'[order[j]] = "left"
                      \/ i > 1 /\ prev[order[i]] = order[i - 1]
    BY <1>1 DEF Chained
  <2>1. \A j \in 1..(i - 1) : j \in 1..Len(order)
    BY <1>3
  <2> QED BY <1>2, <1>6, <2>1 DEF LockInv, Chained
<1>10. InOrder'
  <2> SUFFICES ASSUME NEW i \in 1..Len(order), NEW j \in 1..Len(order),
                      i < j, pc'[order[j]] \in {"inside", "left"}
               PROVE  pc'[order[i]] = "left"
    BY <1>1 DEF InOrder
  <2>1. CASE j = k
    <3>1. i \in 1..(k - 1)
      BY <1>3, <2>1
    <3> QED BY <1>2, <1>5, <1>6, <3>1
  <2>2. CASE j # k
    <3>1. order[j] # c
      BY <1>4, <2>2 DEF LockInv, OrderLists
    <3> QED BY <1>1, <1>2, <1>6, <3>1 DEF LockInv, InOrder
  <2> QED BY <2>1, <2>2
<1>11. EntryIsLast'
  BY <1>1 DEF LockInv, EntryIsLast, Enter, TypeOK
<1>12. ReleasedLeft'
  BY <1>1, <1>6 DEF LockInv, ReleasedLeft, TypeOK
<1> QED BY <1>7, <1>8, <1>9, <1>10, <1>11, <1>12 DEF LockInv

\* A call that leaves was the first of the line, and drops the entry only as the last.
LEMMA LeaveStep ==
  ASSUME LockInv, NEW c \in Calls, Leave(c)
  PROVE  LockInv'
<1>1. /\ pc'[c] = "left" /\ \A d \in Calls \ {c} : pc'[d] = pc[d]
      /\ pc[c] = "inside" /\ released' = released \cup {c}
      /\ tails' = IF tails = c THEN NoTail ELSE tails
      /\ UNCHANGED <<prev, settled, order>>
  BY DEF LockInv, TypeOK, Leave
<1>2. \A i \in 1..Len(order) : order[i] \in Calls
  BY DEF LockInv, TypeOK
<1>3. Len(order) \in Nat
  BY DEF LockInv, TypeOK
<1>4. PICK k \in 1..Len(order) : order[k] = c
  BY <1>1 DEF LockInv, OrderLists
<1>5. \A d \in Calls : pc[d] = "left" => pc'[d] = "left"
  BY <1>1
<1>6. TypeOK'
  BY DEF LockInv, TypeOK, Leave
<1>7. OrderLists'
  BY <1>1, <1>2 DEF LockInv, OrderLists
<1>8. Chained'
  <2> SUFFICES ASSUME NEW i \in 1..Len(order)
               PROVE  \/ prev[order[i]] = NoTail /\ \A j \in 1..(i - 1) : pc'[order[j]] = "left"
                      \/ i > 1 /\ prev[order[i]] = order[i - 1]
    BY <1>1 DEF Chained
  <2>1. \A j \in 1..(i - 1) : j \in 1..Len(order)
    BY <1>3
  <2> QED BY <1>2, <1>5, <2>1 DEF LockInv, Chained
<1>9. InOrder'
  <2> SUFFICES ASSUME NEW i \in 1..Len(order), NEW j \in 1..Len(order),
                      i < j, pc'[order[j]] \in {"inside", "left"}
               PROVE  pc'[order[i]] = "left"
    BY <1>1 DEF InOrder
  <2>1. pc[order[j]] \in {"inside", "left"}
    BY <1>1, <1>2
  <2> QED BY <1>2, <1>5, <2>1 DEF LockInv, InOrder
<1>10. EntryIsLast'
  <2>1. CASE tails = c
    <3>1. order[Len(order)] = c
      BY <2>1, CallsAssumption DEF LockInv, EntryIsLast
    <3>2. k = Len(order)
      BY <1>3, <1>4, <3>1 DEF LockInv, OrderLists
    <3>3. \A j \in 1..Len(order) : j = k \/ j < k
      BY <1>3, <3>2
    <3>4. \A j \in 1..Len(order) : pc'[order[j]] = "left"
      BY <1>1, <1>2, <1>4, <1>5, <3>3 DEF LockInv, InOrder
    <3>5. ASSUME NEW d \in Calls
          PROVE  pc'[d] \in {"idle", "left"}
      BY <1>1, <3>4 DEF LockInv, OrderLists
    <3> QED BY <1>1, <2>1, <3>5 DEF EntryIsLast
  <2>2. CASE tails # c
    <3>1. tails # NoTail
      BY <1>1 DEF LockInv, EntryIsLast
    <3>2. tails \in Calls \ {c}
      BY <2>2, <3>1 DEF LockInv, TypeOK
    <3> QED BY <1>1, <2>2, <3>1, <3>2 DEF LockInv, EntryIsLast
  <2> QED BY <2>1, <2>2
<1>11. ReleasedLeft'
  BY <1>1, <1>5 DEF LockInv, ReleasedLeft, TypeOK
<1> QED BY <1>6, <1>7, <1>8, <1>9, <1>10, <1>11 DEF LockInv

\* Settling a tail moves no call.
LEMMA SettleStep ==
  ASSUME LockInv, NEW c \in Calls, Settle(c)
  PROVE  LockInv'
<1>1. TypeOK'
  BY DEF LockInv, TypeOK, Settle
<1>2. UNCHANGED <<tails, prev, released, pc, order>>
  BY DEF Settle
<1>3. OrderLists' /\ Chained' /\ InOrder' /\ EntryIsLast' /\ ReleasedLeft'
  BY <1>2 DEF LockInv, OrderLists, Chained, InOrder, EntryIsLast, ReleasedLeft
<1> QED BY <1>1, <1>3 DEF LockInv

\* The chain of tails keeps its shape at every step.
THEOREM ChainInvariant == Spec => []LockInv
<1>1. ASSUME LockInv, [Next]_vars PROVE LockInv'
  <2>1. ASSUME NEW c \in Calls, Call(c) PROVE LockInv'
    BY <1>1, <2>1, CallStep
  <2>2. ASSUME NEW c \in Calls, Enter(c) PROVE LockInv'
    BY <1>1, <2>2, EnterStep
  <2>3. ASSUME NEW c \in Calls, Leave(c) PROVE LockInv'
    BY <1>1, <2>3, LeaveStep
  <2>4. ASSUME NEW c \in Calls, Settle(c) PROVE LockInv'
    BY <1>1, <2>4, SettleStep
  <2>5. CASE UNCHANGED vars
    BY <1>1, <2>5 DEF vars, LockInv, TypeOK, OrderLists, Chained, InOrder, EntryIsLast, ReleasedLeft
  <2> QED BY <1>1, <2>1, <2>2, <2>3, <2>4, <2>5 DEF Next
<1> QED BY LockInvInit, <1>1, PTL DEF Spec

\* Every variable of the lock keeps its type, whatever the calls.
THEOREM LockTypeCorrect == Spec => []TypeOK
<1>1. LockInv => TypeOK
  BY DEF LockInv
<1> QED BY ChainInvariant, <1>1, PTL

\* withKeyedLock and withResumeLock exclude: for every number of calls with the same
\* key, two are never inside at once.
THEOREM Exclusion == Spec => []MutualExclusion
<1>1. LockInv => MutualExclusion
  <2> SUFFICES ASSUME LockInv, NEW c \in Calls, NEW d \in Calls,
                      pc[c] = "inside", pc[d] = "inside"
               PROVE  c = d
    BY DEF MutualExclusion
  <2>1. PICK i \in 1..Len(order) : order[i] = c
    BY DEF LockInv, OrderLists
  <2>2. PICK j \in 1..Len(order) : order[j] = d
    BY DEF LockInv, OrderLists
  <2>3. ~(i < j) /\ ~(j < i)
    BY <2>1, <2>2 DEF LockInv, InOrder
  <2>4. i \in Nat /\ j \in Nat
    BY DEF LockInv, TypeOK
  <2>5. i = j
    BY <2>3, <2>4
  <2> QED BY <2>1, <2>2, <2>5
<1> QED BY ChainInvariant, <1>1, PTL

\* The map never keeps the entry of a key nobody uses any more.
THEOREM Cleanup == Spec => []NoLeak
<1>1. LockInv => NoLeak
  BY DEF LockInv, TypeOK, EntryIsLast, NoLeak
<1> QED BY ChainInvariant, <1>1, PTL

\* What divides the history: the calls before place k have left, the others have not.
Divides(k) ==
  /\ k \in 1..(Len(order) + 1)
  /\ \A i \in 1..Len(order) : pc[order[i]] = "left" <=> i < k

\* The first of a history s that has not left when p tells what each call is doing.
IsFirst(s, p, k) ==
  /\ \A i \in 1..(k - 1) : p[s[i]] = "left"
  /\ k <= Len(s) => p[s[k]] # "left"
FirstOf(s, p) == CHOOSE k \in 1..(Len(s) + 1) : IsFirst(s, p, k)

\* A history that divides has one first call, where it divides.
LEMMA FirstIsUnique ==
  ASSUME NEW s, NEW p, Len(s) \in Nat, NEW k \in 1..(Len(s) + 1),
         \A i \in 1..Len(s) : p[s[i]] = "left" <=> i < k
  PROVE  FirstOf(s, p) = k
<1>1. IsFirst(s, p, k)
  BY DEF IsFirst
<1>2. ASSUME NEW j \in 1..(Len(s) + 1), IsFirst(s, p, j)
      PROVE  j = k
  <2>1. ~(j < k)
    BY <1>2 DEF IsFirst
  <2>2. ~(k < j)
    BY <1>2 DEF IsFirst
  <2> QED BY <2>1, <2>2
<1> QED BY <1>1, <1>2 DEF FirstOf

\* The refinement mapping's line begins where the history divides, before and after a step.
LEMMA LineFromDivision ==
  ASSUME Len(order) \in Nat, Len(order') \in Nat, NEW k
  PROVE  /\ Divides(k) => FirstInLine = k
         /\ Divides(k)' => FirstInLine' = k
<1>1. FirstInLine = FirstOf(order, pc)
  BY DEF FirstInLine, FirstOf, IsFirst
<1>2. FirstInLine' = FirstOf(order', pc')
  BY DEF FirstInLine, FirstOf, IsFirst
<1>3. Divides(k) => FirstOf(order, pc) = k
  BY FirstIsUnique DEF Divides
<1>4. Divides(k)' => FirstOf(order', pc') = k
  BY FirstIsUnique DEF Divides
<1> QED BY <1>1, <1>2, <1>3, <1>4

\* Calls leave in the order in which they came, so that the history always divides.
Divided == \E k \in 1..(Len(order) + 1) : Divides(k)

\* Making a call appends it to the line.
LEMMA CallJoins ==
  ASSUME LockInv, LockInv', Divided, NEW c \in Calls, Call(c)
  PROVE  Divided' /\ Fifo!Join(c)
<1> DEFINE n == Len(order)
<1>1. /\ order' = Append(order, c) /\ Len(order') = n + 1 /\ n \in Nat /\ order \in Seq(Calls)
      /\ order'[n + 1] = c /\ \A i \in 1..n : order'[i] = order[i] /\ order[i] \in Calls
  BY DEF LockInv, TypeOK, Call
<1>2. /\ pc[c] = "idle" /\ pc'[c] = "waiting" /\ \A d \in Calls \ {c} : pc'[d] = pc[d]
  BY DEF LockInv, TypeOK, Call
<1>3. \A i \in 1..n : order[i] # c
  BY <1>2 DEF LockInv, OrderLists
<1>4. PICK k \in 1..(n + 1) : Divides(k)
  BY DEF Divided
<1>5. Divides(k)'
  <2>1. \A i \in 1..n : pc'[order'[i]] = "left" <=> i < k
    BY <1>1, <1>2, <1>3, <1>4 DEF Divides
  <2> QED BY <1>1, <1>2, <2>1 DEF Divides
<1>6. FirstInLine = k /\ FirstInLine' = k
  <2>1. FirstInLine = k
    BY <1>1, <1>4, LineFromDivision
  <2>2. FirstInLine' = k
    BY <1>1, <1>5, LineFromDivision
  <2> QED BY <2>1, <2>2
<1>7. Line = SubSeq(order, k, n) /\ Line' = SubSeq(Append(order, c), k, n + 1)
  BY <1>1, <1>6 DEF Line
<1>8. SubSeq(Append(order, c), k, n + 1) = Append(SubSeq(order, k, n), c)
  BY <1>1, <1>4
<1>9. Inside' = Inside
  BY <1>2 DEF Inside
<1>10. Divided'
  BY <1>1, <1>5 DEF Divided
<1> QED BY <1>7, <1>8, <1>9, <1>10 DEF Fifo!Join

\* The call that gets inside is the first of the line, and nobody else is inside.
LEMMA EnterIsHead ==
  ASSUME LockInv, LockInv', Divided, NEW c \in Calls, Enter(c)
  PROVE  Divided' /\ Fifo!Enter
<1> DEFINE n == Len(order)
<1>1. n \in Nat /\ order \in Seq(Calls) /\ \A i \in 1..n : order[i] \in Calls
  BY DEF LockInv, TypeOK
<1>2. /\ pc[c] = "waiting" /\ pc'[c] = "inside" /\ \A d \in Calls \ {c} : pc'[d] = pc[d]
      /\ order' = order
  BY DEF LockInv, TypeOK, Enter
<1>3. PICK k \in 1..(n + 1) : Divides(k)
  BY DEF Divided
<1>4. PICK i \in 1..n : order[i] = c
  BY <1>2 DEF LockInv, OrderLists
<1>5. \A j \in 1..(i - 1) : pc[order[j]] = "left"
  BY <1>4, EarlierLeft DEF Enter
<1>6. i = k
  <2>1. ~(i < k)
    BY <1>2, <1>3, <1>4 DEF Divides
  <2>2. ~(k < i)
    BY <1>1, <1>3, <1>5 DEF Divides
  <2> QED BY <1>1, <2>1, <2>2
<1>7. Divides(k)'
  BY <1>1, <1>2, <1>3, <1>4, <1>6 DEF Divides
<1>8. FirstInLine = k /\ FirstInLine' = k
  <2>1. FirstInLine = k
    BY <1>1, <1>2, <1>3, LineFromDivision
  <2>2. FirstInLine' = k
    BY <1>1, <1>2, <1>7, LineFromDivision
  <2> QED BY <2>1, <2>2
<1>9. Line = SubSeq(order, k, n) /\ Line' = Line
  BY <1>2, <1>8 DEF Line
<1>10. Line # <<>> /\ Head(Line) = c
  <2>1. k \in 1..n /\ n \in k..n
    BY <1>1, <1>6
  <2>2. Head(SubSeq(order, k, n)) = c
    BY <1>1, <1>4, <1>6, <2>1, HeadTailOfSubSeq
  <2>3. Len(SubSeq(order, k, n)) = n - k + 1
    BY <1>1, <2>1
  <2>4. SubSeq(order, k, n) # <<>>
    <3>1. Len(SubSeq(order, k, n)) # 0
      BY <1>1, <2>1, <2>3
    <3>2. Len(<<>>) = 0
      OBVIOUS
    <3> QED BY <3>1, <3>2
  <2> QED BY <1>9, <2>2, <2>4
<1>11. Inside = {}
  <2> SUFFICES ASSUME NEW d \in Calls, pc[d] = "inside" PROVE FALSE
    BY DEF Inside
  <2>1. PICK j \in 1..n : order[j] = d
    BY DEF LockInv, OrderLists
  <2>2. \A m \in 1..n : m < j => pc[order[m]] = "left"
    BY <2>1 DEF LockInv, InOrder
  <2>3. ~(i < j) /\ i # j
    BY <1>2, <1>4, <2>1, <2>2
  <2>4. ~(j < i)
    BY <1>1, <1>5, <2>1
  <2> QED BY <1>1, <2>3, <2>4
<1>12. Inside' = {c}
  BY <1>2, <1>11 DEF Inside
<1>13. Divided'
  BY <1>2, <1>7 DEF Divided
<1> QED BY <1>9, <1>10, <1>11, <1>12, <1>13 DEF Fifo!Enter

\* The call that leaves is the first of the line, and the line goes on behind it.
LEMMA LeaveIsHead ==
  ASSUME LockInv, LockInv', Divided, NEW c \in Calls, Leave(c)
  PROVE  Divided' /\ Fifo!Leave
<1> DEFINE n == Len(order)
<1>1. n \in Nat /\ order \in Seq(Calls) /\ \A i \in 1..n : order[i] \in Calls
  BY DEF LockInv, TypeOK
<1>2. /\ pc[c] = "inside" /\ pc'[c] = "left" /\ \A d \in Calls \ {c} : pc'[d] = pc[d]
      /\ order' = order
  BY DEF LockInv, TypeOK, Leave
<1>3. PICK k \in 1..(n + 1) : Divides(k)
  BY DEF Divided
<1>4. PICK i \in 1..n : order[i] = c
  BY <1>2 DEF LockInv, OrderLists
<1>5. \A j \in 1..n : j < i => pc[order[j]] = "left"
  BY <1>2, <1>4 DEF LockInv, InOrder
<1>6. i = k
  <2>1. ~(i < k)
    BY <1>2, <1>3, <1>4 DEF Divides
  <2>2. ~(k < i)
    BY <1>1, <1>3, <1>5 DEF Divides
  <2> QED BY <1>1, <2>1, <2>2
<1>7. Divides(k + 1)'
  <2>1. \A j \in 1..n : j # k => order[j] # c
    BY <1>4, <1>6 DEF LockInv, OrderLists
  <2>2. \A j \in 1..n : pc'[order[j]] = "left" <=> j < k \/ j = k
    BY <1>1, <1>2, <1>3, <1>4, <1>6, <2>1 DEF Divides
  <2> QED BY <1>1, <1>2, <1>6, <2>2 DEF Divides
<1>8. FirstInLine = k /\ FirstInLine' = k + 1
  <2>1. FirstInLine = k
    BY <1>1, <1>2, <1>3, LineFromDivision
  <2>2. FirstInLine' = k + 1
    BY <1>1, <1>2, <1>7, LineFromDivision
  <2> QED BY <2>1, <2>2
<1>9. Line = SubSeq(order, k, n) /\ Line' = SubSeq(order, k + 1, n)
  BY <1>2, <1>8 DEF Line
<1>10. Line # <<>> /\ Head(Line) = c /\ Tail(Line) = Line'
  <2>1. k \in 1..n /\ n \in k..n
    BY <1>1, <1>6
  <2>2. /\ Head(SubSeq(order, k, n)) = c
        /\ Tail(SubSeq(order, k, n)) = SubSeq(order, k + 1, n)
    BY <1>1, <1>4, <1>6, <2>1, HeadTailOfSubSeq
  <2>3. Len(SubSeq(order, k, n)) = n - k + 1
    BY <1>1, <2>1
  <2>4. SubSeq(order, k, n) # <<>>
    <3>1. Len(SubSeq(order, k, n)) # 0
      BY <1>1, <2>1, <2>3
    <3>2. Len(<<>>) = 0
      OBVIOUS
    <3> QED BY <3>1, <3>2
  <2> QED BY <1>9, <2>2, <2>4
<1>11. Inside = {c}
  <2> SUFFICES ASSUME NEW d \in Calls, pc[d] = "inside" PROVE d = c
    BY <1>2 DEF Inside
  <2>1. PICK j \in 1..n : order[j] = d
    BY DEF LockInv, OrderLists
  <2>2. \A m \in 1..n : m < j => pc[order[m]] = "left"
    BY <2>1 DEF LockInv, InOrder
  <2>3. ~(i < j) /\ ~(j < i)
    BY <1>2, <1>4, <1>5, <2>1, <2>2
  <2>4. i = j
    BY <1>1, <2>3
  <2> QED BY <1>4, <2>1, <2>4
<1>12. Inside' = {}
  BY <1>2, <1>11 DEF Inside
<1>13. Divided'
  BY <1>2, <1>6, <1>7 DEF Divided
<1> QED BY <1>9, <1>10, <1>11, <1>12, <1>13 DEF Fifo!Leave

\* The chain of promises is a line of callers, for any number of calls with the key:
\* a call joins at the end when it is made, gets inside from the front and leaves from
\* there; settling a tail is a stutter.
THEOREM LockImplementsFifo == Spec => ImplementsFifoLock
<1>1. Init => Divided /\ Fifo!Init
  <2> SUFFICES ASSUME Init PROVE Divided /\ Fifo!Init
    OBVIOUS
  <2>1. order = <<>> /\ Len(order) = 0 /\ LockInv
    BY LockInvInit DEF Init
  <2>2. Divides(1)
    BY <2>1 DEF Divides
  <2>3. FirstInLine = 1
    <3>1. FirstOf(order, pc) = 1
      BY <2>1, <2>2, FirstIsUnique DEF Divides
    <3> QED BY <3>1 DEF FirstInLine, FirstOf, IsFirst
  <2>4. Line = <<>>
    BY <2>1, <2>3, SubSeqEmpty DEF Line
  <2>5. Inside = {}
    BY DEF Init, Inside
  <2>6. Divided
    BY <2>1, <2>2 DEF Divided
  <2> QED BY <2>4, <2>5, <2>6 DEF Fifo!Init
<1>2. ASSUME LockInv, LockInv', Divided, [Next]_vars
      PROVE  Divided' /\ [Fifo!Next]_(Fifo!vars)
  <2>1. ASSUME NEW c \in Calls, Call(c) PROVE Divided' /\ Fifo!Next
    BY <1>2, <2>1, CallJoins DEF Fifo!Next
  <2>2. ASSUME NEW c \in Calls, Enter(c) PROVE Divided' /\ Fifo!Next
    BY <1>2, <2>2, EnterIsHead DEF Fifo!Next
  <2>3. ASSUME NEW c \in Calls, Leave(c) PROVE Divided' /\ Fifo!Next
    BY <1>2, <2>3, LeaveIsHead DEF Fifo!Next
  <2>4. ASSUME UNCHANGED <<order, pc>> PROVE Divided' /\ UNCHANGED Fifo!vars
    BY <1>2, <2>4 DEF Divided, Divides, Line, FirstInLine, Inside, Fifo!vars
  <2>5. ASSUME NEW c \in Calls, Settle(c) PROVE Divided' /\ UNCHANGED Fifo!vars
    BY <2>4, <2>5 DEF Settle
  <2>6. CASE UNCHANGED vars
    BY <2>4, <2>6 DEF vars
  <2> QED BY <1>2, <2>1, <2>2, <2>3, <2>5, <2>6 DEF Next
<1>3. ImplementsFifoLock <=> Fifo!Init /\ [][Fifo!Next]_(Fifo!vars)
  BY DEF ImplementsFifoLock, Fifo!Spec
<1> QED BY ChainInvariant, <1>1, <1>2, <1>3, PTL DEF Spec

-----------------------------------------------------------------------------
(* The poller: active-summary-poller.ts *)

\* Of the generation that runs at most one poll is under way, and it holds the next one up.
OwnPolls ==
  /\ \A p \in polls : p.generation = generation => polling = generation
  /\ \A p, q \in polls : p.generation = generation /\ q.generation = generation => p = q

\* What it was told is not older than what the user has seen.
OwnAnswersAreNewest ==
  \A p \in polls :
    p.generation = generation /\ p.answer.task = "active" /\ p.session = progress.session
      => p.answer.version >= progress.version

AnswersWereReached ==
  \A p \in polls : p.answer.task = "active" => p.answer.version <= run[p.session].version

ShownWasReached == progress.session \in Screens => progress.version <= run[progress.session].version

Runs == [Screens -> [task : {"active", "terminal"}, version : 1..MaxVersion, sound : BOOLEAN]]

PollerInv ==
  /\ PollerTypeOK /\ run \in Runs
  /\ closed => polled = Nowhere
  /\ OwnPolls /\ OwnAnswersAreNewest /\ AnswersWereReached /\ ShownWasReached

LEMMA PollerInvInit == PollerInit => PollerInv
<1> SUFFICES ASSUME PollerInit PROVE PollerInv
  OBVIOUS
<1>1. run \in Runs
  BY PollerAssumption DEF PollerInit, Runs
<1>2. polling \in 0..generation /\ generation \in Nat \ {0}
  BY DEF PollerInit, NoGeneration
<1>3. /\ lastShown \in [task : {"none", "active", "terminal"}, version : 0..MaxVersion]
      /\ progress \in [session : Screens \cup {Nowhere}, version : 0..MaxVersion]
  BY PollerAssumption DEF PollerInit, NothingShown
<1>4. PollerTypeOK
  BY <1>2, <1>3 DEF PollerInit, PollerTypeOK
<1>5. ShownWasReached
  BY PollerAssumption DEF PollerInit, ShownWasReached, Nowhere
<1> QED
  BY <1>1, <1>4, <1>5 DEF PollerInit, PollerInv, OwnPolls, OwnAnswersAreNewest, AnswersWereReached

\* The poller goes to another session, to none, or on with a new generation.
LEMMA StopKeeps ==
  ASSUME PollerInv, NEW to \in Screens \cup {Nowhere}, StopPoller(to), closed' => to = Nowhere,
         closed' \in BOOLEAN, screen' = screen, followed' \in Screens \cup {Nowhere},
         polls' \subseteq polls, polling' \in {polling, NoGeneration},
         UNCHANGED <<run, progress>>
  PROVE  PollerInv'
<1>1. generation \in Nat /\ generation' = generation + 1
  BY DEF PollerInv, PollerTypeOK, StopPoller
<1>2. \A p \in polls' : p.generation # generation'
  BY <1>1 DEF PollerInv, PollerTypeOK
<1>3. OwnPolls' /\ OwnAnswersAreNewest'
  BY <1>2 DEF OwnPolls, OwnAnswersAreNewest
<1>4. polling' \in 0..generation'
  BY <1>1 DEF PollerInv, PollerTypeOK, NoGeneration
<1>5. polls' \subseteq [session : Screens, generation : 1..generation',
                        answer : [task : {"unread", "unavailable", "active", "terminal"},
                                  version : 0..MaxVersion]]
  BY <1>1 DEF PollerInv, PollerTypeOK
<1>6. lastShown' \in [task : {"none", "active", "terminal"}, version : 0..MaxVersion]
  BY PollerAssumption DEF StopPoller, NothingShown
<1>7. PollerTypeOK'
  BY <1>1, <1>4, <1>5, <1>6 DEF PollerInv, PollerTypeOK, StopPoller
<1>8. run' \in Runs /\ AnswersWereReached' /\ ShownWasReached' /\ (closed' => polled' = Nowhere)
  BY DEF PollerInv, AnswersWereReached, ShownWasReached, StopPoller
<1> QED BY <1>3, <1>7, <1>8 DEF PollerInv

\* A poll that ends, of those the poller does not wait for or of the one it waits for.
LEMMA EndKeeps ==
  ASSUME PollerInv, NEW poll \in polls, PollEnds(poll)
  PROVE  /\ polls' \subseteq polls /\ polling' \in {polling, NoGeneration}
         /\ polling' \in 0..generation
         /\ \A p \in polls' : p.generation = generation => polling' = generation
<1>1. polls' \subseteq polls /\ polling' \in {polling, NoGeneration}
  BY DEF PollEnds
<1>2. polling' \in 0..generation
  BY <1>1 DEF PollerInv, PollerTypeOK, NoGeneration
<1>3. ASSUME NEW p \in polls', p.generation = generation PROVE polling' = generation
  <2>1. p \in polls /\ p # poll /\ polling = generation
    BY <1>3 DEF PollEnds, PollerInv, OwnPolls
  <2>2. poll.generation # generation
    BY <1>3, <2>1 DEF PollerInv, OwnPolls
  <2> QED BY <2>1, <2>2 DEF PollEnds
<1> QED BY <1>1, <1>2, <1>3

LEMMA PollerInvNext == PollerInv /\ [PollerNext]_pollerVars => PollerInv'
<1> SUFFICES ASSUME PollerInv, [PollerNext]_pollerVars PROVE PollerInv'
  OBVIOUS
<1> USE PollerAssumption DEF Nowhere
<1>1. ASSUME NEW to \in Screens \cup {Nowhere}, Move(to) PROVE PollerInv'
  BY <1>1 DEF Move, PollerInv, PollerTypeOK, OwnPolls, OwnAnswersAreNewest, AnswersWereReached, ShownWasReached
<1>2. ASSUME NEW s \in Screens, RunAdvances(s) PROVE PollerInv'
  <2>1. PICK task \in {"active", "terminal"}, sound \in BOOLEAN :
          run' = [run EXCEPT ![s] = [task |-> task, version |-> @.version + 1, sound |-> sound]]
    BY <1>2 DEF RunAdvances
  <2>2. run[s].version \in 1..MaxVersion /\ run[s].version < MaxVersion /\ run \in Runs
    BY <1>2 DEF RunAdvances, PollerInv, Runs
  <2>3. run[s].version + 1 \in 1..MaxVersion
    BY <2>2
  <2>4. run' \in Runs
    BY <2>1, <2>2, <2>3 DEF Runs
  <2>5. \A t \in Screens : run[t].version \in Nat /\ run'[t].version >= run[t].version
    BY <2>1, <2>2 DEF Runs
  <2>6. ShownWasReached'
    BY <1>2, <2>4, <2>5 DEF RunAdvances, ShownWasReached, PollerInv, PollerTypeOK, Runs
  <2>7. AnswersWereReached'
    BY <1>2, <2>4, <2>5 DEF RunAdvances, AnswersWereReached, PollerInv, PollerTypeOK, Runs
  <2> QED BY <1>2, <2>4, <2>6, <2>7 DEF RunAdvances, PollerInv, PollerTypeOK, OwnPolls, OwnAnswersAreNewest
<1>3. CASE Follow
  <2>1. CASE screen # Nowhere /\ polled = screen
    BY <1>3, <2>1 DEF Follow, PollerInv, PollerTypeOK, OwnPolls, OwnAnswersAreNewest, AnswersWereReached, ShownWasReached
  <2>2. CASE ~(screen # Nowhere /\ polled = screen)
    <3>1. screen \in Screens \cup {Nowhere} /\ StopPoller(screen)
      BY <1>3, <2>2 DEF Follow, PollerInv, PollerTypeOK
    <3> QED BY <1>3, <3>1, StopKeeps DEF Follow, PollerInv, PollerTypeOK
  <2> QED BY <2>1, <2>2
<1>4. CASE LifetimeEnds
  <2>1. StopPoller(Nowhere)
    BY <1>4 DEF LifetimeEnds
  <2> QED BY <1>4, <2>1, StopKeeps DEF LifetimeEnds, PollerInv, PollerTypeOK
<1>5. CASE Close
  <2>1. StopPoller(Nowhere)
    BY <1>5 DEF Close
  <2> QED BY <1>5, <2>1, StopKeeps DEF Close, PollerInv, PollerTypeOK
<1>6. CASE Poll
  <2>1. CASE CurrentSession = polled
    <3> DEFINE new == [session |-> polled, generation |-> generation, answer |-> Unread]
    <3>1. /\ polling' = generation /\ polls' = polls \cup {new}
          /\ UNCHANGED <<generation, polled, lastShown, screen, followed, run, progress, closed>>
      BY <1>6, <2>1 DEF Poll
    <3>2. polled \in Screens /\ generation \in Nat /\ polling # generation
      BY <1>6 DEF Poll, PollerInv, PollerTypeOK
    <3>3. \A p \in polls : p.generation # generation
      BY <3>2 DEF PollerInv, OwnPolls
    <3>4. generation \in 1..generation
      BY <3>2, <1>6 DEF PollerInv, PollerTypeOK, Poll
    <3>5. polls' \subseteq [session : Screens, generation : 1..generation,
                          answer : [task : {"unread", "unavailable", "active", "terminal"},
                                    version : 0..MaxVersion]]
      BY <3>1, <3>2, <3>4 DEF PollerInv, PollerTypeOK, Unread
    <3>6. polling' \in 0..generation
      BY <3>1, <3>2
    <3>7. PollerTypeOK'
      BY <3>1, <3>5, <3>6 DEF PollerInv, PollerTypeOK
    <3>8. OwnPolls' /\ OwnAnswersAreNewest' /\ AnswersWereReached'
      BY <3>1, <3>3 DEF PollerInv, OwnPolls, OwnAnswersAreNewest, AnswersWereReached, Unread
    <3> QED BY <3>1, <3>7, <3>8 DEF PollerInv, ShownWasReached
  <2>2. CASE CurrentSession # polled
    <3>1. StopPoller(Nowhere)
      BY <1>6, <2>2 DEF Poll
    <3> QED BY <1>6, <2>2, <3>1, StopKeeps DEF Poll, PollerInv, PollerTypeOK
  <2> QED BY <2>1, <2>2
<1>7. ASSUME NEW poll \in polls, ReadSummary(poll) PROVE PollerInv'
  <2> DEFINE read == [poll EXCEPT !.answer = SummaryOf(run[poll.session])]
  <2>1. /\ polls' = (polls \ {poll}) \cup {read}
        /\ UNCHANGED <<screen, followed, polled, generation, polling, lastShown, run, progress,
                       closed>>
    BY <1>7 DEF ReadSummary
  <2>2. poll \in [session : Screens, generation : 1..generation,
                  answer : [task : {"unread", "unavailable", "active", "terminal"},
                            version : 0..MaxVersion]]
    BY DEF PollerInv, PollerTypeOK
  <2>3. /\ SummaryOf(run[poll.session]) \in
             [task : {"unread", "unavailable", "active", "terminal"}, version : 0..MaxVersion]
        /\ SummaryOf(run[poll.session]).task = "active" =>
             SummaryOf(run[poll.session]).version = run[poll.session].version
    BY <2>2 DEF SummaryOf, Unavailable, PollerInv, Runs
  <2>4. /\ read.session = poll.session /\ read.generation = poll.generation
        /\ read.answer = SummaryOf(run[poll.session])
        /\ read \in [session : Screens, generation : 1..generation,
                     answer : [task : {"unread", "unavailable", "active", "terminal"},
                               version : 0..MaxVersion]]
    BY <2>2, <2>3
  <2> HIDE DEF read
  <2>5. PollerTypeOK'
    BY <2>1, <2>4 DEF PollerInv, PollerTypeOK
  <2>6. OwnPolls'
    BY <2>1, <2>4 DEF PollerInv, OwnPolls
  <2>7. read.answer.task = "active" /\ read.session = progress.session
          => read.answer.version >= progress.version
    BY <2>2, <2>3, <2>4 DEF PollerInv, ShownWasReached, Runs, PollerTypeOK
  <2>8. OwnAnswersAreNewest'
    BY <2>1, <2>7 DEF PollerInv, OwnAnswersAreNewest
  <2>9. AnswersWereReached'
    <3>1. read.answer.task = "active" => read.answer.version <= run[read.session].version
      BY <2>2, <2>3, <2>4 DEF PollerInv, Runs
    <3> QED BY <1>7, <2>1, <3>1 DEF ReadSummary, PollerInv, AnswersWereReached
  <2> QED BY <1>7, <2>1, <2>5, <2>6, <2>8, <2>9 DEF ReadSummary, PollerInv, ShownWasReached
<1>8. ASSUME NEW poll \in polls, AnswerDropped(poll) \/ PollFails(poll) PROVE PollerInv'
  <2>1. PollEnds(poll)
    BY <1>8 DEF AnswerDropped, PollFails
  <2> QED BY <1>8, <2>1, EndKeeps
          DEF AnswerDropped, PollFails, PollerInv, PollerTypeOK, OwnPolls, OwnAnswersAreNewest,
              AnswersWereReached, ShownWasReached
<1>9. ASSUME NEW poll \in polls, AnswerElsewhere(poll) PROVE PollerInv'
  <2>1. StopPoller(Nowhere) /\ PollEnds(poll)
    BY <1>9 DEF AnswerElsewhere
  <2> QED BY <1>9, <2>1, EndKeeps, StopKeeps DEF AnswerElsewhere, PollerInv, PollerTypeOK
<1>10. ASSUME NEW poll \in polls, AnswerShown(poll) PROVE PollerInv'
  <2>1. /\ poll.generation = generation /\ PollEnds(poll)
        /\ poll.answer.task = "active"
        /\ lastShown' = poll.answer
        /\ progress' = [session |-> poll.session, version |-> poll.answer.version]
        /\ UNCHANGED <<screen, followed, polled, generation, run, closed>>
    BY <1>10 DEF AnswerShown, IsOwn
  <2>2. poll \in [session : Screens, generation : 1..generation,
                  answer : [task : {"unread", "unavailable", "active", "terminal"},
                            version : 0..MaxVersion]]
    BY DEF PollerInv, PollerTypeOK
  <2>3. polls' \subseteq polls /\ \A p \in polls' : p.generation # generation
    BY <2>1 DEF PollEnds, PollerInv, OwnPolls
  <2>4. PollerTypeOK'
    BY <2>1, <2>2, <2>3, EndKeeps DEF PollerInv, PollerTypeOK
  <2>5. OwnPolls' /\ OwnAnswersAreNewest'
    BY <2>1, <2>3 DEF OwnPolls, OwnAnswersAreNewest
  <2>6. poll.answer.version <= run[poll.session].version
    BY <2>1 DEF PollerInv, AnswersWereReached
  <2>7. AnswersWereReached'
    BY <2>1, <2>3 DEF PollerInv, AnswersWereReached
  <2> QED BY <2>1, <2>2, <2>4, <2>5, <2>6, <2>7 DEF PollerInv, ShownWasReached
<1>11. ASSUME NEW poll \in polls, AnswerSilent(poll) PROVE PollerInv'
  <2>1. PollEnds(poll) /\ lastShown' \in {lastShown, poll.answer}
    BY <1>11 DEF AnswerSilent
  <2> QED BY <1>11, <2>1, EndKeeps
          DEF AnswerSilent, PollerInv, PollerTypeOK, OwnPolls, OwnAnswersAreNewest, AnswersWereReached, ShownWasReached
<1>12. CASE UNCHANGED pollerVars
  BY <1>12 DEF pollerVars, PollerInv, PollerTypeOK, OwnPolls, OwnAnswersAreNewest, AnswersWereReached, ShownWasReached
<1> QED
  BY <1>1, <1>2, <1>3, <1>4, <1>5, <1>6, <1>7, <1>8, <1>9, <1>10, <1>11, <1>12 DEF PollerNext


\* The poller waits for at most one poll of its own, and polls nothing once the TUI
\* closed (active-summary-poller.ts:74).
THEOREM PollerInvariant == PollerSpec => []PollerInv
  BY PollerInvInit, PollerInvNext, PTL DEF PollerSpec

\* Every type of the poller's state.
THEOREM PollerTypeCorrect == PollerSpec => []PollerTypeOK
<1>1. PollerInv => PollerTypeOK
  BY DEF PollerInv
<1> QED BY <1>1, PollerInvariant, PTL

\* Progress is shown where it belongs and never goes back, for any number of sessions, moves
\* of the user and late answers (active-summary-poller.ts:91-101).
THEOREM ProgressTheorem == PollerSpec => ProgressIsCurrent
<1> DEFINE Current ==
      progress' # progress =>
        /\ ~closed
        /\ progress'.session = screen /\ screen \in ParentScreens
        /\ progress.session = progress'.session => progress'.version >= progress.version
<1>1. ASSUME PollerInv, PollerNext PROVE Current
  <2> SUFFICES ASSUME progress' # progress PROVE Current
    OBVIOUS
  <2>1. PICK poll \in polls : AnswerShown(poll)
    BY <1>1 DEF PollerNext, Move, RunAdvances, Follow, LifetimeEnds, Close, Poll, ReadSummary,
                PollFails, AnswerDropped, AnswerElsewhere, AnswerSilent
  <2>2. poll.session \in Screens /\ polled = poll.session /\ CurrentSession = poll.session
    BY <1>1, <2>1 DEF AnswerShown, IsOwn, PollerInv, PollerTypeOK
  <2>3. ~closed
    BY <1>1, <2>2, PollerAssumption DEF PollerInv, Nowhere
  <2>4. screen = poll.session /\ screen \in ParentScreens
    BY <2>2, PollerAssumption DEF CurrentSession, Nowhere
  <2>5. progress' = [session |-> poll.session, version |-> poll.answer.version]
    BY <2>1 DEF AnswerShown
  <2>6. progress.session = poll.session => poll.answer.version >= progress.version
    BY <1>1, <2>1 DEF AnswerShown, IsOwn, PollerInv, OwnAnswersAreNewest
  <2> QED BY <2>3, <2>4, <2>5, <2>6
<1>2. PollerInv /\ [PollerNext]_pollerVars => [Current]_pollerVars
  BY <1>1
<1> QED BY <1>2, PollerInvariant, PTL DEF PollerSpec, ProgressIsCurrent

-----------------------------------------------------------------------------
(* The launcher: opjev.mjs *)

\* The lock is the one of whoever lives or has left a child.
Covered == \A l \in Launchers : Alive(l) \/ AnyUp(l) => lockFile.by = l

\* A shutdown that has begun knows of every child, and no other will be started.
KnowsItsChildren ==
  \A l \in Launchers :
    stopping[l] # NoShutdown =>
      /\ signalled[l] \/ starting[l] \in {"closing", "ended", "killed"}
      /\ \A c \in Children : Up(l, c) => c \in stopping[l]

LauncherInv == LauncherTypeOK /\ Covered /\ KnowsItsChildren

LEMMA LauncherInvInit == LauncherInit => LauncherInv
<1> SUFFICES ASSUME LauncherInit PROVE LauncherInv
  OBVIOUS
<1>1. failures \in 0..MaxFailures
  BY LauncherAssumption DEF LauncherInit
<1>2. LauncherTypeOK
  BY <1>1 DEF LauncherInit, LauncherTypeOK, NoFile, NoShutdown, Places
<1>3. Covered /\ KnowsItsChildren
  BY DEF LauncherInit, Covered, KnowsItsChildren, Alive, AnyUp, Up
<1> QED BY <1>2, <1>3 DEF LauncherInv

LEMMA FailuresInBound == LauncherInv /\ (failures' = failures \/ Failing) => failures' \in 0..MaxFailures
  BY LauncherAssumption DEF LauncherInv, LauncherTypeOK, Failing

\* A launcher that lives goes to another place, and nothing else changes.
LEMMA PlaceKeeps ==
  ASSUME LauncherInv, NEW l \in Launchers, Alive(l), NEW to \in Places, Goes(l, to),
         failures' \in 0..MaxFailures, plugin' \in {"absent", "unowned", "owned"},
         lockFile' = lockFile,
         to # "refused" /\ to # "none",
         stopping[l] = NoShutdown \/ signalled[l] \/ to \in {"closing", "ended", "killed"},
         UNCHANGED <<signalled, stopping, child>>
  PROVE  LauncherInv'
<1>1. /\ starting' \in [Launchers -> Places] /\ starting'[l] = to
      /\ \A m \in Launchers \ {l} : starting'[m] = starting[m]
  BY DEF LauncherInv, LauncherTypeOK, Goes
<1>2. LauncherTypeOK'
  BY <1>1 DEF LauncherInv, LauncherTypeOK
<1>3. Covered'
  BY <1>1 DEF LauncherInv, Covered, Alive, AnyUp, Up
<1>4. KnowsItsChildren'
  BY <1>1 DEF LauncherInv, KnowsItsChildren, Up
<1> QED BY <1>2, <1>3, <1>4 DEF LauncherInv

\* A child ends, or is ending.
LEMMA ChildKeeps ==
  ASSUME LauncherInv, NEW l \in Launchers, NEW c \in Children, NEW state \in {"ending", "down"},
         Up(l, c), child' = [child EXCEPT ![l][c] = state],
         failures' \in 0..MaxFailures,
         UNCHANGED <<lockFile, plugin, starting, signalled, stopping>>
  PROVE  LauncherInv'
<1>1. /\ child' \in [Launchers -> [Children -> {"none", "up", "ending", "down"}]]
      /\ \A m \in Launchers, d \in Children : child'[m][d] = child[m][d] \/ (m = l /\ d = c)
  BY DEF LauncherInv, LauncherTypeOK
<1>2. \A m \in Launchers, d \in Children : Up(m, d)' => Up(m, d)
  BY <1>1 DEF Up
<1>3. LauncherTypeOK'
  BY <1>1 DEF LauncherInv, LauncherTypeOK
<1>4. Covered'
  BY <1>2 DEF LauncherInv, Covered, Alive, AnyUp
<1>5. KnowsItsChildren'
  BY <1>2 DEF LauncherInv, KnowsItsChildren
<1> QED BY <1>3, <1>4, <1>5 DEF LauncherInv

LEMMA LauncherInvNext == LauncherInv /\ [LauncherNext]_launcherVars => LauncherInv'
<1> SUFFICES ASSUME LauncherInv, [LauncherNext]_launcherVars PROVE LauncherInv'
  OBVIOUS
<1>0. lockFile \in [by : Launchers, names : SUBSET Children, readable : BOOLEAN] \cup {NoFile}
  BY DEF LauncherInv, LauncherTypeOK
<1>1. CASE OperatorRemoves
  <2>1. \A l \in Launchers : ~Alive(l) /\ ~AnyUp(l)
    BY <1>1 DEF OperatorRemoves, LauncherInv, Covered
  <2>2. UNCHANGED <<plugin, starting, signalled, stopping, child, failures>> /\ lockFile' = NoFile
    BY <1>1 DEF OperatorRemoves
  <2>3. LauncherTypeOK'
    BY <2>2 DEF LauncherInv, LauncherTypeOK
  <2>4. Covered' /\ KnowsItsChildren'
    BY <2>1, <2>2 DEF LauncherInv, Covered, KnowsItsChildren, Alive, AnyUp, Up
  <2> QED BY <2>3, <2>4 DEF LauncherInv
<1>2. ASSUME NEW l \in Launchers, Acquire(l) PROVE LauncherInv'
  <2>1. \A m \in Launchers : ~Alive(m) /\ ~AnyUp(m)
    BY <1>2, LauncherAssumption DEF Acquire, LauncherInv, Covered, NoFile
  <2>2. /\ UNCHANGED <<plugin, signalled, stopping, child, failures>>
        /\ lockFile' = [by |-> l, names |-> {}, readable |-> TRUE]
        /\ starting' \in [Launchers -> Places] /\ starting'[l] = "checking"
        /\ \A m \in Launchers \ {l} : starting'[m] = starting[m]
    BY <1>2 DEF Acquire, Goes, LauncherInv, LauncherTypeOK, Places
  <2>3. LauncherTypeOK'
    BY <2>2 DEF LauncherInv, LauncherTypeOK
  <2>4. Covered'
    BY <2>1, <2>2 DEF Covered, Alive, AnyUp, Up
  <2>5. KnowsItsChildren'
    BY <1>2, <2>2 DEF LauncherInv, KnowsItsChildren, Up, Acquire
  <2> QED BY <2>3, <2>4, <2>5 DEF LauncherInv
<1>3. ASSUME NEW l \in Launchers, Refused(l) PROVE LauncherInv'
  <2>1. /\ UNCHANGED <<lockFile, plugin, signalled, stopping, child, failures>>
        /\ starting' \in [Launchers -> Places] /\ starting'[l] = "refused"
        /\ starting[l] = "none"
        /\ \A m \in Launchers \ {l} : starting'[m] = starting[m]
    BY <1>3 DEF Refused, Goes, LauncherInv, LauncherTypeOK, Places
  <2>2. LauncherTypeOK'
    BY <2>1 DEF LauncherInv, LauncherTypeOK
  <2>3. Covered' /\ KnowsItsChildren'
    BY <2>1 DEF LauncherInv, Covered, KnowsItsChildren, Alive, AnyUp, Up
  <2> QED BY <2>2, <2>3 DEF LauncherInv
<1>4. ASSUME NEW l \in Launchers,
             \/ Checked(l) \/ Installed(l) \/ InstallRefused(l) \/ ServerReady(l) \/ Connected(l)
             \/ StartFails(l) \/ ChildMissing(l) \/ Interrupted(l) \/ TuiGone(l) \/ Killed(l)
      PROVE  LauncherInv'
  <2>1. failures' \in 0..MaxFailures
    BY <1>4, FailuresInBound
       DEF Checked, Installed, InstallRefused, ServerReady, Connected, StartFails, ChildMissing,
           Interrupted, TuiGone, Killed
  <2>2. PICK to \in {"preparing", "ported", "probed", "connected", "closing", "killed"} :
          Goes(l, to) /\ (to \in {"closing", "killed"} \/ stopping[l] = NoShutdown \/ signalled[l])
    BY <1>4 DEF Checked, Installed, InstallRefused, ServerReady, Connected, StartFails,
                ChildMissing, Interrupted, TuiGone, Killed, LauncherInv, KnowsItsChildren
  <2>3. UNCHANGED <<lockFile, signalled, stopping, child>>
    BY <1>4 DEF Checked, Installed, InstallRefused, ServerReady, Connected, StartFails,
                ChildMissing, Interrupted, TuiGone, Killed
  <2>4. plugin' \in {"absent", "unowned", "owned"}
    BY <1>4 DEF Checked, Installed, InstallRefused, ServerReady, Connected, StartFails,
                ChildMissing, Interrupted, TuiGone, Killed, LauncherInv, LauncherTypeOK
  <2>5. Alive(l)
    BY <1>4 DEF Checked, Installed, InstallRefused, ServerReady, Connected, StartFails, Waiting,
                ChildMissing, Interrupted, TuiGone, Killed, Alive
  <2> QED BY <2>1, <2>2, <2>3, <2>4, <2>5, PlaceKeeps DEF Places
<1>5. ASSUME NEW l \in Launchers, Spawn(l) \/ SpawnFails(l) PROVE LauncherInv'
  <2>1. /\ starting[l] \in DOMAIN Spawns /\ ~signalled[l]
        /\ UNCHANGED <<lockFile, plugin, signalled, stopping>>
        /\ failures' = failures \/ Failing
    BY <1>5 DEF Spawn, SpawnFails, MaySpawn
  <2>2. DOMAIN Spawns = {"ported", "probed", "connected"}
    BY DEF Spawns
  <2>3. stopping[l] = NoShutdown /\ Alive(l)
    BY <2>1, <2>2 DEF LauncherInv, KnowsItsChildren, Alive
  <2>4. PICK c \in Children, state \in {"up", "down"}, to \in {"serverUp", "gatewayUp", "tuiUp"} :
          child' = [child EXCEPT ![l][c] = state] /\ Goes(l, to)
    BY <1>5, <2>1, <2>2 DEF Spawn, SpawnFails, Spawns, Spawned, Children
  <2>5. /\ starting' \in [Launchers -> Places] /\ starting'[l] = to
        /\ \A m \in Launchers \ {l} : starting'[m] = starting[m]
    BY <2>4 DEF LauncherInv, LauncherTypeOK, Goes, Places
  <2>6. /\ child' \in [Launchers -> [Children -> {"none", "up", "ending", "down"}]]
        /\ \A m \in Launchers \ {l} : child'[m] = child[m]
    BY <2>4 DEF LauncherInv, LauncherTypeOK
  <2>7. LauncherTypeOK'
    BY <2>1, <2>5, <2>6, FailuresInBound DEF LauncherInv, LauncherTypeOK
  <2>8. Covered'
    BY <2>1, <2>3, <2>5, <2>6 DEF LauncherInv, Covered, Alive, AnyUp, Up
  <2>9. KnowsItsChildren'
    BY <2>1, <2>3, <2>5, <2>6 DEF LauncherInv, KnowsItsChildren, Up
  <2> QED BY <2>7, <2>8, <2>9 DEF LauncherInv
<1>6. ASSUME NEW l \in Launchers, Record(l) \/ RecordFails(l) PROVE LauncherInv'
  <2>1. starting[l] \in {"serverUp", "gatewayUp", "tuiUp"}
    BY <1>6 DEF Record, RecordFails, Recorded
  <2>2. Alive(l) /\ lockFile.by = l /\ lockFile # NoFile
    BY <2>1, LauncherAssumption DEF Alive, LauncherInv, Covered, NoFile
  <2>3. /\ lockFile' \in [by : Launchers, names : SUBSET Children, readable : BOOLEAN]
        /\ lockFile'.by = l
    <3>1. ChildOf[starting[l]] \in Children
      BY <2>1 DEF ChildOf, Children
    <3>2. lockFile \in [by : Launchers, names : SUBSET Children, readable : BOOLEAN]
      BY <1>0, <2>2
    <3>3. CASE Record(l)
      <4>1. lockFile' = [lockFile EXCEPT !.names = lockFile.names \cup {ChildOf[starting[l]]}]
        BY <2>2, <3>3 DEF Record, Names
      <4> QED BY <2>2, <3>1, <3>2, <4>1
    <3>4. CASE RecordFails(l)
      <4>1. lockFile' \in {lockFile, [lockFile EXCEPT !.readable = FALSE]}
        BY <2>2, <3>4 DEF RecordFails
      <4> QED BY <2>2, <3>2, <4>1
    <3> QED BY <1>6, <3>3, <3>4
  <2>4. PICK to \in {"serverReady", "gatewayReady", "attached", "closing"} : Goes(l, to)
    BY <1>6, <2>1 DEF Record, RecordFails, Recorded
  <2>5. UNCHANGED <<plugin, signalled, stopping, child>>
    BY <1>6 DEF Record, RecordFails
  <2>6. /\ starting' \in [Launchers -> Places] /\ starting'[l] = to
        /\ \A m \in Launchers \ {l} : starting'[m] = starting[m]
    BY <2>4 DEF LauncherInv, LauncherTypeOK, Goes, Places
  <2>7. failures' \in 0..MaxFailures
    BY <1>6, FailuresInBound DEF Record, RecordFails
  <2>8. LauncherTypeOK'
    BY <2>3, <2>5, <2>6, <2>7 DEF LauncherInv, LauncherTypeOK
  <2>9. Covered'
    BY <2>2, <2>3, <2>5, <2>6 DEF LauncherInv, Covered, Alive, AnyUp, Up
  <2>10. KnowsItsChildren'
    BY <2>1, <2>5, <2>6 DEF LauncherInv, KnowsItsChildren, Up
  <2> QED BY <2>8, <2>9, <2>10 DEF LauncherInv
<1>7. ASSUME NEW l \in Launchers, Signal(l) \/ Shutdown(l) PROVE LauncherInv'
  <2>1. /\ UNCHANGED <<lockFile, plugin, starting, child, failures>>
        /\ signalled' \in [Launchers -> BOOLEAN]
        /\ \A m \in Launchers : signalled'[m] = signalled[m] \/ (m = l /\ signalled'[m])
        /\ signalled'[l] \/ starting[l] = "closing"
    BY <1>7 DEF Signal, Shutdown, LauncherInv, LauncherTypeOK
  <2>2. stopping' = [stopping EXCEPT ![l] = Running(l, Children)]
          \/ (stopping' = stopping /\ stopping[l] # NoShutdown)
    BY <1>7 DEF Signal, Shutdown
  <2>3. Running(l, Children) \in SUBSET Children /\ \A c \in Children : Up(l, c) => c \in Running(l, Children)
    BY DEF Running
  <2>4. LauncherTypeOK'
    BY <2>1, <2>2, <2>3 DEF LauncherInv, LauncherTypeOK
  <2>5. Covered'
    BY <2>1 DEF LauncherInv, Covered, Alive, AnyUp, Up
  <2>6. /\ \A m \in Launchers \ {l} : stopping'[m] = stopping[m]
        /\ \A c \in Children : Up(l, c) => c \in stopping'[l]
    BY <2>2, <2>3 DEF LauncherInv, LauncherTypeOK, KnowsItsChildren
  <2>7. KnowsItsChildren'
    BY <2>1, <2>6 DEF LauncherInv, KnowsItsChildren, Up
  <2> QED BY <2>4, <2>5, <2>7 DEF LauncherInv
<1>8. ASSUME NEW l \in Launchers, NEW c \in Children,
             Terminate(l, c) \/ Kill(l, c) \/ ChildEnds(l, c) \/ OrphanStopped(l, c)
      PROVE  LauncherInv'
  <2>1. failures' \in 0..MaxFailures
    BY <1>8, FailuresInBound DEF Terminate, Kill, ChildEnds, OrphanStopped
  <2>2. Up(l, c)
    BY <1>8 DEF Terminate, Kill, ChildEnds, OrphanStopped, Up
  <2>3. PICK state \in {"ending", "down"} : child' = [child EXCEPT ![l][c] = state]
    BY <1>8 DEF Terminate, Kill, ChildEnds, OrphanStopped
  <2> QED BY <1>8, <2>1, <2>2, <2>3, ChildKeeps DEF Terminate, Kill, ChildEnds, OrphanStopped
<1>9. ASSUME NEW l \in Launchers, NEW c \in Children, Stopped(l, c) PROVE LauncherInv'
  <2>1. /\ UNCHANGED <<lockFile, plugin, starting, signalled, child, failures>>
        /\ c \in stopping[l] /\ child[l][c] = "down"
        /\ stopping' = [stopping EXCEPT ![l] = Running(l, stopping[l] \ {c})]
    BY <1>9 DEF Stopped, BeingStopped
  <2>2. stopping[l] # NoShutdown /\ stopping[l] \in SUBSET Children
    BY <2>1 DEF LauncherInv, LauncherTypeOK, NoShutdown, Children
  <2>3. /\ stopping' \in [Launchers -> (SUBSET Children) \cup {NoShutdown}]
        /\ \A m \in Launchers \ {l} : stopping'[m] = stopping[m]
        /\ stopping'[l] = Running(l, stopping[l] \ {c})
    BY <2>1, <2>2 DEF LauncherInv, LauncherTypeOK, Running
  <2>4. \A d \in Children : Up(l, d) => d \in stopping'[l]
    BY <2>1, <2>2, <2>3 DEF LauncherInv, KnowsItsChildren, Running, Up
  <2>5. LauncherTypeOK'
    BY <2>1, <2>3 DEF LauncherInv, LauncherTypeOK
  <2>6. Covered'
    BY <2>1 DEF LauncherInv, Covered, Alive, AnyUp, Up
  <2>7. KnowsItsChildren'
    BY <2>1, <2>2, <2>3, <2>4 DEF LauncherInv, KnowsItsChildren, Up
  <2> QED BY <2>5, <2>6, <2>7 DEF LauncherInv
<1>10. ASSUME NEW l \in Launchers, Ends(l) PROVE LauncherInv'
  <2>1. /\ starting[l] = "closing" /\ stopping[l] = {}
        /\ UNCHANGED <<plugin, signalled, stopping, child, failures>>
        /\ lockFile' = lockFile \/ (lockFile' = NoFile /\ lockFile.by = l)
    BY <1>10 DEF Ends, MayRelease, Released
  <2>2. ~AnyUp(l)
    BY <2>1 DEF LauncherInv, KnowsItsChildren, AnyUp, NoShutdown
  <2>3. /\ starting' \in [Launchers -> Places] /\ starting'[l] = "ended"
        /\ \A m \in Launchers \ {l} : starting'[m] = starting[m]
    BY <1>10 DEF Ends, LauncherInv, LauncherTypeOK, Goes, Places
  <2>4. lockFile.by = l
    BY <2>1 DEF LauncherInv, Covered, Alive
  <2>5. LauncherTypeOK'
    BY <2>1, <2>3 DEF LauncherInv, LauncherTypeOK
  <2>6. Covered'
    BY <2>1, <2>2, <2>3, <2>4 DEF LauncherInv, Covered, Alive, AnyUp, Up
  <2>7. KnowsItsChildren'
    BY <2>1, <2>3 DEF LauncherInv, KnowsItsChildren, Up
  <2> QED BY <2>5, <2>6, <2>7 DEF LauncherInv
<1>11. CASE UNCHANGED launcherVars
  BY <1>11 DEF launcherVars, LauncherInv, LauncherTypeOK, Covered, KnowsItsChildren, Alive, AnyUp, Up
<1> QED
  BY <1>1, <1>2, <1>3, <1>4, <1>5, <1>6, <1>7, <1>8, <1>9, <1>10, <1>11 DEF LauncherNext, OwnStep


\* Whoever lives holds the lock, and a shutdown knows of every child
\* (opjev.mjs:341, :847).
THEOREM LauncherInvariant == LauncherSpec => []LauncherInv
  BY LauncherInvInit, LauncherInvNext, PTL DEF LauncherSpec

\* No managed process lives without the lock of its launcher, however many launchers are
\* started, signalled and killed, so none is started beside it (opjev.mjs:354).
THEOREM LockCovers == LauncherSpec => []LockCoversChildren
<1>1. LauncherInv => LockCoversChildren
  BY DEF LauncherInv, Covered, LockCoversChildren
<1> QED BY <1>1, LauncherInvariant, PTL

\* At most one launcher is at work.
LauncherExclusion == \A l, m \in Launchers : Alive(l) /\ Alive(m) => l = m

\* Two launchers are never at work at once: the file is made exclusively, and removed by
\* whoever made it, or by the operator when nothing of them is left (opjev.mjs:341).
THEOREM OneLauncher == LauncherSpec => []LauncherExclusion
<1>1. LauncherInv => LauncherExclusion
  BY DEF LauncherInv, Covered, LauncherExclusion
<1> QED BY <1>1, LauncherInvariant, PTL

\* Every type of the launcher's state.
THEOREM LauncherTypeCorrect == LauncherSpec => []LauncherTypeOK
<1>1. LauncherInv => LauncherTypeOK
  BY DEF LauncherInv
<1> QED BY <1>1, LauncherInvariant, PTL

-----------------------------------------------------------------------------
(* The presentation of results: tui.ts and presentation-reconcile.ts *)

\* Of each result at most one presentation is under way.
OneUnderWay == \A res \in Results : presenting[res].looking + presenting[res].rendering <= 1

\* A result enters the set of those seen once.
SeenOnce == \A i, j \in 1..Len(seen) : seen[i] = seen[j] => i = j

\* History whose session was not misread: it only shrinks.
Past == {res \in Old : RoomOf[res] \notin misread}

\* What is being presented has not been seen, and is not such history.
UnderWayIsNew ==
  \A res \in Results : presenting[res] # NoneUnderWay => ~Has(res) /\ res \notin Past

\* What was presented has been seen, and was presented once.
ShownIsSeen ==
  \A res \in Results : shown[res] > 0 => shown[res] = 1 /\ Has(res) /\ res \notin Past

\* History brings no event; where its session was not misread it is on no list, and the first
\* look at its inbox has it seen.
OldStaysOld ==
  /\ Old \subseteq inbox /\ events \cap Old = {}
  /\ \A i \in 1..Len(reconciling.todo) : reconciling.todo[i] \notin Past
  /\ \A res \in Past : RoomOf[res] \in baselined => Has(res)

\* Only what was on a parent's screen is refreshed.
RefreshesBelong == \A res \in Results : refreshes[res] > 0 => RoomOf[res] \in ParentRooms

\* The interval's turn waits for the presentation of the notice at the head of its list.
WaitsForOne == reconciling.room = Waits => reconciling.todo # <<>>

PresentationInv ==
  /\ PresentationTypeOK /\ WaitsForOne
  /\ OneUnderWay /\ SeenOnce /\ UnderWayIsNew /\ ShownIsSeen /\ OldStaysOld /\ RefreshesBelong

\* Nothing is seen, under way or shown in the beginning.
LEMMA PresentationInvInit == PresentationInit => PresentationInv
<1> SUFFICES ASSUME PresentationInit PROVE PresentationInv
  OBVIOUS
<1>1. PresentationTypeOK
  <2>1. reconciling \in [on : BOOLEAN, room : Rooms \cup {NoRoom, Waits}, todo : Seq(Results)]
    BY DEF PresentationInit, NotNow
  <2>2. presenting \in [Results -> [looking : Nat, rendering : Nat]]
    BY DEF PresentationInit, NoneUnderWay
  <2>3. refreshes \in [Results -> 0..MaxRefreshes]
    BY PresentationAssumption DEF PresentationInit
  <2>4. idle \in BOOLEAN /\ disposed \in BOOLEAN
    BY DEF PresentationInit
  <2>5. /\ inbox \subseteq Results /\ events \subseteq inbox /\ seen \in Seq(Results) /\ baselined \subseteq Rooms
        /\ misread \subseteq baselined
    BY PresentationAssumption DEF PresentationInit
  <2>6. shown \in [Results -> Nat]
    BY DEF PresentationInit
  <2>7. room \in Rooms \cup {NoRoom} /\ toast \in Results \cup {NoRun}
    BY DEF PresentationInit
  <2> QED BY <2>1, <2>2, <2>3, <2>4, <2>5, <2>6, <2>7 DEF PresentationTypeOK
<1>2. OneUnderWay /\ SeenOnce /\ UnderWayIsNew /\ ShownIsSeen /\ RefreshesBelong
  BY PresentationAssumption
  DEF PresentationInit, OneUnderWay, SeenOnce, UnderWayIsNew, ShownIsSeen, RefreshesBelong, NoneUnderWay
<1>3. OldStaysOld
  BY DEF PresentationInit, OldStaysOld, NotNow
<1>4. WaitsForOne
  BY DEF PresentationInit, WaitsForOne, NotNow, NoRoom, Waits
<1> QED BY <1>1, <1>2, <1>3, <1>4 DEF PresentationInv

\* With no more results than SEEN_CAP the set of those seen has a place for an unseen one.
LEMMA PlaceLeft ==
  ASSUME IsFiniteSet(Results), Cardinality(Results) <= SeenCap,
         seen \in Seq(Results), SeenOnce, NEW res \in Results, ~Has(res)
  PROVE  Len(seen) < SeenCap
<1> DEFINE n == Len(seen) + 1
           f == [i \in 1..n |-> IF i = n THEN res ELSE seen[i]]
<1>1. n \in Nat
  OBVIOUS
<1>2. \A i \in 1..n : i = n \/ i \in 1..Len(seen)
  OBVIOUS
<1>3. f \in [1..n -> Results]
  BY <1>2
<1>4. \A i \in 1..Len(seen) : seen[i] # res
  BY DEF Has
<1>5. \A i, j \in 1..n : f[i] = f[j] => i = j
  BY <1>2, <1>4 DEF SeenOnce
<1>6. f \in Injection(1..n, Results)
  BY <1>3, <1>5 DEF Injection, IsInjective
<1>7. Cardinality(1..n) = n
  BY <1>1, FS_Interval
<1>8. Cardinality(1..n) <= Cardinality(Results)
  BY <1>6, FS_Injection
<1>9. SeenCap \in Nat /\ Cardinality(Results) \in Nat
  BY PresentationAssumption, FS_CardinalityType
<1> QED BY <1>7, <1>8, <1>9

\* So markSeen evicts nothing.
LEMMA MarkedAppends ==
  ASSUME IsFiniteSet(Results), Cardinality(Results) <= SeenCap,
         seen \in Seq(Results), SeenOnce, NEW res \in Results, ~Has(res)
  PROVE  Marked(res) = Append(seen, res)
<1>1. Len(seen) < SeenCap
  BY PlaceLeft
<1>2. SeenCap \in Nat /\ Len(seen) \in Nat
  BY PresentationAssumption
<1>3. ~(Len(seen) >= SeenCap)
  BY <1>1, <1>2
<1> QED BY <1>3 DEF Marked, Has

\* One turn through a set takes each of its members once.
LEMMA TurnIsInjective ==
  ASSUME NEW runs, IsFiniteSet(runs), NEW turn \in Turns(runs)
  PROVE  /\ turn \in Seq(runs) /\ Len(turn) = Cardinality(runs)
         /\ \A i, j \in 1..Len(turn) : turn[i] = turn[j] => i = j
         /\ \A res \in runs : \E i \in 1..Len(turn) : turn[i] = res
<1> DEFINE n == Cardinality(runs)
<1>1. n \in Nat
  BY FS_CardinalityType
<1>2. turn \in [1..n -> runs] /\ \A res \in runs : \E i \in 1..n : turn[i] = res
  BY DEF Turns
<1>3. turn \in Seq(runs) /\ Len(turn) = n
  BY <1>1, <1>2
<1>4. turn \in Surjection(1..n, runs)
  BY <1>2 DEF Surjection
<1>5. IsFiniteSet(1..n) /\ Cardinality(1..n) = n
  BY <1>1, FS_Interval
<1>6. turn \in Injection(1..n, runs)
  BY <1>4, <1>5, FS_SurjSameCardinalityImpliesInj
<1> QED BY <1>2, <1>3, <1>6 DEF Injection, IsInjective

\* A step that leaves the presentations, the set of those seen and what was shown alone.
LEMMA QuietStep ==
  ASSUME PresentationInv, PresentationTypeOK', WaitsForOne', UNCHANGED <<seen, presenting, shown, baselined, misread>>,
         inbox \subseteq inbox', events' \cap Old = {},
         \A i \in 1..Len(reconciling'.todo) : reconciling'.todo[i] \notin Past,
         \A res \in Results : refreshes'[res] > 0 => refreshes[res] > 0
  PROVE  PresentationInv'
<1>0. Past' = Past
  BY DEF Past
<1>1. OneUnderWay' /\ SeenOnce' /\ UnderWayIsNew' /\ ShownIsSeen'
  BY <1>0 DEF PresentationInv, OneUnderWay, SeenOnce, UnderWayIsNew, ShownIsSeen, Has
<1>2. OldStaysOld'
  BY <1>0 DEF PresentationInv, OldStaysOld, Has
<1>3. RefreshesBelong'
  BY DEF PresentationInv, RefreshesBelong
<1> QED BY <1>1, <1>2, <1>3 DEF PresentationInv

\* What a todo list keeps of another of which it is the tail.
LEMMA TailKeeps ==
  ASSUME NEW todo \in Seq(Results), todo # <<>>,
         \A i \in 1..Len(todo) : todo[i] \notin Past
  PROVE  /\ Tail(todo) \in Seq(Results) /\ Head(todo) \in Results \ Past
         /\ \A i \in 1..Len(Tail(todo)) : Tail(todo)[i] \notin Past
<1>1. /\ Len(Tail(todo)) = Len(todo) - 1 /\ Tail(todo) \in Seq(Results)
      /\ \A i \in 1..Len(Tail(todo)) : Tail(todo)[i] = todo[i + 1]
  BY HeadTailProperties
<1>2. \A i \in 1..Len(Tail(todo)) : i + 1 \in 1..Len(todo)
  BY <1>1
<1>3. Head(todo) = todo[1] /\ 1 \in 1..Len(todo)
  OBVIOUS
<1> QED BY <1>1, <1>2, <1>3

\* A presentation begins only for what is new and not being presented.
LEMMA StartStep ==
  ASSUME PresentationInv, PresentationTypeOK', WaitsForOne', NEW res \in Results \ Past,
         MayPresent(res), Presents(res), UNCHANGED <<seen, shown, inbox, baselined, misread, refreshes>>,
         events' \cap Old = {},
         \A i \in 1..Len(reconciling'.todo) : reconciling'.todo[i] \notin Past
  PROVE  PresentationInv'
<1>1. /\ presenting \in [Results -> [looking : Nat, rendering : Nat]]
      /\ presenting[res] = [looking |-> 0, rendering |-> 0] /\ ~Has(res)
  BY DEF PresentationInv, PresentationTypeOK, MayPresent, NoneUnderWay
<1>2. /\ presenting'[res] = [looking |-> 1, rendering |-> 0]
      /\ \A other \in Results \ {res} : presenting'[other] = presenting[other]
  BY <1>1 DEF Presents
<1>3. OneUnderWay'
  <2>1. presenting'[res].looking = 1 /\ presenting'[res].rendering = 0
    BY <1>2
  <2> QED BY <1>2, <2>1 DEF PresentationInv, OneUnderWay
<1>4. UnderWayIsNew'
  BY <1>1, <1>2 DEF PresentationInv, UnderWayIsNew, Has, Past
<1>5. SeenOnce' /\ ShownIsSeen' /\ RefreshesBelong'
  BY DEF PresentationInv, SeenOnce, ShownIsSeen, RefreshesBelong, Has, Past
<1>6. OldStaysOld'
  BY DEF PresentationInv, OldStaysOld, Has, Past
<1> QED BY <1>3, <1>4, <1>5, <1>6 DEF PresentationInv

\* A presentation goes on from the look-up to the screen, or ends.
LEMMA GoesOn ==
  ASSUME PresentationInv, PresentationTypeOK', WaitsForOne', NEW res \in Results,
         presenting[res] # NoneUnderWay,
         presenting'[res].looking + presenting'[res].rendering <= 1,
         \A other \in Results \ {res} : presenting'[other] = presenting[other],
         UNCHANGED <<seen, shown, inbox, events, baselined, misread, refreshes, reconciling>>
  PROVE  PresentationInv'
<1>1. OneUnderWay'
  BY DEF PresentationInv, OneUnderWay
<1>2. UnderWayIsNew'
  BY DEF PresentationInv, UnderWayIsNew, Has, Past
<1>3. SeenOnce' /\ ShownIsSeen' /\ RefreshesBelong'
  BY DEF PresentationInv, SeenOnce, ShownIsSeen, RefreshesBelong, Has, Past
<1>4. OldStaysOld'
  BY DEF PresentationInv, OldStaysOld, Has, Past
<1> QED BY <1>1, <1>2, <1>3, <1>4 DEF PresentationInv

\* On screen: shown for the first time, and seen from now on.
LEMMA RenderedStep ==
  ASSUME IsFiniteSet(Results), Cardinality(Results) <= SeenCap,
         PresentationInv, PresentationTypeOK', WaitsForOne', NEW res \in Results, Rendered(res)
  PROVE  PresentationInv'
<1>1. /\ presenting \in [Results -> [looking : Nat, rendering : Nat]]
      /\ shown \in [Results -> Nat] /\ seen \in Seq(Results)
      /\ refreshes \in [Results -> 0..MaxRefreshes]
  BY DEF PresentationInv, PresentationTypeOK
<1>2. presenting[res].rendering = 1 /\ presenting[res].looking = 0
  <2>1. presenting[res].looking \in Nat /\ presenting[res].rendering \in Nat
    BY <1>1
  <2> QED BY <2>1 DEF PresentationInv, OneUnderWay, Rendered
<1>3. ~Has(res) /\ res \notin Past /\ Past' = Past
  BY <1>2 DEF PresentationInv, UnderWayIsNew, NoneUnderWay, Rendered, Past
<1>4. shown[res] = 0
  BY <1>1, <1>3 DEF PresentationInv, ShownIsSeen
<1>5. seen' = Append(seen, res)
  <2>1. Marked(res) = Append(seen, res)
    BY <1>1, <1>3, MarkedAppends DEF PresentationInv
  <2> QED BY <2>1 DEF Rendered
<1>6. /\ Len(seen') = Len(seen) + 1 /\ seen'[Len(seen) + 1] = res
      /\ \A i \in 1..Len(seen) : seen'[i] = seen[i]
      /\ 1..Len(seen') = 1..Len(seen) \cup {Len(seen) + 1} /\ seen' \in Seq(Results)
  BY <1>1, <1>5
<1>7. Has(res)' /\ \A other \in Results \ {res} : Has(other)' <=> Has(other)
  <2>1. DOMAIN seen = 1..Len(seen) /\ DOMAIN seen' = 1..Len(seen) \cup {Len(seen) + 1}
    BY <1>1, <1>6
  <2> QED BY <1>6, <2>1 DEF Has
<1>8. /\ presenting'[res] = NoneUnderWay
      /\ \A other \in Results \ {res} : presenting'[other] = presenting[other]
  BY <1>1, <1>2 DEF Rendered, Over, NoneUnderWay
<1>9. shown'[res] = 1 /\ \A other \in Results \ {res} : shown'[other] = shown[other]
  BY <1>1, <1>4 DEF Rendered
<1>10. /\ \A other \in Results \ {res} : refreshes'[other] = refreshes[other]
       /\ RoomOf[res] \in ParentRooms
  BY <1>1 DEF Rendered, Belongs
<1>11. OneUnderWay'
  BY <1>8 DEF PresentationInv, OneUnderWay, NoneUnderWay
<1>12. SeenOnce'
  <2>1. \A i \in 1..Len(seen) : seen[i] # res /\ i # Len(seen) + 1
    BY <1>1, <1>3 DEF Has
  <2> QED BY <1>6, <2>1 DEF PresentationInv, SeenOnce
<1>13. UnderWayIsNew'
  BY <1>3, <1>7, <1>8 DEF PresentationInv, UnderWayIsNew
<1>14. ShownIsSeen'
  BY <1>3, <1>7, <1>9 DEF PresentationInv, ShownIsSeen
<1>15. OldStaysOld'
  <2>1. UNCHANGED <<inbox, events, reconciling, baselined>>
    BY DEF Rendered
  <2> QED BY <1>3, <1>7, <2>1, PresentationAssumption DEF PresentationInv, OldStaysOld, Past
<1>16. RefreshesBelong'
  BY <1>10 DEF PresentationInv, RefreshesBelong
<1> QED BY <1>11, <1>12, <1>13, <1>14, <1>15, <1>16 DEF PresentationInv

\* The first look at an inbox has what is history seen, which nobody was presenting.
LEMMA FirstLookStep ==
  ASSUME IsFiniteSet(Results), PresentationInv, PresentationTypeOK', WaitsForOne',
         NEW r, NEW usable \in BOOLEAN, FirstLook(r, usable),
         UNCHANGED <<inbox, events, presenting, refreshes, shown>>
  PROVE  PresentationInv'
<1> DEFINE new == Unseen(r, usable)
           history == new \ Fresh(new)
<1>0. Past' \subseteq Past /\ (~usable => \A res \in Past' : RoomOf[res] # r)
  BY DEF FirstLook, Past
<1>1. new \subseteq Results /\ history \subseteq Past /\ IsFiniteSet(history) /\ IsFiniteSet(Fresh(new))
  <2>1. new \in SUBSET Results
    BY DEF PresentationInv, PresentationTypeOK, Unseen, Listed, InRoom
  <2>2. history \subseteq Past
    BY DEF Fresh, Past, Unseen, Listed, InRoom, FirstLook, PresentationInv, PresentationTypeOK
  <2>3. history \in SUBSET Results /\ Fresh(new) \in SUBSET Results
    BY <2>1 DEF Fresh
  <2> QED BY <2>1, <2>2, <2>3, FS_Subset
<1>2. \A res \in history : ~Has(res)
  BY DEF Unseen
<1>3. \A res \in Past' : RoomOf[res] = r => Has(res) \/ res \in history
  BY <1>0 DEF PresentationInv, OldStaysOld, Unseen, Listed, InRoom, Fresh, Past
<1>4. PICK first \in Turns(history) : seen' = seen \o first
  BY DEF FirstLook
<1>5. PICK todo \in Turns(Fresh(new)) : reconciling' = [on |-> TRUE, room |-> r, todo |-> todo]
  BY DEF FirstLook
<1>6. /\ first \in Seq(history) /\ \A i, j \in 1..Len(first) : first[i] = first[j] => i = j
      /\ \A res \in history : \E i \in 1..Len(first) : first[i] = res
  <2>1. IsFiniteSet(history) /\ first \in Turns(history)
    BY <1>1, <1>4
  <2> HIDE DEF history
  <2> QED BY <2>1, TurnIsInjective
<1>7. todo \in Seq(Fresh(new))
  <2>1. IsFiniteSet(Fresh(new)) /\ todo \in Turns(Fresh(new))
    BY <1>1, <1>5
  <2> HIDE DEF new
  <2> QED BY <2>1, TurnIsInjective
<1>8. \A i \in 1..Len(reconciling'.todo) : reconciling'.todo[i] \notin Past'
  BY <1>5, <1>7 DEF Fresh, Past
<1>9. seen \in Seq(Results) /\ first \in Seq(Results)
  BY <1>1, <1>6 DEF PresentationInv, PresentationTypeOK
<1>10. /\ Len(seen') = Len(seen) + Len(first)
       /\ \A i \in 1..Len(seen) : seen'[i] = seen[i]
       /\ \A i \in 1..Len(first) : seen'[Len(seen) + i] = first[i]
       /\ Len(seen) \in Nat /\ Len(first) \in Nat
  BY <1>4, <1>9
<1>11. \A k \in 1..Len(seen') :
         k \in 1..Len(seen) \/ \E i \in 1..Len(first) : k = Len(seen) + i
  <2> SUFFICES ASSUME NEW k \in 1..Len(seen'), k \notin 1..Len(seen)
               PROVE  \E i \in 1..Len(first) : k = Len(seen) + i
    OBVIOUS
  <2>1. k - Len(seen) \in 1..Len(first) /\ k = Len(seen) + (k - Len(seen))
    BY <1>10
  <2> QED BY <2>1
<1>12. \A res \in Results : Has(res)' <=> Has(res) \/ res \in history
  <2>1. seen' \in Seq(Results)
    BY <1>4, <1>9
  <2>2. ASSUME NEW res \in Results, Has(res)'
        PROVE  Has(res) \/ res \in history
    <3>1. PICK k \in 1..Len(seen') : seen'[k] = res
      BY <2>1, <2>2 DEF Has
    <3>2. CASE k \in 1..Len(seen)
      BY <1>9, <1>10, <3>1, <3>2 DEF Has
    <3>3. CASE \E i \in 1..Len(first) : k = Len(seen) + i
      <4>1. PICK i \in 1..Len(first) : k = Len(seen) + i
        BY <3>3
      <4>2. seen'[k] = first[i]
        BY <1>10, <4>1
      <4>3. first[i] \in history
        BY <1>6
      <4> QED BY <3>1, <4>2, <4>3
    <3> QED BY <1>11, <3>2, <3>3
  <2>3. ASSUME NEW res \in Results, Has(res)
        PROVE  Has(res)'
    <3>1. PICK i \in 1..Len(seen) : seen[i] = res
      BY <1>9, <2>3 DEF Has
    <3>2. i \in 1..Len(seen') /\ seen'[i] = res
      BY <1>10, <3>1
    <3> QED BY <2>1, <3>2 DEF Has
  <2>4. ASSUME NEW res \in history
        PROVE  Has(res)'
    <3>1. PICK i \in 1..Len(first) : first[i] = res
      BY <1>6
    <3>2. Len(seen) + i \in 1..Len(seen') /\ seen'[Len(seen) + i] = res
      BY <1>10, <3>1
    <3> QED BY <2>1, <3>2 DEF Has
  <2> QED BY <2>2, <2>3, <2>4
<1>13. SeenOnce'
  <2> SUFFICES ASSUME NEW k \in 1..Len(seen'), NEW m \in 1..Len(seen'), seen'[k] = seen'[m]
               PROVE  k = m
    BY DEF SeenOnce
  <2>1. \A i \in 1..Len(seen), j \in 1..Len(first) : seen[i] # first[j]
    BY <1>2, <1>6, <1>9 DEF Has
  <2>2. CASE k \in 1..Len(seen) /\ m \in 1..Len(seen)
    BY <1>10, <2>2 DEF PresentationInv, SeenOnce
  <2>3. CASE k \in 1..Len(seen) /\ m \notin 1..Len(seen)
    BY <1>10, <1>11, <2>1, <2>3
  <2>4. CASE k \notin 1..Len(seen) /\ m \in 1..Len(seen)
    BY <1>10, <1>11, <2>1, <2>4
  <2>5. CASE k \notin 1..Len(seen) /\ m \notin 1..Len(seen)
    BY <1>6, <1>10, <1>11, <2>5
  <2> QED BY <2>2, <2>3, <2>4, <2>5
<1>14. UnderWayIsNew' /\ ShownIsSeen' /\ OneUnderWay' /\ RefreshesBelong'
  BY <1>0, <1>1, <1>12
  DEF PresentationInv, UnderWayIsNew, ShownIsSeen, OneUnderWay, RefreshesBelong
<1>15. OldStaysOld'
  <2>1. baselined' = baselined \cup {r}
    BY DEF FirstLook
  <2>2. \A res \in Past' : RoomOf[res] \in baselined' => Has(res)'
    BY <1>0, <1>3, <1>12, <2>1, PresentationAssumption DEF PresentationInv, OldStaysOld, Past
  <2> QED BY <1>8, <2>2 DEF PresentationInv, OldStaysOld
<1> QED BY <1>13, <1>14, <1>15 DEF PresentationInv

\* Every step keeps the variables' types.
LEMMA PresentationTypes ==
  ASSUME IsFiniteSet(Results), Cardinality(Results) <= SeenCap,
         PresentationInv, [PresentationNext]_presentationVars
  PROVE  PresentationTypeOK' /\ WaitsForOne'
<1> USE PresentationAssumption DEF PresentationTypeOK
<1>0. PresentationTypeOK
  BY DEF PresentationInv
<1>1. ASSUME NEW to \in Rooms \cup {NoRoom}, Opens(to) PROVE PresentationTypeOK'
  BY <1>0, <1>1 DEF Opens
<1>2. ASSUME StatusChanges PROVE PresentationTypeOK'
  BY <1>0, <1>2 DEF StatusChanges
<1>3. ASSUME NEW res \in Results, ResultComes(res) PROVE PresentationTypeOK'
  BY <1>0, <1>3 DEF ResultComes
<1>4. ASSUME NEW res \in Results, EventLost(res) PROVE PresentationTypeOK'
  BY <1>0, <1>4 DEF EventLost
<1>5. ASSUME NEW res \in Results, Presents(res)
      PROVE  presenting' \in [Results -> [looking : Nat, rendering : Nat]]
  <2>1. presenting[res].looking \in Nat /\ presenting[res].rendering \in Nat
    BY <1>0
  <2> DEFINE next == [looking |-> presenting[res].looking + 1, rendering |-> presenting[res].rendering]
  <2>2. next \in [looking : Nat, rendering : Nat]
    BY <2>1
  <2>3. presenting[res] = [looking |-> presenting[res].looking, rendering |-> presenting[res].rendering]
    BY <1>0
  <2>4. [presenting[res] EXCEPT !.looking = @ + 1] = next
    BY <2>3
  <2>5. presenting' = [presenting EXCEPT ![res] = next]
    BY <1>5, <2>4 DEF Presents
  <2> QED BY <1>0, <2>2, <2>5
<1>6. ASSUME NEW res \in Results, EventArrives(res) PROVE PresentationTypeOK'
  BY <1>0, <1>5, <1>6 DEF EventArrives
<1>7. ASSUME NEW res \in Results, LookedUp(res) PROVE PresentationTypeOK'
  <2>1. /\ presenting[res].looking \in Nat /\ presenting[res].looking > 0
        /\ presenting[res].rendering \in Nat
    BY <1>0, <1>7 DEF LookedUp
  <2>2. presenting' \in [Results -> [looking : Nat, rendering : Nat]]
    <3> DEFINE next == [looking   |-> presenting[res].looking - 1,
                        rendering |-> presenting[res].rendering + IF disposed THEN 0 ELSE 1]
    <3>1. next \in [looking : Nat, rendering : Nat]
      BY <2>1
    <3>2. presenting' = [presenting EXCEPT ![res] = next]
      BY <1>7 DEF LookedUp
    <3> QED BY <1>0, <3>1, <3>2
  <2> QED BY <1>0, <1>7, <2>2 DEF LookedUp
<1>8. ASSUME NEW res \in Results, presenting[res].rendering > 0, Over(res)
      PROVE  presenting' \in [Results -> [looking : Nat, rendering : Nat]]
  <2>1. presenting[res].looking \in Nat /\ presenting[res].rendering \in Nat
    BY <1>0
  <2> QED BY <1>0, <1>8, <2>1 DEF Over
<1>9. ASSUME NEW res \in Results, Rendered(res) PROVE PresentationTypeOK'
  <2>1. presenting' \in [Results -> [looking : Nat, rendering : Nat]]
    BY <1>8, <1>9 DEF Rendered
  <2>2. presenting[res] # NoneUnderWay
    BY <1>9 DEF Rendered, NoneUnderWay
  <2>3. Marked(res) = Append(seen, res)
    BY <1>0, <2>2, MarkedAppends DEF PresentationInv, UnderWayIsNew
  <2>4. seen' \in Seq(Results)
    BY <1>0, <1>9, <2>3 DEF Rendered
  <2>5. refreshes' \in [Results -> 0..MaxRefreshes] /\ shown' \in [Results -> Nat]
    BY <1>0, <1>9 DEF Rendered
  <2> QED BY <1>0, <1>9, <2>1, <2>4, <2>5 DEF Rendered
<1>10. ASSUME NEW res \in Results, RenderSkipped(res) \/ WindowOver(res) PROVE PresentationTypeOK'
  BY <1>0, <1>8, <1>10 DEF RenderSkipped, WindowOver
<1>11. ASSUME NEW res \in Results, Refresh(res) PROVE PresentationTypeOK'
  <2>1. refreshes' \in [Results -> 0..MaxRefreshes]
    BY <1>0, <1>11 DEF Refresh
  <2> QED BY <1>0, <1>11, <2>1 DEF Refresh
<1>12. ASSUME NEW usable \in BOOLEAN, Look(usable) PROVE PresentationTypeOK'
  <2>1. Unseen(room, usable) \in SUBSET Results
    BY <1>0 DEF Unseen, Listed, InRoom
  <2>2. ASSUME NEW runs \in SUBSET Results, NEW turn \in Turns(runs) PROVE turn \in Seq(Results)
    <3>1. IsFiniteSet(runs)
      BY FS_Subset
    <3>2. turn \in Seq(runs)
      BY <3>1, <2>2, TurnIsInjective
    <3> QED BY <3>2
  <2>3. room \in Rooms
    BY <1>0, <1>12 DEF Look
  <2>4. CASE FirstLook(room, usable)
    <3>1. Fresh(Unseen(room, usable)) \in SUBSET Results /\ Unseen(room, usable) \ Fresh(Unseen(room, usable)) \in SUBSET Results
      BY <2>1 DEF Fresh
    <3>2. PICK turn \in Turns(Unseen(room, usable) \ Fresh(Unseen(room, usable))) : seen' = seen \o turn
      BY <2>4 DEF FirstLook
    <3>3. seen' \in Seq(Results)
      <4>1. turn \in Seq(Results)
        BY <2>2, <3>1, <3>2
      <4> QED BY <1>0, <3>2, <4>1
    <3>4. PICK todo \in Turns(Fresh(Unseen(room, usable))) :
            reconciling' = [on |-> TRUE, room |-> room, todo |-> todo]
      BY <2>4 DEF FirstLook
    <3>5. todo \in Seq(Results)
      BY <2>2, <3>1, <3>4
    <3> QED BY <1>0, <1>12, <2>3, <2>4, <3>3, <3>4, <3>5 DEF Look, FirstLook
  <2>5. CASE LaterLook(room, usable)
    <3>1. PICK todo \in Turns(Unseen(room, usable)) :
            reconciling' = [on |-> TRUE, room |-> room, todo |-> todo]
      BY <2>5 DEF LaterLook
    <3>2. todo \in Seq(Results)
      BY <2>1, <2>2, <3>1
    <3> QED BY <1>0, <1>12, <2>3, <2>5, <3>1, <3>2 DEF Look, LaterLook
  <2> QED BY <1>12, <2>4, <2>5 DEF Look
<1>13. ASSUME NextNotice PROVE PresentationTypeOK'
  <2>1. /\ reconciling.todo \in Seq(Results) /\ reconciling.todo # <<>>
        /\ Head(reconciling.todo) \in Results /\ Tail(reconciling.todo) \in Seq(Results)
    BY <1>0, <1>13 DEF NextNotice
  <2>2. presenting' \in [Results -> [looking : Nat, rendering : Nat]]
    BY <1>0, <1>5, <1>13, <2>1 DEF NextNotice
  <2>3. reconciling' \in [on : BOOLEAN, room : Rooms \cup {NoRoom, Waits}, todo : Seq(Results)]
    BY <1>0, <1>13, <2>1 DEF NextNotice, NoticesLeft
  <2> QED BY <1>0, <1>13, <2>2, <2>3 DEF NextNotice
<1>14. ASSUME NoticeOver PROVE PresentationTypeOK'
  <2>0. reconciling.todo # <<>>
    BY <1>14 DEF PresentationInv, WaitsForOne, NoticeOver
  <2>1. Head(reconciling.todo) \in Results /\ Tail(reconciling.todo) \in Seq(Results)
    BY <1>0, <2>0
  <2>2. RoomOf[Head(reconciling.todo)] \in Rooms
    BY <2>1
  <2>3. reconciling' \in [on : BOOLEAN, room : Rooms \cup {NoRoom, Waits}, todo : Seq(Results)]
    BY <1>0, <1>14, <2>1, <2>2 DEF NoticeOver
  <2> QED BY <1>0, <1>14, <2>3 DEF NoticeOver
<1>15. ASSUME LookOver PROVE PresentationTypeOK'
  <2>1. NotNow \in [on : BOOLEAN, room : Rooms \cup {NoRoom, Waits}, todo : Seq(Results)]
    BY DEF NotNow
  <2> QED BY <1>0, <1>15, <2>1 DEF LookOver
<1>16. ASSUME Dispose PROVE PresentationTypeOK'
  BY <1>0, <1>16 DEF Dispose
<1>17. ASSUME UNCHANGED presentationVars PROVE PresentationTypeOK'
  <2>1. /\ idle' = idle /\ disposed' = disposed
        /\ UNCHANGED <<room, inbox, events, seen, presenting, refreshes, baselined,
                       reconciling, toast, shown, misread>>
    BY <1>17 DEF presentationVars
  <2> QED BY <1>0, <2>1
<1>18. PresentationTypeOK'
  BY <1>1, <1>2, <1>3, <1>4, <1>6, <1>7, <1>9, <1>10, <1>11, <1>12, <1>13, <1>14, <1>15, <1>16, <1>17
  DEF PresentationNext
<1>19. WaitsForOne'
  <2>1. CASE UNCHANGED reconciling
    BY <2>1 DEF PresentationInv, WaitsForOne
  <2>2. ASSUME NEW r \in Rooms, NEW todo, reconciling' = [on |-> TRUE, room |-> r, todo |-> todo]
        PROVE  WaitsForOne'
    BY <2>2 DEF WaitsForOne
  <2>3. CASE \E usable \in BOOLEAN : Look(usable)
    <3>1. room \in Rooms
      BY <1>0, <2>3 DEF Look
    <3> QED BY <2>2, <2>3, <3>1 DEF Look, FirstLook, LaterLook
  <2>4. CASE NextNotice
    <3>1. reconciling.todo # <<>> /\ reconciling.room # Waits
      BY <1>0, <2>4 DEF NextNotice, NoRoom, Waits
    <3> QED BY <1>0, <2>4, <3>1 DEF NextNotice, NoticesLeft, WaitsForOne
  <2>5. CASE NoticeOver
    <3>1. reconciling'.room \in Rooms
      BY <1>0, <2>5 DEF PresentationInv, WaitsForOne, NoticeOver
    <3> QED BY <3>1 DEF WaitsForOne
  <2>6. CASE LookOver
    BY <2>6 DEF LookOver, NotNow, WaitsForOne, NoRoom, Waits
  <2> QED BY <2>1, <2>3, <2>4, <2>5, <2>6
      DEF PresentationNext, Opens, StatusChanges, ResultComes, EventLost, EventArrives, LookedUp,
          Rendered, RenderSkipped, WindowOver, Refresh, Dispose, presentationVars
<1> QED BY <1>18, <1>19

\* Every step keeps the invariant.
LEMMA PresentationStep ==
  ASSUME IsFiniteSet(Results), Cardinality(Results) <= SeenCap,
         PresentationInv, [PresentationNext]_presentationVars
  PROVE  PresentationInv'
<1> DEFINE TodoIsNew == \A i \in 1..Len(reconciling'.todo) : reconciling'.todo[i] \notin Past
<1>1. PresentationTypeOK' /\ WaitsForOne' /\ PresentationTypeOK
  BY PresentationTypes DEF PresentationInv
<1>2. /\ events \cap Old = {} /\ Old \subseteq inbox
      /\ \A i \in 1..Len(reconciling.todo) : reconciling.todo[i] \notin Past
  BY DEF PresentationInv, OldStaysOld
<1>3. ASSUME NEW to \in Rooms \cup {NoRoom}, Opens(to) \/ StatusChanges \/ UNCHANGED presentationVars
      PROVE  PresentationInv'
  BY <1>1, <1>2, <1>3, QuietStep DEF Opens, StatusChanges, presentationVars
<1>4. ASSUME NEW res \in Results, ResultComes(res) \/ EventLost(res) PROVE PresentationInv'
  BY <1>1, <1>2, <1>4, QuietStep DEF ResultComes, EventLost
<1>5. ASSUME NEW res \in Results, EventArrives(res) PROVE PresentationInv'
  <2>1. res \in Results \ Past /\ events' \cap Old = {}
    BY <1>2, <1>5 DEF EventArrives, Past
  <2>2. CASE MayPresent(res)
    BY <1>1, <1>2, <1>5, <2>1, <2>2, StartStep DEF EventArrives
  <2>3. CASE ~MayPresent(res)
    BY <1>1, <1>2, <1>5, <2>1, <2>3, QuietStep DEF EventArrives
  <2> QED BY <2>2, <2>3
<1>6. ASSUME NEW res \in Results, LookedUp(res) PROVE PresentationInv'
  <2>1. /\ presenting[res].looking \in Nat /\ presenting[res].rendering \in Nat
        /\ presenting[res].looking + presenting[res].rendering <= 1
    BY <1>1 DEF PresentationTypeOK, PresentationInv, OneUnderWay
  <2>2. presenting'[res] = [looking   |-> presenting[res].looking - 1,
                            rendering |-> presenting[res].rendering + IF disposed THEN 0 ELSE 1]
    BY <1>1, <1>6 DEF LookedUp, PresentationTypeOK
  <2>3. presenting'[res].looking + presenting'[res].rendering <= 1
    BY <2>1, <2>2
  <2>4. \A other \in Results \ {res} : presenting'[other] = presenting[other]
    BY <1>1, <1>6 DEF LookedUp, PresentationTypeOK
  <2>5. presenting[res] # NoneUnderWay
    BY <1>6 DEF LookedUp, NoneUnderWay
  <2> QED BY <1>1, <1>6, <2>3, <2>4, <2>5, GoesOn DEF LookedUp
<1>7. ASSUME NEW res \in Results, Rendered(res) PROVE PresentationInv'
  BY <1>1, <1>7, RenderedStep
<1>8. ASSUME NEW res \in Results, RenderSkipped(res) \/ WindowOver(res) PROVE PresentationInv'
  <2>1. presenting[res].rendering > 0 /\ Over(res)
    BY <1>8 DEF RenderSkipped, WindowOver
  <2>2. /\ presenting[res].looking \in Nat /\ presenting[res].rendering \in Nat
        /\ presenting[res].looking + presenting[res].rendering <= 1
    BY <1>1 DEF PresentationTypeOK, PresentationInv, OneUnderWay
  <2>3. /\ presenting'[res].looking = presenting[res].looking
        /\ presenting'[res].rendering = presenting[res].rendering - 1
        /\ \A other \in Results \ {res} : presenting'[other] = presenting[other]
    BY <1>1, <2>1 DEF Over, PresentationTypeOK
  <2>4. presenting[res] # NoneUnderWay
    BY <2>1 DEF NoneUnderWay
  <2>5. presenting'[res].looking + presenting'[res].rendering <= 1
    BY <2>2, <2>3
  <2> QED BY <1>1, <1>8, <2>3, <2>4, <2>5, GoesOn DEF RenderSkipped, WindowOver
<1>9. ASSUME NEW res \in Results, Refresh(res) PROVE PresentationInv'
  <2>1. \A other \in Results : refreshes'[other] > 0 => refreshes[other] > 0
    BY <1>1, <1>9 DEF Refresh, PresentationTypeOK
  <2> QED BY <1>1, <1>2, <1>9, <2>1, QuietStep DEF Refresh
<1>10. ASSUME NEW usable \in BOOLEAN, Look(usable) PROVE PresentationInv'
  <2>1. CASE FirstLook(room, usable)
    BY <1>1, <1>10, <2>1, FirstLookStep DEF Look
  <2>2. CASE LaterLook(room, usable)
    <3>1. PICK todo \in Turns(Unseen(room, usable)) : reconciling' = [on |-> TRUE, room |-> room, todo |-> todo]
      BY <2>2 DEF LaterLook
    <3>2. Unseen(room, usable) \in SUBSET Results
      BY <1>1 DEF Unseen, Listed, InRoom, PresentationTypeOK
    <3>3. todo \in Seq(Unseen(room, usable))
      <4>1. IsFiniteSet(Unseen(room, usable))
        BY <3>2, FS_Subset
      <4> QED BY <3>1, <4>1, TurnIsInjective
    <3>4. Unseen(room, usable) \cap Past = {}
      BY <2>2 DEF LaterLook, Unseen, Listed, InRoom, PresentationInv, OldStaysOld
    <3>5. TodoIsNew
      BY <3>1, <3>3, <3>4
    <3> QED BY <1>1, <1>2, <1>10, <2>2, <3>5, QuietStep DEF Look, LaterLook
  <2> QED BY <1>10, <2>1, <2>2 DEF Look
<1>11. ASSUME NextNotice PROVE PresentationInv'
  <2>1. reconciling.todo \in Seq(Results) /\ reconciling.todo # <<>>
    BY <1>1, <1>11 DEF NextNotice, PresentationTypeOK
  <2>2. /\ Head(reconciling.todo) \in Results \ Past
        /\ \A i \in 1..Len(Tail(reconciling.todo)) : Tail(reconciling.todo)[i] \notin Past
    BY <1>2, <2>1, TailKeeps
  <2>3. CASE MayPresent(Head(reconciling.todo))
    <3>1. reconciling'.todo = reconciling.todo
      BY <1>1, <1>11, <2>3 DEF NextNotice, PresentationTypeOK
    <3>2. TodoIsNew
      BY <1>2, <3>1
    <3> QED BY <1>1, <1>2, <1>11, <2>2, <2>3, <3>2, StartStep DEF NextNotice
  <2>4. CASE ~MayPresent(Head(reconciling.todo))
    <3>1. reconciling'.todo = Tail(reconciling.todo)
      BY <1>1, <1>11, <2>4 DEF NextNotice, NoticesLeft, PresentationTypeOK
    <3>2. TodoIsNew
      BY <2>2, <3>1
    <3> QED BY <1>1, <1>2, <1>11, <2>4, <3>2, QuietStep DEF NextNotice
  <2> QED BY <2>3, <2>4
<1>12. ASSUME NoticeOver PROVE PresentationInv'
  <2>1. reconciling.todo \in Seq(Results) /\ reconciling.todo # <<>>
    BY <1>1, <1>12 DEF NoticeOver, PresentationTypeOK, PresentationInv, WaitsForOne
  <2>2. \A i \in 1..Len(Tail(reconciling.todo)) : Tail(reconciling.todo)[i] \notin Past
    BY <1>2, <2>1, TailKeeps
  <2>3. reconciling'.todo = Tail(reconciling.todo)
    BY <1>1, <1>12 DEF NoticeOver, PresentationTypeOK
  <2>4. TodoIsNew
    BY <2>2, <2>3
  <2> QED BY <1>1, <1>2, <1>12, <2>4, QuietStep DEF NoticeOver
<1>13. ASSUME LookOver PROVE PresentationInv'
  <2>1. TodoIsNew
    BY <1>13 DEF LookOver, NotNow
  <2> QED BY <1>1, <1>2, <1>13, <2>1, QuietStep DEF LookOver
<1>14. ASSUME Dispose PROVE PresentationInv'
  BY <1>1, <1>2, <1>14, QuietStep DEF Dispose
<1> QED BY <1>3, <1>4, <1>5, <1>6, <1>7, <1>8, <1>9, <1>10, <1>11, <1>12, <1>13, <1>14
        DEF PresentationNext

\* The event and the interval meet in the same invariant, whatever is lost or repeated, as
\* long as the results fit into the set of those seen.
THEOREM PresentationInvariant ==
  ASSUME IsFiniteSet(Results), Cardinality(Results) <= SeenCap
  PROVE  PresentationSpec => []PresentationInv
<1>1. PresentationInv /\ [PresentationNext]_presentationVars => PresentationInv'
  BY PresentationStep
<1> QED BY PresentationInvInit, <1>1, PTL DEF PresentationSpec

\* tui.ts and presentation-reconcile.ts: a result is presented at most once, by the event or by
\* the inbox; history only where the first look at its session found no list; a result comes on screen only in its own session,
\* a parent's, and never once the TUI is closed.
THEOREM PresentedOnce ==
  ASSUME IsFiniteSet(Results), Cardinality(Results) <= SeenCap
  PROVE  PresentationSpec => OnePresentation
<1>1. PresentationInv => \A r \in Results : shown[r] <= IF r \in Old /\ RoomOf[r] \notin misread THEN 0 ELSE 1
  <2> SUFFICES ASSUME PresentationInv, NEW res \in Results
               PROVE  shown[res] <= IF res \in Old /\ RoomOf[res] \notin misread THEN 0 ELSE 1
    OBVIOUS
  <2>1. shown[res] \in Nat
    BY DEF PresentationInv, PresentationTypeOK
  <2> QED BY <2>1 DEF PresentationInv, ShownIsSeen, Past
<1>2. PresentationInv /\ [PresentationNext]_presentationVars
       => [toast' # toast => room = RoomOf[toast'] /\ room \in ParentRooms /\ ~disposed]_presentationVars
  <2> SUFFICES ASSUME PresentationInv, PresentationNext, toast' # toast
               PROVE  room = RoomOf[toast'] /\ room \in ParentRooms /\ ~disposed
    OBVIOUS
  <2>1. CASE \E res \in Results : Rendered(res)
    BY <2>1 DEF Rendered, Skips, Belongs
  <2>2. CASE \E res \in Results : Refresh(res)
    BY <2>2 DEF Refresh, PresentationInv, RefreshesBelong
  <2> QED BY <2>1, <2>2
      DEF PresentationNext, Opens, StatusChanges, ResultComes, EventLost, EventArrives, LookedUp,
          RenderSkipped, WindowOver, Look, NextNotice, NoticeOver, LookOver, Dispose
<1>3. PresentationSpec => [](\A r \in Results : shown[r] <= IF r \in Old /\ RoomOf[r] \notin misread THEN 0 ELSE 1)
  BY PresentationInvariant, <1>1, PTL
<1>4. PresentationSpec =>
        [][toast' # toast => room = RoomOf[toast'] /\ room \in ParentRooms /\ ~disposed]_presentationVars
  BY PresentationInvariant, <1>2, PTL DEF PresentationSpec
<1> QED BY <1>3, <1>4 DEF OnePresentation

================================================================================
