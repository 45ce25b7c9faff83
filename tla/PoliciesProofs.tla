----------------------------- MODULE PoliciesProofs ----------------------------
(***************************************************************************)
(* What a run's tools are held to, the tool authority and the resource     *)
(* governor, and what is remembered of what they returned, the ledger of   *)
(* context management: each for every value of its constants.              *)
(*                                                                         *)
(* The authority's argument is the invariant FencedOrSaturated: a session  *)
(* whose interruption was asked for keeps its fence, because only entries  *)
(* without one are evicted, unless it had been evicted before, and then    *)
(* the registry stays saturated.                                           *)
(*                                                                         *)
(* The governor's is in two parts.  LimitsAreKept: the latch or the mark   *)
(* outlasts every quota limit whose mark no other one's write cleared,     *)
(* because limits are latched in the order of their clocks, and before     *)
(* what was asked under them is answered.  WindowsAreApart: calls reserve in the order of their       *)
(* clocks, so a window that was left is never entered again.               *)
(*                                                                         *)
(* The ledger's is WrittenOK: only the first write in the queue may have   *)
(* read it, and what that write made of it was made of what it still is.   *)
(* So a write only puts its entry last in the ledger, and LedgerOK follows *)
(* from what that does: what it trims has enough newer entries before it,  *)
(* each of a group of its own.                                             *)
(***************************************************************************)
EXTENDS ResourceGovernor, ToolAuthority, ContextManagement, FiniteSetTheorems, TLAPS

-----------------------------------------------------------------------------
(* The tool authority: tool-authority.ts *)

\* The control plane only creates, registers and interrupts sessions it marks as its own.
OnlyInternal ==
  /\ \A s \in creating : Metadata[s] \in Internal
  /\ \A s \in ToolSessions : arrival[s] > 0 => Metadata[s] \in Internal
  /\ \A s \in interrupted : Metadata[s] \in Internal

FencedOrSaturated == saturated \/ interrupted \subseteq fenced

AuthorityInv == AuthorityTypeOK /\ IsFiniteSet(registry) /\ OnlyInternal /\ FencedOrSaturated

LEMMA AuthorityInvInit == AuthorityInit => AuthorityInv
<1>1. IsFiniteSet({}) /\ Cardinality({}) = 0
  BY FS_EmptySet
<1>2. AuthorityInit => IsFiniteSet(registry) /\ Cardinality(registry) <= Capacity
  BY <1>1, AuthorityAssumption DEF AuthorityInit
<1>3. AuthorityInit => check \in [ToolCalls -> [session : ToolSessions \cup {"none"}, reads : BOOLEAN,
                                             stage : {"none", "reading", "denied", "allowed"}]]
  BY DEF AuthorityInit, Uncalled
<1>4. AuthorityInit => AuthorityTypeOK
  <2> SUFFICES ASSUME AuthorityInit PROVE AuthorityTypeOK
    OBVIOUS
  <2>1. /\ registry \subseteq ToolSessions /\ fenced \subseteq registry /\ saturated \in BOOLEAN
        /\ creating \subseteq ToolSessions /\ interrupted \subseteq ToolSessions
    BY DEF AuthorityInit
  <2>2. arrival \in [ToolSessions -> Nat]
    BY DEF AuthorityInit
  <2>3. Cardinality(registry) <= Capacity
    BY <1>2
  <2>4. check \in [ToolCalls -> [session : ToolSessions \cup {"none"}, reads : BOOLEAN,
                                 stage : {"none", "reading", "denied", "allowed"}]]
    BY <1>3
  <2> QED BY <2>1, <2>2, <2>3, <2>4 DEF AuthorityTypeOK
<1> QED
  BY <1>2, <1>4 DEF AuthorityInit, AuthorityInv, OnlyInternal, FencedOrSaturated

\* A new entry, with or without one evicted for it, leaves the registry within its
\* capacity and every fence of the others where it was.
LEMMA EnterKeeps ==
  ASSUME AuthorityInv, NEW s \in creating, s \notin registry, ~saturated,
         NEW evicted \in SUBSET (registry \ fenced), IsFiniteSet(registry \ evicted),
         Cardinality(registry \ evicted) < Capacity,
         Enter(s, evicted), creating' = creating \ {s}, UNCHANGED <<interrupted, check>>
  PROVE  AuthorityInv'
<1> DEFINE kept == registry \ evicted
<1>1. /\ IsFiniteSet(kept \cup {s})
      /\ Cardinality(kept \cup {s}) <= Cardinality(kept) + 1
      /\ Cardinality(kept) \in Nat
  <2>1. Cardinality(kept) \in Nat
    BY FS_CardinalityType
  <2>2. /\ IsFiniteSet(kept \cup {s})
        /\ Cardinality(kept \cup {s}) = IF s \in kept THEN Cardinality(kept) ELSE Cardinality(kept) + 1
    BY FS_AddElement
  <2> HIDE DEF kept
  <2> QED BY <2>1, <2>2
<1>2. registry' = kept \cup {s} /\ fenced' = fenced /\ saturated' = saturated
  BY DEF Enter
<1>3. IsFiniteSet(registry') /\ Cardinality(registry') <= Capacity
  <2>1. Cardinality(kept \cup {s}) \in Nat
    BY <1>1, FS_CardinalityType
  <2>2. Cardinality(kept) < Capacity
    OBVIOUS
  <2>3. registry' = kept \cup {s} /\ Capacity \in Nat
    BY <1>2, AuthorityAssumption
  <2> HIDE DEF kept
  <2>4. Cardinality(kept \cup {s}) <= Capacity
    BY <1>1, <2>1, <2>2, <2>3
  <2> QED BY <1>1, <2>3, <2>4
<1>4. s \in ToolSessions /\ Metadata[s] \in Internal
  BY DEF AuthorityInv, AuthorityTypeOK, OnlyInternal
<1>5. arrival' \in [ToolSessions -> Nat]
  <2>1. ASSUME NEW t \in ToolSessions, NEW e \in evicted, arrival[t] > arrival[e]
        PROVE  arrival[t] - 1 \in Nat
    BY <2>1 DEF AuthorityInv, AuthorityTypeOK
  <2> QED BY <1>1, <2>1 DEF AuthorityInv, AuthorityTypeOK, Enter
<1>6. \A t \in ToolSessions : arrival'[t] > 0 => t = s \/ arrival[t] > 0
  <2>1. ASSUME NEW t \in ToolSessions, t # s
        PROVE  arrival'[t] = arrival[t] \/ arrival'[t] = arrival[t] - 1
    BY <2>1 DEF Enter
  <2> QED BY <2>1 DEF AuthorityInv, AuthorityTypeOK
<1>7. AuthorityTypeOK'
  BY <1>2, <1>3, <1>4, <1>5 DEF AuthorityInv, AuthorityTypeOK
<1>8. OnlyInternal' /\ FencedOrSaturated'
  BY <1>2, <1>4, <1>6 DEF AuthorityInv, OnlyInternal, FencedOrSaturated
<1> QED BY <1>3, <1>7, <1>8 DEF AuthorityInv

LEMMA AuthorityInvNext == AuthorityInv /\ [AuthorityNext]_authorityVars => AuthorityInv'
<1> SUFFICES ASSUME AuthorityInv, [AuthorityNext]_authorityVars PROVE AuthorityInv'
  OBVIOUS
<1>1. ASSUME NEW s \in ToolSessions, CreateInternal(s) PROVE AuthorityInv'
  BY <1>1 DEF CreateInternal, AuthorityInv, AuthorityTypeOK, OnlyInternal, FencedOrSaturated
<1>2. ASSUME NEW s \in ToolSessions,
             CreationFails(s) \/ RegisterAgain(s) \/ RegisterRefused(s) \/ RegisterSaturates(s)
      PROVE  AuthorityInv'
  BY <1>2 DEF CreationFails, RegisterAgain, RegisterRefused, RegisterSaturates, AuthorityInv,
              AuthorityTypeOK, OnlyInternal, FencedOrSaturated
<1>3. ASSUME NEW s \in ToolSessions, Register(s) PROVE AuthorityInv'
  <2>1. registry \ {} = registry
    OBVIOUS
  <2>2. IsFiniteSet(registry \ {}) /\ Cardinality(registry \ {}) < Capacity
    BY <1>3, <2>1 DEF Register, AuthorityInv
  <2> QED BY <1>3, <2>2, EnterKeeps DEF Register
<1>4. ASSUME NEW s \in ToolSessions, RegisterEvicting(s) PROVE AuthorityInv'
  <2>1. PICK e \in Evictable : Enter(s, {e})
    BY <1>4 DEF RegisterEvicting
  <2>2. e \in registry \ fenced
    BY <2>1 DEF Evictable
  <2>3. IsFiniteSet(registry \ {e}) /\ Cardinality(registry \ {e}) = Cardinality(registry) - 1
    BY <2>2, FS_RemoveElement DEF AuthorityInv
  <2>4. Cardinality(registry) \in Nat /\ Cardinality(registry) <= Capacity
    BY FS_CardinalityType DEF AuthorityInv, AuthorityTypeOK
  <2>5. Cardinality(registry \ {e}) < Capacity
    BY <2>3, <2>4, AuthorityAssumption
  <2>6. {e} \in SUBSET (registry \ fenced)
    BY <2>2
  <2> QED BY <1>4, <2>1, <2>3, <2>5, <2>6, EnterKeeps DEF RegisterEvicting
<1>5. ASSUME NEW s \in ToolSessions, Interrupt(s) PROVE AuthorityInv'
  <2>1. Metadata[s] \in Internal
    BY <1>5 DEF Interrupt, AuthorityInv, OnlyInternal
  <2>2. saturated' \/ interrupted' \subseteq fenced'
    BY <1>5 DEF Interrupt, AuthorityInv, FencedOrSaturated, AuthorityTypeOK
  <2>3. AuthorityTypeOK'
    BY <1>5 DEF Interrupt, AuthorityInv, AuthorityTypeOK
  <2> QED BY <1>5, <2>1, <2>2, <2>3 DEF Interrupt, AuthorityInv, OnlyInternal, FencedOrSaturated
<1>6. ASSUME NEW k \in ToolCalls,
             \/ \E s \in ToolSessions, reads \in BOOLEAN : ToolCalled(k, s, reads)
             \/ ToolChecked(k) \/ ToolUnknown(k)
      PROVE  AuthorityInv'
  <2>1. check' \in [ToolCalls -> [session : ToolSessions \cup {"none"}, reads : BOOLEAN,
                                  stage : {"none", "reading", "denied", "allowed"}]]
    BY <1>6 DEF ToolCalled, ToolChecked, ToolUnknown, AuthorityInv, AuthorityTypeOK
  <2> QED BY <1>6, <2>1 DEF ToolCalled, ToolChecked, ToolUnknown, AuthorityInv, AuthorityTypeOK,
                            OnlyInternal, FencedOrSaturated
<1>7. CASE UNCHANGED authorityVars
  BY <1>7 DEF authorityVars, AuthorityInv, AuthorityTypeOK, OnlyInternal, FencedOrSaturated
<1> QED BY <1>1, <1>2, <1>3, <1>4, <1>5, <1>6, <1>7 DEF AuthorityNext

\* The registry keeps its types and its capacity (tool-authority.ts:23).
THEOREM RegistryInvariant == AuthoritySpec => []AuthorityInv
  BY AuthorityInvInit, AuthorityInvNext, PTL DEF AuthoritySpec

\* No tool of a session is allowed once its interruption was asked for
\* (tool-authority.ts:52), whatever the capacity and whoever was evicted.
THEOREM FenceHolds == AuthoritySpec => NoToolAfterFence
<1> DEFINE Allows ==
      \A k \in ToolCalls :
        check'[k].stage = "allowed" /\ check[k].stage # "allowed"
          => check[k].session \notin interrupted
<1>1. ASSUME AuthorityInv, AuthorityNext PROVE Allows
  <2> SUFFICES ASSUME NEW k \in ToolCalls, check'[k].stage = "allowed", check[k].stage # "allowed"
               PROVE  check[k].session \notin interrupted
    OBVIOUS
  <2>1. PICK l \in ToolCalls :
          \/ \E s \in ToolSessions, reads \in BOOLEAN : ToolCalled(l, s, reads)
          \/ ToolChecked(l) \/ ToolUnknown(l)
    BY <1>1 DEF AuthorityNext, CreateInternal, CreationFails, RegisterAgain, RegisterRefused,
                Register, RegisterEvicting, RegisterSaturates, Interrupt
  <2>2. k = l /\ ToolChecked(l)
    BY <1>1, <2>1 DEF ToolCalled, ToolChecked, ToolUnknown, AuthorityInv, AuthorityTypeOK
  <2>3. MayRun(check[k].session, check[k].reads)
    BY <1>1, <2>2 DEF ToolChecked, AuthorityInv, AuthorityTypeOK
  <2>4. ASSUME check[k].session \in interrupted PROVE FALSE
    <3>1. ResolvedRole(check[k].session) # "external"
      BY <1>1, <2>4 DEF AuthorityInv, OnlyInternal, Internal, ResolvedRole
    <3> QED BY <1>1, <2>3, <2>4, <3>1 DEF MayRun, AuthorityInv, FencedOrSaturated
  <2> QED BY <2>4
<1>2. AuthorityInv /\ [AuthorityNext]_authorityVars => [Allows]_authorityVars
  BY <1>1
<1> QED BY <1>2, RegistryInvariant, PTL DEF AuthoritySpec, NoToolAfterFence

\* A critic, an orchestrator and a session whose marks do not add up never run a tool
\* that does more than read, or any tool at all.
THEOREM ReadersSafety == AuthoritySpec => []ReadersOnlyRead
<1>1. AuthorityInit => ReadersOnlyRead
  BY DEF AuthorityInit, ReadersOnlyRead, Uncalled
<1>2. AuthorityInv /\ ReadersOnlyRead /\ [AuthorityNext]_authorityVars => ReadersOnlyRead'
  <2> SUFFICES ASSUME AuthorityInv, ReadersOnlyRead, [AuthorityNext]_authorityVars,
                      NEW k \in ToolCalls, check'[k].stage = "allowed"
               PROVE  CASE Metadata[check'[k].session] \in {"critic", "orchestrator"} -> check'[k].reads
                        [] Metadata[check'[k].session] = "partial" -> FALSE
                        [] OTHER -> TRUE
    BY DEF ReadersOnlyRead
  <2>1. CASE check'[k] = check[k]
    BY <2>1 DEF ReadersOnlyRead
  <2>2. CASE check'[k] # check[k]
    <3>1. PICK l \in ToolCalls :
            \/ \E s \in ToolSessions, reads \in BOOLEAN : ToolCalled(l, s, reads)
            \/ ToolChecked(l) \/ ToolUnknown(l)
      BY <2>2 DEF AuthorityNext, authorityVars, CreateInternal, CreationFails, RegisterAgain,
                  RegisterRefused, Register, RegisterEvicting, RegisterSaturates, Interrupt
    <3>2. k = l /\ ToolChecked(l)
      BY <2>2, <3>1 DEF ToolCalled, ToolChecked, ToolUnknown, AuthorityInv, AuthorityTypeOK
    <3>3. MayRun(check[k].session, check[k].reads)
      BY <3>2 DEF ToolChecked, AuthorityInv, AuthorityTypeOK
    <3>4. check'[k].session = check[k].session /\ check'[k].reads = check[k].reads
      BY <3>2 DEF ToolChecked, AuthorityInv, AuthorityTypeOK
    <3>5. Metadata[check[k].session] \in {"critic", "orchestrator"} => check[k].reads
      BY <3>3 DEF MayRun, ResolvedRole
    <3>6. Metadata[check[k].session] # "partial"
      BY <3>3 DEF MayRun, ResolvedRole
    <3> QED BY <3>4, <3>5, <3>6
  <2> QED BY <2>1, <2>2
<1> QED BY <1>1, <1>2, RegistryInvariant, PTL DEF AuthoritySpec

-----------------------------------------------------------------------------
(* The resource governor: resource-governor/ and hooks.ts *)
\* No clock is ahead of the governor's.
ClocksAreRead ==
  /\ throttle.start <= now
  /\ \A c \in Calls : call[c].at <= now
  /\ \A limit \in limits : limit.at <= now

\* The line of the latch holds every call that latches or asks, once, in the order of their
\* clocks, and each after the calls whose limits it is made under, while they latch.
EnforcingInOrder ==
  /\ \A i \in 1..Len(enforcing) : call[enforcing[i]].step \in {"latching", "asking"}
  /\ \A i, j \in 1..Len(enforcing) :
       i < j => /\ enforcing[i] # enforcing[j]
                /\ call[enforcing[i]].at <= call[enforcing[j]].at
  /\ \A c \in Calls :
       call[c].step = "latching" => \E i \in 1..Len(enforcing) : enforcing[i] = c
  /\ \A j \in 1..Len(enforcing), u \in Calls :
       u \in call[enforcing[j]].under /\ call[u].step = "latching" =>
         \E i \in 1..Len(enforcing) : i < j /\ enforcing[i] = u

\* A limit is its call's, which latches it or is through, and a limit newer than one that
\* waits to be latched waits itself.
LimitsInTurn ==
  \A limit \in limits :
    /\ call[limit.by].at = limit.at
    /\ call[limit.by].step \in {"latching", "denied"}
    /\ limit.stored => call[limit.by].step = "denied"
    /\ \A c \in Calls :
         call[c].step = "latching" /\ call[c].at < limit.at => call[limit.by].step = "latching"

\* The latch covers every limit that was stored, and what it does not cover is marked,
\* unless the write of another limit cleared that mark.
LimitsAreKept ==
  \A limit \in limits :
    \/ latch # Never /\ limit.at <= latch
    \/ ~limit.stored /\ (limit.at + Window <= emergency \/ limit.by \in erased)

\* A call that asks under a limit still has it to find, and one that got past the policy was
\* only under limits whose marks were cleared.
UnderIsTrue ==
  \A c, u \in Calls : u \in call[c].under =>
    /\ call[u].step \in {"latching", "denied"}
    /\ call[c].step = "asking" =>
         \E limit \in limits : limit.by = u /\ Holds(limit, call[c].at)
    /\ call[c].step \in {"reserving", "granted"} => u \in erased /\ call[u].step = "denied"

AskersAsk == \A c \in Calls : call[c].step = "asking" => call[c].kind \in {"throttle", "ask"}

QuotaInv == EnforcingInOrder /\ LimitsInTurn /\ LimitsAreKept /\ UnderIsTrue /\ AskersAsk

\* Each reserving call is in the line once, and the line is in the order of their clocks,
\* after the beginning of the window.
LineInOrder ==
  /\ \A i \in 1..Len(reserving) :
       /\ call[reserving[i]].step = "reserving"
       /\ call[reserving[i]].at >= 0 /\ call[reserving[i]].at >= throttle.start
  /\ \A i, j \in 1..Len(reserving) :
       i < j => /\ reserving[i] # reserving[j]
                /\ call[reserving[i]].at <= call[reserving[j]].at

InWindow(start) == {grant \in grants : grant.start = start}

\* The budget counts the grants of its window, and every earlier window is over.
WindowsAreApart ==
  /\ IsFiniteSet(grants)
  /\ Cardinality(InWindow(throttle.start)) <= throttle.retries
  /\ \A grant \in grants :
       /\ grant.start = throttle.start \/ grant.start + Window <= throttle.start
       /\ grant.at \in grant.start..grant.start + Window - 1
       /\ Cardinality(InWindow(grant.start)) <= MaxRetries
       /\ \A other \in grants :
            other.start > grant.start => other.start >= grant.start + Window

GovernorInv == GovernorTypeOK /\ ClocksAreRead /\ LineInOrder /\ WindowsAreApart

Steps   == {"idle", "latching", "asking", "reserving", "granted", "denied"}
CallOf  == [kind : ErrorKinds \cup {"none"}, step : Steps, at : {Never} \cup 0..MaxNow, under : SUBSET Calls]

\* A step of a call that only moves it: the rest of the call is what it was.
LEMMA CallMoves ==
  ASSUME call \in [Calls -> CallOf], NEW c \in Calls, NEW step \in Steps, CallGoes(c, step)
  PROVE  /\ call' \in [Calls -> CallOf]
         /\ call'[c] = [call[c] EXCEPT !.step = step] /\ call'[c].step = step
         /\ \A d \in Calls \ {c} : call'[d] = call[d]
         /\ \A d \in Calls : /\ call'[d].at = call[d].at /\ call'[d].under = call[d].under
                             /\ call'[d].kind = call[d].kind
  BY DEF CallGoes, CallOf, Steps

\* A limit is some call's.
LEMMA UnderCalls == ASSUME GovernorTypeOK PROVE UnderLimits \subseteq Calls
  BY DEF GovernorTypeOK, UnderLimits

\* A call that joins the line of the policy or of the latch.
LEMMA CallJoins ==
  ASSUME call \in [Calls -> CallOf], UnderLimits \subseteq Calls, NEW c \in Calls,
         NEW kind \in ErrorKinds, NEW step \in {"latching", "asking"}, now \in 0..MaxNow,
         call' = [call EXCEPT ![c] = [kind |-> kind, step |-> step, at |-> now,
                                      under |-> UnderLimits]]
  PROVE  /\ call' \in [Calls -> CallOf]
         /\ call'[c].step = step /\ call'[c].at = now /\ call'[c].under = UnderLimits
         /\ call'[c].kind = kind /\ \A d \in Calls \ {c} : call'[d] = call[d]
<1>1. /\ kind \in ErrorKinds \cup {"none"} /\ step \in Steps /\ now \in {Never} \cup 0..MaxNow
      /\ UnderLimits \in SUBSET Calls
  BY DEF Steps
<1> HIDE DEF ErrorKinds, Steps, Never, UnderLimits
<1>2. [kind |-> kind, step |-> step, at |-> now, under |-> UnderLimits] \in CallOf
  BY <1>1 DEF CallOf
<1> QED BY <1>2

\* A call whose budget is granted goes on to reserve, with a clock of its own.
LEMMA CallReserves ==
  ASSUME call \in [Calls -> CallOf], NEW c \in Calls, now \in 0..MaxNow,
         call' = [call EXCEPT ![c].step = "reserving", ![c].at = now]
  PROVE  /\ call' \in [Calls -> CallOf]
         /\ call'[c].step = "reserving" /\ call'[c].at = now /\ call'[c].under = call[c].under
         /\ \A d \in Calls \ {c} : call'[d] = call[d]
<1>1. \A d \in Calls \ {c} : call'[d] = call[d]
  OBVIOUS
<1>2. call'[c] = [call[c] EXCEPT !.step = "reserving", !.at = now]
  OBVIOUS
<1>3. call[c] \in CallOf
  OBVIOUS
<1>4. /\ call'[c].step = "reserving" /\ call'[c].at = now /\ call'[c].under = call[c].under
      /\ call'[c] \in CallOf
  BY <1>2, <1>3 DEF CallOf, Steps
<1>5. call' = [d \in Calls |-> call'[d]]
  OBVIOUS
<1> QED BY <1>1, <1>4, <1>5

\* The first of a line leaves it.
LEMMA LineAdvances ==
  ASSUME NEW line \in Seq(Calls), NEW c, First(line, c)
  PROVE  /\ Tail(line) \in Seq(Calls) /\ Len(line) > 0 /\ line[1] = c
         /\ Len(Tail(line)) = Len(line) - 1
         /\ \A i \in 1..Len(Tail(line)) : Tail(line)[i] = line[i + 1] /\ i + 1 \in 1..Len(line)
  BY DEF First

\* A call enters a line at its end.
LEMMA LineGrows ==
  ASSUME NEW line \in Seq(Calls), NEW c \in Calls
  PROVE  /\ Append(line, c) \in Seq(Calls) /\ Len(Append(line, c)) = Len(line) + 1
         /\ Append(line, c)[Len(line) + 1] = c
         /\ \A i \in 1..Len(line) : Append(line, c)[i] = line[i]
         /\ Len(line) \in Nat
  OBVIOUS

LEMMA GovernorTypeInit == GovernorInit => GovernorTypeOK
<1> SUFFICES ASSUME GovernorInit PROVE GovernorTypeOK
  OBVIOUS
<1>1. call \in [Calls -> CallOf]
  BY DEF GovernorInit, CallOf, Steps, Idle, Never
<1>2. /\ now \in 0..MaxNow /\ latch \in {Never} \cup 0..MaxNow /\ emergency \in 0..MaxNow + Window
      /\ storageFaults \in 0..MaxStorageFaults /\ processes \in Nat
      /\ throttle \in [start : {Never} \cup 0..MaxNow, retries : 0..MaxRetries]
  BY GovernorAssumption DEF GovernorInit
<1>3. /\ enforcing \in Seq(Calls) /\ reserving \in Seq(Calls)
      /\ limits \subseteq [by : Calls, at : 0..MaxNow, stored : BOOLEAN]
      /\ erased \subseteq Calls
      /\ grants \subseteq [by : Calls, at : 0..MaxNow, start : 0..MaxNow]
  BY DEF GovernorInit
<1> QED BY <1>1, <1>2, <1>3 DEF GovernorTypeOK, CallOf, Steps

\* The window a call reserves in: the budget's own, or one that begins with the call.
LEMMA CurrentType ==
  ASSUME GovernorTypeOK, NEW at \in 0..MaxNow
  PROVE  /\ Current(at) \in [start : 0..MaxNow, retries : 0..MaxRetries]
         /\ Current(at).retries < MaxRetries =>
              [Current(at) EXCEPT !.retries = @ + 1] \in [start : 0..MaxNow, retries : 0..MaxRetries]
<1>1. Current(at) \in [start : 0..MaxNow, retries : 0..MaxRetries]
  BY GovernorAssumption DEF Current, GovernorTypeOK, Never
<1> QED BY <1>1, GovernorAssumption

LEMMA GovernorTypeNext ==
  ASSUME GovernorTypeOK, LineInOrder, [GovernorNext]_governorVars
  PROVE  GovernorTypeOK'
<1> USE GovernorAssumption
<1>0. call \in [Calls -> CallOf] /\ now \in 0..MaxNow /\ enforcing \in Seq(Calls)
      /\ reserving \in Seq(Calls)
  BY DEF GovernorTypeOK, CallOf, Steps
<1>b. limits \subseteq [by : Calls, at : 0..MaxNow, stored : BOOLEAN]
  BY DEF GovernorTypeOK
<1>a. GovernorTypeOK' <=>
        /\ now' \in 0..MaxNow /\ latch' \in {Never} \cup 0..MaxNow
        /\ emergency' \in 0..MaxNow + Window
        /\ throttle' \in [start : {Never} \cup 0..MaxNow, retries : 0..MaxRetries]
        /\ enforcing' \in Seq(Calls) /\ reserving' \in Seq(Calls)
        /\ call' \in [Calls -> CallOf]
        /\ limits' \subseteq [by : Calls, at : 0..MaxNow, stored : BOOLEAN]
        /\ erased' \subseteq Calls
        /\ grants' \subseteq [by : Calls, at : 0..MaxNow, start : 0..MaxNow]
        /\ storageFaults' \in 0..MaxStorageFaults /\ processes' \in Nat
  BY DEF GovernorTypeOK, CallOf, Steps
<1>1. CASE Tick
  <2>1. now' \in 0..MaxNow
    BY <1>0, <1>1 DEF Tick
  <2> QED BY <1>1, <1>0, <1>a, <2>1 DEF Tick, GovernorTypeOK
<1>2. CASE ProcessEnds
  <2>1. call' \in [Calls -> CallOf]
    <3>1. Idle \in CallOf
      BY DEF CallOf, Steps, Idle, Never
    <3>2. ASSUME NEW c \in Calls PROVE [call[c] EXCEPT !.step = "denied"] \in CallOf
      <4>1. "denied" \in Steps /\ call[c] \in CallOf
        BY <1>0 DEF Steps
      <4> QED BY <4>1 DEF CallOf
    <3> QED BY <1>2, <3>1, <3>2 DEF ProcessEnds
  <2>2. <<>> \in Seq(Calls)
    OBVIOUS
  <2>3. emergency' \in 0..MaxNow + Window
    BY <1>2 DEF ProcessEnds
  <2>4. limits' \subseteq [by : Calls, at : 0..MaxNow, stored : BOOLEAN]
    BY <1>b, <1>2 DEF ProcessEnds
  <2>5. processes' \in Nat
    BY <1>2 DEF ProcessEnds, GovernorTypeOK
  <2> QED BY <1>2, <1>a, <2>1, <2>2, <2>3, <2>4, <2>5 DEF ProcessEnds, GovernorTypeOK
<1>3. ASSUME NEW c \in Calls, QuotaLimit(c) PROVE GovernorTypeOK'
  <2>1. call' \in [Calls -> CallOf]
    BY <1>0, <1>3, CallJoins, UnderCalls DEF QuotaLimit, ErrorKinds, GovernorInv
  <2>2. emergency' \in 0..MaxNow + Window
    BY <1>0, <1>3 DEF QuotaLimit, Later, GovernorTypeOK
  <2>3. limits' \subseteq [by : Calls, at : 0..MaxNow, stored : BOOLEAN]
    <3>1. [by |-> c, at |-> now, stored |-> FALSE] \in [by : Calls, at : 0..MaxNow, stored : BOOLEAN]
      BY <1>0
    <3>2. limits' = limits \cup {[by |-> c, at |-> now, stored |-> FALSE]}
      BY <1>3 DEF QuotaLimit
    <3> QED BY <1>b, <3>1, <3>2
  <2>4. enforcing' \in Seq(Calls)
    BY <1>0, <1>3, LineGrows DEF QuotaLimit
  <2> QED BY <1>3, <1>0, <1>a, <2>1, <2>2, <2>3, <2>4 DEF QuotaLimit, GovernorTypeOK
<1>4. ASSUME NEW c \in Calls, Latched(c) PROVE GovernorTypeOK'
  <2>1. call' \in [Calls -> CallOf]
    BY <1>0, <1>4, CallMoves DEF Latched, Steps
  <2>2. latch' \in {Never} \cup 0..MaxNow /\ emergency' \in 0..MaxNow + Window
    BY <1>0, <1>4 DEF Latched, Tripped, CallOf
  <2>3. limits' \subseteq [by : Calls, at : 0..MaxNow, stored : BOOLEAN]
    BY <1>b, <1>4 DEF Latched
  <2>4. enforcing' \in Seq(Calls)
    BY <1>0, <1>4, LineAdvances DEF Latched
  <2>5. erased' \subseteq Calls
    BY <1>4 DEF Latched, GovernorTypeOK
  <2> QED BY <1>4, <1>0, <1>a, <2>1, <2>2, <2>3, <2>4, <2>5 DEF Latched, GovernorTypeOK
<1>5. ASSUME NEW c \in Calls, LatchFails(c) \/ AskFails(c) \/ ReserveFails(c) PROVE GovernorTypeOK'
  <2>1. call' \in [Calls -> CallOf]
    BY <1>0, <1>5, CallMoves DEF LatchFails, AskFails, ReserveFails, Steps
  <2>2. storageFaults' \in 0..MaxStorageFaults
    BY <1>5 DEF LatchFails, AskFails, ReserveFails, Fault, GovernorTypeOK
  <2>3. enforcing' \in Seq(Calls) /\ reserving' \in Seq(Calls)
    BY <1>0, <1>5, LineAdvances DEF LatchFails, AskFails, ReserveFails
  <2> QED BY <1>5, <1>0, <1>a, <2>1, <2>2, <2>3 DEF LatchFails, AskFails, ReserveFails, GovernorTypeOK
<1>6. ASSUME NEW c \in Calls, NEW kind \in {"throttle", "ask"}, Ask(c, kind) PROVE GovernorTypeOK'
  <2>1. call' \in [Calls -> CallOf]
    BY <1>0, <1>6, CallJoins, UnderCalls DEF Ask, ErrorKinds, GovernorInv
  <2>2. enforcing' \in Seq(Calls)
    BY <1>0, <1>6, LineGrows DEF Ask
  <2> QED BY <1>6, <1>0, <1>a, <2>1, <2>2 DEF Ask, GovernorTypeOK
<1>7. ASSUME NEW c \in Calls, Answered(c) PROVE GovernorTypeOK'
  <2>1. call' \in [Calls -> CallOf]
    BY <1>0, <1>7, CallMoves, CallReserves DEF Answered, Steps
  <2>2. enforcing' \in Seq(Calls)
    BY <1>0, <1>7, LineAdvances DEF Answered
  <2>3. reserving' \in Seq(Calls)
    <3>1. reserving' = reserving \/ reserving' = Append(reserving, c)
      BY <1>7 DEF Answered
    <3> QED BY <1>0, <3>1, LineGrows
  <2> QED BY <1>7, <1>0, <1>a, <2>1, <2>2, <2>3 DEF Answered, GovernorTypeOK
<1>8. ASSUME NEW c \in Calls, Reserved(c) PROVE GovernorTypeOK'
  <2> DEFINE at == call[c].at
  <2>1. call' \in [Calls -> CallOf]
    BY <1>0, <1>8, CallMoves DEF Reserved, Steps
  <2>2. at \in 0..MaxNow
    <3>1. Len(reserving) > 0 /\ reserving[1] = c
      BY <1>0, <1>8, LineAdvances DEF Reserved
    <3>2. 1 \in 1..Len(reserving)
      BY <1>0, <3>1
    <3>3. at >= 0
      BY <3>1, <3>2 DEF LineInOrder
    <3> QED BY <1>0, <3>3 DEF CallOf, Never
  <2>3. throttle' \in [start : {Never} \cup 0..MaxNow, retries : 0..MaxRetries]
    BY <1>8, <2>2, CurrentType DEF Reserved
  <2>4. Current(at).start \in 0..MaxNow
    BY <2>2, CurrentType
  <2>5. grants' \subseteq [by : Calls, at : 0..MaxNow, start : 0..MaxNow]
    BY <1>8, <2>2, <2>4 DEF Reserved, GovernorTypeOK
  <2>6. reserving' \in Seq(Calls)
    BY <1>0, <1>8, LineAdvances DEF Reserved
  <2> HIDE DEF at
  <2> QED BY <1>8, <1>0, <1>a, <2>1, <2>3, <2>5, <2>6 DEF Reserved, GovernorTypeOK
<1>9. ASSUME NEW c \in Calls, Exhausted(c) PROVE GovernorTypeOK'
  <2>1. call' \in [Calls -> CallOf]
    BY <1>0, <1>9, CallMoves DEF Exhausted, Steps
  <2>2. reserving' \in Seq(Calls)
    BY <1>0, <1>9, LineAdvances DEF Exhausted
  <2> QED BY <1>9, <1>0, <1>a, <2>1, <2>2 DEF Exhausted, GovernorTypeOK
<1>10. CASE UNCHANGED governorVars
  BY <1>10, <1>a DEF governorVars, GovernorTypeOK, CallOf, Steps
<1> QED BY <1>1, <1>2, <1>3, <1>4, <1>5, <1>6, <1>7, <1>8, <1>9, <1>10 DEF GovernorNext

\* The clock only goes on, and a call or a limit takes it as it is.
LEMMA ClocksNext ==
  ASSUME GovernorInv, [GovernorNext]_governorVars
  PROVE  ClocksAreRead'
<1> USE GovernorAssumption
<1>0. /\ call \in [Calls -> CallOf] /\ now \in 0..MaxNow /\ throttle.start \in Int
      /\ reserving \in Seq(Calls)
      /\ throttle.start <= now /\ \A c \in Calls : call[c].at <= now
      /\ \A limit \in limits : limit.at <= now /\ limit.at \in Nat
  BY DEF GovernorInv, GovernorTypeOK, ClocksAreRead, CallOf, Steps, Never
<1>1. CASE Tick
  <2>1. now' = now + 1 /\ \A c \in Calls : call[c].at \in Int
    BY <1>0, <1>1 DEF Tick, CallOf, Never
  <2> QED BY <1>0, <1>1, <2>1 DEF Tick, ClocksAreRead
<1>2. CASE ProcessEnds
  <2>1. \A c \in Calls : call'[c].at <= now
    BY <1>0, <1>2 DEF ProcessEnds, Idle, Never, CallOf
  <2> QED BY <1>0, <1>2, <2>1 DEF ProcessEnds, ClocksAreRead
<1>3. ASSUME NEW c \in Calls, QuotaLimit(c) PROVE ClocksAreRead'
  <2>1. \A d \in Calls : call'[d].at <= now
    BY <1>0, <1>3, CallJoins, UnderCalls DEF QuotaLimit, ErrorKinds, GovernorInv
  <2> QED BY <1>0, <1>3, <2>1 DEF QuotaLimit, ClocksAreRead
<1>4. ASSUME NEW c \in Calls, Latched(c) PROVE ClocksAreRead'
  <2>1. \A d \in Calls : call'[d].at <= now
    BY <1>0, <1>4, CallMoves DEF Latched, Steps
  <2>2. \A limit \in limits' : \E old \in limits : limit.at = old.at
    BY <1>4 DEF Latched, GovernorInv, GovernorTypeOK
  <2> QED BY <1>0, <1>4, <2>1, <2>2 DEF Latched, ClocksAreRead
<1>5. ASSUME NEW c \in Calls, LatchFails(c) \/ AskFails(c) \/ ReserveFails(c) \/ Exhausted(c)
      PROVE  ClocksAreRead'
  <2>1. \A d \in Calls : call'[d].at <= now
    BY <1>0, <1>5, CallMoves DEF LatchFails, AskFails, ReserveFails, Exhausted, Steps
  <2> QED BY <1>0, <1>5, <2>1 DEF LatchFails, AskFails, ReserveFails, Exhausted, ClocksAreRead
<1>6. ASSUME NEW c \in Calls, NEW kind \in {"throttle", "ask"}, Ask(c, kind) PROVE ClocksAreRead'
  <2>1. \A d \in Calls : call'[d].at <= now
    BY <1>0, <1>6, CallJoins, UnderCalls DEF Ask, ErrorKinds, GovernorInv
  <2> QED BY <1>0, <1>6, <2>1 DEF Ask, ClocksAreRead
<1>7. ASSUME NEW c \in Calls, Answered(c) PROVE ClocksAreRead'
  <2>1. \A d \in Calls : call'[d].at <= now
    <3>1. \/ call' = [call EXCEPT ![c].step = "reserving", ![c].at = now]
          \/ CallGoes(c, "granted") \/ CallGoes(c, "denied")
      BY <1>7 DEF Answered
    <3>2. CASE call' = [call EXCEPT ![c].step = "reserving", ![c].at = now]
      <4>1. call'[c].at = now /\ \A d \in Calls \ {c} : call'[d] = call[d]
        BY <1>0, <3>2, CallReserves
      <4> QED BY <1>0, <4>1
    <3>3. CASE CallGoes(c, "granted") \/ CallGoes(c, "denied")
      BY <1>0, <3>3, CallMoves DEF Steps
    <3> QED BY <3>1, <3>2, <3>3
  <2> QED BY <1>0, <1>7, <2>1 DEF Answered, ClocksAreRead
<1>8. ASSUME NEW c \in Calls, Reserved(c) PROVE ClocksAreRead'
  <2>1. \A d \in Calls : call'[d].at <= now
    BY <1>0, <1>8, CallMoves DEF Reserved, Steps
  <2>2. throttle'.start <= now
    <3>1. throttle'.start = Current(call[c].at).start
      BY <1>8 DEF Reserved, Current, GovernorInv, GovernorTypeOK
    <3>2. Current(call[c].at).start \in {throttle.start, call[c].at}
      BY DEF Current
    <3> QED BY <1>0, <3>1, <3>2
  <2> QED BY <1>0, <1>8, <2>1, <2>2 DEF Reserved, ClocksAreRead
<1>9. CASE UNCHANGED governorVars
  BY <1>0, <1>9 DEF governorVars, ClocksAreRead
<1> QED BY <1>1, <1>2, <1>3, <1>4, <1>5, <1>6, <1>7, <1>8, <1>9 DEF GovernorNext

\* The line of the reserving calls is untouched by steps of calls that are not in it.
LEMMA LineKeeps ==
  ASSUME GovernorInv, UNCHANGED <<reserving, throttle>>,
         \A c \in Calls : call[c].step = "reserving" => call'[c] = call[c]
  PROVE  LineInOrder'
<1>1. \A i \in 1..Len(reserving) : reserving[i] \in Calls /\ call'[reserving[i]] = call[reserving[i]]
  BY DEF GovernorInv, GovernorTypeOK, LineInOrder
<1> QED BY <1>1 DEF GovernorInv, LineInOrder

\* The first reserving call leaves its line, with the window no later than its own clock.
LEMMA LineShortens ==
  ASSUME GovernorInv, NEW c \in Calls, NEW step \in Steps, First(reserving, c),
         reserving' = Tail(reserving), CallGoes(c, step),
         throttle'.start \in {throttle.start, call[c].at}
  PROVE  LineInOrder'
<1> DEFINE n == Len(reserving)
<1>0. call \in [Calls -> CallOf] /\ reserving \in Seq(Calls) /\ throttle.start \in Int
  BY DEF GovernorInv, GovernorTypeOK, CallOf, Steps, Never
<1>1. /\ Len(reserving') = n - 1 /\ n > 0 /\ reserving[1] = c
      /\ \A i \in 1..Len(reserving') : reserving'[i] = reserving[i + 1] /\ i + 1 \in 1..n
  BY <1>0, LineAdvances
<1>2. n \in Nat /\ \A i \in 1..n : reserving[i] \in Calls
  BY <1>0
<1>3. /\ \A i \in 1..n :
           /\ call[reserving[i]].step = "reserving"
           /\ call[reserving[i]].at >= 0 /\ call[reserving[i]].at >= throttle.start
      /\ \A i, j \in 1..n :
           i < j => /\ reserving[i] # reserving[j]
                    /\ call[reserving[i]].at <= call[reserving[j]].at
  BY DEF GovernorInv, LineInOrder
<1>4. \A d \in Calls \ {c} : call'[d] = call[d]
  BY <1>0, CallMoves
<1> HIDE DEF n
<1>5. ASSUME NEW i \in 1..Len(reserving')
      PROVE  /\ i + 1 \in 1..n /\ reserving'[i] = reserving[i + 1]
             /\ reserving[i + 1] \in Calls \ {c}
             /\ call[reserving[i + 1]].at >= call[c].at
             /\ call'[reserving'[i]] = call[reserving[i + 1]]
  <2>1. i + 1 \in 1..n /\ 1 \in 1..n /\ 1 < i + 1
    BY <1>1, <1>2
  <2>2. reserving[1] # reserving[i + 1] /\ call[reserving[1]].at <= call[reserving[i + 1]].at
    BY <1>3, <2>1
  <2>3. call[c].at \in Int /\ call[reserving[i + 1]].at \in Int
    BY <1>0, <1>2, <2>1 DEF CallOf, Never
  <2> QED BY <1>1, <1>2, <1>4, <2>1, <2>2, <2>3
<1>6. ASSUME NEW i \in 1..Len(reserving')
      PROVE  /\ call'[reserving'[i]].step = "reserving"
             /\ call'[reserving'[i]].at >= 0 /\ call'[reserving'[i]].at >= throttle'.start
  BY <1>3, <1>5
<1>7. ASSUME NEW i \in 1..Len(reserving'), NEW j \in 1..Len(reserving'), i < j
      PROVE  /\ reserving'[i] # reserving'[j]
             /\ call'[reserving'[i]].at <= call'[reserving'[j]].at
  <2>1. i + 1 < j + 1
    BY <1>7
  <2> QED BY <1>3, <1>5, <2>1
<1> QED BY <1>6, <1>7 DEF LineInOrder

\* A call joins its end, with a clock no earlier than the others'.
LEMMA LineLengthens ==
  ASSUME GovernorInv, NEW c \in Calls, call[c].step = "asking",
         call' = [call EXCEPT ![c].step = "reserving", ![c].at = now],
         reserving' = Append(reserving, c), throttle' = throttle
  PROVE  LineInOrder'
<1> DEFINE n == Len(reserving)
<1>0. call \in [Calls -> CallOf] /\ reserving \in Seq(Calls) /\ throttle.start \in Int
      /\ now \in 0..MaxNow
  BY DEF GovernorInv, GovernorTypeOK, CallOf, Steps, Never
<1>1. /\ n \in Nat /\ Len(reserving') = n + 1 /\ reserving'[n + 1] = c
      /\ \A i \in 1..n : reserving'[i] = reserving[i] /\ reserving[i] \in Calls
  BY <1>0, LineGrows
<1>2. /\ call'[c].step = "reserving" /\ call'[c].at = now
      /\ \A d \in Calls \ {c} : call'[d] = call[d]
  BY <1>0, CallReserves
<1>3. /\ \A i \in 1..n :
           /\ call[reserving[i]].step = "reserving"
           /\ call[reserving[i]].at >= 0 /\ call[reserving[i]].at >= throttle.start
      /\ \A i, j \in 1..n :
           i < j => /\ reserving[i] # reserving[j]
                    /\ call[reserving[i]].at <= call[reserving[j]].at
  BY DEF GovernorInv, LineInOrder
<1>4. throttle.start <= now /\ \A d \in Calls : call[d].at <= now
  BY DEF GovernorInv, ClocksAreRead
<1>5. 1..Len(reserving') = 1..n \cup {n + 1}
  BY <1>1
<1> HIDE DEF n
<1>6. ASSUME NEW i \in 1..n
      PROVE  reserving'[i] = reserving[i] /\ reserving[i] # c /\ call'[reserving'[i]] = call[reserving[i]]
             /\ call[reserving[i]].at <= now
  BY <1>1, <1>2, <1>3, <1>4
<1>7. ASSUME NEW i \in 1..Len(reserving')
      PROVE  /\ call'[reserving'[i]].step = "reserving"
             /\ call'[reserving'[i]].at >= 0 /\ call'[reserving'[i]].at >= throttle'.start
  <2>1. CASE i \in 1..n
    BY <1>3, <1>6, <2>1
  <2>2. CASE i = n + 1
    BY <1>0, <1>1, <1>2, <1>4, <2>2
  <2> QED BY <1>5, <2>1, <2>2
<1>8. ASSUME NEW i \in 1..Len(reserving'), NEW j \in 1..Len(reserving'), i < j
      PROVE  /\ reserving'[i] # reserving'[j]
             /\ call'[reserving'[i]].at <= call'[reserving'[j]].at
  <2>1. i \in 1..n
    BY <1>1, <1>5, <1>8
  <2>2. CASE j \in 1..n
    <3>1. reserving[i] # reserving[j] /\ call[reserving[i]].at <= call[reserving[j]].at
      BY <1>3, <1>8, <2>1, <2>2
    <3>2. reserving'[i] = reserving[i] /\ call'[reserving'[i]] = call[reserving[i]]
      BY <1>6, <2>1
    <3>3. reserving'[j] = reserving[j] /\ call'[reserving'[j]] = call[reserving[j]]
      BY <1>6, <2>2
    <3> QED BY <3>1, <3>2, <3>3
  <2>3. CASE j = n + 1
    BY <1>1, <1>2, <1>6, <2>1, <2>3
  <2> QED BY <1>5, <2>2, <2>3
<1> QED BY <1>7, <1>8 DEF LineInOrder

LEMMA LineNext ==
  ASSUME GovernorInv, [GovernorNext]_governorVars
  PROVE  LineInOrder'
<1>0. call \in [Calls -> CallOf] /\ reserving \in Seq(Calls) /\ now \in 0..MaxNow
      /\ throttle \in [start : {Never} \cup 0..MaxNow, retries : 0..MaxRetries]
  BY DEF GovernorInv, GovernorTypeOK, CallOf, Steps
<1>1. CASE Tick \/ UNCHANGED governorVars
  BY <1>1, LineKeeps DEF Tick, governorVars
<1>2. CASE ProcessEnds
  <2>1. reserving' = <<>>
    BY <1>2 DEF ProcessEnds
  <2>2. 1..Len(reserving') = {}
    BY <2>1
  <2> QED BY <2>2 DEF LineInOrder
<1>3. ASSUME NEW c \in Calls,
             QuotaLimit(c) \/ \E kind \in {"throttle", "ask"} : Ask(c, kind)
      PROVE  LineInOrder'
  <2>1. call[c].step # "reserving" /\ UNCHANGED <<reserving, throttle>>
    BY <1>3 DEF QuotaLimit, Ask, Idle
  <2>2. \A d \in Calls \ {c} : call'[d] = call[d]
    BY <1>0, <1>3 DEF QuotaLimit, Ask
  <2> QED BY <2>1, <2>2, LineKeeps
<1>4. ASSUME NEW c \in Calls, Latched(c) \/ LatchFails(c) \/ AskFails(c) PROVE LineInOrder'
  <2>1. call[c].step # "reserving" /\ UNCHANGED <<reserving, throttle>>
    BY <1>4 DEF Latched, LatchFails, AskFails
  <2>2. \A d \in Calls \ {c} : call'[d] = call[d]
    BY <1>0, <1>4, CallMoves DEF Latched, LatchFails, AskFails, Steps
  <2> QED BY <2>1, <2>2, LineKeeps
<1>5. ASSUME NEW c \in Calls, Answered(c) PROVE LineInOrder'
  <2>1. CASE /\ call' = [call EXCEPT ![c].step = "reserving", ![c].at = now]
             /\ reserving' = Append(reserving, c)
    BY <1>5, <2>1, LineLengthens DEF Answered
  <2>2. CASE UNCHANGED reserving /\ (CallGoes(c, "granted") \/ CallGoes(c, "denied"))
    <3>1. call[c].step # "reserving" /\ UNCHANGED <<reserving, throttle>>
      BY <1>5, <2>2 DEF Answered
    <3>2. \A d \in Calls \ {c} : call'[d] = call[d]
      BY <1>0, <2>2, CallMoves DEF Steps
    <3> QED BY <3>1, <3>2, LineKeeps
  <2> QED BY <1>5, <2>1, <2>2 DEF Answered
<1>6. ASSUME NEW c \in Calls, Exhausted(c) \/ ReserveFails(c) PROVE LineInOrder'
  BY <1>6, LineShortens DEF Exhausted, ReserveFails, Steps
<1>7. ASSUME NEW c \in Calls, Reserved(c) PROVE LineInOrder'
  <2>1. throttle'.start \in {throttle.start, call[c].at}
    BY <1>0, <1>7 DEF Reserved, Current
  <2> QED BY <1>7, <2>1, LineShortens DEF Reserved, Steps
<1> QED BY <1>1, <1>2, <1>3, <1>4, <1>5, <1>6, <1>7 DEF GovernorNext

LEMMA WindowsNext ==
  ASSUME GovernorInv, [GovernorNext]_governorVars
  PROVE  WindowsAreApart'
<1> USE GovernorAssumption
<1>0. /\ call \in [Calls -> CallOf] /\ reserving \in Seq(Calls)
      /\ throttle \in [start : {Never} \cup 0..MaxNow, retries : 0..MaxRetries]
      /\ grants \subseteq [by : Calls, at : 0..MaxNow, start : 0..MaxNow]
      /\ IsFiniteSet(grants)
  BY DEF GovernorInv, GovernorTypeOK, WindowsAreApart, CallOf, Steps
<1>1. ASSUME UNCHANGED <<throttle, grants>> PROVE WindowsAreApart'
  BY <1>1 DEF GovernorInv, WindowsAreApart, InWindow
<1>2. ASSUME NEW c \in Calls, Reserved(c) PROVE WindowsAreApart'
  <2>1. call[c].at \in 0..MaxNow /\ call[c].at >= throttle.start
    <3>1. Len(reserving) > 0 /\ reserving[1] = c
      BY <1>0, <1>2, LineAdvances DEF Reserved
    <3>2. 1 \in 1..Len(reserving)
      BY <1>0, <3>1
    <3>3. call[c].at >= 0 /\ call[c].at >= throttle.start
      BY <3>1, <3>2 DEF GovernorInv, LineInOrder
    <3> QED BY <1>0, <3>3 DEF CallOf, Never
  <2>a. PICK at \in 0..MaxNow : at = call[c].at
    BY <2>1
  <2>b. PICK begin \in 0..MaxNow : begin = Current(at).start
    BY <2>a, CurrentType DEF GovernorInv
  <2> DEFINE grant == [by |-> c, at |-> at, start |-> begin]
  <2>2. /\ Current(at) \in [start : 0..MaxNow, retries : 0..MaxRetries]
        /\ Current(at).retries < MaxRetries
        /\ throttle'.start = begin /\ throttle'.retries = Current(at).retries + 1
        /\ grants' = grants \cup {grant}
    BY <1>2, <2>a, <2>b, CurrentType DEF Reserved, GovernorInv
  <2>3. /\ grant.start = begin /\ grant.at = at /\ begin \in Nat /\ at \in Nat
        /\ begin <= at /\ at < begin + Window
    BY <1>0, <2>1, <2>a, <2>b DEF Current, SameWindow, Never
  <2>4. \/ begin = throttle.start /\ Current(at).retries = throttle.retries
        \/ begin = at /\ throttle.start = Never /\ Current(at).retries = 0
        \/ begin = at /\ throttle.start + Window <= at /\ Current(at).retries = 0
    BY <1>0, <2>1, <2>a, <2>b DEF Current, SameWindow, Never
  <2>5. \A g \in grants : /\ g.start \in Nat /\ g.at \in Nat
                          /\ g.start = throttle.start \/ g.start + Window <= throttle.start
                          /\ g.at \in g.start..g.start + Window - 1
                          /\ Cardinality(InWindow(g.start)) <= MaxRetries
                          /\ \A h \in grants : h.start > g.start => h.start >= g.start + Window
    BY <1>0 DEF GovernorInv, WindowsAreApart
  <2>c. \A g \in grants : g.start \in Nat
    BY <1>0
  <2>6. Cardinality(InWindow(throttle.start)) <= throttle.retries
    BY DEF GovernorInv, WindowsAreApart
  <2>7. \A g \in grants : g.start = begin \/ g.start + Window <= begin
    BY <1>0, <2>3, <2>4, <2>5 DEF Never
  <2>8. IsFiniteSet(grants')
    BY <1>0, <2>2, FS_AddElement
  <2>9. \A s \in Int : s # begin => InWindow(s)' = InWindow(s)
    BY <2>2, <2>3 DEF InWindow
  <2>10. /\ IsFiniteSet(InWindow(begin)) /\ Cardinality(InWindow(begin)) \in Nat
         /\ Cardinality(InWindow(begin)) <= Current(at).retries
    <3>1. IsFiniteSet(InWindow(begin))
      BY <1>0, FS_Subset DEF InWindow
    <3>2. Cardinality(InWindow(begin)) \in Nat
      BY <3>1, FS_CardinalityType
    <3>3. CASE begin = throttle.start /\ Current(at).retries = throttle.retries
      BY <2>6, <3>1, <3>2, <3>3
    <3>4. CASE /\ begin = at /\ Current(at).retries = 0
               /\ (throttle.start = Never \/ throttle.start + Window <= at)
      <4>1. \A g \in grants : g.start # begin
        BY <1>0, <2>3, <2>5, <3>4 DEF Never
      <4>2. InWindow(begin) = {}
        BY <4>1 DEF InWindow
      <4> QED BY <3>1, <3>4, <4>2, FS_EmptySet
    <3> QED BY <2>4, <3>3, <3>4
  <2>11. Cardinality(InWindow(begin)') <= Current(at).retries + 1
    <3>1. InWindow(begin)' = InWindow(begin) \cup {grant}
      BY <2>2, <2>3 DEF InWindow
    <3>2. Cardinality(InWindow(begin) \cup {grant}) \in
            {Cardinality(InWindow(begin)), Cardinality(InWindow(begin)) + 1}
      BY <2>10, FS_AddElement
    <3> HIDE DEF grant
    <3>3. Current(at).retries \in Nat
      BY <2>2
    <3> QED BY <2>10, <3>1, <3>2, <3>3
  <2> HIDE DEF grant
  <2>12. ASSUME NEW g \in grants'
         PROVE  /\ g.start = throttle'.start \/ g.start + Window <= throttle'.start
                /\ g.at \in g.start..g.start + Window - 1
                /\ Cardinality(InWindow(g.start)') <= MaxRetries
                /\ \A h \in grants' : h.start > g.start => h.start >= g.start + Window
    <3>0. \A h \in grants' : \/ h = grant /\ h.start = begin
                             \/ h \in grants /\ (h.start = begin \/ h.start + Window <= begin)
      BY <2>2, <2>3, <2>7
    <3>1. g.start \in Nat /\ (g.start = begin \/ (g \in grants /\ g.start + Window <= begin))
      <4>1. CASE g.start = begin
        BY <2>3, <4>1
      <4>2. CASE g \in grants /\ g.start + Window <= begin
        BY <2>c, <4>2
      <4> QED BY <3>0, <4>1, <4>2
    <3>2. g.at \in g.start..g.start + Window - 1
      BY <2>2, <2>3, <2>5
    <3>3. Cardinality(InWindow(g.start)') <= MaxRetries
      <4>1. CASE g.start = begin
        <5>1. Current(at).retries + 1 <= MaxRetries /\ Current(at).retries \in Nat
          BY <2>2
        <5>2. Cardinality(InWindow(begin)') \in Nat
          <6>1. InWindow(begin)' \subseteq grants'
            BY DEF InWindow
          <6> QED BY <2>8, <6>1, FS_Subset, FS_CardinalityType
        <5> QED BY <2>11, <4>1, <5>1, <5>2
      <4>2. CASE g.start # begin
        BY <2>5, <2>9, <3>1, <4>2
      <4> QED BY <4>1, <4>2
    <3>4. ASSUME NEW h \in grants', h.start > g.start PROVE h.start >= g.start + Window
      <4>1. h.start = begin \/ (h \in grants /\ h.start \in Nat /\ h.start + Window <= begin)
        <5>1. CASE h.start = begin
          BY <5>1
        <5>2. CASE h \in grants /\ h.start + Window <= begin
          BY <2>c, <5>2
        <5> QED BY <3>0, <5>1, <5>2
      <4> QED BY <2>3, <2>5, <3>1, <3>4, <4>1
    <3> QED BY <2>2, <3>1, <3>2, <3>3, <3>4
  <2>13. InWindow(throttle.start)' = InWindow(begin)'
    BY <2>2 DEF InWindow
  <2>14. Cardinality(InWindow(throttle.start))' <= throttle'.retries
    BY <2>2, <2>11, <2>13
  <2>15. \A g \in grants' : Cardinality(InWindow(g.start))' <= MaxRetries
    BY <2>12 DEF InWindow
  <2> QED BY <2>8, <2>12, <2>14, <2>15 DEF WindowsAreApart
<1> QED
  BY <1>1, <1>2
  DEF GovernorNext, governorVars, Tick, ProcessEnds, QuotaLimit, Latched, LatchFails, Ask,
      Answered, AskFails, Exhausted, ReserveFails

LEMMA GovernorInvInit == GovernorInit => GovernorInv
<1> SUFFICES ASSUME GovernorInit PROVE GovernorInv
  OBVIOUS
<1>1. ClocksAreRead
  BY DEF GovernorInit, ClocksAreRead, Idle, Never
<1>2. LineInOrder
  <2>1. 1..Len(reserving) = {}
    BY DEF GovernorInit
  <2> QED BY <2>1 DEF LineInOrder
<1>3. WindowsAreApart
  <2>1. grants = {} /\ InWindow(throttle.start) = {} /\ throttle.retries = 0
    BY DEF GovernorInit, InWindow
  <2> QED BY <2>1, FS_EmptySet DEF WindowsAreApart
<1> QED BY <1>1, <1>2, <1>3, GovernorTypeInit DEF GovernorInv

\* The budget is counted window by window.
THEOREM GovernorInvariant == GovernorSpec => []GovernorInv
<1>1. GovernorInv /\ [GovernorNext]_governorVars => GovernorInv'
  <2> SUFFICES ASSUME GovernorInv, [GovernorNext]_governorVars PROVE GovernorInv'
    OBVIOUS
  <2>1. GovernorTypeOK'
    BY GovernorTypeNext DEF GovernorInv
  <2>2. ClocksAreRead' /\ LineInOrder' /\ WindowsAreApart'
    BY ClocksNext, LineNext, WindowsNext
  <2> QED BY <2>1, <2>2 DEF GovernorInv
<1> QED BY <1>1, GovernorInvInit, PTL DEF GovernorSpec

\* Every type of the governor's state.
THEOREM GovernorTypeCorrect == GovernorSpec => []GovernorTypeOK
<1>1. GovernorInv => GovernorTypeOK
  BY DEF GovernorInv
<1> QED BY <1>1, GovernorInvariant, PTL

\* At most MaxRetries throttle retries are granted in a window, and the windows do not
\* overlap, for any calls, window, failures and processes (throttle-retry-budget.ts:10).
THEOREM RetriesAreBounded == GovernorSpec => []TwoRetriesPerWindow
<1>1. GovernorInv => TwoRetriesPerWindow
  BY DEF GovernorInv, WindowsAreApart, TwoRetriesPerWindow, InWindow
<1> QED BY <1>1, GovernorInvariant, PTL

\* Under a quota limit the policy answers no, whatever the pressure.
LEMMA QuotaIsDenied ==
  ASSUME NEW kind \in {"throttle", "ask"}
  PROVE  \A allowed \in BudgetAnswers[TRUE][kind] : allowed = FALSE
<1>1. \A allowed \in BudgetAnswers[TRUE][kind] :
        \E pressure, stage, round, maxRounds :
          allowed = DecideResourceBudget(TRUE, pressure, stage, round, maxRounds)
  BY DEF BudgetAnswers
<1> SUFFICES ASSUME NEW allowed \in BudgetAnswers[TRUE][kind] PROVE allowed = FALSE
  OBVIOUS
<1>2. PICK pressure, stage, round, maxRounds :
        allowed = DecideResourceBudget(TRUE, pressure, stage, round, maxRounds)
  BY <1>1, Zenon
<1>3. DecideResourceBudget(TRUE, pressure, stage, round, maxRounds) = FALSE
  BY DEF DecideResourceBudget
<1> QED BY <1>2, <1>3, Zenon

\* A limit that holds for a call finds the latch or the mark.
LEMMA LimitDenies ==
  ASSUME GovernorInv, LimitsAreKept, NEW limit \in limits, limit.by \notin erased,
         NEW at \in {Never} \cup Nat, Holds(limit, at)
  PROVE  QuotaLatch(at)
<1>1. limit.at \in Nat /\ emergency \in Nat /\ Window \in Nat /\ (latch # Never => latch \in Nat)
  BY GovernorAssumption DEF GovernorInv, GovernorTypeOK
<1> QED BY <1>1 DEF LimitsAreKept, Holds, QuotaLatch, Never

\* The line of the latch is untouched by steps of calls that are not in it.
LEMMA EnforcingKeeps ==
  ASSUME GovernorInv, EnforcingInOrder, enforcing' = enforcing,
         \A c \in Calls : call[c].step \in {"latching", "asking"} => call'[c] = call[c],
         \A c \in Calls : call'[c].step = "latching" => call'[c] = call[c]
  PROVE  EnforcingInOrder'
<1>1. \A i \in 1..Len(enforcing) : enforcing[i] \in Calls /\ call'[enforcing[i]] = call[enforcing[i]]
  BY DEF GovernorInv, GovernorTypeOK, EnforcingInOrder
<1> QED BY <1>1 DEF EnforcingInOrder

\* Its first call leaves it.
LEMMA EnforcingShortens ==
  ASSUME GovernorInv, EnforcingInOrder, NEW c \in Calls, First(enforcing, c),
         enforcing' = Tail(enforcing), call'[c].step \notin {"latching", "asking"},
         \A d \in Calls \ {c} : call'[d] = call[d]
  PROVE  EnforcingInOrder'
<1> DEFINE n == Len(enforcing)
           m == Len(enforcing')
<1>0. enforcing \in Seq(Calls) /\ n \in Nat /\ \A i \in 1..n : enforcing[i] \in Calls
  BY DEF GovernorInv, GovernorTypeOK
<1>1. /\ n > 0 /\ enforcing[1] = c /\ m = n - 1
      /\ \A i \in 1..m : enforcing'[i] = enforcing[i + 1] /\ i + 1 \in 1..n
  BY <1>0, LineAdvances
<1>2. /\ \A i \in 1..n : call[enforcing[i]].step \in {"latching", "asking"}
      /\ \A i, j \in 1..n : i < j => /\ enforcing[i] # enforcing[j]
                                     /\ call[enforcing[i]].at <= call[enforcing[j]].at
      /\ \A d \in Calls : call[d].step = "latching" => \E i \in 1..n : enforcing[i] = d
      /\ \A j \in 1..n, u \in Calls : u \in call[enforcing[j]].under /\ call[u].step = "latching" =>
           \E i \in 1..n : i < j /\ enforcing[i] = u
  BY DEF EnforcingInOrder
<1> HIDE DEF n, m
<1>3. ASSUME NEW i \in 1..m
      PROVE  /\ i + 1 \in 1..n /\ i + 1 > 1 /\ enforcing'[i] = enforcing[i + 1]
             /\ enforcing[i + 1] \in Calls \ {c}
             /\ call'[enforcing'[i]] = call[enforcing[i + 1]]
  <2>1. i + 1 \in 1..n /\ 1 \in 1..n /\ 1 < i + 1
    BY <1>0, <1>1
  <2>2. enforcing[1] # enforcing[i + 1]
    BY <1>2, <2>1
  <2> QED BY <1>0, <1>1, <2>1, <2>2
<1>4. ASSUME NEW k \in 1..n, enforcing[k] # c
      PROVE  k > 1 /\ k - 1 \in 1..m /\ enforcing'[k - 1] = enforcing[k]
  <2>1. k \in Nat /\ k # 1 /\ k >= 1 /\ k <= n
    BY <1>0, <1>1, <1>4
  <2>2. k - 1 \in 1..m /\ (k - 1) + 1 = k
    BY <1>0, <1>1, <2>1
  <2>3. enforcing'[k - 1] = enforcing[(k - 1) + 1]
    BY <1>1, <2>2
  <2>4. enforcing'[k - 1] = enforcing[k]
    BY <2>2, <2>3
  <2>5. k > 1
    BY <2>1
  <2> QED BY <2>2, <2>4, <2>5
<1>5. \A i \in 1..m : call'[enforcing'[i]].step \in {"latching", "asking"}
  BY <1>2, <1>3
<1>6. ASSUME NEW i \in 1..m, NEW j \in 1..m, i < j
      PROVE  /\ enforcing'[i] # enforcing'[j]
             /\ call'[enforcing'[i]].at <= call'[enforcing'[j]].at
  <2>1. i + 1 < j + 1 /\ i + 1 \in 1..n /\ j + 1 \in 1..n
    BY <1>0, <1>3, <1>6
  <2>2. /\ enforcing[i + 1] # enforcing[j + 1]
        /\ call[enforcing[i + 1]].at <= call[enforcing[j + 1]].at
    BY <1>2, <2>1
  <2> QED BY <1>3, <2>2
<1>7. ASSUME NEW d \in Calls, call'[d].step = "latching"
      PROVE  \E i \in 1..m : enforcing'[i] = d
  <2>1. d # c /\ call[d].step = "latching"
    BY <1>7
  <2>2. PICK k \in 1..n : enforcing[k] = d
    BY <1>2, <2>1
  <2> QED BY <1>4, <2>1, <2>2
<1>8. ASSUME NEW j \in 1..m, NEW u \in Calls, u \in call'[enforcing'[j]].under,
             call'[u].step = "latching"
      PROVE  \E i \in 1..m : i < j /\ enforcing'[i] = u
  <2>1. /\ u # c /\ call[u].step = "latching" /\ u \in call[enforcing[j + 1]].under
        /\ j + 1 \in 1..n
    BY <1>3, <1>8
  <2>2. PICK k \in 1..n : k < j + 1 /\ enforcing[k] = u
    BY <1>2, <2>1
  <2>3. k - 1 \in 1..m /\ enforcing'[k - 1] = u
    BY <1>4, <2>1, <2>2
  <2>4. k - 1 < j
    BY <2>2
  <2> QED BY <2>3, <2>4
<1>9. \A d \in Calls : call'[d].step = "latching" => \E i \in 1..m : enforcing'[i] = d
  BY <1>7
<1>10. \A j \in 1..m, u \in Calls :
         u \in call'[enforcing'[j]].under /\ call'[u].step = "latching" =>
           \E i \in 1..m : i < j /\ enforcing'[i] = u
  BY <1>8
<1>11. \A i, j \in 1..m : i < j => /\ enforcing'[i] # enforcing'[j]
                                   /\ call'[enforcing'[i]].at <= call'[enforcing'[j]].at
  BY <1>6
<1> USE DEF m
<1> QED BY <1>5, <1>9, <1>10, <1>11 DEF EnforcingInOrder

\* A call made now joins its end, after the limits it is made under.
LEMMA EnforcingLengthens ==
  ASSUME GovernorInv, EnforcingInOrder, UnderIsTrue, NEW c \in Calls, call[c].step = "idle",
         enforcing' = Append(enforcing, c), call'[c].step \in {"latching", "asking"},
         call'[c].at = now, call'[c].under \subseteq Calls,
         \A u \in call'[c].under : call[u].step \in {"latching", "denied"},
         \A d \in Calls \ {c} : call'[d] = call[d]
  PROVE  EnforcingInOrder'
<1> DEFINE n == Len(enforcing)
           m == Len(enforcing')
<1>0. enforcing \in Seq(Calls) /\ n \in Nat /\ \A i \in 1..n : enforcing[i] \in Calls
  BY DEF GovernorInv, GovernorTypeOK
<1>1. /\ m = n + 1 /\ enforcing'[n + 1] = c
      /\ \A i \in 1..n : enforcing'[i] = enforcing[i]
      /\ 1..m = 1..n \cup {n + 1}
  BY <1>0, LineGrows
<1>2. /\ \A i \in 1..n : call[enforcing[i]].step \in {"latching", "asking"}
      /\ \A i, j \in 1..n : i < j => /\ enforcing[i] # enforcing[j]
                                     /\ call[enforcing[i]].at <= call[enforcing[j]].at
      /\ \A d \in Calls : call[d].step = "latching" => \E i \in 1..n : enforcing[i] = d
      /\ \A j \in 1..n, u \in Calls : u \in call[enforcing[j]].under /\ call[u].step = "latching" =>
           \E i \in 1..n : i < j /\ enforcing[i] = u
  BY DEF EnforcingInOrder
<1>3. \A d \in Calls : call[d].at <= now
  BY DEF GovernorInv, ClocksAreRead
<1> HIDE DEF n, m
<1>4. ASSUME NEW i \in 1..n
      PROVE  /\ enforcing'[i] = enforcing[i] /\ enforcing[i] \in Calls \ {c}
             /\ call'[enforcing'[i]] = call[enforcing[i]]
  BY <1>0, <1>1, <1>2
<1>5. \A i \in 1..m : call'[enforcing'[i]].step \in {"latching", "asking"}
  BY <1>1, <1>2, <1>4
<1>6. ASSUME NEW i \in 1..m, NEW j \in 1..m, i < j
      PROVE  /\ enforcing'[i] # enforcing'[j]
             /\ call'[enforcing'[i]].at <= call'[enforcing'[j]].at
  <2>1. i \in 1..n
    BY <1>0, <1>1, <1>6
  <2>2. CASE j \in 1..n
    <3>1. /\ enforcing[i] # enforcing[j]
          /\ call[enforcing[i]].at <= call[enforcing[j]].at
      BY <1>2, <1>6, <2>1, <2>2
    <3> QED BY <1>4, <2>1, <2>2, <3>1
  <2>3. CASE j = n + 1
    <3>1. enforcing'[j] = c /\ call'[enforcing'[j]].at = now
      BY <1>1, <2>3
    <3> QED BY <1>3, <1>4, <2>1, <3>1
  <2> QED BY <1>1, <2>2, <2>3
<1>7. ASSUME NEW d \in Calls, call'[d].step = "latching"
      PROVE  \E i \in 1..m : enforcing'[i] = d
  <2>1. CASE d = c
    BY <1>0, <1>1, <2>1
  <2>2. CASE d # c
    <3>1. PICK i \in 1..n : enforcing[i] = d
      BY <1>2, <1>7, <2>2
    <3> QED BY <1>1, <1>4, <3>1
  <2> QED BY <2>1, <2>2
<1>8. ASSUME NEW j \in 1..m, NEW u \in Calls, u \in call'[enforcing'[j]].under,
             call'[u].step = "latching"
      PROVE  \E i \in 1..m : i < j /\ enforcing'[i] = u
  <2>1. u # c
    <3>1. CASE j \in 1..n
      <4>1. u \in call[enforcing[j]].under /\ enforcing[j] \in Calls
        BY <1>4, <1>8, <3>1
      <4>2. call[u].step \in {"latching", "denied"}
        BY <4>1 DEF UnderIsTrue
      <4> QED BY <4>2
    <3>2. CASE j = n + 1
      <4>1. u \in call'[c].under
        BY <1>1, <1>8, <3>2
      <4> QED BY <4>1
    <3> QED BY <1>1, <3>1, <3>2
  <2>2. call[u].step = "latching"
    BY <1>8, <2>1
  <2>3. CASE j \in 1..n
    <3>0. u \in call[enforcing[j]].under
      BY <1>4, <1>8, <2>3
    <3>1. PICK i \in 1..n : i < j /\ enforcing[i] = u
      BY <1>2, <2>2, <2>3, <3>0
    <3> QED BY <1>1, <1>4, <3>1
  <2>4. CASE j = n + 1
    <3>1. PICK i \in 1..n : enforcing[i] = u
      BY <1>2, <2>2
    <3>2. i < j
      BY <1>0, <2>4
    <3> QED BY <1>1, <1>4, <3>1, <3>2
  <2> QED BY <1>1, <2>3, <2>4
<1>9. \A d \in Calls : call'[d].step = "latching" => \E i \in 1..m : enforcing'[i] = d
  BY <1>7
<1>10. \A j \in 1..m, u \in Calls :
         u \in call'[enforcing'[j]].under /\ call'[u].step = "latching" =>
           \E i \in 1..m : i < j /\ enforcing'[i] = u
  BY <1>8
<1>11. \A i, j \in 1..m : i < j => /\ enforcing'[i] # enforcing'[j]
                                   /\ call'[enforcing'[i]].at <= call'[enforcing'[j]].at
  BY <1>6
<1> USE DEF m
<1> QED BY <1>5, <1>9, <1>10, <1>11 DEF EnforcingInOrder

\* Whatever call waits to be latched, the first of the line is no later than it.
LEMMA FirstIsOldest ==
  ASSUME GovernorInv, EnforcingInOrder, NEW c \in Calls, First(enforcing, c),
         NEW d \in Calls, call[d].step = "latching"
  PROVE  call[c].at <= call[d].at
<1>1. PICK i \in 1..Len(enforcing) : enforcing[i] = d
  BY DEF EnforcingInOrder
<1>2. enforcing \in Seq(Calls) /\ Len(enforcing) \in Nat /\ call[c].at \in Int
  BY DEF GovernorInv, GovernorTypeOK, Never
<1>3. Len(enforcing) > 0 /\ enforcing[1] = c
  BY <1>2, LineAdvances
<1>4. CASE i = 1
  BY <1>1, <1>2, <1>3, <1>4
<1>5. CASE i # 1
  <2>1. 1 \in 1..Len(enforcing) /\ 1 < i
    BY <1>1, <1>2, <1>3, <1>5
  <2> QED BY <1>1, <1>3, <2>1 DEF EnforcingInOrder
<1> QED BY <1>4, <1>5

\* The first of the line is made under no limit that waits still.
LEMMA FirstUnderNone ==
  ASSUME GovernorInv, EnforcingInOrder, NEW c \in Calls, First(enforcing, c),
         NEW u \in Calls, u \in call[c].under
  PROVE  call[u].step # "latching"
<1>1. enforcing \in Seq(Calls) /\ Len(enforcing) \in Nat
  BY DEF GovernorInv, GovernorTypeOK
<1>2. 1 \in 1..Len(enforcing) /\ enforcing[1] = c
  BY <1>1, LineAdvances
<1>3. \A i \in 1..Len(enforcing) : ~(i < 1)
  BY <1>1
<1> QED BY <1>2, <1>3 DEF EnforcingInOrder

\* Steps that leave the latch, the mark, the limits and the calls that latch.
LEMMA QuotaKeeps ==
  ASSUME LimitsInTurn, LimitsAreKept, UnderIsTrue, AskersAsk,
         UNCHANGED <<latch, emergency, limits, erased>>,
         \A c \in Calls :
           \/ call'[c] = call[c]
           \/ /\ call[c].step \in {"idle", "asking", "reserving"}
              /\ call'[c].step \in {"asking", "reserving", "granted", "denied"}
              /\ \A u \in call'[c].under :
                   /\ u \in Calls /\ call[u].step \in {"latching", "denied"}
                   /\ call'[c].step = "asking" =>
                        \E limit \in limits : limit.by = u /\ Holds(limit, call'[c].at)
                   /\ call'[c].step \in {"reserving", "granted"} =>
                        u \in erased /\ call[u].step = "denied"
              /\ call'[c].step = "asking" => call'[c].kind \in {"throttle", "ask"},
         \A limit \in limits : limit.by \in Calls, \A c \in Calls : call[c].under \subseteq Calls
  PROVE  LimitsInTurn' /\ LimitsAreKept' /\ UnderIsTrue' /\ AskersAsk'
<1>1. LimitsAreKept'
  BY DEF LimitsAreKept
<1>2. \A u \in Calls : /\ call[u].step \in {"latching", "denied"} => call'[u] = call[u]
                       /\ call'[u].step = "latching" => call'[u] = call[u]
  OBVIOUS
<1>3. LimitsInTurn'
  BY <1>2 DEF LimitsInTurn
<1>4. UnderIsTrue'
  <2>1. ASSUME NEW c \in Calls, NEW u \in Calls, u \in call'[c].under
        PROVE  /\ call'[u].step \in {"latching", "denied"}
               /\ call'[c].step = "asking" =>
                    \E limit \in limits' : limit.by = u /\ Holds(limit, call'[c].at)
               /\ call'[c].step \in {"reserving", "granted"} => u \in erased' /\ call'[u].step = "denied"
    <3>1. CASE call'[c] = call[c]
      BY <1>2, <2>1, <3>1 DEF UnderIsTrue
    <3>2. CASE call'[c] # call[c]
      BY <1>2, <2>1, <3>2
    <3> QED BY <3>1, <3>2
  <2> QED BY <2>1 DEF UnderIsTrue, Holds
<1>5. AskersAsk'
  BY DEF AskersAsk
<1> QED BY <1>1, <1>3, <1>4, <1>5

\* A quota limit is seen: it is marked before it waits.
LEMMA QuotaLimitKeeps ==
  ASSUME GovernorInv, QuotaInv, NEW c \in Calls, QuotaLimit(c) PROVE QuotaInv'
<1> USE GovernorAssumption
<1>0. /\ call \in [Calls -> CallOf] /\ now \in 0..MaxNow /\ Window \in Nat \ {0}
      /\ emergency \in Nat /\ latch \in {Never} \cup Nat /\ GovernorTypeOK
      /\ \A limit \in limits : limit.at \in Nat /\ limit.at <= now /\ limit.by \in Calls
      /\ \A d \in Calls : call[d].at <= now
  BY DEF GovernorInv, GovernorTypeOK, ClocksAreRead, CallOf, Steps
<1> DEFINE new == [by |-> c, at |-> now, stored |-> FALSE]
<1>1. /\ emergency' = Later(emergency, now + Window)
      /\ limits' = limits \cup {new} /\ new.at = now /\ new.stored = FALSE /\ new.by = c
      /\ latch' = latch /\ erased' = erased /\ enforcing' = Append(enforcing, c)
      /\ call[c].step = "idle"
  BY DEF QuotaLimit, Idle
<1>2. /\ call'[c].step = "latching" /\ call'[c].at = now /\ call'[c].under = UnderLimits
      /\ \A d \in Calls \ {c} : call'[d] = call[d]
  BY <1>0, CallJoins, UnderCalls DEF QuotaLimit, ErrorKinds, GovernorInv
<1>3. emergency' \in Nat /\ emergency' >= emergency /\ emergency' >= now + Window
  BY <1>0, <1>1 DEF Later
<1>4. \A limit \in limits : limit.by # c
  BY <1>1 DEF QuotaInv, LimitsInTurn
<1>5. \A u \in UnderLimits : u \in Calls /\ call[u].step \in {"latching", "denied"} /\ u # c
  BY <1>0, <1>1 DEF UnderLimits, QuotaInv, LimitsInTurn
<1> HIDE DEF new
<1>6. EnforcingInOrder'
  BY <1>1, <1>2, <1>5, EnforcingLengthens DEF QuotaInv
<1>7. LimitsInTurn'
  <2>1. ASSUME NEW limit \in limits'
        PROVE  /\ call'[limit.by].at = limit.at
               /\ call'[limit.by].step \in {"latching", "denied"}
               /\ limit.stored => call'[limit.by].step = "denied"
               /\ \A d \in Calls : call'[d].step = "latching" /\ call'[d].at < limit.at =>
                    call'[limit.by].step = "latching"
    <3>1. CASE limit = new
      BY <1>1, <1>2, <3>1
    <3>2. CASE limit \in limits
      <4>1. call'[limit.by] = call[limit.by]
        BY <1>0, <1>2, <1>4, <3>2
      <4>2. ASSUME NEW d \in Calls, call'[d].step = "latching", call'[d].at < limit.at
            PROVE  d # c
        BY <1>0, <1>2, <3>2, <4>2
      <4> QED BY <1>2, <3>2, <4>1, <4>2 DEF QuotaInv, LimitsInTurn
    <3> QED BY <1>1, <3>1, <3>2
  <2> QED BY <2>1 DEF LimitsInTurn
<1>8. LimitsAreKept'
  <2>1. ASSUME NEW limit \in limits'
        PROVE  \/ latch' # Never /\ limit.at <= latch'
               \/ ~limit.stored /\ (limit.at + Window <= emergency' \/ limit.by \in erased')
    <3>1. CASE limit \in limits
      <4>1. \/ latch # Never /\ limit.at <= latch
            \/ ~limit.stored /\ (limit.at + Window <= emergency \/ limit.by \in erased)
        BY <3>1 DEF QuotaInv, LimitsAreKept
      <4> QED BY <1>0, <1>1, <1>3, <3>1, <4>1
    <3>2. CASE limit = new
      BY <1>1, <1>3, <3>2
    <3> QED BY <1>1, <3>1, <3>2
  <2> QED BY <2>1 DEF LimitsAreKept
<1>9. UnderIsTrue'
  <2>1. ASSUME NEW d \in Calls, NEW u \in Calls, u \in call'[d].under
        PROVE  /\ call'[u].step \in {"latching", "denied"}
               /\ call'[d].step = "asking" =>
                    \E limit \in limits' : limit.by = u /\ Holds(limit, call'[d].at)
               /\ call'[d].step \in {"reserving", "granted"} =>
                    u \in erased' /\ call'[u].step = "denied"
    <3>1. CASE d = c
      BY <1>2, <1>5, <2>1, <3>1
    <3>2. CASE d # c
      <4>1. call'[d] = call[d]
        BY <1>2, <3>2
      <4>2. /\ call[u].step \in {"latching", "denied"}
            /\ call[d].step = "asking" =>
                 \E limit \in limits : limit.by = u /\ Holds(limit, call[d].at)
            /\ call[d].step \in {"reserving", "granted"} => u \in erased /\ call[u].step = "denied"
        BY <2>1, <4>1 DEF QuotaInv, UnderIsTrue
      <4>3. u # c /\ call'[u] = call[u]
        BY <1>1, <1>2, <4>2
      <4> QED BY <1>1, <4>1, <4>2, <4>3
    <3> QED BY <3>1, <3>2
  <2> QED BY <2>1 DEF UnderIsTrue, Holds
<1>10. AskersAsk'
  BY <1>2 DEF QuotaInv, AskersAsk
<1> QED BY <1>6, <1>7, <1>8, <1>9, <1>10 DEF QuotaInv

\* A limit is latched: the latch covers what came before it, and the marks of what waits
\* beside it are gone.
LEMMA LatchedKeeps ==
  ASSUME GovernorInv, QuotaInv, NEW c \in Calls, Latched(c) PROVE QuotaInv'
<1> USE GovernorAssumption
<1>0. /\ call \in [Calls -> CallOf] /\ now \in 0..MaxNow /\ Window \in Nat \ {0}
      /\ limits \subseteq [by : Calls, at : 0..MaxNow, stored : BOOLEAN]
  BY DEF GovernorInv, GovernorTypeOK, CallOf, Steps
<1> DEFINE Written(old) == [old EXCEPT !.stored = @ \/ old.by = c]
<1>1. /\ call[c].step = "latching" /\ latch' = call[c].at /\ First(enforcing, c)
      /\ limits' = {Written(old) : old \in limits}
      /\ erased' = (erased \cup {d \in Calls : call[d].step = "latching"}) \ {c}
      /\ enforcing' = Tail(enforcing)
  BY DEF Latched, Tripped
<1>2. /\ call'[c].step = "denied" /\ call'[c].at = call[c].at /\ call'[c].under = call[c].under
      /\ \A d \in Calls \ {c} : call'[d] = call[d]
  BY <1>0, CallMoves DEF Latched, Steps
<1>3. \A old \in limits : /\ Written(old).at = old.at /\ Written(old).by = old.by
                          /\ Written(old).stored = (old.stored \/ old.by = c)
                          /\ old.at \in Nat /\ old.by \in Calls
  BY <1>0
<1>4. call[c].at \in Nat \cup {Never}
  BY <1>0 DEF CallOf
<1> HIDE DEF Written
<1>5. EnforcingInOrder'
  BY <1>1, <1>2, EnforcingShortens DEF QuotaInv
<1>6. ASSUME NEW limit \in limits'
      PROVE  \E old \in limits : /\ limit.at = old.at /\ limit.by = old.by
                                 /\ limit.stored = (old.stored \/ old.by = c)
  BY <1>1, <1>3
<1>7. LimitsInTurn'
  <2>1. ASSUME NEW limit \in limits'
        PROVE  /\ call'[limit.by].at = limit.at
               /\ call'[limit.by].step \in {"latching", "denied"}
               /\ limit.stored => call'[limit.by].step = "denied"
               /\ \A d \in Calls : call'[d].step = "latching" /\ call'[d].at < limit.at =>
                    call'[limit.by].step = "latching"
    <3>1. PICK old \in limits : /\ limit.at = old.at /\ limit.by = old.by
                                /\ limit.stored = (old.stored \/ old.by = c)
      BY <1>6
    <3>2. /\ call[old.by].at = old.at
          /\ call[old.by].step \in {"latching", "denied"}
          /\ old.stored => call[old.by].step = "denied"
          /\ \A d \in Calls : call[d].step = "latching" /\ call[d].at < old.at =>
               call[old.by].step = "latching"
      BY DEF QuotaInv, LimitsInTurn
    <3>3. CASE old.by = c
      <4>1. ASSUME NEW d \in Calls, call'[d].step = "latching", call'[d].at < limit.at PROVE FALSE
        <5>1. call'[d] = call[d] /\ call[d].at \in Int
          BY <1>0, <1>2, <4>1 DEF CallOf, Never
        <5>2. call[c].at <= call[d].at
          BY <1>1, <4>1, <5>1, FirstIsOldest DEF QuotaInv
        <5> QED BY <1>4, <3>1, <3>2, <3>3, <4>1, <5>1, <5>2 DEF Never
      <4> QED BY <1>2, <3>1, <3>2, <3>3, <4>1
    <3>4. CASE old.by # c
      <4>1. call'[old.by] = call[old.by]
        BY <1>2, <1>3, <3>4
      <4> QED BY <1>2, <3>1, <3>2, <3>4, <4>1
    <3> QED BY <3>3, <3>4
  <2> QED BY <2>1 DEF LimitsInTurn
<1>8. LimitsAreKept'
  <2>1. ASSUME NEW limit \in limits'
        PROVE  \/ latch' # Never /\ limit.at <= latch'
               \/ ~limit.stored /\ (limit.at + Window <= emergency' \/ limit.by \in erased')
    <3>1. PICK old \in limits : /\ limit.at = old.at /\ limit.by = old.by
                                /\ limit.stored = (old.stored \/ old.by = c)
      BY <1>6
    <3>2. /\ old.at \in Nat /\ old.by \in Calls
          /\ old.stored => call[old.by].step = "denied"
          /\ call[c].at < old.at => call[old.by].step = "latching"
      BY <1>1, <1>3 DEF QuotaInv, LimitsInTurn
    <3>3. CASE old.at <= call[c].at
      BY <1>1, <1>4, <3>1, <3>2, <3>3 DEF Never
    <3>4. CASE call[c].at < old.at
      <4>1. call[old.by].at = old.at
        BY DEF QuotaInv, LimitsInTurn
      <4>2. old.by # c
        BY <1>4, <3>2, <3>4, <4>1 DEF Never
      <4> QED BY <1>1, <3>1, <3>2, <3>4, <4>2
    <3> QED BY <1>4, <3>2, <3>3, <3>4 DEF Never
  <2> QED BY <2>1 DEF LimitsAreKept
<1>9. UnderIsTrue'
  <2>1. ASSUME NEW d \in Calls, NEW u \in Calls, u \in call'[d].under
        PROVE  /\ call'[u].step \in {"latching", "denied"}
               /\ call'[d].step = "asking" =>
                    \E limit \in limits' : limit.by = u /\ Holds(limit, call'[d].at)
               /\ call'[d].step \in {"reserving", "granted"} =>
                    u \in erased' /\ call'[u].step = "denied"
    <3>1. u \in call[d].under
      BY <1>2, <2>1
    <3>2. /\ call[u].step \in {"latching", "denied"}
          /\ call[d].step = "asking" =>
               \E limit \in limits : limit.by = u /\ Holds(limit, call[d].at)
          /\ call[d].step \in {"reserving", "granted"} => u \in erased /\ call[u].step = "denied"
      BY <3>1 DEF QuotaInv, UnderIsTrue
    <3>3. call'[u].step \in {"latching", "denied"}
      BY <1>2, <3>2
    <3>4. ASSUME call'[d].step = "asking"
          PROVE  \E limit \in limits' : limit.by = u /\ Holds(limit, call'[d].at)
      <4>1. d # c /\ call'[d] = call[d]
        BY <1>2, <3>4
      <4>2. PICK old \in limits : old.by = u /\ Holds(old, call[d].at)
        BY <3>2, <3>4, <4>1
      <4>3. Written(old) \in limits' /\ Written(old).by = u /\ Written(old).at = old.at
        BY <1>1, <1>3, <4>2
      <4> QED BY <4>1, <4>2, <4>3 DEF Holds
    <3>5. ASSUME call'[d].step \in {"reserving", "granted"}
          PROVE  u \in erased' /\ call'[u].step = "denied"
      <4>1. d # c /\ call'[d] = call[d]
        BY <1>2, <3>5
      <4>2. u \in erased /\ call[u].step = "denied" /\ u # c
        BY <1>1, <3>2, <3>5, <4>1
      <4> QED BY <1>1, <1>2, <4>2
    <3> QED BY <3>3, <3>4, <3>5
  <2> QED BY <2>1 DEF UnderIsTrue, Holds
<1>10. AskersAsk'
  BY <1>2 DEF QuotaInv, AskersAsk
<1> QED BY <1>5, <1>7, <1>8, <1>9, <1>10 DEF QuotaInv

LEMMA QuotaNext ==
  ASSUME GovernorInv, QuotaInv, [GovernorNext]_governorVars
  PROVE  QuotaInv'
<1> USE GovernorAssumption
<1>0. /\ call \in [Calls -> CallOf] /\ now \in 0..MaxNow /\ GovernorTypeOK
      /\ \A limit \in limits : limit.by \in Calls
      /\ \A c \in Calls : call[c].under \subseteq Calls
      /\ EnforcingInOrder /\ LimitsInTurn /\ LimitsAreKept /\ UnderIsTrue /\ AskersAsk
  BY DEF GovernorInv, GovernorTypeOK, CallOf, Steps, QuotaInv
<1>1. CASE Tick \/ UNCHANGED governorVars
  <2>1. UNCHANGED <<latch, emergency, limits, erased, enforcing, call>>
    BY <1>1 DEF Tick, governorVars
  <2>2. EnforcingInOrder'
    BY <1>0, <2>1, EnforcingKeeps
  <2> QED BY <1>0, <2>1, <2>2, QuotaKeeps DEF QuotaInv
<1>2. CASE ProcessEnds
  <2>1. \A c \in Calls : /\ call'[c].step \in {"idle", "denied"}
                         /\ call[c].step # "idle" =>
                              call'[c].step = "denied" /\ call'[c].at = call[c].at
                         /\ call'[c].under \subseteq call[c].under
    BY <1>0, <1>2 DEF ProcessEnds, Idle, CallOf
  <2>2. LimitsAreKept'
    BY <1>0, <1>2 DEF ProcessEnds, LimitsAreKept
  <2>3. EnforcingInOrder'
    <3>1. 1..Len(enforcing') = {}
      BY <1>2 DEF ProcessEnds
    <3> QED BY <2>1, <3>1 DEF EnforcingInOrder
  <2>4. LimitsInTurn'
    BY <1>0, <1>2, <2>1 DEF ProcessEnds, LimitsInTurn
  <2>5. UnderIsTrue'
    BY <1>0, <2>1 DEF UnderIsTrue
  <2>6. AskersAsk'
    BY <2>1 DEF AskersAsk
  <2> QED BY <2>2, <2>3, <2>4, <2>5, <2>6 DEF QuotaInv
<1>3. ASSUME NEW c \in Calls, QuotaLimit(c) PROVE QuotaInv'
  BY <1>3, QuotaLimitKeeps
<1>4. ASSUME NEW c \in Calls, Latched(c) PROVE QuotaInv'
  BY <1>4, LatchedKeeps
<1>5. ASSUME NEW c \in Calls, LatchFails(c) PROVE QuotaInv'
  <2>1. /\ call'[c].step = "denied" /\ call'[c].at = call[c].at /\ call'[c].under = call[c].under
        /\ \A d \in Calls \ {c} : call'[d] = call[d]
    BY <1>0, <1>5, CallMoves DEF LatchFails, Steps
  <2>2. /\ call[c].step = "latching" /\ First(enforcing, c) /\ enforcing' = Tail(enforcing)
        /\ UNCHANGED <<latch, emergency, limits, erased>>
    BY <1>5 DEF LatchFails
  <2>3. EnforcingInOrder'
    BY <1>0, <2>1, <2>2, EnforcingShortens
  <2>4. LimitsInTurn'
    <3>1. ASSUME NEW limit \in limits
          PROVE  /\ call'[limit.by].at = limit.at
                 /\ call'[limit.by].step \in {"latching", "denied"}
                 /\ limit.stored => call'[limit.by].step = "denied"
                 /\ \A d \in Calls : call'[d].step = "latching" /\ call'[d].at < limit.at =>
                      call'[limit.by].step = "latching"
      <4>1. /\ call[limit.by].at = limit.at
            /\ call[limit.by].step \in {"latching", "denied"}
            /\ limit.stored => call[limit.by].step = "denied"
            /\ \A d \in Calls : call[d].step = "latching" /\ call[d].at < limit.at =>
                 call[limit.by].step = "latching"
        BY <1>0 DEF LimitsInTurn
      <4>2. CASE limit.by = c
        <5>1. ASSUME NEW d \in Calls, call'[d].step = "latching", call'[d].at < limit.at
              PROVE  FALSE
          <6>1. call'[d] = call[d] /\ call[d].at \in Int /\ call[c].at \in Int
            BY <1>0, <2>1, <5>1 DEF CallOf, Never
          <6>2. call[c].at <= call[d].at
            BY <1>0, <2>2, <5>1, <6>1, FirstIsOldest
          <6> QED BY <4>1, <4>2, <5>1, <6>1, <6>2
        <5> QED BY <2>1, <4>1, <4>2, <5>1
      <4>3. CASE limit.by # c
        BY <1>0, <2>1, <4>1, <4>3
      <4> QED BY <4>2, <4>3
    <3> QED BY <2>2, <3>1 DEF LimitsInTurn
  <2>5. LimitsAreKept'
    BY <1>0, <2>2 DEF LimitsAreKept
  <2>6. UnderIsTrue' /\ AskersAsk'
    <3>1. \A d \in Calls : call'[d].at = call[d].at /\ call'[d].under = call[d].under
      BY <2>1
    <3>2. \A d \in Calls : call'[d].step = call[d].step \/ (d = c /\ call'[d].step = "denied")
      BY <2>1
    <3> QED BY <1>0, <2>1, <2>2, <3>1, <3>2 DEF UnderIsTrue, AskersAsk, Holds
  <2> QED BY <2>3, <2>4, <2>5, <2>6 DEF QuotaInv
<1>6. ASSUME NEW c \in Calls, NEW kind \in {"throttle", "ask"}, Ask(c, kind) PROVE QuotaInv'
  <2>1. /\ call'[c].step = "asking" /\ call'[c].at = now /\ call'[c].under = UnderLimits
        /\ call'[c].kind = kind /\ \A d \in Calls \ {c} : call'[d] = call[d]
    BY <1>0, <1>6, CallJoins, UnderCalls DEF Ask, ErrorKinds, GovernorInv
  <2>2. /\ call[c].step = "idle" /\ enforcing' = Append(enforcing, c)
        /\ UNCHANGED <<latch, emergency, limits, erased>>
    BY <1>6 DEF Ask, Idle
  <2>3. \A u \in UnderLimits : /\ u \in Calls /\ call[u].step \in {"latching", "denied"}
                               /\ \E limit \in limits : limit.by = u /\ Holds(limit, now)
    BY <1>0 DEF UnderLimits, LimitsInTurn
  <2>4. EnforcingInOrder'
    BY <1>0, <2>1, <2>2, <2>3, EnforcingLengthens
  <2> QED BY <1>0, <2>1, <2>2, <2>3, <2>4, QuotaKeeps DEF QuotaInv
<1>7. ASSUME NEW c \in Calls, Answered(c) PROVE QuotaInv'
  <2>1. /\ call[c].step = "asking" /\ First(enforcing, c) /\ enforcing' = Tail(enforcing)
        /\ UNCHANGED <<latch, emergency, limits, erased>>
    BY <1>7 DEF Answered
  <2>2. PICK allowed \in BudgetAnswers[QuotaLatch(call[c].at)][call[c].kind] :
          IF allowed /\ call[c].kind = "throttle"
            THEN call' = [call EXCEPT ![c].step = "reserving", ![c].at = now]
            ELSE CallGoes(c, IF allowed THEN "granted" ELSE "denied")
    BY <1>7 DEF Answered
  <2>3. /\ call'[c].step \in {"reserving", "granted", "denied"}
        /\ call'[c].under = call[c].under
        /\ \A d \in Calls \ {c} : call'[d] = call[d]
    <3>1. \/ call' = [call EXCEPT ![c].step = "reserving", ![c].at = now]
          \/ CallGoes(c, "granted") \/ CallGoes(c, "denied")
      BY <2>2
    <3>2. CASE call' = [call EXCEPT ![c].step = "reserving", ![c].at = now]
      BY <1>0, <3>2, CallReserves
    <3>3. CASE CallGoes(c, "granted") \/ CallGoes(c, "denied")
      BY <1>0, <3>3, CallMoves DEF Steps
    <3> QED BY <3>1, <3>2, <3>3
  <2>4. ASSUME NEW u \in call[c].under
        PROVE  /\ u \in Calls /\ call[u].step = "denied"
               /\ call'[c].step = "denied" \/ u \in erased
    <3>1. u \in Calls /\ call[u].step = "denied"
      BY <1>0, <2>1, FirstUnderNone DEF UnderIsTrue
    <3>2. CASE u \notin erased
      <4>1. PICK limit \in limits : limit.by = u /\ Holds(limit, call[c].at)
        BY <1>0, <2>1, <3>1 DEF UnderIsTrue
      <4>2. call[c].at \in {Never} \cup Nat
        BY <1>0 DEF CallOf
      <4>3. QuotaLatch(call[c].at) = TRUE
        BY <1>0, <3>2, <4>1, <4>2, LimitDenies
      <4>4. allowed = FALSE
        BY <1>0, <2>1, <2>2, <4>3, QuotaIsDenied DEF AskersAsk
      <4>5. CallGoes(c, "denied")
        BY <2>2, <4>4
      <4>6. call'[c].step = "denied"
        BY <1>0, <4>5, CallMoves DEF Steps
      <4> QED BY <3>1, <4>6
    <3> QED BY <3>1, <3>2
  <2>5. EnforcingInOrder'
    BY <1>0, <2>1, <2>3, EnforcingShortens
  <2> QED BY <1>0, <2>1, <2>3, <2>4, <2>5, QuotaKeeps DEF QuotaInv
<1>8. ASSUME NEW c \in Calls, Reserved(c) \/ Exhausted(c) \/ ReserveFails(c) PROVE QuotaInv'
  <2>1. /\ call[c].step = "reserving" /\ UNCHANGED <<latch, emergency, limits, erased, enforcing>>
        /\ CallGoes(c, "granted") \/ CallGoes(c, "denied")
    BY <1>8 DEF Reserved, Exhausted, ReserveFails
  <2>2. /\ call'[c].step \in {"granted", "denied"} /\ call'[c].under = call[c].under
        /\ \A d \in Calls \ {c} : call'[d] = call[d]
    BY <1>0, <2>1, CallMoves DEF Steps
  <2>3. \A u \in call[c].under : u \in Calls /\ u \in erased /\ call[u].step = "denied"
    BY <1>0, <2>1 DEF UnderIsTrue
  <2>4. EnforcingInOrder'
    BY <1>0, <2>1, <2>2, EnforcingKeeps
  <2> QED BY <1>0, <2>1, <2>2, <2>3, <2>4, QuotaKeeps DEF QuotaInv
<1>9. ASSUME NEW c \in Calls, AskFails(c) PROVE QuotaInv'
  <2>1. /\ call[c].step = "asking" /\ First(enforcing, c) /\ enforcing' = Tail(enforcing)
        /\ UNCHANGED <<latch, emergency, limits, erased>> /\ CallGoes(c, "denied")
    BY <1>9 DEF AskFails
  <2>2. /\ call'[c].step = "denied" /\ call'[c].under = call[c].under
        /\ \A d \in Calls \ {c} : call'[d] = call[d]
    BY <1>0, <2>1, CallMoves DEF Steps
  <2>3. \A u \in call[c].under : u \in Calls /\ call[u].step \in {"latching", "denied"}
    BY <1>0 DEF UnderIsTrue
  <2>4. EnforcingInOrder'
    BY <1>0, <2>1, <2>2, EnforcingShortens
  <2> QED BY <1>0, <2>1, <2>2, <2>3, <2>4, QuotaKeeps DEF QuotaInv
<1> QED BY <1>1, <1>2, <1>3, <1>4, <1>5, <1>6, <1>7, <1>8, <1>9 DEF GovernorNext

\* What is asked while a quota limit holds is denied, for any calls, window, failures of
\* storage and processes, unless the limit was one whose write had failed or was still to
\* come when the write of another one cleared its mark (enforcement-state.ts:14, 44).
THEOREM QuotaLimitsDeny == GovernorSpec => []QuotaDenies
<1>1. GovernorInv /\ QuotaInv /\ [GovernorNext]_governorVars => QuotaInv'
  BY QuotaNext
<1>2. GovernorInit => QuotaInv
  <2> SUFFICES ASSUME GovernorInit PROVE QuotaInv
    OBVIOUS
  <2>1. \A c \in Calls : call[c].step = "idle" /\ call[c].under = {}
    BY DEF GovernorInit, Idle
  <2>2. 1..Len(enforcing) = {} /\ limits = {}
    BY DEF GovernorInit
  <2> QED
    BY <2>1, <2>2
    DEF QuotaInv, EnforcingInOrder, LimitsInTurn, LimitsAreKept, UnderIsTrue, AskersAsk
<1>3. GovernorInv /\ QuotaInv => QuotaDenies
  BY DEF GovernorInv, GovernorTypeOK, QuotaInv, UnderIsTrue, QuotaDenies
<1> QED BY <1>1, <1>2, <1>3, GovernorInvariant, PTL DEF GovernorSpec

-----------------------------------------------------------------------------
(* Context management: ledger.ts, storage-sink.ts, observer.ts, protection.ts *)

Entries ==
  [group: Groups, session: CSessions, print: Payloads \X Nat,
   role: {"user-session", "worker", "critic", "orchestrator", "unknown"},
   at: Nat, event: Events, key: Nat, nr: Nat]

\* What an entry says of its event is what was observed.
SoundEntries == {e \in Entries : /\ e.group = e.event[1]
                                 /\ e.session = SessionOf[e.event[1]]
                                 /\ e.print = Fingerprint(e.event[2], e.key)}

OneEach(groups) == \A e, f \in groups : e.group = f.group => e = f

InOrder(groups) == \A e, f \in groups : e.nr = f.nr => e = f

-----------------------------------------------------------------------------
(* ledger.ts *)

GroupsOf(entries) == {e.group : e \in entries}

\* Entries of different groups are no more than the groups of a set they are in.
LEMMA OneEachIsCounted ==
  ASSUME NEW few, NEW many, OneEach(few), few \subseteq many, IsFiniteSet(GroupsOf(many))
  PROVE  IsFiniteSet(few) /\ Cardinality(few) <= Cardinality(GroupsOf(many))
  <1> DEFINE f == [e \in few |-> e.group]
  <1>1. f \in [few -> GroupsOf(many)]
    BY DEF GroupsOf
  <1>2. \A e, d \in few : f[e] = f[d] => e = d
    BY DEF OneEach
  <1>3. f \in Injection(few, GroupsOf(many))
    BY <1>1, <1>2 DEF Injection, IsInjective
  <1> QED
    BY <1>3, FS_Injection

LEMMA GroupsOfAreFinite ==
  ASSUME NEW entries \in SUBSET SoundEntries
  PROVE  IsFiniteSet(GroupsOf(entries)) /\ GroupsOf(entries) \subseteq Groups
  <1>1. GroupsOf(entries) \subseteq Groups
    BY DEF GroupsOf, SoundEntries, Entries
  <1> QED
    BY <1>1, FS_Subset, ContextAssumption DEF ContextAssumption

\* The groups of a larger set are no fewer.
LEMMA GroupsOfMore ==
  ASSUME NEW more \in SUBSET SoundEntries, NEW entries \in SUBSET more
  PROVE  Cardinality(GroupsOf(entries)) <= Cardinality(GroupsOf(more))
  <1>1. GroupsOf(entries) \subseteq GroupsOf(more)
    BY DEF GroupsOf
  <1> QED
    BY <1>1, GroupsOfAreFinite, FS_Subset

\* Of the sessions it trims, no more stay than there is room for: each that stays has its
\* own number of newer ones.
LEMMA TrimmedIsBounded ==
  ASSUME NEW groups \in SUBSET SoundEntries, IsFiniteSet(groups), InOrder(groups),
         NEW capacity \in Nat \ {0}, NEW sessions
  PROVE  Cardinality({e \in Trimmed(groups, capacity, sessions) : e.session \in sessions}) <= capacity
  <1> DEFINE stay     == {e \in Trimmed(groups, capacity, sessions) : e.session \in sessions}
             newer(e) == {other \in Newer(groups, e) : other.session \in sessions}
             f        == [e \in stay |-> Cardinality(newer(e))]
  <1>1. \A e \in stay : e \in groups /\ e.nr \in Nat /\ Cardinality(newer(e)) < capacity
    BY DEF Trimmed, SoundEntries, Entries
  <1>2. \A e \in stay : IsFiniteSet(newer(e)) /\ Cardinality(newer(e)) \in Nat
    <2> TAKE e \in stay
    <2>1. newer(e) \in SUBSET groups
      BY DEF Newer
    <2> QED
      BY <2>1, FS_Subset, FS_CardinalityType
  <1>3. f \in [stay -> 0..capacity - 1]
    <2>1. \A e \in stay : Cardinality(newer(e)) \in 0..capacity - 1
      <3> HIDE DEF newer, stay
      <3> QED BY <1>1, <1>2
    <2> HIDE DEF stay, newer
    <2> QED
      BY <2>1
  <1>4. ASSUME NEW e \in stay, NEW d \in stay, e.nr < d.nr
        PROVE  f[e] # f[d]
    <2>0. /\ d \in groups /\ d.session \in sessions /\ e.nr \in Nat /\ d.nr \in Nat
          /\ \A o \in groups : o.nr \in Nat
      BY <1>1 DEF SoundEntries, Entries
    <2>1. newer(d) \subseteq newer(e)
      BY <2>0, <1>4 DEF Newer
    <2>2. d \in newer(e) /\ d \notin newer(d)
      BY <2>0, <1>4 DEF Newer
    <2>3. Cardinality(newer(e)) # Cardinality(newer(d))
      <3> HIDE DEF newer, stay
      <3> QED BY <2>1, <2>2, <1>2, FS_Subset
    <2> QED
      BY <2>3
  <1>5. \A e, d \in stay : f[e] = f[d] => e = d
    <2> SUFFICES ASSUME NEW e \in stay, NEW d \in stay, f[e] = f[d], e # d PROVE FALSE
      OBVIOUS
    <2>1. e.nr \in Nat /\ d.nr \in Nat /\ e.nr # d.nr
      BY <1>1 DEF InOrder
    <2>2. CASE e.nr < d.nr
      BY <2>2, <1>4
    <2>3. CASE d.nr < e.nr
      BY <2>3, <1>4
    <2> QED
      BY <2>1, <2>2, <2>3
  <1>6. f \in Injection(stay, 0..capacity - 1)
    <2> HIDE DEF stay, f
    <2> QED BY <1>3, <1>5 DEF Injection, IsInjective
  <1>7. IsFiniteSet(0..capacity - 1) /\ Cardinality(0..capacity - 1) = capacity
    BY FS_Interval
  <1>8. Cardinality(stay) <= capacity
    <2> HIDE DEF stay, f
    <2> QED BY <1>6, <1>7, FS_Injection
  <1> QED
    BY <1>8

\* What an entry is put behind: entries of other places, one of each group.
IsLedger(groups) == groups \subseteq SoundEntries /\ InOrder(groups) /\ OneEach(groups)

LEMMA LedgerIsFinite ==
  ASSUME NEW groups, IsLedger(groups)
  PROVE  IsFiniteSet(groups)
  <1>1. IsFiniteSet(GroupsOf(groups))
    BY GroupsOfAreFinite DEF IsLedger
  <1> QED
    BY <1>1, OneEachIsCounted DEF IsLedger

\* The new entry stands for its group, and nothing comes that was not there.
LEMMA UpsertedIsSound ==
  ASSUME NEW groups, NEW entry, NEW t
  PROVE  /\ Upserted(groups, entry, t) \subseteq groups \cup {entry}
         /\ \A e \in Upserted(groups, entry, t) : e # entry => e.group # entry.group
  BY DEF Upserted, Trimmed, Live, Without

LEMMA AllIsLedger ==
  ASSUME NEW groups, IsLedger(groups), NEW entry \in SoundEntries,
         \A e \in groups : e.nr < entry.nr, NEW t
  PROVE  IsLedger(Without(Live(groups, t), entry.group) \cup {entry})
  <1> DEFINE old == Without(Live(groups, t), entry.group)
  <1>1. old \subseteq groups /\ \A e \in old : e.group # entry.group /\ e.nr < entry.nr
    BY DEF Without, Live
  <1>2. \A e \in old \cup {entry} : e \in SoundEntries /\ e.nr \in Nat
    BY <1>1 DEF IsLedger, SoundEntries, Entries
  <1> HIDE DEF old
  <1>3. InOrder(old \cup {entry})
    BY <1>1, <1>2 DEF InOrder, IsLedger
  <1>4. OneEach(old \cup {entry})
    BY <1>1 DEF OneEach, IsLedger
  <1>5. IsLedger(old \cup {entry})
    BY <1>2, <1>3, <1>4 DEF IsLedger
  <1> QED
    BY <1>5 DEF old

\* The ledger stays within its capacities.
LEMMA UpsertedIsBounded ==
  ASSUME NEW groups, IsLedger(groups), NEW entry \in SoundEntries,
         \A e \in groups : e.nr < entry.nr, NEW t,
         \A s \in CSessions : Cardinality({e \in groups : e.session = s}) <= SessionCapacity
  PROVE  /\ Cardinality(Upserted(groups, entry, t)) <= GroupCapacity
         /\ \A s \in CSessions :
              Cardinality({e \in Upserted(groups, entry, t) : e.session = s}) <= SessionCapacity
  <1> DEFINE all       == Without(Live(groups, t), entry.group) \cup {entry}
             ofSession == Trimmed(all, SessionCapacity, {entry.session})
             ofAll     == Trimmed(ofSession, GroupCapacity, CSessions)
             after     == Upserted(groups, entry, t)
  <1>1. IsLedger(all)
    BY AllIsLedger
  <1>2. ofSession \subseteq all /\ ofAll \subseteq ofSession /\ after \subseteq ofAll
    BY DEF Upserted, Trimmed, Live
  <1>3. all \subseteq groups \cup {entry}
    BY DEF Without, Live
  <1> HIDE DEF all
  <1>4. IsFiniteSet(all) /\ all \in SUBSET SoundEntries /\ InOrder(all)
    BY <1>1, LedgerIsFinite DEF IsLedger
  <1>5. Cardinality({e \in ofSession : e.session \in {entry.session}}) <= SessionCapacity
    BY <1>4, TrimmedIsBounded, ContextAssumption DEF ContextAssumption
  <1> HIDE DEF ofSession
  <1>6. IsFiniteSet(ofSession) /\ ofSession \in SUBSET SoundEntries /\ InOrder(ofSession)
    BY <1>2, <1>4, FS_Subset DEF InOrder
  <1>7. Cardinality({e \in ofAll : e.session \in CSessions}) <= GroupCapacity
    BY <1>6, TrimmedIsBounded, ContextAssumption DEF ContextAssumption
  <1> HIDE DEF ofAll, after
  <1>8. Cardinality(after) <= GroupCapacity
    <2>1. {e \in ofAll : e.session \in CSessions} = ofAll
      BY <1>2, <1>6 DEF SoundEntries, Entries
    <2>2. IsFiniteSet(ofAll)
      BY <1>2, <1>6, FS_Subset
    <2>3. IsFiniteSet(after) /\ Cardinality(after) <= Cardinality(ofAll)
      BY <2>2, <1>2, FS_Subset
    <2>4. Cardinality(ofAll) <= GroupCapacity
      BY <1>7, <2>1
    <2>5. Cardinality(ofAll) \in Nat /\ Cardinality(after) \in Nat /\ GroupCapacity \in Nat
      BY <2>2, <2>3, FS_CardinalityType, ContextAssumption DEF ContextAssumption
    <2> QED
      BY <2>3, <2>4, <2>5
  <1>9. ASSUME NEW s \in CSessions
        PROVE  Cardinality({e \in after : e.session = s}) <= SessionCapacity
    <2> DEFINE mine == {e \in after : e.session = s}
    <2>1. CASE s = entry.session
      <3> DEFINE room == {e \in ofSession : e.session \in {entry.session}}
      <3>1. mine \subseteq room
        BY <2>1, <1>2
      <3>2. IsFiniteSet(room)
        BY <1>6, FS_Subset
      <3> HIDE DEF mine
      <3>3. IsFiniteSet(mine) /\ Cardinality(mine) <= Cardinality(room)
        BY <3>1, <3>2, FS_Subset
      <3>4. Cardinality(mine) \in Nat /\ Cardinality(room) \in Nat
        BY <3>2, <3>3, FS_CardinalityType
      <3>5. Cardinality(mine) <= SessionCapacity
        BY <1>5, <3>3, <3>4, ContextAssumption DEF ContextAssumption
      <3> QED
        BY <3>5 DEF mine
    <2>2. CASE s # entry.session
      <3> DEFINE were == {e \in groups : e.session = s}
      <3>1. mine \subseteq were
        BY <2>2, <1>2, <1>3
      <3>2. IsFiniteSet(were)
        BY LedgerIsFinite, FS_Subset
      <3>3. Cardinality(were) <= SessionCapacity
        OBVIOUS
      <3> HIDE DEF mine, were
      <3>4. IsFiniteSet(mine) /\ Cardinality(mine) <= Cardinality(were)
        BY <3>1, <3>2, FS_Subset
      <3>5. Cardinality(mine) \in Nat /\ Cardinality(were) \in Nat
        BY <3>2, <3>4, FS_CardinalityType
      <3>6. Cardinality(mine) <= SessionCapacity
        BY <3>3, <3>4, <3>5, ContextAssumption DEF ContextAssumption
      <3> QED
        BY <3>6 DEF mine
    <2> QED
      BY <2>1, <2>2
  <1> QED
    BY <1>8, <1>9 DEF after

\* Entries of how many groups displace an entry of a history.
DisplacedIn(history, entry, capacity, sessions) ==
  Cardinality(GroupsOf({o \in Newer(history, entry) : o.session \in sessions})) >= capacity

\* What a trim takes out has been displaced.
LEMMA TrimmedKeeps ==
  ASSUME NEW groups, OneEach(groups), NEW history \in SUBSET SoundEntries, groups \subseteq history,
         NEW capacity \in Nat, NEW sessions, NEW e \in groups,
         e \notin Trimmed(groups, capacity, sessions)
  PROVE  e.session \in sessions /\ DisplacedIn(history, e, capacity, sessions)
  <1> DEFINE few  == {o \in Newer(groups, e) : o.session \in sessions}
             many == {o \in Newer(history, e) : o.session \in sessions}
  <1>1. e.session \in sessions /\ ~(Cardinality(few) < capacity)
    BY DEF Trimmed
  <1>2. few \subseteq many /\ many \subseteq SoundEntries /\ OneEach(few)
    BY DEF Newer, OneEach
  <1> HIDE DEF few, many
  <1>3. IsFiniteSet(GroupsOf(many))
    BY <1>2, GroupsOfAreFinite
  <1>4. IsFiniteSet(few) /\ Cardinality(few) <= Cardinality(GroupsOf(many))
    BY <1>2, <1>3, OneEachIsCounted
  <1>5. Cardinality(few) \in Nat /\ Cardinality(GroupsOf(many)) \in Nat
    BY <1>3, <1>4, FS_CardinalityType
  <1>6. Cardinality(GroupsOf(many)) >= capacity
    BY <1>1, <1>4, <1>5
  <1> QED
    BY <1>1, <1>6 DEF DisplacedIn, many

\* A live entry leaves the ledger only when it is replaced or displaced.
LEMMA UpsertedKeeps ==
  ASSUME NEW groups, IsLedger(groups), NEW entry \in SoundEntries,
         \A e \in groups : e.nr < entry.nr, NEW t,
         NEW history \in SUBSET SoundEntries, groups \cup {entry} \subseteq history,
         NEW e \in groups \cup {entry}, e = entry \/ e.group # entry.group, t - e.at < Ttl
  PROVE  \/ e \in Upserted(groups, entry, t)
         \/ DisplacedIn(history, e, GroupCapacity, CSessions)
         \/ DisplacedIn(history, e, SessionCapacity, {e.session})
  <1> DEFINE all       == Without(Live(groups, t), entry.group) \cup {entry}
             ofSession == Trimmed(all, SessionCapacity, {entry.session})
             ofAll     == Trimmed(ofSession, GroupCapacity, CSessions)
  <1>1. e \in all
    BY DEF Without, Live
  <1>2. all \subseteq history /\ OneEach(all)
    <2>1. all \subseteq history
      BY DEF Without, Live
    <2>2. IsLedger(all)
      BY AllIsLedger
    <2> QED
      BY <2>1, <2>2 DEF IsLedger
  <1>3. ofSession \subseteq all
    BY DEF Trimmed
  <1>4. OneEach(ofSession) /\ ofSession \subseteq history
    BY <1>2, <1>3 DEF OneEach
  <1>5. e \in ofAll => e \in Upserted(groups, entry, t)
    BY DEF Upserted, Live
  <1>6. GroupCapacity \in Nat /\ SessionCapacity \in Nat
    BY ContextAssumption DEF ContextAssumption
  <1> HIDE DEF all
  <1>7. CASE e \notin ofSession
    <2>1. e.session \in {entry.session} /\ DisplacedIn(history, e, SessionCapacity, {entry.session})
      BY <1>1, <1>2, <1>6, <1>7, TrimmedKeeps
    <2> QED
      BY <2>1
  <1>8. CASE e \in ofSession /\ e \notin ofAll
    <2> HIDE DEF ofSession
    <2> QED BY <1>4, <1>6, <1>8, TrimmedKeeps
  <1> QED
    BY <1>5, <1>7, <1>8

\* A history that grows displaces no less.
LEMMA StaysDisplaced ==
  ASSUME NEW more \in SUBSET SoundEntries, NEW history \in SUBSET more, NEW e,
         NEW capacity \in Nat, NEW sessions, DisplacedIn(history, e, capacity, sessions)
  PROVE  DisplacedIn(more, e, capacity, sessions)
  <1> DEFINE few  == {o \in Newer(history, e) : o.session \in sessions}
             many == {o \in Newer(more, e) : o.session \in sessions}
  <1>1. few \subseteq many /\ many \subseteq SoundEntries
    BY DEF Newer
  <1>2. Cardinality(GroupsOf(few)) >= capacity
    BY DEF DisplacedIn
  <1> HIDE DEF few, many
  <1>3. Cardinality(GroupsOf(few)) <= Cardinality(GroupsOf(many))
    BY <1>1, GroupsOfMore
  <1>4. Cardinality(GroupsOf(few)) \in Nat /\ Cardinality(GroupsOf(many)) \in Nat
    BY <1>1, GroupsOfAreFinite, FS_CardinalityType
  <1>5. Cardinality(GroupsOf(many)) >= capacity
    BY <1>2, <1>3, <1>4
  <1> QED
    BY <1>5 DEF DisplacedIn, many

-----------------------------------------------------------------------------
(* The invariant *)

ContextTypes ==
  /\ process \in 1..MaxRestarts + 1 /\ clock \in 1..MaxClock
  /\ seenCalls \in Seq(Events) /\ Len(seenCalls) <= SeenLimit
  /\ observing \in [Events -> 0..MaxClock]
  /\ sinkQueue \in Seq(SoundEntries)
  /\ written \in [Events -> [read: BOOLEAN, groups: SUBSET SoundEntries]]
  /\ stored \subseteq SoundEntries /\ writes \in Nat
  /\ request \in [Groups -> Payloads \cup {Absent}]

\* What waits does so once, and there is room for it.
QueueOK ==
  /\ \A i, j \in DOMAIN sinkQueue : sinkQueue[i].event = sinkQueue[j].event => i = j
  /\ \A e \in Events : observing[e] > 0 => ~InQueue(e)
  /\ IsFiniteSet(Pending) /\ Cardinality(Pending) <= PendingLimit

SeenOK == \A k \in DOMAIN seenCalls : \E e \in stored : e.event = seenCalls[k]

\* Of what was stored the ledger holds the last of each group, and all of it that is
\* neither too old nor displaced.
LedgerOK ==
  /\ InOrder(stored) /\ \A e \in stored : e.nr <= writes
  /\ ledger \subseteq stored
  /\ \A e \in ledger, o \in stored : o.group = e.group => o.nr <= e.nr
  /\ Cardinality(ledger) <= GroupCapacity
  /\ \A s \in CSessions : Cardinality({e \in ledger : e.session = s}) <= SessionCapacity
  /\ \A e \in stored :
       \/ \E o \in stored : o.group = e.group /\ o.nr > e.nr
       \/ clock - e.at >= Ttl
       \/ DisplacedIn(stored, e, GroupCapacity, CSessions)
       \/ DisplacedIn(stored, e, SessionCapacity, {e.session})
       \/ e \in ledger

\* The first in the queue, and no other, may have read the ledger, which is as it was then.
WrittenOK ==
  \A e \in Events : written[e].read =>
    /\ sinkQueue # <<>> /\ sinkQueue[1].event = e
    /\ \E t \in 1..clock : written[e].groups = Upserted(ledger, Last(sinkQueue[1]), t)

PlanOK ==
  /\ plan.stage \in {"none", "captured", "ledger", "session"}
  /\ plan.stage \in {"ledger", "session"} =>
       /\ plan.groups \subseteq stored /\ OneEach(plan.groups)
       /\ \A e \in plan.groups : e.session = plan.session
  /\ plan.stage = "session" => plan.role = RoleOf[plan.session]

ContextInv == ContextTypes /\ QueueOK /\ SeenOK /\ LedgerOK /\ WrittenOK /\ PlanOK


LEMMA ContextNumbers ==
  /\ GroupCapacity \in Nat \ {0} /\ SessionCapacity \in Nat \ {0} /\ RecentGroups \in Nat \ {0}
  /\ Ttl \in Nat \ {0} /\ PendingLimit \in Nat \ {0} /\ SeenLimit \in Nat \ {0}
  /\ MaxClock \in Nat \ {0} /\ MaxRestarts \in Nat
  BY ContextAssumption DEF ContextAssumption

\* An entry made of an event is sound, and stays so when it is put.
LEMMA EntryIsSound ==
  ASSUME ContextTypes, NEW event \in Events, NEW at \in Nat,
         NEW role \in {"user-session", "worker", "critic", "orchestrator", "unknown"}
  PROVE  Entry(event, role, at) \in SoundEntries /\ Entry(event, role, at).event = event
  <1>1. process \in Nat /\ event[1] \in Groups /\ event[2] \in Payloads
    BY ContextNumbers DEF ContextTypes, Events
  <1>2. SessionOf[event[1]] \in CSessions
    BY <1>1, ContextAssumption DEF ContextAssumption
  <1> QED
    BY <1>1, <1>2 DEF Entry, SoundEntries, Entries, Fingerprint

LEMMA LastIsSound ==
  ASSUME writes \in Nat, NEW entry \in SoundEntries
  PROVE  /\ Last(entry) \in SoundEntries /\ Last(entry).nr = writes + 1
         /\ Last(entry).event = entry.event /\ Last(entry).group = entry.group
  BY DEF Last, SoundEntries, Entries

LEMMA LeftByFirst ==
  ASSUME NEW S, NEW queue \in Seq(S), queue # <<>>
  PROVE  /\ LeftBy(queue, 1) \in Seq(S) /\ Len(LeftBy(queue, 1)) = Len(queue) - 1
         /\ \A j \in 1..Len(queue) - 1 : LeftBy(queue, 1)[j] = queue[j + 1]
  <1>1. Len(queue) - 1 \in Nat
    OBVIOUS
  <1>2. \A j \in 1..Len(queue) - 1 : LeftBy(queue, 1)[j] = queue[j + 1] /\ queue[j + 1] \in S
    BY DEF LeftBy
  <1>3. LeftBy(queue, 1) = [j \in 1..Len(queue) - 1 |-> queue[j + 1]]
    BY DEF LeftBy
  <1>4. LeftBy(queue, 1) \in Seq(S) /\ Len(LeftBy(queue, 1)) = Len(queue) - 1
    BY <1>1, <1>2, <1>3
  <1> QED
    BY <1>2, <1>4

\* Forgetting the oldest adds nothing.
LEMMA RememberIsBounded ==
  ASSUME ContextTypes, NEW event \in Events, NEW ok \in BOOLEAN
  PROVE  /\ Remember(event, ok) \in Seq(Events) /\ Len(Remember(event, ok)) <= SeenLimit
         /\ \A k \in DOMAIN Remember(event, ok) :
              \/ ok /\ Remember(event, ok)[k] = event
              \/ \E i \in DOMAIN seenCalls : Remember(event, ok)[k] = seenCalls[i]
  <1> DEFINE all == IF ok THEN Append(seenCalls, event) ELSE seenCalls
  <1>1. /\ seenCalls \in Seq(Events) /\ Len(seenCalls) <= SeenLimit /\ SeenLimit \in Nat \ {0}
        /\ Len(seenCalls) \in Nat
    BY ContextNumbers DEF ContextTypes
  <1>2. /\ all \in Seq(Events) /\ Len(all) <= SeenLimit + 1
        /\ \A k \in 1..Len(all) : \/ ok /\ all[k] = event
                                  \/ \E i \in DOMAIN seenCalls : all[k] = seenCalls[i]
    <2>1. CASE ok
      BY <2>1, <1>1
    <2>2. CASE ~ok
      BY <2>2, <1>1
    <2> QED
      BY <2>1, <2>2
  <1> HIDE DEF all
  <1>3. CASE Len(all) > SeenLimit
    <2>1. Remember(event, ok) = Tail(all)
      BY <1>3 DEF Remember, all
    <2>2. /\ Tail(all) \in Seq(Events) /\ Len(Tail(all)) = Len(all) - 1
          /\ \A k \in 1..Len(all) - 1 : Tail(all)[k] = all[k + 1]
      BY <1>1, <1>2, <1>3
    <2> QED
      BY <1>1, <1>2, <2>1, <2>2
  <1>4. CASE ~(Len(all) > SeenLimit)
    <2>1. Remember(event, ok) = all
      BY <1>4 DEF Remember, all
    <2> QED
      BY <1>1, <1>2, <1>4, <2>1
  <1> QED
    BY <1>3, <1>4

-----------------------------------------------------------------------------
(* What a step leaves as it is, and what a write changes *)

LEMMA QueueKept ==
  ASSUME QueueOK, UNCHANGED <<sinkQueue, observing>>
  PROVE  QueueOK'
  <1>1. Pending' = Pending /\ \A e \in Events : InQueue(e)' <=> InQueue(e)
    BY DEF Pending, InQueue
  <1> QED
    BY <1>1 DEF QueueOK

LEMMA SeenKept ==
  ASSUME SeenOK, UNCHANGED seenCalls, stored \subseteq stored'
  PROVE  SeenOK'
  BY DEF SeenOK

LEMMA LedgerKept ==
  ASSUME ContextTypes, LedgerOK, UNCHANGED ledgerVars, clock' \in Nat, clock <= clock'
  PROVE  LedgerOK'
  <1>1. ledger' = ledger /\ stored' = stored /\ writes' = writes
    BY DEF ledgerVars
  <1>2. \A e \in stored : clock - e.at >= Ttl => clock' - e.at >= Ttl
    BY ContextNumbers DEF ContextTypes, SoundEntries, Entries
  <1> QED
    BY <1>1, <1>2 DEF LedgerOK

LEMMA WrittenKept ==
  ASSUME ContextTypes, WrittenOK, UNCHANGED <<written, ledgerVars>>,
         sinkQueue # <<>> => sinkQueue' # <<>> /\ sinkQueue'[1] = sinkQueue[1],
         clock' \in Nat, clock <= clock'
  PROVE  WrittenOK'
  <1>1. ledger' = ledger /\ writes' = writes /\ written' = written
    BY DEF ledgerVars
  <1>2. 1..clock \subseteq 1..clock'
    BY ContextNumbers DEF ContextTypes
  <1>3. ASSUME NEW e \in Events, written'[e].read
        PROVE  /\ sinkQueue' # <<>> /\ sinkQueue'[1].event = e
               /\ \E t \in 1..clock' :
                    written'[e].groups = Upserted(ledger', Last(sinkQueue[1])', t)
    <2>1. sinkQueue # <<>> /\ sinkQueue[1].event = e
      BY <1>1, <1>3 DEF WrittenOK
    <2>2. PICK t \in 1..clock : written[e].groups = Upserted(ledger, Last(sinkQueue[1]), t)
      BY <1>1, <1>3 DEF WrittenOK
    <2>3. Last(sinkQueue[1])' = Last(sinkQueue[1])
      BY <1>1, <2>1 DEF Last
    <2> QED
      BY <1>1, <1>2, <2>1, <2>2, <2>3
  <1> QED
    BY <1>3 DEF WrittenOK

LEMMA PlanKept ==
  ASSUME PlanOK, UNCHANGED plan, stored \subseteq stored'
  PROVE  PlanOK'
  BY DEF PlanOK

\* A plan that is over promises nothing.
LEMMA PlanIsOver ==
  ASSUME PlanOver
  PROVE  PlanOK' /\ request' \in [Groups -> Payloads \cup {Absent}]
  BY DEF PlanOver, PlanOK, NoPlan, NoRequest

LEMMA LedgerIsLedger ==
  ASSUME ContextTypes, LedgerOK
  PROVE  IsLedger(ledger)
  <1>1. \A e \in ledger : e \in stored /\ e.nr \in Nat
    BY DEF LedgerOK, ContextTypes, SoundEntries, Entries
  <1>2. \A e, f \in ledger : e.group = f.group => e.nr = f.nr
    BY <1>1 DEF LedgerOK
  <1>3. OneEach(ledger) /\ InOrder(ledger)
    BY <1>1, <1>2 DEF LedgerOK, OneEach, InOrder
  <1> QED
    BY <1>1, <1>3 DEF IsLedger, ContextTypes

\* The write at the head of the queue puts what it made of the ledger as it still is.
LEMMA PutKeepsLedger ==
  ASSUME ContextTypes, LedgerOK, WrittenOK, sinkQueue # <<>>, Puts(1), UNCHANGED clock,
         written[sinkQueue[1].event].read
  PROVE  /\ LedgerOK' /\ stored' \subseteq SoundEntries /\ writes' \in Nat
         /\ stored \subseteq stored' /\ Last(sinkQueue[1]) \in stored'
  <1> DEFINE n == Last(sinkQueue[1])
  <1>1. sinkQueue[1] \in SoundEntries /\ sinkQueue[1].event \in Events
    BY DEF ContextTypes, SoundEntries, Entries
  <1>2. n \in SoundEntries /\ n.nr = writes + 1 /\ writes \in Nat
    BY <1>1, LastIsSound DEF ContextTypes
  <1>3. PICK t \in 1..clock : written[sinkQueue[1].event].groups = Upserted(ledger, n, t)
    BY <1>1 DEF WrittenOK
  <1> HIDE DEF n
  <1>4. /\ ledger' = Upserted(ledger, n, t)
        /\ stored' = stored \cup {n} /\ writes' = writes + 1
    BY <1>3 DEF Puts, n
  <1>5. IsLedger(ledger) /\ ledger \subseteq stored
    BY LedgerIsLedger DEF LedgerOK
  <1>6. /\ \A e \in stored : e \in SoundEntries /\ e.nr \in Nat /\ e.nr < n.nr
        /\ stored' \subseteq SoundEntries
    <2>1. \A e \in stored : e \in SoundEntries /\ e.nr <= writes
      BY DEF LedgerOK, ContextTypes
    <2>2. \A e \in SoundEntries : e.nr \in Nat
      BY DEF SoundEntries, Entries
    <2> QED
      BY <2>1, <2>2, <1>2, <1>4
  <1>7. \A e \in ledger : e.nr < n.nr
    BY <1>5, <1>6
  <1>8. InOrder(stored') /\ \A e \in stored' : e.nr <= writes'
    <2>1. \A e, f \in stored : e.nr = f.nr => e = f
      BY DEF LedgerOK, InOrder
    <2>2. \A e, f \in stored \cup {n} : e.nr = f.nr => e = f
      BY <2>1, <1>2, <1>6
    <2>3. \A e \in stored : e.nr <= writes
      BY DEF LedgerOK
    <2> QED
      BY <2>2, <2>3, <1>2, <1>4, <1>6 DEF InOrder
  <1>9. ledger' \subseteq stored'
    BY <1>4, <1>5, UpsertedIsSound
  <1>10. \A e \in ledger', o \in stored' : o.group = e.group => o.nr <= e.nr
    <2>1. ASSUME NEW e \in ledger', NEW o \in stored', o.group = e.group
          PROVE  o.nr <= e.nr
      <3>1. CASE e = n
        BY <3>1, <1>2, <1>4, <1>6
      <3>2. CASE e # n
        <4>1. e \in ledger /\ e.group # n.group
          BY <3>2, <1>4, UpsertedIsSound
        <4>2. o \in stored
          BY <4>1, <2>1, <1>4
        <4> QED
          BY <4>1, <4>2, <2>1 DEF LedgerOK
      <3> QED
        BY <3>1, <3>2
    <2> QED
      BY <2>1
  <1>11. /\ Cardinality(ledger') <= GroupCapacity
         /\ \A s \in CSessions : Cardinality({e \in ledger' : e.session = s}) <= SessionCapacity
    <2>1. \A s \in CSessions : Cardinality({e \in ledger : e.session = s}) <= SessionCapacity
      BY DEF LedgerOK
    <2> QED
      BY <2>1, <1>2, <1>4, <1>5, <1>7, UpsertedIsBounded
  <1>12. ASSUME NEW e \in stored'
         PROVE  \/ \E o \in stored' : o.group = e.group /\ o.nr > e.nr
                \/ clock' - e.at >= Ttl
                \/ DisplacedIn(stored', e, GroupCapacity, CSessions)
                \/ DisplacedIn(stored', e, SessionCapacity, {e.session})
                \/ e \in ledger'
    <2>1. CASE e \in stored /\ DisplacedIn(stored, e, GroupCapacity, CSessions)
      BY <2>1, <1>4, <1>6, ContextNumbers, StaysDisplaced
    <2>2. CASE e \in stored /\ DisplacedIn(stored, e, SessionCapacity, {e.session})
      BY <2>2, <1>4, <1>6, ContextNumbers, StaysDisplaced
    <2>3. CASE e \in stored /\ \E o \in stored : o.group = e.group /\ o.nr > e.nr
      BY <2>3, <1>4
    <2>4. CASE clock - e.at >= Ttl
      BY <2>4
    <2>5. CASE e \in stored /\ e # n /\ e.group = n.group
      BY <2>5, <1>2, <1>4, <1>6
    <2>6. CASE e \in ledger \cup {n} /\ (e = n \/ e.group # n.group) /\ ~(clock - e.at >= Ttl)
      <3>1. e.at \in Nat
        BY <1>6 DEF SoundEntries, Entries
      <3>2. t - e.at < Ttl
        BY <2>6, <3>1, ContextNumbers DEF ContextTypes
      <3>3. ledger \cup {n} \subseteq stored'
        BY <1>4, <1>5
      <3> QED
        BY <2>6, <3>2, <3>3, <1>2, <1>4, <1>5, <1>6, <1>7, UpsertedKeeps
    <2> QED
      BY <2>1, <2>2, <2>3, <2>4, <2>5, <2>6, <1>4 DEF LedgerOK
  <1>13. LedgerOK'
    BY <1>8, <1>9, <1>10, <1>11, <1>12 DEF LedgerOK
  <1> QED
    BY <1>2, <1>4, <1>6, <1>13 DEF n

-----------------------------------------------------------------------------
(* One lemma for each action *)

LEMMA ContextStarts == ContextInit => ContextInv
  <1> SUFFICES ASSUME ContextInit PROVE ContextInv
    OBVIOUS
  <1> USE DEF ContextInit
  <1>1. IsFiniteSet({}) /\ Cardinality({}) = 0
    BY FS_EmptySet
  <1>2. ContextTypes
    <2>1. /\ seenCalls \in Seq(Events) /\ Len(seenCalls) <= SeenLimit
          /\ sinkQueue \in Seq(SoundEntries)
      BY ContextNumbers
    <2>2. process \in 1..MaxRestarts + 1
      BY ContextNumbers
    <2> QED
      BY <2>1, <2>2, ContextNumbers DEF ContextTypes, NotRead, NoRequest
  <1>3. QueueOK
    <2>1. Pending = {}
      BY DEF Pending, InQueue
    <2> QED
      BY <1>1, <2>1, ContextNumbers DEF QueueOK
  <1>4. LedgerOK
    <2>1. \A s \in CSessions : {e \in ledger : e.session = s} = {}
      OBVIOUS
    <2> QED
      BY <1>1, <2>1, ContextNumbers DEF LedgerOK, InOrder
  <1> QED
    BY <1>2, <1>3, <1>4 DEF ContextInv, SeenOK, WrittenOK, NotRead, PlanOK, NoPlan

LEMMA DeliverKeeps ==
  ASSUME ContextInv, NEW event \in Events, Deliver(event)
  PROVE  ContextInv'
  <1> USE DEF ContextInv
  <1>1. /\ UNCHANGED <<process, clock, seenCalls, sinkQueue, written, stored, writes, request, plan>>
        /\ UNCHANGED ledgerVars
    BY DEF Deliver, ledgerVars, planVars
  <1>2. clock \in Nat /\ clock \in 0..MaxClock /\ clock > 0
    BY ContextNumbers DEF ContextTypes
  <1>3. CASE UNCHANGED observing
    <2>1. QueueOK'
      BY <1>1, <1>3, QueueKept
    <2>2. ContextTypes'
      BY <1>1, <1>3 DEF ContextTypes
    <2> QED
      BY <2>1, <2>2, <1>1, <1>2, SeenKept, LedgerKept, WrittenKept, PlanKept
  <1>4. CASE /\ event \notin Pending /\ ~(Cardinality(Pending) >= PendingLimit)
             /\ observing' = [observing EXCEPT ![event] = clock]
    <2>1. ContextTypes'
      BY <1>1, <1>2, <1>4 DEF ContextTypes
    <2>2. \A e \in Events : /\ InQueue(e)' <=> InQueue(e)
                            /\ observing'[e] = IF e = event THEN clock ELSE observing[e]
      BY <1>1, <1>4 DEF InQueue, ContextTypes
    <2>3. Pending' = Pending \cup {event}
      BY <2>2, <1>2 DEF Pending
    <2>4. IsFiniteSet(Pending') /\ Cardinality(Pending') <= PendingLimit
      <3>1. IsFiniteSet(Pending) /\ Cardinality(Pending) \in Nat
        BY FS_CardinalityType DEF QueueOK
      <3> QED
        <4>1. /\ IsFiniteSet(Pending \cup {event})
              /\ Cardinality(Pending \cup {event}) = Cardinality(Pending) + 1
          BY <3>1, <1>4, FS_AddElement
        <4>2. Cardinality(Pending) + 1 <= PendingLimit
          BY <3>1, <1>4, ContextNumbers
        <4> QED
          BY <4>1, <4>2, <2>3
    <2>5. \A e \in Events : observing'[e] > 0 => ~InQueue(e)'
      BY <2>2, <1>4 DEF QueueOK, Pending
    <2>6. QueueOK'
      BY <2>4, <2>5, <1>1 DEF QueueOK
    <2> QED
      BY <2>1, <2>6, <1>1, <1>2, SeenKept, LedgerKept, WrittenKept, PlanKept
  <1> QED
    BY <1>3, <1>4 DEF Deliver

LEMMA ChainedKeeps ==
  ASSUME ContextInv, NEW event \in Events,
         NEW role \in {"user-session", "worker", "critic", "orchestrator", "unknown"},
         Chained(event, role)
  PROVE  ContextInv'
  <1> USE DEF ContextInv
  <1> DEFINE entry == Entry(event, role, observing[event])
  <1>1. /\ UNCHANGED <<process, clock, seenCalls, written, stored, writes, request, plan>>
        /\ UNCHANGED ledgerVars
    BY DEF Chained, ledgerVars, planVars
  <1>2. observing[event] > 0 /\ observing[event] \in Nat /\ clock \in Nat
    BY ContextNumbers DEF Chained, ContextTypes
  <1>3. entry \in SoundEntries /\ entry.event = event
    BY <1>2, EntryIsSound
  <1> HIDE DEF entry
  <1>4. sinkQueue' = Append(sinkQueue, entry) /\ observing' = [observing EXCEPT ![event] = 0]
    BY DEF Chained, entry
  <1>5. sinkQueue \in Seq(SoundEntries)
    BY DEF ContextTypes
  <1>6. ContextTypes'
    <2>1. sinkQueue' \in Seq(SoundEntries)
      BY <1>3, <1>4, <1>5
    <2>2. observing' \in [Events -> 0..MaxClock]
      BY <1>4, ContextNumbers DEF ContextTypes
    <2> QED
      BY <2>1, <2>2, <1>1 DEF ContextTypes
  <1>7. /\ DOMAIN sinkQueue' = 1..Len(sinkQueue) + 1 /\ DOMAIN sinkQueue = 1..Len(sinkQueue)
        /\ Len(sinkQueue) \in Nat /\ sinkQueue'[Len(sinkQueue) + 1] = entry
        /\ \A i \in DOMAIN sinkQueue : sinkQueue'[i] = sinkQueue[i]
    BY <1>3, <1>4, <1>5
  <1>8. \A e \in Events : InQueue(e)' <=> InQueue(e) \/ e = event
    BY <1>3, <1>7 DEF InQueue
  <1>9. \A e \in Events : observing'[e] = IF e = event THEN 0 ELSE observing[e]
    BY <1>4 DEF ContextTypes
  <1>10. Pending' = Pending
    BY <1>2, <1>8, <1>9 DEF Pending
  <1>11. QueueOK'
    <2>1. ~InQueue(event)
      BY <1>2 DEF QueueOK
    <2>2. \A i, j \in DOMAIN sinkQueue' : sinkQueue'[i].event = sinkQueue'[j].event => i = j
      BY <2>1, <1>3, <1>7 DEF QueueOK, InQueue
    <2>3. \A e \in Events : observing'[e] > 0 => ~InQueue(e)'
      BY <1>8, <1>9 DEF QueueOK
    <2> QED
      BY <2>2, <2>3, <1>10 DEF QueueOK
  <1>12. sinkQueue # <<>> => sinkQueue' # <<>> /\ sinkQueue'[1] = sinkQueue[1]
    BY <1>5, <1>7
  <1> QED
    BY <1>1, <1>2, <1>6, <1>11, <1>12, SeenKept, LedgerKept, WrittenKept, PlanKept

LEMMA SinkReadsKeeps ==
  ASSUME ContextInv, NEW i \in DOMAIN sinkQueue, SinkReads(i)
  PROVE  ContextInv'
  <1> USE DEF ContextInv
  <1> DEFINE head == sinkQueue[1]
             groups == Upserted(ledger, Last(head), clock)
  <1>1. /\ UNCHANGED <<process, clock, seenCalls, observing, sinkQueue, stored, writes, request, plan>>
        /\ UNCHANGED ledgerVars
    BY DEF SinkReads, ledgerVars, planVars
  <1>2. sinkQueue # <<>> /\ head \in SoundEntries /\ head.event \in Events
    <2>1. i = 1 /\ sinkQueue \in Seq(SoundEntries)
      BY DEF SinkReads, Turn, ContextTypes
    <2> QED
      BY <2>1 DEF SoundEntries, Entries
  <1>3. written' = [written EXCEPT ![head.event] = [read |-> TRUE, groups |-> groups]]
    BY DEF SinkReads, Turn
  <1>4. clock \in Nat /\ clock \in 1..clock
    BY ContextNumbers DEF ContextTypes
  <1>5. groups \subseteq SoundEntries
    <2>1. Last(head) \in SoundEntries
      BY <1>2, LastIsSound DEF ContextTypes
    <2>2. groups \subseteq ledger \cup {Last(head)}
      BY UpsertedIsSound
    <2> HIDE DEF groups
    <2> QED
      BY <2>1, <2>2 DEF ContextTypes, LedgerOK
  <1>6. ContextTypes'
    <2> HIDE DEF groups, head
    <2> QED
      BY <1>1, <1>2, <1>3, <1>5 DEF ContextTypes
  <1>7. WrittenOK'
    <2>1. Last(head)' = Last(head) /\ ledger' = ledger
      BY <1>1 DEF Last, ledgerVars
    <2>2. ASSUME NEW e \in Events, written'[e].read
          PROVE  /\ sinkQueue' # <<>> /\ sinkQueue'[1].event = e
                 /\ \E t \in 1..clock' : written'[e].groups = Upserted(ledger', Last(head)', t)
      <3>1. CASE e = head.event
        <4>1. written'[e].groups = groups
          <5> HIDE DEF groups, head
          <5> QED BY <1>2, <1>3, <3>1 DEF ContextTypes
        <4> QED
          BY <4>1, <2>1, <3>1, <1>1, <1>2, <1>4
      <3>2. CASE e # head.event
        <4>1. written[e].read
          <5> HIDE DEF groups, head
          <5> QED BY <2>2, <3>2, <1>2, <1>3 DEF ContextTypes
        <4> QED
          BY <4>1, <3>2 DEF WrittenOK
      <3> QED
        BY <3>1, <3>2
    <2> QED
      BY <2>2 DEF WrittenOK
  <1> QED
    BY <1>1, <1>4, <1>6, <1>7, QueueKept, SeenKept, LedgerKept, PlanKept

\* The queue goes on, whatever became of the write at its head.
LEMMA LeavesKeeps ==
  ASSUME ContextInv, 1 \in DOMAIN sinkQueue, Leaves(1),
         NEW ok \in BOOLEAN, seenCalls' = Remember(sinkQueue[1].event, ok),
         ok => Last(sinkQueue[1]) \in stored',
         LedgerOK', stored' \subseteq SoundEntries, writes' \in Nat, stored \subseteq stored'
  PROVE  ContextInv'
  <1> USE DEF ContextInv
  <1> DEFINE head == sinkQueue[1]
  <1>1. /\ UNCHANGED <<process, clock, observing, request, plan>>
        /\ sinkQueue' = LeftBy(sinkQueue, 1)
        /\ written' = [written EXCEPT ![head.event] = NotRead]
    BY DEF Leaves, planVars
  <1>2. sinkQueue \in Seq(SoundEntries) /\ sinkQueue # <<>> /\ Len(sinkQueue) \in Nat \ {0}
    BY DEF ContextTypes
  <1>3. head \in SoundEntries /\ head.event \in Events
    BY <1>2 DEF SoundEntries, Entries
  <1>4. /\ sinkQueue' \in Seq(SoundEntries) /\ Len(sinkQueue') = Len(sinkQueue) - 1
        /\ \A j \in 1..Len(sinkQueue) - 1 : sinkQueue'[j] = sinkQueue[j + 1]
    BY <1>1, <1>2, LeftByFirst
  <1>5. \A j \in DOMAIN sinkQueue' : j + 1 \in DOMAIN sinkQueue /\ sinkQueue'[j] = sinkQueue[j + 1]
    BY <1>2, <1>4
  <1> HIDE DEF head
  <1>6. /\ seenCalls' \in Seq(Events) /\ Len(seenCalls') <= SeenLimit
        /\ \A k \in DOMAIN seenCalls' : \/ ok /\ seenCalls'[k] = head.event
                                        \/ \E i \in DOMAIN seenCalls : seenCalls'[k] = seenCalls[i]
    BY <1>3, RememberIsBounded DEF head
  <1>7. ContextTypes'
    <2>1. written' \in [Events -> [read: BOOLEAN, groups: SUBSET SoundEntries]]
      BY <1>1, <1>3 DEF ContextTypes, NotRead
    <2> QED
      BY <2>1, <1>1, <1>4, <1>6 DEF ContextTypes
  <1>8. SeenOK'
    <2>1. ok => \E e \in stored' : e.event = head.event
      BY <1>3, LastIsSound DEF head, ContextTypes
    <2>2. \A i \in DOMAIN seenCalls : \E e \in stored' : e.event = seenCalls[i]
      BY DEF SeenOK
    <2> QED
      BY <2>1, <2>2, <1>6 DEF SeenOK
  <1>9. QueueOK'
    <2>1. \A e \in Events : InQueue(e)' => InQueue(e)
      BY <1>5 DEF InQueue
    <2>2. Pending' \in SUBSET Pending
      BY <2>1, <1>1 DEF Pending
    <2>3. IsFiniteSet(Pending') /\ Cardinality(Pending') <= PendingLimit
      <3>1. IsFiniteSet(Pending) /\ Cardinality(Pending) <= PendingLimit
        BY DEF QueueOK
      <3>2. IsFiniteSet(Pending') /\ Cardinality(Pending') <= Cardinality(Pending)
        BY <3>1, <2>2, FS_Subset
      <3>3. Cardinality(Pending) \in Nat /\ Cardinality(Pending') \in Nat
        BY <3>1, <3>2, FS_CardinalityType
      <3> QED
        BY <3>1, <3>2, <3>3, ContextNumbers
    <2>4. \A i, j \in DOMAIN sinkQueue' : sinkQueue'[i].event = sinkQueue'[j].event => i = j
      <3> SUFFICES ASSUME NEW i \in DOMAIN sinkQueue', NEW j \in DOMAIN sinkQueue',
                          sinkQueue'[i].event = sinkQueue'[j].event
                   PROVE  i = j
        OBVIOUS
      <3>1. i + 1 = j + 1
        BY <1>5 DEF QueueOK
      <3>2. i \in Nat /\ j \in Nat
        BY <1>4
      <3> QED
        BY <3>1, <3>2
    <2>5. \A e \in Events : observing'[e] > 0 => ~InQueue(e)'
      BY <2>1, <1>1 DEF QueueOK
    <2> QED
      BY <2>3, <2>4, <2>5 DEF QueueOK
  <1>10. WrittenOK'
    <2>1. \A e \in Events : ~written'[e].read
      BY <1>1, <1>3 DEF WrittenOK, NotRead, ContextTypes, head
    <2> QED
      BY <2>1 DEF WrittenOK
  <1>11. PlanOK'
    BY <1>1, PlanKept
  <1> QED
    BY <1>7, <1>8, <1>9, <1>10, <1>11

LEMMA SinkWritesKeeps ==
  ASSUME ContextInv, NEW i \in DOMAIN sinkQueue, SinkWrites(i)
  PROVE  ContextInv'
  <1>1. /\ i = 1 /\ sinkQueue # <<>> /\ written[sinkQueue[1].event].read /\ Puts(1) /\ Leaves(1)
        /\ UNCHANGED clock /\ seenCalls' = Remember(sinkQueue[1].event, TRUE)
    BY DEF SinkWrites, Turn, Leaves
  <1>2. /\ LedgerOK' /\ stored' \subseteq SoundEntries /\ writes' \in Nat
        /\ stored \subseteq stored' /\ Last(sinkQueue[1]) \in stored'
    BY <1>1, PutKeepsLedger DEF ContextInv
  <1> QED
    BY <1>1, <1>2, LeavesKeeps

LEMMA SinkFailsKeeps ==
  ASSUME ContextInv, NEW i \in DOMAIN sinkQueue, SinkFails(i)
  PROVE  ContextInv'
  <1>1. /\ i = 1 /\ sinkQueue # <<>> /\ Leaves(1)
        /\ UNCHANGED clock /\ seenCalls' = Remember(sinkQueue[1].event, FALSE)
    BY DEF SinkFails, Turn, Leaves
  <1>2. /\ LedgerOK' /\ stored' \subseteq SoundEntries /\ writes' \in Nat
        /\ stored \subseteq stored'
    <2>1. CASE UNCHANGED ledgerVars
      <3>1. clock' \in Nat /\ clock <= clock'
        BY <1>1, ContextNumbers DEF ContextInv, ContextTypes
      <3>2. LedgerOK'
        BY <2>1, <3>1, LedgerKept DEF ContextInv
      <3> QED
        BY <2>1, <3>2 DEF ContextInv, ContextTypes, ledgerVars
    <2>2. CASE written[sinkQueue[1].event].read /\ Puts(1)
      BY <2>2, <1>1, PutKeepsLedger DEF ContextInv
    <2> QED
      BY <2>1, <2>2, <1>1 DEF SinkFails
  <1> QED
    BY <1>1, <1>2, LeavesKeeps

\* Steps of a plan leave the observers and the ledger as they are.
LEMMA PlanStepKeeps ==
  ASSUME ContextInv, UNCHANGED <<process, clock, seenCalls, observing, sinkQueue, written, ledgerVars>>,
         PlanOK', request' \in [Groups -> Payloads \cup {Absent}]
  PROVE  ContextInv'
  <1> USE DEF ContextInv
  <1>1. UNCHANGED <<stored, writes>>
    BY DEF ledgerVars
  <1>2. ContextTypes'
    BY <1>1 DEF ContextTypes
  <1>3. clock' \in Nat /\ clock <= clock'
    BY ContextNumbers DEF ContextTypes
  <1> QED
    BY <1>1, <1>2, <1>3, QueueKept, SeenKept, LedgerKept, WrittenKept

LEMMA PlansKeep ==
  ASSUME ContextInv,
         \/ \E g \in Groups, to \in Payloads \cup {Absent} : RequestChanges(g, to)
         \/ \E s \in CSessions : PlanCaptures(s)
         \/ PlanReadsLedger \/ PlanReadsSession \/ PlanFails \/ PlanDecides
  PROVE  ContextInv'
  <1>1. request \in [Groups -> Payloads \cup {Absent}]
    BY DEF ContextInv, ContextTypes
  <1>2. ASSUME NEW g \in Groups, NEW to \in Payloads \cup {Absent}, RequestChanges(g, to)
        PROVE  ContextInv'
    <2>1. PlanOK'
      BY <1>2, PlanKept DEF RequestChanges, ContextInv, ledgerVars
    <2>2. request' \in [Groups -> Payloads \cup {Absent}]
      BY <1>1, <1>2 DEF RequestChanges
    <2> QED
      BY <1>2, <2>1, <2>2, PlanStepKeeps DEF RequestChanges
  <1>3. ASSUME NEW s \in CSessions, PlanCaptures(s)
        PROVE  ContextInv'
    <2>1. PlanOK'
      BY <1>3 DEF PlanCaptures, PlanOK, NoPlan
    <2> QED
      BY <1>3, <2>1, PlanStepKeeps DEF PlanCaptures, PlanOnly
  <1>4. CASE PlanReadsLedger
    <2>1. CASE StillCurrent
      <3>1. plan' = [plan EXCEPT !.stage = "ledger",
                       !.groups = {e \in Live(ledger, clock) : e.session = plan.session}]
        BY <1>4, <2>1 DEF PlanReadsLedger
      <3>2. IsLedger(ledger) /\ ledger \subseteq stored /\ UNCHANGED stored
        BY <1>4, LedgerIsLedger DEF ContextInv, LedgerOK, PlanReadsLedger, PlanOnly, ledgerVars
      <3>3. PlanOK'
        BY <3>1, <3>2 DEF PlanOK, ContextInv, Live, IsLedger, OneEach
      <3> QED
        BY <1>1, <1>4, <2>1, <3>3, PlanStepKeeps DEF PlanReadsLedger, PlanOnly
    <2>2. CASE ~StillCurrent
      BY <1>4, <2>2, PlanIsOver, PlanStepKeeps DEF PlanReadsLedger, PlanOnly
    <2> QED
      BY <2>1, <2>2
  <1>5. CASE PlanReadsSession
    <2>1. PlanOK'
      BY <1>5 DEF PlanReadsSession, PlanOK, ContextInv, PlanOnly, ledgerVars
    <2> QED
      BY <1>1, <1>5, <2>1, PlanStepKeeps DEF PlanReadsSession, PlanOnly
  <1>6. CASE PlanFails
    BY <1>6, PlanIsOver, PlanStepKeeps DEF PlanFails, PlanOnly
  <1>7. CASE PlanDecides
    BY <1>7, PlanIsOver, PlanStepKeeps DEF PlanDecides, PlanOnly
  <1> QED
    BY <1>2, <1>3, <1>4, <1>5, <1>6, <1>7

LEMMA ClockKeeps ==
  ASSUME ContextInv, ClockAdvances
  PROVE  ContextInv'
  <1> USE DEF ContextInv
  <1>1. /\ UNCHANGED <<process, seenCalls, observing, sinkQueue, written, stored, writes, request, plan>>
        /\ UNCHANGED ledgerVars
    BY DEF ClockAdvances, ledgerVars, planVars
  <1>2. clock' \in 1..MaxClock /\ clock' \in Nat /\ clock <= clock'
    BY ContextNumbers DEF ClockAdvances, ContextTypes
  <1>3. ContextTypes'
    BY <1>1, <1>2 DEF ContextTypes
  <1> QED
    BY <1>1, <1>2, <1>3, QueueKept, SeenKept, LedgerKept, WrittenKept, PlanKept

LEMMA RestartKeeps ==
  ASSUME ContextInv, Restart
  PROVE  ContextInv'
  <1> USE DEF ContextInv
  <1>1. /\ UNCHANGED <<clock, stored, writes, ledgerVars>> /\ PlanOver
        /\ process' = process + 1 /\ process <= MaxRestarts
        /\ seenCalls' = <<>> /\ sinkQueue' = <<>>
        /\ observing' = [e \in Events |-> 0] /\ written' = [e \in Events |-> NotRead]
    BY DEF Restart, ledgerVars
  <1>2. PlanOK' /\ request' \in [Groups -> Payloads \cup {Absent}]
    BY <1>1, PlanIsOver
  <1>3. ContextTypes'
    <2>1. process' \in 1..MaxRestarts + 1
      BY <1>1, ContextNumbers DEF ContextTypes
    <2>2. seenCalls' \in Seq(Events) /\ Len(seenCalls') <= SeenLimit /\ sinkQueue' \in Seq(SoundEntries)
      BY <1>1, ContextNumbers
    <2>3. /\ observing' \in [Events -> 0..MaxClock]
          /\ written' \in [Events -> [read: BOOLEAN, groups: SUBSET SoundEntries]]
      BY <1>1, ContextNumbers DEF NotRead
    <2> QED
      BY <2>1, <2>2, <2>3, <1>1, <1>2 DEF ContextTypes
  <1>4. QueueOK'
    <2>1. Pending' = {}
      BY <1>1 DEF Pending, InQueue
    <2>2. IsFiniteSet({}) /\ Cardinality({}) = 0
      BY FS_EmptySet
    <2> QED
      BY <2>1, <2>2, <1>1, ContextNumbers DEF QueueOK
  <1>5. LedgerOK'
    BY <1>1, ContextNumbers, LedgerKept DEF ContextTypes
  <1>6. SeenOK' /\ WrittenOK'
    BY <1>1 DEF SeenOK, WrittenOK, NotRead
  <1> QED
    BY <1>2, <1>3, <1>4, <1>5, <1>6

LEMMA ContextStutters ==
  ASSUME ContextInv, UNCHANGED contextVars
  PROVE  ContextInv'
  <1>1. PlanOK'
    BY PlanKept DEF contextVars, ledgerVars, planVars, ContextInv
  <1>2. request' \in [Groups -> Payloads \cup {Absent}]
    BY DEF contextVars, planVars, ContextInv, ContextTypes
  <1> QED
    BY <1>1, <1>2, PlanStepKeeps DEF contextVars

LEMMA ContextStepKeeps ==
  ASSUME ContextInv, [ContextNext]_contextVars
  PROVE  ContextInv'
  <1>1. ASSUME NEW e \in Events, Deliver(e) \/ SessionRead(e) \/ SessionUnread(e)
        PROVE  ContextInv'
    <2>1. RoleOf[SessionOf[e[1]]] \in {"user-session", "worker", "critic", "orchestrator", "unknown"}
      <3>1. e[1] \in Groups
        BY DEF Events
      <3>2. SessionOf[e[1]] \in CSessions
        BY <3>1, ContextAssumption DEF ContextAssumption
      <3> QED
        BY <3>2, ContextAssumption DEF ContextAssumption
    <2> QED
      BY <1>1, <2>1, DeliverKeeps, ChainedKeeps DEF SessionRead, SessionUnread
  <1>2. ASSUME NEW i \in DOMAIN sinkQueue, SinkReads(i) \/ SinkWrites(i) \/ SinkFails(i)
        PROVE  ContextInv'
    BY <1>2, SinkReadsKeeps, SinkWritesKeeps, SinkFailsKeeps
  <1> QED
    BY <1>1, <1>2, PlansKeep, ClockKeeps, RestartKeeps, ContextStutters DEF ContextNext

-----------------------------------------------------------------------------
(* The theorems *)

\* The ledger of every reachable state is bounded and sound, and a write under way has
\* read it as it still is (ledger.ts, storage-sink.ts, observer.ts).
THEOREM ContextInvariant == ContextSpec => []ContextInv
  <1>1. ContextInv /\ [ContextNext]_contextVars => ContextInv'
    BY ContextStepKeeps
  <1> QED
    BY <1>1, ContextStarts, PTL DEF ContextSpec

\* The state has its types, the ledger its capacities and the queue its limit.
THEOREM ContextTypeCorrect == ContextSpec => []ContextTypeOK
  <1>1. ContextInv => ContextTypeOK
    <2> SUFFICES ASSUME ContextInv PROVE ContextTypeOK
      OBVIOUS
    <2> USE DEF ContextInv
    <2>1. \A k \in DOMAIN seenCalls : seenCalls[k] \in Events
      BY DEF ContextTypes
    <2>2. \A e, f \in ledger : e.group = f.group => e = f
      BY LedgerIsLedger DEF IsLedger, OneEach
    <2> QED
      BY <2>1, <2>2 DEF ContextTypeOK, ContextTypes, QueueOK, LedgerOK, PlanOK
  <1> QED
    BY <1>1, ContextInvariant, PTL

\* The ledger loses nothing but to its bounds and keeps nothing that was superseded, and
\* what is remembered as seen was stored (storage-sink.ts:25, ledger.ts:234-264).
THEOREM LedgerLosesNothing == ContextSpec => []SeenIsInLedger
  <1>1. ContextInv => SeenIsInLedger
    <2> SUFFICES ASSUME ContextInv PROVE SeenIsInLedger
      OBVIOUS
    <2> USE DEF ContextInv
    <2>1. ASSUME NEW e
          PROVE  Superseded(e) <=> \E o \in stored : o.group = e.group /\ o.nr > e.nr
      BY DEF Superseded, Newer
    <2>2. ASSUME NEW e, NEW capacity, NEW sessions
          PROVE  Displaced(e, capacity, sessions) <=> DisplacedIn(stored, e, capacity, sessions)
      BY DEF Displaced, DisplacedIn, GroupsOf
    <2>3. \A e \in ledger : e \in stored /\ ~Superseded(e)
      <3>1. \A e \in stored : e.nr \in Nat
        BY DEF ContextTypes, SoundEntries, Entries
      <3> QED
        BY <3>1, <2>1 DEF LedgerOK
    <2> QED
      BY <2>1, <2>2, <2>3 DEF SeenIsInLedger, SeenOK, LedgerOK
  <1> QED
    BY <1>1, ContextInvariant, PTL

\* The older of a plan's groups have RecentGroups others of their session that are as recent.
LEMMA NotRecentIsCounted ==
  ASSUME ContextTypes, PlanOK, plan.stage = "session", NEW c \in plan.groups,
         ~Recent(plan.groups, c)
  PROVE  Cardinality({e.group : e \in AsRecent(c)}) >= RecentGroups
  <1> DEFINE few  == {other \in plan.groups : \/ other.at > c.at
                                              \/ other.at = c.at /\ other.group < c.group}
             many == AsRecent(c)
  <1>1. /\ plan.groups \subseteq stored /\ OneEach(plan.groups)
        /\ \A e \in plan.groups : e.session = plan.session
        /\ stored \subseteq SoundEntries
    BY DEF PlanOK, ContextTypes
  <1>2. \A e \in stored : e.at \in Nat /\ e.group \in Nat
    BY <1>1, ContextAssumption DEF ContextAssumption, SoundEntries, Entries
  <1>3. few \subseteq many /\ OneEach(few) /\ many \subseteq SoundEntries
    <2>1. \A e \in few : e # c
      BY <1>1, <1>2
    <2>2. \A e \in few : e.group # c.group
      BY <2>1, <1>1 DEF OneEach
    <2>3. \A e \in few : e \in stored /\ e.session = c.session /\ e.at >= c.at
      BY <1>1, <1>2
    <2> QED
      BY <2>2, <2>3, <1>1 DEF OneEach, AsRecent
  <1>4. ~(Cardinality(few) < RecentGroups)
    BY DEF Recent
  <1>5. GroupsOf(many) = {e.group : e \in many}
    BY DEF GroupsOf
  <1> HIDE DEF few, many
  <1>6. IsFiniteSet(GroupsOf(many))
    BY <1>3, GroupsOfAreFinite
  <1>7. IsFiniteSet(few) /\ Cardinality(few) <= Cardinality(GroupsOf(many))
    BY <1>3, <1>6, OneEachIsCounted
  <1>8. Cardinality(few) \in Nat /\ Cardinality(GroupsOf(many)) \in Nat
    BY <1>6, <1>7, FS_CardinalityType
  <1>9. Cardinality(GroupsOf(many)) >= RecentGroups
    BY <1>4, <1>7, <1>8, ContextNumbers
  <1> QED
    BY <1>5, <1>9 DEF many

\* What a group against which nothing is found was, to whom, and how many are as recent.
LEMMA CandidatesAreSafe ==
  ASSUME ContextInv, [ContextNext]_contextVars
  PROVE  \A c \in candidates' \ candidates :
           /\ RoleOf[c.session] = "user-session" /\ c.key = process
           /\ request[c.group] = c.event[2]
           /\ Cardinality({e.group : e \in AsRecent(c)}) >= RecentGroups
  <1> SUFFICES ASSUME NEW c \in candidates' \ candidates
               PROVE  /\ RoleOf[c.session] = "user-session" /\ c.key = process
                      /\ request[c.group] = c.event[2]
                      /\ Cardinality({e.group : e \in AsRecent(c)}) >= RecentGroups
    OBVIOUS
  <1>1. PlanDecides
    <2>1. ASSUME NEW e \in Events, Deliver(e) \/ SessionRead(e) \/ SessionUnread(e)
          PROVE  candidates' = candidates
      BY <2>1 DEF Deliver, SessionRead, SessionUnread, Chained, planVars
    <2>2. ASSUME NEW i \in DOMAIN sinkQueue, SinkReads(i) \/ SinkWrites(i) \/ SinkFails(i)
          PROVE  candidates' = candidates
      BY <2>2 DEF SinkReads, SinkWrites, SinkFails, Leaves, planVars
    <2>3. ASSUME NEW g \in Groups, NEW to \in Payloads \cup {Absent}, RequestChanges(g, to)
          PROVE  candidates' = candidates
      BY <2>3 DEF RequestChanges
    <2>4. ASSUME NEW s \in CSessions, PlanCaptures(s)
          PROVE  candidates' = {}
      BY <2>4 DEF PlanCaptures
    <2>5. PlanReadsLedger \/ PlanReadsSession \/ PlanFails => candidates' = candidates
      BY DEF PlanReadsLedger, PlanReadsSession, PlanFails
    <2>6. ClockAdvances \/ UNCHANGED contextVars => candidates' = candidates
      BY DEF ClockAdvances, contextVars, planVars
    <2>7. Restart => candidates' = {}
      BY DEF Restart
    <2> QED
      BY <2>1, <2>2, <2>3, <2>4, <2>5, <2>6, <2>7 DEF ContextNext
  <1>2. /\ plan.stage = "session" /\ c \in plan.groups
        /\ plan.role = "user-session" /\ ~Recent(plan.groups, c)
        /\ Fingerprint(request[c.group], process) = c.print
    BY <1>1 DEF PlanDecides, Unproven, Clears
  <1>3. /\ c \in SoundEntries /\ c.session = plan.session
        /\ plan.role = RoleOf[plan.session]
    BY <1>2 DEF ContextInv, PlanOK, ContextTypes
  <1>4. c.key = process /\ request[c.group] = c.event[2]
    BY <1>2, <1>3 DEF Fingerprint, SoundEntries
  <1> QED
    BY <1>2, <1>3, <1>4, NotRecentIsCounted DEF ContextInv

\* A group against which the plan found nothing was returned to a user's session, was
\* observed by the process that judges it, is what the request still holds, and is not its
\* session's newest (protection.ts:36-105, request-projection.ts:28-65).
THEOREM CandidatesOnlySafe == ContextSpec => CandidateIsSafe
  <1>1. ContextInv /\ [ContextNext]_contextVars =>
          [\A c \in candidates' \ candidates :
             /\ RoleOf[c.session] = "user-session" /\ c.key = process
             /\ request[c.group] = c.event[2]
             /\ Cardinality({e.group : e \in AsRecent(c)}) >= RecentGroups]_contextVars
    BY CandidatesAreSafe
  <1>2. ContextSpec =>
          [][\A c \in candidates' \ candidates :
             /\ RoleOf[c.session] = "user-session" /\ c.key = process
             /\ request[c.group] = c.event[2]
             /\ Cardinality({e.group : e \in AsRecent(c)}) >= RecentGroups]_contextVars
    BY <1>1, ContextInvariant, PTL DEF ContextSpec
  <1> QED
    BY <1>2 DEF CandidateIsSafe

\* Storage knows no transaction, but the ledger in it only ever changes by one whole upsert
\* of what it held, at a time not yet past: no write is lost to another that overlapped it
\* (storage-sink.ts:33-50).
LedgerIsAtomic ==
  [][\E entry \in SoundEntries, t \in 1..clock :
       entry.nr = writes + 1 /\ ledger' = Upserted(ledger, entry, t)]_ledger

\* The read, the change and the write of a sink are one step of the ledger.
THEOREM LedgerWritesAreAtomic == ContextSpec => LedgerIsAtomic
  <1>1. ASSUME ContextInv, NEW i \in DOMAIN sinkQueue, SinkWrites(i) \/ SinkFails(i), ledger' # ledger
        PROVE  \E entry \in SoundEntries, t \in 1..clock :
                 entry.nr = writes + 1 /\ ledger' = Upserted(ledger, entry, t)
    <2>1. /\ i = 1 /\ sinkQueue # <<>> /\ Puts(1) /\ written[sinkQueue[1].event].read
          /\ sinkQueue[1] \in SoundEntries /\ sinkQueue[1].event \in Events
      <3>1. i = 1 /\ Puts(1) /\ written[sinkQueue[1].event].read
        BY <1>1 DEF SinkWrites, SinkFails, Turn, ledgerVars
      <3>2. sinkQueue \in Seq(SoundEntries) /\ 1 \in DOMAIN sinkQueue
        BY <1>1, <3>1 DEF ContextInv, ContextTypes
      <3>3. sinkQueue # <<>> /\ sinkQueue[1] \in SoundEntries
        BY <3>2
      <3> QED
        BY <3>1, <3>3 DEF SoundEntries, Entries
    <2>2. PICK t \in 1..clock :
            written[sinkQueue[1].event].groups = Upserted(ledger, Last(sinkQueue[1]), t)
      BY <1>1, <2>1 DEF ContextInv, WrittenOK
    <2>3. ledger' = Upserted(ledger, Last(sinkQueue[1]), t)
      BY <2>1, <2>2 DEF Puts
    <2>4. Last(sinkQueue[1]) \in SoundEntries /\ Last(sinkQueue[1]).nr = writes + 1
      BY <1>1, <2>1, LastIsSound DEF ContextInv, ContextTypes
    <2> QED
      BY <2>3, <2>4
  <1>2. ASSUME [ContextNext]_contextVars, ledger' # ledger
        PROVE  \E i \in DOMAIN sinkQueue : SinkWrites(i) \/ SinkFails(i)
    <2>1. ASSUME NEW e \in Events, Deliver(e) \/ SessionRead(e) \/ SessionUnread(e)
          PROVE  ledger' = ledger
      BY <2>1 DEF Deliver, SessionRead, SessionUnread, Chained, ledgerVars
    <2>2. ASSUME NEW i \in DOMAIN sinkQueue, SinkReads(i)
          PROVE  ledger' = ledger
      BY <2>2 DEF SinkReads, ledgerVars
    <2>3. ASSUME NEW g \in Groups, NEW to \in Payloads \cup {Absent}, RequestChanges(g, to)
          PROVE  ledger' = ledger
      BY <2>3 DEF RequestChanges, ledgerVars
    <2>4. ASSUME NEW s \in CSessions, PlanCaptures(s)
          PROVE  ledger' = ledger
      BY <2>4 DEF PlanCaptures, PlanOnly, ledgerVars
    <2>5. PlanReadsLedger \/ PlanReadsSession \/ PlanFails \/ PlanDecides => ledger' = ledger
      BY DEF PlanReadsLedger, PlanReadsSession, PlanFails, PlanDecides, PlanOnly, ledgerVars
    <2>6. ClockAdvances \/ Restart \/ UNCHANGED contextVars => ledger' = ledger
      BY DEF ClockAdvances, Restart, contextVars, ledgerVars
    <2> QED
      BY <1>2, <2>1, <2>2, <2>3, <2>4, <2>5, <2>6 DEF ContextNext
  <1>3. ContextInv /\ [ContextNext]_contextVars =>
          [\E entry \in SoundEntries, t \in 1..clock :
             entry.nr = writes + 1 /\ ledger' = Upserted(ledger, entry, t)]_ledger
    BY <1>1, <1>2
  <1>4. ContextSpec =>
          [][\E entry \in SoundEntries, t \in 1..clock :
               entry.nr = writes + 1 /\ ledger' = Upserted(ledger, entry, t)]_ledger
    BY <1>3, ContextInvariant, PTL DEF ContextSpec
  <1> QED
    BY <1>4 DEF LedgerIsAtomic

=============================================================================
