--------------------------- MODULE ResourceGovernor ---------------------------
(***************************************************************************)
(* The resource governor (resource-governor/) and the two failures the     *)
(* retry hook of hooks.ts answers with it alone: a quota limit, which      *)
(* latches a denial for a window, and a throttle, which may be retried     *)
(* twice per window if the policy allows it.  The checks a round, a switch *)
(* or a provider's failure make are askings without a retry of their own.  *)
(*                                                                         *)
(* A call captures the clock when it is made and takes a keyed lock later; *)
(* the lock is a line of calls here (KeyedLock shows that it is one).  A   *)
(* step inside a lock may find storage failing, or the process may end.    *)
(***************************************************************************)
EXTENDS Integers, Sequences, FiniteSets

CONSTANTS
  Calls,              \* calls of the hooks and of the dispatcher
  Window,             \* QUOTA_LATCH_TTL_MS and RESOURCE_POLICY_WINDOW_MS, in ticks
  MaxRetries,         \* MAX_THROTTLE_RETRIES_PER_WINDOW
  MaxNow,             \* bound: ticks of the clock
  MaxStorageFaults,   \* bound: failures of storage
  MaxProcesses        \* bound: processes, one after the other

ASSUME GovernorAssumption ==
  /\ Window \in Nat \ {0} /\ MaxRetries \in Nat \ {0}
  /\ MaxNow \in Nat /\ MaxStorageFaults \in Nat /\ MaxProcesses \in Nat

VARIABLES
  now,        \* Date.now()
  latch,      \* the durable latch: when it tripped, or Never
  emergency,  \* the in-process mark: when it expires (0: none)
  throttle,   \* the durable retry budget: its window's start (or Never) and its retries
  enforcing,  \* the line of RESOURCE_ENFORCEMENT_LOCK
  reserving,  \* the line of THROTTLE_RETRY_BUDGET_LOCK
  call,       \* each call: its kind, its step, its clock
  limits,     \* history: quota limits seen: by whom, when, and whether storage has it
  erased,     \* history: of them, those storage has not and whose mark another's write cleared
  grants,     \* history: throttle retries granted: when, and in the window that began when
  storageFaults, processes

governorVars == <<now, latch, emergency, throttle, enforcing, reserving, call, limits,
                  erased, grants, storageFaults, processes>>

-----------------------------------------------------------------------------
(* The policy *)

Never == -1

Stages == {"jev-decision", "new-round", "provider-retry", "switch", "replan"}
Levels == 0..4      \* unknown, low, moderate, high, critical
High     == 3
Moderate == 2

\* estimateResourcePressure: whatever the observations amount to.
Pressures == [rate : Levels, execution : Levels, availability : Levels]

\* The rounds the policy leaves: two under moderate pressure of any kind.
EffectiveMaxRounds(pressure, maxRounds) ==
  IF \E kind \in DOMAIN pressure : pressure[kind] >= Moderate /\ maxRounds > 2
    THEN 2 ELSE maxRounds

CapReached(pressure, stage, round, maxRounds) ==
  LET effective == EffectiveMaxRounds(pressure, maxRounds) IN
  /\ effective < maxRounds
  /\ \/ stage = "new-round" /\ round > effective
     \/ stage \in {"switch", "replan"} /\ round >= effective

DecideResourceBudget(quota, pressure, stage, round, maxRounds) ==
  /\ ~quota
  /\ pressure.rate < High /\ pressure.execution < High
  /\ ~CapReached(pressure, stage, round, maxRounds)

\* What it may answer.  A throttle is a provider's retry; the other askings come with the
\* stage and the round they are at.
BudgetAnswers ==
  [quota \in BOOLEAN |-> [kind \in {"throttle", "ask"} |->
    {allowed \in BOOLEAN :
      \E pressure \in Pressures, maxRounds \in 1..3, round \in 1..4 :
        \E stage \in IF kind = "throttle" THEN {"provider-retry"} ELSE Stages :
          allowed = DecideResourceBudget(quota, pressure, stage, round, maxRounds)}]]

-----------------------------------------------------------------------------
(* Calls and their lines *)

ErrorKinds == {"quota", "throttle", "ask"}
Idle  == [kind |-> "none", step |-> "idle", at |-> Never, under |-> {}]

\* A quota limit seen that long ago still holds at time t.
Holds(limit, t) == t < limit.at + Window
UnderLimits     == {limit.by : limit \in {held \in limits : Holds(held, now)}}

\* Math.max
Later(a, b) == IF a >= b THEN a ELSE b

\* readQuotaLatch, with the clock of the call that reads it.
QuotaLatch(at) ==
  \/ latch # Never /\ at < latch + Window
  \/ at < emergency

First(line, c) == line # <<>> /\ Head(line) = c
CallGoes(c, step)  == call' = [call EXCEPT ![c].step = step]
Fault          == storageFaults < MaxStorageFaults /\ storageFaults' = storageFaults + 1

GovernorInit ==
  /\ now = 0
  /\ latch = Never /\ emergency = 0
  /\ throttle = [start |-> Never, retries |-> 0]
  /\ enforcing = <<>> /\ reserving = <<>>
  /\ call = [c \in Calls |-> Idle]
  /\ limits = {} /\ erased = {} /\ grants = {}
  /\ storageFaults = 0 /\ processes = 1

Tick ==
  /\ now < MaxNow
  /\ now' = now + 1
  /\ UNCHANGED <<latch, emergency, throttle, enforcing, reserving, call, limits, erased, grants,
                 storageFaults, processes>>

-----------------------------------------------------------------------------
(* A quota limit *)

\* latchQuotaLimit marks the process before it waits for the lock.
QuotaLimit(c) ==
  /\ call[c] = Idle
  /\ emergency' = Later(emergency, now + Window)
  /\ limits' = limits \cup {[by |-> c, at |-> now, stored |-> FALSE]}
  /\ call' = [call EXCEPT ![c] = [kind |-> "quota", step |-> "latching", at |-> now,
                                  under |-> UnderLimits]]
  /\ enforcing' = Append(enforcing, c)
  /\ UNCHANGED <<now, latch, throttle, reserving, erased, grants, storageFaults, processes>>

\* Mutant of Tripped: the latch expires with the first limit of a row
TrippedAtFirst(c) == IF latch = Never THEN call[c].at ELSE latch

Tripped(c) == call[c].at

\* The write clears the mark of every limit that waits to be latched.
Latched(c) ==
  /\ First(enforcing, c) /\ call[c].step = "latching"
  /\ latch' = Tripped(c)
  /\ emergency' = 0
  /\ limits' = {[limit EXCEPT !.stored = @ \/ limit.by = c] : limit \in limits}
  /\ erased' = (erased \cup {d \in Calls : call[d].step = "latching"}) \ {c}
  /\ enforcing' = Tail(enforcing)
  /\ CallGoes(c, "denied")
  /\ UNCHANGED <<now, throttle, reserving, grants, storageFaults, processes>>

\* The write fails: the mark of the process is all there is.
LatchFails(c) ==
  /\ First(enforcing, c) /\ call[c].step = "latching"
  /\ Fault
  /\ enforcing' = Tail(enforcing)
  /\ CallGoes(c, "denied")
  /\ UNCHANGED <<now, latch, emergency, throttle, reserving, limits, erased, grants, processes>>

-----------------------------------------------------------------------------
(* The policy is asked: evaluateResourceBudget *)

Ask(c, kind) ==
  /\ call[c] = Idle
  /\ call' = [call EXCEPT ![c] = [kind |-> kind, step |-> "asking", at |-> now,
                                  under |-> UnderLimits]]
  /\ enforcing' = Append(enforcing, c)
  /\ UNCHANGED <<now, latch, emergency, throttle, reserving, limits, erased, grants,
                 storageFaults, processes>>

Answered(c) ==
  /\ First(enforcing, c) /\ call[c].step = "asking"
  /\ enforcing' = Tail(enforcing)
  /\ \E allowed \in BudgetAnswers[QuotaLatch(call[c].at)][call[c].kind] :
       IF allowed /\ call[c].kind = "throttle"
         THEN \* reserveThrottleRetry, with a clock of its own
              /\ call' = [call EXCEPT ![c].step = "reserving", ![c].at = now]
              /\ reserving' = Append(reserving, c)
         ELSE /\ CallGoes(c, IF allowed THEN "granted" ELSE "denied")
              /\ UNCHANGED reserving
  /\ UNCHANGED <<now, latch, emergency, throttle, limits, erased, grants, storageFaults, processes>>

\* The latch or the ledger cannot be read, or is not what it should be: fail closed.
AskFails(c) ==
  /\ First(enforcing, c) /\ call[c].step = "asking"
  /\ Fault
  /\ enforcing' = Tail(enforcing)
  /\ CallGoes(c, "denied")
  /\ UNCHANGED <<now, latch, emergency, throttle, reserving, limits, erased, grants, processes>>

-----------------------------------------------------------------------------
(* A retry is reserved: reserveThrottleRetry *)

\* Mutant of SameWindow: the last tick of a window belongs to the next one, and the first to none
SameWindowShort(at) == at - throttle.start < Window - 1

SameWindow(at) == at - throttle.start < Window

\* The window the call is in, and the retries it has had.
Current(at) ==
  IF throttle.start # Never /\ SameWindow(at) THEN throttle ELSE [start |-> at, retries |-> 0]

Reserved(c) ==
  LET at == call[c].at IN
  /\ First(reserving, c) /\ call[c].step = "reserving"
  /\ Current(at).retries < MaxRetries
  /\ throttle' = [Current(at) EXCEPT !.retries = @ + 1]
  /\ grants' = grants \cup {[by |-> c, at |-> at, start |-> Current(at).start]}
  /\ reserving' = Tail(reserving)
  /\ CallGoes(c, "granted")
  /\ UNCHANGED <<now, latch, emergency, enforcing, limits, erased, storageFaults, processes>>

Exhausted(c) ==
  /\ First(reserving, c) /\ call[c].step = "reserving"
  /\ Current(call[c].at).retries >= MaxRetries
  /\ reserving' = Tail(reserving)
  /\ CallGoes(c, "denied")
  /\ UNCHANGED <<now, latch, emergency, throttle, enforcing, limits, erased, grants, storageFaults,
                 processes>>

ReserveFails(c) ==
  /\ First(reserving, c) /\ call[c].step = "reserving"
  /\ Fault
  /\ reserving' = Tail(reserving)
  /\ CallGoes(c, "denied")
  /\ UNCHANGED <<now, latch, emergency, throttle, enforcing, limits, erased, grants, processes>>

-----------------------------------------------------------------------------

\* The process ends: its mark and its calls with it.  A limit only the mark knew is gone.
ProcessEnds ==
  /\ processes < MaxProcesses
  /\ processes' = processes + 1
  /\ emergency' = 0
  /\ enforcing' = <<>> /\ reserving' = <<>>
  /\ call' = [c \in Calls |-> IF call[c] = Idle THEN Idle ELSE [call[c] EXCEPT !.step = "denied"]]
  /\ limits' = {limit \in limits : limit.stored}
  /\ UNCHANGED <<now, latch, throttle, erased, grants, storageFaults>>

GovernorNext ==
  \/ Tick \/ ProcessEnds
  \/ \E c \in Calls :
       \/ QuotaLimit(c) \/ Latched(c) \/ LatchFails(c)
       \/ \E kind \in {"throttle", "ask"} : Ask(c, kind)
       \/ Answered(c) \/ AskFails(c)
       \/ Reserved(c) \/ Exhausted(c) \/ ReserveFails(c)

GovernorSpec == GovernorInit /\ [][GovernorNext]_governorVars

-----------------------------------------------------------------------------
(* Properties *)

GovernorTypeOK ==
  /\ now \in 0..MaxNow
  /\ latch \in {Never} \cup 0..MaxNow
  /\ emergency \in 0..MaxNow + Window
  /\ throttle \in [start : {Never} \cup 0..MaxNow, retries : 0..MaxRetries]
  /\ enforcing \in Seq(Calls) /\ reserving \in Seq(Calls)
  /\ call \in [Calls -> [kind : ErrorKinds \cup {"none"},
                         step : {"idle", "latching", "asking", "reserving", "granted", "denied"},
                         at : {Never} \cup 0..MaxNow, under : SUBSET Calls]]
  /\ limits \subseteq [by : Calls, at : 0..MaxNow, stored : BOOLEAN] /\ erased \subseteq Calls
  /\ grants \subseteq [by : Calls, at : 0..MaxNow, start : 0..MaxNow]
  /\ storageFaults \in 0..MaxStorageFaults
  /\ processes \in Nat

\* What is asked while a quota limit holds is denied, whether the latch was written or only
\* marked, and whatever other latches, failures and processes came before.  A limit whose
\* write failed holds as long as its process; but not when the write of another one that was
\* latched beside it had cleared its mark.
QuotaDenies ==
  \A c \in Calls : call[c].under \ erased # {} => call[c].step # "granted"

\* "If persistence fails, an in-process emergency latch remains active until its local expiry"
\* (docs/resource-budget-governor.md:58-59): what is asked while any limit holds is denied.
EveryLimitDenies ==
  \A c \in Calls : call[c].under # {} => call[c].step # "granted"

\* At most two throttle retries are granted in a window, and the windows in which some are
\* granted do not overlap, whatever calls compete and whichever of their writes fail
\* (throttle-retry-budget.ts:10).
TwoRetriesPerWindow ==
  \A grant \in grants :
    /\ Cardinality({other \in grants : other.start = grant.start}) <= MaxRetries
    /\ grant.at \in grant.start..grant.start + Window - 1
    /\ \A other \in grants :
         other.start > grant.start => other.start >= grant.start + Window
=============================================================================
