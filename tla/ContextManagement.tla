--------------------------- MODULE ContextManagement ---------------------------
(***************************************************************************)
(* Context management (src/context-management): what the tools of a        *)
(* session returned is remembered as metadata in one bounded ledger in     *)
(* storage, and before a request leaves the shadow planner judges which of *)
(* the session's tool groups it could do without.  Observers read the      *)
(* session, then queue for the ledger, which one of them at a time reads,  *)
(* changes and writes back.  Fingerprints are keyed by the process, which  *)
(* may restart; the ledger stays.  Counters are left out.                  *)
(*                                                                         *)
(* The ledger is a set of entries; an entry's nr is its place in the       *)
(* insertion order of the Map, by which the newest are told.               *)
(***************************************************************************)
EXTENDS Integers, Sequences, FiniteSets

CONSTANTS
  Groups,          \* tool calls, by the order of their hashes
  CSessions,       \* sessions
  SessionOf,       \* each call's session
  RoleOf,          \* each session's role by its metadata
  Payloads,        \* what a call can have returned
  GroupCapacity, SessionCapacity, RecentGroups, Ttl,
  PendingLimit,    \* EVENT_PENDING_LIMIT
  SeenLimit,       \* EVENT_SEEN_LIMIT
  MaxClock, MaxDeliveries, MaxContextFaults, MaxRestarts, MaxChanges   \* bounds

ASSUME ContextAssumption ==
  /\ Groups \subseteq Nat /\ IsFiniteSet(Groups)
  /\ SessionOf \in [Groups -> CSessions]
  /\ RoleOf \in [CSessions -> {"user-session", "worker", "critic", "orchestrator"}]
  /\ {GroupCapacity, SessionCapacity, RecentGroups, Ttl, PendingLimit, SeenLimit, MaxClock}
       \subseteq Nat \ {0}
  /\ {MaxDeliveries, MaxContextFaults, MaxRestarts, MaxChanges} \subseteq Nat

VARIABLES
  process,      \* which process this is: its fingerprint key
  clock,
  seenCalls,    \* events this process stored, in order
  observing,    \* when each event that waits for its session was delivered, or 0
  sinkQueue,    \* entries whose write is chained
  written,      \* what each chained write has made of the ledger it read
  ledger,       \* context/asset-ledger/v1
  stored,       \* history: every entry a write has stored
  writes,       \* history: how many writes stored one
  request,      \* what the request on its way holds of each call
  plan,         \* the shadow plan
  candidates,   \* groups the last plan found nothing against
  used          \* how much of each bound is used up

ledgerVars  == <<ledger, stored, writes>>
planVars    == <<request, plan, candidates>>
contextVars == <<process, clock, seenCalls, observing, sinkQueue, written, ledgerVars,
                 planVars, used>>

-----------------------------------------------------------------------------

Events == Groups \X Payloads
Absent == "absent"
NoRequest == [g \in Groups |-> Absent]
NotRead == [read |-> FALSE, groups |-> {}]
NoPlan  == [stage |-> "none", session |-> CHOOSE s \in CSessions : TRUE, captured |-> NoRequest,
            groups |-> {}, role |-> "unknown"]

\* Mutant of Fingerprint: a hash of the payload alone, the same in every process
FingerprintUnkeyed(payload, key) == <<payload, 0>>

\* fingerprintPayload: keyed by the process.
Fingerprint(payload, key) == <<payload, key>>

Entry(event, role, at) ==
  [group |-> event[1], session |-> SessionOf[event[1]], print |-> Fingerprint(event[2], process),
   role |-> role, at |-> at, event |-> event, key |-> process, nr |-> 0]

Uses(field) == used' = [used EXCEPT ![field] = @ + 1]

ContextInit ==
  /\ process = 1 /\ clock = 1
  /\ seenCalls = <<>>
  /\ observing = [e \in Events |-> 0]
  /\ sinkQueue = <<>>
  /\ written = [e \in Events |-> NotRead]
  /\ ledger = {} /\ stored = {} /\ writes = 0
  /\ request = NoRequest
  /\ plan = NoPlan /\ candidates = {}
  /\ used = [deliveries |-> 0, faults |-> 0, changes |-> 0]

-----------------------------------------------------------------------------
(* ledger.ts *)

Live(groups, now) == {entry \in groups : now - entry.at < Ttl}

Without(groups, group) == {entry \in groups : entry.group # group}

Newer(groups, entry) == {other \in groups : other.nr > entry.nr}

\* enforceSessionCapacity, enforceTotalCapacity: the newest stay, as many as there is room for.
Trimmed(groups, capacity, sessions) ==
  {entry \in groups :
     entry.session \in sessions =>
       Cardinality({other \in Newer(groups, entry) : other.session \in sessions}) < capacity}

\* replace, upsertGroup and snapshot: the new entry goes last, the oldest make room.
Upserted(groups, entry, now) ==
  LET all       == Without(Live(groups, now), entry.group) \cup {entry}
      ofSession == Trimmed(all, SessionCapacity, {entry.session})
  IN  Live(Trimmed(ofSession, GroupCapacity, CSessions), now)

-----------------------------------------------------------------------------
(* observer.ts, storage-sink.ts *)

InQueue(event) == \E i \in DOMAIN sinkQueue : sinkQueue[i].event = event
Seen(event)    == \E i \in DOMAIN seenCalls : seenCalls[i] = event
Pending        == {e \in Events : observing[e] > 0 \/ InQueue(e)}

\* observeToolAfter: a delivery seen or under way is dropped, and so is one too many.
Deliver(event) ==
  /\ used.deliveries < MaxDeliveries
  /\ observing' = IF Seen(event) \/ event \in Pending \/ Cardinality(Pending) >= PendingLimit
                    THEN observing ELSE [observing EXCEPT ![event] = clock]
  /\ Uses("deliveries")
  /\ UNCHANGED <<process, clock, seenCalls, sinkQueue, written, ledgerVars, planVars>>

\* The session was read, or could not be, and the write is chained.
Chained(event, role) ==
  /\ observing[event] > 0
  /\ sinkQueue' = Append(sinkQueue, Entry(event, role, observing[event]))
  /\ observing' = [observing EXCEPT ![event] = 0]
  /\ UNCHANGED <<process, clock, seenCalls, written, ledgerVars, planVars>>

SessionRead(event) == Chained(event, RoleOf[SessionOf[event[1]]]) /\ UNCHANGED used

SessionUnread(event) ==
  used.faults < MaxContextFaults /\ Chained(event, "unknown") /\ Uses("faults")

\* Mutant of Turn: a write reads the ledger without waiting for the writes before it
TurnOfAny(i) == i \in DOMAIN sinkQueue

Turn(i) == i \in DOMAIN sinkQueue /\ i = 1

\* An entry as it is put: behind all that were there.
Last(entry) == [entry EXCEPT !.nr = writes + 1]

SinkReads(i) ==
  /\ Turn(i)
  /\ LET event == sinkQueue[i].event IN
       /\ ~written[event].read
       /\ written' = [written EXCEPT ![event] =
                        [read |-> TRUE, groups |-> Upserted(ledger, Last(sinkQueue[i]), clock)]]
  /\ UNCHANGED <<process, clock, seenCalls, observing, sinkQueue, ledgerVars, planVars, used>>

\* A queue from which the one at i has gone.
LeftBy(queue, i) == [j \in 1..Len(queue) - 1 |-> IF j < i THEN queue[j] ELSE queue[j + 1]]

\* The write at i is over, with or without success.
Leaves(i) ==
  /\ sinkQueue' = LeftBy(sinkQueue, i)
  /\ written' = [written EXCEPT ![sinkQueue[i].event] = NotRead]
  /\ UNCHANGED <<process, clock, observing, planVars>>

Puts(i) ==
  /\ ledger' = written[sinkQueue[i].event].groups
  /\ stored' = stored \cup {Last(sinkQueue[i])}
  /\ writes' = writes + 1

\* remember: only what was stored, and the oldest is forgotten.
Remember(event, ok) ==
  LET all == IF ok THEN Append(seenCalls, event) ELSE seenCalls
  IN  IF Len(all) > SeenLimit THEN Tail(all) ELSE all

SinkWrites(i) ==
  /\ Turn(i) /\ written[sinkQueue[i].event].read
  /\ Puts(i)
  /\ seenCalls' = Remember(sinkQueue[i].event, TRUE)
  /\ Leaves(i)
  /\ UNCHANGED used

\* Reading failed, or writing did, and the ledger may hold the entry all the same.
SinkFails(i) ==
  /\ Turn(i) /\ used.faults < MaxContextFaults
  /\ \/ UNCHANGED ledgerVars
     \/ written[sinkQueue[i].event].read /\ Puts(i)
  /\ seenCalls' = Remember(sinkQueue[i].event, FALSE)
  /\ Leaves(i)
  /\ Uses("faults")

-----------------------------------------------------------------------------
(* runtime-hooks.ts, protection.ts, request-projection.ts, deterministic-pruner.ts *)

\* Another hook, or the host, changes the request while it is on its way.
RequestChanges(group, to) ==
  /\ plan.stage # "none"
  /\ used.changes < MaxChanges
  /\ request[group] # to
  /\ request' = [request EXCEPT ![group] = to]
  /\ Uses("changes")
  /\ UNCHANGED <<process, clock, seenCalls, observing, sinkQueue, written, ledgerVars, plan,
                 candidates>>

\* requestSnapshotIsCurrent
StillCurrent == \A g \in Groups : SessionOf[g] = plan.session => request[g] = plan.captured[g]

PlanOnly == UNCHANGED <<process, clock, seenCalls, observing, sinkQueue, written, ledgerVars>>

\* The hook is called with a request of a session: any of its calls is in it.
PlanCaptures(session) ==
  /\ plan.stage = "none"
  /\ request' \in {r \in [Groups -> Payloads \cup {Absent}] :
                    \A g \in Groups : SessionOf[g] # session => r[g] = Absent}
  /\ plan' = [NoPlan EXCEPT !.stage = "captured", !.session = session, !.captured = request']
  /\ candidates' = {}
  /\ PlanOnly /\ UNCHANGED used

PlanOver == plan' = NoPlan /\ request' = NoRequest

\* The ledger is read, unless the request has changed by then.
PlanReadsLedger ==
  /\ plan.stage = "captured"
  /\ IF StillCurrent
       THEN /\ plan' = [plan EXCEPT !.stage = "ledger",
                          !.groups = {e \in Live(ledger, clock) : e.session = plan.session}]
            /\ UNCHANGED request
       ELSE PlanOver
  /\ PlanOnly /\ UNCHANGED <<candidates, used>>

PlanReadsSession ==
  /\ plan.stage = "ledger"
  /\ plan' = [plan EXCEPT !.stage = "session", !.role = RoleOf[plan.session]]
  /\ PlanOnly /\ UNCHANGED <<request, candidates, used>>

PlanFails ==
  /\ plan.stage \in {"captured", "ledger"}
  /\ used.faults < MaxContextFaults
  /\ PlanOver /\ Uses("faults")
  /\ PlanOnly /\ UNCHANGED candidates

\* projectContextProtection: a worker's groups are its round's evidence or of unknown state,
\* a critic's and the orchestrator's are protected, and the user's are nobody's.
Clears(role) == role = "user-session"

\* newestCompleteGroups
Recent(groups, entry) ==
  Cardinality({other \in groups :
    other.at > entry.at \/ (other.at = entry.at /\ other.group < entry.group)}) < RecentGroups

\* Neither protected nor unknown nor recent, and the request holds what was observed.
Unproven ==
  {entry \in plan.groups :
     /\ Clears(plan.role) /\ entry.role = plan.role
     /\ \E p \in Payloads : entry.print = Fingerprint(p, process)
     /\ ~Recent(plan.groups, entry)
     /\ request[entry.group] # Absent
     /\ Fingerprint(request[entry.group], process) = entry.print}

\* The decisions are all KEEP: what is told apart is why.
PlanDecides ==
  /\ plan.stage = "session"
  /\ candidates' = IF StillCurrent THEN Unproven ELSE {}
  /\ PlanOver
  /\ PlanOnly /\ UNCHANGED used

-----------------------------------------------------------------------------

ClockAdvances ==
  /\ clock < MaxClock
  /\ clock' = clock + 1
  /\ UNCHANGED <<process, seenCalls, observing, sinkQueue, written, ledgerVars, planVars, used>>

\* A new process has a new key, and knows of no event and no write.
Restart ==
  /\ process <= MaxRestarts
  /\ process' = process + 1
  /\ seenCalls' = <<>> /\ sinkQueue' = <<>>
  /\ observing' = [e \in Events |-> 0]
  /\ written' = [e \in Events |-> NotRead]
  /\ PlanOver /\ candidates' = {}
  /\ UNCHANGED <<clock, ledgerVars, used>>

ContextNext ==
  \/ \E e \in Events : Deliver(e) \/ SessionRead(e) \/ SessionUnread(e)
  \/ \E i \in DOMAIN sinkQueue : SinkReads(i) \/ SinkWrites(i) \/ SinkFails(i)
  \/ \E g \in Groups, to \in Payloads \cup {Absent} : RequestChanges(g, to)
  \/ \E s \in CSessions : PlanCaptures(s)
  \/ PlanReadsLedger \/ PlanReadsSession \/ PlanFails \/ PlanDecides
  \/ ClockAdvances \/ Restart

ContextSpec == ContextInit /\ [][ContextNext]_contextVars

-----------------------------------------------------------------------------
(* Properties *)

ContextTypeOK ==
  /\ process \in 1..MaxRestarts + 1 /\ clock \in 1..MaxClock
  /\ \A i \in DOMAIN seenCalls : seenCalls[i] \in Events
  /\ Len(seenCalls) <= SeenLimit
  /\ observing \in [Events -> 0..MaxClock]
  /\ Cardinality(Pending) <= PendingLimit
  /\ \A i, j \in DOMAIN sinkQueue : sinkQueue[i].event = sinkQueue[j].event => i = j
  /\ Cardinality(ledger) <= GroupCapacity
  /\ \A s \in CSessions : Cardinality({e \in ledger : e.session = s}) <= SessionCapacity
  /\ \A e, f \in ledger : e.group = f.group => e = f
  /\ request \in [Groups -> Payloads \cup {Absent}]
  /\ plan.stage \in {"none", "captured", "ledger", "session"}

\* A later entry of the same group was stored, or of that many other groups.
Superseded(entry) == \E other \in Newer(stored, entry) : other.group = entry.group

Displaced(entry, capacity, sessions) ==
  Cardinality({o.group : o \in {o \in Newer(stored, entry) : o.session \in sessions}}) >= capacity

\* The ledger loses nothing but to its bounds: of what was ever stored, whatever the
\* interleaving of the writes, it holds each group's last entry unless that is older than
\* the TTL or entries of enough other groups have displaced it, and it holds nothing else;
\* and what the process remembers as seen, and therefore ignores when it is delivered
\* again, was stored (storage-sink.ts:25, ledger.ts:234-264).
SeenIsInLedger ==
  /\ \A k \in DOMAIN seenCalls : \E e \in stored : e.event = seenCalls[k]
  /\ \A e \in ledger : e \in stored /\ ~Superseded(e)
  /\ \A e \in stored :
       \/ Superseded(e)
       \/ clock - e.at >= Ttl
       \/ Displaced(e, GroupCapacity, CSessions) \/ Displaced(e, SessionCapacity, {e.session})
       \/ e \in ledger

\* What was ever stored of the other calls of an entry's session, and is no older.
AsRecent(entry) ==
  {e \in stored : e.session = entry.session /\ e.group # entry.group /\ e.at >= entry.at}

\* A group against which the plan found nothing was returned to a user's session, was
\* observed by the process that judges it, is what the request still holds, and is not its
\* session's newest: others of it are as recent (protection.ts:36-105,
\* request-projection.ts:28-65).
CandidateIsSafe ==
  [][\A c \in candidates' \ candidates :
       /\ RoleOf[c.session] = "user-session" /\ c.key = process
       /\ request[c.group] = c.event[2]
       /\ Cardinality({e.group : e \in AsRecent(c)}) >= RecentGroups]_contextVars
=============================================================================
