# OPJEV: verification project

TLA+ models of the OPJEV plugin (`src/`), the TLC runs that check them and the
theorems TLAPS proves about them. OPJEV turns a message admitted to an OpenCode
session into an *orchestration run*: rounds of a worker that executes, a critic
that reviews and a remote judge that decides what happens next, within a budget
of rounds, with a human asked when the budget or the judge says so. Around the
runs are a gateway that admits messages, hooks that route and retry the user's
own prompts, policies on resources and tools, the screen that shows progress and
results, and a launcher that starts it all.

Source paths below are relative to the repository root (`src/` in the map).

## 1. Inventory

| Component | State it keeps | Operations | What is hard | What must hold |
|---|---|---|---|---|
| Kernel (`src/orchestration/state-machine.ts`, `types.ts`, `human-gate.ts`) | `RunState`: phase, round, contract budget, executor, evidence, last verdict, history, pending human request | pure events: contract ready/revised, execution started/finished, evidence, verdict, human decision, failure | long legal sequences: repairs, switches, replans that shrink the budget, pauses and resumes | rounds within budget, complete history, every pause resumable, no acceptance on stale or failed evidence |
| Dispatcher (`src/orchestration/dispatcher.ts`) | the run state in memory, sessions created, commands pending | one round (worker, critic, judge), the scheduler's loop, resume | timeouts with unconfirmed interruption, verdicts overtaken by follow-ups, best-effort checkpoints, restarts | every step the kernel's, storage true, nothing after an unconfirmed interruption, a run returns |
| Follow-ups (`src/orchestration/followup.ts`) | per run: an index, a record per message, a revision | attach, reserve, mark delivered, confirm, revert, close, read the frontier | several writes per operation, any of which fails; a message that arrives while the judge decides | delivered at most once, settled honestly, no acceptance that forgets a message |
| Admission RPC (`src/orchestration/admission-rpc.ts`, `admission.ts`) | admission record per message, session binding | orchestrate, attach, completion callback | concurrent calls, two locks, commit and completion in different critical sections, restarts | a message starts at most one run, records are true |
| Keyed lock (`src/lock.ts`, `src/orchestration/resume-lock.ts`) | a map from keys to promise tails | call, enter, leave, settle | a chain without a queue, cleanup against new arrivals | exclusion, order, no starvation, no leak |
| Human resume (`src/tools.ts`) | the stored run state | orchestrate_resume | two resumes at once, a checkpoint that is lost, the session binding it does not touch | a request is decided once |
| Tool authority (`src/orchestration/tool-authority.ts`) | registry of at most 4096 internal sessions, fences, a saturation flag | register, fence, enforce | eviction, saturation, a fence set during an await | a session whose interruption was asked for executes no tool |
| Gateway (`src/gateway/*`) | at most 500 records, the keyed lock of messages | intercept a prompt: forward, route or orchestrate | outcomes unknown after a timeout, duplicates, eviction, a route applied by half | the parent is not woken, yes is said only of what was taken |
| Resource governor (`src/resource-governor/*`) | usage ledger, quota latch (durable and in-process), retry window | observe, latch, reserve a retry, evaluate a budget | write failures, concurrent latches, window boundaries | a quota limit denies for its whole window; two retries per window |
| Hooks and routing (`src/hooks.ts`, `router.ts`, `plugin-runtime.ts`) | the session's setting in the host, route, retry, tool-error and recovery records, cooldowns | prompt, context, retry and tool hooks | hooks that overlap, a switch applied by half, records written after the switch | no model is granted twice in a chain, the route recorded is the session's |
| Context management (`src/context-management/*`) | ledger of tool groups, a serialized sink, events seen | observe, upsert, plan in the shadow | capacity and TTL, write failures, a request that changes under the plan, restarts | what is remembered was stored, a candidate is safe to leave out |
| Presentation (`active-summary-poller.ts`, `presentation*.ts`, `summary*.ts`, `tui.ts`) | the poller's session, generation and last snapshot; runs seen and in flight | start, poll, stop; present by event, reconcile by inbox | navigation while a read is on its way, lost events, an inbox read beside an event | nothing shown in another session or gone back, every result presented, once |
| Launcher and installer (`scripts/opjev.mjs`, `install-plugin.mjs`) | a lock file, children, the plugin's directory | start, record a child, shut down, install | a signal or a kill at any point | no managed process without its lock, a signalled launcher ends |
| Persistence and runtime (`src/plugin-runtime.ts`, `snapshot.ts`) | `orchestration/run/<runID>` | merge a checkpoint, adapt the host | checkpoints that are lost | the last checkpoint is a state the run was in |
| Judge, critic, profiles, end-to-end drivers, entry | none of their own | parse, ask, report, register | remote answers | outside: any valid answer or failure may come |

How they interact. The gateway admits a prompt in the host and calls the admission
RPC. The RPC handler holds the lock of the session, looks at the session's binding
and either attaches the message to the active run, refuses it (a run waits for a
human) or starts a run: record, binding, then the dispatcher as a background
promise whose completion callback takes the session lock again. The dispatcher
drives the kernel, asks the resource governor before each round and switch, registers
its internal sessions with the tool authority and fences them before it interrupts
them, reserves follow-ups before each prompt, and takes the session lock to commit an
acceptance or a stop together with the binding, so that a message is either seen by
the judge or attached to nothing. A paused run returns to the callback; a human
resumes it later through a tool, under a lock of its own. The hooks work beside all
this on the user's own sessions; the TUI polls the server for progress and reads
results from an event or from the session's inbox. The launcher owns the processes.

## 2. Modules

| Module | Models | State and actions |
|---|---|---|
| `RoundBudget` | abstract: rounds of a run against a budget | stage, round, budget |
| `Kernel` | `transitionRun` | `run` is the `RunState`; one action per event, `VERDICT_RECEIVED` split by outcome; an event the code rejects with an error is not enabled |
| `Dispatcher` | `runOrchestrationOnce`, `executeSchedule`, `runRoundOnce`, `withTimeout`, `failRun`, `persist`, `runOrchestrationResume` and the resume tool's use of storage | extends `Kernel`: every change of `run` is a kernel event; `pc` is the await the scheduler is at, `wait` the deadline's state, `stored` the record in storage, `late` a pause still to be written |
| `Followups` | records, index and revision of one run, the dispatcher around them, attachment and completion | one action per critical section or await-free stretch (the check of the revision after the judge, `AskBudget`, and the verdict's commit, `NextRound` or `Pause`, are two, with the await of the resource budget between them); each action that writes has a twin (`...Failed`, `MarkSome`) for storage that fails inside it, with the outcomes the error handling leaves |
| `Admission` | all messages of one session | the handler in its steps (lock, decide, record, binding, runner), the runner as what the session sees of it, the callback, the human's tool, a restart |
| `FifoLock`, `KeyedLock` | abstract: a line of callers; `withKeyedLock` and `withResumeLock` for one key | `tails`, what each call waits for, released and settled promises |
| `ToolAuthority` | the registry, the runtimes that create, register and interrupt a session, the check | a tool call is `reading` while the host looks its session's metadata up; `arrival` is the order of the code's `Map` |
| `ResourceGovernor` | `latchQuotaLimit`, `evaluateResourceBudget`, `reserveThrottleRetry` and the two failures the retry hook leaves to them | the clock ticks between a call and its turn at the lock; the durable latch and the mark of the process are two variables, and any number of limits may be on their way to the latch |
| `Gateway` | `handleIntercept` with the host and the plugin it talks to | one place per await; a call's reply is given, refused or lost (`LoseReply`, which leaves the effect done or not) |
| `Routing` | the prompt, retry, tool and context hooks of one session, `switchExecutor` with its rollback | each hook is a `job` with a step per await; the session's `setting` is the host's, `Named` the name the snapshot has for a model, and `job.from` whether a hook knows the setting from the host, from the stored route or not at all; each read may fail and is swallowed |
| `ContextManagement` | observer, sink, ledger, fingerprints, the shadow planner | a delivered event waits for its session, then for its turn at the sink; a plan captures, reads the ledger and the session, then decides; the code's `Map` is a set of entries whose `nr` is their place in its order, and `stored` and `writes` are its history |
| `SummaryPoller` | the poller, the TUI that starts and stops it, the read-only RPC | a poll carries the session and the generation it was asked for; its answer comes whenever |
| `Presentation` | `tui.ts` and the reconciliation of a session's inbox | a presentation looks up, renders, refreshes; events may be lost, notices wait in the inbox, and a look may find an answer that is no list |
| `Launcher` | `opjev.mjs` launch and shutdown, `install-plugin.mjs` | a place per await of `launch`; a child is started, then recorded in the lock file; a shutdown stops them in the order of `StopOrder` |
| `KernelProofs`, `DispatcherProofs`, `FollowupsProofs`, `AdmissionProofs`, `GatewayProofs`, `RoutingProofs` | theorems about the modules they are named after | |
| `PoliciesProofs` | theorems about `ToolAuthority`, `ResourceGovernor` and `ContextManagement` | |
| `SupportProofs` | theorems about `KeyedLock`, `SummaryPoller`, `Launcher` and `Presentation` | |
| `MC...` | constants and compositions for TLC | |

`Followups` and `Admission` meet in the follow-up: `Followups` has one run and all the
storage outcomes of a follow-up's life, `Admission` has one session and all its runs,
with a follow-up reduced to open, consumed or unconsumed. `TakeFollowups` of
`Admission` stands for the whole reserve-deliver-confirm protocol of `Followups`, and
its `RunEnds`, `Commit` and `Complete` for the corresponding actions there.

`Dispatcher` composes `Kernel` with the sessions, the clock and storage: it uses the
kernel's actions as they are, so that a step no event of the kernel allows shows up as a
violation of `KeepsToKernel`. It leaves follow-ups to `Followups` and the session's
binding to `Admission`; of a follow-up only its effect on the judge remains
(`JudgeAgain`). Refusals that end in the same state are one action: `OpenFails` is a
denied budget, a rejected `createWorker`, a session that is not new and the loop's own
guard; `JudgeFails` every failure between the evidence and the verdict.

`Gateway` contains what the plugin durably promises of a message (`durable`, `binding`)
and none of what `Admission` does to keep it; `Routing` and `ResourceGovernor` meet in
`RetryDenied`: a retry the policy refuses changes nothing of the route.
`ResourceGovernor` has a line of calls where the code has a keyed lock, which
`KeyedLock` shows to be one.

`MCSupport` (lock, presentation, launcher), `MCLimits` (kernel, governor, tool authority) and
`MCPlugin` (routing, context management, poller) put components that share no state into one
configuration: `scene` names the one a behaviour follows, and the others stay where they
began. Nothing is claimed about their interleaving, which there is none of.

Where a definition is commented as a *mutant*, it is a plausible bug of the definition
that follows it: TLC finds the property it is paired with violated when it takes the
definition's place.

Assumptions the models make about what is outside: a storage write that fails has
written nothing; a call whose first reads fail answers an error and changes nothing
(not modelled in `Followups` and `Admission`); a resume finds the record of its run in
storage or is refused; the host delivers or loses a prompt, and tells the dispatcher so
except where a lost reply is an action (`PromptFailed(TRUE)`, `PromptFails(TRUE)`); an
operator removes a stale lock file only as the launcher asks, when the process it names
and its children are gone. Left out: counters and metrics of the gateway, of the
governor and of context management; in the latter the sink's own limit on
entries waiting, which the observer's smaller one keeps from being reached, and the limit on
fingerprints kept of the current request.

## 3. Runs

| Run | Bounds | Shows |
|---|---|---|
| `limits` | two executors, one session, budget cap 3; four calls, latching in any overlap, windows of two ticks up to tick 3, one failed write, two processes; five sessions, a registry of two | history, pauses and completion on every sequence of events, and that the kernel implements `RoundBudget`; quota denial, two retries per window; fences against eviction and saturation |
| `limits_overlap` (violation) | three calls, one failed write | a retry is granted under a limit whose mark the write of another removed |
| `followups` | three messages, two per run, one per prompt, two rounds, two judgements, storage failing in three operations | delivery at most once, no acceptance over an open message, judged on what was attached, settled stays settled |
| `followups_live` | two messages, three rounds, no failures, fair scheduling | every attached message is settled |
| `admission` | two messages, two calls, two failures, one restart | a message starts one run, records are true, follow-ups are attended to, two runs only after a late completion |
| `admission_stuck` (violation) | two messages, one call, no failure | a session whose paused run was stopped by the tool, or was resumed and ended without a verdict of the judge, never takes a message again |
| `dispatcher` | two executors of one agent, three worker sessions, budget cap 2, two lost checkpoints, of any kind that can be lost, or restarts | reviewed work and that the run returns; and of a run that has not gone astray (below) kernel events, true storage, one decision per request, quiet after an unconfirmed interruption |
| `dispatcher_overlap` (violation) | budget cap 2, no fault | a decided request becomes pending again and is decided twice |
| `dispatcher_unrecorded` (violation) | two sessions, one lost checkpoint of a decision | a run that was resumed is driven while storage still offers its pause |
| `gateway` | three requests, four messages, two at a time, one record, one lost reply, one restart | no parent woken, yes only for what was taken, a dispatched record is a run, a route is told as it is |
| `plugin` | three hooks, three models of which two are free and one is named as another, a session that begins with the default agent, one lane, a record of one model tried, two failing reads or writes; three calls of two sessions, ledger of two, one fault, one restart, one change of the request; two sessions on screen, three steps of a run, two moves | the retry chain comes back to a model only after it lost its record, the recorded route is true after switches that read the host; ledger and seen events, safe candidates; progress that is current |
| `support` | four calls of the lock; three results, two sessions, one refresh; two launchers, two failures | the lock against `FifoLock`; one presentation of each result; the launcher's lock |

Why the bounds are enough. A budget of three lets a kernel run open, repair, replan with a
smaller budget, pause, be resumed with a larger one and pause again; decisions include
stale requests and a budget past the cap. In `Dispatcher` a pause, a resume and a second
pause fit in two rounds, and with them every checkpoint of the protocol; two faults lose
both checkpoints of a pause, a decision and the process of the run it resumed, or another
checkpoint and the process. `PerRun` 2 with three
messages reaches the limit with a message left over, `PerRound` 1 makes a second message
wait for a later boundary, and three failing operations are what it takes to lose a
receipt (mark, confirm, mark again). In `Admission` two failures are needed for a start
whose failure cannot be recorded, and two messages for an overlap. In `Gateway` one
record makes the second dispatch evict the first, whose duplicate then comes as the third
request; the four messages are two for orchestration, one to route and one with an
internal marker. In `Routing` two free models give a chain that ends, a third that is no
free one and has the name of another lets a snapshot err, and three hooks are one retry with
two others inside it or the two retries a lost record needs; more lanes add only chains. A window of two ticks has
a middle and both ends within tick 3; four calls are a third retry and a denial behind it;
a registry of two with three workers evicts and saturates. Two moves of the user leave a
session and come back to it. Two launchers are one that holds the lock and one that
wants it; four calls of the lock give a chain in which one leaves while two wait and a
fourth joins.

Deadlock is not checked: a run, a session, a launcher and a set of calls come to an end.

Type invariants are checked by the runs of `Followups` and `Gateway` and proved for every
module that has proofs (section 4), that of `ContextManagement` with the capacities of the
ledger and the limit of what waits for it (`ContextTypeCorrect`).

Fairness. `Followups!FairSpec` is weak fairness of the dispatcher and of the completion
callback, which the event loop and working timeouts run; nothing is assumed of a human who
may resume or of a message that may come. `KeyedLock!FairSpec` assumes that a resolved promise resumes its waiter and that every
critical section ends, which the timeouts inside the sections provide.
`Dispatcher!FairSpec` is weak fairness of the scheduler's own steps, its two timers
included: the event loop runs them. It takes for granted that the calls without a deadline
(`session.create`, `prompt`, `get`, `context`, the judge, storage) are answered or
rejected; it assumes nothing of what has one, the end of a session's work and the
confirmation of an interruption. `PresentationFairness` is the TUI's interval and its
timers, and the host's answers to its reads, which have a deadline each; its looks at the
inbox are fair in the strong sense, that one among them finds a list, because an answer that
is none comes "briefly" (`tui.ts:379`). It assumes nothing of events, and `ResultIsPresented` only promises a result to a user who stays in its
session while it is idle. `SupportFairness` gives a launcher that lives its own steps: its
waits all have deadlines, and a child that ignores a termination is killed. Nothing is
assumed of arrivals, failures, users, signals or restarts.

### Disagreements with the documentation

Four are runs that expect a violation.

* `dispatcher_overlap`: a pausing run writes its state as `verdict-applied` and some awaits
  later (an observation of up to 50 ms among them) again as `human-awaiting`
  (`dispatcher.ts:1787`). It holds no resume lock, and the resume tool looks at the state,
  not at the checkpoint's kind: a decision recorded in between is overwritten by the second
  write, and a stopped run can then be resumed. Line 31 of the stabilization matrix says
  that exactly one call wins. The properties of the `dispatcher` run that depend on it are
  stated of a run that has not gone `Astray`: no resume has overtaken its pause
  (`overtaken`), and none has decided on a record that had lost a decision (`repeated`, next).
* `admission_stuck`: the completion of a paused run leaves `awaiting-human` in the session's
  binding (`admission-rpc.ts:489`); the tool that stops or resumes the run never writes the
  binding (`tools.ts:433`). A resumed run writes it only where the judge ends it, with the
  terminal commit (`dispatcher.ts:1308-1315`) or that commit's failure (`dispatcher.ts:1324`). After a
  human's stop, or when the resumed run fails otherwise, every message of the session is
  refused, although `admission-rpc.ts:401` lets a new message start a new run after a
  terminal phase.
* `dispatcher_unrecorded`: the comment before `persist` of a human decision
  (`dispatcher.ts:1849`) asks for the decision in storage before any new worker; the checkpoint
  is best effort all the same. When it is lost, storage offers the pause of a run that is
  driven, and once that scheduler is gone a resume decides the same request again.
* `limits_overlap`: two quota limits are latched at once. The first to be written clears
  the mark of the process for both (`enforcement-state.ts:44`), and when the second write fails
  the denial ends with the first one's window; `docs/resource-budget-governor.md:58-59`,
  `enforcement-state.ts:14` and `hooks.ts:273` promise it until the local expiry of each limit.
  `QuotaDenies`, in the `limits` run, excepts the limits `erased` in this way and no other.

The others can be reproduced with the constants or the change named; none is part of a run.

* A retry whose record of the models tried cannot be read starts from an empty one
  (`plugin-runtime.ts:214-220`), and a model granted before is granted again, against
  `hooks.ts:329`: the `plugin` run finds it when `EachModelGrantedOnce` is stated without
  `forgotten`. With it the property speaks of the grants since the record was last lost (a
  failed read, or a list that was full).
* The snapshot names a model with a provider the host does not use (`snapshot.ts:57`), and a
  switch of the agent alone records that name (`hooks.ts:154-166`), which the plugin takes for
  a model of the pool by its id, against `plugin-runtime.ts:323`: the run finds it when
  `RouteIsTrue` is stated without `misread`. With it the property excepts what was last
  recorded from such a name or from no answer of the host.
* An inbox answer that is no list is an empty one (`tui.ts:382`), but the look that got it takes
  the session's baseline all the same (`presentation-reconcile.ts:82-84`). The next look presents
  what is older than the screen, against `tui.ts:362-363`: the `support` run finds it when
  `OnePresentation` is stated without `misread`, which excepts the history of such sessions and
  no other.
* Pausing ends the runner, and its callback closes pending follow-ups as unconsumed
  (`admission-rpc.ts:472`), although the run goes on when a human resumes it; lines 111 and
  119-121 promise the next round. In `Followups` a message attached before a pause is
  `unconsumed` when the resumed round begins.
* The terminal commit frees the session before the completion callback has run, and the
  callback writes the binding without comparing runs (`admission-rpc.ts:489`). A message
  admitted in between starts a second run, whose binding is then overwritten by a finished
  one; the next message starts a third run beside it. Lines 117-118 and 399-400 say there is
  never a second run. `OneRunUnlessLate` says that this is the only way.
* The worker of a run that fails because a wait was rejected is neither fenced nor
  interrupted (`dispatcher.ts:953`).
* A message attached while the resource budget is asked between the check of the revision and
  the verdict's commit (`dispatcher.ts:1394-1444`) is not what the verdict was given on. It is
  not lost: `JudgedOnWhatWasAttached` says that it is still pending when the run goes on.
* The gateway counts a message answered `awaiting-human-no-resume` among those dispatched
  (`server.ts:386`); `DispatchedIsARun` is stated of messages that were not refused.
* Of more than 64 results in one inbox the oldest leave the set of those seen and are
  presented again at the next look (`presentation-reconcile.ts:14`); `Presentation` has
  `SeenCap` results at most.
* The poller cannot tell a user who left and came back between two ticks from one who
  stayed (`active-summary-poller.ts:92`); the progress it shows is still the session's own.
* `acquireLock` does not look at the TUI's process (`opjev.mjs:353`), and a launcher killed
  during an installation leaves a directory the next one refuses as not its own.
* A restart leaves a binding `running`, an unconfirmed interruption a stored phase
  `running`, and a delivery of unknown outcome a follow-up reserved, until a later boundary
  or a human settles them.

## 4. Proofs

Every theorem holds for every value of the constants, from the named assumptions of the
modules; extra hypotheses are part of the statement. Each proof module states an inductive
invariant, shows that the initial states have it and that every action keeps it (one
lemma or step per action), and derives its theorems from it.

* `KernelProofs`: `TypeCorrect`, `BudgetSafety`, `HistorySafety`, `PauseSafety`,
  `CompletionSafety`, `AuditSafety`, `SessionSafety`, the action properties
  `HistoryTheorem` and `BudgetGrowth`, and the refinement `KernelImplementsRoundBudget`.
  The properties are not inductive one by one: that a pause is resumable needs the executor
  and the evidence of the round to be there when a verdict comes (`RoundIsBacked`); that an
  audit is written once needs the last entry of the history to be without one while its
  round is open to a revision or a decision (`LastEntryIsOpen`); that the history is
  complete needs the round to be within the budget, because the history's cap is
  computed from it. A by-product: the cap never drops an entry.
* `DispatcherProofs` has two invariants, for every catalog, budget cap and number of faults.
  `LoopInv` needs nothing else: whatever checkpoint is lost, whoever restarts and whichever
  resume overtakes a pause, each copy of the run there is (in memory, in storage, in a write
  still to come) is `Sound`: its round is within its budget and its evidence says what the
  scheduler saw; and the scheduler judges only what is `Ready`. Hence `LoopIsSound`,
  `BudgetIsKept` and `OnlyReviewedWork` (nothing but work that passed the worker's checks and
  the critic completes a run). `DInv`, whichever checkpoints are lost, gives `DispatcherImplementsKernel` (every step is the kernel's),
  `DispatcherIsSafe` (hence the kernel's safety), `StorageIsTrue`, `DecisionsAreSingle`,
  `AbandonEnds` and `GuardIsIdle` (the loop's own budget guard never stops a run). The heart
  of it is `Stored`: a run that is being driven neither waits nor has ended (`Fits`), so a
  pause or an end in storage is the run's own unless the decision on it was lost
  (`unrecorded`), and a resume applies the decision to the run as it is; `DecidedBefore` orders
  the decided requests by their rounds. These hold until the run goes `Astray`, by a resume
  that overtakes its pause or by a decision on a record that lost one: `dispatcher_overlap` and
  `dispatcher_unrecorded` show where the code lets that happen.
* `FollowupsProofs`, for any messages, rounds, judgements and storage failures:
  `FollowupsDeliverOnce`, `CompletedIsComplete`, `VerdictsAreFenced`, `RecordsAreFinal` and
  the types. What a record says of the prompts that carried its message (`RecordSound`), what
  holds of a prompt's messages from their reservation to their confirmation (`TakenSound`),
  that a frontier that has not moved had every attached message in it (`JudgedSound`), and that
  what comes after it waits for the next prompt (`LateIsPending`).
* `AdmissionProofs`, for any messages, calls, failures and restarts: `MessagesStartOnce`,
  `StartedRecordsAreTrue`, `OpenFollowupsAreAttended`, `RunsTakeTurns`. What a handler has
  read inside the session's lock holds until it leaves (`CallSound`), so a run is started
  once (`StartSound`), only where the binding has no live run (`TurnSound`, `FreeSound`), and
  a follow-up is attached only to a run whose callback is still to come (`AttendSound`).
  Who attends to what is stated without storage failures, and with restarts: a restart
  forgets the callbacks it finds, and nothing else leaves a follow-up open.
* `GatewayProofs`, for any rules, messages, bounds and number of lost replies and restarts:
  `ParentSleeps`, `YesIsTaken`, `DispatchesAreRuns`, `RoutesAreHonest` and the types.
  `PlaceSound` says what each place of a handler knows of its message, `RecordSound` that a
  record says `started` only of what the plugin took.
* `RoutingProofs`: `RecordedRouteIsTrue`, whichever reads and writes fail: a hook that is
  alone carries what it read of the session's setting, and knows how to put it back
  (`AloneSound`, `BackTrue`); what parts the record and the setting leaves one of the marks
  the property names: a fault, a user or an overlap (`strayed`), or a snapshot that could not
  read the host truly (`misread`). `RetriesEnd`: no model is granted twice between two losses
  of the record of the models tried (`forgotten`), for any limit of that record; nothing else
  touches it while a retry is at work, so what the retry began with covers every model granted
  since the last loss (`RetrySound`).
* `PoliciesProofs`, of the registry: `FenceHolds` and `ReadersSafety`. A session whose
  interruption was asked for keeps its fence, because only entries without one are
  evicted, unless it had been evicted before, and then the registry is saturated
  (`FencedOrSaturated`). Of the governor: `RetriesAreBounded`, because calls reserve in the
  order of their clocks (`LineInOrder`) and so a window that was closed is never reopened
  (`WindowsAreApart`); and `QuotaLimitsDeny`, whatever overlaps: a limit that holds is in
  storage, marked in the process, or among those whose mark another limit's write removed
  before their own was stored (`LimitsAreKept`), because limits are stored in the order of
  their clocks (`EnforcingInOrder`, `LimitsInTurn`).
  Of context management, for any calls, payloads, capacities, failures and restarts:
  `LedgerLosesNothing`, `LedgerWritesAreAtomic` and `CandidatesOnlySafe`. That the ledger
  loses nothing is not inductive: a write under way carries a ledger of its own. What is
  missing is `WrittenOK`, that only the first write in the queue has one, made of the ledger
  as it still is; so each write is one upsert of the ledger (`UpsertedKeeps`,
  `UpsertedIsBounded`), and the history that displaced an entry only grows
  (`StaysDisplaced`). Entries are counted by their groups, of which the ledger holds one
  entry each (`OneEachIsCounted`); and what stays after a trim by how many newer ones each
  has (`TrimmedIsBounded`).
* `SupportProofs`: of the lock, `Exclusion`, `Cleanup` and the refinement
  `LockImplementsFifo`, for any set of calls. Every call waits for the one made just before
  it or found the map empty after everybody had left, so the calls that have left come first
  in the history (`Divided`) and the rest of it is the abstract line. Of the poller,
  `ProgressTheorem`: of the polls under way at most one is of the generation that runs
  (`OwnPolls`), and only that one may show anything. Of the launcher, `LockCovers` and
  `OneLauncher`: a launcher that lives holds the lock (`Covered`), and a shutdown that has
  begun knows of every child that runs (`KnowsItsChildren`). Of the presentation,
  `PresentedOnce`, for finitely many results, no more than `SeenCap`: what is under way has
  not been seen, what was shown has, history is on no list of a session whose first look found
  one (`misread` names the others), and a set that has a place for the next result
  (`PlaceLeft`) evicts none. With more results the property is false (section 3).

The assumptions on constants are types and the distinctness of the values that stand for
nothing (`Unknown` is no model, `Nobody` no call, `NoRun` no message, `NoRoom` no room);
the tool calls a ledger can hold entries of are finitely many, as their hashes are; the
bounds of the model are any natural numbers (the clock's at least 1, where it starts).

Only model-checked: liveness (`RunReturns`, `AttachedIsSettled`, `EveryCallEnters`,
`ResultIsPresented`, `SignalledEnds`), which is out of the prover's reach. Every other
property of a passing run is a theorem.

## 5. Not modelled, and why

* Critic and judgement (`critic.ts`, `judgement.ts`, `agent-catalog.ts`,
  `decision-explanation.ts`): parsing of free text and calls of a remote judge. For
  `Kernel` any valid verdict may come, for `Dispatcher` any answer or failure.
* The rest of the plugin runtime, `snapshot.ts`, `jev-client.ts`, `auth.ts`, `sanitize.ts`:
  they adapt the host's API, build bounded copies and hold credentials. What they switch,
  record and fence is in `Routing`, `Dispatcher` and `ToolAuthority`.
* Streaming and upgrades of the gateway's proxy, its configuration and start: pure I/O.
* The observations the resource pressure is estimated from (`usage-ledger.ts`,
  `pressure-estimator.ts`): in the model the pressure is any pressure. Model profiles:
  a report without state.
* The other tools of `tools.ts` only read. The plugin's entry registers what is modelled.
* The end-to-end, evaluation and audit drivers among the scripts observe the program and
  keep no state of it.
* Two sessions at once, and one gateway per session in `Gateway`: every lock, record and
  binding of the code is per session, per run or per message, and nothing is shared but the
  bounded maps, whose eviction is modelled.

What a next step would prove: the theorems of `AdmissionProofs` about who attends to what
and about one run at a time, with storage failures too. That needs properties that name
what a failed completion may leave behind, and a history of which callbacks failed.
