------------------------------- MODULE Routing -------------------------------
(***************************************************************************)
(* The hooks that change the executor of one session of a user             *)
(* (hooks.ts, with the switches of plugin-runtime.ts and the decisions of  *)
(* router.ts): the prompt hook routes an admitted prompt, the retry hook   *)
(* moves to another model when a provider fails, and the tool hook may     *)
(* switch after errors of a tool.  Each awaits the judge, the host and     *)
(* storage, and another hook may run meanwhile.                            *)
(*                                                                         *)
(* What the judge answers is any answer the validation lets through; when  *)
(* it does not answer, the deterministic choices of router.ts are among    *)
(* them.  The policy of ResourceGovernor is a retry that is denied here,   *)
(* and a denied retry changes nothing.                                     *)
(*                                                                         *)
(* A read of the session or of a record that fails is swallowed, and the   *)
(* hook goes on with what is left.                                         *)
(***************************************************************************)
EXTENDS Integers, Sequences, FiniteSets

CONSTANTS
  Models,        \* models a session may be on
  Free,          \* FREE_POOL
  Lanes,         \* RouteKind
  Chain,         \* FALLBACK_CHAIN: the models of each lane, in their order
  DefaultLane,   \* fast-coding
  Agents,        \* ctx.agent.list()
  DefaultAgent,  \* build
  Named,         \* the name buildSnapshot has for a model: its id, as a model of opencode
  TriedLimit,    \* models the record of a retry keeps
  MaxHooks,      \* bound: hooks called
  MaxHookFaults  \* bound: calls to the host or to storage that fail

ASSUME RoutingAssumption ==
  /\ DefaultLane \in Lanes /\ DefaultAgent \in Agents
  /\ "none" \notin Models
  /\ Chain \in [Lanes -> Seq(Free)]
  /\ MaxHooks \in Nat /\ MaxHookFaults \in Nat
  /\ Free \subseteq Models
  /\ Named \in [Models -> Models]
  /\ TriedLimit \in Nat \ {0}

VARIABLES
  setting,     \* the session's model and agent, in the host
  routeRecord, \* route/<session>
  triedRecord, \* retry/<session>: models already tried, in order
  job,         \* what each hook is doing
  cooling,     \* cooldowns in force: "decision" of a signature, "switch" of a session
  recovery,    \* pending-recovery/<session>
  granted,     \* history: models a retry was granted with, in order
  forgotten,   \* history: how many of them a record that could not be read, or was full, lost
  strayed,     \* history: a fault, a user or an overlap parted the record from the host
  misread,     \* history: what the route last recorded of the host was a guess
  hookCount, hookFaults

routingRecords == <<routeRecord, triedRecord>>
toolRecords    == <<cooling, recovery>>
grants         == <<granted, forgotten>>
parted         == <<strayed, misread>>
routingVars == <<setting, routingRecords, job, toolRecords, grants, parted, hookCount,
                 hookFaults>>

-----------------------------------------------------------------------------

Hooks   == {"prompt", "retry", "tool"}
NoModel == "none"
NoRoute == [lane |-> "none", model |-> NoModel, agent |-> "none"]
NoJob   == [step |-> "idle", lane |-> "none", model |-> NoModel, agent |-> "none",
            before |-> NoModel, tried |-> <<>>, from |-> "host", alone |-> TRUE]

In(sequence)      == {sequence[i] : i \in DOMAIN sequence}
ChainModels(lane) == In(Chain[lane])

Fails == hookFaults < MaxHookFaults /\ hookFaults' = hookFaults + 1

\* What buildSnapshot makes of the session: what the host says of it, or the route it finds
\* stored when the host does not answer (which without a route is unknown), or unknown.
HostSight   == [model |-> Named[setting.model], agent |-> setting.agent, from |-> "host"]
RecordSight == [model |-> routeRecord.model, agent |-> routeRecord.agent, from |-> "record"]
NoSight     == [model |-> NoModel, agent |-> "none", from |-> "guess"]

\* What a hook has read when it begins: the stored route, the session and the models tried.
\* A fault may take any of the reads, and none of them stops the hook.
Reads(stored, sight, tried) ==
  \/ /\ stored = routeRecord /\ sight = HostSight /\ tried = triedRecord
     /\ UNCHANGED hookFaults
  \/ /\ stored \in {routeRecord, NoRoute}
     /\ sight \in {HostSight, RecordSight, NoSight}
     /\ tried \in {triedRecord, <<>>}
     /\ Fails

LaneOf(stored) == IF stored = NoRoute THEN DefaultLane ELSE stored.lane

\* The agent a hook takes the session to have.
AgentOf(stored, seen) ==
  IF stored # NoRoute THEN stored.agent ELSE IF seen = "none" THEN DefaultAgent ELSE seen

\* A hook begins with what it has read; those it finds at work are no longer alone.
Begins(h, work) ==
  /\ job[h].step = "idle"
  /\ hookCount < MaxHooks /\ hookCount' = hookCount + 1
  /\ job' = [g \in Hooks |->
       IF g = h
         THEN [work EXCEPT !.alone = \A other \in Hooks \ {h} : job[other].step = "idle"]
         ELSE [job[g] EXCEPT !.alone = @ /\ job[g].step = "idle"]]

At(h, step)   == job[h].step = step
Goes(h, step) == job' = [job EXCEPT ![h].step = step]
Ends(h)       == job' = [job EXCEPT ![h] = NoJob]

RoutingInit ==
  /\ setting \in [model : Models, agent : Agents]
  /\ routeRecord = NoRoute /\ triedRecord = <<>>
  /\ job = [h \in Hooks |-> NoJob]
  /\ cooling = {} /\ recovery = FALSE
  /\ granted = <<>> /\ forgotten = 0 /\ strayed = FALSE /\ misread = FALSE
  /\ hookCount = 0 /\ hookFaults = 0

-----------------------------------------------------------------------------
(* Switching, as switchExecutor and the retry hook do it *)

\* What switchExecutor reads of the session's model, to go back to; nothing if it cannot.
BeforeSwitch == {setting.model} \cup IF hookFaults < MaxHookFaults THEN {NoModel} ELSE {}

SwitchesModel(h) ==
  /\ At(h, "model")
  /\ setting' = [setting EXCEPT !.model = job[h].model]
  /\ Goes(h, IF h = "retry" THEN "record" ELSE "agent")
  /\ UNCHANGED <<routingRecords, toolRecords, grants, parted, hookCount, hookFaults>>

ModelFails(h) ==
  /\ At(h, "model") /\ Fails
  /\ Ends(h)
  /\ UNCHANGED <<setting, routingRecords, toolRecords, grants, parted, hookCount>>

SwitchesAgent(h) ==
  /\ At(h, "agent")
  /\ setting' = [setting EXCEPT !.agent = job[h].agent]
  /\ Goes(h, "record")
  /\ UNCHANGED <<routingRecords, toolRecords, grants, parted, hookCount, hookFaults>>

\* Mutant of AfterAgent: the failure of the agent goes unnoticed
AfterAgentIgnored(h) == "record"

\* The model goes back to what it was, if that is known and another one.  A switch of the
\* agent alone has no model to take back.
AfterAgent(h) ==
  IF job[h].before \in {NoModel, job[h].model} THEN "idle" ELSE "undo"

AgentFails(h) ==
  /\ At(h, "agent") /\ Fails
  /\ IF AfterAgent(h) = "idle" THEN Ends(h) ELSE Goes(h, AfterAgent(h))
  /\ strayed' = (strayed \/ job[h].before = NoModel \/ ~job[h].alone)
  /\ UNCHANGED <<setting, routingRecords, toolRecords, grants, misread, hookCount>>

Undoes(h) ==
  /\ At(h, "undo")
  /\ setting' = [setting EXCEPT !.model = job[h].before]
  /\ strayed' = (strayed \/ ~job[h].alone)
  /\ Ends(h)
  /\ UNCHANGED <<routingRecords, toolRecords, grants, misread, hookCount, hookFaults>>

UndoFails(h) ==
  /\ At(h, "undo") /\ Fails
  /\ strayed' = TRUE
  /\ Ends(h)
  /\ UNCHANGED <<setting, routingRecords, toolRecords, grants, misread, hookCount>>

\* The route is recorded once the switch is done.  The tool hook starts its cooldown, unless
\* that write fails; the retry hook has the models it tried still to record.
Records(h) ==
  /\ At(h, "record")
  /\ routeRecord' = [lane |-> job[h].lane, model |-> job[h].model, agent |-> job[h].agent]
  /\ strayed' = (~job[h].alone \/ (strayed /\ job[h].from = "record"))
  /\ misread' = (job[h].from = "guess" \/ (misread /\ job[h].from = "record"))
  /\ \/ cooling' = (IF h = "tool" THEN cooling \cup {"switch"} ELSE cooling)
        /\ UNCHANGED hookFaults
     \/ h = "tool" /\ Fails /\ UNCHANGED cooling
  /\ IF h = "retry" THEN Goes(h, "tried") ELSE Ends(h)
  /\ UNCHANGED <<setting, triedRecord, recovery, grants, hookCount>>

RecordFails(h) ==
  /\ At(h, "record") /\ Fails
  /\ strayed' = TRUE
  /\ Ends(h)
  /\ UNCHANGED <<setting, routingRecords, toolRecords, grants, misread, hookCount>>

-----------------------------------------------------------------------------
(* A provider fails: the retry hook *)

\* The model that failed is the one the session is on.  The retry keeps the session's agent,
\* and the lane of the stored route, which the snapshot reads once more.
RetryCalled ==
  \E stored \in {routeRecord, NoRoute}, sight \in {HostSight, RecordSight, NoSight},
     tried \in {triedRecord, <<>>} : \E lane \in {LaneOf(stored), LaneOf(routeRecord)} :
    /\ Reads(stored, sight, tried)
    /\ Begins("retry",
         [NoJob EXCEPT !.step = "deciding", !.lane = lane,
            !.agent = AgentOf(stored, sight.agent), !.before = setting.model,
            !.tried = IF setting.model \in In(tried) THEN tried ELSE Append(tried, setting.model),
            !.from = IF stored # NoRoute THEN "record"
                     ELSE IF sight.agent = "none" THEN "guess" ELSE sight.from])
    /\ forgotten' = IF tried = triedRecord THEN forgotten ELSE Len(granted)
    /\ UNCHANGED <<setting, routingRecords, toolRecords, granted, parted>>

\* Mutant of Candidates: a model of the lane that is available, tried or not
CandidatesOfLane(h) == ChainModels(job[h].lane) \ {job[h].before}

\* decideEscalation offers them, and the first available one is looked for among them.
Candidates(h) == ChainModels(job[h].lane) \ (In(job[h].tried) \cup {job[h].before})

RetryChooses ==
  /\ At("retry", "deciding")
  /\ \E model \in Candidates("retry") :
       job' = [job EXCEPT !["retry"].model = model, !["retry"].step = "model"]
  /\ UNCHANGED <<setting, routingRecords, toolRecords, grants, parted, hookCount, hookFaults>>

\* The policy denies it after the judge was asked.
RetryDenied ==
  /\ At("retry", "deciding")
  /\ Ends("retry")
  /\ UNCHANGED <<setting, routingRecords, toolRecords, grants, parted, hookCount, hookFaults>>

\* No candidate is left, or none is in the catalog.
RetryStops ==
  /\ At("retry", "deciding")
  /\ \/ triedRecord' = job["retry"].tried /\ UNCHANGED hookFaults
     \/ Fails /\ UNCHANGED triedRecord
  /\ Ends("retry")
  /\ UNCHANGED <<setting, routeRecord, toolRecords, grants, parted, hookCount>>

LastOf(list) ==
  IF Len(list) <= TriedLimit THEN list ELSE SubSeq(list, Len(list) - TriedLimit + 1, Len(list))

NowTried == LastOf(Append(job["retry"].tried, job["retry"].model))

\* The last of the models tried are kept, and one of those granted may be dropped.
WritesTried ==
  /\ triedRecord' = NowTried
  /\ forgotten' = IF /\ Len(job["retry"].tried) >= TriedLimit
                     /\ \E i \in DOMAIN granted : i > forgotten /\ granted[i] \notin In(NowTried)
                  THEN Len(granted) ELSE forgotten

\* The retry is granted when everything about it is in storage.
RetryGranted ==
  /\ At("retry", "tried")
  /\ WritesTried
  /\ granted' = Append(granted, job["retry"].model)
  /\ Ends("retry")
  /\ UNCHANGED <<setting, routeRecord, toolRecords, parted, hookCount, hookFaults>>

\* The models tried, or the decision after them, cannot be written: no retry.
RetryUnwritten ==
  /\ At("retry", "tried") /\ Fails
  /\ WritesTried \/ UNCHANGED <<triedRecord, forgotten>>
  /\ Ends("retry")
  /\ UNCHANGED <<setting, routeRecord, toolRecords, granted, parted, hookCount>>

-----------------------------------------------------------------------------
(* A prompt is admitted: the prompt hook *)

\* A session of the control plane, an empty prompt and a trivial continuation of a routed
\* session change nothing and are left out.
PromptCalled ==
  /\ \E stored \in {routeRecord, NoRoute} :
       /\ IF stored = routeRecord THEN UNCHANGED hookFaults ELSE Fails
       /\ Begins("prompt", [NoJob EXCEPT !.step = "deciding", !.lane = stored.lane,
                              !.model = stored.model, !.agent = stored.agent])
  /\ UNCHANGED <<setting, routingRecords, toolRecords, grants, parted>>

\* What it decides is what the record said: nothing is switched.
PromptSame ==
  /\ At("prompt", "deciding") /\ job["prompt"].lane # "none"
  /\ Ends("prompt")
  /\ UNCHANGED <<setting, routingRecords, toolRecords, grants, parted, hookCount, hookFaults>>

\* switchExecutor takes the first available model of the lane for one that is not, and build
\* for an agent the runtime does not list.  Without an available one the hook only says so.
PromptSwitches ==
  /\ At("prompt", "deciding")
  /\ \E lane \in Lanes, chosen \in Free, agent \in Agents, before \in BeforeSwitch :
     \E model \in {chosen} \cup ChainModels(lane) :
       /\ [lane |-> lane, model |-> chosen, agent |-> agent] #
            [lane |-> job["prompt"].lane, model |-> job["prompt"].model,
             agent |-> job["prompt"].agent]
       /\ job' = [job EXCEPT !["prompt"] =
            [@ EXCEPT !.step = "model", !.lane = lane, !.model = model, !.agent = agent,
               !.before = before]]
       /\ hookFaults' = IF before = NoModel THEN hookFaults + 1 ELSE hookFaults
  /\ UNCHANGED <<setting, routingRecords, toolRecords, grants, parted, hookCount>>

PromptUnrouted ==
  /\ At("prompt", "deciding")
  /\ Ends("prompt")
  /\ UNCHANGED <<setting, routingRecords, toolRecords, grants, parted, hookCount, hookFaults>>

-----------------------------------------------------------------------------
(* A tool fails: the tool hook *)

\* Repeated, or beyond repair: the judge is asked, once per cooldown of the signature, and
\* told what buildSnapshot makes of the session.  How often a tool failed is left out: an
\* error beyond repair is asked about at the first.
ToolAsks ==
  /\ \E sight \in {HostSight, RecordSight, NoSight}, tried \in {triedRecord, <<>>} :
       /\ Reads(routeRecord, sight, tried)
       /\ Begins("tool", [NoJob EXCEPT !.step = "deciding", !.before = sight.model,
            !.agent = sight.agent, !.tried = tried,
            !.from = IF sight = HostSight /\ sight.model # setting.model THEN "guess"
                     ELSE sight.from])
  /\ "decision" \notin cooling \/ hookFaults' # hookFaults   \* or its read failed
  /\ cooling' = cooling \cup {"decision"}
  /\ UNCHANGED <<setting, routingRecords, recovery, grants, parted>>

\* The stored route and the cooldown of switches are read once the judge has answered.
ToolReads(stored) ==
  /\ At("tool", "deciding")
  /\ \/ "switch" \notin cooling /\ stored = routeRecord /\ UNCHANGED hookFaults
     \/ ("switch" \in cooling \/ stored # routeRecord) /\ Fails
  /\ UNCHANGED <<setting, routingRecords, toolRecords, grants, parted, hookCount>>

\* The model the tool hook takes the session to have.
ModelOf(stored) == IF job["tool"].before = NoModel THEN stored.model ELSE job["tool"].before

\* switch-model: the judge is asked again, for a model of the lane.
ToolChoosesModel ==
  \E stored \in {routeRecord, NoRoute} :
    /\ ToolReads(stored)
    /\ job' = [job EXCEPT !["tool"] =
         [job["tool"] EXCEPT !.step = "choosing", !.lane = LaneOf(stored),
            !.before = ModelOf(stored), !.agent = AgentOf(stored, job["tool"].agent),
            !.from = "host"]]

ToolSwitchesModel ==
  /\ At("tool", "choosing")
  /\ \E model \in Candidates("tool"), agent \in {job["tool"].agent, DefaultAgent},
        before \in BeforeSwitch :
       /\ job' = [job EXCEPT !["tool"].model = model, !["tool"].agent = agent,
                             !["tool"].before = before, !["tool"].step = "model"]
       /\ hookFaults' = IF before = NoModel THEN hookFaults + 1 ELSE hookFaults
  /\ UNCHANGED <<setting, routingRecords, toolRecords, grants, parted, hookCount>>

AgentSeen(stored) ==
  IF job["tool"].agent = "none" THEN AgentOf(stored, "none") ELSE job["tool"].agent

\* switch-agent: another agent than the snapshot's, and the snapshot's model is what will be
\* recorded.  It must be in the catalog, where its id is enough.
ToolSwitchesAgent ==
  \E stored \in {routeRecord, NoRoute} :
    /\ ToolReads(stored)
    /\ ModelOf(stored) # NoModel
    /\ \E agent \in Agents \ {AgentSeen(stored)} :
         job' = [job EXCEPT !["tool"] =
           [job["tool"] EXCEPT !.step = "agent", !.lane = LaneOf(stored),
              !.model = ModelOf(stored), !.agent = agent, !.before = ModelOf(stored),
              !.from = IF job["tool"].before = NoModel THEN "record" ELSE job["tool"].from]]

\* Anything else the judge recommends is left for the next context; or it said nothing, or
\* what it said cannot be done: a cooldown, no other agent, no model to keep or to move to.
ToolAdvises ==
  /\ job["tool"].step \in {"deciding", "choosing"}
  /\ recovery' \in {recovery} \cup {At("tool", "deciding")}
  /\ Ends("tool")
  /\ UNCHANGED <<setting, routingRecords, cooling, grants, parted, hookCount,
                 hookFaults>>

\* injectPendingRecovery: delivered, then removed; a removal that fails leaves it there.
ContextBuilt ==
  /\ recovery
  /\ \/ recovery' = FALSE /\ UNCHANGED hookFaults
     \/ Fails /\ UNCHANGED recovery
  /\ UNCHANGED <<setting, routingRecords, job, cooling, grants, parted,
                 hookCount>>

\* TOOL_DECIDE_COOLDOWN_MS, SWITCH_COOLDOWN_MS.
Expires ==
  /\ \E what \in cooling : cooling' = cooling \ {what}
  /\ UNCHANGED <<setting, routingRecords, job, recovery, grants, parted, hookCount,
                 hookFaults>>

-----------------------------------------------------------------------------

\* The user picks a model or an agent.
UserChooses ==
  /\ hookCount < MaxHooks /\ hookCount' = hookCount + 1
  /\ setting' \in [model : Models, agent : Agents] \ {setting}
  /\ strayed' = TRUE
  /\ job' = [h \in Hooks |-> [job[h] EXCEPT !.alone = @ /\ job[h].step = "idle"]]
  /\ UNCHANGED <<routingRecords, toolRecords, grants, misread, hookFaults>>

RoutingNext ==
  \/ \E h \in Hooks :
       \/ SwitchesModel(h) \/ ModelFails(h) \/ SwitchesAgent(h) \/ AgentFails(h)
       \/ Undoes(h) \/ UndoFails(h) \/ Records(h) \/ RecordFails(h)
  \/ RetryCalled \/ RetryChooses \/ RetryDenied \/ RetryStops \/ RetryGranted \/ RetryUnwritten
  \/ PromptCalled \/ PromptSame \/ PromptSwitches \/ PromptUnrouted
  \/ ToolAsks \/ ToolChoosesModel \/ ToolSwitchesModel
  \/ ToolSwitchesAgent \/ ToolAdvises
  \/ ContextBuilt \/ Expires \/ UserChooses

RoutingSpec == RoutingInit /\ [][RoutingNext]_routingVars

-----------------------------------------------------------------------------
(* Properties *)

RoutingTypeOK ==
  /\ setting \in [model : Models, agent : Agents]
  /\ routeRecord \in [lane : Lanes, model : Models, agent : Agents] \cup {NoRoute}
  /\ triedRecord \in Seq(Models)
  /\ job \in [Hooks -> [step : {"idle", "deciding", "choosing", "model", "agent", "undo",
                               "record", "tried"},
                        lane : Lanes \cup {"none"}, model : Models \cup {NoModel},
                        agent : Agents \cup {"none"}, before : Models \cup {NoModel},
                        tried : Seq(Models), from : {"host", "record", "guess"},
                        alone : BOOLEAN]]
  /\ cooling \subseteq {"decision", "switch"}
  /\ recovery \in BOOLEAN /\ strayed \in BOOLEAN /\ misread \in BOOLEAN
  /\ granted \in Seq(Free) /\ forgotten \in 0..Len(granted)
  /\ hookCount \in 0..MaxHooks /\ hookFaults \in 0..MaxHookFaults

\* A session is granted a retry with each model at most once, whatever its prompts, its tools
\* and its user switch it to in between, and whichever writes fail: the chain ends
\* (hooks.ts:329 "evita repetir modelos ja tentados (sem loop)", hooks.ts:402).  It
\* begins again only when the models tried could not be read, or were too many to be kept.
EachModelGrantedOnce ==
  \A i, j \in DOMAIN granted :
    i > forgotten /\ j > forgotten /\ granted[i] = granted[j] => i = j

\* Between hooks the recorded route is what the session runs on.
RecordTrue ==
  (\A h \in Hooks : job[h].step = "idle") /\ routeRecord # NoRoute =>
    routeRecord.model = setting.model /\ routeRecord.agent = setting.agent

\* The recorded route is what the session runs on, after any switch that succeeded or was
\* taken back; it may differ after a fault in the middle of a switch that could not be taken
\* back, a choice of the user, or hooks that overlapped (plugin-runtime.ts:319-324), and after
\* a switch that recorded what it could not read of the host (snapshot.ts:47-64).
RouteIsTrue == ~strayed /\ ~misread => RecordTrue
=============================================================================
