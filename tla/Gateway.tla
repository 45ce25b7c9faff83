------------------------------- MODULE Gateway -------------------------------
(***************************************************************************)
(* The admission gateway (gateway/server.ts): what handleIntercept does    *)
(* with the prompts of one session, the host it talks to and the plugin    *)
(* behind the RPC.  A prompt is forwarded as it is, forwarded after the    *)
(* session's model and agent were switched (route), or admitted without    *)
(* waking the parent and handed to the plugin (orchestrate).               *)
(*                                                                         *)
(* A call to the host or the plugin is answered, refused, or lost: its     *)
(* reply does not come (timeout, network) and it may have taken effect or  *)
(* not.  Each of those is one action.  A request is a POST of a client; a  *)
(* client that tries again is another request with the same message.       *)
(***************************************************************************)
EXTENDS Integers, Sequences, FiniteSets

CONSTANTS
  Requests,     \* POSTs of /api/session/<id>/prompt
  Messages,     \* prompts: a client's id, or the id the host gives it
  Prompt,       \* what each of them says: a text, and whether it has an internal marker
  Texts,        \* what the rules tell apart in a text
  Rules,        \* config.rules: a sequence of [prefix: SUBSET Texts, mode]
  DefaultMode,  \* config.defaultMode
  Models,       \* models of the free pool
  Agents,       \* agents of the catalog
  MaxRecords,   \* MAX_RECORDS
  MaxActive,    \* bound: requests handled at once
  MaxLost,      \* bound: calls whose reply is lost
  MaxRestarts   \* bound: restarts of the gateway

Modes == {"normal", "route", "orchestrate"}

NoMessage == "no message"
Unknown   == "unknown"

ASSUME GatewayAssumption ==
  /\ Unknown \notin Models
  /\ Prompt \in [Messages -> [text : Texts, marked : BOOLEAN]]
  /\ Rules \in Seq([prefix : SUBSET Texts, mode : Modes])
  /\ DefaultMode \in Modes
  /\ MaxRecords \in Nat \ {0}
  /\ MaxActive \in Nat /\ MaxLost \in Nat /\ MaxRestarts \in Nat

VARIABLES
  role,        \* the role of the session: external or internal
  setting,     \* the session's model and agent, in the host
  inbox,       \* messages the host has: none, waiting (resume:false), awake
  durable,     \* the plugin's record of each message
  binding,     \* the plugin's binding of the session: free, running, awaiting-human
  refused,     \* history: messages the plugin answered without a run or a follow-up
  pc,          \* where the handler of each request is
  msg,         \* the message of each request
  route,       \* a route in progress: what it saw, decided and concluded
  rpc,         \* the RPC of each request: none, sent, or the status answered
  accepted,    \* history: messages whose client was told yes (the shape of an admission)
  records,     \* the gateway's records, oldest first
  dispatched,  \* counters.rpcDispatched
  disturbed,   \* history: requests whose session another route switched meanwhile
  lost,        \* history: calls whose reply was lost
  restarts     \* history: restarts

host    == <<setting, inbox>>
plugin  == <<durable, binding, refused>>
gateway == <<records, dispatched>>
bounds  == <<lost, restarts>>
vars == <<role, host, plugin, pc, msg, route, rpc, accepted, gateway, disturbed, bounds>>

-----------------------------------------------------------------------------
(* Values *)

NoSetting == [model |-> Unknown, agent |-> Unknown]
NoRoute   == [before |-> Unknown, saw |-> NoSetting, model |-> Unknown, agent |-> Unknown,
              outcome |-> "none"]

\* decideAdmissionMode: an internal marker, then the first rule whose prefix fits.
DecideAdmissionMode(m) ==
  LET fits == {i \in DOMAIN Rules : Prompt[m].text \in Rules[i].prefix} IN
  IF Prompt[m].marked THEN "normal"
  ELSE IF fits = {} THEN DefaultMode
  ELSE Rules[CHOOSE i \in fits : \A j \in fits : i <= j].mode

HasRecord(m)   == \E i \in DOMAIN records : records[i].message = m
HasState(m, states) ==
  \E i \in DOMAIN records : records[i].message = m /\ records[i].state \in states

\* Mutant of PutRecord: a full map drops the newest entry, never the new one.
PutRecordUnbounded(m, state) ==
  IF HasRecord(m)
  THEN [i \in DOMAIN records |->
          IF records[i].message = m THEN [message |-> m, state |-> state] ELSE records[i]]
  ELSE Append(records, [message |-> m, state |-> state])

\* putRecord: a known message keeps its place; a new one may push the oldest out.
PutRecord(m, state) ==
  IF HasRecord(m)
  THEN [i \in DOMAIN records |->
          IF records[i].message = m THEN [message |-> m, state |-> state] ELSE records[i]]
  ELSE Append(IF Len(records) >= MaxRecords THEN Tail(records) ELSE records,
              [message |-> m, state |-> state])

Goto(r, step) == pc' = [pc EXCEPT ![r] = step]

\* The client is told something; the handler is over.
Reply(r) == Goto(r, "done") /\ msg' = [msg EXCEPT ![r] = NoMessage]
Refuse(r) == Reply(r) /\ UNCHANGED accepted
Accept(r) == Reply(r) /\ accepted' = accepted \cup {msg[r]}

\* Handlers that end while their RPC may still be on its way.
Abandon(rs) ==
  LET gone == {r \in rs : rpc[r] # "sent"} IN
  /\ pc' = [r \in Requests |-> IF r \in rs THEN "done" ELSE pc[r]]
  /\ msg' = [r \in Requests |-> IF r \in gone THEN NoMessage ELSE msg[r]]
  /\ rpc' = [r \in Requests |-> IF r \in gone THEN "none" ELSE rpc[r]]

LoseReply == lost < MaxLost /\ lost' = lost + 1

-----------------------------------------------------------------------------
Init ==
  /\ role \in {"external", "internal"}
  /\ setting \in [model : Models, agent : Agents]
  /\ inbox = [m \in Messages |-> "none"]
  /\ durable = [m \in Messages |-> "none"]
  /\ binding = "free"
  /\ refused = {}
  /\ pc = [r \in Requests |-> "idle"]
  /\ msg = [r \in Requests |-> NoMessage]
  /\ route = [r \in Requests |-> NoRoute]
  /\ rpc = [r \in Requests |-> "none"]
  /\ accepted = {}
  /\ records = <<>>
  /\ dispatched = 0
  /\ disturbed = {}
  /\ lost = 0
  /\ restarts = 0

-----------------------------------------------------------------------------
(* Arrival: createServer, readBodyLimited, parsePromptPayload *)

\* Where a prompt of a mode starts: both non-normal modes ask for the session's role first.
FirstStep(mode) == CASE mode = "normal" -> "forward"
                     [] mode = "route" -> "route-role"
                     [] mode = "orchestrate" -> "role"

Intercept(r, m) ==
  /\ pc[r] = "idle"
  /\ Cardinality({q \in Requests : pc[q] \notin {"idle", "done"}}) < MaxActive
  /\ Goto(r, FirstStep(DecideAdmissionMode(m)))
  /\ msg' = [msg EXCEPT ![r] = m]
  /\ UNCHANGED <<role, host, plugin, route, rpc, accepted, gateway, disturbed, bounds>>

\* A body too large, malformed or aborted, or a malformed path: nothing goes upstream.
Reject(r) ==
  /\ pc[r] = "idle"
  /\ Refuse(r)
  /\ UNCHANGED <<role, host, plugin, route, rpc, gateway, disturbed, bounds>>

\* proxyRequest with the body read: once, whether it reaches the host or not.
Forward(r) ==
  /\ pc[r] = "forward"
  /\ Refuse(r)
  /\ \/ inbox' = [inbox EXCEPT ![msg[r]] = "awake"]
     \/ UNCHANGED inbox
  /\ route' = [route EXCEPT ![r] = NoRoute]
  /\ disturbed' = disturbed \ {r}
  /\ UNCHANGED <<role, setting, plugin, rpc, gateway, bounds>>

-----------------------------------------------------------------------------
(* Route: decideAndApplyRoute *)

Conclude(r, outcome) ==
  /\ Goto(r, "forward")
  /\ route' = [route EXCEPT ![r].outcome = outcome]

\* The role, from an answer that may leave the session's model out.
ReadRoleForRoute(r) ==
  /\ pc[r] = "route-role"
  /\ role = "external"
  /\ \E before \in {setting.model, Unknown} :
       route' = [route EXCEPT ![r] = [NoRoute EXCEPT !.before = before, !.saw = setting]]
  /\ Goto(r, "decide")
  /\ UNCHANGED <<role, host, plugin, msg, rpc, accepted, gateway, disturbed, bounds>>

\* An internal session, a lookup that fails, a catalog that does not come, a decision
\* outside the pool or the catalogs: nothing was switched.
RouteGivesUp(r) ==
  /\ pc[r] \in {"route-role", "decide"}
  /\ Conclude(r, "fallback")
  /\ UNCHANGED <<role, host, plugin, msg, rpc, accepted, gateway, disturbed, bounds>>

Decide(r) ==
  /\ pc[r] = "decide"
  /\ \E m \in Models, a \in Agents :
       route' = [route EXCEPT ![r].model = m, ![r].agent = a]
  /\ Goto(r, "switch-model")
  /\ UNCHANGED <<role, host, plugin, msg, rpc, accepted, gateway, disturbed, bounds>>

\* Other routes of the session in progress when this one switches it.
OthersRouting(r) == {q \in Requests \ {r} :
                       pc[q] \in {"decide", "switch-model", "switch-agent", "rollback", "forward"}}
Switch(r, s) == setting' = s /\ disturbed' = disturbed \cup OthersRouting(r)
NoSwitch     == UNCHANGED <<setting, disturbed>>

SwitchModel(r) ==
  /\ pc[r] = "switch-model"
  /\ Goto(r, "switch-agent")
  /\ Switch(r, [setting EXCEPT !.model = route[r].model])
  /\ UNCHANGED <<role, inbox, plugin, msg, route, rpc, accepted, gateway, bounds>>

\* Refused, or its reply lost with or without effect.
SwitchModelFails(r) ==
  /\ pc[r] = "switch-model"
  /\ Conclude(r, "fallback")
  /\ \/ NoSwitch /\ UNCHANGED lost
     \/ LoseReply /\ (NoSwitch \/ Switch(r, [setting EXCEPT !.model = route[r].model]))
  /\ UNCHANGED <<role, inbox, plugin, msg, rpc, accepted, gateway, restarts>>

SwitchAgent(r) ==
  /\ pc[r] = "switch-agent"
  /\ Conclude(r, "applied")
  /\ Switch(r, [setting EXCEPT !.agent = route[r].agent])
  /\ UNCHANGED <<role, inbox, plugin, msg, rpc, accepted, gateway, bounds>>

\* Mutant of AfterAgentFails: the fallback of an unchanged model, for a model nobody knows too.
AfterAgentFailsBlind(r) ==
  IF route[r].before \in {route[r].model, Unknown}
  THEN Conclude(r, "fallback")
  ELSE Goto(r, "rollback") /\ UNCHANGED route

\* The catch of switchAgent: an unchanged model needs no rollback, an unknown one has none.
AfterAgentFails(r) ==
  \/ route[r].before = route[r].model /\ Conclude(r, "fallback")
  \/ route[r].before = Unknown /\ Conclude(r, "partial")
  \/ route[r].before \notin {route[r].model, Unknown} /\ Goto(r, "rollback") /\ UNCHANGED route

SwitchAgentFails(r) ==
  /\ pc[r] = "switch-agent"
  /\ AfterAgentFails(r)
  /\ \/ NoSwitch /\ UNCHANGED lost
     \/ LoseReply /\ (NoSwitch \/ Switch(r, [setting EXCEPT !.agent = route[r].agent]))
  /\ UNCHANGED <<role, inbox, plugin, msg, rpc, accepted, gateway, restarts>>

\* The model the role lookup saw comes back: a partial route, rolled back.
Rollback(r) ==
  /\ pc[r] = "rollback"
  /\ Conclude(r, "rolled-back")
  /\ Switch(r, [setting EXCEPT !.model = route[r].before])
  /\ UNCHANGED <<role, inbox, plugin, msg, rpc, accepted, gateway, bounds>>

RollbackFails(r) ==
  /\ pc[r] = "rollback"
  /\ Conclude(r, "partial")
  /\ \/ NoSwitch /\ UNCHANGED lost
     \/ LoseReply /\ (NoSwitch \/ Switch(r, [setting EXCEPT !.model = route[r].before]))
  /\ UNCHANGED <<role, inbox, plugin, msg, rpc, accepted, gateway, restarts>>

-----------------------------------------------------------------------------
(* Orchestrate: the role, the admission in the host, the RPC under the run's lock *)

\* Mutant of ReadRole: a role that cannot be read is taken for a normal prompt.
ReadRoleOrForward(r) ==
  /\ pc[r] = "role"
  /\ \/ role = "external" /\ Goto(r, "admit")
     \/ Goto(r, "forward")
  /\ UNCHANGED <<role, host, plugin, msg, route, rpc, accepted, gateway, disturbed, bounds>>

ReadRole(r) ==
  /\ pc[r] = "role"
  /\ Goto(r, IF role = "internal" THEN "forward" ELSE "admit")
  /\ UNCHANGED <<role, host, plugin, msg, route, rpc, accepted, gateway, disturbed, bounds>>

\* 401 and 403, 404, anything else: the client is told and nothing was admitted.
RoleUnknown(r) ==
  /\ pc[r] = "role"
  /\ Refuse(r)
  /\ UNCHANGED <<role, host, plugin, route, rpc, gateway, disturbed, bounds>>

\* The host keeps an id it knows as it is.
Persist(m) == inbox' = [inbox EXCEPT ![m] = IF @ = "none" THEN "waiting" ELSE @]

\* admitPrompt with an identity in its answer; a record is never set back.
Admit(r) ==
  /\ pc[r] = "admit"
  /\ Persist(msg[r])
  /\ records' = IF HasRecord(msg[r]) THEN records ELSE PutRecord(msg[r], "admitted")
  /\ Goto(r, "lock")
  /\ UNCHANGED <<role, setting, plugin, msg, route, rpc, accepted, dispatched, disturbed, bounds>>

\* Refused by the host (passed on), lost, or accepted without an identity.
AdmitFails(r) ==
  /\ pc[r] = "admit"
  /\ \/ Refuse(r) /\ UNCHANGED <<inbox, lost>>
     \/ Refuse(r) /\ LoseReply /\ (Persist(msg[r]) \/ UNCHANGED inbox)
     \/ Refuse(r) /\ Persist(msg[r]) /\ UNCHANGED lost
  /\ UNCHANGED <<role, setting, plugin, route, rpc, gateway, disturbed, restarts>>

LockFree(m) == \A q \in Requests : pc[q] = "rpc" => msg[q] # m

\* Mutant of Settled: a message that was admitted is thought to be dispatched.
SettledEarly(m) == HasState(m, {"admitted", "started"})

\* Inside the lock: the record says that the message has been dispatched.
Settled(m) == HasState(m, {"started"})

SkipDuplicate(r) ==
  /\ pc[r] = "lock" /\ LockFree(msg[r])
  /\ Settled(msg[r])
  /\ Accept(r)
  /\ UNCHANGED <<role, host, plugin, route, rpc, gateway, disturbed, bounds>>

SendRpc(r) ==
  /\ pc[r] = "lock" /\ LockFree(msg[r])
  /\ ~Settled(msg[r])
  /\ rpc' = [rpc EXCEPT ![r] = "sent"]
  /\ Goto(r, "rpc")
  /\ UNCHANGED <<role, host, plugin, msg, route, accepted, gateway, disturbed, bounds>>

\* Mutant of IsDispatch: a duplicate the plugin ignores counts as a run.
IsDispatchOrDuplicate(status) == status # "followup-attached"

\* Every other status the plugin answers is taken for a dispatch.
IsDispatch(status) == status \notin {"followup-attached", "duplicate-ignored"}

RpcAnswered(r) ==
  /\ pc[r] = "rpc"
  /\ rpc[r] \notin {"sent", "error"}
  /\ IF IsDispatch(rpc[r])
     THEN records' = PutRecord(msg[r], "started") /\ dispatched' = dispatched + 1
     ELSE UNCHANGED gateway
  /\ Accept(r)
  /\ rpc' = [rpc EXCEPT ![r] = "none"]
  /\ UNCHANGED <<role, host, plugin, route, disturbed, bounds>>

\* An error, or no answer in rpcTimeoutMs: the plugin may still be at it.
RpcFails(r) ==
  /\ pc[r] = "rpc"
  /\ \/ rpc[r] = "error" /\ UNCHANGED lost
     \/ rpc[r] # "error" /\ LoseReply
  /\ records' = PutRecord(msg[r], "failed")
  /\ Abandon({r})
  /\ UNCHANGED <<role, host, plugin, route, accepted, dispatched, disturbed, restarts>>

-----------------------------------------------------------------------------
(* The plugin: what the handler of admission-rpc.ts does with an RPC, in one step *)

\* The status reaches a handler that still waits for it.
Handle(r, status) ==
  /\ rpc' = [rpc EXCEPT ![r] = IF pc[r] = "rpc" THEN status ELSE "none"]
  /\ msg' = [msg EXCEPT ![r] = IF pc[r] = "rpc" THEN @ ELSE NoMessage]
Fresh(m) == durable[m] \in {"none", "binding-failed"}

\* A session that waits for a human, or a run with no room for a follow-up.
PluginRefuses(r) ==
  /\ rpc[r] = "sent"
  /\ binding = "awaiting-human" \/ (binding = "running" /\ Fresh(msg[r]))
  /\ Handle(r, "refused")
  /\ refused' = refused \cup {msg[r]}
  /\ UNCHANGED <<role, host, durable, binding, pc, route, accepted, gateway, disturbed, bounds>>

PluginAttaches(r) ==
  /\ rpc[r] = "sent"
  /\ binding = "running" /\ Fresh(msg[r])
  /\ Handle(r, "followup-attached")
  /\ durable' = [durable EXCEPT ![msg[r]] = "followup-attached"]
  /\ UNCHANGED <<role, host, binding, refused, pc, route, accepted, gateway, disturbed, bounds>>

PluginIgnores(r) ==
  /\ rpc[r] = "sent"
  /\ binding # "awaiting-human" /\ ~Fresh(msg[r])
  /\ Handle(r, "duplicate-ignored")
  /\ UNCHANGED <<role, host, plugin, pc, route, accepted, gateway, disturbed, bounds>>

PluginStarts(r) ==
  /\ rpc[r] = "sent"
  /\ binding = "free" /\ Fresh(msg[r])
  /\ Handle(r, "started")
  /\ durable' = [durable EXCEPT ![msg[r]] = "started"]
  /\ binding' = "running"
  /\ UNCHANGED <<role, host, refused, pc, route, accepted, gateway, disturbed, bounds>>

\* Storage fails before a run starts: an error, and a record that may be tried again.
PluginFails(r) ==
  /\ rpc[r] = "sent"
  /\ Fresh(msg[r])
  /\ Handle(r, "error")
  /\ \/ durable' = [durable EXCEPT ![msg[r]] = "binding-failed"]
     \/ UNCHANGED durable
  /\ UNCHANGED <<role, host, binding, refused, pc, route, accepted, gateway, disturbed, bounds>>

\* The run ends and frees the session, or stops for a human.
RunEnds ==
  /\ binding = "running"
  /\ binding' \in {"free", "awaiting-human"}
  /\ UNCHANGED <<role, host, durable, refused, pc, msg, route, rpc, accepted, gateway, disturbed,
                 bounds>>

-----------------------------------------------------------------------------
(* The gateway's process dies: its memory and its connections are gone. *)
Restart ==
  /\ restarts < MaxRestarts
  /\ restarts' = restarts + 1
  /\ records' = <<>>
  /\ dispatched' = 0
  /\ Abandon({r \in Requests : pc[r] # "idle"})
  /\ route' = [r \in Requests |-> NoRoute]
  /\ disturbed' = {}
  /\ UNCHANGED <<role, host, plugin, accepted, lost>>

Serve(r) ==
  \/ Forward(r)
  \/ ReadRoleForRoute(r) \/ RouteGivesUp(r) \/ Decide(r)
  \/ SwitchModel(r) \/ SwitchModelFails(r)
  \/ SwitchAgent(r) \/ SwitchAgentFails(r)
  \/ Rollback(r) \/ RollbackFails(r)
  \/ ReadRole(r) \/ RoleUnknown(r)
  \/ Admit(r) \/ AdmitFails(r)
  \/ SkipDuplicate(r) \/ SendRpc(r)
  \/ RpcAnswered(r) \/ RpcFails(r)

Plugin(r) ==
  \/ PluginRefuses(r) \/ PluginAttaches(r) \/ PluginIgnores(r)
  \/ PluginStarts(r) \/ PluginFails(r)

Next ==
  \/ \E r \in Requests :
       \/ \E m \in Messages : Intercept(r, m)
       \/ Reject(r)
       \/ Serve(r)
       \/ Plugin(r)
  \/ RunEnds
  \/ Restart

Spec == Init /\ [][Next]_vars

-----------------------------------------------------------------------------
(* Properties *)

\* Types, and the bound of the map of records (MAX_RECORDS, putRecord).
TypeOK ==
  /\ role \in {"external", "internal"}
  /\ setting \in [model : Models, agent : Agents]
  /\ inbox \in [Messages -> {"none", "waiting", "awake"}]
  /\ durable \in [Messages -> {"none", "binding-failed", "started", "followup-attached"}]
  /\ binding \in {"free", "running", "awaiting-human"}
  /\ refused \subseteq Messages
  /\ rpc \in [Requests -> {"none", "sent", "error", "refused", "started",
                           "followup-attached", "duplicate-ignored"}]
  /\ records \in Seq([message : Messages, state : {"admitted", "started", "failed"}])
  /\ Len(records) <= MaxRecords
  /\ \A i, j \in DOMAIN records : records[i].message = records[j].message => i = j
  /\ dispatched \in Nat

\* A message meant for orchestration never wakes the parent, whatever fails and however
\* often its client tries again ("NUNCA PATCH/wake, NUNCA re-encaminhar").
ParentIsNotWoken ==
  \A m \in Messages :
    role = "external" /\ DecideAdmissionMode(m) = "orchestrate" => inbox[m] # "awake"

\* A client that was told yes has its message in the host, and the plugin has a run or a
\* follow-up for it or has refused it: through retries, evictions, restarts of the gateway
\* and RPCs whose reply came too late.
OkIsTaken ==
  \A m \in accepted :
    inbox[m] # "none" /\ (durable[m] \in {"started", "followup-attached"} \/ m \in refused)

Runs == {m \in Messages : durable[m] = "started"}

\* The counter of dispatches never exceeds the runs the plugin has started, as long as it
\* refuses nothing.
DispatchedIsARun == refused = {} => dispatched <= Cardinality(Runs)

\* When a prompt is forwarded after a route nobody disturbed and no reply was lost, the
\* session has what was reported: both switches, none, or the model alone if the model
\* could not be brought back ("parcial NAO-silencioso").
RouteIsHonest ==
  \A r \in Requests :
    pc[r] = "forward" /\ r \notin disturbed /\ lost = 0 /\ route[r].saw # NoSetting =>
      LET decided == [model |-> route[r].model, agent |-> route[r].agent] IN
      CASE route[r].outcome = "applied" -> setting = decided
        [] route[r].outcome \in {"fallback", "rolled-back"} -> setting = route[r].saw
        [] route[r].outcome = "partial" -> setting = [route[r].saw EXCEPT !.model = decided.model]

=============================================================================
