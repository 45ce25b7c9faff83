---------------------------- MODULE GatewayProofs ----------------------------
(***************************************************************************)
(* What the gateway promises, for every set of requests, messages, models  *)
(* and rules, every bound of the map of records and any number of lost     *)
(* replies and restarts: a message meant for orchestration never wakes the *)
(* parent, a client that was told yes has its message taken, a route       *)
(* leaves the session as reported, and dispatches are runs.  The argument  *)
(* is what each place of a handler says of its message (PlaceSound) and of *)
(* the session it switches (RouteSound), and that a record of a dispatch   *)
(* is only written once the plugin has the message.                        *)
(***************************************************************************)
EXTENDS Gateway, FiniteSetTheorems, WellFoundedInduction, TLAPS

Idle     == {"idle", "done"}
Routing  == {"route-role", "decide", "switch-model", "switch-agent", "rollback"}
Admitted == {"lock", "rpc"}
Places   == Idle \cup Routing \cup Admitted \cup {"forward", "role", "admit"}

Statuses == {"none", "sent", "error", "refused", "started", "followup-attached",
             "duplicate-ignored"}
Record   == [message : Messages, state : {"admitted", "started", "failed"}]

Taken(m) == durable[m] \in {"started", "followup-attached"} \/ m \in refused

\* What the place of a request says of its message.
PlaceSound(r) ==
  /\ pc[r] \notin Idle => msg[r] \in Messages
  /\ pc[r] \in Routing => DecideAdmissionMode(msg[r]) # "orchestrate"
  /\ pc[r] = "forward" => role = "internal" \/ DecideAdmissionMode(msg[r]) # "orchestrate"
  /\ pc[r] \in Admitted => inbox[msg[r]] # "none"

\* What the place of its RPC says of it.
RpcSound(r) ==
  /\ rpc[r] = "sent" => msg[r] \in Messages /\ pc[r] \in {"rpc", "done"}
  /\ pc[r] = "rpc" => rpc[r] # "none"
  /\ pc[r] = "rpc" /\ rpc[r] \notin {"sent", "error", "none"} => Taken(msg[r])

RecordSound(record) ==
  inbox[record.message] # "none" /\ (record.state = "started" => Taken(record.message))

TypeInv ==
  /\ role \in {"external", "internal"}
  /\ inbox \in [Messages -> {"none", "waiting", "awake"}]
  /\ durable \in [Messages -> {"none", "binding-failed", "started", "followup-attached"}]
  /\ refused \subseteq Messages /\ accepted \subseteq Messages
  /\ pc \in [Requests -> Places]
  /\ msg \in [Requests -> Messages \cup {NoMessage}]
  /\ rpc \in [Requests -> Statuses]
  /\ records \in Seq(Record)

IInv ==
  /\ TypeInv
  /\ \A r \in Requests : PlaceSound(r) /\ RpcSound(r)
  /\ \A i \in DOMAIN records : RecordSound(records[i])
  /\ ParentIsNotWoken /\ OkIsTaken

-----------------------------------------------------------------------------

\* Recording a message adds one entry and forgets at most one.
LEMMA PutRecordProperties ==
  ASSUME records \in Seq(Record), NEW m \in Messages, NEW state \in {"admitted", "started", "failed"}
  PROVE  /\ PutRecord(m, state) \in Seq(Record)
         /\ \A i \in DOMAIN PutRecord(m, state) :
              \/ PutRecord(m, state)[i] = [message |-> m, state |-> state]
              \/ \E j \in DOMAIN records : PutRecord(m, state)[i] = records[j]
<1> DEFINE new == [message |-> m, state |-> state]
<1>1. new \in Record
  BY DEF Record
<1>2. CASE HasRecord(m)
  <2> DEFINE put == [i \in DOMAIN records |-> IF records[i].message = m THEN new ELSE records[i]]
  <2>1. PutRecord(m, state) = put
    BY <1>2 DEF PutRecord
  <2>2. Len(records) \in Nat /\ DOMAIN records = 1..Len(records)
    OBVIOUS
  <2>3. \A i \in 1..Len(records) : put[i] \in Record
    BY <1>1, <2>2
  <2>4. put \in Seq(Record)
    BY <2>2, <2>3
  <2> QED BY <2>1, <2>4
<1>3. CASE ~HasRecord(m)
  <2> DEFINE kept == IF Len(records) >= MaxRecords THEN Tail(records) ELSE records
  <2>1. kept \in Seq(Record) /\ \A i \in DOMAIN kept : \E j \in DOMAIN records : kept[i] = records[j]
    <3>1. CASE Len(records) >= MaxRecords
      <4>1. records # <<>> /\ Len(records) \in Nat /\ Len(records) > 0
        BY <3>1, GatewayAssumption
      <4>2. /\ Tail(records) \in Seq(Record) /\ Len(Tail(records)) = Len(records) - 1
            /\ \A i \in 1..Len(Tail(records)) : Tail(records)[i] = records[i + 1]
        BY <4>1
      <4> QED BY <3>1, <4>1, <4>2
    <3>2. CASE ~(Len(records) >= MaxRecords)
      BY <3>2
    <3> QED BY <3>1, <3>2
  <2>2. PutRecord(m, state) = Append(kept, new)
    BY <1>3 DEF PutRecord
  <2> HIDE DEF kept, new
  <2>3. /\ Append(kept, new) \in Seq(Record)
        /\ \A i \in DOMAIN Append(kept, new) :
             Append(kept, new)[i] = new \/ (i \in DOMAIN kept /\ Append(kept, new)[i] = kept[i])
    BY <1>1, <2>1
  <2>4. PutRecord(m, state) \in Seq(Record)
    BY <2>2, <2>3
  <2>5. ASSUME NEW i \in DOMAIN PutRecord(m, state)
        PROVE  PutRecord(m, state)[i] = new \/ \E j \in DOMAIN records : PutRecord(m, state)[i] = records[j]
    BY <2>1, <2>2, <2>3
  <2> QED BY <2>4, <2>5 DEF new
<1> QED BY <1>2, <1>3

\* Every prompt has a mode: of the rules that fit there is a first one.
LEMMA ModeIsAMode == \A m \in Messages : DecideAdmissionMode(m) \in Modes
<1> SUFFICES ASSUME NEW m \in Messages PROVE DecideAdmissionMode(m) \in Modes
  OBVIOUS
<1> DEFINE fits == {i \in DOMAIN Rules : Prompt[m].text \in Rules[i].prefix}
           first == CHOOSE i \in fits : \A j \in fits : i <= j
<1>1. DOMAIN Rules \subseteq Nat /\ \A i \in DOMAIN Rules : Rules[i].mode \in Modes
  <2> DEFINE Rule == [prefix : SUBSET Texts, mode : Modes]
  <2>1. Rules \in Seq(Rule)
    BY GatewayAssumption
  <2>2. \A rule \in Rule : rule.mode \in Modes
    OBVIOUS
  <2> HIDE DEF Rule
  <2>3. DOMAIN Rules \subseteq Nat /\ \A i \in DOMAIN Rules : Rules[i] \in Rule
    BY <2>1
  <2> QED BY <2>2, <2>3
<1>2. CASE fits = {}
  BY <1>2, GatewayAssumption DEF DecideAdmissionMode, Modes
<1>3. CASE fits # {}
  <2>1. fits \subseteq Nat
    BY <1>1
  <2>2. PICK x \in fits : \A y \in fits : ~ (<<y, x>> \in OpToRel(<, Nat))
    <3> HIDE DEF fits
    <3> QED BY <1>3, <2>1, NatLessThanWellFounded, WFMin
  <2>3. \A y \in fits : ~(y < x)
    BY <2>1, <2>2 DEF OpToRel
  <2>4. \A y \in fits : x <= y
    BY <2>1, <2>3
  <2>5. first \in fits
    BY <2>4
  <2>6. DecideAdmissionMode(m) = IF Prompt[m].marked THEN "normal" ELSE Rules[first].mode
    BY <1>3 DEF DecideAdmissionMode
  <2> HIDE DEF first
  <2> QED BY <1>1, <2>5, <2>6 DEF Modes
<1> QED BY <1>2, <1>3

LEMMA InvInit == Init => IInv
<1> SUFFICES ASSUME Init PROVE IInv
  OBVIOUS
<1>1. TypeInv
  <2>1. records \in Seq(Record)
    BY DEF Init
  <2>2. /\ pc \in [Requests -> Places] /\ rpc \in [Requests -> Statuses]
        /\ msg \in [Requests -> Messages \cup {NoMessage}]
    BY DEF Init, Places, Idle, Statuses
  <2>3. /\ inbox \in [Messages -> {"none", "waiting", "awake"}]
        /\ durable \in [Messages -> {"none", "binding-failed", "started", "followup-attached"}]
    BY DEF Init
  <2> QED BY <2>1, <2>2, <2>3 DEF Init, TypeInv
<1>2. \A r \in Requests : PlaceSound(r) /\ RpcSound(r)
  BY DEF Init, PlaceSound, RpcSound, Idle, Routing, Admitted
<1>3. ParentIsNotWoken /\ OkIsTaken /\ DOMAIN records = {}
  BY DEF Init, ParentIsNotWoken, OkIsTaken
<1> QED BY <1>1, <1>2, <1>3 DEF IInv

-----------------------------------------------------------------------------

\* What a message has reached is not undone.
Forwards ==
  \A m \in Messages : /\ inbox[m] # "none" => inbox'[m] # "none"
                      /\ Taken(m) => Taken(m)'

\* A step of the handler of one request, or of the plugin for it.
LEMMA StepKeeps ==
  ASSUME IInv, TypeInv', role' = role, Forwards,
         NEW r \in Requests,
         \A q \in Requests \ {r} : pc'[q] = pc[q] /\ msg'[q] = msg[q] /\ rpc'[q] = rpc[q],
         PlaceSound(r)', RpcSound(r)',
         \A i \in DOMAIN records' : RecordSound(records[i])',
         \A m \in Messages : inbox'[m] = "awake" =>
           \/ inbox[m] = "awake" \/ role = "internal"
           \/ DecideAdmissionMode(m) # "orchestrate",
         \A m \in accepted' : m \in accepted \/ (inbox'[m] # "none" /\ Taken(m)')
  PROVE  IInv'
<1>1. ASSUME NEW q \in Requests PROVE PlaceSound(q)' /\ RpcSound(q)'
  <2>1. CASE q = r
    BY <2>1
  <2>2. CASE q # r
    <3>1. PlaceSound(q) /\ RpcSound(q) /\ pc'[q] = pc[q] /\ msg'[q] = msg[q] /\ rpc'[q] = rpc[q]
      BY <2>2 DEF IInv
    <3>2. PlaceSound(q)'
      BY <3>1 DEF PlaceSound, Forwards, Idle, Admitted, DecideAdmissionMode
    <3>3. RpcSound(q)'
      <4>1. pc[q] = "rpc" => msg[q] \in Messages
        BY <3>1 DEF PlaceSound, Idle
      <4> QED BY <3>1, <4>1 DEF RpcSound, Forwards
    <3> QED BY <3>2, <3>3
  <2> QED BY <2>1, <2>2
<1>2. ParentIsNotWoken'
  BY DEF IInv, ParentIsNotWoken, DecideAdmissionMode
<1>3. OkIsTaken'
  <2>1. \A m \in accepted : inbox[m] # "none" /\ Taken(m) /\ m \in Messages
    BY DEF IInv, OkIsTaken, Taken, TypeInv
  <2>2. \A m \in accepted' : inbox'[m] # "none" /\ Taken(m)'
    BY <2>1 DEF Forwards
  <2> QED BY <2>2 DEF OkIsTaken, Taken
<1> QED BY <1>1, <1>2, <1>3 DEF IInv

LEMMA RecordsInRange == IInv => \A i \in DOMAIN records : records[i].message \in Messages
<1> SUFFICES ASSUME IInv, NEW i \in DOMAIN records PROVE records[i].message \in Messages
  OBVIOUS
<1>1. records \in Seq(Record)
  BY DEF IInv, TypeInv
<1>2. records[i] \in Record
  BY <1>1
<1> QED BY <1>2 DEF Record

\* The records that stay as they are stay sound.
LEMMA RecordsStay ==
  ASSUME IInv, Forwards, records' = records
  PROVE  \A i \in DOMAIN records' : RecordSound(records[i])'
<1> SUFFICES ASSUME NEW i \in DOMAIN records PROVE RecordSound(records[i])'
  OBVIOUS
<1>1. RecordSound(records[i]) /\ records[i].message \in Messages
  BY RecordsInRange DEF IInv
<1> QED BY <1>1 DEF RecordSound, Forwards

\* A message is recorded, of which what the record says holds.
LEMMA RecordedKeeps ==
  ASSUME IInv, Forwards, NEW m \in Messages, NEW state \in {"admitted", "started", "failed"},
         records' = PutRecord(m, state), inbox'[m] # "none", state = "started" => Taken(m)'
  PROVE  /\ records' \in Seq(Record)
         /\ \A i \in DOMAIN records' : RecordSound(records[i])'
<1>1. /\ records' \in Seq(Record)
      /\ \A i \in DOMAIN records' : \/ records'[i] = [message |-> m, state |-> state]
                                    \/ \E j \in DOMAIN records : records'[i] = records[j]
  BY PutRecordProperties DEF IInv, TypeInv
<1>2. ASSUME NEW i \in DOMAIN records' PROVE RecordSound(records[i])'
  <2>1. CASE records'[i] = [message |-> m, state |-> state]
    BY <2>1 DEF RecordSound
  <2>2. ASSUME NEW j \in DOMAIN records, records'[i] = records[j] PROVE RecordSound(records[i])'
    <3>1. RecordSound(records[j]) /\ records[j].message \in Messages
      BY RecordsInRange DEF IInv
    <3> QED BY <2>2, <3>1 DEF RecordSound, Forwards
  <2> QED BY <1>1, <2>1, <2>2
<1> QED BY <1>1, <1>2

-----------------------------------------------------------------------------

\* Steps that touch neither the host's inbox nor the plugin nor the records.
LEMMA QuietSteps ==
  ASSUME IInv, NEW r \in Requests, role' = role, UNCHANGED <<inbox, durable, refused, records>>,
         NEW to \in Places, pc' = [pc EXCEPT ![r] = to],
         msg' \in [Requests -> Messages \cup {NoMessage}], rpc' \in [Requests -> Statuses],
         \A q \in Requests \ {r} : msg'[q] = msg[q] /\ rpc'[q] = rpc[q],
         accepted' \subseteq Messages,
         \A m \in accepted' : m \in accepted \/ (inbox[m] # "none" /\ Taken(m)),
         PlaceSound(r)', RpcSound(r)'
  PROVE  IInv'
<1>1. TypeInv'
  BY DEF IInv, TypeInv
<1>2. Forwards
  BY DEF Forwards, Taken
<1>3. \A q \in Requests \ {r} : pc'[q] = pc[q]
  BY DEF IInv, TypeInv
<1>4. \A m \in accepted' : m \in accepted \/ (inbox'[m] # "none" /\ Taken(m)')
  BY DEF Taken
<1>5. \A i \in DOMAIN records' : RecordSound(records[i])'
  BY <1>2, RecordsStay
<1> QED BY <1>1, <1>2, <1>3, <1>4, <1>5, StepKeeps

LEMMA ArrivalAndRoute ==
  ASSUME IInv, NEW r \in Requests,
         \/ \E m \in Messages : Intercept(r, m)
         \/ Reject(r) \/ ReadRoleForRoute(r) \/ RouteGivesUp(r) \/ Decide(r)
         \/ SwitchModel(r) \/ SwitchModelFails(r) \/ SwitchAgent(r) \/ SwitchAgentFails(r)
         \/ Rollback(r) \/ RollbackFails(r) \/ ReadRole(r) \/ RoleUnknown(r)
  PROVE  IInv'
<1>0. /\ pc \in [Requests -> Places] /\ msg \in [Requests -> Messages \cup {NoMessage}]
      /\ rpc \in [Requests -> Statuses] /\ accepted \subseteq Messages
      /\ PlaceSound(r) /\ RpcSound(r)
  BY DEF IInv, TypeInv
<1>1. ASSUME NEW m \in Messages, Intercept(r, m) PROVE IInv'
  <2> DEFINE to == FirstStep(DecideAdmissionMode(m))
  <2>1. DecideAdmissionMode(m) \in Modes
    BY ModeIsAMode
  <2>2. /\ to \in {"forward", "route-role", "role"}
        /\ to \in {"forward", "route-role"} => DecideAdmissionMode(m) # "orchestrate"
    BY <2>1 DEF FirstStep, Modes
  <2>3. pc' = [pc EXCEPT ![r] = to] /\ msg' = [msg EXCEPT ![r] = m]
    BY <1>1 DEF Intercept, Goto
  <2>4. UNCHANGED <<role, inbox, durable, refused, records, rpc, accepted>>
    BY <1>1 DEF Intercept, host, plugin, gateway
  <2> HIDE DEF to
  <2>5. pc'[r] = to /\ msg'[r] = m /\ DecideAdmissionMode(m)' = DecideAdmissionMode(m)
    BY <1>0, <2>3 DEF DecideAdmissionMode
  <2>6. PlaceSound(r)'
    BY <2>2, <2>5 DEF PlaceSound, Idle, Routing, Admitted, DecideAdmissionMode
  <2>7. RpcSound(r)'
    <3>1. rpc[r] # "sent"
      BY <1>0, <1>1 DEF RpcSound, Intercept
    <3> QED BY <2>2, <2>4, <2>5, <3>1 DEF RpcSound
  <2>8. to \in Places
    BY <2>2 DEF Places, Routing
  <2>9. msg' \in [Requests -> Messages \cup {NoMessage}]
    BY <1>0, <2>3
  <2> QED BY <1>0, <2>3, <2>4, <2>6, <2>7, <2>8, <2>9, QuietSteps
<1>2. ASSUME Reject(r) \/ RoleUnknown(r) PROVE IInv'
  <2>1. /\ pc' = [pc EXCEPT ![r] = "done"] /\ msg' = [msg EXCEPT ![r] = NoMessage]
        /\ UNCHANGED <<role, inbox, durable, refused, records, rpc, accepted>>
        /\ pc[r] \in {"idle", "role"}
    BY <1>2 DEF Reject, RoleUnknown, Refuse, Reply, Goto, host, plugin, gateway
  <2>2. PlaceSound(r)'
    BY <1>0, <2>1 DEF PlaceSound, Idle, Routing, Admitted
  <2>3. pc'[r] = "done" /\ rpc[r] # "sent"
    BY <1>0, <2>1 DEF RpcSound
  <2>4. RpcSound(r)'
    BY <2>1, <2>3 DEF RpcSound
  <2>5. "done" \in Places /\ msg' \in [Requests -> Messages \cup {NoMessage}]
    BY <1>0, <2>1 DEF Places, Idle
  <2> QED BY <1>0, <2>1, <2>2, <2>4, <2>5, QuietSteps
<1>3. ASSUME \/ ReadRoleForRoute(r) \/ RouteGivesUp(r) \/ Decide(r)
             \/ SwitchModel(r) \/ SwitchModelFails(r) \/ SwitchAgent(r) \/ SwitchAgentFails(r)
             \/ Rollback(r) \/ RollbackFails(r)
      PROVE  IInv'
  <2>1. PICK to \in {"decide", "switch-model", "switch-agent", "rollback", "forward"} :
          pc' = [pc EXCEPT ![r] = to]
    BY <1>3 DEF ReadRoleForRoute, RouteGivesUp, Decide, SwitchModel, SwitchModelFails,
                SwitchAgent, SwitchAgentFails, Rollback, RollbackFails, AfterAgentFails, Conclude,
                Goto
  <2>2. pc[r] \in Routing
    BY <1>3 DEF ReadRoleForRoute, RouteGivesUp, Decide, SwitchModel, SwitchModelFails,
                SwitchAgent, SwitchAgentFails, Rollback, RollbackFails, Routing
  <2>3. UNCHANGED <<role, inbox, durable, refused, records, rpc, accepted, msg>>
    BY <1>3 DEF ReadRoleForRoute, RouteGivesUp, Decide, SwitchModel, SwitchModelFails,
                SwitchAgent, SwitchAgentFails, Rollback, RollbackFails, host, plugin, gateway
  <2>4. pc'[r] = to
    BY <1>0, <2>1
  <2>5. PlaceSound(r)'
    BY <1>0, <2>2, <2>3, <2>4 DEF PlaceSound, Idle, Routing, Admitted, DecideAdmissionMode
  <2>6. RpcSound(r)'
    <3>1. rpc[r] # "sent"
      BY <1>0, <2>2 DEF RpcSound, Routing
    <3> QED BY <2>3, <2>4, <3>1 DEF RpcSound
  <2>7. to \in Places
    BY DEF Places, Routing
  <2> QED BY <1>0, <2>1, <2>3, <2>5, <2>6, <2>7, QuietSteps
<1>4. CASE ReadRole(r)
  <2>1. PICK to \in {"forward", "admit"} :
          pc' = [pc EXCEPT ![r] = to] /\ (to = "forward" => role = "internal")
    BY <1>4 DEF ReadRole, Goto
  <2>2. pc[r] = "role" /\ UNCHANGED <<role, inbox, durable, refused, records, rpc, accepted, msg>>
    BY <1>4 DEF ReadRole, host, plugin, gateway
  <2>3. pc'[r] = to
    BY <1>0, <2>1
  <2>4. PlaceSound(r)'
    BY <1>0, <2>1, <2>2, <2>3 DEF PlaceSound, Idle, Routing, Admitted, DecideAdmissionMode
  <2>5. RpcSound(r)'
    BY <1>0, <2>2, <2>3 DEF RpcSound
  <2>6. to \in Places
    BY DEF Places, Routing
  <2> QED BY <1>0, <2>1, <2>2, <2>4, <2>5, <2>6, QuietSteps
<1> QED BY <1>1, <1>2, <1>3, <1>4

LEMMA Handling ==
  ASSUME IInv, NEW r \in Requests,
         Forward(r) \/ Admit(r) \/ AdmitFails(r) \/ SkipDuplicate(r) \/ SendRpc(r)
  PROVE  IInv'
<1>0. /\ pc \in [Requests -> Places] /\ msg \in [Requests -> Messages \cup {NoMessage}]
      /\ rpc \in [Requests -> Statuses] /\ accepted \subseteq Messages
      /\ PlaceSound(r) /\ RpcSound(r)
  BY DEF IInv, TypeInv
<1>1. pc[r] \in {"forward", "admit", "lock"} /\ msg[r] \in Messages /\ rpc[r] # "sent"
  BY <1>0 DEF Forward, Admit, AdmitFails, SkipDuplicate, SendRpc, PlaceSound, RpcSound, Idle
<1>2. /\ "done" \in Places /\ "lock" \in Places /\ "rpc" \in Places
      /\ [msg EXCEPT ![r] = NoMessage] \in [Requests -> Messages \cup {NoMessage}]
  BY <1>0 DEF Places, Idle, Admitted
<1>3. CASE Forward(r)
  <2>1. /\ pc' = [pc EXCEPT ![r] = "done"] /\ msg' = [msg EXCEPT ![r] = NoMessage]
        /\ UNCHANGED <<role, durable, refused, records, rpc, accepted>>
        /\ inbox' = inbox \/ inbox' = [inbox EXCEPT ![msg[r]] = "awake"]
    BY <1>3 DEF Forward, Refuse, Reply, Goto, plugin, gateway
  <2>2. TypeInv'
    BY <1>1, <1>2, <2>1 DEF IInv, TypeInv
  <2>3. Forwards
    BY <1>1, <2>1 DEF Forwards, Taken, IInv, TypeInv
  <2>4. pc'[r] = "done" /\ \A q \in Requests \ {r} : pc'[q] = pc[q] /\ msg'[q] = msg[q]
    BY <1>0, <2>1
  <2>5. PlaceSound(r)' /\ RpcSound(r)'
    BY <1>1, <2>1, <2>4 DEF PlaceSound, RpcSound, Idle, Routing, Admitted
  <2>6. \A i \in DOMAIN records' : RecordSound(records[i])'
    BY <2>1, <2>3, RecordsStay
  <2>7. role = "internal" \/ DecideAdmissionMode(msg[r]) # "orchestrate"
    BY <1>0, <1>3 DEF Forward, PlaceSound
  <2>8. \A m \in Messages : inbox'[m] = "awake" => inbox[m] = "awake" \/ m = msg[r]
    BY <2>1 DEF IInv, TypeInv
  <2>9. \A m \in Messages : inbox'[m] = "awake" =>
          inbox[m] = "awake" \/ role = "internal" \/ DecideAdmissionMode(m) # "orchestrate"
    BY <2>7, <2>8
  <2> QED BY <2>1, <2>2, <2>3, <2>4, <2>5, <2>6, <2>9, StepKeeps
<1>4. CASE Admit(r)
  <2>1. /\ pc' = [pc EXCEPT ![r] = "lock"]
        /\ UNCHANGED <<role, durable, refused, msg, rpc, accepted>>
        /\ inbox' = [inbox EXCEPT ![msg[r]] = IF @ = "none" THEN "waiting" ELSE @]
        /\ records' = records \/ records' = PutRecord(msg[r], "admitted")
    BY <1>4 DEF Admit, Goto, Persist, plugin
  <2>2. /\ inbox' \in [Messages -> {"none", "waiting", "awake"}] /\ inbox'[msg[r]] # "none"
        /\ \A m \in Messages : /\ inbox[m] # "none" => inbox'[m] # "none"
                              /\ inbox'[m] = "awake" => inbox[m] = "awake"
    BY <1>1, <2>1 DEF IInv, TypeInv
  <2>3. Forwards
    BY <2>1, <2>2 DEF Forwards, Taken
  <2>4. records' \in Seq(Record) /\ \A i \in DOMAIN records' : RecordSound(records[i])'
    <3>1. CASE records' = records
      BY <2>3, <3>1, RecordsStay DEF IInv, TypeInv
    <3>2. CASE records' = PutRecord(msg[r], "admitted")
      BY <1>1, <2>2, <2>3, <3>2, RecordedKeeps
    <3> QED BY <2>1, <3>1, <3>2
  <2>5. TypeInv'
    BY <1>2, <2>1, <2>2, <2>4 DEF IInv, TypeInv
  <2>6. pc'[r] = "lock" /\ \A q \in Requests \ {r} : pc'[q] = pc[q] /\ msg'[q] = msg[q]
    BY <1>0, <2>1
  <2>7. PlaceSound(r)' /\ RpcSound(r)'
    BY <1>1, <2>1, <2>2, <2>6 DEF PlaceSound, RpcSound, Idle, Routing, Admitted
  <2> QED BY <2>1, <2>2, <2>3, <2>4, <2>5, <2>6, <2>7, StepKeeps
<1>5. CASE AdmitFails(r)
  <2>1. /\ pc' = [pc EXCEPT ![r] = "done"] /\ msg' = [msg EXCEPT ![r] = NoMessage]
        /\ UNCHANGED <<role, durable, refused, records, rpc, accepted>>
        /\ inbox' = inbox \/ inbox' = [inbox EXCEPT ![msg[r]] = IF @ = "none" THEN "waiting" ELSE @]
    BY <1>5 DEF AdmitFails, Refuse, Reply, Goto, Persist, plugin, gateway
  <2>2. /\ inbox' \in [Messages -> {"none", "waiting", "awake"}]
        /\ \A m \in Messages : /\ inbox[m] # "none" => inbox'[m] # "none"
                              /\ inbox'[m] = "awake" => inbox[m] = "awake"
    BY <1>1, <2>1 DEF IInv, TypeInv
  <2>3. TypeInv' /\ Forwards
    BY <1>2, <2>1, <2>2 DEF IInv, TypeInv, Forwards, Taken
  <2>4. pc'[r] = "done" /\ \A q \in Requests \ {r} : pc'[q] = pc[q] /\ msg'[q] = msg[q]
    BY <1>0, <2>1
  <2>5. PlaceSound(r)' /\ RpcSound(r)'
    BY <1>1, <2>1, <2>4 DEF PlaceSound, RpcSound, Idle, Routing, Admitted
  <2>6. \A i \in DOMAIN records' : RecordSound(records[i])'
    BY <2>1, <2>3, RecordsStay
  <2> QED BY <2>1, <2>2, <2>3, <2>4, <2>5, <2>6, StepKeeps
<1>6. CASE SkipDuplicate(r)
  <2>1. /\ pc' = [pc EXCEPT ![r] = "done"] /\ msg' = [msg EXCEPT ![r] = NoMessage]
        /\ UNCHANGED <<role, inbox, durable, refused, records, rpc>>
        /\ accepted' = accepted \cup {msg[r]}
    BY <1>6 DEF SkipDuplicate, Accept, Reply, Goto, host, plugin, gateway
  <2>2. inbox[msg[r]] # "none" /\ Taken(msg[r])
    BY <1>6 DEF SkipDuplicate, Settled, HasState, IInv, RecordSound
  <2>3. pc'[r] = "done"
    BY <1>0, <2>1
  <2>4. PlaceSound(r)' /\ RpcSound(r)'
    BY <1>1, <2>1, <2>3 DEF PlaceSound, RpcSound, Idle, Routing, Admitted
  <2>5. accepted' \subseteq Messages /\ \A m \in accepted' : m \in accepted \/ m = msg[r]
    BY <1>0, <1>1, <2>1
  <2> QED BY <1>0, <1>2, <2>1, <2>2, <2>4, <2>5, QuietSteps
<1>7. CASE SendRpc(r)
  <2>1. /\ pc' = [pc EXCEPT ![r] = "rpc"] /\ rpc' = [rpc EXCEPT ![r] = "sent"]
        /\ UNCHANGED <<role, inbox, durable, refused, records, msg, accepted>> /\ pc[r] = "lock"
    BY <1>7 DEF SendRpc, Goto, host, plugin, gateway
  <2>2. pc'[r] = "rpc" /\ rpc'[r] = "sent"
    BY <1>0, <2>1
  <2>3. PlaceSound(r)'
    BY <1>0, <1>1, <2>1, <2>2 DEF PlaceSound, Idle, Routing, Admitted
  <2>4. RpcSound(r)'
    BY <1>1, <2>1, <2>2 DEF RpcSound
  <2>5. rpc' \in [Requests -> Statuses]
    BY <1>0, <2>1 DEF Statuses
  <2> QED BY <1>0, <1>2, <2>1, <2>3, <2>4, <2>5, QuietSteps
<1> QED BY <1>3, <1>4, <1>5, <1>6, <1>7

LEMMA Answers ==
  ASSUME IInv, NEW r \in Requests, RpcAnswered(r) \/ RpcFails(r)
  PROVE  IInv'
<1>0. /\ pc \in [Requests -> Places] /\ msg \in [Requests -> Messages \cup {NoMessage}]
      /\ rpc \in [Requests -> Statuses] /\ accepted \subseteq Messages
      /\ PlaceSound(r) /\ RpcSound(r)
  BY DEF IInv, TypeInv
<1>1. pc[r] = "rpc" /\ msg[r] \in Messages /\ inbox[msg[r]] # "none" /\ rpc[r] # "none"
  BY <1>0 DEF RpcAnswered, RpcFails, PlaceSound, RpcSound, Idle, Admitted
<1>2. CASE RpcAnswered(r)
  <2>1. /\ pc' = [pc EXCEPT ![r] = "done"] /\ msg' = [msg EXCEPT ![r] = NoMessage]
        /\ rpc' = [rpc EXCEPT ![r] = "none"]
        /\ UNCHANGED <<role, inbox, durable, refused>>
        /\ accepted' = accepted \cup {msg[r]}
        /\ records' = records \/ records' = PutRecord(msg[r], "started")
    BY <1>2 DEF RpcAnswered, Accept, Reply, Goto, host, plugin, gateway
  <2>2. PICK m \in Messages : m = msg[r] /\ Taken(m) /\ inbox[m] # "none"
    BY <1>0, <1>1, <1>2 DEF RpcAnswered, RpcSound
  <2>3. Forwards /\ Taken(m)'
    BY <2>1, <2>2 DEF Forwards, Taken
  <2>4. records' \in Seq(Record) /\ \A i \in DOMAIN records' : RecordSound(records[i])'
    <3>1. CASE records' = records
      BY <2>3, <3>1, RecordsStay DEF IInv, TypeInv
    <3>2. CASE records' = PutRecord(m, "started")
      BY <2>1, <2>2, <2>3, <3>2, RecordedKeeps
    <3> QED BY <2>1, <2>2, <3>1, <3>2
  <2>5. "done" \in Places /\ "none" \in Statuses
    BY DEF Places, Idle, Statuses
  <2>6. TypeInv'
    BY <1>0, <1>1, <2>1, <2>4, <2>5 DEF IInv, TypeInv
  <2>7. /\ pc'[r] = "done" /\ rpc'[r] = "none"
        /\ \A q \in Requests \ {r} : pc'[q] = pc[q] /\ msg'[q] = msg[q] /\ rpc'[q] = rpc[q]
    BY <1>0, <2>1
  <2>8. PlaceSound(r)' /\ RpcSound(r)'
    BY <2>7 DEF PlaceSound, RpcSound, Idle, Routing, Admitted
  <2>9. \A n \in accepted' : n \in accepted \/ (inbox'[n] # "none" /\ Taken(n)')
    <3>1. \A n \in accepted' : n \in accepted \/ n = m
      BY <2>1, <2>2
    <3> QED BY <2>1, <2>2, <2>3, <3>1
  <2> QED BY <2>1, <2>3, <2>4, <2>6, <2>7, <2>8, <2>9, StepKeeps
<1>3. CASE RpcFails(r)
  <2>1. /\ records' = PutRecord(msg[r], "failed") /\ Abandon({r})
        /\ UNCHANGED <<role, inbox, durable, refused, accepted>>
    BY <1>3 DEF RpcFails, host, plugin
  <2>2. /\ pc' = [q \in Requests |-> IF q \in {r} THEN "done" ELSE pc[q]]
        /\ msg' = [q \in Requests |-> IF q \in {p \in {r} : rpc[p] # "sent"} THEN NoMessage ELSE msg[q]]
        /\ rpc' = [q \in Requests |-> IF q \in {p \in {r} : rpc[p] # "sent"} THEN "none" ELSE rpc[q]]
    BY <2>1 DEF Abandon
  <2>3. /\ pc'[r] = "done"
        /\ \A q \in Requests \ {r} : pc'[q] = pc[q] /\ msg'[q] = msg[q] /\ rpc'[q] = rpc[q]
        /\ rpc'[r] = "sent" => msg'[r] = msg[r]
    BY <2>2
  <2>4. /\ pc' \in [Requests -> Places] /\ msg' \in [Requests -> Messages \cup {NoMessage}]
        /\ rpc' \in [Requests -> Statuses]
    <3>1. "done" \in Places /\ "none" \in Statuses
      BY DEF Places, Idle, Statuses
    <3> QED BY <1>0, <2>2, <3>1
  <2>5. Forwards
    BY <2>1 DEF Forwards, Taken
  <2>6. records' \in Seq(Record) /\ \A i \in DOMAIN records' : RecordSound(records[i])'
    <3>1. PICK m \in Messages : m = msg[r] /\ inbox'[m] # "none"
      BY <1>1, <2>1
    <3>2. records' = PutRecord(m, "failed")
      BY <2>1, <3>1
    <3> QED BY <2>5, <3>1, <3>2, RecordedKeeps
  <2>7. TypeInv'
    BY <2>1, <2>4, <2>6 DEF IInv, TypeInv
  <2>8. PlaceSound(r)' /\ RpcSound(r)'
    BY <1>1, <2>3 DEF PlaceSound, RpcSound, Idle, Routing, Admitted
  <2> QED BY <2>1, <2>3, <2>5, <2>6, <2>7, <2>8, StepKeeps
<1> QED BY <1>2, <1>3

LEMMA PluginSteps ==
  ASSUME IInv, NEW r \in Requests, Plugin(r)
  PROVE  IInv'
<1>0. /\ pc \in [Requests -> Places] /\ msg \in [Requests -> Messages \cup {NoMessage}]
      /\ rpc \in [Requests -> Statuses]
      /\ durable \in [Messages -> {"none", "binding-failed", "started", "followup-attached"}]
      /\ PlaceSound(r) /\ RpcSound(r)
  BY DEF IInv, TypeInv
<1>1. rpc[r] = "sent" /\ msg[r] \in Messages /\ pc[r] \in {"rpc", "done"}
  BY <1>0 DEF Plugin, PluginRefuses, PluginAttaches, PluginIgnores, PluginStarts, PluginFails,
              RpcSound
<1> PICK m \in Messages : m = msg[r]
  BY <1>1
<1>2. UNCHANGED <<role, inbox, pc, records, accepted>>
  BY DEF Plugin, PluginRefuses, PluginAttaches, PluginIgnores, PluginStarts, PluginFails, host,
         gateway
<1>3. PICK status \in Statuses \ {"none", "sent"} :
        /\ Handle(r, status)
        /\ status # "error" => Taken(m)'
        /\ refused' \in SUBSET Messages /\ refused \subseteq refused'
        /\ durable' \in [Messages -> {"none", "binding-failed", "started", "followup-attached"}]
        /\ \A n \in Messages : Taken(n) => Taken(n)'
  <2>1. CASE PluginRefuses(r)
    <3>1. Handle(r, "refused") /\ refused' = refused \cup {msg[r]} /\ durable' = durable
      BY <2>1 DEF PluginRefuses
    <3> QED BY <1>0, <1>1, <3>1 DEF Taken, Statuses, IInv, TypeInv
  <2>2. CASE PluginAttaches(r)
    <3>1. /\ Handle(r, "followup-attached") /\ refused' = refused
          /\ durable' = [durable EXCEPT ![msg[r]] = "followup-attached"]
      BY <2>2 DEF PluginAttaches
    <3> QED BY <1>0, <1>1, <3>1 DEF Taken, Statuses, IInv, TypeInv
  <2>3. CASE PluginIgnores(r)
    <3>1. Handle(r, "duplicate-ignored") /\ refused' = refused /\ durable' = durable /\ ~Fresh(msg[r])
      BY <2>3 DEF PluginIgnores, plugin
    <3>2. durable[msg[r]] \in {"started", "followup-attached"}
      BY <1>0, <1>1, <3>1 DEF Fresh
    <3> QED BY <1>0, <1>1, <3>1, <3>2 DEF Taken, Statuses, IInv, TypeInv
  <2>4. CASE PluginStarts(r)
    <3>1. /\ Handle(r, "started") /\ refused' = refused
          /\ durable' = [durable EXCEPT ![msg[r]] = "started"]
      BY <2>4 DEF PluginStarts
    <3> QED BY <1>0, <1>1, <3>1 DEF Taken, Statuses, IInv, TypeInv
  <2>5. CASE PluginFails(r)
    <3>1. /\ Handle(r, "error") /\ refused' = refused /\ Fresh(msg[r])
          /\ durable' = [durable EXCEPT ![msg[r]] = "binding-failed"] \/ durable' = durable
      BY <2>5 DEF PluginFails
    <3> QED BY <1>0, <1>1, <3>1 DEF Taken, Fresh, Statuses, IInv, TypeInv
  <2> QED BY <2>1, <2>2, <2>3, <2>4, <2>5 DEF Plugin
<1>4. /\ rpc' = [rpc EXCEPT ![r] = IF pc[r] = "rpc" THEN status ELSE "none"]
      /\ msg' = [msg EXCEPT ![r] = IF pc[r] = "rpc" THEN @ ELSE NoMessage]
  BY <1>3 DEF Handle
<1>5. /\ rpc'[r] = IF pc[r] = "rpc" THEN status ELSE "none"
      /\ pc[r] = "rpc" => msg'[r] = msg[r]
      /\ \A q \in Requests \ {r} : msg'[q] = msg[q] /\ rpc'[q] = rpc[q]
      /\ msg' \in [Requests -> Messages \cup {NoMessage}] /\ rpc' \in [Requests -> Statuses]
  <2>1. "none" \in Statuses
    BY DEF Statuses
  <2> QED BY <1>0, <1>4, <2>1
<1>6. Forwards
  BY <1>2, <1>3 DEF Forwards
<1>7. TypeInv'
  BY <1>2, <1>3, <1>5 DEF IInv, TypeInv
<1>8. \A i \in DOMAIN records' : RecordSound(records[i])'
  BY <1>2, <1>6, RecordsStay
<1>9. PlaceSound(r)'
  BY <1>0, <1>1, <1>2, <1>5 DEF PlaceSound, Idle, Routing, Admitted
<1>10. RpcSound(r)'
  <2>1. CASE pc[r] = "rpc"
    <3>1. rpc'[r] = status /\ msg'[r] = msg[r] /\ pc'[r] = "rpc"
      BY <1>2, <1>5, <2>1
    <3>2. rpc'[r] # "error" => Taken(m)'
      BY <1>3, <3>1
    <3>3. msg'[r] = m /\ m \in Messages
      BY <3>1
    <3>4. rpc'[r] # "error" => Taken(msg[r])'
      BY <3>2, <3>3 DEF Taken
    <3> QED BY <1>3, <3>1, <3>4 DEF RpcSound
  <2>2. CASE pc[r] = "done"
    BY <1>2, <1>5, <2>2 DEF RpcSound
  <2> QED BY <1>1, <2>1, <2>2
<1> QED BY <1>2, <1>5, <1>6, <1>7, <1>8, <1>9, <1>10, StepKeeps

LEMMA InvNext == IInv /\ [Next]_vars => IInv'
<1> SUFFICES ASSUME IInv, [Next]_vars PROVE IInv'
  OBVIOUS
<1>1. ASSUME NEW r \in Requests,
             (\E m \in Messages : Intercept(r, m)) \/ Reject(r) \/ Serve(r) \/ Plugin(r)
      PROVE  IInv'
  BY <1>1, ArrivalAndRoute, Handling, Answers, PluginSteps DEF Serve
<1>2. CASE RunEnds \/ UNCHANGED vars
  <2>1. UNCHANGED <<role, inbox, durable, refused, pc, msg, rpc, accepted, records>>
    BY <1>2 DEF RunEnds, vars, host, plugin, gateway
  <2>2. TypeInv' /\ Forwards
    BY <2>1 DEF IInv, TypeInv, Forwards, Taken
  <2>3. ASSUME NEW r \in Requests PROVE PlaceSound(r)' /\ RpcSound(r)'
    <3>1. PlaceSound(r) /\ RpcSound(r)
      BY DEF IInv
    <3>2. PlaceSound(r)'
      BY <2>1, <3>1 DEF PlaceSound, DecideAdmissionMode
    <3>3. RpcSound(r)'
      BY <2>1, <3>1 DEF RpcSound, Taken
    <3> QED BY <3>2, <3>3
  <2>4. \A i \in DOMAIN records' : RecordSound(records[i])'
    BY <2>1, <2>2, RecordsStay
  <2>5. ParentIsNotWoken'
    BY <2>1 DEF IInv, ParentIsNotWoken, DecideAdmissionMode
  <2>6. OkIsTaken'
    BY <2>1 DEF IInv, OkIsTaken
  <2> QED BY <2>2, <2>3, <2>4, <2>5, <2>6 DEF IInv
<1>3. CASE Restart
  <2> DEFINE busy == {r \in Requests : pc[r] # "idle"}
             gone == {r \in busy : rpc[r] # "sent"}
  <2>1. /\ records' = <<>> /\ UNCHANGED <<role, inbox, durable, refused, accepted>>
        /\ pc' = [r \in Requests |-> IF r \in busy THEN "done" ELSE pc[r]]
        /\ msg' = [r \in Requests |-> IF r \in gone THEN NoMessage ELSE msg[r]]
        /\ rpc' = [r \in Requests |-> IF r \in gone THEN "none" ELSE rpc[r]]
    BY <1>3 DEF Restart, Abandon, host, plugin
  <2>2. /\ pc \in [Requests -> Places] /\ msg \in [Requests -> Messages \cup {NoMessage}]
        /\ rpc \in [Requests -> Statuses]
    BY DEF IInv, TypeInv
  <2>3. TypeInv'
    <3>1. "done" \in Places /\ "none" \in Statuses /\ records' \in Seq(Record)
      BY <2>1 DEF Places, Idle, Statuses
    <3> QED BY <2>1, <2>2, <3>1 DEF IInv, TypeInv
  <2>4. ASSUME NEW r \in Requests PROVE PlaceSound(r)' /\ RpcSound(r)'
    <3>1. pc'[r] \in Idle /\ (rpc'[r] = "sent" => rpc[r] = "sent" /\ msg'[r] = msg[r])
      BY <2>1, <2>2 DEF Idle
    <3>2. rpc[r] = "sent" => msg[r] \in Messages /\ pc'[r] = "done"
      BY <2>1 DEF IInv, RpcSound
    <3> QED BY <3>1, <3>2 DEF PlaceSound, RpcSound, Idle, Routing, Admitted
  <2>5. ParentIsNotWoken' /\ OkIsTaken' /\ DOMAIN records' = {}
    <3>1. ParentIsNotWoken'
      BY <2>1 DEF IInv, ParentIsNotWoken, DecideAdmissionMode
    <3>2. OkIsTaken'
      BY <2>1 DEF IInv, OkIsTaken
    <3> QED BY <2>1, <3>1, <3>2
  <2> QED BY <2>3, <2>4, <2>5 DEF IInv
<1> QED BY <1>1, <1>2, <1>3 DEF Next

-----------------------------------------------------------------------------

\* A message meant for orchestration never wakes its parent, for every set of rules, prompts
\* and failures ("NUNCA PATCH/wake, NUNCA re-encaminhar", gateway/server.ts:10).
THEOREM ParentSleeps == Spec => []ParentIsNotWoken
<1>1. IInv => ParentIsNotWoken
  BY DEF IInv
<1> QED BY <1>1, InvInit, InvNext, PTL DEF Spec

\* A client that was told yes has its message in the host and a run, a follow-up or a refusal
\* of the plugin, whatever is evicted, lost or restarted (gateway/server.ts:309).
THEOREM YesIsTaken == Spec => []OkIsTaken
<1>1. IInv => OkIsTaken
  BY DEF IInv
<1> QED BY <1>1, InvInit, InvNext, PTL DEF Spec

-----------------------------------------------------------------------------
(* A route leaves the session with what was reported of it *)

Setting   == [model : Models, agent : Agents]
Outcomes  == {"applied", "fallback", "partial", "rolled-back"}
RouteType == [before : Models \cup {Unknown}, saw : Setting \cup {NoSetting},
              model : Models \cup {Unknown}, agent : Agents \cup {Unknown},
              outcome : Outcomes \cup {"none"}]
Chosen    == {"switch-model", "switch-agent", "rollback"}
Seen      == {"decide"} \cup Chosen

\* What the place of a route says of what it knows.
RouteKnows(r) ==
  /\ pc[r] \notin Seen \cup {"forward"} => route[r] = NoRoute
  /\ pc[r] \in Seen => route[r].saw \in Setting /\ route[r].before \in {route[r].saw.model, Unknown}
  /\ pc[r] \in Chosen => route[r].model \in Models /\ route[r].agent \in Agents
  /\ pc[r] = "rollback" => route[r].before \notin {route[r].model, Unknown}
  /\ pc[r] = "forward" => \/ route[r].saw = NoSetting
                          \/ route[r].saw \in Setting /\ route[r].outcome \in Outcomes

\* A route that switched the model and not yet the agent.
HalfWay(r) == [route[r].saw EXCEPT !.model = route[r].model]

Honest(r) ==
  LET decided == [model |-> route[r].model, agent |-> route[r].agent] IN
  CASE route[r].outcome = "applied" -> setting = decided
    [] route[r].outcome \in {"fallback", "rolled-back"} -> setting = route[r].saw
    [] route[r].outcome = "partial" -> setting = [route[r].saw EXCEPT !.model = decided.model]

\* What the place of an undisturbed route says of the session.
RouteSound(r) ==
  r \notin disturbed /\ lost = 0 =>
    /\ pc[r] \in {"decide", "switch-model"} => setting = route[r].saw
    /\ pc[r] \in {"switch-agent", "rollback"} => setting = HalfWay(r)
    /\ pc[r] = "forward" /\ route[r].saw # NoSetting => Honest(r)

RouteInv ==
  /\ setting \in Setting /\ route \in [Requests -> RouteType] /\ lost \in Nat
  /\ \A r \in Requests : RouteKnows(r) /\ RouteSound(r)

\* A step of one request disturbs the others' routes or leaves the session alone.
LEMMA RouteStep ==
  ASSUME RouteInv, NEW r \in Requests,
         setting' \in Setting, route' \in [Requests -> RouteType], lost' \in Nat,
         lost' = 0 => lost = 0,
         \A q \in Requests \ {r} : pc'[q] = pc[q] /\ route'[q] = route[q],
         \/ setting' = setting /\ disturbed \subseteq disturbed' \cup {r}
         \/ disturbed' = disturbed \cup OthersRouting(r),
         RouteKnows(r)', RouteSound(r)'
  PROVE  RouteInv'
<1> SUFFICES ASSUME NEW q \in Requests, q # r PROVE RouteKnows(q)' /\ RouteSound(q)'
  BY DEF RouteInv
<1>1. /\ RouteKnows(q) /\ RouteSound(q)
      /\ pc'[q] = pc[q] /\ route'[q] = route[q]
  BY DEF RouteInv
<1>2. RouteKnows(q)'
  BY <1>1 DEF RouteKnows
<1>3. CASE setting' = setting /\ disturbed \subseteq disturbed' \cup {r}
  <2>1. HalfWay(q)' = HalfWay(q) /\ (Honest(q)' <=> Honest(q))
    BY <1>1, <1>3 DEF HalfWay, Honest
  <2>2. q \notin disturbed' => q \notin disturbed
    BY <1>3
  <2> QED BY <1>1, <1>2, <1>3, <2>1, <2>2 DEF RouteSound
<1>4. CASE disturbed' = disturbed \cup OthersRouting(r)
  <2>1. pc[q] \in Seen \cup {"forward"} => q \in disturbed'
    BY <1>4 DEF OthersRouting, Seen, Chosen
  <2>2. q \notin disturbed' => pc'[q] \notin Seen \cup {"forward"}
    BY <1>1, <2>1
  <2> QED BY <1>2, <2>2 DEF RouteSound, Seen, Chosen
<1> QED BY <1>2, <1>3, <1>4

\* Handling that is no route, and the plugin.
LEMMA OtherSteps ==
  ASSUME IInv, RouteInv, NEW r \in Requests, UNCHANGED <<setting, disturbed>>,
         NEW to \in Places \ Seen, pc' = [pc EXCEPT ![r] = to],
         pc[r] \notin Seen \cup {"forward"},
         lost' \in {lost, lost + 1},
         UNCHANGED route
  PROVE  RouteInv'
<1>1. pc'[r] = to /\ \A q \in Requests \ {r} : pc'[q] = pc[q]
  BY DEF IInv, TypeInv
<1>2. route[r] = NoRoute
  BY DEF RouteInv, RouteKnows
<1>3. RouteKnows(r)' /\ RouteSound(r)'
  BY <1>1, <1>2 DEF RouteKnows, RouteSound, NoRoute, Seen, Chosen
<1> QED BY <1>1, <1>3, RouteStep DEF RouteInv

\* The session and the disturbed, after a call that failed: nothing was switched, or a reply was lost.
LEMMA FailedSwitch ==
  ASSUME RouteInv, NEW r \in Requests, NEW s \in Setting,
         \/ NoSwitch /\ UNCHANGED lost
         \/ LoseReply /\ (NoSwitch \/ Switch(r, s))
  PROVE  /\ setting' \in Setting /\ lost' \in Nat
         /\ \/ setting' = setting /\ disturbed \subseteq disturbed' \cup {r}
            \/ disturbed' = disturbed \cup OthersRouting(r)
         /\ lost' = 0 => lost = 0 /\ setting' = setting
         /\ r \in disturbed' <=> r \in disturbed
  BY DEF RouteInv, NoSwitch, Switch, LoseReply, OthersRouting

LEMMA RouteSteps ==
  ASSUME IInv, RouteInv, NEW r \in Requests,
         \/ ReadRoleForRoute(r) \/ RouteGivesUp(r) \/ Decide(r)
         \/ SwitchModel(r) \/ SwitchModelFails(r) \/ SwitchAgent(r) \/ SwitchAgentFails(r)
         \/ Rollback(r) \/ RollbackFails(r) \/ Forward(r)
  PROVE  RouteInv'
<1> USE GatewayAssumption
<1>1. /\ pc \in [Requests -> Places] /\ route \in [Requests -> RouteType] /\ lost \in Nat
      /\ setting \in Setting /\ RouteKnows(r) /\ RouteSound(r) /\ route[r] \in RouteType
  BY DEF IInv, TypeInv, RouteInv
<1>2. NoRoute \in RouteType /\ NoRoute.saw = NoSetting
  BY DEF NoRoute, RouteType, Outcomes
<1>3. CASE ReadRoleForRoute(r)
  <2>1. PICK before \in {setting.model, Unknown} :
          route' = [route EXCEPT ![r] = [NoRoute EXCEPT !.before = before, !.saw = setting]]
    BY <1>3 DEF ReadRoleForRoute
  <2>2. /\ pc' = [pc EXCEPT ![r] = "decide"] /\ UNCHANGED <<setting, disturbed, lost>>
    BY <1>3 DEF ReadRoleForRoute, Goto, host, bounds
  <2>3. /\ route'[r] \in RouteType /\ route'[r].saw = setting /\ route'[r].before = before
    BY <1>1, <1>2, <2>1 DEF RouteType, NoRoute, Setting
  <2>4. RouteKnows(r)' /\ RouteSound(r)'
    BY <1>1, <2>2, <2>3 DEF RouteKnows, RouteSound, Seen, Chosen
  <2>5. route' \in [Requests -> RouteType]
    BY <1>1, <2>1, <2>3
  <2> QED BY <1>1, <2>1, <2>2, <2>4, <2>5, RouteStep
<1>4. CASE RouteGivesUp(r)
  <2>1. /\ pc' = [pc EXCEPT ![r] = "forward"] /\ route' = [route EXCEPT ![r].outcome = "fallback"]
        /\ UNCHANGED <<setting, disturbed, lost>> /\ pc[r] \in {"route-role", "decide"}
    BY <1>4 DEF RouteGivesUp, Conclude, Goto, host, bounds
  <2>2. /\ route'[r] = [route[r] EXCEPT !.outcome = "fallback"] /\ route' \in [Requests -> RouteType]
        /\ pc'[r] = "forward"
    BY <1>1, <2>1 DEF RouteType, Outcomes
  <2>3. RouteKnows(r)'
    BY <1>1, <1>2, <2>1, <2>2 DEF RouteKnows, Seen, Chosen, Outcomes, RouteType
  <2>4. RouteSound(r)'
    BY <1>1, <1>2, <2>1, <2>2 DEF RouteKnows, RouteSound, Seen, Chosen, Honest, RouteType
  <2> QED BY <1>1, <2>1, <2>2, <2>3, <2>4, RouteStep
<1>5. CASE Decide(r)
  <2>1. PICK m \in Models, a \in Agents : route' = [route EXCEPT ![r].model = m, ![r].agent = a]
    BY <1>5 DEF Decide
  <2>2. /\ pc' = [pc EXCEPT ![r] = "switch-model"] /\ UNCHANGED <<setting, disturbed, lost>>
        /\ pc[r] = "decide"
    BY <1>5 DEF Decide, Goto, host, bounds
  <2>3. /\ route'[r] = [route[r] EXCEPT !.model = m, !.agent = a] /\ route' \in [Requests -> RouteType]
        /\ pc'[r] = "switch-model"
    BY <1>1, <2>1, <2>2 DEF RouteType
  <2>4. RouteKnows(r)' /\ RouteSound(r)'
    BY <1>1, <2>2, <2>3 DEF RouteKnows, RouteSound, Seen, Chosen, RouteType
  <2> QED BY <1>1, <2>1, <2>2, <2>3, <2>4, RouteStep
<1>6. CASE SwitchModel(r)
  <2>1. /\ pc' = [pc EXCEPT ![r] = "switch-agent"] /\ UNCHANGED <<route, lost>>
        /\ setting' = [setting EXCEPT !.model = route[r].model]
        /\ disturbed' = disturbed \cup OthersRouting(r) /\ pc[r] = "switch-model"
    BY <1>6 DEF SwitchModel, Switch, Goto, bounds
  <2>2. setting' \in Setting /\ (r \in disturbed' <=> r \in disturbed)
    BY <1>1, <2>1 DEF RouteKnows, Chosen, Setting, OthersRouting
  <2>3. RouteKnows(r)' /\ RouteSound(r)'
    BY <1>1, <2>1, <2>2 DEF RouteKnows, RouteSound, Seen, Chosen, HalfWay
  <2> QED BY <1>1, <2>1, <2>2, <2>3, RouteStep
<1>7. CASE SwitchModelFails(r)
  <2>1. /\ pc' = [pc EXCEPT ![r] = "forward"] /\ route' = [route EXCEPT ![r].outcome = "fallback"]
        /\ pc[r] = "switch-model"
    BY <1>7 DEF SwitchModelFails, Conclude, Goto
  <2> DEFINE s == [setting EXCEPT !.model = route[r].model]
  <2>2. s \in Setting
    BY <1>1, <2>1 DEF RouteKnows, Chosen, Setting
  <2>3. \/ NoSwitch /\ UNCHANGED lost
        \/ LoseReply /\ (NoSwitch \/ Switch(r, s))
    BY <1>7 DEF SwitchModelFails
  <2> HIDE DEF s
  <2>4. /\ setting' \in Setting /\ lost' \in Nat
        /\ \/ setting' = setting /\ disturbed \subseteq disturbed' \cup {r}
           \/ disturbed' = disturbed \cup OthersRouting(r)
        /\ lost' = 0 => lost = 0 /\ setting' = setting
        /\ r \in disturbed' <=> r \in disturbed
    BY <2>2, <2>3, FailedSwitch
  <2>5. /\ route'[r] = [route[r] EXCEPT !.outcome = "fallback"] /\ route' \in [Requests -> RouteType]
        /\ pc'[r] = "forward"
    BY <1>1, <2>1 DEF RouteType, Outcomes
  <2>6. RouteKnows(r)'
    BY <1>1, <2>1, <2>5 DEF RouteKnows, Seen, Chosen, Outcomes, RouteType
  <2>7. RouteSound(r)'
    BY <1>1, <2>1, <2>4, <2>5 DEF RouteSound, Honest, RouteType
  <2> QED BY <1>1, <2>1, <2>4, <2>5, <2>6, <2>7, RouteStep
<1>8. CASE SwitchAgent(r)
  <2>1. /\ pc' = [pc EXCEPT ![r] = "forward"] /\ route' = [route EXCEPT ![r].outcome = "applied"]
        /\ UNCHANGED lost /\ setting' = [setting EXCEPT !.agent = route[r].agent]
        /\ disturbed' = disturbed \cup OthersRouting(r) /\ pc[r] = "switch-agent"
    BY <1>8 DEF SwitchAgent, Switch, Conclude, Goto, bounds
  <2>2. setting' \in Setting /\ (r \in disturbed' <=> r \in disturbed)
    BY <1>1, <2>1 DEF RouteKnows, Chosen, Setting, OthersRouting
  <2>3. /\ route'[r] = [route[r] EXCEPT !.outcome = "applied"] /\ route' \in [Requests -> RouteType]
        /\ pc'[r] = "forward"
    BY <1>1, <2>1 DEF RouteType, Outcomes
  <2>4. RouteKnows(r)'
    BY <1>1, <2>1, <2>3 DEF RouteKnows, Seen, Chosen, Outcomes, RouteType
  <2>5. setting = HalfWay(r) /\ route[r].saw \in Setting /\ route[r].model \in Models =>
          setting' = [model |-> route[r].model, agent |-> route[r].agent]
    BY <2>1 DEF HalfWay, Setting
  <2>6. RouteSound(r)'
    BY <1>1, <2>1, <2>2, <2>3, <2>5 DEF RouteKnows, RouteSound, Honest, Seen, Chosen, RouteType
  <2> QED BY <1>1, <2>1, <2>2, <2>3, <2>4, <2>6, RouteStep
<1>9. CASE SwitchAgentFails(r)
  <2>1. pc[r] = "switch-agent" /\ AfterAgentFails(r)
    BY <1>9 DEF SwitchAgentFails
  <2> DEFINE s == [setting EXCEPT !.agent = route[r].agent]
  <2>2. s \in Setting
    BY <1>1, <2>1 DEF RouteKnows, Chosen, Setting
  <2>3. \/ NoSwitch /\ UNCHANGED lost
        \/ LoseReply /\ (NoSwitch \/ Switch(r, s))
    BY <1>9 DEF SwitchAgentFails
  <2> HIDE DEF s
  <2>4. /\ setting' \in Setting /\ lost' \in Nat
        /\ \/ setting' = setting /\ disturbed \subseteq disturbed' \cup {r}
           \/ disturbed' = disturbed \cup OthersRouting(r)
        /\ lost' = 0 => lost = 0 /\ setting' = setting
        /\ r \in disturbed' <=> r \in disturbed
    BY <2>2, <2>3, FailedSwitch
  <2>5. /\ route[r].saw \in Setting /\ route[r].before \in {route[r].saw.model, Unknown}
        /\ route[r].model \in Models /\ route[r].agent \in Agents
    BY <1>1, <2>1 DEF RouteKnows, Seen, Chosen
  <2>6. CASE \E outcome \in {"fallback", "partial"} :
               /\ Conclude(r, outcome)
               /\ outcome = "fallback" => route[r].before = route[r].model
    <3>1. PICK outcome \in {"fallback", "partial"} :
            /\ Conclude(r, outcome)
            /\ outcome = "fallback" => route[r].before = route[r].model
      BY <2>6
    <3>2. /\ route'[r] = [route[r] EXCEPT !.outcome = outcome] /\ route' \in [Requests -> RouteType]
          /\ pc'[r] = "forward" /\ \A q \in Requests \ {r} : pc'[q] = pc[q] /\ route'[q] = route[q]
      BY <1>1, <3>1 DEF Conclude, Goto, RouteType, Outcomes
    <3>3. RouteKnows(r)'
      BY <2>5, <3>2 DEF RouteKnows, Seen, Chosen, Outcomes, RouteType
    <3>4. outcome = "fallback" => HalfWay(r) = route[r].saw
      BY <2>5, <3>1 DEF HalfWay, Setting
    <3>5. RouteSound(r)'
      BY <1>1, <2>1, <2>4, <3>2, <3>4 DEF RouteSound, Honest, HalfWay, RouteType
    <3> QED BY <2>4, <3>2, <3>3, <3>5, RouteStep
  <2>7. CASE route[r].before \notin {route[r].model, Unknown} /\ Goto(r, "rollback") /\ UNCHANGED route
    <3>1. pc'[r] = "rollback" /\ \A q \in Requests \ {r} : pc'[q] = pc[q]
      BY <1>1, <2>7 DEF Goto
    <3>2. RouteKnows(r)' /\ RouteSound(r)'
      BY <1>1, <2>1, <2>4, <2>5, <2>7, <3>1 DEF RouteKnows, RouteSound, HalfWay, Seen, Chosen
    <3> QED BY <1>1, <2>4, <2>7, <3>1, <3>2, RouteStep
  <2> QED BY <2>1, <2>6, <2>7 DEF AfterAgentFails
<1>10. CASE Rollback(r)
  <2>1. /\ pc' = [pc EXCEPT ![r] = "forward"] /\ route' = [route EXCEPT ![r].outcome = "rolled-back"]
        /\ UNCHANGED lost /\ setting' = [setting EXCEPT !.model = route[r].before]
        /\ disturbed' = disturbed \cup OthersRouting(r) /\ pc[r] = "rollback"
    BY <1>10 DEF Rollback, Switch, Conclude, Goto, bounds
  <2>2. route[r].saw \in Setting /\ route[r].before = route[r].saw.model
    BY <1>1, <2>1 DEF RouteKnows, Seen, Chosen
  <2>3. setting' \in Setting /\ (r \in disturbed' <=> r \in disturbed)
    BY <1>1, <2>1, <2>2 DEF Setting, OthersRouting
  <2>4. /\ route'[r] = [route[r] EXCEPT !.outcome = "rolled-back"] /\ route' \in [Requests -> RouteType]
        /\ pc'[r] = "forward"
    BY <1>1, <2>1 DEF RouteType, Outcomes
  <2>5. RouteKnows(r)'
    BY <2>2, <2>4 DEF RouteKnows, Seen, Chosen, Outcomes, RouteType
  <2>6. setting = HalfWay(r) => setting' = route[r].saw
    BY <2>1, <2>2 DEF HalfWay, Setting
  <2>7. RouteSound(r)'
    BY <1>1, <2>1, <2>3, <2>4, <2>6 DEF RouteSound, Honest, RouteType
  <2> QED BY <1>1, <2>1, <2>3, <2>4, <2>5, <2>7, RouteStep
<1>11. CASE RollbackFails(r)
  <2>1. /\ pc' = [pc EXCEPT ![r] = "forward"] /\ route' = [route EXCEPT ![r].outcome = "partial"]
        /\ pc[r] = "rollback"
    BY <1>11 DEF RollbackFails, Conclude, Goto
  <2> DEFINE s == [setting EXCEPT !.model = route[r].before]
  <2>2. route[r].saw \in Setting /\ route[r].before = route[r].saw.model
    BY <1>1, <2>1 DEF RouteKnows, Seen, Chosen
  <2>3. s \in Setting
    BY <1>1, <2>2 DEF Setting
  <2>4. \/ NoSwitch /\ UNCHANGED lost
        \/ LoseReply /\ (NoSwitch \/ Switch(r, s))
    BY <1>11 DEF RollbackFails
  <2> HIDE DEF s
  <2>5. /\ setting' \in Setting /\ lost' \in Nat
        /\ \/ setting' = setting /\ disturbed \subseteq disturbed' \cup {r}
           \/ disturbed' = disturbed \cup OthersRouting(r)
        /\ lost' = 0 => lost = 0 /\ setting' = setting
        /\ r \in disturbed' <=> r \in disturbed
    BY <2>3, <2>4, FailedSwitch
  <2>6. /\ route'[r] = [route[r] EXCEPT !.outcome = "partial"] /\ route' \in [Requests -> RouteType]
        /\ pc'[r] = "forward"
    BY <1>1, <2>1 DEF RouteType, Outcomes
  <2>7. RouteKnows(r)'
    BY <2>2, <2>6 DEF RouteKnows, Seen, Chosen, Outcomes, RouteType
  <2>8. RouteSound(r)'
    BY <1>1, <2>1, <2>5, <2>6 DEF RouteSound, Honest, HalfWay, RouteType
  <2> QED BY <1>1, <2>1, <2>5, <2>6, <2>7, <2>8, RouteStep
<1>12. CASE Forward(r)
  <2>1. /\ pc' = [pc EXCEPT ![r] = "done"] /\ route' = [route EXCEPT ![r] = NoRoute]
        /\ disturbed' = disturbed \ {r} /\ UNCHANGED <<setting, lost>>
    BY <1>12 DEF Forward, Refuse, Reply, Goto, bounds
  <2>2. /\ pc'[r] = "done" /\ route'[r] = NoRoute /\ route' \in [Requests -> RouteType]
    BY <1>1, <1>2, <2>1
  <2>3. RouteKnows(r)' /\ RouteSound(r)'
    BY <2>2 DEF RouteKnows, RouteSound, Seen, Chosen
  <2> QED BY <1>1, <2>1, <2>2, <2>3, RouteStep
<1> QED BY <1>3, <1>4, <1>5, <1>6, <1>7, <1>8, <1>9, <1>10, <1>11, <1>12

LEMMA RouteInit == Init => RouteInv
  BY DEF Init, RouteInv, RouteKnows, RouteSound, RouteType, Setting, NoRoute, Seen, Chosen

LEMMA RouteNext == ASSUME IInv, RouteInv, [Next]_vars PROVE RouteInv'
<1>1. ASSUME NEW r \in Requests,
             (\E m \in Messages : Intercept(r, m)) \/ Reject(r) \/ Serve(r)
      PROVE  RouteInv'
  <2>1. CASE \/ ReadRoleForRoute(r) \/ RouteGivesUp(r) \/ Decide(r)
             \/ SwitchModel(r) \/ SwitchModelFails(r) \/ SwitchAgent(r) \/ SwitchAgentFails(r)
             \/ Rollback(r) \/ RollbackFails(r) \/ Forward(r)
    BY <2>1, RouteSteps
  <2>2. CASE \E m \in Messages : Intercept(r, m)
    <3>1. PICK m \in Messages : Intercept(r, m)
      BY <2>2
    <3>2. FirstStep(DecideAdmissionMode(m)) \in Places \ Seen
      BY ModeIsAMode DEF FirstStep, Modes, Places, Routing, Idle, Seen, Chosen
    <3>3. /\ pc' = [pc EXCEPT ![r] = FirstStep(DecideAdmissionMode(m))] /\ pc[r] = "idle"
          /\ UNCHANGED <<setting, disturbed, lost, route>>
      BY <3>1 DEF Intercept, Goto, host, bounds
    <3> QED BY <3>2, <3>3, OtherSteps DEF Seen, Chosen
  <2>3. CASE \/ Reject(r) \/ ReadRole(r) \/ RoleUnknown(r) \/ Admit(r) \/ AdmitFails(r)
             \/ SkipDuplicate(r) \/ SendRpc(r) \/ RpcAnswered(r) \/ RpcFails(r)
    <3>1. PICK to \in {"done", "forward", "admit", "lock", "rpc"} : pc' = [pc EXCEPT ![r] = to]
      <4>1. CASE RpcFails(r)
        <5>1. pc' = [q \in Requests |-> IF q \in {r} THEN "done" ELSE pc[q]]
          BY <4>1 DEF RpcFails, Abandon
        <5>2. pc' = [pc EXCEPT ![r] = "done"]
          BY <5>1 DEF IInv, TypeInv
        <5> QED BY <5>2
      <4>2. CASE ~RpcFails(r)
        BY <2>3, <4>2 DEF Reject, ReadRole, RoleUnknown, Admit, AdmitFails, SkipDuplicate, SendRpc,
             RpcAnswered, Refuse, Accept, Reply, Goto
      <4> QED BY <4>1, <4>2
    <3>2. /\ pc[r] \in {"idle", "role", "admit", "lock", "rpc"}
          /\ UNCHANGED <<setting, disturbed, route>> /\ lost' \in {lost, lost + 1}
      BY <2>3 DEF Reject, ReadRole, RoleUnknown, Admit, AdmitFails, SkipDuplicate, SendRpc,
           RpcAnswered, RpcFails, LoseReply, host, bounds
    <3>3. to \in Places \ Seen
      BY DEF Places, Idle, Admitted, Seen, Chosen
    <3> QED BY <3>1, <3>2, <3>3, OtherSteps DEF Seen, Chosen
  <2> QED BY <1>1, <2>1, <2>2, <2>3 DEF Serve
<1>2. CASE (\E r \in Requests : Plugin(r)) \/ RunEnds \/ UNCHANGED vars
  <2>1. UNCHANGED <<setting, disturbed, lost, route, pc>>
    BY <1>2 DEF Plugin, PluginRefuses, PluginAttaches, PluginIgnores, PluginStarts, PluginFails,
         RunEnds, vars, host, bounds
  <2> QED BY <2>1 DEF RouteInv, RouteKnows, RouteSound, HalfWay, Honest
<1>3. CASE Restart
  <2>1. /\ route' = [r \in Requests |-> NoRoute] /\ UNCHANGED <<setting, lost>>
        /\ pc' = [r \in Requests |-> IF r \in {q \in Requests : pc[q] # "idle"} THEN "done" ELSE pc[r]]
    BY <1>3 DEF Restart, Abandon, host
  <2>2. \A r \in Requests : pc'[r] \in {"idle", "done"} /\ route'[r] = NoRoute
    BY <2>1
  <2>3. NoRoute \in RouteType
    BY DEF NoRoute, RouteType, Outcomes
  <2> QED BY <2>1, <2>2, <2>3 DEF RouteInv, RouteKnows, RouteSound, Seen, Chosen
<1> QED BY <1>1, <1>2, <1>3 DEF Next

-----------------------------------------------------------------------------
(* Records and the count of dispatches *)

\* Recording a message keeps the records distinct and within their bound.
LEMMA PutRecordBound ==
  ASSUME records \in Seq(Record), Len(records) <= MaxRecords,
         \A i, j \in DOMAIN records : records[i].message = records[j].message => i = j,
         NEW m \in Messages, NEW state \in {"admitted", "started", "failed"},
         NEW put, put = PutRecord(m, state)
  PROVE  /\ Len(put) <= MaxRecords
         /\ \A i, j \in DOMAIN put : put[i].message = put[j].message => i = j
<1> DEFINE new == [message |-> m, state |-> state]
<1>1. new \in Record /\ new.message = m
  BY DEF Record
<1>2. Len(records) \in Nat /\ DOMAIN records = 1..Len(records) /\ MaxRecords \in Nat \ {0}
  BY GatewayAssumption
<1>3. CASE HasRecord(m)
  <2>1. put = [i \in DOMAIN records |-> IF records[i].message = m THEN new ELSE records[i]]
    BY <1>3 DEF PutRecord
  <2> HIDE DEF new
  <2>2. put = [i \in 1..Len(records) |-> IF records[i].message = m THEN new ELSE records[i]]
    BY <1>2, <2>1
  <2>3. DOMAIN put = DOMAIN records /\ \A i \in DOMAIN records : put[i].message = records[i].message
    BY <1>1, <1>2, <2>2
  <2>4. Len(put) = Len(records)
    <3>1. \A i \in 1..Len(records) : put[i] \in Record
      BY <1>1, <1>2, <2>2
    <3>2. put \in Seq(Record)
      BY <1>2, <2>2, <3>1
    <3> QED BY <1>2, <2>3, <3>2
  <2> QED BY <2>3, <2>4
<1>4. CASE ~HasRecord(m)
  <2> DEFINE kept == IF Len(records) >= MaxRecords THEN Tail(records) ELSE records
  <2>1. /\ kept \in Seq(Record) /\ Len(kept) < MaxRecords
        /\ \A i \in DOMAIN kept : kept[i].message # m
        /\ \A i, j \in DOMAIN kept : kept[i].message = kept[j].message => i = j
    <3>1. CASE Len(records) >= MaxRecords
      <4>1. records # <<>> /\ Len(records) > 0
        BY <1>2, <3>1
      <4>2. /\ Tail(records) \in Seq(Record) /\ Len(Tail(records)) = Len(records) - 1
            /\ \A i \in 1..Len(Tail(records)) : Tail(records)[i] = records[i + 1]
        BY <4>1
      <4>3. kept = Tail(records) /\ DOMAIN kept = 1..(Len(records) - 1)
        BY <1>2, <3>1, <4>2
      <4>4. \A i \in DOMAIN kept : i + 1 \in DOMAIN records /\ kept[i] = records[i + 1] /\ i \in Nat
        <5> SUFFICES ASSUME NEW i \in DOMAIN kept
                     PROVE  i + 1 \in DOMAIN records /\ kept[i] = records[i + 1] /\ i \in Nat
          OBVIOUS
        <5>1. i \in 1..(Len(records) - 1)
          BY <4>3
        <5>2. i + 1 \in 1..Len(records) /\ i \in 1..Len(Tail(records)) /\ i \in Nat
          BY <1>2, <4>2, <5>1
        <5> HIDE DEF kept
        <5> QED BY <1>2, <4>2, <4>3, <5>2
      <4> HIDE DEF kept
      <4>5. \A i, j \in DOMAIN kept : kept[i].message = kept[j].message => i = j
        <5> SUFFICES ASSUME NEW i \in DOMAIN kept, NEW j \in DOMAIN kept,
                            kept[i].message = kept[j].message
                     PROVE  i = j
          OBVIOUS
        <5>1. i + 1 = j + 1
          BY <4>4
        <5> QED BY <4>4, <5>1
      <4> QED BY <1>2, <1>4, <4>2, <4>3, <4>4, <4>5 DEF HasRecord
    <3>2. CASE ~(Len(records) >= MaxRecords)
      BY <1>2, <1>4, <3>2 DEF HasRecord
    <3> QED BY <3>1, <3>2
  <2>2. put = Append(kept, new)
    BY <1>4 DEF PutRecord
  <2> HIDE DEF kept, new
  <2>3. /\ Len(put) = Len(kept) + 1 /\ DOMAIN put = 1..(Len(kept) + 1) /\ Len(kept) \in Nat
        /\ DOMAIN kept = 1..Len(kept)
        /\ put[Len(kept) + 1] = new /\ \A i \in 1..Len(kept) : put[i] = kept[i]
    BY <1>1, <2>1, <2>2
  <2>4. ASSUME NEW i \in DOMAIN put, NEW j \in DOMAIN put, put[i].message = put[j].message
        PROVE  i = j
    <3>1. i \in 1..Len(kept) \/ i = Len(kept) + 1
      BY <2>3
    <3>2. j \in 1..Len(kept) \/ j = Len(kept) + 1
      BY <2>3
    <3> QED BY <1>1, <2>1, <2>3, <2>4, <3>1, <3>2
  <2> QED BY <1>2, <2>1, <2>3, <2>4
<1> QED BY <1>3, <1>4

\* RPCs answered with the start of a run that their handler has not counted yet.
Started == {r \in Requests : rpc[r] = "started"}

Counted ==
  /\ IsFiniteSet(Runs) /\ IsFiniteSet(Started) /\ dispatched \in Nat
  /\ refused = {} => dispatched + Cardinality(Started) <= Cardinality(Runs)

CountInv ==
  /\ binding \in {"free", "running", "awaiting-human"}
  /\ Len(records) <= MaxRecords
  /\ \A i, j \in DOMAIN records : records[i].message = records[j].message => i = j
  /\ \A r \in Requests : rpc[r] = "refused" => refused # {}
  /\ Counted

LEMMA CountInit == Init => CountInv
<1> SUFFICES ASSUME Init PROVE CountInv
  OBVIOUS
<1>1. /\ Runs = {} /\ Started = {} /\ dispatched = 0
      /\ Len(records) = 0 /\ DOMAIN records = {} /\ MaxRecords \in Nat
  BY GatewayAssumption DEF Init, Runs, Started
<1>2. Counted
  BY <1>1, FS_EmptySet DEF Counted
<1> QED BY <1>1, <1>2 DEF Init, CountInv

\* Fewer answers wait to be counted, or a dispatch that waited is counted.
LEMMA CountFalls ==
  ASSUME Counted, Runs' = Runs, refused' = refused,
         \/ Started' \subseteq Started /\ dispatched' \in {0, dispatched}
         \/ \E r \in Started : Started' = Started \ {r} /\ dispatched' = dispatched + 1
  PROVE  Counted'
<1>1. /\ IsFiniteSet(Started) /\ IsFiniteSet(Runs) /\ dispatched \in Nat
      /\ Cardinality(Started) \in Nat /\ Cardinality(Runs) \in Nat
      /\ refused = {} => dispatched + Cardinality(Started) <= Cardinality(Runs)
  BY FS_CardinalityType DEF Counted
<1>2. CASE Started' \subseteq Started /\ dispatched' \in {0, dispatched}
  <2>1. IsFiniteSet(Started') /\ Cardinality(Started') <= Cardinality(Started)
    BY <1>1, <1>2, FS_Subset
  <2>2. Cardinality(Started') \in Nat
    BY <2>1, FS_CardinalityType
  <2> QED BY <1>1, <1>2, <2>1, <2>2 DEF Counted
<1>3. CASE \E r \in Started : Started' = Started \ {r} /\ dispatched' = dispatched + 1
  <2>1. PICK r \in Started : Started' = Started \ {r} /\ dispatched' = dispatched + 1
    BY <1>3
  <2>2. IsFiniteSet(Started') /\ Cardinality(Started') = Cardinality(Started) - 1
    BY <1>1, <2>1, FS_RemoveElement
  <2> QED BY <1>1, <2>1, <2>2 DEF Counted
<1> QED BY <1>2, <1>3

\* A run is started: the count of its answer and the number of runs grow together.
LEMMA CountRises ==
  ASSUME Counted, UNCHANGED <<dispatched, refused>>, NEW r, NEW m, m \notin Runs,
         Runs' = Runs \cup {m}, Started' \subseteq Started \cup {r}
  PROVE  Counted'
<1>1. /\ IsFiniteSet(Started) /\ IsFiniteSet(Runs) /\ dispatched \in Nat
      /\ Cardinality(Started) \in Nat /\ Cardinality(Runs) \in Nat
      /\ refused = {} => dispatched + Cardinality(Started) <= Cardinality(Runs)
  BY FS_CardinalityType DEF Counted
<1>2. IsFiniteSet(Runs') /\ Cardinality(Runs') = Cardinality(Runs) + 1
  BY <1>1, FS_AddElement
<1>3. IsFiniteSet(Started \cup {r}) /\ Cardinality(Started \cup {r}) <= Cardinality(Started) + 1
  <2>1. /\ IsFiniteSet(Started \cup {r})
        /\ Cardinality(Started \cup {r}) =
             IF r \in Started THEN Cardinality(Started) ELSE Cardinality(Started) + 1
    BY <1>1, FS_AddElement
  <2> QED BY <1>1, <2>1
<1>4. /\ IsFiniteSet(Started') /\ Cardinality(Started') <= Cardinality(Started \cup {r})
  BY <1>3, FS_Subset
<1>5. Cardinality(Started') \in Nat /\ Cardinality(Started \cup {r}) \in Nat
  BY <1>3, <1>4, FS_CardinalityType
<1> QED BY <1>1, <1>2, <1>3, <1>4, <1>5 DEF Counted

LEMMA CountNext == ASSUME IInv, CountInv, [Next]_vars PROVE CountInv'
<1>0. /\ rpc \in [Requests -> Statuses] /\ records \in Seq(Record) /\ Counted
      /\ durable \in [Messages -> {"none", "binding-failed", "started", "followup-attached"}]
  BY DEF IInv, TypeInv, CountInv
<1>1. CASE UNCHANGED <<durable, rpc, refused, records, dispatched>>
  <2>1. UNCHANGED <<Runs, Started>>
    BY <1>1 DEF Runs, Started
  <2>2. Counted'
    BY <1>0, <1>1, <2>1, CountFalls
  <2>3. binding' \in {"free", "running", "awaiting-human"}
    <3>1. binding \in {"free", "running", "awaiting-human"}
      BY DEF CountInv
    <3>2. CASE binding' = binding
      BY <3>1, <3>2
    <3>3. CASE RunEnds
      BY <3>3 DEF RunEnds
    <3>4. CASE \E r \in Requests : Plugin(r)
      BY <3>1, <3>4 DEF Plugin, PluginRefuses, PluginAttaches, PluginIgnores, PluginStarts, PluginFails,
           plugin
    <3>5. CASE (\E r \in Requests : Serve(r)) \/ Restart
      BY <3>1, <3>5 DEF Serve, Forward, ReadRoleForRoute, RouteGivesUp, Decide, SwitchModel,
           SwitchModelFails, SwitchAgent, SwitchAgentFails, Rollback, RollbackFails, ReadRole,
           RoleUnknown, Admit, AdmitFails, SkipDuplicate, SendRpc, RpcAnswered, RpcFails, Restart, plugin
    <3>6. CASE \E r \in Requests : (\E m \in Messages : Intercept(r, m)) \/ Reject(r)
      BY <3>1, <3>6 DEF Intercept, Reject, plugin
    <3> QED BY <3>2, <3>3, <3>4, <3>5, <3>6 DEF Next, vars, plugin
  <2> QED BY <1>1, <2>2, <2>3 DEF CountInv
<1>2. ASSUME NEW r \in Requests, Admit(r) PROVE CountInv'
  <2>1. UNCHANGED <<durable, binding, refused, rpc, dispatched>> /\ msg[r] \in Messages
    BY <1>2 DEF Admit, plugin, IInv, PlaceSound, Idle
  <2>2. records' = records \/ records' = PutRecord(msg[r], "admitted")
    BY <1>2 DEF Admit
  <2>3. /\ Len(records') <= MaxRecords
        /\ \A i, j \in DOMAIN records' : records'[i].message = records'[j].message => i = j
    BY <1>0, <2>1, <2>2, PutRecordBound DEF CountInv
  <2>4. Counted'
    BY <1>0, <2>1, CountFalls DEF Runs, Started
  <2> QED BY <2>1, <2>3, <2>4 DEF CountInv
<1>3. ASSUME NEW r \in Requests, SendRpc(r) PROVE CountInv'
  <2>1. /\ UNCHANGED <<durable, binding, refused, records, dispatched>>
        /\ rpc' = [rpc EXCEPT ![r] = "sent"]
    BY <1>3 DEF SendRpc, plugin, gateway
  <2>2. Runs' = Runs /\ Started' \subseteq Started
    BY <1>0, <2>1 DEF Runs, Started
  <2>3. Counted'
    BY <1>0, <2>1, <2>2, CountFalls
  <2> QED BY <1>0, <2>1, <2>3 DEF CountInv
<1>4. ASSUME NEW r \in Requests, RpcAnswered(r) PROVE CountInv'
  <2>1. /\ UNCHANGED <<durable, binding, refused>> /\ rpc' = [rpc EXCEPT ![r] = "none"]
        /\ pc[r] = "rpc" /\ rpc[r] \notin {"sent", "error"}
        /\ IF IsDispatch(rpc[r])
             THEN records' = PutRecord(msg[r], "started") /\ dispatched' = dispatched + 1
             ELSE records' = records /\ dispatched' = dispatched
    BY <1>4 DEF RpcAnswered, plugin, gateway
  <2>2. msg[r] \in Messages /\ rpc[r] # "none"
    BY <2>1 DEF IInv, PlaceSound, RpcSound, Idle
  <2>3. /\ Len(records') <= MaxRecords
        /\ \A i, j \in DOMAIN records' : records'[i].message = records'[j].message => i = j
    BY <1>0, <2>1, <2>2, PutRecordBound DEF CountInv
  <2>4. Runs' = Runs /\ Started' = Started \ {r}
    BY <1>0, <2>1 DEF Runs, Started
  <2>5. Counted'
    <3>1. CASE rpc[r] = "started"
      <4>1. r \in Started /\ dispatched' = dispatched + 1
        BY <2>1, <3>1 DEF Started, IsDispatch
      <4> QED BY <1>0, <2>1, <2>4, <4>1, CountFalls
    <3>2. CASE rpc[r] \in {"followup-attached", "duplicate-ignored"}
      <4>1. dispatched' = dispatched
        BY <2>1, <3>2 DEF IsDispatch
      <4> QED BY <1>0, <2>1, <2>4, <4>1, CountFalls
    <3>3. CASE rpc[r] = "refused"
      <4>1. refused' # {} /\ dispatched' \in Nat
        BY <2>1, <3>3, <1>0 DEF CountInv, IsDispatch, Counted
      <4>2. IsFiniteSet(Started')
        BY <1>0, <2>4, FS_Subset DEF Counted
      <4> QED BY <1>0, <2>4, <4>1, <4>2 DEF Counted
    <3> QED BY <1>0, <2>1, <2>2, <3>1, <3>2, <3>3 DEF Statuses
  <2> QED BY <1>0, <2>1, <2>3, <2>5 DEF CountInv
<1>5. ASSUME NEW r \in Requests, RpcFails(r) PROVE CountInv'
  <2>1. /\ UNCHANGED <<durable, binding, refused, dispatched>> /\ pc[r] = "rpc"
        /\ records' = PutRecord(msg[r], "failed")
        /\ \A q \in Requests : rpc'[q] \in {rpc[q], "none"}
    BY <1>5 DEF RpcFails, Abandon, plugin
  <2>2. msg[r] \in Messages
    BY <2>1 DEF IInv, PlaceSound, Idle
  <2>3. /\ Len(records') <= MaxRecords
        /\ \A i, j \in DOMAIN records' : records'[i].message = records'[j].message => i = j
    BY <1>0, <2>1, <2>2, PutRecordBound DEF CountInv
  <2>4. Runs' = Runs /\ Started' \subseteq Started
    BY <1>0, <2>1 DEF Runs, Started
  <2>5. Counted'
    BY <1>0, <2>1, <2>4, CountFalls
  <2> QED BY <2>1, <2>3, <2>5 DEF CountInv
<1>6. CASE Restart
  <2>1. /\ UNCHANGED <<durable, binding, refused>> /\ dispatched' = 0 /\ records' = <<>>
        /\ \A q \in Requests : rpc'[q] \in {rpc[q], "none"}
    BY <1>6 DEF Restart, Abandon, plugin
  <2>2. Runs' = Runs /\ Started' \subseteq Started
    BY <1>0, <2>1 DEF Runs, Started
  <2>3. Counted'
    BY <1>0, <2>1, <2>2, CountFalls
  <2>4. Len(records') = 0 /\ DOMAIN records' = {} /\ MaxRecords \in Nat
    BY <2>1, GatewayAssumption
  <2> QED BY <2>1, <2>3, <2>4 DEF CountInv
<1>7. ASSUME NEW r \in Requests, Plugin(r) PROVE CountInv'
  <2>1. UNCHANGED <<records, dispatched>> /\ binding' \in {binding, "running"} /\ rpc[r] = "sent"
    BY <1>7 DEF Plugin, PluginRefuses, PluginAttaches, PluginIgnores, PluginStarts, PluginFails, plugin,
       gateway
  <2>2. msg[r] \in Messages
    BY <2>1 DEF IInv, RpcSound
  <2>3. CASE PluginStarts(r)
    <3>1. /\ UNCHANGED refused /\ Fresh(msg[r]) /\ durable' = [durable EXCEPT ![msg[r]] = "started"]
          /\ \A q \in Requests : rpc'[q] = rpc[q] \/ (q = r /\ rpc'[q] \in {"started", "none"})
      BY <1>0, <2>3 DEF PluginStarts, Handle
    <3>2. msg[r] \notin Runs /\ Runs' = Runs \cup {msg[r]} /\ Started' \subseteq Started \cup {r}
      BY <1>0, <2>2, <3>1 DEF Fresh, Runs, Started
    <3>3. Counted'
      BY <1>0, <2>1, <3>1, <3>2, CountRises
    <3> QED BY <2>1, <3>1, <3>3 DEF CountInv
  <2>4. CASE PluginRefuses(r)
    <3>1. refused' = refused \cup {msg[r]} /\ durable' = durable
          /\ \A q \in Requests : rpc'[q] = rpc[q] \/ (q = r /\ rpc'[q] \in {"refused", "none"})
      BY <1>0, <2>4 DEF PluginRefuses, Handle
    <3>2. Runs' = Runs /\ Started' \subseteq Started /\ refused' # {}
      BY <3>1 DEF Runs, Started
    <3>3. IsFiniteSet(Started')
      BY <1>0, <3>2, FS_Subset DEF Counted
    <3>4. Counted'
      BY <1>0, <2>1, <3>2, <3>3 DEF Counted
    <3> QED BY <2>1, <3>1, <3>2, <3>4 DEF CountInv
  <2>5. CASE PluginAttaches(r) \/ PluginIgnores(r) \/ PluginFails(r)
    <3>1. /\ UNCHANGED refused
          /\ \/ durable' = durable
             \/ /\ Fresh(msg[r])
                /\ durable' \in {[durable EXCEPT ![msg[r]] = state] :
                                   state \in {"followup-attached", "binding-failed"}}
          /\ \A q \in Requests : rpc'[q] = rpc[q] \/ (q = r /\ rpc'[q] \notin {"refused", "started"})
      BY <1>0, <2>5 DEF PluginAttaches, PluginIgnores, PluginFails, Handle, plugin
    <3>2. Runs' = Runs
      BY <1>0, <2>2, <3>1 DEF Runs, Fresh
    <3>3. Started' \subseteq Started
      BY <3>1 DEF Started
    <3>4. Counted'
      BY <1>0, <2>1, <3>1, <3>2, <3>3, CountFalls
    <3> QED BY <2>1, <3>1, <3>4 DEF CountInv
  <2> QED BY <1>7, <2>3, <2>4, <2>5 DEF Plugin
<1>8. CASE \E r \in Requests :
             \/ \E m \in Messages : Intercept(r, m)
             \/ Reject(r) \/ Forward(r) \/ ReadRoleForRoute(r) \/ RouteGivesUp(r) \/ Decide(r)
             \/ SwitchModel(r) \/ SwitchModelFails(r) \/ SwitchAgent(r) \/ SwitchAgentFails(r)
             \/ Rollback(r) \/ RollbackFails(r) \/ ReadRole(r) \/ RoleUnknown(r)
             \/ AdmitFails(r) \/ SkipDuplicate(r)
  <2>1. UNCHANGED <<durable, rpc, refused, records, dispatched>>
    BY <1>8 DEF Intercept, Reject, Forward, ReadRoleForRoute, RouteGivesUp, Decide, SwitchModel,
       SwitchModelFails, SwitchAgent, SwitchAgentFails, Rollback, RollbackFails, ReadRole, RoleUnknown,
       AdmitFails, SkipDuplicate, plugin, gateway
  <2> QED BY <1>1, <2>1
<1>9. CASE RunEnds \/ UNCHANGED vars
  <2>1. UNCHANGED <<durable, rpc, refused, records, dispatched>>
    BY <1>9 DEF RunEnds, vars, plugin, gateway
  <2> QED BY <1>1, <2>1
<1> QED BY <1>2, <1>3, <1>4, <1>5, <1>6, <1>7, <1>8, <1>9 DEF Next, Serve

-----------------------------------------------------------------------------
(* The theorems of routes, records and counters *)

LEMMA AllInit == Init => IInv /\ RouteInv /\ CountInv
  BY InvInit, RouteInit, CountInit

LEMMA AllNext == IInv /\ RouteInv /\ CountInv /\ [Next]_vars => (IInv /\ RouteInv /\ CountInv)'
  BY InvNext, RouteNext, CountNext

\* A prompt forwarded after an undisturbed route finds the session as reported: switched,
\* as it was, or with the model alone (gateway/server.ts, decideAndApplyRoute).
THEOREM RoutesAreHonest == Spec => []RouteIsHonest
<1>1. RouteInv => RouteIsHonest
  BY DEF RouteInv, RouteSound, Honest, RouteIsHonest
<1> QED BY <1>1, AllInit, AllNext, PTL DEF Spec

\* The counter of dispatches never runs ahead of the plugin's runs while it refuses nothing,
\* whatever is lost, evicted or answered late (gateway/server.ts, rpcDispatched).
THEOREM DispatchesAreRuns == Spec => []DispatchedIsARun
<1>1. CountInv => DispatchedIsARun
  <2>1. Counted => Cardinality(Started) \in Nat /\ Cardinality(Runs) \in Nat
    BY FS_CardinalityType DEF Counted
  <2> QED BY <2>1 DEF CountInv, Counted, DispatchedIsARun
<1> QED BY <1>1, AllInit, AllNext, PTL DEF Spec

\* The types of the gateway, the host and the plugin, and the bound of the map of records
\* (gateway/server.ts, MAX_RECORDS).
THEOREM GatewayTypeCorrect == Spec => []TypeOK
<1>1. IInv /\ RouteInv /\ CountInv => TypeOK
  BY DEF IInv, TypeInv, RouteInv, CountInv, Counted, TypeOK, Setting, Record, Statuses
<1> QED BY <1>1, AllInit, AllNext, PTL DEF Spec

=============================================================================
