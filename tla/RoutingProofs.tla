---------------------------- MODULE RoutingProofs ----------------------------
(***************************************************************************)
(* The chain of retries ends, for every pool, chain, set of agents and     *)
(* number of faults: between two losses of the record of the models tried, *)
(* none is granted twice.  The argument is the invariant RetrySound: while *)
(* a retry is at work nothing else touches the record, so what it began    *)
(* with still covers every model granted since the last loss, and what it  *)
(* chose is outside it.                                                    *)
(*                                                                         *)
(* The recorded route is true whenever no hook is at work and nothing      *)
(* parted it from the host.  The argument is RouteInv: what a hook that    *)
(* nobody overlapped knows of the setting at each of its steps, as surely  *)
(* as it read it, nobody else at work beside it to change that.            *)
(***************************************************************************)
EXTENDS Routing, SequenceTheorems, TLAPS

Steps   == {"idle", "deciding", "choosing", "model", "agent", "undo", "record", "tried"}
Working == {"model", "agent", "undo", "record", "tried"}
Origins == {"host", "record", "guess"}

Job == [step : Steps, lane : Lanes \cup {"none"}, model : Models \cup {NoModel},
        agent : Agents \cup {"none"}, before : Models \cup {NoModel},
        tried : Seq(Models), from : Origins, alone : BOOLEAN]

\* A job at work carries a lane, a model and an agent, and one that decides a lane to look in.
JobSound(h, j) ==
  /\ j.step \in Working => j.lane \in Lanes /\ j.model \in Models /\ j.agent \in Agents
  /\ j.step = "undo" => j.before \in Models
  /\ h = "retry" /\ j.step = "deciding" =>
       j.lane \in Lanes /\ j.before \in Models /\ j.agent \in Agents
  /\ j.step = "choosing" => j.lane \in Lanes /\ j.agent \in Agents
  /\ h = "retry" /\ j.step \in Working => j.model \in Free

\* What was granted since the record last lost a model is in a list of models tried.
Covers(tried) == \A i \in DOMAIN granted : i > forgotten => granted[i] \in In(tried)

RetrySound(j) ==
  /\ j.step # "idle" => Covers(j.tried)
  /\ j.step \in Working => j.model \in Free \ In(j.tried)

ChainSound == EachModelGrantedOnce /\ Covers(triedRecord)

\* RoutingTypeOK, the jobs apart.
RestOK ==
  /\ setting \in [model : Models, agent : Agents]
  /\ routeRecord \in [lane : Lanes, model : Models, agent : Agents] \cup {NoRoute}
  /\ cooling \subseteq {"decision", "switch"}
  /\ recovery \in BOOLEAN /\ strayed \in BOOLEAN /\ misread \in BOOLEAN
  /\ hookCount \in 0..MaxHooks /\ hookFaults \in 0..MaxHookFaults

IInv ==
  /\ RestOK
  /\ triedRecord \in Seq(Models) /\ granted \in Seq(Free) /\ forgotten \in 0..Len(granted)
  /\ job \in [Hooks -> Job]
  /\ \A h \in Hooks : JobSound(h, job[h])
  /\ RetrySound(job["retry"]) /\ ChainSound

LEMMA TypeOfInv == IInv => RoutingTypeOK
  BY DEF IInv, RestOK, RoutingTypeOK, Job, Steps, Origins

LEMMA InvInit == RoutingInit => IInv
<1> SUFFICES ASSUME RoutingInit PROVE IInv
  OBVIOUS
<1>1. NoJob \in Job /\ job = [h \in Hooks |-> NoJob]
  BY DEF RoutingInit, NoJob, Job, Steps, Origins, NoModel
<1>2. RestOK
  <2>1. hookCount \in 0..MaxHooks /\ hookFaults \in 0..MaxHookFaults
    BY RoutingAssumption DEF RoutingInit
  <2> QED BY <2>1 DEF RoutingInit, RestOK
<1>3. /\ granted = <<>> /\ granted \in Seq(Free) /\ Len(granted) = 0 /\ forgotten = 0
      /\ triedRecord = <<>> /\ triedRecord \in Seq(Models)
  BY DEF RoutingInit
<1>4. \A h \in Hooks : JobSound(h, job[h])
  BY <1>1 DEF JobSound, NoJob, Working
<1>5. RetrySound(job["retry"])
  BY <1>1 DEF RetrySound, NoJob, Working, Hooks
<1> QED
  BY <1>1, <1>2, <1>3, <1>4, <1>5 DEF IInv, ChainSound, Covers, EachModelGrantedOnce

LEMMA FaultsInBound == IInv /\ (hookFaults' = hookFaults \/ Fails) => hookFaults' \in 0..MaxHookFaults
  BY RoutingAssumption DEF IInv, RestOK, Fails

\* switchExecutor may fail to read the model to go back to.
LEMMA SwitchFaults ==
  ASSUME IInv, NEW before \in BeforeSwitch,
         hookFaults' = IF before = NoModel THEN hookFaults + 1 ELSE hookFaults
  PROVE  hookFaults' \in 0..MaxHookFaults
<1>1. before = NoModel => hookFaults < MaxHookFaults
  BY RoutingAssumption DEF BeforeSwitch, NoModel, IInv, RestOK
<1> QED BY <1>1, RoutingAssumption DEF IInv, RestOK

\* What a hook reads when it begins may take a fault.
LEMMA ReadFaults ==
  ASSUME IInv, NEW stored, NEW sight, NEW tried, Reads(stored, sight, tried)
  PROVE  hookFaults' \in 0..MaxHookFaults
  BY FaultsInBound DEF Reads

\* The stored route, the session and the models tried, as they can be read.
LEMMA ReadTypes ==
  ASSUME IInv
  PROVE  /\ \A stored \in {routeRecord, NoRoute} :
              /\ LaneOf(stored) \in Lanes
              /\ stored.model \in Models \cup {NoModel}
              /\ stored # NoRoute => stored.model \in Models /\ stored.agent \in Agents
         /\ \A sight \in {HostSight, RecordSight, NoSight} :
              /\ sight.model \in Models \cup {NoModel}
              /\ sight.agent \in Agents \cup {"none"}
              /\ sight.from \in Origins
         /\ \A tried \in {triedRecord, <<>>} : tried \in Seq(Models)
<1>1. \A stored \in {routeRecord, NoRoute} :
        /\ LaneOf(stored) \in Lanes
        /\ stored.model \in Models \cup {NoModel}
        /\ stored # NoRoute => stored.model \in Models /\ stored.agent \in Agents
  BY RoutingAssumption DEF LaneOf, NoRoute, IInv, RestOK
<1>2. /\ Named[setting.model] \in Models /\ setting.agent \in Agents
      /\ routeRecord.model \in Models \cup {NoModel} /\ routeRecord.agent \in Agents \cup {"none"}
  BY RoutingAssumption DEF NoRoute, IInv, RestOK
<1>3. \A sight \in {HostSight, RecordSight, NoSight} :
        /\ sight.model \in Models \cup {NoModel}
        /\ sight.agent \in Agents \cup {"none"}
        /\ sight.from \in Origins
  BY <1>2 DEF HostSight, RecordSight, NoSight, Origins
<1>4. triedRecord \in Seq(Models) /\ <<>> \in Seq(Models)
  BY DEF IInv
<1> QED BY <1>1, <1>3, <1>4

LEMMA AgentTypes ==
  ASSUME IInv, NEW stored \in {routeRecord, NoRoute}, NEW seen \in Agents \cup {"none"}
  PROVE  AgentOf(stored, seen) \in Agents
  BY ReadTypes, RoutingAssumption DEF AgentOf

\* A step that moves no job and leaves the models tried and granted alone.
LEMMA NoJobMoves ==
  ASSUME IInv, RestOK', UNCHANGED job, UNCHANGED <<triedRecord, grants>>
  PROVE  IInv'
  BY DEF IInv, RetrySound, ChainSound, Covers, EachModelGrantedOnce, grants

\* A step that moves the job of one hook and leaves the models tried and granted alone.
LEMMA OneJobMoves ==
  ASSUME IInv, RestOK', UNCHANGED <<triedRecord, grants>>,
         NEW h \in Hooks, NEW j \in Job, job' = [job EXCEPT ![h] = j],
         JobSound(h, j), h = "retry" => RetrySound(j)
  PROVE  IInv'
<1>1. job' \in [Hooks -> Job]
  BY DEF IInv
<1>2. \A g \in Hooks : job'[g] = IF g = h THEN j ELSE job[g]
  BY DEF IInv
<1>3. \A g \in Hooks : JobSound(g, job'[g])
  BY <1>2 DEF IInv
<1>4. RetrySound(job'["retry"])
  BY <1>2 DEF IInv, RetrySound, Hooks
<1>5. RetrySound(job["retry"])' /\ \A g \in Hooks : JobSound(g, job[g])'
  BY <1>3, <1>4 DEF RetrySound, Covers, JobSound, grants
<1> QED BY <1>1, <1>5 DEF IInv, ChainSound, Covers, EachModelGrantedOnce, grants

\* A hook that begins with a job, whatever it does to how alone the others are.
LEMMA OneHookBegins ==
  ASSUME IInv, RestOK', UNCHANGED <<triedRecord, granted>>,
         forgotten' \in {forgotten, Len(granted)},
         NEW h \in Hooks, NEW work \in Job, Begins(h, work),
         JobSound(h, work), h = "retry" => RetrySound(work)'
  PROVE  IInv'
<1>0. /\ Len(granted) \in Nat /\ DOMAIN granted = 1..Len(granted)
      /\ forgotten \in 0..Len(granted) /\ forgotten' \in 0..Len(granted)
      /\ \A i \in DOMAIN granted : i > forgotten' => i > forgotten
  BY DEF IInv
<1>1. job \in [Hooks -> Job]
  BY DEF IInv
<1>2. \A g \in Hooks : \E b \in BOOLEAN :
              job'[g] = [(IF g = h THEN work ELSE job[g]) EXCEPT !.alone = b]
  <2> SUFFICES ASSUME NEW g \in Hooks
               PROVE  \E b \in BOOLEAN :
                        job'[g] = [(IF g = h THEN work ELSE job[g]) EXCEPT !.alone = b]
    OBVIOUS
  <2>1. CASE g = h
    BY <1>1, <2>1 DEF Begins
  <2>2. CASE g # h
    <3>1. (job[g].alone /\ job[h].step = "idle") \in BOOLEAN
      BY <1>1 DEF Job
    <3> QED BY <2>2, <3>1 DEF Begins
  <2> QED BY <2>1, <2>2
<1>3. \A j \in Job, b \in BOOLEAN : [j EXCEPT !.alone = b] \in Job
  BY DEF Job
<1>4. DOMAIN job' = Hooks /\ job' = [g \in Hooks |-> job'[g]]
  BY DEF Begins
<1>5. \A g \in Hooks, j \in Job, b \in BOOLEAN :
        JobSound(g, j) => JobSound(g, [j EXCEPT !.alone = b])
  BY DEF JobSound, Job
<1>6. \A j \in Job, b \in BOOLEAN : RetrySound(j)' => RetrySound([j EXCEPT !.alone = b])'
  BY DEF RetrySound, Covers, Job
<1>b. RetrySound(job["retry"]) => \A j \in Job : j = job["retry"] => RetrySound(j)'
  BY <1>0 DEF RetrySound, Covers
<1>7. ASSUME NEW g \in Hooks
      PROVE  /\ job'[g] \in Job /\ JobSound(g, job'[g])
             /\ g = "retry" => RetrySound(job[g])'
  <2>1. PICK j : j = IF g = h THEN work ELSE job[g]
    OBVIOUS
  <2>2. j \in Job /\ JobSound(g, j)
    BY <2>1 DEF IInv
  <2>3. PICK b \in BOOLEAN : job'[g] = [j EXCEPT !.alone = b]
    BY <1>2, <2>1
  <2>4. g = "retry" => RetrySound(j)'
    BY <1>b, <2>1, <2>2 DEF IInv
  <2>5. PICK k : k = [j EXCEPT !.alone = b]
    OBVIOUS
  <2>6. g = "retry" => RetrySound(k)'
    BY <1>6, <2>2, <2>4, <2>5
  <2>7. g = "retry" => RetrySound(job[g])'
    BY <2>3, <2>5, <2>6
  <2> QED BY <1>3, <1>5, <2>2, <2>3, <2>7
<1>8. \A g \in Hooks : JobSound(g, job[g])'
  BY <1>7
<1>9. RetrySound(job["retry"])'
  BY <1>7 DEF Hooks
<1>10. job' \in [Hooks -> Job]
  <2>1. \A g \in Hooks : job'[g] \in Job
    BY <1>7
  <2> QED BY <1>4, <2>1
<1>11. ChainSound'
  BY <1>0 DEF IInv, ChainSound, Covers, EachModelGrantedOnce
<1> QED
  BY <1>0, <1>8, <1>9, <1>10, <1>11 DEF IInv

-----------------------------------------------------------------------------

LEMMA HookSteps ==
  ASSUME IInv, NEW h \in Hooks,
         \/ SwitchesModel(h) \/ ModelFails(h) \/ SwitchesAgent(h) \/ AgentFails(h)
         \/ Undoes(h) \/ UndoFails(h) \/ Records(h) \/ RecordFails(h)
  PROVE  IInv'
<1>1. job[h] \in Job /\ JobSound(h, job[h]) /\ (h = "retry" => RetrySound(job[h]))
  BY DEF IInv
<1>2. NoJob \in Job /\ JobSound(h, NoJob) /\ RetrySound(NoJob)
  BY DEF NoJob, Job, Steps, Origins, NoModel, JobSound, RetrySound, Working
<1>3. UNCHANGED <<triedRecord, grants>>
  BY DEF SwitchesModel, ModelFails, SwitchesAgent, AgentFails, Undoes, UndoFails, Records,
         RecordFails, routingRecords
<1>4. \E j \in Job : /\ job' = [job EXCEPT ![h] = j]
                    /\ JobSound(h, j) /\ (h = "retry" => RetrySound(j))
  <2>1. CASE job' = [job EXCEPT ![h] = NoJob]
    BY <1>2, <2>1
  <2>2. ASSUME NEW step \in Working, Goes(h, step), job[h].step \in Working,
               step = "undo" => job[h].before \in Models
        PROVE  \E j \in Job : /\ job' = [job EXCEPT ![h] = j]
                             /\ JobSound(h, j) /\ (h = "retry" => RetrySound(j))
    <3>1. [job[h] EXCEPT !.step = step] \in Job
      BY <1>1 DEF Job, Steps, Working
    <3>2. JobSound(h, [job[h] EXCEPT !.step = step])
      BY <1>1, <2>2 DEF JobSound, Job, Working
    <3>3. h = "retry" => RetrySound([job[h] EXCEPT !.step = step])
      BY <1>1, <2>2 DEF RetrySound, Job, Working
    <3>4. job' = [job EXCEPT ![h] = [job[h] EXCEPT !.step = step]]
      BY <2>2 DEF Goes, IInv
    <3> QED BY <3>1, <3>2, <3>3, <3>4
  <2>3. CASE SwitchesModel(h)
    BY <2>2, <2>3 DEF SwitchesModel, At, Working
  <2>4. CASE SwitchesAgent(h)
    BY <2>2, <2>4 DEF SwitchesAgent, At, Working
  <2>5. CASE AgentFails(h)
    <3>1. AfterAgent(h) = "undo" => job[h].before \in Models
      BY <1>1 DEF AfterAgent, Job, NoModel
    <3>2. AfterAgent(h) \in {"idle", "undo"}
      BY DEF AfterAgent
    <3> QED BY <2>1, <2>2, <2>5, <3>1, <3>2 DEF AgentFails, At, Ends, Working
  <2>6. CASE Records(h)
    BY <2>1, <2>2, <2>6 DEF Records, At, Ends, Working
  <2>7. CASE ModelFails(h) \/ Undoes(h) \/ UndoFails(h) \/ RecordFails(h)
    BY <2>1, <2>7 DEF ModelFails, Undoes, UndoFails, RecordFails, Ends
  <2> QED BY <2>3, <2>4, <2>5, <2>6, <2>7
<1>5. RestOK'
  <2>1. hookFaults' \in 0..MaxHookFaults /\ hookCount' = hookCount
    <3>1. hookCount' = hookCount /\ (hookFaults' = hookFaults \/ Fails)
      BY DEF SwitchesModel, ModelFails, SwitchesAgent, AgentFails, Undoes, UndoFails, Records,
             RecordFails
    <3> QED BY <3>1, FaultsInBound
  <2>2. setting' \in [model : Models, agent : Agents]
    BY <1>1 DEF SwitchesModel, ModelFails, SwitchesAgent, AgentFails, Undoes, UndoFails, Records,
                RecordFails, At, JobSound, Working, IInv, RestOK
  <2>3. routeRecord' \in [lane : Lanes, model : Models, agent : Agents] \cup {NoRoute}
    <3>1. CASE Records(h)
      BY <1>1, <3>1 DEF Records, At, JobSound, Working
    <3>2. CASE ~Records(h)
      BY <3>2 DEF SwitchesModel, ModelFails, SwitchesAgent, AgentFails, Undoes, UndoFails,
                  RecordFails, routingRecords, IInv, RestOK
    <3> QED BY <3>1, <3>2
  <2>4. strayed' \in BOOLEAN
    <3>1. strayed \in BOOLEAN /\ job[h].alone \in BOOLEAN
      BY <1>1 DEF Job, IInv, RestOK
    <3>2. CASE Records(h)
      BY <3>1, <3>2 DEF Records
    <3>3. CASE AgentFails(h)
      BY <3>1, <3>3 DEF AgentFails
    <3>4. CASE ~Records(h) /\ ~AgentFails(h)
      BY <3>1, <3>4 DEF SwitchesModel, ModelFails, SwitchesAgent, Undoes, UndoFails, RecordFails,
                         parted
    <3> QED BY <3>2, <3>3, <3>4
  <2>5. misread' \in BOOLEAN
    <3>1. misread \in BOOLEAN
      BY DEF IInv, RestOK
    <3>2. CASE Records(h)
      BY <3>1, <3>2 DEF Records
    <3>3. CASE ~Records(h)
      BY <3>1, <3>3 DEF SwitchesModel, ModelFails, SwitchesAgent, AgentFails, Undoes, UndoFails,
                        RecordFails, parted
    <3> QED BY <3>2, <3>3
  <2>6. recovery' = recovery /\ cooling' \subseteq {"decision", "switch"}
    <3>1. cooling \subseteq {"decision", "switch"}
      BY DEF IInv, RestOK
    <3>2. CASE Records(h)
      BY <3>1, <3>2 DEF Records
    <3>3. CASE ~Records(h)
      BY <3>1, <3>3 DEF SwitchesModel, ModelFails, SwitchesAgent, AgentFails, Undoes, UndoFails,
                        RecordFails, toolRecords
    <3> QED BY <3>2, <3>3
  <2> QED BY <2>1, <2>2, <2>3, <2>4, <2>5, <2>6 DEF IInv, RestOK
<1> QED BY <1>3, <1>4, <1>5, OneJobMoves

-----------------------------------------------------------------------------

\* The last of a list with a model more are a list that ends in it, and all of a short one.
LEMMA LastAreKept ==
  ASSUME NEW list \in Seq(Models), NEW m \in Models
  PROVE  /\ LastOf(Append(list, m)) \in Seq(Models) /\ m \in In(LastOf(Append(list, m)))
         /\ Len(list) < TriedLimit => \A x \in In(list) : x \in In(LastOf(Append(list, m)))
<1>1. PICK all : all = Append(list, m)
  OBVIOUS
<1>2. /\ all \in Seq(Models) /\ Len(all) = Len(list) + 1 /\ Len(list) \in Nat
      /\ DOMAIN all = 1..Len(list) + 1 /\ all[Len(list) + 1] = m
      /\ \A i \in DOMAIN list : i \in DOMAIN all /\ all[i] = list[i]
  BY <1>1
<1>3. CASE Len(all) <= TriedLimit
  <2>1. LastOf(all) = all
    BY <1>3 DEF LastOf
  <2>2. m \in In(all)
    <3>1. Len(list) + 1 \in DOMAIN all
      BY <1>2
    <3> QED BY <1>2, <3>1 DEF In
  <2>3. \A x \in In(list) : x \in In(all)
    BY <1>2 DEF In
  <2> QED BY <1>1, <1>2, <2>1, <2>2, <2>3
<1>4. CASE ~(Len(all) <= TriedLimit)
  <2>1. PICK first : first = Len(all) - TriedLimit + 1
    OBVIOUS
  <2>2. LastOf(all) = SubSeq(all, first, Len(all))
    BY <1>4, <2>1 DEF LastOf
  <2>3. /\ TriedLimit \in Nat /\ TriedLimit > 0 /\ Len(all) \in Nat
        /\ first \in 1..Len(all) /\ Len(all) - first + 1 = TriedLimit
        /\ first + TriedLimit - 1 = Len(all)
    BY <1>2, <1>4, <2>1, RoutingAssumption
  <2>4. /\ SubSeq(all, first, Len(all)) \in Seq(Models)
        /\ Len(SubSeq(all, first, Len(all))) = TriedLimit
        /\ SubSeq(all, first, Len(all))[TriedLimit] = all[Len(all)]
    BY <1>2, <2>3, SubSeqProperties
  <2>5. TriedLimit \in DOMAIN LastOf(all) /\ LastOf(all)[TriedLimit] = m
    BY <1>2, <2>2, <2>3, <2>4
  <2>6. ~(Len(list) < TriedLimit)
    BY <1>2, <1>4, <2>3
  <2> QED BY <1>1, <2>2, <2>4, <2>5, <2>6 DEF In
<1> QED BY <1>3, <1>4

LEMMA RetrySteps ==
  ASSUME IInv,
         RetryCalled \/ RetryChooses \/ RetryDenied \/ RetryStops \/ RetryGranted \/ RetryUnwritten
  PROVE  IInv'
<1>1. /\ "retry" \in Hooks /\ job \in [Hooks -> Job] /\ job["retry"] \in Job
      /\ JobSound("retry", job["retry"]) /\ RetrySound(job["retry"])
  BY DEF IInv, Hooks
<1>2. NoJob \in Job /\ RetrySound(NoJob) /\ \A h \in Hooks : JobSound(h, NoJob)
  BY DEF NoJob, Job, Steps, Origins, NoModel, JobSound, RetrySound, Working
<1>3. CASE RetryCalled
  <2>0. PICK stored \in {routeRecord, NoRoute}, sight \in {HostSight, RecordSight, NoSight},
             tried \in {triedRecord, <<>>} : \E lane \in {LaneOf(stored), LaneOf(routeRecord)} :
          /\ Reads(stored, sight, tried)
          /\ Begins("retry",
               [NoJob EXCEPT !.step = "deciding", !.lane = lane,
                  !.agent = AgentOf(stored, sight.agent), !.before = setting.model,
                  !.tried = IF setting.model \in In(tried) THEN tried
                            ELSE Append(tried, setting.model),
                  !.from = IF stored # NoRoute THEN "record"
                           ELSE IF sight.agent = "none" THEN "guess" ELSE sight.from])
          /\ forgotten' = IF tried = triedRecord THEN forgotten ELSE Len(granted)
          /\ UNCHANGED <<setting, routingRecords, toolRecords, granted, parted>>
    BY <1>3 DEF RetryCalled
  <2>1. PICK lane \in {LaneOf(stored), LaneOf(routeRecord)} :
          /\ Reads(stored, sight, tried)
          /\ Begins("retry",
               [NoJob EXCEPT !.step = "deciding", !.lane = lane,
                  !.agent = AgentOf(stored, sight.agent), !.before = setting.model,
                  !.tried = IF setting.model \in In(tried) THEN tried
                            ELSE Append(tried, setting.model),
                  !.from = IF stored # NoRoute THEN "record"
                           ELSE IF sight.agent = "none" THEN "guess" ELSE sight.from])
          /\ forgotten' = IF tried = triedRecord THEN forgotten ELSE Len(granted)
          /\ UNCHANGED <<setting, routingRecords, toolRecords, granted, parted>>
    BY <2>0
  <2>2. PICK all : all = IF setting.model \in In(tried) THEN tried ELSE Append(tried, setting.model)
    OBVIOUS
  <2>3. PICK from : from = IF stored # NoRoute THEN "record"
                           ELSE IF sight.agent = "none" THEN "guess" ELSE sight.from
    OBVIOUS
  <2>4. PICK work : work = [NoJob EXCEPT !.step = "deciding", !.lane = lane,
                              !.agent = AgentOf(stored, sight.agent), !.before = setting.model,
                              !.tried = all, !.from = from]
    OBVIOUS
  <2>5. Begins("retry", work)
    BY <2>1, <2>2, <2>3, <2>4
  <2>6. /\ lane \in Lanes /\ AgentOf(stored, sight.agent) \in Agents
        /\ setting.model \in Models /\ from \in Origins
    BY <2>3, ReadTypes, AgentTypes DEF IInv, RestOK, Origins
  <2>7. tried \in Seq(Models)
    BY ReadTypes
  <2>8. all \in Seq(Models) /\ \A m \in In(tried) : m \in In(all)
    <3>1. Append(tried, setting.model) \in Seq(Models)
      BY <2>6, <2>7
    <3>2. \A i \in DOMAIN tried : /\ i \in DOMAIN Append(tried, setting.model)
                                  /\ Append(tried, setting.model)[i] = tried[i]
      BY <2>6, <2>7
    <3> QED BY <2>2, <2>7, <3>1, <3>2 DEF In
  <2>9. work \in Job
    BY <2>4, <2>6, <2>8 DEF NoJob, Job, Steps, Origins, NoModel
  <2>10. /\ work.step = "deciding" /\ work.lane = lane /\ work.tried = all
         /\ work.agent = AgentOf(stored, sight.agent) /\ work.before = setting.model
    BY <2>4 DEF NoJob
  <2>11. JobSound("retry", work)
    BY <2>6, <2>10 DEF JobSound, Working
  <2>12. RetrySound(work)'
    <3>1. granted' = granted /\ Len(granted) \in Nat /\ DOMAIN granted = 1..Len(granted)
      BY <2>1 DEF IInv
    <3>2. Covers(triedRecord) /\ forgotten' = IF tried = triedRecord THEN forgotten ELSE Len(granted)
      BY <2>1 DEF IInv, ChainSound
    <3>3. Covers(work.tried)'
      BY <2>8, <2>10, <3>1, <3>2 DEF Covers
    <3> QED BY <2>10, <3>3 DEF RetrySound, Working
  <2>13. RestOK' /\ UNCHANGED <<triedRecord, granted>> /\ forgotten' \in {forgotten, Len(granted)}
    <3>1. hookCount' \in 0..MaxHooks
      BY <2>5, RoutingAssumption DEF Begins, IInv, RestOK
    <3>2. hookFaults' \in 0..MaxHookFaults
      BY <2>1, ReadFaults
    <3> QED BY <2>1, <3>1, <3>2 DEF routingRecords, toolRecords, parted, IInv, RestOK
  <2> QED BY <1>1, <2>5, <2>9, <2>11, <2>12, <2>13, OneHookBegins
<1>4. CASE RetryChooses
  <2>1. PICK model \in Candidates("retry") :
          job' = [job EXCEPT !["retry"].model = model, !["retry"].step = "model"]
    BY <1>4 DEF RetryChooses
  <2> DEFINE j == [job["retry"] EXCEPT !.model = model, !.step = "model"]
  <2>2. job["retry"].step = "deciding" /\ job["retry"].lane \in Lanes /\ job["retry"].agent \in Agents
    BY <1>1, <1>4 DEF RetryChooses, At, JobSound
  <2>3. model \in Free /\ model \notin In(job["retry"].tried) /\ Free \subseteq Models
    <3>1. Chain[job["retry"].lane] \in Seq(Free)
      BY <2>2, RoutingAssumption
    <3>2. ChainModels(job["retry"].lane) \subseteq Free
      BY <3>1 DEF ChainModels, In
    <3> QED BY <2>1, <3>2, RoutingAssumption DEF Candidates
  <2>4. j \in Job
    BY <1>1, <2>3 DEF Job, Steps
  <2>5. JobSound("retry", j) /\ RetrySound(j)
    BY <1>1, <2>2, <2>3 DEF JobSound, RetrySound, Working, Job
  <2>6. job' = [job EXCEPT !["retry"] = j]
    BY <1>1, <2>1
  <2>7. RestOK' /\ UNCHANGED <<triedRecord, grants>>
    BY <1>4 DEF RetryChooses, routingRecords, toolRecords, parted, IInv, RestOK
  <2> HIDE DEF j
  <2> QED BY <1>1, <2>4, <2>5, <2>6, <2>7, OneJobMoves
<1>5. CASE RetryDenied
  <2>1. RestOK' /\ UNCHANGED <<triedRecord, grants>> /\ job' = [job EXCEPT !["retry"] = NoJob]
    BY <1>5 DEF RetryDenied, routingRecords, toolRecords, parted, IInv, RestOK, Ends
  <2> QED BY <1>1, <1>2, <2>1, OneJobMoves
<1>6. ASSUME RetryStops \/ RetryGranted \/ RetryUnwritten PROVE IInv'
  <2>1. job' = [job EXCEPT !["retry"] = NoJob]
    BY <1>6 DEF RetryStops, RetryGranted, RetryUnwritten, Ends
  <2>2. job' \in [Hooks -> Job] /\ \A h \in Hooks : JobSound(h, job[h])'
    BY <1>1, <1>2, <2>1 DEF IInv
  <2>3. RetrySound(job["retry"])'
    BY <1>1, <2>1 DEF RetrySound, NoJob, Working
  <2>4. /\ job["retry"].tried \in Seq(Models) /\ Covers(job["retry"].tried)
        /\ Covers(triedRecord) /\ EachModelGrantedOnce
    BY <1>1, <1>6 DEF RetryStops, RetryGranted, RetryUnwritten, At, RetrySound, Job, IInv, ChainSound
  <2>5. RestOK'
    <3>1. hookFaults' \in 0..MaxHookFaults
      BY <1>6, FaultsInBound DEF RetryStops, RetryGranted, RetryUnwritten
    <3> QED BY <1>6, <3>1
            DEF RetryStops, RetryGranted, RetryUnwritten, toolRecords, parted, IInv, RestOK
  <2>6. /\ granted \in Seq(Free) /\ Len(granted) \in Nat /\ DOMAIN granted = 1..Len(granted)
        /\ forgotten \in 0..Len(granted) /\ triedRecord \in Seq(Models)
    BY DEF IInv
  <2>7. ASSUME job["retry"].step = "tried", WritesTried
        PROVE  /\ job["retry"].model \in Free \ In(job["retry"].tried)
               /\ triedRecord' \in Seq(Models) /\ job["retry"].model \in In(triedRecord')
               /\ forgotten' \in {forgotten, Len(granted)}
               /\ \A i \in DOMAIN granted : i > forgotten' => granted[i] \in In(triedRecord')
    <3>1. job["retry"].model \in Free \ In(job["retry"].tried) /\ job["retry"].model \in Models
      BY <1>1, <2>7, RoutingAssumption DEF RetrySound, Working
    <3>2. NowTried \in Seq(Models) /\ job["retry"].model \in In(NowTried)
      BY <2>4, <3>1, LastAreKept DEF NowTried
    <3>3. Len(job["retry"].tried) < TriedLimit =>
            \A m \in In(job["retry"].tried) : m \in In(NowTried)
      BY <2>4, <3>1, LastAreKept DEF NowTried
    <3>4. CASE Len(job["retry"].tried) < TriedLimit
      <4>1. forgotten' = forgotten
        BY <2>4, <3>4, RoutingAssumption, <2>7 DEF WritesTried
      <4> QED BY <2>4, <2>7, <3>1, <3>2, <3>3, <3>4, <4>1 DEF WritesTried, Covers
    <3>5. CASE ~(Len(job["retry"].tried) < TriedLimit)
      <4>1. Len(job["retry"].tried) >= TriedLimit
        BY <2>4, <3>5, RoutingAssumption
      <4> QED BY <2>6, <2>7, <3>1, <3>2, <4>1 DEF WritesTried
    <3> QED BY <3>4, <3>5
  <2>8. CASE RetryGranted
    <3>1. /\ job["retry"].model \in Free \ In(job["retry"].tried)
          /\ triedRecord' \in Seq(Models) /\ job["retry"].model \in In(triedRecord')
          /\ forgotten' \in {forgotten, Len(granted)}
          /\ \A i \in DOMAIN granted : i > forgotten' => granted[i] \in In(triedRecord')
      BY <2>7, <2>8 DEF RetryGranted, At
    <3>2. granted' = Append(granted, job["retry"].model)
      BY <2>8 DEF RetryGranted
    <3>3. /\ granted' \in Seq(Free) /\ Len(granted') = Len(granted) + 1
          /\ DOMAIN granted' = 1..Len(granted) + 1
          /\ \A i \in 1..Len(granted) : granted'[i] = granted[i]
          /\ granted'[Len(granted) + 1] = job["retry"].model
      BY <2>6, <3>1, <3>2
    <3>4. forgotten' \in 0..Len(granted')
      BY <2>6, <3>1, <3>3
    <3>5. ASSUME NEW i \in DOMAIN granted', i > forgotten' PROVE granted'[i] \in In(triedRecord')
      <4>1. CASE i = Len(granted) + 1
        BY <3>1, <3>3, <4>1
      <4>2. CASE i # Len(granted) + 1
        <5>1. i \in 1..Len(granted)
          BY <2>6, <3>3, <3>5, <4>2
        <5> QED BY <2>6, <3>1, <3>3, <3>5, <5>1
      <4> QED BY <4>1, <4>2
    <3>6. EachModelGrantedOnce'
      <4> SUFFICES ASSUME NEW i \in DOMAIN granted', NEW k \in DOMAIN granted',
                          i > forgotten', k > forgotten', granted'[i] = granted'[k], i # k
                   PROVE  FALSE
        BY DEF EachModelGrantedOnce
      <4>0. \A n \in 1..Len(granted) : n > forgotten' => granted[n] # job["retry"].model
        <5> SUFFICES ASSUME NEW n \in 1..Len(granted), n > forgotten'
                     PROVE  granted[n] # job["retry"].model
          OBVIOUS
        <5>1. n > forgotten
          BY <2>6, <3>1
        <5>2. granted[n] \in In(job["retry"].tried)
          BY <2>4, <2>6, <5>1 DEF Covers
        <5> QED BY <3>1, <5>2
      <4>1. i \in 1..Len(granted) + 1 /\ k \in 1..Len(granted) + 1
        BY <3>3
      <4>2. CASE i \in 1..Len(granted) /\ k \in 1..Len(granted)
        <5>1. i > forgotten /\ k > forgotten
          BY <2>6, <3>1, <4>2
        <5> QED BY <2>4, <2>6, <3>3, <4>2, <5>1 DEF EachModelGrantedOnce
      <4>3. CASE i = Len(granted) + 1 /\ k \in 1..Len(granted)
        BY <3>3, <4>0, <4>3
      <4>4. CASE k = Len(granted) + 1 /\ i \in 1..Len(granted)
        BY <3>3, <4>0, <4>4
      <4> QED BY <2>6, <4>1, <4>2, <4>3, <4>4
    <3>7. Covers(triedRecord)'
      BY <3>5 DEF Covers
    <3> QED BY <2>2, <2>3, <2>5, <3>1, <3>3, <3>4, <3>6, <3>7 DEF IInv, ChainSound
  <2>9. ASSUME granted' = granted, triedRecord' \in Seq(Models),
               forgotten' \in {forgotten, Len(granted)},
               \A i \in DOMAIN granted : i > forgotten' => granted[i] \in In(triedRecord')
        PROVE  IInv'
    <3>1. Covers(triedRecord)' /\ forgotten' \in 0..Len(granted')
      BY <2>6, <2>9 DEF Covers
    <3>2. EachModelGrantedOnce'
      <4>1. \A i \in DOMAIN granted' : i > forgotten' => i \in DOMAIN granted /\ i > forgotten
        BY <2>6, <2>9
      <4> QED BY <2>4, <2>9, <4>1 DEF EachModelGrantedOnce
    <3> QED BY <2>2, <2>3, <2>5, <2>6, <2>9, <3>1, <3>2 DEF IInv, ChainSound
  <2>10. CASE RetryStops
    <3>1. forgotten' = forgotten /\ granted' = granted /\ triedRecord' \in {triedRecord, job["retry"].tried}
      BY <2>10 DEF RetryStops, grants
    <3> QED BY <2>4, <2>6, <2>9, <3>1 DEF Covers
  <2>11. CASE RetryUnwritten
    <3>1. granted' = granted /\ job["retry"].step = "tried"
      BY <2>11 DEF RetryUnwritten, At
    <3>2. CASE WritesTried
      BY <2>7, <2>9, <3>1, <3>2
    <3>3. CASE UNCHANGED <<triedRecord, forgotten>>
      BY <2>4, <2>6, <2>9, <3>1, <3>3 DEF Covers
    <3> QED BY <2>11, <3>2, <3>3 DEF RetryUnwritten
  <2> QED BY <1>6, <2>8, <2>10, <2>11
<1> QED BY <1>3, <1>4, <1>5, <1>6

-----------------------------------------------------------------------------

LEMMA PromptSteps ==
  ASSUME IInv, PromptCalled \/ PromptSame \/ PromptSwitches \/ PromptUnrouted
  PROVE  IInv'
<1>1. /\ "prompt" \in Hooks /\ job \in [Hooks -> Job] /\ job["prompt"] \in Job
      /\ JobSound("prompt", job["prompt"])
  BY DEF IInv, Hooks
<1>2. NoJob \in Job /\ JobSound("prompt", NoJob)
  BY DEF NoJob, Job, Steps, Origins, NoModel, JobSound, Working
<1>3. CASE PromptCalled
  <2>1. PICK stored \in {routeRecord, NoRoute} :
          /\ IF stored = routeRecord THEN UNCHANGED hookFaults ELSE Fails
          /\ Begins("prompt", [NoJob EXCEPT !.step = "deciding", !.lane = stored.lane,
                                 !.model = stored.model, !.agent = stored.agent])
    BY <1>3 DEF PromptCalled
  <2>2. PICK work : work = [NoJob EXCEPT !.step = "deciding", !.lane = stored.lane,
                                 !.model = stored.model, !.agent = stored.agent]
    OBVIOUS
  <2>3. work \in Job
    <3>1. /\ stored.lane \in Lanes \cup {"none"} /\ stored.agent \in Agents \cup {"none"}
          /\ stored.model \in Models \cup {NoModel}
      BY DEF NoRoute, IInv, RestOK
    <3> QED BY <1>2, <2>2, <3>1 DEF Job, Steps
  <2>4. JobSound("prompt", work)
    BY <2>2 DEF NoJob, JobSound, Working
  <2>5. Begins("prompt", work)
    BY <2>1, <2>2
  <2>6. hookCount' \in 0..MaxHooks /\ hookFaults' \in 0..MaxHookFaults
    <3>1. hookCount' \in 0..MaxHooks
      BY <2>5, RoutingAssumption DEF Begins, IInv, RestOK
    <3> QED BY <2>1, <3>1, FaultsInBound
  <2>7. RestOK' /\ UNCHANGED <<triedRecord, granted>> /\ forgotten' \in {forgotten, Len(granted)}
    BY <1>3, <2>6 DEF PromptCalled, routingRecords, toolRecords, parted, grants, IInv, RestOK
  <2> QED BY <1>1, <2>3, <2>4, <2>5, <2>7, OneHookBegins
<1>4. CASE PromptSame \/ PromptUnrouted
  <2>1. RestOK' /\ UNCHANGED <<triedRecord, grants>> /\ job' = [job EXCEPT !["prompt"] = NoJob]
    BY <1>4 DEF PromptSame, PromptUnrouted, routingRecords, toolRecords, parted, IInv, RestOK, Ends
  <2> QED BY <1>1, <1>2, <2>1, OneJobMoves
<1>5. CASE PromptSwitches
  <2>1. PICK lane \in Lanes, chosen \in Free, agent \in Agents, before \in BeforeSwitch :
        \E model \in {chosen} \cup ChainModels(lane) :
          /\ job' = [job EXCEPT !["prompt"] =
               [@ EXCEPT !.step = "model", !.lane = lane, !.model = model, !.agent = agent,
                  !.before = before]]
          /\ hookFaults' = IF before = NoModel THEN hookFaults + 1 ELSE hookFaults
    BY <1>5 DEF PromptSwitches
  <2>2. PICK model \in {chosen} \cup ChainModels(lane) :
          /\ job' = [job EXCEPT !["prompt"] =
               [@ EXCEPT !.step = "model", !.lane = lane, !.model = model, !.agent = agent,
                  !.before = before]]
          /\ hookFaults' = IF before = NoModel THEN hookFaults + 1 ELSE hookFaults
    BY <2>1
  <2> DEFINE j == [job["prompt"] EXCEPT !.step = "model", !.lane = lane, !.model = model,
                     !.agent = agent, !.before = before]
  <2>3. model \in Models
    <3>1. Chain[lane] \in Seq(Free) /\ Free \subseteq Models
      BY RoutingAssumption
    <3>2. ChainModels(lane) \subseteq Models
      BY <3>1 DEF ChainModels, In
    <3> QED BY <3>1, <3>2
  <2>4. before \in Models \cup {NoModel}
    BY DEF BeforeSwitch, IInv, RestOK
  <2>5. j \in Job
    BY <1>1, <2>3, <2>4 DEF Job, Steps
  <2>6. JobSound("prompt", j)
    BY <1>1, <2>3 DEF JobSound, Job
  <2>7. job' = [job EXCEPT !["prompt"] = j]
    BY <2>2
  <2>8. hookFaults' \in 0..MaxHookFaults
    BY <1>5, <2>2, SwitchFaults
  <2>9. RestOK' /\ UNCHANGED <<triedRecord, grants>>
    BY <1>5, <2>8 DEF PromptSwitches, routingRecords, toolRecords, parted, IInv, RestOK
  <2> HIDE DEF j
  <2> QED BY <1>1, <2>5, <2>6, <2>7, <2>9, OneJobMoves
<1> QED BY <1>3, <1>4, <1>5

LEMMA ToolSteps ==
  ASSUME IInv,
         ToolAsks \/ ToolChoosesModel \/ ToolSwitchesModel \/ ToolSwitchesAgent \/ ToolAdvises
  PROVE  IInv'
<1>1. /\ "tool" \in Hooks /\ job \in [Hooks -> Job] /\ job["tool"] \in Job
      /\ JobSound("tool", job["tool"])
  BY DEF IInv, Hooks
<1>2. NoJob \in Job /\ JobSound("tool", NoJob)
  BY DEF NoJob, Job, Steps, Origins, NoModel, JobSound, Working
<1>3. CASE ToolAsks
  <2>1. PICK sight \in {HostSight, RecordSight, NoSight}, tried \in {triedRecord, <<>>} :
          /\ Reads(routeRecord, sight, tried)
          /\ Begins("tool", [NoJob EXCEPT !.step = "deciding", !.before = sight.model,
               !.agent = sight.agent, !.tried = tried,
               !.from = IF sight = HostSight /\ sight.model # setting.model THEN "guess"
                        ELSE sight.from])
    BY <1>3 DEF ToolAsks
  <2>2. PICK from : from = IF sight = HostSight /\ sight.model # setting.model THEN "guess"
                           ELSE sight.from
    OBVIOUS
  <2>3. PICK work : work = [NoJob EXCEPT !.step = "deciding", !.before = sight.model,
                              !.agent = sight.agent, !.tried = tried, !.from = from]
    OBVIOUS
  <2>4. work \in Job
    <3>1. /\ sight.model \in Models \cup {NoModel} /\ sight.agent \in Agents \cup {"none"}
          /\ tried \in Seq(Models) /\ from \in Origins
      BY <2>2, ReadTypes DEF Origins
    <3> QED BY <2>3, <3>1 DEF NoJob, Job, Steps, Origins, NoModel
  <2>5. JobSound("tool", work)
    BY <2>3 DEF NoJob, JobSound, Working
  <2>6. Begins("tool", work)
    BY <2>1, <2>2, <2>3
  <2>7. hookCount' \in 0..MaxHooks /\ hookFaults' \in 0..MaxHookFaults
    <3>1. hookCount' \in 0..MaxHooks
      BY <2>6, RoutingAssumption DEF Begins, IInv, RestOK
    <3> QED BY <2>1, <3>1, ReadFaults
  <2>8. RestOK' /\ UNCHANGED <<triedRecord, granted>> /\ forgotten' \in {forgotten, Len(granted)}
    BY <1>3, <2>7 DEF ToolAsks, routingRecords, parted, grants, IInv, RestOK
  <2> QED BY <1>1, <2>4, <2>5, <2>6, <2>8, OneHookBegins
<1>4. CASE ToolChoosesModel
  <2>1. PICK stored \in {routeRecord, NoRoute} :
          /\ ToolReads(stored)
          /\ job' = [job EXCEPT !["tool"] =
               [job["tool"] EXCEPT !.step = "choosing", !.lane = LaneOf(stored),
                  !.before = ModelOf(stored), !.agent = AgentOf(stored, job["tool"].agent),
                  !.from = "host"]]
    BY <1>4 DEF ToolChoosesModel
  <2>2. PICK j : j = [job["tool"] EXCEPT !.step = "choosing", !.lane = LaneOf(stored),
                        !.before = ModelOf(stored), !.agent = AgentOf(stored, job["tool"].agent),
                        !.from = "host"]
    OBVIOUS
  <2>3. /\ LaneOf(stored) \in Lanes /\ AgentOf(stored, job["tool"].agent) \in Agents
        /\ ModelOf(stored) \in Models \cup {NoModel}
    BY <1>1, ReadTypes, AgentTypes DEF Job, ModelOf
  <2>4. j \in Job
    BY <1>1, <2>2, <2>3 DEF Job, Steps, Origins
  <2>5. JobSound("tool", j)
    BY <1>1, <2>2, <2>3 DEF JobSound, Job, Working
  <2>6. job' = [job EXCEPT !["tool"] = j]
    BY <1>1, <2>1, <2>2
  <2>7. RestOK' /\ UNCHANGED <<triedRecord, grants>>
    <3>1. hookFaults' \in 0..MaxHookFaults
      BY <2>1, FaultsInBound DEF ToolReads
    <3> QED BY <2>1, <3>1 DEF ToolReads, routingRecords, toolRecords, parted, IInv, RestOK
  <2> QED BY <1>1, <2>4, <2>5, <2>6, <2>7, OneJobMoves
<1>5. CASE ToolSwitchesModel
  <2>1. PICK model \in Candidates("tool"), agent \in {job["tool"].agent, DefaultAgent},
             before \in BeforeSwitch :
          /\ job' = [job EXCEPT !["tool"].model = model, !["tool"].agent = agent,
                                !["tool"].before = before, !["tool"].step = "model"]
          /\ hookFaults' = IF before = NoModel THEN hookFaults + 1 ELSE hookFaults
    BY <1>5 DEF ToolSwitchesModel
  <2> DEFINE j == [job["tool"] EXCEPT !.model = model, !.agent = agent, !.before = before,
                     !.step = "model"]
  <2>2. job["tool"].lane \in Lanes /\ job["tool"].agent \in Agents
    BY <1>1, <1>5 DEF ToolSwitchesModel, At, JobSound
  <2>3. model \in Models /\ agent \in Agents
    <3>1. Chain[job["tool"].lane] \in Seq(Free) /\ Free \subseteq Models
      BY <2>2, RoutingAssumption
    <3>2. ChainModels(job["tool"].lane) \subseteq Models
      BY <3>1 DEF ChainModels, In
    <3> QED BY <2>2, <3>2, RoutingAssumption DEF Candidates
  <2>4. before \in Models \cup {NoModel}
    BY DEF BeforeSwitch, IInv, RestOK
  <2>5. j \in Job
    BY <1>1, <2>3, <2>4 DEF Job, Steps
  <2>6. JobSound("tool", j)
    BY <1>1, <2>2, <2>3 DEF JobSound, Job
  <2>7. job' = [job EXCEPT !["tool"] = j]
    BY <1>1, <2>1
  <2>8. hookFaults' \in 0..MaxHookFaults
    BY <2>1, SwitchFaults
  <2>9. RestOK' /\ UNCHANGED <<triedRecord, grants>>
    BY <1>5, <2>8 DEF ToolSwitchesModel, routingRecords, toolRecords, parted, IInv, RestOK
  <2> HIDE DEF j
  <2> QED BY <1>1, <2>5, <2>6, <2>7, <2>9, OneJobMoves
<1>6. CASE ToolSwitchesAgent
  <2>1. PICK stored \in {routeRecord, NoRoute}, agent \in Agents :
          /\ ToolReads(stored) /\ ModelOf(stored) # NoModel
          /\ job' = [job EXCEPT !["tool"] =
               [job["tool"] EXCEPT !.step = "agent", !.lane = LaneOf(stored),
                  !.model = ModelOf(stored), !.agent = agent, !.before = ModelOf(stored),
                  !.from = IF job["tool"].before = NoModel THEN "record" ELSE job["tool"].from]]
    BY <1>6 DEF ToolSwitchesAgent
  <2>2. PICK j : j = [job["tool"] EXCEPT !.step = "agent", !.lane = LaneOf(stored),
                  !.model = ModelOf(stored), !.agent = agent, !.before = ModelOf(stored),
                  !.from = IF job["tool"].before = NoModel THEN "record" ELSE job["tool"].from]
    OBVIOUS
  <2>3. LaneOf(stored) \in Lanes /\ ModelOf(stored) \in Models
    BY <1>1, <2>1, ReadTypes DEF Job, ModelOf
  <2>4. j \in Job
    BY <1>1, <2>2, <2>3 DEF Job, Steps, Origins
  <2>5. JobSound("tool", j)
    BY <1>1, <2>2, <2>3 DEF JobSound, Job
  <2>6. job' = [job EXCEPT !["tool"] = j]
    BY <1>1, <2>1, <2>2
  <2>7. RestOK' /\ UNCHANGED <<triedRecord, grants>>
    <3>1. hookFaults' \in 0..MaxHookFaults
      BY <2>1, FaultsInBound DEF ToolReads
    <3> QED BY <2>1, <3>1 DEF ToolReads, routingRecords, toolRecords, parted, IInv, RestOK
  <2> QED BY <1>1, <2>4, <2>5, <2>6, <2>7, OneJobMoves
<1>7. CASE ToolAdvises
  <2>1. RestOK' /\ UNCHANGED <<triedRecord, grants>> /\ job' = [job EXCEPT !["tool"] = NoJob]
    BY <1>7 DEF ToolAdvises, At, routingRecords, parted, IInv, RestOK, Ends
  <2> QED BY <1>1, <1>2, <2>1, OneJobMoves
<1> QED BY <1>3, <1>4, <1>5, <1>6, <1>7

LEMMA InvNext == IInv /\ [RoutingNext]_routingVars => IInv'
<1> SUFFICES ASSUME IInv, [RoutingNext]_routingVars PROVE IInv'
  OBVIOUS
<1>1. CASE ContextBuilt
  <2>1. hookFaults' \in 0..MaxHookFaults
    BY <1>1, FaultsInBound DEF ContextBuilt
  <2>2. RestOK'
    BY <1>1, <2>1 DEF ContextBuilt, routingRecords, parted, IInv, RestOK
  <2>3. job' = job /\ UNCHANGED <<triedRecord, grants>>
    BY <1>1 DEF ContextBuilt, routingRecords
  <2> QED BY <2>2, <2>3, NoJobMoves
<1>2. CASE Expires
  <2>1. RestOK'
    BY <1>2 DEF Expires, routingRecords, parted, IInv, RestOK
  <2>2. job' = job /\ UNCHANGED <<triedRecord, grants>>
    BY <1>2 DEF Expires, routingRecords
  <2> QED BY <2>1, <2>2, NoJobMoves
<1>3. CASE UserChooses
  <2>1. hookCount' \in 0..MaxHooks
    BY <1>3, RoutingAssumption DEF UserChooses, IInv, RestOK
  <2>2. RestOK'
    BY <1>3, <2>1 DEF UserChooses, routingRecords, toolRecords, parted, IInv, RestOK
  <2>3. UNCHANGED <<triedRecord, granted, forgotten>>
    BY <1>3 DEF UserChooses, routingRecords, grants
  <2>4. ASSUME NEW h \in Hooks
        PROVE  /\ job'[h] \in Job /\ JobSound(h, job'[h])
               /\ h = "retry" => RetrySound(job'[h])
    <3>1. job[h] \in Job /\ JobSound(h, job[h]) /\ (h = "retry" => RetrySound(job[h]))
      BY DEF IInv
    <3>2. PICK b \in BOOLEAN : job'[h] = [job[h] EXCEPT !.alone = b]
      BY <1>3, <3>1 DEF UserChooses, Job
    <3> QED BY <3>1, <3>2 DEF Job, JobSound, RetrySound
  <2>5. DOMAIN job' = Hooks /\ job' = [h \in Hooks |-> job'[h]]
    BY <1>3 DEF UserChooses
  <2>6. job' \in [Hooks -> Job] /\ \A h \in Hooks : JobSound(h, job[h])'
    <3>1. (\A h \in Hooks : job'[h] \in Job) /\ \A h \in Hooks : JobSound(h, job'[h])
      BY <2>4
    <3> QED BY <2>5, <3>1
  <2>7. RetrySound(job["retry"])'
    <3>1. RetrySound(job'["retry"])
      BY <2>4 DEF Hooks
    <3> QED BY <2>3, <3>1 DEF RetrySound, Covers
  <2> QED BY <2>2, <2>3, <2>6, <2>7 DEF IInv, ChainSound, Covers, EachModelGrantedOnce
<1>4. CASE UNCHANGED routingVars
  BY <1>4 DEF routingVars, routingRecords, toolRecords, parted, grants, IInv, RestOK, RetrySound,
              ChainSound, Covers, EachModelGrantedOnce
<1> QED
  BY <1>1, <1>2, <1>3, <1>4, HookSteps, RetrySteps, PromptSteps, ToolSteps DEF RoutingNext

-----------------------------------------------------------------------------
(* The recorded route *)

Clean == {"idle", "deciding", "choosing", "model", "tried"}

\* Nothing has parted the record from the host.
Faithful == ~strayed /\ ~misread

\* The record says what the session runs on.
Agrees ==
  routeRecord # NoRoute =>
    routeRecord.model = setting.model /\ routeRecord.agent = setting.agent

\* What a hook keeps of the session, it read of the host, or of a record that is true.
Sure(j) == j.from = "host" \/ (j.from = "record" /\ Faithful)

\* While only the model was switched the record has the session's agent, and the model that
\* is to be gone back to, if one is.
BackTrue(j) ==
  Faithful /\ routeRecord # NoRoute =>
    /\ routeRecord.agent = setting.agent
    /\ j.before = j.model => routeRecord.model = setting.model
    /\ j.before \notin {NoModel, j.model} => routeRecord.model = j.before

\* What a hook that nobody overlapped knows of the setting.
AloneSound(h, j) ==
  j.alone =>
    /\ h = "tool" /\ j.step = "deciding" /\ j.before # NoModel /\ Sure(j) =>
         j.before = setting.model
    /\ h = "retry" /\ j.step \in {"deciding", "model"} /\ Sure(j) => j.agent = setting.agent
    /\ h = "tool" /\ j.step = "choosing" => j.from = "host"
    /\ h = "prompt" /\ j.step = "deciding" => j.from = "host"
    /\ h # "retry" /\ j.step = "model" =>
         j.before \in {NoModel, setting.model} /\ j.from = "host"
    /\ j.step = "agent" => (Sure(j) => setting.model = j.model) /\ BackTrue(j)
    /\ j.step = "undo" => BackTrue(j) /\ j.before # j.model
    /\ j.step = "record" /\ Sure(j) => setting.model = j.model /\ setting.agent = j.agent

\* Nobody is at work beside a hook that is alone.
AloneIsAlone ==
  \A h, g \in Hooks :
    h # g /\ job[h].alone /\ job[h].step # "idle" => job[g].step = "idle"

\* The record is true whenever no hook is between its switch and its record, and every hook
\* that is alone there leaves it so.
RouteInv ==
  /\ AloneIsAlone
  /\ \A h \in Hooks : AloneSound(h, job[h])
  /\ Faithful /\ (\A h \in Hooks : job[h].step \in Clean) => Agrees

LEMMA RouteInit == RoutingInit => RouteInv
  BY DEF RoutingInit, RouteInv, AloneIsAlone, AloneSound, NoJob, Agrees, NoModel, Hooks

\* A hook that works on: the others that are at work are not alone, so nothing is claimed of
\* them, and what it does itself must leave it sound and the record true.
LEMMA AHookMoves ==
  ASSUME IInv, RouteInv, NEW h \in Hooks, NEW j \in Job, job' = [job EXCEPT ![h] = j],
         job[h].step # "idle", j.alone /\ j.step # "idle" => job[h].alone,
         AloneSound(h, j)',
         j.step \in Clean /\ Faithful' =>
           \/ Agrees'
           \/ job[h].step \in Clean /\ UNCHANGED <<setting, routeRecord>> /\ Faithful
  PROVE  RouteInv'
<1>1. job \in [Hooks -> Job] /\ \A g \in Hooks : job'[g] = IF g = h THEN j ELSE job[g]
  BY DEF IInv
<1>2. AloneIsAlone'
  BY <1>1 DEF AloneIsAlone, RouteInv
<1>3. ASSUME NEW g \in Hooks PROVE AloneSound(g, job[g])'
  <2>1. CASE g = h
    BY <1>1, <2>1
  <2>2. CASE g # h
    <3>1. job'[g] = job[g] /\ (job[g].alone => job[g].step = "idle")
      BY <1>1, <2>2 DEF AloneIsAlone, RouteInv
    <3> QED BY <3>1 DEF AloneSound
  <2> QED BY <2>1, <2>2
<1>4. Faithful' /\ (\A g \in Hooks : job'[g].step \in Clean) => Agrees'
  <2> SUFFICES ASSUME Faithful', \A g \in Hooks : job'[g].step \in Clean PROVE Agrees'
    OBVIOUS
  <2>1. j.step \in Clean /\ \A g \in Hooks \ {h} : job[g].step \in Clean
    BY <1>1
  <2>2. CASE job[h].step \in Clean /\ UNCHANGED <<setting, routeRecord>> /\ Faithful
    BY <2>1, <2>2 DEF RouteInv, Agrees
  <2> QED BY <2>1, <2>2
<1> QED BY <1>2, <1>3, <1>4 DEF RouteInv

\* A step that moves no job and touches neither the setting nor the recorded route.
LEMMA NoHookMoves ==
  ASSUME RouteInv, UNCHANGED <<job, setting, routeRecord, parted>>
  PROVE  RouteInv'
  BY DEF RouteInv, AloneIsAlone, AloneSound, BackTrue, Agrees, Sure, Faithful, parted

\* A hook begins: it is alone just when the others are idle, and then the record is true.
LEMMA AHookBegins ==
  ASSUME IInv, RouteInv, NEW h \in Hooks, NEW work \in Job, Begins(h, work),
         UNCHANGED <<setting, routeRecord, parted>>, work.step = "deciding",
         (Faithful => Agrees) => /\ h = "tool" /\ work.before # NoModel /\ Sure(work) =>
                                      work.before = setting.model
                                 /\ h = "retry" /\ Sure(work) => work.agent = setting.agent,
         h = "prompt" => work.from = "host"
  PROVE  RouteInv'
<1>1. job \in [Hooks -> Job] /\ job[h].step = "idle"
  BY DEF Begins, IInv
<1>2. \A g \in Hooks : /\ g # h => job'[g].step = job[g].step
                       /\ g = h => job'[g].step = "deciding"
  BY <1>1 DEF Begins, Job
<1>3. /\ \A g \in Hooks \ {h} : job'[g].alone => job[g].alone /\ job[g].step = "idle"
      /\ job'[h].alone => \A g \in Hooks \ {h} : job[g].step = "idle"
  BY <1>1 DEF Begins, Job
<1>4. AloneIsAlone'
  BY <1>2, <1>3 DEF AloneIsAlone
<1>5. ASSUME NEW g \in Hooks PROVE AloneSound(g, job[g])'
  <2>1. CASE g # h
    BY <1>2, <1>3, <2>1 DEF AloneSound
  <2>2. CASE g = h
    <3> SUFFICES ASSUME job'[h].alone PROVE AloneSound(h, job[h])'
      BY <2>2 DEF AloneSound
    <3>1. Faithful => Agrees
      BY <1>1, <1>3 DEF RouteInv, Clean
    <3>2. /\ job'[h].step = "deciding" /\ job'[h].before = work.before
          /\ job'[h].agent = work.agent /\ job'[h].from = work.from
      BY <1>1 DEF Begins, Job
    <3>3. Sure(job[h])' => Sure(work)
      BY <3>2 DEF Sure, Faithful, parted
    <3> QED BY <3>1, <3>2, <3>3 DEF AloneSound
  <2> QED BY <2>1, <2>2
<1>6. Faithful' /\ (\A g \in Hooks : job'[g].step \in Clean) => Agrees'
  <2>1. (\A g \in Hooks : job'[g].step \in Clean) => \A g \in Hooks : job[g].step \in Clean
    BY <1>1, <1>2 DEF Clean
  <2> QED BY <2>1 DEF RouteInv, Agrees, Faithful, parted
<1> QED BY <1>4, <1>5, <1>6 DEF RouteInv

LEMMA HookStepsKeepRoute ==
  ASSUME IInv, RouteInv, NEW h \in Hooks,
         \/ SwitchesModel(h) \/ ModelFails(h) \/ SwitchesAgent(h) \/ AgentFails(h)
         \/ Undoes(h) \/ UndoFails(h) \/ Records(h) \/ RecordFails(h)
  PROVE  RouteInv'
<1>1. /\ job \in [Hooks -> Job] /\ job[h] \in Job /\ JobSound(h, job[h]) /\ AloneSound(h, job[h])
      /\ setting \in [model : Models, agent : Agents]
  BY DEF IInv, RestOK, RouteInv
<1>2. job[h].step # "idle"
  BY DEF SwitchesModel, ModelFails, SwitchesAgent, AgentFails, Undoes, UndoFails, Records,
         RecordFails, At
<1>3. NoJob \in Job /\ NoJob.step = "idle" /\ AloneSound(h, NoJob)'
  BY DEF NoJob, Job, Steps, Origins, NoModel, AloneSound
<1>4. (\A g \in Hooks : job[g].step \in Clean) /\ Faithful => Agrees
  BY DEF RouteInv
<1>5. job[h].alone /\ job[h].step \in Clean /\ Faithful => Agrees
  BY <1>2, <1>4 DEF RouteInv, AloneIsAlone, Clean
<1>6. ASSUME job' = [job EXCEPT ![h] = NoJob],
             Faithful' => \/ Agrees'
                          \/ job[h].step \in Clean /\ UNCHANGED <<setting, routeRecord>> /\ Faithful
      PROVE  RouteInv'
  BY <1>2, <1>3, <1>6, AHookMoves
<1>7. ASSUME NEW step \in {"agent", "undo", "record", "tried"}, Goes(h, step)
      PROVE  \E j \in Job : j = [job[h] EXCEPT !.step = step] /\ job' = [job EXCEPT ![h] = j]
  <2>1. [job[h] EXCEPT !.step = step] \in Job
    BY <1>1 DEF Job, Steps
  <2>2. job' = [job EXCEPT ![h] = [job[h] EXCEPT !.step = step]]
    BY <1>1, <1>7 DEF Goes
  <2> QED BY <2>1, <2>2
<1>8. CASE ModelFails(h)
  BY <1>6, <1>8 DEF ModelFails, At, Ends, Clean, routingRecords, parted, Faithful
<1>9. CASE Undoes(h)
  <2>1. ASSUME Faithful' PROVE Agrees'
    <3>1. /\ job[h].alone /\ Faithful /\ job[h].step = "undo" /\ job[h].before \in Models
          /\ setting' = [setting EXCEPT !.model = job[h].before] /\ routeRecord' = routeRecord
      BY <1>1, <1>9, <2>1 DEF Undoes, At, JobSound, Faithful, routingRecords
    <3>2. BackTrue(job[h]) /\ job[h].before \notin {NoModel, job[h].model}
      BY <1>1, <3>1, RoutingAssumption DEF AloneSound, NoModel
    <3> QED BY <1>1, <3>1, <3>2 DEF BackTrue, Agrees
  <2> QED BY <1>6, <1>9, <2>1 DEF Undoes, Ends
<1>10. CASE UndoFails(h) \/ RecordFails(h)
  BY <1>6, <1>10 DEF UndoFails, RecordFails, Ends, Faithful
<1>11. CASE SwitchesModel(h)
  <2> DEFINE step == IF h = "retry" THEN "record" ELSE "agent"
  <2>1. PICK j \in Job : j = [job[h] EXCEPT !.step = step] /\ job' = [job EXCEPT ![h] = j]
    BY <1>7, <1>11 DEF SwitchesModel
  <2>2. /\ j.step = step /\ j.alone = job[h].alone /\ j.model = job[h].model
        /\ j.agent = job[h].agent /\ j.before = job[h].before /\ j.from = job[h].from
    BY <1>1, <2>1 DEF Job
  <2>3. /\ setting' = [setting EXCEPT !.model = j.model] /\ job[h].step = "model"
        /\ routeRecord' = routeRecord /\ (Faithful' <=> Faithful) /\ (Sure(j)' <=> Sure(job[h]))
    BY <1>11, <2>2 DEF SwitchesModel, At, routingRecords, parted, Faithful, Sure
  <2>4. setting'.model = j.model /\ setting'.agent = setting.agent
    BY <1>1, <2>3
  <2>5. ASSUME j.alone, h # "retry" PROVE BackTrue(j)'
    <3>1. j.before \in {NoModel, setting.model} /\ (Faithful => Agrees)
      BY <1>1, <1>5, <2>2, <2>3, <2>5 DEF AloneSound, Clean
    <3>2. j.model \in Models /\ j.model # NoModel
      BY <1>1, <2>2, <2>3, RoutingAssumption DEF JobSound, Working, NoModel
    <3> SUFFICES ASSUME Faithful', routeRecord' # NoRoute
                 PROVE  /\ routeRecord'.agent = setting'.agent
                        /\ j.before = j.model => routeRecord'.model = setting'.model
                        /\ j.before \notin {NoModel, j.model} => routeRecord'.model = j.before
      BY DEF BackTrue
    <3>3. routeRecord' = routeRecord /\ routeRecord.model = setting.model
          /\ routeRecord.agent = setting.agent
      BY <2>3, <3>1 DEF Agrees
    <3> QED BY <2>4, <3>1, <3>2, <3>3
  <2>6. AloneSound(h, j)'
    <3>1. CASE h = "retry"
      BY <1>1, <2>2, <2>3, <2>4, <3>1 DEF AloneSound
    <3>2. CASE h # "retry"
      BY <1>1, <2>2, <2>3, <2>4, <2>5, <3>2 DEF AloneSound
    <3> QED BY <3>1, <3>2
  <2>7. j.step \notin Clean
    BY <2>2 DEF Clean
  <2> HIDE DEF step
  <2> QED BY <1>2, <2>1, <2>2, <2>6, <2>7, AHookMoves
<1>12. CASE SwitchesAgent(h)
  <2>1. PICK j \in Job : j = [job[h] EXCEPT !.step = "record"] /\ job' = [job EXCEPT ![h] = j]
    BY <1>7, <1>12 DEF SwitchesAgent
  <2>2. /\ j.step = "record" /\ j.alone = job[h].alone /\ j.model = job[h].model
        /\ j.agent = job[h].agent /\ j.from = job[h].from
    BY <1>1, <2>1 DEF Job
  <2>3. /\ setting'.model = setting.model /\ setting'.agent = j.agent /\ job[h].step = "agent"
        /\ Sure(j)' <=> Sure(job[h])
    BY <1>1, <1>12, <2>2 DEF SwitchesAgent, At, parted, Faithful, Sure
  <2>4. AloneSound(h, j)'
    BY <1>1, <2>2, <2>3 DEF AloneSound
  <2>5. j.step \notin Clean
    BY <2>2 DEF Clean
  <2> QED BY <1>2, <2>1, <2>2, <2>4, <2>5, AHookMoves
<1>13. CASE AgentFails(h)
  <2>1. /\ job[h].step = "agent" /\ UNCHANGED <<setting, routeRecord>>
        /\ Faithful' => Faithful /\ job[h].before # NoModel /\ job[h].alone
    BY <1>13 DEF AgentFails, At, routingRecords, Faithful
  <2>2. CASE AfterAgent(h) = "idle"
    <3>1. job[h].before \in {NoModel, job[h].model}
      BY <2>2 DEF AfterAgent
    <3>2. ASSUME Faithful' PROVE Agrees'
      BY <1>1, <2>1, <3>1, <3>2 DEF AloneSound, BackTrue, Agrees
    <3> QED BY <1>6, <1>13, <2>2, <3>2 DEF AgentFails, Ends
  <2>3. CASE AfterAgent(h) = "undo"
    <3>1. PICK j \in Job : j = [job[h] EXCEPT !.step = "undo"] /\ job' = [job EXCEPT ![h] = j]
      BY <1>7, <1>13, <2>3 DEF AgentFails
    <3>2. /\ j.step = "undo" /\ j.alone = job[h].alone /\ j.before = job[h].before
          /\ j.model = job[h].model
      BY <1>1, <3>1 DEF Job
    <3>3. j.before # j.model
      BY <2>3, <3>2 DEF AfterAgent
    <3>4. j.alone => BackTrue(j)'
      BY <1>1, <2>1, <3>2 DEF AloneSound, BackTrue
    <3>5. AloneSound(h, j)'
      BY <3>2, <3>3, <3>4 DEF AloneSound
    <3>6. j.step \notin Clean
      BY <3>2 DEF Clean
    <3> QED BY <1>2, <3>1, <3>2, <3>5, <3>6, AHookMoves
  <2> QED BY <2>2, <2>3 DEF AfterAgent
<1>14. CASE Records(h)
  <2>1. /\ job[h].step = "record" /\ setting' = setting
        /\ routeRecord' = [lane |-> job[h].lane, model |-> job[h].model, agent |-> job[h].agent]
        /\ strayed' = (~job[h].alone \/ (strayed /\ job[h].from = "record"))
        /\ misread' = (job[h].from = "guess" \/ (misread /\ job[h].from = "record"))
    BY <1>14 DEF Records, At
  <2>2. ASSUME Faithful' PROVE Agrees'
    <3>1. job[h].alone /\ Sure(job[h])
      <4>1. job[h].from \in Origins
        BY <1>1 DEF Job
      <4> QED BY <2>1, <2>2, <4>1 DEF Faithful, Sure, Origins
    <3>2. setting.model = job[h].model /\ setting.agent = job[h].agent
      BY <1>1, <2>1, <3>1 DEF AloneSound
    <3> QED BY <2>1, <3>2 DEF Agrees
  <2>3. CASE h = "retry"
    <3>1. PICK j \in Job : j = [job[h] EXCEPT !.step = "tried"] /\ job' = [job EXCEPT ![h] = j]
      BY <1>7, <1>14, <2>3 DEF Records
    <3>2. j.step = "tried" /\ j.alone = job[h].alone
      BY <1>1, <3>1 DEF Job
    <3>3. AloneSound(h, j)'
      BY <2>3, <3>2 DEF AloneSound
    <3> QED BY <1>2, <2>2, <3>1, <3>2, <3>3, AHookMoves
  <2>4. CASE h # "retry"
    BY <1>6, <1>14, <2>2, <2>4 DEF Records, Ends
  <2> QED BY <2>3, <2>4
<1> QED BY <1>8, <1>9, <1>10, <1>11, <1>12, <1>13, <1>14

\* A hook's work that is over, and left the setting and the recorded route alone.
LEMMA AnEndKeepsRoute ==
  ASSUME IInv, RouteInv, NEW h \in Hooks, job' = [job EXCEPT ![h] = NoJob],
         job[h].step \in {"deciding", "choosing", "tried"}, UNCHANGED <<setting, routeRecord, parted>>
  PROVE  RouteInv'
<1>1. NoJob \in Job /\ NoJob.step = "idle" /\ AloneSound(h, NoJob)'
  BY DEF NoJob, Job, Steps, Origins, NoModel, AloneSound
<1>2. job[h].step \in Clean /\ job[h].step # "idle"
  BY DEF Clean
<1>3. Faithful' => Faithful
  BY DEF Faithful, parted
<1> QED BY <1>1, <1>2, <1>3, AHookMoves

LEMMA RetryStepsKeepRoute ==
  ASSUME IInv, RouteInv,
         RetryCalled \/ RetryChooses \/ RetryDenied \/ RetryStops \/ RetryGranted \/ RetryUnwritten
  PROVE  RouteInv'
<1>1. /\ "retry" \in Hooks /\ job \in [Hooks -> Job] /\ job["retry"] \in Job
      /\ JobSound("retry", job["retry"]) /\ AloneSound("retry", job["retry"])
  BY DEF IInv, Hooks, RouteInv
<1>2. CASE RetryCalled
  <2>0. PICK stored \in {routeRecord, NoRoute}, sight \in {HostSight, RecordSight, NoSight},
             tried \in {triedRecord, <<>>} : \E lane \in {LaneOf(stored), LaneOf(routeRecord)} :
          /\ Reads(stored, sight, tried)
          /\ Begins("retry",
               [NoJob EXCEPT !.step = "deciding", !.lane = lane,
                  !.agent = AgentOf(stored, sight.agent), !.before = setting.model,
                  !.tried = IF setting.model \in In(tried) THEN tried
                            ELSE Append(tried, setting.model),
                  !.from = IF stored # NoRoute THEN "record"
                           ELSE IF sight.agent = "none" THEN "guess" ELSE sight.from])
          /\ forgotten' = IF tried = triedRecord THEN forgotten ELSE Len(granted)
          /\ UNCHANGED <<setting, routingRecords, toolRecords, granted, parted>>
    BY <1>2 DEF RetryCalled
  <2>1. PICK lane \in {LaneOf(stored), LaneOf(routeRecord)} :
          /\ Reads(stored, sight, tried)
          /\ Begins("retry",
               [NoJob EXCEPT !.step = "deciding", !.lane = lane,
                  !.agent = AgentOf(stored, sight.agent), !.before = setting.model,
                  !.tried = IF setting.model \in In(tried) THEN tried
                            ELSE Append(tried, setting.model),
                  !.from = IF stored # NoRoute THEN "record"
                           ELSE IF sight.agent = "none" THEN "guess" ELSE sight.from])
          /\ forgotten' = IF tried = triedRecord THEN forgotten ELSE Len(granted)
          /\ UNCHANGED <<setting, routingRecords, toolRecords, granted, parted>>
    BY <2>0
  <2>2. PICK all : all = IF setting.model \in In(tried) THEN tried ELSE Append(tried, setting.model)
    OBVIOUS
  <2>3. PICK from : from = IF stored # NoRoute THEN "record"
                           ELSE IF sight.agent = "none" THEN "guess" ELSE sight.from
    OBVIOUS
  <2>4. PICK work : work = [NoJob EXCEPT !.step = "deciding", !.lane = lane,
                              !.agent = AgentOf(stored, sight.agent), !.before = setting.model,
                              !.tried = all, !.from = from]
    OBVIOUS
  <2>5. Begins("retry", work)
    BY <2>1, <2>2, <2>3, <2>4
  <2>6. /\ lane \in Lanes /\ AgentOf(stored, sight.agent) \in Agents
        /\ setting.model \in Models /\ from \in Origins /\ setting.agent \in Agents
    BY <2>3, ReadTypes, AgentTypes DEF IInv, RestOK, Origins
  <2>7. tried \in Seq(Models) /\ Append(tried, setting.model) \in Seq(Models)
    <3>1. tried \in Seq(Models)
      BY ReadTypes
    <3> QED BY <2>6, <3>1
  <2>8. work \in Job
    BY <2>2, <2>4, <2>6, <2>7 DEF NoJob, Job, Steps, Origins, NoModel
  <2>9. work.step = "deciding" /\ work.agent = AgentOf(stored, sight.agent) /\ work.from = from
    BY <2>4 DEF NoJob
  <2>10. UNCHANGED <<setting, routeRecord, parted>>
    BY <2>1 DEF routingRecords
  <2>11. ASSUME Faithful => Agrees, Sure(work) PROVE work.agent = setting.agent
    <3>1. CASE stored # NoRoute
      <4>1. stored = routeRecord /\ work.agent = routeRecord.agent /\ work.from = "record"
        BY <2>3, <2>9, <3>1 DEF AgentOf
      <4> QED BY <2>11, <3>1, <4>1 DEF Sure, Agrees
    <3>2. CASE stored = NoRoute /\ sight.agent = "none"
      <4>1. work.from = "guess"
        BY <2>3, <2>9, <3>2
      <4> QED BY <2>11, <4>1 DEF Sure
    <3>3. CASE stored = NoRoute /\ sight.agent # "none"
      <4>1. work.agent = sight.agent /\ work.from = sight.from
        BY <2>3, <2>9, <3>3 DEF AgentOf
      <4>2. CASE sight = HostSight
        BY <4>1, <4>2 DEF HostSight
      <4>3. CASE sight = RecordSight
        <5>1. work.agent = routeRecord.agent /\ work.from = "record" /\ routeRecord # NoRoute
          BY <3>3, <4>1, <4>3 DEF RecordSight, NoRoute
        <5> QED BY <2>11, <5>1 DEF Sure, Agrees
      <4>4. CASE sight = NoSight
        BY <3>3, <4>4 DEF NoSight
      <4> QED BY <4>2, <4>3, <4>4
    <3> QED BY <3>1, <3>2, <3>3
  <2>12. (Faithful => Agrees) => (Sure(work) => work.agent = setting.agent)
    BY <2>11
  <2> QED BY <1>1, <2>5, <2>8, <2>9, <2>10, <2>12, AHookBegins
<1>3. CASE RetryChooses
  <2>1. PICK model \in Candidates("retry") :
          job' = [job EXCEPT !["retry"].model = model, !["retry"].step = "model"]
    BY <1>3 DEF RetryChooses
  <2>2. model \in Models /\ job["retry"].step = "deciding"
    <3>1. job["retry"].lane \in Lanes /\ job["retry"].step = "deciding"
      BY <1>1, <1>3 DEF RetryChooses, At, JobSound
    <3>2. Chain[job["retry"].lane] \in Seq(Free) /\ Free \subseteq Models
      BY <3>1, RoutingAssumption
    <3>3. ChainModels(job["retry"].lane) \subseteq Models
      BY <3>2 DEF ChainModels, In
    <3> QED BY <2>1, <3>1, <3>3 DEF Candidates
  <2>3. PICK j : j = [job["retry"] EXCEPT !.model = model, !.step = "model"]
    OBVIOUS
  <2>4. /\ j \in Job /\ job' = [job EXCEPT !["retry"] = j]
        /\ j.step = "model" /\ j.alone = job["retry"].alone /\ j.agent = job["retry"].agent
        /\ j.from = job["retry"].from
    BY <1>1, <2>1, <2>2, <2>3 DEF Job, Steps
  <2>5. UNCHANGED <<setting, routeRecord, parted>>
    BY <1>3 DEF RetryChooses, routingRecords
  <2>6. AloneSound("retry", j)'
    BY <1>1, <2>2, <2>4, <2>5 DEF AloneSound, Sure, Faithful, parted
  <2>7. job["retry"].step \in Clean /\ (Faithful' => Faithful)
    BY <2>2, <2>5 DEF Clean, Faithful, parted
  <2> QED BY <1>1, <2>2, <2>4, <2>5, <2>6, <2>7, AHookMoves
<1>4. CASE RetryDenied \/ RetryStops \/ RetryGranted \/ RetryUnwritten
  <2>1. /\ job' = [job EXCEPT !["retry"] = NoJob] /\ job["retry"].step \in {"deciding", "choosing", "tried"}
        /\ UNCHANGED <<setting, routeRecord, parted>>
    BY <1>4 DEF RetryDenied, RetryStops, RetryGranted, RetryUnwritten, At, Ends, routingRecords
  <2> QED BY <1>1, <2>1, AnEndKeepsRoute
<1> QED BY <1>2, <1>3, <1>4

\* What switchExecutor reads to go back to is the model the session is on, or nothing.
LEMMA ASwitchKeepsRoute ==
  ASSUME IInv, RouteInv, NEW h \in Hooks \ {"retry"}, NEW j \in Job,
         job' = [job EXCEPT ![h] = j], job[h].step \in {"deciding", "choosing"},
         j.step = "model", j.alone = job[h].alone, j.before \in BeforeSwitch,
         j.alone => j.from = "host",
         UNCHANGED <<setting, routeRecord, parted>>
  PROVE  RouteInv'
<1>1. j.before \in {NoModel, setting.model}
  BY DEF BeforeSwitch
<1>2. AloneSound(h, j)'
  BY <1>1 DEF AloneSound
<1>3. job[h].step \in Clean /\ job[h].step # "idle" /\ (Faithful' => Faithful)
  BY DEF Clean, Faithful, parted
<1> QED BY <1>2, <1>3, AHookMoves

LEMMA PromptStepsKeepRoute ==
  ASSUME IInv, RouteInv, PromptCalled \/ PromptSame \/ PromptSwitches \/ PromptUnrouted
  PROVE  RouteInv'
<1>1. /\ "prompt" \in Hooks \ {"retry"} /\ job["prompt"] \in Job
      /\ AloneSound("prompt", job["prompt"])
  BY DEF IInv, Hooks, RouteInv
<1>2. CASE PromptCalled
  <2>1. PICK stored \in {routeRecord, NoRoute} :
          Begins("prompt", [NoJob EXCEPT !.step = "deciding", !.lane = stored.lane,
                              !.model = stored.model, !.agent = stored.agent])
    BY <1>2 DEF PromptCalled
  <2>2. PICK work : work = [NoJob EXCEPT !.step = "deciding", !.lane = stored.lane,
                              !.model = stored.model, !.agent = stored.agent]
    OBVIOUS
  <2>3. /\ stored.lane \in Lanes \cup {"none"} /\ stored.agent \in Agents \cup {"none"}
        /\ stored.model \in Models \cup {NoModel}
    BY DEF NoRoute, IInv, RestOK
  <2>4. NoJob \in Job
    BY DEF NoJob, Job, Steps, Origins, NoModel
  <2>5. work \in Job /\ work.step = "deciding" /\ work.from = "host"
    <3>1. work \in Job
      BY <2>2, <2>3, <2>4 DEF Job, Steps
    <3> QED BY <2>2, <3>1 DEF NoJob
  <2>6. UNCHANGED <<setting, routeRecord, parted>> /\ Begins("prompt", work)
    BY <1>2, <2>1, <2>2 DEF PromptCalled, routingRecords
  <2> QED BY <1>1, <2>5, <2>6, AHookBegins
<1>3. CASE PromptSame \/ PromptUnrouted
  <2>1. /\ job' = [job EXCEPT !["prompt"] = NoJob] /\ job["prompt"].step \in {"deciding", "choosing", "tried"}
        /\ UNCHANGED <<setting, routeRecord, parted>>
    BY <1>3 DEF PromptSame, PromptUnrouted, At, Ends, routingRecords
  <2> QED BY <1>1, <2>1, AnEndKeepsRoute
<1>4. CASE PromptSwitches
  <2>1. PICK lane \in Lanes, chosen \in Free, agent \in Agents, before \in BeforeSwitch :
        \E model \in {chosen} \cup ChainModels(lane) :
           job' = [job EXCEPT !["prompt"] =
             [@ EXCEPT !.step = "model", !.lane = lane, !.model = model, !.agent = agent,
                !.before = before]]
    BY <1>4 DEF PromptSwitches
  <2>2. PICK model \in {chosen} \cup ChainModels(lane) :
           job' = [job EXCEPT !["prompt"] =
             [@ EXCEPT !.step = "model", !.lane = lane, !.model = model, !.agent = agent,
                !.before = before]]
    BY <2>1
  <2>3. model \in Models
    <3>1. Chain[lane] \in Seq(Free) /\ Free \subseteq Models
      BY RoutingAssumption
    <3>2. ChainModels(lane) \subseteq Models
      BY <3>1 DEF ChainModels, In
    <3> QED BY <3>1, <3>2
  <2>4. before \in Models \cup {NoModel}
    BY DEF BeforeSwitch, IInv, RestOK
  <2>5. PICK j : j = [job["prompt"] EXCEPT !.step = "model", !.lane = lane, !.model = model,
                        !.agent = agent, !.before = before]
    OBVIOUS
  <2>6. /\ j \in Job /\ job' = [job EXCEPT !["prompt"] = j] /\ j.step = "model"
        /\ j.before \in BeforeSwitch /\ j.alone = job["prompt"].alone
        /\ j.from = job["prompt"].from
    BY <1>1, <2>2, <2>3, <2>4, <2>5 DEF Job, Steps
  <2>7. job["prompt"].step = "deciding" /\ UNCHANGED <<setting, routeRecord, parted>>
    BY <1>4 DEF PromptSwitches, At, routingRecords
  <2>8. j.alone => j.from = "host"
    BY <1>1, <2>6, <2>7 DEF AloneSound
  <2> QED BY <1>1, <2>6, <2>7, <2>8, ASwitchKeepsRoute
<1> QED BY <1>2, <1>3, <1>4

LEMMA ToolStepsKeepRoute ==
  ASSUME IInv, RouteInv,
         ToolAsks \/ ToolChoosesModel \/ ToolSwitchesModel \/ ToolSwitchesAgent \/ ToolAdvises
  PROVE  RouteInv'
<1>1. /\ "tool" \in Hooks \ {"retry"} /\ job["tool"] \in Job /\ JobSound("tool", job["tool"])
      /\ AloneSound("tool", job["tool"])
  BY DEF IInv, Hooks, RouteInv
<1>2. CASE ToolAsks
  <2>1. PICK sight \in {HostSight, RecordSight, NoSight}, tried \in {triedRecord, <<>>} :
          Begins("tool", [NoJob EXCEPT !.step = "deciding", !.before = sight.model,
               !.agent = sight.agent, !.tried = tried,
               !.from = IF sight = HostSight /\ sight.model # setting.model THEN "guess"
                        ELSE sight.from])
    BY <1>2 DEF ToolAsks
  <2>2. PICK from : from = IF sight = HostSight /\ sight.model # setting.model THEN "guess"
                           ELSE sight.from
    OBVIOUS
  <2>3. PICK work : work = [NoJob EXCEPT !.step = "deciding", !.before = sight.model,
                              !.agent = sight.agent, !.tried = tried, !.from = from]
    OBVIOUS
  <2>4. work \in Job
    <3>1. /\ sight.model \in Models \cup {NoModel} /\ sight.agent \in Agents \cup {"none"}
          /\ tried \in Seq(Models) /\ from \in Origins
      BY <2>2, ReadTypes DEF Origins
    <3> QED BY <2>3, <3>1 DEF NoJob, Job, Steps, Origins, NoModel
  <2>5. work.step = "deciding" /\ work.before = sight.model /\ work.from = from
    BY <2>3 DEF NoJob
  <2>6. UNCHANGED <<setting, routeRecord, parted>> /\ Begins("tool", work)
    BY <1>2, <2>1, <2>2, <2>3 DEF ToolAsks, routingRecords
  <2>7. ASSUME Faithful => Agrees, work.before # NoModel, Sure(work)
        PROVE  work.before = setting.model
    <3>1. CASE sight = HostSight
      BY <2>2, <2>5, <2>7, <3>1 DEF Sure
    <3>2. CASE sight = RecordSight
      <4>1. work.before = routeRecord.model /\ routeRecord # NoRoute
        BY <2>5, <2>7, <3>2 DEF RecordSight, NoRoute
      <4>2. sight.from = "record"
        BY <3>2 DEF RecordSight
      <4>3. Faithful
        BY <2>2, <2>5, <2>7, <4>2 DEF Sure
      <4> QED BY <2>7, <4>1, <4>3 DEF Agrees
    <3>3. CASE sight = NoSight
      BY <2>5, <2>7, <3>3 DEF NoSight
    <3> QED BY <3>1, <3>2, <3>3
  <2>8. (Faithful => Agrees) => (work.before # NoModel /\ Sure(work) => work.before = setting.model)
    BY <2>7
  <2> QED BY <1>1, <2>4, <2>5, <2>6, <2>8, AHookBegins
<1>3. CASE ToolChoosesModel
  <2>1. PICK stored \in {routeRecord, NoRoute} :
          /\ ToolReads(stored)
          /\ job' = [job EXCEPT !["tool"] =
               [job["tool"] EXCEPT !.step = "choosing", !.lane = LaneOf(stored),
                  !.before = ModelOf(stored), !.agent = AgentOf(stored, job["tool"].agent),
                  !.from = "host"]]
    BY <1>3 DEF ToolChoosesModel
  <2>2. PICK j : j = [job["tool"] EXCEPT !.step = "choosing", !.lane = LaneOf(stored),
                        !.before = ModelOf(stored), !.agent = AgentOf(stored, job["tool"].agent),
                        !.from = "host"]
    OBVIOUS
  <2>3. /\ LaneOf(stored) \in Lanes /\ AgentOf(stored, job["tool"].agent) \in Agents
        /\ ModelOf(stored) \in Models \cup {NoModel}
    BY <1>1, ReadTypes, AgentTypes DEF Job, ModelOf
  <2>4. j \in Job /\ j.step = "choosing" /\ j.from = "host" /\ j.alone = job["tool"].alone
    BY <1>1, <2>2, <2>3 DEF Job, Steps, Origins
  <2>5. job' = [job EXCEPT !["tool"] = j]
    BY <2>1, <2>2
  <2>6. job["tool"].step = "deciding" /\ UNCHANGED <<setting, routeRecord, parted>>
    BY <2>1 DEF ToolReads, At, routingRecords
  <2>7. AloneSound("tool", j)'
    BY <2>4 DEF AloneSound
  <2>8. job["tool"].step \in Clean /\ (Faithful' => Faithful)
    BY <2>6 DEF Clean, Faithful, parted
  <2> QED BY <1>1, <2>4, <2>5, <2>6, <2>7, <2>8, AHookMoves
<1>4. CASE ToolSwitchesModel
  <2>1. PICK model \in Candidates("tool"), agent \in {job["tool"].agent, DefaultAgent},
             before \in BeforeSwitch :
          job' = [job EXCEPT !["tool"].model = model, !["tool"].agent = agent,
                             !["tool"].before = before, !["tool"].step = "model"]
    BY <1>4 DEF ToolSwitchesModel
  <2>2. job["tool"].step = "choosing" /\ UNCHANGED <<setting, routeRecord, parted>>
    BY <1>4 DEF ToolSwitchesModel, At, routingRecords
  <2>3. model \in Models /\ agent \in Agents
    <3>1. job["tool"].lane \in Lanes /\ job["tool"].agent \in Agents
      BY <1>1, <2>2 DEF JobSound
    <3>2. Chain[job["tool"].lane] \in Seq(Free) /\ Free \subseteq Models
      BY <3>1, RoutingAssumption
    <3>3. ChainModels(job["tool"].lane) \subseteq Models
      BY <3>2 DEF ChainModels, In
    <3> QED BY <3>1, <3>3, RoutingAssumption DEF Candidates
  <2>4. before \in Models \cup {NoModel}
    BY DEF BeforeSwitch, IInv, RestOK
  <2>5. PICK j : j = [job["tool"] EXCEPT !.model = model, !.agent = agent, !.before = before,
                        !.step = "model"]
    OBVIOUS
  <2>6. /\ j \in Job /\ job' = [job EXCEPT !["tool"] = j] /\ j.step = "model"
        /\ j.before \in BeforeSwitch /\ j.alone = job["tool"].alone
        /\ j.from = job["tool"].from
    <3>1. /\ j \in Job /\ j.step = "model" /\ j.before = before /\ j.alone = job["tool"].alone
          /\ j.from = job["tool"].from
      BY <1>1, <2>3, <2>4, <2>5 DEF Job, Steps
    <3>2. job' = [job EXCEPT !["tool"] = j]
      BY <1>1, <2>1, <2>5 DEF IInv
    <3> QED BY <3>1, <3>2
  <2>7. j.alone => j.from = "host"
    BY <1>1, <2>2, <2>6 DEF AloneSound
  <2> QED BY <1>1, <2>2, <2>6, <2>7, ASwitchKeepsRoute
<1>5. CASE ToolSwitchesAgent
  <2>1. PICK stored \in {routeRecord, NoRoute}, agent \in Agents :
          /\ ToolReads(stored) /\ ModelOf(stored) # NoModel
          /\ job' = [job EXCEPT !["tool"] =
               [job["tool"] EXCEPT !.step = "agent", !.lane = LaneOf(stored),
                  !.model = ModelOf(stored), !.agent = agent, !.before = ModelOf(stored),
                  !.from = IF job["tool"].before = NoModel THEN "record" ELSE job["tool"].from]]
    BY <1>5 DEF ToolSwitchesAgent
  <2>2. PICK j : j = [job["tool"] EXCEPT !.step = "agent", !.lane = LaneOf(stored),
                  !.model = ModelOf(stored), !.agent = agent, !.before = ModelOf(stored),
                  !.from = IF job["tool"].before = NoModel THEN "record" ELSE job["tool"].from]
    OBVIOUS
  <2>3. LaneOf(stored) \in Lanes /\ ModelOf(stored) \in Models
    BY <1>1, <2>1, ReadTypes DEF Job, ModelOf
  <2>4. /\ j \in Job /\ j.step = "agent" /\ j.model = ModelOf(stored)
        /\ j.before = ModelOf(stored) /\ j.alone = job["tool"].alone
        /\ j.from = IF job["tool"].before = NoModel THEN "record" ELSE job["tool"].from
    BY <1>1, <2>2, <2>3 DEF Job, Steps, Origins
  <2>5. job' = [job EXCEPT !["tool"] = j]
    BY <2>1, <2>2
  <2>6. /\ job["tool"].step = "deciding" /\ UNCHANGED <<setting, routeRecord, parted>>
        /\ Faithful' <=> Faithful
    BY <2>1 DEF ToolReads, At, routingRecords, Faithful, parted
  <2>7. ASSUME j.alone PROVE (Sure(j) => setting.model = j.model) /\ BackTrue(j)
    <3>1. Faithful => Agrees
      BY <1>1, <2>4, <2>6, <2>7 DEF RouteInv, AloneIsAlone, Clean
    <3>2. CASE job["tool"].before = NoModel
      <4>1. j.from = "record" /\ j.model = stored.model /\ stored.model # NoModel
        BY <2>1, <2>4, <3>2 DEF ModelOf
      <4>2. stored = routeRecord /\ routeRecord # NoRoute
        BY <4>1 DEF NoRoute
      <4> QED BY <2>4, <3>1, <4>1, <4>2 DEF Sure, Agrees, BackTrue
    <3>3. CASE job["tool"].before # NoModel
      <4>1. j.from = job["tool"].from /\ j.model = job["tool"].before
        BY <2>4, <3>3 DEF ModelOf
      <4>2. Sure(job["tool"]) => job["tool"].before = setting.model
        BY <1>1, <2>4, <2>6, <2>7, <3>3 DEF AloneSound
      <4> QED BY <2>4, <3>1, <4>1, <4>2 DEF Sure, Agrees, BackTrue
    <3> QED BY <3>2, <3>3
  <2>8. AloneSound("tool", j)'
    BY <2>4, <2>6, <2>7 DEF AloneSound, BackTrue, Sure
  <2>9. j.step \notin Clean
    BY <2>4 DEF Clean
  <2> QED BY <1>1, <2>4, <2>5, <2>6, <2>8, <2>9, AHookMoves
<1>6. CASE ToolAdvises
  <2>1. /\ job' = [job EXCEPT !["tool"] = NoJob] /\ job["tool"].step \in {"deciding", "choosing", "tried"}
        /\ UNCHANGED <<setting, routeRecord, parted>>
    BY <1>6 DEF ToolAdvises, At, Ends, routingRecords
  <2> QED BY <1>1, <2>1, AnEndKeepsRoute
<1> QED BY <1>2, <1>3, <1>4, <1>5, <1>6

LEMMA RouteNext == IInv /\ RouteInv /\ [RoutingNext]_routingVars => RouteInv'
<1> SUFFICES ASSUME IInv, RouteInv, [RoutingNext]_routingVars PROVE RouteInv'
  OBVIOUS
<1>1. CASE ContextBuilt \/ Expires \/ UNCHANGED routingVars
  <2>1. UNCHANGED <<job, setting, routeRecord, parted>>
    BY <1>1 DEF ContextBuilt, Expires, routingRecords, routingVars
  <2> QED BY <2>1, NoHookMoves
<1>2. CASE UserChooses
  <2>1. \A h \in Hooks : job'[h].step = job[h].step /\ (job'[h].alone => job[h].step = "idle")
    <3>1. \A h \in Hooks : job[h] \in Job
      BY DEF IInv
    <3> QED BY <1>2, <3>1 DEF UserChooses, Job
  <2>2. AloneIsAlone' /\ \A h \in Hooks : AloneSound(h, job[h])'
    BY <2>1 DEF AloneIsAlone, AloneSound
  <2>3. strayed'
    BY <1>2 DEF UserChooses
  <2> QED BY <2>2, <2>3 DEF RouteInv, Faithful
<1> QED
  BY <1>1, <1>2, HookStepsKeepRoute, RetryStepsKeepRoute, PromptStepsKeepRoute,
     ToolStepsKeepRoute DEF RoutingNext

-----------------------------------------------------------------------------

\* The hooks' jobs and records keep their types, and the retry's record covers what was
\* granted since it last lost a model (hooks.ts:330, hooks.ts:391).
THEOREM RoutingInvariant == RoutingSpec => []IInv
  BY InvInit, InvNext, PTL DEF RoutingSpec

\* As long as no read of the models tried fails and their list is not full, no model is granted
\* twice; after one that fails, or a list that drops a granted model, the chain begins again,
\* and again grants each model at most once (hooks.ts:330-331).
THEOREM RetriesEnd == RoutingSpec => []EachModelGrantedOnce
<1>1. IInv => EachModelGrantedOnce
  BY DEF IInv, ChainSound
<1> QED BY <1>1, RoutingInvariant, PTL

\* The jobs of the hooks, the records and the session's setting keep their types, whichever
\* reads and writes fail (hooks.ts:44, plugin-runtime.ts:308).
THEOREM RoutingTypeCorrect == RoutingSpec => []RoutingTypeOK
  BY RoutingInvariant, TypeOfInv, PTL

\* Once no hook is at work the recorded route is what the session runs on, whatever was
\* overlapped, failed or chosen by the user before the last switch, unless one of them parted
\* the two since, or the last switch recorded what it could not read of the host
\* (plugin-runtime.ts:319-324, snapshot.ts:47-64).
THEOREM RecordedRouteIsTrue == RoutingSpec => []RouteIsTrue
<1>1. RouteInv => RouteIsTrue
  BY DEF RouteInv, RouteIsTrue, RecordTrue, Agrees, Faithful, Clean
<1> QED BY <1>1, RoutingInvariant, RouteInit, RouteNext, PTL DEF RoutingSpec
=============================================================================
