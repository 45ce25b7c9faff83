---------------------------- MODULE ToolAuthority ----------------------------
(***************************************************************************)
(* Local authority over the tools of internal sessions                     *)
(* (orchestration/tool-authority.ts) and the runtimes that use it          *)
(* (plugin-runtime.ts): a session is registered when the host has created  *)
(* it, fenced before its interruption is asked for, and every tool call    *)
(* is checked before the tool runs.  The registry is bounded: a new entry  *)
(* evicts the oldest one without a fence, and when every entry is fenced,  *)
(* or an evicted session is fenced, all internal tools are denied.         *)
(*                                                                         *)
(* A check reads the session's metadata from the host: registrations,      *)
(* evictions and fences happen meanwhile.                                  *)
(***************************************************************************)
EXTENDS Integers, FiniteSets

CONSTANTS
  ToolSessions,   \* sessions of the host
  Metadata,       \* what the host keeps of each of them: whose session it says it is
  ToolCalls,      \* tool calls
  Capacity        \* MAX_REGISTERED_INTERNAL_SESSIONS

Internal == {"worker", "critic", "orchestrator"}
Claims   == Internal \cup {"none", "partial"}   \* partial: some of the three marks

ASSUME AuthorityAssumption ==
  /\ Metadata \in [ToolSessions -> Claims]
  /\ Capacity \in Nat \ {0}

VARIABLES
  registry,      \* registeredInternalSessions: its keys
  arrival,       \* when each of them was set, for a Map keeps that order
  fenced,        \* entries with a fence
  saturated,     \* internalToolRegistrySaturated
  creating,      \* sessions the host is creating for the control plane
  interrupted,   \* history: sessions whose interruption was asked for
  check          \* each tool call: its session, whether the tool only reads, its stage

authorityVars == <<registry, arrival, fenced, saturated, creating, interrupted, check>>

-----------------------------------------------------------------------------

Uncalled == [session |-> "none", reads |-> FALSE, stage |-> "none"]

\* resolveInternalToolRole: a registered session is what the registry says, or ambiguous.
ResolvedRole(s) ==
  CASE Metadata[s] = "none"    -> IF s \in registry THEN "ambiguous" ELSE "external"
    [] Metadata[s] = "partial" -> "ambiguous"
    [] OTHER                   -> Metadata[s]

AuthorityInit ==
  /\ registry = {} /\ fenced = {}
  /\ arrival = [s \in ToolSessions |-> 0]
  /\ saturated = FALSE
  /\ creating = {} /\ interrupted = {}
  /\ check = [k \in ToolCalls |-> Uncalled]

\* createWorker, createCritic, createOrchestrator: refused when the registry is saturated,
\* before the host is asked.
CreateInternal(s) ==
  /\ Metadata[s] \in Internal
  /\ ~saturated
  /\ s \notin creating
  /\ creating' = creating \cup {s}
  /\ UNCHANGED <<registry, arrival, fenced, saturated, interrupted, check>>

CreationFails(s) ==
  /\ s \in creating
  /\ creating' = creating \ {s}
  /\ UNCHANGED <<registry, arrival, fenced, saturated, interrupted, check>>

-----------------------------------------------------------------------------
(* registerInternalToolSession *)

\* Mutant of Evictable: the oldest entry, whether it has a fence or not
EvictableAny == {s \in registry : \A t \in registry : arrival[s] <= arrival[t]}

Evictable ==
  {s \in registry \ fenced : \A t \in registry \ fenced : arrival[s] <= arrival[t]}

Enter(s, evicted) ==
  /\ registry' = (registry \ evicted) \cup {s}
  /\ fenced' = fenced \ evicted
  /\ arrival' = [t \in ToolSessions |-> IF t = s THEN Cardinality(registry \ evicted) + 1
                                        ELSE IF \E e \in evicted : arrival[t] > arrival[e]
                                             THEN arrival[t] - 1 ELSE arrival[t]]
  /\ UNCHANGED saturated

\* The host returned a session that is registered: kept, or refused if it has a fence.
RegisterAgain(s) ==
  /\ s \in creating /\ s \in registry
  /\ creating' = creating \ {s}
  /\ UNCHANGED <<registry, arrival, fenced, saturated, interrupted, check>>

RegisterRefused(s) ==
  /\ s \in creating /\ s \notin registry /\ saturated
  /\ creating' = creating \ {s}
  /\ UNCHANGED <<registry, arrival, fenced, saturated, interrupted, check>>

Register(s) ==
  /\ s \in creating /\ s \notin registry /\ ~saturated
  /\ Cardinality(registry) < Capacity
  /\ Enter(s, {})
  /\ creating' = creating \ {s}
  /\ UNCHANGED <<interrupted, check>>

RegisterEvicting(s) ==
  /\ s \in creating /\ s \notin registry /\ ~saturated
  /\ Cardinality(registry) >= Capacity
  /\ \E e \in Evictable : Enter(s, {e})
  /\ creating' = creating \ {s}
  /\ UNCHANGED <<interrupted, check>>

RegisterSaturates(s) ==
  /\ s \in creating /\ s \notin registry /\ ~saturated
  /\ Cardinality(registry) >= Capacity
  /\ Evictable = {}
  /\ saturated' = TRUE
  /\ creating' = creating \ {s}
  /\ UNCHANGED <<registry, arrival, fenced, interrupted, check>>

-----------------------------------------------------------------------------

\* interrupt: the fence comes before the request to the host.  It is asked for sessions
\* that were registered, those that have been evicted since among them.
Interrupt(s) ==
  /\ arrival[s] > 0
  /\ interrupted' = interrupted \cup {s}
  /\ IF s \in registry
       THEN fenced' = fenced \cup {s} /\ UNCHANGED saturated
       ELSE saturated' = TRUE /\ UNCHANGED fenced
  /\ UNCHANGED <<registry, arrival, creating, check>>

-----------------------------------------------------------------------------
(* enforceInternalToolAuthority *)

ToolCalled(k, s, reads) ==
  /\ check[k] = Uncalled
  /\ check' = [check EXCEPT ![k] =
       [session |-> s, reads |-> reads,
        stage |-> IF s \in fenced THEN "denied" ELSE "reading"]]
  /\ UNCHANGED <<registry, arrival, fenced, saturated, creating, interrupted>>

\* With the metadata at hand.
MayRun(s, reads) ==
  LET role == ResolvedRole(s) IN
  /\ s \notin fenced
  /\ \/ role = "external"
     \/ ~saturated /\ (role = "worker" \/ (role \in {"critic", "orchestrator"} /\ reads))

ToolChecked(k) ==
  /\ check[k].stage = "reading"
  /\ check' = [check EXCEPT ![k].stage =
       IF MayRun(check[k].session, check[k].reads) THEN "allowed" ELSE "denied"]
  /\ UNCHANGED <<registry, arrival, fenced, saturated, creating, interrupted>>

\* The host does not say whose session it is.
ToolUnknown(k) ==
  /\ check[k].stage = "reading"
  /\ check' = [check EXCEPT ![k].stage = "denied"]
  /\ UNCHANGED <<registry, arrival, fenced, saturated, creating, interrupted>>

AuthorityNext ==
  \/ \E s \in ToolSessions :
       \/ CreateInternal(s) \/ CreationFails(s)
       \/ RegisterAgain(s) \/ RegisterRefused(s)
       \/ Register(s) \/ RegisterEvicting(s) \/ RegisterSaturates(s)
       \/ Interrupt(s)
  \/ \E k \in ToolCalls :
       \/ \E s \in ToolSessions, reads \in BOOLEAN : ToolCalled(k, s, reads)
       \/ ToolChecked(k) \/ ToolUnknown(k)

AuthoritySpec == AuthorityInit /\ [][AuthorityNext]_authorityVars

-----------------------------------------------------------------------------
(* Properties *)

AuthorityTypeOK ==
  /\ registry \subseteq ToolSessions /\ Cardinality(registry) <= Capacity
  /\ fenced \subseteq registry
  /\ saturated \in BOOLEAN
  /\ creating \subseteq ToolSessions /\ interrupted \subseteq ToolSessions
  /\ arrival \in [ToolSessions -> Nat]
  /\ check \in [ToolCalls -> [session : ToolSessions \cup {"none"}, reads : BOOLEAN,
                              stage : {"none", "reading", "denied", "allowed"}]]

\* No tool of a session is allowed once its interruption was asked for: whatever was
\* registered, evicted or saturated in between, and whenever the check began
\* (tool-authority.ts:52, "Revoke all future tools before requesting runtime interruption").
NoToolAfterFence ==
  [][\A k \in ToolCalls :
       check'[k].stage = "allowed" /\ check[k].stage # "allowed"
         => check[k].session \notin interrupted]_authorityVars

\* A critic and an orchestrator run tools that only read, and a session whose marks do not
\* add up runs none, also when the registry has forgotten them (plugin-runtime.ts:499-503).
ReadersOnlyRead ==
  \A k \in ToolCalls :
    check[k].stage = "allowed" =>
      CASE Metadata[check[k].session] \in {"critic", "orchestrator"} -> check[k].reads
        [] Metadata[check[k].session] = "partial" -> FALSE
        [] OTHER -> TRUE
=============================================================================
