------------------------------ MODULE MCPlugin ------------------------------
(***************************************************************************)
(* Three components beside the runs: the route of a session, among three   *)
(* models of which one is another provider's and has the id of a model of  *)
(* the pool, in a session that begins with the default agent; the ledger   *)
(* of contexts; and the poller of progress.  They share no state: a        *)
(* behaviour follows the one its scene names, and the others stay where    *)
(* they began.                                                             *)
(***************************************************************************)
EXTENDS Routing, ContextManagement, SummaryPoller

VARIABLE scene

PluginInit ==
  /\ scene \in {"routing", "context", "poller"}
  /\ RoutingInit /\ ContextInit /\ PollerInit
  /\ setting.agent = DefaultAgent /\ setting.model \in {"a", "c"}
  /\ scene # "routing" => setting.model = "a"
  /\ scene # "poller" => screen = Nowhere

Moves(name, next) == scene = name /\ next /\ UNCHANGED scene

PluginNext ==
  \/ Moves("routing", RoutingNext) /\ UNCHANGED <<contextVars, pollerVars>>
  \/ Moves("context", ContextNext) /\ UNCHANGED <<routingVars, pollerVars>>
  \/ Moves("poller", PollerNext) /\ UNCHANGED <<routingVars, contextVars>>

PluginSpec == PluginInit /\ [][PluginNext]_<<scene, routingVars, contextVars, pollerVars>>

MCChain     == [lane \in Lanes |-> <<"a", "b">>]
MCNamed     == [m \in Models |-> IF m = "c" THEN "b" ELSE m]
MCSessionOf == [g \in Groups |-> IF g <= 2 THEN "us" ELSE "wk"]
MCRoleOf    == [s \in CSessions |-> IF s = "us" THEN "user-session" ELSE "worker"]
=============================================================================
