------------------------------ MODULE MCLimits ------------------------------
(***************************************************************************)
(* Three components that keep a limit: the kernel its budget of rounds,    *)
(* the resource governor a project's retries, and the registry of internal *)
(* sessions its capacity.  They share no state: a behaviour follows the    *)
(* one its scene names, and the others stay where they began.              *)
(***************************************************************************)
EXTENDS Kernel, ResourceGovernor, ToolAuthority, TLC

VARIABLE scene

LimitsInit ==
  /\ scene \in {"kernel", "governor", "authority"}
  /\ Init /\ GovernorInit /\ AuthorityInit
  /\ scene # "kernel" => run.maxRounds = 1

Moves(name, next) == scene = name /\ next /\ UNCHANGED scene

LimitsNext ==
  \/ Moves("kernel", Next) /\ UNCHANGED <<governorVars, authorityVars>>
  \/ Moves("governor", GovernorNext) /\ UNCHANGED <<run, authorityVars>>
  \/ Moves("authority", AuthorityNext) /\ UNCHANGED <<run, governorVars>>

LimitsSpec == LimitsInit /\ [][LimitsNext]_<<scene, run, governorVars, authorityVars>>

Symmetry == Permutations(Calls)

MCMetadata == [s \in ToolSessions |->
                 CASE s = "cr" -> "critic" [] s = "us" -> "none" [] OTHER -> "worker"]
=============================================================================
