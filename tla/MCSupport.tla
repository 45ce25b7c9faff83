------------------------------ MODULE MCSupport ------------------------------
(***************************************************************************)
(* Three components that share no state: a behaviour follows the one its   *)
(* scene names, and the others stay where they began.                      *)
(***************************************************************************)
EXTENDS KeyedLock, Presentation, Launcher

VARIABLE scene

SupportInit ==
  /\ scene \in {"lock", "presentation", "launcher"}
  /\ Init /\ PresentationInit /\ LauncherInit

Moves(name, next) == scene = name /\ next /\ UNCHANGED scene

SupportNext ==
  \/ Moves("lock", Next) /\ UNCHANGED <<presentationVars, launcherVars>>
  \/ Moves("presentation", PresentationNext) /\ UNCHANGED <<vars, launcherVars>>
  \/ Moves("launcher", LauncherNext) /\ UNCHANGED <<vars, presentationVars>>

supportVars == <<scene, vars, presentationVars, launcherVars>>

\* The fairness of each module, in its own scene: elsewhere its steps are none of the
\* behaviour's.
SupportFairness ==
  /\ Fairness /\ PresentationFairness
  /\ \A l \in Launchers : WF_launcherVars(Moves("launcher", OwnStep(l)))

SupportSpec == SupportInit /\ [][SupportNext]_supportVars /\ SupportFairness

SupportTypeOK == TypeOK /\ PresentationTypeOK /\ LauncherTypeOK

MCRoomOf == [r \in Results |-> IF r = "r3" THEN "sub" ELSE "p1"]
=============================================================================
