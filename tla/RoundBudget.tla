----------------------------- MODULE RoundBudget -----------------------------
(***************************************************************************)
(* What a run promises about its rounds, with no word on how they are      *)
(* executed or judged: rounds are opened one at a time, never beyond the   *)
(* budget in force; a paused run moves on only by a decision, which opens  *)
(* one round and is the only thing that may raise the budget; what is over *)
(* stays over.  Kernel implements it.                                      *)
(***************************************************************************)
EXTENDS Integers

CONSTANT BudgetCap   \* the largest budget a contract may ask for

VARIABLES
  stage,     \* "active", "paused" or "over"
  round,     \* the round being executed or judged
  budget     \* rounds the run may use

vars == <<stage, round, budget>>

Init ==
  /\ stage = "active"
  /\ round = 1
  /\ budget \in 1..BudgetCap

OpenRound ==
  /\ stage = "active"
  /\ round < budget
  /\ round' = round + 1
  /\ UNCHANGED <<stage, budget>>

ShrinkBudget ==
  /\ stage = "active"
  /\ budget' \in round..budget
  /\ UNCHANGED <<stage, round>>

Pause ==
  /\ stage = "active"
  /\ stage' = "paused"
  /\ UNCHANGED <<round, budget>>

Resume ==
  /\ stage = "paused"
  /\ stage' = "active"
  /\ round' = round + 1
  /\ budget' \in budget..BudgetCap
  /\ round' <= budget'

Finish ==
  /\ stage # "over"
  /\ stage' = "over"
  /\ UNCHANGED <<round, budget>>

Next == OpenRound \/ ShrinkBudget \/ Pause \/ Resume \/ Finish

Spec == Init /\ [][Next]_vars

=============================================================================
