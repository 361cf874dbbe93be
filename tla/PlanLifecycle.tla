--------------------------- MODULE PlanLifecycle ---------------------------
(***************************************************************************)
(* What the task engine promises to those who hand it plans: the missions, *)
(* the construction manager, the schedulers and the agent's tools.  They   *)
(* see a plan's status (TaskPlanStatus of tasks/store.ts) and hear of its  *)
(* end.  Steps, attempts, engines and connections are the engine's own     *)
(* affair; TaskEngine is shown to implement this.                          *)
(***************************************************************************)
EXTENDS Naturals

CONSTANT Plans

VARIABLES status,     \* the plan's row
          announced   \* how often its end was announced on the bus

vars == <<status, announced>>

\* A plan that may still do something.
Unfinished == {"pending", "running", "paused"}

\* What the engine does of its own accord: it claims a step, is interrupted
\* by a restart, and ends the plan.
Work == {<<"pending", "running">>, <<"running", "pending">>}
Ends == {<<"running", "completed">>, <<"running", "failed">>}

\* What it does when asked to.
Asked == {<<"none", "pending">>, <<"pending", "paused">>, <<"running", "paused">>,
          <<"paused", "pending">>} \cup (Unfinished \X {"cancelled"})

Init ==
  /\ status = [p \in Plans |-> "none"]
  /\ announced = [p \in Plans |-> 0]

\* One plan's share of a step: nothing, a move that nobody hears of, or an
\* end that is announced.
Move(p) ==
  LET move == <<status[p], status'[p]>>
  IN  \/ status'[p] = status[p] /\ announced'[p] = announced[p]
      \/ move \in Work \cup Asked /\ announced'[p] = announced[p]
      \/ move \in Ends /\ announced'[p] = announced[p] + 1

\* A step of the engine may end one plan and begin the next one.
Next ==
  /\ status' = [p \in Plans |-> status'[p]]
  /\ announced' = [p \in Plans |-> announced'[p]]
  /\ \A p \in Plans : Move(p)

Spec == Init /\ [][Next]_vars
=============================================================================
