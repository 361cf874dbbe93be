---------------------------- MODULE StandingWork ----------------------------
(***************************************************************************)
(* Standing supply goals (supply/scheduler.ts, supply/store.ts) and farms  *)
(* (farming/scheduler.ts, farming/store.ts): rows that come due again and  *)
(* again, and for each due row a task plan.  The two schedulers are the    *)
(* same program over two tables; a farm's name makes its plan its own,     *)
(* while two supply goals may ask for exactly the same plan.               *)
(*                                                                         *)
(* Of the task engine this module knows what PlanLifecycle promises, and   *)
(* that create() answers with an equal plan that is not finished yet.      *)
(* Time is relative: a row knows how many minutes are left to its check.   *)
(* Nothing is ever done again with a plan that has ended, so it is         *)
(* forgotten, and a row that names it names none.                          *)
(***************************************************************************)
EXTENDS Naturals, FiniteSets

CONSTANTS Goals,       \* supply goals and farms
          Farms,       \* the farms among them: they may be registered again
          Twins,       \* goals whose plans are equal: same container, item, amount
          Plans,       \* identities of unfinished plans
          NoPlan,
          Interval,    \* minutes between checks
          RetryAfter   \* minutes to the next check after a failure

ASSUME StandingAssumption ==
  /\ Farms \subseteq Goals /\ Twins \subseteq Goals \ Farms
  /\ Interval \in Nat \ {0} /\ RetryAfter \in 1..Interval
  /\ NoPlan \notin Plans

VARIABLES goal,        \* the rows of supply_goals and farms
          plan,        \* task_plans
          listening,   \* the schedulers are started: timer and subscription
          halfway      \* history: plans that the end of the process left between
                       \* two writes: made but not named, or at work for a row
                       \* that was put on hold

vars == <<goal, plan, listening, halfway>>

Tasks == INSTANCE PlanLifecycle WITH status <- plan, announced <- halfway

\* The plan a goal asks for: its title and steps.
WorkOf(g) == IF g \in Twins THEN Twins ELSE {g}
Works == {WorkOf(g) : g \in Goals}

TypeOK ==
  /\ goal \in [Goals -> [status : {"none", "active", "paused", "cancelled"},
                         wait : 0..Interval, last : Plans \cup {NoPlan}]]
  /\ plan \in [Plans -> [status : {"none"} \cup Tasks!Unfinished, work : Works \cup {{}}, resumed : BOOLEAN]]
  /\ listening \in BOOLEAN /\ halfway \subseteq Plans

NoTask == [status |-> "none", work |-> {}, resumed |-> FALSE]

Init ==
  /\ goal = [g \in Goals |-> [status |-> "none", wait |-> 0, last |-> NoPlan]]
  /\ plan = [p \in Plans |-> NoTask]
  /\ listening = FALSE /\ halfway = {}

-----------------------------------------------------------------------------
Unfinished(pl, w) == {p \in Plans : pl[p].work = w}

Free(pl) == {p \in Plans : pl[p] = NoTask}

Forgotten(gs, p) ==
  [g \in Goals |-> IF gs[g].last = p THEN [gs[g] EXCEPT !.last = NoPlan] ELSE gs[g]]

NewPlan(w) == [status |-> "pending", work |-> w, resumed |-> FALSE]

\* Mutant: an equal plan is not looked for.
MadeAnew(pl, f, ws) ==
  /\ \A w \in ws : f[w] \in Free(pl)
  /\ \A v, w \in ws : v # w => f[v] # f[w]

\* tasks.create(), for each work of ws: the plan there is, or a new one.
Made(pl, f, ws) ==
  /\ \A w \in ws : IF Unfinished(pl, w) # {} THEN f[w] \in Unfinished(pl, w)
                                             ELSE f[w] \in Free(pl)
  /\ \A v, w \in ws : v # w => f[v] # f[w]

\* Mutant: creation fails, and the row is marked all the same.
NothingMade(pl, f, ws) == pl

WithPlans(pl, f, ws) ==
  [p \in Plans |-> IF \E w \in ws : f[w] = p /\ p \notin Unfinished(pl, w)
                   THEN NewPlan(CHOOSE w \in ws : f[w] = p) ELSE pl[p]]

\* The plan is named in the row, and the next check is an interval away.
Marked(row, p) == [row EXCEPT !.last = p, !.wait = Interval]

Due(gs) == {g \in Goals : gs[g].status = "active" /\ gs[g].wait = 0}

(* tick(): a plan for every due row, and the row marked.  Both are         *)
(* synchronous, so nothing comes between except the end of the process.    *)
Ticked(gs, pl) ==
  LET due == Due(gs)
      ws == {WorkOf(g) : g \in due}
  IN  \E f \in [ws -> Plans] :
        /\ Made(pl, f, ws)
        /\ plan' = WithPlans(pl, f, ws)
        /\ goal' = [g \in Goals |-> IF g \in due THEN Marked(gs[g], f[WorkOf(g)]) ELSE gs[g]]
        /\ halfway' = halfway \ {f[w] : w \in ws}

-----------------------------------------------------------------------------
(* The schedulers.                                                         *)

\* The interval timer fires.
Poll ==
  /\ listening /\ Due(goal) # {}
  /\ Ticked(goal, plan)
  /\ UNCHANGED listening

\* start(), at every spawn
Start ==
  /\ ~listening /\ listening' = TRUE
  /\ Ticked(goal, plan)

\* stop(), at death and when the connection ends; or the process ends.
Stop ==
  /\ listening /\ listening' = FALSE
  /\ UNCHANGED <<goal, plan, halfway>>

\* The process ends after a tick made a plan and before the row names it.
EndHalfway ==
  /\ listening /\ listening' = FALSE
  /\ \E g \in Due(goal), p \in Free(plan) :
       /\ Unfinished(plan, WorkOf(g)) = {}
       /\ plan' = [plan EXCEPT ![p] = NewPlan(WorkOf(g))]
       /\ halfway' = halfway \cup {p}
  /\ UNCHANGED goal

\* create() of a supply goal and register() of a farm, which makes the row
\* active whatever it was; both tick, started or not.
Register(g) ==
  /\ goal[g].status = "none" \/ g \in Farms
  /\ Ticked([goal EXCEPT ![g].status = "active", ![g].wait = 0], plan)
  /\ UNCHANGED listening

\* Mutant: the row is put on hold, its plan is not.
RowHeld(g, s) ==
  /\ plan' = plan
  /\ goal' = [goal EXCEPT ![g].status = s]

\* The row, and by tasks.pause() or tasks.cancel() the plan it names.
RowAndPlanHeld(g, s) ==
  LET p == goal[g].last
      gs == [goal EXCEPT ![g].status = s]
  IN  IF p = NoPlan \/ (s = "paused" /\ plan[p].status = "paused")
      THEN goal' = gs /\ plan' = plan
      ELSE IF s = "paused"
      THEN goal' = gs /\ plan' = [plan EXCEPT ![p].status = s, ![p].resumed = FALSE]
      ELSE goal' = Forgotten(gs, p) /\ plan' = [plan EXCEPT ![p] = NoTask]

\* setStatus("paused" or "cancelled")
Hold(g, s) ==
  /\ goal[g].status \in {"active", "paused"}
  /\ RowAndPlanHeld(g, s)
  /\ halfway' = halfway \ {goal[g].last}
  /\ UNCHANGED listening

\* The process ends after setStatus() wrote the row and before it got to the
\* plan, which stays as it is.
HoldCut(g, s) ==
  /\ goal[g].status \in {"active", "paused"} /\ goal[g].last # NoPlan
  /\ goal' = [goal EXCEPT ![g].status = s]
  /\ halfway' = halfway \cup {goal[g].last}
  /\ listening' = FALSE /\ UNCHANGED plan

\* setStatus("active"): the plan on hold goes on, or the row is due at once.
Reactivate(g) ==
  /\ goal[g].status \in {"active", "paused"}
  /\ LET p == goal[g].last
         row == [goal[g] EXCEPT !.status = "active", !.wait = 0]
     IN  IF p # NoPlan /\ plan[p].status = "paused"
         THEN /\ plan' = [plan EXCEPT ![p].status = "pending"]
              /\ goal' = [goal EXCEPT ![g] = Marked(row, p)]
              /\ halfway' = halfway \ {p}
         ELSE Ticked([goal EXCEPT ![g] = row], plan)
  /\ UNCHANGED listening

-----------------------------------------------------------------------------
(* The rest of the bot.                                                    *)

\* finishSupplyGoalPlan() and finishFarmPlan(): one row that names the plan.
Checked(p, wait) ==
  IF \A g \in Goals : goal[g].last # p THEN goal' = goal
  ELSE \E g \in Goals : /\ goal[g].last = p
                        /\ goal' = Forgotten([goal EXCEPT ![g].wait = wait], p)

\* The engine ends a plan; a scheduler that is not started misses it.
PlanEnds(p) ==
  \E s \in {"completed", "failed"} :
    /\ <<plan[p].status, s>> \in Tasks!Ends
    /\ plan' = [plan EXCEPT ![p] = NoTask]
    /\ IF listening THEN Checked(p, IF s = "failed" THEN RetryAfter ELSE Interval)
                    ELSE goal' = Forgotten(goal, p)
    /\ halfway' = halfway \ {p}
    /\ UNCHANGED listening

PlanWorks(p) ==
  /\ \E s \in {"pending", "running"} :
       /\ <<plan[p].status, s>> \in Tasks!Work
       /\ plan' = [plan EXCEPT ![p].status = s]
  /\ UNCHANGED <<goal, listening, halfway>>

\* The task tool pauses, resumes or cancels a plan; the stops pause it.
PlanTool(p) ==
  /\ plan[p] # NoTask
  /\ \/ \E s \in {"pending", "paused"} :
          /\ <<plan[p].status, s>> \in Tasks!Asked
          /\ plan' = [plan EXCEPT ![p].status = s, ![p].resumed = (s = "pending")]
          /\ UNCHANGED <<goal, halfway>>
     \/ /\ plan' = [plan EXCEPT ![p] = NoTask]
        /\ goal' = Forgotten(goal, p)
        /\ halfway' = halfway \ {p}
  /\ UNCHANGED listening

Minute ==
  /\ \E g \in Goals : goal[g].wait > 0
  /\ goal' = [g \in Goals |-> [goal[g] EXCEPT !.wait = IF @ = 0 THEN 0 ELSE @ - 1]]
  /\ UNCHANGED <<plan, listening, halfway>>

Next ==
  \/ Poll \/ Start \/ Stop \/ EndHalfway \/ Minute
  \/ \E g \in Goals : \/ Register(g) \/ Reactivate(g)
                      \/ \E s \in {"paused", "cancelled"} : Hold(g, s) \/ HoldCut(g, s)
  \/ \E p \in Plans : PlanEnds(p) \/ PlanWorks(p) \/ PlanTool(p)

\* Time passes and the interval timer fires; nothing is assumed of plans,
\* users or the connection.
Spec == Init /\ [][Next]_vars /\ WF_vars(Minute) /\ WF_vars(Poll)

-----------------------------------------------------------------------------
\* However long a plan takes, whoever resumes, registers again, restarts or
\* ends the process: there are never two unfinished plans for the same work.
\* (store.ts:81 claims it of the ticks; it takes tasks.create() to keep it.)
OnePlanPerWork == \A w \in Works : Cardinality(Unfinished(plan, w)) <= 1

\* A goal on hold rests: none of its plans is at work, unless the plan itself
\* was resumed by the task tool, is another goal's too, or was left between
\* two writes by the end of the process.  Those two windows are open (the
\* tick's and setStatus's writes share no transaction), and both close by
\* themselves: with the next tick or hold of the goal, or the plan's end.
HeldGoalRests ==
  \A g \in Goals \ Twins : goal[g].status \in {"paused", "cancelled"} =>
    \A p \in Unfinished(plan, WorkOf(g)) \ halfway :
      plan[p].status = "paused" \/ plan[p].resumed

\* The plans there are are wanted: one for each work, none for one on hold.
PlansAreWanted == OnePlanPerWork /\ HeldGoalRests

\* A goal that is active while the schedulers listen does not stay without a
\* plan: its check comes.
Unserved(g) ==
  listening /\ goal[g].status = "active" /\ Unfinished(plan, WorkOf(g)) = {}

GoalsAreServed == \A g \in Goals : Unserved(g) ~> ~Unserved(g)
=============================================================================
