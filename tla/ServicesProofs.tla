--------------------------- MODULE ServicesProofs ---------------------------
(***************************************************************************)
(* What a connection does by itself beside its engine: the schedulers of   *)
(* goals and farms (first part) and the turns of the agent (second part);  *)
(* and the application around the connections (third part).                *)
(***************************************************************************)
EXTENDS StandingWork, AgentTurns, HostedConnections, FiniteSetTheorems, TLAPS

(***************************************************************************)
(* Never two unfinished plans for the same work, and rest for a goal on    *)
(* hold, for any number of goals, farms and plans.                         *)
(*                                                                         *)
(* A tick finds the plan of a goal by its work, a hold by its name in the  *)
(* row.  The invariant says that both find the same one (Named), except    *)
(* between equal goals and after a process that ended in between.          *)
(***************************************************************************)

GoalRow == [status : {"none", "active", "paused", "cancelled"}, wait : 0..Interval,
            last : Plans \cup {NoPlan}]

PlanRow == [status : {"none", "pending", "running", "paused"}, work : Works \cup {{}},
            resumed : BOOLEAN]

Types(gs, pl) == gs \in [Goals -> GoalRow] /\ pl \in [Plans -> PlanRow]

\* Plans of the same work are the same plan.
Unique(pl) == \A p, q \in Plans : pl[p].work = pl[q].work /\ pl[p] # NoTask => p = q

\* A plan is there as long as it has work to do.
Present(pl) == \A p \in Plans : pl[p].work = {} => pl[p] = NoTask

\* A row names a plan of its work or none, and the plan of a work that only
\* one goal has is named, unless its maker ended before that.
NamesOwn(gs, pl) ==
  \A g \in Goals : gs[g].last # NoPlan => pl[gs[g].last].work = WorkOf(g)

Named(gs, pl, hw) ==
  \A g \in Goals \ Twins : \A p \in Unfinished(pl, WorkOf(g)) \ hw : gs[g].last = p

Rests(gs, pl, hw) ==
  \A g \in Goals \ Twins : gs[g].status \in {"paused", "cancelled"} =>
    \A p \in Unfinished(pl, WorkOf(g)) \ hw : pl[p].status = "paused" \/ pl[p].resumed

Good(gs, pl, hw) ==
  /\ Types(gs, pl) /\ Unique(pl) /\ Present(pl)
  /\ NamesOwn(gs, pl) /\ Named(gs, pl, hw) /\ Rests(gs, pl, hw)

IInv == Good(goal, plan, halfway) /\ listening \in BOOLEAN /\ halfway \subseteq Plans

-----------------------------------------------------------------------------
LEMMA WorkFacts ==
  /\ \A g \in Goals : WorkOf(g) \in Works /\ WorkOf(g) # {}
  /\ \A g \in Goals \ Twins, h \in Goals : WorkOf(g) = WorkOf(h) => g = h
  BY StandingAssumption DEF Works, WorkOf

LEMMA InitIInv == Init => IInv
  <1> SUFFICES ASSUME Init
               PROVE  IInv
    OBVIOUS
  <1>1. \A g \in Goals : goal[g] = [status |-> "none", wait |-> 0, last |-> NoPlan]
    BY DEF Init
  <1>2. \A p \in Plans : plan[p] = NoTask /\ plan[p].work = {}
    BY DEF Init, NoTask
  <1>3. Types(goal, plan)
    <2>1. 0 \in 0..Interval
      BY StandingAssumption
    <2> QED
      BY <2>1 DEF Init, NoTask, Types, GoalRow, PlanRow
  <1>4. \A g \in Goals : Unfinished(plan, WorkOf(g)) = {}
    BY <1>2, WorkFacts DEF Unfinished
  <1> QED
    BY <1>1, <1>2, <1>3, <1>4 DEF Init, IInv, Good, Unique, Present, NamesOwn, Named, Rests

(* A row becomes active: nothing is asked of an active goal's plan.        *)
LEMMA ActivatedGood ==
  ASSUME NEW gs, NEW pl, NEW hw, Good(gs, pl, hw), NEW g \in Goals, NEW row \in GoalRow,
         row.status = "active", row.last = gs[g].last
  PROVE  Good([gs EXCEPT ![g] = row], pl, hw)
  <1> DEFINE new == [gs EXCEPT ![g] = row]
  <1>1. Types(new, pl)
    BY DEF Good, Types
  <1>2. \A h \in Goals : /\ new[h].last = gs[h].last
                         /\ new[h].status \in {gs[h].status, "active"}
    BY DEF Good, Types
  <1> HIDE DEF new
  <1>3. NamesOwn(new, pl) /\ Named(new, pl, hw) /\ Rests(new, pl, hw)
    BY <1>2 DEF Good, NamesOwn, Named, Rests
  <1> QED
    BY <1>1, <1>3 DEF Good, new

(* A plan is forgotten, and a row that names it names none.                *)
LEMMA ForgottenRows ==
  ASSUME NEW gs \in [Goals -> GoalRow], NEW p \in Plans
  PROVE  /\ Forgotten(gs, p) \in [Goals -> GoalRow]
         /\ \A g \in Goals :
              /\ Forgotten(gs, p)[g].status = gs[g].status
              /\ Forgotten(gs, p)[g].last = IF gs[g].last = p THEN NoPlan ELSE gs[g].last
  <1>1. ASSUME NEW g \in Goals
        PROVE  LET row == IF gs[g].last = p THEN [gs[g] EXCEPT !.last = NoPlan] ELSE gs[g]
               IN  /\ row \in GoalRow /\ row.status = gs[g].status
                   /\ row.last = IF gs[g].last = p THEN NoPlan ELSE gs[g].last
    <2>1. gs[g] \in GoalRow
      OBVIOUS
    <2> QED
      BY <2>1 DEF GoalRow
  <1> QED
    BY <1>1 DEF Forgotten

LEMMA RemovedGood ==
  ASSUME NEW gs, NEW pl, NEW hw, NEW hw2, Types(gs, pl), Unique(pl), Present(pl),
         NamesOwn(gs, pl), Named(gs, pl, hw), NEW p \in Plans,
         \A g \in Goals \ Twins : gs[g].status \in {"paused", "cancelled"} =>
           \A q \in Unfinished(pl, WorkOf(g)) \ hw :
             q = p \/ pl[q].status = "paused" \/ pl[q].resumed,
         \A q \in hw \ hw2 : q = p \/ pl[q] = NoTask
  PROVE  Good(Forgotten(gs, p), [pl EXCEPT ![p] = NoTask], hw2)
  <1> DEFINE gn == Forgotten(gs, p)
             pn == [pl EXCEPT ![p] = NoTask]
  <1>1. /\ gn \in [Goals -> GoalRow]
        /\ \A g \in Goals : /\ gn[g].status = gs[g].status
                            /\ gn[g].last = IF gs[g].last = p THEN NoPlan ELSE gs[g].last
    BY ForgottenRows DEF Types
  <1>2. /\ pn \in [Plans -> PlanRow] /\ pn[p] = NoTask
        /\ \A q \in Plans \ {p} : pn[q] = pl[q]
    BY DEF Types, NoTask, PlanRow
  <1>3. NoTask.work = {} /\ NoTask \in PlanRow
    BY DEF NoTask, PlanRow
  <1> HIDE DEF gn, pn
  <1>4. Types(gn, pn)
    BY <1>1, <1>2 DEF Types
  <1>5. Unique(pn)
    BY <1>2, <1>3 DEF Unique, Present
  <1>6. Present(pn)
    BY <1>2 DEF Present
  <1>7. NamesOwn(gn, pn)
    BY <1>1, <1>2, StandingAssumption DEF NamesOwn, Types, GoalRow
  <1>8. \A g \in Goals : \A q \in Unfinished(pn, WorkOf(g)) \ hw2 :
          /\ q \in Unfinished(pl, WorkOf(g)) \ hw /\ q # p /\ pn[q] = pl[q]
    <2>1. ASSUME NEW g \in Goals, NEW q \in Unfinished(pn, WorkOf(g)) \ hw2
          PROVE  q \in Unfinished(pl, WorkOf(g)) \ hw /\ q # p /\ pn[q] = pl[q]
      <3>1. q \in Plans /\ pn[q].work = WorkOf(g) /\ WorkOf(g) # {}
        BY WorkFacts DEF Unfinished
      <3>2. q # p /\ pn[q] = pl[q] /\ pl[q] # NoTask
        BY <1>2, <1>3, <3>1
      <3>3. q \notin hw
        BY <3>2
      <3> QED
        BY <3>1, <3>2, <3>3 DEF Unfinished
    <2> QED
      BY <2>1
  <1>9. Named(gn, pn, hw2)
    BY <1>1, <1>8 DEF Named
  <1>10. Rests(gn, pn, hw2)
    BY <1>1, <1>8 DEF Rests
  <1> QED
    BY <1>4, <1>5, <1>6, <1>7, <1>9, <1>10 DEF Good, gn, pn

(* A plan keeps its work and changes its status.                           *)
LEMMA PlanMovesGood ==
  ASSUME NEW gs, NEW pl, NEW hw, Types(gs, pl), Unique(pl), Present(pl), NamesOwn(gs, pl),
         Named(gs, pl, hw),
         NEW p \in Plans, NEW row \in PlanRow, row.work = pl[p].work, pl[p] # NoTask,
         \A g \in Goals \ Twins : gs[g].status \in {"paused", "cancelled"} =>
           \A q \in Unfinished(pl, WorkOf(g)) \ hw :
             IF q = p THEN row.status = "paused" \/ row.resumed
                      ELSE pl[q].status = "paused" \/ pl[q].resumed
  PROVE  Good(gs, [pl EXCEPT ![p] = row], hw)
  <1> DEFINE pn == [pl EXCEPT ![p] = row]
  <1>1. /\ pn \in [Plans -> PlanRow] /\ pn[p] = row
        /\ \A q \in Plans \ {p} : pn[q] = pl[q]
    BY DEF Types
  <1>2. \A q \in Plans : pn[q].work = pl[q].work
    BY <1>1
  <1>3. pl[p].work # {}
    BY DEF Present
  <1> HIDE DEF pn
  <1>4. Present(pn)
    BY <1>1, <1>2, <1>3 DEF Present
  <1>5. Unique(pn)
    <2>1. ASSUME NEW a \in Plans, NEW b \in Plans, pn[a].work = pn[b].work, pn[a] # NoTask
          PROVE  a = b
      <3>1. pl[a].work = pl[b].work
        BY <1>2, <2>1
      <3>2. pl[a] # NoTask
        BY <1>1, <2>1
      <3> QED
        BY <3>1, <3>2 DEF Unique
    <2> QED
      BY <2>1 DEF Unique
  <1>6. \A g \in Goals : Unfinished(pn, WorkOf(g)) = Unfinished(pl, WorkOf(g))
    BY <1>2 DEF Unfinished
  <1>7. NamesOwn(gs, pn)
    BY <1>2, StandingAssumption DEF NamesOwn, Types, GoalRow
  <1>8. Named(gs, pn, hw)
    BY <1>6 DEF Named
  <1>9. Rests(gs, pn, hw)
    <2>1. ASSUME NEW g \in Goals \ Twins, gs[g].status \in {"paused", "cancelled"},
                 NEW q \in Unfinished(pn, WorkOf(g)) \ hw
          PROVE  pn[q].status = "paused" \/ pn[q].resumed
      <3>1. q \in Unfinished(pl, WorkOf(g)) \ hw /\ q \in Plans
        BY <1>6, <2>1 DEF Unfinished
      <3> QED
        BY <1>1, <2>1, <3>1
    <2> QED
      BY <2>1 DEF Rests
  <1> QED
    BY <1>1, <1>4, <1>5, <1>7, <1>8, <1>9 DEF Good, Types, pn

(* A tick: every due row names the plan of its work, the one there is or a *)
(* new one.                                                                *)
LEMMA TickKeeps ==
  ASSUME NEW gs, NEW pl, Good(gs, pl, halfway), Ticked(gs, pl)
  PROVE  Good(goal', plan', halfway') /\ halfway' \subseteq halfway
  <1> DEFINE due == Due(gs)
             ws == {WorkOf(g) : g \in due}
  <1>1. PICK f \in [ws -> Plans] :
          /\ Made(pl, f, ws)
          /\ plan' = WithPlans(pl, f, ws)
          /\ goal' = [g \in Goals |-> IF g \in due THEN Marked(gs[g], f[WorkOf(g)]) ELSE gs[g]]
          /\ halfway' = halfway \ {f[w] : w \in ws}
    BY DEF Ticked
  <1>2. /\ due \subseteq Goals /\ \A g \in due : WorkOf(g) \in ws /\ gs[g].status = "active"
        /\ \A w \in ws : w \in Works /\ w # {} /\ \E g \in due : w = WorkOf(g)
    BY WorkFacts DEF Due
  <1>3. gs \in [Goals -> GoalRow] /\ pl \in [Plans -> PlanRow]
    BY DEF Good, Types
  <1> HIDE DEF due, ws
  <1>4. \A v, w \in ws : f[v] = f[w] => v = w
    BY <1>1 DEF Made
  <1>5. \A w \in ws : /\ f[w] \in Plans
                      /\ \/ pl[f[w]].work = w
                         \/ Unfinished(pl, w) = {} /\ pl[f[w]] = NoTask
    BY <1>1 DEF Made, Unfinished, Free
  <1>6. \A p \in Plans :
          IF \E w \in ws : f[w] = p /\ p \notin Unfinished(pl, w)
          THEN \E w \in ws : /\ f[w] = p /\ Unfinished(pl, w) = {} /\ pl[p] = NoTask
                             /\ plan'[p] = NewPlan(w)
          ELSE plan'[p] = pl[p]
    <2>1. ASSUME NEW p \in Plans, NEW w \in ws, f[w] = p, p \notin Unfinished(pl, w)
          PROVE  /\ Unfinished(pl, w) = {} /\ pl[p] = NoTask
                 /\ plan'[p] = NewPlan(w)
      <3>1. Unfinished(pl, w) = {} /\ pl[p] = NoTask
        BY <1>5, <2>1 DEF Unfinished
      <3>2. (CHOOSE v \in ws : f[v] = p) = w
        BY <1>4, <2>1
      <3>3. plan'[p] = NewPlan(CHOOSE v \in ws : f[v] = p)
        BY <1>1, <2>1 DEF WithPlans
      <3> QED
        BY <3>1, <3>2, <3>3
    <2>2. ASSUME NEW p \in Plans, ~(\E w \in ws : f[w] = p /\ p \notin Unfinished(pl, w))
          PROVE  plan'[p] = pl[p]
      BY <1>1, <2>2 DEF WithPlans
    <2> QED
      BY <2>1, <2>2
  <1>7. \A w \in Works : NewPlan(w) \in PlanRow /\ NewPlan(w).work = w
    BY DEF NewPlan, PlanRow
  <1>8. plan' \in [Plans -> PlanRow]
    <2>1. \A p \in Plans : plan'[p] \in PlanRow
      BY <1>2, <1>3, <1>6, <1>7
    <2>2. plan' = [p \in Plans |-> plan'[p]]
      BY <1>1 DEF WithPlans
    <2> QED
      BY <2>1, <2>2
  <1>9. \A g \in Goals : /\ goal'[g] \in GoalRow /\ goal'[g].status = gs[g].status
                         /\ g \in due => goal'[g].last = f[WorkOf(g)]
                         /\ g \notin due => goal'[g].last = gs[g].last
    <2>1. ASSUME NEW g \in Goals
          PROVE  /\ goal'[g] \in GoalRow /\ goal'[g].status = gs[g].status
                 /\ g \in due => goal'[g].last = f[WorkOf(g)]
                 /\ g \notin due => goal'[g].last = gs[g].last
      <3>1. gs[g] \in GoalRow /\ Interval \in 0..Interval
        BY <1>3, StandingAssumption
      <3>2. CASE g \in due
        <4>1. goal'[g] = Marked(gs[g], f[WorkOf(g)]) /\ f[WorkOf(g)] \in Plans
          BY <1>1, <1>2, <1>5, <3>2
        <4> QED
          BY <3>1, <3>2, <4>1 DEF Marked, GoalRow
      <3>3. CASE g \notin due
        BY <1>1, <3>1, <3>3
      <3> QED
        BY <3>2, <3>3
    <2> QED
      BY <2>1
  <1>10. Types(goal', plan')
    BY <1>1, <1>8, <1>9 DEF Types
  <1>11. NoTask.work = {}
    BY DEF NoTask
  \* What a plan of plan' is: an old one, or the one made for a due work.
  <1>12. \A p \in Plans : \/ plan'[p] = pl[p]
                          \/ \E w \in ws : /\ f[w] = p /\ Unfinished(pl, w) = {}
                                           /\ pl[p] = NoTask /\ plan'[p].work = w
    <2>1. \A w \in ws : NewPlan(w).work = w
      BY <1>2, <1>7
    <2> QED
      BY <1>6, <2>1
  <1>13. \A w \in ws : plan'[f[w]].work = w
    <2>1. ASSUME NEW w \in ws
          PROVE  plan'[f[w]].work = w
      <3>1. CASE f[w] \notin Unfinished(pl, w)
        BY <1>2, <1>4, <1>5, <1>6, <1>7, <3>1
      <3>2. CASE f[w] \in Unfinished(pl, w)
        <4>1. pl[f[w]].work = w /\ w # {}
          BY <1>2, <3>2 DEF Unfinished
        <4>2. pl[f[w]] # NoTask
          BY <1>11, <4>1
        <4>3. plan'[f[w]] = pl[f[w]]
          BY <1>5, <1>12, <4>2
        <4> QED
          BY <4>1, <4>3
      <3> QED
        BY <3>1, <3>2
    <2> QED
      BY <2>1
  <1>14. Present(plan')
    BY <1>2, <1>12 DEF Good, Present
  <1>15. Unique(plan')
    <2>1. ASSUME NEW a \in Plans, NEW b \in Plans, plan'[a].work = plan'[b].work,
                 plan'[a] # NoTask
          PROVE  a = b
      <3>1. plan'[a].work # {} /\ plan'[b].work # {}
        BY <1>14, <2>1 DEF Present
      <3>2. CASE plan'[a] = pl[a] /\ plan'[b] = pl[b]
        BY <2>1, <3>2 DEF Good, Unique
      <3>3. ASSUME NEW w \in ws, NEW c \in Plans, NEW d \in Plans, f[w] = c,
                   Unfinished(pl, w) = {}, plan'[c].work = w, plan'[d].work = w
            PROVE  c = d
        <4>1. plan'[d] # pl[d]
          BY <3>3 DEF Unfinished
        <4>2. PICK v \in ws : f[v] = d /\ plan'[d].work = v
          BY <1>12, <4>1
        <4> QED
          BY <3>3, <4>2
      <3> QED
        BY <1>12, <2>1, <3>2, <3>3
    <2> QED
      BY <2>1 DEF Unique
  <1>16. NamesOwn(goal', plan')
    <2>1. ASSUME NEW g \in Goals, goal'[g].last # NoPlan
          PROVE  plan'[goal'[g].last].work = WorkOf(g)
      <3>1. CASE g \in due
        BY <1>2, <1>9, <1>13, <3>1
      <3>2. CASE g \notin due
        <4>1. /\ goal'[g].last = gs[g].last /\ gs[g].last \in Plans
              /\ pl[gs[g].last].work = WorkOf(g) /\ WorkOf(g) # {}
          BY <1>3, <1>9, <2>1, <3>2, WorkFacts DEF Good, NamesOwn, GoalRow
        <4>2. pl[gs[g].last] # NoTask
          BY <1>11, <4>1
        <4> QED
          BY <1>12, <4>1, <4>2
      <3> QED
        BY <3>1, <3>2
    <2> QED
      BY <2>1 DEF NamesOwn
  \* A plan of the work of a goal is the one made for it, or was there before.
  <1>17. ASSUME NEW g \in Goals \ Twins, NEW p \in Unfinished(plan', WorkOf(g)) \ halfway'
         PROVE  \/ g \in due /\ f[WorkOf(g)] = p
                \/ /\ plan'[p] = pl[p] /\ p \in Unfinished(pl, WorkOf(g)) \ halfway
                   /\ g \notin due
    <2>1. p \in Plans /\ plan'[p].work = WorkOf(g)
      BY DEF Unfinished
    <2>2. CASE \E w \in ws : f[w] = p
      <3>1. PICK w \in ws : f[w] = p
        BY <2>2
      <3>2. w = WorkOf(g)
        BY <1>13, <2>1, <3>1
      <3>3. PICK h \in due : w = WorkOf(h)
        BY <1>2
      <3>4. g = h
        BY <1>2, <3>2, <3>3, WorkFacts
      <3> QED
        BY <3>1, <3>2, <3>3, <3>4
    <2>3. CASE ~(\E w \in ws : f[w] = p)
      <3>1. plan'[p] = pl[p]
        BY <1>12, <2>1, <2>3
      <3>2. p \notin halfway
        BY <1>1, <2>3
      <3>3. g \notin due
        <4>1. SUFFICES ASSUME g \in due
                       PROVE  FALSE
          OBVIOUS
        <4>2. /\ WorkOf(g) \in ws /\ plan'[f[WorkOf(g)]].work = WorkOf(g)
              /\ f[WorkOf(g)] \in Plans
          BY <1>2, <1>5, <1>13, <4>1
        <4>3. plan'[p] # NoTask
          BY <1>11, <2>1, WorkFacts
        <4> QED
          BY <1>15, <2>1, <2>3, <4>2, <4>3 DEF Unique
      <3> QED
        BY <2>1, <3>1, <3>2, <3>3 DEF Unfinished
    <2> QED
      BY <2>2, <2>3
  <1>18. Named(goal', plan', halfway')
    BY <1>9, <1>17 DEF Good, Named
  <1>19. Rests(goal', plan', halfway')
    BY <1>2, <1>9, <1>17 DEF Good, Rests
  <1> QED
    BY <1>1, <1>10, <1>14, <1>15, <1>16, <1>18, <1>19 DEF Good

-----------------------------------------------------------------------------
(* The actions.                                                            *)

LEMMA EndHalfwayKeeps ==
  ASSUME IInv, EndHalfway
  PROVE  IInv'
  <1>1. PICK g \in Due(goal), p \in Free(plan) :
          /\ Unfinished(plan, WorkOf(g)) = {}
          /\ plan' = [plan EXCEPT ![p] = NewPlan(WorkOf(g))]
          /\ halfway' = halfway \cup {p}
    BY DEF EndHalfway
  <1>2. goal' = goal /\ listening' = FALSE
    BY DEF EndHalfway
  <1>3. /\ g \in Goals /\ p \in Plans /\ plan[p] = NoTask /\ NoTask.work = {}
        /\ WorkOf(g) \in Works /\ WorkOf(g) # {}
    BY <1>1, WorkFacts DEF Due, Free, NoTask
  <1>4. NewPlan(WorkOf(g)) \in PlanRow /\ NewPlan(WorkOf(g)).work = WorkOf(g)
    BY <1>3 DEF NewPlan, PlanRow
  <1>5. /\ plan' \in [Plans -> PlanRow] /\ plan'[p].work = WorkOf(g)
        /\ \A q \in Plans \ {p} : plan'[q] = plan[q]
    BY <1>1, <1>3, <1>4 DEF IInv, Good, Types
  <1>6. Unique(plan')
    <2>1. \A q \in Plans \ {p} : plan'[q].work # WorkOf(g)
      BY <1>1, <1>5 DEF Unfinished
    <2> QED
      BY <1>5, <2>1 DEF IInv, Good, Unique
  <1>7. Present(plan')
    BY <1>3, <1>5 DEF IInv, Good, Present
  <1>8. NamesOwn(goal', plan')
    <2>1. \A h \in Goals : goal[h].last # NoPlan => goal[h].last \in Plans /\ goal[h].last # p
      BY <1>3, WorkFacts DEF IInv, Good, Types, GoalRow, NamesOwn
    <2> QED
      BY <1>2, <1>5, <2>1 DEF IInv, Good, NamesOwn
  <1>9. Named(goal', plan', halfway') /\ Rests(goal', plan', halfway')
    <2>1. \A h \in Goals : \A q \in Unfinished(plan', WorkOf(h)) \ halfway' :
            q \in Unfinished(plan, WorkOf(h)) \ halfway /\ plan'[q] = plan[q]
      BY <1>1, <1>5 DEF Unfinished
    <2> QED
      BY <1>2, <2>1 DEF IInv, Good, Named, Rests
  <1> QED
    BY <1>1, <1>2, <1>3, <1>5, <1>6, <1>7, <1>8, <1>9 DEF IInv, Good, Types

LEMMA RegisterKeeps ==
  ASSUME IInv, NEW g \in Goals, Register(g)
  PROVE  IInv'
  <1> DEFINE row == [goal[g] EXCEPT !.status = "active", !.wait = 0]
  <1>1. goal \in [Goals -> GoalRow] /\ 0 \in 0..Interval
    BY StandingAssumption DEF IInv, Good, Types
  <1>2. row \in GoalRow /\ row.status = "active" /\ row.last = goal[g].last
    BY <1>1 DEF GoalRow
  <1>3. [goal EXCEPT ![g].status = "active", ![g].wait = 0] = [goal EXCEPT ![g] = row]
    BY <1>1
  <1> HIDE DEF row
  <1>4. Ticked([goal EXCEPT ![g] = row], plan) /\ listening' = listening
    BY <1>3 DEF Register
  <1>5. Good([goal EXCEPT ![g] = row], plan, halfway)
    BY <1>2, ActivatedGood DEF IInv
  <1> QED
    BY <1>4, <1>5, TickKeeps DEF IInv

(* A row that is active, or whose plan is on hold, answers for its plan.   *)
LEMMA AskedAgain ==
  ASSUME NEW gs, NEW pl, NEW hw, Good(gs, pl, hw), NEW g \in Goals, NEW p, p = gs[g].last,
         p = NoPlan \/ gs[g].status = "active" \/ pl[p].status = "paused"
  PROVE  Good(gs, pl, hw \ {p})
  <1>1. ASSUME NEW h \in Goals \ Twins, NEW q \in Unfinished(pl, WorkOf(h)) \ (hw \ {p}),
               q \in hw
        PROVE  q = p /\ h = g /\ p # NoPlan
    <2>1. q = p /\ q \in Plans /\ pl[p].work = WorkOf(h)
      BY <1>1 DEF Unfinished
    <2>2. p # NoPlan
      BY <2>1, StandingAssumption
    <2>3. pl[p].work = WorkOf(g)
      BY <2>2 DEF Good, NamesOwn
    <2> QED
      BY <2>1, <2>2, <2>3, WorkFacts
  <1>2. Named(gs, pl, hw \ {p})
    BY <1>1 DEF Good, Named
  <1>3. ASSUME NEW h \in Goals \ Twins, gs[h].status \in {"paused", "cancelled"},
               NEW q \in Unfinished(pl, WorkOf(h)) \ (hw \ {p})
        PROVE  pl[q].status = "paused" \/ pl[q].resumed
    <2>1. CASE q \in hw
      BY <1>1, <1>3, <2>1
    <2>2. CASE q \notin hw
      BY <1>3, <2>2 DEF Good, Rests
    <2> QED
      BY <2>1, <2>2
  <1>4. Rests(gs, pl, hw \ {p})
    BY <1>3 DEF Rests
  <1> QED
    BY <1>2, <1>4 DEF Good

LEMMA ReactivateKeeps ==
  ASSUME IInv, NEW g \in Goals, Reactivate(g)
  PROVE  IInv'
  <1> DEFINE p == goal[g].last
             row == [goal[g] EXCEPT !.status = "active", !.wait = 0]
  <1>1. /\ goal \in [Goals -> GoalRow] /\ plan \in [Plans -> PlanRow]
        /\ 0 \in 0..Interval /\ Interval \in 0..Interval
    BY StandingAssumption DEF IInv, Good, Types
  <1>2. row \in GoalRow /\ row.status = "active" /\ row.last = p
    BY <1>1 DEF GoalRow
  <1>3. listening' = listening
    BY DEF Reactivate
  <1>4. CASE p # NoPlan /\ plan[p].status = "paused"
    <2> DEFINE marked == Marked(row, p)
               moved == [plan[p] EXCEPT !.status = "pending"]
    <2>1. /\ plan' = [plan EXCEPT ![p].status = "pending"]
          /\ goal' = [goal EXCEPT ![g] = marked] /\ halfway' = halfway \ {p}
      BY <1>4 DEF Reactivate
    <2>2. p \in Plans
      BY <1>1, <1>4 DEF GoalRow
    <2>3. marked \in GoalRow /\ marked.status = "active" /\ marked.last = p
      BY <1>1, <1>2, <2>2 DEF Marked, GoalRow
    <2>4. moved \in PlanRow /\ moved.work = plan[p].work /\ plan[p] \in PlanRow
      BY <1>1, <2>2 DEF PlanRow
    <2>5. plan' = [plan EXCEPT ![p] = moved]
      BY <1>1, <2>1, <2>2
    <2>6. plan[p].work = WorkOf(g) /\ plan[p] # NoTask
      BY <1>4, WorkFacts DEF IInv, Good, NamesOwn, NoTask
    <2> HIDE DEF marked, moved
    <2>7. Good(goal', plan, halfway)
      BY <2>1, <2>3, ActivatedGood DEF IInv
    <2> HIDE DEF p, row
    <2>8. ASSUME NEW h \in Goals \ Twins, goal'[h].status \in {"paused", "cancelled"},
                 NEW q \in Unfinished(plan, WorkOf(h)) \ halfway
          PROVE  q # p /\ (plan[q].status = "paused" \/ plan[q].resumed)
      <3>1. goal'[g].status = "active"
        BY <1>1, <2>1, <2>3
      <3>2. h # g
        BY <2>8, <3>1
      <3>3. plan[q].work # WorkOf(g)
        BY <3>2, WorkFacts DEF Unfinished
      <3> QED
        BY <2>6, <2>7, <2>8, <3>3 DEF Good, Rests
    <2>9. Good(goal', [plan EXCEPT ![p] = moved], halfway)
      BY <2>2, <2>4, <2>6, <2>7, <2>8, PlanMovesGood DEF Good
    <2>10. goal'[g].status = "active" /\ goal'[g].last = p
      BY <1>1, <2>1, <2>3
    <2>11. Good(goal', [plan EXCEPT ![p] = moved], halfway \ {p})
      BY <2>9, <2>10, AskedAgain
    <2> QED
      BY <1>3, <2>1, <2>5, <2>11 DEF IInv
  <1>5. CASE ~(p # NoPlan /\ plan[p].status = "paused")
    <2>1. Ticked([goal EXCEPT ![g] = row], plan)
      BY <1>5 DEF Reactivate
    <2>2. Good([goal EXCEPT ![g] = row], plan, halfway)
      BY <1>2, ActivatedGood DEF IInv
    <2> HIDE DEF row
    <2> QED
      BY <1>3, <2>1, <2>2, TickKeeps DEF IInv
  <1> QED
    BY <1>4, <1>5

LEMMA HoldKeeps ==
  ASSUME IInv, NEW g \in Goals, NEW s \in {"paused", "cancelled"}, Hold(g, s)
  PROVE  IInv'
  <1> DEFINE p == goal[g].last
             gs == [goal EXCEPT ![g].status = s]
  <1>1. /\ goal \in [Goals -> GoalRow] /\ plan \in [Plans -> PlanRow]
        /\ Unique(plan) /\ Present(plan) /\ NamesOwn(goal, plan)
        /\ Named(goal, plan, halfway) /\ Rests(goal, plan, halfway)
    BY DEF IInv, Good, Types
  <1>2. /\ gs \in [Goals -> GoalRow] /\ gs[g].status = s
        /\ \A h \in Goals : gs[h].last = goal[h].last
        /\ \A h \in Goals \ {g} : gs[h].status = goal[h].status
    BY <1>1 DEF GoalRow
  <1>3. p \in Plans \cup {NoPlan} /\ NoPlan \notin Plans
    BY <1>1, StandingAssumption DEF GoalRow
  <1>4. /\ halfway' = halfway \ {p} /\ listening' = listening
        /\ \/ /\ p = NoPlan \/ plan[p].status = "paused"
              /\ goal' = gs /\ plan' = plan
           \/ /\ p # NoPlan /\ s = "paused" /\ goal' = gs
              /\ plan' = [plan EXCEPT ![p].status = s, ![p].resumed = FALSE]
           \/ /\ p # NoPlan /\ s = "cancelled"
              /\ goal' = Forgotten(gs, p) /\ plan' = [plan EXCEPT ![p] = NoTask]
    BY DEF Hold, RowAndPlanHeld
  <1> HIDE DEF gs
  <1>5. Types(gs, plan) /\ NamesOwn(gs, plan) /\ Named(gs, plan, halfway)
    BY <1>1, <1>2 DEF Types, NamesOwn, Named
  <1>6. ASSUME NEW h \in Goals \ Twins, gs[h].status \in {"paused", "cancelled"},
               NEW q \in Unfinished(plan, WorkOf(h)) \ halfway
        PROVE  q = p \/ plan[q].status = "paused" \/ plan[q].resumed
    <2>1. goal[h].last = q
      BY <1>1 DEF Named
    <2>2. CASE h = g
      BY <2>1, <2>2
    <2>3. CASE h # g
      BY <1>1, <1>2, <1>6, <2>3 DEF Rests
    <2> QED
      BY <2>2, <2>3
  <1>7. CASE /\ p = NoPlan \/ plan[p].status = "paused"
             /\ goal' = gs /\ plan' = plan
    <2>1. Rests(gs, plan, halfway)
      <3>1. ASSUME NEW h \in Goals \ Twins, gs[h].status \in {"paused", "cancelled"},
                   NEW q \in Unfinished(plan, WorkOf(h)) \ halfway
            PROVE  plan[q].status = "paused" \/ plan[q].resumed
        <4>1. q \in Plans
          BY DEF Unfinished
        <4> HIDE DEF p
        <4> QED
          BY <1>3, <1>6, <1>7, <3>1, <4>1
      <3> QED
        BY <3>1 DEF Rests
    <2>2. Good(gs, plan, halfway)
      BY <1>1, <1>5, <2>1 DEF Good
    <2>3. gs[g].last = p
      BY <1>2
    <2> HIDE DEF p
    <2>4. Good(gs, plan, halfway \ {p})
      BY <1>7, <2>2, <2>3, AskedAgain
    <2> QED
      BY <1>4, <1>7, <2>4 DEF IInv
  <1>8. CASE /\ p # NoPlan /\ s = "paused" /\ goal' = gs
             /\ plan' = [plan EXCEPT ![p].status = s, ![p].resumed = FALSE]
    <2> DEFINE row == [plan[p] EXCEPT !.status = "paused", !.resumed = FALSE]
    <2>1. p \in Plans
      BY <1>3, <1>8
    <2>2. row \in PlanRow /\ row.work = plan[p].work /\ row.status = "paused"
      BY <1>1, <2>1 DEF PlanRow
    <2>3. plan' = [plan EXCEPT ![p] = row]
      BY <1>1, <1>8, <2>1
    <2>4. plan[p] # NoTask
      BY <1>1, <1>8, WorkFacts DEF NamesOwn, NoTask
    <2>5. gs[g].last = p /\ [plan EXCEPT ![p] = row][p].status = "paused"
      BY <1>1, <1>2, <2>1, <2>2
    <2> HIDE DEF row, p
    <2>6. Good(gs, [plan EXCEPT ![p] = row], halfway)
      BY <1>1, <1>5, <1>6, <2>1, <2>2, <2>4, PlanMovesGood
    <2> DEFINE pn == [plan EXCEPT ![p] = row]
    <2>7. Good(gs, pn, halfway) /\ pn[p].status = "paused"
      BY <2>5, <2>6
    <2> HIDE DEF pn
    <2>8. Good(gs, pn, halfway \ {p})
      BY <2>5, <2>7, AskedAgain
    <2> QED
      BY <1>4, <1>8, <2>3, <2>8 DEF IInv, pn
  <1>9. CASE /\ p # NoPlan /\ s = "cancelled"
             /\ goal' = Forgotten(gs, p) /\ plan' = [plan EXCEPT ![p] = NoTask]
    <2>1. p \in Plans
      BY <1>3, <1>9
    <2> HIDE DEF p
    <2>2. \A q \in halfway \ halfway' : q = p \/ plan[q] = NoTask
      BY <1>4
    <2>3. Good(Forgotten(gs, p), [plan EXCEPT ![p] = NoTask], halfway')
      BY <1>1, <1>5, <1>6, <2>1, <2>2, RemovedGood
    <2> QED
      BY <1>4, <1>9, <2>3 DEF IInv
  <1> QED
    BY <1>4, <1>7, <1>8, <1>9

(* The process ends between the row and its plan.                          *)
LEMMA HoldCutKeeps ==
  ASSUME IInv, NEW g \in Goals, NEW s \in {"paused", "cancelled"}, HoldCut(g, s)
  PROVE  IInv'
  <1> DEFINE p == goal[g].last
  <1>1. /\ goal \in [Goals -> GoalRow] /\ plan \in [Plans -> PlanRow]
        /\ Named(goal, plan, halfway) /\ Rests(goal, plan, halfway)
    BY DEF IInv, Good, Types
  <1>2. /\ goal' = [goal EXCEPT ![g].status = s] /\ plan' = plan
        /\ halfway' = halfway \cup {p} /\ listening' = FALSE /\ p \in Plans
    BY <1>1 DEF HoldCut, GoalRow
  <1>3. /\ goal' \in [Goals -> GoalRow]
        /\ \A h \in Goals : goal'[h].last = goal[h].last
        /\ \A h \in Goals \ {g} : goal'[h].status = goal[h].status
    BY <1>1, <1>2 DEF GoalRow
  <1>4. Types(goal', plan) /\ NamesOwn(goal', plan) /\ Named(goal', plan, halfway')
    BY <1>1, <1>2, <1>3 DEF IInv, Good, Types, NamesOwn, Named
  <1>5. ASSUME NEW h \in Goals \ Twins, goal'[h].status \in {"paused", "cancelled"},
               NEW q \in Unfinished(plan, WorkOf(h)) \ halfway'
        PROVE  plan[q].status = "paused" \/ plan[q].resumed
    <2>1. q \notin halfway /\ q # p
      BY <1>2
    <2>2. goal[h].last = q
      BY <1>1, <2>1 DEF Named
    <2>3. h # g
      BY <2>1, <2>2
    <2> QED
      BY <1>1, <1>3, <1>5, <2>1, <2>3 DEF Rests
  <1>6. Rests(goal', plan, halfway')
    BY <1>5 DEF Rests
  <1> QED
    BY <1>2, <1>4, <1>6 DEF IInv, Good

(* A plan ends, or is cancelled by the task tool.                          *)
LEMMA EndedGood ==
  ASSUME IInv, NEW p \in Plans, NEW gs \in [Goals -> GoalRow],
         \A g \in Goals : gs[g].last = goal[g].last /\ gs[g].status = goal[g].status
  PROVE  Good(Forgotten(gs, p), [plan EXCEPT ![p] = NoTask], halfway \ {p})
  <1>1. Types(gs, plan) /\ NamesOwn(gs, plan) /\ Named(gs, plan, halfway)
    BY DEF IInv, Good, Types, NamesOwn, Named
  <1>2. Rests(gs, plan, halfway)
    BY DEF IInv, Good, Rests
  <1> QED
    BY <1>1, <1>2, RemovedGood DEF IInv, Good, Rests

LEMMA UnnamedRows ==
  ASSUME NEW gs \in [Goals -> GoalRow], NEW p, \A g \in Goals : gs[g].last # p
  PROVE  Forgotten(gs, p) = gs
  BY DEF Forgotten

LEMMA PlanEndsKeeps ==
  ASSUME IInv, NEW p \in Plans, PlanEnds(p)
  PROVE  IInv'
  <1>1. goal \in [Goals -> GoalRow]
    BY DEF IInv, Good, Types
  <1>2. /\ plan' = [plan EXCEPT ![p] = NoTask] /\ halfway' = halfway \ {p}
        /\ listening' = listening
        /\ \/ \E wait \in {RetryAfter, Interval} : Checked(p, wait)
           \/ goal' = Forgotten(goal, p)
    BY DEF PlanEnds
  <1>3. \/ goal' = Forgotten(goal, p)
        \/ \E g \in Goals, wait \in {RetryAfter, Interval} :
             goal' = Forgotten([goal EXCEPT ![g].wait = wait], p)
    BY <1>1, <1>2, UnnamedRows DEF Checked
  <1>4. CASE goal' = Forgotten(goal, p)
    BY <1>1, <1>2, <1>4, EndedGood DEF IInv
  <1>5. ASSUME NEW g \in Goals, NEW wait \in {RetryAfter, Interval},
               goal' = Forgotten([goal EXCEPT ![g].wait = wait], p)
        PROVE  IInv'
    <2> DEFINE gs == [goal EXCEPT ![g].wait = wait]
    <2>1. wait \in 0..Interval
      BY StandingAssumption
    <2>2. /\ gs \in [Goals -> GoalRow]
          /\ \A h \in Goals : gs[h].last = goal[h].last /\ gs[h].status = goal[h].status
      BY <1>1, <2>1 DEF GoalRow
    <2> HIDE DEF gs
    <2>3. Good(Forgotten(gs, p), plan', halfway')
      BY <1>2, <2>2, EndedGood
    <2> QED
      BY <1>2, <1>5, <2>3 DEF IInv, gs
  <1> QED
    BY <1>3, <1>4, <1>5

(* A plan is worked on, paused or resumed.                                 *)
LEMMA StatusGood ==
  ASSUME IInv, NEW p \in Plans, NEW row \in PlanRow, row.work = plan[p].work,
         plan[p] # NoTask,
         plan[p].status = "paused" \/ plan[p].resumed => row.status = "paused" \/ row.resumed
  PROVE  Good(goal, [plan EXCEPT ![p] = row], halfway)
  <1>1. /\ Types(goal, plan) /\ Unique(plan) /\ Present(plan) /\ NamesOwn(goal, plan)
        /\ Named(goal, plan, halfway) /\ Rests(goal, plan, halfway)
    BY DEF IInv, Good
  <1>2. ASSUME NEW g \in Goals \ Twins, goal[g].status \in {"paused", "cancelled"},
               NEW q \in Unfinished(plan, WorkOf(g)) \ halfway
        PROVE  IF q = p THEN row.status = "paused" \/ row.resumed
                        ELSE plan[q].status = "paused" \/ plan[q].resumed
    BY <1>1, <1>2 DEF Rests
  <1> QED
    BY <1>1, <1>2, PlanMovesGood

LEMMA PlanMovesKeeps ==
  ASSUME IInv, NEW p \in Plans, PlanWorks(p) \/ PlanTool(p)
  PROVE  IInv'
  <1>1. goal \in [Goals -> GoalRow] /\ plan \in [Plans -> PlanRow] /\ plan[p] \in PlanRow
    BY DEF IInv, Good, Types
  <1>2. CASE PlanWorks(p)
    <2>1. PICK s \in {"pending", "running"} :
            /\ <<plan[p].status, s>> \in Tasks!Work
            /\ plan' = [plan EXCEPT ![p].status = s]
      BY <1>2 DEF PlanWorks
    <2>2. UNCHANGED <<goal, listening, halfway>>
      BY <1>2 DEF PlanWorks
    <2> DEFINE row == [plan[p] EXCEPT !.status = s]
    <2>3. row \in PlanRow /\ row.work = plan[p].work /\ row.resumed = plan[p].resumed
      BY <1>1 DEF PlanRow
    <2>4. plan[p] # NoTask /\ plan[p].status # "paused"
      BY <2>1 DEF Tasks!Work, NoTask
    <2>5. plan' = [plan EXCEPT ![p] = row]
      BY <1>1, <2>1
    <2> HIDE DEF row
    <2> QED
      BY <2>2, <2>3, <2>4, <2>5, StatusGood DEF IInv
  <1>3. CASE PlanTool(p)
    <2>1. plan[p] # NoTask /\ listening' = listening
      BY <1>3 DEF PlanTool
    <2>2. ASSUME NEW s \in {"pending", "paused"},
                 plan' = [plan EXCEPT ![p].status = s, ![p].resumed = (s = "pending")],
                 UNCHANGED <<goal, halfway>>
          PROVE  IInv'
      <3> DEFINE row == [plan[p] EXCEPT !.status = s, !.resumed = (s = "pending")]
      <3>1. CASE s = "pending"
        <4>1. row = [plan[p] EXCEPT !.status = "pending", !.resumed = TRUE]
          BY <3>1
        <4>2. row \in PlanRow /\ row.work = plan[p].work /\ row.resumed
          BY <1>1, <4>1 DEF PlanRow
        <4> QED
          BY <1>1, <2>1, <2>2, <4>2, StatusGood DEF IInv
      <3>2. CASE s = "paused"
        <4>1. row = [plan[p] EXCEPT !.status = "paused", !.resumed = FALSE]
          BY <3>2
        <4>2. row \in PlanRow /\ row.work = plan[p].work /\ row.status = "paused"
          BY <1>1, <4>1 DEF PlanRow
        <4> QED
          BY <1>1, <2>1, <2>2, <4>2, StatusGood DEF IInv
      <3> QED
        BY <3>1, <3>2
    <2>3. CASE /\ plan' = [plan EXCEPT ![p] = NoTask]
               /\ goal' = Forgotten(goal, p) /\ halfway' = halfway \ {p}
      BY <1>1, <2>1, <2>3, EndedGood DEF IInv
    <2> QED
      BY <1>3, <2>2, <2>3 DEF PlanTool
  <1> QED
    BY <1>2, <1>3

LEMMA MinuteKeeps ==
  ASSUME IInv, Minute
  PROVE  IInv'
  <1> DEFINE row(g) == [goal[g] EXCEPT !.wait = IF goal[g].wait = 0 THEN 0 ELSE goal[g].wait - 1]
  <1>1. goal \in [Goals -> GoalRow]
    BY DEF IInv, Good, Types
  <1>2. ASSUME NEW g \in Goals
        PROVE  /\ row(g) \in GoalRow /\ row(g).status = goal[g].status
               /\ row(g).last = goal[g].last
    <2>1. goal[g] \in GoalRow
      BY <1>1
    <2>2. (IF goal[g].wait = 0 THEN 0 ELSE goal[g].wait - 1) \in 0..Interval
      BY <2>1, StandingAssumption DEF GoalRow
    <2> QED
      BY <2>1, <2>2 DEF GoalRow
  <1>3. goal' = [g \in Goals |-> row(g)] /\ UNCHANGED <<plan, listening, halfway>>
    BY DEF Minute
  <1>4. /\ goal' \in [Goals -> GoalRow]
        /\ \A g \in Goals : goal'[g].status = goal[g].status /\ goal'[g].last = goal[g].last
    <2> HIDE DEF row
    <2> QED
      BY <1>2, <1>3
  <1>5. NamesOwn(goal', plan) /\ Named(goal', plan, halfway) /\ Rests(goal', plan, halfway)
    BY <1>4 DEF IInv, Good, NamesOwn, Named, Rests
  <1> QED
    BY <1>3, <1>4, <1>5 DEF IInv, Good, Types

LEMMA NextKeeps == IInv /\ [Next]_vars => IInv'
  <1>1. ASSUME IInv, Poll \/ Start
        PROVE  IInv'
    <2>1. Ticked(goal, plan) /\ listening' \in BOOLEAN
      BY <1>1 DEF Poll, Start, IInv
    <2> QED
      BY <1>1, <2>1, TickKeeps DEF IInv
  <1>2. ASSUME IInv, Stop
        PROVE  IInv'
    BY <1>2 DEF Stop, IInv
  <1>3. ASSUME IInv, UNCHANGED vars
        PROVE  IInv'
    BY <1>3 DEF IInv, vars
  <1> QED
    BY <1>1, <1>2, <1>3, EndHalfwayKeeps, MinuteKeeps, RegisterKeeps, ReactivateKeeps,
       HoldKeeps, HoldCutKeeps, PlanEndsKeeps, PlanMovesKeeps DEF Next

-----------------------------------------------------------------------------
(* The invariant above holds of every reachable state.                     *)
THEOREM Invariance == Spec => []IInv
  BY InitIInv, NextKeeps, PTL DEF Spec

(* The rows of goals, farms and plans keep their types.                    *)
THEOREM TypeCorrect == Spec => []TypeOK
  <1>1. IInv => TypeOK
    BY DEF IInv, Good, Types, GoalRow, PlanRow, TypeOK, Tasks!Unfinished
  <1> QED
    BY <1>1, Invariance, PTL

(* However long plans take, whoever holds, resumes or registers again, and *)
(* also when the process ends between a plan and its name in the row, or   *)
(* between a row's hold and its plan's: one unfinished plan for a work,    *)
(* and none at work for a goal on hold but those that such an end left     *)
(* (supply/store.ts:81, supply/scheduler.ts:101).                          *)
THEOREM Wanted == Spec => []PlansAreWanted
  <1>1. IInv => PlansAreWanted
    <2> SUFFICES ASSUME IInv
                 PROVE  PlansAreWanted
      OBVIOUS
    <2>1. ASSUME NEW w \in Works
          PROVE  Cardinality(Unfinished(plan, w)) <= 1
      <3>1. w # {}
        BY WorkFacts DEF Works
      <3>2. \A p, q \in Unfinished(plan, w) : p = q
        BY <3>1 DEF IInv, Good, Unique, Unfinished, NoTask
      <3>3. CASE Unfinished(plan, w) = {}
        BY <3>3, FS_EmptySet
      <3>4. CASE Unfinished(plan, w) # {}
        <4>1. PICK p \in Unfinished(plan, w) : Unfinished(plan, w) = {p}
          BY <3>2, <3>4
        <4>2. Cardinality({p}) = 1
          BY FS_Singleton
        <4> QED
          BY <4>1, <4>2
      <3> QED
        BY <3>3, <3>4
    <2>2. HeldGoalRests
      BY DEF IInv, Good, Rests, HeldGoalRests
    <2> QED
      BY <2>1, <2>2 DEF PlansAreWanted, OnePlanPerWork
  <1> QED
    BY <1>1, Invariance, PTL

-----------------------------------------------------------------------------
(***************************************************************************)
(* That a tool serves the one whose turn asked for it, for any depth of    *)
(* the queue, any number of triggers and any calls of the app-server, and  *)
(* that the Codex client of a closed connection is silent.                 *)
(*                                                                         *)
(* RightActor is about the past; what carries it is the present: the one   *)
(* shared object is the requester of the turn in flight, a thread that may *)
(* call is that turn's, and the turns that wait are later than every turn  *)
(* that ran a tool, so that none of these begins a second time.            *)
(***************************************************************************)

(* The types of what the properties speak of, and of the rest.             *)
TurnsTypes ==
  /\ client \in {"codex", "openrouter"} /\ by \in Seq(People) /\ Len(by) <= MaxTurns
  /\ queue \in Seq(Turns) /\ turn \in Turn
  /\ actor \in [name : People, role : Roles] /\ guest \in Roles \ {"owner"}
  /\ began \in [Turns -> Roles \cup {"none"}]
  /\ ran \subseteq [turn : Turns, name : People, need : Roles]

RestTypes ==
  /\ ready \in {"no", "busy", "yes", "failed"} /\ broken \in BOOLEAN /\ closed \in BOOLEAN
  /\ threads \subseteq Turns /\ stops \in 0..MaxStops

(* The object that every tool reads is the requester of the turn in flight.*)
ActorIsTurns ==
  turn.no # 0 => /\ turn.no \in DOMAIN by
                 /\ actor.name = by[turn.no] /\ actor.role = began[turn.no]

(* Turns wait in the order of their triggers, later than what has begun.   *)
WaitTheirTurn ==
  /\ turn.no = 0 => queue = <<>>
  /\ \A i \in DOMAIN queue : queue[i] \in DOMAIN by /\ queue[i] > turn.no
  /\ \A i, j \in DOMAIN queue : i < j => queue[i] < queue[j]

RanBefore ==
  \A r \in ran : /\ r.turn \in DOMAIN by
                 /\ turn.no # 0 => r.turn <= turn.no
                 /\ \A i \in DOMAIN queue : r.turn < queue[i]

(* A client's turn passes through its own stages; closed, the Codex client *)
(* has no turn that it serves.                                             *)
OwnStages ==
  /\ turn.active \in {0, turn.no}
  /\ turn.stage \in {"ask", "calls"} => client = "openrouter" /\ turn.no # 0
  /\ turn.handling => turn.stage = "calls"
  /\ turn.stage \in Codex => client = "codex" /\ turn.no # 0
  /\ client = "openrouter" => turn.active = 0
  /\ turn.stage \notin Codex => turn.active = 0
  /\ closed /\ client = "codex" => turn.stage \notin Codex

TurnsInv == TurnsTypes /\ ActorIsTurns /\ WaitTheirTurn /\ RanBefore /\ OwnStages /\ RightActor

-----------------------------------------------------------------------------
LEMMA TurnsInitInv == TurnsInit => TurnsInv
  BY AgentAssumption DEF TurnsInit, TurnsInv, TurnsTypes, Turn, NoTurn, Turns, People, Roles, Stages, Codex,
     ActorIsTurns, WaitTheirTurn, RanBefore, OwnStages, RightActor

-----------------------------------------------------------------------------
(* The three ways a step changes what TurnsInv speaks of: the turn in flight   *)
(* goes on, it runs a tool, or the next one begins.                        *)

LEMMA OverMoves ==
  ASSUME NEW t \in Turn
  PROVE  /\ Over(t) \in Turn /\ Over(t).no = t.no /\ Over(t).handling = t.handling
         /\ Over(t).stage = "over" /\ Over(t).active = 0
  <1>1. "over" \in Stages /\ 0 \in 0..MaxTurns
    BY AgentAssumption DEF Stages
  <1> QED
    BY <1>1 DEF Over, Turn

LEMMA TurnGoesOn ==
  ASSUME TurnsInv, TurnsTypes', OwnStages', turn'.no = turn.no,
         UNCHANGED <<by, queue, actor, began, ran>>
  PROVE  TurnsInv'
  <1>1. ActorIsTurns' /\ WaitTheirTurn' /\ RanBefore'
    BY DEF TurnsInv, ActorIsTurns, WaitTheirTurn, RanBefore
  <1>2. RightActor'
    BY DEF TurnsInv, RightActor
  <1> QED
    BY <1>1, <1>2 DEF TurnsInv

LEMMA ToolRuns ==
  ASSUME TurnsInv, TurnsTypes', OwnStages', turn'.no = turn.no, turn.no # 0,
         NEW need \in Roles, RunTool(turn.no, need),
         UNCHANGED <<by, queue, actor, began>>
  PROVE  TurnsInv'
  <1> DEFINE new == [turn |-> turn.no, name |-> actor.name, need |-> need]
  <1>1. ActorIsTurns' /\ WaitTheirTurn'
    BY DEF TurnsInv, ActorIsTurns, WaitTheirTurn
  <1>2. \/ ran' = ran
        \/ ran' = ran \cup {new} /\ Allowed(actor.role, need)
    BY DEF RunTool
  <1>3. /\ new.turn \in DOMAIN by /\ new.turn = turn.no
        /\ new.name = by[new.turn] /\ actor.role = began[new.turn] /\ new.need = need
    BY DEF TurnsInv, ActorIsTurns
  <1> HIDE DEF new
  <1>4. RanBefore'
    BY <1>2, <1>3 DEF TurnsInv, RanBefore, WaitTheirTurn, TurnsTypes, Turn, Turns
  <1>5. RightActor'
    BY <1>2, <1>3 DEF TurnsInv, RightActor
  <1> QED
    BY <1>1, <1>4, <1>5 DEF TurnsInv

(* The turn that begins has run no tool: it is later than all that did.    *)
LEMMA TurnBegins ==
  ASSUME TurnsInv, NEW n \in Turns, NEW who \in People, Begin(n, who),
         by' \in Seq(People), Len(by') <= MaxTurns, n \in DOMAIN by', by'[n] = who,
         \A m \in DOMAIN by : m \in DOMAIN by' /\ by'[m] = by[m],
         \A r \in ran : r.turn < n,
         queue' \in Seq(Turns),
         \A i \in DOMAIN queue' : queue'[i] \in DOMAIN by' /\ queue'[i] > n,
         \A i, j \in DOMAIN queue' : i < j => queue'[i] < queue'[j],
         UNCHANGED <<client, guest, closed, ran>>
  PROVE  TurnsInv'
  <1>1. /\ turn' = [NoTurn EXCEPT !.no = n, !.stage = FirstStage]
        /\ actor' = [name |-> who, role |-> RoleOf(who)]
        /\ began' = [began EXCEPT ![n] = RoleOf(who)]
    BY DEF Begin
  <1>2. /\ FirstStage \in Stages /\ FirstStage # "calls"
        /\ FirstStage = "ask" => client = "openrouter"
        /\ FirstStage \in Codex => client = "codex" /\ ~closed
    BY DEF TurnsInv, TurnsTypes, FirstStage, Stages, Codex
  <1>3. /\ turn' \in Turn /\ turn'.no = n /\ turn'.stage = FirstStage
        /\ turn'.active = 0 /\ ~turn'.handling
    <2>1. turn' = [no |-> n, stage |-> FirstStage, aborted |-> FALSE, active |-> 0,
                   named |-> FALSE, ended |-> FALSE, calls |-> 0, batch |-> 0,
                   handling |-> FALSE]
      BY <1>1 DEF NoTurn
    <2> QED
      BY <1>2, <2>1, AgentAssumption DEF Turn, Turns
  <1>4. RoleOf(who) \in Roles
    BY DEF TurnsInv, TurnsTypes, RoleOf, Roles
  <1>5. TurnsTypes'
    BY <1>1, <1>3, <1>4 DEF TurnsInv, TurnsTypes
  <1>6. n # 0 /\ began'[n] = RoleOf(who) /\ \A m \in Turns \ {n} : began'[m] = began[m]
    BY <1>1 DEF TurnsInv, TurnsTypes, Turns
  <1>7. ActorIsTurns'
    BY <1>1, <1>3, <1>6 DEF ActorIsTurns
  <1>8. WaitTheirTurn'
    BY <1>3, <1>6 DEF WaitTheirTurn
  <1>9. RanBefore'
    BY <1>3, <1>5 DEF TurnsInv, RanBefore, TurnsTypes, Turns
  <1>10. OwnStages'
    BY <1>2, <1>3 DEF OwnStages, Codex
  <1>11. RightActor'
    <2>1. ASSUME NEW r \in ran
          PROVE  r.turn \in Turns \ {n} /\ by'[r.turn] = by[r.turn]
      BY DEF TurnsInv, RanBefore, TurnsTypes, Turns
    <2> QED
      BY <1>6, <2>1 DEF TurnsInv, RightActor
  <1> QED
    BY <1>5, <1>7, <1>8, <1>9, <1>10, <1>11 DEF TurnsInv

-----------------------------------------------------------------------------
(* The actions.                                                            *)

LEMMA TriggerKeeps ==
  ASSUME TurnsInv, NEW who \in People, Trigger(who)
  PROVE  TurnsInv'
  <1> DEFINE n == Len(by) + 1
  <1>1. /\ by \in Seq(People) /\ n \in Turns /\ by' = Append(by, who)
        /\ queue \in Seq(Turns)
    BY AgentAssumption DEF TurnsInv, TurnsTypes, Trigger, Turns
  <1>2. /\ by' \in Seq(People) /\ Len(by') = n /\ n \in DOMAIN by' /\ by'[n] = who
        /\ \A m \in DOMAIN by : m \in DOMAIN by' /\ by'[m] = by[m] /\ m < n
    BY <1>1
  <1>3. Len(by') <= MaxTurns
    BY <1>1, <1>2 DEF Turns
  <1>4. \A r \in ran : r.turn < n
    BY <1>2 DEF TurnsInv, RanBefore
  <1> HIDE DEF n
  <1>5. CASE Busy
    <2>1. queue' = Append(queue, n) /\ UNCHANGED <<turn, actor, began, ran, client, guest, closed>>
      BY <1>5 DEF Trigger, n
    <2>2. TurnsTypes'
      BY <1>1, <1>2, <1>3, <2>1 DEF TurnsInv, TurnsTypes
    <2>3. turn.no < n
      BY <1>2, <1>5 DEF TurnsInv, ActorIsTurns, Busy
    <2>4. \A i \in DOMAIN queue' : \/ i \in DOMAIN queue /\ queue'[i] = queue[i] /\ queue[i] < n
                                   \/ i = Len(queue) + 1 /\ queue'[i] = n
      BY <1>1, <1>2, <2>1 DEF TurnsInv, WaitTheirTurn
    <2>5. WaitTheirTurn'
      <3>1. turn'.no = turn.no /\ turn.no # 0
        BY <1>5, <2>1 DEF Busy
      <3>2. \A i \in DOMAIN queue' : queue'[i] \in DOMAIN by' /\ queue'[i] > turn'.no
        BY <1>2, <2>3, <2>4, <3>1 DEF TurnsInv, WaitTheirTurn
      <3>3. ASSUME NEW i \in DOMAIN queue', NEW j \in DOMAIN queue', i < j
            PROVE  queue'[i] < queue'[j]
        <4>1. i \in DOMAIN queue
          BY <1>1, <2>1, <3>3
        <4>2. queue'[i] = queue[i] /\ queue[i] < n
          BY <1>1, <2>4, <4>1
        <4> QED
          BY <2>4, <3>3, <4>1, <4>2 DEF TurnsInv, WaitTheirTurn
      <3> QED
        BY <3>1, <3>2, <3>3 DEF WaitTheirTurn
    <2>6. RanBefore'
      BY <1>2, <1>4, <2>1, <2>4 DEF TurnsInv, RanBefore
    <2>7. ActorIsTurns' /\ OwnStages'
      BY <1>2, <2>1 DEF TurnsInv, ActorIsTurns, OwnStages
    <2>8. RightActor'
      BY <1>2, <2>1 DEF TurnsInv, RightActor, RanBefore
    <2> QED
      BY <2>2, <2>5, <2>6, <2>7, <2>8 DEF TurnsInv
  <1>6. CASE ~Busy
    <2>1. Begin(n, who) /\ queue' = queue /\ UNCHANGED <<client, guest, closed, ran>>
      BY <1>6 DEF Trigger, n
    <2>2. queue = <<>>
      BY <1>6 DEF TurnsInv, WaitTheirTurn, Busy
    <2>3. queue' \in Seq(Turns) /\ DOMAIN queue' = {}
      BY <2>1, <2>2
    <2> QED
      BY <1>1, <1>2, <1>3, <1>4, <2>1, <2>3, TurnBegins
  <1> QED
    BY <1>5, <1>6

LEMMA EndTurnKeeps ==
  ASSUME TurnsInv, EndTurn
  PROVE  TurnsInv'
  <1>1. CASE queue = <<>>
    <2>1. turn' = NoTurn /\ UNCHANGED <<queue, actor, began, client, by, guest, closed, ran>>
      BY <1>1 DEF EndTurn
    <2>2. /\ NoTurn \in Turn /\ NoTurn.no = 0 /\ NoTurn.active = 0
          /\ NoTurn.stage = "none" /\ ~NoTurn.handling
      BY AgentAssumption DEF NoTurn, Turn, Stages
    <2>3. TurnsTypes' /\ ActorIsTurns' /\ OwnStages'
      BY <2>1, <2>2 DEF TurnsInv, TurnsTypes, ActorIsTurns, OwnStages, Codex
    <2>4. WaitTheirTurn' /\ RanBefore'
      BY <1>1, <2>1, <2>2 DEF TurnsInv, WaitTheirTurn, RanBefore
    <2>5. RightActor'
      BY <2>1 DEF TurnsInv, RightActor
    <2> QED
      BY <2>3, <2>4, <2>5 DEF TurnsInv
  <1>2. CASE queue # <<>>
    <2> DEFINE n == Head(queue)
    <2>1. /\ Begin(n, by[n]) /\ queue' = Tail(queue)
          /\ UNCHANGED <<client, by, guest, closed, ran>>
      BY <1>2 DEF EndTurn
    <2>2. /\ queue \in Seq(Turns) /\ 1 \in DOMAIN queue /\ n = queue[1]
          /\ n \in Turns /\ n \in DOMAIN by /\ by \in Seq(People) /\ by[n] \in People
          /\ Len(by) <= MaxTurns
      BY <1>2 DEF TurnsInv, TurnsTypes, WaitTheirTurn
    <2>3. /\ queue' \in Seq(Turns)
          /\ \A i \in DOMAIN queue' : i + 1 \in DOMAIN queue /\ queue'[i] = queue[i + 1]
      BY <1>2, <2>1, <2>2
    <2>4. \A i \in DOMAIN queue' : queue'[i] \in DOMAIN by /\ queue'[i] > n
      BY <2>2, <2>3 DEF TurnsInv, WaitTheirTurn
    <2>5. \A i, j \in DOMAIN queue' : i < j => queue'[i] < queue'[j]
      BY <2>2, <2>3 DEF TurnsInv, WaitTheirTurn
    <2>6. \A r \in ran : r.turn < n
      BY <2>2 DEF TurnsInv, RanBefore
    <2> HIDE DEF n
    <2> QED
      BY <2>1, <2>2, <2>3, <2>4, <2>5, <2>6, TurnBegins
  <1> QED
    BY <1>1, <1>2

(* A turn of the Codex client goes from stage to stage, or is over.        *)
LEMMA CodexKeeps ==
  ASSUME TurnsInv,
         \/ Connected \/ ConnectFails \/ ThreadStarted \/ TurnStarted \/ RequestFails
         \/ TurnCompleted \/ Breaks
  PROVE  TurnsInv'
  <1>1. turn \in Turn /\ turn.active \in {0, turn.no} /\ turn.no \in 0..MaxTurns
    BY DEF TurnsInv, TurnsTypes, OwnStages, Turn
  <1>2. /\ UNCHANGED <<client, by, queue, actor, guest, closed, began, ran>>
        /\ \/ turn' = turn
           \/ turn.stage \in Codex /\ turn' = Over(turn)
           \/ turn.stage = "connect" /\ turn' = [turn EXCEPT !.stage = "thread"]
           \/ turn.stage = "thread" /\ turn' = [turn EXCEPT !.stage = "start", !.active = turn.no]
           \/ turn.stage = "start" /\ turn' = [turn EXCEPT !.stage = "stream", !.named = TRUE]
           \/ turn.stage = "start" /\ turn' = [turn EXCEPT !.ended = TRUE]
    BY DEF Connected, ConnectFails, ThreadStarted, TurnStarted, RequestFails, TurnCompleted,
           Breaks, Goes, Listening, Failing, Codex
  <1>3. /\ turn' \in Turn /\ turn'.no = turn.no /\ turn'.handling = turn.handling
        /\ \/ turn'.stage = turn.stage /\ turn'.active = turn.active
           \/ turn.stage \in Codex /\ turn'.stage = "over" /\ turn'.active = 0
           \/ turn.stage \in Codex /\ turn'.stage \in Codex /\ turn'.active \in {0, turn.no}
    <2>1. CASE turn' = turn
      BY <1>1, <2>1
    <2>2. CASE turn.stage \in Codex /\ turn' = Over(turn)
      BY <1>1, <2>2, OverMoves
    <2>3. CASE turn.stage = "connect" /\ turn' = [turn EXCEPT !.stage = "thread"]
      BY <1>1, <2>3 DEF Turn, Stages, Codex
    <2>4. CASE turn.stage = "thread" /\ turn' = [turn EXCEPT !.stage = "start", !.active = turn.no]
      BY <1>1, <2>4 DEF Turn, Stages, Codex
    <2>5. CASE turn.stage = "start" /\ turn' = [turn EXCEPT !.stage = "stream", !.named = TRUE]
      BY <1>1, <2>5 DEF Turn, Stages, Codex
    <2>6. CASE turn.stage = "start" /\ turn' = [turn EXCEPT !.ended = TRUE]
      BY <1>1, <2>6 DEF Turn
    <2> QED
      BY <1>2, <2>1, <2>2, <2>3, <2>4, <2>5, <2>6
  <1>4. TurnsTypes'
    BY <1>2, <1>3 DEF TurnsInv, TurnsTypes
  <1>5. OwnStages'
    BY <1>2, <1>3 DEF TurnsInv, OwnStages, Codex
  <1> QED
    BY <1>2, <1>3, <1>4, <1>5, TurnGoesOn

(* Only the thread of the turn in flight may call, so the object that the  *)
(* tool reads is its requester.                                            *)
LEMMA ToolCallKeeps ==
  ASSUME TurnsInv, NEW n \in Turns, NEW need \in Roles, ToolCall(n, need)
  PROVE  TurnsInv'
  <1>1. turn \in Turn /\ turn.no = n /\ n # 0
    BY DEF TurnsInv, TurnsTypes, OwnStages, ToolCall, Accepted
  <1>2. turn' = [turn EXCEPT !.calls = turn.calls + 1]
    BY DEF ToolCall
  <1>3. /\ turn' \in Turn /\ turn'.no = turn.no /\ turn'.stage = turn.stage
        /\ turn'.active = turn.active /\ turn'.handling = turn.handling
    <2>1. turn.calls + 1 \in 0..(MaxCalls + 1)
      BY <1>1, AgentAssumption DEF ToolCall, Turn
    <2> QED
      BY <1>1, <1>2, <2>1 DEF Turn
  <1>4. OwnStages'
    BY <1>3 DEF TurnsInv, OwnStages, ToolCall
  <1>5. CASE turn.calls < MaxCalls
    <2>1. RunTool(turn.no, need) /\ UNCHANGED <<by, queue, actor, began>>
      BY <1>1, <1>5 DEF ToolCall
    <2>2. TurnsTypes'
      BY <1>1, <1>3, <2>1 DEF TurnsInv, TurnsTypes, RunTool, ToolCall
    <2> QED
      BY <1>1, <1>3, <1>4, <2>1, <2>2, ToolRuns
  <1>6. CASE ~(turn.calls < MaxCalls)
    <2>1. UNCHANGED <<ran, guest>>
      BY <1>6 DEF ToolCall
    <2>2. TurnsTypes'
      BY <1>3, <2>1 DEF TurnsInv, TurnsTypes, ToolCall
    <2> QED
      BY <1>3, <1>4, <2>1, <2>2, TurnGoesOn DEF ToolCall
  <1> QED
    BY <1>5, <1>6

(* The OpenRouter client asks, and runs the calls of an answer in turn.    *)
LEMMA OpenRouterKeeps ==
  ASSUME TurnsInv, (\E k \in 0..(MaxCalls + 1) : Answered(k)) \/ AskFails \/ ToolAnswers
  PROVE  TurnsInv'
  <1>1. turn \in Turn
    BY DEF TurnsInv, TurnsTypes
  <1>2. UNCHANGED <<client, by, queue, actor, guest, closed, began, ran>>
    BY DEF Answered, AskFails, ToolAnswers, Stays
  <1>3. /\ turn' \in Turn /\ turn'.no = turn.no
        /\ turn.stage \in {"ask", "calls"} /\ turn'.stage \in {"over", "ask", "calls"}
        /\ turn'.handling => turn'.stage = "calls"
        /\ turn'.active \in {turn.active, 0}
    <2> DEFINE Goal == /\ turn' \in Turn /\ turn'.no = turn.no
                       /\ turn.stage \in {"ask", "calls"}
                       /\ turn'.stage \in {"over", "ask", "calls"}
                       /\ turn'.handling => turn'.stage = "calls"
                       /\ turn'.active \in {turn.active, 0}
    <2>1. turn.stage = "ask" => ~turn.handling
      BY DEF TurnsInv, OwnStages
    <2>2. ASSUME NEW k \in 0..(MaxCalls + 1), Answered(k)
          PROVE  Goal
      <3>1. CASE turn' = Over(turn)
        BY <1>1, <2>1, <2>2, <3>1, OverMoves DEF Answered
      <3>2. CASE turn' = [turn EXCEPT !.stage = "calls", !.batch = k]
        <4>1. "calls" \in Stages
          BY DEF Stages
        <4>2. turn.stage = "ask"
          BY <2>2 DEF Answered
        <4> QED
          BY <1>1, <3>2, <4>1, <4>2 DEF Turn
      <3> QED
        BY <2>2, <3>1, <3>2 DEF Answered
    <2>3. CASE AskFails
      BY <1>1, <2>1, <2>3, OverMoves DEF AskFails
    <2>4. CASE ToolAnswers
      <3> DEFINE t == [turn EXCEPT !.handling = FALSE]
      <3>1. turn.stage = "calls"
        BY <2>4 DEF TurnsInv, OwnStages, ToolAnswers
      <3>2. /\ t \in Turn /\ t.no = turn.no /\ t.stage = turn.stage /\ t.active = turn.active
            /\ ~t.handling
        BY <1>1 DEF Turn
      <3>3. CASE turn' = t
        BY <3>1, <3>2, <3>3
      <3>4. CASE turn' = Over(t)
        <4> HIDE DEF t
        <4> QED
          BY <3>1, <3>2, <3>4, OverMoves
      <3>5. CASE turn' = [turn EXCEPT !.handling = FALSE, !.stage = "ask"]
        BY <1>1, <3>1, <3>5 DEF Turn, Stages
      <3> QED
        BY <2>4, <3>3, <3>4, <3>5 DEF ToolAnswers
    <2> QED
      BY <2>2, <2>3, <2>4
  <1>4. TurnsTypes'
    BY <1>2, <1>3 DEF TurnsInv, TurnsTypes
  <1>5. OwnStages'
    BY <1>2, <1>3 DEF TurnsInv, OwnStages, Codex
  <1> QED
    BY <1>2, <1>3, <1>4, <1>5, TurnGoesOn

LEMMA NextCallKeeps ==
  ASSUME TurnsInv, NEW need \in Roles, NextCall(need)
  PROVE  TurnsInv'
  <1>1. turn \in Turn /\ turn.stage = "calls" /\ turn.no # 0
    BY DEF TurnsInv, TurnsTypes, OwnStages, NextCall
  <1>2. UNCHANGED <<client, by, queue, actor, closed, began>>
    BY DEF NextCall, Stays
  <1>3. CASE turn.calls < MaxCalls
    <2>1. /\ turn' = [turn EXCEPT !.calls = turn.calls + 1, !.batch = turn.batch - 1,
                                  !.handling = TRUE]
          /\ turn.batch > 0 /\ RunTool(turn.no, need)
      BY <1>3 DEF NextCall
    <2>2. turn.calls + 1 \in 0..(MaxCalls + 1) /\ turn.batch - 1 \in 0..(MaxCalls + 1)
      BY <1>1, <1>3, <2>1, AgentAssumption DEF Turn
    <2>3. /\ turn' \in Turn /\ turn'.no = turn.no /\ turn'.stage = turn.stage
          /\ turn'.active = turn.active
      BY <1>1, <2>1, <2>2 DEF Turn
    <2>4. turn.no \in Turns
      BY <1>1 DEF Turn, Turns
    <2>5. TurnsTypes'
      BY <1>2, <2>1, <2>3, <2>4 DEF TurnsInv, TurnsTypes, RunTool
    <2>6. OwnStages'
      BY <1>1, <1>2, <2>3 DEF TurnsInv, OwnStages
    <2> QED
      BY <1>1, <1>2, <2>1, <2>3, <2>5, <2>6, ToolRuns
  <1>4. CASE ~(turn.calls < MaxCalls)
    <2>1. turn' = Over(turn) /\ UNCHANGED <<ran, guest>>
      BY <1>4 DEF NextCall
    <2>2. /\ turn' \in Turn /\ turn'.no = turn.no /\ turn'.stage = "over"
          /\ turn'.active = 0 /\ ~turn'.handling
      BY <1>1, <2>1, OverMoves DEF NextCall
    <2>3. TurnsTypes' /\ OwnStages'
      BY <1>2, <2>1, <2>2 DEF TurnsInv, TurnsTypes, OwnStages, Codex
    <2> QED
      BY <1>2, <2>1, <2>2, <2>3, TurnGoesOn
  <1> QED
    BY <1>3, <1>4

(* A timeout, a stop and the end of the connection.                        *)
LEMMA AbortedMoves ==
  ASSUME turn \in Turn
  PROVE  /\ AbortedTurn(turn) \in Turn /\ AbortedTurn(turn).no = turn.no
         /\ AbortedTurn(turn).handling = turn.handling
         /\ \/ AbortedTurn(turn).stage = turn.stage /\ AbortedTurn(turn).active = turn.active
            \/ /\ turn.stage \in {"stream", "ask"}
               /\ AbortedTurn(turn).stage = "over" /\ AbortedTurn(turn).active = 0
  <1>1. CASE turn.stage \in {"stream", "ask"}
    <2>1. AbortedTurn(turn) = [Over(turn) EXCEPT !.aborted = TRUE]
      BY <1>1 DEF AbortedTurn
    <2> QED
      BY <1>1, <2>1, OverMoves DEF Turn
  <1>2. CASE turn.stage \notin {"stream", "ask"}
    <2>1. AbortedTurn(turn) = [turn EXCEPT !.aborted = Busy]
      BY <1>2 DEF AbortedTurn
    <2>2. Busy \in BOOLEAN
      BY DEF Busy
    <2> HIDE DEF Busy
    <2> QED
      BY <2>1, <2>2 DEF Turn
  <1> QED
    BY <1>1, <1>2

LEMMA TimeoutKeeps ==
  ASSUME TurnsInv, TurnTimeout
  PROVE  TurnsInv'
  <1>1. turn' = AbortedTurn(turn) /\ UNCHANGED <<client, by, queue, actor, guest, closed, began, ran>>
    BY DEF TurnTimeout, Stays
  <1>2. turn \in Turn
    BY DEF TurnsInv, TurnsTypes
  <1>3. TurnsTypes' /\ OwnStages'
    BY <1>1, <1>2, AbortedMoves DEF TurnsInv, TurnsTypes, OwnStages, Codex
  <1> QED
    BY <1>1, <1>2, <1>3, AbortedMoves, TurnGoesOn

LEMMA StopKeeps ==
  ASSUME TurnsInv, EmergencyStop
  PROVE  TurnsInv'
  <1>1. /\ turn' = AbortedTurn(turn) /\ queue' = <<>>
        /\ UNCHANGED <<client, by, actor, guest, closed, began, ran>>
    BY DEF EmergencyStop
  <1>2. turn \in Turn
    BY DEF TurnsInv, TurnsTypes
  <1>3. TurnsTypes' /\ OwnStages'
    BY <1>1, <1>2, AbortedMoves DEF TurnsInv, TurnsTypes, OwnStages, Codex
  <1>4. ActorIsTurns' /\ WaitTheirTurn' /\ RanBefore' /\ RightActor'
    BY <1>1, <1>2, AbortedMoves DEF TurnsInv, ActorIsTurns, WaitTheirTurn, RanBefore, RightActor
  <1> QED
    BY <1>3, <1>4 DEF TurnsInv

LEMMA CloseKeeps ==
  ASSUME TurnsInv, Close
  PROVE  TurnsInv'
  <1>1. /\ turn' = ClosedTurn(turn) /\ closed'
        /\ UNCHANGED <<client, by, queue, actor, guest, began, ran>>
    BY DEF Close
  <1>2. turn \in Turn
    BY DEF TurnsInv, TurnsTypes
  <1>3. CASE client = "openrouter"
    <2>1. turn' = AbortedTurn(turn)
      BY <1>1, <1>3 DEF ClosedTurn
    <2>2. TurnsTypes' /\ OwnStages'
      BY <1>1, <1>2, <1>3, <2>1, AbortedMoves DEF TurnsInv, TurnsTypes, OwnStages, Codex
    <2> QED
      BY <1>1, <1>2, <2>1, <2>2, AbortedMoves, TurnGoesOn
  <1>4. CASE client = "codex"
    <2> DEFINE t == [turn EXCEPT !.aborted = Busy]
    <2>1. turn' = Failing(t)
      BY <1>1, <1>4 DEF ClosedTurn
    <2>2. Busy \in BOOLEAN
      BY DEF Busy
    <2>3. /\ t \in Turn /\ t.no = turn.no /\ t.stage = turn.stage /\ t.active = turn.active
          /\ t.handling = turn.handling
      <3> HIDE DEF Busy
      <3> QED
        BY <1>2, <2>2 DEF Turn
    <2> HIDE DEF t
    <2>4. /\ turn' \in Turn /\ turn'.no = turn.no /\ turn'.handling = turn.handling
          /\ \/ turn.stage \in Codex /\ turn'.stage = "over" /\ turn'.active = 0
             \/ turn.stage \notin Codex /\ turn'.stage = turn.stage /\ turn'.active = turn.active
      BY <2>1, <2>3, OverMoves DEF Failing
    <2>5. TurnsTypes'
      BY <1>1, <2>4 DEF TurnsInv, TurnsTypes
    <2>6. OwnStages'
      BY <1>1, <1>4, <2>4 DEF TurnsInv, OwnStages, Codex
    <2> QED
      BY <1>1, <2>4, <2>5, <2>6, TurnGoesOn
  <1> QED
    BY <1>3, <1>4 DEF TurnsInv, TurnsTypes

LEMMA TurnsNextKeeps == TurnsInv /\ [TurnsNext]_turnVars => TurnsInv'
  <1>1. ASSUME TurnsInv, TurnsNext
        PROVE  TurnsInv'
    BY <1>1, TriggerKeeps, EndTurnKeeps, CodexKeeps, ToolCallKeeps, OpenRouterKeeps,
       NextCallKeeps, TimeoutKeeps, StopKeeps, CloseKeeps DEF TurnsNext
  <1>2. ASSUME TurnsInv, UNCHANGED turnVars
        PROVE  TurnsInv'
    BY <1>2 DEF turnVars, TurnsInv, TurnsTypes, ActorIsTurns, WaitTheirTurn, RanBefore, OwnStages, RightActor
  <1> QED
    BY <1>1, <1>2

LEMMA RestKeeps == TurnsInv /\ RestTypes /\ [TurnsNext]_turnVars => RestTypes'
  <1>1. ASSUME TurnsInv, RestTypes, TurnsNext
        PROVE  RestTypes'
    <2>1. ready' \in {"no", "busy", "yes", "failed"}
      BY <1>1 DEF RestTypes, TurnsNext, Trigger, Begin, EndTurn, Connected, ConnectFails,
         ThreadStarted, TurnStarted, RequestFails, TurnCompleted, Breaks, ToolCall, Answered,
         AskFails, ToolAnswers, NextCall, TurnTimeout, EmergencyStop, Close, Stays
    <2>2. broken' \in BOOLEAN /\ closed' \in BOOLEAN
      BY <1>1 DEF RestTypes, TurnsNext, Trigger, EndTurn, Connected, ConnectFails, Goes,
         ThreadStarted, TurnStarted, RequestFails, TurnCompleted, Breaks, ToolCall, Answered,
         AskFails, ToolAnswers, NextCall, TurnTimeout, EmergencyStop, Close, Stays
    <2>3. threads' \subseteq Turns
      <3>1. turn.stage = "thread" => turn.no \in Turns
        BY <1>1 DEF TurnsInv, TurnsTypes, Turn, Turns, OwnStages, Codex
      <3>2. CASE ThreadStarted
        BY <1>1, <3>1, <3>2 DEF RestTypes, ThreadStarted, Goes
      <3>3. CASE threads' = threads
        BY <1>1, <3>3 DEF RestTypes
      <3> QED
        BY <1>1, <3>2, <3>3 DEF TurnsNext, Trigger, EndTurn, Connected, ConnectFails, Goes,
           TurnStarted, RequestFails, TurnCompleted, Breaks, ToolCall, Answered,
           AskFails, ToolAnswers, NextCall, TurnTimeout, EmergencyStop, Close, Stays
    <2>4. stops' \in 0..MaxStops
      <3>1. CASE EmergencyStop
        BY <1>1, <3>1, AgentAssumption DEF RestTypes, EmergencyStop
      <3>2. CASE stops' = stops
        BY <1>1, <3>2 DEF RestTypes
      <3> QED
        BY <1>1, <3>1, <3>2 DEF TurnsNext, Trigger, EndTurn, Connected, ConnectFails, Goes,
           ThreadStarted, TurnStarted, RequestFails, TurnCompleted, Breaks, ToolCall,
           Answered, AskFails, ToolAnswers, NextCall, TurnTimeout, Close, Stays
    <2> QED
      BY <2>1, <2>2, <2>3, <2>4 DEF RestTypes
  <1>2. ASSUME RestTypes, UNCHANGED turnVars
        PROVE  RestTypes'
    BY <1>2 DEF RestTypes, turnVars
  <1> QED
    BY <1>1, <1>2

-----------------------------------------------------------------------------
(* The invariant above holds of every reachable state.                     *)
THEOREM TurnsInvariance == TurnsSpec => []TurnsInv
  BY TurnsInitInv, TurnsNextKeeps, PTL DEF TurnsSpec

(* Every tool that ran served the requester of the turn that asked for it, *)
(* in the role that this turn began with, although all turns share one     *)
(* object and the app-server calls when it likes (session.ts:258).         *)
THEOREM ServesItsTurn == TurnsSpec => []RightActor
  <1>1. TurnsInv => RightActor
    BY DEF TurnsInv
  <1> QED
    BY <1>1, TurnsInvariance, PTL

(* Once its connection is closed, the Codex client runs no tool, although  *)
(* the queue is not cleared and goes on to begin its turns                 *)
(* (codexClient.ts:189, connection.ts:817).                                *)
THEOREM ClosedIsSilent == TurnsSpec => ClosedCodexIsSilent
  <1>1. TurnsInv /\ [TurnsNext]_turnVars => [closed /\ client = "codex" => ran' = ran /\ guest' = guest]_turnVars
    <2>1. ASSUME TurnsInv, TurnsNext, closed, client = "codex"
          PROVE  ran' = ran /\ guest' = guest
      <3>1. turn.active = 0 /\ turn.stage \notin {"ask", "calls"}
        BY <2>1 DEF TurnsInv, OwnStages, Codex
      <3>2. /\ ~(\E n \in Turns, need \in Roles : ToolCall(n, need))
            /\ ~(\E need \in Roles : NextCall(need))
        BY <3>1 DEF ToolCall, Accepted, NextCall
      <3> QED
        BY <2>1, <3>2 DEF TurnsNext, Trigger, EndTurn, Connected, ConnectFails, ThreadStarted,
           TurnStarted, RequestFails, TurnCompleted, Breaks, Goes, Answered, AskFails,
           ToolAnswers, TurnTimeout, EmergencyStop, Close, Stays
    <2> QED
      BY <2>1 DEF turnVars
  <1> QED
    BY <1>1, TurnsInvariance, PTL DEF TurnsSpec, ClosedCodexIsSilent

(* The state of the queue, of the turn and of the clients keeps its type.  *)
THEOREM TurnsTypeCorrect == TurnsSpec => []TurnsTypeOK
  <1>1. TurnsInit => RestTypes
    <2>1. 0 \in 0..MaxStops
      BY AgentAssumption
    <2> QED
      BY <2>1 DEF TurnsInit, RestTypes
  <1>2. TurnsInv /\ RestTypes => TurnsTypeOK
    BY DEF TurnsInv, TurnsTypes, RestTypes, TurnsTypeOK
  <1> QED
    BY <1>1, <1>2, RestKeeps, TurnsInvariance, PTL DEF TurnsSpec
-----------------------------------------------------------------------------
(***************************************************************************)
(* The application comes to rest with nothing left, runs only when wanted  *)
(* and has one bot in the world, for any number of starts and connections, *)
(* whatever await or release fails and whenever a stop is pressed.         *)
(* Then the runtimes of its connections: the one that serves the world is  *)
(* the one the supervisor holds, in a life whose journal was reconciled.   *)
(***************************************************************************)

(* The supervisor knows the connection there is, unless a stop threw; what *)
(* it waits for, it waits for instead of a connection.                     *)
NetGood(n, s) ==
  /\ 0 \notin n.live \cup n.strays /\ n.runtime \notin n.strays
  /\ \A c \in n.live \cup n.strays : c <= n.generation
  /\ ~n.stopped /\ n.runtime # 0 => n.runtime \in n.live
  /\ n.timer => n.runtime = 0 /\ ~n.stopped
  /\ "connection" \notin s => n.live \ n.strays \subseteq {n.runtime} \ {0}
  /\ n.stopped /\ n.runtime # 0 => "connection" \in s

(* What each phase that the controller shows says of everything else.      *)
AtRest ==
  phase \in {"stopped", "failed"} =>
    /\ starting = "no" /\ stopping = "no" /\ ~session /\ held = {}
    /\ shown = "disconnected" /\ net.stopped

Opening ==
  phase = "starting" =>
    /\ starting \in {"auth", "dashboard", "rollback", "undo"} /\ stopping = "no"
    /\ session <=> starting = "undo"
    /\ pending # "no" <=> asked
    /\ answered <=> asked
    /\ IF starting = "dashboard" THEN ~net.stopped /\ net.runtime = 0 /\ ~net.timer
                                 ELSE net.stopped
    /\ starting = "auth" => net.runtime = 0

Running ==
  phase = "running" =>
    /\ starting = "no" /\ stopping = "no" /\ session
    /\ ~answered /\ ~asked /\ ~emergency
    /\ ~net.stopped /\ (net.runtime # 0 \/ net.timer)

Closing ==
  phase = "stopping" =>
    /\ starting \in {"no", "teardown"} /\ stopping # "no" /\ session /\ net.stopped

HostIInv == HostTypeOK /\ NetGood(net, stuck) /\ AtRest /\ Opening /\ Running /\ Closing

Net == [stopped : BOOLEAN, generation : Conns, runtime : Conns, timer : BOOLEAN,
        live : SUBSET Conns, strays : SUBSET Conns]

LEMMA HostInitKeeps == HostInit => HostIInv
  <1> SUFFICES ASSUME HostInit
               PROVE  HostIInv
    OBVIOUS
  <1>1. 0 \in Conns /\ 0 \in 0..MaxStarts
    BY HostAssumption DEF Conns
  <1>2. net = [stopped |-> TRUE, generation |-> 0, runtime |-> 0, timer |-> FALSE,
               live |-> {}, strays |-> {}]
    BY DEF HostInit, NoSupervisor
  <1>3. HostTypeOK
    <2>1. net \in Net
      BY <1>1, <1>2 DEF Net
    <2> QED
      BY <1>1, <2>1 DEF HostInit, HostTypeOK, Net, Phases, Waits, Resources, Modes
  <1>4. NetGood(net, stuck)
    BY <1>2 DEF NetGood
  <1> QED
    BY <1>2, <1>3, <1>4 DEF HostInit, HostIInv, AtRest, Opening, Running, Closing

-----------------------------------------------------------------------------
(* The supervisor's operations.                                            *)

LEMMA ScheduleGood ==
  ASSUME NEW n \in Net, NEW s, NetGood(n, s), n.runtime = 0
  PROVE  /\ Schedule(n) \in Net /\ NetGood(Schedule(n), s)
         /\ Schedule(n).stopped = n.stopped /\ Schedule(n).runtime = 0
         /\ ~n.stopped => Schedule(n).timer
  BY DEF Net, NetGood, Schedule

LEMMA StraysCounted ==
  ASSUME NEW n \in Net, MayOpen(n)
  PROVE  n.generation + 1 <= MaxConns
  <1>1. n.generation \in Nat /\ MaxConns \in Nat
    BY HostAssumption DEF Net, Conns
  <1>2. IsFiniteSet(n.strays)
    <2>1. IsFiniteSet(0..MaxConns)
      BY <1>1, FS_Interval
    <2> QED
      BY <2>1, FS_Subset DEF Net, Conns
  <1>3. Cardinality(n.strays) \in Nat
    BY <1>2, FS_CardinalityType
  <1> QED
    BY <1>1, <1>3 DEF MayOpen

LEMMA OpenedGood ==
  ASSUME NEW n \in Net, NEW s, NetGood(n, s), MayOpen(n), n.runtime = 0, ~n.timer,
         NEW m \in Opened(n)
  PROVE  /\ m \in Net /\ NetGood(m, s) /\ m.stopped = n.stopped
         /\ ~n.stopped => m.runtime # 0 \/ m.timer
  <1>1. CASE n.stopped
    BY <1>1 DEF Opened
  <1>2. CASE ~n.stopped
    <2> DEFINE g == n.generation + 1
               o == Numbered(n)
    <2>1. g \in Nat /\ g # 0 /\ n.generation \in Nat /\ (\A c \in Conns : c \in Nat)
          /\ Conns = 0..MaxConns /\ MaxConns \in Nat
      BY HostAssumption DEF Net, Conns
    <2>2. g \in Conns
      BY <2>1, StraysCounted DEF Net, MayOpen
    <2>3. /\ o \in Net /\ o.generation = g /\ o.runtime = 0 /\ o.timer = FALSE
          /\ o.live = n.live /\ o.strays = n.strays /\ ~o.stopped
      BY <1>2, <2>2 DEF Net, Numbered
    <2>4. g \notin n.live /\ g \notin n.strays
      BY <2>1 DEF NetGood
    <2>5. \A c \in n.live \cup n.strays : c <= g
      BY <2>1 DEF NetGood, Net
    <2>6. NetGood(o, s)
      BY <2>1, <2>3, <2>5 DEF NetGood
    <2>7. \/ m = [Joined(o) EXCEPT !.runtime = g]
          \/ \E f \in Failures(o) : m = Schedule(f)
      BY <1>2 DEF Opened
    <2> HIDE DEF g, o
    <2>8. CASE m = [Joined(o) EXCEPT !.runtime = g]
      <3>1. /\ m \in Net /\ m.runtime = g /\ m.live = n.live \cup {g} /\ ~m.stopped
            /\ m.timer = FALSE /\ m.strays = n.strays /\ m.generation = g
        BY <2>2, <2>3, <2>8 DEF Net, Joined
      <3>2. \A c \in m.live \cup m.strays : c <= g
        BY <2>1, <2>5, <3>1
      <3>3. NetGood(m, s)
        BY <2>1, <2>3, <2>4, <2>6, <3>1, <3>2 DEF NetGood
      <3> QED
        BY <1>2, <2>1, <3>1, <3>3 DEF Net
    <2>9. ASSUME NEW f \in Failures(o), m = Schedule(f)
          PROVE  m \in Net /\ NetGood(m, s) /\ ~m.stopped /\ m.timer
      <3> DEFINE none == [o EXCEPT !.runtime = 0]
                 half == [Joined(none) EXCEPT !.strays = Joined(none).strays \cup {o.generation}]
      <3>1. none = o
        BY <2>3 DEF Net
      <3>2. f = none \/ f = half
        BY <3>1 DEF Failures
      <3>3. /\ half \in Net /\ half.runtime = 0 /\ half.live = n.live \cup {g} /\ ~half.stopped
            /\ half.timer = FALSE /\ half.strays = n.strays \cup {g} /\ half.generation = g
        BY <2>2, <2>3, <3>1 DEF Net, Joined
      <3> HIDE DEF none, half
      <3>4. \A c \in half.live \cup half.strays : c <= g
        BY <2>1, <2>5, <3>3
      <3>5. half.live \ half.strays \subseteq n.live \ n.strays
        BY <3>3
      <3>7. NetGood(half, s)
        BY <2>1, <2>3, <2>6, <3>3, <3>4, <3>5 DEF NetGood
      <3>8. f \in Net /\ NetGood(f, s) /\ f.runtime = 0 /\ ~f.stopped
        BY <2>3, <2>6, <3>1, <3>2, <3>3, <3>7
      <3> QED
        BY <2>9, <3>8, ScheduleGood
    <2> QED
      BY <1>2, <2>7, <2>8, <2>9 DEF Net
  <1> QED
    BY <1>1, <1>2

LEMMA StoppedGood ==
  ASSUME NEW n \in Net, NEW s, NetGood(n, s), NEW throws \in BOOLEAN,
         throws => n.runtime # 0
  PROVE  /\ SupervisorStopped(n, throws) \in Net
         /\ NetGood(SupervisorStopped(n, throws),
                    IF throws THEN s \cup {"connection"} ELSE s)
         /\ SupervisorStopped(n, throws).stopped
  <1> DEFINE quiet == [n EXCEPT !.stopped = TRUE, !.timer = FALSE]
             t == IF throws THEN s \cup {"connection"} ELSE s
  <1>1. CASE n.stopped
    BY <1>1 DEF SupervisorStopped, NetGood
  <1>2. CASE ~n.stopped
    <2>1. /\ quiet \in Net /\ quiet.stopped /\ ~quiet.timer
          /\ quiet.runtime = n.runtime /\ quiet.live = n.live
          /\ quiet.strays = n.strays /\ quiet.generation = n.generation
      BY DEF Net
    <2>2. CASE throws
      BY <1>2, <2>1, <2>2 DEF SupervisorStopped, NetGood
    <2>3. CASE ~throws
      <3> DEFINE m == [quiet EXCEPT !.runtime = 0, !.live = quiet.live \ {n.runtime}]
      <3>1. SupervisorStopped(n, throws) = m
        BY <1>2, <2>1, <2>3 DEF SupervisorStopped
      <3>2. 0 \in Conns
        BY HostAssumption DEF Conns
      <3> HIDE DEF quiet
      <3>3. /\ m \in Net /\ m.stopped /\ ~m.timer /\ m.runtime = 0
            /\ m.live = n.live \ {n.runtime} /\ m.strays = n.strays
            /\ m.generation = n.generation
        BY <2>1, <3>2 DEF Net
      <3> HIDE DEF m
      <3>4. NetGood(m, s)
        BY <3>3 DEF NetGood
      <3> QED
        BY <2>3, <3>1, <3>3, <3>4
    <2> QED
      BY <2>2, <2>3
  <1> QED
    BY <1>1, <1>2

-----------------------------------------------------------------------------
(* The actions, in three groups: of the network alone, of a start, and of  *)
(* a stop.                                                                 *)

LEMMA NetworkKeeps ==
  ASSUME HostIInv, (\E c \in Conns : ConnectionEnds(c)) \/ Reconnect
  PROVE  HostIInv'
  <1> DEFINE Goal == /\ net' \in Net /\ NetGood(net', stuck) /\ net'.stopped = net.stopped
                     /\ phase = "running" => net'.runtime # 0 \/ net'.timer
                     /\ net.runtime = 0 /\ ~net.timer => net'.runtime = 0 /\ ~net'.timer
  <1>1. net \in Net /\ NetGood(net, stuck) /\ 0 \in Conns
    BY HostAssumption DEF HostIInv, HostTypeOK, Net, Conns
  <1>2. phase = "running" => ~net.stopped /\ (net.runtime # 0 \/ net.timer)
    BY DEF HostIInv, Running
  <1>3. ASSUME NEW c \in Conns, ConnectionEnds(c)
        PROVE  Goal
    <2> DEFINE ended == [net EXCEPT !.live = net.live \ {c}]
               alone == [ended EXCEPT !.runtime = 0]
    <2>1. /\ ended \in Net /\ ended.runtime = net.runtime /\ ended.timer = net.timer
          /\ ended.stopped = net.stopped /\ ended.live = net.live \ {c}
          /\ ended.strays = net.strays /\ ended.generation = net.generation
      BY <1>1 DEF Net
    <2>2. c \in net.live /\ net' = IF Heard(net, c) THEN Schedule(alone) ELSE ended
      BY <1>3 DEF ConnectionEnds
    <2> HIDE DEF ended
    <2>3. CASE Heard(net, c)
      <3>1. /\ alone \in Net /\ alone.runtime = 0 /\ alone.timer = net.timer
            /\ alone.stopped = net.stopped /\ alone.live = net.live \ {c}
            /\ alone.strays = net.strays /\ alone.generation = net.generation
        BY <1>1, <2>1 DEF Net
      <3> HIDE DEF alone
      <3>2. NetGood(alone, stuck) /\ ~net.stopped /\ net.runtime # 0
        BY <1>1, <2>2, <2>3, <3>1 DEF NetGood, Heard
      <3> QED
        BY <2>2, <2>3, <3>1, <3>2, ScheduleGood
    <2>4. CASE ~Heard(net, c)
      <3>1. NetGood(ended, stuck)
        BY <1>1, <2>1, <2>4 DEF NetGood, Heard
      <3> QED
        BY <1>2, <2>1, <2>2, <2>4, <3>1
    <2> QED
      BY <2>3, <2>4
  <1>4. ASSUME Reconnect
        PROVE  Goal
    <2> DEFINE n == [net EXCEPT !.timer = FALSE]
    <2>1. /\ n \in Net /\ n.runtime = net.runtime /\ n.timer = FALSE
          /\ n.stopped = net.stopped /\ n.live = net.live /\ n.generation = net.generation
          /\ n.strays = net.strays
      BY <1>1 DEF Net
    <2>2. net.timer /\ MayOpen(net) /\ net' \in Opened(n)
      BY <1>4 DEF Reconnect
    <2> HIDE DEF n
    <2>3. NetGood(n, stuck) /\ MayOpen(n) /\ n.runtime = 0
      BY <1>1, <2>1, <2>2 DEF NetGood, MayOpen
    <2> QED
      BY <1>2, <2>1, <2>2, <2>3, OpenedGood
  <1>5. Goal
    BY <1>3, <1>4
  <1>6. UNCHANGED <<phase, shown, starting, answered, pending, session, emergency,
                    stopping, held, stuck, starts, asked>>
    BY DEF ConnectionEnds, Reconnect, appVars
  <1>7. HostTypeOK'
    BY <1>5, <1>6 DEF HostIInv, HostTypeOK, Net
  <1>8. net.stopped => ~net.timer
    BY <1>1 DEF NetGood
  <1>9. AtRest' /\ Opening' /\ Running' /\ Closing'
    BY <1>5, <1>6, <1>8 DEF HostIInv, AtRest, Opening, Running, Closing
  <1> QED
    BY <1>5, <1>6, <1>7, <1>9 DEF HostIInv

(* Steps that stop the supervisor.                                         *)
LEMMA StopNetGood ==
  ASSUME NEW n \in Net, NetGood(n, stuck), stuck \subseteq Resources,
         NEW throws \in BOOLEAN, throws => n.runtime # 0, StopNet(n, throws)
  PROVE  /\ net' \in Net /\ NetGood(net', stuck') /\ net'.stopped
         /\ stuck' \subseteq Resources
  BY StoppedGood DEF StopNet, Resources

(* What is left behind in a later release harms no other promise.          *)
LEMMA ReleaseGood ==
  ASSUME HostIInv, NEW failing, ReleaseRest(failing)
  PROVE  held' = {} /\ stuck' \subseteq Resources /\ NetGood(net, stuck')
  BY DEF HostIInv, HostTypeOK, ReleaseRest, NetGood

LEMMA StartKeeps ==
  ASSUME HostIInv, StartApp
  PROVE  HostIInv'
  <1>1. /\ starts' = starts + 1 /\ starts < MaxStarts
        /\ ~answered' /\ pending' = "no" /\ ~asked'
        /\ phase' = "starting" /\ shown' = "starting"
        /\ net' = NoSupervisor(net.generation, net.live, net.strays)
        /\ held' \in {{"lock"}, {}} /\ starting' \in {"auth", "rollback"}
        /\ UNCHANGED <<stopping, session, emergency, stuck>>
        /\ answered' \in BOOLEAN /\ asked' \in BOOLEAN
    BY DEF StartApp
  <1>2. phase \in {"stopped", "failed"}
    BY DEF HostIInv, Opening, HostTypeOK, Phases, StartApp
  <1>3. /\ net \in Net /\ NetGood(net, stuck) /\ net.stopped
        /\ stopping = "no" /\ ~session
    BY <1>2 DEF HostIInv, AtRest, HostTypeOK, Net
  <1>4. 0 \in Conns
    BY HostAssumption DEF Conns
  <1>5. /\ net' \in Net /\ net'.live = net.live /\ net'.runtime = 0
        /\ net'.stopped /\ ~net'.timer /\ net'.strays = net.strays
        /\ net'.generation = net.generation
    BY <1>1, <1>3, <1>4 DEF NoSupervisor, Net
  <1>6. NetGood(net', stuck)
    BY <1>3, <1>5 DEF NetGood
  <1>7. HostTypeOK'
    <2>1. starts' \in 0..MaxStarts
      BY <1>1, HostAssumption DEF HostIInv, HostTypeOK
    <2> QED
      BY <1>1, <1>5, <2>1 DEF HostIInv, HostTypeOK, Net, Phases, Waits, Resources
  <1>8. AtRest' /\ Opening' /\ Running' /\ Closing'
    BY <1>1, <1>3, <1>5 DEF AtRest, Opening, Running, Closing
  <1> QED
    BY <1>1, <1>6, <1>7, <1>8 DEF HostIInv

LEMMA AssembleKeeps ==
  ASSUME HostIInv, Assemble
  PROVE  HostIInv'
  <1>1. /\ starting = "auth" /\ starting' = "dashboard" /\ held' = Resources \ {"connection"}
        /\ net' = [net EXCEPT !.stopped = FALSE]
        /\ UNCHANGED <<phase, shown, stopping, answered, pending, session, emergency,
                       stuck, starts, asked>>
    BY DEF Assemble
  <1>2. phase = "starting" /\ net.stopped /\ net.runtime = 0 /\ ~net.timer
    BY <1>1 DEF HostIInv, HostTypeOK, Phases, AtRest, Running, Closing, Opening, NetGood
  <1>3. /\ net' \in Net /\ net'.stopped = FALSE /\ net'.runtime = net.runtime
        /\ net'.timer = net.timer /\ net'.live = net.live
        /\ net'.strays = net.strays /\ net'.generation = net.generation
    BY <1>1 DEF HostIInv, HostTypeOK, Net
  <1>4. NetGood(net', stuck)
    BY <1>2, <1>3 DEF HostIInv, NetGood
  <1>5. HostTypeOK'
    BY <1>1, <1>3 DEF HostIInv, HostTypeOK, Net, Waits
  <1>6. AtRest' /\ Opening' /\ Running' /\ Closing'
    BY <1>1, <1>2, <1>3 DEF HostIInv, AtRest, Opening, Running, Closing
  <1> QED
    BY <1>1, <1>4, <1>5, <1>6 DEF HostIInv

LEMMA AssembleFailsKeeps ==
  ASSUME HostIInv, AssembleFails
  PROVE  HostIInv'
  <1>1. /\ starting = "auth" /\ starting' = "rollback"
        /\ held' \in {held, held \cup {"database"}}
        /\ UNCHANGED <<phase, shown, stopping, answered, pending, session, emergency,
                       stuck, net, starts, asked>>
    BY DEF AssembleFails
  <1>2. phase = "starting" /\ net.stopped
    BY <1>1 DEF HostIInv, HostTypeOK, Phases, AtRest, Running, Closing, Opening
  <1>3. HostTypeOK'
    BY <1>1 DEF HostIInv, HostTypeOK, Waits, Resources
  <1>4. AtRest' /\ Opening' /\ Running' /\ Closing'
    BY <1>1, <1>2 DEF HostIInv, AtRest, Opening, Running, Closing
  <1> QED
    BY <1>1, <1>3, <1>4 DEF HostIInv

(* The dashboard does not come up, or start() throws: the supervisor is    *)
(* stopped before the rest is released.                                    *)
LEMMA UndoneKeeps ==
  ASSUME HostIInv, DashboardFails \/ StartThrows
  PROVE  HostIInv'
  <1>1. /\ starting = "dashboard" /\ ReleaseConnection
        /\ \/ starting' = "rollback" /\ UNCHANGED <<session, emergency>>
           \/ starting' = "undo" /\ session' = TRUE /\ emergency' = FALSE
        /\ UNCHANGED <<phase, shown, stopping, answered, pending, held, starts, asked>>
    BY DEF DashboardFails, StartThrows
  <1>2. phase = "starting" /\ net \in Net /\ NetGood(net, stuck) /\ stuck \subseteq Resources
    BY <1>1 DEF HostIInv, HostTypeOK, Net, Phases, AtRest, Running, Closing
  <1>3. net' \in Net /\ NetGood(net', stuck') /\ net'.stopped /\ stuck' \subseteq Resources
    BY <1>1, <1>2, StopNetGood DEF ReleaseConnection
  <1>4. HostTypeOK'
    BY <1>1, <1>3 DEF HostIInv, HostTypeOK, Net, Waits
  <1>5. AtRest' /\ Opening' /\ Running' /\ Closing'
    BY <1>1, <1>2, <1>3 DEF HostIInv, AtRest, Opening, Running, Closing
  <1> QED
    BY <1>3, <1>4, <1>5 DEF HostIInv

(* The session is open: the supervisor begins, and what was asked for in   *)
(* the meantime decides.                                                   *)
LEMMA BegunGood ==
  ASSUME HostIInv, starting = "dashboard", MayOpen(net), NEW n \in Begun(net)
  PROVE  /\ n \in Net /\ NetGood(n, stuck) /\ ~n.stopped
         /\ n.runtime # 0 \/ n.timer
         /\ phase = "starting" /\ stopping = "no" /\ (pending # "no" <=> asked)
         /\ (answered <=> asked)
  <1>1. /\ phase = "starting" /\ ~net.stopped /\ net.runtime = 0 /\ ~net.timer
        /\ stopping = "no" /\ (pending # "no" <=> asked) /\ (answered <=> asked)
    BY DEF HostIInv, HostTypeOK, Phases, AtRest, Running, Closing, Opening
  <1>2. n \in Opened(net)
    BY <1>1 DEF Begun
  <1> QED
    BY <1>1, <1>2, OpenedGood DEF HostIInv, HostTypeOK, Net

LEMMA RunsKeeps ==
  ASSUME HostIInv, OpenedAndRuns
  PROVE  HostIInv'
  <1>1. /\ starting = "dashboard" /\ pending = "no" /\ MayOpen(net)
        /\ session' = TRUE /\ emergency' = FALSE /\ starting' = "no"
        /\ net' \in Begun(net) /\ phase' = "running"
        /\ shown' \in {"connected", "disconnected"}
        /\ UNCHANGED <<stopping, answered, pending, held, stuck, starts, asked>>
    BY DEF OpenedAndRuns
  <1>2. /\ net' \in Net /\ NetGood(net', stuck) /\ ~net'.stopped
        /\ net'.runtime # 0 \/ net'.timer
        /\ stopping = "no" /\ ~asked /\ ~answered
    BY <1>1, BegunGood
  <1>3. HostTypeOK'
    BY <1>1, <1>2 DEF HostIInv, HostTypeOK, Net, Waits, Phases
  <1>4. AtRest' /\ Opening' /\ Running' /\ Closing'
    BY <1>1, <1>2 DEF AtRest, Opening, Running, Closing
  <1> QED
    BY <1>1, <1>2, <1>3, <1>4 DEF HostIInv

LEMMA ThenStoppedKeeps ==
  ASSUME HostIInv, OpenedThenStopped
  PROVE  HostIInv'
  <1>1. PICK n \in Begun(net), throws \in BOOLEAN :
          /\ throws => n.runtime # 0
          /\ StopNet(n, throws)
          /\ stopping' = IF throws THEN "broken" ELSE "clean"
    BY DEF OpenedThenStopped
  <1>2. /\ starting = "dashboard" /\ MayOpen(net)
        /\ session' = TRUE /\ starting' = "teardown" /\ pending' = "no"
        /\ emergency' \in BOOLEAN /\ phase' = "stopping"
        /\ UNCHANGED <<shown, answered, held, starts, asked>>
    BY DEF OpenedThenStopped
  <1>3. n \in Net /\ NetGood(n, stuck) /\ stuck \subseteq Resources
    BY <1>1, <1>2, BegunGood DEF HostIInv, HostTypeOK
  <1>4. net' \in Net /\ NetGood(net', stuck') /\ net'.stopped /\ stuck' \subseteq Resources
    BY <1>1, <1>3, StopNetGood
  <1>5. HostTypeOK'
    BY <1>1, <1>2, <1>4 DEF HostIInv, HostTypeOK, Net, Waits, Phases, Modes
  <1>6. AtRest' /\ Opening' /\ Running' /\ Closing'
    BY <1>1, <1>2, <1>4 DEF AtRest, Opening, Running, Closing
  <1> QED
    BY <1>4, <1>5, <1>6 DEF HostIInv

LEMMA StartFailedKeeps ==
  ASSUME HostIInv, StartFailed
  PROVE  HostIInv'
  <1>1. PICK failing \in SUBSET held : ReleaseRest(failing)
    BY DEF StartFailed
  <1>2. /\ starting \in {"rollback", "undo"} /\ starting' = "no" /\ session' = FALSE
        /\ pending' = "no" /\ phase' = "failed" /\ shown' = "disconnected"
        /\ UNCHANGED <<stopping, answered, emergency, net, starts, asked>>
    BY DEF StartFailed, Disconnected
  <1>3. stopping = "no" /\ net.stopped
    BY <1>2 DEF HostIInv, HostTypeOK, Phases, AtRest, Running, Closing, Opening
  <1>4. held' = {} /\ stuck' \subseteq Resources /\ NetGood(net, stuck')
    BY <1>1, ReleaseGood
  <1>5. HostTypeOK'
    BY <1>2, <1>4 DEF HostIInv, HostTypeOK, Waits, Phases
  <1>6. AtRest' /\ Opening' /\ Running' /\ Closing'
    BY <1>2, <1>3, <1>4 DEF AtRest, Opening, Running, Closing
  <1> QED
    BY <1>2, <1>4, <1>5, <1>6 DEF HostIInv

LEMMA TeardownKeeps ==
  ASSUME HostIInv, TeardownDone
  PROVE  HostIInv'
  <1>1. PICK failing \in SUBSET held :
          /\ ReleaseRest(failing)
          /\ phase' \in {"stopped", "failed"} /\ shown' = "disconnected"
    BY DEF TeardownDone, Disconnected
  <1>2. /\ stopping # "no" /\ stopping' = "no" /\ session' = FALSE /\ emergency' = FALSE
        /\ pending' = "no" /\ starting' = "no" /\ UNCHANGED <<answered, net, starts, asked>>
    BY DEF TeardownDone
  <1>3. net.stopped
    BY <1>2 DEF HostIInv, HostTypeOK, Phases, AtRest, Running, Closing, Opening
  <1>4. held' = {} /\ stuck' \subseteq Resources /\ NetGood(net, stuck')
    BY <1>1, ReleaseGood
  <1>5. HostTypeOK'
    BY <1>1, <1>2, <1>4 DEF HostIInv, HostTypeOK, Waits, Phases
  <1>6. AtRest' /\ Opening' /\ Running' /\ Closing'
    BY <1>1, <1>2, <1>3, <1>4 DEF AtRest, Opening, Running, Closing
  <1> QED
    BY <1>2, <1>4, <1>5, <1>6 DEF HostIInv

(* Somebody asks for a stop.                                               *)
LEMMA StopDuringStartKeeps ==
  ASSUME HostIInv, NEW mode \in Modes, StopDuringStart(mode)
  PROVE  HostIInv'
  <1>1. /\ phase = "starting" /\ answered' = TRUE /\ asked' = TRUE
        /\ pending' \in Modes /\ pending' # "no"
        /\ UNCHANGED <<phase, shown, starting, stopping, session, emergency, held,
                       stuck, net, starts>>
    BY DEF StopDuringStart, HostIInv, HostTypeOK, Modes
  <1>2. HostTypeOK'
    BY <1>1 DEF HostIInv, HostTypeOK
  <1>3. AtRest' /\ Opening' /\ Running' /\ Closing'
    BY <1>1 DEF HostIInv, AtRest, Opening, Running, Closing
  <1> QED
    BY <1>1, <1>2, <1>3 DEF HostIInv

LEMMA StopRunningKeeps ==
  ASSUME HostIInv, NEW mode \in Modes, StopRunning(mode)
  PROVE  HostIInv'
  <1>1. PICK throws \in BOOLEAN :
          /\ throws => net.runtime # 0
          /\ StopNet(net, throws)
          /\ stopping' = IF throws THEN "broken" ELSE "clean"
    BY DEF StopRunning, BeginTeardown
  <1>2. /\ ~(phase = "starting" /\ starting # "no") /\ session
        /\ answered' = TRUE /\ asked' = TRUE /\ phase' = "stopping"
        /\ emergency' \in BOOLEAN
        /\ UNCHANGED <<shown, starting, pending, session, held, starts>>
    BY DEF StopRunning, BeginTeardown, HostIInv, HostTypeOK
  <1>3. phase \in {"running", "stopping"} /\ starting \in {"no", "teardown"}
    BY <1>2 DEF HostIInv, HostTypeOK, Phases, AtRest, Opening, Running, Closing
  <1>4. net' \in Net /\ NetGood(net', stuck') /\ net'.stopped /\ stuck' \subseteq Resources
    BY <1>1, StopNetGood DEF HostIInv, HostTypeOK, Net
  <1>5. HostTypeOK'
    BY <1>1, <1>2, <1>4 DEF HostIInv, HostTypeOK, Net, Phases
  <1>6. AtRest' /\ Opening' /\ Running' /\ Closing'
    BY <1>1, <1>2, <1>3, <1>4 DEF AtRest, Opening, Running, Closing
  <1> QED
    BY <1>4, <1>5, <1>6 DEF HostIInv

LEMMA EscalateKeeps ==
  ASSUME HostIInv, Escalate
  PROVE  HostIInv'
  <1>1. /\ ~(phase = "starting" /\ starting # "no") /\ answered /\ session
        /\ emergency' = TRUE /\ asked' = TRUE
        /\ UNCHANGED <<phase, shown, starting, stopping, answered, pending, session,
                       held, stuck, net, starts>>
    BY DEF Escalate
  <1>2. phase = "stopping"
    BY <1>1 DEF HostIInv, HostTypeOK, Phases, AtRest, Opening, Running
  <1>3. HostTypeOK'
    BY <1>1 DEF HostIInv, HostTypeOK
  <1>4. AtRest' /\ Opening' /\ Running' /\ Closing'
    BY <1>1, <1>2 DEF HostIInv, AtRest, Opening, Running, Closing
  <1> QED
    BY <1>1, <1>3, <1>4 DEF HostIInv

LEMMA PollKeeps ==
  ASSUME HostIInv, PollOnce
  PROVE  HostIInv'
  <1>1. /\ phase = "running" /\ shown' \in {"connected", "disconnected"}
        /\ UNCHANGED <<phase, starting, stopping, answered, pending, session, emergency,
                       held, stuck, net, starts, asked>>
    BY DEF PollOnce
  <1>2. HostTypeOK'
    BY <1>1 DEF HostIInv, HostTypeOK
  <1>3. AtRest' /\ Opening' /\ Running' /\ Closing'
    BY <1>1 DEF HostIInv, AtRest, Opening, Running, Closing
  <1> QED
    BY <1>1, <1>2, <1>3 DEF HostIInv

LEMMA HostNextKeeps == HostIInv /\ [HostNext]_hostVars => HostIInv'
  <1>1. ASSUME HostIInv, Calls
        PROVE  HostIInv'
    BY <1>1, StartKeeps, EscalateKeeps, StopDuringStartKeeps, StopRunningKeeps DEF Calls
  <1>2. ASSUME HostIInv, Internal \/ \E c \in Conns : ConnectionEnds(c)
        PROVE  HostIInv'
    BY <1>2, AssembleKeeps, AssembleFailsKeeps, UndoneKeeps, ThenStoppedKeeps, RunsKeeps,
       StartFailedKeeps, TeardownKeeps, NetworkKeeps, PollKeeps DEF Internal
  <1>3. ASSUME HostIInv, UNCHANGED hostVars
        PROVE  HostIInv'
    BY <1>3 DEF hostVars, HostIInv, HostTypeOK, NetGood, AtRest, Opening, Running, Closing
  <1> QED
    BY <1>1, <1>2, <1>3 DEF HostNext

-----------------------------------------------------------------------------
(* The invariant above holds of every reachable state.                     *)
THEOREM HostInvariance == HostSpec => []HostIInv
  BY HostInitKeeps, HostNextKeeps, PTL DEF HostSpec

(* The state of controller, session and supervisor keeps its type.         *)
THEOREM HostTypeCorrect == HostSpec => []HostTypeOK
  <1>1. HostIInv => HostTypeOK
    BY DEF HostIInv
  <1> QED
    BY <1>1, HostInvariance, PTL

(* An app at rest has left nothing behind that could be released           *)
(* (session.ts:282): a release that throws does not keep the others.       *)
THEOREM LeavesNothing == HostSpec => []RestLeavesNothing
  <1>1. HostIInv => RestLeavesNothing
    <2> SUFFICES ASSUME HostIInv, phase \in {"stopped", "failed"}
                 PROVE  RestLeavesNothing
      BY DEF RestLeavesNothing
    <2>1. net \in Net /\ NetGood(net, stuck) /\ net.stopped
      BY DEF HostIInv, AtRest, HostTypeOK, Net
    <2>2. ~net.timer /\ (net.live \subseteq net.strays \/ "connection" \in stuck)
      BY <2>1 DEF NetGood
    <2> QED
      BY <2>2 DEF HostIInv, AtRest, RestLeavesNothing
  <1> QED
    BY <1>1, HostInvariance, PTL

(* The app runs only while nobody asked it to stop, also when that was     *)
(* asked before there was anything to stop (controller.ts:366), and then   *)
(* it has a connection or opens one (reconnect.ts:54).                     *)
THEOREM RunsOnlyWanted == HostSpec => []RunsWhenWanted
  <1>1. HostIInv => RunsWhenWanted
    BY DEF HostIInv, Running, NetGood, RunsWhenWanted, StopOutlastsStart, NeverStranded
  <1> QED
    BY <1>1, HostInvariance, PTL

(* Strays apart, there is one bot in the world, however often its          *)
(* connection is lost, opened and closed (reconnect.ts:73).                *)
THEOREM OneBot == HostSpec => []OneConnection
  <1>1. HostIInv => OneConnection
    <2> SUFFICES ASSUME HostIInv, "connection" \notin stuck
                 PROVE  Cardinality(net.live \ net.strays) <= 1
      BY DEF OneConnection
    <2>1. net.live \ net.strays \subseteq {net.runtime}
      BY DEF HostIInv, NetGood
    <2>2. IsFiniteSet({net.runtime}) /\ Cardinality({net.runtime}) = 1
      BY FS_Singleton
    <2>3. Cardinality(net.live \ net.strays) <= Cardinality({net.runtime})
      BY <2>1, <2>2, FS_Subset
    <2> QED
      BY <2>2, <2>3
  <1> QED
    BY <1>1, HostInvariance, PTL

-----------------------------------------------------------------------------
(* The runtimes of the connections (HostedConnections).  A runtime that is *)
(* not disposed of is a stray or belongs to the connection that the        *)
(* supervisor holds; it works only in a life whose journal was reconciled; and the join command *)
(* is in its queue or was said, not both and not twice.                    *)
JoinOnce(k) ==
  /\ \A i, j \in 1 .. Len(k.lines) : k.lines[i] = "join" /\ k.lines[j] = "join" => i = j
  /\ (\E i \in 1 .. Len(k.lines) : k.lines[i] = "join") => k.joinSent /\ k.joins = 0
  /\ ~k.joinSent => k.joins = 0

RuntimeGood(k) ==
  /\ k \in C!Runtimes
  /\ k.disposed => ~C!Serves(k)
  /\ C!Works(k) => k.alive /\ k.judged
  /\ ~k.spoke /\ k.joins <= 1
  /\ ~k.disposed => JoinOnce(k)

HeldOnly(n, rs) ==
  \A c \in Ids \ n.strays :
    ~rs[c].disposed => c \in n.live /\ c = n.runtime /\ ~n.stopped

ConnGood == conn \in [Ids -> C!Runtimes] /\ \A c \in Ids : RuntimeGood(conn[c])

HostedInv == HostIInv /\ ConnGood /\ HeldOnly(net, conn)

LEMMA HostedImplies == HostedInv => OneRuntimeServes
  <1> SUFFICES ASSUME HostedInv, NEW c \in Ids
               PROVE  /\ c \notin net.strays /\ C!Serves(conn[c]) =>
                           c = net.runtime /\ ~net.stopped
                      /\ C!Works(conn[c]) => conn[c].alive /\ conn[c].judged
                      /\ ~conn[c].spoke
                      /\ conn[c].joins <= 1
    BY DEF OneRuntimeServes
  <1>1. RuntimeGood(conn[c])
    BY DEF HostedInv, ConnGood
  <1>2. C!Serves(conn[c]) => ~conn[c].disposed
    BY <1>1 DEF RuntimeGood
  <1> QED
    BY <1>1, <1>2 DEF HostedInv, HeldOnly, RuntimeGood

(* One runtime: how it starts, what it does and how it ends.               *)
LEMMA FreshGood == RuntimeGood(C!Fresh) /\ ~C!Fresh.disposed
  <1>1. C!Fresh \in C!Runtimes
    BY DEF C!Fresh, C!Runtimes, C!Engines, C!Services, C!Lines
  <1>2. /\ ~C!Fresh.disposed /\ ~C!Works(C!Fresh) /\ ~C!Fresh.spoke /\ C!Fresh.joins = 0
        /\ Len(C!Fresh.lines) = 0
    BY DEF C!Fresh, C!Works
  <1>3. JoinOnce(C!Fresh)
    BY <1>2 DEF JoinOnce
  <1> QED
    BY <1>1, <1>2, <1>3 DEF RuntimeGood

LEMMA HalfMadeGood ==
  ASSUME NEW k \in C!HalfMade
  PROVE  RuntimeGood(k)
  <1> DEFINE fresh == C!Fresh
  <1>1. PICK t \in SUBSET C!Services : k = [fresh EXCEPT !.services = t]
    BY DEF C!HalfMade, C!Services
  <1>2. /\ fresh \in C!Runtimes /\ ~fresh.disposed /\ ~C!Works(fresh) /\ ~fresh.spoke
        /\ fresh.joins <= 1 /\ JoinOnce(fresh)
    <2>1. ~C!Works(C!Fresh)
      BY DEF C!Fresh, C!Works
    <2> QED
      BY <2>1, FreshGood DEF RuntimeGood
  <1> HIDE DEF fresh
  <1>3. /\ k \in C!Runtimes /\ k.lines = fresh.lines /\ k.disposed = fresh.disposed
        /\ k.joins = fresh.joins /\ k.joinSent = fresh.joinSent /\ k.spoke = fresh.spoke
        /\ k.engine = fresh.engine /\ k.timers = fresh.timers
    BY <1>1, <1>2 DEF C!Runtimes
  <1> QED
    BY <1>2, <1>3 DEF RuntimeGood, JoinOnce, C!Works

LEMMA DisposedGood ==
  ASSUME NEW k, RuntimeGood(k)
  PROVE  RuntimeGood(C!Disposed(k)) /\ C!Disposed(k).disposed
  <1> DEFINE d == C!Disposed(k)
  <1>1. CASE k.disposed
    BY <1>1 DEF C!Disposed
  <1>2. CASE ~k.disposed
    <2>1. /\ d \in C!Runtimes /\ d.disposed /\ d.timers = {} /\ d.services = {}
          /\ d.engine = "stopped" /\ d.spoke = k.spoke /\ d.joins = k.joins
      BY <1>2 DEF RuntimeGood, C!Disposed, C!Runtimes, C!Engines
    <2> HIDE DEF d
    <2>2. ~C!Serves(d) /\ ~C!Works(d)
      BY <2>1 DEF C!Serves, C!Works
    <2>3. RuntimeGood(d)
      BY <2>1, <2>2 DEF RuntimeGood
    <2> QED
      BY <2>1, <2>3 DEF d
  <1> QED
    BY <1>1, <1>2

LEMMA RuntimeEndedGood ==
  ASSUME NEW k, RuntimeGood(k)
  PROVE  RuntimeGood(C!Ended(k)) /\ C!Ended(k).disposed
  <1> DEFINE d == C!Disposed(k)
             e == C!Ended(k)
  <1>1. RuntimeGood(d) /\ d.disposed
    BY DisposedGood
  <1>2. e = [d EXCEPT !.alive = FALSE, !.judged = FALSE, !.joinSent = FALSE, !.joins = 0]
    BY DEF C!Ended
  <1> HIDE DEF d, e
  <1>3. /\ e \in C!Runtimes /\ e.disposed = d.disposed /\ e.timers = d.timers
        /\ e.services = d.services /\ e.engine = d.engine /\ e.spoke = d.spoke
        /\ e.joins = 0
    BY <1>1, <1>2 DEF RuntimeGood, C!Runtimes
  <1>4. ~C!Serves(e) /\ ~C!Works(e)
    BY <1>1, <1>3 DEF RuntimeGood, C!Serves, C!Works
  <1>5. RuntimeGood(e)
    BY <1>1, <1>3, <1>4 DEF RuntimeGood
  <1> QED
    BY <1>1, <1>3, <1>5 DEF e

(* A line is added behind the others.                                      *)
LEMMA AddedLine ==
  ASSUME NEW k, k \in C!Runtimes, JoinOnce(k), NEW q, q = Append(k.lines, "talk")
  PROVE  /\ q \in Seq(C!Lines)
         /\ \A i \in 1 .. Len(q) : q[i] = "join" => i \in 1 .. Len(k.lines) /\ k.lines[i] = "join"
  <1>1. k.lines \in Seq(C!Lines)
    BY DEF C!Runtimes
  <1>2. q \in Seq(C!Lines)
    BY <1>1 DEF C!Lines
  <1>3. /\ Len(q) = Len(k.lines) + 1 /\ Len(k.lines) \in Nat
        /\ \A i \in 1 .. Len(k.lines) : q[i] = k.lines[i]
        /\ q[Len(k.lines) + 1] = "talk"
    BY <1>1
  <1>4. ASSUME NEW i \in 1 .. Len(q), q[i] = "join"
        PROVE  i \in 1 .. Len(k.lines) /\ k.lines[i] = "join"
    <2>1. i # Len(k.lines) + 1
      BY <1>3, <1>4
    <2>2. i \in 1 .. Len(k.lines)
      BY <1>3, <1>4, <2>1
    <2> QED
      BY <1>3, <1>4, <2>2
  <1> QED
    BY <1>2, <1>4

LEMMA TalkGood ==
  ASSUME NEW k, RuntimeGood(k), ~k.disposed
  PROVE  RuntimeGood(C!Sends(k, "talk")) /\ ~C!Sends(k, "talk").disposed
  <1> DEFINE m == C!Sends(k, "talk")
             q == Append(k.lines, "talk")
  <1>1. k \in C!Runtimes /\ JoinOnce(k)
    BY DEF RuntimeGood
  <1>2. /\ q \in Seq(C!Lines)
        /\ \A i \in 1 .. Len(q) : q[i] = "join" => i \in 1 .. Len(k.lines) /\ k.lines[i] = "join"
    BY <1>1, AddedLine
  <1>3. m = [k EXCEPT !.lines = q]
    BY DEF C!Sends
  <1> HIDE DEF m, q
  <1>4. /\ m \in C!Runtimes /\ m.lines = q /\ m.disposed = k.disposed /\ m.joins = k.joins
        /\ m.joinSent = k.joinSent /\ m.spoke = k.spoke /\ m.engine = k.engine
        /\ m.timers = k.timers /\ m.alive = k.alive /\ m.judged = k.judged
    BY <1>1, <1>2, <1>3 DEF C!Runtimes
  <1>5. JoinOnce(m)
    BY <1>1, <1>2, <1>4 DEF JoinOnce
  <1>6. RuntimeGood(m)
    BY <1>4, <1>5 DEF RuntimeGood, C!Works
  <1> QED
    BY <1>4, <1>6 DEF m

(* The head of the queue leaves it.                                        *)
LEMMA EmptiedGood ==
  ASSUME NEW k, RuntimeGood(k), k.lines # <<>>
  PROVE  LET m == C!Emptied(k)
         IN /\ RuntimeGood(m) /\ m.disposed = k.disposed /\ m.joins = k.joins
            /\ m.joinSent = k.joinSent
            /\ ~k.disposed /\ Head(k.lines) = "join" =>
                 \A i \in 1 .. Len(m.lines) : m.lines[i] # "join"
  <1> DEFINE m == C!Emptied(k)
             q == Tail(k.lines)
  <1>1. k \in C!Runtimes /\ k.lines \in Seq(C!Lines)
    BY DEF RuntimeGood, C!Runtimes
  <1>2. /\ q \in Seq(C!Lines) /\ Len(k.lines) \in Nat /\ Len(k.lines) # 0
        /\ Len(q) = Len(k.lines) - 1
        /\ \A i \in 1 .. Len(q) : q[i] = k.lines[i + 1]
        /\ Head(k.lines) = k.lines[1]
    BY <1>1
  <1>3. m = [k EXCEPT !.lines = q, !.paced = FALSE]
    BY DEF C!Emptied
  <1> HIDE DEF m, q
  <1>4. /\ m \in C!Runtimes /\ m.lines = q /\ m.disposed = k.disposed /\ m.joins = k.joins
        /\ m.joinSent = k.joinSent /\ m.spoke = k.spoke /\ m.engine = k.engine
        /\ m.timers = k.timers /\ m.services = k.services
        /\ m.alive = k.alive /\ m.judged = k.judged
    BY <1>1, <1>2, <1>3 DEF C!Runtimes
  <1>5. \A i \in 1 .. Len(q) : i + 1 \in 1 .. Len(k.lines)
    BY <1>2
  <1>6. JoinOnce(k) => JoinOnce(m)
    <2>1. SUFFICES ASSUME JoinOnce(k)
                   PROVE  JoinOnce(m)
      OBVIOUS
    <2>2. \A i, j \in 1 .. Len(q) : q[i] = "join" /\ q[j] = "join" => i = j
      <3>1. ASSUME NEW i \in 1 .. Len(q), NEW j \in 1 .. Len(q), q[i] = "join", q[j] = "join"
            PROVE  i = j
        <4>1. k.lines[i + 1] = "join" /\ k.lines[j + 1] = "join"
          BY <1>2, <3>1
        <4>2. i + 1 = j + 1
          BY <1>5, <2>1, <4>1 DEF JoinOnce
        <4> QED
          BY <4>2
      <3> QED
        BY <3>1
    <2>3. (\E i \in 1 .. Len(q) : q[i] = "join") => \E i \in 1 .. Len(k.lines) : k.lines[i] = "join"
      BY <1>2, <1>5
    <2> QED
      BY <1>4, <2>1, <2>2, <2>3 DEF JoinOnce
  <1>7. ~k.disposed /\ Head(k.lines) = "join" => \A i \in 1 .. Len(q) : q[i] # "join"
    <2>1. SUFFICES ASSUME ~k.disposed, Head(k.lines) = "join", NEW i \in 1 .. Len(q), q[i] = "join"
                   PROVE  FALSE
      OBVIOUS
    <2>2. k.lines[1] = "join" /\ k.lines[i + 1] = "join" /\ 1 \in 1 .. Len(k.lines)
      BY <1>2, <2>1
    <2>3. 1 = i + 1
      BY <1>5, <2>1, <2>2 DEF RuntimeGood, JoinOnce
    <2> QED
      BY <2>3
  <1>8. RuntimeGood(m)
    BY <1>4, <1>6 DEF RuntimeGood, C!Works, C!Serves
  <1> QED
    BY <1>4, <1>7, <1>8 DEF m

LEMMA PacedGood ==
  ASSUME NEW k, RuntimeGood(k), k.lines # <<>>
  PROVE  RuntimeGood(C!Paced(k)) /\ C!Paced(k).disposed = k.disposed
  <1>1. CASE k.disposed
    BY <1>1, EmptiedGood DEF C!Paced
  <1>2. CASE ~k.disposed
    <2> DEFINE m == [k EXCEPT !.paced = TRUE]
    <2>1. /\ m \in C!Runtimes /\ m.lines = k.lines /\ m.disposed = k.disposed
          /\ m.joins = k.joins /\ m.joinSent = k.joinSent /\ m.spoke = k.spoke
          /\ m.engine = k.engine /\ m.timers = k.timers /\ m.services = k.services
          /\ m.alive = k.alive /\ m.judged = k.judged
      BY DEF RuntimeGood, C!Runtimes
    <2>2. C!Paced(k) = m
      BY <1>2 DEF C!Paced
    <2> HIDE DEF m
    <2>3. RuntimeGood(m)
      BY <2>1 DEF RuntimeGood, JoinOnce, C!Works, C!Serves
    <2> QED
      BY <2>1, <2>2, <2>3
  <1> QED
    BY <1>1, <1>2

(* The head is said, dropped or refused.                                   *)
LEMMA SaidGood ==
  ASSUME NEW k, RuntimeGood(k), k.lines # <<>>, NEW m \in C!Said(k)
  PROVE  RuntimeGood(m) /\ m.disposed = k.disposed
  <1> DEFINE e == C!Emptied(k)
             n == IF Head(k.lines) = "join" THEN 1 ELSE 0
  <1>1. /\ RuntimeGood(e) /\ e.disposed = k.disposed /\ e.joins = k.joins
        /\ e.joinSent = k.joinSent
        /\ ~k.disposed /\ Head(k.lines) = "join" =>
             \A i \in 1 .. Len(e.lines) : e.lines[i] # "join"
    BY EmptiedGood
  <1>2. CASE m = e
    BY <1>1, <1>2
  <1>3. m \in {e, [e EXCEPT !.joins = e.joins + n], C!Refused(k)}
    BY DEF C!Said
  <1>4. m = e \/ ~k.disposed
    BY DEF C!Said
  <1>5. k.lines \in Seq(C!Lines) /\ k.joins \in Nat
    BY DEF RuntimeGood, C!Runtimes
  <1>6. ~k.disposed /\ Head(k.lines) = "join" => k.joinSent /\ k.joins = 0
    <2>1. 1 \in 1 .. Len(k.lines) /\ Head(k.lines) = k.lines[1]
      BY <1>5
    <2> QED
      BY <2>1 DEF RuntimeGood, JoinOnce
  <1>7. n \in {0, 1} /\ (n = 1 <=> Head(k.lines) = "join")
    OBVIOUS
  <1>8. C!Refused(k) = IF Head(k.lines) = "join" THEN [e EXCEPT !.joinSent = FALSE] ELSE e
    BY DEF C!Refused
  <1> HIDE DEF e, n
  <1>9. CASE m = [e EXCEPT !.joins = e.joins + n] /\ ~k.disposed
    <2>1. e \in C!Runtimes /\ e.joins + n \in Nat
      BY <1>1, <1>5, <1>7 DEF RuntimeGood
    <2>2. /\ m \in C!Runtimes /\ m.lines = e.lines /\ m.disposed = e.disposed
          /\ m.joins = e.joins + n /\ m.joinSent = e.joinSent /\ m.spoke = e.spoke
          /\ m.engine = e.engine /\ m.timers = e.timers /\ m.services = e.services
          /\ m.alive = e.alive /\ m.judged = e.judged
      BY <1>9, <2>1 DEF C!Runtimes
    <2>3. CASE n = 0
      <3>1. m.joins = e.joins
        BY <1>1, <1>5, <2>2, <2>3
      <3> QED
        BY <1>1, <2>2, <3>1 DEF RuntimeGood, JoinOnce, C!Works, C!Serves
    <2>4. CASE n = 1
      <3>1. m.joins = 1 /\ m.joinSent /\ \A i \in 1 .. Len(m.lines) : m.lines[i] # "join"
        BY <1>1, <1>6, <1>7, <1>9, <2>2, <2>4
      <3>2. JoinOnce(m)
        BY <3>1 DEF JoinOnce
      <3> QED
        BY <1>1, <2>2, <3>1, <3>2 DEF RuntimeGood, C!Works, C!Serves
    <2> QED
      BY <1>7, <2>3, <2>4
  <1>10. CASE m = [e EXCEPT !.joinSent = FALSE] /\ ~k.disposed /\ Head(k.lines) = "join"
    <2>1. /\ m \in C!Runtimes /\ m.lines = e.lines /\ m.disposed = e.disposed
          /\ m.joins = e.joins /\ ~m.joinSent /\ m.spoke = e.spoke
          /\ m.engine = e.engine /\ m.timers = e.timers /\ m.services = e.services
          /\ m.alive = e.alive /\ m.judged = e.judged
      BY <1>1, <1>10 DEF RuntimeGood, C!Runtimes
    <2>2. m.joins = 0 /\ \A i \in 1 .. Len(m.lines) : m.lines[i] # "join"
      BY <1>1, <1>6, <1>10, <2>1
    <2>3. JoinOnce(m)
      BY <2>2 DEF JoinOnce
    <2> QED
      BY <1>1, <2>1, <2>2, <2>3 DEF RuntimeGood, C!Works, C!Serves
  <1> QED
    BY <1>2, <1>3, <1>4, <1>8, <1>9, <1>10

(* The bot stands in the world, and what that starts.                      *)
LEMMA ArrivedGood ==
  ASSUME NEW k, RuntimeGood(k), ~k.disposed
  PROVE  LET m == C!Arrived(k)
         IN RuntimeGood(m) /\ ~m.disposed /\ m.alive
  <1> DEFINE j == IF k.joinSent THEN k ELSE [C!Sends(k, "join") EXCEPT !.joinSent = TRUE]
             m == C!Arrived(k)
  <1>1. k \in C!Runtimes /\ JoinOnce(k) /\ k.lines \in Seq(C!Lines) /\ k.joins \in Nat
    BY DEF RuntimeGood, C!Runtimes
  <1>2. /\ j \in C!Runtimes /\ JoinOnce(j) /\ j.joins = k.joins /\ j.disposed = k.disposed
        /\ j.spoke = k.spoke /\ j.engine = k.engine /\ j.timers = k.timers
        /\ j.alive = k.alive /\ j.judged = k.judged
    <2>1. CASE k.joinSent
      BY <1>1, <2>1
    <2>2. CASE ~k.joinSent
      <3> DEFINE q == Append(k.lines, "join")
      <3>1. q \in Seq(C!Lines)
        BY <1>1 DEF C!Lines
      <3>2. /\ Len(q) = Len(k.lines) + 1 /\ Len(k.lines) \in Nat
            /\ \A i \in 1 .. Len(k.lines) : q[i] = k.lines[i]
        BY <1>1
      <3>3. j = [k EXCEPT !.lines = q, !.joinSent = TRUE]
        BY <1>1, <2>2 DEF C!Sends, C!Runtimes
      <3> HIDE DEF q, j
      <3>4. /\ j \in C!Runtimes /\ j.lines = q /\ j.joins = k.joins /\ j.disposed = k.disposed
            /\ j.spoke = k.spoke /\ j.engine = k.engine /\ j.timers = k.timers
            /\ j.alive = k.alive /\ j.judged = k.judged /\ j.joinSent
        BY <1>1, <3>1, <3>3 DEF C!Runtimes
      <3>5. k.joins = 0 /\ \A i \in 1 .. Len(k.lines) : k.lines[i] # "join"
        BY <1>1, <2>2 DEF JoinOnce
      <3>6. \A i \in 1 .. Len(q) : q[i] = "join" => i = Len(q)
        <4>1. ASSUME NEW i \in 1 .. Len(q), i # Len(q)
              PROVE  i \in 1 .. Len(k.lines)
          BY <3>2, <4>1
        <4> QED
          BY <3>2, <3>5, <4>1
      <3>7. JoinOnce(j)
        BY <3>4, <3>5, <3>6 DEF JoinOnce
      <3> QED
        BY <3>4, <3>7
    <2> QED
      BY <2>1, <2>2
  <1>3. m = [j EXCEPT !.alive = TRUE, !.services = j.services \cup {"terrain"}]
    BY DEF C!Arrived
  <1> HIDE DEF j, m
  <1>4. /\ m \in C!Runtimes /\ m.lines = j.lines /\ m.disposed = j.disposed
        /\ m.joins = j.joins /\ m.joinSent = j.joinSent /\ m.spoke = j.spoke
        /\ m.engine = j.engine /\ m.timers = j.timers /\ m.alive /\ m.judged = j.judged
    BY <1>2, <1>3 DEF C!Runtimes, C!Services
  <1>5. JoinOnce(m)
    BY <1>2, <1>4 DEF JoinOnce
  <1>6. RuntimeGood(m)
    BY <1>2, <1>4, <1>5 DEF RuntimeGood, C!Works
  <1> QED
    BY <1>2, <1>4, <1>6 DEF m

LEMMA SpawnedGood ==
  ASSUME NEW k, RuntimeGood(k), ~k.disposed, NEW m \in C!Spawned(k)
  PROVE  RuntimeGood(m) /\ ~m.disposed
  <1> DEFINE a == C!Arrived(k)
             en == IF a.engine = "stopped" THEN a.engine ELSE "on"
             r == C!Resumed(a)
  <1>1. RuntimeGood(a) /\ ~a.disposed /\ a.alive
    BY ArrivedGood
  <1>2. m = a \/ m = r
    BY DEF C!Spawned
  <1>3. r = [a EXCEPT !.judged = TRUE, !.engine = en, !.timers = {"supply", "farms"}]
    BY DEF C!Resumed
  <1>4. en \in C!Engines
    BY <1>1 DEF RuntimeGood, C!Runtimes, C!Engines
  <1> HIDE DEF a, en, r
  <1>5. /\ r \in C!Runtimes /\ r.lines = a.lines /\ r.disposed = a.disposed
        /\ r.joins = a.joins /\ r.joinSent = a.joinSent /\ r.spoke = a.spoke
        /\ r.alive = a.alive /\ r.judged
    BY <1>1, <1>3, <1>4 DEF RuntimeGood, C!Runtimes
  <1>6. RuntimeGood(r)
    BY <1>1, <1>5 DEF RuntimeGood, JoinOnce
  <1> QED
    BY <1>1, <1>2, <1>5, <1>6

LEMMA DiedGood ==
  ASSUME NEW k, RuntimeGood(k), ~k.disposed
  PROVE  RuntimeGood(C!Died(k)) /\ ~C!Died(k).disposed
  <1> DEFINE m == C!Died(k)
             en == IF k.engine = "on" THEN "suspended" ELSE k.engine
  <1>1. m = [k EXCEPT !.alive = FALSE, !.judged = FALSE, !.timers = {}, !.engine = en]
    BY DEF C!Died
  <1>2. en \in C!Engines /\ en # "on"
    BY DEF RuntimeGood, C!Runtimes, C!Engines
  <1> HIDE DEF m, en
  <1>3. /\ m \in C!Runtimes /\ m.lines = k.lines /\ m.disposed = k.disposed
        /\ m.joins = k.joins /\ m.joinSent = k.joinSent /\ m.spoke = k.spoke
        /\ m.engine = en /\ m.timers = {}
    BY <1>1, <1>2 DEF RuntimeGood, C!Runtimes
  <1>4. RuntimeGood(m)
    BY <1>2, <1>3 DEF RuntimeGood, JoinOnce, C!Works
  <1> QED
    BY <1>3, <1>4 DEF m

-----------------------------------------------------------------------------
(* The supervisor's connection stays the one it holds until it is stopped  *)
(* or lost; what it opens it holds, or it becomes a stray, and remains one. *)
NetMoves(n, m) ==
  /\ n.strays \subseteq m.strays
  /\ m.strays \ n.strays \subseteq m.live \ n.live
  /\ \A c \in (m.live \ n.live) \ m.strays : c = m.runtime /\ (m.stopped => ~n.stopped)
  /\ ~n.stopped /\ ~m.stopped /\ n.runtime \in n.live \cap m.live => m.runtime = n.runtime

LEMMA OpenedMoves ==
  ASSUME NEW n \in Net, NEW s, NetGood(n, s), n.runtime \notin n.live, NEW m \in Opened(n)
  PROVE  NetMoves(n, m) /\ m.stopped = n.stopped
  <1>1. CASE n.stopped
    BY <1>1 DEF Opened, NetMoves
  <1>2. CASE ~n.stopped
    <2> DEFINE g == n.generation + 1
               o == Numbered(n)
    <2>1. g \in Nat
      BY HostAssumption DEF Net, Conns
    <2>2. /\ o \in [stopped : BOOLEAN, generation : Nat, runtime : Conns, timer : BOOLEAN,
                    live : SUBSET Conns, strays : SUBSET Conns]
          /\ o.generation = g /\ o.live = n.live /\ o.strays = n.strays /\ ~o.stopped
      BY <1>2, <2>1 DEF Net, Numbered
    <2>3. \/ m = [Joined(o) EXCEPT !.runtime = g]
          \/ \E f \in Failures(o) : m = Schedule(f)
      BY <1>2 DEF Opened
    <2>4. g \notin n.live /\ g \notin n.strays
      BY HostAssumption DEF NetGood, Net, Conns
    <2> HIDE DEF g, o
    <2>5. CASE m = [Joined(o) EXCEPT !.runtime = g]
      <3>1. /\ m.runtime = g /\ m.live = n.live \cup {g} /\ ~m.stopped
            /\ m.strays = n.strays /\ n.stopped = FALSE /\ m.stopped = FALSE
        BY <1>2, <2>2, <2>5 DEF Joined, Net
      <3> QED
        BY <3>1 DEF NetMoves
    <2>6. ASSUME NEW f \in Failures(o), m = Schedule(f)
          PROVE  NetMoves(n, m) /\ m.stopped = n.stopped
      <3> DEFINE none == [o EXCEPT !.runtime = 0]
                 half == [Joined(none) EXCEPT !.strays = Joined(none).strays \cup {o.generation}]
                 Nets == [stopped : BOOLEAN, generation : Nat, runtime : Conns \cup {0},
                          timer : BOOLEAN, live : SUBSET (Conns \cup {g}),
                          strays : SUBSET (Conns \cup {g})]
      <3>1. f = none \/ f = half
        BY <2>6 DEF Failures
      <3>2. /\ none \in Nets /\ none.live = n.live /\ none.strays = n.strays
            /\ none.stopped = FALSE /\ none.generation = g
        BY <2>2
      <3>3. /\ half \in Nets /\ half.live = n.live \cup {g} /\ half.strays = n.strays \cup {g}
            /\ half.stopped = FALSE
        <4>1. o.generation = g
          BY <2>2
        <4> HIDE DEF none
        <4> QED
          BY <3>2, <4>1 DEF Joined
      <3>4. /\ f.stopped = FALSE
            /\ \/ f.live = n.live /\ f.strays = n.strays
               \/ f.live = n.live \cup {g} /\ f.strays = n.strays \cup {g}
        BY <3>1, <3>2, <3>3
      <3>5. f \in Nets
        BY <3>1, <3>2, <3>3
      <3>6. m.live = f.live /\ m.strays = f.strays /\ m.stopped = FALSE
        BY <2>6, <3>4, <3>5 DEF Schedule
      <3> QED
        BY <1>2, <2>4, <3>4, <3>6 DEF NetMoves, Net
    <2> QED
      BY <2>3, <2>5, <2>6
  <1> QED
    BY <1>1, <1>2

LEMMA StoppedMoves ==
  ASSUME NEW n \in Net, NEW throws \in BOOLEAN
  PROVE  LET m == SupervisorStopped(n, throws)
         IN /\ m.stopped /\ m.live \subseteq n.live /\ m.strays = n.strays
            /\ n.stopped => m = n
            /\ throws => m.runtime = n.runtime /\ m.live = n.live
            /\ ~throws /\ ~n.stopped => m.live = n.live \ {n.runtime}
  BY DEF Net, SupervisorStopped

LEMMA NextMoves ==
  ASSUME HostIInv, HostNext
  PROVE  NetMoves(net, net')
  <1>1. net \in Net /\ NetGood(net, stuck)
    BY DEF HostIInv, HostTypeOK, Net
  <1>2. CASE net' = net
    BY <1>2 DEF NetMoves
  <1>3. ASSUME NEW throws \in BOOLEAN, StopNet(net, throws)
        PROVE  NetMoves(net, net')
    BY <1>1, <1>3, StoppedMoves DEF StopNet, NetMoves
  <1>4. ASSUME NEW c \in Conns, ConnectionEnds(c)
        PROVE  NetMoves(net, net')
    <2> DEFINE ended == [net EXCEPT !.live = net.live \ {c}]
               quiet == [ended EXCEPT !.runtime = 0]
    <2>1. net' = IF Heard(net, c) THEN Schedule(quiet) ELSE ended
      BY <1>4 DEF ConnectionEnds
    <2>2. /\ ended.live = net.live \ {c} /\ ended.stopped = net.stopped
          /\ ended.runtime = net.runtime /\ ended.strays = net.strays
      BY <1>1 DEF Net
    <2>3. /\ quiet.live = net.live \ {c} /\ quiet.stopped = net.stopped
          /\ quiet.strays = net.strays
      BY <1>1 DEF Net
    <2>4. /\ Schedule(quiet).live = net.live \ {c} /\ Schedule(quiet).stopped = net.stopped
          /\ Schedule(quiet).strays = net.strays
      <3>1. quiet \in [stopped : BOOLEAN, generation : Conns, runtime : Conns \cup {0},
                       timer : BOOLEAN, live : SUBSET Conns, strays : SUBSET Conns]
        BY <1>1 DEF Net
      <3> HIDE DEF quiet
      <3> QED
        BY <2>3, <3>1 DEF Schedule
    <2> HIDE DEF ended, quiet
    <2>5. CASE Heard(net, c)
      <3>1. /\ net'.live = net.live \ {net.runtime} /\ net'.stopped = net.stopped
            /\ net'.strays = net.strays
        BY <2>1, <2>4, <2>5 DEF Heard
      <3> QED
        BY <3>1 DEF NetMoves
    <2>6. CASE ~Heard(net, c)
      BY <2>1, <2>2, <2>6 DEF NetMoves
    <2> QED
      BY <2>5, <2>6
  <1>5. CASE Reconnect
    <2> DEFINE n == [net EXCEPT !.timer = FALSE]
    <2>1. /\ n \in Net /\ n.live = net.live /\ n.stopped = net.stopped /\ n.runtime = net.runtime
          /\ n.generation = net.generation /\ n.strays = net.strays /\ ~n.timer
      BY <1>1 DEF Net
    <2>2. net' \in Opened(n) /\ n.runtime \notin n.live /\ NetGood(n, stuck)
      BY <1>1, <1>5, <2>1 DEF Reconnect, NetGood
    <2> HIDE DEF n
    <2>3. NetMoves(n, net')
      BY <2>1, <2>2, OpenedMoves
    <2> QED
      BY <2>1, <2>3 DEF NetMoves
  <1>6. starting = "dashboard" => Begun(net) = Opened(net) /\ net.runtime = 0 /\ ~net.timer /\ ~net.stopped
    BY DEF HostIInv, AtRest, Opening, Running, Closing, HostTypeOK, Phases, Begun
  <1>7. CASE OpenedAndRuns
    <2>1. net' \in Opened(net) /\ MayOpen(net) /\ net.runtime \notin net.live
      BY <1>1, <1>6, <1>7 DEF OpenedAndRuns, NetGood
    <2> QED
      BY <1>1, <2>1, OpenedMoves
  <1>8. CASE OpenedThenStopped
    <2>1. /\ starting = "dashboard" /\ MayOpen(net)
          /\ \E n \in Begun(net), throws \in BOOLEAN : net' = SupervisorStopped(n, throws)
      BY <1>8 DEF OpenedThenStopped, StopNet
    <2>2. PICK n \in Opened(net), throws \in BOOLEAN : net' = SupervisorStopped(n, throws)
      BY <1>6, <2>1
    <2>3. NetMoves(net, n) /\ n.stopped = net.stopped
      BY <1>1, <1>6, <2>1, <2>2, OpenedMoves DEF NetGood
    <2>4. n \in Net /\ n.runtime \notin n.strays
      BY <1>1, <1>6, <2>1, <2>2, OpenedGood DEF NetGood
    <2>5. /\ net'.stopped /\ net'.live \subseteq n.live /\ net'.strays = n.strays
          /\ throws => net'.runtime = n.runtime /\ net'.live = n.live
          /\ ~throws => net'.live = n.live \ {n.runtime}
      BY <1>6, <2>1, <2>2, <2>3, <2>4, StoppedMoves
    <2> QED
      BY <1>6, <2>1, <2>3, <2>4, <2>5 DEF NetMoves
  <1>9. CASE StartApp
    <2>1. net'.stopped /\ net'.live = net.live /\ net'.strays = net.strays
      BY <1>9 DEF StartApp, NoSupervisor
    <2> QED
      BY <2>1 DEF NetMoves
  <1>10. CASE Assemble
    <2>1. /\ net'.live = net.live /\ net'.runtime = net.runtime /\ ~net'.stopped
          /\ net'.strays = net.strays
      BY <1>1, <1>10 DEF Assemble, Net
    <2> QED
      BY <2>1 DEF NetMoves
  <1>11. CASE DashboardFails \/ StartThrows \/ \E m \in Modes : StopRunning(m)
    BY <1>3, <1>11 DEF DashboardFails, StartThrows, StopRunning, BeginTeardown, ReleaseConnection
  <1>12. CASE \/ AssembleFails \/ StartFailed \/ TeardownDone \/ PollOnce \/ Escalate
              \/ \E m \in Modes : StopDuringStart(m)
    BY <1>2, <1>12 DEF AssembleFails, StartFailed, TeardownDone, PollOnce, Escalate, StopDuringStart
  <1> QED
    BY <1>4, <1>5, <1>7, <1>8, <1>9, <1>10, <1>11, <1>12 DEF HostNext, Calls, Internal

(* What the application does to the runtimes.                              *)
LEMMA FollowedGood ==
  ASSUME ConnGood, HeldOnly(net, conn), NetMoves(net, net'), NEW left \in C!HalfMade,
         conn' = Followed(left)
  PROVE  ConnGood' /\ HeldOnly(net', conn')
  <1>1. ASSUME NEW c \in Ids
        PROVE  /\ RuntimeGood(conn'[c])
               /\ c \notin net'.strays /\ ~conn'[c].disposed =>
                    c \in net'.live /\ c = net'.runtime /\ ~net'.stopped
    <2> DEFINE stopped == c \in {net.runtime, net'.runtime} /\ net'.stopped /\ ~net.stopped
               opened == IF c \notin net'.live \ net.live THEN conn[c]
                         ELSE IF c \in net'.strays THEN left ELSE C!Fresh
    <2>1. RuntimeGood(conn[c]) /\ RuntimeGood(opened)
      BY FreshGood, HalfMadeGood DEF ConnGood
    <2>2. conn'[c] = IF c \in net.live \ net'.live
                     THEN IF c \in net.strays THEN conn[c] ELSE C!Ended(conn[c])
                     ELSE IF stopped THEN C!Disposed(opened) ELSE opened
      BY DEF Followed
    <2>3. CASE c \in net.live \ net'.live
      <3>1. c \in net.strays => c \in net'.strays
        BY DEF NetMoves
      <3> QED
        BY <2>1, <2>2, <2>3, <3>1, RuntimeEndedGood
    <2>4. CASE c \notin net.live \ net'.live /\ stopped
      <3> HIDE DEF stopped, opened
      <3> QED
        BY <2>1, <2>2, <2>4, DisposedGood
    <2>5. CASE c \in net'.live \ net.live /\ ~stopped
      <3>1. conn'[c] = opened
        BY <2>2, <2>5
      <3>2. c \notin net'.strays => c = net'.runtime /\ ~net'.stopped
        BY <2>5 DEF NetMoves
      <3> QED
        BY <2>1, <2>5, <3>1, <3>2
    <2>6. CASE c \notin net'.live \ net.live /\ c \notin net.live \ net'.live /\ ~stopped
      <3>1. conn'[c] = conn[c]
        BY <2>2, <2>6
      <3>2. ASSUME ~conn[c].disposed, c \notin net'.strays
            PROVE  c \in net'.live /\ c = net'.runtime /\ ~net'.stopped
        <4>1. c \in net.live /\ c = net.runtime /\ ~net.stopped
          BY <3>2 DEF HeldOnly, NetMoves
        <4>2. c \in net'.live /\ ~net'.stopped
          BY <2>6, <4>1
        <4> QED
          BY <4>1, <4>2 DEF NetMoves
      <3> QED
        BY <2>1, <3>1, <3>2
    <2> QED
      BY <2>3, <2>4, <2>5, <2>6
  <1>2. conn' \in [Ids -> C!Runtimes]
    <2>1. conn' = [c \in Ids |-> conn'[c]]
      BY DEF Followed
    <2> QED
      BY <1>1, <2>1 DEF RuntimeGood
  <1> QED
    BY <1>1, <1>2 DEF ConnGood, HeldOnly

(* What one runtime does by itself.                                        *)
LEMMA BecomesGood ==
  ASSUME HostedInv, NEW c \in Ids, NEW records, Becomes(c, records),
         \A k \in records : RuntimeGood(k) /\ k.disposed = conn[c].disposed
  PROVE  HostedInv'
  <1>1. PICK k \in records : conn' = [conn EXCEPT ![c] = k] /\ UNCHANGED hostVars
    BY DEF Becomes
  <1>2. HostIInv'
    <2>1. [HostNext]_hostVars
      BY <1>1
    <2> QED
      BY <2>1, HostNextKeeps DEF HostedInv
  <1>3. k \in C!Runtimes /\ conn \in [Ids -> C!Runtimes]
    BY DEF RuntimeGood, HostedInv, ConnGood
  <1>4. ConnGood'
    BY <1>1, <1>3 DEF HostedInv, ConnGood
  <1>5. net' = net
    BY <1>1 DEF hostVars
  <1>6. HeldOnly(net', conn')
    BY <1>1, <1>3, <1>5 DEF HostedInv, HeldOnly
  <1> QED
    BY <1>2, <1>4, <1>6 DEF HostedInv

LEMMA SameDisposed ==
  ASSUME NEW k, NEW m, RuntimeGood(k), RuntimeGood(m), ~k.disposed, ~m.disposed
  PROVE  m.disposed = k.disposed
  <1>1. k.disposed \in BOOLEAN /\ m.disposed \in BOOLEAN
    BY DEF RuntimeGood, C!Runtimes
  <1> QED
    BY <1>1

LEMMA HostedKeeps == HostedInv /\ [HostedNext]_allVars => HostedInv'
  <1> SUFFICES ASSUME HostedInv, [HostedNext]_allVars
               PROVE  HostedInv'
    OBVIOUS
  <1>1. CASE HostStep
    <2>1. HostNext /\ \E left \in C!HalfMade : conn' = Followed(left)
      BY <1>1 DEF HostStep
    <2>2. HostIInv'
      BY <2>1, HostNextKeeps DEF HostedInv
    <2>3. NetMoves(net, net')
      BY <2>1, NextMoves DEF HostedInv
    <2> QED
      BY <2>1, <2>2, <2>3, FollowedGood DEF HostedInv
  <1>2. ASSUME NEW c \in Ids
        PROVE  RuntimeGood(conn[c])
    BY <1>2 DEF HostedInv, ConnGood
  <1>3. ASSUME NEW c \in Ids, Spawn(c) \/ Death(c) \/ Talk(c)
        PROVE  HostedInv'
    <2>1. RuntimeGood(conn[c]) /\ ~conn[c].disposed
      BY <1>2, <1>3 DEF Spawn, Death, Talk, Live
    <2>2. CASE Spawn(c)
      <3> DEFINE records == C!Spawned(conn[c])
      <3>1. \A k \in records : RuntimeGood(k) /\ ~k.disposed
        BY <2>1, SpawnedGood
      <3>2. Becomes(c, records)
        BY <2>2 DEF Spawn
      <3> HIDE DEF records
      <3>3. \A k \in records : k.disposed = conn[c].disposed
        BY <2>1, <3>1, SameDisposed
      <3> QED
        BY <3>1, <3>2, <3>3, BecomesGood
    <2>3. CASE Death(c)
      <3> DEFINE m == C!Died(conn[c])
      <3>1. RuntimeGood(m) /\ ~m.disposed
        BY <2>1, DiedGood
      <3>2. Becomes(c, {m})
        BY <2>3 DEF Death
      <3> HIDE DEF m
      <3>3. m.disposed = conn[c].disposed
        BY <2>1, <3>1, SameDisposed
      <3> QED
        BY <3>1, <3>2, <3>3, BecomesGood
    <2>4. CASE Talk(c)
      <3> DEFINE m == C!Sends(conn[c], "talk")
      <3>1. RuntimeGood(m) /\ ~m.disposed
        BY <2>1, TalkGood
      <3>2. Becomes(c, {m})
        BY <2>4 DEF Talk
      <3> HIDE DEF m
      <3>3. m.disposed = conn[c].disposed
        BY <2>1, <3>1, SameDisposed
      <3> QED
        BY <3>1, <3>2, <3>3, BecomesGood
    <2> QED
      BY <1>3, <2>2, <2>3, <2>4
  <1>4. ASSUME NEW c \in Ids, Pace(c)
        PROVE  HostedInv'
    <2>1. \A k \in {C!Paced(conn[c])} : RuntimeGood(k) /\ k.disposed = conn[c].disposed
      BY <1>2, <1>4, PacedGood DEF Pace
    <2> QED
      BY <1>4, <2>1, BecomesGood DEF Pace
  <1>5. ASSUME NEW c \in Ids, Say(c)
        PROVE  HostedInv'
    <2>1. \A k \in C!Said(conn[c]) : RuntimeGood(k) /\ k.disposed = conn[c].disposed
      BY <1>2, <1>5, SaidGood DEF Say
    <2> QED
      BY <1>5, <2>1, BecomesGood DEF Say
  <1>6. CASE UNCHANGED allVars
    <2>1. UNCHANGED hostVars /\ conn' = conn /\ net' = net
      BY <1>6 DEF allVars, hostVars
    <2>2. HostIInv'
      BY <2>1, HostNextKeeps DEF HostedInv
    <2> QED
      BY <2>1, <2>2 DEF HostedInv, ConnGood, HeldOnly
  <1> QED
    BY <1>1, <1>3, <1>4, <1>5, <1>6 DEF HostedNext

LEMMA HostedStarts == HostedInit => HostedInv
  <1> SUFFICES ASSUME HostedInit
               PROVE  HostedInv
    OBVIOUS
  <1>1. HostIInv /\ conn = [c \in Ids |-> C!Disposed(C!Fresh)]
    BY HostInitKeeps DEF HostedInit
  <1>2. RuntimeGood(C!Disposed(C!Fresh)) /\ C!Disposed(C!Fresh).disposed
    BY FreshGood, DisposedGood
  <1>3. ConnGood
    BY <1>1, <1>2 DEF ConnGood, RuntimeGood
  <1>4. HeldOnly(net, conn)
    BY <1>1, <1>2 DEF HeldOnly
  <1> QED
    BY <1>1, <1>3, <1>4 DEF HostedInv

(* With the runtimes, too, the application goes through its own states.    *)
LEMMA HostedStepMaps == [HostedNext]_allVars => [HostNext]_hostVars
  <1>1. HostStep => HostNext
    BY DEF HostStep
  <1>2. ASSUME NEW c \in Ids, Spawn(c) \/ Death(c) \/ Talk(c) \/ Pace(c) \/ Say(c)
        PROVE  UNCHANGED hostVars
    BY <1>2 DEF Spawn, Death, Talk, Pace, Say, Becomes
  <1>3. UNCHANGED allVars => UNCHANGED hostVars
    BY DEF allVars
  <1> QED
    BY <1>1, <1>2, <1>3 DEF HostedNext

(* The composed system is one of the application's own behaviours, so what *)
(* is proved of Host holds of it.                                          *)
THEOREM HostedIsHost == HostedSpec => HostSpec
  <1>1. HostedInit => HostInit
    BY DEF HostedInit
  <1> QED
    BY <1>1, HostedStepMaps, PTL DEF HostedSpec, HostSpec

(* Strays apart, one runtime serves the world, the one the supervisor      *)
(* holds; each works only in a life whose journal was reconciled; what was *)
(* closed says nothing more; and a server is joined once, whatever lines   *)
(* are refused, dropped or left in a queue (connection.ts, sendQueue.ts).  *)
THEOREM OneServes == HostedSpec => []OneRuntimeServes
  BY HostedStarts, HostedKeeps, HostedImplies, PTL DEF HostedSpec
=============================================================================
