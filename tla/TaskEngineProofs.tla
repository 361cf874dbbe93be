-------------------------- MODULE TaskEngineProofs --------------------------
(***************************************************************************)
(* The safety of the durable queue, for every number of plans, steps and   *)
(* engines.  What the two tables say of a plan is an invariant of its two  *)
(* rows, kept by each operation of the store (section 2); that a late      *)
(* answer completes nothing needs the engines: only one of them holds a    *)
(* live handler, and its claim is the last on its step (section 3).  On    *)
(* the same invariant rest that no work is lost (section 4), and that the  *)
(* engine implements PlanLifecycle (section 5).                            *)
(***************************************************************************)
EXTENDS TaskEngine, WellFoundedInduction, TLAPS

PlanRow == [status : PlanStatus, mission : Mission, announced : Nat]
StepRow == [status : StepStatus, attempts : Nat, next : Time, doneBy : Nat]
EngineRow == [phase : {"absent", "new", "started", "stopped"},
              available : BOOLEAN, timer : 0 .. Never, claim : Claim \cup {NoClaim},
              lost : SUBSET (Plans \X Steps \X Nat), threw : BOOLEAN]

(* What StepsInOrder, PlanMirrorsSteps, EndAnnouncedOnce and               *)
(* CompletedByOwnAttempt say of one plan, its row r and its steps f.       *)
Attempted == {"running", "retry_wait", "completed", "failed"}

OrderOf(f) ==
  \A s \in Steps, t \in Steps : s < t /\ f[t].status \in Attempted => f[s].status = "completed"

MirrorOf(r, f) ==
  /\ r.status = "completed" <=> \A s \in Steps : f[s].status = "completed"
  /\ r.status = "failed" <=> \E s \in Steps : f[s].status = "failed"
  /\ r.status = "cancelled" <=> \E s \in Steps : f[s].status = "cancelled"

RunsOf(r, f) == (\E s \in Steps : f[s].status = "running") => r.status = "running"

EndOf(r) == r.announced = IF r.status \in {"completed", "failed"} THEN 1 ELSE 0

OwnOf(f) == \A s \in Steps : f[s].status = "completed" => f[s].doneBy = f[s].attempts

(* While an engine works or awaits a handler ("at"), a running step has a  *)
(* running plan; a pause that was cut short is seen when none does.        *)
GoodPlan(r, f, at) ==
  /\ r \in PlanRow /\ f \in [Steps -> StepRow]
  /\ OrderOf(f) /\ MirrorOf(r, f) /\ EndOf(r) /\ OwnOf(f)
  /\ at => RunsOf(r, f)

Good(pl, st, at) ==
  /\ pl \in [Plans -> PlanRow] /\ st \in [Plans -> [Steps -> StepRow]]
  /\ \A p \in Plans : GoodPlan(pl[p], st[p], at)

SoundPlan(r, f) == GoodPlan(r, f, TRUE)

Sound(pl, st) ==
  /\ pl \in [Plans -> PlanRow] /\ st \in [Plans -> [Steps -> StepRow]]
  /\ \A p \in Plans : SoundPlan(pl[p], st[p])

(* Engines follow one another, an aborted or finished engine holds no live *)
(* handler, and a live claim is the last attempt of its step.              *)
EnginesInOrder ==
  \A e, f \in Engines : e < f /\ engine[f].phase # "absent" => engine[e].phase = "stopped"

LiveServes == \A e \in Engines : engine[e].claim.handler = "live" => engine[e].phase = "started"

LiveIsLast ==
  \A e \in Engines : engine[e].claim.handler = "live" =>
    engine[e].claim.attempt = step[engine[e].claim.plan][engine[e].claim.step].attempts

(* An engine that was not started claimed nothing.                         *)
Unborn == \A e \in Engines : engine[e].phase \in {"absent", "new"} => engine[e].claim = NoClaim

EnginesType == engine \in [Engines -> EngineRow]
RestType == now \in Time /\ pauses \in 0 .. MaxPauses /\ faults \in 0 .. MaxFaults

IInv ==
  /\ RestType /\ EnginesType
  /\ EnginesInOrder /\ LiveServes /\ LiveIsLast /\ Unborn
  /\ Good(plan, step, Attended)

LEMMA Implied ==
  ASSUME IInv
  PROVE  /\ TypeOK /\ StepsInOrder /\ PlanMirrorsSteps
         /\ EndAnnouncedOnce /\ CompletedByOwnAttempt
  <1>1. TypeOK
    BY DEF IInv, RestType, EnginesType, EngineRow, Good, PlanRow, StepRow, TypeOK
  <1>2. StepsInOrder
    BY DEF IInv, Good, GoodPlan, OrderOf, Attempted, StepsInOrder
  <1>3. PlanMirrorsSteps
    BY DEF IInv, Good, GoodPlan, MirrorOf, RunsOf, PlanMirrorsSteps
  <1>4. EndAnnouncedOnce
    BY DEF IInv, Good, GoodPlan, EndOf, EndAnnouncedOnce
  <1>5. CompletedByOwnAttempt
    BY DEF IInv, Good, GoodPlan, OwnOf, CompletedByOwnAttempt
  <1> QED
    BY <1>1, <1>2, <1>3, <1>4, <1>5

-----------------------------------------------------------------------------
(* 1. Times: the wake timer and the retry are within the clock's bound.    *)
LEMMA LeastOf ==
  ASSUME NEW R, \A x, y \in Nat : y < x => <<y, x>> \in R, IsWellFoundedOn(R, Nat),
         NEW T, T \subseteq Nat, T # {}
  PROVE  \E t \in T : \A u \in T : t <= u
  <1>1. PICK x \in T : \A y \in T : ~ (<<y, x>> \in R)
    BY WFMin
  <1>2. ASSUME NEW u \in T
        PROVE  x <= u
    <2>1. x \in Nat /\ u \in Nat
      OBVIOUS
    <2>2. u < x => <<u, x>> \in R
      BY <2>1
    <2>3. ~ (<<u, x>> \in R)
      BY <1>1
    <2> QED
      BY <2>1, <2>2, <2>3, SMT
  <1> QED
    BY <1>2

LEMMA Least ==
  ASSUME NEW T, T \subseteq Nat, T # {}
  PROVE  \E t \in T : \A u \in T : t <= u
  <1>1. IsWellFoundedOn(OpToRel(<, Nat), Nat)
    BY NatLessThanWellFounded
  <1>2. \A x, y \in Nat : y < x => <<y, x>> \in OpToRel(<, Nat)
    BY DEF OpToRel
  <1> QED
    BY <1>1, <1>2, LeastOf

(* nextRetryAt() yields a time, when there is a retry to wait for.         *)
LEMMA WakeType ==
  ASSUME NEW pl, NEW st, Retries(pl, st) # {}
  PROVE  (CHOOSE t \in Time : EarliestRetry(pl, st, t)) \in Time
  <1>1. Retries(pl, st) \subseteq Time
    BY DEF Retries
  <1>2. Time \subseteq Nat
    BY EngineAssumption DEF Time
  <1>3. \E t \in Retries(pl, st) : \A u \in Retries(pl, st) : t <= u
    BY <1>1, <1>2, Least
  <1>4. \E t \in Time : EarliestRetry(pl, st, t)
    BY <1>1, <1>3 DEF EarliestRetry
  <1> QED
    BY <1>4

-----------------------------------------------------------------------------
(* 2. The operations of the store keep what the two rows say of each other.*)

(* One step changes: r and f become q and g.                               *)
LEMMA ClaimGood ==
  ASSUME NEW r, NEW f, SoundPlan(r, f), NEW s \in Steps,
         r.status \in {"pending", "running"},
         f[s].status \in {"pending", "retry_wait"},
         \A t \in Steps : t < s => f[t].status = "completed",
         NEW q \in PlanRow, NEW g \in [Steps -> StepRow],
         \A t \in Steps \ {s} : g[t] = f[t],
         g[s].status = "running", q.status = "running", q.announced = r.announced
  PROVE  SoundPlan(q, g)
  <1>1. OrderOf(g)
    BY DEF GoodPlan, SoundPlan, OrderOf, Attempted
  <1>2. MirrorOf(q, g) /\ RunsOf(q, g)
    BY DEF GoodPlan, SoundPlan, MirrorOf, RunsOf
  <1>3. EndOf(q) /\ OwnOf(g)
    BY DEF GoodPlan, SoundPlan, EndOf, OwnOf
  <1> QED
    BY <1>1, <1>2, <1>3 DEF GoodPlan, SoundPlan

LEMMA CompleteGood ==
  ASSUME NEW r, NEW f, SoundPlan(r, f), NEW s \in Steps, f[s].status = "running",
         NEW q \in PlanRow, NEW g \in [Steps -> StepRow],
         \A t \in Steps \ {s} : g[t] = f[t],
         g[s].status = "completed", g[s].doneBy = g[s].attempts,
         IF \A t \in Steps \ {s} : f[t].status = "completed"
         THEN q.status = "completed" /\ q.announced = r.announced + 1
         ELSE q.status = "running" /\ q.announced = r.announced
  PROVE  SoundPlan(q, g)
  <1>0. r.status = "running" /\ r.announced = 0
    BY DEF GoodPlan, SoundPlan, MirrorOf, RunsOf, EndOf
  <1>1. OrderOf(g)
    BY DEF GoodPlan, SoundPlan, OrderOf, Attempted
  <1>2. MirrorOf(q, g) /\ RunsOf(q, g)
    BY <1>0 DEF GoodPlan, SoundPlan, MirrorOf, RunsOf
  <1>3. EndOf(q) /\ OwnOf(g)
    BY <1>0 DEF GoodPlan, SoundPlan, EndOf, OwnOf
  <1> QED
    BY <1>1, <1>2, <1>3 DEF GoodPlan, SoundPlan

LEMMA FailGood ==
  ASSUME NEW r, NEW f, SoundPlan(r, f), NEW s \in Steps, f[s].status = "running",
         NEW q \in PlanRow, NEW g \in [Steps -> StepRow],
         \A t \in Steps \ {s} : g[t] = f[t],
         \/ /\ g[s].status = "retry_wait"
            /\ q.status = "running" /\ q.announced = r.announced
         \/ /\ g[s].status = "failed"
            /\ q.status = "failed" /\ q.announced = r.announced + 1
  PROVE  SoundPlan(q, g)
  <1>0. r.status = "running" /\ r.announced = 0
    BY DEF GoodPlan, SoundPlan, MirrorOf, RunsOf, EndOf
  <1>1. OrderOf(g)
    BY DEF GoodPlan, SoundPlan, OrderOf, Attempted
  <1>a. \A t \in Steps \ {s} : f[t].status # "running"
    <2>1. \A t \in Steps : t < s \/ s < t \/ t = s
      BY DEF Steps
    <2> QED
      BY <2>1 DEF GoodPlan, SoundPlan, OrderOf, Attempted
  <1>2. MirrorOf(q, g) /\ RunsOf(q, g)
    BY <1>0, <1>a DEF GoodPlan, SoundPlan, MirrorOf, RunsOf
  <1>3. EndOf(q) /\ OwnOf(g)
    BY <1>0 DEF GoodPlan, SoundPlan, EndOf, OwnOf
  <1> QED
    BY <1>1, <1>2, <1>3 DEF GoodPlan, SoundPlan

(* A pause and the reconciliation at start put a running step back.        *)
LEMMA PutBackGood ==
  ASSUME NEW r, NEW f, NEW at \in BOOLEAN, GoodPlan(r, f, at),
         NEW q \in PlanRow, NEW g \in [Steps -> StepRow],
         \A t \in Steps :
           IF f[t].status = "running" THEN g[t].status = "pending" ELSE g[t] = f[t],
         q.announced = r.announced,
         \/ r.status \in {"pending", "running"} /\ q.status \in {"pending", "paused"}
         \/ r.status # "running" /\ q.status = r.status
  PROVE  SoundPlan(q, g)
  <1>1. OrderOf(g)
    BY DEF GoodPlan, SoundPlan, OrderOf, Attempted
  <1>2. MirrorOf(q, g) /\ RunsOf(q, g)
    BY DEF GoodPlan, SoundPlan, MirrorOf, RunsOf
  <1>3. EndOf(q) /\ OwnOf(g)
    BY DEF GoodPlan, SoundPlan, EndOf, OwnOf
  <1> QED
    BY <1>1, <1>2, <1>3 DEF GoodPlan, SoundPlan

(* A plan is created, or resumed.                                          *)
LEMMA OpenGood ==
  ASSUME NEW r, NEW f, NEW at \in BOOLEAN, GoodPlan(r, f, at),
         r.status \in {"none", "paused"},
         NEW q \in PlanRow, q.status = "pending", q.announced = r.announced
  PROVE  GoodPlan(q, f, at)
  BY DEF GoodPlan, MirrorOf, RunsOf, EndOf

LEMMA CancelGood ==
  ASSUME NEW r, NEW f, NEW at \in BOOLEAN, GoodPlan(r, f, at), r.status \notin Terminal,
         NEW q \in PlanRow, NEW g \in [Steps -> StepRow],
         \A t \in Steps :
           IF f[t].status = "completed" THEN g[t] = f[t] ELSE g[t].status = "cancelled",
         q.announced = r.announced, q.status = "cancelled"
  PROVE  SoundPlan(q, g)
  <1>1. OrderOf(g)
    BY DEF GoodPlan, SoundPlan, OrderOf, Attempted
  <1>2. \E t \in Steps : f[t].status # "completed"
    BY DEF GoodPlan, SoundPlan, MirrorOf, RunsOf, Terminal
  <1>3. MirrorOf(q, g) /\ RunsOf(q, g)
    BY <1>2 DEF GoodPlan, SoundPlan, MirrorOf, RunsOf, Terminal
  <1>4. EndOf(q) /\ OwnOf(g)
    BY DEF GoodPlan, SoundPlan, EndOf, OwnOf, Terminal
  <1> QED
    BY <1>1, <1>3, <1>4 DEF GoodPlan, SoundPlan

LEMMA Weaken ==
  ASSUME NEW r, NEW f, NEW at \in BOOLEAN, GoodPlan(r, f, at), NEW to \in BOOLEAN, to => at
  PROVE  GoodPlan(r, f, to)
  BY DEF GoodPlan

LEMMA WeakenAll ==
  ASSUME NEW pl, NEW st, NEW at \in BOOLEAN, Good(pl, st, at), NEW to \in BOOLEAN, to => at
  PROVE  Good(pl, st, to)
  BY Weaken DEF Good

LEMMA SoundGood ==
  ASSUME NEW r, NEW f, SoundPlan(r, f), NEW to \in BOOLEAN
  PROVE  GoodPlan(r, f, to)
  BY DEF GoodPlan, SoundPlan

LEMMA SoundAll ==
  ASSUME NEW pl, NEW st, Sound(pl, st), NEW to \in BOOLEAN
  PROVE  Good(pl, st, to)
  BY SoundGood DEF Good, Sound

LEMMA AllSound ==
  ASSUME NEW pl, NEW st, NEW at \in BOOLEAN, at, Good(pl, st, at)
  PROVE  Sound(pl, st)
  BY DEF Good, Sound, GoodPlan, SoundPlan

(* An operation on plan p alone keeps the tables good if it does p's rows. *)
LEMMA OnePlan ==
  ASSUME NEW pl, NEW st, NEW at \in BOOLEAN, Good(pl, st, at), NEW p \in Plans,
         NEW plp \in [Plans -> PlanRow], NEW stp \in [Plans -> [Steps -> StepRow]],
         \A d \in Plans \ {p} : plp[d] = pl[d] /\ stp[d] = st[d],
         GoodPlan(plp[p], stp[p], at)
  PROVE  Good(plp, stp, at)
  BY DEF Good

LEMMA OneAttended ==
  ASSUME NEW pl, NEW st, Sound(pl, st), NEW p \in Plans,
         NEW plp \in [Plans -> PlanRow], NEW stp \in [Plans -> [Steps -> StepRow]],
         \A d \in Plans \ {p} : plp[d] = pl[d] /\ stp[d] = st[d],
         SoundPlan(plp[p], stp[p])
  PROVE  Sound(plp, stp)
  BY DEF Sound

-----------------------------------------------------------------------------
(* 3. The actions.                                                         *)
EnginesGood == EnginesType /\ EnginesInOrder /\ LiveServes /\ LiveIsLast /\ Unborn

(* While an engine is started, no other one holds a live handler.          *)
LEMMA OneLive ==
  ASSUME EnginesGood, NEW e \in Engines, engine[e].phase = "started",
         NEW d \in Engines, d # e
  PROVE  engine[d].claim.handler # "live"
  <1>1. d < e \/ e < d
    BY DEF Engines
  <1> QED
    BY <1>1 DEF EnginesGood, EnginesInOrder, LiveServes

(* What a claim changes, and that the tables stay good.                    *)
Claims(pl, st, p, s, plp, stp) ==
  /\ plp \in [Plans -> PlanRow] /\ stp \in [Plans -> [Steps -> StepRow]]
  /\ plp[p].status = "running" /\ plp[p].announced = pl[p].announced
  /\ stp[p][s].status = "running"
  /\ stp[p][s].attempts = st[p][s].attempts + 1
  /\ \A t \in Steps \ {s} : stp[p][t] = st[p][t]
  /\ \A d \in Plans \ {p} : plp[d] = pl[d] /\ stp[d] = st[d]

LEMMA ClaimRows ==
  ASSUME NEW pl \in [Plans -> PlanRow], NEW st \in [Plans -> [Steps -> StepRow]],
         NEW p \in Plans, NEW s \in Steps,
         NEW plp, plp = ClaimedPlans(pl, p), NEW stp, stp = ClaimedSteps(st, p, s)
  PROVE  Claims(pl, st, p, s, plp, stp)
  <1>1. /\ plp \in [Plans -> PlanRow]
        /\ plp[p].status = "running" /\ plp[p].announced = pl[p].announced
        /\ \A d \in Plans \ {p} : plp[d] = pl[d]
    BY DEF ClaimedPlans, PlanRow, PlanStatus
  <1> DEFINE row == [st[p][s] EXCEPT !.status = "running", !.next = 0,
                                     !.attempts = st[p][s].attempts + 1]
  <1>2. st[p][s] \in StepRow /\ st[p][s].attempts + 1 \in Nat
    BY DEF StepRow
  <1>3. 0 \in Time /\ "running" \in StepStatus
    BY EngineAssumption DEF Time, StepStatus
  <1>4. row \in StepRow
    BY <1>2, <1>3 DEF StepRow
  <1>5. stp[p][s] = row
    BY DEF ClaimedSteps
  <1>6. row.status = "running" /\ row.attempts = st[p][s].attempts + 1
    BY <1>2 DEF StepRow
  <1>7. /\ \A t \in Steps \ {s} : stp[p][t] = st[p][t]
        /\ \A d \in Plans \ {p} : stp[d] = st[d]
    BY DEF ClaimedSteps
  <1>8. stp \in [Plans -> [Steps -> StepRow]]
    <2>1. stp = [st EXCEPT ![p] = [st[p] EXCEPT ![s] = row]]
      BY DEF ClaimedSteps
    <2> HIDE DEF row
    <2>2. [st[p] EXCEPT ![s] = row] \in [Steps -> StepRow]
      BY <1>4
    <2> QED
      BY <2>1, <2>2
  <1> QED
    BY <1>1, <1>5, <1>6, <1>7, <1>8 DEF Claims

LEMMA ClaimKeeps ==
  ASSUME NEW pl, NEW st, Sound(pl, st), NEW p \in Plans, NEW s \in Steps,
         Claimable(pl, st, p, s), NEW plp, NEW stp, Claims(pl, st, p, s, plp, stp)
  PROVE  Sound(plp, stp)
  <1>1. SoundPlan(pl[p], st[p])
    BY DEF Good, Sound
  <1>2. /\ pl[p].status \in {"pending", "running"}
        /\ st[p][s].status \in {"pending", "retry_wait"}
        /\ \A t \in Steps : t < s => st[p][t].status = "completed"
    BY DEF Claimable
  <1>3. /\ plp \in [Plans -> PlanRow] /\ stp \in [Plans -> [Steps -> StepRow]]
        /\ plp[p] \in PlanRow /\ stp[p] \in [Steps -> StepRow]
        /\ plp[p].status = "running" /\ plp[p].announced = pl[p].announced
        /\ stp[p][s].status = "running"
        /\ \A t \in Steps \ {s} : stp[p][t] = st[p][t]
        /\ \A d \in Plans \ {p} : plp[d] = pl[d] /\ stp[d] = st[d]
    BY DEF Claims
  <1>4. SoundPlan(plp[p], stp[p])
    BY <1>1, <1>2, <1>3, ClaimGood
  <1> QED
    BY <1>3, <1>4, OneAttended

(* completeTaskStep() by the attempt that is running.                      *)
LEMMA CompleteKeeps ==
  ASSUME Sound(plan, step), NEW c \in Claim, ~Dropped(c),
         c.attempt = step[c.plan][c.step].attempts
  PROVE  /\ Sound(PlanAfterCompletion(c), CompletedSteps(c))
         /\ \A d \in Plans, t \in Steps :
              CompletedSteps(c)[d][t].attempts = step[d][t].attempts
  <1> DEFINE p == c.plan
             s == c.step
             plp == PlanAfterCompletion(c)
             stp == CompletedSteps(c)
             row == [step[p][s] EXCEPT !.status = "completed", !.doneBy = c.attempt]
  <1>1. p \in Plans /\ s \in Steps /\ c.attempt \in Nat
    BY DEF Claim
  <1>2. plan \in [Plans -> PlanRow] /\ step \in [Plans -> [Steps -> StepRow]]
    BY DEF Good, Sound
  <1>3. /\ step[p][s] \in StepRow /\ step[p][s].status = "running"
        /\ plan[p] \in PlanRow /\ plan[p].announced + 1 \in Nat
    BY <1>1, <1>2 DEF Dropped, PlanRow
  <1>4. row \in StepRow /\ row.status = "completed"
        /\ row.doneBy = c.attempt /\ row.attempts = step[p][s].attempts
    BY <1>1, <1>3 DEF StepRow, StepStatus
  <1>5. stp[p][s] = row
    BY <1>1, <1>2 DEF CompletedSteps
  <1>6. /\ \A t \in Steps \ {s} : stp[p][t] = step[p][t]
        /\ \A d \in Plans \ {p} : stp[d] = step[d]
    BY <1>1, <1>2 DEF CompletedSteps
  <1>7. stp \in [Plans -> [Steps -> StepRow]]
    BY <1>1, <1>2, <1>4 DEF CompletedSteps
  <1>8. plp \in [Plans -> PlanRow]
    BY <1>1, <1>2, <1>3 DEF PlanAfterCompletion, PlanRow, PlanStatus
  <1>9. /\ \A d \in Plans \ {p} : plp[d] = plan[d]
        /\ IF \A t \in Steps \ {s} : step[p][t].status = "completed"
           THEN plp[p].status = "completed" /\ plp[p].announced = plan[p].announced + 1
           ELSE plp[p].status = "running" /\ plp[p].announced = plan[p].announced
    BY <1>1, <1>2, <1>3 DEF PlanAfterCompletion, PlanRow
  <1> HIDE DEF row, plp, stp
  <1>10. SoundPlan(plp[p], stp[p])
    <2>1. plp[p] \in PlanRow /\ stp[p] \in [Steps -> StepRow] /\ SoundPlan(plan[p], step[p])
      BY <1>1, <1>7, <1>8 DEF Good, Sound
    <2> HIDE DEF p, s
    <2> QED
      BY <1>1, <1>3, <1>4, <1>5, <1>6, <1>9, <2>1, CompleteGood DEF p, s
  <1>11. Sound(plp, stp)
    BY <1>1, <1>6, <1>7, <1>8, <1>9, <1>10, OneAttended
  <1>12. \A d \in Plans, t \in Steps : stp[d][t].attempts = step[d][t].attempts
    BY <1>1, <1>4, <1>5, <1>6
  <1> QED
    BY <1>11, <1>12 DEF plp, stp

(* failTaskStep(): another attempt is granted, or the plan fails.          *)
LEMMA FailKeeps ==
  ASSUME now \in Time, Sound(plan, step), NEW c \in Claim, NEW out, ~Dropped(c)
  PROVE  /\ Sound(PlanAfterFailure(c, out), FailedSteps(c, out))
         /\ \A d \in Plans, t \in Steps :
              FailedSteps(c, out)[d][t].attempts = step[d][t].attempts
  <1> DEFINE p == c.plan
             s == c.step
             plp == PlanAfterFailure(c, out)
             stp == FailedSteps(c, out)
             retried == [step[p][s] EXCEPT !.status = "retry_wait", !.next = RetryAt(c.attempt)]
             failed == [step[p][s] EXCEPT !.status = "failed", !.next = 0]
  <1>1. p \in Plans /\ s \in Steps
    BY DEF Claim
  <1>2. plan \in [Plans -> PlanRow] /\ step \in [Plans -> [Steps -> StepRow]]
    BY DEF Good, Sound
  <1>3. /\ step[p][s] \in StepRow /\ step[p][s].status = "running"
        /\ plan[p] \in PlanRow /\ plan[p].announced + 1 \in Nat
    BY <1>1, <1>2 DEF Dropped, PlanRow
  <1>t. RetryAt(c.attempt) \in Time /\ 0 \in Time
    BY EngineAssumption DEF RetryAt, Time
  <1>4. /\ retried \in StepRow /\ retried.status = "retry_wait"
        /\ retried.attempts = step[p][s].attempts
        /\ failed \in StepRow /\ failed.status = "failed"
        /\ failed.attempts = step[p][s].attempts
    <2> HIDE DEF Time
    <2> QED
      BY <1>t, <1>3 DEF StepRow, StepStatus
  <1>5. stp[p][s] = IF MayRetry(c, out) THEN retried ELSE failed
    BY <1>1, <1>2 DEF FailedSteps
  <1>6. /\ \A t \in Steps \ {s} : stp[p][t] = step[p][t]
        /\ \A d \in Plans \ {p} : stp[d] = step[d]
    BY <1>1, <1>2 DEF FailedSteps
  <1>7. stp \in [Plans -> [Steps -> StepRow]]
    <2> DEFINE row == IF MayRetry(c, out) THEN retried ELSE failed
    <2>1. stp = [step EXCEPT ![p] = [step[p] EXCEPT ![s] = row]]
      BY <1>1, <1>2 DEF FailedSteps
    <2>2. row \in StepRow
      BY <1>4
    <2> HIDE DEF row
    <2>3. [step[p] EXCEPT ![s] = row] \in [Steps -> StepRow]
      BY <1>1, <1>2, <2>2
    <2> QED
      BY <1>1, <1>2, <2>1, <2>3
  <1>8. plp \in [Plans -> PlanRow]
    BY <1>1, <1>2, <1>3 DEF PlanAfterFailure, PlanRow, PlanStatus
  <1>9. /\ \A d \in Plans \ {p} : plp[d] = plan[d]
        /\ IF MayRetry(c, out)
           THEN plp[p].status = "running" /\ plp[p].announced = plan[p].announced
           ELSE plp[p].status = "failed" /\ plp[p].announced = plan[p].announced + 1
    BY <1>1, <1>2, <1>3 DEF PlanAfterFailure, PlanRow
  <1> HIDE DEF retried, failed, plp, stp
  <1>10. SoundPlan(plp[p], stp[p])
    <2>1. plp[p] \in PlanRow /\ stp[p] \in [Steps -> StepRow] /\ SoundPlan(plan[p], step[p])
      BY <1>1, <1>7, <1>8 DEF Good, Sound
    <2>2. \/ /\ stp[p][s].status = "retry_wait"
             /\ plp[p].status = "running" /\ plp[p].announced = plan[p].announced
          \/ /\ stp[p][s].status = "failed"
             /\ plp[p].status = "failed" /\ plp[p].announced = plan[p].announced + 1
      BY <1>4, <1>5, <1>9
    <2> HIDE DEF p, s
    <2> QED
      BY <1>1, <1>3, <1>6, <2>1, <2>2, FailGood DEF p, s
  <1>11. Sound(plp, stp)
    BY <1>1, <1>6, <1>7, <1>8, <1>9, <1>10, OneAttended
  <1>12. \A d \in Plans, t \in Steps : stp[d][t].attempts = step[d][t].attempts
    BY <1>1, <1>4, <1>5, <1>6
  <1> QED
    BY <1>11, <1>12 DEF plp, stp

LEMMA IdleRows ==
  ASSUME now \in Time, NEW e \in Engines, NEW pl, NEW st, NEW en \in [Engines -> EngineRow]
  PROVE  /\ Idle(e, pl, st, en) \in [Engines -> EngineRow]
         /\ \A d \in Engines : Idle(e, pl, st, en)[d].phase = en[d].phase
         /\ Idle(e, pl, st, en)[e].claim = NoClaim
         /\ \A d \in Engines \ {e} : Idle(e, pl, st, en)[d].claim = en[d].claim
  <1> DEFINE wake == LET t == CHOOSE t \in Time : EarliestRetry(pl, st, t)
                     IN IF t <= now THEN now ELSE t
  <1>1. Retries(pl, st) # {} => wake \in 0 .. Never
    <2>1. SUFFICES ASSUME Retries(pl, st) # {}
                   PROVE  wake \in 0 .. Never
      OBVIOUS
    <2>2. (CHOOSE t \in Time : EarliestRetry(pl, st, t)) \in Time
      BY <2>1, WakeType
    <2>3. wake \in Time
      BY <2>2
    <2> HIDE DEF wake
    <2> QED
      BY <2>3, EngineAssumption DEF Time, Never
  <1> HIDE DEF wake
  <1> DEFINE idle == [en EXCEPT ![e].claim = NoClaim]
             awake == [en EXCEPT ![e].claim = NoClaim, ![e].timer = wake]
  <1>2. Idle(e, pl, st, en) = IF Serving(e) /\ Retries(pl, st) # {} THEN awake ELSE idle
    BY DEF Idle, wake
  <1>3. en[e] \in EngineRow
    OBVIOUS
  <1>4. /\ idle \in [Engines -> EngineRow]
        /\ idle[e].claim = NoClaim
        /\ \A d \in Engines : idle[d].phase = en[d].phase
        /\ \A d \in Engines \ {e} : idle[d].claim = en[d].claim
    <2> HIDE DEF NoClaim, Claim, Never
    <2> QED
      BY <1>3 DEF EngineRow
  <1>5. ASSUME wake \in 0 .. Never
        PROVE  /\ awake \in [Engines -> EngineRow]
               /\ awake[e].claim = NoClaim
               /\ \A d \in Engines : awake[d].phase = en[d].phase
               /\ \A d \in Engines \ {e} : awake[d].claim = en[d].claim
    <2>1. [en[e] EXCEPT !.claim = NoClaim, !.timer = wake] \in EngineRow
      BY <1>3, <1>5 DEF EngineRow
    <2>2. awake[e] = [en[e] EXCEPT !.claim = NoClaim, !.timer = wake]
      OBVIOUS
    <2>3. awake \in [Engines -> EngineRow] /\ \A d \in Engines \ {e} : awake[d] = en[d]
      BY <2>1
    <2>4. awake[e].claim = NoClaim /\ awake[e].phase = en[e].phase
      BY <1>3, <2>2 DEF EngineRow
    <2> QED
      BY <2>3, <2>4
  <1> HIDE DEF idle, awake
  <1> QED
    BY <1>1, <1>2, <1>4, <1>5

(* The loop, wherever it stops next.                                       *)
LEMMA LoopKeeps ==
  ASSUME now \in Time, EnginesGood, NEW e \in Engines,
         NEW pl, NEW st, Sound(pl, st), NEW en \in [Engines -> EngineRow],
         \A d \in Engines : en[d].phase = engine[d].phase /\ en[d].claim = engine[d].claim,
         \A d \in Plans, t \in Steps : st[d][t].attempts = step[d][t].attempts,
         Loop(e, pl, st, en)
  PROVE  EnginesGood' /\ Sound(plan', step')
  <1>0. pl \in [Plans -> PlanRow] /\ st \in [Plans -> [Steps -> StepRow]]
    BY DEF Good, Sound
  <1>n. \A d \in Engines : engine[d].claim.handler = "live" => engine[d].claim \in Claim
    BY DEF EnginesGood, EnginesType, EngineRow, NoClaim
  <1>1. CASE engine[e].phase = "started" /\
             \E p \in Plans, s \in Steps :
               /\ FirstClaimable(pl, st, p, s)
               /\ plan' = ClaimedPlans(pl, p) /\ step' = ClaimedSteps(st, p, s)
               /\ engine' = [en EXCEPT ![e].claim =
                               [plan |-> p, step |-> s, attempt |-> st[p][s].attempts + 1,
                                handler |-> "live"]]
    <2>1. PICK p \in Plans, s \in Steps :
               /\ FirstClaimable(pl, st, p, s)
               /\ plan' = ClaimedPlans(pl, p) /\ step' = ClaimedSteps(st, p, s)
               /\ engine' = [en EXCEPT ![e].claim =
                               [plan |-> p, step |-> s, attempt |-> st[p][s].attempts + 1,
                                handler |-> "live"]]
      BY <1>1
    <2> DEFINE c == [plan |-> p, step |-> s, attempt |-> st[p][s].attempts + 1,
                     handler |-> "live"]
    <2>2. Claims(pl, st, p, s, plan', step')
      <3>1. plan' = ClaimedPlans(pl, p) /\ step' = ClaimedSteps(st, p, s)
        BY <2>1
      <3> QED
        BY <1>0, <3>1, ClaimRows
    <2>3. Sound(plan', step')
      BY <2>1, <2>2, ClaimKeeps DEF FirstClaimable
    <2>4. c \in Claim
      BY <1>0 DEF Claim, StepRow
    <2>5. /\ engine' \in [Engines -> EngineRow]
          /\ engine'[e].claim = c
          /\ \A d \in Engines : engine'[d].phase = engine[d].phase
          /\ \A d \in Engines \ {e} : engine'[d].claim = engine[d].claim
      <3>1. en[e] \in EngineRow /\ engine' = [en EXCEPT ![e].claim = c]
        BY <2>1
      <3> HIDE DEF c
      <3> QED
        BY <2>4, <3>1 DEF EngineRow
    <2>6. \A d \in Engines \ {e} : engine[d].claim.handler # "live"
      BY <1>1, OneLive
    <2>7. EnginesInOrder' /\ LiveServes' /\ Unborn'
      BY <1>1, <2>5, <2>6 DEF EnginesGood, EnginesInOrder, LiveServes, Unborn
    <2>8. LiveIsLast'
      BY <2>2, <2>5, <2>6 DEF Claims, LiveIsLast
    <2> QED
      BY <2>3, <2>5, <2>7, <2>8 DEF EnginesGood, EnginesType
  <1>2. CASE plan' = pl /\ step' = st /\ engine' = Idle(e, pl, st, en)
    <2>1. /\ engine' \in [Engines -> EngineRow]
          /\ \A d \in Engines : engine'[d].phase = engine[d].phase
          /\ engine'[e].claim = NoClaim
          /\ \A d \in Engines \ {e} : engine'[d].claim = engine[d].claim
      BY <1>2, IdleRows
    <2>2. EnginesInOrder' /\ LiveServes' /\ Unborn'
      BY <2>1 DEF EnginesGood, EnginesInOrder, LiveServes, Unborn, NoClaim
    <2>3. LiveIsLast'
      BY <1>2, <1>n, <2>1 DEF EnginesGood, LiveIsLast, NoClaim, Claim
    <2> QED
      BY <1>2, <2>1, <2>2, <2>3 DEF EnginesGood, EnginesType
  <1> QED
    BY <1>1, <1>2 DEF Loop

(* What the other actions do to the engines: nothing, or less.             *)
SameAttempts(st) ==
  \A d \in Plans, t \in Steps : st[d][t].attempts = step[d][t].attempts

Calmer(en) ==
  /\ en \in [Engines -> EngineRow]
  /\ \A d \in Engines :
       /\ en[d].phase = engine[d].phase
       /\ en[d].claim = engine[d].claim \/ en[d].claim.handler # "live"
       /\ en[d].claim # NoClaim => Draining(d)

LEMMA CalmerKeeps ==
  ASSUME EnginesGood, Calmer(engine'), SameAttempts(step')
  PROVE  EnginesGood'
  <1>1. EnginesType' /\ EnginesInOrder' /\ LiveServes' /\ Unborn'
    BY DEF EnginesGood, EnginesType, EnginesInOrder, LiveServes, Unborn, Calmer, Draining
  <1>2. \A d \in Engines : engine[d].claim.handler = "live" => engine[d].claim \in Claim
    BY DEF EnginesGood, EnginesType, EngineRow, NoClaim
  <1>3. LiveIsLast'
    BY <1>2 DEF EnginesGood, LiveIsLast, Calmer, SameAttempts, Claim
  <1> QED
    BY <1>1, <1>3 DEF EnginesGood

(* While nobody comes to attend who did not, what held still holds.        *)
LEMMA CalmerInv ==
  ASSUME IInv, RestType', Calmer(engine'), SameAttempts(step'), Good(plan', step', Attended)
  PROVE  IInv'
  <1>1. EnginesGood'
    BY CalmerKeeps DEF IInv, EnginesGood
  <1>2. Attended' => Attended
    BY DEF Calmer, Attended, Draining
  <1>3. Attended \in BOOLEAN /\ Attended' \in BOOLEAN
    BY DEF Attended
  <1>4. Good(plan', step', Attended')
    BY <1>2, <1>3, WeakenAll
  <1> QED
    BY <1>1, <1>4 DEF IInv, EnginesGood

(* While an engine works or awaits a handler, the tables say so.           *)
LEMMA AttendedGood ==
  ASSUME IInv, NEW e \in Engines, engine[e].phase = "started" \/ Draining(e)
  PROVE  Sound(plan, step)
  <1>1. Attended /\ Attended \in BOOLEAN
    BY DEF Attended
  <1> QED
    BY <1>1, AllSound DEF IInv

LEMMA GoodInv ==
  ASSUME RestType', EnginesGood', Sound(plan', step')
  PROVE  IInv'
  <1>1. Attended' \in BOOLEAN
    BY DEF Attended
  <1>2. Good(plan', step', Attended')
    BY <1>1, SoundAll
  <1> QED
    BY <1>2 DEF IInv, EnginesGood

LEMMA SameIsCalmer ==
  ASSUME EnginesGood
  PROVE  Calmer(engine) /\ SameAttempts(step)
  BY DEF EnginesGood, EnginesType, Calmer, Draining, SameAttempts

(* schedule() and the other changes of a timer or of the availability.     *)
LEMMA TimerIsCalmer ==
  ASSUME EnginesGood, NEW e \in Engines, NEW t \in 0 .. Never, NEW b \in BOOLEAN
  PROVE  /\ Calmer([engine EXCEPT ![e].timer = t, ![e].threw = b])
         /\ Calmer([engine EXCEPT ![e].available = b, ![e].timer = t])
         /\ Calmer(Scheduled(e, t))
         /\ \A d \in Engines :
              [engine EXCEPT ![e].timer = t, ![e].threw = b][d].claim = engine[d].claim
         /\ \A d \in Engines :
              [engine EXCEPT ![e].available = b, ![e].timer = t][d].claim = engine[d].claim
  <1> HIDE DEF Never, Claim, NoClaim
  <1>1. engine \in [Engines -> EngineRow] /\ engine[e] \in EngineRow
    BY DEF EnginesGood, EnginesType
  <1>2. /\ Calmer([engine EXCEPT ![e].timer = t, ![e].threw = b])
        /\ \A d \in Engines :
             [engine EXCEPT ![e].timer = t, ![e].threw = b][d].claim = engine[d].claim
    BY <1>1 DEF EngineRow, Calmer, Draining
  <1>3. /\ Calmer([engine EXCEPT ![e].available = b, ![e].timer = t])
        /\ \A d \in Engines :
             [engine EXCEPT ![e].available = b, ![e].timer = t][d].claim = engine[d].claim
    BY <1>1 DEF EngineRow, Calmer, Draining
  <1>4. Calmer(engine)
    BY SameIsCalmer
  <1>5. Calmer([engine EXCEPT ![e].timer = t])
    BY <1>1 DEF EngineRow, Calmer, Draining
  <1> QED
    BY <1>2, <1>3, <1>4, <1>5 DEF Scheduled

(* An aborted handler is no longer live.                                   *)
LEMMA AbortIsCalmer ==
  ASSUME EnginesGood, NEW e \in Engines, NEW en, en \in [Engines -> EngineRow],
         \A d \in Engines : en[d].claim = engine[d].claim
  PROVE  /\ Aborted(e, en) \in [Engines -> EngineRow]
         /\ \A d \in Engines : Aborted(e, en)[d].phase = en[d].phase
         /\ \A d \in Engines \ {e} : Aborted(e, en)[d].claim = engine[d].claim
         /\ Aborted(e, en)[e].claim.handler # "live"
         /\ Aborted(e, en)[e].claim # NoClaim => Draining(e)
  <1>1. CASE Draining(e)
    <2> DEFINE c == [en[e].claim EXCEPT !.handler = "aborted"]
    <2>1. en[e].claim \in Claim
      BY <1>1 DEF Draining, EngineRow
    <2>2. c \in Claim /\ c.handler = "aborted"
      BY <2>1 DEF Claim
    <2>3. Aborted(e, en) = [en EXCEPT ![e].claim = c]
      BY <1>1 DEF Aborted
    <2> HIDE DEF c
    <2>4. en[e] \in EngineRow /\ c.handler # "live"
      BY <2>2
    <2> HIDE DEF Claim, NoClaim
    <2>5. /\ Aborted(e, en) \in [Engines -> EngineRow] /\ Aborted(e, en)[e].claim = c
          /\ \A d \in Engines : Aborted(e, en)[d].phase = en[d].phase
          /\ \A d \in Engines \ {e} : Aborted(e, en)[d].claim = engine[d].claim
      BY <2>2, <2>3, <2>4 DEF EngineRow
    <2> QED
      BY <1>1, <2>4, <2>5
  <1>2. CASE ~Draining(e)
    BY <1>2 DEF Draining, NoClaim, Aborted
  <1> QED
    BY <1>1, <1>2

(* What the other actions do to the tables.                                *)
LEMMA PutBackRow ==
  ASSUME NEW f \in [Steps -> StepRow]
  PROVE  /\ PutBack(f) \in [Steps -> StepRow]
         /\ \A t \in Steps :
              IF f[t].status = "running" THEN PutBack(f)[t].status = "pending"
              ELSE PutBack(f)[t] = f[t]
         /\ \A t \in Steps : PutBack(f)[t].attempts = f[t].attempts
  <1>1. 0 \in Time
    BY EngineAssumption DEF Time
  <1>2. ASSUME NEW t \in Steps
        PROVE  LET row == [f[t] EXCEPT !.status = "pending", !.next = 0]
               IN /\ row \in StepRow /\ row.status = "pending"
                  /\ row.attempts = f[t].attempts
    BY <1>1, f[t] \in StepRow DEF StepRow, StepStatus
  <1> QED
    BY <1>2 DEF PutBack

LEMMA PauseKeeps ==
  ASSUME NEW at \in BOOLEAN, Good(plan, step, at), NEW p \in Plans,
         plan[p].status \in {"pending", "running"}, NEW m \in Mission
  PROVE  /\ Good([plan EXCEPT ![p].status = "paused", ![p].mission = m], PausedSteps(p), at)
         /\ SameAttempts(PausedSteps(p))
  <1> DEFINE plp == [plan EXCEPT ![p].status = "paused", ![p].mission = m]
             stp == PausedSteps(p)
  <1>1. plan \in [Plans -> PlanRow] /\ step \in [Plans -> [Steps -> StepRow]]
        /\ GoodPlan(plan[p], step[p], at)
    BY DEF Good, Sound
  <1>2. /\ plp \in [Plans -> PlanRow]
        /\ plp[p].status = "paused" /\ plp[p].announced = plan[p].announced
        /\ \A d \in Plans \ {p} : plp[d] = plan[d]
    BY <1>1 DEF PlanRow, PlanStatus
  <1>3. /\ stp \in [Plans -> [Steps -> StepRow]]
        /\ stp[p] = PutBack(step[p])
        /\ \A d \in Plans \ {p} : stp[d] = step[d]
    BY <1>1, PutBackRow DEF PausedSteps
  <1> HIDE DEF plp, stp
  <1>4. GoodPlan(plp[p], stp[p], at)
    <2>1. plp[p] \in PlanRow /\ stp[p] \in [Steps -> StepRow]
      BY <1>2, <1>3
    <2>2. \A t \in Steps : IF step[p][t].status = "running" THEN stp[p][t].status = "pending"
                           ELSE stp[p][t] = step[p][t]
      BY <1>1, <1>3, PutBackRow
    <2> DEFINE r == plan[p]
               f == step[p]
               q == plp[p]
               g == stp[p]
    <2>a. /\ GoodPlan(r, f, at) /\ r.status \in {"pending", "running"}
          /\ q.status = "paused" /\ q.announced = r.announced
      BY <1>1, <1>2
    <2> HIDE DEF r, f, q, g
    <2>b. SoundPlan(q, g)
      BY <2>1, <2>2, <2>a, PutBackGood DEF r, f, q, g
    <2>3. SoundPlan(plp[p], stp[p])
      BY <2>b DEF q, g
    <2> QED
      BY <2>3, SoundGood
  <1>5. Good(plp, stp, at)
    BY <1>2, <1>3, <1>4, OnePlan
  <1>6. SameAttempts(stp)
    BY <1>1, <1>3, PutBackRow DEF SameAttempts
  <1> QED
    BY <1>5, <1>6 DEF plp, stp

(* A pause that is cut short marks the plan and leaves its steps: while    *)
(* nobody attends, that is as good.                                        *)
LEMMA HalfPauseGood ==
  ASSUME NEW at \in BOOLEAN, Good(plan, step, at), NEW p \in Plans,
         plan[p].status \in {"pending", "running"}
  PROVE  Good([plan EXCEPT ![p].status = "paused"], step, FALSE)
  <1> DEFINE plp == [plan EXCEPT ![p].status = "paused"]
  <1>1. /\ plan \in [Plans -> PlanRow] /\ step \in [Plans -> [Steps -> StepRow]]
        /\ Good(plan, step, FALSE) /\ GoodPlan(plan[p], step[p], FALSE)
    BY WeakenAll DEF Good
  <1>2. /\ plp \in [Plans -> PlanRow]
        /\ plp[p].status = "paused" /\ plp[p].announced = plan[p].announced
        /\ \A d \in Plans \ {p} : plp[d] = plan[d]
    BY <1>1 DEF PlanRow, PlanStatus
  <1> HIDE DEF plp
  <1>3. GoodPlan(plp[p], step[p], FALSE)
    BY <1>1, <1>2, plp[p] \in PlanRow DEF GoodPlan, MirrorOf, EndOf
  <1>4. Good(plp, step, FALSE)
    BY <1>1, <1>2, <1>3, OnePlan
  <1> QED
    BY <1>4 DEF plp

LEMMA OpenKeeps ==
  ASSUME NEW at \in BOOLEAN, Good(plan, step, at), NEW p \in Plans,
         plan[p].status \in {"none", "paused"}, NEW m \in Mission
  PROVE  Good([plan EXCEPT ![p].status = "pending", ![p].mission = m], step, at)
  <1> DEFINE plp == [plan EXCEPT ![p].status = "pending", ![p].mission = m]
  <1>1. plan \in [Plans -> PlanRow] /\ step \in [Plans -> [Steps -> StepRow]]
        /\ GoodPlan(plan[p], step[p], at)
    BY DEF Good
  <1>2. /\ plp \in [Plans -> PlanRow]
        /\ plp[p].status = "pending" /\ plp[p].announced = plan[p].announced
        /\ \A d \in Plans \ {p} : plp[d] = plan[d]
    BY <1>1 DEF PlanRow, PlanStatus
  <1> HIDE DEF plp
  <1>3. GoodPlan(plp[p], step[p], at)
    BY <1>1, <1>2, plp[p] \in PlanRow, OpenGood
  <1>4. Good(plp, step, at)
    BY <1>1, <1>2, <1>3, OnePlan
  <1> QED
    BY <1>4 DEF plp

LEMMA CancelKeeps ==
  ASSUME NEW at \in BOOLEAN, Good(plan, step, at), NEW p \in Plans,
         plan[p].status \notin Terminal, NEW m \in Mission
  PROVE  /\ Good([plan EXCEPT ![p].status = "cancelled", ![p].mission = m], CancelledSteps(p), at)
         /\ SameAttempts(CancelledSteps(p))
  <1> DEFINE plp == [plan EXCEPT ![p].status = "cancelled", ![p].mission = m]
             stp == CancelledSteps(p)
             row == [s \in Steps |->
                       IF step[p][s].status = "completed" THEN step[p][s]
                       ELSE [step[p][s] EXCEPT !.status = "cancelled", !.next = 0]]
  <1>1. plan \in [Plans -> PlanRow] /\ step \in [Plans -> [Steps -> StepRow]]
        /\ GoodPlan(plan[p], step[p], at)
    BY DEF Good, Sound
  <1>2. /\ plp \in [Plans -> PlanRow]
        /\ plp[p].status = "cancelled" /\ plp[p].announced = plan[p].announced
        /\ \A d \in Plans \ {p} : plp[d] = plan[d]
    BY <1>1 DEF PlanRow, PlanStatus
  <1>3. /\ row \in [Steps -> StepRow]
        /\ \A t \in Steps : IF step[p][t].status = "completed" THEN row[t] = step[p][t]
                            ELSE row[t].status = "cancelled"
        /\ \A t \in Steps : row[t].attempts = step[p][t].attempts
    <2>1. 0 \in Time
      BY EngineAssumption DEF Time
    <2>2. ASSUME NEW t \in Steps
          PROVE  LET r == [step[p][t] EXCEPT !.status = "cancelled", !.next = 0]
                 IN /\ r \in StepRow /\ r.status = "cancelled"
                    /\ r.attempts = step[p][t].attempts
      BY <1>1, <2>1, step[p][t] \in StepRow DEF StepRow, StepStatus
    <2>3. \A t \in Steps : step[p][t] \in StepRow
      BY <1>1
    <2> QED
      BY <2>2, <2>3
  <1>4. stp = [step EXCEPT ![p] = row]
    BY DEF CancelledSteps
  <1> HIDE DEF plp, stp, row
  <1>5. /\ stp \in [Plans -> [Steps -> StepRow]]
        /\ stp[p] = row
        /\ \A d \in Plans \ {p} : stp[d] = step[d]
    BY <1>1, <1>3, <1>4
  <1>6. GoodPlan(plp[p], stp[p], at)
    <2>1. plp[p] \in PlanRow /\ stp[p] \in [Steps -> StepRow]
      BY <1>2, <1>5
    <2>2. \A t \in Steps : IF step[p][t].status = "completed" THEN stp[p][t] = step[p][t]
                           ELSE stp[p][t].status = "cancelled"
      BY <1>3, <1>5
    <2>3. /\ GoodPlan(plan[p], step[p], at) /\ plan[p].status \notin Terminal
          /\ plp[p].announced = plan[p].announced /\ plp[p].status = "cancelled"
      BY <1>1, <1>2
    <2> DEFINE r == plan[p]
               f == step[p]
               q == plp[p]
               g == stp[p]
    <2> HIDE DEF r, f, q, g
    <2>4. SoundPlan(q, g)
      BY <2>1, <2>2, <2>3, CancelGood DEF r, f, q, g
    <2> QED
      BY <2>4, SoundGood DEF q, g
  <1>7. Good(plp, stp, at)
    BY <1>2, <1>5, <1>6, OnePlan
  <1>8. SameAttempts(stp)
    BY <1>1, <1>3, <1>5 DEF SameAttempts
  <1> QED
    BY <1>7, <1>8 DEF plp, stp

LEMMA ReconcileKeeps ==
  ASSUME NEW at \in BOOLEAN, Good(plan, step, at)
  PROVE  Sound(ReconciledPlans, ReconciledSteps) /\ SameAttempts(ReconciledSteps)
  <1>1. plan \in [Plans -> PlanRow] /\ step \in [Plans -> [Steps -> StepRow]]
        /\ \A p \in Plans : GoodPlan(plan[p], step[p], at)
    BY DEF Good, Sound
  <1>2. ASSUME NEW p \in Plans
        PROVE  /\ ReconciledPlans[p] \in PlanRow
               /\ ReconciledPlans[p].announced = plan[p].announced
               /\ ReconciledPlans[p].status =
                    IF plan[p].status = "running" THEN "pending" ELSE plan[p].status
    BY <1>1, plan[p] \in PlanRow DEF ReconciledPlans, PlanRow, PlanStatus
  <1>3. ASSUME NEW p \in Plans
        PROVE  /\ ReconciledSteps[p] \in [Steps -> StepRow]
               /\ \A t \in Steps :
                    IF step[p][t].status = "running" THEN ReconciledSteps[p][t].status = "pending"
                    ELSE ReconciledSteps[p][t] = step[p][t]
               /\ \A t \in Steps : ReconciledSteps[p][t].attempts = step[p][t].attempts
    BY <1>1, PutBackRow DEF ReconciledSteps
  <1>4. ASSUME NEW p \in Plans
        PROVE  SoundPlan(ReconciledPlans[p], ReconciledSteps[p])
    <2> DEFINE q == ReconciledPlans[p]
               g == ReconciledSteps[p]
    <2>1. /\ q \in PlanRow /\ q.announced = plan[p].announced
          /\ \/ plan[p].status \in {"pending", "running"} /\ q.status \in {"pending", "paused"}
             \/ plan[p].status # "running" /\ q.status = plan[p].status
      BY <1>2
    <2>2. /\ g \in [Steps -> StepRow]
          /\ \A t \in Steps : IF step[p][t].status = "running" THEN g[t].status = "pending"
                              ELSE g[t] = step[p][t]
      BY <1>3
    <2> HIDE DEF q, g
    <2>3. SoundPlan(q, g)
      BY <1>1, <2>1, <2>2, PutBackGood
    <2> QED
      BY <2>3 DEF q, g
  <1>5. ReconciledPlans \in [Plans -> PlanRow] /\ ReconciledSteps \in [Plans -> [Steps -> StepRow]]
    BY <1>2, <1>3 DEF ReconciledPlans, ReconciledSteps
  <1> QED
    BY <1>3, <1>4, <1>5 DEF Good, Sound, SameAttempts

LEMMA InitIInv == Init => IInv
  <1> SUFFICES ASSUME Init
               PROVE  IInv
    OBVIOUS
  <1>1. RestType
    BY EngineAssumption DEF Init, RestType, Time
  <1>2. EnginesType
    <2>1. Never \in 0 .. Never
      BY EngineAssumption DEF Never
    <2> HIDE DEF Never, Claim, NoClaim
    <2> QED
      BY <2>1 DEF Init, EnginesType, EngineRow
  <1>3. EnginesInOrder /\ LiveServes /\ LiveIsLast /\ Unborn
    BY DEF Init, Unborn, EnginesInOrder, LiveServes, LiveIsLast, NoClaim
  <1>4. Good(plan, step, Attended)
    <2>1. 1 \in Steps /\ 0 \in Time
      BY EngineAssumption DEF Steps, Time
    <2>2. plan \in [Plans -> PlanRow] /\ step \in [Plans -> [Steps -> StepRow]]
      BY <2>1 DEF Init, PlanRow, StepRow, PlanStatus, StepStatus, Mission
    <2>3. ASSUME NEW p \in Plans
          PROVE  GoodPlan(plan[p], step[p], Attended)
      <3>1. /\ plan[p].status = "none" /\ plan[p].announced = 0
            /\ \A t \in Steps : step[p][t].status = "pending"
        BY DEF Init
      <3>2. OrderOf(step[p]) /\ OwnOf(step[p]) /\ EndOf(plan[p])
        BY <3>1 DEF OrderOf, OwnOf, EndOf, Attempted
      <3>3. MirrorOf(plan[p], step[p]) /\ RunsOf(plan[p], step[p])
        BY <2>1, <3>1 DEF MirrorOf, RunsOf
      <3>4. plan[p] \in PlanRow /\ step[p] \in [Steps -> StepRow]
        BY <2>2
      <3> QED
        BY <3>2, <3>3, <3>4 DEF GoodPlan
    <2> QED
      BY <2>2, <2>3 DEF Good
  <1> QED
    BY <1>1, <1>2, <1>3, <1>4 DEF IInv

(* The actions that go on with the drain loop.                             *)
LEMMA WakeKeeps ==
  ASSUME IInv, NEW e \in Engines, WakeFires(e)
  PROVE  IInv'
  <1> DEFINE fired == [engine EXCEPT ![e].timer = Never, ![e].threw = FALSE]
  <1>1. now \in Time /\ EnginesGood /\ RestType'
    BY DEF IInv, RestType, EnginesGood, WakeFires
  <1>2. Never \in 0 .. Never
    BY EngineAssumption DEF Never
  <1>3. Calmer(fired) /\ \A d \in Engines : fired[d].claim = engine[d].claim
    BY <1>1, <1>2, TimerIsCalmer
  <1> HIDE DEF fired
  <1>4. CASE Draining(e) \/ ~Serving(e)
    <2>1. engine' = fired /\ plan' = plan /\ step' = step
      BY <1>4 DEF WakeFires, fired
    <2> QED
      BY <1>1, <1>3, <2>1, SameIsCalmer, CalmerInv DEF IInv
  <1>5. CASE ~(Draining(e) \/ ~Serving(e))
    <2>1. Loop(e, plan, step, fired)
      BY <1>5 DEF WakeFires, fired
    <2>2. fired \in [Engines -> EngineRow] /\ \A d \in Engines : fired[d].phase = engine[d].phase
      BY <1>3 DEF Calmer
    <2>3. Sound(plan, step)
      BY <1>5, AttendedGood DEF Serving
    <2>4. EnginesGood' /\ Sound(plan', step')
      BY <1>1, <1>3, <2>1, <2>2, <2>3, LoopKeeps
    <2> QED
      BY <1>1, <2>4, GoodInv
  <1> QED
    BY <1>4, <1>5

LEMMA ReturnKeeps ==
  ASSUME IInv, NEW e \in Engines, HandlerReturns(e)
  PROVE  IInv'
  <1> DEFINE c == engine[e].claim
  <1>1. /\ now \in Time /\ EnginesGood /\ Sound(plan, step) /\ RestType'
        /\ engine \in [Engines -> EngineRow]
    BY AttendedGood DEF IInv, RestType, EnginesGood, EnginesType, HandlerReturns
  <1>2. c \in Claim
    BY <1>1 DEF HandlerReturns, Draining, EngineRow
  <1>3. PICK out \in Outcomes(c) :
          IF Dropped(c) THEN Loop(e, plan, step, engine)
          ELSE IF out = "ok"
          THEN Loop(e, PlanAfterCompletion(c), CompletedSteps(c), engine)
          ELSE Loop(e, PlanAfterFailure(c, out), FailedSteps(c, out), engine)
    BY DEF HandlerReturns
  <1> HIDE DEF c
  <1>4. CASE Dropped(c)
    BY <1>1, <1>3, <1>4, LoopKeeps, GoodInv
  <1>5. CASE ~Dropped(c) /\ out = "ok"
    <2>1. c.attempt = step[c.plan][c.step].attempts
      BY <1>1, <1>2, <1>5 DEF Outcomes, EnginesGood, LiveIsLast, c
    <2>2. /\ Sound(PlanAfterCompletion(c), CompletedSteps(c))
          /\ \A d \in Plans, t \in Steps :
               CompletedSteps(c)[d][t].attempts = step[d][t].attempts
      BY <1>1, <1>2, <1>5, <2>1, CompleteKeeps
    <2>3. Loop(e, PlanAfterCompletion(c), CompletedSteps(c), engine)
      BY <1>3, <1>5
    <2>4. EnginesGood' /\ Sound(plan', step')
      BY <1>1, <2>2, <2>3, LoopKeeps
    <2> QED
      BY <1>1, <2>4, GoodInv
  <1>6. CASE ~Dropped(c) /\ out # "ok"
    <2>1. /\ Sound(PlanAfterFailure(c, out), FailedSteps(c, out))
          /\ \A d \in Plans, t \in Steps :
               FailedSteps(c, out)[d][t].attempts = step[d][t].attempts
      BY <1>1, <1>2, <1>6, FailKeeps
    <2>2. Loop(e, PlanAfterFailure(c, out), FailedSteps(c, out), engine)
      BY <1>3, <1>6
    <2>3. EnginesGood' /\ Sound(plan', step')
      BY <1>1, <2>1, <2>2, LoopKeeps
    <2> QED
      BY <1>1, <2>3, GoodInv
  <1> QED
    BY <1>4, <1>5, <1>6

LEMMA ThrownRows ==
  ASSUME EnginesType, NEW e \in Engines, Draining(e)
  PROVE  /\ Thrown(e) \in [Engines -> EngineRow]
         /\ \A d \in Engines \ {e} : Thrown(e)[d] = engine[d]
         /\ \A d \in Engines : /\ Thrown(e)[d].phase = engine[d].phase
                               /\ Thrown(e)[d].claim = engine[d].claim
         /\ Thrown(e)[e].available = engine[e].available /\ Thrown(e)[e].timer = engine[e].timer
         /\ Thrown(e)[e].lost = engine[e].lost \cup Swallowed(e)
         /\ Thrown(e)[e].threw = (engine[e].phase = "started")
  <1>1. engine[e] \in EngineRow /\ engine[e].claim \in Claim
    BY DEF EnginesType, EngineRow, Draining
  <1>2. Swallowed(e) \subseteq Plans \X Steps \X Nat
    BY <1>1 DEF Swallowed, Claim
  <1> DEFINE lost == engine[e].lost \cup Swallowed(e)
             threw == engine[e].phase = "started"
             row == [engine[e] EXCEPT !.lost = lost, !.threw = threw]
             en == Thrown(e)
  <1>3. lost \in SUBSET (Plans \X Steps \X Nat) /\ threw \in BOOLEAN
    BY <1>1, <1>2 DEF EngineRow
  <1>4. en = [engine EXCEPT ![e] = row]
    BY DEF EnginesType, Thrown
  <1> HIDE DEF lost, threw
  <1>5. /\ row \in EngineRow /\ row.phase = engine[e].phase /\ row.claim = engine[e].claim
        /\ row.available = engine[e].available /\ row.timer = engine[e].timer
        /\ row.lost = lost /\ row.threw = threw
    <2> HIDE DEF Claim, NoClaim, Never
    <2> QED
      BY <1>1, <1>3 DEF EngineRow
  <1> HIDE DEF row, en
  <1>6. /\ en \in [Engines -> EngineRow] /\ en[e] = row
        /\ \A d \in Engines \ {e} : en[d] = engine[d]
    BY <1>4, <1>5 DEF EnginesType
  <1> QED
    BY <1>5, <1>6 DEF lost, threw, en

LEMMA DrainFailsKeeps ==
  ASSUME IInv, NEW e \in Engines, DrainFails(e)
  PROVE  IInv'
  <1> DEFINE en == Thrown(e)
  <1>1. engine' = Idle(e, plan, step, en)
    BY DEF DrainFails
  <1>2. now \in Time /\ EnginesGood /\ step' = step /\ plan' = plan /\ Draining(e)
    BY DEF IInv, RestType, EnginesGood, DrainFails
  <1>3. RestType'
    BY EngineAssumption DEF IInv, RestType, DrainFails
  <1>4. /\ en \in [Engines -> EngineRow]
        /\ \A d \in Engines : en[d].phase = engine[d].phase /\ en[d].claim = engine[d].claim
    BY <1>2, ThrownRows DEF IInv
  <1> HIDE DEF en
  <1>5. /\ engine' \in [Engines -> EngineRow] /\ engine'[e].claim = NoClaim
        /\ \A d \in Engines : engine'[d].phase = en[d].phase
        /\ \A d \in Engines \ {e} : engine'[d].claim = en[d].claim
    BY <1>1, <1>2, <1>4, IdleRows
  <1>6. NoClaim.handler # "live"
    BY DEF NoClaim
  <1>7. Calmer(engine')
    BY <1>4, <1>5, <1>6 DEF Calmer, Draining
  <1> QED
    BY <1>2, <1>3, <1>7, SameIsCalmer, CalmerInv DEF IInv

(* The process ends: no engine is left at work.                            *)
LEMMA AllStoppedRows ==
  ASSUME EnginesType, NEW e \in Engines
  PROVE  /\ AllStopped[e] \in EngineRow
         /\ \/ engine[e].phase = "absent" /\ AllStopped[e] = engine[e]
            \/ engine[e].phase # "absent" /\ AllStopped[e].phase = "stopped"
               /\ AllStopped[e].claim = NoClaim
  <1>1. Never \in 0 .. Never /\ engine[e] \in EngineRow
    BY EngineAssumption DEF Never, EnginesType
  <1> DEFINE off == [Off(engine[e]) EXCEPT !.claim = NoClaim]
  <1>2. off \in EngineRow /\ off.phase = "stopped" /\ off.claim = NoClaim
    <2> HIDE DEF Never, Claim, NoClaim
    <2> QED
      BY <1>1 DEF EngineRow, Off
  <1>3. AllStopped[e] = IF engine[e].phase = "absent" THEN engine[e] ELSE off
    BY DEF AllStopped
  <1> HIDE DEF off
  <1> QED
    BY <1>1, <1>2, <1>3

LEMMA EndKeeps ==
  ASSUME IInv, engine' = AllStopped, RestType', step' = step, Good(plan', step', FALSE)
  PROVE  IInv'
  <1>1. EnginesType
    BY DEF IInv
  <1>2. NoClaim.handler = "none"
    BY DEF NoClaim
  <1>3. ASSUME NEW e \in Engines
        PROVE  /\ engine'[e] \in EngineRow
               /\ \/ engine[e].phase = "absent" /\ engine'[e] = engine[e]
                  \/ engine[e].phase # "absent" /\ engine'[e].phase = "stopped"
                     /\ engine'[e].claim = NoClaim
    BY <1>1, AllStoppedRows
  <1>4. EnginesType'
    BY <1>3 DEF EnginesType, AllStopped
  <1>5. EnginesInOrder' /\ LiveServes' /\ LiveIsLast' /\ Unborn'
    BY <1>2, <1>3 DEF IInv, EnginesInOrder, LiveServes, LiveIsLast, Unborn
  <1>6. ~Attended' /\ Attended' \in BOOLEAN
    BY <1>3 DEF IInv, Unborn, Attended, Draining
  <1>7. Good(plan', step', Attended')
    BY <1>6, WeakenAll
  <1> QED
    BY <1>4, <1>5, <1>7 DEF IInv

(* The plans' operations.                                                  *)
LEMMA PlanStepKeeps ==
  ASSUME IInv, NEW e \in Engines, NEW p \in Plans, PlanStep(e, p)
  PROVE  IInv'
  <1>1. /\ EnginesGood /\ Good(plan, step, Attended) /\ Attended \in BOOLEAN /\ now \in Time
        /\ engine \in [Engines -> EngineRow] /\ plan[p].mission \in Mission
        /\ Calmer(engine) /\ SameAttempts(step)
    BY SameIsCalmer DEF IInv, RestType, EnginesGood, EnginesType, Good, PlanRow, Attended
  <1>2. now \in 0 .. Never
    BY <1>1, EngineAssumption DEF Time, Never
  <1>3. Calmer(Scheduled(e, now))
    BY <1>1, <1>2, TimerIsCalmer
  <1>4. Calmer(Aborted(e, engine))
    BY <1>1, AbortIsCalmer DEF Calmer, Draining
  <1>5. {plan[p].mission} \cup Held(p) \subseteq Mission
        /\ {plan[p].mission} \cup Released(p) \subseteq Mission
    BY <1>1 DEF Held, Released, Mission
  <1>6. CASE Create(e, p)
    <2>1. RestType' /\ Calmer(engine') /\ SameAttempts(step')
      BY <1>1, <1>3, <1>6 DEF Create, IInv, RestType
    <2>2. Good(plan', step', Attended)
      <3> DEFINE m == IF p \in Linked THEN "running" ELSE "none"
      <3>1. m \in Mission
        BY DEF Mission
      <3>2. /\ plan[p].status \in {"none", "paused"}
            /\ plan' = [plan EXCEPT ![p].status = "pending", ![p].mission = m]
            /\ step' = step
        BY <1>6 DEF Create
      <3> HIDE DEF m
      <3> QED
        BY <1>1, <3>1, <3>2, OpenKeeps
    <2> QED
      BY <2>1, <2>2, CalmerInv
  <1>7. CASE Pause(e, p)
    <2>1. PICK m \in Mission :
            plan' = [plan EXCEPT ![p].status = "paused", ![p].mission = m]
      BY <1>5, <1>7 DEF Pause
    <2>2. Calmer(engine')
      BY <1>1, <1>4, <1>7 DEF Pause
    <2>3. Good(plan', step', Attended) /\ SameAttempts(step')
      <3>2. plan[p].status \in {"pending", "running"} /\ step' = PausedSteps(p)
        BY <1>7 DEF Pause, Pausable
      <3> QED
        BY <1>1, <2>1, <3>2, PauseKeeps
    <2>4. RestType'
      BY <1>7, EngineAssumption DEF Pause, Pausable, IInv, RestType
    <2> QED
      BY <2>2, <2>3, <2>4, CalmerInv
  <1>8. CASE PauseCut(e, p)
    <2>1. RestType' /\ engine' = AllStopped /\ step' = step
      BY <1>8, EngineAssumption DEF PauseCut, Pausable, IInv, RestType
    <2>2. Good(plan', step', FALSE)
      BY <1>1, <1>8, HalfPauseGood DEF PauseCut, Pausable
    <2> QED
      BY <2>1, <2>2, EndKeeps
  <1>9. CASE Resume(e, p)
    <2>1. PICK m \in Mission :
            plan' = [plan EXCEPT ![p].status = "pending", ![p].mission = m]
      BY <1>5, <1>9 DEF Resume
    <2>2. RestType' /\ Calmer(engine') /\ SameAttempts(step')
      BY <1>1, <1>3, <1>9 DEF Resume, IInv, RestType
    <2>3. Good(plan', step', Attended)
      BY <1>1, <1>9, <2>1, OpenKeeps DEF Resume
    <2> QED
      BY <2>2, <2>3, CalmerInv
  <1>10. CASE Cancel(e, p)
    <2>1. PICK m \in Mission :
            plan' = [plan EXCEPT ![p].status = "cancelled", ![p].mission = m]
      BY <1>5, <1>10 DEF Cancel
    <2>2. RestType' /\ Calmer(engine')
      BY <1>1, <1>4, <1>10 DEF Cancel, IInv, RestType
    <2>3. Good(plan', step', Attended) /\ SameAttempts(step')
      BY <1>1, <1>10, <2>1, CancelKeeps DEF Cancel
    <2> QED
      BY <2>2, <2>3, CalmerInv
  <1> QED
    BY <1>6, <1>7, <1>8, <1>9, <1>10 DEF PlanStep

(* Connections and the bot's life.                                         *)
LEMMA ConnectKeeps ==
  ASSUME IInv, NEW e \in Engines, Connect(e)
  PROVE  IInv'
  <1> HIDE DEF Never, Claim, NoClaim
  <1>1. /\ engine \in [Engines -> EngineRow] /\ engine[e] \in EngineRow
        /\ \A f \in Engines : f < e => engine[f].phase = "stopped"
        /\ engine' = [engine EXCEPT ![e].phase = "new"] /\ engine[e].phase = "absent"
        /\ plan' = plan /\ step' = step /\ RestType'
    BY DEF IInv, RestType, EnginesType, Connect
  <1>2. /\ EnginesType' /\ engine'[e].phase = "new"
        /\ \A d \in Engines : engine'[d].claim = engine[d].claim
        /\ \A d \in Engines \ {e} : engine'[d].phase = engine[d].phase
    BY <1>1 DEF EnginesType, EngineRow
  <1>3. EnginesInOrder'
    <2>1. \A d \in Engines : d < e \/ e < d \/ d = e
      BY DEF Engines
    <2> QED
      BY <1>1, <1>2, <2>1 DEF IInv, EnginesInOrder
  <1>4. LiveServes' /\ LiveIsLast' /\ Unborn'
    BY <1>1, <1>2 DEF IInv, LiveServes, LiveIsLast, Unborn
  <1>5. EnginesGood'
    BY <1>2, <1>3, <1>4 DEF EnginesGood
  <1>6. (Attended' => Attended) /\ Attended \in BOOLEAN /\ Attended' \in BOOLEAN
    BY <1>2 DEF Attended, Draining
  <1>7. Good(plan', step', Attended')
    BY <1>1, <1>6, WeakenAll DEF IInv
  <1> QED
    BY <1>1, <1>5, <1>7 DEF IInv, EnginesGood

LEMMA SpawnKeeps ==
  ASSUME IInv, NEW e \in Engines, Spawn(e)
  PROVE  IInv'
  <1>1. /\ EnginesGood /\ Good(plan, step, Attended) /\ Attended \in BOOLEAN /\ now \in Time
        /\ engine \in [Engines -> EngineRow] /\ engine[e] \in EngineRow /\ RestType'
    BY DEF IInv, RestType, EnginesGood, EnginesType, Spawn, Attended
  <1>2. now \in 0 .. Never
    BY <1>1, EngineAssumption DEF Time, Never
  <1>3. CASE engine[e].phase = "new" /\ engine' = [engine EXCEPT ![e].phase = "started",
               ![e].available = TRUE, ![e].timer = now]
             /\ plan' = ReconciledPlans /\ step' = ReconciledSteps
    <2>1. /\ EnginesType' /\ engine'[e].phase = "started"
          /\ \A d \in Engines : engine'[d].claim = engine[d].claim
          /\ \A d \in Engines \ {e} : engine'[d].phase = engine[d].phase
      <3>1. [engine[e] EXCEPT !.phase = "started", !.available = TRUE, !.timer = now] \in EngineRow
            /\ [engine[e] EXCEPT !.phase = "started", !.available = TRUE, !.timer = now].claim
                 = engine[e].claim
            /\ [engine[e] EXCEPT !.phase = "started", !.available = TRUE, !.timer = now].phase
                 = "started"
        <4> HIDE DEF Never, Claim, NoClaim
        <4> QED
          BY <1>1, <1>2 DEF EngineRow
      <3>2. engine'[e] = [engine[e] EXCEPT !.phase = "started", !.available = TRUE, !.timer = now]
            /\ \A d \in Engines \ {e} : engine'[d] = engine[d]
        BY <1>1, <1>3
      <3>3. engine' \in [Engines -> EngineRow]
        BY <1>1, <1>3, <3>1
      <3> QED
        BY <3>1, <3>2, <3>3 DEF EnginesType
    <2>2. Sound(plan', step') /\ SameAttempts(step')
      BY <1>1, <1>3, ReconcileKeeps
    <2>3. EnginesInOrder' /\ LiveServes' /\ Unborn'
      BY <1>1, <1>3, <2>1 DEF EnginesGood, EnginesInOrder, LiveServes, Unborn
    <2>4. LiveIsLast'
      BY <1>1, <2>1, <2>2 DEF EnginesGood, LiveIsLast, SameAttempts, EngineRow, Claim, NoClaim
    <2> QED
      BY <1>1, <2>1, <2>2, <2>3, <2>4, GoodInv DEF EnginesGood
  <1>4. CASE engine' = [engine EXCEPT ![e].available = TRUE, ![e].timer = now]
             /\ plan' = plan /\ step' = step
    <2>1. Calmer(engine')
      BY <1>1, <1>2, <1>4, TimerIsCalmer
    <2> QED
      BY <1>1, <1>4, <2>1, SameIsCalmer, CalmerInv
  <1> QED
    BY <1>3, <1>4 DEF Spawn

LEMMA DeathKeeps ==
  ASSUME IInv, NEW e \in Engines, Death(e) \/ Preempt(e)
  PROVE  IInv'
  <1>1. /\ EnginesGood /\ engine \in [Engines -> EngineRow]
        /\ plan' = plan /\ step' = step /\ RestType'
    BY DEF IInv, RestType, EnginesGood, EnginesType, Death, Preempt
  <1> DEFINE en == [engine EXCEPT ![e].available = FALSE, ![e].timer = Never]
  <1>2. Never \in 0 .. Never
    BY EngineAssumption DEF Never
  <1>3. Calmer(en) /\ \A d \in Engines : en[d].claim = engine[d].claim
    BY <1>1, <1>2, TimerIsCalmer
  <1>4. engine' = Aborted(e, en) \/ engine' = Aborted(e, engine)
    BY DEF Death, Preempt
  <1> HIDE DEF en
  <1>5. Calmer(Aborted(e, engine))
    BY <1>1, AbortIsCalmer DEF Calmer, Draining
  <1>6. Calmer(Aborted(e, en))
    BY <1>1, <1>3, AbortIsCalmer DEF Calmer, Draining
  <1> QED
    BY <1>1, <1>4, <1>5, <1>6, SameIsCalmer, CalmerInv DEF IInv

LEMMA DisconnectKeeps ==
  ASSUME IInv, NEW e \in Engines, Disconnect(e)
  PROVE  IInv'
  <1> DEFINE en == [engine EXCEPT ![e] = Off(@)]
  <1>1. /\ EnginesGood /\ engine \in [Engines -> EngineRow] /\ engine[e] \in EngineRow
        /\ plan' = plan /\ step' = step /\ RestType' /\ engine' = Aborted(e, en)
        /\ engine[e].phase # "absent"
    BY DEF IInv, RestType, EnginesGood, EnginesType, Disconnect, Current
  <1>2. Never \in 0 .. Never
    BY EngineAssumption DEF Never
  <1>3. /\ en \in [Engines -> EngineRow] /\ en[e].phase = "stopped"
        /\ \A d \in Engines : en[d].claim = engine[d].claim
        /\ \A d \in Engines \ {e} : en[d].phase = engine[d].phase
    <2>1. /\ Off(engine[e]) \in EngineRow /\ Off(engine[e]).phase = "stopped"
          /\ Off(engine[e]).claim = engine[e].claim
      <3> HIDE DEF Never, Claim, NoClaim
      <3> QED
        BY <1>1, <1>2 DEF EngineRow, Off
    <2>2. en = [engine EXCEPT ![e] = Off(engine[e])]
      OBVIOUS
    <2> HIDE DEF en
    <2> QED
      BY <1>1, <2>1, <2>2
  <1> HIDE DEF en
  <1>4. /\ EnginesType' /\ engine'[e].phase = "stopped" /\ engine'[e].claim.handler # "live"
        /\ engine'[e].claim # NoClaim => Draining(e)
        /\ \A d \in Engines \ {e} : engine'[d].phase = engine[d].phase
                                    /\ engine'[d].claim = engine[d].claim
    BY <1>1, <1>3, AbortIsCalmer DEF EnginesType
  <1>5. EnginesInOrder' /\ Unborn'
    BY <1>1, <1>4 DEF EnginesGood, EnginesInOrder, Unborn
  <1>6. LiveServes' /\ LiveIsLast'
    BY <1>1, <1>4 DEF EnginesGood, LiveServes, LiveIsLast
  <1>7. (Attended' => Attended) /\ Attended \in BOOLEAN /\ Attended' \in BOOLEAN
    BY <1>4 DEF Attended, Draining
  <1>8. Good(plan', step', Attended')
    BY <1>1, <1>7, WeakenAll DEF IInv
  <1> QED
    BY <1>1, <1>4, <1>5, <1>6, <1>8 DEF IInv

LEMMA CrashKeeps ==
  ASSUME IInv, Crash
  PROVE  IInv'
  <1>1. RestType' /\ engine' = AllStopped /\ plan' = plan /\ step' = step
    BY DEF IInv, RestType, Crash
  <1>2. Attended \in BOOLEAN
    BY DEF Attended
  <1>3. Good(plan', step', FALSE)
    BY <1>1, <1>2, WeakenAll DEF IInv
  <1> QED
    BY <1>1, <1>3, EndKeeps

LEMMA SameIInv ==
  ASSUME IInv, RestType', plan' = plan, step' = step, engine' = engine
  PROVE  IInv'
  <1>1. Calmer(engine') /\ SameAttempts(step') /\ Good(plan', step', Attended)
    BY SameIsCalmer DEF IInv, EnginesGood
  <1> QED
    BY <1>1, CalmerInv

LEMMA NextIInv == IInv /\ [Next]_vars => IInv'
  <1> SUFFICES ASSUME IInv, [Next]_vars
               PROVE  IInv'
    OBVIOUS
  <1>1. ASSUME NEW e \in Engines, EngineStep(e)
        PROVE  IInv'
    BY <1>1, WakeKeeps, ReturnKeeps, DrainFailsKeeps, ConnectKeeps, SpawnKeeps, DeathKeeps,
       DisconnectKeeps DEF EngineStep
  <1>2. ASSUME NEW e \in Engines, NEW p \in Plans, PlanStep(e, p)
        PROVE  IInv'
    BY <1>2, PlanStepKeeps
  <1>3. CASE Crash
    BY <1>3, CrashKeeps
  <1>4. CASE Tick
    <2>1. RestType'
      BY <1>4, EngineAssumption DEF IInv, RestType, Tick, Time
    <2>2. plan' = plan /\ step' = step /\ engine' = engine
      BY <1>4 DEF Tick
    <2> QED
      BY <2>1, <2>2, SameIInv
  <1>5. CASE UNCHANGED vars
    BY <1>5, SameIInv DEF vars, IInv, RestType
  <1> QED
    BY <1>1, <1>2, <1>3, <1>4, <1>5 DEF Next

-----------------------------------------------------------------------------
(* Every step of the queue and of its engines keeps the rows of a plan in  *)
(* agreement and the claims of the engines as the code relies on them.     *)
THEOREM Invariance == Spec => []IInv
  BY InitIInv, NextIInv, PTL DEF Spec

(* The tables and the engines hold what their rows may hold.               *)
THEOREM TypeCorrect == Spec => []TypeOK
  BY Invariance, Implied, PTL

(* A step is attempted only when every step before it is done, whatever    *)
(* retries, pauses, restarts and late answers put back (store.ts:265).     *)
THEOREM Ordered == Spec => []StepsInOrder
  BY Invariance, Implied, PTL

(* The status of a plan is what its steps say (store.ts:299, 333, 340);    *)
(* a running step has a running plan while an engine works or awaits a     *)
(* handler, whatever pause a process left half done (store.ts:340).        *)
THEOREM Mirrored == Spec => []PlanMirrorsSteps
  BY Invariance, Implied, PTL

(* A plan that ends announces it once, a cancelled one never (engine.ts:   *)
(* 229-277), although several engines may answer for the same step.        *)
THEOREM AnnouncedOnce == Spec => []EndAnnouncedOnce
  BY Invariance, Implied, PTL

(* Only the attempt that is running completes a step: the late success of  *)
(* an earlier engine's handler never does (engine.ts:235, runner.ts:285).  *)
THEOREM OwnAttempt == Spec => []CompletedByOwnAttempt
  BY Invariance, Implied, PTL

-----------------------------------------------------------------------------
(* 4. Work that was begun is not lost (NoLostWork).  A step put back, and  *)
(* one not yet attempted, is due at once; what a started engine finds      *)
(* running is its own claim, or an attempt it lost; and an engine that     *)
(* waits without a timer has left nothing else.  A started engine is the   *)
(* current one, so the last two say nothing of the engines that still      *)
(* await an aborted handler; that it loses the attempt the step is at      *)
(* needs that its claim is the last one, live or aborted.                  *)
Waiting(en, d) ==
  en[d].phase = "started" /\ en[d].available /\ en[d].claim.plan = 0 /\ en[d].timer = Never

RetryLeft(pl, st, p, s) == pl[p].status = "running" /\ st[p][s].status = "retry_wait"

PendingLeft(pl, st, p, s) ==
  /\ pl[p].status \in {"pending", "running"} /\ pl[p].mission # "held"
  /\ st[p][s].status = "pending"
  /\ \A q \in Steps : q < s => st[p][q].status = "completed"

LostIn(en, d, st, p, s) == <<p, s, st[p][s].attempts>> \in en[d].lost

DueAtOnce(st) ==
  \A p \in Plans, s \in Steps : st[p][s].status = "pending" => st[p][s].next = 0

OwnRunning(en, st) ==
  \A d \in Engines : en[d].phase = "started" =>
    \A p \in Plans, s \in Steps :
      st[p][s].status = "running" =>
        (en[d].claim.plan = p /\ en[d].claim.step = s) \/ LostIn(en, d, st, p, s)

LastAttempt(en, st) ==
  \A d \in Engines : en[d].phase = "started" =>
    \A p \in Plans, s \in Steps :
      en[d].claim.plan = p /\ en[d].claim.step = s => en[d].claim.attempt = st[p][s].attempts

NothingLeft(en, pl, st) ==
  \A d \in Engines : Waiting(en, d) => \A p \in Plans, s \in Steps :
    /\ RetryLeft(pl, st, p, s) => LostIn(en, d, st, p, s)
    /\ PendingLeft(pl, st, p, s) => en[d].threw

Kept(en, pl, st) ==
  DueAtOnce(st) /\ OwnRunning(en, st) /\ LastAttempt(en, st) /\ NothingLeft(en, pl, st)

WorkKept == Kept(engine, plan, step)

LEMMA ClaimedPlan ==
  ASSUME EnginesType, NEW d \in Engines
  PROVE  Draining(d) <=> engine[d].claim.plan # 0
  <1>1. engine[d].claim \in Claim \cup {NoClaim}
    BY DEF EnginesType, EngineRow
  <1>2. NoClaim.plan = 0
    BY DEF NoClaim
  <1>3. \A c \in Claim : c.plan # 0
    BY DEF Claim, Plans
  <1> QED
    BY <1>1, <1>2, <1>3 DEF Draining

(* There is one started engine at most.                                    *)
LEMMA OneStarted ==
  ASSUME EnginesInOrder, NEW e \in Engines, engine[e].phase = "started",
         NEW d \in Engines, engine[d].phase = "started"
  PROVE  d = e
  <1>1. d < e \/ e < d \/ d = e
    BY DEF Engines
  <1> QED
    BY <1>1 DEF EnginesInOrder

LEMMA KeptWork ==
  ASSUME IInv, WorkKept
  PROVE  NoLostWork
  <1>1. RunningIsClaimed
    BY DEF WorkKept, Kept, OwnRunning, LostIn, LostBy, RunningIsClaimed
  <1>2. ASSUME NEW e \in Engines, Serving(e), ~Draining(e), engine[e].timer = Never,
               NEW p \in Plans, NEW s \in Steps
        PROVE  /\ plan[p].status = "running" /\ step[p][s].status = "retry_wait" => LostBy(e, p, s)
               /\ Claimable(plan, step, p, s) /\ step[p][s].status = "pending" => engine[e].threw
    <2>1. engine[e].claim.plan = 0
      BY <1>2, ClaimedPlan DEF IInv
    <2>2. Waiting(engine, e)
      BY <1>2, <2>1 DEF Waiting, Serving
    <2>3. /\ RetryLeft(plan, step, p, s) => LostIn(engine, e, step, p, s)
          /\ PendingLeft(plan, step, p, s) => engine[e].threw
      BY <2>2 DEF WorkKept, Kept, NothingLeft
    <2> QED
      BY <2>3 DEF RetryLeft, PendingLeft, LostIn, LostBy, Claimable
  <1>3. NoLostWake
    BY <1>2 DEF NoLostWake
  <1> QED
    BY <1>1, <1>3 DEF NoLostWork

(* The engines en go on with the claims and the losses they had.           *)
GoOn(en) ==
  \A d \in Engines : en[d].phase = "started" =>
    /\ engine[d].phase = "started"
    /\ en[d].claim.plan = engine[d].claim.plan /\ en[d].claim.step = engine[d].claim.step
    /\ en[d].claim.attempt = engine[d].claim.attempt
    /\ en[d].lost = engine[d].lost

(* A step that claims nothing keeps the work, if it starts no engine, sets *)
(* no step running, and lets nobody wait who did not wait for the same.    *)
LEMMA KeptBy ==
  ASSUME Kept(engine, plan, step), NEW en, NEW pl, NEW st, DueAtOnce(st), GoOn(en),
         SameAttempts(st),
         \A p \in Plans, s \in Steps : st[p][s].status = "running" => step[p][s].status = "running",
         \A d \in Engines : Waiting(en, d) =>
           /\ Waiting(engine, d) /\ en[d].threw = engine[d].threw
           /\ \A p \in Plans, s \in Steps :
                /\ RetryLeft(pl, st, p, s) =>
                     RetryLeft(plan, step, p, s) \/ step[p][s].status = "running"
                /\ PendingLeft(pl, st, p, s) => PendingLeft(plan, step, p, s)
  PROVE  Kept(en, pl, st)
  <1>1. ASSUME NEW d \in Engines, en[d].phase = "started", NEW p \in Plans, NEW s \in Steps
        PROVE  LostIn(en, d, st, p, s) <=> LostIn(engine, d, step, p, s)
    BY <1>1 DEF GoOn, SameAttempts, LostIn
  <1>2. OwnRunning(en, st)
    BY <1>1 DEF Kept, OwnRunning, GoOn
  <1>3. LastAttempt(en, st)
    BY DEF Kept, LastAttempt, GoOn, SameAttempts
  <1>4. ASSUME NEW d \in Engines, Waiting(en, d), NEW p \in Plans, NEW s \in Steps
        PROVE  /\ RetryLeft(pl, st, p, s) => LostIn(en, d, st, p, s)
               /\ PendingLeft(pl, st, p, s) => en[d].threw
    <2>1. Waiting(engine, d) /\ en[d].phase = "started"
      BY <1>4 DEF Waiting
    <2>2. step[p][s].status = "running" => LostIn(engine, d, step, p, s)
      BY <2>1 DEF Kept, OwnRunning, Waiting, Plans
    <2>3. RetryLeft(plan, step, p, s) => LostIn(engine, d, step, p, s)
      BY <2>1 DEF Kept, NothingLeft
    <2> QED
      BY <1>1, <1>4, <2>1, <2>2, <2>3 DEF Kept, NothingLeft
  <1> QED
    BY <1>2, <1>3, <1>4 DEF Kept, NothingLeft

-----------------------------------------------------------------------------
(* What the engines' records look like after a change.                     *)
LEMMA IdleServes ==
  ASSUME now \in Time, NEW e \in Engines, NEW pl, NEW st, NEW en \in [Engines -> EngineRow]
  PROVE  LET id == Idle(e, pl, st, en)
         IN /\ \A d \in Engines \ {e} : id[d] = en[d]
            /\ id[e].phase = en[e].phase /\ id[e].available = en[e].available
            /\ id[e].claim.plan = 0
            /\ id[e].lost = en[e].lost /\ id[e].threw = en[e].threw
            /\ Serving(e) /\ Retries(pl, st) # {} => id[e].timer # Never
  <1> DEFINE wake == LET t == CHOOSE t \in Time : EarliestRetry(pl, st, t)
                     IN IF t <= now THEN now ELSE t
  <1>1. Retries(pl, st) # {} => wake # Never
    <2>1. SUFFICES ASSUME Retries(pl, st) # {}
                   PROVE  wake # Never
      OBVIOUS
    <2>2. (CHOOSE t \in Time : EarliestRetry(pl, st, t)) \in Time
      BY <2>1, WakeType
    <2>3. wake \in Time
      BY <2>2
    <2> HIDE DEF wake
    <2> QED
      BY <2>3, EngineAssumption DEF Time, Never
  <1> HIDE DEF wake
  <1> DEFINE idle == [en EXCEPT ![e].claim = NoClaim]
             awake == [en EXCEPT ![e].claim = NoClaim, ![e].timer = wake]
  <1>2. Idle(e, pl, st, en) = IF Serving(e) /\ Retries(pl, st) # {} THEN awake ELSE idle
    BY DEF Idle, wake
  <1>3. en[e] \in EngineRow /\ NoClaim.plan = 0
    BY DEF NoClaim
  <1>4. /\ idle[e].phase = en[e].phase /\ idle[e].available = en[e].available
        /\ idle[e].claim.plan = 0
        /\ idle[e].lost = en[e].lost /\ idle[e].threw = en[e].threw
        /\ \A d \in Engines \ {e} : idle[d] = en[d]
    <2> HIDE DEF NoClaim, Claim, Never
    <2> QED
      BY <1>3 DEF EngineRow
  <1>5. /\ awake[e].phase = en[e].phase /\ awake[e].available = en[e].available
        /\ awake[e].claim.plan = 0 /\ awake[e].timer = wake
        /\ awake[e].lost = en[e].lost /\ awake[e].threw = en[e].threw
        /\ \A d \in Engines \ {e} : awake[d] = en[d]
    <2> HIDE DEF NoClaim, Claim, Never
    <2> QED
      BY <1>3 DEF EngineRow
  <1> HIDE DEF idle, awake
  <1> QED
    BY <1>1, <1>2, <1>4, <1>5

LEMMA AbortedServes ==
  ASSUME EnginesType, NEW e \in Engines, NEW en \in [Engines -> EngineRow],
         en[e].claim = engine[e].claim
  PROVE  \A d \in Engines :
           LET a == Aborted(e, en)[d]
           IN /\ a.phase = en[d].phase /\ a.available = en[d].available
              /\ a.timer = en[d].timer
              /\ a.claim.plan = en[d].claim.plan /\ a.claim.step = en[d].claim.step
              /\ a.claim.attempt = en[d].claim.attempt
              /\ a.lost = en[d].lost /\ a.threw = en[d].threw
  <1>1. CASE Draining(e)
    <2> DEFINE c == [en[e].claim EXCEPT !.handler = "aborted"]
    <2>1. en[e].claim \in Claim
      BY <1>1 DEF Draining, EnginesType, EngineRow
    <2>2. /\ c.plan = en[e].claim.plan /\ c.step = en[e].claim.step
          /\ c.attempt = en[e].claim.attempt
      BY <2>1 DEF Claim
    <2>3. Aborted(e, en) = [en EXCEPT ![e].claim = c]
      BY <1>1 DEF Aborted
    <2> HIDE DEF c
    <2>4. en[e] \in EngineRow
      OBVIOUS
    <2> HIDE DEF Claim, NoClaim
    <2> QED
      BY <2>2, <2>3, <2>4 DEF EngineRow
  <1>2. CASE ~Draining(e)
    BY <1>2 DEF Aborted
  <1> QED
    BY <1>1, <1>2

(* schedule() leaves no serving engine without a timer.                    *)
LEMMA ScheduledServes ==
  ASSUME EnginesType, NEW e \in Engines, now \in Time
  PROVE  LET en == Scheduled(e, now)
         IN /\ \A d \in Engines : /\ en[d].phase = engine[d].phase
                                  /\ en[d].claim = engine[d].claim
                                  /\ en[d].lost = engine[d].lost
            /\ \A d \in Engines \ {e} : en[d] = engine[d]
            /\ ~Waiting(en, e)
  <1>1. engine \in [Engines -> EngineRow] /\ engine[e] \in EngineRow /\ now # Never
    BY EngineAssumption DEF EnginesType, Time, Never
  <1>2. CASE Serving(e)
    <2>1. /\ [engine EXCEPT ![e].timer = now][e].timer = now
          /\ \A d \in Engines : /\ [engine EXCEPT ![e].timer = now][d].phase = engine[d].phase
                                /\ [engine EXCEPT ![e].timer = now][d].claim = engine[d].claim
                                /\ [engine EXCEPT ![e].timer = now][d].lost = engine[d].lost
          /\ \A d \in Engines \ {e} : [engine EXCEPT ![e].timer = now][d] = engine[d]
      <3> HIDE DEF Claim, NoClaim, Never
      <3> QED
        BY <1>1 DEF EngineRow
    <2> QED
      BY <1>1, <1>2, <2>1 DEF Scheduled, Waiting
  <1>3. CASE ~Serving(e)
    BY <1>3 DEF Scheduled, Waiting, Serving
  <1> QED
    BY <1>2, <1>3

-----------------------------------------------------------------------------
(* The drain loop of a started engine, on tables where nothing runs.       *)
LEMMA LoopServes ==
  ASSUME IInv, NEW e \in Engines, engine[e].phase = "started",
         NEW pl, NEW st, Sound(pl, st), DueAtOnce(st), SameAttempts(st),
         NEW en \in [Engines -> EngineRow],
         \A d \in Engines : en[d].phase = engine[d].phase,
         en[e].available = engine[e].available, en[e].lost = engine[e].lost,
         \A p \in Plans, s \in Steps : st[p][s].status = "running" => LostIn(en, e, st, p, s),
         Loop(e, pl, st, en)
  PROVE  Kept(engine', plan', step')
  <1>0. pl \in [Plans -> PlanRow] /\ st \in [Plans -> [Steps -> StepRow]] /\ now \in Time
    BY DEF Good, Sound, IInv, RestType
  <1>1. \A d \in Engines : engine[d].phase = "started" => d = e
    BY OneStarted DEF IInv
  <1>2. ASSUME NEW p \in Plans, NEW s \in Steps, Claimable(pl, st, p, s),
               plan' = ClaimedPlans(pl, p), step' = ClaimedSteps(st, p, s),
               engine' = [en EXCEPT ![e].claim =
                            [plan |-> p, step |-> s, attempt |-> st[p][s].attempts + 1,
                             handler |-> "live"]]
        PROVE  Kept(engine', plan', step')
    <2>1. Claims(pl, st, p, s, plan', step')
      BY <1>0, <1>2, ClaimRows
    <2> DEFINE c == [plan |-> p, step |-> s, attempt |-> st[p][s].attempts + 1,
                     handler |-> "live"]
    <2>2. c.plan = p /\ c.step = s /\ c.attempt = st[p][s].attempts + 1 /\ p # 0
      BY DEF Plans
    <2>3. engine' = [en EXCEPT ![e].claim = c] /\ en[e] \in EngineRow
      BY <1>2
    <2> HIDE DEF c
    <2>4. /\ engine'[e].claim = c /\ engine'[e].lost = en[e].lost
          /\ \A d \in Engines : engine'[d].phase = engine[d].phase
      <3> HIDE DEF Claim, NoClaim, Never
      <3> QED BY <2>3 DEF EngineRow
    <2>5. DueAtOnce(step')
      BY <2>1 DEF DueAtOnce, Claims
    <2>6. /\ step'[p][s].attempts = c.attempt
          /\ \A q \in Plans, t \in Steps : (q = p /\ t = s) \/ step'[q][t] = st[q][t]
      BY <2>1, <2>2 DEF Claims
    <2>7. OwnRunning(engine', step')
      BY <1>1, <2>2, <2>4, <2>6 DEF OwnRunning, LostIn
    <2>8. LastAttempt(engine', step')
      BY <1>1, <2>2, <2>4, <2>6 DEF LastAttempt
    <2>9. NothingLeft(engine', plan', step')
      BY <1>1, <2>2, <2>4 DEF NothingLeft, Waiting
    <2> QED
      BY <2>5, <2>7, <2>8, <2>9 DEF Kept
  <1>3. CASE /\ \A p \in Plans, s \in Steps : ~Claimable(pl, st, p, s)
             /\ plan' = pl /\ step' = st /\ engine' = Idle(e, pl, st, en)
    <2>1. /\ \A d \in Engines \ {e} : engine'[d] = en[d]
          /\ engine'[e].phase = en[e].phase /\ engine'[e].available = en[e].available
          /\ engine'[e].claim.plan = 0 /\ engine'[e].lost = en[e].lost
          /\ Serving(e) /\ Retries(pl, st) # {} => engine'[e].timer # Never
      BY <1>0, <1>3, IdleServes
    <2>2. DueAtOnce(step')
      BY <1>3
    <2>3. OwnRunning(engine', step')
      BY <1>1, <1>3, <2>1 DEF OwnRunning, LostIn
    <2>4. LastAttempt(engine', step')
      BY <1>1, <2>1 DEF LastAttempt, Plans
    <2>5. ASSUME NEW d \in Engines, Waiting(engine', d), NEW p \in Plans, NEW s \in Steps
          PROVE  ~RetryLeft(pl, st, p, s) /\ ~PendingLeft(pl, st, p, s)
      <3>1. d = e /\ Serving(e) /\ engine'[e].timer = Never
        BY <1>1, <2>1, <2>5 DEF Waiting, Serving
      <3>2. Retries(pl, st) = {}
        BY <2>1, <3>1
      <3>3. st[p][s] \in StepRow /\ st[p][s].next \in Time
        BY <1>0 DEF StepRow
      <3>4. ~RetryLeft(pl, st, p, s)
        BY <3>2, <3>3 DEF Retries, RetryLeft
      <3>5. 0 <= now
        BY <1>0, EngineAssumption DEF Time
      <3>6. PendingLeft(pl, st, p, s) => Claimable(pl, st, p, s)
        BY <3>5 DEF PendingLeft, Claimable, DueAtOnce
      <3> QED
        BY <1>3, <3>4, <3>6
    <2>6. NothingLeft(engine', plan', step')
      BY <1>3, <2>5 DEF NothingLeft
    <2> QED
      BY <2>2, <2>3, <2>4, <2>6 DEF Kept
  <1> QED
    BY <1>2, <1>3 DEF Loop, FirstClaimable

(* The end of the loop of an engine that is no longer started: it answers  *)
(* for a step that nobody runs any more, or that its successor runs.       *)
LEMMA LateServes ==
  ASSUME IInv, Kept(engine, plan, step), NEW e \in Engines, engine[e].phase # "started",
         NEW pl, NEW st, DueAtOnce(st), SameAttempts(st),
         \A p \in Plans, s \in Steps : st[p][s].status = "running" => step[p][s].status = "running",
         \A p \in Plans, s \in Steps :
           /\ RetryLeft(pl, st, p, s) =>
                RetryLeft(plan, step, p, s) \/ step[p][s].status = "running"
           /\ PendingLeft(pl, st, p, s) => PendingLeft(plan, step, p, s),
         Loop(e, pl, st, engine)
  PROVE  Kept(engine', plan', step')
  <1>1. plan' = pl /\ step' = st /\ engine' = Idle(e, pl, st, engine)
    BY DEF Loop
  <1>2. /\ \A d \in Engines \ {e} : engine'[d] = engine[d]
        /\ engine'[e].phase = engine[e].phase
    BY <1>1, IdleServes DEF IInv, RestType, EnginesType
  <1>3. ASSUME NEW d \in Engines, engine'[d].phase = "started"
        PROVE  engine[d].phase = "started" /\ engine'[d] = engine[d]
    BY <1>2, <1>3
  <1>4. \A d \in Engines : Waiting(engine', d) => Waiting(engine, d) /\ engine'[d] = engine[d]
    BY <1>3 DEF Waiting
  <1>5. GoOn(engine')
    BY <1>3 DEF GoOn
  <1>6. \A d \in Engines : Waiting(engine', d) =>
           /\ Waiting(engine, d) /\ engine'[d].threw = engine[d].threw
           /\ \A p \in Plans, s \in Steps :
                /\ RetryLeft(pl, st, p, s) =>
                     RetryLeft(plan, step, p, s) \/ step[p][s].status = "running"
                /\ PendingLeft(pl, st, p, s) => PendingLeft(plan, step, p, s)
    BY <1>4
  <1> DEFINE en == engine'
  <1> HIDE DEF en
  <1>7. Kept(en, pl, st)
    BY <1>5, <1>6, KeptBy DEF en
  <1> QED
    BY <1>1, <1>7 DEF en

(* The answers: the step they are for no longer runs.                      *)
LEMMA WakeServes ==
  ASSUME IInv, Kept(engine, plan, step), NEW e \in Engines, WakeFires(e)
  PROVE  Kept(engine', plan', step')
  <1> DEFINE fired == [engine EXCEPT ![e].timer = Never, ![e].threw = FALSE]
  <1>1. /\ engine \in [Engines -> EngineRow] /\ engine[e] \in EngineRow /\ EnginesType
        /\ DueAtOnce(step) /\ SameAttempts(step)
    BY DEF IInv, EnginesType, Kept, SameAttempts
  <1>2. Never \in 0 .. Never
    BY EngineAssumption DEF Never
  <1>3. /\ fired \in [Engines -> EngineRow]
        /\ \A d \in Engines \ {e} : fired[d] = engine[d]
        /\ fired[e].phase = engine[e].phase /\ fired[e].available = engine[e].available
        /\ fired[e].claim = engine[e].claim /\ fired[e].lost = engine[e].lost
    <2> HIDE DEF Claim, NoClaim, Never
    <2> QED
      BY <1>1, <1>2 DEF EngineRow
  <1> HIDE DEF fired
  <1>4. CASE Draining(e) \/ ~Serving(e)
    <2>1. engine' = fired /\ plan' = plan /\ step' = step
      BY <1>4 DEF WakeFires, fired
    <2>2. ~Waiting(fired, e)
      BY <1>1, <1>3, <1>4, ClaimedPlan DEF Waiting, Serving
    <2>3. \A d \in Engines : Waiting(fired, d) =>
            Waiting(engine, d) /\ fired[d].threw = engine[d].threw
      BY <1>3, <2>2 DEF Waiting
    <2>4. GoOn(fired)
      BY <1>3 DEF GoOn
    <2> QED
      BY <1>1, <2>1, <2>3, <2>4, KeptBy
  <1>5. CASE ~Draining(e) /\ Serving(e)
    <2>1. Loop(e, plan, step, fired)
      BY <1>5 DEF WakeFires, fired
    <2>2. engine[e].phase = "started" /\ engine[e].claim.plan = 0
      BY <1>1, <1>5, ClaimedPlan DEF Serving
    <2>3. \A p \in Plans, s \in Steps :
            step[p][s].status = "running" => LostIn(fired, e, step, p, s)
      BY <1>3, <2>2 DEF Kept, OwnRunning, LostIn, Plans
    <2>4. \A d \in Engines : fired[d].phase = engine[d].phase
      BY <1>3
    <2>5. Sound(plan, step)
      BY <2>2, AttendedGood
    <2> QED
      BY <1>1, <1>3, <2>1, <2>2, <2>3, <2>4, <2>5, LoopServes
  <1> QED
    BY <1>4, <1>5

LEMMA ReturnServes ==
  ASSUME IInv, Kept(engine, plan, step), NEW e \in Engines, HandlerReturns(e)
  PROVE  Kept(engine', plan', step')
  <1> DEFINE c == engine[e].claim
  <1>0. Sound(plan, step)
    BY AttendedGood DEF HandlerReturns
  <1>1. /\ now \in Time /\ Sound(plan, step) /\ DueAtOnce(step) /\ EnginesGood
        /\ SameAttempts(step) /\ Draining(e) /\ plan \in [Plans -> PlanRow]
        /\ engine \in [Engines -> EngineRow]
    BY <1>0
    DEF IInv, RestType, EnginesGood, EnginesType, Kept, Good, Sound, SameAttempts, HandlerReturns
  <1>2. c \in Claim
    BY <1>1 DEF HandlerReturns, Draining, EngineRow
  <1>3. PICK out \in Outcomes(c) :
          IF Dropped(c) THEN Loop(e, plan, step, engine)
          ELSE IF out = "ok"
          THEN Loop(e, PlanAfterCompletion(c), CompletedSteps(c), engine)
          ELSE Loop(e, PlanAfterFailure(c, out), FailedSteps(c, out), engine)
    BY DEF HandlerReturns
  <1>4. engine[e].phase = "started" =>
          \A p \in Plans, s \in Steps :
            step[p][s].status = "running" =>
              (c.plan = p /\ c.step = s) \/ LostIn(engine, e, step, p, s)
    BY DEF Kept, OwnRunning
  <1>5. out = "ok" => /\ c.attempt = step[c.plan][c.step].attempts
                      /\ engine[e].phase = "started"
    BY <1>1, <1>2 DEF Outcomes, EnginesGood, LiveIsLast, LiveServes
  <1> HIDE DEF c
  <1>6. c.plan \in Plans /\ c.step \in Steps
    BY <1>2 DEF Claim
  <1>7. CASE Dropped(c)
    <2>1. Loop(e, plan, step, engine)
      BY <1>3, <1>7
    <2>2. step[c.plan][c.step].status # "running"
      BY <1>1, <1>6, <1>7 DEF Dropped, Good, Sound, GoodPlan, SoundPlan, RunsOf
    <2>3. CASE engine[e].phase = "started"
      <3>1. \A p \in Plans, s \in Steps :
              step[p][s].status = "running" => LostIn(engine, e, step, p, s)
        BY <1>4, <2>2, <2>3
      <3> QED
        BY <1>1, <2>1, <2>3, <3>1, LoopServes
    <2>4. CASE engine[e].phase # "started"
      BY <1>1, <2>1, <2>4, LateServes
    <2> QED
      BY <2>3, <2>4
  <1>8. ASSUME NEW pl, NEW st, ~Dropped(c), Sound(pl, st), Loop(e, pl, st, engine),
               SameAttempts(st),
               st[c.plan][c.step].status \in {"completed", "retry_wait", "failed"},
               st[c.plan][c.step].status = "completed" => engine[e].phase = "started",
               \A p \in Plans, s \in Steps : (p = c.plan /\ s = c.step) \/ st[p][s] = step[p][s],
               \A p \in Plans : p = c.plan \/ pl[p] = plan[p],
               pl[c.plan].mission = plan[c.plan].mission
        PROVE  Kept(engine', plan', step')
    <2>1. step[c.plan][c.step].status = "running" /\ plan[c.plan].status = "running"
      BY <1>1, <1>6, <1>8 DEF Dropped, Good, Sound, GoodPlan, SoundPlan, RunsOf
    <2>2. DueAtOnce(st)
      BY <1>1, <1>6, <1>8 DEF DueAtOnce
    <2>3. CASE engine[e].phase = "started"
      <3>1. ASSUME NEW p \in Plans, NEW s \in Steps, st[p][s].status = "running"
            PROVE  LostIn(engine, e, st, p, s)
        <4>1. ~(p = c.plan /\ s = c.step) /\ st[p][s] = step[p][s]
          BY <1>8, <3>1
        <4> QED
          BY <1>4, <2>3, <3>1, <4>1 DEF LostIn
      <3> QED
        BY <1>1, <1>8, <2>2, <2>3, <3>1, LoopServes
    <2>4. CASE engine[e].phase # "started"
      <3>1. \A p \in Plans, s \in Steps :
              st[p][s].status = "running" => step[p][s].status = "running"
        BY <1>8, <2>1
      <3>2. ASSUME NEW p \in Plans, NEW s \in Steps, RetryLeft(pl, st, p, s)
            PROVE  RetryLeft(plan, step, p, s) \/ step[p][s].status = "running"
        BY <1>8, <2>1, <3>2 DEF RetryLeft
      <3>3. ASSUME NEW p \in Plans, NEW s \in Steps, PendingLeft(pl, st, p, s)
            PROVE  PendingLeft(plan, step, p, s)
        <4>1. CASE p # c.plan
          BY <1>8, <3>3, <4>1 DEF PendingLeft
        <4>2. CASE p = c.plan
          <5>1. s # c.step /\ st[p][s] = step[p][s]
            BY <1>8, <3>3, <4>2 DEF PendingLeft
          <5>2. \A q \in Steps : q < s => q # c.step /\ st[p][q] = step[p][q]
            BY <1>8, <2>4, <3>3, <4>2 DEF PendingLeft
          <5> QED
            BY <1>8, <2>1, <3>3, <4>2, <5>1, <5>2 DEF PendingLeft
        <4> QED
          BY <4>1, <4>2
      <3> QED
        BY <1>8, <2>2, <2>4, <3>1, <3>2, <3>3, LateServes
    <2> QED
      BY <2>3, <2>4
  <1>9. step \in [Plans -> [Steps -> StepRow]] /\ step[c.plan][c.step] \in StepRow
        /\ plan[c.plan] \in PlanRow
    BY <1>1, <1>6 DEF Good, Sound
  <1>10. CASE ~Dropped(c) /\ out = "ok"
    <2>1. Sound(PlanAfterCompletion(c), CompletedSteps(c)) /\ SameAttempts(CompletedSteps(c))
      BY <1>1, <1>2, <1>5, <1>10, CompleteKeeps DEF SameAttempts
    <2>2. /\ CompletedSteps(c)[c.plan][c.step].status = "completed"
          /\ \A p \in Plans, s \in Steps :
               (p = c.plan /\ s = c.step) \/ CompletedSteps(c)[p][s] = step[p][s]
      BY <1>6, <1>9 DEF CompletedSteps, StepRow
    <2>3. /\ \A p \in Plans : p = c.plan \/ PlanAfterCompletion(c)[p] = plan[p]
          /\ PlanAfterCompletion(c)[c.plan].mission = plan[c.plan].mission
      BY <1>1, <1>6, <1>9 DEF PlanAfterCompletion, PlanRow
    <2>4. Loop(e, PlanAfterCompletion(c), CompletedSteps(c), engine)
      BY <1>3, <1>10
    <2> QED
      BY <1>5, <1>8, <1>10, <2>1, <2>2, <2>3, <2>4
  <1>11. CASE ~Dropped(c) /\ out # "ok"
    <2>1. Sound(PlanAfterFailure(c, out), FailedSteps(c, out)) /\ SameAttempts(FailedSteps(c, out))
      BY <1>1, <1>2, <1>11, FailKeeps DEF SameAttempts
    <2>2. /\ FailedSteps(c, out)[c.plan][c.step].status \in {"retry_wait", "failed"}
          /\ \A p \in Plans, s \in Steps :
               (p = c.plan /\ s = c.step) \/ FailedSteps(c, out)[p][s] = step[p][s]
      BY <1>6, <1>9 DEF FailedSteps, StepRow
    <2>3. /\ \A p \in Plans : p = c.plan \/ PlanAfterFailure(c, out)[p] = plan[p]
          /\ PlanAfterFailure(c, out)[c.plan].mission = plan[c.plan].mission
      BY <1>1, <1>6, <1>9 DEF PlanAfterFailure, PlanRow
    <2>4. Loop(e, PlanAfterFailure(c, out), FailedSteps(c, out), engine)
      BY <1>3, <1>11
    <2> QED
      BY <1>8, <1>11, <2>1, <2>2, <2>3, <2>4
  <1> QED
    BY <1>7, <1>10, <1>11

(* An exception ends the loop: the attempt it was at is lost, and what may *)
(* be claimed stays where it is.                                           *)
LEMMA DrainFailsServes ==
  ASSUME IInv, Kept(engine, plan, step), NEW e \in Engines, DrainFails(e)
  PROVE  Kept(engine', plan', step')
  <1> DEFINE en == Thrown(e)
  <1>1. engine' = Idle(e, plan, step, en)
    BY DEF DrainFails
  <1>2. now \in Time /\ step' = step /\ plan' = plan /\ Draining(e) /\ DueAtOnce(step)
    BY DEF IInv, RestType, DrainFails, Kept
  <1>3. /\ en \in [Engines -> EngineRow]
        /\ \A d \in Engines \ {e} : en[d] = engine[d]
        /\ en[e].phase = engine[e].phase /\ en[e].available = engine[e].available
        /\ en[e].lost = engine[e].lost \cup Swallowed(e)
        /\ en[e].threw = (engine[e].phase = "started")
    BY <1>2, ThrownRows DEF IInv
  <1> HIDE DEF en
  <1>4. /\ \A d \in Engines \ {e} : engine'[d] = en[d]
        /\ engine'[e].phase = en[e].phase /\ engine'[e].available = en[e].available
        /\ engine'[e].claim.plan = 0
        /\ engine'[e].lost = en[e].lost /\ engine'[e].threw = en[e].threw
        /\ Serving(e) /\ Retries(plan, step) # {} => engine'[e].timer # Never
    BY <1>1, <1>2, <1>3, IdleServes
  <1>5. CASE engine[e].phase # "started"
    <2>1. \A d \in Engines : engine'[d].phase = "started" =>
            engine[d].phase = "started" /\ engine'[d] = engine[d]
      BY <1>3, <1>4, <1>5
    <2>2. GoOn(engine') /\ SameAttempts(step)
      BY <2>1 DEF GoOn, SameAttempts
    <2>3. \A d \in Engines : Waiting(engine', d) =>
            Waiting(engine, d) /\ engine'[d].threw = engine[d].threw
      BY <2>1 DEF Waiting
    <2> DEFINE ep == engine'
    <2> HIDE DEF ep
    <2>4. Kept(ep, plan, step)
      BY <1>2, <2>2, <2>3, KeptBy DEF ep
    <2> QED
      BY <1>2, <2>4 DEF ep
  <1>6. CASE engine[e].phase = "started"
    <2>1. \A d \in Engines : engine'[d].phase = "started" => d = e
      BY <1>3, <1>4, <1>6, OneStarted DEF IInv
    <2>2. Swallowed(e) = {<<engine[e].claim.plan, engine[e].claim.step, engine[e].claim.attempt>>}
      BY <1>6 DEF Swallowed
    <2>3. ASSUME NEW p \in Plans, NEW s \in Steps, step[p][s].status = "running"
          PROVE  LostIn(engine', e, step', p, s)
      <3>1. \/ engine[e].claim.plan = p /\ engine[e].claim.step = s
            \/ LostIn(engine, e, step, p, s)
        BY <1>6, <2>3 DEF Kept, OwnRunning
      <3>2. engine[e].claim.plan = p /\ engine[e].claim.step = s =>
              engine[e].claim.attempt = step[p][s].attempts
        BY <1>6 DEF Kept, LastAttempt
      <3> QED
        BY <1>2, <1>3, <1>4, <2>2, <3>1, <3>2 DEF LostIn
    <2>4. OwnRunning(engine', step')
      BY <1>2, <2>1, <2>3 DEF OwnRunning
    <2>5. LastAttempt(engine', step')
      BY <1>4, <2>1 DEF LastAttempt, Plans
    <2>6. ASSUME NEW d \in Engines, Waiting(engine', d), NEW p \in Plans, NEW s \in Steps
          PROVE  ~RetryLeft(plan, step, p, s) /\ engine'[d].threw
      <3>1. d = e /\ Serving(e) /\ engine'[e].timer = Never
        BY <1>3, <1>4, <2>1, <2>6 DEF Waiting, Serving
      <3>2. Retries(plan, step) = {}
        BY <1>4, <3>1
      <3>3. step[p][s] \in StepRow /\ step[p][s].next \in Time
        BY DEF IInv, Good, StepRow
      <3> QED
        BY <1>3, <1>4, <1>6, <3>1, <3>2, <3>3 DEF Retries, RetryLeft
    <2>7. NothingLeft(engine', plan', step')
      BY <1>2, <2>6 DEF NothingLeft
    <2> QED
      BY <1>2, <2>4, <2>5, <2>7 DEF Kept
  <1> QED
    BY <1>5, <1>6

-----------------------------------------------------------------------------
(* The requests, and the life of the connections.                          *)
LEMMA CurrentOnly ==
  ASSUME EnginesInOrder, NEW e \in Engines, Current(e), NEW d \in Engines \ {e}
  PROVE  engine[d].phase # "started"
  <1>1. d < e \/ e < d
    BY DEF Engines
  <1> QED
    BY <1>1 DEF EnginesInOrder, Current

LEMMA PutBackDue ==
  ASSUME NEW f \in [Steps -> StepRow], NEW s \in Steps
  PROVE  /\ PutBack(f)[s].status # "running"
         /\ PutBack(f)[s].status = "pending" =>
              PutBack(f)[s].next = 0 \/ (f[s].status = "pending" /\ PutBack(f)[s] = f[s])
  <1>1. f[s] \in StepRow
    OBVIOUS
  <1>2. CASE f[s].status = "running"
    BY <1>1, <1>2 DEF PutBack, StepRow
  <1>3. CASE f[s].status # "running"
    BY <1>3 DEF PutBack
  <1> QED
    BY <1>2, <1>3

LEMMA CreateServes ==
  ASSUME IInv, Kept(engine, plan, step), NEW e \in Engines, NEW p \in Plans,
         Create(e, p) \/ Resume(e, p)
  PROVE  Kept(engine', plan', step')
  <1>1. Current(e) /\ engine' = Scheduled(e, now) /\ step' = step
    BY DEF Create, Resume
  <1>2. /\ \A d \in Engines : engine'[d].phase = engine[d].phase
                              /\ engine'[d].claim = engine[d].claim
                              /\ engine'[d].lost = engine[d].lost
        /\ ~Waiting(engine', e)
    BY <1>1, ScheduledServes DEF IInv, RestType
  <1>3. \A d \in Engines : ~Waiting(engine', d)
    BY <1>1, <1>2, CurrentOnly DEF IInv, Waiting
  <1>4. DueAtOnce(step') /\ SameAttempts(step') /\ GoOn(engine')
    BY <1>1, <1>2 DEF Kept, SameAttempts, GoOn
  <1> QED
    BY <1>1, <1>2, <1>3, <1>4, KeptBy

LEMMA CancelAttempts ==
  ASSUME step \in [Plans -> [Steps -> StepRow]], NEW p \in Plans
  PROVE  SameAttempts(CancelledSteps(p))
  <1>1. ASSUME NEW s \in Steps
        PROVE  [step[p][s] EXCEPT !.status = "cancelled", !.next = 0].attempts = step[p][s].attempts
    BY step[p][s] \in StepRow DEF StepRow
  <1> QED
    BY <1>1 DEF CancelledSteps, SameAttempts

(* A paused or cancelled plan is left by nobody.                           *)
LEMMA StopServes ==
  ASSUME IInv, Kept(engine, plan, step), NEW e \in Engines, NEW p \in Plans,
         Pause(e, p) \/ Cancel(e, p)
  PROVE  Kept(engine', plan', step')
  <1>1. /\ plan \in [Plans -> PlanRow] /\ step \in [Plans -> [Steps -> StepRow]]
        /\ EnginesType /\ engine \in [Engines -> EngineRow] /\ DueAtOnce(step)
    BY DEF IInv, Good, EnginesType, Kept
  <1>2. engine' = engine \/ engine' = Aborted(e, engine)
    BY DEF Pause, Cancel
  <1>3. \A d \in Engines :
          /\ engine'[d].phase = engine[d].phase
          /\ engine'[d].available = engine[d].available /\ engine'[d].timer = engine[d].timer
          /\ engine'[d].claim.plan = engine[d].claim.plan
          /\ engine'[d].claim.step = engine[d].claim.step
          /\ engine'[d].claim.attempt = engine[d].claim.attempt
          /\ engine'[d].lost = engine[d].lost /\ engine'[d].threw = engine[d].threw
    BY <1>1, <1>2, AbortedServes
  <1>4. PICK m, t : /\ t \in {"paused", "cancelled"}
                    /\ plan' = [plan EXCEPT ![p].status = t, ![p].mission = m]
    BY DEF Pause, Cancel
  <1>5. /\ plan'[p].status \in {"paused", "cancelled"}
        /\ \A d \in Plans \ {p} : plan'[d] = plan[d]
    BY <1>1, <1>4 DEF PlanRow
  <1>6. /\ \A d \in Plans \ {p} : step'[d] = step[d]
        /\ \A s \in Steps : step'[p][s].status # "running"
        /\ \A s \in Steps : step'[p][s].status = "pending" =>
             step'[p][s].next = 0 \/ (step[p][s].status = "pending" /\ step'[p][s] = step[p][s])
    <2>1. CASE step' = PausedSteps(p)
      BY <1>1, <2>1, PutBackDue DEF PausedSteps
    <2>2. CASE step' = CancelledSteps(p)
      <3>1. ASSUME NEW s \in Steps
            PROVE  step'[p][s].status \in {"completed", "cancelled"}
        BY <1>1, <2>2, step[p][s] \in StepRow DEF CancelledSteps, StepRow
      <3> QED
        BY <1>1, <2>2, <3>1 DEF CancelledSteps
    <2> QED
      BY <2>1, <2>2 DEF Pause, Cancel
  <1>7. DueAtOnce(step')
    BY <1>1, <1>6 DEF DueAtOnce
  <1>8. \A d \in Plans, s \in Steps :
          step'[d][s].status = "running" => step[d][s].status = "running"
    BY <1>6
  <1>9. \A d \in Plans, s \in Steps :
          /\ RetryLeft(plan', step', d, s) => RetryLeft(plan, step, d, s)
          /\ PendingLeft(plan', step', d, s) => PendingLeft(plan, step, d, s)
    BY <1>5, <1>6 DEF RetryLeft, PendingLeft
  <1>10. \A d \in Engines : Waiting(engine', d) =>
          Waiting(engine, d) /\ engine'[d].threw = engine[d].threw
    BY <1>3 DEF Waiting
  <1>11. GoOn(engine')
    BY <1>3 DEF GoOn
  <1>12. SameAttempts(step')
    <2>1. SameAttempts(PausedSteps(p))
      BY <1>1, PutBackRow DEF PausedSteps, SameAttempts
    <2>2. SameAttempts(CancelledSteps(p))
      BY <1>1, CancelAttempts
    <2> QED
      BY <2>1, <2>2 DEF Pause, Cancel
  <1> QED
    BY <1>7, <1>8, <1>9, <1>10, <1>11, <1>12, KeptBy

(* The tables are left alone, and no engine is started: the connection     *)
(* opens or ends, the bot dies, its handler is preempted.                  *)
LEMMA LifeServes ==
  ASSUME IInv, Kept(engine, plan, step), NEW e \in Engines,
         Connect(e) \/ Death(e) \/ Preempt(e) \/ Disconnect(e)
  PROVE  Kept(engine', plan', step')
  <1>1. /\ EnginesType /\ engine \in [Engines -> EngineRow] /\ engine[e] \in EngineRow
        /\ DueAtOnce(step) /\ plan' = plan /\ step' = step
    BY DEF IInv, EnginesType, Kept, Connect, Death, Preempt, Disconnect
  <1>2. SUFFICES
          \A d \in Engines : engine'[d].phase = "started" =>
            /\ engine[d].phase = "started"
            /\ engine'[d].claim.plan = engine[d].claim.plan
            /\ engine'[d].claim.step = engine[d].claim.step
            /\ engine'[d].claim.attempt = engine[d].claim.attempt
            /\ engine'[d].lost = engine[d].lost /\ engine'[d].threw = engine[d].threw
            /\ Waiting(engine', d) => Waiting(engine, d)
    <2>1. \A d \in Engines : Waiting(engine', d) =>
            Waiting(engine, d) /\ engine'[d].threw = engine[d].threw
      BY <1>2 DEF Waiting
    <2>2. GoOn(engine') /\ SameAttempts(step')
      BY <1>1, <1>2 DEF GoOn, SameAttempts
    <2> QED
      BY <1>1, <2>1, <2>2, KeptBy
  <1>3. Never \in 0 .. Never
    BY EngineAssumption DEF Never
  <1>4. CASE Connect(e)
    <2>1. engine'[e].phase = "new" /\ \A d \in Engines \ {e} : engine'[d] = engine[d]
      <3> HIDE DEF Claim, NoClaim, Never
      <3> QED BY <1>1, <1>4 DEF Connect, EngineRow
    <2> QED
      BY <2>1 DEF Waiting
  <1>5. CASE Preempt(e)
    <2>1. engine' = Aborted(e, engine)
      BY <1>5 DEF Preempt
    <2> QED
      BY <1>1, <2>1, AbortedServes DEF Waiting
  <1>6. CASE Death(e)
    <2> DEFINE en == [engine EXCEPT ![e].available = FALSE, ![e].timer = Never]
    <2>1. /\ en \in [Engines -> EngineRow] /\ en[e].claim = engine[e].claim
          /\ en[e].phase = engine[e].phase /\ ~en[e].available
          /\ en[e].lost = engine[e].lost /\ en[e].threw = engine[e].threw
          /\ \A d \in Engines \ {e} : en[d] = engine[d]
      <3> HIDE DEF Claim, NoClaim, Never
      <3> QED BY <1>1, <1>3 DEF EngineRow
    <2>2. engine' = Aborted(e, en)
      BY <1>6 DEF Death
    <2> HIDE DEF en
    <2>3. \A d \in Engines :
            /\ engine'[d].phase = en[d].phase /\ engine'[d].available = en[d].available
            /\ engine'[d].timer = en[d].timer /\ engine'[d].claim.plan = en[d].claim.plan
            /\ engine'[d].claim.step = en[d].claim.step
            /\ engine'[d].claim.attempt = en[d].claim.attempt
            /\ engine'[d].lost = en[d].lost /\ engine'[d].threw = en[d].threw
      BY <1>1, <2>1, <2>2, AbortedServes
    <2> QED
      BY <2>1, <2>3 DEF Waiting
  <1>7. CASE Disconnect(e)
    <2> DEFINE en == [engine EXCEPT ![e] = Off(@)]
    <2>1. /\ en \in [Engines -> EngineRow] /\ en[e].claim = engine[e].claim
          /\ en[e].phase = "stopped"
          /\ \A d \in Engines \ {e} : en[d] = engine[d]
      <3>1. /\ Off(engine[e]) \in EngineRow /\ Off(engine[e]).phase = "stopped"
            /\ Off(engine[e]).claim = engine[e].claim
        <4> HIDE DEF Claim, NoClaim, Never
        <4> QED BY <1>1, <1>3 DEF EngineRow, Off
      <3>2. en = [engine EXCEPT ![e] = Off(engine[e])]
        OBVIOUS
      <3> HIDE DEF en
      <3> QED
        BY <1>1, <3>1, <3>2
    <2>2. engine' = Aborted(e, en)
      BY <1>7 DEF Disconnect
    <2> HIDE DEF en
    <2>3. \A d \in Engines :
            /\ engine'[d].phase = en[d].phase /\ engine'[d].available = en[d].available
            /\ engine'[d].timer = en[d].timer /\ engine'[d].claim.plan = en[d].claim.plan
            /\ engine'[d].claim.step = en[d].claim.step
            /\ engine'[d].claim.attempt = en[d].claim.attempt
            /\ engine'[d].lost = en[d].lost /\ engine'[d].threw = en[d].threw
      BY <1>1, <2>1, <2>2, AbortedServes
    <2> QED
      BY <2>1, <2>3 DEF Waiting
  <1> QED
    BY <1>4, <1>5, <1>6, <1>7

(* start() puts back whatever it finds running, and wakes.                 *)
LEMMA SpawnServes ==
  ASSUME IInv, Kept(engine, plan, step), NEW e \in Engines, Spawn(e)
  PROVE  Kept(engine', plan', step')
  <1>1. /\ engine \in [Engines -> EngineRow] /\ engine[e] \in EngineRow
        /\ step \in [Plans -> [Steps -> StepRow]] /\ DueAtOnce(step) /\ Current(e)
    BY DEF IInv, EnginesType, Good, Kept, Spawn
  <1>2. now \in 0 .. Never /\ now # Never
    BY EngineAssumption DEF IInv, RestType, Time, Never
  <1>3. CASE engine[e].phase = "new" /\ engine' = [engine EXCEPT ![e].phase = "started",
               ![e].available = TRUE, ![e].timer = now]
             /\ step' = ReconciledSteps
    <2>1. /\ engine'[e].timer = now /\ engine'[e].claim = engine[e].claim
          /\ \A d \in Engines \ {e} : engine'[d] = engine[d]
      <3> HIDE DEF Claim, NoClaim, Never
      <3> QED BY <1>1, <1>3 DEF EngineRow
    <2>2. /\ \A p \in Plans, s \in Steps : step'[p][s].status # "running"
          /\ DueAtOnce(step')
      <3>1. \A p \in Plans : step'[p] = PutBack(step[p])
        BY <1>3 DEF ReconciledSteps
      <3> QED
        BY <1>1, <3>1, PutBackDue DEF DueAtOnce
    <2>3. \A d \in Engines : ~Waiting(engine', d)
      BY <1>1, <1>2, <2>1, CurrentOnly DEF IInv, Waiting
    <2>4. engine'[e].claim.plan = 0
      BY <1>3, <2>1 DEF IInv, Unborn, NoClaim
    <2>5. LastAttempt(engine', step')
      BY <1>1, <2>1, <2>4, CurrentOnly DEF IInv, LastAttempt, Plans
    <2> QED
      BY <2>2, <2>3, <2>5 DEF Kept, OwnRunning, NothingLeft
  <1>4. CASE engine' = [engine EXCEPT ![e].available = TRUE, ![e].timer = now]
             /\ plan' = plan /\ step' = step
    <2>1. /\ engine'[e].timer = now /\ engine'[e].phase = engine[e].phase
          /\ engine'[e].claim = engine[e].claim /\ engine'[e].lost = engine[e].lost
          /\ \A d \in Engines \ {e} : engine'[d] = engine[d]
      <3> HIDE DEF Claim, NoClaim, Never
      <3> QED BY <1>1, <1>4 DEF EngineRow
    <2>2. \A d \in Engines : ~Waiting(engine', d)
      BY <1>1, <1>2, <2>1, CurrentOnly DEF IInv, Waiting
    <2>3. GoOn(engine') /\ SameAttempts(step')
      BY <1>4, <2>1 DEF GoOn, SameAttempts
    <2> QED
      BY <1>1, <1>4, <2>2, <2>3, KeptBy
  <1> QED
    BY <1>3, <1>4 DEF Spawn

LEMMA EndServes ==
  ASSUME IInv, Kept(engine, plan, step), engine' = AllStopped, step' = step
  PROVE  Kept(engine', plan', step')
  <1>1. \A d \in Engines : engine'[d].phase # "started"
    BY AllStoppedRows DEF IInv
  <1> QED
    BY <1>1 DEF Kept, OwnRunning, LastAttempt, NothingLeft, Waiting

LEMMA NextKeepsWork == IInv /\ WorkKept /\ [Next]_vars => WorkKept'
  <1> SUFFICES ASSUME IInv, Kept(engine, plan, step), [Next]_vars
               PROVE  Kept(engine', plan', step')
    BY DEF WorkKept
  <1>1. ASSUME NEW e \in Engines, EngineStep(e)
        PROVE  Kept(engine', plan', step')
    BY <1>1, WakeServes, ReturnServes, DrainFailsServes, LifeServes, SpawnServes DEF EngineStep
  <1>2. ASSUME NEW e \in Engines, NEW p \in Plans, PlanStep(e, p)
        PROVE  Kept(engine', plan', step')
    <2>1. CASE PauseCut(e, p)
      BY <2>1, EndServes DEF PauseCut
    <2> QED
      BY <1>2, <2>1, CreateServes, StopServes DEF PlanStep
  <1>3. CASE Crash
    BY <1>3, EndServes DEF Crash
  <1>4. CASE Tick \/ UNCHANGED vars
    BY <1>4 DEF Tick, vars
  <1> QED
    BY <1>1, <1>2, <1>3, <1>4 DEF Next

LEMMA InitKeepsWork == Init => WorkKept
  <1> SUFFICES ASSUME Init
               PROVE  Kept(engine, plan, step)
    BY DEF WorkKept
  <1>1. DueAtOnce(step) /\ \A d \in Engines : engine[d].phase = "absent"
    BY DEF Init, DueAtOnce
  <1> QED
    BY <1>1 DEF Kept, OwnRunning, LastAttempt, NothingLeft, Waiting

(* What a crash, a reconnection, a pause or a late answer interrupts: the  *)
(* current engine runs what the tables call running, and sleeps only when  *)
(* no pending step may be claimed and no running plan waits for a retry    *)
(* (engine.ts:96-142, 283-330; store.ts:391), but for the attempts that an *)
(* exception of its loop dropped.                                          *)
THEOREM WorkIsKept == Spec => []NoLostWork
  BY InitKeepsWork, NextKeepsWork, KeptWork, Invariance, PTL DEF Spec

-----------------------------------------------------------------------------
(* 5. The engine implements the life that PlanLifecycle promises to its    *)
(* clients.  Each action leaves a plan alone, or makes one of the abstract *)
(* moves; the invariant is needed where a handler returns: that the plan   *)
(* of a step that still runs is running itself.                            *)
(* A plan's row r is left alone, begins to run, or makes an abstract move, *)
(* to row q.                                                               *)
Stays(r, q) == q.status = r.status /\ q.announced = r.announced

Ended(r, q) ==
  /\ r.status = "running" /\ q.status \in {"completed", "failed"}
  /\ q.announced = r.announced + 1

Moves(r, q) ==
  \/ Stays(r, q)
  \/ <<r.status, q.status>> \in Lifecycle!Work \cup Lifecycle!Asked /\ q.announced = r.announced
  \/ Ended(r, q)

(* A claim begins a plan that waits, whatever the loop did to another one  *)
(* before.                                                                 *)
LEMMA LoopMoves ==
  ASSUME NEW e \in Engines, NEW pl \in [Plans -> PlanRow], NEW st, NEW en, Loop(e, pl, st, en),
         plan \in [Plans -> PlanRow],
         \A p \in Plans : Stays(plan[p], pl[p]) \/ Ended(plan[p], pl[p])
  PROVE  \A p \in Plans : Moves(plan[p], plan'[p])
  <1>1. CASE plan' = pl
    BY <1>1 DEF Moves
  <1>2. ASSUME NEW p \in Plans, NEW s \in Steps, FirstClaimable(pl, st, p, s),
               plan' = ClaimedPlans(pl, p)
        PROVE  \A d \in Plans : Moves(plan[d], plan'[d])
    <2>1. pl[p].status \in {"pending", "running"}
      BY <1>2 DEF FirstClaimable, Claimable
    <2>2. Stays(plan[p], pl[p])
      BY <2>1 DEF Ended
    <2>3. plan'[p].status = "running" /\ plan'[p].announced = pl[p].announced
      BY <1>2 DEF ClaimedPlans, PlanRow
    <2>4. Moves(plan[p], plan'[p])
      BY <2>1, <2>2, <2>3 DEF Stays, Moves, Lifecycle!Work
    <2>5. \A d \in Plans \ {p} : plan'[d] = pl[d]
      BY <1>2 DEF ClaimedPlans
    <2> QED
      BY <2>4, <2>5 DEF Moves
  <1> QED
    BY <1>1, <1>2 DEF Loop

(* A handler that returns to a step that still runs ends a running plan,   *)
(* or none.                                                                *)
LEMMA ReturnMoves ==
  ASSUME IInv, NEW e \in Engines, HandlerReturns(e)
  PROVE  \A p \in Plans : Moves(plan[p], plan'[p])
  <1> DEFINE c == engine[e].claim
  <1>1. plan \in [Plans -> PlanRow]
    BY DEF IInv, Good
  <1>2. c \in Claim
    BY DEF IInv, EnginesType, EngineRow, HandlerReturns, Draining
  <1>3. PICK out \in Outcomes(c) :
          IF Dropped(c) THEN Loop(e, plan, step, engine)
          ELSE IF out = "ok"
          THEN Loop(e, PlanAfterCompletion(c), CompletedSteps(c), engine)
          ELSE Loop(e, PlanAfterFailure(c, out), FailedSteps(c, out), engine)
    BY DEF HandlerReturns
  <1> HIDE DEF c
  <1>4. CASE Dropped(c)
    <2>1. \A p \in Plans : Stays(plan[p], plan[p])
      BY DEF Stays
    <2> QED
      BY <1>1, <1>3, <1>4, <2>1, LoopMoves
  <1>5. CASE ~Dropped(c)
    <2>1. c.plan \in Plans /\ c.step \in Steps
      BY <1>2 DEF Claim
    <2>2. step[c.plan][c.step].status = "running"
      BY <1>5 DEF Dropped
    <2>3. plan[c.plan].status = "running"
      BY <2>1, <2>2, AttendedGood DEF HandlerReturns, Sound, GoodPlan, SoundPlan, RunsOf
    <2>4. plan[c.plan] \in PlanRow /\ plan[c.plan].announced + 1 \in Nat
      BY <1>1, <2>1 DEF PlanRow
    <2>5. ASSUME NEW pl \in {PlanAfterCompletion(c), PlanAfterFailure(c, out)}
          PROVE  /\ pl \in [Plans -> PlanRow]
                 /\ \A p \in Plans : Stays(plan[p], pl[p]) \/ Ended(plan[p], pl[p])
      <3> DEFINE done   == [plan EXCEPT ![c.plan].status = "completed", ![c.plan].announced = @ + 1]
                 failed == [plan EXCEPT ![c.plan].status = "failed", ![c.plan].announced = @ + 1]
                 goesOn == [plan EXCEPT ![c.plan].status = "running"]
      <3>1. pl \in {done, failed, goesOn}
        BY <2>5 DEF PlanAfterCompletion, PlanAfterFailure
      <3>2. CASE pl = done
        <4>1. pl \in [Plans -> PlanRow]
          BY <1>1, <2>1, <2>4, <3>2 DEF PlanRow, PlanStatus
        <4>2. /\ pl[c.plan].status = "completed" /\ pl[c.plan].announced = plan[c.plan].announced + 1
              /\ \A p \in Plans \ {c.plan} : pl[p] = plan[p]
          BY <1>1, <2>1, <2>4, <3>2 DEF PlanRow
        <4> QED
          BY <2>1, <2>3, <4>1, <4>2 DEF Ended, Stays
      <3>3. CASE pl = failed
        <4>1. pl \in [Plans -> PlanRow]
          BY <1>1, <2>1, <2>4, <3>3 DEF PlanRow, PlanStatus
        <4>2. /\ pl[c.plan].status = "failed" /\ pl[c.plan].announced = plan[c.plan].announced + 1
              /\ \A p \in Plans \ {c.plan} : pl[p] = plan[p]
          BY <1>1, <2>1, <2>4, <3>3 DEF PlanRow
        <4> QED
          BY <2>1, <2>3, <4>1, <4>2 DEF Ended, Stays
      <3>4. CASE pl = goesOn
        BY <1>1, <2>1, <2>3, <3>4 DEF Stays, PlanRow, PlanStatus
      <3> QED
        BY <3>1, <3>2, <3>3, <3>4
    <2>6. CASE out = "ok"
      <3>1. Loop(e, PlanAfterCompletion(c), CompletedSteps(c), engine)
        BY <1>3, <1>5, <2>6
      <3> QED
        BY <1>1, <2>5, <3>1, LoopMoves
    <2>7. CASE out # "ok"
      <3>1. Loop(e, PlanAfterFailure(c, out), FailedSteps(c, out), engine)
        BY <1>3, <1>5, <2>7
      <3> QED
        BY <1>1, <2>5, <3>1, LoopMoves
    <2> QED
      BY <2>6, <2>7
  <1> QED
    BY <1>4, <1>5

(* The requests make one abstract move of one plan each.                   *)
LEMMA RequestMoves ==
  ASSUME IInv, NEW e \in Engines, NEW p \in Plans, PlanStep(e, p)
  PROVE  \A d \in Plans : Moves(plan[d], plan'[d])
  <1>1. plan \in [Plans -> PlanRow] /\ plan[p] \in PlanRow
    BY DEF IInv, Good
  <1>2. /\ \A d \in Plans \ {p} : plan'[d] = plan[d]
        /\ plan'[p].announced = plan[p].announced
        /\ <<plan[p].status, plan'[p].status>> \in Lifecycle!Asked
    <2>1. CASE Create(e, p)
      BY <1>1, <2>1 DEF Create, PlanRow, Lifecycle!Asked
    <2>2. CASE Pause(e, p)
      BY <1>1, <2>2 DEF Pause, Pausable, PlanRow, Lifecycle!Asked
    <2>5. CASE PauseCut(e, p)
      BY <1>1, <2>5 DEF PauseCut, Pausable, PlanRow, Lifecycle!Asked
    <2>3. CASE Resume(e, p)
      BY <1>1, <2>3 DEF Resume, PlanRow, Lifecycle!Asked
    <2>4. CASE Cancel(e, p)
      <3>1. plan[p].status \in Lifecycle!Unfinished
        BY <1>1, <2>4 DEF Cancel, Terminal, PlanRow, PlanStatus, Lifecycle!Unfinished
      <3> QED
        BY <1>1, <2>4, <3>1 DEF Cancel, PlanRow, Lifecycle!Asked
    <2> QED
      BY <2>1, <2>2, <2>3, <2>4, <2>5 DEF PlanStep
  <1> QED
    BY <1>2 DEF Moves, Stays

(* What start() finds running waits for its turn again.                    *)
LEMMA SpawnMoves ==
  ASSUME IInv, NEW e \in Engines, Spawn(e)
  PROVE  \A p \in Plans : Moves(plan[p], plan'[p])
  <1>1. plan \in [Plans -> PlanRow]
    BY DEF IInv, Good
  <1>2. CASE plan' = plan
    BY <1>2 DEF Moves, Stays
  <1>3. CASE plan' = ReconciledPlans
    BY <1>1, <1>3 DEF ReconciledPlans, Moves, Stays, PlanRow, Lifecycle!Work
  <1> QED
    BY <1>2, <1>3 DEF Spawn

LEMMA NextMoves ==
  ASSUME IInv, Next
  PROVE  \A p \in Plans : Moves(plan[p], plan'[p])
  <1>1. plan \in [Plans -> PlanRow]
    BY DEF IInv, Good
  <1>2. CASE plan' = plan
    BY <1>2 DEF Moves, Stays
  <1>3. ASSUME NEW e \in Engines, WakeFires(e)
        PROVE  \A p \in Plans : Moves(plan[p], plan'[p])
    <2>1. \A p \in Plans : Stays(plan[p], plan[p])
      BY DEF Stays
    <2>2. plan' = plan \/ \E en : Loop(e, plan, step, en)
      BY <1>3 DEF WakeFires
    <2> QED
      BY <1>1, <1>2, <2>1, <2>2, LoopMoves
  <1>4. ASSUME NEW e \in Engines, EngineStep(e)
        PROVE  \A p \in Plans : Moves(plan[p], plan'[p])
    <2>1. CASE DrainFails(e) \/ Connect(e) \/ Death(e) \/ Preempt(e) \/ Disconnect(e)
      BY <1>2, <2>1 DEF DrainFails, Connect, Death, Preempt, Disconnect
    <2> QED
      BY <1>3, <1>4, <2>1, ReturnMoves, SpawnMoves DEF EngineStep
  <1>5. CASE Crash \/ Tick
    BY <1>2, <1>5 DEF Crash, Tick
  <1> QED
    BY <1>4, <1>5, RequestMoves DEF Next

(* One plan's move is the abstract one.                                    *)
LEMMA MoveMaps ==
  ASSUME NEW p \in Plans, Moves(plan[p], plan'[p])
  PROVE  Lifecycle!Move(p)
  <1>1. CASE Stays(plan[p], plan'[p])
    BY <1>1 DEF Stays, Lifecycle!Move
  <1>2. CASE Ended(plan[p], plan'[p])
    BY <1>2 DEF Ended, Lifecycle!Move, Lifecycle!Ends
  <1>3. CASE /\ <<plan[p].status, plan'[p].status>> \in Lifecycle!Work \cup Lifecycle!Asked
             /\ plan'[p].announced = plan[p].announced
    BY <1>3 DEF Lifecycle!Move
  <1> QED
    BY <1>1, <1>2, <1>3 DEF Moves

LEMMA StepMaps == IInv /\ [Next]_vars => [Lifecycle!Next]_Lifecycle!vars
  <1>1. ASSUME IInv, Next
        PROVE  Lifecycle!Next
    <2>1. \A p \in Plans : Lifecycle!Move(p)
      BY <1>1, NextMoves, MoveMaps
    <2> QED
      BY <2>1 DEF Lifecycle!Next
  <1>2. CASE UNCHANGED vars
    BY <1>2 DEF vars, Lifecycle!vars
  <1> QED
    BY <1>1, <1>2

LEMMA InitMaps == Init => Lifecycle!Init
  BY DEF Init, Lifecycle!Init

(* The engine implements PlanLifecycle: through deaths, reconnections,     *)
(* restarts and handlers that answer late (engine.ts:229-283), a plan ends *)
(* only while it runs, its end is announced in the step that ends it, and  *)
(* an end is final.                                                        *)
THEOREM Implements == Spec => KeepsLifecycle
  BY InitMaps, StepMaps, Invariance, PTL DEF Spec, KeepsLifecycle, Lifecycle!Spec

=============================================================================
