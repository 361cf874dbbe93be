------------------------- MODULE SkillRunnerProofs -------------------------
(***************************************************************************)
(* The safety properties of SkillRunner, for every value of its constants. *)
(* They are proved together from one inductive invariant: a conjunction of *)
(* facts about each invocation's closure, and of how the active slot       *)
(* relates to them.                                                        *)
(***************************************************************************)
EXTENDS SkillRunner, TLAPS

(* An identity not handed out yet has a clean closure.                     *)
UnusedIsClean ==
  \A r \in Runs : run[r].phase = "unused" =>
    /\ ~run[r].aborted /\ ~run[r].timedOut /\ ~run[r].manual
    /\ run[r].timerAt = Never /\ run[r].result = "none"

(* A handler that was cancelled by hand has an aborted signal, and the     *)
(* deadline's alarm aborts it too, unless the handler had settled.         *)
EndedIsAborted ==
  \A r \in Runs :
    /\ run[r].manual => run[r].aborted
    /\ run[r].timedOut => run[r].aborted \/ run[r].phase = "settled"

(* Whatever restart() would be asked to repeat was fired.                  *)
FiredIsKnown == active # NoRun \/ reflex.restart => lastFired \in Runs

IInv ==
  /\ TypeOK
  /\ FiredIsKnown
  /\ UnusedIsClean
  /\ EndedIsAborted
  /\ OnlyActiveMayAct
  /\ TimersBelongToActive
  /\ VerdictsExclusive
  /\ NoLateSuccess

-----------------------------------------------------------------------------
(* A timer is set between now and the deadline.                            *)
LEMMA TimerType ==
  ASSUME NEW d \in Deadline, now \in Time
  PROVE  TimerFor(d) \in 0 .. Never
  BY RunnerAssumption DEF Deadline, Time, Never, TimerFor

(* cancel() changes the active invocation only: its timer, its mark and    *)
(* its signal.                                                             *)
LEMMA CancelledRuns ==
  ASSUME TypeOK
  PROVE  /\ Cancelled(run) \in [Runs -> Invocation]
         /\ \A r \in Runs \ {active} : Cancelled(run)[r] = run[r]
         /\ active # NoRun =>
              Cancelled(run)[active] = [run[active] EXCEPT !.timerAt = Never,
                                          !.manual = TRUE, !.aborted = TRUE]
  <1>1. CASE active = NoRun
    BY <1>1, RunnerAssumption DEF TypeOK, Cancelled
  <1>2. CASE active # NoRun
    <2>1. active \in Runs
      BY <1>2 DEF TypeOK
    <2> DEFINE c == [run[active] EXCEPT !.timerAt = Never, !.manual = TRUE, !.aborted = TRUE]
    <2>2. Cancelled(run) = [run EXCEPT ![active] = c]
      BY <1>2, <2>1 DEF TypeOK, Cancelled, Invocation
    <2>3. c \in Invocation
      <3>1. run[active] \in Invocation
        BY <2>1 DEF TypeOK
      <3>2. Never \in 0 .. Never
        BY RunnerAssumption DEF Never
      <3> HIDE DEF Never
      <3> QED
        BY <3>1, <3>2 DEF Invocation
    <2> QED
      BY <1>2, <2>1, <2>2, <2>3 DEF TypeOK
  <1> QED
    BY <1>1, <1>2

(* After a cancellation nobody may act and no timer is armed; what the     *)
(* invariant says of each invocation still holds.                          *)
LEMMA CancelledKeeps ==
  ASSUME IInv
  PROVE  \A r \in Runs :
           LET i == Cancelled(run)[r]
           IN /\ ~(i.phase = "pending" /\ ~i.aborted)
              /\ i.timerAt = Never
              /\ i.phase = run[r].phase /\ i.work = run[r].work /\ i.origin = run[r].origin
              /\ i.result = run[r].result /\ i.overdue = run[r].overdue
              /\ i.timedOut = run[r].timedOut /\ i.deadline = run[r].deadline
              /\ i.manual => i.aborted
              /\ i.timedOut => i.aborted \/ i.phase = "settled"
              /\ ~(i.manual /\ i.timedOut)
              /\ i.phase = "unused" =>
                   ~i.aborted /\ ~i.timedOut /\ ~i.manual /\ i.result = "none"
  <1> SUFFICES ASSUME NEW r \in Runs
               PROVE  LET i == Cancelled(run)[r]
                      IN /\ ~(i.phase = "pending" /\ ~i.aborted)
                         /\ i.timerAt = Never
                         /\ i.phase = run[r].phase /\ i.work = run[r].work
                         /\ i.origin = run[r].origin
                         /\ i.result = run[r].result /\ i.overdue = run[r].overdue
                         /\ i.timedOut = run[r].timedOut /\ i.deadline = run[r].deadline
                         /\ i.manual => i.aborted
                         /\ i.timedOut => i.aborted \/ i.phase = "settled"
                         /\ ~(i.manual /\ i.timedOut)
                         /\ i.phase = "unused" =>
                              ~i.aborted /\ ~i.timedOut /\ ~i.manual /\ i.result = "none"
    OBVIOUS
  <1>1. run[r] \in Invocation
    BY DEF IInv, TypeOK
  <1>2. CASE r # active
    BY <1>1, <1>2, CancelledRuns DEF IInv, OnlyActiveMayAct, TimersBelongToActive,
       UnusedIsClean, EndedIsAborted, VerdictsExclusive, Invocation
  <1>3. CASE r = active
    <2>1. active # NoRun
      BY <1>3, RunnerAssumption
    <2>2. run[r].phase = "pending" /\ ~run[r].aborted
      BY <1>3 DEF IInv, OnlyActiveMayAct
    <2>3. ~run[r].timedOut
      BY <2>2 DEF IInv, EndedIsAborted
    <2> QED
      BY <1>1, <1>3, <2>1, <2>2, <2>3, CancelledRuns DEF IInv, Invocation
  <1> QED
    BY <1>2, <1>3

-----------------------------------------------------------------------------
(* A new invocation's record is well formed and starts clean.              *)
LEMMA OpenedClean ==
  ASSUME IInv, NEW r \in Runs, run[r].phase = "unused",
         NEW w \in Work \cup {NoRun}, NEW origin \in Origin, NEW ok \in BOOLEAN,
         NEW d \in Deadline
  PROVE  LET o == Opened(r, w, origin, ok, d)
         IN /\ o \in Invocation
            /\ ~o.aborted /\ ~o.timedOut /\ ~o.manual /\ o.timerAt = Never
            /\ o.origin = origin /\ o.result = "none"
  <1>1. run[r] \in Invocation /\ lastFired \in Runs \cup {NoRun}
    BY DEF IInv, TypeOK
  <1>2. /\ ~run[r].aborted /\ ~run[r].timedOut /\ ~run[r].manual
        /\ run[r].timerAt = Never /\ run[r].result = "none"
    BY DEF IInv, UnusedIsClean
  <1> DEFINE o1 == [run[r] EXCEPT !.work = w, !.origin = origin, !.valid = ok, !.deadline = d]
  <1>3. /\ o1 \in Invocation
        /\ ~o1.aborted /\ ~o1.timedOut /\ ~o1.manual /\ o1.timerAt = Never
        /\ o1.origin = origin /\ o1.result = "none"
    <2> HIDE DEF Origin, Deadline
    <2> QED BY <1>1, <1>2 DEF Invocation
  <1> QED
    BY <1>3 DEF Opened

(* An invocation, refused, acknowledged or started, keeps the invariant.   *)
LEMMA InvokeKeeps ==
  ASSUME IInv, now' = now, reflex' \in Preemption, NEW r \in Runs,
         NEW w \in Work \cup {NoRun}, NEW origin \in Origin, NEW ok \in BOOLEAN,
         NEW d \in Deadline, Invoke(r, w, origin, ok, d)
  PROVE  IInv'
  <1> DEFINE o == Opened(r, w, origin, ok, d)
  <1>1. run[r].phase = "unused" /\ lastFired' = r
    BY DEF Invoke
  <1>2. /\ o \in Invocation
        /\ ~o.aborted /\ ~o.timedOut /\ ~o.manual /\ o.timerAt = Never
        /\ o.origin = origin /\ o.result = "none"
    BY <1>1, OpenedClean
  <1>3. run \in [Runs -> Invocation] /\ active \in Runs \cup {NoRun} /\ now \in Time
    BY DEF IInv, TypeOK
  <1>4. active # r
    BY <1>1 DEF IInv, OnlyActiveMayAct
  (* Refused or acknowledged: only r changes, and it neither acts nor      *)
  (* waits for a timer.                                                    *)
  <1>5. ASSUME NEW n \in Invocation, run' = [run EXCEPT ![r] = n], active' = active,
               n.phase \in {"refused", "duplicate"},
               ~n.aborted, ~n.timedOut, ~n.manual, n.timerAt = Never,
               n.result = "ok" => n.phase = "duplicate" /\ n.origin # "durable"
        PROVE  IInv'
    <2>1. TypeOK'
      BY <1>1, <1>3, <1>5 DEF TypeOK
    <2>6. FiredIsKnown'
      BY <1>1 DEF FiredIsKnown
    <2>2. \A q \in Runs : run'[q] = IF q = r THEN n ELSE run[q]
      BY <1>3, <1>5
    <2>3. UnusedIsClean' /\ EndedIsAborted' /\ VerdictsExclusive'
      BY <2>2, <1>5 DEF IInv, UnusedIsClean, EndedIsAborted, VerdictsExclusive, Never
    <2>4. OnlyActiveMayAct' /\ TimersBelongToActive'
      BY <2>2, <1>4, <1>5 DEF IInv, OnlyActiveMayAct, TimersBelongToActive, Never
    <2>5. NoLateSuccess'
      BY <2>2, <1>5 DEF IInv, NoLateSuccess
    <2> QED
      BY <2>1, <2>3, <2>4, <2>5, <2>6 DEF IInv
  <1>6. CASE Expired(d) /\ run' = [run EXCEPT ![r] =
                 [o EXCEPT !.phase = "refused", !.result = "timedOut", !.overdue = TRUE]]
             /\ UNCHANGED active
    <2> DEFINE n == [o EXCEPT !.phase = "refused", !.result = "timedOut", !.overdue = TRUE]
    <2>1. n \in Invocation /\ n.phase = "refused" /\ n.result = "timedOut"
          /\ ~n.aborted /\ ~n.timedOut /\ ~n.manual /\ n.timerAt = Never
      <3> HIDE DEF o
      <3> QED BY <1>2 DEF Invocation, Phase, Result
    <2> HIDE DEF n, o
    <2> QED BY <1>5, <1>6, <2>1 DEF n
  <1>7. CASE run' = [run EXCEPT ![r] = [o EXCEPT !.phase = "refused", !.result = "failed"]]
             /\ UNCHANGED active
    <2> DEFINE n == [o EXCEPT !.phase = "refused", !.result = "failed"]
    <2>1. n \in Invocation /\ n.phase = "refused" /\ n.result = "failed"
          /\ ~n.aborted /\ ~n.timedOut /\ ~n.manual /\ n.timerAt = Never
      <3> HIDE DEF o
      <3> QED BY <1>2 DEF Invocation, Phase, Result
    <2> HIDE DEF n, o
    <2> QED BY <1>5, <1>7, <2>1 DEF n
  <1>8. CASE IsDuplicate(w, origin)
             /\ run' = [run EXCEPT ![r] = [o EXCEPT !.phase = "duplicate", !.result = "ok"]]
             /\ UNCHANGED active
    <2> DEFINE n == [o EXCEPT !.phase = "duplicate", !.result = "ok"]
    <2>1. n \in Invocation /\ n.phase = "duplicate" /\ n.origin = origin
          /\ ~n.aborted /\ ~n.timedOut /\ ~n.manual /\ n.timerAt = Never
      <3> HIDE DEF o
      <3> QED BY <1>2 DEF Invocation, Phase, Result
    <2>2. origin # "durable"
      BY <1>8 DEF IsDuplicate
    <2> HIDE DEF n, o
    <2> QED BY <1>5, <1>8, <2>1, <2>2 DEF n
  <1>9. CASE /\ run' = [Cancelled(run) EXCEPT ![r] =
                   [o EXCEPT !.phase = "pending", !.row = "running", !.timerAt = TimerFor(d)]]
             /\ active' = r
    <2> DEFINE n == [o EXCEPT !.phase = "pending", !.row = "running", !.timerAt = TimerFor(d)]
    <2>1. n \in Invocation /\ n.phase = "pending" /\ n.result = "none"
          /\ ~n.aborted /\ ~n.timedOut /\ ~n.manual
      <3>1. TimerFor(d) \in 0 .. Never
        BY <1>3, TimerType
      <3> HIDE DEF o
      <3> QED BY <1>2, <3>1 DEF Invocation, Phase, Row
    <2> HIDE DEF n, o
    <2>2. Cancelled(run) \in [Runs -> Invocation]
      BY CancelledRuns DEF IInv
    <2>3. run' \in [Runs -> Invocation]
          /\ \A q \in Runs : run'[q] = IF q = r THEN n ELSE Cancelled(run)[q]
      BY <1>9, <2>1, <2>2 DEF n
    <2>4. TypeOK'
      BY <1>1, <1>3, <1>9, <2>3 DEF TypeOK
    <2>5. UnusedIsClean' /\ EndedIsAborted' /\ VerdictsExclusive'
      BY <2>1, <2>3, CancelledKeeps DEF UnusedIsClean, EndedIsAborted, VerdictsExclusive, Never
    <2>6. OnlyActiveMayAct' /\ TimersBelongToActive'
      BY <1>9, <2>1, <2>3, CancelledKeeps DEF OnlyActiveMayAct, TimersBelongToActive, Never
    <2>7. NoLateSuccess'
      BY <2>1, <2>3, CancelledKeeps DEF IInv, NoLateSuccess
    <2> QED
      BY <1>1, <2>4, <2>5, <2>6, <2>7 DEF IInv, FiredIsKnown
  <1> QED
    BY <1>6, <1>7, <1>8, <1>9 DEF Invoke

-----------------------------------------------------------------------------
(* Freeing the slot by a cancellation keeps the invariant, whatever        *)
(* happens to the reflex.                                                  *)
LEMMA CancelKeeps ==
  ASSUME IInv, run' = Cancelled(run), active' = NoRun, reflex' \in Preemption,
         reflex'.restart => lastFired \in Runs, UNCHANGED <<now, lastFired>>
  PROVE  IInv'
  <1>1. run' \in [Runs -> Invocation]
    BY CancelledRuns DEF IInv
  <1>2. TypeOK'
    BY <1>1 DEF IInv, TypeOK
  <1>3. UnusedIsClean' /\ EndedIsAborted' /\ VerdictsExclusive'
    BY CancelledKeeps DEF UnusedIsClean, EndedIsAborted, VerdictsExclusive, Never
  <1>4. OnlyActiveMayAct' /\ TimersBelongToActive'
    BY CancelledKeeps, RunnerAssumption DEF OnlyActiveMayAct, TimersBelongToActive, Never
  <1>5. NoLateSuccess'
    BY CancelledKeeps DEF IInv, NoLateSuccess
  <1> QED
    BY <1>2, <1>3, <1>4, <1>5 DEF IInv, FiredIsKnown

(* A success is never overdue: it was not late, so nobody cancelled it     *)
(* and its deadline had not passed when the handler returned.              *)
LEMMA SettleKeeps ==
  ASSUME IInv, NEW r \in Runs, NEW out \in Outcome, HandlerSettles(r, out)
  PROVE  IInv'
  <1> DEFINE i == run[r]
             late == Noticed(i)
             n == Settled(i, out, late, Announced(i, late))
  <1>1. /\ i.phase = "pending" /\ i \in Invocation /\ now \in Time
        /\ run' = [run EXCEPT ![r] = n]
        /\ active' = IF active = r THEN NoRun ELSE active
        /\ UNCHANGED <<now, lastFired, reflex>>
    BY DEF IInv, TypeOK, HandlerSettles
  <1>2. /\ late \in BOOLEAN /\ Announced(i, late) \in BOOLEAN
        /\ Expired(i.deadline) \in BOOLEAN
    BY <1>1 DEF Noticed, Announced, Expired, Invocation
  <1>3. Verdict(i, out, late) \in Result /\ RowStatus(i, Verdict(i, out, late), late) \in Row
    BY <1>1, <1>2 DEF Verdict, RowStatus, Result, Row, Invocation
  <1>4. /\ n \in Invocation /\ n.phase = "settled" /\ n.timerAt = Never
        /\ n.aborted = i.aborted /\ n.manual = i.manual /\ n.timedOut = late
        /\ n.result = Verdict(i, out, late) /\ n.overdue = Expired(i.deadline)
    <2>1. Never \in 0 .. Never
      BY RunnerAssumption DEF Never
    <2> DEFINE v == Verdict(i, out, late)
               w == RowStatus(i, v, late)
               a == Announced(i, late)
               x == Expired(i.deadline)
               m == [i EXCEPT !.phase = "settled", !.timedOut = late, !.timerAt = Never,
                              !.result = v, !.row = w, !.emitted = a, !.overdue = x]
    <2>2. n = m
      BY DEF Settled
    <2>3. i \in Invocation /\ late \in BOOLEAN /\ v \in Result /\ w \in Row
          /\ a \in BOOLEAN /\ x \in BOOLEAN
      BY <1>1, <1>2, <1>3
    <2> HIDE DEF i, late, v, w, a, x, n
    <2>4. m \in Invocation /\ m.phase = "settled" /\ m.timerAt = Never
          /\ m.aborted = i.aborted /\ m.manual = i.manual /\ m.timedOut = late
          /\ m.result = v /\ m.overdue = x
      <3> HIDE DEF Never
      <3> QED BY <2>1, <2>3 DEF Invocation, Phase
    <2> QED BY <2>2, <2>4 DEF v, x
  <1>5. ~(i.manual /\ late)
    BY <1>1 DEF IInv, VerdictsExclusive, Noticed
  <1>6. n.result = "ok" => ~n.overdue
    <2>1. n.result = "ok" => ~late /\ ~i.aborted
      BY <1>4 DEF Verdict
    <2>2. ~i.aborted => ~i.manual
      BY DEF IInv, EndedIsAborted
    <2> QED
      BY <1>1, <1>2, <1>4, <2>1, <2>2 DEF Noticed, Invocation
  <1> HIDE DEF i, late, n
  <1>7. \A q \in Runs : run'[q] = IF q = r THEN n ELSE run[q]
    BY <1>1 DEF IInv, TypeOK
  <1>8. TypeOK'
    BY <1>1, <1>4 DEF IInv, TypeOK
  <1>9. UnusedIsClean' /\ EndedIsAborted' /\ VerdictsExclusive'
    <2>1. i.manual => i.aborted
      BY DEF IInv, EndedIsAborted, i
    <2> QED
      BY <1>4, <1>5, <1>7, <2>1
         DEF IInv, UnusedIsClean, EndedIsAborted, VerdictsExclusive, Never
  <1>10. OnlyActiveMayAct' /\ TimersBelongToActive'
    BY <1>1, <1>4, <1>7, RunnerAssumption DEF IInv, OnlyActiveMayAct, TimersBelongToActive, Never
  <1>11. NoLateSuccess'
    BY <1>4, <1>6, <1>7 DEF IInv, NoLateSuccess
  <1> QED
    BY <1>1, <1>8, <1>9, <1>10, <1>11 DEF IInv, FiredIsKnown

(* The alarm that fires belongs to the active run, which nobody cancelled. *)
LEMMA TimerKeeps ==
  ASSUME IInv, NEW r \in Runs, DeadlineTimer(r)
  PROVE  IInv'
  <1>1. /\ run \in [Runs -> Invocation] /\ run[r] \in Invocation /\ now \in Time
        /\ run[r].timerAt # Never /\ run[r].timerAt \in 0 .. Never
        /\ UNCHANGED <<now, lastFired, reflex>>
    BY DEF IInv, TypeOK, DeadlineTimer, Invocation
  <1>2. active = r /\ run[r].phase = "pending" /\ ~run[r].aborted
    BY <1>1 DEF IInv, TimersBelongToActive, OnlyActiveMayAct
  <1>3. ~run[r].manual
    BY <1>2 DEF IInv, EndedIsAborted
  <1>4. CASE run' = [run EXCEPT ![r].timerAt = TimerFor(run[r].deadline)] /\ UNCHANGED active
    <2> DEFINE n == [run[r] EXCEPT !.timerAt = TimerFor(run[r].deadline)]
    <2>1. TimerFor(run[r].deadline) \in 0 .. Never
      BY <1>1, TimerType DEF Invocation
    <2>2. /\ n \in Invocation /\ n.phase = run[r].phase /\ n.aborted = run[r].aborted
          /\ n.manual = run[r].manual /\ n.timedOut = run[r].timedOut
          /\ n.result = run[r].result /\ n.overdue = run[r].overdue /\ n.origin = run[r].origin
      BY <1>1, <2>1 DEF Invocation
    <2>3. run' = [run EXCEPT ![r] = n]
      BY <1>1, <1>4
    <2> HIDE DEF n
    <2>4. \A q \in Runs : run'[q] = IF q = r THEN n ELSE run[q]
      BY <1>1, <2>3
    <2>5. TypeOK'
      BY <1>1, <1>4, <2>2, <2>3 DEF IInv, TypeOK
    <2>6. UnusedIsClean' /\ EndedIsAborted' /\ VerdictsExclusive'
      BY <1>2, <2>2, <2>4 DEF IInv, UnusedIsClean, EndedIsAborted, VerdictsExclusive, Never
    <2>7. OnlyActiveMayAct' /\ TimersBelongToActive'
      BY <1>2, <1>4, <2>2, <2>4 DEF IInv, OnlyActiveMayAct, TimersBelongToActive, Never
    <2>8. NoLateSuccess'
      BY <1>2, <2>2, <2>4 DEF IInv, NoLateSuccess
    <2> QED
      BY <1>1, <1>2, <1>4, <2>5, <2>6, <2>7, <2>8 DEF IInv, FiredIsKnown
  <1>5. CASE /\ run' = [run EXCEPT ![r].timerAt = Never, ![r].timedOut = TRUE,
                                   ![r].aborted = TRUE]
             /\ active' = IF active = r THEN NoRun ELSE active
    <2> DEFINE n == [run[r] EXCEPT !.timerAt = Never, !.timedOut = TRUE, !.aborted = TRUE]
    <2>1. Never \in 0 .. Never
      BY RunnerAssumption DEF Never
    <2>2. /\ n \in Invocation /\ n.phase = run[r].phase /\ n.aborted /\ n.timedOut
          /\ n.timerAt = Never /\ n.manual = run[r].manual
          /\ n.result = run[r].result /\ n.overdue = run[r].overdue /\ n.origin = run[r].origin
      <3> HIDE DEF Never
      <3> QED BY <1>1, <2>1 DEF Invocation
    <2>3. run' = [run EXCEPT ![r] = n]
      BY <1>1, <1>5
    <2> HIDE DEF n
    <2>4. \A q \in Runs : run'[q] = IF q = r THEN n ELSE run[q]
      BY <1>1, <2>3
    <2>5. TypeOK'
      <3>1. run' \in [Runs -> Invocation]
        BY <1>1, <2>2, <2>3
      <3>2. active' = NoRun
        BY <1>2, <1>5
      <3> QED
        BY <1>1, <3>1, <3>2 DEF IInv, TypeOK
    <2>6. UnusedIsClean' /\ EndedIsAborted' /\ VerdictsExclusive'
      BY <1>2, <1>3, <2>2, <2>4 DEF IInv, UnusedIsClean, EndedIsAborted, VerdictsExclusive, Never
    <2>7. OnlyActiveMayAct' /\ TimersBelongToActive'
      <3>1. active' = NoRun
        BY <1>2, <1>5
      <3>2. \A q \in Runs : ~(run'[q].phase = "pending" /\ ~run'[q].aborted)
        BY <1>2, <2>2, <2>4 DEF IInv, OnlyActiveMayAct
      <3>3. \A q \in Runs : run'[q].timerAt = Never
        BY <1>2, <2>2, <2>4 DEF IInv, TimersBelongToActive
      <3> QED
        BY <3>1, <3>2, <3>3, RunnerAssumption DEF OnlyActiveMayAct, TimersBelongToActive
    <2>8. NoLateSuccess'
      BY <1>2, <2>2, <2>4 DEF IInv, NoLateSuccess
    <2> QED
      BY <1>1, <1>2, <1>5, <2>5, <2>6, <2>7, <2>8 DEF IInv, FiredIsKnown
  <1> QED
    BY <1>4, <1>5 DEF DeadlineTimer

-----------------------------------------------------------------------------
LEMMA InitIInv == Init => IInv
  <1> SUFFICES ASSUME Init PROVE IInv
    OBVIOUS
  <1>1. \A r \in Runs :
          /\ run[r].phase = "unused" /\ run[r].timerAt = Never /\ run[r].result = "none"
          /\ ~run[r].aborted /\ ~run[r].timedOut /\ ~run[r].manual
    BY DEF Init
  <1>2. TypeOK
    BY RunnerAssumption DEF Init, TypeOK, Invocation, Preemption, Time, Never, Deadline,
       Phase, Result, Row, Origin
  <1> QED
    BY <1>1, <1>2, RunnerAssumption DEF Init, IInv, UnusedIsClean, EndedIsAborted,
       OnlyActiveMayAct, TimersBelongToActive, VerdictsExclusive, NoLateSuccess, FiredIsKnown

LEMMA NextIInv == IInv /\ [Next]_vars => IInv'
  <1> SUFFICES ASSUME IInv, [Next]_vars PROVE IInv'
    OBVIOUS
  <1>1. reflex \in Preemption /\ now \in Time /\ MaxTime \in Nat /\ Cooldown \in Nat
    BY RunnerAssumption DEF IInv, TypeOK
  <1>2. ASSUME NEW r \in Runs, DirectRequest(r) PROVE IInv'
    <2>1. PICK w \in Work, ok \in BOOLEAN : Invoke(r, w, "direct", ok, Never)
      BY <1>2 DEF DirectRequest
    <2>2. Never \in Deadline /\ "direct" \in Origin
      BY RunnerAssumption DEF Never, Deadline, Origin
    <2>3. UNCHANGED <<now, reflex>>
      BY <1>2 DEF DirectRequest
    <2> QED
      BY <1>1, <2>1, <2>2, <2>3, InvokeKeeps
  <1>3. ASSUME NEW r \in Runs, DurableRequest(r) PROVE IInv'
    <2>1. PICK w \in Work, ok \in BOOLEAN, d \in Deadline : Invoke(r, w, "durable", ok, d)
      BY <1>3 DEF DurableRequest
    <2>2. "durable" \in Origin
      BY DEF Origin
    <2>3. UNCHANGED <<now, reflex>>
      BY <1>3 DEF DurableRequest
    <2> QED
      BY <1>1, <2>1, <2>2, <2>3, InvokeKeeps
  <1>4. ReflexDone => reflex' \in Preemption /\ ~reflex'.restart
    <2>1. now + Cooldown \in 0 .. MaxTime + Cooldown
      BY <1>1 DEF Time
    <2>2. Never \in 0 .. Never
      BY RunnerAssumption DEF Never
    <2> DEFINE ready == now + Cooldown
    <2> HIDE DEF ready, Never
    <2>3. ready \in 0 .. MaxTime + Cooldown
      BY <2>1 DEF ready
    <2>4. ReflexDone => reflex' = [reflex EXCEPT !.firing = FALSE, !.aborted = FALSE,
                                     !.timerAt = Never, !.restart = FALSE, !.readyAt = ready]
      BY DEF ReflexDone, ready
    <2> QED
      BY <1>1, <2>2, <2>3, <2>4 DEF Preemption
  <1>5. ASSUME NEW r \in Runs, ReflexReturns(r) PROVE IInv'
    <2>1. reflex' \in Preemption /\ ~reflex'.restart /\ now' = now
      BY <1>4, <1>5 DEF ReflexReturns
    <2>2. CASE /\ reflex.restart
               /\ Invoke(r, run[lastFired].work, "restart", run[lastFired].valid,
                         run[lastFired].deadline)
      <3>1. lastFired \in Runs
        BY <2>2 DEF IInv, FiredIsKnown
      <3>2. run[lastFired] \in Invocation /\ "restart" \in Origin
        BY <3>1 DEF IInv, TypeOK, Origin
      <3>3. /\ run[lastFired].work \in Work \cup {NoRun}
            /\ run[lastFired].valid \in BOOLEAN /\ run[lastFired].deadline \in Deadline
        BY <3>2 DEF Invocation
      <3> QED
        BY <2>1, <2>2, <3>2, <3>3, InvokeKeeps
    <2>3. CASE UNCHANGED <<run, active, lastFired>>
      BY <2>1, <2>3 DEF IInv, TypeOK, UnusedIsClean, EndedIsAborted, OnlyActiveMayAct,
         TimersBelongToActive, VerdictsExclusive, NoLateSuccess, FiredIsKnown
    <2> QED
      BY <1>5, <2>2, <2>3 DEF ReflexReturns
  <1>6. CASE ReflexThrows
    <2>1. reflex' \in Preemption /\ ~reflex'.restart
      BY <1>4, <1>6 DEF ReflexThrows
    <2> QED
      BY <1>6, <2>1 DEF ReflexThrows, IInv, TypeOK, UnusedIsClean, EndedIsAborted,
         OnlyActiveMayAct, TimersBelongToActive, VerdictsExclusive, NoLateSuccess, FiredIsKnown
  <1>7. CASE ReflexTimeout
    <2>1. reflex' \in Preemption /\ reflex'.restart = reflex.restart
      BY <1>1, <1>7 DEF ReflexTimeout, Preemption
    <2> QED
      BY <1>7, <2>1 DEF ReflexTimeout, IInv, TypeOK, UnusedIsClean, EndedIsAborted,
         OnlyActiveMayAct, TimersBelongToActive, VerdictsExclusive, NoLateSuccess, FiredIsKnown
  <1>8. CASE ReflexFires
    <2>1. ReflexTimer \in 0 .. Never
      BY <1>1, RunnerAssumption DEF ReflexTimer, Time, Never
    <2> DEFINE again == active # NoRun /\ run[active].origin # "durable"
    <2>2. reflex' = [reflex EXCEPT !.firing = TRUE, !.aborted = FALSE,
                       !.timerAt = ReflexTimer, !.restart = again]
      BY <1>8 DEF ReflexFires
    <2>3. again \in BOOLEAN /\ (again => lastFired \in Runs)
      BY DEF IInv, FiredIsKnown
    <2> HIDE DEF again
    <2>4. reflex' \in Preemption /\ (reflex'.restart => lastFired \in Runs)
      BY <1>1, <2>1, <2>2, <2>3 DEF Preemption
    <2> QED
      BY <1>8, <2>4, CancelKeeps DEF ReflexFires
  <1>9. CASE EmergencyStop
    <2>1. reflex' \in Preemption /\ reflex'.restart = reflex.restart
      BY <1>1, <1>9 DEF EmergencyStop, Preemption
    <2> QED
      BY <1>9, <2>1, CancelKeeps DEF EmergencyStop, IInv, FiredIsKnown
  <1>10. CASE Cancel
    BY <1>1, <1>10, CancelKeeps DEF Cancel, IInv, FiredIsKnown
  <1>11. CASE Tick
    <2>1. now' \in Time
      BY <1>1, <1>11 DEF Tick, Time
    <2> QED
      BY <1>11, <2>1 DEF Tick, IInv, TypeOK, UnusedIsClean, EndedIsAborted,
         OnlyActiveMayAct, TimersBelongToActive, VerdictsExclusive, NoLateSuccess, FiredIsKnown
  <1>12. CASE UNCHANGED vars
    BY <1>12 DEF vars, IInv, TypeOK, UnusedIsClean, EndedIsAborted,
       OnlyActiveMayAct, TimersBelongToActive, VerdictsExclusive, NoLateSuccess, FiredIsKnown
  <1> QED
    BY <1>2, <1>3, <1>5, <1>6, <1>7, <1>8, <1>9, <1>10, <1>11, <1>12, SettleKeeps, TimerKeeps
       DEF Next, Request, Internal

-----------------------------------------------------------------------------
THEOREM Invariance == Spec => []IInv
  BY InitIInv, NextIInv, PTL DEF Spec

(* Every variable keeps its type (the state of runner.ts and preempt.ts).  *)
THEOREM TypeCorrect == Spec => []TypeOK
  BY Invariance, PTL DEF IInv

(* At most one handler may act on the bot, and it is the one in the slot:  *)
(* every path that frees the slot aborts the signal, and the reverse.      *)
THEOREM SingleSlot == Spec => []OnlyActiveMayAct
  BY Invariance, PTL DEF IInv

(* No deadline alarm is left armed by a run that was replaced, cancelled   *)
(* or has settled (clearDeadlineTimer is called on every path).            *)
THEOREM NoStrayAlarm == Spec => []TimersBelongToActive
  BY Invariance, PTL DEF IInv

(* A run is never both cancelled by hand and timed out.                    *)
THEOREM OneVerdict == Spec => []VerdictsExclusive
  BY Invariance, PTL DEF IInv

(* No handler's success is reported at or after its deadline.              *)
THEOREM DeadlineHolds == Spec => []NoLateSuccess
  BY Invariance, PTL DEF IInv

-----------------------------------------------------------------------------
(* The skill_runs row of every invocation.  It is opened by run() and      *)
(* closed by completeRun(); what a cancellation or an alarm does to the    *)
(* signal in between must not make a closed row untrue.                    *)
RowsAreKept ==
  \A r \in Runs :
    /\ run[r].row = "running" <=> run[r].phase = "pending"
    /\ run[r].row = "ok" => run[r].result = "ok" /\ ~run[r].aborted
    /\ run[r].phase = "settled" /\ run[r].origin # "durable"
         => (run[r].emitted <=> run[r].row # "cancelled")
    /\ run[r].phase = "unused" => run[r].row = "none"

(* A cancellation leaves every row alone, and the only signal it aborts is *)
(* that of a handler that has not settled.                                 *)
LEMMA CancelledRows ==
  ASSUME IInv, NEW r \in Runs
  PROVE  LET i == Cancelled(run)[r]
         IN /\ i.phase = run[r].phase /\ i.row = run[r].row /\ i.origin = run[r].origin
            /\ i.result = run[r].result /\ i.emitted = run[r].emitted
            /\ i.aborted => run[r].aborted \/ run[r].phase = "pending"
  <1>1. run[r] \in Invocation
    BY DEF IInv, TypeOK
  <1>2. CASE r # active
    BY <1>1, <1>2, CancelledRuns DEF IInv
  <1>3. CASE r = active
    <2>1. active # NoRun /\ run[r].phase = "pending"
      BY <1>3, RunnerAssumption DEF IInv, OnlyActiveMayAct
    <2>2. Cancelled(run)[r] = [run[r] EXCEPT !.timerAt = Never, !.manual = TRUE,
                                             !.aborted = TRUE]
      BY <1>3, <2>1, CancelledRuns DEF IInv
    <2> QED
      BY <1>1, <2>1, <2>2 DEF Invocation
  <1> QED
    BY <1>2, <1>3

(* The fields the rows are judged by, of one invocation after a step that  *)
(* changes another one, or cancels it.                                     *)
SameRow(i, j) ==
  /\ j.phase = i.phase /\ j.row = i.row /\ j.origin = i.origin
  /\ j.result = i.result /\ j.emitted = i.emitted
  /\ j.aborted => i.aborted \/ i.phase = "pending"

LEMMA CancelKeepsRows ==
  ASSUME IInv, RowsAreKept, run' = Cancelled(run)
  PROVE  RowsAreKept'
  <1>1. \A r \in Runs : SameRow(run[r], run'[r])
    BY CancelledRows DEF SameRow
  <1> QED
    BY <1>1 DEF RowsAreKept, SameRow

LEMMA InvokeKeepsRows ==
  ASSUME IInv, RowsAreKept, NEW r \in Runs, NEW w \in Work \cup {NoRun},
         NEW origin \in Origin, NEW ok \in BOOLEAN, NEW d \in Deadline,
         Invoke(r, w, origin, ok, d)
  PROVE  RowsAreKept'
  <1> DEFINE o == Opened(r, w, origin, ok, d)
  <1>1. run[r].phase = "unused" /\ run[r].row = "none" /\ run[r] \in Invocation
    BY DEF Invoke, RowsAreKept, IInv, TypeOK
  <1>2. o \in Invocation /\ ~o.aborted
    BY <1>1, OpenedClean
  <1>3. o.row = "none"
    BY <1>1 DEF Opened, Invocation
  <1>4. run \in [Runs -> Invocation]
    BY DEF IInv, TypeOK
  <1>5. CASE \E j \in Invocation : /\ run' = [run EXCEPT ![r] = j]
                                   /\ j.phase \in {"refused", "duplicate"}
                                   /\ j.row = "none"
    <2>1. PICK j \in Invocation : /\ run' = [run EXCEPT ![r] = j]
                                  /\ j.phase \in {"refused", "duplicate"}
                                  /\ j.row = "none"
      BY <1>5
    <2>2. \A q \in Runs : run'[q] = IF q = r THEN j ELSE run[q]
      BY <1>4, <2>1
    <2> QED
      BY <2>1, <2>2 DEF RowsAreKept
  <1>6. CASE run' = [Cancelled(run) EXCEPT
                       ![r] = [o EXCEPT !.phase = "pending", !.row = "running",
                                        !.timerAt = TimerFor(d)]]
    <2> DEFINE j == [o EXCEPT !.phase = "pending", !.row = "running",
                              !.timerAt = TimerFor(d)]
    <2>1. j.phase = "pending" /\ j.row = "running"
      BY <1>2 DEF Invocation
    <2>2. Cancelled(run) \in [Runs -> Invocation]
      BY CancelledRuns DEF IInv
    <2> HIDE DEF j
    <2>3. \A q \in Runs : run'[q] = IF q = r THEN j ELSE Cancelled(run)[q]
      BY <1>6, <2>2 DEF j
    <2>4. \A q \in Runs \ {r} : SameRow(run[q], run'[q])
      BY <2>3, CancelledRows DEF SameRow
    <2> QED
      BY <2>1, <2>3, <2>4 DEF RowsAreKept, SameRow
  <1> DEFINE o1 == [o EXCEPT !.phase = "refused", !.result = "timedOut", !.overdue = TRUE]
             o2 == [o EXCEPT !.phase = "refused", !.result = "failed"]
             o3 == [o EXCEPT !.phase = "duplicate", !.result = "ok"]
  <1>7. \/ run' = [run EXCEPT ![r] = o1] \/ run' = [run EXCEPT ![r] = o2]
        \/ run' = [run EXCEPT ![r] = o3]
        \/ run' = [Cancelled(run) EXCEPT
                     ![r] = [o EXCEPT !.phase = "pending", !.row = "running",
                                      !.timerAt = TimerFor(d)]]
    BY DEF Invoke
  <1> HIDE DEF o
  <1>8. o1 \in Invocation /\ o1.phase = "refused" /\ o1.row = "none"
    BY <1>2, <1>3 DEF Invocation, Phase, Result
  <1>9. o2 \in Invocation /\ o2.phase = "refused" /\ o2.row = "none"
    BY <1>2, <1>3 DEF Invocation, Phase, Result
  <1>10. o3 \in Invocation /\ o3.phase = "duplicate" /\ o3.row = "none"
    BY <1>2, <1>3 DEF Invocation, Phase, Result
  <1> HIDE DEF o1, o2, o3
  <1> QED
    BY <1>5, <1>6, <1>7, <1>8, <1>9, <1>10

(* completeRun() closes the row with the verdict; a signal aborted before  *)
(* that makes it "cancelled", unless the deadline did it.                  *)
LEMMA SettleKeepsRows ==
  ASSUME IInv, RowsAreKept, NEW r \in Runs, NEW out \in Outcome, HandlerSettles(r, out)
  PROVE  RowsAreKept'
  <1> DEFINE i == run[r]
             late == Noticed(i)
             n == Settled(i, out, late, Announced(i, late))
  <1>1. run \in [Runs -> Invocation] /\ i \in Invocation /\ run' = [run EXCEPT ![r] = n]
    BY DEF IInv, TypeOK, HandlerSettles
  <1>2. late \in BOOLEAN
    BY <1>1 DEF Noticed, Expired, Invocation
  <1>3. /\ n.phase = "settled" /\ n.result = Verdict(i, out, late) /\ n.origin = i.origin
        /\ n.row = RowStatus(i, Verdict(i, out, late), late) /\ n.aborted = i.aborted
        /\ n.emitted = Announced(i, late)
    BY <1>1 DEF Settled, Invocation
  <1>4. n.row \in {"ok", "failed", "cancelled"}
    BY <1>2, <1>3 DEF RowStatus
  <1>5. n.row = "ok" => n.result = "ok" /\ ~n.aborted
    BY <1>2, <1>3 DEF RowStatus
  <1>6. n.row = "cancelled" <=> ~late /\ i.aborted
    BY <1>2, <1>3 DEF RowStatus
  <1>7. n.origin # "durable" => (n.emitted <=> n.row # "cancelled")
    BY <1>2, <1>3, <1>6 DEF Announced
  <1> HIDE DEF i, late, n
  <1>8. \A q \in Runs : run'[q] = IF q = r THEN n ELSE run[q]
    BY <1>1
  <1> QED
    BY <1>3, <1>4, <1>5, <1>7, <1>8 DEF RowsAreKept

LEMMA TimerKeepsRows ==
  ASSUME IInv, RowsAreKept, NEW r \in Runs, DeadlineTimer(r)
  PROVE  RowsAreKept'
  <1>1. run \in [Runs -> Invocation] /\ run[r].timerAt # Never
    BY DEF IInv, TypeOK, DeadlineTimer
  <1>2. run[r].phase = "pending"
    BY <1>1 DEF IInv, TimersBelongToActive, OnlyActiveMayAct
  <1> DEFINE a == [run[r] EXCEPT !.timerAt = TimerFor(run[r].deadline)]
             b == [run[r] EXCEPT !.timerAt = Never, !.timedOut = TRUE, !.aborted = TRUE]
  <1>3. run' = [run EXCEPT ![r] = a] \/ run' = [run EXCEPT ![r] = b]
    BY <1>1 DEF DeadlineTimer
  <1>4. SameRow(run[r], a) /\ SameRow(run[r], b)
    BY <1>1, <1>2 DEF SameRow, Invocation
  <1>5. \A q \in Runs : SameRow(run[q], run[q])
    BY DEF SameRow
  <1> HIDE DEF a, b
  <1>6. \A q \in Runs : SameRow(run[q], run'[q])
    BY <1>1, <1>3, <1>4, <1>5
  <1> QED
    BY <1>6 DEF RowsAreKept, SameRow

LEMMA NextKeepsRows == IInv /\ RowsAreKept /\ [Next]_vars => RowsAreKept'
  <1> SUFFICES ASSUME IInv, RowsAreKept, [Next]_vars PROVE RowsAreKept'
    OBVIOUS
  <1>1. run' = run => RowsAreKept'
    BY DEF RowsAreKept
  <1>2. "direct" \in Origin /\ "durable" \in Origin /\ "restart" \in Origin
    BY DEF Origin
  <1>3. Never \in Deadline
    BY RunnerAssumption DEF Never, Deadline
  <1>4. ASSUME NEW r \in Runs, DirectRequest(r) PROVE RowsAreKept'
    BY <1>2, <1>3, <1>4, InvokeKeepsRows DEF DirectRequest
  <1>5. ASSUME NEW r \in Runs, DurableRequest(r) PROVE RowsAreKept'
    BY <1>2, <1>5, InvokeKeepsRows DEF DurableRequest
  <1>6. ASSUME NEW r \in Runs, ReflexReturns(r) PROVE RowsAreKept'
    <2>1. CASE /\ reflex.restart
               /\ Invoke(r, run[lastFired].work, "restart", run[lastFired].valid,
                         run[lastFired].deadline)
      <3>1. run[lastFired] \in Invocation
        BY <2>1 DEF IInv, FiredIsKnown, TypeOK
      <3>2. /\ run[lastFired].work \in Work \cup {NoRun}
            /\ run[lastFired].valid \in BOOLEAN /\ run[lastFired].deadline \in Deadline
        BY <3>1 DEF Invocation
      <3> QED
        BY <1>2, <2>1, <3>2, InvokeKeepsRows
    <2> QED
      BY <1>1, <1>6, <2>1 DEF ReflexReturns
  <1>7. CASE Cancel \/ ReflexFires \/ EmergencyStop
    BY <1>7, CancelKeepsRows DEF Cancel, ReflexFires, EmergencyStop
  <1>8. CASE ReflexTimeout \/ ReflexThrows \/ Tick \/ UNCHANGED vars
    BY <1>1, <1>8 DEF ReflexTimeout, ReflexThrows, Tick, vars
  <1> QED
    BY <1>4, <1>5, <1>6, <1>7, <1>8, SettleKeepsRows, TimerKeepsRows
       DEF Next, Request, Internal

(* Every skill_runs row is open exactly while its handler runs, a row      *)
(* closed as ok belongs to a reported success nobody aborted, and the bus  *)
(* stays silent only about rows closed as cancelled (completeRun).         *)
THEOREM TruthfulRows == Spec => []RowTellsTheTruth
  <1>1. Init => RowsAreKept
    BY DEF Init, RowsAreKept
  <1>2. RowsAreKept => RowTellsTheTruth
    BY DEF RowsAreKept, RowTellsTheTruth
  <1> QED
    BY <1>1, <1>2, NextKeepsRows, Invariance, PTL DEF Spec

=============================================================================
