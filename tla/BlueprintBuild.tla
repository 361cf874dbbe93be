--------------------------- MODULE BlueprintBuild ---------------------------
(***************************************************************************)
(* One construction job from scan to verification: the handler of          *)
(* src/skills/construction/buildBlueprint.ts with the attempts it journals *)
(* (src/world/transactions/store.ts) and the clicks of the executor        *)
(* (src/world/blockExecutor.ts).                                           *)
(*                                                                         *)
(* The handler looks at the blueprint in batches, raises a column of       *)
(* temporary supports where a unit has nothing to be placed against,       *)
(* places the unit, takes the column down again, compares everything,      *)
(* repairs once and compares again.  Between any two looks other players   *)
(* edit, the job is paused or cancelled, the handler is aborted and        *)
(* finishes beside the one that replaced it, or the process ends.          *)
(***************************************************************************)
EXTENDS Integers, Sequences, FiniteSetsExt

CONSTANTS
  Units,      \* the cells of the blueprint, 1 .. n in placement order
  Supports,   \* the cells of the columns
  Column,     \* the column beside a unit, from the ground up
  Neighbours, \* what a unit can be placed against
  Grounded,   \* units that stand on the ground
  Batch,      \* BUILD_EXECUTION_BATCH_SIZE
  Runs,       \* invocations of the handler, 1 .. n in the order they start
  Plans,      \* task plans of the job, 1 .. n
  MaxEdits, MaxFaults \* bounds on other players' edits and process ends

ASSUME BuildAssumption ==
  /\ IsFiniteSet(Units) /\ Units = 1 .. Cardinality(Units) /\ Units \cap Supports = {}
  /\ Column \in [Units -> Seq(Supports)] /\ \A u \in Units : IsInjective(Column[u])
  /\ Neighbours \in [Units -> SUBSET (Units \cup Supports)] /\ Grounded \subseteq Units
  /\ Batch \in Nat \ {0}
  /\ IsFiniteSet(Runs) /\ Runs = 1 .. Cardinality(Runs)
  /\ IsFiniteSet(Plans) /\ Plans = 1 .. Cardinality(Plans) /\ 1 \in Plans
  /\ MaxEdits \in Nat /\ MaxFaults \in Nat

Cells == Units \cup Supports

(* "other" is a block of another kind, or the unit's in a wrong state.     *)
Blocks == {"air", "unit", "prop", "other"}

VARIABLES
  world,  \* the blocks as the server has them
  own,    \* support cells where the job's own block stands
  job,    \* construction_jobs
  tx,     \* world_transactions, named by the invocation that opened them
  latest, \* the last applied change of a support cell in the job's history
  inv,    \* the invocations
  edits, faults

vars == <<world, own, job, tx, latest, inv, edits, faults>>

NoTx == [status |-> "none", plan |-> 0, planned |-> {}, used |-> FALSE, spoiled |-> FALSE]

(* pos, count and issues are those of the look in progress, todo the units *)
(* that it found missing, propped those of them planned with a column,     *)
(* stood the height of the column that stands, since the units another     *)
(* player changed after this look had passed them.                         *)
Fresh == [pc |-> "none", phase |-> "primary", plan |-> 0, aborted |-> FALSE, tx |-> 0,
          pos |-> 1, count |-> 0, issues |-> {}, since |-> {},
          todo |-> {}, propped |-> {}, stood |-> 0,
          click |-> "no", confirmed |-> FALSE, result |-> "ok"]

Init ==
  /\ world \in [Cells -> {"air", "unit"}] /\ \A c \in Supports : world[c] = "air"
  /\ own = {}
  /\ job = [status |-> "pending", plan |-> 1, placed |-> 0]
  /\ tx = [r \in Runs |-> NoTx]
  /\ latest = [c \in Supports |-> "none"]
  /\ inv = [r \in Runs |-> Fresh]
  /\ edits = 0 /\ faults = 0

-----------------------------------------------------------------------------
(***************************************************************************)
(* The job's row and its attempts.                                         *)
(***************************************************************************)
(* activeCondition: the attempt's writes hold for a running job of its own *)
(* plan only.                                                              *)
Writable(i) == job.status = "running" /\ job.plan = i.plan

Active(i) == ~i.aborted /\ Writable(i)

Open == {t \in Runs : tx[t].status = "open"}

Completed(a) ==
  IF a.status # "open" \/ a.planned # {} THEN a
  ELSE [a EXCEPT !.status = IF a.spoiled THEN "ended" ELSE "completed"]

Cancelled(a) == IF a.status # "open" \/ a.planned # {} THEN a ELSE [a EXCEPT !.status = "ended"]

Goes(r, i) == inv' = [inv EXCEPT ![r] = i]

(* The handler returns: its attempt is closed unless a click is uncertain, *)
(* and the job gets what was reached and the status, if it is still the    *)
(* attempt's to write.                                                     *)
Ends(r, i, table, status) ==
  /\ tx' = IF i.tx = 0 THEN table ELSE [table EXCEPT ![i.tx] = Cancelled(@)]
  /\ job' = IF Writable(i) THEN [job EXCEPT !.status = status, !.placed = i.count] ELSE job
  /\ Goes(r, [Fresh EXCEPT !.pc = "done"])

Interrupted(r, i) == Ends(r, i, tx, "blocked")

(* An uncertain click of any attempt on the job.                           *)
(* (Mutant: of this plan's attempts only.)                                 *)
UncertainOfPlan(i) == \E t \in Open : tx[t].planned # {} /\ tx[t].plan = i.plan

Uncertain(i) == \E t \in Open : tx[t].planned # {}

(* It blocks the job, and leaves the attempt as it is.                     *)
LeavesUncertain(r, i) ==
  /\ job' = IF Writable(i) THEN [job EXCEPT !.status = "blocked"] ELSE job
  /\ Goes(r, [Fresh EXCEPT !.pc = "done"])
  /\ UNCHANGED tx

(* beginOrReuseConstructionAttempt(), and once more if the plan's open     *)
(* attempt has been used.                                                  *)
Reusable(i) == {t \in Open : tx[t].plan = i.plan /\ ~tx[t].used}

Journal(r, i) == IF Reusable(i) = {} THEN r ELSE Min(Reusable(i))

Begun(r, i) ==
  [t \in Runs |->
     IF t = Journal(r, i) THEN [NoTx EXCEPT !.status = "open", !.plan = i.plan]
     ELSE IF t \in Open THEN Completed(tx[t]) ELSE tx[t]]

-----------------------------------------------------------------------------
(***************************************************************************)
(* Start: the job must be the plan's and not be held.  The runner has one  *)
(* slot: whoever ran is aborted.                                           *)
(***************************************************************************)
Start(r) ==
  /\ inv[r].pc = "none" /\ \A q \in Runs : q < r => inv[q].pc # "none"
  /\ job.status \in {"pending", "running", "blocked", "failed"}
  /\ job' = [job EXCEPT !.status = "running"]
  /\ inv' = [q \in Runs |-> IF q = r THEN [Fresh EXCEPT !.pc = "scan", !.plan = job.plan]
                            ELSE [inv[q] EXCEPT !.aborted = inv[q].pc \notin {"none", "done"}]]
  /\ UNCHANGED <<world, own, tx, latest, edits, faults>>

(* A look at the next batch of units, by a scan, a comparison or a search  *)
(* for what to repair.                                                     *)
Seen(i) == {u \in Units : u >= i.pos /\ u < i.pos + Batch}

Looked(i) ==
  [i EXCEPT !.pos = i.pos + Batch,
            !.count = i.count + Cardinality({u \in Seen(i) : world[u] = "unit"}),
            !.issues = i.issues \cup {IF world[u] = "air" THEN "missing" ELSE "wrong" :
                                        u \in {v \in Seen(i) : world[v] # "unit"}},
            !.todo = i.todo \cup {u \in Seen(i) : world[u] = "air"},
            !.since = i.since \ Seen(i)]

Looks(i, pc, phase) ==
  [i EXCEPT !.pc = pc, !.phase = phase, !.pos = 1, !.count = 0, !.issues = {}, !.since = {},
            !.todo = {}]

(* verifyBuild() keeps no work, collectRepairCandidates() no count.        *)
LookedFor(i) ==
  CASE i.pc = "scan"    -> Looked(i)
    [] i.pc = "verify"  -> [Looked(i) EXCEPT !.todo = {}]
    [] i.pc = "collect" -> [Looked(i) EXCEPT !.count = i.count]

Look(r) ==
  LET i == inv[r]
  IN /\ i.pc \in {"scan", "verify", "collect"} /\ i.pos \in Units
     /\ IF i.aborted THEN Interrupted(r, i)
        ELSE \/ i.pc = "scan" /\ "wrong" \in Looked(i).issues /\ Ends(r, i, tx, "failed")
             \/ i.pc = "scan" /\ Ends(r, i, tx, "blocked")    \* a block that is not loaded
             \/ /\ i.pc = "scan" => "wrong" \notin Looked(i).issues
                /\ Goes(r, LookedFor(i))
                /\ UNCHANGED <<job, tx>>
     /\ UNCHANGED <<world, own, latest, edits, faults>>

Through(i, pc) == i.pc = pc /\ i.pos \notin Units

-----------------------------------------------------------------------------
(***************************************************************************)
(* After the scan: nothing begins beside an uncertain click, nor beside a  *)
(* block that may be a support left by an earlier attempt.                 *)
(***************************************************************************)
(* Mutant of Residue: only what a cleanup left is looked for.              *)
ResidueOfCleanups == {c \in Supports : latest[c] = "left" /\ world[c] # "air"}

Residue == {c \in Supports : latest[c] \in {"raised", "left"} /\ world[c] # "air"}

Scanned(r) ==
  LET i == inv[r]
  IN /\ Through(i, "scan")
     /\ IF ~Active(i) THEN Interrupted(r, i)
        ELSE IF Uncertain(i)
        THEN /\ job' = [job EXCEPT !.status = "blocked", !.placed = i.count]
             /\ Goes(r, [Fresh EXCEPT !.pc = "done"]) /\ UNCHANGED tx
        ELSE IF Residue # {} THEN Ends(r, i, tx, "failed")
        ELSE /\ job' = [job EXCEPT !.placed = i.count]
             /\ IF i.todo # {} THEN Goes(r, [i EXCEPT !.pc = "materials"]) /\ UNCHANGED tx
                ELSE /\ tx' = Begun(r, i)
                     /\ Goes(r, Looks([i EXCEPT !.tx = Journal(r, i)], "verify", "check"))
     /\ UNCHANGED <<world, own, latest, edits, faults>>

(* planExecution(), over the world as it will be when the units before     *)
(* have been placed and their columns are down again.                      *)
Referenced(u, placed) == u \in Grounded \/ \E n \in Neighbours[u] : world[n] # "air" \/ n \in placed

Floating(i) == {u \in i.todo : ~Referenced(u, {v \in i.todo : v < u})}

CanRaise(u) == Column[u] # <<>> /\ \A l \in DOMAIN Column[u] : world[Column[u][l]] = "air"

(* In the repair phase every failure is reported with a fresh comparison.  *)
Reports(r, i, result) ==
  /\ Goes(r, Looks([i EXCEPT !.result = result, !.click = "no"], "verify", "report"))
  /\ UNCHANGED <<job, tx>>

(* Materials are fetched, which may take a while or fail; then the work is *)
(* planned and its attempt opened.                                         *)
Prepare(r) ==
  LET i == inv[r]
      Ready == [i EXCEPT !.pc = "unit", !.propped = Floating(i)]
  IN /\ i.pc = "materials"
     /\ \/ i.phase = "primary" /\ Ends(r, i, tx, "blocked")
        \/ i.phase = "repair" /\ Reports(r, i, "blocked")
        \/ /\ ~i.aborted /\ \A u \in Floating(i) : CanRaise(u)
           /\ IF i.phase = "repair" THEN Goes(r, Ready) /\ UNCHANGED <<job, tx>>
              ELSE IF ~Active(i) THEN Interrupted(r, i)
              ELSE IF Uncertain(i) THEN LeavesUncertain(r, i)
              ELSE /\ tx' = Begun(r, i)
                   /\ Goes(r, [Ready EXCEPT !.tx = Journal(r, i)])
                   /\ UNCHANGED job
     /\ UNCHANGED <<world, own, latest, edits, faults>>

-----------------------------------------------------------------------------
(***************************************************************************)
(* A unit: the column up, the unit, the column down.                       *)
(***************************************************************************)
Current(i) == Min(i.todo)
Raising(i) == i.pc = "place" /\ Current(i) \in i.propped /\ i.stood < Len(Column[Current(i)])

Target(i) ==
  IF i.pc = "cleanup" THEN Column[Current(i)][i.stood]
  ELSE IF Raising(i) THEN Column[Current(i)][i.stood + 1] ELSE Current(i)

Wanted(i) == IF i.pc = "cleanup" THEN "air" ELSE IF Raising(i) THEN "prop" ELSE "unit"

NextUnit(r) ==
  LET i == inv[r]
  IN /\ i.pc = "unit"
     /\ IF i.todo = {}
        THEN Goes(r, Looks(i, "verify", i.phase)) /\ UNCHANGED <<job, tx>>
        ELSE IF ~Active(i) THEN Interrupted(r, i)
        ELSE /\ Goes(r, [i EXCEPT !.pc = "place", !.stood = 0, !.confirmed = FALSE, !.result = "ok"])
             /\ UNCHANGED <<job, tx>>
     /\ UNCHANGED <<world, own, latest, edits, faults>>

(* executeUnit() has returned.                                             *)
Returns(r, i, table) ==
  LET n == i.count + IF i.confirmed THEN 1 ELSE 0
      j == [i EXCEPT !.count = n, !.click = "no", !.confirmed = FALSE]
      row == IF i.confirmed /\ Writable(i) THEN [job EXCEPT !.placed = n] ELSE job
  IN IF i.result = "interrupted" \/ (i.confirmed /\ ~Writable(i)) THEN Ends(r, j, table, "blocked")
     ELSE IF i.result # "ok" /\ i.phase = "primary" THEN Ends(r, j, table, i.result)
     ELSE /\ Goes(r, IF i.result = "ok" THEN [j EXCEPT !.pc = "unit", !.todo = @ \ {Current(i)}]
                     ELSE Looks(j, "verify", "report"))
          /\ job' = row /\ tx' = table

(* A step of it is over: the column comes down, unless the signal says     *)
(* that nothing more is to be touched.                                     *)
TakesDown(r, i, table) ==
  IF i.aborted \/ i.stood = 0
  THEN Returns(r, [i EXCEPT !.result = IF i.aborted THEN "interrupted" ELSE @], table)
  ELSE /\ Goes(r, [i EXCEPT !.pc = "cleanup", !.click = "no"])
       /\ job' = job /\ tx' = table

Fails(r, i, result, table) == TakesDown(r, [i EXCEPT !.result = result], table)

(* The row is planned and the click is made: between the two the executor  *)
(* awaits only its hooks, which look at signal and job once more.          *)
Clicks(r, i) ==
  /\ tx[i.tx].status = "open"
  /\ tx' = [tx EXCEPT ![i.tx].planned = @ \cup {<<Target(i), Wanted(i)>>}, ![i.tx].used = TRUE]
  /\ Goes(r, [i EXCEPT !.click = "sent"])
  /\ UNCHANGED job

Place(r) ==
  LET i == inv[r]  live == world[Target(i)]
  IN /\ i.pc = "place" /\ i.click = "no"
     /\ IF ~Active(i) THEN Fails(r, i, "interrupted", tx)
        ELSE IF live = Wanted(i)
        THEN IF Raising(i) THEN Returns(r, [i EXCEPT !.result = "blocked"], tx)
             ELSE TakesDown(r, [i EXCEPT !.confirmed = TRUE], tx)
        ELSE IF live # "air" THEN Fails(r, i, "failed", tx)
        ELSE \/ (Raising(i) \/ Referenced(Current(i), {})) /\ Clicks(r, i)
             \/ Fails(r, i, "blocked", tx)
     /\ UNCHANGED <<world, own, latest, edits, faults>>

(* A cleanup that cannot go on leaves what stands.                         *)
Dig(r) ==
  LET i == inv[r]
  IN /\ i.pc = "cleanup" /\ i.click = "no"
     /\ IF i.stood = 0 THEN Returns(r, i, tx)
        ELSE IF ~Active(i) THEN Returns(r, [i EXCEPT !.result = "interrupted"], tx)
        ELSE \/ world[Target(i)] = "prop" /\ Clicks(r, i)
             \/ Returns(r, [i EXCEPT !.result = "blocked"], tx)
     /\ UNCHANGED <<world, own, latest, edits, faults>>

(* The server carries the click out, if it still can.                      *)
Lands(r) ==
  LET i == inv[r]  c == Target(i)
  IN /\ i.pc \in {"place", "cleanup"} /\ i.click = "sent"
     /\ world[c] = IF i.pc = "cleanup" THEN "prop" ELSE "air"
     /\ world' = [world EXCEPT ![c] = Wanted(i)]
     /\ own' = IF Wanted(i) = "prop" THEN own \cup {c} ELSE own \ {c}
     /\ Goes(r, [i EXCEPT !.click = "answered"])
     /\ UNCHANGED <<job, tx, latest, edits, faults>>

(* What a planned change came to, by what stands there now.  A row that    *)
(* has its verdict already keeps it.                                       *)
Judged(attempt, row, applied) ==
  IF row \notin attempt.planned THEN attempt
  ELSE [attempt EXCEPT !.planned = @ \ {row}, !.spoiled = @ \/ ~applied]

Recorded(wanted, live) ==
  CASE wanted = "prop" /\ live = "prop"           -> {"raised"}
    [] wanted = "air" /\ live = "air"             -> {"down"}
    [] wanted = "air" /\ live \notin {"air", "prop"} -> {"left"}
    [] OTHER                                      -> {}

LatestAfter(rows, c) ==
  LET news == UNION {Recorded(row[2], world[c]) : row \in {q \in rows : q[1] = c}}
  IN IF news = {} THEN latest[c] ELSE CHOOSE n \in news : TRUE

(* The executor rereads the cell.  If it cannot, the row stays planned.    *)
Verdict(r) ==
  LET i == inv[r]  row == <<Target(i), Wanted(i)>>  live == world[Target(i)]
      changed == live # IF i.pc = "cleanup" THEN "prop" ELSE "air"
      applied == IF i.pc = "cleanup" THEN changed ELSE live = Wanted(i)
      table == [tx EXCEPT ![i.tx] = Judged(@, row, applied)]
      j == [i EXCEPT !.click = "no"]
  IN /\ i.pc \in {"place", "cleanup"} /\ i.click \in {"sent", "answered"}
     /\ \/ /\ latest' = [c \in Supports |-> LatestAfter({row} \cap tx[i.tx].planned, c)]
           /\ IF i.pc = "cleanup"
              THEN IF live = "air" /\ ~i.aborted
                   THEN Goes(r, [j EXCEPT !.stood = @ - 1]) /\ job' = job /\ tx' = table
                   ELSE Returns(r, [j EXCEPT !.result = IF i.aborted THEN "interrupted" ELSE "blocked"],
                                table)
              ELSE IF ~applied THEN Fails(r, j, "blocked", table)
              ELSE IF ~Raising(i) THEN TakesDown(r, [j EXCEPT !.confirmed = TRUE], table)
              ELSE IF i.aborted THEN Fails(r, j, "interrupted", table)
              ELSE Goes(r, [j EXCEPT !.stood = @ + 1]) /\ job' = job /\ tx' = table
        \/ /\ UNCHANGED latest
           /\ IF i.pc = "place" THEN Fails(r, j, "blocked", tx)
              ELSE Returns(r, [j EXCEPT !.result = "blocked"], tx)
     /\ UNCHANGED <<world, own, edits, faults>>

-----------------------------------------------------------------------------
(***************************************************************************)
(* The comparison decides.                                                 *)
(***************************************************************************)
(* Mutant of Matches: what the scan found complete needs no comparison.    *)
MatchesAsScanned(i) == i.phase = "check" \/ i.issues = {}

Matches(i) == i.issues = {}

(* The attempt completes first, and must say so.                           *)
Succeeds(r, i) ==
  LET a == Completed(tx[i.tx])
  IN IF a.status # "completed" THEN Ends(r, i, tx, "blocked")
     ELSE IF ~Writable(i) THEN Ends(r, i, [tx EXCEPT ![i.tx] = a], "blocked")
     ELSE /\ tx' = [tx EXCEPT ![i.tx] = a]
          /\ job' = [job EXCEPT !.status = "completed", !.placed = i.count]
          /\ Goes(r, [Fresh EXCEPT !.pc = "done"])

Verified(r) ==
  LET i == inv[r]
  IN /\ Through(i, "verify")
     /\ IF i.aborted \/ (i.phase # "check" /\ ~Writable(i)) THEN Interrupted(r, i)
        ELSE IF i.phase = "report" THEN Ends(r, i, tx, i.result)
        ELSE IF Matches(i) THEN Succeeds(r, i)
        ELSE IF i.phase \in {"check", "repair"} THEN Ends(r, i, tx, "blocked")
        ELSE IF "wrong" \in i.issues THEN Reports(r, i, "blocked")
        ELSE /\ Goes(r, [Looks(i, "collect", "repair") EXCEPT !.count = i.count])
             /\ job' = [job EXCEPT !.placed = i.count] /\ UNCHANGED tx
     /\ UNCHANGED <<world, own, latest, edits, faults>>

Collected(r) ==
  LET i == inv[r]
  IN /\ Through(i, "collect")
     /\ IF i.aborted THEN Interrupted(r, i)
        ELSE IF "wrong" \in i.issues \/ i.todo = {} THEN Reports(r, i, "blocked")
        ELSE Goes(r, [i EXCEPT !.pc = "materials"]) /\ UNCHANGED <<job, tx>>
     /\ UNCHANGED <<world, own, latest, edits, faults>>

-----------------------------------------------------------------------------
(***************************************************************************)
(* Everyone else.                                                          *)
(***************************************************************************)
Abort(r) ==
  /\ inv[r].pc \notin {"none", "done"} /\ ~inv[r].aborted
  /\ Goes(r, [inv[r] EXCEPT !.aborted = TRUE])
  /\ UNCHANGED <<world, own, job, tx, latest, edits, faults>>

(* manageBuild(): hold, and go on under a new plan.                        *)
Hold ==
  /\ job.status \in {"pending", "running", "blocked"}
  /\ job' = [job EXCEPT !.status = "paused"]
  /\ UNCHANGED <<world, own, tx, latest, inv, edits, faults>>

Resume ==
  /\ job.status \in {"paused", "blocked", "failed"} /\ job.plan + 1 \in Plans
  /\ job' = [job EXCEPT !.status = "pending", !.plan = @ + 1]
  /\ UNCHANGED <<world, own, tx, latest, inv, edits, faults>>

Edit(c) ==
  /\ edits < MaxEdits /\ edits' = edits + 1
  /\ \E b \in Blocks \ {world[c]} : world' = [world EXCEPT ![c] = b]
  /\ own' = own \ {c}
  /\ inv' = [r \in Runs |-> IF inv[r].pc = "verify" THEN [inv[r] EXCEPT !.since = @ \cup ({c} \cap Units)]
                            ELSE inv[r]]
  /\ UNCHANGED <<job, tx, latest, faults>>

(* The bot spawns again: what is still planned is judged by what stands,   *)
(* the server having answered every click made before.                     *)
Reconcile ==
  /\ Open # {} /\ \A r \in Runs : inv[r].pc \in {"none", "done"} \/ inv[r].aborted
  /\ LET unmet(row) == world[row[1]] # row[2]
         judged(t) == [tx[t] EXCEPT !.planned = {},
                                    !.spoiled = @ \/ \E row \in tx[t].planned : unmet(row)]
     IN tx' = [t \in Runs |-> IF t \in Open THEN Completed(judged(t)) ELSE tx[t]]
  /\ latest' = [c \in Supports |-> LatestAfter(UNION {tx[t].planned : t \in Open}, c)]
  /\ inv' = [r \in Runs |-> IF inv[r].click = "sent" THEN [inv[r] EXCEPT !.click = "answered"] ELSE inv[r]]
  /\ UNCHANGED <<world, own, job, edits, faults>>

(* The process ends and starts again: reconcileOpenTransactions().         *)
Crash ==
  /\ faults < MaxFaults /\ faults' = faults + 1
  /\ \E r \in Runs : inv[r].pc \notin {"none", "done"}
  /\ inv' = [r \in Runs |-> IF inv[r].pc = "none" THEN Fresh ELSE [Fresh EXCEPT !.pc = "done"]]
  /\ tx' = [t \in Runs |-> Completed(tx[t])]
  /\ UNCHANGED <<world, own, job, latest, edits>>

Step(r) ==
  \/ Look(r) \/ Scanned(r) \/ Prepare(r) \/ NextUnit(r) \/ Place(r) \/ Dig(r)
  \/ Verdict(r) \/ Verified(r) \/ Collected(r)

Next ==
  \/ \E r \in Runs : Start(r) \/ Step(r) \/ Lands(r) \/ Abort(r)
  \/ \E c \in Cells : Edit(c)
  \/ Hold \/ Resume \/ Reconcile \/ Crash

Spec == Init /\ [][Next]_vars

-----------------------------------------------------------------------------
(***************************************************************************)
(* Properties.                                                             *)
(***************************************************************************)
Click == {"no", "sent", "answered"}

TypeOK ==
  /\ world \in [Cells -> Blocks] /\ own \subseteq Supports
  /\ job \in [status : {"pending", "running", "paused", "blocked", "failed", "completed"},
              plan : Plans, placed : Nat]
  /\ \A r \in Runs : /\ tx[r].status \in {"none", "open", "completed", "ended"}
                     /\ tx[r].planned \subseteq Cells \X {"air", "unit", "prop"}
                     /\ inv[r].click \in Click /\ inv[r].todo \subseteq Units

(* "The full target is compared before completion": when a job becomes     *)
(* 'completed', every unit stands, but for those another player changed    *)
(* after this very comparison had passed them.  Whatever earlier looks,    *)
(* counts or clicks said does not matter.                                  *)
CompletedIsBuilt ==
  [][job.status # "completed" /\ job'.status = "completed" =>
       \E r \in Runs : /\ inv[r].pc = "verify" /\ inv'[r].pc = "done"
                       /\ \A u \in Units : world[u] = "unit" \/ u \in inv[r].since]_vars

(* A job is never completed while a support of its own stands: not one     *)
(* left by an abort, a process end, an uncertain click or an earlier plan. *)
NoSupportLeftBehind == job.status = "completed" => own = {}

(* "Never rerun that ordinal until live reconciliation has classified it": *)
(* no attempt, of this plan or another, clicks a cell of the job while an  *)
(* earlier click on it has no verdict.                                     *)
NoSecondClick ==
  \A s, t \in Runs : \A p \in tx[s].planned, q \in tx[t].planned :
    p[1] = q[1] => s = t /\ p = q

=============================================================================
