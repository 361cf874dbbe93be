------------------------- MODULE WorldTransactions -------------------------
(***************************************************************************)
(* The journal of world changes: the transaction and change tables         *)
(* (src/world/transactions/store.ts, service.ts), the executor that clicks *)
(* between two rereads (src/world/blockExecutor.ts), the skills that edit  *)
(* (src/skills/world/journal.ts, src/skills/construction/buildBlueprint.ts)*)
(* and the one that undoes (src/skills/world/undoTransaction.ts), and the  *)
(* reconciliation of what a death, a lost connection or a crash left open  *)
(* (src/runtime/connection.ts, src/app/session.ts).                        *)
(*                                                                         *)
(* A row is planned before the click and resolved after it.  Between the   *)
(* two the click travels to the server, other players edit, the operation  *)
(* is aborted and another starts, the bot spawns and reconciles: also      *)
(* beside an operation that is still at work, for the runner starts one    *)
(* whether or not the bot is alive and every spawn reconciles.             *)
(***************************************************************************)
EXTENDS Integers, FiniteSets

CONSTANTS
  Cells,      \* block positions
  Solids,     \* kinds of block other than air
  Air,        \* the replaceable block
  NTx,        \* transactions, in the order they are created
  NOrds,      \* changes of a transaction
  Ops,        \* operations in progress: the active handler and aborted ones
  BuildPlans, \* task plans that build (one construction job)
  InMission,  \* those that are steps of the mission
  MaxChanges, \* maxWorldChanges of the mission
  MaxRows,    \* bound on the changes planned in all
  MaxEdits,   \* bound on other players' edits
  MaxFaults,  \* bound on deaths, lost connections, crashes and other spawns
  NoBlock     \* no block: a chunk that is not loaded, a state not recorded

ASSUME JournalAssumption ==
  /\ Air \notin Solids /\ NoBlock \notin Solids \cup {Air}
  /\ NTx \in Nat \ {0} /\ NOrds \in Nat \ {0}
  /\ MaxChanges \in Nat /\ MaxRows \in Nat /\ MaxEdits \in Nat /\ MaxFaults \in Nat
  /\ 0 \notin BuildPlans /\ InMission \subseteq BuildPlans

Blocks == Solids \cup {Air}
Txs    == 1 .. NTx
Ords   == 1 .. NOrds
Worlds == [Cells -> Blocks]

VARIABLES
  world,  \* the blocks as the server has them
  mine,   \* the change whose click wrote the block that stands at a cell
  tx,     \* world_transactions
  change, \* world_changes
  op,     \* the operations in progress
  up,     \* the bot is alive: it has spawned since its last death or start
  edits, faults

vars == <<world, mine, tx, change, op, up, edits, faults>>

TxStatus  == {"none", "open", "completed", "partial", "failed", "cancelled",
              "undoing", "undone", "undo_partial"}
RowStatus == {"none", "planned", "applied", "failed", "conflict", "reverting", "reverted"}

NoRow == [status |-> "none", cell |-> NoBlock, before |-> Air, intended |-> Air,
          after |-> NoBlock, cut |-> FALSE]

(* "after" is confirmed_after, the outcome that was observed.  "cut" says  *)
(* that its handler was cut off: the connection was lost while the change  *)
(* was under way, or the bot spawned and the change was judged before its  *)
(* click was sent or answered.                                             *)
RowWith(statuses, outcomes) ==
  [status : statuses, cell : Cells, before : Blocks, intended : Blocks,
   after : outcomes, cut : BOOLEAN]

Row == RowWith({"planned", "failed", "conflict"}, {NoBlock})
       \cup RowWith({"applied", "reverting", "reverted", "conflict"}, Blocks)

(* An operation holds what its handler holds across an await: the change   *)
(* it works on, the changes its undo has yet to visit, and the world its   *)
(* bot sees, which is no longer the world once its connection is lost.  A  *)
(* click that the server can no longer carry out is "answered".            *)
NoOp == [kind |-> "none", tx |-> 1, at |-> 0, phase |-> "idle", todo |-> {},
         aborted |-> FALSE, lost |-> FALSE, seen |-> [c \in Cells |-> Air]]

TypeOK ==
  /\ world \in Worlds
  /\ mine \in [Cells -> {<<0, 0>>} \cup (Txs \X Ords)]
  /\ tx \in [Txs -> [status : TxStatus, plan : {0} \cup BuildPlans]]
  /\ change \in [Txs -> [Ords -> Row \cup {NoRow}]]
  /\ op \in [Ops -> [kind : {"none", "edit", "undo"}, tx : Txs, at : 0 .. NOrds,
                     phase : {"idle", "planned", "clicked", "answered"}, todo : SUBSET Ords,
                     aborted : BOOLEAN, lost : BOOLEAN, seen : Worlds]]
  /\ up \in BOOLEAN
  /\ edits \in 0 .. MaxEdits /\ faults \in 0 .. MaxFaults

Init ==
  /\ world \in Worlds
  /\ mine = [c \in Cells |-> <<0, 0>>]
  /\ tx = [t \in Txs |-> [status |-> "none", plan |-> 0]]
  /\ change = [t \in Txs |-> [o \in Ords |-> NoRow]]
  /\ op = [h \in Ops |-> NoOp]
  /\ up = TRUE
  /\ edits = 0
  /\ faults = 0

-----------------------------------------------------------------------------
(***************************************************************************)
(* The tables.                                                             *)
(***************************************************************************)
With(ch, t, statuses) == {o \in Ords : ch[t][o].status \in statuses}
Used(ch, t) == With(ch, t, RowStatus \ {"none"})

(* countReservedWorldChanges()                                             *)
Reserves(row) ==
  \/ row.status \in {"planned", "applied"}
  \/ row.status = "conflict" /\ row.after # NoBlock

(* The mission's edits and builds share its scope and its limit; a build   *)
(* outside it has none, for maxWorldChanges is optional.                   *)
Scope   == {0} \cup InMission
Limited == {r \in Txs \X Ords : tx[r[1]].plan \in Scope}

(* Mutant of Reserved: a change counts once it is confirmed.               *)
ReservedWhenApplied == {r \in Limited : change[r[1]][r[2]].status = "applied"}

Reserved == {r \in Limited : Reserves(change[r[1]][r[2]])}

(* terminalStatus()                                                        *)
TerminalStatus(ch, t) ==
  IF Used(ch, t) = With(ch, t, {"applied"}) THEN "completed"
  ELSE IF With(ch, t, {"applied", "conflict"}) # {} THEN "partial" ELSE "failed"

(* completeTransaction(), and the startup's and the live reconciliation's  *)
(* use of it: nothing happens while a row is planned.                      *)
Completed(ch, t) ==
  IF With(ch, t, {"planned"}) = {} THEN TerminalStatus(ch, t) ELSE "open"

(* Mutant of Cancelled: a planned row does not keep the transaction open.  *)
CancelledAnyway(ch, t) ==
  IF With(ch, t, {"applied", "conflict"}) # {} THEN "partial" ELSE "cancelled"

(* cancelTransaction()                                                     *)
Cancelled(ch, t) ==
  IF With(ch, t, {"planned"}) # {} THEN "open"
  ELSE IF With(ch, t, {"applied", "conflict"}) # {} THEN "partial" ELSE "cancelled"

(* finalizeUndoTransaction()                                               *)
Finalized(ch, t) ==
  IF tx[t].status = "undone" THEN "undone"
  ELSE IF With(ch, t, {"planned", "reverting"}) # {} THEN "undoing"
  ELSE IF With(ch, t, {"applied", "conflict"}) = {} THEN "undone" ELSE "undo_partial"

(* What a handler's bot sees of a cell: what stands there, or nothing.     *)
View(h)    == IF op[h].lost THEN op[h].seen ELSE world
Sees(h, c) == {View(h)[c], NoBlock}

Doing(h, kind) == op[h].kind = kind
RowOf(h)  == change[op[h].tx][op[h].at]
Dig(row)  == row.intended = Air

-----------------------------------------------------------------------------
(***************************************************************************)
(* An edit: a transaction, then its changes one by one.                    *)
(***************************************************************************)
(* A new handler takes the runner's slot: the others are aborted.          *)
AllAborted == [h \in Ops |-> IF Doing(h, "none") THEN NoOp ELSE [op[h] EXCEPT !.aborted = TRUE]]

Started(h, o) == [AllAborted EXCEPT ![h] = o]

NextTx(t) == tx[t].status = "none" /\ \A u \in Txs : u < t => tx[u].status # "none"

Opened(t) == [tx EXCEPT ![t].status = "open"]

(* beginWorldJournal(), for a handler that the runner starts, the bot      *)
(* being alive or dead.                                                    *)
BeginEdit(h, t) ==
  /\ Doing(h, "none") /\ NextTx(t)
  /\ tx' = Opened(t)
  /\ op' = Started(h, [NoOp EXCEPT !.kind = "edit", !.tx = t])
  /\ UNCHANGED <<world, mine, change, up, edits, faults>>

OpenAttempts == {t \in Txs : tx[t].status = "open" /\ tx[t].plan # 0}

(* Mutant of Unresolved: only the plan's own attempts are looked at.       *)
UnresolvedOfPlan(p) ==
  \E t \in OpenAttempts : tx[t].plan = p /\ With(change, t, {"planned"}) # {}

Unresolved(p) == \E t \in OpenAttempts : With(change, t, {"planned"}) # {}

(* beginOrReuseConstructionAttempt(), as the build uses it: refused while  *)
(* any attempt on the job has a planned row, it closes the other attempts, *)
(* takes up the plan's own if nothing was tried in it, else opens one.     *)
BeginBuild(h, p, t) ==
  /\ Doing(h, "none")
  /\ ~Unresolved(p)
  /\ \/ NextTx(t) /\ \A u \in OpenAttempts : tx[u].plan = p => Used(change, u) # {}
     \/ t \in OpenAttempts /\ tx[t].plan = p /\ Used(change, t) = {}
  /\ tx' = [u \in Txs |->
       IF u = t THEN [status |-> "open", plan |-> p]
       ELSE IF u \in OpenAttempts THEN [tx[u] EXCEPT !.status = TerminalStatus(change, u)]
       ELSE tx[u]]
  /\ op' = Started(h, [NoOp EXCEPT !.kind = "edit", !.tx = t])
  /\ UNCHANGED <<world, mine, change, up, edits, faults>>

(* preflightWorldChanges(), and planChange()'s own look at the budget      *)
BudgetLeft(h) == tx[op[h].tx].plan \in Scope => Cardinality(Reserved) < MaxChanges

(* What placeAt() and digAt() come to plan once they have walked there,    *)
(* equipped and looked, rereading the cell after each: a block into a cell *)
(* that is still replaceable, a block out of one that is still solid.      *)
Placings(h, c) == IF View(h)[c] = Air THEN Solids ELSE {}
Diggings(h, c) == IF View(h)[c] # Air THEN {Air} ELSE {}

(* The planned hook: the row and its budget in one database transaction.   *)
EditPlan(h) ==
  /\ Doing(h, "edit") /\ op[h].phase = "idle" /\ ~op[h].aborted
  /\ tx[op[h].tx].status = "open"
  /\ BudgetLeft(h)
  /\ Cardinality({r \in Txs \X Ords : change[r[1]][r[2]].status # "none"}) < MaxRows
  /\ \E o \in Ords, c \in Cells :
       /\ o \notin Used(change, op[h].tx) /\ \A q \in Ords : q < o => q \in Used(change, op[h].tx)
       /\ \E b \in Placings(h, c) \cup Diggings(h, c) :
            change' = [change EXCEPT ![op[h].tx][o] =
              [NoRow EXCEPT !.status = "planned", !.cell = c, !.before = View(h)[c],
                            !.intended = b]]
       /\ op' = [op EXCEPT ![h].at = o, ![h].phase = "planned"]
  /\ UNCHANGED <<world, mine, tx, up, edits, faults>>

(* markChangeApplied/Failed/ConflictedAfter: only a planned row changes.   *)
Resolved(row, status, after) ==
  IF row.status = "planned" THEN [row EXCEPT !.status = status, !.after = after] ELSE row

(* What may still stop the click: the block changed or is not readable, a  *)
(* revoked authorization, an abort.                                        *)
(* (Mutant: the abort is not looked at again.)                             *)
MayClickAborted(h) == View(h)[RowOf(h).cell] = RowOf(h).before

MayClick(h) == View(h)[RowOf(h).cell] = RowOf(h).before /\ ~op[h].aborted

(* The handler is done with its change.  One whose connection is lost      *)
(* looks at nothing more.                                                  *)
Idle(h) == [op EXCEPT ![h] = [@ EXCEPT !.phase = "idle", !.at = 0,
                                       !.lost = FALSE, !.seen = NoOp.seen]]

(* The failed hook: what was planned is not clicked.                       *)
Withheld(h) ==
  /\ op' = Idle(h)
  /\ change' = [change EXCEPT ![op[h].tx][op[h].at] = Resolved(RowOf(h), "failed", NoBlock)]

EditClick(h) ==
  /\ Doing(h, "edit") /\ op[h].phase = "planned"
  /\ \/ /\ MayClick(h)
        /\ op' = [op EXCEPT ![h].phase = "clicked"]
        /\ UNCHANGED change
     \/ Withheld(h)
  /\ UNCHANGED <<world, mine, tx, up, edits, faults>>

(* The server carries the click out, if it still can.  A placement may     *)
(* come out in another state than was asked for.                           *)
Outcome(row, undo) ==
  IF undo THEN {row.before} ELSE IF Dig(row) THEN {Air} ELSE Solids

ClickLands(h) ==
  LET row == RowOf(h)  undo == Doing(h, "undo")
  IN /\ op[h].phase = "clicked"
     /\ world[row.cell] = IF undo THEN row.after ELSE row.before
     /\ \E b \in Outcome(row, undo) : world' = [world EXCEPT ![row.cell] = b]
     /\ mine' = [mine EXCEPT ![row.cell] =
                   IF undo THEN <<0, 0>> ELSE <<op[h].tx, op[h].at>>]
     /\ UNCHANGED <<tx, change, op, up, edits, faults>>

(* How a handler classifies its change once the click has settled, whether *)
(* it was carried out, refused or interrupted.  Any other block than the   *)
(* one it dug counts as its dig; any other than the one it placed does not *)
(* count as its placement.                                                 *)
DigVerdict(row, live) ==
  IF live = row.before THEN Resolved(row, "failed", NoBlock) ELSE Resolved(row, "applied", live)

PlaceVerdict(row, live) ==
  CASE live = row.before   -> Resolved(row, "failed", NoBlock)
    [] live = row.intended -> Resolved(row, "applied", live)
    [] OTHER               -> Resolved(row, "conflict", live)

Verdict(row, live) ==
  IF live = NoBlock THEN row
  ELSE IF Dig(row) THEN DigVerdict(row, live) ELSE PlaceVerdict(row, live)

EditSettle(h) ==
  /\ Doing(h, "edit") /\ op[h].phase \in {"clicked", "answered"}
  /\ \E live \in Sees(h, RowOf(h).cell) :
       change' = [change EXCEPT ![op[h].tx][op[h].at] = Verdict(RowOf(h), live)]
  /\ op' = Idle(h)
  /\ UNCHANGED <<world, mine, tx, up, edits, faults>>

(* The operation is through, or gives up: it completes or cancels what is  *)
(* still open.                                                             *)
EditEnd(h) ==
  /\ Doing(h, "edit") /\ op[h].phase = "idle"
  /\ \E status \in {Completed(change, op[h].tx), Cancelled(change, op[h].tx)} :
       tx' = IF tx[op[h].tx].status = "open" THEN [tx EXCEPT ![op[h].tx].status = status] ELSE tx
  /\ op' = [op EXCEPT ![h] = NoOp]
  /\ UNCHANGED <<world, mine, change, up, edits, faults>>

-----------------------------------------------------------------------------
(***************************************************************************)
(* An undo visits the changes in reverse order.  Those that need no click  *)
(* are settled at once; at the first that does, it awaits.                 *)
(***************************************************************************)
(* markChangeReverting, markChangeReverted and markChangeUndoConflict.     *)
InUndo(row) == row.status \in {"applied", "reverting"}
Reverted(row)     == IF InUndo(row) THEN [row EXCEPT !.status = "reverted"] ELSE row
UndoConflict(row) == IF InUndo(row) THEN [row EXCEPT !.status = "conflict"] ELSE row

(* What it may reverse: a change whose outcome still stands.               *)
Ready(row, live) == InUndo(row) /\ live = row.after /\ live # row.before

SettledAtOnce(row, live) == IF live = row.before THEN Reverted(row) ELSE UndoConflict(row)

(* The loop of the undo o, which h runs, over table ch up to its next      *)
(* await or its end.  Every change above "at" is settled; "at" awaits a    *)
(* click, or ends the pass because its block cannot be read, or is 0.      *)
UndoLoop(h, o, ops, status, ch) ==
  LET v == IF o.lost THEN o.seen ELSE world
      live(q) == v[ch[o.tx][q].cell]
      Settled(at) == [q \in Ords |->
        IF q \in o.todo /\ q > at /\ InUndo(ch[o.tx][q])
        THEN SettledAtOnce(ch[o.tx][q], live(q)) ELSE ch[o.tx][q]]
      Reaches(at) == \A q \in o.todo : q > at => ~Ready(ch[o.tx][q], live(q))
      Conflicts(at) == \E q \in Ords : Settled(at)[q].status # ch[o.tx][q].status
                                       /\ Settled(at)[q].status = "conflict"
  IN \/ \E at \in o.todo :
          /\ ~o.aborted /\ Reaches(at) /\ Ready(ch[o.tx][at], live(at))
          /\ change' = [ch EXCEPT ![o.tx] = [Settled(at) EXCEPT ![at].status = "reverting"]]
          /\ tx' = [tx EXCEPT ![o.tx].status = IF Conflicts(at) THEN "undo_partial" ELSE status]
          /\ op' = [ops EXCEPT ![h] = [o EXCEPT !.at = at, !.phase = "planned",
                                               !.todo = {q \in o.todo : q < at}]]
     \/ \E at \in IF o.aborted THEN {NOrds} ELSE {0} \cup o.todo :
          /\ o.aborted \/ Reaches(at)
          /\ change' = [ch EXCEPT ![o.tx] = Settled(at)]
          /\ tx' = [tx EXCEPT ![o.tx].status = Finalized(change', o.tx)]
          /\ op' = [ops EXCEPT ![h] = NoOp]

(* beginUndoTransaction()                                                  *)
UndoStatus(t) ==
  CASE tx[t].status \in {"undone", "undoing"} -> tx[t].status
    [] tx[t].status = "undo_partial" ->
         IF With(change, t, {"applied"}) = {} \/ With(change, t, {"reverting"}) # {}
         THEN "undo_partial" ELSE "undoing"
    [] OTHER -> IF With(change, t, {"applied"}) = {} THEN "undone" ELSE "undoing"

BeginUndo(h, t) ==
  /\ Doing(h, "none")
  /\ tx[t].status \in {"completed", "partial", "undoing", "undo_partial", "undone"}
  /\ IF UndoStatus(t) = "undone"
     THEN /\ tx' = [tx EXCEPT ![t].status = "undone"]
          /\ op' = Started(h, NoOp)
          /\ UNCHANGED change
     ELSE UndoLoop(h, [NoOp EXCEPT !.kind = "undo", !.tx = t,
                                   !.todo = With(change, t, {"applied", "reverting"})],
                   Started(h, NoOp), UndoStatus(t), change)
  /\ UNCHANGED <<world, mine, up, edits, faults>>

(* The executor's click, if the recorded outcome still stands by then.     *)
UndoClick(h) ==
  /\ Doing(h, "undo") /\ op[h].phase = "planned"
  /\ View(h)[RowOf(h).cell] = RowOf(h).after /\ ~op[h].aborted
  /\ op' = [op EXCEPT ![h].phase = "clicked"]
  /\ UNCHANGED <<world, mine, tx, change, up, edits, faults>>

(* The executor returns, with or without a click: the change is settled by *)
(* what stands there and the loop goes on, or the pass ends and the change *)
(* stays "reverting": its block cannot be read, the operation is aborted,  *)
(* the material to restore it is missing.                                  *)
UndoSettle(h) ==
  LET o == op[h]
      Settles(row) == [change EXCEPT ![o.tx][o.at] = row]
  IN /\ Doing(h, "undo") /\ o.phase # "idle"
     /\ \E live \in Sees(h, RowOf(h).cell) :
          IF live = RowOf(h).before
          THEN UndoLoop(h, o, op, tx[o.tx].status, Settles(Reverted(RowOf(h))))
          ELSE \/ /\ live = NoBlock \/ o.aborted \/ (o.phase = "planned" /\ Dig(RowOf(h)))
                  /\ tx' = [tx EXCEPT ![o.tx].status = Finalized(change, o.tx)]
                  /\ op' = [op EXCEPT ![h] = NoOp]
                  /\ UNCHANGED change
               \/ /\ live # NoBlock /\ ~o.aborted
                  /\ UndoLoop(h, o, op, "undo_partial", Settles(UndoConflict(RowOf(h))))
     /\ UNCHANGED <<world, mine, up, edits, faults>>

-----------------------------------------------------------------------------
(***************************************************************************)
(* Deaths, connections, restarts and other players.                        *)
(***************************************************************************)
Faulty == faults < MaxFaults /\ faults' = faults + 1

(* reconcileLive(): a planned row whose block can be read is resolved.     *)
ReconciledRow(row, live) ==
  IF row.status # "planned" \/ live = NoBlock THEN row
  ELSE IF live = row.intended THEN [row EXCEPT !.status = "applied", !.after = live]
  ELSE IF live = row.before THEN [row EXCEPT !.status = "failed"]
  ELSE [row EXCEPT !.status = "conflict"]

(* Mutant of ReconciledUndo: an undo under way is taken for done.          *)
UndoTakenForDone(row, live) ==
  IF row.status # "reverting" \/ live = NoBlock THEN row
  ELSE IF live \in {row.before, row.after} THEN [row EXCEPT !.status = "reverted"]
  ELSE [row EXCEPT !.status = "conflict"]

(* reconcileUndoingTransactions(): never a second click.                   *)
ReconciledUndo(row, live) ==
  IF row.status # "reverting" \/ live \in {NoBlock, row.after} \ {row.before} THEN row
  ELSE IF live = row.before THEN [row EXCEPT !.status = "reverted"]
  ELSE [row EXCEPT !.status = "conflict"]

(* The handler at work on a change may yet send its click, or its click    *)
(* may yet be carried out: a bot that lives on has clicks in flight, one   *)
(* that was dead has an answer to all of them when it spawns.              *)
Early(t, o) ==
  \E h \in Ops :
    /\ Doing(h, "edit") /\ op[h].tx = t /\ op[h].at = o
    /\ \/ op[h].phase = "planned" /\ ~op[h].aborted
       \/ op[h].phase = "clicked" /\ up

Overtaken(t, o, row, judged) ==
  IF judged # row /\ Early(t, o) THEN [judged EXCEPT !.cut = TRUE] ELSE judged

(* The bot spawns, after a death, a start, or a change of dimension: open  *)
(* transactions and undos under way are reconciled with the blocks that    *)
(* are loaded, before durable work is resumed but beside any operation     *)
(* that is at work already.                                                *)
Spawn ==
  /\ up' = TRUE /\ (IF up THEN Faulty ELSE UNCHANGED faults)
  /\ \E loaded \in SUBSET Cells :
       LET Live(c) == IF c \in loaded THEN world[c] ELSE NoBlock
           Pass(t, o, row) ==
             CASE tx[t].status = "open" ->
                    Overtaken(t, o, row, ReconciledRow(row, Live(row.cell)))
               [] tx[t].status \in {"undoing", "undo_partial"} ->
                    ReconciledUndo(row, Live(row.cell))
               [] OTHER -> row
       IN change' = [t \in Txs |-> [o \in Ords |->
            IF o \in Used(change, t) THEN Pass(t, o, change[t][o]) ELSE NoRow]]
  /\ tx' = [t \in Txs |->
       CASE tx[t].status = "open" -> [tx[t] EXCEPT !.status = Completed(change', t)]
         [] tx[t].status \in {"undoing", "undo_partial"} ->
              [tx[t] EXCEPT !.status = Finalized(change', t)]
         [] OTHER -> tx[t]]
  /\ op' = [h \in Ops |-> IF ~up /\ op[h].phase = "clicked"
                          THEN [op[h] EXCEPT !.phase = "answered"] ELSE op[h]]
  /\ UNCHANGED <<world, mine, edits>>

Death ==
  /\ up /\ up' = FALSE /\ Faulty
  /\ op' = AllAborted
  /\ UNCHANGED <<world, mine, tx, change, edits>>

(* The connection is lost: the operations at work on a change end on what  *)
(* their bot last saw.                                                     *)
ConnectionLost ==
  /\ up' = FALSE /\ Faulty
  /\ op' = [h \in Ops |-> IF op[h].phase = "idle" \/ op[h].lost THEN AllAborted[h]
                          ELSE [AllAborted[h] EXCEPT !.lost = TRUE, !.seen = world]]
  /\ change' = [t \in Txs |-> [o \in Ords |->
       IF \E h \in Ops : Doing(h, "edit") /\ op[h].tx = t /\ op[h].at = o
       THEN [change[t][o] EXCEPT !.cut = TRUE] ELSE change[t][o]]]
  /\ UNCHANGED <<world, mine, tx, edits>>

(* The process dies and starts again: reconcileOpenTransactions().         *)
Crash ==
  /\ up' = FALSE /\ Faulty
  /\ op' = [h \in Ops |-> NoOp]
  /\ tx' = [t \in Txs |-> IF tx[t].status = "open"
                          THEN [tx[t] EXCEPT !.status = Completed(change, t)] ELSE tx[t]]
  /\ UNCHANGED <<world, mine, change, edits>>

(* The active operation is cancelled.                                      *)
Abort ==
  /\ \E h \in Ops : ~Doing(h, "none") /\ ~op[h].aborted
  /\ op' = AllAborted
  /\ UNCHANGED <<world, mine, tx, change, up, edits, faults>>

OtherEdit(c) ==
  /\ edits < MaxEdits /\ edits' = edits + 1
  /\ \E b \in Blocks \ {world[c]} : world' = [world EXCEPT ![c] = b]
  /\ mine' = [mine EXCEPT ![c] = <<0, 0>>]
  /\ UNCHANGED <<tx, change, op, up, faults>>

OpStep(h) ==
  \/ EditPlan(h) \/ EditClick(h) \/ EditSettle(h) \/ EditEnd(h)
  \/ UndoClick(h) \/ UndoSettle(h) \/ ClickLands(h)

Begin(h, t) == BeginEdit(h, t) \/ BeginUndo(h, t) \/ \E p \in BuildPlans : BeginBuild(h, p, t)

Next ==
  \/ \E h \in Ops : OpStep(h)
  \/ \E h \in Ops, t \in Txs : Begin(h, t)
  \/ \E c \in Cells : OtherEdit(c)
  \/ Spawn \/ Death \/ ConnectionLost \/ Crash \/ Abort

Spec == Init /\ [][Next]_vars

-----------------------------------------------------------------------------
(***************************************************************************)
(* Safety.                                                                 *)
(***************************************************************************)

(* What stands in the world by the bot's hand is on record, through        *)
(* aborts, reconciliations and late answers: no row calls it failed or     *)
(* undone.  Two cases are excepted, "cut": the connection is lost under a  *)
(* change, whose handler may take what its bot last saw for the outcome;   *)
(* and a spawn judges a change whose handler is at work, not aborted or    *)
(* with its click in flight, which the click's later verdict cannot mend.  *)
EveryChangeRecorded ==
  \A c \in Cells : mine[c] # <<0, 0>> =>
    LET row == change[mine[c][1]][mine[c][2]]
    IN row.cut \/ row.status \in {"planned", "applied", "conflict", "reverting"}

(* The budget is shared by all transactions of a scope, edits and builds,  *)
(* finished or not: the changes that are planned or applied never exceed   *)
(* it, whatever operations overlap.  A change that an undo has taken up    *)
(* frees its place while its block still stands, and is not counted.       *)
BudgetKept ==
  Cardinality({r \in Limited : change[r[1]][r[2]].status \in {"planned", "applied"}})
    <= MaxChanges

(* A transaction leaves "open" only with every row resolved, and its       *)
(* status says what its rows say: one that failed or was cancelled, which  *)
(* no undo takes up, has no row but failed ones.                           *)
StatusMirrorsChanges ==
  \A t \in Txs :
    /\ tx[t].status # "open" => With(change, t, {"planned"}) = {}
    /\ tx[t].status = "completed" => Used(change, t) = With(change, t, {"applied"})
    /\ tx[t].status \in {"failed", "cancelled"} => Used(change, t) = With(change, t, {"failed"})
    /\ tx[t].status = "undone" => With(change, t, {"applied", "reverting"}) = {}

(* No build goes on beside an unresolved click of another attempt.         *)
OneUnresolvedAttempt ==
  \A t, u \in {v \in Txs : tx[v].plan # 0} :
    With(change, t, {"planned"}) # {} /\ With(change, u, {"planned"}) # {} => t = u

(* The journal can be believed: its statuses say what its rows say, and a  *)
(* job has one click at most that nobody has judged yet.                   *)
JournalIsTrue == StatusMirrorsChanges /\ OneUnresolvedAttempt

(* While every bot sees the world, a change is called reverted only when   *)
(* what was there before it stands again.                                  *)
Reverts(t, o) == change[t][o].status # "reverted" /\ change'[t][o].status = "reverted"

RevertedStands ==
  [][\A t \in Txs, o \in Ords :
       Reverts(t, o) /\ (\A h \in Ops : ~op[h].lost)
         => world[change[t][o].cell] = change[t][o].before]_vars

=============================================================================
