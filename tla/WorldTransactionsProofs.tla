---------------------- MODULE WorldTransactionsProofs ----------------------
(***************************************************************************)
(* The journal tells the truth, for any number of cells, transactions,     *)
(* changes and operations, whatever overlaps, dies or is edited.           *)
(*                                                                         *)
(* A row moves one way only (RowMove), and a transaction's status says     *)
(* what its rows may be (Fits).  A change that stands by the bot's hand    *)
(* differs from what was there before (Stands), so no look at the world    *)
(* calls it failed or reverted; a look that may be stale is one of an      *)
(* operation whose row is marked, or that saw the change; and a click that *)
(* may yet land is one whose row is planned or marked (Holds).             *)
(* The budget is a step's own check: no step but EditPlan plans.  An       *)
(* operation has the slot alone while it is active (Turns), so two builds  *)
(* never leave two unresolved clicks (Attempts).                           *)
(***************************************************************************)
EXTENDS WorldTransactions, FiniteSetTheorems, TLAPS

(* A change puts a block where there was none, or takes one away.          *)
Rows == {r \in Row : (r.intended = Air) <=> (r.before # Air)} \cup {NoRow}

OpRow == [kind : {"none", "edit", "undo"}, tx : Txs, at : 0 .. NOrds,
          phase : {"idle", "planned", "clicked", "answered"}, todo : SUBSET Ords,
          aborted : BOOLEAN, lost : BOOLEAN, seen : Worlds]

TxRow == [status : TxStatus, plan : {0} \cup BuildPlans]

Types ==
  /\ world \in Worlds
  /\ mine \in [Cells -> {<<0, 0>>} \cup (Txs \X Ords)]
  /\ tx \in [Txs -> TxRow]
  /\ change \in [Txs -> [Ords -> Rows]]
  /\ op \in [Ops -> OpRow]
  /\ up \in BOOLEAN
  /\ edits \in 0 .. MaxEdits /\ faults \in 0 .. MaxFaults

(* What the status s of a transaction says of the status r of its rows.    *)
Undoing == {"undoing", "undo_partial"}

Fits(s, r) ==
  /\ s = "none" => r = "none"
  /\ r = "planned" => s = "open"
  /\ r = "reverting" => s \in Undoing
  /\ r = "reverted" => s \in Undoing \cup {"undone"}
  /\ s = "completed" => r \in {"none", "applied"}
  /\ s \in {"failed", "cancelled"} => r \in {"none", "failed"}
  /\ s = "undone" => r # "applied"

Sound == \A t \in Txs, o \in Ords : Fits(tx[t].status, change[t][o].status)

(* The block that a change put or took is not the one that was there, and  *)
(* its row says so unless its handler was cut off.                         *)
Stands ==
  \A c \in Cells, t \in Txs, o \in Ords : mine[c] = <<t, o>> =>
    /\ change[t][o].cell = c /\ world[c] # change[t][o].before
    /\ change[t][o].status # "none"
    /\ change[t][o].cut \/ change[t][o].status \notin {"failed", "reverted"}

(* What an operation o holds, in the tables tt and ch and the history m.   *)
Edits(o) == o.kind = "edit"
Undoes(o) == o.kind = "undo"
MayLand(o) == o.phase = "clicked" \/ (o.phase = "planned" /\ ~o.aborted)

Active(o)     == o.kind # "none" /\ ~o.aborted
Editing(o)    == Edits(o) /\ o.phase # "idle"
SameRow(o, q) == o.tx = q.tx /\ o.at = q.at

Awaited(r) == r.status = "planned" \/ r.cut

OpGood(o, tt, ch, m) ==
  /\ o.phase = "idle" => o.at = 0 /\ ~Undoes(o)
  /\ o.phase # "idle" =>
       o.kind # "none" /\ o.at \in Ords /\ ch[o.tx][o.at].status # "none"
  /\ o.kind # "none" => tt[o.tx].status # "none"
  /\ o.lost => o.aborted
  /\ Edits(o) /\ MayLand(o) => Awaited(ch[o.tx][o.at])
  /\ Edits(o) /\ o.phase = "planned" => \A c \in Cells : m[c] # <<o.tx, o.at>>
  /\ Editing(o) /\ o.lost => ch[o.tx][o.at].cut
  /\ Undoes(o) => tt[o.tx].status \in Undoing \cup {"undone"}
  /\ Undoes(o) /\ o.lost =>
       \/ ch[o.tx][o.at].cut
       \/ \A c \in Cells : m[c] = <<o.tx, o.at>> => o.seen[c] # ch[o.tx][o.at].before

Holds == \A h \in Ops : OpGood(op[h], tx, change, mine)

(* One operation is active; no two edit one row.                           *)
Turns ==
  /\ \A h, k \in Ops : Active(op[h]) /\ Active(op[k]) => h = k
  /\ \A h, k \in Ops : Editing(op[h]) /\ Editing(op[k]) /\ SameRow(op[h], op[k]) => h = k

(* An attempt whose click has no verdict, and who else may build then.     *)
Waits(t) == tx[t].plan # 0 /\ \E o \in Ords : change[t][o].status = "planned"

Attempts ==
  /\ \A t \in Txs : tx[t].status = "none" => tx[t].plan = 0
  /\ \A t, u \in Txs : Waits(t) /\ Waits(u) => t = u
  /\ \A h \in Ops, u \in Txs :
       Active(op[h]) /\ Edits(op[h]) /\ tx[op[h].tx].plan # 0 /\ Waits(u) => u = op[h].tx

IInv == Types /\ Sound /\ Stands /\ Holds /\ Turns /\ Attempts /\ BudgetKept

-----------------------------------------------------------------------------
(***************************************************************************)
(* 1. Rows.                                                                *)
(***************************************************************************)

(* What no step undoes: a row keeps its place and what was there before,   *)
(* is not planned or applied a second time, and stays marked.              *)
RowMove(r, q) ==
  /\ q \in Rows /\ q.cell = r.cell /\ q.before = r.before
  /\ r.cut => q.cut
  /\ q.status = "none" <=> r.status = "none"
  /\ q.status = "planned" => r.status = "planned"
  /\ q.status = "applied" => r.status \in {"planned", "applied"}

(* An edit or a reconciliation judges what is planned; an undo moves what  *)
(* is applied.                                                             *)
Judges(r, q) ==
  /\ RowMove(r, q)
  /\ r.status # "planned" => q = r
  /\ r.status = "planned" => q.status \in {"planned", "applied", "failed", "conflict"}

Undoer(r, q) ==
  /\ RowMove(r, q)
  /\ r.status \notin {"applied", "reverting"} => q = r
  /\ r.status \in {"applied", "reverting"} =>
       q.status \in {"applied", "reverting", "reverted", "conflict"}

LEMMA BlockFacts ==
  /\ Air \in Blocks /\ NoBlock \notin Blocks /\ Solids \subseteq Blocks
  /\ \A b \in Blocks : b # Air => b \in Solids
  /\ Air \notin Solids
  BY JournalAssumption DEF Blocks

LEMMA RowFacts ==
  ASSUME NEW r \in Rows, r.status # "none"
  PROVE  /\ r \in Row /\ r.cell \in Cells /\ r.before \in Blocks /\ r.intended \in Blocks
         /\ (r.intended = Air) <=> (r.before # Air)
         /\ r.status \in RowStatus /\ r.cut \in BOOLEAN
         /\ r.status \in {"applied", "reverting"} => r.after \in Blocks
  BY DEF Rows, Row, RowWith, NoRow, RowStatus

LEMMA UnusedRow ==
  ASSUME NEW r \in Rows, r.status = "none"
  PROVE  r = NoRow
  BY DEF Rows, Row, RowWith

LEMMA RowStays ==
  ASSUME NEW r \in Rows
  PROVE  RowMove(r, r) /\ Judges(r, r) /\ Undoer(r, r)
  <1>1. RowMove(r, r)
    BY DEF RowMove
  <1> QED
    BY <1>1 DEF Judges, Undoer

LEMMA ResolvedJudges ==
  ASSUME NEW r \in Rows, NEW s, NEW a,
         \/ s = "failed" /\ a = NoBlock
         \/ s = "applied" /\ a \in Blocks
         \/ s = "conflict" /\ a \in Blocks \cup {NoBlock}
  PROVE  Judges(r, Resolved(r, s, a)) /\ (r.status = "planned" => Resolved(r, s, a).status = s)
  <1>1. CASE r.status = "planned"
    <2>1. r \in RowWith({"planned"}, {NoBlock}) /\ ((r.intended = Air) <=> (r.before # Air))
      BY <1>1 DEF Rows, Row, RowWith, NoRow
    <2> DEFINE q == [r EXCEPT !.status = s, !.after = a]
    <2>2. /\ q \in RowWith({s}, {a}) /\ q.status = s /\ q.cell = r.cell /\ q.before = r.before
          /\ q.intended = r.intended /\ q.cut = r.cut
      BY <2>1 DEF RowWith
    <2>3. q \in Row
      BY <2>2 DEF Row, RowWith
    <2>4. q \in Rows
      BY <2>1, <2>2, <2>3 DEF Rows
    <2>5. Resolved(r, s, a) = q
      BY <1>1 DEF Resolved
    <2> HIDE DEF q
    <2> QED
      BY <1>1, <2>2, <2>4, <2>5 DEF Judges, RowMove
  <1>2. CASE r.status # "planned"
    BY <1>2, RowStays DEF Resolved
  <1> QED
    BY <1>1, <1>2

LEMMA VerdictJudges ==
  ASSUME NEW r \in Rows, NEW live \in Blocks \cup {NoBlock}
  PROVE  /\ Judges(r, Verdict(r, live))
         /\ Verdict(r, live).status = "failed" => Verdict(r, live) = r \/ live = r.before
  <1>1. CASE live = NoBlock
    BY <1>1, RowStays DEF Verdict
  <1>2. CASE live # NoBlock /\ Dig(r)
    BY <1>2, ResolvedJudges DEF Verdict, DigVerdict, Judges
  <1>3. CASE live # NoBlock /\ ~Dig(r)
    <2>1. CASE live = r.before
      BY <1>3, <2>1, ResolvedJudges DEF Verdict, PlaceVerdict
    <2>2. CASE live # r.before /\ live = r.intended
      BY <1>3, <2>2, ResolvedJudges DEF Verdict, PlaceVerdict, Judges
    <2>3. CASE live # r.before /\ live # r.intended
      BY <1>3, <2>3, ResolvedJudges DEF Verdict, PlaceVerdict, Judges
    <2> QED
      BY <2>1, <2>2, <2>3
  <1> QED
    BY <1>1, <1>2, <1>3

LEMMA RevertedUndoes ==
  ASSUME NEW r \in Rows
  PROVE  /\ Undoer(r, Reverted(r)) /\ Undoer(r, UndoConflict(r))
         /\ InUndo(r) => Reverted(r).status = "reverted" /\ UndoConflict(r).status = "conflict"
         /\ ~InUndo(r) => Reverted(r) = r /\ UndoConflict(r) = r
  <1>1. CASE InUndo(r)
    <2>1. r \in RowWith({"applied", "reverting"}, Blocks) /\ ((r.intended = Air) <=> (r.before # Air))
      BY <1>1 DEF InUndo, Rows, Row, RowWith, NoRow
    <2>2. ASSUME NEW s \in {"reverted", "conflict"}, NEW q, q = [r EXCEPT !.status = s]
          PROVE  Undoer(r, q) /\ q.status = s
      <3>1. /\ q \in RowWith({s}, Blocks) /\ q.status = s /\ q.cell = r.cell
            /\ q.before = r.before /\ q.intended = r.intended /\ q.cut = r.cut
        BY <2>1, <2>2 DEF RowWith
      <3>2. q \in Row
        BY <3>1 DEF Row, RowWith
      <3>3. q \in Rows
        BY <2>1, <3>1, <3>2 DEF Rows
      <3> QED
        BY <1>1, <3>1, <3>3 DEF Undoer, RowMove, InUndo
    <2> QED
      BY <1>1, <2>2 DEF Reverted, UndoConflict
  <1>2. CASE ~InUndo(r)
    BY <1>2, RowStays DEF Reverted, UndoConflict
  <1> QED
    BY <1>1, <1>2

(* The row whose undo is under way.                                        *)
LEMMA RevertingUndoes ==
  ASSUME NEW r \in Rows, InUndo(r), NEW q, q = [r EXCEPT !.status = "reverting"]
  PROVE  Undoer(r, q) /\ q.status = "reverting"
  <1>1. r \in RowWith({"applied", "reverting"}, Blocks) /\ ((r.intended = Air) <=> (r.before # Air))
    BY DEF InUndo, Rows, Row, RowWith, NoRow
  <1>2. /\ q \in RowWith({"reverting"}, Blocks) /\ q.status = "reverting" /\ q.cell = r.cell
        /\ q.before = r.before /\ q.intended = r.intended /\ q.cut = r.cut
    BY <1>1 DEF RowWith
  <1>3. q \in Rows
    BY <1>1, <1>2 DEF Rows, Row, RowWith
  <1> QED
    BY <1>2, <1>3 DEF Undoer, RowMove, InUndo

LEMMA ReconciledJudges ==
  ASSUME NEW r \in Rows, NEW live \in Blocks \cup {NoBlock}
  PROVE  /\ Judges(r, ReconciledRow(r, live))
         /\ ReconciledRow(r, live).status = "failed" => ReconciledRow(r, live) = r \/ live = r.before
  <1>1. CASE r.status # "planned" \/ live = NoBlock
    BY <1>1, RowStays DEF ReconciledRow
  <1>2. CASE r.status = "planned" /\ live # NoBlock
    <2>1. r.after = NoBlock /\ r = [r EXCEPT !.after = NoBlock]
      BY <1>2 DEF Rows, Row, RowWith, NoRow
    <2>2. \A s : [r EXCEPT !.status = s] = [r EXCEPT !.status = s, !.after = NoBlock]
      BY <1>2, <2>1 DEF Rows, Row, RowWith, NoRow
    <2>3. \/ ReconciledRow(r, live) = Resolved(r, "applied", live)
          \/ ReconciledRow(r, live) = Resolved(r, "failed", NoBlock) /\ live = r.before
          \/ ReconciledRow(r, live) = Resolved(r, "conflict", NoBlock)
      BY <1>2, <2>2 DEF ReconciledRow, Resolved
    <2> QED
      BY <1>2, <2>3, ResolvedJudges
  <1> QED
    BY <1>1, <1>2

LEMMA ReconciledUndoes ==
  ASSUME NEW r \in Rows, NEW live
  PROVE  LET q == ReconciledUndo(r, live)
         IN /\ Undoer(r, q)
            /\ q.status = "reverted" => q = r \/ (live = r.before /\ live # NoBlock)
            /\ q.status = "applied" => r.status = "applied"
  <1>1. CASE ReconciledUndo(r, live) = r
    BY <1>1, RowStays
  <1>2. CASE ReconciledUndo(r, live) # r
    <2>1. r.status = "reverting" /\ InUndo(r) /\ live \notin {NoBlock, r.after} \ {r.before}
      BY <1>2 DEF ReconciledUndo, InUndo
    <2>2. r.before # NoBlock
      BY <2>1, RowFacts, BlockFacts
    <2>3. \/ ReconciledUndo(r, live) = Reverted(r) /\ live = r.before
          \/ ReconciledUndo(r, live) = UndoConflict(r)
      BY <2>1 DEF ReconciledUndo, Reverted, UndoConflict
    <2> QED
      BY <2>1, <2>2, <2>3, RevertedUndoes
  <1> QED
    BY <1>1, <1>2

LEMMA CutMoves ==
  ASSUME NEW r \in Rows, r.status # "none", NEW q, q = [r EXCEPT !.cut = TRUE]
  PROVE  RowMove(r, q) /\ q.status = r.status /\ q.cut
  <1>1. r \in Row /\ ((r.intended = Air) <=> (r.before # Air))
    BY RowFacts
  <1>2. /\ q \in Row /\ q.status = r.status /\ q.cell = r.cell /\ q.before = r.before
        /\ q.intended = r.intended /\ q.cut
    BY <1>1 DEF Row, RowWith
  <1>3. q \in Rows
    BY <1>1, <1>2 DEF Rows
  <1> QED
    BY <1>2, <1>3 DEF RowMove

-----------------------------------------------------------------------------
(***************************************************************************)
(* 2. Statuses of transactions.                                            *)
(***************************************************************************)
Resolvable(ch, t) == \A o \in Ords : Fits("open", ch[t][o].status)

LEMMA TerminalFits ==
  ASSUME NEW ch \in [Txs -> [Ords -> Rows]], NEW t \in Txs, Resolvable(ch, t),
         With(ch, t, {"planned"}) = {}
  PROVE  /\ TerminalStatus(ch, t) \in {"completed", "partial", "failed"}
         /\ \A o \in Ords : Fits(TerminalStatus(ch, t), ch[t][o].status)
  <1> SUFFICES ASSUME NEW o \in Ords
               PROVE  Fits(TerminalStatus(ch, t), ch[t][o].status)
    BY DEF TerminalStatus
  <1>1. ch[t][o] \in Rows /\ ch[t][o].status \in RowStatus
    BY RowFacts DEF RowStatus
  <1>2. ch[t][o].status \in {"none", "applied", "failed", "conflict"}
    BY <1>1 DEF Resolvable, Fits, Undoing, With, RowStatus
  <1>3. ch[t][o].status # "none" => o \in Used(ch, t)
    BY <1>2 DEF Used, With, RowStatus
  <1>4. CASE Used(ch, t) = With(ch, t, {"applied"})
    <2>1. ch[t][o].status \in {"none", "applied"}
      BY <1>3, <1>4 DEF With
    <2> QED
      BY <1>4, <2>1 DEF TerminalStatus, Fits, Undoing
  <1>5. CASE Used(ch, t) # With(ch, t, {"applied"}) /\ With(ch, t, {"applied", "conflict"}) # {}
    BY <1>2, <1>5 DEF TerminalStatus, Fits, Undoing
  <1>6. CASE Used(ch, t) # With(ch, t, {"applied"}) /\ With(ch, t, {"applied", "conflict"}) = {}
    BY <1>2, <1>6 DEF TerminalStatus, Fits, Undoing, With
  <1> QED
    BY <1>4, <1>5, <1>6

LEMMA CompletedFits ==
  ASSUME NEW ch \in [Txs -> [Ords -> Rows]], NEW t \in Txs, Resolvable(ch, t)
  PROVE  /\ Completed(ch, t) \in {"open", "completed", "partial", "failed"}
         /\ \A o \in Ords : Fits(Completed(ch, t), ch[t][o].status)
  BY TerminalFits DEF Completed, Resolvable

LEMMA CancelledFits ==
  ASSUME NEW ch \in [Txs -> [Ords -> Rows]], NEW t \in Txs, Resolvable(ch, t)
  PROVE  /\ Cancelled(ch, t) \in {"open", "partial", "cancelled"}
         /\ \A o \in Ords : Fits(Cancelled(ch, t), ch[t][o].status)
  <1>1. CASE With(ch, t, {"planned"}) # {}
    BY <1>1 DEF Cancelled, Resolvable
  <1>2. CASE With(ch, t, {"planned"}) = {}
    <2> SUFFICES ASSUME NEW o \in Ords
                 PROVE  Fits(Cancelled(ch, t), ch[t][o].status)
      BY DEF Cancelled
    <2>1. ch[t][o].status \in RowStatus
      BY RowFacts DEF RowStatus
    <2>2. ch[t][o].status \in {"none", "applied", "failed", "conflict"}
      BY <1>2, <2>1 DEF Resolvable, Fits, Undoing, With, RowStatus
    <2> QED
      BY <1>2, <2>2 DEF Cancelled, Fits, Undoing, With
  <1> QED
    BY <1>1, <1>2

LEMMA FinalizedFits ==
  ASSUME NEW ch \in [Txs -> [Ords -> Rows]], NEW t \in Txs,
         \A o \in Ords : ch[t][o].status # "planned",
         tx[t].status = "undone" => \A o \in Ords : ch[t][o].status \notin {"applied", "reverting"}
  PROVE  /\ Finalized(ch, t) \in Undoing \cup {"undone"}
         /\ \A o \in Ords : Fits(Finalized(ch, t), ch[t][o].status)
  BY DEF Finalized, Fits, Undoing, With

-----------------------------------------------------------------------------
(***************************************************************************)
(* 3. What a step keeps.                                                   *)
(***************************************************************************)
LEMMA NotStanding ==
  ASSUME IInv, NEW t \in Txs, NEW o \in Ords,
         world[change[t][o].cell] = change[t][o].before
  PROVE  \A c \in Cells : mine[c] # <<t, o>>
  BY DEF IInv, Stands

LEMMA Finite == IsFiniteSet(Txs \X Ords)
  <1>1. IsFiniteSet(Txs) /\ IsFiniteSet(Ords)
    BY FS_Interval, JournalAssumption DEF Txs, Ords
  <1> QED
    BY <1>1, FS_Product

RowsMove == \A t \in Txs, o \in Ords : RowMove(change[t][o], change'[t][o])

(* A change is denied only when it does not stand.                         *)
DeniedRightly ==
  \A t \in Txs, o \in Ords :
    change'[t][o].status \in {"failed", "reverted"} =>
      \/ change'[t][o].status = change[t][o].status
      \/ change[t][o].cut
      \/ \A c \in Cells : mine[c] # <<t, o>>

(* A change is called reverted only when what was there before stands.     *)
Restores ==
  \A t \in Txs, o \in Ords :
    Reverts(t, o) /\ (\A h \in Ops : ~op[h].lost)
      => world[change[t][o].cell] = change[t][o].before

LEMMA NoneReverts ==
  ASSUME \A t \in Txs, o \in Ords :
           change'[t][o].status = "reverted" => change[t][o].status = "reverted"
  PROVE  Restores
  BY DEF Restores, Reverts

LEMMA StandsKept ==
  ASSUME IInv, RowsMove, DeniedRightly, UNCHANGED <<world, mine>>
  PROVE  Stands'
  <1> SUFFICES ASSUME NEW c \in Cells, NEW t \in Txs, NEW o \in Ords, mine[c] = <<t, o>>
               PROVE  /\ change'[t][o].cell = c /\ world[c] # change'[t][o].before
                      /\ change'[t][o].status # "none"
                      /\ change'[t][o].cut \/ change'[t][o].status \notin {"failed", "reverted"}
    BY DEF Stands
  <1>1. /\ change[t][o].cell = c /\ world[c] # change[t][o].before
        /\ change[t][o].status # "none"
        /\ change[t][o].cut \/ change[t][o].status \notin {"failed", "reverted"}
    BY DEF IInv, Stands
  <1> QED
    BY <1>1 DEF RowsMove, RowMove, DeniedRightly

LEMMA BudgetStays ==
  ASSUME IInv, RowsMove, \A t \in Txs : tx'[t].plan \in Scope => tx[t].plan \in Scope
  PROVE  BudgetKept'
  <1> DEFINE S == {r \in Limited : change[r[1]][r[2]].status \in {"planned", "applied"}}
             Z == {r \in Limited' : change'[r[1]][r[2]].status \in {"planned", "applied"}}
  <1>1. Z \subseteq S
    BY DEF RowsMove, RowMove, Limited
  <1>2. IsFiniteSet(S)
    BY Finite, FS_Subset DEF Limited
  <1>3. Cardinality(Z) <= Cardinality(S) /\ Cardinality(S) \in Nat /\ Cardinality(Z) \in Nat
    BY <1>1, <1>2, FS_Subset, FS_CardinalityType
  <1>4. Cardinality(S) <= MaxChanges
    BY DEF IInv, BudgetKept
  <1>5. Cardinality(Z) <= MaxChanges
    BY <1>3, <1>4, JournalAssumption
  <1> QED
    BY <1>5 DEF BudgetKept

LEMMA HoldKept ==
  ASSUME NEW o \in OpRow, NEW tt, NEW ch, NEW m, NEW tt2, NEW ch2, NEW m2,
         OpGood(o, tt, ch, m),
         \A t \in Txs : tt[t].status # "none" => tt2[t].status # "none",
         \A t \in Txs : tt[t].status \in Undoing \cup {"undone"}
                          => tt2[t].status \in Undoing \cup {"undone"},
         \A t \in Txs, q \in Ords : RowMove(ch[t][q], ch2[t][q]),
         Edits(o) /\ MayLand(o) => Awaited(ch2[o.tx][o.at]),
         \A c \in Cells : m2[c] = <<o.tx, o.at>> => m[c] = <<o.tx, o.at>>
  PROVE  OpGood(o, tt2, ch2, m2)
  <1>1. o.tx \in Txs
    BY DEF OpRow
  <1>2. o.phase # "idle" => RowMove(ch[o.tx][o.at], ch2[o.tx][o.at])
    BY <1>1 DEF OpGood
  <1>3. o.phase = "idle" => ~Undoes(o) /\ ~Editing(o)
    BY DEF OpGood, Editing
  <1> QED
    BY <1>1, <1>2, <1>3 DEF OpGood, RowMove, Editing

(* The other operations keep what they hold, beside a step that moves rows *)
(* and plans none.                                                         *)
LEMMA OthersHold ==
  ASSUME IInv, RowsMove, UNCHANGED mine, NEW o \in OpRow, OpGood(o, tx, change, mine),
         \A t \in Txs : /\ tx[t].status # "none" => tx'[t].status # "none"
                        /\ tx[t].status \in Undoing \cup {"undone"}
                             => tx'[t].status \in Undoing \cup {"undone"}
                        /\ \A q \in Ords : change[t][q].status = "planned"
                                             => change'[t][q].status = "planned"
  PROVE  OpGood(o, tx', change', mine')
  <1>1. \A t \in Txs, q \in Ords : RowMove(change[t][q], change'[t][q])
    BY DEF RowsMove
  <1>2. Edits(o) /\ MayLand(o) => Awaited(change'[o.tx][o.at])
    BY <1>1 DEF OpGood, OpRow, MayLand, Awaited, RowMove
  <1>3. OpGood(o, tx', change', mine)
    BY <1>1, <1>2, HoldKept
  <1> QED
    BY <1>3

LEMMA NothingHeld ==
  ASSUME NEW tt, NEW ch, NEW m
  PROVE  OpGood(NoOp, tt, ch, m) /\ ~Active(NoOp) /\ ~Editing(NoOp)
  BY DEF NoOp, OpGood, Active, Editing, Edits, Undoes, MayLand

LEMMA NothingTyped == NoOp \in OpRow
  <1>1. 1 \in Txs /\ 0 \in 0 .. NOrds /\ [c \in Cells |-> Air] \in Worlds
    BY JournalAssumption DEF Txs, Worlds, Blocks
  <1> QED
    BY <1>1 DEF NoOp, OpRow

LEMMA AbortKept ==
  ASSUME NEW o \in OpRow, NEW tt, NEW ch, NEW m, OpGood(o, tt, ch, m),
         NEW q, q = [o EXCEPT !.aborted = TRUE]
  PROVE  /\ q \in OpRow /\ OpGood(q, tt, ch, m) /\ ~Active(q)
         /\ Editing(q) => Editing(o) /\ SameRow(o, q)
         /\ q.phase = o.phase /\ q.kind = o.kind /\ q.tx = o.tx /\ q.at = o.at /\ q.lost = o.lost
  <1>1. /\ q \in OpRow /\ q.aborted /\ q.kind = o.kind /\ q.tx = o.tx /\ q.at = o.at
        /\ q.phase = o.phase /\ q.lost = o.lost /\ q.seen = o.seen
    BY DEF OpRow
  <1> QED
    BY <1>1 DEF OpGood, Active, Editing, SameRow, Edits, Undoes, MayLand

(* An operation becomes no other, and begins nothing.                      *)
Less(o, q) ==
  /\ Active(q) => Active(o) /\ q.kind = o.kind /\ q.tx = o.tx
  /\ Editing(q) => Editing(o) /\ SameRow(o, q)

LEMMA AllAbortedLess ==
  ASSUME IInv, NEW h \in Ops
  PROVE  /\ AllAborted[h] \in OpRow /\ OpGood(AllAborted[h], tx, change, mine)
         /\ ~Active(AllAborted[h]) /\ Less(op[h], AllAborted[h])
         /\ AllAborted[h].lost => op[h].lost
  <1>1. op[h] \in OpRow /\ OpGood(op[h], tx, change, mine)
    BY DEF IInv, Types, Holds
  <1>2. CASE Doing(h, "none")
    <2>1. AllAborted[h] = NoOp
      BY <1>2 DEF AllAborted
    <2>2. ~NoOp.lost
      BY DEF NoOp
    <2> QED
      BY <2>1, <2>2, NothingHeld, NothingTyped DEF Less
  <1>3. CASE ~Doing(h, "none")
    <2>1. AllAborted[h] = [op[h] EXCEPT !.aborted = TRUE]
      BY <1>3 DEF AllAborted
    <2> QED
      BY <1>1, <2>1, AbortKept DEF Less
  <1> QED
    BY <1>2, <1>3

LEMMA TurnsKept ==
  ASSUME IInv, \A h \in Ops : Less(op[h], op'[h])
  PROVE  Turns'
  <1>1. \A h, k \in Ops : Active(op'[h]) /\ Active(op'[k]) => h = k
    BY DEF IInv, Turns, Less
  <1>2. ASSUME NEW h \in Ops, NEW k \in Ops, Editing(op'[h]), Editing(op'[k]), SameRow(op'[h], op'[k])
        PROVE  h = k
    <2>1. Editing(op[h]) /\ Editing(op[k]) /\ SameRow(op[h], op[k])
      BY <1>2 DEF Less, SameRow
    <2> QED
      BY <2>1 DEF IInv, Turns
  <1> QED
    BY <1>1, <1>2 DEF Turns

LEMMA AttemptsKept ==
  ASSUME IInv, \A h \in Ops : Less(op[h], op'[h]), RowsMove, op' \in [Ops -> OpRow],
         \A t \in Txs : tx'[t].plan = tx[t].plan /\ (tx'[t].status = "none" => tx[t].status = "none")
  PROVE  Attempts'
  <1>1. \A t \in Txs : Waits(t)' => Waits(t)
    BY DEF Waits, RowsMove, RowMove
  <1>2. \A t, u \in Txs : Waits(t)' /\ Waits(u)' => t = u
    BY <1>1 DEF IInv, Attempts
  <1>3. ASSUME NEW h \in Ops, NEW u \in Txs, Active(op'[h]), Edits(op'[h]),
               tx'[op'[h].tx].plan # 0, Waits(u)'
        PROVE  u = op'[h].tx
    <2>1. Active(op[h]) /\ Edits(op[h]) /\ op'[h].tx = op[h].tx
      BY <1>3 DEF Less, Edits
    <2>2. op'[h].tx \in Txs
      BY DEF OpRow
    <2> QED
      BY <1>1, <1>3, <2>1, <2>2 DEF IInv, Attempts
  <1>4. \A t \in Txs : tx'[t].status = "none" => tx'[t].plan = 0
    BY DEF IInv, Attempts
  <1> QED
    BY <1>2, <1>3, <1>4 DEF Attempts

LEMMA Kept ==
  ASSUME IInv, Types', Sound', Holds', RowsMove, DeniedRightly, UNCHANGED <<world, mine>>,
         \A t \in Txs : tx'[t].plan = tx[t].plan /\ (tx'[t].status = "none" => tx[t].status = "none"),
         \A h \in Ops : Less(op[h], op'[h])
  PROVE  IInv'
  <1>1. op' \in [Ops -> OpRow]
    BY DEF Types
  <1>2. Stands' /\ BudgetKept' /\ Turns' /\ Attempts'
    BY <1>1, StandsKept, BudgetStays, TurnsKept, AttemptsKept
  <1> QED
    BY <1>2 DEF IInv

-----------------------------------------------------------------------------
(***************************************************************************)
(* 4. The loop of an undo.                                                 *)
(***************************************************************************)
LEMMA SettledUndoes ==
  ASSUME NEW r \in Rows, NEW live
  PROVE  LET q == SettledAtOnce(r, live)
         IN /\ Undoer(r, q)
            /\ q.status = "reverted" => q.status = r.status \/ live = r.before
  BY RevertedUndoes DEF SettledAtOnce

(* What the loop leaves: the tables, and the next click or none.           *)
Looped(h, o, ops, ch) ==
  /\ change' \in [Txs -> [Ords -> Rows]] /\ tx' \in [Txs -> TxRow]
  /\ \A t \in Txs \ {o.tx} : change'[t] = ch[t] /\ tx'[t] = tx[t]
  /\ tx'[o.tx].plan = tx[o.tx].plan /\ tx'[o.tx].status \in Undoing \cup {"undone"}
  /\ \A q \in Ords :
       /\ Undoer(ch[o.tx][q], change'[o.tx][q])
       /\ Fits(tx'[o.tx].status, change'[o.tx][q].status)
       /\ change'[o.tx][q].status = "reverted" =>
            \/ ch[o.tx][q].status = "reverted"
            \/ ~o.lost /\ world[ch[o.tx][q].cell] = ch[o.tx][q].before
  /\ \/ op' = [ops EXCEPT ![h] = NoOp]
     \/ \E at \in Ords, td \in SUBSET Ords :
          /\ op' = [ops EXCEPT ![h] = [o EXCEPT !.at = at, !.phase = "planned", !.todo = td]]
          /\ ~o.aborted /\ change'[o.tx][at].status = "reverting"

LEMMA LoopMoves ==
  ASSUME Types, NEW h \in Ops, NEW o \in OpRow, NEW ops \in [Ops -> OpRow], NEW status,
         NEW ch \in [Txs -> [Ords -> Rows]],
         UndoLoop(h, o, ops, status, ch),
         status \in Undoing \cup {"undone"}, status = "undone" => tx[o.tx].status = "undone",
         o.lost => o.aborted,
         \A q \in Ords : Fits("undoing", ch[o.tx][q].status),
         tx[o.tx].status = "undone" =>
           \A q \in Ords : ch[o.tx][q].status \notin {"applied", "reverting"}
  PROVE  Looped(h, o, ops, ch)
  <1> USE DEF Looped
  <1> DEFINE v == IF o.lost THEN o.seen ELSE world
             live(q) == v[ch[o.tx][q].cell]
             Settled(at) == [q \in Ords |->
               IF q \in o.todo /\ q > at /\ InUndo(ch[o.tx][q])
               THEN SettledAtOnce(ch[o.tx][q], live(q)) ELSE ch[o.tx][q]]
             Reaches(at) == \A q \in o.todo : q > at => ~Ready(ch[o.tx][q], live(q))
             Conflicts(at) == \E q \in Ords : Settled(at)[q].status # ch[o.tx][q].status
                                              /\ Settled(at)[q].status = "conflict"
  <1>1. o.tx \in Txs /\ o.todo \subseteq Ords /\ \A q \in Ords : ch[o.tx][q] \in Rows
    BY DEF OpRow
  <1>2. ASSUME NEW at \in 0 .. NOrds, NEW q \in Ords, o.aborted => at = NOrds
        PROVE  LET z == Settled(at)[q]
               IN /\ Undoer(ch[o.tx][q], z)
                  /\ z.status = "reverted" =>
                       \/ ch[o.tx][q].status = "reverted"
                       \/ ~o.lost /\ world[ch[o.tx][q].cell] = ch[o.tx][q].before
    <2>1. CASE q \in o.todo /\ q > at /\ InUndo(ch[o.tx][q])
      <3>1. ~o.aborted /\ ~o.lost /\ live(q) = world[ch[o.tx][q].cell]
        BY <1>2, <2>1, JournalAssumption DEF Ords
      <3>2. Settled(at)[q] = SettledAtOnce(ch[o.tx][q], live(q))
        BY <2>1
      <3> HIDE DEF live, Settled
      <3> QED
        BY <1>1, <3>1, <3>2, SettledUndoes
    <2>2. CASE ~(q \in o.todo /\ q > at /\ InUndo(ch[o.tx][q]))
      <3>1. Settled(at)[q] = ch[o.tx][q]
        BY <2>2
      <3> HIDE DEF Settled
      <3> QED
        BY <1>1, <3>1, RowStays
    <2> QED
      BY <2>1, <2>2
  <1>3. \A at : Settled(at) = [q \in Ords |-> Settled(at)[q]]
    OBVIOUS
  <1>4. \A at : \A q \in Ords : ~(q > at) => Settled(at)[q] = ch[o.tx][q]
    OBVIOUS
  <1>5. ASSUME NEW rows, rows = [q \in Ords |-> rows[q]],
               \A q \in Ords : Undoer(ch[o.tx][q], rows[q]),
               change' = [ch EXCEPT ![o.tx] = rows]
        PROVE  /\ change' \in [Txs -> [Ords -> Rows]]
               /\ \A t \in Txs \ {o.tx} : change'[t] = ch[t]
               /\ \A q \in Ords : change'[o.tx][q] = rows[q]
               /\ \A q \in Ords : Fits("undoing", change'[o.tx][q].status)
               /\ tx[o.tx].status = "undone" =>
                    \A q \in Ords : change'[o.tx][q].status \notin {"applied", "reverting"}
    <2>1. rows \in [Ords -> Rows]
      BY <1>5 DEF Undoer, RowMove
    <2>2. \A q \in Ords : change'[o.tx][q] = rows[q]
      BY <1>1, <1>5
    <2>3. ASSUME NEW q \in Ords
          PROVE  /\ Fits("undoing", rows[q].status)
                 /\ tx[o.tx].status = "undone" => rows[q].status \notin {"applied", "reverting"}
      <3>1. Undoer(ch[o.tx][q], rows[q]) /\ Fits("undoing", ch[o.tx][q].status)
        BY <1>5
      <3>2. tx[o.tx].status = "undone" => ch[o.tx][q].status \notin {"applied", "reverting"}
        OBVIOUS
      <3> QED
        BY <3>1, <3>2 DEF Undoer, RowMove, Fits, Undoing
    <2> QED
      BY <1>1, <1>5, <2>1, <2>2, <2>3
  <1>6. tx[o.tx] \in TxRow
    BY <1>1 DEF Types
  <1>7. ASSUME NEW s \in Undoing \cup {"undone"}, tx' = [tx EXCEPT ![o.tx].status = s]
        PROVE  /\ tx' \in [Txs -> TxRow] /\ \A t \in Txs \ {o.tx} : tx'[t] = tx[t]
               /\ tx'[o.tx].plan = tx[o.tx].plan /\ tx'[o.tx].status = s
    BY <1>1, <1>6, <1>7 DEF Types, TxRow, TxStatus, Undoing
  <1>8. CASE \E at \in o.todo :
          /\ ~o.aborted /\ Reaches(at) /\ Ready(ch[o.tx][at], live(at))
          /\ change' = [ch EXCEPT ![o.tx] = [Settled(at) EXCEPT ![at].status = "reverting"]]
          /\ tx' = [tx EXCEPT ![o.tx].status = IF Conflicts(at) THEN "undo_partial" ELSE status]
          /\ op' = [ops EXCEPT ![h] = [o EXCEPT !.at = at, !.phase = "planned",
                                               !.todo = {q \in o.todo : q < at}]]
    <2> PICK at \in o.todo :
          /\ ~o.aborted /\ Ready(ch[o.tx][at], live(at))
          /\ change' = [ch EXCEPT ![o.tx] = [Settled(at) EXCEPT ![at].status = "reverting"]]
          /\ tx' = [tx EXCEPT ![o.tx].status = IF Conflicts(at) THEN "undo_partial" ELSE status]
          /\ op' = [ops EXCEPT ![h] = [o EXCEPT !.at = at, !.phase = "planned",
                                               !.todo = {q \in o.todo : q < at}]]
      BY <1>8
    <2> HIDE DEF Settled, Reaches, Conflicts, live
    <2> DEFINE rows == [Settled(at) EXCEPT ![at].status = "reverting"]
               td == {q \in o.todo : q < at}
               s == IF Conflicts(at) THEN "undo_partial" ELSE status
    <2>1. at \in Ords /\ at \in 0 .. NOrds /\ InUndo(ch[o.tx][at])
      <3>1. at \in Ords
        BY <1>1
      <3>2. InUndo(ch[o.tx][at])
        BY DEF Ready
      <3>3. Ords \subseteq 0 .. NOrds
        BY JournalAssumption DEF Ords
      <3> QED
        BY <3>1, <3>2, <3>3
    <2>2. status # "undone"
      BY <2>1 DEF InUndo
    <2>3. s \in Undoing
      BY <2>2 DEF Undoing
    <2>4. Settled(at)[at] = ch[o.tx][at]
      <3>1. ~(at > at)
        BY <2>1 DEF Ords
      <3> QED
        BY <1>4, <2>1, <3>1
    <2>5. /\ rows = [q \in Ords |-> rows[q]]
          /\ \A q \in Ords \ {at} : rows[q] = Settled(at)[q]
          /\ rows[at] = [ch[o.tx][at] EXCEPT !.status = "reverting"]
      <3>1. DOMAIN Settled(at) = Ords
        BY <1>3
      <3> QED
        BY <1>3, <2>1, <2>4, <3>1
    <2> HIDE DEF rows, s, td
    <2>6. Undoer(ch[o.tx][at], rows[at]) /\ rows[at].status = "reverting"
      BY <1>1, <2>1, <2>5, RevertingUndoes
    <2>7. ASSUME NEW q \in Ords
          PROVE  /\ Undoer(ch[o.tx][q], rows[q])
                 /\ rows[q].status = "reverted" =>
                      \/ ch[o.tx][q].status = "reverted"
                      \/ ~o.lost /\ world[ch[o.tx][q].cell] = ch[o.tx][q].before
      BY <1>2, <2>1, <2>5, <2>6
    <2>8. change' = [ch EXCEPT ![o.tx] = rows] /\ tx' = [tx EXCEPT ![o.tx].status = s]
      BY DEF rows, s
    <2>9. /\ change' \in [Txs -> [Ords -> Rows]]
          /\ \A t \in Txs \ {o.tx} : change'[t] = ch[t]
          /\ \A q \in Ords : change'[o.tx][q] = rows[q]
          /\ \A q \in Ords : Fits("undoing", change'[o.tx][q].status)
      BY <1>5, <2>5, <2>7, <2>8
    <2>10. /\ tx' \in [Txs -> TxRow] /\ \A t \in Txs \ {o.tx} : tx'[t] = tx[t]
           /\ tx'[o.tx].plan = tx[o.tx].plan /\ tx'[o.tx].status = s
      BY <1>7, <2>3, <2>8
    <2>11. \A q \in Ords : Fits(s, change'[o.tx][q].status)
      BY <2>3, <2>9 DEF Fits, Undoing
    <2>12. td \in SUBSET Ords
           /\ op' = [ops EXCEPT ![h] = [o EXCEPT !.at = at, !.phase = "planned", !.todo = td]]
      BY <1>1 DEF td
    <2> QED
      BY <2>1, <2>3, <2>6, <2>7, <2>9, <2>10, <2>11, <2>12
  <1>9. CASE \E at \in IF o.aborted THEN {NOrds} ELSE {0} \cup o.todo :
          /\ o.aborted \/ Reaches(at)
          /\ change' = [ch EXCEPT ![o.tx] = Settled(at)]
          /\ tx' = [tx EXCEPT ![o.tx].status = Finalized(change', o.tx)]
          /\ op' = [ops EXCEPT ![h] = NoOp]
    <2> PICK at \in IF o.aborted THEN {NOrds} ELSE {0} \cup o.todo :
          /\ change' = [ch EXCEPT ![o.tx] = Settled(at)]
          /\ tx' = [tx EXCEPT ![o.tx].status = Finalized(change', o.tx)]
          /\ op' = [ops EXCEPT ![h] = NoOp]
      BY <1>9
    <2> DEFINE rows == Settled(at)
    <2>1. at \in 0 .. NOrds /\ (o.aborted => at = NOrds)
      BY <1>1, JournalAssumption DEF Ords
    <2>2. rows = [q \in Ords |-> rows[q]]
      BY <1>3
    <2>3. ASSUME NEW q \in Ords
          PROVE  /\ Undoer(ch[o.tx][q], rows[q])
                 /\ rows[q].status = "reverted" =>
                      \/ ch[o.tx][q].status = "reverted"
                      \/ ~o.lost /\ world[ch[o.tx][q].cell] = ch[o.tx][q].before
      BY <1>2, <2>1
    <2>4. change' = [ch EXCEPT ![o.tx] = rows]
      OBVIOUS
    <2> HIDE DEF rows, Settled
    <2>5. /\ change' \in [Txs -> [Ords -> Rows]]
          /\ \A t \in Txs \ {o.tx} : change'[t] = ch[t]
          /\ \A q \in Ords : change'[o.tx][q] = rows[q]
          /\ \A q \in Ords : Fits("undoing", change'[o.tx][q].status)
          /\ tx[o.tx].status = "undone" =>
               \A q \in Ords : change'[o.tx][q].status \notin {"applied", "reverting"}
      BY <1>5, <2>2, <2>3, <2>4
    <2>6. /\ Finalized(change', o.tx) \in Undoing \cup {"undone"}
          /\ \A q \in Ords : Fits(Finalized(change', o.tx), change'[o.tx][q].status)
      <3>1. \A q \in Ords : change'[o.tx][q].status # "planned"
        BY <2>5 DEF Fits
      <3> QED
        BY <1>1, <2>5, <3>1, FinalizedFits
    <2>7. /\ tx' \in [Txs -> TxRow] /\ \A t \in Txs \ {o.tx} : tx'[t] = tx[t]
          /\ tx'[o.tx].plan = tx[o.tx].plan /\ tx'[o.tx].status = Finalized(change', o.tx)
      BY <1>7, <2>6
    <2> QED
      BY <2>3, <2>5, <2>6, <2>7
  <1> QED
    BY <1>8, <1>9 DEF UndoLoop

-----------------------------------------------------------------------------
(***************************************************************************)
(* 5. Beginnings.                                                          *)
(***************************************************************************)
LEMMA InitIInv == Init => IInv
  <1> SUFFICES ASSUME Init
               PROVE  IInv
    OBVIOUS
  <1>1. \A t \in Txs, o \in Ords : change[t][o] = NoRow /\ NoRow.status = "none" /\ NoRow \in Rows
    BY DEF Init, NoRow, Rows
  <1>2. \A t \in Txs : tx[t].status = "none" /\ tx[t].plan = 0 /\ tx[t] \in TxRow
    BY DEF Init, TxRow, TxStatus
  <1>3. \A h \in Ops : op[h] = NoOp
    BY DEF Init
  <1>4. \A c \in Cells, t \in Txs, o \in Ords : mine[c] # <<t, o>>
    BY DEF Init, Txs
  <1>5. Types
    <2>1. op \in [Ops -> OpRow]
      BY NothingTyped DEF Init
    <2>2. edits \in 0 .. MaxEdits /\ faults \in 0 .. MaxFaults
      BY JournalAssumption DEF Init
    <2> QED
      BY <1>1, <1>2, <2>1, <2>2 DEF Init, Types
  <1>6. Sound /\ Stands
    BY <1>1, <1>2, <1>4 DEF Sound, Fits, Stands
  <1>7. Holds /\ Turns /\ Attempts
    BY <1>1, <1>2, <1>3, NothingHeld DEF Holds, Turns, Attempts, Waits
  <1>8. BudgetKept
    <2>1. {r \in Limited : change[r[1]][r[2]].status \in {"planned", "applied"}} = {}
      BY <1>1 DEF Limited
    <2>2. Cardinality({}) <= MaxChanges
      BY FS_EmptySet, JournalAssumption
    <2> QED
      BY <2>1, <2>2 DEF BudgetKept
  <1> QED
    BY <1>5, <1>6, <1>7, <1>8 DEF IInv

LEMMA SameRows ==
  ASSUME IInv, UNCHANGED change
  PROVE  RowsMove /\ DeniedRightly
  BY RowStays DEF RowsMove, DeniedRightly, IInv, Types

(* A new handler has the slot to itself.                                   *)
LEMMA BegunTurns ==
  ASSUME IInv, NEW h \in Ops, NEW o \in OpRow, op' = Started(h, o), ~Editing(o)
  PROVE  /\ op' \in [Ops -> OpRow] /\ op'[h] = o
         /\ \A k \in Ops \ {h} : op'[k] = AllAborted[k]
         /\ Turns'
  <1>1. AllAborted = [k \in Ops |-> AllAborted[k]]
    BY DEF AllAborted
  <1>2. /\ op' \in [Ops -> OpRow] /\ op'[h] = o
        /\ \A k \in Ops \ {h} : op'[k] = AllAborted[k]
    BY <1>1, AllAbortedLess DEF Started
  <1>3. \A k \in Ops : Active(op'[k]) => k = h
    BY <1>2, AllAbortedLess
  <1>4. ASSUME NEW j \in Ops, NEW k \in Ops, Editing(op'[j]), Editing(op'[k]), SameRow(op'[j], op'[k])
        PROVE  j = k
    <2>1. Less(op[j], op'[j]) /\ Less(op[k], op'[k])
      BY <1>2, <1>4, AllAbortedLess
    <2>2. Editing(op[j]) /\ Editing(op[k]) /\ SameRow(op[j], op[k])
      BY <1>4, <2>1 DEF Less, SameRow
    <2> QED
      BY <2>2 DEF IInv, Turns
  <1> QED
    BY <1>2, <1>3, <1>4 DEF Turns

LEMMA BegunOp ==
  ASSUME NEW t \in Txs, NEW o, o = [NoOp EXCEPT !.kind = "edit", !.tx = t]
  PROVE  /\ o \in OpRow /\ o.tx = t /\ o.kind = "edit" /\ o.phase = "idle" /\ ~Editing(o)
         /\ \A tt, ch, m : tt[t].status # "none" => OpGood(o, tt, ch, m)
  <1>1. /\ o \in OpRow /\ o.tx = t /\ o.kind = "edit" /\ o.phase = "idle"
        /\ o.at = 0 /\ ~o.lost
    BY NothingTyped DEF NoOp, OpRow
  <1> QED
    BY <1>1 DEF OpGood, Editing, Edits, Undoes, MayLand

LEMMA BegunHolds ==
  ASSUME IInv, NEW h \in Ops, NEW t \in Txs,
         \A k \in Ops \ {h} : op'[k] = AllAborted[k],
         op'[h] = [NoOp EXCEPT !.kind = "edit", !.tx = t],
         UNCHANGED <<change, mine>>,
         \A u \in Txs : /\ tx[u].status # "none" => tx'[u].status # "none"
                        /\ tx[u].status \in Undoing \cup {"undone"} => tx'[u] = tx[u],
         tx'[t].status # "none"
  PROVE  Holds'
  <1> SUFFICES ASSUME NEW k \in Ops
               PROVE  OpGood(op'[k], tx', change', mine')
    BY DEF Holds
  <1>1. CASE k = h
    BY <1>1, BegunOp
  <1>2. CASE k # h
    <2>1. op'[k] \in OpRow /\ OpGood(op'[k], tx, change, mine)
      BY <1>2, AllAbortedLess
    <2> DEFINE q == op'[k]
    <2>2. \A u \in Txs, o \in Ords : RowMove(change[u][o], change'[u][o])
      BY SameRows DEF RowsMove
    <2>3. Edits(q) /\ MayLand(q) => Awaited(change'[q.tx][q.at])
      BY <2>1 DEF OpGood
    <2>4. \A u \in Txs : /\ tx[u].status # "none" => tx'[u].status # "none"
                         /\ tx[u].status \in Undoing \cup {"undone"}
                              => tx'[u].status \in Undoing \cup {"undone"}
      OBVIOUS
    <2> HIDE DEF q
    <2>5. \A c \in Cells : mine'[c] = <<q.tx, q.at>> => mine[c] = <<q.tx, q.at>>
      OBVIOUS
    <2>6. q \in OpRow /\ OpGood(q, tx, change, mine)
      BY <2>1 DEF q
    <2>7. OpGood(q, tx', change', mine')
      BY <2>2, <2>3, <2>4, <2>5, <2>6, HoldKept
    <2> QED
      BY <2>7 DEF q
  <1> QED
    BY <1>1, <1>2

LEMMA BeginEditKeeps ==
  ASSUME IInv, NEW h \in Ops, NEW t \in Txs, BeginEdit(h, t)
  PROVE  IInv'
  <1> DEFINE o == [NoOp EXCEPT !.kind = "edit", !.tx = t]
  <1>1. /\ tx[t].status = "none" /\ tx' = [tx EXCEPT ![t].status = "open"]
        /\ op' = Started(h, o) /\ UNCHANGED <<world, mine, change, up, edits, faults>>
    BY DEF BeginEdit, NextTx, Opened
  <1>2. o \in OpRow /\ o.tx = t /\ ~Editing(o)
    BY BegunOp
  <1>3. /\ op' \in [Ops -> OpRow] /\ op'[h] = o /\ Turns'
        /\ \A k \in Ops \ {h} : op'[k] = AllAborted[k]
    BY <1>1, <1>2, BegunTurns
  <1>4. /\ tx' \in [Txs -> TxRow] /\ tx'[t].status = "open" /\ tx'[t].plan = tx[t].plan
        /\ \A u \in Txs \ {t} : tx'[u] = tx[u]
    BY <1>1 DEF IInv, Types, TxRow, TxStatus
  <1>5. Types'
    BY <1>1, <1>3, <1>4 DEF IInv, Types
  <1>6. Sound'
    BY <1>1, <1>4 DEF IInv, Sound, Fits
  <1>7. Stands' /\ BudgetKept'
    BY <1>1, <1>4, SameRows, StandsKept, BudgetStays
  <1>8. Holds'
    <2> HIDE DEF o
    <2>1. \A u \in Txs : /\ tx[u].status # "none" => tx'[u].status # "none"
                         /\ tx[u].status \in Undoing \cup {"undone"} => tx'[u] = tx[u]
      BY <1>1, <1>4 DEF Undoing
    <2> QED
      BY <1>1, <1>3, <1>4, <2>1, BegunHolds DEF o
  <1>9. Attempts'
    <2>1. \A u \in Txs : Waits(u)' => Waits(u)
      BY <1>1, <1>4 DEF Waits
    <2>2. \A k \in Ops : Active(op'[k]) => k = h
      BY <1>3, AllAbortedLess
    <2>3. tx[t].plan = 0
      BY <1>1 DEF IInv, Attempts
    <2>4. \A u \in Txs : tx'[u].status = "none" => tx'[u].plan = 0
      BY <1>4 DEF IInv, Attempts
    <2>5. \A u, w \in Txs : Waits(u)' /\ Waits(w)' => u = w
      BY <2>1 DEF IInv, Attempts
    <2> HIDE DEF o
    <2> QED
      BY <1>2, <1>3, <1>4, <2>2, <2>3, <2>4, <2>5 DEF Attempts
  <1> QED
    BY <1>3, <1>5, <1>6, <1>7, <1>8, <1>9 DEF IInv

LEMMA BeginBuildKeeps ==
  ASSUME IInv, NEW h \in Ops, NEW t \in Txs, NEW p \in BuildPlans, BeginBuild(h, p, t)
  PROVE  IInv'
  <1> DEFINE o == [NoOp EXCEPT !.kind = "edit", !.tx = t]
  <1>1. /\ op' = Started(h, o) /\ UNCHANGED <<world, mine, change, up, edits, faults>>
        /\ \A u \in OpenAttempts : With(change, u, {"planned"}) = {}
        /\ tx[t].status = "none" \/ (t \in OpenAttempts /\ tx[t].plan = p)
        /\ tx' = [u \in Txs |->
             IF u = t THEN [status |-> "open", plan |-> p]
             ELSE IF u \in OpenAttempts THEN [tx[u] EXCEPT !.status = TerminalStatus(change, u)]
             ELSE tx[u]]
    BY DEF BeginBuild, NextTx, Unresolved
  <1>2. o \in OpRow /\ o.tx = t /\ ~Editing(o)
    BY BegunOp
  <1>3. /\ op' \in [Ops -> OpRow] /\ op'[h] = o /\ Turns'
        /\ \A k \in Ops \ {h} : op'[k] = AllAborted[k]
    BY <1>1, <1>2, BegunTurns
  <1>4. ASSUME NEW u \in OpenAttempts
        PROVE  /\ u \in Txs /\ tx[u].status = "open" /\ tx[u].plan # 0
               /\ TerminalStatus(change, u) \in {"completed", "partial", "failed"}
               /\ \A q \in Ords : Fits(TerminalStatus(change, u), change[u][q].status)
    <2>1. u \in Txs /\ tx[u].status = "open" /\ tx[u].plan # 0 /\ With(change, u, {"planned"}) = {}
      BY <1>1, <1>4 DEF OpenAttempts
    <2>2. Resolvable(change, u) /\ change \in [Txs -> [Ords -> Rows]]
      BY <2>1 DEF IInv, Types, Sound, Resolvable
    <2> QED
      BY <2>1, <2>2, TerminalFits
  <1>5. /\ tx'[t] = [status |-> "open", plan |-> p]
        /\ \A u \in OpenAttempts \ {t} :
             /\ tx'[u] \in TxRow /\ tx'[u].status = TerminalStatus(change, u)
             /\ tx'[u].plan = tx[u].plan
        /\ \A u \in Txs \ {t} : u \notin OpenAttempts => tx'[u] = tx[u]
    BY <1>1, <1>4 DEF IInv, Types, TxRow, TxStatus
  <1>6. tx' \in [Txs -> TxRow]
    <2>1. tx'[t] \in TxRow
      BY <1>5 DEF TxRow, TxStatus
    <2>2. \A u \in Txs : tx'[u] \in TxRow
      BY <1>5, <2>1 DEF IInv, Types
    <2> QED
      BY <1>1, <2>2
  <1>7. \A q \in Ords : Fits("open", change[t][q].status)
    BY <1>1 DEF OpenAttempts, IInv, Sound, Fits
  <1>8. Types'
    BY <1>1, <1>3, <1>6 DEF IInv, Types
  <1>9. Sound'
    <2> SUFFICES ASSUME NEW u \in Txs, NEW q \in Ords
                 PROVE  Fits(tx'[u].status, change[u][q].status)
      BY <1>1 DEF Sound
    <2>1. CASE u = t
      BY <1>5, <1>7, <2>1
    <2>2. CASE u # t /\ u \in OpenAttempts
      BY <1>4, <1>5, <2>2
    <2>3. CASE u # t /\ u \notin OpenAttempts
      BY <1>5, <2>3 DEF IInv, Sound
    <2> QED
      BY <2>1, <2>2, <2>3
  <1>10. \A u \in Txs : tx'[u].plan \in Scope => tx[u].plan \in Scope
    BY <1>1, <1>4, <1>5 DEF Scope, IInv, Attempts
  <1>11. Stands' /\ BudgetKept'
    BY <1>1, <1>10, SameRows, StandsKept, BudgetStays
  <1>12. Holds'
    <2> HIDE DEF o
    <2>1. \A u \in Txs : /\ tx[u].status # "none" => tx'[u].status # "none"
                         /\ tx[u].status \in Undoing \cup {"undone"} => tx'[u] = tx[u]
      BY <1>1, <1>4, <1>5 DEF Undoing
    <2>2. tx'[t].status # "none"
      BY <1>5
    <2> QED
      BY <1>1, <1>3, <2>1, <2>2, BegunHolds DEF o
  <1>13. \A u \in Txs : ~Waits(u)'
    <2> SUFFICES ASSUME NEW u \in Txs, NEW q \in Ords, change[u][q].status = "planned",
                        tx'[u].plan # 0
                 PROVE  FALSE
      BY <1>1 DEF Waits
    <2>1. tx[u].status = "open"
      BY DEF IInv, Sound, Fits
    <2>2. CASE u \in OpenAttempts
      BY <1>1, <2>2 DEF With
    <2>3. CASE u \notin OpenAttempts
      BY <1>1, <1>5, <2>1, <2>3 DEF OpenAttempts
    <2> QED
      BY <2>2, <2>3
  <1>14. Attempts'
    <2>1. \A u \in Txs : tx'[u].status = "none" => tx'[u].plan = 0
      BY <1>4, <1>5 DEF IInv, Attempts
    <2> QED
      BY <1>13, <2>1 DEF Attempts
  <1> QED
    BY <1>3, <1>8, <1>9, <1>11, <1>12, <1>14 DEF IInv

-----------------------------------------------------------------------------
(***************************************************************************)
(* 6. Edits.                                                               *)
(***************************************************************************)
LEMMA RowHeld ==
  ASSUME IInv, NEW h \in Ops, op[h].phase # "idle"
  PROVE  /\ op[h] \in OpRow /\ op[h].tx \in Txs /\ op[h].at \in Ords
         /\ RowOf(h) \in Rows /\ RowOf(h) \in Row /\ RowOf(h).status # "none"
         /\ RowOf(h).cell \in Cells /\ RowOf(h).before \in Blocks
         /\ RowOf(h) = change[op[h].tx][op[h].at]
  <1>1. op[h] \in OpRow /\ OpGood(op[h], tx, change, mine)
    BY DEF IInv, Types, Holds
  <1>2. op[h].tx \in Txs /\ op[h].at \in Ords /\ change[op[h].tx][op[h].at].status # "none"
    BY <1>1 DEF OpRow, OpGood
  <1>3. change[op[h].tx][op[h].at] \in Rows
    BY <1>2 DEF IInv, Types
  <1> QED
    BY <1>1, <1>2, <1>3, RowFacts DEF RowOf

(* What a bot sees of a change that is on record, if it is not marked.     *)
LEMMA SeesTruth ==
  ASSUME IInv, NEW h \in Ops, op[h].phase # "idle",
         NEW live \in Sees(h, RowOf(h).cell), live = RowOf(h).before
  PROVE  /\ View(h)[RowOf(h).cell] = RowOf(h).before
         /\ RowOf(h).cut \/ \A c \in Cells : mine[c] # <<op[h].tx, op[h].at>>
  <1>1. /\ op[h].tx \in Txs /\ op[h].at \in Ords /\ RowOf(h).before \in Blocks
        /\ RowOf(h) = change[op[h].tx][op[h].at] /\ OpGood(op[h], tx, change, mine)
    BY RowHeld DEF IInv, Holds
  <1>2. View(h)[RowOf(h).cell] = RowOf(h).before
    BY <1>1, BlockFacts DEF Sees
  <1>3. CASE ~op[h].lost
    BY <1>1, <1>2, <1>3, NotStanding DEF View
  <1>4. CASE op[h].lost /\ Edits(op[h])
    BY <1>1, <1>4, <1>2 DEF OpGood, Editing
  <1>5. CASE op[h].lost /\ ~Edits(op[h])
    <2>1. Undoes(op[h])
      BY <1>1, <1>5 DEF OpGood, IInv, Types, OpRow, Edits, Undoes
    <2>2. op[h].seen[RowOf(h).cell] = RowOf(h).before
      BY <1>2, <1>5 DEF View
    <2>3. ASSUME ~RowOf(h).cut, NEW c \in Cells, mine[c] = <<op[h].tx, op[h].at>>
          PROVE  FALSE
      <3>1. RowOf(h).cell = c
        BY <1>1, <2>3 DEF IInv, Stands
      <3>2. op[h].seen[c] # RowOf(h).before
        BY <1>1, <1>5, <2>1, <2>3 DEF OpGood
      <3> QED
        BY <2>2, <3>1, <3>2
    <2> QED
      BY <1>2, <2>3
  <1> QED
    BY <1>3, <1>4, <1>5

LEMMA SeesBlocks ==
  ASSUME IInv, NEW h \in Ops, op[h].phase # "idle"
  PROVE  Sees(h, RowOf(h).cell) \subseteq Blocks \cup {NoBlock} /\ View(h) \in Worlds
  <1>1. View(h) \in Worlds
    BY RowHeld DEF View, IInv, Types, OpRow
  <1> QED
    BY <1>1, RowHeld DEF Sees, Worlds

(* The verdict of an edit on the row that it holds.                        *)
LEMMA JudgeKeeps ==
  ASSUME IInv, NEW h \in Ops, Editing(op[h]), NEW q, Judges(RowOf(h), q),
         q.status = "failed" => \/ q = RowOf(h) \/ RowOf(h).cut
                                \/ \A c \in Cells : mine[c] # <<op[h].tx, op[h].at>>,
         change' = [change EXCEPT ![op[h].tx][op[h].at] = q],
         op' = Idle(h),
         UNCHANGED <<world, mine, tx, up, edits, faults>>
  PROVE  IInv' /\ Restores
  <1>1. /\ op[h] \in OpRow /\ op[h].tx \in Txs /\ op[h].at \in Ords
        /\ RowOf(h) \in Rows /\ RowOf(h) = change[op[h].tx][op[h].at]
        /\ OpGood(op[h], tx, change, mine) /\ Edits(op[h])
    BY RowHeld DEF Editing, IInv, Holds
  <1>2. /\ change' \in [Txs -> [Ords -> Rows]] /\ change'[op[h].tx][op[h].at] = q
        /\ \A t \in Txs, o \in Ords :
             t # op[h].tx \/ o # op[h].at => change'[t][o] = change[t][o]
    BY <1>1 DEF Judges, RowMove, IInv, Types
  <1>3. /\ op' \in [Ops -> OpRow] /\ \A k \in Ops \ {h} : op'[k] = op[k]
        /\ op'[h].kind = op[h].kind /\ op'[h].tx = op[h].tx /\ op'[h].at = 0
        /\ op'[h].phase = "idle" /\ op'[h].aborted = op[h].aborted /\ ~op'[h].lost
    <2>1. 0 \in 0 .. NOrds /\ NoOp.seen \in Worlds
      BY NothingTyped, JournalAssumption DEF OpRow
    <2> DEFINE r == [op[h] EXCEPT !.phase = "idle", !.at = 0, !.lost = FALSE, !.seen = NoOp.seen]
    <2>2. /\ r \in OpRow /\ r.kind = op[h].kind /\ r.tx = op[h].tx /\ r.at = 0
          /\ r.phase = "idle" /\ r.aborted = op[h].aborted /\ ~r.lost
      BY <1>1, <2>1 DEF OpRow
    <2>3. op' = [op EXCEPT ![h] = r]
      BY DEF Idle
    <2> HIDE DEF r
    <2> QED
      BY <2>2, <2>3 DEF IInv, Types
  <1>4. Types'
    BY <1>2, <1>3 DEF IInv, Types
  <1>5. RowsMove
    BY <1>1, <1>2, RowStays DEF RowsMove, Judges, IInv, Types
  <1>6. DeniedRightly /\ Restores
    <2>1. q.status = "reverted" => q = RowOf(h)
      BY DEF Judges
    <2> QED
      BY <1>1, <1>2, <2>1, NoneReverts DEF DeniedRightly
  <1>7. Sound'
    <2>1. Fits(tx[op[h].tx].status, q.status)
      BY <1>1 DEF IInv, Sound, Judges, Fits
    <2> QED
      BY <1>1, <1>2, <2>1 DEF IInv, Sound
  <1>8. Holds'
    <2> SUFFICES ASSUME NEW k \in Ops
                 PROVE  OpGood(op'[k], tx, change', mine)
      BY DEF Holds
    <2>1. CASE k = h
      BY <1>1, <1>3, <2>1 DEF OpGood, Editing, Edits, Undoes, MayLand
    <2>2. CASE k # h
      <3>1. op[k] \in OpRow /\ OpGood(op[k], tx, change, mine) /\ op'[k] = op[k]
        BY <1>3, <2>2 DEF IInv, Types, Holds
      <3>2. Edits(op[k]) /\ MayLand(op[k]) => Awaited(change'[op[k].tx][op[k].at])
        <4> SUFFICES ASSUME Edits(op[k]), MayLand(op[k])
                     PROVE  Awaited(change'[op[k].tx][op[k].at])
          OBVIOUS
        <4>1. Editing(op[k]) /\ Awaited(change[op[k].tx][op[k].at])
          BY <3>1 DEF OpGood, MayLand, Editing
        <4>2. ~SameRow(op[h], op[k])
          BY <2>2, <4>1 DEF IInv, Turns
        <4>3. op[k].tx \in Txs /\ op[k].at \in Ords
          BY <4>1, RowHeld DEF Editing
        <4> QED
          BY <1>2, <4>1, <4>2, <4>3 DEF SameRow
      <3>3. OpGood(op[k], tx, change', mine)
        BY <1>5, <3>1, <3>2, HoldKept DEF RowsMove
      <3> QED
        BY <3>1, <3>3
    <2> QED
      BY <2>1, <2>2
  <1>9. \A k \in Ops : Less(op[k], op'[k])
    BY <1>3 DEF Less, Active, Editing, Edits, SameRow
  <1> QED
    BY <1>4, <1>5, <1>6, <1>7, <1>8, <1>9, Kept

LEMMA OneMore ==
  ASSUME NEW S, IsFiniteSet(S), NEW e
  PROVE  /\ IsFiniteSet(S \cup {e})
         /\ Cardinality(S \cup {e}) <= Cardinality(S) + 1
         /\ Cardinality(S \cup {e}) \in Nat
  <1>1. Cardinality(S) \in Nat
    BY FS_CardinalityType
  <1>2. /\ IsFiniteSet(S \cup {e})
        /\ Cardinality(S \cup {e}) = IF e \in S THEN Cardinality(S) ELSE Cardinality(S) + 1
    BY FS_AddElement, Zenon
  <1> QED
    BY <1>1, <1>2

LEMMA EditPlanKeeps ==
  ASSUME IInv, NEW h \in Ops, EditPlan(h)
  PROVE  IInv' /\ Restores
  <1>1. /\ Edits(op[h]) /\ op[h].phase = "idle" /\ ~op[h].aborted /\ tx[op[h].tx].status = "open"
        /\ BudgetLeft(h) /\ UNCHANGED <<world, mine, tx, up, edits, faults>>
    BY DEF EditPlan, Doing, Edits
  <1>0. PICK o \in Ords, c \in Cells :
        /\ o \notin Used(change, op[h].tx)
        /\ \E b \in Placings(h, c) \cup Diggings(h, c) :
             change' = [change EXCEPT ![op[h].tx][o] =
               [NoRow EXCEPT !.status = "planned", !.cell = c, !.before = View(h)[c], !.intended = b]]
        /\ op' = [op EXCEPT ![h].at = o, ![h].phase = "planned"]
    BY DEF EditPlan
  <1> PICK b \in Placings(h, c) \cup Diggings(h, c) :
        change' = [change EXCEPT ![op[h].tx][o] =
             [NoRow EXCEPT !.status = "planned", !.cell = c, !.before = View(h)[c], !.intended = b]]
    BY <1>0
  <1> DEFINE q == [NoRow EXCEPT !.status = "planned", !.cell = c, !.before = View(h)[c],
                                !.intended = b]
  <1>2. op[h] \in OpRow /\ op[h].tx \in Txs /\ OpGood(op[h], tx, change, mine)
    BY DEF IInv, Types, Holds, OpRow
  <1>3. View(h) \in Worlds /\ View(h)[c] \in Blocks
    BY <1>2 DEF View, IInv, Types, OpRow, Worlds
  <1>4. q \in Rows /\ q.status = "planned" /\ ~q.cut /\ q.cell = c
    <2>1. b \in Blocks /\ ((b = Air) <=> (View(h)[c] # Air))
      BY BlockFacts DEF Placings, Diggings
    <2>2. /\ q.status = "planned" /\ q.cell = c /\ q.before = View(h)[c] /\ q.intended = b
          /\ q.after = NoBlock /\ q.cut = FALSE /\ q \in RowWith({"planned"}, {NoBlock})
      BY <1>3, <2>1 DEF NoRow, RowWith
    <2>3. q \in Row
      BY <2>2 DEF Row, RowWith
    <2> HIDE DEF q
    <2> QED
      BY <2>1, <2>2, <2>3 DEF Rows
  <1>5. change' = [change EXCEPT ![op[h].tx][o] = q]
    OBVIOUS
  <1> HIDE DEF q
  <1>6. change[op[h].tx][o].status = "none"
    <2>1. change[op[h].tx][o] \in Rows
      BY <1>2 DEF IInv, Types
    <2>2. change[op[h].tx][o].status \in RowStatus
      BY <2>1, RowFacts DEF RowStatus
    <2> QED
      BY <1>0, <2>2 DEF Used, With
  <1>7. /\ change' \in [Txs -> [Ords -> Rows]] /\ change'[op[h].tx][o] = q
        /\ \A t \in Txs, u \in Ords : t # op[h].tx \/ u # o => change'[t][u] = change[t][u]
    BY <1>2, <1>4, <1>5 DEF IInv, Types
  <1>8. /\ op' \in [Ops -> OpRow] /\ \A k \in Ops \ {h} : op'[k] = op[k]
        /\ op'[h].kind = op[h].kind /\ op'[h].tx = op[h].tx /\ op'[h].at = o
        /\ op'[h].phase = "planned" /\ op'[h].aborted = op[h].aborted /\ op'[h].lost = op[h].lost
    <2>1. o \in 0 .. NOrds
      BY JournalAssumption DEF Ords
    <2> QED
      BY <1>0, <1>2, <2>1 DEF IInv, Types, OpRow
  <1>9. Types'
    BY <1>1, <1>7, <1>8 DEF IInv, Types
  <1>10. Sound'
    BY <1>1, <1>2, <1>4, <1>7 DEF IInv, Sound, Fits, Undoing
  <1>11. \A d \in Cells : mine[d] # <<op[h].tx, o>>
    BY <1>2, <1>6 DEF IInv, Stands
  <1>12. Stands'
    BY <1>1, <1>7, <1>11 DEF IInv, Stands
  <1>13. Holds'
    <2> SUFFICES ASSUME NEW k \in Ops
                 PROVE  OpGood(op'[k], tx, change', mine)
      BY <1>1 DEF Holds
    <2>1. CASE k = h
      <3>1. ~op[h].lost
        BY <1>1, <1>2 DEF OpGood
      <3> QED
        BY <1>1, <1>2, <1>4, <1>7, <1>8, <1>11, <2>1, <3>1
           DEF OpGood, Editing, Edits, Undoes, MayLand, Awaited
    <2>2. CASE k # h
      <3>1. op[k] \in OpRow /\ OpGood(op[k], tx, change, mine) /\ op'[k] = op[k]
        BY <1>8, <2>2 DEF IInv, Types, Holds
      <3>2. op[k].phase # "idle" => change'[op[k].tx][op[k].at] = change[op[k].tx][op[k].at]
        BY <1>6, <1>7, <3>1 DEF OpGood, OpRow
      <3>3. op[k].phase = "idle" => ~Undoes(op[k]) /\ ~Editing(op[k]) /\ ~MayLand(op[k])
        BY <3>1 DEF OpGood, Editing, MayLand
      <3> QED
        BY <3>1, <3>2, <3>3 DEF OpGood, Editing
    <2> QED
      BY <2>1, <2>2
  <1>14. Turns'
    <2>1. \A k \in Ops : Active(op'[k]) => Active(op[k])
      BY <1>8 DEF Active
    <2>2. ASSUME NEW k \in Ops, k # h, Editing(op[k])
          PROVE  ~SameRow(op'[h], op[k])
      BY <1>6, <1>8, <2>2, RowHeld DEF Editing, SameRow
    <2>3. ASSUME NEW j \in Ops, NEW k \in Ops, Editing(op'[j]), Editing(op'[k]),
                 SameRow(op'[j], op'[k])
          PROVE  j = k
      BY <1>8, <2>2, <2>3 DEF IInv, Turns, SameRow
    <2> QED
      BY <1>1, <2>1, <2>3 DEF IInv, Turns
  <1>15. Attempts'
    <2>1. Active(op[h])
      BY <1>1 DEF Active, Edits
    <2>2. \A k \in Ops : Active(op'[k]) => k = h
      BY <1>8, <2>1 DEF Active, IInv, Turns
    <2>3. ASSUME NEW u \in Txs, Waits(u)'
          PROVE  Waits(u) \/ (u = op[h].tx /\ tx[u].plan # 0)
      BY <1>1, <1>7, <2>3 DEF Waits
    <2>4. \A u \in Txs : Waits(u) /\ tx[op[h].tx].plan # 0 => u = op[h].tx
      BY <1>1, <2>1 DEF IInv, Attempts
    <2>5. \A t, u \in Txs : Waits(t)' /\ Waits(u)' => t = u
      BY <2>3, <2>4 DEF IInv, Attempts
    <2>6. \A u \in Txs : tx'[op'[h].tx].plan # 0 /\ Waits(u)' => u = op'[h].tx
      BY <1>1, <1>8, <2>3, <2>4
    <2> QED
      BY <1>1, <2>2, <2>5, <2>6 DEF IInv, Attempts
  <1>16. BudgetKept'
    <2> DEFINE S == {r \in Limited : change[r[1]][r[2]].status \in {"planned", "applied"}}
               Z == {r \in Limited' : change'[r[1]][r[2]].status \in {"planned", "applied"}}
    <2>1. IsFiniteSet(S) /\ Cardinality(S) \in Nat /\ Cardinality(S) <= MaxChanges
      BY Finite, FS_Subset, FS_CardinalityType DEF Limited, IInv, BudgetKept
    <2>2. CASE tx[op[h].tx].plan \notin Scope
      <3>1. Z \subseteq S
        BY <1>1, <1>7, <2>2 DEF Limited
      <3> HIDE DEF S, Z
      <3>2. Cardinality(Z) <= Cardinality(S) /\ Cardinality(Z) \in Nat
        BY <2>1, <3>1, FS_Subset, FS_CardinalityType
      <3>3. Cardinality(Z) <= MaxChanges
        BY <2>1, <3>2, JournalAssumption
      <3> QED
        BY <3>3 DEF Z, BudgetKept
    <2>3. CASE tx[op[h].tx].plan \in Scope
      <3>1. Z \subseteq S \cup {<<op[h].tx, o>>}
        BY <1>1, <1>7 DEF Limited
      <3>2. S \subseteq Reserved /\ IsFiniteSet(Reserved)
        BY Finite, FS_Subset DEF Reserved, Reserves, Limited
      <3> HIDE DEF S, Z
      <3>3. Cardinality(S) <= Cardinality(Reserved) /\ Cardinality(Reserved) \in Nat
        BY <3>2, FS_Subset, FS_CardinalityType
      <3>4. Cardinality(Reserved) < MaxChanges
        BY <1>1, <2>3 DEF BudgetLeft
      <3>5. /\ IsFiniteSet(S \cup {<<op[h].tx, o>>})
            /\ Cardinality(S \cup {<<op[h].tx, o>>}) <= Cardinality(S) + 1
            /\ Cardinality(S \cup {<<op[h].tx, o>>}) \in Nat
        BY <2>1, OneMore
      <3>6. Cardinality(Z) <= Cardinality(S \cup {<<op[h].tx, o>>}) /\ Cardinality(Z) \in Nat
        BY <3>1, <3>5, FS_Subset, FS_CardinalityType
      <3>7. Cardinality(Z) <= MaxChanges
        BY <2>1, <3>3, <3>4, <3>5, <3>6, JournalAssumption
      <3> QED
        BY <3>7 DEF Z, BudgetKept
    <2> QED
      BY <2>2, <2>3
  <1>17. Restores
    BY <1>4, <1>7, NoneReverts
  <1> QED
    BY <1>9, <1>10, <1>12, <1>13, <1>14, <1>15, <1>16, <1>17 DEF IInv

(* A click on its way, of an edit or an undo.                              *)
LEMMA ClickKeeps ==
  ASSUME IInv, NEW h \in Ops, op[h].phase = "planned", ~op[h].aborted,
         op' = [op EXCEPT ![h].phase = "clicked"],
         UNCHANGED <<world, mine, tx, change, up, edits, faults>>
  PROVE  IInv'
  <1>1. op[h] \in OpRow /\ OpGood(op[h], tx, change, mine)
    BY DEF IInv, Types, Holds
  <1>2. /\ op' \in [Ops -> OpRow] /\ \A k \in Ops \ {h} : op'[k] = op[k]
        /\ op'[h].kind = op[h].kind /\ op'[h].tx = op[h].tx /\ op'[h].at = op[h].at
        /\ op'[h].phase = "clicked" /\ op'[h].aborted = op[h].aborted
        /\ op'[h].lost = op[h].lost /\ op'[h].seen = op[h].seen
    BY <1>1 DEF IInv, Types, OpRow
  <1>3. Types' /\ Sound'
    BY <1>2 DEF IInv, Types, Sound
  <1>4. Holds'
    <2>1. OpGood(op'[h], tx, change, mine)
      BY <1>1, <1>2 DEF OpGood, Editing, Edits, Undoes, MayLand
    <2> QED
      BY <1>2, <2>1 DEF IInv, Holds
  <1>5. \A k \in Ops : Less(op[k], op'[k])
    BY <1>2 DEF Less, Active, Editing, Edits, SameRow
  <1> QED
    BY <1>3, <1>4, <1>5, SameRows, Kept

LEMMA EditClickKeeps ==
  ASSUME IInv, NEW h \in Ops, EditClick(h)
  PROVE  IInv' /\ Restores
  <1>1. Edits(op[h]) /\ op[h].phase = "planned" /\ UNCHANGED <<world, mine, tx, up, edits, faults>>
    BY DEF EditClick, Doing, Edits
  <1>2. CASE /\ ~op[h].aborted /\ op' = [op EXCEPT ![h].phase = "clicked"] /\ UNCHANGED change
    BY <1>1, <1>2, ClickKeeps, NoneReverts
  <1>3. CASE Withheld(h)
    <2> DEFINE q == Resolved(RowOf(h), "failed", NoBlock)
    <2>1. Editing(op[h]) /\ \A c \in Cells : mine[c] # <<op[h].tx, op[h].at>>
      BY <1>1 DEF Editing, IInv, Holds, OpGood
    <2>2. Judges(RowOf(h), q)
      BY <1>1, RowHeld, ResolvedJudges
    <2>3. /\ change' = [change EXCEPT ![op[h].tx][op[h].at] = q]
          /\ op' = Idle(h)
      BY <1>3 DEF Withheld
    <2> HIDE DEF q
    <2> QED
      BY <1>1, <2>1, <2>2, <2>3, JudgeKeeps
  <1> QED
    BY <1>2, <1>3 DEF EditClick, MayClick

LEMMA EditSettleKeeps ==
  ASSUME IInv, NEW h \in Ops, EditSettle(h)
  PROVE  IInv' /\ Restores
  <1>1. /\ Editing(op[h]) /\ op[h].phase # "idle"
        /\ op' = Idle(h)
        /\ UNCHANGED <<world, mine, tx, up, edits, faults>>
    BY DEF EditSettle, Doing, Editing, Edits
  <1> PICK live \in Sees(h, RowOf(h).cell) :
        change' = [change EXCEPT ![op[h].tx][op[h].at] = Verdict(RowOf(h), live)]
    BY DEF EditSettle
  <1> DEFINE q == Verdict(RowOf(h), live)
  <1>2. Judges(RowOf(h), q) /\ (q.status = "failed" => q = RowOf(h) \/ live = RowOf(h).before)
    BY <1>1, RowHeld, SeesBlocks, VerdictJudges
  <1>3. change' = [change EXCEPT ![op[h].tx][op[h].at] = q]
    OBVIOUS
  <1> HIDE DEF q
  <1>4. q.status = "failed" => \/ q = RowOf(h) \/ RowOf(h).cut
                               \/ \A c \in Cells : mine[c] # <<op[h].tx, op[h].at>>
    BY <1>1, <1>2, SeesTruth
  <1> QED
    BY <1>1, <1>2, <1>3, <1>4, JudgeKeeps

(* The end of an operation, which closes its transaction or leaves it.     *)
Closes(t) ==
  /\ tx'[t].plan = tx[t].plan /\ tx'[t].status # "none"
  /\ tx[t].status \in Undoing \cup {"undone"} => tx'[t].status \in Undoing \cup {"undone"}
  /\ \A o \in Ords : Fits(tx'[t].status, change[t][o].status)

LEMMA EndKeeps ==
  ASSUME IInv, NEW h \in Ops, op' = [op EXCEPT ![h] = NoOp],
         UNCHANGED <<world, mine, change, up, edits, faults>>,
         tx' \in [Txs -> TxRow], \A t \in Txs : tx'[t] = tx[t] \/ Closes(t)
  PROVE  IInv'
  <1>1. op' \in [Ops -> OpRow] /\ op'[h] = NoOp /\ \A k \in Ops \ {h} : op'[k] = op[k]
    BY NothingTyped DEF IInv, Types
  <1>2. Types'
    BY <1>1 DEF IInv, Types
  <1>3. Sound'
    BY DEF IInv, Sound, Closes
  <1>4. RowsMove /\ DeniedRightly
    BY SameRows
  <1>5. \A t \in Txs : /\ tx'[t].plan = tx[t].plan
                       /\ tx'[t].status = "none" => tx[t].status = "none"
                       /\ tx[t].status # "none" => tx'[t].status # "none"
                       /\ tx[t].status \in Undoing \cup {"undone"}
                            => tx'[t].status \in Undoing \cup {"undone"}
    BY DEF Closes
  <1>6. Holds'
    <2> SUFFICES ASSUME NEW k \in Ops
                 PROVE  OpGood(op'[k], tx', change', mine')
      BY DEF Holds
    <2>1. CASE k = h
      BY <1>1, <2>1, NothingHeld
    <2>2. CASE k # h
      <3>1. op[k] \in OpRow /\ OpGood(op[k], tx, change, mine) /\ op'[k] = op[k]
        BY <1>1, <2>2 DEF IInv, Types, Holds
      <3>2. OpGood(op[k], tx', change', mine')
        BY <1>4, <1>5, <3>1, OthersHold
      <3> QED
        BY <3>1, <3>2
    <2> QED
      BY <2>1, <2>2
  <1>7. \A k \in Ops : Less(op[k], op'[k])
    BY <1>1, NothingHeld DEF Less, SameRow
  <1> QED
    BY <1>2, <1>3, <1>4, <1>5, <1>6, <1>7, Kept

LEMMA EditEndKeeps ==
  ASSUME IInv, NEW h \in Ops, EditEnd(h)
  PROVE  IInv'
  <1>1. op' = [op EXCEPT ![h] = NoOp] /\ UNCHANGED <<world, mine, change, up, edits, faults>>
    BY DEF EditEnd
  <1>2. op[h].tx \in Txs
    BY DEF IInv, Types, OpRow
  <1> PICK status \in {Completed(change, op[h].tx), Cancelled(change, op[h].tx)} :
        tx' = IF tx[op[h].tx].status = "open" THEN [tx EXCEPT ![op[h].tx].status = status] ELSE tx
    BY DEF EditEnd
  <1>3. ASSUME tx[op[h].tx].status = "open"
        PROVE  tx' \in [Txs -> TxRow] /\ \A t \in Txs : tx'[t] = tx[t] \/ Closes(t)
    <2>1. Resolvable(change, op[h].tx) /\ change \in [Txs -> [Ords -> Rows]]
      BY <1>2, <1>3 DEF Resolvable, IInv, Sound, Types
    <2>2. /\ status \in TxStatus \ {"none"}
          /\ \A o \in Ords : Fits(status, change[op[h].tx][o].status)
      BY <1>2, <2>1, CompletedFits, CancelledFits DEF TxStatus
    <2>3. /\ tx' \in [Txs -> TxRow] /\ \A t \in Txs : t # op[h].tx => tx'[t] = tx[t]
          /\ tx'[op[h].tx].status = status /\ tx'[op[h].tx].plan = tx[op[h].tx].plan
      BY <1>2, <1>3, <2>2 DEF IInv, Types, TxRow
    <2>4. Closes(op[h].tx)
      BY <1>3, <2>2, <2>3 DEF Closes, Undoing
    <2> QED
      BY <2>3, <2>4
  <1>4. CASE tx[op[h].tx].status # "open"
    <2>1. tx' = tx
      BY <1>4
    <2> QED
      BY <1>1, <2>1, EndKeeps DEF IInv, Types
  <1> QED
    BY <1>1, <1>3, <1>4, EndKeeps

-----------------------------------------------------------------------------
(***************************************************************************)
(* 7. The server, and other players.                                       *)
(***************************************************************************)
LEMMA ClickLandsKeeps ==
  ASSUME IInv, NEW h \in Ops, ClickLands(h)
  PROVE  IInv'
  <1> DEFINE row == RowOf(h)  undo == Doing(h, "undo")
  <1>1. op[h].phase = "clicked" /\ UNCHANGED <<tx, change, op, up, edits, faults>>
    BY DEF ClickLands
  <1>2. /\ op[h] \in OpRow /\ op[h].tx \in Txs /\ op[h].at \in Ords
        /\ row \in Rows /\ row.status # "none" /\ row.cell \in Cells /\ row.before \in Blocks
        /\ row = change[op[h].tx][op[h].at] /\ OpGood(op[h], tx, change, mine)
    BY <1>1, RowHeld DEF IInv, Holds
  <1>3. undo \/ Editing(op[h])
    BY <1>1, <1>2 DEF OpRow, OpGood, Doing, Editing, Edits
  <1>4. Editing(op[h]) => row.cut \/ (row.status = "planned" /\ tx[op[h].tx].status = "open")
    BY <1>1, <1>2 DEF Editing, OpGood, MayLand, Awaited, IInv, Sound, Fits
  <1>5. PICK b \in Outcome(row, undo) : world' = [world EXCEPT ![row.cell] = b]
    BY DEF ClickLands
  <1>6. mine' = [mine EXCEPT ![row.cell] = IF undo THEN <<0, 0>> ELSE <<op[h].tx, op[h].at>>]
    BY DEF ClickLands
  <1>7. b \in Blocks /\ (~undo => b # row.before)
    <2>1. (row.intended = Air) <=> (row.before # Air)
      BY <1>2, RowFacts
    <2> QED
      BY <1>2, <1>5, <2>1, BlockFacts DEF Outcome, Dig
  <1> HIDE DEF row, undo
  <1>8. \A c \in Cells : c # row.cell => mine'[c] = mine[c] /\ world'[c] = world[c]
    BY <1>5, <1>6 DEF IInv, Types, Worlds
  <1>9. world'[row.cell] = b /\ world' \in Worlds
    BY <1>2, <1>5, <1>7 DEF IInv, Types, Worlds
  <1>10. mine'[row.cell] = IF undo THEN <<0, 0>> ELSE <<op[h].tx, op[h].at>>
    BY <1>2, <1>6 DEF IInv, Types
  <1>11. Types'
    <2>1. mine' \in [Cells -> {<<0, 0>>} \cup (Txs \X Ords)]
      BY <1>2, <1>6 DEF IInv, Types
    <2> QED
      BY <1>1, <1>9, <2>1 DEF IInv, Types
  (* Only this change begins to stand, and only by an edit's click.        *)
  <1>12. ASSUME NEW c \in Cells, NEW t \in Txs, NEW o \in Ords, mine'[c] = <<t, o>>
         PROVE  \/ mine[c] = <<t, o>> /\ c # row.cell
                \/ c = row.cell /\ ~undo /\ t = op[h].tx /\ o = op[h].at
    <2>1. <<t, o>> # <<0, 0>>
      BY DEF Txs
    <2> QED
      BY <1>8, <1>10, <1>12, <2>1
  <1>13. Stands'
    <2> SUFFICES ASSUME NEW c \in Cells, NEW t \in Txs, NEW o \in Ords, mine'[c] = <<t, o>>
                 PROVE  /\ change[t][o].cell = c /\ world'[c] # change[t][o].before
                        /\ change[t][o].status # "none"
                        /\ change[t][o].cut \/ change[t][o].status \notin {"failed", "reverted"}
      BY <1>1 DEF Stands
    <2>1. CASE mine[c] = <<t, o>> /\ c # row.cell
      BY <1>8, <2>1 DEF IInv, Stands
    <2>2. CASE c = row.cell /\ ~undo /\ t = op[h].tx /\ o = op[h].at
      BY <1>2, <1>3, <1>4, <1>7, <1>9, <2>2
    <2> QED
      BY <1>12, <2>1, <2>2
  <1>14. Holds'
    <2> SUFFICES ASSUME NEW k \in Ops
                 PROVE  OpGood(op[k], tx, change, mine')
      BY <1>1 DEF Holds
    <2>1. op[k] \in OpRow /\ op[k].tx \in Txs /\ OpGood(op[k], tx, change, mine)
      BY DEF IInv, Types, Holds, OpRow
    <2>2. op[k].phase # "idle" => op[k].at \in Ords
      BY <2>1 DEF OpGood
    <2>3. ASSUME Edits(op[k]), op[k].phase = "planned", NEW c \in Cells
          PROVE  mine'[c] # <<op[k].tx, op[k].at>>
      <3> SUFFICES ASSUME mine'[c] = <<op[k].tx, op[k].at>>
                   PROVE  FALSE
        OBVIOUS
      <3>1. op[k].tx \in Txs /\ op[k].at \in Ords /\ Editing(op[k])
        BY <2>1, <2>2, <2>3 DEF Editing
      <3>2. mine[c] # <<op[k].tx, op[k].at>>
        BY <2>1, <2>3 DEF OpGood
      <3>3. ~undo /\ op[k].tx = op[h].tx /\ op[k].at = op[h].at
        BY <1>12, <3>1, <3>2
      <3>4. k = h
        BY <1>3, <3>1, <3>3 DEF IInv, Turns, SameRow
      <3> QED
        BY <1>1, <2>3, <3>4
    <2>4. ASSUME Undoes(op[k]), op[k].lost, ~change[op[k].tx][op[k].at].cut,
                 NEW c \in Cells, mine'[c] = <<op[k].tx, op[k].at>>
          PROVE  op[k].seen[c] # change[op[k].tx][op[k].at].before
      <3>1. op[k].at \in Ords
        BY <2>1, <2>2, <2>4 DEF OpGood
      <3>2. \/ mine[c] = <<op[k].tx, op[k].at>>
            \/ ~undo /\ op[k].tx = op[h].tx /\ op[k].at = op[h].at
        BY <1>12, <2>1, <2>4, <3>1
      <3>3. tx[op[k].tx].status \in Undoing \cup {"undone"}
        BY <2>1, <2>4 DEF OpGood
      <3>4. mine[c] = <<op[k].tx, op[k].at>>
        BY <1>2, <1>3, <1>4, <2>4, <3>2, <3>3 DEF Undoing
      <3> QED
        BY <2>1, <2>4, <3>4 DEF OpGood
    <2> QED
      BY <2>1, <2>3, <2>4 DEF OpGood
  <1>15. Sound' /\ Turns' /\ Attempts' /\ BudgetKept'
    BY <1>1 DEF IInv, Sound, Turns, Attempts, Waits, BudgetKept, Limited
  <1> QED
    BY <1>11, <1>13, <1>14, <1>15 DEF IInv

LEMMA OtherEditKeeps ==
  ASSUME IInv, NEW c \in Cells, OtherEdit(c)
  PROVE  IInv'
  <1>1. UNCHANGED <<tx, change, op, up, faults>> /\ edits < MaxEdits /\ edits' = edits + 1
    BY DEF OtherEdit
  <1>2. PICK b \in Blocks : world' = [world EXCEPT ![c] = b]
    BY DEF OtherEdit
  <1>3. mine' = [mine EXCEPT ![c] = <<0, 0>>]
    BY DEF OtherEdit
  <1>4. \A d \in Cells, t \in Txs, o \in Ords :
          mine'[d] = <<t, o>> => mine[d] = <<t, o>> /\ world'[d] = world[d]
    <2>1. \A t \in Txs, o \in Ords : <<t, o>> # <<0, 0>>
      BY DEF Txs
    <2>2. mine'[c] = <<0, 0>> /\ \A d \in Cells : d # c => mine'[d] = mine[d] /\ world'[d] = world[d]
      BY <1>2, <1>3 DEF IInv, Types, Worlds
    <2> QED
      BY <2>1, <2>2
  <1>5. Types'
    <2>1. world' \in Worlds /\ mine' \in [Cells -> {<<0, 0>>} \cup (Txs \X Ords)]
      BY <1>2, <1>3 DEF IInv, Types, Worlds
    <2>2. edits' \in 0 .. MaxEdits
      BY <1>1, JournalAssumption DEF IInv, Types
    <2> QED
      BY <1>1, <2>1, <2>2 DEF IInv, Types
  <1>6. Stands'
    BY <1>1, <1>4 DEF IInv, Stands
  <1>7. Holds'
    <2> SUFFICES ASSUME NEW k \in Ops
                 PROVE  OpGood(op[k], tx, change, mine')
      BY <1>1 DEF Holds
    <2>1. op[k] \in OpRow /\ op[k].tx \in Txs /\ OpGood(op[k], tx, change, mine)
      BY DEF IInv, Types, Holds, OpRow
    <2>2. op[k].phase # "idle" => op[k].at \in Ords
      BY <2>1 DEF OpGood
    <2>3. op[k].phase # "idle" =>
            \A d \in Cells : mine'[d] = <<op[k].tx, op[k].at>> => mine[d] = <<op[k].tx, op[k].at>>
      BY <1>4, <2>1, <2>2
    <2>4. Undoes(op[k]) => op[k].phase # "idle"
      BY <2>1 DEF OpGood
    <2> QED
      BY <2>1, <2>3, <2>4 DEF OpGood
  <1>8. Sound' /\ Turns' /\ Attempts' /\ BudgetKept'
    BY <1>1 DEF IInv, Sound, Turns, Attempts, Waits, BudgetKept, Limited
  <1> QED
    BY <1>5, <1>6, <1>7, <1>8 DEF IInv

-----------------------------------------------------------------------------
(***************************************************************************)
(* 8. Undos.                                                               *)
(***************************************************************************)
LEMMA Sequel ==
  ASSUME NEW r, NEW s, NEW q, RowMove(r, s), RowMove(s, q)
  PROVE  RowMove(r, q)
  BY DEF RowMove

(* What the loop of an undo does to the tables, whoever starts it.         *)
Passed(h, o, ops) ==
  /\ change' \in [Txs -> [Ords -> Rows]] /\ tx' \in [Txs -> TxRow]
  /\ RowsMove /\ DeniedRightly /\ Restores /\ Sound'
  /\ \A t \in Txs : /\ tx'[t].plan = tx[t].plan
                    /\ tx'[t].status # "none" <=> tx[t].status # "none"
                    /\ tx[t].status \in Undoing \cup {"undone"}
                         => tx'[t].status \in Undoing \cup {"undone"}
                    /\ \A q \in Ords : change[t][q].status = "planned"
                                         => change'[t][q].status = "planned"
  /\ \E q \in OpRow : /\ op' = [ops EXCEPT ![h] = q]
                      /\ OpGood(q, tx', change', mine) /\ ~Edits(q)
                      /\ Active(q) => q.kind = o.kind /\ q.tx = o.tx /\ ~o.aborted

LEMMA PassMoves ==
  ASSUME IInv, NEW h \in Ops, NEW o \in OpRow, Undoes(o), NEW ops \in [Ops -> OpRow], NEW status,
         NEW ch \in [Txs -> [Ords -> Rows]],
         UndoLoop(h, o, ops, status, ch),
         status \in Undoing \cup {"undone"}, status = "undone" => tx[o.tx].status = "undone",
         tx[o.tx].status \notin {"none", "open"}, o.lost => o.aborted,
         \A t \in Txs \ {o.tx} : ch[t] = change[t],
         \A q \in Ords : /\ Undoer(change[o.tx][q], ch[o.tx][q])
                         /\ ch[o.tx][q].status = "reverted" =>
                              \/ change[o.tx][q].status = "reverted" \/ change[o.tx][q].cut
                              \/ \A c \in Cells : mine[c] # <<o.tx, q>>
                         /\ ch[o.tx][q].status = "reverted" =>
                              \/ change[o.tx][q].status = "reverted" \/ \E k \in Ops : op[k].lost
                              \/ world[change[o.tx][q].cell] = change[o.tx][q].before
  PROVE  Passed(h, o, ops)
  <1>1. /\ o.tx \in Txs /\ o.kind = "undo" /\ Types /\ Sound
        /\ \A t \in Txs, q \in Ords : change[t][q] \in Rows
    BY DEF OpRow, Undoes, IInv, Types
  <1>2. \A q \in Ords : /\ change[o.tx][q].status # "planned" /\ ch[o.tx][q].status # "planned"
                        /\ RowMove(change[o.tx][q], ch[o.tx][q])
    BY <1>1 DEF Sound, Fits, Undoer, RowMove
  <1>3. \A q \in Ords : Fits("undoing", ch[o.tx][q].status)
    BY <1>2 DEF Fits, Undoing
  <1>4. tx[o.tx].status = "undone" =>
          \A q \in Ords : ch[o.tx][q].status \notin {"applied", "reverting"}
    BY <1>1 DEF Sound, Fits, Undoing, Undoer
  <1>5. /\ change' \in [Txs -> [Ords -> Rows]] /\ tx' \in [Txs -> TxRow]
        /\ \A t \in Txs \ {o.tx} : change'[t] = ch[t] /\ tx'[t] = tx[t]
        /\ tx'[o.tx].plan = tx[o.tx].plan /\ tx'[o.tx].status \in Undoing \cup {"undone"}
        /\ \A q \in Ords :
             /\ Undoer(ch[o.tx][q], change'[o.tx][q])
             /\ Fits(tx'[o.tx].status, change'[o.tx][q].status)
             /\ change'[o.tx][q].status = "reverted" =>
                  \/ ch[o.tx][q].status = "reverted"
                  \/ ~o.lost /\ world[ch[o.tx][q].cell] = ch[o.tx][q].before
        /\ \/ op' = [ops EXCEPT ![h] = NoOp]
           \/ \E at \in Ords, td \in SUBSET Ords :
                /\ op' = [ops EXCEPT ![h] = [o EXCEPT !.at = at, !.phase = "planned", !.todo = td]]
                /\ ~o.aborted /\ change'[o.tx][at].status = "reverting"
    <2>1. Looped(h, o, ops, ch)
      BY <1>1, <1>3, <1>4, LoopMoves
    <2> QED
      BY <2>1 DEF Looped
  <1>6. \A q \in Ords : RowMove(change[o.tx][q], change'[o.tx][q])
    BY <1>2, <1>5, Sequel DEF Undoer
  <1>7. RowsMove
    <2> SUFFICES ASSUME NEW t \in Txs, NEW q \in Ords
                 PROVE  RowMove(change[t][q], change'[t][q])
      BY DEF RowsMove
    <2>1. CASE t = o.tx
      BY <1>6, <2>1
    <2>2. CASE t # o.tx
      <3>1. change'[t] = change[t]
        BY <1>5, <2>2
      <3> QED
        BY <1>1, <3>1, RowStays
    <2> QED
      BY <2>1, <2>2
  <1>8. DeniedRightly
    <2> SUFFICES ASSUME NEW t \in Txs, NEW q \in Ords,
                        change'[t][q].status \in {"failed", "reverted"}
                 PROVE  \/ change'[t][q].status = change[t][q].status \/ change[t][q].cut
                        \/ \A c \in Cells : mine[c] # <<t, q>>
      BY DEF DeniedRightly
    <2>1. CASE t # o.tx
      <3>1. change'[t] = change[t]
        BY <1>5, <2>1
      <3> QED
        BY <3>1
    <2>2. CASE t = o.tx /\ change'[t][q].status = "failed"
      <3>1. Undoer(ch[t][q], change'[t][q]) /\ Undoer(change[t][q], ch[t][q])
        BY <1>5, <2>2
      <3> QED
        BY <2>2, <3>1 DEF Undoer
    <2>3. CASE t = o.tx /\ change'[t][q].status = "reverted"
      <3>1. ch[t][q].cell = change[t][q].cell /\ ch[t][q].before = change[t][q].before
        BY <1>2, <2>3 DEF RowMove
      <3>2. CASE ch[t][q].status = "reverted"
        BY <2>3, <3>2
      <3>3. CASE world[ch[t][q].cell] = ch[t][q].before
        BY <3>1, <3>3, NotStanding
      <3> QED
        BY <1>5, <2>3, <3>2, <3>3
    <2> QED
      BY <2>1, <2>2, <2>3
  <1>9. Sound'
    <2> SUFFICES ASSUME NEW t \in Txs, NEW q \in Ords
                 PROVE  Fits(tx'[t].status, change'[t][q].status)
      BY DEF Sound
    <2>1. CASE t = o.tx
      BY <1>5, <2>1
    <2>2. CASE t # o.tx
      <3>1. change'[t] = change[t] /\ tx'[t] = tx[t]
        BY <1>5, <2>2
      <3> QED
        BY <1>1, <3>1 DEF Sound
    <2> QED
      BY <2>1, <2>2
  <1>10. \A t \in Txs : /\ tx'[t].plan = tx[t].plan
                        /\ tx'[t].status # "none" <=> tx[t].status # "none"
                        /\ tx[t].status \in Undoing \cup {"undone"}
                             => tx'[t].status \in Undoing \cup {"undone"}
                        /\ \A q \in Ords : change[t][q].status = "planned"
                                             => change'[t][q].status = "planned"
    <2> SUFFICES ASSUME NEW t \in Txs
                 PROVE  /\ tx'[t].plan = tx[t].plan
                        /\ tx'[t].status # "none" <=> tx[t].status # "none"
                        /\ tx[t].status \in Undoing \cup {"undone"}
                             => tx'[t].status \in Undoing \cup {"undone"}
                        /\ \A q \in Ords : change[t][q].status = "planned"
                                             => change'[t][q].status = "planned"
      OBVIOUS
    <2>1. CASE t = o.tx
      BY <1>2, <1>5, <2>1 DEF Undoing
    <2>2. CASE t # o.tx
      <3>1. change'[t] = change[t] /\ tx'[t] = tx[t]
        BY <1>5, <2>2
      <3> QED
        BY <3>1
    <2> QED
      BY <2>1, <2>2
  <1>11. \E q \in OpRow : /\ op' = [ops EXCEPT ![h] = q]
                          /\ OpGood(q, tx', change', mine) /\ ~Edits(q)
                          /\ Active(q) => q.kind = o.kind /\ q.tx = o.tx /\ ~o.aborted
    <2>1. CASE op' = [ops EXCEPT ![h] = NoOp]
      <3>1. ~Edits(NoOp)
        BY DEF NoOp, Edits
      <3> QED
        BY <2>1, <3>1, NothingHeld, NothingTyped
    <2>2. CASE \E at \in Ords, td \in SUBSET Ords :
            /\ op' = [ops EXCEPT ![h] = [o EXCEPT !.at = at, !.phase = "planned", !.todo = td]]
            /\ ~o.aborted /\ change'[o.tx][at].status = "reverting"
      <3> PICK at \in Ords, td \in SUBSET Ords :
            /\ op' = [ops EXCEPT ![h] = [o EXCEPT !.at = at, !.phase = "planned", !.todo = td]]
            /\ ~o.aborted /\ change'[o.tx][at].status = "reverting"
        BY <2>2
      <3> DEFINE q == [o EXCEPT !.at = at, !.phase = "planned", !.todo = td]
      <3>1. op' = [ops EXCEPT ![h] = q] /\ q = [o EXCEPT !.at = at, !.phase = "planned", !.todo = td]
        OBVIOUS
      <3> HIDE DEF q
      <3>2. ~o.aborted /\ change'[o.tx][at].status = "reverting"
        OBVIOUS
      <3>3. at \in 0 .. NOrds
        BY JournalAssumption DEF Ords
      <3>4. /\ q \in OpRow /\ q.kind = "undo" /\ q.tx = o.tx /\ q.at = at /\ q.phase = "planned"
            /\ q.aborted = o.aborted /\ q.lost = o.lost
        BY <1>1, <3>1, <3>3 DEF OpRow
      <3>5. tx'[o.tx].status # "none" /\ ~q.lost
        BY <1>5, <3>2, <3>4 DEF Undoing
      <3>6. /\ q \in OpRow /\ OpGood(q, tx', change', mine) /\ ~Edits(q)
            /\ Active(q) => q.kind = o.kind /\ q.tx = o.tx /\ ~o.aborted
        BY <1>1, <1>5, <3>2, <3>4, <3>5 DEF OpGood, Edits, Undoes, Editing, MayLand
      <3> QED
        BY <3>1, <3>6
    <2>3. \/ op' = [ops EXCEPT ![h] = NoOp]
          \/ \E at \in Ords, td \in SUBSET Ords :
               /\ op' = [ops EXCEPT ![h] = [o EXCEPT !.at = at, !.phase = "planned", !.todo = td]]
               /\ ~o.aborted /\ change'[o.tx][at].status = "reverting"
      BY <1>5, Zenon
    <2> QED
      BY <2>1, <2>2, <2>3, Zenon
  <1>12. Restores
    <2> SUFFICES ASSUME NEW t \in Txs, NEW q \in Ords, Reverts(t, q), \A k \in Ops : ~op[k].lost
                 PROVE  world[change[t][q].cell] = change[t][q].before
      BY DEF Restores
    <2>1. change'[t][q].status = "reverted" /\ change[t][q].status # "reverted"
      BY DEF Reverts
    <2>2. t = o.tx
      <3> SUFFICES ASSUME t # o.tx
                   PROVE  FALSE
        OBVIOUS
      <3>1. ch[t] = change[t]
        OBVIOUS
      <3>2. change'[t] = ch[t]
        BY <1>5
      <3> QED
        BY <2>1, <3>1, <3>2
    <2>3. ch[t][q].cell = change[t][q].cell /\ ch[t][q].before = change[t][q].before
      BY <1>2, <2>2 DEF RowMove
    <2> QED
      BY <1>5, <2>1, <2>2, <2>3
  <1> QED
    BY <1>5, <1>7, <1>8, <1>9, <1>10, <1>11, <1>12 DEF Passed

(* The undo of h has settled its change as row, and goes on.               *)
Resumes(h, status, row, ch) ==
  /\ status \in {tx[op[h].tx].status, "undo_partial"}
  /\ Undoer(RowOf(h), row)
  /\ row.status = "reverted" => \/ RowOf(h).status = "reverted" \/ RowOf(h).cut
                                \/ \A c \in Cells : mine[c] # <<op[h].tx, op[h].at>>
  /\ row.status = "reverted" => \/ RowOf(h).status = "reverted" \/ op[h].lost
                                \/ world[RowOf(h).cell] = RowOf(h).before
  /\ ch = [change EXCEPT ![op[h].tx][op[h].at] = row]
  /\ UndoLoop(h, op[h], op, status, ch)

LEMMA PassKeeps ==
  ASSUME IInv, NEW h \in Ops, Undoes(op[h]), op[h].phase # "idle", NEW status, NEW row, NEW ch,
         Resumes(h, status, row, ch), UNCHANGED <<world, mine, up, edits, faults>>
  PROVE  IInv' /\ Restores
  <1> DEFINE o == op[h]
  <1>1. /\ o \in OpRow /\ o.tx \in Txs /\ o.at \in Ords /\ RowOf(h) = change[o.tx][o.at]
        /\ OpGood(o, tx, change, mine) /\ Undoes(o) /\ op \in [Ops -> OpRow]
    BY RowHeld DEF IInv, Holds, Types
  <1>2. /\ ch \in [Txs -> [Ords -> Rows]] /\ \A t \in Txs \ {o.tx} : ch[t] = change[t]
        /\ ch[o.tx][o.at] = row /\ \A q \in Ords \ {o.at} : ch[o.tx][q] = change[o.tx][q]
    BY <1>1 DEF Resumes, IInv, Types, Undoer, RowMove
  <1>3. UndoLoop(h, o, op, status, ch)
    BY DEF Resumes
  <1>4. \A q \in Ords : /\ Undoer(change[o.tx][q], ch[o.tx][q])
                        /\ ch[o.tx][q].status = "reverted" =>
                             \/ change[o.tx][q].status = "reverted" \/ change[o.tx][q].cut
                             \/ \A c \in Cells : mine[c] # <<o.tx, q>>
                        /\ ch[o.tx][q].status = "reverted" =>
                             \/ change[o.tx][q].status = "reverted" \/ \E k \in Ops : op[k].lost
                             \/ world[change[o.tx][q].cell] = change[o.tx][q].before
    <2> SUFFICES ASSUME NEW q \in Ords
                 PROVE  /\ Undoer(change[o.tx][q], ch[o.tx][q])
                        /\ ch[o.tx][q].status = "reverted" =>
                             \/ change[o.tx][q].status = "reverted" \/ change[o.tx][q].cut
                             \/ \A c \in Cells : mine[c] # <<o.tx, q>>
                        /\ ch[o.tx][q].status = "reverted" =>
                             \/ change[o.tx][q].status = "reverted" \/ \E k \in Ops : op[k].lost
                             \/ world[change[o.tx][q].cell] = change[o.tx][q].before
      OBVIOUS
    <2>1. CASE q = o.at
      BY <1>1, <1>2, <2>1 DEF Resumes
    <2>2. CASE q # o.at
      <3>1. ch[o.tx][q] = change[o.tx][q] /\ change[o.tx][q] \in Rows
        BY <1>1, <1>2, <2>2 DEF IInv, Types
      <3> QED
        BY <3>1, RowStays
    <2> QED
      BY <2>1, <2>2
  <1>5. /\ tx[o.tx].status \in Undoing \cup {"undone"} /\ tx[o.tx].status \notin {"none", "open"}
        /\ status \in Undoing \cup {"undone"} /\ (status = "undone" => tx[o.tx].status = "undone")
        /\ (o.lost => o.aborted)
    BY <1>1 DEF Resumes, OpGood, Undoing
  <1> HIDE DEF o
  <1>6. /\ change' \in [Txs -> [Ords -> Rows]] /\ tx' \in [Txs -> TxRow]
        /\ RowsMove /\ DeniedRightly /\ Restores /\ Sound'
        /\ \A t \in Txs : /\ tx'[t].plan = tx[t].plan
                          /\ tx'[t].status # "none" <=> tx[t].status # "none"
                          /\ tx[t].status \in Undoing \cup {"undone"}
                               => tx'[t].status \in Undoing \cup {"undone"}
                          /\ \A q \in Ords : change[t][q].status = "planned"
                                               => change'[t][q].status = "planned"
        /\ \E q \in OpRow : /\ op' = [op EXCEPT ![h] = q]
                            /\ OpGood(q, tx', change', mine) /\ ~Edits(q)
                            /\ Active(q) => q.kind = o.kind /\ q.tx = o.tx /\ ~o.aborted
    <2>1. Passed(h, o, op)
      BY <1>1, <1>2, <1>3, <1>4, <1>5, PassMoves
    <2> QED
      BY <2>1 DEF Passed
  <1> PICK q \in OpRow : /\ op' = [op EXCEPT ![h] = q]
                         /\ OpGood(q, tx', change', mine) /\ ~Edits(q)
                         /\ Active(q) => q.kind = o.kind /\ q.tx = o.tx /\ ~o.aborted
    BY <1>6
  <1>7. op' \in [Ops -> OpRow] /\ op'[h] = q /\ \A k \in Ops \ {h} : op'[k] = op[k]
    BY DEF IInv, Types
  <1>8. Types'
    BY <1>6, <1>7 DEF IInv, Types
  <1>9. Holds'
    <2>1. \A k \in Ops \ {h} : OpGood(op[k], tx', change', mine')
      BY <1>6, OthersHold DEF IInv, Holds, Types
    <2> QED
      BY <1>7, <2>1 DEF Holds
  <1>10. \A k \in Ops : Less(op[k], op'[k])
    BY <1>1, <1>7 DEF o, Less, Active, Editing, Edits, Undoes, SameRow
  <1> QED
    BY <1>6, <1>8, <1>9, <1>10, Kept

LEMMA UndoClickKeeps ==
  ASSUME IInv, NEW h \in Ops, UndoClick(h)
  PROVE  IInv'
  BY ClickKeeps DEF UndoClick

LEMMA UndoSettleKeeps ==
  ASSUME IInv, NEW h \in Ops, UndoSettle(h)
  PROVE  IInv' /\ Restores
  <1> DEFINE Settles(row) == [change EXCEPT ![op[h].tx][op[h].at] = row]
  <1>1. Undoes(op[h]) /\ op[h].phase # "idle" /\ UNCHANGED <<world, mine, up, edits, faults>>
    BY DEF UndoSettle, Doing, Undoes
  <1>2. /\ op[h].tx \in Txs /\ op[h].at \in Ords /\ RowOf(h) \in Rows
        /\ OpGood(op[h], tx, change, mine) /\ ~Editing(op[h])
    BY <1>1, RowHeld DEF IInv, Holds, Undoes, Editing, Edits
  <1> PICK live \in Sees(h, RowOf(h).cell) :
        IF live = RowOf(h).before
        THEN UndoLoop(h, op[h], op, tx[op[h].tx].status, Settles(Reverted(RowOf(h))))
        ELSE \/ /\ tx' = [tx EXCEPT ![op[h].tx].status = Finalized(change, op[h].tx)]
                /\ op' = [op EXCEPT ![h] = NoOp]
                /\ UNCHANGED change
             \/ UndoLoop(h, op[h], op, "undo_partial", Settles(UndoConflict(RowOf(h))))
    BY DEF UndoSettle
  <1>3. CASE /\ live = RowOf(h).before
             /\ UndoLoop(h, op[h], op, tx[op[h].tx].status, Settles(Reverted(RowOf(h))))
    <2> DEFINE row == Reverted(RowOf(h))
               ch == Settles(row)
    <2>1. Undoer(RowOf(h), row)
      BY <1>2, RevertedUndoes
    <2>2. RowOf(h).cut \/ \A c \in Cells : mine[c] # <<op[h].tx, op[h].at>>
      BY <1>1, <1>2, <1>3, SeesTruth
    <2>4. op[h].lost \/ world[RowOf(h).cell] = RowOf(h).before
      BY <1>1, <1>3, SeesTruth DEF View
    <2>3. /\ ch = [change EXCEPT ![op[h].tx][op[h].at] = row]
          /\ UndoLoop(h, op[h], op, tx[op[h].tx].status, ch)
      BY <1>3
    <2> HIDE DEF row, ch
    <2> QED
      <3>1. Resumes(h, tx[op[h].tx].status, row, ch)
        BY <2>1, <2>2, <2>3, <2>4 DEF Resumes
      <3> QED
        BY <1>1, <3>1, PassKeeps
  <1>4. CASE /\ tx' = [tx EXCEPT ![op[h].tx].status = Finalized(change, op[h].tx)]
             /\ op' = [op EXCEPT ![h] = NoOp]
             /\ UNCHANGED change
    <2>1. /\ tx[op[h].tx].status \in Undoing \cup {"undone"}
          /\ \A o \in Ords : Fits(tx[op[h].tx].status, change[op[h].tx][o].status)
      BY <1>1, <1>2 DEF OpGood, IInv, Sound
    <2>2. /\ \A o \in Ords : change[op[h].tx][o].status # "planned"
          /\ tx[op[h].tx].status = "undone" =>
               \A o \in Ords : change[op[h].tx][o].status \notin {"applied", "reverting"}
      BY <2>1 DEF Fits, Undoing
    <2>3. /\ Finalized(change, op[h].tx) \in Undoing \cup {"undone"}
          /\ \A o \in Ords : Fits(Finalized(change, op[h].tx), change[op[h].tx][o].status)
      BY <1>2, <2>2, FinalizedFits DEF IInv, Types
    <2>4. /\ tx' \in [Txs -> TxRow] /\ \A t \in Txs : t # op[h].tx => tx'[t] = tx[t]
          /\ tx'[op[h].tx].status = Finalized(change, op[h].tx)
          /\ tx'[op[h].tx].plan = tx[op[h].tx].plan
      BY <1>2, <1>4, <2>3 DEF IInv, Types, TxRow, TxStatus, Undoing
    <2>5. Closes(op[h].tx)
      BY <2>3, <2>4 DEF Closes, Undoing
    <2> QED
      BY <1>1, <1>4, <2>4, <2>5, EndKeeps, NoneReverts
  <1>5. CASE UndoLoop(h, op[h], op, "undo_partial", Settles(UndoConflict(RowOf(h))))
    <2> DEFINE row == UndoConflict(RowOf(h))
               ch == Settles(row)
    <2>1. Undoer(RowOf(h), row) /\ (row.status = "reverted" => RowOf(h).status = "reverted")
      BY <1>2, RevertedUndoes
    <2>2. /\ ch = [change EXCEPT ![op[h].tx][op[h].at] = row]
          /\ UndoLoop(h, op[h], op, "undo_partial", ch)
      BY <1>5
    <2> HIDE DEF row, ch
    <2> QED
      <3>1. Resumes(h, "undo_partial", row, ch)
        BY <2>1, <2>2 DEF Resumes
      <3> QED
        BY <1>1, <3>1, PassKeeps
  <1> QED
    BY <1>3, <1>4, <1>5

LEMMA UndoStatusFits ==
  ASSUME IInv, NEW t \in Txs,
         tx[t].status \in {"completed", "partial", "undoing", "undo_partial", "undone"}
  PROVE  /\ UndoStatus(t) \in Undoing \cup {"undone"}
         /\ tx[t].status = "undone" => UndoStatus(t) = "undone"
         /\ UndoStatus(t) = "undone" => \A o \in Ords : Fits("undone", change[t][o].status)
  <1>1. \A o \in Ords : Fits(tx[t].status, change[t][o].status)
    BY DEF IInv, Sound
  <1>2. CASE tx[t].status \in {"undone", "undoing"}
    BY <1>1, <1>2 DEF UndoStatus, Undoing
  <1>3. CASE tx[t].status = "undo_partial"
    BY <1>3 DEF UndoStatus, Undoing
  <1>4. CASE tx[t].status \in {"completed", "partial"}
    <2>1. UndoStatus(t) = IF With(change, t, {"applied"}) = {} THEN "undone" ELSE "undoing"
      BY <1>4 DEF UndoStatus
    <2>2. UndoStatus(t) = "undone" => \A o \in Ords : change[t][o].status # "applied"
      BY <2>1 DEF With
    <2> QED
      BY <1>1, <1>4, <2>1, <2>2 DEF Fits, Undoing
  <1> QED
    BY <1>2, <1>3, <1>4

(* The undo o that h begins has its pass, or is over at once.              *)
LEMMA BegunUndoKeeps ==
  ASSUME IInv, NEW h \in Ops, UNCHANGED <<world, mine, up, edits, faults>>,
         change' \in [Txs -> [Ords -> Rows]], tx' \in [Txs -> TxRow],
         RowsMove, DeniedRightly, Sound',
         \A t \in Txs : /\ tx'[t].plan = tx[t].plan
                        /\ tx'[t].status # "none" <=> tx[t].status # "none"
                        /\ tx[t].status \in Undoing \cup {"undone"}
                             => tx'[t].status \in Undoing \cup {"undone"}
                        /\ \A q \in Ords : change[t][q].status = "planned"
                                             => change'[t][q].status = "planned",
         NEW q \in OpRow, op' = Started(h, q), OpGood(q, tx', change', mine), ~Edits(q)
  PROVE  IInv'
  <1>1. ~Editing(q)
    BY DEF Editing
  <1>2. /\ op' \in [Ops -> OpRow] /\ op'[h] = q /\ Turns'
        /\ \A k \in Ops \ {h} : op'[k] = AllAborted[k]
    BY <1>1, BegunTurns
  <1>3. Types'
    BY <1>2 DEF IInv, Types
  <1>4. Stands' /\ BudgetKept'
    BY StandsKept, BudgetStays
  <1>5. Holds'
    <2>1. \A k \in Ops : OpGood(AllAborted[k], tx', change', mine')
      BY AllAbortedLess, OthersHold
    <2> QED
      BY <1>2, <2>1 DEF Holds
  <1>6. Attempts'
    <2>1. \A t \in Txs : Waits(t)' => Waits(t)
      BY DEF Waits, RowsMove, RowMove
    <2>2. \A k \in Ops : ~(Active(op'[k]) /\ Edits(op'[k]))
      BY <1>2, AllAbortedLess
    <2> QED
      BY <2>1, <2>2 DEF IInv, Attempts
  <1> QED
    BY <1>2, <1>3, <1>4, <1>5, <1>6 DEF IInv

LEMMA BeginUndoKeeps ==
  ASSUME IInv, NEW h \in Ops, NEW t \in Txs, BeginUndo(h, t)
  PROVE  IInv' /\ Restores
  <1> DEFINE todo == With(change, t, {"applied", "reverting"})
             o == [NoOp EXCEPT !.kind = "undo", !.tx = t, !.todo = todo]
  <1>1. /\ UNCHANGED <<world, mine, up, edits, faults>>
        /\ tx[t].status \in {"completed", "partial", "undoing", "undo_partial", "undone"}
    BY DEF BeginUndo
  <1>2. /\ UndoStatus(t) \in Undoing \cup {"undone"}
        /\ tx[t].status = "undone" => UndoStatus(t) = "undone"
        /\ UndoStatus(t) = "undone" => \A q \in Ords : Fits("undone", change[t][q].status)
    BY <1>1, UndoStatusFits
  <1>3. CASE /\ UndoStatus(t) = "undone" /\ tx' = [tx EXCEPT ![t].status = "undone"]
             /\ op' = Started(h, NoOp) /\ UNCHANGED change
    <2>1. /\ tx' \in [Txs -> TxRow] /\ \A u \in Txs \ {t} : tx'[u] = tx[u]
          /\ tx'[t].status = "undone" /\ tx'[t].plan = tx[t].plan
      BY <1>3 DEF IInv, Types, TxRow, TxStatus
    <2>2. Sound'
      BY <1>2, <1>3, <2>1 DEF IInv, Sound
    <2>3. \A u \in Txs : /\ tx'[u].plan = tx[u].plan
                         /\ tx'[u].status # "none" <=> tx[u].status # "none"
                         /\ tx[u].status \in Undoing \cup {"undone"}
                              => tx'[u].status \in Undoing \cup {"undone"}
                         /\ \A q \in Ords : change[u][q].status = "planned"
                                              => change'[u][q].status = "planned"
      BY <1>1, <1>3, <2>1
    <2>4. RowsMove /\ DeniedRightly /\ change' \in [Txs -> [Ords -> Rows]]
      BY <1>3, SameRows DEF IInv, Types
    <2>5. ~Edits(NoOp) /\ Restores
      BY <1>3, NoneReverts DEF NoOp, Edits
    <2> QED
      BY <1>1, <1>3, <2>1, <2>2, <2>3, <2>4, <2>5, NothingHeld, NothingTyped, BegunUndoKeeps
  <1>4. CASE UndoStatus(t) # "undone" /\ UndoLoop(h, o, Started(h, NoOp), UndoStatus(t), change)
    <2>1. /\ o \in OpRow /\ Undoes(o) /\ o.tx = t /\ ~o.lost
      <3>1. todo \in SUBSET Ords
        BY DEF With
      <3> HIDE DEF todo
      <3> QED
        BY <3>1, NothingTyped DEF NoOp, OpRow, Undoes
    <2>2. /\ Started(h, NoOp) \in [Ops -> OpRow]
          /\ \A q : [Started(h, NoOp) EXCEPT ![h] = q] = Started(h, q)
      BY AllAbortedLess, NothingTyped DEF Started, AllAborted
    <2> HIDE DEF o
    <2>3. \A q \in Ords : Undoer(change[t][q], change[t][q])
      BY RowStays DEF IInv, Types
    <2>4. Passed(h, o, Started(h, NoOp))
      BY <1>1, <1>2, <1>4, <2>1, <2>2, <2>3, PassMoves DEF IInv, Types
    <2>5. PICK q \in OpRow : /\ op' = [Started(h, NoOp) EXCEPT ![h] = q]
                             /\ OpGood(q, tx', change', mine) /\ ~Edits(q)
      BY <2>4 DEF Passed
    <2>6. op' = Started(h, q)
      BY <2>2, <2>5
    <2>7. /\ change' \in [Txs -> [Ords -> Rows]] /\ tx' \in [Txs -> TxRow]
          /\ RowsMove /\ DeniedRightly /\ Restores /\ Sound'
          /\ \A u \in Txs : /\ tx'[u].plan = tx[u].plan
                            /\ tx'[u].status # "none" <=> tx[u].status # "none"
                            /\ tx[u].status \in Undoing \cup {"undone"}
                                 => tx'[u].status \in Undoing \cup {"undone"}
                            /\ \A z \in Ords : change[u][z].status = "planned"
                                                 => change'[u][z].status = "planned"
      BY <2>4 DEF Passed
    <2> QED
      BY <1>1, <2>5, <2>6, <2>7, BegunUndoKeeps
  <1> QED
    BY <1>3, <1>4 DEF BeginUndo

-----------------------------------------------------------------------------
(***************************************************************************)
(* 9. Deaths, connections and restarts.                                    *)
(***************************************************************************)
LEMMA FaultCounted ==
  ASSUME IInv, Faulty
  PROVE  faults' \in 0 .. MaxFaults
  BY JournalAssumption DEF IInv, Types, Faulty

(* Every operation is aborted, by a death or a cancel.                     *)
LEMMA AbortKeeps ==
  ASSUME IInv, op' = AllAborted, up' \in BOOLEAN, faults' \in 0 .. MaxFaults,
         UNCHANGED <<world, mine, tx, change, edits>>
  PROVE  IInv'
  <1>1. op' \in [Ops -> OpRow]
    BY AllAbortedLess DEF AllAborted
  <1>2. Types' /\ Sound'
    BY <1>1 DEF IInv, Types, Sound
  <1>3. Holds'
    BY AllAbortedLess DEF Holds
  <1>4. \A h \in Ops : Less(op[h], op'[h]) /\ ~Active(op'[h])
    BY AllAbortedLess
  <1> QED
    BY <1>2, <1>3, <1>4, SameRows, Kept

LEMMA DeathKeeps ==
  ASSUME IInv, Death
  PROVE  IInv'
  BY FaultCounted, AbortKeeps DEF Death

LEMMA AbortStepKeeps ==
  ASSUME IInv, Abort
  PROVE  IInv'
  BY AbortKeeps DEF Abort, IInv, Types

LEMMA CrashKeeps ==
  ASSUME IInv, Crash
  PROVE  IInv'
  <1>1. /\ up' = FALSE /\ Faulty /\ op' = [h \in Ops |-> NoOp]
        /\ tx' = [t \in Txs |-> IF tx[t].status = "open"
                                THEN [tx[t] EXCEPT !.status = Completed(change, t)] ELSE tx[t]]
        /\ UNCHANGED <<world, mine, change, edits>>
    BY DEF Crash
  <1>2. ASSUME NEW t \in Txs
        PROVE  tx'[t] \in TxRow /\ (tx'[t] = tx[t] \/ Closes(t))
    <2>1. CASE tx[t].status = "open"
      <3>1. Resolvable(change, t) /\ change \in [Txs -> [Ords -> Rows]]
        BY <2>1 DEF Resolvable, IInv, Sound, Types
      <3>2. /\ Completed(change, t) \in {"open", "completed", "partial", "failed"}
            /\ \A o \in Ords : Fits(Completed(change, t), change[t][o].status)
        BY <3>1, CompletedFits
      <3>3. tx'[t] = [tx[t] EXCEPT !.status = Completed(change, t)] /\ tx[t] \in TxRow
        BY <1>1, <2>1 DEF IInv, Types
      <3>4. tx'[t] \in TxRow /\ tx'[t].status = Completed(change, t) /\ tx'[t].plan = tx[t].plan
        BY <3>2, <3>3 DEF TxRow, TxStatus
      <3> QED
        BY <2>1, <3>2, <3>4 DEF Closes, Undoing
    <2>2. CASE tx[t].status # "open"
      BY <1>1, <2>2 DEF IInv, Types
    <2> QED
      BY <2>1, <2>2
  <1>3. \A h \in Ops : op'[h] = NoOp
    BY <1>1
  <1>4. Types'
    <2>1. op' \in [Ops -> OpRow] /\ tx' \in [Txs -> TxRow]
      BY <1>1, <1>2, NothingTyped
    <2> QED
      BY <1>1, <2>1, FaultCounted DEF IInv, Types
  <1>5. Sound'
    BY <1>1, <1>2 DEF IInv, Sound, Closes
  <1>6. Holds' /\ \A h \in Ops : Less(op[h], op'[h]) /\ ~Active(op'[h])
    BY <1>3, NothingHeld DEF Holds, Less
  <1>7. \A t \in Txs : tx'[t].plan = tx[t].plan /\ (tx'[t].status = "none" => tx[t].status = "none")
    BY <1>2 DEF Closes
  <1> QED
    BY <1>1, <1>4, <1>5, <1>6, <1>7, SameRows, Kept

LEMMA ConnectionLostKeeps ==
  ASSUME IInv, ConnectionLost
  PROVE  IInv' /\ Restores
  <1> DEFINE Cut(t, o) == \E h \in Ops : Doing(h, "edit") /\ op[h].tx = t /\ op[h].at = o
  <1>1. /\ up' = FALSE /\ Faulty /\ UNCHANGED <<world, mine, tx, edits>>
        /\ op' = [h \in Ops |-> IF op[h].phase = "idle" \/ op[h].lost THEN AllAborted[h]
                                ELSE [AllAborted[h] EXCEPT !.lost = TRUE, !.seen = world]]
        /\ change' = [t \in Txs |-> [o \in Ords |->
             IF Cut(t, o) THEN [change[t][o] EXCEPT !.cut = TRUE] ELSE change[t][o]]]
    BY DEF ConnectionLost
  <1>2. ASSUME NEW t \in Txs, NEW o \in Ords
        PROVE  /\ RowMove(change[t][o], change'[t][o])
               /\ change'[t][o].status = change[t][o].status
               /\ Cut(t, o) => change'[t][o].cut
    <2>1. CASE Cut(t, o)
      <3>1. PICK h \in Ops : Doing(h, "edit") /\ op[h].tx = t /\ op[h].at = o
        BY <2>1
      <3>2. op[h].phase # "idle"
        BY <3>1 DEF IInv, Holds, OpGood, Ords
      <3>3. change[t][o] \in Rows /\ change[t][o].status # "none"
        BY <3>1, <3>2, RowHeld
      <3>4. change'[t][o] = [change[t][o] EXCEPT !.cut = TRUE]
        BY <1>1, <2>1
      <3> HIDE DEF Cut
      <3> QED
        BY <3>3, <3>4, CutMoves
    <2>2. CASE ~Cut(t, o)
      <3>1. change'[t][o] = change[t][o] /\ change[t][o] \in Rows
        BY <1>1, <2>2 DEF IInv, Types
      <3> QED
        BY <2>2, <3>1, RowStays
    <2> QED
      BY <2>1, <2>2
  <1>3. \A h \in Ops : Edits(op[h]) => Cut(op[h].tx, op[h].at)
    BY DEF Doing, Edits
  <1> HIDE DEF Cut
  <1>4. RowsMove /\ DeniedRightly /\ Restores
    BY <1>2, NoneReverts DEF RowsMove, DeniedRightly
  <1>5. Sound'
    BY <1>1, <1>2 DEF IInv, Sound
  <1>6. change' \in [Txs -> [Ords -> Rows]]
    <2>1. \A t \in Txs, o \in Ords : change'[t][o] \in Rows
      BY <1>2 DEF RowMove
    <2>2. change' = [t \in Txs |-> [o \in Ords |-> change'[t][o]]]
      BY <1>1
    <2> QED
      BY <2>1, <2>2
  <1>7. ASSUME NEW h \in Ops
        PROVE  /\ op'[h] \in OpRow /\ OpGood(op'[h], tx', change', mine')
               /\ ~Active(op'[h]) /\ Less(op[h], op'[h])
    <2> DEFINE a == AllAborted[h]
    <2>1. /\ a \in OpRow /\ OpGood(a, tx, change, mine) /\ ~Active(a) /\ Less(op[h], a)
      BY AllAbortedLess
    <2>2. OpGood(a, tx', change', mine')
      BY <1>1, <1>2, <1>4, <2>1, OthersHold
    <2>3. CASE op[h].phase = "idle" \/ op[h].lost
      <3>1. op'[h] = a
        BY <1>1, <2>3
      <3> QED
        BY <2>1, <2>2, <3>1
    <2>4. CASE ~(op[h].phase = "idle" \/ op[h].lost)
      <3>1. a.aborted /\ a.kind = op[h].kind /\ a.tx = op[h].tx /\ a.at = op[h].at
        <4>1. ~Doing(h, "none")
          BY <2>4 DEF IInv, Holds, OpGood, Doing
        <4> QED
          BY <4>1 DEF AllAborted, IInv, Types, OpRow
      <3>2. op'[h] = [a EXCEPT !.lost = TRUE, !.seen = world] /\ world \in Worlds
        BY <1>1, <2>4 DEF IInv, Types
      <3> HIDE DEF a
      <3> DEFINE q == op'[h]
      <3>3. /\ q \in OpRow /\ q.kind = a.kind /\ q.tx = a.tx /\ q.at = a.at /\ q.phase = a.phase
            /\ q.aborted = a.aborted /\ q.lost /\ q.seen = world
        BY <2>1, <3>2 DEF OpRow
      <3> HIDE DEF q
      <3>4. Editing(q) => change'[q.tx][q.at].cut
        <4> SUFFICES ASSUME Editing(q)
                     PROVE  change'[q.tx][q.at].cut
          OBVIOUS
        <4>1. q.tx \in Txs /\ q.at \in Ords
          BY <2>1, <3>3 DEF OpRow, OpGood, Editing
        <4>2. Cut(q.tx, q.at)
          BY <1>3, <3>1, <3>3 DEF Editing, Edits
        <4> QED
          BY <1>2, <4>1, <4>2
      <3>5. Undoes(q) => \A c \in Cells : mine[c] = <<q.tx, q.at>> =>
                           q.seen[c] # change'[q.tx][q.at].before
        <4> SUFFICES ASSUME Undoes(q), NEW c \in Cells, mine[c] = <<q.tx, q.at>>
                     PROVE  world[c] # change'[q.tx][q.at].before
          BY <3>3
        <4>1. q.tx \in Txs /\ q.at \in Ords
          BY <2>1, <3>3 DEF OpRow, OpGood, Undoes
        <4>2. world[c] # change[q.tx][q.at].before
          BY <4>1 DEF IInv, Stands
        <4> QED
          BY <1>2, <4>1, <4>2 DEF RowMove
      <3>6. OpGood(q, tx', change', mine')
        BY <1>1, <2>2, <3>1, <3>3, <3>4, <3>5 DEF OpGood, Editing, Edits, Undoes, MayLand
      <3>7. ~Active(q) /\ Less(op[h], q)
        BY <2>1, <3>1, <3>3 DEF Active, Less, Editing, Edits, SameRow
      <3> QED
        BY <3>3, <3>6, <3>7 DEF q
    <2> QED
      BY <2>3, <2>4
  <1>8. Types'
    <2>1. op' \in [Ops -> OpRow]
      BY <1>1, <1>7
    <2> QED
      BY <1>1, <1>6, <2>1, FaultCounted DEF IInv, Types
  <1>9. Holds'
    BY <1>7 DEF Holds
  <1> QED
    BY <1>1, <1>4, <1>5, <1>7, <1>8, <1>9, Kept

(* A spawn marks what it judges under a handler that may yet click.        *)
LEMMA OvertakenMoves ==
  ASSUME NEW t, NEW o, NEW r \in Rows, NEW j, Judges(r, j), r.status # "none"
  PROVE  LET q == Overtaken(t, o, r, j)
         IN /\ Judges(r, q) /\ q.status = j.status /\ (j = r => q = r)
            /\ Early(t, o) => q = r \/ q.cut
  <1>1. CASE j # r /\ Early(t, o)
    <2> DEFINE q == [j EXCEPT !.cut = TRUE]
    <2>1. j \in Rows /\ j.status # "none" /\ r.status = "planned"
      BY <1>1 DEF Judges, RowMove
    <2>2. RowMove(j, q) /\ q.status = j.status /\ q.cut
      BY <2>1, CutMoves
    <2>3. Overtaken(t, o, r, j) = q
      BY <1>1 DEF Overtaken
    <2> HIDE DEF q
    <2>4. Judges(r, q)
      BY <2>1, <2>2 DEF Judges, RowMove
    <2> QED
      BY <1>1, <2>2, <2>3, <2>4
  <1>2. CASE ~(j # r /\ Early(t, o))
    <2>1. Overtaken(t, o, r, j) = j
      BY <1>2 DEF Overtaken
    <2> QED
      BY <1>2, <2>1
  <1> QED
    BY <1>1, <1>2

LEMMA SpawnKeeps ==
  ASSUME IInv, Spawn
  PROVE  IInv' /\ Restores
  <1>1. PICK loaded \in SUBSET Cells :
          LET Live(c) == IF c \in loaded THEN world[c] ELSE NoBlock
              Pass(t, o, row) ==
                CASE tx[t].status = "open" ->
                       Overtaken(t, o, row, ReconciledRow(row, Live(row.cell)))
                  [] tx[t].status \in {"undoing", "undo_partial"} ->
                       ReconciledUndo(row, Live(row.cell))
                  [] OTHER -> row
          IN change' = [t \in Txs |-> [o \in Ords |->
               IF o \in Used(change, t) THEN Pass(t, o, change[t][o]) ELSE NoRow]]
    BY DEF Spawn
  <1> DEFINE Live(c) == IF c \in loaded THEN world[c] ELSE NoBlock
  <1>2. /\ up' = TRUE /\ faults' \in 0 .. MaxFaults /\ UNCHANGED <<world, mine, edits>>
        /\ tx' = [t \in Txs |->
             CASE tx[t].status = "open" -> [tx[t] EXCEPT !.status = Completed(change', t)]
               [] tx[t].status \in {"undoing", "undo_partial"} ->
                    [tx[t] EXCEPT !.status = Finalized(change', t)]
               [] OTHER -> tx[t]]
        /\ op' = [h \in Ops |-> IF ~up /\ op[h].phase = "clicked"
                                THEN [op[h] EXCEPT !.phase = "answered"] ELSE op[h]]
    BY FaultCounted DEF Spawn, IInv, Types
  <1>3. ASSUME NEW t \in Txs, NEW o \in Ords
        PROVE  /\ change[t][o] \in Rows
               /\ change[t][o].status = "none" => change'[t][o] = change[t][o]
               /\ change[t][o].status # "none" =>
                    /\ change[t][o].cell \in Cells /\ change[t][o].before \in Blocks
                    /\ tx[t].status = "open" =>
                         change'[t][o] = Overtaken(t, o, change[t][o],
                           ReconciledRow(change[t][o], Live(change[t][o].cell)))
                    /\ tx[t].status \in Undoing =>
                         change'[t][o] = ReconciledUndo(change[t][o], Live(change[t][o].cell))
                    /\ tx[t].status \notin Undoing \cup {"open"} => change'[t][o] = change[t][o]
    <2>1. change[t][o] \in Rows
      BY DEF IInv, Types
    <2>2. o \in Used(change, t) <=> change[t][o].status # "none"
      BY <2>1, RowFacts DEF Used, With, RowStatus
    <2>3. CASE change[t][o].status = "none"
      BY <1>1, <2>1, <2>2, <2>3, UnusedRow
    <2>4. CASE change[t][o].status # "none"
      BY <1>1, <2>1, <2>2, <2>4, RowFacts DEF Undoing
    <2> QED
      BY <2>1, <2>3, <2>4
  <1>4. \A c \in Cells : Live(c) \in Blocks \cup {NoBlock} /\ (Live(c) \in Blocks => Live(c) = world[c])
    BY BlockFacts DEF IInv, Types, Worlds
  <1> HIDE DEF Live
  <1>5. ASSUME NEW t \in Txs, NEW o \in Ords
        PROVE  /\ tx[t].status = "open" => Judges(change[t][o], change'[t][o])
               /\ tx[t].status \in Undoing => Undoer(change[t][o], change'[t][o])
               /\ tx[t].status \notin Undoing \cup {"open"} => change'[t][o] = change[t][o]
               /\ tx[t].status = "open" /\ Early(t, o) =>
                    change'[t][o] = change[t][o] \/ change'[t][o].cut
               /\ change'[t][o].status \in {"failed", "reverted"} =>
                    \/ change'[t][o].status = change[t][o].status
                    \/ world[change[t][o].cell] = change[t][o].before
    <2>1. CASE change[t][o].status = "none"
      BY <1>3, <2>1, RowStays
    <2> DEFINE r == change[t][o]  live == Live(change[t][o].cell)
    <2>2. CASE r.status # "none" /\ tx[t].status = "open"
      <3> DEFINE j == ReconciledRow(r, live)
      <3>1. r \in Rows /\ live \in Blocks \cup {NoBlock} /\ change'[t][o] = Overtaken(t, o, r, j)
            /\ (live = r.before => world[r.cell] = r.before)
        BY <1>3, <1>4, <2>2
      <3>4. Judges(r, j) /\ (j.status = "failed" => j = r \/ live = r.before)
        BY <3>1, ReconciledJudges
      <3> HIDE DEF j, r
      <3>5. /\ Judges(r, change'[t][o]) /\ change'[t][o].status = j.status
            /\ j = r => change'[t][o] = r
            /\ Early(t, o) => change'[t][o] = r \/ change'[t][o].cut
        BY <2>2, <3>1, <3>4, OvertakenMoves
      <3> USE DEF r
      <3>2. /\ Judges(r, change'[t][o])
            /\ change'[t][o].status = "failed" => change'[t][o] = r \/ live = r.before
            /\ Early(t, o) => change'[t][o] = r \/ change'[t][o].cut
        BY <3>4, <3>5
      <3>3. change'[t][o].status = "reverted" => change'[t][o].status = r.status
        BY <3>2 DEF Judges
      <3> QED
        BY <2>2, <3>1, <3>2, <3>3 DEF Undoing
    <2>3. CASE r.status # "none" /\ tx[t].status \in Undoing
      <3>1. r \in Rows /\ change'[t][o] = ReconciledUndo(r, live)
            /\ (live = r.before => world[r.cell] = r.before)
        BY <1>3, <1>4, <2>3
      <3>2. /\ Undoer(r, change'[t][o])
            /\ change'[t][o].status = "reverted" => change'[t][o] = r \/ live = r.before
        BY <3>1, ReconciledUndoes
      <3>3. change'[t][o].status = "failed" => change'[t][o].status = r.status
        BY <3>2 DEF Undoer
      <3> QED
        BY <2>3, <3>1, <3>2, <3>3 DEF Undoing
    <2>4. CASE r.status # "none" /\ tx[t].status \notin Undoing \cup {"open"}
      BY <1>3, <2>4
    <2> QED
      BY <2>1, <2>2, <2>3, <2>4
  <1>6. RowsMove /\ DeniedRightly /\ Restores
    <2>1. RowsMove
      BY <1>3, <1>5, RowStays DEF RowsMove, Judges, Undoer
    <2>2. DeniedRightly
      BY <1>5, NotStanding DEF DeniedRightly
    <2>3. Restores
      BY <1>5 DEF Restores, Reverts
    <2> QED
      BY <2>1, <2>2, <2>3
  <1>7. change' \in [Txs -> [Ords -> Rows]]
    <2>1. \A t \in Txs, o \in Ords : change'[t][o] \in Rows
      BY <1>6 DEF RowsMove, RowMove
    <2>2. change' = [t \in Txs |-> [o \in Ords |-> change'[t][o]]]
      BY <1>1
    <2> QED
      BY <2>1, <2>2
  <1>8. ASSUME NEW t \in Txs
        PROVE  /\ tx'[t] \in TxRow /\ tx'[t].plan = tx[t].plan
               /\ tx[t].status = "none" <=> tx'[t].status = "none"
               /\ tx[t].status \in Undoing \cup {"undone"}
                    => tx'[t].status \in Undoing \cup {"undone"}
               /\ \A o \in Ords : Fits(tx'[t].status, change'[t][o].status)
    <2>1. tx[t] \in TxRow /\ \A o \in Ords : Fits(tx[t].status, change[t][o].status)
      BY DEF IInv, Types, Sound
    <2>2. CASE tx[t].status = "open"
      <3>1. Resolvable(change', t)
        BY <1>5, <2>1, <2>2 DEF Resolvable, Judges, Fits, Undoing
      <3>2. /\ Completed(change', t) \in {"open", "completed", "partial", "failed"}
            /\ \A o \in Ords : Fits(Completed(change', t), change'[t][o].status)
        BY <1>7, <3>1, CompletedFits
      <3>3. tx'[t] = [tx[t] EXCEPT !.status = Completed(change', t)]
        BY <1>2, <2>2
      <3>4. tx'[t] \in TxRow /\ tx'[t].status = Completed(change', t) /\ tx'[t].plan = tx[t].plan
        BY <2>1, <3>2, <3>3 DEF TxRow, TxStatus
      <3> QED
        BY <2>2, <3>2, <3>4 DEF Undoing
    <2>3. CASE tx[t].status \in Undoing
      <3>1. \A o \in Ords : change'[t][o].status # "planned"
        BY <1>5, <2>1, <2>3 DEF Undoer, RowMove, Fits, Undoing
      <3>2. /\ Finalized(change', t) \in Undoing \cup {"undone"}
            /\ \A o \in Ords : Fits(Finalized(change', t), change'[t][o].status)
        BY <1>7, <2>3, <3>1, FinalizedFits DEF Undoing
      <3>3. tx'[t] = [tx[t] EXCEPT !.status = Finalized(change', t)]
        BY <1>2, <2>3 DEF Undoing
      <3>4. tx'[t] \in TxRow /\ tx'[t].status = Finalized(change', t) /\ tx'[t].plan = tx[t].plan
        BY <2>1, <3>2, <3>3 DEF TxRow, TxStatus, Undoing
      <3> QED
        BY <2>3, <3>2, <3>4 DEF Undoing
    <2>4. CASE tx[t].status \notin Undoing \cup {"open"}
      <3>1. tx'[t] = tx[t]
        BY <1>2, <2>4 DEF Undoing
      <3> QED
        BY <1>5, <2>1, <2>4, <3>1
    <2> QED
      BY <2>2, <2>3, <2>4
  <1>9. ASSUME NEW h \in Ops
        PROVE  op'[h] \in OpRow /\ OpGood(op'[h], tx', change', mine') /\ Less(op[h], op'[h])
    <2>1. op[h] \in OpRow /\ OpGood(op[h], tx, change, mine)
      BY DEF IInv, Types, Holds
    <2> DEFINE q == op'[h]
    <2>2. /\ q \in OpRow /\ q.kind = op[h].kind /\ q.tx = op[h].tx /\ q.at = op[h].at
          /\ q.aborted = op[h].aborted /\ q.lost = op[h].lost /\ q.seen = op[h].seen
          /\ q.phase = IF ~up /\ op[h].phase = "clicked" THEN "answered" ELSE op[h].phase
      <3>1. CASE ~up /\ op[h].phase = "clicked"
        <4>1. q = [op[h] EXCEPT !.phase = "answered"]
          BY <1>2, <3>1
        <4> QED
          BY <2>1, <3>1, <4>1 DEF OpRow
      <3>2. CASE ~(~up /\ op[h].phase = "clicked")
        BY <1>2, <2>1, <3>2
      <3> QED
        BY <3>1, <3>2
    <2> HIDE DEF q
    <2>4. OpGood(q, tx, change, mine)
      BY <2>1, <2>2 DEF OpGood, Editing, Edits, Undoes, MayLand
    <2>3. Edits(q) /\ MayLand(q) => Awaited(change'[q.tx][q.at])
      <3> SUFFICES ASSUME Edits(q), MayLand(q)
                   PROVE  Awaited(change'[q.tx][q.at])
        OBVIOUS
      <3>1. q.tx \in Txs /\ q.at \in Ords /\ Awaited(change[q.tx][q.at])
        BY <2>2, <2>4 DEF OpRow, OpGood, MayLand
      <3>2. Early(q.tx, q.at)
        BY <2>2 DEF Early, Doing, Edits, MayLand
      <3>3. CASE change[q.tx][q.at].cut
        BY <1>6, <3>1, <3>3 DEF RowsMove, RowMove, Awaited
      <3>4. CASE change[q.tx][q.at].status = "planned"
        <4>1. tx[q.tx].status = "open"
          BY <3>1, <3>4 DEF IInv, Sound, Fits
        <4>2. change'[q.tx][q.at] = change[q.tx][q.at] \/ change'[q.tx][q.at].cut
          BY <1>5, <3>1, <3>2, <4>1
        <4> QED
          BY <3>4, <4>2 DEF Awaited
      <3> QED
        BY <3>1, <3>3, <3>4 DEF Awaited
    <2>5. \A t \in Txs, o \in Ords : RowMove(change[t][o], change'[t][o])
      BY <1>6 DEF RowsMove
    <2>6. /\ \A t \in Txs : tx[t].status # "none" => tx'[t].status # "none"
          /\ \A t \in Txs : tx[t].status \in Undoing \cup {"undone"}
                              => tx'[t].status \in Undoing \cup {"undone"}
      BY <1>8
    <2>7. OpGood(q, tx', change', mine)
      BY <2>2, <2>3, <2>4, <2>5, <2>6, HoldKept
    <2>8. Less(op[h], q)
      BY <2>1, <2>2 DEF Less, Active, Editing, Edits, SameRow
    <2> QED
      BY <1>2, <2>2, <2>7, <2>8 DEF q
  <1>10. Types'
    <2>1. op' \in [Ops -> OpRow] /\ tx' \in [Txs -> TxRow]
      BY <1>2, <1>8, <1>9
    <2> QED
      BY <1>2, <1>7, <2>1 DEF IInv, Types
  <1>11. Sound' /\ Holds'
    BY <1>8, <1>9 DEF Sound, Holds
  <1>12. \A t \in Txs : tx'[t].plan = tx[t].plan /\ (tx'[t].status = "none" => tx[t].status = "none")
    BY <1>8
  <1>13. \A h \in Ops : Less(op[h], op'[h])
    BY <1>9
  <1> QED
    BY <1>2, <1>6, <1>10, <1>11, <1>12, <1>13, Kept

-----------------------------------------------------------------------------
(***************************************************************************)
(* 10. The theorems.                                                       *)
(***************************************************************************)
LEMMA NextKeeps ==
  ASSUME IInv, [Next]_vars
  PROVE  IInv' /\ Restores
  <1>1. ASSUME NEW h \in Ops, OpStep(h)
        PROVE  IInv' /\ Restores
    <2>1. CASE EditPlan(h)
      BY <2>1, EditPlanKeeps
    <2>2. CASE EditClick(h)
      BY <2>2, EditClickKeeps
    <2>3. CASE EditSettle(h)
      BY <2>3, EditSettleKeeps
    <2>4. CASE EditEnd(h)
      BY <2>4, EditEndKeeps, NoneReverts DEF EditEnd
    <2>5. CASE UndoClick(h)
      BY <2>5, UndoClickKeeps, NoneReverts DEF UndoClick
    <2>6. CASE UndoSettle(h)
      BY <2>6, UndoSettleKeeps
    <2>7. CASE ClickLands(h)
      BY <2>7, ClickLandsKeeps, NoneReverts DEF ClickLands
    <2> QED
      BY <1>1, <2>1, <2>2, <2>3, <2>4, <2>5, <2>6, <2>7 DEF OpStep
  <1>2. ASSUME NEW h \in Ops, NEW t \in Txs, Begin(h, t)
        PROVE  IInv' /\ Restores
    <2>1. CASE BeginEdit(h, t)
      BY <2>1, BeginEditKeeps, NoneReverts DEF BeginEdit
    <2>2. CASE BeginUndo(h, t)
      BY <2>2, BeginUndoKeeps
    <2>3. ASSUME NEW p \in BuildPlans, BeginBuild(h, p, t)
          PROVE  IInv' /\ Restores
      BY <2>3, BeginBuildKeeps, NoneReverts DEF BeginBuild
    <2> QED
      BY <1>2, <2>1, <2>2, <2>3 DEF Begin
  <1>3. ASSUME NEW c \in Cells, OtherEdit(c)
        PROVE  IInv' /\ Restores
    BY <1>3, OtherEditKeeps, NoneReverts DEF OtherEdit
  <1>4. CASE Spawn
    BY <1>4, SpawnKeeps
  <1>5. CASE Death
    BY <1>5, DeathKeeps, NoneReverts DEF Death
  <1>6. CASE ConnectionLost
    BY <1>6, ConnectionLostKeeps
  <1>7. CASE Crash
    BY <1>7, CrashKeeps, NoneReverts DEF Crash
  <1>8. CASE Abort
    BY <1>8, AbortStepKeeps, NoneReverts DEF Abort
  <1>9. CASE UNCHANGED vars
    BY <1>9, NoneReverts DEF vars, IInv, Types, Sound, Stands, Holds, Turns, Attempts, Waits,
                             BudgetKept, Limited
  <1> QED
    BY <1>1, <1>2, <1>3, <1>4, <1>5, <1>6, <1>7, <1>8, <1>9 DEF Next

(* The journal, the world and the operations agree in every state          *)
(* (world_transactions and world_changes against the block clicks).        *)
THEOREM Invariance == Spec => []IInv
  <1> QED
    BY InitIInv, NextKeeps, PTL DEF Spec

(* Every variable keeps its type, the rows theirs.                         *)
THEOREM TypeCorrect == Spec => []TypeOK
  <1>1. Rows \subseteq Row \cup {NoRow}
    BY DEF Rows
  <1>2. IInv => TypeOK
    BY <1>1 DEF IInv, Types, TypeOK, TxRow, OpRow
  <1> QED
    BY <1>2, Invariance, PTL

(* What stands by the bot's hand is on record, whoever aborts, reconciles  *)
(* or answers late (blockExecutor, reconcileLive, undoTransaction).        *)
THEOREM Recorded == Spec => []EveryChangeRecorded
  <1>1. IInv => EveryChangeRecorded
    <2> SUFFICES ASSUME IInv, NEW c \in Cells, mine[c] # <<0, 0>>
                 PROVE  LET row == change[mine[c][1]][mine[c][2]]
                        IN row.cut \/ row.status \in {"planned", "applied", "conflict", "reverting"}
      BY DEF EveryChangeRecorded
    <2>1. PICK t \in Txs, o \in Ords : mine[c] = <<t, o>>
      BY DEF IInv, Types
    <2>2. /\ change[t][o].status # "none"
          /\ change[t][o].cut \/ change[t][o].status \notin {"failed", "reverted"}
      BY <2>1 DEF IInv, Stands
    <2>3. change[t][o].status \in RowStatus
      BY <2>2, RowFacts DEF IInv, Types
    <2> QED
      BY <2>1, <2>2, <2>3 DEF RowStatus
  <1> QED
    BY <1>1, Invariance, PTL

(* The edits that share a scope never plan past its budget                 *)
(* (countReservedWorldChanges, planChange).                                *)
THEOREM Budget == Spec => []BudgetKept
  <1>1. IInv => BudgetKept
    BY DEF IInv
  <1> QED
    BY <1>1, Invariance, PTL

(* A transaction's status says what its rows say, and no build goes on     *)
(* beside another's unresolved click (completeTransaction,                 *)
(* finalizeUndoTransaction, beginOrReuseConstructionAttempt).              *)
THEOREM Believable == Spec => []JournalIsTrue
  <1>1. IInv => StatusMirrorsChanges
    <2> SUFFICES ASSUME IInv, NEW t \in Txs
                 PROVE  /\ tx[t].status # "open" => With(change, t, {"planned"}) = {}
                        /\ tx[t].status = "completed" =>
                             Used(change, t) = With(change, t, {"applied"})
                        /\ tx[t].status \in {"failed", "cancelled"} =>
                             Used(change, t) = With(change, t, {"failed"})
                        /\ tx[t].status = "undone" =>
                             With(change, t, {"applied", "reverting"}) = {}
      BY DEF StatusMirrorsChanges
    <2>1. \A o \in Ords : Fits(tx[t].status, change[t][o].status)
      BY DEF IInv, Sound
    <2> QED
      BY <2>1 DEF Fits, Undoing, With, Used, RowStatus
  <1>2. IInv => OneUnresolvedAttempt
    BY DEF IInv, Attempts, Waits, OneUnresolvedAttempt, With
  <1> QED
    BY <1>1, <1>2, Invariance, PTL DEF JournalIsTrue

(* While every bot sees the world, a change is called reverted only when   *)
(* what was there before it stands (markChangeReverted's callers).         *)
THEOREM Restored == Spec => RevertedStands
  <1>1. ASSUME IInv, [Next]_vars
        PROVE  [Restores]_vars
    BY <1>1, NextKeeps
  <1>2. [Restores]_vars => [\A t \in Txs, o \in Ords :
          Reverts(t, o) /\ (\A h \in Ops : ~op[h].lost)
            => world[change[t][o].cell] = change[t][o].before]_vars
    BY DEF Restores
  <1> QED
    BY <1>1, <1>2, Invariance, PTL DEF Spec, RevertedStands
=============================================================================
