------------------------ MODULE BlueprintBuildProofs ------------------------
(***************************************************************************)
(* A blueprint is built as it says, for any number of units, supports,     *)
(* handlers and plans, whoever aborts, edits, answers late or restarts.    *)
(*                                                                         *)
(* A support of the job's own is on record while it stands: its cell's     *)
(* last verdict says so, or its click has no verdict yet (Kept).  Open     *)
(* clicks are all in one attempt, one for each cell (Resolved), and a      *)
(* handler that may still click, once past its scan, is the one whose      *)
(* attempt that is (Clear).  As long as it has not failed, only its column *)
(* stands and only the click in its hand is open (Clean); a column that    *)
(* comes down after a failure comes down past cells without one (Below).   *)
(* So a handler that compares leaves nothing behind, and what it has       *)
(* compared stands, or was changed since (Compared).                       *)
(***************************************************************************)
EXTENDS BlueprintBuild, FiniteSetTheorems, WellFoundedInduction, TLAPS

Phases  == {"primary", "check", "repair", "report"}
Results == {"ok", "interrupted", "blocked", "failed"}
Stages  == {"none", "scan", "materials", "unit", "place", "cleanup", "verify", "collect", "done"}
Wants   == {"air", "unit", "prop"}

Invocation ==
  [pc : Stages, phase : Phases, plan : Plans \cup {0}, aborted : BOOLEAN, tx : Runs \cup {0},
   pos : Nat, count : Nat, issues : SUBSET {"missing", "wrong"}, since : SUBSET Units,
   todo : SUBSET Units, propped : SUBSET Units, stood : Nat,
   click : Click, confirmed : BOOLEAN, result : Results]

Attempt ==
  [status : {"none", "open", "completed", "ended"}, plan : Plans \cup {0},
   planned : SUBSET (Cells \X Wants), used : BOOLEAN, spoiled : BOOLEAN]

Jobs == [status : {"pending", "running", "paused", "blocked", "failed", "completed"},
         plan : Plans, placed : Nat]

Verdicts == {"none", "raised", "left", "down"}

Typed ==
  /\ world \in [Cells -> Blocks] /\ own \subseteq Supports /\ job \in Jobs
  /\ tx \in [Runs -> Attempt] /\ latest \in [Supports -> Verdicts]
  /\ inv \in [Runs -> Invocation]
  /\ edits \in Nat /\ faults \in Nat

(* How an invocation's fields go together at each stage of the handler.    *)
AtCell(i) == i.pc \in {"place", "cleanup"}
Running(i) == i.pc \notin {"none", "done"}
Acts(i)   == Running(i) /\ ~i.aborted
Row(i)    == <<Target(i), Wanted(i)>>

Shaped(i) ==
  /\ AtCell(i) => i.todo # {} /\ i.stood <= Len(Column[Current(i)])
  /\ i.click # "no" => AtCell(i) /\ (i.pc = "cleanup" => i.stood > 0)
  /\ i.tx # 0 <=> \/ i.pc \in {"unit", "place", "cleanup", "verify", "collect"}
                  \/ i.pc = "materials" /\ i.phase = "repair"
  /\ i.pc = "scan" => i.phase = "primary"
  /\ i.phase = "report" => i.pc = "verify" /\ i.result \in {"blocked", "failed"}
  /\ i.pc # "cleanup" /\ i.phase # "report" => i.result = "ok"
  /\ i.pc \in {"materials", "unit", "place", "cleanup"} => i.phase \in {"primary", "repair"}
  /\ i.pc = "collect" => i.phase = "repair"

(* What the comparison has passed stands, or was changed after it.         *)
Compared(i, w) ==
  i.pc = "verify" =>
    /\ i.pos # 0
    /\ \A u \in Units : u < i.pos => w[u] = "unit" \/ u \in i.since \/ i.issues # {}

(* Only open attempts have clicks without a verdict, only one attempt has, *)
(* and at most one for each cell.                                          *)
Resolved(table) ==
  /\ \A t \in Runs : table[t].planned # {} => table[t].status = "open"
  /\ \A s, t \in Runs : table[s].planned # {} /\ table[t].planned # {} => s = t
  /\ \A t \in Runs : \A p, q \in table[t].planned : p[1] = q[1] => p = q

(* The handler that may click, once it has scanned, has every such click   *)
(* in its own attempt; as long as nothing failed, that is the one it is    *)
(* waiting for, and no support stands but those of its column; and what it *)
(* still has to dig was never clicked.                                     *)
Standing(i) == IF AtCell(i) THEN {Column[Current(i)][l] : l \in 1 .. i.stood} ELSE {}
InHand(i)   == IF i.click = "no" THEN {} ELSE {Target(i)}

Clear(i, table) ==
  Acts(i) /\ i.pc # "scan" => \A t \in Runs : table[t].planned # {} => t = i.tx
Clean(i, table, o) ==
  Acts(i) /\ i.pc # "scan" /\ i.result = "ok" =>
    /\ o \subseteq Standing(i) \cup InHand(i)
    /\ \A t \in Runs : \A p \in table[t].planned : i.click # "no" /\ p = Row(i)
Below(i, table) ==
  Acts(i) /\ i.pc = "cleanup" =>
    \A p \in table[i.tx].planned : \A l \in 1 .. i.stood :
      p[1] = Column[Current(i)][l] => i.click # "no" /\ l = i.stood /\ p = Row(i)

Journaled(r, i, table) ==
  /\ i.tx # 0 => table[i.tx].status # "none"
  /\ i.tx = 0 /\ i.pc # "done" => table[r].status = "none"
  /\ i.click # "no" => table[i.tx].used
  /\ i.click = "sent" => Row(i) \in table[i.tx].planned

OneActs(a) ==
  \A q, r \in Runs : q # r =>
    /\ ~Acts(a[q]) \/ ~Acts(a[r])
    /\ Acts(a[r]) /\ a[r].tx # 0 /\ a[q].tx = a[r].tx => a[q].click = "no"
    /\ a[q].click # "no" /\ a[r].click # "no" => a[q].tx # a[r].tx

(* A support of the job's own is in its history, or its click is open.     *)
Kept(w, o, last, table) ==
  \A c \in o : /\ w[c] = "prop"
               /\ last[c] \in {"raised", "left"} \/ \E t \in Runs : <<c, "prop">> \in table[t].planned

Over(j, o, table) == j.status = "completed" => o = {} /\ \A t \in Runs : table[t].planned = {}

Part(r, i, table, w, o) ==
  /\ Shaped(i) /\ Compared(i, w)
  /\ Clear(i, table) /\ Clean(i, table, o) /\ Below(i, table)
  /\ Journaled(r, i, table)

IInv ==
  /\ Typed
  /\ Resolved(tx)
  /\ \A r \in Runs : Part(r, inv[r], tx, world, own)
  /\ OneActs(inv)
  /\ Kept(world, own, latest, tx)
  /\ Over(job, own, tx)

(* A complete job is over, and one attempt holds one click of a cell.      *)
LEMMA IInvImplies == IInv => NoSupportLeftBehind /\ NoSecondClick
  <1> SUFFICES ASSUME IInv
               PROVE  NoSupportLeftBehind /\ NoSecondClick
    OBVIOUS
  <1>1. NoSupportLeftBehind
    BY DEF IInv, Over, NoSupportLeftBehind
  <1>2. NoSecondClick
    <2>1. ASSUME NEW s \in Runs, NEW t \in Runs, NEW p \in tx[s].planned, NEW q \in tx[t].planned,
                 p[1] = q[1]
          PROVE  s = t /\ p = q
      <3>1. tx[s].planned # {} /\ tx[t].planned # {}
        OBVIOUS
      <3>2. s = t
        BY <3>1 DEF IInv, Resolved
      <3> QED
        BY <2>1, <3>2 DEF IInv, Resolved
    <2> QED
      BY <2>1 DEF NoSecondClick
  <1> QED
    BY <1>1, <1>2

(* The invariant types every variable, more narrowly than TypeOK.          *)
LEMMA IInvTypes == IInv => TypeOK
  BY DEF IInv, Typed, TypeOK, Jobs, Invocation, Attempt, Wants

-----------------------------------------------------------------------------
(* The least unit and the least attempt are there.                         *)
LEMMA LeastOf ==
  ASSUME NEW R, \A x, y \in Nat : y < x => <<y, x>> \in R, IsWellFoundedOn(R, Nat),
         NEW T, T \subseteq Nat, T # {}
  PROVE  \E t \in T : \A u \in T : t <= u
  <1>1. PICK x \in T : \A y \in T : ~ (<<y, x>> \in R)
    BY WFMin
  <1>2. ASSUME NEW u \in T
        PROVE  x <= u
    <2>1. x \in Nat /\ u \in Nat
      OBVIOUS
    <2>2. u < x => <<u, x>> \in R
      BY <2>1
    <2>3. ~ (<<u, x>> \in R)
      BY <1>1
    <2> QED
      BY <2>1, <2>2, <2>3, SMT
  <1> QED
    BY <1>2

(* The least of some numbers is one of them.                               *)
LEMMA MinIn ==
  ASSUME NEW T, T \subseteq Nat, T # {}
  PROVE  Min(T) \in T
  <1>1. IsWellFoundedOn(OpToRel(<, Nat), Nat)
    BY NatLessThanWellFounded
  <1>2. \A x, y \in Nat : y < x => <<y, x>> \in OpToRel(<, Nat)
    BY DEF OpToRel
  <1>3. \E t \in T : \A u \in T : t <= u
    BY <1>1, <1>2, LeastOf
  <1> QED
    BY <1>3 DEF Min

(* Units, runs and plans count from one.                                   *)
LEMMA Numbers == Units \subseteq Nat /\ Runs \subseteq Nat /\ 0 \notin Runs /\ Plans \subseteq Nat
                /\ \A u \in Units : ~(u < 1)
  <1>1. Cardinality(Units) \in Nat /\ Cardinality(Runs) \in Nat /\ Cardinality(Plans) \in Nat
    BY BuildAssumption, FS_CardinalityType
  <1> QED
    BY <1>1, BuildAssumption

(* The unit that is worked on is one still to do.                          *)
LEMMA CurrentIn ==
  ASSUME NEW i \in Invocation, i.todo # {}
  PROVE  Current(i) \in i.todo /\ Current(i) \in Units
  <1>1. i.todo \subseteq Units
    BY DEF Invocation
  <1>2. Min(i.todo) \in i.todo
    BY <1>1, Numbers, MinIn
  <1> QED
    BY <1>1, <1>2 DEF Current

(* An attempt is the own one, or a plan's that was not used yet.           *)
LEMMA JournalIn ==
  ASSUME NEW r \in Runs, NEW i
  PROVE  Journal(r, i) = r \/ Journal(r, i) \in Reusable(i)
  <1>1. Reusable(i) \subseteq Nat
    BY Numbers DEF Reusable, Open
  <1>2. Reusable(i) # {} => Min(Reusable(i)) \in Reusable(i)
    BY <1>1, MinIn
  <1> QED
    BY <1>2 DEF Journal

(* The column beside the unit, and the cell that is being worked on.       *)
LEMMA ColumnOf ==
  ASSUME NEW i \in Invocation, i.todo # {}
  PROVE  LET col == Column[Current(i)]
         IN /\ col \in Seq(Supports) /\ Len(col) \in Nat
            /\ \A l \in 1 .. Len(col) : col[l] \in Supports
            /\ \A k, l \in 1 .. Len(col) : col[k] = col[l] => k = l
  <1>1. Current(i) \in Units
    BY CurrentIn
  <1>2. Column[Current(i)] \in Seq(Supports) /\ IsInjective(Column[Current(i)])
    BY <1>1, BuildAssumption
  <1> DEFINE col == Column[Current(i)]
  <1>3. col \in Seq(Supports) /\ IsInjective(col)
    BY <1>2
  <1> HIDE DEF col
  <1>4. Len(col) \in Nat /\ DOMAIN col = 1 .. Len(col)
    BY <1>3
  <1>5. \A l \in 1 .. Len(col) : col[l] \in Supports
    BY <1>3, <1>4
  <1>6. \A k, l \in 1 .. Len(col) : col[k] = col[l] => k = l
    BY <1>3, <1>4 DEF IsInjective
  <1> QED
    BY <1>3, <1>4, <1>5, <1>6 DEF col

(* The cell that a click would change, and what it would hold.             *)
LEMMA TargetOf ==
  ASSUME NEW i \in Invocation, AtCell(i), Shaped(i), i.pc = "cleanup" => i.stood > 0
  PROVE  /\ Row(i) \in Cells \X Wants /\ Target(i) \in Cells /\ Row(i)[1] = Target(i)
         /\ Wanted(i) \in Wants
         /\ i.pc = "cleanup" => /\ Wanted(i) = "air" /\ i.stood \in 1 .. Len(Column[Current(i)])
                                /\ Target(i) = Column[Current(i)][i.stood] /\ Target(i) \in Supports
         /\ i.pc = "place" /\ Raising(i) =>
              /\ Wanted(i) = "prop" /\ i.stood + 1 \in 1 .. Len(Column[Current(i)])
              /\ Target(i) = Column[Current(i)][i.stood + 1] /\ Target(i) \in Supports
         /\ i.pc = "place" /\ ~Raising(i) => Wanted(i) = "unit" /\ Target(i) \in Units
  <1> DEFINE col == Column[Current(i)]
  <1>1. i.todo # {} /\ i.stood <= Len(col) /\ i.stood \in Nat
    BY DEF Shaped, Invocation
  <1>2. /\ Len(col) \in Nat /\ \A l \in 1 .. Len(col) : col[l] \in Supports
        /\ Current(i) \in Units
    BY <1>1, ColumnOf, CurrentIn
  <1>3. CASE i.pc = "cleanup"
    <2>1. /\ Wanted(i) = "air" /\ i.stood \in 1 .. Len(col) /\ Target(i) = col[i.stood]
      BY <1>1, <1>2, <1>3 DEF Wanted, Target
    <2> QED
      BY <1>2, <1>3, <2>1 DEF Row, Cells, Wants
  <1>4. CASE i.pc = "place" /\ Raising(i)
    <2>1. /\ Wanted(i) = "prop" /\ i.stood + 1 \in 1 .. Len(col) /\ Target(i) = col[i.stood + 1]
      BY <1>1, <1>2, <1>4 DEF Wanted, Target, Raising
    <2> QED
      BY <1>2, <1>4, <2>1 DEF Row, Cells, Wants
  <1>5. CASE i.pc = "place" /\ ~Raising(i)
    <2>1. Wanted(i) = "unit" /\ Target(i) = Current(i)
      BY <1>5 DEF Wanted, Target
    <2> QED
      BY <1>2, <1>5, <2>1 DEF Row, Cells, Wants
  <1> QED
    BY <1>3, <1>4, <1>5 DEF AtCell

(* What the cell is depends on these fields only.                          *)
SameCell(i, j) ==
  i.pc = j.pc /\ i.todo = j.todo /\ i.stood = j.stood /\ i.propped = j.propped

LEMMA SameCellSame ==
  ASSUME NEW i, NEW j, SameCell(i, j)
  PROVE  /\ Target(i) = Target(j) /\ Wanted(i) = Wanted(j) /\ Row(i) = Row(j)
         /\ Standing(i) = Standing(j) /\ Current(i) = Current(j) /\ AtCell(i) = AtCell(j)
         /\ Raising(i) = Raising(j)
  <1>1. Current(i) = Current(j) /\ AtCell(i) = AtCell(j)
    BY DEF SameCell, Current, AtCell
  <1>2. Raising(i) = Raising(j)
    BY <1>1 DEF SameCell, Raising
  <1>3. Target(i) = Target(j) /\ Wanted(i) = Wanted(j)
    BY <1>1, <1>2 DEF SameCell, Target, Wanted
  <1> QED
    BY <1>1, <1>2, <1>3 DEF SameCell, Row, Standing

-----------------------------------------------------------------------------
(***************************************************************************)
(* Steps of one handler: what its attempt may lose, and how it returns.    *)
(***************************************************************************)
(* A step of one invocation that makes no click: attempts keep what was    *)
(* planned, or lose the click that it waited for, and are closed only when *)
(* nothing is open in them.                                                *)
Loses(r, t, a, b) ==
  /\ b.used = a.used
  /\ \/ b.planned = a.planned
     \/ inv[r].click # "no" /\ t = inv[r].tx /\ b.planned = a.planned \ {Row(inv[r])}
  /\ \/ b.status = a.status
     \/ a.status = "open" /\ b.planned = {} /\ b.status \in {"completed", "ended"}

Settled(r, table) ==
  table \in [Runs -> Attempt] /\ \A t \in Runs : Loses(r, t, tx[t], table[t])

(* What a settled table kept.                                              *)
LEMMA SettledFacts ==
  ASSUME NEW r \in Runs, NEW table, Settled(r, table), NEW t \in Runs
  PROVE  /\ table[t].planned \subseteq tx[t].planned /\ table[t].used = tx[t].used
         /\ table[t].planned # {} => table[t].status = tx[t].status
         /\ tx[t].status = "none" <=> table[t].status = "none"
  BY DEF Settled, Loses

LEMMA SettledResolved ==
  ASSUME Resolved(tx), NEW r \in Runs, NEW table, Settled(r, table)
  PROVE  Resolved(table)
  <1>1. \A t \in Runs : /\ table[t].planned \subseteq tx[t].planned
                        /\ table[t].planned # {} => table[t].status = tx[t].status
    BY SettledFacts
  <1> QED
    BY <1>1 DEF Resolved

(* The other handlers do not notice.                                       *)
LEMMA SettledOthers ==
  ASSUME IInv, NEW r \in Runs, NEW table, Settled(r, table), NEW q \in Runs, q # r
  PROVE  Part(q, inv[q], table, world, own)
  <1> DEFINE i == inv[q]
  <1>1. Part(q, i, tx, world, own) /\ i \in Invocation /\ i.tx \in Runs \cup {0}
    BY DEF IInv, Typed, Invocation
  <1>2. \A t \in Runs : /\ table[t].planned \subseteq tx[t].planned /\ table[t].used = tx[t].used
                        /\ tx[t].status = "none" <=> table[t].status = "none"
    BY SettledFacts
  <1>3. Running(i) /\ i.pc \in {"cleanup"} => i.tx # 0
    BY <1>1 DEF Part, Shaped
  <1>4. i.click = "sent" => Row(i) \in table[i.tx].planned
    <2>1. SUFFICES ASSUME i.click = "sent"
                   PROVE  Row(i) \in table[i.tx].planned
      OBVIOUS
    <2>2. Row(i) \in tx[i.tx].planned /\ i.tx \in Runs
      <3>1. Row(i) \in tx[i.tx].planned
        BY <1>1, <2>1 DEF Part, Journaled
      <3>2. AtCell(i)
        BY <1>1, <2>1 DEF Part, Shaped
      <3>3. i.tx # 0
        BY <1>1, <3>2 DEF Part, Shaped, AtCell
      <3> QED
        BY <1>1, <3>1, <3>3
    <2>3. ~(inv[r].click # "no" /\ i.tx = inv[r].tx)
      BY <2>1 DEF IInv, OneActs
    <2>4. table[i.tx].planned = tx[i.tx].planned
      BY <2>2, <2>3 DEF Settled, Loses
    <2> QED
      BY <2>2, <2>4
  <1>5. i.click # "no" => i.tx \in Runs
    <2>1. i.click # "no" => AtCell(i)
      BY <1>1 DEF Part, Shaped
    <2> QED
      BY <1>1, <2>1 DEF Part, Shaped, AtCell
  <1> HIDE DEF i
  <1>6. Journaled(q, i, table)
    <2>1. Journaled(q, i, tx)
      BY <1>1 DEF Part
    <2>2. i.tx # 0 => table[i.tx].status # "none"
      BY <1>1, <1>2, <2>1 DEF Journaled
    <2>3. i.tx = 0 /\ i.pc # "done" => table[q].status = "none"
      BY <1>2, <2>1 DEF Journaled
    <2>4. i.click # "no" => table[i.tx].used
      BY <1>2, <1>5, <2>1 DEF Journaled
    <2> QED
      BY <1>4, <2>2, <2>3, <2>4 DEF Journaled
  <1>7. Clear(i, table)
    BY <1>1, <1>2 DEF Part, Clear
  <1>8. Clean(i, table, own)
    BY <1>1, <1>2 DEF Part, Clean
  <1>9. Below(i, table)
    BY <1>1, <1>2, <1>3 DEF Part, Below, Acts
  <1> QED
    BY <1>1, <1>6, <1>7, <1>8, <1>9 DEF Part, i

(* One handler moves, its attempt settled: it answers for itself only.     *)
LEMMA Moves ==
  ASSUME IInv, NEW r \in Runs, NEW j \in Invocation, Running(inv[r]),
         inv' = [inv EXCEPT ![r] = j], Settled(r, tx'), UNCHANGED <<world, own, edits, faults>>,
         latest' \in [Supports -> Verdicts], job' \in Jobs,
         Kept(world, own, latest', tx'), Over(job', own, tx'),
         j.click = "no", j.tx = inv[r].tx \/ (j.pc = "done" /\ j.tx = 0),
         Acts(j) => Acts(inv[r]),
         Shaped(j), Compared(j, world), Clear(j, tx'), Clean(j, tx', own), Below(j, tx')
  PROVE  IInv'
  <1>1. inv \in [Runs -> Invocation] /\ Part(r, inv[r], tx, world, own)
    BY DEF IInv, Typed
  <1>2. inv' \in [Runs -> Invocation] /\ inv'[r] = j /\ \A q \in Runs \ {r} : inv'[q] = inv[q]
    BY <1>1
  <1>3. Typed'
    BY <1>2 DEF IInv, Typed, Settled
  <1>4. Resolved(tx')
    BY SettledResolved DEF IInv
  <1>5. Journaled(r, j, tx')
    <2>1. \A t \in Runs : tx[t].status = "none" <=> tx'[t].status = "none"
      BY SettledFacts
    <2>2. Journaled(r, inv[r], tx) /\ inv[r].tx \in Runs \cup {0} /\ inv[r].pc # "done"
      BY <1>1 DEF Part, Invocation, Running
    <2> QED
      BY <2>1, <2>2 DEF Journaled
  <1>6. ASSUME NEW q \in Runs
        PROVE  Part(q, inv'[q], tx', world, own)
    <2>1. CASE q = r
      BY <1>2, <1>5, <2>1 DEF Part
    <2>2. CASE q # r
      BY <1>2, <2>2, SettledOthers
    <2> QED
      BY <2>1, <2>2
  <1>7. OneActs(inv')
    <2>1. ASSUME NEW p \in Runs, NEW q \in Runs, p # q
          PROVE  /\ ~Acts(inv'[p]) \/ ~Acts(inv'[q])
                 /\ Acts(inv'[q]) /\ inv'[q].tx # 0 /\ inv'[p].tx = inv'[q].tx => inv'[p].click = "no"
                 /\ inv'[p].click # "no" /\ inv'[q].click # "no" => inv'[p].tx # inv'[q].tx
      <3>1. /\ ~Acts(inv[p]) \/ ~Acts(inv[q])
            /\ Acts(inv[q]) /\ inv[q].tx # 0 /\ inv[p].tx = inv[q].tx => inv[p].click = "no"
            /\ inv[p].click # "no" /\ inv[q].click # "no" => inv[p].tx # inv[q].tx
        BY <2>1 DEF IInv, OneActs
      <3>2. CASE p # r /\ q # r
        BY <1>2, <3>1, <3>2
      <3>3. CASE p = r
        BY <1>2, <2>1, <3>1, <3>3
      <3>4. CASE q = r
        BY <1>2, <2>1, <3>1, <3>4
      <3> QED
        BY <3>2, <3>3, <3>4
    <2> QED
      BY <2>1 DEF OneActs
  <1> QED
    BY <1>3, <1>4, <1>6, <1>7 DEF IInv

-----------------------------------------------------------------------------
(* An attempt that is closed, or goes on as it was.                        *)
LEMMA ClosedFacts ==
  ASSUME NEW a \in Attempt
  PROVE  /\ Completed(a) \in Attempt /\ Cancelled(a) \in Attempt
         /\ \A b \in {Completed(a), Cancelled(a)} :
              /\ b.used = a.used /\ b.planned = a.planned
              /\ \/ b.status = a.status
                 \/ a.status = "open" /\ b.planned = {} /\ b.status \in {"completed", "ended"}
  <1>1. CASE a.status # "open" \/ a.planned # {}
    BY <1>1 DEF Completed, Cancelled
  <1>2. CASE ~(a.status # "open" \/ a.planned # {})
    <2> DEFINE s == IF a.spoiled THEN "ended" ELSE "completed"
               b == [a EXCEPT !.status = s]
               c == [a EXCEPT !.status = "ended"]
    <2>1. Completed(a) = b /\ Cancelled(a) = c
      BY <1>2 DEF Completed, Cancelled
    <2>2. s \in {"ended", "completed"}
      OBVIOUS
    <2> HIDE DEF s
    <2>3. b \in Attempt /\ b.used = a.used /\ b.planned = a.planned /\ b.status = s
      BY <2>2 DEF Attempt
    <2>4. c \in Attempt /\ c.used = a.used /\ c.planned = a.planned /\ c.status = "ended"
      BY DEF Attempt
    <2> HIDE DEF b, c
    <2> QED
      BY <1>2, <2>1, <2>2, <2>3, <2>4
  <1> QED
    BY <1>1, <1>2

LEMMA SameSettled ==
  ASSUME Typed, NEW r \in Runs
  PROVE  Settled(r, tx)
  BY DEF Typed, Settled, Loses

(* A table that was settled is so when one of its attempts closes.         *)
LEMMA ThenClosed ==
  ASSUME NEW r \in Runs, NEW table, Settled(r, table), NEW n \in Runs, NEW b,
         b \in {Completed(table[n]), Cancelled(table[n])}
  PROVE  /\ Settled(r, [table EXCEPT ![n] = b])
         /\ \A t \in Runs : [table EXCEPT ![n] = b][t].planned = table[t].planned
  <1> DEFINE m == [table EXCEPT ![n] = b]
  <1>1. table \in [Runs -> Attempt]
    BY DEF Settled
  <1>2. /\ b \in Attempt /\ b.used = table[n].used /\ b.planned = table[n].planned
        /\ \/ b.status = table[n].status
           \/ table[n].status = "open" /\ b.planned = {} /\ b.status \in {"completed", "ended"}
    BY <1>1, ClosedFacts
  <1>3. m \in [Runs -> Attempt] /\ m[n] = b /\ \A t \in Runs \ {n} : m[t] = table[t]
    BY <1>1, <1>2
  <1> HIDE DEF m
  <1>4. ASSUME NEW t \in Runs
        PROVE  Loses(r, t, tx[t], m[t]) /\ m[t].planned = table[t].planned
    <2>1. Loses(r, t, tx[t], table[t])
      BY DEF Settled
    <2>2. CASE t # n
      BY <1>3, <2>1, <2>2
    <2>3. CASE t = n
      BY <1>2, <1>3, <2>1, <2>3 DEF Loses
    <2> QED
      BY <2>2, <2>3
  <1>5. Settled(r, m) /\ \A t \in Runs : m[t].planned = table[t].planned
    BY <1>3, <1>4 DEF Settled
  <1> QED
    BY <1>5 DEF m

(* What was kept stays so with the same clicks planned.                    *)
LEMMA KeptSame ==
  ASSUME NEW w, NEW o, NEW last, NEW a, NEW b, Kept(w, o, last, a),
         \A t \in Runs : b[t].planned = a[t].planned
  PROVE  Kept(w, o, last, b)
  BY DEF Kept

(* No step but the comparison's completes the job.                         *)
NotDone == job'.status = "completed" => job.status = "completed"

(* A job that was over stays so.                                           *)
LEMMA StillOver ==
  ASSUME IInv, NEW r \in Runs, Settled(r, tx'), NotDone
  PROVE  Over(job', own, tx')
  <1>1. \A t \in Runs : tx'[t].planned \subseteq tx[t].planned
    BY SettledFacts
  <1> QED
    BY <1>1 DEF IInv, Over, NotDone

(* A handler that has returned.                                            *)
LEMMA DoneFacts ==
  LET j == [Fresh EXCEPT !.pc = "done"]
  IN j \in Invocation /\ j.pc = "done" /\ j.tx = 0 /\ j.click = "no" /\ j.phase = "primary" /\ j.result = "ok"
  BY DEF Fresh, Invocation, Stages, Phases, Results, Click

LEMMA DonePart ==
  ASSUME NEW j, j.pc = "done", j.tx = 0, j.click = "no", j.phase = "primary", j.result = "ok",
         NEW w, NEW table, NEW o
  PROVE  Shaped(j) /\ Compared(j, w) /\ Clear(j, table) /\ Clean(j, table, o) /\ Below(j, table)
         /\ ~Acts(j)
  <1>1. ~Acts(j) /\ ~AtCell(j)
    BY DEF Acts, Running, AtCell
  <1> QED
    BY <1>1 DEF Shaped, Compared, Clear, Clean, Below

Undone == {"pending", "running", "paused", "blocked", "failed"}

(* The handler returns.                                                    *)
LEMMA Leaves ==
  ASSUME IInv, NEW r \in Runs, Running(inv[r]), Goes(r, [Fresh EXCEPT !.pc = "done"]),
         Settled(r, tx'), UNCHANGED <<world, own, edits, faults>>,
         latest' \in [Supports -> Verdicts], job' \in Jobs,
         Kept(world, own, latest', tx'), Over(job', own, tx')
  PROVE  IInv'
  <1> DEFINE j == [Fresh EXCEPT !.pc = "done"]
  <1>1. j \in Invocation /\ j.pc = "done" /\ j.tx = 0 /\ j.click = "no" /\ j.phase = "primary" /\ j.result = "ok"
    BY DoneFacts
  <1>2. inv' = [inv EXCEPT ![r] = j]
    BY DEF Goes
  <1> HIDE DEF j
  <1>3. /\ Shaped(j) /\ Compared(j, world) /\ Clear(j, tx') /\ Clean(j, tx', own) /\ Below(j, tx')
        /\ ~Acts(j)
    BY <1>1, DonePart
  <1> QED
    BY <1>1, <1>2, <1>3, Moves

(* It ends with what it reached, if the job is still its own to write.     *)
LEMMA EndsKeeps ==
  ASSUME IInv, NEW r \in Runs, Running(inv[r]), NEW i, i.tx = inv[r].tx, i.count \in Nat,
         NEW table, Settled(r, table), NEW status \in Undone, Ends(r, i, table, status),
         UNCHANGED <<world, own, edits, faults>>, latest' \in [Supports -> Verdicts],
         Kept(world, own, latest', table)
  PROVE  IInv' /\ NotDone
  <1>1. i.tx \in Runs \cup {0} /\ job \in Jobs
    BY DEF IInv, Typed, Invocation
  <1>2. Settled(r, tx') /\ \A t \in Runs : tx'[t].planned = table[t].planned
    <2>1. CASE i.tx = 0
      BY <2>1 DEF Ends
    <2>2. CASE i.tx # 0
      <3>1. tx' = [table EXCEPT ![i.tx] = Cancelled(table[i.tx])]
        BY <2>2 DEF Ends
      <3>2. i.tx \in Runs
        BY <1>1, <2>2
      <3> DEFINE b == Cancelled(table[i.tx])
                 m == [table EXCEPT ![i.tx] = b]
      <3>3. b \in {Completed(table[i.tx]), Cancelled(table[i.tx])}
        OBVIOUS
      <3> HIDE DEF b
      <3>4. Settled(r, m) /\ \A t \in Runs : m[t].planned = table[t].planned
        BY <3>2, <3>3, ThenClosed
      <3>5. tx' = m
        BY <3>1 DEF b
      <3> HIDE DEF m
      <3> QED
        BY <3>4, <3>5
    <2> QED
      BY <2>1, <2>2
  <1>3. job' \in Jobs /\ NotDone
    <2>1. job' = [job EXCEPT !.status = status, !.placed = i.count] \/ job' = job
      BY DEF Ends
    <2>2. CASE job' = [job EXCEPT !.status = status, !.placed = i.count]
      BY <1>1, <2>2 DEF Jobs, NotDone, Undone
    <2> QED
      BY <1>1, <2>1, <2>2 DEF NotDone
  <1>4. Kept(world, own, latest', tx')
    BY <1>2, KeptSame
  <1>5. Over(job', own, tx')
    BY <1>2, <1>3, StillOver
  <1>6. Goes(r, [Fresh EXCEPT !.pc = "done"])
    BY DEF Ends
  <1> QED
    BY <1>2, <1>3, <1>4, <1>5, <1>6, Leaves

-----------------------------------------------------------------------------
(***************************************************************************)
(* A unit: from the verdict on a click to what the handler does about it.  *)
(***************************************************************************)
(* The handler goes on, and no click is in question.                       *)
LEMMA GoesOn ==
  ASSUME IInv, NEW r \in Runs, NEW j \in Invocation, Running(inv[r]), Goes(r, j),
         inv[r].click = "no", j.click = "no", UNCHANGED <<world, own, tx, latest, edits, faults>>,
         job' \in Jobs, NotDone, Shaped(j), Compared(j, world),
         j.tx = inv[r].tx, j.aborted = inv[r].aborted,
         inv[r].pc = "scan" => j.pc = "scan",
         j.result = "ok" => inv[r].result = "ok" /\ Standing(inv[r]) \subseteq Standing(j),
         j.pc = "cleanup" => inv[r].result = "ok"
  PROVE  IInv' /\ NotDone
  <1> DEFINE i == inv[r]
  <1>1. Part(r, i, tx, world, own) /\ i \in Invocation
    BY DEF IInv, Typed
  <1>2. Acts(j) => Acts(i)
    BY DEF Acts
  <1>3. i.click = "no" /\ j.tx = i.tx /\ (i.pc = "scan" => j.pc = "scan")
        /\ (j.result = "ok" => i.result = "ok" /\ Standing(i) \subseteq Standing(j))
        /\ (j.pc = "cleanup" => i.result = "ok")
    OBVIOUS
  <1>4. Running(i) /\ Goes(r, j) /\ inv' = [inv EXCEPT ![r] = j]
    BY DEF Goes
  <1>5. tx' = tx /\ latest' = latest
    OBVIOUS
  <1>6. Settled(r, tx')
    BY <1>5, SameSettled DEF IInv
  <1>7. Kept(world, own, latest', tx') /\ latest' \in [Supports -> Verdicts]
    BY <1>5 DEF IInv, Typed
  <1>8. Over(job', own, tx')
    BY <1>6, StillOver
  <1> HIDE DEF i
  <1>9. Clear(j, tx)
    BY <1>1, <1>2, <1>3 DEF Part, Clear
  <1>10. i.result = "ok" /\ Acts(i) /\ i.pc # "scan" =>
           own \subseteq Standing(i) /\ \A t \in Runs : tx[t].planned = {}
    BY <1>1, <1>3 DEF Part, Clean, InHand
  <1>11. Clean(j, tx, own)
    BY <1>2, <1>3, <1>10 DEF Clean
  <1>12. Below(j, tx)
    <2>1. SUFFICES ASSUME Acts(j), j.pc = "cleanup"
                   PROVE  tx[j.tx].planned = {}
      BY DEF Below
    <2>2. j.tx \in Runs
      <3>1. j.tx # 0
        BY <2>1 DEF Shaped
      <3> QED
        BY <3>1 DEF Invocation
    <2> QED
      BY <1>2, <1>3, <1>10, <2>1, <2>2
  <1>13. Clear(j, tx') /\ Clean(j, tx', own) /\ Below(j, tx')
    BY <1>5, <1>9, <1>11, <1>12
  <1>14. IInv'
    BY <1>2, <1>4, <1>6, <1>7, <1>8, <1>13, Moves DEF i
  <1> QED
    BY <1>14

-----------------------------------------------------------------------------
(* Between a click's verdict and what the handler does about it.           *)
Midway(r, i, table) ==
  /\ i \in Invocation /\ AtCell(i) /\ i.todo # {} /\ i.stood <= Len(Column[Current(i)])
  /\ i.tx = inv[r].tx /\ i.tx # 0 /\ i.aborted = inv[r].aborted /\ i.phase \in {"primary", "repair"}
  /\ Settled(r, table) /\ Kept(world, own, latest', table)
  /\ Acts(i) => \A t \in Runs : table[t].planned # {} => t = i.tx

Between(r, i, table) ==
  /\ Midway(r, i, table)
  /\ Acts(i) /\ i.result = "ok" => own \subseteq Standing(i) /\ \A t \in Runs : table[t].planned = {}

(* What still has to come down was not clicked.                            *)
Untouched(i, table) ==
  Acts(i) => \A p \in table[i.tx].planned : \A l \in 1 .. i.stood : p[1] # Column[Current(i)][l]

(* executeUnit() returns: the handler ends, goes on or compares again.     *)
LEMMA ReturnsKeeps ==
  ASSUME IInv, NEW r \in Runs, Running(inv[r]), NEW i, NEW table, Between(r, i, table),
         i.result = "ok" => i.stood = 0, Returns(r, i, table),
         UNCHANGED <<world, own, edits, faults>>, latest' \in [Supports -> Verdicts]
  PROVE  IInv' /\ NotDone
  <1> DEFINE n == i.count + IF i.confirmed THEN 1 ELSE 0
             j == [i EXCEPT !.count = n, !.click = "no", !.confirmed = FALSE]
  <1>1. /\ i \in Invocation /\ AtCell(i) /\ i.todo # {} /\ i.stood <= Len(Column[Current(i)])
        /\ i.tx = inv[r].tx /\ i.tx # 0 /\ i.aborted = inv[r].aborted
        /\ i.phase \in {"primary", "repair"}
        /\ Settled(r, table) /\ Kept(world, own, latest', table)
    BY DEF Between, Midway
  <1>2. n \in Nat
    BY <1>1 DEF Invocation
  <1> HIDE DEF n
  <1>3. /\ j \in Invocation /\ j.tx = i.tx /\ j.count \in Nat /\ j.click = "no"
        /\ j.aborted = i.aborted /\ j.phase = i.phase /\ j.result = i.result
        /\ j.todo = i.todo /\ j.stood = i.stood /\ j.propped = i.propped
    BY <1>1, <1>2 DEF Invocation, Click
  <1>4. CASE i.result = "interrupted" \/ (i.confirmed /\ ~Writable(i))
    <2>1. Ends(r, j, table, "blocked")
      BY <1>4 DEF Returns, n
    <2> QED
      BY <1>1, <1>3, <2>1, EndsKeeps DEF Undone
  <1>5. CASE ~(i.result = "interrupted" \/ (i.confirmed /\ ~Writable(i)))
             /\ i.result # "ok" /\ i.phase = "primary"
    <2>1. Ends(r, j, table, i.result)
      BY <1>5 DEF Returns, n
    <2>2. i.result \in Undone
      BY <1>1, <1>5 DEF Invocation, Results, Undone
    <2> QED
      BY <1>1, <1>3, <2>1, <2>2, EndsKeeps
  <1>6. CASE ~(i.result = "interrupted" \/ (i.confirmed /\ ~Writable(i)))
             /\ ~(i.result # "ok" /\ i.phase = "primary")
    <2> DEFINE k == IF i.result = "ok" THEN [j EXCEPT !.pc = "unit", !.todo = @ \ {Current(i)}]
                    ELSE Looks(j, "verify", "report")
               row == IF i.confirmed /\ Writable(i) THEN [job EXCEPT !.placed = n] ELSE job
    <2>1. Goes(r, k) /\ job' = row /\ tx' = table
      BY <1>6 DEF Returns, n
    <2>2. job' \in Jobs /\ NotDone
      BY <1>2, <2>1 DEF IInv, Typed, Jobs, NotDone
    <2>3. Over(job', own, tx')
      BY <1>1, <2>1, <2>2, StillOver
    <2> HIDE DEF j
    <2>4. CASE i.result = "ok"
      <3>1. k = [j EXCEPT !.pc = "unit", !.todo = j.todo \ {Current(i)}]
        BY <2>4
      <3> HIDE DEF k
      <3>2. /\ k \in Invocation /\ k.pc = "unit" /\ k.click = "no" /\ k.tx = i.tx
            /\ k.aborted = i.aborted /\ k.phase = i.phase /\ k.result = "ok"
        BY <1>3, <2>4, <3>1 DEF Invocation, Stages
      <3>3. Shaped(k) /\ Compared(k, world) /\ Below(k, tx')
        BY <1>1, <3>2 DEF Shaped, AtCell, Compared, Below
      <3>4. Acts(k) => Acts(i)
        BY <1>1, <3>2 DEF Acts, Running, AtCell
      <3>5. Acts(i) => own = {} /\ \A t \in Runs : table[t].planned = {}
        <4>1. Standing(i) = {}
          <5>1. i.stood = 0
            BY <2>4
          <5> QED
            BY <5>1 DEF Standing
        <4> QED
          BY <2>4, <4>1 DEF Between
      <3>6. Clear(k, tx') /\ Clean(k, tx', own)
        BY <2>1, <3>4, <3>5 DEF Clear, Clean
      <3>7. inv' = [inv EXCEPT ![r] = k]
        BY <2>1 DEF Goes
      <3>8. Acts(k) => Acts(inv[r])
        BY <1>1, <3>2 DEF Acts
      <3>9. IInv'
        BY <1>1, <2>1, <2>2, <2>3, <3>2, <3>3, <3>6, <3>7, <3>8, Moves
      <3> QED
        BY <2>2, <3>9
    <2>5. CASE i.result # "ok"
      <3>1. k = Looks(j, "verify", "report")
        BY <2>5
      <3> HIDE DEF k
      <3>2. k = [j EXCEPT !.pc = "verify", !.phase = "report", !.pos = 1, !.count = 0,
                          !.issues = {}, !.since = {}, !.todo = {}]
        BY <3>1 DEF Looks
      <3>3. /\ k \in Invocation /\ k.pc = "verify" /\ k.click = "no" /\ k.tx = i.tx /\ k.pos = 1
            /\ k.aborted = i.aborted /\ k.phase = "report" /\ k.result = i.result
        BY <1>3, <3>2 DEF Invocation, Stages, Phases
      <3>4. i.result \in {"blocked", "failed"}
        BY <1>1, <1>6, <2>5 DEF Invocation, Results
      <3>5. Shaped(k) /\ Below(k, tx')
        BY <1>1, <3>3, <3>4 DEF Shaped, AtCell, Below
      <3>6. Compared(k, world)
        BY <3>3, Numbers DEF Compared
      <3>7. Acts(k) => Acts(i)
        BY <1>1, <3>3 DEF Acts, Running, AtCell
      <3>8. Clear(k, tx') /\ Clean(k, tx', own)
        BY <2>1, <3>3, <3>4, <3>7 DEF Clear, Clean, Between, Midway
      <3>9. inv' = [inv EXCEPT ![r] = k]
        BY <2>1 DEF Goes
      <3>10. Acts(k) => Acts(inv[r])
        BY <1>1, <3>3 DEF Acts
      <3>11. IInv'
        BY <1>1, <2>1, <2>2, <2>3, <3>3, <3>5, <3>6, <3>8, <3>9, <3>10, Moves
      <3> QED
        BY <2>2, <3>11
    <2> QED
      BY <2>4, <2>5
  <1> QED
    BY <1>4, <1>5, <1>6

(* Nothing but the cell and the attempt counts.                            *)
LEMMA SameMidway ==
  ASSUME NEW r \in Runs, NEW i, NEW table, Midway(r, i, table), NEW j \in Invocation,
         SameCell(i, j), j.tx = i.tx, j.aborted = i.aborted, j.phase = i.phase
  PROVE  /\ Midway(r, j, table) /\ Current(j) = Current(i) /\ Acts(j) = Acts(i)
         /\ j.stood = i.stood /\ Standing(j) = Standing(i)
         /\ Untouched(i, table) => Untouched(j, table)
  <1>1. Current(j) = Current(i) /\ AtCell(j) = AtCell(i) /\ Standing(j) = Standing(i)
    BY SameCellSame
  <1>2. Acts(j) = Acts(i)
    BY DEF SameCell, Acts, Running
  <1> QED
    BY <1>1, <1>2 DEF Midway, SameCell, Untouched

(* A failure asks for no column to be down.                                *)
LEMMA BetweenResult ==
  ASSUME NEW r \in Runs, NEW i, NEW table, Midway(r, i, table), NEW v \in Results \ {"ok"}
  PROVE  /\ Between(r, [i EXCEPT !.result = v], table) /\ [i EXCEPT !.result = v].result # "ok"
         /\ Untouched(i, table) => Untouched([i EXCEPT !.result = v], table)
  <1> DEFINE j == [i EXCEPT !.result = v]
  <1>1. i \in Invocation
    BY DEF Midway
  <1>2. /\ j \in Invocation /\ SameCell(i, j) /\ j.tx = i.tx /\ j.aborted = i.aborted
        /\ j.phase = i.phase /\ j.result # "ok"
    BY <1>1 DEF Invocation, SameCell
  <1> HIDE DEF j
  <1>3. Midway(r, j, table) /\ (Untouched(i, table) => Untouched(j, table))
    BY <1>2, SameMidway
  <1>4. Between(r, j, table) /\ j.result # "ok" /\ (Untouched(i, table) => Untouched(j, table))
    BY <1>2, <1>3 DEF Between
  <1> QED
    BY <1>4 DEF j

(* The column comes down, or the unit is over.                             *)
LEMMA TakesDownKeeps ==
  ASSUME IInv, NEW r \in Runs, Running(inv[r]), NEW i, NEW table, Between(r, i, table),
         Untouched(i, table), TakesDown(r, i, table),
         UNCHANGED <<world, own, edits, faults>>, latest' \in [Supports -> Verdicts]
  PROVE  IInv' /\ NotDone
  <1>1. /\ i \in Invocation /\ AtCell(i) /\ i.todo # {} /\ i.stood <= Len(Column[Current(i)])
        /\ i.tx = inv[r].tx /\ i.tx # 0 /\ i.aborted = inv[r].aborted
        /\ i.phase \in {"primary", "repair"}
        /\ Settled(r, table) /\ Kept(world, own, latest', table)
    BY DEF Between, Midway
  <1>2. CASE i.aborted
    <2> DEFINE j == [i EXCEPT !.result = "interrupted"]
    <2>1. Returns(r, j, table)
      BY <1>2 DEF TakesDown
    <2>2. Between(r, j, table)
      BY BetweenResult DEF Results, Between
    <2>3. j.result # "ok"
      BY <1>1 DEF Invocation
    <2> HIDE DEF j
    <2> QED
      BY <2>1, <2>2, <2>3, ReturnsKeeps
  <1>3. CASE ~i.aborted /\ i.stood = 0
    <2> DEFINE v == IF i.aborted THEN "interrupted" ELSE i.result
               j == [i EXCEPT !.result = v]
    <2>1. Returns(r, j, table)
      BY <1>3 DEF TakesDown
    <2>2. j = i
      BY <1>1, <1>3 DEF Invocation
    <2> HIDE DEF j
    <2> QED
      BY <1>3, <2>1, <2>2, ReturnsKeeps
  <1>4. CASE ~i.aborted /\ i.stood # 0
    <2> DEFINE j == [i EXCEPT !.pc = "cleanup", !.click = "no"]
    <2>1. Goes(r, j) /\ job' = job /\ tx' = table
      BY <1>4 DEF TakesDown
    <2>2. /\ j \in Invocation /\ j.pc = "cleanup" /\ j.click = "no" /\ j.tx = i.tx
          /\ j.aborted = i.aborted /\ j.phase = i.phase /\ j.result = i.result
          /\ j.todo = i.todo /\ j.stood = i.stood
      BY <1>1 DEF Invocation, Stages, Click
    <2> HIDE DEF j
    <2>3. Current(j) = Current(i) /\ AtCell(j)
      BY <2>2 DEF Current, AtCell
    <2>4. Standing(j) = Standing(i)
      BY <1>1, <2>2, <2>3 DEF Standing
    <2>5. Shaped(j) /\ Compared(j, world)
      BY <1>1, <2>2, <2>3 DEF Shaped, Compared
    <2>6. Acts(j) => Acts(i)
      BY <1>1, <2>2 DEF Acts, Running, AtCell
    <2>7. Clear(j, table) /\ Clean(j, table, own) /\ Below(j, table)
      BY <2>2, <2>3, <2>4, <2>6 DEF Clear, Clean, Below, Between, Midway, Untouched
    <2>8. NotDone /\ job' \in Jobs
      BY <2>1 DEF NotDone, IInv, Typed
    <2>9. Over(job', own, tx')
      BY <1>1, <2>1, <2>8, StillOver
    <2>10. inv' = [inv EXCEPT ![r] = j]
      BY <2>1 DEF Goes
    <2>11. Acts(j) => Acts(inv[r])
      BY <1>1, <2>2 DEF Acts
    <2>12. IInv'
      BY <1>1, <2>1, <2>2, <2>5, <2>7, <2>8, <2>9, <2>10, <2>11, Moves
    <2> QED
      BY <2>8, <2>12
  <1> QED
    BY <1>2, <1>3, <1>4

LEMMA FailsKeeps ==
  ASSUME IInv, NEW r \in Runs, Running(inv[r]), NEW i, NEW table, Midway(r, i, table),
         Untouched(i, table), NEW v \in Results \ {"ok"}, Fails(r, i, v, table),
         UNCHANGED <<world, own, edits, faults>>, latest' \in [Supports -> Verdicts]
  PROVE  IInv' /\ NotDone
  <1> DEFINE j == [i EXCEPT !.result = v]
  <1>1. Between(r, j, table) /\ Untouched(j, table)
    BY BetweenResult
  <1>2. TakesDown(r, j, table)
    BY DEF Fails
  <1> HIDE DEF j
  <1> QED
    BY <1>1, <1>2, TakesDownKeeps

-----------------------------------------------------------------------------
(***************************************************************************)
(* Looks, and the attempt that is opened.                                  *)
(***************************************************************************)
(* A handler ends where no click is in question.                           *)
LEMMA EndsHere ==
  ASSUME IInv, NEW r \in Runs, Running(inv[r]), NEW status \in Undone,
         Ends(r, inv[r], tx, status), UNCHANGED <<world, own, latest, edits, faults>>
  PROVE  IInv' /\ NotDone
  <1> DEFINE i == inv[r]
  <1>1. i.tx = inv[r].tx /\ i.count \in Nat
    BY DEF IInv, Typed, Invocation
  <1>2. Settled(r, tx)
    BY SameSettled DEF IInv
  <1>3. Kept(world, own, latest', tx) /\ latest' \in [Supports -> Verdicts]
    BY DEF IInv, Typed
  <1>4. Ends(r, i, tx, status)
    OBVIOUS
  <1> HIDE DEF i
  <1> QED
    BY <1>1, <1>2, <1>3, <1>4, EndsKeeps

(* Away from a cell no click is out and no column is up.                   *)
LEMMA NoClick ==
  ASSUME IInv, NEW r \in Runs, ~AtCell(inv[r])
  PROVE  inv[r].click = "no" /\ Standing(inv[r]) = {}
  BY DEF IInv, Part, Shaped, Standing

(* One batch of a look.                                                    *)
LEMMA SeenNumbers ==
  ASSUME NEW i \in Invocation
  PROVE  /\ Cardinality({u \in Seen(i) : world[u] = "unit"}) \in Nat
         /\ i.pos + Batch \in Nat /\ i.pos + Batch # 0
         /\ \A u \in Units : u < i.pos + Batch => u < i.pos \/ u \in Seen(i)
         /\ \A u \in Seen(i) : u \in Units /\ ~(u < i.pos)
  <1>1. i.pos \in Nat /\ Batch \in Nat /\ Batch # 0
    BY BuildAssumption DEF Invocation
  <1>2. {u \in Seen(i) : world[u] = "unit"} \subseteq Units
    BY DEF Seen
  <1>3. IsFiniteSet({u \in Seen(i) : world[u] = "unit"})
    BY <1>2, BuildAssumption, FS_Subset
  <1>4. Cardinality({u \in Seen(i) : world[u] = "unit"}) \in Nat
    BY <1>3, FS_CardinalityType
  <1>5. ASSUME NEW u \in Units
        PROVE  /\ u < i.pos + Batch => u < i.pos \/ u \in Seen(i)
               /\ u \in Seen(i) => ~(u < i.pos)
    <2>1. u \in Nat
      BY Numbers
    <2> QED
      BY <1>1, <2>1 DEF Seen
  <1>6. Seen(i) \subseteq Units
    BY DEF Seen
  <1>7. i.pos + Batch \in Nat /\ i.pos + Batch # 0
    BY <1>1
  <1> QED
    BY <1>4, <1>5, <1>6, <1>7

(* A look sees what it passes, or finds an issue.                          *)
LEMMA LookedFacts ==
  ASSUME NEW i \in Invocation
  PROVE  LET k == Looked(i)
         IN /\ k \in Invocation /\ k.pc = i.pc /\ k.phase = i.phase /\ k.aborted = i.aborted
            /\ k.tx = i.tx /\ k.stood = i.stood /\ k.click = i.click /\ k.result = i.result
            /\ k.count \in Nat
            /\ Compared(i, world) => Compared(k, world)
  <1> DEFINE seen == Seen(i)
             pos == i.pos + Batch
             n == i.count + Cardinality({u \in seen : world[u] = "unit"})
             found == {IF world[u] = "air" THEN "missing" ELSE "wrong" :
                         u \in {v \in seen : world[v] # "unit"}}
             todo == i.todo \cup {u \in seen : world[u] = "air"}
             issues == i.issues \cup found
             since == i.since \ seen
             k == Looked(i)
  <1>1. /\ Cardinality({u \in seen : world[u] = "unit"}) \in Nat /\ pos \in Nat /\ pos # 0
        /\ \A u \in Units : u < pos => u < i.pos \/ u \in seen
        /\ \A u \in seen : u \in Units /\ ~(u < i.pos)
    BY SeenNumbers
  <1>2. n \in Nat
    BY <1>1 DEF Invocation
  <1>3. found \subseteq {"missing", "wrong"}
    OBVIOUS
  <1>4. \A u \in seen : world[u] # "unit" => found # {}
    OBVIOUS
  <1>5. k = [i EXCEPT !.pos = pos, !.count = n, !.issues = issues, !.todo = todo, !.since = since]
    BY DEF Looked
  <1> HIDE DEF k, n, found, pos, seen
  <1>6. todo \subseteq Units /\ issues \subseteq {"missing", "wrong"} /\ since \subseteq Units
    BY <1>1, <1>3 DEF Invocation
  <1> HIDE DEF todo
  <1>7. /\ k \in Invocation /\ k.pc = i.pc /\ k.phase = i.phase /\ k.aborted = i.aborted
        /\ k.tx = i.tx /\ k.stood = i.stood /\ k.click = i.click /\ k.result = i.result
        /\ k.count = n /\ k.pos = pos /\ k.issues = issues /\ k.since = since
    BY <1>1, <1>2, <1>5, <1>6 DEF Invocation
  <1>8. Compared(i, world) => Compared(k, world)
    <2>1. SUFFICES ASSUME Compared(i, world), k.pc = "verify", NEW u \in Units, u < k.pos
                   PROVE  world[u] = "unit" \/ u \in k.since \/ k.issues # {}
      BY <1>1, <1>7 DEF Compared
    <2>2. CASE u < i.pos
      <3>1. world[u] = "unit" \/ u \in i.since \/ i.issues # {}
        BY <1>7, <2>1, <2>2 DEF Compared
      <3> QED
        BY <1>1, <1>7, <2>2, <3>1
    <2>3. CASE u \in seen
      BY <1>4, <1>7, <2>3
    <2> QED
      BY <1>1, <1>7, <2>1, <2>2, <2>3
  <1> QED
    BY <1>2, <1>7, <1>8 DEF k

(* verifyBuild(), the scan and collectRepairCandidates(), batch by batch.  *)
LEMMA LookKeeps ==
  ASSUME IInv, NEW r \in Runs, Look(r)
  PROVE  IInv' /\ NotDone
  <1> DEFINE i == inv[r]
  <1>1. i.pc \in {"scan", "verify", "collect"} /\ i \in Invocation /\ Part(r, i, tx, world, own)
    BY DEF Look, IInv, Typed
  <1>2. Running(i) /\ ~AtCell(i) /\ i.phase \in Phases
    BY <1>1 DEF Running, AtCell, Invocation
  <1>3. i.click = "no" /\ Standing(i) = {}
    BY <1>2, NoClick
  <1>4. UNCHANGED <<world, own, latest, edits, faults>>
    BY DEF Look
  <1>5. CASE Ends(r, i, tx, "blocked") \/ Ends(r, i, tx, "failed")
    <2>1. "blocked" \in Undone /\ "failed" \in Undone
      BY DEF Undone
    <2> QED
      BY <1>2, <1>4, <1>5, <2>1, EndsHere
  <1>6. CASE Goes(r, LookedFor(i)) /\ UNCHANGED <<job, tx>>
    <2> DEFINE k == Looked(i)
               m == LookedFor(i)
    <2>1. /\ k \in Invocation /\ k.pc = i.pc /\ k.phase = i.phase /\ k.aborted = i.aborted
          /\ k.tx = i.tx /\ k.stood = i.stood /\ k.click = i.click /\ k.result = i.result
          /\ Compared(i, world) => Compared(k, world)
      BY <1>1, LookedFacts
    <2>2. m = CASE i.pc = "scan" -> k [] i.pc = "verify" -> [k EXCEPT !.todo = {}]
                [] i.pc = "collect" -> [k EXCEPT !.count = i.count]
      BY DEF LookedFor
    <2> HIDE DEF k, m
    <2>3. i.count \in Nat
      BY <1>1 DEF Invocation
    <2>4. /\ m \in Invocation /\ m.pc = i.pc /\ m.phase = i.phase /\ m.aborted = i.aborted
          /\ m.tx = i.tx /\ m.click = "no" /\ m.result = i.result
          /\ m.pos = k.pos /\ m.since = k.since /\ m.issues = k.issues
      <3>1. CASE i.pc = "scan"
        BY <1>3, <2>1, <2>2, <3>1
      <3>2. CASE i.pc = "verify"
        <4>1. m = [k EXCEPT !.todo = {}]
          BY <2>2, <3>2
        <4> QED
          BY <1>3, <2>1, <4>1 DEF Invocation
      <3>3. CASE i.pc = "collect"
        <4>1. m = [k EXCEPT !.count = i.count]
          BY <2>2, <3>3
        <4> QED
          BY <1>3, <2>1, <2>3, <4>1 DEF Invocation
      <3> QED
        BY <1>1, <3>1, <3>2, <3>3
    <2>5. Shaped(m)
      BY <1>1, <1>2, <2>4 DEF Part, Shaped, AtCell
    <2>6. Compared(m, world)
      BY <1>1, <2>1, <2>4 DEF Part, Compared
    <2>7. job' \in Jobs /\ NotDone /\ tx' = tx /\ latest' = latest /\ Goes(r, m)
      BY <1>4, <1>6 DEF IInv, Typed, NotDone, m
    <2>8. Running(m) /\ m.pc # "cleanup"
      BY <1>1, <2>4 DEF Running
    <2> QED
      BY <1>2, <1>3, <1>4, <2>4, <2>5, <2>6, <2>7, <2>8, GoesOn
  <1> QED
    BY <1>5, <1>6 DEF Look, Interrupted

-----------------------------------------------------------------------------
(* An attempt is opened where no click is open.                            *)
LEMMA NothingPlanned ==
  ASSUME IInv, NEW i, ~Uncertain(i)
  PROVE  \A t \in Runs : tx[t].planned = {}
  BY DEF IInv, Resolved, Uncertain, Open

BegunWell(r, n, b) ==
  /\ n \in Runs /\ b \in [Runs -> Attempt] /\ \A t \in Runs : b[t].planned = {}
  /\ b[n].status = "open"
  /\ (tx[n].status = "none" /\ n = r) \/ (tx[n].status = "open" /\ ~tx[n].used)
  /\ \A t \in Runs \ {n} : /\ b[t].used = tx[t].used
                           /\ b[t].status = "none" <=> tx[t].status = "none"

(* A fresh attempt, and the others closed or as they were.                 *)
LEMMA BegunFacts ==
  ASSUME IInv, NEW r \in Runs, NEW i, i = inv[r], i.tx = 0, i.pc # "done", ~Uncertain(i)
  PROVE  BegunWell(r, Journal(r, i), Begun(r, i))
  <1> DEFINE b == Begun(r, i)
             n == Journal(r, i)
             fresh == [NoTx EXCEPT !.status = "open", !.plan = i.plan]
  <1>1. \A t \in Runs : tx[t].planned = {} /\ tx[t] \in Attempt
    BY NothingPlanned DEF IInv, Typed
  <1>2. n = r \/ n \in Reusable(i)
    BY JournalIn
  <1>3. tx[r].status = "none"
    BY DEF IInv, Part, Journaled
  <1>4. n \in Runs /\ ((tx[n].status = "none" /\ n = r) \/ (tx[n].status = "open" /\ ~tx[n].used))
    <2> HIDE DEF n
    <2>1. CASE n = r
      BY <1>3, <2>1
    <2>2. CASE n \in Reusable(i)
      BY <2>2 DEF Reusable, Open
    <2> QED
      BY <1>2, <2>1, <2>2
  <1>5. i.plan \in Plans \cup {0}
    BY DEF IInv, Typed, Invocation
  <1>6. fresh \in Attempt /\ fresh.status = "open" /\ fresh.planned = {}
    BY <1>5 DEF NoTx, Attempt
  <1>7. b = [t \in Runs |-> IF t = n THEN fresh ELSE IF t \in Open THEN Completed(tx[t]) ELSE tx[t]]
    BY DEF Begun
  <1> HIDE DEF b, n, fresh
  <1>8. b[n] = fresh
    BY <1>4, <1>7
  <1>9. ASSUME NEW t \in Runs, t # n
        PROVE  /\ b[t] \in Attempt /\ b[t].planned = {} /\ b[t].used = tx[t].used
               /\ b[t].status = "none" <=> tx[t].status = "none"
    <2>1. b[t] = tx[t] \/ b[t] = Completed(tx[t])
      BY <1>7, <1>9
    <2>2. CASE b[t] = tx[t]
      BY <1>1, <2>2
    <2>3. CASE b[t] = Completed(tx[t])
      <3> DEFINE c == Completed(tx[t])
      <3>1. /\ c \in Attempt /\ c.used = tx[t].used /\ c.planned = tx[t].planned
            /\ \/ c.status = tx[t].status
               \/ tx[t].status = "open" /\ c.planned = {} /\ c.status \in {"completed", "ended"}
        BY <1>1, ClosedFacts
      <3> HIDE DEF c
      <3>2. b[t] = c
        BY <2>3 DEF c
      <3> QED
        BY <1>1, <3>1, <3>2
    <2> QED
      BY <2>1, <2>2, <2>3
  <1>10. b \in [Runs -> Attempt]
    <2>1. b = [t \in Runs |-> b[t]]
      BY <1>7
    <2>2. \A t \in Runs : b[t] \in Attempt
      BY <1>6, <1>8, <1>9
    <2> QED
      BY <2>1, <2>2
  <1> QED
    BY <1>4, <1>6, <1>8, <1>9, <1>10 DEF b, n, BegunWell

(* The handler takes its attempt: nobody else's click is in it.            *)
LEMMA Begins ==
  ASSUME IInv, NEW r \in Runs, NEW i, i = inv[r], Acts(i), i.tx = 0, ~Uncertain(i), own = {},
         tx' = Begun(r, i), NEW j \in Invocation, inv' = [inv EXCEPT ![r] = j],
         UNCHANGED <<world, own, latest, edits, faults>>, job' \in Jobs, job'.status # "completed",
         j.tx = Journal(r, i), j.click = "no", Shaped(j), Compared(j, world)
  PROVE  IInv' /\ NotDone
  <1> DEFINE n == Journal(r, i)
  <1>0. i.pc # "done"
    BY DEF Acts, Running
  <1>1. /\ n \in Runs /\ tx' \in [Runs -> Attempt] /\ \A t \in Runs : tx'[t].planned = {}
        /\ tx'[n].status = "open"
        /\ (tx[n].status = "none" /\ n = r) \/ (tx[n].status = "open" /\ ~tx[n].used)
        /\ \A t \in Runs \ {n} : /\ tx'[t].used = tx[t].used
                                 /\ tx'[t].status = "none" <=> tx[t].status = "none"
    <2>1. BegunWell(r, n, tx')
      BY <1>0, BegunFacts
    <2> HIDE DEF n
    <2> QED
      BY <2>1 DEF BegunWell
  <1>2. inv' \in [Runs -> Invocation] /\ inv'[r] = j /\ (\A q \in Runs \ {r} : inv'[q] = inv[q])
        /\ j.tx = n
    BY DEF IInv, Typed
  <1> HIDE DEF n
  <1>3. Typed' /\ Resolved(tx') /\ Kept(world, own, latest, tx') /\ Over(job', own, tx')
    BY <1>1, <1>2 DEF IInv, Typed, Resolved, Kept, Over
  <1>4. Part(r, j, tx', world, own)
    <2>1. Clear(j, tx') /\ Clean(j, tx', own)
      BY <1>1 DEF Clear, Clean
    <2>2. Below(j, tx') /\ Journaled(r, j, tx')
      BY <1>1, <1>2, Numbers DEF Below, Journaled
    <2> QED
      BY <2>1, <2>2 DEF Part
  <1>5. ASSUME NEW q \in Runs, q # r
        PROVE  inv[q].click # "no" => inv[q].tx # n
    <2>1. Journaled(q, inv[q], tx)
      BY DEF IInv, Part
    <2> QED
      BY <1>1, <2>1, Numbers DEF Journaled
  <1>6. ASSUME NEW q \in Runs, q # r
        PROVE  Part(q, inv[q], tx', world, own)
    <2> DEFINE k == inv[q]
    <2>1. Part(q, k, tx, world, own) /\ k.tx \in Runs \cup {0}
      BY DEF IInv, Typed, Invocation
    <2>2. ~Acts(k)
      BY <1>6 DEF IInv, OneActs
    <2>3. k.click # "no" => k.tx # n
      BY <1>5, <1>6
    <2>4. k.click # "no" => k.tx # 0
      BY <2>1 DEF Part, Shaped, AtCell
    <2>5. k.click # "sent"
      <3>1. \A t \in Runs : tx[t].planned = {}
        BY NothingPlanned
      <3> QED
        BY <2>1, <2>4, <3>1 DEF Part, Journaled
    <2> HIDE DEF k
    <2>6. k.tx # 0 => tx'[k.tx].status # "none"
      BY <1>1, <2>1 DEF Part, Journaled
    <2>7. k.tx = 0 /\ k.pc # "done" => tx'[q].status = "none"
      BY <1>1, <1>6, <2>1 DEF Part, Journaled
    <2>8. k.click # "no" => tx'[k.tx].used
      BY <1>1, <2>1, <2>3, <2>4 DEF Part, Journaled
    <2>9. Journaled(q, k, tx')
      BY <2>5, <2>6, <2>7, <2>8 DEF Journaled
    <2>10. Clear(k, tx') /\ Clean(k, tx', own) /\ Below(k, tx')
      BY <2>2 DEF Clear, Clean, Below
    <2> QED
      BY <2>1, <2>9, <2>10 DEF Part, k
  <1>7. OneActs(inv')
    <2>1. ASSUME NEW p \in Runs, NEW q \in Runs, p # q
          PROVE  /\ ~Acts(inv'[p]) \/ ~Acts(inv'[q])
                 /\ Acts(inv'[q]) /\ inv'[q].tx # 0 /\ inv'[p].tx = inv'[q].tx => inv'[p].click = "no"
                 /\ inv'[p].click # "no" /\ inv'[q].click # "no" => inv'[p].tx # inv'[q].tx
      <3>1. /\ ~Acts(inv[p]) \/ ~Acts(inv[q])
            /\ Acts(inv[q]) /\ inv[q].tx # 0 /\ inv[p].tx = inv[q].tx => inv[p].click = "no"
            /\ inv[p].click # "no" /\ inv[q].click # "no" => inv[p].tx # inv[q].tx
        BY <2>1 DEF IInv, OneActs
      <3>2. CASE p # r /\ q # r
        BY <1>2, <3>1, <3>2
      <3>3. CASE p = r
        <4>1. ~Acts(inv[q]) /\ inv'[q] = inv[q] /\ inv'[p].click = "no"
          BY <1>2, <2>1, <3>1, <3>3
        <4> QED
          BY <4>1
      <3>4. CASE q = r
        <4>1. ~Acts(inv[p]) /\ inv'[p] = inv[p] /\ inv'[q].click = "no" /\ inv'[q].tx = n
          BY <1>2, <2>1, <3>1, <3>4
        <4>2. inv[p].click # "no" => inv[p].tx # n
          BY <1>5, <2>1, <3>4
        <4> QED
          BY <4>1, <4>2
      <3> QED
        BY <3>2, <3>3, <3>4
    <2> QED
      BY <2>1 DEF OneActs
  <1>8. ASSUME NEW q \in Runs
        PROVE  Part(q, inv'[q], tx', world, own)
    BY <1>2, <1>4, <1>6
  <1>9. IInv'
    BY <1>3, <1>7, <1>8 DEF IInv
  <1> QED
    BY <1>9 DEF NotDone

-----------------------------------------------------------------------------
(***************************************************************************)
(* Between the looks.                                                      *)
(***************************************************************************)
(* Where history and world show no support, none of the job's own stands.  *)
LEMMA NoResidue ==
  ASSUME IInv, Residue = {}, \A t \in Runs : tx[t].planned = {}
  PROVE  own = {}
  <1>1. SUFFICES ASSUME NEW c \in own
                 PROVE  FALSE
    OBVIOUS
  <1>2. world[c] = "prop" /\ latest[c] \in {"raised", "left"} /\ c \in Supports
    BY DEF IInv, Kept, Typed
  <1> QED
    BY <1>2 DEF Residue

(* A look begins at the first unit.                                        *)
LEMMA LooksFacts ==
  ASSUME NEW i \in Invocation, NEW pc \in Stages, NEW phase \in Phases
  PROVE  LET k == Looks(i, pc, phase)
         IN /\ k \in Invocation /\ k.pc = pc /\ k.phase = phase /\ k.aborted = i.aborted
            /\ k.tx = i.tx /\ k.click = i.click /\ k.result = i.result /\ k.pos = 1
            /\ Compared(k, world)
  <1> DEFINE k == Looks(i, pc, phase)
  <1>1. k = [i EXCEPT !.pc = pc, !.phase = phase, !.pos = 1, !.count = 0, !.issues = {},
                      !.since = {}, !.todo = {}]
    BY DEF Looks
  <1> HIDE DEF k
  <1>2. /\ k \in Invocation /\ k.pc = pc /\ k.phase = phase /\ k.aborted = i.aborted
        /\ k.tx = i.tx /\ k.click = i.click /\ k.result = i.result /\ k.pos = 1
    BY <1>1 DEF Invocation
  <1>3. Compared(k, world)
    BY <1>2, Numbers DEF Compared
  <1> QED
    BY <1>2, <1>3 DEF k

(* A step that begins another look, at the end of a look or of the work.   *)
LEMMA LooksKeeps ==
  ASSUME IInv, NEW r \in Runs, NEW i \in Invocation, NEW v \in Results, NEW phase \in Phases,
         NEW pc \in {"verify", "collect"}, NEW j, j.count \in Nat,
         i.click = "no", i.result = v, i.tx = inv[r].tx, i.tx # 0, i.aborted = inv[r].aborted,
         Running(inv[r]), inv[r].click = "no", inv[r].pc # "scan", Standing(inv[r]) = {},
         Goes(r, [Looks(i, pc, phase) EXCEPT !.count = j.count]),
         UNCHANGED <<world, own, tx, latest, edits, faults>>, job' \in Jobs, NotDone,
         phase = "report" => pc = "verify" /\ v \in {"blocked", "failed"},
         phase # "report" => v = "ok" /\ inv[r].result = "ok",
         pc = "collect" => phase = "repair"
  PROVE  IInv' /\ NotDone
  <1> DEFINE k == Looks(i, pc, phase)
             m == [k EXCEPT !.count = j.count]
  <1>0. pc \in Stages
    BY DEF Stages
  <1>1. /\ k \in Invocation /\ k.pc = pc /\ k.phase = phase /\ k.aborted = i.aborted
        /\ k.tx = i.tx /\ k.click = i.click /\ k.result = i.result /\ k.pos = 1
    BY <1>0, LooksFacts
  <1> HIDE DEF k
  <1>2. /\ m \in Invocation /\ m.pc = pc /\ m.phase = phase /\ m.aborted = inv[r].aborted
        /\ m.tx = inv[r].tx /\ m.click = "no" /\ m.result = v /\ m.pos = 1 /\ m.tx # 0
    BY <1>1 DEF Invocation
  <1>3. Goes(r, m)
    BY DEF k
  <1> HIDE DEF m
  <1>4. Shaped(m) /\ Running(m) /\ m.pc # "cleanup"
    BY <1>2 DEF Shaped, Running, AtCell
  <1>5. Compared(m, world)
    BY <1>2, Numbers DEF Compared
  <1>6. m.result = "ok" => inv[r].result = "ok" /\ Standing(inv[r]) \subseteq Standing(m)
    BY <1>2
  <1> QED
    BY <1>2, <1>3, <1>4, <1>5, <1>6, GoesOn

LEMMA LooksCount ==
  ASSUME NEW i, NEW pc, NEW phase, NEW r, Goes(r, Looks(i, pc, phase)), i \in Invocation,
         pc \in Stages, phase \in Phases
  PROVE  Goes(r, [Looks(i, pc, phase) EXCEPT !.count = Fresh.count]) /\ Fresh.count \in Nat
  <1> DEFINE k == Looks(i, pc, phase)
  <1>1. k \in Invocation
    BY LooksFacts
  <1>2. k.count = 0
    BY DEF Looks, Invocation
  <1>3. Fresh.count = 0
    BY DEF Fresh
  <1> HIDE DEF k
  <1>4. [k EXCEPT !.count = Fresh.count] = k
    BY <1>1, <1>2, <1>3 DEF Invocation
  <1> QED
    BY <1>3, <1>4 DEF k

(* A failure is reported with a comparison of its own.                     *)
LEMMA ReportsKeeps ==
  ASSUME IInv, NEW r \in Runs, NEW v \in {"blocked", "failed"}, Reports(r, inv[r], v),
         inv[r].tx # 0, Running(inv[r]), inv[r].pc # "scan", ~AtCell(inv[r]),
         UNCHANGED <<world, own, latest, edits, faults>>
  PROVE  IInv' /\ NotDone
  <1> DEFINE i == [inv[r] EXCEPT !.result = v, !.click = "no"]
  <1>1. inv[r] \in Invocation /\ v \in Results
    BY DEF IInv, Typed, Results
  <1>2. /\ i \in Invocation /\ i.click = "no" /\ i.result = v /\ i.tx = inv[r].tx
        /\ i.aborted = inv[r].aborted
    BY <1>1 DEF Invocation, Click
  <1>3. inv[r].click = "no" /\ Standing(inv[r]) = {}
    BY NoClick
  <1>4. Goes(r, Looks(i, "verify", "report")) /\ UNCHANGED <<job, tx>>
    BY DEF Reports
  <1>5. job' \in Jobs /\ NotDone
    BY <1>4 DEF IInv, Typed, NotDone
  <1> HIDE DEF i
  <1>6. "verify" \in Stages /\ "report" \in Phases
    BY DEF Stages, Phases
  <1>7. Goes(r, [Looks(i, "verify", "report") EXCEPT !.count = Fresh.count]) /\ Fresh.count \in Nat
    BY <1>2, <1>4, <1>6, LooksCount
  <1> QED
    BY <1>1, <1>2, <1>3, <1>4, <1>5, <1>6, <1>7, LooksKeeps

(* A job that is blocked beside an uncertain click.                        *)
LEMMA LeavesBeside ==
  ASSUME IInv, NEW r \in Runs, Running(inv[r]), Goes(r, [Fresh EXCEPT !.pc = "done"]),
         UNCHANGED <<world, own, tx, latest, edits, faults>>, job' \in Jobs, NotDone
  PROVE  IInv' /\ NotDone
  <1>1. Settled(r, tx') /\ Kept(world, own, latest', tx') /\ latest' \in [Supports -> Verdicts]
    BY SameSettled DEF IInv, Typed
  <1>2. Over(job', own, tx')
    BY <1>1, StillOver
  <1>3. IInv'
    BY <1>1, <1>2, Leaves
  <1> QED
    BY <1>3

-----------------------------------------------------------------------------
(* After the scan, the two gates before an attempt is opened.              *)
LEMMA ScannedKeeps ==
  ASSUME IInv, NEW r \in Runs, Scanned(r)
  PROVE  IInv' /\ NotDone
  <1> DEFINE i == inv[r]
  <1>1. i.pc = "scan" /\ i \in Invocation /\ Part(r, i, tx, world, own) /\ job \in Jobs
    BY DEF Scanned, Through, IInv, Typed
  <1>2. Running(i) /\ ~AtCell(i) /\ i.tx = 0 /\ i.phase = "primary" /\ i.result = "ok"
    BY <1>1 DEF Running, AtCell, Part, Shaped
  <1>3. i.click = "no" /\ Standing(i) = {}
    BY <1>2, NoClick
  <1>4. UNCHANGED <<world, own, latest, edits, faults>>
    BY DEF Scanned
  <1>5. i.count \in Nat /\ i.todo \subseteq Units
    BY <1>1 DEF Invocation
  <1>6. CASE Ends(r, i, tx, "blocked") \/ Ends(r, i, tx, "failed")
    <2>1. "blocked" \in Undone /\ "failed" \in Undone
      BY DEF Undone
    <2> QED
      BY <1>2, <1>4, <1>6, <2>1, EndsHere
  <1>7. CASE /\ job' = [job EXCEPT !.status = "blocked", !.placed = i.count]
             /\ Goes(r, [Fresh EXCEPT !.pc = "done"]) /\ UNCHANGED tx
    <2>1. job' \in Jobs /\ NotDone
      BY <1>1, <1>5, <1>7 DEF Jobs, NotDone
    <2> QED
      BY <1>2, <1>4, <1>7, <2>1, LeavesBeside
  <1>8. CASE Active(i) /\ ~Uncertain(i) /\ Residue = {} /\ job' = [job EXCEPT !.placed = i.count]
    <2>1. (\A t \in Runs : tx[t].planned = {}) /\ own = {}
      BY <1>8, NothingPlanned, NoResidue
    <2>2. job' \in Jobs /\ job.status = "running" /\ job'.status = "running"
      BY <1>1, <1>5, <1>8 DEF Jobs, Active, Writable
    <2>3. NotDone /\ job'.status # "completed"
      BY <2>2 DEF NotDone
    <2>4. Acts(i) /\ i.pc # "done"
      BY <1>1, <1>2, <1>8 DEF Active, Acts
    <2>5. CASE i.todo # {} /\ Goes(r, [i EXCEPT !.pc = "materials"]) /\ UNCHANGED tx
      <3> DEFINE j == [i EXCEPT !.pc = "materials"]
      <3>1. /\ j \in Invocation /\ j.pc = "materials" /\ j.click = "no" /\ j.tx = 0 /\ i.tx = j.tx
            /\ j.phase = "primary" /\ j.result = "ok" /\ j.aborted = i.aborted
        BY <1>1, <1>2, <1>3 DEF Invocation, Stages
      <3>2. inv' = [inv EXCEPT ![r] = j] /\ tx' = tx /\ latest' = latest
        BY <1>4, <2>5 DEF Goes
      <3> HIDE DEF j
      <3>3. Shaped(j) /\ Compared(j, world) /\ Clear(j, tx) /\ Clean(j, tx, own) /\ Below(j, tx)
        BY <2>1, <3>1 DEF Shaped, Compared, Clear, Clean, Below, AtCell
      <3>4. /\ Settled(r, tx') /\ Kept(world, own, latest', tx') /\ latest' \in [Supports -> Verdicts]
        BY <3>2, SameSettled DEF IInv, Typed
      <3>5. Over(job', own, tx')
        BY <2>3, <3>4, StillOver
      <3>6. j.tx = inv[r].tx
        BY <3>1
      <3>7. IInv'
        BY <1>2, <1>4, <2>2, <2>4, <3>1, <3>2, <3>3, <3>4, <3>5, <3>6, Moves
      <3> QED
        BY <2>3, <3>7
    <2>6. CASE /\ tx' = Begun(r, i)
               /\ Goes(r, Looks([i EXCEPT !.tx = Journal(r, i)], "verify", "check"))
      <3> DEFINE n == Journal(r, i)
                 m == [i EXCEPT !.tx = n]
                 j == Looks(m, "verify", "check")
      <3>1. n \in Runs
        BY <1>2, <1>8, <2>4, BegunFacts DEF BegunWell
      <3>2. tx' = Begun(r, i) /\ inv' = [inv EXCEPT ![r] = j] /\ n = Journal(r, i)
        BY <2>6 DEF Goes
      <3> HIDE DEF n
      <3>3. /\ m \in Invocation /\ m.tx = n /\ m.click = "no" /\ m.result = "ok"
        BY <1>1, <1>2, <1>3, <3>1 DEF Invocation
      <3> HIDE DEF m
      <3>4. /\ j \in Invocation /\ j.pc = "verify" /\ j.phase = "check" /\ j.tx = n
            /\ j.click = "no" /\ j.result = "ok" /\ Compared(j, world)
        BY <3>3, LooksFacts DEF Stages, Phases
      <3> HIDE DEF j
      <3>5. Shaped(j)
        BY <3>1, <3>4, Numbers DEF Shaped, AtCell
      <3> QED
        BY <1>2, <1>4, <1>8, <2>1, <2>2, <2>3, <2>4, <3>2, <3>4, <3>5, Begins
    <2> QED
      BY <1>1, <1>8, <2>5, <2>6 DEF Scanned
  <1> QED
    BY <1>6, <1>7, <1>8 DEF Scanned, Interrupted

(* Materials, the plan of the work, and the attempt.                       *)
LEMMA PrepareKeeps ==
  ASSUME IInv, NEW r \in Runs, Prepare(r)
  PROVE  IInv' /\ NotDone
  <1> DEFINE i == inv[r]
             ready == [i EXCEPT !.pc = "unit", !.propped = Floating(i)]
  <1>1. i.pc = "materials" /\ i \in Invocation /\ Part(r, i, tx, world, own) /\ job \in Jobs
    BY DEF Prepare, IInv, Typed
  <1>2. Running(i) /\ ~AtCell(i) /\ i.result = "ok" /\ (i.tx # 0 <=> i.phase = "repair")
        /\ i.phase \in {"primary", "repair"} /\ i.pc # "scan"
    BY <1>1 DEF Running, AtCell, Part, Shaped
  <1>3. i.click = "no" /\ Standing(i) = {}
    BY <1>2, NoClick
  <1>4. UNCHANGED <<world, own, latest, edits, faults>>
    BY DEF Prepare
  <1>5. CASE Ends(r, i, tx, "blocked")
    BY <1>2, <1>4, <1>5, EndsHere DEF Undone
  <1>6. CASE i.phase = "repair" /\ Reports(r, i, "blocked")
    BY <1>2, <1>4, <1>6, ReportsKeeps
  <1>7. Floating(i) \subseteq Units
    BY <1>1 DEF Floating, Invocation
  <1>8. /\ ready \in Invocation /\ ready.pc = "unit" /\ ready.click = "no" /\ ready.tx = i.tx
        /\ ready.phase = i.phase /\ ready.result = "ok" /\ ready.aborted = i.aborted
    BY <1>1, <1>2, <1>3, <1>7 DEF Invocation, Stages
  <1>9. CASE i.phase = "repair" /\ Goes(r, ready) /\ UNCHANGED <<job, tx>>
    <2> DEFINE j == ready
    <2>1. j \in Invocation /\ Goes(r, j) /\ j.click = "no" /\ j.tx = i.tx /\ j.aborted = i.aborted
          /\ j.pc = "unit" /\ j.result = "ok" /\ j.phase = "repair"
      BY <1>8, <1>9
    <2> HIDE DEF j, ready
    <2>2. Shaped(j) /\ Compared(j, world) /\ Running(j)
      BY <1>2, <1>9, <2>1 DEF Shaped, AtCell, Compared, Running
    <2>3. job' \in Jobs /\ NotDone /\ tx' = tx
      BY <1>1, <1>9 DEF NotDone
    <2> QED
      BY <1>2, <1>3, <1>4, <2>1, <2>2, <2>3, GoesOn
  <1>10. CASE i.phase = "primary" /\ ~i.aborted /\ ~Active(i) /\ Interrupted(r, i)
    BY <1>2, <1>4, <1>10, EndsHere DEF Undone, Interrupted
  <1>11. CASE LeavesUncertain(r, i)
    <2>1. Goes(r, [Fresh EXCEPT !.pc = "done"]) /\ UNCHANGED tx
      BY <1>11 DEF LeavesUncertain
    <2>2. job' = [job EXCEPT !.status = "blocked"] \/ job' = job
      BY <1>11 DEF LeavesUncertain
    <2>3. job' \in Jobs /\ NotDone
      BY <1>1, <2>2 DEF Jobs, NotDone
    <2> QED
      BY <1>2, <1>4, <2>1, <2>3, LeavesBeside
  <1>12. CASE /\ i.phase = "primary" /\ Active(i) /\ ~Uncertain(i)
              /\ tx' = Begun(r, i) /\ Goes(r, [ready EXCEPT !.tx = Journal(r, i)]) /\ UNCHANGED job
    <2> DEFINE n == Journal(r, i)
               j == [ready EXCEPT !.tx = n]
    <2>1. Acts(i) /\ i.pc # "done" /\ job.status = "running" /\ i.tx = 0
      BY <1>1, <1>2, <1>12 DEF Active, Acts, Writable
    <2>2. n \in Runs
      BY <1>12, <2>1, BegunFacts DEF BegunWell
    <2>3. own = {}
      BY <1>1, <1>2, <1>3, <2>1 DEF Part, Clean, InHand
    <2>4. tx' = Begun(r, i) /\ inv' = [inv EXCEPT ![r] = j] /\ n = Journal(r, i)
      BY <1>12 DEF Goes
    <2> HIDE DEF n, ready
    <2>5. /\ j \in Invocation /\ j.pc = "unit" /\ j.click = "no" /\ j.tx = n
          /\ j.phase = "primary" /\ j.result = "ok"
      BY <1>8, <1>12, <2>2 DEF Invocation
    <2> HIDE DEF j
    <2>6. Shaped(j) /\ Compared(j, world)
      BY <2>2, <2>5, Numbers DEF Shaped, AtCell, Compared
    <2>7. job' \in Jobs /\ job'.status # "completed"
      BY <1>1, <1>12, <2>1
    <2> QED
      BY <1>4, <1>12, <2>1, <2>3, <2>4, <2>5, <2>6, <2>7, Begins
  <1> QED
    BY <1>2, <1>5, <1>6, <1>9, <1>10, <1>11, <1>12 DEF Prepare

(* The next unit, or the comparison.                                       *)
LEMMA NextUnitKeeps ==
  ASSUME IInv, NEW r \in Runs, NextUnit(r)
  PROVE  IInv' /\ NotDone
  <1> DEFINE i == inv[r]
  <1>1. i.pc = "unit" /\ i \in Invocation /\ Part(r, i, tx, world, own) /\ job \in Jobs
    BY DEF NextUnit, IInv, Typed
  <1>2. Running(i) /\ ~AtCell(i) /\ i.result = "ok" /\ i.tx # 0 /\ i.pc # "scan"
        /\ i.phase \in {"primary", "repair"}
    BY <1>1 DEF Running, AtCell, Part, Shaped
  <1>3. i.click = "no" /\ Standing(i) = {}
    BY <1>2, NoClick
  <1>4. UNCHANGED <<world, own, latest, edits, faults>>
    BY DEF NextUnit
  <1>5. CASE Goes(r, Looks(i, "verify", i.phase)) /\ UNCHANGED <<job, tx>>
    <2>1. i.phase \in Phases /\ i.phase # "report" /\ "verify" \in Stages /\ "ok" \in Results
      BY <1>2 DEF Phases, Stages, Results
    <2>2. Goes(r, [Looks(i, "verify", i.phase) EXCEPT !.count = Fresh.count]) /\ Fresh.count \in Nat
      BY <1>1, <1>5, <2>1, LooksCount
    <2>3. job' \in Jobs /\ NotDone /\ tx' = tx
      BY <1>1, <1>5 DEF NotDone
    <2> HIDE DEF i
    <2>4. i.tx = inv[r].tx /\ i.aborted = inv[r].aborted /\ inv[r] = i
      BY DEF i
    <2> QED
      BY <1>1, <1>2, <1>3, <1>4, <2>1, <2>2, <2>3, <2>4, LooksKeeps
  <1>6. CASE Interrupted(r, i)
    BY <1>2, <1>4, <1>6, EndsHere DEF Undone, Interrupted
  <1>7. CASE /\ i.todo # {} /\ UNCHANGED <<job, tx>>
             /\ Goes(r, [i EXCEPT !.pc = "place", !.stood = 0, !.confirmed = FALSE, !.result = "ok"])
    <2> DEFINE j == [i EXCEPT !.pc = "place", !.stood = 0, !.confirmed = FALSE, !.result = "ok"]
    <2>1. /\ j \in Invocation /\ j.pc = "place" /\ j.click = "no" /\ j.tx = i.tx /\ j.stood = 0
          /\ j.phase = i.phase /\ j.result = "ok" /\ j.aborted = i.aborted /\ j.todo # {}
      BY <1>1, <1>2, <1>3, <1>7 DEF Invocation, Stages, Results
    <2>2. Goes(r, j) /\ tx' = tx /\ job' \in Jobs /\ NotDone
      BY <1>1, <1>7 DEF NotDone
    <2> HIDE DEF j
    <2>3. Len(Column[Current(j)]) \in Nat
      BY <2>1, ColumnOf
    <2>4. Shaped(j) /\ Compared(j, world) /\ Running(j)
      BY <1>2, <2>1, <2>3 DEF Shaped, Compared, Running
    <2> QED
      BY <1>2, <1>3, <1>4, <2>1, <2>2, <2>4, GoesOn
  <1> QED
    BY <1>5, <1>6, <1>7 DEF NextUnit

-----------------------------------------------------------------------------
(***************************************************************************)
(* At a cell.                                                              *)
(***************************************************************************)
(* A handler at a cell has its attempt, and a unit to do.                  *)
LEMMA AtCellFacts ==
  ASSUME IInv, NEW r \in Runs, AtCell(inv[r])
  PROVE  /\ inv[r] \in Invocation /\ Part(r, inv[r], tx, world, own) /\ Running(inv[r])
         /\ inv[r].tx \in Runs /\ inv[r].tx # 0 /\ inv[r].phase \in {"primary", "repair"}
         /\ inv[r].pc # "scan" /\ inv[r].pc # "done" /\ inv[r].todo # {}
         /\ inv[r].stood <= Len(Column[Current(inv[r])])
         /\ inv[r].pc = "place" => inv[r].result = "ok"
  <1> DEFINE i == inv[r]
  <1>1. i \in Invocation /\ Part(r, i, tx, world, own) /\ Shaped(i)
    BY DEF IInv, Typed, Part
  <1>2. i.pc \in {"place", "cleanup"}
    BY DEF AtCell
  <1> HIDE DEF i
  <1>3. /\ i.tx # 0 /\ i.phase \in {"primary", "repair"} /\ i.todo # {}
        /\ i.stood <= Len(Column[Current(i)]) /\ (i.pc = "place" => i.result = "ok")
    BY <1>1, <1>2 DEF Shaped, AtCell
  <1>4. i.tx \in Runs
    BY <1>1, <1>3 DEF Invocation
  <1>5. Running(i)
    BY <1>2 DEF Running
  <1> QED
    BY <1>1, <1>2, <1>3, <1>4, <1>5 DEF i

(* Before a click nothing is in question.                                  *)
LEMMA MidwayHere ==
  ASSUME IInv, NEW r \in Runs, AtCell(inv[r]), inv[r].click = "no", latest' = latest
  PROVE  Between(r, inv[r], tx) /\ Untouched(inv[r], tx)
  <1> DEFINE i == inv[r]
  <1>1. /\ i \in Invocation /\ Part(r, i, tx, world, own) /\ Running(i)
        /\ i.tx \in Runs /\ i.tx # 0 /\ i.phase \in {"primary", "repair"}
        /\ i.pc # "scan" /\ i.todo # {} /\ i.stood <= Len(Column[Current(i)])
        /\ i.pc = "place" => i.result = "ok"
    BY AtCellFacts
  <1>2. Settled(r, tx) /\ Kept(world, own, latest', tx)
    BY SameSettled DEF IInv
  <1>3. i.click = "no" /\ AtCell(i) /\ i.tx = inv[r].tx /\ i.aborted = inv[r].aborted
    OBVIOUS
  <1> HIDE DEF i
  <1>4. Midway(r, i, tx)
    BY <1>1, <1>2, <1>3 DEF Midway, Part, Clear
  <1>5. Acts(i) /\ i.result = "ok" => own \subseteq Standing(i) /\ \A t \in Runs : tx[t].planned = {}
    BY <1>1, <1>3 DEF Part, Clean, InHand
  <1>6. Untouched(i, tx)
    <2>1. CASE i.pc = "cleanup"
      BY <1>1, <1>3, <2>1 DEF Part, Below, Untouched
    <2>2. CASE i.pc = "place"
      BY <1>1, <1>5, <2>2 DEF Untouched
    <2> QED
      BY <1>3, <2>1, <2>2 DEF AtCell
  <1> QED
    BY <1>4, <1>5, <1>6 DEF Between, i

(* A click: its row is planned, in the only attempt that may have any.     *)
LEMMA ClicksKeeps ==
  ASSUME IInv, NEW r \in Runs, AtCell(inv[r]), inv[r].click = "no", Active(inv[r]),
         inv[r].pc = "cleanup" => inv[r].stood > 0, Clicks(r, inv[r]),
         UNCHANGED <<world, own, latest, edits, faults>>
  PROVE  IInv' /\ NotDone
  <1> DEFINE i == inv[r]
             n == i.tx
             row == Row(i)
             j == [i EXCEPT !.click = "sent"]
             a == [tx[n] EXCEPT !.planned = tx[n].planned \cup {row}, !.used = TRUE]
  <1>1. /\ i \in Invocation /\ Part(r, i, tx, world, own) /\ n \in Runs /\ n # 0
        /\ i.pc # "scan" /\ i.pc # "done" /\ i.todo # {} /\ AtCell(i) /\ i.click = "no" /\ Acts(i)
        /\ i.pc = "place" => i.result = "ok"
    BY AtCellFacts DEF Active, Acts
  <1>2. /\ row \in Cells \X Wants /\ row[1] = Target(i) /\ row = Row(i)
        /\ i.pc = "cleanup" => /\ i.stood \in 1 .. Len(Column[Current(i)])
                               /\ Target(i) = Column[Current(i)][i.stood]
    BY <1>1, TargetOf DEF Part
  <1>3. tx[n].status = "open" /\ tx[n] \in Attempt
    BY <1>1 DEF Clicks, IInv, Typed
  <1>4. tx' = [tx EXCEPT ![n] = a] /\ inv' = [inv EXCEPT ![r] = j] /\ job' = job
        /\ job.status = "running"
    <2>1. tx' = [tx EXCEPT ![n].planned = tx[n].planned \cup {row}, ![n].used = TRUE]
      BY DEF Clicks, Row
    <2>2. tx \in [Runs -> Attempt]
      BY DEF IInv, Typed
    <2>3. inv' = [inv EXCEPT ![r] = j] /\ job' = job /\ job.status = "running"
      BY DEF Clicks, Goes, Active, Writable
    <2> HIDE DEF row, n
    <2>4. tx' = [tx EXCEPT ![n] = a]
      BY <1>1, <2>1, <2>2
    <2> QED
      BY <2>3, <2>4
  <1> HIDE DEF row
  <1>5. /\ a \in Attempt /\ a.planned = tx[n].planned \cup {row} /\ a.used /\ a.status = "open"
    BY <1>2, <1>3 DEF Attempt
  <1> HIDE DEF a, n, i
  <1>6. /\ j \in Invocation /\ j.click = "sent" /\ SameCell(j, i) /\ j.tx = n /\ j.result = i.result
        /\ j.phase = i.phase /\ j.aborted = i.aborted
    <2>1. i.tx = n
      BY DEF n
    <2> QED
      BY <1>1, <2>1 DEF Invocation, Click, SameCell
  <1> HIDE DEF j
  <1>7. /\ tx' \in [Runs -> Attempt] /\ tx'[n] = a /\ \A t \in Runs \ {n} : tx'[t] = tx[t]
    BY <1>1, <1>4, <1>5 DEF IInv, Typed
  <1>8. inv' \in [Runs -> Invocation] /\ inv'[r] = j /\ \A q \in Runs \ {r} : inv'[q] = inv[q]
    BY <1>4, <1>6 DEF IInv, Typed
  <1>9. \A t \in Runs : /\ tx[t].planned \subseteq tx'[t].planned /\ tx'[t].status = tx[t].status
                        /\ tx[t].used => tx'[t].used
    BY <1>3, <1>5, <1>7
  <1>10. \A t \in Runs : tx[t].planned # {} => t = n
    BY <1>1 DEF Part, Clear, n
  <1>11. i.result = "ok" => tx[n].planned = {}
    BY <1>1 DEF Part, Clean
  <1>12. \A p \in tx[n].planned : p[1] # row[1]
    <2>1. CASE i.result = "ok"
      BY <1>11, <2>1
    <2>2. CASE i.result # "ok"
      <3>1. i.pc = "cleanup"
        BY <1>1, <2>2 DEF AtCell
      <3> QED
        BY <1>1, <1>2, <3>1 DEF Part, Below, n
    <2> QED
      BY <2>1, <2>2
  <1>13. Resolved(tx')
    <2>1. \A t \in Runs : tx'[t].planned # {} => t = n /\ tx'[t].status = "open"
      BY <1>3, <1>7, <1>9, <1>10
    <2>2. ASSUME NEW t \in Runs, NEW p \in tx'[t].planned, NEW q \in tx'[t].planned, p[1] = q[1]
          PROVE  p = q
      <3>1. t = n
        BY <2>1
      <3>2. p \in tx[n].planned \cup {row} /\ q \in tx[n].planned \cup {row}
        BY <1>5, <1>7, <3>1
      <3>3. CASE p \in tx[n].planned /\ q \in tx[n].planned
        BY <1>1, <2>2, <3>3 DEF IInv, Resolved
      <3> QED
        BY <1>12, <2>2, <3>2, <3>3
    <2> QED
      BY <2>1, <2>2 DEF Resolved
  <1>14. /\ Target(j) = Target(i) /\ Row(j) = row /\ Standing(j) = Standing(i)
         /\ Current(j) = Current(i) /\ AtCell(j)
    BY <1>1, <1>2, <1>6, SameCellSame
  <1>15. j.pc = i.pc /\ j.stood = i.stood /\ j.todo = i.todo
    BY <1>6 DEF SameCell
  <1>16. Part(r, j, tx', world, own)
    <2>1. Shaped(j)
      <3>1. j.pc = "cleanup" => j.stood > 0
        BY <1>15 DEF i
      <3> QED
        BY <1>1, <1>6, <1>14, <1>15, <3>1 DEF Part, Shaped, n
    <2>2. Compared(j, world)
      BY <1>1, <1>15 DEF Compared, AtCell
    <2>3. Clear(j, tx')
      BY <1>6, <1>7, <1>9, <1>10 DEF Clear
    <2>4. Clean(j, tx', own)
      <3>1. SUFFICES ASSUME j.result = "ok"
                     PROVE  /\ own \subseteq Standing(j) \cup InHand(j)
                            /\ \A t \in Runs : \A p \in tx'[t].planned : j.click # "no" /\ p = Row(j)
        BY DEF Clean
      <3>2. own \subseteq Standing(i)
        BY <1>1, <1>6, <3>1 DEF Part, Clean, InHand
      <3>3. \A t \in Runs : tx'[t].planned # {} => t = n
        BY <1>7, <1>10
      <3>4. tx'[n].planned = {row}
        BY <1>5, <1>6, <1>7, <1>11, <3>1
      <3> QED
        BY <1>6, <1>14, <3>2, <3>3, <3>4
    <2>5. Below(j, tx')
      <3>1. SUFFICES ASSUME j.pc = "cleanup", NEW p \in tx'[n].planned, NEW l \in 1 .. j.stood,
                            p[1] = Column[Current(j)][l]
                     PROVE  l = j.stood /\ p = Row(j)
        BY <1>6 DEF Below
      <3>2. p \in tx[n].planned => FALSE
        BY <1>1, <1>14, <1>15, <3>1 DEF Part, Below, n
      <3>3. p = row
        BY <1>5, <1>7, <3>1, <3>2
      <3>4. Column[Current(i)][l] = Column[Current(i)][i.stood] /\ i.stood \in 1 .. Len(Column[Current(i)])
        BY <1>2, <1>14, <1>15, <3>1, <3>3
      <3>5. l \in 1 .. Len(Column[Current(i)])
        BY <1>15, <3>1, <3>4
      <3>6. l = i.stood
        BY <1>1, <3>4, <3>5, ColumnOf
      <3> QED
        BY <1>14, <1>15, <3>3, <3>6
    <2>6. Journaled(r, j, tx')
      <3>1. Journaled(r, i, tx)
        BY <1>1 DEF Part
      <3> QED
        BY <1>1, <1>5, <1>6, <1>7, <1>14, Numbers DEF Journaled
    <2> QED
      BY <2>1, <2>2, <2>3, <2>4, <2>5, <2>6 DEF Part
  <1>17. ASSUME NEW q \in Runs, q # r
         PROVE  ~Acts(inv[q]) /\ (inv[q].tx = n => inv[q].click = "no")
    BY <1>1, <1>17 DEF IInv, OneActs, i, n
  <1>18. ASSUME NEW q \in Runs, q # r
         PROVE  Part(q, inv[q], tx', world, own)
    <2> DEFINE k == inv[q]
    <2>1. Part(q, k, tx, world, own) /\ k.tx \in Runs \cup {0} /\ ~Acts(k)
      BY <1>17, <1>18 DEF IInv, Typed, Invocation
    <2>2. k.click # "no" => k.tx # 0
      BY <2>1 DEF Part, Shaped, AtCell
    <2> HIDE DEF k
    <2>3. Journaled(q, k, tx')
      BY <1>9, <2>1, <2>2 DEF Part, Journaled, Click
    <2>4. Clear(k, tx') /\ Clean(k, tx', own) /\ Below(k, tx')
      BY <2>1 DEF Clear, Clean, Below
    <2> QED
      BY <2>1, <2>3, <2>4 DEF Part, k
  <1>19. OneActs(inv')
    <2>1. ASSUME NEW p \in Runs, NEW q \in Runs, p # q
          PROVE  /\ ~Acts(inv'[p]) \/ ~Acts(inv'[q])
                 /\ Acts(inv'[q]) /\ inv'[q].tx # 0 /\ inv'[p].tx = inv'[q].tx => inv'[p].click = "no"
                 /\ inv'[p].click # "no" /\ inv'[q].click # "no" => inv'[p].tx # inv'[q].tx
      <3>1. /\ ~Acts(inv[p]) \/ ~Acts(inv[q])
            /\ Acts(inv[q]) /\ inv[q].tx # 0 /\ inv[p].tx = inv[q].tx => inv[p].click = "no"
            /\ inv[p].click # "no" /\ inv[q].click # "no" => inv[p].tx # inv[q].tx
        BY <2>1 DEF IInv, OneActs
      <3>2. CASE p # r /\ q # r
        BY <1>8, <3>1, <3>2
      <3>3. CASE p = r
        <4>1. ~Acts(inv'[q]) /\ inv'[q] = inv[q] /\ inv'[p].tx = n
          BY <1>6, <1>8, <1>17, <2>1, <3>3
        <4> QED
          BY <1>17, <2>1, <3>3, <4>1
      <3>4. CASE q = r
        <4>1. ~Acts(inv'[p]) /\ inv'[p] = inv[p] /\ inv'[q].tx = n
          BY <1>6, <1>8, <1>17, <2>1, <3>4
        <4> QED
          BY <1>17, <2>1, <3>4, <4>1
      <3> QED
        BY <3>2, <3>3, <3>4
    <2> QED
      BY <2>1 DEF OneActs
  <1>20. Typed'
    BY <1>4, <1>7, <1>8 DEF IInv, Typed
  <1>21. Kept(world, own, latest, tx')
    BY <1>9 DEF IInv, Kept
  <1>22. Over(job', own, tx') /\ NotDone
    BY <1>4 DEF Over, NotDone
  <1>23. ASSUME NEW q \in Runs
         PROVE  Part(q, inv'[q], tx', world, own)
    BY <1>8, <1>16, <1>18
  <1>24. IInv'
    BY <1>13, <1>19, <1>20, <1>21, <1>22, <1>23 DEF IInv
  <1> QED
    BY <1>22, <1>24

(* A support or a unit is placed, found there, or given up.                *)
LEMMA PlaceKeeps ==
  ASSUME IInv, NEW r \in Runs, Place(r)
  PROVE  IInv' /\ NotDone
  <1> DEFINE i == inv[r]
             shown == [i EXCEPT !.confirmed = TRUE]
  <1>1. i.pc = "place" /\ i.click = "no" /\ UNCHANGED <<world, own, latest, edits, faults>>
    BY DEF Place
  <1>2. AtCell(i)
    BY <1>1 DEF AtCell
  <1>3. Running(i) /\ i \in Invocation
    BY <1>2, AtCellFacts
  <1>4. Between(r, i, tx) /\ Untouched(i, tx) /\ Midway(r, i, tx)
    BY <1>1, <1>2, MidwayHere DEF Between
  <1>5. latest' \in [Supports -> Verdicts] /\ UNCHANGED <<world, own, edits, faults>>
    BY <1>1 DEF IInv, Typed
  <1>6. "interrupted" \in Results \ {"ok"} /\ "failed" \in Results \ {"ok"}
        /\ "blocked" \in Results \ {"ok"}
    BY DEF Results
  <1>7. CASE Fails(r, i, "interrupted", tx) \/ Fails(r, i, "failed", tx) \/ Fails(r, i, "blocked", tx)
    BY <1>3, <1>4, <1>5, <1>6, <1>7, FailsKeeps
  <1>8. CASE Returns(r, [i EXCEPT !.result = "blocked"], tx)
    <2> DEFINE k == [i EXCEPT !.result = "blocked"]
    <2>1. Between(r, k, tx) /\ k.result # "ok"
      BY <1>4, <1>6, BetweenResult
    <2>2. Returns(r, k, tx)
      BY <1>8
    <2> HIDE DEF k
    <2> QED
      BY <1>3, <1>5, <2>1, <2>2, ReturnsKeeps
  <1>9. CASE TakesDown(r, shown, tx)
    <2> DEFINE k == shown
    <2>1. /\ k \in Invocation /\ SameCell(i, k) /\ k.tx = i.tx /\ k.aborted = i.aborted
          /\ k.phase = i.phase /\ k.result = i.result
      BY <1>3 DEF Invocation, SameCell
    <2>2. TakesDown(r, k, tx)
      BY <1>9
    <2> HIDE DEF k, shown
    <2>3. /\ Midway(r, k, tx) /\ Acts(k) = Acts(i) /\ Standing(k) = Standing(i) /\ Untouched(k, tx)
      BY <1>4, <2>1, SameMidway
    <2>4. Between(r, k, tx)
      BY <1>4, <2>1, <2>3 DEF Between
    <2> QED
      BY <1>3, <1>5, <2>2, <2>3, <2>4, TakesDownKeeps
  <1>10. CASE Active(i) /\ Clicks(r, i)
    <2>1. i.pc = "cleanup" => i.stood > 0
      BY <1>1
    <2> QED
      BY <1>1, <1>2, <1>10, <2>1, ClicksKeeps
  <1> QED
    BY <1>7, <1>8, <1>9, <1>10 DEF Place

(* A support is taken down, or what stands is left.                        *)
LEMMA DigKeeps ==
  ASSUME IInv, NEW r \in Runs, Dig(r)
  PROVE  IInv' /\ NotDone
  <1> DEFINE i == inv[r]
  <1>1. i.pc = "cleanup" /\ i.click = "no" /\ UNCHANGED <<world, own, latest, edits, faults>>
    BY DEF Dig
  <1>2. AtCell(i)
    BY <1>1 DEF AtCell
  <1>3. Running(i) /\ i \in Invocation
    BY <1>2, AtCellFacts
  <1>4. Between(r, i, tx) /\ Midway(r, i, tx)
    BY <1>1, <1>2, MidwayHere DEF Between
  <1>5. latest' \in [Supports -> Verdicts] /\ UNCHANGED <<world, own, edits, faults>>
    BY <1>1 DEF IInv, Typed
  <1>6. CASE i.stood = 0 /\ Returns(r, i, tx)
    BY <1>3, <1>4, <1>5, <1>6, ReturnsKeeps
  <1>7. ASSUME NEW v \in {"interrupted", "blocked"}, Returns(r, [i EXCEPT !.result = v], tx)
        PROVE  IInv' /\ NotDone
    <2> DEFINE k == [i EXCEPT !.result = v]
    <2>1. v \in Results \ {"ok"}
      BY DEF Results
    <2>2. Between(r, k, tx) /\ k.result # "ok"
      BY <1>4, <2>1, BetweenResult
    <2>3. Returns(r, k, tx)
      BY <1>7
    <2> HIDE DEF k
    <2> QED
      BY <1>3, <1>5, <2>2, <2>3, ReturnsKeeps
  <1>8. CASE i.stood # 0 /\ Active(i) /\ Clicks(r, i)
    <2>1. i.stood > 0
      BY <1>3, <1>8 DEF Invocation
    <2> QED
      BY <1>1, <1>2, <1>8, <2>1, ClicksKeeps
  <1> QED
    BY <1>6, <1>7, <1>8 DEF Dig

-----------------------------------------------------------------------------
(***************************************************************************)
(* Verdicts, and clicks that land.                                         *)
(***************************************************************************)
(* What the history of a cell says after verdicts on clicks of it.         *)
LEMMA RecordedFacts ==
  ASSUME NEW w, NEW l
  PROVE  /\ Recorded(w, l) \subseteq {"raised", "down", "left"}
         /\ l = "prop" => Recorded(w, l) \subseteq {"raised"}
         /\ w = "prop" /\ l = "prop" => Recorded(w, l) = {"raised"}
  BY DEF Recorded

(* A support that stands is never recorded as down.                        *)
LEMMA LatestFacts ==
  ASSUME Typed, NEW rows, NEW c \in Supports
  PROVE  /\ LatestAfter(rows, c) \in Verdicts
         /\ world[c] = "prop" => LatestAfter(rows, c) \in {latest[c], "raised"}
         /\ world[c] = "prop" /\ <<c, "prop">> \in rows => LatestAfter(rows, c) = "raised"
  <1> DEFINE mine == {q \in rows : q[1] = c}
             news == UNION {Recorded(row[2], world[c]) : row \in mine}
  <1>1. LatestAfter(rows, c) = IF news = {} THEN latest[c] ELSE CHOOSE m \in news : TRUE
    BY DEF LatestAfter
  <1>2. news \subseteq {"raised", "down", "left"} /\ (world[c] = "prop" => news \subseteq {"raised"})
    BY RecordedFacts
  <1>3. world[c] = "prop" /\ <<c, "prop">> \in rows => news # {}
    <2>1. SUFFICES ASSUME world[c] = "prop", <<c, "prop">> \in rows
                   PROVE  news # {}
      OBVIOUS
    <2> DEFINE row == <<c, "prop">>
    <2>2. row \in mine
      BY <2>1
    <2>3. Recorded(row[2], world[c]) = {"raised"}
      BY <2>1, RecordedFacts
    <2> QED
      BY <2>2, <2>3
  <1> HIDE DEF news
  <1>4. news # {} => (CHOOSE m \in news : TRUE) \in news
    OBVIOUS
  <1>5. latest[c] \in Verdicts
    BY DEF Typed
  <1> QED
    BY <1>1, <1>2, <1>3, <1>4, <1>5 DEF Verdicts

(* Verdicts keep every support in the history, or its click open.          *)
LEMMA LatestKept ==
  ASSUME IInv, NEW rows, NEW table,
         latest' = [c \in Supports |-> LatestAfter(rows, c)],
         \A t \in Runs : \A p \in tx[t].planned : p \in table[t].planned \/ p \in rows
  PROVE  latest' \in [Supports -> Verdicts] /\ Kept(world, own, latest', table)
  <1>1. Typed
    BY DEF IInv
  <1>2. latest' \in [Supports -> Verdicts]
    BY <1>1, LatestFacts
  <1>3. ASSUME NEW c \in own
        PROVE  /\ world[c] = "prop"
               /\ latest'[c] \in {"raised", "left"} \/ \E t \in Runs : <<c, "prop">> \in table[t].planned
    <2>1. c \in Supports /\ world[c] = "prop"
      BY <1>1 DEF IInv, Typed, Kept
    <2>2. latest'[c] \in {latest[c], "raised"} /\ (<<c, "prop">> \in rows => latest'[c] = "raised")
      BY <1>1, <2>1, LatestFacts
    <2>3. CASE latest[c] \in {"raised", "left"}
      BY <2>1, <2>2, <2>3
    <2>4. CASE \E t \in Runs : <<c, "prop">> \in tx[t].planned
      BY <2>1, <2>2, <2>4
    <2> QED
      BY <2>3, <2>4 DEF IInv, Kept
  <1> QED
    BY <1>2, <1>3 DEF Kept

-----------------------------------------------------------------------------
(* A click lands late: its row is planned, so nothing was passed over.     *)
LEMMA LandsKeeps ==
  ASSUME IInv, NEW r \in Runs, Lands(r)
  PROVE  IInv' /\ NotDone
  <1> DEFINE i == inv[r]
             c == Target(i)
             j == [i EXCEPT !.click = "answered"]
  <1>1. AtCell(i) /\ i.click = "sent" /\ world[c] = (IF i.pc = "cleanup" THEN "prop" ELSE "air")
        /\ world' = [world EXCEPT ![c] = Wanted(i)]
        /\ own' = (IF Wanted(i) = "prop" THEN own \cup {c} ELSE own \ {c})
        /\ inv' = [inv EXCEPT ![r] = j] /\ UNCHANGED <<job, tx, latest, edits, faults>>
    BY DEF Lands, AtCell, Goes
  <1>2. /\ i \in Invocation /\ Part(r, i, tx, world, own) /\ Running(i)
        /\ i.tx \in Runs /\ i.tx # 0 /\ i.pc # "scan" /\ i.pc # "done"
    BY <1>1, AtCellFacts
  <1>3. i.pc = "cleanup" => i.stood > 0
    BY <1>1, <1>2 DEF Part, Shaped
  <1>4. /\ c \in Cells /\ Wanted(i) \in Wants /\ Row(i) = <<c, Wanted(i)>>
        /\ Wanted(i) = "unit" \/ c \in Supports
    <2>1. Shaped(i)
      BY <1>2 DEF Part
    <2>2. /\ c \in Cells /\ Wanted(i) \in Wants
          /\ i.pc = "cleanup" => c \in Supports
          /\ i.pc = "place" /\ Raising(i) => c \in Supports
          /\ i.pc = "place" /\ ~Raising(i) => Wanted(i) = "unit"
      BY <1>1, <1>2, <1>3, <2>1, TargetOf
    <2> QED
      BY <1>1, <2>2 DEF AtCell, Row
  <1>5. Row(i) \in tx[i.tx].planned
    BY <1>1, <1>2 DEF Part, Journaled
  <1> HIDE DEF c, i
  <1>6. /\ j \in Invocation /\ j.click = "answered" /\ SameCell(j, i) /\ j.tx = i.tx
        /\ j.result = i.result /\ j.phase = i.phase /\ j.aborted = i.aborted
    BY <1>2 DEF Invocation, Click, SameCell
  <1> HIDE DEF j
  <1>7. /\ world' \in [Cells -> Blocks] /\ world'[c] = Wanted(i)
        /\ \A d \in Cells \ {c} : world'[d] = world[d]
    BY <1>1, <1>4 DEF IInv, Typed, Blocks, Wants
  <1>8. own' \subseteq own \cup {c} /\ own' \subseteq Supports /\ (c \in own' => Wanted(i) = "prop")
    BY <1>1, <1>4 DEF IInv, Typed
  <1>9. inv' \in [Runs -> Invocation] /\ inv'[r] = j /\ \A q \in Runs \ {r} : inv'[q] = inv[q]
    BY <1>1, <1>6 DEF IInv, Typed
  <1>10. tx' = tx /\ job' = job /\ latest' = latest
    BY <1>1
  <1>11. ASSUME NEW k \in Invocation, Compared(k, world)
         PROVE  Compared(k, world')
    <2>1. \A u \in Units : world[u] = "unit" => world'[u] = "unit"
      BY <1>4, <1>7, BuildAssumption DEF Cells
    <2> QED
      BY <1>11, <2>1 DEF Compared
  <1>12. /\ Target(j) = c /\ Row(j) = Row(i) /\ Standing(j) = Standing(i)
         /\ Current(j) = Current(i) /\ AtCell(j) /\ j.pc = i.pc /\ j.stood = i.stood /\ j.todo = i.todo
    BY <1>1, <1>6, SameCellSame DEF c, SameCell
  <1>13. Part(r, j, tx, world', own')
    <2>1. Shaped(j)
      BY <1>1, <1>2, <1>3, <1>6, <1>12 DEF Part, Shaped
    <2>2. Compared(j, world')
      BY <1>1, <1>12 DEF Compared, AtCell
    <2>3. Acts(j) => Acts(i)
      BY <1>6, <1>12 DEF Acts, Running
    <2>4. Clear(j, tx)
      BY <1>2, <1>6, <1>12, <2>3 DEF Part, Clear
    <2>5. Clean(j, tx, own')
      <3>1. SUFFICES ASSUME Acts(j), j.result = "ok"
                     PROVE  /\ own' \subseteq Standing(j) \cup InHand(j)
                            /\ \A t \in Runs : \A p \in tx[t].planned : j.click # "no" /\ p = Row(j)
        BY DEF Clean
      <3>2. /\ own \subseteq Standing(i) \cup InHand(i)
            /\ \A t \in Runs : \A p \in tx[t].planned : p = Row(i)
        BY <1>2, <1>6, <2>3, <3>1 DEF Part, Clean
      <3>3. InHand(i) = {c} /\ InHand(j) = {c}
        BY <1>1, <1>6, <1>12 DEF InHand, c
      <3> QED
        BY <1>6, <1>8, <1>12, <3>2, <3>3
    <2>6. Below(j, tx)
      BY <1>2, <1>6, <1>12, <2>3 DEF Part, Below
    <2>7. Journaled(r, j, tx)
      BY <1>1, <1>2, <1>6, <1>12 DEF Part, Journaled
    <2> QED
      BY <2>1, <2>2, <2>4, <2>5, <2>6, <2>7 DEF Part
  <1>14. ASSUME NEW q \in Runs, q # r
         PROVE  Part(q, inv[q], tx, world', own')
    <2> DEFINE k == inv[q]
    <2>1. Part(q, k, tx, world, own) /\ k \in Invocation
      BY DEF IInv, Typed
    <2>2. ~(Acts(k) /\ k.pc # "scan")
      <3>1. SUFFICES ASSUME Acts(k), k.pc # "scan"
                     PROVE  FALSE
        OBVIOUS
      <3>2. i.tx = k.tx
        BY <1>2, <1>5, <2>1, <3>1 DEF Part, Clear
      <3> QED
        BY <1>1, <1>2, <1>14, <3>1, <3>2 DEF IInv, OneActs, i
    <2> HIDE DEF k
    <2>3. Clean(k, tx, own')
      BY <2>2 DEF Clean
    <2> QED
      BY <1>11, <2>1, <2>3 DEF Part, k
  <1>15. OneActs(inv')
    <2>1. \A q \in Runs : /\ Acts(inv'[q]) = Acts(inv[q]) /\ inv'[q].tx = inv[q].tx
                          /\ inv'[q].click = "no" <=> inv[q].click = "no"
      <3>1. Acts(j) = Acts(i)
        BY <1>6, <1>12 DEF Acts, Running
      <3>2. j.click # "no" /\ i.click # "no"
        BY <1>1, <1>6
      <3>3. ASSUME NEW q \in Runs
            PROVE  /\ Acts(inv'[q]) = Acts(inv[q]) /\ inv'[q].tx = inv[q].tx
                   /\ inv'[q].click = "no" <=> inv[q].click = "no"
        <4>1. CASE q = r
          BY <1>6, <1>9, <3>1, <3>2, <4>1 DEF i
        <4>2. CASE q # r
          BY <1>9, <4>2
        <4> QED
          BY <4>1, <4>2
      <3> QED
        BY <3>3
    <2> QED
      BY <2>1 DEF IInv, OneActs
  <1>16. Kept(world', own', latest, tx)
    <2>1. ASSUME NEW d \in own'
          PROVE  /\ world'[d] = "prop"
                 /\ latest[d] \in {"raised", "left"} \/ \E t \in Runs : <<d, "prop">> \in tx[t].planned
      <3>1. CASE d = c
        BY <1>2, <1>4, <1>5, <1>7, <1>8, <3>1
      <3>2. CASE d # c
        <4>1. d \in own /\ d \in Cells
          BY <1>8, <3>2 DEF Cells
        <4> QED
          BY <1>7, <3>2, <4>1 DEF IInv, Kept
      <3> QED
        BY <3>1, <3>2
    <2> QED
      BY <2>1 DEF Kept
  <1>17. Over(job, own', tx)
    <2>1. job.status # "completed"
      BY <1>2, <1>5 DEF IInv, Over
    <2> QED
      BY <2>1 DEF Over
  <1>18. Typed'
    BY <1>1, <1>7, <1>8, <1>9 DEF IInv, Typed
  <1>19. ASSUME NEW q \in Runs
         PROVE  Part(q, inv'[q], tx, world', own')
    BY <1>9, <1>13, <1>14
  <1>20. IInv'
    BY <1>10, <1>15, <1>16, <1>17, <1>18, <1>19 DEF IInv
  <1> QED
    BY <1>10, <1>20 DEF NotDone

-----------------------------------------------------------------------------
(***************************************************************************)
(* The executor rereads the cell.                                          *)
(***************************************************************************)
Rejudged(r, table) ==
  /\ Settled(r, table)
  /\ table[inv[r].tx].planned = tx[inv[r].tx].planned \ {Row(inv[r])}
  /\ \A t \in Runs \ {inv[r].tx} : table[t].planned = tx[t].planned

(* One row gets its verdict.                                               *)
LEMMA JudgedSettled ==
  ASSUME IInv, NEW r \in Runs, AtCell(inv[r]), inv[r].click # "no", NEW applied \in BOOLEAN,
         NEW table, table = [tx EXCEPT ![inv[r].tx] = Judged(tx[inv[r].tx], Row(inv[r]), applied)]
  PROVE  Rejudged(r, table)
  <1> DEFINE n == inv[r].tx
             row == Row(inv[r])
             a == Judged(tx[n], row, applied)
  <1>1. n \in Runs /\ tx \in [Runs -> Attempt] /\ tx[n] \in Attempt
    BY AtCellFacts DEF IInv, Typed
  <1>2. table = [tx EXCEPT ![n] = a]
    OBVIOUS
  <1>3. a \in Attempt /\ a.used = tx[n].used /\ a.status = tx[n].status
        /\ a.planned = tx[n].planned \ {row}
    <2>1. CASE row \notin tx[n].planned
      BY <1>1, <2>1 DEF Judged
    <2>2. CASE row \in tx[n].planned
      <3> DEFINE rest == tx[n].planned \ {row}
                 sp == tx[n].spoiled \/ ~applied
      <3>1. a = [tx[n] EXCEPT !.planned = rest, !.spoiled = sp]
        BY <2>2 DEF Judged
      <3>2. sp \in BOOLEAN /\ rest \subseteq tx[n].planned
        OBVIOUS
      <3> HIDE DEF sp, a
      <3>3. a \in Attempt /\ a.used = tx[n].used /\ a.status = tx[n].status /\ a.planned = rest
        BY <1>1, <3>1, <3>2 DEF Attempt
      <3> QED
        BY <3>3
    <2> QED
      BY <2>1, <2>2
  <1>4. inv[r].click # "no"
    OBVIOUS
  <1> HIDE DEF a, row
  <1>5. table \in [Runs -> Attempt] /\ table[n] = a /\ \A t \in Runs \ {n} : table[t] = tx[t]
    BY <1>1, <1>2, <1>3
  <1>6. ASSUME NEW t \in Runs
        PROVE  Loses(r, t, tx[t], table[t])
    <2>1. CASE t = n
      BY <1>3, <1>4, <1>5, <2>1 DEF Loses, row
    <2>2. CASE t # n
      BY <1>5, <2>2 DEF Loses
    <2> QED
      BY <2>1, <2>2
  <1> QED
    BY <1>3, <1>5, <1>6 DEF Rejudged, Settled, row

(* The state in which the handler goes on after the verdict.               *)
LEMMA MidwayAfter ==
  ASSUME IInv, NEW r \in Runs, AtCell(inv[r]), NEW table, Settled(r, table),
         Kept(world, own, latest', table)
  PROVE  LET j == [inv[r] EXCEPT !.click = "no"]
         IN /\ j \in Invocation /\ SameCell(inv[r], j) /\ j.click = "no"
            /\ j.tx = inv[r].tx /\ j.phase = inv[r].phase /\ j.aborted = inv[r].aborted
            /\ j.result = inv[r].result
            /\ Midway(r, j, table)
  <1> DEFINE i == inv[r]
             j == [i EXCEPT !.click = "no"]
  <1>1. /\ i \in Invocation /\ Part(r, i, tx, world, own) /\ i.tx # 0
        /\ i.phase \in {"primary", "repair"} /\ i.pc # "scan" /\ i.todo # {}
        /\ i.stood <= Len(Column[Current(i)]) /\ AtCell(i)
    BY AtCellFacts
  <1>2. /\ j \in Invocation /\ SameCell(i, j) /\ j.click = "no" /\ j.tx = i.tx
        /\ j.phase = i.phase /\ j.aborted = i.aborted /\ j.result = i.result
    BY <1>1 DEF Invocation, SameCell, Click
  <1>3. \A t \in Runs : table[t].planned \subseteq tx[t].planned
    BY SettledFacts
  <1>4. Midway(r, i, table)
    BY <1>1, <1>3 DEF Midway, Part, Clear
  <1> HIDE DEF i, j
  <1>5. Midway(r, j, table)
    BY <1>2, <1>4, SameMidway
  <1> QED
    BY <1>2, <1>5 DEF i, j

(* No answer: the row stays, and the handler stops.                        *)
LEMMA UnreadKeeps ==
  ASSUME IInv, NEW r \in Runs, AtCell(inv[r]), inv[r].click # "no", NEW j,
         j = [inv[r] EXCEPT !.click = "no"],
         IF inv[r].pc = "place" THEN Fails(r, j, "blocked", tx)
         ELSE Returns(r, [j EXCEPT !.result = "blocked"], tx),
         UNCHANGED <<world, own, latest, edits, faults>>
  PROVE  IInv' /\ NotDone
  <1> DEFINE i == inv[r]
  <1>1. /\ i \in Invocation /\ Part(r, i, tx, world, own) /\ Running(i) /\ i.tx \in Runs
        /\ i.pc # "scan" /\ AtCell(i) /\ (i.pc = "place" => i.result = "ok") /\ i.todo # {}
        /\ i.stood <= Len(Column[Current(i)])
    BY AtCellFacts
  <1>2. Settled(r, tx) /\ Kept(world, own, latest', tx) /\ latest' \in [Supports -> Verdicts]
    BY SameSettled DEF IInv, Typed
  <1>3. j \in Invocation /\ SameCell(i, j) /\ j.tx = i.tx /\ j.aborted = i.aborted
        /\ Midway(r, j, tx)
    BY <1>2, MidwayAfter
  <1>4. "blocked" \in Results \ {"ok"}
    BY DEF Results
  <1>5. CASE i.pc = "place"
    <2>1. Fails(r, j, "blocked", tx)
      BY <1>5
    <2>2. ASSUME Acts(i)
          PROVE  \A p \in tx[i.tx].planned : \A l \in 1 .. i.stood : p[1] # Column[Current(i)][l]
      <3>1. SUFFICES ASSUME NEW p \in tx[i.tx].planned, NEW l \in 1 .. i.stood,
                            p[1] = Column[Current(i)][l]
                     PROVE  FALSE
        OBVIOUS
      <3>2. p = Row(i)
        BY <1>1, <1>5, <2>2, <3>1 DEF Part, Clean
      <3>3. /\ Row(i)[1] = Target(i)
            /\ Raising(i) => /\ i.stood + 1 \in 1 .. Len(Column[Current(i)])
                             /\ Target(i) = Column[Current(i)][i.stood + 1]
            /\ ~Raising(i) => Target(i) \in Units
        BY <1>1, <1>5, TargetOf DEF Part
      <3>4. /\ \A k \in 1 .. Len(Column[Current(i)]) : Column[Current(i)][k] \in Supports
            /\ \A k, m \in 1 .. Len(Column[Current(i)]) :
                 Column[Current(i)][k] = Column[Current(i)][m] => k = m
            /\ Len(Column[Current(i)]) \in Nat
        BY <1>1, ColumnOf
      <3>5. i.stood \in Nat
        BY <1>1 DEF Invocation
      <3> HIDE DEF i
      <3>6. l \in 1 .. Len(Column[Current(i)]) /\ l # i.stood + 1
        BY <1>1, <3>1, <3>4, <3>5
      <3>7. CASE Raising(i)
        BY <3>1, <3>2, <3>3, <3>4, <3>6, <3>7
      <3>8. CASE ~Raising(i)
        <4>1. Target(i) \in Units /\ Target(i) \in Supports
          BY <3>1, <3>2, <3>3, <3>4, <3>6, <3>8
        <4> QED
          BY <4>1, BuildAssumption
      <3> QED
        BY <3>7, <3>8
    <2>3. Current(j) = Current(i) /\ Acts(j) = Acts(i) /\ j.stood = i.stood
      BY <1>3, SameCellSame DEF SameCell, Acts, Running
    <2>4. Untouched(j, tx)
      <3> HIDE DEF i
      <3> QED
        BY <1>3, <2>2, <2>3 DEF Untouched
    <2>5. Running(inv[r]) /\ Midway(r, j, tx) /\ latest' \in [Supports -> Verdicts]
      BY <1>1, <1>2, <1>3
    <2>6. Fails(r, j, "blocked", tx) /\ Untouched(j, tx)
      BY <2>1, <2>4
    <2> QED
      BY <1>4, <2>5, <2>6, FailsKeeps
  <1>6. CASE i.pc # "place"
    <2> DEFINE k == [j EXCEPT !.result = "blocked"]
    <2>1. Returns(r, k, tx)
      BY <1>6
    <2>2. Between(r, k, tx) /\ k.result # "ok"
      BY <1>3, <1>4, BetweenResult
    <2> HIDE DEF k
    <2> QED
      BY <1>1, <1>2, <2>1, <2>2, ReturnsKeeps
  <1> QED
    BY <1>5, <1>6

(* A block taken down, or one more that stands.                            *)
LEMMA NextCellKeeps ==
  ASSUME IInv, NEW r \in Runs, AtCell(inv[r]), inv[r].click # "no", NEW table, Rejudged(r, table),
         Kept(world, own, latest', table), latest' \in [Supports -> Verdicts],
         NEW stood, \/ inv[r].pc = "cleanup" /\ world[Target(inv[r])] = "air" /\ stood = inv[r].stood - 1
                    \/ inv[r].pc = "place" /\ Raising(inv[r]) /\ stood = inv[r].stood + 1,
         Goes(r, [[inv[r] EXCEPT !.click = "no"] EXCEPT !.stood = stood]), job' = job, tx' = table,
         UNCHANGED <<world, own, edits, faults>>
  PROVE  IInv' /\ NotDone
  <1> DEFINE i == inv[r]
             col == Column[Current(i)]
             m == [[i EXCEPT !.click = "no"] EXCEPT !.stood = stood]
  <1>1. /\ i \in Invocation /\ Part(r, i, tx, world, own) /\ Running(i) /\ i.tx \in Runs
        /\ i.pc # "scan" /\ i.pc # "done" /\ AtCell(i) /\ i.todo # {} /\ i.tx # 0
        /\ i.stood <= Len(col) /\ i.phase \in {"primary", "repair"}
        /\ i.pc = "place" => i.result = "ok"
    BY AtCellFacts
  <1>2. i.pc = "cleanup" => i.stood > 0
    BY <1>1 DEF Part, Shaped
  <1>3. /\ i.pc = "cleanup" => i.stood \in 1 .. Len(col) /\ Target(i) = col[i.stood]
        /\ i.pc = "place" /\ Raising(i) => i.stood + 1 \in 1 .. Len(col) /\ Target(i) = col[i.stood + 1]
    BY <1>1, <1>2, TargetOf DEF Part
  <1>4. Len(col) \in Nat /\ \A k, l \in 1 .. Len(col) : col[k] = col[l] => k = l
    BY <1>1, ColumnOf
  <1>5. i.stood \in Nat
    BY <1>1 DEF Invocation
  <1>6. \/ i.pc = "cleanup" /\ world[Target(i)] = "air" /\ stood = i.stood - 1
        \/ i.pc = "place" /\ Raising(i) /\ stood = i.stood + 1
    OBVIOUS
  <1>7. i.click # "no" /\ inv' = [inv EXCEPT ![r] = m] /\ tx' = table /\ Settled(r, table)
        /\ table[i.tx].planned = tx[i.tx].planned \ {Row(i)}
        /\ (\A t \in Runs \ {i.tx} : table[t].planned = tx[t].planned)
        /\ i.tx = inv[r].tx /\ i.aborted = inv[r].aborted
    BY DEF Goes, Rejudged
  <1> HIDE DEF i, col
  <1>8. stood \in Nat /\ stood <= Len(col)
    BY <1>3, <1>4, <1>5, <1>6
  <1>9. /\ m \in Invocation /\ m.pc = i.pc /\ m.click = "no" /\ m.stood = stood /\ m.todo = i.todo
        /\ m.tx = i.tx /\ m.phase = i.phase /\ m.aborted = i.aborted /\ m.result = i.result
    BY <1>1, <1>8 DEF Invocation, Click
  <1> HIDE DEF m
  <1>10. Current(m) = Current(i) /\ AtCell(m) /\ Acts(m) = Acts(i)
    BY <1>1, <1>9 DEF Current, AtCell, Acts, Running
  <1>11. Shaped(m) /\ Compared(m, world)
    BY <1>1, <1>8, <1>9, <1>10 DEF Part, Shaped, Compared, AtCell, col
  <1>12. \A t \in Runs : table[t].planned \subseteq tx[t].planned
    BY <1>7, SettledFacts
  <1>13. Clear(m, table)
    BY <1>1, <1>9, <1>10, <1>12 DEF Part, Clear
  <1>14. Clean(m, table, own)
    <2>1. SUFFICES ASSUME Acts(i), i.result = "ok"
                   PROVE  own \subseteq Standing(m) /\ \A t \in Runs : table[t].planned = {}
      BY <1>9, <1>10 DEF Clean
    <2>2. /\ own \subseteq Standing(i) \cup {Target(i)}
          /\ \A t \in Runs : \A p \in tx[t].planned : p = Row(i)
      BY <1>1, <1>7, <2>1 DEF Part, Clean, InHand
    <2>3. \A t \in Runs : tx[t].planned # {} => t = i.tx
      BY <1>1, <2>1 DEF Part, Clear
    <2>4. \A t \in Runs : table[t].planned = {}
      BY <1>7, <1>12, <2>2, <2>3
    <2>5. Standing(i) = {col[l] : l \in 1 .. i.stood}
      BY <1>1 DEF Standing, col
    <2>6. Standing(m) = {col[l] : l \in 1 .. stood}
      BY <1>9, <1>10 DEF Standing, col
    <2>7. own \subseteq Standing(m)
      <3>1. CASE i.pc = "cleanup"
        <4>1. Target(i) = col[i.stood] /\ world[Target(i)] = "air" /\ stood = i.stood - 1
              /\ i.stood \in 1 .. Len(col)
          BY <1>3, <1>6, <3>1
        <4>2. ASSUME NEW c \in own
              PROVE  c \in Standing(m)
          <5>1. c # Target(i)
            BY <4>1 DEF IInv, Kept
          <5>2. PICK l \in 1 .. i.stood : c = col[l]
            BY <2>2, <2>5, <5>1
          <5>3. l # i.stood
            BY <4>1, <5>1, <5>2
          <5>4. l \in 1 .. stood
            BY <1>5, <4>1, <5>2, <5>3
          <5> QED
            BY <2>6, <5>2, <5>4
        <4> QED
          BY <4>2
      <3>2. CASE i.pc = "place"
        <4>1. Target(i) = col[stood] /\ stood = i.stood + 1
          BY <1>3, <1>6, <3>2
        <4>2. 1 .. i.stood \subseteq 1 .. stood /\ stood \in 1 .. stood
          BY <1>5, <4>1
        <4> QED
          BY <2>2, <2>5, <2>6, <4>1, <4>2
      <3> QED
        BY <1>6, <3>1, <3>2
    <2> QED
      BY <2>4, <2>7
  <1>15. Below(m, table)
    <2>1. SUFFICES ASSUME Acts(i), i.pc = "cleanup", NEW p \in table[i.tx].planned,
                          NEW l \in 1 .. stood, p[1] = col[l]
                   PROVE  FALSE
      BY <1>9, <1>10 DEF Below, col
    <2>2. l \in 1 .. i.stood /\ l # i.stood /\ p \in tx[i.tx].planned
      BY <1>1, <1>5, <1>6, <1>12, <2>1
    <2>3. l = i.stood
      BY <1>1, <2>1, <2>2 DEF Part, Below, col
    <2> QED
      BY <2>2, <2>3
  <1>16. job' \in Jobs /\ NotDone
    BY DEF IInv, Typed, NotDone
  <1>17. Over(job', own, tx')
    BY <1>7, <1>16, StillOver
  <1>18. Acts(m) => Acts(inv[r])
    BY <1>10 DEF i
  <1>19. Running(inv[r]) /\ m.tx = inv[r].tx
    BY <1>1, <1>7, <1>9 DEF i
  <1>20. IInv'
    BY <1>7, <1>9, <1>11, <1>13, <1>14, <1>15, <1>16, <1>17, <1>18, <1>19, Moves
  <1> QED
    BY <1>16, <1>20

(* reread after a click: every way the handler goes on from it.            *)
LEMMA VerdictKeeps ==
  ASSUME IInv, NEW r \in Runs, Verdict(r)
  PROVE  IInv' /\ NotDone
  <1> DEFINE i == inv[r]
             row == Row(i)
             live == world[Target(i)]
             changed == live # IF i.pc = "cleanup" THEN "prop" ELSE "air"
             applied == IF i.pc = "cleanup" THEN changed ELSE live = Wanted(i)
             table == [tx EXCEPT ![i.tx] = Judged(tx[i.tx], row, applied)]
             j == [i EXCEPT !.click = "no"]
  <1>1. AtCell(i) /\ i.click # "no" /\ UNCHANGED <<world, own, edits, faults>>
    BY DEF Verdict, AtCell
  <1>2. CASE /\ latest' = latest
             /\ IF i.pc = "place" THEN Fails(r, j, "blocked", tx)
                ELSE Returns(r, [j EXCEPT !.result = "blocked"], tx)
    BY <1>1, <1>2, UnreadKeeps
  <1>3. CASE /\ latest' = [c \in Supports |-> LatestAfter({row} \cap tx[i.tx].planned, c)]
             /\ IF i.pc = "cleanup"
                THEN IF live = "air" /\ ~i.aborted
                     THEN Goes(r, [j EXCEPT !.stood = @ - 1]) /\ job' = job /\ tx' = table
                     ELSE Returns(r, [j EXCEPT !.result = IF i.aborted THEN "interrupted" ELSE "blocked"],
                                  table)
                ELSE IF ~applied THEN Fails(r, j, "blocked", table)
                ELSE IF ~Raising(i) THEN TakesDown(r, [j EXCEPT !.confirmed = TRUE], table)
                ELSE IF i.aborted THEN Fails(r, j, "interrupted", table)
                ELSE Goes(r, [j EXCEPT !.stood = @ + 1]) /\ job' = job /\ tx' = table
    <2>1. /\ i \in Invocation /\ Part(r, i, tx, world, own) /\ Running(i) /\ i.tx \in Runs
          /\ i.pc # "scan" /\ i.todo # {} /\ (i.pc = "place" => i.result = "ok")
          /\ i.stood <= Len(Column[Current(i)])
      BY <1>1, AtCellFacts
    <2>2. applied \in BOOLEAN
      OBVIOUS
    <2>3. table = [tx EXCEPT ![i.tx] = Judged(tx[i.tx], row, applied)]
      OBVIOUS
    <2> HIDE DEF applied, table
    <2>0. Rejudged(r, table)
      BY <1>1, <2>2, <2>3, JudgedSettled
    <2>4. /\ Settled(r, table) /\ table[i.tx].planned = tx[i.tx].planned \ {row}
          /\ \A t \in Runs \ {i.tx} : table[t].planned = tx[t].planned
      BY <2>0 DEF Rejudged
    <2>5. latest' \in [Supports -> Verdicts] /\ Kept(world, own, latest', table)
      <3> DEFINE rows == {row} \cap tx[i.tx].planned
      <3>1. latest' = [c \in Supports |-> LatestAfter(rows, c)]
        BY <1>3
      <3>2. \A t \in Runs : \A p \in tx[t].planned : p \in table[t].planned \/ p \in rows
        BY <2>1, <2>4
      <3> HIDE DEF rows
      <3> QED
        BY <3>1, <3>2, LatestKept
    <2>6. /\ j \in Invocation /\ SameCell(i, j) /\ j.click = "no" /\ j.tx = i.tx
          /\ j.phase = i.phase /\ j.aborted = i.aborted /\ j.result = i.result
          /\ Midway(r, j, table)
      BY <1>1, <2>4, <2>5, MidwayAfter
    <2>7. "blocked" \in Results \ {"ok"} /\ "interrupted" \in Results \ {"ok"}
      BY DEF Results
    <2>8. CASE i.pc = "cleanup"
      <3>1. CASE live = "air" /\ ~i.aborted
        <4> DEFINE stood == i.stood - 1
        <4>1. Goes(r, [j EXCEPT !.stood = stood]) /\ job' = job /\ tx' = table
          BY <1>3, <2>6, <2>8, <3>1 DEF SameCell
        <4> QED
          BY <1>1, <2>0, <2>5, <2>8, <3>1, <4>1, NextCellKeeps
      <3>2. CASE ~(live = "air" /\ ~i.aborted)
        <4> DEFINE v == IF i.aborted THEN "interrupted" ELSE "blocked"
                   k == [j EXCEPT !.result = v]
        <4>1. v \in Results \ {"ok"}
          BY <2>7
        <4>2. Returns(r, k, table)
          BY <1>3, <2>8, <3>2
        <4> HIDE DEF v, j
        <4>3. Between(r, k, table) /\ k.result # "ok"
          BY <2>6, <4>1, BetweenResult
        <4> HIDE DEF k
        <4> QED
          BY <1>1, <2>1, <2>5, <4>2, <4>3, ReturnsKeeps
      <3> QED
        BY <3>1, <3>2
    <2>9. CASE i.pc = "place"
      <3>1. Acts(i) => /\ \A t \in Runs : table[t].planned = {}
                       /\ own \subseteq Standing(i) \cup {Target(i)}
        <4>1. SUFFICES ASSUME Acts(i)
                       PROVE  /\ \A t \in Runs : table[t].planned = {}
                              /\ own \subseteq Standing(i) \cup {Target(i)}
          OBVIOUS
        <4>2. /\ own \subseteq Standing(i) \cup {Target(i)}
              /\ \A t \in Runs : \A p \in tx[t].planned : p = row
          BY <1>1, <2>1, <2>9, <4>1 DEF Part, Clean, InHand
        <4>3. \A t \in Runs : tx[t].planned # {} => t = i.tx
          BY <2>1, <4>1 DEF Part, Clear
        <4>4. \A t \in Runs : table[t].planned \subseteq tx[t].planned
          BY <2>4, SettledFacts
        <4> HIDE DEF i, row
        <4> QED
          BY <2>4, <4>2, <4>3, <4>4
      <3>2. Acts(j) = Acts(i) /\ Standing(j) = Standing(i) /\ Current(j) = Current(i)
        BY <2>6, SameCellSame DEF SameCell, Acts, Running
      <3>3. Untouched(j, table)
        BY <2>1, <2>6, <3>1, <3>2 DEF Untouched
      <3>4. ASSUME NEW v \in {"blocked", "interrupted"}, Fails(r, j, v, table)
            PROVE  IInv' /\ NotDone
        <4>1. v \in Results \ {"ok"}
          BY <2>7
        <4> HIDE DEF j
        <4> QED
          BY <1>1, <2>1, <2>5, <2>6, <3>3, <3>4, <4>1, FailsKeeps
      <3>5. CASE ~Raising(i) /\ TakesDown(r, [j EXCEPT !.confirmed = TRUE], table)
        <4> DEFINE k == [j EXCEPT !.confirmed = TRUE]
        <4>1. TakesDown(r, k, table)
          BY <3>5
        <4> HIDE DEF j
        <4>2. /\ k \in Invocation /\ SameCell(j, k) /\ k.tx = j.tx /\ k.aborted = j.aborted
              /\ k.phase = j.phase
          BY <2>6 DEF Invocation, SameCell
        <4> HIDE DEF k
        <4>3. Midway(r, k, table) /\ Acts(k) = Acts(j) /\ Standing(k) = Standing(j) /\ Untouched(k, table)
          BY <2>6, <3>3, <4>2, SameMidway
        <4>4. Target(i) \in Units
          BY <1>1, <2>1, <2>9, <3>5, TargetOf DEF Part
        <4>5. own \subseteq Supports
          BY DEF IInv, Typed
        <4>6. Acts(k) => own \subseteq Standing(k)
          BY <3>1, <3>2, <4>3, <4>4, <4>5, BuildAssumption
        <4>7. Between(r, k, table)
          BY <3>1, <3>2, <4>3, <4>6 DEF Between
        <4> QED
          BY <1>1, <2>1, <2>5, <4>1, <4>3, <4>7, TakesDownKeeps
      <3>6. CASE Raising(i) /\ Goes(r, [j EXCEPT !.stood = @ + 1]) /\ job' = job /\ tx' = table
        <4> DEFINE stood == i.stood + 1
        <4>1. Goes(r, [j EXCEPT !.stood = stood]) /\ job' = job /\ tx' = table
          BY <2>6, <3>6 DEF SameCell
        <4> QED
          BY <1>1, <2>0, <2>5, <2>9, <3>6, <4>1, NextCellKeeps
      <3> QED
        BY <1>3, <2>9, <3>4, <3>5, <3>6
    <2> QED
      BY <1>1, <2>8, <2>9 DEF AtCell
  <1> QED
    BY <1>2, <1>3 DEF Verdict, Row

-----------------------------------------------------------------------------
(***************************************************************************)
(* The comparison.                                                         *)
(***************************************************************************)
(* What is to be repaired is collected.                                    *)
LEMMA CollectedKeeps ==
  ASSUME IInv, NEW r \in Runs, Collected(r)
  PROVE  IInv' /\ NotDone
  <1> DEFINE i == inv[r]
  <1>1. i.pc = "collect" /\ i \in Invocation /\ Part(r, i, tx, world, own) /\ job \in Jobs
    BY DEF Collected, Through, IInv, Typed
  <1>2. Running(i) /\ ~AtCell(i) /\ i.result = "ok" /\ i.tx # 0 /\ i.pc # "scan"
        /\ i.phase = "repair"
    BY <1>1 DEF Running, AtCell, Part, Shaped
  <1>3. i.click = "no" /\ Standing(i) = {}
    BY <1>2, NoClick
  <1>4. UNCHANGED <<world, own, latest, edits, faults>>
    BY DEF Collected
  <1>5. CASE Interrupted(r, i)
    BY <1>2, <1>4, <1>5, EndsHere DEF Undone, Interrupted
  <1>6. CASE Reports(r, i, "blocked")
    BY <1>2, <1>4, <1>6, ReportsKeeps
  <1>7. CASE Goes(r, [i EXCEPT !.pc = "materials"]) /\ UNCHANGED <<job, tx>> /\ i.phase = "repair"
    <2> DEFINE j == [i EXCEPT !.pc = "materials"]
    <2>1. /\ j \in Invocation /\ j.pc = "materials" /\ j.click = "no" /\ j.tx = i.tx
          /\ j.phase = i.phase /\ j.result = "ok" /\ j.aborted = i.aborted
      BY <1>1, <1>2, <1>3 DEF Invocation, Stages
    <2>2. Goes(r, j) /\ tx' = tx /\ job' \in Jobs /\ NotDone
      BY <1>1, <1>7 DEF NotDone
    <2> HIDE DEF j
    <2>3. Shaped(j) /\ Compared(j, world) /\ Running(j)
      BY <1>2, <1>7, <2>1 DEF Shaped, Compared, Running, AtCell
    <2> QED
      BY <1>2, <1>3, <1>4, <2>1, <2>2, <2>3, GoesOn
  <1> QED
    BY <1>1, <1>2, <1>5, <1>6, <1>7 DEF Collected

-----------------------------------------------------------------------------
(* What may be said of a job that becomes complete.                        *)
AsBuilt ==
  job.status # "completed" /\ job'.status = "completed" =>
    \E r \in Runs : /\ inv[r].pc = "verify" /\ inv'[r].pc = "done"
                    /\ \A u \in Units : world[u] = "unit" \/ u \in inv[r].since

(* A handler that may act, and did not fail, left nothing behind.          *)
LEMMA NothingLeft ==
  ASSUME IInv, NEW r \in Runs, Acts(inv[r]), ~AtCell(inv[r]), inv[r].pc # "scan",
         inv[r].result = "ok"
  PROVE  own = {} /\ \A t \in Runs : tx[t].planned = {}
  <1>1. inv[r].click = "no" /\ Standing(inv[r]) = {}
    BY NoClick
  <1>2. Clean(inv[r], tx, own)
    BY DEF IInv, Part
  <1>3. InHand(inv[r]) = {}
    BY <1>1 DEF InHand
  <1>4. /\ own \subseteq Standing(inv[r]) \cup InHand(inv[r])
        /\ \A t \in Runs : \A p \in tx[t].planned : inv[r].click # "no"
    BY <1>2 DEF Clean
  <1> QED
    BY <1>1, <1>3, <1>4

(* A comparison that is through and found nothing has seen every unit.     *)
LEMMA SeesAll ==
  ASSUME NEW i \in Invocation, Compared(i, world), Through(i, "verify"), i.issues = {}
  PROVE  \A u \in Units : world[u] = "unit" \/ u \in i.since
  <1>1. i.pc = "verify" /\ i.pos \notin Units /\ i.pos # 0 /\ i.pos \in Nat
    BY DEF Compared, Through, Invocation
  <1>2. Cardinality(Units) \in Nat /\ Units = 1 .. Cardinality(Units)
    BY BuildAssumption, FS_CardinalityType
  <1>3. \A u \in Units : u < i.pos
    BY <1>1, <1>2
  <1> QED
    BY <1>1, <1>3 DEF Compared

(* The attempt completes, and then the job does.                           *)
LEMMA SucceedsKeeps ==
  ASSUME IInv, NEW r \in Runs, Through(inv[r], "verify"), ~inv[r].aborted,
         inv[r].phase # "report", inv[r].issues = {}, Succeeds(r, inv[r]),
         UNCHANGED <<world, own, latest, edits, faults>>
  PROVE  IInv' /\ AsBuilt
  <1> DEFINE i == inv[r]
             a == Completed(tx[i.tx])
             b == [tx EXCEPT ![i.tx] = a]
  <1>1. i.pc = "verify" /\ i \in Invocation /\ Part(r, i, tx, world, own) /\ job \in Jobs
    BY DEF Through, IInv, Typed
  <1>2. Running(i) /\ ~AtCell(i) /\ i.result = "ok" /\ i.tx \in Runs /\ Acts(i) /\ i.count \in Nat
    BY <1>1 DEF Running, AtCell, Part, Shaped, Acts, Invocation
  <1>3. own = {} /\ \A t \in Runs : tx[t].planned = {}
    BY <1>1, <1>2, NothingLeft
  <1>4. Settled(r, tx) /\ latest' \in [Supports -> Verdicts] /\ Kept(world, own, latest', tx)
    BY SameSettled DEF IInv, Typed
  <1>5. a \in {Completed(tx[i.tx]), Cancelled(tx[i.tx])}
    OBVIOUS
  <1>6. CASE a.status # "completed" /\ Ends(r, i, tx, "blocked")
    <2>1. IInv' /\ NotDone
      BY <1>2, <1>6, EndsHere DEF Undone
    <2> QED
      BY <2>1 DEF NotDone, AsBuilt
  <1>7. Settled(r, b) /\ \A t \in Runs : b[t].planned = tx[t].planned
    <2> HIDE DEF a, i
    <2> QED
      BY <1>2, <1>4, <1>5, ThenClosed
  <1>8. Kept(world, own, latest', b)
    BY <1>3 DEF Kept
  <1>9. CASE Ends(r, i, b, "blocked")
    <2>1. i.tx = inv[r].tx /\ i.count \in Nat /\ Running(inv[r]) /\ "blocked" \in Undone
      BY <1>2 DEF Undone
    <2> HIDE DEF a, b, i
    <2>2. IInv' /\ NotDone
      BY <1>4, <1>7, <1>8, <1>9, <2>1, EndsKeeps
    <2> QED
      BY <2>2 DEF NotDone, AsBuilt
  <1>10. CASE /\ tx' = b /\ job' = [job EXCEPT !.status = "completed", !.placed = i.count]
              /\ Goes(r, [Fresh EXCEPT !.pc = "done"])
    <2>1. job' \in Jobs
      BY <1>1, <1>2, <1>10 DEF Jobs
    <2>2. Over(job', own, tx')
      BY <1>3, <1>7, <1>10 DEF Over
    <2>3. IInv'
      BY <1>2, <1>4, <1>7, <1>8, <1>10, <2>1, <2>2, Leaves
    <2>4. inv'[r].pc = "done"
      BY <1>10, DoneFacts DEF Goes, IInv, Typed
    <2>5. \A u \in Units : world[u] = "unit" \/ u \in i.since
      BY <1>1, SeesAll DEF Part
    <2> QED
      BY <1>1, <2>3, <2>4, <2>5 DEF AsBuilt
  <1> QED
    BY <1>6, <1>9, <1>10 DEF Succeeds

(* The comparison decides.                                                 *)
LEMMA VerifiedKeeps ==
  ASSUME IInv, NEW r \in Runs, Verified(r)
  PROVE  IInv' /\ AsBuilt
  <1> DEFINE i == inv[r]
  <1>1. i.pc = "verify" /\ i \in Invocation /\ Part(r, i, tx, world, own) /\ job \in Jobs
        /\ Through(i, "verify")
    BY DEF Verified, Through, IInv, Typed
  <1>2. Running(i) /\ ~AtCell(i) /\ i.tx # 0 /\ i.pc # "scan" /\ i.phase \in Phases
        /\ (i.phase # "report" => i.result = "ok")
        /\ (i.phase = "report" => i.result \in {"blocked", "failed"})
    BY <1>1 DEF Running, AtCell, Part, Shaped, Invocation
  <1>3. i.click = "no" /\ Standing(i) = {} /\ i.count \in Nat
    BY <1>1, <1>2, NoClick DEF Invocation
  <1>4. UNCHANGED <<world, own, latest, edits, faults>>
    BY DEF Verified
  <1>5. NotDone => AsBuilt
    BY DEF NotDone, AsBuilt
  <1>6. CASE \E s \in Undone : Ends(r, i, tx, s)
    <2>1. PICK s \in Undone : Ends(r, i, tx, s)
      BY <1>6
    <2>2. IInv' /\ NotDone
      BY <1>2, <1>4, <2>1, EndsHere
    <2> QED
      BY <1>5, <2>2
  <1>7. CASE ~i.aborted /\ i.phase # "report" /\ Matches(i) /\ Succeeds(r, i)
    BY <1>1, <1>4, <1>7, SucceedsKeeps DEF Matches
  <1>8. CASE Reports(r, i, "blocked")
    <2>1. IInv' /\ NotDone
      BY <1>2, <1>4, <1>8, ReportsKeeps
    <2> QED
      BY <1>5, <2>1
  <1>9. CASE /\ i.phase = "primary" /\ Goes(r, [Looks(i, "collect", "repair") EXCEPT !.count = i.count])
             /\ job' = [job EXCEPT !.placed = i.count] /\ UNCHANGED tx
    <2>1. job' \in Jobs /\ NotDone
      BY <1>1, <1>3, <1>9 DEF Jobs, NotDone
    <2>2. i.result = "ok" /\ "ok" \in Results /\ "repair" \in Phases /\ inv[r].result = "ok"
      BY <1>2, <1>9 DEF Results, Phases
    <2>3. inv[r] = i
      OBVIOUS
    <2>4. Goes(r, [Looks(i, "collect", "repair") EXCEPT !.count = i.count]) /\ tx' = tx
      BY <1>9
    <2> HIDE DEF i
    <2>5. IInv' /\ NotDone
      BY <1>1, <1>2, <1>3, <1>4, <2>1, <2>2, <2>3, <2>4, LooksKeeps
    <2> QED
      BY <1>5, <2>5
  <1>10. \/ Interrupted(r, i) \/ (i.phase = "report" /\ Ends(r, i, tx, i.result))
         \/ (~i.aborted /\ i.phase # "report" /\ Matches(i) /\ Succeeds(r, i))
         \/ Ends(r, i, tx, "blocked") \/ Reports(r, i, "blocked")
         \/ (/\ i.phase = "primary" /\ Goes(r, [Looks(i, "collect", "repair") EXCEPT !.count = i.count])
             /\ job' = [job EXCEPT !.placed = i.count] /\ UNCHANGED tx)
    BY <1>2 DEF Verified, Phases
  <1>11. Interrupted(r, i) => Ends(r, i, tx, "blocked")
    BY DEF Interrupted
  <1> QED
    BY <1>2, <1>6, <1>7, <1>8, <1>9, <1>10, <1>11 DEF Undone

-----------------------------------------------------------------------------
(***************************************************************************)
(* Everyone else: the job, the signal, the next handler, another player.   *)
(***************************************************************************)
LEMMA JobKeeps ==
  ASSUME IInv, job' \in Jobs, NotDone, UNCHANGED <<world, own, tx, latest, inv, edits, faults>>
  PROVE  IInv' /\ NotDone
  <1>1. Over(job', own, tx)
    BY DEF IInv, Over, NotDone
  <1>2. Typed'
    BY DEF IInv, Typed
  <1> QED
    BY <1>1, <1>2 DEF IInv

LEMMA HoldKeeps ==
  ASSUME IInv, Hold
  PROVE  IInv' /\ NotDone
  <1>1. job \in Jobs /\ job' = [job EXCEPT !.status = "paused"]
    BY DEF Hold, IInv, Typed
  <1>2. job' \in Jobs /\ NotDone
    BY <1>1 DEF Jobs, NotDone
  <1> QED
    BY <1>2, JobKeeps DEF Hold

LEMMA ResumeKeeps ==
  ASSUME IInv, Resume
  PROVE  IInv' /\ NotDone
  <1> DEFINE p == job.plan + 1
  <1>1. job \in Jobs /\ job' = [job EXCEPT !.status = "pending", !.plan = p] /\ p \in Plans
    BY DEF Resume, IInv, Typed
  <1> HIDE DEF p
  <1>2. job' \in Jobs /\ NotDone
    BY <1>1 DEF Jobs, NotDone
  <1> QED
    BY <1>2, JobKeeps DEF Resume

(* An invocation that is told to stop, and is otherwise where it was.      *)
Stopped(i, j) ==
  /\ j \in Invocation /\ SameCell(i, j) /\ ~Acts(j)
  /\ j.click = i.click /\ j.tx = i.tx /\ j.phase = i.phase /\ j.result = i.result
  /\ j.pos = i.pos /\ j.issues = i.issues /\ j.since = i.since

LEMMA StoppedPart ==
  ASSUME NEW r, NEW i, NEW j, NEW w, NEW o, NEW table, Part(r, i, table, w, o), Stopped(i, j)
  PROVE  Part(r, j, table, w, o)
  <1>1. /\ Row(i) = Row(j) /\ Current(i) = Current(j) /\ AtCell(i) = AtCell(j)
        /\ i.pc = j.pc /\ i.todo = j.todo /\ i.stood = j.stood
    BY SameCellSame DEF Stopped, SameCell
  <1>2. Shaped(j) /\ Compared(j, w)
    BY <1>1 DEF Part, Shaped, Compared, Stopped
  <1>3. Clear(j, table) /\ Clean(j, table, o) /\ Below(j, table)
    BY DEF Stopped, Clear, Clean, Below
  <1>4. Journaled(r, j, table)
    BY <1>1 DEF Part, Journaled, Stopped
  <1> QED
    BY <1>2, <1>3, <1>4 DEF Part

LEMMA AbortedIs ==
  ASSUME NEW i \in Invocation, NEW b \in BOOLEAN, Running(i) => b
  PROVE  Stopped(i, [i EXCEPT !.aborted = b])
  <1> DEFINE j == [i EXCEPT !.aborted = b]
  <1>1. /\ j \in Invocation /\ j.pc = i.pc /\ j.aborted = b /\ j.todo = i.todo /\ j.stood = i.stood
        /\ j.propped = i.propped /\ j.click = i.click /\ j.tx = i.tx /\ j.phase = i.phase
        /\ j.result = i.result /\ j.pos = i.pos /\ j.issues = i.issues /\ j.since = i.since
    BY DEF Invocation
  <1> HIDE DEF j
  <1>2. Stopped(i, j)
    BY <1>1 DEF Stopped, SameCell, Acts, Running
  <1> QED
    BY <1>2 DEF j

(* The signal says stop; the handler finds out later.                      *)
LEMMA AbortKeeps ==
  ASSUME IInv, NEW r \in Runs, Abort(r)
  PROVE  IInv' /\ NotDone
  <1> DEFINE j == [inv[r] EXCEPT !.aborted = TRUE]
  <1>1. inv[r] \in Invocation /\ Stopped(inv[r], j) /\ inv' = [inv EXCEPT ![r] = j]
        /\ UNCHANGED <<world, own, job, tx, latest, edits, faults>>
    BY AbortedIs DEF Abort, Goes, IInv, Typed
  <1> HIDE DEF j
  <1>2. /\ inv' \in [Runs -> Invocation] /\ inv'[r] = j /\ \A q \in Runs \ {r} : inv'[q] = inv[q]
    BY <1>1 DEF IInv, Typed, Stopped
  <1>3. ASSUME NEW q \in Runs
        PROVE  Part(q, inv'[q], tx, world, own)
    <2>1. Part(q, inv[q], tx, world, own)
      BY DEF IInv
    <2>2. CASE q = r
      BY <1>1, <1>2, <2>1, <2>2, StoppedPart
    <2>3. CASE q # r
      BY <1>2, <2>1, <2>3
    <2> QED
      BY <2>2, <2>3
  <1>4. \A q \in Runs : /\ Acts(inv'[q]) => Acts(inv[q])
                        /\ inv'[q].tx = inv[q].tx /\ inv'[q].click = inv[q].click
    BY <1>1, <1>2 DEF Stopped
  <1>5. OneActs(inv')
    BY <1>4 DEF IInv, OneActs
  <1>6. Typed'
    BY <1>1, <1>2 DEF IInv, Typed
  <1>7. IInv'
    BY <1>1, <1>3, <1>5, <1>6 DEF IInv
  <1> QED
    BY <1>1, <1>7 DEF NotDone

(* A handler starts, and whoever ran is aborted.                           *)
LEMMA StartKeeps ==
  ASSUME IInv, NEW r \in Runs, Start(r)
  PROVE  IInv' /\ NotDone
  <1> DEFINE b(q) == inv[q].pc \notin {"none", "done"}
             new == [Fresh EXCEPT !.pc = "scan", !.plan = job.plan]
             old(q) == [inv[q] EXCEPT !.aborted = b(q)]
  <1>1. /\ inv[r].pc = "none" /\ job \in Jobs /\ inv \in [Runs -> Invocation]
        /\ job' = [job EXCEPT !.status = "running"]
        /\ inv' = [q \in Runs |-> IF q = r THEN new ELSE old(q)]
        /\ UNCHANGED <<world, own, tx, latest, edits, faults>>
    BY DEF Start, IInv, Typed
  <1>2. job' \in Jobs /\ job'.status # "completed"
    BY <1>1 DEF Jobs
  <1>3. /\ new \in Invocation /\ new.pc = "scan" /\ new.tx = 0 /\ new.click = "no"
        /\ new.phase = "primary" /\ new.result = "ok"
    <2>1. job.plan \in Plans
      BY <1>1 DEF Jobs
    <2> QED
      BY <2>1 DEF Fresh, Invocation, Stages, Phases, Results, Click
  <1>4. ASSUME NEW q \in Runs
        PROVE  Stopped(inv[q], old(q))
    BY <1>1, AbortedIs DEF Running
  <1>5. inv'[r] = new /\ \A q \in Runs \ {r} : inv'[q] = old(q)
    BY <1>1
  <1> HIDE DEF new, old, b
  <1>6. inv' \in [Runs -> Invocation]
    BY <1>1, <1>3, <1>4 DEF Stopped
  <1>7. Part(r, new, tx, world, own)
    <2>1. tx[r].status = "none"
      BY <1>1, Numbers DEF IInv, Part, Shaped, Journaled, AtCell
    <2>2. Shaped(new) /\ Compared(new, world) /\ Clear(new, tx) /\ Clean(new, tx, own) /\ Below(new, tx)
      BY <1>3 DEF Shaped, Compared, Clear, Clean, Below, AtCell
    <2>3. Journaled(r, new, tx)
      BY <1>3, <2>1 DEF Journaled
    <2> QED
      BY <2>2, <2>3 DEF Part
  <1>8. ASSUME NEW q \in Runs
        PROVE  Part(q, inv'[q], tx, world, own)
    <2>1. Part(q, inv[q], tx, world, own)
      BY DEF IInv
    <2>2. CASE q = r
      BY <1>5, <1>7, <2>2
    <2>3. CASE q # r
      BY <1>4, <1>5, <2>1, <2>3, StoppedPart
    <2> QED
      BY <2>2, <2>3
  <1>9. OneActs(inv')
    <2>1. \A q \in Runs \ {r} : /\ ~Acts(inv'[q])
                                /\ inv'[q].tx = inv[q].tx /\ inv'[q].click = inv[q].click
      BY <1>4, <1>5 DEF Stopped
    <2>2. inv'[r].tx = 0 /\ inv'[r].click = "no"
      BY <1>3, <1>5
    <2> QED
      BY <2>1, <2>2 DEF IInv, OneActs
  <1>10. Typed' /\ Over(job', own, tx)
    BY <1>1, <1>2, <1>6 DEF IInv, Typed, Over
  <1>11. IInv'
    BY <1>1, <1>8, <1>9, <1>10 DEF IInv
  <1> QED
    BY <1>2, <1>11 DEF NotDone

-----------------------------------------------------------------------------
(* Another player's edit.                                                  *)
LEMMA EditKeeps ==
  ASSUME IInv, NEW c \in Cells, Edit(c)
  PROVE  IInv' /\ NotDone
  <1> DEFINE new(q) == [inv[q] EXCEPT !.since = @ \cup ({c} \cap Units)]
  <1>1. PICK b \in Blocks \ {world[c]} : world' = [world EXCEPT ![c] = b]
    BY DEF Edit
  <1>2. /\ own' = own \ {c} /\ edits' = edits + 1
        /\ inv' = [q \in Runs |-> IF inv[q].pc = "verify" THEN new(q) ELSE inv[q]]
        /\ UNCHANGED <<job, tx, latest, faults>>
    BY DEF Edit
  <1>3. world' \in [Cells -> Blocks] /\ \A d \in Cells \ {c} : world'[d] = world[d]
    BY <1>1 DEF IInv, Typed
  <1>4. own' \subseteq own /\ own \subseteq Supports
    BY <1>2 DEF IInv, Typed
  <1>5. ASSUME NEW q \in Runs
        PROVE  /\ inv'[q] \in Invocation /\ Part(q, inv'[q], tx, world', own')
               /\ Acts(inv'[q]) = Acts(inv[q]) /\ inv'[q].tx = inv[q].tx
               /\ inv'[q].click = inv[q].click
    <2> DEFINE i == inv[q]
               j == inv'[q]
               since == i.since \cup ({c} \cap Units)
    <2>1. i \in Invocation /\ Part(q, i, tx, world, own)
      BY DEF IInv, Typed
    <2>2. CASE i.pc = "verify"
      <3>1. j = [i EXCEPT !.since = since]
        BY <1>2, <2>2
      <3>2. since \subseteq Units
        BY <2>1 DEF Invocation
      <3> HIDE DEF since
      <3>3. /\ j \in Invocation /\ j.pc = i.pc /\ j.aborted = i.aborted /\ j.todo = i.todo
            /\ j.stood = i.stood /\ j.propped = i.propped /\ j.click = i.click /\ j.tx = i.tx
            /\ j.phase = i.phase /\ j.result = i.result /\ j.pos = i.pos /\ j.issues = i.issues
            /\ j.since = since
        BY <2>1, <3>1, <3>2 DEF Invocation
      <3> HIDE DEF i, j
      <3>4. Acts(j) = Acts(i) /\ ~AtCell(j) /\ ~AtCell(i)
        BY <2>2, <3>3 DEF Acts, Running, AtCell
      <3>5. j.click = "no" /\ Standing(j) = {} /\ Standing(i) = {}
        BY <2>1, <3>3, <3>4 DEF Part, Shaped, Standing
      <3>6. Shaped(j)
        BY <2>1, <3>3, <3>4 DEF Part, Shaped
      <3>7. Compared(j, world')
        <4>1. j.pos # 0
          BY <2>1, <2>2, <3>3 DEF Part, Compared
        <4>2. ASSUME NEW u \in Units, u < j.pos
              PROVE  world'[u] = "unit" \/ u \in j.since \/ j.issues # {}
          <5>1. world[u] = "unit" \/ u \in i.since \/ i.issues # {}
            BY <2>1, <2>2, <3>3, <4>2 DEF Part, Compared
          <5>2. u # c => world'[u] = world[u]
            BY <1>3 DEF Cells
          <5>3. u = c => u \in since
            BY DEF since
          <5>4. i.since \subseteq since
            BY DEF since
          <5> QED
            BY <3>3, <5>1, <5>2, <5>3, <5>4
        <4> QED
          BY <4>1, <4>2 DEF Compared
      <3>8. Clear(j, tx) /\ Below(j, tx)
        BY <2>1, <2>2, <3>3, <3>4 DEF Part, Clear, Below
      <3>9. Clean(j, tx, own')
        <4>1. Clean(i, tx, own) /\ InHand(i) = {} /\ InHand(j) = {} /\ i.click = "no"
          BY <2>1, <3>3, <3>5 DEF Part, InHand
        <4> QED
          BY <1>4, <3>3, <3>4, <3>5, <4>1 DEF Clean
      <3>10. Journaled(q, j, tx)
        BY <2>1, <3>3, <3>5 DEF Part, Journaled
      <3>11. Part(q, j, tx, world', own')
        BY <3>6, <3>7, <3>8, <3>9, <3>10 DEF Part
      <3> QED
        BY <3>3, <3>4, <3>11 DEF i, j
    <2>3. CASE i.pc # "verify"
      <3>1. j = i
        BY <1>2, <2>3
      <3> HIDE DEF i, j
      <3>2. Compared(i, world')
        BY <2>3 DEF Compared
      <3>3. Clean(i, tx, own')
        BY <1>4, <2>1 DEF Part, Clean
      <3>4. Part(q, i, tx, world', own')
        BY <2>1, <3>2, <3>3 DEF Part
      <3> QED
        BY <2>1, <3>1, <3>4 DEF i, j
    <2> QED
      BY <2>2, <2>3
  <1> HIDE DEF new
  <1>6. inv' \in [Runs -> Invocation]
    <2>1. inv' = [q \in Runs |-> inv'[q]]
      BY <1>2
    <2> QED
      BY <1>5, <2>1
  <1>7. OneActs(inv')
    BY <1>5 DEF IInv, OneActs
  <1>8. Kept(world', own', latest, tx)
    <2>1. ASSUME NEW d \in own'
          PROVE  d \in own /\ world'[d] = world[d]
      <3>1. d \in own /\ d # c /\ d \in Cells
        BY <1>2, <1>4 DEF Cells
      <3> QED
        BY <1>3, <3>1
    <2> QED
      BY <2>1 DEF IInv, Kept
  <1>9. Over(job, own', tx)
    BY <1>4 DEF IInv, Over
  <1>10. Typed'
    BY <1>2, <1>3, <1>4, <1>6 DEF IInv, Typed
  <1>11. IInv'
    BY <1>2, <1>5, <1>7, <1>8, <1>9, <1>10 DEF IInv
  <1> QED
    BY <1>2, <1>11 DEF NotDone

-----------------------------------------------------------------------------
(***************************************************************************)
(* The bot spawns again, or starts again.                                  *)
(***************************************************************************)
(* Nobody acts, and no click is waited for: what the attempts hold matters *)
(* for the journal only.                                                   *)
LEMMA IdlePart ==
  ASSUME NEW r \in Runs, NEW i \in Invocation, Part(r, i, tx, world, own), ~Acts(i),
         i.click # "sent", NEW table,
         \A t \in Runs : table[t].used = tx[t].used /\ (table[t].status = "none" <=> tx[t].status = "none")
  PROVE  Part(r, i, table, world, own)
  <1>1. Clear(i, table) /\ Clean(i, table, own) /\ Below(i, table)
    BY DEF Clear, Clean, Below
  <1>2. i.tx \in Runs \cup {0} /\ (i.click # "no" => i.tx # 0)
    BY DEF Part, Shaped, AtCell, Invocation
  <1>3. Journaled(r, i, table)
    BY <1>2 DEF Part, Journaled
  <1> QED
    BY <1>1, <1>3 DEF Part

(* The bot spawned again: every open click is judged by what stands.       *)
LEMMA ReconcileKeeps ==
  ASSUME IInv, Reconcile
  PROVE  IInv' /\ NotDone
  <1> DEFINE unmet(row) == world[row[1]] # row[2]
             bad(t) == tx[t].spoiled \/ \E row \in tx[t].planned : unmet(row)
             judged(t) == [tx[t] EXCEPT !.planned = {}, !.spoiled = bad(t)]
             rows == UNION {tx[t].planned : t \in Open}
             answered(r) == [inv[r] EXCEPT !.click = "answered"]
  <1>1. /\ \A r \in Runs : inv[r].pc \in {"none", "done"} \/ inv[r].aborted
        /\ tx' = [t \in Runs |-> IF t \in Open THEN Completed(judged(t)) ELSE tx[t]]
        /\ latest' = [c \in Supports |-> LatestAfter(rows, c)]
        /\ inv' = [r \in Runs |-> IF inv[r].click = "sent" THEN answered(r) ELSE inv[r]]
        /\ UNCHANGED <<world, own, job, edits, faults>>
    BY DEF Reconcile
  <1>2. Typed
    BY DEF IInv
  <1>3. ASSUME NEW t \in Runs
        PROVE  /\ tx'[t] \in Attempt /\ tx'[t].planned = {} /\ tx'[t].used = tx[t].used
               /\ tx'[t].status = "none" <=> tx[t].status = "none"
    <2>1. tx[t] \in Attempt
      BY <1>2 DEF Typed
    <2>2. CASE t \notin Open
      <3>1. tx'[t] = tx[t] /\ tx[t].planned = {}
        BY <1>1, <2>2 DEF IInv, Resolved, Open
      <3> QED
        BY <2>1, <3>1
    <2>3. CASE t \in Open
      <3> DEFINE a == judged(t)
                 b == Completed(a)
      <3>1. tx'[t] = b /\ tx[t].status = "open"
        BY <1>1, <2>3 DEF Open
      <3>2. tx[t].spoiled \in BOOLEAN
        BY <2>1 DEF Attempt
      <3>3. bad(t) \in BOOLEAN
        BY <3>2
      <3> HIDE DEF bad
      <3>4. a \in Attempt /\ a.planned = {} /\ a.used = tx[t].used /\ a.status = "open"
        BY <2>1, <3>1, <3>3 DEF Attempt
      <3> HIDE DEF a
      <3>5. /\ b \in Attempt /\ b.used = a.used /\ b.planned = a.planned
            /\ b.status = a.status \/ b.status \in {"completed", "ended"}
        BY <3>4, ClosedFacts
      <3> HIDE DEF b
      <3> QED
        BY <3>1, <3>4, <3>5
    <2> QED
      BY <2>2, <2>3
  <1>4. \A t \in Runs : \A p \in tx[t].planned : p \in rows
    BY DEF IInv, Resolved, Open
  <1>5. latest' = [c \in Supports |-> LatestAfter(rows, c)]
    BY <1>1
  <1> HIDE DEF rows, judged, bad, unmet
  <1>6. latest' \in [Supports -> Verdicts] /\ Kept(world, own, latest', tx')
    BY <1>4, <1>5, LatestKept
  <1>7. ASSUME NEW q \in Runs
        PROVE  /\ inv'[q] \in Invocation /\ inv'[q].click # "sent" /\ ~Acts(inv'[q])
               /\ Part(q, inv'[q], tx', world, own) /\ inv'[q].tx = inv[q].tx
               /\ inv'[q].click # "no" <=> inv[q].click # "no"
    <2> DEFINE i == inv[q]
               j == inv'[q]
    <2>1. i \in Invocation /\ Part(q, i, tx, world, own)
      BY DEF IInv, Typed
    <2>2. ~Acts(i)
      BY <1>1 DEF Acts, Running
    <2>3. CASE i.click = "sent"
      <3>1. j = [i EXCEPT !.click = "answered"]
        BY <1>1, <2>3
      <3> HIDE DEF i, j
      <3>2. /\ j \in Invocation /\ j.pc = i.pc /\ j.aborted = i.aborted /\ j.todo = i.todo
            /\ j.stood = i.stood /\ j.propped = i.propped /\ j.click = "answered" /\ j.tx = i.tx
            /\ j.phase = i.phase /\ j.result = i.result /\ j.pos = i.pos /\ j.issues = i.issues
            /\ j.since = i.since
        BY <2>1, <3>1 DEF Invocation, Click
      <3>3. ~Acts(j) /\ SameCell(i, j)
        BY <2>2, <3>2 DEF Acts, Running, SameCell
      <3>4. Shaped(j)
        <4>1. Current(j) = Current(i) /\ AtCell(j) = AtCell(i)
          BY <3>3, SameCellSame
        <4> QED
          BY <2>1, <2>3, <3>2, <4>1 DEF Part, Shaped
      <3>5. Compared(j, world) /\ Clear(j, tx) /\ Clean(j, tx, own) /\ Below(j, tx)
        BY <2>1, <3>2, <3>3 DEF Part, Compared, Clear, Clean, Below
      <3>6. Journaled(q, j, tx)
        BY <2>1, <2>3, <3>2 DEF Part, Journaled
      <3>7. Part(q, j, tx, world, own)
        BY <3>4, <3>5, <3>6 DEF Part
      <3>8. Part(q, j, tx', world, own)
        BY <1>3, <3>2, <3>3, <3>7, IdlePart
      <3> QED
        BY <2>3, <3>2, <3>3, <3>8 DEF i, j
    <2>4. CASE i.click # "sent"
      <3>1. j = i
        BY <1>1, <2>4
      <3> HIDE DEF i, j
      <3>2. Part(q, i, tx', world, own)
        BY <1>3, <2>1, <2>2, <2>4, IdlePart
      <3> QED
        BY <2>1, <2>2, <2>4, <3>1, <3>2 DEF i, j
    <2> QED
      BY <2>3, <2>4
  <1>8. inv' \in [Runs -> Invocation]
    <2>1. inv' = [q \in Runs |-> inv'[q]]
      BY <1>1
    <2> QED
      BY <1>7, <2>1
  <1>9. OneActs(inv')
    BY <1>7 DEF IInv, OneActs
  <1>10. tx' \in [Runs -> Attempt]
    <2>1. tx' = [t \in Runs |-> tx'[t]]
      BY <1>1
    <2> QED
      BY <1>3, <2>1
  <1>11. Resolved(tx') /\ Over(job, own, tx')
    BY <1>3 DEF Resolved, IInv, Over
  <1>12. Typed'
    BY <1>1, <1>2, <1>6, <1>8, <1>10 DEF Typed
  <1>13. IInv'
    BY <1>1, <1>6, <1>7, <1>9, <1>11, <1>12 DEF IInv
  <1> QED
    BY <1>1, <1>13 DEF NotDone

(* The process ends: no handler is left, every open click stays open.      *)
LEMMA CrashKeeps ==
  ASSUME IInv, Crash
  PROVE  IInv' /\ NotDone
  <1> DEFINE over == [Fresh EXCEPT !.pc = "done"]
  <1>1. /\ inv' = [r \in Runs |-> IF inv[r].pc = "none" THEN Fresh ELSE over]
        /\ tx' = [t \in Runs |-> Completed(tx[t])] /\ faults' = faults + 1
        /\ UNCHANGED <<world, own, job, latest, edits>>
    BY DEF Crash
  <1>2. Typed
    BY DEF IInv
  <1>3. ASSUME NEW t \in Runs
        PROVE  /\ tx'[t] \in Attempt /\ tx'[t].planned = tx[t].planned /\ tx'[t].used = tx[t].used
               /\ tx'[t].status = "none" <=> tx[t].status = "none"
               /\ tx'[t].planned # {} => tx'[t].status = tx[t].status
    <2> DEFINE b == Completed(tx[t])
    <2>1. tx[t] \in Attempt /\ tx'[t] = b
      BY <1>1, <1>2 DEF Typed
    <2>2. /\ b \in Attempt /\ b.used = tx[t].used /\ b.planned = tx[t].planned
          /\ \/ b.status = tx[t].status
             \/ tx[t].status = "open" /\ b.planned = {} /\ b.status \in {"completed", "ended"}
      BY <2>1, ClosedFacts
    <2> HIDE DEF b
    <2> QED
      BY <2>1, <2>2
  <1>4. /\ over \in Invocation /\ over.pc = "done" /\ over.tx = 0 /\ over.click = "no"
        /\ over.phase = "primary" /\ over.result = "ok"
    BY DoneFacts
  <1>5. /\ Fresh \in Invocation /\ Fresh.pc = "none" /\ Fresh.tx = 0 /\ Fresh.click = "no"
        /\ Fresh.phase = "primary" /\ Fresh.result = "ok"
    BY DEF Fresh, Invocation, Stages, Phases, Results, Click
  <1> HIDE DEF over
  <1>6. ASSUME NEW q \in Runs
        PROVE  /\ inv'[q] \in Invocation /\ ~Acts(inv'[q]) /\ inv'[q].click = "no"
               /\ Part(q, inv'[q], tx', world, own)
    <2>1. CASE inv[q].pc = "none"
      <3>1. tx[q].status = "none"
        BY <2>1, Numbers DEF IInv, Part, Shaped, Journaled, AtCell
      <3>2. inv'[q] = Fresh /\ ~Acts(Fresh) /\ ~AtCell(Fresh)
        BY <1>1, <1>5, <2>1 DEF Acts, Running, AtCell
      <3>3. /\ Shaped(Fresh) /\ Compared(Fresh, world) /\ Clear(Fresh, tx')
            /\ Clean(Fresh, tx', own) /\ Below(Fresh, tx')
        BY <1>5, <3>2 DEF Shaped, Compared, Clear, Clean, Below
      <3>4. Journaled(q, Fresh, tx')
        BY <1>3, <1>5, <3>1 DEF Journaled
      <3> QED
        BY <1>5, <3>2, <3>3, <3>4 DEF Part
    <2>2. CASE inv[q].pc # "none"
      <3>1. inv'[q] = over
        BY <1>1, <2>2
      <3>2. /\ Shaped(over) /\ Compared(over, world) /\ Clear(over, tx') /\ Clean(over, tx', own)
            /\ Below(over, tx') /\ ~Acts(over)
        BY <1>4, DonePart
      <3>3. Journaled(q, over, tx')
        BY <1>4 DEF Journaled
      <3> QED
        BY <1>4, <3>1, <3>2, <3>3 DEF Part
    <2> QED
      BY <2>1, <2>2
  <1>7. inv' \in [Runs -> Invocation]
    <2>1. inv' = [q \in Runs |-> inv'[q]]
      BY <1>1
    <2> QED
      BY <1>6, <2>1
  <1>8. tx' \in [Runs -> Attempt]
    <2>1. tx' = [t \in Runs |-> tx'[t]]
      BY <1>1
    <2> QED
      BY <1>3, <2>1
  <1>9. OneActs(inv')
    BY <1>6 DEF OneActs
  <1>10. Resolved(tx') /\ Over(job, own, tx') /\ Kept(world, own, latest, tx')
    <2>1. Resolved(tx')
      BY <1>3 DEF IInv, Resolved
    <2>2. Over(job, own, tx')
      BY <1>3 DEF IInv, Over
    <2>3. Kept(world, own, latest, tx')
      BY <1>3, KeptSame DEF IInv
    <2> QED
      BY <2>1, <2>2, <2>3
  <1>11. Typed'
    BY <1>1, <1>2, <1>7, <1>8 DEF Typed
  <1>12. IInv'
    BY <1>1, <1>6, <1>9, <1>10, <1>11 DEF IInv
  <1> QED
    BY <1>1, <1>12 DEF NotDone

-----------------------------------------------------------------------------
(* A job that has not begun.                                               *)
LEMMA InitHolds == Init => IInv
  <1> SUFFICES ASSUME Init
               PROVE  IInv
    OBVIOUS
  <1>1. /\ Fresh \in Invocation /\ Fresh.pc = "none" /\ Fresh.tx = 0 /\ Fresh.click = "no"
        /\ Fresh.phase = "primary" /\ Fresh.result = "ok"
    BY DEF Fresh, Invocation, Stages, Phases, Results, Click
  <1>2. NoTx \in Attempt /\ NoTx.status = "none" /\ NoTx.planned = {}
    BY DEF NoTx, Attempt
  <1>3. job \in Jobs /\ job.status # "completed"
    BY BuildAssumption DEF Init, Jobs
  <1>4. \A r \in Runs : inv[r] = Fresh /\ tx[r] = NoTx
    BY DEF Init
  <1>5. ~Acts(Fresh) /\ ~AtCell(Fresh)
    BY <1>1 DEF Acts, Running, AtCell
  <1>6. ASSUME NEW r \in Runs
        PROVE  Part(r, inv[r], tx, world, own)
    <2>1. /\ Shaped(Fresh) /\ Compared(Fresh, world) /\ Clear(Fresh, tx) /\ Clean(Fresh, tx, own)
          /\ Below(Fresh, tx)
      BY <1>1, <1>5 DEF Shaped, Compared, Clear, Clean, Below
    <2>2. Journaled(r, Fresh, tx)
      BY <1>1, <1>2, <1>4 DEF Journaled
    <2> QED
      BY <1>4, <2>1, <2>2 DEF Part
  <1>7. OneActs(inv) /\ Resolved(tx) /\ Kept(world, own, latest, tx) /\ Over(job, own, tx)
    <2>1. OneActs(inv)
      BY <1>1, <1>4, <1>5 DEF OneActs
    <2>2. Resolved(tx)
      BY <1>2, <1>4 DEF Resolved
    <2>3. Kept(world, own, latest, tx) /\ Over(job, own, tx)
      BY <1>3 DEF Init, Kept, Over
    <2> QED
      BY <2>1, <2>2, <2>3
  <1>8. Typed
    <2>1. world \in [Cells -> Blocks] /\ own \subseteq Supports /\ edits \in Nat /\ faults \in Nat
      BY DEF Init, Blocks
    <2>2. latest \in [Supports -> Verdicts]
      BY DEF Init, Verdicts
    <2>3. inv \in [Runs -> Invocation] /\ tx \in [Runs -> Attempt]
      BY <1>1, <1>2 DEF Init
    <2> QED
      BY <1>3, <2>1, <2>2, <2>3 DEF Typed
  <1> QED
    BY <1>6, <1>7, <1>8 DEF IInv

(* Every step keeps the invariant, and completes the job as built only.    *)
LEMMA NextKeeps == IInv /\ [Next]_vars => IInv' /\ [AsBuilt]_vars
  <1> SUFFICES ASSUME IInv, [Next]_vars
               PROVE  IInv' /\ AsBuilt
    OBVIOUS
  <1>0. NotDone => AsBuilt
    BY DEF NotDone, AsBuilt
  <1>1. ASSUME NEW r \in Runs, Step(r)
        PROVE  IInv' /\ AsBuilt
    <2>1. CASE Verified(r)
      BY <2>1, VerifiedKeeps
    <2>2. CASE Look(r)
      BY <1>0, <2>2, LookKeeps
    <2>3. CASE Scanned(r)
      BY <1>0, <2>3, ScannedKeeps
    <2>4. CASE Prepare(r)
      BY <1>0, <2>4, PrepareKeeps
    <2>5. CASE NextUnit(r)
      BY <1>0, <2>5, NextUnitKeeps
    <2>6. CASE Place(r)
      BY <1>0, <2>6, PlaceKeeps
    <2>7. CASE Dig(r)
      BY <1>0, <2>7, DigKeeps
    <2>8. CASE Verdict(r)
      BY <1>0, <2>8, VerdictKeeps
    <2>9. CASE Collected(r)
      BY <1>0, <2>9, CollectedKeeps
    <2> QED
      BY <1>1, <2>1, <2>2, <2>3, <2>4, <2>5, <2>6, <2>7, <2>8, <2>9 DEF Step
  <1>2. ASSUME NEW r \in Runs, Start(r) \/ Lands(r) \/ Abort(r)
        PROVE  IInv' /\ AsBuilt
    BY <1>0, <1>2, StartKeeps, LandsKeeps, AbortKeeps
  <1>3. ASSUME NEW c \in Cells, Edit(c)
        PROVE  IInv' /\ AsBuilt
    BY <1>0, <1>3, EditKeeps
  <1>4. CASE Hold \/ Resume \/ Reconcile \/ Crash
    BY <1>0, <1>4, HoldKeeps, ResumeKeeps, ReconcileKeeps, CrashKeeps
  <1>5. CASE UNCHANGED vars
    <2>1. NotDone
      BY <1>5 DEF NotDone, vars
    <2>2. Typed'
      BY <1>5 DEF IInv, Typed, vars
    <2>3. IInv'
      BY <1>5, <2>2 DEF IInv, vars
    <2> QED
      BY <1>0, <2>1, <2>3
  <1> QED
    BY <1>1, <1>2, <1>3, <1>4, <1>5 DEF Next

(* Handler, journal, history and world agree in every state, whoever       *)
(* aborts, edits, answers late or restarts (buildBlueprint.ts, store.ts).  *)
THEOREM Invariant == Spec => []IInv
  <1>1. IInv /\ [Next]_vars => IInv'
    BY NextKeeps
  <1> QED
    BY InitHolds, <1>1, PTL DEF Spec

(* Every variable keeps its type.                                          *)
THEOREM TypeCorrect == Spec => []TypeOK
  BY Invariant, IInvTypes, PTL

(* A job is never completed while a support of its own stands: not one     *)
(* left by an abort, a process end, an uncertain click or an earlier plan  *)
(* (listResidualTemporarySupports, hasUncertainConstructionChange).        *)
THEOREM NothingLeftBehind == Spec => []NoSupportLeftBehind
  <1>1. IInv => NoSupportLeftBehind
    BY IInvImplies
  <1> QED
    BY Invariant, <1>1, PTL

(* No attempt clicks a cell of the job while an earlier click on it has no *)
(* verdict, under this plan or another (beginOrReuseConstructionAttempt).  *)
THEOREM ClickedOnce == Spec => []NoSecondClick
  <1>1. IInv => NoSecondClick
    BY IInvImplies
  <1> QED
    BY Invariant, <1>1, PTL

(* A job becomes completed by a comparison that saw every unit, but for    *)
(* those another player changed after it had passed them (verifyBuild).    *)
THEOREM CompletedAsBuilt == Spec => CompletedIsBuilt
  <1>1. IInv /\ [Next]_vars => [AsBuilt]_vars
    BY NextKeeps
  <1> QED
    BY Invariant, <1>1, PTL DEF Spec, CompletedIsBuilt, AsBuilt

=============================================================================
