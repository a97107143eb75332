----------------------------- MODULE TreeMoves -----------------------------
(***************************************************************************)
(* Moving pages in the tree: the drag and drop of js/tree/treeDragDrop.js, *)
(* the arrow keys of js/tree/tree.js, the planner of                       *)
(* js/tree/treeMovePlanner.js, the compaction of dense order values        *)
(* (js/tree/treeOrderCompaction.js), the undo of moves and of renames, and *)
(* the recovery of moves by their journal, all of js/storage/pageStorage.js*)
(* and js/storage/pageCommandService.js.                                   *)
(*                                                                         *)
(* What a move does to files, journal and queue is ScopedTreeMove; here a  *)
(* page's write lands and is published in one step, or fails.  The order   *)
(* values are whole numbers of some unit, and only those in Doubles can be *)
(* held by a page: doubles are the farther apart the larger they are.      *)
(***************************************************************************)
EXTENDS Integers, Sequences, FiniteSets

CONSTANTS
  Pages,       \* the pages, numbered as state.pages lists them
  Drops, Keys, \* bound: the moves by pointer and by key
  Compactions, \* bound: the compactions that the checkpoint queue runs
  Renames,     \* bound: the renames of pages
  Undos,       \* bound: the undos of moves, compactions and renames
  Recoveries,  \* bound: the recoveries of what the journal has
  MaxChanges,  \* bound: how many of all these one history has
  Doubles,     \* the numbers that there are
  One,         \* the number 1, in units
  MinGap,      \* DEFAULT_ORDER_COMPACTION_MIN_GAP
  Step,        \* DEFAULT_ORDER_COMPACTION_STEP
  Trees,       \* the parents that pages may have at first
  Orders,      \* the order values they have at first
  None

Moves   == Drops \cup Keys
Changes == Moves \cup Compactions \cup Undos \cup Recoveries
Actors  == Changes \cup Renames

ASSUME TreeAssumption ==
  /\ Pages \subseteq Nat /\ IsFiniteSet(Pages)
  /\ Moves \cap (Compactions \cup Undos \cup Recoveries \cup Renames) = {}
  /\ Drops \cap Keys = {}
  /\ Compactions \cap (Undos \cup Recoveries \cup Renames) = {}
  /\ Undos \cap (Recoveries \cup Renames) = {} /\ Recoveries \cap Renames = {}
  /\ Doubles \subseteq Int /\ One \in Nat \ {0}
  /\ MaxChanges \in Nat /\ MinGap \in Nat /\ Step \in Nat
  /\ Trees \subseteq [Pages -> Pages \cup {None}] /\ Orders \subseteq [Pages -> Int]
  /\ None \notin Pages \cup Actors

VARIABLES
  parent,   \* page.parent
  order,    \* page.order
  by,       \* who wrote the rest of the page's bytes: updatedAt, the title
  drag,     \* dragState: the page and its intent, or None
  stage,    \* where a change of the tree is
  before,   \* what it found on its pages, and has in the journal
  plan,     \* what it gives to them
  left,     \* the pages it still has to write
  queue,    \* the parents whose compaction is queued
  undoable, \* pageUndoEntries: what can be undone, the latest at the end
  overtaken \* history: the changes, and None for the drag, that go by a tree
            \* in which some page has got another parent since, or by one
            \* that had a cycle

vars == <<parent, order, by, drag, stage, before, plan, left, queue, undoable, overtaken>>

Parents == Pages \cup {None}
Modes   == {"before", "after", "inside"}
Stages  == {"idle", "guarding", "writing", "committing", "ended", "refused"}
Spot    == [parent : Parents, order : Int]
Bytes   == [parent : Parents, order : Int, by : Actors \cup {None}]
Intent  == [target : Pages, mode : Modes] \cup [target : {None}, mode : {"root"}]
Drag    == [page : Pages, intent : Intent \cup {None}]

ASSUME TreeValuesAssumption == None \notin Spot \cup Bytes \cup Intent \cup Drag

-----------------------------------------------------------------------------
(***************************************************************************)
(* The tree.  isDescendantOf follows page.parent: what it comes by is in   *)
(* every set that has the first parent and is closed under parents.        *)
(***************************************************************************)
IsClosed(S) == \A q \in S : parent[q] \in S \cup {None}

IsDescendantOf(t, p) ==
  \A S \in SUBSET Pages : IsClosed(S) /\ parent[t] \in S \cup {None} => p \in S

\* Pages that are their own ancestors in the tree T, and those below them.
Looping(T) == UNION {S \in SUBSET Pages : \A q \in S : T[q] \in S}

Loopless(T) == Looping(T) = {}

InLoop == Looping(parent)

Acyclic == Loopless(parent)

\* Along a cycle that p is not part of the walk never comes to an end.
WalkEnds(t, p) == t \in InLoop => IsDescendantOf(t, p)

\* Mutant: only the target's own parent is looked at.
CanMoveNear(p, t) == p # t /\ parent[t] # p

CanMovePage(p, t) == p # t /\ ~IsDescendantOf(t, p)

Children(q) == {p \in Pages : parent[p] = q}

\* The sort by order is stable: equal ones stay as they are listed.
Before(o, a, b) == o[a] < o[b] \/ (o[a] = o[b] /\ a < b)

\* Mutant: pages are taken as they are listed.
BeforeAsListed(a, b) == a < b

Earlier(a, b) == Before(order, a, b)

Last(S)  == {a \in S : \A b \in S \ {a} : Earlier(b, a)}
First(S) == {a \in S : \A b \in S \ {a} : Earlier(a, b)}

-----------------------------------------------------------------------------
(***************************************************************************)
(* The planner.  Each set below has the one value that the code computes.  *)
(***************************************************************************)
\* (a + b) / 2, rounded.  Of two nearest ones the last bit decides.
FromTwice(f, s) == IF 2 * f < s THEN s - 2 * f ELSE 2 * f - s

Mean(a, b) ==
  {o \in a..b : o \in Doubles /\ \A f \in a..b :
     f \in Doubles => FromTwice(o, a + b) <= FromTwice(f, a + b)}

\* Adding and taking 1 is exact for the values that orders have.
OrderBetween(prev, next) ==
  IF prev = {} THEN {order[b] - One : b \in next}
  ELSE IF next = {} THEN {order[a] + One : a \in prev}
  ELSE UNION {Mean(order[a], order[b]) : a \in prev, b \in next}

\* createSiblingMovePlan: t keeps its place among the siblings.
Siblings(p, t) == Children(parent[t]) \ {p}

Preceding(p, t, mode) ==
  {q \in Siblings(p, t) : Earlier(q, t) \/ (mode = "after" /\ q = t)}

PreviousPage(p, t, mode) == Last(Preceding(p, t, mode))
NextPage(p, t, mode)     == First(Siblings(p, t) \ Preceding(p, t, mode))

SiblingOrder(p, t, mode) == OrderBetween(PreviousPage(p, t, mode), NextPage(p, t, mode))

\* Date.now(), later than every order that has been given.
Now == {o \in {order[q] + One : q \in Pages} : \A q \in Pages : order[q] < o}

TreeMovePlan(p, t, mode) ==
  CASE mode = "root"   -> {[parent |-> None, order |-> o] : o \in Now}
    [] mode = "inside" -> {[parent |-> t, order |-> o] : o \in Now}
    [] OTHER -> {[parent |-> parent[t], order |-> o] : o \in SiblingOrder(p, t, mode)}

\* getOrderCompactionNeed: two siblings are closer than the least gap.
Crowded(q) ==
  \E a, b \in Children(q) : a # b /\ order[b] - order[a] \in 0..MinGap

\* createOrderCompactionPlan: the siblings in their order, far apart.
CompactOrder(q, p) == (1 + Cardinality({s \in Children(q) : Earlier(s, p)})) * Step

CompactionPlan(q) ==
  [p \in Pages |-> IF p \in Children(q) THEN [parent |-> q, order |-> CompactOrder(q, p)]
                   ELSE None]

-----------------------------------------------------------------------------
Init ==
  /\ parent  \in Trees /\ Acyclic
  /\ order   \in Orders
  /\ by      = [p \in Pages |-> None]
  /\ drag    = None
  /\ stage   = [a \in Actors |-> "idle"]
  /\ before  = [a \in Actors |-> [p \in Pages |-> None]]
  /\ plan    = [a \in Actors |-> [p \in Pages |-> None]]
  /\ left    = [a \in Actors |-> {}]
  /\ queue   = {}
  /\ undoable = <<>>
  /\ overtaken = {}

tree == <<parent, order, by>>

CanBegin(a) ==
  stage[a] = "idle" /\ Cardinality({b \in Actors : stage[b] # "idle"}) < MaxChanges

Content(p) == [parent |-> parent[p], order |-> order[p], by |-> by[p]]

PagesOf(pl) == {p \in Pages : pl[p] # None}

\* A change begins with plan pl, based on the loaded pages.
BeginAt(st, a, pl) ==
  /\ before' = [before EXCEPT ![a] = [p \in Pages |-> IF pl[p] # None THEN Content(p) ELSE None]]
  /\ plan'   = [plan EXCEPT ![a] = pl]
  /\ left'   = [left EXCEPT ![a] = PagesOf(pl)]
  /\ stage'  = [stage EXCEPT ![a] = st]

\* updatePageTreePositions changes parent, order and updatedAt.
Begin(a, spots) ==
  BeginAt("guarding", a, [p \in Pages |->
    IF spots[p] = None THEN None
    ELSE [parent |-> spots[p].parent, order |-> spots[p].order, by |-> a]])

\* The history of a change that goes by a tree that has been overtaken.
BeginOvertaken(a, already) ==
  overtaken' = IF already \/ ~Acyclic THEN overtaken \cup {a} ELSE overtaken

\* startTreePointerDrag takes the place of any drag that there is.
PointerDown(p) ==
  /\ drag' = [page |-> p, intent |-> None]
  /\ overtaken' = overtaken \ {None}
  /\ UNCHANGED <<stage, before, plan, left, queue, undoable>> /\ UNCHANGED tree

Aim(intent) ==
  /\ drag' = [drag EXCEPT !.intent = intent]
  /\ overtaken' = overtaken \ {None}
  /\ UNCHANGED <<stage, before, plan, left, queue, undoable>> /\ UNCHANGED tree

\* updateTreeDropIntent: over a row, the root zone, or neither.
PointerOverRow(t, mode) ==
  /\ drag # None /\ (t # drag.page => WalkEnds(t, drag.page))
  /\ Aim(IF CanMovePage(drag.page, t)
         THEN [target |-> t, mode |-> mode] ELSE None)

PointerOverRoot ==
  /\ drag # None
  /\ Aim(IF parent[drag.page] = None THEN None
         ELSE [target |-> None, mode |-> "root"])

PointerElsewhere == drag # None /\ Aim(None)

\* handleTreePointerUp plans from the pages of this moment, for the intent of
\* the last pointer move.  The drag is over when the move has been saved.
PointerUp(m) ==
  /\ drag # None /\ drag.intent # None /\ CanBegin(m)
  /\ \E spot \in TreeMovePlan(drag.page, drag.intent.target, drag.intent.mode) :
       Begin(m, [p \in Pages |-> IF p = drag.page THEN spot ELSE None])
  /\ BeginOvertaken(m, None \in overtaken)
  /\ UNCHANGED <<drag, queue, undoable>> /\ UNCHANGED tree

PointerUpNowhere ==
  /\ drag # None /\ drag.intent = None
  /\ drag' = None
  /\ UNCHANGED <<stage, before, plan, left, queue, undoable, overtaken>>
  /\ UNCHANGED tree

\* handleTreeKeyboardReorder: the check and the plan in one turn.
KeyboardReorder(m, p, t, mode) ==
  /\ CanBegin(m) /\ p # t /\ WalkEnds(t, p) /\ CanMovePage(p, t)
  /\ \E spot \in TreeMovePlan(p, t, mode) :
       Begin(m, [q \in Pages |-> IF q = p THEN spot ELSE None])
  /\ BeginOvertaken(m, FALSE)
  /\ UNCHANGED <<drag, queue, undoable>> /\ UNCHANGED tree

\* A queued compaction starts, if there is still need of it: one at a time.
CompactTreeOrder(c, q) ==
  /\ q \in queue /\ \A d \in Compactions : stage[d] \in {"idle", "ended", "refused"}
  /\ CanBegin(c)
  /\ queue' = queue \ {q}
  /\ IF Crowded(q) THEN Begin(c, CompactionPlan(q)) /\ BeginOvertaken(c, FALSE)
     ELSE UNCHANGED <<stage, before, plan, left, overtaken>>
  /\ UNCHANGED <<drag, undoable>> /\ UNCHANGED tree

\* A rename, in one step (PageCommand has the steps of it): what it leaves for
\* its undo is the page's whole content.
Rename(r, p) ==
  /\ CanBegin(r)
  /\ by'     = [by EXCEPT ![p] = r]
  /\ before' = [before EXCEPT ![r] = [q \in Pages |-> IF q = p THEN Content(p) ELSE None]]
  /\ plan'   = [plan EXCEPT ![r] = [q \in Pages |->
                  IF q = p THEN [Content(p) EXCEPT !.by = r] ELSE None]]
  /\ stage'  = [stage EXCEPT ![r] = "ended"]
  /\ undoable' = Append(undoable, r)
  /\ BeginOvertaken(r, FALSE)
  /\ UNCHANGED <<parent, order, left, drag, queue>>

\* The latest entry, or the latest of its type, is taken out, and nobody asks
\* canMovePage: undoTreePositionChanges gives the old parents and orders to the
\* pages as they are now, the undo of a rename writes the page's old bytes.
Undo(b, i) ==
  /\ CanBegin(b)
  /\ \A j \in DOMAIN undoable : j > i => (undoable[j] \in Renames) # (undoable[i] \in Renames)
  /\ undoable' = SubSeq(undoable, 1, i - 1) \o SubSeq(undoable, i + 1, Len(undoable))
  /\ IF undoable[i] \in Renames THEN BeginAt("writing", b, before[undoable[i]])
     ELSE Begin(b, before[undoable[i]])
  /\ BeginOvertaken(b, undoable[i] \in overtaken)
  /\ UNCHANGED <<drag, queue>> /\ UNCHANGED tree

RestoresRename(a) == a \in Undos /\ \E p \in PagesOf(plan[a]) : plan[a][p].by # a

\* The journal has it, be it pending, failed or committed.
Journaled(m) ==
  m \in Changes /\ stage[m] \in {"writing", "committing", "ended"} /\ ~RestoresRename(m)

\* recoverScopedTreeMove: every page has the bytes of before or of after, and
\* those that have the latter get the former, again without canMovePage.
Recover(b, m) ==
  LET written == {p \in PagesOf(plan[m]) : Content(p) # before[m][p]}
  IN /\ CanBegin(b) /\ Journaled(m)
     /\ written # {} /\ \A p \in written : Content(p) = plan[m][p]
     /\ BeginAt("guarding", b, [p \in Pages |-> IF p \in written THEN before[m][p] ELSE None])
     /\ BeginOvertaken(b, m \in overtaken)
     /\ UNCHANGED <<drag, queue, undoable>> /\ UNCHANGED tree

\* A write fails, or an editor save has changed a page.  What was written
\* stays, and a failed drop does not end its drag.
Fail(a) ==
  /\ stage[a] \in {"writing", "committing"}
  /\ stage' = [stage EXCEPT ![a] = "ended"]
  /\ left'  = [left EXCEPT ![a] = {}]
  /\ UNCHANGED <<drag, before, plan, queue, undoable, overtaken>> /\ UNCHANGED tree

\* A guard fails before anything is written, or the journal cannot be.
Refuse(a) ==
  /\ stage[a] = "guarding"
  /\ stage' = [stage EXCEPT ![a] = "refused"]
  /\ left'  = [left EXCEPT ![a] = {}]
  /\ plan'  = [plan EXCEPT ![a] = [p \in Pages |-> None]]
  /\ before' = [before EXCEPT ![a] = [p \in Pages |-> None]]
  /\ overtaken' = overtaken \ {a}
  /\ UNCHANGED <<drag, queue, undoable>> /\ UNCHANGED tree

IsFresh(a, p) == Content(p) = before[a][p]

\* The guards of all pages, and then the journal entry.
Guard(a) ==
  /\ stage[a] = "guarding" /\ \A p \in left[a] : IsFresh(a, p)
  /\ stage' = [stage EXCEPT ![a] = "writing"]
  /\ UNCHANGED <<drag, before, plan, left, queue, undoable, overtaken>>
  /\ UNCHANGED tree

\* Those that go by the tree there is.
Begun == {a \in Actors : stage[a] \notin {"idle", "refused"}}
           \cup (IF drag # None /\ drag.intent # None THEN {None} ELSE {})

\* Mutant: a page's content is compared before the first write only.
WriteUnguarded(a, p) == stage[a] = "writing" /\ p \in left[a]

\* Each page is guarded again, but for the undo of a rename.  The pages of a
\* compaction are written in its order.
MayWrite(a, p) ==
  /\ stage[a] = "writing" /\ p \in left[a]
  /\ IsFresh(a, p) \/ RestoresRename(a)
  /\ a \in Compactions => \A q \in left[a] : plan[a][p].order <= plan[a][q].order

LastPage(a, p) == left[a] = {p}

WritePage(a, p) ==
  /\ MayWrite(a, p)
  /\ parent' = [parent EXCEPT ![p] = plan[a][p].parent]
  /\ order'  = [order EXCEPT ![p] = plan[a][p].order]
  /\ by'     = [by EXCEPT ![p] = plan[a][p].by]
  /\ left'   = [left EXCEPT ![a] = @ \ {p}]
  /\ stage'  = IF LastPage(a, p) THEN [stage EXCEPT ![a] = "committing"] ELSE stage
  /\ overtaken' = IF parent' = parent THEN overtaken ELSE overtaken \cup (Begun \ {a})
  /\ UNCHANGED <<drag, before, plan, queue, undoable>>

\* The journal is committed.  Moves and compactions can be undone then; moves
\* and their undos ask for the compaction of the parents they moved pages to;
\* and the end of a drop ends the drag there is.
Finish(a) ==
  /\ stage[a] = "committing"
  /\ queue' = IF a \in Moves \cup Undos
              THEN queue \cup {q \in Parents : Crowded(q)
                                 /\ \E p \in PagesOf(plan[a]) : plan[a][p].parent = q
                                                              /\ plan[a][p].by = a}
              ELSE queue
  /\ undoable' = IF a \in Moves \cup Compactions THEN Append(undoable, a) ELSE undoable
  /\ drag'  = IF a \in Drops THEN None ELSE drag
  /\ stage' = [stage EXCEPT ![a] = "ended"]
  /\ UNCHANGED <<before, plan, left, overtaken>> /\ UNCHANGED tree

\* Bound: the pointer rests when no move is left to begin.
Pointer ==
  /\ \E m \in Drops : CanBegin(m)
  /\ \/ \E p \in Pages : PointerDown(p)
     \/ \E t \in Pages, mode \in Modes : PointerOverRow(t, mode)
     \/ PointerOverRoot
     \/ PointerElsewhere
     \/ PointerUpNowhere
     \/ \E m \in Drops : PointerUp(m)

Saving(a) ==
  \/ Guard(a)
  \/ Refuse(a)
  \/ \E p \in Pages : WritePage(a, p)
  \/ Finish(a)
  \/ Fail(a)

Next ==
  \/ Pointer
  \/ \E m \in Keys, p, t \in Pages, mode \in Modes : KeyboardReorder(m, p, t, mode)
  \/ \E c \in Compactions, q \in Parents : CompactTreeOrder(c, q)
  \/ \E r \in Renames, p \in Pages : Rename(r, p)
  \/ \E b \in Undos, i \in DOMAIN undoable : Undo(b, i)
  \/ \E b \in Recoveries, m \in Changes : Recover(b, m)
  \/ \E a \in Changes : Saving(a)

Spec == Init /\ [][Next]_vars

-----------------------------------------------------------------------------
TypeOK ==
  /\ parent \in [Pages -> Parents]
  /\ order \in [Pages -> Int]
  /\ by \in [Pages -> Actors \cup {None}]
  /\ drag \in Drag \cup {None}
  /\ stage \in [Actors -> Stages]
  /\ before \in [Actors -> [Pages -> Bytes \cup {None}]]
  /\ plan \in [Actors -> [Pages -> Bytes \cup {None}]]
  /\ left \in [Actors -> SUBSET Pages]
  /\ queue \subseteq Parents
  /\ undoable \in Seq(Actors)
  /\ overtaken \subseteq Actors \cup {None}

-----------------------------------------------------------------------------
(***************************************************************************)
(* The inductive invariant.                                                *)
(***************************************************************************)
\* A change writes pages of its plan, each of which it has found, and
\* nothing before it has begun.
PlanInv ==
  \A a \in Actors :
    /\ \A p \in Pages : plan[a][p] # None <=> before[a][p] # None
    /\ \A p \in left[a] : plan[a][p] # None /\ stage[a] \in {"guarding", "writing"}
    /\ a \in Compactions => \A p \in Pages : plan[a][p] # None => plan[a][p].parent = before[a][p].parent

\* What can be undone has been done.
UndoInv == \A i \in DOMAIN undoable : stage[undoable[i]] = "ended"

\* The trees that there are while a's writes, or their undo, are under way:
\* each of its pages at the old or at the new parent, the rest as it is.
MixedTrees(a) ==
  {T \in [Pages -> Parents] : \A p \in Pages :
     T[p] \in IF plan[a][p] = None THEN {parent[p]} ELSE {before[a][p].parent, plan[a][p].parent}}

\* For what nobody has overtaken none of these has a cycle.
MixInv ==
  \A a \in Begun \ (overtaken \cup {None}) :
    parent \in MixedTrees(a) /\ \A T \in MixedTrees(a) : Loopless(T)

DragInv ==
  None \in Begun \ overtaken =>
    drag.intent.mode = "root" \/ CanMovePage(drag.page, drag.intent.target)

TreeInv == TypeOK /\ PlanInv /\ UndoInv /\ MixInv /\ DragInv

-----------------------------------------------------------------------------

\* A page is put below itself only by a change that another one has overtaken:
\* some page has got another parent since canMovePage was asked, or since the
\* change was made that is now undone or recovered; or, for those, the tree
\* they bring back had a cycle.
OnlyOvertakenMovesMakeCycles ==
  [][Acyclic /\ ~Acyclic' =>
       \E a \in overtaken \ {None} : left'[a] # left[a]]_vars

\* Some number is between the new neighbours.
HasRoom(prev, next) ==
  \A a \in prev, b \in next : \E f \in order[a] + 1..order[b] - 1 : f \in Doubles

\* A page dropped before or after another one is shown next to it, on that
\* side, unless no number is left between its new neighbours.
DropLandsWhereShown ==
  \A p \in Pages : \A t \in Pages \ {p}, mode \in {"before", "after"} :
    HasRoom(PreviousPage(p, t, mode), NextPage(p, t, mode)) =>
      LET places == SiblingOrder(p, t, mode)
      IN /\ places # {}
         /\ \A o \in places :
              LET moved == [order EXCEPT ![p] = o]
              IN /\ Before(moved, p, t) <=> mode = "before"
                 /\ \A q \in Siblings(p, t) \ {t} :
                      Before(moved, q, p) <=> Before(moved, q, t)

\* Compaction runs in the background, while pages are moved: it never takes a
\* page back to the parent that it had when the compaction was planned.
CompactionMovesNoPage ==
  [][\A c \in Compactions :
       left'[c] # left[c] /\ stage[c] = "writing" => parent' = parent]_vars
=============================================================================
