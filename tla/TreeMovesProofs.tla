-------------------------- MODULE TreeMovesProofs --------------------------
(***************************************************************************)
(* Proofs about TreeMoves for every set of pages and of changes.           *)
(***************************************************************************)
EXTENDS TreeMoves, FiniteSetTheorems, SequenceTheorems, WellFoundedInduction, TLAPS

\* The orders the planner computes are numbers.
LEMMA OrderBetweenType ==
  ASSUME TypeOK, NEW prev \in SUBSET Pages, NEW next \in SUBSET Pages
  PROVE  OrderBetween(prev, next) \subseteq Int
<1>1. \A a \in Pages : order[a] \in Int
  BY DEF TypeOK
<1>2. One \in Int
  BY TreeAssumption
<1>3. CASE prev = {}
  BY <1>1, <1>2, <1>3 DEF OrderBetween
<1>4. CASE prev # {} /\ next = {}
  BY <1>1, <1>2, <1>4 DEF OrderBetween
<1>5. CASE prev # {} /\ next # {}
  <2>1. ASSUME NEW o \in OrderBetween(prev, next) PROVE o \in Int
    <3>1. PICK a \in prev, b \in next : o \in Mean(order[a], order[b])
      BY <1>5, <2>1 DEF OrderBetween
    <3> QED BY <1>1, <3>1 DEF Mean
  <2> QED BY <2>1
<1> QED BY <1>3, <1>4, <1>5

LEMMA PlanType ==
  ASSUME TypeOK, NEW p \in Pages, NEW t \in Parents, NEW mode \in Modes \cup {"root"},
         mode # "root" => t \in Pages
  PROVE  TreeMovePlan(p, t, mode) \subseteq Spot
<1>1. Now \subseteq Int
  <2>1. \A q \in Pages : order[q] + One \in Int
    BY TreeAssumption DEF TypeOK
  <2> QED BY <2>1 DEF Now
<1>2. ASSUME t \in Pages
      PROVE  parent[t] \in Parents /\ SiblingOrder(p, t, mode) \subseteq Int
  <2>1. PreviousPage(p, t, mode) \in SUBSET Pages /\ NextPage(p, t, mode) \in SUBSET Pages
    BY DEF PreviousPage, NextPage, Last, First, Preceding, Siblings, Children
  <2>2. OrderBetween(PreviousPage(p, t, mode), NextPage(p, t, mode)) \subseteq Int
    BY <2>1, OrderBetweenType
  <2> QED BY <1>2, <2>2 DEF SiblingOrder, TypeOK
<1>3. CASE mode = "root"
  BY <1>1, <1>3 DEF TreeMovePlan, Spot, Parents
<1>4. CASE mode = "inside"
  BY <1>1, <1>4 DEF TreeMovePlan, Spot, Parents
<1>5. CASE mode \in {"before", "after"}
  BY <1>2, <1>5 DEF TreeMovePlan, Spot, Parents
<1> QED BY <1>3, <1>4, <1>5 DEF Modes

LEMMA CompactionPlanType ==
  ASSUME TypeOK, NEW q \in Parents
  PROVE  CompactionPlan(q) \in [Pages -> Spot \cup {None}]
<1>1. ASSUME NEW p \in Pages
      PROVE  CompactOrder(q, p) \in Int
  <2>1. IsFiniteSet({s \in Children(q) : Earlier(s, p)})
    BY TreeAssumption, FS_Subset DEF Children
  <2>2. Cardinality({s \in Children(q) : Earlier(s, p)}) \in Nat
    BY <2>1, FS_CardinalityType
  <2> QED BY <2>2, TreeAssumption DEF CompactOrder
<1> QED BY <1>1 DEF CompactionPlan, Spot, Parents

-----------------------------------------------------------------------------
\* Some set of pages has q and its ancestors, but not p.
SafePlace(p, q) ==
  q = None \/ \E S \in SUBSET Pages : IsClosed(S) /\ q \in S /\ p \notin S

\* canMovePage allows only safe places: the target, its parent and the root.
LEMMA AllowedIsSafe ==
  ASSUME TypeOK, NEW p \in Pages, NEW t \in Pages, CanMovePage(p, t)
  PROVE  SafePlace(p, t) /\ SafePlace(p, parent[t])
<1>1. PICK S \in SUBSET Pages : IsClosed(S) /\ parent[t] \in S \cup {None} /\ p \notin S
  BY DEF CanMovePage, IsDescendantOf
<1>2. SafePlace(p, t)
  <2>1. IsClosed(S \cup {t}) /\ p \notin S \cup {t} /\ S \cup {t} \in SUBSET Pages
    BY <1>1 DEF IsClosed, CanMovePage
  <2> QED BY <2>1 DEF SafePlace
<1> QED BY <1>1, <1>2 DEF SafePlace

LEMMA PlanIsSafe ==
  ASSUME TypeOK, NEW p \in Pages, NEW t \in Parents, NEW mode \in Modes \cup {"root"},
         mode = "root" \/ (t \in Pages /\ CanMovePage(p, t)),
         NEW spot \in TreeMovePlan(p, t, mode)
  PROVE  SafePlace(p, spot.parent)
<1>1. CASE mode = "root"
  BY <1>1 DEF TreeMovePlan, SafePlace
<1>2. CASE mode = "inside"
  BY <1>2, AllowedIsSafe DEF TreeMovePlan
<1>3. CASE mode \in {"before", "after"}
  BY <1>3, AllowedIsSafe DEF TreeMovePlan
<1> QED BY <1>1, <1>2, <1>3 DEF Modes

\* A page that is moved to a safe place does not close a cycle.
LEMMA SafeMoveKeepsAcyclic ==
  ASSUME TypeOK, Acyclic, NEW p \in Pages, NEW q \in Parents, SafePlace(p, q)
  PROVE  Loopless([parent EXCEPT ![p] = q])
<1> DEFINE moved == [parent EXCEPT ![p] = q]
<1>1. ASSUME NEW C \in SUBSET Pages, \A c \in C : parent[c] \in C
      PROVE  C = {}
  BY <1>1 DEF Acyclic, Loopless, Looping
<1>2. SUFFICES ASSUME NEW C \in SUBSET Pages, \A c \in C : moved[c] \in C
               PROVE  C = {}
  BY DEF Loopless, Looping
<1>3. \A c \in C \ {p} : parent[c] \in C
  BY <1>2 DEF TypeOK
<1>4. CASE p \notin C
  BY <1>1, <1>3, <1>4
<1>5. CASE p \in C
  <2>1. q \in C /\ q # None
    <3>1. moved[p] = q
      BY DEF TypeOK
    <3>2. q \in C
      BY <1>2, <1>5, <3>1
    <3> QED BY <3>2, TreeAssumption
  <2>2. PICK S \in SUBSET Pages : IsClosed(S) /\ q \in S /\ p \notin S
    BY <2>1 DEF SafePlace
  <2>3. \A c \in C \cap S : parent[c] \in C \cap S
    BY <1>3, <2>2, TreeAssumption DEF IsClosed
  <2> QED BY <1>1, <2>1, <2>2, <2>3
<1> QED BY <1>4, <1>5

-----------------------------------------------------------------------------
(***************************************************************************)
(* What a step does, in the parts of the invariant.                        *)
(***************************************************************************)
\* A page's content is bytes.
LEMMA ContentType ==
  ASSUME TypeOK, NEW p \in Pages
  PROVE  Content(p) \in Bytes /\ Content(p) # None /\ Content(p).parent = parent[p]
BY TreeValuesAssumption DEF TypeOK, Content, Bytes

LEMMA Strangers ==
  /\ \A a \in Actors : a # None
  /\ Moves \subseteq Actors /\ Drops \subseteq Moves /\ Keys \subseteq Moves
  /\ Compactions \subseteq Actors /\ Undos \subseteq Actors /\ Recoveries \subseteq Actors
  /\ Renames \subseteq Actors /\ Changes \subseteq Actors
  /\ \A a \in Compactions : a \notin Moves \cup Undos \cup Recoveries \cup Renames
BY TreeAssumption DEF Actors, Changes, Moves

\* The beginning of a change.
LEMMA BeginDoes ==
  ASSUME TypeOK, NEW a \in Actors, NEW st \in Stages, NEW pl \in [Pages -> Bytes \cup {None}],
         BeginAt(st, a, pl)
  PROVE  /\ before' \in [Actors -> [Pages -> Bytes \cup {None}]]
         /\ plan' \in [Actors -> [Pages -> Bytes \cup {None}]]
         /\ left' \in [Actors -> SUBSET Pages] /\ stage' \in [Actors -> Stages]
         /\ plan'[a] = pl /\ left'[a] = PagesOf(pl) /\ stage'[a] = st
         /\ before'[a] = [p \in Pages |-> IF pl[p] # None THEN Content(p) ELSE None]
         /\ \A b \in Actors \ {a} : /\ plan'[b] = plan[b] /\ before'[b] = before[b]
                                    /\ left'[b] = left[b] /\ stage'[b] = stage[b]
<1> DEFINE found == [p \in Pages |-> IF pl[p] # None THEN Content(p) ELSE None]
<1>1. found \in [Pages -> Bytes \cup {None}]
  BY ContentType
<1>2. before' = [before EXCEPT ![a] = found]
  BY DEF BeginAt
<1>3. PagesOf(pl) \in SUBSET Pages
  BY DEF PagesOf
<1> HIDE DEF found
<1>4. /\ before' \in [Actors -> [Pages -> Bytes \cup {None}]] /\ before'[a] = found
      /\ \A b \in Actors \ {a} : before'[b] = before[b]
  BY <1>1, <1>2 DEF TypeOK
<1>5. /\ plan' \in [Actors -> [Pages -> Bytes \cup {None}]] /\ plan'[a] = pl
      /\ \A b \in Actors \ {a} : plan'[b] = plan[b]
  BY DEF TypeOK, BeginAt
<1>6. /\ left' \in [Actors -> SUBSET Pages] /\ left'[a] = PagesOf(pl)
      /\ \A b \in Actors \ {a} : left'[b] = left[b]
  BY <1>3 DEF TypeOK, BeginAt
<1>7. /\ stage' \in [Actors -> Stages] /\ stage'[a] = st
      /\ \A b \in Actors \ {a} : stage'[b] = stage[b]
  BY DEF TypeOK, BeginAt
<1> QED BY <1>4, <1>5, <1>6, <1>7 DEF found

\* The plan that gives new spots is one of bytes.
LEMMA SpotsAreBytes ==
  ASSUME NEW a \in Actors, NEW spots \in [Pages -> Spot \cup Bytes \cup {None}]
  PROVE  LET pl == [p \in Pages |-> IF spots[p] = None THEN None
                      ELSE [parent |-> spots[p].parent, order |-> spots[p].order, by |-> a]]
         IN /\ pl \in [Pages -> Bytes \cup {None}]
            /\ \A p \in Pages : pl[p] # None <=> spots[p] # None
            /\ \A p \in Pages : pl[p] # None => pl[p].parent = spots[p].parent
<1> DEFINE made(p) == [parent |-> spots[p].parent, order |-> spots[p].order, by |-> a]
<1>1. ASSUME NEW p \in Pages, spots[p] # None
      PROVE  made(p) \in Bytes /\ made(p) # None
  <2>1. spots[p] \in Spot \cup Bytes
    BY <1>1
  <2>2. spots[p].parent \in Parents /\ spots[p].order \in Int
    BY <2>1 DEF Spot, Bytes
  <2> QED BY <2>2, TreeValuesAssumption DEF Bytes
<1> QED BY <1>1

\* The plan of a move gives a place to its page alone.
LEMMA OnePagePlan ==
  ASSUME NEW p \in Pages, NEW spot \in Spot
  PROVE  [q \in Pages |-> IF q = p THEN spot ELSE None] \in [Pages -> Spot \cup Bytes \cup {None}]
OBVIOUS

LEMMA AimType ==
  ASSUME TypeOK, drag # None, NEW i \in Intent \cup {None}
  PROVE  [drag EXCEPT !.intent = i] \in Drag
BY DEF TypeOK, Drag

\* An entry that is taken out of the undo list.
LEMMA TakenOut ==
  ASSUME NEW s \in Seq(Actors), NEW i \in DOMAIN s
  PROVE  LET r == SubSeq(s, 1, i - 1) \o SubSeq(s, i + 1, Len(s))
         IN /\ r \in Seq(Actors) /\ s[i] \in Actors
            /\ \A j \in DOMAIN r : \E k \in DOMAIN s : r[j] = s[k]
<1> DEFINE u == SubSeq(s, 1, i - 1)  v == SubSeq(s, i + 1, Len(s))
<1>1. i \in 1..Len(s) /\ Len(s) \in Nat
  OBVIOUS
<1>2. u \in Seq(Actors) /\ Len(u) = i - 1 /\ \A j \in 1..i - 1 : u[j] = s[j]
  BY <1>1, SubSeqProperties
<1>3. v \in Seq(Actors) /\ Len(v) = Len(s) - i /\ \A j \in 1..Len(s) - i : v[j] = s[i + j]
  BY <1>1, SubSeqProperties
<1> HIDE DEF u, v
<1>4. ASSUME NEW j \in DOMAIN (u \o v)
      PROVE  \E k \in DOMAIN s : (u \o v)[j] = s[k]
  <2>1. j \in 1..Len(s) - 1
    BY <1>1, <1>2, <1>3, <1>4
  <2>2. CASE j <= i - 1
    BY <1>1, <1>2, <1>3, <2>1, <2>2
  <2>3. CASE j > i - 1
    <3>1. (u \o v)[j] = v[j - (i - 1)] /\ j - (i - 1) \in 1..Len(s) - i
      BY SMTT(30), <1>1, <1>2, <1>3, <2>1, <2>3
    <3>2. v[j - (i - 1)] = s[i + (j - (i - 1))]
      BY <1>3, <3>1
    <3> QED BY SMTT(30), <1>1, <3>1, <3>2
  <2> QED BY <1>1, <2>1, <2>2, <2>3
<1>5. u \o v \in Seq(Actors)
  BY <1>2, <1>3
<1>6. s[i] \in Actors
  OBVIOUS
<1> QED BY <1>4, <1>5, <1>6 DEF u, v

\* What a beginning does to the history.
Marks(a) ==
  /\ overtaken \subseteq overtaken' /\ overtaken' \subseteq overtaken \cup {a}
  /\ a \notin overtaken' => Acyclic

\* Every kind of beginning, with its plan.
BeginsWith(a, st, pl) ==
  /\ BeginAt(st, a, pl) /\ UNCHANGED tree
  /\ stage[a] = "idle" /\ st \in {"guarding", "writing"}
  /\ pl \in [Pages -> Bytes \cup {None}]
  /\ Marks(a)

LEMMA BeginIs ==
  ASSUME TypeOK, NEW a \in Actors, NEW spots \in [Pages -> Spot \cup Bytes \cup {None}],
         Begin(a, spots), Marks(a), tree' = tree, stage[a] = "idle"
  PROVE  \E pl : /\ BeginsWith(a, "guarding", pl)
                 /\ \A p \in Pages : pl[p] # None <=> spots[p] # None
                 /\ \A p \in Pages : pl[p] # None => pl[p].parent = spots[p].parent
<1> DEFINE pl == [p \in Pages |-> IF spots[p] = None THEN None
                    ELSE [parent |-> spots[p].parent, order |-> spots[p].order, by |-> a]]
<1>1. /\ pl \in [Pages -> Bytes \cup {None}]
      /\ \A p \in Pages : pl[p] # None <=> spots[p] # None
      /\ \A p \in Pages : pl[p] # None => pl[p].parent = spots[p].parent
  BY SpotsAreBytes
<1>2. BeginAt("guarding", a, pl)
  BY DEF Begin
<1> HIDE DEF pl
<1> QED BY <1>1, <1>2 DEF BeginsWith

\* The beginning of a move that the pointer or a key asks for.
LEMMA MoveBegins ==
  ASSUME TypeOK, NEW m \in Moves, NEW p \in Pages, NEW t \in Parents, NEW mode \in Modes \cup {"root"},
         mode # "root" => t \in Pages, stage[m] = "idle", tree' = tree, Marks(m),
         NEW spot \in TreeMovePlan(p, t, mode),
         Begin(m, [q \in Pages |-> IF q = p THEN spot ELSE None])
  PROVE  \E pl : /\ BeginsWith(m, "guarding", pl)
                 /\ \A q \in Pages : pl[q] # None <=> q = p
                 /\ pl[p].parent = spot.parent
<1> DEFINE spots == [q \in Pages |-> IF q = p THEN spot ELSE None]
<1>1. spot \in Spot
  BY PlanType
<1>2. spots \in [Pages -> Spot \cup Bytes \cup {None}] /\ m \in Actors
  BY <1>1, OnePagePlan, Strangers
<1>3. spot # None
  BY <1>1, TreeValuesAssumption
<1>4. \A q \in Pages : spots[q] # None <=> q = p
  BY <1>3
<1>5. spots[p] = spot
  OBVIOUS
<1>6. Begin(m, spots)
  OBVIOUS
<1> HIDE DEF spots
<1>7. PICK pl : /\ BeginsWith(m, "guarding", pl)
                /\ \A q \in Pages : pl[q] # None <=> spots[q] # None
                /\ \A q \in Pages : pl[q] # None => pl[q].parent = spots[q].parent
  BY <1>2, <1>6, BeginIs
<1> QED BY <1>4, <1>5, <1>7

LEMMA InitInv == Init => TreeInv
<1> SUFFICES ASSUME Init PROVE TreeInv
  OBVIOUS
<1>1. TypeOK
  BY TreeAssumption DEF Init, TypeOK, Parents, Stages
<1>2. Begun = {}
  BY DEF Init, Begun
<1> QED BY <1>1, <1>2 DEF Init, TreeInv, PlanInv, UndoInv, MixInv, DragInv

\* The beginnings among the steps, with what their plans are like.
Gentle(a, pl) == \A p \in Pages : pl[p] # None => pl[p].parent = parent[p]

LEMMA PointerUpBegins ==
  ASSUME TypeOK, NEW m \in Drops, PointerUp(m)
  PROVE  \E p \in Pages, q \in Parents : \E pl :
           /\ BeginsWith(m, "guarding", pl)
           /\ \A r \in Pages : pl[r] # None <=> r = p
           /\ pl[p].parent = q
           /\ (m \notin overtaken' /\ DragInv) => SafePlace(p, q)
<1> DEFINE p == drag.page  t == drag.intent.target  mode == drag.intent.mode
<1>1. /\ p \in Pages /\ t \in Parents /\ mode \in Modes \cup {"root"}
      /\ mode # "root" => t \in Pages
  BY TreeAssumption DEF PointerUp, TypeOK, Drag, Intent, Parents
<1>2. PICK spot \in TreeMovePlan(p, t, mode) :
        Begin(m, [q \in Pages |-> IF q = drag.page THEN spot ELSE None])
  BY DEF PointerUp
<1>3. spot \in Spot
  BY <1>1, PlanType
<1>4. stage[m] = "idle" /\ tree' = tree /\ Marks(m) /\ (m \notin overtaken' => None \notin overtaken)
  BY DEF PointerUp, CanBegin, BeginOvertaken, Marks
<1>5. drag # None /\ drag.intent # None
  BY DEF PointerUp
<1>6. ASSUME None \notin overtaken, DragInv PROVE SafePlace(p, spot.parent)
  <2>1. mode = "root" \/ (t \in Pages /\ CanMovePage(p, t))
    BY <1>1, <1>5, <1>6 DEF DragInv, Begun
  <2> QED BY <1>1, <2>1, PlanIsSafe
<1>7. m \in Moves
  BY Strangers
<1> HIDE DEF p, t, mode
<1>8. PICK pl : /\ BeginsWith(m, "guarding", pl)
                /\ \A q \in Pages : pl[q] # None <=> q = p
                /\ pl[p].parent = spot.parent
  BY <1>1, <1>2, <1>4, <1>7, MoveBegins DEF p
<1>9. spot.parent \in Parents
  BY <1>3 DEF Spot
<1> QED BY <1>1, <1>4, <1>6, <1>8, <1>9

LEMMA KeyBegins ==
  ASSUME TypeOK, NEW m \in Keys, NEW p \in Pages, NEW t \in Pages, NEW mode \in Modes,
         KeyboardReorder(m, p, t, mode)
  PROVE  \E q \in Parents : \E pl :
           /\ BeginsWith(m, "guarding", pl)
           /\ \A r \in Pages : pl[r] # None <=> r = p
           /\ pl[p].parent = q /\ SafePlace(p, q)
<1>1. PICK spot \in TreeMovePlan(p, t, mode) :
        Begin(m, [q \in Pages |-> IF q = p THEN spot ELSE None])
  BY DEF KeyboardReorder
<1>2. /\ stage[m] = "idle" /\ tree' = tree /\ Marks(m) /\ CanMovePage(p, t)
      /\ m \in Moves /\ t \in Parents
  BY Strangers DEF KeyboardReorder, CanBegin, Parents, BeginOvertaken, Marks
<1>3. spot \in Spot /\ SafePlace(p, spot.parent)
  BY <1>2, PlanType, PlanIsSafe
<1>4. PICK pl : /\ BeginsWith(m, "guarding", pl)
                /\ \A q \in Pages : pl[q] # None <=> q = p
                /\ pl[p].parent = spot.parent
  BY <1>1, <1>2, MoveBegins
<1>5. spot.parent \in Parents
  BY <1>3 DEF Spot
<1> QED BY <1>3, <1>4, <1>5

LEMMA CompactionBegins ==
  ASSUME TypeOK, NEW c \in Compactions, NEW q \in Parents, CompactTreeOrder(c, q), Crowded(q)
  PROVE  \E pl : BeginsWith(c, "guarding", pl) /\ Gentle(c, pl)
<1>1. /\ CompactionPlan(q) \in [Pages -> Spot \cup Bytes \cup {None}] /\ c \in Actors
      /\ Begin(c, CompactionPlan(q)) /\ Marks(c)
      /\ stage[c] = "idle" /\ tree' = tree
  BY CompactionPlanType, Strangers DEF CompactTreeOrder, CanBegin, BeginOvertaken, Marks
<1>2. \A p \in Pages : CompactionPlan(q)[p] # None => CompactionPlan(q)[p].parent = parent[p]
  BY DEF CompactionPlan, Children
<1>3. PICK pl : /\ BeginsWith(c, "guarding", pl)
                /\ \A p \in Pages : pl[p] # None <=> CompactionPlan(q)[p] # None
                /\ \A p \in Pages : pl[p] # None => pl[p].parent = CompactionPlan(q)[p].parent
  BY <1>1, BeginIs
<1> QED BY <1>2, <1>3 DEF Gentle

\* What takes a change back goes where that change's pages were.
TakesBack(pl, m) ==
  \A p \in Pages : pl[p] # None => before[m][p] # None /\ pl[p].parent = before[m][p].parent

LEMMA UndoBegins ==
  ASSUME TypeOK, UndoInv, NEW b \in Undos, NEW i \in DOMAIN undoable, Undo(b, i)
  PROVE  \E st \in {"guarding", "writing"}, m \in Actors : \E pl :
           /\ BeginsWith(b, st, pl) /\ TakesBack(pl, m)
           /\ stage[m] = "ended" /\ (b \notin overtaken' => m \notin overtaken)
<1> DEFINE m == undoable[i]
<1>1. /\ m \in Actors /\ stage[m] = "ended" /\ b \in Actors
      /\ before[m] \in [Pages -> Bytes \cup {None}]
  BY TakenOut, Strangers DEF TypeOK, UndoInv
<1>2. stage[b] = "idle" /\ tree' = tree /\ Marks(b) /\ (b \notin overtaken' => m \notin overtaken)
  BY DEF Undo, CanBegin, BeginOvertaken, Marks
<1>3. CASE m \in Renames
  <2>1. BeginAt("writing", b, before[m])
    BY <1>3 DEF Undo
  <2> HIDE DEF m
  <2>2. BeginsWith(b, "writing", before[m]) /\ TakesBack(before[m], m)
    BY <1>1, <1>2, <2>1 DEF BeginsWith, TakesBack
  <2> QED BY <1>1, <1>2, <2>2
<1>4. CASE m \notin Renames
  <2>1. Begin(b, before[m]) /\ before[m] \in [Pages -> Spot \cup Bytes \cup {None}]
    BY <1>1, <1>4 DEF Undo
  <2> HIDE DEF m
  <2>2. PICK pl : /\ BeginsWith(b, "guarding", pl)
                  /\ \A p \in Pages : pl[p] # None <=> before[m][p] # None
                  /\ \A p \in Pages : pl[p] # None => pl[p].parent = before[m][p].parent
    BY <1>1, <1>2, <2>1, BeginIs
  <2> QED BY <1>1, <1>2, <2>2 DEF TakesBack
<1> QED BY <1>3, <1>4

LEMMA RecoverBegins ==
  ASSUME TypeOK, PlanInv, NEW b \in Recoveries, NEW m \in Changes, Recover(b, m)
  PROVE  \E pl : /\ BeginsWith(b, "guarding", pl) /\ TakesBack(pl, m)
                 /\ stage[m] \in {"writing", "committing", "ended"}
                 /\ b \notin overtaken' => m \notin overtaken
<1> DEFINE written == {p \in PagesOf(plan[m]) : Content(p) # before[m][p]}
           pl == [p \in Pages |-> IF p \in written THEN before[m][p] ELSE None]
<1>1. /\ m \in Actors /\ b \in Actors /\ before[m] \in [Pages -> Bytes \cup {None}]
      /\ stage[m] \in {"writing", "committing", "ended"}
  BY Strangers DEF TypeOK, Recover, Journaled
<1>2. pl \in [Pages -> Bytes \cup {None}] /\ TakesBack(pl, m)
  BY <1>1 DEF TakesBack
<1>3. /\ stage[b] = "idle" /\ tree' = tree /\ Marks(b) /\ (b \notin overtaken' => m \notin overtaken)
      /\ BeginAt("guarding", b, pl)
  BY DEF Recover, CanBegin, BeginOvertaken, Marks
<1> HIDE DEF pl
<1>4. BeginsWith(b, "guarding", pl)
  BY <1>1, <1>2, <1>3 DEF BeginsWith
<1> QED BY <1>1, <1>2, <1>3, <1>4

-----------------------------------------------------------------------------
(***************************************************************************)
(* Types, plans and the undo list.                                         *)
(***************************************************************************)
\* The parts of the invariant that a beginning keeps.
Records == TypeOK /\ PlanInv /\ UndoInv

LEMMA BeginRecords ==
  ASSUME Records, NEW a \in Actors, NEW st, NEW pl, BeginsWith(a, st, pl),
         a \in Compactions => Gentle(a, pl),
         drag' = drag, queue' \subseteq queue, undoable' \in Seq(Actors),
         \A i \in DOMAIN undoable' : \E k \in DOMAIN undoable : undoable'[i] = undoable[k]
  PROVE  Records'
<1>1. /\ st \in {"guarding", "writing"} /\ pl \in [Pages -> Bytes \cup {None}]
      /\ BeginAt(st, a, pl) /\ tree' = tree /\ stage[a] = "idle" /\ Marks(a)
      /\ st \in Stages
  BY DEF BeginsWith, Stages
<1>2. TypeOK
  BY DEF Records
<1>3. /\ before' \in [Actors -> [Pages -> Bytes \cup {None}]]
      /\ plan' \in [Actors -> [Pages -> Bytes \cup {None}]]
      /\ left' \in [Actors -> SUBSET Pages] /\ stage' \in [Actors -> Stages]
      /\ plan'[a] = pl /\ left'[a] = PagesOf(pl) /\ stage'[a] = st
      /\ before'[a] = [p \in Pages |-> IF pl[p] # None THEN Content(p) ELSE None]
      /\ \A b \in Actors \ {a} : /\ plan'[b] = plan[b] /\ before'[b] = before[b]
                                 /\ left'[b] = left[b] /\ stage'[b] = stage[b]
  BY <1>1, <1>2, BeginDoes
<1>4. parent' = parent /\ order' = order /\ by' = by
  BY <1>1 DEF tree
<1>5. TypeOK'
  BY <1>1, <1>2, <1>3, <1>4 DEF TypeOK, Marks
<1>6. PlanInv'
  <2>1. \A p \in Pages : plan'[a][p] # None <=> before'[a][p] # None
    BY <1>2, <1>3, ContentType
  <2>2. \A p \in left'[a] : plan'[a][p] # None /\ stage'[a] \in {"guarding", "writing"}
    BY <1>1, <1>3 DEF PagesOf
  <2>3. a \in Compactions => \A p \in Pages : plan'[a][p] # None => plan'[a][p].parent = before'[a][p].parent
    BY <1>2, <1>3, ContentType DEF Gentle
  <2>4. PlanInv
    BY DEF Records
  <2>5. ASSUME NEW b \in Actors \ {a}
        PROVE  /\ \A p \in Pages : plan'[b][p] # None <=> before'[b][p] # None
               /\ \A p \in left'[b] : plan'[b][p] # None /\ stage'[b] \in {"guarding", "writing"}
               /\ b \in Compactions => \A p \in Pages : plan'[b][p] # None => plan'[b][p].parent = before'[b][p].parent
    <3>1. plan'[b] = plan[b] /\ before'[b] = before[b] /\ left'[b] = left[b] /\ stage'[b] = stage[b]
      BY <1>3
    <3> QED BY <2>4, <3>1 DEF PlanInv
  <2> QED BY <2>1, <2>2, <2>3, <2>5 DEF PlanInv
<1>7. UndoInv'
  <2>1. SUFFICES ASSUME NEW i \in DOMAIN undoable' PROVE stage'[undoable'[i]] = "ended"
    BY DEF UndoInv
  <2>2. PICK k \in DOMAIN undoable : undoable'[i] = undoable[k]
    OBVIOUS
  <2>3. undoable[k] \in Actors /\ stage[undoable[k]] = "ended"
    BY <1>2, TakenOut DEF Records, UndoInv, TypeOK
  <2> QED BY <1>1, <1>3, <2>2, <2>3
<1> QED BY <1>5, <1>6, <1>7 DEF Records

\* Nothing is put into or taken out of the undo list.
LEMMA SameList ==
  ASSUME TypeOK, undoable' = undoable
  PROVE  /\ undoable' \in Seq(Actors)
         /\ \A i \in DOMAIN undoable' : \E k \in DOMAIN undoable : undoable'[i] = undoable[k]
BY DEF TypeOK

LEMMA RecordsStep == Records /\ [Next]_vars => Records'
<1> SUFFICES ASSUME Records, [Next]_vars PROVE Records'
  OBVIOUS
<1>0. TypeOK /\ PlanInv /\ UndoInv
  BY DEF Records
<1>1. ASSUME NEW i \in Intent \cup {None}, drag # None, Aim(i) PROVE Records'
  <2>1. drag' \in Drag
    BY <1>0, <1>1, AimType DEF Aim
  <2> QED BY <1>0, <1>1, <2>1 DEF Aim, TypeOK, PlanInv, UndoInv, Records, tree
<1>2. ASSUME NEW p \in Pages, PointerDown(p) PROVE Records'
  BY <1>0, <1>2 DEF PointerDown, TypeOK, Drag, PlanInv, UndoInv, Records, tree
<1>3. ASSUME NEW t \in Pages, NEW mode \in Modes, PointerOverRow(t, mode) PROVE Records'
  <2>1. [target |-> t, mode |-> mode] \in Intent
    BY DEF Intent
  <2> QED BY <1>1, <1>3, <2>1 DEF PointerOverRow
<1>4. ASSUME PointerOverRoot PROVE Records'
  <2>1. [target |-> None, mode |-> "root"] \in Intent
    BY DEF Intent
  <2> QED BY <1>1, <1>4, <2>1 DEF PointerOverRoot
<1>5. ASSUME PointerElsewhere PROVE Records'
  BY <1>1, <1>5 DEF PointerElsewhere
<1>6. ASSUME PointerUpNowhere PROVE Records'
  BY <1>0, <1>6 DEF PointerUpNowhere, TypeOK, PlanInv, UndoInv, Records, tree
<1>7. ASSUME NEW m \in Drops, PointerUp(m) PROVE Records'
  <2>1. PICK pl : BeginsWith(m, "guarding", pl)
    BY <1>0, <1>7, PointerUpBegins
  <2>2. /\ m \in Actors /\ m \notin Compactions
        /\ drag' = drag /\ queue' = queue /\ undoable' = undoable
    BY <1>7, Strangers DEF PointerUp
  <2> QED BY <1>0, <2>1, <2>2, SameList, BeginRecords
<1>8. ASSUME NEW m \in Keys, NEW p \in Pages, NEW t \in Pages, NEW mode \in Modes,
             KeyboardReorder(m, p, t, mode)
      PROVE  Records'
  <2>1. PICK pl : BeginsWith(m, "guarding", pl)
    BY <1>0, <1>8, KeyBegins
  <2>2. /\ m \in Actors /\ m \notin Compactions
        /\ drag' = drag /\ queue' = queue /\ undoable' = undoable
    BY <1>8, Strangers DEF KeyboardReorder
  <2> QED BY <1>0, <2>1, <2>2, SameList, BeginRecords
<1>9. ASSUME NEW c \in Compactions, NEW q \in Parents, CompactTreeOrder(c, q) PROVE Records'
  <2>1. CASE ~Crowded(q)
    BY <1>0, <1>9, <2>1 DEF CompactTreeOrder, TypeOK, PlanInv, UndoInv, Records, tree
  <2>2. CASE Crowded(q)
    <3>1. PICK pl : BeginsWith(c, "guarding", pl) /\ Gentle(c, pl)
      BY <1>0, <1>9, <2>2, CompactionBegins
    <3>2. c \in Actors /\ drag' = drag /\ queue' \subseteq queue /\ undoable' = undoable
      BY <1>9, Strangers DEF CompactTreeOrder
    <3> QED BY <1>0, <3>1, <3>2, SameList, BeginRecords
  <2> QED BY <2>1, <2>2
<1>10. ASSUME NEW r \in Renames, NEW p \in Pages, Rename(r, p) PROVE Records'
  <2> DEFINE new == [Content(p) EXCEPT !.by = r]
             found == [q \in Pages |-> IF q = p THEN Content(p) ELSE None]
             given == [q \in Pages |-> IF q = p THEN new ELSE None]
  <2>1. /\ r \in Actors /\ r \notin Compactions /\ stage[r] = "idle"
        /\ before' = [before EXCEPT ![r] = found] /\ plan' = [plan EXCEPT ![r] = given]
        /\ stage' = [stage EXCEPT ![r] = "ended"] /\ by' = [by EXCEPT ![p] = r]
        /\ undoable' = Append(undoable, r) /\ left' = left
        /\ parent' = parent /\ order' = order /\ drag' = drag /\ queue' = queue
    BY <1>10, Strangers DEF Rename, CanBegin
  <2>2. Content(p) \in Bytes /\ Content(p) # None /\ new \in Bytes /\ new # None
    <3>1. Content(p) \in Bytes /\ Content(p) # None
      BY <1>0, ContentType
    <3>2. new \in Bytes
      BY <2>1, <3>1 DEF Bytes
    <3> QED BY <3>1, <3>2, TreeValuesAssumption
  <2>3. found \in [Pages -> Bytes \cup {None}] /\ given \in [Pages -> Bytes \cup {None}]
    BY <2>2
  <2>4. \A q \in Pages : given[q] # None <=> found[q] # None
    BY <2>2
  <2> HIDE DEF new, found, given
  <2>5. overtaken' \subseteq Actors \cup {None}
    BY <1>0, <1>10, <2>1 DEF Rename, BeginOvertaken, TypeOK
  <2>6. TypeOK'
    <3>1. undoable' \in Seq(Actors)
      BY <1>0, <2>1 DEF TypeOK
    <3>2. stage' \in [Actors -> Stages] /\ by' \in [Pages -> Actors \cup {None}]
      BY <1>0, <2>1 DEF TypeOK, Stages
    <3>3. /\ before' \in [Actors -> [Pages -> Bytes \cup {None}]]
          /\ plan' \in [Actors -> [Pages -> Bytes \cup {None}]]
      BY <1>0, <2>1, <2>3 DEF TypeOK
    <3> QED BY <1>0, <2>1, <2>5, <3>1, <3>2, <3>3 DEF TypeOK
  <2>7. left[r] = {}
    BY <1>0, <2>1 DEF PlanInv, TypeOK
  <2>8. PlanInv'
    <3>1. /\ plan'[r] = given /\ before'[r] = found
          /\ \A b \in Actors \ {r} : plan'[b] = plan[b] /\ before'[b] = before[b] /\ stage'[b] = stage[b]
      BY <1>0, <2>1, <2>3 DEF TypeOK
    <3> QED BY <1>0, <2>1, <2>4, <2>7, <3>1 DEF PlanInv
  <2>9. UndoInv'
    <3>1. SUFFICES ASSUME NEW i \in DOMAIN undoable' PROVE stage'[undoable'[i]] = "ended"
      BY DEF UndoInv
    <3>2. undoable \in Seq(Actors) /\ i \in 1..Len(undoable) + 1
      BY <1>0, <2>1, <3>1 DEF TypeOK
    <3>3. CASE i = Len(undoable) + 1
      BY <1>0, <2>1, <3>2, <3>3 DEF TypeOK
    <3>4. CASE i \in 1..Len(undoable)
      <4>1. undoable'[i] = undoable[i] /\ undoable[i] \in Actors /\ stage[undoable[i]] = "ended"
        BY <1>0, <2>1, <3>2, <3>4 DEF UndoInv
      <4> QED BY <1>0, <2>1, <4>1 DEF TypeOK
    <3> QED BY <3>2, <3>3, <3>4
  <2> QED BY <2>6, <2>8, <2>9 DEF Records
<1>11. ASSUME NEW b \in Undos, NEW i \in DOMAIN undoable, Undo(b, i) PROVE Records'
  <2>1. PICK st, pl : BeginsWith(b, st, pl)
    BY <1>0, <1>11, UndoBegins
  <2>2. /\ b \in Actors /\ b \notin Compactions /\ drag' = drag /\ queue' = queue
        /\ undoable' = SubSeq(undoable, 1, i - 1) \o SubSeq(undoable, i + 1, Len(undoable))
    BY <1>11, Strangers DEF Undo
  <2>3. /\ undoable' \in Seq(Actors)
        /\ \A j \in DOMAIN undoable' : \E k \in DOMAIN undoable : undoable'[j] = undoable[k]
    <3>1. undoable \in Seq(Actors) /\ i \in DOMAIN undoable
      BY <1>0, <1>11 DEF TypeOK
    <3> QED BY <2>2, <3>1, TakenOut
  <2> QED BY <2>1, <2>2, <2>3, BeginRecords
<1>12. ASSUME NEW b \in Recoveries, NEW m \in Changes, Recover(b, m) PROVE Records'
  <2>1. PICK pl : BeginsWith(b, "guarding", pl)
    BY <1>0, <1>12, RecoverBegins
  <2>2. /\ b \in Actors /\ b \notin Compactions
        /\ drag' = drag /\ queue' = queue /\ undoable' = undoable
    BY <1>12, Strangers DEF Recover
  <2> QED BY <1>0, <2>1, <2>2, SameList, BeginRecords
<1>13. ASSUME NEW a \in Changes, Saving(a) PROVE Records'
  <2>0. a \in Actors
    BY Strangers
  <2>1. CASE Guard(a)
    BY <1>0, <2>0, <2>1 DEF Guard, TypeOK, Stages, PlanInv, UndoInv, Records, tree
  <2>2. CASE Refuse(a)
    <3>1. TypeOK'
      BY <1>0, <2>0, <2>2 DEF Refuse, TypeOK, Stages, tree
    <3>2. PlanInv'
      BY <1>0, <2>0, <2>2 DEF Refuse, TypeOK, PlanInv
    <3>3. UndoInv'
      BY <1>0, <2>0, <2>2 DEF Refuse, TypeOK, UndoInv
    <3> QED BY <3>1, <3>2, <3>3 DEF Records
  <2>3. CASE \E p \in Pages : WritePage(a, p)
    <3>1. PICK p \in Pages : WritePage(a, p)
      BY <2>3
    <3>2. plan[a][p] \in Bytes /\ stage[a] = "writing" /\ p \in left[a]
      BY <1>0, <2>0, <3>1 DEF WritePage, MayWrite, PlanInv, TypeOK
    <3>3. parent' \in [Pages -> Parents] /\ order' \in [Pages -> Int] /\ by' \in [Pages -> Actors \cup {None}]
      BY <1>0, <3>1, <3>2 DEF WritePage, TypeOK, Bytes
    <3>4. /\ left' \in [Actors -> SUBSET Pages] /\ stage' \in [Actors -> Stages]
          /\ overtaken' \subseteq Actors \cup {None}
      BY <1>0, <3>1 DEF WritePage, Begun, TypeOK, Stages
    <3>5. /\ left'[a] = left[a] \ {p} /\ (left'[a] # {} => stage' = stage)
          /\ \A b \in Actors \ {a} : left'[b] = left[b] /\ stage'[b] = stage[b]
      BY <1>0, <2>0, <3>1, <3>2 DEF WritePage, LastPage, TypeOK
    <3>6. /\ plan' = plan /\ before' = before /\ drag' = drag /\ queue' = queue
          /\ undoable' = undoable
      BY <3>1 DEF WritePage
    <3>7. TypeOK'
      BY <1>0, <3>3, <3>4, <3>6 DEF TypeOK
    <3>8. PlanInv'
      BY <1>0, <2>0, <3>2, <3>5, <3>6 DEF PlanInv
    <3>9. UndoInv'
      <4>1. \A i \in DOMAIN undoable : undoable[i] \in Actors
        BY <1>0 DEF TypeOK
      <4> QED BY <1>0, <3>2, <3>5, <3>6, <4>1 DEF UndoInv
    <3> QED BY <3>7, <3>8, <3>9 DEF Records
  <2>4. CASE Finish(a)
    <3>1. /\ stage' = [stage EXCEPT ![a] = "ended"] /\ before' = before /\ plan' = plan
          /\ left' = left /\ tree' = tree /\ overtaken' = overtaken /\ stage[a] = "committing"
          /\ undoable' \in {undoable, Append(undoable, a)}
      BY <2>4 DEF Finish
    <3>2. drag' \in Drag \cup {None} /\ queue' \subseteq Parents
      BY <1>0, <2>4 DEF Finish, TypeOK
    <3>3. TypeOK'
      <4>1. undoable' \in Seq(Actors)
        <5>1. undoable \in Seq(Actors)
          BY <1>0 DEF TypeOK
        <5>2. Append(undoable, a) \in Seq(Actors)
          BY <2>0, <5>1
        <5> QED BY <3>1, <5>1, <5>2
      <4>2. stage' \in [Actors -> Stages]
        BY <1>0, <3>1 DEF TypeOK, Stages
      <4> QED BY <1>0, <3>1, <3>2, <4>1, <4>2 DEF TypeOK, tree
    <3>4. left[a] = {}
      BY <1>0, <2>0, <3>1 DEF PlanInv, TypeOK
    <3>5. PlanInv'
      BY <1>0, <2>0, <3>1, <3>4 DEF PlanInv, TypeOK
    <3>6. UndoInv'
      <4>1. SUFFICES ASSUME NEW i \in DOMAIN undoable' PROVE stage'[undoable'[i]] = "ended"
        BY DEF UndoInv
      <4>2. undoable \in Seq(Actors) /\ (i \in 1..Len(undoable) \/ undoable'[i] = a)
        BY <1>0, <3>1, <4>1 DEF TypeOK
      <4>3. CASE undoable'[i] = a
        BY <1>0, <2>0, <3>1, <4>3 DEF TypeOK
      <4>4. CASE i \in 1..Len(undoable)
        <5>1. undoable'[i] = undoable[i] /\ undoable[i] \in Actors /\ stage[undoable[i]] = "ended"
          BY <1>0, <3>1, <4>2, <4>4 DEF UndoInv
        <5> QED BY <1>0, <2>0, <3>1, <5>1 DEF TypeOK
      <4> QED BY <4>2, <4>3, <4>4
    <3> QED BY <3>3, <3>5, <3>6 DEF Records
  <2>5. CASE Fail(a)
    <3>1. TypeOK'
      BY <1>0, <2>0, <2>5 DEF Fail, TypeOK, Stages, tree
    <3>2. PlanInv'
      BY <1>0, <2>0, <2>5 DEF Fail, TypeOK, PlanInv
    <3>3. UndoInv'
      <4>1. \A i \in DOMAIN undoable : undoable[i] \in Actors
        BY <1>0 DEF TypeOK
      <4> QED BY <1>0, <2>0, <2>5, <4>1 DEF Fail, TypeOK, UndoInv
    <3> QED BY <3>1, <3>2, <3>3 DEF Records
  <2> QED BY <1>13, <2>1, <2>2, <2>3, <2>4, <2>5 DEF Saving
<1>14. CASE UNCHANGED vars
  BY <1>0, <1>14 DEF vars, TypeOK, PlanInv, UndoInv, Records
<1> QED BY <1>2, <1>3, <1>4, <1>5, <1>6, <1>7, <1>8, <1>9, <1>10, <1>11, <1>12, <1>13, <1>14
        DEF Next, Pointer

-----------------------------------------------------------------------------
(***************************************************************************)
(* The mixed trees.                                                        *)
(***************************************************************************)
Mixes(b) == parent \in MixedTrees(b) /\ \A T \in MixedTrees(b) : Loopless(T)

LEMMA MixIs == MixInv <=> \A b \in Begun \ (overtaken \cup {None}) : Mixes(b)
BY DEF MixInv, Mixes

\* What neither moves a page nor changes a plan changes no mixed tree.
LEMMA SameMixes ==
  ASSUME NEW b, parent' = parent, plan'[b] = plan[b], before'[b] = before[b], Mixes(b)
  PROVE  Mixes(b)'
<1>1. MixedTrees(b)' = MixedTrees(b)
  BY DEF MixedTrees
<1> QED BY <1>1 DEF Mixes, Loopless, Looping

\* The trees between the one there is and the one that a plan makes of it.
PlanTrees(pl) ==
  {T \in [Pages -> Parents] : \A p \in Pages :
     T[p] \in IF pl[p] = None THEN {parent[p]} ELSE {parent[p], pl[p].parent}}

\* With these, what has just begun keeps the invariant.
LEMMA BeginMixes ==
  ASSUME TypeOK, MixInv, NEW a \in Actors, NEW st, NEW pl, BeginsWith(a, st, pl), drag' = drag,
         a \notin overtaken' => \A T \in PlanTrees(pl) : Loopless(T)
  PROVE  MixInv'
<1>1. /\ pl \in [Pages -> Bytes \cup {None}] /\ BeginAt(st, a, pl) /\ parent' = parent
      /\ overtaken \subseteq overtaken' /\ st \in Stages /\ stage[a] = "idle"
  BY DEF BeginsWith, Marks, tree, Stages
<1>2. /\ plan'[a] = pl
      /\ before'[a] = [p \in Pages |-> IF pl[p] # None THEN Content(p) ELSE None]
      /\ \A b \in Actors \ {a} : plan'[b] = plan[b] /\ before'[b] = before[b] /\ stage'[b] = stage[b]
  BY <1>1, BeginDoes
<1>3. SUFFICES ASSUME NEW b \in (Begun \ (overtaken \cup {None}))' PROVE Mixes(b)'
  BY DEF MixInv, Mixes
<1>4. b \in Actors /\ b \notin overtaken'
  BY <1>3 DEF Begun
<1>5. CASE b # a
  <2>1. b \in Begun \ (overtaken \cup {None})
    BY <1>1, <1>2, <1>3, <1>4, <1>5 DEF Begun
  <2>2. Mixes(b)
    BY <2>1, MixIs
  <2> QED BY <1>1, <1>2, <1>4, <1>5, <2>2, SameMixes
<1>6. CASE b = a
  <2>1. \A p \in Pages : pl[p] # None => before'[a][p].parent = parent[p]
    BY <1>2, ContentType
  <2>2. MixedTrees(a)' = PlanTrees(pl)
    BY <1>1, <1>2, <2>1 DEF MixedTrees, PlanTrees
  <2>3. parent \in PlanTrees(pl)
    BY DEF PlanTrees, TypeOK
  <2> QED BY <1>1, <1>4, <1>6, <2>2, <2>3 DEF Mixes, Loopless, Looping
<1> QED BY <1>5, <1>6

\* A plan that moves one page to a safe place.
LEMMA OneMoveMixes ==
  ASSUME TypeOK, Acyclic, NEW pl, NEW p \in Pages, NEW q \in Parents,
         \A r \in Pages : pl[r] # None <=> r = p, pl[p].parent = q, SafePlace(p, q)
  PROVE  \A T \in PlanTrees(pl) : Loopless(T)
<1>1. SUFFICES ASSUME NEW T \in PlanTrees(pl) PROVE Loopless(T)
  OBVIOUS
<1>2. T \in [Pages -> Parents] /\ parent \in [Pages -> Parents]
  BY DEF PlanTrees, TypeOK
<1>3. \A r \in Pages \ {p} : T[r] = parent[r]
  BY DEF PlanTrees
<1>4. T[p] \in {parent[p], q}
  BY DEF PlanTrees
<1>5. CASE T[p] = parent[p]
  <2>1. T = parent
    BY <1>2, <1>3, <1>5
  <2> QED BY <2>1 DEF Acyclic
<1>6. CASE T[p] = q
  <2>1. T = [parent EXCEPT ![p] = q]
    BY <1>2, <1>3, <1>6
  <2> QED BY <2>1, SafeMoveKeepsAcyclic
<1> QED BY <1>4, <1>5, <1>6

\* A plan that moves none.
LEMMA GentleMixes ==
  ASSUME TypeOK, Acyclic, NEW a, NEW pl, Gentle(a, pl)
  PROVE  \A T \in PlanTrees(pl) : Loopless(T)
<1>1. SUFFICES ASSUME NEW T \in PlanTrees(pl) PROVE Loopless(T)
  OBVIOUS
<1>2. T \in [Pages -> Parents] /\ parent \in [Pages -> Parents]
  BY DEF PlanTrees, TypeOK
<1>3. \A r \in Pages : T[r] = parent[r]
  BY DEF PlanTrees, Gentle
<1>4. T = parent
  BY <1>2, <1>3
<1> QED BY <1>4 DEF Acyclic

\* A plan that takes back what nobody has overtaken.
LEMMA TakeBackMixes ==
  ASSUME TypeOK, PlanInv, MixInv, NEW pl, NEW m \in Actors, TakesBack(pl, m),
         stage[m] \notin {"idle", "refused"}, m \notin overtaken
  PROVE  \A T \in PlanTrees(pl) : Loopless(T)
<1>1. Mixes(m)
  BY MixIs, Strangers DEF Begun
<1>2. SUFFICES ASSUME NEW T \in PlanTrees(pl) PROVE T \in MixedTrees(m)
  BY <1>1 DEF Mixes
<1>3. ASSUME NEW p \in Pages
      PROVE  T[p] \in IF plan[m][p] = None THEN {parent[p]} ELSE {before[m][p].parent, plan[m][p].parent}
  <2>1. parent[p] \in IF plan[m][p] = None THEN {parent[p]} ELSE {before[m][p].parent, plan[m][p].parent}
    BY <1>1 DEF Mixes, MixedTrees
  <2>2. T[p] = parent[p] \/ (pl[p] # None /\ T[p] = pl[p].parent)
    BY DEF PlanTrees
  <2>3. pl[p] # None => plan[m][p] # None /\ pl[p].parent = before[m][p].parent
    BY DEF TakesBack, PlanInv
  <2> QED BY <2>1, <2>2, <2>3
<1> QED BY <1>3 DEF MixedTrees, PlanTrees

\* A write of what nobody has overtaken makes a mixed tree of the one there is.
LEMMA WriteMixes ==
  ASSUME TypeOK, PlanInv, MixInv, NEW a \in Changes, NEW p \in Pages, WritePage(a, p)
  PROVE  /\ MixInv'
         /\ a \notin overtaken => Loopless(parent')
<1>1. /\ a \in Actors /\ a # None /\ stage[a] = "writing" /\ p \in left[a] /\ plan[a][p] # None
      /\ plan[a][p] \in Bytes
  BY Strangers DEF WritePage, MayWrite, PlanInv, TypeOK
<1>2. /\ parent' = [parent EXCEPT ![p] = plan[a][p].parent] /\ plan' = plan /\ before' = before
      /\ drag' = drag /\ parent \in [Pages -> Parents] /\ plan[a][p].parent \in Parents
  BY <1>1 DEF WritePage, TypeOK, Bytes
<1>3. (Begun \ {None})' = Begun \ {None}
  <2>1. stage' = stage \/ stage' = [stage EXCEPT ![a] = "committing"]
    BY DEF WritePage
  <2>2. \A b \in Actors : stage'[b] \notin {"idle", "refused"} <=> stage[b] \notin {"idle", "refused"}
    BY <1>1, <2>1 DEF TypeOK
  <2> QED BY <2>2 DEF Begun
<1>4. ASSUME a \notin overtaken
      PROVE  Loopless(parent') /\ Mixes(a)'
  <2>1. Mixes(a)
    BY <1>1, <1>4, MixIs DEF Begun
  <2>2. MixedTrees(a)' = MixedTrees(a)
    <3>1. \A q \in Pages : plan[a][q] = None => parent'[q] = parent[q]
      BY <1>1, <1>2
    <3> QED BY <1>2, <3>1 DEF MixedTrees
  <2>3. parent' \in MixedTrees(a)
    <3>1. parent' \in [Pages -> Parents]
      BY <1>2
    <3>2. parent \in MixedTrees(a)
      BY <2>1 DEF Mixes
    <3> QED BY <1>1, <1>2, <3>1, <3>2 DEF MixedTrees
  <2> QED BY <2>1, <2>2, <2>3 DEF Mixes, Loopless, Looping
<1>5. MixInv'
  <2>1. SUFFICES ASSUME NEW b \in (Begun \ (overtaken \cup {None}))' PROVE Mixes(b)'
    BY DEF MixInv, Mixes
  <2>2. b \in Begun /\ b # None /\ b \in Actors
    BY <1>3, <2>1 DEF Begun
  <2>3. overtaken' = IF parent' = parent THEN overtaken ELSE overtaken \cup (Begun \ {a})
    BY DEF WritePage
  <2>4. CASE b = a
    BY <1>4, <2>1, <2>3, <2>4
  <2>5. CASE b # a
    <3>1. parent' = parent /\ b \notin overtaken
      BY <2>1, <2>2, <2>3, <2>5
    <3>2. Mixes(b)
      BY <2>2, <3>1, MixIs
    <3> QED BY <1>2, <3>1, <3>2, SameMixes
  <2> QED BY <2>4, <2>5
<1> QED BY <1>4, <1>5

LEMMA MixStep == TreeInv /\ [Next]_vars => MixInv'
<1> SUFFICES ASSUME TypeOK, PlanInv, UndoInv, MixInv, DragInv, [Next]_vars PROVE MixInv'
  BY DEF TreeInv
<1>1. ASSUME parent' = parent, plan' = plan, before' = before,
             (Begun \ (overtaken \cup {None}))' \subseteq Begun \ (overtaken \cup {None})
      PROVE  MixInv'
  BY <1>1, MixIs, SameMixes DEF MixInv, Mixes
<1>2. ASSUME NEW i, Aim(i) PROVE MixInv'
  <2>1. /\ stage' = stage /\ overtaken' = overtaken \ {None} /\ parent' = parent /\ plan' = plan
        /\ before' = before
    BY <1>2 DEF Aim, tree
  <2>2. (Begun \ (overtaken \cup {None}))' \subseteq Begun \ (overtaken \cup {None})
    BY <2>1 DEF Begun
  <2> QED BY <1>1, <2>1, <2>2
<1>3. ASSUME NEW p \in Pages, PointerDown(p) PROVE MixInv'
  <2>1. /\ stage' = stage /\ overtaken' = overtaken \ {None} /\ parent' = parent /\ plan' = plan
        /\ before' = before
    BY <1>3 DEF PointerDown, tree
  <2>2. (Begun \ (overtaken \cup {None}))' \subseteq Begun \ (overtaken \cup {None})
    BY <2>1 DEF Begun
  <2> QED BY <1>1, <2>1, <2>2
<1>4. CASE PointerUpNowhere
  <2>1. (Begun \ (overtaken \cup {None}))' \subseteq Begun \ (overtaken \cup {None})
    BY <1>4 DEF PointerUpNowhere, Begun
  <2> QED BY <1>1, <1>4, <2>1 DEF PointerUpNowhere, tree
<1>5. ASSUME NEW m \in Drops, PointerUp(m) PROVE MixInv'
  <2>1. PICK p \in Pages, q \in Parents : \E pl :
           /\ BeginsWith(m, "guarding", pl)
           /\ \A r \in Pages : pl[r] # None <=> r = p
           /\ pl[p].parent = q
           /\ (m \notin overtaken' /\ DragInv) => SafePlace(p, q)
    BY <1>5, PointerUpBegins
  <2>2. PICK pl : /\ BeginsWith(m, "guarding", pl)
                  /\ \A r \in Pages : pl[r] # None <=> r = p
                  /\ pl[p].parent = q
                  /\ (m \notin overtaken' /\ DragInv) => SafePlace(p, q)
    BY <2>1
  <2>3. m \notin overtaken' => \A T \in PlanTrees(pl) : Loopless(T)
    BY <2>2, OneMoveMixes DEF BeginsWith, Marks
  <2>4. m \in Actors /\ drag' = drag
    BY <1>5, Strangers DEF PointerUp
  <2> QED BY <2>2, <2>3, <2>4, BeginMixes
<1>6. ASSUME NEW m \in Keys, NEW p \in Pages, NEW t \in Pages, NEW mode \in Modes,
             KeyboardReorder(m, p, t, mode)
      PROVE  MixInv'
  <2>1. PICK q \in Parents : \E pl :
           /\ BeginsWith(m, "guarding", pl)
           /\ \A r \in Pages : pl[r] # None <=> r = p
           /\ pl[p].parent = q /\ SafePlace(p, q)
    BY <1>6, KeyBegins
  <2>2. PICK pl : /\ BeginsWith(m, "guarding", pl)
                  /\ \A r \in Pages : pl[r] # None <=> r = p
                  /\ pl[p].parent = q /\ SafePlace(p, q)
    BY <2>1
  <2>3. m \notin overtaken' => \A T \in PlanTrees(pl) : Loopless(T)
    BY <2>2, OneMoveMixes DEF BeginsWith, Marks
  <2>4. m \in Actors /\ drag' = drag
    BY <1>6, Strangers DEF KeyboardReorder
  <2> QED BY <2>2, <2>3, <2>4, BeginMixes
<1>7. ASSUME NEW c \in Compactions, NEW q \in Parents, CompactTreeOrder(c, q) PROVE MixInv'
  <2>1. CASE ~Crowded(q)
    <3>1. (Begun \ (overtaken \cup {None}))' \subseteq Begun \ (overtaken \cup {None})
      BY <1>7, <2>1 DEF CompactTreeOrder, Begun
    <3> QED BY <1>1, <1>7, <2>1, <3>1 DEF CompactTreeOrder, tree
  <2>2. CASE Crowded(q)
    <3>1. PICK pl : BeginsWith(c, "guarding", pl) /\ Gentle(c, pl)
      BY <1>7, <2>2, CompactionBegins
    <3>2. c \notin overtaken' => \A T \in PlanTrees(pl) : Loopless(T)
      BY <3>1, GentleMixes DEF BeginsWith, Marks
    <3>3. c \in Actors /\ drag' = drag
      BY <1>7, Strangers DEF CompactTreeOrder
    <3> QED BY <3>1, <3>2, <3>3, BeginMixes
  <2> QED BY <2>1, <2>2
<1>8. ASSUME NEW r \in Renames, NEW p \in Pages, Rename(r, p) PROVE MixInv'
  <2> DEFINE new == [Content(p) EXCEPT !.by = r]
             found == [q \in Pages |-> IF q = p THEN Content(p) ELSE None]
             given == [q \in Pages |-> IF q = p THEN new ELSE None]
  <2>1. /\ r \in Actors /\ stage[r] = "idle" /\ drag' = drag /\ parent' = parent
        /\ before' = [before EXCEPT ![r] = found] /\ plan' = [plan EXCEPT ![r] = given]
        /\ stage' = [stage EXCEPT ![r] = "ended"]
        /\ overtaken \subseteq overtaken' /\ (r \notin overtaken' => Acyclic)
    BY <1>8, Strangers DEF Rename, CanBegin, BeginOvertaken
  <2>2. Content(p).parent = parent[p] /\ new.parent = parent[p]
    <3>1. Content(p).parent = parent[p] /\ Content(p) \in Bytes
      BY ContentType
    <3> QED BY <3>1 DEF Bytes
  <2>3. \A q \in Pages : q # p => given[q] = None
    OBVIOUS
  <2>4. found[p].parent = parent[p] /\ given[p].parent = parent[p]
    BY <2>2
  <2> HIDE DEF new, found, given
  <2>5. /\ plan'[r] = given /\ before'[r] = found
        /\ \A b \in Actors \ {r} : /\ plan'[b] = plan[b] /\ before'[b] = before[b]
                                   /\ stage'[b] = stage[b]
    BY <2>1 DEF TypeOK
  <2>6. SUFFICES ASSUME NEW b \in (Begun \ (overtaken \cup {None}))' PROVE Mixes(b)'
    BY DEF MixInv, Mixes
  <2>7. b \in Actors /\ b \notin overtaken'
    BY <2>6 DEF Begun
  <2>8. CASE b # r
    <3>1. b \in Begun \ (overtaken \cup {None})
      BY <2>1, <2>5, <2>6, <2>7, <2>8 DEF Begun
    <3>2. Mixes(b)
      BY <3>1, MixIs
    <3> QED BY <2>1, <2>5, <2>7, <2>8, <3>2, SameMixes
  <2>9. CASE b = r
    <3>1. MixedTrees(r)' = {parent}
      <4>1. ASSUME NEW T \in MixedTrees(r)' PROVE T = parent
        <5>1. T \in [Pages -> Parents] /\ parent \in [Pages -> Parents]
          BY DEF MixedTrees, TypeOK
        <5>2. \A q \in Pages : T[q] = parent[q]
          BY <2>1, <2>3, <2>4, <2>5 DEF MixedTrees
        <5> QED BY <5>1, <5>2
      <4>2. parent \in MixedTrees(r)'
        <5>1. \A q \in Pages : parent[q] \in IF plan'[r][q] = None THEN {parent'[q]}
                                            ELSE {before'[r][q].parent, plan'[r][q].parent}
          BY <2>1, <2>3, <2>4, <2>5
        <5> QED BY <5>1 DEF MixedTrees, TypeOK
      <4> QED BY <4>1, <4>2
    <3>2. Loopless(parent)
      BY <2>1, <2>7, <2>9 DEF Acyclic
    <3> QED BY <2>1, <2>9, <3>1, <3>2 DEF Mixes, Loopless, Looping
  <2> QED BY <2>8, <2>9
<1>9. ASSUME NEW b \in Undos, NEW i \in DOMAIN undoable, Undo(b, i) PROVE MixInv'
  <2>1. PICK st \in {"guarding", "writing"}, m \in Actors : \E pl :
           /\ BeginsWith(b, st, pl) /\ TakesBack(pl, m)
           /\ stage[m] = "ended" /\ (b \notin overtaken' => m \notin overtaken)
    BY <1>9, UndoBegins
  <2>2. PICK pl : BeginsWith(b, st, pl) /\ TakesBack(pl, m)
    BY <2>1
  <2>3. b \notin overtaken' => \A T \in PlanTrees(pl) : Loopless(T)
    BY <2>1, <2>2, TakeBackMixes
  <2>4. b \in Actors /\ drag' = drag
    BY <1>9, Strangers DEF Undo
  <2> QED BY <2>2, <2>3, <2>4, BeginMixes
<1>10. ASSUME NEW b \in Recoveries, NEW m \in Changes, Recover(b, m) PROVE MixInv'
  <2>1. PICK pl : /\ BeginsWith(b, "guarding", pl) /\ TakesBack(pl, m)
                  /\ stage[m] \in {"writing", "committing", "ended"}
                  /\ b \notin overtaken' => m \notin overtaken
    BY <1>10, RecoverBegins
  <2>2. b \in Actors /\ m \in Actors /\ drag' = drag
    BY <1>10, Strangers DEF Recover
  <2>3. b \notin overtaken' => \A T \in PlanTrees(pl) : Loopless(T)
    BY <2>1, <2>2, TakeBackMixes
  <2> QED BY <2>1, <2>2, <2>3, BeginMixes
<1>11. ASSUME NEW a \in Changes, Saving(a) PROVE MixInv'
  <2>0. a \in Actors
    BY Strangers
  <2>1. CASE \E p \in Pages : WritePage(a, p)
    BY <1>11, <2>1, WriteMixes
  <2>2. CASE Guard(a)
    <3>1. (Begun \ (overtaken \cup {None}))' \subseteq Begun \ (overtaken \cup {None})
      BY <2>0, <2>2 DEF Guard, Begun, TypeOK
    <3> QED BY <1>1, <2>2, <3>1 DEF Guard, tree
  <2>3. CASE Fail(a)
    <3>1. (Begun \ (overtaken \cup {None}))' \subseteq Begun \ (overtaken \cup {None})
      BY <2>0, <2>3 DEF Fail, Begun, TypeOK
    <3> QED BY <1>1, <2>3, <3>1 DEF Fail, tree
  <2>4. CASE Finish(a)
    <3>1. (Begun \ (overtaken \cup {None}))' \subseteq Begun \ (overtaken \cup {None})
      BY <2>0, <2>4 DEF Finish, Begun, TypeOK
    <3> QED BY <1>1, <2>4, <3>1 DEF Finish, tree
  <2>5. CASE Refuse(a)
    <3>1. SUFFICES ASSUME NEW b \in (Begun \ (overtaken \cup {None}))' PROVE Mixes(b)'
      BY DEF MixInv, Mixes
    <3>2. /\ b \in Actors /\ b # a /\ b \notin overtaken /\ stage[b] \notin {"idle", "refused"}
          /\ plan'[b] = plan[b] /\ before'[b] = before[b] /\ parent' = parent
      BY <2>0, <2>5, <3>1 DEF Refuse, Begun, TypeOK, tree
    <3>3. Mixes(b)
      BY <3>1, <3>2, MixIs DEF Begun
    <3> QED BY <3>2, <3>3, SameMixes
  <2> QED BY <1>11, <2>1, <2>2, <2>3, <2>4, <2>5 DEF Saving
<1>12. CASE UNCHANGED vars
  <2>1. (Begun \ (overtaken \cup {None}))' \subseteq Begun \ (overtaken \cup {None})
    BY <1>12 DEF vars, Begun
  <2> QED BY <1>1, <1>12, <2>1 DEF vars
<1> QED BY <1>2, <1>3, <1>4, <1>5, <1>6, <1>7, <1>8, <1>9, <1>10, <1>11, <1>12
        DEF Next, Pointer, PointerOverRow, PointerOverRoot, PointerElsewhere

-----------------------------------------------------------------------------
(***************************************************************************)
(* The drag.                                                               *)
(***************************************************************************)
\* Where no page moves, what canMovePage allows stays allowed.
LEMMA SameParents ==
  ASSUME parent' = parent
  PROVE  \A p, t : CanMovePage(p, t) => CanMovePage(p, t)'
BY DEF CanMovePage, IsDescendantOf, IsClosed

LEMMA AimKeeps ==
  ASSUME TypeOK, drag # None, NEW i \in Intent \cup {None}, Aim(i),
         i # None => i.mode = "root" \/ CanMovePage(drag.page, i.target)
  PROVE  DragInv'
<1>1. parent' = parent
  BY DEF Aim, tree
<1>2. drag'.intent = i /\ drag'.page = drag.page
  BY DEF Aim, TypeOK, Drag
<1> QED BY <1>1, <1>2, Strangers, SameParents DEF DragInv, Begun

LEMMA DragStep == TreeInv /\ [Next]_vars => DragInv'
<1> SUFFICES ASSUME TypeOK, DragInv, [Next]_vars PROVE DragInv'
  BY DEF TreeInv
<1>1. ASSUME drag' = drag, parent' = parent, overtaken \subseteq overtaken' \cup Actors
      PROVE  DragInv'
  <2>1. None \in (Begun \ overtaken)' => None \in Begun \ overtaken
    BY <1>1, Strangers DEF Begun
  <2> QED BY <1>1, <2>1, SameParents DEF DragInv
<1>2. ASSUME drag' = None PROVE DragInv'
  BY <1>2, Strangers DEF DragInv, Begun
<1>3. ASSUME NEW p \in Pages, PointerDown(p) PROVE DragInv'
  <2>1. drag'.intent = None
    BY <1>3 DEF PointerDown
  <2> QED BY <2>1, Strangers DEF DragInv, Begun
<1>4. ASSUME NEW t \in Pages, NEW mode \in Modes, PointerOverRow(t, mode) PROVE DragInv'
  <2>1. [target |-> t, mode |-> mode] \in Intent
    BY DEF Intent
  <2>2. CASE CanMovePage(drag.page, t)
    BY <1>4, <2>1, <2>2, AimKeeps DEF PointerOverRow
  <2>3. CASE ~CanMovePage(drag.page, t)
    BY <1>4, <2>3, AimKeeps DEF PointerOverRow
  <2> QED BY <2>2, <2>3
<1>5. CASE PointerOverRoot
  <2>1. [target |-> None, mode |-> "root"] \in Intent
    BY DEF Intent
  <2>2. CASE parent[drag.page] = None
    BY <1>5, <2>2, AimKeeps DEF PointerOverRoot
  <2>3. CASE parent[drag.page] # None
    BY <1>5, <2>1, <2>3, AimKeeps DEF PointerOverRoot
  <2> QED BY <2>2, <2>3
<1>6. CASE PointerElsewhere
  BY <1>6, AimKeeps DEF PointerElsewhere
<1>7. CASE PointerUpNowhere
  BY <1>2, <1>7 DEF PointerUpNowhere
<1>8. ASSUME NEW m \in Drops, PointerUp(m) PROVE DragInv'
  BY <1>1, <1>8 DEF PointerUp, BeginOvertaken, tree
<1>9. ASSUME NEW m \in Keys, NEW p \in Pages, NEW t \in Pages, NEW mode \in Modes,
             KeyboardReorder(m, p, t, mode)
      PROVE  DragInv'
  BY <1>1, <1>9 DEF KeyboardReorder, BeginOvertaken, tree
<1>10. ASSUME NEW c \in Compactions, NEW q \in Parents, CompactTreeOrder(c, q) PROVE DragInv'
  BY <1>1, <1>10 DEF CompactTreeOrder, BeginOvertaken, tree
<1>11. ASSUME NEW r \in Renames, NEW p \in Pages, Rename(r, p) PROVE DragInv'
  BY <1>1, <1>11 DEF Rename, BeginOvertaken
<1>12. ASSUME NEW b \in Undos, NEW i \in DOMAIN undoable, Undo(b, i) PROVE DragInv'
  BY <1>1, <1>12 DEF Undo, BeginOvertaken, tree
<1>13. ASSUME NEW b \in Recoveries, NEW m \in Changes, Recover(b, m) PROVE DragInv'
  BY <1>1, <1>13 DEF Recover, BeginOvertaken, tree
<1>14. ASSUME NEW a \in Changes, NEW p \in Pages, WritePage(a, p) PROVE DragInv'
  <2>1. drag' = drag /\ a # None
    BY <1>14, Strangers DEF WritePage
  <2>2. CASE parent' = parent
    BY <1>1, <1>14, <2>1, <2>2 DEF WritePage
  <2>3. CASE parent' # parent
    <3>1. overtaken' = overtaken \cup (Begun \ {a})
      BY <1>14, <2>3 DEF WritePage
    <3>2. None \in Begun' => None \in Begun
      BY <2>1, Strangers DEF Begun
    <3> QED BY <2>1, <3>1, <3>2 DEF DragInv
  <2> QED BY <2>2, <2>3
<1>15. ASSUME NEW a \in Changes, Saving(a) PROVE DragInv'
  <2>1. CASE \E p \in Pages : WritePage(a, p)
    BY <1>14, <2>1
  <2>2. CASE Guard(a)
    BY <1>1, <2>2 DEF Guard, tree
  <2>3. CASE Fail(a)
    BY <1>1, <2>3 DEF Fail, tree
  <2>4. CASE Refuse(a)
    BY <1>1, <2>4, Strangers DEF Refuse, tree
  <2>5. CASE Finish(a)
    BY <1>1, <1>2, <2>5 DEF Finish, tree
  <2> QED BY <1>15, <2>1, <2>2, <2>3, <2>4, <2>5 DEF Saving
<1>16. CASE UNCHANGED vars
  BY <1>1, <1>16 DEF vars
<1> QED BY <1>3, <1>4, <1>5, <1>6, <1>7, <1>8, <1>9, <1>10, <1>11, <1>12, <1>13, <1>15, <1>16
        DEF Next, Pointer

\* The invariant, for any pages, changes, doubles and orders.
THEOREM InvariantHolds == Spec => []TreeInv
<1>1. Init => TreeInv
  BY InitInv
<1>2. TreeInv /\ [Next]_vars => TreeInv'
  BY RecordsStep, MixStep, DragStep DEF TreeInv, Records
<1> QED BY <1>1, <1>2, PTL DEF Spec

\* Every variable keeps its type.
THEOREM TypeCorrect == Spec => []TypeOK
BY InvariantHolds, PTL DEF TreeInv

-----------------------------------------------------------------------------
\* Only a page's write changes parents.
LEMMA WhoMoves ==
  ASSUME TypeOK, [Next]_vars, parent' # parent
  PROVE  \E a \in Changes, p \in Pages : WritePage(a, p)
BY DEF Next, vars, tree, Pointer, PointerDown, PointerOverRow, PointerOverRoot, PointerElsewhere,
       PointerUpNowhere, Aim, PointerUp, KeyboardReorder, CompactTreeOrder, Rename, Undo, Recover,
       Saving, Guard, Refuse, Finish, Fail

\* Whatever moves, undos, recoveries and drags there are: without a change that
\* has been overtaken the tree stays free of cycles.
THEOREM CyclesNeedOvertaking == Spec => OnlyOvertakenMovesMakeCycles
<1>1. ASSUME TreeInv, [Next]_vars, Acyclic, ~Acyclic'
      PROVE  \E a \in overtaken \ {None} : left'[a] # left[a]
  <2>1. TypeOK /\ PlanInv /\ MixInv /\ parent' # parent
    BY <1>1 DEF TreeInv, Acyclic
  <2>2. PICK a \in Changes, p \in Pages : WritePage(a, p)
    BY <1>1, <2>1, WhoMoves
  <2>3. a \in Actors /\ a # None
    BY Strangers
  <2>4. p \in left[a] /\ left' = [left EXCEPT ![a] = @ \ {p}]
    BY <2>2 DEF WritePage, MayWrite
  <2>5. left'[a] # left[a]
    BY <2>1, <2>3, <2>4 DEF TypeOK
  <2>6. a \notin overtaken => Loopless(parent')
    BY <2>1, <2>2, WriteMixes
  <2>7. ~Loopless(parent')
    BY <1>1 DEF Acyclic
  <2> QED BY <2>3, <2>5, <2>6, <2>7
<1> QED BY <1>1, InvariantHolds, PTL DEF OnlyOvertakenMovesMakeCycles, Spec

\* A compaction in the background never undoes a move made meanwhile.
THEOREM CompactionKeepsParents == Spec => CompactionMovesNoPage
<1>1. ASSUME TreeInv, [Next]_vars, NEW c \in Compactions,
             left'[c] # left[c], stage[c] = "writing"
      PROVE  parent' = parent
  <2>1. TypeOK /\ PlanInv /\ c \in Actors
    BY <1>1, Strangers DEF TreeInv
  <2>2. SUFFICES ASSUME parent' # parent PROVE FALSE
    OBVIOUS
  <2>3. PICK a \in Changes, p \in Pages : WritePage(a, p)
    BY <1>1, <2>1, <2>2, WhoMoves
  <2>4. a = c
    BY <1>1, <2>1, <2>3, Strangers DEF WritePage, TypeOK
  <2>5. IsFresh(c, p) /\ p \in left[c]
    BY <2>3, <2>4, TreeAssumption DEF WritePage, MayWrite, RestoresRename
  <2>6. plan[c][p].parent = before[c][p].parent
    BY <2>1, <2>5 DEF PlanInv
  <2>7. before[c][p].parent = parent[p]
    BY <2>1, <2>5, ContentType DEF IsFresh
  <2> QED BY <2>1, <2>2, <2>3, <2>4, <2>6, <2>7 DEF WritePage, TypeOK
<1>2. ASSUME TreeInv, [Next]_vars
      PROVE  \A c \in Compactions : left'[c] # left[c] /\ stage[c] = "writing" => parent' = parent
  BY <1>1, <1>2
<1> QED BY <1>2, InvariantHolds, PTL DEF CompactionMovesNoPage, Spec

-----------------------------------------------------------------------------
\* Earlier is a strict order of the pages, and any two of them are in it.
LEMMA EarlierIsOrder ==
  ASSUME TypeOK, NEW a \in Pages, NEW b \in Pages, NEW c \in Pages
  PROVE  /\ ~Earlier(a, a)
         /\ Earlier(a, b) /\ Earlier(b, c) => Earlier(a, c)
         /\ a # b => Earlier(a, b) \/ Earlier(b, a)
         /\ Earlier(a, b) => order[a] <= order[b]
<1>1. a \in Nat /\ b \in Nat /\ c \in Nat
  BY TreeAssumption
<1>2. order[a] \in Int /\ order[b] \in Int /\ order[c] \in Int
  BY DEF TypeOK
<1> QED BY <1>1, <1>2 DEF Earlier, Before

\* Some page of a set comes last: one with the fewest after it.
LEMMA LastExists ==
  ASSUME TypeOK, NEW S \in SUBSET Pages, S # {}
  PROVE  Last(S) # {}
<1> DEFINE Later(a) == {b \in S : Earlier(a, b)}
           T == {Later(a) : a \in S}
<1>1. IsFiniteSet(S)
  BY TreeAssumption, FS_Subset
<1>2. T \subseteq FiniteSubsetsOf(S) /\ T # {}
  <2>1. \A a \in S : Later(a) \in SUBSET S
    OBVIOUS
  <2>2. \A a \in S : IsFiniteSet(Later(a))
    BY <1>1, <2>1, FS_Subset
  <2> QED BY <2>1, <2>2 DEF FiniteSubsetsOf
<1>3. PICK x \in T : \A y \in T : ~(<<y, x>> \in StrictSubsetOrdering(S))
  <2> HIDE DEF T
  <2> QED BY <1>2, FS_StrictSubsetOrderingWellFounded, WFMin
<1>4. PICK a \in S : x = Later(a)
  OBVIOUS
<1>5. ASSUME NEW b \in S \ {a}
      PROVE  Earlier(b, a)
  <2>1. SUFFICES ASSUME Earlier(a, b) PROVE FALSE
    BY EarlierIsOrder
  <2>2. Later(b) \subseteq Later(a)
    BY <2>1, EarlierIsOrder
  <2>3. b \in Later(a) /\ b \notin Later(b)
    BY <2>1, EarlierIsOrder
  <2>4. Later(b) \in T /\ Later(b) \in SUBSET S /\ Later(a) \in SUBSET S
    OBVIOUS
  <2> HIDE DEF Later, T
  <2>5. <<Later(b), Later(a)>> \in StrictSubsetOrdering(S)
    BY <2>2, <2>3, <2>4 DEF StrictSubsetOrdering
  <2> QED BY <1>3, <1>4, <2>4, <2>5
<1> QED BY <1>5 DEF Last

\* Some page comes first: one with the fewest before it.
LEMMA FirstExists ==
  ASSUME TypeOK, NEW S \in SUBSET Pages, S # {}
  PROVE  First(S) # {}
<1> DEFINE Sooner(a) == {b \in S : Earlier(b, a)}
           T == {Sooner(a) : a \in S}
<1>1. IsFiniteSet(S)
  BY TreeAssumption, FS_Subset
<1>2. T \subseteq FiniteSubsetsOf(S) /\ T # {}
  <2>1. \A a \in S : Sooner(a) \in SUBSET S
    OBVIOUS
  <2>2. \A a \in S : IsFiniteSet(Sooner(a))
    BY <1>1, <2>1, FS_Subset
  <2> QED BY <2>1, <2>2 DEF FiniteSubsetsOf
<1>3. PICK x \in T : \A y \in T : ~(<<y, x>> \in StrictSubsetOrdering(S))
  <2> HIDE DEF T
  <2> QED BY <1>2, FS_StrictSubsetOrderingWellFounded, WFMin
<1>4. PICK a \in S : x = Sooner(a)
  OBVIOUS
<1>5. ASSUME NEW b \in S \ {a}
      PROVE  Earlier(a, b)
  <2>1. SUFFICES ASSUME Earlier(b, a) PROVE FALSE
    BY EarlierIsOrder
  <2>2. Sooner(b) \subseteq Sooner(a)
    BY <2>1, EarlierIsOrder
  <2>3. b \in Sooner(a) /\ b \notin Sooner(b)
    BY <2>1, EarlierIsOrder
  <2>4. Sooner(b) \in T /\ Sooner(b) \in SUBSET S /\ Sooner(a) \in SUBSET S
    OBVIOUS
  <2> HIDE DEF Sooner, T
  <2>5. <<Sooner(b), Sooner(a)>> \in StrictSubsetOrdering(S)
    BY <2>2, <2>3, <2>4 DEF StrictSubsetOrdering
  <2> QED BY <1>3, <1>4, <2>4, <2>5
<1> QED BY <1>5 DEF First

\* Between two numbers with another one between them the mean is strictly there.
LEMMA RoomBetween ==
  ASSUME NEW a \in Int, NEW b \in Int, a <= b,
         \E f \in a + 1..b - 1 : f \in Doubles
  PROVE  /\ Mean(a, b) # {}
         /\ \A o \in Mean(a, b) : o \in Int /\ a < o /\ o < b
<1> DEFINE D == {f \in a..b : f \in Doubles}
           Far == {FromTwice(f, a + b) : f \in D}
<1>1. PICK f \in D : a < f /\ f < b
  OBVIOUS
<1>2. \A g \in a..b : FromTwice(g, a + b) \in Nat
  BY DEF FromTwice
<1>3. FromTwice(f, a + b) < FromTwice(a, a + b) /\ FromTwice(f, a + b) < FromTwice(b, a + b)
  BY <1>1 DEF FromTwice
<1>4. Far \subseteq Nat /\ Far # {}
  BY <1>1, <1>2
<1>5. PICK x \in Far : \A y \in Far : ~(<<y, x>> \in OpToRel(<, Nat))
  <2> HIDE DEF Far
  <2> QED BY <1>4, NatLessThanWellFounded, WFMin
<1>6. \A y \in Far : x <= y
  <2>1. \A y \in Far : ~(y < x) /\ y \in Nat /\ x \in Nat
    BY <1>4, <1>5 DEF OpToRel
  <2> QED BY <2>1
<1>7. PICK o \in D : x = FromTwice(o, a + b)
  OBVIOUS
<1>8. o \in Mean(a, b)
  BY <1>6, <1>7 DEF Mean
<1>9. ASSUME NEW m \in Mean(a, b) PROVE m \in Int /\ a < m /\ m < b
  <2>1. m \in a..b /\ FromTwice(m, a + b) <= FromTwice(f, a + b)
    BY <1>1 DEF Mean
  <2>2. FromTwice(m, a + b) \in Int /\ FromTwice(f, a + b) \in Int
    BY <1>1, <1>2, <2>1
  <2>3. m # a /\ m # b
    BY <1>2, <1>3, <2>1, <2>2
  <2> QED BY <2>1, <2>3
<1> QED BY <1>8, <1>9

\* The last and the first of a set are single pages.
LEMMA OneLast ==
  ASSUME TypeOK, NEW S \in SUBSET Pages
  PROVE  /\ \A a, b \in Last(S) : a = b
         /\ \A a, b \in First(S) : a = b
BY EarlierIsOrder DEF Last, First

\* What the planner computes for a place beside t lies between t and its
\* neighbour on that side.
LEMMA OrderBeside ==
  ASSUME TypeOK, NEW p \in Pages, NEW t \in Pages \ {p}, NEW mode \in {"before", "after"},
         HasRoom(PreviousPage(p, t, mode), NextPage(p, t, mode))
  PROVE  /\ SiblingOrder(p, t, mode) # {}
         /\ \A o \in SiblingOrder(p, t, mode) :
              /\ o \in Int /\ o # order[t] /\ (o < order[t] <=> mode = "before")
              /\ \A q \in Siblings(p, t) \ {t} :
                   /\ Earlier(q, t) => (order[q] < o)
                   /\ Earlier(t, q) => (o < order[q])
<1> DEFINE siblings == Siblings(p, t)
           above == {q \in siblings : Earlier(q, t)}
           P == Preceding(p, t, mode)
           N == siblings \ P
           others == siblings \ {t}
<1>1. /\ siblings \subseteq Pages /\ t \in siblings /\ t \notin above
      /\ order \in [Pages -> Int]
  BY EarlierIsOrder DEF Siblings, Children, TypeOK
<1>2. \A q \in siblings \ above : q # t => Earlier(t, q)
  BY <1>1, EarlierIsOrder
<1>3. \A q \in siblings : order[q] \in Int
  BY <1>1
<1>4. SiblingOrder(p, t, mode) = OrderBetween(Last(P), First(N))
  BY DEF SiblingOrder, PreviousPage, NextPage
<1>5. HasRoom(Last(P), First(N))
  BY DEF PreviousPage, NextPage
<1>6. P \in SUBSET Pages /\ N \in SUBSET Pages
  BY <1>1 DEF Preceding
<1>7. One \in Int /\ One > 0
  BY TreeAssumption
<1> HIDE DEF siblings, P, N
<1>8. ASSUME mode = "before"
      PROVE  /\ SiblingOrder(p, t, mode) # {}
             /\ \A o \in SiblingOrder(p, t, mode) :
                  /\ o \in Int /\ o < order[t]
                  /\ \A q \in others : /\ Earlier(q, t) => (order[q] < o)
                                       /\ Earlier(t, q) => (o < order[q])
  <2>1. P = above /\ N = siblings \ above
    BY <1>8 DEF P, N, Preceding, siblings
  <2>2. First(N) = {t}
    <3>1. t \in First(N)
      BY <1>1, <1>2, <2>1 DEF First
    <3> QED BY <1>6, <3>1, OneLast DEF First
  <2>3. \A q \in others : Earlier(t, q) => order[t] <= order[q] /\ order[q] \in Int
    BY <1>1, EarlierIsOrder
  <2>4. CASE P = {}
    <3>1. Last(P) = {}
      BY <2>4 DEF Last
    <3>2. SiblingOrder(p, t, mode) = {order[t] - One}
      BY <1>4, <2>2, <3>1 DEF OrderBetween
    <3>3. \A q \in others : ~Earlier(q, t)
      BY <2>1, <2>4
    <3> QED BY <1>1, <1>7, <2>3, <3>2, <3>3
  <2>5. CASE P # {}
    <3>1. PICK a : a \in Last(P)
      BY <1>6, <2>5, LastExists
    <3>2. Last(P) = {a} /\ a \in above
      BY <1>6, <2>1, <3>1, OneLast DEF Last
    <3>3. SiblingOrder(p, t, mode) = Mean(order[a], order[t])
      BY SMTT(30), <1>4, <2>2, <3>2 DEF OrderBetween
    <3>4. order[a] <= order[t] /\ order[a] \in Int /\ order[t] \in Int
      BY <1>1, <3>2, EarlierIsOrder
    <3>5. \E f \in order[a] + 1..order[t] - 1 : f \in Doubles
      BY <1>5, <2>2, <3>2 DEF HasRoom
    <3>6. /\ SiblingOrder(p, t, mode) # {}
          /\ \A o \in SiblingOrder(p, t, mode) : o \in Int /\ order[a] < o /\ o < order[t]
      BY <3>3, <3>4, <3>5, RoomBetween
    <3>7. \A q \in others : Earlier(q, t) => order[q] <= order[a] /\ order[q] \in Int
      <4>1. ASSUME NEW q \in others, Earlier(q, t) PROVE order[q] <= order[a] /\ order[q] \in Int
        <5>1. q \in P /\ q \in Pages /\ a \in Pages
          BY <1>1, <2>1, <3>2, <4>1
        <5>2. q = a \/ Earlier(q, a)
          BY <3>1, <5>1 DEF Last
        <5> QED BY <1>1, <5>1, <5>2, EarlierIsOrder
      <4> QED BY <4>1
    <3> QED BY <2>3, <3>4, <3>6, <3>7
  <2> QED BY <2>4, <2>5
<1>9. ASSUME mode = "after"
      PROVE  /\ SiblingOrder(p, t, mode) # {}
             /\ \A o \in SiblingOrder(p, t, mode) :
                  /\ o \in Int /\ order[t] < o
                  /\ \A q \in others : /\ Earlier(q, t) => (order[q] < o)
                                       /\ Earlier(t, q) => (o < order[q])
  <2>1. P = above \cup {t} /\ N = siblings \ (above \cup {t})
    BY <1>1, <1>9 DEF P, N, Preceding, siblings
  <2>2. Last(P) = {t}
    <3>1. t \in Last(P)
      BY <2>1 DEF Last
    <3> QED BY <1>6, <3>1, OneLast DEF Last
  <2>3. \A q \in others : Earlier(q, t) => order[q] <= order[t] /\ order[q] \in Int
    BY <1>1, EarlierIsOrder
  <2>4. \A q \in others : q \in N \/ ~Earlier(t, q)
    BY <1>1, <2>1, EarlierIsOrder
  <2>5. CASE N = {}
    <3>1. First(N) = {}
      BY <2>5 DEF First
    <3>2. SiblingOrder(p, t, mode) = {order[t] + One}
      BY <1>4, <2>2, <3>1 DEF OrderBetween
    <3> QED BY <1>1, <1>7, <2>3, <2>4, <2>5, <3>2
  <2>6. CASE N # {}
    <3>1. PICK b : b \in First(N)
      BY <1>6, <2>6, FirstExists
    <3>2. First(N) = {b} /\ b \in N /\ Earlier(t, b) /\ b \in Pages
      <4>1. b \in N
        BY <3>1 DEF First
      <4>2. b \in siblings \ above /\ b # t
        BY <2>1, <4>1
      <4>3. First(N) = {b}
        BY <1>6, <3>1, OneLast
      <4> QED BY <1>2, <1>6, <4>1, <4>2, <4>3
    <3>3. SiblingOrder(p, t, mode) = Mean(order[t], order[b])
      BY <1>4, <2>2, <3>2 DEF OrderBetween
    <3>4. order[t] <= order[b] /\ order[b] \in Int /\ order[t] \in Int
      BY <1>1, <3>2, EarlierIsOrder
    <3>5. \E f \in order[t] + 1..order[b] - 1 : f \in Doubles
      BY <1>5, <2>2, <3>2 DEF HasRoom
    <3>6. /\ SiblingOrder(p, t, mode) # {}
          /\ \A o \in SiblingOrder(p, t, mode) : o \in Int /\ order[t] < o /\ o < order[b]
      BY <3>3, <3>4, <3>5, RoomBetween
    <3>7. \A q \in others : Earlier(t, q) => order[b] <= order[q] /\ order[q] \in Int
      <4>1. ASSUME NEW q \in others, Earlier(t, q) PROVE order[b] <= order[q] /\ order[q] \in Int
        <5>1. q \in N /\ q \in Pages
          BY <1>1, <2>4, <4>1
        <5>2. q = b \/ Earlier(b, q)
          BY <3>1, <5>1 DEF First
        <5> QED BY <1>1, <3>2, <5>1, <5>2, EarlierIsOrder
      <4> QED BY <4>1
    <3> QED BY <2>3, <3>4, <3>6, <3>7
  <2> QED BY <2>5, <2>6
<1>10. order[t] \in Int
  BY <1>1
<1>11. CASE mode = "before"
  BY <1>8, <1>10, <1>11 DEF siblings
<1>12. CASE mode = "after"
  BY <1>9, <1>10, <1>12 DEF siblings
<1> QED BY <1>11, <1>12

\* For any tree, orders and doubles: where a number is left between its new
\* neighbours, a page lands on the side of the row where the drop was shown.
THEOREM DropsLandWhereShown == Spec => []DropLandsWhereShown
<1>1. TypeOK => DropLandsWhereShown
  <2> SUFFICES ASSUME TypeOK, NEW p \in Pages, NEW t \in Pages \ {p}, NEW mode \in {"before", "after"},
                      HasRoom(PreviousPage(p, t, mode), NextPage(p, t, mode))
               PROVE  /\ SiblingOrder(p, t, mode) # {}
                      /\ \A o \in SiblingOrder(p, t, mode) :
                           LET moved == [order EXCEPT ![p] = o]
                           IN /\ Before(moved, p, t) <=> mode = "before"
                              /\ \A q \in Siblings(p, t) \ {t} :
                                   Before(moved, q, p) <=> Before(moved, q, t)
    BY DEF DropLandsWhereShown
  <2>1. SiblingOrder(p, t, mode) # {}
    BY OrderBeside
  <2>2. SUFFICES ASSUME NEW o \in SiblingOrder(p, t, mode)
                 PROVE  LET moved == [order EXCEPT ![p] = o]
                        IN /\ Before(moved, p, t) <=> mode = "before"
                           /\ \A q \in Siblings(p, t) \ {t} :
                                Before(moved, q, p) <=> Before(moved, q, t)
    BY <2>1
  <2>3. /\ o \in Int /\ o # order[t] /\ (o < order[t] <=> mode = "before")
        /\ \A q \in Siblings(p, t) \ {t} :
             /\ Earlier(q, t) => (order[q] < o)
             /\ Earlier(t, q) => (o < order[q])
    BY OrderBeside
  <2> DEFINE moved == [order EXCEPT ![p] = o]
  <2>4. moved[p] = o /\ \A q \in Pages \ {p} : moved[q] = order[q] /\ order[q] \in Int
    BY DEF TypeOK
  <2>5. Before(moved, p, t) <=> mode = "before"
    BY <2>3, <2>4 DEF Before
  <2>6. ASSUME NEW q \in Siblings(p, t) \ {t}
        PROVE  Before(moved, q, p) <=> Before(moved, q, t)
    <3>1. q \in Pages \ {p}
      BY DEF Siblings, Children
    <3>2. Before(moved, q, t) <=> Earlier(q, t)
      BY <2>4, <3>1 DEF Before, Earlier
    <3>3. Earlier(q, t) \/ Earlier(t, q)
      BY <3>1, EarlierIsOrder
    <3>4. Before(moved, q, p) <=> order[q] < o \/ (order[q] = o /\ q < p)
      BY <2>4, <3>1 DEF Before
    <3>5. Earlier(q, t) => ~Earlier(t, q)
      BY <3>1, EarlierIsOrder
    <3> QED BY <2>3, <2>4, <3>1, <3>2, <3>3, <3>4, <3>5
  <2> QED BY <2>5, <2>6
<1> QED BY <1>1, InvariantHolds, PTL DEF TreeInv
=============================================================================
