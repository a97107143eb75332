--------------------------- MODULE PageLifecycle ---------------------------
(***************************************************************************)
(* Creating pages, deleting branches and undoing deletions                 *)
(* (writePageFile, deletePageBranch, restorePageTrashEntry of              *)
(* js/storage/pageStorage.js, undoLastPageCommand of                       *)
(* js/storage/pageCommandService.js), among editor saves.                  *)
(*                                                                         *)
(* A deletion copies its pages to the trash, writes a manifest, removes    *)
(* the files and then takes the pages off the list; if a removal fails it  *)
(* writes back what it has removed.  An undo checks that nothing is in the *)
(* way and writes the copies back.  None of them waits for another one,    *)
(* nor for the write queue: every await lets the others in.                *)
(***************************************************************************)
EXTENDS Naturals, Sequences

CONSTANTS
  Pages,    \* the pages of the workspace at first
  Tree,     \* their parents
  Creates,  \* creations; the page a creation makes goes by its name
  Places,   \* the parents they are given
  Deletes, Undos, Saves,
  None

ASSUME LifecycleAssumption ==
  /\ Tree \in [Pages -> Pages \cup {None}] /\ Places \subseteq Pages \cup {None}
  /\ None \notin Pages \cup Creates \cup Deletes \cup Undos \cup Saves
  /\ Pages \cap (Creates \cup Deletes \cup Undos \cup Saves) = {}
  /\ Creates \cap (Deletes \cup Undos \cup Saves) = {}
  /\ Deletes \cap (Undos \cup Saves) = {} /\ Undos \cap Saves = {}

Known   == Pages \cup Creates
Calls   == Creates \cup Deletes \cup Undos \cup Saves
First   == "first"
Content == Saves \cup {First}   \* what a page was made with, or a save of it

ASSUME ContentAssumption == None # First

VARIABLES
  file,      \* the page files
  text,      \* page.content of the loaded pages
  listed,    \* state.pages
  parent,    \* page.parent
  trash,     \* the copies in a deletion's trash directory
  manifests, \* the deletions whose manifest is in the trash
  undoable,  \* pageUndoEntries: the deletions to undo, the last one first
  phase, result,
  at,        \* the page of a save, the deletion an undo undoes
  branch,    \* the pages of a deletion
  left,      \* those its current loop, or an undo's, still has to visit
  gone,      \* deletedPages; the page whose path an undo has found free
  previous,  \* previousPages, which a creation took hold of
  rewritten  \* history: pages whose file changed since a deletion copied them

fileVars == <<file, text, trash, manifests, rewritten>>
listVars == <<listed, parent, undoable>>
callVars == <<at, branch, left, gone, previous>>
vars     == <<fileVars, listVars, callVars, phase, result>>

Phases == {"idle", "copying", "manifest", "removing", "restoring",
           "reading", "free", "writing", "listing", "committing", "unwriting",
           "queued", "done"}

\* What a call came to.  "overtaken" and "revived" name what the program does
\* not notice: that another call has done or undone its work meanwhile.
Results == {"created", "deleted", "restored", "saved", "refused", "failed",
            "broken", "overtaken", "revived"}

ASSUME ResultAssumption == None \notin Results

-----------------------------------------------------------------------------
Goto(c, p)   == phase' = [phase EXCEPT ![c] = p] /\ UNCHANGED result
Return(c, r) == phase' = [phase EXCEPT ![c] = "done"] /\ result' = [result EXCEPT ![c] = r]

Files == {p \in Known : file[p] # None}

\* A file is written, or removed.
Put(p, x) ==
  /\ file' = [file EXCEPT ![p] = x]
  /\ rewritten' = [d \in Deletes |->
       IF phase[d] # "done" /\ trash[d][p] # None THEN rewritten[d] \cup {p}
       ELSE rewritten[d]]

Forget(d) ==
  /\ trash'     = [trash EXCEPT ![d] = [p \in Known |-> None]]
  /\ branch'    = [branch EXCEPT ![d] = {}]
  /\ rewritten' = [rewritten EXCEPT ![d] = {}]

\* The loops go from parents to children.
IsNext(c, p) == p \in left[c] /\ parent[p] \notin left[c]

LeftWithout(c, p) == left' = [left EXCEPT ![c] = @ \ {p}]

-----------------------------------------------------------------------------
(***************************************************************************)
(* deletePageBranch.                                                       *)
(***************************************************************************)
\* collectPageBranch: the page and what is listed below it.
Branch(root) ==
  {p \in Known :
     \A S \in SUBSET Known :
       root \in S /\ (\A q \in listed : parent[q] \in S => q \in S) => p \in S}

\* The menu was opened on a page, and asked for permission to write: by now the
\* page need not be listed.
BeginDelete(d, p) ==
  /\ phase[d] = "idle" /\ text[p] # None
  /\ branch' = [branch EXCEPT ![d] = Branch(p)]
  /\ left'   = [left EXCEPT ![d] = Branch(p)]
  /\ Goto(d, "copying")
  /\ UNCHANGED <<at, gone, previous>>
  /\ UNCHANGED fileVars /\ UNCHANGED listVars

\* Mutant: the loaded page is what is copied.
LoadedContent(p) == text[p]

\* readPageContentForTrash
ContentForTrash(p) == IF file[p] # None THEN file[p] ELSE text[p]

\* createPageTrashEntry, page after page.
CopyPage(d, p) ==
  /\ phase[d] = "copying" /\ IsNext(d, p)
  /\ trash' = [trash EXCEPT ![d][p] = ContentForTrash(p)]
  /\ LeftWithout(d, p)
  /\ Goto(d, IF left[d] = {p} THEN "manifest" ELSE "copying")
  /\ UNCHANGED <<file, text, manifests, rewritten, at, branch, gone, previous>>
  /\ UNCHANGED listVars

WriteManifest(d) ==
  /\ phase[d] = "manifest"
  /\ manifests' = manifests \cup {d}
  /\ left' = [left EXCEPT ![d] = branch[d]]
  /\ Goto(d, "removing")
  /\ UNCHANGED <<file, text, trash, rewritten, at, branch, gone, previous>>
  /\ UNCHANGED listVars

\* No permission, or a read or write for the trash fails: nothing is removed.
\* Copies that nothing will read again are forgotten here and below.
RefuseDelete(d) ==
  /\ phase[d] \in {"copying", "manifest"}
  /\ Return(d, "refused")
  /\ Forget(d)
  /\ left' = [left EXCEPT ![d] = {}]
  /\ UNCHANGED <<file, text, manifests, at, gone, previous>> /\ UNCHANGED listVars

\* deletePageFile; a missing file counts as deleted.
RemovePage(d, p) ==
  /\ phase[d] = "removing" /\ IsNext(d, p)
  /\ Put(p, None)
  /\ gone' = [gone EXCEPT ![d] = @ \cup {p}]
  /\ LeftWithout(d, p)
  /\ UNCHANGED <<text, trash, manifests, at, branch, previous, phase, result>>
  /\ UNCHANGED listVars

\* The removal fails, and the loop goes on.
RemoveFails(d, p) ==
  /\ phase[d] = "removing" /\ IsNext(d, p)
  /\ LeftWithout(d, p)
  /\ UNCHANGED <<at, branch, gone, previous, phase, result>>
  /\ UNCHANGED fileVars /\ UNCHANGED listVars

\* Everything is removed: the pages leave the list.
FinishDelete(d) ==
  /\ phase[d] = "removing" /\ left[d] = {} /\ gone[d] = branch[d]
  /\ listed'   = listed \ gone[d]
  /\ undoable' = <<d>> \o undoable
  /\ Return(d, IF branch[d] \cap Files = {} THEN "deleted" ELSE "overtaken")
  /\ rewritten' = [rewritten EXCEPT ![d] = {}]
  /\ UNCHANGED <<file, text, trash, manifests, parent>> /\ UNCHANGED callVars

\* Mutant: what could not be removed is what is written back.
NotRemoved(d) == branch[d] \ gone[d]

\* pageIds of restorePageTrashManifest
ToWriteBack(d) == gone[d]

\* A removal failed: what was removed is written back over whatever is there.
TurnBack(d) ==
  /\ phase[d] = "removing" /\ left[d] = {} /\ gone[d] # branch[d]
  /\ left' = [left EXCEPT ![d] = ToWriteBack(d)]
  /\ Goto(d, "restoring")
  /\ UNCHANGED <<at, branch, gone, previous>>
  /\ UNCHANGED fileVars /\ UNCHANGED listVars

WriteBack(d, p) ==
  /\ d \in Deletes /\ phase[d] = "restoring" /\ IsNext(d, p)
  /\ Put(p, trash[d][p])
  /\ LeftWithout(d, p)
  /\ UNCHANGED <<text, trash, manifests, at, branch, gone, previous, phase, result>>
  /\ UNCHANGED listVars

WriteBackFails(d) ==
  /\ d \in Deletes /\ phase[d] = "restoring" /\ left[d] # {}
  /\ Return(d, "broken")
  /\ Forget(d)
  /\ left' = [left EXCEPT ![d] = {}]
  /\ UNCHANGED <<file, text, manifests, at, gone, previous>> /\ UNCHANGED listVars

ReportFailure(d) ==
  /\ d \in Deletes /\ phase[d] = "restoring" /\ left[d] = {}
  /\ Return(d, "failed")
  /\ Forget(d)
  /\ UNCHANGED <<file, text, manifests, at, left, gone, previous>>
  /\ UNCHANGED listVars

-----------------------------------------------------------------------------
(***************************************************************************)
(* undoLastPageCommand of a deletion: restorePageTrashEntry.               *)
(***************************************************************************)
\* The entry leaves the stack before anything is awaited.
BeginUndo(u) ==
  /\ phase[u] = "idle" /\ undoable # <<>>
  /\ at' = [at EXCEPT ![u] = Head(undoable)]
  /\ undoable' = Tail(undoable)
  /\ Goto(u, "reading")
  /\ UNCHANGED <<listed, parent, branch, left, gone, previous>>
  /\ UNCHANGED fileVars

\* The manifest was read; no page of it may be listed.
BeginRestore(u) ==
  /\ phase[u] = "reading"
  /\ branch[at[u]] \cap listed = {}
  /\ left' = [left EXCEPT ![u] = branch[at[u]]]
  /\ Goto(u, "free")
  /\ UNCHANGED <<at, branch, gone, previous>>
  /\ UNCHANGED fileVars /\ UNCHANGED listVars

\* assertRestorePathIsFree
FindFree(u, p) ==
  /\ phase[u] = "free" /\ IsNext(u, p) /\ file[p] = None
  /\ gone' = [gone EXCEPT ![u] = {p}]
  /\ Goto(u, "writing")
  /\ UNCHANGED <<at, branch, left, previous>>
  /\ UNCHANGED fileVars /\ UNCHANGED listVars

RestorePage(u, p) ==
  /\ u \in Undos /\ phase[u] = "writing" /\ p \in gone[u]
  /\ Put(p, trash[at[u]][p])
  /\ gone' = [gone EXCEPT ![u] = {}]
  /\ LeftWithout(u, p)
  /\ Goto(u, "free")
  /\ UNCHANGED <<text, trash, manifests, at, branch, previous>>
  /\ UNCHANGED listVars

EndUndo(u) ==
  /\ Forget(at[u])
  /\ at'   = [at EXCEPT ![u] = None]
  /\ gone' = [gone EXCEPT ![u] = {}]

\* Something is in the way, or a read or write fails: what was restored so far
\* stays.
UndoFails(u) ==
  /\ u \in Undos /\ phase[u] \in {"reading", "free", "writing"}
  /\ phase[u] = "free" => left[u] # {}
  /\ Return(u, IF left[u] \in {{}, branch[at[u]]} THEN "refused" ELSE "broken")
  /\ EndUndo(u)
  /\ left' = [left EXCEPT ![u] = {}]
  /\ UNCHANGED <<file, text, manifests, previous>> /\ UNCHANGED listVars

FinishUndo(u) ==
  /\ phase[u] = "free" /\ left[u] = {}
  /\ LET d == at[u]
     IN /\ listed' = listed \cup branch[d]
        /\ text' = [p \in Known |-> IF p \in branch[d] THEN trash[d][p] ELSE text[p]]
        /\ Return(u, IF branch[d] \subseteq Files THEN "restored" ELSE "overtaken")
  /\ EndUndo(u)
  /\ UNCHANGED <<file, manifests, parent, undoable, left, previous>>

-----------------------------------------------------------------------------
(***************************************************************************)
(* createPage, createFolderPage, duplicatePage...: writePageFile.          *)
(***************************************************************************)
\* previousPages is taken after the directory is there, before the journal.
BeginCreate(c, q) ==
  /\ phase[c] = "idle"
  /\ parent'   = [parent EXCEPT ![c] = q]
  /\ previous' = [previous EXCEPT ![c] = listed]
  /\ Goto(c, "writing")
  /\ UNCHANGED <<listed, undoable, at, branch, left, gone>> /\ UNCHANGED fileVars

WriteNew(c) ==
  /\ c \in Creates /\ phase[c] = "writing"
  /\ Put(c, First)
  /\ Goto(c, "listing")
  /\ UNCHANGED <<text, trash, manifests>>
  /\ UNCHANGED listVars /\ UNCHANGED callVars

\* Mutant: the list is the one that was captured for the rollback.
CapturedWith(c) == previous[c] \cup {c}

ListedWith(c) == listed \cup {c}

\* The readback agreed.
ListNew(c) ==
  /\ phase[c] = "listing"
  /\ listed' = ListedWith(c)
  /\ text'   = [text EXCEPT ![c] = First]
  /\ Goto(c, "committing")
  /\ UNCHANGED <<file, trash, manifests, rewritten, parent, undoable>>
  /\ UNCHANGED callVars

CommitEntry(c) ==
  /\ phase[c] = "committing"
  /\ Return(c, "created")
  /\ previous' = [previous EXCEPT ![c] = {}]
  /\ UNCHANGED <<at, branch, left, gone>>
  /\ UNCHANGED fileVars /\ UNCHANGED listVars

\* The rollback: the captured list takes the place of the current one.
Rollback(c) ==
  /\ c \in Creates /\ phase[c] \in {"writing", "listing", "committing"}
  /\ \/ UNCHANGED fileVars
     \/ phase[c] = "writing" /\ Put(c, First) /\ UNCHANGED <<text, trash, manifests>>
  /\ listed'   = previous[c]
  /\ previous' = [previous EXCEPT ![c] = {}]
  /\ Goto(c, "unwriting")
  /\ UNCHANGED <<parent, undoable, at, branch, left, gone>>

RemoveNew(c) ==
  /\ phase[c] = "unwriting"
  /\ Put(c, None)
  /\ Return(c, "failed")
  /\ UNCHANGED <<text, trash, manifests>>
  /\ UNCHANGED listVars /\ UNCHANGED callVars

\* The journal's entry or the file cannot be written off: the file stays.
LeaveNew(c) ==
  /\ phase[c] = "unwriting"
  /\ Return(c, "broken")
  /\ UNCHANGED fileVars /\ UNCHANGED listVars /\ UNCHANGED callVars

-----------------------------------------------------------------------------
(***************************************************************************)
(* An editor save: its precondition, then its turn in the write queue.     *)
(***************************************************************************)
CheckSave(s, p) ==
  /\ phase[s] = "idle" /\ file[p] # None /\ file[p] = text[p]
  /\ at' = [at EXCEPT ![s] = p]
  /\ Goto(s, "queued")
  /\ UNCHANGED <<branch, left, gone, previous>>
  /\ UNCHANGED fileVars /\ UNCHANGED listVars

\* The adapter writes the path, whether or not a file is there.
WriteSave(s) ==
  /\ phase[s] = "queued"
  /\ Put(at[s], s)
  /\ text' = [text EXCEPT ![at[s]] = s]
  /\ Return(s, IF at[s] \in Files THEN "saved" ELSE "revived")
  /\ at'   = [at EXCEPT ![s] = None]
  /\ UNCHANGED <<trash, manifests, branch, left, gone, previous>>
  /\ UNCHANGED listVars

SaveFails(s) ==
  /\ phase[s] = "queued"
  /\ Return(s, "refused")
  /\ at' = [at EXCEPT ![s] = None]
  /\ UNCHANGED <<branch, left, gone, previous>>
  /\ UNCHANGED fileVars /\ UNCHANGED listVars

-----------------------------------------------------------------------------
Init ==
  /\ file      = [p \in Known |-> IF p \in Pages THEN First ELSE None]
  /\ text      = file
  /\ listed    = Pages
  /\ parent    = [p \in Known |-> IF p \in Pages THEN Tree[p] ELSE None]
  /\ trash     = [d \in Deletes |-> [p \in Known |-> None]]
  /\ manifests = {}
  /\ undoable  = <<>>
  /\ phase     = [c \in Calls |-> "idle"]
  /\ result    = [c \in Calls |-> None]
  /\ at        = [c \in Calls |-> None]
  /\ branch    = [d \in Deletes |-> {}]
  /\ left      = [c \in Deletes \cup Undos |-> {}]
  /\ gone      = [c \in Deletes \cup Undos |-> {}]
  /\ previous  = [c \in Creates |-> {}]
  /\ rewritten = [d \in Deletes |-> {}]

Delete(d) ==
  \/ WriteManifest(d) \/ RefuseDelete(d) \/ FinishDelete(d)
  \/ TurnBack(d) \/ WriteBackFails(d) \/ ReportFailure(d)
  \/ \E p \in Known :
       BeginDelete(d, p) \/ CopyPage(d, p) \/ RemovePage(d, p) \/ RemoveFails(d, p)
         \/ WriteBack(d, p)

Undo(u) ==
  \/ BeginUndo(u) \/ BeginRestore(u) \/ UndoFails(u) \/ FinishUndo(u)
  \/ \E p \in Known : FindFree(u, p) \/ RestorePage(u, p)

Create(c) ==
  \/ \E q \in Places : BeginCreate(c, q)
  \/ WriteNew(c) \/ ListNew(c) \/ CommitEntry(c)
  \/ Rollback(c) \/ RemoveNew(c) \/ LeaveNew(c)

Save(s) == (\E p \in Known : CheckSave(s, p)) \/ WriteSave(s) \/ SaveFails(s)

Next ==
  \/ \E d \in Deletes : Delete(d)
  \/ \E u \in Undos : Undo(u)
  \/ \E c \in Creates : Create(c)
  \/ \E s \in Saves : Save(s)

Spec == Init /\ [][Next]_vars

-----------------------------------------------------------------------------
Option(S) == S \cup {None}

TypeOK ==
  /\ file \in [Known -> Option(Content)] /\ text \in [Known -> Option(Content)]
  /\ listed \subseteq Known
  /\ parent \in [Known -> Option(Known)]
  /\ trash \in [Deletes -> [Known -> Option(Content)]]
  /\ manifests \subseteq Deletes
  /\ undoable \in Seq(Deletes)
  /\ phase \in [Calls -> Phases] /\ result \in [Calls -> Option(Results)]
  /\ at \in [Calls -> Option(Known \cup Deletes)]
  /\ branch \in [Deletes -> SUBSET Known]
  /\ left \in [Deletes \cup Undos -> SUBSET Known]
  /\ gone \in [Deletes \cup Undos -> SUBSET Known]
  /\ previous \in [Creates -> SUBSET Known]
  /\ rewritten \in [Deletes -> SUBSET Known]

-----------------------------------------------------------------------------
(***************************************************************************)
(* The inductive invariant.                                                *)
(***************************************************************************)
\* A deletion that has ended and can be undone has removed all of its pages.
Undone(d) == phase[d] = "done" /\ branch[d] \subseteq gone[d]

\* Where a call is agrees with what it holds.
ProgressInv ==
  /\ \A c \in Calls : phase[c] # "done" => result[c] = None
  /\ \A d \in Deletes :
       /\ phase[d] \in {"idle", "copying", "manifest"} => gone[d] = {}
       /\ phase[d] = "copying" => left[d] \subseteq branch[d]
       /\ phase[d] \in {"removing", "restoring"} =>
            d \in manifests /\ left[d] \cup gone[d] \subseteq branch[d]
       /\ phase[d] = "restoring" => left[d] \subseteq gone[d]
  /\ \A i \in 1..Len(undoable) : Undone(undoable[i])
  /\ \A u \in Undos :
       /\ phase[u] = "idle" => left[u] = {} /\ gone[u] = {}
       /\ phase[u] \in {"reading", "free", "writing"} =>
            at[u] \in Deletes /\ Undone(at[u]) /\ left[u] \cup gone[u] \subseteq gone[at[u]]
  /\ \A s \in Saves : phase[s] = "queued" => at[s] \in Known

\* What is listed, was listed or is being deleted has been loaded.  A page that
\* is being created has not, and has its file.
LoadedInv ==
  /\ \A p \in listed : text[p] # None
  /\ \A c \in Creates : \A p \in previous[c] : text[p] # None
  /\ \A d \in Deletes : \A p \in branch[d] \cup gone[d] : text[p] # None
  /\ \A s \in Saves : phase[s] = "queued" => text[at[s]] # None
  /\ \A c \in Creates :
       /\ phase[c] \in {"idle", "writing", "listing"} => text[c] = None
       /\ phase[c] = "listing" => file[c] # None

\* A deletion past its copying has a copy of each page.
CopiesInv ==
  \A d \in Deletes : \A p \in branch[d] :
    trash[d][p] = None => phase[d] = "copying" /\ p \in left[d]

\* The history knows which files have changed since they were copied.
HistoryInv ==
  \A d \in Deletes : phase[d] # "done" =>
    \A p \in Known : trash[d][p] # None /\ file[p] # None =>
      trash[d][p] = file[p] \/ p \in rewritten[d]

\* A deletion or a failed creation has taken the file.
TakenBy(D, p) == (\E e \in D : p \in gone[e]) \/ (p \in Creates /\ result[p] = "failed")

\* A loaded page without a file has lost it to somebody; to another call, if a
\* deletion that turns back has already come by.
MissingInv ==
  /\ \A p \in Known \ Files : text[p] # None => TakenBy(Deletes, p)
  /\ \A d \in Deletes : phase[d] = "restoring" =>
       \A p \in branch[d] \ Files : p \in left[d] \/ TakenBy(Deletes \ {d}, p)

LifecycleInv ==
  TypeOK /\ ProgressInv /\ LoadedInv /\ CopiesInv /\ HistoryInv /\ MissingInv

(***************************************************************************)
(* What the list is owed: a second invariant, on top of the first one.     *)
(***************************************************************************)
\* Results of calls that have done all or nothing.
Clean == {None, "created", "deleted", "restored", "saved", "refused"}

\* A call has failed half way or had its work undone, or is bound to end so.
Spoilt ==
  \E c \in Calls : result[c] \notin Clean \/ phase[c] \in {"restoring", "unwriting"}

Undoing == {u \in Undos : phase[u] \in {"reading", "free", "writing"}}

\* A deletion is undone once: it is on the stack or taken by one undo, which has
\* a page in hand exactly while it writes it.
UndoInv ==
  /\ \A i, j \in 1..Len(undoable) : undoable[i] = undoable[j] => i = j
  /\ \A i \in 1..Len(undoable) : gone[undoable[i]] = branch[undoable[i]]
  /\ \A u \in Undoing :
       /\ gone[at[u]] = branch[at[u]]
       /\ \A i \in 1..Len(undoable) : at[u] # undoable[i]
       /\ \A v \in Undoing : at[u] = at[v] => u = v
       /\ phase[u] = "writing" => gone[u] # {} /\ gone[u] \subseteq left[u]

\* A deletion that has taken the file has yet to take the page off the list.
Leaving(p) == \E d \in Deletes : phase[d] = "removing" /\ p \in gone[d]

\* The creation or the undo that has written the file has yet to list the page.
Arriving(p) ==
  \/ p \in Creates /\ phase[p] = "listing"
  \/ \E u \in Undoing : phase[u] # "reading" /\ p \in branch[at[u]] \ left[u]

ListInv ==
  Spoilt \/ \A p \in Known :
    /\ p \in listed \ Files => Leaving(p)
    /\ p \in Files \ listed => Arriving(p)

AccountInv == LifecycleInv /\ UndoInv /\ ListInv

-----------------------------------------------------------------------------
\* The trash is what a deleted page is restored from: when a deletion removes
\* a file, its manifest is in the trash with a copy of what the file holds,
\* unless somebody wrote the file after it was copied.
TrashHoldsWhatIsRemoved ==
  [][\A d \in Deletes : \A p \in gone'[d] \ gone[d] :
       file[p] # None =>
         /\ d \in manifests /\ trash[d][p] # None
         /\ trash[d][p] = file[p] \/ p \in rewritten[d]]_vars

\* If a deletion fails half way, the files it has removed are written back
\* before it reports: each page of its branch has a file, unless another
\* deletion took it, or it was a page whose creation failed.
FailedDeleteLeavesFiles ==
  [][\A d \in Deletes :
       result[d] = None /\ result'[d] = "failed" =>
         \A p \in branch[d] \ Files : TakenBy(Deletes \ {d}, p)]_vars

\* The list of pages is changed after awaits, by calls that know nothing of
\* each other: when none is running, and none has failed half way or had its
\* work undone by another one, the list holds the pages that have a file.
ListMatchesFiles ==
  (\A c \in Calls : phase[c] \in {"idle", "done"} /\ result[c] \in Clean) =>
    listed = Files
=============================================================================
