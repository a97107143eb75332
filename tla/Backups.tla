------------------------------ MODULE Backups ------------------------------
(***************************************************************************)
(* Backups of the workspace (js/storage/backupService.js): making them,    *)
(* restoring them, and the two ways to clear them away - retention, which  *)
(* keeps the newest complete ones, and the sweep of incomplete ones -      *)
(* among saves and deletions of pages and restarts of the program.         *)
(*                                                                         *)
(* None of these calls takes a lock.  A backup reads the pages that are    *)
(* listed one after the other, writes the copies and at last the manifest, *)
(* without which it counts as incomplete; a restore makes a backup of its  *)
(* own, its safety copy, and then writes what the restored backup holds    *)
(* past the write queue.  A directory is removed entry by entry.           *)
(***************************************************************************)
EXTENDS Integers, FiniteSets, Sequences, SequencesExt

CONSTANTS
  Pages,
  Passing,    \* the pages that may be deleted, or come without being listed
  Manual,     \* backups that clear old ones away afterwards
  Restores,   \* restores; the safety copy goes by the restore's name
  Adoptions,  \* operations with a journal entry that names their own backup
  Cleanups,   \* retention on its own
  Sweeps,     \* cleanups of incomplete backups
  Saves,      \* page commands
  Deletions,  \* deletions of a page
  Keep,       \* the retention limit
  MaxRestarts,
  None

ASSUME BackupAssumption ==
  /\ IsFiniteSet(Pages) /\ Passing \subseteq Pages /\ Keep \in Nat \ {0} /\ MaxRestarts \in Nat
  /\ None \notin Pages \cup Manual \cup Restores \cup Adoptions
  /\ Manual \cap (Restores \cup Adoptions \cup Cleanups \cup Sweeps \cup Saves \cup Deletions) = {}
  /\ Restores \cap (Adoptions \cup Cleanups \cup Sweeps \cup Saves \cup Deletions) = {}
  /\ Adoptions \cap (Cleanups \cup Sweeps \cup Saves \cup Deletions) = {}
  /\ Cleanups \cap (Sweeps \cup Saves \cup Deletions) = {}
  /\ Sweeps \cap (Saves \cup Deletions) = {} /\ Saves \cap Deletions = {}

Snapshots == Manual \cup Restores \cup Adoptions
Cleaners  == Manual \cup Cleanups \cup Sweeps
Writers   == Saves \cup Adoptions \cup Deletions
Calls     == Snapshots \cup Cleaners \cup Saves \cup Deletions

\* What a page was made with or a save of it, and whether an adoption has moved
\* its inventory to its variables.
First   == "first"
Content == [text : Saves \cup {First}, adopted : BOOLEAN]
NoPages == [p \in Pages |-> None]

\* A backup's directory: the pages copied, and whether its manifest is there.
Directory == [pages : SUBSET Pages, manifest : BOOLEAN]

ASSUME DataAssumption == None \notin Directory \cup Content

VARIABLES
  file, loaded, \* the page files; page.content of the pages listed
  store,        \* the backups' directories: the pages copied, the manifest
  stamped,      \* the backups in the order of their createdAt
  copied,       \* what a backup has read
  journal,      \* the records of an operation: pending, failed, committed
  phase,
  todo,         \* the pages a backup's or restore's loop still has to visit
  plan,         \* what a restore is going to write
  victims,      \* the backups a cleaner has listed
  doomed,       \* the one whose removal it has decided
  at, base,     \* the page of a save, and the content the save is based on
  restarts,
  missed,       \* history: pages that were not listed when a running restore's
                \* safety copy was begun, or have been written since
  swept,        \* history: backups that a sweep has begun to remove
  cleared       \* history: backups that retention has begun to remove

pageVars   == <<file, loaded, missed>>
storeVars  == <<store, stamped, swept, cleared>>
callVars   == <<todo, plan, copied, victims, doomed, at, base>>
backupVars == <<pageVars, storeVars, callVars, journal, phase, restarts>>

Phases == {"idle", "reading", "copying", "verifying", "made", "restoring",
           "shown", "cleaning", "open", "queued", "removed", "done", "failed",
           "previewed", "adopting", "landing", "checking", "receipt"}

Goto(c, ph) == phase' = [phase EXCEPT ![c] = ph]

Holding(x) == {p \in Pages : x[p] # None}
Listed     == Holding(loaded)

\* A manifest names the pages that the backup has read.
HasManifest(s) == store[s] # None /\ store[s].manifest
Complete(s)    == HasManifest(s) /\ Holding(copied[s]) \subseteq store[s].pages

\* Calls end where they are, with what they had in memory.
Stop(calls) ==
  /\ phase'   = [c \in Calls |-> IF c \in calls THEN "failed" ELSE phase[c]]
  /\ todo'    = [s \in Snapshots |-> IF s \in calls THEN {} ELSE todo[s]]
  /\ plan'    = [s \in Restores \cup Adoptions |->
       IF s \in calls \cap Restores THEN NoPages ELSE plan[s]]
  /\ at'      = [v \in Writers |-> IF v \in calls THEN None ELSE at[v]]
  /\ base'    = [v \in Saves |-> IF v \in calls THEN None ELSE base[v]]
  /\ missed'  = [r \in Restores |-> IF r \in calls THEN {} ELSE missed[r]]

\* A page file is written.
Put(p, x) ==
  /\ file'    = [file EXCEPT ![p] = x]
  /\ missed' = [r \in Restores |->
       IF phase[r] \in {"idle", "done", "failed"} THEN {} ELSE missed[r] \cup {p}]

\* A file is written into a backup's directory, which is made if need be.
PutInto(s, pages, manifest) ==
  store' = [store EXCEPT ![s] =
    IF @ = None THEN [pages |-> pages, manifest |-> manifest]
    ELSE [pages |-> @.pages \cup pages, manifest |-> @.manifest \/ manifest]]

-----------------------------------------------------------------------------
(***************************************************************************)
(* createWorkspaceBackup.  It has nothing to do yet with what it is for.   *)
(***************************************************************************)
BeginBackup(s) ==
  /\ s \in Manual /\ phase[s] = "idle"
  /\ todo' = [todo EXCEPT ![s] = Listed]
  /\ Goto(s, "reading")
  /\ UNCHANGED <<pageVars, storeVars, plan, copied, victims, doomed, at, base, journal, restarts>>

ReadPage(s, p) ==
  /\ phase[s] = "reading" /\ p \in todo[s] /\ file[p] # None
  /\ copied'  = [copied EXCEPT ![s][p] = file[p]]
  /\ missed' = [r \in Restores |-> IF r = s THEN missed[r] \ {p} ELSE missed[r]]
  /\ todo'    = [todo EXCEPT ![s] = @ \ {p}]
  /\ UNCHANGED <<file, loaded, storeVars, plan, victims, doomed, at, base, journal, phase, restarts>>

\* Mutant: the manifest is written when it is made.
ManifestFirst(s) ==
  /\ phase[s] = "reading" /\ todo[s] = {}
  /\ PutInto(s, {}, TRUE)
  /\ stamped' = Append(stamped, s)
  /\ todo'    = [todo EXCEPT ![s] = Holding(copied[s])]
  /\ Goto(s, "copying")
  /\ UNCHANGED <<pageVars, swept, cleared, plan, copied, victims, doomed, at, base, journal, restarts>>

\* The directories are made, and the manifest gets its createdAt.
MakeDirectory(s) ==
  /\ phase[s] = "reading" /\ todo[s] = {}
  /\ PutInto(s, {}, FALSE)
  /\ stamped' = Append(stamped, s)
  /\ todo'    = [todo EXCEPT ![s] = Holding(copied[s])]
  /\ Goto(s, "copying")
  /\ UNCHANGED <<pageVars, swept, cleared, plan, copied, victims, doomed, at, base, journal, restarts>>

CopyPage(s, p) ==
  /\ phase[s] = "copying" /\ p \in todo[s]
  /\ PutInto(s, {p}, FALSE)
  /\ todo' = [todo EXCEPT ![s] = @ \ {p}]
  /\ UNCHANGED <<pageVars, stamped, swept, cleared, plan, copied, victims, doomed, at, base, journal, phase, restarts>>

WriteManifest(s) ==
  /\ phase[s] = "copying" /\ todo[s] = {}
  /\ PutInto(s, {}, TRUE)
  /\ Goto(s, "verifying")
  /\ UNCHANGED <<pageVars, stamped, swept, cleared, callVars, journal, restarts>>

Verify(s) ==
  /\ phase[s] = "verifying" /\ Complete(s)
  /\ Goto(s, "made")
  /\ UNCHANGED <<pageVars, storeVars, callVars, journal, restarts>>

\* A read or a write fails, or the verification: what has been written stays.
BackupFails(s) ==
  /\ phase[s] \in {"reading", "copying", "verifying"}
  /\ Stop({s})
  /\ UNCHANGED <<file, loaded, storeVars, copied, victims, doomed, journal, restarts>>

MakeBackup(s) ==
  \/ BeginBackup(s) \/ MakeDirectory(s) \/ WriteManifest(s) \/ Verify(s) \/ BackupFails(s)
  \/ \E p \in Pages : ReadPage(s, p) \/ CopyPage(s, p)

-----------------------------------------------------------------------------
(***************************************************************************)
(* restoreWorkspaceBackup.                                                 *)
(***************************************************************************)
\* The copies are in memory before the safety copy is begun.  It is a copy of
\* the pages listed; to recover an operation, of all the files.
BeginRestore(r, s) ==
  /\ phase[r] = "idle" /\ Complete(s)
  /\ plan' = [plan EXCEPT ![r] = copied[s]]
  /\ \E pages \in {Listed} \cup {Holding(file) : m \in Adoptions \cap {s}} :
       /\ todo'   = [todo EXCEPT ![r] = pages]
       /\ missed' = [missed EXCEPT ![r] = Pages \ pages]
  /\ Goto(r, "reading")
  /\ UNCHANGED <<file, loaded, storeVars, copied, victims, doomed, at, base, journal, restarts>>

\* Mutant: the safety copy need not have its manifest.
WriteUnfinished(r) ==
  /\ r \in Restores /\ phase[r] \in {"copying", "made"} /\ (phase[r] = "copying" => todo[r] = {})
  /\ todo' = [todo EXCEPT ![r] = Holding(plan[r])]
  /\ Goto(r, "restoring")
  /\ UNCHANGED <<pageVars, storeVars, plan, copied, victims, doomed, at, base, journal, restarts>>

StartWriting(r) ==
  /\ r \in Restores /\ phase[r] = "made"
  /\ todo' = [todo EXCEPT ![r] = Holding(plan[r])]
  /\ Goto(r, "restoring")
  /\ UNCHANGED <<pageVars, storeVars, plan, copied, victims, doomed, at, base, journal, restarts>>

\* Through the adapter: neither the write queue nor a precondition is asked.
RestorePage(r, p) ==
  /\ phase[r] = "restoring" /\ p \in todo[r]
  /\ Put(p, plan[r][p])
  /\ todo' = [todo EXCEPT ![r] = @ \ {p}]
  /\ UNCHANGED <<loaded, storeVars, plan, copied, victims, doomed, at, base, journal, phase, restarts>>

\* The files are read and listed again, or that fails and is reported.
FinishRestore(r) ==
  /\ phase[r] = "restoring" /\ todo[r] = {}
  /\ loaded'  \in {file, loaded}
  /\ plan'    = [plan EXCEPT ![r] = NoPages]
  /\ missed' = [missed EXCEPT ![r] = {}]
  /\ Goto(r, "done")
  /\ UNCHANGED <<file, storeVars, todo, copied, victims, doomed, at, base, journal, restarts>>

\* The incomplete-restore error: what has been written stays.
RestoreStops(r) ==
  /\ phase[r] = "restoring"
  /\ Stop({r})
  /\ UNCHANGED <<file, loaded, storeVars, copied, victims, doomed, journal, restarts>>

Restore(r) ==
  \/ \E s \in Snapshots : BeginRestore(r, s)
  \/ StartWriting(r) \/ FinishRestore(r) \/ RestoreStops(r)
  \/ \E p \in Pages : RestorePage(r, p)

-----------------------------------------------------------------------------
(***************************************************************************)
(* cleanupWorkspaceBackups and cleanupIncompleteWorkspaceBackups.          *)
(***************************************************************************)
\* Mutant: only the failed records count.
ProtectedIfFailed == {m \in Adoptions : "failed" \in journal[m] /\ "committed" \notin journal[m]}

\* collectProtectedOperationBackupIds
Protected == {m \in Adoptions : journal[m] \cap {"pending", "failed"} # {}
                                  /\ "committed" \notin journal[m]}

\* The backups with a later createdAt.
Newer(s) ==
  {t \in Snapshots : \E i, j \in DOMAIN stamped : i < j /\ stamped[i] = s /\ stamped[j] = t}

\* Mutant: one less is kept than the limit says.
OneMore(S) == {s \in S : Cardinality(Newer(s) \cap S) >= Keep - 1}

\* Those beyond the limit.
Excess(S) == {s \in S : Cardinality(Newer(s) \cap S) >= Keep}

ListOld(c) ==
  /\ \/ c \in Manual /\ phase[c] = "made"
     \/ c \in Cleanups /\ phase[c] = "idle"
  /\ victims' = [victims EXCEPT ![c] = Excess({s \in Snapshots : HasManifest(s)})]
  /\ Goto(c, "cleaning")
  /\ UNCHANGED <<pageVars, storeVars, todo, plan, copied, doomed, at, base, journal, restarts>>

Incomplete == {s \in Snapshots : store[s] # None /\ ~store[s].manifest}

\* The settings show the incomplete backups ...
ShowIncomplete(c) ==
  /\ c \in Sweeps /\ phase[c] = "idle" /\ Incomplete # {}
  /\ victims' = [victims EXCEPT ![c] = Incomplete]
  /\ Goto(c, "shown")
  /\ UNCHANGED <<pageVars, storeVars, todo, plan, copied, doomed, at, base, journal, restarts>>

\* ... and of those that were shown the ones that still are go.
ConfirmSweep(c) ==
  /\ phase[c] = "shown"
  /\ victims' = [victims EXCEPT ![c] = @ \cap Incomplete]
  /\ Goto(c, "cleaning")
  /\ UNCHANGED <<pageVars, storeVars, todo, plan, copied, doomed, at, base, journal, restarts>>

\* The newest of them comes first; the journal is read again for each.
CheckVictim(c) ==
  /\ phase[c] = "cleaning" /\ doomed[c] = None
  /\ \E v \in victims[c] :
       /\ Newer(v) \cap victims[c] = {}
       /\ doomed'  = [doomed EXCEPT ![c] = IF v \in Protected THEN None ELSE v]
       /\ victims' = [victims EXCEPT ![c] = @ \ {v}]
  /\ UNCHANGED <<pageVars, storeVars, todo, plan, copied, at, base, journal, phase, restarts>>

\* The removal of a directory has begun.
Mark(c) ==
  /\ swept'   = IF c \in Sweeps THEN swept \cup {doomed[c]} ELSE swept
  /\ cleared' = IF c \in Sweeps THEN cleared ELSE cleared \cup {doomed[c]}

\* Its entries go one by one, in any order: the manifest, and the copies.  Which
\* copies are gone first makes no difference, the backup lacks one of its pages.
RemoveEntries(c) ==
  /\ phase[c] = "cleaning" /\ doomed[c] # None /\ store[doomed[c]] # None
  /\ \E pages \in {store[doomed[c]].pages, {}}, manifest \in {store[doomed[c]].manifest, FALSE} :
       store' = [store EXCEPT ![doomed[c]] = [pages |-> pages, manifest |-> manifest]]
  /\ Mark(c)
  /\ UNCHANGED <<pageVars, stamped, callVars, journal, phase, restarts>>

\* At last the directory goes.
RemoveVictim(c) ==
  /\ phase[c] = "cleaning" /\ doomed[c] # None
  /\ store'  = [store EXCEPT ![doomed[c]] = None]
  /\ Mark(c)
  /\ doomed' = [doomed EXCEPT ![c] = None]
  /\ UNCHANGED <<pageVars, stamped, todo, plan, copied, victims, at, base, journal, phase, restarts>>

\* What has not been removed by then stays.  Retention goes on after a failure,
\* the sweep does not.
RemovalFails(c) ==
  /\ phase[c] = "cleaning" /\ doomed[c] # None
  /\ doomed'  = [doomed EXCEPT ![c] = None]
  /\ victims' = IF c \in Sweeps THEN [victims EXCEPT ![c] = {}] ELSE victims
  /\ UNCHANGED <<pageVars, storeVars, todo, plan, copied, at, base, journal, phase, restarts>>

EndCleaning(c) ==
  /\ phase[c] = "cleaning" /\ doomed[c] = None /\ victims[c] = {}
  /\ Goto(c, "done")
  /\ UNCHANGED <<pageVars, storeVars, callVars, journal, restarts>>

Clean(c) ==
  \/ ListOld(c) \/ ShowIncomplete(c) \/ ConfirmSweep(c)
  \/ CheckVictim(c) \/ RemoveEntries(c) \/ RemoveVictim(c) \/ RemovalFails(c) \/ EndCleaning(c)

-----------------------------------------------------------------------------
(***************************************************************************)
(* A page command, a deletion, a file from elsewhere, and a restart.       *)
(***************************************************************************)
\* The content that the editor shows is what the save will be based on.
OpenPage(v, p) ==
  /\ v \in Saves /\ phase[v] = "idle" /\ p \in Listed
  /\ at'   = [at EXCEPT ![v] = p]
  /\ base' = [base EXCEPT ![v] = loaded[p]]
  /\ Goto(v, "open")
  /\ UNCHANGED <<pageVars, storeVars, todo, plan, copied, victims, doomed, journal, restarts>>

\* Mutant: the writes of a page do not wait for each other.
NoQueue(p) == FALSE

\* The write queue takes one write of a page at a time.
InQueue(p) ==
  \/ \E v \in Saves : phase[v] = "queued" /\ at[v] = p
  \/ \E m \in Adoptions : phase[m] = "landing" /\ at[m] = p

\* The precondition compares the file with the base.
CheckSave(v) ==
  /\ phase[v] = "open" /\ ~InQueue(at[v]) /\ file[at[v]] = base[v]
  /\ Goto(v, "queued")
  /\ UNCHANGED <<pageVars, storeVars, callVars, journal, restarts>>

\* A file that was removed meanwhile is there again; its page is not listed.
LandSave(v) ==
  /\ v \in Saves /\ phase[v] = "queued"
  /\ LET new == [base[v] EXCEPT !.text = v]
     IN /\ Put(at[v], new)
        /\ loaded' = [loaded EXCEPT ![at[v]] = IF @ = None THEN None ELSE new]
  /\ at'   = [at EXCEPT ![v] = None]
  /\ base' = [base EXCEPT ![v] = None]
  /\ Goto(v, "done")
  /\ UNCHANGED <<storeVars, todo, plan, copied, victims, doomed, journal, restarts>>

\* A conflict, or the write fails.
SaveFails(v) ==
  /\ v \in Saves /\ phase[v] \in {"open", "queued"}
  /\ Stop({v})
  /\ UNCHANGED <<file, loaded, storeVars, copied, victims, doomed, journal, restarts>>

Save(v) ==
  (\E p \in Pages : OpenPage(v, p)) \/ CheckSave(v) \/ LandSave(v) \/ SaveFails(v)

\* The file goes, past the write queue, and after it the page from the list.
RemovePage(d, p) ==
  /\ d \in Deletions /\ phase[d] = "idle" /\ p \in Passing \cap Listed
  /\ file' = [file EXCEPT ![p] = None]
  /\ at'   = [at EXCEPT ![d] = p]
  /\ Goto(d, "removed")
  /\ UNCHANGED <<loaded, missed, storeVars, todo, plan, copied, victims, doomed, base, journal, restarts>>

Unlist(d) ==
  /\ phase[d] = "removed"
  /\ loaded' = [loaded EXCEPT ![at[d]] = None]
  /\ at'     = [at EXCEPT ![d] = None]
  /\ Goto(d, "done")
  /\ UNCHANGED <<file, missed, storeVars, todo, plan, copied, victims, doomed, base, journal, restarts>>

Delete(d) == (\E p \in Passing : RemovePage(d, p)) \/ Unlist(d)

\* A file comes that the list does not know: a creation that failed left it
\* behind, or it is put there from outside.
Arrive(p) ==
  /\ file[p] = None
  /\ Put(p, [text |-> First, adopted |-> FALSE])
  /\ UNCHANGED <<loaded, storeVars, callVars, journal, phase, restarts>>

\* The calls that were running are gone, and the files are read and listed.
Restart ==
  /\ restarts < MaxRestarts
  /\ restarts' = restarts + 1
  /\ Stop({c \in Calls : phase[c] \notin {"idle", "done"}})
  /\ loaded'   = file
  /\ victims'  = [c \in Cleaners |-> {}]
  /\ doomed'   = [c \in Cleaners |-> None]
  /\ UNCHANGED <<file, storeVars, copied, journal>>

-----------------------------------------------------------------------------
Init ==
  /\ \E there \in SUBSET Passing :
       file = [p \in Pages |-> IF p \in Passing \ there THEN None ELSE [text |-> First, adopted |-> FALSE]]
  /\ loaded   = file
  /\ store    = [s \in Snapshots |-> None]
  /\ stamped  = <<>>
  /\ copied   = [s \in Snapshots |-> NoPages]
  /\ journal  = [m \in Adoptions |-> {}]
  /\ phase    = [c \in Calls |-> "idle"]
  /\ todo     = [s \in Snapshots |-> {}]
  /\ plan     = [r \in Restores \cup Adoptions |-> NoPages]
  /\ victims  = [c \in Cleaners |-> {}]
  /\ doomed   = [c \in Cleaners |-> None]
  /\ at       = [v \in Writers |-> None]
  /\ base     = [v \in Saves |-> None]
  /\ restarts = 0
  /\ missed   = [r \in Restores |-> {}]
  /\ swept    = {} /\ cleared = {}

Step ==
  \/ \E s \in Snapshots : MakeBackup(s)
  \/ \E r \in Restores : Restore(r)
  \/ \E c \in Cleaners : Clean(c)
  \/ \E v \in Saves : Save(v)
  \/ \E d \in Deletions : Delete(d)
  \/ \E p \in Passing : Arrive(p)

Next == Step \/ Restart

Spec == Init /\ [][Next]_backupVars

-----------------------------------------------------------------------------
Option(S) == S \cup {None}

TypeOK ==
  /\ file \in [Pages -> Option(Content)] /\ loaded \in [Pages -> Option(Content)]
  /\ store \in [Snapshots -> Option(Directory)]
  /\ stamped \in Seq(Snapshots) /\ IsInjective(stamped)
  /\ copied \in [Snapshots -> [Pages -> Option(Content)]]
  /\ journal \in [Adoptions -> SUBSET {"pending", "failed", "committed"}]
  /\ phase \in [Calls -> Phases]
  /\ todo \in [Snapshots -> SUBSET Pages]
  /\ plan \in [Restores \cup Adoptions -> [Pages -> Option(Content)]]
  /\ victims \in [Cleaners -> SUBSET Snapshots]
  /\ doomed \in [Cleaners -> Option(Snapshots)]
  /\ \A c \in Cleaners : doomed[c] # None => phase[c] = "cleaning"
  /\ at \in [Writers -> Option(Pages)]
  /\ base \in [Saves -> Option(Content)]
  /\ restarts \in 0..MaxRestarts
  /\ missed \in [Restores -> SUBSET Pages] /\ swept \subseteq Snapshots /\ cleared \subseteq Snapshots

\* A backup is listed, kept and offered for a restore by its manifest: whatever
\* a call was doing when it stopped, a backup with a manifest has every page
\* that it read, unless a removal of it was begun.
ManifestMeansComplete ==
  \A s \in Snapshots : HasManifest(s) => Complete(s) \/ s \in swept \cup cleared

-----------------------------------------------------------------------------
(***************************************************************************)
(* What every step keeps, for the proofs.                                  *)
(***************************************************************************)
\* Before its directory is made, and before its manifest is written.
Unstamped(s) == phase[s] \in {"idle", "previewed", "reading"}
Unlisted(s)  == Unstamped(s) \/ phase[s] = "copying"

\* Backups get their createdAt once, before anything is in their directory.
StampInv ==
  \A s \in Snapshots :
    /\ store[s] # None => Contains(stamped, s)
    /\ Unstamped(s) => ~Contains(stamped, s)
    /\ phase[s] = "copying" => Contains(stamped, s)

\* A directory holds the pages that its backup has copied, until a sweep takes
\* it; once the backup is made only its removal changes it.
CopyInv ==
  \A s \in Snapshots :
    /\ Unlisted(s) => ~HasManifest(s)
    /\ s \notin swept /\ phase[s] = "copying" =>
         store[s] # None /\ Holding(copied[s]) \ todo[s] \subseteq store[s].pages
    /\ phase[s] \in {"made", "restoring", "adopting", "landing", "checking"} =>
         Complete(s) \/ s \in swept \cup cleared

\* Newer backups are complete, up to the limit, or a sweep took them.
NewerKept(s) == Cardinality({t \in Newer(s) : Complete(t) \/ t \in swept}) >= Keep

\* Retention lists and removes only backups beyond the limit, even where it
\* counts what an earlier removal has left.
VictimInv ==
  \A s \in Snapshots :
    s \in cleared \/ (\E c \in Cleaners \ Sweeps : s \in victims[c] \/ doomed[c] = s) =>
      ~Unlisted(s) /\ NewerKept(s)

\* While a restore runs, its safety copy is what the files hold or have held
\* since the page was copied.
SafetyInv ==
  \A r \in Restores :
    /\ phase[r] \in {"idle", "reading", "copying", "verifying", "made", "restoring", "done", "failed"}
    /\ phase[r] \notin {"idle", "done", "failed"} =>
         \A p \in Holding(file) \ missed[r] :
           (phase[r] = "reading" /\ p \in todo[r]) \/ copied[r][p] = file[p]
    /\ phase[r] = "restoring" => todo[r] \subseteq Holding(plan[r])

SaveInv ==
  /\ \A v \in Saves : phase[v] \in {"open", "queued"} => at[v] \in Pages /\ base[v] \in Content
  /\ \A d \in Deletions : phase[d] = "removed" => at[d] \in Passing
  /\ Pages \ Passing \subseteq Holding(file) \cap Listed

BackupInv ==
  /\ TypeOK /\ StampInv /\ CopyInv /\ ManifestMeansComplete
  /\ VictimInv /\ SafetyInv /\ SaveInv

-----------------------------------------------------------------------------
\* Something of a backup is removed.
Shrinks(s) ==
  /\ store[s] # None
  /\ \/ store'[s] = None
     \/ ~(store[s].pages \subseteq store'[s].pages)
     \/ (store[s].manifest /\ ~store'[s].manifest)

\* Cleaning up "must never remove every backup": retention touches a backup
\* only while as many newer complete ones as the limit says are there, however
\* many cleanups run at once and whatever fails half way - or a sweep took them.
NewestSnapshotsStay ==
  [][\A s \in Snapshots : Shrinks(s) /\ s \notin swept' => NewerKept(s)]_backupVars

\* What a restore overwrites can be restored: it is in the safety copy, unless
\* the page was not listed when that was begun or was written after it had been
\* copied, or a removal of the safety copy has begun since.
OverwrittenIsInSafetyCopy ==
  [][\A r \in Restores : \A p \in (todo[r] \ todo'[r]) \cap Holding(file) :
       phase[r] = "restoring" /\ phase'[r] = "restoring" =>
         \/ Complete(r) /\ (copied[r][p] = file[p] \/ p \in missed[r])
         \/ r \in swept \cup cleared]_backupVars

\* Claimed: the sweep re-checks its candidates before deleting, and does not
\* delete valid backups.
SweepKeepsValidSnapshots ==
  [][\A s \in swept' \ swept : ~HasManifest(s)]_backupVars
=============================================================================
