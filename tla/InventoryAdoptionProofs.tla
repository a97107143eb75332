---------------------- MODULE InventoryAdoptionProofs ----------------------
(***************************************************************************)
(* Proofs about Backups, and about InventoryAdoption on top of it, for any *)
(* pages, backups, restores, cleanups, saves and adoptions.                *)
(***************************************************************************)
EXTENDS InventoryAdoption, FiniteSetTheorems, SequenceTheorems, TLAPS

USE BackupAssumption

-----------------------------------------------------------------------------
(***************************************************************************)
(* The order of the backups.                                               *)
(***************************************************************************)
\* A backup that is stamped later is newer than all that were stamped before.
LEMMA AppendStamp ==
  ASSUME stamped \in Seq(Snapshots), IsInjective(stamped), NEW s \in Snapshots,
         ~Contains(stamped, s), stamped' = Append(stamped, s)
  PROVE  /\ stamped' \in Seq(Snapshots) /\ IsInjective(stamped')
         /\ \A t \in Snapshots : Contains(stamped', t) <=> Contains(stamped, t) \/ t = s
         /\ \A t \in Snapshots : Newer(t) \subseteq Newer(t)'
<1>1. /\ Len(stamped') = Len(stamped) + 1 /\ Len(stamped) \in Nat
      /\ \A i \in 1..Len(stamped) : stamped'[i] = stamped[i]
      /\ stamped'[Len(stamped) + 1] = s
      /\ DOMAIN stamped = 1..Len(stamped) /\ DOMAIN stamped' = 1..(Len(stamped) + 1)
  OBVIOUS
<1>2. stamped' \in Seq(Snapshots)
  OBVIOUS
<1>3. IsInjective(stamped')
  BY <1>1 DEF IsInjective, Contains
<1>4. \A t \in Snapshots : Contains(stamped', t) <=> Contains(stamped, t) \/ t = s
  BY <1>1 DEF Contains
<1>5. \A t \in Snapshots : Newer(t) \subseteq Newer(t)'
  BY <1>1 DEF Newer
<1> QED BY <1>2, <1>3, <1>4, <1>5

\* What is newer than a newer backup is newer, and no backup is newer than itself.
LEMMA NewerOrder ==
  ASSUME stamped \in Seq(Snapshots), IsInjective(stamped), NEW s \in Snapshots, NEW t \in Newer(s)
  PROVE  Newer(t) \subseteq Newer(s) \ {t}
BY DEF Newer, IsInjective

LEMMA LaterFinite ==
  ASSUME NEW q \in Seq(Snapshots), NEW s
  PROVE  IsFiniteSet({t \in Snapshots : \E i, j \in DOMAIN q : i < j /\ q[i] = s /\ q[j] = t})
<1> DEFINE T == {t \in Snapshots : \E i, j \in DOMAIN q : i < j /\ q[i] = s /\ q[j] = t}
           f == [t \in T |-> CHOOSE i \in 1..Len(q) : q[i] = t]
<1>1. Len(q) \in Nat /\ DOMAIN q = 1..Len(q)
  OBVIOUS
<1>2. \A t \in T : f[t] \in 1..Len(q) /\ q[f[t]] = t
  BY <1>1
<1>3. f \in Injection(T, 1..Len(q))
  <2>1. f \in [T -> 1..Len(q)]
    BY <1>2
  <2>2. \A a, b \in T : f[a] = f[b] => a = b
    BY <1>2
  <2> HIDE DEF f, T
  <2> QED BY <2>1, <2>2 DEF Injection, IsInjective
<1>4. IsFiniteSet(1..Len(q))
  BY <1>1, FS_Interval
<1> HIDE DEF f, T
<1>5. IsFiniteSet(T)
  BY <1>3, <1>4, FS_Injection
<1> QED BY <1>5 DEF T

LEMMA NewerFinite ==
  ASSUME stamped \in Seq(Snapshots), NEW s
  PROVE  IsFiniteSet(Newer(s))
<1> DEFINE q == stamped
<1>1. IsFiniteSet({t \in Snapshots : \E i, j \in DOMAIN q : i < j /\ q[i] = s /\ q[j] = t})
  <2>1. q \in Seq(Snapshots)
    OBVIOUS
  <2> HIDE DEF q
  <2> QED BY <2>1, LaterFinite
<1> QED BY <1>1 DEF Newer

\* A backup with enough newer ones keeps them while nothing takes them away.
LEMMA KeptStays ==
  ASSUME stamped \in Seq(Snapshots), stamped' \in Seq(Snapshots), NEW s \in Snapshots, NewerKept(s),
         Newer(s) \subseteq Newer(s)',
         \A t \in Newer(s) : Complete(t) \/ t \in swept => Complete(t)' \/ t \in swept'
  PROVE  NewerKept(s)'
<1> DEFINE K == {t \in Newer(s) : Complete(t) \/ t \in swept}
           L == {t \in Newer(s)' : Complete(t)' \/ t \in swept'}
<1>1. K \subseteq L
  OBVIOUS
<1>2. IsFiniteSet(Newer(s)')
  <2> DEFINE q == stamped'
  <2>1. IsFiniteSet({t \in Snapshots : \E i, j \in DOMAIN q : i < j /\ q[i] = s /\ q[j] = t})
    <3> HIDE DEF q
    <3> QED BY LaterFinite DEF q
  <2> QED BY <2>1 DEF Newer
<1> QED BY <1>1, <1>2, FS_Subset, FS_CardinalityType DEF NewerKept

-----------------------------------------------------------------------------
(***************************************************************************)
(* The types.                                                              *)
(***************************************************************************)
\* Calls that stop.
LEMMA StopTypes ==
  ASSUME TypeOK, NEW calls, Stop(calls)
  PROVE  /\ phase' \in [Calls -> Phases]
         /\ todo' \in [Snapshots -> SUBSET Pages]
         /\ plan' \in [Restores \cup Adoptions -> [Pages -> Option(Content)]]
         /\ at' \in [Writers -> Option(Pages)]
         /\ base' \in [Saves -> Option(Content)]
         /\ missed' \in [Restores -> SUBSET Pages]
         /\ \A c \in Calls : c \notin calls => phase'[c] = phase[c]
         /\ \A c \in Calls : c \in calls => phase'[c] = "failed"
         /\ \A s \in Snapshots : s \notin calls => todo'[s] = todo[s]
         /\ \A r \in Restores \cup Adoptions : r \notin calls => plan'[r] = plan[r]
         /\ \A m \in Adoptions : plan'[m] = plan[m]
         /\ \A v \in Writers : v \notin calls => at'[v] = at[v]
         /\ \A v \in Saves : v \notin calls => base'[v] = base[v]
         /\ \A r \in Restores : r \notin calls => missed'[r] = missed[r]
<1>1. NoPages \in [Pages -> Option(Content)]
  BY DEF NoPages, Option
<1>2. phase' \in [Calls -> Phases] /\ todo' \in [Snapshots -> SUBSET Pages]
  BY DEF Stop, TypeOK, Phases
<1>3. plan' \in [Restores \cup Adoptions -> [Pages -> Option(Content)]]
  BY <1>1 DEF Stop, TypeOK
<1>4. at' \in [Writers -> Option(Pages)] /\ base' \in [Saves -> Option(Content)]
  BY DEF Stop, TypeOK, Option
<1>5. missed' \in [Restores -> SUBSET Pages]
  BY DEF Stop, TypeOK
<1>6. /\ \A c \in Calls : c \notin calls => phase'[c] = phase[c]
      /\ \A c \in Calls : c \in calls => phase'[c] = "failed"
      /\ \A s \in Snapshots : s \notin calls => todo'[s] = todo[s]
      /\ \A r \in Restores \cup Adoptions : r \notin calls => plan'[r] = plan[r]
      /\ \A m \in Adoptions : plan'[m] = plan[m]
      /\ \A v \in Writers : v \notin calls => at'[v] = at[v]
      /\ \A v \in Saves : v \notin calls => base'[v] = base[v]
      /\ \A r \in Restores : r \notin calls => missed'[r] = missed[r]
  BY DEF Stop
<1> QED BY <1>2, <1>3, <1>4, <1>5, <1>6

\* A page is written: its file has the content, and a restore that is running
\* knows of it.
LEMMA PutTypes ==
  ASSUME TypeOK, NEW p \in Pages, NEW x \in Content, Put(p, x)
  PROVE  /\ file' \in [Pages -> Option(Content)] /\ missed' \in [Restores -> SUBSET Pages]
         /\ file'[p] = x /\ \A q \in Pages \ {p} : file'[q] = file[q]
         /\ \A r \in Restores : phase[r] \notin {"idle", "done", "failed"} =>
              missed'[r] = missed[r] \cup {p}
BY DEF Put, TypeOK, Option

\* A file is written into a backup's directory: the others' are left alone.
LEMMA PutIntoTypes ==
  ASSUME TypeOK, NEW s \in Snapshots, NEW pages \in SUBSET Pages, NEW manifest \in BOOLEAN,
         PutInto(s, pages, manifest)
  PROVE  /\ store' \in [Snapshots -> Option(Directory)]
         /\ \A t \in Snapshots \ {s} : store'[t] = store[t]
         /\ store'[s] \in Directory /\ store'[s] # None
         /\ store'[s].pages = IF store[s] = None THEN pages ELSE store[s].pages \cup pages
         /\ store'[s].manifest = IF store[s] = None THEN manifest ELSE store[s].manifest \/ manifest
<1>1. CASE store[s] = None
  <2>1. store' = [store EXCEPT ![s] = [pages |-> pages, manifest |-> manifest]]
    BY <1>1 DEF PutInto, TypeOK
  <2> QED BY <1>1, <2>1, DataAssumption DEF TypeOK, Option, Directory
<1>2. CASE store[s] # None
  <2>1. store[s] \in Directory
    BY <1>2 DEF TypeOK, Option
  <2>2. store' = [store EXCEPT ![s] =
                    [pages |-> store[s].pages \cup pages, manifest |-> store[s].manifest \/ manifest]]
    BY <1>2 DEF PutInto, TypeOK
  <2>3. [pages |-> store[s].pages \cup pages, manifest |-> store[s].manifest \/ manifest] \in Directory
    BY <2>1 DEF Directory
  <2> QED BY <1>2, <2>2, <2>3, DataAssumption DEF TypeOK, Option
<1> QED BY <1>1, <1>2

\* The calls that own a backup write no page but in a restore or an adoption.
LEMMA Apart ==
  /\ Snapshots \subseteq Calls /\ Saves \subseteq Calls /\ Cleaners \subseteq Calls
  /\ Deletions \subseteq Calls /\ Deletions \subseteq Writers
  /\ Saves \subseteq Writers /\ Adoptions \subseteq Writers
  /\ Snapshots \cap Saves = {} /\ Cleaners \cap Saves = {} /\ Restores \cap Cleaners = {}
  /\ Deletions \cap (Snapshots \cup Cleaners \cup Saves) = {}
  /\ Restores \subseteq Snapshots /\ Adoptions \subseteq Snapshots /\ Restores \cap Adoptions = {}
  /\ Adoptions \cap Cleaners = {} /\ Snapshots \cap Sweeps = {}
BY DEF Snapshots, Calls, Cleaners, Writers

\* Every step of a backup, a restore, a cleaner, a save or a deletion, a file
\* that comes, and a restart.
LEMMA BackupTypes ==
  ASSUME TypeOK, StampInv, NEW s \in Snapshots, MakeBackup(s)
  PROVE  TypeOK'
<1> USE DEF Phases, Goto
<1>0. s \in Calls /\ Manual \subseteq Calls /\ Cleaners \subseteq Calls
  BY DEF Calls, Snapshots, Cleaners
<1>1. ASSUME BeginBackup(s) PROVE TypeOK'
  BY <1>0, <1>1 DEF BeginBackup, TypeOK, Listed, Holding, pageVars, storeVars
<1>2. ASSUME MakeDirectory(s) PROVE TypeOK'
  <2>1. store' \in [Snapshots -> Option(Directory)]
    BY <1>2, PutIntoTypes DEF MakeDirectory
  <2>2. stamped' \in Seq(Snapshots) /\ IsInjective(stamped')
    BY <1>2, AppendStamp DEF MakeDirectory, TypeOK, StampInv, Unstamped
  <2> QED BY <1>0, <1>2, <2>1, <2>2 DEF MakeDirectory, TypeOK, Holding, pageVars, PutInto
<1>3. ASSUME WriteManifest(s) PROVE TypeOK'
  <2>1. store' \in [Snapshots -> Option(Directory)]
    BY <1>3, PutIntoTypes DEF WriteManifest
  <2> QED BY <1>0, <1>3, <2>1 DEF WriteManifest, TypeOK, pageVars, callVars
<1>4. ASSUME Verify(s) PROVE TypeOK'
  BY <1>0, <1>4 DEF Verify, TypeOK, pageVars, storeVars, callVars
<1>5. ASSUME BackupFails(s) PROVE TypeOK'
  <2>1. Stop({s}) /\ phase[s] # "cleaning"
    BY <1>5 DEF BackupFails
  <2>2. \A c \in Cleaners : doomed[c] # None => phase'[c] = "cleaning"
    BY <1>0, <2>1, StopTypes DEF TypeOK
  <2> QED BY <1>5, <2>1, <2>2, StopTypes DEF BackupFails, TypeOK, storeVars
<1>6. ASSUME NEW p \in Pages, ReadPage(s, p) PROVE TypeOK'
  BY <1>0, <1>6 DEF ReadPage, TypeOK, storeVars, Option
<1>7. ASSUME NEW p \in Pages, CopyPage(s, p) PROVE TypeOK'
  <2>1. store' \in [Snapshots -> Option(Directory)]
    BY <1>7, PutIntoTypes DEF CopyPage
  <2> QED BY <1>0, <1>7, <2>1 DEF CopyPage, TypeOK, pageVars
<1> QED BY <1>1, <1>2, <1>3, <1>4, <1>5, <1>6, <1>7 DEF MakeBackup

LEMMA RestoreTypes ==
  ASSUME TypeOK, SafetyInv, NEW r \in Restores, Restore(r)
  PROVE  TypeOK'
<1> USE DEF Phases, Goto
<1>0. r \in Calls /\ r \in Snapshots /\ Cleaners \subseteq Calls
  BY DEF Calls, Snapshots, Cleaners
<1>1. ASSUME NEW s \in Snapshots, BeginRestore(r, s) PROVE TypeOK'
  <2>1. PICK pages \in {Listed} \cup {Holding(file) : m \in Adoptions \cap {s}} :
          todo' = [todo EXCEPT ![r] = pages] /\ missed' = [missed EXCEPT ![r] = Pages \ pages]
    BY <1>1 DEF BeginRestore
  <2>2. pages \subseteq Pages
    BY DEF Listed, Holding
  <2> HIDE DEF Phases
  <2>3. phase' \in [Calls -> Phases] /\ \A c \in Cleaners : doomed[c] # None => phase'[c] = "cleaning"
    BY <1>0, <1>1 DEF BeginRestore, TypeOK, Phases
  <2>4. plan' \in [Restores \cup Adoptions -> [Pages -> Option(Content)]]
    BY <1>1 DEF BeginRestore, TypeOK
  <2>5. todo' \in [Snapshots -> SUBSET Pages] /\ missed' \in [Restores -> SUBSET Pages]
    BY <1>0, <2>1, <2>2 DEF TypeOK
  <2> QED BY <1>1, <2>3, <2>4, <2>5 DEF BeginRestore, TypeOK, storeVars
<1>2. ASSUME StartWriting(r) PROVE TypeOK'
  BY <1>0, <1>2 DEF StartWriting, TypeOK, Holding, pageVars, storeVars
<1>3. ASSUME FinishRestore(r) PROVE TypeOK'
  <2>1. NoPages \in [Pages -> Option(Content)]
    BY DEF NoPages, Option
  <2>2. loaded' \in [Pages -> Option(Content)]
    BY <1>3 DEF FinishRestore, TypeOK
  <2> QED BY <1>0, <1>3, <2>1, <2>2 DEF FinishRestore, TypeOK, storeVars
<1>4. ASSUME RestoreStops(r) PROVE TypeOK'
  <2>1. Stop({r}) /\ phase[r] # "cleaning"
    BY <1>4 DEF RestoreStops
  <2>2. \A c \in Cleaners : doomed[c] # None => phase'[c] = "cleaning"
    BY <1>0, <2>1, StopTypes DEF TypeOK
  <2> QED BY <1>4, <2>1, <2>2, StopTypes DEF RestoreStops, TypeOK, storeVars
<1>5. ASSUME NEW p \in Pages, RestorePage(r, p) PROVE TypeOK'
  <2>1. plan[r][p] \in Content
    BY <1>0, <1>5 DEF RestorePage, SafetyInv, Holding, TypeOK, Option
  <2>2. file' \in [Pages -> Option(Content)] /\ missed' \in [Restores -> SUBSET Pages]
    BY <1>5, <2>1, PutTypes DEF RestorePage
  <2> QED BY <1>0, <1>5, <2>2 DEF RestorePage, TypeOK, storeVars
<1> QED BY <1>1, <1>2, <1>3, <1>4, <1>5 DEF Restore

\* What is left of a directory while its entries go.
LEMMA EntriesTypes ==
  ASSUME TypeOK, NEW c \in Cleaners, RemoveEntries(c)
  PROVE  /\ doomed[c] \in Snapshots /\ store' \in [Snapshots -> Option(Directory)]
         /\ store[doomed[c]] # None /\ store'[doomed[c]] \in Directory
         /\ \A t \in Snapshots \ {doomed[c]} : store'[t] = store[t]
         /\ store'[doomed[c]].manifest => store[doomed[c]].manifest
<1>1. doomed[c] \in Snapshots /\ store[doomed[c]] \in Directory /\ store[doomed[c]] # None
  BY DEF RemoveEntries, TypeOK, Option
<1>2. PICK pages \in {store[doomed[c]].pages, {}}, manifest \in {store[doomed[c]].manifest, FALSE} :
        store' = [store EXCEPT ![doomed[c]] = [pages |-> pages, manifest |-> manifest]]
  BY DEF RemoveEntries
<1>3. [pages |-> pages, manifest |-> manifest] \in Directory
  BY <1>1 DEF Directory
<1>4. store'[doomed[c]] = [pages |-> pages, manifest |-> manifest]
  BY <1>1, <1>2 DEF TypeOK
<1>5. store' \in [Snapshots -> Option(Directory)]
  BY <1>1, <1>2, <1>3 DEF TypeOK, Option
<1>6. \A t \in Snapshots \ {doomed[c]} : store'[t] = store[t]
  BY <1>1, <1>2 DEF TypeOK
<1>7. store'[doomed[c]].manifest => store[doomed[c]].manifest
  <2>1. store'[doomed[c]].manifest = manifest
    BY <1>4
  <2>2. CASE manifest = FALSE
    BY <2>1, <2>2
  <2>3. CASE manifest = store[doomed[c]].manifest
    BY <2>1, <2>3
  <2> QED BY <2>2, <2>3
<1> QED BY <1>1, <1>3, <1>4, <1>5, <1>6, <1>7

LEMMA CleanTypes ==
  ASSUME TypeOK, NEW c \in Cleaners, Clean(c)
  PROVE  TypeOK'
<1> USE DEF Phases, Goto
<1>0. c \in Calls /\ Cleaners \subseteq Calls
  BY DEF Calls, Cleaners
<1>1. ASSUME ListOld(c) PROVE TypeOK'
  BY <1>0, <1>1 DEF ListOld, Excess, TypeOK, pageVars, storeVars
<1>2. ASSUME ShowIncomplete(c) PROVE TypeOK'
  BY <1>0, <1>2 DEF ShowIncomplete, Incomplete, TypeOK, pageVars, storeVars
<1>3. ASSUME ConfirmSweep(c) PROVE TypeOK'
  BY <1>0, <1>3 DEF ConfirmSweep, TypeOK, pageVars, storeVars
<1>4. ASSUME CheckVictim(c) PROVE TypeOK'
  BY <1>0, <1>4 DEF CheckVictim, TypeOK, Option, pageVars, storeVars
<1>5. ASSUME RemoveVictim(c) PROVE TypeOK'
  BY <1>0, <1>5 DEF RemoveVictim, Mark, TypeOK, Option, pageVars
<1>6. ASSUME RemovalFails(c) PROVE TypeOK'
  BY <1>0, <1>6 DEF RemovalFails, TypeOK, Option, pageVars, storeVars
<1>7. ASSUME EndCleaning(c) PROVE TypeOK'
  BY <1>0, <1>7 DEF EndCleaning, TypeOK, pageVars, storeVars, callVars
<1>8. ASSUME RemoveEntries(c) PROVE TypeOK'
  <2>1. store' \in [Snapshots -> Option(Directory)] /\ doomed[c] \in Snapshots
    BY <1>8, EntriesTypes
  <2> QED BY <1>8, <2>1 DEF RemoveEntries, Mark, TypeOK, pageVars, callVars
<1> QED BY <1>1, <1>2, <1>3, <1>4, <1>5, <1>6, <1>7, <1>8 DEF Clean

LEMMA SaveTypes ==
  ASSUME TypeOK, SaveInv, NEW v \in Saves, Save(v)
  PROVE  TypeOK'
<1> USE DEF Phases, Goto
<1>0. v \in Calls /\ v \in Writers /\ Cleaners \subseteq Calls
  BY DEF Calls, Cleaners, Writers
<1>1. ASSUME NEW p \in Pages, OpenPage(v, p) PROVE TypeOK'
  BY <1>0, <1>1 DEF OpenPage, TypeOK, Option, pageVars, storeVars
<1>2. ASSUME CheckSave(v) PROVE TypeOK'
  BY <1>0, <1>2 DEF CheckSave, TypeOK, pageVars, storeVars, callVars
<1>3. ASSUME LandSave(v) PROVE TypeOK'
  <2> DEFINE new == [base[v] EXCEPT !.text = v]
  <2>1. at[v] \in Pages /\ base[v] \in Content
    BY <1>3 DEF LandSave, SaveInv
  <2>2. new \in Content
    BY <2>1 DEF Content
  <2>3. file' \in [Pages -> Option(Content)] /\ missed' \in [Restores -> SUBSET Pages]
    BY <1>3, <2>1, <2>2, PutTypes DEF LandSave
  <2>4. loaded' \in [Pages -> Option(Content)]
    BY <1>3, <2>1, <2>2 DEF LandSave, TypeOK, Option
  <2> QED BY <1>0, <1>3, <2>3, <2>4 DEF LandSave, TypeOK, Option, storeVars
<1>4. ASSUME SaveFails(v) PROVE TypeOK'
  <2>1. Stop({v}) /\ phase[v] # "cleaning"
    BY <1>4 DEF SaveFails
  <2>2. \A c \in Cleaners : doomed[c] # None => phase'[c] = "cleaning"
    BY <1>0, <2>1, StopTypes DEF TypeOK
  <2> QED BY <1>4, <2>1, <2>2, StopTypes DEF SaveFails, TypeOK, storeVars
<1> QED BY <1>1, <1>2, <1>3, <1>4 DEF Save

LEMMA DeleteTypes ==
  ASSUME TypeOK, NEW d \in Deletions, Delete(d)
  PROVE  TypeOK'
<1> USE Apart DEF Phases, Goto
<1>1. ASSUME NEW p \in Passing, RemovePage(d, p) PROVE TypeOK'
  BY <1>1 DEF RemovePage, TypeOK, Option, storeVars
<1>2. ASSUME Unlist(d) PROVE TypeOK'
  BY <1>2 DEF Unlist, TypeOK, Option, storeVars
<1> QED BY <1>1, <1>2 DEF Delete

LEMMA ArriveTypes ==
  ASSUME TypeOK, NEW p \in Passing, Arrive(p)
  PROVE  TypeOK'
<1>1. p \in Pages /\ [text |-> First, adopted |-> FALSE] \in Content
  BY DEF Content
<1>2. file' \in [Pages -> Option(Content)] /\ missed' \in [Restores -> SUBSET Pages]
  BY <1>1, PutTypes DEF Arrive
<1> QED BY <1>2 DEF Arrive, TypeOK, storeVars, callVars

LEMMA RestartTypes ==
  ASSUME TypeOK, Restart
  PROVE  TypeOK'
<1>1. Stop({c \in Calls : phase[c] \notin {"idle", "done"}})
  BY DEF Restart
<1>2. restarts' \in 0..MaxRestarts
  BY DEF Restart, TypeOK
<1>3. /\ victims' \in [Cleaners -> SUBSET Snapshots]
      /\ doomed' \in [Cleaners -> Option(Snapshots)] /\ \A c \in Cleaners : doomed'[c] = None
  BY DEF Restart, Option
<1> QED BY <1>1, <1>2, <1>3, StopTypes DEF Restart, TypeOK, storeVars

-----------------------------------------------------------------------------
(***************************************************************************)
(* Steps that leave the backups' directories alone.                        *)
(***************************************************************************)
\* How a backup goes on: not at all, towards its copying, to its end, or past
\* the copying.
Unmoved(s) == phase'[s] = phase[s] /\ todo'[s] = todo[s]
Begun(s)   == Unstamped(s) /\ phase'[s] \in {"previewed", "reading"}
Over(s)    == phase'[s] \in {"done", "failed", "cleaning", "receipt"}
Made(s)    == /\ phase'[s] \in {"made", "restoring", "adopting", "landing", "checking"}
              /\ ~Unlisted(s)
              /\ Complete(s) \/ s \in swept \cup cleared

\* What counts as kept for retention.
Counts(s)  == Complete(s) \/ s \in swept

\* Victims of retention stay what they were while nothing that counts goes and
\* no backup goes back to its copying.
LEMMA VictimFrame ==
  ASSUME TypeOK, TypeOK', VictimInv, UNCHANGED cleared,
         \A s \in Snapshots : Newer(s) \subseteq Newer(s)',
         \A s \in Snapshots : Counts(s) => Counts(s)',
         \A c \in Cleaners \ Sweeps : \A s \in Snapshots :
           s \in victims'[c] \/ doomed'[c] = s => s \in victims[c] \/ doomed[c] = s,
         \A s \in Snapshots : Unlisted(s)' => Unlisted(s)
  PROVE  VictimInv'
<1> SUFFICES ASSUME NEW s \in Snapshots,
                    s \in cleared' \/ \E c \in Cleaners \ Sweeps : s \in victims'[c] \/ doomed'[c] = s
             PROVE  ~Unlisted(s)' /\ NewerKept(s)'
  BY DEF VictimInv
<1>1. ~Unlisted(s) /\ NewerKept(s)
  BY DEF VictimInv
<1>2. \A t \in Newer(s) : Complete(t) \/ t \in swept => Complete(t)' \/ t \in swept'
  BY DEF Newer, Counts
<1>3. stamped \in Seq(Snapshots) /\ stamped' \in Seq(Snapshots)
  BY DEF TypeOK
<1> QED BY <1>1, <1>2, <1>3, KeptStays

LEMMA QuietStep ==
  ASSUME BackupInv, TypeOK', UNCHANGED <<store, stamped, swept, cleared, copied>>,
         \A c \in Cleaners \ Sweeps : \A s \in Snapshots :
           s \in victims'[c] \/ doomed'[c] = s => s \in victims[c] \/ doomed[c] = s,
         \A s \in Snapshots : Unmoved(s) \/ Begun(s) \/ Over(s) \/ Made(s)
  PROVE  StampInv' /\ CopyInv' /\ ManifestMeansComplete' /\ VictimInv'
<1> USE DEF BackupInv
<1>1. StampInv'
  BY DEF StampInv, Unstamped, Unmoved, Begun, Over, Made, Unlisted
<1>2. CopyInv'
  <2>1. \A s \in Snapshots : (HasManifest(s)' <=> HasManifest(s)) /\ (Complete(s)' <=> Complete(s))
    BY DEF HasManifest, Complete
  <2>2. \A s \in Snapshots : Unlisted(s)' => Unlisted(s)
    BY DEF Unlisted, Unstamped, Unmoved, Begun, Over, Made
  <2>3. \A s \in Snapshots : phase'[s] = "copying" => Unmoved(s)
    BY DEF Begun, Over, Made
  <2>4. \A s \in Snapshots : phase'[s] \in {"made", "restoring", "adopting", "landing", "checking"} =>
          Unmoved(s) \/ Made(s)
    BY DEF Begun, Over
  <2> QED BY <2>1, <2>2, <2>3, <2>4 DEF CopyInv, Unmoved, Made
<1>4. ManifestMeansComplete'
  BY DEF ManifestMeansComplete, HasManifest, Complete
<1>5. \A s \in Snapshots : Unlisted(s)' => Unlisted(s)
  BY DEF Unlisted, Unstamped, Unmoved, Begun, Over, Made
<1>6. \A s \in Snapshots : Newer(s) \subseteq Newer(s)' /\ (Counts(s) => Counts(s)')
  BY DEF Newer, Counts, Complete, HasManifest
<1>7. VictimInv'
  BY <1>5, <1>6, VictimFrame
<1> QED BY <1>1, <1>2, <1>4, <1>7

\* A restore that is running keeps its plan, and knows of every page written.
Hears(r) ==
  \A p \in Holding(file') : p \in missed'[r] \/ (file'[p] = file[p] /\ p \notin missed[r])

Watching(r) ==
  /\ plan'[r] = plan[r] /\ Hears(r)
  /\ \/ /\ phase'[r] = phase[r]
        /\ phase[r] = "reading" => todo'[r] = todo[r]
        /\ phase[r] = "restoring" => todo'[r] \subseteq todo[r]
     \/ /\ phase[r] \in {"copying", "verifying", "made"}
        /\ \/ phase'[r] \in {"verifying", "made"}
           \/ phase'[r] = "restoring" /\ todo'[r] \subseteq Holding(plan[r])

LEMMA SafetyFrame ==
  ASSUME SafetyInv, UNCHANGED copied,
         \A r \in Restores : phase'[r] \in {"idle", "done", "failed"} \/ Watching(r)
  PROVE  SafetyInv'
<1> SUFFICES ASSUME NEW r \in Restores, Watching(r), phase'[r] \notin {"idle", "done", "failed"}
             PROVE  /\ phase'[r] \in {"idle", "reading", "copying", "verifying", "made", "restoring",
                                      "done", "failed"}
                    /\ \A p \in Holding(file') \ missed'[r] :
                         (phase'[r] = "reading" /\ p \in todo'[r]) \/ copied'[r][p] = file'[p]
                    /\ phase'[r] = "restoring" => todo'[r] \subseteq Holding(plan'[r])
  BY DEF SafetyInv
<1>1. phase[r] \notin {"idle", "done", "failed"}
  BY DEF Watching
<1>2. phase'[r] \in {"idle", "reading", "copying", "verifying", "made", "restoring", "done", "failed"}
  BY DEF SafetyInv, Watching
<1>3. ASSUME NEW p \in Holding(file') \ missed'[r]
      PROVE  (phase'[r] = "reading" /\ p \in todo'[r]) \/ copied'[r][p] = file'[p]
  <2>1. file'[p] = file[p] /\ p \notin missed[r]
    BY DEF Watching, Hears
  <2>2. p \in Holding(file)
    BY <2>1 DEF Holding
  <2>3. (phase[r] = "reading" /\ p \in todo[r]) \/ copied[r][p] = file[p]
    BY <1>1, <2>1, <2>2 DEF SafetyInv
  <2> QED BY <2>1, <2>3 DEF Watching
<1>4. phase'[r] = "restoring" => todo'[r] \subseteq Holding(plan'[r])
  BY DEF SafetyInv, Watching
<1> QED BY <1>2, <1>3, <1>4

\* While the files and what a restore knows of them stay, it hears of them.
LEMMA StillHears ==
  ASSUME UNCHANGED file, NEW r \in Restores, missed'[r] = missed[r]
  PROVE  Hears(r)
BY DEF Hears, Holding

\* Saves and deletions of which nothing is heard stay where they are.
LEMMA SaveFrame ==
  ASSUME SaveInv,
         \A v \in Saves : phase'[v] \in {"open", "queued"} =>
           phase[v] \in {"open", "queued"} /\ at'[v] = at[v] /\ base'[v] = base[v],
         \A d \in Deletions : phase'[d] = "removed" => phase[d] = "removed" /\ at'[d] = at[d],
         Pages \ Passing \subseteq Holding(file') \cap Holding(loaded')
  PROVE  SaveInv'
BY DEF SaveInv, Listed

LEMMA FilesStay ==
  ASSUME SaveInv, UNCHANGED file, loaded' \in {file, loaded}
  PROVE  Pages \ Passing \subseteq Holding(file') \cap Holding(loaded')
BY DEF SaveInv, Listed, Holding

-----------------------------------------------------------------------------
(***************************************************************************)
(* Making a backup.                                                        *)
(***************************************************************************)
LEMMA BeginBackupStep ==
  ASSUME BackupInv, TypeOK', NEW s \in Snapshots, BeginBackup(s)
  PROVE  BackupInv'
<1> USE Apart DEF Goto
<1>1. /\ s \in Manual /\ s \notin Restores /\ phase[s] = "idle" /\ phase'[s] = "reading"
      /\ \A c \in Calls \ {s} : phase'[c] = phase[c]
      /\ \A t \in Snapshots \ {s} : todo'[t] = todo[t]
      /\ UNCHANGED <<file, loaded, missed, store, stamped, swept, cleared, plan, copied, victims, doomed,
                     at, base>>
  BY DEF BeginBackup, BackupInv, TypeOK, pageVars, storeVars
<1>2. \A t \in Snapshots : Unmoved(t) \/ Begun(t)
  BY <1>1 DEF Unmoved, Begun, Unstamped
<1>3. StampInv' /\ CopyInv' /\ ManifestMeansComplete' /\ VictimInv'
  BY <1>1, <1>2, QuietStep
<1>4. \A r \in Restores : Watching(r)
  BY <1>1, StillHears DEF Watching
<1>5. SafetyInv'
  BY <1>1, <1>4, SafetyFrame DEF BackupInv
<1>6. SaveInv'
  BY <1>1, FilesStay, SaveFrame DEF BackupInv
<1> QED BY <1>3, <1>5, <1>6 DEF BackupInv

\* What is not listed is not complete, and does not become so by being read.
LEMMA ReadPageStep ==
  ASSUME BackupInv, TypeOK', NEW s \in Snapshots, NEW p \in Pages, ReadPage(s, p)
  PROVE  BackupInv'
<1> USE Apart DEF BackupInv
<1>1. /\ phase[s] = "reading" /\ p \in todo[s] /\ file[p] # None
      /\ copied'[s][p] = file[p] /\ \A q \in Pages \ {p} : copied'[s][q] = copied[s][q]
      /\ \A t \in Snapshots \ {s} : copied'[t] = copied[t] /\ todo'[t] = todo[t]
      /\ todo'[s] = todo[s] \ {p}
      /\ \A r \in Restores : missed'[r] = IF r = s THEN missed[r] \ {p} ELSE missed[r]
      /\ UNCHANGED <<file, loaded, store, stamped, swept, cleared, plan, victims, doomed, at, base, phase>>
  BY DEF ReadPage, TypeOK, storeVars
<1>2. ~HasManifest(s) /\ ~HasManifest(s)' /\ \A t \in Snapshots : HasManifest(t)' <=> HasManifest(t)
  BY <1>1 DEF CopyInv, Unlisted, Unstamped, HasManifest
<1>3. \A t \in Snapshots : Complete(t)' <=> Complete(t)
  BY <1>1, <1>2 DEF Complete
<1>4. StampInv'
  BY <1>1 DEF StampInv, Unstamped
<1>5. CopyInv'
  BY <1>1, <1>2, <1>3 DEF CopyInv, Unlisted, Unstamped
<1>6. ManifestMeansComplete'
  BY <1>1, <1>2, <1>3 DEF ManifestMeansComplete
<1>7. VictimInv'
  <2>1. \A t \in Snapshots : (Unlisted(t)' => Unlisted(t)) /\ Newer(t) \subseteq Newer(t)'
                               /\ (Counts(t) => Counts(t)')
    BY <1>1, <1>3 DEF Unlisted, Unstamped, Newer, Counts
  <2> QED BY <1>1, <2>1, VictimFrame
<1>8. SafetyInv'
  <2> SUFFICES ASSUME NEW r \in Restores, phase[r] \notin {"idle", "done", "failed"},
                      NEW q \in Holding(file) \ missed'[r]
               PROVE  (phase[r] = "reading" /\ q \in todo'[r]) \/ copied'[r][q] = file[q]
    <3>1. \A r \in Restores : phase[r] = "restoring" => r # s
      BY <1>1
    <3> QED BY <1>1, <3>1 DEF SafetyInv
  <2>1. CASE r = s /\ q = p
    BY <1>1, <2>1
  <2>2. CASE r = s /\ q # p
    <3>1. q \notin missed[r] /\ q \in Pages /\ (q \in todo[r] => q \in todo'[r])
      BY <1>1, <2>2 DEF Holding
    <3> QED BY <1>1, <2>2, <3>1 DEF SafetyInv
  <2>3. CASE r # s
    <3>1. copied'[r] = copied[r] /\ todo'[r] = todo[r] /\ missed'[r] = missed[r]
      BY <1>1, <2>3
    <3> QED BY <3>1 DEF SafetyInv
  <2> QED BY <2>1, <2>2, <2>3
<1>9. SaveInv'
  BY <1>1, FilesStay, SaveFrame
<1> QED BY <1>4, <1>5, <1>6, <1>7, <1>8, <1>9

\* A file comes into a directory that has no manifest: no backup loses one, and
\* no other directory changes.
LEMMA DirectoriesKept ==
  ASSUME NEW s \in Snapshots, \A t \in Snapshots \ {s} : store'[t] = store[t],
         ~HasManifest(s), UNCHANGED <<swept, copied>>
  PROVE  /\ \A t \in Snapshots : Counts(t) => Counts(t)'
         /\ \A t \in Snapshots \ {s} : /\ HasManifest(t)' <=> HasManifest(t)
                                       /\ Complete(t)' <=> Complete(t)
BY DEF Counts, HasManifest, Complete

LEMMA MakeDirectoryStep ==
  ASSUME BackupInv, TypeOK', NEW s \in Snapshots, MakeDirectory(s)
  PROVE  BackupInv'
<1> USE Apart DEF BackupInv, Goto
<1>1. /\ phase[s] = "reading" /\ todo[s] = {} /\ PutInto(s, {}, FALSE) /\ stamped' = Append(stamped, s)
      /\ phase' = [phase EXCEPT ![s] = "copying"] /\ todo' = [todo EXCEPT ![s] = Holding(copied[s])]
      /\ UNCHANGED <<file, loaded, missed, swept, cleared, plan, copied, victims, doomed, at, base>>
  BY DEF MakeDirectory, pageVars
<1>2. /\ \A t \in Snapshots \ {s} : phase'[t] = phase[t] /\ todo'[t] = todo[t] /\ store'[t] = store[t]
      /\ phase'[s] = "copying" /\ todo'[s] = Holding(copied[s])
      /\ \A c \in Calls \ {s} : phase'[c] = phase[c]
  <2>1. \A t \in Snapshots \ {s} : store'[t] = store[t]
    BY <1>1, PutIntoTypes
  <2>2. todo'[s] = Holding(copied[s]) /\ \A t \in Snapshots \ {s} : todo'[t] = todo[t]
    BY <1>1 DEF TypeOK
  <2> QED BY <1>1, <2>1, <2>2 DEF TypeOK
<1>3. store[s] = None /\ ~Contains(stamped, s) /\ ~HasManifest(s)
  BY <1>1 DEF StampInv, Unstamped, HasManifest
<1>4. /\ store'[s] # None /\ store'[s].pages = {} /\ ~store'[s].manifest
  BY <1>1, <1>3, PutIntoTypes
<1>5. /\ \A t \in Snapshots : Contains(stamped', t) <=> Contains(stamped, t) \/ t = s
      /\ \A t \in Snapshots : Newer(t) \subseteq Newer(t)'
  BY <1>1, <1>3, AppendStamp DEF TypeOK
<1>0. /\ \A t \in Snapshots : Counts(t) => Counts(t)'
      /\ \A t \in Snapshots \ {s} : (HasManifest(t)' <=> HasManifest(t)) /\ (Complete(t)' <=> Complete(t))
      /\ ~HasManifest(s)'
  <2>1. ~HasManifest(s)'
    BY <1>4 DEF HasManifest
  <2> QED BY <1>1, <1>2, <1>3, <2>1, DirectoriesKept
<1>6. StampInv'
  BY <1>2, <1>4, <1>5 DEF StampInv, Unstamped
<1>7. CopyInv'
  <2>1. Holding(copied'[s]) \ todo'[s] = {}
    BY <1>1, <1>2
  <2> QED BY <1>1, <1>2, <1>4, <1>0, <2>1 DEF CopyInv, Unlisted, Unstamped
<1>9. ManifestMeansComplete'
  BY <1>1, <1>0 DEF ManifestMeansComplete
<1>10. VictimInv'
  <2>1. \A t \in Snapshots : Unlisted(t)' => Unlisted(t)
    BY <1>1, <1>2 DEF Unlisted, Unstamped
  <2> QED BY <1>1, <1>5, <2>1, <1>0, VictimFrame
<1>11. SafetyInv'
  BY <1>1, <1>2 DEF SafetyInv
<1>12. SaveInv'
  BY <1>1, <1>2, FilesStay, SaveFrame
<1> QED BY <1>6, <1>7, <1>9, <1>10, <1>11, <1>12

LEMMA CopyPageStep ==
  ASSUME BackupInv, TypeOK', NEW s \in Snapshots, NEW p \in Pages, CopyPage(s, p)
  PROVE  BackupInv'
<1> USE Apart DEF BackupInv, Goto
<1>1. /\ phase[s] = "copying" /\ p \in todo[s] /\ PutInto(s, {p}, FALSE)
      /\ todo' = [todo EXCEPT ![s] = @ \ {p}]
      /\ UNCHANGED <<file, loaded, missed, stamped, swept, cleared, plan, copied, victims, doomed, at, base,
                     phase>>
  BY DEF CopyPage, pageVars
<1>2. /\ \A t \in Snapshots \ {s} : todo'[t] = todo[t] /\ store'[t] = store[t]
      /\ todo'[s] = todo[s] \ {p}
  <2>1. \A t \in Snapshots \ {s} : store'[t] = store[t]
    BY <1>1, PutIntoTypes
  <2> QED BY <1>1, <2>1 DEF TypeOK
<1>3. ~HasManifest(s) /\ (s \notin swept => store[s] # None)
  BY <1>1 DEF CopyInv, Unlisted
<1>4. /\ store'[s] # None
      /\ store'[s].pages = IF store[s] = None THEN {p} ELSE store[s].pages \cup {p}
      /\ store'[s].manifest = IF store[s] = None THEN FALSE ELSE store[s].manifest \/ FALSE
  BY <1>1, PutIntoTypes
<1>5. ~HasManifest(s)'
  BY <1>3, <1>4 DEF HasManifest
<1>6. /\ \A t \in Snapshots : Counts(t) => Counts(t)'
      /\ \A t \in Snapshots \ {s} : (HasManifest(t)' <=> HasManifest(t)) /\ (Complete(t)' <=> Complete(t))
  BY <1>1, <1>2, <1>3, DirectoriesKept
<1>7. StampInv'
  <2>1. Contains(stamped, s)
    BY <1>1 DEF StampInv
  <2> QED BY <1>1, <1>2, <2>1 DEF StampInv, Unstamped
<1>8. CopyInv'
  <2>1. s \notin swept => Holding(copied[s]) \ todo'[s] \subseteq store'[s].pages
    <3>1. s \notin swept => Holding(copied[s]) \ todo[s] \subseteq store[s].pages
      BY <1>1 DEF CopyInv
    <3> QED BY <1>2, <1>3, <1>4, <3>1
  <2> QED BY <1>1, <1>2, <1>4, <1>5, <1>6, <2>1 DEF CopyInv, Unlisted, Unstamped
<1>10. ManifestMeansComplete'
  BY <1>1, <1>5, <1>6 DEF ManifestMeansComplete
<1>11. VictimInv'
  <2>1. \A t \in Snapshots : (Unlisted(t)' => Unlisted(t)) /\ Newer(t) \subseteq Newer(t)'
    BY <1>1 DEF Unlisted, Unstamped, Newer
  <2> QED BY <1>1, <1>6, <2>1, VictimFrame
<1>12. SafetyInv'
  BY <1>1, <1>2 DEF SafetyInv
<1>13. SaveInv'
  BY <1>1, FilesStay, SaveFrame
<1> QED BY <1>7, <1>8, <1>10, <1>11, <1>12, <1>13

LEMMA WriteManifestStep ==
  ASSUME BackupInv, TypeOK', NEW s \in Snapshots, WriteManifest(s)
  PROVE  BackupInv'
<1> USE Apart DEF BackupInv, Goto
<1>1. /\ phase[s] = "copying" /\ todo[s] = {} /\ PutInto(s, {}, TRUE)
      /\ phase' = [phase EXCEPT ![s] = "verifying"]
      /\ UNCHANGED <<file, loaded, missed, stamped, swept, cleared, todo, plan, copied, victims, doomed, at,
                     base>>
  BY DEF WriteManifest, callVars, pageVars
<1>2. /\ \A t \in Snapshots \ {s} : phase'[t] = phase[t] /\ store'[t] = store[t]
      /\ phase'[s] = "verifying"
      /\ \A c \in Calls \ {s} : phase'[c] = phase[c]
  <2>1. phase'[s] = "verifying" /\ \A c \in Calls \ {s} : phase'[c] = phase[c]
    BY <1>1 DEF TypeOK, Calls
  <2>2. {} \in SUBSET Pages /\ TRUE \in BOOLEAN
    OBVIOUS
  <2>3. \A t \in Snapshots \ {s} : store'[t] = store[t]
    BY <1>1, <2>2, PutIntoTypes
  <2> QED BY <2>1, <2>3 DEF Calls
<1>3. ~HasManifest(s) /\ Contains(stamped, s)
      /\ (s \notin swept => store[s] # None /\ Holding(copied[s]) \subseteq store[s].pages)
  <2>1. s \in swept \/ (store[s] # None /\ Holding(copied[s]) \ {} \subseteq store[s].pages)
    BY <1>1 DEF CopyInv
  <2>2. ~HasManifest(s)
    BY <1>1 DEF CopyInv, Unlisted
  <2>3. Contains(stamped, s)
    BY <1>1 DEF StampInv
  <2> QED BY <2>1, <2>2, <2>3
<1>4. /\ store'[s] # None
      /\ store'[s].pages = IF store[s] = None THEN {} ELSE store[s].pages \cup {}
  BY <1>1, PutIntoTypes
<1>5. /\ \A t \in Snapshots : Counts(t) => Counts(t)'
      /\ \A t \in Snapshots \ {s} : (HasManifest(t)' <=> HasManifest(t)) /\ (Complete(t)' <=> Complete(t))
  BY <1>1, <1>2, <1>3, DirectoriesKept
<1>6. StampInv'
  BY <1>1, <1>2, <1>3 DEF StampInv, Unstamped
<1>7. CopyInv'
  BY <1>1, <1>2, <1>5 DEF CopyInv, Unlisted, Unstamped
<1>9. ManifestMeansComplete'
  <2>1. s \notin swept' /\ HasManifest(s)' => Complete(s)'
    BY <1>1, <1>3, <1>4 DEF Complete
  <2> QED BY <1>1, <1>5, <2>1 DEF ManifestMeansComplete
<1>10. VictimInv'
  <2>1. \A t \in Snapshots : Unlisted(t)' => Unlisted(t)
    BY <1>1, <1>2 DEF Unlisted, Unstamped
  <2>2. \A t \in Snapshots : Newer(t) \subseteq Newer(t)'
    BY <1>1 DEF Newer
  <2> QED BY <1>1, <1>5, <2>1, <2>2, VictimFrame
<1>11. SafetyInv'
  BY <1>1, <1>2 DEF SafetyInv
<1>12. SaveInv'
  BY <1>1, <1>2, FilesStay, SaveFrame
<1> QED BY <1>6, <1>7, <1>9, <1>10, <1>11, <1>12

LEMMA VerifyStep ==
  ASSUME BackupInv, TypeOK', NEW s \in Snapshots, Verify(s)
  PROVE  BackupInv'
<1> USE Apart DEF BackupInv, Goto
<1>1. /\ phase[s] = "verifying" /\ Complete(s) /\ phase' = [phase EXCEPT ![s] = "made"]
      /\ \A c \in Calls \ {s} : phase'[c] = phase[c]
      /\ phase'[s] = "made"
      /\ UNCHANGED <<file, loaded, missed, store, stamped, swept, cleared, copied, todo, plan, victims,
                     doomed, at, base>>
  BY DEF Verify, TypeOK, pageVars, storeVars, callVars
<1>2. \A t \in Snapshots : Unmoved(t) \/ Made(t)
  BY <1>1 DEF Unmoved, Made, Unlisted, Unstamped
<1>3. StampInv' /\ CopyInv' /\ ManifestMeansComplete' /\ VictimInv'
  BY <1>1, <1>2, QuietStep
<1>4. \A r \in Restores : Watching(r)
  BY <1>1, StillHears DEF Watching
<1>5. SafetyInv'
  BY <1>1, <1>4, SafetyFrame
<1>6. SaveInv'
  BY <1>1, FilesStay, SaveFrame
<1> QED BY <1>3, <1>5, <1>6

LEMMA BackupFailsStep ==
  ASSUME BackupInv, TypeOK', NEW s \in Snapshots, BackupFails(s)
  PROVE  BackupInv'
<1> USE Apart DEF BackupInv
<1>1. Stop({s}) /\ UNCHANGED <<file, loaded, store, stamped, swept, cleared, copied, victims, doomed>>
  BY DEF BackupFails, storeVars
<1>2. \A t \in Snapshots : Unmoved(t) \/ Over(t)
  BY <1>1, StopTypes DEF Unmoved, Over
<1>3. StampInv' /\ CopyInv' /\ ManifestMeansComplete' /\ VictimInv'
  BY <1>1, <1>2, QuietStep
<1>4. \A r \in Restores : phase'[r] = "failed" \/ Watching(r)
  BY <1>1, StopTypes, StillHears DEF Watching
<1>5. SaveInv'
  BY <1>1, StopTypes, FilesStay, SaveFrame
<1>6. SafetyInv'
  BY <1>1, <1>4, SafetyFrame
<1> QED BY <1>3, <1>5, <1>6

LEMMA MakeBackupStep ==
  ASSUME BackupInv, NEW s \in Snapshots, MakeBackup(s)
  PROVE  BackupInv'
<1>1. TypeOK'
  BY BackupTypes DEF BackupInv
<1> QED BY <1>1, BeginBackupStep, ReadPageStep, MakeDirectoryStep, CopyPageStep,
           WriteManifestStep, VerifyStep, BackupFailsStep DEF MakeBackup

-----------------------------------------------------------------------------
(***************************************************************************)
(* Restores.                                                               *)
(***************************************************************************)
LEMMA BeginRestoreStep ==
  ASSUME BackupInv, TypeOK', NEW r \in Restores, NEW s \in Snapshots, BeginRestore(r, s)
  PROVE  BackupInv'
<1> USE Apart DEF BackupInv, Goto
<1>0. PICK pages \in {Listed} \cup {Holding(file) : m \in Adoptions \cap {s}} :
        todo' = [todo EXCEPT ![r] = pages] /\ missed' = [missed EXCEPT ![r] = Pages \ pages]
  BY DEF BeginRestore
<1>1. /\ phase[r] = "idle" /\ phase'[r] = "reading" /\ plan'[r] = copied[s]
      /\ \A c \in Calls \ {r} : phase'[c] = phase[c]
      /\ \A t \in Restores \ {r} : plan'[t] = plan[t]
      /\ UNCHANGED <<file, loaded, store, stamped, swept, cleared, copied, victims, doomed, at, base>>
  BY DEF BeginRestore, TypeOK, storeVars
<1>2. /\ todo'[r] = pages /\ missed'[r] = Pages \ pages
      /\ \A t \in Snapshots \ {r} : todo'[t] = todo[t]
      /\ \A t \in Restores \ {r} : missed'[t] = missed[t]
  BY <1>0 DEF TypeOK
<1>3. \A t \in Snapshots : Unmoved(t) \/ Begun(t)
  BY <1>1, <1>2 DEF Unmoved, Begun, Unstamped
<1>4. StampInv' /\ CopyInv' /\ ManifestMeansComplete' /\ VictimInv'
  BY <1>1, <1>3, QuietStep
<1>5. SafetyInv'
  <2>1. \A p \in Holding(file) \ missed'[r] : p \in todo'[r]
    BY <1>2 DEF Holding
  <2> QED BY <1>1, <1>2, <2>1 DEF SafetyInv
<1>6. SaveInv'
  BY <1>1, FilesStay, SaveFrame
<1> QED BY <1>4, <1>5, <1>6

LEMMA StartWritingStep ==
  ASSUME BackupInv, TypeOK', NEW r \in Restores, StartWriting(r)
  PROVE  BackupInv'
<1> USE Apart DEF BackupInv, Goto
<1>1. /\ phase[r] = "made" /\ phase'[r] = "restoring" /\ todo'[r] = Holding(plan[r])
      /\ \A c \in Calls \ {r} : phase'[c] = phase[c]
      /\ \A t \in Snapshots \ {r} : todo'[t] = todo[t]
      /\ UNCHANGED <<file, loaded, missed, plan, store, stamped, swept, cleared, copied, victims, doomed, at,
                     base>>
  BY DEF StartWriting, TypeOK, pageVars, storeVars
<1>2. \A t \in Snapshots : Unmoved(t) \/ Made(t)
  BY <1>1 DEF Unmoved, Made, Unlisted, Unstamped, CopyInv
<1>3. StampInv' /\ CopyInv' /\ ManifestMeansComplete' /\ VictimInv'
  BY <1>1, <1>2, QuietStep
<1>4. \A t \in Restores : Watching(t)
  BY <1>1, StillHears DEF Watching
<1>5. SafetyInv'
  BY <1>1, <1>4, SafetyFrame
<1>6. SaveInv'
  BY <1>1, FilesStay, SaveFrame
<1> QED BY <1>3, <1>5, <1>6

\* A page that is written is heard of, and is there.
LEMMA PutHeard ==
  ASSUME TypeOK, SaveInv, NEW p \in Pages, NEW x \in Content, Put(p, x)
  PROVE  /\ \A r \in Restores : phase[r] \notin {"idle", "done", "failed"} => Hears(r)
         /\ Pages \ Passing \subseteq Holding(file')
<1>1. /\ file'[p] = x /\ x # None /\ \A q \in Pages \ {p} : file'[q] = file[q]
      /\ \A r \in Restores : phase[r] \notin {"idle", "done", "failed"} =>
           missed'[r] = missed[r] \cup {p}
  BY PutTypes, DataAssumption
<1> QED BY <1>1 DEF Hears, Holding, SaveInv

LEMMA RestorePageStep ==
  ASSUME BackupInv, TypeOK', NEW r \in Restores, NEW p \in Pages, RestorePage(r, p)
  PROVE  BackupInv'
<1> USE Apart DEF BackupInv
<1>1. /\ phase[r] = "restoring" /\ p \in todo[r] /\ Put(p, plan[r][p]) /\ todo'[r] = todo[r] \ {p}
      /\ \A t \in Snapshots \ {r} : todo'[t] = todo[t]
      /\ UNCHANGED <<loaded, phase, plan, store, stamped, swept, cleared, copied, victims, doomed, at, base>>
  BY DEF RestorePage, TypeOK, storeVars
<1>2. plan[r][p] \in Content
  BY <1>1 DEF SafetyInv, Holding, TypeOK, Option
<1>3. \A t \in Snapshots : Unmoved(t) \/ Made(t)
  BY <1>1 DEF Unmoved, Made, Unlisted, Unstamped, CopyInv
<1>4. StampInv' /\ CopyInv' /\ ManifestMeansComplete' /\ VictimInv'
  BY <1>1, <1>3, QuietStep
<1>5. \A t \in Restores : phase'[t] \in {"idle", "done", "failed"} \/ Watching(t)
  BY <1>1, <1>2, PutHeard DEF Watching
<1>6. SafetyInv'
  BY <1>1, <1>5, SafetyFrame
<1>7. SaveInv'
  <2>1. Pages \ Passing \subseteq Holding(file') \cap Holding(loaded')
    BY <1>1, <1>2, PutHeard DEF SaveInv, Listed
  <2> QED BY <1>1, <2>1, SaveFrame
<1> QED BY <1>4, <1>6, <1>7

LEMMA FinishRestoreStep ==
  ASSUME BackupInv, TypeOK', NEW r \in Restores, FinishRestore(r)
  PROVE  BackupInv'
<1> USE Apart DEF BackupInv, Goto
<1>1. /\ phase[r] = "restoring" /\ phase'[r] = "done" /\ loaded' \in {file, loaded}
      /\ \A c \in Calls \ {r} : phase'[c] = phase[c]
      /\ \A t \in Restores \ {r} : plan'[t] = plan[t] /\ missed'[t] = missed[t]
      /\ UNCHANGED <<file, todo, store, stamped, swept, cleared, copied, victims, doomed, at, base>>
  BY DEF FinishRestore, TypeOK, storeVars
<1>2. \A t \in Snapshots : Unmoved(t) \/ Over(t)
  BY <1>1 DEF Unmoved, Over
<1>3. StampInv' /\ CopyInv' /\ ManifestMeansComplete' /\ VictimInv'
  BY <1>1, <1>2, QuietStep
<1>4. \A t \in Restores : phase'[t] = "done" \/ Watching(t)
  BY <1>1, StillHears DEF Watching
<1>5. SafetyInv'
  BY <1>1, <1>4, SafetyFrame
<1>6. SaveInv'
  BY <1>1, FilesStay, SaveFrame
<1> QED BY <1>3, <1>5, <1>6

LEMMA RestoreStopsStep ==
  ASSUME BackupInv, TypeOK', NEW r \in Restores, RestoreStops(r)
  PROVE  BackupInv'
<1> USE Apart DEF BackupInv
<1>1. Stop({r}) /\ UNCHANGED <<file, loaded, store, stamped, swept, cleared, copied, victims, doomed>>
  BY DEF RestoreStops, storeVars
<1>2. \A t \in Snapshots : Unmoved(t) \/ Over(t)
  BY <1>1, StopTypes DEF Unmoved, Over
<1>3. StampInv' /\ CopyInv' /\ ManifestMeansComplete' /\ VictimInv'
  BY <1>1, <1>2, QuietStep
<1>4. \A t \in Restores : phase'[t] = "failed" \/ Watching(t)
  BY <1>1, StopTypes, StillHears DEF Watching
<1>5. SaveInv'
  BY <1>1, StopTypes, FilesStay, SaveFrame
<1>6. SafetyInv'
  BY <1>1, <1>4, SafetyFrame
<1> QED BY <1>3, <1>5, <1>6

LEMMA RestoreStep ==
  ASSUME BackupInv, NEW r \in Restores, Restore(r)
  PROVE  BackupInv'
<1>1. TypeOK'
  BY RestoreTypes DEF BackupInv
<1> QED BY <1>1, BeginRestoreStep, StartWritingStep, RestorePageStep, FinishRestoreStep,
           RestoreStopsStep DEF Restore

-----------------------------------------------------------------------------
(***************************************************************************)
(* Cleaners.                                                               *)
(***************************************************************************)
\* The steps of a cleaner move nothing but the cleaner.
LEMMA CleanFrame ==
  ASSUME BackupInv, TypeOK', NEW c \in Cleaners, \A d \in Calls \ {c} : phase'[d] = phase[d],
         phase'[c] = phase[c] \/ phase'[c] \in {"cleaning", "done", "shown"},
         UNCHANGED <<file, loaded, missed, todo, plan, copied, at, base>>
  PROVE  SafetyInv' /\ SaveInv'
<1> USE Apart DEF BackupInv
<1>1. \A r \in Restores : Watching(r)
  BY StillHears DEF Watching
<1>2. SafetyInv'
  BY <1>1, SafetyFrame
<1>3. SaveInv'
  <2>1. \A v \in Saves : phase'[v] = phase[v]
    OBVIOUS
  <2>2. \A d \in Deletions : phase'[d] = phase[d]
    OBVIOUS
  <2> QED BY <2>1, <2>2, FilesStay, SaveFrame
<1> QED BY <1>2, <1>3

\* As many newer backups count as the limit says, in this state.
LEMMA EnoughNewer ==
  ASSUME TypeOK, NEW s \in Snapshots, NEW K, K \subseteq {t \in Newer(s) : Counts(t)},
         Cardinality(K) >= Keep
  PROVE  NewerKept(s)
<1>1. IsFiniteSet({t \in Newer(s) : Counts(t)})
  <2>1. IsFiniteSet(Newer(s))
    BY NewerFinite DEF TypeOK
  <2> QED BY <2>1, FS_Subset
<1> QED BY <1>1, FS_Subset, FS_CardinalityType DEF NewerKept, Counts

\* Retention: what it lists has a manifest.  Of those that it counts as newer
\* either all are complete, or a removal has left one of them, which then has
\* enough newer ones itself.
LEMMA ListOldStep ==
  ASSUME BackupInv, TypeOK', NEW c \in Cleaners, ListOld(c)
  PROVE  BackupInv'
<1> USE Apart DEF BackupInv, Goto
<1> DEFINE S == {s \in Snapshots : HasManifest(s)}
<1>1. /\ phase[c] # "cleaning" /\ phase'[c] = "cleaning" /\ victims'[c] = Excess(S)
      /\ \A d \in Calls \ {c} : phase'[d] = phase[d]
      /\ \A d \in Cleaners \ {c} : victims'[d] = victims[d]
      /\ UNCHANGED <<file, loaded, missed, store, stamped, swept, cleared, todo, plan, copied, doomed, at,
                     base>>
  BY DEF ListOld, TypeOK, pageVars, storeVars
<1>2. \A s \in Snapshots : Unmoved(s) \/ Over(s)
  BY <1>1 DEF Unmoved, Over
<1>3. \A s \in Snapshots : (HasManifest(s)' <=> HasManifest(s)) /\ (Complete(s)' <=> Complete(s))
  BY <1>1 DEF HasManifest, Complete
<1>4. StampInv'
  BY <1>1, <1>2 DEF StampInv, Unstamped, Unmoved, Over
<1>5. CopyInv'
  <2>1. \A s \in Snapshots : /\ phase'[s] = "copying" => Unmoved(s)
                             /\ Unlisted(s)' => Unlisted(s)
                             /\ phase'[s] \in {"made", "restoring", "adopting", "landing", "checking"} =>
                                  Unmoved(s)
    BY <1>2 DEF Unmoved, Over, Unlisted, Unstamped
  <2> QED BY <1>1, <1>3, <2>1 DEF CopyInv, Unmoved
<1>6. ManifestMeansComplete'
  BY <1>1, <1>3 DEF ManifestMeansComplete
<1>7. VictimInv'
  <2> SUFFICES ASSUME NEW s \in Snapshots,
                      s \in cleared' \/ \E d \in Cleaners \ Sweeps : s \in victims'[d] \/ doomed'[d] = s
               PROVE  ~Unlisted(s)' /\ NewerKept(s)'
    BY DEF VictimInv
  <2>1. ~Unlisted(s) => ~Unlisted(s)'
    BY <1>2 DEF Unlisted, Unstamped, Unmoved, Over
  <2>2. NewerKept(s) => NewerKept(s)'
    BY <1>1, <1>3 DEF NewerKept, Newer
  <2>3. CASE s \in cleared \/ \E d \in Cleaners \ Sweeps : s \in victims[d] \/ doomed[d] = s
    BY <2>1, <2>2, <2>3 DEF VictimInv
  <2>4. CASE s \in Excess(S)
    <3>1. HasManifest(s) /\ Cardinality(Newer(s) \cap S) >= Keep
      BY <2>4 DEF Excess
    <3>2. ~Unlisted(s)
      BY <3>1 DEF CopyInv
    <3>3. CASE \A t \in Newer(s) \cap S : Counts(t)
      BY <3>1, <3>3, EnoughNewer, <2>1, <2>2, <3>2
    <3>4. CASE \E t \in Newer(s) \cap S : ~Counts(t)
      <4>1. PICK t \in Newer(s) : t \in Snapshots /\ HasManifest(t) /\ ~Counts(t)
        BY <3>4
      <4>2. NewerKept(t)
        BY <4>1 DEF ManifestMeansComplete, Counts, VictimInv
      <4>3. Newer(t) \subseteq Newer(s)
        BY <4>1, NewerOrder DEF TypeOK
      <4>4. {u \in Newer(t) : Complete(u) \/ u \in swept} \subseteq {u \in Newer(s) : Counts(u)}
        BY <4>3 DEF Counts
      <4>5. NewerKept(s)
        BY <4>2, <4>4, EnoughNewer DEF NewerKept
      <4> QED BY <2>1, <2>2, <3>2, <4>5
    <3> QED BY <3>3, <3>4
  <2> QED BY <1>1, <2>3, <2>4
<1>8. SafetyInv' /\ SaveInv'
  BY <1>1, CleanFrame
<1> QED BY <1>4, <1>5, <1>6, <1>7, <1>8

\* A cleaner that lists nothing new for retention to remove.
LEMMA ListingStep ==
  ASSUME BackupInv, TypeOK', NEW c \in Cleaners, \A d \in Calls \ {c} : phase'[d] = phase[d],
         \/ phase'[c] = phase[c]
         \/ phase'[c] \in {"cleaning", "done"}
         \/ c \in Sweeps /\ phase'[c] = "shown",
         c \in Sweeps \/ victims'[c] \subseteq victims[c],
         \A d \in Cleaners \ {c} : victims'[d] = victims[d],
         \A d \in Cleaners, s \in Snapshots :
           doomed'[d] = s => doomed[d] = s \/ d \in Sweeps \/ s \in victims[d],
         UNCHANGED <<file, loaded, missed, store, stamped, swept, cleared, todo, plan, copied, at, base>>
  PROVE  BackupInv'
<1> USE Apart
<1>1. \A s \in Snapshots : Unmoved(s) \/ Over(s)
  BY DEF Unmoved, Over
<1>2. StampInv' /\ CopyInv' /\ ManifestMeansComplete' /\ VictimInv'
  BY <1>1, QuietStep
<1>3. SafetyInv' /\ SaveInv'
  BY CleanFrame
<1> QED BY <1>2, <1>3 DEF BackupInv

LEMMA ListingsStep ==
  ASSUME BackupInv, TypeOK', NEW c \in Cleaners,
         ShowIncomplete(c) \/ ConfirmSweep(c) \/ CheckVictim(c) \/ RemovalFails(c) \/ EndCleaning(c)
  PROVE  BackupInv'
<1> USE Apart DEF Goto, pageVars, storeVars, callVars
<1>0. TypeOK
  BY DEF BackupInv
<1>1. CASE ShowIncomplete(c)
  <2>1. /\ c \in Sweeps /\ phase'[c] = "shown" /\ \A d \in Calls \ {c} : phase'[d] = phase[d]
        /\ \A d \in Cleaners \ {c} : victims'[d] = victims[d]
        /\ UNCHANGED <<file, loaded, missed, store, stamped, swept, cleared, todo, plan, copied, doomed, at,
                       base>>
    BY <1>0, <1>1 DEF ShowIncomplete, TypeOK
  <2> QED BY <2>1, ListingStep
<1>2. CASE ConfirmSweep(c)
  <2>1. /\ phase'[c] = "cleaning" /\ \A d \in Calls \ {c} : phase'[d] = phase[d]
        /\ victims'[c] \subseteq victims[c] /\ \A d \in Cleaners \ {c} : victims'[d] = victims[d]
        /\ UNCHANGED <<file, loaded, missed, store, stamped, swept, cleared, todo, plan, copied, doomed, at,
                       base>>
    BY <1>0, <1>2 DEF ConfirmSweep, TypeOK
  <2> QED BY <2>1, ListingStep
<1>3. CASE CheckVictim(c)
  <2>0. PICK v \in victims[c] : /\ doomed' = [doomed EXCEPT ![c] = IF v \in Protected THEN None ELSE v]
                                /\ victims' = [victims EXCEPT ![c] = @ \ {v}]
    BY <1>3 DEF CheckVictim
  <2>1. /\ UNCHANGED phase
        /\ victims'[c] \subseteq victims[c] /\ \A d \in Cleaners \ {c} : victims'[d] = victims[d]
        /\ UNCHANGED <<file, loaded, missed, store, stamped, swept, cleared, todo, plan, copied, at, base>>
    BY <1>0, <1>3, <2>0 DEF CheckVictim, TypeOK
  <2>2. \A d \in Cleaners, s \in Snapshots : doomed'[d] = s => doomed[d] = s \/ s \in victims[d]
    <3>1. None \notin Snapshots
      BY DEF Snapshots
    <3> QED BY <1>0, <2>0, <3>1 DEF TypeOK
  <2> QED BY <2>1, <2>2, ListingStep
<1>4. CASE RemovalFails(c)
  <2>1. /\ UNCHANGED phase
        /\ victims'[c] \subseteq victims[c] /\ \A d \in Cleaners \ {c} : victims'[d] = victims[d]
        /\ UNCHANGED <<file, loaded, missed, store, stamped, swept, cleared, todo, plan, copied, at, base>>
    BY <1>0, <1>4 DEF RemovalFails, TypeOK
  <2>2. \A d \in Cleaners, s \in Snapshots : doomed'[d] = s => doomed[d] = s
    <3>1. None \notin Snapshots
      BY DEF Snapshots
    <3> QED BY <1>0, <1>4, <3>1 DEF RemovalFails, TypeOK
  <2> QED BY <2>1, <2>2, ListingStep
<1>5. CASE EndCleaning(c)
  <2>1. /\ phase'[c] = "done" /\ \A d \in Calls \ {c} : phase'[d] = phase[d]
        /\ UNCHANGED <<file, loaded, missed, store, stamped, swept, cleared, todo, plan, copied, victims,
                       doomed, at, base>>
    BY <1>0, <1>5 DEF EndCleaning, TypeOK
  <2> QED BY <2>1, ListingStep
<1> QED BY <1>1, <1>2, <1>3, <1>4, <1>5

\* A removal, of a whole directory or of some of its entries: the backups that
\* count for the one it touches count for whatever that one counted for.
LEMMA RemovalStep ==
  ASSUME BackupInv, TypeOK', NEW c \in Cleaners, NEW v \in Snapshots, doomed[c] = v, Mark(c),
         \A t \in Snapshots \ {v} : store'[t] = store[t],
         store'[v] # None => store[v] # None, HasManifest(v)' => HasManifest(v),
         \A d \in Cleaners : doomed'[d] \in {doomed[d], None},
         UNCHANGED <<file, loaded, missed, phase, stamped, todo, plan, copied, victims, at, base>>
  PROVE  BackupInv' /\ (v \notin swept' => NewerKept(v))
<1> USE Apart DEF BackupInv
<1>1. /\ \A s \in Snapshots \ {v} : (HasManifest(s)' <=> HasManifest(s)) /\ (Complete(s)' <=> Complete(s))
      /\ swept \subseteq swept' /\ cleared \subseteq cleared' /\ v \in swept' \cup cleared'
      /\ \A s \in Snapshots : Unlisted(s)' <=> Unlisted(s)
  BY DEF HasManifest, Complete, Mark, Unlisted, Unstamped
<1>2. /\ c \in Sweeps => v \in swept' /\ cleared' = cleared
      /\ c \notin Sweeps => ~Unlisted(v) /\ NewerKept(v) /\ cleared' = cleared \cup {v}
  BY DEF Mark, VictimInv
<1>3. StampInv'
  BY DEF StampInv, Unstamped
<1>4. CopyInv'
  <2>1. \A s \in Snapshots \ {v} :
          /\ Unlisted(s)' => ~HasManifest(s)'
          /\ s \notin swept' /\ phase'[s] = "copying" =>
               store'[s] # None /\ Holding(copied'[s]) \ todo'[s] \subseteq store'[s].pages
          /\ phase'[s] \in {"made", "restoring", "adopting", "landing", "checking"} =>
               Complete(s)' \/ s \in swept' \cup cleared'
    BY <1>1 DEF CopyInv
  <2>2. /\ Unlisted(v)' => ~HasManifest(v)'
        /\ v \notin swept' => phase'[v] # "copying"
    BY <1>1, <1>2 DEF CopyInv, Unlisted
  <2> QED BY <1>1, <2>1, <2>2 DEF CopyInv
<1>5. ManifestMeansComplete'
  BY <1>1 DEF ManifestMeansComplete
<1>6. VictimInv'
  <2> SUFFICES ASSUME NEW s \in Snapshots,
                      s \in cleared' \/ \E d \in Cleaners \ Sweeps : s \in victims'[d] \/ doomed'[d] = s
               PROVE  ~Unlisted(s)' /\ NewerKept(s)'
    BY DEF VictimInv
  <2>1. ~Unlisted(s) /\ NewerKept(s)
    <3>1. None \notin Snapshots
      BY DEF Snapshots
    <3>2. CASE s \in cleared
      BY <3>2 DEF VictimInv
    <3>3. CASE s \notin cleared /\ s \in cleared'
      BY <1>2, <3>3
    <3>4. CASE \E d \in Cleaners \ Sweeps : s \in victims'[d] \/ doomed'[d] = s
      BY <3>1, <3>4 DEF VictimInv
    <3> QED BY <3>2, <3>3, <3>4
  <2> DEFINE K(t) == {u \in Newer(t) : Complete(u) \/ u \in swept}
             L    == {u \in Newer(s) : Complete(u)' \/ u \in swept'}
  <2>2. stamped \in Seq(Snapshots) /\ IsInjective(stamped)
    BY DEF TypeOK
  <2>3. Newer(s)' = Newer(s) /\ Newer(s) \subseteq Snapshots /\ Newer(v) \subseteq Snapshots
    BY DEF Newer
  <2>4. NewerKept(s)' <=> Cardinality(L) >= Keep
    BY <2>3 DEF NewerKept
  <2>5. \A u \in Snapshots \ {v} : Complete(u) \/ u \in swept => Complete(u)' \/ u \in swept'
    BY <1>1
  <2>6. PICK t \in Snapshots : NewerKept(t) /\ K(t) \subseteq L
    <3>1. CASE v \in Newer(s) /\ c \notin Sweeps
      <4>1. Newer(v) \subseteq Newer(s) \ {v}
        BY <2>2, <3>1, NewerOrder
      <4>2. K(v) \subseteq L
        BY <2>3, <2>5, <4>1
      <4> QED BY <1>2, <3>1, <4>2
    <3>2. CASE v \notin Newer(s) \/ c \in Sweeps
      <4>1. K(s) \subseteq L
        BY <1>2, <2>3, <2>5, <3>2
      <4> QED BY <2>1, <4>1
    <3> QED BY <3>1, <3>2
  <2>7. IsFiniteSet(L)
    <3>1. IsFiniteSet(Newer(s))
      BY <2>2, NewerFinite
    <3> QED BY <3>1, FS_Subset
  <2> HIDE DEF L
  <2>8. Cardinality(L) >= Keep
    BY <2>6, <2>7, FS_Subset, FS_CardinalityType DEF NewerKept
  <2> QED BY <1>1, <2>1, <2>4, <2>8
<1>7. SafetyInv' /\ SaveInv'
  BY CleanFrame
<1>8. v \notin swept' => NewerKept(v)
  BY <1>2
<1> QED BY <1>3, <1>4, <1>5, <1>6, <1>7, <1>8

LEMMA RemovalSteps ==
  ASSUME BackupInv, TypeOK', NEW c \in Cleaners, RemoveEntries(c) \/ RemoveVictim(c)
  PROVE  /\ BackupInv'
         /\ \A s \in Snapshots : Shrinks(s) /\ s \notin swept' => NewerKept(s)
<1> USE DEF pageVars, callVars
<1>0. TypeOK
  BY DEF BackupInv
<1>1. PICK v \in Snapshots : v = doomed[c]
  BY <1>0 DEF RemoveEntries, RemoveVictim, TypeOK, Option
<1>2. /\ Mark(c) /\ \A t \in Snapshots \ {v} : store'[t] = store[t]
      /\ store'[v] # None => store[v] # None
      /\ HasManifest(v)' => HasManifest(v)
      /\ \A d \in Cleaners : doomed'[d] \in {doomed[d], None}
      /\ UNCHANGED <<file, loaded, missed, phase, stamped, todo, plan, copied, victims, at, base>>
  <2>1. CASE RemoveEntries(c)
    <3>1. /\ doomed' = doomed /\ Mark(c)
          /\ UNCHANGED <<file, loaded, missed, phase, stamped, todo, plan, copied, victims, at, base>>
      BY <2>1 DEF RemoveEntries
    <3>2. /\ \A t \in Snapshots \ {v} : store'[t] = store[t]
          /\ store[v] # None /\ (store'[v].manifest => store[v].manifest)
      BY <1>0, <1>1, <2>1, EntriesTypes
    <3>3. HasManifest(v)' => HasManifest(v)
      BY <3>2 DEF HasManifest
    <3> QED BY <3>1, <3>2, <3>3
  <2>2. CASE RemoveVictim(c)
    <3>1. /\ store' = [store EXCEPT ![v] = None] /\ doomed' = [doomed EXCEPT ![c] = None] /\ Mark(c)
          /\ UNCHANGED <<file, loaded, missed, phase, stamped, todo, plan, copied, victims, at, base>>
      BY <1>1, <2>2 DEF RemoveVictim
    <3>2. store'[v] = None /\ \A t \in Snapshots \ {v} : store'[t] = store[t]
      BY <1>0, <3>1 DEF TypeOK
    <3>3. \A d \in Cleaners : doomed'[d] \in {doomed[d], None}
      BY <1>0, <3>1 DEF TypeOK
    <3> QED BY <3>1, <3>2, <3>3 DEF HasManifest
  <2> QED BY <2>1, <2>2
<1>4. BackupInv' /\ (v \notin swept' => NewerKept(v))
  BY <1>1, <1>2, RemovalStep
<1>5. \A s \in Snapshots : Shrinks(s) => s = v
  <2> SUFFICES ASSUME NEW s \in Snapshots, s # v PROVE ~Shrinks(s)
    OBVIOUS
  <2>1. store'[s] = store[s]
    BY <1>2
  <2> QED BY <2>1 DEF Shrinks
<1> QED BY <1>4, <1>5

LEMMA CleanStep ==
  ASSUME BackupInv, NEW c \in Cleaners, Clean(c)
  PROVE  BackupInv'
<1>1. TypeOK'
  BY CleanTypes DEF BackupInv
<1> QED BY <1>1, ListOldStep, ListingsStep, RemovalSteps DEF Clean

-----------------------------------------------------------------------------
(***************************************************************************)
(* Saves, deletions, files that come, and restarts.                        *)
(***************************************************************************)
\* A step of a writer that is no adoption: no backup moves, restores see what is
\* written.
LEMMA WriterFrame ==
  ASSUME BackupInv, TypeOK', \A s \in Snapshots \cup Cleaners : phase'[s] = phase[s],
         UNCHANGED <<store, stamped, swept, cleared, todo, plan, copied, victims, doomed>>,
         \A r \in Restores : phase[r] \notin {"idle", "done", "failed"} => Hears(r), SaveInv'
  PROVE  BackupInv'
<1> USE Apart DEF BackupInv
<1>1. \A s \in Snapshots : Unmoved(s)
  BY DEF Unmoved
<1>2. StampInv' /\ CopyInv' /\ ManifestMeansComplete' /\ VictimInv'
  BY <1>1, QuietStep
<1>3. \A r \in Restores : phase'[r] \in {"idle", "done", "failed"} \/ Watching(r)
  BY DEF Watching
<1>4. SafetyInv'
  BY <1>3, SafetyFrame
<1> QED BY <1>2, <1>4

LEMMA SaveStep ==
  ASSUME BackupInv, NEW v \in Saves, Save(v)
  PROVE  BackupInv'
<1> USE Apart DEF Goto, pageVars, storeVars, callVars
<1>0. TypeOK /\ SaveInv /\ TypeOK'
  BY SaveTypes DEF BackupInv
<1>1. CASE \E p \in Pages : OpenPage(v, p)
  <2>1. PICK p \in Pages : OpenPage(v, p)
    BY <1>1
  <2>2. /\ at'[v] = p /\ base'[v] = loaded[p] /\ p \in Listed
        /\ \A c \in Calls \ {v} : phase'[c] = phase[c]
        /\ \A w \in Writers \ {v} : at'[w] = at[w]
        /\ \A w \in Saves \ {v} : base'[w] = base[w]
        /\ UNCHANGED <<file, loaded, missed, store, stamped, swept, cleared, todo, plan, copied, victims,
                       doomed>>
    BY <1>0, <2>1 DEF OpenPage, TypeOK
  <2>3. loaded[p] \in Content
    BY <1>0, <2>2 DEF Listed, Holding, TypeOK, Option
  <2>4. SaveInv'
    BY <1>0, <2>2, <2>3, FilesStay DEF SaveInv, Listed
  <2> QED BY <1>0, <2>2, <2>4, StillHears, WriterFrame
<1>2. CASE CheckSave(v)
  <2>1. /\ phase[v] = "open" /\ \A c \in Calls \ {v} : phase'[c] = phase[c]
        /\ phase'[v] = "queued"
        /\ UNCHANGED <<file, loaded, missed, store, stamped, swept, cleared, todo, plan, copied, victims,
                       doomed, at, base>>
    BY <1>0, <1>2 DEF CheckSave, TypeOK
  <2>2. SaveInv'
    BY <1>0, <2>1, FilesStay, SaveFrame
  <2> QED BY <1>0, <2>1, <2>2, StillHears, WriterFrame
<1>3. CASE LandSave(v)
  <2> DEFINE new == [base[v] EXCEPT !.text = v]
  <2>1. /\ phase'[v] = "done" /\ \A c \in Calls \ {v} : phase'[c] = phase[c]
        /\ \A w \in Writers \ {v} : at'[w] = at[w]
        /\ \A w \in Saves \ {v} : base'[w] = base[w]
        /\ UNCHANGED <<store, stamped, swept, cleared, todo, plan, copied, victims, doomed>>
    BY <1>0, <1>3 DEF LandSave, TypeOK
  <2>2. at[v] \in Pages /\ base[v] \in Content
    BY <1>0, <1>3 DEF LandSave, SaveInv
  <2>3. new \in Content
    BY <2>2 DEF Content
  <2>4. Put(at[v], new) /\ loaded' = [loaded EXCEPT ![at[v]] = IF @ = None THEN None ELSE new]
    BY <1>3 DEF LandSave
  <2> HIDE DEF new
  <2>5. \A r \in Restores : phase[r] \notin {"idle", "done", "failed"} => Hears(r)
    BY <1>0, <2>2, <2>3, <2>4, PutHeard
  <2>6. Pages \ Passing \subseteq Holding(file') \cap Holding(loaded')
    <3>1. Holding(loaded) \subseteq Holding(loaded')
      BY <1>0, <2>2, <2>3, <2>4, DataAssumption DEF TypeOK, Holding
    <3> QED BY <1>0, <2>2, <2>3, <2>4, <3>1, PutHeard DEF SaveInv, Listed
  <2>7. SaveInv'
    BY <1>0, <2>1, <2>6 DEF SaveInv, Listed
  <2> QED BY <1>0, <2>1, <2>5, <2>7, WriterFrame
<1>4. CASE SaveFails(v)
  <2>1. Stop({v}) /\ UNCHANGED <<file, loaded, store, stamped, swept, cleared, copied, victims, doomed>>
    BY <1>4 DEF SaveFails
  <2>2. /\ phase'[v] = "failed" /\ \A c \in Calls \ {v} : phase'[c] = phase[c]
        /\ \A s \in Snapshots : todo'[s] = todo[s]
        /\ \A r \in Restores \cup Adoptions : plan'[r] = plan[r]
        /\ \A w \in Writers \ {v} : at'[w] = at[w]
        /\ \A w \in Saves \ {v} : base'[w] = base[w]
        /\ \A r \in Restores : missed'[r] = missed[r]
    BY <1>0, <2>1, StopTypes
  <2>3. todo' = todo /\ plan' = plan
    BY <1>0, <2>2 DEF TypeOK
  <2>4. SaveInv'
    BY <1>0, <2>1, <2>2, FilesStay DEF SaveInv, Listed
  <2> QED BY <1>0, <2>1, <2>2, <2>3, <2>4, StillHears, WriterFrame
<1> QED BY <1>1, <1>2, <1>3, <1>4 DEF Save

LEMMA DeleteStep ==
  ASSUME BackupInv, NEW d \in Deletions, Delete(d)
  PROVE  BackupInv'
<1> USE Apart DEF Goto, pageVars, storeVars
<1>0. TypeOK /\ SaveInv /\ TypeOK'
  BY DeleteTypes DEF BackupInv
<1>1. ASSUME NEW p \in Passing, RemovePage(d, p) PROVE BackupInv'
  <2>1. /\ \A q \in Pages \ {p} : file'[q] = file[q]
        /\ file'[p] = None /\ at'[d] = p
        /\ \A w \in Writers \ {d} : at'[w] = at[w]
        /\ \A c \in Calls \ {d} : phase'[c] = phase[c]
        /\ UNCHANGED <<loaded, missed, base, store, stamped, swept, cleared, todo, plan, copied, victims,
                       doomed>>
    BY <1>0, <1>1 DEF RemovePage, TypeOK
  <2>2. \A r \in Restores : Hears(r)
    <3> SUFFICES ASSUME NEW r \in Restores, NEW q \in Pages, file'[q] # None
                 PROVE  q \in missed'[r] \/ (file'[q] = file[q] /\ q \notin missed[r])
      BY DEF Hears, Holding
    <3> QED BY <2>1
  <2>3. SaveInv'
    <3>1. Pages \ Passing \subseteq Holding(file') \cap Holding(loaded')
      BY <1>0, <2>1 DEF SaveInv, Listed, Holding
    <3> QED BY <1>0, <2>1, <3>1 DEF SaveInv, Listed
  <2> QED BY <1>0, <2>1, <2>2, <2>3, WriterFrame
<1>2. ASSUME Unlist(d) PROVE BackupInv'
  <2>1. /\ at[d] \in Passing
        /\ \A q \in Pages \ {at[d]} : loaded'[q] = loaded[q]
        /\ \A w \in Writers \ {d} : at'[w] = at[w]
        /\ phase'[d] = "done" /\ \A c \in Calls \ {d} : phase'[c] = phase[c]
        /\ UNCHANGED <<file, missed, base, store, stamped, swept, cleared, todo, plan, copied, victims,
                       doomed>>
    BY <1>0, <1>2 DEF Unlist, TypeOK, SaveInv
  <2>2. SaveInv'
    <3>1. Pages \ Passing \subseteq Holding(file') \cap Holding(loaded')
      BY <1>0, <2>1 DEF SaveInv, Listed, Holding
    <3> QED BY <1>0, <2>1, <3>1 DEF SaveInv, Listed
  <2> QED BY <1>0, <2>1, <2>2, StillHears, WriterFrame
<1> QED BY <1>1, <1>2 DEF Delete

LEMMA ArriveStep ==
  ASSUME BackupInv, NEW p \in Passing, Arrive(p)
  PROVE  BackupInv'
<1> USE Apart DEF storeVars, callVars
<1>0. TypeOK /\ SaveInv /\ TypeOK'
  BY ArriveTypes DEF BackupInv
<1>1. p \in Pages /\ [text |-> First, adopted |-> FALSE] \in Content
  BY DEF Content
<1>2. Put(p, [text |-> First, adopted |-> FALSE])
      /\ UNCHANGED <<loaded, phase, at, base, store, stamped, swept, cleared, todo, plan, copied, victims,
                     doomed>>
  BY DEF Arrive
<1>3. /\ \A r \in Restores : phase[r] \notin {"idle", "done", "failed"} => Hears(r)
      /\ Pages \ Passing \subseteq Holding(file')
  BY <1>0, <1>1, <1>2, PutHeard
<1>4. SaveInv'
  BY <1>0, <1>2, <1>3 DEF SaveInv, Listed
<1> QED BY <1>0, <1>2, <1>3, <1>4, WriterFrame

LEMMA RestartStep ==
  ASSUME BackupInv, Restart
  PROVE  BackupInv'
<1> USE Apart DEF BackupInv, storeVars
<1> DEFINE S == {c \in Calls : phase[c] \notin {"idle", "done"}}
<1>1. /\ Stop(S) /\ loaded' = file /\ UNCHANGED <<file, store, stamped, swept, cleared, copied>>
      /\ \A c \in Cleaners : victims'[c] = {} /\ doomed'[c] = None
  BY DEF Restart
<1>2. TypeOK'
  BY RestartTypes
<1>3. \A s \in Snapshots : Unmoved(s) \/ Over(s)
  BY <1>1, StopTypes DEF Unmoved, Over
<1>4. None \notin Snapshots
  BY DEF Snapshots
<1>5. StampInv' /\ CopyInv' /\ ManifestMeansComplete' /\ VictimInv'
  BY <1>1, <1>2, <1>3, <1>4, QuietStep
<1>6. \A c \in Calls : phase'[c] \in {"idle", "done", "failed"}
  <2> SUFFICES ASSUME NEW c \in Calls PROVE phase'[c] \in {"idle", "done", "failed"}
    OBVIOUS
  <2>1. CASE c \in S
    BY <1>1, <2>1, StopTypes
  <2>2. CASE c \notin S
    BY <1>1, <2>2, StopTypes
  <2> QED BY <2>1, <2>2
<1>7. SafetyInv'
  BY <1>1, <1>6, SafetyFrame
<1>8. SaveInv'
  BY <1>1, <1>6, FilesStay DEF SaveInv, Listed
<1> QED BY <1>2, <1>5, <1>7, <1>8

\* Every step of the backups keeps the invariant.
LEMMA BackupStep ==
  ASSUME BackupInv, Next
  PROVE  BackupInv'
BY MakeBackupStep, RestoreStep, CleanStep, SaveStep, DeleteStep, ArriveStep, RestartStep DEF Next, Step

LEMMA BackupStutter ==
  ASSUME BackupInv, UNCHANGED backupVars
  PROVE  BackupInv'
<1> USE DEF backupVars, pageVars, storeVars, callVars, BackupInv
<1>1. TypeOK'
  BY DEF TypeOK
<1>2. StampInv' /\ CopyInv' /\ ManifestMeansComplete'
  BY DEF StampInv, Unstamped, CopyInv, Unlisted, HasManifest, Complete, ManifestMeansComplete
<1>3. VictimInv'
  BY DEF VictimInv, Unlisted, Unstamped, NewerKept, Newer, HasManifest, Complete
<1>4. SafetyInv' /\ SaveInv'
  BY DEF SafetyInv, SaveInv, Listed
<1> QED BY <1>1, <1>2, <1>3, <1>4

LEMMA BackupStart == Init => BackupInv
<1> SUFFICES ASSUME Init PROVE BackupInv
  OBVIOUS
<1> USE Apart DEF Init
<1>0. /\ file \in [Pages -> Option(Content)] /\ loaded = file
      /\ Pages \ Passing \subseteq Holding(file)
  <2>1. [text |-> First, adopted |-> FALSE] \in Content
    BY DEF Content
  <2>2. PICK there \in SUBSET Passing :
          file = [p \in Pages |-> IF p \in Passing \ there THEN None ELSE [text |-> First, adopted |-> FALSE]]
    OBVIOUS
  <2> QED BY <2>1, <2>2, DataAssumption DEF Option, Holding
<1>1. TypeOK
  <2>1. NoPages \in [Pages -> Option(Content)]
    BY DEF NoPages, Option
  <2>3. stamped \in Seq(Snapshots) /\ IsInjective(stamped)
    BY DEF IsInjective
  <2>4. restarts \in 0..MaxRestarts
    BY BackupAssumption
  <2> QED BY <1>0, <2>1, <2>3, <2>4 DEF TypeOK, Option, Phases
<1>2. StampInv /\ CopyInv /\ ManifestMeansComplete
  BY DEF StampInv, Unstamped, Contains, CopyInv, Unlisted, HasManifest, Complete,
         ManifestMeansComplete
<1>3. VictimInv
  <2>1. None \notin Snapshots
    BY DEF Snapshots
  <2> QED BY <2>1 DEF VictimInv
<1>4. SafetyInv /\ SaveInv
  BY <1>0 DEF SafetyInv, SaveInv, Listed
<1> QED BY <1>1, <1>2, <1>3, <1>4 DEF BackupInv

-----------------------------------------------------------------------------
\* The inductive invariant of backups, restores, retention, sweeps, saves,
\* deletions and restarts.
THEOREM BackupInvariance == Spec => []BackupInv
<1>1. BackupInv /\ [Next]_backupVars => BackupInv'
  BY BackupStep, BackupStutter
<1> QED BY BackupStart, <1>1, PTL DEF Spec

\* Whatever a call was doing when it stopped, a backup with a manifest has every
\* page that it read, unless a removal of it was begun.
THEOREM ManifestsAreTrue == Spec => []ManifestMeansComplete
<1>1. BackupInv => ManifestMeansComplete
  BY DEF BackupInv
<1> QED BY BackupInvariance, <1>1, PTL

\* Only a removal takes something from a backup.
LEMMA OnlyRemovals ==
  ASSUME TypeOK, Next, NEW s \in Snapshots, Shrinks(s)
  PROVE  \E c \in Cleaners : RemoveEntries(c) \/ RemoveVictim(c)
<1>0. ASSUME UNCHANGED store PROVE FALSE
  BY <1>0 DEF Shrinks
<1>1. ASSUME NEW t \in Snapshots, MakeBackup(t) PROVE FALSE
  <2>1. ASSUME /\ \A u \in Snapshots \ {t} : store'[u] = store[u]
               /\ store[t] # None => /\ store'[t] # None /\ store[t].pages \subseteq store'[t].pages
                                     /\ store[t].manifest => store'[t].manifest
        PROVE  FALSE
    BY <2>1 DEF Shrinks
  <2>4. ASSUME NEW pages \in SUBSET Pages, PutInto(t, pages, FALSE) PROVE FALSE
    <3>1. /\ \A u \in Snapshots \ {t} : store'[u] = store[u]
          /\ store'[t] # None
          /\ store'[t].pages = IF store[t] = None THEN pages ELSE store[t].pages \cup pages
          /\ store'[t].manifest = IF store[t] = None THEN FALSE ELSE store[t].manifest \/ FALSE
      BY <2>4, PutIntoTypes
    <3> QED BY <2>1, <3>1
  <2>5. ASSUME PutInto(t, {}, TRUE) PROVE FALSE
    <3>1. /\ \A u \in Snapshots \ {t} : store'[u] = store[u]
          /\ store'[t] # None
          /\ store'[t].pages = IF store[t] = None THEN {} ELSE store[t].pages \cup {}
          /\ store'[t].manifest = IF store[t] = None THEN TRUE ELSE store[t].manifest \/ TRUE
      BY <2>5, PutIntoTypes
    <3> QED BY <2>1, <3>1
  <2>2. BeginBackup(t) \/ Verify(t) \/ BackupFails(t) \/ (\E p \in Pages : ReadPage(t, p)) => FALSE
    BY <1>0 DEF BeginBackup, Verify, BackupFails, ReadPage, storeVars
  <2>3. MakeDirectory(t) \/ WriteManifest(t) \/ (\E p \in Pages : CopyPage(t, p)) => FALSE
    BY <2>4, <2>5 DEF MakeDirectory, WriteManifest, CopyPage
  <2> QED BY <1>1, <2>2, <2>3 DEF MakeBackup
<1>2. ASSUME NEW r \in Restores, Restore(r) PROVE FALSE
  BY <1>0, <1>2 DEF Restore, BeginRestore, StartWriting, FinishRestore, RestoreStops, RestorePage, storeVars
<1>3. ASSUME NEW c \in Cleaners, Clean(c) PROVE RemoveEntries(c) \/ RemoveVictim(c)
  BY <1>0, <1>3 DEF Clean, ListOld, ShowIncomplete, ConfirmSweep, CheckVictim, RemovalFails, EndCleaning,
              storeVars
<1>4. ASSUME NEW v \in Saves, Save(v) PROVE FALSE
  BY <1>0, <1>4 DEF Save, OpenPage, CheckSave, LandSave, SaveFails, storeVars
<1>5. ASSUME NEW d \in Deletions, Delete(d) PROVE FALSE
  BY <1>0, <1>5 DEF Delete, RemovePage, Unlist, storeVars
<1>6. ASSUME NEW p \in Passing, Arrive(p) PROVE FALSE
  BY <1>0, <1>6 DEF Arrive, storeVars
<1>7. ~Restart
  BY <1>0 DEF Restart, storeVars
<1> QED BY <1>1, <1>2, <1>3, <1>4, <1>5, <1>6, <1>7 DEF Next, Step

\* Retention touches a backup only while as many newer complete ones as the
\* limit says are there, however many cleanups run at once and whatever fails
\* half way, or a sweep took them.
THEOREM NewestSnapshotsKept == Spec => NewestSnapshotsStay
<1> DEFINE Kept == \A s \in Snapshots : Shrinks(s) /\ s \notin swept' => NewerKept(s)
<1>1. BackupInv /\ [Next]_backupVars => [Kept]_backupVars
  <2> SUFFICES ASSUME BackupInv, Next, NEW s \in Snapshots, Shrinks(s), s \notin swept'
               PROVE  NewerKept(s)
    BY DEF backupVars, storeVars
  <2>1. PICK c \in Cleaners : RemoveEntries(c) \/ RemoveVictim(c)
    BY OnlyRemovals DEF BackupInv
  <2>2. TypeOK'
    BY <2>1, CleanTypes DEF BackupInv, Clean
  <2> QED BY <2>1, <2>2, RemovalSteps
<1> QED BY BackupInvariance, <1>1, PTL DEF Spec, NewestSnapshotsStay

\* What a restore overwrites is in its safety copy, or was not listed when that
\* was begun, or was written since it was copied, or a removal of the safety
\* copy has begun.
LEMMA OverwrittenIsHeld ==
  ASSUME BackupInv, NEW r \in Restores, NEW p \in Holding(file), phase[r] = "restoring"
  PROVE  \/ Complete(r) /\ (copied[r][p] = file[p] \/ p \in missed[r])
         \/ r \in swept \cup cleared
<1>1. Complete(r) \/ r \in swept \cup cleared
  BY Apart DEF BackupInv, CopyInv
<1>2. copied[r][p] = file[p] \/ p \in missed[r]
  BY DEF BackupInv, SafetyInv
<1> QED BY <1>1, <1>2

-----------------------------------------------------------------------------
(***************************************************************************)
(* Adoptions: what the other calls leave alone.                            *)
(***************************************************************************)
LEMMA PlannedPages ==
  ASSUME NEW content
  PROVE  Planned(content) \subseteq Items \cup Actors /\ Planned(content) \subseteq Pages \ Passing
BY AdoptionAssumption DEF Planned, ReadyActors, Consumers

\* Other calls let an adoption make its backup, or stop it; its plan stays.
Making  == {"reading", "copying", "verifying", "made"}
Left(m) ==
  /\ plan'[m] = plan[m] /\ (copied'[m] = copied[m] \/ phase[m] = "reading")
  /\ \/ phase'[m] = phase[m] /\ (todo'[m] = todo[m] \/ phase[m] = "reading") /\ at'[m] = at[m]
     \/ phase'[m] = "failed" /\ phase[m] # "idle"
     \/ phase[m] \in Making /\ phase'[m] \in Making

LEMMA OthersLeave ==
  ASSUME TypeOK, SafetyInv, Next
  PROVE  UNCHANGED journal /\ \A m \in Adoptions : Left(m)
<1> USE Apart DEF Goto, pageVars, storeVars, callVars
<1>1. ASSUME NEW s \in Snapshots, MakeBackup(s)
      PROVE  UNCHANGED journal /\ \A m \in Adoptions : Left(m)
  <2>1. CASE BeginBackup(s)
    BY <2>1 DEF BeginBackup, Left, TypeOK
  <2>2. CASE MakeDirectory(s)
    BY <2>2 DEF MakeDirectory, Left, Making, TypeOK
  <2>3. CASE WriteManifest(s)
    BY <2>3 DEF WriteManifest, Left, Making, TypeOK
  <2>4. CASE Verify(s)
    BY <2>4 DEF Verify, Left, Making, TypeOK
  <2>5. CASE BackupFails(s)
    <3>1. Stop({s}) /\ UNCHANGED <<journal, copied>> /\ phase[s] # "idle"
      BY <2>5 DEF BackupFails
    <3> QED BY <3>1, StopTypes DEF Left
  <2>6. ASSUME NEW p \in Pages, ReadPage(s, p)
        PROVE  UNCHANGED journal /\ \A m \in Adoptions : Left(m)
    BY <2>6 DEF ReadPage, Left, TypeOK
  <2>7. ASSUME NEW p \in Pages, CopyPage(s, p)
        PROVE  UNCHANGED journal /\ \A m \in Adoptions : Left(m)
    BY <2>7 DEF CopyPage, Left, Making, TypeOK
  <2> QED BY <1>1, <2>1, <2>2, <2>3, <2>4, <2>5, <2>6, <2>7 DEF MakeBackup
<1>2. ASSUME NEW r \in Restores, Restore(r)
      PROVE  UNCHANGED journal /\ \A m \in Adoptions : Left(m)
  <2>1. CASE RestoreStops(r)
    <3>1. Stop({r}) /\ UNCHANGED <<journal, copied>>
      BY <2>1 DEF RestoreStops
    <3> QED BY <3>1, StopTypes DEF Left
  <2>2. CASE ~RestoreStops(r)
    BY <1>2, <2>2 DEF Restore, BeginRestore, StartWriting, FinishRestore, RestorePage, Left, TypeOK
  <2> QED BY <2>1, <2>2
<1>3. ASSUME NEW c \in Cleaners, Clean(c)
      PROVE  UNCHANGED journal /\ \A m \in Adoptions : Left(m)
  <2>1. /\ UNCHANGED <<journal, plan, copied, todo, at>>
        /\ \A d \in Calls \ {c} : phase'[d] = phase[d]
    BY <1>3 DEF Clean, ListOld, ShowIncomplete, ConfirmSweep, CheckVictim, RemoveEntries, RemoveVictim,
                RemovalFails, EndCleaning, TypeOK
  <2> QED BY <2>1 DEF Left
<1>4. ASSUME NEW v \in Saves, Save(v)
      PROVE  UNCHANGED journal /\ \A m \in Adoptions : Left(m)
  <2>1. CASE SaveFails(v)
    <3>1. Stop({v}) /\ UNCHANGED <<journal, copied>>
      BY <2>1 DEF SaveFails
    <3> QED BY <3>1, StopTypes DEF Left
  <2>2. CASE ~SaveFails(v)
    BY <1>4, <2>2 DEF Save, OpenPage, CheckSave, LandSave, Left, TypeOK
  <2> QED BY <2>1, <2>2
<1>5. ASSUME Restart
      PROVE  UNCHANGED journal /\ \A m \in Adoptions : Left(m)
  <2> DEFINE S == {c \in Calls : phase[c] \notin {"idle", "done"}}
  <2>1. Stop(S) /\ UNCHANGED <<journal, copied>>
    BY <1>5 DEF Restart
  <2>2. ASSUME NEW m \in Adoptions PROVE Left(m)
    <3>1. CASE m \in S
      BY <2>1, <3>1, StopTypes DEF Left
    <3>2. CASE m \notin S
      BY <2>1, <3>2, StopTypes DEF Left
    <3> QED BY <3>1, <3>2
  <2> QED BY <2>1, <2>2
<1>6. ASSUME NEW d \in Deletions, Delete(d)
      PROVE  UNCHANGED journal /\ \A m \in Adoptions : Left(m)
  <2>1. /\ UNCHANGED <<journal, plan, copied, todo>>
        /\ \A c \in Calls \ {d} : phase'[c] = phase[c]
        /\ \A w \in Writers \ {d} : at'[w] = at[w]
    BY <1>6 DEF Delete, RemovePage, Unlist, TypeOK
  <2> QED BY <2>1 DEF Left
<1>7. ASSUME NEW p \in Passing, Arrive(p)
      PROVE  UNCHANGED journal /\ \A m \in Adoptions : Left(m)
  BY <1>7 DEF Arrive, Left
<1> QED BY <1>1, <1>2, <1>3, <1>4, <1>5, <1>6, <1>7 DEF Next, Step

\* A page file changes by a restore, by a save that was queued, by a deletion, or
\* where it comes.
LEMMA PagesWritten ==
  ASSUME TypeOK, SafetyInv, SaveInv, Next
  PROVE  \/ UNCHANGED file
         \/ \E r \in Restores, p \in Pages : RestorePage(r, p)
         \/ \E v \in Saves : LandSave(v)
         \/ \E d \in Deletions, p \in Passing : RemovePage(d, p)
         \/ \E p \in Passing : Arrive(p)
BY DEF Next, Step, MakeBackup, BeginBackup, ReadPage, MakeDirectory, CopyPage, WriteManifest, Verify,
       BackupFails, Restore, BeginRestore, StartWriting, FinishRestore, RestoreStops, Clean, ListOld,
       ShowIncomplete, ConfirmSweep, CheckVictim, RemoveEntries, RemoveVictim, RemovalFails, EndCleaning,
       Save, OpenPage, CheckSave, SaveFails, Delete, Unlist, Restart, pageVars

\* A save is queued by its check, and then stays as it is.
LEMMA SavesQueued ==
  ASSUME TypeOK, Next, NEW v \in Saves, phase'[v] = "queued"
  PROVE  /\ at'[v] = at[v] /\ base'[v] = base[v]
         /\ phase[v] = "queued" \/ CheckSave(v)
<1> USE Apart DEF Goto, pageVars, storeVars, callVars
<1>1. ASSUME NEW s \in Snapshots, MakeBackup(s)
      PROVE  at'[v] = at[v] /\ base'[v] = base[v] /\ phase'[v] = phase[v]
  <2>1. CASE BackupFails(s)
    <3>1. Stop({s})
      BY <2>1 DEF BackupFails
    <3> QED BY <3>1, StopTypes
  <2>2. CASE ~BackupFails(s)
    BY <1>1, <2>2 DEF MakeBackup, BeginBackup, ReadPage, MakeDirectory, CopyPage, WriteManifest, Verify,
                      TypeOK
  <2> QED BY <2>1, <2>2
<1>2. ASSUME NEW r \in Restores, Restore(r)
      PROVE  at'[v] = at[v] /\ base'[v] = base[v] /\ phase'[v] = phase[v]
  <2>1. CASE RestoreStops(r)
    <3>1. Stop({r})
      BY <2>1 DEF RestoreStops
    <3> QED BY <3>1, StopTypes
  <2>2. CASE ~RestoreStops(r)
    BY <1>2, <2>2 DEF Restore, BeginRestore, StartWriting, FinishRestore, RestorePage, TypeOK
  <2> QED BY <2>1, <2>2
<1>3. ASSUME NEW c \in Cleaners, Clean(c)
      PROVE  at'[v] = at[v] /\ base'[v] = base[v] /\ phase'[v] = phase[v]
  BY <1>3 DEF Clean, ListOld, ShowIncomplete, ConfirmSweep, CheckVictim, RemoveEntries, RemoveVictim,
              RemovalFails, EndCleaning, TypeOK
<1>4. ASSUME NEW w \in Saves, Save(w)
      PROVE  /\ at'[v] = at[v] /\ base'[v] = base[v]
             /\ phase[v] = "queued" \/ CheckSave(v)
  <2>1. CASE SaveFails(w)
    <3>1. Stop({w})
      BY <2>1 DEF SaveFails
    <3>2. v # w
      BY <3>1, StopTypes
    <3> QED BY <3>1, <3>2, StopTypes
  <2>2. CASE \E p \in Pages : OpenPage(w, p)
    BY <2>2 DEF OpenPage, TypeOK
  <2>3. CASE CheckSave(w)
    BY <2>3 DEF CheckSave, TypeOK
  <2>4. CASE LandSave(w)
    BY <2>4 DEF LandSave, TypeOK
  <2> QED BY <1>4, <2>1, <2>2, <2>3, <2>4 DEF Save
<1>5. ~Restart
  <2> DEFINE S == {c \in Calls : phase[c] \notin {"idle", "done"}}
  <2> SUFFICES ASSUME Stop(S) PROVE FALSE
    BY DEF Restart
  <2>1. CASE v \in S
    BY <2>1, StopTypes
  <2>2. CASE v \notin S
    BY <2>2, StopTypes
  <2> QED BY <2>1, <2>2
<1>6. ASSUME NEW d \in Deletions, Delete(d)
      PROVE  at'[v] = at[v] /\ base'[v] = base[v] /\ phase'[v] = phase[v]
  BY <1>6 DEF Delete, RemovePage, Unlist, TypeOK
<1>7. ASSUME NEW p \in Passing, Arrive(p)
      PROVE  at'[v] = at[v] /\ base'[v] = base[v] /\ phase'[v] = phase[v]
  BY <1>7 DEF Arrive
<1> QED BY <1>1, <1>2, <1>3, <1>4, <1>5, <1>6, <1>7 DEF Next, Step

-----------------------------------------------------------------------------
(***************************************************************************)
(* The steps of the other calls, among adoptions.                          *)
(***************************************************************************)
\* Where no restore has written and no deletion may, they leave open whether a
\* page is adopted.
LEMMA AdoptedStays ==
  ASSUME BackupInv, AdoptionTypeOK, OneWriter, LandingInv, Others
  PROVE  /\ restored \subseteq restored' /\ restored' \subseteq Pages
         /\ \A q \in Pages \ (Passing \cup restored') : file'[q].adopted = file[q].adopted
         /\ \A q \in Pages \ (Passing \cup restored') :
              \/ file'[q] = file[q]
              \/ \E v \in Saves : phase[v] = "queued" /\ phase'[v] # "queued" /\ at[v] = q
<1>0. TypeOK /\ SafetyInv /\ SaveInv /\ Next
  BY DEF BackupInv, Others
<1>1. restored \subseteq restored' /\ restored' \subseteq Pages
  BY <1>0, Apart DEF Others, AdoptionTypeOK, TypeOK
<1>2. CASE UNCHANGED file
  BY <1>1, <1>2
<1>3. ASSUME NEW r \in Restores, NEW p \in Pages, RestorePage(r, p)
      PROVE  \A q \in Pages \ (Passing \cup restored') : file'[q] = file[q]
  <2>1. /\ phase'[r] = phase[r] /\ phase[r] = "restoring" /\ p \in todo[r] /\ p \notin todo'[r]
        /\ \A q \in Pages \ {p} : file'[q] = file[q]
    BY <1>0, <1>3, Apart DEF RestorePage, Put, TypeOK
  <2>2. p \in restored'
    BY <2>1 DEF Others
  <2> QED BY <2>1, <2>2
<1>4. ASSUME NEW v \in Saves, LandSave(v)
      PROVE  /\ phase[v] = "queued" /\ phase'[v] # "queued" /\ at[v] \in Pages
             /\ \A q \in Pages \ {at[v]} : file'[q] = file[q]
             /\ at[v] \notin restored \cup Passing => file'[at[v]].adopted = file[at[v]].adopted
  <2> DEFINE new == [base[v] EXCEPT !.text = v]
  <2>1. phase[v] = "queued" /\ Put(at[v], new)
    BY <1>4 DEF LandSave
  <2>2. at[v] \in Pages /\ base[v] \in Content
    BY <1>0, <2>1 DEF SaveInv
  <2>3. new \in Content /\ new.adopted = base[v].adopted
    BY <2>2 DEF Content
  <2>4. phase'[v] = "done"
    BY <1>0, <1>4, Apart DEF LandSave, Goto, TypeOK
  <2> HIDE DEF new
  <2>5. file'[at[v]] = new /\ \A q \in Pages \ {at[v]} : file'[q] = file[q]
    BY <1>0, <2>1, <2>2, <2>3, PutTypes
  <2>6. at[v] \notin restored \cup Passing => file[at[v]] = base[v]
    BY <2>1 DEF LandingInv
  <2> QED BY <2>1, <2>2, <2>3, <2>4, <2>5, <2>6
<1>5. ASSUME NEW d \in Deletions, NEW p \in Passing, RemovePage(d, p)
      PROVE  \A q \in Pages \ Passing : file'[q] = file[q]
  BY <1>0, <1>5 DEF RemovePage, TypeOK
<1>6. ASSUME NEW p \in Passing, Arrive(p)
      PROVE  \A q \in Pages \ Passing : file'[q] = file[q]
  BY <1>0, <1>6 DEF Arrive, Put, TypeOK
<1> QED BY <1>0, <1>1, <1>2, <1>3, <1>4, <1>5, <1>6, PagesWritten

LEMMA OthersStages ==
  ASSUME BackupInv, AdoptionTypeOK, StageInv, OneWriter, Others
  PROVE  /\ UNCHANGED <<journal, landed, exposed>>
         /\ AdoptionTypeOK' /\ StageInv' /\ OneWriter'
<1>0. TypeOK /\ SafetyInv /\ SaveInv /\ Next /\ UNCHANGED <<landed, exposed>>
  BY DEF BackupInv, Others
<1>1. UNCHANGED journal /\ \A m \in Adoptions : Left(m)
  BY <1>0, OthersLeave
<1>2. TypeOK'
  BY BackupStep, <1>0 DEF BackupInv
<1>3. \A m \in Adoptions : /\ Running(m)' => Running(m)
                           /\ Writing(m)' => Writing(m) /\ phase'[m] = phase[m]
                           /\ phase'[m] = "landing" => phase[m] = "landing" /\ at'[m] = at[m]
  BY <1>1 DEF Running, Writing, Left, Making
<1>4. AdoptionTypeOK'
  <2>1. restored' \subseteq Pages
    BY <1>0, Apart DEF Others, AdoptionTypeOK, TypeOK
  <2>2. \A m \in Adoptions : Writing(m)' => "pending" \in journal'[m]
    BY <1>1, <1>3 DEF AdoptionTypeOK
  <2> QED BY <1>0, <1>2, <2>1, <2>2 DEF AdoptionTypeOK
<1>5. StageInv'
  <2> SUFFICES ASSUME NEW m \in Adoptions PROVE Stage(m)'
    BY DEF StageInv
  <2>1. Left(m) /\ journal'[m] = journal[m] /\ landed'[m] = landed[m]
    BY <1>0, <1>1
  <2>2. phase'[m] = "idle" <=> phase[m] = "idle"
    BY <2>1 DEF Left, Making
  <2>3. phase'[m] # "idle" => Items \cup Actors \subseteq Holding(plan'[m])
    BY <2>1, <2>2 DEF Left, StageInv, Stage
  <2>4. journal[m] # {} => /\ copied'[m] = plan'[m]
                           /\ Writing(m)' \/ phase'[m] \in {"done", "failed"}
    BY <2>1 DEF Left, Making, StageInv, Stage, Writing
  <2>5. phase'[m] = "receipt" => "committed" \in journal'[m]
    BY <2>1 DEF Left, Making, StageInv, Stage
  <2>6. phase'[m] \in {"adopting", "landing", "checking"} =>
          phase[m] = phase'[m] /\ todo'[m] = todo[m] /\ plan'[m] = plan[m] /\ at'[m] = at[m]
    BY <2>1 DEF Left, Making
  <2> QED BY <2>1, <2>3, <2>4, <2>5, <2>6 DEF StageInv, Stage
<1>6. OneWriter'
  <2>1. ASSUME NEW v \in Saves, NEW w \in Saves, phase'[v] = "queued", phase'[w] = "queued",
               at'[v] = at'[w], v # w
        PROVE  FALSE
    <3>1. /\ at[v] = at[w]
          /\ phase[v] = "queued" \/ CheckSave(v)
          /\ phase[w] = "queued" \/ CheckSave(w)
      BY <1>0, <2>1, SavesQueued
    <3>2. ~(CheckSave(v) /\ CheckSave(w))
      BY <1>0, <2>1, Apart DEF CheckSave, Goto, TypeOK
    <3>3. ~(CheckSave(v) /\ phase[w] = "queued") /\ ~(CheckSave(w) /\ phase[v] = "queued")
      BY <3>1 DEF CheckSave, InQueue
    <3> QED BY <2>1, <3>1, <3>2, <3>3 DEF OneWriter
  <2>2. ASSUME NEW v \in Saves, NEW m \in Adoptions, phase'[v] = "queued", phase'[m] = "landing",
               at'[v] = at'[m]
        PROVE  FALSE
    <3>1. /\ at'[v] = at[v] /\ at'[m] = at[m] /\ phase[m] = "landing"
          /\ phase[v] = "queued" \/ CheckSave(v)
      BY <1>0, <1>3, <2>2, SavesQueued
    <3>2. ~CheckSave(v)
      BY <2>2, <3>1 DEF CheckSave, InQueue
    <3> QED BY <2>2, <3>1, <3>2 DEF OneWriter
  <2>3. \A m, n \in Adoptions : Running(m)' /\ Running(n)' => m = n
    BY <1>3 DEF OneWriter
  <2> QED BY <2>1, <2>2, <2>3 DEF OneWriter
<1> QED BY <1>0, <1>1, <1>4, <1>5, <1>6

LEMMA OthersPages ==
  ASSUME BackupInv, AdoptionTypeOK, StageInv, OneWriter, LandingInv, ActorsFollowItems, Others
  PROVE  LandingInv' /\ ActorsFollowItems'
<1>0. TypeOK /\ SafetyInv /\ SaveInv /\ Next /\ \A m \in Adoptions : Left(m)
  BY OthersLeave DEF BackupInv, Others
<1>1. /\ restored \subseteq restored' /\ restored' \subseteq Pages
      /\ \A q \in Pages \ (Passing \cup restored') : file'[q].adopted = file[q].adopted
      /\ \A q \in Pages \ (Passing \cup restored') :
           \/ file'[q] = file[q]
           \/ \E v \in Saves : phase[v] = "queued" /\ phase'[v] # "queued" /\ at[v] = q
  BY AdoptedStays
<1>2. ActorsFollowItems'
  BY <1>1, AdoptionAssumption DEF ActorsFollowItems
<1>3. ASSUME NEW v \in Saves, phase'[v] = "queued"
      PROVE  file'[at'[v]] = base'[v] \/ at'[v] \in restored' \cup Passing
  <2>1. /\ at'[v] = at[v] /\ base'[v] = base[v]
        /\ phase[v] = "queued" \/ CheckSave(v)
    BY <1>0, <1>3, SavesQueued
  <2>2. CASE phase[v] = "queued"
    <3>1. at[v] \in Pages
      BY <1>0, <2>2 DEF SaveInv
    <3>2. \A w \in Saves : phase[w] = "queued" /\ at[w] = at[v] => w = v
      BY <2>2 DEF OneWriter
    <3>3. file'[at[v]] = file[at[v]] \/ at[v] \in restored' \cup Passing
      BY <1>1, <1>3, <3>1, <3>2
    <3> QED BY <1>1, <2>1, <2>2, <3>3 DEF LandingInv, Landing
  <2>3. CASE CheckSave(v)
    BY <2>1, <2>3 DEF CheckSave, pageVars
  <2> QED BY <2>1, <2>2, <2>3
<1>4. ASSUME NEW m \in Adoptions, phase'[m] = "landing"
      PROVE  /\ file'[at'[m]] = plan'[m][at'[m]] \/ at'[m] \in restored'
             /\ at'[m] \in Actors => \A i \in ItemsOf[at'[m]] \ restored' : file'[i].adopted
  <2>1. phase[m] = "landing" /\ at'[m] = at[m] /\ plan'[m] = plan[m]
    BY <1>0, <1>4 DEF Left, Making
  <2>2. at[m] \in Pages \ Passing
    BY <2>1, PlannedPages DEF StageInv, Stage
  <2>3. \A w \in Saves : phase[w] = "queued" => at[w] # at[m]
    BY <2>1 DEF OneWriter
  <2>4. file'[at[m]] = file[at[m]] \/ at[m] \in restored'
    BY <1>1, <2>2, <2>3
  <2>5. file'[at'[m]] = plan'[m][at'[m]] \/ at'[m] \in restored'
    BY <1>1, <2>1, <2>4 DEF LandingInv, Landing
  <2>6. at[m] \in Actors => \A i \in ItemsOf[at[m]] \ restored' : file'[i].adopted
    BY <1>1, <2>1, AdoptionAssumption DEF LandingInv, Landing
  <2> QED BY <2>1, <2>5, <2>6
<1> QED BY <1>2, <1>3, <1>4 DEF LandingInv, Landing

\* No backup of an unresolved adoption is written to, and no cleaner decides to
\* remove it.
LEMMA OthersSources ==
  ASSUME BackupInv, StageInv, SourceInv, Others
  PROVE  SourceInv'
<1> USE Apart DEF Goto, pageVars, storeVars, callVars
<1>0. TypeOK /\ SafetyInv /\ Next /\ UNCHANGED exposed
  BY DEF BackupInv, Others
<1>1. UNCHANGED journal
  BY <1>0, OthersLeave
<1> SUFFICES ASSUME NEW m \in Adoptions, Unresolved(m), m \notin exposed
             PROVE  /\ store'[m] = store[m] /\ copied'[m] = copied[m]
                    /\ \A c \in Cleaners : doomed'[c] # m
  <2>1. /\ \A m \in Adoptions : Unresolved(m)' <=> Unresolved(m)
        /\ \A m \in Adoptions : store'[m] = store[m] /\ copied'[m] = copied[m] =>
             (Complete(m)' <=> Complete(m))
    BY <1>1 DEF Unresolved, Complete, HasManifest
  <2> QED BY <1>0, <2>1 DEF SourceInv
<1>2. Complete(m) /\ \A c \in Cleaners : doomed[c] # m
  BY DEF SourceInv
<1>3. m \in Protected /\ ~Unlisted(m)
  <2>1. m \in Protected
    BY DEF Unresolved, Protected
  <2>2. journal[m] # {}
    BY DEF Unresolved
  <2> QED BY <2>1, <2>2 DEF StageInv, Stage, Unlisted, Unstamped, Writing
<1>10. copied'[m] = copied[m]
  BY <1>0, <1>3, OthersLeave DEF Left, Unlisted, Unstamped
<1>4. m # None
  OBVIOUS
<1>5. ASSUME NEW s \in Snapshots, MakeBackup(s)
      PROVE  store'[m] = store[m] /\ UNCHANGED doomed
  <2>1. ASSUME NEW pages \in SUBSET Pages, NEW manifest \in BOOLEAN, PutInto(s, pages, manifest),
               phase[s] \in {"reading", "copying"}
        PROVE  store'[m] = store[m]
    <3>1. s # m
      BY <1>3, <2>1 DEF Unlisted, Unstamped
    <3> QED BY <1>0, <2>1, <3>1 DEF PutInto, TypeOK
  <2>2. CASE BeginBackup(s) \/ Verify(s) \/ BackupFails(s) \/ \E p \in Pages : ReadPage(s, p)
    BY <2>2 DEF BeginBackup, Verify, BackupFails, ReadPage
  <2>3. CASE MakeDirectory(s) \/ WriteManifest(s) \/ \E p \in Pages : CopyPage(s, p)
    BY <2>1, <2>3 DEF MakeDirectory, WriteManifest, CopyPage
  <2> QED BY <1>5, <2>2, <2>3 DEF MakeBackup
<1>6. ASSUME NEW r \in Restores, Restore(r)
      PROVE  UNCHANGED <<store, doomed>>
  BY <1>6 DEF Restore, BeginRestore, StartWriting, FinishRestore, RestoreStops, RestorePage
<1>7. ASSUME NEW c \in Cleaners, Clean(c)
      PROVE  store'[m] = store[m] /\ \A d \in Cleaners : doomed'[d] # m
  <2>1. CASE RemoveVictim(c)
    BY <1>0, <1>2, <1>4, <2>1 DEF RemoveVictim, TypeOK
  <2>5. CASE RemoveEntries(c)
    <3>1. UNCHANGED doomed
      BY <2>5 DEF RemoveEntries
    <3> QED BY <1>0, <1>2, <2>5, <3>1, EntriesTypes
  <2>2. CASE CheckVictim(c)
    BY <1>0, <1>2, <1>3, <1>4, <2>2 DEF CheckVictim, TypeOK
  <2>3. CASE RemovalFails(c)
    BY <1>0, <1>2, <1>4, <2>3 DEF RemovalFails, TypeOK
  <2>4. CASE ListOld(c) \/ ShowIncomplete(c) \/ ConfirmSweep(c) \/ EndCleaning(c)
    BY <1>2, <2>4 DEF ListOld, ShowIncomplete, ConfirmSweep, EndCleaning
  <2> QED BY <1>7, <2>1, <2>2, <2>3, <2>4, <2>5 DEF Clean
<1>8. ASSUME NEW v \in Saves, Save(v)
      PROVE  UNCHANGED <<store, doomed>>
  BY <1>8 DEF Save, OpenPage, CheckSave, LandSave, SaveFails
<1>9. ASSUME Restart
      PROVE  UNCHANGED store /\ \A c \in Cleaners : doomed'[c] = None
  BY <1>9 DEF Restart
<1>11. ASSUME NEW d \in Deletions, Delete(d)
      PROVE  UNCHANGED <<store, doomed>>
  BY <1>11 DEF Delete, RemovePage, Unlist
<1>12. ASSUME NEW p \in Passing, Arrive(p)
      PROVE  UNCHANGED <<store, doomed>>
  BY <1>12 DEF Arrive
<1> QED BY <1>0, <1>2, <1>4, <1>5, <1>6, <1>7, <1>8, <1>9, <1>10, <1>11, <1>12 DEF Next, Step

LEMMA OthersStep ==
  ASSUME AdoptionInv, Others
  PROVE  AdoptionInv'
<1>1. BackupInv'
  BY BackupStep DEF AdoptionInv, Others
<1> QED BY <1>1, OthersStages, OthersPages, OthersSources DEF AdoptionInv

-----------------------------------------------------------------------------
(***************************************************************************)
(* The adoptions' own steps.                                               *)
(***************************************************************************)
\* A step of an adoption leaves the other calls, their records and every backup
\* alone; of what it writes the restores hear, and no file goes.
Alone(m) ==
  /\ \A c \in Calls \ {m} : phase'[c] = phase[c]
  /\ \A s \in Snapshots \ {m} : todo'[s] = todo[s]
  /\ \A n \in (Restores \cup Adoptions) \ {m} : plan'[n] = plan[n]
  /\ \A n \in Writers \ {m} : at'[n] = at[n]
  /\ \A n \in Adoptions \ {m} : journal'[n] = journal[n] /\ landed'[n] = landed[n]
  /\ UNCHANGED <<base, store, stamped, swept, cleared, copied, victims, doomed>>
  /\ \A r \in Restores : phase[r] \notin {"idle", "done", "failed"} => Hears(r)
  /\ Pages \ Passing \subseteq Holding(file') \cap Holding(loaded')

\* How it may go on with its backup and its records.
Proceeds(m) ==
  /\ Begun(m) \/ Over(m) \/ Made(m)
  /\ Stage(m)'
  /\ Writing(m)' => "pending" \in journal'[m]
  /\ Running(m)' => Running(m) \/ NoneRuns
  /\ phase'[m] = "landing" => \A v \in Saves : phase[v] = "queued" => at[v] # at'[m]
  /\ Unresolved(m)' /\ m \notin exposed' =>
       \/ Unresolved(m) /\ m \notin exposed
       \/ Complete(m) /\ \A c \in Cleaners : doomed[c] # m

LEMMA AdoptFrame ==
  ASSUME AdoptionInv, NEW m \in Adoptions, TypeOK', Alone(m), Proceeds(m),
         landed' \in [Adoptions -> SUBSET Pages], restored' \subseteq Pages,
         exposed' \subseteq Adoptions, exposed \subseteq exposed'
  PROVE  BackupInv' /\ AdoptionTypeOK' /\ StageInv' /\ OneWriter' /\ SourceInv'
<1> USE Apart
<1>0. BackupInv /\ SafetyInv /\ SaveInv
  BY DEF AdoptionInv, BackupInv
<1>1. BackupInv'
  <2>1. \A s \in Snapshots : Unmoved(s) \/ Begun(s) \/ Over(s) \/ Made(s)
    BY DEF Alone, Proceeds, Unmoved
  <2>2. UNCHANGED <<store, stamped, swept, cleared, copied, victims, doomed>>
    BY DEF Alone
  <2>3. StampInv' /\ CopyInv' /\ ManifestMeansComplete' /\ VictimInv'
    BY <1>0, <2>1, <2>2, QuietStep
  <2>4. \A r \in Restores : phase'[r] \in {"idle", "done", "failed"} \/ Watching(r)
    BY DEF Alone, Watching
  <2>5. SafetyInv'
    BY <1>0, <2>2, <2>4, SafetyFrame
  <2>6. SaveInv'
    BY <1>0, SaveFrame DEF Alone
  <2> QED BY <2>3, <2>5, <2>6 DEF BackupInv
<1>2. AdoptionTypeOK'
  BY DEF AdoptionInv, AdoptionTypeOK, Alone, Proceeds, Writing
<1>3. StageInv'
  <2> SUFFICES ASSUME NEW n \in Adoptions, n # m PROVE Stage(n)'
    BY DEF StageInv, Proceeds
  <2>1. Stage(n)
    BY DEF AdoptionInv, StageInv
  <2>2. /\ phase'[n] = phase[n] /\ plan'[n] = plan[n] /\ journal'[n] = journal[n]
        /\ landed'[n] = landed[n] /\ todo'[n] = todo[n] /\ at'[n] = at[n] /\ copied' = copied
    BY DEF Alone
  <2> QED BY <2>1, <2>2 DEF Stage, Writing
<1>4. OneWriter'
  <2>1. \A v \in Saves : phase'[v] = phase[v] /\ at'[v] = at[v]
    BY DEF Alone
  <2>2. \A n \in Adoptions \ {m} : phase'[n] = phase[n] /\ at'[n] = at[n]
    BY DEF Alone
  <2>3. ASSUME NEW n \in Adoptions, n # m, Running(n)' PROVE ~Running(m)'
    BY <2>2, <2>3 DEF AdoptionInv, OneWriter, Proceeds, NoneRuns, Running
  <2>4. \A n, o \in Adoptions : Running(n)' /\ Running(o)' => n = o
    BY <2>2, <2>3 DEF AdoptionInv, OneWriter, Running
  <2> QED BY <2>1, <2>2, <2>4 DEF AdoptionInv, OneWriter, Proceeds
<1>5. SourceInv'
  <2> SUFFICES ASSUME NEW n \in Adoptions, Unresolved(n)', n \notin exposed'
               PROVE  Complete(n) /\ \A c \in Cleaners : doomed[c] # n
    BY DEF SourceInv, Alone, Complete, HasManifest
  <2>1. CASE n = m
    BY <2>1 DEF Proceeds, AdoptionInv, SourceInv
  <2>2. CASE n # m
    BY <2>2 DEF Alone, Unresolved, AdoptionInv, SourceInv
  <2> QED BY <2>1, <2>2
<1> QED BY <1>1, <1>2, <1>3, <1>4, <1>5

\* Where it writes no page, what is about to be replaced stays what it was.
LEMMA AdoptPages ==
  ASSUME AdoptionInv, NEW m \in Adoptions, Alone(m), UNCHANGED <<file, restored>>,
         phase'[m] = "landing" => Landing(m)'
  PROVE  LandingInv' /\ ActorsFollowItems'
<1> USE Apart
<1>1. ActorsFollowItems'
  BY DEF AdoptionInv, ActorsFollowItems
<1>2. \A v \in Saves : phase'[v] = phase[v] /\ at'[v] = at[v] /\ base' = base
  BY DEF Alone
<1>3. \A n \in Adoptions \ {m} : phase'[n] = phase[n] /\ at'[n] = at[n] /\ plan'[n] = plan[n]
  BY DEF Alone
<1>4. ASSUME NEW n \in Adoptions, phase'[n] = "landing" PROVE Landing(n)'
  <2>1. CASE n = m
    BY <1>4, <2>1
  <2>2. CASE n # m
    BY <1>3, <1>4, <2>2 DEF AdoptionInv, LandingInv, Landing
  <2> QED BY <2>1, <2>2
<1> QED BY <1>1, <1>2, <1>4 DEF AdoptionInv, LandingInv

\* It writes no page.
LEMMA QuietFiles ==
  ASSUME AdoptionInv, UNCHANGED <<file, loaded, missed>>
  PROVE  /\ \A r \in Restores : Hears(r)
         /\ Pages \ Passing \subseteq Holding(file') \cap Holding(loaded')
BY StillHears, FilesStay DEF AdoptionInv, BackupInv

LEMMA PreviewStep ==
  ASSUME AdoptionInv, NEW m \in Adoptions, Preview(m)
  PROVE  AdoptionInv'
<1> USE Apart DEF Goto, pageVars, storeVars, adoptionVars
<1>0. TypeOK /\ AdoptionTypeOK /\ Stage(m)
  BY DEF AdoptionInv, AdoptionTypeOK, StageInv
<1>1. /\ phase[m] = "idle" /\ phase'[m] = "previewed" /\ plan'[m] = file
      /\ Items \cup Actors \subseteq Holding(plan'[m])
      /\ UNCHANGED <<file, loaded, missed, restored, landed, exposed, journal>>
  <2>1. Items \cup Actors \subseteq Holding(file)
    BY AdoptionAssumption DEF AdoptionInv, BackupInv, SaveInv
  <2> QED BY <1>0, <2>1 DEF Preview, TypeOK
<1>2. TypeOK'
  BY <1>0 DEF Preview, TypeOK, Phases, Option
<1>3. Alone(m)
  BY <1>0, <1>1, QuietFiles DEF Preview, Alone, TypeOK
<1>4. journal[m] = {} /\ landed[m] = {}
  BY <1>0, <1>1 DEF Stage, Writing
<1>5. Proceeds(m)
  <2>1. Begun(m) /\ Stage(m)'
    BY <1>1, <1>4 DEF Begun, Unstamped, Stage
  <2> QED BY <1>1, <1>4, <2>1 DEF Proceeds, Writing, Running, Unresolved
<1>6. BackupInv' /\ AdoptionTypeOK' /\ StageInv' /\ OneWriter' /\ SourceInv'
  BY <1>0, <1>1, <1>2, <1>3, <1>5, AdoptFrame DEF AdoptionTypeOK
<1> QED BY <1>1, <1>3, <1>6, AdoptPages DEF AdoptionInv

LEMMA ExecuteStep ==
  ASSUME AdoptionInv, NEW m \in Adoptions, Execute(m)
  PROVE  AdoptionInv'
<1> USE Apart DEF Goto, pageVars, storeVars, adoptionVars
<1>0. TypeOK /\ AdoptionTypeOK /\ Stage(m)
  BY DEF AdoptionInv, AdoptionTypeOK, StageInv
<1>1. /\ phase[m] = "previewed" /\ phase'[m] = "reading" /\ NoneRuns
      /\ UNCHANGED <<file, loaded, missed, restored, landed, exposed, journal, plan>>
  BY <1>0 DEF Execute, TypeOK
<1>2. TypeOK'
  BY <1>0 DEF Execute, TypeOK, Holding, Phases
<1>3. Alone(m)
  BY <1>0, <1>1, QuietFiles DEF Execute, Alone, TypeOK
<1>4. journal[m] = {} /\ landed[m] = {}
  BY <1>0, <1>1 DEF Stage, Writing
<1>5. Proceeds(m)
  <2>1. Begun(m) /\ Stage(m)'
    BY <1>0, <1>1, <1>4 DEF Begun, Unstamped, Stage
  <2> QED BY <1>1, <1>4, <2>1 DEF Proceeds, Writing, Running, Unresolved
<1>6. BackupInv' /\ AdoptionTypeOK' /\ StageInv' /\ OneWriter' /\ SourceInv'
  BY <1>0, <1>1, <1>2, <1>3, <1>5, AdoptFrame DEF AdoptionTypeOK
<1> QED BY <1>1, <1>3, <1>6, AdoptPages DEF AdoptionInv

\* The record names a backup that is complete, or its removal was decided.
LEMMA BeginJournalStep ==
  ASSUME AdoptionInv, NEW m \in Adoptions, BeginJournal(m)
  PROVE  AdoptionInv'
<1> USE Apart DEF Goto, pageVars, storeVars
<1>0. TypeOK /\ AdoptionTypeOK /\ Stage(m) /\ CopyInv
  BY DEF AdoptionInv, AdoptionTypeOK, StageInv, BackupInv
<1>1. /\ phase[m] = "made" /\ phase'[m] = "adopting" /\ todo'[m] = Planned(plan[m])
      /\ journal'[m] = journal[m] \cup {"pending"} /\ copied[m] = plan[m]
      /\ exposed' = IF ~Complete(m) \/ \E c \in Cleaners : doomed[c] = m
                    THEN exposed \cup {m} ELSE exposed
      /\ UNCHANGED <<file, loaded, missed, restored, landed, plan, copied>>
  BY <1>0 DEF BeginJournal, BackedUp, TypeOK
<1>2. TypeOK'
  <2>1. Planned(plan[m]) \subseteq Pages
    BY PlannedPages
  <2> QED BY <1>0, <2>1 DEF BeginJournal, TypeOK, Phases
<1>3. Alone(m)
  BY <1>0, <1>1, QuietFiles DEF BeginJournal, Alone, TypeOK
<1>4. journal[m] = {} /\ landed[m] = {}
  BY <1>0, <1>1 DEF Stage, Writing
<1>5. Proceeds(m)
  <2>1. Complete(m) \/ m \in swept \cup cleared
    BY <1>0, <1>1 DEF CopyInv
  <2>2. Made(m)
    BY <1>1, <2>1 DEF Made, Unlisted, Unstamped
  <2>3. Stage(m)'
    BY <1>0, <1>1, <1>4 DEF Stage, Writing
  <2> QED BY <1>1, <2>1, <2>2, <2>3 DEF Proceeds, Writing, Running
<1>6. exposed' \subseteq Adoptions /\ exposed \subseteq exposed'
  BY <1>0, <1>1 DEF AdoptionTypeOK
<1>7. BackupInv' /\ AdoptionTypeOK' /\ StageInv' /\ OneWriter' /\ SourceInv'
  BY <1>0, <1>1, <1>2, <1>3, <1>5, <1>6, AdoptFrame DEF AdoptionTypeOK
<1> QED BY <1>1, <1>3, <1>7, AdoptPages DEF AdoptionInv

LEMMA AdoptionBlockedStep ==
  ASSUME AdoptionInv, NEW m \in Adoptions, AdoptionBlocked(m)
  PROVE  AdoptionInv'
<1> USE Apart DEF storeVars, adoptionVars
<1>0. TypeOK /\ AdoptionTypeOK /\ Stage(m)
  BY DEF AdoptionInv, AdoptionTypeOK, StageInv
<1>1. /\ phase[m] \in {"previewed", "made"} /\ Stop({m})
      /\ UNCHANGED <<file, loaded, restored, landed, exposed, journal, copied, store, stamped, swept, cleared, victims,
                     doomed, restarts>>
  BY DEF AdoptionBlocked
<1>2. /\ phase'[m] = "failed" /\ plan'[m] = plan[m]
      /\ \A c \in Calls \ {m} : phase'[c] = phase[c]
      /\ UNCHANGED <<base, missed>>
  BY <1>0, <1>1, StopTypes DEF TypeOK
<1>3. TypeOK'
  <2>1. \A c \in Cleaners : doomed[c] # None => phase'[c] = "cleaning"
    BY <1>0, <1>2 DEF TypeOK
  <2> QED BY <1>0, <1>1, <2>1, StopTypes DEF TypeOK
<1>4. Alone(m)
  BY <1>0, <1>1, <1>2, StopTypes, QuietFiles DEF Alone
<1>5. journal[m] = {} /\ landed[m] = {}
  BY <1>0, <1>1 DEF Stage, Writing
<1>6. Proceeds(m)
  <2>1. Over(m) /\ Stage(m)'
    BY <1>0, <1>1, <1>2, <1>5 DEF Over, Stage
  <2> QED BY <1>1, <1>2, <1>5, <2>1 DEF Proceeds, Writing, Running, Unresolved
<1>7. BackupInv' /\ AdoptionTypeOK' /\ StageInv' /\ OneWriter' /\ SourceInv'
  BY <1>0, <1>1, <1>3, <1>4, <1>6, AdoptFrame DEF AdoptionTypeOK
<1> QED BY <1>1, <1>2, <1>4, <1>7, AdoptPages DEF AdoptionInv

\* The page is what was checked, and no other write of it is queued.
LEMMA ValidatePageStep ==
  ASSUME AdoptionInv, NEW m \in Adoptions, NEW p \in Pages, ValidatePage(m, p)
  PROVE  AdoptionInv'
<1> USE Apart DEF Goto, pageVars, storeVars, adoptionVars
<1>0. TypeOK /\ AdoptionTypeOK /\ Stage(m) /\ CopyInv
  BY DEF AdoptionInv, AdoptionTypeOK, StageInv, BackupInv
<1>1. /\ phase[m] = "adopting" /\ phase'[m] = "landing" /\ p \in todo[m] /\ at'[m] = p
      /\ UNCHANGED <<file, loaded, missed, restored, landed, exposed, journal, copied, plan, todo>>
  BY <1>0 DEF ValidatePage, TypeOK
<1>2. TypeOK'
  BY <1>0 DEF ValidatePage, TypeOK, Phases, Option
<1>3. Alone(m)
  BY <1>0, <1>1, QuietFiles DEF ValidatePage, Alone, TypeOK
<1>4. Proceeds(m)
  <2>1. Complete(m) \/ m \in swept \cup cleared
    BY <1>0, <1>1 DEF CopyInv
  <2>2. Made(m) /\ Stage(m)'
    BY <1>0, <1>1, <2>1 DEF Made, Unlisted, Unstamped, Stage, Writing
  <2>3. "pending" \in journal'[m]
    BY <1>0, <1>1 DEF AdoptionTypeOK, Writing
  <2>4. \A v \in Saves : phase[v] = "queued" => at[v] # p
    BY DEF ValidatePage, InQueue
  <2>5. Unresolved(m)' => Unresolved(m)
    BY <1>1 DEF Unresolved
  <2> QED BY <1>1, <2>2, <2>3, <2>4, <2>5 DEF Proceeds, Running
<1>5. Landing(m)'
  <2>1. file[p] = plan[m][p]
    BY <1>0, <1>1 DEF ValidatePage, WorkspaceAsExpected, Expected, Stage
  <2>2. p \in Actors => \A i \in ItemsOf[p] : file[i].adopted
    BY DEF ValidatePage, MayFollow, DependenciesLanded
  <2> QED BY <1>1, <2>1, <2>2 DEF Landing
<1>6. BackupInv' /\ AdoptionTypeOK' /\ StageInv' /\ OneWriter' /\ SourceInv'
  BY <1>0, <1>1, <1>2, <1>3, <1>4, AdoptFrame DEF AdoptionTypeOK
<1> QED BY <1>1, <1>3, <1>5, <1>6, AdoptPages DEF AdoptionInv

\* An item is adopted at once; of an actor the items are adopted by then.
LEMMA LandPageStep ==
  ASSUME AdoptionInv, NEW m \in Adoptions, LandPage(m)
  PROVE  AdoptionInv'
<1> USE Apart DEF Goto, storeVars, callVars
<1> DEFINE q == at[m]
           x == Target(m, q)
<1>0. TypeOK /\ AdoptionTypeOK /\ Stage(m) /\ CopyInv
  BY DEF AdoptionInv, AdoptionTypeOK, StageInv, BackupInv
<1>1. /\ phase[m] = "landing" /\ phase'[m] = "checking" /\ Put(q, x) /\ restored' = restored \ {q}
      /\ loaded' = [loaded EXCEPT ![q] = x]
      /\ UNCHANGED <<landed, exposed, journal, copied, plan, todo, at>>
  BY <1>0 DEF LandPage, TypeOK
<1>2. q \in Pages /\ x \in Content /\ x.adopted
  <2>1. q \in Planned(plan[m]) /\ Items \cup Actors \subseteq Holding(plan[m])
    BY <1>0, <1>1 DEF Stage
  <2>2. q \in Pages
    BY <2>1, PlannedPages
  <2>3. x = [plan[m][q] EXCEPT !.adopted = TRUE]
    BY <2>1 DEF Target, Adopted
  <2> HIDE DEF x
  <2>4. plan[m][q] \in Content
    BY <1>0, <2>1, <2>2, PlannedPages DEF Holding, TypeOK, Option
  <2> QED BY <2>2, <2>3, <2>4 DEF Content
<1> HIDE DEF x
<1>3. /\ file' \in [Pages -> Option(Content)] /\ missed' \in [Restores -> SUBSET Pages]
      /\ file'[q] = x /\ \A p \in Pages \ {q} : file'[p] = file[p]
      /\ \A r \in Restores : phase[r] \notin {"idle", "done", "failed"} => Hears(r)
      /\ Pages \ Passing \subseteq Holding(file') \cap Holding(loaded')
  <2>1. Holding(loaded) \subseteq Holding(loaded')
    BY <1>0, <1>1, <1>2, DataAssumption DEF TypeOK, Holding
  <2>2. SaveInv
    BY DEF AdoptionInv, BackupInv
  <2> QED BY <1>0, <1>1, <1>2, <2>1, <2>2, PutTypes, PutHeard DEF SaveInv, Listed
<1>4. TypeOK'
  <2>1. loaded' \in [Pages -> Option(Content)]
    BY <1>0, <1>1, <1>2 DEF TypeOK, Option
  <2> QED BY <1>0, <1>3, <2>1 DEF LandPage, TypeOK, Phases
<1>5. Alone(m)
  BY <1>0, <1>3 DEF LandPage, Alone, TypeOK
<1>6. Proceeds(m)
  <2>1. Complete(m) \/ m \in swept \cup cleared
    BY <1>0, <1>1 DEF CopyInv
  <2>2. Made(m) /\ Stage(m)'
    BY <1>0, <1>1, <2>1 DEF Made, Unlisted, Unstamped, Stage, Writing
  <2>3. "pending" \in journal'[m]
    BY <1>0, <1>1 DEF AdoptionTypeOK, Writing
  <2>4. Unresolved(m)' => Unresolved(m)
    BY <1>1 DEF Unresolved
  <2> QED BY <1>1, <2>2, <2>3, <2>4 DEF Proceeds, Running
<1>7. BackupInv' /\ AdoptionTypeOK' /\ StageInv' /\ OneWriter' /\ SourceInv'
  <2>1. restored' \subseteq Pages
    BY <1>0, <1>1 DEF AdoptionTypeOK
  <2> QED BY <1>0, <1>1, <1>4, <1>5, <1>6, <2>1, AdoptFrame DEF AdoptionTypeOK
<1>8. ActorsFollowItems'
  <2> SUFFICES ASSUME NEW a \in Actors \ restored', NEW i \in ItemsOf[a] \ restored', file'[a].adopted
               PROVE  file'[i].adopted
    BY DEF ActorsFollowItems
  <2>1. a \in Pages /\ i \in Pages /\ i \in Items /\ i \in ItemsOf[a]
    BY AdoptionAssumption
  <2>2. CASE i = q
    BY <1>2, <1>3, <2>2
  <2>3. CASE i # q /\ a = q
    BY <1>1, <1>3, <2>1, <2>3 DEF AdoptionInv, LandingInv, Landing
  <2>4. CASE i # q /\ a # q
    BY <1>1, <1>3, <2>1, <2>4 DEF AdoptionInv, ActorsFollowItems
  <2> QED BY <2>2, <2>3, <2>4
<1>9. LandingInv'
  <2>1. ASSUME NEW v \in Saves, phase'[v] = "queued"
        PROVE  file'[at'[v]] = base'[v] \/ at'[v] \in restored' \cup Passing
    <3>1. phase[v] = "queued" /\ at'[v] = at[v] /\ base'[v] = base[v]
      BY <1>5, <2>1 DEF Alone
    <3>2. at[v] # q /\ at[v] \in Pages
      BY <1>1, <3>1 DEF AdoptionInv, OneWriter, BackupInv, SaveInv
    <3> QED BY <1>1, <1>3, <3>1, <3>2 DEF AdoptionInv, LandingInv
  <2>2. ASSUME NEW n \in Adoptions, phase'[n] = "landing" PROVE FALSE
    <3>1. n # m /\ phase[n] = "landing"
      BY <1>1, <1>5, <2>2 DEF Alone
    <3> QED BY <1>1, <3>1 DEF AdoptionInv, OneWriter, Running
  <2> QED BY <2>1, <2>2 DEF LandingInv
<1> QED BY <1>7, <1>8, <1>9 DEF AdoptionInv

LEMMA VerifyPageStep ==
  ASSUME AdoptionInv, NEW m \in Adoptions, VerifyPage(m)
  PROVE  AdoptionInv'
<1> USE Apart DEF Goto, pageVars, storeVars
<1>0. TypeOK /\ AdoptionTypeOK /\ Stage(m) /\ CopyInv
  BY DEF AdoptionInv, AdoptionTypeOK, StageInv, BackupInv
<1>1. /\ phase[m] = "checking" /\ phase'[m] = "adopting" /\ landed'[m] = landed[m] \cup {at[m]}
      /\ todo'[m] = todo[m] \ {at[m]} /\ landed' = [landed EXCEPT ![m] = @ \cup {at[m]}]
      /\ UNCHANGED <<file, loaded, missed, restored, exposed, journal, copied, plan>>
  BY <1>0 DEF VerifyPage, TypeOK, AdoptionTypeOK
<1>2. TypeOK'
  BY <1>0 DEF VerifyPage, TypeOK, Phases, Option
<1>3. Alone(m)
  BY <1>0, <1>1, QuietFiles DEF VerifyPage, Alone, TypeOK, AdoptionTypeOK
<1>4. "pending" \in journal'[m] /\ journal'[m] # {}
  BY <1>0, <1>1 DEF AdoptionTypeOK, Writing
<1>5. Proceeds(m)
  <2>1. Complete(m) \/ m \in swept \cup cleared
    BY <1>0, <1>1 DEF CopyInv
  <2>2. Made(m) /\ Stage(m)'
    BY <1>0, <1>1, <1>4, <2>1 DEF Made, Unlisted, Unstamped, Stage, Writing
  <2>3. Unresolved(m)' => Unresolved(m)
    BY <1>1 DEF Unresolved
  <2> QED BY <1>1, <1>4, <2>2, <2>3 DEF Proceeds, Running
<1>6. landed' \in [Adoptions -> SUBSET Pages]
  <2>1. at[m] \in Pages
    BY <1>0, <1>1, PlannedPages DEF Stage
  <2> QED BY <1>0, <1>1, <2>1 DEF AdoptionTypeOK
<1>7. BackupInv' /\ AdoptionTypeOK' /\ StageInv' /\ OneWriter' /\ SourceInv'
  BY <1>0, <1>1, <1>2, <1>3, <1>5, <1>6, AdoptFrame DEF AdoptionTypeOK
<1> QED BY <1>1, <1>3, <1>7, AdoptPages DEF AdoptionInv

LEMMA WriteReceiptStep ==
  ASSUME AdoptionInv, NEW m \in Adoptions, WriteReceipt(m)
  PROVE  AdoptionInv'
<1> USE Apart DEF Goto, pageVars, storeVars, callVars, adoptionVars
<1>0. TypeOK /\ AdoptionTypeOK /\ Stage(m)
  BY DEF AdoptionInv, AdoptionTypeOK, StageInv
<1>1. /\ phase[m] = "adopting" /\ phase'[m] = "receipt"
      /\ journal'[m] = journal[m] \cup {"committed"}
      /\ UNCHANGED <<file, loaded, missed, restored, landed, exposed, copied, plan, todo, at>>
  BY <1>0 DEF WriteReceipt, TypeOK
<1>2. TypeOK'
  BY <1>0 DEF WriteReceipt, TypeOK, Phases
<1>3. Alone(m)
  BY <1>0, <1>1, QuietFiles DEF WriteReceipt, Alone, TypeOK
<1>4. "pending" \in journal[m]
  BY <1>0, <1>1 DEF AdoptionTypeOK, Writing
<1>5. Proceeds(m)
  <2>1. Over(m) /\ Stage(m)'
    BY <1>0, <1>1, <1>4 DEF Over, Stage, Writing
  <2> QED BY <1>1, <1>4, <2>1 DEF Proceeds, Writing, Running, Unresolved
<1>6. BackupInv' /\ AdoptionTypeOK' /\ StageInv' /\ OneWriter' /\ SourceInv'
  BY <1>0, <1>1, <1>2, <1>3, <1>5, AdoptFrame DEF AdoptionTypeOK
<1> QED BY <1>1, <1>3, <1>6, AdoptPages DEF AdoptionInv

LEMMA RemovePendingStep ==
  ASSUME AdoptionInv, NEW m \in Adoptions, RemovePending(m)
  PROVE  AdoptionInv'
<1> USE Apart DEF Goto, pageVars, storeVars, callVars, adoptionVars
<1>0. TypeOK /\ AdoptionTypeOK /\ Stage(m)
  BY DEF AdoptionInv, AdoptionTypeOK, StageInv
<1>1. /\ phase[m] = "receipt" /\ phase'[m] = "done"
      /\ journal'[m] = journal[m] \ {"pending"}
      /\ UNCHANGED <<file, loaded, missed, restored, landed, exposed, copied, plan, todo, at>>
  BY <1>0 DEF RemovePending, TypeOK
<1>2. TypeOK'
  BY <1>0 DEF RemovePending, TypeOK, Phases
<1>3. Alone(m)
  BY <1>0, <1>1, QuietFiles DEF RemovePending, Alone, TypeOK
<1>4. "committed" \in journal[m]
  BY <1>0, <1>1 DEF Stage
<1>5. Proceeds(m)
  <2>1. Over(m) /\ Stage(m)'
    BY <1>0, <1>1, <1>4 DEF Over, Stage, Writing
  <2> QED BY <1>1, <1>4, <2>1 DEF Proceeds, Writing, Running, Unresolved
<1>6. BackupInv' /\ AdoptionTypeOK' /\ StageInv' /\ OneWriter' /\ SourceInv'
  BY <1>0, <1>1, <1>2, <1>3, <1>5, AdoptFrame DEF AdoptionTypeOK
<1> QED BY <1>1, <1>3, <1>6, AdoptPages DEF AdoptionInv

LEMMA FailAdoptionStep ==
  ASSUME AdoptionInv, NEW m \in Adoptions, FailAdoption(m)
  PROVE  AdoptionInv'
<1> USE Apart DEF storeVars, adoptionVars
<1>0. TypeOK /\ AdoptionTypeOK /\ Stage(m)
  BY DEF AdoptionInv, AdoptionTypeOK, StageInv
<1>1. /\ Writing(m) /\ Stop({m})
      /\ UNCHANGED <<file, loaded, restored, landed, exposed, copied, store, stamped, swept, cleared, victims,
                     doomed, restarts>>
  BY DEF FailAdoption
<1>2. /\ phase'[m] = "failed" /\ plan'[m] = plan[m]
      /\ \A c \in Calls \ {m} : phase'[c] = phase[c]
      /\ UNCHANGED <<base, missed>>
  BY <1>0, <1>1, StopTypes DEF TypeOK
<1>3. /\ journal' \in [Adoptions -> SUBSET {"pending", "failed", "committed"}]
      /\ journal'[m] = journal[m] \/ journal'[m] = journal[m] \cup {"failed"}
      /\ \A n \in Adoptions \ {m} : journal'[n] = journal[n]
  <2>1. /\ journal \in [Adoptions -> SUBSET {"pending", "failed", "committed"}]
        /\ journal[m] \cup {"failed"} \in SUBSET {"pending", "failed", "committed"}
    BY <1>0 DEF TypeOK
  <2>2. journal' = journal \/ journal' = [journal EXCEPT ![m] = @ \cup {"failed"}]
    BY DEF FailAdoption
  <2>3. CASE journal' = journal
    BY <2>1, <2>3
  <2>4. CASE journal' = [journal EXCEPT ![m] = @ \cup {"failed"}]
    BY <2>1, <2>4
  <2> QED BY <2>2, <2>3, <2>4
<1>4. TypeOK'
  <2>1. \A c \in Cleaners : doomed[c] # None => phase'[c] = "cleaning"
    BY <1>0, <1>2 DEF TypeOK
  <2> QED BY <1>0, <1>1, <1>3, <2>1, StopTypes DEF TypeOK
<1>5. Alone(m)
  BY <1>0, <1>1, <1>2, <1>3, StopTypes, QuietFiles DEF Alone
<1>6. "pending" \in journal[m]
  BY <1>0, <1>1 DEF AdoptionTypeOK
<1>7. Proceeds(m)
  <2>1. Over(m) /\ Stage(m)'
    BY <1>0, <1>1, <1>2, <1>3, <1>6 DEF Over, Stage, Writing
  <2> QED BY <1>1, <1>2, <1>3, <1>6, <2>1 DEF Proceeds, Writing, Running, Unresolved
<1>8. BackupInv' /\ AdoptionTypeOK' /\ StageInv' /\ OneWriter' /\ SourceInv'
  BY <1>0, <1>1, <1>4, <1>5, <1>7, AdoptFrame DEF AdoptionTypeOK
<1> QED BY <1>1, <1>2, <1>5, <1>8, AdoptPages DEF AdoptionInv

\* What a resume finds done is not done again.
LEMMA ResumeStep ==
  ASSUME AdoptionInv, NEW m \in Adoptions, Resume(m)
  PROVE  AdoptionInv'
<1> USE Apart DEF Goto, pageVars, storeVars
<1> DEFINE done == {p \in Planned(plan[m]) : file[p] = Target(m, p)}
<1>0. TypeOK /\ AdoptionTypeOK /\ Stage(m)
  BY DEF AdoptionInv, AdoptionTypeOK, StageInv
<1>1. /\ phase[m] \in {"done", "failed"} /\ phase'[m] = "adopting" /\ Complete(m) /\ NoneRuns
      /\ journal[m] # {} /\ journal'[m] = journal[m] \cup {"pending"}
      /\ landed' = [landed EXCEPT ![m] = done] /\ todo'[m] = Planned(plan[m]) \ done
      /\ UNCHANGED <<file, loaded, missed, restored, exposed, copied, plan, at>>
  BY <1>0 DEF Resume, TypeOK
<1>2. Planned(plan[m]) \subseteq Pages /\ done \subseteq Planned(plan[m])
  BY PlannedPages
<1>3. TypeOK'
  <2>1. todo' \in [Snapshots -> SUBSET Pages]
    BY <1>0, <1>2 DEF Resume, TypeOK
  <2> QED BY <1>0, <2>1 DEF Resume, TypeOK, Phases
<1>4. Alone(m)
  <2>1. UNCHANGED <<plan, at>>
    BY DEF Resume
  <2> QED BY <1>0, <1>1, <2>1, QuietFiles DEF Resume, Alone, TypeOK, AdoptionTypeOK
<1> HIDE DEF done
<1>5. landed' \in [Adoptions -> SUBSET Pages] /\ landed'[m] = done
  BY <1>0, <1>1, <1>2 DEF AdoptionTypeOK
<1>6. Proceeds(m)
  <2>1. Made(m)
    BY <1>1 DEF Made, Unlisted, Unstamped
  <2>2. Stage(m)'
    BY <1>0, <1>1, <1>5 DEF Stage, Writing
  <2>3. Unresolved(m)' => Unresolved(m)
    BY <1>0, <1>1 DEF Unresolved, TypeOK
  <2> QED BY <1>1, <2>1, <2>2, <2>3 DEF Proceeds, Running
<1>7. BackupInv' /\ AdoptionTypeOK' /\ StageInv' /\ OneWriter' /\ SourceInv'
  BY <1>0, <1>1, <1>3, <1>4, <1>5, <1>6, AdoptFrame DEF AdoptionTypeOK
<1> QED BY <1>1, <1>4, <1>7, AdoptPages DEF AdoptionInv

-----------------------------------------------------------------------------
LEMMA AdoptionStep ==
  ASSUME AdoptionInv, AdoptionNext
  PROVE  AdoptionInv'
BY PreviewStep, ExecuteStep, BeginJournalStep, AdoptionBlockedStep, ValidatePageStep, LandPageStep,
   VerifyPageStep, WriteReceiptStep, RemovePendingStep, FailAdoptionStep, ResumeStep, OthersStep
   DEF AdoptionNext, Adopt

LEMMA AdoptionStutter ==
  ASSUME AdoptionInv, UNCHANGED vars
  PROVE  AdoptionInv'
<1>1. BackupInv'
  BY BackupStutter DEF AdoptionInv, vars
<1> USE DEF vars, adoptionVars, backupVars, pageVars, storeVars, callVars, AdoptionInv
<1>2. AdoptionTypeOK'
  BY <1>1 DEF AdoptionTypeOK, Writing, BackupInv
<1>3. StageInv'
  BY DEF StageInv, Stage, Writing
<1>4. OneWriter' /\ LandingInv'
  BY DEF OneWriter, Running, LandingInv, Landing
<1>5. ActorsFollowItems' /\ SourceInv'
  BY DEF ActorsFollowItems, SourceInv, Unresolved, Complete, HasManifest
<1> QED BY <1>1, <1>2, <1>3, <1>4, <1>5

LEMMA AdoptionStart == AdoptionInit => AdoptionInv
<1> SUFFICES ASSUME AdoptionInit PROVE AdoptionInv
  OBVIOUS
<1> USE Apart DEF AdoptionInit
<1>1. BackupInv
  BY BackupStart
<1> USE DEF Init
<1>2. AdoptionTypeOK /\ StageInv /\ OneWriter /\ LandingInv /\ SourceInv
  BY <1>1 DEF BackupInv, AdoptionTypeOK, StageInv, Stage, Writing, OneWriter, Running, LandingInv, SourceInv,
              Unresolved
<1>3. ActorsFollowItems
  BY AdoptionAssumption DEF ActorsFollowItems
<1> QED BY <1>1, <1>2, <1>3 DEF AdoptionInv

\* The inductive invariant of adoptions among backups, restores, cleanups, saves
\* and restarts.
THEOREM AdoptionInvariance == AdoptionSpec => []AdoptionInv
<1>1. AdoptionInv /\ [AdoptionNext]_vars => AdoptionInv'
  BY AdoptionStep, AdoptionStutter
<1> QED BY AdoptionStart, <1>1, PTL DEF AdoptionSpec

\* The types, and that no page is adopted without a pending record.
THEOREM AdoptionTypeCorrect == AdoptionSpec => []AdoptionTypeOK
<1>1. AdoptionInv => AdoptionTypeOK
  BY DEF AdoptionInv
<1> QED BY AdoptionInvariance, <1>1, PTL

\* Wherever an adoption or a resume stopped, and whatever was saved or cleared
\* away meanwhile, an adopted actor lists only adopted items, unless a restore
\* has written one of the two since.
THEOREM ItemsComeFirst == AdoptionSpec => []ActorsFollowItems
<1>1. AdoptionInv => ActorsFollowItems
  BY DEF AdoptionInv
<1> QED BY AdoptionInvariance, <1>1, PTL

\* The backup of an adoption that has neither finished nor been given up stays,
\* however many newer ones retention sees, unless its removal was decided before
\* the record was there.
THEOREM SourcesStay == AdoptionSpec => []UnresolvedKeepsSource
<1>1. AdoptionInv => UnresolvedKeepsSource
  BY DEF AdoptionInv, SourceInv, UnresolvedKeepsSource
<1> QED BY AdoptionInvariance, <1>1, PTL

\* What an adoption overwrites is what its backup holds, unless a restore wrote
\* the page after it had been checked.
THEOREM SourceIsReplaced == AdoptionSpec => AdoptionReplacesItsSource
<1> DEFINE Replaced == \A m \in Adoptions : phase[m] = "landing" /\ phase'[m] = "checking" =>
                         file[at[m]] = copied[m][at[m]] \/ at[m] \in restored
<1>1. AdoptionInv => Replaced
  <2> SUFFICES ASSUME AdoptionInv, NEW m \in Adoptions, phase[m] = "landing"
               PROVE  file[at[m]] = copied[m][at[m]] \/ at[m] \in restored
    OBVIOUS
  <2>1. journal[m] # {}
    BY DEF AdoptionInv, AdoptionTypeOK, Writing
  <2> QED BY <2>1 DEF AdoptionInv, StageInv, Stage, LandingInv, Landing
<1>2. AdoptionInv => [Replaced]_vars
  BY <1>1
<1> QED BY AdoptionInvariance, <1>2, PTL DEF AdoptionReplacesItsSource

\* What a restore overwrites is in its safety copy, unless the page was not
\* listed when that was begun or was written after it had been copied, or a
\* removal of the safety copy has begun since: among saves, deletions, cleanups
\* and restarts, and among adoptions too.
THEOREM SafetyCopyHolds ==
  /\ Spec => OverwrittenIsInSafetyCopy
  /\ AdoptionSpec => OverwrittenIsInSafetyCopy
<1> DEFINE Held == \A r \in Restores : \A p \in (todo[r] \ todo'[r]) \cap Holding(file) :
                     phase[r] = "restoring" /\ phase'[r] = "restoring" =>
                       \/ Complete(r) /\ (copied[r][p] = file[p] \/ p \in missed[r])
                       \/ r \in swept \cup cleared
<1>1. BackupInv => [Held]_backupVars
  BY OverwrittenIsHeld
<1>2. Spec => OverwrittenIsInSafetyCopy
  BY BackupInvariance, <1>1, PTL DEF OverwrittenIsInSafetyCopy
<1>3. AdoptionInv => [Held]_backupVars
  BY <1>1 DEF AdoptionInv
<1>4. AdoptionSpec => OverwrittenIsInSafetyCopy
  BY AdoptionInvariance, <1>3, PTL DEF OverwrittenIsInSafetyCopy
<1> QED BY <1>2, <1>4
=============================================================================
