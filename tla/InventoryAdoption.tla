------------------------- MODULE InventoryAdoption -------------------------
(***************************************************************************)
(* Adopting the legacy inventories (js/migration/inventoryAdoption.js),    *)
(* among backups, restores, cleanups and saves.                            *)
(*                                                                         *)
(* An adoption plans from the page files, makes a backup of them, writes a *)
(* pending record that names the backup, and then moves the quantities of  *)
(* the items and after them the inventories of the actors to their         *)
(* variables, one guarded page command each.  Whatever it has not finished *)
(* can be resumed from the record and the backup: each page then has to be *)
(* what the backup holds or what the plan makes of it.                     *)
(***************************************************************************)
EXTENDS Backups

CONSTANTS Items, Actors,
          ItemsOf   \* the items in an actor's inventory

ASSUME AdoptionAssumption ==
  /\ Items \cup Actors \subseteq Pages \ Passing /\ Items \cap Actors = {}
  /\ ItemsOf \in [Actors -> SUBSET Items]

VARIABLES
  landed,  \* the planned pages an adoption has verified
  exposed, \* history: adoptions whose backup was gone in whole or part, or its
           \* removal decided, when the pending record was written
  restored \* history: pages a restore has written since an adoption did

adoptionVars == <<landed, exposed, restored>>
vars == <<backupVars, adoptionVars>>

Adopted(x) == [x EXCEPT !.adopted = TRUE]

-----------------------------------------------------------------------------
(***************************************************************************)
(* planInventoryAdoption.                                                  *)
(***************************************************************************)
Consumers(i) == {a \in Actors : i \in ItemsOf[a]}

\* An actor is ready if all the consumers of its items that have no quantity
\* yet are: the largest set of actors of which that holds.
ReadyActors(content) ==
  LET Old(S) == {p \in S : ~content[p].adopted}
  IN UNION {R \in SUBSET Old(Actors) :
              \A a \in R : \A i \in Old(ItemsOf[a]) : Consumers(i) \subseteq R}

Planned(content) ==
  LET ready == ReadyActors(content)
  IN ready \cup {i \in Items : ~content[i].adopted /\ Consumers(i) \cap ready # {}}

Target(m, p) == IF p \in Planned(plan[m]) THEN Adopted(plan[m][p]) ELSE plan[m][p]

-----------------------------------------------------------------------------
(***************************************************************************)
(* previewInventoryAdoption, executeInventoryAdoption.                     *)
(***************************************************************************)
\* guardWorkspace: every file is as the plan has it by now.
Expected(m, p) == IF p \in landed[m] THEN Target(m, p) ELSE plan[m][p]
WorkspaceAsExpected(m) == \A p \in Pages : file[p] = Expected(m, p)

Running(m) == phase[m] \notin {"idle", "previewed", "done", "failed"}
Writing(m) == phase[m] \in {"adopting", "landing", "checking", "receipt"}
NoneRuns   == \A m \in Adoptions : ~Running(m)

Preview(m) ==
  /\ m \in Adoptions /\ phase[m] = "idle" /\ Planned(file) # {}
  /\ plan' = [plan EXCEPT ![m] = file]
  /\ Goto(m, "previewed")
  /\ UNCHANGED <<pageVars, storeVars, todo, copied, victims, doomed, at, base, journal, restarts>>
  /\ UNCHANGED adoptionVars

Execute(m) ==
  /\ phase[m] = "previewed" /\ NoneRuns
  /\ WorkspaceAsExpected(m)
  /\ \A p \in Planned(plan[m]) : loaded[p] = plan[m][p]
  /\ todo'  = [todo EXCEPT ![m] = Holding(plan[m])]
  /\ Goto(m, "reading")
  /\ UNCHANGED <<pageVars, storeVars, plan, copied, victims, doomed, at, base, journal, restarts>>
  /\ UNCHANGED adoptionVars

\* The verified copies are the planned content, and the files still are.
BackedUp(m) == copied[m] = plan[m] /\ WorkspaceAsExpected(m)

\* beginWorkspaceOperation
BeginJournal(m) ==
  /\ m \in Adoptions /\ phase[m] = "made" /\ BackedUp(m)
  /\ journal' = [journal EXCEPT ![m] = @ \cup {"pending"}]
  /\ todo'    = [todo EXCEPT ![m] = Planned(plan[m])]
  /\ Goto(m, "adopting")
  /\ exposed' = IF ~Complete(m) \/ \E c \in Cleaners : doomed[c] = m
                THEN exposed \cup {m} ELSE exposed
  /\ UNCHANGED <<pageVars, storeVars, plan, copied, victims, doomed, at, base, restarts>>
  /\ UNCHANGED <<landed, restored>>

\* Without a record of it there is nothing to mark as failed.
AdoptionBlocked(m) ==
  /\ m \in Adoptions /\ phase[m] \in {"previewed", "made"}
  /\ phase[m] = "previewed" => NoneRuns
  /\ Stop({m})
  /\ UNCHANGED <<file, loaded, storeVars, copied, victims, doomed, journal, restarts>>
  /\ UNCHANGED adoptionVars

\* verifyDependencies
DependenciesLanded(a) == \A i \in ItemsOf[a] : file[i].adopted

\* Mutant: actors are written as items are.
AnyOrder(m, p) == TRUE

\* The plan lists the items before the actors.
MayFollow(m, p) == p \in Actors => todo[m] \cap Items = {} /\ DependenciesLanded(p)

\* The page command's precondition, and the guards it repeats before its write.
ValidatePage(m, p) ==
  /\ phase[m] = "adopting" /\ p \in todo[m] /\ MayFollow(m, p) /\ ~InQueue(p)
  /\ WorkspaceAsExpected(m)
  /\ loaded[p] = plan[m][p]
  /\ at' = [at EXCEPT ![m] = p]
  /\ Goto(m, "landing")
  /\ UNCHANGED <<pageVars, storeVars, todo, plan, copied, victims, doomed, base, journal, restarts>>
  /\ UNCHANGED adoptionVars

LandPage(m) ==
  /\ m \in Adoptions /\ phase[m] = "landing"
  /\ Put(at[m], Target(m, at[m]))
  /\ loaded' = [loaded EXCEPT ![at[m]] = Target(m, at[m])]
  /\ restored' = restored \ {at[m]}
  /\ Goto(m, "checking")
  /\ UNCHANGED <<storeVars, callVars, journal, restarts, landed, exposed>>

\* verifyPage and the checkpoint
VerifyPage(m) ==
  /\ phase[m] = "checking" /\ file[at[m]] = Target(m, at[m])
  /\ landed' = [landed EXCEPT ![m] = @ \cup {at[m]}]
  /\ todo'   = [todo EXCEPT ![m] = @ \ {at[m]}]
  /\ at'     = [at EXCEPT ![m] = None]
  /\ Goto(m, "adopting")
  /\ UNCHANGED <<pageVars, storeVars, plan, copied, victims, doomed, base, journal, restarts>>
  /\ UNCHANGED <<exposed, restored>>

\* commitWorkspaceOperation: the receipt, then the pending record goes.
WriteReceipt(m) ==
  /\ m \in Adoptions /\ phase[m] = "adopting" /\ todo[m] = {} /\ WorkspaceAsExpected(m)
  /\ journal' = [journal EXCEPT ![m] = @ \cup {"committed"}]
  /\ Goto(m, "receipt")
  /\ UNCHANGED <<pageVars, storeVars, callVars, restarts, adoptionVars>>

RemovePending(m) ==
  /\ phase[m] = "receipt"
  /\ journal' = [journal EXCEPT ![m] = @ \ {"pending"}]
  /\ Goto(m, "done")
  /\ UNCHANGED <<pageVars, storeVars, callVars, restarts, adoptionVars>>

\* A guard is not met or something throws; the pending record stays, and the
\* failed one may not be written either.
FailAdoption(m) ==
  /\ m \in Adoptions /\ Writing(m)
  /\ journal' \in {journal, [journal EXCEPT ![m] = @ \cup {"failed"}]}
  /\ Stop({m})
  /\ UNCHANGED <<file, loaded, storeVars, copied, victims, doomed, restarts, adoptionVars>>

-----------------------------------------------------------------------------
(***************************************************************************)
(* resumeInventoryAdoption.                                                *)
(***************************************************************************)
\* Only what the plan makes of a page is skipped; a third state is a conflict.
SourceOrTarget(m) == \A p \in Pages : file[p] \in {plan[m][p], Target(m, p)}

\* Mutant: the pending record is not written again.
ResumeSilently(m) ==
  /\ m \in Adoptions /\ phase[m] \in {"done", "failed"} /\ journal[m] # {} /\ NoneRuns
  /\ Complete(m) /\ SourceOrTarget(m)
  /\ \A p \in Planned(plan[m]) : loaded[p] = file[p]
  /\ LET done == {p \in Planned(plan[m]) : file[p] = Target(m, p)}
     IN /\ \A a \in done \cap Actors : DependenciesLanded(a)
        /\ landed' = [landed EXCEPT ![m] = done]
        /\ todo'   = [todo EXCEPT ![m] = Planned(plan[m]) \ done]
  /\ UNCHANGED journal
  /\ Goto(m, "adopting")
  /\ UNCHANGED <<pageVars, storeVars, plan, copied, victims, doomed, at, base, restarts>>
  /\ UNCHANGED <<exposed, restored>>

Resume(m) ==
  /\ m \in Adoptions /\ phase[m] \in {"done", "failed"} /\ journal[m] # {} /\ NoneRuns
  /\ Complete(m) /\ SourceOrTarget(m)
  /\ \A p \in Planned(plan[m]) : loaded[p] = file[p]
  /\ LET done == {p \in Planned(plan[m]) : file[p] = Target(m, p)}
     IN /\ \A a \in done \cap Actors : DependenciesLanded(a)
        /\ landed' = [landed EXCEPT ![m] = done]
        /\ todo'   = [todo EXCEPT ![m] = Planned(plan[m]) \ done]
  /\ journal' = [journal EXCEPT ![m] = @ \cup {"pending"}]
  /\ Goto(m, "adopting")
  /\ UNCHANGED <<pageVars, storeVars, plan, copied, victims, doomed, at, base, restarts>>
  /\ UNCHANGED <<exposed, restored>>

-----------------------------------------------------------------------------
AdoptionInit ==
  /\ Init
  /\ landed   = [m \in Adoptions |-> {}]
  /\ exposed  = {}
  /\ restored = {}

Adopt(m) ==
  \/ Preview(m) \/ Execute(m) \/ BeginJournal(m) \/ AdoptionBlocked(m)
  \/ LandPage(m) \/ VerifyPage(m) \/ WriteReceipt(m) \/ RemovePending(m)
  \/ FailAdoption(m) \/ Resume(m)
  \/ \E p \in Pages : ValidatePage(m, p)

\* recoverInventoryAdoption is a restore that waits for adoptions to end; the
\* settings restore any backup at any time.
Others ==
  /\ Next
  /\ restored' = restored \cup
       UNION {todo[r] \ todo'[r] : r \in {r \in Restores : phase[r] = phase'[r] /\ phase[r] = "restoring"}}
  /\ UNCHANGED <<landed, exposed>>

AdoptionNext == (\E m \in Adoptions : Adopt(m)) \/ Others

AdoptionSpec == AdoptionInit /\ [][AdoptionNext]_vars

-----------------------------------------------------------------------------
Unresolved(m) == journal[m] \cap {"pending", "failed"} # {} /\ "committed" \notin journal[m]

\* With it: no page is adopted without a pending record.
AdoptionTypeOK ==
  /\ TypeOK
  /\ landed \in [Adoptions -> SUBSET Pages]
  /\ exposed \subseteq Adoptions /\ restored \subseteq Pages
  /\ \A m \in Adoptions : Writing(m) => "pending" \in journal[m]

\* "Items are durable verified before actor arrays activate": an adopted actor
\* lists only adopted items, wherever an adoption or a resume stopped - unless
\* a restore has written one of the two since.
ActorsFollowItems ==
  \A a \in Actors \ restored : \A i \in ItemsOf[a] \ restored :
    file[a].adopted => file[i].adopted

\* An adoption changes nothing it has not planned for: what it overwrites is
\* what its backup holds, be it after a restart, among saves and other backups.
AdoptionReplacesItsSource ==
  [][\A m \in Adoptions : phase[m] = "landing" /\ phase'[m] = "checking" =>
       file[at[m]] = copied[m][at[m]] \/ at[m] \in restored]_vars

\* An adoption that has neither finished nor been given up can be resumed or
\* undone: its backup stays, however many newer ones retention sees, unless
\* its removal was decided before the record was there.
UnresolvedKeepsSource == \A m \in Adoptions : Unresolved(m) => Complete(m) \/ m \in exposed

-----------------------------------------------------------------------------
(***************************************************************************)
(* What every step keeps, for the proofs.                                  *)
(***************************************************************************)
\* What an adoption holds at each of its phases, and by its records.
Stage(m) ==
  /\ phase[m] # "idle" => Items \cup Actors \subseteq Holding(plan[m])
  /\ journal[m] = {} => landed[m] = {}
  /\ journal[m] # {} => copied[m] = plan[m] /\ (Writing(m) \/ phase[m] \in {"done", "failed"})
  /\ phase[m] = "receipt" => "committed" \in journal[m]
  /\ phase[m] \in {"adopting", "landing", "checking"} =>
       todo[m] \subseteq Planned(plan[m]) \ landed[m]
  /\ phase[m] \in {"landing", "checking"} => at[m] \in todo[m]

StageInv == \A m \in Adoptions : Stage(m)

\* One write of a page at a time, and one adoption.
OneWriter ==
  /\ \A v, w \in Saves : phase[v] = "queued" /\ phase[w] = "queued" /\ at[v] = at[w] => v = w
  /\ \A v \in Saves, m \in Adoptions : phase[v] = "queued" /\ phase[m] = "landing" => at[v] # at[m]
  /\ \A m, n \in Adoptions : Running(m) /\ Running(n) => m = n

\* What is about to be replaced is what was checked, or was restored since.
Landing(m) ==
  /\ file[at[m]] = plan[m][at[m]] \/ at[m] \in restored
  /\ at[m] \in Actors => \A i \in ItemsOf[at[m]] \ restored : file[i].adopted

LandingInv ==
  /\ \A v \in Saves : phase[v] = "queued" => file[at[v]] = base[v] \/ at[v] \in restored \cup Passing
  /\ \A m \in Adoptions : phase[m] = "landing" => Landing(m)

\* No cleaner is about to remove the backup of an unresolved adoption.
SourceInv ==
  \A m \in Adoptions : Unresolved(m) /\ m \notin exposed =>
    Complete(m) /\ \A c \in Cleaners : doomed[c] # m

AdoptionInv ==
  /\ BackupInv /\ AdoptionTypeOK /\ StageInv /\ OneWriter /\ LandingInv
  /\ ActorsFollowItems /\ SourceInv
=============================================================================
