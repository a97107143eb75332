------------------------ MODULE EditorAutosaveProofs ------------------------
(***************************************************************************)
(* The invariants of the editor's saves, for every number of pages, drafts,*)
(* explicit saves, openings and other writers.                             *)
(***************************************************************************)
EXTENDS EditorAutosave, TLAPS

\* The text that the user types has a number, what others write has none.
LEMMA Sorts ==
  /\ Drafts \subseteq Nat /\ Drafts \subseteq Saves /\ Saves \subseteq Actors
  /\ Manual \subseteq Saves /\ Writers \subseteq Actors
  /\ Saves \cap Writers = {} /\ Drafts \cap Writers = {} /\ Drafts \cap Manual = {}
  /\ 0 \notin Writers /\ 0 \notin Drafts /\ 0 \in Nat
  /\ None \notin Pages /\ None \notin Opens /\ None \notin Saves /\ None \notin Actors
  /\ None \notin Drafts /\ None # 0 /\ None \notin Nat /\ None \notin Writers
BY EditorAssumption DEF EditorAssumption, Drafts, Saves, Actors

\* The record that a save writes.
LEMMA CandidateType ==
  ASSUME Types, NEW p \in Pages
  PROVE  /\ runtime[p] \in Content
         /\ Candidate(p) \in Content /\ Candidate(p).of = p /\ Candidate(p).body = dom
         /\ BaseOf(p) \in Content \cup {None}
BY DEF Types, Candidate, Content, BaseOf, Base

-----------------------------------------------------------------------------
(***************************************************************************)
(* Types and progress.                                                     *)
(***************************************************************************)
\* What Types and ProgressInv say of saves and other writes.
SavesOK ==
  /\ inFlight \in Saves \cup {None}
  /\ stage \in [Actors -> Stages]
  /\ result \in [Actors -> Results \cup {None}]
  /\ page \in [Actors -> Pages \cup {None}]
  /\ after \in [Actors -> Saves \cup {None}]
  /\ content \in [Actors -> Content \cup {None}]
  /\ expected \in [Actors -> Content \cup {None}]
  /\ newest \in [Pages -> Actors \cup {None}]
  /\ before \in [Actors -> Content \cup {None}]
  /\ \A s \in Saves :
       /\ stage[s] \in {"idle", "waiting", "persisting", "ended"}
       /\ stage[s] = "waiting" => after[s] \in Saves
       /\ stage[s] = "ended" => result[s] \in Results
  /\ \A w \in Writers : stage[w] \in {"idle", "ended"} \cup Kinds
  /\ \A a \in Actors :
       /\ IF stage[a] = "idle" THEN page[a] = None ELSE page[a] \in Pages
       /\ IF stage[a] \in {"persisting"} \cup Kinds
          THEN content[a] \in Content /\ before[a] \in Content
          ELSE content[a] = None /\ before[a] = None
       /\ stage[a] \in {"persisting", "special"} => content[a].of = page[a]

\* What they say of the files, the session and the calls of openPage.
RestOK ==
  /\ disk \in [Pages -> Content] /\ runtime \in [Pages -> Content]
  /\ current \in Pages /\ dom \in Bodies /\ base \in Base
  /\ typed \in 0..MaxTyped
  /\ pending \in Pages \cup {None}
  /\ conflict \in Conflict \cup {None} /\ reading \in Reading \cup {None}
  /\ misloaded \subseteq Pages /\ apart \subseteq Pages
  /\ newestOpen \in Opens \cup {None}
  /\ opening \in [Opens -> {"idle", "waiting", "ended"}]
  /\ target \in [Opens -> Pages \cup {None}]
  /\ awaits \in [Opens -> Saves \cup {None}]
  /\ flushed \in [Opens -> Drafts \cup {0}]
  /\ answered \subseteq Bodies /\ unsaid \subseteq Bodies
  /\ home \in [Drafts -> Pages \cup {None}]
  /\ pending # None => typed \in Drafts
  /\ \A o \in Opens : opening[o] = "waiting" => target[o] \in Pages /\ awaits[o] \in Saves

LEMMA TypesSplit == Types /\ ProgressInv <=> SavesOK /\ RestOK
BY DEF Types, ProgressInv, SavesOK, RestOK

LEMMA TypesJoin == SavesOK' /\ RestOK' => Types' /\ ProgressInv'
BY DEF Types, ProgressInv, SavesOK, RestOK

LEMMA EndOK ==
  ASSUME SavesOK, NEW a \in Actors, stage[a] # "idle", NEW r \in Results, End(a, r),
         UNCHANGED <<page, newest>>
  PROVE  SavesOK'
BY Sorts DEF SavesOK, End, InFlightAfter, Stages, Kinds

LEMMA PersistOK ==
  ASSUME SavesOK, Types, NEW s \in Saves, NEW p \in Pages, Persist(s, p),
         page'[s] = p, page' = page \/ page' = [page EXCEPT ![s] = p],
         inFlight' \in Saves \cup {None}, after' \in [Actors -> Saves \cup {None}],
         \A t \in Saves \ {s} : after'[t] = after[t], UNCHANGED result
  PROVE  SavesOK'
<1>1. /\ Candidate(p) \in Content /\ Candidate(p).of = p
      /\ BaseOf(p) \in Content \cup {None} /\ runtime[p] \in Content
  BY CandidateType
<1>2. /\ stage' = [stage EXCEPT ![s] = "persisting"]
      /\ content' = [content EXCEPT ![s] = Candidate(p)]
      /\ expected' = [expected EXCEPT ![s] = BaseOf(p)]
      /\ newest' = [newest EXCEPT ![p] = s]
      /\ before' = [before EXCEPT ![s] = runtime[p]]
  BY DEF Persist
<1>3. \A t \in Saves :
        /\ stage'[t] \in {"idle", "waiting", "persisting", "ended"}
        /\ stage'[t] = "waiting" => after'[t] \in Saves
        /\ stage'[t] = "ended" => result'[t] \in Results
  BY <1>2, Sorts DEF SavesOK
<1>4. \A w \in Writers : stage'[w] \in {"idle", "ended"} \cup Kinds
  BY <1>2, Sorts DEF SavesOK
<1>5. /\ stage' \in [Actors -> Stages] /\ content' \in [Actors -> Content \cup {None}]
      /\ expected' \in [Actors -> Content \cup {None}]
      /\ newest' \in [Pages -> Actors \cup {None}] /\ page' \in [Actors -> Pages \cup {None}]
      /\ before' \in [Actors -> Content \cup {None}]
  BY <1>1, <1>2, Sorts DEF SavesOK, Stages
<1>6. \A a \in Actors :
        /\ IF stage'[a] = "idle" THEN page'[a] = None ELSE page'[a] \in Pages
        /\ IF stage'[a] \in {"persisting"} \cup Kinds
           THEN content'[a] \in Content /\ before'[a] \in Content
           ELSE content'[a] = None /\ before'[a] = None
        /\ stage'[a] \in {"persisting", "special"} => content'[a].of = page'[a]
  BY <1>1, <1>2, Sorts DEF SavesOK, Stages, Kinds
<1> QED BY <1>3, <1>4, <1>5, <1>6 DEF SavesOK

LEMMA RequestOK ==
  ASSUME SavesOK, Types, NEW s \in Saves, Request(s)
  PROVE  SavesOK'
<1>1. current \in Pages /\ s \in Actors
  BY Sorts DEF Types
<1>2. /\ page' = [page EXCEPT ![s] = current] /\ after' = [after EXCEPT ![s] = inFlight]
      /\ inFlight' = s /\ UNCHANGED result /\ stage[s] = "idle"
  BY DEF Request, ChainedAfter
<1>3. CASE inFlight = None
  <2>1. Persist(s, current)
    BY <1>3 DEF Request, ChainedAfter
  <2>2. /\ after' \in [Actors -> Saves \cup {None}] /\ page'[s] = current
        /\ \A t \in Saves \ {s} : after'[t] = after[t]
    BY <1>1, <1>2 DEF SavesOK
  <2> QED BY <1>1, <1>2, <2>1, <2>2, PersistOK
<1>4. CASE inFlight # None
  <2>1. stage' = [stage EXCEPT ![s] = "waiting"] /\ UNCHANGED <<content, expected, newest, before>>
    BY <1>4 DEF Request, ChainedAfter
  <2>2. \A t \in Saves :
          /\ stage'[t] \in {"idle", "waiting", "persisting", "ended"}
          /\ stage'[t] = "waiting" => after'[t] \in Saves
          /\ stage'[t] = "ended" => result'[t] \in Results
    BY <1>1, <1>2, <1>4, <2>1, Sorts DEF SavesOK
  <2>3. \A w \in Writers : stage'[w] \in {"idle", "ended"} \cup Kinds
    BY <1>1, <2>1, Sorts DEF SavesOK
  <2>4. /\ stage' \in [Actors -> Stages] /\ page' \in [Actors -> Pages \cup {None}]
        /\ after' \in [Actors -> Saves \cup {None}]
    BY <1>1, <1>2, <2>1, Sorts DEF SavesOK, Stages
  <2>5. \A a \in Actors :
          /\ IF stage'[a] = "idle" THEN page'[a] = None ELSE page'[a] \in Pages
          /\ IF stage'[a] \in {"persisting"} \cup Kinds
             THEN content'[a] \in Content /\ before'[a] \in Content
             ELSE content'[a] = None /\ before'[a] = None
          /\ stage'[a] \in {"persisting", "special"} => content'[a].of = page'[a]
    BY <1>1, <1>2, <2>1, Sorts DEF SavesOK, Kinds
  <2> QED BY <1>1, <1>2, <2>1, <2>2, <2>3, <2>4, <2>5 DEF SavesOK
<1> QED BY <1>3, <1>4

LEMMA GoOnOK ==
  ASSUME SavesOK, Types, NEW s \in Saves, GoOn(s)
  PROVE  SavesOK'
<1>1. s \in Actors /\ stage[s] = "waiting" /\ UNCHANGED page /\ page[s] \in Pages
  BY Sorts DEF GoOn, SavesOK
<1>2. CASE result[after[s]] = "passed" /\ ~HasLeft(s)
  <2>1. Persist(s, page[s]) /\ UNCHANGED <<result, inFlight, after>>
    BY <1>2 DEF GoOn
  <2> QED BY <1>1, <2>1, PersistOK DEF SavesOK
<1>3. CASE ~(result[after[s]] = "passed" /\ ~HasLeft(s))
  <2>1. End(s, Inherited(s)) /\ UNCHANGED newest
    BY <1>3 DEF GoOn
  <2>2. Inherited(s) \in Results
    BY <1>1, Sorts DEF GoOn, SavesOK, Inherited, Results
  <2> QED BY <1>1, <2>1, <2>2, EndOK
<1> QED BY <1>2, <1>3

LEMMA BeginWriteOK ==
  ASSUME SavesOK, NEW w \in Writers, NEW kind \in Kinds, NEW p \in Pages, NEW c \in Content,
         kind = "special" => c.of = p, runtime[p] \in Content, NEW e \in Content \cup {None},
         BeginWrite(w, kind, p, c, e)
  PROVE  SavesOK'
BY Sorts DEF SavesOK, BeginWrite, Stages, Kinds

LEMMA SavesStep == Types /\ ProgressInv /\ [Next]_vars => SavesOK'
<1> SUFFICES ASSUME Types, ProgressInv, [Next]_vars PROVE SavesOK'
  OBVIOUS
<1>0. SavesOK
  BY TypesSplit
<1>1. CASE UNCHANGED <<inFlight, stage, result, page, after, content, expected, newest, before>>
  BY <1>0, <1>1 DEF SavesOK
<1>2. ASSUME NEW s \in Saves, Request(s) PROVE SavesOK'
  BY <1>0, <1>2, RequestOK
<1>3. CASE TimerFires
  <2>1. CASE pending = current
    BY <1>2, <1>3, <2>1, Sorts DEF TimerFires, Timer, ProgressInv
  <2>2. CASE pending # current
    BY <1>1, <1>3, <2>2 DEF TimerFires, Timer, saves
  <2> QED BY <2>1, <2>2
<1>4. ASSUME NEW s \in Manual, SaveNow(s) PROVE SavesOK'
  BY <1>2, <1>4, Sorts DEF SaveNow
<1>5. ASSUME NEW s \in Saves, SaveEnds(s) PROVE SavesOK'
  <2>1. s \in Actors /\ stage[s] # "idle"
    BY <1>5, Sorts DEF SaveEnds, Saved, StaleSave, Refuse, Skip
  <2>2. PICK r \in Results : End(s, r) /\ UNCHANGED <<page, newest>>
    BY <1>5 DEF SaveEnds, Saved, StaleSave, Superseded, Refuse, NotSaved, Skip, Results
  <2> QED BY <1>0, <2>1, <2>2, EndOK
<1>6. ASSUME NEW o \in Opens, NEW p \in Pages, OpenPage(o, p) PROVE SavesOK'
  <2>1. CASE Flushes
    BY <1>2, <1>6, <2>1, Sorts DEF OpenPage, Flushes, ProgressInv, Types
  <2>2. CASE ~Flushes
    BY <1>1, <1>6, <2>2 DEF OpenPage, saves
  <2> QED BY <2>1, <2>2
<1>7. ASSUME NEW w \in Writers, NEW p \in Pages, MovePage(w, p) \/ UndoProperty(w, p)
      PROVE  SavesOK'
  <2>1. /\ runtime[p] \in Content
        /\ [runtime[p] EXCEPT !.rest = w] \in Content
        /\ [runtime[p] EXCEPT !.body = w] \in Content
    BY DEF Types, Content, Bodies
  <2>2. "move" \in Kinds /\ "undo" \in Kinds /\ "move" # "special" /\ "undo" # "special"
    BY DEF Kinds
  <2> QED BY <1>0, <1>7, <2>1, <2>2, BeginWriteOK DEF MovePage, UndoProperty
<1>8. ASSUME NEW w \in Writers, ChangeSheet(w) \/ SaveSpecial(w) PROVE SavesOK'
  <2>1. /\ current \in Pages /\ runtime[current] \in Content
        /\ [runtime[current] EXCEPT !.rest = w] \in Content
    BY DEF Types, Content
  <2>2. /\ Candidate(current) \in Content /\ Candidate(current).of = current
        /\ BaseOf(current) \in Content \cup {None}
    BY <2>1, CandidateType
  <2>3. "sheet" \in Kinds /\ "special" \in Kinds /\ "sheet" # "special"
    BY DEF Kinds
  <2> QED BY <1>0, <1>8, <2>1, <2>2, <2>3, BeginWriteOK DEF ChangeSheet, SaveSpecial
<1>9. ASSUME NEW w \in Writers,
             WriterSaved(w) \/ StaleWriter(w) \/ \E landed \in BOOLEAN : WriterFails(w, landed)
      PROVE  SavesOK'
  <2>1. w \in Actors /\ stage[w] # "idle"
    BY <1>9, Sorts DEF WriterSaved, StaleWriter, WriterFails, Kinds
  <2>2. PICK r \in Results : End(w, r) /\ UNCHANGED <<page, newest>>
    BY <1>9 DEF WriterSaved, StaleWriter, Superseded, WriterFails, NotSaved, Results
  <2> QED BY <1>0, <2>1, <2>2, EndOK
<1>10. ASSUME NEW w \in Writers, NEW p \in Pages, OutsideEdit(w, p) PROVE SavesOK'
  BY <1>0, <1>10, Sorts DEF OutsideEdit, SavesOK, Stages, Kinds
<1>11. ASSUME NEW s \in Saves, GoOn(s) PROVE SavesOK'
  BY <1>0, <1>11, GoOnOK
<1>12. ASSUME NEW o \in Opens, Reload(o) \/ Opened(o) PROVE SavesOK'
  BY <1>1, <1>12 DEF Reload, Opened, saves
<1>13. CASE Type \/ ReadCurrent \/ UNCHANGED vars
  BY <1>1, <1>13 DEF Type, ReadCurrent, vars, saves
<1> QED
  BY <1>3, <1>4, <1>5, <1>6, <1>7, <1>8, <1>9, <1>10, <1>11, <1>12, <1>13
     DEF Next, CommandEnds

LEMMA ShowOK ==
  ASSUME RestOK, NEW o \in Opens, NEW p \in Pages, Show(o, p)
  PROVE  /\ current' \in Pages /\ base' \in Base /\ dom' \in Bodies
         /\ opening' \in [Opens -> {"idle", "waiting", "ended"}]
         /\ opening' = [opening EXCEPT ![o] = "ended"]
BY DEF RestOK, Show, Base, Content

LEMMA WaitForOK ==
  ASSUME RestOK, NEW o \in Opens, NEW p \in Pages, NEW s \in Saves, WaitFor(o, p, s)
  PROVE  /\ opening' \in [Opens -> {"idle", "waiting", "ended"}]
         /\ target' \in [Opens -> Pages \cup {None}]
         /\ awaits' \in [Opens -> Saves \cup {None}]
         /\ flushed' \in [Opens -> Drafts \cup {0}]
         /\ \A i \in Opens : opening'[i] = "waiting" => target'[i] \in Pages /\ awaits'[i] \in Saves
         /\ UNCHANGED session
BY DEF RestOK, WaitFor, Draft

LEMMA RestStep == Types /\ ProgressInv /\ [Next]_vars => RestOK'
<1> SUFFICES ASSUME Types, ProgressInv, [Next]_vars PROVE RestOK'
  OBVIOUS
<1>0. SavesOK /\ RestOK
  BY TypesSplit
<1> USE <1>0 DEF files, session, calls, reload
<1>1. CASE Type
  <2>1. typed + 1 \in Drafts /\ typed + 1 \in 0..MaxTyped
    BY <1>1, EditorAssumption DEF Type, RestOK, Drafts, EditorAssumption
  <2> QED BY <1>1, <2>1 DEF Type, RestOK, Bodies
<1>2. CASE TimerFires
  BY <1>2 DEF TimerFires, Timer, RestOK
<1>3. ASSUME NEW s \in Manual, SaveNow(s) PROVE RestOK'
  BY <1>3 DEF SaveNow, RestOK
<1>4. ASSUME NEW s \in Saves, GoOn(s) PROVE RestOK'
  BY <1>4 DEF GoOn, RestOK
<1>5. ASSUME NEW a \in Actors, stage[a] \in {"persisting"} \cup Kinds
      PROVE  content[a] \in Content /\ content[a].body \in Bodies /\ page[a] \in Pages
             /\ Reported(a) \subseteq Bodies
  <2>1. content[a] \in Content /\ page[a] \in Pages
    BY <1>5 DEF SavesOK, Kinds
  <2> QED BY <2>1 DEF Content, Reported, RestOK
<1>16. ASSUME NEW a \in Actors, stage[a] \in {"persisting"} \cup Kinds, NEW landed, NotSaved(a, landed)
       PROVE  disk' \in [Pages -> Content] /\ runtime' \in [Pages -> Content]
  BY <1>16 DEF NotSaved, SavesOK, RestOK, Kinds
<1>17. ASSUME NEW a \in Actors, page[a] \in Pages, NEW p \in Pages, NEW c \in ConflictAfter(a, p)
       PROVE  c \in Conflict \cup {None}
  BY <1>17 DEF ConflictAfter, RestOK, Conflict
<1>6. ASSUME NEW s \in Saves, SaveEnds(s) PROVE RestOK'
  <2>1. /\ s \in Actors /\ content[s] \in Content /\ content[s].body \in Bodies
        /\ page[s] \in Pages /\ Reported(s) \subseteq Bodies
    BY <1>5, <1>6, Sorts DEF SaveEnds, Saved, StaleSave, Refuse, Skip
  <2>2. CASE Saved(s)
    BY <2>1, <2>2 DEF Saved, RestOK, BaseAfterSave, PendingAfter, Base, ConflictCleared
  <2>3. CASE StaleSave(s)
    BY <2>1, <2>3 DEF StaleSave, Superseded, RestOK
  <2>4. ASSUME NEW landed \in BOOLEAN, Refuse(s, landed) PROVE RestOK'
    <3>1. disk' \in [Pages -> Content] /\ runtime' \in [Pages -> Content]
      BY <1>16, <2>1, <2>4, Sorts DEF Refuse
    <3>2. conflict' \in Conflict \cup {None}
      BY <1>17, <2>1, <2>4 DEF Refuse
    <3> QED BY <2>1, <2>4, <3>1, <3>2 DEF Refuse, RestOK
  <2>5. CASE Skip(s)
    BY <2>1, <2>5 DEF Skip, RestOK
  <2> QED BY <1>6, <2>2, <2>3, <2>4, <2>5 DEF SaveEnds
<1>7. ASSUME NEW o \in Opens, NEW p \in Pages, OpenPage(o, p) PROVE RestOK'
  <2>1. CASE Flushes
    <3>1. typed \in Saves /\ WaitFor(o, p, typed) /\ pending' = None
      BY <1>7, <2>1, Sorts DEF OpenPage, Flushes, RestOK
    <3> QED BY <1>7, <3>1, WaitForOK DEF OpenPage, RestOK, Called
  <2>2. CASE ~Flushes /\ pending = None /\ inFlight # None
    <3>1. inFlight \in Saves /\ WaitFor(o, p, inFlight) /\ pending' = None
      BY <1>7, <2>2 DEF OpenPage, SavesOK
    <3> QED BY <1>7, <3>1, WaitForOK DEF OpenPage, RestOK, Called
  <2>3. CASE ~Flushes /\ ~(pending = None /\ inFlight # None)
    <3>1. Show(o, p) /\ UNCHANGED <<target, awaits, flushed>> /\ pending' = None
      BY <1>7, <2>3 DEF OpenPage
    <3> QED BY <1>7, <3>1, ShowOK DEF OpenPage, RestOK, Called
  <2> QED BY <2>1, <2>2, <2>3
<1>8. ASSUME NEW o \in Opens, Reload(o) PROVE RestOK'
  <2>1. /\ reading.pageId \in Pages /\ reading.content \in Content
        /\ reading.content.body \in Bodies
    BY <1>8 DEF Reload, RestOK, Reading, Content
  <2>2. /\ runtime' \in [Pages -> Content] /\ conflict' \in Conflict \cup {None}
        /\ misloaded' \subseteq Pages /\ apart' \subseteq Pages
        /\ reading' = None /\ pending' = None /\ newestOpen' = o
        /\ answered' \subseteq Bodies
        /\ UNCHANGED <<disk, typed, home, unsaid>>
    BY <1>8, <2>1 DEF Reload, RestOK, ConflictCleared, Called
  <2>3. CASE inFlight # None
    <3>1. inFlight \in Saves /\ WaitFor(o, reading.pageId, inFlight)
      BY <1>8, <2>3 DEF Reload, SavesOK
    <3> QED BY <2>1, <2>2, <3>1, WaitForOK DEF RestOK
  <2>4. CASE inFlight = None
    BY <1>8, <2>1, <2>2, <2>4 DEF Reload, RestOK, Base
  <2> QED BY <2>3, <2>4
<1>18. CASE ReadCurrent
  <2>1. reading' \in Reading
    BY <1>18 DEF ReadCurrent, RestOK, Conflict, Reading
  <2> QED BY <1>18, <2>1 DEF ReadCurrent, RestOK
<1>9. ASSUME NEW o \in Opens, Opened(o) PROVE RestOK'
  <2>1. /\ target' = [target EXCEPT ![o] = None] /\ awaits' = [awaits EXCEPT ![o] = None]
        /\ flushed' = [flushed EXCEPT ![o] = 0]
        /\ UNCHANGED <<typed, home, unsaid, pending, conflict, newestOpen, answered, disk, runtime>>
        /\ UNCHANGED <<reading, misloaded, apart>>
    BY <1>9 DEF Opened
  <2>2. target[o] \in Pages
    BY <1>9 DEF Opened, RestOK
  <2>3. /\ current' \in Pages /\ base' \in Base /\ dom' \in Bodies
        /\ opening' = [opening EXCEPT ![o] = "ended"]
    BY <1>9, <2>2, ShowOK DEF Opened, RestOK
  <2> QED BY <2>1, <2>3 DEF RestOK
<1>10. ASSUME NEW w \in Writers, NEW k, NEW p, NEW c, NEW e, BeginWrite(w, k, p, c, e)
       PROVE  RestOK'
  BY <1>10 DEF BeginWrite, RestOK
<1>11. ASSUME NEW w \in Writers, NEW p \in Pages, MovePage(w, p) \/ UndoProperty(w, p)
       PROVE  RestOK'
  BY <1>10, <1>11 DEF MovePage, UndoProperty
<1>12. ASSUME NEW w \in Writers, ChangeSheet(w) \/ SaveSpecial(w) PROVE RestOK'
  BY <1>10, <1>12 DEF ChangeSheet, SaveSpecial
<1>13. ASSUME NEW w \in Writers,
              WriterSaved(w) \/ StaleWriter(w) \/ \E landed \in BOOLEAN : WriterFails(w, landed)
       PROVE  RestOK'
  <2>1. /\ w \in Actors /\ content[w] \in Content /\ content[w].body \in Bodies
        /\ page[w] \in Pages /\ Reported(w) \subseteq Bodies
    BY <1>5, <1>13, Sorts DEF WriterSaved, StaleWriter, WriterFails
  <2>2. CASE WriterSaved(w)
    <3>1. base' \in Base
      BY <2>1, <2>2 DEF WriterSaved, RestOK, BaseAfter, Base
    <3> QED BY <2>1, <2>2, <3>1 DEF WriterSaved, RestOK, ConflictCleared
  <2>3. CASE StaleWriter(w)
    BY <2>1, <2>3 DEF StaleWriter, Superseded, RestOK, AnsweredBy
  <2>4. ASSUME NEW landed \in BOOLEAN, WriterFails(w, landed) PROVE RestOK'
    <3>1. disk' \in [Pages -> Content] /\ runtime' \in [Pages -> Content]
      BY <1>16, <2>1, <2>4 DEF WriterFails
    <3>2. conflict' \in Conflict \cup {None}
      BY <1>17, <2>1, <2>4 DEF WriterFails, RestOK
    <3> QED BY <2>1, <2>4, <3>1, <3>2 DEF WriterFails, RestOK, AnsweredBy
  <2> QED BY <1>13, <2>2, <2>3, <2>4
<1>14. ASSUME NEW w \in Writers, NEW p \in Pages, OutsideEdit(w, p) PROVE RestOK'
  <2>1. [of |-> p, body |-> w, rest |-> w] \in Content
    BY DEF Content, Bodies
  <2> QED BY <1>14, <2>1 DEF OutsideEdit, RestOK
<1>15. CASE UNCHANGED vars
  BY <1>15 DEF vars, RestOK
<1> QED
  BY <1>1, <1>2, <1>3, <1>4, <1>6, <1>7, <1>8, <1>9, <1>11, <1>12, <1>13, <1>14, <1>15, <1>18
     DEF Next, CommandEnds

-----------------------------------------------------------------------------
(***************************************************************************)
(* The line of saves.                                                      *)
(***************************************************************************)
\* A save at its command, or about to go on.
First(s) == \/ stage[s] = "persisting"
            \/ stage[s] = "waiting" /\ stage[after[s]] = "ended"

LEMMA FirstOfLine ==
  ASSUME NEW n \in Nat, NEW q \in [1..n -> Saves], IsLine(n, q), NEW s \in Saves, First(s)
  PROVE  n # 0 /\ q[1] = s
<1>1. PICK i \in 1..n : q[i] = s
  BY DEF IsLine, First, UnderWay
<1>2. CASE i = 1
  BY <1>1, <1>2
<1>3. CASE i # 1
  <2>1. i \in 2..n /\ i - 1 \in 1..n
    BY <1>3
  <2>2. stage[s] = "waiting" /\ after[s] = q[i - 1]
    BY <1>1, <2>1 DEF IsLine
  <2>3. UnderWay(q[i - 1])
    BY <2>1 DEF IsLine
  <2> QED BY <2>2, <2>3 DEF First, UnderWay
<1> QED BY <1>2, <1>3

LEMMA LineKept ==
  ASSUME ChainInv, \A s \in Saves : stage'[s] = stage[s] /\ after'[s] = after[s],
         UNCHANGED inFlight
  PROVE  ChainInv'
<1>0. PICK n \in Nat : \E q \in [1..n -> Saves] : IsLine(n, q)
  BY DEF ChainInv
<1>1. PICK q \in [1..n -> Saves] : IsLine(n, q)
  BY <1>0
<1>2. \A i \in 2..n : q[i] \in Saves
  OBVIOUS
<1>3. IsLine(n, q)'
  <2>1. \A t \in Saves : UnderWay(t)' <=> UnderWay(t)
    BY DEF UnderWay
  <2>2. n # 0 => q[1] \in Saves
    OBVIOUS
  <2>3. \A i \in 2..n : stage'[q[i]] = "waiting" /\ after'[q[i]] = q[i - 1]
    BY <1>1, <1>2 DEF IsLine
  <2> QED BY <1>1, <2>1, <2>2, <2>3 DEF IsLine
<1> QED BY <1>3 DEF ChainInv

LEMMA LineRequest ==
  ASSUME SavesOK, ChainInv, NEW s \in Saves, Request(s)
  PROVE  ChainInv'
<1>0. PICK n \in Nat : \E q \in [1..n -> Saves] : IsLine(n, q)
  BY DEF ChainInv
<1>1. PICK q \in [1..n -> Saves] : IsLine(n, q)
  BY <1>0
<1>2. /\ stage[s] = "idle" /\ after' = [after EXCEPT ![s] = inFlight] /\ inFlight' = s
      /\ s \in Actors
      /\ stage' = [stage EXCEPT ![s] = IF inFlight = None THEN "persisting" ELSE "waiting"]
  BY Sorts DEF Request, ChainedAfter, Persist
<1>3. \A i \in 1..n : q[i] \in Saves /\ UnderWay(q[i]) /\ q[i] # s
  BY <1>1, <1>2 DEF IsLine, UnderWay
<1>4. \A t \in Saves : t # s => stage'[t] = stage[t] /\ after'[t] = after[t]
  BY <1>2, Sorts DEF SavesOK
<1>5. /\ stage'[s] = IF inFlight = None THEN "persisting" ELSE "waiting"
      /\ after'[s] = inFlight
  BY <1>2 DEF SavesOK
<1>6. inFlight = None <=> n = 0
  <2>1. n # 0 => q[n] \in Saves
    OBVIOUS
  <2> QED BY <1>1, <2>1, Sorts DEF IsLine
<1> DEFINE r == [i \in 1..(n + 1) |-> IF i = n + 1 THEN s ELSE q[i]]
<1>7. /\ r \in [1..(n + 1) -> Saves] /\ r[n + 1] = s
      /\ \A i \in 1..n : r[i] = q[i]
      /\ \A i \in 1..(n + 1) : i \in 1..n \/ i = n + 1
  OBVIOUS
<1> HIDE DEF r
<1>8. \A t \in Saves : UnderWay(t)' <=> \E i \in 1..(n + 1) : r[i] = t
  <2> SUFFICES ASSUME NEW t \in Saves PROVE UnderWay(t)' <=> \E i \in 1..(n + 1) : r[i] = t
    OBVIOUS
  <2>1. CASE t = s
    BY <1>5, <1>7, <2>1 DEF UnderWay
  <2>2. CASE t # s
    <3>1. UnderWay(t)' <=> UnderWay(t)
      BY <1>4, <2>2 DEF UnderWay
    <3>2. UnderWay(t) <=> \E i \in 1..n : q[i] = t
      BY <1>1 DEF IsLine
    <3>3. (\E i \in 1..n : q[i] = t) <=> \E i \in 1..(n + 1) : r[i] = t
      BY <1>7, <2>2
    <3> QED BY <3>1, <3>2, <3>3
  <2> QED BY <2>1, <2>2
<1>9. \A i, j \in 1..(n + 1) : r[i] = r[j] => i = j
  <2>1. \A i, j \in 1..n : q[i] = q[j] => i = j
    BY <1>1 DEF IsLine
  <2> QED BY <1>3, <1>7, <2>1
<1>10. \A i \in 2..(n + 1) : stage'[r[i]] = "waiting" /\ after'[r[i]] = r[i - 1]
  <2> SUFFICES ASSUME NEW i \in 2..(n + 1)
               PROVE  stage'[r[i]] = "waiting" /\ after'[r[i]] = r[i - 1]
    OBVIOUS
  <2>1. CASE i = n + 1
    <3>1. n # 0 /\ inFlight = q[n] /\ inFlight # None
      BY <1>1, <1>6, <2>1 DEF IsLine
    <3>2. r[n] = q[n] /\ i - 1 = n
      BY <1>7, <2>1, <3>1
    <3> QED BY <1>5, <1>7, <2>1, <3>1, <3>2
  <2>2. CASE i \in 2..n
    <3>1. i \in 1..n /\ i - 1 \in 1..n /\ r[i] = q[i] /\ r[i - 1] = q[i - 1]
      BY <1>7, <2>2
    <3>2. stage[q[i]] = "waiting" /\ after[q[i]] = q[i - 1]
      BY <1>1, <2>2 DEF IsLine
    <3> QED BY <1>3, <1>4, <3>1, <3>2
  <2> QED BY <2>1, <2>2
<1>11. stage'[r[1]] = "waiting" => after'[r[1]] \in Saves /\ stage'[after'[r[1]]] = "ended"
  <2>1. CASE n = 0
    BY <1>5, <1>6, <1>7, <2>1
  <2>2. CASE n # 0
    <3>1. r[1] = q[1] /\ q[1] \in Saves /\ q[1] # s
      BY <1>3, <1>7, <2>2
    <3>2. stage[q[1]] = "waiting" => after[q[1]] \in Saves /\ stage[after[q[1]]] = "ended"
      BY <1>1, <2>2 DEF IsLine
    <3> QED BY <1>2, <1>4, <3>1, <3>2
  <2> QED BY <2>1, <2>2
<1>12. n + 1 \in Nat /\ n + 1 # 0
  OBVIOUS
<1>13. IsLine(n + 1, r)'
  BY <1>2, <1>7, <1>8, <1>9, <1>10, <1>11, <1>12 DEF IsLine
<1> QED BY <1>7, <1>12, <1>13 DEF ChainInv

LEMMA LinePersist ==
  ASSUME SavesOK, ChainInv, NEW s \in Saves, First(s),
         stage' = [stage EXCEPT ![s] = "persisting"], UNCHANGED <<after, inFlight>>
  PROVE  ChainInv'
<1>0. PICK n \in Nat : \E q \in [1..n -> Saves] : IsLine(n, q)
  BY DEF ChainInv
<1>1. PICK q \in [1..n -> Saves] : IsLine(n, q)
  BY <1>0
<1>2. n # 0 /\ q[1] = s
  BY <1>1, FirstOfLine
<1>3. /\ \A t \in Saves : t # s => stage'[t] = stage[t]
      /\ stage'[s] = "persisting"
  BY Sorts DEF SavesOK
<1>4. \A t \in Saves : UnderWay(t)' <=> UnderWay(t)
  BY <1>3 DEF UnderWay, First
<1>5. \A i \in 2..n : q[i] # s /\ q[i] \in Saves
  BY <1>1, <1>2 DEF IsLine
<1>6. IsLine(n, q)'
  BY <1>1, <1>2, <1>3, <1>4, <1>5 DEF IsLine
<1> QED BY <1>6 DEF ChainInv

LEMMA LineEnd ==
  ASSUME SavesOK, ChainInv, NEW s \in Saves, First(s), NEW r, End(s, r)
  PROVE  ChainInv'
<1>0. PICK n \in Nat : \E q \in [1..n -> Saves] : IsLine(n, q)
  BY DEF ChainInv
<1>1. PICK q \in [1..n -> Saves] : IsLine(n, q)
  BY <1>0
<1>2. n # 0 /\ q[1] = s
  BY <1>1, FirstOfLine
<1>3. /\ \A t \in Saves : t # s => stage'[t] = stage[t] /\ after'[t] = after[t]
      /\ stage'[s] = "ended" /\ inFlight' = IF inFlight = s THEN None ELSE inFlight
  BY Sorts DEF SavesOK, End, InFlightAfter
<1> DEFINE m == n - 1
           u == [i \in 1..m |-> q[i + 1]]
<1>4. /\ m \in Nat /\ u \in [1..m -> Saves]
      /\ \A i \in 1..m : u[i] = q[i + 1] /\ i + 1 \in 2..n
  BY <1>2
<1>5. \A i, j \in 1..n : q[i] = q[j] => i = j
  BY <1>1 DEF IsLine
<1>6. \A i \in 2..n : q[i] # s /\ q[i] \in Saves
  BY <1>2, <1>5
<1> HIDE DEF u
<1>7. \A t \in Saves : UnderWay(t)' <=> \E i \in 1..m : u[i] = t
  <2> SUFFICES ASSUME NEW t \in Saves PROVE UnderWay(t)' <=> \E i \in 1..m : u[i] = t
    OBVIOUS
  <2>1. UnderWay(t) <=> \E i \in 1..n : q[i] = t
    BY <1>1 DEF IsLine
  <2>2. CASE t = s
    BY <1>3, <1>4, <1>6, <2>2 DEF UnderWay
  <2>3. CASE t # s
    <3>1. UnderWay(t)' <=> UnderWay(t)
      BY <1>3, <2>3 DEF UnderWay
    <3>2. ASSUME NEW i \in 1..n, q[i] = t PROVE i - 1 \in 1..m /\ u[i - 1] = t
      <4>1. i # 1
        BY <1>2, <2>3, <3>2
      <4>2. i - 1 \in 1..m /\ (i - 1) + 1 = i
        BY <4>1
      <4> QED BY <1>4, <3>2, <4>2
    <3>3. ASSUME NEW i \in 1..m, u[i] = t PROVE i + 1 \in 1..n /\ q[i + 1] = t
      BY <1>4, <3>3
    <3> QED BY <2>1, <3>1, <3>2, <3>3
  <2> QED BY <2>2, <2>3
<1>8. \A i, j \in 1..m : u[i] = u[j] => i = j
  <2> SUFFICES ASSUME NEW i \in 1..m, NEW j \in 1..m, u[i] = u[j] PROVE i = j
    OBVIOUS
  <2>1. i + 1 \in 1..n /\ j + 1 \in 1..n /\ q[i + 1] = q[j + 1]
    BY <1>4
  <2>2. i + 1 = j + 1
    BY <1>5, <2>1
  <2> QED BY <2>2
<1>9. \A i \in 2..n : stage'[q[i]] = "waiting" /\ after'[q[i]] = q[i - 1]
  BY <1>1, <1>3, <1>6 DEF IsLine
<1>10. \A i \in 2..m : stage'[u[i]] = "waiting" /\ after'[u[i]] = u[i - 1]
  <2> SUFFICES ASSUME NEW i \in 2..m PROVE stage'[u[i]] = "waiting" /\ after'[u[i]] = u[i - 1]
    OBVIOUS
  <2>1. i \in 1..m /\ i - 1 \in 1..m /\ (i - 1) + 1 = i /\ (i + 1) - 1 = i /\ i + 1 \in 2..n
    OBVIOUS
  <2>2. u[i] = q[i + 1] /\ u[i - 1] = q[i]
    BY <1>4, <2>1
  <2> QED BY <1>9, <2>1, <2>2
<1>11. m # 0 => after'[u[1]] = s
  <2> SUFFICES ASSUME m # 0 PROVE after'[u[1]] = s
    OBVIOUS
  <2>1. 1 \in 1..m /\ 2 \in 2..n /\ 2 - 1 = 1
    BY <1>4
  <2>2. u[1] = q[2]
    BY <1>4, <2>1
  <2> QED BY <1>2, <1>9, <2>1, <2>2
<1>12. inFlight' = IF m = 0 THEN None ELSE u[m]
  <2>1. inFlight = q[n]
    BY <1>1, <1>2 DEF IsLine
  <2>2. CASE m = 0
    BY <1>2, <1>3, <2>1, <2>2
  <2>3. CASE m # 0
    <3>1. n \in 2..n /\ m \in 1..m /\ m + 1 = n
      BY <1>4, <2>3
    <3> QED BY <1>3, <1>4, <1>6, <2>1, <2>3, <3>1
  <2> QED BY <2>2, <2>3
<1>13. IsLine(m, u)'
  BY <1>3, <1>4, <1>7, <1>8, <1>10, <1>11, <1>12 DEF IsLine
<1> QED BY <1>4, <1>13 DEF ChainInv

LEMMA ChainStep == Types /\ ProgressInv /\ ChainInv /\ [Next]_vars => ChainInv'
<1> SUFFICES ASSUME Types, ProgressInv, ChainInv, [Next]_vars PROVE ChainInv'
  OBVIOUS
<1>0. SavesOK
  BY TypesSplit
<1> USE <1>0 DEF files, session, calls, reload
<1>1. CASE UNCHANGED saves /\ UNCHANGED inFlight
  BY <1>1, LineKept DEF saves
<1>2. ASSUME NEW s \in Saves, Request(s) PROVE ChainInv'
  BY <1>2, LineRequest
<1>3. CASE TimerFires
  BY <1>1, <1>2, <1>3, Sorts DEF TimerFires, Timer, ProgressInv
<1>4. ASSUME NEW s \in Manual, SaveNow(s) PROVE ChainInv'
  BY <1>2, <1>4, Sorts DEF SaveNow
<1>5. ASSUME NEW s \in Saves, SaveEnds(s) PROVE ChainInv'
  <2>1. First(s)
    BY <1>5 DEF First, SaveEnds, Saved, StaleSave, Refuse, Skip
  <2>2. End(s, "passed") \/ End(s, "failed")
    BY <1>5 DEF SaveEnds, Saved, StaleSave, Superseded, Refuse, NotSaved, Skip
  <2> QED BY <2>1, <2>2, LineEnd
<1>6. ASSUME NEW s \in Saves, GoOn(s) PROVE ChainInv'
  <2>1. First(s)
    BY <1>6 DEF First, GoOn
  <2>2. CASE result[after[s]] = "passed" /\ ~HasLeft(s)
    <3>1. stage' = [stage EXCEPT ![s] = "persisting"] /\ UNCHANGED <<after, inFlight>>
      BY <1>6, <2>2 DEF GoOn, Persist
    <3> QED BY <2>1, <3>1, LinePersist
  <2>3. CASE ~(result[after[s]] = "passed" /\ ~HasLeft(s))
    BY <1>6, <2>1, <2>3, LineEnd DEF GoOn
  <2> QED BY <2>2, <2>3
<1>7. ASSUME NEW o \in Opens, NEW p \in Pages, OpenPage(o, p) PROVE ChainInv'
  <2>1. CASE Flushes
    BY <1>2, <1>7, <2>1, Sorts DEF OpenPage, Flushes, ProgressInv, Types
  <2>2. CASE ~Flushes
    BY <1>1, <1>7, <2>2 DEF OpenPage
  <2> QED BY <2>1, <2>2
<1>8. ASSUME NEW w \in Writers, NEW k, NEW p, NEW c, NEW e, BeginWrite(w, k, p, c, e)
      PROVE  ChainInv'
  <2>1. \A s \in Saves : stage'[s] = stage[s] /\ after'[s] = after[s]
    BY <1>8, Sorts DEF BeginWrite, SavesOK
  <2> QED BY <1>8, <2>1, LineKept DEF BeginWrite
<1>9. ASSUME NEW w \in Writers, NEW p \in Pages,
             MovePage(w, p) \/ UndoProperty(w, p)
      PROVE  ChainInv'
  BY <1>8, <1>9 DEF MovePage, UndoProperty
<1>10. ASSUME NEW w \in Writers,
              WriterSaved(w) \/ StaleWriter(w) \/ \E landed \in BOOLEAN : WriterFails(w, landed)
       PROVE  ChainInv'
  <2>1. End(w, "passed") \/ End(w, "failed")
    BY <1>10 DEF WriterSaved, StaleWriter, Superseded, WriterFails, NotSaved
  <2>2. \A s \in Saves : stage'[s] = stage[s] /\ after'[s] = after[s]
    BY <2>1, Sorts DEF End, SavesOK
  <2>3. UNCHANGED inFlight
    BY <2>1, Sorts DEF End, InFlightAfter, SavesOK
  <2> QED BY <2>2, <2>3, LineKept
<1>11. ASSUME NEW w \in Writers, NEW p \in Pages, OutsideEdit(w, p) PROVE ChainInv'
  <2>1. \A s \in Saves : stage'[s] = stage[s] /\ after'[s] = after[s]
    BY <1>11, Sorts DEF OutsideEdit, SavesOK
  <2> QED BY <1>11, <2>1, LineKept DEF OutsideEdit
<1>12. ASSUME NEW o \in Opens, Reload(o) \/ Opened(o) PROVE ChainInv'
  BY <1>1, <1>12 DEF Reload, Opened
<1>13. CASE Type \/ ReadCurrent \/ UNCHANGED vars
  BY <1>1, <1>13 DEF Type, ReadCurrent, vars, saves
<1>14. ASSUME NEW w \in Writers, ChangeSheet(w) \/ SaveSpecial(w) PROVE ChainInv'
  BY <1>8, <1>14 DEF ChangeSheet, SaveSpecial
<1> QED
  BY <1>3, <1>4, <1>5, <1>6, <1>7, <1>9, <1>10, <1>11, <1>12, <1>13, <1>14
     DEF Next, CommandEnds

LEMMA OnlyFirst ==
  ASSUME ChainInv, NEW s \in Saves, NEW t \in Saves, First(s), First(t)
  PROVE  s = t
<1>0. PICK n \in Nat : \E q \in [1..n -> Saves] : IsLine(n, q)
  BY DEF ChainInv
<1>1. PICK q \in [1..n -> Saves] : IsLine(n, q)
  BY <1>0
<1> QED BY <1>1, FirstOfLine

\* Two saves at their command would both be the first of the line.
LEMMA OneFirst == ChainInv => OneSaveAtATime
BY OnlyFirst DEF OneSaveAtATime, First

LEMMA InFlightIsLast ==
  ChainInv => /\ inFlight = None <=> \A s \in Saves : ~UnderWay(s)
              /\ inFlight # None => inFlight \in Saves /\ UnderWay(inFlight)
<1> SUFFICES ASSUME ChainInv
             PROVE  /\ inFlight = None <=> \A s \in Saves : ~UnderWay(s)
                    /\ inFlight # None => inFlight \in Saves /\ UnderWay(inFlight)
  OBVIOUS
<1>0. PICK n \in Nat : \E q \in [1..n -> Saves] : IsLine(n, q)
  BY DEF ChainInv
<1>1. PICK q \in [1..n -> Saves] : IsLine(n, q)
  BY <1>0
<1>2. n # 0 => n \in 1..n /\ q[n] \in Saves
  OBVIOUS
<1>3. CASE n = 0
  <2>1. \A i \in 1..n : FALSE
    BY <1>3
  <2> QED BY <1>1, <1>3, <2>1 DEF IsLine
<1>4. CASE n # 0
  <2>1. inFlight = q[n] /\ UnderWay(q[n])
    BY <1>1, <1>2, <1>4 DEF IsLine
  <2> QED BY <1>2, <1>4, <2>1, Sorts
<1> QED BY <1>3, <1>4

-----------------------------------------------------------------------------
(***************************************************************************)
(* Bodies and the pages they were typed on.                                *)
(***************************************************************************)
LEMMA HomeSplit == HomeInv => FilesAtHome /\ CallsAtHome /\ ReadAtHome /\ ScreenAtHome
BY DEF HomeInv

LEMMA HomeJoin == FilesAtHome' /\ CallsAtHome' /\ ReadAtHome' /\ ScreenAtHome' => HomeInv'
BY DEF HomeInv

\* What the editor writes to a page is at home there.
LEMMA HomeKeeps == Types /\ HomeInv => BodiesStayHome
<1> SUFFICES ASSUME Types, HomeInv, NEW n \in Drafts, NEW p \in Pages \ misloaded
             PROVE  /\ n \in {disk[p].body, runtime[p].body} => home[n] = p
                    /\ \A a \in Actors :
                         page[a] = p /\ content[a] # None /\ content[a].body = n => home[n] = p
  BY DEF BodiesStayHome
<1>1. n \in {disk[p].body, runtime[p].body} => home[n] = p
  BY DEF HomeInv, FilesAtHome, AtHome
<1>2. ASSUME NEW a \in Actors, page[a] = p, content[a] # None, content[a].body = n
      PROVE  home[n] = p
  <2>1. AtHome(content[a].body, page[a])
    BY <1>2 DEF HomeInv, CallsAtHome
  <2> QED BY <1>2, <2>1 DEF AtHome
<1> QED BY <1>1, <1>2

LEMMA TypeHome ==
  ASSUME Types, HomeInv, Type
  PROVE  HomeInv'
<1>1. /\ typed < MaxTyped /\ typed' = typed + 1 /\ typed \in Nat /\ MaxTyped \in Nat
      /\ home' = [home EXCEPT ![typed + 1] = current] /\ dom' = typed + 1
      /\ UNCHANGED <<disk, runtime, content, before, page, current, reading, misloaded>>
  BY EditorAssumption DEF Type, files, saves, reload, Types, EditorAssumption
<1>2. typed + 1 \in Drafts /\ home[typed + 1] = None /\ home \in [Drafts -> Pages \cup {None}]
      /\ current \in Pages
  BY <1>1, HomeSplit DEF Drafts, ScreenAtHome, Types
<1>3. ASSUME NEW c, NEW p \in Pages, AtHome(c, p) PROVE AtHome(c, p)'
  BY <1>1, <1>2, <1>3, Sorts DEF AtHome
<1>4. FilesAtHome'
  BY <1>1, <1>3, HomeSplit DEF FilesAtHome
<1>5. CallsAtHome'
  BY <1>1, <1>3, HomeSplit DEF CallsAtHome
<1>6. ReadAtHome'
  BY <1>1, <1>3, HomeSplit DEF ReadAtHome, Types, Reading
<1>7. ScreenAtHome'
  <2>1. \A n \in Drafts : n > typed + 1 => n > typed /\ n # typed + 1
    BY <1>1 DEF Drafts
  <2> QED BY <1>1, <1>2, <2>1, HomeSplit DEF ScreenAtHome, AtHome
<1> QED BY <1>4, <1>5, <1>6, <1>7, HomeJoin

\* A candidate has the body on the screen.
LEMMA PersistHome ==
  ASSUME Types, HomeInv, NEW s \in Saves, Persist(s, current), UNCHANGED <<home, misloaded>>,
         page'[s] = current, \A a \in Actors : a # s => page'[a] = page[a]
  PROVE  CallsAtHome'
<1>1. /\ Candidate(current).body = dom /\ current \in Pages /\ s \in Actors
      /\ content' = [content EXCEPT ![s] = Candidate(current)]
      /\ before' = [before EXCEPT ![s] = runtime[current]]
  BY CandidateType, Sorts DEF Types, Persist
<1>2. AtHome(Candidate(current).body, current) /\ AtHome(runtime[current].body, current)
  BY <1>1, HomeSplit DEF AtHome, ScreenAtHome, FilesAtHome
<1>3. /\ content'[s] = Candidate(current) /\ before'[s] = runtime[current]
      /\ \A a \in Actors : a # s => content'[a] = content[a] /\ before'[a] = before[a]
  BY <1>1 DEF Types
<1>4. CallsAtHome
  BY HomeSplit
<1> QED BY <1>2, <1>3, <1>4 DEF CallsAtHome, AtHome

LEMMA RequestHome ==
  ASSUME Types, ProgressInv, HomeInv, NEW s \in Saves, Request(s), UNCHANGED <<home, misloaded>>
  PROVE  CallsAtHome'
<1>1. /\ page' = [page EXCEPT ![s] = current] /\ s \in Actors
      /\ content[s] = None /\ before[s] = None
  BY Sorts DEF Request, ProgressInv, Kinds
<1>2. page'[s] = current /\ \A a \in Actors : a # s => page'[a] = page[a]
  BY <1>1 DEF Types
<1>3. CASE ChainedAfter(s) = None
  BY <1>2, <1>3, PersistHome DEF Request
<1>4. CASE ChainedAfter(s) # None
  <2>1. UNCHANGED <<content, before>>
    BY <1>4 DEF Request
  <2> QED BY <1>1, <1>2, <2>1, HomeSplit DEF CallsAtHome, AtHome
<1> QED BY <1>3, <1>4

LEMMA BeginWriteHome ==
  ASSUME Types, HomeInv, NEW w \in Writers, NEW k, NEW p \in Pages, NEW c, NEW e,
         AtHome(c.body, p), BeginWrite(w, k, p, c, e)
  PROVE  HomeInv'
<1>1. /\ content' = [content EXCEPT ![w] = c] /\ page' = [page EXCEPT ![w] = p]
      /\ before' = [before EXCEPT ![w] = runtime[p]] /\ w \in Actors
      /\ UNCHANGED <<home, typed, dom, current, disk, runtime, reading, misloaded>>
  BY Sorts DEF BeginWrite, files, session, reload
<1>2. CallsAtHome'
  <2>1. /\ content'[w] = c /\ page'[w] = p /\ before'[w] = runtime[p]
        /\ \A a \in Actors : a # w => content'[a] = content[a] /\ before'[a] = before[a]
                                      /\ page'[a] = page[a]
    BY <1>1 DEF Types
  <2>2. AtHome(runtime[p].body, p) /\ CallsAtHome
    BY HomeSplit DEF FilesAtHome
  <2> QED BY <1>1, <2>1, <2>2 DEF CallsAtHome, AtHome
<1>3. FilesAtHome' /\ ReadAtHome' /\ ScreenAtHome'
  BY <1>1, HomeSplit DEF FilesAtHome, ReadAtHome, ScreenAtHome, AtHome
<1> QED BY <1>2, <1>3, HomeJoin

\* What a call writes, or brings back, is of its own page.
LEMMA EndHome ==
  ASSUME Types, ProgressInv, HomeInv, NEW a \in Actors, stage[a] \in {"persisting"} \cup Kinds,
         NEW r, End(a, r), UNCHANGED <<home, typed, dom, current, page, reading, misloaded>>,
         disk' = disk \/ disk' = [disk EXCEPT ![page[a]] = content[a]],
         \/ runtime' = runtime
         \/ runtime' = [runtime EXCEPT ![page[a]] = content[a]]
         \/ runtime' = [runtime EXCEPT ![page[a]] = before[a]]
  PROVE  HomeInv'
<1>1. page[a] \in Pages /\ content[a] # None /\ before[a] # None
  BY ContentAssumption DEF ProgressInv, Kinds
<1>2. AtHome(content[a].body, page[a]) /\ AtHome(before[a].body, page[a])
  BY <1>1, HomeSplit DEF CallsAtHome
<1>3. FilesAtHome'
  <2>1. ASSUME NEW p \in Pages PROVE AtHome(disk'[p].body, p) /\ AtHome(runtime'[p].body, p)
    <3>1. CASE p = page[a]
      BY <1>1, <1>2, <3>1, HomeSplit DEF Types, FilesAtHome
    <3>2. CASE p # page[a]
      BY <1>1, <3>2, HomeSplit DEF Types, FilesAtHome
    <3> QED BY <3>1, <3>2
  <2> QED BY <2>1 DEF FilesAtHome, AtHome
<1>4. CallsAtHome'
  <2>1. \A b \in Actors : content'[b] \in {content[b], None} /\ before'[b] \in {before[b], None}
    BY DEF End, Types
  <2> QED BY <2>1, HomeSplit DEF CallsAtHome, AtHome
<1>5. ReadAtHome' /\ ScreenAtHome'
  BY HomeSplit DEF ReadAtHome, ScreenAtHome, AtHome
<1> QED BY <1>3, <1>4, <1>5, HomeJoin

LEMMA ShowHome ==
  ASSUME Types, HomeInv, NEW o \in Opens, NEW p \in Pages, Show(o, p),
         UNCHANGED <<home, typed, misloaded>>
  PROVE  ScreenAtHome'
BY HomeSplit DEF Show, ScreenAtHome, FilesAtHome, AtHome

\* A reload puts what was read of a page on that page, or the page is misloaded.
LEMMA ReloadHome ==
  ASSUME Types, ProgressInv, HomeInv, NEW o \in Opens, Reload(o)
  PROVE  HomeInv'
<1>0. PICK p, c : p = reading.pageId /\ c = reading.content
  OBVIOUS
<1>1. /\ reading # None /\ p \in Pages /\ reading' = None
      /\ runtime' = [runtime EXCEPT ![p] = c]
      /\ misloaded' = IF reading.page # p THEN misloaded \cup {p} ELSE misloaded
      /\ UNCHANGED <<disk, home, typed, page, content, before>>
  BY <1>0 DEF Reload, saves, Types, Reading
<1>2. c.body \in Drafts => home'[c.body] \in Pages /\ (p \notin misloaded' => home'[c.body] = p)
  BY <1>0, <1>1, HomeSplit DEF ReadAtHome, AtHome
<1>3. FilesAtHome'
  <2>1. \A q \in Pages : runtime'[q] = IF q = p THEN c ELSE runtime[q]
    BY <1>1 DEF Types
  <2>2. FilesAtHome
    BY HomeSplit
  <2> QED BY <1>1, <1>2, <2>1, <2>2 DEF FilesAtHome, AtHome
<1>4. CallsAtHome'
  BY <1>1, HomeSplit DEF CallsAtHome, AtHome
<1>5. ReadAtHome'
  BY <1>1 DEF ReadAtHome
<1>6. ScreenAtHome'
  <2>1. CASE inFlight # None
    BY <1>1, <2>1, HomeSplit DEF Reload, WaitFor, session, ScreenAtHome, AtHome
  <2>2. CASE inFlight = None
    <3>1. current' = p /\ dom' = c.body
      BY <1>0, <2>2 DEF Reload
    <3> QED BY <1>1, <1>2, <3>1, HomeSplit DEF ScreenAtHome, AtHome
  <2> QED BY <2>1, <2>2
<1> QED BY <1>3, <1>4, <1>5, <1>6, HomeJoin

LEMMA HomeStep == Types /\ ProgressInv /\ HomeInv /\ [Next]_vars => HomeInv'
<1> SUFFICES ASSUME Types, ProgressInv, HomeInv, [Next]_vars PROVE HomeInv'
  OBVIOUS
<1>0. FilesAtHome /\ CallsAtHome /\ ReadAtHome /\ ScreenAtHome
  BY HomeSplit
<1> USE DEF files, session, calls, reload
<1>1. ASSUME UNCHANGED <<disk, runtime, dom, current, home, typed, reading, misloaded>>, CallsAtHome'
      PROVE  HomeInv'
  <2>1. FilesAtHome' /\ ReadAtHome' /\ ScreenAtHome'
    BY <1>0, <1>1 DEF FilesAtHome, ReadAtHome, ScreenAtHome, AtHome
  <2> QED BY <1>1, <2>1, HomeJoin
<1>2. ASSUME NEW s \in Saves, Request(s),
             UNCHANGED <<disk, runtime, dom, current, home, typed, reading, misloaded>>
      PROVE  HomeInv'
  BY <1>1, <1>2, RequestHome
<1>3. CASE UNCHANGED <<disk, runtime, dom, current, home, typed, reading, misloaded, content, before, page>>
  <2>1. CallsAtHome'
    BY <1>0, <1>3 DEF CallsAtHome, AtHome
  <2> QED BY <1>1, <1>3, <2>1
<1>4. CASE TimerFires
  <2>1. CASE pending = current
    BY <1>2, <1>4, <2>1, Sorts DEF TimerFires, Timer, ProgressInv
  <2>2. CASE pending # current
    BY <1>3, <1>4, <2>2 DEF TimerFires, Timer, saves
  <2> QED BY <2>1, <2>2
<1>5. ASSUME NEW s \in Manual, SaveNow(s) PROVE HomeInv'
  BY <1>2, <1>5, Sorts DEF SaveNow
<1>6. ASSUME NEW s \in Saves, GoOn(s) PROVE HomeInv'
  <2>0. UNCHANGED <<disk, runtime, dom, current, home, typed, reading, misloaded, page>>
    BY <1>6 DEF GoOn
  <2>1. CASE result[after[s]] = "passed" /\ ~HasLeft(s)
    <3>1. Persist(s, current) /\ page[s] = current
      BY <1>6, <2>1 DEF GoOn, HasLeft
    <3>2. CallsAtHome'
      BY <2>0, <3>1, PersistHome
    <3> QED BY <1>1, <2>0, <3>2
  <2>2. CASE ~(result[after[s]] = "passed" /\ ~HasLeft(s))
    <3>1. content' = [content EXCEPT ![s] = None] /\ before' = [before EXCEPT ![s] = None]
      BY <1>6, <2>2 DEF GoOn, End
    <3>2. \A b \in Actors : content'[b] \in {content[b], None} /\ before'[b] \in {before[b], None}
      BY <3>1 DEF Types
    <3>3. CallsAtHome'
      BY <1>0, <2>0, <3>2 DEF CallsAtHome, AtHome
    <3> QED BY <1>1, <2>0, <3>3
  <2> QED BY <2>1, <2>2
<1>7. ASSUME NEW s \in Saves, SaveEnds(s) PROVE HomeInv'
  <2>1. s \in Actors /\ stage[s] = "persisting"
    BY <1>7, Sorts DEF SaveEnds, Saved, StaleSave, Refuse, Skip
  <2>2. PICK r : End(s, r)
    BY <1>7 DEF SaveEnds, Saved, StaleSave, Superseded, Refuse, NotSaved, Skip
  <2>3. /\ UNCHANGED <<home, typed, dom, current, page, reading, misloaded>>
        /\ disk' = disk \/ disk' = [disk EXCEPT ![page[s]] = content[s]]
        /\ \/ runtime' = runtime
           \/ runtime' = [runtime EXCEPT ![page[s]] = content[s]]
           \/ runtime' = [runtime EXCEPT ![page[s]] = before[s]]
    BY <1>7 DEF SaveEnds, Saved, StaleSave, Superseded, Refuse, NotSaved, Skip
  <2> QED BY <2>1, <2>2, <2>3, EndHome
<1>8. ASSUME NEW w \in Writers,
             WriterSaved(w) \/ StaleWriter(w) \/ \E landed \in BOOLEAN : WriterFails(w, landed)
      PROVE  HomeInv'
  <2>1. w \in Actors /\ stage[w] \in Kinds
    BY <1>8, Sorts DEF WriterSaved, StaleWriter, WriterFails
  <2>2. PICK r : End(w, r)
    BY <1>8 DEF WriterSaved, StaleWriter, Superseded, WriterFails, NotSaved
  <2>3. /\ UNCHANGED <<home, typed, dom, current, page, reading, misloaded>>
        /\ disk' = disk \/ disk' = [disk EXCEPT ![page[w]] = content[w]]
        /\ \/ runtime' = runtime
           \/ runtime' = [runtime EXCEPT ![page[w]] = content[w]]
           \/ runtime' = [runtime EXCEPT ![page[w]] = before[w]]
    BY <1>8 DEF WriterSaved, StaleWriter, Superseded, WriterFails, NotSaved
  <2> QED BY <2>1, <2>2, <2>3, EndHome
<1>9. ASSUME NEW o \in Opens, NEW p \in Pages, OpenPage(o, p) PROVE HomeInv'
  <2>0. UNCHANGED <<disk, runtime, home, typed, reading, misloaded>>
    BY <1>9 DEF OpenPage
  <2>1. CASE Flushes
    BY <1>2, <1>9, <2>0, <2>1, Sorts DEF OpenPage, Flushes, ProgressInv, Types, WaitFor
  <2>2. CASE ~Flushes /\ pending = None /\ inFlight # None
    BY <1>3, <1>9, <2>0, <2>2 DEF OpenPage, WaitFor, saves
  <2>3. CASE ~Flushes /\ ~(pending = None /\ inFlight # None)
    <3>1. Show(o, p) /\ UNCHANGED <<content, before, page>>
      BY <1>9, <2>3 DEF OpenPage, saves
    <3>2. ScreenAtHome'
      BY <2>0, <3>1, ShowHome
    <3>3. FilesAtHome' /\ CallsAtHome' /\ ReadAtHome'
      BY <1>0, <2>0, <3>1 DEF FilesAtHome, CallsAtHome, ReadAtHome, AtHome
    <3> QED BY <3>2, <3>3, HomeJoin
  <2> QED BY <2>1, <2>2, <2>3
<1>10. ASSUME NEW o \in Opens, Opened(o) PROVE HomeInv'
  <2>1. UNCHANGED <<disk, runtime, content, before, page, home, typed, reading, misloaded>>
    BY <1>10 DEF Opened, saves
  <2>2. target[o] \in Pages
    BY <1>10 DEF Opened, ProgressInv
  <2>3. ScreenAtHome'
    BY <1>0, <1>10, <2>1, <2>2, ShowHome DEF Opened, ScreenAtHome, AtHome
  <2>4. FilesAtHome' /\ CallsAtHome' /\ ReadAtHome'
    BY <1>0, <2>1 DEF FilesAtHome, CallsAtHome, ReadAtHome, AtHome
  <2> QED BY <2>3, <2>4, HomeJoin
<1>11. ASSUME NEW o \in Opens, Reload(o) PROVE HomeInv'
  BY <1>11, ReloadHome
<1>12. ASSUME NEW w \in Writers, NEW p \in Pages, MovePage(w, p) \/ UndoProperty(w, p)
       PROVE  HomeInv'
  <2>1. AtHome([runtime[p] EXCEPT !.rest = w].body, p) /\ AtHome([runtime[p] EXCEPT !.body = w].body, p)
    BY <1>0, Sorts DEF FilesAtHome, AtHome, Types, Content
  <2> QED BY <1>12, <2>1, BeginWriteHome DEF MovePage, UndoProperty
<1>13. ASSUME NEW w \in Writers, ChangeSheet(w) \/ SaveSpecial(w) PROVE HomeInv'
  <2>1. current \in Pages /\ AtHome([runtime[current] EXCEPT !.rest = w].body, current)
    BY <1>0 DEF FilesAtHome, AtHome, Types, Content
  <2>2. AtHome(Candidate(current).body, current)
    BY <1>0, <2>1, CandidateType DEF ScreenAtHome, AtHome
  <2> QED BY <1>13, <2>1, <2>2, BeginWriteHome DEF ChangeSheet, SaveSpecial
<1>14. ASSUME NEW w \in Writers, NEW p \in Pages, OutsideEdit(w, p) PROVE HomeInv'
  <2>1. /\ UNCHANGED <<runtime, content, before, home, typed, dom, current, reading, misloaded>>
        /\ disk' = [disk EXCEPT ![p] = [of |-> p, body |-> w, rest |-> w]]
        /\ page' = [page EXCEPT ![w] = p] /\ w \in Actors /\ stage[w] = "idle"
    BY <1>14, Sorts DEF OutsideEdit
  <2>2. FilesAtHome'
    BY <1>0, <2>1, Sorts DEF FilesAtHome, AtHome, Types
  <2>3. CallsAtHome'
    <3>1. content[w] = None /\ before[w] = None
      BY <2>1 DEF ProgressInv, Kinds
    <3>2. \A a \in Actors : a # w => page'[a] = page[a]
      BY <2>1 DEF Types
    <3> QED BY <1>0, <2>1, <3>1, <3>2 DEF CallsAtHome, AtHome
  <2>4. ReadAtHome' /\ ScreenAtHome'
    BY <1>0, <2>1 DEF ReadAtHome, ScreenAtHome, AtHome
  <2> QED BY <2>2, <2>3, <2>4, HomeJoin
<1>15. CASE Type
  BY <1>15, TypeHome
<1>16. CASE UNCHANGED vars
  BY <1>3, <1>16 DEF vars
<1>17. CASE ReadCurrent
  <2>1. /\ UNCHANGED <<disk, runtime, content, before, page, home, typed, dom, current, misloaded>>
        /\ reading'.page \in Pages /\ reading'.content = disk[reading'.page]
    BY <1>17 DEF ReadCurrent, saves, Types, Conflict
  <2>2. ReadAtHome'
    BY <1>0, <2>1 DEF FilesAtHome, ReadAtHome, AtHome
  <2>3. FilesAtHome' /\ CallsAtHome' /\ ScreenAtHome'
    BY <1>0, <2>1 DEF FilesAtHome, CallsAtHome, ScreenAtHome, AtHome
  <2> QED BY <2>2, <2>3, HomeJoin
<1> QED
  BY <1>4, <1>5, <1>6, <1>7, <1>8, <1>9, <1>10, <1>11, <1>12, <1>13, <1>14, <1>15, <1>16, <1>17
     DEF Next, CommandEnds

-----------------------------------------------------------------------------
(***************************************************************************)
(* Bases and files of a page that no other writer has been at.             *)
(***************************************************************************)
FilesCause(p) ==
  /\ base.pageId = p => current = p
  /\ p \notin apart => /\ runtime[p] = disk[p]
                       /\ base.pageId = p /\ base.content.of = p => base.content = disk[p]

SavesCause(p) ==
  \A s \in Saves : stage[s] = "persisting" /\ page[s] = p =>
    /\ newest[p] = s
    /\ p \notin apart => /\ before[s] = disk[p]
                         /\ expected[s] # None /\ expected[s].of = p => expected[s] = disk[p]

LEMMA CauseSplit == CauseInv <=> \A p \in Pages : Undisturbed(p) => FilesCause(p) /\ SavesCause(p)
BY DEF CauseInv, FilesCause, SavesCause

LEMMA CauseJoin ==
  (\A p \in Pages : Undisturbed(p)' => FilesCause(p)' /\ SavesCause(p)') => CauseInv'
BY DEF CauseInv, FilesCause, SavesCause, Undisturbed

\* A candidate is built on the base of the editor, which is what is in the file.
LEMMA PersistCause ==
  ASSUME Types, NEW s \in Saves, NEW p \in Pages, Persist(s, current), FilesCause(p),
         \A t \in Saves : stage[t] # "persisting",
         page'[s] = current, disk'[p] = disk[p], UNCHANGED apart
  PROVE  SavesCause(p)'
<1>1. /\ stage' = [stage EXCEPT ![s] = "persisting"] /\ current \in Pages /\ s \in Actors
      /\ expected' = [expected EXCEPT ![s] = BaseOf(current)]
      /\ newest' = [newest EXCEPT ![current] = s]
      /\ before' = [before EXCEPT ![s] = runtime[current]]
  BY Sorts DEF Persist, Types
<1>2. \A t \in Saves : stage'[t] = "persisting" => t = s
  BY <1>1, Sorts DEF Types
<1>3. newest'[current] = s /\ expected'[s] = BaseOf(current) /\ before'[s] = runtime[current]
  BY <1>1 DEF Types
<1>4. current = p /\ p \notin apart =>
        runtime[p] = disk[p] /\ (BaseOf(p) # None /\ BaseOf(p).of = p => BaseOf(p) = disk[p])
  BY DEF FilesCause, BaseOf
<1> QED BY <1>2, <1>3, <1>4 DEF SavesCause

LEMMA RequestCause ==
  ASSUME Types, ChainInv, NEW s \in Saves, Request(s), NEW p \in Pages,
         FilesCause(p), SavesCause(p), disk'[p] = disk[p], UNCHANGED apart
  PROVE  SavesCause(p)'
<1>1. page' = [page EXCEPT ![s] = current] /\ s \in Actors /\ stage[s] = "idle"
  BY Sorts DEF Request
<1>2. CASE inFlight = None
  <2>1. Persist(s, current)
    BY <1>2 DEF Request, ChainedAfter
  <2>2. \A t \in Saves : stage[t] # "persisting"
    BY <1>2, InFlightIsLast DEF UnderWay
  <2> QED BY <1>1, <2>1, <2>2, PersistCause DEF Types
<1>3. CASE inFlight # None
  <2>1. stage' = [stage EXCEPT ![s] = "waiting"] /\ UNCHANGED <<content, expected, newest, before>>
    BY <1>3 DEF Request, ChainedAfter
  <2>2. \A t \in Saves : stage'[t] = "persisting" => stage[t] = "persisting" /\ page'[t] = page[t]
    BY <1>1, <2>1, Sorts DEF Types
  <2> QED BY <2>1, <2>2 DEF SavesCause
<1> QED BY <1>2, <1>3

\* The end of a call, if the file of the page stays or the page is apart.
LEMMA EndCause ==
  ASSUME Types, NEW a \in Actors, NEW r, End(a, r), UNCHANGED <<page, newest>>,
         NEW p \in Pages, SavesCause(p),
         p \notin apart' => p \notin apart /\ disk'[p] = disk[p]
  PROVE  SavesCause(p)'
<1>1. \A t \in Saves : stage'[t] = "persisting" =>
        stage[t] = "persisting" /\ expected'[t] = expected[t] /\ before'[t] = before[t]
  BY Sorts DEF End, Types
<1> QED BY <1>1 DEF SavesCause

LEMMA BeginWriteCause ==
  ASSUME Types, ProgressInv, CauseInv, NEW w \in Writers, NEW k \in Kinds, NEW q \in Pages,
         NEW c, NEW e, BeginWrite(w, k, q, c, e)
  PROVE  CauseInv'
<1>1. /\ stage[w] = "idle" /\ w \in Actors
      /\ stage' = [stage EXCEPT ![w] = k] /\ page' = [page EXCEPT ![w] = q]
      /\ expected' = [expected EXCEPT ![w] = e] /\ newest' = [newest EXCEPT ![q] = w]
      /\ before' = [before EXCEPT ![w] = runtime[q]]
      /\ UNCHANGED <<disk, runtime, base, current, apart>>
  BY Sorts DEF BeginWrite, files, session
<1> SUFFICES ASSUME NEW p \in Pages, Undisturbed(p)' PROVE FilesCause(p)' /\ SavesCause(p)'
  BY CauseJoin
<1>2. page'[w] = q /\ p # q /\ page[w] = None
  BY <1>1 DEF Undisturbed, Types, ProgressInv
<1>3. Undisturbed(p)
  BY <1>1, <1>2, Sorts DEF Undisturbed, Types
<1>4. FilesCause(p) /\ SavesCause(p)
  BY <1>3, CauseSplit
<1>5. \A s \in Saves : stage'[s] = stage[s] /\ page'[s] = page[s] /\ expected'[s] = expected[s]
                       /\ before'[s] = before[s]
  BY <1>1, Sorts DEF Types
<1>6. newest'[p] = newest[p]
  BY <1>1, <1>2 DEF Types
<1>7. FilesCause(p)'
  BY <1>1, <1>4 DEF FilesCause
<1>8. SavesCause(p)'
  BY <1>1, <1>4, <1>5, <1>6 DEF SavesCause
<1> QED BY <1>7, <1>8

\* A save that is confirmed leaves one content in the file, the page and the base.
LEMMA SavedCause ==
  ASSUME Types, ProgressInv, ChainInv, NEW s \in Saves, Saved(s), NEW p \in Pages,
         FilesCause(p), SavesCause(p)
  PROVE  FilesCause(p)' /\ SavesCause(p)'
<1>1. /\ s \in Actors /\ stage[s] = "persisting" /\ End(s, "passed") /\ UNCHANGED <<page, newest, current>>
      /\ disk' = [disk EXCEPT ![page[s]] = content[s]] /\ apart' = apart \ {page[s]}
      /\ runtime' = [runtime EXCEPT ![page[s]] = content[s]] /\ base' = BaseAfterSave(s)
  BY Sorts DEF Saved
<1>2. page[s] \in Pages /\ content[s] \in Content
  BY <1>1 DEF ProgressInv
<1>3. CASE p # page[s]
  <2>1. disk'[p] = disk[p] /\ runtime'[p] = runtime[p] /\ (p \notin apart' => p \notin apart)
    BY <1>1, <1>3 DEF Types
  <2>2. FilesCause(p)'
    BY <1>1, <1>3, <2>1 DEF FilesCause, BaseAfterSave
  <2> QED BY <1>1, <2>1, <2>2, EndCause
<1>4. CASE p = page[s]
  <2>1. disk'[p] = content[s] /\ runtime'[p] = content[s]
    BY <1>1, <1>4 DEF Types
  <2>2. FilesCause(p)'
    BY <1>1, <1>4, <2>1 DEF FilesCause, BaseAfterSave
  <2>3. \A t \in Saves : stage'[t] # "persisting"
    BY <1>1, OneFirst, Sorts DEF OneSaveAtATime, End, Types
  <2> QED BY <2>2, <2>3 DEF SavesCause
<1> QED BY <1>3, <1>4

\* On an undisturbed page the save at its command is the newest.
LEMMA StaleSaveCause ==
  ASSUME Types, ProgressInv, NEW s \in Saves, StaleSave(s), NEW p \in Pages,
         FilesCause(p), SavesCause(p)
  PROVE  FilesCause(p)' /\ SavesCause(p)'
<1>1. /\ s \in Actors /\ stage[s] = "persisting" /\ newest[page[s]] # s /\ End(s, "failed")
      /\ UNCHANGED <<page, newest, current, base, runtime, apart>>
      /\ disk' = [disk EXCEPT ![page[s]] = content[s]]
  BY Sorts DEF StaleSave, Superseded, session
<1>2. p # page[s]
  BY <1>1 DEF SavesCause
<1>3. disk'[p] = disk[p]
  BY <1>1, <1>2 DEF Types
<1> QED BY <1>1, <1>3, EndCause DEF FilesCause

\* A save that is not confirmed: its page is apart, or has its file again.
LEMMA RefuseCause ==
  ASSUME Types, ProgressInv, NEW s \in Saves, NEW landed \in BOOLEAN, Refuse(s, landed),
         NEW p \in Pages, FilesCause(p), SavesCause(p)
  PROVE  FilesCause(p)' /\ SavesCause(p)'
<1>1. /\ s \in Actors /\ stage[s] = "persisting" /\ End(s, "failed")
      /\ UNCHANGED <<page, newest, current, base>> /\ page[s] \in Pages
      /\ disk' = IF landed THEN [disk EXCEPT ![page[s]] = content[s]] ELSE disk
      /\ apart' = IF landed THEN apart \cup {page[s]} ELSE apart
      /\ runtime' \in {runtime, [runtime EXCEPT ![page[s]] = before[s]]}
  BY Sorts DEF Refuse, NotSaved, session, ProgressInv
<1>2. p \notin apart' => p \notin apart /\ disk'[p] = disk[p]
  BY <1>1 DEF Types
<1>3. runtime'[p] = runtime[p] \/ (p = page[s] /\ runtime'[p] = before[s])
  BY <1>1 DEF Types
<1>4. p = page[s] /\ p \notin apart => before[s] = disk[p]
  BY <1>1 DEF SavesCause
<1>5. FilesCause(p)'
  BY <1>1, <1>2, <1>3, <1>4 DEF FilesCause
<1> QED BY <1>1, <1>2, <1>5, EndCause

LEMMA WriterEndsCause ==
  ASSUME Types, ProgressInv, NEW w \in Writers,
         WriterSaved(w) \/ StaleWriter(w) \/ \E landed \in BOOLEAN : WriterFails(w, landed),
         NEW p \in Pages, Undisturbed(p), FilesCause(p), SavesCause(p)
  PROVE  FilesCause(p)' /\ SavesCause(p)'
<1>1. /\ w \in Actors /\ stage[w] \in Kinds /\ UNCHANGED <<page, newest, current, apart>>
      /\ disk' = disk \/ disk' = [disk EXCEPT ![page[w]] = content[w]]
      /\ \/ runtime' = runtime
         \/ runtime' = [runtime EXCEPT ![page[w]] = content[w]]
         \/ runtime' = [runtime EXCEPT ![page[w]] = before[w]]
      /\ base' = base \/ base' = BaseAfter(w)
      /\ End(w, "passed") \/ End(w, "failed")
  BY Sorts DEF WriterSaved, StaleWriter, Superseded, WriterFails, NotSaved, session
<1>2. p # page[w]
  BY DEF Undisturbed
<1>3. stage[w] = "special" => content[w].of = page[w]
  BY <1>1 DEF ProgressInv
<1>4. disk'[p] = disk[p] /\ runtime'[p] = runtime[p]
  BY <1>1, <1>2 DEF Types
<1>5. \/ base' = base \/ base'.pageId = page[w]
      \/ base'.pageId = current /\ base'.content.of = page[w]
  <2>1. \/ BaseAfter(w) = base
        \/ BaseAfter(w) = [pageId |-> page[w], content |-> content[w]]
        \/ stage[w] = "special" /\ BaseAfter(w) = [pageId |-> current, content |-> content[w]]
    <3>1. CASE stage[w] = "move"
      BY <3>1 DEF BaseAfter
    <3>2. CASE stage[w] = "sheet"
      BY <3>2 DEF BaseAfter
    <3>3. CASE stage[w] = "special"
      BY <3>3 DEF BaseAfter
    <3>4. CASE stage[w] = "undo"
      BY <3>4 DEF BaseAfter
    <3> QED BY <1>1, <3>1, <3>2, <3>3, <3>4 DEF Kinds
  <2> QED BY <1>1, <1>3, <2>1
<1>6. FilesCause(p)'
  BY <1>1, <1>2, <1>4, <1>5 DEF FilesCause
<1> QED BY <1>1, <1>4, <1>6, EndCause

\* A reload leaves its page apart, or with its file in memory and in the base.
LEMMA ReloadCause ==
  ASSUME Types, ProgressInv, ChainInv, NEW o \in Opens, Reload(o), NEW p \in Pages,
         FilesCause(p), SavesCause(p)
  PROVE  FilesCause(p)' /\ SavesCause(p)'
<1>0. PICK q, c : q = reading.pageId /\ c = reading.content
  OBVIOUS
<1>1. /\ q \in Pages /\ UNCHANGED <<disk, stage, page, newest, expected, before>>
      /\ runtime' = [runtime EXCEPT ![q] = c]
      /\ apart' = IF c # disk[q] THEN apart \cup {q}
                  ELSE IF inFlight = None THEN apart \ {q} ELSE apart
  BY <1>0 DEF Reload, saves, Types, Reading
<1>2. runtime'[p] = IF p = q THEN c ELSE runtime[p]
  BY <1>1 DEF Types
<1>3. CASE inFlight # None
  <2>1. UNCHANGED <<current, base>>
    BY <1>3 DEF Reload, WaitFor, session
  <2>2. FilesCause(p)'
    BY <1>1, <1>2, <1>3, <2>1 DEF FilesCause
  <2>3. SavesCause(p)'
    BY <1>1, <1>3 DEF SavesCause
  <2> QED BY <2>2, <2>3
<1>4. CASE inFlight = None
  <2>1. current' = q /\ base' = [pageId |-> q, content |-> c]
    BY <1>0, <1>4 DEF Reload
  <2>2. FilesCause(p)'
    BY <1>1, <1>2, <1>4, <2>1 DEF FilesCause
  <2>3. \A t \in Saves : stage[t] # "persisting"
    BY <1>4, InFlightIsLast DEF UnderWay
  <2>4. SavesCause(p)'
    BY <1>1, <2>3 DEF SavesCause
  <2> QED BY <2>2, <2>4
<1> QED BY <1>3, <1>4

LEMMA CauseStep ==
  Types /\ ProgressInv /\ ChainInv /\ CauseInv /\ [Next]_vars => CauseInv'
<1> SUFFICES ASSUME Types, ProgressInv, ChainInv, CauseInv, [Next]_vars PROVE CauseInv'
  OBVIOUS
<1> USE DEF files, session, calls
<1>1. ASSUME NEW w \in Writers, NEW p \in Pages, MovePage(w, p) \/ UndoProperty(w, p)
      PROVE  CauseInv'
  BY <1>1, BeginWriteCause DEF MovePage, UndoProperty, Kinds
<1>2. ASSUME NEW w \in Writers, ChangeSheet(w) \/ SaveSpecial(w) PROVE CauseInv'
  BY <1>2, BeginWriteCause DEF ChangeSheet, SaveSpecial, Kinds, Types
<1>3. ASSUME NEW w \in Writers, NEW q \in Pages, OutsideEdit(w, q) PROVE CauseInv'
  <2> SUFFICES ASSUME NEW p \in Pages, Undisturbed(p)' PROVE FilesCause(p)' /\ SavesCause(p)'
    BY CauseJoin
  <2>1. /\ w \in Actors /\ page' = [page EXCEPT ![w] = q] /\ stage' = [stage EXCEPT ![w] = "ended"]
        /\ disk' = [disk EXCEPT ![q] = [of |-> q, body |-> w, rest |-> w]]
        /\ UNCHANGED <<runtime, base, current, newest, expected, before, apart>> /\ stage[w] = "idle"
    BY <1>3, Sorts DEF OutsideEdit
  <2>2. p # q /\ page[w] = None
    BY <2>1 DEF Undisturbed, Types, ProgressInv
  <2>3. Undisturbed(p)
    BY <2>1, <2>2, Sorts DEF Undisturbed, Types
  <2>4. FilesCause(p) /\ SavesCause(p) /\ disk'[p] = disk[p]
    BY <2>1, <2>2, <2>3, CauseSplit DEF Types
  <2>5. \A s \in Saves : stage'[s] = stage[s] /\ page'[s] = page[s]
    BY <2>1, Sorts DEF Types
  <2> QED BY <2>1, <2>4, <2>5 DEF FilesCause, SavesCause
<1>4. CASE ~ \E w \in Writers : \/ ChangeSheet(w) \/ SaveSpecial(w)
                                \/ \E q \in Pages : MovePage(w, q) \/ UndoProperty(w, q) \/ OutsideEdit(w, q)
  <2> SUFFICES ASSUME NEW p \in Pages, Undisturbed(p)' PROVE FilesCause(p)' /\ SavesCause(p)'
    BY CauseJoin
  <2>0. ASSUME \A w \in Writers : page'[w] = page[w] PROVE FilesCause(p) /\ SavesCause(p) /\ Undisturbed(p)
    BY <2>0, CauseSplit DEF Undisturbed
  <2>1. CASE UNCHANGED <<disk, runtime, current, base, stage, page, newest, expected, before, apart>>
    BY <2>0, <2>1 DEF FilesCause, SavesCause
  <2>2. ASSUME NEW s \in Saves, Request(s), UNCHANGED <<disk, runtime, base, current, apart>>
        PROVE  FilesCause(p)' /\ SavesCause(p)'
    <3>1. \A w \in Writers : page'[w] = page[w]
      BY <2>2, Sorts DEF Request, Types
    <3>2. SavesCause(p)'
      BY <2>0, <2>2, <3>1, RequestCause
    <3> QED BY <2>0, <2>2, <3>1, <3>2 DEF FilesCause
  <2>3. CASE TimerFires
    <3>1. CASE pending = current
      BY <2>2, <2>3, <3>1, Sorts DEF TimerFires, Timer, ProgressInv
    <3>2. CASE pending # current
      BY <2>1, <2>3, <3>2 DEF TimerFires, Timer, saves
    <3> QED BY <3>1, <3>2
  <2>4. ASSUME NEW s \in Manual, SaveNow(s) PROVE FilesCause(p)' /\ SavesCause(p)'
    BY <2>2, <2>4, Sorts DEF SaveNow
  <2>5. ASSUME NEW s \in Saves, GoOn(s) PROVE FilesCause(p)' /\ SavesCause(p)'
    <3>1. UNCHANGED <<page, disk, runtime, current, base, apart>> /\ s \in Actors /\ First(s)
      BY <2>5, Sorts DEF GoOn, First
    <3>2. FilesCause(p) /\ SavesCause(p)
      BY <2>0, <3>1
    <3>3. FilesCause(p)'
      BY <3>1, <3>2 DEF FilesCause
    <3>4. CASE result[after[s]] = "passed" /\ ~HasLeft(s)
      <4>1. Persist(s, current) /\ page[s] = current
        BY <2>5, <3>4 DEF GoOn, HasLeft
      <4>2. \A t \in Saves : stage[t] # "persisting"
        BY <2>5, <3>1, OnlyFirst DEF GoOn, First
      <4> QED BY <3>1, <3>2, <3>3, <4>1, <4>2, PersistCause
    <3>5. CASE ~(result[after[s]] = "passed" /\ ~HasLeft(s))
      BY <2>5, <3>1, <3>2, <3>3, <3>5, EndCause DEF GoOn
    <3> QED BY <3>4, <3>5
  <2>6. ASSUME NEW s \in Saves, SaveEnds(s) PROVE FilesCause(p)' /\ SavesCause(p)'
    <3>1. UNCHANGED page
      BY <2>6 DEF SaveEnds, Saved, StaleSave, Superseded, Refuse, Skip
    <3>2. FilesCause(p) /\ SavesCause(p)
      BY <2>0, <3>1
    <3>3. CASE Saved(s)
      BY <3>2, <3>3, SavedCause
    <3>4. CASE StaleSave(s)
      BY <3>2, <3>4, StaleSaveCause
    <3>5. CASE \E landed \in BOOLEAN : Refuse(s, landed)
      BY <3>2, <3>5, RefuseCause
    <3>6. CASE Skip(s)
      <4>1. /\ UNCHANGED <<disk, runtime, current, base, page, newest, apart>> /\ s \in Actors
            /\ End(s, "passed")
        BY <3>6, Sorts DEF Skip
      <4> QED BY <3>2, <4>1, EndCause DEF FilesCause
    <3> QED BY <2>6, <3>3, <3>4, <3>5, <3>6 DEF SaveEnds
  <2>7. ASSUME NEW w \in Writers,
               WriterSaved(w) \/ StaleWriter(w) \/ \E landed \in BOOLEAN : WriterFails(w, landed)
        PROVE  FilesCause(p)' /\ SavesCause(p)'
    <3>1. UNCHANGED page
      BY <2>7 DEF WriterSaved, StaleWriter, Superseded, WriterFails
    <3> QED BY <2>0, <2>7, <3>1, WriterEndsCause
  <2>8. ASSUME NEW o \in Opens, NEW q \in Pages, Show(o, q),
               UNCHANGED <<disk, runtime, stage, page, newest, expected, before, apart>>
        PROVE  FilesCause(p)' /\ SavesCause(p)'
    BY <2>0, <2>8 DEF FilesCause, SavesCause, Show
  <2>9. ASSUME NEW o \in Opens, NEW q \in Pages, OpenPage(o, q)
        PROVE  FilesCause(p)' /\ SavesCause(p)'
    <3>0. UNCHANGED <<disk, runtime, apart>>
      BY <2>9 DEF OpenPage
    <3>1. CASE Flushes
      BY <2>2, <2>9, <3>0, <3>1, Sorts DEF OpenPage, Flushes, ProgressInv, Types, WaitFor
    <3>2. CASE ~Flushes /\ pending = None /\ inFlight # None
      BY <2>1, <2>9, <3>0, <3>2 DEF OpenPage, WaitFor, saves
    <3>3. CASE ~Flushes /\ ~(pending = None /\ inFlight # None)
      BY <2>8, <2>9, <3>0, <3>3 DEF OpenPage, saves
    <3> QED BY <3>1, <3>2, <3>3
  <2>10. ASSUME NEW o \in Opens, Opened(o) PROVE FilesCause(p)' /\ SavesCause(p)'
    <3>1. UNCHANGED <<disk, runtime, stage, page, newest, expected, before, apart>> /\ target[o] \in Pages
      BY <2>10 DEF Opened, saves, ProgressInv
    <3>2. CASE UNCHANGED session
      BY <2>1, <3>1, <3>2
    <3>3. CASE Show(o, target[o])
      BY <2>8, <3>1, <3>3
    <3> QED BY <2>10, <3>2, <3>3 DEF Opened
  <2>11. ASSUME NEW o \in Opens, Reload(o) PROVE FilesCause(p)' /\ SavesCause(p)'
    <3>1. UNCHANGED page
      BY <2>11 DEF Reload, saves
    <3> QED BY <2>0, <2>11, <3>1, ReloadCause
  <2>12. CASE Type \/ ReadCurrent \/ UNCHANGED vars
    BY <2>1, <2>12 DEF Type, ReadCurrent, vars, saves
  <2> QED
    BY <1>4, <2>3, <2>4, <2>5, <2>6, <2>7, <2>9, <2>10, <2>11, <2>12 DEF Next, CommandEnds
<1> QED BY <1>1, <1>2, <1>3, <1>4

-----------------------------------------------------------------------------
(***************************************************************************)
(* What becomes of a draft.                                                *)
(***************************************************************************)
Grows == answered \subseteq answered' /\ unsaid \subseteq unsaid'

LEMMA AlwaysGrows == [Next]_vars => Grows
<1> SUFFICES ASSUME [Next]_vars PROVE Grows
  OBVIOUS
<1>1. ASSUME NEW s \in Saves, SaveEnds(s) PROVE Grows
  BY <1>1 DEF SaveEnds, Saved, StaleSave, Superseded, Refuse, Skip, Reported, Grows
<1>2. ASSUME NEW s \in Saves, GoOn(s) PROVE Grows
  BY <1>2 DEF GoOn, Grows
<1>3. ASSUME NEW w \in Writers,
             WriterSaved(w) \/ StaleWriter(w) \/ \E landed \in BOOLEAN : WriterFails(w, landed)
      PROVE  Grows
  BY <1>3 DEF WriterSaved, StaleWriter, Superseded, WriterFails, AnsweredBy, Reported, Grows
<1>4. ASSUME NEW o \in Opens, Reload(o) \/ Opened(o) \/ \E p \in Pages : OpenPage(o, p)
      PROVE  Grows
  BY <1>4 DEF Reload, Opened, OpenPage, Grows
<1>5. ASSUME NEW w \in Writers, ChangeSheet(w) \/ SaveSpecial(w) PROVE Grows
  BY <1>5 DEF ChangeSheet, SaveSpecial, BeginWrite, Grows
<1>6. ASSUME NEW w \in Writers, NEW p \in Pages, MovePage(w, p) \/ UndoProperty(w, p) \/ OutsideEdit(w, p)
      PROVE  Grows
  BY <1>6 DEF MovePage, UndoProperty, BeginWrite, OutsideEdit, Grows
<1>7. CASE Type \/ ReadCurrent \/ TimerFires \/ (\E s \in Manual : SaveNow(s)) \/ UNCHANGED vars
  BY <1>7 DEF Type, ReadCurrent, TimerFires, Timer, SaveNow, vars, Grows
<1> QED BY <1>1, <1>2, <1>3, <1>4, <1>5, <1>6, <1>7 DEF Next, CommandEnds

LEMMA CoveredGrows ==
  ASSUME Grows, NEW o \in Opens, flushed'[o] = flushed[o], Covered(flushed[o])
  PROVE  Covered(flushed[o])'
BY DEF Grows, Covered

\* What a request changes of the saves: it has the text that is on the screen.
LEMMA RequestEffect ==
  ASSUME Types, NEW s \in Saves, Request(s)
  PROVE  /\ stage[s] = "idle" /\ inFlight' = s /\ s # None
         /\ \A t \in Saves : t # s =>
              /\ stage'[t] = stage[t] /\ page'[t] = page[t] /\ after'[t] = after[t]
              /\ content'[t] = content[t]
         /\ result' = result /\ after'[s] = inFlight
         /\ \/ stage'[s] = "waiting" /\ page'[s] = current
            \/ stage'[s] = "persisting" /\ content'[s].body = dom
         /\ stage'[s] = "waiting" => inFlight # None
         /\ \A w \in Writers : stage'[w] = stage[w] /\ content'[w] = content[w]
         /\ \A a \in Actors : before'[a] \in {before[a], runtime[current]}
<1>1. Candidate(current).body = dom
  BY DEF Types, Candidate, Content
<1>2. s \in Actors
  BY Sorts
<1>3. CASE inFlight = None
  <2>1. Persist(s, current)
    BY <1>3 DEF Request, ChainedAfter
  <2> QED BY <1>1, <1>2, <1>3, <2>1, Sorts DEF Request, ChainedAfter, Persist, Types
<1>4. CASE inFlight # None
  BY <1>2, <1>4, Sorts DEF Request, ChainedAfter, Types
<1> QED BY <1>3, <1>4

LEMMA EndEffect ==
  ASSUME Types, NEW a \in Actors, NEW r, End(a, r)
  PROVE  /\ \A t \in Actors : t # a =>
              /\ stage'[t] = stage[t] /\ result'[t] = result[t] /\ after'[t] = after[t]
              /\ content'[t] = content[t]
         /\ stage'[a] = "ended" /\ result'[a] = r
         /\ inFlight' = IF inFlight = a THEN None ELSE inFlight
BY DEF End, InFlightAfter, Types

\* A step that leaves the screen and the saves alone.
LEMMA SavesAlone ==
  ASSUME Types, ProgressInv, FlushInv, Grows, UNCHANGED <<dom, current, pending, inFlight>>,
         \A t \in Saves : /\ stage'[t] = stage[t] /\ result'[t] = result[t] /\ page'[t] = page[t]
                          /\ after'[t] = after[t] /\ content'[t] = content[t]
  PROVE  /\ ScreenKept' /\ \A s \in Saves : FailureTold(s)'
         /\ \A o \in Opens : opening'[o] = opening[o] /\ newestOpen' = newestOpen
                             /\ awaits'[o] = awaits[o] /\ flushed'[o] = flushed[o]
              => OpeningKept(o)'
<1>1. ScreenKept'
  <2>1. inFlight # None => inFlight \in Saves
    BY DEF Types
  <2> QED BY <2>1 DEF FlushInv, ScreenKept, Told, Grows
<1>2. ASSUME NEW s \in Saves PROVE FailureTold(s)'
  <2>1. FailureTold(s) /\ (stage[s] = "waiting" => after[s] \in Saves)
    BY DEF FlushInv, ProgressInv
  <2> QED BY <2>1 DEF FailureTold, Told, Grows
<1>3. ASSUME NEW o \in Opens, opening'[o] = opening[o], newestOpen' = newestOpen,
             awaits'[o] = awaits[o], flushed'[o] = flushed[o]
      PROVE  OpeningKept(o)'
  <2>1. OpeningKept(o) /\ (opening[o] = "waiting" => awaits[o] \in Saves)
    BY DEF FlushInv, ProgressInv
  <2>2. Covered(flushed[o]) => Covered(flushed[o])'
    BY <1>3, CoveredGrows
  <2> QED BY <1>3, <2>1, <2>2 DEF OpeningKept
<1> QED BY <1>1, <1>2, <1>3

\* What a step may write to a page: what was told of.
LEMMA FilesToldStep ==
  ASSUME Types, ProgressInv, FlushInv, [Next]_vars
  PROVE  FilesTold'
<1>0. FilesTold /\ WritersTold /\ BackTold /\ ReadTold /\ Grows
  BY AlwaysGrows DEF FlushInv
<1> USE DEF files
<1>1. CASE UNCHANGED <<disk, runtime>>
  BY <1>0, <1>1 DEF FilesTold, Told, Grows
<1>2. ASSUME NEW a \in Actors, page[a] \in Pages, stage[a] \in {"persisting"} \cup Kinds,
             content[a].body \in Drafts => content[a].body \in answered' \cup unsaid',
             disk' = disk \/ disk' = [disk EXCEPT ![page[a]] = content[a]],
             \/ runtime' = runtime
             \/ runtime' = [runtime EXCEPT ![page[a]] = content[a]]
             \/ runtime' = [runtime EXCEPT ![page[a]] = before[a]]
      PROVE  FilesTold'
  <2>1. \A p \in Pages : disk'[p] \in {disk[p], content[a]}
                         /\ runtime'[p] \in {runtime[p], content[a], before[a]}
    BY <1>2 DEF Types
  <2>2. Told(before[a].body)
    BY <1>0, <1>2, ContentAssumption DEF BackTold, ProgressInv, Kinds
  <2> QED BY <1>0, <1>2, <2>1, <2>2 DEF FilesTold, Told, Grows
<1>3. ASSUME NEW s \in Saves, SaveEnds(s) PROVE FilesTold'
  <2>1. s \in Actors /\ stage[s] = "persisting" /\ page[s] \in Pages
    BY <1>3, Sorts DEF SaveEnds, Saved, StaleSave, Refuse, Skip, ProgressInv
  <2>2. CASE Saved(s) \/ StaleSave(s)
    BY <1>2, <2>1, <2>2 DEF Saved, StaleSave, Superseded, Reported
  <2>3. CASE \E landed \in BOOLEAN : Refuse(s, landed)
    BY <1>2, <2>1, <2>3 DEF Refuse, NotSaved, Reported
  <2>4. CASE Skip(s)
    BY <1>1, <2>4 DEF Skip
  <2> QED BY <1>3, <2>2, <2>3, <2>4 DEF SaveEnds
<1>4. ASSUME NEW w \in Writers,
             WriterSaved(w) \/ StaleWriter(w) \/ \E landed \in BOOLEAN : WriterFails(w, landed)
      PROVE  FilesTold'
  <2>1. w \in Actors /\ stage[w] \in Kinds /\ page[w] \in Pages
    BY <1>4, Sorts DEF WriterSaved, StaleWriter, WriterFails, ProgressInv, Kinds
  <2>2. /\ disk' = disk \/ disk' = [disk EXCEPT ![page[w]] = content[w]]
        /\ \/ runtime' = runtime
           \/ runtime' = [runtime EXCEPT ![page[w]] = content[w]]
           \/ runtime' = [runtime EXCEPT ![page[w]] = before[w]]
    BY <1>4 DEF WriterSaved, StaleWriter, Superseded, WriterFails, NotSaved
  <2>3. CASE stage[w] = "special"
    <3>1. content[w].body \in answered'
      BY <1>4, <2>3 DEF WriterSaved, StaleWriter, WriterFails, AnsweredBy, Reported
    <3> QED BY <1>2, <2>1, <2>2, <3>1
  <2>4. CASE stage[w] # "special"
    <3>1. Told(content[w].body)
      BY <1>0, <2>1, <2>4 DEF WritersTold
    <3> QED BY <1>0, <1>2, <2>1, <2>2, <3>1 DEF Told, Grows
  <2> QED BY <2>3, <2>4
<1>5. ASSUME NEW w \in Writers, NEW p \in Pages, OutsideEdit(w, p) PROVE FilesTold'
  <2>1. /\ UNCHANGED runtime /\ disk' = [disk EXCEPT ![p] = [of |-> p, body |-> w, rest |-> w]]
        /\ w \notin Drafts
    BY <1>5, Sorts DEF OutsideEdit
  <2> QED BY <1>0, <2>1 DEF FilesTold, Told, Grows, Types
<1>6. ASSUME NEW o \in Opens, Reload(o) PROVE FilesTold'
  <2>1. /\ UNCHANGED disk /\ runtime' = [runtime EXCEPT ![reading.pageId] = reading.content]
        /\ Told(reading.content.body)
    BY <1>0, <1>6 DEF Reload, ReadTold
  <2> QED BY <1>0, <2>1 DEF FilesTold, Told, Grows, Types
<1>7. ASSUME NEW w \in Writers, ChangeSheet(w) \/ SaveSpecial(w) PROVE FilesTold'
  BY <1>1, <1>7 DEF ChangeSheet, SaveSpecial, BeginWrite
<1>8. ASSUME NEW w \in Writers, NEW p \in Pages, MovePage(w, p) \/ UndoProperty(w, p) PROVE FilesTold'
  BY <1>1, <1>8 DEF MovePage, UndoProperty, BeginWrite
<1>9. ASSUME NEW o \in Opens, Opened(o) \/ \E p \in Pages : OpenPage(o, p) PROVE FilesTold'
  BY <1>1, <1>9 DEF Opened, OpenPage
<1>10. ASSUME NEW s \in Saves, GoOn(s) PROVE FilesTold'
  BY <1>1, <1>10 DEF GoOn
<1>11. CASE Type \/ ReadCurrent \/ TimerFires \/ (\E s \in Manual : SaveNow(s)) \/ UNCHANGED vars
  BY <1>1, <1>11 DEF Type, ReadCurrent, TimerFires, Timer, SaveNow, vars
<1> QED BY <1>3, <1>4, <1>5, <1>6, <1>7, <1>8, <1>9, <1>10, <1>11 DEF Next, CommandEnds

LEMMA WritersToldStep ==
  ASSUME Types, ProgressInv, FlushInv, [Next]_vars
  PROVE  WritersTold'
<1>0. FilesTold /\ WritersTold /\ Grows
  BY AlwaysGrows DEF FlushInv
<1>1. CASE \A w \in Writers : stage'[w] = stage[w] /\ content'[w] = content[w]
  BY <1>0, <1>1 DEF WritersTold, Told, Grows
<1>2. ASSUME NEW a \in Actors, NEW r, End(a, r) PROVE WritersTold'
  <2>1. /\ \A w \in Writers : w # a => stage'[w] = stage[w] /\ content'[w] = content[w]
        /\ stage'[a] = "ended"
    BY <1>2, EndEffect, Sorts
  <2> QED BY <1>0, <2>1 DEF WritersTold, Told, Grows, Kinds
<1>3. ASSUME NEW v \in Writers, NEW k \in Kinds, NEW p, NEW c, NEW e, BeginWrite(v, k, p, c, e),
             k # "special" => Told(c.body)
      PROVE  WritersTold'
  <2>1. /\ stage' = [stage EXCEPT ![v] = k] /\ content' = [content EXCEPT ![v] = c] /\ v \in Actors
    BY <1>3, Sorts DEF BeginWrite
  <2>2. \A w \in Writers : w # v => stage'[w] = stage[w] /\ content'[w] = content[w]
    BY <2>1, Sorts DEF Types
  <2>3. stage'[v] = k /\ content'[v] = c
    BY <2>1 DEF Types
  <2> QED BY <1>0, <1>3, <2>2, <2>3 DEF WritersTold, Told, Grows
<1>4. ASSUME NEW w \in Writers, NEW p \in Pages, MovePage(w, p) \/ UndoProperty(w, p)
      PROVE  WritersTold'
  <2>1. runtime[p] \in Content
    BY DEF Types
  <2>2. Told([runtime[p] EXCEPT !.rest = w].body) /\ Told([runtime[p] EXCEPT !.body = w].body)
    BY <1>0, <2>1, Sorts DEF FilesTold, Told, Content
  <2> QED BY <1>3, <1>4, <2>2 DEF MovePage, UndoProperty, Kinds
<1>5. ASSUME NEW w \in Writers, ChangeSheet(w) \/ SaveSpecial(w) PROVE WritersTold'
  <2>1. runtime[current] \in Content /\ current \in Pages
    BY DEF Types
  <2>2. Told([runtime[current] EXCEPT !.rest = w].body)
    BY <1>0, <2>1, Sorts DEF FilesTold, Told, Content
  <2> QED BY <1>3, <1>5, <2>2 DEF ChangeSheet, SaveSpecial, Kinds
<1>6. ASSUME NEW w \in Writers, NEW p \in Pages, OutsideEdit(w, p) PROVE WritersTold'
  <2>1. /\ \A v \in Writers : v # w => stage'[v] = stage[v] /\ content'[v] = content[v]
        /\ stage'[w] = "ended"
    BY <1>6, Sorts DEF OutsideEdit, Types
  <2> QED BY <1>0, <2>1 DEF WritersTold, Told, Grows, Kinds
<1>7. ASSUME NEW s \in Saves, SaveEnds(s) PROVE WritersTold'
  BY <1>2, <1>7, Sorts DEF SaveEnds, Saved, StaleSave, Superseded, Refuse, NotSaved, Skip
<1>8. ASSUME NEW w \in Writers,
             WriterSaved(w) \/ StaleWriter(w) \/ \E landed \in BOOLEAN : WriterFails(w, landed)
      PROVE  WritersTold'
  BY <1>2, <1>8, Sorts DEF WriterSaved, StaleWriter, Superseded, WriterFails, NotSaved
<1>9. ASSUME NEW s \in Saves, Request(s) PROVE WritersTold'
  BY <1>1, <1>9, RequestEffect
<1>10. CASE UNCHANGED saves
  BY <1>1, <1>10 DEF saves
<1>11. ASSUME NEW s \in Saves, GoOn(s) PROVE WritersTold'
  <2>1. CASE result[after[s]] = "passed" /\ ~HasLeft(s)
    <3>1. Persist(s, page[s])
      BY <1>11, <2>1 DEF GoOn
    <3> QED BY <1>1, <3>1, Sorts DEF Persist, Types
  <2>2. CASE ~(result[after[s]] = "passed" /\ ~HasLeft(s))
    BY <1>2, <1>11, <2>2, Sorts DEF GoOn
  <2> QED BY <2>1, <2>2
<1>12. CASE TimerFires \/ \E s \in Manual : SaveNow(s)
  BY <1>9, <1>10, <1>12, Sorts DEF TimerFires, Timer, SaveNow, ProgressInv
<1>13. ASSUME NEW o \in Opens, Opened(o) \/ Reload(o) \/ \E p \in Pages : OpenPage(o, p)
       PROVE  WritersTold'
  BY <1>9, <1>10, <1>13, Sorts DEF Opened, Reload, OpenPage, Flushes, ProgressInv, Types
<1>14. CASE Type \/ ReadCurrent \/ UNCHANGED vars
  BY <1>10, <1>14 DEF Type, ReadCurrent, vars, saves
<1> QED BY <1>4, <1>5, <1>6, <1>7, <1>8, <1>11, <1>12, <1>13, <1>14 DEF Next, CommandEnds

\* What a rollback brings back was in the page, what is read in a file.
LEMMA BackToldStep ==
  ASSUME Types, ProgressInv, FlushInv, [Next]_vars
  PROVE  BackTold' /\ ReadTold'
<1>0. FilesTold /\ BackTold /\ ReadTold /\ Grows
  BY AlwaysGrows DEF FlushInv
<1> USE DEF reload
<1>1. ASSUME \A a \in Actors : before'[a] = before[a] \/ before'[a] = None
                               \/ \E p \in Pages : before'[a] = runtime[p]
      PROVE  BackTold'
  BY <1>0, <1>1 DEF BackTold, FilesTold, Told, Grows
<1>2. ReadTold'
  <2>1. CASE ReadCurrent
    <3>1. reading'.content.body = disk[conflict.page].body /\ conflict.page \in Pages
      BY <2>1 DEF ReadCurrent, Types, Conflict
    <3> QED BY <1>0, <3>1 DEF ReadTold, FilesTold, Told, Grows
  <2>2. CASE ~ReadCurrent
    <3>1. reading' = reading \/ reading' = None
      <4>1. ASSUME NEW s \in Saves, GoOn(s) \/ SaveEnds(s) PROVE reading' = reading
        BY <4>1 DEF GoOn, SaveEnds, Saved, StaleSave, Superseded, Refuse, Skip
      <4>2. ASSUME NEW w \in Writers,
                   \/ ChangeSheet(w) \/ SaveSpecial(w) \/ WriterSaved(w) \/ StaleWriter(w)
                   \/ \E landed \in BOOLEAN : WriterFails(w, landed)
                   \/ \E p \in Pages : MovePage(w, p) \/ UndoProperty(w, p) \/ OutsideEdit(w, p)
            PROVE  reading' = reading
        BY <4>2 DEF ChangeSheet, SaveSpecial, WriterSaved, StaleWriter, Superseded, WriterFails,
                    MovePage, UndoProperty, BeginWrite, OutsideEdit
      <4>3. ASSUME NEW o \in Opens, Reload(o) \/ Opened(o) \/ \E p \in Pages : OpenPage(o, p)
            PROVE  reading' = reading \/ reading' = None
        BY <4>3 DEF Reload, Opened, OpenPage
      <4>4. CASE Type \/ TimerFires \/ (\E s \in Manual : SaveNow(s)) \/ UNCHANGED vars
        BY <4>4 DEF Type, TimerFires, Timer, SaveNow, vars
      <4> QED BY <2>2, <4>1, <4>2, <4>3, <4>4 DEF Next, CommandEnds
    <3> QED BY <1>0, <3>1 DEF ReadTold, Told, Grows
  <2> QED BY <2>1, <2>2
<1> SUFFICES BackTold'
  BY <1>2
<1>3. CASE UNCHANGED before
  BY <1>0, <1>3 DEF BackTold, Told, Grows
<1>4. ASSUME NEW a \in Actors, NEW r, End(a, r) PROVE BackTold'
  BY <1>1, <1>4 DEF End, Types
<1>5. ASSUME NEW v \in Writers, NEW k, NEW p \in Pages, NEW c, NEW e, BeginWrite(v, k, p, c, e)
      PROVE  BackTold'
  BY <1>1, <1>5 DEF BeginWrite, Types
<1>6. ASSUME NEW s \in Saves, Request(s) PROVE BackTold'
  BY <1>1, <1>6, RequestEffect DEF Types
<1>7. CASE UNCHANGED saves
  BY <1>3, <1>7 DEF saves
<1>8. ASSUME NEW s \in Saves, SaveEnds(s) PROVE BackTold'
  BY <1>4, <1>8, Sorts DEF SaveEnds, Saved, StaleSave, Superseded, Refuse, NotSaved, Skip
<1>9. ASSUME NEW w \in Writers,
             WriterSaved(w) \/ StaleWriter(w) \/ \E landed \in BOOLEAN : WriterFails(w, landed)
      PROVE  BackTold'
  BY <1>4, <1>9, Sorts DEF WriterSaved, StaleWriter, Superseded, WriterFails, NotSaved
<1>10. ASSUME NEW s \in Saves, GoOn(s) PROVE BackTold'
  <2>1. CASE result[after[s]] = "passed" /\ ~HasLeft(s)
    <3>1. before' = [before EXCEPT ![s] = runtime[current]] /\ current \in Pages
      BY <1>10, <2>1 DEF GoOn, Persist, HasLeft, Types
    <3> QED BY <1>1, <3>1 DEF Types
  <2>2. CASE ~(result[after[s]] = "passed" /\ ~HasLeft(s))
    BY <1>4, <1>10, <2>2, Sorts DEF GoOn
  <2> QED BY <2>1, <2>2
<1>11. CASE TimerFires \/ \E s \in Manual : SaveNow(s)
  <2>1. CASE \E s \in Saves : Request(s)
    BY <1>6, <2>1
  <2>2. CASE ~ \E s \in Saves : Request(s)
    BY <1>7, <1>11, <2>2, Sorts DEF TimerFires, Timer, SaveNow, ProgressInv
  <2> QED BY <2>1, <2>2
<1>12. ASSUME NEW o \in Opens, Opened(o) \/ Reload(o) \/ \E p \in Pages : OpenPage(o, p)
       PROVE  BackTold'
  BY <1>6, <1>7, <1>12, Sorts DEF Opened, Reload, OpenPage, Flushes, ProgressInv, Types
<1>13. CASE Type \/ ReadCurrent \/ UNCHANGED vars
  BY <1>7, <1>13 DEF Type, ReadCurrent, vars, saves
<1>14. ASSUME NEW w \in Writers, NEW p \in Pages,
              MovePage(w, p) \/ UndoProperty(w, p) \/ OutsideEdit(w, p)
       PROVE  BackTold'
  BY <1>3, <1>5, <1>14 DEF MovePage, UndoProperty, OutsideEdit
<1>15. ASSUME NEW w \in Writers, ChangeSheet(w) \/ SaveSpecial(w) PROVE BackTold'
  BY <1>5, <1>15 DEF ChangeSheet, SaveSpecial, Types
<1> QED
  BY <1>8, <1>9, <1>10, <1>11, <1>12, <1>13, <1>14, <1>15 DEF Next, CommandEnds

\* The screen, the openings and the saves that wait.
Flow == /\ ScreenKept
        /\ \A o \in Opens : OpeningKept(o)
        /\ \A s \in Saves : FailureTold(s)

LEMMA FlowAlone ==
  ASSUME Types, ProgressInv, FlushInv, Grows, UNCHANGED <<dom, current, pending, inFlight>>,
         UNCHANGED calls,
         \A t \in Saves : /\ stage'[t] = stage[t] /\ result'[t] = result[t] /\ page'[t] = page[t]
                          /\ after'[t] = after[t] /\ content'[t] = content[t]
  PROVE  Flow'
BY SavesAlone DEF Flow, calls

\* A request has the text on the screen, and nothing it waits for has ended.
LEMMA RequestFlow ==
  ASSUME Types, ProgressInv, ChainInv, FlushInv, Grows, NEW s \in Saves, Request(s),
         UNCHANGED <<dom, current>>
  PROVE  /\ pending' = None \/ Told(dom) => ScreenKept'
         /\ \A t \in Saves : FailureTold(t)'
         /\ \A o \in Opens : opening'[o] = opening[o] /\ newestOpen' = newestOpen
                             /\ awaits'[o] = awaits[o] /\ flushed'[o] = flushed[o]
              => OpeningKept(o)'
<1>1. /\ stage[s] = "idle" /\ inFlight' = s /\ s # None
      /\ \A t \in Saves : t # s =>
           /\ stage'[t] = stage[t] /\ page'[t] = page[t] /\ after'[t] = after[t]
           /\ content'[t] = content[t]
      /\ result' = result /\ after'[s] = inFlight
      /\ \/ stage'[s] = "waiting" /\ page'[s] = current
         \/ stage'[s] = "persisting" /\ content'[s].body = dom
      /\ stage'[s] = "waiting" => inFlight # None
  BY RequestEffect
<1>2. pending' = None \/ Told(dom) => ScreenKept'
  BY <1>1 DEF ScreenKept, Told, Grows
<1>3. inFlight # None => inFlight \in Saves /\ stage[inFlight] # "ended" /\ inFlight # s
  BY <1>1, InFlightIsLast DEF UnderWay
<1>4. ASSUME NEW t \in Saves PROVE FailureTold(t)'
  <2>1. CASE t = s
    BY <1>1, <1>3, <2>1 DEF FailureTold
  <2>2. CASE t # s
    <3>1. stage[t] = "waiting" => after[t] \in Saves
      BY DEF ProgressInv
    <3>2. FailureTold(t)
      BY DEF FlushInv
    <3>3. stage'[s] # "ended"
      BY <1>1
    <3> QED BY <1>1, <2>2, <3>1, <3>2, <3>3 DEF FailureTold, Told, Grows
  <2> QED BY <2>1, <2>2
<1>5. ASSUME NEW o \in Opens, opening'[o] = opening[o], newestOpen' = newestOpen,
             awaits'[o] = awaits[o], flushed'[o] = flushed[o]
      PROVE  OpeningKept(o)'
  <2>1. OpeningKept(o) /\ (opening[o] = "waiting" => awaits[o] \in Saves)
    BY DEF FlushInv, ProgressInv
  <2>2. Covered(flushed[o]) => Covered(flushed[o])'
    BY <1>5, CoveredGrows
  <2>3. CASE awaits[o] = s
    BY <1>1, <1>5, <2>1, <2>2, <2>3 DEF OpeningKept
  <2>4. CASE awaits[o] # s
    BY <1>1, <1>5, <2>1, <2>2, <2>4 DEF OpeningKept
  <2> QED BY <2>3, <2>4
<1> QED BY <1>2, <1>4, <1>5

\* The end of a save tells of what it wrote and, if it fails, of the screen.
LEMMA EndFlow ==
  ASSUME Types, ProgressInv, FlushInv, Grows, NEW s \in Saves, stage[s] = "persisting",
         NEW r, End(s, r), UNCHANGED <<dom, current, pending, page>>, UNCHANGED calls,
         content[s].body \in answered', r # "passed" => dom \in answered'
  PROVE  Flow'
<1>1. /\ \A t \in Saves : t # s =>
           /\ stage'[t] = stage[t] /\ result'[t] = result[t] /\ after'[t] = after[t]
           /\ content'[t] = content[t]
      /\ stage'[s] = "ended" /\ result'[s] = r
      /\ inFlight' = IF inFlight = s THEN None ELSE inFlight
  BY EndEffect, Sorts
<1>2. ScreenKept'
  <2>1. ScreenKept /\ (inFlight # None => inFlight \in Saves)
    BY DEF FlushInv, Types
  <2>2. CASE inFlight = s
    BY <1>1, <2>1, <2>2 DEF ScreenKept, Told, Grows
  <2>3. CASE inFlight # s
    BY <1>1, <2>1, <2>3 DEF ScreenKept, Told, Grows
  <2> QED BY <2>2, <2>3
<1>3. ASSUME NEW t \in Saves PROVE FailureTold(t)'
  <2>1. FailureTold(t) /\ (stage[t] = "waiting" => after[t] \in Saves)
    BY DEF FlushInv, ProgressInv
  <2>2. CASE t = s
    BY <1>1, <2>2 DEF FailureTold
  <2>3. CASE t # s /\ after[t] = s
    BY <1>1, <2>3 DEF FailureTold, Told
  <2>4. CASE t # s /\ after[t] # s
    BY <1>1, <2>1, <2>4 DEF FailureTold, Told, Grows
  <2> QED BY <2>2, <2>3, <2>4
<1>4. ASSUME NEW o \in Opens PROVE OpeningKept(o)'
  <2>1. OpeningKept(o) /\ (opening[o] = "waiting" => awaits[o] \in Saves)
    BY DEF FlushInv, ProgressInv
  <2>2. UNCHANGED <<opening, newestOpen, awaits, flushed>>
    BY DEF calls
  <2>3. Covered(flushed[o]) => Covered(flushed[o])'
    BY <2>2, CoveredGrows
  <2>4. CASE awaits[o] = s
    <3>1. content[s].body \in Drafts /\ content[s].body >= flushed[o] => Covered(flushed[o])'
      BY <2>2 DEF Covered
    <3> QED BY <1>1, <2>1, <2>2, <2>3, <2>4, <3>1 DEF OpeningKept
  <2>5. CASE awaits[o] # s
    BY <1>1, <2>1, <2>2, <2>3, <2>5 DEF OpeningKept
  <2> QED BY <2>4, <2>5
<1> QED BY <1>2, <1>3, <1>4 DEF Flow

LEMMA GoOnFlow ==
  ASSUME Types, ProgressInv, FlushInv, Grows, NEW s \in Saves, GoOn(s)
  PROVE  Flow'
<1>0. /\ stage[s] = "waiting" /\ stage[after[s]] = "ended" /\ after[s] \in Saves /\ s \in Actors
      /\ UNCHANGED <<pending, page, dom, current, opening, newestOpen, awaits, flushed>>
      /\ after[s] # s /\ result[after[s]] \in Results
  BY Sorts DEF GoOn, session, calls, ProgressInv
<1>1. \A o \in Opens : /\ OpeningKept(o) /\ (opening[o] = "waiting" => awaits[o] \in Saves)
                       /\ Covered(flushed[o]) => Covered(flushed[o])'
  BY <1>0, CoveredGrows DEF FlushInv, ProgressInv
<1>2. \A t \in Saves : FailureTold(t) /\ (stage[t] = "waiting" => after[t] \in Saves)
  BY DEF FlushInv, ProgressInv
<1>3. ScreenKept /\ (inFlight # None => inFlight \in Saves)
  BY DEF FlushInv, Types
<1>4. CASE result[after[s]] = "passed" /\ ~HasLeft(s)
  <2>1. Persist(s, current) /\ UNCHANGED <<result, inFlight, after>> /\ page[s] = current
    BY <1>4 DEF GoOn, HasLeft
  <2>2. Candidate(current).body = dom
    BY DEF Types, Candidate, Content
  <2>3. /\ \A t \in Saves : t # s => stage'[t] = stage[t] /\ content'[t] = content[t]
        /\ stage'[s] = "persisting" /\ content'[s].body = dom
    BY <1>0, <2>1, <2>2, Sorts DEF Persist, Types
  <2>4. ScreenKept'
    <3>1. CASE inFlight = s
      BY <1>0, <1>3, <2>1, <2>3, <3>1 DEF ScreenKept, Told, Grows
    <3>2. CASE inFlight # s
      BY <1>0, <1>3, <2>1, <2>3, <3>2 DEF ScreenKept, Told, Grows
    <3> QED BY <3>1, <3>2
  <2>5. ASSUME NEW t \in Saves PROVE FailureTold(t)'
    BY <1>2, <1>0, <2>1, <2>3 DEF FailureTold, Told, Grows
  <2>6. ASSUME NEW o \in Opens PROVE OpeningKept(o)'
    <3>1. CASE awaits[o] = s
      BY <1>0, <1>1, <2>3, <3>1 DEF OpeningKept
    <3>2. CASE awaits[o] # s
      BY <1>0, <1>1, <2>1, <2>3, <3>2 DEF OpeningKept
    <3> QED BY <3>1, <3>2
  <2> QED BY <2>4, <2>5, <2>6 DEF Flow
<1>5. CASE ~(result[after[s]] = "passed" /\ ~HasLeft(s))
  <2>1. /\ End(s, Inherited(s)) /\ Inherited(s) \in Results \ {"passed"}
        /\ unsaid' = IF Inherited(s) = "left" /\ ~HasLeft(s) THEN unsaid \cup {dom} ELSE unsaid
    BY <1>0, <1>5 DEF GoOn, Inherited, Results
  <2>2. /\ \A t \in Saves : t # s =>
             /\ stage'[t] = stage[t] /\ result'[t] = result[t] /\ after'[t] = after[t]
             /\ content'[t] = content[t]
        /\ stage'[s] = "ended" /\ result'[s] = Inherited(s)
        /\ inFlight' = IF inFlight = s THEN None ELSE inFlight
    BY <2>1, EndEffect, Sorts
  <2>3. Inherited(s) = "failed" => Told(dom)
    BY <1>0, <1>2 DEF FailureTold, Inherited
  <2>4. ~HasLeft(s) => Told(dom)'
    <3>1. Inherited(s) = "failed" => Told(dom)'
      BY <1>0, <2>3 DEF Told, Grows
    <3>2. ~HasLeft(s) /\ Inherited(s) = "left" => Told(dom)'
      BY <1>0, <2>1 DEF Told
    <3> QED BY <2>1, <3>1, <3>2 DEF Results
  <2>5. ScreenKept'
    <3>1. CASE inFlight = s
      BY <1>0, <1>3, <2>4, <3>1 DEF ScreenKept, Told, Grows, HasLeft
    <3>2. CASE inFlight # s
      BY <1>0, <1>3, <2>2, <3>2 DEF ScreenKept, Told, Grows
    <3> QED BY <3>1, <3>2
  <2>6. ASSUME NEW t \in Saves PROVE FailureTold(t)'
    <3>1. CASE t = s
      BY <2>2, <3>1 DEF FailureTold
    <3>2. CASE t # s /\ after[t] = s
      BY <1>0, <2>2, <2>3, <3>2 DEF FailureTold, Told, Grows
    <3>3. CASE t # s /\ after[t] # s
      BY <1>0, <1>2, <2>2, <3>3 DEF FailureTold, Told, Grows
    <3> QED BY <3>1, <3>2, <3>3
  <2>7. ASSUME NEW o \in Opens PROVE OpeningKept(o)'
    <3>1. CASE awaits[o] = s
      BY <1>0, <2>1, <2>2, <3>1 DEF OpeningKept
    <3>2. CASE awaits[o] # s
      BY <1>0, <1>1, <2>2, <3>2 DEF OpeningKept
    <3> QED BY <3>1, <3>2
  <2> QED BY <2>5, <2>6, <2>7 DEF Flow
<1> QED BY <1>4, <1>5

\* The timer has the new text; nothing that awaits an end runs later than this.
LEMMA TypeFlow ==
  ASSUME Types, ProgressInv, HomeInv, FlushInv, NothingAwaited, Type
  PROVE  Flow'
<1>1. /\ typed' = typed + 1 /\ typed \in Nat /\ dom' = typed + 1 /\ pending' = current
      /\ UNCHANGED <<current, opening, newestOpen, awaits, flushed, answered, unsaid>>
      /\ UNCHANGED <<stage, page, content, result, after>> /\ typed + 1 \in Drafts
  BY EditorAssumption DEF Type, Types, calls, saves, EditorAssumption, Drafts
<1>2. ScreenKept'
  BY <1>1 DEF ScreenKept
<1>3. \A s \in Saves : FailureTold(s)'
  BY <1>1 DEF FailureTold, NothingAwaited
<1>4. ASSUME NEW o \in Opens PROVE OpeningKept(o)'
  <2>1. OpeningKept(o) /\ flushed[o] \in Nat
    BY Sorts DEF FlushInv, Types
  <2>2. Covered(flushed[o]) <=> Covered(flushed[o])'
    BY <1>1 DEF Covered
  <2>3. dom \in Drafts => dom <= typed
    BY <1>1, HomeSplit, Sorts DEF ScreenAtHome, AtHome, Types, Drafts
  <2>4. dom \in Drafts /\ dom >= flushed[o] => typed + 1 >= flushed[o]
    BY <1>1, <2>1, <2>3, Sorts
  <2> QED BY <1>1, <2>1, <2>2, <2>4 DEF OpeningKept
<1> QED BY <1>2, <1>3, <1>4 DEF Flow

\* What a page shows when it is opened was told of.
LEMMA ShowFlow ==
  ASSUME Types, ProgressInv, FlushInv, Grows, NEW o \in Opens, NEW p \in Pages, Show(o, p),
         UNCHANGED saves, newestOpen' = o
  PROVE  Flow'
<1>1. dom' = runtime[p].body /\ opening' = [opening EXCEPT ![o] = "ended"]
  BY DEF Show
<1>2. Told(dom)'
  BY <1>1 DEF FlushInv, FilesTold, Told, Grows
<1>3. \A i \in Opens : OpeningKept(i)'
  BY <1>1 DEF OpeningKept, Types
<1> QED BY <1>2, <1>3 DEF Flow, ScreenKept, FailureTold

\* A draft is as new as itself.
LEMMA OwnEqual == \A n \in Drafts : n >= n
<1>1. \A n \in Nat : n >= n
  OBVIOUS
<1>2. Drafts \subseteq Nat
  BY Sorts
<1> QED BY <1>1, <1>2

\* An opening that waits has a save that has its draft.
LEMMA WaitFlow ==
  ASSUME Types, NEW o \in Opens, NEW p, NEW s, WaitFor(o, p, s), newestOpen' = o,
         \/ Told(dom)'
         \/ stage'[s] = "waiting" /\ page'[s] = current
         \/ stage'[s] = "persisting" /\ content'[s].body = dom
  PROVE  \A i \in Opens : OpeningKept(i)'
<1>1. /\ awaits'[o] = s /\ flushed'[o] = Draft /\ UNCHANGED <<dom, current>>
  BY DEF WaitFor, Types, session
<1>2. Told(dom)' => Covered(flushed[o])'
  <2>1. \A n \in Drafts : n >= n
    BY OwnEqual
  <2>2. \/ Draft = 0
        \/ Draft = dom /\ dom \in Drafts
    BY DEF Draft
  <2> QED BY <1>1, <2>1, <2>2 DEF Told, Covered
<1>3. ~Covered(flushed[o])' => Draft = dom /\ dom \in Drafts /\ dom >= Draft
  <2>1. \A n \in Drafts : n >= n
    BY OwnEqual
  <2> QED BY <1>1, <2>1 DEF Covered, Draft
<1>4. OpeningKept(o)'
  BY <1>1, <1>2, <1>3 DEF OpeningKept
<1>5. \A i \in Opens : i # o => OpeningKept(i)'
  BY DEF OpeningKept
<1> QED BY <1>4, <1>5

LEMMA OpenFlow ==
  ASSUME Types, ProgressInv, ChainInv, FlushInv, Grows, NEW o \in Opens, NEW p \in Pages,
         OpenPage(o, p)
  PROVE  Flow'
<1>0. newestOpen' = o /\ pending' = None /\ ScreenKept
  BY DEF OpenPage, Called, FlushInv
<1>1. CASE Flushes
  <2>1. /\ Request(typed) /\ typed \in Saves /\ WaitFor(o, p, typed) /\ UNCHANGED <<dom, current>>
    BY <1>1, Sorts DEF OpenPage, Flushes, ProgressInv, Types, WaitFor, session
  <2>2. ScreenKept' /\ \A t \in Saves : FailureTold(t)'
    BY <1>0, <2>1, RequestFlow
  <2>3. \A i \in Opens : OpeningKept(i)'
    BY <1>0, <2>1, WaitFlow, RequestEffect
  <2> QED BY <2>2, <2>3 DEF Flow
<1>2. CASE ~Flushes /\ pending = None /\ inFlight # None
  <2>1. /\ WaitFor(o, p, inFlight) /\ UNCHANGED saves /\ UNCHANGED inFlight
        /\ UNCHANGED <<dom, current, pending>>
    BY <1>0, <1>2 DEF OpenPage, WaitFor, session
  <2>2. ScreenKept' /\ \A t \in Saves : FailureTold(t)'
    BY <2>1, SavesAlone DEF saves
  <2>3. \/ Told(dom)'
        \/ stage'[inFlight] = "waiting" /\ page'[inFlight] = current
        \/ stage'[inFlight] = "persisting" /\ content'[inFlight].body = dom
    BY <1>0, <1>2, <2>1 DEF ScreenKept, Flushes, saves, Told, Grows
  <2> QED BY <1>0, <2>1, <2>2, <2>3, WaitFlow DEF Flow
<1>3. CASE ~Flushes /\ ~(pending = None /\ inFlight # None)
  BY <1>0, <1>3, ShowFlow DEF OpenPage
<1> QED BY <1>1, <1>2, <1>3

LEMMA OpenedFlow ==
  ASSUME Types, ProgressInv, FlushInv, Grows, NEW o \in Opens, Opened(o)
  PROVE  Flow'
<1>1. /\ UNCHANGED <<pending, inFlight, newestOpen>> /\ UNCHANGED saves
      /\ awaits' = [awaits EXCEPT ![o] = None] /\ flushed' = [flushed EXCEPT ![o] = 0]
      /\ target[o] \in Pages
  BY DEF Opened, ProgressInv
<1>2. CASE result[awaits[o]] # "passed" \/ newestOpen # o
  <2>1. opening' = [opening EXCEPT ![o] = "ended"] /\ UNCHANGED <<dom, current>>
    BY <1>2 DEF Opened, session
  <2>2. \A i \in Opens : i # o => opening'[i] = opening[i] /\ awaits'[i] = awaits[i] /\ flushed'[i] = flushed[i]
    BY <1>1, <2>1 DEF Types
  <2>3. OpeningKept(o)'
    BY <2>1 DEF OpeningKept, Types
  <2> QED BY <1>1, <2>1, <2>2, <2>3, SavesAlone DEF saves, Flow
<1>3. CASE ~(result[awaits[o]] # "passed" \/ newestOpen # o)
  BY <1>1, <1>3, ShowFlow DEF Opened
<1> QED BY <1>2, <1>3

LEMMA ReloadFlow ==
  ASSUME Types, ProgressInv, FlushInv, Grows, NEW o \in Opens, Reload(o)
  PROVE  Flow'
<1>1. /\ newestOpen' = o /\ pending' = None /\ UNCHANGED saves /\ UNCHANGED inFlight
      /\ dom \in answered' /\ reading # None
  BY DEF Reload, Called
<1>2. CASE inFlight # None
  <2>1. WaitFor(o, reading.pageId, inFlight) /\ UNCHANGED <<dom, current>> /\ Told(dom)'
    BY <1>1, <1>2 DEF Reload, WaitFor, session, Told
  <2> QED BY <1>1, <2>1, WaitFlow DEF Flow, ScreenKept, FailureTold
<1>3. CASE inFlight = None
  <2>1. dom' = reading.content.body /\ opening' = [opening EXCEPT ![o] = "ended"]
    BY <1>3 DEF Reload
  <2>2. Told(dom)'
    BY <1>1, <2>1 DEF FlushInv, ReadTold, Told, Grows
  <2>3. \A i \in Opens : OpeningKept(i)'
    BY <1>1, <2>1 DEF OpeningKept, Types
  <2>4. \A t \in Saves : FailureTold(t)'
    BY <1>1, <2>2 DEF FailureTold
  <2> QED BY <2>2, <2>3, <2>4 DEF Flow, ScreenKept
<1> QED BY <1>2, <1>3

LEMMA FlowStep ==
  ASSUME Types, ProgressInv, HomeInv, ChainInv, FlushInv, [Next]_vars
  PROVE  Flow'
<1>0. Grows
  BY AlwaysGrows
<1>1. ASSUME NEW s \in Saves, Request(s), UNCHANGED <<dom, current>>, UNCHANGED calls,
             pending' = None \/ Told(dom)
      PROVE  Flow'
  BY <1>0, <1>1, RequestFlow DEF Flow, calls
<1>2. CASE TimerFires
  <2>1. CASE pending = current
    BY <1>1, <1>2, <2>1, Sorts DEF TimerFires, Timer, ProgressInv, session
  <2>2. CASE pending # current
    <3>1. UNCHANGED saves /\ UNCHANGED <<inFlight, dom, current>> /\ UNCHANGED calls /\ Told(dom)
      BY <1>2, <2>2 DEF TimerFires, Timer, session, FlushInv, ScreenKept
    <3>2. \A s \in Saves : FailureTold(s)'
      BY <3>1, <1>0 DEF FlushInv, FailureTold, saves, Told, Grows
    <3>3. ScreenKept'
      BY <3>1, <1>0 DEF ScreenKept, Told, Grows
    <3>4. ASSUME NEW o \in Opens PROVE OpeningKept(o)'
      <4>1. Covered(flushed[o]) => Covered(flushed[o])'
        BY <1>0, <3>1, CoveredGrows DEF calls
      <4> QED BY <3>1, <4>1 DEF FlushInv, OpeningKept, saves, calls
    <3> QED BY <3>2, <3>3, <3>4 DEF Flow
  <2> QED BY <2>1, <2>2
<1>3. ASSUME NEW s \in Manual, SaveNow(s) PROVE Flow'
  <2>1. pending' = None \/ Told(dom)
    BY <1>3 DEF SaveNow, FlushInv, ScreenKept, Types
  <2> QED BY <1>1, <1>3, <2>1, Sorts DEF SaveNow, session
<1>4. ASSUME NEW s \in Saves, GoOn(s) PROVE Flow'
  BY <1>0, <1>4, GoOnFlow
<1>5. ASSUME NEW s \in Saves, SaveEnds(s) PROVE Flow'
  <2>1. stage[s] = "persisting" /\ UNCHANGED <<dom, current, pending, page>> /\ UNCHANGED calls
    BY <1>5 DEF SaveEnds, Saved, StaleSave, Superseded, Refuse, NotSaved, Skip, session, PendingAfter
  <2>2. content[s].body \in answered'
    BY <1>5 DEF SaveEnds, Saved, StaleSave, Superseded, Refuse, Skip, Reported
  <2>3. \/ End(s, "passed")
        \/ End(s, "failed") /\ dom \in answered'
    BY <1>5 DEF SaveEnds, Saved, StaleSave, Superseded, Refuse, NotSaved, Skip, Reported
  <2> QED BY <1>0, <2>1, <2>2, <2>3, EndFlow
<1>6. ASSUME NEW o \in Opens, NEW p \in Pages, OpenPage(o, p) PROVE Flow'
  BY <1>0, <1>6, OpenFlow
<1>7. ASSUME NEW o \in Opens, Opened(o) PROVE Flow'
  BY <1>0, <1>7, OpenedFlow
<1>8. ASSUME NEW o \in Opens, Reload(o) PROVE Flow'
  BY <1>0, <1>8, ReloadFlow
<1>9. ASSUME NEW w \in Writers, NEW k, NEW p, NEW c, NEW e, BeginWrite(w, k, p, c, e) PROVE Flow'
  <2>1. \A t \in Saves : /\ stage'[t] = stage[t] /\ result'[t] = result[t] /\ page'[t] = page[t]
                         /\ after'[t] = after[t] /\ content'[t] = content[t]
    BY <1>9, Sorts DEF BeginWrite, Types
  <2>2. UNCHANGED <<dom, current, pending, inFlight>> /\ UNCHANGED calls
    BY <1>9 DEF BeginWrite, session
  <2> QED BY <1>0, <2>1, <2>2, FlowAlone
<1>10. ASSUME NEW w \in Writers,
              WriterSaved(w) \/ StaleWriter(w) \/ \E landed \in BOOLEAN : WriterFails(w, landed)
       PROVE  Flow'
  <2>1. PICK r : End(w, r)
    BY <1>10 DEF WriterSaved, StaleWriter, Superseded, WriterFails, NotSaved
  <2>2. UNCHANGED <<dom, current, pending, page, calls>> /\ inFlight # w
    BY <1>10, Sorts DEF WriterSaved, StaleWriter, Superseded, WriterFails, session, Types
  <2>3. UNCHANGED inFlight
    BY <2>1, <2>2 DEF End, InFlightAfter
  <2>4. \A t \in Saves : /\ stage'[t] = stage[t] /\ result'[t] = result[t] /\ page'[t] = page[t]
                         /\ after'[t] = after[t] /\ content'[t] = content[t]
    BY <2>1, <2>2, EndEffect, Sorts
  <2> QED BY <1>0, <2>2, <2>3, <2>4, FlowAlone
<1>11. ASSUME NEW w \in Writers, NEW p \in Pages, OutsideEdit(w, p) PROVE Flow'
  <2>1. \A t \in Saves : /\ stage'[t] = stage[t] /\ result'[t] = result[t] /\ page'[t] = page[t]
                         /\ after'[t] = after[t] /\ content'[t] = content[t]
    BY <1>11, Sorts DEF OutsideEdit, Types
  <2>2. UNCHANGED <<dom, current, pending, inFlight>> /\ UNCHANGED calls
    BY <1>11 DEF OutsideEdit, session
  <2> QED BY <1>0, <2>1, <2>2, FlowAlone
<1>12. CASE ReadCurrent \/ UNCHANGED vars
  BY <1>0, <1>12, FlowAlone DEF ReadCurrent, vars, calls, saves, session
<1>13. CASE NothingAwaited /\ Type
  BY <1>13, TypeFlow
<1>14. ASSUME NEW w \in Writers, NEW p \in Pages, MovePage(w, p) \/ UndoProperty(w, p) PROVE Flow'
  BY <1>9, <1>14 DEF MovePage, UndoProperty
<1>15. ASSUME NEW w \in Writers, ChangeSheet(w) \/ SaveSpecial(w) PROVE Flow'
  BY <1>9, <1>15 DEF ChangeSheet, SaveSpecial
<1> QED
  BY <1>2, <1>3, <1>4, <1>5, <1>6, <1>7, <1>8, <1>10, <1>11, <1>12, <1>13, <1>14, <1>15
     DEF Next, CommandEnds

-----------------------------------------------------------------------------
LEMMA InitEditor == Init => EditorInv
<1> SUFFICES ASSUME Init PROVE EditorInv
  OBVIOUS
<1>0. \A p \in Pages : Original(p) \in Content /\ Original(p).of = p /\ Original(p).body = 0
  BY DEF Original, Content, Bodies
<1>1. Types
  <2>1. Start \in Pages /\ 0 \in 0..MaxTyped
    BY EditorAssumption DEF EditorAssumption
  <2>2. /\ current \in Pages /\ base \in Base
    BY <1>0, <2>1 DEF Init, Base
  <2> QED BY <1>0, <2>1, <2>2 DEF Init, Types, Bodies, Stages
<1>2. ProgressInv
  BY Sorts DEF Init, ProgressInv, Kinds
<1>3. ChainInv
  <2>1. <<>> \in [1..0 -> Saves] /\ 0 \in Nat
    OBVIOUS
  <2>2. \A s \in Saves : ~UnderWay(s)
    BY Sorts DEF Init, UnderWay
  <2>3. IsLine(0, <<>>)
    BY <2>2 DEF Init, IsLine
  <2> QED BY <2>1, <2>3 DEF ChainInv
<1>4. HomeInv
  BY <1>0, Sorts DEF Init, HomeInv, FilesAtHome, CallsAtHome, ReadAtHome, ScreenAtHome, AtHome
<1>5. CauseInv
  BY <1>0, Sorts, EditorAssumption DEF Init, CauseInv, EditorAssumption
<1>6. FlushInv
  BY <1>0, Sorts DEF Init, FlushInv, FilesTold, WritersTold, BackTold, ReadTold, ScreenKept, OpeningKept,
                     FailureTold, Told, Kinds
<1> QED BY <1>1, <1>2, <1>3, <1>4, <1>5, <1>6 DEF EditorInv

LEMMA EditorStep == EditorInv /\ [Next]_vars => EditorInv'
<1> SUFFICES ASSUME EditorInv, [Next]_vars PROVE EditorInv'
  OBVIOUS
<1>0. Types /\ ProgressInv /\ ChainInv /\ HomeInv /\ CauseInv /\ FlushInv
  BY DEF EditorInv
<1>1. Types' /\ ProgressInv'
  <2>1. SavesOK' /\ RestOK'
    BY <1>0, SavesStep, RestStep
  <2> QED BY <2>1, TypesJoin
<1>2. ChainInv' /\ HomeInv' /\ CauseInv'
  BY <1>0, ChainStep, HomeStep, CauseStep
<1>3. FlushInv'
  BY <1>0, FilesToldStep, WritersToldStep, BackToldStep, FlowStep DEF FlushInv, Flow
<1> QED BY <1>1, <1>2, <1>3 DEF EditorInv

\* The invariant of the editor: what its calls hold, the line of its saves, the
\* pages of its bodies, the bases of its candidates and the fate of its drafts.
THEOREM EditorInvariance == Spec => []EditorInv
<1> QED BY InitEditor, EditorStep, PTL DEF Spec

LEMMA EditorImplies ==
  EditorInv => TypeOK /\ OneSaveAtATime /\ BodiesStayHome /\ ConflictHasACause
<1> SUFFICES ASSUME EditorInv
             PROVE  TypeOK /\ OneSaveAtATime /\ BodiesStayHome /\ ConflictHasACause
  OBVIOUS
<1>0. Types /\ ProgressInv /\ ChainInv /\ HomeInv /\ CauseInv
  BY DEF EditorInv
<1>1. TypeOK
  BY <1>0, InFlightIsLast DEF TypeOK
<1>2. OneSaveAtATime /\ BodiesStayHome
  BY <1>0, OneFirst, HomeKeeps
<1>3. ASSUME NEW s \in Saves, stage[s] = "persisting", IsConflict(s),
             page[s] \notin apart, \A w \in Writers : page[w] # page[s]
      PROVE  expected[s].of # page[s]
  <2>1. page[s] \in Pages
    BY <1>0, <1>3, Sorts DEF ProgressInv
  <2>2. SavesCause(page[s])
    BY <1>0, <1>3, <2>1, CauseSplit DEF Undisturbed
  <2> QED BY <1>3, <2>2 DEF SavesCause, IsConflict
<1>4. ConflictHasACause
  BY <1>3 DEF ConflictHasACause
<1> QED BY <1>1, <1>2, <1>4

\* inFlightEditorSave is empty exactly when no save is under way.
THEOREM InFlightTellsOfSaves == Spec => []TypeOK
<1> QED BY EditorInvariance, EditorImplies, PTL

\* Saves of the editor are one at a time at their page command.
THEOREM SavesAreChained == Spec => []OneSaveAtATime
<1> QED BY EditorInvariance, EditorImplies, PTL

\* No text is written to a page other than that it was typed on, but for pages
\* that a reload has given another page's file.
THEOREM BodiesAreWrittenHome == Spec => []BodiesStayHome
<1> QED BY EditorInvariance, EditorImplies, PTL

\* Saves of the editor do not conflict with one another, but for a save that
\* failed or a reload of what is not in the file between them.
THEOREM SavesDoNotConflict == Spec => []ConflictHasACause
<1> QED BY EditorInvariance, EditorImplies, PTL

\* The draft that an opening owes an answer.
Owed(o) == IF opening[o] = "waiting" THEN flushed[o] ELSE Draft

LEMMA OwedIsCovered ==
  ASSUME EditorInv, [Next]_vars, NEW o \in Opens,
         opening[o] # "ended", opening'[o] = "ended", dom' # dom
  PROVE  Owed(o) = 0 \/ Owed(o) \in unsaid' \/ \E n \in answered' \cap Drafts : n >= Owed(o)
<1>0. Types /\ ProgressInv /\ FlushInv /\ Grows
  BY AlwaysGrows DEF EditorInv
<1>1. opening' # opening /\ dom' # dom
  OBVIOUS
<1>2. PICK i \in Opens : Opened(i) \/ Reload(i) \/ \E p \in Pages : OpenPage(i, p)
  <2>1. ~ UNCHANGED vars
    BY <1>1 DEF vars
  <2>2. ~ Type /\ ~ ReadCurrent /\ ~ TimerFires /\ ~ \E s \in Manual : SaveNow(s)
    BY <1>1 DEF Type, ReadCurrent, TimerFires, Timer, SaveNow, calls
  <2>3. ~ \E s \in Saves : GoOn(s) \/ CommandEnds(s)
    BY <1>1 DEF GoOn, CommandEnds, SaveEnds, Saved, StaleSave, Superseded, Refuse, Skip, calls
  <2>4. ~ \E w \in Writers : \/ ChangeSheet(w) \/ SaveSpecial(w)
                             \/ WriterSaved(w) \/ StaleWriter(w)
                             \/ \E landed \in BOOLEAN : WriterFails(w, landed)
    BY <1>1 DEF ChangeSheet, SaveSpecial, BeginWrite, WriterSaved, StaleWriter, Superseded,
                WriterFails, calls
  <2>5. ~ \E w \in Writers : \E p \in Pages : MovePage(w, p) \/ UndoProperty(w, p) \/ OutsideEdit(w, p)
    BY <1>1 DEF MovePage, UndoProperty, BeginWrite, OutsideEdit, calls
  <2> QED BY <2>1, <2>2, <2>3, <2>4, <2>5 DEF Next
<1>3. i = o
  <2>1. opening' \in {[opening EXCEPT ![i] = "ended"], [opening EXCEPT ![i] = "waiting"]}
    BY <1>2 DEF Opened, Reload, OpenPage, Show, WaitFor
  <2> QED BY <2>1, <1>0 DEF Types
<1>4. Covered(Owed(o)) => Owed(o) = 0 \/ Owed(o) \in unsaid' \/ \E n \in answered' \cap Drafts : n >= Owed(o)
  BY <1>0 DEF Covered, Grows
<1>5. Told(dom) => Covered(Draft)
  <2>1. \A n \in Drafts : n >= n
    BY OwnEqual
  <2>2. \/ Draft = 0
        \/ Draft = dom /\ dom \in Drafts
    BY DEF Draft
  <2> QED BY <2>1, <2>2 DEF Told, Covered
<1>6. CASE Opened(o)
  <2>1. opening[o] = "waiting" /\ stage[awaits[o]] = "ended"
    BY <1>6 DEF Opened
  <2>2. result[awaits[o]] = "passed" /\ newestOpen = o
    BY <1>1, <1>6 DEF Opened, session
  <2>3. Covered(flushed[o])
    BY <1>0, <2>1, <2>2 DEF FlushInv, OpeningKept
  <2> QED BY <1>4, <2>1, <2>3 DEF Owed
<1>7. CASE Reload(o)
  <2>1. opening[o] = "idle" /\ dom \in answered'
    BY <1>7 DEF Reload, Called
  <2>2. \/ Draft = 0
        \/ Draft = dom /\ dom \in Drafts
    BY DEF Draft
  <2>3. \A n \in Drafts : n >= n
    BY OwnEqual
  <2> QED BY <2>1, <2>2, <2>3 DEF Owed
<1>8. ASSUME NEW p \in Pages, OpenPage(o, p)
      PROVE  Owed(o) = 0 \/ Owed(o) \in unsaid' \/ \E n \in answered' \cap Drafts : n >= Owed(o)
  <2>1. opening[o] = "idle"
    BY <1>8 DEF OpenPage, Called
  <2>2. ~Flushes /\ ~(pending = None /\ inFlight # None)
    BY <1>1, <1>8 DEF OpenPage, WaitFor, session
  <2>3. Told(dom)
    BY <1>0, <2>2 DEF FlushInv, ScreenKept, Flushes
  <2> QED BY <1>4, <1>5, <2>1, <2>3 DEF Owed
<1> QED BY <1>2, <1>3, <1>6, <1>7, <1>8

LEMMA FlushStep ==
  EditorInv /\ [Next]_vars =>
    \A o \in Opens : opening[o] # "ended" /\ opening'[o] = "ended" /\ dom' # dom =>
      LET owed == IF opening[o] = "waiting" THEN flushed[o] ELSE Draft
      IN owed = 0 \/ owed \in unsaid' \/ \E n \in answered' \cap Drafts : n >= owed
BY OwedIsCovered DEF Owed

\* No draft leaves the screen for another page before it was told what became of it.
THEOREM DraftsAreFlushed == Spec => FlushedBeforeOpen
<1> QED BY EditorInvariance, FlushStep, PTL DEF Spec, FlushedBeforeOpen
=============================================================================
