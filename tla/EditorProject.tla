----------------------------- MODULE EditorProject -----------------------------
(* The editor's project: its history (src/stores/historyStore.ts and          *)
(* projectMutator.ts), legacy and v11 sessions (project-v11-transaction.ts),  *)
(* and what opens, saves, copies and closes them across awaits                *)
(* (projectIO/viviFile.ts, index.ts, psd.ts).  Every action is a handler, or  *)
(* what one does after its last await.  A project is a number that names its  *)
(* content, a session the number of its adoption.  What fails and is rolled   *)
(* back as a whole changes nothing and is left out.                           *)
EXTENDS Naturals, SequencesExt

CONSTANTS
  Path,         \* files
  Key,          \* merge keys of edits that are recorded as patches
  SnapshotKey,  \* merge keys of replaceProject: none in the callers there are
  MaxHistory,   \* MAX_HISTORY
  MaxAtlas,     \* the atlas revisions a v11 history may keep: its byte budget
  MaxEdits,     \* bound: edits
  MaxSessions,  \* bound: adoptions
  MaxOpens,     \* bound: calls of loadProject
  None

ASSUME EditorProjectAssumption ==
  /\ MaxHistory \in Nat \ {0} /\ MaxAtlas \in Nat \ {0}
  /\ MaxEdits \in Nat /\ MaxSessions \in Nat /\ MaxOpens \in Nat
  /\ None \notin Path \cup Key \cup SnapshotKey \cup Nat
  /\ Key \cap SnapshotKey = {}

VARIABLES
  editor,   \* useEditorStore
  history,  \* useHistoryStore, lastMergeKey and lastPushTime
  save,     \* activeSave, and what the save captured
  opens,    \* calls of loadProject that wait, and what they captured
  tally     \* counts: edits, adoptions, and openRequest

vars == <<editor, history, save, opens, tally>>

Session == 1..MaxSessions
Nobody == 0
\* Every adoption and every recorded edit makes a content of its own: the project
\* up to which layer groups are expanded.  What patches make of a project they
\* were not made on is nobody's content.
Content == Nat \cup {None}
Garbage == None

Editor == [session : Session \cup {Nobody}, v11 : BOOLEAN, content : Content, version : Nat,
           path : Path \cup {None}, saved : Content]

\* A patch leads from one content to another, a snapshot holds the one to restore.
Patch(from, to) == [kind |-> "patch", from |-> from, to |-> to, atlas |-> FALSE]
Snapshot(content, atlas) == [kind |-> "snapshot", from |-> content, to |-> None, atlas |-> atlas]

Entry == [kind : {"patch", "snapshot"}, from : Content, to : Content, atlas : BOOLEAN]

\* What a save captured; same: the project is still the one a copy was made of.
Save == [copy : BOOLEAN, before : Editor, same : BOOLEAN]

ASSUME SaveAssumption == None \notin Save

NoProject == [session |-> Nobody, v11 |-> FALSE, content |-> None, version |-> 0,
              path |-> None, saved |-> None]

\* What a handler remembers of the editor across its awaits: a load what it
\* compares with, a save what it writes and compares with.
BeforeOpen == [editor EXCEPT !.content = None, !.path = None, !.saved = None]
BeforeSave(as) ==
  [editor EXCEPT !.content = IF editor.v11 THEN @ ELSE None, !.saved = None,
                 !.version = IF editor.v11 THEN 0 ELSE @,
                 !.path = IF as THEN None ELSE @]
BeforeCopy == [editor EXCEPT !.path = None, !.saved = None, !.version = 0]

TypeOK ==
  /\ editor \in Editor
  /\ history \in [undo : Seq(Entry), redo : Seq(Entry), 
                 key : Key \cup SnapshotKey \cup {None}, recent : BOOLEAN]
  /\ save \in Save \cup {None}
  /\ opens \in Seq([before : Editor, waiting : BOOLEAN])
  /\ tally \in [edits : 0..MaxEdits, sessions : 0..MaxSessions]

EmptyHistory == [undo |-> <<>>, redo |-> <<>>, key |-> None, recent |-> FALSE]

Init ==
  /\ editor = NoProject
  /\ history = EmptyHistory
  /\ save = None
  /\ opens = <<>>
  /\ tally = [edits |-> 0, sessions |-> 0]

-----------------------------------------------------------------------------
(* History.                                                                  *)

Exceeds(u, r) ==
  \/ Len(u) + Len(r) > MaxHistory
  \/ Len(SelectSeq(u \o r, LAMBDA e : e.atlas)) > MaxAtlas

\* Mutant of Trimmed: the nearest entry goes.
TrimmedNearest(s) ==
  IF s.undo \o s.redo = <<>> \/ ~Exceeds(s.undo, s.redo) THEN s
  ELSE IF Len(s.undo) >= Len(s.redo) THEN [s EXCEPT !.undo = Front(@)]
  ELSE [s EXCEPT !.redo = Front(@)]

\* boundedV11History: while the stacks exceed, the farthest entry of the longer
\* one goes.
Trimmed(s) ==
  IF s.undo \o s.redo = <<>> \/ ~Exceeds(s.undo, s.redo) THEN s
  ELSE IF Len(s.undo) >= Len(s.redo) THEN [s EXCEPT !.undo = Tail(@)]
  ELSE [s EXCEPT !.redo = Tail(@)]

Bounded(u, r) ==
  LET after[n \in 0..Len(u \o r)] ==
        IF n = 0 THEN [undo |-> u, redo |-> r] ELSE Trimmed(after[n - 1])
  IN after[Len(u \o r)]

\* A legacy history drops its oldest entry when it is full.
Pushed(u, e) == (IF Len(u) >= MaxHistory THEN Tail(u) ELSE u) \o <<e>>

\* An edit goes on with the last one: same key, and soon after it.
GoesOn(key) == key # None /\ key = history.key /\ history.recent /\ history.undo # <<>>

\* A patch is merged into the last entry if that is a patch.
Merges(key) == GoesOn(key) /\ Last(history.undo).kind = "patch"

\* pushPatches and prepareV11HistoryEdit.
WithPatch(from, to, key) ==
  LET u == history.undo
      merged == [Last(u) EXCEPT !.to = to]
  IN IF editor.v11
     THEN [undo |-> Bounded(IF Merges(key) THEN Front(u) \o <<merged>>
                            ELSE u \o <<Patch(from, to)>>, <<>>).undo,
           redo |-> <<>>, key |-> key, recent |-> TRUE]
     ELSE [undo |-> IF Merges(key) THEN Front(u) \o <<merged>> ELSE Pushed(u, Patch(from, to)),
           redo |-> <<>>, key |-> key, recent |-> TRUE]

\* pushState, prepareHistorySnapshot and prepareV11HistoryEdit without patches.
\* pushState takes the last entry, of whatever kind, for the snapshot of an edit
\* that goes on; a v11 history never merges a snapshot.
WithSnapshot(from, atlas, key) ==
  IF ~editor.v11 /\ GoesOn(key) THEN [history EXCEPT !.redo = <<>>]
  ELSE [undo |-> IF editor.v11 THEN Bounded(history.undo \o <<Snapshot(from, atlas)>>, <<>>).undo
                 ELSE Pushed(history.undo, Snapshot(from, FALSE)),
        redo |-> <<>>, key |-> key, recent |-> TRUE]

Applied(from, to) == IF editor.content = from THEN to ELSE Garbage

ReverseEntry(e) == IF e.kind = "patch" THEN e ELSE Snapshot(editor.content, e.atlas)

Navigated(u, r) ==
  [undo |-> IF editor.v11 THEN Bounded(u, r).undo ELSE u,
   redo |-> IF editor.v11 THEN Bounded(u, r).redo ELSE r,
   key |-> None, recent |-> FALSE]

-----------------------------------------------------------------------------
(* Edits.                                                                    *)

Loaded == editor.session # Nobody

\* Another project object: a copy that is being written was not made of it.
Changed == IF save # None /\ save.copy THEN [save EXCEPT !.same = FALSE] ELSE save

Edited(n) == MaxSessions + n

Edits ==
  /\ Loaded
  /\ tally.edits < MaxEdits
  /\ tally' = [tally EXCEPT !.edits = @ + 1]
  /\ editor' = [editor EXCEPT !.content = Edited(tally.edits + 1)]
  /\ save' = Changed
  /\ UNCHANGED opens

MutateProject(key) ==
  /\ Edits
  /\ history' = WithPatch(editor.content, editor'.content, key)

\* A history transaction, an image split or reimport, an edit of the atlas.
EditAsSnapshot ==
  /\ Edits
  /\ history' = WithSnapshot(editor.content, editor.v11, None)

ReplaceProject(key) ==
  /\ Edits
  /\ history' = WithSnapshot(editor.content, FALSE, key)

\* A legacy session changes its project without a word to the history; a v11
\* session records this edit as any other.
ToggleExpanded ==
  /\ Loaded /\ ~editor.v11
  /\ save' = Changed
  /\ UNCHANGED <<editor, history, opens, tally>>

\* runInHistoryTransaction fails: all is put back but the merge timer.
TransactionFails ==
  /\ Loaded /\ ~editor.v11
  /\ history' = [history EXCEPT !.key = None, !.recent = FALSE]
  /\ UNCHANGED <<editor, save, opens, tally>>

Undo ==
  /\ Loaded /\ history.undo # <<>>
  /\ LET e == Last(history.undo)
     IN /\ editor' = [editor EXCEPT !.content =
             IF e.kind = "patch" THEN Applied(e.to, e.from) ELSE e.from]
        /\ history' = Navigated(Front(history.undo), history.redo \o <<ReverseEntry(e)>>)
  /\ save' = Changed
  /\ UNCHANGED <<opens, tally>>

Redo ==
  /\ Loaded /\ history.redo # <<>>
  /\ LET e == Last(history.redo)
     IN /\ editor' = [editor EXCEPT !.content =
             IF e.kind = "patch" THEN Applied(e.from, e.to) ELSE e.from]
        /\ history' = Navigated(history.undo \o <<ReverseEntry(e)>>, Front(history.redo))
  /\ save' = Changed
  /\ UNCHANGED <<opens, tally>>

\* MERGE_INTERVAL passes.
TimePasses ==
  /\ history.recent
  /\ history' = [history EXCEPT !.recent = FALSE]
  /\ UNCHANGED <<editor, save, opens, tally>>

-----------------------------------------------------------------------------
(* Sessions.                                                                 *)

Adopts(v11, content, path) ==
  /\ tally.sessions < MaxSessions
  /\ editor' = [session |-> tally.sessions + 1, v11 |-> v11, content |-> content,
                version |-> editor.version + 1, path |-> path,
                saved |-> IF v11 THEN content ELSE None]
  /\ history' = EmptyHistory

OneMore == [tally EXCEPT !.sessions = @ + 1]

Carrier(e) == IF e.v11 THEN e.session ELSE Nobody

\* loadProject, up to the file dialog.
OpenBegins ==
  /\ Len(opens) < MaxOpens
  /\ opens' = Append(opens, [before |-> BeforeOpen, waiting |-> TRUE])
  /\ UNCHANGED <<editor, history, save, tally>>

StillFresh(r) ==
  /\ r = Len(opens)
  /\ opens[r].before.version = editor.version
  /\ Carrier(opens[r].before) = Carrier(editor)

OpenOver(r) ==
  /\ opens[r].waiting
  /\ opens' = [opens EXCEPT ![r] = [before |-> NoProject, waiting |-> FALSE]]

OpenAdopts(r, v11, path) ==
  /\ OpenOver(r) /\ StillFresh(r)
  /\ Adopts(v11, tally.sessions + 1, path)
  /\ tally' = OneMore
  /\ save' = Changed

\* Nothing was chosen, reading it failed, or the answer came too late.
OpenEnds(r) ==
  /\ OpenOver(r)
  /\ UNCHANGED <<editor, history, save, tally>>

\* A PSD or an image becomes a project; v11 sessions refuse it.
Import ==
  /\ ~editor.v11
  /\ Adopts(FALSE, tally.sessions + 1, None)
  /\ tally' = OneMore
  /\ save' = Changed
  /\ UNCHANGED opens

\* closeProjectV11 counts on, a legacy close starts over.
Close ==
  /\ Loaded
  /\ editor' = [NoProject EXCEPT !.version = IF editor.v11 THEN editor.version + 1 ELSE 0]
  /\ history' = EmptyHistory
  /\ save' = Changed
  /\ UNCHANGED <<opens, tally>>

-----------------------------------------------------------------------------
(* Saves.                                                                    *)

\* saveProject, up to its awaits: to the file of the project, or as another.
SaveBegins(as) ==
  /\ save = None /\ Loaded
  /\ save' = [copy |-> FALSE, before |-> BeforeSave(as), same |-> TRUE]
  /\ UNCHANGED <<editor, history, opens, tally>>

\* saveProjectV11Copy of a legacy session, forkProjectV11 of a v11 session.
CopyBegins ==
  /\ save = None /\ Loaded
  /\ save' = [copy |-> TRUE, before |-> BeforeCopy, same |-> TRUE]
  /\ UNCHANGED <<editor, history, opens, tally>>

\* The dialog was cancelled or the write failed.
SaveEnds ==
  /\ save # None
  /\ save' = None
  /\ UNCHANGED <<editor, history, opens, tally>>

\* Where a save writes: the file it was begun for, or the one the user chooses.
Target(path) == save.before.path \in {path, None}

\* Mutant of MarksSaved: it is enough that some v11 session is there.
MarksSavedAny(path) ==
  editor' = IF editor.v11
            THEN [editor EXCEPT !.path = path, !.saved = save.before.content]
            ELSE editor

\* markProjectV11Saved: the carrier is still the one that was saved.
MarksSaved(path) ==
  editor' = IF Carrier(editor) = save.before.session
            THEN [editor EXCEPT !.path = path, !.saved = save.before.content]
            ELSE editor

\* A legacy save compares the versions.
NamesFile(path) ==
  editor' = IF editor.version = save.before.version /\ ~editor.v11
            THEN [editor EXCEPT !.path = path]
            ELSE editor

SaveCompletes(path) ==
  /\ save # None /\ ~save.copy /\ Target(path)
  /\ IF save.before.v11 THEN MarksSaved(path) ELSE NamesFile(path)
  /\ save' = None
  /\ UNCHANGED <<history, opens, tally>>

\* Mutant of CopyAdopted: it is enough that the session is still there.
CopyAdoptedLate == editor.session = save.before.session

\* A copy becomes the project if nothing has changed since.
CopyAdopted == save.same

CopyCompletes(path) ==
  /\ save # None /\ save.copy
  /\ IF CopyAdopted
     THEN Adopts(TRUE, save.before.content, path) /\ tally' = OneMore
     ELSE UNCHANGED <<editor, history, tally>>
  /\ save' = None
  /\ UNCHANGED opens

Next ==
  \/ \E key \in Key \cup {None} : MutateProject(key)
  \/ \E key \in SnapshotKey \cup {None} : ReplaceProject(key)
  \/ EditAsSnapshot \/ ToggleExpanded \/ TransactionFails \/ Undo \/ Redo \/ TimePasses
  \/ OpenBegins \/ Import \/ Close
  \/ \E r \in DOMAIN opens :
       OpenEnds(r) \/ \E v11 \in BOOLEAN, path \in Path : OpenAdopts(r, v11, path)
  \/ \E as \in BOOLEAN : SaveBegins(as)
  \/ CopyBegins \/ SaveEnds
  \/ \E path \in Path : SaveCompletes(path) \/ CopyCompletes(path)

Spec == Init /\ [][Next]_vars

-----------------------------------------------------------------------------
(* Properties.                                                               *)

\* Undoing an entry restores from.  Redoing it restores the content of a
\* snapshot, and leads a patch on.
Leads(e) == IF e.kind = "patch" THEN e.to ELSE e.from

\* From the content that is there back through a stack, nearest entry last, each
\* patch meets the content it was made on.
UndoConnects(u, content) ==
  \A i \in DOMAIN u :
    LET here == IF i = Len(u) THEN content ELSE u[i + 1].from
    IN u[i].from # Garbage /\ (u[i].kind = "patch" => u[i].to = here)

RedoConnects(r, content) ==
  \A i \in DOMAIN r :
    LET here == IF i = Len(r) THEN content ELSE Leads(r[i + 1])
    IN Leads(r[i]) # Garbage /\ (r[i].kind = "patch" => r[i].from = here)

\* However far one undoes or redoes, every patch meets the project it was made
\* on, up to which layer groups are expanded: edits, merges, drops, transactions,
\* openings and closings leave no entry that does not connect.  What a legacy
\* session expanded without recording it is not part of this, and an undone entry
\* may fold it again.
HistoryConnects ==
  Loaded =>
    /\ editor.content # Garbage
    /\ UndoConnects(history.undo, editor.content)
    /\ RedoConnects(history.redo, editor.content)

SaveOver == save # None /\ save' = None

OpenReplaced(r) ==
  opens[r].waiting /\ opens'[r] # opens[r] /\ editor'.session # editor.session

\* What ends late changes nothing in a v11 session it was not begun in, and no
\* save takes an edit back.
LateEndsKeepV11 ==
  [][/\ SaveOver =>
          /\ editor'.content = editor.content
          /\ editor.v11 /\ editor.session # save.before.session => editor' = editor
     /\ \A r \in DOMAIN opens :
          OpenReplaced(r) /\ editor.v11 => editor.session = opens[r].before.session]_vars

\* docs/developer/api/spec/project-format-v11.draft.md:560: closing or opening
\* another session does not release the slot of a save, and "its old completion
\* cannot update the new session".
LateSaveKeepsOthers ==
  [][SaveOver /\ editor.session # save.before.session => editor' = editor]_vars
=============================================================================
