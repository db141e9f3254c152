-------------------------- MODULE ReferenceFolders --------------------------
(***************************************************************************)
(* references/store.py, and freeze of references/service.py: the uploaded  *)
(* references of one kind of a project, a folder <id> with original.png    *)
(* and metadata.json each.  Uploads and deletes hold _REFERENCE_WRITE_LOCK;*)
(* a list and a freeze hold nothing.  An upload appears with one rename; a *)
(* delete removes the files of the published folder one by one.  The files *)
(* are those of Windows: one that a reader holds open is not removed.      *)
(***************************************************************************)
EXTENDS StorageFaults

CONSTANTS
  References, NoReference, \* ids, each given out once
  MaxReferenceUpsets       \* bound: failures and ends of the process

ASSUME ReferenceFoldersAssumption ==
  NoReference \notin References /\ MaxReferenceUpsets \in Nat

VARIABLES
  place,      \* <id>: absent, temp (<id>.tmp), published, removed
  parts,      \* the files in it: "metadata" and "original"
  refLock,    \* the holder of _REFERENCE_WRITE_LOCK
  refCall,    \* what a thread is doing
  halfDeleted \* history: references whose delete failed or died half way

referenceStore == <<place, parts, refLock, refCall, halfDeleted>>

refVars == <<referenceStore, upsets>>

Files == {"metadata", "original"}

Whole(r) == parts[r] = Files

\* A reader: todo is what it has still to load, selected what a freeze reads
\* after the list, opened the file it holds, beside whether a delete has been
\* at work on its way.
RefIdle ==
  [step |-> "idle", ref |-> NoReference, todo |-> {},
   selected |-> NoReference, opened |-> "none", beside |-> FALSE]

ReferencesInit ==
  /\ place = [r \in References |-> "absent"]
  /\ parts = [r \in References |-> {}]
  /\ refLock = NoThread
  /\ refCall = [t \in Threads |-> RefIdle]
  /\ halfDeleted = {}
  /\ UpsetsInit

ReadSteps == {"scan", "children", "metadata", "original", "loaded", "unread"}

RefAt(t, step) == refCall[t].step = step

RefGo(t, new) == refCall' = [refCall EXCEPT ![t] = new]

RefStep(t, step) == [refCall[t] EXCEPT !.step = step]

RefReturn(t) == RefGo(t, RefIdle)

-----------------------------------------------------------------------------
(* create *)

UploadReserve(t) ==
  /\ RefAt(t, "idle") /\ refLock = NoThread
  /\ \E r \in References :
       /\ place[r] = "absent"
       /\ place' = [place EXCEPT ![r] = "temp"]
       /\ RefGo(t, [RefIdle EXCEPT !.step = "fill", !.ref = r])
  /\ refLock' = t
  /\ UNCHANGED <<parts, halfDeleted, upsets>>

\* original.png is written and read back, then metadata.json.
UploadFill(t) ==
  LET r == refCall[t].ref IN
  /\ RefAt(t, "fill") /\ ~Whole(r)
  /\ parts' = [parts EXCEPT ![r] =
       IF "original" \in @ THEN Files ELSE {"original"}]
  /\ UNCHANGED <<place, refLock, refCall, halfDeleted, upsets>>

\* The record is loaded from the temporary and renamed.
UploadRename(t) ==
  LET r == refCall[t].ref IN
  /\ RefAt(t, "fill") /\ Whole(r)
  /\ place' = [place EXCEPT ![r] = "published"]
  /\ refLock' = NoThread /\ RefReturn(t)
  /\ UNCHANGED <<parts, halfDeleted, upsets>>

\* A failure removes the temporary.
UploadFails(t) ==
  LET r == refCall[t].ref IN
  /\ RefAt(t, "fill")
  /\ Fault(MaxReferenceUpsets)
  /\ place' = [place EXCEPT ![r] = "absent"]
  /\ parts' = [parts EXCEPT ![r] = {}]
  /\ refLock' = NoThread /\ RefReturn(t)
  /\ UNCHANGED halfDeleted

-----------------------------------------------------------------------------
(* list, and freeze: a list of the kind, then read_content *)

PublishedReferences == {r \in References : place[r] = "published"}

Deleting(r) == \E u \in Threads : RefAt(u, "unlink") /\ refCall[u].ref = r

\* Mutant of ScannedReferences: a name that is no reference id is not passed over.
ScannedTemporaries == {r \in References : place[r] \in {"temp", "published"}}

\* The names scandir gives, of which those of temporaries are passed over.
ScannedReferences == PublishedReferences

BeginList(t) ==
  /\ RefAt(t, "idle")
  /\ \E selected \in References \cup {NoReference} :
       /\ selected \in References => place[selected] \in {"published", "removed"}
       /\ RefGo(t, [RefIdle EXCEPT
                      !.step = "scan", !.todo = ScannedReferences,
                      !.selected = IF selected \in ScannedReferences
                                   THEN selected ELSE NoReference,
                      !.beside = \E r \in References : Deleting(r)])
  /\ UNCHANGED <<place, parts, refLock, halfDeleted, upsets>>

\* One bad record ends the whole list.
ReadFails(t) ==
  RefGo(t, [RefIdle EXCEPT !.step = "unread", !.beside = refCall[t].beside])

ReadNext(t) ==
  /\ RefAt(t, "scan") /\ refCall[t].todo # {}
  /\ \E r \in refCall[t].todo :
       RefGo(t, [refCall[t] EXCEPT
                   !.step = "children", !.ref = r, !.todo = @ \ {r}])
  /\ UNCHANGED <<place, parts, refLock, halfDeleted, upsets>>

\* The folder is held and its children are listed.
ReadChildren(t) ==
  LET r == refCall[t].ref IN
  /\ RefAt(t, "children")
  /\ IF place[r] = "published" /\ Whole(r)
     THEN RefGo(t, RefStep(t, "metadata"))
     ELSE ReadFails(t)
  /\ UNCHANGED <<place, parts, refLock, halfDeleted, upsets>>

\* A file is opened, then read and closed.
ReadFile(t) ==
  LET c == refCall[t] IN
  /\ c.step \in Files
  /\ IF c.opened = "none"
     THEN IF c.step \in parts[c.ref]
          THEN RefGo(t, [c EXCEPT !.opened = c.step])
          ELSE ReadFails(t)
     ELSE RefGo(t, [c EXCEPT !.opened = "none",
            !.step = IF c.step = "metadata" THEN "original" ELSE "loaded"])
  /\ UNCHANGED <<place, parts, refLock, halfDeleted, upsets>>

\* The next record of the list, the selected one again, or the end.  What
\* read_content reads once more after the record is the same file.
ReadLoaded(t) ==
  LET c == refCall[t] IN
  /\ \/ RefAt(t, "loaded")
     \/ RefAt(t, "scan") /\ c.todo = {}
  /\ IF c.todo # {}
     THEN RefGo(t, RefStep(t, "scan"))
     ELSE IF c.selected # NoReference
     THEN RefGo(t, [c EXCEPT !.step = "children", !.ref = c.selected,
                             !.selected = NoReference])
     ELSE RefReturn(t)
  /\ UNCHANGED <<place, parts, refLock, halfDeleted, upsets>>

ReadUnread(t) ==
  /\ RefAt(t, "unread")
  /\ RefReturn(t)
  /\ UNCHANGED <<place, parts, refLock, halfDeleted, upsets>>

-----------------------------------------------------------------------------
(* delete *)

\* The readers on their way are beside this delete from now on.
Beside(t, new) ==
  refCall' = [u \in Threads |->
    IF u = t THEN new
    ELSE IF refCall[u].step \in ReadSteps
         THEN [refCall[u] EXCEPT !.beside = TRUE]
         ELSE refCall[u]]

\* The record is loaded first: one that is not whole is CORRUPT and stays.
DeleteBegin(t) ==
  /\ RefAt(t, "idle") /\ refLock = NoThread
  /\ \E r \in PublishedReferences :
       /\ Whole(r)
       /\ Beside(t, [RefIdle EXCEPT !.step = "unlink", !.ref = r])
  /\ refLock' = t
  /\ UNCHANGED <<place, parts, halfDeleted, upsets>>

\* rmtree takes the files in the order of the directory.
NextFile(r) == IF "metadata" \in parts[r] THEN "metadata" ELSE "original"

Held(r) ==
  \E u \in Threads : refCall[u].ref = r /\ refCall[u].opened = NextFile(r)

Unlink(t) ==
  LET r == refCall[t].ref IN
  /\ RefAt(t, "unlink") /\ parts[r] # {} /\ ~Held(r)
  /\ parts' = [parts EXCEPT ![r] = @ \ {NextFile(r)}]
  /\ UNCHANGED <<place, refLock, refCall, halfDeleted, upsets>>

\* The folder is empty and is removed.
Remove(t) ==
  LET r == refCall[t].ref IN
  /\ RefAt(t, "unlink") /\ parts[r] = {}
  /\ place' = [place EXCEPT ![r] = "removed"]
  /\ refLock' = NoThread /\ RefReturn(t)
  /\ UNCHANGED <<parts, halfDeleted, upsets>>

\* An unlink or the rmdir fails, beside a reader or for another reason.
DeleteFails(t) ==
  LET r == refCall[t].ref IN
  /\ RefAt(t, "unlink")
  /\ IF parts[r] # {} /\ Held(r) THEN UNCHANGED upsets ELSE Fault(MaxReferenceUpsets)
  /\ halfDeleted' = IF Whole(r) THEN halfDeleted ELSE halfDeleted \cup {r}
  /\ refLock' = NoThread /\ RefReturn(t)
  /\ UNCHANGED <<place, parts>>

-----------------------------------------------------------------------------

\* Nothing at startup looks at the uploads of a project.
ReferencesRestart ==
  /\ Crash(MaxReferenceUpsets)
  /\ refLock' = NoThread
  /\ refCall' = [t \in Threads |-> RefIdle]
  /\ halfDeleted' = halfDeleted \cup
       {r \in References : Deleting(r) /\ ~Whole(r)}
  /\ UNCHANGED <<place, parts>>

CallReferences(t) ==
  \/ UploadReserve(t) \/ UploadFill(t) \/ UploadRename(t) \/ UploadFails(t)
  \/ BeginList(t) \/ ReadNext(t) \/ ReadChildren(t) \/ ReadFile(t)
  \/ ReadLoaded(t) \/ ReadUnread(t)
  \/ DeleteBegin(t) \/ Unlink(t) \/ Remove(t) \/ DeleteFails(t)

ReferencesNext ==
  (\E t \in Threads : CallReferences(t)) \/ ReferencesRestart

ReferencesSpec == ReferencesInit /\ [][ReferencesNext]_refVars

-----------------------------------------------------------------------------
(* Properties *)

\* The type invariant of the variables.
ReferencesTypeOK ==
  /\ place \in [References -> {"absent", "temp", "published", "removed"}]
  /\ parts \in [References -> SUBSET Files]
  /\ refLock \in Threads \cup {NoThread}
  /\ \A t \in Threads :
       /\ refCall[t].step \in ReadSteps \cup {"idle", "fill", "unlink"}
       /\ refCall[t].ref \in References \cup {NoReference}
       /\ refCall[t].todo \subseteq References
       /\ refCall[t].opened \in Files \cup {"none"}
  /\ halfDeleted \subseteq References

\* A published reference is whole unless its delete is at work or was cut
\* short, and a list or a freeze fails only beside a delete or after one that
\* was cut short: uploads, and whatever a crash leaves of them, never break
\* the library, although neither reader takes the lock.
ReferencesReadable ==
  /\ \A r \in PublishedReferences : Whole(r) \/ Deleting(r) \/ r \in halfDeleted
  /\ \A t \in Threads :
       RefAt(t, "unread") => refCall[t].beside \/ halfDeleted # {}
=============================================================================
