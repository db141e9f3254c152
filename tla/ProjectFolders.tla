---------------------------- MODULE ProjectFolders ----------------------------
(***************************************************************************)
(* projects/workspace.py and projects/repository.py with the import        *)
(* handler of api/projects.py: an uploaded resource pack becomes a         *)
(* snapshot and a working copy in <id>.tmp, which is renamed at the end,   *)
(* and a project of an older version is migrated by the first open.        *)
(* import_pack runs on the event loop, so one import is at work at a time; *)
(* opens run in threads.  Another program may write to the upload, to the  *)
(* snapshot and to project.json, always something new.                     *)
(***************************************************************************)
EXTENDS StorageFaults

CONSTANTS
  Folders, NoFolder,     \* project ids, each given out once
  MaxEdits,              \* bound: writes of another program
  MaxProjectUpsets       \* bound: failures and ends of the process

ASSUME ProjectFoldersAssumption ==
  NoFolder \notin Folders /\ MaxEdits \in Nat /\ MaxProjectUpsets \in Nat

VARIABLES
  home,      \* <id>: absent, temp (<id>.tmp), published
  pack,      \* the working copy
  imported,  \* what project.json says of the pack: its digest and its format
  document,  \* project.json: its schema, 0 when absent, and its last edit
  source,    \* the uploaded file
  snapshot,  \* source/imported-pack.zip of the project in work
  importing, \* the import at work
  migration, \* the holder of _MANIFEST_MIGRATION_LOCK
  opening,   \* what a thread that opens a project is doing
  edits,     \* writes of another program so far
  lastEdit,  \* history: the last such write of project.json
  raced,     \* history: projects whose edit came before the rename of a migration
             \* and after its last look
  leaked,    \* history: projects whose temporary could not be removed
  disturbed  \* history: an open failed and nothing from outside was the cause

importVars == <<home, pack, imported, source, snapshot, importing, leaked>>

openVars == <<migration, opening, raced, disturbed>>

projectStore == <<importVars, openVars, document, edits, lastEdit>>

projectVars == <<projectStore, upsets>>

-----------------------------------------------------------------------------
(* A zip file has an identity, the content of its members and, at its end,  *)
(* the list that gives the checksum of each.  A content is a number, 0 for  *)
(* no such member; the format of the pack stands in its metadata.           *)

Members == {"pack.mcmeta", "block.png"}

Contents == [Members -> 0 .. MaxEdits + 1]

Digests == [bytes : Contents, list : Contents]

Zips == [id : 0 .. MaxEdits, bytes : Contents, list : Contents]

Nothing == [m \in Members |-> 0]

NoZip == [id |-> 0, bytes |-> Nothing, list |-> Nothing]

ZipOf(names) ==
  LET content == [m \in Members |-> IF m \in names THEN 1 ELSE 0] IN
  [id |-> 0, bytes |-> content, list |-> content]

Digest(zip) == [bytes |-> zip.bytes, list |-> zip.list]

Intact(zip, m) == zip.list[m] # 0 /\ zip.bytes[m] = zip.list[m]

\* JavaPackAdapter.inspect: the names, and the format in the metadata.
Inspected(zip) ==
  [names |-> {m \in Members : zip.list[m] # 0},
   format |-> IF Intact(zip, "pack.mcmeta") THEN zip.list["pack.mcmeta"] ELSE 0]

ImportIdle ==
  [step |-> "idle", project |-> NoFolder,
   seen |-> Inspected(NoZip), hash |-> Digest(NoZip), file |-> 0,
   opened |-> NoZip, list |-> Nothing, todo |-> {}]

Document(schema) == [schema |-> schema, edit |-> 0]

OpenIdle ==
  [step |-> "idle", of |-> NoFolder, seen |-> Document(0), since |-> 0]

\* Projects of an older version may be there from the start.
ProjectsInit ==
  /\ \E old \in SUBSET Folders :
       /\ home = [p \in Folders |-> IF p \in old THEN "published" ELSE "absent"]
       /\ document = [p \in Folders |-> Document(IF p \in old THEN 1 ELSE 0)]
       /\ pack = [p \in Folders |-> ZipOf(IF p \in old THEN Members ELSE {}).list]
       /\ imported = [p \in Folders |->
            LET zip == ZipOf(IF p \in old THEN Members ELSE {}) IN
            [hash |-> Digest(zip), format |-> Inspected(zip).format]]
  /\ source = NoZip /\ snapshot = NoZip
  /\ importing = ImportIdle
  /\ migration = NoThread
  /\ opening = [t \in Threads |-> OpenIdle]
  /\ edits = 0 /\ lastEdit = [p \in Folders |-> 0]
  /\ raced = {} /\ leaked = {} /\ disturbed = FALSE
  /\ UpsetsInit

ImportAt(step) == importing.step = step

ImportGo(step) == importing' = [importing EXCEPT !.step = step]

\* The handler answers: the upload is removed, whatever happened.
ImportReturns ==
  /\ importing' = ImportIdle
  /\ source' = NoZip /\ snapshot' = NoZip

outsideImport == <<openVars, edits, lastEdit>>

-----------------------------------------------------------------------------
(* import_project *)

\* The request is read into .import-upload-*.zip; a pack with a texture or none.
Receive ==
  /\ ImportAt("idle")
  /\ \E names \in {{"pack.mcmeta"}, Members} : source' = ZipOf(names)
  /\ ImportGo("received")
  /\ UNCHANGED <<home, pack, imported, snapshot, leaked, document,
                 outsideImport, upsets>>

\* A request that is cut off or refused, a pack without metadata, a format
\* that no catalog knows: nothing was made yet.
Refuse ==
  /\ ImportAt("received")
  /\ ImportReturns
  /\ UNCHANGED <<home, pack, imported, leaked, document, outsideImport, upsets>>

\* The upload is inspected, then <id>.tmp is made.
MakeStage ==
  /\ ImportAt("received") /\ Inspected(source).format # 0
  /\ \E p \in Folders :
       /\ home[p] = "absent"
       /\ home' = [home EXCEPT ![p] = "temp"]
       /\ importing' = [ImportIdle EXCEPT !.step = "copy", !.project = p,
                                          !.seen = Inspected(source),
                                          !.todo = Members]
  /\ UNCHANGED <<pack, imported, source, snapshot, leaked, document,
                 outsideImport, upsets>>

\* _copy_file_and_hash, a piece at a time: the digest is that of the bytes
\* as they were read.
CopyPiece ==
  /\ ImportAt("copy")
  /\ \E m \in importing.todo :
       /\ snapshot' = [snapshot EXCEPT !.bytes[m] = source.bytes[m]]
       /\ importing' = [importing EXCEPT !.todo = @ \ {m},
                                         !.hash.bytes[m] = source.bytes[m]]
  /\ UNCHANGED <<home, pack, imported, source, leaked, document,
                 outsideImport, upsets>>

CopyEnd ==
  /\ ImportAt("copy") /\ importing.todo = {}
  /\ snapshot' = [snapshot EXCEPT !.list = source.list]
  /\ importing' = [importing EXCEPT !.step = "copied", !.hash.list = source.list,
                                    !.file = snapshot.id]
  /\ UNCHANGED <<home, pack, imported, source, leaked, document,
                 outsideImport, upsets>>

\* Mutant of Bound: the digest is not compared.
BoundFile(zip) == zip.id = importing.file

\* _verify_snapshot_binding: the path, or the handle, is still the file that
\* was written, with the content that was written.
Bound(zip) == zip.id = importing.file /\ Digest(zip) = importing.hash

\* What a step requires; a step whose requirement does not hold fails.
StepHolds ==
  CASE ImportAt("copied") -> Inspected(snapshot) = importing.seen
    [] ImportAt("open") -> Bound(snapshot)
    [] ImportAt("unpack") ->
         \A m \in importing.todo :
           /\ importing.list[m] # 0
           /\ importing.opened.bytes[m] = importing.list[m]
    [] ImportAt("verify") -> snapshot.id = importing.file /\ Bound(importing.opened)
    [] ImportAt("path") -> Bound(snapshot)
    [] OTHER -> TRUE

\* _validate_snapshot: the copy has the members and the metadata of the upload.
CheckSnapshot ==
  /\ ImportAt("copied") /\ StepHolds
  /\ ImportGo("open")
  /\ UNCHANGED <<home, pack, imported, source, snapshot, leaked, document,
                 outsideImport, upsets>>

OpenSnapshot ==
  /\ ImportAt("open") /\ StepHolds
  /\ importing' = [importing EXCEPT !.step = "list", !.opened = snapshot]
  /\ UNCHANGED <<home, pack, imported, source, snapshot, leaked, document,
                 outsideImport, upsets>>

\* ZipFile reads the list of the open file.
ListMembers ==
  /\ ImportAt("list")
  /\ importing' = [importing EXCEPT !.step = "unpack", !.list = importing.opened.list,
                                    !.todo = importing.seen.names]
  /\ UNCHANGED <<home, pack, imported, source, snapshot, leaked, document,
                 outsideImport, upsets>>

\* _copy_validated_members: a member is read from the handle and checked.
UnpackMember ==
  /\ ImportAt("unpack")
  /\ \E m \in importing.todo :
       /\ importing.list[m] # 0
       /\ importing.opened.bytes[m] = importing.list[m]
       /\ pack' = [pack EXCEPT ![importing.project][m] = importing.list[m]]
       /\ importing' = [importing EXCEPT !.todo = @ \ {m}]
  /\ UNCHANGED <<home, imported, source, snapshot, leaked, document,
                 outsideImport, upsets>>

\* project.json is written in the temporary.
WriteManifest ==
  LET p == importing.project IN
  /\ ImportAt("unpack") /\ importing.todo = {}
  /\ imported' = [imported EXCEPT ![p] = [hash |-> importing.hash,
                                          format |-> importing.seen.format]]
  /\ document' = [document EXCEPT ![p] = Document(2)]
  /\ ImportGo("verify")
  /\ UNCHANGED <<home, pack, source, snapshot, leaked, outsideImport, upsets>>

\* The handle and the path once more, then the path alone.
VerifyOpen ==
  /\ ImportAt("verify") /\ StepHolds
  /\ ImportGo("path")
  /\ UNCHANGED <<home, pack, imported, source, snapshot, leaked, document,
                 outsideImport, upsets>>

VerifyPath ==
  /\ ImportAt("path") /\ StepHolds
  /\ ImportGo("rename")
  /\ UNCHANGED <<home, pack, imported, source, snapshot, leaked, document,
                 outsideImport, upsets>>

PublishProject ==
  /\ ImportAt("rename")
  /\ home' = [home EXCEPT ![importing.project] = "published"]
  /\ ImportReturns
  /\ UNCHANGED <<pack, imported, leaked, document, outsideImport, upsets>>

Staging == ~ImportAt("idle") /\ ~ImportAt("received")

\* The except of _create_project removes the temporary.
RemoveStage ==
  LET p == importing.project IN
  /\ home' = [home EXCEPT ![p] = "absent"]
  /\ pack' = [pack EXCEPT ![p] = Nothing]
  /\ document' = [document EXCEPT ![p] = Document(0)]
  /\ UNCHANGED leaked

\* A step fails: by its requirement or by a fault, and so may the removal.
AbandonImport ==
  /\ Staging
  /\ \/ ~StepHolds /\ RemoveStage /\ UNCHANGED upsets
     \/ StepHolds /\ Fault(MaxProjectUpsets) /\ RemoveStage
     \/ /\ ~StepHolds /\ Fault(MaxProjectUpsets)
        /\ leaked' = leaked \cup {importing.project}
        /\ UNCHANGED <<home, pack, document>>
  /\ ImportReturns
  /\ UNCHANGED <<imported, outsideImport>>

ImportStep ==
  \/ Refuse \/ MakeStage \/ CopyPiece \/ CopyEnd \/ CheckSnapshot
  \/ OpenSnapshot \/ ListMembers \/ UnpackMember \/ WriteManifest
  \/ VerifyOpen \/ VerifyPath \/ PublishProject \/ AbandonImport

-----------------------------------------------------------------------------
(* ProjectRepository.open *)

OpenAt(t, step) == opening[t].step = step

OpenGo(t, new) == opening' = [opening EXCEPT ![t] = new]

OpenStep(t, step) == [opening[t] EXCEPT !.step = step]

outsideOpen == <<importVars, edits, lastEdit>>

\* The open ends, with a project or an error, and the lock is given back.
OpenReturns(t) ==
  /\ OpenGo(t, OpenIdle)
  /\ migration' = IF migration = t THEN NoThread ELSE migration

\* An error of the open, and whether something from outside was the cause.
OpenError(t, excuse) ==
  /\ OpenReturns(t)
  /\ disturbed' = (disturbed \/ ~excuse)

CallOpen(t) ==
  /\ OpenAt(t, "idle")
  /\ \E p \in Folders :
       /\ home[p] = "published"
       /\ OpenGo(t, [OpenIdle EXCEPT !.step = "lock", !.of = p, !.since = edits])
  /\ UNCHANGED <<outsideOpen, migration, raced, disturbed, document, upsets>>

TakeMigration(t) ==
  /\ OpenAt(t, "lock") /\ migration = NoThread
  /\ migration' = t
  /\ OpenGo(t, OpenStep(t, "read"))
  /\ UNCHANGED <<outsideOpen, raced, disturbed, document, upsets>>

ReadManifest(t) ==
  /\ OpenAt(t, "read")
  /\ OpenGo(t, [OpenStep(t, "reread") EXCEPT !.seen = document[opening[t].of]])
  /\ UNCHANGED <<outsideOpen, migration, raced, disturbed, document, upsets>>

\* The file is looked at once more after it was read: another one fails the
\* open.  A manifest of schema 2 is the answer, one of schema 1 is migrated.
ReadAgain(t) ==
  LET call == opening[t] IN
  /\ OpenAt(t, "reread")
  /\ IF document[call.of] # call.seen
     THEN OpenError(t, edits # call.since)
     ELSE /\ IF call.seen.schema = 2 THEN OpenReturns(t)
             ELSE OpenGo(t, OpenStep(t, "check")) /\ UNCHANGED migration
          /\ UNCHANGED disturbed
  /\ UNCHANGED <<outsideOpen, raced, document, upsets>>

\* validate_replacement: the temporary is written, and project.json must
\* still be the file that was read.
CheckManifest(t) ==
  LET call == opening[t] IN
  /\ OpenAt(t, "check")
  /\ IF document[call.of] = call.seen
     THEN /\ OpenGo(t, OpenStep(t, "replace"))
          /\ UNCHANGED <<migration, disturbed>>
     ELSE OpenError(t, edits # call.since)
  /\ UNCHANGED <<outsideOpen, raced, document, upsets>>

ReplaceManifest(t) ==
  LET call == opening[t] IN
  /\ OpenAt(t, "replace")
  /\ document' = [document EXCEPT ![call.of] = [call.seen EXCEPT !.schema = 2]]
  /\ OpenReturns(t)
  /\ UNCHANGED <<outsideOpen, raced, disturbed, upsets>>

OpenFails(t) ==
  /\ opening[t].step \in {"read", "reread", "check", "replace"}
  /\ Fault(MaxProjectUpsets)
  /\ OpenError(t, TRUE)
  /\ UNCHANGED <<outsideOpen, raced, document>>

OpenProject(t) ==
  \/ CallOpen(t) \/ TakeMigration(t) \/ ReadManifest(t) \/ ReadAgain(t)
  \/ CheckManifest(t) \/ ReplaceManifest(t) \/ OpenFails(t)

-----------------------------------------------------------------------------
(* The other program, and the end of the process *)

Edit == edits < MaxEdits /\ edits' = edits + 1

Written(zip, m) == [zip EXCEPT !.bytes[m] = edits + 2, !.list[m] = edits + 2]

EditSource ==
  /\ ImportAt("received") \/ ImportAt("copy")
  /\ Edit
  /\ \E m \in Members : source' = Written(source, m)
  /\ UNCHANGED <<home, pack, imported, snapshot, importing, leaked, openVars,
                 document, lastEdit, upsets>>

\* In place, which an open handle sees, or by another file at the path.
EditSnapshot ==
  /\ Staging /\ ~ImportAt("copy")
  /\ Edit
  /\ \E m \in Members :
       \/ /\ snapshot' = Written(snapshot, m)
          /\ importing' =
               IF /\ importing.step \in {"list", "unpack", "verify"}
                  /\ importing.opened.id = snapshot.id
               THEN [importing EXCEPT !.opened = Written(snapshot, m)]
               ELSE importing
       \/ /\ snapshot' = [Written(snapshot, m) EXCEPT !.id = edits + 1]
          /\ UNCHANGED importing
  /\ UNCHANGED <<home, pack, imported, source, leaked, openVars, document,
                 lastEdit, upsets>>

\* A newer manifest replaces project.json.
EditDocument ==
  /\ Edit
  /\ \E p \in Folders :
       /\ home[p] = "published"
       /\ document' = [document EXCEPT ![p] = [schema |-> 2, edit |-> edits + 1]]
       /\ lastEdit' = [lastEdit EXCEPT ![p] = edits + 1]
       /\ raced' = IF \E t \in Threads : OpenAt(t, "replace") /\ opening[t].of = p
                   THEN raced \cup {p} ELSE raced
  /\ UNCHANGED <<importVars, migration, opening, disturbed, upsets>>

\* What is left in a temporary stays there: no start looks for it.
ProjectsRestart ==
  /\ Crash(MaxProjectUpsets)
  /\ ImportReturns
  /\ leaked' = IF Staging THEN leaked \cup {importing.project} ELSE leaked
  /\ migration' = NoThread
  /\ opening' = [t \in Threads |-> OpenIdle]
  /\ UNCHANGED <<home, pack, imported, raced, disturbed, document, edits, lastEdit>>

ProjectsNext ==
  \/ Receive \/ ImportStep
  \/ \E t \in Threads : OpenProject(t)
  \/ EditSource \/ EditSnapshot \/ EditDocument \/ ProjectsRestart

ProjectsSpec == ProjectsInit /\ [][ProjectsNext]_projectVars

-----------------------------------------------------------------------------
(* Properties *)

\* The type invariant of the variables.
ProjectsTypeOK ==
  /\ home \in [Folders -> {"absent", "temp", "published"}]
  /\ pack \in [Folders -> Contents]
  /\ imported \in [Folders -> [hash : Digests, format : 0 .. MaxEdits + 1]]
  /\ document \in [Folders -> [schema : 0 .. 2, edit : 0 .. MaxEdits]]
  /\ source \in Zips /\ snapshot \in Zips
  /\ importing.project \in Folders \cup {NoFolder}
  /\ importing.opened \in Zips /\ importing.hash \in Digests
  /\ migration \in Threads \cup {NoThread}
  /\ edits \in 0 .. MaxEdits /\ lastEdit \in [Folders -> 0 .. MaxEdits]
  /\ raced \subseteq Folders /\ leaked \subseteq Folders
  /\ disturbed \in BOOLEAN

\* The working copy of a project is, member by member, the pack whose digest
\* and format its project.json records, although the upload and the snapshot
\* were written to while they were inspected, copied and unpacked
\* (workspace.py:93-172).
ImportsWhole ==
  \A p \in Folders :
    home[p] = "published" =>
      /\ pack[p] = imported[p].hash.list
      /\ pack[p] = imported[p].hash.bytes
      /\ pack[p]["pack.mcmeta"] = imported[p].format
      /\ document[p].schema # 0

\* A temporary belongs to the import at work, or to one whose removal failed
\* or that the end of the process cut short (workspace.py:173-180).
StagesOwned ==
  \A p \in Folders :
    home[p] = "temp" => p \in leaked \/ (Staging /\ importing.project = p)

\* A migration does not take back what another program has written to
\* project.json, but for a write between its last look and its rename
\* (repository.py:216-242).
EditsKept ==
  \A p \in Folders : p \notin raced => document[p].edit = lastEdit[p]

\* An open fails for a fault or a write from outside, never because another
\* thread of the process opens and migrates the project (repository.py:101).
OpensUndisturbed == ~disturbed

\* What an import and an open promise, together.
ProjectsConsistent ==
  ImportsWhole /\ StagesOwned /\ EditsKept /\ OpensUndisturbed
=============================================================================
