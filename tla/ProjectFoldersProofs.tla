------------------------ MODULE ProjectFoldersProofs ------------------------
(***************************************************************************)
(* The imports and the opens of projects, for any projects, threads, and   *)
(* number of writes of another program.  ImportInv says what the import at *)
(* work knows of the bytes it has hashed: the content of a write is new,   *)
(* so a snapshot that still has the digest was never written to.  OpenInv  *)
(* says what an open that holds the migration lock knows of project.json.  *)
(***************************************************************************)
EXTENDS ProjectFolders, TLAPS

Marks == 0 .. MaxEdits + 1

Documents == [schema : 0 .. 2, edit : 0 .. MaxEdits]

Inspections == [names : SUBSET Members, format : Marks]

ImportSteps ==
  {"idle", "received", "copy", "copied", "open", "list", "unpack", "verify",
   "path", "rename"}

ImportCalls ==
  [step : ImportSteps, project : Folders \cup {NoFolder}, seen : Inspections,
   hash : Digests, file : 0 .. MaxEdits, opened : Zips, list : Contents,
   todo : SUBSET Members]

OpenCalls ==
  [step : {"idle", "lock", "read", "reread", "check", "replace"},
   of : Folders \cup {NoFolder}, seen : Documents, since : 0 .. MaxEdits]

ProjectsTypeInv ==
  /\ home \in [Folders -> {"absent", "temp", "published"}]
  /\ pack \in [Folders -> Contents]
  /\ imported \in [Folders -> [hash : Digests, format : Marks]]
  /\ document \in [Folders -> Documents]
  /\ source \in Zips /\ snapshot \in Zips
  /\ importing \in ImportCalls
  /\ migration \in Threads \cup {NoThread}
  /\ opening \in [Threads -> OpenCalls]
  /\ edits \in 0 .. MaxEdits /\ lastEdit \in [Folders -> 0 .. MaxEdits]
  /\ raced \subseteq Folders /\ leaked \subseteq Folders
  /\ disturbed \in BOOLEAN
  /\ faults \in Nat

\* ProjectsConsistent, with what is known of a project before it is published.
HomeInv ==
  \A p \in Folders :
    /\ home[p] = "absent" => pack[p] = Nothing
    /\ home[p] # "published" => lastEdit[p] = 0 /\ document[p].edit = 0
    /\ home[p] = "published" =>
         /\ pack[p] = imported[p].hash.list
         /\ pack[p] = imported[p].hash.bytes
         /\ pack[p]["pack.mcmeta"] = imported[p].format
         /\ document[p].schema # 0
    /\ home[p] = "temp" => p \in leaked \/ (Staging /\ importing.project = p)
    /\ p \notin raced => document[p].edit = lastEdit[p]

\* The member m of the project p is the one that was hashed.
Unpacked(p, m) ==
  /\ pack[p][m] = importing.hash.list[m]
  /\ importing.hash.bytes[m] = importing.hash.list[m]

\* What the import has hashed is no newer than the last write, and a member
\* with bytes is in the list.
HashInv ==
  \A m \in Members :
    /\ source.bytes[m] <= edits + 1 /\ source.list[m] <= edits + 1
    /\ importing.hash.bytes[m] <= edits + 1
    /\ importing.hash.list[m] <= edits + 1
    /\ source.list[m] = 0 => source.bytes[m] = 0
    /\ ImportAt("copy") =>
         (source.list[m] = 0 => importing.hash.bytes[m] = 0)
    /\ Staging /\ ~ImportAt("copy") =>
         (importing.hash.list[m] = 0 => importing.hash.bytes[m] = 0)

\* A step after the check of the snapshot relies on the digest alone.
ImportInv ==
  LET i == importing
      p == importing.project
  IN
  /\ Staging => p \in Folders /\ home[p] = "temp" /\ i.seen.format # 0
  /\ i.step \in {"copy", "copied", "open", "list"} => pack[p] = Nothing
  /\ i.step = "open" /\ Digest(snapshot) = i.hash => Inspected(i.hash) = i.seen
  /\ i.step \in {"list", "unpack", "verify", "path", "rename"} =>
       Inspected(i.hash) = i.seen
  /\ i.step \in {"unpack", "verify"} /\ Digest(i.opened) = i.hash =>
       i.list = i.hash.list /\ \A m \in Members \ i.todo : Unpacked(p, m)
  /\ i.step = "verify" => i.todo = {}
  /\ i.step \in {"path", "rename"} => \A m \in Members : Unpacked(p, m)
  /\ i.step \in {"verify", "path", "rename"} =>
       /\ imported[p] = [hash |-> i.hash, format |-> i.seen.format]
       /\ document[p].schema = 2

\* While an open holds the lock nobody but another program writes project.json.
OpenFine(t, c) ==
  /\ c.step # "idle" =>
       c.of \in Folders /\ home[c.of] = "published" /\ c.since <= edits
  /\ c.step \in {"read", "reread", "check", "replace"} => migration = t
  /\ c.step \in {"reread", "check"} /\ c.since = edits =>
       document[c.of] = c.seen
  /\ c.step = "replace" => c.of \in raced \/ document[c.of] = c.seen

OpenInv == ~disturbed /\ \A t \in Threads : OpenFine(t, opening[t])

ProjectsInv ==
  ProjectsTypeInv /\ HomeInv /\ HashInv /\ ImportInv /\ OpenInv

-----------------------------------------------------------------------------
\* Numbers, and the records that a step changes.
LEMMA Bounds ==
  ASSUME ProjectsTypeInv
  PROVE  /\ MaxEdits \in Nat /\ edits \in Nat
         /\ \A x \in Marks : x \in Nat
         /\ 0 \in Marks /\ 1 \in Marks
         /\ edits < MaxEdits => edits + 2 \in Marks /\ edits + 1 \in 0 .. MaxEdits
BY ProjectFoldersAssumption DEF ProjectsTypeInv, Marks

LEMMA NothingFine ==
  /\ Nothing \in Contents /\ NoZip \in Zips /\ Digest(NoZip) \in Digests
  /\ NoZip.bytes = Nothing /\ NoZip.list = Nothing
  /\ Digest(NoZip).bytes = Nothing /\ Digest(NoZip).list = Nothing
  /\ \A m \in Members : Nothing[m] = 0
  /\ 0 \in 0 .. MaxEdits
<1>1. 0 \in 0 .. MaxEdits + 1 /\ 0 \in 0 .. MaxEdits
  BY ProjectFoldersAssumption
<1>2. Nothing \in Contents /\ \A m \in Members : Nothing[m] = 0
  BY <1>1 DEF Nothing, Contents
<1> HIDE DEF Nothing
<1> QED BY <1>1, <1>2 DEF NoZip, Zips, Digest, Digests

LEMMA ZipFine ==
  ASSUME NEW names \in SUBSET Members
  PROVE  LET zip == ZipOf(names) IN
         /\ zip \in Zips /\ Digest(zip) \in Digests /\ zip.list = zip.bytes
         /\ Digest(zip).list = zip.list /\ Digest(zip).bytes = zip.list
         /\ \A m \in Members : zip.list[m] = IF m \in names THEN 1 ELSE 0
<1> DEFINE content == [m \in Members |-> IF m \in names THEN 1 ELSE 0]
<1>1. 0 \in 0 .. MaxEdits + 1 /\ 1 \in 0 .. MaxEdits + 1 /\ 0 \in 0 .. MaxEdits
  BY ProjectFoldersAssumption
<1>2. content \in Contents
  BY <1>1 DEF Contents
<1>3. \A m \in Members : content[m] = IF m \in names THEN 1 ELSE 0
  OBVIOUS
<1>4. ZipOf(names) = [id |-> 0, bytes |-> content, list |-> content]
  BY DEF ZipOf
<1> HIDE DEF content
<1> QED BY <1>1, <1>2, <1>3, <1>4 DEF Zips, Digest, Digests

LEMMA InspectedFine ==
  ASSUME NEW zip, zip \in Zips \/ zip \in Digests
  PROVE  /\ Inspected(zip) \in Inspections
         /\ Inspected(zip).names = {m \in Members : zip.list[m] # 0}
         /\ Inspected(zip).format # 0 =>
              /\ zip.list["pack.mcmeta"] = Inspected(zip).format
              /\ zip.bytes["pack.mcmeta"] = zip.list["pack.mcmeta"]
<1>1. zip.list \in Contents
  BY DEF Zips, Digests
<1>2. zip.list["pack.mcmeta"] \in Marks /\ 0 \in Marks
  BY <1>1, ProjectFoldersAssumption DEF Contents, Members, Marks
<1> QED BY <1>2 DEF Inspected, Inspections, Intact

\* The digest of a zip is its content.
LEMMA DigestFine ==
  ASSUME NEW zip \in Zips
  PROVE  /\ Digest(zip) \in Digests
         /\ Digest(zip).bytes = zip.bytes /\ Digest(zip).list = zip.list
         /\ zip.bytes \in Contents /\ zip.list \in Contents
         /\ Inspected(Digest(zip)) = Inspected(zip)
BY DEF Zips, Digest, Digests, Inspected, Intact

LEMMA ImportIdleCall ==
  /\ ImportIdle \in ImportCalls /\ ImportIdle.step = "idle"
  /\ ImportIdle.hash.bytes = Nothing /\ ImportIdle.hash.list = Nothing
  /\ ImportIdle.project = NoFolder
<1>1. Inspected(NoZip) \in Inspections
  BY NothingFine, InspectedFine
<1>2. ImportIdle =
        [step |-> "idle", project |-> NoFolder, seen |-> Inspected(NoZip),
         hash |-> Digest(NoZip), file |-> 0, opened |-> NoZip,
         list |-> Nothing, todo |-> {}]
  BY DEF ImportIdle
<1> QED BY <1>1, <1>2, NothingFine DEF ImportCalls, ImportSteps

LEMMA OpenIdleCall ==
  /\ OpenIdle \in OpenCalls /\ OpenIdle.step = "idle"
  /\ Document(0) \in Documents /\ Document(1) \in Documents
  /\ Document(2) \in Documents
  /\ \A s \in 0 .. 2 : Document(s).edit = 0 /\ Document(s).schema = s
<1>1. 0 \in 0 .. MaxEdits
  BY ProjectFoldersAssumption
<1>2. \A s \in 0 .. 2 : Document(s) \in Documents
  BY <1>1 DEF Document, Documents
<1>3. \A s \in 0 .. 2 : Document(s).edit = 0 /\ Document(s).schema = s
  BY DEF Document
<1>4. OpenIdle = [step |-> "idle", of |-> NoFolder, seen |-> Document(0),
                  since |-> 0]
  BY DEF OpenIdle
<1> QED BY <1>1, <1>2, <1>3, <1>4 DEF OpenCalls

\* ImportGo: only the place changes.
LEMMA ImportGoTo ==
  ASSUME ProjectsTypeInv, NEW s \in ImportSteps, ImportGo(s)
  PROVE  LET i == importing j == importing' IN
         /\ j \in ImportCalls /\ j.step = s /\ j.project = i.project
         /\ j.seen = i.seen /\ j.hash = i.hash /\ j.file = i.file
         /\ j.opened = i.opened /\ j.list = i.list /\ j.todo = i.todo
BY DEF ProjectsTypeInv, ImportGo, ImportCalls

LEMMA ProjectsInitInv == ProjectsInit => ProjectsInv
<1> SUFFICES ASSUME ProjectsInit PROVE ProjectsInv
  OBVIOUS
<1>1. PICK old \in SUBSET Folders :
        /\ home = [p \in Folders |-> IF p \in old THEN "published" ELSE "absent"]
        /\ document = [p \in Folders |-> Document(IF p \in old THEN 1 ELSE 0)]
        /\ pack = [p \in Folders |-> ZipOf(IF p \in old THEN Members ELSE {}).list]
        /\ imported = [p \in Folders |->
             LET zip == ZipOf(IF p \in old THEN Members ELSE {}) IN
             [hash |-> Digest(zip), format |-> Inspected(zip).format]]
  BY DEF ProjectsInit
<1>2. ASSUME NEW p \in Folders
      PROVE  LET zip == ZipOf(IF p \in old THEN Members ELSE {}) IN
             /\ home[p] = (IF p \in old THEN "published" ELSE "absent")
             /\ pack[p] = zip.list /\ zip.list \in Contents
             /\ imported[p] \in [hash : Digests, format : Marks]
             /\ imported[p].hash.list = zip.list
             /\ imported[p].hash.bytes = zip.list
             /\ p \in old => pack[p]["pack.mcmeta"] = imported[p].format
             /\ p \notin old => pack[p] = Nothing
  <2> DEFINE names == IF p \in old THEN Members ELSE {}
  <2> PICK zip : zip = ZipOf(names)
    OBVIOUS
  <2>1. names \in SUBSET Members
    OBVIOUS
  <2>2. /\ zip \in Zips /\ Digest(zip) \in Digests /\ zip.list = zip.bytes
        /\ Digest(zip).list = zip.list /\ Digest(zip).bytes = zip.list
        /\ \A m \in Members : zip.list[m] = IF m \in names THEN 1 ELSE 0
    BY <2>1, ZipFine
  <2>3. zip.list \in Contents
    BY <2>2, DigestFine
  <2>4. Inspected(zip).format \in Marks
    BY <2>2, InspectedFine DEF Inspections
  <2>5. p \in old => Inspected(zip).format = zip.list["pack.mcmeta"]
    BY <2>2 DEF Inspected, Intact, Members
  <2>6. p \notin old => zip.list = Nothing
    BY <2>2, <2>3 DEF Contents, Nothing
  <2>7. /\ home[p] = (IF p \in old THEN "published" ELSE "absent")
        /\ pack[p] = zip.list
        /\ imported[p] = [hash |-> Digest(zip), format |-> Inspected(zip).format]
    BY <1>1
  <2> HIDE DEF names
  <2>8. /\ imported[p].hash = Digest(zip)
        /\ imported[p].format = Inspected(zip).format
        /\ imported[p] \in [hash : Digests, format : Marks]
    BY <2>2, <2>4, <2>7
  <2> QED BY <2>2, <2>3, <2>5, <2>6, <2>7, <2>8 DEF names
<1>3. /\ source = NoZip /\ snapshot = NoZip /\ importing = ImportIdle
      /\ migration = NoThread /\ opening = [t \in Threads |-> OpenIdle]
      /\ edits = 0 /\ lastEdit = [p \in Folders |-> 0]
      /\ raced = {} /\ leaked = {} /\ disturbed = FALSE
      /\ faults = 0
  BY DEF ProjectsInit, UpsetsInit
<1>4. \A p \in Folders :
        /\ document[p] \in Documents /\ document[p].edit = 0
        /\ p \in old => document[p].schema = 1
  BY <1>1, OpenIdleCall
<1>5. ProjectsTypeInv
  <2>1. /\ home \in [Folders -> {"absent", "temp", "published"}]
        /\ document \in [Folders -> Documents]
    BY <1>1, <1>4
  <2>2. pack \in [Folders -> Contents]
    <3>1. DOMAIN pack = Folders /\ pack = [p \in Folders |-> pack[p]]
      BY <1>1
    <3>2. \A p \in Folders : pack[p] \in Contents
      BY <1>2
    <3> QED BY <3>1, <3>2
  <2>3. imported \in [Folders -> [hash : Digests, format : Marks]]
    <3>1. imported = [p \in Folders |-> imported[p]]
      BY <1>1
    <3>2. \A p \in Folders : imported[p] \in [hash : Digests, format : Marks]
      BY <1>2
    <3> QED BY <3>1, <3>2
  <2>4. opening \in [Threads -> OpenCalls]
    BY <1>3, OpenIdleCall
  <2> QED
    BY <2>1, <2>2, <2>3, <2>4, <1>3, NothingFine, ImportIdleCall
       DEF ProjectsTypeInv
<1>6. HomeInv
  BY <1>2, <1>3, <1>4 DEF HomeInv
<1>7. HashInv
  BY <1>3, NothingFine, ImportIdleCall DEF HashInv, ImportAt, Staging
<1>8. ImportInv
  BY <1>3, ImportIdleCall DEF ImportInv, Staging, ImportAt
<1>9. OpenInv
  BY <1>3, OpenIdleCall DEF OpenInv, OpenFine
<1> QED BY <1>5, <1>6, <1>7, <1>8, <1>9 DEF ProjectsInv

\* A step of an import, or of another program, that no open sees.
LEMMA OpensKept ==
  ASSUME ProjectsInv,
         UNCHANGED <<migration, opening, disturbed>>,
         raced \subseteq raced', edits' \in {edits, edits + 1},
         \A p \in Folders :
           home[p] = "published" =>
             home'[p] = "published" /\ document'[p] = document[p]
  PROVE  OpenInv'
<1>1. ASSUME NEW t \in Threads, NEW c \in OpenCalls, OpenFine(t, c)
      PROVE  OpenFine(t, c)'
  <2>1. /\ c.since \in Nat /\ edits \in Nat
        /\ c.since <= edits => c.since <= edits'
        /\ c.since <= edits /\ c.since = edits' => edits' = edits
    BY Bounds DEF OpenCalls, ProjectsInv, ProjectsTypeInv
  <2> QED BY <2>1, <1>1 DEF OpenFine
<1> QED BY <1>1 DEF ProjectsInv, ProjectsTypeInv, OpenInv

\* A step of an import that leaves the projects and their folders alone.
LEMMA ImportQuiet ==
  ASSUME ProjectsInv, importing' \in ImportCalls,
         UNCHANGED <<home, pack, imported, document, lastEdit, raced, leaked,
                     migration, opening, disturbed>>,
         edits' \in 0 .. MaxEdits, edits' \in {edits, edits + 1},
         source' \in Zips, snapshot' \in Zips,
         faults' \in Nat,
         Staging => /\ importing'.step \notin {"idle", "received"}
                    /\ importing'.project = importing.project,
         HashInv', ImportInv'
  PROVE  ProjectsInv'
<1>1. ProjectsTypeInv'
  BY DEF ProjectsInv, ProjectsTypeInv
<1>2. HomeInv'
  BY DEF ProjectsInv, HomeInv, Staging, ImportAt
<1>3. OpenInv'
  BY OpensKept DEF ProjectsInv, ProjectsTypeInv
<1> QED BY <1>1, <1>2, <1>3 DEF ProjectsInv

\* What the hash says stays true when neither it nor the upload changes.
LEMMA HashKept ==
  ASSUME ProjectsInv, importing'.hash = importing.hash, UNCHANGED source,
         edits' \in {edits, edits + 1},
         importing'.step = "copy" => importing.step = "copy",
         importing'.step \notin {"idle", "received", "copy"} =>
           importing.step \notin {"idle", "received", "copy"}
  PROVE  HashInv'
<1>1. ASSUME NEW m \in Members
      PROVE  /\ source.bytes[m] \in Nat /\ source.list[m] \in Nat
             /\ importing.hash.bytes[m] \in Nat
             /\ importing.hash.list[m] \in Nat
  BY ProjectFoldersAssumption
     DEF ProjectsInv, ProjectsTypeInv, Zips, ImportCalls, Digests, Contents
<1>2. edits \in Nat
  BY Bounds DEF ProjectsInv
<1> QED
  BY <1>1, <1>2 DEF ProjectsInv, HashInv, Staging, ImportAt

\* A request is read: source is a new zip of the names.
LEMMA ReceiveStep == ProjectsInv /\ Receive => ProjectsInv'
<1> SUFFICES ASSUME ProjectsInv, Receive PROVE ProjectsInv'
  OBVIOUS
<1>1. PICK names \in SUBSET Members : source' = ZipOf(names)
  BY DEF Receive, Members
<1>2. LET i == importing j == importing' IN
      /\ i.step = "idle" /\ j \in ImportCalls /\ j.step = "received"
      /\ j.hash = i.hash
  BY ImportGoTo DEF Receive, ImportAt, ProjectsInv, ImportSteps
<1>3. UNCHANGED <<home, pack, imported, snapshot, leaked, document, migration,
                  opening, raced, disturbed, edits, lastEdit, faults>>
  BY DEF Receive, outsideImport, openVars, upsets
<1>4. /\ source' \in Zips
      /\ \A m \in Members : source'.list[m] \in {0, 1} /\ source'.bytes[m] = source'.list[m]
  BY <1>1, ZipFine
<1>5. HashInv'
  <2>1. \A m \in Members : source'.list[m] <= edits + 1
    BY <1>4, Bounds DEF ProjectsInv
  <2> QED BY <2>1, <1>2, <1>3, <1>4 DEF ProjectsInv, HashInv, Staging, ImportAt
<1>6. ImportInv'
  BY <1>2 DEF ImportInv, Staging, ImportAt
<1> QED
  BY <1>2, <1>3, <1>4, <1>5, <1>6, ImportQuiet
     DEF ProjectsInv, ProjectsTypeInv, Staging, ImportAt

\* The handler answers, and what it leaves is a temporary that it could not
\* remove, or nothing.
LEMMA ImportReturnsFine ==
  ASSUME ProjectsInv, ImportReturns, edits' = edits
  PROVE  /\ importing' \in ImportCalls /\ importing'.step = "idle"
         /\ source' \in Zips /\ snapshot' \in Zips
         /\ HashInv' /\ ImportInv'
<1>1. importing' \in ImportCalls /\ importing'.step = "idle"
      /\ importing'.hash.bytes = Nothing /\ importing'.hash.list = Nothing
      /\ source' = NoZip /\ snapshot' = NoZip
  BY ImportIdleCall DEF ImportReturns
<1>2. HashInv'
  <2>1. 0 <= edits + 1
    BY Bounds DEF ProjectsInv
  <2> QED
    BY <2>1, <1>1, NothingFine DEF ProjectsInv, HashInv, Staging, ImportAt
<1>3. ImportInv'
  BY <1>1 DEF ImportInv, Staging, ImportAt
<1> QED BY <1>1, <1>2, <1>3, NothingFine

LEMMA RefuseStep == ProjectsInv /\ Refuse => ProjectsInv'
<1> SUFFICES ASSUME ProjectsInv, Refuse PROVE ProjectsInv'
  OBVIOUS
<1>1. /\ importing.step = "received" /\ ImportReturns
      /\ UNCHANGED <<home, pack, imported, leaked, document, migration,
                     opening, raced, disturbed, edits, lastEdit, faults>>
  BY DEF Refuse, ImportAt, outsideImport, openVars, upsets
<1> QED
  BY <1>1, ImportReturnsFine, ImportQuiet
     DEF ProjectsInv, ProjectsTypeInv, Staging, ImportAt

\* The temporary is new and empty.
LEMMA MakeStageStep == ProjectsInv /\ MakeStage => ProjectsInv'
<1> SUFFICES ASSUME ProjectsInv, MakeStage PROVE ProjectsInv'
  OBVIOUS
<1> PICK seen : seen = Inspected(source)
  OBVIOUS
<1>1. PICK p \in Folders :
        /\ home[p] = "absent"
        /\ home' = [home EXCEPT ![p] = "temp"]
        /\ importing' = [ImportIdle EXCEPT !.step = "copy", !.project = p,
                                           !.seen = seen, !.todo = Members]
  BY DEF MakeStage
<1>2. /\ importing.step = "received" /\ seen.format # 0
      /\ UNCHANGED <<pack, imported, source, snapshot, leaked, document,
                     migration, opening, raced, disturbed, edits, lastEdit,
                     faults>>
  BY DEF MakeStage, ImportAt, outsideImport, openVars, upsets
<1>3. seen \in Inspections
  BY InspectedFine DEF ProjectsInv, ProjectsTypeInv
<1>4. LET j == importing' IN
      /\ j \in ImportCalls /\ j.step = "copy" /\ j.project = p /\ j.seen = seen
      /\ j.hash = ImportIdle.hash
  <2> PICK i : i = ImportIdle
    OBVIOUS
  <2>1. i \in ImportCalls
    BY ImportIdleCall
  <2>2. importing' = [i EXCEPT !.step = "copy", !.project = p, !.seen = seen,
                               !.todo = Members]
    BY <1>1
  <2> QED BY <2>1, <2>2, <1>3 DEF ImportCalls, ImportSteps
<1>5. ProjectsTypeInv'
  BY <1>1, <1>2, <1>4 DEF ProjectsInv, ProjectsTypeInv
<1>6. HashInv'
  <2>1. \A m \in Members : importing'.hash.bytes[m] = 0 /\ importing'.hash.list[m] = 0
    BY <1>4, ImportIdleCall, NothingFine
  <2>2. 0 <= edits + 1
    BY Bounds DEF ProjectsInv
  <2> QED BY <2>1, <2>2, <1>2, <1>4 DEF ProjectsInv, HashInv, Staging, ImportAt
<1>7. home'[p] = "temp" /\ \A q \in Folders \ {p} : home'[q] = home[q]
  BY <1>1 DEF ProjectsInv, ProjectsTypeInv
<1>8. ImportInv'
  <2>1. pack[p] = Nothing
    BY <1>1 DEF ProjectsInv, HomeInv
  <2> QED BY <2>1, <1>2, <1>4, <1>7 DEF ImportInv, Staging, ImportAt
<1>9. HomeInv'
  BY <1>1, <1>2, <1>4, <1>7
     DEF ProjectsInv, HomeInv, Staging, ImportAt
<1>10. OpenInv'
  BY <1>1, <1>2, <1>7, OpensKept
<1> QED BY <1>5, <1>6, <1>8, <1>9, <1>10 DEF ProjectsInv

\* A piece is hashed as it is read.
LEMMA CopyPieceStep == ProjectsInv /\ CopyPiece => ProjectsInv'
<1> SUFFICES ASSUME ProjectsInv, CopyPiece PROVE ProjectsInv'
  OBVIOUS
<1> PICK i, x : i = importing /\ x = source
  OBVIOUS
<1>1. PICK m \in i.todo :
        /\ snapshot' = [snapshot EXCEPT !.bytes[m] = x.bytes[m]]
        /\ importing' = [i EXCEPT !.todo = @ \ {m}, !.hash.bytes[m] = x.bytes[m]]
  BY DEF CopyPiece
<1>2. /\ i.step = "copy" /\ i \in ImportCalls /\ x \in Zips
      /\ UNCHANGED <<home, pack, imported, source, leaked, document,
                     migration, opening, raced, disturbed, edits, lastEdit,
                     faults>>
  BY DEF CopyPiece, ImportAt, outsideImport, openVars, upsets, ProjectsInv,
         ProjectsTypeInv
<1>3. /\ m \in Members /\ i.hash \in Digests /\ i.hash.bytes \in Contents
      /\ x.bytes[m] \in 0 .. MaxEdits + 1
      /\ snapshot \in Zips /\ snapshot.bytes \in Contents
  BY <1>1, <1>2 DEF ImportCalls, Digests, Zips, Contents, ProjectsInv,
                    ProjectsTypeInv
<1> PICK h : h = [i.hash EXCEPT !.bytes[m] = x.bytes[m]]
  OBVIOUS
<1>4. /\ h.bytes = [i.hash.bytes EXCEPT ![m] = x.bytes[m]]
      /\ h.list = i.hash.list /\ h \in Digests
  BY <1>3 DEF Digests, Contents
<1>5. LET j == importing' IN
      /\ j \in ImportCalls /\ j.step = "copy" /\ j.project = i.project
      /\ j.seen = i.seen /\ j.hash = h
  <2>1. importing' = [i EXCEPT !.todo = @ \ {m}, !.hash = h]
    BY <1>1, <1>2, <1>3 DEF ImportCalls
  <2> QED BY <2>1, <1>2, <1>4 DEF ImportCalls
<1>6. snapshot' \in Zips
  <2>1. snapshot'.bytes = [snapshot.bytes EXCEPT ![m] = x.bytes[m]]
    BY <1>1, <1>3 DEF Zips
  <2>2. [snapshot.bytes EXCEPT ![m] = x.bytes[m]] \in Contents
    BY <1>3 DEF Contents
  <2>3. snapshot' = [snapshot EXCEPT !.bytes = snapshot'.bytes]
    BY <1>1, <1>3, <2>1 DEF Zips
  <2> QED BY <2>1, <2>2, <2>3, <1>3 DEF Zips
<1>7. HashInv'
  <2>1. ASSUME NEW n \in Members
        PROVE  h.bytes[n] = i.hash.bytes[n] \/ h.bytes[n] = x.bytes[n]
    BY <1>3, <1>4 DEF Contents
  <2> QED
    BY <2>1, <1>2, <1>4, <1>5 DEF ProjectsInv, HashInv, Staging, ImportAt
<1>8. ImportInv'
  BY <1>2, <1>5 DEF ProjectsInv, ImportInv, Staging, ImportAt
<1> QED
  BY <1>2, <1>5, <1>6, <1>7, <1>8, ImportQuiet
     DEF ProjectsInv, ProjectsTypeInv, Staging, ImportAt

\* The list ends the copy.
LEMMA CopyEndStep == ProjectsInv /\ CopyEnd => ProjectsInv'
<1> SUFFICES ASSUME ProjectsInv, CopyEnd PROVE ProjectsInv'
  OBVIOUS
<1> PICK i, x, y : i = importing /\ x = source /\ y = snapshot
  OBVIOUS
<1>1. /\ i.step = "copy" /\ i \in ImportCalls /\ x \in Zips /\ y \in Zips
      /\ snapshot' = [y EXCEPT !.list = x.list]
      /\ importing' = [i EXCEPT !.step = "copied", !.hash.list = x.list,
                                !.file = y.id]
      /\ UNCHANGED <<home, pack, imported, source, leaked, document,
                     migration, opening, raced, disturbed, edits, lastEdit,
                     faults>>
  BY DEF CopyEnd, ImportAt, outsideImport, openVars, upsets, ProjectsInv,
         ProjectsTypeInv
<1>2. x.list \in Contents /\ y.id \in 0 .. MaxEdits /\ i.hash \in Digests
  BY <1>1 DEF Zips, ImportCalls
<1> PICK h : h = [i.hash EXCEPT !.list = x.list]
  OBVIOUS
<1>3. h.bytes = i.hash.bytes /\ h.list = x.list /\ h \in Digests
  BY <1>2 DEF Digests
<1>4. LET j == importing' IN
      /\ j \in ImportCalls /\ j.step = "copied" /\ j.project = i.project
      /\ j.seen = i.seen /\ j.hash = h
  <2>1. importing' = [i EXCEPT !.step = "copied", !.hash = h, !.file = y.id]
    BY <1>1, <1>2 DEF ImportCalls
  <2> QED BY <2>1, <1>1, <1>2, <1>3 DEF ImportCalls, ImportSteps
<1>5. snapshot' \in Zips
  BY <1>1, <1>2 DEF Zips
<1>6. HashInv'
  <2>1. ASSUME NEW m \in Members
        PROVE  /\ x.bytes[m] <= edits + 1 /\ x.list[m] <= edits + 1
               /\ h.bytes[m] <= edits + 1 /\ h.list[m] <= edits + 1
               /\ x.list[m] = 0 => x.bytes[m] = 0
               /\ h.list[m] = 0 => h.bytes[m] = 0
    BY <1>1, <1>3 DEF ProjectsInv, HashInv, ImportAt
  <2>2. /\ importing'.step = "copied" /\ importing'.hash = h
        /\ source' = x /\ edits' = edits
    BY <1>1, <1>4
  <2> QED BY <2>1, <2>2 DEF HashInv, ImportAt
<1>7. ImportInv'
  BY <1>1, <1>4 DEF ProjectsInv, ImportInv, Staging, ImportAt
<1> QED
  BY <1>1, <1>4, <1>5, <1>6, <1>7, ImportQuiet
     DEF ProjectsInv, ProjectsTypeInv, Staging, ImportAt

\* A check that the import passes changes its place alone.
LEMMA PassStep ==
  ASSUME ProjectsInv, NEW s \in {"open", "path", "rename"}, ImportGo(s), Staging,
         ~ImportAt("copy"),
         UNCHANGED <<home, pack, imported, source, snapshot, leaked, document,
                     outsideImport, upsets>>,
         ImportInv'
  PROVE  ProjectsInv'
<1>1. LET i == importing j == importing' IN
      /\ j \in ImportCalls /\ j.step = s /\ j.project = i.project
      /\ j.hash = i.hash
  BY ImportGoTo DEF ProjectsInv, ImportSteps
<1>2. HashInv'
  BY <1>1, HashKept DEF Staging, ImportAt, outsideImport
<1> QED
  BY <1>1, <1>2, ImportQuiet
     DEF ProjectsInv, ProjectsTypeInv, Staging, ImportAt, outsideImport,
         openVars, upsets

LEMMA CheckSnapshotStep == ProjectsInv /\ CheckSnapshot => ProjectsInv'
<1> SUFFICES ASSUME ProjectsInv, CheckSnapshot PROVE ProjectsInv'
  OBVIOUS
<1>1. /\ importing.step = "copied" /\ ImportGo("open")
      /\ Inspected(snapshot) = importing.seen
      /\ UNCHANGED <<home, pack, imported, source, snapshot, leaked, document,
                     outsideImport, upsets>>
  BY DEF CheckSnapshot, StepHolds, ImportAt
<1>2. LET i == importing j == importing' IN
      /\ j.step = "open" /\ j.project = i.project /\ j.seen = i.seen
      /\ j.hash = i.hash
  BY <1>1, ImportGoTo DEF ProjectsInv, ImportSteps
<1>3. Inspected(Digest(snapshot)) = importing.seen
  BY <1>1, DigestFine DEF ProjectsInv, ProjectsTypeInv
<1>4. ImportInv'
  <2>1. Digest(snapshot)' = Digest(snapshot)
    BY <1>1
  <2>2. Digest(snapshot) = importing'.hash => Inspected(importing'.hash) = importing'.seen
    BY <1>2, <1>3
  <2>3. (Inspected(importing.hash))' = Inspected(importing'.hash)
    OBVIOUS
  <2> QED
    BY <1>1, <1>2, <2>1, <2>2, <2>3 DEF ProjectsInv, ImportInv, Staging, ImportAt
<1> QED BY <1>1, <1>4, PassStep DEF Staging, ImportAt

\* The open handle has the digest, so what was seen is what was hashed.
LEMMA OpenSnapshotStep == ProjectsInv /\ OpenSnapshot => ProjectsInv'
<1> SUFFICES ASSUME ProjectsInv, OpenSnapshot PROVE ProjectsInv'
  OBVIOUS
<1> PICK i : i = importing
  OBVIOUS
<1>1. /\ i.step = "open" /\ i \in ImportCalls /\ Digest(snapshot) = i.hash
      /\ snapshot \in Zips
      /\ importing' = [i EXCEPT !.step = "list", !.opened = snapshot]
      /\ UNCHANGED <<home, pack, imported, source, snapshot, leaked, document,
                     migration, opening, raced, disturbed, edits, lastEdit,
                     faults>>
  BY DEF OpenSnapshot, StepHolds, Bound, ImportAt, outsideImport, openVars,
         upsets, ProjectsInv, ProjectsTypeInv
<1>2. LET j == importing' IN
      /\ j \in ImportCalls /\ j.step = "list" /\ j.project = i.project
      /\ j.seen = i.seen /\ j.hash = i.hash
  BY <1>1 DEF ImportCalls, ImportSteps
<1>3. HashInv'
  BY <1>1, <1>2, HashKept
<1>4. ImportInv'
  <2>1. Inspected(i.hash) = i.seen
    BY <1>1 DEF ProjectsInv, ImportInv
  <2>2. Inspected(importing'.hash) = importing'.seen
    BY <2>1, <1>2
  <2> QED
    BY <2>2, <1>1, <1>2 DEF ProjectsInv, ImportInv, Staging, ImportAt
<1> QED
  BY <1>1, <1>2, <1>3, <1>4, ImportQuiet
     DEF ProjectsInv, ProjectsTypeInv, Staging, ImportAt

\* The list of the handle; of the members that are not in it nothing is there.
LEMMA ListMembersStep == ProjectsInv /\ ListMembers => ProjectsInv'
<1> SUFFICES ASSUME ProjectsInv, ListMembers PROVE ProjectsInv'
  OBVIOUS
<1> PICK i : i = importing
  OBVIOUS
<1>1. /\ i.step = "list" /\ i \in ImportCalls
      /\ importing' = [i EXCEPT !.step = "unpack", !.list = i.opened.list,
                                !.todo = i.seen.names]
      /\ UNCHANGED <<home, pack, imported, source, snapshot, leaked, document,
                     migration, opening, raced, disturbed, edits, lastEdit,
                     faults>>
  BY DEF ListMembers, ImportAt, outsideImport, openVars, upsets, ProjectsInv,
         ProjectsTypeInv
<1>2. /\ i.opened \in Zips /\ i.opened.list \in Contents
      /\ i.seen.names \in SUBSET Members /\ i.hash \in Digests
  BY <1>1 DEF ImportCalls, Zips, Inspections
<1>3. LET j == importing' IN
      /\ j \in ImportCalls /\ j.step = "unpack" /\ j.project = i.project
      /\ j.seen = i.seen /\ j.hash = i.hash /\ j.opened = i.opened
      /\ j.list = i.opened.list /\ j.todo = i.seen.names
  BY <1>1, <1>2 DEF ImportCalls, ImportSteps
<1>4. HashInv'
  BY <1>1, <1>3, HashKept
<1>5. i.seen = Inspected(i.hash) /\ pack[i.project] = Nothing
  BY <1>1 DEF ProjectsInv, ImportInv
<1>6. ASSUME NEW m \in Members, m \notin i.seen.names
      PROVE  Unpacked(i.project, m)
  <2>1. i.hash.list[m] = 0
    BY <1>2, <1>5, <1>6, InspectedFine
  <2>2. i.hash.bytes[m] = 0
    BY <2>1, <1>1 DEF ProjectsInv, HashInv, Staging, ImportAt
  <2> QED BY <2>1, <2>2, <1>5, NothingFine DEF Unpacked
<1>7. Digest(i.opened) = i.hash => i.opened.list = i.hash.list
  BY <1>2, DigestFine
<1>8. ImportInv'
  <2>1. Inspected(importing'.hash) = importing'.seen
    BY <1>3, <1>5
  <2>2. ASSUME NEW m \in Members, m \notin importing'.todo
        PROVE  Unpacked(importing.project, m)'
    BY <2>2, <1>1, <1>3, <1>6 DEF Unpacked
  <2>3. Digest(importing'.opened) = importing'.hash =>
          importing'.list = importing'.hash.list
    BY <1>3, <1>7
  <2> QED
    BY <2>1, <2>2, <2>3, <1>1, <1>3 DEF ProjectsInv, ImportInv, Staging, ImportAt
<1> QED
  BY <1>1, <1>3, <1>4, <1>8, ImportQuiet
     DEF ProjectsInv, ProjectsTypeInv, Staging, ImportAt

\* The whole pack: what the last check of the handle makes sure of.
LEMMA AllUnpacked ==
  ASSUME ProjectsInv, NEW p \in Folders, \A m \in Members : Unpacked(p, m),
         Inspected(importing.hash) = importing.seen,
         importing.seen.format # 0
  PROVE  /\ pack[p] = importing.hash.list /\ pack[p] = importing.hash.bytes
         /\ pack[p]["pack.mcmeta"] = importing.seen.format
<1>1. /\ importing.hash \in Digests /\ pack[p] \in Contents
      /\ importing.hash.list \in Contents /\ importing.hash.bytes \in Contents
  BY DEF ProjectsInv, ProjectsTypeInv, ImportCalls, Digests
<1>2. pack[p] = importing.hash.list /\ pack[p] = importing.hash.bytes
  BY <1>1 DEF Unpacked, Contents
<1>3. importing.hash.list["pack.mcmeta"] = importing.seen.format
  BY <1>1, InspectedFine
<1> QED BY <1>2, <1>3

\* A step of the import in the folder of its project p, which no open sees.
LEMMA StageStep ==
  ASSUME ProjectsInv, importing' \in ImportCalls,
         NEW p \in Folders, p = importing.project, Staging,
         home' \in [Folders -> {"absent", "temp", "published"}],
         pack' \in [Folders -> Contents],
         imported' \in [Folders -> [hash : Digests, format : Marks]],
         document' \in [Folders -> Documents],
         leaked \subseteq leaked', leaked' \subseteq Folders,
         source' \in Zips, snapshot' \in Zips,
         faults' \in Nat,
         UNCHANGED <<migration, opening, disturbed, raced, edits, lastEdit>>,
         \A q \in Folders \ {p} :
           /\ home'[q] = home[q] /\ pack'[q] = pack[q]
           /\ imported'[q] = imported[q] /\ document'[q] = document[q],
         document'[p].edit = 0,
         \/ /\ home'[p] = "temp"
            /\ \/ p \in leaked'
               \/ /\ importing'.step \notin {"idle", "received"}
                  /\ importing'.project = p
         \/ home'[p] = "absent" /\ pack'[p] = Nothing
         \/ /\ home'[p] = "published" /\ document'[p].schema # 0
            /\ pack'[p] = imported'[p].hash.list
            /\ pack'[p] = imported'[p].hash.bytes
            /\ pack'[p]["pack.mcmeta"] = imported'[p].format,
         HashInv', ImportInv'
  PROVE  ProjectsInv'
<1>1. home[p] = "temp"
  BY DEF ProjectsInv, ImportInv
<1>2. ProjectsTypeInv'
  BY DEF ProjectsInv, ProjectsTypeInv
<1>3. OpenInv'
  BY <1>1, OpensKept
<1>4. HomeInv'
  BY <1>1 DEF ProjectsInv, HomeInv, Staging, ImportAt
<1> QED BY <1>2, <1>3, <1>4 DEF ProjectsInv

\* A member is read from the handle: as long as this has the digest, the
\* member is the one that was hashed.
LEMMA UnpackMemberStep == ProjectsInv /\ UnpackMember => ProjectsInv'
<1> SUFFICES ASSUME ProjectsInv, UnpackMember PROVE ProjectsInv'
  OBVIOUS
<1> PICK i, p : i = importing /\ p = importing.project
  OBVIOUS
<1>1. PICK m \in i.todo :
        /\ i.opened.bytes[m] = i.list[m]
        /\ pack' = [pack EXCEPT ![p][m] = i.list[m]]
        /\ importing' = [i EXCEPT !.todo = @ \ {m}]
  BY DEF UnpackMember
<1>2. /\ i.step = "unpack" /\ i \in ImportCalls /\ p \in Folders
      /\ home[p] = "temp" /\ i.project = p
      /\ UNCHANGED <<home, imported, source, snapshot, leaked, document,
                     migration, opening, raced, disturbed, edits, lastEdit,
                     faults>>
  BY DEF UnpackMember, ImportAt, outsideImport, openVars, upsets, ProjectsInv,
         ProjectsTypeInv, ImportInv, Staging
<1>3. /\ m \in Members /\ i.list \in Contents /\ i.list[m] \in 0 .. MaxEdits + 1
      /\ i.opened \in Zips /\ i.hash \in Digests
  BY <1>1, <1>2 DEF ImportCalls, Contents
<1>4. LET j == importing' IN
      /\ j \in ImportCalls /\ j.step = "unpack" /\ j.project = p
      /\ j.seen = i.seen /\ j.hash = i.hash /\ j.opened = i.opened
      /\ j.list = i.list /\ j.todo = i.todo \ {m}
  BY <1>1, <1>2 DEF ImportCalls
<1>5. /\ pack' \in [Folders -> Contents] /\ pack'[p][m] = i.list[m]
      /\ \A n \in Members \ {m} : pack'[p][n] = pack[p][n]
      /\ \A q \in Folders \ {p} : pack'[q] = pack[q]
  <2>1. pack \in [Folders -> Contents] /\ pack[p] \in Contents
    BY <1>2 DEF ProjectsInv, ProjectsTypeInv
  <2>2. [pack[p] EXCEPT ![m] = i.list[m]] \in Contents
    BY <2>1, <1>3 DEF Contents
  <2>3. pack'[p] = [pack[p] EXCEPT ![m] = i.list[m]]
    BY <2>1, <1>1, <1>2
  <2>4. pack' = [pack EXCEPT ![p] = pack'[p]]
    BY <2>1, <1>1, <1>2
  <2> QED BY <2>1, <2>2, <2>3, <2>4, <1>3 DEF Contents
<1>6. HashInv'
  BY <1>2, <1>4, HashKept
<1>7. ImportInv'
  <2>1. Inspected(importing'.hash) = importing'.seen
    BY <1>2, <1>4 DEF ProjectsInv, ImportInv
  <2>2. ASSUME Digest(importing'.opened) = importing'.hash
        PROVE  /\ importing'.list = importing'.hash.list
               /\ \A n \in Members \ importing'.todo : Unpacked(p, n)'
    <3>1. /\ Digest(i.opened) = i.hash /\ i.list = i.hash.list
          /\ \A n \in Members \ i.todo : Unpacked(p, n)
      BY <2>2, <1>2, <1>4 DEF ProjectsInv, ImportInv
    <3>2. i.hash.bytes[m] = i.hash.list[m]
      BY <3>1, <1>1, <1>3, DigestFine
    <3>3. ASSUME NEW n \in Members, n \notin importing'.todo
          PROVE  Unpacked(p, n)'
      BY <3>1, <3>2, <3>3, <1>2, <1>4, <1>5 DEF Unpacked
    <3> QED BY <3>1, <3>3, <1>4
  <2>3. importing'.seen.format # 0
    BY <1>2, <1>4 DEF ProjectsInv, ImportInv, Staging, ImportAt
  <2>4. home'[p] = "temp" /\ importing'.project = p /\ importing'.step = "unpack"
    BY <1>2, <1>4
  <2> QED
    BY <2>1, <2>2, <2>3, <2>4, <1>2 DEF ImportInv, Staging, ImportAt
<1>8. document[p].edit = 0
  BY <1>2 DEF ProjectsInv, HomeInv
<1> QED
  BY <1>2, <1>4, <1>5, <1>6, <1>7, <1>8, StageStep
     DEF ProjectsInv, ProjectsTypeInv, Staging, ImportAt

\* project.json says what was hashed and seen.
LEMMA WriteManifestStep == ProjectsInv /\ WriteManifest => ProjectsInv'
<1> SUFFICES ASSUME ProjectsInv, WriteManifest PROVE ProjectsInv'
  OBVIOUS
<1> PICK i, p : i = importing /\ p = importing.project
  OBVIOUS
<1>1. /\ i.step = "unpack" /\ i.todo = {} /\ i \in ImportCalls /\ p \in Folders
      /\ home[p] = "temp"
      /\ imported' = [imported EXCEPT ![p] = [hash |-> i.hash,
                                              format |-> i.seen.format]]
      /\ document' = [document EXCEPT ![p] = Document(2)]
      /\ ImportGo("verify")
      /\ UNCHANGED <<home, pack, source, snapshot, leaked,
                     migration, opening, raced, disturbed, edits, lastEdit,
                     faults>>
  BY DEF WriteManifest, ImportAt, outsideImport, openVars, upsets, ProjectsInv,
         ProjectsTypeInv, ImportInv, Staging
<1>2. LET j == importing' IN
      /\ j \in ImportCalls /\ j.step = "verify" /\ j.project = p
      /\ j.seen = i.seen /\ j.hash = i.hash /\ j.opened = i.opened
      /\ j.list = i.list /\ j.todo = {}
  BY <1>1, ImportGoTo DEF ProjectsInv, ImportSteps
<1>3. i.hash \in Digests /\ i.seen.format \in Marks
  BY <1>1 DEF ImportCalls, Inspections
<1>4. /\ imported' \in [Folders -> [hash : Digests, format : Marks]]
      /\ imported'[p] = [hash |-> i.hash, format |-> i.seen.format]
      /\ \A q \in Folders \ {p} : imported'[q] = imported[q]
  BY <1>1, <1>3 DEF ProjectsInv, ProjectsTypeInv
<1>5. /\ document' \in [Folders -> Documents]
      /\ document'[p].schema = 2 /\ document'[p].edit = 0
      /\ \A q \in Folders \ {p} : document'[q] = document[q]
  BY <1>1, OpenIdleCall DEF ProjectsInv, ProjectsTypeInv
<1>6. HashInv'
  BY <1>1, <1>2, HashKept
<1>7. ImportInv'
  <2>1. Inspected(importing'.hash) = importing'.seen
    BY <1>1, <1>2 DEF ProjectsInv, ImportInv
  <2>2. ASSUME Digest(importing'.opened) = importing'.hash
        PROVE  /\ importing'.list = importing'.hash.list
               /\ \A n \in Members : Unpacked(p, n)'
    BY <2>2, <1>1, <1>2 DEF ProjectsInv, ImportInv, Unpacked
  <2>3. importing'.seen.format # 0
    BY <1>1, <1>2 DEF ProjectsInv, ImportInv, Staging, ImportAt
  <2>4. home'[p] = "temp" /\ importing'.project = p /\ importing'.step = "verify"
        /\ importing'.todo = {}
        /\ imported'[p] = [hash |-> importing'.hash,
                           format |-> importing'.seen.format]
    BY <1>1, <1>2, <1>4
  <2> QED
    BY <2>1, <2>2, <2>3, <2>4, <1>1, <1>5 DEF ImportInv, Staging, ImportAt
<1> QED
  BY <1>1, <1>2, <1>4, <1>5, <1>6, <1>7, StageStep
     DEF ProjectsInv, ProjectsTypeInv, Staging, ImportAt

LEMMA VerifySteps == ProjectsInv /\ (VerifyOpen \/ VerifyPath) => ProjectsInv'
<1> SUFFICES ASSUME ProjectsInv, VerifyOpen \/ VerifyPath PROVE ProjectsInv'
  OBVIOUS
<1> PICK i, p : i = importing /\ p = importing.project
  OBVIOUS
<1>1. /\ i.step \in {"verify", "path"} /\ i \in ImportCalls /\ p \in Folders
      /\ home[p] = "temp"
      /\ ImportGo(IF i.step = "verify" THEN "path" ELSE "rename")
      /\ i.step = "verify" => Digest(i.opened) = i.hash
      /\ UNCHANGED <<home, pack, imported, source, snapshot, leaked, document,
                     outsideImport, upsets>>
  BY DEF VerifyOpen, VerifyPath, StepHolds, Bound, ImportAt, ProjectsInv,
         ProjectsTypeInv, ImportInv, Staging
<1> PICK s : s = IF i.step = "verify" THEN "path" ELSE "rename"
  OBVIOUS
<1>2. LET j == importing' IN
      /\ s \in {"path", "rename"}
      /\ j.step = s /\ j.project = p /\ j.seen = i.seen /\ j.hash = i.hash
  BY <1>1, ImportGoTo DEF ProjectsInv, ImportSteps
<1>3. /\ Inspected(i.hash) = i.seen /\ i.seen.format # 0
      /\ imported[p] = [hash |-> i.hash, format |-> i.seen.format]
      /\ document[p].schema = 2
  BY <1>1 DEF ProjectsInv, ImportInv, Staging, ImportAt
<1>4. \A m \in Members : Unpacked(p, m)
  BY <1>1 DEF ProjectsInv, ImportInv
<1>5. ImportInv'
  <2>1. Inspected(importing'.hash) = importing'.seen
    BY <1>2, <1>3
  <2>2. \A m \in Members : Unpacked(p, m)'
    BY <1>1, <1>2, <1>4 DEF Unpacked
  <2>3. imported'[p] = [hash |-> importing'.hash, format |-> importing'.seen.format]
    BY <1>1, <1>2, <1>3
  <2>4. /\ home'[p] = "temp" /\ importing'.project = p
        /\ importing'.seen.format # 0 /\ document'[p].schema = 2
        /\ importing'.step \in {"path", "rename"}
    BY <1>1, <1>2, <1>3
  <2> QED BY <2>1, <2>2, <2>3, <2>4, <1>1 DEF ImportInv, Staging, ImportAt
<1> QED
  BY <1>1, <1>2, <1>5, PassStep DEF Staging, ImportAt

LEMMA PublishProjectStep == ProjectsInv /\ PublishProject => ProjectsInv'
<1> SUFFICES ASSUME ProjectsInv, PublishProject PROVE ProjectsInv'
  OBVIOUS
<1> PICK p : p = importing.project
  OBVIOUS
<1>1. /\ importing.step = "rename" /\ p \in Folders /\ home[p] = "temp"
      /\ home' = [home EXCEPT ![p] = "published"] /\ ImportReturns
      /\ UNCHANGED <<pack, imported, leaked, document, migration, opening, raced,
                     disturbed, edits, lastEdit, faults>>
  BY DEF PublishProject, ImportAt, outsideImport, openVars, upsets, ProjectsInv,
         ImportInv, Staging
<1>2. /\ imported[p].hash = importing.hash
      /\ imported[p].format = importing.seen.format
      /\ document[p].schema = 2 /\ importing.seen.format # 0
      /\ \A m \in Members : Unpacked(p, m)
      /\ Inspected(importing.hash) = importing.seen
  BY <1>1 DEF ProjectsInv, ImportInv, Staging, ImportAt
<1>3. /\ pack[p] = importing.hash.list /\ pack[p] = importing.hash.bytes
      /\ pack[p]["pack.mcmeta"] = importing.seen.format
  BY <1>1, <1>2, AllUnpacked
<1>4. document[p].edit = 0
  BY <1>1 DEF ProjectsInv, HomeInv
<1>5. /\ home' \in [Folders -> {"absent", "temp", "published"}]
      /\ home'[p] = "published" /\ \A q \in Folders \ {p} : home'[q] = home[q]
  BY <1>1 DEF ProjectsInv, ProjectsTypeInv
<1>6. /\ pack'[p] = imported'[p].hash.list
      /\ pack'[p] = imported'[p].hash.bytes
      /\ pack'[p]["pack.mcmeta"] = imported'[p].format
      /\ document'[p].schema # 0 /\ document'[p].edit = 0
  BY <1>1, <1>2, <1>3, <1>4
<1>7. Staging
  BY <1>1 DEF Staging, ImportAt
<1>8. /\ pack' \in [Folders -> Contents]
      /\ imported' \in [Folders -> [hash : Digests, format : Marks]]
      /\ document' \in [Folders -> Documents]
      /\ leaked' \subseteq Folders /\ leaked \subseteq leaked'
      /\ faults' \in Nat
      /\ UNCHANGED <<migration, opening, disturbed, raced, edits, lastEdit>>
  BY <1>1 DEF ProjectsInv, ProjectsTypeInv
<1>9. /\ importing' \in ImportCalls /\ importing'.step = "idle"
      /\ source' \in Zips /\ snapshot' \in Zips
      /\ HashInv' /\ ImportInv'
  BY <1>1, ImportReturnsFine
<1>10. \A q \in Folders \ {p} :
        /\ home'[q] = home[q] /\ pack'[q] = pack[q]
        /\ imported'[q] = imported[q] /\ document'[q] = document[q]
  BY <1>1, <1>5
<1> QED
  BY <1>1, <1>5, <1>6, <1>7, <1>8, <1>9, <1>10, StageStep

LEMMA AbandonImportStep == ProjectsInv /\ AbandonImport => ProjectsInv'
<1> SUFFICES ASSUME ProjectsInv, AbandonImport PROVE ProjectsInv'
  OBVIOUS
<1> PICK p : p = importing.project
  OBVIOUS
<1>1. /\ Staging /\ p \in Folders /\ home[p] = "temp" /\ ImportReturns
      /\ document[p].edit = 0
      /\ UNCHANGED <<imported, migration, opening, raced, disturbed, edits,
                     lastEdit>>
  BY DEF AbandonImport, outsideImport, openVars, ProjectsInv, ImportInv, HomeInv
<1>2. faults' \in Nat
  BY DEF AbandonImport, Fault, upsets, ProjectsInv, ProjectsTypeInv
<1>3. CASE RemoveStage
  <2>1. /\ home' = [home EXCEPT ![p] = "absent"]
        /\ pack' = [pack EXCEPT ![p] = Nothing]
        /\ document' = [document EXCEPT ![p] = Document(0)]
        /\ UNCHANGED leaked
    BY <1>3 DEF RemoveStage
  <2>2. /\ home' \in [Folders -> {"absent", "temp", "published"}]
        /\ pack' \in [Folders -> Contents] /\ document' \in [Folders -> Documents]
        /\ home'[p] = "absent" /\ pack'[p] = Nothing /\ document'[p].edit = 0
        /\ \A q \in Folders \ {p} :
             /\ home'[q] = home[q] /\ pack'[q] = pack[q]
             /\ document'[q] = document[q]
    BY <2>1, <1>1, NothingFine, OpenIdleCall DEF ProjectsInv, ProjectsTypeInv
  <2> QED
    BY <2>1, <2>2, <1>1, <1>2, ImportReturnsFine, StageStep
       DEF ProjectsInv, ProjectsTypeInv
<1>4. CASE leaked' = leaked \cup {p} /\ UNCHANGED <<home, pack, document>>
  BY <1>4, <1>1, <1>2, ImportReturnsFine, StageStep
     DEF ProjectsInv, ProjectsTypeInv
<1> QED BY <1>3, <1>4 DEF AbandonImport

\* The threads that open projects: the import is not theirs.
LEMMA OpenQuiet ==
  ASSUME ProjectsInv, NEW t \in Threads, NEW c \in OpenCalls, OpenGo(t, c),
         UNCHANGED <<home, pack, imported, source, snapshot, importing, leaked,
                     edits, lastEdit, raced, disturbed, document>>,
         migration' \in Threads \cup {NoThread},
         \A u \in Threads \ {t} : migration = u => migration' = u,
         faults' \in Nat, OpenFine(t, c)'
  PROVE  ProjectsInv'
<1>1. /\ opening' \in [Threads -> OpenCalls] /\ opening'[t] = c
      /\ \A u \in Threads \ {t} : opening'[u] = opening[u]
  BY DEF ProjectsInv, ProjectsTypeInv, OpenGo
<1>2. ProjectsTypeInv'
  BY <1>1 DEF ProjectsInv, ProjectsTypeInv
<1>3. HomeInv' /\ HashInv'
  BY DEF ProjectsInv, HomeInv, HashInv, Staging, ImportAt
<1>4. ImportInv'
  BY DEF ProjectsInv, ImportInv, Staging, ImportAt, Unpacked
<1>5. OpenInv'
  <2>1. ASSUME NEW u \in Threads \ {t}
        PROVE  OpenFine(u, opening[u])'
    BY <1>1 DEF ProjectsInv, OpenInv, OpenFine
  <2> QED BY <2>1, <1>1 DEF ProjectsInv, OpenInv
<1> QED BY <1>2, <1>3, <1>4, <1>5 DEF ProjectsInv

LEMMA OpenStepTo ==
  ASSUME ProjectsInv, NEW t \in Threads,
         NEW s \in {"idle", "lock", "read", "reread", "check", "replace"}
  PROVE  LET c == opening[t] d == OpenStep(t, s) IN
         /\ c \in OpenCalls /\ d \in OpenCalls /\ d.step = s /\ d.of = c.of
         /\ d.seen = c.seen /\ d.since = c.since
BY DEF ProjectsInv, ProjectsTypeInv, OpenStep, OpenCalls

\* The end of an open of t, which may hold the lock.
LEMMA OpenReturnsStep ==
  ASSUME ProjectsInv, NEW t \in Threads, OpenReturns(t),
         UNCHANGED <<home, pack, imported, source, snapshot, importing, leaked,
                     edits, lastEdit, raced, disturbed, document>>,
         faults' \in Nat
  PROVE  ProjectsInv'
<1>1. /\ migration' \in Threads \cup {NoThread} /\ OpenGo(t, OpenIdle)
      /\ \A u \in Threads \ {t} : migration = u => migration' = u
  BY DEF OpenReturns, ProjectsInv, ProjectsTypeInv
<1>2. OpenFine(t, OpenIdle)'
  BY OpenIdleCall DEF OpenFine
<1> QED BY <1>1, <1>2, OpenIdleCall, OpenQuiet

LEMMA CallOpenStep ==
  ASSUME ProjectsInv, NEW t \in Threads, CallOpen(t)
  PROVE  ProjectsInv'
<1>1. PICK p \in Folders :
        /\ home[p] = "published"
        /\ OpenGo(t, [OpenIdle EXCEPT !.step = "lock", !.of = p, !.since = edits])
  BY DEF CallOpen
<1> PICK i, d : /\ i = OpenIdle
                /\ d = [i EXCEPT !.step = "lock", !.of = p, !.since = edits]
  OBVIOUS
<1>2. /\ d \in OpenCalls /\ d.step = "lock" /\ d.of = p /\ d.since = edits
  BY OpenIdleCall DEF OpenCalls, ProjectsInv, ProjectsTypeInv
<1>3. UNCHANGED <<home, pack, imported, source, snapshot, importing, leaked,
                  edits, lastEdit, migration, raced, disturbed, document,
                  faults>>
  BY DEF CallOpen, outsideOpen, importVars, upsets
<1>4. OpenFine(t, d)'
  <2>1. edits <= edits
    BY Bounds DEF ProjectsInv
  <2> QED BY <2>1, <1>1, <1>2, <1>3 DEF OpenFine
<1> QED
  BY <1>1, <1>2, <1>3, <1>4, OpenQuiet DEF ProjectsInv, ProjectsTypeInv

LEMMA TakeMigrationStep ==
  ASSUME ProjectsInv, NEW t \in Threads, TakeMigration(t)
  PROVE  ProjectsInv'
<1> PICK c, d : c = opening[t] /\ d = OpenStep(t, "read")
  OBVIOUS
<1>1. /\ c.step = "lock" /\ migration = NoThread /\ migration' = t
      /\ OpenGo(t, d) /\ OpenFine(t, c)
      /\ UNCHANGED <<home, pack, imported, source, snapshot, importing, leaked,
                     edits, lastEdit, raced, disturbed, document,
                     faults>>
  BY DEF TakeMigration, OpenAt, outsideOpen, importVars, upsets, ProjectsInv,
         OpenInv
<1>2. /\ d \in OpenCalls /\ d.step = "read" /\ d.of = c.of /\ d.since = c.since
  BY OpenStepTo
<1>3. OpenFine(t, d)'
  BY <1>1, <1>2 DEF OpenFine
<1> QED
  BY <1>1, <1>2, <1>3, OpenQuiet, StorageFaultsAssumption
     DEF ProjectsInv, ProjectsTypeInv

LEMMA ReadManifestStep ==
  ASSUME ProjectsInv, NEW t \in Threads, ReadManifest(t)
  PROVE  ProjectsInv'
<1> PICK c, e : c = opening[t] /\ e = OpenStep(t, "reread")
  OBVIOUS
<1> PICK d : d = [e EXCEPT !.seen = document[c.of]]
  OBVIOUS
<1>1. /\ c.step = "read" /\ OpenGo(t, d) /\ OpenFine(t, c)
      /\ UNCHANGED <<home, pack, imported, source, snapshot, importing, leaked,
                     edits, lastEdit, migration, raced, disturbed, document,
                     faults>>
  BY DEF ReadManifest, OpenAt, outsideOpen, importVars, upsets, ProjectsInv,
         OpenInv
<1>2. e \in OpenCalls /\ e.step = "reread" /\ e.of = c.of /\ e.since = c.since
  BY OpenStepTo
<1>3. document[c.of] \in Documents
  BY <1>1 DEF OpenFine, ProjectsInv, ProjectsTypeInv
<1>4. /\ d \in OpenCalls /\ d.step = "reread" /\ d.of = c.of
      /\ d.since = c.since /\ d.seen = document[c.of]
  BY <1>2, <1>3 DEF OpenCalls
<1>5. OpenFine(t, d)'
  BY <1>1, <1>4 DEF OpenFine
<1> QED
  BY <1>1, <1>4, <1>5, OpenQuiet DEF ProjectsInv, ProjectsTypeInv

\* A look at the file that finds another one is excused by a write of another
\* program; one that finds the same goes on to s.
LEMMA LookStep ==
  ASSUME ProjectsInv, NEW t \in Threads, NEW s \in {"check", "replace"},
         opening[t].step = IF s = "check" THEN "reread" ELSE "check",
         document[opening[t].of] = opening[t].seen,
         OpenGo(t, OpenStep(t, s)),
         UNCHANGED <<home, pack, imported, source, snapshot, importing, leaked,
                     edits, lastEdit, migration, raced, disturbed, document,
                     faults>>
  PROVE  ProjectsInv'
<1> PICK c, d : c = opening[t] /\ d = OpenStep(t, s)
  OBVIOUS
<1>1. /\ OpenGo(t, d) /\ OpenFine(t, c) /\ document[c.of] = c.seen
      /\ c.step \in {"reread", "check"}
  BY DEF ProjectsInv, OpenInv
<1>2. /\ d \in OpenCalls /\ d.step = s /\ d.of = c.of
      /\ d.since = c.since /\ d.seen = c.seen
  BY OpenStepTo
<1>3. OpenFine(t, d)'
  BY <1>1, <1>2 DEF OpenFine
<1> QED
  BY <1>1, <1>2, <1>3, OpenQuiet DEF ProjectsInv, ProjectsTypeInv

LEMMA ExcusedError ==
  ASSUME ProjectsInv, NEW t \in Threads,
         opening[t].step \in {"reread", "check"},
         document[opening[t].of] # opening[t].seen,
         OpenError(t, edits # opening[t].since)
  PROVE  OpenReturns(t) /\ disturbed' = disturbed
<1>1. edits # opening[t].since
  BY DEF ProjectsInv, OpenInv, OpenFine
<1> QED BY <1>1 DEF OpenError, ProjectsInv, ProjectsTypeInv

LEMMA LookSteps ==
  ASSUME ProjectsInv, NEW t \in Threads, ReadAgain(t) \/ CheckManifest(t)
  PROVE  ProjectsInv'
<1> PICK c : c = opening[t]
  OBVIOUS
<1>1. /\ c.step \in {"reread", "check"}
      /\ UNCHANGED <<home, pack, imported, source, snapshot, importing, leaked,
                     edits, lastEdit, raced, document, faults>>
  BY DEF ReadAgain, CheckManifest, OpenAt, outsideOpen, importVars, upsets
<1>2. faults' \in Nat
  BY <1>1 DEF ProjectsInv, ProjectsTypeInv
<1>3. CASE document[c.of] # c.seen
  <2>1. OpenError(t, edits # c.since)
    BY <1>3 DEF ReadAgain, CheckManifest
  <2>2. OpenReturns(t) /\ UNCHANGED disturbed
    BY <2>1, <1>1, <1>3, ExcusedError
  <2> QED BY <2>2, <1>1, <1>2, OpenReturnsStep
<1>4. CASE document[c.of] = c.seen /\ ReadAgain(t)
  <2>1. c.step = "reread" /\ UNCHANGED disturbed
        /\ (OpenReturns(t) \/ (OpenGo(t, OpenStep(t, "check")) /\ UNCHANGED migration))
    BY <1>4 DEF ReadAgain, OpenAt
  <2>2. CASE OpenReturns(t)
    BY <2>1, <2>2, <1>1, <1>2, OpenReturnsStep
  <2>3. CASE OpenGo(t, OpenStep(t, "check")) /\ UNCHANGED migration
    BY <2>1, <2>3, <1>1, <1>4, LookStep
  <2> QED BY <2>1, <2>2, <2>3
<1>5. CASE document[c.of] = c.seen /\ CheckManifest(t)
  <2>1. c.step = "check" /\ OpenGo(t, OpenStep(t, "replace"))
        /\ UNCHANGED <<migration, disturbed>>
    BY <1>5 DEF CheckManifest, OpenAt
  <2> QED BY <2>1, <1>1, <1>5, LookStep
<1> QED BY <1>3, <1>4, <1>5

\* The migrated manifest is the one that was read, or its project is raced.
LEMMA ReplaceManifestStep ==
  ASSUME ProjectsInv, NEW t \in Threads, ReplaceManifest(t)
  PROVE  ProjectsInv'
<1> PICK c, p : c = opening[t] /\ p = opening[t].of
  OBVIOUS
<1>1. /\ c.step = "replace" /\ c.of = p /\ c \in OpenCalls /\ OpenFine(t, c)
      /\ document' = [document EXCEPT ![p] = [c.seen EXCEPT !.schema = 2]]
      /\ OpenReturns(t)
      /\ UNCHANGED <<home, pack, imported, source, snapshot, importing, leaked,
                     edits, lastEdit, raced, disturbed, faults>>
  BY DEF ReplaceManifest, OpenAt, outsideOpen, importVars, upsets, ProjectsInv,
         OpenInv, ProjectsTypeInv
<1>2. /\ p \in Folders /\ home[p] = "published" /\ migration = t
      /\ p \in raced \/ document[p] = c.seen
  BY <1>1 DEF OpenFine
<1> PICK n : n = [c.seen EXCEPT !.schema = 2]
  OBVIOUS
<1>3. n \in Documents /\ n.schema = 2 /\ n.edit = c.seen.edit
  BY <1>1 DEF OpenCalls, Documents
<1>4. /\ document' \in [Folders -> Documents] /\ document'[p] = n
      /\ \A q \in Folders \ {p} : document'[q] = document[q]
  BY <1>1, <1>2, <1>3 DEF ProjectsInv, ProjectsTypeInv
<1>5. /\ opening' \in [Threads -> OpenCalls] /\ opening'[t] = OpenIdle
      /\ \A u \in Threads \ {t} : opening'[u] = opening[u]
      /\ migration' = NoThread
  BY <1>1, <1>2, OpenIdleCall DEF OpenReturns, OpenGo, ProjectsInv, ProjectsTypeInv
<1>6. ProjectsTypeInv'
  BY <1>1, <1>4, <1>5 DEF ProjectsInv, ProjectsTypeInv
<1>7. HomeInv'
  BY <1>1, <1>2, <1>3, <1>4 DEF ProjectsInv, HomeInv, Staging, ImportAt
<1>8. HashInv'
  BY <1>1 DEF ProjectsInv, HashInv, Staging, ImportAt
<1>9. ImportInv'
  <2>1. Staging => importing.project # p /\ importing.project \in Folders
    BY <1>2 DEF ProjectsInv, ImportInv
  <2> QED
    BY <2>1, <1>1, <1>4 DEF ProjectsInv, ImportInv, Staging, ImportAt, Unpacked
<1>10. OpenInv'
  <2>1. ASSUME NEW u \in Threads \ {t}
        PROVE  OpenFine(u, opening[u])'
    <3>1. OpenFine(u, opening[u]) /\ opening'[u] = opening[u]
      BY <1>5 DEF ProjectsInv, OpenInv
    <3>2. opening[u].step \notin {"read", "reread", "check", "replace"}
      BY <3>1, <1>2 DEF OpenFine
    <3> QED BY <3>1, <3>2, <1>1 DEF OpenFine
  <2>2. OpenFine(t, opening[t])'
    BY <1>5, OpenIdleCall DEF OpenFine
  <2> QED BY <2>1, <2>2, <1>1 DEF ProjectsInv, OpenInv
<1> QED BY <1>6, <1>7, <1>8, <1>9, <1>10 DEF ProjectsInv

LEMMA OpenFailsStep ==
  ASSUME ProjectsInv, NEW t \in Threads, OpenFails(t)
  PROVE  ProjectsInv'
<1>1. /\ OpenReturns(t)
      /\ UNCHANGED <<home, pack, imported, source, snapshot, importing, leaked,
                     edits, lastEdit, raced, disturbed, document>>
      /\ faults' \in Nat
  BY DEF OpenFails, OpenError, Fault, outsideOpen, importVars, ProjectsInv,
         ProjectsTypeInv
<1> QED BY <1>1, OpenReturnsStep

\* A write of another program: the content is one that no hash has seen.
LEMMA WrittenFine ==
  ASSUME ProjectsTypeInv, edits < MaxEdits, NEW zip \in Zips, NEW m \in Members
  PROVE  LET new == Written(zip, m) IN
         /\ new \in Zips /\ new.id = zip.id
         /\ new.bytes[m] = edits + 2 /\ new.list[m] = edits + 2
         /\ \A n \in Members \ {m} :
              new.bytes[n] = zip.bytes[n] /\ new.list[n] = zip.list[n]
<1> PICK v : v = edits + 2
  OBVIOUS
<1>1. v \in 0 .. MaxEdits + 1
  BY Bounds DEF Marks
<1> PICK bytes, list : /\ bytes = [zip.bytes EXCEPT ![m] = v]
                       /\ list = [zip.list EXCEPT ![m] = v]
  OBVIOUS
<1>2. /\ bytes \in Contents /\ list \in Contents /\ bytes[m] = v /\ list[m] = v
      /\ \A n \in Members \ {m} :
           bytes[n] = zip.bytes[n] /\ list[n] = zip.list[n]
  BY <1>1 DEF Zips, Contents
<1>3. Written(zip, m) = [zip EXCEPT !.bytes = bytes, !.list = list]
  BY DEF Written, Zips
<1> QED BY <1>2, <1>3 DEF Zips

LEMMA EditSourceStep == ProjectsInv /\ EditSource => ProjectsInv'
<1> SUFFICES ASSUME ProjectsInv, EditSource PROVE ProjectsInv'
  OBVIOUS
<1>1. PICK m \in Members : source' = Written(source, m)
  BY DEF EditSource
<1>2. /\ importing.step \in {"received", "copy"}
      /\ edits < MaxEdits /\ edits' = edits + 1
      /\ UNCHANGED <<home, pack, imported, snapshot, importing, leaked,
                     migration, opening, raced, disturbed, document, lastEdit,
                     faults>>
  BY DEF EditSource, ImportAt, Edit, openVars, upsets
<1>3. /\ source' \in Zips /\ source'.bytes[m] = edits + 2
      /\ source'.list[m] = edits + 2
      /\ \A n \in Members \ {m} :
           source'.bytes[n] = source.bytes[n] /\ source'.list[n] = source.list[n]
  BY <1>1, <1>2, WrittenFine DEF ProjectsInv, ProjectsTypeInv
<1>4. edits \in Nat /\ edits' \in 0 .. MaxEdits /\ edits + 2 # 0
      /\ edits + 2 <= edits' + 1
  BY <1>2, Bounds DEF ProjectsInv
<1>5. HashInv'
  <2>1. ASSUME NEW n \in Members
        PROVE  /\ source.bytes[n] \in Nat /\ source.list[n] \in Nat
               /\ importing.hash.bytes[n] \in Nat
               /\ importing.hash.list[n] \in Nat
    BY ProjectFoldersAssumption
       DEF ProjectsInv, ProjectsTypeInv, Zips, ImportCalls, Digests, Contents
  <2>2. ASSUME NEW n \in Members
        PROVE  /\ source'.bytes[n] <= edits' + 1 /\ source'.list[n] <= edits' + 1
               /\ source'.list[n] = 0 => source'.bytes[n] = 0 /\ source.list[n] = 0
               /\ importing.hash.bytes[n] <= edits' + 1
               /\ importing.hash.list[n] <= edits' + 1
    BY <2>1, <1>2, <1>3, <1>4 DEF ProjectsInv, HashInv
  <2> QED BY <2>2, <1>2 DEF ProjectsInv, HashInv, Staging, ImportAt
<1>6. ImportInv'
  BY <1>2 DEF ProjectsInv, ImportInv, Staging, ImportAt, Unpacked
<1> QED
  BY <1>2, <1>3, <1>4, <1>5, <1>6, ImportQuiet
     DEF ProjectsInv, ProjectsTypeInv, Staging, ImportAt

\* What was written has not the digest of the import.
LEMMA NewContent ==
  ASSUME ProjectsInv, NEW zip, NEW m \in Members, zip.bytes[m] = edits + 2
  PROVE  Digest(zip) # importing.hash
<1>1. importing.hash.bytes[m] \in Nat /\ importing.hash.bytes[m] <= edits + 1
  BY ProjectFoldersAssumption
     DEF ProjectsInv, ProjectsTypeInv, ImportCalls, Digests, Contents, HashInv
<1>2. edits \in Nat
  BY Bounds DEF ProjectsInv
<1>3. importing.hash.bytes[m] # zip.bytes[m]
  BY <1>1, <1>2
<1> QED BY <1>3 DEF Digest

\* The snapshot is written to, in place or by another file: an import that
\* looks at it later sees that, and so does one that has it open.
LEMMA EditSnapshotStep == ProjectsInv /\ EditSnapshot => ProjectsInv'
<1> SUFFICES ASSUME ProjectsInv, EditSnapshot PROVE ProjectsInv'
  OBVIOUS
<1> PICK i : i = importing
  OBVIOUS
<1>1. PICK m \in Members :
        \/ /\ snapshot' = Written(snapshot, m)
           /\ \/ /\ i.step \in {"list", "unpack", "verify"}
                 /\ importing' = [i EXCEPT !.opened = Written(snapshot, m)]
              \/ importing' = i
        \/ /\ snapshot' = [Written(snapshot, m) EXCEPT !.id = edits + 1]
           /\ importing' = i
  BY DEF EditSnapshot
<1>2. /\ i.step \notin {"idle", "received", "copy"} /\ i \in ImportCalls
      /\ edits < MaxEdits /\ edits' = edits + 1
      /\ UNCHANGED <<home, pack, imported, source, leaked, migration, opening,
                     raced, disturbed, document, lastEdit, faults>>
  BY DEF EditSnapshot, Staging, ImportAt, Edit, openVars, upsets, ProjectsInv,
         ProjectsTypeInv
<1> PICK w : w = Written(snapshot, m)
  OBVIOUS
<1>3. w \in Zips /\ w.bytes[m] = edits + 2
  BY <1>2, WrittenFine DEF ProjectsInv, ProjectsTypeInv
<1>4. edits' \in 0 .. MaxEdits
  BY <1>2, Bounds DEF ProjectsInv
<1>5. snapshot' \in Zips /\ snapshot'.bytes[m] = edits + 2
  BY <1>1, <1>2, <1>3, <1>4 DEF Zips
<1>6. LET j == importing' IN
      /\ j \in ImportCalls /\ j.step = i.step /\ j.project = i.project
      /\ j.seen = i.seen /\ j.hash = i.hash /\ j.list = i.list
      /\ j.todo = i.todo
      /\ j.opened = i.opened \/ j.opened = w
  BY <1>1, <1>2, <1>3 DEF ImportCalls
<1>7. Digest(snapshot)' # i.hash /\ Digest(w) # i.hash
  BY <1>3, <1>5, NewContent DEF Digest
<1>8. HashInv'
  BY <1>2, <1>6, HashKept
<1>9. ImportInv'
  <2> PICK j, p : j = importing' /\ p = i.project
    OBVIOUS
  <2>1. j.project = p /\ j.hash = i.hash /\ j.list = i.list /\ j.seen = i.seen
        /\ j.todo = i.todo /\ j.step = i.step
    BY <1>6
  <2>2. \A n \in Members : Unpacked(p, n)' <=> Unpacked(p, n)
    BY <2>1, <1>2 DEF Unpacked
  <2>3. j.step = "open" => Digest(snapshot)' # j.hash
    BY <1>7, <2>1
  <2>4. Digest(j.opened) = j.hash => j.opened = i.opened
    BY <1>6, <1>7, <2>1
  <2>5. Staging' /\ Staging
    BY <1>2, <2>1 DEF Staging, ImportAt
  <2>6. p \in Folders /\ home[p] = "temp" /\ i.seen.format # 0
    BY <2>5 DEF ProjectsInv, ImportInv
  <2>7. i.step \in {"copied", "open", "list"} => pack[p] = Nothing
    BY DEF ProjectsInv, ImportInv
  <2>8. i.step \in {"list", "unpack", "verify", "path", "rename"} =>
          Inspected(i.hash) = i.seen
    BY DEF ProjectsInv, ImportInv
  <2>9. i.step \in {"unpack", "verify"} /\ Digest(i.opened) = i.hash =>
          i.list = i.hash.list /\ \A n \in Members \ i.todo : Unpacked(p, n)
    BY DEF ProjectsInv, ImportInv
  <2>10. /\ i.step = "verify" => i.todo = {}
         /\ i.step \in {"path", "rename"} => \A n \in Members : Unpacked(p, n)
         /\ i.step \in {"verify", "path", "rename"} =>
              /\ imported[p] = [hash |-> i.hash, format |-> i.seen.format]
              /\ document[p].schema = 2
    BY DEF ProjectsInv, ImportInv
  <2>11. Inspected(importing.hash)' = Inspected(i.hash)
    BY <2>1 DEF Inspected, Intact
  <2>12. Digest(importing.opened)' = Digest(j.opened)
    BY DEF Digest
  <2> QED
    BY <2>1, <2>2, <2>3, <2>4, <2>5, <2>6, <2>7, <2>8, <2>9, <2>10, <2>11,
       <2>12, <1>2 DEF ImportInv
<1> QED
  BY <1>2, <1>4, <1>5, <1>6, <1>8, <1>9, ImportQuiet
     DEF ProjectsInv, ProjectsTypeInv

\* project.json is replaced from outside: an open at its rename is raced,
\* and any other sees at its next look that edits have passed.
LEMMA EditDocumentStep == ProjectsInv /\ EditDocument => ProjectsInv'
<1> SUFFICES ASSUME ProjectsInv, EditDocument PROVE ProjectsInv'
  OBVIOUS
<1> PICK v : v = edits + 1
  OBVIOUS
<1>1. PICK p \in Folders :
        /\ home[p] = "published"
        /\ document' = [document EXCEPT ![p] = [schema |-> 2, edit |-> v]]
        /\ lastEdit' = [lastEdit EXCEPT ![p] = v]
        /\ raced' = IF \E t \in Threads : OpenAt(t, "replace") /\ opening[t].of = p
                    THEN raced \cup {p} ELSE raced
  BY DEF EditDocument
<1>2. /\ edits < MaxEdits /\ edits' = v
      /\ UNCHANGED <<home, pack, imported, source, snapshot, importing, leaked,
                     migration, opening, disturbed, faults>>
  BY DEF EditDocument, Edit, importVars, upsets
<1>3. v \in 0 .. MaxEdits /\ edits \in Nat
  BY <1>2, Bounds DEF ProjectsInv
<1>4. /\ document' \in [Folders -> Documents]
      /\ document'[p] = [schema |-> 2, edit |-> v]
      /\ \A q \in Folders \ {p} : document'[q] = document[q]
      /\ lastEdit' \in [Folders -> 0 .. MaxEdits] /\ lastEdit'[p] = v
      /\ \A q \in Folders \ {p} : lastEdit'[q] = lastEdit[q]
  BY <1>1, <1>3 DEF ProjectsInv, ProjectsTypeInv, Documents
<1>5. raced \subseteq raced' /\ raced' \subseteq raced \cup {p}
  BY <1>1
<1>6. ProjectsTypeInv'
  BY <1>1, <1>2, <1>3, <1>4, <1>5 DEF ProjectsInv, ProjectsTypeInv
<1>7. HomeInv'
  <2>1. ASSUME NEW q \in Folders, q = p
        PROVE  /\ document'[q].schema # 0 /\ document'[q].edit = lastEdit'[q]
               /\ home'[q] = "published"
    BY <2>1, <1>1, <1>2, <1>4
  <2>2. ASSUME NEW q \in Folders \ {p}
        PROVE  document'[q] = document[q] /\ lastEdit'[q] = lastEdit[q]
               /\ (q \notin raced' => q \notin raced)
    BY <1>4, <1>5
  <2> QED BY <2>1, <2>2, <1>2 DEF ProjectsInv, HomeInv, Staging, ImportAt
<1>8. HashInv'
  BY <1>2, <1>3, HashKept
<1>9. ImportInv'
  <2>1. Staging => importing.project # p /\ importing.project \in Folders
    BY <1>1 DEF ProjectsInv, ImportInv
  <2> QED
    BY <2>1, <1>2, <1>4 DEF ProjectsInv, ImportInv, Staging, ImportAt, Unpacked
<1>10. OpenInv'
  <2>1. ASSUME NEW t \in Threads
        PROVE  OpenFine(t, opening[t])'
    <3> PICK c : c = opening[t]
      OBVIOUS
    <3>1. OpenFine(t, c) /\ c \in OpenCalls
      BY DEF ProjectsInv, ProjectsTypeInv, OpenInv
    <3>2. /\ c.since \in Nat
          /\ c.since <= edits => c.since <= edits' /\ c.since # edits'
      BY <3>1, <1>2, <1>3 DEF OpenCalls
    <3>3. c.step = "replace" => c.of \in raced' \/ document'[c.of] = c.seen
      <4>1. CASE c.of = p
        BY <4>1, <1>1 DEF OpenAt
      <4>2. CASE c.of # p
        BY <4>2, <3>1, <1>4, <1>5 DEF OpenFine
      <4> QED BY <4>1, <4>2
    <3>4. OpenFine(t, c)'
      BY <3>1, <3>2, <3>3, <1>2 DEF OpenFine
    <3> QED BY <3>4, <1>2
  <2> QED BY <2>1, <1>2 DEF ProjectsInv, OpenInv
<1> QED BY <1>6, <1>7, <1>8, <1>9, <1>10 DEF ProjectsInv

\* The temporary of the import that was at work stays where it is.
LEMMA ProjectsRestartStep == ProjectsInv /\ ProjectsRestart => ProjectsInv'
<1> SUFFICES ASSUME ProjectsInv, ProjectsRestart PROVE ProjectsInv'
  OBVIOUS
<1> PICK p : p = importing.project
  OBVIOUS
<1>1. /\ ImportReturns /\ migration' = NoThread
      /\ leaked' = IF Staging THEN leaked \cup {p} ELSE leaked
      /\ opening' = [t \in Threads |-> OpenIdle]
      /\ faults' = faults + 1
      /\ UNCHANGED <<home, pack, imported, raced, disturbed, document, edits,
                     lastEdit>>
  BY DEF ProjectsRestart, Crash, Fault
<1>2. /\ importing' \in ImportCalls /\ importing'.step = "idle"
      /\ source' \in Zips /\ snapshot' \in Zips /\ HashInv' /\ ImportInv'
  BY <1>1, ImportReturnsFine
<1>3. Staging => p \in Folders
  BY DEF ProjectsInv, ImportInv
<1>4. opening' \in [Threads -> OpenCalls]
  BY <1>1, OpenIdleCall
<1>5. ProjectsTypeInv'
  BY <1>1, <1>2, <1>3, <1>4 DEF ProjectsInv, ProjectsTypeInv
<1>6. HomeInv'
  BY <1>1, <1>3 DEF ProjectsInv, HomeInv
<1>7. OpenInv'
  BY <1>1, OpenIdleCall DEF ProjectsInv, OpenInv, OpenFine
<1> QED BY <1>2, <1>5, <1>6, <1>7 DEF ProjectsInv

LEMMA ImportStepStep == ProjectsInv /\ ImportStep => ProjectsInv'
BY RefuseStep, MakeStageStep, CopyPieceStep, CopyEndStep, CheckSnapshotStep,
   OpenSnapshotStep, ListMembersStep, UnpackMemberStep, WriteManifestStep,
   VerifySteps, PublishProjectStep, AbandonImportStep DEF ImportStep

LEMMA OpenProjectStep ==
  ASSUME ProjectsInv, NEW t \in Threads, OpenProject(t)
  PROVE  ProjectsInv'
BY CallOpenStep, TakeMigrationStep, ReadManifestStep, LookSteps,
   ReplaceManifestStep, OpenFailsStep DEF OpenProject

\* Steps that leave the projects alone, whatever they count.
LEMMA ProjectsKept ==
  ASSUME ProjectsInv, UNCHANGED projectStore, faults' \in Nat
  PROVE  ProjectsInv'
<1>1. UNCHANGED <<home, pack, imported, source, snapshot, importing, leaked,
                  migration, opening, raced, disturbed, document, edits,
                  lastEdit>>
  BY DEF projectStore, importVars, openVars
<1>2. ProjectsTypeInv' /\ HomeInv'
  BY <1>1 DEF ProjectsInv, ProjectsTypeInv, HomeInv, Staging, ImportAt
<1>3. HashInv' /\ ImportInv'
  BY <1>1 DEF ProjectsInv, HashInv, ImportInv, Staging, ImportAt, Unpacked
<1>4. OpenInv'
  BY <1>1 DEF ProjectsInv, OpenInv, OpenFine
<1> QED BY <1>2, <1>3, <1>4 DEF ProjectsInv

LEMMA ProjectsStepInv == ProjectsInv /\ [ProjectsNext]_projectVars => ProjectsInv'
<1>1. ProjectsInv /\ UNCHANGED projectVars => ProjectsInv'
  BY ProjectsKept DEF projectVars, upsets, ProjectsInv, ProjectsTypeInv
<1> QED
  BY <1>1, ReceiveStep, ImportStepStep, OpenProjectStep, EditSourceStep,
     EditSnapshotStep, EditDocumentStep, ProjectsRestartStep DEF ProjectsNext

LEMMA ProjectsInvConsistent == ProjectsInv => ProjectsConsistent /\ ProjectsTypeOK
<1> SUFFICES ASSUME ProjectsInv PROVE ProjectsConsistent /\ ProjectsTypeOK
  OBVIOUS
<1>1. ProjectsConsistent
  BY DEF ProjectsInv, HomeInv, OpenInv, ProjectsConsistent, ImportsWhole,
         StagesOwned, EditsKept, OpensUndisturbed
<1>2. ProjectsTypeOK
  BY DEF ProjectsInv, ProjectsTypeInv, ProjectsTypeOK, Marks, Documents,
         ImportCalls
<1> QED BY <1>1, <1>2

\* The working copy of every published project is the pack whose digest its
\* project.json records, a temporary belongs to an import or to an upset, a
\* migration takes back no write from outside it could have seen, and no open
\* fails for another one (projects/workspace.py:93-180,
\* projects/repository.py:101-242).
THEOREM ProjectsAreConsistent ==
  ProjectsSpec => [](ProjectsConsistent /\ ProjectsTypeOK)
<1>1. ProjectsInv /\ [ProjectsNext]_projectVars => ProjectsInv'
  BY ProjectsStepInv
<1> QED
  BY ProjectsInitInv, <1>1, ProjectsInvConsistent, PTL DEF ProjectsSpec
=============================================================================
