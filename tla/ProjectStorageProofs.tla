------------------------ MODULE ProjectStorageProofs ------------------------
(***************************************************************************)
(* The library of references and the index of projects, each for any       *)
(* threads and files, and then the stores side by side: a store that is    *)
(* not the one at work keeps its invariant, as no step touches it.         *)
(***************************************************************************)
EXTENDS MCProjectStorage, JobFoldersProofs, ProjectFoldersProofs

-----------------------------------------------------------------------------
(* ReferenceFolders: what a thread of the library has still to do accounts *)
(* for every folder that is not whole.                                     *)

\* What a thread does in the library of references.
RefCalls ==
  [step : ReadSteps \cup {"idle", "fill", "unlink"},
   ref : References \cup {NoReference}, todo : SUBSET References,
   selected : References \cup {NoReference}, opened : Files \cup {"none"},
   beside : BOOLEAN]

LibraryTypeInv ==
  /\ place \in [References -> {"absent", "temp", "published", "removed"}]
  /\ parts \in [References -> SUBSET Files]
  /\ refLock \in Threads \cup {NoThread}
  /\ refCall \in [Threads -> RefCalls]
  /\ halfDeleted \subseteq References
  /\ faults \in Nat

\* An upload and a delete hold the lock and know where their folder is.
WriterInv ==
  \A t \in Threads :
    LET c == refCall[t] IN
    /\ c.step \in {"fill", "unlink"} => refLock = t /\ c.ref \in References
    /\ c.step = "fill" => place[c.ref] = "temp"
    /\ c.step = "unlink" => place[c.ref] = "published"

\* The references whose files a reader has still to open.
ToRead(c) ==
  {r \in References :
     \/ r \in c.todo
     \/ r = c.selected
     \/ r = c.ref /\ c.step \in {"children", "metadata", "original"}}

Excused(c) == c.beside \/ halfDeleted # {}

\* A reader finds what it reads where it was, and whole unless it is excused.
ReaderFine(c) ==
  c.step \in ReadSteps =>
    /\ c.step = "unread" => Excused(c)
    /\ c.step \in {"children", "metadata", "original"} => c.ref \in References
    /\ \A r \in ToRead(c) :
         /\ place[r] \in {"published", "removed"}
         /\ Whole(r) \/ Excused(c)
    /\ \A r \in References : Deleting(r) => c.beside

ReaderInv == \A t \in Threads : ReaderFine(refCall[t])

\* What lies in the folders that no writer is at work in.
FolderInv ==
  \A r \in References :
    /\ place[r] = "removed" => parts[r] = {}
    /\ place[r] = "published" => Whole(r) \/ Deleting(r) \/ r \in halfDeleted

LibraryInv == LibraryTypeInv /\ WriterInv /\ ReaderInv /\ FolderInv
-----------------------------------------------------------------------------
LEMMA LibraryInit == ReferencesInit => LibraryInv
<1> SUFFICES ASSUME ReferencesInit PROVE LibraryInv
  OBVIOUS
<1>1. RefIdle \in RefCalls /\ RefIdle.step = "idle"
  BY DEF RefIdle, RefCalls, ReadSteps
<1>2. refCall \in [Threads -> RefCalls]
      /\ \A t \in Threads : refCall[t].step = "idle"
  BY <1>1 DEF ReferencesInit
<1>3. LibraryTypeInv
  BY <1>2 DEF ReferencesInit, LibraryTypeInv, UpsetsInit
<1>4. WriterInv
  BY <1>2 DEF WriterInv
<1>5. ReaderInv
  BY <1>2 DEF ReaderInv, ReaderFine, ReadSteps
<1>6. FolderInv
  BY DEF ReferencesInit, FolderInv
<1> QED BY <1>3, <1>4, <1>5, <1>6 DEF LibraryInv

\* A step of a thread that writes nothing: a list or a freeze goes on.
LEMMA ReaderStep ==
  ASSUME LibraryInv, NEW t \in Threads, NEW c \in RefCalls, RefGo(t, c),
         refCall[t].step \notin {"fill", "unlink"},
         c.step \notin {"fill", "unlink"}, ReaderFine(c),
         UNCHANGED <<place, parts, refLock, halfDeleted, upsets>>
  PROVE  LibraryInv'
<1>1. /\ refCall' \in [Threads -> RefCalls] /\ refCall'[t] = c
      /\ \A u \in Threads \ {t} : refCall'[u] = refCall[u]
  BY DEF LibraryInv, LibraryTypeInv, RefGo
<1>2. \A r \in References : Deleting(r)' <=> Deleting(r)
  BY <1>1 DEF Deleting, RefAt
<1>3. LibraryTypeInv'
  BY <1>1 DEF LibraryInv, LibraryTypeInv, upsets
<1>4. WriterInv'
  BY <1>1 DEF LibraryInv, WriterInv
<1>5. ReaderInv'
  <2>1. ASSUME NEW u \in Threads, u # t
        PROVE  ReaderFine(refCall[u])'
    BY <2>1, <1>1, <1>2
       DEF LibraryInv, ReaderInv, ReaderFine, ToRead, Excused, Whole
  <2>2. \A d : d = c => ReaderFine(d)'
    BY <1>2 DEF ReaderFine, ToRead, Excused, Whole
  <2>3. ReaderFine(refCall[t])'
    BY <2>2, <1>1
  <2> QED BY <2>1, <2>3 DEF ReaderInv
<1>6. FolderInv'
  BY <1>2 DEF LibraryInv, FolderInv, Whole
<1> QED BY <1>3, <1>4, <1>5, <1>6 DEF LibraryInv

LEMMA RefIdleCall ==
  /\ RefIdle \in RefCalls /\ RefIdle.step = "idle"
  /\ RefIdle.ref = NoReference /\ RefIdle.todo = {}
  /\ RefIdle.selected = NoReference /\ ~RefIdle.beside
BY DEF RefIdle, RefCalls, ReadSteps

\* RefStep: only the place changes.
LEMMA RefStepTo ==
  ASSUME LibraryInv, NEW t \in Threads,
         NEW s \in ReadSteps \cup {"idle", "fill", "unlink"}
  PROVE  LET c == refCall[t] d == RefStep(t, s) IN
         /\ d \in RefCalls /\ d.step = s /\ d.ref = c.ref /\ d.todo = c.todo
         /\ d.selected = c.selected /\ d.opened = c.opened
         /\ d.beside = c.beside
BY DEF LibraryInv, LibraryTypeInv, RefStep, RefCalls

\* The end of a list that could not read a record.
LEMMA ReadFailsStep ==
  ASSUME LibraryInv, NEW t \in Threads, ReadFails(t),
         refCall[t].step \in ReadSteps, Excused(refCall[t]),
         UNCHANGED <<place, parts, refLock, halfDeleted, upsets>>
  PROVE  LibraryInv'
<1> DEFINE d == [RefIdle EXCEPT !.step = "unread", !.beside = refCall[t].beside]
<1>1. /\ d \in RefCalls /\ d.step = "unread" /\ d.todo = {}
      /\ d.selected = NoReference /\ d.beside = refCall[t].beside
  BY DEF RefIdle, RefCalls, ReadSteps, LibraryInv, LibraryTypeInv
<1>2. RefGo(t, d)
  BY DEF ReadFails
<1> HIDE DEF d
<1>3. ToRead(d) = {}
  BY <1>1, ReferenceFoldersAssumption DEF ToRead
<1>4. ReaderFine(d)
  BY <1>1, <1>3 DEF LibraryInv, ReaderInv, ReaderFine, Excused
<1> QED BY <1>1, <1>2, <1>4, ReaderStep DEF ReadSteps

LEMMA BeginListStep ==
  ASSUME LibraryInv, NEW t \in Threads, BeginList(t)
  PROVE  LibraryInv'
<1>1. PICK selected \in References \cup {NoReference} :
        RefGo(t, [RefIdle EXCEPT
                    !.step = "scan", !.todo = ScannedReferences,
                    !.selected = IF selected \in ScannedReferences
                                 THEN selected ELSE NoReference,
                    !.beside = \E r \in References : Deleting(r)])
  BY DEF BeginList
<1> DEFINE s == IF selected \in ScannedReferences THEN selected ELSE NoReference
           b == \E r \in References : Deleting(r)
           d == [RefIdle EXCEPT !.step = "scan", !.todo = ScannedReferences,
                                !.selected = s, !.beside = b]
<1>2. ScannedReferences \subseteq References /\ b \in BOOLEAN
      /\ s \in References \cup {NoReference}
  BY DEF ScannedReferences, PublishedReferences
<1> HIDE DEF s, b
<1>3. /\ d \in RefCalls /\ d.step = "scan" /\ d.todo = ScannedReferences
      /\ d.selected = s /\ d.beside = b
  BY <1>2 DEF RefIdle, RefCalls, ReadSteps
<1>4. RefGo(t, d)
  BY <1>1 DEF s, b
<1> HIDE DEF d
<1>5. ASSUME NEW r \in ToRead(d)
      PROVE  r \in References /\ place[r] = "published"
  BY <1>3, ReferenceFoldersAssumption
     DEF ToRead, s, ScannedReferences, PublishedReferences
<1>6. ReaderFine(d)
  BY <1>3, <1>5
     DEF ReaderFine, LibraryInv, FolderInv, Excused, b
<1> QED
  BY <1>3, <1>4, <1>6, ReaderStep DEF BeginList, RefAt

LEMMA ReadNextStep ==
  ASSUME LibraryInv, NEW t \in Threads, ReadNext(t)
  PROVE  LibraryInv'
<1> DEFINE c == refCall[t]
<1>1. c \in RefCalls
  BY DEF LibraryInv, LibraryTypeInv
<1>2. PICK r \in c.todo :
        RefGo(t, [c EXCEPT !.step = "children", !.ref = r, !.todo = @ \ {r}])
  BY DEF ReadNext
<1> DEFINE d == [c EXCEPT !.step = "children", !.ref = r, !.todo = @ \ {r}]
<1>3. /\ d \in RefCalls /\ d.step = "children" /\ d.ref = r
      /\ d.todo = c.todo \ {r} /\ d.selected = c.selected
      /\ d.beside = c.beside
  BY <1>1 DEF RefCalls, ReadSteps
<1>4. RefGo(t, d) /\ c.step = "scan"
  BY <1>2 DEF ReadNext, RefAt
<1>5. ReaderFine(c)
  BY DEF LibraryInv, ReaderInv
<1>6. r \in References
  BY <1>1, <1>2 DEF RefCalls
<1> HIDE DEF c, d
<1>7. ToRead(d) \subseteq ToRead(c)
  BY <1>3, <1>4, <1>2 DEF ToRead
<1>8. ReaderFine(d)
  BY <1>3, <1>4, <1>5, <1>6, <1>7 DEF ReaderFine, Excused, ReadSteps
<1> QED
  BY <1>3, <1>4, <1>8, ReaderStep DEF ReadNext, c

LEMMA ReadChildrenStep ==
  ASSUME LibraryInv, NEW t \in Threads, ReadChildren(t)
  PROVE  LibraryInv'
<1> DEFINE c == refCall[t]
           r == c.ref
<1>1. c.step = "children" /\ ReaderFine(c)
  BY DEF LibraryInv, ReaderInv, ReadChildren, RefAt
<1>2. r \in ToRead(c) /\ place[r] \in {"published", "removed"}
      /\ (Whole(r) \/ Excused(c))
  BY <1>1 DEF ReaderFine, ToRead, ReadSteps
<1>3. CASE place[r] = "published" /\ Whole(r)
  <2> DEFINE d == RefStep(t, "metadata")
  <2>1. RefGo(t, d)
    BY <1>3 DEF ReadChildren
  <2>2. /\ d \in RefCalls /\ d.step = "metadata" /\ d.ref = r
        /\ d.todo = c.todo /\ d.selected = c.selected /\ d.beside = c.beside
    BY RefStepTo DEF ReadSteps
  <2> HIDE DEF d
  <2>3. ToRead(d) \subseteq ToRead(c)
    BY <2>2, <1>1 DEF ToRead
  <2>4. ReaderFine(d)
    BY <2>2, <2>3, <1>1 DEF ReaderFine, Excused, ReadSteps
  <2> QED
    BY <2>1, <2>2, <2>4, <1>1, ReaderStep DEF ReadChildren
<1>4. CASE ~(place[r] = "published" /\ Whole(r))
  <2>1. Excused(c)
    <3>1. CASE place[r] = "removed"
      BY <3>1, <1>2 DEF ToRead, LibraryInv, FolderInv, Whole, Files
    <3> QED BY <3>1, <1>2, <1>4
  <2>2. ReadFails(t)
    BY <1>4 DEF ReadChildren
  <2> QED BY <2>1, <2>2, <1>1, ReadFailsStep DEF ReadChildren, ReadSteps
<1> QED BY <1>3, <1>4

LEMMA ReadFileStep ==
  ASSUME LibraryInv, NEW t \in Threads, ReadFile(t)
  PROVE  LibraryInv'
<1> DEFINE c == refCall[t]
           r == c.ref
           d1 == [c EXCEPT !.opened = c.step]
           next == IF c.step = "metadata" THEN "original" ELSE "loaded"
           d2 == [c EXCEPT !.opened = "none", !.step = next]
<1>1. /\ c.step \in Files /\ ReaderFine(c) /\ c \in RefCalls
      /\ c.step \in ReadSteps
  BY DEF LibraryInv, ReaderInv, ReadFile, LibraryTypeInv, Files, ReadSteps
<1>2. r \in References /\ r \in ToRead(c) /\ (Whole(r) \/ Excused(c))
  BY <1>1 DEF ReaderFine, ToRead, ReadSteps, Files
<1>3. UNCHANGED <<place, parts, refLock, halfDeleted, upsets>>
  BY DEF ReadFile
<1>4. CASE c.opened = "none" /\ c.step \notin parts[r]
  <2>1. Excused(c)
    BY <1>4, <1>2, <1>1 DEF Whole
  <2>2. ReadFails(t)
    BY <1>4 DEF ReadFile
  <2> QED BY <2>1, <2>2, <1>1, <1>3, ReadFailsStep
<1>5. CASE c.opened = "none" /\ c.step \in parts[r]
  <2>1. RefGo(t, d1)
    BY <1>5 DEF ReadFile
  <2>2. /\ d1 \in RefCalls /\ d1.step = c.step /\ d1.ref = c.ref
        /\ d1.todo = c.todo /\ d1.selected = c.selected /\ d1.beside = c.beside
    BY <1>1 DEF RefCalls
  <2> HIDE DEF c, d1
  <2>3. ToRead(d1) \subseteq ToRead(c)
    BY <2>2, <1>1 DEF ToRead
  <2>4. ReaderFine(d1)
    BY <2>2, <2>3, <1>1 DEF ReaderFine, Excused, Files
  <2> QED BY <2>1, <2>2, <2>4, <1>1, <1>3, ReaderStep DEF c, ReadSteps, Files
<1>6. CASE c.opened # "none"
  <2>1. RefGo(t, d2)
    BY <1>6 DEF ReadFile
  <2>2. /\ d2 \in RefCalls /\ d2.step \in {"original", "loaded"}
        /\ d2.ref = c.ref
        /\ d2.todo = c.todo /\ d2.selected = c.selected /\ d2.beside = c.beside
    BY <1>1 DEF RefCalls, ReadSteps
  <2> HIDE DEF c, d2
  <2>3. ToRead(d2) \subseteq ToRead(c)
    BY <2>2, <1>1 DEF ToRead, Files
  <2>4. ReaderFine(d2)
    BY <2>2, <2>3, <1>1, <1>2 DEF ReaderFine, Excused, Files
  <2> QED BY <2>1, <2>2, <2>4, <1>1, <1>3, ReaderStep DEF c, ReadSteps, Files
<1> QED BY <1>4, <1>5, <1>6

LEMMA ReadLoadedStep ==
  ASSUME LibraryInv, NEW t \in Threads, ReadLoaded(t)
  PROVE  LibraryInv'
<1> DEFINE c == refCall[t]
           d == [c EXCEPT !.step = "children", !.ref = c.selected,
                          !.selected = NoReference]
<1>1. /\ c.step \in {"loaded", "scan"} /\ ReaderFine(c) /\ c \in RefCalls
      /\ UNCHANGED <<place, parts, refLock, halfDeleted, upsets>>
  BY DEF LibraryInv, ReaderInv, ReadLoaded, LibraryTypeInv, RefAt
<1>2. CASE c.todo # {}
  <2> DEFINE e == RefStep(t, "scan")
  <2>1. RefGo(t, e)
    BY <1>2 DEF ReadLoaded
  <2>2. /\ e \in RefCalls /\ e.step = "scan" /\ e.todo = c.todo
        /\ e.selected = c.selected /\ e.beside = c.beside
    BY RefStepTo DEF ReadSteps
  <2> HIDE DEF e
  <2>3. ToRead(e) \subseteq ToRead(c)
    BY <2>2 DEF ToRead
  <2>4. ReaderFine(e)
    BY <2>2, <2>3, <1>1 DEF ReaderFine, Excused, ReadSteps
  <2> QED BY <2>1, <2>2, <2>4, <1>1, ReaderStep
<1>3. CASE c.todo = {} /\ c.selected # NoReference
  <2>1. RefGo(t, d)
    BY <1>3 DEF ReadLoaded
  <2>2. /\ d \in RefCalls /\ d.step = "children" /\ d.ref = c.selected
        /\ d.todo = c.todo /\ d.selected = NoReference
        /\ d.beside = c.beside
    BY <1>1 DEF RefCalls, ReadSteps
  <2>3. c.selected \in References
    BY <1>1, <1>3 DEF RefCalls
  <2> HIDE DEF c, d
  <2>4. ToRead(d) \subseteq ToRead(c)
    BY <2>2, <2>3, ReferenceFoldersAssumption DEF ToRead
  <2>5. ReaderFine(d)
    BY <2>2, <2>3, <2>4, <1>1 DEF ReaderFine, Excused, ReadSteps
  <2> QED BY <2>1, <2>2, <2>5, <1>1, ReaderStep DEF c
<1>4. CASE c.todo = {} /\ c.selected = NoReference
  <2>1. RefGo(t, RefIdle)
    BY <1>4 DEF ReadLoaded, RefReturn
  <2> QED
    BY <2>1, <1>1, RefIdleCall, ReaderStep DEF ReaderFine, ReadSteps
<1> QED BY <1>2, <1>3, <1>4

LEMMA ReadUnreadStep ==
  ASSUME LibraryInv, NEW t \in Threads, ReadUnread(t)
  PROVE  LibraryInv'
BY RefIdleCall, ReaderStep
   DEF ReadUnread, RefReturn, RefAt, ReaderFine, ReadSteps

\* A writer's step beside the readers: the references they have still to read
\* stay, and one loses files only while it is deleted.
LEMMA ReadersKept ==
  ASSUME LibraryInv, NEW t \in Threads, NEW c \in RefCalls, RefGo(t, c),
         c.step \notin ReadSteps,
         halfDeleted \subseteq halfDeleted',
         \A r \in References :
           /\ place[r] \in {"published", "removed"} =>
                /\ place'[r] \in {"published", "removed"}
                /\ Whole(r) => parts'[r] = Files \/ Deleting(r)
           /\ Deleting(r)' => Deleting(r)
  PROVE  ReaderInv'
<1>1. \A u \in Threads \ {t} : refCall'[u] = refCall[u]
  BY DEF RefGo, LibraryInv, LibraryTypeInv
<1>2. ASSUME NEW u \in Threads, u # t
      PROVE  ReaderFine(refCall[u])'
  <2>1. ReaderFine(refCall[u])
    BY DEF LibraryInv, ReaderInv
  <2>2. refCall'[u] = refCall[u]
    BY <1>1, <1>2
  <2>3. ASSUME NEW d, d = refCall[u] PROVE ReaderFine(d)'
    BY <2>1, <2>3 DEF ReaderFine, Excused, ToRead, Whole
  <2> QED BY <2>2, <2>3
<1>3. ReaderFine(refCall[t])'
  <2>1. refCall'[t] = c
    BY DEF RefGo, LibraryInv, LibraryTypeInv
  <2>2. \A d : d = c => ReaderFine(d)'
    BY DEF ReaderFine
  <2> QED BY <2>1, <2>2
<1> QED BY <1>2, <1>3 DEF ReaderInv

\* The lock has one holder, so the folder of an upload or a delete is that of
\* no other.
LEMMA OneWriter ==
  ASSUME LibraryInv, NEW t \in Threads, refCall[t].step \in {"fill", "unlink"}
  PROVE  /\ refCall[t].ref \in References
         /\ \A u \in Threads \ {t} :
              refCall[u].step \notin {"fill", "unlink"}
         /\ \A r \in References :
              Deleting(r) <=> RefAt(t, "unlink") /\ refCall[t].ref = r
<1>1. refLock = t /\ refCall[t].ref \in References
  BY DEF LibraryInv, WriterInv
<1>2. \A u \in Threads \ {t} : refCall[u].step \notin {"fill", "unlink"}
  BY <1>1 DEF LibraryInv, WriterInv
<1> QED BY <1>1, <1>2 DEF Deleting, RefAt

LEMMA UploadReserveStep ==
  ASSUME LibraryInv, NEW t \in Threads, UploadReserve(t)
  PROVE  LibraryInv'
<1>1. PICK r \in References :
        /\ place[r] = "absent"
        /\ place' = [place EXCEPT ![r] = "temp"]
        /\ RefGo(t, [RefIdle EXCEPT !.step = "fill", !.ref = r])
  BY DEF UploadReserve
<1> DEFINE d == [RefIdle EXCEPT !.step = "fill", !.ref = r]
<1>2. d \in RefCalls /\ d.step = "fill" /\ d.ref = r
  BY DEF RefIdle, RefCalls, ReadSteps
<1>3. RefGo(t, d) /\ RefAt(t, "idle") /\ refLock = NoThread /\ refLock' = t
      /\ UNCHANGED <<parts, halfDeleted, upsets>>
  BY <1>1 DEF UploadReserve
<1> HIDE DEF d
<1>4. /\ refCall' \in [Threads -> RefCalls] /\ refCall'[t] = d
      /\ \A u \in Threads \ {t} : refCall'[u] = refCall[u]
  BY <1>2, <1>3 DEF LibraryInv, LibraryTypeInv, RefGo
<1>5. \A s \in References : ~Deleting(s) /\ ~Deleting(s)'
  BY <1>2, <1>3, <1>4, StorageFaultsAssumption
     DEF Deleting, RefAt, LibraryInv, WriterInv
<1>6. LibraryTypeInv'
  BY <1>1, <1>3, <1>4 DEF LibraryInv, LibraryTypeInv, upsets
<1>7. WriterInv'
  BY <1>1, <1>2, <1>3, <1>4, StorageFaultsAssumption
     DEF LibraryInv, LibraryTypeInv, WriterInv
<1>8. ReaderInv'
  BY <1>1, <1>2, <1>3, <1>5, ReadersKept
     DEF ReadSteps, Whole, LibraryInv, LibraryTypeInv
<1>9. FolderInv'
  BY <1>1, <1>3, <1>5 DEF LibraryInv, LibraryTypeInv, FolderInv, Whole
<1> QED BY <1>6, <1>7, <1>8, <1>9 DEF LibraryInv

LEMMA UploadFillStep ==
  ASSUME LibraryInv, NEW t \in Threads, UploadFill(t)
  PROVE  LibraryInv'
<1> DEFINE r == refCall[t].ref
<1>1. /\ RefAt(t, "fill") /\ r \in References
      /\ place[r] = "temp" /\ r \in DOMAIN parts
  BY DEF UploadFill, LibraryInv, WriterInv, RefAt, LibraryTypeInv
<1>2. parts' = [parts EXCEPT ![r] =
                  IF "original" \in @ THEN Files ELSE {"original"}]
      /\ UNCHANGED <<place, refLock, refCall, halfDeleted, upsets>>
  BY DEF UploadFill
<1> HIDE DEF r
<1>3. \A s \in References : Deleting(s)' <=> Deleting(s)
  BY <1>2 DEF Deleting, RefAt
<1>4. parts' \in [References -> SUBSET Files]
      /\ \A s \in References : place[s] # "temp" => parts'[s] = parts[s]
  BY <1>1, <1>2 DEF LibraryInv, LibraryTypeInv, Files
<1>5. LibraryTypeInv' /\ WriterInv'
  BY <1>2, <1>4 DEF LibraryInv, LibraryTypeInv, WriterInv, upsets
<1>6. ReaderInv'
  BY <1>2, <1>3, <1>4
     DEF LibraryInv, ReaderInv, ReaderFine, ToRead, Excused, Whole
<1>7. FolderInv'
  BY <1>2, <1>3, <1>4 DEF LibraryInv, FolderInv, Whole
<1> QED BY <1>5, <1>6, <1>7 DEF LibraryInv

\* The writer t gives its lock back and is idle again.
LEMMA WriterReturns ==
  ASSUME LibraryInv, NEW t \in Threads, refCall[t].step \in {"fill", "unlink"},
         refLock' = NoThread, RefReturn(t)
  PROVE  /\ refCall' \in [Threads -> RefCalls] /\ WriterInv'
         /\ refLock' \in Threads \cup {NoThread}
         /\ \A r \in References : ~Deleting(r)'
<1>1. /\ refCall' \in [Threads -> RefCalls] /\ refCall'[t] = RefIdle
      /\ \A u \in Threads \ {t} : refCall'[u] = refCall[u]
  BY RefIdleCall DEF LibraryInv, LibraryTypeInv, RefReturn, RefGo
<1>2. \A u \in Threads : refCall'[u].step \notin {"fill", "unlink"}
  BY <1>1, RefIdleCall, OneWriter
<1> QED BY <1>1, <1>2 DEF WriterInv, Deleting, RefAt

LEMMA UploadEndStep ==
  ASSUME LibraryInv, NEW t \in Threads, UploadRename(t) \/ UploadFails(t)
  PROVE  LibraryInv'
<1> DEFINE r == refCall[t].ref
<1>1. /\ RefAt(t, "fill") /\ r \in References /\ place[r] = "temp"
      /\ refLock' = NoThread /\ RefReturn(t) /\ UNCHANGED halfDeleted
  BY DEF UploadRename, UploadFails, LibraryInv, WriterInv, RefAt
<1>2. \A s \in References : ~Deleting(s)
  BY <1>1, OneWriter DEF RefAt
<1>3. /\ refCall' \in [Threads -> RefCalls] /\ WriterInv'
      /\ refLock' \in Threads \cup {NoThread}
      /\ \A s \in References : ~Deleting(s)'
  BY <1>1, WriterReturns DEF RefAt
<1>4. /\ place' \in [References -> {"absent", "temp", "published", "removed"}]
      /\ parts' \in [References -> SUBSET Files]
      /\ \A s \in References \ {r} : place'[s] = place[s] /\ parts'[s] = parts[s]
      /\ \/ place'[r] = "published" /\ parts'[r] = Files
         \/ place'[r] = "absent"
  <2>1. CASE UploadRename(t)
    BY <2>1, <1>1 DEF UploadRename, LibraryInv, LibraryTypeInv, Whole
  <2>2. CASE UploadFails(t)
    BY <2>2, <1>1 DEF UploadFails, LibraryInv, LibraryTypeInv
  <2> QED BY <2>1, <2>2
<1>5. faults' \in Nat
  BY DEF UploadRename, UploadFails, LibraryInv, LibraryTypeInv, Fault, upsets
<1> HIDE DEF r
<1>6. LibraryTypeInv'
  BY <1>1, <1>3, <1>4, <1>5 DEF LibraryInv, LibraryTypeInv
<1>7. ReaderInv'
  BY <1>1, <1>2, <1>3, <1>4, RefIdleCall, ReadersKept
     DEF RefReturn, ReadSteps, Whole
<1>8. FolderInv'
  BY <1>1, <1>2, <1>4 DEF LibraryInv, FolderInv, Whole
<1> QED BY <1>3, <1>6, <1>7, <1>8 DEF LibraryInv

\* A delete begins, and the readers on their way are beside it.
LEMMA DeleteBeginStep ==
  ASSUME LibraryInv, NEW t \in Threads, DeleteBegin(t)
  PROVE  LibraryInv'
<1>1. PICK r \in References :
        /\ place[r] = "published" /\ Whole(r)
        /\ Beside(t, [RefIdle EXCEPT !.step = "unlink", !.ref = r])
  BY DEF DeleteBegin, PublishedReferences
<1> DEFINE d == [RefIdle EXCEPT !.step = "unlink", !.ref = r]
<1>2. d \in RefCalls /\ d.step = "unlink" /\ d.ref = r
  BY DEF RefIdle, RefCalls, ReadSteps
<1>3. Beside(t, d) /\ RefAt(t, "idle") /\ refLock = NoThread /\ refLock' = t
      /\ UNCHANGED <<place, parts, halfDeleted, upsets>>
  BY <1>1 DEF DeleteBegin
<1> HIDE DEF d
<1>4. ASSUME NEW u \in Threads \ {t}
      PROVE  LET c == refCall[u] e == refCall'[u] IN
             /\ e \in RefCalls /\ e.step = c.step /\ e.ref = c.ref
             /\ e.todo = c.todo /\ e.selected = c.selected
             /\ c.beside => e.beside
             /\ c.step \in ReadSteps => e.beside
  <2>1. refCall[u] \in RefCalls
    BY DEF LibraryInv, LibraryTypeInv
  <2>2. LET e == [refCall[u] EXCEPT !.beside = TRUE] c == refCall[u] IN
        /\ e \in RefCalls /\ e.step = c.step /\ e.ref = c.ref
        /\ e.todo = c.todo /\ e.selected = c.selected /\ e.beside
    BY <2>1 DEF RefCalls
  <2>3. refCall'[u] = IF refCall[u].step \in ReadSteps
                      THEN [refCall[u] EXCEPT !.beside = TRUE]
                      ELSE refCall[u]
    BY <1>3 DEF Beside
  <2> QED BY <2>1, <2>2, <2>3
<1>5. refCall' \in [Threads -> RefCalls] /\ refCall'[t] = d
  <2>1. refCall' = [u \in Threads |-> refCall'[u]] /\ refCall'[t] = d
    BY <1>3 DEF Beside
  <2> QED BY <2>1, <1>2, <1>4
<1>6. \A u \in Threads : refCall[u].step \notin {"fill", "unlink"}
  BY <1>3, StorageFaultsAssumption DEF LibraryInv, WriterInv
<1>7. LibraryTypeInv'
  BY <1>3, <1>5 DEF LibraryInv, LibraryTypeInv, upsets
<1>8. WriterInv'
  BY <1>1, <1>2, <1>3, <1>4, <1>5, <1>6 DEF WriterInv
<1>9. ReaderInv'
  <2>1. ASSUME NEW u \in Threads, u # t
        PROVE  ReaderFine(refCall[u])'
    <3>1. ReaderFine(refCall[u])
      BY DEF LibraryInv, ReaderInv
    <3> DEFINE c == refCall[u]
               e == refCall'[u]
    <3>2. /\ e.step = c.step /\ e.ref = c.ref /\ e.todo = c.todo
          /\ e.selected = c.selected /\ (c.beside => e.beside)
          /\ (c.step \in ReadSteps => e.beside)
      BY <2>1, <1>4
    <3>3. \A x : x = e => ReaderFine(x)'
      BY <3>1, <3>2, <1>3 DEF ReaderFine, ToRead, Excused, Whole
    <3> QED BY <3>3
  <2>2. \A x : x = d => ReaderFine(x)'
    BY <1>2 DEF ReaderFine, ReadSteps
  <2> QED BY <2>1, <2>2, <1>5 DEF ReaderInv
<1>10. FolderInv'
  <2>1. \A s \in References : ~Deleting(s)
    BY <1>6 DEF Deleting, RefAt
  <2> QED BY <2>1, <1>3 DEF LibraryInv, FolderInv, Whole
<1> QED BY <1>7, <1>8, <1>9, <1>10 DEF LibraryInv

LEMMA UnlinkStep ==
  ASSUME LibraryInv, NEW t \in Threads, Unlink(t)
  PROVE  LibraryInv'
<1> DEFINE r == refCall[t].ref
<1>1. RefAt(t, "unlink") /\ r \in References /\ place[r] = "published"
      /\ UNCHANGED <<place, refLock, refCall, halfDeleted, upsets>>
      /\ parts' = [parts EXCEPT ![r] = @ \ {NextFile(r)}]
  BY DEF Unlink, LibraryInv, WriterInv, RefAt
<1>2. \A s \in References : Deleting(s)' <=> Deleting(s)
  BY <1>1 DEF Deleting, RefAt
<1>3. Deleting(r)
  BY <1>1 DEF Deleting
<1> HIDE DEF r
<1>4. parts' \in [References -> SUBSET Files]
      /\ \A s \in References \ {r} : parts'[s] = parts[s]
  BY <1>1 DEF LibraryInv, LibraryTypeInv
<1>5. LibraryTypeInv' /\ WriterInv'
  BY <1>1, <1>4 DEF LibraryInv, LibraryTypeInv, WriterInv, upsets
<1>6. ReaderInv'
  <2>1. \A u \in Threads :
          refCall[u].step \in ReadSteps => refCall[u].beside
    BY <1>1, <1>3 DEF LibraryInv, ReaderInv, ReaderFine
  <2> QED
    BY <2>1, <1>1, <1>2 DEF LibraryInv, ReaderInv, ReaderFine, ToRead, Excused
<1>7. FolderInv'
  BY <1>1, <1>2, <1>3, <1>4 DEF LibraryInv, FolderInv, Whole
<1> QED BY <1>5, <1>6, <1>7 DEF LibraryInv

LEMMA DeleteEndStep ==
  ASSUME LibraryInv, NEW t \in Threads, Remove(t) \/ DeleteFails(t)
  PROVE  LibraryInv'
<1> DEFINE r == refCall[t].ref
<1>1. /\ RefAt(t, "unlink") /\ r \in References /\ place[r] = "published"
      /\ refLock' = NoThread /\ RefReturn(t) /\ UNCHANGED parts
  BY DEF Remove, DeleteFails, LibraryInv, WriterInv, RefAt
<1>2. /\ refCall' \in [Threads -> RefCalls] /\ WriterInv'
      /\ refLock' \in Threads \cup {NoThread}
      /\ \A s \in References : ~Deleting(s)'
  BY <1>1, WriterReturns DEF RefAt
<1>3. \A s \in References : Deleting(s) => s = r
  BY <1>1, OneWriter DEF RefAt
<1>4. /\ place' \in [References -> {"absent", "temp", "published", "removed"}]
      /\ halfDeleted \subseteq halfDeleted' /\ halfDeleted' \subseteq References
      /\ \A s \in References \ {r} : place'[s] = place[s]
      /\ \/ place'[r] = "removed" /\ parts[r] = {}
         \/ place'[r] = "published" /\ (Whole(r) \/ r \in halfDeleted')
  <2>1. CASE Remove(t)
    BY <2>1, <1>1 DEF Remove, LibraryInv, LibraryTypeInv
  <2>2. CASE DeleteFails(t)
    BY <2>2, <1>1 DEF DeleteFails, LibraryInv, LibraryTypeInv
  <2> QED BY <2>1, <2>2
<1>5. faults' \in Nat
  BY DEF Remove, DeleteFails, LibraryInv, LibraryTypeInv, Fault, upsets
<1> HIDE DEF r
<1>6. LibraryTypeInv'
  BY <1>1, <1>2, <1>4, <1>5 DEF LibraryInv, LibraryTypeInv
<1>7. ReaderInv'
  BY <1>1, <1>2, <1>4, RefIdleCall, ReadersKept
     DEF RefReturn, ReadSteps, Whole
<1>8. FolderInv'
  BY <1>1, <1>3, <1>4 DEF LibraryInv, FolderInv, Whole
<1> QED BY <1>2, <1>6, <1>7, <1>8 DEF LibraryInv

LEMMA ReferencesRestartStep ==
  ASSUME LibraryInv, ReferencesRestart
  PROVE  LibraryInv'
<1>1. refCall' \in [Threads -> RefCalls]
      /\ \A t \in Threads : refCall'[t].step = "idle"
  BY RefIdleCall DEF ReferencesRestart
<1>2. LibraryTypeInv'
  BY <1>1
     DEF LibraryInv, LibraryTypeInv, ReferencesRestart, Crash, Fault
<1>3. WriterInv' /\ ReaderInv'
  BY <1>1 DEF WriterInv, ReaderInv, ReaderFine, ReadSteps
<1>4. FolderInv'
  BY DEF LibraryInv, FolderInv, ReferencesRestart, Whole
<1> QED BY <1>2, <1>3, <1>4 DEF LibraryInv

\* Steps that leave the library alone, whatever they count.
LEMMA LibraryKept ==
  ASSUME LibraryInv, UNCHANGED referenceStore, faults' \in Nat
  PROVE  LibraryInv'
BY DEF referenceStore, LibraryInv, LibraryTypeInv, WriterInv, ReaderInv,
       ReaderFine, FolderInv, ToRead, Excused, Whole, Deleting, RefAt

LEMMA LibraryStep == LibraryInv /\ [ReferencesNext]_refVars => LibraryInv'
<1> SUFFICES ASSUME LibraryInv, [ReferencesNext]_refVars PROVE LibraryInv'
  OBVIOUS
<1>1. CASE UNCHANGED refVars
  BY <1>1, LibraryKept DEF refVars, upsets, LibraryInv, LibraryTypeInv
<1>2. ASSUME NEW t \in Threads, CallReferences(t)
      PROVE  LibraryInv'
  BY <1>2, UploadReserveStep, UploadFillStep, UploadEndStep, BeginListStep,
     ReadNextStep, ReadChildrenStep, ReadFileStep, ReadLoadedStep,
     ReadUnreadStep, DeleteBeginStep, UnlinkStep, DeleteEndStep
     DEF CallReferences
<1> QED BY <1>1, <1>2, ReferencesRestartStep DEF ReferencesNext

LEMMA LibraryReadable ==
  LibraryInv => ReferencesReadable /\ ReferencesTypeOK
<1> SUFFICES ASSUME LibraryInv PROVE ReferencesReadable /\ ReferencesTypeOK
  OBVIOUS
<1>1. ReferencesReadable
  BY DEF LibraryInv, FolderInv, ReaderInv, ReaderFine, ReferencesReadable,
         PublishedReferences, RefAt, ReadSteps, Excused
<1>2. ReferencesTypeOK
  BY DEF LibraryInv, LibraryTypeInv, RefCalls, ReferencesTypeOK
<1> QED BY <1>1, <1>2

\* Uploads, and what a crash leaves of them, never break the library for a
\* list or a freeze, and a delete does so only while it is at work or when it
\* was cut short: for any references, threads and number of upsets.
THEOREM ReferencesAreReadable ==
  ReferencesSpec => [](ReferencesReadable /\ ReferencesTypeOK)
<1>1. ReferencesSpec => []LibraryInv
  BY LibraryInit, LibraryStep, PTL DEF ReferencesSpec
<1> QED BY <1>1, LibraryReadable, PTL

-----------------------------------------------------------------------------
(* ProjectIndex: where the index and the disk differ, a call is about to   *)
(* make up for it, or the project is in unindexed.                         *)

\* The revision of a job, and what a call is doing.
Revisions == -1 .. LastRevision

IndexCalls ==
  [step : {"idle", "import", "cancel", "queue", "execute", "rebuild"},
   op : {"none", "project", "job", "list"}, of : Projects \cup {NoProject},
   value : Revisions, again : BOOLEAN, todo : SUBSET Projects,
   found : SUBSET Projects, missed : SUBSET Projects,
   jobs : [Projects -> Revisions]]

IndexTypeInv ==
  /\ project \in [Projects -> {"absent", "temp", "published"}]
  /\ revision \in [Projects -> Revisions]
  /\ projectRows \subseteq Projects
  /\ jobRow \in [Projects -> Revisions]
  /\ database \in {"good", "broken"}
  /\ indexLock \in Threads \cup {NoThread}
  /\ indexCall \in [Threads -> IndexCalls]
  /\ unindexed \subseteq Projects
  /\ faults \in Nat

\* Only a published project has a job; an import and a cancel have theirs to
\* themselves.
DiskInv ==
  /\ \A p \in Projects : revision[p] # -1 => project[p] = "published"
  /\ \A t \in Threads :
       LET c == indexCall[t] IN
       /\ c.step \in {"import", "cancel"} =>
            /\ c.of \in Projects
            /\ \A u \in Threads \ {t} :
                 ~(indexCall[u].step = c.step /\ indexCall[u].of = c.of)
       /\ c.step = "import" => project[c.of] = "temp"
       /\ c.step = "cancel" => revision[c.of] \in 0 .. LastRevision - 1

NoJobs == [p \in Projects |-> -1]

\* A statement is about something on disk, which may have moved on since, and
\* its thread holds the lock while it executes or rebuilds.
StatementFine(t, c) ==
  /\ c.step \in {"execute", "rebuild"} => indexLock = t
  /\ c.op = "project" => c.of \in PublishedProjects
  /\ c.op = "job" => c.of \in PublishedProjects /\ c.value <= revision[c.of]
  /\ c.op \in {"project", "job"} => c.step \in {"queue", "execute", "rebuild"}
  /\ c.step \in {"queue", "execute", "rebuild"} =>
       c.op \in {"project", "job"} \/ c.of = NoProject
  /\ c.step # "rebuild" => c.found = {} /\ c.missed = {} /\ c.jobs = NoJobs

StatementInv == \A t \in Threads : StatementFine(t, indexCall[t])

\* A thread has still to write the row of p, or the current row of its job.
ProjectPending(p) ==
  \E t \in Threads : indexCall[t].of = p /\ indexCall[t].op = "project"

JobPending(p) ==
  \E t \in Threads :
    /\ indexCall[t].of = p /\ indexCall[t].op = "job"
    /\ indexCall[t].value = revision[p]

\* Rows that have lost some projects follow the disk.
Follows(rows, jobs, lost) ==
  /\ rows \subseteq PublishedProjects
  /\ \A p \in Projects : jobs[p] <= revision[p]
  /\ \A p \in PublishedProjects \ lost :
       /\ p \in rows \/ ProjectPending(p)
       /\ jobs[p] = revision[p] \/ JobPending(p)

\* So do the rows of the index and those of a snapshot that is being made.
RowsInv == Follows(projectRows, jobRow, unindexed)

SnapshotFine(c) ==
  c.step = "rebuild" =>
    /\ c.todo \subseteq PublishedProjects
    /\ Follows(c.found, c.jobs, c.todo \cup c.missed)

SnapshotInv == \A t \in Threads : SnapshotFine(indexCall[t])

IndexInv ==
  IndexTypeInv /\ DiskInv /\ StatementInv /\ RowsInv /\ SnapshotInv

-----------------------------------------------------------------------------
LEMMA IdleFields ==
  /\ NoJobs \in [Projects -> Revisions] /\ -1 \in Revisions
  /\ IndexIdle = [step |-> "idle", op |-> "none", of |-> NoProject, value |-> -1,
                  again |-> FALSE, todo |-> {}, found |-> {}, missed |-> {},
                  jobs |-> NoJobs]
BY DEF IndexIdle, NoJobs, Revisions, LastRevision

LEMMA IndexIdleCall ==
  /\ IndexIdle \in IndexCalls
  /\ IndexIdle.step = "idle" /\ IndexIdle.op = "none" /\ IndexIdle.of = NoProject
  /\ IndexIdle.found = {} /\ IndexIdle.missed = {} /\ IndexIdle.jobs = NoJobs
BY IdleFields DEF IndexCalls

LEMMA StatementCall ==
  ASSUME NEW op \in {"project", "job", "list"},
         NEW p \in Projects \cup {NoProject}, NEW v \in Revisions
  PROVE  LET d == Statement(op, p, v) IN
         /\ d \in IndexCalls /\ d.step = "queue" /\ d.op = op /\ d.of = p
         /\ d.value = v
         /\ d.found = {} /\ d.missed = {} /\ d.jobs = NoJobs
BY IdleFields DEF IndexCalls, Statement

LEMMA OwnerCall ==
  ASSUME NEW p \in Projects
  PROVE  LET d == [IndexIdle EXCEPT !.step = "import", !.of = p]
             e == [IndexIdle EXCEPT !.step = "cancel", !.of = p] IN
         /\ d \in IndexCalls /\ d.step = "import" /\ d.op = "none" /\ d.of = p
         /\ d.found = {} /\ d.missed = {} /\ d.jobs = NoJobs
         /\ e \in IndexCalls /\ e.step = "cancel" /\ e.op = "none" /\ e.of = p
         /\ e.found = {} /\ e.missed = {} /\ e.jobs = NoJobs
BY IdleFields DEF IndexCalls

LEMMA IndexInitInv == IndexInit => IndexInv
<1> SUFFICES ASSUME IndexInit PROVE IndexInv
  OBVIOUS
<1>1. indexCall \in [Threads -> IndexCalls]
      /\ \A t \in Threads : indexCall[t] = IndexIdle
  BY IndexIdleCall DEF IndexInit
<1>2. IndexTypeInv
  BY <1>1 DEF IndexInit, IndexTypeInv, UpsetsInit, Revisions, LastRevision
<1>3. DiskInv
  BY <1>1, IndexIdleCall DEF IndexInit, DiskInv
<1>4. StatementInv
  BY <1>1, IndexIdleCall DEF StatementInv, StatementFine
<1>5. RowsInv
  BY DEF IndexInit, RowsInv, Follows, PublishedProjects
<1>6. SnapshotInv
  BY <1>1, IndexIdleCall DEF SnapshotInv, SnapshotFine
<1> QED BY <1>2, <1>3, <1>4, <1>5, <1>6 DEF IndexInv

\* A step of t that leaves its call c.
CallsStay(t, c) ==
  /\ indexCall' \in [Threads -> IndexCalls] /\ indexCall'[t] = c
  /\ \A u \in Threads \ {t} : indexCall'[u] = indexCall[u]

LEMMA IndexGoStays ==
  ASSUME IndexTypeInv, NEW t \in Threads, NEW c \in IndexCalls, IndexGo(t, c)
  PROVE  CallsStay(t, c)
BY DEF IndexTypeInv, IndexGo, CallsStay

\* The disk only goes forward, and what is new has its statement pending.
Forward ==
  \A p \in Projects :
    /\ project[p] = "published" => project'[p] = "published"
    /\ project'[p] = "published" =>
         project[p] = "published" \/ ProjectPending(p)'
    /\ \/ revision'[p] = revision[p]
       \/ revision[p] < revision'[p] /\ JobPending(p)'
    /\ ProjectPending(p) => ProjectPending(p)'
    /\ JobPending(p) /\ revision'[p] = revision[p] => JobPending(p)'

\* Rows that follow the disk do so when it has gone forward.
LEMMA FollowsForward ==
  ASSUME IndexTypeInv, DiskInv, Forward, revision' \in [Projects -> Revisions],
         NEW rows, NEW jobs \in [Projects -> Revisions], NEW lost,
         Follows(rows, jobs, lost)
  PROVE  Follows(rows, jobs, lost)'
<1>1. rows \subseteq PublishedProjects'
  BY DEF Follows, Forward, PublishedProjects
<1>2. ASSUME NEW p \in Projects
      PROVE  /\ jobs[p] \in Revisions /\ revision[p] \in Revisions
             /\ revision'[p] \in Revisions /\ revision[p] <= revision'[p]
             /\ jobs[p] <= revision[p]
  BY DEF IndexTypeInv, Follows, Forward, Revisions, LastRevision
<1>3. \A p \in Projects : jobs[p] <= revision'[p]
  BY <1>2 DEF Revisions, LastRevision
<1>4. ASSUME NEW p \in Projects, project'[p] = "published", p \notin lost
      PROVE  /\ p \in rows \/ ProjectPending(p)'
             /\ jobs[p] = revision'[p] \/ JobPending(p)'
  <2>1. CASE project[p] = "published"
    BY <2>1, <1>4 DEF Follows, Forward, PublishedProjects
  <2>2. CASE project[p] # "published"
    <3>1. revision[p] = -1 /\ ProjectPending(p)'
      BY <2>2, <1>4 DEF DiskInv, Forward
    <3>2. jobs[p] = revision[p]
      BY <3>1, <1>2 DEF Revisions, LastRevision
    <3> QED BY <3>1, <3>2 DEF Forward
  <2> QED BY <2>1, <2>2
<1> QED BY <1>1, <1>3, <1>4 DEF Follows, PublishedProjects

\* What the calls of the others say stays true.
LEMMA OtherCallsFine ==
  ASSUME IndexInv, NEW t \in Threads, NEW c \in IndexCalls, CallsStay(t, c),
         Forward, revision' \in [Projects -> Revisions],
         NEW u \in Threads \ {t},
         indexLock = u => indexLock' = u
  PROVE  StatementFine(u, indexCall[u])'
<1>1. StatementFine(u, indexCall[u])
  BY DEF IndexInv, StatementInv
<1>2. indexCall'[u] = indexCall[u] /\ indexCall[u] \in IndexCalls
  BY DEF CallsStay, IndexInv, IndexTypeInv
<1>3. PublishedProjects \subseteq PublishedProjects'
  BY DEF Forward, PublishedProjects
<1>4. \A p \in Projects :
        /\ revision[p] \in Int /\ revision'[p] \in Int
        /\ revision[p] <= revision'[p]
  BY DEF IndexInv, IndexTypeInv, Forward, Revisions, LastRevision
<1>5. ASSUME NEW d \in IndexCalls, StatementFine(u, d)
      PROVE  StatementFine(u, d)'
  <2>1. d.op = "job" => d.of \in Projects /\ d.value \in Int
    BY <1>5 DEF IndexCalls, StatementFine, PublishedProjects, Revisions,
                LastRevision
  <2> QED BY <1>5, <2>1, <1>3, <1>4 DEF StatementFine
<1> QED BY <1>1, <1>2, <1>5

\* A step that does not hold the lock: the rows and the snapshot in work go
\* on to follow the disk.
LEMMA DiskStep ==
  ASSUME IndexInv, NEW t \in Threads, NEW c \in IndexCalls, CallsStay(t, c),
         indexCall[t].step \notin {"execute", "rebuild"},
         c.step # "rebuild", Forward, StatementFine(t, c)',
         project' \in [Projects -> {"absent", "temp", "published"}],
         revision' \in [Projects -> Revisions], DiskInv',
         indexLock' \in Threads \cup {NoThread},
         \A u \in Threads \ {t} : indexLock = u => indexLock' = u,
         UNCHANGED <<projectRows, jobRow, database, unindexed>>,
         faults' \in Nat
  PROVE  IndexInv'
<1>1. IndexTypeInv'
  BY DEF IndexInv, IndexTypeInv, CallsStay
<1>2. StatementInv'
  <2>1. \A u \in Threads : StatementFine(u, indexCall[u])'
    BY OtherCallsFine DEF CallsStay
  <2> QED BY <2>1 DEF StatementInv
<1>3. RowsInv'
  BY FollowsForward DEF IndexInv, IndexTypeInv, RowsInv
<1>4. SnapshotInv'
  <2>1. ASSUME NEW u \in Threads \ {t}
        PROVE  SnapshotFine(indexCall[u])'
    <3>1. /\ indexCall'[u] = indexCall[u] /\ indexCall[u] \in IndexCalls
          /\ SnapshotFine(indexCall[u])
      BY DEF CallsStay, IndexInv, IndexTypeInv, SnapshotInv
    <3>2. ASSUME NEW d \in IndexCalls, SnapshotFine(d)
          PROVE  SnapshotFine(d)'
      <4>1. d.jobs \in [Projects -> Revisions]
        BY DEF IndexCalls
      <4>2. d.todo \subseteq PublishedProjects =>
              d.todo \subseteq PublishedProjects'
        BY DEF Forward, PublishedProjects
      <4> QED
        BY <3>2, <4>1, <4>2, FollowsForward DEF IndexInv, SnapshotFine
    <3> QED BY <3>1, <3>2
  <2>2. SnapshotFine(indexCall[t])'
    BY DEF SnapshotFine, CallsStay
  <2> QED BY <2>1, <2>2 DEF SnapshotInv
<1> QED BY <1>1, <1>2, <1>3, <1>4 DEF IndexInv

\* A thread that had no row to write, or still has it, costs no row.
LEMMA PendingKept ==
  ASSUME NEW t \in Threads, NEW c, CallsStay(t, c),
         \/ indexCall[t].op \notin {"project", "job"}
         \/ /\ c.of = indexCall[t].of /\ c.op = indexCall[t].op
            /\ c.value = indexCall[t].value
  PROVE  \A p \in Projects :
           /\ ProjectPending(p) => ProjectPending(p)'
           /\ JobPending(p) /\ revision'[p] = revision[p] => JobPending(p)'
BY DEF CallsStay, ProjectPending, JobPending

\* A call that is not at a statement has no row to write.
LEMMA NoStatement ==
  ASSUME IndexInv, NEW t \in Threads,
         indexCall[t].step \notin {"queue", "execute", "rebuild"}
  PROVE  indexCall[t].op \notin {"project", "job"}
BY DEF IndexInv, StatementInv, StatementFine

LEMMA ImportBeginStep ==
  ASSUME IndexInv, NEW t \in Threads, ImportBegin(t)
  PROVE  IndexInv'
<1>1. PICK p \in Projects :
        /\ project[p] = "absent"
        /\ project' = [project EXCEPT ![p] = "temp"]
        /\ IndexGo(t, [IndexIdle EXCEPT !.step = "import", !.of = p])
  BY DEF ImportBegin
<1> DEFINE d == [IndexIdle EXCEPT !.step = "import", !.of = p]
<1>2. /\ d \in IndexCalls /\ d.step = "import" /\ d.op = "none" /\ d.of = p
      /\ d.found = {} /\ d.missed = {} /\ d.jobs = NoJobs
  BY OwnerCall
<1> HIDE DEF d
<1>3. /\ CallsStay(t, d) /\ indexCall[t].step = "idle"
      /\ UNCHANGED <<revision, index, unindexed, upsets>>
  BY <1>1, <1>2, IndexGoStays DEF IndexInv, ImportBegin, IndexAt, d
<1>4. Forward
  BY <1>1, <1>3, NoStatement, PendingKept DEF Forward, IndexInv, IndexTypeInv
<1>5. StatementFine(t, d)'
  BY <1>2 DEF StatementFine
<1>6. DiskInv'
  BY <1>1, <1>2, <1>3 DEF IndexInv, IndexTypeInv, DiskInv, CallsStay
<1> QED
  BY <1>1, <1>2, <1>3, <1>4, <1>5, <1>6, DiskStep
     DEF IndexInv, IndexTypeInv, index, upsets

LEMMA ImportRenameStep ==
  ASSUME IndexInv, NEW t \in Threads, ImportRename(t)
  PROVE  IndexInv'
<1> PICK p : p = indexCall[t].of
  OBVIOUS
<1> DEFINE d == Statement("project", p, -1)
<1>1. /\ indexCall[t].step = "import" /\ p \in Projects /\ project[p] = "temp"
      /\ project' = [project EXCEPT ![p] = "published"]
      /\ \A u \in Threads \ {t} :
           ~(indexCall[u].step = "import" /\ indexCall[u].of = p)
  BY DEF ImportRename, IndexAt, IndexInv, DiskInv
<1>2. /\ d \in IndexCalls /\ d.step = "queue" /\ d.op = "project" /\ d.of = p
      /\ d.found = {} /\ d.missed = {} /\ d.jobs = NoJobs
  <2>1. -1 \in Revisions
    BY DEF Revisions, LastRevision
  <2> QED BY <1>1, <2>1, StatementCall
<1>3. /\ CallsStay(t, d) /\ UNCHANGED <<revision, index, unindexed, upsets>>
  BY <1>2, IndexGoStays DEF IndexInv, ImportRename
<1> HIDE DEF d
<1>4. Forward
  <2>1. ProjectPending(p)'
    BY <1>2, <1>3 DEF ProjectPending, CallsStay
  <2> QED
    BY <2>1, <1>1, <1>3, NoStatement, PendingKept
       DEF Forward, IndexInv, IndexTypeInv
<1>5. StatementFine(t, d)'
  <2>1. p \in PublishedProjects'
    BY <1>1 DEF PublishedProjects, IndexInv, IndexTypeInv
  <2> QED BY <1>2, <2>1 DEF StatementFine
<1>6. DiskInv'
  BY <1>1, <1>2, <1>3 DEF IndexInv, IndexTypeInv, DiskInv, CallsStay
<1> QED
  BY <1>1, <1>2, <1>3, <1>4, <1>5, <1>6, DiskStep
     DEF IndexInv, IndexTypeInv, index, upsets

LEMMA ImportFailsStep ==
  ASSUME IndexInv, NEW t \in Threads, ImportFails(t)
  PROVE  IndexInv'
<1> PICK p : p = indexCall[t].of
  OBVIOUS
<1>1. /\ indexCall[t].step = "import" /\ p \in Projects /\ project[p] = "temp"
      /\ project' = [project EXCEPT ![p] = "absent"]
      /\ \A u \in Threads \ {t} :
           ~(indexCall[u].step = "import" /\ indexCall[u].of = p)
  BY DEF ImportFails, IndexAt, IndexInv, DiskInv
<1>2. CallsStay(t, IndexIdle) /\ UNCHANGED <<revision, index, unindexed>>
  BY IndexIdleCall, IndexGoStays DEF IndexInv, ImportFails
<1>3. faults' \in Nat
  BY DEF ImportFails, Fault, IndexInv, IndexTypeInv
<1>4. Forward
  BY <1>1, <1>2, NoStatement, PendingKept DEF Forward, IndexInv, IndexTypeInv
<1>5. StatementFine(t, IndexIdle)'
  BY IndexIdleCall DEF StatementFine
<1>6. DiskInv'
  BY <1>1, <1>2, IndexIdleCall
     DEF IndexInv, IndexTypeInv, DiskInv, CallsStay
<1> QED
  BY <1>1, <1>2, <1>3, <1>4, <1>5, <1>6, DiskStep, IndexIdleCall
     DEF IndexInv, IndexTypeInv, index

\* A job is created, or its cancel committed: its revision goes one up and the
\* row of the new one is pending.
LEMMA StatementEnds ==
  ASSUME IndexInv, NEW t \in Threads, NEW p \in PublishedProjects,
         NEW v \in Revisions, v = revision[p] + 1,
         \/ indexCall[t].step = "idle" /\ revision[p] = -1
         \/ indexCall[t].step = "cancel" /\ indexCall[t].of = p,
         revision' = [revision EXCEPT ![p] = v],
         IndexGo(t, Statement("job", p, v)),
         UNCHANGED <<project, index, unindexed, upsets>>
  PROVE  IndexInv'
<1> DEFINE d == Statement("job", p, v)
<1>1. /\ p \in Projects /\ project[p] = "published"
      /\ revision[p] \in Int
      /\ indexCall[t].step \in {"idle", "cancel"}
  BY DEF PublishedProjects, IndexInv, IndexTypeInv, Revisions, LastRevision
<1>2. /\ d \in IndexCalls /\ d.step = "queue" /\ d.op = "job" /\ d.of = p
      /\ d.value = v /\ d.found = {} /\ d.missed = {} /\ d.jobs = NoJobs
  BY <1>1, StatementCall
<1>3. CallsStay(t, d)
  BY <1>2, IndexGoStays DEF IndexInv
<1> HIDE DEF d
<1>4. /\ revision' \in [Projects -> Revisions] /\ revision'[p] = v
      /\ \A q \in Projects \ {p} : revision'[q] = revision[q]
  BY <1>1 DEF IndexInv, IndexTypeInv
<1>5. Forward
  <2>1. JobPending(p)'
    BY <1>2, <1>3, <1>4 DEF JobPending, CallsStay
  <2>2. \A q \in Projects :
          /\ ProjectPending(q) => ProjectPending(q)'
          /\ JobPending(q) /\ revision'[q] = revision[q] => JobPending(q)'
    BY <1>1, <1>3, NoStatement, PendingKept
  <2> QED BY <2>1, <2>2, <1>1, <1>4 DEF Forward
<1>6. StatementFine(t, d)'
  <2>1. p \in PublishedProjects'
    BY DEF PublishedProjects
  <2> QED BY <1>2, <1>4, <2>1 DEF StatementFine, Revisions, LastRevision
<1>7. DiskInv'
  <2>1. ASSUME NEW u \in Threads \ {t}
        PROVE  ~(indexCall[u].step = "cancel" /\ indexCall[u].of = p)
    BY <1>1 DEF IndexInv, DiskInv, LastRevision
  <2> QED
    BY <2>1, <1>1, <1>2, <1>3, <1>4
       DEF IndexInv, IndexTypeInv, DiskInv, CallsStay
<1> QED
  BY <1>1, <1>2, <1>3, <1>4, <1>5, <1>6, <1>7, DiskStep
     DEF IndexInv, IndexTypeInv, index, upsets

LEMMA JobSteps ==
  ASSUME IndexInv, NEW t \in Threads, CreateJob(t) \/ CancelCommit(t)
  PROVE  IndexInv'
<1>1. CASE CreateJob(t)
  <2>1. PICK p \in PublishedProjects :
          /\ revision[p] = -1
          /\ revision' = [revision EXCEPT ![p] = 0]
          /\ IndexGo(t, Statement("job", p, 0))
    BY <1>1 DEF CreateJob
  <2>2. PICK v \in Revisions :
          /\ v = revision[p] + 1
          /\ revision' = [revision EXCEPT ![p] = v]
          /\ IndexGo(t, Statement("job", p, v))
    BY <2>1 DEF Revisions, LastRevision
  <2>3. /\ indexCall[t].step = "idle"
        /\ UNCHANGED <<project, index, unindexed, upsets>>
    BY <1>1 DEF CreateJob, IndexAt
  <2>4. \/ indexCall[t].step = "idle" /\ revision[p] = -1
        \/ indexCall[t].step = "cancel" /\ indexCall[t].of = p
    BY <2>1, <2>3
  <2> QED BY <2>2, <2>3, <2>4, StatementEnds
<1>2. CASE CancelCommit(t)
  <2> PICK p : p = indexCall[t].of
    OBVIOUS
  <2>1. /\ indexCall[t].step = "cancel" /\ p \in Projects
        /\ revision[p] \in 0 .. LastRevision - 1
    BY <1>2 DEF CancelCommit, IndexAt, IndexInv, DiskInv
  <2>2. p \in PublishedProjects
    BY <2>1 DEF IndexInv, DiskInv, PublishedProjects
  <2>3. /\ revision' = [revision EXCEPT ![p] = revision[p] + 1]
        /\ IndexGo(t, Statement("job", p, revision[p] + 1))
        /\ UNCHANGED <<project, index, unindexed, upsets>>
    BY <1>2 DEF CancelCommit
  <2>4. revision[p] + 1 \in Revisions
    BY <2>1 DEF Revisions, LastRevision
  <2> QED BY <2>1, <2>2, <2>3, <2>4, StatementEnds
<1> QED BY <1>1, <1>2

\* A step that changes the call of t alone, and not its statement.
LEMMA CallStep ==
  ASSUME IndexInv, NEW t \in Threads, NEW c \in IndexCalls, CallsStay(t, c),
         indexCall[t].step \notin {"execute", "rebuild"},
         c.step \notin {"rebuild", "import"},
         \/ indexCall[t].op \notin {"project", "job"}
         \/ /\ c.of = indexCall[t].of /\ c.op = indexCall[t].op
            /\ c.value = indexCall[t].value,
         StatementFine(t, c)',
         c.step = "cancel" =>
           /\ c.of \in Projects /\ revision[c.of] \in 0 .. LastRevision - 1
           /\ \A u \in Threads :
                ~(indexCall[u].step = "cancel" /\ indexCall[u].of = c.of),
         UNCHANGED <<project, revision, projectRows, jobRow, database,
                     unindexed>>,
         indexLock' \in Threads \cup {NoThread},
         \A u \in Threads \ {t} : indexLock = u => indexLock' = u,
         faults' \in Nat
  PROVE  IndexInv'
<1>1. Forward
  <2>1. \A q \in Projects :
          /\ ProjectPending(q) => ProjectPending(q)'
          /\ JobPending(q) /\ revision'[q] = revision[q] => JobPending(q)'
    BY PendingKept
  <2> QED BY <2>1 DEF Forward
<1>2. DiskInv'
  BY DEF IndexInv, IndexTypeInv, DiskInv, CallsStay
<1> QED
  BY <1>1, <1>2, DiskStep DEF IndexInv, IndexTypeInv

LEMMA CallSteps ==
  ASSUME IndexInv, NEW t \in Threads,
         \/ CancelBegin(t) \/ CancelFails(t) \/ ListProjects(t) \/ TakeIndex(t)
  PROVE  IndexInv'
<1>1. CASE CancelBegin(t)
  <2>1. PICK p \in PublishedProjects :
          /\ revision[p] \in 0 .. LastRevision - 1
          /\ ~\E u \in Threads : IndexAt(u, "cancel") /\ indexCall[u].of = p
          /\ IndexGo(t, [IndexIdle EXCEPT !.step = "cancel", !.of = p])
    BY <1>1 DEF CancelBegin
  <2> DEFINE d == [IndexIdle EXCEPT !.step = "cancel", !.of = p]
  <2>2. p \in Projects
    BY DEF PublishedProjects
  <2>3. /\ d \in IndexCalls /\ d.step = "cancel" /\ d.op = "none" /\ d.of = p
        /\ d.found = {} /\ d.missed = {} /\ d.jobs = NoJobs
    BY <2>2, OwnerCall
  <2>4. CallsStay(t, d)
    BY <2>1, <2>3, IndexGoStays DEF IndexInv
  <2> HIDE DEF d
  <2>5. /\ indexCall[t].step = "idle"
        /\ UNCHANGED <<project, revision, index, unindexed, upsets>>
    BY <1>1 DEF CancelBegin, IndexAt
  <2>6. StatementFine(t, d)'
    BY <2>3 DEF StatementFine
  <2> QED
    BY <2>1, <2>2, <2>3, <2>4, <2>5, <2>6, NoStatement, CallStep
       DEF IndexAt, index, upsets, IndexInv, IndexTypeInv
<1>2. CASE CancelFails(t)
  <2>1. /\ indexCall[t].step = "cancel" /\ CallsStay(t, IndexIdle)
        /\ UNCHANGED <<project, revision, index, unindexed>>
        /\ faults' \in Nat
    BY <1>2, IndexIdleCall, IndexGoStays
       DEF CancelFails, IndexAt, IndexInv, IndexTypeInv, Fault
  <2>2. StatementFine(t, IndexIdle)'
    BY IndexIdleCall DEF StatementFine
  <2> QED
    BY <2>1, <2>2, IndexIdleCall, NoStatement, CallStep
       DEF index, IndexInv, IndexTypeInv
<1>3. CASE ListProjects(t)
  <2> DEFINE d == Statement("list", NoProject, -1)
  <2>1. /\ d \in IndexCalls /\ d.step = "queue" /\ d.op = "list"
        /\ d.of = NoProject
        /\ d.found = {} /\ d.missed = {} /\ d.jobs = NoJobs
    BY StatementCall DEF Revisions, LastRevision
  <2>2. /\ indexCall[t].step = "idle" /\ CallsStay(t, d)
        /\ UNCHANGED <<project, revision, index, unindexed, upsets>>
    BY <1>3, <2>1, IndexGoStays DEF ListProjects, IndexAt, IndexInv
  <2> HIDE DEF d
  <2>3. StatementFine(t, d)'
    BY <2>1 DEF StatementFine
  <2> QED
    BY <2>1, <2>2, <2>3, NoStatement, CallStep
       DEF index, upsets, IndexInv, IndexTypeInv
<1>4. CASE TakeIndex(t)
  <2> PICK c, d : c = indexCall[t] /\ d = IndexStep(t, "execute")
    OBVIOUS
  <2>1. c \in IndexCalls /\ c.step = "queue" /\ StatementFine(t, c)
        /\ indexLock = NoThread /\ indexLock' = t
        /\ UNCHANGED <<project, revision, projectRows, jobRow, database,
                       unindexed, upsets>>
    BY <1>4 DEF TakeIndex, IndexAt, IndexInv, IndexTypeInv, StatementInv
  <2>2. /\ d \in IndexCalls /\ d.step = "execute" /\ d.op = c.op
        /\ d.of = c.of /\ d.value = c.value
        /\ d.found = c.found /\ d.missed = c.missed /\ d.jobs = c.jobs
    BY <2>1 DEF IndexStep, IndexCalls
  <2>3. CallsStay(t, d)
    BY <1>4, <2>2, IndexGoStays DEF TakeIndex, IndexInv
  <2>4. StatementFine(t, d)'
    BY <2>1, <2>2 DEF StatementFine, PublishedProjects
  <2> QED
    BY <2>1, <2>2, <2>3, <2>4, CallStep, StorageFaultsAssumption
       DEF upsets, IndexInv, IndexTypeInv
<1> QED BY <1>1, <1>2, <1>3, <1>4

\* Only one thread executes or rebuilds.
LEMMA OneStatement ==
  ASSUME IndexInv, NEW t \in Threads, indexCall[t].step \in {"execute", "rebuild"}
  PROVE  /\ indexLock = t
         /\ \A u \in Threads \ {t} :
              indexCall[u].step \notin {"execute", "rebuild"}
BY DEF IndexInv, StatementInv, StatementFine

\* A step of the holder of the lock leaves the disk alone.
LEMMA LockedStep ==
  ASSUME IndexInv, NEW t \in Threads, NEW c \in IndexCalls, CallsStay(t, c),
         indexCall[t].step \in {"execute", "rebuild"},
         c.step \in {"idle", "execute", "rebuild"},
         UNCHANGED <<project, revision>>,
         projectRows' \subseteq Projects, jobRow' \in [Projects -> Revisions],
         database' \in {"good", "broken"}, unindexed' \subseteq Projects,
         indexLock' = IF c.step = "idle" THEN NoThread ELSE t,
         faults' \in Nat,
         StatementFine(t, c)', RowsInv', SnapshotFine(c)'
  PROVE  IndexInv'
<1>1. \A u \in Threads \ {t} :
        /\ indexCall'[u] = indexCall[u]
        /\ indexCall[u].step \notin {"execute", "rebuild"}
  BY OneStatement DEF CallsStay
<1>2. IndexTypeInv'
  BY DEF IndexInv, IndexTypeInv, CallsStay
<1>3. DiskInv'
  BY DEF IndexInv, DiskInv, CallsStay
<1>4. StatementInv'
  <2>1. ASSUME NEW u \in Threads \ {t} PROVE StatementFine(u, indexCall[u])'
    <3>1. StatementFine(u, indexCall[u])
      BY DEF IndexInv, StatementInv
    <3> QED BY <3>1, <1>1 DEF StatementFine, PublishedProjects
  <2> QED BY <2>1 DEF StatementInv, CallsStay
<1>5. SnapshotInv'
  <2>1. ASSUME NEW u \in Threads \ {t} PROVE SnapshotFine(indexCall[u])'
    BY <1>1 DEF SnapshotFine
  <2> QED BY <2>1 DEF SnapshotInv, CallsStay
<1> QED BY <1>2, <1>3, <1>4, <1>5 DEF IndexInv

\* The statement of t is over: the others' rows are still pending.
LEMMA PendingOthers ==
  ASSUME NEW t \in Threads, NEW c, CallsStay(t, c), UNCHANGED revision,
         NEW p \in Projects
  PROVE  /\ ProjectPending(p) =>
              \/ indexCall[t].of = p /\ indexCall[t].op = "project"
              \/ ProjectPending(p)'
         /\ JobPending(p) =>
              \/ /\ indexCall[t].of = p /\ indexCall[t].op = "job"
                 /\ indexCall[t].value = revision[p]
              \/ JobPending(p)'
BY DEF CallsStay, ProjectPending, JobPending

\* The row of the statement is written.
LEMMA ExecuteStep ==
  ASSUME IndexInv, NEW t \in Threads, Execute(t)
  PROVE  IndexInv'
<1> PICK c : c = indexCall[t]
  OBVIOUS
<1>1. /\ c \in IndexCalls /\ c.step = "execute" /\ ~Rejected(c)
      /\ StatementFine(t, c)
  BY DEF Execute, IndexAt, IndexInv, IndexTypeInv, StatementInv
<1>2. /\ projectRows' = IF c.op = "project" THEN projectRows \cup {c.of}
                        ELSE projectRows
      /\ jobRow' = IF c.op = "job" THEN UpsertedJob(c) ELSE jobRow
      /\ unindexed' = IF c.op = "job" /\ jobRow'[c.of] = revision[c.of]
                      THEN unindexed \ {c.of} ELSE unindexed
      /\ indexLock' = NoThread /\ UNCHANGED <<project, revision, database, upsets>>
  BY DEF Execute
<1>3. CallsStay(t, IndexIdle)
  BY IndexIdleCall, IndexGoStays DEF Execute, IndexInv
<1>4. c.op \in {"project", "job"} => c.of \in PublishedProjects /\ c.of \in Projects
  BY <1>1 DEF StatementFine, PublishedProjects
<1>5. /\ jobRow' \in [Projects -> Revisions]
      /\ \A p \in Projects :
           /\ jobRow[p] <= revision[p] => jobRow'[p] <= revision[p]
           /\ jobRow[p] = revision[p] => jobRow'[p] = revision[p]
           /\ c.op = "job" /\ c.of = p /\ c.value = revision[p] =>
                /\ jobRow[p] <= revision[p] => jobRow'[p] = revision[p]
  <2>1. CASE c.op # "job"
    BY <2>1, <1>2 DEF IndexInv, IndexTypeInv
  <2>2. CASE c.op = "job"
    <3>1. jobRow' = [jobRow EXCEPT ![c.of] =
                       IF c.value > @ THEN c.value ELSE @]
      BY <2>2, <1>2 DEF UpsertedJob
    <3>2. c.of \in Projects /\ c.value \in Revisions /\ c.value <= revision[c.of]
      BY <2>2, <1>1, <1>4 DEF StatementFine, IndexCalls
    <3> QED
      BY <3>1, <3>2 DEF IndexInv, IndexTypeInv, Revisions, LastRevision
  <2> QED BY <2>1, <2>2
<1>6. RowsInv'
  <2>1. projectRows' \subseteq PublishedProjects'
    BY <1>2, <1>4 DEF IndexInv, RowsInv, Follows, PublishedProjects
  <2>2. \A p \in Projects : jobRow'[p] <= revision'[p]
    BY <1>2, <1>5 DEF IndexInv, RowsInv, Follows
  <2>3. ASSUME NEW p \in Projects, project'[p] = "published", p \notin unindexed'
        PROVE  /\ p \in projectRows' \/ ProjectPending(p)'
               /\ jobRow'[p] = revision'[p] \/ JobPending(p)'
    <3>1. CASE p \notin unindexed
      <4>1. /\ p \in projectRows \/ ProjectPending(p)
            /\ jobRow[p] = revision[p] \/ JobPending(p)
            /\ jobRow[p] <= revision[p]
        BY <3>1, <2>3, <1>2 DEF IndexInv, RowsInv, Follows, PublishedProjects
      <4> QED BY <4>1, <1>2, <1>3, <1>5, PendingOthers
    <3>2. CASE p \in unindexed
      BY <3>2, <2>3, <1>1, <1>2 DEF Rejected
    <3> QED BY <3>1, <3>2
  <2> QED BY <2>1, <2>2, <2>3 DEF RowsInv, Follows, PublishedProjects
<1>7. StatementFine(t, IndexIdle)' /\ SnapshotFine(IndexIdle)'
  BY IndexIdleCall DEF StatementFine, SnapshotFine
<1>8. projectRows' \subseteq Projects /\ unindexed' \subseteq Projects
  BY <1>2, <1>4 DEF IndexInv, IndexTypeInv
<1> QED
  BY <1>1, <1>2, <1>3, <1>5, <1>6, <1>7, <1>8, IndexIdleCall, LockedStep
     DEF IndexInv, IndexTypeInv, upsets

\* The failed statement stays pending, and the snapshot has all to scan.
LEMMA ExecuteFailsStep ==
  ASSUME IndexInv, NEW t \in Threads, ExecuteFails(t)
  PROVE  IndexInv'
<1> PICK c, d : /\ c = indexCall[t]
                /\ d = [c EXCEPT !.step = "rebuild", !.again = TRUE,
                                 !.todo = PublishedProjects]
  OBVIOUS
<1>1. /\ c \in IndexCalls /\ c.step = "execute" /\ StatementFine(t, c)
      /\ IndexGo(t, d)
      /\ UNCHANGED <<project, revision, index, unindexed>>
  BY DEF ExecuteFails, IndexAt, IndexInv, IndexTypeInv, StatementInv
<1>2. PublishedProjects \in SUBSET Projects
  BY DEF PublishedProjects
<1>3. /\ d \in IndexCalls /\ d.step = "rebuild" /\ d.op = c.op /\ d.of = c.of
      /\ d.value = c.value /\ d.todo = PublishedProjects
      /\ d.found = c.found /\ d.missed = c.missed /\ d.jobs = c.jobs
  BY <1>1, <1>2 DEF IndexCalls
<1>4. CallsStay(t, d)
  BY <1>1, <1>3, IndexGoStays DEF IndexInv
<1>5. faults' \in Nat
  BY DEF ExecuteFails, Fault, upsets, IndexInv, IndexTypeInv
<1>6. /\ indexLock = t
      /\ UNCHANGED <<project, revision, projectRows, jobRow, database,
                     indexLock, unindexed>>
  BY <1>1, OneStatement DEF index
<1>7. StatementFine(t, d)'
  BY <1>1, <1>3, <1>6 DEF StatementFine, PublishedProjects
<1>8. \A p \in Projects :
        (ProjectPending(p) => ProjectPending(p)')
          /\ (JobPending(p) => JobPending(p)')
  BY <1>3, <1>4, <1>6, PendingKept
<1>9. RowsInv'
  BY <1>6, <1>8 DEF IndexInv, RowsInv, Follows, PublishedProjects
<1>10. SnapshotFine(d)'
  <2>1. d.found = {} /\ d.jobs = NoJobs
    BY <1>1, <1>3 DEF StatementFine
  <2>2. \A p \in Projects : NoJobs[p] <= revision[p]
    BY DEF NoJobs, IndexInv, IndexTypeInv, Revisions, LastRevision
  <2> QED
    BY <2>1, <2>2, <1>3, <1>6 DEF SnapshotFine, Follows, PublishedProjects
<1> QED
  BY <1>1, <1>3, <1>4, <1>5, <1>6, <1>7, <1>9, <1>10, LockedStep
     DEF IndexInv, IndexTypeInv

\* The row is lost, and that is noted.
LEMMA UnavailableStep ==
  ASSUME IndexInv, NEW t \in Threads, Unavailable(t)
  PROVE  IndexInv'
<1> PICK c : c = indexCall[t]
  OBVIOUS
<1>1. /\ c \in IndexCalls /\ c.step \in {"execute", "rebuild"}
      /\ StatementFine(t, c)
  BY DEF Unavailable, IndexAt, IndexInv, IndexTypeInv, StatementInv
<1>2. /\ unindexed' = IF c.of = NoProject THEN unindexed
                      ELSE unindexed \cup {c.of}
      /\ indexLock' = NoThread
      /\ UNCHANGED <<project, revision, projectRows, jobRow, database>>
  BY DEF Unavailable
<1>3. CallsStay(t, IndexIdle)
  BY IndexIdleCall, IndexGoStays DEF Unavailable, IndexInv
<1>4. faults' \in Nat
  BY DEF Unavailable, Fault, upsets, IndexInv, IndexTypeInv
<1>5. unindexed' \subseteq Projects /\ unindexed \subseteq unindexed'
  BY <1>1, <1>2 DEF IndexCalls, IndexInv, IndexTypeInv
<1>6. RowsInv'
  <2>1. ASSUME NEW p \in Projects, project[p] = "published", p \notin unindexed'
        PROVE  /\ p \in projectRows \/ ProjectPending(p)'
               /\ jobRow[p] = revision[p] \/ JobPending(p)'
    <3>1. c.of # p
      BY <2>1, <1>2, ProjectIndexAssumption
    <3>2. /\ p \in projectRows \/ ProjectPending(p)
          /\ jobRow[p] = revision[p] \/ JobPending(p)
      BY <2>1, <1>5 DEF IndexInv, RowsInv, Follows, PublishedProjects
    <3> QED BY <3>1, <3>2, <1>2, <1>3, PendingOthers
  <2> QED
    BY <2>1, <1>2 DEF IndexInv, RowsInv, Follows, PublishedProjects
<1>7. StatementFine(t, IndexIdle)' /\ SnapshotFine(IndexIdle)'
  BY IndexIdleCall DEF StatementFine, SnapshotFine
<1> QED
  BY <1>1, <1>2, <1>3, <1>4, <1>5, <1>6, <1>7, IndexIdleCall, LockedStep
     DEF IndexInv, IndexTypeInv

\* d is c with one project more scanned: its job is read as it is, or missed.
HasScanned(c, p, d) ==
  /\ p \in c.todo /\ d \in IndexCalls
  /\ c.step = "rebuild" /\ d.step = "rebuild"
  /\ d.op = c.op /\ d.of = c.of /\ d.value = c.value
  /\ d.todo = c.todo \ {p}
  /\ d.found \subseteq c.found \cup {p} /\ c.found \subseteq d.found
  /\ c.missed \subseteq d.missed
  /\ \/ p \in d.found /\ d.jobs = [c.jobs EXCEPT ![p] = revision[p]]
     \/ p \in d.missed /\ d.jobs = c.jobs

LEMMA ScanStep ==
  ASSUME IndexInv, NEW t \in Threads, NEW p, NEW d,
         HasScanned(indexCall[t], p, d), IndexGo(t, d),
         UNCHANGED <<project, revision, index, unindexed>>,
         faults' \in Nat
  PROVE  IndexInv'
<1> PICK c : c = indexCall[t]
  OBVIOUS
<1>1. /\ p \in c.todo /\ d \in IndexCalls
      /\ c.step = "rebuild" /\ d.step = "rebuild"
      /\ d.op = c.op /\ d.of = c.of /\ d.value = c.value
      /\ d.todo = c.todo \ {p}
      /\ d.found \subseteq c.found \cup {p} /\ c.found \subseteq d.found
      /\ c.missed \subseteq d.missed
      /\ \/ p \in d.found /\ d.jobs = [c.jobs EXCEPT ![p] = revision[p]]
         \/ p \in d.missed /\ d.jobs = c.jobs
  BY DEF HasScanned
<1>2. /\ c \in IndexCalls /\ StatementFine(t, c) /\ SnapshotFine(c)
      /\ c.todo \subseteq PublishedProjects
      /\ Follows(c.found, c.jobs, c.todo \cup c.missed)
  BY <1>1 DEF IndexInv, IndexTypeInv, StatementInv, SnapshotInv, SnapshotFine
<1>3. CallsStay(t, d)
  BY <1>1, IndexGoStays DEF IndexInv
<1>4. /\ \A q \in Projects \ {p} : d.jobs[q] = c.jobs[q]
      /\ \/ p \in d.found /\ d.jobs[p] = revision[p]
         \/ p \in d.missed /\ d.jobs[p] = c.jobs[p]
  BY <1>1, <1>2 DEF IndexCalls, PublishedProjects
<1>5. /\ indexLock = t
      /\ UNCHANGED <<project, revision, projectRows, jobRow, database,
                     indexLock, unindexed>>
  BY <1>1, OneStatement DEF index
<1>6. StatementFine(t, d)'
  BY <1>1, <1>2, <1>5 DEF StatementFine, PublishedProjects
<1>7. \A q \in Projects :
        (ProjectPending(q) => ProjectPending(q)')
          /\ (JobPending(q) => JobPending(q)')
  BY <1>1, <1>3, <1>5, PendingKept
<1>8. RowsInv'
  BY <1>5, <1>7 DEF IndexInv, RowsInv, Follows, PublishedProjects
<1>9. SnapshotFine(d)'
  <2>1. d.found \subseteq PublishedProjects /\ d.todo \subseteq PublishedProjects
    BY <1>1, <1>2 DEF Follows
  <2>2. \A q \in Projects : d.jobs[q] <= revision[q]
    <3>1. ASSUME NEW q \in Projects PROVE revision[q] <= revision[q]
      BY DEF IndexInv, IndexTypeInv, Revisions, LastRevision
    <3> QED BY <1>1, <1>4, <1>2, <3>1 DEF Follows
  <2>3. ASSUME NEW q \in PublishedProjects, q \notin d.todo \cup d.missed
        PROVE  /\ q \in d.found \/ ProjectPending(q)
               /\ d.jobs[q] = revision[q] \/ JobPending(q)
    BY <2>3, <1>1, <1>4, <1>2 DEF Follows, PublishedProjects
  <2> QED
    BY <2>1, <2>2, <2>3, <1>1, <1>5, <1>7 DEF SnapshotFine, Follows, PublishedProjects
<1> QED
  BY <1>1, <1>2, <1>3, <1>5, <1>6, <1>8, <1>9, LockedStep DEF IndexInv, IndexTypeInv

LEMMA RebuildScanStep ==
  ASSUME IndexInv, NEW t \in Threads, RebuildScan(t)
  PROVE  IndexInv'
<1> PICK c : c = indexCall[t]
  OBVIOUS
<1>1. /\ c \in IndexCalls /\ c.step = "rebuild"
      /\ UNCHANGED <<project, revision, index, unindexed>>
      /\ c.todo \subseteq Projects
  BY DEF RebuildScan, IndexAt, IndexInv, IndexTypeInv, IndexCalls
<1>2. PICK p \in c.todo :
        \/ /\ IndexGo(t, [c EXCEPT !.todo = @ \ {p}, !.found = @ \cup {p},
                                   !.jobs[p] = revision[p]])
           /\ UNCHANGED upsets
        \/ /\ IndexGo(t, [c EXCEPT !.todo = @ \ {p}, !.found = @ \cup {p},
                                   !.missed = @ \cup {p}])
           /\ UNCHANGED upsets
        \/ /\ Fault(MaxIndexUpsets)
           /\ IndexGo(t, [c EXCEPT !.todo = @ \ {p}, !.missed = @ \cup {p}])
  BY DEF RebuildScan
<1>3. p \in Projects /\ revision[p] \in Revisions
  BY <1>1 DEF IndexInv, IndexTypeInv
<1>4. faults' \in Nat
  BY <1>2 DEF Fault, upsets, IndexInv, IndexTypeInv
<1>5. CASE IndexGo(t, [c EXCEPT !.todo = @ \ {p}, !.found = @ \cup {p},
                                !.jobs[p] = revision[p]])
  <2> PICK d : d = [c EXCEPT !.todo = @ \ {p}, !.found = @ \cup {p},
                             !.jobs[p] = revision[p]]
    OBVIOUS
  <2>1. c.jobs \in [Projects -> Revisions]
    BY <1>1 DEF IndexCalls
  <2>2. d.jobs = [c.jobs EXCEPT ![p] = revision[p]]
    BY <1>1 DEF IndexCalls
  <2>3. /\ d \in IndexCalls /\ d.step = c.step /\ d.op = c.op /\ d.of = c.of
        /\ d.value = c.value /\ d.todo = c.todo \ {p}
        /\ d.found = c.found \cup {p} /\ d.missed = c.missed
    BY <1>1, <1>3, <2>1, <2>2 DEF IndexCalls
  <2>4. IndexGo(t, d)
    BY <1>5
  <2>5. HasScanned(c, p, d)
    BY <1>1, <2>2, <2>3 DEF HasScanned
  <2> QED BY <1>1, <1>4, <2>4, <2>5, ScanStep
<1>6. CASE IndexGo(t, [c EXCEPT !.todo = @ \ {p}, !.found = @ \cup {p},
                                !.missed = @ \cup {p}])
  <2> PICK d : d = [c EXCEPT !.todo = @ \ {p}, !.found = @ \cup {p},
                             !.missed = @ \cup {p}]
    OBVIOUS
  <2>1. /\ d \in IndexCalls /\ d.step = c.step /\ d.op = c.op /\ d.of = c.of
        /\ d.value = c.value /\ d.todo = c.todo \ {p} /\ d.jobs = c.jobs
        /\ d.found = c.found \cup {p} /\ d.missed = c.missed \cup {p}
    BY <1>1, <1>3 DEF IndexCalls
  <2>2. IndexGo(t, d)
    BY <1>6
  <2>3. HasScanned(c, p, d)
    BY <1>1, <2>1 DEF HasScanned
  <2> QED BY <1>1, <1>4, <2>2, <2>3, ScanStep
<1>7. CASE IndexGo(t, [c EXCEPT !.todo = @ \ {p}, !.missed = @ \cup {p}])
  <2> PICK d : d = [c EXCEPT !.todo = @ \ {p}, !.missed = @ \cup {p}]
    OBVIOUS
  <2>1. /\ d \in IndexCalls /\ d.step = c.step /\ d.op = c.op /\ d.of = c.of
        /\ d.value = c.value /\ d.todo = c.todo \ {p} /\ d.jobs = c.jobs
        /\ d.found = c.found /\ d.missed = c.missed \cup {p}
    BY <1>1, <1>3 DEF IndexCalls
  <2>2. IndexGo(t, d)
    BY <1>7
  <2>3. HasScanned(c, p, d)
    BY <1>1, <2>1 DEF HasScanned
  <2> QED BY <1>1, <1>4, <2>2, <2>3, ScanStep
<1> QED BY <1>2, <1>5, <1>6, <1>7

\* The snapshot becomes the index: what follows the disk is now its rows.
LEMMA RebuildPublishStep ==
  ASSUME IndexInv, NEW t \in Threads, RebuildPublish(t)
  PROVE  IndexInv'
<1> PICK c, d : /\ c = indexCall[t]
                /\ d = [c EXCEPT !.step = "execute", !.found = {},
                                 !.missed = {}, !.jobs = IndexIdle.jobs]
  OBVIOUS
<1>1. /\ c \in IndexCalls /\ c.step = "rebuild" /\ StatementFine(t, c)
      /\ c.todo = {} /\ Follows(c.found, c.jobs, c.todo \cup c.missed)
      /\ IndexGo(t, d)
  BY DEF RebuildPublish, IndexAt, IndexInv, IndexTypeInv, StatementInv,
         SnapshotInv, SnapshotFine
<1>2. /\ projectRows' = c.found /\ jobRow' = c.jobs /\ database' = "good"
      /\ unindexed' = (unindexed \ c.found) \cup c.missed
      /\ UNCHANGED <<project, revision, indexLock, upsets>>
  BY DEF RebuildPublish
<1>3. NoJobs \in [Projects -> Revisions] /\ IndexIdle.jobs = NoJobs
  BY IndexIdleCall DEF NoJobs, Revisions, LastRevision
<1>4. /\ d \in IndexCalls /\ d.step = "execute" /\ d.op = c.op /\ d.of = c.of
      /\ d.value = c.value /\ d.found = {} /\ d.missed = {} /\ d.jobs = NoJobs
  BY <1>1, <1>3 DEF IndexCalls
<1>5. CallsStay(t, d)
  BY <1>1, <1>4, IndexGoStays DEF IndexInv
<1>6. StatementFine(t, d)'
  BY <1>1, <1>2, <1>4 DEF StatementFine, PublishedProjects
<1>7. \A q \in Projects :
        (ProjectPending(q) => ProjectPending(q)')
          /\ (JobPending(q) => JobPending(q)')
  BY <1>2, <1>4, <1>5, PendingKept
<1>8. RowsInv'
  <2>1. ASSUME NEW q \in PublishedProjects, q \notin unindexed'
        PROVE  /\ q \in c.found \/ ProjectPending(q)'
               /\ c.jobs[q] = revision[q] \/ JobPending(q)'
    BY <2>1, <1>1, <1>2, <1>7 DEF Follows, PublishedProjects
  <2> QED BY <2>1, <1>1, <1>2 DEF RowsInv, Follows, PublishedProjects
<1>9. SnapshotFine(d)'
  BY <1>4 DEF SnapshotFine
<1>10. /\ c.found \subseteq Projects /\ c.missed \subseteq Projects
       /\ c.jobs \in [Projects -> Revisions]
  BY <1>1 DEF IndexCalls
<1>11. indexLock' = t
  BY <1>1, <1>2, OneStatement
<1> QED
  BY <1>1, <1>2, <1>4, <1>5, <1>6, <1>8, <1>9, <1>10, <1>11, LockedStep
     DEF IndexInv, IndexTypeInv, upsets

LEMMA DamageStep == IndexInv /\ Damage => IndexInv'
<1> SUFFICES ASSUME IndexInv, Damage PROVE IndexInv'
  OBVIOUS
<1>1. /\ UNCHANGED <<project, revision, projectRows, jobRow, indexLock,
                     indexCall, unindexed>>
      /\ database' = "broken"
  BY DEF Damage
<1>2. IndexTypeInv'
  BY <1>1 DEF IndexInv, IndexTypeInv, Damage, Fault
<1>3. DiskInv' /\ StatementInv'
  BY <1>1 DEF IndexInv, DiskInv, StatementInv, StatementFine, PublishedProjects
<1>4. RowsInv' /\ SnapshotInv'
  BY <1>1
     DEF IndexInv, RowsInv, SnapshotInv, SnapshotFine, Follows, ProjectPending,
         JobPending, PublishedProjects
<1> QED BY <1>2, <1>3, <1>4 DEF IndexInv

\* A start has read the disk anew before it serves.
LEMMA IndexRestartStep == IndexInv /\ IndexRestart => IndexInv'
<1> SUFFICES ASSUME IndexInv, IndexRestart PROVE IndexInv'
  OBVIOUS
<1>1. /\ indexCall' \in [Threads -> IndexCalls]
      /\ \A t \in Threads : indexCall'[t] = IndexIdle
  BY IndexIdleCall DEF IndexRestart
<1>2. /\ projectRows' = PublishedProjects /\ jobRow' = revision
      /\ database' = "good" /\ indexLock' = NoThread /\ unindexed' = {}
      /\ UNCHANGED <<project, revision>>
  BY DEF IndexRestart
<1>3. IndexTypeInv'
  BY <1>1, <1>2
     DEF IndexInv, IndexTypeInv, IndexRestart, Crash, Fault,
         PublishedProjects
<1>4. DiskInv' /\ StatementInv' /\ SnapshotInv'
  BY <1>1, <1>2, IndexIdleCall
     DEF IndexInv, DiskInv, StatementInv, StatementFine, SnapshotInv, SnapshotFine
<1>5. RowsInv'
  <2>1. \A p \in Projects : revision[p] <= revision[p]
    BY DEF IndexInv, IndexTypeInv, Revisions, LastRevision
  <2> QED BY <2>1, <1>2 DEF RowsInv, Follows, PublishedProjects
<1> QED BY <1>3, <1>4, <1>5 DEF IndexInv

\* Steps that leave the index alone, whatever they count.
LEMMA IndexKept ==
  ASSUME IndexInv, UNCHANGED indexStore, faults' \in Nat
  PROVE  IndexInv'
<1>1. UNCHANGED <<project, revision, projectRows, jobRow, database, indexLock,
                  indexCall, unindexed>>
  BY DEF indexStore
<1>2. IndexTypeInv' /\ DiskInv'
  BY <1>1 DEF IndexInv, IndexTypeInv, DiskInv
<1>3. StatementInv'
  BY <1>1 DEF IndexInv, StatementInv, StatementFine, PublishedProjects
<1>4. RowsInv' /\ SnapshotInv'
  BY <1>1
     DEF IndexInv, RowsInv, SnapshotInv, SnapshotFine, Follows,
         ProjectPending, JobPending, PublishedProjects
<1> QED BY <1>2, <1>3, <1>4 DEF IndexInv

LEMMA IndexStepInv == IndexInv /\ [IndexNext]_indexVars => IndexInv'
<1> SUFFICES ASSUME IndexInv, [IndexNext]_indexVars PROVE IndexInv'
  OBVIOUS
<1>1. CASE UNCHANGED indexVars
  BY <1>1, IndexKept DEF indexVars, upsets, IndexInv, IndexTypeInv
<1>2. ASSUME NEW t \in Threads, CallIndex(t)
      PROVE  IndexInv'
  BY <1>2, ImportBeginStep, ImportRenameStep, ImportFailsStep, JobSteps,
     CallSteps, ExecuteStep, ExecuteFailsStep, UnavailableStep,
     RebuildScanStep, RebuildPublishStep
     DEF CallIndex
<1> QED BY <1>1, <1>2, DamageStep, IndexRestartStep DEF IndexNext

LEMMA IndexInvFollows == IndexInv => IndexFollowsDisk /\ IndexTypeOK
<1> SUFFICES ASSUME IndexInv PROVE IndexFollowsDisk /\ IndexTypeOK
  OBVIOUS
<1>1. \A p \in Projects :
        /\ ProjectPending(p) => RowPending(p, "project")
        /\ JobPending(p) => RowPending(p, "job")
  BY DEF ProjectPending, JobPending, RowPending
<1>2. IndexFollowsDisk
  BY <1>1 DEF IndexInv, RowsInv, Follows, IndexFollowsDisk, PublishedProjects
<1>3. IndexTypeOK
  BY DEF IndexInv, IndexTypeInv, IndexTypeOK, Revisions
<1> QED BY <1>2, <1>3

\* The index follows the disk, whatever order rebuilds and rows come in:
\* IndexFollowsDisk holds for any projects, threads and number of upsets.
THEOREM IndexFollows == IndexSpec => [](IndexFollowsDisk /\ IndexTypeOK)
<1>1. IndexSpec => []IndexInv
  BY IndexInitInv, IndexStepInv, PTL DEF IndexSpec
<1> QED BY <1>1, IndexInvFollows, PTL

-----------------------------------------------------------------------------
(* The stores side by side *)

StorageInv ==
  FoldersInv /\ ContentInv /\ LibraryInv /\ IndexInv /\ ProjectsInv

\* Steps that leave the jobs alone, whatever they count.
LEMMA JobsKept ==
  ASSUME FoldersInv, ContentInv, UNCHANGED jobStore, faults' \in Nat
  PROVE  FoldersInv' /\ ContentInv'
<1>1. UNCHANGED <<folder, record, stateTemp, raw, processed, jobLock, slotLock,
                  jobCall, cutShort, leftovers>>
  BY DEF jobStore, jobFiles, jobHistory
<1>2. TypeInv' /\ HolderInv'
  BY <1>1 DEF FoldersInv, TypeInv, HolderInv
<1>3. LoadInv'
  BY <1>1 DEF FoldersInv, LoadInv, Temporaries
<1>4. OwnerInv'
  BY <1>1 DEF FoldersInv, OwnerInv, HeldState, HeldFolder, HeldRaw,
              HeldProcessed
<1>5. ContentInv'
  BY <1>1
     DEF ContentInv, FilesInv, OnePublisher, QueuedInv, Unrecorded,
         LeftByRetry, Fine, SlotFine, SnapFine, PublishFine, Backed, Published
<1> QED BY <1>2, <1>3, <1>4, <1>5 DEF FoldersInv

LEMMA StorageInitInv == StorageInit => StorageInv
<1> SUFFICES ASSUME StorageInit PROVE StorageInv
  OBVIOUS
<1>1. FoldersInv /\ ContentInv /\ LibraryInv /\ IndexInv /\ ProjectsInv
  BY JobsInitInv, JobsInitContent, LibraryInit, IndexInitInv, ProjectsInitInv
     DEF StorageInit
<1> QED BY <1>1 DEF StorageInv

storageVars == <<jobVars, refVars, indexVars, projectVars, part>>

LEMMA StorageStepInv == StorageInv /\ [StorageNext]_storageVars => StorageInv'
<1> SUFFICES ASSUME StorageInv, [StorageNext]_storageVars PROVE StorageInv'
  OBVIOUS
<1>1. /\ TypeInv' => faults' \in Nat
      /\ LibraryTypeInv' => faults' \in Nat
      /\ IndexTypeInv' => faults' \in Nat
      /\ ProjectsTypeInv' => faults' \in Nat
  BY DEF TypeInv, LibraryTypeInv, IndexTypeInv, ProjectsTypeInv
<1>2. CASE /\ [JobsNext]_jobVars
           /\ UNCHANGED <<referenceStore, indexStore, projectStore>>
  <2>1. FoldersInv' /\ ContentInv'
    BY <1>2, JobsStepInv, JobsStepContent DEF StorageInv
  <2>2. faults' \in Nat
    BY <2>1, <1>1 DEF FoldersInv
  <2> QED
    BY <2>1, <2>2, <1>2, LibraryKept, IndexKept, ProjectsKept
       DEF StorageInv
<1>3. CASE /\ [ReferencesNext]_refVars
           /\ UNCHANGED <<jobStore, indexStore, projectStore>>
  <2>1. LibraryInv'
    BY <1>3, LibraryStep DEF StorageInv
  <2>2. faults' \in Nat
    BY <2>1, <1>1 DEF LibraryInv
  <2> QED
    BY <2>1, <2>2, <1>3, JobsKept, IndexKept, ProjectsKept DEF StorageInv
<1>4. CASE /\ [IndexNext]_indexVars
           /\ UNCHANGED <<jobStore, referenceStore, projectStore>>
  <2>1. IndexInv'
    BY <1>4, IndexStepInv DEF StorageInv
  <2>2. faults' \in Nat
    BY <2>1, <1>1 DEF IndexInv
  <2> QED
    BY <2>1, <2>2, <1>4, JobsKept, LibraryKept, ProjectsKept DEF StorageInv
<1>5. CASE /\ [ProjectsNext]_projectVars
           /\ UNCHANGED <<jobStore, referenceStore, indexStore>>
  <2>1. ProjectsInv'
    BY <1>5, ProjectsStepInv DEF StorageInv
  <2>2. faults' \in Nat
    BY <2>1, <1>1 DEF ProjectsInv
  <2> QED
    BY <2>1, <2>2, <1>5, JobsKept, LibraryKept, IndexKept DEF StorageInv
<1>6. CASE UNCHANGED storageVars
  <2>1. /\ UNCHANGED jobVars
        /\ UNCHANGED <<referenceStore, indexStore, projectStore>>
        /\ faults' \in Nat
    BY <1>6
       DEF storageVars, jobVars, refVars, indexVars, projectVars, upsets,
           StorageInv, FoldersInv, TypeInv
  <2>2. FoldersInv' /\ ContentInv'
    BY <2>1, JobsStepInv, JobsStepContent DEF StorageInv
  <2> QED
    BY <2>1, <2>2, LibraryKept, IndexKept, ProjectsKept
       DEF StorageInv
<1> QED BY <1>2, <1>3, <1>4, <1>5, <1>6 DEF StorageNext

LEMMA StorageInvariant == StorageSpec => []StorageInv
<1>1. StorageInv /\ [StorageNext]_<<jobVars, refVars, indexVars, projectVars, part>>
        => StorageInv'
  BY StorageStepInv DEF storageVars
<1> QED BY StorageInitInv, <1>1, PTL DEF StorageSpec

\* The types of every store, for any threads and files and any bounds.
THEOREM TypesOfStorage == StorageSpec => []StorageTypeOK
<1>1. StorageInv => StorageTypeOK
  BY FoldersTyped, LibraryReadable, IndexInvFollows, ProjectsInvConsistent
     DEF StorageInv, StorageTypeOK
<1> QED BY <1>1, StorageInvariant, PTL

\* What the stores promise holds when each runs beside the others: records
\* match their files, temporaries have owners or were left by a failed removal
\* or an end of the process, loads fail beside writers only, references stay readable, the index follows the disk, and projects are
\* what was imported.
THEOREM StorageIsConsistent ==
  StorageSpec =>
    [](/\ RecordMatchesFiles /\ TemporariesOwned /\ LoadFailsOnlyBesideWriter
       /\ ReferencesReadable /\ IndexFollowsDisk /\ ProjectsConsistent)
<1>1. StorageInv =>
        /\ RecordMatchesFiles /\ TemporariesOwned /\ LoadFailsOnlyBesideWriter
        /\ ReferencesReadable /\ IndexFollowsDisk /\ ProjectsConsistent
  BY FoldersOwned, FoldersLoadable, ContentMatches, LibraryReadable,
     IndexInvFollows, ProjectsInvConsistent DEF StorageInv
<1> QED BY <1>1, StorageInvariant, PTL

\* A commit replaces the record whose revision it compared in the composition
\* too: no step of another store touches a record.
THEOREM CommitsCompareThere == StorageSpec => RevisionsByOne
<1>1. StorageInv /\ [StorageNext]_<<jobVars, refVars, indexVars, projectVars, part>> =>
        [\A j \in Jobs :
           Published(j) /\ record'[j] # record[j] =>
             record'[j].revision = record[j].revision + 1]_jobVars
  <2> SUFFICES ASSUME StorageInv, [StorageNext]_storageVars, NEW j \in Jobs,
                      Published(j), record'[j] # record[j]
               PROVE  record'[j].revision = record[j].revision + 1
    BY DEF storageVars
  <2>1. CASE JobsNext
    BY <2>1, CommitCompared DEF StorageInv
  <2>2. CASE UNCHANGED jobStore \/ UNCHANGED storageVars
    BY <2>2 DEF storageVars, jobVars, jobStore, jobFiles
  <2> QED BY <2>1, <2>2 DEF StorageNext
<1> QED BY <1>1, StorageInvariant, PTL DEF StorageSpec, RevisionsByOne
=============================================================================
