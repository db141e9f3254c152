-------------------------- MODULE JobFoldersProofs --------------------------
(***************************************************************************)
(* The folders of jobs, for any jobs, threads and number of upsets.        *)
(* FoldersInv: HolderInv says what the holder of the write lock knows of   *)
(* the record, LoadInv what a load that nobody disturbed has seen,         *)
(* OwnerInv to whom a temporary belongs.  ContentInv rests on it and says  *)
(* that records, and the snapshots that calls hold, match the files.       *)
(***************************************************************************)
EXTENDS JobFolders, TLAPS

Ops == {"idle", "look", "open", "create", "retry", "work"}

Steps ==
  {"idle", "away", "layout", "open", "read", "loaded", "unreadable", "commit",
   "replace", "close", "committed", "uncommitted", "publish", "unpublished",
   "scan", "make", "rename", "created"}

Call ==
  [op : Ops, step : Steps, job : Jobs \cup {NoJob},
   parent : Jobs \cup {NoJob}, seen : Records, next : Records,
   noted : SUBSET {"state", "raw", "processed"}, todo : SUBSET Jobs,
   beside : BOOLEAN]

TypeInv ==
  /\ folder \in [Jobs -> {"unused", "absent", "temp", "published"}]
  /\ record \in [Jobs -> Records]
  /\ stateTemp \subseteq Jobs
  /\ raw \in [Jobs -> Directories] /\ processed \in [Jobs -> Directories]
  /\ jobLock \in Threads \cup {NoThread}
  /\ slotLock \in Threads \cup {NoThread}
  /\ jobCall \in [Threads -> Call]
  /\ cutShort \subseteq Jobs
  /\ leftovers \subseteq TemporaryFiles
  /\ faults \in Nat

\* A call is about a job, and the one that holds the lock at a commit has
\* compared the revision that the record still has.
HolderInv ==
  \A t \in Threads :
    LET c == jobCall[t] IN
    /\ c.step \notin {"idle", "away", "scan"} => c.job \in Jobs
    /\ c.step \in {"replace", "close", "rename"} => jobLock = t
    /\ c.step \in {"commit", "replace"} =>
         c.next.revision = c.seen.revision + 1
    /\ c.step = "replace" => record[c.job].revision = c.seen.revision
    /\ c.step = "rename" => folder[c.job] = "temp"

\* What the walk of a load has noted is still there, and no load has failed,
\* but beside a step that wrote in the folder.
LoadInv ==
  \A t \in Threads :
    LET c == jobCall[t] IN
    /\ c.step = "open" => c.beside \/ c.noted \subseteq Temporaries(c.job)
    /\ c.step = "unreadable" => c.beside

\* Temporaries that are not leftovers.
HeldState(j) == j \in stateTemp /\ <<"state", j>> \notin leftovers

HeldFolder(j) == folder[j] = "temp" /\ <<"folder", j>> \notin leftovers

HeldRaw(j) == raw[j] = "temp" /\ <<"raw", j>> \notin leftovers

HeldProcessed(j) ==
  processed[j] = "temp" /\ <<"processed", j>> \notin leftovers

\* The calls that hold them.
HoldsState(c, j) == c.step = "replace" /\ c.job = j

HoldsFolder(c, j) == c.step = "rename" /\ c.job = j

HoldsRaw(c, j) == c.step = "publish" /\ c.job = j /\ ~c.seen.raw

HoldsProcessed(c, j) == c.step = "publish" /\ c.job = j /\ c.seen.raw

\* TemporariesOwned, with the directory that a thread publishes.
OwnerInv ==
  \A j \in Jobs :
    /\ HeldState(j) => \E t \in Threads : HoldsState(jobCall[t], j)
    /\ HeldFolder(j) => \E t \in Threads : HoldsFolder(jobCall[t], j)
    /\ HeldRaw(j) => \E t \in Threads : HoldsRaw(jobCall[t], j)
    /\ HeldProcessed(j) => \E t \in Threads : HoldsProcessed(jobCall[t], j)

FoldersInv == TypeInv /\ HolderInv /\ LoadInv /\ OwnerInv

USE DEF jobHistory

-----------------------------------------------------------------------------
\* The record of a new job, and the call of a thread that has none.
LEMMA NewRecords ==
  ASSUME NEW p \in Jobs \cup {NoJob}
  PROVE  NewRecord(p) \in Records
BY DEF NewRecord, Records, Nonterminal

LEMMA IdleCall ==
  /\ JobIdle \in Call
  /\ JobIdle.step = "idle" /\ JobIdle.op = "idle" /\ JobIdle.noted = {}
<1> DEFINE r == NewRecord(NoJob)
<1>1. r \in Records
  BY NewRecords
<1>2. JobIdle = [op |-> "idle", step |-> "idle", job |-> NoJob,
                 parent |-> NoJob, seen |-> r, next |-> r, noted |-> {},
                 todo |-> {}, beside |-> FALSE]
  BY DEF JobIdle
<1> HIDE DEF r
<1> QED BY <1>1, <1>2 DEF Call, Ops, Steps

\* A call that another thread has left as it was, but for its beside.
Kept(c, d) ==
  /\ d.op = c.op /\ d.step = c.step /\ d.job = c.job /\ d.parent = c.parent
  /\ d.seen = c.seen /\ d.next = c.next /\ d.noted = c.noted
  /\ d.todo = c.todo
  /\ c.beside => d.beside

\* A step of t that leaves its call c.
OthersStay(t, c) ==
  /\ jobCall' \in [Threads -> Call] /\ jobCall'[t] = c
  /\ \A u \in Threads \ {t} : Kept(jobCall[u], jobCall'[u])

LEMMA GoStays ==
  ASSUME TypeInv, NEW t \in Threads, NEW c \in Call, JobGo(t, c)
  PROVE  OthersStay(t, c)
BY DEF TypeInv, JobGo, OthersStay, Kept

\* A step that writes is noticed by the loads of the same job.
LEMMA WroteStays ==
  ASSUME TypeInv, NEW t \in Threads, NEW c \in Call, Wrote(t, c)
  PROVE  /\ OthersStay(t, c)
         /\ \A u \in Threads \ {t} :
              jobCall[u].step = "open" /\ jobCall[u].job = jobCall[t].job =>
                jobCall'[u].beside
<1>1. ASSUME NEW u \in Threads \ {t}, NEW b \in BOOLEAN
      PROVE  LET d == [jobCall[u] EXCEPT !.beside = b] IN
             /\ d \in Call
             /\ d.op = jobCall[u].op /\ d.step = jobCall[u].step
             /\ d.job = jobCall[u].job /\ d.parent = jobCall[u].parent
             /\ d.seen = jobCall[u].seen /\ d.next = jobCall[u].next
             /\ d.noted = jobCall[u].noted /\ d.todo = jobCall[u].todo
             /\ d.beside = b
  BY DEF TypeInv, Call
<1>2. ASSUME NEW u \in Threads \ {t}
      PROVE  Kept(jobCall[u], jobCall'[u])
  <2>1. CASE jobCall'[u] = jobCall[u]
    BY <2>1 DEF Kept
  <2>2. CASE jobCall'[u] = [jobCall[u] EXCEPT !.beside = TRUE]
    BY <2>2, <1>1 DEF Kept
  <2> QED BY <2>1, <2>2 DEF Wrote
<1>3. jobCall' \in [Threads -> Call] /\ jobCall'[t] = c
  BY <1>1 DEF Wrote, TypeInv
<1>4. \A u \in Threads \ {t} :
        jobCall[u].step = "open" /\ jobCall[u].job = jobCall[t].job =>
          jobCall'[u].beside
  BY <1>1 DEF Wrote, Loading, LoadSteps
<1> QED BY <1>2, <1>3, <1>4 DEF OthersStay

\* JobStep: only the place changes.
LEMMA StepTo ==
  ASSUME TypeInv, NEW t \in Threads, NEW s \in Steps
  PROVE  LET c == jobCall[t]
             d == JobStep(t, s)
         IN
         /\ c \in Call /\ d \in Call
         /\ d.op = c.op /\ d.step = s /\ d.job = c.job /\ d.parent = c.parent
         /\ d.seen = c.seen /\ d.next = c.next /\ d.noted = c.noted
         /\ d.beside = c.beside /\ d.todo = c.todo
<1>1. jobCall[t] \in Call
  BY DEF TypeInv
<1> QED BY <1>1 DEF JobStep, Call

\* The revision of the next record is one above that of the snapshot.
LEMMA NextRecord ==
  ASSUME NEW r \in Records, NEW v \in Nat
  PROVE  LET n == [r EXCEPT !.revision = v + 1] IN
         /\ n \in Records /\ n.revision = v + 1
         /\ n.status = r.status /\ n.raw = r.raw /\ n.final = r.final
         /\ n.parent = r.parent
BY DEF Records

LEMMA CommitCall ==
  ASSUME TypeInv, NEW t \in Threads, NEW r \in Records
  PROVE  LET c == jobCall[t]
             d == Commits(c, r)
         IN
         /\ c \in Call /\ d \in Call
         /\ d.op = c.op /\ d.step = "commit" /\ d.job = c.job
         /\ d.parent = c.parent /\ d.seen = c.seen /\ d.todo = c.todo
         /\ d.next \in Records /\ d.next.revision = c.seen.revision + 1
         /\ d.next.status = r.status /\ d.next.raw = r.raw
         /\ d.next.final = r.final /\ d.next.parent = r.parent
<1> DEFINE c == jobCall[t]
           n == [r EXCEPT !.revision = c.seen.revision + 1]
<1>1. c \in Call /\ c.seen \in Records /\ c.seen.revision \in Nat
  BY DEF TypeInv, Call, Records
<1>2. /\ n \in Records /\ n.revision = c.seen.revision + 1
      /\ n.status = r.status /\ n.raw = r.raw /\ n.final = r.final
      /\ n.parent = r.parent
  BY <1>1, NextRecord
<1>3. Commits(c, r) = [c EXCEPT !.step = "commit", !.next = n]
  BY DEF Commits
<1> HIDE DEF n, c
<1>4. LET d == [c EXCEPT !.step = "commit", !.next = n] IN
      /\ d \in Call /\ d.op = c.op /\ d.step = "commit" /\ d.job = c.job
      /\ d.parent = c.parent /\ d.seen = c.seen /\ d.todo = c.todo
      /\ d.next = n
  BY <1>1, <1>2 DEF Call, Steps
<1> QED BY <1>1, <1>2, <1>3, <1>4 DEF c

\* A load begins with nothing seen.
LEMMA LoadCall ==
  ASSUME NEW o \in Ops, NEW j \in Jobs
  PROVE  LET d == BeginLoad([JobIdle EXCEPT !.op = o], j) IN
         /\ d \in Call
         /\ d.op = o /\ d.step = "layout" /\ d.job = j
BY IdleCall DEF BeginLoad, Call, Steps

\* A step of t that makes only temporaries which its call holds afterwards,
\* and lets go of those only that are gone or leftovers.
LEMMA OwnerKept ==
  ASSUME OwnerInv, NEW t \in Threads, NEW c \in Call, OthersStay(t, c),
         \A j \in Jobs :
           /\ HeldState(j)' =>
                \/ HoldsState(c, j)
                \/ HeldState(j) /\ ~HoldsState(jobCall[t], j)
           /\ HeldFolder(j)' =>
                \/ HoldsFolder(c, j)
                \/ HeldFolder(j) /\ ~HoldsFolder(jobCall[t], j)
           /\ HeldRaw(j)' =>
                \/ HoldsRaw(c, j)
                \/ HeldRaw(j) /\ ~HoldsRaw(jobCall[t], j)
           /\ HeldProcessed(j)' =>
                \/ HoldsProcessed(c, j)
                \/ HeldProcessed(j) /\ ~HoldsProcessed(jobCall[t], j)
  PROVE  OwnerInv'
<1>1. jobCall'[t] = c
  BY DEF OthersStay
<1>2. ASSUME NEW u \in Threads, u # t, NEW j
      PROVE  /\ HoldsState(jobCall[u], j) => HoldsState(jobCall'[u], j)
             /\ HoldsFolder(jobCall[u], j) => HoldsFolder(jobCall'[u], j)
             /\ HoldsRaw(jobCall[u], j) => HoldsRaw(jobCall'[u], j)
             /\ HoldsProcessed(jobCall[u], j) =>
                  HoldsProcessed(jobCall'[u], j)
  BY <1>2 DEF OthersStay, Kept, HoldsState, HoldsFolder, HoldsRaw,
              HoldsProcessed
<1> SUFFICES ASSUME NEW j \in Jobs
             PROVE  /\ HeldState(j)' =>
                         \E u \in Threads : HoldsState(jobCall'[u], j)
                    /\ HeldFolder(j)' =>
                         \E u \in Threads : HoldsFolder(jobCall'[u], j)
                    /\ HeldRaw(j)' =>
                         \E u \in Threads : HoldsRaw(jobCall'[u], j)
                    /\ HeldProcessed(j)' =>
                         \E u \in Threads : HoldsProcessed(jobCall'[u], j)
  BY DEF OwnerInv
<1>3. HeldState(j)' => \E u \in Threads : HoldsState(jobCall'[u], j)
  BY <1>1, <1>2 DEF OwnerInv
<1>4. HeldFolder(j)' => \E u \in Threads : HoldsFolder(jobCall'[u], j)
  BY <1>1, <1>2 DEF OwnerInv
<1>5. HeldRaw(j)' => \E u \in Threads : HoldsRaw(jobCall'[u], j)
  BY <1>1, <1>2 DEF OwnerInv
<1>6. HeldProcessed(j)' => \E u \in Threads : HoldsProcessed(jobCall'[u], j)
  BY <1>1, <1>2 DEF OwnerInv
<1> QED BY <1>3, <1>4, <1>5, <1>6

LEMMA QuietStep ==
  ASSUME FoldersInv, NEW t \in Threads, NEW c \in Call, OthersStay(t, c),
         UNCHANGED <<jobFiles, jobLock, upsets>>,
         slotLock' \in Threads \cup {NoThread}, cutShort' \subseteq Jobs,
         UNCHANGED leftovers,
         jobCall[t].step \notin {"replace", "rename", "publish"},
         c.step \notin {"replace", "close", "rename", "publish"},
         c.step \notin {"idle", "away", "scan"} => c.job \in Jobs,
         c.step = "commit" => c.next.revision = c.seen.revision + 1,
         c.step = "open" => c.beside \/ c.noted \subseteq Temporaries(c.job),
         c.step = "unreadable" => c.beside
  PROVE  FoldersInv'
<1> USE DEF FoldersInv, jobFiles, upsets
<1>1. TypeInv'
  BY DEF TypeInv, OthersStay
<1>2. HolderInv'
  BY DEF HolderInv, OthersStay, Kept
<1>3. LoadInv'
  BY DEF LoadInv, Temporaries, OthersStay, Kept
<1>4. OwnerInv'
  BY OwnerKept DEF HeldState, HeldFolder, HeldRaw, HeldProcessed, HoldsState,
                   HoldsFolder, HoldsRaw, HoldsProcessed
<1> QED BY <1>1, <1>2, <1>3, <1>4

\* The call of a thread, and who can stand at a place that needs the lock.
LEMMA HolderOnly ==
  ASSUME FoldersInv, NEW t \in Threads, NEW u \in Threads
  PROVE  /\ jobCall[t] \in Call
         /\ jobLock = NoThread =>
              jobCall[u].step \notin {"replace", "close", "rename"}
         /\ jobLock = t /\ u # t =>
              jobCall[u].step \notin {"replace", "close", "rename"}
BY StorageFaultsAssumption DEF FoldersInv, TypeInv, HolderInv

LEMMA JobsInitInv == JobsInit => FoldersInv
<1> SUFFICES ASSUME JobsInit PROVE FoldersInv
  OBVIOUS
<1>1. [JobIdle EXCEPT !.step = "away"] \in Call
  BY IdleCall DEF Call, Steps
<1>2. PICK crew \in SUBSET Threads :
        jobCall = [t \in Threads |->
          IF t \in crew THEN JobIdle ELSE [JobIdle EXCEPT !.step = "away"]]
  BY DEF JobsInit
<1>3. \A t \in Threads :
        jobCall[t] \in Call /\ jobCall[t].step \in {"idle", "away"}
  BY <1>1, <1>2, IdleCall DEF Call
<1>4. jobCall \in [Threads -> Call]
  BY <1>2, <1>3
<1>5. PICK used \in SUBSET Jobs :
        folder = [j \in Jobs |-> IF j \in used THEN "absent" ELSE "unused"]
  BY DEF JobsInit
<1>6. TypeInv
  BY <1>4, <1>5, NewRecords DEF TypeInv, JobsInit, UpsetsInit, Directories
<1>7. HolderInv /\ LoadInv
  BY <1>3 DEF HolderInv, LoadInv
<1>8. OwnerInv
  BY <1>5 DEF OwnerInv, JobsInit, HeldState, HeldFolder, HeldRaw,
              HeldProcessed
<1> QED BY <1>6, <1>7, <1>8 DEF FoldersInv

-----------------------------------------------------------------------------
(* The quiet steps *)

\* A call that returns is idle again.
LEMMA ReturnInv ==
  ASSUME FoldersInv, NEW t \in Threads, JobReturn(t),
         UNCHANGED <<jobFiles, jobLock, upsets, leftovers>>, cutShort' \subseteq Jobs,
         jobCall[t].step \notin {"replace", "rename", "publish"}
  PROVE  FoldersInv'
<1>1. JobGo(t, JobIdle) /\ slotLock' \in Threads \cup {NoThread}
  BY DEF JobReturn, FoldersInv, TypeInv
<1>2. OthersStay(t, JobIdle)
  BY <1>1, GoStays, IdleCall DEF FoldersInv
<1> QED BY <1>1, <1>2, IdleCall, QuietStep

\* A thread sets out to commit its snapshot, changed.
LEMMA CommitsInv ==
  ASSUME FoldersInv, NEW t \in Threads, NEW r \in Records,
         JobGo(t, Commits(jobCall[t], r)),
         UNCHANGED <<jobFiles, jobLock, upsets, slotLock, jobHistory>>,
         jobCall[t].step \notin
           {"idle", "away", "scan", "replace", "rename", "publish"}
  PROVE  FoldersInv'
<1> DEFINE d == Commits(jobCall[t], r)
<1>1. /\ d \in Call /\ d.step = "commit" /\ d.job = jobCall[t].job
      /\ d.seen = jobCall[t].seen /\ d.next.revision = d.seen.revision + 1
  BY CommitCall DEF FoldersInv
<1>2. d.job \in Jobs
  BY <1>1 DEF FoldersInv, HolderInv
<1>3. OthersStay(t, d)
  BY <1>1, GoStays DEF FoldersInv
<1>4. slotLock' \in Threads \cup {NoThread} /\ cutShort' \subseteq Jobs
  BY DEF FoldersInv, TypeInv
<1> HIDE DEF d
<1> QED BY <1>1, <1>2, <1>3, <1>4, QuietStep

LEMMA LoadStepInv ==
  ASSUME FoldersInv, NEW t \in Threads, LoadStep(t)
  PROVE  FoldersInv'
<1> DEFINE c == jobCall[t]
<1>1. c \in Call /\ (c.step \in LoadSteps => c.job \in Jobs)
  BY DEF FoldersInv, TypeInv, HolderInv, LoadSteps
<1>2. /\ slotLock' \in Threads \cup {NoThread} /\ cutShort' \subseteq Jobs
      /\ UNCHANGED leftovers
  BY DEF FoldersInv, TypeInv, LoadStep, LoadLayout, LoadOpen, LoadRead
<1>3. CASE LoadLayout(t)
  <2> DEFINE d == [JobStep(t, "open") EXCEPT !.noted = Temporaries(c.job)]
  <2>1. Temporaries(c.job) \in SUBSET {"state", "raw", "processed"}
    BY DEF Temporaries
  <2>2. /\ d \in Call /\ d.step = "open" /\ d.job = c.job
        /\ d.noted = Temporaries(c.job)
    BY <1>1, <2>1 DEF JobStep, Call, Steps
  <2>3. OthersStay(t, d)
    BY <1>3, <2>2, GoStays DEF LoadLayout, FoldersInv
  <2>4. UNCHANGED <<jobFiles, jobLock, upsets>> /\ c.step = "layout"
    BY <1>3 DEF LoadLayout, JobAt
  <2> HIDE DEF d
  <2> QED BY <1>1, <1>2, <2>2, <2>3, <2>4, QuietStep DEF LoadSteps
<1>4. CASE LoadOpen(t)
  <2> DEFINE d == [JobStep(t, "read") EXCEPT !.noted = {}]
             e == [JobStep(t, "unreadable") EXCEPT
                     !.noted = {}, !.seen = NewRecord(NoJob)]
             f == [JobStep(t, "unreadable") EXCEPT
                     !.noted = {}, !.seen = NewRecord(NoJob), !.beside = TRUE]
  <2>1. d \in Call /\ d.step = "read" /\ d.job = c.job
    BY <1>1 DEF JobStep, Call, Steps
  <2>2. /\ e \in Call /\ e.step = "unreadable" /\ e.job = c.job
        /\ e.beside = c.beside
    BY <1>1, NewRecords DEF JobStep, Call, Steps
  <2>3. f \in Call /\ f.step = "unreadable" /\ f.job = c.job /\ f.beside
    BY <1>1, NewRecords DEF JobStep, Call, Steps
  <2>4. UNCHANGED <<jobFiles, jobLock, upsets>> /\ c.step = "open"
    BY <1>4 DEF LoadOpen, JobAt
  <2>5. ~c.beside => c.noted \subseteq Temporaries(c.job)
    BY <2>4 DEF FoldersInv, LoadInv
  <2>6. JobGo(t, d) \/ (JobGo(t, e) /\ c.beside) \/ JobGo(t, f)
    BY <1>4, <2>5 DEF LoadOpen, LoadFailed, LoadUnshared
  <2> HIDE DEF d, e, f
  <2>7. CASE JobGo(t, d)
    <3>1. OthersStay(t, d)
      BY <2>1, <2>7, GoStays DEF FoldersInv
    <3> QED BY <1>1, <1>2, <2>1, <2>4, <3>1, QuietStep DEF LoadSteps
  <2>8. CASE JobGo(t, e) /\ c.beside
    <3>1. OthersStay(t, e)
      BY <2>2, <2>8, GoStays DEF FoldersInv
    <3> QED BY <1>1, <1>2, <2>2, <2>4, <2>8, <3>1, QuietStep DEF LoadSteps
  <2>9. CASE JobGo(t, f)
    <3>1. OthersStay(t, f)
      BY <2>3, <2>9, GoStays DEF FoldersInv
    <3> QED BY <1>1, <1>2, <2>3, <2>4, <3>1, QuietStep DEF LoadSteps
  <2> QED BY <2>6, <2>7, <2>8, <2>9
<1>5. CASE LoadRead(t)
  <2> DEFINE d == [JobStep(t, "loaded") EXCEPT
                     !.seen = record[c.job], !.beside = FALSE]
  <2>1. UNCHANGED <<jobFiles, jobLock, upsets>> /\ c.step = "read"
    BY <1>5 DEF LoadRead, JobAt
  <2>2. record[c.job] \in Records /\ c.job \in Jobs
    BY <1>1, <2>1 DEF FoldersInv, TypeInv, LoadSteps
  <2>3. d \in Call /\ d.step = "loaded" /\ d.job = c.job
    BY <1>1, <2>2 DEF JobStep, Call, Steps
  <2>4. OthersStay(t, d)
    BY <1>5, <2>3, GoStays DEF LoadRead, FoldersInv
  <2> HIDE DEF d
  <2> QED BY <1>2, <2>1, <2>2, <2>3, <2>4, QuietStep
<1> QED BY <1>3, <1>4, <1>5 DEF LoadStep

\* A thread goes to a quiet place without losing its job.
LEMMA GoToInv ==
  ASSUME FoldersInv, NEW t \in Threads, NEW s \in Steps,
         JobGo(t, JobStep(t, s)),
         UNCHANGED <<jobFiles, jobLock, upsets, slotLock, jobHistory>>,
         s \in {"uncommitted", "unpublished"},
         jobCall[t].step \notin
           {"idle", "away", "scan", "replace", "rename", "publish"}
  PROVE  FoldersInv'
<1> DEFINE d == JobStep(t, s)
<1>1. d \in Call /\ d.step = s /\ d.job = jobCall[t].job
  BY StepTo DEF FoldersInv
<1>2. OthersStay(t, d)
  BY <1>1, GoStays DEF FoldersInv
<1>3. slotLock' \in Threads \cup {NoThread} /\ cutShort' \subseteq Jobs
  BY DEF FoldersInv, TypeInv
<1>4. d.job \in Jobs
  BY <1>1 DEF FoldersInv, HolderInv
<1> HIDE DEF d
<1> QED BY <1>1, <1>2, <1>3, <1>4, QuietStep

\* A thread sets out to load a job.
LEMMA BeginLoadInv ==
  ASSUME FoldersInv, NEW t \in Threads, NEW c \in Call, NEW j \in Jobs,
         JobGo(t, BeginLoad(c, j)),
         UNCHANGED <<jobFiles, jobLock, upsets, slotLock, jobHistory>>,
         jobCall[t].step \in {"idle", "scan"}
  PROVE  FoldersInv'
<1> DEFINE d == BeginLoad(c, j)
<1>1. d \in Call /\ d.step = "layout" /\ d.job = j
  BY DEF BeginLoad, Call, Steps
<1>2. OthersStay(t, d)
  BY <1>1, GoStays DEF FoldersInv
<1>3. slotLock' \in Threads \cup {NoThread} /\ cutShort' \subseteq Jobs
  BY DEF FoldersInv, TypeInv
<1> HIDE DEF d
<1> QED BY <1>1, <1>2, <1>3, QuietStep

LEMMA LookInv ==
  ASSUME FoldersInv, NEW t \in Threads, Look(t) \/ Work(t)
  PROVE  FoldersInv'
<1>1. ASSUME NEW o \in Ops PROVE [JobIdle EXCEPT !.op = o] \in Call
  BY IdleCall DEF Call
<1>2. PICK c \in Call, j \in Jobs : JobGo(t, BeginLoad(c, j))
  <2>1. [JobIdle EXCEPT !.op = "look"] \in Call
    BY <1>1 DEF Ops
  <2>2. [JobIdle EXCEPT !.op = "work"] \in Call
    BY <1>1 DEF Ops
  <2> QED BY <2>1, <2>2 DEF Look, Work
<1>3. /\ UNCHANGED <<jobFiles, jobLock, upsets, slotLock, jobHistory>>
      /\ jobCall[t].step = "idle"
  BY DEF Look, Work, JobAt
<1> QED BY <1>2, <1>3, BeginLoadInv

\* Snapshots, changed.
LEMMA ChangedRecords ==
  ASSUME NEW r \in Records
  PROVE  /\ [r EXCEPT !.status = "ended"] \in Records
         /\ [r EXCEPT !.status = "active"] \in Records
         /\ [r EXCEPT !.status = "completed"] \in Records
         /\ [r EXCEPT !.final = "completed"] \in Records
         /\ [r EXCEPT !.raw = TRUE] \in Records
         /\ [r EXCEPT !.raw = TRUE, !.final = "inherited"] \in Records
         /\ [r EXCEPT !.raw = TRUE, !.final = "pending"] \in Records
BY DEF Records, Nonterminal

LEMMA CommitsCallInv ==
  ASSUME FoldersInv, NEW t \in Threads,
         CancelLoaded(t) \/ WorkCommits(t) \/ WorkFails(t)
  PROVE  FoldersInv'
<1>1. jobCall[t].seen \in Records
  BY DEF FoldersInv, TypeInv, Call
<1>2. PICK r \in Records : JobGo(t, Commits(jobCall[t], r))
  BY <1>1, ChangedRecords DEF CancelLoaded, WorkCommits, WorkFails, Ended
<1>3. /\ UNCHANGED <<jobFiles, jobLock, upsets, slotLock, jobHistory>>
      /\ jobCall[t].step \notin
           {"idle", "away", "scan", "replace", "rename", "publish"}
  BY DEF CancelLoaded, WorkCommits, WorkFails, Ready, JobAt
<1> QED BY <1>2, <1>3, CommitsInv

LEMMA SlotStepInv ==
  ASSUME FoldersInv, NEW t \in Threads,
         BeginSlot(t) \/ ScanNext(t) \/ Scanned(t) \/ SlotFree(t)
  PROVE  FoldersInv'
<1>1. jobCall[t] \in Call /\ jobCall[t].todo \subseteq Jobs
  BY DEF FoldersInv, TypeInv, Call
<1>2. /\ UNCHANGED <<jobFiles, jobLock, upsets, jobHistory>>
      /\ jobCall[t].step \in {"idle", "scan", "loaded", "unreadable"}
  BY DEF BeginSlot, ScanNext, Scanned, SlotFree, JobAt
<1>3. cutShort' \subseteq Jobs
  BY <1>2 DEF FoldersInv, TypeInv
<1>4. ASSUME NEW todo \in SUBSET Jobs,
             JobGo(t, [JobIdle EXCEPT !.op = "open", !.step = "scan",
                                      !.todo = todo]),
             slotLock' \in Threads \cup {NoThread}
      PROVE  FoldersInv'
  <2> DEFINE d == [JobIdle EXCEPT !.op = "open", !.step = "scan",
                                  !.todo = todo]
  <2>1. d \in Call /\ d.step = "scan"
    BY IdleCall DEF Call, Ops, Steps
  <2>2. OthersStay(t, d)
    BY <1>4, <2>1, GoStays DEF FoldersInv
  <2> HIDE DEF d
  <2> QED BY <1>2, <1>3, <1>4, <2>1, <2>2, QuietStep
<1>5. CASE BeginSlot(t)
  <2>1. {j \in Jobs : Published(j)} \in SUBSET Jobs
    OBVIOUS
  <2> QED BY <1>4, <1>5, <2>1 DEF BeginSlot
<1>6. CASE ScanNext(t)
  <2>1. PICK j \in jobCall[t].todo :
          JobGo(t, [BeginLoad(jobCall[t], j) EXCEPT !.todo = @ \ {j}])
    BY <1>6 DEF ScanNext
  <2> DEFINE d == [BeginLoad(jobCall[t], j) EXCEPT !.todo = @ \ {j}]
  <2>2. d \in Call /\ d.step = "layout" /\ d.job = j /\ j \in Jobs
    BY <1>1 DEF BeginLoad, Call, Steps
  <2>3. OthersStay(t, d)
    BY <2>1, <2>2, GoStays DEF FoldersInv
  <2>4. slotLock' \in Threads \cup {NoThread}
    BY <1>6 DEF ScanNext, FoldersInv, TypeInv
  <2> HIDE DEF d
  <2> QED BY <1>2, <1>3, <2>2, <2>3, <2>4, QuietStep
<1>7. CASE Scanned(t)
  <2>1. CASE JobReturn(t)
    BY <1>2, <1>3, <2>1, ReturnInv
  <2>2. CASE /\ JobGo(t, [JobIdle EXCEPT !.op = "open", !.step = "scan",
                                         !.todo = jobCall[t].todo])
             /\ UNCHANGED slotLock
    <3>1. slotLock' \in Threads \cup {NoThread}
      BY <2>2 DEF FoldersInv, TypeInv
    <3> QED BY <1>1, <1>4, <2>2, <3>1
  <2> QED BY <1>7, <2>1, <2>2 DEF Scanned
<1>8. CASE SlotFree(t)
  <2>1. PICK p \in Jobs \cup {NoJob}, j \in Jobs, o \in {"retry", "create"} :
          JobGo(t, [JobStep(t, "make") EXCEPT !.op = o, !.job = j,
                                              !.parent = p])
    BY <1>8 DEF SlotFree
  <2> DEFINE d == [JobStep(t, "make") EXCEPT !.op = o, !.job = j, !.parent = p]
  <2>2. d \in Call /\ d.step = "make" /\ d.job = j
    BY <1>1 DEF JobStep, Call, Steps, Ops
  <2>3. OthersStay(t, d)
    BY <2>1, <2>2, GoStays DEF FoldersInv
  <2>4. slotLock' \in Threads \cup {NoThread}
    BY <1>8 DEF SlotFree, FoldersInv, TypeInv
  <2> HIDE DEF d
  <2> QED BY <1>2, <1>3, <2>2, <2>3, <2>4, QuietStep
<1> QED BY <1>5, <1>6, <1>7, <1>8

LEMMA ReturnCallInv ==
  ASSUME FoldersInv, NEW t \in Threads,
         CallEnds(t) \/ SlotUnused(t) \/ RetryDone(t) \/ WorkEnds(t)
  PROVE  FoldersInv'
<1>1. JobReturn(t) /\ UNCHANGED <<jobFiles, jobLock, upsets, leftovers>>
  BY DEF CallEnds, SlotUnused, RetryDone, WorkEnds
<1>2. jobCall[t].step \notin {"replace", "rename", "publish"}
  BY DEF CallEnds, SlotUnused, RetryDone, WorkEnds, Ready, JobAt
<1>3. cutShort' \subseteq Jobs
  <2>1. RetryDone(t) => jobCall[t].job \in Jobs
    BY DEF RetryDone, FoldersInv, HolderInv
  <2> QED BY <2>1 DEF CallEnds, SlotUnused, RetryDone, WorkEnds, FoldersInv,
                      TypeInv
<1> QED BY <1>1, <1>2, <1>3, ReturnInv

-----------------------------------------------------------------------------
(* The steps that write *)

LEMMA CommitStepInv ==
  ASSUME FoldersInv, NEW t \in Threads, CommitStep(t)
  PROVE  FoldersInv'
<1> DEFINE c == jobCall[t]
           j == c.job
<1>1. /\ c \in Call /\ c.seen \in Records /\ c.next \in Records
      /\ c.seen.revision \in Nat
      /\ c.step \notin {"idle", "away", "scan"} => j \in Jobs
  BY DEF FoldersInv, TypeInv, HolderInv, Call, Records
<1>2. CASE CommitCheck(t)
  <2> DEFINE d == JobStep(t, "replace")
  <2>1. /\ d \in Call /\ d.step = "replace" /\ d.job = j
        /\ d.seen = c.seen /\ d.next = c.next
    BY StepTo DEF FoldersInv, Steps
  <2>2. c.step = "commit" /\ j \in Jobs
    BY <1>1, <1>2 DEF CommitCheck, JobAt
  <2>3. /\ jobLock = NoThread /\ jobLock' = t
        /\ stateTemp' = stateTemp \cup {j}
        /\ leftovers' = leftovers \ {<<"state", j>>}
        /\ record[j].revision = d.seen.revision
        /\ UNCHANGED <<folder, record, raw, processed, slotLock, upsets,
                       cutShort>>
    BY <1>2, <2>1 DEF CommitCheck
  <2>4. /\ OthersStay(t, d)
        /\ \A u \in Threads \ {t} :
             jobCall[u].step = "open" /\ jobCall[u].job = j =>
               jobCall'[u].beside
    BY <1>2, <2>1, WroteStays DEF CommitCheck, FoldersInv
  <2>5. \A u \in Threads : jobCall[u].step \notin {"replace", "close", "rename"}
    BY <2>3, HolderOnly
  <2> HIDE DEF d
  <2>6. TypeInv'
    BY <2>2, <2>3, <2>4 DEF FoldersInv, TypeInv, OthersStay, upsets
  <2>7. HolderInv'
    BY <2>1, <2>2, <2>3, <2>4, <2>5
    DEF FoldersInv, HolderInv, OthersStay, Kept
  <2>8. LoadInv'
    BY <2>1, <2>3, <2>4
    DEF FoldersInv, LoadInv, OthersStay, Kept, Temporaries
  <2>9. OwnerInv'
    BY <2>1, <2>2, <2>3, <2>4, OwnerKept
    DEF FoldersInv, HeldState, HeldFolder, HeldRaw, HeldProcessed,
        HoldsState, HoldsFolder, HoldsRaw, HoldsProcessed, upsets
  <2> QED BY <2>6, <2>7, <2>8, <2>9 DEF FoldersInv
<1>3. CASE CommitConflict(t)
  BY <1>3, GoToInv DEF CommitConflict, JobAt, Steps
<1>4. CASE CommitFails(t)
  <2> DEFINE d == JobStep(t, "uncommitted")
  <2>1. d \in Call /\ d.step = "uncommitted" /\ d.job = j
    BY StepTo DEF FoldersInv, Steps
  <2>2. c.step = "replace" /\ j \in Jobs /\ jobLock = t
    BY <1>1, <1>4 DEF CommitFails, JobAt, FoldersInv, HolderInv
  <2>3. /\ jobLock' = NoThread /\ stateTemp' \subseteq stateTemp
        /\ \A i : i # j => (i \in stateTemp <=> i \in stateTemp')
        /\ j \in stateTemp' => <<"state", j>> \in leftovers'
        /\ leftovers \subseteq leftovers'
        /\ leftovers' \subseteq leftovers \cup {<<"state", j>>}
        /\ UNCHANGED <<folder, record, raw, processed, slotLock, cutShort>>
    BY <1>4 DEF CommitFails
  <2>4. faults' \in Nat
    BY <1>4 DEF CommitFails, Fault, upsets, FoldersInv, TypeInv
  <2>5. /\ OthersStay(t, d)
        /\ \A u \in Threads \ {t} :
             jobCall[u].step = "open" /\ jobCall[u].job = j =>
               jobCall'[u].beside
    BY <1>4, <2>1, WroteStays DEF CommitFails, FoldersInv
  <2>6. \A u \in Threads \ {t} :
          jobCall[u].step \notin {"replace", "close", "rename"}
    BY <2>2, HolderOnly
  <2> HIDE DEF d
  <2>7. TypeInv'
    BY <2>2, <2>3, <2>4, <2>5
    DEF FoldersInv, TypeInv, OthersStay, TemporaryFiles
  <2>8. HolderInv'
    BY <2>1, <2>2, <2>3, <2>5, <2>6
    DEF FoldersInv, HolderInv, OthersStay, Kept
  <2>9. LoadInv'
    BY <2>1, <2>3, <2>5
    DEF FoldersInv, LoadInv, OthersStay, Kept, Temporaries
  <2>10. OwnerInv'
    BY <2>1, <2>2, <2>3, <2>4, <2>5, OwnerKept
    DEF FoldersInv, HeldState, HeldFolder, HeldRaw, HeldProcessed,
        HoldsState, HoldsFolder, HoldsRaw, HoldsProcessed, upsets
  <2> QED BY <2>7, <2>8, <2>9, <2>10 DEF FoldersInv
<1>5. CASE CommitReplace(t)
  <2> DEFINE d == JobStep(t, "close")
  <2>1. d \in Call /\ d.step = "close" /\ d.job = j
    BY StepTo DEF FoldersInv, Steps
  <2>2. c.step = "replace" /\ j \in Jobs /\ jobLock = t
    BY <1>1, <1>5 DEF CommitReplace, JobAt, FoldersInv, HolderInv
  <2>3. /\ record' = [record EXCEPT ![j] = c.next]
        /\ stateTemp' = stateTemp \ {j}
        /\ UNCHANGED <<folder, raw, processed, jobLock, slotLock, upsets,
                       jobHistory>>
    BY <1>5 DEF CommitReplace
  <2>4. /\ OthersStay(t, d)
        /\ \A u \in Threads \ {t} :
             jobCall[u].step = "open" /\ jobCall[u].job = j =>
               jobCall'[u].beside
    BY <1>5, <2>1, WroteStays DEF CommitReplace, FoldersInv
  <2>5. \A u \in Threads \ {t} :
          jobCall[u].step \notin {"replace", "close", "rename"}
    BY <2>2, HolderOnly
  <2> HIDE DEF d
  <2>6. TypeInv'
    BY <1>1, <2>3, <2>4 DEF FoldersInv, TypeInv, OthersStay, upsets
  <2>7. HolderInv'
    BY <2>1, <2>2, <2>3, <2>4, <2>5
    DEF FoldersInv, HolderInv, OthersStay, Kept
  <2>8. LoadInv'
    BY <2>1, <2>3, <2>4
    DEF FoldersInv, LoadInv, OthersStay, Kept, Temporaries
  <2>9. OwnerInv'
    BY <2>1, <2>2, <2>3, <2>4, OwnerKept
    DEF FoldersInv, HeldState, HeldFolder, HeldRaw, HeldProcessed,
        HoldsState, HoldsFolder, HoldsRaw, HoldsProcessed, upsets
  <2> QED BY <2>6, <2>7, <2>8, <2>9 DEF FoldersInv
<1>6. CASE CommitClose(t)
  <2> DEFINE closed == [JobStep(t, "committed") EXCEPT
                          !.seen = c.next, !.next = NewRecord(NoJob)]
             failed == JobStep(t, "uncommitted")
  <2>1. /\ closed \in Call /\ closed.step = "committed" /\ closed.job = j
        /\ failed \in Call /\ failed.step = "uncommitted" /\ failed.job = j
    <3>1. /\ failed \in Call /\ failed.step = "uncommitted" /\ failed.job = j
      BY StepTo DEF FoldersInv, Steps
    <3>2. closed \in Call /\ closed.step = "committed" /\ closed.job = j
      BY <1>1, NewRecords DEF JobStep, Call, Steps
    <3> QED BY <3>1, <3>2
  <2>2. c.step = "close" /\ j \in Jobs /\ jobLock = t
    BY <1>1, <1>6 DEF CommitClose, JobAt, FoldersInv, HolderInv
  <2>3. /\ jobLock' = NoThread /\ faults' \in Nat
        /\ UNCHANGED <<folder, record, stateTemp, raw, processed, slotLock,
                       jobHistory>>
    BY <1>6 DEF CommitClose, Fault, jobFiles, upsets, FoldersInv, TypeInv
  <2>4. PICK d \in {closed, failed} : Wrote(t, d)
    BY <1>6 DEF CommitClose
  <2>5. /\ OthersStay(t, d) /\ d \in Call
        /\ d.step \in {"committed", "uncommitted"} /\ d.job = j
    BY <2>1, <2>4, WroteStays DEF FoldersInv
  <2>6. \A u \in Threads \ {t} :
          jobCall[u].step \notin {"replace", "close", "rename"}
    BY <2>2, HolderOnly
  <2> HIDE DEF closed, failed
  <2>7. TypeInv'
    BY <2>3, <2>5 DEF FoldersInv, TypeInv, OthersStay
  <2>8. HolderInv'
    BY <2>2, <2>3, <2>5, <2>6 DEF FoldersInv, HolderInv, OthersStay, Kept
  <2>9. LoadInv'
    BY <2>3, <2>5 DEF FoldersInv, LoadInv, OthersStay, Kept, Temporaries
  <2>10. OwnerInv'
    BY <2>2, <2>3, <2>5, OwnerKept
    DEF FoldersInv, HeldState, HeldFolder, HeldRaw, HeldProcessed,
        HoldsState, HoldsFolder, HoldsRaw, HoldsProcessed, upsets
  <2> QED BY <2>7, <2>8, <2>9, <2>10 DEF FoldersInv
<1> QED BY <1>2, <1>3, <1>4, <1>5, <1>6 DEF CommitStep

LEMMA FolderStepInv ==
  ASSUME FoldersInv, NEW t \in Threads,
         MakeFolder(t) \/ RenameFolder(t) \/ CreateFails(t)
  PROVE  FoldersInv'
<1> DEFINE c == jobCall[t]
           j == c.job
<1>1. c \in Call /\ j \in Jobs
  BY DEF FoldersInv, TypeInv, HolderInv, MakeFolder, RenameFolder, CreateFails,
         JobAt
<1>2. CASE MakeFolder(t)
  <2> DEFINE d == JobStep(t, "rename")
  <2>1. d \in Call /\ d.step = "rename" /\ d.job = j
    BY StepTo DEF FoldersInv, Steps
  <2>2. /\ c.step = "make" /\ jobLock = NoThread /\ jobLock' = t
        /\ folder' = [folder EXCEPT ![j] = "temp"]
        /\ UNCHANGED <<record, stateTemp, raw, processed, slotLock, upsets,
                       jobHistory>>
    BY <1>2 DEF MakeFolder, JobAt
  <2>3. OthersStay(t, d)
    BY <1>2, <2>1, GoStays DEF MakeFolder, FoldersInv
  <2>4. \A u \in Threads : jobCall[u].step \notin {"replace", "close", "rename"}
    BY <2>2, HolderOnly
  <2> HIDE DEF d
  <2>5. TypeInv'
    BY <1>1, <2>2, <2>3 DEF FoldersInv, TypeInv, OthersStay, upsets
  <2>6. HolderInv'
    BY <1>1, <2>1, <2>2, <2>3, <2>4
    DEF FoldersInv, TypeInv, HolderInv, OthersStay, Kept
  <2>7. LoadInv'
    BY <2>1, <2>2, <2>3
    DEF FoldersInv, LoadInv, OthersStay, Kept, Temporaries
  <2>8. OwnerInv'
    BY <1>1, <2>1, <2>2, <2>3, OwnerKept
    DEF FoldersInv, HeldState, HeldFolder, HeldRaw, HeldProcessed,
        HoldsState, HoldsFolder, HoldsRaw, HoldsProcessed, upsets
  <2> QED BY <2>5, <2>6, <2>7, <2>8 DEF FoldersInv
<1>3. CASE RenameFolder(t) \/ CreateFails(t)
  <2>1. /\ c.step = "rename" /\ jobLock = t /\ jobLock' = NoThread
        /\ \A i \in Jobs \ {j} :
             folder'[i] = folder[i] /\ record'[i] = record[i]
        /\ folder'[j] = "temp" => <<"folder", j>> \in leftovers'
        /\ leftovers \subseteq leftovers' /\ leftovers' \subseteq TemporaryFiles
        /\ folder' \in [Jobs -> {"unused", "absent", "temp", "published"}]
        /\ record' \in [Jobs -> Records]
        /\ UNCHANGED <<stateTemp, raw, processed, cutShort>>
        /\ faults' \in Nat
    <3>1. c.step = "rename" /\ jobLock = t
      BY <1>3 DEF RenameFolder, CreateFails, JobAt, FoldersInv, HolderInv
    <3>2. CASE RenameFolder(t)
      <4>1. NewRecord(c.parent) \in Records
        BY <1>1, NewRecords DEF Call
      <4> QED BY <1>1, <3>1, <3>2, <4>1
              DEF RenameFolder, Fault, FoldersInv, TypeInv, upsets
    <3>3. CASE CreateFails(t)
      BY <1>1, <3>1, <3>3
      DEF CreateFails, Fault, FoldersInv, TypeInv, TemporaryFiles
    <3> QED BY <1>3, <3>2, <3>3
  <2>2. PICK d \in Call :
          /\ OthersStay(t, d) /\ d.step \in {"idle", "created"}
          /\ d.step = "created" => d.job = j
          /\ slotLock' \in Threads \cup {NoThread}
    <3>1. CASE JobReturn(t)
      <4>1. OthersStay(t, JobIdle)
        BY <3>1, GoStays, IdleCall DEF JobReturn, FoldersInv
      <4>2. slotLock' \in Threads \cup {NoThread}
        BY <3>1 DEF JobReturn, FoldersInv, TypeInv
      <4> QED BY <4>1, <4>2, IdleCall
    <3>2. CASE /\ JobGo(t, [JobStep(t, "created") EXCEPT !.seen = record'[j]])
               /\ UNCHANGED slotLock
      <4> DEFINE d == [JobStep(t, "created") EXCEPT !.seen = record'[j]]
      <4>1. record'[j] \in Records
        BY <1>1, <2>1
      <4>2. d \in Call /\ d.step = "created" /\ d.job = j
        BY <1>1, <4>1 DEF JobStep, Call, Steps
      <4>3. OthersStay(t, d)
        BY <3>2, <4>2, GoStays DEF FoldersInv
      <4>4. slotLock' \in Threads \cup {NoThread}
        BY <3>2 DEF FoldersInv, TypeInv
      <4> HIDE DEF d
      <4> QED BY <4>2, <4>3, <4>4
    <3> QED BY <1>3, <3>1, <3>2 DEF RenameFolder, CreateFails
  <2>3. \A u \in Threads \ {t} :
          jobCall[u].step \notin {"replace", "close", "rename"}
    BY <2>1, HolderOnly
  <2>4. TypeInv'
    BY <2>1, <2>2 DEF FoldersInv, TypeInv, OthersStay
  <2>5. HolderInv'
    BY <1>1, <2>1, <2>2, <2>3
    DEF FoldersInv, TypeInv, HolderInv, OthersStay, Kept
  <2>6. LoadInv'
    BY <2>1, <2>2 DEF FoldersInv, LoadInv, OthersStay, Kept, Temporaries
  <2>7. OwnerInv'
    BY <1>1, <2>1, <2>2, OwnerKept
    DEF FoldersInv, HeldState, HeldFolder, HeldRaw, HeldProcessed,
        HoldsState, HoldsFolder, HoldsRaw, HoldsProcessed, upsets
  <2> QED BY <2>4, <2>5, <2>6, <2>7 DEF FoldersInv
<1> QED BY <1>2, <1>3

\* A directory of the job of t is written, and t goes to a place of its own.
LEMMA ContentStep ==
  ASSUME FoldersInv, NEW t \in Threads, NEW d \in Call, Wrote(t, d),
         NEW value \in Directories, SetContent(t, value),
         jobCall[t].job \in Jobs, d.job = jobCall[t].job,
         d.seen = jobCall[t].seen,
         d.step \in {"commit", "unpublished", "publish"},
         d.step = "commit" => d.next.revision = d.seen.revision + 1,
         value = "temp" => \/ d.step = "publish"
                           \/ <<Directory(t), d.job>> \in leftovers',
         leftovers' \subseteq TemporaryFiles,
         leftovers \subseteq leftovers' \cup {<<Directory(t), d.job>>},
         jobCall[t].step \notin {"replace", "rename"},
         UNCHANGED <<folder, record, stateTemp, jobLock, slotLock, cutShort>>,
         faults' \in Nat
  PROVE  FoldersInv'
<1> DEFINE j == jobCall[t].job
<1>1. /\ OthersStay(t, d)
      /\ \A u \in Threads \ {t} :
           jobCall[u].step = "open" /\ jobCall[u].job = j =>
             jobCall'[u].beside
  BY WroteStays DEF FoldersInv
<1>2. /\ raw' \in [Jobs -> Directories] /\ processed' \in [Jobs -> Directories]
      /\ \A i \in Jobs \ {j} :
           raw'[i] = raw[i] /\ processed'[i] = processed[i]
      /\ IF d.seen.raw THEN raw'[j] = raw[j] /\ processed'[j] = value
                       ELSE processed'[j] = processed[j] /\ raw'[j] = value
  BY DEF SetContent, Directory, FoldersInv, TypeInv
<1>3. TypeInv'
  BY <1>1, <1>2 DEF FoldersInv, TypeInv, OthersStay
<1>4. HolderInv'
  BY <1>1 DEF FoldersInv, HolderInv, OthersStay, Kept
<1>5. LoadInv'
  <2>1. ASSUME NEW u \in Threads \ {t}, jobCall'[u].step = "open",
               ~jobCall'[u].beside
        PROVE  /\ jobCall[u].job \in Jobs \ {j}
               /\ jobCall[u].noted \subseteq Temporaries(jobCall[u].job)
               /\ jobCall'[u].job = jobCall[u].job
               /\ jobCall'[u].noted = jobCall[u].noted
    BY <1>1, <2>1 DEF OthersStay, Kept, FoldersInv, HolderInv, LoadInv
  <2>2. ASSUME NEW u \in Threads \ {t}, jobCall'[u].step = "unreadable"
        PROVE  jobCall'[u].beside
    BY <1>1, <2>2 DEF OthersStay, Kept, FoldersInv, LoadInv
  <2>3. jobCall'[t] = d
    BY <1>1 DEF OthersStay
  <2> QED BY <1>2, <2>1, <2>2, <2>3 DEF LoadInv, Temporaries
<1>6. OwnerInv'
  <2>1. Directory(t) = IF d.seen.raw THEN "processed" ELSE "raw"
    BY DEF Directory
  <2> QED BY <1>1, <1>2, <2>1, OwnerKept
          DEF FoldersInv, HeldState, HeldFolder, HeldRaw, HeldProcessed,
              HoldsState, HoldsFolder, HoldsRaw, HoldsProcessed
<1> QED BY <1>3, <1>4, <1>5, <1>6 DEF FoldersInv

\* What a publication records is a record.
LEMMA RecordedRecords ==
  ASSUME FoldersInv, NEW t \in Threads
  PROVE  Recorded(t) \in Records
<1>1. jobCall[t].seen \in Records
  BY DEF FoldersInv, TypeInv, Call
<1> DEFINE r == jobCall[t].seen
<1>2. \/ Recorded(t) = [r EXCEPT !.raw = TRUE, !.final = "inherited"]
      \/ Recorded(t) = [r EXCEPT !.raw = TRUE, !.final = "pending"]
      \/ Recorded(t) = [r EXCEPT !.final = "completed"]
      \/ Recorded(t) = [r EXCEPT !.raw = TRUE]
  BY DEF Recorded
<1> QED BY <1>1, <1>2, ChangedRecords

LEMMA PublishStageInv ==
  ASSUME FoldersInv, NEW t \in Threads, PublishStage(t),
         jobCall[t].step \in {"loaded", "committed", "created"}
  PROVE  FoldersInv'
<1>1. jobCall[t].job \in Jobs
  BY DEF FoldersInv, HolderInv
<1>2. CASE Content(t) = "whole"
  BY <1>2, GoToInv DEF PublishStage, jobFiles, Steps
<1>3. CASE Content(t) # "whole"
  <2> DEFINE d == JobStep(t, "publish")
  <2>1. /\ d \in Call /\ d.step = "publish" /\ d.job = jobCall[t].job
        /\ d.seen = jobCall[t].seen
    BY StepTo DEF FoldersInv, Steps
  <2>2. /\ SetContent(t, "temp") /\ Wrote(t, d)
        /\ UNCHANGED <<folder, record, stateTemp, jobLock, slotLock, cutShort>>
        /\ leftovers' = leftovers \ {<<Directory(t), jobCall[t].job>>}
        /\ faults' \in Nat
    BY <1>3 DEF PublishStage, upsets, FoldersInv, TypeInv
  <2>3. "temp" \in Directories
    BY DEF Directories
  <2>4. leftovers \subseteq TemporaryFiles
    BY DEF FoldersInv, TypeInv
  <2> HIDE DEF d
  <2> QED BY <1>1, <2>1, <2>2, <2>3, <2>4, ContentStep
<1> QED BY <1>2, <1>3

LEMMA PublishStepInv ==
  ASSUME FoldersInv, NEW t \in Threads, PublishStep(t)
  PROVE  FoldersInv'
<1>1. jobCall[t].step = "publish" /\ jobCall[t].job \in Jobs
  BY DEF PublishStep, PublishRename, PublishFails, JobAt, FoldersInv, HolderInv
<1>2. CASE PublishRename(t)
  <2> DEFINE d == Commits(jobCall[t], Recorded(t))
  <2>1. /\ d \in Call /\ d.step = "commit" /\ d.job = jobCall[t].job
        /\ d.seen = jobCall[t].seen /\ d.next.revision = d.seen.revision + 1
    BY RecordedRecords, CommitCall DEF FoldersInv
  <2>2. /\ SetContent(t, "whole") /\ Wrote(t, d)
        /\ UNCHANGED <<folder, record, stateTemp, jobLock, slotLock, cutShort>>
        /\ leftovers' = leftovers /\ faults' \in Nat
    BY <1>2 DEF PublishRename, upsets, FoldersInv, TypeInv
  <2>3. "whole" \in Directories /\ leftovers \subseteq TemporaryFiles
    BY DEF Directories, FoldersInv, TypeInv
  <2> HIDE DEF d
  <2> QED BY <1>1, <2>1, <2>2, <2>3, ContentStep
<1>3. CASE PublishFails(t)
  <2> DEFINE d == JobStep(t, "unpublished")
  <2>1. /\ d \in Call /\ d.step = "unpublished" /\ d.job = jobCall[t].job
        /\ d.seen = jobCall[t].seen
    BY StepTo DEF FoldersInv, Steps
  <2>2. PICK left \in Directories :
          /\ SetContent(t, left) /\ Wrote(t, d)
          /\ leftovers' = IF left = "temp"
               THEN leftovers \cup {<<Directory(t), jobCall[t].job>>}
               ELSE leftovers
          /\ UNCHANGED <<folder, record, stateTemp, jobLock, slotLock, cutShort>>
          /\ faults' \in Nat
    BY <1>3 DEF PublishFails, Fault, FoldersInv, TypeInv
  <2>3. /\ leftovers \subseteq TemporaryFiles
        /\ <<Directory(t), jobCall[t].job>> \in TemporaryFiles
    BY <1>1 DEF FoldersInv, TypeInv, TemporaryFiles, Directory
  <2> HIDE DEF d
  <2> QED BY <1>1, <2>1, <2>2, <2>3, ContentStep
<1> QED BY <1>2, <1>3 DEF PublishStep

LEMMA RestartInv ==
  ASSUME FoldersInv, JobsRestart
  PROVE  FoldersInv'
<1> DEFINE interrupted ==
             {j \in Jobs : Published(j) /\ record[j].status = "active"}
<1> DEFINE over(j) ==
             [record[j] EXCEPT !.revision = @ + 1, !.status = "ended"]
<1>1. /\ record \in [Jobs -> Records] /\ jobCall \in [Threads -> Call]
      /\ \A j \in Jobs : over(j) \in Records
  <2>1. ASSUME NEW r \in Records
        PROVE  [r EXCEPT !.revision = r.revision + 1, !.status = "ended"]
                 \in Records
    <3> DEFINE n == [r EXCEPT !.revision = r.revision + 1]
    <3>1. n \in Records
      BY NextRecord DEF Records
    <3>2. [n EXCEPT !.status = "ended"] \in Records
      <4> HIDE DEF n
      <4> QED BY <3>1, ChangedRecords
    <3> QED BY <3>2
  <2>2. /\ record \in [Jobs -> Records] /\ jobCall \in [Threads -> Call]
        /\ \A j \in Jobs : record[j] \in Records
    BY DEF FoldersInv, TypeInv
  <2>3. ASSUME NEW j \in Jobs PROVE over(j) \in Records
    BY <2>1, <2>2
  <2> QED BY <2>2, <2>3
<1>2. record' \in [Jobs -> Records]
  <2>1. record' = [j \in Jobs |-> IF j \in interrupted THEN over(j)
                                  ELSE record[j]]
    BY DEF JobsRestart
  <2> HIDE DEF over, interrupted
  <2> QED BY <1>1, <2>1
<1>3. \A t \in Threads :
        /\ jobCall'[t] \in Call /\ jobCall'[t].step \in {"idle", "away"}
  <2>1. jobCall' = [t \in Threads |->
          IF jobCall[t].step = "away" THEN jobCall[t] ELSE JobIdle]
    BY DEF JobsRestart, JobAt
  <2> QED BY <1>1, <2>1, IdleCall
<1>4. jobCall' \in [Threads -> Call]
  BY <1>3 DEF JobsRestart
<1>5. faults' \in Nat
  <2>1. Crash(MaxJobUpsets)
    BY DEF JobsRestart
  <2> QED BY <2>1 DEF Crash, Fault, FoldersInv, TypeInv
<1>6. TypeInv'
  <2>1. /\ stateTemp' = stateTemp \ interrupted
        /\ jobLock' = NoThread /\ slotLock' = NoThread
        /\ cutShort' = cutShort \cup {jobCall[t].job : t \in
             {u \in Threads : jobCall[u].op = "retry" /\ jobCall[u].job \in Jobs}}
        /\ UNCHANGED <<folder, raw, processed>>
        /\ leftovers' \subseteq TemporaryFiles
    BY DEF JobsRestart, AllTemporaries
  <2> HIDE DEF interrupted
  <2> QED BY <1>2, <1>4, <1>5, <2>1 DEF FoldersInv, TypeInv
<1>7. HolderInv' /\ LoadInv' /\ OwnerInv'
  <2>1. ASSUME NEW j \in Jobs
        PROVE  /\ j \in stateTemp' => <<"state", j>> \in leftovers'
               /\ folder'[j] = "temp" => <<"folder", j>> \in leftovers'
               /\ raw'[j] = "temp" => <<"raw", j>> \in leftovers'
               /\ processed'[j] = "temp" => <<"processed", j>> \in leftovers'
    <3>1. leftovers' = AllTemporaries'
      BY DEF JobsRestart
    <3>2. \A f \in {"folder", "state", "raw", "processed"} :
            <<f, j>> \in TemporaryFiles
      BY DEF TemporaryFiles
    <3> QED BY <3>1, <3>2 DEF AllTemporaries
  <2> QED BY <1>3, <2>1
          DEF HolderInv, LoadInv, OwnerInv, HeldState, HeldFolder, HeldRaw,
              HeldProcessed
<1> QED BY <1>6, <1>7 DEF FoldersInv

-----------------------------------------------------------------------------
LEMMA RetryRawInv ==
  ASSUME FoldersInv, NEW t \in Threads, RetryRaw(t)
  PROVE  FoldersInv'
<1>1. jobCall[t].step = "created" /\ jobCall[t].seen \in Records
  BY DEF RetryRaw, JobAt, FoldersInv, TypeInv, Call
<1>2. CASE PublishStage(t)
  BY <1>1, <1>2, PublishStageInv
<1>3. CASE /\ JobGo(t, Commits(jobCall[t], jobCall[t].seen))
           /\ UNCHANGED <<jobFiles, jobLock, slotLock, upsets, jobHistory>>
  BY <1>1, <1>3, CommitsInv
<1> QED BY <1>2, <1>3 DEF RetryRaw

\* FoldersInv is inductive.
LEMMA JobsStepInv == FoldersInv /\ [JobsNext]_jobVars => FoldersInv'
<1> SUFFICES ASSUME FoldersInv, [JobsNext]_jobVars PROVE FoldersInv'
  OBVIOUS
<1>1. CASE UNCHANGED jobVars
  BY <1>1
  DEF jobVars, jobStore, jobFiles, upsets, FoldersInv, TypeInv, HolderInv,
      LoadInv, OwnerInv, Temporaries, HeldState, HeldFolder, HeldRaw,
      HeldProcessed
<1>2. CASE JobsRestart
  BY <1>2, RestartInv
<1>3. ASSUME NEW t \in Threads,
             LoadStep(t) \/ CommitStep(t) \/ PublishStep(t)
      PROVE  FoldersInv'
  BY <1>3, LoadStepInv, CommitStepInv, PublishStepInv
<1>4. ASSUME NEW t \in Threads, CallJobs(t)
      PROVE  FoldersInv'
  <2>1. CASE Look(t) \/ Work(t)
    BY <2>1, LookInv
  <2>2. CASE CancelLoaded(t) \/ WorkCommits(t) \/ WorkFails(t)
    BY <2>2, CommitsCallInv
  <2>3. CASE CallEnds(t) \/ SlotUnused(t) \/ RetryDone(t) \/ WorkEnds(t)
    BY <2>3, ReturnCallInv
  <2>4. CASE BeginSlot(t) \/ ScanNext(t) \/ Scanned(t) \/ SlotFree(t)
    BY <2>4, SlotStepInv
  <2>5. CASE MakeFolder(t) \/ RenameFolder(t) \/ CreateFails(t)
    BY <2>5, FolderStepInv
  <2>6. CASE RetryRaw(t)
    BY <2>6, RetryRawInv
  <2>7. CASE WorkPublishes(t)
    BY <2>7, PublishStageInv DEF WorkPublishes, Ready
  <2> QED BY <1>4, <2>1, <2>2, <2>3, <2>4, <2>5, <2>6, <2>7 DEF CallJobs
<1> QED BY <1>1, <1>2, <1>3, <1>4 DEF JobsNext

\* For any jobs, any threads, failures and crashes: who may write what
\* (HolderInv), what a load can meet (LoadInv), and who made each temporary,
\* failed removals apart (OwnerInv).
THEOREM FoldersInvariant == JobsSpec => []FoldersInv
<1>1. JobsInit => FoldersInv
  BY JobsInitInv
<1>2. FoldersInv /\ [JobsNext]_jobVars => FoldersInv'
  BY JobsStepInv
<1> QED BY <1>1, <1>2, PTL DEF JobsSpec

LEMMA FoldersTyped == FoldersInv => JobsTypeOK
BY DEF FoldersInv, TypeInv, HolderInv, JobsTypeOK, Call

\* For any jobs, any threads and any number of upsets: the variables have
\* their types, and a record is written, and a folder made and renamed, by the
\* holder of the write lock only.
THEOREM TypesOfFolders == JobsSpec => []JobsTypeOK
BY FoldersTyped, FoldersInvariant, PTL

LEMMA FoldersOwned == FoldersInv => TemporariesOwned
<1>1. \A t \in Threads : FoldersInv /\ JobAt(t, "rename") => jobLock = t
  BY DEF FoldersInv, HolderInv, JobAt
<1> SUFFICES ASSUME FoldersInv, NEW j \in Jobs
             PROVE  /\ HeldState(j) =>
                         \E t \in Threads :
                           JobAt(t, "replace") /\ jobCall[t].job = j
                    /\ HeldFolder(j) =>
                         \E t \in Threads :
                           /\ JobAt(t, "rename") /\ jobCall[t].job = j
                           /\ jobLock = t
                    /\ HeldRaw(j) \/ HeldProcessed(j) =>
                         \E t \in Threads :
                           JobAt(t, "publish") /\ jobCall[t].job = j
  BY DEF TemporariesOwned, HeldState, HeldFolder, HeldRaw, HeldProcessed
<1> QED BY <1>1 DEF FoldersInv, OwnerInv, JobAt, HoldsState, HoldsFolder,
                    HoldsRaw, HoldsProcessed

\* A temporary that no thread works on is one whose removal failed, or that the
\* process held when it ended: no failure or conflict leaves one otherwise.
THEOREM NoTemporaryLeft == JobsSpec => []TemporariesOwned
BY FoldersOwned, FoldersInvariant, PTL

LEMMA FoldersLoadable == FoldersInv => LoadFailsOnlyBesideWriter
BY DEF FoldersInv, LoadInv, LoadFailsOnlyBesideWriter, JobAt

\* A load fails only beside a step that wrote in the folder, or a writer that
\* had not closed state.json, whatever crashes and failures left behind.
THEOREM LoadsFailBesideWriters == JobsSpec => []LoadFailsOnlyBesideWriter
BY FoldersLoadable, FoldersInvariant, PTL

-----------------------------------------------------------------------------
(* Who writes records *)

\* A step of a thread that is none of the two renames leaves every record.
LEMMA RecordKept ==
  ASSUME NEW t \in Threads,
         LoadStep(t) \/ CommitStep(t) \/ PublishStep(t) \/ CallJobs(t),
         ~CommitReplace(t), ~RenameFolder(t)
  PROVE  record' = record
<1>1. CASE LoadStep(t)
  BY <1>1 DEF LoadStep, LoadLayout, LoadOpen, LoadRead, jobFiles
<1>2. CASE CommitStep(t)
  BY <1>2 DEF CommitStep, CommitCheck, CommitConflict, CommitFails,
              CommitClose, jobFiles
<1>3. CASE PublishStep(t)
  BY <1>3 DEF PublishStep, PublishRename, PublishFails
<1>4. CASE CallJobs(t)
  <2>1. CASE \/ Look(t) \/ CancelLoaded(t) \/ CallEnds(t) \/ BeginSlot(t)
             \/ ScanNext(t) \/ Scanned(t) \/ SlotFree(t) \/ SlotUnused(t)
    BY <2>1 DEF Look, CancelLoaded, CallEnds, BeginSlot, ScanNext, Scanned,
                SlotFree, SlotUnused, jobFiles
  <2>2. CASE MakeFolder(t) \/ CreateFails(t)
    BY <2>2 DEF MakeFolder, CreateFails
  <2>3. CASE RetryRaw(t) \/ WorkPublishes(t)
    BY <2>3 DEF RetryRaw, WorkPublishes, PublishStage, jobFiles
  <2>4. CASE \/ RetryDone(t) \/ Work(t) \/ WorkCommits(t) \/ WorkFails(t)
             \/ WorkEnds(t)
    BY <2>4 DEF RetryDone, Work, WorkCommits, WorkFails, WorkEnds, jobFiles
  <2> QED BY <1>4, <2>1, <2>2, <2>3, <2>4 DEF CallJobs
<1> QED BY <1>1, <1>2, <1>3, <1>4

\* The file is written several steps after the comparison, and a step that
\* changes a published record is the rename of a commit or a recovery.
LEMMA CommitCompared ==
  ASSUME FoldersInv, JobsNext, NEW j \in Jobs, Published(j),
         record'[j] # record[j]
  PROVE  record'[j].revision = record[j].revision + 1
<1>1. CASE JobsRestart
  <2> DEFINE over(i) ==
               [record[i] EXCEPT !.revision = @ + 1, !.status = "ended"]
  <2>1. record'[j] = over(j)
    <3>1. record' = [i \in Jobs |->
            IF i \in {k \in Jobs : Published(k) /\ record[k].status = "active"}
            THEN over(i) ELSE record[i]]
      BY <1>1 DEF JobsRestart
    <3> HIDE DEF over
    <3> QED BY <3>1
  <2>2. record[j] \in Records
    BY DEF FoldersInv, TypeInv
  <2>3. over(j).revision = record[j].revision + 1
    BY <2>2 DEF Records
  <2> QED BY <2>1, <2>3
<1>2. ASSUME NEW t \in Threads, CommitReplace(t)
      PROVE  record'[j].revision = record[j].revision + 1
  <2>1. /\ record' = [record EXCEPT ![jobCall[t].job] = jobCall[t].next]
        /\ jobCall[t].step = "replace" /\ record \in [Jobs -> Records]
    BY <1>2 DEF CommitReplace, JobAt, FoldersInv, TypeInv
  <2>2. /\ jobCall[t].next.revision = jobCall[t].seen.revision + 1
        /\ record[jobCall[t].job].revision = jobCall[t].seen.revision
    BY <2>1 DEF FoldersInv, HolderInv
  <2> QED BY <2>1, <2>2
<1>3. ASSUME NEW t \in Threads, RenameFolder(t)
      PROVE  FALSE
  <2>1. /\ \E r : record' = [record EXCEPT ![jobCall[t].job] = r]
        /\ jobCall[t].step = "rename" /\ record \in [Jobs -> Records]
    BY <1>3 DEF RenameFolder, JobAt, FoldersInv, TypeInv
  <2>2. folder[jobCall[t].job] = "temp"
    BY <2>1 DEF FoldersInv, HolderInv
  <2> QED BY <2>1, <2>2 DEF Published
<1> QED BY <1>1, <1>2, <1>3, RecordKept DEF JobsNext

\* A commit replaces the record whose revision it compared.
THEOREM CommitsReplaceWhatTheyCompared == JobsSpec => RevisionsByOne
<1>1. FoldersInv /\ [JobsNext]_jobVars =>
        [\A j \in Jobs :
           Published(j) /\ record'[j] # record[j] =>
             record'[j].revision = record[j].revision + 1]_jobVars
  BY CommitCompared
<1> QED BY <1>1, FoldersInvariant, PTL DEF JobsSpec, RevisionsByOne

-----------------------------------------------------------------------------
(* Records and files.  A directory that is whole stays whole, because one  *)
(* thread at most publishes in a job; a later record says no less than an  *)
(* earlier one; what a record, a snapshot or a record about to be          *)
(* committed says was published is there.                                  *)

\* What the record r of job j says was published is there.
Backed(j, r) ==
  /\ r.raw => raw[j] = "whole"
  /\ r.final = "completed" => processed[j] = "whole"
  /\ r.final = "inherited" =>
       /\ r.parent \in Jobs /\ Published(r.parent)
       /\ record[r.parent].final # "pending"

\* The record s of a job says no less than its record r.
After(r, s) ==
  /\ r.raw => s.raw
  /\ s.final = "pending" => r.final = "pending"
  /\ s.status = "queued" => r.status = "queued"
  /\ s.parent = r.parent

\* The places of a thread that holds a snapshot.
Holding ==
  {"loaded", "commit", "replace", "close", "committed", "uncommitted",
   "publish", "unpublished", "created"}

Publishers == {"work", "retry"}

FilesInv ==
  \A j \in Jobs :
    /\ Published(j) => Backed(j, record[j])
    /\ ~Published(j) => raw[j] = "absent" /\ processed[j] = "absent"

\* The coordinator's lock, and the job of a call is published.
SlotFine(t) ==
  LET c == jobCall[t] IN
  /\ c.op \in {"open", "create", "retry"} => slotLock = t
  /\ c.step \in {"idle", "away"} => c.op = "idle"
  /\ c.step = "scan" => c.op = "open"
  /\ c.step \in {"make", "rename"} => c.op \in {"create", "retry"}
  /\ c.step = "make" => folder[c.job] = "absent"
  /\ c.op = "open" => \A j \in c.todo : Published(j)
  /\ c.step \notin {"idle", "away", "scan", "make", "rename"} =>
       Published(c.job)
  /\ c.op = "retry" => c.parent \in Jobs /\ Published(c.parent)

\* A snapshot and the record that is to replace it.
SnapFine(t) ==
  LET c == jobCall[t] IN
  /\ c.step \in Holding =>
       /\ Backed(c.job, c.seen) /\ After(c.seen, record[c.job])
       /\ c.seen.revision \leq record[c.job].revision
       /\ c.seen.revision = record[c.job].revision => c.seen = record[c.job]
  /\ c.step \in {"commit", "replace"} =>
       Backed(c.job, c.next) /\ After(c.seen, c.next)
  /\ c.step = "close" => record[c.job] = c.next

\* A publication, and what a retry has published.
PublishFine(t) ==
  LET c == jobCall[t] IN
  /\ c.step = "publish" =>
       /\ c.op \in Publishers
       /\ c.seen.raw => processed[c.job] = "temp"
       /\ ~c.seen.raw => raw[c.job] = "temp"
       /\ c.op = "work" => c.seen.status # "queued"
  /\ c.op = "retry" =>
       /\ c.step \in {"created", "publish"} =>
            /\ ~c.seen.raw /\ c.seen.final = "pending"
            /\ c.seen.parent = c.parent /\ raw[c.job] # "whole"
       /\ c.step \in {"commit", "replace", "close"} =>
            c.next.raw \/ raw[c.job] # "whole"
       /\ c.step = "committed" => c.seen.raw \/ raw[c.job] # "whole"

Fine(t) == SlotFine(t) /\ SnapFine(t) /\ PublishFine(t)

OnePublisher ==
  \A t, u \in Threads :
    /\ jobCall[t].op \in Publishers /\ jobCall[u].op \in Publishers
    /\ jobCall[t].job = jobCall[u].job
    => t = u

\* A queued job whose raw directory no record speaks of was left by a retry.
LeftByRetry(j) ==
  \/ j \in cutShort
  \/ \E t \in Threads : jobCall[t].op = "retry" /\ jobCall[t].job = j

Unrecorded(j) ==
  /\ Published(j) /\ record[j].status = "queued" /\ ~record[j].raw
  /\ raw[j] = "whole"

QueuedInv == \A j \in Jobs : Unrecorded(j) => LeftByRetry(j)

ContentInv ==
  /\ FilesInv /\ OnePublisher /\ QueuedInv
  /\ \A t \in Threads : Fine(t)

\* What no step takes back.
Grows ==
  \A j \in Jobs :
    /\ Published(j) =>
         /\ folder'[j] = "published" /\ After(record[j], record'[j])
         /\ \/ record'[j] = record[j]
            \/ record'[j].revision > record[j].revision
    /\ raw[j] = "whole" => raw'[j] = "whole"
    /\ processed[j] = "whole" => processed'[j] = "whole"

LEMMA BackedGrows ==
  ASSUME Grows, NEW j \in Jobs, NEW r, Backed(j, r)
  PROVE  /\ r.raw => raw'[j] = "whole"
         /\ r.final = "completed" => processed'[j] = "whole"
         /\ r.final = "inherited" =>
              /\ r.parent \in Jobs /\ folder'[r.parent] = "published"
              /\ record'[r.parent].final # "pending"
BY DEF Grows, Backed, After, Published

\* What a step of t must show, to leave the calls of the others fine.
LEMMA OthersFine ==
  ASSUME FoldersInv, ContentInv, Grows, NEW t \in Threads, NEW c \in Call,
         OthersStay(t, c), record \in [Jobs -> Records],
         record' \in [Jobs -> Records],
         slotLock \notin {NoThread, t} => slotLock' = slotLock,
         slotLock # t => folder' = folder,
         jobLock # t => record' = record,
         \A j \in Jobs :
           \/ raw'[j] = raw[j] /\ processed'[j] = processed[j]
           \/ jobCall[t].op \in Publishers /\ jobCall[t].job = j,
         NEW u \in Threads, u # t
  PROVE  Fine(u)'
<1> DEFINE b == jobCall[u]
<1>1. /\ jobCall'[u].op = b.op /\ jobCall'[u].step = b.step
      /\ jobCall'[u].job = b.job /\ jobCall'[u].parent = b.parent
      /\ jobCall'[u].seen = b.seen /\ jobCall'[u].next = b.next
      /\ jobCall'[u].todo = b.todo
  BY DEF OthersStay, Kept
<1>2. /\ b \in Call /\ b.seen \in Records /\ b.todo \subseteq Jobs
      /\ b.step \notin {"idle", "away", "scan"} => b.job \in Jobs
      /\ b.step = "close" => jobLock = u
      /\ Fine(u)
  BY DEF FoldersInv, TypeInv, HolderInv, ContentInv, Call
<1>3. SlotFine(u)'
  BY <1>1, <1>2, StorageFaultsAssumption DEF Fine, SlotFine, Grows, Published
<1>4. SnapFine(u)'
  <2>1. ASSUME b.step \in Holding
        PROVE  /\ Published(b.job) /\ b.job \in Jobs
               /\ After(b.seen, record[b.job]) /\ Backed(b.job, b.seen)
               /\ b.seen.revision \leq record[b.job].revision
               /\ b.seen.revision = record[b.job].revision =>
                    b.seen = record[b.job]
    BY <1>2, <2>1 DEF Fine, SnapFine, SlotFine, Holding
  <2>2. ASSUME b.step \in Holding
        PROVE  /\ After(b.seen, record'[b.job])
               /\ b.seen.revision \leq record'[b.job].revision
               /\ b.seen.revision = record'[b.job].revision =>
                    b.seen = record'[b.job]
    <3>1. /\ After(record[b.job], record'[b.job])
          /\ \/ record'[b.job] = record[b.job]
             \/ record'[b.job].revision > record[b.job].revision
          /\ record[b.job].revision \in Nat /\ record'[b.job].revision \in Nat
          /\ b.seen.revision \in Nat
      BY <1>2, <2>1, <2>2 DEF Grows, Records
    <3> QED BY <2>1, <2>2, <3>1 DEF After
  <2>3. ASSUME b.step \in Holding
        PROVE  /\ b.seen.raw => raw'[b.job] = "whole"
               /\ b.seen.final = "completed" => processed'[b.job] = "whole"
               /\ b.seen.final = "inherited" =>
                    /\ b.seen.parent \in Jobs
                    /\ folder'[b.seen.parent] = "published"
                    /\ record'[b.seen.parent].final # "pending"
    BY <2>1, <2>3, BackedGrows
  <2>4. ASSUME b.step \in {"commit", "replace"}
        PROVE  /\ After(b.seen, b.next)
               /\ b.next.raw => raw'[b.job] = "whole"
               /\ b.next.final = "completed" => processed'[b.job] = "whole"
               /\ b.next.final = "inherited" =>
                    /\ b.next.parent \in Jobs
                    /\ folder'[b.next.parent] = "published"
                    /\ record'[b.next.parent].final # "pending"
    <3>1. Backed(b.job, b.next) /\ After(b.seen, b.next) /\ b.job \in Jobs
      BY <1>2, <2>4 DEF Fine, SnapFine
    <3> QED BY <3>1, BackedGrows
  <2>5. b.step = "close" => record'[b.job] = b.next
    BY <1>2 DEF Fine, SnapFine
  <2> HIDE DEF b
  <2> QED BY <1>1, <2>2, <2>3, <2>4, <2>5 DEF SnapFine, Backed, Published
<1>5. PublishFine(u)'
  <2>1. ASSUME b.op \in Publishers, b.job \in Jobs
        PROVE  raw'[b.job] = raw[b.job] /\ processed'[b.job] = processed[b.job]
    BY <2>1 DEF ContentInv, OnePublisher
  <2>2. PublishFine(u)
    BY <1>2 DEF Fine
  <2> HIDE DEF b
  <2> QED BY <1>1, <1>2, <2>1, <2>2 DEF PublishFine, Publishers, b
<1> QED BY <1>3, <1>4, <1>5 DEF Fine

\* ContentInv is kept by a step of t that gives back nothing, writes a record
\* that is backed, and leaves its own call fine.
LEMMA ContentKept ==
  ASSUME FoldersInv, ContentInv, Grows, NEW t \in Threads, NEW c \in Call,
         OthersStay(t, c), record' \in [Jobs -> Records],
         slotLock \notin {NoThread, t} => slotLock' = slotLock,
         slotLock # t => folder' = folder,
         jobLock # t => record' = record,
         \A j \in Jobs :
           \/ raw'[j] = raw[j] /\ processed'[j] = processed[j]
           \/ jobCall[t].op \in Publishers /\ jobCall[t].job = j,
         \A j \in Jobs :
           /\ folder'[j] = "published" =>
                \/ Published(j) /\ record'[j] = record[j]
                \/ Backed(j, record[j])'
           /\ folder'[j] # "published" =>
                raw'[j] = raw[j] /\ processed'[j] = processed[j],
         Fine(t)',
         c.op \in Publishers =>
           \/ jobCall[t].op \in Publishers /\ jobCall[t].job = c.job
           \/ \A u \in Threads :
                jobCall[u].op \in Publishers => jobCall[u].job # c.job,
         cutShort \subseteq cutShort',
         \A j \in Jobs :
           Unrecorded(j)' =>
             \/ Unrecorded(j)
             \/ c.op = "retry" /\ c.job = j,
         \A j \in Jobs :
           jobCall[t].op = "retry" /\ jobCall[t].job = j =>
             \/ c.op = "retry" /\ c.job = j
             \/ j \in cutShort'
             \/ ~Unrecorded(j)'
  PROVE  ContentInv'
<1>1. \A u \in Threads : Fine(u)'
  <2>1. record \in [Jobs -> Records]
    BY DEF FoldersInv, TypeInv
  <2> QED BY <2>1, OthersFine
<1>2. FilesInv'
  <2> SUFFICES ASSUME NEW j \in Jobs
               PROVE  /\ folder'[j] = "published" => Backed(j, record[j])'
                      /\ folder'[j] # "published" =>
                           raw'[j] = "absent" /\ processed'[j] = "absent"
    BY DEF FilesInv, Published
  <2>1. CASE folder'[j] # "published"
    BY <2>1 DEF Grows, ContentInv, FilesInv
  <2>2. CASE Published(j) /\ record'[j] = record[j]
    <3>1. Backed(j, record[j])
      BY <2>2 DEF ContentInv, FilesInv
    <3> QED BY <2>2, <3>1, BackedGrows DEF Backed, Published, Grows
  <2>3. CASE Backed(j, record[j])'
    <3> QED BY <2>3, <2>1 DEF Backed, Published
  <2> QED BY <2>1, <2>2, <2>3
<1>3. OnePublisher'
  BY DEF ContentInv, OnePublisher, OthersStay, Kept
<1>4. QueuedInv'
  <2> SUFFICES ASSUME NEW j \in Jobs, Unrecorded(j)'
               PROVE  LeftByRetry(j)'
    BY DEF QueuedInv
  <2>1. jobCall'[t] = c
    BY DEF OthersStay
  <2>2. CASE Unrecorded(j)
    <3>1. CASE j \in cutShort
      BY <3>1 DEF LeftByRetry
    <3>2. ASSUME NEW u \in Threads, jobCall[u].op = "retry", jobCall[u].job = j
          PROVE  LeftByRetry(j)'
      <4>1. CASE u = t
        BY <2>1, <3>2, <4>1 DEF LeftByRetry
      <4>2. CASE u # t
        BY <3>2, <4>2 DEF LeftByRetry, OthersStay, Kept
      <4> QED BY <4>1, <4>2
    <3> QED BY <2>2, <3>1, <3>2 DEF ContentInv, QueuedInv, LeftByRetry
  <2>3. CASE c.op = "retry" /\ c.job = j
    BY <2>1, <2>3 DEF LeftByRetry
  <2> QED BY <2>2, <2>3
<1> QED BY <1>1, <1>2, <1>3, <1>4 DEF ContentInv

\* Most steps change no record, folder or directory.
LEMMA ContentQuiet ==
  ASSUME FoldersInv, ContentInv, NEW t \in Threads, NEW c \in Call,
         OthersStay(t, c), UNCHANGED <<folder, record, raw, processed>>,
         slotLock \notin {NoThread, t} => slotLock' = slotLock,
         Fine(t)',
         c.op \in Publishers =>
           \/ jobCall[t].op \in Publishers /\ jobCall[t].job = c.job
           \/ \A u \in Threads :
                jobCall[u].op \in Publishers => jobCall[u].job # c.job,
         cutShort \subseteq cutShort',
         jobCall[t].op = "retry" =>
           \/ c.op = "retry" /\ c.job = jobCall[t].job
           \/ jobCall[t].job \in cutShort'
           \/ ~Unrecorded(jobCall[t].job)
  PROVE  ContentInv'
<1>1. record' \in [Jobs -> Records]
  BY DEF FoldersInv, TypeInv
<1>2. Grows
  BY DEF Grows, After, Published
<1>3. \A j \in Jobs : Unrecorded(j)' = Unrecorded(j)
  BY DEF Unrecorded, Published
<1>4. \A j \in Jobs :
        folder'[j] = "published" => Published(j) /\ record'[j] = record[j]
  BY DEF Published
<1>5. \A j \in Jobs :
        jobCall[t].op = "retry" /\ jobCall[t].job = j =>
          \/ c.op = "retry" /\ c.job = j
          \/ j \in cutShort'
          \/ ~Unrecorded(j)'
  BY <1>3
<1> QED BY <1>1, <1>2, <1>3, <1>4, <1>5, ContentKept

-----------------------------------------------------------------------------
(* The steps that change no record and no directory *)

LEMMA ReturnContent ==
  ASSUME FoldersInv, ContentInv, NEW t \in Threads, JobReturn(t),
         UNCHANGED <<folder, record, raw, processed>>,
         cutShort \subseteq cutShort',
         jobCall[t].op = "retry" =>
           \/ jobCall[t].job \in cutShort'
           \/ ~Unrecorded(jobCall[t].job)
  PROVE  ContentInv'
<1>1. OthersStay(t, JobIdle)
  BY GoStays, IdleCall DEF JobReturn, FoldersInv
<1>2. slotLock \notin {NoThread, t} => slotLock' = slotLock
  BY DEF JobReturn
<1>3. Fine(t)'
  <2>1. jobCall'[t].step = "idle" /\ jobCall'[t].op = "idle"
    BY <1>1, IdleCall DEF OthersStay
  <2> QED BY <2>1 DEF Fine, SlotFine, SnapFine, PublishFine, Holding
<1> QED BY <1>1, <1>2, <1>3, IdleCall, ContentQuiet DEF Publishers

\* Only the place of the call changes, and what it noted.
LEMMA PlaceContent ==
  ASSUME FoldersInv, ContentInv, NEW t \in Threads, NEW d \in Call,
         OthersStay(t, d),
         UNCHANGED <<folder, record, raw, processed, slotLock, cutShort>>,
         d.op = jobCall[t].op, d.job = jobCall[t].job,
         d.parent = jobCall[t].parent, d.todo = jobCall[t].todo,
         d.next = jobCall[t].next,
         jobCall[t].step \notin {"idle", "away", "scan", "make", "rename"},
         \/ d.step \in {"open", "read", "unreadable"}
         \/ /\ d.step \in {"uncommitted", "unpublished", "replace"}
            /\ d.seen = jobCall[t].seen /\ jobCall[t].step \in Holding
            /\ d.step = "replace" => jobCall[t].step = "commit"
  PROVE  ContentInv'
<1>1. jobCall'[t] = d
  BY DEF OthersStay
<1>2. SlotFine(t) /\ SnapFine(t) /\ PublishFine(t)
  BY DEF ContentInv, Fine
<1>3. SlotFine(t)'
  BY <1>1, <1>2 DEF SlotFine, Published
<1>4. SnapFine(t)'
  BY <1>1, <1>2 DEF SnapFine, Holding, Backed, Published
<1>5. PublishFine(t)'
  BY <1>1, <1>2 DEF PublishFine
<1> QED BY <1>3, <1>4, <1>5, ContentQuiet DEF Fine

LEMMA LoadContent ==
  ASSUME FoldersInv, ContentInv, NEW t \in Threads, LoadStep(t)
  PROVE  ContentInv'
<1> DEFINE c == jobCall[t]
<1>1. c \in Call /\ (c.step \in LoadSteps => c.job \in Jobs)
  BY DEF FoldersInv, TypeInv, HolderInv, LoadSteps
<1>2. UNCHANGED <<folder, record, raw, processed, slotLock, cutShort>>
  BY DEF LoadStep, LoadLayout, LoadOpen, LoadRead, jobFiles
<1>3. CASE LoadLayout(t)
  <2> DEFINE d == [JobStep(t, "open") EXCEPT !.noted = Temporaries(c.job)]
  <2>1. Temporaries(c.job) \in SUBSET {"state", "raw", "processed"}
    BY DEF Temporaries
  <2>2. /\ d \in Call /\ d.step = "open" /\ d.op = c.op /\ d.job = c.job
        /\ d.parent = c.parent /\ d.todo = c.todo /\ d.next = c.next
    BY <1>1, <2>1 DEF JobStep, Call, Steps
  <2>3. OthersStay(t, d) /\ c.step = "layout"
    BY <1>3, <2>2, GoStays DEF LoadLayout, JobAt, FoldersInv
  <2> HIDE DEF d
  <2> QED BY <1>2, <2>2, <2>3, PlaceContent
<1>4. CASE LoadOpen(t)
  <2> DEFINE d == [JobStep(t, "read") EXCEPT !.noted = {}]
             e == [JobStep(t, "unreadable") EXCEPT
                     !.noted = {}, !.seen = NewRecord(NoJob)]
             f == [JobStep(t, "unreadable") EXCEPT
                     !.noted = {}, !.seen = NewRecord(NoJob), !.beside = TRUE]
  <2>1. /\ d \in Call /\ d.step = "read" /\ d.op = c.op /\ d.job = c.job
        /\ d.parent = c.parent /\ d.todo = c.todo /\ d.next = c.next
    BY <1>1 DEF JobStep, Call, Steps
  <2>2. /\ e \in Call /\ e.step = "unreadable" /\ e.op = c.op /\ e.job = c.job
        /\ e.parent = c.parent /\ e.todo = c.todo /\ e.next = c.next
    BY <1>1, NewRecords DEF JobStep, Call, Steps
  <2>3. /\ f \in Call /\ f.step = "unreadable" /\ f.op = c.op /\ f.job = c.job
        /\ f.parent = c.parent /\ f.todo = c.todo /\ f.next = c.next
    BY <1>1, NewRecords DEF JobStep, Call, Steps
  <2>4. c.step = "open" /\ (JobGo(t, d) \/ JobGo(t, e) \/ JobGo(t, f))
    BY <1>4 DEF LoadOpen, JobAt, LoadFailed, LoadUnshared
  <2> HIDE DEF d, e, f
  <2>5. CASE JobGo(t, d)
    <3>1. OthersStay(t, d)
      BY <2>1, <2>5, GoStays DEF FoldersInv
    <3> QED BY <1>2, <2>1, <2>4, <3>1, PlaceContent
  <2>6. CASE JobGo(t, e)
    <3>1. OthersStay(t, e)
      BY <2>2, <2>6, GoStays DEF FoldersInv
    <3> QED BY <1>2, <2>2, <2>4, <3>1, PlaceContent
  <2>7. CASE JobGo(t, f)
    <3>1. OthersStay(t, f)
      BY <2>3, <2>7, GoStays DEF FoldersInv
    <3> QED BY <1>2, <2>3, <2>4, <3>1, PlaceContent
  <2> QED BY <2>4, <2>5, <2>6, <2>7
<1>5. CASE LoadRead(t)
  <2> DEFINE r == record[c.job]
             d == [JobStep(t, "loaded") EXCEPT !.seen = r, !.beside = FALSE]
  <2>1. c.step = "read" /\ c.job \in Jobs /\ r \in Records
    BY <1>1, <1>5 DEF LoadRead, JobAt, LoadSteps, FoldersInv, TypeInv
  <2>2. /\ d \in Call /\ d.step = "loaded" /\ d.op = c.op /\ d.job = c.job
        /\ d.parent = c.parent /\ d.todo = c.todo /\ d.seen = r
    BY <1>1, <2>1 DEF JobStep, Call, Steps
  <2>3. OthersStay(t, d)
    BY <1>5, <2>2, GoStays DEF LoadRead, FoldersInv
  <2> HIDE DEF d
  <2>4. jobCall'[t] = d /\ SlotFine(t)
    BY <2>3 DEF OthersStay, ContentInv, Fine
  <2>5. SlotFine(t)'
    BY <1>2, <2>1, <2>2, <2>4 DEF SlotFine, Published
  <2>6. SnapFine(t)'
    <3>1. Published(c.job)
      BY <2>1, <2>4 DEF SlotFine
    <3>2. Backed(c.job, r) /\ r.revision \in Nat
      BY <2>1, <3>1 DEF ContentInv, FilesInv, Records
    <3> QED BY <1>2, <2>1, <2>2, <2>4, <3>2
            DEF SnapFine, Backed, After, Published
  <2>7. PublishFine(t)'
    BY <2>2, <2>4 DEF PublishFine
  <2> QED BY <1>2, <2>2, <2>3, <2>5, <2>6, <2>7, ContentQuiet DEF Fine
<1> QED BY <1>3, <1>4, <1>5 DEF LoadStep

\* A thread sets out to commit a record that is backed.
LEMMA CommitsContent ==
  ASSUME FoldersInv, ContentInv, NEW t \in Threads, NEW r \in Records,
         JobGo(t, Commits(jobCall[t], r)),
         UNCHANGED <<folder, record, raw, processed, slotLock, cutShort>>,
         jobCall[t].step \in Holding, Backed(jobCall[t].job, r),
         After(jobCall[t].seen, r),
         jobCall[t].op = "retry" => r.raw \/ raw[jobCall[t].job] # "whole"
  PROVE  ContentInv'
<1> DEFINE c == jobCall[t]
           d == Commits(c, r)
<1>1. /\ d \in Call /\ d.op = c.op /\ d.step = "commit" /\ d.job = c.job
      /\ d.parent = c.parent /\ d.seen = c.seen /\ d.todo = c.todo
      /\ d.next.status = r.status /\ d.next.raw = r.raw
      /\ d.next.final = r.final /\ d.next.parent = r.parent
  BY CommitCall DEF FoldersInv
<1>2. OthersStay(t, d)
  BY <1>1, GoStays DEF FoldersInv
<1> HIDE DEF d
<1>3. jobCall'[t] = d /\ SlotFine(t) /\ SnapFine(t)
  BY <1>2 DEF OthersStay, ContentInv, Fine
<1>4. SlotFine(t)'
  BY <1>1, <1>3 DEF SlotFine, Published, Holding
<1>5. SnapFine(t)'
  BY <1>1, <1>3 DEF SnapFine, Backed, After, Published, Holding
<1>6. PublishFine(t)'
  BY <1>1, <1>3 DEF PublishFine
<1> QED BY <1>1, <1>2, <1>4, <1>5, <1>6, ContentQuiet DEF Fine

LEMMA LookContent ==
  ASSUME FoldersInv, ContentInv, NEW t \in Threads, Look(t) \/ Work(t)
  PROVE  ContentInv'
<1>1. /\ UNCHANGED <<folder, record, raw, processed, slotLock, cutShort>>
      /\ jobCall[t].step = "idle" /\ SlotFine(t)
  BY DEF Look, Work, JobAt, jobFiles, ContentInv, Fine
<1>2. jobCall[t].op = "idle"
  BY <1>1 DEF SlotFine
<1>3. ASSUME NEW o \in {"look", "work"}, NEW j \in Jobs, Published(j),
             JobGo(t, BeginLoad([JobIdle EXCEPT !.op = o], j)),
             o = "work" =>
               \A u \in Threads :
                 jobCall[u].op \in Publishers => jobCall[u].job # j
      PROVE  ContentInv'
  <2> DEFINE d == BeginLoad([JobIdle EXCEPT !.op = o], j)
  <2>1. d \in Call /\ d.op = o /\ d.step = "layout" /\ d.job = j
    BY LoadCall DEF Ops
  <2>2. OthersStay(t, d)
    BY <1>3, <2>1, GoStays DEF FoldersInv
  <2> HIDE DEF d
  <2>3. jobCall'[t] = d
    BY <2>2 DEF OthersStay
  <2>4. Fine(t)'
    BY <1>1, <1>3, <2>1, <2>3
    DEF Fine, SlotFine, SnapFine, PublishFine, Holding, Published
  <2> QED BY <1>1, <1>2, <1>3, <2>1, <2>2, <2>4, ContentQuiet DEF Publishers
<1>4. CASE Look(t)
  BY <1>3, <1>4 DEF Look
<1>5. CASE Work(t)
  <2>1. PICK j \in Jobs :
          /\ Published(j)
          /\ ~\E u \in Threads : jobCall[u].op = "work" /\ jobCall[u].job = j
          /\ JobGo(t, BeginLoad([JobIdle EXCEPT !.op = "work"], j))
    BY <1>5 DEF Work
  <2>2. \A u \in Threads : jobCall[u].op # "retry"
    BY <1>5, StorageFaultsAssumption DEF Work, ContentInv, Fine, SlotFine
  <2>3. \A u \in Threads : jobCall[u].op \in Publishers => jobCall[u].job # j
    BY <2>1, <2>2 DEF Publishers
  <2> QED BY <1>3, <2>1, <2>3
<1> QED BY <1>4, <1>5

\* What another status of the snapshot says was published.
LEMMA StatusBacked ==
  ASSUME NEW j \in Jobs, NEW r \in Records, Backed(j, r),
         NEW s \in {"active", "completed", "ended"}
  PROVE  LET d == [r EXCEPT !.status = s] IN
         d \in Records /\ Backed(j, d) /\ After(r, d)
<1>1. LET d == [r EXCEPT !.status = s] IN
      /\ d \in Records /\ d.status = s /\ d.raw = r.raw /\ d.final = r.final
      /\ d.parent = r.parent
  BY DEF Records, Nonterminal
<1> DEFINE d == [r EXCEPT !.status = s]
<1> HIDE DEF d
<1>2. Backed(j, d) /\ After(r, d)
  BY <1>1 DEF Backed, After, d
<1> QED BY <1>1, <1>2 DEF d

LEMMA CommitsCallContent ==
  ASSUME FoldersInv, ContentInv, NEW t \in Threads,
         CancelLoaded(t) \/ WorkCommits(t) \/ WorkFails(t)
  PROVE  ContentInv'
<1> DEFINE c == jobCall[t]
<1>1. /\ c.step \in Holding /\ c.op \in {"look", "work"}
      /\ UNCHANGED <<folder, record, raw, processed, slotLock, cutShort>>
  BY DEF CancelLoaded, WorkCommits, WorkFails, Ready, JobAt, jobFiles, Holding
<1>2. /\ c.seen \in Records /\ c.job \in Jobs
      /\ Backed(c.job, c.seen)
  BY <1>1 DEF FoldersInv, TypeInv, HolderInv, Call, ContentInv, Fine, SnapFine,
              Holding
<1>3. PICK s \in {"active", "completed", "ended"} :
        JobGo(t, Commits(c, [c.seen EXCEPT !.status = s]))
  BY DEF CancelLoaded, WorkCommits, WorkFails, Ended
<1> DEFINE r == [c.seen EXCEPT !.status = s]
<1>4. r \in Records /\ Backed(c.job, r) /\ After(c.seen, r)
  BY <1>2, StatusBacked
<1> HIDE DEF r
<1>5. JobGo(t, Commits(c, r))
  BY <1>3 DEF r
<1> QED BY <1>1, <1>4, <1>5, CommitsContent

LEMMA SlotStepContent ==
  ASSUME FoldersInv, ContentInv, NEW t \in Threads,
         BeginSlot(t) \/ ScanNext(t) \/ Scanned(t) \/ SlotFree(t)
  PROVE  ContentInv'
<1> DEFINE c == jobCall[t]
<1>1. c \in Call /\ c.todo \subseteq Jobs /\ SlotFine(t)
  BY DEF FoldersInv, TypeInv, Call, ContentInv, Fine
<1>2. UNCHANGED <<folder, record, raw, processed, cutShort>>
  BY DEF BeginSlot, ScanNext, Scanned, SlotFree, jobFiles
<1>3. c.op \in {"idle", "open"}
  BY <1>1 DEF BeginSlot, ScanNext, Scanned, SlotFree, JobAt, SlotFine
<1>4. ASSUME NEW todo \in SUBSET Jobs, \A j \in todo : Published(j),
             JobGo(t, [JobIdle EXCEPT !.op = "open", !.step = "scan",
                                      !.todo = todo]),
             slotLock \in {NoThread, t}, slotLock' = t
      PROVE  ContentInv'
  <2> DEFINE d == [JobIdle EXCEPT !.op = "open", !.step = "scan",
                                  !.todo = todo]
  <2>1. d \in Call /\ d.step = "scan" /\ d.op = "open" /\ d.todo = todo
    BY IdleCall DEF Call, Ops, Steps
  <2>2. OthersStay(t, d)
    BY <1>4, <2>1, GoStays DEF FoldersInv
  <2> HIDE DEF d
  <2>3. jobCall'[t] = d
    BY <2>2 DEF OthersStay
  <2>4. Fine(t)'
    BY <1>2, <1>4, <2>1, <2>3
    DEF Fine, SlotFine, SnapFine, PublishFine, Holding, Published
  <2> QED BY <1>2, <1>3, <1>4, <2>1, <2>2, <2>4, ContentQuiet DEF Publishers
<1>5. CASE BeginSlot(t)
  <2>1. {j \in Jobs : Published(j)} \in SUBSET Jobs
    OBVIOUS
  <2> QED BY <1>4, <1>5, <2>1 DEF BeginSlot
<1>6. CASE ScanNext(t)
  <2>1. PICK j \in c.todo :
          JobGo(t, [BeginLoad(c, j) EXCEPT !.todo = @ \ {j}])
    BY <1>6 DEF ScanNext
  <2> DEFINE d == [BeginLoad(c, j) EXCEPT !.todo = @ \ {j}]
  <2>2. /\ d \in Call /\ d.step = "layout" /\ d.job = j /\ d.op = c.op
        /\ d.todo = c.todo \ {j} /\ j \in Jobs
    BY <1>1 DEF BeginLoad, Call, Steps
  <2>3. OthersStay(t, d)
    BY <2>1, <2>2, GoStays DEF FoldersInv
  <2>4. slotLock' = slotLock /\ c.op = "open"
    BY <1>1, <1>6 DEF ScanNext, SlotFine, JobAt
  <2> HIDE DEF d
  <2>5. jobCall'[t] = d
    BY <2>3 DEF OthersStay
  <2>6. Fine(t)'
    BY <1>1, <1>2, <2>2, <2>4, <2>5
    DEF Fine, SlotFine, SnapFine, PublishFine, Holding, Published
  <2> QED BY <1>2, <2>2, <2>3, <2>4, <2>6, ContentQuiet DEF Publishers
<1>7. CASE Scanned(t)
  <2>1. CASE JobReturn(t)
    BY <1>2, <1>3, <2>1, ReturnContent
  <2>2. CASE /\ JobGo(t, [JobIdle EXCEPT !.op = "open", !.step = "scan",
                                         !.todo = c.todo])
             /\ UNCHANGED slotLock
    <3>1. c.op = "open" /\ slotLock = t /\ slotLock' = t
      BY <1>1, <1>7, <2>2 DEF Scanned, SlotFine
    <3>2. \A j \in c.todo : Published(j)
      BY <1>1, <3>1 DEF SlotFine
    <3> QED BY <1>1, <1>4, <2>2, <3>1, <3>2
  <2> QED BY <1>7, <2>1, <2>2 DEF Scanned
<1>8. CASE SlotFree(t)
  <2>1. PICK p \in Jobs \cup {NoJob}, j \in Jobs, o \in {"retry", "create"} :
          /\ p \in Jobs => Published(p)
          /\ folder[j] = "absent"
          /\ o = "retry" <=> p \in Jobs
          /\ JobGo(t, [JobStep(t, "make") EXCEPT !.op = o, !.job = j,
                                                 !.parent = p])
    BY <1>8 DEF SlotFree
  <2> DEFINE d == [JobStep(t, "make") EXCEPT !.op = o, !.job = j, !.parent = p]
  <2>2. /\ d \in Call /\ d.step = "make" /\ d.job = j /\ d.op = o
        /\ d.parent = p
    BY <1>1 DEF JobStep, Call, Steps, Ops
  <2>3. OthersStay(t, d)
    BY <2>1, <2>2, GoStays DEF FoldersInv
  <2>4. c.op = "open" /\ slotLock' = slotLock /\ slotLock = t
    BY <1>1, <1>8 DEF SlotFree, SlotFine, JobAt
  <2> HIDE DEF d
  <2>5. jobCall'[t] = d
    BY <2>3 DEF OthersStay
  <2>6. Fine(t)'
    BY <1>2, <2>1, <2>2, <2>4, <2>5
    DEF Fine, SlotFine, SnapFine, PublishFine, Holding, Published
  <2>7. ASSUME NEW u \in Threads, jobCall[u].op \in Publishers
        PROVE  jobCall[u].job # j
    <3>1. SlotFine(u)
      BY DEF ContentInv, Fine
    <3>2. jobCall[u].op = "work"
      BY <2>4, <2>7, <3>1 DEF SlotFine, Publishers
    <3>3. Published(jobCall[u].job)
      BY <3>1, <3>2 DEF SlotFine
    <3> QED BY <2>1, <3>3 DEF Published
  <2> QED BY <1>2, <2>2, <2>3, <2>4, <2>6, <2>7, ContentQuiet
<1> QED BY <1>5, <1>6, <1>7, <1>8

LEMMA ReturnCallContent ==
  ASSUME FoldersInv, ContentInv, NEW t \in Threads,
         CallEnds(t) \/ SlotUnused(t) \/ RetryDone(t) \/ WorkEnds(t)
  PROVE  ContentInv'
<1> DEFINE c == jobCall[t]
<1>1. JobReturn(t) /\ UNCHANGED <<folder, record, raw, processed>>
  BY DEF CallEnds, SlotUnused, RetryDone, WorkEnds, jobFiles
<1>2. cutShort \subseteq cutShort'
  BY DEF CallEnds, SlotUnused, RetryDone, WorkEnds
<1>3. ASSUME c.op = "retry" PROVE c.job \in cutShort' \/ ~Unrecorded(c.job)
  <2>1. RetryDone(t)
    BY <1>3 DEF CallEnds, SlotUnused, RetryDone, WorkEnds, Ready, JobAt,
                ContentInv, Fine, SlotFine
  <2>2. CASE c.step = "committed"
    <3>1. c.seen.raw \/ raw[c.job] # "whole"
      BY <1>3, <2>2 DEF ContentInv, Fine, PublishFine
    <3>2. After(c.seen, record[c.job])
      BY <2>2 DEF ContentInv, Fine, SnapFine, Holding
    <3> QED BY <3>1, <3>2 DEF After, Unrecorded
  <2>3. CASE c.step # "committed"
    BY <2>1, <2>3 DEF RetryDone, JobAt
  <2> QED BY <2>2, <2>3
<1> QED BY <1>1, <1>2, <1>3, ReturnContent

-----------------------------------------------------------------------------
(* The steps that change a record, a folder or a directory *)

\* A commit takes its snapshot, and leaves the record that it built.
LEMMA CommitContent ==
  ASSUME FoldersInv, ContentInv, NEW t \in Threads, CommitStep(t)
  PROVE  ContentInv'
<1> DEFINE c == jobCall[t]
           j == c.job
<1>1. /\ c \in Call /\ c.seen \in Records /\ c.next \in Records
      /\ c.seen.revision \in Nat /\ record \in [Jobs -> Records]
      /\ c.step \notin {"idle", "away", "scan"} => j \in Jobs
      /\ SlotFine(t) /\ SnapFine(t) /\ PublishFine(t)
  BY DEF FoldersInv, TypeInv, HolderInv, Call, Records, ContentInv, Fine
<1>2. CASE CommitCheck(t) \/ CommitConflict(t) \/ CommitFails(t)
  <2>1. PICK s \in {"replace", "uncommitted"} :
          /\ JobGo(t, JobStep(t, s)) \/ Wrote(t, JobStep(t, s))
          /\ s = "replace" => c.step = "commit"
    BY <1>2 DEF CommitCheck, CommitConflict, CommitFails, JobAt
  <2> DEFINE d == JobStep(t, s)
  <2>2. /\ d \in Call /\ d.op = c.op /\ d.step = s /\ d.job = j
        /\ d.parent = c.parent /\ d.seen = c.seen /\ d.next = c.next
        /\ d.todo = c.todo
    BY StepTo DEF FoldersInv, Steps
  <2>3. OthersStay(t, d)
    BY <2>1, <2>2, GoStays, WroteStays DEF FoldersInv
  <2>4. /\ UNCHANGED <<folder, record, raw, processed, slotLock, cutShort>>
        /\ c.step \in {"commit", "replace"}
    BY <1>2 DEF CommitCheck, CommitConflict, CommitFails, JobAt, jobFiles
  <2> HIDE DEF d
  <2> QED BY <2>1, <2>2, <2>3, <2>4, PlaceContent DEF Holding
<1>3. CASE CommitReplace(t)
  <2> DEFINE d == JobStep(t, "close")
  <2>1. /\ d \in Call /\ d.step = "close" /\ d.job = j /\ d.op = c.op
        /\ d.parent = c.parent /\ d.seen = c.seen /\ d.next = c.next
        /\ d.todo = c.todo
    BY StepTo DEF FoldersInv, Steps
  <2>2. /\ c.step = "replace" /\ j \in Jobs /\ jobLock = t
        /\ record[j].revision = c.seen.revision
        /\ c.next.revision = c.seen.revision + 1
    BY <1>1, <1>3 DEF CommitReplace, JobAt, FoldersInv, HolderInv
  <2>3. /\ record' = [record EXCEPT ![j] = c.next]
        /\ UNCHANGED <<folder, raw, processed, slotLock, cutShort>>
    BY <1>3 DEF CommitReplace
  <2>4. OthersStay(t, d)
    BY <1>3, <2>1, WroteStays DEF CommitReplace, FoldersInv
  <2> HIDE DEF d
  <2>5. jobCall'[t] = d
    BY <2>4 DEF OthersStay
  <2>6. /\ record'[j] = c.next /\ record' \in [Jobs -> Records]
        /\ \A i \in Jobs \ {j} : record'[i] = record[i]
    BY <1>1, <2>2, <2>3
  <2>7. /\ c.seen = record[j] /\ Published(j)
        /\ After(c.seen, c.next) /\ Backed(j, c.seen) /\ Backed(j, c.next)
    BY <1>1, <2>2 DEF SlotFine, SnapFine, Holding
  <2>8. Grows
    BY <2>2, <2>3, <2>6, <2>7, <1>1 DEF Grows, After, Published
  <2>9. /\ c.next.raw => raw'[j] = "whole"
        /\ c.next.final = "completed" => processed'[j] = "whole"
        /\ c.next.final = "inherited" =>
             /\ c.next.parent \in Jobs
             /\ folder'[c.next.parent] = "published"
             /\ record'[c.next.parent].final # "pending"
    BY <2>2, <2>7, <2>8, BackedGrows
  <2>10. /\ c.seen.raw => raw'[j] = "whole"
         /\ c.seen.final = "completed" => processed'[j] = "whole"
         /\ c.seen.final = "inherited" =>
              /\ c.seen.parent \in Jobs
              /\ folder'[c.seen.parent] = "published"
              /\ record'[c.seen.parent].final # "pending"
    BY <2>2, <2>7, <2>8, BackedGrows
  <2>11. Fine(t)'
    <3>1. SlotFine(t)'
      BY <1>1, <2>1, <2>2, <2>3, <2>5 DEF SlotFine, Published
    <3>2. SnapFine(t)'
      <4>1. /\ After(c.seen, record'[j])
            /\ c.seen.revision \leq record'[j].revision
            /\ c.seen.revision # record'[j].revision
        BY <1>1, <2>2, <2>6, <2>7
      <4> HIDE DEF c
      <4> QED BY <2>1, <2>5, <2>6, <2>10, <4>1
              DEF SnapFine, Backed, Published, c
    <3>3. PublishFine(t)'
      BY <1>1, <2>1, <2>2, <2>3, <2>5 DEF PublishFine
    <3> QED BY <3>1, <3>2, <3>3 DEF Fine
  <2>12. \A i \in Jobs :
           /\ folder'[i] = "published" =>
                \/ Published(i) /\ record'[i] = record[i]
                \/ Backed(i, record[i])'
           /\ folder'[i] # "published" =>
                raw'[i] = raw[i] /\ processed'[i] = processed[i]
    BY <2>3, <2>6, <2>9 DEF Published, Backed
  <2>13. \A i \in Jobs : Unrecorded(i)' => Unrecorded(i)
    BY <2>3, <2>6, <2>7 DEF Unrecorded, Published, After
  <2> QED BY <2>1, <2>2, <2>3, <2>4, <2>6, <2>8, <2>11, <2>12, <2>13,
             ContentKept
<1>4. CASE CommitClose(t)
  <2> DEFINE d == [JobStep(t, "committed") EXCEPT
                     !.seen = c.next, !.next = NewRecord(NoJob)]
             e == JobStep(t, "uncommitted")
  <2>1. /\ d \in Call /\ d.step = "committed" /\ d.job = j /\ d.op = c.op
        /\ d.parent = c.parent /\ d.seen = c.next /\ d.todo = c.todo
    BY <1>1, NewRecords DEF JobStep, Call, Steps
  <2>2. /\ e \in Call /\ e.op = c.op /\ e.step = "uncommitted" /\ e.job = j
        /\ e.parent = c.parent /\ e.seen = c.seen /\ e.next = c.next
        /\ e.todo = c.todo
    BY StepTo DEF FoldersInv, Steps
  <2>3. c.step = "close" /\ j \in Jobs
    BY <1>1, <1>4 DEF CommitClose, JobAt
  <2>4. /\ UNCHANGED <<folder, record, raw, processed, slotLock, cutShort>>
        /\ Wrote(t, d) \/ Wrote(t, e)
    BY <1>4 DEF CommitClose, jobFiles
  <2> HIDE DEF d, e
  <2>5. CASE Wrote(t, e)
    <3>1. OthersStay(t, e)
      BY <2>2, <2>5, WroteStays DEF FoldersInv
    <3> QED BY <2>2, <2>3, <2>4, <3>1, PlaceContent DEF Holding
  <2>6. CASE Wrote(t, d)
    <3>1. OthersStay(t, d)
      BY <2>1, <2>6, WroteStays DEF FoldersInv
    <3>2. jobCall'[t] = d
      BY <3>1 DEF OthersStay
    <3>3. record[j] = c.next /\ Published(j) /\ Backed(j, record[j])
      BY <1>1, <2>3 DEF SlotFine, SnapFine, ContentInv, FilesInv
    <3>4. SlotFine(t)'
      BY <1>1, <2>1, <2>3, <2>4, <3>2 DEF SlotFine, Published
    <3>5. SnapFine(t)'
      <4>1. c.next.revision \in Nat
        BY <1>1 DEF Records
      <4> QED BY <2>1, <2>4, <3>2, <3>3, <4>1
              DEF SnapFine, Backed, After, Published
    <3>6. PublishFine(t)'
      BY <1>1, <2>1, <2>3, <2>4, <3>2 DEF PublishFine
    <3> QED BY <2>1, <2>4, <3>1, <3>4, <3>5, <3>6, ContentQuiet DEF Fine
  <2> QED BY <2>4, <2>5, <2>6
<1> QED BY <1>2, <1>3, <1>4 DEF CommitStep

\* A folder is made and renamed before anything is published in it.
LEMMA FolderContent ==
  ASSUME FoldersInv, ContentInv, NEW t \in Threads,
         MakeFolder(t) \/ RenameFolder(t) \/ CreateFails(t)
  PROVE  ContentInv'
<1> DEFINE c == jobCall[t]
           j == c.job
<1>1. /\ c \in Call /\ j \in Jobs /\ c.step \in {"make", "rename"}
      /\ c.op \in {"create", "retry"} /\ slotLock = t
      /\ c.op = "retry" => c.parent \in Jobs /\ Published(c.parent)
      /\ c.op = "retry" => c.parent # j
      /\ ~Published(j) /\ raw[j] = "absent" /\ processed[j] = "absent"
  <2>1. /\ c \in Call /\ j \in Jobs /\ c.step \in {"make", "rename"}
        /\ SlotFine(t) /\ (c.step = "rename" => folder[j] = "temp")
    BY DEF FoldersInv, TypeInv, HolderInv, MakeFolder, RenameFolder,
           CreateFails, JobAt, ContentInv, Fine
  <2>2. ~Published(j)
    BY <2>1 DEF SlotFine, Published
  <2> QED BY <2>1, <2>2 DEF SlotFine, ContentInv, FilesInv
<1>2. /\ \A i \in Jobs \ {j} :
           folder'[i] = folder[i] /\ record'[i] = record[i]
      /\ UNCHANGED <<raw, processed, cutShort>>
      /\ c.step = "make" => record' = record
      /\ jobLock # t => record' = record
      /\ record' \in [Jobs -> Records]
  <2>1. CASE MakeFolder(t) \/ CreateFails(t)
    BY <2>1, <1>1 DEF MakeFolder, CreateFails, FoldersInv, TypeInv
  <2>2. CASE RenameFolder(t)
    <3>1. NewRecord(c.parent) \in Records
      BY <1>1, NewRecords DEF Call
    <3>2. c.step = "rename" /\ jobLock = t
      BY <2>2 DEF RenameFolder, JobAt, FoldersInv, HolderInv
    <3> QED BY <1>1, <2>2, <3>1, <3>2 DEF RenameFolder, FoldersInv, TypeInv
  <2> QED BY <2>1, <2>2
<1>3. Grows
  BY <1>1, <1>2 DEF Grows, After, Published
<1>4. \A i \in Jobs : Unrecorded(i)' => Unrecorded(i)
  BY <1>1, <1>2 DEF Unrecorded, Published
<1>5. CASE MakeFolder(t)
  <2> DEFINE d == JobStep(t, "rename")
  <2>1. /\ d \in Call /\ d.step = "rename" /\ d.job = j /\ d.op = c.op
        /\ d.parent = c.parent
    BY StepTo DEF FoldersInv, Steps
  <2>2. OthersStay(t, d) /\ slotLock' = slotLock /\ folder'[j] = "temp"
    BY <1>1, <1>5, <2>1, GoStays DEF MakeFolder, FoldersInv, TypeInv
  <2> HIDE DEF d
  <2>3. jobCall'[t] = d
    BY <2>2 DEF OthersStay
  <2>4. Fine(t)'
    BY <1>1, <1>2, <2>1, <2>2, <2>3
    DEF Fine, SlotFine, SnapFine, PublishFine, Holding, Published
  <2>5. \A i \in Jobs :
          folder'[i] = "published" => Published(i) /\ record'[i] = record[i]
    BY <1>2, <2>2 DEF Published
  <2> QED BY <1>1, <1>2, <1>3, <1>4, <2>1, <2>2, <2>4, <2>5, ContentKept
<1>6. CASE CreateFails(t)
  <2>1. OthersStay(t, JobIdle) /\ folder'[j] # "published"
    BY <1>1, <1>6, GoStays, IdleCall
    DEF CreateFails, JobReturn, Published, FoldersInv, TypeInv
  <2>2. jobCall'[t].step = "idle" /\ jobCall'[t].op = "idle"
    BY <2>1, IdleCall DEF OthersStay
  <2>3. Fine(t)'
    BY <2>2 DEF Fine, SlotFine, SnapFine, PublishFine, Holding
  <2>4. \A i \in Jobs :
          folder'[i] = "published" => Published(i) /\ record'[i] = record[i]
    BY <1>2, <2>1 DEF Published
  <2>5. \A i \in Jobs : i = j => ~Unrecorded(i)'
    BY <1>1, <1>2 DEF Unrecorded
  <2> QED BY <1>1, <1>2, <1>3, <1>4, <2>1, <2>3, <2>4, <2>5, IdleCall,
             ContentKept DEF Publishers
<1>7. CASE RenameFolder(t)
  <2> DEFINE r == NewRecord(c.parent)
  <2>1. r.raw = FALSE /\ r.final = "pending" /\ r.parent = c.parent
    BY DEF NewRecord
  <2>2. r \in Records
    BY <1>1, NewRecords DEF Call
  <2> HIDE DEF r
  <2>3. folder'[j] = "published" /\ record'[j] = r
    BY <1>1, <1>7 DEF RenameFolder, FoldersInv, TypeInv, r
  <2>4. \A i \in Jobs :
          /\ folder'[i] = "published" =>
               \/ Published(i) /\ record'[i] = record[i]
               \/ Backed(i, record[i])'
    BY <1>2, <2>1, <2>3 DEF Published, Backed
  <2>5. \A i \in Jobs : i = j => ~Unrecorded(i)'
    BY <1>1, <1>2 DEF Unrecorded
  <2>6. CASE JobReturn(t)
    <3>1. OthersStay(t, JobIdle) /\ (slotLock # t => slotLock' = slotLock)
      BY <2>6, GoStays, IdleCall DEF JobReturn, FoldersInv
    <3>2. jobCall'[t].step = "idle" /\ jobCall'[t].op = "idle"
      BY <3>1, IdleCall DEF OthersStay
    <3>3. Fine(t)'
      BY <3>2 DEF Fine, SlotFine, SnapFine, PublishFine, Holding
    <3> QED BY <1>1, <1>2, <1>3, <1>4, <2>4, <2>5, <2>6, <3>1, <3>3, IdleCall,
               ContentKept DEF Publishers
  <2>7. CASE /\ c.op = "retry" /\ UNCHANGED slotLock
             /\ JobGo(t, [JobStep(t, "created") EXCEPT !.seen = record'[j]])
    <3> DEFINE d == [JobStep(t, "created") EXCEPT !.seen = record'[j]]
    <3>1. /\ d \in Call /\ d.step = "created" /\ d.job = j /\ d.op = c.op
          /\ d.parent = c.parent /\ d.seen = r
      BY <1>1, <2>2, <2>3 DEF JobStep, Call, Steps
    <3>2. OthersStay(t, d) /\ slotLock' = slotLock
      BY <2>7, <3>1, GoStays DEF FoldersInv
    <3> HIDE DEF d
    <3>3. jobCall'[t] = d
      BY <3>2 DEF OthersStay
    <3>4. SlotFine(t)'
      BY <1>1, <1>2, <2>3, <3>1, <3>2, <3>3 DEF SlotFine, Published
    <3>5. SnapFine(t)'
      <4>1. r.revision \in Nat
        BY <2>2 DEF Records
      <4> QED BY <2>1, <2>3, <3>1, <3>3, <4>1 DEF SnapFine, Backed, After
    <3>6. PublishFine(t)'
      BY <1>1, <1>2, <2>1, <3>1, <3>3 DEF PublishFine
    <3>7. Fine(t)'
      BY <3>4, <3>5, <3>6 DEF Fine
    <3> QED BY <1>1, <1>2, <1>3, <1>4, <2>4, <2>7, <3>1, <3>2, <3>7,
               ContentKept
  <2> QED BY <1>7, <2>6, <2>7 DEF RenameFolder
<1> QED BY <1>5, <1>6, <1>7

\* What SetContent leaves alone.
LEMMA SetOne ==
  ASSUME FoldersInv, NEW t \in Threads, NEW value \in Directories,
         SetContent(t, value), jobCall[t].job \in Jobs
  PROVE  LET j == jobCall[t].job IN
         /\ \A i \in Jobs \ {j} :
              raw'[i] = raw[i] /\ processed'[i] = processed[i]
         /\ jobCall[t].seen.raw => raw'[j] = raw[j] /\ processed'[j] = value
         /\ ~jobCall[t].seen.raw => processed'[j] = processed[j] /\ raw'[j] = value
BY DEF SetContent, Directory, FoldersInv, TypeInv

LEMMA PublishStageContent ==
  ASSUME FoldersInv, ContentInv, NEW t \in Threads, PublishStage(t),
         jobCall[t].step \in {"loaded", "committed", "created"},
         jobCall[t].op \in Publishers,
         jobCall[t].op = "work" => jobCall[t].seen.status # "queued",
         jobCall[t].op = "retry" => jobCall[t].step = "created"
  PROVE  ContentInv'
<1> DEFINE c == jobCall[t]
           j == c.job
<1>1. /\ c \in Call /\ j \in Jobs /\ Published(j)
      /\ SlotFine(t) /\ SnapFine(t) /\ PublishFine(t) /\ Backed(j, c.seen)
  BY DEF FoldersInv, TypeInv, HolderInv, ContentInv, Fine, SlotFine, SnapFine,
         Holding
<1>2. CASE Content(t) = "whole"
  <2> DEFINE d == JobStep(t, "unpublished")
  <2>1. /\ d \in Call /\ d.step = "unpublished" /\ d.job = j /\ d.op = c.op
        /\ d.parent = c.parent /\ d.seen = c.seen /\ d.next = c.next
        /\ d.todo = c.todo
    BY StepTo DEF FoldersInv, Steps
  <2>2. OthersStay(t, d)
    BY <1>2, <2>1, GoStays DEF PublishStage, FoldersInv
  <2>3. UNCHANGED <<folder, record, raw, processed, slotLock, cutShort>>
    BY <1>2 DEF PublishStage
  <2> HIDE DEF d
  <2> QED BY <2>1, <2>2, <2>3, PlaceContent DEF Holding
<1>3. CASE Content(t) # "whole"
  <2> DEFINE d == JobStep(t, "publish")
  <2>1. /\ d \in Call /\ d.step = "publish" /\ d.job = j /\ d.op = c.op
        /\ d.parent = c.parent /\ d.seen = c.seen /\ d.todo = c.todo
    BY StepTo DEF FoldersInv, Steps
  <2>2. OthersStay(t, d) /\ SetContent(t, "temp")
    BY <1>3, <2>1, WroteStays DEF PublishStage, FoldersInv
  <2>3. UNCHANGED <<folder, record, jobLock, slotLock, cutShort>>
    BY <1>3 DEF PublishStage
  <2>4. /\ \A i \in Jobs \ {j} :
             raw'[i] = raw[i] /\ processed'[i] = processed[i]
        /\ c.seen.raw =>
             raw'[j] = raw[j] /\ processed'[j] = "temp" /\ processed[j] # "whole"
        /\ ~c.seen.raw =>
             processed'[j] = processed[j] /\ raw'[j] = "temp" /\ raw[j] # "whole"
    BY <1>1, <1>3, <2>2, SetOne DEF Directories, Content, Directory
  <2> HIDE DEF d
  <2>5. jobCall'[t] = d
    BY <2>2 DEF OthersStay
  <2>6. Grows
    BY <2>3, <2>4 DEF Grows, After, Published
  <2>7. Fine(t)'
    <3>1. SlotFine(t)'
      BY <1>1, <2>1, <2>3, <2>5 DEF SlotFine, Published
    <3>2. SnapFine(t)'
      <4>1. /\ c.seen.raw => raw'[j] = "whole"
            /\ c.seen.final = "completed" => processed'[j] = "whole"
            /\ c.seen.final = "inherited" =>
                 /\ c.seen.parent \in Jobs
                 /\ folder'[c.seen.parent] = "published"
                 /\ record'[c.seen.parent].final # "pending"
        BY <1>1, <2>6, BackedGrows
      <4> QED BY <1>1, <2>1, <2>3, <2>5, <4>1
              DEF SnapFine, Backed, Published, Holding
    <3>3. PublishFine(t)'
      BY <1>1, <2>1, <2>4, <2>5 DEF PublishFine, Publishers
    <3> QED BY <3>1, <3>2, <3>3 DEF Fine
  <2>8. \A i \in Jobs :
          /\ folder'[i] = "published" => Published(i) /\ record'[i] = record[i]
          /\ folder'[i] # "published" =>
               raw'[i] = raw[i] /\ processed'[i] = processed[i]
    BY <1>1, <2>3, <2>4 DEF Published
  <2>9. \A i \in Jobs : Unrecorded(i)' => Unrecorded(i)
    BY <2>3, <2>4 DEF Unrecorded, Published
  <2>10. record' \in [Jobs -> Records]
    BY <2>3 DEF FoldersInv, TypeInv
  <2> QED BY <2>1, <2>2, <2>3, <2>4, <2>6, <2>7, <2>8, <2>9, <2>10,
             ContentKept
<1> QED BY <1>2, <1>3

\* What a publication records is in the directory that it renames, or was
\* recorded before, or is the parent's.
LEMMA RecordedFields ==
  ASSUME FoldersInv, ContentInv, NEW t \in Threads, PublishRename(t)
  PROVE  LET c == jobCall[t]
             r == Recorded(t)
         IN
         /\ r \in Records /\ After(c.seen, r)
         /\ c.op = "retry" => r.raw
         /\ r.raw => c.seen.raw \/ raw'[c.job] = "whole"
         /\ r.final = "completed" =>
              \/ c.seen.final = "completed"
              \/ processed'[c.job] = "whole"
         /\ r.final = "inherited" =>
              \/ c.seen.final = "inherited" /\ r.parent = c.seen.parent
              \/ /\ r.parent \in Jobs /\ Published(r.parent)
                 /\ record[r.parent].final # "pending"
<1> DEFINE c == jobCall[t]
           s == c.seen
<1>1. /\ s \in Records /\ c.op \in Publishers /\ PublishFine(t) /\ SlotFine(t)
      /\ c.job \in Jobs /\ c.step = "publish"
  BY DEF FoldersInv, TypeInv, HolderInv, Call, ContentInv, Fine, PublishFine,
         PublishRename, JobAt
<1>2. /\ s.raw => processed'[c.job] = "whole"
      /\ ~s.raw => raw'[c.job] = "whole"
  BY <1>1, SetOne DEF PublishRename, Directories
<1>3. CASE c.op = "retry"
  <2> DEFINE f == IF FinalReadable(c.parent) THEN "inherited" ELSE "pending"
             r == [s EXCEPT !.raw = TRUE, !.final = f]
  <2>1. f \in {"inherited", "pending"}
    OBVIOUS
  <2>2. f = "inherited" => record[c.parent].final # "pending"
    BY DEF FinalReadable
  <2>3. Recorded(t) = r
    BY <1>3 DEF Recorded
  <2> HIDE DEF f
  <2>4. /\ r \in Records /\ r.raw /\ r.final = f /\ r.parent = s.parent
        /\ r.status = s.status
    BY <1>1, <2>1 DEF Records
  <2>5. ~s.raw /\ s.final = "pending" /\ s.parent = c.parent
        /\ c.parent \in Jobs /\ Published(c.parent)
    BY <1>1, <1>3 DEF PublishFine, SlotFine
  <2> HIDE DEF r
  <2> QED BY <1>2, <2>1, <2>2, <2>3, <2>4, <2>5 DEF After
<1>4. CASE c.op = "work" /\ s.raw
  <2> DEFINE r == [s EXCEPT !.final = "completed"]
  <2>1. Recorded(t) = r
    BY <1>4 DEF Recorded
  <2>2. /\ r \in Records /\ r.raw /\ r.final = "completed"
        /\ r.parent = s.parent /\ r.status = s.status
    BY <1>1, <1>4 DEF Records
  <2> HIDE DEF r
  <2> QED BY <1>2, <1>4, <2>1, <2>2 DEF After
<1>5. CASE c.op = "work" /\ ~s.raw
  <2> DEFINE r == [s EXCEPT !.raw = TRUE]
  <2>1. Recorded(t) = r
    BY <1>5 DEF Recorded
  <2>2. /\ r \in Records /\ r.raw /\ r.final = s.final
        /\ r.parent = s.parent /\ r.status = s.status
    BY <1>1 DEF Records
  <2> HIDE DEF r
  <2> QED BY <1>2, <1>5, <2>1, <2>2 DEF After
<1> QED BY <1>1, <1>3, <1>4, <1>5 DEF Publishers

LEMMA PublishContent ==
  ASSUME FoldersInv, ContentInv, NEW t \in Threads, PublishStep(t)
  PROVE  ContentInv'
<1> DEFINE c == jobCall[t]
           j == c.job
<1>1. c.step = "publish" /\ c \in Call /\ j \in Jobs
  BY DEF PublishStep, PublishRename, PublishFails, JobAt, FoldersInv, TypeInv,
         HolderInv
<1>2. /\ SlotFine(t) /\ SnapFine(t) /\ PublishFine(t)
      /\ Backed(j, c.seen) /\ After(c.seen, record[j]) /\ Published(j)
      /\ c.op \in Publishers
  BY <1>1 DEF ContentInv, Fine, SlotFine, SnapFine, PublishFine, Holding
<1>3. PICK value \in Directories :
        /\ SetContent(t, value)
        /\ \/ PublishRename(t) /\ value = "whole"
           \/ Wrote(t, JobStep(t, "unpublished"))
  BY DEF PublishStep, PublishRename, PublishFails, Directories
<1>4. UNCHANGED <<folder, record, jobLock, slotLock, cutShort>>
  BY DEF PublishStep, PublishRename, PublishFails
<1>5. /\ \A i \in Jobs \ {j} :
           raw'[i] = raw[i] /\ processed'[i] = processed[i]
      /\ c.seen.raw =>
           raw'[j] = raw[j] /\ processed'[j] = value /\ processed[j] = "temp"
      /\ ~c.seen.raw =>
           processed'[j] = processed[j] /\ raw'[j] = value /\ raw[j] = "temp"
  BY <1>1, <1>2, <1>3, SetOne DEF Directories, PublishFine
<1>6. Grows
  BY <1>4, <1>5 DEF Grows, After, Published
<1>7. /\ c.seen.raw => raw'[j] = "whole"
      /\ c.seen.final = "completed" => processed'[j] = "whole"
      /\ c.seen.final = "inherited" =>
           /\ c.seen.parent \in Jobs
           /\ folder'[c.seen.parent] = "published"
           /\ record'[c.seen.parent].final # "pending"
  BY <1>1, <1>2, <1>6, BackedGrows
<1>8. \A i \in Jobs :
        /\ folder'[i] = "published" => Published(i) /\ record'[i] = record[i]
        /\ folder'[i] # "published" =>
             raw'[i] = raw[i] /\ processed'[i] = processed[i]
  BY <1>2, <1>4, <1>5 DEF Published
<1>9. record' \in [Jobs -> Records]
  BY <1>4 DEF FoldersInv, TypeInv
<1>10. ASSUME NEW d \in Call, OthersStay(t, d), Fine(t)', d.op = c.op,
              d.job = j, c.op = "retry" \/ \A i \in Jobs : Unrecorded(i)' =>
                                                           Unrecorded(i)
       PROVE  ContentInv'
  <2>1. \A i \in Jobs :
          Unrecorded(i)' => Unrecorded(i) \/ (d.op = "retry" /\ d.job = i)
    <3>1. \A i \in Jobs \ {j} : Unrecorded(i)' => Unrecorded(i)
      BY <1>4, <1>5 DEF Unrecorded, Published
    <3> QED BY <1>10, <3>1
  <2> QED BY <1>2, <1>4, <1>5, <1>6, <1>8, <1>9, <1>10, <2>1, ContentKept
<1>11. c.op = "retry" \/ \A i \in Jobs : Unrecorded(i)' => Unrecorded(i)
  <2>1. c.op # "retry" => c.op = "work" /\ c.seen.status # "queued"
    BY <1>1, <1>2 DEF Publishers, PublishFine
  <2>2. c.op # "retry" => record[j].status # "queued"
    BY <1>2, <2>1 DEF After
  <2> QED BY <1>4, <1>5, <2>2 DEF Unrecorded, Published
<1>12. CASE PublishRename(t) /\ value = "whole"
  <2> DEFINE r == Recorded(t)
             d == Commits(c, r)
  <2>1. /\ r \in Records /\ After(c.seen, r) /\ (c.op = "retry" => r.raw)
        /\ r.raw => c.seen.raw \/ raw'[j] = "whole"
        /\ r.final = "completed" =>
             c.seen.final = "completed" \/ processed'[j] = "whole"
        /\ r.final = "inherited" =>
             \/ c.seen.final = "inherited" /\ r.parent = c.seen.parent
             \/ /\ r.parent \in Jobs /\ Published(r.parent)
                /\ record[r.parent].final # "pending"
    BY <1>12, RecordedFields
  <2>2. /\ r.raw => raw'[j] = "whole"
        /\ r.final = "completed" => processed'[j] = "whole"
        /\ r.final = "inherited" =>
             /\ r.parent \in Jobs /\ folder'[r.parent] = "published"
             /\ record'[r.parent].final # "pending"
    BY <1>4, <1>7, <2>1 DEF Published
  <2> HIDE DEF r
  <2>3. /\ d \in Call /\ d.op = c.op /\ d.step = "commit" /\ d.job = j
        /\ d.parent = c.parent /\ d.seen = c.seen /\ d.todo = c.todo
        /\ d.next.status = r.status /\ d.next.raw = r.raw
        /\ d.next.final = r.final /\ d.next.parent = r.parent
    BY <2>1, CommitCall DEF FoldersInv
  <2>4. Wrote(t, d)
    BY <1>12 DEF PublishRename, r
  <2> HIDE DEF d
  <2>5. OthersStay(t, d)
    BY <2>3, <2>4, WroteStays DEF FoldersInv
  <2>6. jobCall'[t] = d
    BY <2>5 DEF OthersStay
  <2>7. SlotFine(t)'
    BY <1>1, <1>2, <1>4, <2>3, <2>6 DEF SlotFine, Published
  <2>8. SnapFine(t)'
    BY <1>1, <1>2, <1>4, <1>7, <2>1, <2>2, <2>3, <2>6
    DEF SnapFine, Backed, After, Published, Holding
  <2>9. PublishFine(t)'
    BY <2>1, <2>3, <2>6 DEF PublishFine
  <2> QED BY <1>10, <1>11, <2>3, <2>5, <2>7, <2>8, <2>9 DEF Fine
<1>13. CASE Wrote(t, JobStep(t, "unpublished"))
  <2> DEFINE d == JobStep(t, "unpublished")
  <2>1. /\ d \in Call /\ d.step = "unpublished" /\ d.job = j /\ d.op = c.op
        /\ d.parent = c.parent /\ d.seen = c.seen /\ d.todo = c.todo
    BY StepTo DEF FoldersInv, Steps
  <2>2. Wrote(t, d)
    BY <1>13
  <2> HIDE DEF d
  <2>3. OthersStay(t, d)
    BY <2>1, <2>2, WroteStays DEF FoldersInv
  <2>4. jobCall'[t] = d
    BY <2>3 DEF OthersStay
  <2>5. SlotFine(t)'
    BY <1>1, <1>2, <1>4, <2>1, <2>4 DEF SlotFine, Published
  <2>6. SnapFine(t)'
    BY <1>1, <1>2, <1>4, <1>7, <2>1, <2>4
    DEF SnapFine, Backed, Published, Holding
  <2>7. PublishFine(t)'
    BY <2>1, <2>4 DEF PublishFine
  <2> QED BY <1>10, <1>11, <2>1, <2>3, <2>5, <2>6, <2>7 DEF Fine
<1> QED BY <1>3, <1>12, <1>13

LEMMA RetryRawContent ==
  ASSUME FoldersInv, ContentInv, NEW t \in Threads, RetryRaw(t)
  PROVE  ContentInv'
<1> DEFINE c == jobCall[t]
<1>1. c.op = "retry" /\ c.step = "created"
  BY DEF RetryRaw, JobAt
<1>2. /\ c.seen \in Records /\ Backed(c.job, c.seen)
      /\ raw[c.job] # "whole"
  BY <1>1 DEF FoldersInv, TypeInv, Call, ContentInv, Fine, SnapFine,
              PublishFine, Holding
<1>3. CASE PublishStage(t)
  BY <1>1, <1>3, PublishStageContent DEF Publishers
<1>4. CASE /\ JobGo(t, Commits(c, c.seen))
           /\ UNCHANGED <<jobFiles, jobLock, slotLock, upsets, jobHistory>>
  <2>1. After(c.seen, c.seen)
    BY DEF After
  <2>2. UNCHANGED <<folder, record, raw, processed, slotLock, cutShort>>
    BY <1>4 DEF jobFiles
  <2> QED BY <1>1, <1>2, <1>4, <2>1, <2>2, CommitsContent DEF Holding
<1> QED BY <1>3, <1>4 DEF RetryRaw

\* A restart ends calls, and keeps what is published.
LEMMA RestartContent ==
  ASSUME FoldersInv, ContentInv, JobsRestart
  PROVE  ContentInv'
<1> DEFINE interrupted ==
             {j \in Jobs : Published(j) /\ record[j].status = "active"}
           over(j) ==
             [record[j] EXCEPT !.revision = @ + 1, !.status = "ended"]
<1>1. record' = [j \in Jobs |-> IF j \in interrupted THEN over(j)
                                ELSE record[j]]
  BY DEF JobsRestart
<1>2. \A j \in Jobs :
        /\ over(j).status = "ended" /\ over(j).raw = record[j].raw
        /\ over(j).final = record[j].final
        /\ over(j).parent = record[j].parent
        /\ over(j).revision = record[j].revision + 1
        /\ record[j].revision \in Nat
  BY DEF FoldersInv, TypeInv, Records
<1>3. UNCHANGED <<folder, raw, processed>>
  BY DEF JobsRestart
<1>4. \A t \in Threads : Fine(t) /\ jobCall[t] \in Call
  BY DEF ContentInv, FoldersInv, TypeInv
<1>5. \A t \in Threads :
        jobCall'[t].step \in {"idle", "away"} /\ jobCall'[t].op = "idle"
  <2>1. jobCall' = [t \in Threads |->
          IF jobCall[t].step = "away" THEN jobCall[t] ELSE JobIdle]
    BY DEF JobsRestart, JobAt
  <2>2. \A t \in Threads : jobCall[t].step = "away" => jobCall[t].op = "idle"
    BY <1>4 DEF Fine, SlotFine
  <2> QED BY <2>1, <2>2, IdleCall
<1> HIDE DEF over, interrupted
<1>6. \A j \in Jobs :
        /\ record'[j].raw = record[j].raw
        /\ record'[j].final = record[j].final
        /\ record'[j].parent = record[j].parent
        /\ record'[j].status \in {"ended", record[j].status}
  BY <1>1, <1>2
<1>7. FilesInv'
  BY <1>3, <1>6 DEF ContentInv, FilesInv, Backed, Published
<1>8. OnePublisher'
  BY <1>5 DEF OnePublisher, Publishers
<1>9. \A t \in Threads : Fine(t)'
  BY <1>5 DEF Fine, SlotFine, SnapFine, PublishFine, Holding
<1>10. QueuedInv'
  <2> SUFFICES ASSUME NEW j \in Jobs, Unrecorded(j)'
               PROVE  j \in cutShort'
    BY DEF QueuedInv, LeftByRetry
  <2>1. Unrecorded(j)
    BY <1>3, <1>6 DEF Unrecorded, Published
  <2>2. cutShort' = cutShort \cup {jobCall[t].job : t \in
          {u \in Threads : jobCall[u].op = "retry" /\ jobCall[u].job \in Jobs}}
    BY DEF JobsRestart
  <2> QED BY <2>1, <2>2 DEF ContentInv, QueuedInv, LeftByRetry
<1> QED BY <1>7, <1>8, <1>9, <1>10 DEF ContentInv

LEMMA JobsInitContent == JobsInit => ContentInv
<1> SUFFICES ASSUME JobsInit PROVE ContentInv
  OBVIOUS
<1>1. PICK crew \in SUBSET Threads :
        jobCall = [t \in Threads |->
          IF t \in crew THEN JobIdle ELSE [JobIdle EXCEPT !.step = "away"]]
  BY DEF JobsInit
<1>2. /\ [JobIdle EXCEPT !.step = "away"].step = "away"
      /\ [JobIdle EXCEPT !.step = "away"].op = "idle"
  BY IdleCall DEF Call
<1>3. \A t \in Threads :
        jobCall[t].step \in {"idle", "away"} /\ jobCall[t].op = "idle"
  BY <1>1, <1>2, IdleCall
<1>4. \A t \in Threads : Fine(t)
  BY <1>3 DEF Fine, SlotFine, SnapFine, PublishFine, Holding
<1>5. OnePublisher
  BY <1>3 DEF OnePublisher, Publishers
<1>6. \A j \in Jobs :
        ~Published(j) /\ raw[j] = "absent" /\ processed[j] = "absent"
  BY DEF JobsInit, Published
<1>7. FilesInv /\ QueuedInv
  BY <1>6 DEF FilesInv, QueuedInv, Unrecorded
<1> QED BY <1>4, <1>5, <1>7 DEF ContentInv

\* ContentInv is inductive, given FoldersInv.
LEMMA JobsStepContent ==
  FoldersInv /\ ContentInv /\ [JobsNext]_jobVars => ContentInv'
<1> SUFFICES ASSUME FoldersInv, ContentInv, [JobsNext]_jobVars
             PROVE  ContentInv'
  OBVIOUS
<1>1. CASE UNCHANGED jobVars
  BY <1>1
  DEF jobVars, jobStore, jobFiles, ContentInv, FilesInv, OnePublisher,
      QueuedInv, Unrecorded, LeftByRetry, Fine, SlotFine, SnapFine,
      PublishFine, Backed, Published
<1>2. CASE JobsRestart
  BY <1>2, RestartContent
<1>3. ASSUME NEW t \in Threads,
             LoadStep(t) \/ CommitStep(t) \/ PublishStep(t)
      PROVE  ContentInv'
  BY <1>3, LoadContent, CommitContent, PublishContent
<1>4. ASSUME NEW t \in Threads, CallJobs(t)
      PROVE  ContentInv'
  <2>1. CASE Look(t) \/ Work(t)
    BY <2>1, LookContent
  <2>2. CASE CancelLoaded(t) \/ WorkCommits(t) \/ WorkFails(t)
    BY <2>2, CommitsCallContent
  <2>3. CASE CallEnds(t) \/ SlotUnused(t) \/ RetryDone(t) \/ WorkEnds(t)
    BY <2>3, ReturnCallContent
  <2>4. CASE BeginSlot(t) \/ ScanNext(t) \/ Scanned(t) \/ SlotFree(t)
    BY <2>4, SlotStepContent
  <2>5. CASE MakeFolder(t) \/ RenameFolder(t) \/ CreateFails(t)
    BY <2>5, FolderContent
  <2>6. CASE RetryRaw(t)
    BY <2>6, RetryRawContent
  <2>7. CASE WorkPublishes(t)
    BY <2>7, PublishStageContent DEF WorkPublishes, Ready, Publishers
  <2> QED BY <1>4, <2>1, <2>2, <2>3, <2>4, <2>5, <2>6, <2>7 DEF CallJobs
<1> QED BY <1>1, <1>2, <1>3, <1>4 DEF JobsNext

LEMMA ContentMatches == ContentInv => RecordMatchesFiles
<1> SUFFICES ASSUME ContentInv, NEW j \in Jobs, Published(j)
             PROVE  /\ record[j].raw => raw[j] = "whole"
                    /\ record[j].final = "completed" =>
                         processed[j] = "whole"
                    /\ record[j].final = "inherited" =>
                         LET p == record[j].parent IN
                         /\ record[p].final # "pending"
                         /\ record[p].final = "completed" =>
                              processed[p] = "whole"
                    /\ Unrecorded(j) => LeftByRetry(j)
  BY DEF RecordMatchesFiles, Unrecorded, LeftByRetry
<1> QED BY DEF ContentInv, FilesInv, QueuedInv, Backed

\* For any jobs, threads, upsets: what a record says was published is there
\* and whole, in every state that a crash could keep, and the raw directory
\* of a queued job that no record speaks of is a retry's.
THEOREM RecordsMatchTheirFiles == JobsSpec => []RecordMatchesFiles
<1>1. JobsInit => FoldersInv /\ ContentInv
  BY JobsInitInv, JobsInitContent
<1>2. FoldersInv /\ ContentInv /\ [JobsNext]_jobVars =>
        (FoldersInv /\ ContentInv)'
  BY JobsStepInv, JobsStepContent
<1> QED BY ContentMatches, <1>1, <1>2, PTL DEF JobsSpec
=============================================================================
