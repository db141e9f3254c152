----------------------------- MODULE JobFolders -----------------------------
(***************************************************************************)
(* jobs/store.py, core/atomic_files.py and generation/artifacts.py below   *)
(* the calls of the generation service: the folder jobs/<id>, its          *)
(* state.json and its published directories, one file operation at a time. *)
(* Writers of records share _JOB_WRITE_LOCK; readers take no lock, and the *)
(* publication of artifacts takes none either.  The files are those of     *)
(* Windows, where the product runs: a file a reader holds open cannot be   *)
(* replaced, and one that its writer has just renamed and not yet closed   *)
(* cannot be opened.                                                       *)
(* A job has one batch of one candidate: its raw directory and its         *)
(* processed directory, each published by one rename.                      *)
(***************************************************************************)
EXTENDS StorageFaults

CONSTANTS
  Jobs, NoJob, \* job ids, each given out once
  MaxParties,  \* bound: jobs and threads in use, together
  MaxJobUpsets \* bound: failing file operations and ends of the process

ASSUME JobFoldersAssumption ==
  NoJob \notin Jobs /\ MaxParties \in Nat /\ MaxJobUpsets \in Nat

VARIABLES
  folder,     \* jobs/<id>: unused (bound), absent, temp (<id>.tmp, in whatever state), published
  record,     \* state.json
  stateTemp,  \* jobs with a state.json.tmp
  raw,        \* raw/batch-0: absent, temp (.batch-0.tmp, likewise), whole
  processed,  \* processed/candidate-0, likewise
  jobLock,    \* the holder of _JOB_WRITE_LOCK
  slotLock,   \* the holder of the coordinator's _lock
  jobCall,    \* what a thread is doing
  cutShort,   \* history: children whose retry failed or died half way
  leftovers   \* history: temporaries that a failed removal, or the end of
              \* the process, left where they were

jobFiles == <<folder, record, stateTemp, raw, processed>>

jobHistory == <<cutShort, leftovers>>

jobStore == <<jobFiles, jobLock, slotLock, jobCall, jobHistory>>

jobVars == <<jobStore, upsets>>

Nonterminal == {"queued", "active"}

\* What of state.json the files depend on: failed and canceled are "ended".
NewRecord(parent) ==
  [revision |-> 0, status |-> "queued", raw |-> FALSE, final |-> "pending",
   parent |-> parent]

JobIdle ==
  [op |-> "idle", step |-> "idle", job |-> NoJob, parent |-> NoJob,
   seen |-> NewRecord(NoJob), next |-> NewRecord(NoJob), noted |-> {},
   todo |-> {}, beside |-> FALSE]

JobsInit ==
  /\ \E used \in SUBSET Jobs, crew \in SUBSET Threads :
       /\ Cardinality(used) + Cardinality(crew) = MaxParties
       /\ folder = [j \in Jobs |-> IF j \in used THEN "absent" ELSE "unused"]
       /\ jobCall = [t \in Threads |->
            IF t \in crew THEN JobIdle ELSE [JobIdle EXCEPT !.step = "away"]]
  /\ record = [j \in Jobs |-> NewRecord(NoJob)]
  /\ stateTemp = {}
  /\ raw = [j \in Jobs |-> "absent"]
  /\ processed = [j \in Jobs |-> "absent"]
  /\ jobLock = NoThread /\ slotLock = NoThread
  /\ UpsetsInit /\ cutShort = {} /\ leftovers = {}

LoadSteps == {"layout", "open", "read"}

JobAt(t, place) == jobCall[t].step = place

Loading(t) == jobCall[t].step \in LoadSteps

\* The call of t after one of its steps; a load of the same job beside a
\* step that writes is remembered to have been beside it.
JobGo(t, new) == jobCall' = [jobCall EXCEPT ![t] = new]

Wrote(t, new) ==
  jobCall' = [u \in Threads |->
    IF u = t THEN new
    ELSE IF Loading(u) /\ jobCall[u].job = jobCall[t].job
         THEN [jobCall[u] EXCEPT !.beside = TRUE]
         ELSE jobCall[u]]

JobStep(t, place) == [jobCall[t] EXCEPT !.step = place]

\* The call is over: a result or an exception.
JobReturn(t) ==
  /\ JobGo(t, JobIdle)
  /\ slotLock' = IF slotLock = t THEN NoThread ELSE slotLock

-----------------------------------------------------------------------------
(* load, which takes no lock *)

\* The temporaries that the walk over the folder lists and looks at again.
Temporaries(j) ==
  {n \in {"state", "raw", "processed"} :
     \/ n = "state" /\ j \in stateTemp
     \/ n = "raw" /\ raw[j] = "temp"
     \/ n = "processed" /\ processed[j] = "temp"}

BeginLoad(call, j) ==
  [call EXCEPT !.step = "layout", !.job = j]

\* The thread that stands at "unreadable" remembers what it was beside.
LoadFailed(t) ==
  JobGo(t, [JobStep(t, "unreadable") EXCEPT
              !.noted = {}, !.seen = NewRecord(NoJob)])

LoadUnshared(t) ==
  JobGo(t, [JobStep(t, "unreadable") EXCEPT
              !.noted = {}, !.seen = NewRecord(NoJob), !.beside = TRUE])

\* Mutant of LoadLayout: a leftover state.json.tmp is not allowed.
LoadLayoutStrict(t) ==
  /\ JobAt(t, "layout")
  /\ IF jobCall[t].job \in stateTemp
     THEN LoadFailed(t)
     ELSE JobGo(t, [JobStep(t, "open") EXCEPT
                      !.noted = Temporaries(jobCall[t].job)])
  /\ UNCHANGED <<jobFiles, jobLock, slotLock, upsets, jobHistory>>

\* scandir of the folder and the walk below it list the temporaries, of which
\* state.json.tmp, a batch's and a candidate's are allowed.
LoadLayout(t) ==
  /\ JobAt(t, "layout")
  /\ JobGo(t, [JobStep(t, "open") EXCEPT
                 !.noted = Temporaries(jobCall[t].job)])
  /\ UNCHANGED <<jobFiles, jobLock, slotLock, upsets, jobHistory>>

\* The writer of j has renamed state.json and still holds its handle.
Unshared(j) == \E u \in Threads : JobAt(u, "close") /\ jobCall[u].job = j

\* Each of them is looked at, which fails when it is gone; then state.json is
\* looked at and opened, which fails when it cannot be shared, or when it was
\* replaced between the two (here: may fail once a step has written).
LoadOpen(t) ==
  LET j == jobCall[t].job IN
  /\ JobAt(t, "open")
  /\ \/ /\ jobCall[t].noted \subseteq Temporaries(j) /\ ~Unshared(j)
        /\ JobGo(t, [JobStep(t, "read") EXCEPT !.noted = {}])
     \/ /\ ~(jobCall[t].noted \subseteq Temporaries(j))
        /\ LoadFailed(t)
     \/ Unshared(j) /\ LoadUnshared(t)
     \/ jobCall[t].beside /\ LoadFailed(t)
  /\ UNCHANGED <<jobFiles, jobLock, slotLock, upsets, jobHistory>>

\* The bytes are read and the file is closed.
LoadRead(t) ==
  /\ JobAt(t, "read")
  /\ JobGo(t, [JobStep(t, "loaded") EXCEPT
                 !.seen = record[jobCall[t].job], !.beside = FALSE])
  /\ UNCHANGED <<jobFiles, jobLock, slotLock, upsets, jobHistory>>

LoadStep(t) ==
  LoadLayout(t) \/ LoadOpen(t) \/ LoadRead(t)

-----------------------------------------------------------------------------
(* replace_state, with the lock held from the check to the close *)

Commits(call, next) ==
  [call EXCEPT !.step = "commit",
     !.next = [next EXCEPT !.revision = call.seen.revision + 1]]

\* Mutant of CommitCheck: the lock is not taken.
CommitCheckUnlocked(t) ==
  LET j == jobCall[t].job IN
  /\ JobAt(t, "commit")
  /\ record[j].revision = jobCall[t].seen.revision
  /\ jobLock' = t
  /\ stateTemp' = stateTemp \cup {j}
  /\ leftovers' = leftovers \ {<<"state", j>>}
  /\ Wrote(t, JobStep(t, "replace"))
  /\ UNCHANGED <<folder, record, raw, processed, slotLock, upsets, cutShort>>

\* Mutant of CommitCheck: the revision is not compared.
CommitCheckAny(t) ==
  /\ JobAt(t, "commit") /\ jobLock = NoThread
  /\ jobLock' = t
  /\ stateTemp' = stateTemp \cup {jobCall[t].job}
  /\ leftovers' = leftovers \ {<<"state", jobCall[t].job>>}
  /\ Wrote(t, JobStep(t, "replace"))
  /\ UNCHANGED <<folder, record, raw, processed, slotLock, upsets, cutShort>>

\* Under the lock the revision is compared, a stale temporary is removed and
\* a new one is created, written and read back.
CommitCheck(t) ==
  LET j == jobCall[t].job IN
  /\ JobAt(t, "commit") /\ jobLock = NoThread
  /\ record[j].revision = jobCall[t].seen.revision
  /\ jobLock' = t
  /\ stateTemp' = stateTemp \cup {j}
  /\ leftovers' = leftovers \ {<<"state", j>>}
  /\ Wrote(t, JobStep(t, "replace"))
  /\ UNCHANGED <<folder, record, raw, processed, slotLock, upsets, cutShort>>

\* A revision conflict.  The guarded load before the comparison may fail too,
\* like any other, beside a publication of artifacts in the same job.
CommitConflict(t) ==
  LET j == jobCall[t].job IN
  /\ JobAt(t, "commit") /\ jobLock = NoThread
  /\ \/ record[j].revision # jobCall[t].seen.revision
     \/ \E u \in Threads \ {t} :
          jobCall[u].job = j /\ JobAt(u, "publish")
  /\ JobGo(t, JobStep(t, "uncommitted"))
  /\ UNCHANGED <<jobFiles, jobLock, slotLock, upsets, jobHistory>>

\* Mutant of CommitFails: the temporary of a failed write stays.
CommitFailsKept(t) ==
  /\ JobAt(t, "replace")
  /\ Fault(MaxJobUpsets)
  /\ jobLock' = NoThread
  /\ Wrote(t, JobStep(t, "uncommitted"))
  /\ UNCHANGED <<jobFiles, slotLock, jobHistory>>

\* The write or the rename fails, and the temporary is removed; the error of
\* a removal that fails too is dropped.  The rename fails beside a reader that
\* holds state.json open.
CommitFails(t) ==
  LET j == jobCall[t].job IN
  /\ JobAt(t, "replace")
  /\ \/ /\ IF \E u \in Threads : JobAt(u, "read") /\ jobCall[u].job = j
           THEN UNCHANGED upsets
           ELSE Fault(MaxJobUpsets)
        /\ stateTemp' = stateTemp \ {j} /\ UNCHANGED leftovers
     \/ /\ Fault(MaxJobUpsets)
        /\ leftovers' = leftovers \cup {<<"state", j>>} /\ UNCHANGED stateTemp
  /\ jobLock' = NoThread
  /\ Wrote(t, JobStep(t, "uncommitted"))
  /\ UNCHANGED <<folder, record, raw, processed, slotLock, cutShort>>

CommitReplace(t) ==
  LET j == jobCall[t].job IN
  /\ JobAt(t, "replace")
  /\ ~\E u \in Threads : JobAt(u, "read") /\ jobCall[u].job = j
  /\ record' = [record EXCEPT ![j] = jobCall[t].next]
  /\ stateTemp' = stateTemp \ {j}
  /\ Wrote(t, JobStep(t, "close"))
  /\ UNCHANGED <<folder, raw, processed, jobLock, slotLock, upsets,
                 jobHistory>>

\* The file is closed and the directories are looked at again, which may
\* report an error although the record has been replaced.
CommitClose(t) ==
  /\ JobAt(t, "close")
  /\ jobLock' = NoThread
  /\ \/ /\ Wrote(t, [JobStep(t, "committed") EXCEPT
                        !.seen = jobCall[t].next, !.next = NewRecord(NoJob)])
        /\ UNCHANGED upsets
     \/ Fault(MaxJobUpsets) /\ Wrote(t, JobStep(t, "uncommitted"))
  /\ UNCHANGED <<jobFiles, slotLock, jobHistory>>

CommitStep(t) ==
  CommitCheck(t) \/ CommitConflict(t) \/ CommitFails(t) \/ CommitReplace(t)
    \/ CommitClose(t)

-----------------------------------------------------------------------------
(* publish_raw_batch and process_and_publish *)

\* A directory of its final name that no record names may be damaged, when a
\* removal failed half way: nobody reads it.  Here it is whole like the rest.
Directories == {"absent", "temp", "whole"}

\* The directory the next publication of t is about.
Directory(t) == IF jobCall[t].seen.raw THEN "processed" ELSE "raw"

Content(t) ==
  IF Directory(t) = "raw" THEN raw[jobCall[t].job]
                          ELSE processed[jobCall[t].job]

SetContent(t, value) ==
  IF Directory(t) = "raw"
  THEN raw' = [raw EXCEPT ![jobCall[t].job] = value] /\ UNCHANGED processed
  ELSE /\ processed' = [processed EXCEPT ![jobCall[t].job] = value]
       /\ UNCHANGED raw

\* A published directory is never published again; a temporary that another
\* attempt left is removed first.
PublishStage(t) ==
  /\ IF Content(t) = "whole"
     THEN /\ JobGo(t, JobStep(t, "unpublished"))
          /\ UNCHANGED <<raw, processed, leftovers>>
     ELSE /\ SetContent(t, "temp")
          /\ leftovers' = leftovers \ {<<Directory(t), jobCall[t].job>>}
          /\ Wrote(t, JobStep(t, "publish"))
  /\ UNCHANGED <<folder, record, stateTemp, jobLock, slotLock, upsets, cutShort>>

\* resolve: the files of a candidate the job inherited are its parent's,
\* which must hold them itself.
FinalReadable(j) ==
  LET p == record[j].parent IN
  \/ record[j].final = "completed" /\ processed[j] = "whole"
  \/ /\ record[j].final = "inherited"
     /\ record[p].final # "pending" /\ processed[p] = "whole"

RawReadable(j) ==
  /\ record[j].raw
  /\ IF record[j].final = "inherited"
     THEN raw[record[j].parent] = "whole"
     ELSE raw[j] = "whole"

\* The record that is committed once the directory is published.
Recorded(t) ==
  LET seen == jobCall[t].seen IN
  IF jobCall[t].op = "retry"
  THEN [seen EXCEPT !.raw = TRUE,
          !.final = IF FinalReadable(jobCall[t].parent)
                    THEN "inherited" ELSE "pending"]
  ELSE IF seen.raw THEN [seen EXCEPT !.final = "completed"]
                   ELSE [seen EXCEPT !.raw = TRUE]

\* Every file is written and validated, the directory is too, and renamed.
PublishRename(t) ==
  /\ JobAt(t, "publish")
  /\ SetContent(t, "whole")
  /\ Wrote(t, Commits(jobCall[t], Recorded(t)))
  /\ UNCHANGED <<folder, record, stateTemp, jobLock, slotLock, upsets, jobHistory>>

\* A write, a validation or the rename fails: the temporary is removed, as is
\* what the rename published when it cannot be read back.  Each removal may
\* fail too, and an error may follow the rename: then a directory stays, under
\* its temporary name or its final one.
PublishFails(t) ==
  /\ JobAt(t, "publish")
  /\ Fault(MaxJobUpsets)
  /\ \E left \in Directories :
       /\ SetContent(t, left)
       /\ leftovers' = IF left = "temp"
            THEN leftovers \cup {<<Directory(t), jobCall[t].job>>}
            ELSE leftovers
  /\ Wrote(t, JobStep(t, "unpublished"))
  /\ UNCHANGED <<folder, record, stateTemp, jobLock, slotLock, cutShort>>

PublishStep(t) == PublishRename(t) \/ PublishFails(t)

-----------------------------------------------------------------------------
(* The calls: get_job, a cancel, create_job, retry_job and run_job *)

Published(j) == folder[j] = "published"

\* get_job, or a cancel that ends the job with one commit, of a job that is
\* not over yet; scans load the others.
Look(t) ==
  /\ JobAt(t, "idle")
  /\ \E j \in Jobs :
       /\ Published(j) /\ record[j].status \in Nonterminal
       /\ JobGo(t, BeginLoad([JobIdle EXCEPT !.op = "look"], j))
  /\ UNCHANGED <<jobFiles, jobLock, slotLock, upsets, jobHistory>>

Ended(call) == Commits(call, [call.seen EXCEPT !.status = "ended"])

CancelLoaded(t) ==
  /\ jobCall[t].op = "look" /\ JobAt(t, "loaded")
  /\ jobCall[t].seen.status \in Nonterminal
  /\ JobGo(t, Ended(jobCall[t]))
  /\ UNCHANGED <<jobFiles, jobLock, slotLock, upsets, jobHistory>>

\* A call that has nothing left to do, or whose load or commit failed.
CallEnds(t) ==
  /\ \/ /\ jobCall[t].op = "look"
        /\ jobCall[t].step \in
             {"loaded", "unreadable", "committed", "uncommitted"}
     \/ jobCall[t].op = "work" /\ JobAt(t, "unreadable")
  /\ JobReturn(t)
  /\ UNCHANGED <<jobFiles, jobLock, upsets, jobHistory>>

\* create_job and retry_job take the coordinator's lock and scan every job.
BeginSlot(t) ==
  /\ JobAt(t, "idle") /\ slotLock = NoThread
  /\ slotLock' = t
  /\ JobGo(t, [JobIdle EXCEPT !.op = "open", !.step = "scan",
                              !.todo = {j \in Jobs : Published(j)}])
  /\ UNCHANGED <<jobFiles, jobLock, upsets, jobHistory>>

ScanNext(t) ==
  /\ JobAt(t, "scan")
  /\ \E j \in jobCall[t].todo :
       JobGo(t, [BeginLoad(jobCall[t], j) EXCEPT !.todo = @ \ {j}])
  /\ UNCHANGED <<jobFiles, jobLock, slotLock, upsets, jobHistory>>

\* A job that is not over ends the call; one that cannot be loaded is an
\* issue of the scan, which the coordinator does not look at.
Scanned(t) ==
  /\ jobCall[t].op = "open"
  /\ IF JobAt(t, "loaded") /\ jobCall[t].seen.status \in Nonterminal
     THEN JobReturn(t)
     ELSE /\ jobCall[t].step \in {"loaded", "unreadable"}
          /\ JobGo(t, [JobIdle EXCEPT !.op = "open", !.step = "scan",
                                      !.todo = jobCall[t].todo])
          /\ UNCHANGED slotLock
  /\ UNCHANGED <<jobFiles, jobLock, upsets, jobHistory>>

\* The slot is free.  A retry loads its parent, a job that ended, which is
\* taken not to fail here: nothing has been written yet.
SlotFree(t) ==
  /\ JobAt(t, "scan") /\ jobCall[t].todo = {}
  /\ \E p \in Jobs \cup {NoJob}, j \in Jobs :
       /\ p \in Jobs => Published(p) /\ record[p].status = "ended"
       /\ folder[j] = "absent"
       /\ JobGo(t, [JobStep(t, "make") EXCEPT
                      !.op = IF p \in Jobs THEN "retry" ELSE "create",
                      !.job = j, !.parent = p])
  /\ UNCHANGED <<jobFiles, jobLock, slotLock, upsets, jobHistory>>

\* There is nothing to retry, or no id of this model left.
SlotUnused(t) ==
  /\ JobAt(t, "scan") /\ jobCall[t].todo = {}
  /\ JobReturn(t)
  /\ UNCHANGED <<jobFiles, jobLock, upsets, jobHistory>>

\* _create_opened: <id>.tmp is made, then filled, loaded back and renamed.
MakeFolder(t) ==
  /\ JobAt(t, "make") /\ jobLock = NoThread
  /\ jobLock' = t
  /\ folder' = [folder EXCEPT ![jobCall[t].job] = "temp"]
  /\ JobGo(t, JobStep(t, "rename"))
  /\ UNCHANGED <<record, stateTemp, raw, processed, slotLock, upsets,
                 jobHistory>>

\* A retry ends here, too, when an error follows the rename.
RenameFolder(t) ==
  LET j == jobCall[t].job IN
  /\ JobAt(t, "rename")
  /\ folder' = [folder EXCEPT ![j] = "published"]
  /\ record' = [record EXCEPT ![j] = NewRecord(jobCall[t].parent)]
  /\ jobLock' = NoThread
  /\ \/ jobCall[t].op = "create" /\ JobReturn(t) /\ UNCHANGED upsets
     \/ /\ jobCall[t].op = "retry"
        /\ JobGo(t, [JobStep(t, "created") EXCEPT !.seen = record'[j]])
        /\ UNCHANGED <<slotLock, upsets>>
     \/ jobCall[t].op = "retry" /\ Fault(MaxJobUpsets) /\ JobReturn(t)
  /\ UNCHANGED <<stateTemp, raw, processed, jobHistory>>

\* A failure ends the call and removes the folder that this call made, unless
\* the call had not identified it yet or the removal fails too.
CreateFails(t) ==
  LET j == jobCall[t].job IN
  /\ JobAt(t, "rename")
  /\ Fault(MaxJobUpsets)
  /\ \/ folder' = [folder EXCEPT ![j] = "absent"] /\ UNCHANGED leftovers
     \/ leftovers' = leftovers \cup {<<"folder", j>>} /\ UNCHANGED folder
  /\ jobLock' = NoThread
  /\ JobReturn(t)
  /\ UNCHANGED <<record, stateTemp, raw, processed, cutShort>>

\* retry_job publishes the parent's raw in the child, then commits what the
\* child inherits.
RetryRaw(t) ==
  /\ jobCall[t].op = "retry" /\ JobAt(t, "created")
  /\ IF RawReadable(jobCall[t].parent)
     THEN PublishStage(t)
     ELSE /\ JobGo(t, Commits(jobCall[t], jobCall[t].seen))
          /\ UNCHANGED <<jobFiles, jobLock, slotLock, upsets, jobHistory>>

\* A child whose retry fails on the way stays, queued.
RetryDone(t) ==
  /\ jobCall[t].op = "retry"
  /\ jobCall[t].step \in {"committed", "uncommitted", "unpublished"}
  /\ cutShort' = IF JobAt(t, "committed") THEN cutShort
                 ELSE cutShort \cup {jobCall[t].job}
  /\ JobReturn(t)
  /\ UNCHANGED <<jobFiles, jobLock, upsets, leftovers>>

\* A thread runs a job that is not over and has no thread; the scan of start
\* can only refuse more.
Work(t) ==
  /\ JobAt(t, "idle") /\ slotLock = NoThread
  /\ \E j \in Jobs :
       /\ Published(j) /\ record[j].status \in Nonterminal
       /\ ~\E u \in Threads : jobCall[u].op = "work" /\ jobCall[u].job = j
       /\ JobGo(t, BeginLoad([JobIdle EXCEPT !.op = "work"], j))
  /\ UNCHANGED <<jobFiles, jobLock, slotLock, upsets, jobHistory>>

Ready(t) ==
  jobCall[t].op = "work" /\ jobCall[t].step \in {"loaded", "committed"}

\* The commits that need no file: the start, the completion, the end that a
\* failure of the rendering or a cancel brings.
WorkCommits(t) ==
  LET seen == jobCall[t].seen IN
  /\ Ready(t) /\ seen.status \in Nonterminal
  /\ \/ /\ seen.status = "queued"
        /\ JobGo(t, Commits(jobCall[t], [seen EXCEPT !.status = "active"]))
     \/ /\ seen.status = "active" /\ seen.final # "pending"
        /\ JobGo(t, Commits(jobCall[t], [seen EXCEPT !.status = "completed"]))
     \/ JobGo(t, Ended(jobCall[t]))
  /\ UNCHANGED <<jobFiles, jobLock, slotLock, upsets, jobHistory>>

\* Mutant of WorkPublishes: the record is committed first.
WorkRecords(t) ==
  /\ Ready(t) /\ jobCall[t].seen.status = "active"
  /\ jobCall[t].seen.final = "pending"
  /\ JobGo(t, Commits(jobCall[t], Recorded(t)))
  /\ UNCHANGED <<jobFiles, jobLock, slotLock, upsets, jobHistory>>

\* The images are rendered, or the raw candidate is processed.
WorkPublishes(t) ==
  /\ Ready(t) /\ jobCall[t].seen.status = "active"
  /\ jobCall[t].seen.final = "pending"
  /\ PublishStage(t)

\* The handler of run_job commits the failure, once.
WorkFails(t) ==
  /\ jobCall[t].op = "work"
  /\ \/ JobAt(t, "unpublished")
     \/ JobAt(t, "uncommitted") /\ jobCall[t].next.status # "ended"
  /\ JobGo(t, Ended(jobCall[t]))
  /\ UNCHANGED <<jobFiles, jobLock, slotLock, upsets, jobHistory>>

WorkEnds(t) ==
  /\ jobCall[t].op = "work"
  /\ \/ Ready(t) /\ jobCall[t].seen.status \notin Nonterminal
     \/ JobAt(t, "uncommitted") /\ jobCall[t].next.status = "ended"
  /\ JobReturn(t)
  /\ UNCHANGED <<jobFiles, jobLock, upsets, jobHistory>>

CallJobs(t) ==
  \/ Look(t) \/ CancelLoaded(t) \/ CallEnds(t)
  \/ BeginSlot(t) \/ ScanNext(t) \/ Scanned(t) \/ SlotFree(t) \/ SlotUnused(t)
  \/ MakeFolder(t) \/ RenameFolder(t) \/ CreateFails(t)
  \/ RetryRaw(t) \/ RetryDone(t)
  \/ Work(t) \/ WorkCommits(t) \/ WorkPublishes(t)
  \/ WorkFails(t) \/ WorkEnds(t)

TemporaryFiles == {"folder", "state", "raw", "processed"} \X Jobs

AllTemporaries ==
  {f \in TemporaryFiles :
     \/ f[1] = "folder" /\ folder[f[2]] = "temp"
     \/ f[1] = "state" /\ f[2] \in stateTemp
     \/ f[1] = "raw" /\ raw[f[2]] = "temp"
     \/ f[1] = "processed" /\ processed[f[2]] = "temp"}

\* The process ends at any step and starts again: recovery ends the active
\* jobs with a commit each, and touches no other file.
JobsRestart ==
  LET interrupted == {j \in Jobs : Published(j) /\ record[j].status = "active"}
  IN
  /\ Crash(MaxJobUpsets)
  /\ record' = [j \in Jobs |->
       IF j \in interrupted
       THEN [record[j] EXCEPT !.revision = @ + 1, !.status = "ended"]
       ELSE record[j]]
  /\ stateTemp' = stateTemp \ interrupted
  /\ jobLock' = NoThread /\ slotLock' = NoThread
  /\ jobCall' = [t \in Threads |->
       IF JobAt(t, "away") THEN jobCall[t] ELSE JobIdle]
  /\ cutShort' = cutShort \cup {jobCall[t].job : t \in
       {u \in Threads : jobCall[u].op = "retry" /\ jobCall[u].job \in Jobs}}
  /\ UNCHANGED <<folder, raw, processed>>
  /\ leftovers' = AllTemporaries'

JobsNext ==
  \/ \E t \in Threads :
       LoadStep(t) \/ CommitStep(t) \/ PublishStep(t) \/ CallJobs(t)
  \/ JobsRestart

JobsSpec == JobsInit /\ [][JobsNext]_jobVars

-----------------------------------------------------------------------------
(* Properties *)

Records ==
  [revision : Nat, status : Nonterminal \cup {"completed", "ended"},
   raw : BOOLEAN, final : {"pending", "completed", "inherited"},
   parent : Jobs \cup {NoJob}]

\* The type invariant of the variables; only the holder of the lock writes
\* records.
JobsTypeOK ==
  /\ folder \in [Jobs -> {"unused", "absent", "temp", "published"}]
  /\ record \in [Jobs -> Records]
  /\ stateTemp \subseteq Jobs
  /\ raw \in [Jobs -> Directories] /\ processed \in [Jobs -> Directories]
  /\ jobLock \in Threads \cup {NoThread}
  /\ slotLock \in Threads \cup {NoThread}
  /\ \A t \in Threads :
       /\ jobCall[t].seen \in Records /\ jobCall[t].next \in Records
       /\ jobCall[t].step \in {"replace", "close", "rename"} => jobLock = t
  /\ cutShort \subseteq Jobs
  /\ leftovers \subseteq TemporaryFiles

\* What a record says was published is there and whole, in every state a
\* crash could keep: raw candidates, a completed candidate, and an inherited
\* one in the parent that completed it.  The other way round, a job that is
\* queued and has no thread has no raw directory in the way of its first
\* rendering, unless the retry that made it was cut short.
RecordMatchesFiles ==
  \A j \in {i \in Jobs : Published(i)} :
    /\ record[j].raw => raw[j] = "whole"
    /\ record[j].final = "completed" => processed[j] = "whole"
    /\ record[j].final = "inherited" =>
         LET p == record[j].parent IN
         /\ record[p].final # "pending"
         /\ record[p].final = "completed" => processed[p] = "whole"
    /\ /\ record[j].status = "queued" /\ ~record[j].raw
       /\ raw[j] = "whole"
       => \/ j \in cutShort
          \/ \E t \in Threads : jobCall[t].op = "retry" /\ jobCall[t].job = j

\* A commit replaces the record whose revision it compared, although it
\* writes the file several steps after the comparison.
RevisionsByOne ==
  [][\A j \in Jobs :
       Published(j) /\ record'[j] # record[j] =>
         record'[j].revision = record[j].revision + 1]_jobVars

\* Every temporary is that of a thread at work on it, but for those whose
\* removal failed, or which the process held when it ended, and that no later
\* call has taken over: failures and conflicts clean up.
TemporariesOwned ==
  \A j \in Jobs :
    /\ j \in stateTemp /\ <<"state", j>> \notin leftovers =>
         \E t \in Threads : JobAt(t, "replace") /\ jobCall[t].job = j
    /\ folder[j] = "temp" /\ <<"folder", j>> \notin leftovers =>
         \E t \in Threads :
           JobAt(t, "rename") /\ jobCall[t].job = j /\ jobLock = t
    /\ raw[j] = "temp" /\ <<"raw", j>> \notin leftovers =>
         \E t \in Threads : JobAt(t, "publish") /\ jobCall[t].job = j
    /\ processed[j] = "temp" /\ <<"processed", j>> \notin leftovers =>
         \E t \in Threads : JobAt(t, "publish") /\ jobCall[t].job = j

\* A load of a published job fails only when a step wrote in its folder on
\* the way, or the writer had not closed state.json, whatever files earlier
\* crashes and failures left behind.
LoadFailsOnlyBesideWriter ==
  \A t \in Threads : JobAt(t, "unreadable") => jobCall[t].beside

\* One job at most is not over.  The code relies on scans for this.
OneOpenJob ==
  \A i, j \in Jobs :
    /\ Published(i) /\ record[i].status \in Nonterminal
    /\ Published(j) /\ record[j].status \in Nonterminal
    => i = j
=============================================================================
