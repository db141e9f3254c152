---------------------------- MODULE ProjectIndex ----------------------------
(***************************************************************************)
(* index/service.py, index/database.py and their callers: the projects on  *)
(* disk (projects/workspace.py, projects/repository.py), one legacy job in *)
(* each (jobs/service.py), and the SQLite file of summaries that follows   *)
(* them.  The disk is written first, without the index's lock; each row is *)
(* written afterwards under it; a failing statement makes the index be     *)
(* built again from the disk, once.                                        *)
(***************************************************************************)
EXTENDS StorageFaults, Integers

CONSTANTS
  Projects, NoProject, \* ids, each given out once
  MaxIndexUpsets       \* bound: failures and ends of the process

ASSUME ProjectIndexAssumption ==
  NoProject \notin Projects /\ MaxIndexUpsets \in Nat

VARIABLES
  project,     \* <id>: absent, temp (<id>.tmp), published
  revision,    \* of the project's legacy job on disk; -1 when there is none
  projectRows, \* projects with a row
  jobRow,      \* revision in the job's row; -1 when there is none
  database,    \* good or broken
  indexLock,   \* the holder of the coordination lock
  indexCall,   \* what a thread is doing
  unindexed    \* history: projects with a row that a failure has cost, until
               \* a rebuild that reads them or the current row of the job

indexStore == <<project, revision, projectRows, jobRow, database, indexLock,
               indexCall, unindexed>>

indexVars == <<indexStore, upsets>>

LastRevision == 1 \* queued, then canceled

\* The statement of a call is its op, of and value; the rest belongs to a
\* rebuild: what is still to scan, the snapshot so far, what it has missed.
IndexIdle ==
  [step |-> "idle", op |-> "none", of |-> NoProject, value |-> -1,
   again |-> FALSE, todo |-> {}, found |-> {}, missed |-> {},
   jobs |-> [p \in Projects |-> -1]]

PublishedProjects == {p \in Projects : project[p] = "published"}

IndexInit ==
  /\ project = [p \in Projects |-> "absent"]
  /\ revision = [p \in Projects |-> -1]
  /\ projectRows = {}
  /\ jobRow = [p \in Projects |-> -1]
  /\ database = "good"
  /\ indexLock = NoThread
  /\ indexCall = [t \in Threads |-> IndexIdle]
  /\ unindexed = {}
  /\ UpsetsInit

IndexAt(t, step) == indexCall[t].step = step

IndexGo(t, new) == indexCall' = [indexCall EXCEPT ![t] = new]

IndexStep(t, step) == [indexCall[t] EXCEPT !.step = step]

Statement(op, p, value) ==
  [IndexIdle EXCEPT !.step = "queue", !.op = op, !.of = p, !.value = value]

index == <<projectRows, jobRow, database, indexLock>>

-----------------------------------------------------------------------------
(* The disk *)

\* _create_project: everything is put in <id>.tmp, and renamed.
ImportBegin(t) ==
  /\ IndexAt(t, "idle")
  /\ \E p \in Projects :
       /\ project[p] = "absent"
       /\ project' = [project EXCEPT ![p] = "temp"]
       /\ IndexGo(t, [IndexIdle EXCEPT !.step = "import", !.of = p])
  /\ UNCHANGED <<revision, index, unindexed, upsets>>

ImportRename(t) ==
  LET p == indexCall[t].of IN
  /\ IndexAt(t, "import")
  /\ project' = [project EXCEPT ![p] = "published"]
  /\ IndexGo(t, Statement("project", p, -1))
  /\ UNCHANGED <<revision, index, unindexed, upsets>>

ImportFails(t) ==
  /\ IndexAt(t, "import")
  /\ Fault(MaxIndexUpsets)
  /\ project' = [project EXCEPT ![indexCall[t].of] = "absent"]
  /\ IndexGo(t, IndexIdle)
  /\ UNCHANGED <<revision, index, unindexed>>

\* create_job (or a retry, which makes a job too): the folder is renamed.
CreateJob(t) ==
  /\ IndexAt(t, "idle")
  /\ \E p \in PublishedProjects :
       /\ revision[p] = -1
       /\ revision' = [revision EXCEPT ![p] = 0]
       /\ IndexGo(t, Statement("job", p, 0))
  /\ UNCHANGED <<project, index, unindexed, upsets>>

\* cancel_job writes state.json.tmp and renames it; a scan that meets this
\* may not be able to load the job.
CancelBegin(t) ==
  /\ IndexAt(t, "idle")
  /\ \E p \in PublishedProjects :
       /\ revision[p] \in 0 .. LastRevision - 1
       /\ ~\E u \in Threads : IndexAt(u, "cancel") /\ indexCall[u].of = p
       /\ IndexGo(t, [IndexIdle EXCEPT !.step = "cancel", !.of = p])
  /\ UNCHANGED <<project, revision, index, unindexed, upsets>>

CancelCommit(t) ==
  LET p == indexCall[t].of IN
  /\ IndexAt(t, "cancel")
  /\ revision' = [revision EXCEPT ![p] = @ + 1]
  /\ IndexGo(t, Statement("job", p, revision[p] + 1))
  /\ UNCHANGED <<project, index, unindexed, upsets>>

CancelFails(t) ==
  /\ IndexAt(t, "cancel")
  /\ Fault(MaxIndexUpsets)
  /\ IndexGo(t, IndexIdle)
  /\ UNCHANGED <<project, revision, index, unindexed>>

-----------------------------------------------------------------------------
(* _guarded: a statement under the coordination lock *)

ListProjects(t) ==
  /\ IndexAt(t, "idle")
  /\ IndexGo(t, Statement("list", NoProject, -1))
  /\ UNCHANGED <<project, revision, index, unindexed, upsets>>

TakeIndex(t) ==
  /\ IndexAt(t, "queue") /\ indexLock = NoThread
  /\ indexLock' = t
  /\ IndexGo(t, IndexStep(t, "execute"))
  /\ UNCHANGED <<project, revision, projectRows, jobRow, database, unindexed,
                 upsets>>

\* The file is broken, or the row of a job's project is missing.
Rejected(call) ==
  \/ database = "broken"
  \/ call.op = "job" /\ call.of \notin projectRows

\* Mutant of UpsertedJob: the row takes whatever comes.
UpsertedAnyJob(call) == [jobRow EXCEPT ![call.of] = call.value]

\* WHERE excluded.revision > jobs.revision
UpsertedJob(call) ==
  [jobRow EXCEPT ![call.of] = IF call.value > @ THEN call.value ELSE @]

Execute(t) ==
  LET call == indexCall[t] IN
  /\ IndexAt(t, "execute") /\ ~Rejected(call)
  /\ projectRows' = IF call.op = "project" THEN projectRows \cup {call.of}
                    ELSE projectRows
  /\ jobRow' = IF call.op = "job" THEN UpsertedJob(call) ELSE jobRow
  /\ unindexed' = IF call.op = "job" /\ jobRow'[call.of] = revision[call.of]
                  THEN unindexed \ {call.of} ELSE unindexed
  /\ indexLock' = NoThread
  /\ IndexGo(t, IndexIdle)
  /\ UNCHANGED <<project, revision, database, upsets>>

\* The statement fails.  The first time, the index is built again.
ExecuteFails(t) ==
  LET call == indexCall[t] IN
  /\ IndexAt(t, "execute") /\ ~call.again
  /\ IF Rejected(call) THEN UNCHANGED upsets ELSE Fault(MaxIndexUpsets)
  /\ IndexGo(t, [call EXCEPT !.step = "rebuild", !.again = TRUE,
                             !.todo = PublishedProjects])
  /\ UNCHANGED <<project, revision, index, unindexed>>

\* INDEX_UNAVAILABLE: the disk keeps what it has.
Unavailable(t) ==
  LET call == indexCall[t] IN
  /\ \/ /\ IndexAt(t, "execute") /\ call.again
        /\ IF Rejected(call) THEN UNCHANGED upsets ELSE Fault(MaxIndexUpsets)
     \/ IndexAt(t, "rebuild") /\ Fault(MaxIndexUpsets)
  /\ indexLock' = NoThread
  /\ unindexed' = IF call.of = NoProject THEN unindexed
                  ELSE unindexed \cup {call.of}
  /\ IndexGo(t, IndexIdle)
  /\ UNCHANGED <<project, revision, projectRows, jobRow, database>>

\* list_manifests and the scan of the project's jobs, one project at a time.
\* A project that cannot be opened, and a job that cannot be loaded, beside
\* its commit, are issues of the scan and not in the snapshot.
RebuildScan(t) ==
  LET call == indexCall[t] IN
  /\ IndexAt(t, "rebuild")
  /\ \E p \in call.todo :
       \/ /\ IndexGo(t, [call EXCEPT !.todo = @ \ {p}, !.found = @ \cup {p},
                                     !.jobs[p] = revision[p]])
          /\ UNCHANGED upsets
       \/ /\ \E u \in Threads : IndexAt(u, "cancel") /\ indexCall[u].of = p
          /\ IndexGo(t, [call EXCEPT !.todo = @ \ {p}, !.found = @ \cup {p},
                                     !.missed = @ \cup {p}])
          /\ UNCHANGED upsets
       \/ /\ Fault(MaxIndexUpsets)
          /\ IndexGo(t, [call EXCEPT !.todo = @ \ {p}, !.missed = @ \cup {p}])
  /\ UNCHANGED <<project, revision, index, unindexed>>

\* replace_snapshot: the temporary file is populated, checked, renamed over.
RebuildPublish(t) ==
  LET call == indexCall[t] IN
  /\ IndexAt(t, "rebuild") /\ call.todo = {}
  /\ projectRows' = call.found
  /\ jobRow' = call.jobs
  /\ database' = "good"
  /\ unindexed' = (unindexed \ call.found) \cup call.missed
  /\ IndexGo(t, [call EXCEPT !.step = "execute", !.found = {}, !.missed = {},
                             !.jobs = IndexIdle.jobs])
  /\ UNCHANGED <<project, revision, indexLock, upsets>>

-----------------------------------------------------------------------------

\* The file is damaged from outside, or by the end of the process.
Damage ==
  /\ Fault(MaxIndexUpsets)
  /\ database = "good" /\ indexLock = NoThread
  /\ database' = "broken"
  /\ UNCHANGED <<project, revision, projectRows, jobRow, indexLock, indexCall,
                 unindexed>>

\* The lifespan rebuilds the index before it serves; a rebuild that fails
\* ends the start, which the next one repeats.
IndexRestart ==
  /\ Crash(MaxIndexUpsets)
  /\ projectRows' = PublishedProjects
  /\ jobRow' = revision
  /\ database' = "good"
  /\ indexLock' = NoThread
  /\ indexCall' = [t \in Threads |-> IndexIdle]
  /\ unindexed' = {}
  /\ UNCHANGED <<project, revision>>

CallIndex(t) ==
  \/ ImportBegin(t) \/ ImportRename(t) \/ ImportFails(t)
  \/ CreateJob(t) \/ CancelBegin(t) \/ CancelCommit(t) \/ CancelFails(t)
  \/ ListProjects(t) \/ TakeIndex(t) \/ Execute(t) \/ ExecuteFails(t)
  \/ Unavailable(t) \/ RebuildScan(t) \/ RebuildPublish(t)

IndexNext == (\E t \in Threads : CallIndex(t)) \/ Damage \/ IndexRestart

IndexSpec == IndexInit /\ [][IndexNext]_indexVars

-----------------------------------------------------------------------------
(* Properties *)

\* The type invariant of the variables.
IndexTypeOK ==
  /\ project \in [Projects -> {"absent", "temp", "published"}]
  /\ revision \in [Projects -> -1 .. LastRevision]
  /\ projectRows \subseteq Projects
  /\ jobRow \in [Projects -> -1 .. LastRevision]
  /\ database \in {"good", "broken"}
  /\ indexLock \in Threads \cup {NoThread}
  /\ unindexed \subseteq Projects

\* A thread has still to write a row of p.
RowPending(p, op) ==
  \E t \in Threads :
    /\ indexCall[t].of = p
    /\ indexCall[t].op = op \/ indexCall[t].step = "cancel"

\* The rows never run ahead of the disk, and each project and job on disk has
\* its current row, unless the thread that changed it has still to write the
\* row or a failure that was reported has cost it: whatever order the rebuilds
\* and the row of an older revision come in.
IndexFollowsDisk ==
  /\ projectRows \subseteq PublishedProjects
  /\ \A p \in Projects : jobRow[p] <= revision[p]
  /\ \A p \in PublishedProjects \ unindexed :
       /\ p \in projectRows \/ RowPending(p, "project")
       /\ jobRow[p] = revision[p] \/ RowPending(p, "job")
=============================================================================
