# AIMCTextureGen in TLA+

AIMCTextureGen is a local web application: a FastAPI server that imports
Minecraft resource packs as projects and renders candidate textures for them
with a ComfyUI process it installs and manages, and a React front end. This
directory holds TLA+ modules of its core, the TLC configurations that check
them, and TLAPS proofs about them. Paths below are relative to
`src/backend/src/aimctexturegen/` unless they begin with `src/`.

    tlc -workers 2 -config CoordinatorRestart.cfg MCGenerationCoordinator
    tlc -workers 2 -config JobViewEvents.cfg MCJobView
    tlc -workers 2 -config InstallOperations.cfg MCInferenceService
    tlc -workers 2 -config ManagedProcess.cfg ComfyManager
    tlc -workers 2 -config ProjectStorage.cfg MCProjectStorage
    tlapm GenerationCoordinatorProofs.tla

## 1. The system

| component | state it keeps | operations | hard behaviour | what makes it correct |
|---|---|---|---|---|
| generation record (`jobs/generation_state.py`, `jobs/models_v3.py`) | one `state.json` per job: status, revision, cancel request, failure, batches, candidates | pure transitions, validated records | transitions compose in orders no test has | every composition builds a record its validators accept |
| job store (`jobs/store.py`, `jobs/codec.py`) | job directories | create, load, scan, replace_state (compare-and-swap) | concurrent writers, a crash or an error in a write | no update is lost; a load sees a whole record |
| generation worker (`generation/service.py`) | a thread's snapshot of its job | `run_job`, `retry_job` | commits race with cancels; every external call may fail | finished work stays; the thread ends |
| coordinator (`generation/coordinator.py`) | lock, active run, thread, client, shutdown event | create, start, cancel, retry, shutdown | long calls outside the lock, replaced runs, orphan prompts | one slot, one thread per job, a settled cancel |
| recovery and process life (`jobs/recovery.py`, `main.py`) | the process | lifespan start and end | crash with an active job and a living ComfyUI | no active job without a thread is served |
| job events (`generation/events.py`, `api/generation.py`) | highest revision hint of each job; one handler per WebSocket | publish, wait, snapshot | hints out of order or lost with the process, records newer than their hint | no handler sleeps over a newer record; snapshots go up |
| job event client (`src/frontend/src/generation/useJobEvents.ts`) | the live job, its revision, socket, timer, refresh | receive, reconnect, refresh, subscribe | late, lost and repeated snapshots; a refresh that fails or is overtaken | the hook never goes back, and learns of the end |
| generation wizard (`src/frontend/src/generation/GenerationWizard.tsx`) | the current job, pending commands | create, continue, cancel, retry, merge | answers of commands that newer snapshots have overtaken | a late answer never replaces a newer record |
| inference service, installer (`inference/service.py`, `comfy/installer.py`, `comfy/install_state.py`) | install operations, threads, cancel events | begin, cancel, execute, shutdown | cancel against the installing thread, restart, a write or a removal that fails | one operation at a time; a closed one stays closed |
| downloads (`comfy/downloads.py`) | partial files | fetch, resume, verify, publish | resume of a changed source | only verified bytes are published |
| managed process (`comfy/manager.py`, `comfy/process.py`) | the process record file | start, stop, status | reused pids, status beside start | never two managed processes, never a stranger killed |
| ComfyUI client (`comfy/client.py`) | none of its own | submit, wait, interrupt, queue | messages before the connection | a finished prompt is seen |
| artifacts (`generation/artifacts.py`) | raw, final, tile and report files | publish, resolve, inherit | publication before the commit, lineage | a completed candidate has its files |
| legacy jobs (`jobs/state_machine.py`, `jobs/service.py`) | Phase 3 records | run, cancel, retry | the same races on a simpler record | terminal states are final |
| projects (`projects/*.py`) | project directories | import, list, open | a failed step of an import, directory substitution | a project is published whole or not at all |
| references (`references/*.py`) | images and their manifest | add, reorder, remove | file and manifest out of step | every listed file exists |
| index (`index/*.py`) | a SQLite file | rebuild, query | replaced while read | disposable: equal to a scan of the directories |
| request limits (`core/request_limits.py`) | bytes received | ASGI middleware | chunked bodies | no more than the limit reaches a handler |
| processing, packs, catalog, model profiles | none | pure functions of images and documents | pixel arithmetic | sizes and palettes in range |
| HTTP API, the rest of the front end | request and view state | parsing, mapping of errors, rendering | stale responses of the forms | a late answer never replaces a newer one |

How they interact: the API calls the coordinator and the generation service;
the coordinator starts one daemon thread per `start`, which runs
`GenerationService.run_job`; both write jobs through `JobStore.replace_state`,
and tell the event broker the revision they committed. The thread and the
cancel both talk to the ComfyUI process that the inference service starts. The
process, its threads and its events are memory; jobs are files. On start-up
recovery closes the jobs a dead process left active, before a request is served.
A browser follows its current job over a WebSocket: the handler waits for a hint
of the broker, loads the record again and sends it. The wizard shows the newer of
what the hook received and what its last command answered.

The inference service starts one daemon thread per install operation, which runs
the installer and the downloads; a cancel only closes the record and sets an event,
so an old thread may run on beside a new one. Operations, receipts, the selection
record, part files and `state/process.json` are files; the handle of the child and
the threads are memory. Below the stores are folders that are filled in `<id>.tmp`
and renamed, and files that are replaced through `<name>.tmp`; writers share a lock
for each store, readers share none. The index is a cache of the folders, written
after them.

## 2. The modules

| module | models | as |
|---|---|---|
| `GenerationState` | `jobs/generation_state.py`, `jobs/models_v3.py` | the record and its transitions: a guard `CanX(s)` and a successor `X(s)` each; `ValidRecord` is what the validators demand |
| `GenerationService` | `generation/service.py` | one thread per worker with a program counter; every load, commit, cancel check and external call is an action |
| `GenerationCoordinator` | `generation/coordinator.py`, `jobs/recovery.py`, `main.py` | commands, threads, shutdown, process death and recovery; the composition with the worker and the store, and the properties |
| `GenerationSlot` | the coordinator's promise | the abstract specification: a slot taken once, given back once, results frozen |
| `JobEvents` | `generation/events.py`, `job_events` of `api/generation.py` | records reduced to revision and open/closed; writes, hints, and the handler of one connection |
| `JobView` | `useJobEvents.ts`, `GenerationWizard.tsx` | the hook, its refresh, the commands and the merge, composed with `JobEvents` |
| `InstallState` | `comfy/install_state.py` | the operation records and their guarded transitions |
| `ArtifactDownloads` | `comfy/downloads.py` | one download per thread over shared part files |
| `ComponentInstaller` | `comfy/installer.py`, `comfy/archives.py` | runtime and profile installation, one action per change of the disk, on top of the downloads |
| `InferenceService` | `inference/service.py` | the API and the threads of operations; composes the three above |
| `ComfyManager` | `comfy/manager.py`, `comfy/process.py` | the managed child under status, start and stop |
| `StorageFaults` | | threads, failing file operations and ends of the process, shared by the next four |
| `JobFolders` | `jobs/store.py`, `core/atomic_files.py`, `generation/artifacts.py` | a job's folder, one file operation at a time, under readers without a lock |
| `ReferenceFolders` | `references/store.py`, `references/service.py` | uploads, lists, freezes and deletes of reference images |
| `ProjectIndex` | `index/service.py`, `index/database.py` and their callers | folders, then rows; the rebuild and the broken database |
| `ProjectFolders` | `projects/workspace.py`, `projects/repository.py`, `api/projects.py` | import of a pack and migration by the first open, beside another program |
| `MCGenerationCoordinator`, `MCJobView`, `MCInferenceService` | | symmetry sets, the bounds of the job view and the profile for TLC |
| `MCProjectStorage` | | the four stores side by side |
| `GenerationStateProofs`, `GenerationCoordinatorProofs` | | what each transition preserves; records, snapshots and the refinement, threads, runs and signals, abandoned jobs and orphan prompts |
| `JobViewProofs` | | records, handler, connection and hook |
| `ComfyManagerProofs` | | lock, record, handle and lives of children |
| `InferenceServiceProofs` | | records, publications and places of threads; downloads, receipts and installed files |
| `JobFoldersProofs` | | lock, loads and temporaries; records, snapshots and the files they speak of |
| `ProjectFoldersProofs` | | imports, opens and the other program |
| `ProjectStorageProofs` | | references; index; the four stores side by side |

### State and code

| variable | in the code |
|---|---|
| `store[j]` | `state.json` of job `j`; status `absent` when there is no directory |
| `worker[w]` | a thread in `_run_worker`: where it is, the `loaded`/`current` snapshot it holds, the second snapshot `_commit_progress` takes, batch and place |
| `event[w]` | `cancel_event` of the run that thread was started for |
| `active`, `client` | `_active_run` with `_worker`, and whether `_active_client` is set |
| `lock` | the holder of `_lock` while a start or retry is between two of its steps |
| `cancel[k]` | one HTTP cancel call in a thread pool thread |
| `shutdown`, `app`, `upsets` | `_shutdown_event`, the phase of the lifespan, storage errors and process deaths so far |
| `prompts[j, b]`, `comfyUp` | whether ComfyUI has the prompt of a batch, and whether it answers |
| `stored[j]`, `unpublished` | revision of `state.json` and whether it is nonterminal; commits whose `_publish` is still to come |
| `hint` | `JobEventBroker._revisions` |
| `socket`, `inbox` | the WebSocket of the hook, with `last_revision` of its handler, and the snapshots on their way |
| `current` | `currentJob` of the wizard |
| `live`, `latest`, `link`, `get` | the hook's `job`, `latestRevision`, whether it has a socket, a pending refresh or a timer, and the refresh that is not aborted |
| `cmd[c]` | one HTTP command of the wizard, from the click to the use of its answer |
| `operations[o]` | `state/installations/<o>.json`: state and revision |
| `step[w]`, `index[w]`, `receipts[w]` | where the thread of an operation is, its place in the profile, the records it read in `_read_installed_records` |
| `transfer[w]` | a `download` call: artifact, bytes received, file position, what was hashed |
| `stopped` | cancel events that are set |
| `file`, `part`, `sidecar` | an artifact in its place, `<name>.part`, `<name>.part.json` |
| `staging`, `tree`, `receipt`, `selection` | `.staging-<uuid>`, the versioned runtime directory, its receipt, `selected-runtime.json` |
| `node`, `installed` | custom nodes in the tree, `installed-artifacts.json` |
| `record`, `owned`, `lock`, `call[t]` of `ComfyManager` | `state/process.json`, `_child`, the manager's lock, a call of it |
| `life`, `reused`, `listener` | the child processes, dead ones whose pid another process has, who listens on the port |
| `folder`, `record`, `stateTemp`, `raw`, `processed` | `jobs/<id>` and `<id>.tmp`, `state.json`, `state.json.tmp`, the published directories and their temporaries |
| `jobLock`, `slotLock`, `jobCall[t]` | `_JOB_WRITE_LOCK`, the coordinator's `_lock`, a call with the snapshot it holds |
| `place`, `parts`, `refLock`, `refCall[t]` | a reference's folder, the files in it, `_REFERENCE_WRITE_LOCK`, a call |
| `project`, `revision`, `projectRows`, `jobRow`, `database`, `indexLock` | what is on disk, the rows that speak of it, the SQLite file, the coordination lock |
| `home`, `pack`, `imported`, `document` | a project's folder, its working copy, digest and format in `project.json`, the schema of `project.json` |
| `source`, `snapshot`, `importing`, `migration`, `opening[t]` | the upload, `imported-pack.zip`, the import at work, `_MANIFEST_MIGRATION_LOCK`, an open |

Variables marked "history" in a module (`unrecorded`, `unclosed`, `garbled`, `beside`,
`excused`, `stale`, `foreignKill`, `cutShort`, `leftovers`, `halfDeleted`, `unindexed`,
`raced`, `lastEdit`, `leaked`, `disturbed`) are read by properties and by other histories,
and by no step of the code. Some of them record where a write or a clean-up failed that a
promise rests on, so that the property can say what holds everywhere else:

| history | what it records | who clears it |
|---|---|---|
| `unrecorded` | jobs a storage error left open: the last write of a thread or a call raised, or a write was made that its writer took for failed | the end of the process |
| `unclosed` | install operations whose record `_fail_operation` or `_cancel_if_active` could not write, or whose `begin_install` raised behind the record | nobody; their record is closed by a cancel or a restart |
| `leaked` (installer) | staging trees whose `remove_staging` raised, or that the process held when it ended | nobody; the code never looks at them again |
| `leftovers` (job folders) | temporaries whose removal failed, or that the process held when it ended | the call that takes the temporary over |
| `stale` | children whose `process.json` a start or a stop could not read or delete | nobody |

### What can fail

A storage error is a choice at each of these places, and each choice is followed by what
the code does next; the bounds on how many there are stand in section 3.

* Loads and commits of jobs (`StorageError`, `LoadRaises`, `ReloadRaises`,
  `ConfirmUnloaded`, `FailureUnloaded`): `replace_state` may raise before the record is
  replaced or after (its last look at the directories, `jobs/store.py:243-260`). Inside
  the `try` of `run_job` that leads to its failure handler, whose own commit may raise
  again; inside the `try` of `cancel` to the recording of the failed confirmation, whose
  load and commit may raise too. Elsewhere it ends the thread or the call.
* Writes of the install record (`TransitionRaises`, `BeginRaises`, `CloseOrLeave`): an
  error in the thread's `try` leads to `_fail_operation`, and one in that handler ends
  the thread with the record open.
* `remove_staging` (`KeepStaging`), after a failed extraction or a failed rename.
* `process.json` (`RecordKept`, `RecordDeleted`, `DeleteRecord`, `WriteRecord`): a read
  that fails is taken for no file, a delete that fails is dropped, a write that fails
  ends a start with its child running.
* The clean-up of `atomic_replace_bytes`, of a new job's folder and of a publication
  (`CommitFails`, `CreateFails`, `PublishFails`), and of an import (`AbandonImport`).

### Atomicity

* For the coordinator `replace_state` runs under `_JOB_WRITE_LOCK`: one step, which
  succeeds only against the revision that was loaded (`Commit`, `CancelCommit`), or
  raises.
  `JobFolders` takes that step apart: the comparison, the write of the temporary, the
  rename and the close, with readers and publications between them;
  `RevisionsByOne` is what makes the single step sound for what is written.
* `create_job`, `start` and `retry` hold `_lock`. Their scan and first effect
  are one step because only the lock's holder creates jobs; the slow parts of a
  start (orphan clean-up, spawning) and of a retry (second commit) are steps of
  their own, and everything that does not need the lock goes on between them.
  `GenerationCoordinator` takes the scan to read every job. It does not always:
  `OneOpenJob` shows what happens when a load fails beside a commit, so `SingleSlot`
  is about the interleavings of calls, not about the files below them.
* A cancel holds `_lock` only to look at the active run. Each of its loads,
  commits and ComfyUI calls interleaves with the worker, with another cancel
  and with a start.
* Two cancel checks with nothing between them are one step. `BootWorker` joins
  the load (whose result only names the model profile), `ensure_generation_ready`
  and the assignment of the client. `CommitRequest` joins a lost commit and the
  load that follows it.
* In the browser a callback runs to its end, with the renders and effects it
  leads to, before the next: `Show` and `Follow` include the change of the
  subscription and the hook's clean-up.
* In the server a commit and its hint are two steps (`Write`, `Publish`), in any
  order between threads. The answer of a command is a step of its own after the
  writes of the command.
* `begin_install` and `cancel_operation` are one step each: they hold the lifecycle
  lock. The thread takes that lock for each change of its record and for nothing
  else, so every change of a file is a step of its own.
* `status` of the manager runs outside the lock: reading the record, looking at the
  pid, deleting the record and probing are four steps. `EnterStart` and `EnterStop`
  join the taking of the lock with the first look at the record.
* Below the stores a step is one operation on files or directories. What is filled
  in a temporary that nobody else opens is one step (`UploadFill`, `RenameFolder`).
  A statement of SQLite is one step.

### Abstractions

Timestamps, seeds, artifact paths, texts, and the step counts of a progress
report are left out; a prompt id is a Boolean, since a batch is submitted at
most once; all error codes of the worker itself are `execution`, the ones the
code decides on (`unconfirmed` for CANCEL_CONFIRMATION_FAILED and `interrupted`
for JOB_INTERRUPTED) are told apart. In the coordinator's modules files beside
`state.json` are not modelled. `_register_prompt` assigns a field nobody reads, so
it has no step. `RetryCommit` reads the parent when it commits, the code when it
begins; the difference cannot show because results of a closed job are frozen, which
is `SlotPromise`. ComfyUI may lose, finish or drop a prompt and die at any time, and
the wait for one may end any way, whatever messages the client has seen;
an orderly exit and a crash are both `ProcessDies`.

`JobEvents` takes from the coordinator only what is proved there of writes: the
next revision, never open again once closed, one open job at a time. `JobView`
is one mounted wizard of one project (`App.tsx` unmounts it with its project);
other tabs are among the writers. Error and connection displays are left out,
and a status that only restarts an effect with the same job has no step. Any
closed job may be retried, a queued one canceled: the buttons allow less. The two
requests `handleCreateAndStart` makes after a conflict are one answer. The handler of
a socket the browser has closed has no step: nobody reads what it sends.

The bytes of an artifact are `Chunks` numbered pieces, 0 for wrong ones; a hash of a
sequence is the sequence. A response is a choice of what a server may send: the range, the
whole file, a short or damaged body, an error. Extraction and its audit succeed or fail.
`_reuse_by_hash` (`comfy/installer.py:697`), which copies an installed artifact to another
place with the same digest, has no step: the artifacts of the model have different
contents, as those of the shipped profile do. Files behave as on Windows, the system the
product is for: an open file is neither renamed nor unlinked, a file a reader holds is not
replaced, one its writer has renamed and not closed is not opened. A pid is given away at
any time after the death of its child unless a handle keeps it, but not between two calls
of one thread in a row that look at it.

A job of `JobFolders` has one batch of one candidate. Its `get_job` looks at jobs
that are not over (`Look`); loads of others are those of scans. A retry takes what its
parent holds itself, so a retry of a retry renders an inherited candidate again. In
`ProjectIndex` a project has one legacy job with two revisions; jobs of the generation
pipeline reach the index through rebuilds only, as in the code. `IndexRestart` takes the
rebuild at the start to read everything. In `ProjectFolders` uploads are zip files, what
another program writes is always new content, the working copy is not written to from
outside, and the snapshot is not followed after the publication.

## 3. What is checked

`CHECK_DEADLOCK FALSE` is said where the inputs are bounded and a server with no request
waits: the runs of `MCGenerationCoordinator`, of the job view and of `MCInferenceService`.
`ManagedProcess`, `ProjectStorage` and `OneOpenJob` check for deadlock.

| run | instance | distinct states | shows |
|---|---|---|---|
| `CoordinatorRestart` | 1 batch of 1; 2 jobs, 2 threads, 1 cancel; 1 upset: a death, a shutdown or a storage error | 1 282 444 | `SingleSlot`, `OneWorkerPerJob`, `AbandonedOnlyByCancel`, `OrphansClearedFirst`, and `SlotPromise` |
| `CoordinatorCancel` | 2 batches of 1; 1 job, 1 thread, 1 cancel, 1 progress report, 2 storage errors, `FairSpec` | 154 817 | `TypeOK`, the proofs' invariant `Inv`, `RecordsValid`, `SignalMeansRequested`, `NoLostUpdate`, `FinishedWorkKept`, `WorkerEnds`, `RequestSettles` |
| `JobViewEvents` | revisions to 2; 1 job, 2 commands, 1 fault, or 2 jobs, 1 command, 2 faults; `SmallSpec` with the fairness of `FairSpec` | 258 470 | `TypeOK`, `NoLostWakeup`, `SentInOrder`, `HookNeverOlder`, `ClosedIsShown` |
| `InstallOperations` | 2 operations; an archive, a model and a custom node of 2 pieces; 1 fault, 1 restart, `FairSpec` | 346 060 | `TypeOK`, `OneOpenOperation`, `SelectionComplete`, `CompletedMeansInstalled`, `FreshDownloadWhole`, `StagingOwned`, `ClosedForever`, `ThreadEnds` |
| `ManagedProcess` | 2 callers, 2 children, 1 restart, 2 faults, `FairSpec` | 498 012 | `TypeOK`, `NeverKillsForeign`, `RecordIsOwned`, `ChildAccounted`, `LockReturns` |
| `ProjectStorage` | 3 jobs, 2 references, 2 projects of the index, 2 project folders (1 old), 2 threads; upsets 1, 1, 2, 1; 1 edit | 1 742 510 | `StorageTypeOK`, `RecordMatchesFiles`, `RevisionsByOne`, `TemporariesOwned`, `LoadFailsOnlyBesideWriter`, `ReferencesReadable`, `IndexFollowsDisk`, `ProjectsConsistent` |

Bounds. `BatchCount`, `Parallelism`: two batches are needed for a cancel between
batches, one for everything about jobs; the proofs cover all plans. `Jobs`: two,
an original and its retry or the job created after it. `Workers`: two, because a
replaced run needs an old and a new thread. `Cancels`: one call races with the
thread; two that race with each other are covered by the theorems only.
`MaxProgress`: one report makes the thread reload its record in the middle of a wait,
which is how it meets somebody else's write. `MaxCrashes`: one death leaves an
interrupted job, and a start after it. `MaxErrors`: one storage error ends a thread or sends
it to its failure handler; two let that handler, or the recording of a failed confirmation,
fail in turn, which is what leaves a job open. Errors and deaths draw on one budget
(`upsets`), because the product of the two is beyond TLC (over five million states):
`CoordinatorRestart` has one of either, `CoordinatorCancel` two errors and no death, and
the theorems any number of both. There revisions are not bounded: jobs, threads
and calls are, so records are written finitely often.

In `JobView`: `Jobs`, two for a job and its retry, so that the subscription moves
while the old job is still shown. `MaxRevision`: 2, since from 0 to 2 is a gap, which
the hook reconnects for. `Commands`: a creation with its start, and a call that it
races with. `MaxFaults`: two, so that what repairs the first can itself fail. `SmallSpec`
of `MCJobView` has a second job or a second command, not both, in a behaviour; the
theorems have any number of each.

In `InstallOperations`: two operations, because a canceled thread beside a new one is the
hard case; two pieces, because a resumed download needs a first piece that is there and a
second that is not; a model and a custom node, the two kinds of artifacts, so that one
receipt is written after another. `BegunInOrder` lets the second operation begin only
after the first: the two are interchangeable, and no fairness is assumed of beginnings, so
no behaviour is lost but for its names. In `ManagedProcess` two faults let the record of
an older child survive a start whose own write of the record then fails; two children are
one that a late status remembers and one that replaced it. In `ProjectStorage`, `Jobs`
counts ids: with `MaxParties` 4, jobs and threads in use together are four: three jobs
under one thread (a job, its retry, the retry of that) or two jobs under two threads. Two
upsets of the index let a rebuild fail that a first failure caused. `MCProjectStorage`
runs the four stores side by side, a behaviour being one of them: their states add up and
do not multiply, and nothing is claimed of what two of them do together beyond what
`ProjectIndex` says of folders and rows.

The properties, in the words of the code:

* `SingleSlot` - at most one generation job of the whole application is queued,
  generating or postprocessing, as long as the scan reads every job (`OneOpenJob`).
* `NoLostUpdate`, `FinishedWorkKept` - every write builds on the revision it
  replaces; completed candidates and raw batches survive failures, cancels,
  crashes and recovery.
* `RecordsValid` - no order of transitions runs into a `ValidationError`.
* `OneWorkerPerJob` - the run of a job is replaced while an older thread of
  another job is still ending; a job never gets two threads.
* `SignalMeansRequested` - a thread is signalled only after the request is on
  disk.
* `AbandonedOnlyByCancel` - an active job (generating or postprocessing) always has a
  thread, except while a cancel of it is recorded (the code can leave such a job when a
  conflict hits the failure handler; canceling again settles it), or when a storage
  error kept a thread or a call from recording the end (`unrecorded`).
* `OrphansClearedFirst` - a restart's first prompt is submitted only when the
  recorded prompts of interrupted jobs are gone.
* `SlotPromise` - the refinement of `GenerationSlot`, `phase` being the status
  class and `result` the finished candidates of each job.
* `WorkerEnds`, `RequestSettles` - every thread ends; a recorded cancel request
  leads to a closed job or to a recorded CANCEL_CONFIRMATION_FAILED, unless the write
  that should record it raises. Errors of ComfyUI, of the loads and commits before, and
  lost races do not excuse it.
* `NoLostWakeup` - a handler that waits on an outdated record has a hint above its
  revision, or one about to be published.
* `SentInOrder` - what is on its way over a connection goes up and the handler
  remembers the last of it, although it sends the record it loaded, not the one
  that was announced.
* `HookNeverOlder` - neither a snapshot, a refresh, a reconnection nor a change of
  subscription and back replaces the hook's job by an older record of it.
* `ClosedIsShown` - a job shown as open although it is closed does not stay so.
* `OneOpenOperation`, `ClosedForever` - one install operation is open, and has a thread
  unless the write that should have closed it failed (`unclosed`); a closed record stays,
  whatever the thread behind it still does.
* `SelectionComplete` - `selected-runtime.json` names a runtime with tree and receipt,
  also after an end of the process between the three writes.
* `FreshDownloadWhole` - a download that began at the first byte, on a part no other
  thread touched, publishes the artifact or nothing. `PublishedIsVerified` below shows
  that a resumed one does not.
* `CompletedMeansInstalled` - what a completed operation installed is in its place, also
  when the thread of a canceled one ran beside it; its receipts agree when none did.
* `StagingOwned`, `ThreadEnds` - staging trees are gone when the thread leaves the
  extraction and publication, unless their removal failed or the process ended (`leaked`);
  every thread ends.
* `NeverKillsForeign` - a stop signals the managed child or nobody, although pids are
  given away and the record outlives the backend.
* `RecordIsOwned`, `ChildAccounted` - handle and record name one child, unless a start or a
  stop could not read or delete the record of an older one (`stale`); a living child can
  be found by the record unless a fault, an end of the backend or a call that read
  another's record lost it.
* `LockReturns` - `start` answers with `status` while it holds a lock that is not
  reentrant; every holder gives it back.
* `RecordMatchesFiles` - a record never names a file that is not published whole,
  through failures, crashes and retries; a queued job has no raw directory in its way
  unless its retry was cut short.
* `RevisionsByOne` - a commit replaces the revision it compared.
* `TemporariesOwned`, `LoadFailsOnlyBesideWriter` - a temporary that no thread works on is
  one whose removal failed or that the process held when it ended (`leftovers`): no other
  failure and no conflict leaves one; and none of them ever makes a job unreadable, only
  a writer at work does.
* `ReferencesReadable` - neither an upload nor what a crash leaves of it breaks a list or
  a freeze; only a delete does, at work or cut short.
* `IndexFollowsDisk` - rows never run ahead of the disk, and fall behind only while a
  thread has still to write them or after a failure that was reported.
* `ProjectsConsistent` - the working copy is, member by member, the pack whose digest
  `project.json` records; temporaries are removed; a migration loses no newer manifest
  but one written between its last look and its rename; threads that open a project
  together do not make each other fail.

Fairness (`FairSpec` of `GenerationCoordinator`): weak fairness of every thread, every
cancel call, the lock's holder and recovery. Threads are scheduled and every wait on
ComfyUI has a timeout (`completion_timeout_seconds`,
`cancel_confirmation_timeout_seconds`, HTTP timeouts), after which the error steps
(`ExternalError`, `WaitTimesOut`, `CancelRaises`, `BootFails`) are enabled. Nothing is
assumed of ComfyUI, of requests, or of the shutdown. `CoordinatorCancel` has no deaths:
after one, a queued job with a recorded request waits for its user.

Fairness of `JobView`: hints are published (a thread goes on after its commit), the
two event loops run, and the hook's HTTP refresh is answered or fails; failures and
aborts by the user are faults and bounded, since a reconnection asked to refresh
for ever never connects. The heartbeat keeps the wait of the handler finite and
changes nothing. Nothing is assumed of commands and of writers.

Fairness of `InferenceService` and `ComfyManager`: weak fairness of the steps of each
thread (each call). Downloads have connect and read timeouts, probes and waits of the
manager have deadlines, after which the failing steps are enabled; `lock` is asked for
without a deadline, which is why `LockReturns` is about the holder. Nothing is assumed
of servers, of the child or of its user.

### Where documents and code differ

Each has a run of its own, in which TLC finds the behaviour.

* `CanceledMeansStopped` - the Phase 5 design (10.2) closes a job as canceled only
  when GPU work is known to have stopped. A cancel that loads the record between
  `start_batch` and the commit of the prompt id sees nothing to interrupt and
  confirms, while the thread submits the prompt.
* `TerminalIsFinal` - the Phase 3 plan has no way out of `canceled`. A thread that
  confirms a cancel in `_cancel_if_requested` carries on, cannot start a canceled
  batch, and its failure handler commits `failed`.
* `PreflightFailureRecorded` - the design (9.2) makes a job `failed` when ComfyUI
  cannot be started. The call is outside `run_job`; the thread ends and the job
  stays queued.
* `ViewNeverOlder` - the design (10.1) lets no old revision overwrite a newer state.
  While the hook follows a job the merge prefers the newer record; when the
  WebSocket has brought a closed one, the subscription and the live job are
  dropped, and the answer of a start or cancel that was under way is shown over it.
  (The page then subscribes again and is told of the end again: `ClosedIsShown`.)
* `PublishedIsVerified` - the Phase 4 plan publishes only what size and SHA-256
  confirm. A resumed download opens its part with `r+b` and never seeks
  (`comfy/downloads.py:187`), so the rest is written over the beginning; the hash is
  that of what was received, the file is another.
* `OneOpenJob` - the Phase 5 design allows no second job beside an open one. The scan
  of a create drops jobs it cannot load (`generation/coordinator.py:386`), and a job
  whose worker is renaming `state.json` cannot be loaded.

Met while modelling, without a run of their own: a reader that holds `state.json` open
makes the rename of a commit fail, and the job with it; a storage error in the commit of
the failure handler leaves an active job without a thread, which holds the slot until it
is canceled or the process restarts; the same in `_fail_operation` leaves an install
operation open, which refuses every later install until then; a start passes over a
`process.json` it cannot delete, and when the write of its own fails too, the next stop
looks for the older child; a staging tree that could not be removed stays for ever; a
retry cut short leaves a queued child that holds the slot; `<id>.tmp` of a crash or of a
failed removal is never removed; an INDEX_UNAVAILABLE leaves a project out of the list
until a rebuild; `freeze` lets `ReferenceStoreError` through
(`generation/service.py:300`); `import_pack` works on the event loop (`api/projects.py`);
a job canceled while queued, its cancel not settled, is queued again by a restart.

## 4. What is proved

All theorems hold for every value of the constants under the named assumptions of the
modules: `PlanAssumption` (at least one batch and one place), `ServiceAssumption` (`NoJob`
is not a job), `CoordinatorAssumption` (`NoWorker` is not a worker), `EventsAssumption`,
`ViewAssumption` (`NoJob` and `NoSnapshot` are neither), `NoneAssumption` (`None` is neither
child nor caller), `ChunksAssumption` (an artifact has a piece), `MissingAssumption`
(`Missing` is no content), `ProfileAssumption` (the profile is a sequence of artifacts other
than the archive), `WorkersAreOperations`, `StorageFaultsAssumption` (`NoThread` is not a
thread), and `JobFoldersAssumption`, `ReferenceFoldersAssumption`, `ProjectIndexAssumption`
and `ProjectFoldersAssumption` (the null value of a store is not one of its folders, and its
bounds are numbers). No theorem assumes that a set is finite, or how large it is.

`SingleSlot` and `ValidRecord` are not inductive: a late writer holds a snapshot
of a job that somebody else has closed and replaced. The argument is:

1. `GenerationStateProofs`: every transition, applied where its guard holds to a
   `Consistent` record, gives a `Consistent` record that is a `Successor`: the
   next revision, never open again once closed, results kept.
2. `GenerationCoordinatorProofs`: `SlotInv` says every snapshot a thread or a call
   will commit from is `SnapshotOf` the stored record: an older revision, or the
   record itself. The compare-and-swap accepts only the second, so every step
   either creates a job in the free slot (`Creates`) or replaces a record by a
   `Successor` (`Replaces`). From this follow `SlotInvariant`, `TypeCorrectness`,
   `OneSlot`, `ValidRecords`, `NoUpdateLost`, `ResultsKept`, and `Refinement`. A commit
   that raises is no exception: it leaves the record or replaces it by the same
   `Successor`. `OneSlot` and `Refinement` are of the coordinator whose scan reads every
   job (section 2, Atomicity).
3. On top of `SlotInv`, `RunInv` says that a living thread of a job that holds the slot is
   the active run, that no living thread belongs to the job a start is about, and that a
   run a cancel remembers is of the job it cancels. From it follow `OneThread` and
   `SignalJustified`.
4. A thread whose snapshot is outdated ends, in `run_job` and in its failure handler
   alike, and leaves the record as it is. `DutyInv` says why that is safe: at every step
   of a thread either its snapshot is the record, or the record is closed, queued or has a
   cancel request (`Unattended`), because only a cancel writes beside it. Only a storage
   error breaks this: it can end the thread in its handler, or leave it with a snapshot
   older than what it wrote itself; such a job is in `unrecorded` (`LeftOpen`), and for
   every other job the invariant is kept by every error too. The lemmas ask of each step
   of a thread, a cancel and a start what it commits and where it goes after
   (`Justified`). From it follows `NobodyAbandoned`.
5. `OrphanInv`: a record becomes interrupted only in recovery, which has no thread and no
   call beside it; whoever may write a job or start its thread is at one that is not
   interrupted; so a thread keeps its orphans out of the queue, once the start has cleared
   them, until it ends. From it follows `OrphansFirst`.

`Invariant` is the conjunction `Inv` of the four, which TLC checks too, in
`CoordinatorCancel`.

`JobViewProofs` stands apart. None of its properties is inductive: that a hook
never goes back depends on what is on its way to it. `ViewInv` adds that every
snapshot anywhere is of a stored record and not ahead of it (`SnapshotsKnown`),
that connection, timer and refresh belong to the subscription (`ConnectionSound`),
and that what may reach a hook whose `latestRevision` was reset is not older than
the job it still shows (`HookSound`); records only grow, and the handler loads
them after the reset. From it follow `ViewTypes`, `NoWakeupIsLost`, `SnapshotsGoUp`
and `HookNeverGoesBack`.

`ComfyManagerProofs`: start and stop change handle and record in several steps, between
which status goes on without the lock. `LockInv` says who is inside the section of the
lock, `RecordInv` what its holder has done to record and handle so far (during a start no
record, or one in `stale` that could not be read or deleted), `LifeInv` which of the
children a thread names are dead, and that neither the pid of the handle nor the one a
thread is about to signal was given away: since a stale record can name any older child,
that is what keeps a stop from signalling a stranger. From it follow `ManagerTypes`,
`OnlyChildrenKilled`, `HandleMatchesRecord` and `ChildrenFound`.

`InferenceServiceProofs` has two parts.

1. `RecordInv` (one open operation, with a thread or in `unclosed`), `RuntimeInv` (what
   the place of a thread says of the publications it has passed, of selection and of
   staging trees that are not in `leaked`), `IndexInv` (a thread that handles an artifact
   has one) and `FlagsInv`. No step of a thread takes back a publication, so the places
   stay true beside any other thread. From it follow `RunInvariant`, `OneOpen`,
   `SelectionNamesRuntime`, `StagingHasOwner` and `ClosedRecordStays`.
2. A step of a download writes one part and moves one transfer
   (`DownloadFrame`). `FreshInv`: a part that one thread works on from the first byte holds
   what that thread received and hashed, unless the artifact is in `garbled`, which
   records resumptions and threads that meet on a part. `PlacedInv`: what is in its
   place stays, so every artifact a thread has passed is there. `LoneInv`: while no two
   threads have run together, a thread's copy of the receipts is the file. From them follow
   `FilesInvariant`, `InstallTypes`, `FreshDownloadsWhole` and `CompletedIsInstalled`.

`JobFoldersProofs` has two layers.

1. `FoldersInv`: who stands between the comparison of a revision and the close of the file
   holds the write lock, so the record still has the revision it compared (`HolderInv`);
   what the walk of a load has noted is still there unless a step wrote beside it
   (`LoadInv`, which a failed load contradicts); a temporary belongs to the thread at its
   place or is in `leftovers`, and a thread that makes one takes it out of there
   (`OwnerInv`). From it follow `TypesOfFolders`, `CommitsReplaceWhatTheyCompared`,
   `NoTemporaryLeft` and `LoadsFailBesideWriters`.
2. `ContentInv`: `RecordMatchesFiles` is not inductive, because publications take no lock
   and a record is committed from a snapshot that may be old. The invariant says that a
   job has one publisher (the coordinator's lock keeps a retry and a run apart), whose
   directory is still a temporary while it publishes, so a directory that is whole stays
   whole; that a snapshot is at most as new as the record, is the record when their
   revisions agree, and says no more than the record does (`After`); and that record,
   snapshot and the record about to be committed are `Backed` by the files, the parent's
   for what a retry inherits. `Grows` collects what no step takes back, and `ContentKept`
   what a step must show. From it follows `RecordsMatchTheirFiles`.

`ProjectFoldersProofs`: the pack that is unpacked is not the bytes that were hashed but the
snapshot, opened again later, which another program can write to in between. What it
writes is new, so a snapshot that still has the digest was never written to (`HashInv`,
`ImportInv`): from the comparison on, each member that is unpacked is the one the digest
is of, or the import fails. `OpenInv`: the document an open read is the one on disk as long
as nothing was written since, and only the holder of the migration lock replaces it. From
them follows `ProjectsAreConsistent`, with the types.

`ProjectStorageProofs` has three parts.

1. `LibraryInv`: every reference a list or a freeze has still to open is whole, unless a
   delete ran beside the reader or was cut short before; an upload and a delete have the
   lock and their folder. `LibraryReadable` says what that means to a reader, and
   `ReferencesAreReadable` follows.
2. `IndexInv`: the rows, and the snapshot of a rebuild that is under way, name published
   projects and no revision above the disk's; where they fall behind, a call with that row
   is pending or the project is in `unindexed` (in the snapshot: still to be read, or
   missed). That the publication of a rebuild replaces rows written since needs both at
   once. `IndexFollows` follows.
3. The composition of `MCProjectStorage`: a step of one store leaves the variables of the
   others alone, so all four invariants hold together (`StorageInv`), which gives
   `TypesOfStorage`, `StorageIsConsistent` and `CommitsCompareThere` for the specification
   that the run checks.

Every invariant and every action property of the passing runs, and the refinement, is so
stated by a theorem. Only model-checked are the liveness properties: `WorkerEnds`,
`RequestSettles`, `ClosedIsShown`, `ThreadEnds` and `LockReturns` (fairness and `ENABLED`
are out of the prover's reach).

## 5. Plan

1. A module that runs a job of `GenerationCoordinator` on `JobFolders`, with the scan
   that fails of `OneOpenJob`; the combination is too large for TLC as the modules stand.
   The theorems of both would carry over: `RevisionsByOne` is the promise of the
   compare-and-swap that the coordinator relies on.
2. The WebSocket of `comfy/client.py` with its history poll.
3. A refinement of the store: that a commit of `JobFolders` implements the single step of
   `GenerationCoordinator`, for the writer and for loads.
4. The safety half of `RequestSettles`: what a settled cancel may leave behind.

## 6. Not modelled, and why

* Texture processing, packs' coverage, catalog, model profiles and manifests are pure
  functions of images and static documents; the interesting part is arithmetic on
  pixels, which a model would only repeat.
* Of the legacy state machine (`jobs/state_machine.py`) only cancel and recovery have a
  caller; the other transitions are dead code.
* The multipart parser and the limit of request bodies are loops over one request that
  nothing else sees.
* HTTP parsing, rendering, error texts, workflow templates and the rest of the front end
  keep no state that outlives a request or a render.
* Tools, smoke tests and vendored workflows are not part of the running application.
* The completion wait of `comfy/client.py` is a choice of its outcomes; that no message
  before the connection is needed is not shown.
* A crash between `submit_prompt` and the commit of the prompt id leaves a prompt that
  no record names; `OrphansClearedFirst` is about recorded prompts.
