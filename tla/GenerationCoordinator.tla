------------------------ MODULE GenerationCoordinator ------------------------
(***************************************************************************)
(* The application's one GenerationCoordinator: the create, start, cancel  *)
(* and retry commands, the worker threads it starts, its shutdown, and the *)
(* crash and restart of the whole process with the recovery of jobs.       *)
(*                                                                         *)
(* create, start and retry hold the coordinator's lock from their first    *)
(* check to their last effect.  cancel holds it only to look at the active *)
(* run: every load, commit and ComfyUI call of a cancel interleaves with   *)
(* the worker, with other cancels and with a start or a retry in progress. *)
(***************************************************************************)
EXTENDS GenerationService

CONSTANTS
  Cancels,    \* cancel calls that may ever be made; bounds them
  NoWorker,   \* the active run when there is none
  MaxCrashes  \* bound: upsets before which the process may be shut down or die

ASSUME CoordinatorAssumption ==
  /\ NoWorker \notin Workers
  /\ MaxCrashes \in Nat

VARIABLES
  lock,     \* the lock's holder, when a start or a retry is between two steps
  active,   \* _active_run and _worker, which are set and cleared together
  client,   \* _active_client is set
  cancel,   \* the cancel calls
  app       \* the process: recovering, serving or closed

coordVars == <<lock, active, client, cancel, app>>
vars == <<serviceVars, coordVars>>

----------------------------------------------------------------------------
CancelPc ==
  {"idle", "request", "look", "interrupt", "wait", "stop", "waitStopped",
   "reload", "confirm", "reloadFailed", "persistFailed", "returned"}

CancelState ==
  [ pc      : CancelPc,
    job     : Jobs \cup {NoJob},
    loaded  : JobState,
    attempt : 0 .. 2,
    run     : Workers \cup {NoWorker},  \* the run whose cancel_event it holds
    client  : BOOLEAN,                  \* it holds the active client
    prompt  : Batches ]                 \* the batch whose prompt it interrupts

IdleCancel ==
  [ pc |-> "idle", job |-> NoJob, loaded |-> AbsentState, attempt |-> 0,
    run |-> NoWorker, client |-> FALSE, prompt |-> 0 ]

Returned == [IdleCancel EXCEPT !.pc = "returned"]

LockState == [op : {"free", "start", "spawn", "retry"}, job : Jobs \cup {NoJob}, parent : Jobs \cup {NoJob}]
Free == [op |-> "free", job |-> NoJob, parent |-> NoJob]

Exists(j) == store[j].status # "absent"
Held(j)   == store[j].status \in Nonterminal

\* The active run is of this job.
RunOf(j)  == active # NoWorker /\ worker[active].job = j

\* _ensure_open, under the lock
Open == app = "serving" /\ ~shutdown /\ lock = Free

Init ==
  /\ store = [j \in Jobs |-> AbsentState]
  /\ worker = [w \in Workers |-> IdleWorker]
  /\ event = [w \in Workers |-> FALSE]
  /\ shutdown = FALSE
  /\ prompts = [p \in Jobs \X Batches |-> "none"]
  /\ comfyUp = FALSE
  /\ lock = Free
  /\ active = NoWorker
  /\ client = FALSE
  /\ cancel = [k \in Cancels |-> IdleCancel]
  /\ app = "serving"
  /\ upsets = 0
  /\ unrecorded = {}

----------------------------------------------------------------------------
(* create_job, start, retry: under the lock *)

\* Seeded fault: a queued job is not taken for a holder of the slot.
CreateBesideQueued(j) ==
  /\ Open
  /\ ~Exists(j)
  /\ \A i \in Jobs : store[i].status \notin ActiveJob
  /\ store' = [store EXCEPT ![j] = InitialState]
  /\ UNCHANGED <<worker, event, shutdown, prompts, comfyUp, coordVars, errorVars>>

CreateJob(j) ==
  /\ Open
  /\ ~Exists(j)
  /\ \A i \in Jobs : ~Held(i)
  /\ store' = [store EXCEPT ![j] = InitialState]
  /\ UNCHANGED <<worker, event, shutdown, prompts, comfyUp, coordVars, errorVars>>

\* Seeded fault: a start does not look for the job's running thread.
StartTwice(j) ==
  /\ Open
  /\ Held(j)
  /\ \A i \in Jobs \ {j} : ~Held(i)
  /\ \E w \in Workers : worker[w] = IdleWorker
  /\ lock' = [op |-> "start", job |-> j, parent |-> NoJob]
  /\ UNCHANGED <<serviceVars, active, client, cancel, app>>

\* start returns at once when the job is closed or its worker is alive.
StartCheck(j) ==
  /\ Open
  /\ Held(j)
  /\ \A i \in Jobs \ {j} : ~Held(i)
  /\ ~RunOf(j)
  /\ \E w \in Workers : worker[w] = IdleWorker
  /\ lock' = [op |-> "start", job |-> j, parent |-> NoJob]
  /\ UNCHANGED <<serviceVars, active, client, cancel, app>>

\* The record of a job whose work a restart has interrupted.
Interrupted(s) == s.status = "failed" /\ s.failure = "interrupted"

\* _recovery_prompt_id: the last batch that the restart interrupted with a prompt.
RecoveryPrompts(s) ==
  LET hit == {b \in Batches : s.batch[b] = "failed" /\ s.cause[b] = "interrupted" /\ s.prompt[b]}
  IN {b \in hit : Interrupted(s) /\ \A x \in hit : x <= b}

\* What _cleanup_orphan_prompts looks for: the recovery prompt of every other job.
Orphans(j) ==
  {p \in (Jobs \ {j}) \X Batches : p[2] \in RecoveryPrompts(store[p[1]])}

\* ensure_generation_ready brings ComfyUI up, or raises.
EnsureReady == comfyUp' = TRUE

\* Seeded fault: orphans are looked up and left alone.
CleanupNothing ==
  /\ lock.op = "start"
  /\ lock' = [lock EXCEPT !.op = "spawn"]
  /\ IF Orphans(lock.job) = {} THEN UNCHANGED comfyUp ELSE EnsureReady
  /\ UNCHANGED <<store, worker, event, shutdown, prompts, active, client, cancel, app, errorVars>>

\* _cleanup_orphan_prompts: a live orphan is interrupted, and when it does not
\* leave the queue in time the managed process is stopped (the check of a next
\* orphan brings it up again).
CleanupOrphans ==
  LET orphans == Orphans(lock.job)
      live    == {p \in orphans : prompts[p] = "live"}
  IN /\ lock.op = "start"
     /\ lock' = [lock EXCEPT !.op = "spawn"]
     /\ \/ /\ prompts' = [p \in DOMAIN prompts |-> IF p \in live THEN "gone" ELSE prompts[p]]
           /\ IF orphans = {} THEN UNCHANGED comfyUp ELSE EnsureReady
        \/ /\ live # {}
           /\ prompts' = StopPrompts
           /\ comfyUp' \in BOOLEAN
     /\ UNCHANGED <<store, worker, event, shutdown, active, client, cancel, app, errorVars>>

\* ensure_generation_ready, the queue or the stop raises.  (A start whose scans
\* or load raise has changed nothing: it is no step.)
CleanupRaises ==
  /\ lock.op = "start"
  /\ Orphans(lock.job) # {}
  /\ lock' = Free
  /\ UNCHANGED <<serviceVars, active, client, cancel, app>>

\* The new thread replaces whatever run was active, and leaves the active
\* client as it is.
StartWorker(w) ==
  /\ lock.op = "spawn"
  /\ worker[w] = IdleWorker
  /\ worker' = [worker EXCEPT ![w] = [IdleWorker EXCEPT !.pc = "boot", !.job = lock.job]]
  /\ active' = w
  /\ lock' = Free
  /\ UNCHANGED <<store, event, shutdown, prompts, comfyUp, client, cancel, app, errorVars>>

\* retry_job creates the child first, and completes it by a second commit.
RetryCreate(parent, j) ==
  /\ Open
  /\ store[parent].status \in {"failed", "canceled"}
  /\ ~Exists(j)
  /\ \A i \in Jobs : ~Held(i)
  /\ store' = [store EXCEPT ![j] = InitialState]
  /\ lock' = [op |-> "retry", job |-> j, parent |-> parent]
  /\ UNCHANGED <<worker, event, shutdown, prompts, comfyUp, active, client, cancel, app, errorVars>>

\* Copying raw files or the commit may raise: the child stays as it is.
RetryCommit ==
  /\ lock.op = "retry"
  /\ lock' = Free
  /\ \/ /\ store[lock.job].rev = 0
        /\ store' = [store EXCEPT ![lock.job] = InheritFrom(InitialState, store[lock.parent])]
     \/ UNCHANGED store
  /\ UNCHANGED <<worker, event, shutdown, prompts, comfyUp, active, client, cancel, app, errorVars>>

----------------------------------------------------------------------------
(* _run_worker around run_job *)

\* load, ensure_generation_ready (minutes, when ComfyUI has to boot), and the
\* client handed to the active run
BootWorker(w) ==
  /\ worker[w].pc = "boot" /\ lock = Free
  /\ worker' = [worker EXCEPT ![w].pc = "load"]
  /\ EnsureReady
  /\ client' = (client \/ RunOf(worker[w].job))
  /\ UNCHANGED <<store, event, shutdown, prompts, lock, active, cancel, app, errorVars>>

\* An error of ensure_generation_ready ends the thread; nothing is recorded.
BootFails(w) ==
  /\ worker[w].pc = "boot"
  /\ worker' = [worker EXCEPT ![w] = Exit(@)]
  /\ UNCHANGED <<store, event, shutdown, prompts, comfyUp, coordVars, errorVars>>

\* Seeded fault: a thread that ends leaves the active run behind.
EndWorkerOnly(w) ==
  /\ worker[w].pc = "exit" /\ lock = Free
  /\ worker' = [worker EXCEPT ![w] = DeadWorker]
  /\ UNCHANGED <<store, event, shutdown, prompts, comfyUp, coordVars, errorVars>>

\* The finally clause: the active run is cleared if it is of the same job.
EndWorker(w) ==
  LET mine == RunOf(worker[w].job) IN
  /\ worker[w].pc = "exit" /\ lock = Free
  /\ worker' = [worker EXCEPT ![w] = DeadWorker]
  /\ active' = IF mine THEN NoWorker ELSE active
  /\ client' = (client /\ ~mine)
  /\ UNCHANGED <<store, event, shutdown, prompts, comfyUp, lock, cancel, app, errorVars>>

Work(w) == (RunJob(w) \/ ExternalError(w)) /\ UNCHANGED coordVars

----------------------------------------------------------------------------
(* cancel *)

CancelStep(k, next) ==
  /\ cancel' = [cancel EXCEPT ![k] = next]
  /\ UNCHANGED <<lock, active, client, app>>

\* The caller moves on, changing nothing else.
CancelGoes(k, next) == CancelStep(k, next) /\ UNCHANGED serviceVars

\* Seeded fault: the stored revision is not compared.
CancelCommitBlind(k, new, ok, conflict, raised) ==
  /\ store' = [store EXCEPT ![cancel[k].job] = new]
  /\ CancelStep(k, ok)
  /\ UNCHANGED <<worker, event, shutdown, prompts, comfyUp, errorVars>>

CancelCommit(k, new, ok, conflict, raised) ==
  LET me == cancel[k]
      j  == me.job
  IN /\ \/ /\ store[j].rev = me.loaded.rev
           /\ store' = [store EXCEPT ![j] = new]
           /\ CancelStep(k, ok)
           /\ UNCHANGED errorVars
        \/ /\ store[j].rev # me.loaded.rev
           /\ CancelStep(k, conflict)
           /\ UNCHANGED <<store, errorVars>>
        \/ /\ StorageError(j, me.loaded, new, me.pc = "persistFailed")
           /\ CancelStep(k, raised)
     /\ UNCHANGED <<worker, event, shutdown, prompts, comfyUp>>

\* Once loaded, a request already recorded is not recorded again.
Requested(me, s) == [me EXCEPT !.loaded = s, !.pc = IF s.cancel THEN "look" ELSE "request"]

\* Seeded fault: a cancel signals first and records nothing.
BeginCancelSignal(k, j) ==
  /\ Open
  /\ cancel[k].pc = "idle"
  /\ Held(j)
  /\ CancelGoes(k, [IdleCancel EXCEPT !.job = j, !.loaded = store[j], !.pc = "look"])

\* A cancel of a closed job returns the job and does nothing.
BeginCancel(k, j) ==
  /\ Open
  /\ cancel[k].pc = "idle"
  /\ Held(j)
  /\ CancelGoes(k, Requested([IdleCancel EXCEPT !.job = j], store[j]))

CommitRequest(k) ==
  LET me  == cancel[k]
      s   == store[me.job]
      new == RequestCancel(me.loaded)
  IN /\ me.pc = "request"
     /\ CancelCommit(k, new,
          [me EXCEPT !.pc = "look", !.loaded = new, !.attempt = 0],
          IF me.attempt = 2 \/ s.status \in TerminalJob THEN Returned
          ELSE Requested([me EXCEPT !.attempt = @ + 1], s),
          Returned)

\* _active_prompt_id of the loaded record
ActivePrompts(s) ==
  {b \in Batches :
     /\ s.status \in Nonterminal
     /\ s.batch[b] = "generating" /\ s.prompt[b]
     /\ \A x \in Batches : x > b => ~(s.batch[x] = "generating" /\ s.prompt[x])}

\* Seeded fault: an error of the confirmation is returned, not recorded.
FailingSilent(me) == Returned

\* _confirm_canceled starts with a load.
Confirming(me) == [me EXCEPT !.pc = "reload", !.attempt = 0, !.loaded = AbsentState]
Failing(me)    == [me EXCEPT !.pc = "reloadFailed", !.loaded = AbsentState]

Signal(run) == IF run = NoWorker THEN event ELSE [event EXCEPT ![run] = TRUE]

\* Under the lock the active run of the job is read.  Without a prompt there is
\* nothing to interrupt: the worker is signalled and the cancel confirmed.
LookAtRun(k) ==
  LET me   == cancel[k]
      mine == RunOf(me.job)
      run  == IF mine THEN active ELSE NoWorker
      seen == [me EXCEPT !.run = run, !.client = mine /\ client, !.loaded = AbsentState]
  IN /\ me.pc = "look" /\ lock = Free
     /\ \/ /\ ActivePrompts(me.loaded) = {}
           /\ event' = Signal(run)
           /\ CancelStep(k, Confirming(seen))
           /\ UNCHANGED <<store, worker, shutdown, prompts, comfyUp, errorVars>>
        \/ \E b \in ActivePrompts(me.loaded) :
             CancelGoes(k, [seen EXCEPT !.pc = "interrupt", !.prompt = b])

PromptOf(me) == <<me.job, me.prompt>>

\* Without the active client one is made, by ensure_generation_ready.  The
\* interrupt stops the prompt if it is the one running.
Interrupt(k) ==
  LET me == cancel[k]
      up == comfyUp \/ ~me.client
  IN /\ me.pc = "interrupt" /\ up
     /\ comfyUp' = up
     /\ \/ UNCHANGED prompts
        \/ /\ prompts[PromptOf(me)] = "live"
           /\ prompts' = [prompts EXCEPT ![PromptOf(me)] = "gone"]
     /\ CancelStep(k, [me EXCEPT !.pc = "wait"])
     /\ UNCHANGED <<store, worker, event, shutdown, errorVars>>

\* _wait_for_prompt_clear sees the prompt in neither queue.
SeeClear(k) ==
  LET me == cancel[k] IN
  /\ me.pc \in {"wait", "waitStopped"} /\ comfyUp
  /\ prompts[PromptOf(me)] # "live"
  /\ event' = Signal(me.run)
  /\ CancelStep(k, Confirming(me))
  /\ UNCHANGED <<store, worker, shutdown, prompts, comfyUp, errorVars>>

\* The wait times out: first the process is stopped, then the call gives up.
WaitTimesOut(k) ==
  LET me == cancel[k] IN
  /\ me.pc \in {"wait", "waitStopped"} /\ comfyUp
  /\ prompts[PromptOf(me)] = "live"
  /\ CancelGoes(k, IF me.pc = "wait" THEN [me EXCEPT !.pc = "stop"] ELSE Failing(me))

StopComfyUI(k) ==
  /\ cancel[k].pc = "stop"
  /\ comfyUp' = FALSE
  /\ prompts' = StopPrompts
  /\ CancelStep(k, [cancel[k] EXCEPT !.pc = "waitStopped"])
  /\ UNCHANGED <<store, worker, event, shutdown, errorVars>>

\* interrupt, queue_snapshot, ensure_generation_ready or the stop raises; a
\* ComfyUI that does not answer always makes the queue raise.
CancelRaises(k) ==
  /\ cancel[k].pc \in {"interrupt", "wait", "stop", "waitStopped"}
  /\ CancelGoes(k, Failing(cancel[k]))

\* The load raises.
ConfirmUnloaded(k) ==
  /\ cancel[k].pc = "reload"
  /\ CancelStep(k, Failing(cancel[k]))
  /\ Upset(MaxErrors)
  /\ UNCHANGED <<store, worker, event, shutdown, prompts, comfyUp, unrecorded>>

ReloadForConfirm(k) ==
  LET me == cancel[k]
      s  == store[me.job]
  IN /\ me.pc = "reload"
     /\ CancelGoes(k, IF s.status = "canceled" THEN Returned
                      ELSE [me EXCEPT !.pc = "confirm", !.loaded = s])

\* Seeded fault: one attempt too many.
CommitConfirmAgain(k) ==
  LET me == cancel[k] IN
  /\ me.pc = "confirm"
  /\ CancelCommit(k, ConfirmCanceled(me.loaded), Returned,
       IF me.attempt = 3 THEN Failing(me)
       ELSE [me EXCEPT !.pc = "reload", !.attempt = @ + 1, !.loaded = AbsentState],
       Failing(me))

CommitConfirm(k) ==
  LET me == cancel[k] IN
  /\ me.pc = "confirm"
  /\ CancelCommit(k, ConfirmCanceled(me.loaded), Returned,
       IF me.attempt = 2 THEN Failing(me)
       ELSE [me EXCEPT !.pc = "reload", !.attempt = @ + 1, !.loaded = AbsentState],
       Failing(me))

ReloadForFailure(k) ==
  LET me == cancel[k] IN
  /\ me.pc = "reloadFailed"
  /\ CancelGoes(k, [me EXCEPT !.pc = "persistFailed", !.loaded = store[me.job]])

\* The load raises: the call ends, and the job keeps its request.
FailureUnloaded(k) ==
  LET me == cancel[k] IN
  /\ me.pc = "reloadFailed"
  /\ CancelStep(k, Returned)
  /\ UNCHANGED <<store, worker, event, shutdown, prompts, comfyUp>>
  /\ Upset(MaxErrors) /\ LeftOpen(me.job)

\* A conflict or a storage error here escapes cancel: nothing is recorded.
CommitFailure(k) ==
  LET me == cancel[k] IN
  /\ me.pc = "persistFailed"
  /\ CancelCommit(k, FailGeneration(me.loaded, "unconfirmed"),
                  Returned, Returned, Returned)

Cancel(k) ==
  \/ CommitRequest(k) \/ LookAtRun(k) \/ Interrupt(k) \/ SeeClear(k)
  \/ WaitTimesOut(k) \/ StopComfyUI(k) \/ CancelRaises(k)
  \/ ReloadForConfirm(k) \/ ConfirmUnloaded(k) \/ CommitConfirm(k)
  \/ ReloadForFailure(k) \/ FailureUnloaded(k) \/ CommitFailure(k)

----------------------------------------------------------------------------
(* Shutdown, death and restart of the process *)

Shutdown ==
  /\ Open
  /\ Upset(MaxCrashes)
  /\ shutdown' = TRUE
  /\ UNCHANGED <<store, worker, event, prompts, comfyUp, coordVars, unrecorded>>

\* Threads, calls, the lock and the events are memory; jobs are not.  An
\* orderly exit also stops ComfyUI; after a crash it may live on.
ProcessDies ==
  /\ IF shutdown THEN UNCHANGED upsets ELSE Upset(MaxCrashes)
  /\ app' = "recovering"
  /\ worker' = [w \in Workers |-> IF worker[w] = IdleWorker THEN IdleWorker ELSE DeadWorker]
  /\ cancel' = [k \in Cancels |-> IF cancel[k] = IdleCancel THEN IdleCancel ELSE Returned]
  /\ event' = [w \in Workers |-> FALSE]
  /\ shutdown' = FALSE
  /\ lock' = Free
  /\ active' = NoWorker
  /\ client' = FALSE
  /\ \/ UNCHANGED <<prompts, comfyUp>>
     \/ prompts' = StopPrompts /\ comfyUp' = FALSE
  /\ unrecorded' = {}
  /\ UNCHANGED store

\* RecoveryService.recover, before anything is served; when it raises, so does
\* the startup.  A job it cannot load it leaves as it is: the records are taken
\* to be readable at that time.
RecoverJob(j) ==
  /\ app = "recovering"
  /\ store[j].status \in ActiveJob
  /\ store' = [store EXCEPT ![j] = RecoverInterruption(@)]
  /\ UNCHANGED <<worker, event, shutdown, prompts, comfyUp, coordVars, errorVars>>

Serve ==
  /\ app = "recovering"
  /\ \A j \in Jobs : RecoverInterruption(store[j]) = store[j]
  /\ app' = "serving"
  /\ UNCHANGED <<serviceVars, lock, active, client, cancel>>

----------------------------------------------------------------------------
Thread(w) == Work(w) \/ BootWorker(w) \/ BootFails(w) \/ EndWorker(w)

Comfy == (ComfyStops \/ \E p \in DOMAIN prompts : PromptEnds(p)) /\ UNCHANGED coordVars

Holder == CleanupOrphans \/ CleanupRaises \/ RetryCommit \/ \E w \in Workers : StartWorker(w)

Next ==
  \/ \E j \in Jobs : CreateJob(j) \/ StartCheck(j) \/ RecoverJob(j)
  \/ \E i, j \in Jobs : RetryCreate(i, j)
  \/ Holder
  \/ \E w \in Workers : Thread(w)
  \/ \E k \in Cancels : Cancel(k) \/ \E j \in Jobs : BeginCancel(k, j)
  \/ Comfy
  \/ Shutdown \/ ProcessDies \/ Serve

Spec == Init /\ [][Next]_vars

----------------------------------------------------------------------------
(* Safety *)

\* Every variable has its type.
TypeOK ==
  /\ store \in [Jobs -> JobState]
  /\ worker \in [Workers -> WorkerState]
  /\ event \in [Workers -> BOOLEAN]
  /\ shutdown \in BOOLEAN
  /\ prompts \in [Jobs \X Batches -> PromptStatus]
  /\ comfyUp \in BOOLEAN
  /\ lock \in LockState
  /\ active \in Workers \cup {NoWorker}
  /\ client \in BOOLEAN
  /\ cancel \in [Cancels -> CancelState]
  /\ app \in {"serving", "recovering"}
  /\ upsets \in Nat
  /\ unrecorded \subseteq Jobs

\* The whole application has at most one nonterminal generation job, whatever
\* the threads and calls that write to jobs outside the coordinator's lock, as
\* long as the scan for a holder reads every job.
SingleSlot == \A i, j \in Jobs : Held(i) /\ Held(j) => i = j

\* No legal sequence of writes builds a record its own validators refuse:
\* the transitions never raise a ValidationError in the middle of a command.
RecordsValid == \A j \in Jobs : ValidRecord(store[j])

\* No update is lost: a record is only ever replaced by a successor of the
\* revision it replaces, and no two writers produce the same revision.
NoLostUpdate ==
  [][\A j \in Jobs : store'[j] # store[j] =>
       IF Exists(j) THEN store'[j].rev = store[j].rev + 1 ELSE store'[j].rev = 0]_vars

\* Work that is finished stays: neither a failure, a cancel, a crash nor a
\* recovery takes back a completed candidate or a rendered batch.
FinishedWorkKept ==
  [][\A j \in Jobs :
       /\ \A c \in Candidates :
            store[j].cand[c] \in DoneCandidate => store'[j].cand[c] = store[j].cand[c]
       /\ \A b \in Batches : store[j].raw[b] => store'[j].raw[b]]_vars

\* Never do two threads run the same job, although the end of a thread, the
\* start of the next one and the active run are related only by the job id.
OneWorkerPerJob ==
  \A v, w \in Workers :
    Alive(v) /\ Alive(w) /\ worker[v].job = worker[w].job => v = w

\* A worker is signalled only when the stored job already records the request,
\* so a thread that sees the signal never has to record one itself.
SignalMeansRequested ==
  \A w \in Workers : event[w] /\ Alive(w) => store[worker[w].job].cancel

\* An active job whose worker is gone holds the slot with nobody to finish it.
\* That happens only to a job whose cancel was requested (it can be canceled
\* again), to one whose end a storage error kept a thread or a cancel from
\* recording, or while the process is recovering or shutting down.
AbandonedOnlyByCancel ==
  \A j \in Jobs :
    store[j].status \in ActiveJob /\ app = "serving" /\ ~shutdown =>
      \/ store[j].cancel \/ j \in unrecorded
      \/ \E w \in Workers : Alive(w) /\ worker[w].job = j

\* A prompt is submitted only after every recorded prompt of a job that a
\* restart interrupted is out of ComfyUI's queue.
OrphansClearedFirst ==
  [][\A p \in DOMAIN prompts :
       prompts[p] # "live" /\ prompts'[p] = "live" =>
         \A q \in Orphans(p[1]) : prompts[q] # "live"]_vars

\* The slot and its results, as GenerationSlot promises them.
Phase(s) ==
  IF s.status = "absent" THEN "absent"
  ELSE IF s.status \in Nonterminal THEN "held" ELSE "closed"

Slot == INSTANCE GenerationSlot WITH
  phase  <- [j \in Jobs |-> Phase(store[j])],
  result <- [j \in Jobs |-> {c \in Candidates : store[j].cand[c] \in DoneCandidate}]

\* Whatever the interleaving, jobs take the slot one at a time, never take it
\* back, and never change their results once they have given it up.
SlotPromise == Slot!Spec

----------------------------------------------------------------------------
(* The inductive invariant.  SingleSlot does not survive a step on its own:  *)
(* a late writer holds a snapshot of a job that somebody else has closed.    *)
(* What saves the slot is that a snapshot of the stored revision is the      *)
(* stored record itself, and that no transition reopens a closed one.        *)

\* In the store st, s is a snapshot of j: an older revision, or the record.
SnapshotOf(st, j, s) ==
  /\ s.rev <= st[j].rev
  /\ s.rev = st[j].rev => s = st[j]

StoreInv ==
  /\ SingleSlot
  /\ \A j \in Jobs : Consistent(store[j])
  /\ \A j \in Jobs : Exists(j) /\ store[j].rev = 0 => store[j] = InitialState

WorkerInv(st, me) ==
  /\ me.pc \notin {"idle", "dead"} => me.job \in Jobs /\ st[me.job].status # "absent"
  /\ me.pc \notin {"idle", "boot", "load", "exit", "dead"} => SnapshotOf(st, me.job, me.loaded)
  /\ me.pc = "start" => me.loaded.status = "queued"
  /\ me.pc = "progress" => SnapshotOf(st, me.job, me.fresh)
  /\ me.pc = "cancel" => me.loaded.status \notin TerminalJob

CancelInv(st, me) ==
  /\ me.pc \notin {"idle", "returned"} => me.job \in Jobs /\ st[me.job].status # "absent"
  /\ me.pc \in {"request", "confirm", "persistFailed"} => SnapshotOf(st, me.job, me.loaded)
  /\ me.pc = "request" => ~me.loaded.cancel /\ me.loaded.status \in Nonterminal
  /\ me.pc \notin {"idle", "request", "returned"} => st[me.job].cancel

LockInv ==
  /\ lock.op # "free" => lock.job \in Jobs /\ Exists(lock.job)
  /\ lock.op = "retry" => lock.parent \in Jobs /\ store[lock.parent].status \in TerminalJob

SlotInv ==
  /\ TypeOK
  /\ StoreInv
  /\ \A w \in Workers : WorkerInv(store, worker[w])
  /\ \A k \in Cancels : CancelInv(store, cancel[k])
  /\ LockInv

\* Threads, runs and jobs: what keeps a job's thread alone, and its signal.
RunInv ==
  /\ \A w \in Workers :
       /\ worker[w].pc \in {"idle", "dead"} => worker[w].job = NoJob
       /\ Alive(w) /\ Held(worker[w].job) => active = w
       /\ lock.op \in {"start", "spawn"} /\ Alive(w) => worker[w].job # lock.job
       /\ event[w] => worker[w].pc # "idle"
  /\ lock.op \in {"start", "spawn"} => \A j \in Jobs : Held(j) => j = lock.job
  /\ active # NoWorker => Alive(active)
  /\ \A k \in Cancels : cancel[k].run # NoWorker =>
       /\ worker[cancel[k].run].pc # "idle"
       /\ Alive(cancel[k].run) => worker[cancel[k].run].job = cancel[k].job
  /\ OneWorkerPerJob
  /\ SignalMeansRequested

\* Active jobs: a record that is active has a thread at work on it, or asks for
\* a cancel.  Whoever writes beside the thread leaves a record of the second
\* kind, so a thread that finds its snapshot outdated may end; only a storage
\* error can leave it with an outdated snapshot of its own making.
Unattended(s) == s.status \in ActiveJob => s.cancel

WorkerDuty(st, down, me) ==
  /\ me.pc \in {"boot", "load", "exit"} /\ ~down => Unattended(st[me.job])
  /\ me.pc \notin {"idle", "boot", "load", "exit", "dead"} =>
       st[me.job].rev = me.loaded.rev \/ Unattended(st[me.job])

DutyInv ==
  /\ \A w \in Workers :
       worker[w].job \in unrecorded \/ WorkerDuty(store, shutdown, worker[w])
  /\ lock.op \in {"start", "spawn"} /\ ~shutdown =>
       lock.job \in unrecorded \/ Unattended(store[lock.job])
  /\ AbandonedOnlyByCancel

\* Orphan prompts: nobody who may write a job or start its thread is at an
\* interrupted one, and a thread runs beside no orphan that is still queued.
Cleared(j) == \A q \in Orphans(j) : prompts[q] # "live"

OrphanInv ==
  /\ \A w \in Workers : Alive(w) =>
       ~Interrupted(store[worker[w].job]) /\ Cleared(worker[w].job)
  /\ \A k \in Cancels : cancel[k].pc \notin {"idle", "returned"} =>
       ~Interrupted(store[cancel[k].job])
  /\ lock.op \in {"start", "spawn"} => ~Interrupted(store[lock.job])
  /\ lock.op = "spawn" => Cleared(lock.job)
  /\ app = "recovering" =>
       /\ lock.op = "free"
       /\ \A w \in Workers : ~Alive(w)
       /\ \A k \in Cancels : cancel[k].pc \in {"idle", "returned"}

Inv == SlotInv /\ RunInv /\ DutyInv /\ OrphanInv

----------------------------------------------------------------------------
(* Liveness *)

\* A thread, a cancel call, a start, a retry or a recovery that can go on does.
\* Nothing is assumed of ComfyUI, of the inputs or of the shutdown: an await on
\* ComfyUI ends in an error when its timeout expires (ExternalError,
\* WaitTimesOut, CancelRaises).
FairSpec ==
  /\ Spec
  /\ \A w \in Workers : WF_vars(Thread(w))
  /\ \A k \in Cancels : WF_vars(Cancel(k))
  /\ WF_vars(Holder)
  /\ WF_vars(Serve \/ \E j \in Jobs : RecoverJob(j))

\* Every thread ends, whatever ComfyUI and the other writers do.
WorkerEnds == \A w \in Workers : Alive(w) ~> ~Alive(w)

\* A recorded cancel request is settled: the job leaves the slot, or records
\* that the cancel could not be confirmed, unless a storage error keeps the
\* thread or the call that would record it from doing so.
RequestSettles ==
  \A j \in Jobs :
    store[j].cancel /\ Held(j) ~>
      ~Held(j) \/ store[j].failure = "unconfirmed" \/ j \in unrecorded

----------------------------------------------------------------------------
(* What the documents say and the code does not do *)

\* Phase 5 design, 10.2: a job is canceled, and frees the slot, only when the
\* GPU work is known to have stopped.
CanceledMeansStopped ==
  \A j \in Jobs : store[j].status = "canceled" =>
    \A b \in Batches : prompts[<<j, b>>] # "live"

\* Phase 3 plan, job transitions: completed, failed and canceled are terminal.
TerminalIsFinal ==
  [][\A j \in Jobs : store[j].status \in TerminalJob =>
       store'[j].status = store[j].status]_vars

\* Phase 5 design, 9.2: when ComfyUI does not start, or a check before the run
\* fails, the job becomes failed.
PreflightFailureRecorded ==
  \A w \in Workers : worker[w].pc = "exit" /\ ~shutdown =>
    store[worker[w].job].status # "queued"
=============================================================================
