-------------------------- MODULE GenerationService --------------------------
(***************************************************************************)
(* GenerationService.run_job as worker threads execute it, on the durable  *)
(* job store and the managed ComfyUI.                                      *)
(*                                                                         *)
(* The store is optimistic: a writer loads a record, computes a successor, *)
(* and replace_state accepts it only if the stored revision is still the   *)
(* one that was loaded (jobs/store.py).  Between the two, other threads    *)
(* write: every load and every commit is a step of its own here.  Each may *)
(* raise a storage error, a commit before or after the record is replaced. *)
(***************************************************************************)
EXTENDS GenerationState

CONSTANTS
  Jobs,         \* identities of jobs that may ever exist
  Workers,      \* worker threads that may ever be started; bounds the starts
  MaxProgress,  \* bound: progress messages one completion wait reports
  MaxErrors,    \* bound: upsets before which the storage may fail
  NoJob         \* the job of a thread that runs none

ASSUME ServiceAssumption ==
  /\ NoJob \notin Jobs
  /\ MaxProgress \in Nat
  /\ MaxErrors \in Nat

VARIABLES
  store,     \* the job directories: state.json of every job
  worker,    \* the threads running _run_worker
  event,     \* the cancel_event of each worker's run
  shutdown,  \* the coordinator's shutdown event
  prompts,   \* what ComfyUI knows of the prompt of a batch
  comfyUp,   \* the managed ComfyUI process answers
  upsets,    \* storage errors, shutdowns and crashes so far
  unrecorded \* history: jobs of which a storage error kept a thread or a cancel
             \* from recording an end since the process started; no step reads it

errorVars == <<upsets, unrecorded>>
serviceVars == <<store, worker, event, shutdown, prompts, comfyUp, errorVars>>

----------------------------------------------------------------------------
WorkerPc ==
  {"idle", "boot", "load", "start", "check", "batch", "submit", "record", "wait",
   "flush", "progress", "raw", "candidate", "finish", "fail", "reload", "cancel",
   "exit", "dead"}

PromptStatus == {"none", "live", "done", "gone"}

\* loaded is the thread's snapshot of its job; fresh the one _commit_progress
\* takes; then is where a check or a progress commit returns to.
WorkerState ==
  [ pc      : WorkerPc,
    job     : Jobs \cup {NoJob},
    loaded  : JobState,
    fresh   : JobState,
    batch   : Batches,
    place   : Places,
    then    : {"batch", "candidate", "wait", "raw"},
    ticks   : 0 .. MaxProgress,
    attempt : 0 .. 2 ]

IdleWorker ==
  [ pc |-> "idle", job |-> NoJob, loaded |-> AbsentState, fresh |-> AbsentState,
    batch |-> 0, place |-> 0, then |-> "batch", ticks |-> 0, attempt |-> 0 ]

DeadWorker == [IdleWorker EXCEPT !.pc = "dead"]

Alive(w) == worker[w].pc \notin {"idle", "dead"}

----------------------------------------------------------------------------
(* Where a worker goes next: control flow that changes only the thread.    *)

Goto(me, pc) == [me EXCEPT !.pc = pc]

\* run_job has returned or raised; only the thread's finally clause is left.
Exit(me) == [IdleWorker EXCEPT !.pc = "exit", !.job = me.job]

Check(me, then) == [me EXCEPT !.pc = "check", !.then = then]

Cand(me) == <<me.batch, me.place>>

FirstCandidate(me) == Check([me EXCEPT !.place = 0], "candidate")

\* run_job's loop after _continue_batch has returned me.loaded
AfterBatch(me) ==
  IF me.loaded.status \in {"failed", "canceled"} THEN Exit(me)
  ELSE IF me.batch + 1 \in Batches THEN Check([me EXCEPT !.batch = @ + 1], "batch")
  ELSE Goto(me, "finish")

\* Seeded fault: a batch that is resumed begins with its first candidate again.
AfterCandidateRestart(me) == FirstCandidate(me)

\* the loop of _process_raw_ready_candidates
AfterCandidate(me) ==
  IF me.place + 1 \in Places
  THEN Check([me EXCEPT !.place = @ + 1], "candidate")
  ELSE AfterBatch(me)

----------------------------------------------------------------------------
(* Steps of a thread *)

\* The thread moves on without touching the store.
Continue(w, next) ==
  /\ worker' = [worker EXCEPT ![w] = next]
  /\ UNCHANGED <<store, event, shutdown, prompts, comfyUp, errorVars>>

Upset(bound) == upsets < bound /\ upsets' = upsets + 1

\* A storage error may leave j open with nobody to close it.
LeftOpen(j) ==
  unrecorded' =
    IF store'[j].status \in Nonterminal THEN unrecorded \cup {j} ELSE unrecorded

\* replace_state raises a storage error, before it replaces the record of j or
\* after.  The job may be left open when the record is written without its
\* writer knowing, or when the write was the last one of a thread or a call.
StorageError(j, from, new, last) ==
  /\ \/ UNCHANGED store
     \/ store[j].rev = from.rev /\ store' = [store EXCEPT ![j] = new]
  /\ Upset(MaxErrors)
  /\ IF last \/ store' # store THEN LeftOpen(j) ELSE UNCHANGED unrecorded

\* Where a storage error takes a thread: to the failure handler from within
\* run_job's try, out of run_job from anywhere else.
Raised(me) ==
  IF me.pc \in {"load", "fail", "reload", "cancel"} THEN Exit(me)
  ELSE [me EXCEPT !.pc = "fail", !.fresh = AbsentState]

\* replace_state(new, expected_revision = from.revision): a compare-and-swap.
Commit(w, from, new, ok, conflict) ==
  LET me == worker[w]
      j  == me.job
  IN /\ \/ /\ store[j].rev = from.rev
           /\ store' = [store EXCEPT ![j] = new]
           /\ worker' = [worker EXCEPT ![w] = ok]
           /\ UNCHANGED errorVars
        \/ /\ store[j].rev # from.rev
           /\ worker' = [worker EXCEPT ![w] = conflict]
           /\ UNCHANGED <<store, errorVars>>
        \/ /\ StorageError(j, from, new, me.pc \in {"fail", "cancel"})
           /\ worker' = [worker EXCEPT ![w] = Raised(me)]
     /\ UNCHANGED <<event, shutdown, prompts, comfyUp>>

\* Commit of a successor of the thread's own snapshot, which it then holds;
\* a conflict is an exception, and ends in the failure handler.
Advance(w, new, next) ==
  Commit(w, worker[w].loaded, new, [next EXCEPT !.loaded = new], Goto(worker[w], "fail"))

\* The load of run_job raises: the thread ends before it has begun.
LoadRaises(w) ==
  /\ worker[w].pc = "load"
  /\ Continue(w, Raised(worker[w]))

LoadJob(w) ==
  LET me == worker[w]
      s  == store[me.job]
  IN /\ me.pc = "load"
     /\ Continue(w,
          IF shutdown THEN Exit(me)
          ELSE IF s.status = "queued" THEN [me EXCEPT !.pc = "start", !.loaded = s]
          ELSE Check([me EXCEPT !.loaded = s], "batch"))

BeginJob(w) ==
  LET me == worker[w] IN
  /\ me.pc = "start"
  /\ Advance(w, StartGeneration(me.loaded), Check(me, "batch"))

\* _cancel_if_requested.  Consecutive checks with nothing between them (at the
\* head of run_job and of its first batch; after raw_ready and before the first
\* candidate) are one.
CheckShutdown(w) ==
  /\ worker[w].pc = "check" /\ shutdown
  /\ Continue(w, Exit(worker[w]))

CheckPass(w) ==
  LET me == worker[w] IN
  /\ me.pc = "check" /\ ~shutdown
  /\ event[w] => me.loaded.status = "canceled"
  /\ Continue(w, Goto(me, me.then))

\* The signal is set.  Without a recorded request the thread records one and
\* comes back to confirm it; with one it confirms, and goes on as if nothing
\* had happened.
CheckCanceled(w) ==
  LET me == worker[w] IN
  /\ me.pc = "check" /\ ~shutdown
  /\ event[w] /\ me.loaded.status # "canceled"
  /\ IF me.loaded.cancel
     THEN Advance(w, ConfirmCanceled(me.loaded), Goto(me, me.then))
     ELSE IF CanRequestCancel(me.loaded)
     THEN Advance(w, RequestCancel(me.loaded), me)
     ELSE Continue(w, Goto(me, "fail"))

\* _continue_batch, up to the commit of start_batch
SkipBatch(w) ==
  LET me == worker[w] IN
  /\ me.pc = "batch" /\ AllDone(me.loaded, me.batch)
  /\ Continue(w, AfterBatch(me))

ResumeRawBatch(w) ==
  LET me == worker[w] IN
  /\ me.pc = "batch" /\ ~AllDone(me.loaded, me.batch)
  /\ me.loaded.batch[me.batch] = "raw_ready"
  /\ Continue(w, FirstCandidate(me))

BeginBatch(w) ==
  LET me == worker[w] IN
  /\ me.pc = "batch" /\ ~AllDone(me.loaded, me.batch)
  /\ me.loaded.batch[me.batch] # "raw_ready"
  /\ IF CanStartBatch(me.loaded, me.batch)
     THEN Advance(w, StartBatch(me.loaded, me.batch), Goto(me, "submit"))
     ELSE Continue(w, Goto(me, "fail"))

\* Upload, compile, submit_prompt.  The registration callback that follows
\* stores a prompt id nobody reads.
SubmitPrompt(w) ==
  LET me == worker[w] IN
  /\ me.pc = "submit" /\ comfyUp
  /\ prompts' = [prompts EXCEPT ![<<me.job, me.batch>>] = "live"]
  /\ worker' = [worker EXCEPT ![w] = Goto(me, "record")]
  /\ UNCHANGED <<store, event, shutdown, comfyUp, errorVars>>

\* Any external step may raise: an upload, the submission, the completion
\* wait (timeout, disconnection, an execution_error of whatever prompt), the
\* load of a progress snapshot, the output contract, the publication of files,
\* the post-processing.
ExternalError(w) ==
  /\ \/ worker[w].pc \in {"submit", "wait", "flush", "raw"}
     \/ /\ worker[w].pc = "candidate"
        /\ worker[w].loaded.cand[Cand(worker[w])] \notin DoneCandidate
  /\ Continue(w, Goto(worker[w], "fail"))

CommitPrompt(w) ==
  LET me == worker[w] IN
  /\ me.pc = "record"
  /\ Advance(w, RecordPrompt(me.loaded, me.batch), [me EXCEPT !.pc = "wait", !.ticks = 0])

\* _commit_progress loads the stored record anew; it is how the thread comes
\* to see a cancel request made by somebody else.
LoadForProgress(w, me, then) ==
  LET s == store[me.job] IN
  Continue(w,
    IF s.status \in ActiveJob
    THEN [me EXCEPT !.pc = "progress", !.fresh = s, !.then = then]
    ELSE [me EXCEPT !.pc = then, !.loaded = s])

WaitProgress(w) ==
  LET me == worker[w] IN
  /\ me.pc = "wait" /\ me.ticks < MaxProgress
  /\ LoadForProgress(w, [me EXCEPT !.ticks = @ + 1], "wait")

CommitProgress(w) ==
  LET me  == worker[w]
      new == RecordProgress(me.fresh, me.batch)
  IN /\ me.pc = "progress"
     /\ IF CanRecordProgress(me.fresh, me.batch)
        THEN Commit(w, me.fresh, new,
                    [me EXCEPT !.pc = me.then, !.loaded = new, !.fresh = AbsentState],
                    [me EXCEPT !.pc = "fail", !.fresh = AbsentState])
        ELSE Continue(w, [me EXCEPT !.pc = "fail", !.fresh = AbsentState])

WaitComplete(w) ==
  LET me == worker[w] IN
  /\ me.pc = "wait" /\ prompts[<<me.job, me.batch>>] = "done"
  /\ Continue(w, Goto(me, IF me.ticks > 0 THEN "flush" ELSE "raw"))

\* _ProgressRecorder.flush commits the last reported step once more.
FlushProgress(w) ==
  /\ worker[w].pc = "flush"
  /\ LoadForProgress(w, worker[w], "raw")

\* ComfyCanceledError: the wait polls the cancel signal and the shutdown.
WaitCanceled(w) ==
  LET me == worker[w] IN
  /\ me.pc = "wait" /\ (event[w] \/ shutdown)
  /\ Continue(w, IF shutdown THEN Exit(me)
                 ELSE [me EXCEPT !.pc = "reload", !.attempt = 0])

\* publish_raw_batch, then the commit of mark_batch_raw_ready
CommitRaw(w) ==
  LET me == worker[w] IN
  /\ me.pc = "raw"
  /\ IF CanMarkRawReady(me.loaded, me.batch)
     THEN Advance(w, MarkRawReady(me.loaded, me.batch), FirstCandidate(me))
     ELSE Continue(w, Goto(me, "fail"))

SkipCandidate(w) ==
  LET me == worker[w] IN
  /\ me.pc = "candidate" /\ me.loaded.cand[Cand(me)] \in DoneCandidate
  /\ Continue(w, AfterCandidate(me))

\* process_and_publish, then the commit of complete_candidate
CommitCandidate(w) ==
  LET me  == worker[w]
      new == CompleteCandidate(me.loaded, Cand(me))
  IN /\ me.pc = "candidate" /\ me.loaded.cand[Cand(me)] \notin DoneCandidate
     /\ IF CanCompleteCandidate(me.loaded, Cand(me))
        THEN Advance(w, new, AfterCandidate([me EXCEPT !.loaded = new]))
        ELSE Continue(w, Goto(me, "fail"))

FinishJob(w) ==
  LET me == worker[w] IN
  /\ me.pc = "finish"
  /\ IF ~CanCompleteGeneration(me.loaded) THEN Continue(w, Goto(me, "fail"))
     ELSE IF shutdown THEN Continue(w, Exit(me))
     ELSE Advance(w, CompleteGeneration(me.loaded), Exit(me))

\* The failure handler writes over the snapshot the thread last held; a
\* conflict or a storage error here escapes run_job.
FailJob(w) ==
  LET me == worker[w] IN
  /\ me.pc = "fail"
  /\ Commit(w, me.loaded, FailGeneration(me.loaded, "execution"),
            Exit(me), Exit(me))

\* _confirm_comfy_cancellation: load, then commit, at most three times.
ReloadCanceled(w) ==
  LET me == worker[w]
      s  == store[me.job]
  IN /\ me.pc = "reload"
     /\ Continue(w, IF s.status \in TerminalJob THEN Exit(me)
                    ELSE [me EXCEPT !.pc = "cancel", !.loaded = s])

ConfirmComfyCanceled(w) ==
  LET me == worker[w] IN
  /\ me.pc = "cancel"
  /\ IF ~me.loaded.cancel
     THEN Commit(w, me.loaded, RequestCancel(me.loaded),
                 [me EXCEPT !.loaded = RequestCancel(me.loaded)], Exit(me))
     ELSE Commit(w, me.loaded, ConfirmCanceled(me.loaded), Exit(me),
                 IF me.attempt = 2 THEN Exit(me)
                 ELSE [me EXCEPT !.pc = "reload", !.attempt = @ + 1])

\* The load of a confirmation raises: the thread ends with the job open.
ReloadRaises(w) ==
  /\ worker[w].pc = "reload"
  /\ worker' = [worker EXCEPT ![w] = Raised(@)]
  /\ UNCHANGED <<store, event, shutdown, prompts, comfyUp>>
  /\ Upset(MaxErrors) /\ LeftOpen(worker[w].job)

RunJob(w) ==
  \/ LoadJob(w) \/ LoadRaises(w) \/ BeginJob(w)
  \/ CheckShutdown(w) \/ CheckPass(w) \/ CheckCanceled(w)
  \/ SkipBatch(w) \/ ResumeRawBatch(w) \/ BeginBatch(w)
  \/ SubmitPrompt(w) \/ CommitPrompt(w)
  \/ WaitProgress(w) \/ CommitProgress(w) \/ FlushProgress(w)
  \/ WaitComplete(w) \/ WaitCanceled(w)
  \/ CommitRaw(w) \/ SkipCandidate(w) \/ CommitCandidate(w)
  \/ FinishJob(w) \/ FailJob(w)
  \/ ReloadCanceled(w) \/ ReloadRaises(w) \/ ConfirmComfyCanceled(w)

----------------------------------------------------------------------------
(* ComfyUI, as the client in comfy/client.py sees it *)

StopPrompts == [p \in DOMAIN prompts |-> IF prompts[p] = "none" THEN "none" ELSE "gone"]

\* A prompt renders, or ends without an output.
PromptEnds(p) ==
  /\ prompts[p] = "live"
  /\ \E end \in {"done", "gone"} : prompts' = [prompts EXCEPT ![p] = end]
  /\ UNCHANGED <<store, worker, event, shutdown, comfyUp, errorVars>>

\* The process dies, or the user stops it; its queue and history die with it.
ComfyStops ==
  /\ comfyUp
  /\ comfyUp' = FALSE
  /\ prompts' = StopPrompts
  /\ UNCHANGED <<store, worker, event, shutdown, errorVars>>
=============================================================================
