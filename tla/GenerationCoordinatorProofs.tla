--------------------- MODULE GenerationCoordinatorProofs ---------------------
(***************************************************************************)
(* Three layers of the coordinator's inductive invariant.  The slot: every *)
(* write to the store is a creation in a free slot or a successor of the   *)
(* stored record.  Threads, runs and signals: RunInv.  Active jobs and     *)
(* orphan prompts: DutyInv and OrphanInv.  Each layer stands on those      *)
(* before it; the theorems follow the layer that proves them.              *)
(***************************************************************************)
EXTENDS GenerationCoordinator, GenerationStateProofs

\* A step creates a job in the free slot, or replaces one record.
Creates(j) ==
  /\ ~Exists(j)
  /\ \A i \in Jobs : ~Held(i)
  /\ store' = [store EXCEPT ![j] = InitialState]

Replaces(j) ==
  /\ Exists(j)
  /\ \E t \in JobState :
       Writes(store[j], t) /\ store' = [store EXCEPT ![j] = t]

Rewrites  == UNCHANGED store \/ \E j \in Jobs : Replaces(j)
StoreStep == Rewrites \/ \E j \in Jobs : Creates(j)

\* What a step of the store leaves true of every snapshot and every job.
Moves(st, next) ==
  \A j \in Jobs : st[j].status # "absent" =>
    /\ next[j].status # "absent"
    /\ st[j].status \in TerminalJob => next[j].status \in TerminalJob
    /\ st[j].cancel => next[j].cancel
    /\ \A s \in JobState : SnapshotOf(st, j, s) => SnapshotOf(next, j, s)

LEMMA StoreStepKeeps ==
  ASSUME store \in [Jobs -> JobState], StoreInv, StoreStep
  PROVE  store' \in [Jobs -> JobState] /\ StoreInv' /\ Moves(store, store')
<1>1. CASE UNCHANGED store
  BY <1>1 DEF StoreInv, SingleSlot, Exists, Held, Moves, SnapshotOf
<1>2. ASSUME NEW j \in Jobs, Creates(j)
      PROVE  store' \in [Jobs -> JobState] /\ StoreInv' /\ Moves(store, store')
  <2>1. /\ store' = [store EXCEPT ![j] = InitialState]
        /\ store[j].status = "absent"
        /\ \A i \in Jobs : store[i].status \notin Nonterminal
    BY <1>2 DEF Creates, Exists, Held
  <2>2. store' \in [Jobs -> JobState]
    BY <2>1, FreshRecords
  <2>3. \A i \in Jobs : store'[i] = IF i = j THEN InitialState ELSE store[i]
    BY <2>1
  <2>4. StoreInv'
    BY <2>1, <2>3, FreshRecords DEF StoreInv, SingleSlot, Exists, Held
  <2>5. Moves(store, store')
    BY <2>1, <2>3 DEF Moves, SnapshotOf
  <2> QED BY <2>2, <2>4, <2>5
<1>3. ASSUME NEW j \in Jobs, Replaces(j)
      PROVE  store' \in [Jobs -> JobState] /\ StoreInv' /\ Moves(store, store')
  <2>1. store[j].status # "absent"
    BY <1>3 DEF Replaces, Exists
  <2>2. PICK t \in JobState : Writes(store[j], t) /\ store' = [store EXCEPT ![j] = t]
    BY <1>3 DEF Replaces
  <2>3. store' \in [Jobs -> JobState]
    BY <2>2
  <2>4. \A i \in Jobs : store'[i] = IF i = j THEN t ELSE store[i]
    BY <2>2
  <2>5. /\ Consistent(t) /\ t.rev = store[j].rev + 1 /\ t.status # "absent"
        /\ store[j].status \in TerminalJob => t.status \in TerminalJob
        /\ store[j].cancel => t.cancel
    BY <2>2 DEF Writes, Successor
  <2>6. /\ store[j].rev \in Nat /\ t.rev # 0
        /\ store[j].status \in JobStatus /\ t.status \in JobStatus
    BY <2>5 DEF JobState
  <2>7. t.status \in Nonterminal => store[j].status \in Nonterminal
    BY <2>1, <2>5, <2>6 DEF JobStatus, Nonterminal, ActiveJob, TerminalJob
  <2>8. StoreInv'
    BY <2>4, <2>5, <2>6, <2>7 DEF StoreInv, SingleSlot, Exists, Held
  <2>9. \A s \in JobState : SnapshotOf(store, j, s) => SnapshotOf(store', j, s)
    BY <2>4, <2>5, <2>6 DEF SnapshotOf, JobState
  <2>10. Moves(store, store')
    BY <2>1, <2>4, <2>5, <2>9 DEF Moves, SnapshotOf
  <2> QED BY <2>3, <2>8, <2>10
<1> QED BY <1>1, <1>2, <1>3 DEF StoreStep, Rewrites

\* Threads and calls that stand still keep their part of the invariant.
LEMMA WorkerInvMoves ==
  ASSUME NEW st, NEW next, Moves(st, next), NEW me \in WorkerState, WorkerInv(st, me)
  PROVE  WorkerInv(next, me)
BY DEF Moves, WorkerInv, WorkerState

LEMMA CancelInvMoves ==
  ASSUME NEW st, NEW next, Moves(st, next), NEW me \in CancelState, CancelInv(st, me)
  PROVE  CancelInv(next, me)
BY DEF Moves, CancelInv, CancelState

----------------------------------------------------------------------------
(* Worker threads *)

\* Where a thread is that holds a snapshot and has nothing else to show for it.
Holding == WorkerPc \ {"idle", "boot", "load", "start", "progress", "cancel", "exit", "dead"}

\* n is me moved on: it runs the same job and holds the same snapshot.
Follows(me, n) ==
  /\ n \in WorkerState
  /\ n.job = me.job
  /\ \/ n.pc \in Holding /\ n.loaded = me.loaded
     \/ n.pc = "exit"

LEMMA GotoFollows ==
  ASSUME NEW me \in WorkerState, NEW pc \in Holding
  PROVE  Follows(me, Goto(me, pc))
BY DEF Follows, Goto, Holding, WorkerState

LEMMA Zeros == 0 \in Batches /\ 0 \in Places /\ 0 \in 0 .. MaxProgress /\ 0 \in 0 .. 2
BY PlanAssumption, ServiceAssumption DEF Batches, Places

LEMMA IdleWorkerType == IdleWorker \in WorkerState /\ DeadWorker \in WorkerState
BY Zeros, FreshRecords DEF IdleWorker, DeadWorker, WorkerState, WorkerPc

LEMMA ExitFollows ==
  ASSUME NEW me \in WorkerState
  PROVE  Follows(me, Exit(me))
<1>1. Exit(me) \in WorkerState
  BY IdleWorkerType DEF Exit, WorkerState, WorkerPc
<1>2. Exit(me).pc = "exit" /\ Exit(me).job = me.job
  BY DEF Exit, IdleWorker
<1> QED BY <1>1, <1>2 DEF Follows

LEMMA CheckFollows ==
  ASSUME NEW me \in WorkerState, NEW then \in {"batch", "candidate", "wait", "raw"}
  PROVE  Follows(me, Check(me, then))
BY DEF Follows, Check, Holding, WorkerPc, WorkerState

LEMMA FirstCandidateFollows ==
  ASSUME NEW me \in WorkerState
  PROVE  Follows(me, FirstCandidate(me))
<1>1. [me EXCEPT !.place = 0] \in WorkerState
  BY Zeros DEF WorkerState
<1>2. Follows([me EXCEPT !.place = 0], FirstCandidate(me))
  BY <1>1, CheckFollows DEF FirstCandidate
<1> QED BY <1>2 DEF Follows, WorkerState

LEMMA AfterBatchFollows ==
  ASSUME NEW me \in WorkerState
  PROVE  Follows(me, AfterBatch(me))
<1>1. CASE me.loaded.status \in {"failed", "canceled"}
  BY <1>1, ExitFollows DEF AfterBatch
<1>2. CASE me.loaded.status \notin {"failed", "canceled"} /\ me.batch + 1 \in Batches
  <2>1. AfterBatch(me) = Check([me EXCEPT !.batch = me.batch + 1], "batch")
    BY <1>2 DEF AfterBatch
  <2>2. [me EXCEPT !.batch = me.batch + 1] \in WorkerState
    BY <1>2 DEF WorkerState
  <2>3. Follows([me EXCEPT !.batch = me.batch + 1], AfterBatch(me))
    BY <2>1, <2>2, CheckFollows
  <2> QED BY <2>3 DEF Follows, WorkerState
<1>3. CASE me.loaded.status \notin {"failed", "canceled"} /\ me.batch + 1 \notin Batches
  BY <1>3, GotoFollows DEF AfterBatch, Holding, WorkerPc
<1> QED BY <1>1, <1>2, <1>3

LEMMA AfterCandidateFollows ==
  ASSUME NEW me \in WorkerState
  PROVE  Follows(me, AfterCandidate(me))
<1>1. CASE me.place + 1 \in Places
  <2>1. AfterCandidate(me) = Check([me EXCEPT !.place = me.place + 1], "candidate")
    BY <1>1 DEF AfterCandidate
  <2>2. [me EXCEPT !.place = me.place + 1] \in WorkerState
    BY <1>1 DEF WorkerState
  <2>3. Follows([me EXCEPT !.place = me.place + 1], AfterCandidate(me))
    BY <2>1, <2>2, CheckFollows
  <2> QED BY <2>3 DEF Follows, WorkerState
<1>2. CASE me.place + 1 \notin Places
  BY <1>2, AfterBatchFollows DEF AfterCandidate
<1> QED BY <1>1, <1>2

LEMMA CandInCandidates ==
  ASSUME NEW me \in WorkerState
  PROVE  Cand(me) \in Candidates
BY DEF Cand, Candidates, WorkerState

\* n is a state thread w may go to, when the store is st.
NextWorker(st, w, n) ==
  /\ n \in WorkerState
  /\ n.job = worker[w].job
  /\ n.pc \notin {"idle", "boot", "dead"}
  /\ WorkerInv(st, n)

\* What is counted and marked stays of its type; a mark is not taken back.
Tallies ==
  /\ upsets' \in Nat
  /\ unrecorded \subseteq unrecorded' /\ unrecorded' \subseteq Jobs

LEMMA UnchangedTallies ==
  ASSUME SlotInv, UNCHANGED errorVars
  PROVE  Tallies
BY DEF SlotInv, TypeOK, errorVars, Tallies

LEMMA ErrorTallies ==
  ASSUME SlotInv, NEW bound, Upset(bound), NEW j \in Jobs,
         LeftOpen(j) \/ UNCHANGED unrecorded
  PROVE  Tallies
<1>1. upsets' \in Nat
  BY DEF SlotInv, TypeOK, Upset
<1>2. unrecorded \subseteq unrecorded' /\ unrecorded' \subseteq Jobs
  BY DEF SlotInv, TypeOK, LeftOpen
<1> QED BY <1>1, <1>2 DEF Tallies

\* What every step of run_job is, as far as the slot invariant goes.
WorkerStep(w) ==
  /\ Alive(w)
  /\ Tallies
  /\ Rewrites
  /\ \E n : NextWorker(store', w, n) /\ worker' = [worker EXCEPT ![w] = n]
  /\ prompts' \in [Jobs \X Batches -> PromptStatus]
  /\ UNCHANGED <<event, shutdown, comfyUp>>

LEMMA ThreadFacts ==
  ASSUME SlotInv, NEW w \in Workers
  PROVE  /\ worker[w] \in WorkerState
         /\ worker[w].loaded \in JobState
         /\ worker[w].fresh \in JobState
         /\ worker[w].batch \in Batches
         /\ WorkerInv(store, worker[w])
         /\ Alive(w) => worker[w].job \in Jobs /\ Exists(worker[w].job)
         /\ worker[w].pc \in Holding \cup {"start", "progress", "cancel"} =>
              Alive(w) /\ SnapshotOf(store, worker[w].job, worker[w].loaded)
BY DEF SlotInv, TypeOK, WorkerState, WorkerInv, Alive, Exists, Holding, WorkerPc

\* A thread that keeps its snapshot may go wherever one is held.
LEMMA FollowsNext ==
  ASSUME SlotInv, NEW w \in Workers, Alive(w), NEW me \in WorkerState,
         me.job = worker[w].job, SnapshotOf(store, me.job, me.loaded),
         NEW n, Follows(me, n)
  PROVE  NextWorker(store, w, n)
BY ThreadFacts DEF Follows, NextWorker, WorkerInv, Holding, Exists

LEMMA ExitNext ==
  ASSUME SlotInv, NEW w \in Workers, Alive(w), NEW st, st[worker[w].job].status # "absent"
  PROVE  NextWorker(st, w, Exit(worker[w]))
<1>1. Exit(worker[w]).pc = "exit" /\ Exit(worker[w]).job = worker[w].job
  BY DEF Exit, IdleWorker
<1> QED BY <1>1, ThreadFacts, ExitFollows DEF NextWorker, Follows, WorkerInv

LEMMA ContinueStep ==
  ASSUME SlotInv, NEW w \in Workers, Alive(w), NEW n, NextWorker(store, w, n),
         Continue(w, n)
  PROVE  WorkerStep(w)
BY UnchangedTallies DEF Continue, WorkerStep, Rewrites, SlotInv, TypeOK, errorVars

\* Wherever a storage error takes a thread, it may go there, whatever the step
\* has written.
LEMMA RaisedFollows ==
  ASSUME NEW me \in WorkerState
  PROVE  Follows(me, Raised(me))
<1>1. CASE me.pc \in {"load", "fail", "reload", "cancel"}
  BY <1>1, ExitFollows DEF Raised
<1>2. CASE me.pc \notin {"load", "fail", "reload", "cancel"}
  <2>1. Raised(me) = [me EXCEPT !.pc = "fail", !.fresh = AbsentState]
    BY <1>2 DEF Raised
  <2> QED BY <2>1, FreshRecords DEF Follows, Holding, WorkerPc, WorkerState
<1> QED BY <1>1, <1>2

LEMMA RaisedNext ==
  ASSUME SlotInv, NEW w \in Workers, Rewrites,
         worker[w].pc \in Holding \cup {"start", "progress", "cancel"}
  PROVE  NextWorker(store', w, Raised(worker[w]))
<1> DEFINE me == worker[w]
           n  == Raised(me)
<1>1. /\ me \in WorkerState /\ me.loaded \in JobState /\ me.job \in Jobs
      /\ Exists(me.job) /\ SnapshotOf(store, me.job, me.loaded)
  BY ThreadFacts
<1>2. Moves(store, store')
  BY StoreStepKeeps DEF SlotInv, TypeOK, StoreStep
<1>3. store'[me.job].status # "absent" /\ SnapshotOf(store', me.job, me.loaded)
  BY <1>1, <1>2 DEF Moves, Exists
<1>4. Follows(me, n)
  BY <1>1, RaisedFollows
<1> HIDE DEF n
<1>5. NextWorker(store', w, n)
  BY <1>1, <1>3, <1>4 DEF Follows, NextWorker, WorkerInv, Holding
<1> QED BY <1>5 DEF n

\* A commit that succeeds replaces the very record the snapshot was taken of,
\* whether or not its writer hears of it.
LEMMA CommitStep ==
  ASSUME SlotInv, NEW w \in Workers, NEW from \in JobState,
         worker[w].pc \in Holding \cup {"start", "progress", "cancel"},
         SnapshotOf(store, worker[w].job, from), NEW new, NEW ok, NEW conflict,
         store[worker[w].job] = from /\ Consistent(from) /\ from.status # "absent" =>
           /\ Writes(from, new)
           /\ NextWorker([store EXCEPT ![worker[w].job] = new], w, ok),
         NextWorker(store, w, conflict),
         Commit(w, from, new, ok, conflict)
  PROVE  WorkerStep(w)
<1> DEFINE me == worker[w]
           j  == me.job
<1>1. /\ j \in Jobs /\ Exists(j) /\ Consistent(store[j]) /\ Alive(w)
  BY ThreadFacts DEF SlotInv, StoreInv
<1>2. prompts' \in [Jobs \X Batches -> PromptStatus] /\ UNCHANGED <<event, shutdown, comfyUp>>
  BY DEF Commit, SlotInv, TypeOK
<1>3. CASE /\ store[j].rev = from.rev /\ UNCHANGED errorVars
           /\ store' = [store EXCEPT ![j] = new]
           /\ worker' = [worker EXCEPT ![w] = ok]
  <2>1. store[j] = from
    BY <1>3 DEF SnapshotOf
  <2>2. Writes(store[j], new) /\ NextWorker(store', w, ok)
    BY <1>1, <1>3, <2>1 DEF Exists
  <2>3. Rewrites
    BY <1>1, <1>3, <2>2 DEF Rewrites, Replaces, Writes
  <2> QED BY <1>1, <1>2, <1>3, <2>2, <2>3, UnchangedTallies DEF WorkerStep
<1>4. CASE /\ UNCHANGED <<store, errorVars>>
           /\ worker' = [worker EXCEPT ![w] = conflict]
  BY <1>1, <1>2, <1>4, UnchangedTallies DEF WorkerStep, Rewrites, errorVars
<1>5. CASE /\ StorageError(j, from, new, me.pc \in {"fail", "cancel"})
           /\ worker' = [worker EXCEPT ![w] = Raised(me)]
  <2>1. Rewrites
    <3>1. CASE UNCHANGED store
      BY <3>1 DEF Rewrites
    <3>2. CASE store[j].rev = from.rev /\ store' = [store EXCEPT ![j] = new]
      <4>1. store[j] = from
        BY <3>2 DEF SnapshotOf
      <4> QED BY <1>1, <3>2, <4>1 DEF Rewrites, Replaces, Writes, Exists
    <3> QED BY <1>5, <3>1, <3>2 DEF StorageError
  <2>2. Tallies
    BY <1>1, <1>5, ErrorTallies DEF StorageError
  <2> QED BY <1>1, <1>2, <1>5, <2>1, <2>2, RaisedNext DEF WorkerStep
<1> QED BY <1>3, <1>4, <1>5 DEF Commit

\* After its own successor of its own snapshot a thread holds that successor.
LEMMA AdvanceStep ==
  ASSUME SlotInv, NEW w \in Workers,
         worker[w].pc \in Holding \cup {"start", "cancel"},
         NEW new, NEW next,
         Consistent(worker[w].loaded) /\ worker[w].loaded.status # "absent" =>
           Writes(worker[w].loaded, new),
         new \in JobState =>
           /\ next \in WorkerState /\ next.job = worker[w].job
           /\ next.pc \in Holding \cup {"exit"},
         Advance(w, new, next)
  PROVE  WorkerStep(w)
<1> DEFINE me == worker[w]
           ok == [next EXCEPT !.loaded = new]
<1>1. /\ me \in WorkerState /\ me.loaded \in JobState /\ Alive(w)
      /\ me.job \in Jobs /\ Exists(me.job) /\ SnapshotOf(store, me.job, me.loaded)
  BY ThreadFacts
<1>2. NextWorker(store, w, Goto(me, "fail"))
  BY <1>1, GotoFollows, FollowsNext DEF Holding, WorkerPc
<1>3. ASSUME store[me.job] = me.loaded, Consistent(me.loaded), me.loaded.status # "absent"
      PROVE  Writes(me.loaded, new) /\ NextWorker([store EXCEPT ![me.job] = new], w, ok)
  <2>1. Writes(me.loaded, new) /\ new \in JobState /\ new.status # "absent"
    BY <1>3 DEF Writes, Successor
  <2>2. /\ ok \in WorkerState /\ ok.job = me.job /\ ok.loaded = new
        /\ ok.pc \in Holding \cup {"exit"}
    BY <2>1 DEF WorkerState
  <2>3. [store EXCEPT ![me.job] = new][me.job] = new
    BY <1>1 DEF SlotInv, TypeOK
  <2>4. WorkerInv([store EXCEPT ![me.job] = new], ok)
    BY <1>1, <2>1, <2>2, <2>3 DEF WorkerInv, SnapshotOf, Holding, JobState
  <2> QED BY <2>1, <2>2, <2>4 DEF NextWorker, Holding
<1>4. Commit(w, me.loaded, new, ok, Goto(me, "fail"))
  BY DEF Advance
<1> QED BY <1>1, <1>2, <1>3, <1>4, CommitStep

\* A thread's fresh snapshot of its own job.
LEMMA LoadedNext ==
  ASSUME SlotInv, NEW w \in Workers, Alive(w), NEW n \in WorkerState,
         n.job = worker[w].job, n.loaded = store[n.job],
         n.pc \in Holding \cup {"start", "cancel", "exit"},
         n.pc = "start" => n.loaded.status = "queued",
         n.pc = "cancel" => n.loaded.status \notin TerminalJob
  PROVE  NextWorker(store, w, n)
BY ThreadFacts DEF NextWorker, WorkerInv, SnapshotOf, Holding, Exists, SlotInv, TypeOK, JobState

LEMMA StoredType ==
  ASSUME SlotInv, NEW j \in Jobs
  PROVE  store[j] \in JobState
BY DEF SlotInv, TypeOK

\* A progress commit loads the stored record, and goes on from it or with it.
LEMMA LoadForProgressStep ==
  ASSUME SlotInv, NEW w \in Workers, worker[w].pc \in Holding,
         NEW me \in WorkerState, me.job = worker[w].job, me.loaded = worker[w].loaded,
         NEW then \in {"wait", "raw"}, LoadForProgress(w, me, then)
  PROVE  WorkerStep(w)
<1> DEFINE s == store[me.job]
           m == [me EXCEPT !.pc = "progress", !.fresh = s, !.then = then]
           n == [me EXCEPT !.pc = then, !.loaded = s]
<1>1. /\ Alive(w) /\ me.job \in Jobs /\ Exists(me.job) /\ s \in JobState
      /\ SnapshotOf(store, me.job, me.loaded)
  BY ThreadFacts, StoredType
<1>2. SnapshotOf(store, me.job, s)
  BY <1>1 DEF SnapshotOf, JobState
<1>3. NextWorker(store, w, m)
  BY <1>1, <1>2 DEF NextWorker, WorkerInv, WorkerState, WorkerPc, Exists
<1>4. NextWorker(store, w, n)
  BY <1>1, LoadedNext DEF WorkerState, WorkerPc, Holding
<1>5. CASE s.status \in ActiveJob
  BY <1>1, <1>3, <1>5, ContinueStep DEF LoadForProgress
<1>6. CASE s.status \notin ActiveJob
  BY <1>1, <1>4, <1>6, ContinueStep DEF LoadForProgress
<1> QED BY <1>5, <1>6

\* Every step of run_job is a worker step.
LEMMA RunJobStep ==
  ASSUME SlotInv, NEW w \in Workers, RunJob(w) \/ ExternalError(w)
  PROVE  WorkerStep(w)
<1> DEFINE me == worker[w]
<1>1. /\ me \in WorkerState /\ me.loaded \in JobState /\ me.fresh \in JobState
      /\ me.batch \in Batches /\ WorkerInv(store, me)
      /\ Cand(me) \in Candidates /\ me.then \in {"batch", "candidate", "wait", "raw"}
  BY ThreadFacts, CandInCandidates DEF WorkerState
<1>2. me.pc \in Holding \cup {"start", "progress", "cancel"} =>
        /\ Alive(w) /\ SnapshotOf(store, me.job, me.loaded)
        /\ me.job \in Jobs /\ Exists(me.job)
  BY ThreadFacts
<1>3. /\ \A pc \in Holding : Follows(me, Goto(me, pc))
      /\ Follows(me, Exit(me)) /\ Follows(me, Check(me, "batch"))
      /\ Follows(me, FirstCandidate(me))
      /\ Follows(me, AfterBatch(me)) /\ Follows(me, AfterCandidate(me))
  BY <1>1, GotoFollows, ExitFollows, CheckFollows, FirstCandidateFollows,
     AfterBatchFollows, AfterCandidateFollows
\* A step to a state that follows me, from one that holds a snapshot.
<1>4. ASSUME NEW n, Follows(me, n), Continue(w, n),
             me.pc \in Holding \cup {"start", "progress", "cancel"}
      PROVE  WorkerStep(w)
  BY <1>1, <1>2, <1>4, FollowsNext, ContinueStep
<1>5. {"batch", "submit", "record", "wait", "flush", "raw", "candidate", "finish",
        "fail", "reload", "check"} \subseteq Holding
  BY DEF Holding, WorkerPc
<1>6. CASE CheckShutdown(w)
  BY <1>3, <1>4, <1>5, <1>6 DEF CheckShutdown
<1>7. CASE CheckPass(w)
  BY <1>1, <1>3, <1>4, <1>5, <1>7 DEF CheckPass
<1>8. CASE SkipBatch(w)
  BY <1>3, <1>4, <1>5, <1>8 DEF SkipBatch
<1>9. CASE ResumeRawBatch(w)
  BY <1>3, <1>4, <1>5, <1>9 DEF ResumeRawBatch
<1>10. CASE ExternalError(w)
  BY <1>3, <1>4, <1>5, <1>10 DEF ExternalError
<1>11. CASE WaitComplete(w)
  BY <1>3, <1>4, <1>5, <1>11 DEF WaitComplete
<1>12. CASE SkipCandidate(w)
  BY <1>3, <1>4, <1>5, <1>12 DEF SkipCandidate
<1>13. CASE LoadJob(w)
  <2> DEFINE s == store[me.job]
             begin == [me EXCEPT !.pc = "start", !.loaded = s]
             hold == [me EXCEPT !.loaded = s]
  <2>1. Alive(w) /\ me.job \in Jobs /\ s \in JobState
    BY <1>13, ThreadFacts, StoredType DEF LoadJob, Alive
  <2>2. NextWorker(store, w, Exit(me))
    BY <2>1, ThreadFacts, ExitNext DEF Exists
  <2>3. s.status = "queued" => NextWorker(store, w, begin)
    BY <1>1, <2>1, LoadedNext DEF WorkerState, WorkerPc
  <2>4. hold \in WorkerState /\ hold.job = me.job /\ hold.loaded = s
    BY <1>1, <2>1 DEF WorkerState
  <2> HIDE DEF hold
  <2>5. NextWorker(store, w, Check(hold, "batch"))
    <3>1. Check(hold, "batch") \in WorkerState
      BY <2>4, CheckFollows DEF Follows
    <3>2. /\ Check(hold, "batch").pc = "check" /\ Check(hold, "batch").job = me.job
          /\ Check(hold, "batch").loaded = s
      BY <2>4 DEF Check, WorkerState
    <3> QED BY <1>5, <2>1, <3>1, <3>2, LoadedNext
  <2>6. CASE shutdown
    BY <1>13, <2>1, <2>2, <2>6, ContinueStep DEF LoadJob
  <2>7. CASE ~shutdown /\ s.status = "queued"
    BY <1>13, <2>1, <2>3, <2>7, ContinueStep DEF LoadJob
  <2>8. CASE ~shutdown /\ s.status # "queued"
    BY <1>13, <2>1, <2>5, <2>8, ContinueStep DEF LoadJob, hold
  <2> QED BY <2>6, <2>7, <2>8
<1>30. CASE LoadRaises(w)
  <2>1. me.pc = "load" /\ Raised(me) = Exit(me) /\ Alive(w)
    BY <1>30 DEF LoadRaises, Raised, Alive
  <2>2. NextWorker(store, w, Exit(me))
    BY <2>1, ThreadFacts, ExitNext DEF Exists
  <2> QED BY <1>30, <2>1, <2>2, ContinueStep DEF LoadRaises
<1>14. CASE BeginJob(w)
  <2>1. Consistent(me.loaded) => Writes(me.loaded, StartGeneration(me.loaded))
    BY <1>1, <1>14, StartGenerationWrites DEF BeginJob, WorkerInv, CanStartGeneration
  <2>2. Check(me, "batch") \in WorkerState /\ Check(me, "batch").job = me.job
        /\ Check(me, "batch").pc \in Holding \cup {"exit"}
    BY <1>3 DEF Follows
  <2> QED BY <1>14, <2>1, <2>2, AdvanceStep DEF BeginJob
\* A commit of a successor of the snapshot, on the way to a state that follows.
<1>15. ASSUME NEW new, NEW n, Follows(me, n), Advance(w, new, n), me.pc \in Holding,
              Consistent(me.loaded) /\ me.loaded.status # "absent" => Writes(me.loaded, new)
       PROVE  WorkerStep(w)
  BY <1>15, AdvanceStep DEF Follows
<1>16. CASE CheckCanceled(w)
  <2>1. me.pc = "check" /\ me.pc \in Holding /\ Follows(me, me)
    BY <1>1, <1>5, <1>16 DEF CheckCanceled, Follows
  <2>2. Follows(me, Goto(me, me.then)) /\ Follows(me, Goto(me, "fail"))
    BY <1>1, <1>3, <1>5
  <2>3. CASE me.loaded.cancel
    BY <1>1, <1>15, <1>16, <2>1, <2>2, <2>3, ConfirmCanceledWrites
    DEF CheckCanceled, CanConfirmCanceled
  <2>4. CASE ~me.loaded.cancel /\ CanRequestCancel(me.loaded)
    BY <1>1, <1>15, <1>16, <2>1, <2>4, RequestCancelWrites DEF CheckCanceled
  <2>5. CASE ~me.loaded.cancel /\ ~CanRequestCancel(me.loaded)
    BY <1>4, <1>16, <2>1, <2>2, <2>5 DEF CheckCanceled
  <2> QED BY <2>3, <2>4, <2>5
<1>17. CASE BeginBatch(w)
  <2>1. me.pc \in Holding /\ Follows(me, Goto(me, "submit")) /\ Follows(me, Goto(me, "fail"))
    BY <1>3, <1>5, <1>17 DEF BeginBatch
  <2>2. CASE CanStartBatch(me.loaded, me.batch)
    BY <1>1, <1>15, <1>17, <2>1, <2>2, StartBatchWrites DEF BeginBatch
  <2>3. CASE ~CanStartBatch(me.loaded, me.batch)
    BY <1>4, <1>17, <2>1, <2>3 DEF BeginBatch
  <2> QED BY <2>2, <2>3
<1>18. CASE SubmitPrompt(w)
  <2>1. me.pc \in Holding /\ Follows(me, Goto(me, "record"))
    BY <1>3, <1>5, <1>18 DEF SubmitPrompt
  <2>2. NextWorker(store, w, Goto(me, "record"))
    BY <1>1, <1>2, <2>1, FollowsNext
  <2>3. prompts' \in [Jobs \X Batches -> PromptStatus]
    BY <1>18 DEF SubmitPrompt, SlotInv, TypeOK, PromptStatus
  <2>4. /\ store' = store /\ worker' = [worker EXCEPT ![w] = Goto(me, "record")]
        /\ UNCHANGED <<event, shutdown, comfyUp>>
        /\ UNCHANGED errorVars
    BY <1>18 DEF SubmitPrompt
  <2> QED
    BY <1>2, <2>1, <2>2, <2>3, <2>4, UnchangedTallies DEF WorkerStep, Rewrites
<1>19. CASE CommitPrompt(w)
  <2>1. me.pc \in Holding
    BY <1>19 DEF CommitPrompt, Holding, WorkerPc
  <2>2. Follows(me, [me EXCEPT !.pc = "wait", !.ticks = 0])
    BY <1>1, <1>5, Zeros DEF Follows, WorkerState, WorkerPc
  <2> QED BY <1>1, <1>15, <1>19, <2>1, <2>2, RecordPromptWrites DEF CommitPrompt
<1>20. CASE WaitProgress(w)
  <2> DEFINE m == [me EXCEPT !.ticks = me.ticks + 1]
  <2>1. me.ticks + 1 \in 0 .. MaxProgress
    BY <1>1, <1>20, ServiceAssumption DEF WaitProgress, WorkerState
  <2>2. m \in WorkerState /\ m.job = me.job /\ m.loaded = me.loaded
    BY <1>1, <2>1 DEF WorkerState
  <2> QED BY <1>5, <1>20, <2>2, LoadForProgressStep DEF WaitProgress
<1>21. CASE FlushProgress(w)
  BY <1>1, <1>5, <1>21, LoadForProgressStep DEF FlushProgress
<1>22. CASE CommitProgress(w)
  <2> DEFINE f == me.fresh
             new == RecordProgress(f, me.batch)
             ok == [me EXCEPT !.pc = me.then, !.loaded = new, !.fresh = AbsentState]
             conflict == [me EXCEPT !.pc = "fail", !.fresh = AbsentState]
  <2>1. /\ me.pc = "progress" /\ SnapshotOf(store, me.job, f) /\ Alive(w)
        /\ SnapshotOf(store, me.job, me.loaded) /\ me.job \in Jobs /\ Exists(me.job)
    BY <1>1, <1>2, <1>22 DEF CommitProgress, WorkerInv
  <2>2. Follows(me, conflict)
    BY <1>1, <1>5, FreshRecords DEF Follows, WorkerState, WorkerPc
  <2>3. NextWorker(store, w, conflict)
    BY <1>1, <2>1, <2>2, FollowsNext
  <2>4. ASSUME store[me.job] = f, Consistent(f), f.status # "absent"
        PROVE  Writes(f, new) /\ NextWorker([store EXCEPT ![me.job] = new], w, ok)
    <3>1. Writes(f, new) /\ new \in JobState /\ new.status # "absent"
      BY <1>1, <2>4, RecordProgressWrites DEF Writes, Successor
    <3> HIDE DEF new
    <3>2. ok \in WorkerState /\ ok.job = me.job /\ ok.loaded = new /\ ok.pc \in Holding
      BY <1>1, <1>5, <3>1, FreshRecords DEF WorkerState, WorkerPc
    <3>3. [store EXCEPT ![me.job] = new][me.job] = new
      BY <2>1 DEF SlotInv, TypeOK
    <3> HIDE DEF ok
    <3>4. WorkerInv([store EXCEPT ![me.job] = new], ok)
      BY <2>1, <3>1, <3>2, <3>3 DEF WorkerInv, SnapshotOf, Holding, JobState
    <3> QED BY <3>1, <3>2, <3>4 DEF NextWorker, Holding
  <2>5. CASE CanRecordProgress(f, me.batch)
    <3>1. Commit(w, f, new, ok, conflict)
      BY <1>22, <2>5 DEF CommitProgress
    <3> HIDE DEF new, ok, conflict
    <3> QED BY <1>1, <2>1, <2>3, <2>4, <3>1, CommitStep
  <2>6. CASE ~CanRecordProgress(f, me.batch)
    BY <1>22, <2>1, <2>3, <2>6, ContinueStep DEF CommitProgress
  <2> QED BY <2>5, <2>6
<1>23. CASE WaitCanceled(w)
  <2>1. Follows(me, [me EXCEPT !.pc = "reload", !.attempt = 0])
    BY <1>1, <1>5, Zeros DEF Follows, WorkerState, WorkerPc
  <2> QED BY <1>3, <1>4, <1>5, <1>23, <2>1 DEF WaitCanceled
<1>24. CASE CommitRaw(w)
  <2>1. me.pc \in Holding /\ Follows(me, Goto(me, "fail"))
    BY <1>3, <1>5, <1>24 DEF CommitRaw
  <2>2. CASE CanMarkRawReady(me.loaded, me.batch)
    BY <1>1, <1>3, <1>15, <1>24, <2>1, <2>2, MarkRawReadyWrites DEF CommitRaw
  <2>3. CASE ~CanMarkRawReady(me.loaded, me.batch)
    BY <1>4, <1>24, <2>1, <2>3 DEF CommitRaw
  <2> QED BY <2>2, <2>3
<1>25. CASE CommitCandidate(w)
  <2> DEFINE new == CompleteCandidate(me.loaded, Cand(me))
             n == AfterCandidate([me EXCEPT !.loaded = new])
  <2>1. me.pc \in Holding /\ Follows(me, Goto(me, "fail"))
    BY <1>3, <1>5, <1>25 DEF CommitCandidate
  <2>2. CASE CanCompleteCandidate(me.loaded, Cand(me))
    <3>1. Advance(w, new, n)
      BY <1>25, <2>2 DEF CommitCandidate
    <3>2. Consistent(me.loaded) => Writes(me.loaded, new)
      BY <1>1, <2>2, CompleteCandidateWrites
    <3> HIDE DEF new
    <3>3. ASSUME new \in JobState
          PROVE  n \in WorkerState /\ n.job = me.job /\ n.pc \in Holding \cup {"exit"}
      <4>1. [me EXCEPT !.loaded = new] \in WorkerState /\ [me EXCEPT !.loaded = new].job = me.job
        BY <1>1, <3>3 DEF WorkerState
      <4> QED BY <4>1, AfterCandidateFollows DEF Follows
    <3> HIDE DEF n
    <3> QED BY <2>1, <3>1, <3>2, <3>3, AdvanceStep
  <2>3. CASE ~CanCompleteCandidate(me.loaded, Cand(me))
    BY <1>4, <1>25, <2>1, <2>3 DEF CommitCandidate
  <2> QED BY <2>2, <2>3
<1>26. CASE FinishJob(w)
  <2>1. me.pc \in Holding /\ Follows(me, Goto(me, "fail"))
    BY <1>3, <1>5, <1>26 DEF FinishJob
  <2>2. CASE ~CanCompleteGeneration(me.loaded)
    BY <1>4, <1>26, <2>1, <2>2 DEF FinishJob
  <2>3. CASE CanCompleteGeneration(me.loaded) /\ shutdown
    BY <1>3, <1>4, <1>26, <2>1, <2>3 DEF FinishJob
  <2>4. CASE CanCompleteGeneration(me.loaded) /\ ~shutdown
    BY <1>1, <1>3, <1>15, <1>26, <2>1, <2>4, CompleteGenerationWrites DEF FinishJob
  <2> QED BY <2>2, <2>3, <2>4
<1>27. CASE FailJob(w)
  <2> DEFINE new == FailGeneration(me.loaded, "execution")
  <2>1. me.pc = "fail" /\ Alive(w) /\ Commit(w, me.loaded, new, Exit(me), Exit(me))
    BY <1>2, <1>5, <1>27 DEF FailJob
  <2>2. NextWorker(store, w, Exit(me))
    BY <1>1, <1>2, <1>3, <1>5, <2>1, FollowsNext
  <2>3. ASSUME Consistent(me.loaded), me.loaded.status # "absent"
        PROVE  Writes(me.loaded, new) /\ NextWorker([store EXCEPT ![me.job] = new], w, Exit(me))
    <3>1. Writes(me.loaded, new)
      BY <1>1, <2>3, FailGenerationWrites DEF FailureCode
    <3> HIDE DEF new
    <3>2. [store EXCEPT ![me.job] = new][me.job].status # "absent"
      BY <1>2, <1>5, <2>1, <3>1 DEF SlotInv, TypeOK, Writes, Successor
    <3> QED BY <2>1, <3>1, <3>2, ExitNext
  <2> HIDE DEF new
  <2> QED BY <1>1, <1>2, <1>5, <2>1, <2>2, <2>3, CommitStep
<1>28. CASE ReloadCanceled(w)
  <2> DEFINE s == store[me.job]
             n == [me EXCEPT !.pc = "cancel", !.loaded = s]
  <2>1. me.pc = "reload" /\ Alive(w) /\ me.job \in Jobs /\ s \in JobState
    BY <1>2, <1>5, <1>28, StoredType DEF ReloadCanceled
  <2>2. CASE s.status \in TerminalJob
    BY <1>3, <1>4, <1>5, <1>28, <2>1, <2>2 DEF ReloadCanceled
  <2>3. CASE s.status \notin TerminalJob
    <3>1. NextWorker(store, w, n)
      BY <1>1, <2>1, <2>3, LoadedNext DEF WorkerState, WorkerPc
    <3> QED BY <1>28, <2>1, <2>3, <3>1, ContinueStep DEF ReloadCanceled
  <2> QED BY <2>2, <2>3
<1>31. CASE ReloadRaises(w)
  <2>1. me.pc = "reload" /\ me.pc \in Holding /\ Alive(w) /\ me.job \in Jobs
    BY <1>2, <1>5, <1>31 DEF ReloadRaises
  <2>2. /\ Rewrites /\ worker' = [worker EXCEPT ![w] = Raised(me)]
        /\ UNCHANGED <<event, shutdown, prompts, comfyUp>>
        /\ Upset(MaxErrors) /\ LeftOpen(me.job)
    BY <1>31 DEF ReloadRaises, Rewrites
  <2>3. prompts' \in [Jobs \X Batches -> PromptStatus]
    BY <2>2 DEF SlotInv, TypeOK
  <2> QED BY <2>1, <2>2, <2>3, RaisedNext, ErrorTallies DEF WorkerStep
<1>29. CASE ConfirmComfyCanceled(w)
  <2> DEFINE request == RequestCancel(me.loaded)
             confirm == ConfirmCanceled(me.loaded)
             asked == [me EXCEPT !.loaded = request]
             again == [me EXCEPT !.pc = "reload", !.attempt = me.attempt + 1]
  <2>1. /\ me.pc = "cancel" /\ Alive(w) /\ me.job \in Jobs /\ Exists(me.job)
        /\ SnapshotOf(store, me.job, me.loaded) /\ me.loaded.status \notin TerminalJob
    BY <1>1, <1>2, <1>29 DEF ConfirmComfyCanceled, WorkerInv
  <2>2. NextWorker(store, w, Exit(me))
    BY <2>1, ExitNext DEF Exists
  <2>3. CASE ~me.loaded.cancel
    <3>1. Commit(w, me.loaded, request, asked, Exit(me))
      BY <1>29, <2>3 DEF ConfirmComfyCanceled
    <3>2. ASSUME Consistent(me.loaded), me.loaded.status # "absent"
          PROVE  Writes(me.loaded, request) /\ NextWorker([store EXCEPT ![me.job] = request], w, asked)
      <4>1. Writes(me.loaded, request) /\ request \in JobState
            /\ request.status = me.loaded.status
        BY <1>1, <2>1, <2>3, <3>2, RequestCancelWrites
        DEF CanRequestCancel, Writes, RequestCancel, JobState
      <4> HIDE DEF request
      <4>2. /\ asked \in WorkerState /\ asked.job = me.job /\ asked.pc = "cancel"
            /\ asked.loaded = request
        BY <1>1, <2>1, <4>1 DEF WorkerState
      <4>3. [store EXCEPT ![me.job] = request][me.job] = request
        BY <2>1 DEF SlotInv, TypeOK
      <4> HIDE DEF asked
      <4>4. WorkerInv([store EXCEPT ![me.job] = request], asked)
        BY <2>1, <3>2, <4>1, <4>2, <4>3 DEF WorkerInv, SnapshotOf, JobState
      <4> QED BY <4>1, <4>2, <4>4 DEF NextWorker
    <3> HIDE DEF request, asked
    <3> QED BY <1>1, <2>1, <2>2, <3>1, <3>2, CommitStep
  <2>4. CASE me.loaded.cancel
    <3> DEFINE conflict == IF me.attempt = 2 THEN Exit(me) ELSE again
    <3>1. Commit(w, me.loaded, confirm, Exit(me), conflict)
      BY <1>29, <2>4 DEF ConfirmComfyCanceled
    <3>2. NextWorker(store, w, conflict)
      <4>1. CASE me.attempt = 2
        BY <2>2, <4>1
      <4>2. CASE me.attempt # 2
        <5>1. me.attempt + 1 \in 0 .. 2
          BY <1>1, <4>2 DEF WorkerState
        <5>2. Follows(me, again)
          BY <1>1, <1>5, <5>1 DEF Follows, WorkerState, WorkerPc
        <5> QED BY <1>1, <2>1, <4>2, <5>2, FollowsNext
      <4> QED BY <4>1, <4>2
    <3>3. ASSUME Consistent(me.loaded), me.loaded.status # "absent"
          PROVE  Writes(me.loaded, confirm)
                 /\ NextWorker([store EXCEPT ![me.job] = confirm], w, Exit(me))
      <4>1. Writes(me.loaded, confirm)
        BY <1>1, <2>4, <3>3, ConfirmCanceledWrites DEF CanConfirmCanceled
      <4> HIDE DEF confirm
      <4>2. [store EXCEPT ![me.job] = confirm][me.job].status # "absent"
        BY <2>1, <4>1 DEF SlotInv, TypeOK, Writes, Successor
      <4> QED BY <2>1, <4>1, <4>2, ExitNext
    <3> HIDE DEF confirm, conflict
    <3> QED BY <1>1, <2>1, <3>1, <3>2, <3>3, CommitStep
  <2> QED BY <2>3, <2>4
<1> QED
  BY <1>6, <1>7, <1>8, <1>9, <1>10, <1>11, <1>12, <1>13, <1>14, <1>16, <1>17, <1>18,
     <1>19, <1>20, <1>21, <1>22, <1>23, <1>24, <1>25, <1>26, <1>27, <1>28, <1>29,
     <1>30, <1>31
  DEF RunJob

----------------------------------------------------------------------------
(* The slot invariant *)

LEMMA StoreFacts ==
  ASSUME SlotInv, StoreStep
  PROVE  store' \in [Jobs -> JobState] /\ StoreInv' /\ Moves(store, store')
BY StoreStepKeeps DEF SlotInv, TypeOK

\* Whoever stands still keeps the invariant, so a step only answers for those
\* it moves.
LEMMA SlotInvAssembled ==
  ASSUME SlotInv, StoreStep, TypeOK',
         \A w \in Workers : worker'[w] = worker[w] \/ WorkerInv(store', worker'[w]),
         \A k \in Cancels : cancel'[k] = cancel[k] \/ CancelInv(store', cancel'[k]),
         lock' = lock \/ LockInv'
  PROVE  SlotInv'
<1>1. StoreInv' /\ Moves(store, store')
  BY StoreFacts
<1>2. \A w \in Workers : WorkerInv(store', worker'[w])
  BY <1>1, WorkerInvMoves DEF SlotInv, TypeOK
<1>3. \A k \in Cancels : CancelInv(store', cancel'[k])
  BY <1>1, CancelInvMoves DEF SlotInv, TypeOK
<1>4. LockInv'
  <2>1. CASE lock' = lock
    BY <1>1, <2>1 DEF SlotInv, LockInv, Moves, Exists, TerminalJob
  <2> QED BY <2>1
<1> QED BY <1>1, <1>2, <1>3, <1>4 DEF SlotInv

LEMMA WorkerStepKeeps ==
  ASSUME SlotInv, NEW w \in Workers, WorkerStep(w), UNCHANGED coordVars
  PROVE  SlotInv'
<1>1. PICK n : NextWorker(store', w, n) /\ worker' = [worker EXCEPT ![w] = n]
  BY DEF WorkerStep
<1>2. TypeOK'
  BY <1>1, StoreFacts DEF Tallies, SlotInv, TypeOK, WorkerStep, NextWorker, coordVars, StoreStep
<1> QED BY <1>1, <1>2, SlotInvAssembled DEF StoreStep, SlotInv, TypeOK, WorkerStep, NextWorker, coordVars

\* What every step of cancel is, as far as the slot invariant goes.
CancelMove(k) ==
  /\ Rewrites
  /\ \E n \in CancelState :
       CancelInv(store', n) /\ cancel' = [cancel EXCEPT ![k] = n]
  /\ event' \in [Workers -> BOOLEAN]
  /\ prompts' \in [Jobs \X Batches -> PromptStatus]
  /\ comfyUp' \in BOOLEAN
  /\ Tallies
  /\ UNCHANGED <<worker, shutdown, lock, active, client, app>>

LEMMA CancelMoveKeeps ==
  ASSUME SlotInv, NEW k \in Cancels, CancelMove(k)
  PROVE  SlotInv'
<1>1. PICK n \in CancelState : CancelInv(store', n) /\ cancel' = [cancel EXCEPT ![k] = n]
  BY DEF CancelMove
<1>2. TypeOK'
  BY <1>1, StoreFacts DEF Tallies, SlotInv, TypeOK, CancelMove, StoreStep
<1> QED BY <1>1, <1>2, SlotInvAssembled DEF StoreStep, SlotInv, TypeOK, CancelMove

LEMMA CancelFacts ==
  ASSUME SlotInv, NEW k \in Cancels
  PROVE  /\ cancel[k] \in CancelState /\ cancel[k].loaded \in JobState
         /\ CancelInv(store, cancel[k])
         /\ cancel[k].pc \notin {"idle", "returned"} =>
              /\ cancel[k].job \in Jobs /\ Exists(cancel[k].job)
              /\ store[cancel[k].job] \in JobState
              /\ Consistent(store[cancel[k].job])
BY DEF SlotInv, TypeOK, StoreInv, CancelState, CancelInv, Exists

LEMMA CancelGoesStep ==
  ASSUME SlotInv, NEW k \in Cancels, NEW n \in CancelState, CancelInv(store, n),
         CancelGoes(k, n)
  PROVE  CancelMove(k)
BY UnchangedTallies
DEF CancelGoes, CancelStep, CancelMove, Rewrites, serviceVars, errorVars, SlotInv, TypeOK

LEMMA CancelCommitStep ==
  ASSUME SlotInv, NEW k \in Cancels, cancel[k].pc \in {"request", "confirm", "persistFailed"},
         NEW new, NEW ok, NEW conflict, NEW raised,
         store[cancel[k].job] = cancel[k].loaded =>
           /\ Writes(cancel[k].loaded, new)
           /\ ok \in CancelState /\ CancelInv([store EXCEPT ![cancel[k].job] = new], ok),
         conflict \in CancelState, CancelInv(store, conflict),
         raised \in CancelState, CancelInv(store, raised),
         CancelCommit(k, new, ok, conflict, raised)
  PROVE  CancelMove(k)
<1> DEFINE me == cancel[k]
           j  == me.job
<1>1. /\ j \in Jobs /\ Exists(j) /\ SnapshotOf(store, j, me.loaded)
  BY CancelFacts DEF CancelInv
<1>2. /\ UNCHANGED <<worker, event, shutdown, prompts, comfyUp>>
      /\ event \in [Workers -> BOOLEAN] /\ comfyUp \in BOOLEAN
      /\ prompts \in [Jobs \X Batches -> PromptStatus]
  BY DEF CancelCommit, SlotInv, TypeOK
<1>3. CASE /\ store[j].rev = me.loaded.rev /\ UNCHANGED errorVars
           /\ store' = [store EXCEPT ![j] = new] /\ CancelStep(k, ok)
  <2>1. store[j] = me.loaded
    BY <1>1, <1>3 DEF SnapshotOf
  <2>2. Rewrites
    BY <1>1, <1>3, <2>1 DEF Rewrites, Replaces, Writes
  <2> QED BY <1>2, <1>3, <2>1, <2>2, UnchangedTallies DEF CancelMove, CancelStep
<1>4. CASE UNCHANGED <<store, errorVars>> /\ CancelStep(k, conflict)
  BY <1>2, <1>4, UnchangedTallies DEF CancelMove, CancelStep, Rewrites, errorVars
<1>5. CASE /\ StorageError(j, me.loaded, new, me.pc = "persistFailed")
           /\ CancelStep(k, raised)
  <2>1. Rewrites
    <3>1. CASE UNCHANGED store
      BY <3>1 DEF Rewrites
    <3>2. CASE store[j].rev = me.loaded.rev /\ store' = [store EXCEPT ![j] = new]
      <4>1. store[j] = me.loaded
        BY <1>1, <3>2 DEF SnapshotOf
      <4> QED BY <1>1, <3>2, <4>1 DEF Rewrites, Replaces, Writes
    <3> QED BY <1>5, <3>1, <3>2 DEF StorageError
  <2>2. CancelInv(store', raised)
    BY <2>1, StoreStepKeeps, CancelInvMoves DEF SlotInv, TypeOK, StoreStep
  <2>3. Tallies
    BY <1>1, <1>5, ErrorTallies DEF StorageError
  <2> QED BY <1>2, <1>5, <2>1, <2>2, <2>3 DEF CancelMove, CancelStep
<1> QED BY <1>3, <1>4, <1>5 DEF CancelCommit

\* The states of a call once its request is stored.
Committed == CancelPc \ {"idle", "request", "returned"}

LEMMA ReturnedKeeps ==
  /\ IdleCancel \in CancelState /\ Returned \in CancelState
  /\ \A st : CancelInv(st, Returned)
<1>1. IdleCancel \in CancelState
  BY Zeros, FreshRecords DEF IdleCancel, CancelState, CancelPc
<1>2. Returned \in CancelState /\ Returned.pc = "returned"
  BY <1>1 DEF Returned, CancelState, CancelPc, IdleCancel
<1>3. \A st : CancelInv(st, Returned)
  BY <1>2 DEF CancelInv
<1> QED BY <1>1, <1>2, <1>3

\* A call that moves on without a snapshot, or with one of the stored record.
LEMMA CommittedKeeps ==
  ASSUME NEW st, NEW n \in CancelState, n.pc \in Committed,
         n.job \in Jobs, st[n.job].status # "absent", st[n.job].cancel,
         n.pc \in {"confirm", "persistFailed"} => n.loaded = st[n.job] /\ n.loaded.rev \in Nat
  PROVE  CancelInv(st, n)
BY DEF CancelInv, Committed, SnapshotOf

LEMMA RequestedKeeps ==
  ASSUME SlotInv, NEW me \in CancelState, me.job \in Jobs,
         Held(me.job)
  PROVE  /\ Requested(me, store[me.job]) \in CancelState
         /\ CancelInv(store, Requested(me, store[me.job]))
<1> DEFINE s == store[me.job]
           n == Requested(me, s)
<1>1. s \in JobState /\ s.status \in Nonterminal /\ s.status # "absent" /\ s.rev \in Nat
  BY StoredType DEF Held, JobState, Nonterminal, ActiveJob
<1>2. /\ n \in CancelState /\ n.job = me.job /\ n.loaded = s
      /\ n.pc = IF s.cancel THEN "look" ELSE "request"
  BY <1>1 DEF Requested, CancelState, CancelPc
<1>3. CASE s.cancel
  <2> HIDE DEF n
  <2>1. n.pc \in Committed /\ n.pc = "look"
    BY <1>2, <1>3 DEF Committed, CancelPc
  <2>2. CancelInv(store, n)
    BY <1>1, <1>2, <1>3, <2>1, CommittedKeeps
  <2> QED BY <1>2, <2>2 DEF n
<1>4. CASE ~s.cancel
  <2> HIDE DEF n
  <2>1. CancelInv(store, n)
    BY <1>1, <1>2, <1>4 DEF CancelInv, SnapshotOf
  <2> QED BY <1>2, <2>1 DEF n
<1> QED BY <1>3, <1>4

LEMMA CancelStepIsMove ==
  ASSUME SlotInv, NEW k \in Cancels, Cancel(k) \/ \E j \in Jobs : BeginCancel(k, j)
  PROVE  CancelMove(k)
<1> DEFINE me == cancel[k]
           s  == store[me.job]
<1>1. me \in CancelState /\ me.loaded \in JobState /\ CancelInv(store, me)
  BY CancelFacts
<1>2. me.pc \in Committed \cup {"request"} =>
        me.job \in Jobs /\ Exists(me.job) /\ s \in JobState /\ Consistent(s) /\ s.rev \in Nat
  BY CancelFacts DEF Committed, JobState
<1>3. me.pc \in Committed => s.cancel /\ s.status # "absent"
  BY <1>1, <1>2 DEF Committed, CancelInv, Exists
<1>4. {"look", "interrupt", "wait", "stop", "waitStopped", "reload", "confirm",
        "reloadFailed", "persistFailed"} \subseteq Committed
  BY DEF Committed, CancelPc
\* A call that is past its request and needs no snapshot.
<1>5. ASSUME NEW n \in CancelState, n.job = me.job,
             n.pc \in Committed \ {"confirm", "persistFailed"}, me.pc \in Committed
      PROVE  CancelInv(store, n)
  BY <1>2, <1>3, <1>5, CommittedKeeps
<1>6. me.pc \in Committed =>
        /\ Failing(me) \in CancelState /\ CancelInv(store, Failing(me))
        /\ Confirming(me) \in CancelState /\ CancelInv(store, Confirming(me))
  <2>1. Failing(me) \in CancelState /\ Failing(me).job = me.job /\ Failing(me).pc = "reloadFailed"
    BY <1>1, FreshRecords DEF Failing, CancelState, CancelPc
  <2>2. Confirming(me) \in CancelState /\ Confirming(me).job = me.job /\ Confirming(me).pc = "reload"
    BY <1>1, FreshRecords, Zeros DEF Confirming, CancelState, CancelPc
  <2> QED BY <1>4, <1>5, <2>1, <2>2
<1>7. CASE \E j \in Jobs : BeginCancel(k, j)
  <2>1. PICK j \in Jobs : BeginCancel(k, j)
    BY <1>7
  <2>2. [IdleCancel EXCEPT !.job = j] \in CancelState /\ [IdleCancel EXCEPT !.job = j].job = j
    BY ReturnedKeeps DEF CancelState
  <2> QED BY <2>1, <2>2, RequestedKeeps, CancelGoesStep DEF BeginCancel
<1>8. CASE CommitRequest(k)
  <2> DEFINE new == RequestCancel(me.loaded)
             ok == [me EXCEPT !.pc = "look", !.loaded = new, !.attempt = 0]
             again == [me EXCEPT !.attempt = me.attempt + 1]
             conflict == IF me.attempt = 2 \/ s.status \in TerminalJob THEN Returned
                         ELSE Requested(again, s)
  <2>1. me.pc = "request" /\ CancelCommit(k, new, ok, conflict, Returned)
    BY <1>8 DEF CommitRequest
  <2>2. ~me.loaded.cancel /\ me.loaded.status \in Nonterminal
    BY <1>1, <2>1 DEF CancelInv
  <2>3. ASSUME s = me.loaded
        PROVE  /\ Writes(me.loaded, new)
               /\ ok \in CancelState /\ CancelInv([store EXCEPT ![me.job] = new], ok)
    <3>1. Writes(me.loaded, new) /\ new.cancel
      BY <1>2, <2>1, <2>2, <2>3, RequestCancelWrites
      DEF CanRequestCancel, Nonterminal, ActiveJob, TerminalJob
    <3>2. new \in JobState /\ new.status # "absent"
      BY <3>1 DEF Writes, Successor
    <3> HIDE DEF new
    <3>3. ok \in CancelState /\ ok.pc = "look" /\ ok.job = me.job
      BY <1>1, <3>2, Zeros DEF CancelState, CancelPc
    <3> HIDE DEF ok
    <3>4. [store EXCEPT ![me.job] = new][me.job] = new
      BY <1>2, <2>1 DEF SlotInv, TypeOK
    <3>5. CancelInv([store EXCEPT ![me.job] = new], ok)
      BY <1>2, <1>4, <2>1, <3>1, <3>2, <3>3, <3>4, CommittedKeeps
    <3> QED BY <3>1, <3>3, <3>5
  <2>4. conflict \in CancelState /\ CancelInv(store, conflict)
    <3>1. CASE me.attempt = 2 \/ s.status \in TerminalJob
      BY <3>1, ReturnedKeeps
    <3>2. CASE ~(me.attempt = 2 \/ s.status \in TerminalJob)
      <4>1. me.attempt + 1 \in 0 .. 2
        BY <1>1, <3>2 DEF CancelState
      <4>2. again \in CancelState /\ again.job = me.job
        BY <1>1, <4>1 DEF CancelState
      <4>3. Held(me.job) /\ me.job \in Jobs
        BY <1>2, <2>1, <3>2 DEF Held, Exists, JobState, JobStatus
      <4> HIDE DEF again
      <4> QED BY <3>2, <4>2, <4>3, RequestedKeeps
    <3> QED BY <3>1, <3>2
  <2> HIDE DEF new, ok, conflict
  <2> QED BY <2>1, <2>3, <2>4, ReturnedKeeps, CancelCommitStep
<1>9. CASE LookAtRun(k)
  <2> DEFINE mine == RunOf(me.job)
             run  == IF mine THEN active ELSE NoWorker
             seen == [me EXCEPT !.run = run, !.client = mine /\ client, !.loaded = AbsentState]
  <2>1. me.pc = "look" /\ me.pc \in Committed
    BY <1>4, <1>9 DEF LookAtRun
  <2>2. run \in Workers \cup {NoWorker} /\ (mine /\ client) \in BOOLEAN
    BY DEF SlotInv, TypeOK
  <2> HIDE DEF run, mine
  <2>3. seen \in CancelState /\ seen.job = me.job
    BY <1>1, <2>2, FreshRecords DEF CancelState
  <2> HIDE DEF seen
  <2>4. Confirming(seen) \in CancelState /\ CancelInv(store, Confirming(seen))
    <3>1. Confirming(seen) \in CancelState /\ Confirming(seen).job = me.job
          /\ Confirming(seen).pc = "reload"
      BY <2>3, FreshRecords, Zeros DEF Confirming, CancelState, CancelPc
    <3> QED BY <1>4, <1>5, <2>1, <3>1
  <2>5. Signal(run) \in [Workers -> BOOLEAN]
    BY DEF Signal, SlotInv, TypeOK
  <2>6. \A b \in Batches :
          /\ [seen EXCEPT !.pc = "interrupt", !.prompt = b] \in CancelState
          /\ [seen EXCEPT !.pc = "interrupt", !.prompt = b].job = me.job
          /\ [seen EXCEPT !.pc = "interrupt", !.prompt = b].pc = "interrupt"
    BY <2>3 DEF CancelState, CancelPc
  <2>7. \A b \in Batches : CancelInv(store, [seen EXCEPT !.pc = "interrupt", !.prompt = b])
    BY <1>4, <1>5, <2>1, <2>6
  <2>8. CASE /\ event' = Signal(run)
             /\ CancelStep(k, Confirming(seen))
             /\ UNCHANGED <<store, worker, shutdown, prompts, comfyUp, errorVars>>
    BY <2>4, <2>5, <2>8, UnchangedTallies
    DEF CancelStep, CancelMove, Rewrites, SlotInv, TypeOK, errorVars
  <2>9. CASE \E b \in ActivePrompts(me.loaded) :
               CancelGoes(k, [seen EXCEPT !.pc = "interrupt", !.prompt = b])
    BY <2>6, <2>7, <2>9, CancelGoesStep DEF ActivePrompts
  <2> QED BY <1>9, <2>8, <2>9 DEF LookAtRun, seen, run, mine
<1>10. CASE Interrupt(k)
  <2> DEFINE n == [me EXCEPT !.pc = "wait"]
  <2>1. me.pc = "interrupt" /\ me.pc \in Committed
    BY <1>4, <1>10 DEF Interrupt
  <2>2. n \in CancelState /\ n.job = me.job /\ n.pc = "wait"
    BY <1>1 DEF CancelState, CancelPc
  <2>3. CancelInv(store, n)
    BY <1>4, <1>5, <2>1, <2>2
  <2>4. prompts' \in [Jobs \X Batches -> PromptStatus] /\ comfyUp' \in BOOLEAN
    BY <1>1, <1>10 DEF Interrupt, SlotInv, TypeOK, PromptStatus, CancelState
  <2>5. CancelStep(k, n) /\ UNCHANGED <<store, worker, event, shutdown, errorVars>>
    BY <1>10 DEF Interrupt
  <2> HIDE DEF n
  <2> QED
    BY <2>2, <2>3, <2>4, <2>5, UnchangedTallies
    DEF CancelStep, CancelMove, Rewrites, SlotInv, TypeOK, errorVars
<1>11. CASE SeeClear(k)
  <2>1. me.pc \in Committed
    BY <1>4, <1>11 DEF SeeClear
  <2>2. Signal(me.run) \in [Workers -> BOOLEAN]
    BY DEF Signal, SlotInv, TypeOK
  <2>3. /\ event' = Signal(me.run) /\ CancelStep(k, Confirming(me))
        /\ UNCHANGED <<store, worker, shutdown, prompts, comfyUp, errorVars>>
    BY <1>11 DEF SeeClear
  <2> QED
    BY <1>6, <2>1, <2>2, <2>3, UnchangedTallies
    DEF CancelStep, CancelMove, Rewrites, SlotInv, TypeOK, errorVars
<1>12. CASE WaitTimesOut(k)
  <2>1. me.pc \in Committed
    BY <1>4, <1>12 DEF WaitTimesOut
  <2>2. [me EXCEPT !.pc = "stop"] \in CancelState /\ [me EXCEPT !.pc = "stop"].job = me.job
        /\ [me EXCEPT !.pc = "stop"].pc = "stop"
    BY <1>1 DEF CancelState, CancelPc
  <2>3. CancelInv(store, [me EXCEPT !.pc = "stop"])
    BY <1>4, <1>5, <2>1, <2>2
  <2> QED BY <1>6, <1>12, <2>1, <2>2, <2>3, CancelGoesStep DEF WaitTimesOut
<1>13. CASE StopComfyUI(k)
  <2> DEFINE n == [me EXCEPT !.pc = "waitStopped"]
  <2>1. me.pc \in Committed
    BY <1>4, <1>13 DEF StopComfyUI
  <2>2. n \in CancelState /\ n.job = me.job /\ n.pc = "waitStopped"
    BY <1>1 DEF CancelState, CancelPc
  <2>3. CancelInv(store, n)
    BY <1>4, <1>5, <2>1, <2>2
  <2>4. prompts' \in [Jobs \X Batches -> PromptStatus] /\ comfyUp' \in BOOLEAN
    BY <1>13 DEF StopComfyUI, StopPrompts, SlotInv, TypeOK, PromptStatus
  <2>5. CancelStep(k, n) /\ UNCHANGED <<store, worker, event, shutdown, errorVars>>
    BY <1>13 DEF StopComfyUI
  <2> HIDE DEF n
  <2> QED
    BY <2>2, <2>3, <2>4, <2>5, UnchangedTallies
    DEF CancelStep, CancelMove, Rewrites, SlotInv, TypeOK, errorVars
<1>14. CASE CancelRaises(k)
  <2>1. me.pc \in Committed
    BY <1>4, <1>14 DEF CancelRaises
  <2> QED BY <1>6, <1>14, <2>1, CancelGoesStep DEF CancelRaises
<1>15. CASE ReloadForConfirm(k)
  <2> DEFINE n == [me EXCEPT !.pc = "confirm", !.loaded = s]
  <2>1. me.pc \in Committed
    BY <1>4, <1>15 DEF ReloadForConfirm
  <2>2. n \in CancelState /\ n.job = me.job /\ n.pc = "confirm" /\ n.loaded = s
    BY <1>1, <1>2, <2>1 DEF CancelState, CancelPc
  <2>3. CancelInv(store, n)
    BY <1>2, <1>3, <1>4, <2>1, <2>2, CommittedKeeps
  <2> QED BY <1>15, <2>2, <2>3, ReturnedKeeps, CancelGoesStep DEF ReloadForConfirm
<1>19. CASE ConfirmUnloaded(k)
  <2>1. me.pc \in Committed
    BY <1>4, <1>19 DEF ConfirmUnloaded
  <2>2. /\ CancelStep(k, Failing(me)) /\ Upset(MaxErrors)
        /\ UNCHANGED <<store, worker, event, shutdown, prompts, comfyUp, unrecorded>>
    BY <1>19 DEF ConfirmUnloaded
  <2>3. Tallies
    BY <1>2, <2>1, <2>2, ErrorTallies
  <2> QED
    BY <1>6, <2>1, <2>2, <2>3 DEF CancelStep, CancelMove, Rewrites, SlotInv, TypeOK
<1>16. CASE CommitConfirm(k)
  <2> DEFINE new == ConfirmCanceled(me.loaded)
             again == [me EXCEPT !.pc = "reload", !.attempt = me.attempt + 1,
                                 !.loaded = AbsentState]
             conflict == IF me.attempt = 2 THEN Failing(me) ELSE again
  <2>1. me.pc = "confirm" /\ me.pc \in Committed /\ CancelCommit(k, new, Returned, conflict, Failing(me))
    BY <1>4, <1>16 DEF CommitConfirm
  <2>2. s = me.loaded => Writes(me.loaded, new)
    BY <1>2, <1>3, <2>1, ConfirmCanceledWrites DEF CanConfirmCanceled
  <2>3. conflict \in CancelState /\ CancelInv(store, conflict)
    <3>1. CASE me.attempt = 2
      BY <1>6, <2>1, <3>1
    <3>2. CASE me.attempt # 2
      <4>1. me.attempt + 1 \in 0 .. 2
        BY <1>1, <3>2 DEF CancelState
      <4>2. again \in CancelState /\ again.job = me.job /\ again.pc = "reload"
        BY <1>1, <4>1, FreshRecords DEF CancelState, CancelPc
      <4> HIDE DEF again
      <4> QED BY <1>4, <1>5, <2>1, <3>2, <4>2
    <3> QED BY <3>1, <3>2
  <2>4. Failing(me) \in CancelState /\ CancelInv(store, Failing(me))
    BY <1>6, <2>1
  <2> HIDE DEF new, conflict
  <2> QED BY <2>1, <2>2, <2>3, <2>4, ReturnedKeeps, CancelCommitStep
<1>17. CASE ReloadForFailure(k)
  <2> DEFINE n == [me EXCEPT !.pc = "persistFailed", !.loaded = s]
  <2>1. me.pc \in Committed
    BY <1>4, <1>17 DEF ReloadForFailure
  <2>2. n \in CancelState /\ n.job = me.job /\ n.pc = "persistFailed" /\ n.loaded = s
    BY <1>1, <1>2, <2>1 DEF CancelState, CancelPc
  <2>3. CancelInv(store, n)
    BY <1>2, <1>3, <1>4, <2>1, <2>2, CommittedKeeps
  <2> QED BY <1>17, <2>2, <2>3, CancelGoesStep DEF ReloadForFailure
<1>20. CASE FailureUnloaded(k)
  <2>1. me.pc \in Committed
    BY <1>4, <1>20 DEF FailureUnloaded
  <2>2. /\ CancelStep(k, Returned) /\ Upset(MaxErrors) /\ LeftOpen(me.job)
        /\ UNCHANGED <<store, worker, event, shutdown, prompts, comfyUp>>
    BY <1>20 DEF FailureUnloaded
  <2>3. Tallies
    BY <1>2, <2>1, <2>2, ErrorTallies
  <2> QED
    BY <2>2, <2>3, ReturnedKeeps DEF CancelStep, CancelMove, Rewrites, SlotInv, TypeOK
<1>18. CASE CommitFailure(k)
  <2> DEFINE new == FailGeneration(me.loaded, "unconfirmed")
  <2>1. me.pc = "persistFailed" /\ me.pc \in Committed /\ CancelCommit(k, new, Returned, Returned, Returned)
    BY <1>4, <1>18 DEF CommitFailure
  <2>2. s = me.loaded => Writes(me.loaded, new)
    BY <1>2, <1>3, <2>1, FailGenerationWrites DEF FailureCode
  <2> HIDE DEF new
  <2> QED BY <2>1, <2>2, ReturnedKeeps, CancelCommitStep
<1> QED
  BY <1>7, <1>8, <1>9, <1>10, <1>11, <1>12, <1>13, <1>14, <1>15, <1>16, <1>17, <1>18,
     <1>19, <1>20
  DEF Cancel

----------------------------------------------------------------------------
(* The remaining actions *)

\* A step that leaves store, threads and calls alone.
Aside ==
  /\ UNCHANGED <<store, worker, cancel>>
  /\ TypeOK'
  /\ lock' \in {lock, Free} \/ LockInv'

LEMMA FreeLock == Free \in LockState /\ Free.op = "free"
BY DEF Free, LockState

LEMMA LockFreed ==
  ASSUME lock' = Free
  PROVE  LockInv'
BY FreeLock DEF LockInv

LEMMA AsideKeeps ==
  ASSUME SlotInv, Aside
  PROVE  StoreStep /\ SlotInv'
<1>1. StoreStep
  BY DEF Aside, StoreStep, Rewrites
<1>2. lock' = lock \/ LockInv'
  BY LockFreed DEF Aside
<1> QED BY <1>1, <1>2, SlotInvAssembled DEF Aside

\* create, start and retry, and what the lock's holder does.
LEMMA HeldStep ==
  ASSUME SlotInv, NEW j \in Jobs, CreateJob(j) \/ StartCheck(j) \/ \E i \in Jobs : RetryCreate(i, j)
  PROVE  StoreStep /\ SlotInv'
<1>1. CASE CreateJob(j)
  <2>1. StoreStep
    BY <1>1 DEF CreateJob, StoreStep, Rewrites, Creates
  <2>2. TypeOK'
    BY <1>1, <2>1, StoreFacts DEF CreateJob, coordVars, errorVars, SlotInv, TypeOK
  <2> QED BY <1>1, <2>1, <2>2, SlotInvAssembled DEF CreateJob, coordVars
<1>2. CASE StartCheck(j)
  <2>1. lock' = [op |-> "start", job |-> j, parent |-> NoJob] /\ Exists(j)
    BY <1>2 DEF StartCheck, Held, Exists, Nonterminal, ActiveJob
  <2>2. LockInv' /\ lock' \in LockState
    BY <1>2, <2>1 DEF StartCheck, serviceVars, errorVars, LockInv, LockState, Exists
  <2> QED BY <1>2, <2>2, AsideKeeps DEF StartCheck, Aside, serviceVars, errorVars, SlotInv, TypeOK
<1>3. ASSUME NEW i \in Jobs, RetryCreate(i, j)
      PROVE  StoreStep /\ SlotInv'
  <2>1. StoreStep
    BY <1>3 DEF RetryCreate, StoreStep, Rewrites, Creates
  <2>2. lock' = [op |-> "retry", job |-> j, parent |-> i] /\ lock' \in LockState
    BY <1>3 DEF RetryCreate, LockState
  <2>3. TypeOK'
    BY <1>3, <2>1, <2>2, StoreFacts DEF RetryCreate, errorVars, SlotInv, TypeOK
  <2>4. store' = [store EXCEPT ![j] = InitialState] /\ i # j
        /\ store[i].status \in TerminalJob
    BY <1>3 DEF RetryCreate, Exists, TerminalJob
  <2>5. store'[j] = InitialState /\ store'[i] = store[i]
    BY <2>4 DEF SlotInv, TypeOK
  <2>6. LockInv'
    BY <2>2, <2>4, <2>5 DEF LockInv, Exists, InitialState
  <2> QED BY <1>3, <2>1, <2>3, <2>6, SlotInvAssembled DEF RetryCreate
<1> QED BY <1>1, <1>2, <1>3

LEMMA HolderStep ==
  ASSUME SlotInv, Holder
  PROVE  StoreStep /\ SlotInv'
<1>1. CASE CleanupOrphans
  <2>1. lock' = [lock EXCEPT !.op = "spawn"] /\ lock.op = "start" /\ store' = store
    BY <1>1 DEF CleanupOrphans
  <2>2. lock' \in LockState
    BY <2>1 DEF SlotInv, TypeOK, LockState
  <2>3. lock'.op = "spawn" /\ lock'.job = lock.job
    BY <2>1 DEF SlotInv, TypeOK, LockState
  <2>4. LockInv'
    BY <2>1, <2>3 DEF SlotInv, LockInv, Exists
  <2>5. prompts' \in [Jobs \X Batches -> PromptStatus] /\ comfyUp' \in BOOLEAN
    <3>1. prompts \in [Jobs \X Batches -> PromptStatus] /\ comfyUp \in BOOLEAN
      BY DEF SlotInv, TypeOK
    <3>2. "gone" \in PromptStatus /\ "none" \in PromptStatus
      BY DEF PromptStatus
    <3>3. StopPrompts \in [Jobs \X Batches -> PromptStatus]
      BY <3>1, <3>2 DEF StopPrompts
    <3>4. \A live : [p \in DOMAIN prompts |-> IF p \in live THEN "gone" ELSE prompts[p]]
                     \in [Jobs \X Batches -> PromptStatus]
      BY <3>1, <3>2
    <3>5. \/ \E live : prompts' = [p \in DOMAIN prompts |->
                                    IF p \in live THEN "gone" ELSE prompts[p]]
          \/ prompts' = StopPrompts
      BY <1>1, Zenon DEF CleanupOrphans
    <3>6. comfyUp' = TRUE \/ comfyUp' \in BOOLEAN \/ comfyUp' = comfyUp
      BY <1>1 DEF CleanupOrphans, EnsureReady
    <3>7. comfyUp' \in BOOLEAN
      BY <3>1, <3>6
    <3> QED BY <3>3, <3>4, <3>5, <3>7
  <2> QED BY <1>1, <2>2, <2>4, <2>5, AsideKeeps
    DEF CleanupOrphans, Aside, errorVars, SlotInv, TypeOK
<1>2. CASE CleanupRaises
  BY <1>2, AsideKeeps, FreeLock DEF CleanupRaises, Aside, serviceVars, errorVars, SlotInv, TypeOK
<1>3. CASE RetryCommit
  <2> DEFINE j == lock.job
             i == lock.parent
             t == InheritFrom(InitialState, store[i])
  <2>1. lock.op = "retry" /\ lock' = Free
    BY <1>3 DEF RetryCommit
  <2>2. j \in Jobs /\ Exists(j) /\ i \in Jobs
    BY <2>1 DEF SlotInv, LockInv
  <2>3. ASSUME store[j].rev = 0 PROVE Writes(store[j], t)
    BY <2>2, <2>3, InheritFromWrites DEF SlotInv, TypeOK, StoreInv
  <2>4. \/ store[j].rev = 0 /\ store' = [store EXCEPT ![j] = t]
        \/ UNCHANGED store
    BY <1>3 DEF RetryCommit
  <2> HIDE DEF t
  <2>5. StoreStep
    BY <2>2, <2>3, <2>4 DEF StoreStep, Rewrites, Replaces, Writes
  <2>6. TypeOK'
    BY <1>3, <2>5, StoreFacts, FreeLock DEF RetryCommit, errorVars, SlotInv, TypeOK
  <2> QED BY <1>3, <2>1, <2>5, <2>6, LockFreed, SlotInvAssembled DEF RetryCommit
<1>4. ASSUME NEW w \in Workers, StartWorker(w)
      PROVE  StoreStep /\ SlotInv'
  <2> DEFINE n == [IdleWorker EXCEPT !.pc = "boot", !.job = lock.job]
  <2>1. lock.job \in Jobs /\ Exists(lock.job)
    BY <1>4 DEF StartWorker, SlotInv, LockInv
  <2>2. n \in WorkerState /\ n.pc = "boot" /\ n.job = lock.job
    BY <2>1, IdleWorkerType DEF WorkerState, WorkerPc
  <2>3. worker' = [worker EXCEPT ![w] = n]
    BY <1>4 DEF StartWorker
  <2> HIDE DEF n
  <2>4. StoreStep /\ store' = store
    BY <1>4 DEF StartWorker, StoreStep, Rewrites
  <2>5. WorkerInv(store', n)
    BY <2>1, <2>2, <2>4 DEF WorkerInv, Exists
  <2>6. TypeOK'
    BY <1>4, <2>2, <2>3, FreeLock DEF StartWorker, errorVars, SlotInv, TypeOK
  <2>7. LockInv'
    BY <1>4, LockFreed DEF StartWorker
  <2>8. \A v \in Workers : worker'[v] = worker[v] \/ WorkerInv(store', worker'[v])
    BY <2>3, <2>5 DEF SlotInv, TypeOK
  <2>9. \A k \in Cancels : cancel'[k] = cancel[k]
    BY <1>4 DEF StartWorker
  <2> QED BY <2>4, <2>6, <2>7, <2>8, <2>9, SlotInvAssembled
<1> QED BY <1>1, <1>2, <1>3, <1>4 DEF Holder

LEMMA ThreadStep ==
  ASSUME SlotInv, NEW w \in Workers, Thread(w)
  PROVE  StoreStep /\ SlotInv'
<1>1. CASE Work(w)
  BY <1>1, RunJobStep, WorkerStepKeeps DEF Work, WorkerStep, StoreStep
<1>2. CASE BootWorker(w) \/ BootFails(w)
  <2> DEFINE load == [worker[w] EXCEPT !.pc = "load"]
  <2>1. worker[w].pc = "boot" /\ Alive(w)
    BY <1>2 DEF BootWorker, BootFails, Alive
  <2>2. load \in WorkerState /\ load.pc = "load" /\ load.job = worker[w].job
    BY ThreadFacts DEF WorkerState, WorkerPc
  <2>3. PICK n \in WorkerState : /\ worker' = [worker EXCEPT ![w] = n]
                                 /\ WorkerInv(store, n)
    <3>1. CASE BootWorker(w)
      <4>1. WorkerInv(store, load)
        BY <2>1, <2>2, ThreadFacts DEF WorkerInv, Exists
      <4>2. worker' = [worker EXCEPT ![w] = load]
        BY <3>1 DEF BootWorker
      <4> QED BY <2>2, <4>1, <4>2
    <3>2. CASE BootFails(w)
      <4>1. NextWorker(store, w, Exit(worker[w]))
        BY <2>1, ExitNext, ThreadFacts DEF Exists
      <4>2. worker' = [worker EXCEPT ![w] = Exit(worker[w])]
        BY <3>2 DEF BootFails
      <4> QED BY <4>1, <4>2 DEF NextWorker
    <3> QED BY <1>2, <3>1, <3>2
  <2>4. client' \in BOOLEAN /\ comfyUp' \in BOOLEAN
    BY <1>2 DEF BootWorker, BootFails, EnsureReady, coordVars, SlotInv, TypeOK
  <2>5. UNCHANGED <<store, event, shutdown, prompts, lock, active, cancel, app, errorVars>>
    BY <1>2 DEF BootWorker, BootFails, coordVars
  <2>6. TypeOK'
    BY <2>3, <2>4, <2>5 DEF errorVars, SlotInv, TypeOK
  <2> QED BY <2>3, <2>5, <2>6, SlotInvAssembled DEF StoreStep, Rewrites, SlotInv, TypeOK
<1>3. CASE EndWorker(w)
  <2>1. worker' = [worker EXCEPT ![w] = DeadWorker] /\ WorkerInv(store, DeadWorker)
    BY <1>3, FreshRecords DEF EndWorker, WorkerInv, DeadWorker, IdleWorker
  <2>2. active' \in Workers \cup {NoWorker} /\ client' \in BOOLEAN
    BY <1>3 DEF EndWorker, SlotInv, TypeOK
  <2>3. UNCHANGED <<store, event, shutdown, prompts, comfyUp, lock, cancel, app, errorVars>>
    BY <1>3 DEF EndWorker
  <2>4. TypeOK'
    BY <2>1, <2>2, <2>3, IdleWorkerType DEF errorVars, SlotInv, TypeOK
  <2> QED BY <2>1, <2>3, <2>4, SlotInvAssembled DEF StoreStep, Rewrites, SlotInv, TypeOK
<1> QED BY <1>1, <1>2, <1>3 DEF Thread

LEMMA DeathStep ==
  ASSUME SlotInv, ProcessDies
  PROVE  StoreStep /\ SlotInv'
<1>1. StoreStep /\ store' = store
  BY DEF ProcessDies, StoreStep, Rewrites
<1>2. \A w \in Workers : worker'[w] \in WorkerState /\ WorkerInv(store', worker'[w])
  BY IdleWorkerType DEF ProcessDies, WorkerInv, IdleWorker, DeadWorker
<1>3. \A k \in Cancels : cancel'[k] \in CancelState /\ CancelInv(store', cancel'[k])
  BY ReturnedKeeps DEF ProcessDies, CancelInv, IdleCancel, Returned
<1>4. prompts' \in [Jobs \X Batches -> PromptStatus] /\ comfyUp' \in BOOLEAN
  BY DEF ProcessDies, StopPrompts, SlotInv, TypeOK, PromptStatus
<1>5. upsets' \in Nat /\ unrecorded' = {}
  BY DEF ProcessDies, Upset, SlotInv, TypeOK
<1>6. worker' \in [Workers -> WorkerState] /\ cancel' \in [Cancels -> CancelState]
  BY <1>2, <1>3 DEF ProcessDies
<1>7. TypeOK'
  BY <1>1, <1>4, <1>5, <1>6, FreeLock DEF ProcessDies, SlotInv, TypeOK
<1>8. LockInv'
  BY LockFreed DEF ProcessDies
<1> QED BY <1>1, <1>2, <1>3, <1>7, <1>8, SlotInvAssembled

LEMMA RecoverStep ==
  ASSUME SlotInv, NEW j \in Jobs, RecoverJob(j)
  PROVE  StoreStep /\ SlotInv'
<1> DEFINE t == RecoverInterruption(store[j])
<1>1. Writes(store[j], t) /\ store' = [store EXCEPT ![j] = t] /\ Exists(j)
  BY RecoverInterruptionWrites, StoredType
  DEF RecoverJob, SlotInv, StoreInv, Exists, ActiveJob
<1> HIDE DEF t
<1>2. StoreStep
  BY <1>1 DEF StoreStep, Rewrites, Replaces, Writes
<1>3. TypeOK'
  BY <1>2, StoreFacts DEF RecoverJob, coordVars, errorVars, SlotInv, TypeOK
<1> QED BY <1>2, <1>3, SlotInvAssembled DEF RecoverJob, coordVars

LEMMA OutsideStep ==
  ASSUME SlotInv, Comfy \/ Shutdown \/ Serve
  PROVE  StoreStep /\ SlotInv'
<1>1. UNCHANGED <<store, worker, event, lock, active, client, cancel, unrecorded>>
  BY DEF Comfy, ComfyStops, PromptEnds, Shutdown, Serve, serviceVars, errorVars, coordVars
<1>2. shutdown' \in BOOLEAN /\ app' \in {"serving", "recovering"}
  BY DEF Comfy, ComfyStops, PromptEnds, Shutdown, Serve, serviceVars, errorVars, coordVars, SlotInv, TypeOK
<1>3. prompts' \in [Jobs \X Batches -> PromptStatus] /\ comfyUp' \in BOOLEAN
  BY DEF Comfy, ComfyStops, PromptEnds, Shutdown, Serve, serviceVars, errorVars, coordVars,
     StopPrompts, PromptStatus, SlotInv, TypeOK
<1>4. upsets' \in Nat
  BY DEF Comfy, ComfyStops, PromptEnds, Shutdown, Serve, serviceVars, errorVars, Upset,
     SlotInv, TypeOK
<1>5. TypeOK'
  BY <1>1, <1>2, <1>3, <1>4 DEF SlotInv, TypeOK
<1> QED BY <1>1, <1>5, AsideKeeps DEF Aside

LEMMA NextStep ==
  ASSUME SlotInv, [Next]_vars
  PROVE  StoreStep /\ SlotInv'
<1>1. ASSUME NEW j \in Jobs, CreateJob(j) \/ StartCheck(j) \/ \E i \in Jobs : RetryCreate(i, j)
      PROVE  StoreStep /\ SlotInv'
  BY <1>1, HeldStep
<1>2. ASSUME NEW j \in Jobs, RecoverJob(j)
      PROVE  StoreStep /\ SlotInv'
  BY <1>2, RecoverStep
<1>3. CASE Holder
  BY <1>3, HolderStep
<1>4. ASSUME NEW w \in Workers, Thread(w)
      PROVE  StoreStep /\ SlotInv'
  BY <1>4, ThreadStep
<1>5. ASSUME NEW k \in Cancels, Cancel(k) \/ \E j \in Jobs : BeginCancel(k, j)
      PROVE  StoreStep /\ SlotInv'
  BY <1>5, CancelStepIsMove, CancelMoveKeeps DEF CancelMove, StoreStep
<1>6. CASE Comfy \/ Shutdown \/ Serve
  BY <1>6, OutsideStep
<1>7. CASE ProcessDies
  BY <1>7, DeathStep
<1>8. CASE UNCHANGED vars
  <2>1. UNCHANGED <<store, worker, event, shutdown, prompts, comfyUp,
                    lock, active, client, cancel, app, errorVars>>
    BY <1>8 DEF vars, serviceVars, errorVars, coordVars
  <2>2. TypeOK'
    BY <2>1 DEF errorVars, SlotInv, TypeOK
  <2> QED BY <2>1, <2>2, AsideKeeps DEF Aside
<1> QED BY <1>1, <1>2, <1>3, <1>4, <1>5, <1>6, <1>7, <1>8 DEF Next

LEMMA InitSlotInv == Init => SlotInv
<1> SUFFICES ASSUME Init PROVE SlotInv
  OBVIOUS
<1>1. TypeOK
  <2>1. store \in [Jobs -> JobState] /\ worker \in [Workers -> WorkerState]
        /\ cancel \in [Cancels -> CancelState]
    BY FreshRecords, IdleWorkerType, ReturnedKeeps DEF Init
  <2>2. prompts \in [Jobs \X Batches -> PromptStatus]
    BY DEF Init, PromptStatus
  <2>3. upsets \in Nat /\ unrecorded \subseteq Jobs
    BY DEF Init
  <2> QED BY <2>1, <2>2, <2>3, FreeLock DEF Init, TypeOK
<1>2. \A j \in Jobs : store[j] = AbsentState /\ store[j].status = "absent"
  BY DEF Init, AbsentState, InitialState
<1>3. StoreInv
  BY <1>2, FreshRecords DEF StoreInv, SingleSlot, Held, Exists, Nonterminal, ActiveJob
<1>4. \A w \in Workers : WorkerInv(store, worker[w])
  BY DEF Init, WorkerInv, IdleWorker
<1>5. \A k \in Cancels : CancelInv(store, cancel[k])
  BY DEF Init, CancelInv, IdleCancel
<1>6. LockInv
  BY FreeLock DEF Init, LockInv
<1> QED BY <1>1, <1>3, <1>4, <1>5, <1>6 DEF SlotInv

----------------------------------------------------------------------------
(* Theorems *)

\* The slot invariant holds in every reachable state: the slot is single, every
\* stored record is one its validators accept, and every snapshot a thread or a
\* call holds is an older revision of its job or the stored record itself.
THEOREM SlotInvariant == Spec => []SlotInv
<1>1. SlotInv /\ [Next]_vars => SlotInv'
  BY NextStep
<1> QED BY InitSlotInv, <1>1, PTL DEF Spec

\* Every variable has its type: in particular no commit of a worker or a cancel
\* is ever attempted a fourth time, and no record leaves its vocabulary.
THEOREM TypeCorrectness == Spec => []TypeOK
<1>1. SlotInv => TypeOK
  BY DEF SlotInv
<1> QED BY SlotInvariant, <1>1, PTL

\* At most one job holds the slot, with any number of jobs, threads, cancels,
\* storage errors and process deaths, as long as the scan for a holder of the
\* slot reads every job, as a create, a start and a retry are modelled to do.
THEOREM OneSlot == Spec => []SingleSlot
<1>1. SlotInv => SingleSlot
  BY DEF SlotInv, StoreInv
<1> QED BY SlotInvariant, <1>1, PTL

\* No sequence of writes builds a record its own validators refuse.
THEOREM ValidRecords == Spec => []RecordsValid
<1>1. SlotInv => RecordsValid
  BY DEF SlotInv, StoreInv, Consistent, RecordsValid
<1> QED BY SlotInvariant, <1>1, PTL

\* What a step does to one record.
LEMMA RecordStep ==
  ASSUME SlotInv, StoreStep, NEW j \in Jobs
  PROVE  \/ store'[j] = store[j]
         \/ ~Exists(j) /\ store'[j] = InitialState /\ store[j] = AbsentState
         \/ Exists(j) /\ Writes(store[j], store'[j])
<1>1. CASE UNCHANGED store
  BY <1>1
<1>2. ASSUME NEW i \in Jobs, Creates(i)
      PROVE  \/ store'[j] = store[j]
             \/ ~Exists(j) /\ store'[j] = InitialState /\ store[j] = AbsentState
  <2>1. ~Exists(i) => store[i] = AbsentState
    BY DEF Exists, SlotInv, StoreInv, Consistent
  <2> QED BY <1>2, <2>1 DEF Creates, SlotInv, TypeOK
<1>3. ASSUME NEW i \in Jobs, Replaces(i)
      PROVE  \/ store'[j] = store[j]
             \/ Exists(j) /\ Writes(store[j], store'[j])
  BY <1>3 DEF Replaces, SlotInv, TypeOK
<1> QED BY <1>1, <1>2, <1>3 DEF StoreStep, Rewrites

\* Revisions grow by one: a write always replaces the record its writer read.
THEOREM NoUpdateLost == Spec => NoLostUpdate
<1>1. ASSUME SlotInv, [Next]_vars
      PROVE  \A j \in Jobs : store'[j] # store[j] =>
               IF Exists(j) THEN store'[j].rev = store[j].rev + 1 ELSE store'[j].rev = 0
  <2> TAKE j \in Jobs
  <2>1. InitialState.rev = 0
    BY DEF InitialState
  <2> QED BY <1>1, <2>1, NextStep, RecordStep DEF Writes, Successor
<1> QED BY SlotInvariant, <1>1, PTL DEF Spec, NoLostUpdate

\* A finished candidate and a rendered batch are never taken back.
THEOREM ResultsKept == Spec => FinishedWorkKept
<1>1. ASSUME SlotInv, [Next]_vars
      PROVE  \A j \in Jobs :
               /\ \A c \in Candidates :
                    store[j].cand[c] \in DoneCandidate => store'[j].cand[c] = store[j].cand[c]
               /\ \A b \in Batches : store[j].raw[b] => store'[j].raw[b]
  <2> TAKE j \in Jobs
  <2>1. /\ \A c \in Candidates : AbsentState.cand[c] \notin DoneCandidate
        /\ \A b \in Batches : ~AbsentState.raw[b]
    BY DEF AbsentState, InitialState, DoneCandidate
  <2>2. \/ store'[j] = store[j]
        \/ store[j] = AbsentState
        \/ Successor(store[j], store'[j])
    BY <1>1, NextStep, RecordStep DEF Writes
  <2> QED BY <2>1, <2>2 DEF Successor
<1> QED BY SlotInvariant, <1>1, PTL DEF Spec, FinishedWorkKept

----------------------------------------------------------------------------
(* The coordinator implements the slot *)

Result(s) == {c \in Candidates : s.cand[c] \in DoneCandidate}

LEMMA AcquireStep ==
  ASSUME SlotInv, NEW j \in Jobs, Creates(j)
  PROVE  Slot!Acquire(j)
<1>1. store' = [store EXCEPT ![j] = InitialState] /\ store[j] = AbsentState
  BY DEF Creates, Exists, SlotInv, StoreInv, Consistent
<1>2. \A i \in Jobs : store'[i] = IF i = j THEN InitialState ELSE store[i]
  BY <1>1 DEF SlotInv, TypeOK
<1>3. /\ Phase(AbsentState) = "absent" /\ Phase(InitialState) = "held"
      /\ Result(AbsentState) = {} /\ Result(InitialState) = {}
  BY DEF Phase, Result, AbsentState, InitialState, Nonterminal, DoneCandidate
<1>4. \A i \in Jobs : Phase(store[i]) # "held"
  BY DEF Creates, Phase, Held
<1>5. [i \in Jobs |-> Phase(store'[i])] = [[i \in Jobs |-> Phase(store[i])] EXCEPT ![j] = "held"]
  BY <1>2, <1>3
<1>6. [i \in Jobs |-> Result(store'[i])] = [i \in Jobs |-> Result(store[i])]
  BY <1>1, <1>2, <1>3
<1> QED BY <1>1, <1>3, <1>4, <1>5, <1>6 DEF Slot!Acquire, Result

LEMMA ReplaceStep ==
  ASSUME SlotInv, NEW j \in Jobs, Replaces(j)
  PROVE  Slot!Deliver(j) \/ Slot!Release(j) \/ UNCHANGED Slot!vars
<1> DEFINE s == store[j]
           phase == [i \in Jobs |-> Phase(store[i])]
           result == [i \in Jobs |-> Result(store[i])]
<1>1. PICK t \in JobState : Writes(s, t) /\ store' = [store EXCEPT ![j] = t]
  BY DEF Replaces
<1>2. \A i \in Jobs : store'[i] = IF i = j THEN t ELSE store[i]
  BY <1>1 DEF SlotInv, TypeOK
<1>3. s \in JobState /\ s.status # "absent" /\ t.status # "absent" /\ Result(s) \subseteq Result(t)
  BY <1>1, StoredType DEF Replaces, Exists, Writes, Successor, Result
<1>4. /\ [i \in Jobs |-> Phase(store'[i])] = [phase EXCEPT ![j] = Phase(t)]
      /\ [i \in Jobs |-> Result(store'[i])] = [result EXCEPT ![j] = Result(t)]
  BY <1>2
<1>5. phase[j] = Phase(s) /\ result[j] = Result(s)
  OBVIOUS
<1>6. /\ s.status \in Nonterminal => Phase(s) = "held"
      /\ t.status \in Nonterminal => Phase(t) = "held"
      /\ s.status \in TerminalJob => Phase(s) = "closed"
      /\ t.status \in TerminalJob => Phase(t) = "closed"
  BY DEF Phase, Nonterminal, ActiveJob, TerminalJob
<1>7. CASE s.status \in TerminalJob
  <2>1. t.status \in TerminalJob /\ Result(t) = Result(s)
    BY <1>1, <1>3, <1>7 DEF Writes, Successor, Result
  <2>2. /\ [i \in Jobs |-> Phase(store'[i])] = phase
        /\ [i \in Jobs |-> Result(store'[i])] = result
    BY <1>4, <1>6, <1>7, <2>1
  <2> QED BY <2>2 DEF Slot!vars, Result
<1>8. CASE s.status \in Nonterminal /\ t.status \in Nonterminal
  <2>1. /\ [i \in Jobs |-> Phase(store'[i])] = phase
        /\ [i \in Jobs |-> Result(store'[i])] = [result EXCEPT ![j] = result[j] \cup Result(t)]
    BY <1>3, <1>4, <1>6, <1>8
  <2>2. Result(t) \in SUBSET Candidates
    BY DEF Result
  <2> QED BY <1>6, <1>8, <2>1, <2>2 DEF Slot!Deliver, Result
<1>9. CASE s.status \in Nonterminal /\ t.status \in TerminalJob
  <2>1. Result(t) = Result(s)
    BY <1>1, <1>3, <1>9 DEF Writes, Successor, Result
  <2>2. /\ [i \in Jobs |-> Phase(store'[i])] = [phase EXCEPT ![j] = "closed"]
        /\ [i \in Jobs |-> Result(store'[i])] = result
    BY <1>4, <1>6, <1>9, <2>1
  <2> QED BY <1>6, <1>9, <2>2 DEF Slot!Release, Result
<1> QED BY <1>3, <1>7, <1>8, <1>9 DEF JobState, JobStatus

\* The coordinator, its threads, its cancels and its restarts implement the
\* slot: jobs take it one at a time, give it back once and for all, and their
\* results are frozen from then on, so a retry may read them.  As for OneSlot,
\* the scan for a holder is taken to read every job.
THEOREM Refinement == Spec => SlotPromise
<1>1. Init => Slot!Init
  <2> SUFFICES ASSUME Init PROVE Slot!Init
    OBVIOUS
  <2>1. \A j \in Jobs : Phase(store[j]) = "absent" /\ Result(store[j]) = {}
    BY DEF Init, Phase, Result, AbsentState, InitialState, DoneCandidate
  <2> QED BY <2>1 DEF Slot!Init, Result
<1>2. SlotInv /\ [Next]_vars => [Slot!Next]_Slot!vars
  <2> SUFFICES ASSUME SlotInv, [Next]_vars PROVE [Slot!Next]_Slot!vars
    OBVIOUS
  <2>1. StoreStep
    BY NextStep
  <2>2. CASE UNCHANGED store
    BY <2>2 DEF Slot!vars
  <2>3. ASSUME NEW j \in Jobs, Creates(j) PROVE Slot!Next
    BY <2>3, AcquireStep DEF Slot!Next
  <2>4. ASSUME NEW j \in Jobs, Replaces(j) PROVE [Slot!Next]_Slot!vars
    BY <2>4, ReplaceStep DEF Slot!Next
  <2> QED BY <2>1, <2>2, <2>3, <2>4 DEF StoreStep, Rewrites
<1> QED BY SlotInvariant, <1>1, <1>2, PTL DEF Spec, SlotPromise, Slot!Spec

-----------------------------------------------------------------------------
(***************************************************************************)
(* Threads, runs and signals: a job has one thread, and a thread that is   *)
(* signalled belongs to a job whose stored record asks for the cancel.     *)
(* RunInv is inductive on top of SlotInv, which gives the existence of the *)
(* jobs of threads and calls, and the requests that calls have recorded.   *)
(***************************************************************************)

\* A step that creates no job neither reopens one nor takes a request back.
LEMMA RewritesFacts ==
  ASSUME SlotInv, Rewrites, NEW j \in Jobs
  PROVE  /\ Held(j)' => Held(j)
         /\ Exists(j) /\ store[j].cancel => store'[j].cancel
<1>1. CASE UNCHANGED store
  BY <1>1 DEF Held
<1>2. ASSUME NEW i \in Jobs, Replaces(i)
      PROVE  /\ Held(j)' => Held(j)
             /\ Exists(j) /\ store[j].cancel => store'[j].cancel
  <2>1. PICK t \in JobState : Writes(store[i], t) /\ store' = [store EXCEPT ![i] = t]
    BY <1>2 DEF Replaces
  <2>2. store'[j] = IF i = j THEN t ELSE store[j]
    BY <2>1 DEF SlotInv, TypeOK
  <2>3. t.status \in Nonterminal => store[i].status \in Nonterminal
    BY <1>2, <2>1, StoredType
    DEF Replaces, Exists, Writes, Successor, JobState, JobStatus,
        Nonterminal, ActiveJob, TerminalJob
  <2>4. store[i].cancel => t.cancel
    BY <2>1 DEF Writes, Successor
  <2> QED BY <2>2, <2>3, <2>4 DEF Held
<1> QED BY <1>1, <1>2 DEF Rewrites

LEMMA AliveWorker ==
  ASSUME SlotInv, RunInv, NEW w \in Workers
  PROVE  /\ Alive(w) <=> worker[w].pc \notin {"idle", "dead"}
         /\ w # NoWorker
         /\ Alive(w) => worker[w].job \in Jobs /\ Exists(worker[w].job)
BY ThreadFacts, CoordinatorAssumption DEF Alive

\* Threads stand still or go on with their job.
Onward(w) ==
  \/ worker'[w] = worker[w]
  \/ /\ worker[w].pc \notin {"idle", "dead"} /\ worker'[w].pc \notin {"idle", "dead"}
     /\ worker'[w].job = worker[w].job

\* The lock stays, is freed, or goes on with its job.
LockOnward ==
  \/ lock' = lock
  \/ lock' = Free
  \/ lock.op = "start" /\ lock'.op = "spawn" /\ lock'.job = lock.job

\* A call keeps the run it holds, or takes the active one of its job.
RunTaken(k) ==
  \/ cancel'[k].run = NoWorker
  \/ cancel'[k].run = cancel[k].run /\ cancel'[k].job = cancel[k].job
  \/ RunOf(cancel'[k].job) /\ cancel'[k].run = active

\* A signal goes to a thread whose job asks for it.
Signalled(w) ==
  event'[w] =>
    \/ event[w]
    \/ /\ worker[w].pc # "idle"
       /\ Alive(w) => store[worker[w].job].cancel

LEMMA RunKept ==
  ASSUME SlotInv, RunInv, Rewrites, LockOnward, active' = active,
         \A w \in Workers : Onward(w) /\ Signalled(w),
         \A k \in Cancels : RunTaken(k)
  PROVE  RunInv'
<1> DEFINE alive(w) == worker[w].pc \notin {"idle", "dead"}
           aliveNext(w) == worker'[w].pc \notin {"idle", "dead"}
           heldNext(j) == store'[j].status \in Nonterminal
<1>1. \A w \in Workers :
        /\ aliveNext(w) <=> alive(w)
        /\ worker'[w].job = worker[w].job
        /\ worker'[w].pc = "idle" <=> worker[w].pc = "idle"
  BY DEF Onward
<1>2. \A j \in Jobs : heldNext(j) => Held(j)
  BY RewritesFacts DEF Held
<1>3. \A w \in Workers : alive(w) => worker[w].job \in Jobs /\ Exists(worker[w].job)
  BY AliveWorker
<1>4. lock'.op \in {"start", "spawn"} => lock.op \in {"start", "spawn"} /\ lock'.job = lock.job
  BY FreeLock DEF LockOnward
<1>5. active \in Workers \cup {NoWorker}
  BY DEF SlotInv, TypeOK
<1>6. \A w \in Workers :
        /\ worker'[w].pc \in {"idle", "dead"} => worker'[w].job = NoJob
        /\ aliveNext(w) /\ heldNext(worker'[w].job) => active' = w
        /\ lock'.op \in {"start", "spawn"} /\ aliveNext(w) => worker'[w].job # lock'.job
        /\ event'[w] => worker'[w].pc # "idle"
  <2> TAKE w \in Workers
  <2>1. worker'[w].pc \in {"idle", "dead"} => worker'[w].job = NoJob
    BY <1>1 DEF RunInv
  <2>2. ASSUME aliveNext(w), heldNext(worker'[w].job) PROVE active' = w
    <3>1. alive(w) /\ Held(worker[w].job)
      BY <1>1, <1>2, <1>3, <2>2
    <3> QED BY <3>1 DEF RunInv, Alive
  <2>3. ASSUME lock'.op \in {"start", "spawn"}, aliveNext(w)
        PROVE  worker'[w].job # lock'.job
    BY <1>1, <1>4, <2>3 DEF RunInv, Alive
  <2>4. event'[w] => worker'[w].pc # "idle"
    BY <1>1 DEF RunInv, Signalled
  <2> QED BY <2>1, <2>2, <2>3, <2>4
<1>7. lock'.op \in {"start", "spawn"} => \A j \in Jobs : heldNext(j) => j = lock'.job
  BY <1>2, <1>4 DEF RunInv
<1>8. active' # NoWorker => aliveNext(active')
  BY <1>1, <1>5 DEF RunInv, Alive
<1>9. \A k \in Cancels : cancel'[k].run # NoWorker =>
        /\ worker'[cancel'[k].run].pc # "idle"
        /\ aliveNext(cancel'[k].run) => worker'[cancel'[k].run].job = cancel'[k].job
  <2> SUFFICES ASSUME NEW k \in Cancels, cancel'[k].run # NoWorker
               PROVE  /\ worker'[cancel'[k].run].pc # "idle"
                      /\ aliveNext(cancel'[k].run) =>
                           worker'[cancel'[k].run].job = cancel'[k].job
    OBVIOUS
  <2>1. cancel[k].run \in Workers \cup {NoWorker}
    BY CancelFacts DEF CancelState
  <2>2. CASE cancel'[k].run = cancel[k].run /\ cancel'[k].job = cancel[k].job
    BY <1>1, <2>1, <2>2 DEF RunInv, Alive
  <2>3. CASE RunOf(cancel'[k].job) /\ cancel'[k].run = active
    BY <1>1, <1>5, <2>3 DEF RunOf, RunInv, Alive
  <2> QED BY <2>2, <2>3 DEF RunTaken
<1>10. \A v, w \in Workers :
         aliveNext(v) /\ aliveNext(w) /\ worker'[v].job = worker'[w].job => v = w
  BY <1>1 DEF RunInv, OneWorkerPerJob, Alive
<1>11. ASSUME NEW w \in Workers, event'[w], aliveNext(w)
       PROVE  store'[worker'[w].job].cancel
  <2>1. alive(w) /\ worker'[w].job = worker[w].job /\ worker[w].job \in Jobs
        /\ Exists(worker[w].job)
    BY <1>1, <1>3, <1>11
  <2>2. store[worker[w].job].cancel
    BY <1>11, <2>1 DEF Signalled, RunInv, SignalMeansRequested, Alive
  <2> QED BY <2>1, <2>2, RewritesFacts
<1> QED
  BY <1>6, <1>7, <1>8, <1>9, <1>10, <1>11
  DEF RunInv, OneWorkerPerJob, SignalMeansRequested, Alive, Held

LEMMA RunJobRun ==
  ASSUME SlotInv, RunInv, NEW w \in Workers, Work(w)
  PROVE  RunInv'
<1>1. WorkerStep(w) /\ UNCHANGED coordVars
  BY RunJobStep DEF Work
<1>2. PICK n : NextWorker(store', w, n) /\ worker' = [worker EXCEPT ![w] = n]
  BY <1>1 DEF WorkerStep
<1>3. n.pc \notin {"idle", "dead"} /\ n.job = worker[w].job
  BY <1>2 DEF NextWorker
<1>4. \A v \in Workers : Onward(v)
  BY <1>1, <1>2, <1>3 DEF Onward, WorkerStep, Alive, SlotInv, TypeOK
<1>5. \A v \in Workers : Signalled(v)
  BY <1>1 DEF WorkerStep, Signalled
<1>6. \A k \in Cancels : RunTaken(k)
  BY <1>1 DEF coordVars, RunTaken
<1> QED BY <1>1, <1>4, <1>5, <1>6, RunKept DEF WorkerStep, coordVars, LockOnward

\* Before it runs its job a thread boots; after that it ends.
LEMMA BootRun ==
  ASSUME SlotInv, RunInv, NEW w \in Workers, BootWorker(w) \/ BootFails(w)
  PROVE  RunInv'
<1>1. /\ worker[w].pc = "boot"
      /\ UNCHANGED <<store, event, lock, active, cancel>>
  BY DEF BootWorker, BootFails, coordVars
<1>2. PICK n : /\ worker' = [worker EXCEPT ![w] = n]
               /\ n.pc \notin {"idle", "dead"} /\ n.job = worker[w].job
  <2>1. Exit(worker[w]).pc = "exit" /\ Exit(worker[w]).job = worker[w].job
    BY DEF Exit, IdleWorker
  <2>2. [worker[w] EXCEPT !.pc = "load"].pc = "load"
        /\ [worker[w] EXCEPT !.pc = "load"].job = worker[w].job
    BY ThreadFacts DEF WorkerState
  <2>3. \/ worker' = [worker EXCEPT ![w] = Exit(worker[w])]
        \/ worker' = [worker EXCEPT ![w] = [worker[w] EXCEPT !.pc = "load"]]
    BY DEF BootWorker, BootFails
  <2> QED BY <2>1, <2>2, <2>3
<1>3. \A v \in Workers : Onward(v) /\ Signalled(v)
  BY <1>1, <1>2 DEF Onward, Signalled, SlotInv, TypeOK
<1> QED BY <1>1, <1>3, RunKept DEF Rewrites, RunTaken, LockOnward

LEMMA EndRun ==
  ASSUME SlotInv, RunInv, NEW w \in Workers, EndWorker(w)
  PROVE  RunInv'
<1>1. /\ worker[w].pc = "exit" /\ worker' = [worker EXCEPT ![w] = DeadWorker]
      /\ active' = IF RunOf(worker[w].job) THEN NoWorker ELSE active
      /\ UNCHANGED <<store, event, lock, cancel>>
  BY DEF EndWorker
<1>2. DeadWorker.pc = "dead" /\ DeadWorker.job = NoJob
  BY DEF DeadWorker, IdleWorker
<1>3. /\ worker'[w].pc = "dead" /\ worker'[w].job = NoJob
      /\ \A v \in Workers : v # w => worker'[v] = worker[v]
  BY <1>1, <1>2 DEF SlotInv, TypeOK
<1>4. \A v \in Workers : v # w /\ Alive(v) /\ worker[v].job = worker[w].job => FALSE
  BY <1>1 DEF RunInv, OneWorkerPerJob, Alive
<1>5. active \in Workers \cup {NoWorker} /\ (active # NoWorker => Alive(active))
  BY DEF SlotInv, TypeOK, RunInv
\* The run that is cleared is the run of this thread, and no other's.
<1>6. RunOf(worker[w].job) <=> active = w
  BY <1>1, <1>4, <1>5, AliveWorker DEF RunOf
<1>7. \A v \in Workers :
        /\ worker'[v].pc \in {"idle", "dead"} => worker'[v].job = NoJob
        /\ worker'[v].pc \notin {"idle", "dead"} /\ store'[worker'[v].job].status \in Nonterminal
             => active' = v
        /\ lock'.op \in {"start", "spawn"} /\ worker'[v].pc \notin {"idle", "dead"}
             => worker'[v].job # lock'.job
        /\ event'[v] => worker'[v].pc # "idle"
  BY <1>1, <1>3, <1>6 DEF RunInv, Alive, Held
<1>8. active' # NoWorker => worker'[active'].pc \notin {"idle", "dead"}
  BY <1>1, <1>3, <1>5, <1>6 DEF Alive
<1>9. \A k \in Cancels : cancel'[k].run # NoWorker =>
        /\ worker'[cancel'[k].run].pc # "idle"
        /\ worker'[cancel'[k].run].pc \notin {"idle", "dead"} =>
             worker'[cancel'[k].run].job = cancel'[k].job
  BY <1>1, <1>3, CancelFacts DEF RunInv, Alive, CancelState
<1>10. OneWorkerPerJob' /\ SignalMeansRequested'
  BY <1>1, <1>3 DEF RunInv, OneWorkerPerJob, SignalMeansRequested, Alive
<1> QED BY <1>1, <1>7, <1>8, <1>9, <1>10 DEF RunInv, Alive, Held

\* A new thread runs the job of the lock, which had no thread.
LEMMA StartRun ==
  ASSUME SlotInv, RunInv, NEW w \in Workers, StartWorker(w)
  PROVE  RunInv'
<1> DEFINE n == [IdleWorker EXCEPT !.pc = "boot", !.job = lock.job]
<1>1. /\ lock.op = "spawn" /\ worker[w].pc = "idle"
      /\ worker' = [worker EXCEPT ![w] = n] /\ active' = w /\ lock' = Free
      /\ UNCHANGED <<store, event, cancel>>
  BY DEF StartWorker, IdleWorker
<1>2. n.pc = "boot" /\ n.job = lock.job
  BY DEF IdleWorker
<1> HIDE DEF n
<1>3. /\ worker'[w].pc = "boot" /\ worker'[w].job = lock.job
      /\ \A v \in Workers : v # w => worker'[v] = worker[v]
  BY <1>1, <1>2 DEF SlotInv, TypeOK
<1>4. \A v \in Workers : Alive(v) => worker[v].job # lock.job /\ worker[v].job \in Jobs
  BY <1>1, AliveWorker DEF RunInv
\* Any other thread alive is of a job that has left the slot.
<1>5. \A v \in Workers : Alive(v) => ~Held(worker[v].job)
  BY <1>1, <1>4 DEF RunInv
<1>6. \A v \in Workers :
        /\ worker'[v].pc \in {"idle", "dead"} => worker'[v].job = NoJob
        /\ worker'[v].pc \notin {"idle", "dead"} /\ store'[worker'[v].job].status \in Nonterminal
             => active' = v
        /\ event'[v] => worker'[v].pc # "idle"
  BY <1>1, <1>3, <1>5 DEF RunInv, Alive, Held
<1>7. \A k \in Cancels : cancel'[k].run # NoWorker =>
        /\ worker'[cancel'[k].run].pc # "idle"
        /\ worker'[cancel'[k].run].pc \notin {"idle", "dead"} =>
             worker'[cancel'[k].run].job = cancel'[k].job
  BY <1>1, <1>3, CancelFacts DEF RunInv, Alive, CancelState
<1>8. OneWorkerPerJob'
  BY <1>3, <1>4 DEF RunInv, OneWorkerPerJob, Alive
<1>9. SignalMeansRequested'
  BY <1>1, <1>3 DEF RunInv, SignalMeansRequested, Alive
<1> QED BY <1>1, <1>3, <1>6, <1>7, <1>8, <1>9, FreeLock DEF RunInv, Alive, Held

\* The lock is taken for a job that holds the slot and has no thread.
LEMMA StartCheckRun ==
  ASSUME SlotInv, RunInv, NEW j \in Jobs, StartCheck(j)
  PROVE  RunInv'
<1>1. /\ Held(j) /\ \A i \in Jobs \ {j} : ~Held(i)
      /\ ~RunOf(j)
      /\ lock'.op = "start" /\ lock'.job = j
      /\ UNCHANGED <<store, worker, event, active, cancel>>
  BY DEF StartCheck, serviceVars, errorVars
<1>2. \A w \in Workers : Alive(w) => worker[w].job # j
  BY <1>1, AliveWorker DEF RunInv, RunOf
<1> QED BY <1>1, <1>2
        DEF RunInv, OneWorkerPerJob, SignalMeansRequested, Alive, Held

\* A new job has neither a thread nor a signal.
LEMMA CreateRun ==
  ASSUME SlotInv, RunInv, NEW j \in Jobs, CreateJob(j) \/ \E i \in Jobs : RetryCreate(i, j)
  PROVE  RunInv'
<1>1. /\ ~Exists(j) /\ store' = [store EXCEPT ![j] = InitialState]
      /\ UNCHANGED <<worker, event, active, cancel>>
      /\ lock'.op \in {"free", "retry"}
  BY FreeLock DEF CreateJob, RetryCreate, Open, coordVars
<1>2. \A i \in Jobs : i # j => store'[i] = store[i]
  BY <1>1 DEF SlotInv, TypeOK
<1>3. \A w \in Workers : Alive(w) => worker[w].job \in Jobs /\ worker[w].job # j
  BY <1>1, AliveWorker
<1>4. \A w \in Workers :
        Alive(w) /\ store'[worker[w].job].status \in Nonterminal => active = w
  BY <1>2, <1>3 DEF RunInv, Held
<1>5. SignalMeansRequested'
  BY <1>1, <1>2, <1>3 DEF RunInv, SignalMeansRequested, Alive
<1> QED BY <1>1, <1>4, <1>5 DEF RunInv, OneWorkerPerJob, Alive, Held

LEMMA HolderRun ==
  ASSUME SlotInv, RunInv, CleanupOrphans \/ CleanupRaises \/ RetryCommit
  PROVE  RunInv'
<1>1. UNCHANGED <<worker, event, active, cancel>>
  BY DEF CleanupOrphans, CleanupRaises, RetryCommit, serviceVars, errorVars
<1>2. LockOnward
  <2>1. CleanupOrphans => lock.op = "start" /\ lock' = [lock EXCEPT !.op = "spawn"]
    BY DEF CleanupOrphans
  <2>2. [lock EXCEPT !.op = "spawn"].op = "spawn" /\ [lock EXCEPT !.op = "spawn"].job = lock.job
    BY DEF SlotInv, TypeOK, LockState
  <2> QED BY <2>1, <2>2 DEF CleanupRaises, RetryCommit, LockOnward
<1>3. Rewrites
  <2>1. CASE CleanupOrphans \/ CleanupRaises
    BY <2>1 DEF CleanupOrphans, CleanupRaises, serviceVars, errorVars, Rewrites
  <2>2. CASE RetryCommit
    <3> DEFINE j == lock.job
               t == InheritFrom(InitialState, store[lock.parent])
    <3>1. lock.op = "retry" /\ j \in Jobs /\ Exists(j) /\ lock.parent \in Jobs
      BY <2>2 DEF RetryCommit, SlotInv, LockInv
    <3>2. ASSUME store[j].rev = 0 PROVE Writes(store[j], t)
      BY <3>1, <3>2, InheritFromWrites DEF SlotInv, TypeOK, StoreInv
    <3>3. \/ store[j].rev = 0 /\ store' = [store EXCEPT ![j] = t]
          \/ UNCHANGED store
      BY <2>2 DEF RetryCommit
    <3> HIDE DEF t
    <3> QED BY <3>1, <3>2, <3>3 DEF Rewrites, Replaces, Writes
  <2> QED BY <2>1, <2>2
<1> QED BY <1>1, <1>2, <1>3, RunKept DEF Onward, Signalled, RunTaken

LEMMA OutsideRun ==
  ASSUME SlotInv, RunInv,
         \/ Comfy \/ Shutdown \/ Serve \/ UNCHANGED vars
         \/ \E j \in Jobs : RecoverJob(j)
  PROVE  RunInv'
<1>1. UNCHANGED <<worker, event, lock, active, cancel>>
  BY DEF Comfy, ComfyStops, PromptEnds, Shutdown, Serve, RecoverJob, vars, serviceVars, errorVars, coordVars
<1>2. Rewrites
  <2>1. CASE \E j \in Jobs : RecoverJob(j)
    <3>1. PICK j \in Jobs : RecoverJob(j)
      BY <2>1
    <3> DEFINE t == RecoverInterruption(store[j])
    <3>2. Writes(store[j], t) /\ store' = [store EXCEPT ![j] = t] /\ Exists(j)
      BY <3>1, RecoverInterruptionWrites, StoredType
      DEF RecoverJob, SlotInv, StoreInv, Exists, ActiveJob
    <3> HIDE DEF t
    <3> QED BY <3>2 DEF Rewrites, Replaces, Writes
  <2>2. CASE Comfy \/ Shutdown \/ Serve \/ UNCHANGED vars
    BY <2>2 DEF Comfy, ComfyStops, PromptEnds, Shutdown, Serve, vars, serviceVars, errorVars, Rewrites
  <2> QED BY <2>1, <2>2
<1> QED BY <1>1, <1>2, RunKept DEF Onward, Signalled, RunTaken, LockOnward

\* Threads, calls, signals and the active run die with the process.
LEMMA DeathRun ==
  ASSUME SlotInv, RunInv, ProcessDies
  PROVE  RunInv'
<1>1. \A w \in Workers : worker'[w].pc \in {"idle", "dead"} /\ worker'[w].job = NoJob
  BY DEF ProcessDies, IdleWorker, DeadWorker
<1>2. \A k \in Cancels : cancel'[k].run = NoWorker
  BY DEF ProcessDies, IdleCancel, Returned
<1>3. active' = NoWorker /\ lock'.op = "free" /\ \A w \in Workers : ~event'[w]
  BY FreeLock DEF ProcessDies
<1> QED BY <1>1, <1>2, <1>3
        DEF RunInv, OneWorkerPerJob, SignalMeansRequested, Alive

\* The next state of a call, as far as the runs go.
CallGoes(k, n) ==
  /\ cancel' = [cancel EXCEPT ![k] = n]
  /\ \/ n.run = NoWorker
     \/ n.run = cancel[k].run /\ n.job = cancel[k].job
     \/ RunOf(n.job) /\ n.run = active

LEMMA CallGoesTaken ==
  ASSUME SlotInv, NEW k \in Cancels, NEW n, CallGoes(k, n)
  PROVE  \A i \in Cancels : RunTaken(i)
BY DEF CallGoes, RunTaken, SlotInv, TypeOK

LEMMA SignalMeant ==
  ASSUME SlotInv, NEW run \in Workers \cup {NoWorker}, event' = Signal(run),
         run # NoWorker => /\ worker[run].pc # "idle"
                           /\ Alive(run) => store[worker[run].job].cancel
  PROVE  \A w \in Workers : Signalled(w)
BY DEF Signal, Signalled, SlotInv, TypeOK

LEMMA CallRuns ==
  ASSUME SlotInv, RunInv, NEW k \in Cancels, Cancel(k) \/ \E j \in Jobs : BeginCancel(k, j)
  PROVE  (\A i \in Cancels : RunTaken(i)) /\ \A w \in Workers : Signalled(w)
<1> DEFINE me == cancel[k]
<1>1. me \in CancelState /\ CancelInv(store, me)
  BY CancelFacts
<1>2. /\ \A s : Requested(me, s).run = me.run /\ Requested(me, s).job = me.job
      /\ Returned.run = NoWorker
      /\ Confirming(me).run = me.run /\ Confirming(me).job = me.job
      /\ Failing(me).run = me.run /\ Failing(me).job = me.job
  BY <1>1 DEF Requested, Returned, IdleCancel, Confirming, Failing, CancelState
<1>3. (event' = event) => \A w \in Workers : Signalled(w)
  BY DEF Signalled
<1>4. ASSUME NEW new, NEW ok, NEW conflict, NEW raised,
             CancelCommit(k, new, ok, conflict, raised),
             ok.run = NoWorker \/ (ok.run = me.run /\ ok.job = me.job),
             conflict.run = NoWorker \/ (conflict.run = me.run /\ conflict.job = me.job),
             raised.run = NoWorker \/ (raised.run = me.run /\ raised.job = me.job)
      PROVE  (\A i \in Cancels : RunTaken(i)) /\ \A w \in Workers : Signalled(w)
  BY <1>3, <1>4, CallGoesTaken DEF CancelCommit, CancelStep, CallGoes
<1>5. ASSUME NEW n, CancelGoes(k, n), CallGoes(k, n)
      PROVE  (\A i \in Cancels : RunTaken(i)) /\ \A w \in Workers : Signalled(w)
  BY <1>3, <1>5, CallGoesTaken DEF CancelGoes, serviceVars, errorVars
<1>6. CASE \E j \in Jobs : BeginCancel(k, j)
  <2>1. PICK j \in Jobs : BeginCancel(k, j)
    BY <1>6
  <2> DEFINE n == Requested([IdleCancel EXCEPT !.job = j], store[j])
  <2>2. CancelGoes(k, n)
    BY <2>1 DEF BeginCancel
  <2>3. n.run = NoWorker
    BY DEF Requested, IdleCancel
  <2> HIDE DEF n
  <2> QED BY <1>5, <2>2, <2>3 DEF CancelGoes, CancelStep, CallGoes
<1>7. CASE CommitRequest(k)
  <2> DEFINE new == RequestCancel(me.loaded)
             ok == [me EXCEPT !.pc = "look", !.loaded = new, !.attempt = 0]
             s == store[me.job]
             again == Requested([me EXCEPT !.attempt = me.attempt + 1], s)
             conflict == IF me.attempt = 2 \/ s.status \in TerminalJob THEN Returned ELSE again
  <2>1. CancelCommit(k, new, ok, conflict, Returned)
    BY <1>7 DEF CommitRequest
  <2>2. ok.run = me.run /\ ok.job = me.job /\ again.run = me.run /\ again.job = me.job
    BY <1>1 DEF CancelState, Requested
  <2> HIDE DEF new, ok, again
  <2>3. conflict.run = NoWorker \/ (conflict.run = me.run /\ conflict.job = me.job)
    BY <1>2, <2>2
  <2> HIDE DEF conflict
  <2> QED BY <1>2, <1>4, <2>1, <2>2, <2>3
<1>8. CASE LookAtRun(k)
  <2> DEFINE mine == RunOf(me.job)
             run  == IF mine THEN active ELSE NoWorker
             seen == [me EXCEPT !.run = run, !.client = mine /\ client, !.loaded = AbsentState]
  <2>1. /\ Confirming(seen).run = run /\ Confirming(seen).job = me.job
        /\ \A b : /\ [seen EXCEPT !.pc = "interrupt", !.prompt = b].run = run
                  /\ [seen EXCEPT !.pc = "interrupt", !.prompt = b].job = me.job
    BY <1>1 DEF Confirming, CancelState
  <2>2. \/ event' = Signal(run) /\ CancelStep(k, Confirming(seen))
        \/ \E b : CancelGoes(k, [seen EXCEPT !.pc = "interrupt", !.prompt = b])
    BY <1>8 DEF LookAtRun
  <2>3. run = NoWorker \/ (RunOf(me.job) /\ run = active)
    OBVIOUS
  <2>4. PICK n : CallGoes(k, n)
    <3>1. \E n : /\ cancel' = [cancel EXCEPT ![k] = n]
                /\ n.run = run /\ n.job = me.job
      <4> HIDE DEF run
      <4>1. CASE CancelStep(k, Confirming(seen))
        BY <2>1, <4>1 DEF CancelStep
      <4>2. ASSUME NEW b, CancelGoes(k, [seen EXCEPT !.pc = "interrupt", !.prompt = b])
            PROVE  cancel' = [cancel EXCEPT ![k] = [seen EXCEPT !.pc = "interrupt", !.prompt = b]]
        BY <4>2 DEF CancelGoes, CancelStep
      <4> HIDE DEF seen
      <4> QED BY <2>1, <2>2, <4>1, <4>2
    <3> QED BY <2>3, <3>1 DEF CallGoes
  <2>5. CASE event' = Signal(run)
    <3>1. run \in Workers \cup {NoWorker}
      BY DEF SlotInv, TypeOK
    <3>2. me.pc = "look" /\ store[me.job].cancel
      BY <1>1, <1>8 DEF LookAtRun, CancelInv
    <3>3. run # NoWorker => worker[run].pc # "idle" /\ worker[run].job = me.job
      BY DEF RunOf, RunInv, Alive
    <3> HIDE DEF run
    <3>4. \A w \in Workers : Signalled(w)
      BY <2>5, <3>1, <3>2, <3>3, SignalMeant
    <3> QED BY <2>4, <3>4, CallGoesTaken
  <2>6. CASE event' = event
    BY <1>3, <2>4, <2>6, CallGoesTaken
  <2> QED BY <2>2, <2>5, <2>6 DEF CancelGoes, serviceVars, errorVars
<1>9. CASE SeeClear(k)
  <2>1. /\ me.pc \in {"wait", "waitStopped"} /\ event' = Signal(me.run)
        /\ cancel' = [cancel EXCEPT ![k] = Confirming(me)]
    BY <1>9 DEF SeeClear, CancelStep
  <2>2. me.run \in Workers \cup {NoWorker} /\ store[me.job].cancel
    BY <1>1, <2>1 DEF CancelState, CancelInv
  <2>3. me.run # NoWorker =>
          worker[me.run].pc # "idle" /\ (Alive(me.run) => worker[me.run].job = me.job)
    BY DEF RunInv
  <2>4. \A w \in Workers : Signalled(w)
    BY <2>1, <2>2, <2>3, SignalMeant
  <2> QED BY <1>2, <2>1, <2>4, CallGoesTaken DEF CallGoes
<1>10. CASE Interrupt(k) \/ StopComfyUI(k)
  <2>1. \A pc : [me EXCEPT !.pc = pc].run = me.run /\ [me EXCEPT !.pc = pc].job = me.job
    BY <1>1 DEF CancelState
  <2>2. \E pc : cancel' = [cancel EXCEPT ![k] = [me EXCEPT !.pc = pc]]
    BY <1>10 DEF Interrupt, StopComfyUI, CancelStep
  <2>3. PICK n : CallGoes(k, n)
    BY <2>1, <2>2 DEF CallGoes
  <2>4. event' = event
    BY <1>10 DEF Interrupt, StopComfyUI
  <2> QED BY <1>3, <2>3, <2>4, CallGoesTaken
<1>11. CASE WaitTimesOut(k) \/ CancelRaises(k) \/ ReloadForConfirm(k) \/ ReloadForFailure(k)
  <2>1. \A pc, s : /\ [me EXCEPT !.pc = pc].run = me.run /\ [me EXCEPT !.pc = pc].job = me.job
                   /\ [me EXCEPT !.pc = pc, !.loaded = s].run = me.run
                   /\ [me EXCEPT !.pc = pc, !.loaded = s].job = me.job
    BY <1>1 DEF CancelState
  <2>2. PICK n : /\ CancelGoes(k, n)
                 /\ n.run = NoWorker \/ (n.run = me.run /\ n.job = me.job)
    <3>1. CASE WaitTimesOut(k)
      BY <1>2, <2>1, <3>1 DEF WaitTimesOut
    <3>2. CASE CancelRaises(k)
      BY <1>2, <3>2 DEF CancelRaises
    <3>3. CASE ReloadForConfirm(k)
      <4> DEFINE s == store[me.job]
                 n == [me EXCEPT !.pc = "confirm", !.loaded = s]
      <4>1. CancelGoes(k, IF s.status = "canceled" THEN Returned ELSE n)
        BY <3>3 DEF ReloadForConfirm
      <4>2. n.run = me.run /\ n.job = me.job
        BY <2>1
      <4> HIDE DEF n
      <4> QED BY <1>2, <4>1, <4>2
    <3>4. CASE ReloadForFailure(k)
      <4> DEFINE n == [me EXCEPT !.pc = "persistFailed", !.loaded = store[me.job]]
      <4>1. CancelGoes(k, n)
        BY <3>4 DEF ReloadForFailure
      <4>2. n.run = me.run /\ n.job = me.job
        BY <2>1
      <4> HIDE DEF n
      <4> QED BY <4>1, <4>2
    <3> QED BY <1>11, <3>1, <3>2, <3>3, <3>4
  <2> QED BY <1>5, <2>2 DEF CancelGoes, CancelStep, CallGoes
<1>12. CASE CommitConfirm(k)
  <2> DEFINE again == [me EXCEPT !.pc = "reload", !.attempt = me.attempt + 1,
                                 !.loaded = AbsentState]
             conflict == IF me.attempt = 2 THEN Failing(me) ELSE again
  <2>1. CancelCommit(k, ConfirmCanceled(me.loaded), Returned, conflict,
                     Failing(me))
    BY <1>12 DEF CommitConfirm
  <2>2. again.run = me.run /\ again.job = me.job
    BY <1>1 DEF CancelState
  <2> HIDE DEF again
  <2>3. conflict.run = NoWorker \/ (conflict.run = me.run /\ conflict.job = me.job)
    BY <1>2, <2>2
  <2> HIDE DEF conflict
  <2> QED BY <1>2, <1>4, <2>1, <2>3
<1>13. CASE CommitFailure(k)
  <2>1. CancelCommit(k, FailGeneration(me.loaded, "unconfirmed"),
                     Returned, Returned, Returned)
    BY <1>13 DEF CommitFailure
  <2> QED BY <1>2, <1>4, <2>1
<1>14. CASE ConfirmUnloaded(k) \/ FailureUnloaded(k)
  <2>1. /\ event' = event
        /\ \/ cancel' = [cancel EXCEPT ![k] = Failing(me)]
           \/ cancel' = [cancel EXCEPT ![k] = Returned]
    BY <1>14 DEF ConfirmUnloaded, FailureUnloaded, CancelStep
  <2> QED BY <1>2, <1>3, <2>1, CallGoesTaken DEF CallGoes
<1> QED BY <1>6, <1>7, <1>8, <1>9, <1>10, <1>11, <1>12, <1>13, <1>14 DEF Cancel

LEMMA CancelRun ==
  ASSUME SlotInv, RunInv, NEW k \in Cancels, Cancel(k) \/ \E j \in Jobs : BeginCancel(k, j)
  PROVE  RunInv'
<1>1. Rewrites /\ UNCHANGED <<worker, lock, active>>
  BY CancelStepIsMove DEF CancelMove
<1> QED BY <1>1, CallRuns, RunKept DEF Onward, LockOnward

LEMMA RunStep ==
  ASSUME SlotInv, RunInv, [Next]_vars
  PROVE  RunInv'
<1>1. ASSUME NEW j \in Jobs, StartCheck(j) PROVE RunInv'
  BY <1>1, StartCheckRun
<1>2. ASSUME NEW j \in Jobs, CreateJob(j) \/ \E i \in Jobs : RetryCreate(i, j) PROVE RunInv'
  BY <1>2, CreateRun
<1>3. CASE Holder
  BY <1>3, HolderRun, StartRun DEF Holder
<1>4. ASSUME NEW w \in Workers, Thread(w) PROVE RunInv'
  BY <1>4, RunJobRun, BootRun, EndRun DEF Thread
<1>5. ASSUME NEW k \in Cancels, Cancel(k) \/ \E j \in Jobs : BeginCancel(k, j) PROVE RunInv'
  BY <1>5, CancelRun
<1>6. CASE \/ Comfy \/ Shutdown \/ Serve \/ UNCHANGED vars
           \/ \E j \in Jobs : RecoverJob(j)
  BY <1>6, OutsideRun
<1>7. CASE ProcessDies
  BY <1>7, DeathRun
<1> QED BY <1>1, <1>2, <1>3, <1>4, <1>5, <1>6, <1>7 DEF Next

LEMMA InitRunInv == Init => RunInv
<1> SUFFICES ASSUME Init PROVE RunInv
  OBVIOUS
<1>1. \A w \in Workers : worker[w].pc = "idle" /\ worker[w].job = NoJob /\ ~event[w]
  BY DEF Init, IdleWorker
<1>2. \A k \in Cancels : cancel[k].run = NoWorker
  BY DEF Init, IdleCancel
<1>3. lock.op = "free" /\ active = NoWorker
  BY FreeLock DEF Init
<1> QED BY <1>1, <1>2, <1>3
        DEF RunInv, OneWorkerPerJob, SignalMeansRequested, Alive

----------------------------------------------------------------------------
(***************************************************************************)
(* Active jobs and orphan prompts.  Whoever writes a job beside its thread *)
(* leaves it closed, queued or with the cancel requested, and nobody but   *)
(* the recovery, when there are no threads and no calls, makes a record    *)
(* interrupted.  DutyInv and OrphanInv are inductive on top of both        *)
(* invariants above.                                                       *)
(***************************************************************************)

\* What the transitions of a thread and of a cancel leave of the status.
LEMMA Outcomes ==
  ASSUME NEW s \in JobState, NEW b \in Batches, NEW c \in Candidates
  PROVE  /\ StartGeneration(s).status = "generating"
         /\ StartBatch(s, b).status = s.status /\ StartBatch(s, b).failure = s.failure
         /\ RecordPrompt(s, b).status = s.status /\ RecordPrompt(s, b).failure = s.failure
         /\ RecordProgress(s, b).status = s.status /\ RecordProgress(s, b).failure = s.failure
         /\ MarkRawReady(s, b).status = "postprocessing"
         /\ CompleteCandidate(s, c).status = s.status
         /\ CompleteCandidate(s, c).failure = s.failure
         /\ CompleteGeneration(s).status = "completed"
         /\ FailGeneration(s, "execution").status = "failed"
         /\ FailGeneration(s, "execution").failure = "execution"
         /\ FailGeneration(s, "unconfirmed").failure = "unconfirmed"
         /\ ConfirmCanceled(s).status = "canceled"
         /\ RequestCancel(s).status = s.status /\ RequestCancel(s).failure = s.failure
         /\ RequestCancel(s).cancel
<1>1. /\ StartGeneration(s).status = "generating"
      /\ StartBatch(s, b).status = s.status /\ StartBatch(s, b).failure = s.failure
      /\ RecordPrompt(s, b).status = s.status /\ RecordPrompt(s, b).failure = s.failure
      /\ RecordProgress(s, b).status = s.status /\ RecordProgress(s, b).failure = s.failure
      /\ MarkRawReady(s, b).status = "postprocessing"
  BY DEF StartGeneration, StartBatch, RecordPrompt, RecordProgress, MarkRawReady, JobState
<1>2. CompleteCandidate(s, c).status = s.status /\ CompleteCandidate(s, c).failure = s.failure
  <2> DEFINE r == [s EXCEPT !.rev = @ + 1, !.cand[c] = "completed"]
             t == [r EXCEPT !.batch[BatchOf(c)] = "completed", !.prompt[BatchOf(c)] = FALSE]
  <2>1. r.status = s.status /\ r.failure = s.failure
    BY DEF JobState
  <2>2. t.status = s.status /\ t.failure = s.failure
    BY DEF JobState
  <2>3. CompleteCandidate(s, c) = r \/ CompleteCandidate(s, c) = t
    BY DEF CompleteCandidate
  <2> HIDE DEF r, t
  <2> QED BY <2>1, <2>2, <2>3
<1>3. CompleteGeneration(s).status = "completed" /\ ConfirmCanceled(s).status = "canceled"
  BY DEF CompleteGeneration, ConfirmCanceled, JobState
<1>4. /\ FailGeneration(s, "execution").status = "failed"
      /\ FailGeneration(s, "execution").failure = "execution"
      /\ FailGeneration(s, "unconfirmed").failure = "unconfirmed"
  BY DEF FailGeneration, StaysOpen, JobState
<1>5. /\ RequestCancel(s).status = s.status /\ RequestCancel(s).failure = s.failure
      /\ RequestCancel(s).cancel
  BY DEF RequestCancel, JobState
<1> QED BY <1>1, <1>2, <1>3, <1>4, <1>5

\* n is a state thread w may go to and still know whether its job needs it,
\* unless its job is one a storage error has left open.
Justified(st, w, n) ==
  /\ n.job = worker[w].job
  /\ n.pc \notin {"boot", "load"}
  /\ n.pc = "exit" => shutdown \/ Unattended(st[n.job]) \/ n.job \in unrecorded
  /\ n.pc # "exit" =>
       st[n.job].rev = n.loaded.rev \/ Unattended(st[n.job]) \/ n.job \in unrecorded

\* What a step of run_job does beside moving its thread.
Attends(w) ==
  /\ \A i \in Jobs : store'[i] # store[i] =>
       i = worker[w].job /\ ~Interrupted(store'[i])
  /\ worker[w].job \in unrecorded' \/ WorkerDuty(store', shutdown, worker'[w])
  /\ \A p \in Jobs \X Batches :
       prompts'[p] = "live" => prompts[p] = "live" \/ p[1] = worker[w].job

LEMMA ContinueAttends ==
  ASSUME SlotInv, NEW w \in Workers, NEW n, Justified(store, w, n), Continue(w, n)
  PROVE  Attends(w)
<1>1. worker'[w] = n /\ UNCHANGED <<store, prompts, unrecorded>>
  BY DEF Continue, SlotInv, TypeOK, errorVars
<1> QED BY <1>1 DEF Attends, WorkerDuty, Justified

\* A record that is not marked as left open needs nobody.
LEMMA LeftOpenAttends ==
  ASSUME NEW j, LeftOpen(j)
  PROVE  j \in unrecorded' \/ Unattended(store'[j])
BY DEF LeftOpen, Unattended, Nonterminal, ActiveJob

\* A storage error that wrote nothing sends the thread to the handler with its
\* snapshot; any other leaves a record that is closed, or marked.
LEMMA ErrorAttends ==
  ASSUME SlotInv, DutyInv, OrphanInv, NEW w \in Workers,
         worker[w].pc \in (Holding \ {"reload"}) \cup {"start", "progress", "cancel"},
         NEW from \in JobState, SnapshotOf(store, worker[w].job, from), NEW new,
         store[worker[w].job] = from /\ ~Interrupted(from) => ~Interrupted(new),
         StorageError(worker[w].job, from, new, worker[w].pc \in {"fail", "cancel"}),
         worker' = [worker EXCEPT ![w] = Raised(worker[w])], prompts' = prompts
  PROVE  Attends(w)
<1> DEFINE me == worker[w]
           j  == me.job
           n  == Raised(me)
<1>1. /\ j \in Jobs /\ ~Interrupted(store[j]) /\ worker'[w] = n /\ me \in WorkerState
      /\ unrecorded \subseteq unrecorded'
  BY ThreadFacts DEF OrphanInv, SlotInv, TypeOK, StorageError, LeftOpen
<1>2. /\ n.pc = IF me.pc \in {"fail", "cancel"} THEN "exit" ELSE "fail"
      /\ n.pc = "fail" => n.job = j /\ n.loaded = me.loaded
      /\ n.job = j
  <2>1. Exit(me).pc = "exit" /\ Exit(me).job = j
    BY DEF Exit, IdleWorker
  <2>2. /\ [me EXCEPT !.pc = "fail", !.fresh = AbsentState].pc = "fail"
        /\ [me EXCEPT !.pc = "fail", !.fresh = AbsentState].job = j
        /\ [me EXCEPT !.pc = "fail", !.fresh = AbsentState].loaded = me.loaded
    BY <1>1 DEF WorkerState
  <2>3. me.pc \notin {"load", "reload"}
    BY DEF Holding
  <2> QED BY <2>1, <2>2, <2>3 DEF Raised
<1> HIDE DEF n
<1>3. \A i \in Jobs : store'[i] # store[i] => i = j /\ ~Interrupted(store'[i])
  <2>1. CASE store[j].rev = from.rev /\ store' = [store EXCEPT ![j] = new]
    <3>1. ~Interrupted(new)
      BY <1>1, <2>1 DEF SnapshotOf
    <3>2. \A i \in Jobs : store'[i] = IF i = j THEN new ELSE store[i]
      BY <2>1 DEF SlotInv, TypeOK
    <3> QED BY <3>1, <3>2
  <2> QED BY <2>1 DEF StorageError
<1>4. j \in unrecorded' \/ WorkerDuty(store', shutdown, n)
  <2>1. CASE LeftOpen(j)
    <3>1. j \in unrecorded' \/ Unattended(store'[j])
      BY <2>1, LeftOpenAttends
    <3> QED BY <1>2, <3>1 DEF WorkerDuty
  <2>2. CASE store' = store /\ me.pc \notin {"fail", "cancel"}
    <3>1. j \in unrecorded \/ store[j].rev = me.loaded.rev \/ Unattended(store[j])
      BY DEF DutyInv, WorkerDuty, Holding
    <3> QED BY <1>1, <1>2, <2>2, <3>1 DEF WorkerDuty
  <2> QED BY <2>1, <2>2 DEF StorageError
<1> QED BY <1>1, <1>3, <1>4 DEF Attends

LEMMA CommitAttends ==
  ASSUME SlotInv, DutyInv, OrphanInv, NEW w \in Workers,
         worker[w].pc \in (Holding \ {"reload"}) \cup {"start", "progress", "cancel"},
         NEW from \in JobState,
         SnapshotOf(store, worker[w].job, from), NEW new, NEW ok, NEW conflict,
         store[worker[w].job] = from /\ ~Interrupted(from) =>
           ~Interrupted(new) /\ Justified([store EXCEPT ![worker[w].job] = new], w, ok),
         store[worker[w].job].rev # from.rev => Justified(store, w, conflict),
         Commit(w, from, new, ok, conflict)
  PROVE  Attends(w)
<1> DEFINE j == worker[w].job
<1>1. j \in Jobs /\ ~Interrupted(store[j]) /\ prompts' = prompts
      /\ \A n : worker' = [worker EXCEPT ![w] = n] => worker'[w] = n
  BY ThreadFacts DEF OrphanInv, Commit, SlotInv, TypeOK
<1>2. CASE /\ store[j].rev = from.rev /\ UNCHANGED errorVars
           /\ store' = [store EXCEPT ![j] = new]
           /\ worker' = [worker EXCEPT ![w] = ok]
  <2>1. store[j] = from
    BY <1>2 DEF SnapshotOf
  <2>2. worker'[w] = ok /\ unrecorded' = unrecorded
    BY <1>1, <1>2 DEF errorVars
  <2>3. ~Interrupted(new) /\ Justified(store', w, ok)
    BY <1>1, <1>2, <2>1
  <2>4. \A i \in Jobs : store'[i] = IF i = j THEN new ELSE store[i]
    BY <1>2 DEF SlotInv, TypeOK
  <2> QED BY <1>1, <2>2, <2>3, <2>4 DEF Attends, WorkerDuty, Justified
<1>3. CASE /\ store[j].rev # from.rev /\ UNCHANGED <<store, errorVars>>
           /\ worker' = [worker EXCEPT ![w] = conflict]
  <2>1. store' = store /\ worker'[w] = conflict /\ unrecorded' = unrecorded
    BY <1>1, <1>3 DEF errorVars
  <2> QED BY <1>1, <1>3, <2>1 DEF Attends, WorkerDuty, Justified
<1>4. CASE /\ StorageError(j, from, new, worker[w].pc \in {"fail", "cancel"})
           /\ worker' = [worker EXCEPT ![w] = Raised(worker[w])]
  BY <1>1, <1>4, ErrorAttends
<1> QED BY <1>2, <1>3, <1>4 DEF Commit

\* A thread keeps a snapshot as long as it may be the stored record; it may end
\* when its job is closed, or somebody has asked for the cancel.
LEMMA FollowsJustified ==
  ASSUME SlotInv, DutyInv, NEW w \in Workers,
         worker[w].pc \in Holding \cup {"start", "progress", "cancel"},
         NEW n, n.job = worker[w].job, n.pc \notin {"boot", "load"},
         n.pc = "exit" \/ n.loaded = worker[w].loaded,
         n.pc = "exit" =>
           shutdown \/ worker[w].loaded.status \in TerminalJob \/ Unattended(store[n.job])
  PROVE  Justified(store, w, n)
<1>1. SnapshotOf(store, worker[w].job, worker[w].loaded)
  BY ThreadFacts
<1>2. \/ store[worker[w].job].rev = worker[w].loaded.rev
      \/ Unattended(store[worker[w].job]) \/ worker[w].job \in unrecorded
  BY DEF DutyInv, WorkerDuty, Holding
<1>3. worker[w].loaded.status \in TerminalJob =>
        Unattended(store[worker[w].job]) \/ worker[w].job \in unrecorded
  BY <1>1, <1>2 DEF SnapshotOf, Unattended, TerminalJob, ActiveJob
<1> QED BY <1>2, <1>3 DEF Justified

LEMMA AdvanceAttends ==
  ASSUME SlotInv, DutyInv, OrphanInv, NEW w \in Workers,
         worker[w].pc \in (Holding \ {"reload"}) \cup {"start", "cancel"}, NEW new, NEW next,
         store[worker[w].job] = worker[w].loaded =>
           /\ next \in WorkerState /\ next.job = worker[w].job
           /\ next.pc \in Holding \cup {"exit"}
           /\ ~Interrupted(worker[w].loaded) => ~Interrupted(new)
           /\ next.pc = "exit" => Unattended(new),
         Advance(w, new, next)
  PROVE  Attends(w)
<1> DEFINE me == worker[w]
           ok == [next EXCEPT !.loaded = new]
<1>1. /\ me \in WorkerState /\ me.loaded \in JobState /\ Alive(w)
      /\ me.job \in Jobs /\ SnapshotOf(store, me.job, me.loaded)
  BY ThreadFacts
<1>2. ASSUME store[me.job] = me.loaded
      PROVE  Justified([store EXCEPT ![me.job] = new], w, ok)
  <2>1. ok.job = me.job /\ ok.pc = next.pc /\ ok.loaded = new
    BY <1>2 DEF WorkerState
  <2>2. [store EXCEPT ![me.job] = new][me.job] = new
    BY <1>1 DEF SlotInv, TypeOK
  <2> HIDE DEF ok
  <2> QED BY <1>2, <2>1, <2>2 DEF Justified, Holding
<1>3. Justified(store, w, Goto(me, "fail"))
  <2>1. Goto(me, "fail").job = me.job /\ Goto(me, "fail").pc = "fail"
        /\ Goto(me, "fail").loaded = me.loaded
    BY <1>1 DEF Goto, WorkerState
  <2> QED BY <2>1, FollowsJustified
<1>4. Commit(w, me.loaded, new, ok, Goto(me, "fail"))
  BY DEF Advance
<1> HIDE DEF ok
<1> QED BY <1>1, <1>2, <1>3, <1>4, CommitAttends

\* The loops end only at a snapshot that is closed.
LEMMA LoopsEnd ==
  ASSUME NEW me \in WorkerState
  PROVE  /\ AfterBatch(me).pc = "exit" => me.loaded.status \in {"failed", "canceled"}
         /\ AfterCandidate(me).pc = "exit" => me.loaded.status \in {"failed", "canceled"}
         /\ FirstCandidate(me).pc = "check"
<1>1. \A x, t : Check([me EXCEPT !.batch = x], t).pc = "check"
                /\ Check([me EXCEPT !.place = x], t).pc = "check"
  BY DEF Check, WorkerState
<1>2. Goto(me, "finish").pc = "finish"
  BY DEF Goto, WorkerState
<1>3. AfterBatch(me).pc = "exit" => me.loaded.status \in {"failed", "canceled"}
  BY <1>1, <1>2 DEF AfterBatch
<1> QED BY <1>1, <1>3 DEF AfterCandidate, FirstCandidate

\* A progress commit goes on with the snapshot, or with the stored record.
LEMMA LoadForProgressAttends ==
  ASSUME SlotInv, DutyInv, NEW w \in Workers, worker[w].pc \in Holding,
         NEW me \in WorkerState, me.job = worker[w].job, me.loaded = worker[w].loaded,
         NEW then \in {"wait", "raw"}, LoadForProgress(w, me, then)
  PROVE  Attends(w)
<1> DEFINE s == store[me.job]
           m == [me EXCEPT !.pc = "progress", !.fresh = s, !.then = then]
           n == [me EXCEPT !.pc = then, !.loaded = s]
<1>1. /\ m.job = me.job /\ m.pc = "progress" /\ m.loaded = worker[w].loaded
      /\ n.job = me.job /\ n.pc = then /\ n.loaded = s
  BY DEF WorkerState
<1> HIDE DEF m, n
<1>2. Justified(store, w, m)
  BY <1>1, FollowsJustified
<1>3. Justified(store, w, n)
  BY <1>1 DEF Justified
<1> QED BY <1>2, <1>3, ContinueAttends DEF LoadForProgress, m, n

\* Every step of run_job leaves its job with a thread that knows its record, or
\* with a record that needs none.
LEMMA RunJobAttends ==
  ASSUME SlotInv, DutyInv, OrphanInv, NEW w \in Workers, RunJob(w) \/ ExternalError(w)
  PROVE  Attends(w)
<1> DEFINE me == worker[w]
           j  == me.job
<1>1. /\ me \in WorkerState /\ me.loaded \in JobState /\ me.fresh \in JobState
      /\ me.batch \in Batches /\ WorkerInv(store, me)
      /\ Cand(me) \in Candidates /\ me.then \in {"batch", "candidate", "wait", "raw"}
  BY ThreadFacts, CandInCandidates DEF WorkerState
<1>2. me.pc \in Holding \cup {"start", "progress", "cancel"} =>
        /\ Alive(w) /\ SnapshotOf(store, j, me.loaded)
        /\ j \in Jobs /\ Exists(j)
  BY ThreadFacts
<1>3. {"batch", "submit", "record", "wait", "flush", "raw", "candidate", "finish",
        "fail", "reload", "check"} \subseteq Holding
      /\ "boot" \notin Holding /\ "load" \notin Holding /\ "exit" \notin Holding
  BY DEF Holding, WorkerPc
<1>4. /\ Exit(me).pc = "exit" /\ Exit(me).job = j
      /\ \A pc : Goto(me, pc).pc = pc /\ Goto(me, pc).job = j /\ Goto(me, pc).loaded = me.loaded
      /\ \A pc \in Holding : Follows(me, Goto(me, pc))
      /\ Follows(me, Exit(me)) /\ Follows(me, Check(me, "batch"))
      /\ Follows(me, FirstCandidate(me))
      /\ Follows(me, AfterBatch(me)) /\ Follows(me, AfterCandidate(me))
  BY <1>1, GotoFollows, ExitFollows, CheckFollows, FirstCandidateFollows,
     AfterBatchFollows, AfterCandidateFollows DEF Exit, IdleWorker, Goto, WorkerState
\* A step to a state that follows me, from one that holds a snapshot.
<1>5. ASSUME NEW n, Follows(me, n), Continue(w, n),
             me.pc \in Holding \cup {"start", "progress", "cancel"},
             n.pc = "exit" =>
               shutdown \/ me.loaded.status \in TerminalJob \/ Unattended(store[j])
      PROVE  Attends(w)
  <2>1. Justified(store, w, n)
    BY <1>3, <1>5, FollowsJustified DEF Follows
  <2> QED BY <1>5, <2>1, ContinueAttends
<1>6. ASSUME NEW pc \in Holding, Continue(w, Goto(me, pc)),
             me.pc \in Holding \cup {"start", "progress", "cancel"}
      PROVE  Attends(w)
  BY <1>3, <1>4, <1>5, <1>6
<1>7. {"failed", "canceled"} \subseteq TerminalJob
  BY DEF TerminalJob
<1>8. CASE CheckShutdown(w)
  BY <1>3, <1>4, <1>5, <1>8 DEF CheckShutdown
<1>9. CASE CheckPass(w)
  BY <1>1, <1>3, <1>6, <1>9 DEF CheckPass
<1>10. CASE SkipBatch(w)
  BY <1>1, <1>3, <1>4, <1>5, <1>7, <1>10, LoopsEnd DEF SkipBatch
<1>11. CASE ResumeRawBatch(w)
  BY <1>1, <1>3, <1>4, <1>5, <1>11, LoopsEnd DEF ResumeRawBatch
<1>12. CASE ExternalError(w)
  BY <1>3, <1>6, <1>12 DEF ExternalError
<1>13. CASE WaitComplete(w)
  BY <1>3, <1>6, <1>13 DEF WaitComplete
<1>14. CASE SkipCandidate(w)
  BY <1>1, <1>3, <1>4, <1>5, <1>7, <1>14, LoopsEnd DEF SkipCandidate
<1>15. CASE LoadJob(w) \/ LoadRaises(w)
  <2> DEFINE s == store[j]
             begin == [me EXCEPT !.pc = "start", !.loaded = s]
             check == Check([me EXCEPT !.loaded = s], "batch")
  <2>1. /\ begin.pc = "start" /\ begin.job = j /\ begin.loaded = s
        /\ check.pc = "check" /\ check.job = j /\ check.loaded = s
    BY <1>1 DEF Check, WorkerState
  <2> HIDE DEF begin, check
  <2>2. Justified(store, w, begin) /\ Justified(store, w, check)
    BY <2>1 DEF Justified
  <2>3. Justified(store, w, Exit(me))
    BY <1>4, <1>15 DEF LoadJob, LoadRaises, Justified, DutyInv, WorkerDuty
  <2>4. CASE LoadRaises(w)
    BY <2>3, <2>4, ContinueAttends DEF LoadRaises, Raised
  <2> QED BY <1>15, <2>2, <2>3, <2>4, ContinueAttends DEF LoadJob, begin, check
\* The snapshot of a commit that succeeds is a record the validators accept.
<1>16. me.pc \in Holding \cup {"start", "cancel"} /\ store[j] = me.loaded =>
         Consistent(me.loaded) /\ me.loaded.status # "absent"
  BY <1>2 DEF SlotInv, StoreInv, Exists
\* A commit of a successor of the snapshot, on the way to a state that follows.
<1>17. ASSUME NEW new, NEW n, Follows(me, n), Advance(w, new, n),
              me.pc \in (Holding \ {"reload"}) \cup {"start", "cancel"},
              ~Interrupted(me.loaded) => ~Interrupted(new),
              n.pc = "exit" => Unattended(new)
       PROVE  Attends(w)
  BY <1>17, AdvanceAttends DEF Follows
<1>18. CASE BeginJob(w)
  <2>1. ~Interrupted(StartGeneration(me.loaded))
    BY <1>1, Outcomes DEF Interrupted
  <2>2. Check(me, "batch").pc = "check"
    BY <1>1 DEF Check, WorkerState
  <2> QED BY <1>4, <1>17, <1>18, <2>1, <2>2 DEF BeginJob
<1>19. CASE CheckCanceled(w)
  <2>1. me.pc = "check" /\ me.pc \in Holding \ {"reload"} /\ Follows(me, me)
    BY <1>1, <1>3, <1>19 DEF CheckCanceled, Follows
  <2>2. /\ Follows(me, Goto(me, me.then)) /\ Goto(me, me.then).pc # "exit"
        /\ "fail" \in Holding
    BY <1>1, <1>3, <1>4
  <2>3. CASE me.loaded.cancel
    <3>1. ~Interrupted(ConfirmCanceled(me.loaded))
      BY <1>1, Outcomes DEF Interrupted
    <3> QED BY <1>17, <1>19, <2>1, <2>2, <2>3, <3>1 DEF CheckCanceled
  <2>4. CASE ~me.loaded.cancel /\ CanRequestCancel(me.loaded)
    <3>1. ~Interrupted(me.loaded) => ~Interrupted(RequestCancel(me.loaded))
      BY <1>1, Outcomes DEF Interrupted
    <3> QED BY <1>17, <1>19, <2>1, <2>4, <3>1 DEF CheckCanceled
  <2>5. CASE ~me.loaded.cancel /\ ~CanRequestCancel(me.loaded)
    BY <1>6, <1>19, <2>1, <2>2, <2>5 DEF CheckCanceled
  <2> QED BY <2>3, <2>4, <2>5
<1>20. CASE BeginBatch(w)
  <2>1. me.pc \in Holding \ {"reload"} /\ "fail" \in Holding /\ "submit" \in Holding
    BY <1>3, <1>20 DEF BeginBatch
  <2>2. CASE CanStartBatch(me.loaded, me.batch)
    <3>1. ~Interrupted(me.loaded) => ~Interrupted(StartBatch(me.loaded, me.batch))
      BY <1>1, Outcomes DEF Interrupted
    <3> QED BY <1>4, <1>17, <1>20, <2>1, <2>2, <3>1 DEF BeginBatch
  <2>3. CASE ~CanStartBatch(me.loaded, me.batch)
    BY <1>6, <1>20, <2>1, <2>3 DEF BeginBatch
  <2> QED BY <2>2, <2>3
<1>21. CASE SubmitPrompt(w)
  <2>1. /\ me.pc \in Holding /\ "record" \in Holding
        /\ worker' = [worker EXCEPT ![w] = Goto(me, "record")]
        /\ UNCHANGED <<store, unrecorded>>
        /\ prompts' = [prompts EXCEPT ![<<j, me.batch>>] = "live"]
    BY <1>3, <1>21 DEF SubmitPrompt, errorVars
  <2>2. Justified(store, w, Goto(me, "record"))
    BY <1>4, <2>1, FollowsJustified
  <2>3. worker'[w] = Goto(me, "record")
    BY <2>1 DEF SlotInv, TypeOK
  <2>4. \A p \in Jobs \X Batches : prompts'[p] = "live" => prompts[p] = "live" \/ p[1] = j
    BY <2>1 DEF SlotInv, TypeOK
  <2> QED BY <2>1, <2>2, <2>3, <2>4 DEF Attends, WorkerDuty, Justified
<1>22. CASE CommitPrompt(w)
  <2> DEFINE n == [me EXCEPT !.pc = "wait", !.ticks = 0]
  <2>1. n \in WorkerState /\ n.job = j /\ n.pc = "wait" /\ n.loaded = me.loaded
    BY <1>1, Zeros DEF WorkerState, WorkerPc
  <2>2. Follows(me, n) /\ n.pc # "exit"
    BY <1>3, <2>1 DEF Follows
  <2>3. ~Interrupted(me.loaded) => ~Interrupted(RecordPrompt(me.loaded, me.batch))
    BY <1>1, Outcomes DEF Interrupted
  <2>4. me.pc \in Holding \ {"reload"} /\ Advance(w, RecordPrompt(me.loaded, me.batch), n)
    BY <1>3, <1>22 DEF CommitPrompt
  <2> HIDE DEF n
  <2> QED BY <1>17, <2>2, <2>3, <2>4
<1>23. CASE WaitProgress(w)
  <2> DEFINE n == [me EXCEPT !.ticks = @ + 1]
  <2>1. n \in WorkerState /\ n.job = j /\ n.loaded = me.loaded
    BY <1>1, <1>23, ServiceAssumption DEF WaitProgress, WorkerState
  <2>2. me.pc \in Holding /\ LoadForProgress(w, n, "wait")
    BY <1>3, <1>23 DEF WaitProgress
  <2> HIDE DEF n
  <2> QED BY <2>1, <2>2, LoadForProgressAttends
<1>24. CASE FlushProgress(w)
  BY <1>1, <1>3, <1>24, LoadForProgressAttends DEF FlushProgress
<1>25. CASE CommitProgress(w)
  <2> DEFINE f == me.fresh
             new == RecordProgress(f, me.batch)
             ok == [me EXCEPT !.pc = me.then, !.loaded = new, !.fresh = AbsentState]
             x == [me EXCEPT !.pc = "fail", !.fresh = AbsentState]
  <2>1. me.pc = "progress" /\ Alive(w) /\ j \in Jobs /\ SnapshotOf(store, j, f)
    BY <1>1, <1>2, <1>25 DEF CommitProgress, WorkerInv
  <2>2. /\ x.job = j /\ x.pc = "fail" /\ x.loaded = me.loaded
        /\ ok.job = j /\ ok.pc = me.then /\ ok.loaded = new
    BY <1>1 DEF WorkerState
  <2>3. ~Interrupted(f) => ~Interrupted(new)
    BY <1>1, Outcomes DEF Interrupted
  <2>4. [store EXCEPT ![j] = new][j] = new
    BY <2>1 DEF SlotInv, TypeOK
  <2>5. \/ Commit(w, f, new, ok, x)
        \/ Continue(w, x)
    BY <1>25 DEF CommitProgress
  <2> HIDE DEF ok, x, new
  <2>6. Justified([store EXCEPT ![j] = new], w, ok)
    BY <1>1, <2>2, <2>4 DEF Justified
  <2>7. Justified(store, w, x)
    BY <2>1, <2>2, FollowsJustified
  <2>8. CASE Commit(w, f, new, ok, x)
    BY <1>1, <2>1, <2>3, <2>6, <2>7, <2>8, CommitAttends
  <2> QED BY <2>5, <2>7, <2>8, ContinueAttends
<1>26. CASE WaitCanceled(w)
  <2> DEFINE n == [me EXCEPT !.pc = "reload", !.attempt = 0]
  <2>1. Follows(me, n) /\ n.pc = "reload"
    BY <1>1, <1>3, Zeros DEF Follows, WorkerState, WorkerPc
  <2> HIDE DEF n
  <2> QED BY <1>3, <1>4, <1>5, <1>26, <2>1 DEF WaitCanceled, n
<1>27. CASE CommitRaw(w)
  <2>1. me.pc \in Holding \ {"reload"} /\ "fail" \in Holding
    BY <1>3, <1>27 DEF CommitRaw
  <2>2. CASE CanMarkRawReady(me.loaded, me.batch)
    <3>1. ~Interrupted(MarkRawReady(me.loaded, me.batch))
      BY <1>1, Outcomes DEF Interrupted
    <3>2. FirstCandidate(me).pc # "exit"
      BY <1>1, LoopsEnd
    <3> QED BY <1>4, <1>17, <1>27, <2>1, <2>2, <3>1, <3>2 DEF CommitRaw
  <2>3. CASE ~CanMarkRawReady(me.loaded, me.batch)
    BY <1>6, <1>27, <2>1, <2>3 DEF CommitRaw
  <2> QED BY <2>2, <2>3
<1>28. CASE CommitCandidate(w)
  <2> DEFINE new == CompleteCandidate(me.loaded, Cand(me))
             held == [me EXCEPT !.loaded = new]
             n == AfterCandidate(held)
  <2>1. me.pc \in Holding \ {"reload"} /\ "fail" \in Holding
    BY <1>3, <1>28 DEF CommitCandidate
  <2>2. CASE CanCompleteCandidate(me.loaded, Cand(me))
    <3>1. Advance(w, new, n)
      BY <1>28, <2>2 DEF CommitCandidate
    <3>2. store[j] = me.loaded => new \in JobState
      BY <1>1, <1>16, <2>1, <2>2, CompleteCandidateWrites DEF Writes
    <3>3. ~Interrupted(me.loaded) => ~Interrupted(new)
      BY <1>1, Outcomes DEF Interrupted
    <3> HIDE DEF new
    <3>4. ASSUME store[j] = me.loaded
          PROVE  /\ n \in WorkerState /\ n.job = j /\ n.pc \in Holding \cup {"exit"}
                 /\ n.pc = "exit" => Unattended(new)
      <4>1. held \in WorkerState /\ held.job = j /\ held.loaded = new
        BY <1>1, <3>2, <3>4 DEF WorkerState
      <4> HIDE DEF held
      <4>2. Follows(held, n) /\ (n.pc = "exit" => new.status \in {"failed", "canceled"})
        BY <4>1, AfterCandidateFollows, LoopsEnd
      <4> QED BY <4>1, <4>2 DEF Follows, Unattended, ActiveJob
    <3> HIDE DEF n
    <3> QED BY <2>1, <3>1, <3>3, <3>4, AdvanceAttends
  <2>3. CASE ~CanCompleteCandidate(me.loaded, Cand(me))
    BY <1>6, <1>28, <2>1, <2>3 DEF CommitCandidate
  <2> QED BY <2>2, <2>3
<1>29. CASE FinishJob(w)
  <2>1. me.pc \in Holding \ {"reload"} /\ "fail" \in Holding
    BY <1>3, <1>29 DEF FinishJob
  <2>2. CASE ~CanCompleteGeneration(me.loaded)
    BY <1>6, <1>29, <2>1, <2>2 DEF FinishJob
  <2>3. CASE CanCompleteGeneration(me.loaded) /\ shutdown
    BY <1>4, <1>5, <1>29, <2>1, <2>3 DEF FinishJob
  <2>4. CASE CanCompleteGeneration(me.loaded) /\ ~shutdown
    <3>1. CompleteGeneration(me.loaded).status = "completed"
      BY <1>1, Outcomes
    <3>2. /\ ~Interrupted(CompleteGeneration(me.loaded))
          /\ Unattended(CompleteGeneration(me.loaded))
      BY <3>1 DEF Interrupted, Unattended, ActiveJob
    <3> QED BY <1>4, <1>17, <1>29, <2>1, <2>4, <3>2 DEF FinishJob
  <2> QED BY <2>2, <2>3, <2>4
\* A thread whose commit finds a conflict may end.
<1>31. me.pc \in Holding \cup {"cancel"} /\ store[j].rev # me.loaded.rev =>
         Justified(store, w, Exit(me))
  BY <1>3, <1>4 DEF Justified, DutyInv, WorkerDuty, Holding
<1>32. CASE FailJob(w)
  <2> DEFINE new == FailGeneration(me.loaded, "execution")
  <2>1. /\ me.pc \in Holding \ {"reload"} /\ j \in Jobs /\ SnapshotOf(store, j, me.loaded)
        /\ Commit(w, me.loaded, new, Exit(me), Exit(me))
    BY <1>2, <1>3, <1>32 DEF FailJob
  <2>2. ~Interrupted(new) /\ Unattended(new)
    BY <1>1, Outcomes DEF Interrupted, Unattended, ActiveJob
  <2> HIDE DEF new
  <2>3. Justified([store EXCEPT ![j] = new], w, Exit(me))
    <3>1. [store EXCEPT ![j] = new][j] = new
      BY <2>1 DEF SlotInv, TypeOK
    <3> QED BY <1>4, <2>2, <3>1 DEF Justified
  <2> QED BY <1>1, <1>31, <2>1, <2>2, <2>3, CommitAttends
<1>33. CASE ReloadCanceled(w)
  <2> DEFINE s == store[j]
             n == [me EXCEPT !.pc = "cancel", !.loaded = s]
  <2>1. n.job = j /\ n.pc = "cancel" /\ n.loaded = s
    BY <1>1 DEF WorkerState
  <2> HIDE DEF n
  <2>2. Justified(store, w, n)
    BY <2>1 DEF Justified
  <2>3. s.status \in TerminalJob => Justified(store, w, Exit(me))
    BY <1>4 DEF Justified, Unattended, TerminalJob, ActiveJob
  <2> QED BY <1>33, <2>2, <2>3, ContinueAttends DEF ReloadCanceled, n
<1>35. CASE ReloadRaises(w)
  <2>1. /\ me.pc = "reload" /\ store' = store /\ prompts' = prompts /\ LeftOpen(j)
        /\ worker' = [worker EXCEPT ![w] = Exit(me)]
    BY <1>35 DEF ReloadRaises, Raised
  <2>2. worker'[w] = Exit(me)
    BY <2>1 DEF SlotInv, TypeOK
  <2>3. j \in unrecorded' \/ Unattended(store'[j])
    BY <2>1, LeftOpenAttends
  <2> QED BY <1>4, <2>1, <2>2, <2>3 DEF Attends, WorkerDuty
<1>34. CASE ConfirmComfyCanceled(w)
  <2> DEFINE request == RequestCancel(me.loaded)
             confirm == ConfirmCanceled(me.loaded)
             asked == [me EXCEPT !.loaded = request]
             again == [me EXCEPT !.pc = "reload", !.attempt = @ + 1]
             conflict == IF me.attempt = 2 THEN Exit(me) ELSE again
  <2>1. /\ me.pc = "cancel" /\ Alive(w) /\ j \in Jobs /\ SnapshotOf(store, j, me.loaded)
        /\ \/ Commit(w, me.loaded, request, asked, Exit(me))
           \/ Commit(w, me.loaded, confirm, Exit(me), conflict)
    BY <1>2, <1>34 DEF ConfirmComfyCanceled
  <2>2. /\ asked.job = j /\ asked.pc = "cancel" /\ asked.loaded = request
        /\ again.job = j /\ again.pc = "reload" /\ again.loaded = me.loaded
    BY <1>1, <2>1 DEF WorkerState
  <2>3. /\ ~Interrupted(me.loaded) => ~Interrupted(request)
        /\ ~Interrupted(confirm) /\ Unattended(confirm)
    BY <1>1, Outcomes DEF Interrupted, Unattended, ActiveJob
  <2>4. \A new : [store EXCEPT ![j] = new][j] = new
    BY <2>1 DEF SlotInv, TypeOK
  <2> HIDE DEF request, confirm, asked, again
  <2>5. Justified([store EXCEPT ![j] = request], w, asked)
    BY <2>2, <2>4 DEF Justified
  <2>6. Justified([store EXCEPT ![j] = confirm], w, Exit(me))
    BY <1>4, <2>3, <2>4 DEF Justified
  <2>7. Justified(store, w, again)
    BY <2>1, <2>2, FollowsJustified
  <2>8. store[j].rev # me.loaded.rev => Justified(store, w, conflict)
    BY <1>31, <2>1, <2>7
  <2> HIDE DEF conflict
  <2>9. CASE Commit(w, me.loaded, request, asked, Exit(me))
    BY <1>1, <1>31, <2>1, <2>3, <2>5, <2>9, CommitAttends
  <2>10. CASE Commit(w, me.loaded, confirm, Exit(me), conflict)
    BY <1>1, <2>1, <2>3, <2>6, <2>8, <2>10, CommitAttends
  <2> QED BY <2>1, <2>9, <2>10
<1> QED
  BY <1>8, <1>9, <1>10, <1>11, <1>12, <1>13, <1>14, <1>15, <1>18, <1>19, <1>20, <1>21,
     <1>22, <1>23, <1>24, <1>25, <1>26, <1>27, <1>28, <1>29, <1>32, <1>33, <1>34, <1>35 DEF RunJob

\* What a step writes that is no step of the job's thread.
Leaves(i) ==
  store'[i] = store[i] \/ (Unattended(store'[i]) /\ ~Interrupted(store'[i]))

\* The step of a call or of the lock's holder: the threads stand still.
LEMMA DutyKept ==
  ASSUME SlotInv, RunInv, DutyInv, LockOnward, worker' = worker, app' = app,
         shutdown => shutdown', unrecorded \subseteq unrecorded',
         \A i \in Jobs : store'[i] = store[i] \/ Unattended(store'[i])
  PROVE  DutyInv'
<1>1. \A i \in Jobs : Unattended(store[i]) => Unattended(store'[i])
  OBVIOUS
<1>2. \A w \in Workers :
        worker'[w].job \in unrecorded' \/ WorkerDuty(store', shutdown', worker'[w])
  <2> TAKE w \in Workers
  <2>1. CASE worker[w].pc \in {"idle", "dead"}
    BY <2>1 DEF WorkerDuty
  <2>2. CASE worker[w].pc \notin {"idle", "dead"}
    <3>1. /\ worker[w].job \in Jobs
          /\ worker[w].job \in unrecorded \/ WorkerDuty(store, shutdown, worker[w])
      BY <2>2, AliveWorker DEF DutyInv
    <3> QED BY <1>1, <3>1 DEF WorkerDuty
  <2> QED BY <2>1, <2>2
<1>3. lock'.op \in {"start", "spawn"} /\ ~shutdown' =>
        lock'.job \in unrecorded' \/ Unattended(store'[lock'.job])
  <2>1. lock'.op \in {"start", "spawn"} => lock.op \in {"start", "spawn"} /\ lock'.job = lock.job
    BY FreeLock DEF LockOnward
  <2>2. lock.op \in {"start", "spawn"} => lock.job \in Jobs
    BY DEF SlotInv, LockInv
  <2> QED BY <1>1, <2>1, <2>2 DEF DutyInv
<1>4. AbandonedOnlyByCancel'
  BY DEF DutyInv, AbandonedOnlyByCancel, Unattended, Alive
<1> QED BY <1>2, <1>3, <1>4 DEF DutyInv

\* The step of a thread that goes on with its job.
LEMMA ThreadDuty ==
  ASSUME SlotInv, RunInv, DutyInv, NEW w \in Workers, Alive(w), NEW n,
         worker' = [worker EXCEPT ![w] = n], n.pc \notin {"idle", "dead"},
         n.job = worker[w].job, n.job \in unrecorded' \/ WorkerDuty(store', shutdown, n),
         unrecorded \subseteq unrecorded',
         \A i \in Jobs : store'[i] # store[i] => i = worker[w].job,
         UNCHANGED <<shutdown, app, lock>>
  PROVE  DutyInv'
<1>1. \A v \in Workers : worker'[v] = IF v = w THEN n ELSE worker[v]
  BY DEF SlotInv, TypeOK
<1>2. \A v \in Workers :
        worker'[v].job \in unrecorded' \/ WorkerDuty(store', shutdown', worker'[v])
  <2> TAKE v \in Workers
  <2>1. CASE v = w
    BY <1>1, <2>1
  <2>2. CASE v # w /\ ~Alive(v)
    BY <1>1, <2>2 DEF Alive, WorkerDuty
  <2>3. CASE v # w /\ Alive(v)
    <3>1. worker[v].job \in Jobs /\ worker[v].job # worker[w].job
      BY <2>3, AliveWorker DEF RunInv, OneWorkerPerJob
    <3> QED BY <1>1, <2>3, <3>1 DEF DutyInv, WorkerDuty
  <2> QED BY <2>1, <2>2, <2>3
<1>3. lock'.op \in {"start", "spawn"} /\ ~shutdown' =>
        lock'.job \in unrecorded' \/ Unattended(store'[lock'.job])
  BY DEF DutyInv, RunInv, SlotInv, LockInv
<1>4. AbandonedOnlyByCancel'
  <2> SUFFICES ASSUME NEW j \in Jobs, store'[j].status \in ActiveJob,
                      app = "serving", ~shutdown, ~store'[j].cancel, j \notin unrecorded'
               PROVE  \E v \in Workers : worker'[v].pc \notin {"idle", "dead"} /\ worker'[v].job = j
    BY DEF AbandonedOnlyByCancel, Alive
  <2>1. CASE j = worker[w].job
    BY <1>1, <2>1
  <2>2. CASE j # worker[w].job
    <3>1. PICK v \in Workers : Alive(v) /\ worker[v].job = j
      BY <2>2 DEF DutyInv, AbandonedOnlyByCancel
    <3> QED BY <1>1, <2>2, <3>1 DEF Alive
  <2> QED BY <2>1, <2>2
<1> QED BY <1>2, <1>3, <1>4 DEF DutyInv

LEMMA ThreadStepDuty ==
  ASSUME SlotInv, RunInv, DutyInv, OrphanInv, NEW w \in Workers, Thread(w)
  PROVE  DutyInv'
<1>1. CASE Work(w)
  <2>1. WorkerStep(w) /\ Attends(w) /\ UNCHANGED coordVars
    BY <1>1, RunJobStep, RunJobAttends DEF Work
  <2>2. PICK n : NextWorker(store', w, n) /\ worker' = [worker EXCEPT ![w] = n]
    BY <2>1 DEF WorkerStep
  <2>3. worker'[w] = n
    BY <2>2 DEF SlotInv, TypeOK
  <2> QED
    BY <2>1, <2>2, <2>3, ThreadDuty DEF WorkerStep, NextWorker, Attends, Tallies, coordVars
<1>2. CASE BootWorker(w) \/ BootFails(w)
  <2> DEFINE load == [worker[w] EXCEPT !.pc = "load"]
  <2>1. worker[w].pc = "boot" /\ Alive(w) /\ UNCHANGED <<store, shutdown, app, lock, unrecorded>>
    BY <1>2 DEF BootWorker, BootFails, Alive, coordVars, errorVars
  <2>2. load.pc = "load" /\ load.job = worker[w].job
        /\ Exit(worker[w]).pc = "exit" /\ Exit(worker[w]).job = worker[w].job
    BY ThreadFacts DEF WorkerState, Exit, IdleWorker
  <2>3. PICK n : /\ worker' = [worker EXCEPT ![w] = n]
                 /\ n.pc \in {"load", "exit"} /\ n.job = worker[w].job
    <3>1. worker' = [worker EXCEPT ![w] = load] \/ worker' = [worker EXCEPT ![w] = Exit(worker[w])]
      BY <1>2 DEF BootWorker, BootFails
    <3> HIDE DEF load
    <3> QED BY <2>2, <3>1
  <2>4. n.job \in unrecorded' \/ WorkerDuty(store', shutdown, n)
    BY <2>1, <2>3 DEF DutyInv, WorkerDuty
  <2> QED BY <2>1, <2>3, <2>4, ThreadDuty
<1>3. CASE EndWorker(w)
  <2>1. /\ worker[w].pc = "exit" /\ worker' = [worker EXCEPT ![w] = DeadWorker]
        /\ UNCHANGED <<store, shutdown, lock, app, unrecorded>>
    BY <1>3 DEF EndWorker, errorVars
  <2>2. \A v \in Workers : worker'[v] = IF v = w THEN DeadWorker ELSE worker[v]
    BY <2>1 DEF SlotInv, TypeOK
  <2>3. ~shutdown => worker[w].job \in unrecorded \/ Unattended(store[worker[w].job])
    BY <2>1 DEF DutyInv, WorkerDuty
  <2>4. DeadWorker.pc = "dead"
    BY DEF DeadWorker, IdleWorker
  <2>5. \A v \in Workers :
          worker'[v].job \in unrecorded' \/ WorkerDuty(store', shutdown', worker'[v])
    BY <2>1, <2>2, <2>4 DEF DutyInv, WorkerDuty
  <2>6. AbandonedOnlyByCancel'
    BY <2>1, <2>2, <2>3 DEF DutyInv, AbandonedOnlyByCancel, Unattended, Alive
  <2> QED BY <2>1, <2>5, <2>6 DEF DutyInv
<1> QED BY <1>1, <1>2, <1>3 DEF Thread

\* The records a start, a retry or a cancel writes.
LEMMA CallLeaves ==
  ASSUME SlotInv, NEW k \in Cancels, Cancel(k) \/ \E j \in Jobs : BeginCancel(k, j)
  PROVE  \A i \in Jobs : Leaves(i)
<1> DEFINE me == cancel[k]
<1>1. me \in CancelState /\ me.loaded \in JobState /\ CancelInv(store, me)
  BY CancelFacts
<1>2. me.pc \notin {"idle", "returned"} => me.job \in Jobs
  BY CancelFacts
<1>3. PICK b \in Batches, c \in Candidates : TRUE
  BY Zeros, <<0, 0>> \in Candidates DEF Candidates
<1>4. ASSUME NEW new, NEW ok, NEW x, NEW r, CancelCommit(k, new, ok, x, r), me.job \in Jobs,
             store[me.job].rev = me.loaded.rev => Unattended(new) /\ ~Interrupted(new)
      PROVE  \A i \in Jobs : Leaves(i)
  <2>1. \/ store' = store
        \/ /\ store[me.job].rev = me.loaded.rev
           /\ store' = [store EXCEPT ![me.job] = new]
    BY <1>4 DEF CancelCommit, StorageError
  <2> QED BY <1>4, <2>1 DEF Leaves, SlotInv, TypeOK
<1>5. CASE CommitRequest(k)
  <2> DEFINE new == RequestCancel(me.loaded)
  <2>1. me.pc = "request" /\ \E ok, x, r : CancelCommit(k, new, ok, x, r)
    BY <1>5 DEF CommitRequest
  <2>2. Unattended(new) /\ ~Interrupted(new)
    BY <1>1, <1>3, <2>1, Outcomes
    DEF CancelInv, Unattended, Interrupted, Nonterminal, ActiveJob
  <2> HIDE DEF new
  <2> QED BY <1>2, <1>4, <2>1, <2>2
<1>6. CASE CommitConfirm(k)
  <2> DEFINE new == ConfirmCanceled(me.loaded)
  <2>1. me.pc = "confirm" /\ \E ok, x, r : CancelCommit(k, new, ok, x, r)
    BY <1>6 DEF CommitConfirm
  <2>2. Unattended(new) /\ ~Interrupted(new)
    BY <1>1, <1>3, Outcomes DEF Unattended, Interrupted, ActiveJob
  <2> HIDE DEF new
  <2> QED BY <1>2, <1>4, <2>1, <2>2
<1>7. CASE CommitFailure(k)
  <2> DEFINE new == FailGeneration(me.loaded, "unconfirmed")
  <2>1. /\ me.pc = "persistFailed" /\ SnapshotOf(store, me.job, me.loaded)
        /\ store[me.job].cancel /\ store[me.job].status # "absent"
        /\ \E ok, x, r : CancelCommit(k, new, ok, x, r)
    BY <1>1, <1>7 DEF CommitFailure, CancelInv
  <2>2. ~Interrupted(new)
    BY <1>1, <1>3, Outcomes DEF Interrupted
  <2>3. store[me.job].rev = me.loaded.rev => Unattended(new)
    <3>1. store[me.job].rev = me.loaded.rev =>
            /\ Consistent(me.loaded) /\ me.loaded.cancel /\ me.loaded.status # "absent"
      BY <1>2, <2>1 DEF SnapshotOf, SlotInv, StoreInv
    <3>2. Consistent(me.loaded) /\ me.loaded.status # "absent" => Writes(me.loaded, new)
      BY <1>1, FailGenerationWrites DEF FailureCode
    <3> HIDE DEF new
    <3> QED BY <3>1, <3>2 DEF Writes, Successor, Unattended
  <2> HIDE DEF new
  <2> QED BY <1>2, <1>4, <2>1, <2>2, <2>3
<1>8. ASSUME ~CommitRequest(k), ~CommitConfirm(k), ~CommitFailure(k)
      PROVE  \A i \in Jobs : Leaves(i)
  <2>1. store' = store
    BY <1>8 DEF Cancel, BeginCancel, LookAtRun, Interrupt, SeeClear, WaitTimesOut, StopComfyUI,
       CancelRaises, ReloadForConfirm, ConfirmUnloaded, ReloadForFailure, FailureUnloaded, CancelGoes, serviceVars, errorVars
  <2> QED BY <2>1 DEF Leaves
<1> QED BY <1>5, <1>6, <1>7, <1>8

LEMMA HolderLeaves ==
  ASSUME SlotInv, NEW j \in Jobs,
         \/ CreateJob(j) \/ StartCheck(j) \/ \E i \in Jobs : RetryCreate(i, j)
         \/ Holder
  PROVE  \A i \in Jobs : Leaves(i)
<1>1. /\ InitialState.status = "queued"
      /\ \A parent : InheritFrom(InitialState, parent).status = "queued"
  BY DEF InitialState, InheritFrom
<1>2. \A s : s.status = "queued" => Unattended(s) /\ ~Interrupted(s)
  BY DEF Unattended, Interrupted, ActiveJob
<1>3. \/ store' = store
      \/ store' = [store EXCEPT ![j] = InitialState]
      \/ store' = [store EXCEPT ![lock.job] = InheritFrom(InitialState, store[lock.parent])]
  BY DEF CreateJob, StartCheck, RetryCreate, Holder, CleanupOrphans, CleanupRaises,
         RetryCommit, StartWorker, serviceVars, errorVars
<1>4. ASSUME NEW x, NEW t, store' = [store EXCEPT ![x] = t], t.status = "queued"
      PROVE  \A i \in Jobs : Leaves(i)
  <2>1. \A i \in Jobs : store'[i] = store[i] \/ store'[i] = t
    BY <1>4 DEF SlotInv, TypeOK
  <2> QED BY <1>2, <1>4, <2>1 DEF Leaves
<1> QED BY <1>1, <1>3, <1>4 DEF Leaves

LEMMA HolderDuty ==
  ASSUME SlotInv, RunInv, DutyInv, Holder
  PROVE  DutyInv'
<1>1. ~(\E w \in Workers : StartWorker(w)) =>
        LockOnward /\ UNCHANGED <<worker, app, shutdown, unrecorded>>
  <2>1. CleanupOrphans => lock.op = "start" /\ lock' = [lock EXCEPT !.op = "spawn"]
    BY DEF CleanupOrphans
  <2>2. [lock EXCEPT !.op = "spawn"].op = "spawn" /\ [lock EXCEPT !.op = "spawn"].job = lock.job
    BY DEF SlotInv, TypeOK, LockState
  <2> QED BY <2>1, <2>2
          DEF Holder, CleanupOrphans, CleanupRaises, RetryCommit, LockOnward, serviceVars, errorVars
<1>2. ASSUME NEW w \in Workers, StartWorker(w)
      PROVE  DutyInv'
  <2> DEFINE n == [IdleWorker EXCEPT !.pc = "boot", !.job = lock.job]
  <2>1. /\ lock.op = "spawn" /\ lock' = Free /\ worker[w].pc = "idle"
        /\ worker' = [worker EXCEPT ![w] = n]
        /\ UNCHANGED <<store, shutdown, app, unrecorded>>
    BY <1>2 DEF StartWorker, IdleWorker, errorVars
  <2>2. n.pc = "boot" /\ n.job = lock.job
    BY DEF IdleWorker
  <2> HIDE DEF n
  <2>3. \A v \in Workers : worker'[v] = IF v = w THEN n ELSE worker[v]
    BY <2>1 DEF SlotInv, TypeOK
  <2>4. \A v \in Workers :
          worker'[v].job \in unrecorded' \/ WorkerDuty(store', shutdown', worker'[v])
    BY <2>1, <2>2, <2>3 DEF DutyInv, WorkerDuty
  <2>5. AbandonedOnlyByCancel'
    BY <2>1, <2>2, <2>3 DEF DutyInv, AbandonedOnlyByCancel, Alive
  <2> QED BY <2>1, <2>4, <2>5, FreeLock DEF DutyInv
<1>3. CASE ~(\E w \in Workers : StartWorker(w)) /\ \E j \in Jobs : TRUE
  <2>1. \A i \in Jobs : Leaves(i)
    BY <1>3, HolderLeaves
  <2> QED BY <1>1, <1>3, <2>1, DutyKept DEF Leaves
<1>4. CASE ~(\E w \in Workers : StartWorker(w)) /\ ~\E j \in Jobs : TRUE
  BY <1>1, <1>4, DutyKept
<1> QED BY <1>2, <1>3, <1>4

\* A start goes on only when no thread is at work on the job, so that a job
\* still active must have been asked to cancel.
LEMMA EntryDuty ==
  ASSUME SlotInv, RunInv, DutyInv, NEW j \in Jobs,
         CreateJob(j) \/ StartCheck(j) \/ \E i \in Jobs : RetryCreate(i, j)
  PROVE  DutyInv'
<1>1. UNCHANGED <<worker, app, shutdown, unrecorded>>
      /\ app = "serving" /\ ~shutdown /\ lock = Free
      /\ \A i \in Jobs : Leaves(i)
  BY HolderLeaves DEF CreateJob, StartCheck, RetryCreate, Open, serviceVars, errorVars, coordVars
<1>2. CASE CreateJob(j)
  BY <1>1, <1>2, DutyKept DEF CreateJob, coordVars, LockOnward, Leaves
<1>3. CASE StartCheck(j)
  <2>1. /\ Held(j) /\ ~RunOf(j) /\ lock'.op = "start" /\ lock'.job = j /\ store' = store
    BY <1>3 DEF StartCheck, serviceVars, errorVars
  <2>2. \A w \in Workers : Alive(w) => worker[w].job # j
    BY <2>1, AliveWorker DEF RunInv, RunOf
  <2>3. j \in unrecorded \/ Unattended(store[j])
    BY <1>1, <2>2 DEF DutyInv, AbandonedOnlyByCancel, Unattended
  <2> QED BY <1>1, <2>1, <2>3 DEF DutyInv, AbandonedOnlyByCancel, Alive
<1>4. ASSUME NEW i \in Jobs, RetryCreate(i, j)
      PROVE  DutyInv'
  <2>1. lock'.op = "retry"
    BY <1>4 DEF RetryCreate
  <2>2. \A w \in Workers :
          worker'[w].job \in unrecorded' \/ WorkerDuty(store', shutdown', worker'[w])
    <3> TAKE w \in Workers
    <3>1. CASE ~Alive(w)
      BY <1>1, <3>1 DEF Alive, WorkerDuty
    <3>2. CASE Alive(w)
      <4>1. worker[w].job \in Jobs
        BY <3>2, AliveWorker
      <4> QED BY <1>1, <4>1 DEF DutyInv, WorkerDuty, Leaves
    <3> QED BY <3>1, <3>2
  <2>3. AbandonedOnlyByCancel'
    BY <1>1 DEF DutyInv, AbandonedOnlyByCancel, Leaves, Unattended, Alive
  <2> QED BY <2>1, <2>2, <2>3 DEF DutyInv
<1> QED BY <1>2, <1>3, <1>4

LEMMA CancelDuty ==
  ASSUME SlotInv, RunInv, DutyInv,
         NEW k \in Cancels, Cancel(k) \/ \E j \in Jobs : BeginCancel(k, j)
  PROVE  DutyInv'
<1>1. UNCHANGED <<worker, shutdown, lock, app>> /\ unrecorded \subseteq unrecorded'
  BY CancelStepIsMove DEF CancelMove, Tallies
<1> QED BY <1>1, CallLeaves, DutyKept DEF Leaves, LockOnward

\* The recovery closes what a death has left active, before anything is served.
LEMMA RecoveryDuty ==
  ASSUME SlotInv, RunInv, DutyInv,
         \/ Comfy \/ Shutdown \/ Serve \/ ProcessDies \/ UNCHANGED vars
         \/ \E j \in Jobs : RecoverJob(j)
  PROVE  DutyInv'
<1>1. CASE Comfy \/ Shutdown \/ UNCHANGED vars
  <2>1. UNCHANGED <<store, worker, lock, app, unrecorded>> /\ (shutdown => shutdown')
    BY <1>1 DEF Comfy, ComfyStops, PromptEnds, Shutdown, vars, serviceVars, errorVars, coordVars
  <2> QED BY <2>1, DutyKept DEF LockOnward
<1>2. ASSUME NEW j \in Jobs, RecoverJob(j)
      PROVE  DutyInv'
  <2>1. /\ UNCHANGED <<worker, lock, app, shutdown, unrecorded>>
        /\ store' = [store EXCEPT ![j] = RecoverInterruption(store[j])]
        /\ RecoverInterruption(store[j]).status = "failed"
    BY <1>2, RecoverInterruptionWrites, StoredType
    DEF RecoverJob, coordVars, errorVars, SlotInv, StoreInv
  <2>2. \A i \in Jobs : store'[i] = store[i] \/ Unattended(store'[i])
    BY <2>1 DEF SlotInv, TypeOK, Unattended, ActiveJob
  <2> QED BY <2>1, <2>2, DutyKept DEF LockOnward
<1>3. CASE Serve
  <2>1. UNCHANGED <<store, worker, lock, shutdown, unrecorded>>
    BY <1>3 DEF Serve, serviceVars, errorVars
  <2>2. \A j \in Jobs : store[j].status \notin ActiveJob
    <3> SUFFICES ASSUME NEW j \in Jobs, store[j].status \in ActiveJob PROVE FALSE
      OBVIOUS
    <3>1. RecoverInterruption(store[j]).status = "failed"
      BY RecoverInterruptionWrites, StoredType DEF SlotInv, StoreInv
    <3>2. RecoverInterruption(store[j]) = store[j]
      BY <1>3 DEF Serve
    <3> QED BY <3>1, <3>2 DEF ActiveJob
  <2> QED BY <2>1, <2>2 DEF DutyInv, AbandonedOnlyByCancel, WorkerDuty
<1>4. CASE ProcessDies
  <2>1. /\ \A w \in Workers : worker'[w].pc \in {"idle", "dead"}
        /\ lock'.op = "free" /\ app' = "recovering"
    BY <1>4, FreeLock DEF ProcessDies, IdleWorker, DeadWorker
  <2> QED BY <2>1 DEF DutyInv, AbandonedOnlyByCancel, WorkerDuty
<1> QED BY <1>1, <1>2, <1>3, <1>4

LEMMA DutyStep ==
  ASSUME SlotInv, RunInv, DutyInv, OrphanInv, [Next]_vars
  PROVE  DutyInv'
BY HolderDuty, EntryDuty, ThreadStepDuty, CancelDuty, RecoveryDuty DEF Next

LEMMA InitDutyInv == Init => DutyInv
<1> SUFFICES ASSUME Init PROVE DutyInv
  OBVIOUS
<1>1. /\ \A w \in Workers : worker[w].pc = "idle"
      /\ \A j \in Jobs : store[j].status = "absent"
      /\ lock.op = "free"
  BY FreeLock DEF Init, IdleWorker, AbsentState, InitialState
<1> QED BY <1>1 DEF DutyInv, WorkerDuty, AbandonedOnlyByCancel, ActiveJob

----------------------------------------------------------------------------
(* Orphan prompts *)

\* A step that submits nothing.
Fades == \A p \in Jobs \X Batches : prompts'[p] = "live" => prompts[p] = "live"

LEMMA StopFades ==
  ASSUME SlotInv
  PROVE  \A p \in Jobs \X Batches : StopPrompts[p] # "live"
BY DEF StopPrompts, SlotInv, TypeOK

LEMMA OutsideFades ==
  ASSUME SlotInv,
         \/ Comfy \/ Shutdown \/ Serve \/ ProcessDies \/ Holder \/ UNCHANGED vars
         \/ \E j \in Jobs : RecoverJob(j) \/ CreateJob(j) \/ StartCheck(j)
         \/ \E i, j \in Jobs : RetryCreate(i, j)
  PROVE  Fades
<1>1. prompts \in [Jobs \X Batches -> PromptStatus]
  BY DEF SlotInv, TypeOK
<1>2. CASE Comfy
  BY <1>1, <1>2, StopFades DEF Comfy, ComfyStops, PromptEnds, Fades
<1>3. CASE CleanupOrphans
  <2>1. \/ \E live : prompts' = [p \in DOMAIN prompts |-> IF p \in live THEN "gone" ELSE prompts[p]]
        \/ prompts' = StopPrompts
    BY <1>3, Zenon DEF CleanupOrphans
  <2> QED BY <1>1, <2>1, StopFades DEF Fades
<1>4. CASE ProcessDies
  BY <1>4, StopFades DEF ProcessDies, Fades
<1>5. CASE \/ Shutdown \/ Serve \/ CleanupRaises \/ RetryCommit \/ UNCHANGED vars
           \/ \E w \in Workers : StartWorker(w)
           \/ \E j \in Jobs : RecoverJob(j) \/ CreateJob(j) \/ StartCheck(j)
           \/ \E i, j \in Jobs : RetryCreate(i, j)
  <2>1. prompts' = prompts
    BY <1>5 DEF Shutdown, Serve, CleanupRaises, RetryCommit, StartWorker, RecoverJob,
       CreateJob, StartCheck, RetryCreate, vars, serviceVars, errorVars
  <2> QED BY <2>1 DEF Fades
<1> QED BY <1>2, <1>3, <1>4, <1>5 DEF Holder

LEMMA CancelFades ==
  ASSUME SlotInv, NEW k \in Cancels, Cancel(k) \/ \E j \in Jobs : BeginCancel(k, j)
  PROVE  Fades
<1>1. prompts \in [Jobs \X Batches -> PromptStatus]
  BY DEF SlotInv, TypeOK
<1>2. CASE Interrupt(k)
  BY <1>1, <1>2 DEF Interrupt, Fades
<1>3. CASE StopComfyUI(k)
  BY <1>3, StopFades DEF StopComfyUI, Fades
<1>4. ASSUME ~Interrupt(k), ~StopComfyUI(k)
      PROVE  Fades
  <2>1. prompts' = prompts
    BY <1>4 DEF Cancel, BeginCancel, CommitRequest, LookAtRun, SeeClear, WaitTimesOut,
       CancelRaises, ReloadForConfirm, CommitConfirm, ReloadForFailure, CommitFailure,
       ConfirmUnloaded, FailureUnloaded, CancelCommit, CancelGoes, serviceVars, errorVars
  <2> QED BY <2>1 DEF Fades
<1> QED BY <1>2, <1>3, <1>4

\* An orphan that is out of the queue stays out, as long as only jobs that are
\* not interrupted are written or submitted.
LEMMA ClearedKept ==
  ASSUME SlotInv, NEW j \in Jobs, Cleared(j),
         \A i \in Jobs : store'[i] = store[i] \/ ~Interrupted(store'[i]),
         \A p \in Jobs \X Batches :
           prompts'[p] = "live" => prompts[p] = "live" \/ ~Interrupted(store'[p[1]])
  PROVE  Cleared(j)'
<1> SUFFICES ASSUME NEW q \in Orphans(j)' PROVE prompts'[q] # "live"
  BY DEF Cleared
<1>1. q \in Jobs \X Batches /\ q[1] \in Jobs /\ Interrupted(store'[q[1]])
  BY DEF Orphans, RecoveryPrompts
<1>2. store'[q[1]] = store[q[1]]
  BY <1>1
<1>3. q \in Orphans(j)
  BY <1>2 DEF Orphans, RecoveryPrompts
<1> QED BY <1>1, <1>3 DEF Cleared

Busy(k) == cancel[k].pc \notin {"idle", "returned"}

\* Whoever comes to a job comes to one that is not interrupted, and a thread
\* only when its orphans are cleared; nobody comes while the process recovers.
LEMMA OrphanKept ==
  ASSUME SlotInv, RunInv, OrphanInv, app' = app,
         \A i \in Jobs : store'[i] = store[i] \/ ~Interrupted(store'[i]),
         \A p \in Jobs \X Batches :
           prompts'[p] = "live" => prompts[p] = "live" \/ ~Interrupted(store'[p[1]]),
         \A w \in Workers : Alive(w)' =>
           \/ Alive(w) /\ worker'[w].job = worker[w].job
           \/ /\ app = "serving"
              /\ \E j \in Jobs : worker'[w].job = j /\ ~Interrupted(store'[j]) /\ Cleared(j)',
         \A k \in Cancels : Busy(k)' =>
           \/ Busy(k) /\ cancel'[k].job = cancel[k].job
           \/ app = "serving" /\ ~Interrupted(store'[cancel'[k].job]),
         lock'.op # "free" => lock.op # "free" \/ app = "serving",
         lock'.op \in {"start", "spawn"} =>
           \/ lock.op \in {"start", "spawn"} /\ lock'.job = lock.job
           \/ ~Interrupted(store'[lock'.job]),
         lock'.op = "spawn" =>
           \/ lock.op = "spawn" /\ lock'.job = lock.job
           \/ \E j \in Jobs : lock'.job = j /\ Cleared(j)'
  PROVE  OrphanInv'
<1>1. \A i \in Jobs : ~Interrupted(store[i]) => ~Interrupted(store'[i])
  OBVIOUS
<1>2. \A j \in Jobs : Cleared(j) => Cleared(j)'
  BY ClearedKept
<1>3. \A w \in Workers : Alive(w)' =>
        ~Interrupted(store'[worker'[w].job]) /\ Cleared(worker[w].job)'
  <2> SUFFICES ASSUME NEW w \in Workers, Alive(w)'
               PROVE  ~Interrupted(store'[worker'[w].job]) /\ Cleared(worker[w].job)'
    OBVIOUS
  <2>1. CASE Alive(w) /\ worker'[w].job = worker[w].job
    <3>1. PICK j \in Jobs : worker[w].job = j
      BY <2>1, AliveWorker
    <3>2. ~Interrupted(store[j]) /\ Cleared(j)
      BY <2>1, <3>1 DEF OrphanInv
    <3>3. ~Interrupted(store'[j]) /\ Cleared(j)'
      BY <1>1, <1>2, <3>2
    <3> QED BY <2>1, <3>1, <3>3
  <2>2. ASSUME NEW j \in Jobs, worker'[w].job = j, ~Interrupted(store'[j]), Cleared(j)'
        PROVE  ~Interrupted(store'[worker'[w].job]) /\ Cleared(worker[w].job)'
    BY <2>2
  <2> QED BY <2>1, <2>2
<1>4. \A k \in Cancels : Busy(k)' => ~Interrupted(store'[cancel'[k].job])
  BY <1>1, CancelFacts DEF OrphanInv, Busy
<1>5. lock'.op \in {"start", "spawn"} => ~Interrupted(store'[lock'.job])
  BY <1>1 DEF OrphanInv, SlotInv, LockInv
<1>6. lock'.op = "spawn" => Cleared(lock.job)'
  <2> SUFFICES ASSUME lock'.op = "spawn" PROVE Cleared(lock.job)'
    OBVIOUS
  <2>1. CASE lock.op = "spawn" /\ lock'.job = lock.job
    <3>1. PICK j \in Jobs : lock.job = j
      BY <2>1 DEF SlotInv, LockInv
    <3> QED BY <1>2, <2>1, <3>1 DEF OrphanInv
  <2>2. ASSUME NEW j \in Jobs, lock'.job = j, Cleared(j)'
        PROVE  Cleared(lock.job)'
    BY <2>2
  <2> QED BY <2>1, <2>2
<1>7. app' = "recovering" =>
        /\ lock'.op = "free"
        /\ \A w \in Workers : ~Alive(w)'
        /\ \A k \in Cancels : ~Busy(k)'
  BY DEF OrphanInv, Busy
<1> QED BY <1>3, <1>4, <1>5, <1>6, <1>7 DEF OrphanInv, Busy

LEMMA ThreadOrphans ==
  ASSUME SlotInv, RunInv, DutyInv, OrphanInv, NEW w \in Workers, Thread(w)
  PROVE  OrphanInv'
<1>1. worker[w].pc \notin {"idle", "dead"} /\ Alive(w) /\ worker[w].job \in Jobs
  <2>1. Work(w) => Alive(w)
    BY RunJobStep DEF Work, WorkerStep
  <2>2. Alive(w)
    BY <2>1 DEF Thread, BootWorker, BootFails, EndWorker, Alive
  <2> QED BY <2>2, AliveWorker
<1>2. ~Interrupted(store[worker[w].job])
  BY <1>1 DEF OrphanInv
<1>3. CASE Work(w)
  <2>1. WorkerStep(w) /\ Attends(w) /\ UNCHANGED coordVars
    BY <1>3, RunJobStep, RunJobAttends DEF Work
  <2>2. PICK n : NextWorker(store', w, n) /\ worker' = [worker EXCEPT ![w] = n]
    BY <2>1 DEF WorkerStep
  <2>3. \A v \in Workers : Alive(v)' => Alive(v) /\ worker'[v].job = worker[v].job
    BY <1>1, <2>2 DEF NextWorker, Alive, SlotInv, TypeOK
  <2>4. /\ \A i \in Jobs : store'[i] = store[i] \/ ~Interrupted(store'[i])
        /\ \A p \in Jobs \X Batches :
             prompts'[p] = "live" => prompts[p] = "live" \/ ~Interrupted(store'[p[1]])
    BY <1>1, <1>2, <2>1 DEF Attends
  <2>5. /\ app' = app /\ lock' = lock
        /\ \A k \in Cancels : Busy(k)' => Busy(k) /\ cancel'[k].job = cancel[k].job
    BY <2>1 DEF coordVars, Busy
  <2>6. lock'.op = "spawn" => lock.op = "spawn" /\ lock'.job = lock.job
    BY <2>5
  <2> QED BY <2>3, <2>4, <2>5, <2>6, OrphanKept
<1>4. CASE BootWorker(w) \/ BootFails(w) \/ EndWorker(w)
  <2>1. UNCHANGED <<store, prompts, lock, cancel, app>>
    BY <1>4 DEF BootWorker, BootFails, EndWorker, coordVars
  <2>2. \A v \in Workers : Alive(v)' => Alive(v) /\ worker'[v].job = worker[v].job
    <3> DEFINE load == [worker[w] EXCEPT !.pc = "load"]
    <3>1. load.job = worker[w].job /\ Exit(worker[w]).job = worker[w].job
          /\ DeadWorker.pc = "dead"
      BY ThreadFacts DEF WorkerState, Exit, DeadWorker, IdleWorker
    <3>2. PICK n : /\ worker' = [worker EXCEPT ![w] = n]
                   /\ n.job = worker[w].job \/ n.pc = "dead"
      <4>1. \/ worker' = [worker EXCEPT ![w] = load]
            \/ worker' = [worker EXCEPT ![w] = Exit(worker[w])]
            \/ worker' = [worker EXCEPT ![w] = DeadWorker]
        BY <1>4 DEF BootWorker, BootFails, EndWorker
      <4> HIDE DEF load
      <4> QED BY <3>1, <4>1
    <3> QED BY <1>1, <3>2 DEF Alive, SlotInv, TypeOK
  <2>3. \A k \in Cancels : Busy(k)' => Busy(k) /\ cancel'[k].job = cancel[k].job
    BY <2>1 DEF Busy
  <2> QED BY <2>1, <2>2, <2>3, OrphanKept
<1> QED BY <1>3, <1>4 DEF Thread

\* A start looks the orphans up and clears them before its thread is there.
LEMMA HolderOrphans ==
  ASSUME SlotInv, RunInv, OrphanInv, Holder
  PROVE  OrphanInv'
<1>1. /\ Fades /\ app' = app /\ cancel' = cancel
      /\ \A k \in Cancels : Busy(k)' => Busy(k) /\ cancel'[k].job = cancel[k].job
  BY OutsideFades
  DEF Holder, CleanupOrphans, CleanupRaises, RetryCommit, StartWorker, serviceVars, errorVars, Busy
<1>2. lock.op # "free" => app = "serving"
  BY DEF OrphanInv, SlotInv, TypeOK
<1>3. \A i \in Jobs : store'[i] = store[i] \/ ~Interrupted(store'[i])
  <2>1. \A i \in Jobs : Leaves(i)
    BY HolderLeaves
  <2> QED BY <2>1 DEF Leaves
<1>4. CASE CleanupOrphans
  <2>1. /\ lock.op = "start" /\ lock' = [lock EXCEPT !.op = "spawn"]
        /\ store' = store /\ worker' = worker
    BY <1>4 DEF CleanupOrphans
  <2>2. lock'.op = "spawn" /\ lock'.job = lock.job
    BY <2>1 DEF SlotInv, TypeOK, LockState
  <2>3. PICK j \in Jobs : lock.job = j
    BY <2>1 DEF SlotInv, LockInv
  <2>4. Orphans(j)' = Orphans(j) /\ Orphans(j) \subseteq Jobs \X Batches
    BY <2>1 DEF Orphans, RecoveryPrompts
  <2>5. \A q \in Orphans(j) : prompts'[q] # "live"
    <3>1. prompts \in [Jobs \X Batches -> PromptStatus]
      BY DEF SlotInv, TypeOK
    <3>2. CASE prompts' = [p \in DOMAIN prompts |->
                 IF p \in {x \in Orphans(j) : prompts[x] = "live"} THEN "gone" ELSE prompts[p]]
      BY <2>4, <3>1, <3>2
    <3>3. CASE prompts' = StopPrompts
      BY <2>4, <3>3, StopFades
    <3>4. \/ prompts' = [p \in DOMAIN prompts |->
               IF p \in {x \in Orphans(j) : prompts[x] = "live"} THEN "gone" ELSE prompts[p]]
          \/ prompts' = StopPrompts
      BY <1>4, <2>3 DEF CleanupOrphans
    <3> QED BY <3>2, <3>3, <3>4
  <2>6. Cleared(j)'
    BY <2>4, <2>5 DEF Cleared
  <2>7. \A w \in Workers : Alive(w)' => Alive(w) /\ worker'[w].job = worker[w].job
    BY <2>1 DEF Alive
  <2> QED BY <1>1, <1>2, <1>3, <2>1, <2>2, <2>3, <2>6, <2>7, OrphanKept DEF Fades
<1>5. CASE CleanupRaises \/ RetryCommit
  <2>1. lock'.op = "free" /\ worker' = worker
    BY <1>5, FreeLock DEF CleanupRaises, RetryCommit, serviceVars, errorVars
  <2>2. \A w \in Workers : Alive(w)' => Alive(w) /\ worker'[w].job = worker[w].job
    BY <2>1 DEF Alive
  <2> QED BY <1>1, <1>3, <2>1, <2>2, OrphanKept DEF Fades
<1>6. ASSUME NEW w \in Workers, StartWorker(w)
      PROVE  OrphanInv'
  <2> DEFINE n == [IdleWorker EXCEPT !.pc = "boot", !.job = lock.job]
  <2>1. /\ lock.op = "spawn" /\ lock'.op = "free" /\ store' = store /\ prompts' = prompts
        /\ worker' = [worker EXCEPT ![w] = n]
    BY <1>6, FreeLock DEF StartWorker
  <2>2. n.job = lock.job
    BY DEF IdleWorker
  <2> HIDE DEF n
  <2>3. PICK j \in Jobs : lock.job = j
    BY <2>1 DEF SlotInv, LockInv
  <2>4. ~Interrupted(store'[j]) /\ Cleared(j)'
    BY <2>1, <2>3 DEF OrphanInv, Cleared, Orphans, RecoveryPrompts
  <2>5. \A v \in Workers : Alive(v)' =>
          \/ Alive(v) /\ worker'[v].job = worker[v].job
          \/ v = w /\ worker'[v].job = j
    BY <2>1, <2>2, <2>3 DEF Alive, SlotInv, TypeOK
  <2> QED BY <1>1, <1>2, <1>3, <2>1, <2>4, <2>5, OrphanKept DEF Fades
<1> QED BY <1>4, <1>5, <1>6 DEF Holder

\* A start and a retry come to a job that holds the slot, or to a new one.
LEMMA EntryOrphans ==
  ASSUME SlotInv, RunInv, OrphanInv, NEW j \in Jobs,
         CreateJob(j) \/ StartCheck(j) \/ \E i \in Jobs : RetryCreate(i, j)
  PROVE  OrphanInv'
<1>1. Fades /\ \A i \in Jobs : Leaves(i)
  BY OutsideFades, HolderLeaves
<1>2. UNCHANGED <<worker, cancel, app>> /\ app = "serving"
  BY DEF CreateJob, StartCheck, RetryCreate, Open, serviceVars, errorVars, coordVars
<1>3. /\ \A w \in Workers : Alive(w)' => Alive(w) /\ worker'[w].job = worker[w].job
      /\ \A k \in Cancels : Busy(k)' => Busy(k) /\ cancel'[k].job = cancel[k].job
  BY <1>2 DEF Alive, Busy
<1>4. /\ lock'.op # "spawn"
      /\ lock'.op = "start" => ~Interrupted(store'[lock'.job])
  BY FreeLock
  DEF CreateJob, StartCheck, RetryCreate, Open, Held, Interrupted, Nonterminal, ActiveJob,
      serviceVars, errorVars, coordVars
<1> QED BY <1>1, <1>2, <1>3, <1>4, OrphanKept DEF Fades, Leaves

\* A call stays with its job until it returns.
LEMMA CallStays ==
  ASSUME SlotInv, NEW k \in Cancels, Cancel(k)
  PROVE  \A i \in Cancels : Busy(i)' => Busy(i) /\ cancel'[i].job = cancel[i].job
<1> DEFINE me == cancel[k]
<1>1. /\ me \in CancelState
      /\ Confirming(me).job = me.job /\ Failing(me).job = me.job
      /\ Returned.pc = "returned"
  BY CancelFacts DEF Returned, IdleCancel, Confirming, Failing, CancelState
<1>2. \A pc : [me EXCEPT !.pc = pc].job = me.job
  BY <1>1 DEF CancelState
<1>3. Busy(k)
  BY DEF Cancel, CommitRequest, LookAtRun, Interrupt, SeeClear, WaitTimesOut, StopComfyUI,
     CancelRaises, ReloadForConfirm, CommitConfirm, ReloadForFailure, CommitFailure,
     ConfirmUnloaded, FailureUnloaded, Busy
\* What is left to show of each step.
<1>4. ASSUME NEW n, cancel' = [cancel EXCEPT ![k] = n], n.job = me.job \/ n = Returned
      PROVE  \A i \in Cancels : Busy(i)' => Busy(i) /\ cancel'[i].job = cancel[i].job
  BY <1>1, <1>3, <1>4 DEF Busy, SlotInv, TypeOK
<1>5. \A new, ok, x, r : CancelCommit(k, new, ok, x, r) =>
        \/ cancel' = [cancel EXCEPT ![k] = ok] \/ cancel' = [cancel EXCEPT ![k] = x]
        \/ cancel' = [cancel EXCEPT ![k] = r]
  BY DEF CancelCommit, CancelStep
<1>6. CASE CommitRequest(k)
  <2> DEFINE s == store[me.job]
             ok == [me EXCEPT !.pc = "look", !.loaded = RequestCancel(me.loaded), !.attempt = 0]
             again == Requested([me EXCEPT !.attempt = @ + 1], s)
             x == IF me.attempt = 2 \/ s.status \in TerminalJob THEN Returned ELSE again
  <2>1. ok.job = me.job /\ again.job = me.job
    BY <1>1 DEF CancelState, Requested
  <2>2. CancelCommit(k, RequestCancel(me.loaded), ok, x, Returned)
    BY <1>6 DEF CommitRequest
  <2> HIDE DEF ok, again
  <2>3. x.job = me.job \/ x = Returned
    BY <2>1
  <2> HIDE DEF x
  <2> QED BY <1>4, <1>5, <2>1, <2>2, <2>3
<1>7. CASE LookAtRun(k)
  <2> DEFINE mine == RunOf(me.job)
             run  == IF mine THEN active ELSE NoWorker
             seen == [me EXCEPT !.run = run, !.client = mine /\ client, !.loaded = AbsentState]
             look(b) == [seen EXCEPT !.pc = "interrupt", !.prompt = b]
  <2>1. Confirming(seen).job = me.job /\ \A b : look(b).job = me.job
    BY <1>1 DEF Confirming, CancelState
  <2>2. \/ cancel' = [cancel EXCEPT ![k] = Confirming(seen)]
        \/ \E b : cancel' = [cancel EXCEPT ![k] = look(b)]
    BY <1>7 DEF LookAtRun, CancelGoes, CancelStep
  <2> HIDE DEF seen, look
  <2> QED BY <1>4, <2>1, <2>2
<1>8. CASE Interrupt(k) \/ StopComfyUI(k)
  <2>1. PICK n : cancel' = [cancel EXCEPT ![k] = n] /\ n.job = me.job
    BY <1>2, <1>8 DEF Interrupt, StopComfyUI, CancelStep
  <2> QED BY <1>4, <2>1
<1>9. CASE SeeClear(k) \/ CancelRaises(k)
  BY <1>1, <1>4, <1>9 DEF SeeClear, CancelRaises, CancelGoes, CancelStep
<1>10. CASE WaitTimesOut(k)
  <2>1. PICK n : cancel' = [cancel EXCEPT ![k] = n] /\ n.job = me.job
    BY <1>1, <1>2, <1>10 DEF WaitTimesOut, CancelGoes, CancelStep
  <2> QED BY <1>4, <2>1
<1>11. CASE ReloadForConfirm(k)
  <2> DEFINE n == [me EXCEPT !.pc = "confirm", !.loaded = store[me.job]]
  <2>1. n.job = me.job
    BY <1>1 DEF CancelState
  <2>2. cancel' = [cancel EXCEPT ![k] = Returned] \/ cancel' = [cancel EXCEPT ![k] = n]
    BY <1>11 DEF ReloadForConfirm, CancelGoes, CancelStep
  <2> HIDE DEF n
  <2> QED BY <1>4, <2>1, <2>2
<1>12. CASE ReloadForFailure(k)
  <2> DEFINE n == [me EXCEPT !.pc = "persistFailed", !.loaded = store[me.job]]
  <2>1. n.job = me.job
    BY <1>1 DEF CancelState
  <2>2. cancel' = [cancel EXCEPT ![k] = n]
    BY <1>12 DEF ReloadForFailure, CancelGoes, CancelStep
  <2> HIDE DEF n
  <2> QED BY <1>4, <2>1, <2>2
<1>13. CASE CommitConfirm(k)
  <2> DEFINE again == [me EXCEPT !.pc = "reload", !.attempt = @ + 1, !.loaded = AbsentState]
             x == IF me.attempt = 2 THEN Failing(me) ELSE again
  <2>1. CancelCommit(k, ConfirmCanceled(me.loaded), Returned, x, Failing(me))
    BY <1>13 DEF CommitConfirm
  <2>2. again.job = me.job
    BY <1>1 DEF CancelState
  <2> HIDE DEF again
  <2>3. x.job = me.job
    BY <1>1, <2>2
  <2> HIDE DEF x
  <2> QED BY <1>1, <1>4, <1>5, <2>1, <2>3
<1>14. CASE CommitFailure(k)
  BY <1>4, <1>5, <1>14 DEF CommitFailure
<1>15. CASE ConfirmUnloaded(k) \/ FailureUnloaded(k)
  BY <1>1, <1>4, <1>15 DEF ConfirmUnloaded, FailureUnloaded, CancelStep
<1> QED
  BY <1>6, <1>7, <1>8, <1>9, <1>10, <1>11, <1>12, <1>13, <1>14, <1>15 DEF Cancel

LEMMA CancelOrphans ==
  ASSUME SlotInv, RunInv, OrphanInv,
         NEW k \in Cancels, Cancel(k) \/ \E j \in Jobs : BeginCancel(k, j)
  PROVE  OrphanInv'
<1>1. /\ UNCHANGED <<worker, lock, app>> /\ Fades
      /\ \A i \in Jobs : Leaves(i)
  BY CancelStepIsMove, CancelFades, CallLeaves DEF CancelMove
<1>2. \A w \in Workers : Alive(w)' => Alive(w) /\ worker'[w].job = worker[w].job
  BY <1>1 DEF Alive
<1>3. \A i \in Cancels : Busy(i)' =>
        \/ Busy(i) /\ cancel'[i].job = cancel[i].job
        \/ app = "serving" /\ ~Interrupted(store'[cancel'[i].job])
  <2>1. CASE Cancel(k)
    BY <2>1, CallStays
  <2>2. ASSUME NEW j \in Jobs, BeginCancel(k, j)
        PROVE  \A i \in Cancels : Busy(i)' =>
                 \/ Busy(i) /\ cancel'[i].job = cancel[i].job
                 \/ app = "serving" /\ ~Interrupted(store'[cancel'[i].job])
    <3> DEFINE n == Requested([IdleCancel EXCEPT !.job = j], store[j])
    <3>1. cancel' = [cancel EXCEPT ![k] = n] /\ store' = store /\ app = "serving" /\ Held(j)
      BY <2>2 DEF BeginCancel, CancelGoes, CancelStep, serviceVars, errorVars, Open
    <3>2. n.job = j
      BY DEF Requested, IdleCancel
    <3> HIDE DEF n
    <3>3. ~Interrupted(store[j])
      BY <3>1 DEF Held, Interrupted, Nonterminal, ActiveJob
    <3> QED BY <3>1, <3>2, <3>3 DEF Busy, SlotInv, TypeOK
  <2> QED BY <2>1, <2>2
<1> QED BY <1>1, <1>2, <1>3, OrphanKept DEF Fades, Leaves

\* A death takes threads, calls and the lock; the recovery runs without them.
LEMMA RecoveryOrphans ==
  ASSUME SlotInv, RunInv, OrphanInv,
         \/ Comfy \/ Shutdown \/ Serve \/ ProcessDies \/ UNCHANGED vars
         \/ \E j \in Jobs : RecoverJob(j)
  PROVE  OrphanInv'
<1>1. CASE Comfy \/ Shutdown \/ UNCHANGED vars
  <2>1. Fades /\ UNCHANGED <<store, worker, lock, cancel, app>>
    BY <1>1, OutsideFades
    DEF Comfy, ComfyStops, PromptEnds, Shutdown, vars, serviceVars, errorVars, coordVars
  <2>2. /\ \A w \in Workers : Alive(w)' => Alive(w) /\ worker'[w].job = worker[w].job
        /\ \A k \in Cancels : Busy(k)' => Busy(k) /\ cancel'[k].job = cancel[k].job
    BY <2>1 DEF Alive, Busy
  <2> QED BY <2>1, <2>2, OrphanKept DEF Fades
<1>2. CASE Serve \/ \E j \in Jobs : RecoverJob(j)
  <2>1. app = "recovering" /\ UNCHANGED <<worker, lock, cancel>>
    BY <1>2 DEF Serve, RecoverJob, serviceVars, errorVars, coordVars
  <2> QED BY <2>1 DEF OrphanInv, Alive
<1>3. CASE ProcessDies
  <2>1. /\ \A w \in Workers : worker'[w].pc \in {"idle", "dead"}
        /\ \A k \in Cancels : cancel'[k].pc \in {"idle", "returned"}
        /\ lock'.op = "free"
    BY <1>3, FreeLock DEF ProcessDies, IdleWorker, DeadWorker, IdleCancel, Returned
  <2> QED BY <2>1 DEF OrphanInv, Alive
<1> QED BY <1>1, <1>2, <1>3

LEMMA OrphanStep ==
  ASSUME SlotInv, RunInv, DutyInv, OrphanInv, [Next]_vars
  PROVE  OrphanInv'
BY HolderOrphans, EntryOrphans, ThreadOrphans, CancelOrphans, RecoveryOrphans DEF Next

LEMMA InitOrphanInv == Init => OrphanInv
<1> SUFFICES ASSUME Init PROVE OrphanInv
  OBVIOUS
<1>1. /\ \A w \in Workers : worker[w].pc = "idle"
      /\ \A k \in Cancels : cancel[k].pc = "idle"
      /\ lock.op = "free" /\ app = "serving"
  BY FreeLock DEF Init, IdleWorker, IdleCancel
<1> QED BY <1>1 DEF OrphanInv, Alive

----------------------------------------------------------------------------
(* Theorems *)

\* The whole inductive invariant of the coordinator, which the conflicts of the
\* writers and the storage errors of their loads and commits leave in place.
THEOREM Invariant == Spec => []Inv
<1>1. Init => Inv
  BY InitSlotInv, InitRunInv, InitDutyInv, InitOrphanInv DEF Inv
<1>2. Inv /\ [Next]_vars => Inv'
  BY NextStep, RunStep, DutyStep, OrphanStep DEF Inv
<1> QED BY <1>1, <1>2, PTL DEF Spec

\* No job ever has two threads, with any number of starts, retries and ends of
\* threads, and the thread of a job that holds the slot is the active run.
THEOREM OneThread == Spec => []OneWorkerPerJob
<1>1. Inv => OneWorkerPerJob
  BY DEF Inv, RunInv
<1> QED BY Invariant, <1>1, PTL

\* A thread is signalled only when its stored job records the request, although
\* the call that signals it looked up the run, and left the lock, long before.
THEOREM SignalJustified == Spec => []SignalMeansRequested
<1>1. Inv => SignalMeansRequested
  BY DEF Inv, RunInv
<1> QED BY Invariant, <1>1, PTL

\* While the application serves, an active job has a living thread or a
\* recorded cancel request, or is one whose end a storage error kept somebody
\* from recording: neither another error, a conflict nor a thread that fails to
\* boot leaves the slot taken with nobody to finish the job.
THEOREM NobodyAbandoned == Spec => []AbandonedOnlyByCancel
<1>1. Inv => AbandonedOnlyByCancel
  BY DEF Inv, DutyInv
<1> QED BY Invariant, <1>1, PTL

\* Only a thread submits, and only beside orphans that have left the queue: the
\* look at the orphans and the submission are many steps apart.
THEOREM OrphansFirst == Spec => OrphansClearedFirst
<1> DEFINE Cleaned == \A p \in DOMAIN prompts :
                        prompts[p] # "live" /\ prompts'[p] = "live" =>
                          \A q \in Orphans(p[1]) : prompts[q] # "live"
<1>1. Inv /\ [Next]_vars => Cleaned
  <2> SUFFICES ASSUME Inv, [Next]_vars PROVE Cleaned
    OBVIOUS
  <2>1. SlotInv /\ DutyInv /\ OrphanInv /\ DOMAIN prompts = Jobs \X Batches
    BY DEF Inv, SlotInv, TypeOK
  <2>2. Fades => Cleaned
    BY <2>1 DEF Fades
  <2>3. ASSUME NEW w \in Workers, Thread(w)
        PROVE  Cleaned
    <3>1. CASE Work(w)
      <4>1. Attends(w) /\ Alive(w)
        BY <2>1, <3>1, RunJobStep, RunJobAttends DEF Work, WorkerStep
      <4>2. Cleared(worker[w].job)
        BY <2>1, <4>1 DEF OrphanInv
      <4> QED BY <2>1, <4>1, <4>2 DEF Attends, Cleared
    <3>2. CASE BootWorker(w) \/ BootFails(w) \/ EndWorker(w)
      BY <3>2 DEF BootWorker, BootFails, EndWorker
    <3> QED BY <2>3, <3>1, <3>2 DEF Thread
  <2>4. \/ \E w \in Workers : Thread(w)
        \/ Fades
    BY <2>1, OutsideFades, CancelFades DEF Next
  <2> QED BY <2>2, <2>3, <2>4
<1>2. Cleaned => [Cleaned]_vars
  OBVIOUS
<1> QED BY Invariant, <1>1, PTL DEF Spec, OrphansClearedFirst
=============================================================================
