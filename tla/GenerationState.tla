--------------------------- MODULE GenerationState ---------------------------
(***************************************************************************)
(* The durable record of one generation job and the pure transitions that  *)
(* jobs/generation_state.py applies to it.  A transition is a guard        *)
(* (CanX: the code raises INVALID_JOB_TRANSITION when it is false) and a   *)
(* successor (X), which always carries the next revision.                  *)
(*                                                                         *)
(* Abstracted: timestamps, seeds, artifact digests and messages.  The      *)
(* prompt id of a batch is a Boolean, because a batch is submitted at most *)
(* once: <<job, batch>> names its prompt.  A failure is its error code,    *)
(* with every code of the worker's own errors taken as one, "execution".   *)
(***************************************************************************)
EXTENDS Naturals

CONSTANTS
  BatchCount,   \* native batches of the execution plan (4, 2 or 1)
  Parallelism   \* candidates of one native batch (1, 2 or 4)

ASSUME PlanAssumption ==
  /\ BatchCount \in Nat \ {0}
  /\ Parallelism \in Nat \ {0}

\* A candidate is named by its batch and its place there; the code's index is
\* batch * Parallelism + place.
Batches    == 0 .. BatchCount - 1
Places     == 0 .. Parallelism - 1
Candidates == Batches \X Places

BatchOf(c) == c[1]
Members(b) == {b} \X Places

----------------------------------------------------------------------------
(* Vocabulary *)

ActiveJob   == {"generating", "postprocessing"}
Nonterminal == {"queued"} \cup ActiveJob
TerminalJob == {"completed", "failed", "canceled"}
\* "absent" is a job directory that does not exist yet.
JobStatus   == {"absent"} \cup Nonterminal \cup TerminalJob

BatchStatus == {"pending", "generating", "raw_ready", "completed", "failed", "canceled"}

OpenCandidate   == {"pending", "generating", "raw_ready", "postprocessing"}
DoneCandidate   == {"completed", "inherited"}
CandidateStatus == OpenCandidate \cup DoneCandidate \cup {"failed", "canceled"}

FailureCode == {"none", "execution", "unconfirmed", "interrupted"}

JobState ==
  [ rev     : Nat,
    status  : JobStatus,
    cancel  : BOOLEAN,                   \* cancel_requested_at is set
    failure : FailureCode,
    batch   : [Batches -> BatchStatus],
    prompt  : [Batches -> BOOLEAN],      \* the batch records a prompt id
    raw     : [Batches -> BOOLEAN],      \* the batch records its raw artifacts
    cause   : [Batches -> FailureCode],  \* the failure of a failed batch
    cand    : [Candidates -> CandidateStatus] ]

\* GenerationJobState.initial: revision 0, everything pending.
InitialState ==
  [ rev     |-> 0,
    status  |-> "queued",
    cancel  |-> FALSE,
    failure |-> "none",
    batch   |-> [b \in Batches |-> "pending"],
    prompt  |-> [b \in Batches |-> FALSE],
    raw     |-> [b \in Batches |-> FALSE],
    cause   |-> [b \in Batches |-> "none"],
    cand    |-> [c \in Candidates |-> "pending"] ]

AbsentState == [InitialState EXCEPT !.status = "absent"]

----------------------------------------------------------------------------
(* Transitions *)

CanStartGeneration(s) == s.status = "queued"
StartGeneration(s) == [s EXCEPT !.rev = @ + 1, !.status = "generating"]

CanRequestCancel(s) == s.status \notin TerminalJob
RequestCancel(s) ==
  IF s.cancel THEN s ELSE [s EXCEPT !.rev = @ + 1, !.cancel = TRUE]

CanStartBatch(s, b) == s.status \in ActiveJob /\ s.batch[b] = "pending"
StartBatch(s, b) ==
  [s EXCEPT !.rev = @ + 1,
            !.batch[b] = "generating",
            !.cand = [c \in Candidates |->
                        IF c \in Members(b) THEN "generating" ELSE s.cand[c]]]

\* _state_with_prompt_id, in generation/service.py: no guard of its own.
RecordPrompt(s, b) == [s EXCEPT !.rev = @ + 1, !.prompt[b] = TRUE]

\* The sampled step is abstracted: only the revision shows.
CanRecordProgress(s, b) == s.batch[b] = "generating"
RecordProgress(s, b) == [s EXCEPT !.rev = @ + 1]

CanMarkRawReady(s, b) == s.batch[b] = "generating"
MarkRawReady(s, b) ==
  [s EXCEPT !.rev = @ + 1,
            !.status = "postprocessing",
            !.batch[b] = "raw_ready",
            !.prompt[b] = FALSE,
            !.raw[b] = TRUE,
            !.cand = [c \in Candidates |->
                        IF c \in Members(b) THEN "raw_ready" ELSE s.cand[c]]]

AllDone(s, b) == \A c \in Members(b) : s.cand[c] \in DoneCandidate
JobDone(s)    == \A c \in Candidates : s.cand[c] \in DoneCandidate

\* Seeded fault: any unfinished candidate may be completed.
CanCompleteUnfinished(s, c) == s.cand[c] \notin DoneCandidate

CanCompleteCandidate(s, c) == s.cand[c] \in {"raw_ready", "postprocessing"}
CompleteCandidate(s, c) ==
  LET b == BatchOf(c)
      t == [s EXCEPT !.rev = @ + 1, !.cand[c] = "completed"]
  IN IF AllDone(t, b)
     THEN [t EXCEPT !.batch[b] = "completed", !.prompt[b] = FALSE]
     ELSE t

CanCompleteGeneration(s) == JobDone(s)
CompleteGeneration(s) ==
  [s EXCEPT !.rev = @ + 1,
            !.status = "completed",
            !.failure = "none",
            !.prompt = [b \in Batches |-> FALSE]]

\* Seeded faults: an unconfirmed cancel that does not ask whether the job is
\* active, a cancel that takes the finished candidates too.
StaysOpenAlways(s, code) == s.cancel /\ code = "unconfirmed"

ConfirmCanceledAll(s) ==
  [s EXCEPT !.rev = @ + 1,
            !.status = "canceled",
            !.failure = "none",
            !.cand   = [c \in Candidates |-> "canceled"],
            !.batch  = [b \in Batches |-> "canceled"],
            !.prompt = [b \in Batches |-> FALSE]]

\* fail_generation.  A cancel that could not be confirmed leaves an active job
\* active; every other failure closes it, and a batch keeps its prompt id.
StaysOpen(s, code) == s.cancel /\ code = "unconfirmed" /\ s.status \in ActiveJob

FailedCandidate(status) ==
  CASE status = "pending" -> "canceled"
    [] status \in OpenCandidate \ {"pending"} -> "failed"
    [] OTHER -> status

FailedBatch(status) ==
  CASE status = "pending" -> "canceled"
    [] status \in {"generating", "raw_ready"} -> "failed"
    [] OTHER -> status

FailGeneration(s, code) ==
  IF StaysOpen(s, code)
  THEN [s EXCEPT !.rev = @ + 1, !.failure = code]
  ELSE [s EXCEPT !.rev = @ + 1,
                 !.status = "failed",
                 !.failure = code,
                 !.cand  = [c \in Candidates |-> FailedCandidate(s.cand[c])],
                 !.batch = [b \in Batches |-> FailedBatch(s.batch[b])],
                 !.cause = [b \in Batches |->
                              IF s.batch[b] \in {"generating", "raw_ready"}
                              THEN code ELSE s.cause[b]]]

\* confirm_canceled: its only guard is the recorded request.
CanConfirmCanceled(s) == s.cancel

CanceledBatch(s, b) ==
  CASE AllDone(s, b) -> "completed"
    [] s.batch[b] = "failed" /\ ~AllDone(s, b) -> "failed"
    [] OTHER -> "canceled"

ConfirmCanceled(s) ==
  [s EXCEPT !.rev = @ + 1,
            !.status = "canceled",
            !.failure = "none",
            !.cand   = [c \in Candidates |->
                          IF s.cand[c] \in OpenCandidate THEN "canceled" ELSE s.cand[c]],
            !.batch  = [b \in Batches |-> CanceledBatch(s, b)],
            !.prompt = [b \in Batches |-> FALSE]]

\* Seeded fault: post-processing is not taken for interrupted work.
RecoverGenerating(s) ==
  IF s.status = "generating" THEN FailGeneration(s, "interrupted") ELSE s

\* recover_generation_interruption
RecoverInterruption(s) ==
  IF s.status \in ActiveJob THEN FailGeneration(s, "interrupted") ELSE s

\* The state retry_job commits for a child of parent: batches whose raw
\* artifacts the parent holds are not rendered again, candidates it completed
\* are inherited.
InheritFrom(child, parent) ==
  LET inherited(c) == parent.raw[BatchOf(c)] /\ parent.cand[c] \in DoneCandidate
  IN [child EXCEPT
        !.rev   = @ + 1,
        !.raw   = parent.raw,
        !.cand  = [c \in Candidates |->
                     CASE inherited(c) -> "inherited"
                       [] parent.raw[BatchOf(c)] /\ ~inherited(c) -> "raw_ready"
                       [] OTHER -> child.cand[c]],
        !.batch = [b \in Batches |->
                     CASE parent.raw[b] /\ AllDone(parent, b) -> "completed"
                       [] parent.raw[b] /\ ~AllDone(parent, b) -> "raw_ready"
                       [] OTHER -> child.batch[b]]]

----------------------------------------------------------------------------
(* What the record's own validators demand of every state that is built.   *)

ValidRecord(s) ==
  /\ \A b \in Batches :
       /\ s.batch[b] = "failed" <=> s.cause[b] # "none"
       /\ s.batch[b] \in {"raw_ready", "completed"} => s.raw[b]
  /\ s.status = "failed" => s.failure # "none"
  /\ s.failure # "none" /\ s.status # "failed" =>
       s.status \in ActiveJob /\ s.cancel /\ s.failure = "unconfirmed"
  /\ s.status = "queued" =>
       \A c \in Candidates : s.cand[c] \notin {"generating", "postprocessing"}
  /\ s.status = "completed" => JobDone(s)
  /\ s.status \in TerminalJob => \A c \in Candidates : s.cand[c] \notin OpenCandidate

\* ValidRecord is not preserved by the transitions on its own: what they keep
\* is how the statuses of a batch and of its candidates go together.
Consistent(s) ==
  /\ ValidRecord(s)
  /\ s.status = "absent" => s = AbsentState
  /\ \A b \in Batches :
       /\ s.batch[b] = "pending" => \A c \in Members(b) : s.cand[c] = "pending"
       /\ s.batch[b] = "generating" => \A c \in Members(b) : s.cand[c] = "generating"
       /\ s.batch[b] \in {"raw_ready", "failed"} => ~AllDone(s, b)
       /\ s.status \in TerminalJob => s.batch[b] # "generating"
  /\ \A c \in Candidates :
       /\ s.cand[c] \in {"raw_ready", "postprocessing"} => s.batch[BatchOf(c)] = "raw_ready"
       /\ s.cand[c] \in DoneCandidate => s.raw[BatchOf(c)]

\* What a write to a stored record may do to it, whoever writes.
Successor(s, t) ==
  /\ t.rev = s.rev + 1
  /\ t.status # "absent"
  /\ s.status \in TerminalJob => t.status \in TerminalJob
  /\ s.cancel => t.cancel
  /\ \A b \in Batches : s.raw[b] => t.raw[b]
  /\ \A c \in Candidates : s.cand[c] \in DoneCandidate => t.cand[c] = s.cand[c]
  /\ s.status \in TerminalJob \/ t.status \in TerminalJob =>
       \A c \in Candidates : t.cand[c] \in DoneCandidate => s.cand[c] \in DoneCandidate
=============================================================================
