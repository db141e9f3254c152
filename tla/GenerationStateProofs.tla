------------------------ MODULE GenerationStateProofs ------------------------
(***************************************************************************)
(* Every transition of GenerationState, applied where its guard holds to a *)
(* consistent record, yields a consistent record that is a successor of it.*)
(***************************************************************************)
EXTENDS GenerationState, TLAPS

Writes(s, t) == t \in JobState /\ Consistent(t) /\ Successor(s, t)

USE DEF Nonterminal, ActiveJob, TerminalJob, DoneCandidate, OpenCandidate

LEMMA MembersOf ==
  ASSUME NEW b \in Batches
  PROVE  /\ Members(b) \subseteq Candidates
         /\ \E c \in Members(b) : TRUE
         /\ \A c \in Members(b) : BatchOf(c) = b
BY PlanAssumption, <<b, 0>> \in Members(b) DEF Members, Candidates, BatchOf, Places

LEMMA MemberOfBatch ==
  ASSUME NEW c \in Candidates
  PROVE  BatchOf(c) \in Batches /\ c \in Members(BatchOf(c))
BY DEF Members, Candidates, BatchOf

LEMMA NextRev ==
  ASSUME NEW s \in JobState
  PROVE  s.rev + 1 \in Nat
BY DEF JobState

\* start_generation
LEMMA StartGenerationWrites ==
  ASSUME NEW s \in JobState, Consistent(s), CanStartGeneration(s)
  PROVE  Writes(s, StartGeneration(s))
<1> DEFINE t == StartGeneration(s)
<1>1. t \in JobState
  BY NextRev DEF StartGeneration, JobState, JobStatus
<1>2. /\ t.rev = s.rev + 1 /\ t.status = "generating" /\ t.cancel = s.cancel
      /\ t.failure = s.failure /\ t.batch = s.batch /\ t.raw = s.raw
      /\ t.cause = s.cause /\ t.cand = s.cand
  BY DEF StartGeneration, JobState
<1> HIDE DEF t
<1>3. Consistent(t)
  BY <1>2 DEF Consistent, ValidRecord, CanStartGeneration, AllDone, JobDone
<1>4. Successor(s, t)
  BY <1>2 DEF Successor, CanStartGeneration
<1> QED BY <1>1, <1>3, <1>4 DEF t, Writes

\* request_cancel, where nothing was requested before
LEMMA RequestCancelWrites ==
  ASSUME NEW s \in JobState, Consistent(s), s.status # "absent",
         CanRequestCancel(s), ~s.cancel
  PROVE  Writes(s, RequestCancel(s)) /\ RequestCancel(s).cancel
<1> DEFINE t == RequestCancel(s)
<1>1. t \in JobState
  BY NextRev DEF RequestCancel, JobState
<1>2. /\ t.rev = s.rev + 1 /\ t.status = s.status /\ t.cancel
      /\ t.failure = s.failure /\ t.batch = s.batch /\ t.raw = s.raw
      /\ t.cause = s.cause /\ t.cand = s.cand
  BY DEF RequestCancel, JobState
<1> HIDE DEF t
<1>3. Consistent(t)
  BY <1>2 DEF Consistent, ValidRecord, CanRequestCancel, AllDone, JobDone
<1>4. Successor(s, t)
  BY <1>2 DEF Successor, CanRequestCancel
<1> QED BY <1>1, <1>2, <1>3, <1>4 DEF t, Writes

\* start_batch
LEMMA StartBatchWrites ==
  ASSUME NEW s \in JobState, NEW b \in Batches, Consistent(s), CanStartBatch(s, b)
  PROVE  Writes(s, StartBatch(s, b))
<1> DEFINE t == StartBatch(s, b)
<1>1. t \in JobState
  BY NextRev DEF StartBatch, JobState, BatchStatus, CandidateStatus
<1>2. /\ t.rev = s.rev + 1 /\ t.status = s.status /\ t.cancel = s.cancel
      /\ t.failure = s.failure /\ t.raw = s.raw /\ t.cause = s.cause
      /\ \A x \in Batches : t.batch[x] = IF x = b THEN "generating" ELSE s.batch[x]
      /\ \A c \in Candidates :
           t.cand[c] = IF c \in Members(b) THEN "generating" ELSE s.cand[c]
  BY DEF StartBatch, JobState
<1>3. s.status \in ActiveJob /\ s.batch[b] = "pending"
  BY DEF CanStartBatch
<1> HIDE DEF t
<1>4. \A c \in Members(b) : s.cand[c] = "pending"
  BY <1>3 DEF Consistent
<1>5. \A c \in Candidates : c \in Members(b) <=> BatchOf(c) = b
  BY MembersOf, MemberOfBatch
<1>6. \A x \in Batches : x # b =>
        \A c \in Members(x) : t.cand[c] = s.cand[c]
  BY <1>2, <1>5, MembersOf
<1>7. \A x \in Batches : x # b => (AllDone(t, x) <=> AllDone(s, x))
  BY <1>6 DEF AllDone
<1>8. \A c \in Members(b) : t.cand[c] = "generating"
  BY <1>2, MembersOf
<1>9. ValidRecord(t)
  BY <1>2, <1>3 DEF ValidRecord, Consistent
<1>10. Consistent(t)
  BY <1>2, <1>3, <1>5, <1>6, <1>7, <1>8, <1>9, MemberOfBatch DEF Consistent
<1>11. Successor(s, t)
  BY <1>2, <1>3, <1>4, MembersOf DEF Successor
<1> QED BY <1>1, <1>10, <1>11 DEF t, Writes

\* _state_with_prompt_id
LEMMA RecordPromptWrites ==
  ASSUME NEW s \in JobState, NEW b \in Batches, Consistent(s), s.status # "absent"
  PROVE  Writes(s, RecordPrompt(s, b))
<1> DEFINE t == RecordPrompt(s, b)
<1>1. t \in JobState
  BY NextRev DEF RecordPrompt, JobState
<1>2. /\ t.rev = s.rev + 1 /\ t.status = s.status /\ t.cancel = s.cancel
      /\ t.failure = s.failure /\ t.batch = s.batch /\ t.raw = s.raw
      /\ t.cause = s.cause /\ t.cand = s.cand
  BY DEF RecordPrompt, JobState
<1> HIDE DEF t
<1>3. Consistent(t)
  BY <1>2 DEF Consistent, ValidRecord, AllDone, JobDone
<1>4. Successor(s, t)
  BY <1>2 DEF Successor
<1> QED BY <1>1, <1>3, <1>4 DEF t, Writes

\* record_progress
LEMMA RecordProgressWrites ==
  ASSUME NEW s \in JobState, NEW b \in Batches, Consistent(s), s.status # "absent"
  PROVE  Writes(s, RecordProgress(s, b))
<1> DEFINE t == RecordProgress(s, b)
<1>1. t \in JobState
  BY NextRev DEF RecordProgress, JobState
<1>2. /\ t.rev = s.rev + 1 /\ t.status = s.status /\ t.cancel = s.cancel
      /\ t.failure = s.failure /\ t.batch = s.batch /\ t.raw = s.raw
      /\ t.cause = s.cause /\ t.cand = s.cand
  BY DEF RecordProgress, JobState
<1> HIDE DEF t
<1>3. Consistent(t)
  BY <1>2 DEF Consistent, ValidRecord, AllDone, JobDone
<1>4. Successor(s, t)
  BY <1>2 DEF Successor
<1> QED BY <1>1, <1>3, <1>4 DEF t, Writes

\* mark_batch_raw_ready: a batch is generating only in an active job
LEMMA MarkRawReadyWrites ==
  ASSUME NEW s \in JobState, NEW b \in Batches, Consistent(s), CanMarkRawReady(s, b)
  PROVE  Writes(s, MarkRawReady(s, b)) /\ s.status \in ActiveJob
<1> DEFINE t == MarkRawReady(s, b)
<1>1. t \in JobState
  BY NextRev DEF MarkRawReady, JobState, JobStatus, BatchStatus, CandidateStatus
<1>2. /\ t.rev = s.rev + 1 /\ t.status = "postprocessing" /\ t.cancel = s.cancel
      /\ t.failure = s.failure /\ t.cause = s.cause
      /\ \A x \in Batches : t.batch[x] = IF x = b THEN "raw_ready" ELSE s.batch[x]
      /\ \A x \in Batches : t.raw[x] <=> x = b \/ s.raw[x]
      /\ \A c \in Candidates :
           t.cand[c] = IF c \in Members(b) THEN "raw_ready" ELSE s.cand[c]
  BY DEF MarkRawReady, JobState
<1> HIDE DEF t
<1>3. s.batch[b] = "generating" /\ \A c \in Members(b) : s.cand[c] = "generating"
  BY DEF CanMarkRawReady, Consistent
<1>4. s.status # "absent"
  BY <1>3 DEF Consistent, AbsentState, InitialState
<1>5. PICK g \in Members(b) : g \in Candidates /\ s.cand[g] = "generating"
  BY <1>3, MembersOf
<1>6. s.status \in ActiveJob
  BY <1>3, <1>4, <1>5 DEF Consistent, ValidRecord, JobState, JobStatus
<1>7. \A c \in Candidates : c \in Members(b) <=> BatchOf(c) = b
  BY MembersOf, MemberOfBatch
<1>8. \A x \in Batches : x # b =>
        /\ \A c \in Members(x) : t.cand[c] = s.cand[c]
        /\ AllDone(t, x) <=> AllDone(s, x)
  BY <1>2, <1>7, MembersOf DEF AllDone
<1>9. \A c \in Members(b) : t.cand[c] = "raw_ready"
  BY <1>2, MembersOf
<1>10. ~AllDone(t, b)
  BY <1>5, <1>9 DEF AllDone
<1>11. ValidRecord(t)
  <2>1. \A x \in Batches :
          /\ t.batch[x] = "failed" <=> t.cause[x] # "none"
          /\ t.batch[x] \in {"raw_ready", "completed"} => t.raw[x]
    BY <1>2, <1>3 DEF ValidRecord, Consistent
  <2>2. t.failure # "none" => t.cancel /\ t.failure = "unconfirmed"
    BY <1>2, <1>6 DEF ValidRecord, Consistent
  <2> QED BY <1>2, <2>1, <2>2 DEF ValidRecord
<1>12. Consistent(t)
  <2>1. \A x \in Batches :
          /\ t.batch[x] = "pending" => \A c \in Members(x) : t.cand[c] = "pending"
          /\ t.batch[x] = "generating" => \A c \in Members(x) : t.cand[c] = "generating"
          /\ t.batch[x] \in {"raw_ready", "failed"} => ~AllDone(t, x)
    BY <1>2, <1>8, <1>10 DEF Consistent
  <2>2. \A c \in Candidates :
          /\ t.cand[c] \in {"raw_ready", "postprocessing"} => t.batch[BatchOf(c)] = "raw_ready"
          /\ t.cand[c] \in DoneCandidate => t.raw[BatchOf(c)]
    BY <1>2, <1>7, MemberOfBatch DEF Consistent
  <2> QED BY <1>2, <1>11, <2>1, <2>2 DEF Consistent
<1>13. Successor(s, t)
  BY <1>2, <1>3, <1>6, MembersOf DEF Successor
<1> QED BY <1>1, <1>6, <1>12, <1>13 DEF t, Writes

\* complete_candidate: a candidate is raw_ready only in a raw_ready batch
LEMMA CompleteCandidateWrites ==
  ASSUME NEW s \in JobState, NEW c \in Candidates, Consistent(s),
         CanCompleteCandidate(s, c)
  PROVE  Writes(s, CompleteCandidate(s, c))
<1> DEFINE b == BatchOf(c)
           r == [s EXCEPT !.rev = @ + 1, !.cand[c] = "completed"]
           t == CompleteCandidate(s, c)
<1>1. r \in JobState
  BY NextRev DEF JobState, CandidateStatus
<1>2. /\ r.rev = s.rev + 1 /\ r.status = s.status /\ r.cancel = s.cancel
      /\ r.failure = s.failure /\ r.cause = s.cause /\ r.raw = s.raw
      /\ r.batch = s.batch /\ r.prompt = s.prompt
      /\ \A d \in Candidates : r.cand[d] = IF d = c THEN "completed" ELSE s.cand[d]
  BY DEF JobState
<1>b. b \in Batches /\ c \in Members(b)
  BY MemberOfBatch
<1>3. t = IF AllDone(r, b) THEN [r EXCEPT !.batch[b] = "completed", !.prompt[b] = FALSE] ELSE r
  BY DEF CompleteCandidate
<1> HIDE DEF r, t
<1>4. t \in JobState
  BY <1>1, <1>3 DEF JobState, BatchStatus
<1>5. /\ t.rev = s.rev + 1 /\ t.status = s.status /\ t.cancel = s.cancel
      /\ t.failure = s.failure /\ t.cause = s.cause /\ t.raw = s.raw
      /\ t.cand = r.cand
      /\ \A x \in Batches :
           t.batch[x] = IF x = b /\ AllDone(r, b) THEN "completed" ELSE s.batch[x]
  BY <1>1, <1>2, <1>3, <1>b DEF JobState
<1> HIDE DEF b
<1>6. s.cand[c] \in {"raw_ready", "postprocessing"} /\ s.batch[b] = "raw_ready" /\ s.raw[b]
  BY <1>b DEF CanCompleteCandidate, Consistent, ValidRecord, b
<1>7. s.status \notin TerminalJob /\ s.status # "absent"
  BY <1>6 DEF Consistent, ValidRecord, AbsentState, InitialState
<1>8. \A x \in Batches : x # b =>
        /\ \A d \in Members(x) : t.cand[d] = s.cand[d]
        /\ AllDone(t, x) <=> AllDone(s, x)
  BY <1>2, <1>5, MembersOf DEF AllDone, b
<1>9. AllDone(t, b) <=> AllDone(r, b)
  BY <1>5 DEF AllDone
<1>10. \A d \in Candidates : t.cand[d] = IF d = c THEN "completed" ELSE s.cand[d]
  BY <1>2, <1>5
<1>11. ValidRecord(t)
  <2>1. \A x \in Batches :
          /\ t.batch[x] = "failed" <=> t.cause[x] # "none"
          /\ t.batch[x] \in {"raw_ready", "completed"} => t.raw[x]
    BY <1>5, <1>6 DEF ValidRecord, Consistent
  <2>2. t.status = "queued" =>
          \A d \in Candidates : t.cand[d] \notin {"generating", "postprocessing"}
    BY <1>5, <1>10 DEF ValidRecord, Consistent
  <2> QED BY <1>5, <1>7, <2>1, <2>2 DEF ValidRecord, Consistent
<1>12. \A d \in Candidates : d # c /\ BatchOf(d) = b => (AllDone(r, b) => s.cand[d] \in DoneCandidate)
  BY <1>2, MemberOfBatch DEF AllDone
<1>13. Consistent(t)
  <2>1. \A x \in Batches :
          /\ t.batch[x] = "pending" => \A d \in Members(x) : t.cand[d] = "pending"
          /\ t.batch[x] = "generating" => \A d \in Members(x) : t.cand[d] = "generating"
          /\ t.batch[x] \in {"raw_ready", "failed"} => ~AllDone(t, x)
    BY <1>5, <1>6, <1>8, <1>9 DEF Consistent
  <2>2. \A d \in Candidates :
          /\ t.cand[d] \in {"raw_ready", "postprocessing"} => t.batch[BatchOf(d)] = "raw_ready"
          /\ t.cand[d] \in DoneCandidate => t.raw[BatchOf(d)]
    BY <1>5, <1>6, <1>10, <1>12, MemberOfBatch DEF Consistent, b
  <2> QED BY <1>5, <1>7, <1>11, <2>1, <2>2 DEF Consistent
<1>14. Successor(s, t)
  BY <1>5, <1>7, <1>6, <1>10 DEF Successor
<1> QED BY <1>4, <1>13, <1>14 DEF t, Writes

\* complete_generation
LEMMA CompleteGenerationWrites ==
  ASSUME NEW s \in JobState, Consistent(s), CanCompleteGeneration(s)
  PROVE  Writes(s, CompleteGeneration(s)) /\ s.status # "absent"
<1> DEFINE t == CompleteGeneration(s)
<1>1. t \in JobState
  BY NextRev DEF CompleteGeneration, JobState, JobStatus, FailureCode
<1>2. /\ t.rev = s.rev + 1 /\ t.status = "completed" /\ t.cancel = s.cancel
      /\ t.failure = "none" /\ t.batch = s.batch /\ t.raw = s.raw
      /\ t.cause = s.cause /\ t.cand = s.cand
  BY DEF CompleteGeneration, JobState
<1> HIDE DEF t
<1>3. \A c \in Candidates : s.cand[c] \in DoneCandidate
  BY DEF CanCompleteGeneration, JobDone
<1>4. <<0, 0>> \in Candidates
  BY PlanAssumption DEF Candidates, Batches, Places
<1>5. s.status # "absent"
  BY <1>3, <1>4 DEF Consistent, AbsentState, InitialState
<1>6. \A b \in Batches : s.batch[b] # "generating"
  BY <1>3, MembersOf DEF Consistent
<1>7. Consistent(t)
  BY <1>2, <1>3, <1>6 DEF Consistent, ValidRecord, AllDone, JobDone
<1>8. Successor(s, t)
  BY <1>2 DEF Successor
<1> QED BY <1>1, <1>5, <1>7, <1>8 DEF t, Writes

\* fail_generation, of any existing record: an unconfirmed cancel leaves an
\* active job as it is, and every other failure closes all that is open.
LEMMA FailGenerationWrites ==
  ASSUME NEW s \in JobState, NEW code \in FailureCode \ {"none"}, Consistent(s),
         s.status # "absent"
  PROVE  Writes(s, FailGeneration(s, code))
<1> DEFINE t == FailGeneration(s, code)
<1>1. CASE StaysOpen(s, code)
  <2>1. t \in JobState
    BY <1>1, NextRev DEF FailGeneration, JobState, FailureCode
  <2>2. /\ t.rev = s.rev + 1 /\ t.status = s.status /\ t.cancel = s.cancel
        /\ t.failure = code /\ t.batch = s.batch /\ t.raw = s.raw
        /\ t.cause = s.cause /\ t.cand = s.cand
    BY <1>1 DEF FailGeneration, JobState
  <2> HIDE DEF t
  <2>3. Consistent(t)
    BY <1>1, <2>2 DEF Consistent, ValidRecord, StaysOpen, AllDone, JobDone
  <2>4. Successor(s, t)
    BY <1>1, <2>2 DEF Successor, StaysOpen
  <2> QED BY <2>1, <2>3, <2>4 DEF t, Writes
<1>2. CASE ~StaysOpen(s, code)
  <2>0. /\ \A x \in CandidateStatus : FailedCandidate(x) \in CandidateStatus \ OpenCandidate
        /\ \A x \in CandidateStatus :
             /\ x \in DoneCandidate => FailedCandidate(x) = x
             /\ FailedCandidate(x) \in DoneCandidate => x \in DoneCandidate
        /\ \A x \in BatchStatus : FailedBatch(x) =
              IF x = "pending" THEN "canceled"
              ELSE IF x \in {"generating", "raw_ready"} THEN "failed" ELSE x
    BY DEF FailedCandidate, FailedBatch, CandidateStatus, BatchStatus
  <2>1. t = [s EXCEPT !.rev = s.rev + 1,
                      !.status = "failed",
                      !.failure = code,
                      !.cand  = [c \in Candidates |-> FailedCandidate(s.cand[c])],
                      !.batch = [b \in Batches |-> FailedBatch(s.batch[b])],
                      !.cause = [b \in Batches |->
                                   IF s.batch[b] \in {"generating", "raw_ready"}
                                   THEN code ELSE s.cause[b]]]
    BY <1>2 DEF FailGeneration
  <2>2. /\ t.rev = s.rev + 1 /\ t.status = "failed" /\ t.cancel = s.cancel
        /\ t.failure = code /\ t.raw = s.raw
        /\ \A c \in Candidates : t.cand[c] = FailedCandidate(s.cand[c])
        /\ \A b \in Batches : t.batch[b] = FailedBatch(s.batch[b])
        /\ \A b \in Batches :
             t.cause[b] = IF s.batch[b] \in {"generating", "raw_ready"} THEN code ELSE s.cause[b]
    BY <2>1 DEF JobState
  <2>3. t \in JobState
    <3>1. [c \in Candidates |-> FailedCandidate(s.cand[c])] \in [Candidates -> CandidateStatus]
      BY <2>0 DEF JobState
    <3>2. [b \in Batches |-> FailedBatch(s.batch[b])] \in [Batches -> BatchStatus]
      BY <2>0 DEF JobState, BatchStatus
    <3>3. [b \in Batches |-> IF s.batch[b] \in {"generating", "raw_ready"}
                             THEN code ELSE s.cause[b]] \in [Batches -> FailureCode]
      BY DEF JobState
    <3>4. code \in FailureCode /\ "failed" \in JobStatus
      BY DEF JobStatus
    <3> QED BY <2>1, <3>1, <3>2, <3>3, <3>4, NextRev DEF JobState
  <2> HIDE DEF t
  <2>4. /\ \A b \in Batches : s.batch[b] \in BatchStatus
        /\ \A c \in Candidates : s.cand[c] \in CandidateStatus
    BY DEF JobState
  <2>5. /\ \A c \in Candidates : t.cand[c] \notin OpenCandidate
        /\ \A c \in Candidates : t.cand[c] \in DoneCandidate <=> s.cand[c] \in DoneCandidate
        /\ \A c \in Candidates : s.cand[c] \in DoneCandidate => t.cand[c] = s.cand[c]
    BY <2>0, <2>2, <2>4
  <2>6. \A b \in Batches : AllDone(t, b) <=> AllDone(s, b)
    BY <2>5, MembersOf DEF AllDone
  <2>7. \A b \in Batches :
          /\ t.batch[b] \notin {"pending", "generating", "raw_ready"}
          /\ t.batch[b] = "failed" <=> t.cause[b] # "none"
          /\ t.batch[b] = "completed" => t.raw[b]
          /\ t.batch[b] = "failed" => s.batch[b] \in {"generating", "raw_ready", "failed"}
    BY <2>0, <2>2, <2>4 DEF Consistent, ValidRecord
  <2>8. \A b \in Batches : s.batch[b] \in {"generating", "raw_ready", "failed"} => ~AllDone(s, b)
    BY MembersOf DEF Consistent, AllDone
  <2>9. ValidRecord(t)
    BY <2>2, <2>5, <2>7 DEF ValidRecord
  <2>10. Consistent(t)
    BY <2>2, <2>5, <2>6, <2>7, <2>8, <2>9 DEF Consistent
  <2>11. Successor(s, t)
    BY <2>2, <2>5 DEF Successor
  <2> QED BY <2>3, <2>10, <2>11 DEF t, Writes
<1> QED BY <1>1, <1>2

\* confirm_canceled, of any record that has the request
LEMMA ConfirmCanceledWrites ==
  ASSUME NEW s \in JobState, Consistent(s), CanConfirmCanceled(s)
  PROVE  Writes(s, ConfirmCanceled(s))
<1> DEFINE t == ConfirmCanceled(s)
<1>1. \A b \in Batches : CanceledBatch(s, b) =
        IF AllDone(s, b) THEN "completed"
        ELSE IF s.batch[b] = "failed" THEN "failed" ELSE "canceled"
  BY DEF CanceledBatch
<1>2. /\ t.rev = s.rev + 1 /\ t.status = "canceled" /\ t.cancel = s.cancel
      /\ t.failure = "none" /\ t.raw = s.raw /\ t.cause = s.cause
      /\ \A c \in Candidates :
           t.cand[c] = IF s.cand[c] \in OpenCandidate THEN "canceled" ELSE s.cand[c]
      /\ \A b \in Batches : t.batch[b] = CanceledBatch(s, b)
  BY DEF ConfirmCanceled, JobState
<1>3. t \in JobState
  <2>1. [c \in Candidates |->
           IF s.cand[c] \in OpenCandidate THEN "canceled" ELSE s.cand[c]]
          \in [Candidates -> CandidateStatus]
    BY DEF JobState, CandidateStatus
  <2>2. [b \in Batches |-> CanceledBatch(s, b)] \in [Batches -> BatchStatus]
    BY <1>1 DEF BatchStatus
  <2>3. "canceled" \in JobStatus /\ "none" \in FailureCode
    BY DEF JobStatus, FailureCode
  <2> QED BY <2>1, <2>2, <2>3, NextRev DEF ConfirmCanceled, JobState
<1> HIDE DEF t
<1>4. s.status # "absent" /\ s.cancel
  BY DEF CanConfirmCanceled, Consistent, AbsentState, InitialState
<1>5. /\ \A c \in Candidates : t.cand[c] \notin OpenCandidate
      /\ \A c \in Candidates : t.cand[c] \in DoneCandidate <=> s.cand[c] \in DoneCandidate
      /\ \A c \in Candidates : s.cand[c] \in DoneCandidate => t.cand[c] = s.cand[c]
  BY <1>2
<1>6. \A b \in Batches : AllDone(t, b) <=> AllDone(s, b)
  BY <1>5, MembersOf DEF AllDone
<1>7. \A b \in Batches : AllDone(s, b) => s.raw[b] /\ s.batch[b] # "failed"
  BY MembersOf DEF Consistent, AllDone
<1>8. \A b \in Batches :
        /\ t.batch[b] \notin {"pending", "generating", "raw_ready"}
        /\ t.batch[b] = "failed" <=> t.cause[b] # "none"
        /\ t.batch[b] = "completed" => t.raw[b]
        /\ t.batch[b] = "failed" => ~AllDone(t, b)
  BY <1>1, <1>2, <1>6, <1>7 DEF Consistent, ValidRecord
<1>9. ValidRecord(t)
  BY <1>2, <1>5, <1>8 DEF ValidRecord
<1>10. Consistent(t)
  BY <1>2, <1>5, <1>8, <1>9 DEF Consistent
<1>11. Successor(s, t)
  BY <1>2, <1>5 DEF Successor
<1> QED BY <1>3, <1>10, <1>11 DEF t, Writes

\* recover_generation_interruption
LEMMA RecoverInterruptionWrites ==
  ASSUME NEW s \in JobState, Consistent(s), s.status \in ActiveJob
  PROVE  Writes(s, RecoverInterruption(s)) /\ RecoverInterruption(s).status = "failed"
<1>1. RecoverInterruption(s) = FailGeneration(s, "interrupted")
  BY DEF RecoverInterruption
<1>2. "interrupted" \in FailureCode \ {"none"}
  BY DEF FailureCode
<1>3. FailGeneration(s, "interrupted").status = "failed"
  BY DEF FailGeneration, StaysOpen, JobState
<1> QED BY <1>1, <1>2, <1>3, FailGenerationWrites

LEMMA FreshRecords ==
  /\ InitialState \in JobState /\ Consistent(InitialState)
  /\ AbsentState \in JobState /\ Consistent(AbsentState)
<1>1. InitialState \in JobState
  BY DEF InitialState, JobState, JobStatus, FailureCode, BatchStatus, CandidateStatus
<1>2. AbsentState \in JobState
  BY <1>1 DEF AbsentState, JobState, JobStatus
<1>3. /\ InitialState.status = "queued" /\ InitialState.failure = "none"
      /\ \A b \in Batches : InitialState.batch[b] = "pending" /\ InitialState.cause[b] = "none"
      /\ \A c \in Candidates : InitialState.cand[c] = "pending"
  BY DEF InitialState
<1>4. /\ AbsentState.status = "absent" /\ AbsentState.failure = "none"
      /\ \A b \in Batches : AbsentState.batch[b] = "pending" /\ AbsentState.cause[b] = "none"
      /\ \A c \in Candidates : AbsentState.cand[c] = "pending"
  BY DEF AbsentState, InitialState
<1>5. Consistent(InitialState)
  BY <1>3, MembersOf DEF Consistent, ValidRecord
<1>6. Consistent(AbsentState)
  BY <1>4, MembersOf DEF Consistent, ValidRecord
<1> QED BY <1>1, <1>2, <1>5, <1>6

\* the commit of retry_job, over the child's first revision
LEMMA InheritFromWrites ==
  ASSUME NEW parent \in JobState, Consistent(parent)
  PROVE  Writes(InitialState, InheritFrom(InitialState, parent))
<1> DEFINE t == InheritFrom(InitialState, parent)
           inherited(c) == parent.raw[BatchOf(c)] /\ parent.cand[c] \in DoneCandidate
           cand(c) == IF inherited(c) THEN "inherited"
                      ELSE IF parent.raw[BatchOf(c)] THEN "raw_ready" ELSE "pending"
           batch(b) == IF parent.raw[b]
                       THEN IF AllDone(parent, b) THEN "completed" ELSE "raw_ready"
                       ELSE "pending"
<1>1. /\ t.rev = InitialState.rev + 1 /\ t.status = "queued" /\ t.failure = "none"
      /\ t.raw = parent.raw
      /\ \A b \in Batches : t.cause[b] = "none"
      /\ \A c \in Candidates : t.cand[c] = cand(c)
      /\ \A b \in Batches : t.batch[b] = batch(b)
  BY DEF InheritFrom, InitialState
<1>2. t \in JobState
  <2>1. [c \in Candidates |-> cand(c)] \in [Candidates -> CandidateStatus]
    BY DEF CandidateStatus
  <2>2. [b \in Batches |-> batch(b)] \in [Batches -> BatchStatus]
    BY DEF BatchStatus
  <2>3. t = [InitialState EXCEPT !.rev = InitialState.rev + 1, !.raw = parent.raw,
                                 !.cand = [c \in Candidates |-> cand(c)],
                                 !.batch = [b \in Batches |-> batch(b)]]
    BY DEF InheritFrom, InitialState
  <2> HIDE DEF t, cand, batch
  <2>4. parent.raw \in [Batches -> BOOLEAN]
    BY DEF JobState
  <2> QED BY <2>1, <2>2, <2>3, <2>4, FreshRecords, NextRev DEF JobState
<1> HIDE DEF t
<1>3. \A c \in Candidates : parent.cand[c] \in DoneCandidate => parent.raw[BatchOf(c)]
  BY DEF Consistent
<1>4. ValidRecord(t)
  BY <1>1 DEF ValidRecord
<1>5. \A b \in Batches :
        /\ t.batch[b] = "pending" => \A c \in Members(b) : t.cand[c] = "pending"
        /\ t.batch[b] = "raw_ready" => ~AllDone(t, b)
        /\ t.batch[b] \in {"pending", "raw_ready", "completed"}
  BY <1>1, MembersOf DEF AllDone
<1>6. \A c \in Candidates :
        /\ t.cand[c] \in {"raw_ready", "postprocessing"} => t.batch[BatchOf(c)] = "raw_ready"
        /\ t.cand[c] \in DoneCandidate => t.raw[BatchOf(c)]
  BY <1>1, MemberOfBatch DEF AllDone
<1>7. Consistent(t)
  BY <1>1, <1>4, <1>5, <1>6 DEF Consistent
<1>8. Successor(InitialState, t)
  BY <1>1 DEF Successor, InitialState
<1> QED BY <1>2, <1>7, <1>8 DEF t, Writes
=============================================================================
