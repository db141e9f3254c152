---------------------------- MODULE GenerationSlot ----------------------------
(***************************************************************************)
(* What the coordinator promises about jobs, with the threads, the calls   *)
(* and the ComfyUI process left out: one slot for the whole application.   *)
(* A job takes the free slot when it is created, delivers candidates while *)
(* it holds it, and gives it back once.  A job that gave it back is never  *)
(* nonterminal again and its results are frozen: a retry reads them while  *)
(* the parent's own late writers may still be alive.                       *)
(***************************************************************************)
CONSTANTS
  Jobs,        \* identities of jobs
  Candidates   \* candidates of a job

VARIABLES
  phase,   \* absent, held (owns the slot) or closed
  result   \* the finished candidates of a job

vars == <<phase, result>>

Init ==
  /\ phase = [j \in Jobs |-> "absent"]
  /\ result = [j \in Jobs |-> {}]

Acquire(j) ==
  /\ phase[j] = "absent"
  /\ \A i \in Jobs : phase[i] # "held"
  /\ phase' = [phase EXCEPT ![j] = "held"]
  /\ UNCHANGED result

Deliver(j) ==
  /\ phase[j] = "held"
  /\ \E more \in SUBSET Candidates :
       result' = [result EXCEPT ![j] = result[j] \cup more]
  /\ UNCHANGED phase

Release(j) ==
  /\ phase[j] = "held"
  /\ phase' = [phase EXCEPT ![j] = "closed"]
  /\ UNCHANGED result

Next == \E j \in Jobs : Acquire(j) \/ Deliver(j) \/ Release(j)

Spec == Init /\ [][Next]_vars
=============================================================================
