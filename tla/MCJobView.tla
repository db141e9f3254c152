----------------------------- MODULE MCJobView -----------------------------
(***************************************************************************)
(* JobView on small sets.  A behavior has two commands about one job and   *)
(* one fault, or one command, a job with its successor and all the faults: *)
(* both together are more than liveness can be checked of.                 *)
(***************************************************************************)
EXTENDS JobView

CONSTANTS SpareJob, SpareCommand \* bounds: one of them is not used

VARIABLE spare \* which one

SmallInit == Init /\ spare \in {"job", "command"}

SmallNext ==
  /\ Next
  /\ spare = "job" => ~Exists(SpareJob)' /\ faults' <= 1
  /\ spare = "command" => cmd'[SpareCommand] = IdleCommand
  /\ UNCHANGED spare

SmallSpec == SmallInit /\ [][SmallNext]_<<vars, spare>> /\ Fairness
=============================================================================
