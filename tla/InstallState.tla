---------------------------- MODULE InstallState ----------------------------
(***************************************************************************)
(* comfy/install_state.py: the durable records of install operations, one  *)
(* JSON file each, replaced atomically and never deleted.  An operation is *)
(* open until a transition closes it; a closed record refuses transitions. *)
(***************************************************************************)
EXTENDS Naturals

CONSTANT Operations   \* identities of operations (uuid4)

VARIABLE operations   \* the record of every operation

OpenStates == {"planned", "downloading", "extracting", "installing"}

ClosedStates == {"completed", "failed", "canceled"}

\* InstallOperation, with the identities and times left out.
OperationRecord ==
  [state : OpenStates \cup ClosedStates \cup {"absent"}, revision : Nat]

AbsentOperation == [state |-> "absent", revision |-> 0]

Open(o) == operations[o].state \in OpenStates

Closed(o) == operations[o].state \in ClosedStates

Exists(o) == operations[o].state # "absent"

\* InstallOperationStore.create
CreateOperation(o) ==
  /\ ~Exists(o)
  /\ operations' =
       [operations EXCEPT ![o] = [state |-> "planned", revision |-> 1]]

Moved(record, state) == [state |-> state, revision |-> record.revision + 1]

\* Mutant of Transition: a closed record is moved like an open one.
TransitionAny(o, state) ==
  /\ Exists(o)
  /\ operations' = [operations EXCEPT ![o] = Moved(operations[o], state)]

\* InstallOperationStore.transition
Transition(o, state) ==
  /\ Open(o)
  /\ operations' = [operations EXCEPT ![o] = Moved(operations[o], state)]

\* A transition that raises: nothing could be read or written, or the record
\* was replaced and an error reported after it.
TransitionRaises(o, state) == UNCHANGED operations \/ Transition(o, state)

\* Mutant of RecoverInterrupted: a state of its own, which no reader knows.
RecoverAsInterrupted ==
  operations' =
    [o \in Operations |->
       IF Open(o) THEN Moved(operations[o], "interrupted") ELSE operations[o]]

\* InstallOperationStore.recover_interrupted: no operation resumes by itself.
\* The backend does not start when it raises.
RecoverInterrupted ==
  operations' =
    [o \in Operations |->
       IF Open(o) THEN Moved(operations[o], "failed") ELSE operations[o]]
=============================================================================
