-------------------------- MODULE MCProjectStorage --------------------------
(***************************************************************************)
(* The stores of a project for TLC, side by side.  They share no lock, and *)
(* where two of them speak of the same folders one abstracts the other, so *)
(* a behavior is that of one store while the others stay as they start:    *)
(* the states are the sum of theirs, not the product.                      *)
(***************************************************************************)
EXTENDS JobFolders, ReferenceFolders, ProjectIndex, ProjectFolders, TLC

CONSTANT OldFolder \* bound: the one project of an older version

VARIABLE part \* the store this behavior is about

StorageInit ==
  /\ JobsInit /\ ReferencesInit /\ IndexInit /\ ProjectsInit
  /\ part \in {"jobs", "references", "index", "projects"}
  /\ part # "jobs" => \A j \in Jobs : folder[j] = "absent"
  /\ {p \in Folders : home[p] = "published"} =
       IF part = "projects" THEN {OldFolder} ELSE {}

StorageNext ==
  /\ \/ /\ part = "jobs" /\ JobsNext
        /\ UNCHANGED <<referenceStore, indexStore, projectStore>>
     \/ /\ part = "references" /\ ReferencesNext
        /\ UNCHANGED <<jobStore, indexStore, projectStore>>
     \/ /\ part = "index" /\ IndexNext
        /\ UNCHANGED <<jobStore, referenceStore, projectStore>>
     \/ /\ part = "projects" /\ ProjectsNext
        /\ UNCHANGED <<jobStore, referenceStore, indexStore>>
  /\ UNCHANGED part

StorageSpec ==
  StorageInit
    /\ [][StorageNext]_<<jobVars, refVars, indexVars, projectVars, part>>

StorageTypeOK ==
  JobsTypeOK /\ ReferencesTypeOK /\ IndexTypeOK /\ ProjectsTypeOK

Symmetric == Permutations(Jobs) \cup Permutations(Threads)
=============================================================================
