---------------------------- MODULE StorageFaults ----------------------------
(***************************************************************************)
(* What the modules about the files of a project share: the threads of the *)
(* process that use them, and the upsets they meet.                        *)
(***************************************************************************)
EXTENDS Naturals, FiniteSets

CONSTANTS Threads, NoThread \* threads of the process

ASSUME StorageFaultsAssumption == NoThread \notin Threads

VARIABLE faults \* upsets so far, of both kinds

upsets == <<faults>>

UpsetsInit == faults = 0

\* A file operation fails with an OSError.  Each module bounds its upsets.
Fault(bound) == faults < bound /\ faults' = faults + 1

\* The process ends.
Crash(bound) == Fault(bound)
=============================================================================
