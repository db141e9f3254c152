------------------------ MODULE InferenceServiceProofs ------------------------
(***************************************************************************)
(* Proofs about InferenceService: the records of install operations and    *)
(* the publication of the runtime, and then the files of downloads and     *)
(* profiles.  The records are closed under the lock and the runtime has an *)
(* order of publication; neither needs anything of what the downloads and  *)
(* the profile do.                                                         *)
(***************************************************************************)
EXTENDS InferenceService, SequenceTheorems, TLAPS

AllSteps == ServiceSteps \cup RuntimeSteps \cup ProfileSteps

\* Records: one open operation at most, a thread only for a record.
RecordInv ==
  /\ operations \in [Operations -> OperationRecord]
  /\ step \in [Workers -> AllSteps]
  /\ restarts \in Nat
  /\ unclosed \subseteq Operations
  /\ OneOpenOperation
  /\ \A o \in Operations : Running(o) => Exists(o)

\* What the place of a thread says of the publications it has passed.
RuntimeInv ==
  /\ SelectionComplete
  /\ StagingOwned
  /\ staging \subseteq Workers /\ leaked \subseteq Workers
  /\ \A w \in Workers :
       /\ step[w] = "published" => tree
       /\ step[w] = "recorded" => tree /\ receipt
       /\ step[w] \in {"selected", "installing", "paths"} \cup ProfileSteps =>
            selection
  /\ \A o \in Operations : operations[o].state = "completed" => selection

\* A thread that handles an artifact has one to handle.
IndexInv ==
  /\ index \in [Workers -> 1 .. Len(Profile) + 1]
  /\ \A w \in Workers :
       /\ step[w] \in ProfileSteps \ {"artifact"} => index[w] <= Len(Profile)
       /\ step[w] = "paths" => index[w] > Len(Profile)

\* The switches.
FlagsInv ==
  /\ closing \in BOOLEAN /\ beside \in BOOLEAN
  /\ tree \in BOOLEAN /\ receipt \in BOOLEAN /\ selection \in BOOLEAN

RunInv == RecordInv /\ RuntimeInv /\ IndexInv /\ FlagsInv

\* The profile holds artifacts other than the runtime archive.
LEMMA ProfileEntries ==
  /\ Len(Profile) \in Nat
  /\ \A i \in 1 .. Len(Profile) : Profile[i] \in Files /\ Profile[i] # Archive
  /\ Archive \in Files
BY ProfileAssumption



\* A thread moves the record of its operation, or ends when it is closed.
LEMMA RecordMove ==
  ASSUME RecordInv, NEW w \in Workers, Running(w),
         UNCHANGED <<restarts, unclosed>>,
         NEW s \in OpenStates \cup ClosedStates, NEW next \in AllSteps,
         next = "none" => s \in ClosedStates,
         MoveOrEnd(w, s, next)
  PROVE  RecordInv'
<1>1. step' \in [Workers -> AllSteps]
      /\ \A v \in Workers \ {w} : step'[v] = step[v]
  BY DEF RecordInv, MoveOrEnd, Raise, Goto, AllSteps, ServiceSteps
<1>2. CASE Transition(w, s) /\ Goto(w, next)
  <2>1. /\ operations' \in [Operations -> OperationRecord]
        /\ operations'[w].state = s /\ step'[w] = next
        /\ \A o \in Operations \ {w} : operations'[o] = operations[o]
    BY <1>2, WorkersAreOperations
    DEF RecordInv, Transition, Moved, OperationRecord, Goto
  <2> QED
    BY <1>1, <1>2, <2>1, WorkersAreOperations
    DEF RecordInv, OneOpenOperation, Transition, Open, OpenStates,
        ClosedStates, Running, Exists
<1>3. CASE ~Open(w) /\ Goto(w, "none") /\ UNCHANGED operations
  BY <1>1, <1>3, WorkersAreOperations
  DEF RecordInv, OneOpenOperation, Open, Running, Exists, Goto
<1>4. CASE UNCHANGED operations /\ Raise(w)
  <2>1. step'[w] = "error"
    BY <1>4 DEF Raise, Goto, RecordInv
  <2> QED
    BY <1>1, <1>4, <2>1, WorkersAreOperations
    DEF RecordInv, OneOpenOperation, Open, Running, Exists
<1>5. CASE Transition(w, s) /\ Raise(w)
  <2>1. /\ operations' \in [Operations -> OperationRecord]
        /\ operations'[w].state = s /\ step'[w] = "error"
        /\ \A o \in Operations \ {w} : operations'[o] = operations[o]
    BY <1>5, WorkersAreOperations
    DEF RecordInv, Transition, Moved, OperationRecord, Raise, Goto
  <2> QED
    BY <1>1, <1>5, <2>1, WorkersAreOperations
    DEF RecordInv, OneOpenOperation, Transition, Open, OpenStates,
        ClosedStates, Running, Exists
<1> QED BY <1>2, <1>3, <1>4, <1>5 DEF MoveOrEnd, TransitionRaises

\* A thread closes its record with its last step, or leaves it unclosed.
LEMMA RecordClosed ==
  ASSUME RecordInv, NEW w \in Workers, Running(w), UNCHANGED restarts,
         NEW s \in ClosedStates, CloseOrLeave(w, s)
  PROVE  RecordInv'
<1>1. /\ step' \in [Workers -> AllSteps] /\ step'[w] = "none"
      /\ \A v \in Workers \ {w} : step'[v] = step[v]
  BY DEF RecordInv, CloseOrLeave, Goto, AllSteps, ServiceSteps
<1>2. CASE Transition(w, s) /\ UNCHANGED unclosed
  <2>1. /\ operations' \in [Operations -> OperationRecord]
        /\ operations'[w].state = s
        /\ \A o \in Operations \ {w} : operations'[o] = operations[o]
    BY <1>2, WorkersAreOperations
    DEF RecordInv, Transition, Moved, OperationRecord
  <2> QED
    BY <1>1, <1>2, <2>1, WorkersAreOperations
    DEF RecordInv, OneOpenOperation, Transition, Open, OpenStates,
        ClosedStates, Running, Exists
<1>3. CASE ~Open(w) /\ UNCHANGED <<operations, unclosed>>
  BY <1>1, <1>3, WorkersAreOperations
  DEF RecordInv, OneOpenOperation, Open, Running, Exists
<1>4. CASE UNCHANGED operations /\ unclosed' = unclosed \cup {w}
  BY <1>1, <1>4, WorkersAreOperations
  DEF RecordInv, OneOpenOperation, Open, Running, Exists
<1> QED BY <1>2, <1>3, <1>4 DEF CloseOrLeave

\* Every step of the program keeps the records as _transition_if_active and
\* the lock leave them (service.py:112-362).
LEMMA RecordStep ==
  ASSUME RecordInv, [Next]_vars
  PROVE  RecordInv'
<1>1. CASE UNCHANGED vars
  BY <1>1, WorkersAreOperations
  DEF vars, serviceVars, installerVars, RecordInv, OneOpenOperation, Exists,
      Open, OpenStates, ClosedStates, Running, AllSteps, ServiceSteps,
      RuntimeSteps, ProfileSteps, OperationRecord
<1>2. ASSUME NEW o \in Operations, BeginInstall(o)
      PROVE  RecordInv'
  BY <1>2, WorkersAreOperations
  DEF BeginInstall, NoOpenOperation, CreateOperation, Exists, Goto, Running,
      RecordInv, OneOpenOperation, Open, OpenStates, ClosedStates, AllSteps,
      ServiceSteps, RuntimeSteps, ProfileSteps, OperationRecord
<1>3. ASSUME NEW o \in Operations, CancelOperation(o)
      PROVE  RecordInv'
  BY <1>3, WorkersAreOperations
  DEF CancelOperation, Fault, Transition, Moved, installerVars, RecordInv,
      OneOpenOperation, Exists, Open, OpenStates, ClosedStates, Running,
      AllSteps, ServiceSteps, RuntimeSteps, ProfileSteps, OperationRecord
<1>4. CASE Shutdown
  BY <1>4, WorkersAreOperations
  DEF Shutdown, installerVars, RecordInv, OneOpenOperation, Exists, Open,
      OpenStates, ClosedStates, Running, AllSteps, ServiceSteps, RuntimeSteps,
      ProfileSteps, OperationRecord
<1>5. CASE Restart
  BY <1>5, WorkersAreOperations
  DEF Restart, RecoverInterrupted, Moved, RecordInv, OneOpenOperation, Exists,
      Open, OpenStates, ClosedStates, Running, AllSteps, ServiceSteps,
      RuntimeSteps, ProfileSteps, OperationRecord
<1>6. ASSUME NEW w \in Workers, StartDownloading(w), RecordGarbled(w)
      PROVE  RecordInv'
  BY <1>6, WorkersAreOperations, RecordMove
  DEF StartDownloading, fileVars, At, Running, AllSteps, ServiceSteps,
      RuntimeSteps, ProfileSteps, OpenStates, ClosedStates
<1>7. ASSUME NEW w \in Workers, LookAtRuntime(w), RecordGarbled(w)
      PROVE  RecordInv'
  BY <1>7, WorkersAreOperations
  DEF LookAtRuntime, At, Goto, serviceVars, RecordInv, OneOpenOperation,
      Exists, Open, OpenStates, ClosedStates, Running, AllSteps, ServiceSteps,
      RuntimeSteps, ProfileSteps, OperationRecord
<1>8. ASSUME NEW w \in Workers, FetchArchive(w), RecordGarbled(w)
      PROVE  RecordInv'
  BY <1>8, WorkersAreOperations
  DEF FetchArchive, OpenTransfer, Advance, At, serviceVars, installerVars,
      RecordInv, OneOpenOperation, Exists, Open, OpenStates, ClosedStates,
      Running, AllSteps, ServiceSteps, RuntimeSteps, ProfileSteps,
      OperationRecord
<1>9. ASSUME NEW w \in Workers, FetchedArchive(w), RecordGarbled(w)
      PROVE  RecordInv'
  BY <1>9, WorkersAreOperations
  DEF FetchedArchive, Raise, At, Goto, serviceVars, RecordInv,
      OneOpenOperation, Exists, Open, OpenStates, ClosedStates, Running,
      AllSteps, ServiceSteps, RuntimeSteps, ProfileSteps, OperationRecord
<1>10. ASSUME NEW w \in Workers, BeginExtracting(w), RecordGarbled(w)
      PROVE  RecordInv'
  <2>1. CASE Goto(w, "stopping") /\ UNCHANGED <<operations, faults>>
    BY <1>10, <2>1
    DEF BeginExtracting, fileVars, NextPhase, Goto, RecordInv,
        OneOpenOperation, Open, Exists, At, Running, AllSteps, ServiceSteps,
        RuntimeSteps, ProfileSteps
  <2>2. CASE MoveOrEnd(w, "extracting", "runtime")
    BY <1>10, <2>2, RecordMove
    DEF BeginExtracting, fileVars, NextPhase, At, Running, AllSteps,
        ServiceSteps, RuntimeSteps, ProfileSteps, OpenStates, ClosedStates
  <2> QED BY <1>10, <2>1, <2>2 DEF BeginExtracting, NextPhase
<1>11. ASSUME NEW w \in Workers, BeginInstalling(w), RecordGarbled(w)
      PROVE  RecordInv'
  <2>1. CASE Goto(w, "stopping") /\ UNCHANGED <<operations, faults>>
    BY <1>11, <2>1
    DEF BeginInstalling, fileVars, NextPhase, Goto, RecordInv,
        OneOpenOperation, Open, Exists, At, Running, AllSteps, ServiceSteps,
        RuntimeSteps, ProfileSteps
  <2>2. CASE MoveOrEnd(w, "installing", "artifact")
    BY <1>11, <2>2, RecordMove
    DEF BeginInstalling, fileVars, NextPhase, At, Running, AllSteps,
        ServiceSteps, RuntimeSteps, ProfileSteps, OpenStates, ClosedStates
  <2> QED BY <1>11, <2>1, <2>2 DEF BeginInstalling, NextPhase
<1>12. ASSUME NEW w \in Workers, ProfileDone(w), RecordGarbled(w)
      PROVE  RecordInv'
  BY <1>12, WorkersAreOperations
  DEF ProfileDone, fileVars, Raise, Fault, At, Goto, serviceVars, RecordInv,
      OneOpenOperation, Exists, Open, OpenStates, ClosedStates, Running,
      AllSteps, ServiceSteps, RuntimeSteps, ProfileSteps, OperationRecord
<1>13. ASSUME NEW w \in Workers, Complete(w), RecordGarbled(w)
      PROVE  RecordInv'
  <2>1. CASE Goto(w, "stopping") /\ UNCHANGED <<operations, faults>>
    BY <1>13, <2>1
    DEF Complete, fileVars, NextPhase, Goto, RecordInv, OneOpenOperation, Open,
        Exists, At, Running, AllSteps, ServiceSteps, RuntimeSteps, ProfileSteps
  <2>2. CASE MoveOrEnd(w, "completed", "none")
    BY <1>13, <2>2, RecordMove
    DEF Complete, fileVars, NextPhase, At, Running, AllSteps, ServiceSteps,
        RuntimeSteps, ProfileSteps, OpenStates, ClosedStates
  <2> QED BY <1>13, <2>1, <2>2 DEF Complete, NextPhase
<1>14. ASSUME NEW w \in Workers, CloseRecord(w), RecordGarbled(w)
      PROVE  RecordInv'
  <2>1. CASE At(w, "canceled") /\ CloseOrLeave(w, "canceled")
    BY <1>14, <2>1, RecordClosed DEF CloseRecord, At, Running, ClosedStates
  <2>2. CASE At(w, "error") /\ CloseOrLeave(w, "failed")
    BY <1>14, <2>2, RecordClosed DEF CloseRecord, At, Running, ClosedStates
  <2>3. CASE /\ At(w, "stopping") /\ MoveOrEnd(w, "canceled", "none")
             /\ UNCHANGED unclosed
    BY <1>14, <2>3, RecordMove
    DEF CloseRecord, CloseOrLeave, fileVars, At, Running, AllSteps,
        ServiceSteps, ClosedStates
  <2> QED BY <1>14, <2>1, <2>2, <2>3 DEF CloseRecord
<1>15. ASSUME NEW w \in Workers, InspectArchive(w), UNCHANGED serviceVars,
             RecordGarbled(w)
      PROVE  RecordInv'
  BY <1>15, WorkersAreOperations
  DEF InspectArchive, Raise, At, Goto, serviceVars, RecordInv,
      OneOpenOperation, Exists, Open, OpenStates, ClosedStates, Running,
      AllSteps, ServiceSteps, RuntimeSteps, ProfileSteps, OperationRecord
<1>16. ASSUME NEW w \in Workers, ExtractTree(w), UNCHANGED serviceVars,
             RecordGarbled(w)
      PROVE  RecordInv'
  BY <1>16, WorkersAreOperations
  DEF ExtractTree, fileVars, RemoveStaging, KeepStaging, Raise, Fault, At,
      Goto, serviceVars, RecordInv, OneOpenOperation, Exists, Open, OpenStates,
      ClosedStates, Running, AllSteps, ServiceSteps, RuntimeSteps,
      ProfileSteps, OperationRecord
<1>17. ASSUME NEW w \in Workers, PublishTree(w), UNCHANGED serviceVars,
             RecordGarbled(w)
      PROVE  RecordInv'
  BY <1>17, WorkersAreOperations
  DEF PublishTree, fileVars, RemoveStaging, KeepStaging, Raise, Fault, At,
      Goto, serviceVars, RecordInv, OneOpenOperation, Exists, Open, OpenStates,
      ClosedStates, Running, AllSteps, ServiceSteps, RuntimeSteps,
      ProfileSteps, OperationRecord
<1>18. ASSUME NEW w \in Workers, WriteReceipt(w), UNCHANGED serviceVars,
             RecordGarbled(w)
      PROVE  RecordInv'
  BY <1>18, WorkersAreOperations
  DEF WriteReceipt, fileVars, Raise, Fault, At, Goto, serviceVars, RecordInv,
      OneOpenOperation, Exists, Open, OpenStates, ClosedStates, Running,
      AllSteps, ServiceSteps, RuntimeSteps, ProfileSteps, OperationRecord
<1>19. ASSUME NEW w \in Workers, SelectRuntime(w), UNCHANGED serviceVars,
             RecordGarbled(w)
      PROVE  RecordInv'
  BY <1>19, WorkersAreOperations
  DEF SelectRuntime, fileVars, Raise, Fault, At, Goto, serviceVars, RecordInv,
      OneOpenOperation, Exists, Open, OpenStates, ClosedStates, Running,
      AllSteps, ServiceSteps, RuntimeSteps, ProfileSteps, OperationRecord
<1>20. ASSUME NEW w \in Workers, DropArchive(w), UNCHANGED serviceVars,
             RecordGarbled(w)
      PROVE  RecordInv'
  BY <1>20, WorkersAreOperations
  DEF DropArchive, fileVars, Fault, At, Goto, serviceVars, RecordInv,
      OneOpenOperation, Exists, Open, OpenStates, ClosedStates, Running,
      AllSteps, ServiceSteps, RuntimeSteps, ProfileSteps, OperationRecord
<1>21. ASSUME NEW w \in Workers, CheckArtifact(w), UNCHANGED serviceVars,
             RecordGarbled(w)
      PROVE  RecordInv'
  BY <1>21, WorkersAreOperations
  DEF CheckArtifact, Raise, OpenTransfer, Advance, At, Goto, serviceVars,
      RecordInv, OneOpenOperation, Exists, Open, OpenStates, ClosedStates,
      Running, AllSteps, ServiceSteps, RuntimeSteps, ProfileSteps,
      OperationRecord
<1>22. ASSUME NEW w \in Workers, FetchedArtifact(w), UNCHANGED serviceVars,
             RecordGarbled(w)
      PROVE  RecordInv'
  BY <1>22, WorkersAreOperations
  DEF FetchedArtifact, Raise, At, Goto, serviceVars, RecordInv,
      OneOpenOperation, Exists, Open, OpenStates, ClosedStates, Running,
      AllSteps, ServiceSteps, RuntimeSteps, ProfileSteps, OperationRecord
<1>23. ASSUME NEW w \in Workers, StageNode(w), UNCHANGED serviceVars,
             RecordGarbled(w)
      PROVE  RecordInv'
  BY <1>23, WorkersAreOperations
  DEF StageNode, Raise, At, Goto, serviceVars, RecordInv, OneOpenOperation,
      Exists, Open, OpenStates, ClosedStates, Running, AllSteps, ServiceSteps,
      RuntimeSteps, ProfileSteps, OperationRecord
<1>24. ASSUME NEW w \in Workers, PublishNode(w), UNCHANGED serviceVars,
             RecordGarbled(w)
      PROVE  RecordInv'
  BY <1>24, WorkersAreOperations
  DEF PublishNode, fileVars, Raise, Fault, At, Goto, serviceVars, RecordInv,
      OneOpenOperation, Exists, Open, OpenStates, ClosedStates, Running,
      AllSteps, ServiceSteps, RuntimeSteps, ProfileSteps, OperationRecord
<1>25. ASSUME NEW w \in Workers, RecordArtifact(w), UNCHANGED serviceVars,
             RecordGarbled(w)
      PROVE  RecordInv'
  BY <1>25, WorkersAreOperations
  DEF RecordArtifact, fileVars, Raise, Fault, At, Goto, serviceVars, RecordInv,
      OneOpenOperation, Exists, Open, OpenStates, ClosedStates, Running,
      AllSteps, ServiceSteps, RuntimeSteps, ProfileSteps, OperationRecord
<1>26. ASSUME NEW w \in Workers, TransferStep(w), RecordGarbled(w)
      PROVE  RecordInv'
  BY <1>26, WorkersAreOperations
  DEF installerVars, TransferStep, serviceVars, RecordInv, OneOpenOperation,
      Exists, Open, OpenStates, ClosedStates, Running, AllSteps, ServiceSteps,
      RuntimeSteps, ProfileSteps, OperationRecord
<1>27. ASSUME NEW o \in Operations, BeginRaises(o)
      PROVE  RecordInv'
  BY <1>27, WorkersAreOperations
  DEF BeginRaises, fileVars, Fault, installerVars, NoOpenOperation,
      CreateOperation, Exists, Goto, Running, RecordInv, OneOpenOperation,
      Open, OpenStates, ClosedStates, AllSteps, ServiceSteps, RuntimeSteps,
      ProfileSteps, OperationRecord
<1> QED
  BY <1>1, <1>2, <1>3, <1>4, <1>5, <1>6, <1>7, <1>8, <1>9, <1>10,
     <1>11, <1>12, <1>13, <1>14, <1>15, <1>16, <1>17, <1>18, <1>19,
     <1>20, <1>21, <1>22, <1>23, <1>24, <1>25, <1>26, <1>27
    DEF Next, WorkerStep, ServiceStep, InstallStep, RuntimeStep, ProfileStep

\* Every step keeps the order of the publications of the runtime.
LEMMA RuntimeStepInv ==
  ASSUME RecordInv, RuntimeInv, [Next]_vars
  PROVE  RuntimeInv'
<1>1. CASE UNCHANGED vars
  BY <1>1, WorkersAreOperations
  DEF vars, serviceVars, installerVars, runtimeVars, At, Exists, Running,
      RuntimeInv, SelectionComplete, StagingOwned, ProfileSteps, RecordInv,
      OperationRecord, OpenStates, ClosedStates
<1>2. ASSUME NEW o \in Operations, BeginInstall(o)
      PROVE  RuntimeInv'
  BY <1>2, WorkersAreOperations
  DEF BeginInstall, NoOpenOperation, CreateOperation, Exists, Goto, Running,
      runtimeVars, At, RuntimeInv, SelectionComplete, StagingOwned,
      ProfileSteps, RecordInv, OperationRecord, OpenStates, ClosedStates, Open
<1>3. ASSUME NEW o \in Operations, CancelOperation(o)
      PROVE  RuntimeInv'
  BY <1>3, WorkersAreOperations
  DEF CancelOperation, Fault, Transition, Moved, installerVars, runtimeVars,
      At, Exists, Running, RuntimeInv, SelectionComplete, StagingOwned,
      ProfileSteps, RecordInv, OperationRecord, OpenStates, ClosedStates, Open
<1>4. CASE Shutdown
  BY <1>4, WorkersAreOperations
  DEF Shutdown, installerVars, runtimeVars, At, Exists, Running, RuntimeInv,
      SelectionComplete, StagingOwned, ProfileSteps, RecordInv,
      OperationRecord, OpenStates, ClosedStates
<1>5. CASE Restart
  BY <1>5, WorkersAreOperations
  DEF Restart, RecoverInterrupted, Moved, runtimeVars, At, Exists, Running,
      RuntimeInv, SelectionComplete, StagingOwned, ProfileSteps, RecordInv,
      OperationRecord, OpenStates, ClosedStates, Open
<1>6. ASSUME NEW w \in Workers, StartDownloading(w), RecordGarbled(w)
      PROVE  RuntimeInv'
  BY <1>6, WorkersAreOperations
  DEF StartDownloading, fileVars, MoveOrEnd, TransitionRaises, Raise, Fault,
      Transition, Moved, At, Goto, runtimeVars, Exists, Running, RuntimeInv,
      SelectionComplete, StagingOwned, ProfileSteps, RecordInv,
      OperationRecord, OpenStates, ClosedStates, Open
<1>7. ASSUME NEW w \in Workers, LookAtRuntime(w), RecordGarbled(w)
      PROVE  RuntimeInv'
  BY <1>7, WorkersAreOperations
  DEF LookAtRuntime, At, Goto, serviceVars, runtimeVars, Exists, Running,
      RuntimeInv, SelectionComplete, StagingOwned, RuntimeStatus, ProfileSteps,
      RecordInv, OperationRecord, OpenStates, ClosedStates
<1>8. ASSUME NEW w \in Workers, FetchArchive(w), RecordGarbled(w)
      PROVE  RuntimeInv'
  BY <1>8, WorkersAreOperations
  DEF FetchArchive, OpenTransfer, Advance, At, serviceVars, installerVars,
      runtimeVars, Exists, Running, RuntimeInv, SelectionComplete,
      StagingOwned, ProfileSteps, RecordInv, OperationRecord, OpenStates,
      ClosedStates
<1>9. ASSUME NEW w \in Workers, FetchedArchive(w), RecordGarbled(w)
      PROVE  RuntimeInv'
  BY <1>9, WorkersAreOperations
  DEF FetchedArchive, Raise, At, Goto, serviceVars, runtimeVars, Exists,
      Running, RuntimeInv, SelectionComplete, StagingOwned, ProfileSteps,
      RecordInv, OperationRecord, OpenStates, ClosedStates
<1>10. ASSUME NEW w \in Workers, BeginExtracting(w), RecordGarbled(w)
      PROVE  RuntimeInv'
  BY <1>10, WorkersAreOperations
  DEF BeginExtracting, fileVars, NextPhase, MoveOrEnd, TransitionRaises, Raise,
      Fault, Transition, Moved, At, Goto, runtimeVars, Exists, Running,
      RuntimeInv, SelectionComplete, StagingOwned, ProfileSteps, RecordInv,
      OperationRecord, OpenStates, ClosedStates, Open
<1>11. ASSUME NEW w \in Workers, BeginInstalling(w), RecordGarbled(w)
      PROVE  RuntimeInv'
  BY <1>11, WorkersAreOperations
  DEF BeginInstalling, fileVars, NextPhase, MoveOrEnd, TransitionRaises, Raise,
      Fault, Transition, Moved, ReadReceipts, At, Goto, runtimeVars, Exists,
      Running, RuntimeInv, SelectionComplete, StagingOwned, ProfileSteps,
      RecordInv, OperationRecord, OpenStates, ClosedStates, Open
<1>12. ASSUME NEW w \in Workers, ProfileDone(w), RecordGarbled(w)
      PROVE  RuntimeInv'
  BY <1>12, WorkersAreOperations
  DEF ProfileDone, fileVars, Raise, Fault, At, Goto, serviceVars, runtimeVars,
      Exists, Running, RuntimeInv, SelectionComplete, StagingOwned,
      ProfileSteps, RecordInv, OperationRecord, OpenStates, ClosedStates
<1>13. ASSUME NEW w \in Workers, Complete(w), RecordGarbled(w)
      PROVE  RuntimeInv'
  BY <1>13, WorkersAreOperations
  DEF Complete, fileVars, NextPhase, MoveOrEnd, TransitionRaises, Raise, Fault,
      Transition, Moved, At, Goto, runtimeVars, Exists, Running, RuntimeInv,
      SelectionComplete, StagingOwned, ProfileSteps, RecordInv,
      OperationRecord, OpenStates, ClosedStates, Open
<1>14. ASSUME NEW w \in Workers, CloseRecord(w), RecordGarbled(w)
      PROVE  RuntimeInv'
  BY <1>14, WorkersAreOperations
  DEF CloseRecord, CloseOrLeave, fileVars, MoveOrEnd, TransitionRaises, Raise,
      Fault, Transition, Moved, At, Goto, runtimeVars, Exists, Running,
      RuntimeInv, SelectionComplete, StagingOwned, ProfileSteps, RecordInv,
      OperationRecord, OpenStates, ClosedStates, Open
<1>15. ASSUME NEW w \in Workers, InspectArchive(w), UNCHANGED serviceVars,
             RecordGarbled(w)
      PROVE  RuntimeInv'
  BY <1>15, WorkersAreOperations
  DEF InspectArchive, Raise, At, Goto, serviceVars, Exists, Running,
      RuntimeInv, SelectionComplete, StagingOwned, RuntimeStatus, ProfileSteps,
      RecordInv, OperationRecord, OpenStates, ClosedStates
<1>16. ASSUME NEW w \in Workers, ExtractTree(w), UNCHANGED serviceVars,
             RecordGarbled(w)
      PROVE  RuntimeInv'
  BY <1>16, WorkersAreOperations
  DEF ExtractTree, fileVars, RemoveStaging, KeepStaging, Raise, Fault, At,
      Goto, serviceVars, Exists, Running, RuntimeInv, SelectionComplete,
      StagingOwned, ProfileSteps, RecordInv, OperationRecord, OpenStates,
      ClosedStates
<1>17. ASSUME NEW w \in Workers, PublishTree(w), UNCHANGED serviceVars,
             RecordGarbled(w)
      PROVE  RuntimeInv'
  BY <1>17, WorkersAreOperations
  DEF PublishTree, fileVars, RemoveStaging, KeepStaging, Raise, Fault, At,
      Goto, serviceVars, Exists, Running, RuntimeInv, SelectionComplete,
      StagingOwned, ProfileSteps, RecordInv, OperationRecord, OpenStates,
      ClosedStates
<1>18. ASSUME NEW w \in Workers, WriteReceipt(w), UNCHANGED serviceVars,
             RecordGarbled(w)
      PROVE  RuntimeInv'
  BY <1>18, WorkersAreOperations
  DEF WriteReceipt, fileVars, Raise, Fault, At, Goto, serviceVars, Exists,
      Running, RuntimeInv, SelectionComplete, StagingOwned, ProfileSteps,
      RecordInv, OperationRecord, OpenStates, ClosedStates
<1>19. ASSUME NEW w \in Workers, SelectRuntime(w), UNCHANGED serviceVars,
             RecordGarbled(w)
      PROVE  RuntimeInv'
  BY <1>19, WorkersAreOperations
  DEF SelectRuntime, fileVars, Raise, Fault, At, Goto, serviceVars, Exists,
      Running, RuntimeInv, SelectionComplete, StagingOwned, ProfileSteps,
      RecordInv, OperationRecord, OpenStates, ClosedStates
<1>20. ASSUME NEW w \in Workers, DropArchive(w), UNCHANGED serviceVars,
             RecordGarbled(w)
      PROVE  RuntimeInv'
  BY <1>20, WorkersAreOperations
  DEF DropArchive, fileVars, Fault, At, Goto, serviceVars, runtimeVars, Exists,
      Running, RuntimeInv, SelectionComplete, StagingOwned, ProfileSteps,
      RecordInv, OperationRecord, OpenStates, ClosedStates
<1>21. ASSUME NEW w \in Workers, CheckArtifact(w), UNCHANGED serviceVars,
             RecordGarbled(w)
      PROVE  RuntimeInv'
  BY <1>21, WorkersAreOperations
  DEF CheckArtifact, Raise, OpenTransfer, Advance, At, Goto, serviceVars,
      runtimeVars, Exists, Running, RuntimeInv, SelectionComplete,
      StagingOwned, ProfileSteps, RecordInv, OperationRecord, OpenStates,
      ClosedStates
<1>22. ASSUME NEW w \in Workers, FetchedArtifact(w), UNCHANGED serviceVars,
             RecordGarbled(w)
      PROVE  RuntimeInv'
  BY <1>22, WorkersAreOperations
  DEF FetchedArtifact, Raise, At, Goto, serviceVars, runtimeVars, Exists,
      Running, RuntimeInv, SelectionComplete, StagingOwned, ProfileSteps,
      RecordInv, OperationRecord, OpenStates, ClosedStates
<1>23. ASSUME NEW w \in Workers, StageNode(w), UNCHANGED serviceVars,
             RecordGarbled(w)
      PROVE  RuntimeInv'
  BY <1>23, WorkersAreOperations
  DEF StageNode, Raise, At, Goto, serviceVars, runtimeVars, Exists, Running,
      RuntimeInv, SelectionComplete, StagingOwned, ProfileSteps, RecordInv,
      OperationRecord, OpenStates, ClosedStates
<1>24. ASSUME NEW w \in Workers, PublishNode(w), UNCHANGED serviceVars,
             RecordGarbled(w)
      PROVE  RuntimeInv'
  BY <1>24, WorkersAreOperations
  DEF PublishNode, fileVars, Raise, Fault, At, Goto, serviceVars, runtimeVars,
      Exists, Running, RuntimeInv, SelectionComplete, StagingOwned,
      ProfileSteps, RecordInv, OperationRecord, OpenStates, ClosedStates
<1>25. ASSUME NEW w \in Workers, RecordArtifact(w), UNCHANGED serviceVars,
             RecordGarbled(w)
      PROVE  RuntimeInv'
  BY <1>25, WorkersAreOperations
  DEF RecordArtifact, fileVars, Raise, Fault, At, Goto, serviceVars,
      runtimeVars, Exists, Running, RuntimeInv, SelectionComplete,
      StagingOwned, ProfileSteps, RecordInv, OperationRecord, OpenStates,
      ClosedStates
<1>26. ASSUME NEW w \in Workers, TransferStep(w), RecordGarbled(w)
      PROVE  RuntimeInv'
  BY <1>26, WorkersAreOperations
  DEF installerVars, TransferStep, serviceVars, runtimeVars, At, Exists,
      Running, RuntimeInv, SelectionComplete, StagingOwned, ProfileSteps,
      RecordInv, OperationRecord, OpenStates, ClosedStates
<1>27. ASSUME NEW o \in Operations, BeginRaises(o)
      PROVE  RuntimeInv'
  BY <1>27, WorkersAreOperations
  DEF BeginRaises, fileVars, Fault, installerVars, NoOpenOperation,
      CreateOperation, Exists, Goto, Running, runtimeVars, At, RuntimeInv,
      SelectionComplete, StagingOwned, ProfileSteps, RecordInv,
      OperationRecord, OpenStates, ClosedStates, Open
<1> QED
  BY <1>1, <1>2, <1>3, <1>4, <1>5, <1>6, <1>7, <1>8, <1>9, <1>10,
     <1>11, <1>12, <1>13, <1>14, <1>15, <1>16, <1>17, <1>18, <1>19,
     <1>20, <1>21, <1>22, <1>23, <1>24, <1>25, <1>26, <1>27
    DEF Next, WorkerStep, ServiceStep, InstallStep, RuntimeStep, ProfileStep

\* Every step keeps the place of a thread within its profile.
LEMMA IndexStep ==
  ASSUME RecordInv, IndexInv, [Next]_vars
  PROVE  IndexInv'
<1>1. CASE UNCHANGED vars
  BY <1>1, ProfileEntries, WorkersAreOperations
  DEF vars, installerVars, profileVars, IndexInv, RecordInv, Running, AllSteps,
      ServiceSteps, RuntimeSteps, ProfileSteps
<1>2. ASSUME NEW o \in Operations, BeginInstall(o)
      PROVE  IndexInv'
  BY <1>2, ProfileEntries, WorkersAreOperations
  DEF BeginInstall, NoOpenOperation, CreateOperation, Exists, Goto, Running,
      profileVars, IndexInv, RecordInv, AllSteps, ServiceSteps, RuntimeSteps,
      ProfileSteps
<1>3. ASSUME NEW o \in Operations, CancelOperation(o)
      PROVE  IndexInv'
  BY <1>3, ProfileEntries, WorkersAreOperations
  DEF CancelOperation, Fault, Transition, Moved, installerVars, profileVars,
      IndexInv, RecordInv, Running, AllSteps, ServiceSteps, RuntimeSteps,
      ProfileSteps
<1>4. CASE Shutdown
  BY <1>4, ProfileEntries, WorkersAreOperations
  DEF Shutdown, installerVars, profileVars, IndexInv, RecordInv, Running,
      AllSteps, ServiceSteps, RuntimeSteps, ProfileSteps
<1>5. CASE Restart
  BY <1>5, ProfileEntries, WorkersAreOperations
  DEF Restart, NoReceipts, IndexInv, RecordInv, Running, AllSteps,
      ServiceSteps, RuntimeSteps, ProfileSteps
<1>6. ASSUME NEW w \in Workers, StartDownloading(w), RecordGarbled(w)
      PROVE  IndexInv'
  BY <1>6, ProfileEntries, WorkersAreOperations
  DEF StartDownloading, fileVars, MoveOrEnd, TransitionRaises, Raise, Fault,
      Transition, Moved, At, Goto, profileVars, IndexInv, RecordInv, Running,
      AllSteps, ServiceSteps, RuntimeSteps, ProfileSteps
<1>7. ASSUME NEW w \in Workers, LookAtRuntime(w), RecordGarbled(w)
      PROVE  IndexInv'
  BY <1>7, ProfileEntries, WorkersAreOperations
  DEF LookAtRuntime, At, Goto, profileVars, IndexInv, RecordInv, Running,
      AllSteps, ServiceSteps, RuntimeSteps, ProfileSteps
<1>8. ASSUME NEW w \in Workers, FetchArchive(w), RecordGarbled(w)
      PROVE  IndexInv'
  BY <1>8, ProfileEntries, WorkersAreOperations
  DEF FetchArchive, OpenTransfer, Advance, At, installerVars, profileVars,
      IndexInv, RecordInv, Running, AllSteps, ServiceSteps, RuntimeSteps,
      ProfileSteps
<1>9. ASSUME NEW w \in Workers, FetchedArchive(w), RecordGarbled(w)
      PROVE  IndexInv'
  BY <1>9, ProfileEntries, WorkersAreOperations
  DEF FetchedArchive, Raise, At, Goto, profileVars, IndexInv, RecordInv,
      Running, AllSteps, ServiceSteps, RuntimeSteps, ProfileSteps
<1>10. ASSUME NEW w \in Workers, BeginExtracting(w), RecordGarbled(w)
      PROVE  IndexInv'
  BY <1>10, ProfileEntries, WorkersAreOperations
  DEF BeginExtracting, fileVars, NextPhase, MoveOrEnd, TransitionRaises, Raise,
      Fault, Transition, Moved, At, Goto, profileVars, IndexInv, RecordInv,
      Running, AllSteps, ServiceSteps, RuntimeSteps, ProfileSteps
<1>11. ASSUME NEW w \in Workers, BeginInstalling(w), RecordGarbled(w)
      PROVE  IndexInv'
  BY <1>11, ProfileEntries, WorkersAreOperations
  DEF BeginInstalling, fileVars, NextPhase, MoveOrEnd, TransitionRaises, Raise,
      Fault, Transition, Moved, ReadReceipts, At, Goto, IndexInv, RecordInv,
      Running, AllSteps, ServiceSteps, RuntimeSteps, ProfileSteps
<1>12. ASSUME NEW w \in Workers, ProfileDone(w), RecordGarbled(w)
      PROVE  IndexInv'
  BY <1>12, ProfileEntries, WorkersAreOperations
  DEF ProfileDone, fileVars, Raise, Fault, At, Goto, profileVars, IndexInv,
      RecordInv, Running, AllSteps, ServiceSteps, RuntimeSteps, ProfileSteps
<1>13. ASSUME NEW w \in Workers, Complete(w), RecordGarbled(w)
      PROVE  IndexInv'
  BY <1>13, ProfileEntries, WorkersAreOperations
  DEF Complete, fileVars, NextPhase, MoveOrEnd, TransitionRaises, Raise, Fault,
      Transition, Moved, At, Goto, profileVars, IndexInv, RecordInv, Running,
      AllSteps, ServiceSteps, RuntimeSteps, ProfileSteps
<1>14. ASSUME NEW w \in Workers, CloseRecord(w), RecordGarbled(w)
      PROVE  IndexInv'
  BY <1>14, ProfileEntries, WorkersAreOperations
  DEF CloseRecord, CloseOrLeave, fileVars, MoveOrEnd, TransitionRaises, Raise,
      Fault, Transition, Moved, At, Goto, profileVars, IndexInv, RecordInv,
      Running, AllSteps, ServiceSteps, RuntimeSteps, ProfileSteps
<1>15. ASSUME NEW w \in Workers, InspectArchive(w), UNCHANGED serviceVars,
             RecordGarbled(w)
      PROVE  IndexInv'
  BY <1>15, ProfileEntries, WorkersAreOperations
  DEF InspectArchive, Raise, At, Goto, profileVars, IndexInv, RecordInv,
      Running, AllSteps, ServiceSteps, RuntimeSteps, ProfileSteps
<1>16. ASSUME NEW w \in Workers, ExtractTree(w), UNCHANGED serviceVars,
             RecordGarbled(w)
      PROVE  IndexInv'
  BY <1>16, ProfileEntries, WorkersAreOperations
  DEF ExtractTree, fileVars, RemoveStaging, KeepStaging, Raise, Fault, At,
      Goto, profileVars, IndexInv, RecordInv, Running, AllSteps, ServiceSteps,
      RuntimeSteps, ProfileSteps
<1>17. ASSUME NEW w \in Workers, PublishTree(w), UNCHANGED serviceVars,
             RecordGarbled(w)
      PROVE  IndexInv'
  BY <1>17, ProfileEntries, WorkersAreOperations
  DEF PublishTree, fileVars, RemoveStaging, KeepStaging, Raise, Fault, At,
      Goto, profileVars, IndexInv, RecordInv, Running, AllSteps, ServiceSteps,
      RuntimeSteps, ProfileSteps
<1>18. ASSUME NEW w \in Workers, WriteReceipt(w), UNCHANGED serviceVars,
             RecordGarbled(w)
      PROVE  IndexInv'
  BY <1>18, ProfileEntries, WorkersAreOperations
  DEF WriteReceipt, fileVars, Raise, Fault, At, Goto, profileVars, IndexInv,
      RecordInv, Running, AllSteps, ServiceSteps, RuntimeSteps, ProfileSteps
<1>19. ASSUME NEW w \in Workers, SelectRuntime(w), UNCHANGED serviceVars,
             RecordGarbled(w)
      PROVE  IndexInv'
  BY <1>19, ProfileEntries, WorkersAreOperations
  DEF SelectRuntime, fileVars, Raise, Fault, At, Goto, profileVars, IndexInv,
      RecordInv, Running, AllSteps, ServiceSteps, RuntimeSteps, ProfileSteps
<1>20. ASSUME NEW w \in Workers, DropArchive(w), UNCHANGED serviceVars,
             RecordGarbled(w)
      PROVE  IndexInv'
  BY <1>20, ProfileEntries, WorkersAreOperations
  DEF DropArchive, fileVars, Fault, At, Goto, profileVars, IndexInv, RecordInv,
      Running, AllSteps, ServiceSteps, RuntimeSteps, ProfileSteps
<1>21. ASSUME NEW w \in Workers, CheckArtifact(w), UNCHANGED serviceVars,
             RecordGarbled(w)
      PROVE  IndexInv'
  <2>1. CASE index' = [index EXCEPT ![w] = index[w] + 1] /\ UNCHANGED step
    BY <1>21, <2>1, ProfileEntries
    DEF CheckArtifact, At, IndexInv, RecordInv, Running, AllSteps,
        ServiceSteps, RuntimeSteps, ProfileSteps
  <2>2. CASE UNCHANGED index /\ (Raise(w) \/ Goto(w, "fetching"))
    BY <1>21, <2>2
    DEF CheckArtifact, Goto, Raise, At, IndexInv, RecordInv, Running, AllSteps,
        ServiceSteps, RuntimeSteps, ProfileSteps
  <2> QED BY <1>21, <2>1, <2>2 DEF CheckArtifact
<1>22. ASSUME NEW w \in Workers, FetchedArtifact(w), UNCHANGED serviceVars,
             RecordGarbled(w)
      PROVE  IndexInv'
  BY <1>22, ProfileEntries, WorkersAreOperations
  DEF FetchedArtifact, Raise, At, Goto, profileVars, IndexInv, RecordInv,
      Running, AllSteps, ServiceSteps, RuntimeSteps, ProfileSteps
<1>23. ASSUME NEW w \in Workers, StageNode(w), UNCHANGED serviceVars,
             RecordGarbled(w)
      PROVE  IndexInv'
  BY <1>23, ProfileEntries, WorkersAreOperations
  DEF StageNode, Raise, At, Goto, profileVars, IndexInv, RecordInv, Running,
      AllSteps, ServiceSteps, RuntimeSteps, ProfileSteps
<1>24. ASSUME NEW w \in Workers, PublishNode(w), UNCHANGED serviceVars,
             RecordGarbled(w)
      PROVE  IndexInv'
  BY <1>24, ProfileEntries, WorkersAreOperations
  DEF PublishNode, fileVars, Raise, Fault, At, Goto, IndexInv, RecordInv,
      Running, AllSteps, ServiceSteps, RuntimeSteps, ProfileSteps
<1>25. ASSUME NEW w \in Workers, RecordArtifact(w), UNCHANGED serviceVars,
             RecordGarbled(w)
      PROVE  IndexInv'
  <2>1. CASE index' = [index EXCEPT ![w] = index[w] + 1] /\ Goto(w, "artifact")
    BY <1>25, <2>1, ProfileEntries
    DEF RecordArtifact, fileVars, Goto, At, IndexInv, RecordInv, Running,
        AllSteps, ServiceSteps, RuntimeSteps, ProfileSteps
  <2>2. CASE Raise(w) /\ UNCHANGED index
    BY <1>25, <2>2
    DEF RecordArtifact, fileVars, Goto, Raise, At, IndexInv, RecordInv,
        Running, AllSteps, ServiceSteps, RuntimeSteps, ProfileSteps
  <2> QED BY <1>25, <2>1, <2>2 DEF RecordArtifact
<1>26. ASSUME NEW w \in Workers, TransferStep(w), RecordGarbled(w)
      PROVE  IndexInv'
  BY <1>26, ProfileEntries, WorkersAreOperations
  DEF installerVars, TransferStep, profileVars, IndexInv, RecordInv, Running,
      AllSteps, ServiceSteps, RuntimeSteps, ProfileSteps
<1>27. ASSUME NEW o \in Operations, BeginRaises(o)
      PROVE  IndexInv'
  BY <1>27, ProfileEntries, WorkersAreOperations
  DEF BeginRaises, fileVars, Fault, installerVars, NoOpenOperation,
      CreateOperation, Exists, Goto, Running, profileVars, IndexInv, RecordInv,
      AllSteps, ServiceSteps, RuntimeSteps, ProfileSteps
<1> QED
  BY <1>1, <1>2, <1>3, <1>4, <1>5, <1>6, <1>7, <1>8, <1>9, <1>10,
     <1>11, <1>12, <1>13, <1>14, <1>15, <1>16, <1>17, <1>18, <1>19,
     <1>20, <1>21, <1>22, <1>23, <1>24, <1>25, <1>26, <1>27
    DEF Next, WorkerStep, ServiceStep, InstallStep, RuntimeStep, ProfileStep

\* Every step keeps the switches truth values.
LEMMA FlagsStep ==
  ASSUME FlagsInv, [Next]_vars
  PROVE  FlagsInv'
<1>1. CASE UNCHANGED vars
  BY <1>1 DEF vars, serviceVars, installerVars, runtimeVars, FlagsInv
<1>2. ASSUME NEW o \in Operations, BeginInstall(o)
      PROVE  FlagsInv'
  BY <1>2
  DEF BeginInstall, NoOpenOperation, CreateOperation, Exists, Goto, Running,
      runtimeVars, FlagsInv
<1>3. ASSUME NEW o \in Operations, CancelOperation(o)
      PROVE  FlagsInv'
  BY <1>3
  DEF CancelOperation, Fault, Transition, Moved, installerVars, runtimeVars,
      FlagsInv
<1>4. CASE Shutdown
  BY <1>4 DEF Shutdown, installerVars, runtimeVars, FlagsInv
<1>5. CASE Restart
  BY <1>5 DEF Restart, RecoverInterrupted, Moved, runtimeVars, FlagsInv
<1>6. ASSUME NEW w \in Workers, StartDownloading(w), RecordGarbled(w)
      PROVE  FlagsInv'
  BY <1>6
  DEF StartDownloading, fileVars, MoveOrEnd, TransitionRaises, Raise, Fault,
      Transition, Moved, At, Goto, runtimeVars, FlagsInv
<1>7. ASSUME NEW w \in Workers, LookAtRuntime(w), RecordGarbled(w)
      PROVE  FlagsInv'
  BY <1>7 DEF LookAtRuntime, At, Goto, serviceVars, runtimeVars, FlagsInv
<1>8. ASSUME NEW w \in Workers, FetchArchive(w), RecordGarbled(w)
      PROVE  FlagsInv'
  BY <1>8
  DEF FetchArchive, OpenTransfer, Advance, At, serviceVars, installerVars,
      runtimeVars, FlagsInv
<1>9. ASSUME NEW w \in Workers, FetchedArchive(w), RecordGarbled(w)
      PROVE  FlagsInv'
  BY <1>9
  DEF FetchedArchive, Raise, At, Goto, serviceVars, runtimeVars, FlagsInv
<1>10. ASSUME NEW w \in Workers, BeginExtracting(w), RecordGarbled(w)
      PROVE  FlagsInv'
  BY <1>10
  DEF BeginExtracting, fileVars, NextPhase, MoveOrEnd, TransitionRaises, Raise,
      Fault, Transition, Moved, At, Goto, runtimeVars, FlagsInv
<1>11. ASSUME NEW w \in Workers, BeginInstalling(w), RecordGarbled(w)
      PROVE  FlagsInv'
  BY <1>11
  DEF BeginInstalling, fileVars, NextPhase, MoveOrEnd, TransitionRaises, Raise,
      Fault, Transition, Moved, ReadReceipts, At, Goto, runtimeVars, FlagsInv
<1>12. ASSUME NEW w \in Workers, ProfileDone(w), RecordGarbled(w)
      PROVE  FlagsInv'
  BY <1>12
  DEF ProfileDone, fileVars, Raise, Fault, At, Goto, serviceVars, runtimeVars,
      FlagsInv
<1>13. ASSUME NEW w \in Workers, Complete(w), RecordGarbled(w)
      PROVE  FlagsInv'
  BY <1>13
  DEF Complete, fileVars, NextPhase, MoveOrEnd, TransitionRaises, Raise, Fault,
      Transition, Moved, At, Goto, runtimeVars, FlagsInv
<1>14. ASSUME NEW w \in Workers, CloseRecord(w), RecordGarbled(w)
      PROVE  FlagsInv'
  BY <1>14
  DEF CloseRecord, CloseOrLeave, fileVars, MoveOrEnd, TransitionRaises, Raise,
      Fault, Transition, Moved, At, Goto, runtimeVars, FlagsInv
<1>15. ASSUME NEW w \in Workers, InspectArchive(w), UNCHANGED serviceVars,
             RecordGarbled(w)
      PROVE  FlagsInv'
  BY <1>15 DEF InspectArchive, Raise, At, Goto, serviceVars, FlagsInv
<1>16. ASSUME NEW w \in Workers, ExtractTree(w), UNCHANGED serviceVars,
             RecordGarbled(w)
      PROVE  FlagsInv'
  BY <1>16 DEF ExtractTree, RemoveStaging, KeepStaging, Raise, Fault, At, Goto, serviceVars, FlagsInv
<1>17. ASSUME NEW w \in Workers, PublishTree(w), UNCHANGED serviceVars,
             RecordGarbled(w)
      PROVE  FlagsInv'
  BY <1>17 DEF PublishTree, RemoveStaging, KeepStaging, Raise, Fault, At, Goto, serviceVars, FlagsInv
<1>18. ASSUME NEW w \in Workers, WriteReceipt(w), UNCHANGED serviceVars,
             RecordGarbled(w)
      PROVE  FlagsInv'
  BY <1>18 DEF WriteReceipt, Raise, Fault, At, Goto, serviceVars, FlagsInv
<1>19. ASSUME NEW w \in Workers, SelectRuntime(w), UNCHANGED serviceVars,
             RecordGarbled(w)
      PROVE  FlagsInv'
  BY <1>19 DEF SelectRuntime, Raise, Fault, At, Goto, serviceVars, FlagsInv
<1>20. ASSUME NEW w \in Workers, DropArchive(w), UNCHANGED serviceVars,
             RecordGarbled(w)
      PROVE  FlagsInv'
  BY <1>20
  DEF DropArchive, fileVars, Fault, At, Goto, serviceVars, runtimeVars,
      FlagsInv
<1>21. ASSUME NEW w \in Workers, ProfileStep(w), UNCHANGED serviceVars,
             RecordGarbled(w)
      PROVE  FlagsInv'
  BY <1>21
  DEF ProfileStep, CheckArtifact, FetchedArtifact, StageNode, PublishNode,
      fileVars, RecordArtifact, serviceVars, runtimeVars, FlagsInv
<1>22. ASSUME NEW w \in Workers, TransferStep(w), RecordGarbled(w)
      PROVE  FlagsInv'
  BY <1>22 DEF installerVars, TransferStep, serviceVars, runtimeVars, FlagsInv
<1>23. ASSUME NEW o \in Operations, BeginRaises(o)
      PROVE  FlagsInv'
  BY <1>23
  DEF BeginRaises, fileVars, Fault, installerVars, NoOpenOperation,
      CreateOperation, Exists, Goto, Running, runtimeVars, FlagsInv
<1> QED
  BY <1>1, <1>2, <1>3, <1>4, <1>5, <1>6, <1>7, <1>8, <1>9, <1>10,
     <1>11, <1>12, <1>13, <1>14, <1>15, <1>16, <1>17, <1>18, <1>19,
     <1>20, <1>21, <1>22, <1>23
    DEF Next, WorkerStep, ServiceStep, InstallStep, RuntimeStep

\* The first state: no records, no threads, nothing published.
LEMMA RunInit == Init => RunInv
<1> SUFFICES ASSUME Init PROVE RunInv
  OBVIOUS
<1>1. RecordInv
  BY WorkersAreOperations
  DEF Init, RecordInv, AbsentOperation, OperationRecord, OneOpenOperation,
      Open, OpenStates, Running, AllSteps, ServiceSteps
<1>2. RuntimeInv
  BY DEF Init, RuntimeInv, SelectionComplete, StagingOwned, ProfileSteps,
       AbsentOperation
<1>3. IndexInv
  BY ProfileEntries DEF Init, IndexInv, ProfileSteps
<1>4. FlagsInv
  BY DEF Init, FlagsInv
<1> QED BY <1>1, <1>2, <1>3, <1>4 DEF RunInv

\* Records, publications and places of threads stay consistent in every run,
\* whatever the constants and whatever write or removal fails: a record without
\* a thread is one whose closing write failed, a staging tree without one is one
\* whose removal failed (service.py:311-347, archives.py:194-209).
THEOREM RunInvariant == Spec => []RunInv
<1>1. RunInv /\ [Next]_vars => RunInv'
  BY RecordStep, RuntimeStepInv, IndexStep, FlagsStep DEF RunInv
<1> QED BY <1>1, RunInit, PTL DEF Spec

\* At most one operation is open, and it has a thread unless the write that
\* should have closed its record failed (begin_install, service.py:112-147,
\* 311-347).
THEOREM OneOpen == Spec => []OneOpenOperation
<1>1. RunInv => OneOpenOperation
  BY DEF RunInv, RecordInv
<1> QED BY <1>1, RunInvariant, PTL

\* The selection record never names a runtime that is not complete
\* (installer.py:513-557).
THEOREM SelectionNamesRuntime == Spec => []SelectionComplete
<1>1. RunInv => SelectionComplete
  BY DEF RunInv, RuntimeInv
<1> QED BY <1>1, RunInvariant, PTL

\* A staging tree belongs to a thread that extracts or publishes it, unless its
\* removal failed or the process ended (archives.py:178-209).
THEOREM StagingHasOwner == Spec => []StagingOwned
<1>1. RunInv => StagingOwned
  BY DEF RunInv, RuntimeInv
<1> QED BY <1>1, RunInvariant, PTL

\* No step changes a closed record: a transition asks for an open one.
LEMMA ClosedStays ==
  ASSUME RecordInv, [Next]_vars, NEW o \in Operations, Closed(o)
  PROVE  operations'[o] = operations[o]
<1>1. ~Open(o) /\ Exists(o)
  BY DEF Closed, Open, Exists, OpenStates, ClosedStates
<1>2. CASE UNCHANGED operations
  BY <1>2
<1>3. ASSUME NEW p \in Operations, NEW s, Transition(p, s)
      PROVE  operations'[o] = operations[o]
  BY <1>1, <1>3 DEF Transition, RecordInv
<1>4. ASSUME NEW p \in Operations, CreateOperation(p)
      PROVE  operations'[o] = operations[o]
  BY <1>1, <1>4 DEF CreateOperation, RecordInv
<1>5. CASE RecoverInterrupted
  BY <1>1, <1>5 DEF RecoverInterrupted
<1>6. ASSUME NEW w \in Workers, ServiceStep(w)
      PROVE  operations'[o] = operations[o]
  BY <1>2, <1>3, <1>6, WorkersAreOperations
  DEF ServiceStep, StartDownloading, fileVars, LookAtRuntime, FetchArchive,
      FetchedArchive, BeginExtracting, BeginInstalling, ProfileDone, Complete,
      CloseRecord, CloseOrLeave, NextPhase, MoveOrEnd, TransitionRaises, Raise,
      Fault, serviceVars
<1> QED
  BY <1>2, <1>3, <1>4, <1>5, <1>6
  DEF Next, vars, serviceVars, BeginInstall, BeginRaises, CancelOperation,
      Fault, Shutdown, Restart, WorkerStep, InstallStep, TransferStep

\* A record that is closed stays as it is, whatever thread is left behind it
\* (service.py:320-362).
THEOREM ClosedRecordStays == Spec => ClosedForever
<1>1. RunInv /\ [Next]_vars =>
        [\A o \in Operations : Closed(o) => operations'[o] = operations[o]]_vars
  BY ClosedStays DEF RunInv
<1> QED BY <1>1, RunInvariant, PTL DEF Spec, ClosedForever

-----------------------------------------------------------------------------
(***************************************************************************)
(* The files of downloads and profiles.                                    *)
(* Two threads may work on one part file, so every fact about its content  *)
(* holds up to `garbled', which records where they did.  What is in its    *)
(* place stays there; what the receipts say needs a thread that runs alone.*)
(***************************************************************************)

Pieces == Seq(0 .. Chunks)

\* What a file holds.
Content == Pieces \cup {Missing}

TransferSteps ==
  {"idle", "asking", "streaming", "received", "done", "failed", "canceled"}

Transfer ==
  [step : TransferSteps, artifact : Files \cup {Missing}, received : Nat,
   position : Nat, hashed : Pieces]

\* Types, and what a thread that streams or asks may rely on.
DownloadInv ==
  /\ file \in [Files -> Content] /\ part \in [Files -> Content]
  /\ transfer \in [Workers -> Transfer]
  /\ stopped \subseteq Workers /\ faults \in Nat
  /\ \A w \in Workers :
       LET t == transfer[w] IN
       /\ t.step # "idle" => t.artifact \in Files
       /\ t.step = "streaming" => Present(part[t.artifact])
       /\ t.step = "asking" => t.hashed = << >> /\ t.position = 0

\* A part that one thread works on from its first byte holds what it received.
FreshInv ==
  /\ garbled \subseteq Files
  /\ FreshDownloadWhole
  /\ \A w \in Workers :
       LET t == transfer[w] IN
       t.step \in {"streaming", "received"} /\ t.artifact \notin garbled =>
         /\ t.hashed = part[t.artifact]
         /\ t.received = Len(t.hashed) /\ t.position = Len(t.hashed)


\* Receipts and nodes.
ReceiptsInv ==
  /\ receipts \in [Workers -> [Files -> Content]]
  /\ installed \in [Files -> Content]
  /\ node \subseteq Nodes
  /\ \A w \in Workers :
       step[w] \in {"node", "nodeStaged"} => Current(w) \in Nodes

\* An artifact is installed: its file, and its node if it is one.
InPlace(f) == Present(file[f]) /\ (f \in Nodes => f \in node)

AtProfile(w) == step[w] \in ProfileSteps \cup {"paths"}

\* What the place of a thread says of the artifacts it has passed.
ThreadPlaced(w) ==
  LET t == transfer[w] IN
  /\ \A f \in Files : Present(receipts[w][f]) => f # Archive /\ InPlace(f)
  /\ AtProfile(w) => \A i \in 1 .. index[w] - 1 : InPlace(Profile[i])
  /\ step[w] = "fetching" => t.step # "idle" /\ t.artifact = Current(w)
  /\ t.step = "done" /\ t.artifact # Archive => Present(file[t.artifact])
  /\ step[w] \in {"node", "nodeStaged"} => Present(file[Current(w)])
  /\ step[w] = "receipt" => InPlace(Current(w))

InstalledPlaced ==
  \A f \in Files : Present(installed[f]) => f # Archive /\ InPlace(f)

ProfilePlaced == \A i \in 1 .. Len(Profile) : InPlace(Profile[i])

PlacedInv ==
  /\ InstalledPlaced
  /\ \A w \in Workers : ThreadPlaced(w)
  /\ \A o \in Operations : operations[o].state = "completed" => ProfilePlaced

\* The receipt of an artifact holds the hash of the artifact.
Recorded(f) == installed[f] = Whole \/ f \in garbled

\* A thread whose copy of the receipts is the file.
RecordsHeld(w) ==
  AtProfile(w) =>
    /\ receipts[w] = installed
    /\ \A i \in 1 .. index[w] - 1 : Recorded(Profile[i])

ProfileRecorded == \A i \in 1 .. Len(Profile) : Recorded(Profile[i])

LoneInv ==
  ~beside =>
    /\ \A v, w \in Workers : Running(v) /\ Running(w) => v = w
    /\ \A w \in Workers : RecordsHeld(w)
    /\ \A o \in Operations :
         operations[o].state = "completed" => ProfileRecorded

FilesInv ==
  DownloadInv /\ FreshInv /\ ReceiptsInv /\ PlacedInv /\ LoneInv

\* Whole is a content, and no content is Missing.
LEMMA Contents ==
  /\ << >> \in Pieces /\ Len(<< >>) = 0
  /\ Whole \in Pieces
  /\ Missing \notin Pieces
  /\ \A c \in Pieces : Len(c) \in Nat
<1>1. Whole \in Seq(0 .. Chunks)
  BY ChunksAssumption DEF Whole
<1> QED BY <1>1, MissingAssumption DEF Pieces

\* Storing a piece; at the end of a part it is appended.
LEMMA PieceStored ==
  ASSUME NEW c \in Pieces, NEW position \in Nat, NEW piece \in 0 .. Chunks
  PROVE  /\ Overwritten(c, position, piece) \in Pieces
         /\ Append(c, piece) \in Pieces /\ Len(Append(c, piece)) = Len(c) + 1
         /\ position = Len(c) => Overwritten(c, position, piece) = Append(c, piece)
<1> DEFINE n == IF position < Len(c) THEN Len(c) ELSE position + 1
           g == [i \in 1 .. n |->
                   IF i = position + 1 THEN piece
                   ELSE IF i <= Len(c) THEN c[i] ELSE 0]
<1>0. Overwritten(c, position, piece) = g
  BY DEF Overwritten
<1>1. n \in Nat /\ \A i \in 1 .. n : g[i] \in 0 .. Chunks
  BY ChunksAssumption DEF Pieces
<1>2. g \in Seq(0 .. Chunks) /\ Len(g) = n
  <2> HIDE DEF n
  <2>1. g \in [1 .. n -> 0 .. Chunks]
    BY <1>1
  <2>2. g \in Seq(0 .. Chunks)
    BY <2>1, <1>1, SeqDef, Zenon
  <2> HIDE DEF g
  <2> QED BY <2>1, <2>2, <1>1
<1>3. /\ Append(c, piece) \in Pieces /\ Len(Append(c, piece)) = Len(c) + 1
      /\ Append(c, piece)[Len(c) + 1] = piece
      /\ \A i \in 1 .. Len(c) : Append(c, piece)[i] = c[i]
  BY DEF Pieces
<1>4. ASSUME position = Len(c) PROVE g = Append(c, piece)
  <2>1. /\ Len(g) = Len(Append(c, piece))
         /\ \A i \in 1 .. Len(g) : g[i] = Append(c, piece)[i]
    BY <1>2, <1>3, <1>4 DEF Pieces
  <2> QED
    BY <2>1, <1>2, <1>3, SeqEqual, Zenon DEF Pieces
<1> HIDE DEF g
<1> QED BY <1>0, <1>2, <1>3, <1>4 DEF Pieces

\* A download is changed for one thread.
LEMMA TransferSet ==
  ASSUME NEW w \in Workers, NEW t \in Transfer,
         transfer \in [Workers -> Transfer],
         transfer' = [transfer EXCEPT ![w] = t]
  PROVE  /\ transfer' \in [Workers -> Transfer]
         /\ transfer'[w] = t
         /\ \A v \in Workers \ {w} : transfer'[v] = transfer[v]
OBVIOUS

\* Moving a download to another step leaves the rest of it.
LEMMA TransferFields ==
  /\ Idle \in Transfer
  /\ \A t \in Transfer, s \in TransferSteps : 
       /\ [t EXCEPT !.step = s] \in Transfer
       /\ [t EXCEPT !.step = s].step = s
       /\ [t EXCEPT !.step = s].artifact = t.artifact
       /\ [t EXCEPT !.step = s].received = t.received
       /\ [t EXCEPT !.step = s].position = t.position
       /\ [t EXCEPT !.step = s].hashed = t.hashed
BY Contents DEF Transfer, TransferSteps, Idle

\* The request of a download that begins.
LEMMA Asking ==
  ASSUME NEW f \in Files, DownloadInv
  PROVE  LET asking == [Idle EXCEPT !.step = "asking", !.artifact = f,
                             !.received = ResumeOffset(f)] IN
         /\ ResumeOffset(f) \in Nat
         /\ asking \in Transfer
         /\ asking.step = "asking" /\ asking.artifact = f
         /\ asking.received = ResumeOffset(f)
         /\ asking.position = 0 /\ asking.hashed = << >>
<1>1. ResumeOffset(f) \in Nat
  BY Contents DEF DownloadInv, ResumeOffset, SidecarValid, Present, Content
<1> QED BY <1>1, Contents DEF Idle, Transfer, TransferSteps

\* What a thread does to its own download and to the part of its artifact.
Writes(w, f, t, c) ==
  /\ transfer' = [transfer EXCEPT ![w] = t]
  /\ part' = [part EXCEPT ![f] = c]
  /\ t.step # "idle" => t.artifact = f
  /\ t.step = "asking" => t.hashed = << >> /\ t.position = 0
  /\ t.step = "streaming" => Present(c)
  /\ c = part[f] \/ Present(c) \/ ~HeldByOther(w, f)
  /\ t.step \in {"streaming", "received"} =>
       \/ f \in garbled
       \/ t.step = "streaming" /\ t.received > t.position
       \/ t.hashed = c /\ t.received = Len(c) /\ t.position = Len(c)

\* A step that writes no more than that keeps the downloads.
LEMMA DownloadFrame ==
  ASSUME DownloadInv, FreshInv, NEW w \in Workers, RecordGarbled(w),
         NEW f \in Files, NEW t \in Transfer, NEW c \in Content,
         Writes(w, f, t, c),
         stopped' \subseteq Workers, faults' \in Nat,
         file' \in [Files -> Content],
         \A g \in Files :
           file'[g] \in {Missing, Whole, file[g]} \/ g \in garbled'
  PROVE  DownloadInv' /\ FreshInv'
<1>1. /\ transfer' \in [Workers -> Transfer] /\ transfer'[w] = t
      /\ \A v \in Workers \ {w} : transfer'[v] = transfer[v]
  BY DEF Writes, DownloadInv
<1>2. /\ part' \in [Files -> Content] /\ part'[f] = c
      /\ \A g \in Files \ {f} : part'[g] = part[g]
  BY DEF Writes, DownloadInv
<1>3. garbled' \subseteq Files /\ garbled \subseteq garbled'
  BY DEF FreshInv, RecordGarbled
<1>4. \A v \in Workers :
        /\ transfer'[v].step # "idle" => transfer'[v].artifact \in Files
        /\ transfer'[v].step = "streaming" =>
             Present(part'[transfer'[v].artifact])
        /\ transfer'[v].step = "asking" =>
             transfer'[v].hashed = << >> /\ transfer'[v].position = 0
  <2> TAKE v \in Workers
  <2>1. CASE v = w
    BY <2>1, <1>1, <1>2 DEF Writes, Present
  <2>2. CASE v # w
    BY <2>2, <1>1, <1>2 DEF Writes, DownloadInv, HeldByOther, Holds, Present
  <2> QED BY <2>1, <2>2
<1>5. DownloadInv'
  BY <1>1, <1>2, <1>4 DEF DownloadInv
<1>6. ASSUME NEW v \in Workers, transfer'[v].step \in {"streaming", "received"},
             transfer'[v].artifact \notin garbled'
      PROVE  /\ transfer'[v].hashed = part'[transfer'[v].artifact]
             /\ transfer'[v].received = Len(transfer'[v].hashed)
             /\ transfer'[v].position = Len(transfer'[v].hashed)
  <2>1. CASE v = w
    BY <2>1, <1>6, <1>1, <1>2, <1>3 DEF Writes, RecordGarbled, Garbles
  <2>2. CASE v # w
    <3>1. transfer[v].artifact \in Files
      BY <1>6, <2>2, <1>1 DEF DownloadInv
    <3>2. part'[transfer[v].artifact] = part[transfer[v].artifact]
      BY <1>6, <3>1, <2>2, <1>1 DEF RecordGarbled, Garbles
    <3> QED BY <3>2, <1>6, <2>2, <1>1, <1>3 DEF FreshInv
  <2> QED BY <2>1, <2>2
<1>7. FreshDownloadWhole'
  BY <1>3 DEF FreshInv, FreshDownloadWhole
<1> QED BY <1>3, <1>5, <1>6, <1>7 DEF FreshInv

\* download() begins with a request, unless the artifact is there.
LEMMA Opened ==
  ASSUME DownloadInv, NEW w \in Workers, NEW f \in Files, OpenTransfer(w, f)
  PROVE  \E t \in Transfer :
           /\ transfer' = [transfer EXCEPT ![w] = t]
           /\ t.artifact = f /\ t.hashed = << >> /\ t.position = 0
           /\ t.step \in {"asking", "done", "failed"}
           /\ t.step = "done" => file[f] = Whole
<1> DEFINE asking == [Idle EXCEPT !.step = "asking", !.artifact = f,
                                  !.received = ResumeOffset(f)]
<1>1. /\ asking \in Transfer /\ asking.step = "asking" /\ asking.artifact = f
      /\ asking.position = 0 /\ asking.hashed = << >>
  BY Asking
<1>2. ASSUME NEW s \in {"done", "failed"}
      PROVE  LET r == [asking EXCEPT !.step = s] IN
             /\ r \in Transfer /\ r.artifact = f /\ r.step = s
             /\ r.hashed = << >> /\ r.position = 0
  <2>1. s \in TransferSteps
    BY DEF TransferSteps
  <2> QED BY <2>1, <1>1, TransferFields
<1>3. \/ transfer' = [transfer EXCEPT ![w] = asking]
      \/ transfer' = [transfer EXCEPT ![w] = [asking EXCEPT !.step = "failed"]]
      \/ /\ transfer' = [transfer EXCEPT ![w] = [asking EXCEPT !.step = "done"]]
         /\ file[f] = Whole
  BY DEF OpenTransfer, Advance
<1> HIDE DEF asking
<1> QED BY <1>1, <1>2, <1>3

\* The same about the state after it.
LEMMA OpenEffect ==
  ASSUME DownloadInv, NEW w \in Workers, NEW f \in Files, OpenTransfer(w, f)
  PROVE  /\ transfer'[w].artifact = f /\ transfer'[w].step # "idle"
         /\ transfer'[w].step = "done" => file[f] = Whole /\ Present(file[f])
         /\ \A v \in Workers \ {w} : transfer'[v] = transfer[v]
         /\ UNCHANGED file
<1>1. UNCHANGED file
  BY DEF OpenTransfer, Advance
<1> QED BY <1>1, Opened, Contents DEF DownloadInv, Present

\* download() up to the request keeps the downloads.
LEMMA OpenTransferStep ==
  ASSUME DownloadInv, FreshInv, NEW w \in Workers, NEW f \in Files,
         OpenTransfer(w, f), RecordGarbled(w)
  PROVE  DownloadInv' /\ FreshInv'
<1>1. PICK t \in Transfer :
        /\ transfer' = [transfer EXCEPT ![w] = t]
        /\ t.artifact = f /\ t.hashed = << >> /\ t.position = 0
        /\ t.step \in {"asking", "done", "failed"}
  BY Opened
<1>2. PICK c \in {part[f], << >>} : part' = [part EXCEPT ![f] = c]
  BY DEF OpenTransfer, DownloadInv
<1>3. c \in Content
  BY <1>2, Contents DEF DownloadInv, Content
<1>4. UNCHANGED <<file, stopped, faults>>
  BY DEF OpenTransfer, Advance
<1>5. Writes(w, f, t, c)
  BY <1>1, <1>2, Contents DEF Writes, Present
<1> QED BY <1>1, <1>3, <1>4, <1>5, DownloadFrame DEF DownloadInv

\* So does its return.
LEMMA TransferClosed ==
  ASSUME DownloadInv, FreshInv, NEW w \in Workers, RecordGarbled(w),
         transfer' = [transfer EXCEPT ![w] = Idle],
         UNCHANGED <<file, part, stopped, faults>>
  PROVE  DownloadInv' /\ FreshInv'
<1>1. PICK f : f \in Files
  BY ProfileAssumption
<1>2. part[f] \in Content /\ part' = [part EXCEPT ![f] = part[f]]
  BY <1>1 DEF DownloadInv
<1>3. Idle \in Transfer /\ Idle.step = "idle"
  BY TransferFields DEF Idle
<1>4. Writes(w, f, Idle, part[f])
  BY <1>2, <1>3 DEF Writes
<1> QED BY <1>1, <1>2, <1>3, <1>4, DownloadFrame DEF DownloadInv

\* So does a step that touches neither files nor downloads.
LEMMA DownloadsKept ==
  ASSUME DownloadInv, FreshInv, NEW w \in Workers, RecordGarbled(w),
         UNCHANGED <<file, part, transfer, stopped>>, faults' \in Nat
  PROVE  DownloadInv' /\ FreshInv'
<1>1. garbled' \subseteq Files /\ garbled \subseteq garbled'
  BY DEF FreshInv, RecordGarbled
<1> QED
  BY <1>1 DEF DownloadInv, FreshInv, FreshDownloadWhole

\* And so does every step within download().
LEMMA DownloadStepInv ==
  ASSUME DownloadInv, FreshInv, NEW w \in Workers, DownloadStep(w),
         RecordGarbled(w)
  PROVE  DownloadInv' /\ FreshInv'
<1> DEFINE t == transfer[w]
           f == t.artifact
<1>1. /\ t \in Transfer /\ t.step # "idle" /\ f \in Files
      /\ part[f] \in Content /\ part = [part EXCEPT ![f] = part[f]]
      /\ t.received \in Nat /\ t.position \in Nat /\ t.hashed \in Pieces
  BY DEF DownloadInv, DownloadStep, RangeIgnored, BeginBody, ResumeBody,
       ReceiveChunk, EndBody, LoseConnection, PublishArtifact, Transfer
<1>2. /\ t.step = "streaming" => Present(part[f])
      /\ t.step = "asking" => t.hashed = << >> /\ t.position = 0
      /\ t.step \in {"streaming", "received"} /\ f \notin garbled =>
           t.hashed = part[f] /\ t.received = Len(t.hashed)
             /\ t.position = Len(t.hashed)
  BY DEF DownloadInv, FreshInv
<1>3. stopped \subseteq Workers /\ faults \in Nat /\ file \in [Files -> Content]
  BY DEF DownloadInv
<1>4. /\ stopped' = stopped
      /\ faults' \in Nat
  <2>1. CASE PublishArtifact(w)
    <3>1. stopped' = stopped /\ (UNCHANGED faults \/ Fault)
      BY <2>1 DEF PublishArtifact
    <3> QED BY <3>1, <1>3 DEF Fault
  <2>2. CASE ReceiveChunk(w)
    <3>1. stopped' = stopped /\ (UNCHANGED faults \/ Fault)
      BY <2>2 DEF ReceiveChunk, End, Advance
    <3> QED BY <3>1, <1>3 DEF Fault
  <2>3. CASE RangeIgnored(w) \/ BeginBody(w) \/ ResumeBody(w)
    <3>1. stopped' = stopped /\ (UNCHANGED faults \/ Fault)
      BY <2>3 DEF RangeIgnored, BeginBody, ResumeBody, End, Advance
    <3> QED BY <3>1, <1>3 DEF Fault
  <2>4. CASE EndBody(w) \/ LoseConnection(w)
    <3>1. stopped' = stopped /\ (UNCHANGED faults \/ Fault)
      BY <2>4 DEF EndBody, LoseConnection, End, Advance
    <3> QED BY <3>1, <1>3 DEF Fault
  <2> QED BY <2>1, <2>2, <2>3, <2>4 DEF DownloadStep
<1> DEFINE Ends(s) == [t EXCEPT !.step = s]
<1>5. ASSUME NEW s \in TransferSteps
      PROVE  /\ Ends(s) \in Transfer /\ Ends(s).step = s
             /\ Ends(s).artifact = f /\ Ends(s).received = t.received
             /\ Ends(s).position = t.position /\ Ends(s).hashed = t.hashed
  BY <1>1, TransferFields
<1>6. CASE RangeIgnored(w)
  <2>1. CASE End(w, "failed") /\ UNCHANGED part
    <3>1. Writes(w, f, Ends("failed"), part[f]) /\ UNCHANGED file
      BY <2>1, <1>1, <1>5 DEF End, Advance, Writes, TransferSteps
    <3> QED BY <3>1, <1>1, <1>3, <1>4, <1>5, DownloadFrame DEF TransferSteps
  <2>2. CASE /\ part' = [part EXCEPT ![f] = << >>]
             /\ Advance(w, [t EXCEPT !.received = 0])
    <3>1. [t EXCEPT !.received = 0] \in Transfer
      BY <1>1 DEF Transfer
    <3>2. Writes(w, f, [t EXCEPT !.received = 0], << >>) /\ UNCHANGED file
      BY <2>2, <1>1, <1>2, <1>6, Contents
      DEF RangeIgnored, Advance, Writes, Present, Transfer
    <3> QED BY <3>1, <3>2, <1>1, <1>3, <1>4, Contents, DownloadFrame DEF Content
  <2> QED BY <1>6, <2>1, <2>2 DEF RangeIgnored
<1>7. CASE BeginBody(w)
  <2>1. Writes(w, f, Ends("streaming"), << >>) /\ UNCHANGED file
    BY <1>7, <1>1, <1>2, <1>5, Contents
    DEF BeginBody, Advance, Writes, TransferSteps, Present
  <2> QED
    BY <2>1, <1>1, <1>3, <1>4, <1>5, Contents, DownloadFrame
    DEF Content, TransferSteps
<1>8. CASE ResumeBody(w)
  <2>1. CASE /\ Present(part[f])
             /\ Advance(w, [t EXCEPT !.step = "streaming", !.hashed = part[f]])
    <3> DEFINE r == [t EXCEPT !.step = "streaming", !.hashed = part[f]]
    <3>1. /\ r \in Transfer /\ r.step = "streaming" /\ r.artifact = f
          /\ r.received = t.received /\ r.position = 0
      BY <2>1, <1>1, <1>2, <1>8
      DEF ResumeBody, Transfer, TransferSteps, Present, Content
    <3>2. transfer' = [transfer EXCEPT ![w] = r] /\ UNCHANGED <<file, part>>
      BY <2>1, <1>8 DEF ResumeBody, Advance
    <3> HIDE DEF r
    <3>3. Writes(w, f, r, part[f])
      BY <3>1, <3>2, <2>1, <1>1, <1>8 DEF ResumeBody, Writes
    <3> QED BY <3>1, <3>2, <3>3, <1>1, <1>3, <1>4, DownloadFrame
  <2>2. CASE End(w, "failed")
    <3>1. Writes(w, f, Ends("failed"), part[f]) /\ UNCHANGED file
      BY <2>2, <1>1, <1>5, <1>8
      DEF ResumeBody, End, Advance, Writes, TransferSteps
    <3> QED BY <3>1, <1>1, <1>3, <1>4, <1>5, DownloadFrame DEF TransferSteps
  <2> QED BY <1>8, <2>1, <2>2 DEF ResumeBody
<1>9. CASE ReceiveChunk(w)
  <2>1. CASE End(w, "canceled") /\ UNCHANGED part
    <3>1. Writes(w, f, Ends("canceled"), part[f]) /\ UNCHANGED file
      BY <2>1, <1>1, <1>5 DEF End, Advance, Writes, TransferSteps
    <3> QED BY <3>1, <1>1, <1>3, <1>4, <1>5, DownloadFrame DEF TransferSteps
  <2>2. ASSUME NEW piece \in {0, t.received + 1} \ {Chunks + 1},
               part' = [part EXCEPT ![f] = Overwritten(@, t.position, piece)],
               Advance(w, [t EXCEPT !.received = @ + 1, !.position = @ + 1,
                                    !.hashed = Append(@, piece)])
        PROVE  DownloadInv' /\ FreshInv'
    <3> DEFINE r == [t EXCEPT !.received = @ + 1, !.position = @ + 1,
                              !.hashed = Append(@, piece)]
               c == Overwritten(part[f], t.position, piece)
    <3>1. piece \in 0 .. Chunks /\ t.step = "streaming"
      <4>1. t.step = "streaming" /\ t.received <= Chunks
        BY <1>9 DEF ReceiveChunk
      <4> HIDE DEF t
      <4>2. CASE piece = 0
        BY <4>1, <4>2, ChunksAssumption
      <4>3. CASE piece = t.received + 1 /\ piece # Chunks + 1
        BY <4>1, <4>3, <1>1, ChunksAssumption
      <4> QED BY <2>2, <4>1, <4>2, <4>3
    <3>2. part[f] \in Pieces
      BY <3>1, <1>1, <1>2 DEF Present, Content
    <3>3. /\ c \in Pieces /\ Append(t.hashed, piece) \in Pieces
          /\ Len(Append(t.hashed, piece)) = Len(t.hashed) + 1
          /\ t.position = Len(part[f]) => c = Append(part[f], piece)
      BY <3>1, <3>2, <1>1, PieceStored
    <3>4. /\ r \in Transfer /\ r.step = "streaming" /\ r.artifact = f
          /\ r.received = t.received + 1 /\ r.position = t.position + 1
          /\ r.hashed = Append(t.hashed, piece)
      <4> DEFINE h == Append(t.hashed, piece)
      <4>1. h \in Pieces /\ r = [t EXCEPT !.received = t.received + 1,
                           !.position = t.position + 1, !.hashed = h]
        BY <3>3
      <4> HIDE DEF h, r
      <4>2. /\ r \in Transfer /\ r.step = t.step /\ r.artifact = f
            /\ r.received = t.received + 1 /\ r.position = t.position + 1
            /\ r.hashed = h
        <5>1. t.received + 1 \in Nat /\ t.position + 1 \in Nat /\ t \in Transfer
          BY <1>1
        <5> HIDE DEF t
        <5> QED BY <4>1, <5>1 DEF Transfer
      <4> QED BY <4>2, <3>1 DEF h
    <3>5. transfer' = [transfer EXCEPT ![w] = r] /\ UNCHANGED file
          /\ part' = [part EXCEPT ![f] = c]
      BY <2>2, <1>1 DEF Advance, DownloadInv
    <3>6. f \notin garbled => t.hashed = part[f] /\ t.received = Len(t.hashed)
             /\ t.position = Len(t.hashed)
      BY <3>1, <1>2
    <3> HIDE DEF r, c
    <3>7. Writes(w, f, r, c)
      BY <3>3, <3>4, <3>5, <3>6, Contents DEF Writes, Present
    <3> QED
      BY <3>3, <3>4, <3>5, <3>7, <1>1, <1>3, <1>4, DownloadFrame DEF Content
  <2> QED BY <1>9, <2>1, <2>2 DEF ReceiveChunk
<1>10. CASE EndBody(w)
  <2>1. Writes(w, f, Ends("received"), part[f]) /\ UNCHANGED file
    BY <1>10, <1>1, <1>2, <1>5
    DEF EndBody, End, Advance, Writes, TransferSteps
  <2> QED BY <2>1, <1>1, <1>3, <1>4, <1>5, DownloadFrame DEF TransferSteps
<1>11. CASE LoseConnection(w)
  <2>1. Writes(w, f, Ends("failed"), part[f]) /\ UNCHANGED file
    BY <1>11, <1>1, <1>5
    DEF LoseConnection, End, Advance, Writes, TransferSteps
  <2> QED BY <2>1, <1>1, <1>3, <1>4, <1>5, DownloadFrame DEF TransferSteps
<1>12. CASE PublishArtifact(w)
  <2>1. CASE /\ RemovePartial(w, f) /\ UNCHANGED file
             /\ transfer' = [transfer EXCEPT ![w].step = "failed"]
    <3> DEFINE c == IF HeldByOther(w, f) THEN part[f] ELSE Missing
    <3>1. c \in Content /\ Writes(w, f, Ends("failed"), c) /\ UNCHANGED file
      BY <2>1, <1>1, <1>5
      DEF RemovePartial, Writes, TransferSteps, Content,
          DownloadInv
    <3> QED BY <3>1, <1>1, <1>3, <1>4, <1>5, DownloadFrame DEF TransferSteps
  <2>2. CASE /\ transfer' = [transfer EXCEPT ![w].step = "failed"]
             /\ UNCHANGED <<file, part>>
    <3>1. Writes(w, f, Ends("failed"), part[f])
      BY <2>2, <1>1, <1>5 DEF Writes, TransferSteps, DownloadInv
    <3> QED
      BY <3>1, <2>2, <1>1, <1>3, <1>4, <1>5, DownloadFrame
      DEF TransferSteps
  <2>3. ASSUME NEW s \in {"done", "failed"},
               Verified(t), ~HeldByOther(w, f),
               file' = [file EXCEPT ![f] = part[f]],
               part' = [part EXCEPT ![f] = Missing],
               transfer' = [transfer EXCEPT ![w].step = s]
        PROVE  DownloadInv' /\ FreshInv'
    <3>1. Missing \in Content /\ Writes(w, f, Ends(s), Missing)
      BY <2>3, <1>1, <1>5 DEF Writes, TransferSteps, Content, DownloadInv
    <3>2. file' \in [Files -> Content]
      BY <2>3, <1>1, <1>3
    <3>3. ASSUME NEW g \in Files
          PROVE  file'[g] \in {Missing, Whole, file[g]} \/ g \in garbled'
      BY <2>3, <1>2, <1>3, <1>12 DEF PublishArtifact, Verified, RecordGarbled
    <3> QED
      BY <3>1, <3>2, <3>3, <1>1, <1>3, <1>4, <1>5, DownloadFrame
      DEF TransferSteps
  <2> QED BY <1>12, <2>1, <2>2, <2>3 DEF PublishArtifact
<1> QED
  BY <1>6, <1>7, <1>8, <1>9, <1>10, <1>11, <1>12 DEF DownloadStep

\* What a step within download() leaves for its caller.
LEMMA TransferEffect ==
  ASSUME DownloadInv, NEW w \in Workers, DownloadStep(w)
  PROVE  LET t == transfer[w] IN
         /\ t.step # "idle" /\ t.step # "done"
         /\ transfer'[w].step # "idle" /\ transfer'[w].artifact = t.artifact
         /\ transfer'[w].step = "done" => Present(file'[t.artifact])
         /\ \A v \in Workers \ {w} : transfer'[v] = transfer[v]
         /\ \A f \in Files : Present(file[f]) => Present(file'[f])
<1> DEFINE t == transfer[w]
<1>1. t \in Transfer /\ (t.step # "idle" => t.artifact \in Files)
      /\ file \in [Files -> Content]
  BY DEF DownloadInv
<1>2. CASE RangeIgnored(w)
  <2>1. CASE Advance(w, [t EXCEPT !.received = 0])
    <3>1. /\ transfer'[w].step = t.step
          /\ transfer'[w].artifact = t.artifact
          /\ \A v \in Workers \ {w} : transfer'[v] = transfer[v]
          /\ UNCHANGED file
      BY <1>1, <2>1 DEF Advance, DownloadInv, Transfer
    <3> QED BY <3>1, <1>2 DEF RangeIgnored
  <2>2. CASE End(w, "failed")
    BY <1>1, <1>2, <2>2 DEF RangeIgnored, End, Advance, DownloadInv, Transfer
  <2> QED BY <1>2, <2>1, <2>2 DEF RangeIgnored
<1>3. CASE BeginBody(w)
  BY <1>1, <1>3 DEF BeginBody, Advance, DownloadInv, Transfer
<1>4. CASE ResumeBody(w)
  <2>1. CASE Advance(w, [t EXCEPT !.step = "streaming",
                                  !.hashed = part[t.artifact]])
    <3>1. /\ transfer'[w].step = "streaming"
          /\ transfer'[w].artifact = t.artifact
          /\ \A v \in Workers \ {w} : transfer'[v] = transfer[v]
          /\ UNCHANGED file
      BY <1>1, <2>1 DEF Advance, DownloadInv, Transfer
    <3> QED BY <3>1, <1>4 DEF ResumeBody
  <2>2. CASE End(w, "failed")
    BY <1>1, <1>4, <2>2 DEF ResumeBody, End, Advance, DownloadInv, Transfer
  <2> QED BY <1>4, <2>1, <2>2 DEF ResumeBody
<1>5. CASE ReceiveChunk(w)
  <2>1. CASE End(w, "canceled")
    BY <1>1, <1>5, <2>1 DEF ReceiveChunk, End, Advance, DownloadInv, Transfer
  <2>2. ASSUME NEW h, NEW m, NEW n,
               Advance(w, [t EXCEPT !.received = m, !.position = n,
                                    !.hashed = h])
        PROVE  /\ transfer'[w].step = t.step
               /\ transfer'[w].artifact = t.artifact
               /\ \A v \in Workers \ {w} : transfer'[v] = transfer[v]
               /\ UNCHANGED file
    BY <1>1, <2>2 DEF Advance, DownloadInv, Transfer
  <2> QED BY <1>5, <2>1, <2>2 DEF ReceiveChunk
<1>6. CASE EndBody(w)
  BY <1>1, <1>6 DEF EndBody, End, Advance, DownloadInv, Transfer
<1>7. CASE LoseConnection(w)
  BY <1>1, <1>7 DEF LoseConnection, End, Advance, DownloadInv, Transfer
<1>8. CASE PublishArtifact(w)
  BY <1>1, <1>8 DEF PublishArtifact, Verified, DownloadInv, Transfer, Present
<1> QED
  BY <1>2, <1>3, <1>4, <1>5, <1>6, <1>7, <1>8 DEF DownloadStep

\* Every step of the program keeps the downloads, those of the installer that
\* call download() and take its outcome included.
LEMMA DownloadsStep ==
  ASSUME RecordInv, IndexInv, DownloadInv, FreshInv, [Next]_vars
  PROVE  (DownloadInv /\ FreshInv)'
<1>1. CASE UNCHANGED vars
  BY <1>1 DEF vars, downloadVars, FreshDownloadWhole, DownloadInv, FreshInv
<1>2. ASSUME NEW o \in Operations, BeginInstall(o)
      PROVE  (DownloadInv /\ FreshInv)'
  BY <1>2
  DEF BeginInstall, Goto, downloadVars, FreshDownloadWhole, DownloadInv,
      FreshInv
<1>3. ASSUME NEW o \in Operations, CancelOperation(o)
      PROVE  (DownloadInv /\ FreshInv)'
  BY <1>3, WorkersAreOperations
  DEF CancelOperation, Fault, FreshDownloadWhole, DownloadInv, FreshInv
<1>4. CASE Shutdown
  BY <1>4 DEF Shutdown, FreshDownloadWhole, DownloadInv, FreshInv
<1>5. CASE Restart
  BY <1>5, TransferFields
  DEF Restart, Idle, FreshDownloadWhole, DownloadInv, FreshInv
<1>6. ASSUME NEW w \in Workers, StartDownloading(w), RecordGarbled(w)
      PROVE  (DownloadInv /\ FreshInv)'
  BY <1>6, DownloadsKept
  DEF StartDownloading, fileVars, MoveOrEnd, TransitionRaises, Raise, Fault,
      Transition, Moved, downloadVars, RecordGarbled, DownloadInv, FreshInv
<1>7. ASSUME NEW w \in Workers, LookAtRuntime(w), RecordGarbled(w)
      PROVE  (DownloadInv /\ FreshInv)'
  BY <1>7, DownloadsKept
  DEF LookAtRuntime, downloadVars, RecordGarbled, DownloadInv, FreshInv
<1>8. ASSUME NEW w \in Workers, FetchArchive(w), RecordGarbled(w)
      PROVE  (DownloadInv /\ FreshInv)'
  BY <1>8, OpenTransferStep, ProfileEntries DEF FetchArchive
<1>9. ASSUME NEW w \in Workers, FetchedArchive(w), RecordGarbled(w)
      PROVE  (DownloadInv /\ FreshInv)'
  BY <1>9, TransferClosed DEF FetchedArchive
<1>10. ASSUME NEW w \in Workers, BeginExtracting(w), RecordGarbled(w)
      PROVE  (DownloadInv /\ FreshInv)'
  BY <1>10, DownloadsKept
  DEF BeginExtracting, fileVars, NextPhase, MoveOrEnd, TransitionRaises, Raise,
      Fault, Transition, Moved, downloadVars, RecordGarbled, DownloadInv,
      FreshInv
<1>11. ASSUME NEW w \in Workers, BeginInstalling(w), RecordGarbled(w)
      PROVE  (DownloadInv /\ FreshInv)'
  BY <1>11, DownloadsKept
  DEF BeginInstalling, fileVars, NextPhase, MoveOrEnd, TransitionRaises, Raise,
      Fault, Transition, Moved, ReadReceipts, downloadVars, RecordGarbled,
      DownloadInv, FreshInv
<1>12. ASSUME NEW w \in Workers, ProfileDone(w), RecordGarbled(w)
      PROVE  (DownloadInv /\ FreshInv)'
  BY <1>12, DownloadsKept
  DEF ProfileDone, fileVars, Raise, Fault, RecordGarbled, DownloadInv, FreshInv
<1>13. ASSUME NEW w \in Workers, Complete(w), RecordGarbled(w)
      PROVE  (DownloadInv /\ FreshInv)'
  BY <1>13, DownloadsKept
  DEF Complete, fileVars, NextPhase, MoveOrEnd, TransitionRaises, Raise, Fault,
      Transition, Moved, downloadVars, RecordGarbled, DownloadInv, FreshInv
<1>14. ASSUME NEW w \in Workers, CloseRecord(w), RecordGarbled(w)
      PROVE  (DownloadInv /\ FreshInv)'
  BY <1>14, DownloadsKept
  DEF CloseRecord, CloseOrLeave, fileVars, MoveOrEnd, TransitionRaises, Raise,
      Fault, Transition, Moved, downloadVars, RecordGarbled, DownloadInv,
      FreshInv
<1>15. ASSUME NEW w \in Workers, InspectArchive(w), UNCHANGED serviceVars,
             RecordGarbled(w)
      PROVE  (DownloadInv /\ FreshInv)'
  BY <1>15, DownloadsKept
  DEF InspectArchive, Raise, downloadVars, RecordGarbled, DownloadInv, FreshInv
<1>16. ASSUME NEW w \in Workers, ExtractTree(w), UNCHANGED serviceVars,
             RecordGarbled(w)
      PROVE  (DownloadInv /\ FreshInv)'
  BY <1>16, DownloadsKept
  DEF ExtractTree, fileVars, RemoveStaging, KeepStaging, Raise, Fault,
      RecordGarbled, DownloadInv, FreshInv
<1>17. ASSUME NEW w \in Workers, PublishTree(w), UNCHANGED serviceVars,
             RecordGarbled(w)
      PROVE  (DownloadInv /\ FreshInv)'
  BY <1>17, DownloadsKept
  DEF PublishTree, fileVars, RemoveStaging, KeepStaging, Raise, Fault,
      RecordGarbled, DownloadInv, FreshInv
<1>18. ASSUME NEW w \in Workers, WriteReceipt(w), UNCHANGED serviceVars,
             RecordGarbled(w)
      PROVE  (DownloadInv /\ FreshInv)'
  BY <1>18, DownloadsKept
  DEF WriteReceipt, fileVars, Raise, Fault, RecordGarbled, DownloadInv,
      FreshInv
<1>19. ASSUME NEW w \in Workers, SelectRuntime(w), UNCHANGED serviceVars,
             RecordGarbled(w)
      PROVE  (DownloadInv /\ FreshInv)'
  BY <1>19, DownloadsKept
  DEF SelectRuntime, fileVars, Raise, Fault, RecordGarbled, DownloadInv,
      FreshInv
<1>20. ASSUME NEW w \in Workers, DropArchive(w), UNCHANGED serviceVars,
             RecordGarbled(w)
      PROVE  (DownloadInv /\ FreshInv)'
  <2>1. CASE UNCHANGED file
    BY <1>20, <2>1, DownloadsKept
    DEF DropArchive, fileVars, Fault, RecordGarbled, DownloadInv, FreshInv
  <2>2. CASE file' = [file EXCEPT ![Archive] = Missing] /\ UNCHANGED faults
    BY <1>20, <2>2
    DEF DropArchive, fileVars, Garbles, Content, FreshDownloadWhole,
        RecordGarbled, DownloadInv, FreshInv
  <2> QED BY <1>20, <2>1, <2>2 DEF DropArchive
<1>21. ASSUME NEW w \in Workers, CheckArtifact(w), UNCHANGED serviceVars,
             RecordGarbled(w)
      PROVE  (DownloadInv /\ FreshInv)'
  <2>1. CASE UNCHANGED downloadVars
    BY <1>21, <2>1, DownloadsKept
    DEF downloadVars, RecordGarbled, DownloadInv, FreshInv
  <2>2. CASE OpenTransfer(w, Current(w))
    <3>1. Current(w) \in Files
      BY <1>21, ProfileEntries DEF CheckArtifact, Current, IndexInv
    <3> QED BY <1>21, <2>2, <3>1, OpenTransferStep
  <2> QED BY <1>21, <2>1, <2>2 DEF CheckArtifact
<1>22. ASSUME NEW w \in Workers, FetchedArtifact(w), UNCHANGED serviceVars,
             RecordGarbled(w)
      PROVE  (DownloadInv /\ FreshInv)'
  BY <1>22, TransferClosed DEF FetchedArtifact
<1>23. ASSUME NEW w \in Workers, StageNode(w), UNCHANGED serviceVars,
             RecordGarbled(w)
      PROVE  (DownloadInv /\ FreshInv)'
  BY <1>23, DownloadsKept
  DEF StageNode, Raise, downloadVars, RecordGarbled, DownloadInv, FreshInv
<1>24. ASSUME NEW w \in Workers, PublishNode(w), UNCHANGED serviceVars,
             RecordGarbled(w)
      PROVE  (DownloadInv /\ FreshInv)'
  BY <1>24, DownloadsKept
  DEF PublishNode, fileVars, Raise, Fault, RecordGarbled, DownloadInv, FreshInv
<1>25. ASSUME NEW w \in Workers, RecordArtifact(w), UNCHANGED serviceVars,
             RecordGarbled(w)
      PROVE  (DownloadInv /\ FreshInv)'
  BY <1>25, DownloadsKept
  DEF RecordArtifact, fileVars, Raise, Fault, RecordGarbled, DownloadInv,
      FreshInv
<1>26. ASSUME NEW w \in Workers, TransferStep(w), RecordGarbled(w)
      PROVE  (DownloadInv /\ FreshInv)'
  BY <1>26, DownloadStepInv DEF TransferStep
<1>27. ASSUME NEW o \in Operations, BeginRaises(o)
      PROVE  (DownloadInv /\ FreshInv)'
  BY <1>27
  DEF BeginRaises, fileVars, Fault, installerVars, Goto, downloadVars,
      FreshDownloadWhole, DownloadInv, FreshInv
<1> QED
  BY <1>1, <1>2, <1>3, <1>4, <1>5, <1>6, <1>7, <1>8, <1>9, <1>10,
     <1>11, <1>12, <1>13, <1>14, <1>15, <1>16, <1>17, <1>18, <1>19,
     <1>20, <1>21, <1>22, <1>23, <1>24, <1>25, <1>26, <1>27
    DEF Next, WorkerStep, ServiceStep, InstallStep, RuntimeStep, ProfileStep

\* Every step keeps the receipts and the nodes typed.
LEMMA ReceiptsStep ==
  ASSUME RecordInv, IndexInv, DownloadInv, ReceiptsInv, [Next]_vars
  PROVE  ReceiptsInv'
<1>1. CASE UNCHANGED vars
  BY <1>1
  DEF vars, installerVars, profileVars, ReceiptsInv, ProfileSteps, Current,
      RecordInv, AllSteps, Running
<1>2. ASSUME NEW o \in Operations, BeginInstall(o)
      PROVE  ReceiptsInv'
  BY <1>2
  DEF BeginInstall, NoOpenOperation, CreateOperation, Exists, Goto, Running,
      profileVars, ReceiptsInv, ProfileSteps, Current, RecordInv, AllSteps
<1>3. ASSUME NEW o \in Operations, CancelOperation(o)
      PROVE  ReceiptsInv'
  BY <1>3
  DEF CancelOperation, Fault, Transition, Moved, installerVars, profileVars,
      ReceiptsInv, ProfileSteps, Current, RecordInv, AllSteps, Running
<1>4. CASE Shutdown
  BY <1>4
  DEF Shutdown, installerVars, profileVars, ReceiptsInv, ProfileSteps, Current,
      RecordInv, AllSteps, Running
<1>5. CASE Restart
  BY <1>5, Contents
  DEF Restart, NoReceipts, Content, ReceiptsInv, ProfileSteps, Current,
      RecordInv, AllSteps, Running
<1>6. ASSUME NEW w \in Workers, StartDownloading(w), RecordGarbled(w)
      PROVE  ReceiptsInv'
  BY <1>6
  DEF StartDownloading, fileVars, MoveOrEnd, TransitionRaises, Raise, Fault,
      Transition, Moved, At, Goto, profileVars, ReceiptsInv, ProfileSteps,
      Current, RecordInv, AllSteps, Running
<1>7. ASSUME NEW w \in Workers, LookAtRuntime(w), RecordGarbled(w)
      PROVE  ReceiptsInv'
  BY <1>7
  DEF LookAtRuntime, At, Goto, profileVars, ReceiptsInv, ProfileSteps, Current,
      RecordInv, AllSteps, Running
<1>8. ASSUME NEW w \in Workers, FetchArchive(w), RecordGarbled(w)
      PROVE  ReceiptsInv'
  BY <1>8
  DEF FetchArchive, OpenTransfer, Advance, At, installerVars, profileVars,
      ReceiptsInv, ProfileSteps, Current, RecordInv, AllSteps, Running
<1>9. ASSUME NEW w \in Workers, FetchedArchive(w), RecordGarbled(w)
      PROVE  ReceiptsInv'
  BY <1>9
  DEF FetchedArchive, Raise, At, Goto, profileVars, ReceiptsInv, ProfileSteps,
      Current, RecordInv, AllSteps, Running
<1>10. ASSUME NEW w \in Workers, BeginExtracting(w), RecordGarbled(w)
      PROVE  ReceiptsInv'
  BY <1>10
  DEF BeginExtracting, fileVars, NextPhase, MoveOrEnd, TransitionRaises, Raise,
      Fault, Transition, Moved, At, Goto, profileVars, ReceiptsInv,
      ProfileSteps, Current, RecordInv, AllSteps, Running
<1>11. ASSUME NEW w \in Workers, BeginInstalling(w), RecordGarbled(w)
      PROVE  ReceiptsInv'
  BY <1>11
  DEF BeginInstalling, fileVars, NextPhase, MoveOrEnd, TransitionRaises, Raise,
      Fault, Transition, Moved, ReadReceipts, At, Goto, ReceiptsInv,
      ProfileSteps, Current, RecordInv, AllSteps, Running
<1>12. ASSUME NEW w \in Workers, ProfileDone(w), RecordGarbled(w)
      PROVE  ReceiptsInv'
  BY <1>12
  DEF ProfileDone, fileVars, Raise, Fault, At, Goto, profileVars, ReceiptsInv,
      ProfileSteps, Current, RecordInv, AllSteps, Running
<1>13. ASSUME NEW w \in Workers, Complete(w), RecordGarbled(w)
      PROVE  ReceiptsInv'
  BY <1>13
  DEF Complete, fileVars, NextPhase, MoveOrEnd, TransitionRaises, Raise, Fault,
      Transition, Moved, At, Goto, profileVars, ReceiptsInv, ProfileSteps,
      Current, RecordInv, AllSteps, Running
<1>14. ASSUME NEW w \in Workers, CloseRecord(w), RecordGarbled(w)
      PROVE  ReceiptsInv'
  BY <1>14
  DEF CloseRecord, CloseOrLeave, fileVars, MoveOrEnd, TransitionRaises, Raise,
      Fault, Transition, Moved, At, Goto, profileVars, ReceiptsInv,
      ProfileSteps, Current, RecordInv, AllSteps, Running
<1>15. ASSUME NEW w \in Workers, InspectArchive(w), UNCHANGED serviceVars,
             RecordGarbled(w)
      PROVE  ReceiptsInv'
  BY <1>15
  DEF InspectArchive, Raise, At, Goto, profileVars, ReceiptsInv, ProfileSteps,
      Current, RecordInv, AllSteps, Running
<1>16. ASSUME NEW w \in Workers, ExtractTree(w), UNCHANGED serviceVars,
             RecordGarbled(w)
      PROVE  ReceiptsInv'
  BY <1>16
  DEF ExtractTree, fileVars, RemoveStaging, KeepStaging, Raise, Fault, At,
      Goto, profileVars, ReceiptsInv, ProfileSteps, Current, RecordInv,
      AllSteps, Running
<1>17. ASSUME NEW w \in Workers, PublishTree(w), UNCHANGED serviceVars,
             RecordGarbled(w)
      PROVE  ReceiptsInv'
  BY <1>17
  DEF PublishTree, fileVars, RemoveStaging, KeepStaging, Raise, Fault, At,
      Goto, profileVars, ReceiptsInv, ProfileSteps, Current, RecordInv,
      AllSteps, Running
<1>18. ASSUME NEW w \in Workers, WriteReceipt(w), UNCHANGED serviceVars,
             RecordGarbled(w)
      PROVE  ReceiptsInv'
  BY <1>18
  DEF WriteReceipt, fileVars, Raise, Fault, At, Goto, profileVars, ReceiptsInv,
      ProfileSteps, Current, RecordInv, AllSteps, Running
<1>19. ASSUME NEW w \in Workers, SelectRuntime(w), UNCHANGED serviceVars,
             RecordGarbled(w)
      PROVE  ReceiptsInv'
  BY <1>19
  DEF SelectRuntime, fileVars, Raise, Fault, At, Goto, profileVars,
      ReceiptsInv, ProfileSteps, Current, RecordInv, AllSteps, Running
<1>20. ASSUME NEW w \in Workers, DropArchive(w), UNCHANGED serviceVars,
             RecordGarbled(w)
      PROVE  ReceiptsInv'
  BY <1>20
  DEF DropArchive, fileVars, Fault, At, Goto, profileVars, ReceiptsInv,
      ProfileSteps, Current, RecordInv, AllSteps, Running
<1>21. ASSUME NEW w \in Workers, CheckArtifact(w), UNCHANGED serviceVars,
             RecordGarbled(w)
      PROVE  ReceiptsInv'
  <2>1. CASE index' = [index EXCEPT ![w] = index[w] + 1] /\ UNCHANGED step
    BY <1>21, <2>1
    DEF CheckArtifact, IndexInv, At, ReceiptsInv, ProfileSteps, Current,
        RecordInv, AllSteps, Running
  <2>2. CASE UNCHANGED index /\ (Raise(w) \/ Goto(w, "fetching"))
    BY <1>21, <2>2
    DEF CheckArtifact, Raise, Goto, At, ReceiptsInv, ProfileSteps, Current,
        RecordInv, AllSteps, Running
  <2> QED BY <1>21, <2>1, <2>2 DEF CheckArtifact
<1>22. ASSUME NEW w \in Workers, FetchedArtifact(w), UNCHANGED serviceVars,
             RecordGarbled(w)
      PROVE  ReceiptsInv'
  BY <1>22
  DEF FetchedArtifact, Raise, At, Goto, profileVars, ReceiptsInv, ProfileSteps,
      Current, RecordInv, AllSteps, Running
<1>23. ASSUME NEW w \in Workers, StageNode(w), UNCHANGED serviceVars,
             RecordGarbled(w)
      PROVE  ReceiptsInv'
  BY <1>23
  DEF StageNode, Raise, At, Goto, profileVars, ReceiptsInv, ProfileSteps,
      Current, RecordInv, AllSteps, Running
<1>24. ASSUME NEW w \in Workers, PublishNode(w), UNCHANGED serviceVars,
             RecordGarbled(w)
      PROVE  ReceiptsInv'
  <2>1. CASE UNCHANGED node /\ Raise(w)
    BY <1>24, <2>1
    DEF PublishNode, fileVars, Raise, Goto, At, ReceiptsInv, ProfileSteps,
        Current, RecordInv, AllSteps, Running
  <2>2. CASE node' = node \cup {Current(w)} /\ Goto(w, "receipt")
    BY <1>24, <2>2
    DEF PublishNode, fileVars, Goto, At, ReceiptsInv, ProfileSteps, Current,
        RecordInv, AllSteps, Running
  <2> QED BY <1>24, <2>1, <2>2 DEF PublishNode
<1>25. ASSUME NEW w \in Workers, RecordArtifact(w), UNCHANGED serviceVars,
             RecordGarbled(w)
      PROVE  ReceiptsInv'
  <2> DEFINE mine == [receipts[w] EXCEPT ![Current(w)] = file[Current(w)]]
  <2>1. CASE /\ receipts' = [receipts EXCEPT ![w] = mine]
             /\ installed' = mine
             /\ index' = [index EXCEPT ![w] = index[w] + 1]
             /\ Goto(w, "artifact")
    <3>1. mine \in [Files -> Content]
      BY DEF ReceiptsInv, DownloadInv
    <3> HIDE DEF mine
    <3> QED
      BY <1>25, <2>1, <3>1
      DEF RecordArtifact, fileVars, Goto, At, ReceiptsInv, ProfileSteps,
          Current, RecordInv, AllSteps, Running
  <2>2. CASE UNCHANGED <<receipts, installed, index>> /\ Raise(w)
    BY <1>25, <2>2
    DEF RecordArtifact, fileVars, Raise, Goto, At, ReceiptsInv, ProfileSteps,
        Current, RecordInv, AllSteps, Running
  <2> QED BY <1>25, <2>1, <2>2 DEF RecordArtifact
<1>26. ASSUME NEW w \in Workers, TransferStep(w), RecordGarbled(w)
      PROVE  ReceiptsInv'
  BY <1>26
  DEF installerVars, TransferStep, profileVars, ReceiptsInv, ProfileSteps,
      Current, RecordInv, AllSteps, Running
<1>27. ASSUME NEW o \in Operations, BeginRaises(o)
      PROVE  ReceiptsInv'
  BY <1>27
  DEF BeginRaises, fileVars, Fault, installerVars, NoOpenOperation,
      CreateOperation, Exists, Goto, Running, profileVars, ReceiptsInv,
      ProfileSteps, Current, RecordInv, AllSteps
<1> QED
  BY <1>1, <1>2, <1>3, <1>4, <1>5, <1>6, <1>7, <1>8, <1>9, <1>10,
     <1>11, <1>12, <1>13, <1>14, <1>15, <1>16, <1>17, <1>18, <1>19,
     <1>20, <1>21, <1>22, <1>23, <1>24, <1>25, <1>26, <1>27
    DEF Next, WorkerStep, ServiceStep, InstallStep, RuntimeStep, ProfileStep

\* A step that takes nothing away but the runtime archive.
Stays ==
  \A f \in Files \ {Archive} :
    /\ Present(file[f]) => Present(file'[f])
    /\ f \in node => f \in node'

\* The other threads are as they were.
OthersStay(w) ==
  \A v \in Workers \ {w} :
    /\ step'[v] = step[v] /\ index'[v] = index[v]
    /\ receipts'[v] = receipts[v] /\ transfer'[v] = transfer[v]

\* An operation is completed only under a condition.
Completes(condition) ==
  \A o \in Operations :
    operations'[o].state = "completed" =>
      operations[o].state = "completed" \/ condition

\* Such a step leaves an artifact in its place.
LEMMA PlacesStay ==
  ASSUME Stays, NEW f \in Files \ {Archive}, InPlace(f)
  PROVE  InPlace(f)'
BY DEF Stays, InPlace

\* Such a step of another thread.
LEMMA ThreadStays ==
  ASSUME RecordInv, IndexInv, DownloadInv, Stays,
         NEW v \in Workers, ThreadPlaced(v),
         step'[v] = step[v], index'[v] = index[v],
         receipts'[v] = receipts[v], transfer'[v] = transfer[v]
  PROVE  ThreadPlaced(v)'
<1>1. \A i \in 1 .. index[v] - 1 : Profile[i] \in Files \ {Archive}
  BY ProfileEntries DEF IndexInv
<1>2. step[v] \in {"node", "nodeStaged", "receipt"} =>
        Current(v) \in Files \ {Archive} /\ Current(v)' = Current(v)
  BY ProfileEntries DEF IndexInv, ProfileSteps, Current
<1>3. step[v] = "fetching" => Current(v)' = Current(v)
  BY DEF Current
<1>4. transfer[v].step = "done" => transfer[v].artifact \in Files
  BY DEF DownloadInv
<1>5. \A f \in Files : Present(receipts'[v][f]) => f # Archive /\ InPlace(f)'
  BY PlacesStay DEF ThreadPlaced
<1>6. AtProfile(v)' => \A i \in 1 .. index'[v] - 1 : InPlace(Profile[i])'
  BY <1>1, PlacesStay DEF ThreadPlaced, AtProfile
<1>7. step'[v] = "receipt" => InPlace(Current(v))'
  BY <1>2, PlacesStay DEF ThreadPlaced, InPlace
<1> QED
  BY <1>2, <1>3, <1>4, <1>5, <1>6, <1>7 DEF ThreadPlaced, Stays

\* Such a step of a thread that has itself kept its part.
LEMMA PlacedFrame ==
  ASSUME RecordInv, IndexInv, DownloadInv, PlacedInv, Stays,
         NEW w \in Workers, ThreadPlaced(w)',
         OthersStay(w), installed' = installed \/ InstalledPlaced',
         Completes(ProfilePlaced)
  PROVE  PlacedInv'
<1>1. \A v \in Workers : ThreadPlaced(v)'
  BY ThreadStays DEF PlacedInv, OthersStay
<1>2. InstalledPlaced'
  BY PlacesStay DEF PlacedInv, InstalledPlaced
<1>3. ProfilePlaced => ProfilePlaced'
  BY PlacesStay, ProfileEntries DEF ProfilePlaced
<1> QED BY <1>1, <1>2, <1>3 DEF PlacedInv, Completes

\* Only a move to completed completes an operation.
LEMMA RecordMoves ==
  ASSUME RecordInv, NEW w \in Workers, NEW next,
         NEW s \in {"downloading", "extracting", "installing", "failed",
                   "canceled"},
         MoveOrEnd(w, s, next)
  PROVE  Completes(FALSE)
BY WorkersAreOperations
DEF Completes, RecordInv, MoveOrEnd, TransitionRaises, Raise, Fault,
    Transition, Moved, OperationRecord


\* A step of a thread that leaves the receipts file alone.
LEMMA LoneFrame ==
  ASSUME LoneInv, NEW w \in Workers, Running(w), RecordGarbled(w),
         UNCHANGED <<beside, installed>>,
         \A v \in Workers \ {w} : step'[v] = step[v],
         RecordsHeld(w) => RecordsHeld(w)',
         Completes(RecordsHeld(w) => ProfileRecorded)
  PROVE  LoneInv'
<1> SUFFICES ASSUME ~beside PROVE LoneInv'
  BY DEF LoneInv
<1>1. \A f : Recorded(f) => Recorded(f)'
  BY DEF Recorded, RecordGarbled
<1>2. ProfileRecorded => ProfileRecorded'
  BY <1>1 DEF ProfileRecorded
<1>3. \A v \in Workers \ {w} : ~Running(v) /\ ~Running(v)'
  BY DEF LoneInv, Running
<1>4. \A v \in Workers : RecordsHeld(v)'
  BY <1>3 DEF LoneInv, RecordsHeld, AtProfile, ProfileSteps, Running
<1> QED BY <1>2, <1>3, <1>4 DEF LoneInv, Completes

\* Every step keeps what was put in its place there: no step takes a published
\* artifact away but the runtime archive.
LEMMA PlacedStep ==
  ASSUME RecordInv, IndexInv, DownloadInv, ReceiptsInv, PlacedInv, FreshInv,
         [Next]_vars
  PROVE  PlacedInv'
<1>1. CASE UNCHANGED vars
  BY <1>1
  DEF vars, serviceVars, installerVars, runtimeVars, profileVars, downloadVars,
      PlacedInv, ThreadPlaced, InstalledPlaced, ProfilePlaced, InPlace,
      Current, AtProfile, RecordInv, ProfileSteps, Running
<1>2. ASSUME NEW o \in Operations, BeginInstall(o)
      PROVE  PlacedInv'
  BY <1>2
  DEF BeginInstall, NoOpenOperation, CreateOperation, Exists, Goto, Running,
      runtimeVars, profileVars, downloadVars, PlacedInv, ThreadPlaced,
      InstalledPlaced, ProfilePlaced, InPlace, Current, AtProfile, RecordInv,
      ProfileSteps
<1>3. ASSUME NEW o \in Operations, CancelOperation(o)
      PROVE  PlacedInv'
  BY <1>3
  DEF CancelOperation, Fault, Transition, Moved, installerVars, runtimeVars,
      profileVars, PlacedInv, ThreadPlaced, InstalledPlaced, ProfilePlaced,
      InPlace, Current, AtProfile, RecordInv, ProfileSteps, Running
<1>4. CASE Shutdown
  BY <1>4
  DEF Shutdown, installerVars, runtimeVars, profileVars, PlacedInv,
      ThreadPlaced, InstalledPlaced, ProfilePlaced, InPlace, Current,
      AtProfile, RecordInv, ProfileSteps, Running
<1>5. CASE Restart

  <2>1. Stays
    BY <1>5 DEF Restart, Stays
  <2>2. /\ \A v \in Workers : step'[v] = "none" /\ transfer'[v].step = "idle"
        /\ \A v \in Workers, f \in Files : ~Present(receipts'[v][f])
    BY <1>5 DEF Restart, Idle, NoReceipts, Present
  <2>3. \A v \in Workers : ThreadPlaced(v)'
    BY <2>2 DEF ThreadPlaced, AtProfile, ProfileSteps
  <2>4. InstalledPlaced'
    BY <1>5, <2>1, PlacesStay DEF Restart, PlacedInv, InstalledPlaced
  <2>5. ASSUME NEW o \in Operations, operations'[o].state = "completed"
        PROVE  ProfilePlaced'
    <3>1. operations[o].state = "completed"
      BY <1>5, <2>5 DEF Restart, RecoverInterrupted, Moved
    <3> QED BY <1>5, <3>1 DEF PlacedInv, ProfilePlaced, InPlace, Restart
  <2> QED BY <2>3, <2>4, <2>5 DEF PlacedInv
<1>6. ASSUME NEW w \in Workers, StartDownloading(w), RecordGarbled(w)
      PROVE  PlacedInv'
  <2>1. Stays
    BY <1>6
    DEF StartDownloading, fileVars, MoveOrEnd, TransitionRaises, Raise, Fault,
        Transition, Moved, profileVars, downloadVars, Stays
  <2>2. ThreadPlaced(w)'
    BY <1>6
    DEF StartDownloading, fileVars, MoveOrEnd, TransitionRaises, Raise, Fault,
        Transition, Moved, profileVars, downloadVars, ThreadPlaced, PlacedInv,
        RecordInv, IndexInv, DownloadInv, ReceiptsInv, AtProfile, ProfileSteps,
        At, Goto, InPlace, Current
  <2>3. /\ OthersStay(w) /\ Completes(ProfilePlaced)
        /\ installed' = installed \/ InstalledPlaced'
    BY <1>6, RecordMoves
    DEF StartDownloading, fileVars, MoveOrEnd, TransitionRaises, Raise, Fault,
        profileVars, downloadVars, OthersStay, Completes, ThreadPlaced,
        PlacedInv, RecordInv, IndexInv, DownloadInv, ReceiptsInv, AtProfile,
        ProfileSteps, At, Goto
  <2> QED
    BY <2>1, <2>2, <2>3, PlacedFrame
<1>7. ASSUME NEW w \in Workers, LookAtRuntime(w), RecordGarbled(w)
      PROVE  PlacedInv'
  <2>1. Stays
    BY <1>7 DEF LookAtRuntime, profileVars, downloadVars, Stays
  <2>2. ThreadPlaced(w)'
    BY <1>7
    DEF LookAtRuntime, profileVars, downloadVars, ThreadPlaced, PlacedInv,
        RecordInv, IndexInv, DownloadInv, ReceiptsInv, AtProfile, ProfileSteps,
        At, Goto, InPlace, Current
  <2>3. /\ OthersStay(w) /\ Completes(ProfilePlaced)
        /\ installed' = installed \/ InstalledPlaced'
    BY <1>7
    DEF LookAtRuntime, profileVars, downloadVars, serviceVars, OthersStay,
        Completes, ThreadPlaced, PlacedInv, RecordInv, IndexInv, DownloadInv,
        ReceiptsInv, AtProfile, ProfileSteps, At, Goto
  <2> QED
    BY <2>1, <2>2, <2>3, PlacedFrame
<1>8. ASSUME NEW w \in Workers, FetchArchive(w), RecordGarbled(w)
      PROVE  PlacedInv'
  <2>0. /\ transfer'[w].artifact = Archive /\ transfer'[w].step # "idle"
        /\ transfer'[w].step = "done" => Present(file[Archive])
        /\ \A v \in Workers \ {w} : transfer'[v] = transfer[v]
        /\ UNCHANGED file
    BY <1>8, ProfileEntries, OpenEffect DEF FetchArchive
  <2>1. Stays
    BY <1>8, <2>0 DEF FetchArchive, profileVars, installerVars, Stays
  <2>2. ThreadPlaced(w)'
    BY <1>8, ProfileEntries, <2>0
    DEF FetchArchive, profileVars, installerVars, ThreadPlaced, PlacedInv,
        RecordInv, IndexInv, DownloadInv, ReceiptsInv, AtProfile, ProfileSteps,
        At, InPlace, Current
  <2>3. /\ OthersStay(w) /\ Completes(ProfilePlaced)
        /\ installed' = installed \/ InstalledPlaced'
    BY <1>8, ProfileEntries, <2>0
    DEF FetchArchive, profileVars, installerVars, serviceVars, OthersStay,
        Completes, ThreadPlaced, PlacedInv, RecordInv, IndexInv, DownloadInv,
        ReceiptsInv, AtProfile, ProfileSteps, At
  <2> QED
    BY <2>1, <2>2, <2>3, PlacedFrame
<1>9. ASSUME NEW w \in Workers, FetchedArchive(w), RecordGarbled(w)
      PROVE  PlacedInv'
  <2>1. Stays
    BY <1>9 DEF FetchedArchive, Raise, profileVars, Stays
  <2>2. ThreadPlaced(w)'
    BY <1>9
    DEF FetchedArchive, Raise, profileVars, ThreadPlaced, PlacedInv, RecordInv,
        IndexInv, DownloadInv, ReceiptsInv, AtProfile, ProfileSteps, At, Goto,
        InPlace, Current, Idle
  <2>3. /\ OthersStay(w) /\ Completes(ProfilePlaced)
        /\ installed' = installed \/ InstalledPlaced'
    BY <1>9
    DEF FetchedArchive, Raise, profileVars, serviceVars, OthersStay, Completes,
        ThreadPlaced, PlacedInv, RecordInv, IndexInv, DownloadInv, ReceiptsInv,
        AtProfile, ProfileSteps, At, Goto
  <2> QED
    BY <2>1, <2>2, <2>3, PlacedFrame
<1>10. ASSUME NEW w \in Workers, BeginExtracting(w), RecordGarbled(w)
      PROVE  PlacedInv'
  <2>1. Stays
    BY <1>10
    DEF BeginExtracting, fileVars, NextPhase, MoveOrEnd, TransitionRaises,
        Raise, Fault, Transition, Moved, profileVars, downloadVars, Stays
  <2>2. ThreadPlaced(w)'
    BY <1>10
    DEF BeginExtracting, fileVars, NextPhase, MoveOrEnd, TransitionRaises,
        Raise, Fault, Transition, Moved, profileVars, downloadVars,
        ThreadPlaced, PlacedInv, RecordInv, IndexInv, DownloadInv, ReceiptsInv,
        AtProfile, ProfileSteps, At, Goto, InPlace, Current, InstalledPlaced
  <2>3. /\ OthersStay(w) /\ Completes(ProfilePlaced)
        /\ installed' = installed \/ InstalledPlaced'
    BY <1>10, RecordMoves
    DEF BeginExtracting, fileVars, NextPhase, MoveOrEnd, TransitionRaises,
        Raise, Fault, profileVars, downloadVars, OthersStay, Completes,
        ThreadPlaced, PlacedInv, RecordInv, IndexInv, DownloadInv, ReceiptsInv,
        AtProfile, ProfileSteps, At, Goto
  <2> QED
    BY <2>1, <2>2, <2>3, PlacedFrame
<1>11. ASSUME NEW w \in Workers, BeginInstalling(w), RecordGarbled(w)
      PROVE  PlacedInv'
  <2>1. Stays
    BY <1>11
    DEF BeginInstalling, fileVars, NextPhase, MoveOrEnd, TransitionRaises,
        Raise, Fault, Transition, Moved, ReadReceipts, downloadVars, Stays
  <2>2. ThreadPlaced(w)'
    BY <1>11
    DEF BeginInstalling, fileVars, NextPhase, MoveOrEnd, TransitionRaises,
        Raise, Fault, Transition, Moved, ReadReceipts, downloadVars,
        ThreadPlaced, PlacedInv, RecordInv, IndexInv, DownloadInv, ReceiptsInv,
        AtProfile, ProfileSteps, At, Goto, InPlace, Current, InstalledPlaced
  <2>3. /\ OthersStay(w) /\ Completes(ProfilePlaced)
        /\ installed' = installed \/ InstalledPlaced'
    BY <1>11, RecordMoves
    DEF BeginInstalling, fileVars, NextPhase, MoveOrEnd, TransitionRaises,
        Raise, Fault, ReadReceipts, downloadVars, OthersStay, Completes,
        ThreadPlaced, PlacedInv, RecordInv, IndexInv, DownloadInv, ReceiptsInv,
        AtProfile, ProfileSteps, At, Goto
  <2> QED
    BY <2>1, <2>2, <2>3, PlacedFrame
<1>12. ASSUME NEW w \in Workers, ProfileDone(w), RecordGarbled(w)
      PROVE  PlacedInv'
  <2>1. Stays
    BY <1>12 DEF ProfileDone, fileVars, Raise, Fault, profileVars, Stays
  <2>2. ThreadPlaced(w)'
    BY <1>12
    DEF ProfileDone, fileVars, Raise, Fault, profileVars, ThreadPlaced,
        PlacedInv, RecordInv, IndexInv, DownloadInv, ReceiptsInv, AtProfile,
        ProfileSteps, At, Goto, InPlace, Current
  <2>3. /\ OthersStay(w) /\ Completes(ProfilePlaced)
        /\ installed' = installed \/ InstalledPlaced'
    BY <1>12
    DEF ProfileDone, fileVars, Raise, Fault, profileVars, serviceVars,
        OthersStay, Completes, ThreadPlaced, PlacedInv, RecordInv, IndexInv,
        DownloadInv, ReceiptsInv, AtProfile, ProfileSteps, At, Goto
  <2> QED
    BY <2>1, <2>2, <2>3, PlacedFrame
<1>13. ASSUME NEW w \in Workers, Complete(w), RecordGarbled(w)
      PROVE  PlacedInv'
  <2>1. Stays
    BY <1>13
    DEF Complete, fileVars, NextPhase, MoveOrEnd, TransitionRaises, Raise,
        Fault, Transition, Moved, profileVars, downloadVars, Stays
  <2>2. ThreadPlaced(w)'
    BY <1>13
    DEF Complete, fileVars, NextPhase, MoveOrEnd, TransitionRaises, Raise,
        Fault, Transition, Moved, profileVars, downloadVars, ThreadPlaced,
        PlacedInv, RecordInv, IndexInv, DownloadInv, ReceiptsInv, AtProfile,
        ProfileSteps, At, Goto, InPlace, Current
  <2>3. /\ OthersStay(w) /\ Completes(ProfilePlaced)
        /\ installed' = installed \/ InstalledPlaced'
    BY <1>13, ProfileEntries, WorkersAreOperations
    DEF Complete, fileVars, NextPhase, MoveOrEnd, TransitionRaises, Raise,
        Fault, Transition, Moved, profileVars, downloadVars, OthersStay,
        Completes, ThreadPlaced, PlacedInv, RecordInv, IndexInv, DownloadInv,
        ReceiptsInv, AtProfile, ProfileSteps, At, Goto, ProfilePlaced,
        OperationRecord
  <2> QED
    BY <2>1, <2>2, <2>3, PlacedFrame
<1>14. ASSUME NEW w \in Workers, CloseRecord(w), RecordGarbled(w)
      PROVE  PlacedInv'
  <2>1. Stays
    BY <1>14
    DEF CloseRecord, CloseOrLeave, fileVars, MoveOrEnd, TransitionRaises,
        Raise, Fault, Transition, Moved, profileVars, downloadVars, Stays
  <2>2. ThreadPlaced(w)'
    BY <1>14
    DEF CloseRecord, CloseOrLeave, fileVars, MoveOrEnd, TransitionRaises,
        Raise, Fault, Transition, Moved, profileVars, downloadVars,
        ThreadPlaced, PlacedInv, RecordInv, IndexInv, DownloadInv, ReceiptsInv,
        AtProfile, ProfileSteps, At, Goto, InPlace, Current
  <2>3. /\ OthersStay(w) /\ Completes(ProfilePlaced)
        /\ installed' = installed \/ InstalledPlaced'
    BY <1>14, RecordMoves
    DEF CloseRecord, CloseOrLeave, fileVars, MoveOrEnd, TransitionRaises,
        Raise, Fault, profileVars, downloadVars, OthersStay, Completes,
        ThreadPlaced, PlacedInv, RecordInv, IndexInv, DownloadInv, ReceiptsInv,
        AtProfile, ProfileSteps, At, Goto
  <2> QED
    BY <2>1, <2>2, <2>3, PlacedFrame
<1>15. ASSUME NEW w \in Workers, InspectArchive(w), UNCHANGED serviceVars,
             RecordGarbled(w)
      PROVE  PlacedInv'
  <2>1. Stays
    BY <1>15 DEF InspectArchive, Raise, profileVars, downloadVars, Stays
  <2>2. ThreadPlaced(w)'
    BY <1>15
    DEF InspectArchive, Raise, profileVars, downloadVars, ThreadPlaced,
        PlacedInv, RecordInv, IndexInv, DownloadInv, ReceiptsInv, AtProfile,
        ProfileSteps, At, Goto, InPlace, Current
  <2>3. /\ OthersStay(w) /\ Completes(ProfilePlaced)
        /\ installed' = installed \/ InstalledPlaced'
    BY <1>15
    DEF InspectArchive, Raise, profileVars, downloadVars, serviceVars,
        OthersStay, Completes, ThreadPlaced, PlacedInv, RecordInv, IndexInv,
        DownloadInv, ReceiptsInv, AtProfile, ProfileSteps, At, Goto
  <2> QED
    BY <2>1, <2>2, <2>3, PlacedFrame
<1>16. ASSUME NEW w \in Workers, ExtractTree(w), UNCHANGED serviceVars,
             RecordGarbled(w)
      PROVE  PlacedInv'
  <2>1. Stays
    BY <1>16
    DEF ExtractTree, RemoveStaging, KeepStaging, fileVars, Raise, Fault,
        profileVars, Stays
  <2>2. ThreadPlaced(w)'
    BY <1>16
    DEF ExtractTree, fileVars, RemoveStaging, KeepStaging, Raise, Fault,
        profileVars, ThreadPlaced, PlacedInv, RecordInv, IndexInv, DownloadInv,
        ReceiptsInv, AtProfile, ProfileSteps, At, Goto, InPlace, Current
  <2>3. /\ OthersStay(w) /\ Completes(ProfilePlaced)
        /\ installed' = installed \/ InstalledPlaced'
    BY <1>16
    DEF ExtractTree, fileVars, RemoveStaging, KeepStaging, Raise, Fault,
        profileVars, serviceVars, OthersStay, Completes, ThreadPlaced,
        PlacedInv, RecordInv, IndexInv, DownloadInv, ReceiptsInv, AtProfile,
        ProfileSteps, At, Goto
  <2> QED
    BY <2>1, <2>2, <2>3, PlacedFrame
<1>17. ASSUME NEW w \in Workers, PublishTree(w), UNCHANGED serviceVars,
             RecordGarbled(w)
      PROVE  PlacedInv'
  <2>1. Stays
    BY <1>17
    DEF PublishTree, RemoveStaging, KeepStaging, fileVars, Raise, Fault,
        profileVars, Stays
  <2>2. ThreadPlaced(w)'
    BY <1>17
    DEF PublishTree, fileVars, RemoveStaging, KeepStaging, Raise, Fault,
        profileVars, ThreadPlaced, PlacedInv, RecordInv, IndexInv, DownloadInv,
        ReceiptsInv, AtProfile, ProfileSteps, At, Goto, InPlace, Current
  <2>3. /\ OthersStay(w) /\ Completes(ProfilePlaced)
        /\ installed' = installed \/ InstalledPlaced'
    BY <1>17
    DEF PublishTree, fileVars, RemoveStaging, KeepStaging, Raise, Fault,
        profileVars, serviceVars, OthersStay, Completes, ThreadPlaced,
        PlacedInv, RecordInv, IndexInv, DownloadInv, ReceiptsInv, AtProfile,
        ProfileSteps, At, Goto
  <2> QED
    BY <2>1, <2>2, <2>3, PlacedFrame
<1>18. ASSUME NEW w \in Workers, WriteReceipt(w), UNCHANGED serviceVars,
             RecordGarbled(w)
      PROVE  PlacedInv'
  <2>1. Stays
    BY <1>18 DEF WriteReceipt, fileVars, Raise, Fault, profileVars, Stays
  <2>2. ThreadPlaced(w)'
    BY <1>18
    DEF WriteReceipt, fileVars, Raise, Fault, profileVars, ThreadPlaced,
        PlacedInv, RecordInv, IndexInv, DownloadInv, ReceiptsInv, AtProfile,
        ProfileSteps, At, Goto, InPlace, Current
  <2>3. /\ OthersStay(w) /\ Completes(ProfilePlaced)
        /\ installed' = installed \/ InstalledPlaced'
    BY <1>18
    DEF WriteReceipt, fileVars, Raise, Fault, profileVars, serviceVars,
        OthersStay, Completes, ThreadPlaced, PlacedInv, RecordInv, IndexInv,
        DownloadInv, ReceiptsInv, AtProfile, ProfileSteps, At, Goto
  <2> QED
    BY <2>1, <2>2, <2>3, PlacedFrame
<1>19. ASSUME NEW w \in Workers, SelectRuntime(w), UNCHANGED serviceVars,
             RecordGarbled(w)
      PROVE  PlacedInv'
  <2>1. Stays
    BY <1>19 DEF SelectRuntime, fileVars, Raise, Fault, profileVars, Stays
  <2>2. ThreadPlaced(w)'
    BY <1>19
    DEF SelectRuntime, fileVars, Raise, Fault, profileVars, ThreadPlaced,
        PlacedInv, RecordInv, IndexInv, DownloadInv, ReceiptsInv, AtProfile,
        ProfileSteps, At, Goto, InPlace, Current
  <2>3. /\ OthersStay(w) /\ Completes(ProfilePlaced)
        /\ installed' = installed \/ InstalledPlaced'
    BY <1>19
    DEF SelectRuntime, fileVars, Raise, Fault, profileVars, serviceVars,
        OthersStay, Completes, ThreadPlaced, PlacedInv, RecordInv, IndexInv,
        DownloadInv, ReceiptsInv, AtProfile, ProfileSteps, At, Goto
  <2> QED
    BY <2>1, <2>2, <2>3, PlacedFrame
<1>20. ASSUME NEW w \in Workers, DropArchive(w), UNCHANGED serviceVars,
             RecordGarbled(w)
      PROVE  PlacedInv'
  <2>1. Stays
    BY <1>20 DEF DropArchive, Fault, profileVars, Stays, DownloadInv
  <2>2. ThreadPlaced(w)'
    BY <1>20
    DEF DropArchive, fileVars, Fault, profileVars, ThreadPlaced, PlacedInv,
        RecordInv, IndexInv, DownloadInv, ReceiptsInv, AtProfile, ProfileSteps,
        At, Goto, InPlace, Current
  <2>3. /\ OthersStay(w) /\ Completes(ProfilePlaced)
        /\ installed' = installed \/ InstalledPlaced'
    BY <1>20
    DEF DropArchive, fileVars, Fault, profileVars, serviceVars, OthersStay,
        Completes, ThreadPlaced, PlacedInv, RecordInv, IndexInv, DownloadInv,
        ReceiptsInv, AtProfile, ProfileSteps, At, Goto
  <2> QED
    BY <2>1, <2>2, <2>3, PlacedFrame
<1>21. ASSUME NEW w \in Workers, CheckArtifact(w), UNCHANGED serviceVars,
             RecordGarbled(w)
      PROVE  PlacedInv'
  <2>1. Stays
    BY <1>21 DEF CheckArtifact, OpenTransfer, Advance, Stays, downloadVars
  <2>2. /\ Current(w) \in Files \ {Archive} /\ At(w, "artifact")
        /\ \A i \in 1 .. index[w] - 1 : InPlace(Profile[i])
        /\ \A i \in 1 .. index[w] - 1 : Profile[i] \in Files \ {Archive}
        /\ UNCHANGED <<receipts, installed, node, operations>>
    BY <1>21, ProfileEntries
    DEF CheckArtifact, Current, IndexInv, PlacedInv, ThreadPlaced, AtProfile,
        At, ProfileSteps, serviceVars
  <2>3. \A f \in Files : Present(receipts'[w][f]) => f # Archive /\ InPlace(f)'
    BY <2>1, <2>2, PlacesStay DEF PlacedInv, ThreadPlaced
  <2>4. \A i \in 1 .. index[w] - 1 : InPlace(Profile[i])'
    BY <2>1, <2>2, PlacesStay
  <2>5. CASE /\ ArtifactReady(Current(w), receipts[w])
             /\ index' = [index EXCEPT ![w] = index[w] + 1]
             /\ UNCHANGED <<step, downloadVars>>
    <3>1. InPlace(Current(w))
      BY <2>2, <2>5, Contents
      DEF ArtifactReady, PlacedInv, ThreadPlaced, Present
    <3>3. \A i \in 1 .. index'[w] - 1 : InPlace(Profile[i])'
      BY <3>1, <2>2, <2>4, <2>5 DEF Current, IndexInv, InPlace, downloadVars
    <3>4. ThreadPlaced(w)'
      BY <3>3, <2>2, <2>3, <2>5 DEF ThreadPlaced, PlacedInv, At, downloadVars
    <3> QED
      BY <3>4, <2>1, <2>2, <2>5, PlacedFrame
      DEF IndexInv, downloadVars, OthersStay, Completes
  <2>6. CASE Raise(w) /\ UNCHANGED <<index, downloadVars>>
    <3>1. ThreadPlaced(w)'
      BY <2>2, <2>3, <2>6
      DEF ThreadPlaced, PlacedInv, At, AtProfile, ProfileSteps, downloadVars,
          Raise, Goto, RecordInv
    <3> QED
      BY <3>1, <2>1, <2>2, <2>6, PlacedFrame
      DEF downloadVars, Raise, Goto, RecordInv, OthersStay, Completes
  <2>7. CASE /\ OpenTransfer(w, Current(w)) /\ Goto(w, "fetching")
             /\ UNCHANGED index
    <3>1. /\ transfer'[w].artifact = Current(w) /\ transfer'[w].step # "idle"
          /\ transfer'[w].step = "done" => Present(file[Current(w)])
          /\ \A v \in Workers \ {w} : transfer'[v] = transfer[v]
          /\ UNCHANGED file
      BY <2>2, <2>7, OpenEffect
    <3>2. ThreadPlaced(w)'
      BY <3>1, <2>2, <2>3, <2>4, <2>7
      DEF ThreadPlaced, At, Goto, RecordInv, Current
    <3> QED
      BY <3>1, <3>2, <2>1, <2>2, <2>7, PlacedFrame
      DEF Goto, RecordInv, OthersStay, Completes
  <2> QED BY <1>21, <2>5, <2>6, <2>7 DEF CheckArtifact
<1>22. ASSUME NEW w \in Workers, FetchedArtifact(w), UNCHANGED serviceVars,
             RecordGarbled(w)
      PROVE  PlacedInv'
  <2>0. transfer[w].artifact = Current(w) /\ Current(w) # Archive
    BY <1>22, ProfileEntries
    DEF FetchedArtifact, At, PlacedInv, ThreadPlaced, IndexInv, ProfileSteps,
        Current
  <2>1. Stays
    BY <1>22 DEF FetchedArtifact, Raise, profileVars, Stays
  <2>2. ThreadPlaced(w)'
    BY <1>22, ProfileEntries, <2>0
    DEF FetchedArtifact, Raise, profileVars, ThreadPlaced, PlacedInv,
        RecordInv, IndexInv, DownloadInv, ReceiptsInv, AtProfile, ProfileSteps,
        At, Goto, InPlace, Current, Idle
  <2>3. /\ OthersStay(w) /\ Completes(ProfilePlaced)
        /\ installed' = installed \/ InstalledPlaced'
    BY <1>22
    DEF FetchedArtifact, Raise, profileVars, serviceVars, OthersStay,
        Completes, ThreadPlaced, PlacedInv, RecordInv, IndexInv, DownloadInv,
        ReceiptsInv, AtProfile, ProfileSteps, At, Goto
  <2> QED
    BY <2>1, <2>2, <2>3, PlacedFrame
<1>23. ASSUME NEW w \in Workers, StageNode(w), UNCHANGED serviceVars,
             RecordGarbled(w)
      PROVE  PlacedInv'
  <2>1. Stays
    BY <1>23 DEF StageNode, Raise, profileVars, downloadVars, Stays
  <2>2. ThreadPlaced(w)'
    BY <1>23
    DEF StageNode, Raise, profileVars, downloadVars, ThreadPlaced, PlacedInv,
        RecordInv, IndexInv, DownloadInv, ReceiptsInv, AtProfile, ProfileSteps,
        At, Goto, InPlace, Current
  <2>3. /\ OthersStay(w) /\ Completes(ProfilePlaced)
        /\ installed' = installed \/ InstalledPlaced'
    BY <1>23
    DEF StageNode, Raise, profileVars, downloadVars, serviceVars, OthersStay,
        Completes, ThreadPlaced, PlacedInv, RecordInv, IndexInv, DownloadInv,
        ReceiptsInv, AtProfile, ProfileSteps, At, Goto
  <2> QED
    BY <2>1, <2>2, <2>3, PlacedFrame
<1>24. ASSUME NEW w \in Workers, PublishNode(w), UNCHANGED serviceVars,
             RecordGarbled(w)
      PROVE  PlacedInv'
  <2>1. Stays
    BY <1>24 DEF PublishNode, Raise, Fault, Stays
  <2>2. ThreadPlaced(w)'
    BY <1>24
    DEF PublishNode, fileVars, Raise, Fault, ThreadPlaced, PlacedInv,
        RecordInv, IndexInv, DownloadInv, ReceiptsInv, AtProfile, ProfileSteps,
        At, Goto, InPlace, Current
  <2>3. /\ OthersStay(w) /\ Completes(ProfilePlaced)
        /\ installed' = installed \/ InstalledPlaced'
    BY <1>24
    DEF PublishNode, fileVars, Raise, Fault, serviceVars, OthersStay,
        Completes, ThreadPlaced, PlacedInv, RecordInv, IndexInv, DownloadInv,
        ReceiptsInv, AtProfile, ProfileSteps, At, Goto
  <2> QED
    BY <2>1, <2>2, <2>3, PlacedFrame
<1>25. ASSUME NEW w \in Workers, RecordArtifact(w), UNCHANGED serviceVars,
             RecordGarbled(w)
      PROVE  PlacedInv'
  <2> DEFINE mine == [receipts[w] EXCEPT ![Current(w)] = file[Current(w)]]
  <2>1. Stays
    BY <1>25 DEF RecordArtifact, Stays
  <2>2. /\ Current(w) \in Files \ {Archive} /\ At(w, "receipt")
        /\ InPlace(Current(w))
        /\ \A i \in 1 .. index[w] - 1 : InPlace(Profile[i])
        /\ \A f \in Files : Present(receipts[w][f]) => f # Archive /\ InPlace(f)
        /\ UNCHANGED <<file, node, transfer, operations>>
    BY <1>25, ProfileEntries
    DEF RecordArtifact, fileVars, Current, IndexInv, PlacedInv, ThreadPlaced,
        AtProfile, At, ProfileSteps, serviceVars
  <2>3. \A f : InPlace(f)' <=> InPlace(f)
    BY <2>2 DEF InPlace
  <2>4. CASE /\ receipts' = [receipts EXCEPT ![w] = mine]
             /\ installed' = mine
             /\ index' = [index EXCEPT ![w] = index[w] + 1]
             /\ Goto(w, "artifact")
    <3>1. \A f \in Files : Present(mine[f]) => f # Archive /\ InPlace(f)
      BY <2>2 DEF ReceiptsInv
    <3>2. \A i \in 1 .. index'[w] - 1 : InPlace(Profile[i])
      BY <2>2, <2>4 DEF Current, IndexInv
    <3>3. receipts'[w] = mine /\ step'[w] = "artifact"
      BY <2>4 DEF ReceiptsInv, Goto, RecordInv
    <3> HIDE DEF mine
    <3>4. ThreadPlaced(w)'
      BY <3>1, <3>2, <3>3, <2>2, <2>3 DEF ThreadPlaced, PlacedInv
    <3>5. InstalledPlaced'
      BY <3>1, <2>3, <2>4 DEF InstalledPlaced
    <3> QED
      BY <3>4, <3>5, <2>1, <2>2, <2>4, PlacedFrame
      DEF Goto, RecordInv, ReceiptsInv, IndexInv, OthersStay, Completes
  <2>5. CASE Raise(w) /\ UNCHANGED <<receipts, installed, index>>
    <3>1. ThreadPlaced(w)'
      BY <2>2, <2>3, <2>5
      DEF ThreadPlaced, PlacedInv, AtProfile, ProfileSteps, Raise, Goto,
          RecordInv
    <3> QED
      BY <3>1, <2>1, <2>2, <2>5, PlacedFrame
      DEF Raise, Goto, RecordInv, OthersStay, Completes
  <2> QED BY <1>25, <2>4, <2>5 DEF RecordArtifact
<1>26. ASSUME NEW w \in Workers, TransferStep(w), RecordGarbled(w)
      PROVE  PlacedInv'
  <2>1. Stays
    BY <1>26, TransferEffect
    DEF TransferStep, Stays, installerVars, profileVars
  <2>2. ThreadPlaced(w)'
    <3>1. /\ \A f \in Files \ {Archive} : InPlace(f) => InPlace(f)'
          /\ Current(w)' = Current(w)
          /\ UNCHANGED <<step, index, receipts, node>>
      BY <1>26, <2>1, PlacesStay
      DEF TransferStep, installerVars, profileVars, Current
    <3>2. /\ \A i \in 1 .. index[w] - 1 : Profile[i] \in Files \ {Archive}
          /\ step[w] \in {"node", "nodeStaged", "receipt"} =>
               Current(w) \in Files \ {Archive}
          /\ ThreadPlaced(w)
          /\ transfer[w].step # "idle" => transfer[w].artifact \in Files
      BY ProfileEntries
      DEF IndexInv, ProfileSteps, Current, PlacedInv, DownloadInv
    <3>3. /\ transfer'[w].step # "idle"
          /\ transfer'[w].artifact = transfer[w].artifact
          /\ transfer'[w].step = "done" => Present(file'[transfer[w].artifact])
          /\ \A f \in Files : Present(file[f]) => Present(file'[f])
      BY <1>26, TransferEffect DEF TransferStep
    <3> QED BY <3>1, <3>2, <3>3 DEF ThreadPlaced, AtProfile
  <2> QED
    BY <1>26, <2>1, <2>2, TransferEffect, PlacedFrame
    DEF TransferStep, serviceVars, installerVars, profileVars, OthersStay,
        Completes
<1>27. ASSUME NEW o \in Operations, BeginRaises(o)
      PROVE  PlacedInv'
  BY <1>27
  DEF BeginRaises, fileVars, Fault, installerVars, NoOpenOperation,
      CreateOperation, Exists, Goto, Running, runtimeVars, profileVars,
      downloadVars, PlacedInv, ThreadPlaced, InstalledPlaced, ProfilePlaced,
      InPlace, Current, AtProfile, RecordInv, ProfileSteps
<1> QED
  BY <1>1, <1>2, <1>3, <1>4, <1>5, <1>6, <1>7, <1>8, <1>9, <1>10,
     <1>11, <1>12, <1>13, <1>14, <1>15, <1>16, <1>17, <1>18, <1>19,
     <1>20, <1>21, <1>22, <1>23, <1>24, <1>25, <1>26, <1>27
    DEF Next, WorkerStep, ServiceStep, InstallStep, RuntimeStep, ProfileStep

\* Every step of a thread that runs alone keeps its copy of the receipts equal
\* to the file.
LEMMA LoneStep ==
  ASSUME RecordInv, IndexInv, DownloadInv, ReceiptsInv, PlacedInv, FreshInv, LoneInv,
         [Next]_vars
  PROVE  LoneInv'
<1>1. CASE UNCHANGED vars
  BY <1>1
  DEF vars, serviceVars, installerVars, profileVars, Running, LoneInv,
      RecordsHeld, AtProfile, Recorded, ProfileRecorded
<1>2. ASSUME NEW o \in Operations, BeginInstall(o)
      PROVE  LoneInv'
  BY <1>2, WorkersAreOperations
  DEF BeginInstall, NoOpenOperation, CreateOperation, Exists, Goto, Running,
      profileVars, RecordInv, OperationRecord, LoneInv, RecordsHeld, AtProfile,
      ProfileSteps, Recorded, ProfileRecorded
<1>3. ASSUME NEW o \in Operations, CancelOperation(o)
      PROVE  LoneInv'
  BY <1>3
  DEF CancelOperation, Fault, Transition, Moved, installerVars, profileVars,
      RecordInv, Running, LoneInv, RecordsHeld, AtProfile, Recorded,
      ProfileRecorded
<1>4. CASE Shutdown
  BY <1>4
  DEF Shutdown, installerVars, profileVars, Running, LoneInv, RecordsHeld,
      AtProfile, Recorded, ProfileRecorded
<1>5. CASE Restart
  BY <1>5
  DEF Restart, RecoverInterrupted, Moved, runtimeVars, Running, LoneInv,
      RecordsHeld, AtProfile, ProfileSteps, Recorded, ProfileRecorded
<1>6. ASSUME NEW w \in Workers, StartDownloading(w), RecordGarbled(w)
      PROVE  LoneInv'
  <2>1. RecordsHeld(w) => RecordsHeld(w)'
    BY <1>6, RecordMoves
    DEF StartDownloading, fileVars, MoveOrEnd, TransitionRaises, Raise, Fault,
        Transition, Moved, profileVars, RecordsHeld, RecordInv, IndexInv,
        ReceiptsInv, AtProfile, ProfileSteps, At, Goto, Recorded, RecordGarbled
  <2>2. /\ Running(w) /\ UNCHANGED <<beside, installed>>
        /\ \A v \in Workers \ {w} : step'[v] = step[v]
        /\ Completes(RecordsHeld(w) => ProfileRecorded)
    BY <1>6, RecordMoves
    DEF StartDownloading, fileVars, MoveOrEnd, TransitionRaises, Raise, Fault,
        profileVars, RecordsHeld, RecordInv, IndexInv, ReceiptsInv, AtProfile,
        ProfileSteps, At, Goto, Recorded, RecordGarbled, Running, Completes
  <2> QED
    BY <1>6, <2>1, <2>2, LoneFrame
<1>7. ASSUME NEW w \in Workers, LookAtRuntime(w), RecordGarbled(w)
      PROVE  LoneInv'
  <2>1. RecordsHeld(w) => RecordsHeld(w)'
    BY <1>7
    DEF LookAtRuntime, profileVars, serviceVars, RecordsHeld, RecordInv,
        IndexInv, ReceiptsInv, AtProfile, ProfileSteps, At, Goto, Recorded,
        RecordGarbled
  <2>2. /\ Running(w) /\ UNCHANGED <<beside, installed>>
        /\ \A v \in Workers \ {w} : step'[v] = step[v]
        /\ Completes(RecordsHeld(w) => ProfileRecorded)
    BY <1>7
    DEF LookAtRuntime, profileVars, serviceVars, RecordsHeld, RecordInv,
        IndexInv, ReceiptsInv, AtProfile, ProfileSteps, At, Goto, Recorded,
        RecordGarbled, Running, Completes
  <2> QED
    BY <1>7, <2>1, <2>2, LoneFrame
<1>8. ASSUME NEW w \in Workers, FetchArchive(w), RecordGarbled(w)
      PROVE  LoneInv'
  <2>1. RecordsHeld(w) => RecordsHeld(w)'
    BY <1>8
    DEF FetchArchive, profileVars, installerVars, serviceVars, RecordsHeld,
        RecordInv, IndexInv, ReceiptsInv, AtProfile, ProfileSteps, At,
        Recorded, RecordGarbled
  <2>2. /\ Running(w) /\ UNCHANGED <<beside, installed>>
        /\ \A v \in Workers \ {w} : step'[v] = step[v]
        /\ Completes(RecordsHeld(w) => ProfileRecorded)
    BY <1>8
    DEF FetchArchive, profileVars, installerVars, serviceVars, RecordsHeld,
        RecordInv, IndexInv, ReceiptsInv, AtProfile, ProfileSteps, At,
        Recorded, RecordGarbled, Running, Completes
  <2> QED
    BY <1>8, <2>1, <2>2, LoneFrame
<1>9. ASSUME NEW w \in Workers, FetchedArchive(w), RecordGarbled(w)
      PROVE  LoneInv'
  <2>1. RecordsHeld(w) => RecordsHeld(w)'
    BY <1>9
    DEF FetchedArchive, Raise, profileVars, serviceVars, RecordsHeld,
        RecordInv, IndexInv, ReceiptsInv, AtProfile, ProfileSteps, At, Goto,
        Recorded, RecordGarbled
  <2>2. /\ Running(w) /\ UNCHANGED <<beside, installed>>
        /\ \A v \in Workers \ {w} : step'[v] = step[v]
        /\ Completes(RecordsHeld(w) => ProfileRecorded)
    BY <1>9
    DEF FetchedArchive, Raise, profileVars, serviceVars, RecordsHeld,
        RecordInv, IndexInv, ReceiptsInv, AtProfile, ProfileSteps, At, Goto,
        Recorded, RecordGarbled, Running, Completes
  <2> QED
    BY <1>9, <2>1, <2>2, LoneFrame
<1>10. ASSUME NEW w \in Workers, BeginExtracting(w), RecordGarbled(w)
      PROVE  LoneInv'
  <2>1. RecordsHeld(w) => RecordsHeld(w)'
    BY <1>10, RecordMoves
    DEF BeginExtracting, fileVars, NextPhase, MoveOrEnd, TransitionRaises,
        Raise, Fault, Transition, Moved, profileVars, RecordsHeld, RecordInv,
        IndexInv, ReceiptsInv, AtProfile, ProfileSteps, At, Goto, Recorded,
        RecordGarbled
  <2>2. /\ Running(w) /\ UNCHANGED <<beside, installed>>
        /\ \A v \in Workers \ {w} : step'[v] = step[v]
        /\ Completes(RecordsHeld(w) => ProfileRecorded)
    BY <1>10, RecordMoves
    DEF BeginExtracting, fileVars, NextPhase, MoveOrEnd, TransitionRaises,
        Raise, Fault, profileVars, RecordsHeld, RecordInv, IndexInv,
        ReceiptsInv, AtProfile, ProfileSteps, At, Goto, Recorded,
        RecordGarbled, Running, Completes
  <2> QED
    BY <1>10, <2>1, <2>2, LoneFrame
<1>11. ASSUME NEW w \in Workers, BeginInstalling(w), RecordGarbled(w)
      PROVE  LoneInv'
  <2>1. RecordsHeld(w) => RecordsHeld(w)'
    BY <1>11, RecordMoves
    DEF BeginInstalling, fileVars, NextPhase, MoveOrEnd, TransitionRaises,
        Raise, Fault, Transition, Moved, ReadReceipts, RecordsHeld, RecordInv,
        IndexInv, ReceiptsInv, AtProfile, ProfileSteps, At, Goto, Recorded,
        RecordGarbled
  <2>2. /\ Running(w) /\ UNCHANGED <<beside, installed>>
        /\ \A v \in Workers \ {w} : step'[v] = step[v]
        /\ Completes(RecordsHeld(w) => ProfileRecorded)
    BY <1>11, RecordMoves
    DEF BeginInstalling, fileVars, NextPhase, MoveOrEnd, TransitionRaises,
        Raise, Fault, ReadReceipts, RecordsHeld, RecordInv, IndexInv,
        ReceiptsInv, AtProfile, ProfileSteps, At, Goto, Recorded,
        RecordGarbled, Running, Completes
  <2> QED
    BY <1>11, <2>1, <2>2, LoneFrame
<1>12. ASSUME NEW w \in Workers, ProfileDone(w), RecordGarbled(w)
      PROVE  LoneInv'
  <2>1. RecordsHeld(w) => RecordsHeld(w)'
    BY <1>12
    DEF ProfileDone, fileVars, Raise, Fault, profileVars, serviceVars,
        RecordsHeld, RecordInv, IndexInv, ReceiptsInv, AtProfile, ProfileSteps,
        At, Goto, Recorded, RecordGarbled
  <2>2. /\ Running(w) /\ UNCHANGED <<beside, installed>>
        /\ \A v \in Workers \ {w} : step'[v] = step[v]
        /\ Completes(RecordsHeld(w) => ProfileRecorded)
    BY <1>12
    DEF ProfileDone, fileVars, Raise, Fault, profileVars, serviceVars,
        RecordsHeld, RecordInv, IndexInv, ReceiptsInv, AtProfile, ProfileSteps,
        At, Goto, Recorded, RecordGarbled, Running, Completes
  <2> QED
    BY <1>12, <2>1, <2>2, LoneFrame
<1>13. ASSUME NEW w \in Workers, Complete(w), RecordGarbled(w)
      PROVE  LoneInv'
  <2>1. RecordsHeld(w) => RecordsHeld(w)'
    BY <1>13, ProfileEntries, WorkersAreOperations
    DEF Complete, fileVars, NextPhase, MoveOrEnd, TransitionRaises, Raise,
        Fault, Transition, Moved, profileVars, RecordsHeld, RecordInv,
        IndexInv, ReceiptsInv, AtProfile, ProfileSteps, At, Goto, Recorded,
        RecordGarbled, ProfileRecorded, OperationRecord
  <2>2. /\ Running(w) /\ UNCHANGED <<beside, installed>>
        /\ \A v \in Workers \ {w} : step'[v] = step[v]
        /\ Completes(RecordsHeld(w) => ProfileRecorded)
    BY <1>13, ProfileEntries, WorkersAreOperations
    DEF Complete, fileVars, NextPhase, MoveOrEnd, TransitionRaises, Raise,
        Fault, Transition, Moved, profileVars, RecordsHeld, RecordInv,
        IndexInv, ReceiptsInv, AtProfile, ProfileSteps, At, Goto, Recorded,
        RecordGarbled, Running, Completes, ProfileRecorded, OperationRecord
  <2> QED
    BY <1>13, <2>1, <2>2, LoneFrame
<1>14. ASSUME NEW w \in Workers, CloseRecord(w), RecordGarbled(w)
      PROVE  LoneInv'
  <2>1. RecordsHeld(w) => RecordsHeld(w)'
    BY <1>14, RecordMoves
    DEF CloseRecord, CloseOrLeave, fileVars, MoveOrEnd, TransitionRaises,
        Raise, Fault, Transition, Moved, profileVars, RecordsHeld, RecordInv,
        IndexInv, ReceiptsInv, AtProfile, ProfileSteps, At, Goto, Recorded,
        RecordGarbled
  <2>2. /\ Running(w) /\ UNCHANGED <<beside, installed>>
        /\ \A v \in Workers \ {w} : step'[v] = step[v]
        /\ Completes(RecordsHeld(w) => ProfileRecorded)
    BY <1>14, RecordMoves
    DEF CloseRecord, CloseOrLeave, fileVars, MoveOrEnd, TransitionRaises,
        Raise, Fault, profileVars, RecordsHeld, RecordInv, IndexInv,
        ReceiptsInv, AtProfile, ProfileSteps, At, Goto, Recorded,
        RecordGarbled, Running, Completes
  <2> QED
    BY <1>14, <2>1, <2>2, LoneFrame
<1>15. ASSUME NEW w \in Workers, InspectArchive(w), UNCHANGED serviceVars,
             RecordGarbled(w)
      PROVE  LoneInv'
  <2>1. RecordsHeld(w) => RecordsHeld(w)'
    BY <1>15
    DEF InspectArchive, Raise, profileVars, serviceVars, RecordsHeld,
        RecordInv, IndexInv, ReceiptsInv, AtProfile, ProfileSteps, At, Goto,
        Recorded, RecordGarbled
  <2>2. /\ Running(w) /\ UNCHANGED <<beside, installed>>
        /\ \A v \in Workers \ {w} : step'[v] = step[v]
        /\ Completes(RecordsHeld(w) => ProfileRecorded)
    BY <1>15
    DEF InspectArchive, Raise, profileVars, serviceVars, RecordsHeld,
        RecordInv, IndexInv, ReceiptsInv, AtProfile, ProfileSteps, At, Goto,
        Recorded, RecordGarbled, Running, Completes
  <2> QED
    BY <1>15, <2>1, <2>2, LoneFrame
<1>16. ASSUME NEW w \in Workers, ExtractTree(w), UNCHANGED serviceVars,
             RecordGarbled(w)
      PROVE  LoneInv'
  <2>1. RecordsHeld(w) => RecordsHeld(w)'
    BY <1>16
    DEF ExtractTree, fileVars, RemoveStaging, KeepStaging, Raise, Fault,
        profileVars, serviceVars, RecordsHeld, RecordInv, IndexInv,
        ReceiptsInv, AtProfile, ProfileSteps, At, Goto, Recorded, RecordGarbled
  <2>2. /\ Running(w) /\ UNCHANGED <<beside, installed>>
        /\ \A v \in Workers \ {w} : step'[v] = step[v]
        /\ Completes(RecordsHeld(w) => ProfileRecorded)
    BY <1>16
    DEF ExtractTree, fileVars, RemoveStaging, KeepStaging, Raise, Fault,
        profileVars, serviceVars, RecordsHeld, RecordInv, IndexInv,
        ReceiptsInv, AtProfile, ProfileSteps, At, Goto, Recorded,
        RecordGarbled, Running, Completes
  <2> QED
    BY <1>16, <2>1, <2>2, LoneFrame
<1>17. ASSUME NEW w \in Workers, PublishTree(w), UNCHANGED serviceVars,
             RecordGarbled(w)
      PROVE  LoneInv'
  <2>1. RecordsHeld(w) => RecordsHeld(w)'
    BY <1>17
    DEF PublishTree, fileVars, RemoveStaging, KeepStaging, Raise, Fault,
        profileVars, serviceVars, RecordsHeld, RecordInv, IndexInv,
        ReceiptsInv, AtProfile, ProfileSteps, At, Goto, Recorded, RecordGarbled
  <2>2. /\ Running(w) /\ UNCHANGED <<beside, installed>>
        /\ \A v \in Workers \ {w} : step'[v] = step[v]
        /\ Completes(RecordsHeld(w) => ProfileRecorded)
    BY <1>17
    DEF PublishTree, fileVars, RemoveStaging, KeepStaging, Raise, Fault,
        profileVars, serviceVars, RecordsHeld, RecordInv, IndexInv,
        ReceiptsInv, AtProfile, ProfileSteps, At, Goto, Recorded,
        RecordGarbled, Running, Completes
  <2> QED
    BY <1>17, <2>1, <2>2, LoneFrame
<1>18. ASSUME NEW w \in Workers, WriteReceipt(w), UNCHANGED serviceVars,
             RecordGarbled(w)
      PROVE  LoneInv'
  <2>1. RecordsHeld(w) => RecordsHeld(w)'
    BY <1>18
    DEF WriteReceipt, fileVars, Raise, Fault, profileVars, serviceVars,
        RecordsHeld, RecordInv, IndexInv, ReceiptsInv, AtProfile, ProfileSteps,
        At, Goto, Recorded, RecordGarbled
  <2>2. /\ Running(w) /\ UNCHANGED <<beside, installed>>
        /\ \A v \in Workers \ {w} : step'[v] = step[v]
        /\ Completes(RecordsHeld(w) => ProfileRecorded)
    BY <1>18
    DEF WriteReceipt, fileVars, Raise, Fault, profileVars, serviceVars,
        RecordsHeld, RecordInv, IndexInv, ReceiptsInv, AtProfile, ProfileSteps,
        At, Goto, Recorded, RecordGarbled, Running, Completes
  <2> QED
    BY <1>18, <2>1, <2>2, LoneFrame
<1>19. ASSUME NEW w \in Workers, SelectRuntime(w), UNCHANGED serviceVars,
             RecordGarbled(w)
      PROVE  LoneInv'
  <2>1. RecordsHeld(w) => RecordsHeld(w)'
    BY <1>19
    DEF SelectRuntime, fileVars, Raise, Fault, profileVars, serviceVars,
        RecordsHeld, RecordInv, IndexInv, ReceiptsInv, AtProfile, ProfileSteps,
        At, Goto, Recorded, RecordGarbled
  <2>2. /\ Running(w) /\ UNCHANGED <<beside, installed>>
        /\ \A v \in Workers \ {w} : step'[v] = step[v]
        /\ Completes(RecordsHeld(w) => ProfileRecorded)
    BY <1>19
    DEF SelectRuntime, fileVars, Raise, Fault, profileVars, serviceVars,
        RecordsHeld, RecordInv, IndexInv, ReceiptsInv, AtProfile, ProfileSteps,
        At, Goto, Recorded, RecordGarbled, Running, Completes
  <2> QED
    BY <1>19, <2>1, <2>2, LoneFrame
<1>20. ASSUME NEW w \in Workers, DropArchive(w), UNCHANGED serviceVars,
             RecordGarbled(w)
      PROVE  LoneInv'
  <2>1. RecordsHeld(w) => RecordsHeld(w)'
    BY <1>20
    DEF DropArchive, fileVars, Fault, profileVars, serviceVars, RecordsHeld,
        RecordInv, IndexInv, ReceiptsInv, AtProfile, ProfileSteps, At, Goto,
        Recorded, RecordGarbled
  <2>2. /\ Running(w) /\ UNCHANGED <<beside, installed>>
        /\ \A v \in Workers \ {w} : step'[v] = step[v]
        /\ Completes(RecordsHeld(w) => ProfileRecorded)
    BY <1>20
    DEF DropArchive, fileVars, Fault, profileVars, serviceVars, RecordsHeld,
        RecordInv, IndexInv, ReceiptsInv, AtProfile, ProfileSteps, At, Goto,
        Recorded, RecordGarbled, Running, Completes
  <2> QED
    BY <1>20, <2>1, <2>2, LoneFrame
<1>21. ASSUME NEW w \in Workers, CheckArtifact(w), UNCHANGED serviceVars,
             RecordGarbled(w)
      PROVE  LoneInv'
  <2>1. RecordsHeld(w) => RecordsHeld(w)'
    <3>1. CASE /\ ArtifactReady(Current(w), receipts[w])
               /\ index' = [index EXCEPT ![w] = index[w] + 1]
               /\ UNCHANGED step
      BY <1>21, <3>1
      DEF CheckArtifact, ArtifactReady, Current, serviceVars, RecordsHeld,
          RecordInv, IndexInv, ReceiptsInv, AtProfile, ProfileSteps, At, Goto,
          Recorded, RecordGarbled
    <3>2. CASE UNCHANGED index /\ (Raise(w) \/ Goto(w, "fetching"))
      BY <1>21, <3>2
      DEF CheckArtifact, Raise, RecordsHeld, RecordInv, IndexInv, ReceiptsInv,
          AtProfile, ProfileSteps, At, Goto, Recorded, RecordGarbled
    <3> QED BY <1>21, <3>1, <3>2 DEF CheckArtifact
  <2>2. /\ Running(w) /\ UNCHANGED <<beside, installed, operations>>
        /\ \A v \in Workers \ {w} : step'[v] = step[v]
    BY <1>21
    DEF CheckArtifact, serviceVars, Running, At, Raise, Goto, RecordInv
  <2> QED
    BY <1>21, <2>1, <2>2, LoneFrame DEF Completes
<1>22. ASSUME NEW w \in Workers, FetchedArtifact(w), UNCHANGED serviceVars,
             RecordGarbled(w)
      PROVE  LoneInv'
  <2>1. RecordsHeld(w) => RecordsHeld(w)'
    BY <1>22
    DEF FetchedArtifact, Raise, profileVars, serviceVars, RecordsHeld,
        RecordInv, IndexInv, ReceiptsInv, AtProfile, ProfileSteps, At, Goto,
        Recorded, RecordGarbled
  <2>2. /\ Running(w) /\ UNCHANGED <<beside, installed>>
        /\ \A v \in Workers \ {w} : step'[v] = step[v]
        /\ Completes(RecordsHeld(w) => ProfileRecorded)
    BY <1>22
    DEF FetchedArtifact, Raise, profileVars, serviceVars, RecordsHeld,
        RecordInv, IndexInv, ReceiptsInv, AtProfile, ProfileSteps, At, Goto,
        Recorded, RecordGarbled, Running, Completes
  <2> QED
    BY <1>22, <2>1, <2>2, LoneFrame
<1>23. ASSUME NEW w \in Workers, StageNode(w), UNCHANGED serviceVars,
             RecordGarbled(w)
      PROVE  LoneInv'
  <2>1. RecordsHeld(w) => RecordsHeld(w)'
    BY <1>23
    DEF StageNode, Raise, profileVars, serviceVars, RecordsHeld, RecordInv,
        IndexInv, ReceiptsInv, AtProfile, ProfileSteps, At, Goto, Recorded,
        RecordGarbled
  <2>2. /\ Running(w) /\ UNCHANGED <<beside, installed>>
        /\ \A v \in Workers \ {w} : step'[v] = step[v]
        /\ Completes(RecordsHeld(w) => ProfileRecorded)
    BY <1>23
    DEF StageNode, Raise, profileVars, serviceVars, RecordsHeld, RecordInv,
        IndexInv, ReceiptsInv, AtProfile, ProfileSteps, At, Goto, Recorded,
        RecordGarbled, Running, Completes
  <2> QED
    BY <1>23, <2>1, <2>2, LoneFrame
<1>24. ASSUME NEW w \in Workers, PublishNode(w), UNCHANGED serviceVars,
             RecordGarbled(w)
      PROVE  LoneInv'
  <2>1. RecordsHeld(w) => RecordsHeld(w)'
    BY <1>24
    DEF PublishNode, fileVars, Raise, Fault, serviceVars, RecordsHeld,
        RecordInv, IndexInv, ReceiptsInv, AtProfile, ProfileSteps, At, Goto,
        Recorded, RecordGarbled
  <2>2. /\ Running(w) /\ UNCHANGED <<beside, installed>>
        /\ \A v \in Workers \ {w} : step'[v] = step[v]
        /\ Completes(RecordsHeld(w) => ProfileRecorded)
    BY <1>24
    DEF PublishNode, fileVars, Raise, Fault, serviceVars, RecordsHeld,
        RecordInv, IndexInv, ReceiptsInv, AtProfile, ProfileSteps, At, Goto,
        Recorded, RecordGarbled, Running, Completes
  <2> QED
    BY <1>24, <2>1, <2>2, LoneFrame
<1>25. ASSUME NEW w \in Workers, RecordArtifact(w), UNCHANGED serviceVars,
             RecordGarbled(w)
      PROVE  LoneInv'
  <2> DEFINE mine == [receipts[w] EXCEPT ![Current(w)] = file[Current(w)]]
  <2>0. Running(w)
    BY <1>25 DEF RecordArtifact, At, Running
  <2>1. CASE Raise(w) /\ UNCHANGED <<receipts, installed, index>>
    <3>1. RecordsHeld(w) => RecordsHeld(w)'
      BY <2>1
      DEF Raise, RecordsHeld, RecordInv, IndexInv, ReceiptsInv, AtProfile,
          ProfileSteps, At, Goto, Recorded, RecordGarbled
    <3>2. /\ UNCHANGED <<beside, operations>>
          /\ \A v \in Workers \ {w} : step'[v] = step[v]
      BY <1>25, <2>1 DEF serviceVars, Raise, Goto, RecordInv
    <3> QED
      BY <1>25, <2>0, <2>1, <3>1, <3>2, LoneFrame DEF Completes
  <2>2. CASE /\ receipts' = [receipts EXCEPT ![w] = mine]
             /\ installed' = mine
             /\ index' = [index EXCEPT ![w] = index[w] + 1]
             /\ Goto(w, "artifact")
    <3>1. /\ Current(w) \in Files /\ InPlace(Current(w))
          /\ UNCHANGED <<file, beside, operations>>
          /\ garbled \subseteq garbled'
      BY <1>25, ProfileEntries
      DEF RecordArtifact, fileVars, At, IndexInv, PlacedInv, ThreadPlaced,
          ProfileSteps, Current, serviceVars, RecordGarbled
    <3>2. file[Current(w)] = Whole \/ Current(w) \in garbled
      BY <3>1 DEF InPlace, Present, FreshInv, FreshDownloadWhole
    <3>3. mine \in [Files -> Content] /\ mine[Current(w)] = file[Current(w)]
          /\ \A f \in Files \ {Current(w)} : mine[f] = receipts[w][f]
      BY <3>1 DEF ReceiptsInv, DownloadInv
    <3>4. /\ receipts'[w] = mine /\ step'[w] = "artifact"
          /\ index'[w] = index[w] + 1
          /\ \A v \in Workers \ {w} : step'[v] = step[v]
      BY <2>2 DEF ReceiptsInv, IndexInv, Goto, RecordInv
    <3>5. At(w, "receipt")
      BY <1>25 DEF RecordArtifact
    <3> HIDE DEF mine
    <3> SUFFICES ASSUME ~beside PROVE LoneInv'
      BY <3>1 DEF LoneInv
    <3>6. /\ receipts[w] = installed
          /\ \A i \in 1 .. index[w] - 1 : Recorded(Profile[i])
      BY <3>5 DEF LoneInv, RecordsHeld, AtProfile, ProfileSteps, At
    <3>7. \A f \in Files : Recorded(f) => Recorded(f)'
      BY <3>1, <3>2, <3>3, <3>6, <2>2 DEF Recorded
    <3>9. \A i \in 1 .. index'[w] - 1 : Recorded(Profile[i])'
      BY <3>1, <3>2, <3>3, <3>4, <3>6, <3>7, <2>2, ProfileEntries
      DEF Current, IndexInv, Recorded
    <3>10. ProfileRecorded => ProfileRecorded'
      BY <3>7, ProfileEntries DEF ProfileRecorded
    <3>11. \A v \in Workers \ {w} : ~Running(v) /\ ~Running(v)'
      BY <2>0, <3>4 DEF LoneInv, Running
    <3>12. \A v \in Workers : RecordsHeld(v)'
      BY <3>4, <3>9, <3>11, <2>2
      DEF RecordsHeld, AtProfile, ProfileSteps, Running
    <3> QED BY <3>1, <3>10, <3>11, <3>12 DEF LoneInv
  <2> QED BY <1>25, <2>1, <2>2 DEF RecordArtifact
<1>26. ASSUME NEW w \in Workers, TransferStep(w), RecordGarbled(w)
      PROVE  LoneInv'
  BY <1>26
  DEF TransferStep, serviceVars, installerVars, profileVars, RecordGarbled,
      Running, LoneInv, RecordsHeld, AtProfile, Recorded, ProfileRecorded
<1>27. ASSUME NEW o \in Operations, BeginRaises(o)
      PROVE  LoneInv'
  BY <1>27, WorkersAreOperations
  DEF BeginRaises, fileVars, Fault, installerVars, NoOpenOperation,
      CreateOperation, Exists, Goto, Running, profileVars, RecordInv,
      OperationRecord, LoneInv, RecordsHeld, AtProfile, ProfileSteps, Recorded,
      ProfileRecorded
<1> QED
  BY <1>1, <1>2, <1>3, <1>4, <1>5, <1>6, <1>7, <1>8, <1>9, <1>10,
     <1>11, <1>12, <1>13, <1>14, <1>15, <1>16, <1>17, <1>18, <1>19,
     <1>20, <1>21, <1>22, <1>23, <1>24, <1>25, <1>26, <1>27
    DEF Next, WorkerStep, ServiceStep, InstallStep, RuntimeStep, ProfileStep

\* The first state: no files, no downloads, no receipts.
LEMMA FilesInit == Init => FilesInv
<1> SUFFICES ASSUME Init PROVE FilesInv
  OBVIOUS
<1>1. DownloadInv /\ ReceiptsInv
  BY Contents, TransferFields
  DEF Init, DownloadInv, ReceiptsInv, Content, NoReceipts, Idle
<1>2. FreshInv
  BY DEF Init, FreshInv, FreshDownloadWhole, Idle
<1>3. PlacedInv
  BY DEF Init, PlacedInv, InstalledPlaced, ThreadPlaced, AtProfile,
       ProfileSteps, NoReceipts, Present, AbsentOperation, Idle
<1>4. LoneInv
  BY DEF Init, LoneInv, RecordsHeld, AtProfile, ProfileSteps, Running,
       AbsentOperation
<1> QED BY <1>1, <1>2, <1>3, <1>4 DEF FilesInv

\* Downloads, files and receipts stay consistent with the threads in every
\* run, whatever the constants.
THEOREM FilesInvariant == Spec => [](RunInv /\ FilesInv)
<1>1. RunInv /\ FilesInv /\ [Next]_vars => FilesInv'
  BY DownloadsStep, ReceiptsStep, PlacedStep, LoneStep DEF RunInv, FilesInv
<1> QED BY <1>1, FilesInit, RunInvariant, PTL DEF Spec

\* Every variable stays in its set.
THEOREM InstallTypes == Spec => []TypeOK
<1>1. RunInv /\ FilesInv => TypeOK
  BY DEF RunInv, FilesInv, RecordInv, RuntimeInv, IndexInv, FlagsInv,
       DownloadInv, FreshInv, ReceiptsInv, Content, Pieces, AllSteps, TypeOK
<1> QED BY <1>1, FilesInvariant, PTL

\* A download from the first byte publishes the artifact or nothing
\* (downloads.py:171-231).
THEOREM FreshDownloadsWhole == Spec => []FreshDownloadWhole
<1>1. FilesInv => FreshDownloadWhole
  BY DEF FilesInv, FreshInv
<1> QED BY <1>1, FilesInvariant, PTL

\* A completed operation has installed what it was asked for
\* (service.py:266-318, installer.py:675-708, 895-914).
THEOREM CompletedIsInstalled == Spec => []CompletedMeansInstalled
<1>1. ASSUME RunInv, FilesInv PROVE CompletedMeansInstalled
  <2> SUFFICES ASSUME NEW o \in Operations, operations[o].state = "completed"
      PROVE  /\ RuntimeStatus = "ready"
             /\ \A i \in 1 .. Len(Profile) :
                  LET f == Profile[i] IN
                  /\ Present(file[f])
                  /\ f \in Nodes => f \in node
                  /\ beside \/ ArtifactReady(f, installed) \/ f \in garbled
    BY DEF CompletedMeansInstalled
  <2>1. RuntimeStatus = "ready"
    BY <1>1 DEF RunInv, RuntimeInv, SelectionComplete, RuntimeStatus
  <2>2. ASSUME NEW f \in Files, InPlace(f), Recorded(f)
        PROVE  ArtifactReady(f, installed) \/ f \in garbled
    BY <1>1, <2>2
    DEF FilesInv, FreshInv, FreshDownloadWhole, InPlace, Present, Recorded,
        ArtifactReady
  <2> QED
    BY <1>1, <2>1, <2>2, ProfileEntries
    DEF FilesInv, PlacedInv, ProfilePlaced, InPlace, LoneInv, ProfileRecorded
<1> QED BY <1>1, FilesInvariant, PTL
=============================================================================
