-------------------------- MODULE InferenceService --------------------------
(***************************************************************************)
(* inference/service.py: install operations and their threads.  The API    *)
(* begins and cancels operations under the lifecycle lock; the thread of   *)
(* an operation downloads, extracts and installs without it and takes it   *)
(* for each change of the record.  A cancel closes the record at once, so  *)
(* the next operation may begin while the thread of a canceled one still   *)
(* runs on the same files.  The process may end at any step; the next one  *)
(* closes what it finds open.                                              *)
(***************************************************************************)
EXTENDS ComponentInstaller, InstallState

CONSTANT MaxRestarts   \* bound: ends of the process in a behaviour

ASSUME WorkersAreOperations == Workers = Operations

VARIABLES
  closing,    \* shutdown() was called
  restarts,   \* ends of the process so far
  unclosed,   \* history: operations whose record could not be closed by their
              \* thread, or that got no thread
  garbled,    \* history: artifacts whose part was resumed, or changed beside
              \* another thread that works on it
  beside      \* history: two threads have been alive together

serviceVars == <<operations, closing, restarts, unclosed, beside>>

vars == <<serviceVars, garbled, installerVars, downloadVars>>

Running(w) == step[w] # "none"

ServiceSteps ==
  {"none", "planned", "status", "archive", "archived", "installing", "paths",
   "error", "canceled", "stopping"}

RuntimeSteps ==
  {"runtime", "extracting", "staged", "published", "recorded", "selected"}

ProfileSteps == {"artifact", "fetching", "node", "nodeStaged", "receipt"}

Init ==
  /\ operations = [o \in Operations |-> AbsentOperation]
  /\ closing = FALSE /\ restarts = 0
  /\ unclosed = {} /\ garbled = {} /\ beside = FALSE
  /\ step = [w \in Workers |-> "none"]
  /\ index = [w \in Workers |-> 1]
  /\ receipts = [w \in Workers |-> NoReceipts]
  /\ staging = {} /\ leaked = {} /\ tree = FALSE /\ receipt = FALSE /\ selection = FALSE
  /\ node = {} /\ installed = NoReceipts
  /\ file = [f \in Files |-> Missing]
  /\ part = [f \in Files |-> Missing]
  /\ sidecar = [f \in Files |-> Missing]
  /\ transfer = [w \in Workers |-> Idle]
  /\ stopped = {} /\ faults = 0

-----------------------------------------------------------------------------
(* The API, under the lifecycle lock *)

\* install_plan: something is left to install.
CanInstall == RuntimeStatus # "ready" \/ ~ProfileReady

\* Mutant of NoOpenOperation: an operation that extracts is not seen.
NoneExceptExtracting ==
  \A o \in Operations : operations[o].state \notin OpenStates \ {"extracting"}

NoOpenOperation == \A o \in Operations : ~Open(o)

\* begin_install: inspection, consent, record and thread in one section.
BeginInstall(o) ==
  /\ ~closing
  /\ NoOpenOperation
  /\ CanInstall
  /\ CreateOperation(o)
  /\ Goto(o, "planned")
  /\ beside' = (beside \/ \E w \in Workers : Running(w))
  /\ UNCHANGED <<closing, restarts, unclosed, garbled, runtimeVars,
                 profileVars, downloadVars>>

\* begin_install raises behind the record: the write reports an error after
\* it, or the thread cannot be started.
BeginRaises(o) ==
  /\ ~closing
  /\ NoOpenOperation
  /\ CanInstall
  /\ CreateOperation(o)
  /\ Fault
  /\ unclosed' = unclosed \cup {o}
  /\ UNCHANGED <<closing, restarts, beside, garbled, installerVars, fileVars>>

\* cancel_operation: the event of the thread is set, then the record closed;
\* the write may raise after the event.
CancelOperation(o) ==
  /\ Open(o)
  /\ \/ Transition(o, "canceled") /\ UNCHANGED faults
     \/ Fault /\ UNCHANGED operations
  /\ stopped' = stopped \cup {o}
  /\ UNCHANGED <<closing, restarts, unclosed, garbled, beside, installerVars,
                 file, part, sidecar, transfer>>

\* shutdown: no more installs, every thread is told to stop.
Shutdown ==
  /\ ~closing
  /\ closing' = TRUE
  /\ stopped' = {w \in Workers : Running(w)} \cup stopped
  /\ UNCHANGED <<operations, restarts, unclosed, garbled, beside, installerVars,
                 file, part, sidecar, transfer, faults>>

\* The process ends, daemon threads with it, and the next one starts.
Restart ==
  /\ restarts < MaxRestarts
  /\ restarts' = restarts + 1
  /\ RecoverInterrupted
  /\ closing' = FALSE
  /\ stopped' = {}
  /\ leaked' = leaked \cup staging
  /\ step' = [w \in Workers |-> "none"]
  /\ index' = [w \in Workers |-> 1]
  /\ receipts' = [w \in Workers |-> NoReceipts]
  /\ transfer' = [w \in Workers |-> Idle]
  /\ UNCHANGED <<unclosed, garbled, beside, staging, tree, receipt, selection,
                 node, installed, file, part, sidecar, faults>>

-----------------------------------------------------------------------------
(* _execute_install *)

\* _transition_if_active, the return of a thread whose record is closed, and
\* the error that the handler of _execute_install takes.
MoveOrEnd(w, state, next) ==
  \/ Transition(w, state) /\ Goto(w, next) /\ UNCHANGED faults
  \/ ~Open(w) /\ Goto(w, "none") /\ UNCHANGED <<operations, faults>>
  \/ Fault /\ TransitionRaises(w, state) /\ Raise(w)

\* The first change of the record.
StartDownloading(w) ==
  /\ At(w, "planned")
  /\ MoveOrEnd(w, "downloading", "status")
  /\ UNCHANGED <<closing, restarts, unclosed, beside, runtimeVars, profileVars,
                 fileVars>>

\* A ready runtime is neither downloaded nor extracted.
LookAtRuntime(w) ==
  /\ At(w, "status")
  /\ Goto(w, IF RuntimeStatus = "ready" THEN "installing" ELSE "archive")
  /\ UNCHANGED <<serviceVars, runtimeVars, profileVars, downloadVars>>

FetchArchive(w) ==
  /\ At(w, "archive")
  /\ OpenTransfer(w, Archive)
  /\ UNCHANGED <<serviceVars, installerVars>>

FetchedArchive(w) ==
  /\ At(w, "archive")
  /\ transfer[w].step \in {"done", "failed", "canceled"}
  /\ transfer' = [transfer EXCEPT ![w] = Idle]
  /\ \/ transfer[w].step = "done" /\ Goto(w, "archived")
     \/ transfer[w].step = "failed" /\ Raise(w)
     \/ transfer[w].step = "canceled" /\ Goto(w, "canceled")
  /\ UNCHANGED <<serviceVars, runtimeVars, profileVars, file, part, sidecar,
                 stopped, faults>>

\* A set event is looked at before the record moves on.
NextPhase(w, place, state, next) ==
  /\ At(w, place)
  /\ \/ w \in stopped /\ Goto(w, "stopping") /\ UNCHANGED <<operations, faults>>
     \/ w \notin stopped /\ MoveOrEnd(w, state, next)

BeginExtracting(w) ==
  /\ NextPhase(w, "archived", "extracting", "runtime")
  /\ UNCHANGED <<closing, restarts, unclosed, beside, runtimeVars, profileVars,
                 fileVars>>

BeginInstalling(w) ==
  /\ NextPhase(w, "installing", "installing", "artifact")
  /\ ReadReceipts(w)
  /\ UNCHANGED <<closing, restarts, unclosed, beside, runtimeVars, node,
                 installed, fileVars>>

\* The last artifact is in place; write_extra_model_paths.
ProfileDone(w) ==
  /\ At(w, "artifact") /\ index[w] > Len(Profile)
  /\ \/ Goto(w, "paths") /\ UNCHANGED faults
     \/ Fault /\ Raise(w)
  /\ UNCHANGED <<serviceVars, runtimeVars, profileVars, fileVars>>

Complete(w) ==
  /\ NextPhase(w, "paths", "completed", "none")
  /\ UNCHANGED <<closing, restarts, unclosed, beside, runtimeVars, profileVars,
                 fileVars>>

\* _cancel_if_active and _fail_operation in a handler: the record is closed
\* unless something closed it before; an error ends the thread before that.
CloseOrLeave(w, state) ==
  /\ Goto(w, "none")
  /\ \/ Transition(w, state) /\ UNCHANGED <<unclosed, faults>>
     \/ ~Open(w) /\ UNCHANGED <<operations, unclosed, faults>>
     \/ /\ Open(w) /\ Fault
        /\ unclosed' = unclosed \cup {w}
        /\ UNCHANGED operations

\* The last step of a thread.  A cancel that is seen between two phases is
\* still inside the try, whose handler an error goes to.
CloseRecord(w) ==
  /\ \/ At(w, "canceled") /\ CloseOrLeave(w, "canceled")
     \/ At(w, "error") /\ CloseOrLeave(w, "failed")
     \/ At(w, "stopping") /\ MoveOrEnd(w, "canceled", "none")
        /\ UNCHANGED unclosed
  /\ UNCHANGED <<closing, restarts, beside, runtimeVars, profileVars, fileVars>>

InstallStep(w) ==
  /\ RuntimeStep(w) \/ ProfileStep(w)
  /\ UNCHANGED serviceVars

TransferStep(w) ==
  /\ DownloadStep(w)
  /\ UNCHANGED <<serviceVars, installerVars>>

ServiceStep(w) ==
  \/ StartDownloading(w) \/ LookAtRuntime(w) \/ FetchArchive(w)
  \/ FetchedArchive(w) \/ BeginExtracting(w) \/ BeginInstalling(w)
  \/ ProfileDone(w) \/ Complete(w) \/ CloseRecord(w)

\* What the histories of FreshDownloadWhole and CompletedMeansInstalled record.
Garbles(w, f) ==
  \/ /\ part'[f] # part[f]
     /\ \E v \in Workers \ {w} : transfer[v].artifact = f
  \/ /\ transfer'[w].step = "streaming" /\ transfer'[w].artifact = f
     /\ transfer'[w].received > transfer'[w].position

RecordGarbled(w) == garbled' = garbled \cup {f \in Files : Garbles(w, f)}

WorkerStep(w) ==
  /\ Running(w)
  /\ ServiceStep(w) \/ InstallStep(w) \/ TransferStep(w)
  /\ RecordGarbled(w)

Next ==
  \/ \E o \in Operations :
       BeginInstall(o) \/ BeginRaises(o) \/ CancelOperation(o)
  \/ Shutdown \/ Restart
  \/ \E w \in Workers : WorkerStep(w)

\* A thread runs on; its waits for the network have timeouts.
Fairness == \A w \in Workers : WF_vars(WorkerStep(w))

Spec == Init /\ [][Next]_vars

FairSpec == Spec /\ Fairness

-----------------------------------------------------------------------------
(* Properties *)

TypeOK ==
  /\ operations \in [Operations -> OperationRecord]
  /\ closing \in BOOLEAN /\ beside \in BOOLEAN
  /\ restarts \in Nat /\ faults \in Nat
  /\ garbled \subseteq Files /\ unclosed \subseteq Operations
  /\ step \in [Workers -> ServiceSteps \cup RuntimeSteps \cup ProfileSteps]
  /\ index \in [Workers -> 1 .. Len(Profile) + 1]
  /\ receipts \in [Workers -> [Files -> Seq(0 .. Chunks) \cup {Missing}]]
  /\ installed \in [Files -> Seq(0 .. Chunks) \cup {Missing}]
  /\ staging \subseteq Workers /\ leaked \subseteq Workers
  /\ stopped \subseteq Workers
  /\ tree \in BOOLEAN /\ receipt \in BOOLEAN /\ selection \in BOOLEAN
  /\ node \subseteq Nodes
  /\ file \in [Files -> Seq(0 .. Chunks) \cup {Missing}]
  /\ part \in [Files -> Seq(0 .. Chunks) \cup {Missing}]

\* One operation is open at a time, whatever the threads of canceled
\* operations still do.  It has a thread that will close it, unless the write
\* failed that should have closed it or it never got one: what stays open
\* refuses every later install until it is canceled or the backend restarts
\* (begin_install, service.py:112-168, 311-347).
OneOpenOperation ==
  \A o \in Operations :
    Open(o) => /\ Running(o) \/ o \in unclosed
               /\ \A p \in Operations : Open(p) => p = o

\* A closed operation stays as it was closed: a thread that outlives its
\* operation cannot bring it back (service.py:320-362).
ClosedForever ==
  [][\A o \in Operations : Closed(o) => operations'[o] = operations[o]]_vars

\* The selection record names a complete runtime after an end of the process
\* between any two of the three publications too (installer.py:513-557).
SelectionComplete == selection => tree /\ receipt

\* A completed operation left a ready runtime and every artifact of the
\* profile in its place, also beside the thread of a canceled operation and
\* after restarts; unless two threads ran together the profile checks ready,
\* but for artifacts whose download was resumed (service.py:266-318,
\* installer.py:675-708, 895-914).
CompletedMeansInstalled ==
  \A o \in Operations :
    operations[o].state = "completed" =>
      /\ RuntimeStatus = "ready"
      /\ \A i \in 1 .. Len(Profile) :
           LET f == Profile[i] IN
           /\ Present(file[f])
           /\ f \in Nodes => f \in node
           /\ beside \/ ArtifactReady(f, installed) \/ f \in garbled

\* What a download that starts at the first byte publishes is the artifact,
\* whatever the network did and whichever thread was canceled over it
\* (downloads.py:171-231).
FreshDownloadWhole ==
  \A f \in Files : file[f] \in {Missing, Whole} \/ f \in garbled

\* A staging tree belongs to a thread that still extracts it, or is one whose
\* removal failed or that an end of the process left (archives.py:178-209,
\* installer.py:497-527).
StagingOwned ==
  \A w \in staging :
    At(w, "extracting") \/ At(w, "staged") \/ w \in leaked

\* A thread ends, so that no operation stays open and no thread runs on beside
\* all later ones (service.py:266-318).
ThreadEnds == \A w \in Workers : Running(w) ~> ~Running(w)

\* The statement "Final output is published only after exact size and SHA-256
\* validation" of the plan of phase 4 about what is on the disk: an artifact
\* in its place is the artifact (downloads.py:187-225).
PublishedIsVerified == \A f \in Files : file[f] \in {Missing, Whole}
=============================================================================
