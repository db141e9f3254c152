------------------------- MODULE ComponentInstaller -------------------------
(***************************************************************************)
(* comfy/installer.py: RuntimeInstaller and ProfileInstaller as the thread *)
(* of an operation runs them, one action per change of the disk.  The      *)
(* runtime is published as a tree, a receipt and the selection record, in  *)
(* this order; a profile as one artifact after the other, each with a      *)
(* receipt in installed-artifacts.json, which is replaced as a whole from  *)
(* the copy the thread read at its start.                                  *)
(***************************************************************************)
EXTENDS ArtifactDownloads

CONSTANTS
  Archive,    \* the runtime archive (runtime.archive)
  Profile,    \* the artifacts of the profile, in manifest order
  Nodes       \* those that are archives of a custom node

ASSUME ProfileAssumption ==
  /\ Profile \in Seq(Files \ {Archive})
  /\ Nodes \subseteq Files
  /\ Archive \in Files

VARIABLES
  step,         \* where the thread of an operation is
  index,        \* its place in the profile
  receipts,     \* its copy of installed-artifacts.json
  staging,      \* .staging-<uuid> trees below comfyui/, by their thread
  leaked,       \* history: staging trees that could not be removed, or that
                \* an end of the process left
  tree,         \* the versioned runtime directory exists
  receipt,      \* state/installation-receipts holds the runtime's receipt
  selection,    \* state/selected-runtime.json names the directory
  node,         \* custom nodes published in the runtime tree
  installed     \* state/installed-artifacts.json

runtimeVars == <<staging, leaked, tree, receipt, selection>>

profileVars == <<index, receipts, node, installed>>

installerVars == <<step, runtimeVars, profileVars>>

NoReceipts == [f \in Files |-> Missing]

\* RuntimeInstaller.status
RuntimeStatus ==
  IF ~selection THEN IF staging = {} THEN "missing" ELSE "partial"
  ELSE IF tree /\ receipt THEN "ready" ELSE "corrupt"

\* _classify_profile_artifact: a file of the right size and hash whose
\* receipt agrees.
ArtifactReady(f, records) == file[f] = Whole /\ records[f] = file[f]

\* ProfileInstaller.status(...).ready
ProfileReady ==
  \A i \in 1 .. Len(Profile) : ArtifactReady(Profile[i], installed)

Goto(w, next) == step' = [step EXCEPT ![w] = next]

At(w, place) == step[w] = place

\* An exception leaves the installer; the service closes the operation.
Raise(w) == Goto(w, "error")

-----------------------------------------------------------------------------
(* RuntimeInstaller.install *)

\* inspect_7z and the staging directory; a ready runtime is left alone.
InspectArchive(w) ==
  /\ At(w, "runtime")
  /\ \/ RuntimeStatus = "ready" /\ Goto(w, "installing") /\ UNCHANGED staging
     \/ /\ RuntimeStatus # "ready" /\ file[Archive] = Whole
        /\ Goto(w, "extracting")
        /\ staging' = staging \cup {w}
     \/ /\ RuntimeStatus # "ready" /\ file[Archive] # Whole
        /\ Raise(w)
        /\ UNCHANGED staging
  /\ UNCHANGED <<leaked, tree, receipt, selection, profileVars, downloadVars>>

\* Mutant of ExtractTree: a tree that fails its audit is left.
ExtractTreeKept(w) ==
  /\ At(w, "extracting")
  /\ \/ file[Archive] = Whole /\ Goto(w, "staged") /\ UNCHANGED faults
     \/ /\ IF file[Archive] = Whole THEN Fault ELSE UNCHANGED faults
        /\ Raise(w)
  /\ UNCHANGED <<runtimeVars, profileVars, fileVars>>

\* remove_staging, and a removal that fails for a file another program holds.
RemoveStaging(w) == staging' = staging \ {w} /\ UNCHANGED leaked

KeepStaging(w) == leaked' = leaked \cup {w} /\ UNCHANGED staging

\* extract_and_audit_7z: a tree that fails its audit is removed.
ExtractTree(w) ==
  /\ At(w, "extracting")
  /\ \/ /\ file[Archive] = Whole
        /\ Goto(w, "staged")
        /\ UNCHANGED <<staging, leaked, faults>>
     \/ /\ file[Archive] # Whole
        /\ Raise(w) /\ RemoveStaging(w)
        /\ UNCHANGED faults
     \/ /\ Fault
        /\ Raise(w)
        /\ RemoveStaging(w) \/ KeepStaging(w)
  /\ UNCHANGED <<tree, receipt, selection, profileVars, fileVars>>

\* A target that exists is never replaced.
PublishTree(w) ==
  /\ At(w, "staged")
  /\ \/ /\ tree
        /\ Raise(w) /\ RemoveStaging(w)
        /\ UNCHANGED <<tree, faults>>
     \/ /\ ~tree
        /\ tree' = TRUE
        /\ Goto(w, "published") /\ RemoveStaging(w)
        /\ UNCHANGED faults
     \/ /\ Fault
        /\ Raise(w)
        /\ RemoveStaging(w) \/ KeepStaging(w)
        /\ UNCHANGED tree
  /\ UNCHANGED <<receipt, selection, profileVars, fileVars>>

\* Mutant of WriteReceipt: a receipt that cannot be written is passed over.
WriteReceiptAnyway(w) ==
  /\ At(w, "published")
  /\ Goto(w, "recorded")
  /\ \/ Present(file[Archive]) /\ receipt' = TRUE /\ UNCHANGED faults
     \/ Fault /\ UNCHANGED receipt
  /\ UNCHANGED <<staging, leaked, tree, selection, profileVars, fileVars>>

\* The receipt holds the hash of the archive, read again from the disk.
WriteReceipt(w) ==
  /\ At(w, "published")
  /\ \/ /\ Present(file[Archive])
        /\ receipt' = TRUE /\ Goto(w, "recorded") /\ UNCHANGED faults
     \/ /\ IF Present(file[Archive]) THEN Fault ELSE UNCHANGED faults
        /\ Raise(w) /\ UNCHANGED receipt
  /\ UNCHANGED <<staging, leaked, tree, selection, profileVars, fileVars>>

SelectRuntime(w) ==
  /\ At(w, "recorded")
  /\ \/ selection' = TRUE /\ Goto(w, "selected") /\ UNCHANGED faults
     \/ Fault /\ Raise(w) /\ UNCHANGED selection
  /\ UNCHANGED <<staging, leaked, tree, receipt, profileVars, fileVars>>

\* The archive is not kept; a thread that cannot remove it leaves it.
DropArchive(w) ==
  /\ At(w, "selected")
  /\ Goto(w, "installing")
  /\ \/ file' = [file EXCEPT ![Archive] = Missing] /\ UNCHANGED faults
     \/ Fault /\ UNCHANGED file
  /\ UNCHANGED <<runtimeVars, profileVars, part, sidecar, transfer, stopped>>

RuntimeStep(w) ==
  \/ InspectArchive(w) \/ ExtractTree(w) \/ PublishTree(w) \/ WriteReceipt(w)
  \/ SelectRuntime(w) \/ DropArchive(w)

-----------------------------------------------------------------------------
(* ProfileInstaller.install *)

Current(w) == Profile[index[w]]

\* _read_installed_records, once for the whole call.
ReadReceipts(w) ==
  /\ index' = [index EXCEPT ![w] = 1]
  /\ receipts' = [receipts EXCEPT ![w] = installed]

\* Mutant of CheckArtifact: a ready artifact is not passed.
CheckArtifactAgain(w) ==
  /\ At(w, "artifact") /\ index[w] <= Len(Profile)
  /\ ~ArtifactReady(Current(w), receipts[w])
  /\ OpenTransfer(w, Current(w))
  /\ Goto(w, "fetching")
  /\ UNCHANGED <<runtimeVars, profileVars>>

\* The next artifact: skipped when it is ready, refused when other bytes are
\* in its place, downloaded otherwise.
CheckArtifact(w) ==
  /\ At(w, "artifact") /\ index[w] <= Len(Profile)
  /\ \/ /\ ArtifactReady(Current(w), receipts[w])
        /\ index' = [index EXCEPT ![w] = @ + 1]
        /\ UNCHANGED <<step, downloadVars>>
     \/ /\ file[Current(w)] \notin {Missing, Whole}
        /\ Raise(w)
        /\ UNCHANGED <<index, downloadVars>>
     \/ /\ ~ArtifactReady(Current(w), receipts[w])
        /\ file[Current(w)] \in {Missing, Whole}
        /\ OpenTransfer(w, Current(w))
        /\ Goto(w, "fetching")
        /\ UNCHANGED index
  /\ UNCHANGED <<runtimeVars, receipts, node, installed>>

\* download() returned or raised.
FetchedArtifact(w) ==
  /\ At(w, "fetching")
  /\ transfer[w].step \in {"done", "failed", "canceled"}
  /\ transfer' = [transfer EXCEPT ![w] = Idle]
  /\ \/ transfer[w].step = "done" /\ Current(w) \in Nodes /\ Goto(w, "node")
     \/ transfer[w].step = "done" /\ Current(w) \notin Nodes
        /\ Goto(w, "receipt")
     \/ transfer[w].step = "failed" /\ Raise(w)
     \/ transfer[w].step = "canceled" /\ Goto(w, "canceled")
  /\ UNCHANGED <<runtimeVars, profileVars, file, part, sidecar, stopped,
                 faults>>

\* _install_custom_node up to the extraction; a published node is left alone.
StageNode(w) ==
  /\ At(w, "node")
  /\ \/ Current(w) \in node /\ Goto(w, "receipt")
     \/ Current(w) \notin node /\ file[Current(w)] = Whole
        /\ Goto(w, "nodeStaged")
     \/ Current(w) \notin node /\ file[Current(w)] # Whole /\ Raise(w)
  /\ UNCHANGED <<runtimeVars, profileVars, downloadVars>>

\* The directory of a node is never replaced.
PublishNode(w) ==
  /\ At(w, "nodeStaged")
  /\ \/ Current(w) \in node /\ Raise(w) /\ UNCHANGED <<node, faults>>
     \/ /\ Current(w) \notin node
        /\ node' = node \cup {Current(w)}
        /\ Goto(w, "receipt")
        /\ UNCHANGED faults
     \/ Current(w) \notin node /\ Fault /\ Raise(w) /\ UNCHANGED node
  /\ UNCHANGED <<runtimeVars, index, receipts, installed, file, part, sidecar,
                 transfer, stopped>>

\* Mutant of RecordArtifact: the receipts written before are left out.
RecordOnlyArtifact(w) ==
  LET mine == [NoReceipts EXCEPT ![Current(w)] = file[Current(w)]] IN
  /\ At(w, "receipt")
  /\ receipts' = [receipts EXCEPT ![w] = mine]
  /\ installed' = mine
  /\ index' = [index EXCEPT ![w] = @ + 1]
  /\ Goto(w, "artifact")
  /\ UNCHANGED <<runtimeVars, node, downloadVars>>

\* _record_artifact: the hash of the file as it is now, written with the
\* receipts this thread read or wrote before.
RecordArtifact(w) ==
  LET mine == [receipts[w] EXCEPT ![Current(w)] = file[Current(w)]] IN
  /\ At(w, "receipt")
  /\ \/ /\ receipts' = [receipts EXCEPT ![w] = mine]
        /\ installed' = mine
        /\ index' = [index EXCEPT ![w] = @ + 1]
        /\ Goto(w, "artifact")
        /\ UNCHANGED faults
     \/ Fault /\ Raise(w) /\ UNCHANGED <<receipts, installed, index>>
  /\ UNCHANGED <<runtimeVars, node, file, part, sidecar, transfer, stopped>>

ProfileStep(w) ==
  \/ CheckArtifact(w) \/ FetchedArtifact(w) \/ StageNode(w) \/ PublishNode(w)
  \/ RecordArtifact(w)
=============================================================================
