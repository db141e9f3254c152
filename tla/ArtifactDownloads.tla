-------------------------- MODULE ArtifactDownloads --------------------------
(***************************************************************************)
(* comfy/downloads.py: ArtifactDownloader.download, run by the thread of   *)
(* an install operation.  The bytes of an artifact are Chunks pieces, the  *)
(* piece 0 stands for wrong bytes, a file is the sequence of its pieces.   *)
(* The part file and its sidecar have fixed names, so two threads that     *)
(* download one artifact share them.  Files behave as on Windows, the only *)
(* system the managed runtime starts on: a file that is open can be opened *)
(* and truncated by another thread, but not renamed or unlinked.           *)
(***************************************************************************)
EXTENDS Integers, Sequences

CONSTANTS
  Workers,    \* threads, one for each operation
  Files,      \* artifacts: the runtime archive and those of the profile
  Chunks,     \* pieces of an artifact (DEFAULT_CHUNK_SIZE)
  Missing,    \* no such file
  MaxFaults   \* bound: what networks and disks do wrong in a behaviour

ASSUME ChunksAssumption == Chunks \in Nat \ {0}

ASSUME MissingAssumption == Missing \notin Seq(0 .. Chunks)

VARIABLES
  file,       \* the destination of an artifact
  part,       \* its .part file
  sidecar,    \* its .part.json file
  transfer,   \* the download of a thread
  stopped,    \* threads whose cancel event is set
  faults      \* faults so far

downloadVars == <<file, part, sidecar, transfer, stopped, faults>>

fileVars == <<file, part, sidecar, transfer, stopped>>

Whole == [i \in 1 .. Chunks |-> i]

Idle ==
  [step |-> "idle", artifact |-> Missing, received |-> 0, position |-> 0,
   hashed |-> << >>]

\* Where a thread has the part file open.
Holds(w, f) == transfer[w].step = "streaming" /\ transfer[w].artifact = f

HeldByOther(w, f) == \E v \in Workers \ {w} : Holds(v, f)

Fault == faults < MaxFaults /\ faults' = faults + 1

Present(content) == content # Missing

MayStop(w) == w \in stopped

\* A step of download() that touches no file but its own progress.
Advance(w, t) ==
  /\ transfer' = [transfer EXCEPT ![w] = t]
  /\ UNCHANGED <<file, stopped>>

End(w, outcome) == Advance(w, [transfer[w] EXCEPT !.step = outcome])

\* _validated_resume_offset: the sidecar, the size of the part and the hash
\* of its bytes must agree.
SidecarValid(f) ==
  /\ sidecar[f].received = Len(part[f])
  /\ sidecar[f].received > 0 => sidecar[f].hashed = part[f]

ResumeOffset(f) ==
  IF Present(part[f]) /\ Present(sidecar[f]) /\ SidecarValid(f)
  THEN sidecar[f].received
  ELSE 0

StaleSidecar(f) ==
  Present(part[f]) /\ Present(sidecar[f]) /\ ~SidecarValid(f)

\* download() up to the request: an artifact that is there is not fetched
\* again, another file in its place is never overwritten, an unusable part is
\* restarted.
OpenTransfer(w, f) ==
  LET asking == [Idle EXCEPT !.step = "asking", !.artifact = f,
                             !.received = ResumeOffset(f)]
  IN
  /\ transfer[w].step = "idle"
  /\ UNCHANGED faults
  /\ \/ /\ file[f] = Whole
        /\ Advance(w, [asking EXCEPT !.step = "done"])
        /\ UNCHANGED <<part, sidecar>>
     \/ /\ Present(file[f]) /\ file[f] # Whole
        /\ Advance(w, [asking EXCEPT !.step = "failed"])
        /\ UNCHANGED <<part, sidecar>>
     \/ /\ ~Present(file[f])
        /\ IF ~StaleSidecar(f)
           THEN Advance(w, asking) /\ UNCHANGED <<part, sidecar>>
           ELSE IF HeldByOther(w, f)
           THEN /\ Advance(w, [asking EXCEPT !.step = "failed"])
                /\ UNCHANGED <<part, sidecar>>
           ELSE /\ Advance(w, asking)
                /\ part' = [part EXCEPT ![f] = << >>]
                /\ sidecar' = [sidecar EXCEPT ![f] = Missing]

\* The answer 200 to a range request: the part restarts at its first byte and
\* the request is sent again without a range.
RangeIgnored(w) ==
  LET f == transfer[w].artifact IN
  /\ transfer[w].step = "asking" /\ transfer[w].received > 0
  /\ UNCHANGED faults
  /\ IF HeldByOther(w, f)
     THEN End(w, "failed") /\ UNCHANGED <<part, sidecar>>
     ELSE /\ part' = [part EXCEPT ![f] = << >>]
          /\ sidecar' =
               [sidecar EXCEPT ![f] = [received |-> 0, hashed |-> << >>]]
          /\ Advance(w, [transfer[w] EXCEPT !.received = 0])

\* The answer 200 to a request without a range: _stream_body truncates.
BeginBody(w) ==
  LET f == transfer[w].artifact IN
  /\ transfer[w].step = "asking" /\ transfer[w].received = 0
  /\ part' = [part EXCEPT ![f] = << >>]
  /\ Advance(w, [transfer[w] EXCEPT !.step = "streaming"])
  /\ UNCHANGED <<sidecar, faults>>

\* The answer 206: the part as it is now is hashed and opened with "r+b",
\* which leaves the file position at the first byte.
ResumeBody(w) ==
  LET f == transfer[w].artifact IN
  /\ transfer[w].step = "asking" /\ transfer[w].received > 0
  /\ IF Present(part[f])
     THEN Advance(w, [transfer[w] EXCEPT !.step = "streaming",
                                         !.hashed = part[f]])
     ELSE End(w, "failed")
  /\ UNCHANGED <<part, sidecar, faults>>

\* Writing one piece at the position of an open file; a file truncated by
\* another thread meanwhile has a hole before it.
Overwritten(content, position, piece) ==
  [i \in 1 .. (IF position < Len(content) THEN Len(content) ELSE position + 1)
     |-> IF i = position + 1 THEN piece
         ELSE IF i <= Len(content) THEN content[i] ELSE 0]

\* One turn of the loop of _stream_body: the cancel event is polled before a
\* piece is stored, and a canceled download leaves a sidecar.  One piece too
\* many stands for every body that is too long.
ReceiveChunk(w) ==
  LET t == transfer[w]
      f == t.artifact
  IN
  /\ t.step = "streaming" /\ t.received <= Chunks
  /\ \/ /\ MayStop(w)
        /\ sidecar' =
             [sidecar EXCEPT ![f] = [received |-> t.received,
                                     hashed |-> t.hashed]]
        /\ End(w, "canceled")
        /\ UNCHANGED <<part, faults>>
     \/ /\ ~MayStop(w)
        /\ \E piece \in {0, t.received + 1} \ {Chunks + 1} :
             /\ part' =
                  [part EXCEPT ![f] = Overwritten(@, t.position, piece)]
             /\ Advance(w, [t EXCEPT !.received = @ + 1, !.position = @ + 1,
                                     !.hashed = Append(@, piece)])
             /\ IF piece = 0 THEN Fault ELSE UNCHANGED faults
        /\ UNCHANGED sidecar

\* The body ends, early too: the part is flushed, synced and closed.
EndBody(w) ==
  /\ transfer[w].step = "streaming"
  /\ IF transfer[w].received >= Chunks THEN UNCHANGED faults ELSE Fault
  /\ End(w, "received")
  /\ UNCHANGED <<part, sidecar>>

\* A timeout, a lost connection, a status or a redirect that is refused.
LoseConnection(w) ==
  /\ transfer[w].step \in {"asking", "streaming"}
  /\ Fault
  /\ End(w, "failed")
  /\ UNCHANGED <<part, sidecar>>

\* Mutant of Verified: only the size is checked.
VerifiedSize(t) == t.received = Chunks

Verified(t) == t.received = Chunks /\ t.hashed = Whole

\* _remove_managed_partial
RemovePartial(w, f) ==
  /\ part' = [part EXCEPT ![f] = IF HeldByOther(w, f) THEN @ ELSE Missing]
  /\ sidecar' = [sidecar EXCEPT ![f] = Missing]

\* The end of _stream_body: size and hash of what was received are checked,
\* then the part is renamed to the destination.  A file operation that fails
\* leaves part and sidecar, or the sidecar of what is published.
PublishArtifact(w) ==
  LET t == transfer[w]
      f == t.artifact
  IN
  /\ t.step = "received"
  /\ UNCHANGED stopped
  /\ \/ /\ ~Verified(t)
        /\ \/ RemovePartial(w, f) /\ UNCHANGED faults
           \/ Fault /\ UNCHANGED <<part, sidecar>>
        /\ transfer' = [transfer EXCEPT ![w].step = "failed"]
        /\ UNCHANGED file
     \/ /\ Verified(t)
        /\ \/ (HeldByOther(w, f) \/ ~Present(part[f])) /\ UNCHANGED faults
           \/ Fault
        /\ transfer' = [transfer EXCEPT ![w].step = "failed"]
        /\ UNCHANGED <<file, part, sidecar>>
     \/ /\ Verified(t) /\ ~HeldByOther(w, f) /\ Present(part[f])
        /\ file' = [file EXCEPT ![f] = part[f]]
        /\ part' = [part EXCEPT ![f] = Missing]
        /\ \/ /\ sidecar' = [sidecar EXCEPT ![f] = Missing]
              /\ transfer' = [transfer EXCEPT ![w].step = "done"]
              /\ UNCHANGED faults
           \/ /\ Fault
              /\ transfer' = [transfer EXCEPT ![w].step = "failed"]
              /\ UNCHANGED sidecar

\* What a download does between its call and its return or exception.
DownloadStep(w) ==
  \/ RangeIgnored(w) \/ BeginBody(w) \/ ResumeBody(w) \/ ReceiveChunk(w)
  \/ EndBody(w) \/ LoseConnection(w) \/ PublishArtifact(w)
=============================================================================
