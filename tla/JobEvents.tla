------------------------------ MODULE JobEvents ------------------------------
(***************************************************************************)
(* How the server tells a browser about the records of jobs: the broker of *)
(* revision hints (generation/events.py) and the WebSocket handler that    *)
(* sends snapshots (job_events in api/generation.py).                      *)
(*                                                                         *)
(* A write of a record and the hint that announces it are two steps of the *)
(* thread that writes, so hints of several threads arrive in any order.    *)
(* Hints carry no data: the handler loads the record again.                *)
(*                                                                         *)
(* What is written is GenerationCoordinator's business; here a record is   *)
(* its revision and whether it is open (nonterminal), and a write moves    *)
(* them as the writes proved there do.                                     *)
(***************************************************************************)
EXTENDS Integers, Sequences

CONSTANTS
  Jobs,         \* identities of jobs
  MaxRevision,  \* bound: the highest revision a record reaches
  NoJob         \* the job of no connection

ASSUME EventsAssumption ==
  /\ NoJob \notin Jobs
  /\ MaxRevision \in Nat

VARIABLES
  stored,       \* the records on disk
  unpublished,  \* <<job, revision>> written, its hint not yet published
  hint,         \* the broker's _revisions; -1 where it has none
  socket,       \* the browser's WebSocket and the handler behind it
  inbox         \* snapshots sent and not yet taken by the browser

serverVars == <<stored, unpublished, hint, socket, inbox>>

----------------------------------------------------------------------------
Revision == 0 .. MaxRevision

\* Revision -1 is a job directory that does not exist.
Record == {r \in [rev : Revision \cup {-1}, open : BOOLEAN] : r.open => r.rev >= 0}
Absent == [rev |-> -1, open |-> FALSE]

Snapshot == [job : Jobs, rev : Revision, open : BOOLEAN]
SnapshotOf(j) == [job |-> j, rev |-> stored[j].rev, open |-> stored[j].open]

\* load: accepted, first snapshot still to be loaded; wait: in wait_for_change
\* after revision last; broken: ended, and the browser does not know it yet.
Socket ==
  {s \in [pc : {"closed", "load", "wait", "broken"},
           job : Jobs \cup {NoJob}, last : Revision \cup {-1}] :
     s.pc = "closed" <=> s.job = NoJob}

ClosedSocket == [pc |-> "closed", job |-> NoJob, last |-> -1]
NewSocket(j) == [pc |-> "load", job |-> j, last |-> -1]

Exists(j) == stored[j].rev >= 0
Open(j)   == stored[j].open

EventsInit ==
  /\ stored = [j \in Jobs |-> Absent]
  /\ unpublished = {}
  /\ hint = [j \in Jobs |-> -1]
  /\ socket = ClosedSocket
  /\ inbox = <<>>

----------------------------------------------------------------------------
(* Writes and hints *)

\* The first record a command publishes: revision 0 of a created job, or the
\* revision 1 in which a retried job holds what it inherits.
NewJob(j, r) ==
  /\ ~Exists(j)
  /\ stored' = [stored EXCEPT ![j] = [rev |-> r, open |-> TRUE]]
  /\ unpublished' = unpublished \cup {<<j, r>>}

\* Any later write, by a worker or a cancel: the next revision, never open
\* again once closed.
Write(j) ==
  /\ Exists(j)
  /\ stored[j].rev < MaxRevision
  /\ \E open \in BOOLEAN :
       /\ open => Open(j)
       /\ stored' = [stored EXCEPT ![j] = [rev |-> @.rev + 1, open |-> open]]
       /\ unpublished' = unpublished \cup {<<j, stored[j].rev + 1>>}
  /\ UNCHANGED <<hint, socket, inbox>>

\* Seeded fault: the last hint wins, not the highest.
PublishLast(j, r) ==
  /\ <<j, r>> \in unpublished
  /\ unpublished' = unpublished \ {<<j, r>>}
  /\ hint' = [hint EXCEPT ![j] = r]
  /\ UNCHANGED <<stored, socket, inbox>>

\* JobEventBroker.publish, of threads in any order
Publish(j, r) ==
  /\ <<j, r>> \in unpublished
  /\ unpublished' = unpublished \ {<<j, r>>}
  /\ hint' = [hint EXCEPT ![j] = IF r > @ THEN r ELSE @]
  /\ UNCHANGED <<stored, socket, inbox>>

----------------------------------------------------------------------------
(* The handler of one connection *)

Send == inbox' = Append(inbox, SnapshotOf(socket.job))

\* get_job and the first snapshot
SendFirst ==
  /\ socket.pc = "load"
  /\ Send
  /\ socket' = [socket EXCEPT !.pc = "wait", !.last = stored[socket.job].rev]
  /\ UNCHANGED <<stored, unpublished, hint>>

\* Seeded fault: what was sent last is not remembered.
SendForgetful ==
  /\ socket.pc = "wait"
  /\ hint[socket.job] > socket.last
  /\ Send
  /\ UNCHANGED <<stored, unpublished, hint, socket>>

\* wait_for_change returns, the record is loaded again and sent if it is newer.
SendChange ==
  /\ socket.pc = "wait"
  /\ hint[socket.job] > socket.last
  /\ IF stored[socket.job].rev > socket.last
     THEN /\ Send
          /\ socket' = [socket EXCEPT !.last = stored[socket.job].rev]
     ELSE UNCHANGED <<inbox, socket>>
  /\ UNCHANGED <<stored, unpublished, hint>>

\* The connection ends on its way, with the snapshots that had not arrived.
Break ==
  /\ socket.pc \in {"load", "wait"}
  /\ socket' = [socket EXCEPT !.pc = "broken"]
  /\ \E n \in 0 .. Len(inbox) : inbox' = SubSeq(inbox, 1, n)
  /\ UNCHANGED <<stored, unpublished, hint>>

\* The process dies and recovers: hints are memory and are lost, jobs at work
\* are closed without a hint (queued ones stay open), connections break.
Restart ==
  /\ \E interrupted \in SUBSET {j \in Jobs : Open(j) /\ stored[j].rev < MaxRevision} :
       stored' = [j \in Jobs |-> IF j \in interrupted
                                 THEN [rev |-> stored[j].rev + 1, open |-> FALSE]
                                 ELSE stored[j]]
  /\ unpublished' = {}
  /\ hint' = [j \in Jobs |-> -1]
  /\ socket' = IF socket.pc = "closed" THEN socket ELSE [socket EXCEPT !.pc = "broken"]
  /\ \E n \in 0 .. Len(inbox) : inbox' = SubSeq(inbox, 1, n)

----------------------------------------------------------------------------
EventsTypeOK ==
  /\ stored \in [Jobs -> Record]
  /\ unpublished \in SUBSET (Jobs \X Revision)
  /\ hint \in [Jobs -> Revision \cup {-1}]
  /\ socket \in Socket
  /\ inbox \in Seq(Snapshot)

\* A handler that waits is never left asleep over a record newer than what it
\* sent: a hint above its revision is there, or is about to be published.
NoLostWakeup ==
  socket.pc = "wait" /\ stored[socket.job].rev > socket.last =>
    \/ hint[socket.job] > socket.last
    \/ \E r \in Revision : r > socket.last /\ <<socket.job, r>> \in unpublished

\* The snapshots on their way go up, and the handler remembers the last of them.
SentInOrder ==
  /\ \A i \in 1 .. Len(inbox) : inbox[i].job = socket.job /\ inbox[i].rev <= socket.last
  /\ \A i \in 2 .. Len(inbox) : inbox[i - 1].rev < inbox[i].rev
=============================================================================
