--------------------------- MODULE JobViewProofs ---------------------------
(***************************************************************************)
(* The safety of job events: handlers are woken, snapshots go up, and the  *)
(* hook never shows an older record.  The invariant has four parts: every  *)
(* snapshot anywhere is of a stored record that has not gone back since;   *)
(* the connection is the one of the subscription; the handler's promise;   *)
(* and what is on its way to a hook that has just been reset is not older  *)
(* than what it still shows.                                               *)
(***************************************************************************)
EXTENDS JobView, SequenceTheorems, TLAPS

Known(s) == s \in Snapshot /\ s.rev <= stored[s.job].rev
KnownOrNone(s) == s = NoSnapshot \/ Known(s)

SnapshotsKnown ==
  /\ KnownOrNone(current)
  /\ KnownOrNone(live)
  /\ KnownOrNone(get.snap)
  /\ \A i \in 1 .. Len(inbox) : Known(inbox[i])
  /\ \A c \in Commands : KnownOrNone(cmd[c].answer)

CommandsSound ==
  \A c \in Commands :
    /\ cmd[c].pc = "answered" => cmd[c].answer # NoSnapshot
    /\ cmd[c].pc = "sent" /\ cmd[c].kind = "call" => cmd[c].job \in Jobs /\ Exists(cmd[c].job)

ConnectionSound ==
  /\ link = "off" <=> Subscribed = NoJob
  /\ link = "up" <=> socket.pc # "closed"
  /\ socket.pc # "closed" => socket.job = Subscribed
  /\ socket.pc \in {"closed", "load"} => inbox = <<>>
  /\ socket.pc = "wait" => socket.last >= 0 /\ socket.last <= stored[socket.job].rev
  /\ Subscribed = NoJob => live = NoSnapshot /\ latest = -1 /\ get = NoGet

HandlerSound == NoLostWakeup /\ SentInOrder

\* What may reach the hook is of its subscription and, while it has no
\* revision of its own, not older than what it shows.
HookSound ==
  /\ get.st = "answered" => get.snap # NoSnapshot
  /\ get.snap # NoSnapshot => get.snap.job = Subscribed
  /\ live # NoSnapshot /\ live.job = Subscribed /\ latest # live.rev =>
       /\ latest = -1
       /\ \A i \in 1 .. Len(inbox) : inbox[i].rev >= live.rev
       /\ get.snap # NoSnapshot => get.snap.rev >= live.rev

ViewInv ==
  /\ TypeOK
  /\ SnapshotsKnown
  /\ CommandsSound
  /\ ConnectionSound
  /\ HandlerSound
  /\ HookSound

----------------------------------------------------------------------------
(* Snapshots and the subscription *)

LEMMA Loaded ==
  ASSUME TypeOK, NEW j \in Jobs, Exists(j)
  PROVE  /\ Known(SnapshotOf(j))
         /\ SnapshotOf(j).job = j /\ SnapshotOf(j).rev = stored[j].rev
         /\ SnapshotOf(j) # NoSnapshot
<1>1. stored[j] \in Record /\ stored[j].rev \in Revision
  BY DEF TypeOK, EventsTypeOK, Exists, Record, Revision
<1>2. SnapshotOf(j) \in Snapshot
  BY <1>1 DEF SnapshotOf, Snapshot, Record
<1> QED BY <1>1, <1>2, ViewAssumption DEF SnapshotOf, Known, Revision

LEMMA Subscription ==
  ASSUME TypeOK, KnownOrNone(current)
  PROVE  /\ Subscribed \in Jobs \cup {NoJob}
         /\ Subscribed # NoJob => /\ Known(current) /\ current.open
                                 /\ Subscribed = current.job
                                 /\ Subscribed \in Jobs /\ Exists(Subscribed)
<1>1. CASE current = NoSnapshot
  BY <1>1 DEF Subscribed, SubscribedTo
<1>2. CASE current # NoSnapshot
  <2>1. Known(current) /\ current.job \in Jobs /\ current.rev \in Revision
    BY <1>2 DEF KnownOrNone, Known, Snapshot
  <2>2. Exists(current.job)
    BY <2>1 DEF Known, Exists, Revision, TypeOK, EventsTypeOK, Record
  <2> QED BY <2>1, <2>2, <1>2, EventsAssumption DEF Subscribed, SubscribedTo
<1> QED BY <1>1, <1>2

\* Records only go up.
Grows ==
  /\ stored' \in [Jobs -> Record]
  /\ \A j \in Jobs : stored'[j].rev >= stored[j].rev

LEMMA StaysKnown ==
  ASSUME TypeOK, Grows, NEW s, KnownOrNone(s)
  PROVE  s = NoSnapshot \/ (s \in Snapshot /\ s.rev <= stored'[s.job].rev)
<1> SUFFICES ASSUME s # NoSnapshot PROVE s \in Snapshot /\ s.rev <= stored'[s.job].rev
  OBVIOUS
<1>1. s \in Snapshot /\ s.job \in Jobs /\ s.rev \in Revision /\ s.rev <= stored[s.job].rev
  BY DEF KnownOrNone, Known, Snapshot
<1>2. stored[s.job].rev \in Int /\ stored'[s.job].rev \in Int
  BY <1>1 DEF TypeOK, EventsTypeOK, Grows, Record, Revision
<1> QED BY <1>1, <1>2 DEF Grows, Revision

----------------------------------------------------------------------------
(* Server steps *)

LEMMA PublishInv ==
  ASSUME ViewInv, NEW j \in Jobs, NEW r \in Revision, Publish(j, r),
         UNCHANGED <<viewVars, cmd, faults>>
  PROVE  ViewInv'
<1> USE DEF ViewInv, Publish, viewVars
<1>1. TypeOK'
  BY EventsAssumption DEF TypeOK, EventsTypeOK, Revision
<1>2. SnapshotsKnown' /\ CommandsSound' /\ ConnectionSound' /\ HookSound'
  BY DEF SnapshotsKnown, KnownOrNone, Known, CommandsSound, ConnectionSound, HookSound,
         Exists, Subscribed, SubscribedTo
<1>3. NoLostWakeup'
  BY DEF HandlerSound, NoLostWakeup, ConnectionSound, TypeOK, EventsTypeOK, Revision, Socket
<1>4. SentInOrder'
  BY DEF HandlerSound, SentInOrder
<1> QED BY <1>1, <1>2, <1>3, <1>4 DEF HandlerSound

LEMMA WriteInv ==
  ASSUME ViewInv, NEW j \in Jobs, Write(j), UNCHANGED <<viewVars, cmd, faults>>
  PROVE  ViewInv'
<1> USE DEF ViewInv, viewVars
<1>1. PICK open \in BOOLEAN :
        /\ stored' = [stored EXCEPT ![j] = [rev |-> @.rev + 1, open |-> open]]
        /\ unpublished' = unpublished \cup {<<j, stored[j].rev + 1>>}
  BY DEF Write
<1>2. stored[j].rev + 1 \in Revision /\ UNCHANGED <<hint, socket, inbox>>
  BY EventsAssumption DEF Write, Exists, TypeOK, EventsTypeOK, Record, Revision
<1>3. TypeOK' /\ Grows
  <2>1. stored \in [Jobs -> Record] /\ stored[j].rev \in Int /\ stored[j].rev + 1 >= 0
    BY DEF Write, Exists, TypeOK, EventsTypeOK, Record, Revision
  <2>2. [rev |-> stored[j].rev + 1, open |-> open] \in Record
    BY <1>2, <2>1 DEF Record
  <2>3. stored' \in [Jobs -> Record]
    BY <1>1, <2>1, <2>2
  <2>4. \A i \in Jobs : stored[i].rev \in Int
    BY <2>1 DEF Record, Revision
  <2>5. Grows
    BY <1>1, <2>1, <2>3, <2>4 DEF Grows
  <2> QED BY <2>3, <2>5, <1>1, <1>2 DEF TypeOK, EventsTypeOK
<1>4. SnapshotsKnown'
  <2>1. ASSUME NEW s, KnownOrNone(s)
        PROVE  s = NoSnapshot \/ (s \in Snapshot /\ s.rev <= stored'[s.job].rev)
    BY <2>1, <1>3, StaysKnown
  <2>2. \A i \in 1 .. Len(inbox) : Known(inbox[i])'
    BY <1>2, <2>1, ViewAssumption DEF SnapshotsKnown, Known, KnownOrNone
  <2> QED BY <1>2, <2>1, <2>2 DEF SnapshotsKnown, Known, KnownOrNone
<1>5. CommandsSound' /\ ConnectionSound'
  <2>1. \A i \in Jobs : stored[i].rev \in Int /\ stored'[i].rev \in Int /\ stored'[i].rev >= stored[i].rev
    BY <1>3 DEF Grows, TypeOK, EventsTypeOK, Record, Revision
  <2>2. CommandsSound'
    BY <2>1 DEF CommandsSound, Exists
  <2>3. socket.pc # "closed" => socket.job \in Jobs
    BY DEF TypeOK, EventsTypeOK, Socket
  <2>4. socket.last \in Int
    BY DEF TypeOK, EventsTypeOK, Socket, Revision
  <2>5. ConnectionSound'
    BY <1>2, <2>1, <2>3, <2>4 DEF ConnectionSound, Subscribed, SubscribedTo
  <2> QED BY <2>2, <2>5
<1>6. HookSound'
  BY <1>2 DEF HookSound, Subscribed, SubscribedTo
<1>7. NoLostWakeup'
  <2> SUFFICES ASSUME socket.pc = "wait", stored'[socket.job].rev > socket.last
               PROVE  \/ hint[socket.job] > socket.last
                      \/ \E r \in Revision : r > socket.last /\ <<socket.job, r>> \in unpublished'
    BY <1>2 DEF NoLostWakeup
  <2>1. CASE socket.job = j
    <3>1. stored[j].rev + 1 > socket.last
      BY <2>1 DEF ConnectionSound, TypeOK, EventsTypeOK, Socket, Record, Revision
    <3> QED BY <2>1, <3>1, <1>1, <1>2
  <2>2. CASE socket.job # j
    <3>1. socket.job \in Jobs
      BY DEF TypeOK, EventsTypeOK, Socket
    <3>2. stored'[socket.job] = stored[socket.job]
      BY <2>2, <3>1, <1>1 DEF TypeOK, EventsTypeOK
    <3> QED BY <3>2, <1>1 DEF NoLostWakeup, HandlerSound
  <2> QED BY <2>1, <2>2
<1>8. SentInOrder'
  BY <1>2 DEF HandlerSound, SentInOrder
<1> QED BY <1>3, <1>4, <1>5, <1>6, <1>7, <1>8 DEF HandlerSound

\* A snapshot of the stored record is put at the end of the inbox.
LEMMA Sent ==
  ASSUME TypeOK, SnapshotsKnown, socket.job \in Jobs, Exists(socket.job), Send
  PROVE  /\ inbox' \in Seq(Snapshot)
         /\ Len(inbox') = Len(inbox) + 1
         /\ \A i \in 1 .. Len(inbox) : inbox'[i] = inbox[i]
         /\ inbox'[Len(inbox')] = SnapshotOf(socket.job)
         /\ \A i \in 1 .. Len(inbox') : Known(inbox'[i])
<1>1. Known(SnapshotOf(socket.job)) /\ SnapshotOf(socket.job) \in Snapshot
  BY Loaded DEF Known
<1>2. inbox \in Seq(Snapshot)
  BY DEF TypeOK, EventsTypeOK
<1>3. /\ inbox' \in Seq(Snapshot)
      /\ Len(inbox') = Len(inbox) + 1
      /\ \A i \in 1 .. Len(inbox) : inbox'[i] = inbox[i]
      /\ inbox'[Len(inbox')] = SnapshotOf(socket.job)
  BY <1>1, <1>2, AppendProperties DEF Send
<1> QED BY <1>1, <1>2, <1>3, LenProperties DEF SnapshotsKnown

LEMMA SendFirstInv ==
  ASSUME ViewInv, SendFirst, UNCHANGED <<viewVars, cmd, faults>>
  PROVE  ViewInv'
<1> USE DEF ViewInv, viewVars, SendFirst
<1> DEFINE j == socket.job
<1>1. j \in Jobs /\ Exists(j) /\ j = Subscribed
  BY Subscription DEF ConnectionSound, SnapshotsKnown, TypeOK, EventsTypeOK, Socket
<1>2. /\ inbox' \in Seq(Snapshot) /\ Len(inbox') = 1
      /\ inbox'[1] = SnapshotOf(j) /\ Known(inbox'[1])
  <2>1. inbox = <<>> /\ Len(inbox) = 0
    BY DEF ConnectionSound
  <2>2. /\ inbox' \in Seq(Snapshot) /\ Len(inbox') = Len(inbox) + 1
        /\ inbox'[Len(inbox')] = SnapshotOf(j)
        /\ \A i \in 1 .. Len(inbox') : Known(inbox'[i])
    BY <1>1, Sent
  <2> QED BY <2>1, <2>2
<1>3. stored[j].rev \in Revision /\ stored[j].rev \in Nat
  BY <1>1 DEF Exists, TypeOK, EventsTypeOK, Record, Revision
<1>4. TypeOK'
  BY <1>2, <1>3 DEF TypeOK, EventsTypeOK, Socket
<1>5. SnapshotsKnown' /\ CommandsSound'
  BY <1>2 DEF SnapshotsKnown, KnownOrNone, Known, CommandsSound, Exists
<1>6. ConnectionSound'
  BY <1>3 DEF ConnectionSound, Subscribed, SubscribedTo, TypeOK, EventsTypeOK, Socket
<1>7. NoLostWakeup' /\ SentInOrder'
  BY <1>2, <1>3, <1>1, Loaded DEF NoLostWakeup, SentInOrder, TypeOK, EventsTypeOK, Socket
<1>8. HookSound'
  BY <1>1, <1>2, Loaded DEF HookSound, Subscribed, SubscribedTo, SnapshotsKnown, KnownOrNone, Known
<1> QED BY <1>4, <1>5, <1>6, <1>7, <1>8 DEF HandlerSound

LEMMA SendChangeInv ==
  ASSUME ViewInv, SendChange, UNCHANGED <<viewVars, cmd, faults>>
  PROVE  ViewInv'
<1> USE DEF ViewInv, viewVars
<1> DEFINE j == socket.job
<1>1. j \in Jobs /\ Exists(j) /\ j = Subscribed
  BY Subscription DEF SendChange, ConnectionSound, SnapshotsKnown, TypeOK, EventsTypeOK, Socket
<1>2. CASE UNCHANGED <<serverVars, viewVars, cmd, faults>>
  BY <1>2 DEF serverVars, TypeOK, EventsTypeOK, SnapshotsKnown, KnownOrNone, Known, CommandsSound,
      ConnectionSound, HandlerSound, NoLostWakeup, SentInOrder, HookSound, Exists,
      Subscribed, SubscribedTo
<1>3. CASE /\ stored[j].rev > socket.last
           /\ Send
           /\ socket' = [socket EXCEPT !.last = stored[j].rev]
  <2> USE <1>3 DEF SendChange
  <2>1. /\ inbox' \in Seq(Snapshot) /\ Len(inbox') = Len(inbox) + 1
        /\ \A i \in 1 .. Len(inbox) : inbox'[i] = inbox[i]
        /\ inbox'[Len(inbox')] = SnapshotOf(j)
        /\ \A i \in 1 .. Len(inbox') : Known(inbox'[i])
    BY <1>1, Sent
  <2>2. Len(inbox) \in Nat /\ inbox \in Seq(Snapshot)
    BY DEF TypeOK, EventsTypeOK
  <2>3. stored[j].rev \in Revision /\ stored[j].rev \in Nat /\ socket.last \in Int
    BY <1>1 DEF Exists, TypeOK, EventsTypeOK, Record, Revision, Socket
  <2>4. TypeOK'
    BY <2>1, <2>3 DEF TypeOK, EventsTypeOK, Socket
  <2>5. SnapshotsKnown' /\ CommandsSound'
    BY <2>1 DEF SnapshotsKnown, KnownOrNone, Known, CommandsSound, Exists
  <2>6. ConnectionSound'
    BY <2>3 DEF ConnectionSound, Subscribed, SubscribedTo, TypeOK, EventsTypeOK, Socket
  <2>7. NoLostWakeup'
    BY <2>3 DEF NoLostWakeup, TypeOK, EventsTypeOK, Socket
  <2>8. SentInOrder'
    <3>1. SnapshotOf(j).job = j /\ SnapshotOf(j).rev = stored[j].rev
      BY <1>1, Loaded
    <3>2. /\ socket'.job = j /\ socket'.last = stored[j].rev
      BY DEF TypeOK, EventsTypeOK, Socket
    <3>3. ASSUME NEW i \in 1 .. Len(inbox)
          PROVE  inbox[i].job = j /\ inbox[i].rev <= socket.last /\ inbox[i].rev \in Int
      BY DEF HandlerSound, SentInOrder, SnapshotsKnown, Known, Snapshot, Revision
    <3>4. ASSUME NEW i \in 1 .. Len(inbox')
          PROVE  inbox'[i].job = j /\ inbox'[i].rev <= stored[j].rev
      BY <2>1, <2>2, <2>3, <3>1, <3>3
    <3>5. ASSUME NEW i \in 2 .. Len(inbox')
          PROVE  inbox'[i - 1].rev < inbox'[i].rev
      <4>1. CASE i \in 2 .. Len(inbox)
        BY <4>1, <2>1, <2>2 DEF HandlerSound, SentInOrder
      <4>2. CASE i = Len(inbox')
        BY <4>2, <2>1, <2>2, <2>3, <3>1, <3>3
      <4> QED BY <4>1, <4>2, <2>1, <2>2
    <3> QED BY <3>2, <3>4, <3>5 DEF SentInOrder
  <2>9. HookSound'
    <3>1. ASSUME live # NoSnapshot, live.job = Subscribed
          PROVE  SnapshotOf(j).rev >= live.rev
      BY <3>1, <1>1, Loaded DEF SnapshotsKnown, KnownOrNone, Known
    <3>2. \A i \in 1 .. Len(inbox') : inbox'[i] = SnapshotOf(j) \/ \E k \in 1 .. Len(inbox) : inbox'[i] = inbox[k]
      BY <2>1, <2>2
    <3> QED BY <3>1, <3>2 DEF HookSound, Subscribed, SubscribedTo
  <2> QED BY <2>4, <2>5, <2>6, <2>7, <2>8, <2>9 DEF HandlerSound
<1> QED BY <1>2, <1>3 DEF SendChange, serverVars

----------------------------------------------------------------------------
(* Broken connections and restarts *)

LEMMA Cut ==
  ASSUME TypeOK, NEW n \in 0 .. Len(inbox), inbox' = SubSeq(inbox, 1, n)
  PROVE  /\ inbox' \in Seq(Snapshot)
         /\ Len(inbox') = n
         /\ \A i \in 1 .. n : inbox'[i] = inbox[i]
<1>1. inbox \in Seq(Snapshot) /\ Len(inbox) \in Nat
  BY DEF TypeOK, EventsTypeOK
<1> QED BY <1>1, SubSeqProperties

LEMMA BreakInv ==
  ASSUME ViewInv, ConnectionBreaks
  PROVE  ViewInv'
<1> USE DEF ViewInv, viewVars, ConnectionBreaks, Break
<1>1. PICK n \in 0 .. Len(inbox) : inbox' = SubSeq(inbox, 1, n)
  OBVIOUS
<1>2. /\ inbox' \in Seq(Snapshot) /\ Len(inbox') = n
      /\ \A i \in 1 .. n : inbox'[i] = inbox[i]
      /\ n \in Nat /\ Len(inbox) \in Nat /\ n <= Len(inbox)
  BY <1>1, Cut DEF TypeOK, EventsTypeOK
<1>3. socket' \in Socket /\ socket'.pc = "broken" /\ socket'.job = socket.job
      /\ socket'.last = socket.last
  BY DEF TypeOK, EventsTypeOK, Socket
<1>4. faults' \in 0 .. MaxFaults
  BY ViewAssumption DEF TypeOK, Fault
<1>5. TypeOK'
  BY <1>2, <1>3, <1>4 DEF TypeOK, EventsTypeOK
<1>6. SnapshotsKnown' /\ CommandsSound'
  BY <1>2 DEF SnapshotsKnown, KnownOrNone, Known, CommandsSound, Exists
<1>7. ConnectionSound'
  BY DEF ConnectionSound, Subscribed, SubscribedTo, TypeOK, EventsTypeOK, Socket
<1>8. NoLostWakeup' /\ SentInOrder'
  <2>1. NoLostWakeup'
    BY <1>3 DEF NoLostWakeup
  <2>2. SentInOrder'
    BY <1>2, <1>3 DEF HandlerSound, SentInOrder
  <2> QED BY <2>1, <2>2
<1>9. HookSound'
  BY <1>2 DEF HookSound, Subscribed, SubscribedTo
<1> QED BY <1>5, <1>6, <1>7, <1>8, <1>9 DEF HandlerSound

LEMMA RestartInv ==
  ASSUME ViewInv, ServerRestarts
  PROVE  ViewInv'
<1> USE DEF ViewInv, ServerRestarts, Restart
<1>1. PICK n \in 0 .. Len(inbox) : inbox' = SubSeq(inbox, 1, n)
  OBVIOUS
<1>2. /\ inbox' \in Seq(Snapshot) /\ Len(inbox') = n
      /\ \A i \in 1 .. n : inbox'[i] = inbox[i]
      /\ n \in Nat /\ Len(inbox) \in Nat /\ n <= Len(inbox)
  BY <1>1, Cut DEF TypeOK, EventsTypeOK
<1>3. PICK interrupted \in SUBSET {j \in Jobs : Open(j) /\ stored[j].rev < MaxRevision} :
        stored' = [j \in Jobs |-> IF j \in interrupted
                                  THEN [rev |-> stored[j].rev + 1, open |-> FALSE]
                                  ELSE stored[j]]
  OBVIOUS
<1>4. Grows
  <2>1. ASSUME NEW j \in Jobs
        PROVE  stored'[j] \in Record /\ stored'[j].rev >= stored[j].rev
    BY <1>3, EventsAssumption DEF TypeOK, EventsTypeOK, Record, Revision
  <2> QED BY <2>1, <1>3 DEF Grows
<1>5. get' \in Get /\ get'.snap = get.snap /\ (get'.st = "answered" <=> get.st = "answered")
  BY DEF TypeOK, Get
<1>6. ASSUME NEW c \in Commands
      PROVE  /\ cmd'[c] \in Command
             /\ cmd'[c].pc # "sent"
             /\ cmd'[c] = cmd[c] \/ cmd'[c] = Done
  BY DEF TypeOK, Command, Done, IdleCommand, MaybeSnapshot
<1>7. socket' \in Socket /\ socket'.pc \in {"closed", "broken"} /\ socket'.job = socket.job
      /\ socket'.last = socket.last /\ (socket'.pc = "closed" <=> socket.pc = "closed")
  BY DEF TypeOK, EventsTypeOK, Socket
<1>8. TypeOK'
  <2>1. hint' \in [Jobs -> Revision \cup {-1}] /\ unpublished' \in SUBSET (Jobs \X Revision)
    OBVIOUS
  <2>2. cmd' \in [Commands -> Command]
    BY <1>6
  <2> QED BY <2>1, <2>2, <1>2, <1>4, <1>5, <1>7, ViewAssumption
      DEF TypeOK, EventsTypeOK, Grows, Fault
<1>9. SnapshotsKnown'
  <2>1. ASSUME NEW s, KnownOrNone(s)
        PROVE  s = NoSnapshot \/ (s \in Snapshot /\ s.rev <= stored'[s.job].rev)
    BY <2>1, <1>4, StaysKnown
  <2>2. ASSUME NEW i \in 1 .. Len(inbox')
        PROVE  inbox'[i] \in Snapshot /\ inbox'[i].rev <= stored'[inbox'[i].job].rev
    <3>1. Known(inbox[i]) /\ inbox'[i] = inbox[i] /\ inbox[i] # NoSnapshot
      BY <1>2, ViewAssumption DEF SnapshotsKnown, Known
    <3> QED BY <3>1, <2>1 DEF KnownOrNone
  <2>3. KnownOrNone(current)' /\ KnownOrNone(live)' /\ KnownOrNone(get.snap)'
    BY <1>5, <2>1 DEF SnapshotsKnown, Known, KnownOrNone
  <2>4. Done.answer = NoSnapshot
    BY DEF Done, IdleCommand
  <2>5. ASSUME NEW c \in Commands
        PROVE  KnownOrNone(cmd[c].answer)'
    BY <1>6, <2>1, <2>4 DEF SnapshotsKnown, Known, KnownOrNone
  <2> QED BY <2>2, <2>3, <2>5 DEF SnapshotsKnown, Known
<1>10. CommandsSound'
  BY <1>6 DEF CommandsSound, Done, IdleCommand
<1>11. ConnectionSound'
  <2>1. Subscribed = NoJob => get = NoGet /\ get' = get
    BY DEF ConnectionSound, NoGet
  <2>2. socket'.pc = "closed" => inbox' = <<>>
    BY <1>2, <1>7, EmptySeq DEF ConnectionSound
  <2> QED BY <1>7, <2>1, <2>2 DEF ConnectionSound, Subscribed, SubscribedTo
<1>12. NoLostWakeup' /\ SentInOrder'
  BY <1>2, <1>7 DEF HandlerSound, NoLostWakeup, SentInOrder
<1>13. HookSound'
  BY <1>2, <1>5 DEF HookSound, Subscribed, SubscribedTo
<1> QED BY <1>8, <1>9, <1>10, <1>11, <1>12, <1>13 DEF HandlerSound

----------------------------------------------------------------------------
(* What the hook is built from *)

\* What a step that leaves the server alone keeps.
LEMMA UnsubscribeInv ==
  ASSUME ViewInv, Unsubscribe, ServerOnly,
         current' \in MaybeSnapshot, KnownOrNone(current'), SubscribedTo(current') = NoJob,
         cmd' \in [Commands -> Command], \A c \in Commands : KnownOrNone(cmd'[c].answer),
         CommandsSound', faults' \in 0 .. MaxFaults
  PROVE  ViewInv'
<1> USE DEF ViewInv, Unsubscribe, ServerOnly
<1>1. TypeOK'
  BY DEF TypeOK, EventsTypeOK, Socket, ClosedSocket, Get, NoGet, Link, MaybeSnapshot, Revision
<1>2. SnapshotsKnown'
  BY DEF SnapshotsKnown, KnownOrNone, Known, NoGet
<1>3. ConnectionSound'
  BY DEF ConnectionSound, Subscribed, SubscribedTo, ClosedSocket
<1>4. NoLostWakeup' /\ SentInOrder'
  BY DEF NoLostWakeup, SentInOrder, ClosedSocket
<1>5. HookSound'
  BY DEF HookSound, NoGet
<1> QED BY <1>1, <1>2, <1>3, <1>4, <1>5 DEF HandlerSound

LEMMA ReconnectInv ==
  ASSUME ViewInv, Subscribed # NoJob, Reconnect, ServerOnly, UNCHANGED <<cmd, faults>>
  PROVE  ViewInv'
<1> USE DEF ViewInv, Reconnect, ServerOnly
<1>1. TypeOK'
  BY DEF TypeOK, EventsTypeOK, Socket, ClosedSocket, Get, AskedGet, Link, MaybeSnapshot, Revision
<1>2. SnapshotsKnown' /\ CommandsSound'
  BY DEF SnapshotsKnown, KnownOrNone, Known, AskedGet, CommandsSound, Exists
<1>3. ConnectionSound'
  BY DEF ConnectionSound, Subscribed, SubscribedTo, ClosedSocket
<1>4. NoLostWakeup' /\ SentInOrder'
  BY DEF NoLostWakeup, SentInOrder, ClosedSocket
<1>5. HookSound'
  BY DEF HookSound, AskedGet, Subscribed, SubscribedTo
<1> QED BY <1>1, <1>2, <1>3, <1>4, <1>5 DEF HandlerSound
\* A connection to the job that is current, with nothing on its way yet.
LEMMA ConnectInv ==
  ASSUME ViewInv, ServerOnly, UNCHANGED faults,
         current' \in MaybeSnapshot, KnownOrNone(current'), SubscribedTo(current') # NoJob,
         Connect(SubscribedTo(current')),
         UNCHANGED live,
         \/ latest' = -1 /\ get' = NoGet
         \/ UNCHANGED <<current, latest, get>>,
         cmd' \in [Commands -> Command], \A c \in Commands : KnownOrNone(cmd'[c].answer),
         CommandsSound'
  PROVE  ViewInv'
<1> USE DEF ViewInv, ServerOnly
<1> DEFINE j == SubscribedTo(current')
<1>1. j \in Jobs
  BY DEF SubscribedTo, KnownOrNone, Known, Snapshot
<1>2. socket' = NewSocket(j) /\ inbox' = <<>> /\ link' = "up" /\ Subscribed' = j
  BY DEF Connect, Subscribed
<1>3. get' \in Get /\ (get' = NoGet \/ get' = get) /\ latest' \in Revision \cup {-1}
  BY DEF TypeOK, Get, NoGet, MaybeSnapshot
<1>4. socket' \in Socket /\ socket'.pc = "load" /\ socket'.job = j
  BY <1>1, <1>2, EventsAssumption DEF Socket, NewSocket, Revision
<1>5. TypeOK'
  BY <1>2, <1>3, <1>4 DEF TypeOK, EventsTypeOK, Link
<1>6. SnapshotsKnown'
  BY <1>2, <1>3 DEF SnapshotsKnown, KnownOrNone, Known, NoGet
<1>7. ConnectionSound'
  BY <1>2, <1>4 DEF ConnectionSound
<1>8. NoLostWakeup' /\ SentInOrder'
  BY <1>2, <1>4 DEF NoLostWakeup, SentInOrder
<1>9. HookSound'
  BY <1>2 DEF HookSound, NoGet, Subscribed
<1> QED BY <1>5, <1>6, <1>7, <1>8, <1>9 DEF HandlerSound

\* The wizard's job becomes a known one.
LEMMA FollowInv ==
  ASSUME ViewInv, ServerOnly, UNCHANGED faults, NEW c, Known(c), Follow(c),
         cmd' \in [Commands -> Command], \A d \in Commands : KnownOrNone(cmd'[d].answer),
         CommandsSound'
  PROVE  ViewInv'
<1> USE DEF ViewInv
<1>1. current' = c /\ current' \in MaybeSnapshot /\ KnownOrNone(current')
  BY DEF Follow, Known, KnownOrNone, MaybeSnapshot
<1>2. CASE SubscribedTo(c) = Subscribed
  <2>1. UNCHANGED <<live, latest, link, get, socket, inbox>>
    BY <1>2 DEF Follow
  <2>2. Subscribed' = Subscribed
    BY <1>1, <1>2 DEF Subscribed
  <2> USE <2>1 DEF ServerOnly
  <2>3. TypeOK'
    BY <1>1 DEF TypeOK, EventsTypeOK
  <2>4. SnapshotsKnown'
    BY <1>1 DEF SnapshotsKnown, KnownOrNone, Known
  <2>5. ConnectionSound'
    BY <2>2 DEF ConnectionSound
  <2>6. NoLostWakeup' /\ SentInOrder'
    BY DEF HandlerSound, NoLostWakeup, SentInOrder
  <2>7. HookSound'
    BY <2>2 DEF HookSound
  <2> QED BY <2>3, <2>4, <2>5, <2>6, <2>7 DEF HandlerSound
<1>3. CASE SubscribedTo(c) = NoJob /\ Subscribed # NoJob
  <2>1. Unsubscribe
    BY <1>3 DEF Follow
  <2>2. faults' \in 0 .. MaxFaults
    BY DEF TypeOK
  <2> QED BY <1>1, <1>3, <2>1, <2>2, UnsubscribeInv
<1>4. CASE SubscribedTo(c) # Subscribed /\ SubscribedTo(c) # NoJob
  <2>1. Connect(SubscribedTo(current')) /\ latest' = -1 /\ get' = NoGet /\ UNCHANGED live
    BY <1>1, <1>4 DEF Follow
  <2> QED BY <1>1, <1>4, <2>1, ConnectInv
<1> QED BY <1>2, <1>3, <1>4

\* What is shown of a known snapshot of the subscription.
LEMMA ShownCurrent ==
  ASSUME ViewInv, Subscribed # NoJob, NEW s, Known(s), s.job = Subscribed,
         NEW c, c = IF Merge(s, current, Subscribed) = s THEN s ELSE current
  PROVE  /\ Known(c) /\ c \in MaybeSnapshot /\ c # NoSnapshot /\ s # NoSnapshot
         /\ SubscribedTo(c) \in {NoJob, Subscribed}
<1>1. Known(current) /\ current.job = Subscribed
  BY Subscription DEF ViewInv, SnapshotsKnown
<1>2. Known(c) /\ c.job = Subscribed
  BY <1>1
<1> QED BY <1>2, ViewAssumption DEF Known, MaybeSnapshot, SubscribedTo
\* A hook that has taken s over and goes on.
LEMMA ShownInv ==
  ASSUME ViewInv, Subscribed # NoJob, NEW s, Known(s), s.job = Subscribed,
         ServerOnly, UNCHANGED <<cmd, faults, socket>>,
         KnownOrNone(current'), current' \in MaybeSnapshot, SubscribedTo(current') = Subscribed,
         live' = s, latest' = s.rev,
         inbox' = inbox \/ (inbox # <<>> /\ inbox' = Tail(inbox)),
         link' = link \/ (link = "refreshing" /\ link' = "timer"),
         get' = get \/ get' = NoGet
  PROVE  ViewInv'
<1> USE DEF ViewInv, ServerOnly
<1>1. inbox \in Seq(Snapshot) /\ Len(inbox) \in Nat
  BY DEF TypeOK, EventsTypeOK
<1>2. /\ inbox' \in Seq(Snapshot)
      /\ \/ UNCHANGED inbox
         \/ /\ Len(inbox') = Len(inbox) - 1
            /\ \A i \in 1 .. Len(inbox') : inbox'[i] = inbox[i + 1]
  BY <1>1, HeadTailProperties
<1>3. /\ s \in Snapshot /\ s.rev \in Revision /\ s.job \in Jobs
      /\ get' \in Get /\ link' \in Link
  BY DEF Known, Snapshot, TypeOK, Get, NoGet, MaybeSnapshot, Link
<1>4. TypeOK'
  BY <1>2, <1>3 DEF TypeOK, EventsTypeOK, MaybeSnapshot
<1>5. \A i \in 1 .. Len(inbox') : Known(inbox'[i])
  BY <1>1, <1>2 DEF SnapshotsKnown
<1>6. SnapshotsKnown' /\ CommandsSound'
  BY <1>5 DEF SnapshotsKnown, KnownOrNone, Known, NoGet, CommandsSound, Exists
<1>7. Subscribed' = Subscribed
  BY DEF Subscribed
<1>8. ConnectionSound'
  BY <1>7 DEF ConnectionSound
<1>9. NoLostWakeup'
  BY DEF HandlerSound, NoLostWakeup
<1>10. SentInOrder'
  <2>1. CASE UNCHANGED inbox
    BY <2>1 DEF HandlerSound, SentInOrder
  <2>2. CASE /\ Len(inbox') = Len(inbox) - 1
             /\ \A i \in 1 .. Len(inbox') : inbox'[i] = inbox[i + 1]
    <3>1. ASSUME NEW i \in 1 .. Len(inbox')
          PROVE  inbox'[i].job = socket.job /\ inbox'[i].rev <= socket.last
      <4>1. inbox'[i] = inbox[i + 1] /\ i + 1 \in 1 .. Len(inbox)
        BY <2>2, <1>1
      <4> QED BY <4>1 DEF HandlerSound, SentInOrder
    <3>2. ASSUME NEW i \in 2 .. Len(inbox')
          PROVE  inbox'[i - 1].rev < inbox'[i].rev
      <4>1. inbox'[i - 1] = inbox[i] /\ inbox'[i] = inbox[i + 1]
        BY <2>2, <1>1
      <4> QED BY <4>1, <2>2, <1>1 DEF HandlerSound, SentInOrder
    <3> QED BY <3>1, <3>2 DEF SentInOrder
  <2> QED BY <1>2, <2>1, <2>2
<1>11. HookSound'
  BY <1>7, <1>3 DEF HookSound, NoGet, Subscribed
<1> QED BY <1>4, <1>6, <1>8, <1>9, <1>10, <1>11 DEF HandlerSound

----------------------------------------------------------------------------
(* Steps of the hook *)

LEMMA ReceiveInv ==
  ASSUME ViewInv, Receive
  PROVE  ViewInv'
<1> DEFINE s == Head(inbox)
<1>1. /\ inbox # <<>> /\ inbox \in Seq(Snapshot) /\ Len(inbox) \in Nat /\ Len(inbox) >= 1
      /\ s = inbox[1]
  BY EmptySeq DEF Receive, ViewInv, TypeOK, EventsTypeOK
<1>2. Subscribed # NoJob
  BY DEF Receive, ViewInv, ConnectionSound
<1>3. Known(s) /\ s.job = Subscribed /\ s.rev \in Revision
  <2>1. socket.pc # "closed"
    BY DEF Receive, ViewInv, ConnectionSound
  <2> QED BY <1>1, <2>1 DEF ViewInv, SnapshotsKnown, ConnectionSound, HandlerSound, SentInOrder,
                     Known, Snapshot
<1>4. CASE latest >= 0 /\ s.rev <= latest
  <2>1. inbox' = Tail(inbox) /\ UNCHANGED <<viewVars, socket, cmd, faults>> /\ ServerOnly
    BY <1>4, <1>3 DEF Receive, ViewInv, TypeOK, Revision
  <2>2. /\ inbox' \in Seq(Snapshot) /\ Len(inbox') = Len(inbox) - 1
        /\ \A i \in 1 .. Len(inbox') : inbox'[i] = inbox[i + 1]
    BY <1>1, <2>1, HeadTailProperties
  <2> USE <2>1 DEF ViewInv, ServerOnly, viewVars
  <2>3. TypeOK'
    BY <2>2 DEF TypeOK, EventsTypeOK
  <2>4. SnapshotsKnown' /\ CommandsSound'
    BY <1>1, <2>2 DEF SnapshotsKnown, KnownOrNone, Known, CommandsSound, Exists
  <2>5. ConnectionSound'
    BY <1>1 DEF ConnectionSound, Subscribed, SubscribedTo
  <2>6. NoLostWakeup'
    BY DEF HandlerSound, NoLostWakeup
  <2>7. SentInOrder'
    BY <1>1, <2>2 DEF HandlerSound, SentInOrder
  <2>8. HookSound'
    BY <1>1, <2>2 DEF HookSound, Subscribed, SubscribedTo
  <2> QED BY <2>3, <2>4, <2>5, <2>6, <2>7, <2>8 DEF HandlerSound
<1>5. CASE latest >= 0 /\ s.rev > latest + 1
  <2>1. Reconnect /\ ServerOnly /\ UNCHANGED <<cmd, faults>>
    BY <1>5, <1>3 DEF Receive, ViewInv, TypeOK, Revision
  <2> QED BY <2>1, <1>2, ReconnectInv
<1>6. CASE ~(latest >= 0 /\ s.rev <= latest) /\ ~(latest >= 0 /\ s.rev > latest + 1)
  <2> DEFINE c == IF Merge(s, current, Subscribed) = s THEN s ELSE current
  <2>1. /\ Show(s, inbox' = Tail(inbox) /\ UNCHANGED <<socket, link, get>>)
        /\ ServerOnly /\ UNCHANGED <<cmd, faults>>
    BY <1>6 DEF Receive
  <2>2. Known(c) /\ c \in MaybeSnapshot /\ SubscribedTo(c) \in {NoJob, Subscribed}
    BY <1>2, <1>3, ShownCurrent
  <2>3. current' = c
    BY <2>1 DEF Show
  <2>4. CASE SubscribedTo(c) = NoJob
    <3>1. Unsubscribe
      BY <2>1, <2>4 DEF Show
    <3>2. /\ cmd' \in [Commands -> Command] /\ \A d \in Commands : KnownOrNone(cmd'[d].answer)
          /\ CommandsSound' /\ faults' \in 0 .. MaxFaults
      BY <2>1 DEF ViewInv, TypeOK, SnapshotsKnown, CommandsSound, Exists, ServerOnly
    <3> QED BY <2>1, <2>2, <2>3, <2>4, <3>1, <3>2, UnsubscribeInv DEF KnownOrNone
  <2>5. CASE SubscribedTo(c) = Subscribed
    <3>1. /\ live' = s /\ latest' = s.rev /\ inbox' = Tail(inbox)
          /\ UNCHANGED <<socket, link, get>>
      BY <1>2, <2>1, <2>5 DEF Show
    <3> HIDE DEF s, c
    <3> QED BY <1>1, <1>2, <1>3, <2>1, <2>2, <2>3, <2>5, <3>1, ShownInv DEF KnownOrNone
  <2> QED BY <2>2, <2>4, <2>5
<1> QED BY <1>4, <1>5, <1>6
LEMMA SeeBrokenInv ==
  ASSUME ViewInv, SeeBroken
  PROVE  ViewInv'
BY ReconnectInv DEF SeeBroken, ViewInv, ConnectionSound

LEMMA TimerFiresInv ==
  ASSUME ViewInv, TimerFires
  PROVE  ViewInv'
<1>1. SubscribedTo(current') = Subscribed /\ Subscribed # NoJob
  BY DEF TimerFires, ViewInv, ConnectionSound, Subscribed
<1>2. /\ cmd' \in [Commands -> Command] /\ \A d \in Commands : KnownOrNone(cmd'[d].answer)
      /\ CommandsSound' /\ current' \in MaybeSnapshot /\ KnownOrNone(current')
  BY DEF TimerFires, ViewInv, TypeOK, SnapshotsKnown, CommandsSound, Exists, ServerOnly
<1> QED BY <1>1, <1>2, ConnectInv DEF TimerFires

----------------------------------------------------------------------------
(* Steps of the refresh *)

\* A step that changes no more than the refresh and what waits for it.
LEMMA GetInv ==
  ASSUME ViewInv, UNCHANGED <<serverVars, current, live, latest, cmd>>,
         faults' \in 0 .. MaxFaults,
         link' = link \/ (link = "refreshing" /\ link' = "timer"),
         Subscribed = NoJob => get' = NoGet,
         \/ get' \in {NoGet, AskedGet}
         \/ /\ Subscribed # NoJob
            /\ get' = [st |-> "answered", snap |-> SnapshotOf(Subscribed)]
  PROVE  ViewInv'
<1> USE DEF ViewInv, serverVars
<1>1. Subscribed' = Subscribed
  BY DEF Subscribed
<1>2. /\ get' \in Get /\ KnownOrNone(get'.snap)
      /\ get'.st = "answered" => get'.snap # NoSnapshot
      /\ get'.snap # NoSnapshot =>
           /\ get'.snap.job = Subscribed
           /\ live # NoSnapshot /\ live.job = Subscribed => get'.snap.rev >= live.rev
  <2>1. CASE get' \in {NoGet, AskedGet}
    BY <2>1 DEF Get, NoGet, AskedGet, MaybeSnapshot, KnownOrNone
  <2>2. CASE Subscribed # NoJob /\ get' = [st |-> "answered", snap |-> SnapshotOf(Subscribed)]
    <3>1. Subscribed \in Jobs /\ Exists(Subscribed)
      BY <2>2, Subscription DEF SnapshotsKnown
    <3>2. /\ Known(SnapshotOf(Subscribed)) /\ SnapshotOf(Subscribed).job = Subscribed
          /\ SnapshotOf(Subscribed).rev = stored[Subscribed].rev
          /\ SnapshotOf(Subscribed) # NoSnapshot
      BY <3>1, Loaded
    <3>3. live # NoSnapshot /\ live.job = Subscribed => stored[Subscribed].rev >= live.rev
      BY <3>1 DEF SnapshotsKnown, KnownOrNone, Known, Snapshot, TypeOK, EventsTypeOK, Record, Revision
    <3> QED BY <2>2, <3>2, <3>3 DEF Get, MaybeSnapshot, KnownOrNone, Known
  <2> QED BY <2>1, <2>2
<1>3. TypeOK'
  BY <1>2 DEF TypeOK, EventsTypeOK, Link
<1>4. SnapshotsKnown' /\ CommandsSound'
  BY <1>2 DEF SnapshotsKnown, KnownOrNone, Known, CommandsSound, Exists
<1>5. ConnectionSound'
  BY <1>1 DEF ConnectionSound
<1>6. NoLostWakeup' /\ SentInOrder'
  BY DEF HandlerSound, NoLostWakeup, SentInOrder
<1>7. HookSound'
  BY <1>1, <1>2 DEF HookSound
<1> QED BY <1>3, <1>4, <1>5, <1>6, <1>7 DEF HandlerSound

LEMMA AnswerGetInv ==
  ASSUME ViewInv, AnswerGet
  PROVE  ViewInv'
<1>1. Subscribed # NoJob
  BY DEF AnswerGet, ViewInv, ConnectionSound, NoGet
<1> QED BY <1>1, GetInv DEF AnswerGet, ViewInv, TypeOK

LEMMA FailGetInv ==
  ASSUME ViewInv, FailGet, faults' \in 0 .. MaxFaults
  PROVE  ViewInv'
BY GetInv DEF FailGet, AfterGet

LEMMA RefreshInv ==
  ASSUME ViewInv, Refresh
  PROVE  ViewInv'
<1>1. faults' \in 0 .. MaxFaults
  BY ViewAssumption DEF Refresh, Fault, ViewInv, TypeOK
<1> QED BY <1>1, GetInv DEF Refresh, AfterGet

LEMMA TakeGetInv ==
  ASSUME ViewInv, TakeGet
  PROVE  ViewInv'
<1> DEFINE s == get.snap
<1>1. Subscribed # NoJob
  BY DEF TakeGet, ViewInv, ConnectionSound, NoGet
<1>2. Known(s) /\ s.job = Subscribed
  BY DEF TakeGet, ViewInv, HookSound, SnapshotsKnown, KnownOrNone
<1>3. link' = AfterGet => link' = link \/ (link = "refreshing" /\ link' = "timer")
  BY DEF AfterGet
<1>4. faults' \in 0 .. MaxFaults /\ UNCHANGED <<cmd, faults>> /\ ServerOnly
  BY DEF TakeGet, ViewInv, TypeOK
<1>5. CASE s.rev < latest
  BY <1>3, <1>4, <1>5, GetInv DEF TakeGet, ServerOnly, serverVars
<1>6. CASE ~(s.rev < latest)
  <2> DEFINE c == IF Merge(s, current, Subscribed) = s THEN s ELSE current
  <2>1. Show(s, link' = AfterGet /\ get' = NoGet /\ UNCHANGED <<socket, inbox>>)
    BY <1>6 DEF TakeGet
  <2>2. Known(c) /\ c \in MaybeSnapshot /\ SubscribedTo(c) \in {NoJob, Subscribed}
    BY <1>1, <1>2, ShownCurrent
  <2>3. current' = c
    BY <2>1 DEF Show
  <2>4. CASE SubscribedTo(c) = NoJob
    <3>1. Unsubscribe
      BY <2>1, <2>4 DEF Show
    <3>2. /\ cmd' \in [Commands -> Command] /\ \A d \in Commands : KnownOrNone(cmd'[d].answer)
          /\ CommandsSound'
      BY <1>4 DEF ViewInv, TypeOK, SnapshotsKnown, CommandsSound, Exists, ServerOnly
    <3> QED BY <1>4, <2>2, <2>3, <2>4, <3>1, <3>2, UnsubscribeInv DEF KnownOrNone
  <2>5. CASE SubscribedTo(c) = Subscribed
    <3>1. /\ live' = s /\ latest' = s.rev /\ link' = AfterGet /\ get' = NoGet
          /\ UNCHANGED <<socket, inbox>>
      BY <1>1, <2>1, <2>5 DEF Show
    <3> HIDE DEF s, c
    <3> QED BY <1>1, <1>2, <1>3, <1>4, <2>2, <2>3, <2>5, <3>1, ShownInv DEF KnownOrNone
  <2> QED BY <2>2, <2>4, <2>5
<1> QED BY <1>5, <1>6
----------------------------------------------------------------------------
(* Steps of the commands *)

LEMMA CommandInv ==
  ASSUME ViewInv, UNCHANGED <<serverVars, viewVars, faults>>,
         cmd' \in [Commands -> Command], \A c \in Commands : KnownOrNone(cmd'[c].answer),
         CommandsSound'
  PROVE  ViewInv'
BY DEF ViewInv, serverVars, viewVars, TypeOK, EventsTypeOK, SnapshotsKnown, KnownOrNone, Known,
       ConnectionSound, HandlerSound, NoLostWakeup, SentInOrder, HookSound,
       Subscribed, SubscribedTo

\* One command becomes k.
LEMMA CommandChange ==
  ASSUME ViewInv, NEW c \in Commands, NEW k \in Command, cmd' = [cmd EXCEPT ![c] = k],
         KnownOrNone(k.answer), UNCHANGED stored,
         k.pc = "answered" => k.answer # NoSnapshot,
         k.pc = "sent" /\ k.kind = "call" => k.job \in Jobs /\ Exists(k.job)
  PROVE  /\ cmd' \in [Commands -> Command]
         /\ \A d \in Commands : KnownOrNone(cmd'[d].answer)
         /\ CommandsSound'
<1>1. /\ cmd' \in [Commands -> Command]
      /\ \A d \in Commands : cmd'[d] = IF d = c THEN k ELSE cmd[d]
  BY DEF ViewInv, TypeOK
<1> QED BY <1>1 DEF ViewInv, SnapshotsKnown, CommandsSound, Exists

LEMMA VisibleKnown ==
  ASSUME ViewInv, Visible # NoSnapshot
  PROVE  Visible.job \in Jobs /\ Exists(Visible.job)
<1>1. Visible = live \/ Visible = current
  BY DEF Visible, Merge
<1>2. Known(Visible)
  BY <1>1 DEF ViewInv, SnapshotsKnown, KnownOrNone
<1> QED BY <1>2 DEF Known, Snapshot, Revision, Exists, ViewInv, TypeOK, EventsTypeOK, Record

LEMMA SendCommandInv ==
  ASSUME ViewInv, NEW c \in Commands, Create(c) \/ Call(c) \/ Retry(c)
  PROVE  ViewInv'
<1>1. PICK kind \in {"create", "call", "retry"}, j \in Jobs \cup {NoJob} :
        SendCommand(c, kind, j) /\ (kind = "call" => j \in Jobs /\ Exists(j))
  BY VisibleKnown DEF Create, Call, Retry
<1> DEFINE k == [pc |-> "sent", kind |-> kind, job |-> j, answer |-> NoSnapshot]
<1>2. k \in Command /\ k.pc = "sent" /\ k.kind = kind /\ k.job = j /\ k.answer = NoSnapshot
  BY DEF Command, MaybeSnapshot
<1>3. cmd' = [cmd EXCEPT ![c] = k] /\ UNCHANGED <<serverVars, viewVars, faults>> /\ UNCHANGED stored
  BY <1>1 DEF SendCommand, serverVars
<1> HIDE DEF k
<1> QED BY <1>1, <1>2, <1>3, CommandChange, CommandInv DEF KnownOrNone

LEMMA CommandFailsInv ==
  ASSUME ViewInv, NEW c \in Commands, CommandFails(c)
  PROVE  ViewInv'
<1>1. Done \in Command /\ Done.pc = "done" /\ Done.answer = NoSnapshot
  BY DEF Done, IdleCommand, Command, MaybeSnapshot
<1>2. UNCHANGED stored
  BY DEF CommandFails, serverVars
<1> QED BY <1>1, <1>2, CommandChange, CommandInv DEF CommandFails, KnownOrNone

\* An answer with a known snapshot.
LEMMA AnswerChange ==
  ASSUME ViewInv, NEW c \in Commands, NEW kind \in {"create", "call", "retry"},
         NEW s, Known(s), Answer(c, kind, s), UNCHANGED stored
  PROVE  /\ cmd' \in [Commands -> Command]
         /\ \A d \in Commands : KnownOrNone(cmd'[d].answer)
         /\ CommandsSound'
<1> DEFINE k == [cmd[c] EXCEPT !.pc = "answered", !.kind = kind, !.answer = s]
<1>1. s \in MaybeSnapshot /\ s # NoSnapshot
  BY ViewAssumption DEF Known, MaybeSnapshot
<1>2. k \in Command /\ k.pc = "answered" /\ k.answer = s
  BY <1>1 DEF ViewInv, TypeOK, Command
<1>3. cmd' = [cmd EXCEPT ![c] = k]
  BY DEF Answer, ViewInv, TypeOK
<1> HIDE DEF k
<1> QED BY <1>1, <1>2, <1>3, CommandChange DEF KnownOrNone

LEMMA ServeCallInv ==
  ASSUME ViewInv, NEW c \in Commands, ServeCall(c)
  PROVE  ViewInv'
<1>1. cmd[c].job \in Jobs /\ Exists(cmd[c].job)
  BY DEF ServeCall, ViewInv, CommandsSound
<1>2. Known(SnapshotOf(cmd[c].job))
  BY <1>1, Loaded DEF ViewInv
<1>3. UNCHANGED stored
  BY DEF ServeCall, serverVars
<1> QED BY <1>2, <1>3, AnswerChange, CommandInv DEF ServeCall

LEMMA CreatedInv ==
  ASSUME ViewInv, NEW c \in Commands, NEW kind \in {"create", "call", "retry"},
         NEW j \in Jobs, NEW r \in Revision, NewJob(j, r),
         Answer(c, kind, [job |-> j, rev |-> r, open |-> TRUE]),
         UNCHANGED <<hint, socket, inbox, viewVars, faults>>
  PROVE  ViewInv'
<1> USE DEF ViewInv, viewVars
<1> DEFINE s == [job |-> j, rev |-> r, open |-> TRUE]
<1>1. /\ stored' = [stored EXCEPT ![j] = [rev |-> r, open |-> TRUE]]
      /\ stored'[j].rev = r /\ stored[j].rev = -1
      /\ \A i \in Jobs : i # j => stored'[i] = stored[i]
  BY DEF NewJob, Exists, TypeOK, EventsTypeOK, Record, Revision
<1>2. Grows
  BY <1>1 DEF Grows, TypeOK, EventsTypeOK, Record, Revision
<1>3. s \in Snapshot /\ s \in MaybeSnapshot /\ s # NoSnapshot /\ s.job = j /\ s.rev = r
  <2>1. s \in Snapshot
    BY DEF Snapshot
  <2> QED BY <2>1, ViewAssumption DEF MaybeSnapshot
<1>4. ASSUME NEW d \in Commands
      PROVE  /\ cmd'[d] \in Command
             /\ d # c => cmd'[d] = cmd[d]
             /\ d = c => cmd'[d].pc = "answered" /\ cmd'[d].answer = s
  <2> DEFINE k == [cmd[c] EXCEPT !.pc = "answered", !.kind = kind, !.answer = s]
  <2>1. k \in Command /\ k.pc = "answered" /\ k.answer = s
    BY <1>3 DEF TypeOK, Command
  <2>2. cmd' = [cmd EXCEPT ![c] = k]
    BY DEF Answer, TypeOK
  <2> HIDE DEF k
  <2> QED BY <2>1, <2>2 DEF TypeOK
<1>5. TypeOK'
  <2>1. cmd' \in [Commands -> Command]
    BY <1>4 DEF Answer, TypeOK
  <2>2. unpublished' \in SUBSET (Jobs \X Revision)
    BY DEF NewJob, TypeOK, EventsTypeOK
  <2> QED BY <1>2, <2>1, <2>2 DEF TypeOK, EventsTypeOK, Grows
<1>6. SnapshotsKnown'
  <2>1. ASSUME NEW t, KnownOrNone(t)
        PROVE  t = NoSnapshot \/ (t \in Snapshot /\ t.rev <= stored'[t.job].rev)
    BY <2>1, <1>2, StaysKnown
  <2>2. KnownOrNone(current)' /\ KnownOrNone(live)' /\ KnownOrNone(get.snap)'
    BY <2>1 DEF SnapshotsKnown, Known, KnownOrNone
  <2>3. ASSUME NEW i \in 1 .. Len(inbox)
        PROVE  inbox[i] \in Snapshot /\ inbox[i].rev <= stored'[inbox[i].job].rev
    BY <2>1, ViewAssumption DEF SnapshotsKnown, Known, KnownOrNone
  <2>4. ASSUME NEW d \in Commands
        PROVE  KnownOrNone(cmd[d].answer)'
    <3>1. CASE d = c
      <4> HIDE DEF s
      <4>1. stored'[s.job].rev = r /\ r \in Int
        BY <1>1, <1>3 DEF Revision
      <4>2. cmd'[d].answer = s /\ s.rev <= stored'[s.job].rev
        BY <3>1, <4>1, <1>3, <1>4
      <4>3. Known(cmd[d].answer)'
        BY <4>2, <1>3 DEF Known
      <4> QED BY <4>3 DEF KnownOrNone
    <3>2. CASE d # c
      <4>1. KnownOrNone(cmd[d].answer) /\ cmd'[d] = cmd[d]
        BY <3>2, <1>4 DEF SnapshotsKnown
      <4> QED BY <4>1, <2>1 DEF KnownOrNone, Known
    <3> QED BY <3>1, <3>2
  <2> QED BY <2>2, <2>3, <2>4 DEF SnapshotsKnown, Known
<1>7. CommandsSound'
  BY <1>1, <1>3, <1>4 DEF CommandsSound, Exists, Revision
<1>8. socket.pc # "closed" => socket.job \in Jobs /\ socket.job # j
  BY Subscription DEF ConnectionSound, SnapshotsKnown, NewJob, Socket, TypeOK, EventsTypeOK
<1>9. ConnectionSound'
  BY <1>1, <1>8 DEF ConnectionSound, Subscribed, SubscribedTo
<1>10. NoLostWakeup' /\ SentInOrder'
  BY <1>1, <1>8 DEF HandlerSound, NoLostWakeup, SentInOrder, NewJob
<1>11. HookSound'
  BY DEF HookSound, Subscribed, SubscribedTo
<1> QED BY <1>5, <1>6, <1>7, <1>9, <1>10, <1>11 DEF HandlerSound

LEMMA ServeCreateInv ==
  ASSUME ViewInv, NEW c \in Commands, ServeCreate(c)
  PROVE  ViewInv'
<1>1. ASSUME NEW j \in Jobs, NewJob(j, 0), UNCHANGED <<hint, socket, inbox, viewVars, faults>>,
             Answer(c, "create", [job |-> j, rev |-> 0, open |-> TRUE])
      PROVE  ViewInv'
  <2>1. 0 \in Revision
    BY EventsAssumption DEF Revision
  <2> QED BY <1>1, <2>1, CreatedInv
<1>2. ASSUME NEW j \in Jobs, Open(j), Answer(c, "call", SnapshotOf(j)),
             UNCHANGED <<stored, unpublished, hint, socket, inbox, viewVars, faults>>
      PROVE  ViewInv'
  <2>1. Exists(j)
    BY <1>2 DEF Open, Exists, ViewInv, TypeOK, EventsTypeOK, Record
  <2>2. Known(SnapshotOf(j))
    BY <2>1, Loaded DEF ViewInv
  <2> QED BY <1>2, <2>2, AnswerChange, CommandInv DEF serverVars
<1> QED BY <1>1, <1>2 DEF ServeCreate

LEMMA ServeRetryInv ==
  ASSUME ViewInv, NEW c \in Commands, ServeRetry(c)
  PROVE  ViewInv'
<1>1. PICK j \in Jobs : MaxRevision >= 1 /\ NewJob(j, 1)
                      /\ Answer(c, "retry", [job |-> j, rev |-> 1, open |-> TRUE])
  BY DEF ServeRetry
<1>2. 1 \in Revision
  BY <1>1, EventsAssumption DEF Revision
<1> QED BY <1>1, <1>2, CreatedInv DEF ServeRetry

LEMMA TakeAnswerInv ==
  ASSUME ViewInv, NEW c \in Commands, TakeAnswer(c)
  PROVE  ViewInv'
<1> DEFINE s == cmd[c].answer
           k == IF cmd[c].kind = "create"
                THEN [pc |-> "sent", kind |-> "call", job |-> s.job, answer |-> NoSnapshot]
                ELSE Done
<1>1. Known(s)
  BY DEF TakeAnswer, ViewInv, CommandsSound, SnapshotsKnown, KnownOrNone
<1>2. s.job \in Jobs /\ Exists(s.job)
  BY <1>1 DEF Known, Snapshot, Revision, Exists, ViewInv, TypeOK, EventsTypeOK, Record
<1>3. /\ k \in Command /\ k.answer = NoSnapshot /\ k.pc # "answered"
      /\ k.pc = "sent" => k.job = s.job
  BY <1>2 DEF Command, MaybeSnapshot, Done, IdleCommand
<1>4. cmd' = [cmd EXCEPT ![c] = k] /\ Follow(s) /\ ServerOnly /\ UNCHANGED faults
  BY DEF TakeAnswer, ViewInv, TypeOK
<1>5. UNCHANGED stored
  BY <1>4 DEF ServerOnly
<1> HIDE DEF s, k
<1>6. /\ cmd' \in [Commands -> Command]
      /\ \A d \in Commands : KnownOrNone(cmd'[d].answer)
      /\ CommandsSound'
  BY <1>2, <1>3, <1>4, <1>5, CommandChange DEF KnownOrNone
<1> QED BY <1>1, <1>4, <1>6, FollowInv

LEMMA RemountInv ==
  ASSUME ViewInv, Remount
  PROVE  ViewInv'
<1>1. ASSUME NEW c \in Commands
      PROVE  cmd'[c] \in Command /\ cmd'[c].answer = NoSnapshot /\ cmd'[c].pc \in {"idle", "done"}
  BY DEF Remount, IdleCommand, Done, Command, MaybeSnapshot
<1>2. cmd' \in [Commands -> Command]
  BY <1>1 DEF Remount
<1>3. CommandsSound'
  BY <1>1 DEF CommandsSound
<1>4. /\ current' = NoSnapshot /\ current' \in MaybeSnapshot /\ SubscribedTo(current') = NoJob
      /\ faults' \in 0 .. MaxFaults
  BY ViewAssumption DEF Remount, MaybeSnapshot, SubscribedTo, Fault, ViewInv, TypeOK
<1> QED BY <1>1, <1>2, <1>3, <1>4, UnsubscribeInv DEF Remount, KnownOrNone
----------------------------------------------------------------------------
(* The invariant *)

LEMMA InitInv ==
  ASSUME Init
  PROVE  ViewInv
<1> USE DEF Init, EventsInit
<1>1. TypeOK
  <2>1. stored \in [Jobs -> Record]
    BY DEF Absent, Record
  <2>2. cmd \in [Commands -> Command]
    BY DEF IdleCommand, Command, MaybeSnapshot
  <2>3. socket \in Socket
    BY EventsAssumption DEF ClosedSocket, Socket
  <2>4. inbox \in Seq(Snapshot) /\ get \in Get /\ faults \in 0 .. MaxFaults
    BY ViewAssumption DEF NoGet, Get, MaybeSnapshot
  <2> QED BY <2>1, <2>2, <2>3, <2>4 DEF TypeOK, EventsTypeOK, MaybeSnapshot, Link
<1>2. SnapshotsKnown /\ CommandsSound
  BY DEF SnapshotsKnown, KnownOrNone, CommandsSound, NoGet, IdleCommand
<1>3. ConnectionSound
  BY DEF ConnectionSound, Subscribed, SubscribedTo, ClosedSocket
<1>4. HandlerSound /\ HookSound
  BY DEF HandlerSound, NoLostWakeup, SentInOrder, HookSound, ClosedSocket, NoGet
<1> QED BY <1>1, <1>2, <1>3, <1>4 DEF ViewInv

LEMMA NextInv ==
  ASSUME ViewInv, [Next]_vars
  PROVE  ViewInv'
<1>1. CASE Writer
  BY <1>1, WriteInv DEF Writer
<1>2. CASE Server
  BY <1>2, PublishInv, SendFirstInv, SendChangeInv DEF Server
<1>3. CASE Hook
  BY <1>3, ReceiveInv, SeeBrokenInv, TimerFiresInv DEF Hook
<1>4. CASE Http
  <2>1. CASE LoseGet
    BY <2>1, FailGetInv DEF LoseGet, ViewInv, TypeOK
  <2> QED BY <1>4, <2>1, AnswerGetInv, TakeGetInv DEF Http
<1>5. ASSUME NEW c \in Commands, Wizard(c)
      PROVE  ViewInv'
  BY <1>5, SendCommandInv, ServeCreateInv, ServeCallInv, ServeRetryInv, TakeAnswerInv,
     CommandFailsInv DEF Wizard
<1>6. CASE RequestFails
  <2>1. faults' \in 0 .. MaxFaults
    BY <1>6, ViewAssumption DEF RequestFails, Fault, ViewInv, TypeOK
  <2> QED BY <1>6, <2>1, FailGetInv DEF RequestFails
<1>7. CASE UNCHANGED vars
  <2>1. /\ cmd' \in [Commands -> Command] /\ \A c \in Commands : KnownOrNone(cmd'[c].answer)
        /\ CommandsSound' /\ UNCHANGED <<serverVars, viewVars, faults>>
    BY <1>7 DEF vars, serverVars, ViewInv, TypeOK, SnapshotsKnown, CommandsSound, Exists
  <2> QED BY <2>1, CommandInv
<1> QED BY <1>1, <1>2, <1>3, <1>4, <1>5, <1>6, <1>7, RefreshInv, BreakInv, RestartInv, RemountInv
        DEF Next

\* For any jobs, commands and bounds, the invariant of connection, handler and
\* hook holds.
THEOREM ViewInvariant == Spec => []ViewInv
BY InitInv, NextInv, PTL DEF Spec

\* Every variable has its type.
THEOREM ViewTypes == Spec => []TypeOK
<1>1. ViewInv => TypeOK
  BY DEF ViewInv
<1> QED BY <1>1, ViewInvariant, PTL

\* However hints, writes and connections interleave, no handler sleeps over a
\* record newer than what it sent (wait_for_change, job_events).
THEOREM NoWakeupIsLost == Spec => []NoLostWakeup
<1>1. ViewInv => NoLostWakeup
  BY DEF ViewInv, HandlerSound
<1> QED BY <1>1, ViewInvariant, PTL

\* Every connection carries snapshots of growing revisions of its job.
THEOREM SnapshotsGoUp == Spec => []SentInOrder
<1>1. ViewInv => SentInOrder
  BY DEF ViewInv, HandlerSound
<1> QED BY <1>1, ViewInvariant, PTL

----------------------------------------------------------------------------
(* What the hook shows *)

\* The hook's job is replaced by a snapshot of the subscription that is not
\* older than it, or dropped.
LEMMA HookStep ==
  ASSUME ViewInv, [Next]_vars, live # NoSnapshot, live' # NoSnapshot, live'.job = live.job
  PROVE  live'.rev >= live.rev
<1>1. live.rev \in Int
  BY DEF ViewInv, TypeOK, MaybeSnapshot, Snapshot, Revision
<1>2. CASE UNCHANGED live
  BY <1>1, <1>2
<1>3. CASE Receive
  <2> DEFINE s == Head(inbox)
  <2>1. s = inbox[1] /\ Known(s) /\ s.job = Subscribed /\ Len(inbox) >= 1
    BY <1>3, EmptySeq
    DEF Receive, ViewInv, TypeOK, EventsTypeOK, SnapshotsKnown, ConnectionSound, HandlerSound, SentInOrder
  <2>2. CASE UNCHANGED live
    BY <1>1, <2>2
  <2>3. CASE ~(latest >= 0 /\ s.rev <= latest) /\ live' = s
    BY <2>1, <2>3 DEF ViewInv, HookSound, TypeOK, Revision, MaybeSnapshot, Snapshot, Known
  <2> QED BY <1>3, <2>2, <2>3 DEF Receive, Show, Unsubscribe, Reconnect, viewVars
<1>4. CASE TakeGet
  <2>1. CASE UNCHANGED live
    BY <1>1, <2>1
  <2>2. CASE ~(get.snap.rev < latest) /\ live' = get.snap
    BY <1>4, <2>2 DEF TakeGet, ViewInv, HookSound, TypeOK, Revision, MaybeSnapshot, Snapshot, Get
  <2> QED BY <1>4, <2>1, <2>2 DEF TakeGet, Show, Unsubscribe
<1>5. ASSUME NEW c \in Commands, TakeAnswer(c)
      PROVE  UNCHANGED live
  BY <1>5 DEF TakeAnswer, Follow, Unsubscribe
<1> QED BY <1>2, <1>3, <1>4, <1>5
    DEF Next, vars, viewVars, Writer, Server, Hook, Http, Wizard, SeeBroken, Reconnect, TimerFires,
        AnswerGet, LoseGet, FailGet, RequestFails, Refresh, ConnectionBreaks, ServerRestarts,
        Remount, Unsubscribe, Create, Call, Retry, SendCommand, ServeCreate, ServeCall, ServeRetry,
        CommandFails

\* The hook never goes back to an older record of a job, however snapshots,
\* refreshes, reconnections and changes of the subscription overtake each other.
THEOREM HookNeverGoesBack == Spec => HookNeverOlder
<1>1. ViewInv /\ [Next]_vars =>
        [live # NoSnapshot /\ live' # NoSnapshot /\ live.job = live'.job =>
           live'.rev >= live.rev]_vars
  BY HookStep
<1> QED BY <1>1, ViewInvariant, PTL DEF Spec, HookNeverOlder
=============================================================================
