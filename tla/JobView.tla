------------------------------- MODULE JobView -------------------------------
(***************************************************************************)
(* What the browser shows of the generation jobs of one project: the hook  *)
(* useJobEvents.ts (a WebSocket with reconnection, and an HTTP refresh),   *)
(* the commands of GenerationWizard.tsx, and the merge of the two.  The    *)
(* wizard is mounted anew when the project changes, so one project is all  *)
(* a mounted wizard sees.                                                  *)
(*                                                                         *)
(* A callback runs to its end, with the renders and effects it leads to,   *)
(* before the next one: it is one action.                                  *)
(***************************************************************************)
EXTENDS JobEvents

CONSTANTS
  Commands,    \* HTTP commands that may ever be sent; bounds them
  NoSnapshot,  \* null
  MaxFaults    \* bound: failed refreshes, broken connections, restarts, reloads of
               \* the page, and refreshes the user asks for

ASSUME ViewAssumption ==
  /\ NoSnapshot \notin Snapshot
  /\ MaxFaults \in Nat

VARIABLES
  current,  \* the wizard's currentJob: the last command's or the live job
  live,     \* the hook's job
  latest,   \* the hook's latestRevision; -1 for null
  link,     \* the hook's connection
  get,      \* the one HTTP refresh that has not been aborted
  cmd,      \* the commands
  faults    \* faults so far

viewVars == <<current, live, latest, link, get>>
vars == <<serverVars, viewVars, cmd, faults>>

----------------------------------------------------------------------------
MaybeSnapshot == Snapshot \cup {NoSnapshot}

\* off: no subscription; up: there is a socket; refreshing: the reconnect waits
\* for its refresh; timer: it waits for its delay.
Link == {"off", "up", "refreshing", "timer"}

Get == [st : {"none", "asked", "answered", "lost"}, snap : MaybeSnapshot]
NoGet    == [st |-> "none", snap |-> NoSnapshot]
AskedGet == [st |-> "asked", snap |-> NoSnapshot]

\* create is the creation of handleCreateAndStart, call a start or a cancel.
Command == [pc : {"idle", "sent", "answered", "done"},
            kind : {"create", "call", "retry"}, job : Jobs \cup {NoJob}, answer : MaybeSnapshot]
IdleCommand == [pc |-> "idle", kind |-> "call", job |-> NoJob, answer |-> NoSnapshot]
Done        == [IdleCommand EXCEPT !.pc = "done"]

\* subscribedJobId: the current job while it is nonterminal
SubscribedTo(c) == IF c # NoSnapshot /\ c.open THEN c.job ELSE NoJob
Subscribed == SubscribedTo(current)

\* mergeJobSnapshots
Merge(l, c, sub) ==
  CASE l = NoSnapshot -> c
    [] c = NoSnapshot -> l
    [] l # NoSnapshot /\ c # NoSnapshot /\ l.job # c.job -> IF l.job = sub THEN l ELSE c
    [] OTHER -> IF l.rev >= c.rev THEN l ELSE c

Visible == Merge(live, current, Subscribed)

Init ==
  /\ EventsInit
  /\ current = NoSnapshot
  /\ live = NoSnapshot
  /\ latest = -1
  /\ link = "off"
  /\ get = NoGet
  /\ cmd = [c \in Commands |-> IdleCommand]
  /\ faults = 0

----------------------------------------------------------------------------
(* The hook's effect: its clean-up and its start *)

ServerOnly == UNCHANGED <<stored, unpublished, hint>>

\* Seeded fault: the clean-up forgets the timer.
UnsubscribeNotTimer ==
  /\ live' = NoSnapshot
  /\ latest' = -1
  /\ link' = IF link = "timer" THEN link ELSE "off"
  /\ get' = NoGet
  /\ socket' = ClosedSocket
  /\ inbox' = <<>>

\* No subscription is left: everything of the hook is dropped.
Unsubscribe ==
  /\ live' = NoSnapshot
  /\ latest' = -1
  /\ link' = "off"
  /\ get' = NoGet
  /\ socket' = ClosedSocket
  /\ inbox' = <<>>

Connect(j) ==
  /\ link' = "up"
  /\ socket' = NewSocket(j)
  /\ inbox' = <<>>

\* The wizard's current job becomes c, and the hook follows it.
Follow(c) ==
  /\ current' = c
  /\ CASE SubscribedTo(c) = Subscribed -> UNCHANGED <<live, latest, link, get, socket, inbox>>
       [] SubscribedTo(c) = NoJob /\ Subscribed # NoJob -> Unsubscribe
       [] OTHER -> /\ Connect(SubscribedTo(c))
                   /\ latest' = -1
                   /\ get' = NoGet
                   /\ UNCHANGED live

\* setJob(s): the live effect of the wizard takes s over as the current job
\* unless a command has brought a newer one.  A closed job ends the
\* subscription; otherwise the hook goes on as rest says.
Show(s, rest) ==
  LET c == IF Merge(s, current, Subscribed) = s THEN s ELSE current IN
  /\ current' = c
  /\ IF SubscribedTo(c) = NoJob
     THEN Unsubscribe
     ELSE live' = s /\ latest' = s.rev /\ rest

\* scheduleReconnect(true): the socket is dropped and a refresh comes first.
Reconnect ==
  /\ link' = "refreshing"
  /\ get' = AskedGet
  /\ socket' = ClosedSocket
  /\ inbox' = <<>>
  /\ UNCHANGED <<current, live, latest>>

----------------------------------------------------------------------------
(* Callbacks of the socket *)

\* handleSnapshot
Receive ==
  /\ link = "up" /\ inbox # <<>>
  /\ LET s == Head(inbox) IN
       CASE latest >= 0 /\ s.rev <= latest ->
              inbox' = Tail(inbox) /\ UNCHANGED <<viewVars, socket>>
         [] latest >= 0 /\ s.rev > latest + 1 -> Reconnect
         [] OTHER -> Show(s, inbox' = Tail(inbox) /\ UNCHANGED <<socket, link, get>>)
  /\ ServerOnly
  /\ UNCHANGED <<cmd, faults>>

\* onclose, onerror
SeeBroken ==
  /\ link = "up" /\ inbox = <<>> /\ socket.pc = "broken"
  /\ Reconnect
  /\ ServerOnly
  /\ UNCHANGED <<cmd, faults>>

\* The reconnect delay is over.
TimerFires ==
  /\ link = "timer"
  /\ Connect(Subscribed)
  /\ ServerOnly
  /\ UNCHANGED <<current, live, latest, get, cmd, faults>>

----------------------------------------------------------------------------
(* refreshDurable *)

\* Seeded fault: a refresh does not let a waiting reconnect go on.
AfterGetNothing == link

\* A refresh that ends, in whatever way, lets a waiting reconnect go on.
AfterGet == IF link = "refreshing" THEN "timer" ELSE link

AnswerGet ==
  /\ get.st = "asked"
  /\ get' = [st |-> "answered", snap |-> SnapshotOf(Subscribed)]
  /\ UNCHANGED <<serverVars, current, live, latest, link, cmd, faults>>

\* Seeded fault: the answer of a refresh is taken without a look at what has
\* been received in the meantime.
TakeAnyGet ==
  /\ get.st = "answered"
  /\ Show(get.snap, link' = AfterGet /\ get' = NoGet /\ UNCHANGED <<socket, inbox>>)
  /\ ServerOnly
  /\ UNCHANGED <<cmd, faults>>

TakeGet ==
  /\ get.st = "answered"
  /\ IF get.snap.rev < latest
     THEN /\ link' = AfterGet
          /\ get' = NoGet
          /\ UNCHANGED <<current, live, latest, socket, inbox>>
     ELSE Show(get.snap, link' = AfterGet /\ get' = NoGet /\ UNCHANGED <<socket, inbox>>)
  /\ ServerOnly
  /\ UNCHANGED <<cmd, faults>>

FailGet ==
  /\ get.st # "none"
  /\ get' = NoGet
  /\ link' = AfterGet
  /\ UNCHANGED <<serverVars, current, live, latest, cmd>>

\* A request that was under way when the server went down has no answer.
LoseGet == get.st = "lost" /\ FailGet /\ UNCHANGED faults

----------------------------------------------------------------------------
(* Commands of the wizard *)

SendCommand(c, kind, j) ==
  /\ cmd[c] = IdleCommand
  /\ cmd' = [cmd EXCEPT ![c] = [pc |-> "sent", kind |-> kind, job |-> j, answer |-> NoSnapshot]]
  /\ UNCHANGED <<serverVars, viewVars, faults>>

\* The button is disabled while a creation is under way.
Create(c) ==
  /\ Visible = NoSnapshot
  /\ \A d \in Commands : cmd[d].pc \in {"idle", "done"}
  /\ SendCommand(c, "create", NoJob)

\* handleContinue, handleCancel: of the job shown.  No button waits for the
\* answer of the call before.
Call(c) ==
  /\ Visible # NoSnapshot /\ Visible.open
  /\ SendCommand(c, "call", Visible.job)

Retry(c) ==
  /\ Visible # NoSnapshot /\ ~Visible.open
  /\ SendCommand(c, "retry", Visible.job)

Answer(c, kind, snap) ==
  cmd' = [cmd EXCEPT ![c] = [@ EXCEPT !.pc = "answered", !.kind = kind, !.answer = snap]]

SlotFree == \A j \in Jobs : ~Open(j)

\* The server creates the job, unless one is open: the wizard then asks for
\* that one and shows it.
ServeCreate(c) ==
  /\ cmd[c].pc = "sent" /\ cmd[c].kind = "create"
  /\ \/ \E j \in Jobs :
          /\ SlotFree
          /\ NewJob(j, 0)
          /\ Answer(c, "create", [job |-> j, rev |-> 0, open |-> TRUE])
     \/ \E j \in Jobs :
          /\ Open(j)
          /\ Answer(c, "call", SnapshotOf(j))
          /\ UNCHANGED <<stored, unpublished>>
  /\ UNCHANGED <<hint, socket, inbox, viewVars, faults>>

\* The record a start loads or a cancel leaves, as it is at some moment of the
\* call; the writes of the call are writes like all others.
ServeCall(c) ==
  /\ cmd[c].pc = "sent" /\ cmd[c].kind = "call"
  /\ Answer(c, "call", SnapshotOf(cmd[c].job))
  /\ UNCHANGED <<serverVars, viewVars, faults>>

ServeRetry(c) ==
  /\ cmd[c].pc = "sent" /\ cmd[c].kind = "retry"
  /\ SlotFree
  /\ \E j \in Jobs :
       /\ MaxRevision >= 1 /\ NewJob(j, 1)
       /\ Answer(c, "retry", [job |-> j, rev |-> 1, open |-> TRUE])
  /\ UNCHANGED <<hint, socket, inbox, viewVars, faults>>

\* The answer replaces the current job, whatever it was; a created job is
\* started next.
TakeAnswer(c) ==
  /\ cmd[c].pc = "answered"
  /\ Follow(cmd[c].answer)
  /\ cmd' = [cmd EXCEPT ![c] =
       IF @.kind = "create"
       THEN [pc |-> "sent", kind |-> "call", job |-> @.answer.job, answer |-> NoSnapshot]
       ELSE Done]
  /\ ServerOnly
  /\ UNCHANGED faults

\* Refused, failed, or its answer is lost: an error is shown, no job.
CommandFails(c) ==
  /\ cmd[c].pc \in {"sent", "answered"}
  /\ cmd' = [cmd EXCEPT ![c] = Done]
  /\ UNCHANGED <<serverVars, viewVars, faults>>

----------------------------------------------------------------------------
(* Faults and disturbances *)

Fault == faults < MaxFaults /\ faults' = faults + 1

RequestFails == Fault /\ FailGet

\* The user asks for a refresh: it aborts the one before, a reconnect's too.
Refresh ==
  /\ Fault
  /\ Subscribed # NoJob
  /\ get' = AskedGet
  /\ link' = AfterGet
  /\ UNCHANGED <<serverVars, current, live, latest, cmd>>

ConnectionBreaks == Fault /\ Break /\ UNCHANGED <<viewVars, cmd>>

ServerRestarts ==
  /\ Fault
  /\ Restart
  /\ get' = IF get.st = "asked" THEN [get EXCEPT !.st = "lost"] ELSE get
  /\ cmd' = [c \in Commands |-> IF cmd[c].pc = "sent" THEN Done ELSE cmd[c]]
  /\ UNCHANGED <<current, live, latest, link>>

\* The wizard is mounted anew: another project and back, or a page reload.
Remount ==
  /\ Fault
  /\ current # NoSnapshot
  /\ current' = NoSnapshot
  /\ Unsubscribe
  /\ cmd' = [c \in Commands |-> IF cmd[c] = IdleCommand THEN IdleCommand ELSE Done]
  /\ ServerOnly

----------------------------------------------------------------------------
Server ==
  /\ \/ \E j \in Jobs, r \in Revision : Publish(j, r)
     \/ SendFirst
     \/ SendChange
  /\ UNCHANGED <<viewVars, cmd, faults>>

Writer == (\E j \in Jobs : Write(j)) /\ UNCHANGED <<viewVars, cmd, faults>>

Hook == Receive \/ SeeBroken \/ TimerFires

Http == AnswerGet \/ TakeGet \/ LoseGet

Wizard(c) ==
  \/ Create(c) \/ Call(c) \/ Retry(c)
  \/ ServeCreate(c) \/ ServeCall(c) \/ ServeRetry(c)
  \/ TakeAnswer(c) \/ CommandFails(c)

Next ==
  \/ Writer \/ Server \/ Hook \/ Http
  \/ \E c \in Commands : Wizard(c)
  \/ RequestFails \/ Refresh \/ ConnectionBreaks \/ ServerRestarts \/ Remount

Spec == Init /\ [][Next]_vars

\* Hints are published, the event loops of server and browser run, and an HTTP
\* refresh is answered, or fails or is aborted as one of the faults: not for
\* ever, because a snapshot that skips a revision waits for a refresh too.
\* Nothing is assumed of commands.
Fairness ==
  /\ WF_vars(\E j \in Jobs, r \in Revision : Publish(j, r) /\ UNCHANGED <<viewVars, cmd, faults>>)
  /\ WF_vars((SendFirst \/ SendChange) /\ UNCHANGED <<viewVars, cmd, faults>>)
  /\ WF_vars(Hook)
  /\ WF_vars(Http)

FairSpec == Spec /\ Fairness

----------------------------------------------------------------------------
(* Properties *)

\* Every variable has its type.
TypeOK ==
  /\ EventsTypeOK
  /\ current \in MaybeSnapshot
  /\ live \in MaybeSnapshot
  /\ latest \in Revision \cup {-1}
  /\ link \in Link
  /\ get \in Get
  /\ cmd \in [Commands -> Command]
  /\ faults \in 0 .. MaxFaults

\* The hook never replaces what it shows of a job by an older record of it,
\* however snapshots, refreshes and reconnections overtake each other.
HookNeverOlder ==
  [][live # NoSnapshot /\ live' # NoSnapshot /\ live.job = live'.job =>
       live'.rev >= live.rev]_vars

\* A job that is shown as open although it is closed does not stay so: the
\* hints, a gap, a lost connection or the refresh bring the end to the page.
ClosedIsShown ==
  \A j \in Jobs :
    (Visible # NoSnapshot /\ Visible.job = j /\ Visible.open /\ ~Open(j))
      ~> ~(Visible # NoSnapshot /\ Visible.job = j /\ Visible.open)

\* Phase 5 design, 10.1: an old revision does not overwrite a newer state.
ViewNeverOlder ==
  [][Visible # NoSnapshot /\ Visible' # NoSnapshot /\ Visible.job = Visible'.job =>
       Visible'.rev >= Visible.rev]_vars
=============================================================================
