---------------------------- MODULE ComfyManager ----------------------------
(***************************************************************************)
(* comfy/manager.py and comfy/process.py: the one managed ComfyUI child,   *)
(* started, watched and stopped by threads of the backend.  start and stop *)
(* hold the manager's lock, status does not, and start calls it inside.    *)
(* What survives the backend is state/process.json and the child itself.   *)
(* A child's pid may be given to another process once the child is dead    *)
(* and no handle of the backend keeps it; it is not reused between two     *)
(* consecutive calls of one thread that look at it.                        *)
(***************************************************************************)
EXTENDS Naturals, FiniteSets

CONSTANTS
  Callers,      \* threads that call the manager
  Children,     \* identities of child processes (pid and creation time)
  None,         \* no child, no caller
  MaxRestarts,  \* bound: ends of the backend
  MaxFaults     \* bound: system calls that fail

ASSUME NoneAssumption == None \notin Children /\ None \notin Callers

VARIABLES
  life,        \* unborn, booting, serving or dead, for every child
  reused,      \* dead children whose pid now belongs to another process
  listener,    \* who listens on the port: a child, "foreign" or None
  record,      \* the child state/process.json names
  owned,       \* _child
  lock,        \* the thread that holds _lock
  call,        \* what a thread is doing
  restarts, faults,
  foreignKill, \* history: a process that is no child was signalled
  excused,     \* history: children that lost their record to a fault, to an
               \* end of the backend, or to a call that read another's
  stale        \* history: children whose record outlived a start or a stop,
               \* which could not read it or could not delete it

sysVars == <<life, reused, listener>>

bounds == <<restarts, faults>>

lostRecords == <<excused, stale>>

vars == <<sysVars, record, owned, lock, call, bounds, foreignKill,
          lostRecords>>

Alive(c) == life[c] \in {"booting", "serving"}

PidAlive(c) == Alive(c) \/ c \in reused

Idle == [step |-> "idle", child |-> None, after |-> "idle"]

CallSteps ==
  {"idle", "read", "check", "delete", "probe", "start", "stop", "launch",
   "boot", "write", "unboot", "kill", "killed", "return"}

Init ==
  /\ life = [c \in Children |-> "unborn"]
  /\ reused = {} /\ listener = None
  /\ record = None /\ owned = None /\ lock = None
  /\ call = [t \in Callers |-> Idle]
  /\ restarts = 0 /\ faults = 0
  /\ foreignKill = FALSE /\ excused = {} /\ stale = {}

At(t, place) == call[t].step = place

Goto(t, place) == call' = [call EXCEPT ![t].step = place]

GotoWith(t, place, c) ==
  call' = [call EXCEPT ![t].step = place, ![t].child = c]

Fault == faults < MaxFaults /\ faults' = faults + 1

\* A call returns: a value or an exception, with the lock given back.
Return(t) ==
  /\ call' = [call EXCEPT ![t] = Idle]
  /\ lock' = IF lock = t THEN None ELSE lock

Untouched == UNCHANGED <<sysVars, bounds, foreignKill>>

-----------------------------------------------------------------------------
(* The world around the manager *)

\* A child binds the port and serves, or finds it taken and exits.
ChildBoots(c) ==
  /\ life[c] = "booting"
  /\ \/ /\ listener = None
        /\ listener' = c /\ life' = [life EXCEPT ![c] = "serving"]
     \/ /\ listener # None
        /\ life' = [life EXCEPT ![c] = "dead"] /\ UNCHANGED listener
  /\ UNCHANGED <<reused, record, owned, lock, call, bounds, foreignKill,
                 lostRecords>>

Dead(c) ==
  /\ life' = [life EXCEPT ![c] = "dead"]
  /\ listener' = IF listener = c THEN None ELSE listener

\* os.kill, which reaches whatever process has the pid.
Signal(c) ==
  IF c \in reused
  THEN foreignKill' = TRUE /\ UNCHANGED <<life, listener>>
  ELSE Dead(c) /\ UNCHANGED foreignKill

ChildDies(c) ==
  /\ Alive(c)
  /\ Dead(c)
  /\ UNCHANGED <<reused, record, owned, lock, call, bounds, foreignKill,
                 lostRecords>>

\* The system gives the pid of a dead child away, unless a Popen object of
\* this process keeps it, or a thread is between the check of its identity
\* and the signal that follows at once.
PidReused(c) ==
  /\ life[c] = "dead" /\ owned # c
  /\ \A t \in Callers : At(t, "kill") => call[t].child # c
  /\ reused' = reused \cup {c}
  /\ UNCHANGED <<life, listener, record, owned, lock, call, bounds,
                 foreignKill, lostRecords>>

\* Another program listens on the port, and ends.
ForeignListener ==
  /\ \/ listener = None /\ Fault /\ listener' = "foreign"
     \/ listener = "foreign" /\ listener' = None /\ UNCHANGED faults
  /\ UNCHANGED <<life, reused, record, owned, lock, call, restarts,
                 foreignKill, lostRecords>>

\* The backend ends at any step, the child does not end with it.
Restart ==
  /\ restarts < MaxRestarts
  /\ restarts' = restarts + 1
  /\ excused' = excused \cup {c \in Children : Alive(c) /\ record # c}
  /\ owned' = None /\ lock' = None
  /\ call' = [t \in Callers |-> Idle]
  /\ UNCHANGED <<sysVars, record, faults, foreignKill, stale>>

-----------------------------------------------------------------------------
(* status, and ensure_generation_ready, which starts a stopped child *)

CallStatus(t) ==
  /\ At(t, "idle")
  /\ \E next \in {"idle", "start"} :
       call' = [call EXCEPT ![t] = [Idle EXCEPT !.step = "read",
                                                !.after = next]]
  /\ UNCHANGED <<sysVars, record, owned, lock, bounds, foreignKill,
                 lostRecords>>

\* A status that found no child ends the call, or goes on to start one.
Stopped(t) ==
  IF call[t].after = "start"
  THEN /\ call' = [call EXCEPT ![t] = [Idle EXCEPT !.step = "start"]]
       /\ UNCHANGED lock
  ELSE Return(t)

\* Mutant of ReadRecord: the child is taken to be who listens on the port.
ReadListener(t) ==
  /\ At(t, "read")
  /\ IF listener = None THEN Stopped(t)
     ELSE GotoWith(t, "check", listener) /\ UNCHANGED lock
  /\ Untouched /\ UNCHANGED <<record, owned, lostRecords>>

\* _read_json: a file that cannot be read is taken for no file.
ReadRecord(t) ==
  /\ At(t, "read")
  /\ \/ record = None /\ Stopped(t) /\ UNCHANGED faults
     \/ record # None /\ GotoWith(t, "check", record)
        /\ UNCHANGED <<lock, faults>>
     \/ record # None /\ Fault /\ Stopped(t)
  /\ UNCHANGED <<sysVars, record, owned, restarts, foreignKill, lostRecords>>

CheckAlive(t) ==
  /\ At(t, "check")
  /\ Goto(t, IF PidAlive(call[t].child) THEN "probe" ELSE "delete")
  /\ Untouched /\ UNCHANGED <<record, owned, lock, lostRecords>>

\* The record, when it names another child than c.
RecordOfAnother(c) == {record} \ {c, None}

\* _delete_record removes the file, whichever child it names by now, and
\* drops an error of that.
DeleteRecord(t) ==
  /\ At(t, "delete")
  /\ \/ /\ record' = None
        /\ excused' = excused \cup RecordOfAnother(call[t].child)
        /\ UNCHANGED faults
     \/ Fault /\ UNCHANGED <<record, excused>>
  /\ Stopped(t)
  /\ UNCHANGED <<sysVars, owned, restarts, foreignKill, stale>>

\* Identity, version and nodes are looked at; the answer changes nothing.
Probe(t) ==
  /\ At(t, "probe")
  /\ Return(t)
  /\ Untouched /\ UNCHANGED <<record, owned, lostRecords>>

-----------------------------------------------------------------------------
(* start *)

CallStart(t) ==
  /\ At(t, "idle")
  /\ Goto(t, "start")
  /\ UNCHANGED <<sysVars, record, owned, lock, bounds, foreignKill,
                 lostRecords>>

\* Mutant of EnterStart: the record of a dead child stays.
EnterStartKeep(t) ==
  /\ At(t, "start") /\ lock = None
  /\ \/ /\ record # None /\ PidAlive(record)
        /\ Return(t)
     \/ /\ record # None => ~PidAlive(record)
        /\ Goto(t, "launch") /\ lock' = t
  /\ Untouched /\ UNCHANGED <<record, owned, lostRecords>>

\* What start and stop leave behind when a system call on the file fails.
RecordKept ==
  /\ stale' = stale \cup ({record} \ {None})
  /\ UNCHANGED record

RecordDeleted ==
  \/ record' = None /\ UNCHANGED <<stale, faults>>
  \/ Fault /\ RecordKept

\* With the lock: a recorded child that lives is answered for, a pid that
\* belongs to another process is refused, the record of a dead child goes.  A
\* record that cannot be read, or cannot be deleted, is passed over.
EnterStart(t) ==
  /\ At(t, "start") /\ lock = None
  /\ \/ /\ record # None /\ Alive(record)
        /\ call' = [call EXCEPT ![t] = [Idle EXCEPT !.step = "read"]]
        /\ lock' = t /\ UNCHANGED <<record, stale, faults>>
     \/ /\ record # None /\ ~Alive(record) /\ record \in reused
        /\ Return(t)
        /\ UNCHANGED <<record, stale, faults>>
     \/ /\ record # None => ~PidAlive(record)
        /\ RecordDeleted
        /\ Goto(t, "launch") /\ lock' = t
     \/ /\ Fault /\ RecordKept
        /\ Goto(t, "launch") /\ lock' = t
  /\ UNCHANGED <<sysVars, owned, restarts, foreignKill, excused>>

\* The installation is not ready, the port is taken, or a child is spawned.
Launch(t) ==
  /\ At(t, "launch")
  /\ \/ /\ IF listener = None THEN Fault ELSE UNCHANGED faults
        /\ Return(t)
        /\ UNCHANGED <<life, owned>>
     \/ /\ listener = None
        /\ \E c \in Children :
             /\ life[c] = "unborn"
             /\ life' = [life EXCEPT ![c] = "booting"]
             /\ owned' = c
             /\ GotoWith(t, "boot", c)
        /\ UNCHANGED <<lock, faults>>
     \/ /\ listener = None /\ \A c \in Children : life[c] # "unborn"
        /\ Return(t)
        /\ UNCHANGED <<life, owned, faults>>
  /\ UNCHANGED <<reused, listener, record, restarts, foreignKill,
                 lostRecords>>

\* Mutant of WaitReady: no end of the time.
WaitForAnswer(t) ==
  /\ At(t, "boot")
  /\ \/ Alive(call[t].child) /\ listener # None /\ Goto(t, "write")
     \/ ~Alive(call[t].child) /\ Goto(t, "unboot")
  /\ Untouched /\ UNCHANGED <<record, owned, lock, lostRecords>>

\* _wait_ready: whoever answers on the port, the child has not exited, or it
\* has, or the time is over.
WaitReady(t) ==
  /\ At(t, "boot")
  /\ \/ Alive(call[t].child) /\ listener # None /\ Goto(t, "write")
     \/ Goto(t, "unboot")
  /\ Untouched /\ UNCHANGED <<record, owned, lock, lostRecords>>

\* Mutant of AbandonChild: the child is forgotten and not stopped.
ForgetChild(t) ==
  /\ At(t, "unboot")
  /\ owned' = None
  /\ Return(t)
  /\ Untouched /\ UNCHANGED <<record, lostRecords>>

\* A child that did not become ready is stopped; an error of it is dropped.
AbandonChild(t) ==
  LET c == call[t].child IN
  /\ At(t, "unboot")
  /\ owned' = None
  /\ Return(t)
  /\ \/ Dead(c) /\ UNCHANGED <<faults, excused>>
     \/ /\ Alive(c) /\ Fault /\ excused' = excused \cup {c}
        /\ UNCHANGED <<life, listener>>
  /\ UNCHANGED <<reused, record, restarts, foreignKill, stale>>

\* The record is written and status answers, still with the lock; an error
\* ends the call before the record is replaced or after it.
WriteRecord(t) ==
  LET c == call[t].child IN
  /\ At(t, "write")
  /\ \/ /\ record' = c
        /\ excused' = excused \cup RecordOfAnother(c)
        /\ call' = [call EXCEPT ![t] = [Idle EXCEPT !.step = "read"]]
        /\ UNCHANGED <<lock, faults>>
     \/ /\ Fault /\ Return(t)
        /\ \/ record' = c /\ excused' = excused \cup RecordOfAnother(c)
           \/ excused' = excused \cup {c} /\ UNCHANGED record
  /\ UNCHANGED <<sysVars, owned, restarts, foreignKill, stale>>

-----------------------------------------------------------------------------
(* stop, and shutdown *)

CallStop(t) ==
  /\ At(t, "idle")
  /\ Goto(t, "stop")
  /\ UNCHANGED <<sysVars, record, owned, lock, bounds, foreignKill,
                 lostRecords>>

\* The identity of the recorded pid can be read and is the recorded one: the
\* child lives, or it is dead and its handle keeps the pid.
Identified(c) == Alive(c) \/ c = owned

\* With the lock: no record, or none that can be read, and nothing is stopped;
\* a record of another life of the backend whose child is gone is removed; a
\* pid that is gone or another process is left alone.  What is then stopped
\* is the child of the handle, or without one the child of the record.
EnterStop(t) ==
  /\ At(t, "stop") /\ lock = None
  /\ \/ record = None /\ Return(t) /\ UNCHANGED <<record, stale, faults>>
     \/ record # None /\ Fault /\ Return(t) /\ UNCHANGED <<record, stale>>
     \/ /\ record # None /\ owned = None /\ ~PidAlive(record)
        /\ RecordDeleted
        /\ Return(t)
     \/ /\ record # None /\ ~Identified(record)
        /\ owned = None => PidAlive(record)
        /\ Return(t)
        /\ UNCHANGED <<record, stale, faults>>
     \/ /\ record # None /\ Identified(record)
        /\ GotoWith(t, "kill", IF owned = None THEN record ELSE owned)
        /\ lock' = t /\ UNCHANGED <<record, stale, faults>>
  /\ UNCHANGED <<sysVars, owned, restarts, foreignKill, excused>>

\* OwnedProcess.stop works on the handle of the child; stop_owned signals the
\* pid and looks at it again.
Terminate(t) ==
  LET c == call[t].child IN
  /\ At(t, "kill")
  /\ \/ /\ Signal(c)
        /\ Goto(t, IF owned = None THEN "killed" ELSE "return")
        /\ UNCHANGED <<lock, faults>>
     \/ /\ Alive(c) /\ owned = None
        /\ Goto(t, "killed")
        /\ UNCHANGED <<life, listener, foreignKill, lock, faults>>
     \/ /\ Alive(c) /\ Fault
        /\ Return(t)
        /\ UNCHANGED <<life, listener, foreignKill>>
  /\ UNCHANGED <<reused, record, owned, restarts, lostRecords>>

\* Mutant of ForceOwned: the identity is not looked at again.
ForceAny(t) ==
  /\ At(t, "killed")
  /\ IF PidAlive(call[t].child)
     THEN Signal(call[t].child)
     ELSE UNCHANGED <<life, listener, foreignKill>>
  /\ Goto(t, "return")
  /\ UNCHANGED <<reused, record, owned, lock, bounds, lostRecords>>

\* The wait of stop_owned: a pid that stays alive is forced only when it is
\* still the child.
ForceOwned(t) ==
  LET c == call[t].child IN
  /\ At(t, "killed")
  /\ \/ /\ ~PidAlive(c)
        /\ Goto(t, "return")
        /\ UNCHANGED <<life, listener, foreignKill, lock>>
     \/ /\ c \in reused
        /\ Return(t)
        /\ UNCHANGED <<life, listener, foreignKill>>
     \/ /\ Alive(c)
        /\ Signal(c)
        /\ Goto(t, "return")
        /\ UNCHANGED lock
  /\ UNCHANGED <<reused, record, owned, bounds, lostRecords>>

\* The child is gone: it is forgotten, and whatever record there is with it.
FinishStop(t) ==
  /\ At(t, "return")
  /\ owned' = None
  /\ RecordDeleted
  /\ excused' = IF record' = None
                THEN excused \cup RecordOfAnother(call[t].child) ELSE excused
  /\ Return(t)
  /\ UNCHANGED <<sysVars, restarts, foreignKill>>

-----------------------------------------------------------------------------
CallStep(t) ==
  \/ ReadRecord(t) \/ CheckAlive(t) \/ DeleteRecord(t) \/ Probe(t)
  \/ EnterStart(t) \/ Launch(t) \/ WaitReady(t) \/ AbandonChild(t)
  \/ WriteRecord(t) \/ EnterStop(t) \/ Terminate(t) \/ ForceOwned(t)
  \/ FinishStop(t)

Next ==
  \/ \E t \in Callers :
       CallStatus(t) \/ CallStart(t) \/ CallStop(t) \/ CallStep(t)
  \/ \E c \in Children : ChildBoots(c) \/ ChildDies(c) \/ PidReused(c)
  \/ ForeignListener \/ Restart

\* A thread that calls the manager runs on: probes and waits have timeouts.
Fairness == \A t \in Callers : WF_vars(CallStep(t))

Spec == Init /\ [][Next]_vars

FairSpec == Spec /\ Fairness

-----------------------------------------------------------------------------
(* Properties *)

TypeOK ==
  /\ life \in [Children -> {"unborn", "booting", "serving", "dead"}]
  /\ reused \subseteq Children
  /\ excused \subseteq Children /\ stale \subseteq Children
  /\ listener \in Children \cup {"foreign", None}
  /\ record \in Children \cup {None} /\ owned \in Children \cup {None}
  /\ lock \in Callers \cup {None}
  /\ call \in [Callers -> [step : CallSteps, child : Children \cup {None},
                           after : {"idle", "start"}]]
  /\ restarts \in Nat /\ faults \in Nat /\ foreignKill \in BOOLEAN

\* No process but a child of the backend is ever signalled, also when the
\* child died, the backend restarted and its pid was given away before or
\* during a stop (manager.py:227-246, process.py:105-155).
NeverKillsForeign == ~foreignKill

\* The handle kept in memory and the record on disk name one child, for stop
\* checks the identity of one and terminates the other; or the record is one
\* that a start had to leave in place, since it could not be read or deleted
\* (manager.py:221-258, 344-356).
RecordIsOwned ==
  owned # None /\ record # None => record = owned \/ record \in stale

Starting(t, c) ==
  lock = t /\ call[t].child = c /\ call[t].step \in {"boot", "write", "unboot"}

\* A living child can be found again by its record, or by the start that is
\* still at it; else it was lost to a fault, to an end of the backend during
\* its start, to a status that read the record of an older child, or to a
\* start that could not read its record (manager.py:101-113, 152-219).
ChildAccounted ==
  \A c \in Children :
    Alive(c) => record = c \/ c \in excused \/ \E t \in Callers : Starting(t, c)

\* Whoever takes the lock gives it back: start answers with status while it
\* holds it, and the lock is not reentrant (manager.py:99, 152-258).
LockReturns == \A t \in Callers : lock = t ~> lock # t
=============================================================================
