------------------------- MODULE ComfyManagerProofs -------------------------
(***************************************************************************)
(* The safety of the managed child for any threads, children and bounds.   *)
(* RecordIsOwned and ChildAccounted are not inductive: a start and a stop  *)
(* change handle and record in several steps, between which status goes on *)
(* without the lock.  LockInv says who is inside the lock's section,       *)
(* RecordInv what its holder has done so far, LifeInv which of the         *)
(* children a thread looks at may still live.                              *)
(***************************************************************************)
EXTENDS ComfyManager, TLAPS

\* Steps of a thread between taking the lock and giving it back.
Locked == {"launch", "boot", "write", "unboot", "kill", "killed", "return"}

\* Steps of status.
Looking == {"read", "check", "delete", "probe"}

\* The lock is with the thread inside the section, and never with one that
\* is about to ask for it.
LockInv ==
  \A t \in Callers :
    /\ call[t].step \in Locked => lock = t
    /\ call[t].step \in {"idle", "start", "stop"} => lock # t
    /\ call[t].after = "start" => call[t].step \in Looking /\ lock # t

\* What the holder of the lock has done to record and handle.
RecordInv ==
  /\ RecordIsOwned
  /\ \A t \in Callers :
       /\ call[t].step \in {"launch", "boot", "write", "unboot"} =>
            record \in {None} \cup stale
       /\ call[t].step \in {"boot", "write", "unboot"} => owned = call[t].child

\* The children that a record or a thread names were started, and those that
\* a thread will forget or whose pid was given away are dead.
LifeInv ==
  /\ ~foreignKill
  /\ record # None => life[record] # "unborn"
  /\ owned # None => life[owned] # "unborn" /\ owned \notin reused
  /\ \A c \in reused : life[c] = "dead"
  /\ \A t \in Callers :
       LET c == call[t].child IN
       /\ c # None => life[c] # "unborn"
       /\ call[t].step \in {"check", "delete", "boot", "write", "unboot", "kill",
                            "killed", "return"} => c # None
       /\ call[t].step \in {"delete", "return"} => life[c] = "dead"
       /\ call[t].step = "kill" => c \notin reused

ManagerInv == TypeOK /\ LockInv /\ LifeInv /\ RecordInv /\ ChildAccounted

-----------------------------------------------------------------------------
\* No step enters the section beside its holder, or leaves it with the lock.
LEMMA LockStep ==
  ASSUME TypeOK, LockInv, [Next]_vars
  PROVE  LockInv'
<1>1. CASE UNCHANGED vars
  BY <1>1, NoneAssumption
    DEF vars, TypeOK, CallSteps, LockInv, Locked, Looking, Idle, sysVars,
        bounds, lostRecords
<1>2. ASSUME NEW t \in Callers, CallStatus(t)
      PROVE  LockInv'
  BY <1>2, NoneAssumption
    DEF CallStatus, At, TypeOK, CallSteps, LockInv, Locked, Looking, Idle,
        sysVars, bounds, lostRecords
<1>3. ASSUME NEW t \in Callers, ReadRecord(t)
      PROVE  LockInv'
  BY <1>3, NoneAssumption
    DEF ReadRecord, Fault, At, Stopped, Return, GotoWith, Untouched, TypeOK,
        CallSteps, LockInv, Locked, Looking, Idle, sysVars, bounds, lostRecords
<1>4. ASSUME NEW t \in Callers, CheckAlive(t)
      PROVE  LockInv'
  BY <1>4, NoneAssumption
    DEF CheckAlive, At, Goto, Untouched, PidAlive, Alive, TypeOK, CallSteps,
        LockInv, Locked, Looking, Idle, sysVars, bounds, lostRecords
<1>5. ASSUME NEW t \in Callers, DeleteRecord(t)
      PROVE  LockInv'
  BY <1>5, NoneAssumption
    DEF DeleteRecord, Fault, RecordOfAnother, At, Stopped, Return, Untouched,
        TypeOK, CallSteps, LockInv, Locked, Looking, Idle, sysVars, bounds,
        lostRecords
<1>6. ASSUME NEW t \in Callers, Probe(t)
      PROVE  LockInv'
  BY <1>6, NoneAssumption
    DEF Probe, At, Return, Untouched, TypeOK, CallSteps, LockInv, Locked,
        Looking, Idle, sysVars, bounds, lostRecords
<1>7. ASSUME NEW t \in Callers, CallStart(t)
      PROVE  LockInv'
  BY <1>7, NoneAssumption
    DEF CallStart, At, Goto, TypeOK, CallSteps, LockInv, Locked, Looking, Idle,
        sysVars, bounds, lostRecords
<1>8. ASSUME NEW t \in Callers, EnterStart(t)
      PROVE  LockInv'
  BY <1>8, NoneAssumption
    DEF EnterStart, Fault, RecordKept, RecordDeleted, At, Return, Goto,
        Untouched, PidAlive, Alive, TypeOK, CallSteps, LockInv, Locked,
        Looking, Idle, sysVars, bounds, lostRecords
<1>9. ASSUME NEW t \in Callers, Launch(t)
      PROVE  LockInv'
  BY <1>9, NoneAssumption
    DEF Launch, At, Return, GotoWith, Fault, TypeOK, CallSteps, LockInv,
        Locked, Looking, Idle, sysVars, bounds, lostRecords
<1>10. ASSUME NEW t \in Callers, WaitReady(t)
      PROVE  LockInv'
  BY <1>10, NoneAssumption
    DEF WaitReady, At, Goto, Untouched, TypeOK, CallSteps, LockInv, Locked,
        Looking, Idle, sysVars, bounds, lostRecords
<1>11. ASSUME NEW t \in Callers, AbandonChild(t)
      PROVE  LockInv'
  BY <1>11, NoneAssumption
    DEF AbandonChild, At, Return, Dead, Fault, Alive, TypeOK, CallSteps,
        LockInv, Locked, Looking, Idle, sysVars, bounds, lostRecords
<1>12. ASSUME NEW t \in Callers, WriteRecord(t)
      PROVE  LockInv'
  BY <1>12, NoneAssumption
    DEF WriteRecord, RecordOfAnother, At, Return, Fault, TypeOK, CallSteps,
        LockInv, Locked, Looking, Idle, sysVars, bounds, lostRecords
<1>13. ASSUME NEW t \in Callers, CallStop(t)
      PROVE  LockInv'
  BY <1>13, NoneAssumption
    DEF CallStop, At, Goto, TypeOK, CallSteps, LockInv, Locked, Looking, Idle,
        sysVars, bounds, lostRecords
<1>14. ASSUME NEW t \in Callers, EnterStop(t)
      PROVE  LockInv'
  BY <1>14, NoneAssumption
    DEF EnterStop, Fault, RecordKept, RecordDeleted, Identified, At, Return,
        GotoWith, Untouched, PidAlive, Alive, TypeOK, CallSteps, LockInv,
        Locked, Looking, Idle, sysVars, bounds, lostRecords
<1>15. ASSUME NEW t \in Callers, Terminate(t)
      PROVE  LockInv'
  BY <1>15, NoneAssumption
    DEF Terminate, At, Signal, Dead, Goto, Return, Fault, Alive, TypeOK,
        CallSteps, LockInv, Locked, Looking, Idle, sysVars, bounds, lostRecords
<1>16. ASSUME NEW t \in Callers, ForceOwned(t)
      PROVE  LockInv'
  BY <1>16, NoneAssumption
    DEF ForceOwned, At, Signal, Dead, Goto, Return, PidAlive, Alive, TypeOK,
        CallSteps, LockInv, Locked, Looking, Idle, sysVars, bounds, lostRecords
<1>17. ASSUME NEW t \in Callers, FinishStop(t)
      PROVE  LockInv'
  BY <1>17, NoneAssumption
    DEF FinishStop, Fault, RecordKept, RecordDeleted, RecordOfAnother, At,
        Return, Untouched, TypeOK, CallSteps, LockInv, Locked, Looking, Idle,
        sysVars, bounds, lostRecords
<1>18. ASSUME NEW c \in Children, ChildBoots(c)
      PROVE  LockInv'
  BY <1>18, NoneAssumption
    DEF ChildBoots, TypeOK, CallSteps, LockInv, Locked, Looking, Idle, sysVars,
        bounds, lostRecords
<1>19. ASSUME NEW c \in Children, ChildDies(c)
      PROVE  LockInv'
  BY <1>19, NoneAssumption
    DEF ChildDies, Dead, Alive, TypeOK, CallSteps, LockInv, Locked, Looking,
        Idle, sysVars, bounds, lostRecords
<1>20. ASSUME NEW c \in Children, PidReused(c)
      PROVE  LockInv'
  BY <1>20, NoneAssumption
    DEF PidReused, At, TypeOK, CallSteps, LockInv, Locked, Looking, Idle,
        sysVars, bounds, lostRecords
<1>21. CASE ForeignListener
  BY <1>21, NoneAssumption
    DEF ForeignListener, Fault, TypeOK, CallSteps, LockInv, Locked, Looking,
        Idle, sysVars, bounds, lostRecords
<1>22. CASE Restart
  BY <1>22, NoneAssumption
    DEF Restart, Alive, TypeOK, CallSteps, LockInv, Locked, Looking, Idle,
        sysVars, bounds, lostRecords
<1> QED
  BY <1>1, <1>2, <1>3, <1>4, <1>5, <1>6, <1>7, <1>8, <1>9, <1>10, 
     <1>11, <1>12, <1>13, <1>14, <1>15, <1>16, <1>17, <1>18, 
     <1>19, <1>20, <1>21, <1>22
  DEF Next, CallStep

\* A dead child stays dead, and no signal reaches a pid that was given away.
LEMMA LifeStep ==
  ASSUME TypeOK, LifeInv, [Next]_vars
  PROVE  LifeInv'
<1>1. CASE UNCHANGED vars
  BY <1>1, NoneAssumption
    DEF vars, TypeOK, CallSteps, LifeInv, Idle, sysVars, bounds, lostRecords
<1>2. ASSUME NEW t \in Callers, CallStatus(t)
      PROVE  LifeInv'
  BY <1>2, NoneAssumption
    DEF CallStatus, At, TypeOK, CallSteps, LifeInv, Idle, sysVars, bounds,
        lostRecords
<1>3. ASSUME NEW t \in Callers, ReadRecord(t)
      PROVE  LifeInv'
  BY <1>3, NoneAssumption
    DEF ReadRecord, Fault, At, Stopped, Return, GotoWith, Untouched, TypeOK,
        CallSteps, LifeInv, Idle, sysVars, bounds, lostRecords
<1>4. ASSUME NEW t \in Callers, CheckAlive(t)
      PROVE  LifeInv'
  BY <1>4, NoneAssumption
    DEF CheckAlive, At, Goto, Untouched, PidAlive, Alive, TypeOK, CallSteps,
        LifeInv, Idle, sysVars, bounds, lostRecords
<1>5. ASSUME NEW t \in Callers, DeleteRecord(t)
      PROVE  LifeInv'
  BY <1>5, NoneAssumption
    DEF DeleteRecord, Fault, RecordOfAnother, At, Stopped, Return, Untouched,
        TypeOK, CallSteps, LifeInv, Idle, sysVars, bounds, lostRecords
<1>6. ASSUME NEW t \in Callers, Probe(t)
      PROVE  LifeInv'
  BY <1>6, NoneAssumption
    DEF Probe, At, Return, Untouched, TypeOK, CallSteps, LifeInv, Idle,
        sysVars, bounds, lostRecords
<1>7. ASSUME NEW t \in Callers, CallStart(t)
      PROVE  LifeInv'
  BY <1>7, NoneAssumption
    DEF CallStart, At, Goto, TypeOK, CallSteps, LifeInv, Idle, sysVars, bounds,
        lostRecords
<1>8. ASSUME NEW t \in Callers, EnterStart(t)
      PROVE  LifeInv'
  BY <1>8, NoneAssumption
    DEF EnterStart, Fault, RecordKept, RecordDeleted, At, Return, Goto,
        Untouched, PidAlive, Alive, TypeOK, CallSteps, LifeInv, Idle, sysVars,
        bounds, lostRecords
<1>9. ASSUME NEW t \in Callers, Launch(t)
      PROVE  LifeInv'
  BY <1>9, NoneAssumption
    DEF Launch, At, Return, GotoWith, Fault, TypeOK, CallSteps, LifeInv, Idle,
        sysVars, bounds, lostRecords
<1>10. ASSUME NEW t \in Callers, WaitReady(t)
      PROVE  LifeInv'
  BY <1>10, NoneAssumption
    DEF WaitReady, At, Goto, Untouched, TypeOK, CallSteps, LifeInv, Idle,
        sysVars, bounds, lostRecords
<1>11. ASSUME NEW t \in Callers, AbandonChild(t)
      PROVE  LifeInv'
  BY <1>11, NoneAssumption
    DEF AbandonChild, At, Return, Dead, Fault, Alive, TypeOK, CallSteps,
        LifeInv, Idle, sysVars, bounds, lostRecords
<1>12. ASSUME NEW t \in Callers, WriteRecord(t)
      PROVE  LifeInv'
  BY <1>12, NoneAssumption
    DEF WriteRecord, RecordOfAnother, At, Return, Fault, TypeOK, CallSteps,
        LifeInv, Idle, sysVars, bounds, lostRecords
<1>13. ASSUME NEW t \in Callers, CallStop(t)
      PROVE  LifeInv'
  BY <1>13, NoneAssumption
    DEF CallStop, At, Goto, TypeOK, CallSteps, LifeInv, Idle, sysVars, bounds,
        lostRecords
<1>14. ASSUME NEW t \in Callers, EnterStop(t)
      PROVE  LifeInv'
  BY <1>14, NoneAssumption
    DEF EnterStop, Fault, RecordKept, RecordDeleted, Identified, At, Return,
        GotoWith, Untouched, PidAlive, Alive, TypeOK, CallSteps, LifeInv, Idle,
        sysVars, bounds, lostRecords
<1>15. ASSUME NEW t \in Callers, Terminate(t)
      PROVE  LifeInv'
  BY <1>15, NoneAssumption
    DEF Terminate, At, Signal, Dead, Goto, Return, Fault, Alive, TypeOK,
        CallSteps, LifeInv, Idle, sysVars, bounds, lostRecords
<1>16. ASSUME NEW t \in Callers, ForceOwned(t)
      PROVE  LifeInv'
  BY <1>16, NoneAssumption
    DEF ForceOwned, At, Signal, Dead, Goto, Return, PidAlive, Alive, TypeOK,
        CallSteps, LifeInv, Idle, sysVars, bounds, lostRecords
<1>17. ASSUME NEW t \in Callers, FinishStop(t)
      PROVE  LifeInv'
  BY <1>17, NoneAssumption
    DEF FinishStop, Fault, RecordKept, RecordDeleted, RecordOfAnother, At,
        Return, Untouched, TypeOK, CallSteps, LifeInv, Idle, sysVars, bounds,
        lostRecords
<1>18. ASSUME NEW c \in Children, ChildBoots(c)
      PROVE  LifeInv'
  BY <1>18, NoneAssumption
    DEF ChildBoots, TypeOK, CallSteps, LifeInv, Idle, sysVars, bounds,
        lostRecords
<1>19. ASSUME NEW c \in Children, ChildDies(c)
      PROVE  LifeInv'
  BY <1>19, NoneAssumption
    DEF ChildDies, Dead, Alive, TypeOK, CallSteps, LifeInv, Idle, sysVars,
        bounds, lostRecords
<1>20. ASSUME NEW c \in Children, PidReused(c)
      PROVE  LifeInv'
  BY <1>20, NoneAssumption
    DEF PidReused, At, TypeOK, CallSteps, LifeInv, Idle, sysVars, bounds,
        lostRecords
<1>21. CASE ForeignListener
  BY <1>21, NoneAssumption
    DEF ForeignListener, Fault, TypeOK, CallSteps, LifeInv, Idle, sysVars,
        bounds, lostRecords
<1>22. CASE Restart
  BY <1>22, NoneAssumption
    DEF Restart, Alive, TypeOK, CallSteps, LifeInv, Idle, sysVars, bounds,
        lostRecords
<1> QED
  BY <1>1, <1>2, <1>3, <1>4, <1>5, <1>6, <1>7, <1>8, <1>9, <1>10, 
     <1>11, <1>12, <1>13, <1>14, <1>15, <1>16, <1>17, <1>18, 
     <1>19, <1>20, <1>21, <1>22
  DEF Next, CallStep

\* Every step keeps the types.  A child is at hand where one is signalled.
LEMMA TypeStep ==
  ASSUME TypeOK, LifeInv, [Next]_vars
  PROVE  TypeOK'
<1>1. CASE UNCHANGED vars
  BY <1>1, NoneAssumption DEF vars, TypeOK, CallSteps, Idle, sysVars, bounds, lostRecords
<1>2. ASSUME NEW t \in Callers, CallStatus(t)
      PROVE  TypeOK'
  <2>1. PICK next \in {"idle", "start"} :
          call' = [call EXCEPT ![t] = [Idle EXCEPT !.step = "read", !.after = next]]
    BY <1>2 DEF CallStatus
  <2>2. [Idle EXCEPT !.step = "read", !.after = next] \in
          [step : CallSteps, child : Children \cup {None}, after : {"idle", "start"}]
    BY DEF Idle, CallSteps
  <2> QED BY <1>2, <2>1, <2>2 DEF CallStatus, TypeOK, CallSteps, sysVars, bounds, lostRecords
<1>3. ASSUME NEW t \in Callers, ReadRecord(t)
      PROVE  TypeOK'
  BY <1>3, NoneAssumption
    DEF ReadRecord, Fault, At, Stopped, Return, GotoWith, Untouched, TypeOK,
        CallSteps, Idle, sysVars, bounds, lostRecords
<1>4. ASSUME NEW t \in Callers, CheckAlive(t)
      PROVE  TypeOK'
  BY <1>4, NoneAssumption
    DEF CheckAlive, At, Goto, Untouched, PidAlive, Alive, TypeOK, CallSteps,
        Idle, sysVars, bounds, lostRecords
<1>5. ASSUME NEW t \in Callers, DeleteRecord(t)
      PROVE  TypeOK'
  BY <1>5, NoneAssumption
    DEF DeleteRecord, Fault, RecordOfAnother, At, Stopped, Return, Untouched,
        TypeOK, CallSteps, Idle, sysVars, bounds, lostRecords
<1>6. ASSUME NEW t \in Callers, Probe(t)
      PROVE  TypeOK'
  BY <1>6, NoneAssumption
    DEF Probe, At, Return, Untouched, TypeOK, CallSteps, Idle, sysVars, bounds,
        lostRecords
<1>7. ASSUME NEW t \in Callers, CallStart(t)
      PROVE  TypeOK'
  BY <1>7, NoneAssumption
    DEF CallStart, At, Goto, TypeOK, CallSteps, Idle, sysVars, bounds,
        lostRecords
<1>8. ASSUME NEW t \in Callers, EnterStart(t)
      PROVE  TypeOK'
  BY <1>8, NoneAssumption
    DEF EnterStart, Fault, RecordKept, RecordDeleted, At, Return, Goto,
        Untouched, PidAlive, Alive, TypeOK, CallSteps, Idle, sysVars, bounds,
        lostRecords
<1>9. ASSUME NEW t \in Callers, Launch(t)
      PROVE  TypeOK'
  BY <1>9, NoneAssumption
    DEF Launch, At, Return, GotoWith, Fault, TypeOK, CallSteps, Idle, sysVars,
        bounds, lostRecords
<1>10. ASSUME NEW t \in Callers, WaitReady(t)
      PROVE  TypeOK'
  BY <1>10, NoneAssumption
    DEF WaitReady, At, Goto, Untouched, TypeOK, CallSteps, Idle, sysVars,
        bounds, lostRecords
<1>11. ASSUME NEW t \in Callers, AbandonChild(t)
      PROVE  TypeOK'
  <2>1. call[t].child \in Children
    BY <1>11 DEF AbandonChild, At, LifeInv, TypeOK
  <2>2. /\ life' \in [Children -> {"unborn", "booting", "serving", "dead"}]
        /\ listener' \in Children \cup {"foreign", None}
        /\ foreignKill' \in BOOLEAN
    BY <1>11 DEF AbandonChild, Dead, TypeOK, sysVars
  <2>3. /\ call' \in [Callers -> [step : CallSteps, child : Children \cup {None},
                                 after : {"idle", "start"}]]
        /\ lock' \in Callers \cup {None}
    BY <1>11 DEF AbandonChild, Return, Goto, Idle, TypeOK, CallSteps
  <2>4. /\ excused' \subseteq Children /\ stale' \subseteq Children /\ faults' \in Nat
    BY <1>11, <2>1 DEF AbandonChild, Fault, TypeOK, bounds, lostRecords
  <2> QED
    BY <1>11, <2>2, <2>3, <2>4
    DEF AbandonChild, TypeOK, sysVars, bounds, lostRecords, Untouched
<1>12. ASSUME NEW t \in Callers, WriteRecord(t)
      PROVE  TypeOK'
  <2>1. call[t].child \in Children
    BY <1>12 DEF WriteRecord, RecordOfAnother, At, LifeInv, TypeOK
  <2>2. /\ life' \in [Children -> {"unborn", "booting", "serving", "dead"}]
        /\ listener' \in Children \cup {"foreign", None}
        /\ foreignKill' \in BOOLEAN
    BY <1>12 DEF WriteRecord, RecordOfAnother, sysVars, TypeOK, sysVars
  <2>3. /\ call' \in [Callers -> [step : CallSteps, child : Children \cup {None},
                                 after : {"idle", "start"}]]
        /\ lock' \in Callers \cup {None}
    BY <1>12 DEF WriteRecord, RecordOfAnother, Return, Goto, Idle, TypeOK, CallSteps
  <2>4. /\ excused' \subseteq Children /\ stale' \subseteq Children /\ faults' \in Nat
    BY <1>12, <2>1 DEF WriteRecord, RecordOfAnother, Fault, TypeOK, bounds, lostRecords
  <2> QED BY <1>12, <2>2, <2>3, <2>4 DEF WriteRecord, RecordOfAnother, TypeOK, sysVars, bounds, lostRecords, Untouched
<1>13. ASSUME NEW t \in Callers, CallStop(t)
      PROVE  TypeOK'
  BY <1>13, NoneAssumption
    DEF CallStop, At, Goto, TypeOK, CallSteps, Idle, sysVars, bounds,
        lostRecords
<1>14. ASSUME NEW t \in Callers, EnterStop(t)
      PROVE  TypeOK'
  BY <1>14, NoneAssumption
    DEF EnterStop, Fault, RecordKept, RecordDeleted, Identified, At, Return,
        GotoWith, Untouched, PidAlive, Alive, TypeOK, CallSteps, Idle, sysVars,
        bounds, lostRecords
<1>15. ASSUME NEW t \in Callers, Terminate(t)
      PROVE  TypeOK'
  <2>1. call[t].child \in Children
    BY <1>15 DEF Terminate, At, LifeInv, TypeOK
  <2>2. /\ life' \in [Children -> {"unborn", "booting", "serving", "dead"}]
        /\ listener' \in Children \cup {"foreign", None}
        /\ foreignKill' \in BOOLEAN
    BY <1>15 DEF Terminate, Signal, Dead, TypeOK, sysVars
  <2>3. /\ call' \in [Callers -> [step : CallSteps, child : Children \cup {None},
                                 after : {"idle", "start"}]]
        /\ lock' \in Callers \cup {None}
    BY <1>15 DEF Terminate, Return, Goto, Idle, TypeOK, CallSteps
  <2>4. /\ excused' \subseteq Children /\ stale' \subseteq Children /\ faults' \in Nat
    BY <1>15, <2>1 DEF Terminate, Fault, TypeOK, bounds, lostRecords
  <2> QED
    BY <1>15, <2>2, <2>3, <2>4
    DEF Terminate, TypeOK, sysVars, bounds, lostRecords, Untouched
<1>16. ASSUME NEW t \in Callers, ForceOwned(t)
      PROVE  TypeOK'
  <2>1. call[t].child \in Children
    BY <1>16 DEF ForceOwned, At, LifeInv, TypeOK
  <2>2. /\ life' \in [Children -> {"unborn", "booting", "serving", "dead"}]
        /\ listener' \in Children \cup {"foreign", None}
        /\ foreignKill' \in BOOLEAN
    BY <1>16 DEF ForceOwned, Signal, Dead, TypeOK, sysVars
  <2>3. /\ call' \in [Callers -> [step : CallSteps, child : Children \cup {None},
                                 after : {"idle", "start"}]]
        /\ lock' \in Callers \cup {None}
    BY <1>16 DEF ForceOwned, Return, Goto, Idle, TypeOK, CallSteps
  <2>4. /\ excused' \subseteq Children /\ stale' \subseteq Children /\ faults' \in Nat
    BY <1>16, <2>1 DEF ForceOwned, Fault, TypeOK, bounds, lostRecords
  <2> QED
    BY <1>16, <2>2, <2>3, <2>4
    DEF ForceOwned, TypeOK, sysVars, bounds, lostRecords, Untouched
<1>17. ASSUME NEW t \in Callers, FinishStop(t)
      PROVE  TypeOK'
  BY <1>17, NoneAssumption
    DEF FinishStop, Fault, RecordKept, RecordDeleted, RecordOfAnother, At,
        Return, Untouched, TypeOK, CallSteps, Idle, sysVars, bounds,
        lostRecords
<1>18. ASSUME NEW c \in Children, ChildBoots(c)
      PROVE  TypeOK'
  BY <1>18, NoneAssumption DEF ChildBoots, TypeOK, CallSteps, Idle, sysVars, bounds, lostRecords
<1>19. ASSUME NEW c \in Children, ChildDies(c)
      PROVE  TypeOK'
  BY <1>19, NoneAssumption
    DEF ChildDies, Dead, Alive, TypeOK, CallSteps, Idle, sysVars, bounds,
        lostRecords
<1>20. ASSUME NEW c \in Children, PidReused(c)
      PROVE  TypeOK'
  BY <1>20, NoneAssumption
    DEF PidReused, At, TypeOK, CallSteps, Idle, sysVars, bounds, lostRecords
<1>21. CASE ForeignListener
  BY <1>21, NoneAssumption
    DEF ForeignListener, Fault, TypeOK, CallSteps, Idle, sysVars, bounds,
        lostRecords
<1>22. CASE Restart
  BY <1>22, NoneAssumption
    DEF Restart, Alive, TypeOK, CallSteps, Idle, sysVars, bounds, lostRecords
<1> QED
  BY <1>1, <1>2, <1>3, <1>4, <1>5, <1>6, <1>7, <1>8, <1>9, <1>10, 
     <1>11, <1>12, <1>13, <1>14, <1>15, <1>16, <1>17, <1>18, 
     <1>19, <1>20, <1>21, <1>22
  DEF Next, CallStep

\* Only the lock's holder writes record and handle, the record last.
LEMMA RecordStep ==
  ASSUME TypeOK, LockInv, RecordInv, [Next]_vars
  PROVE  RecordInv'
<1>1. CASE UNCHANGED vars
  BY <1>1, NoneAssumption
    DEF vars, TypeOK, CallSteps, LockInv, Locked, Looking, RecordInv,
        RecordIsOwned, Idle, sysVars, bounds, lostRecords
<1>2. ASSUME NEW t \in Callers, CallStatus(t)
      PROVE  RecordInv'
  BY <1>2, NoneAssumption
    DEF CallStatus, At, TypeOK, CallSteps, LockInv, Locked, Looking, RecordInv,
        RecordIsOwned, Idle, sysVars, bounds, lostRecords
<1>3. ASSUME NEW t \in Callers, ReadRecord(t)
      PROVE  RecordInv'
  BY <1>3, NoneAssumption
    DEF ReadRecord, Fault, At, Stopped, Return, GotoWith, Untouched, TypeOK,
        CallSteps, LockInv, Locked, Looking, RecordInv, RecordIsOwned, Idle,
        sysVars, bounds, lostRecords
<1>4. ASSUME NEW t \in Callers, CheckAlive(t)
      PROVE  RecordInv'
  BY <1>4, NoneAssumption
    DEF CheckAlive, At, Goto, Untouched, PidAlive, Alive, TypeOK, CallSteps,
        LockInv, Locked, Looking, RecordInv, RecordIsOwned, Idle, sysVars,
        bounds, lostRecords
<1>5. ASSUME NEW t \in Callers, DeleteRecord(t)
      PROVE  RecordInv'
  BY <1>5, NoneAssumption
    DEF DeleteRecord, Fault, RecordOfAnother, At, Stopped, Return, Untouched,
        TypeOK, CallSteps, LockInv, Locked, Looking, RecordInv, RecordIsOwned,
        Idle, sysVars, bounds, lostRecords
<1>6. ASSUME NEW t \in Callers, Probe(t)
      PROVE  RecordInv'
  BY <1>6, NoneAssumption
    DEF Probe, At, Return, Untouched, TypeOK, CallSteps, LockInv, Locked,
        Looking, RecordInv, RecordIsOwned, Idle, sysVars, bounds, lostRecords
<1>7. ASSUME NEW t \in Callers, CallStart(t)
      PROVE  RecordInv'
  BY <1>7, NoneAssumption
    DEF CallStart, At, Goto, TypeOK, CallSteps, LockInv, Locked, Looking,
        RecordInv, RecordIsOwned, Idle, sysVars, bounds, lostRecords
<1>8. ASSUME NEW t \in Callers, EnterStart(t)
      PROVE  RecordInv'
  BY <1>8, NoneAssumption
    DEF EnterStart, Fault, RecordKept, RecordDeleted, At, Return, Goto,
        Untouched, PidAlive, Alive, TypeOK, CallSteps, LockInv, Locked,
        Looking, RecordInv, RecordIsOwned, Idle, sysVars, bounds, lostRecords
<1>9. ASSUME NEW t \in Callers, Launch(t)
      PROVE  RecordInv'
  BY <1>9, NoneAssumption
    DEF Launch, At, Return, GotoWith, Fault, TypeOK, CallSteps, LockInv,
        Locked, Looking, RecordInv, RecordIsOwned, Idle, sysVars, bounds,
        lostRecords
<1>10. ASSUME NEW t \in Callers, WaitReady(t)
      PROVE  RecordInv'
  BY <1>10, NoneAssumption
    DEF WaitReady, At, Goto, Untouched, TypeOK, CallSteps, LockInv, Locked,
        Looking, RecordInv, RecordIsOwned, Idle, sysVars, bounds, lostRecords
<1>11. ASSUME NEW t \in Callers, AbandonChild(t)
      PROVE  RecordInv'
  BY <1>11, NoneAssumption
    DEF AbandonChild, At, Return, Dead, Fault, Alive, TypeOK, CallSteps,
        LockInv, Locked, Looking, RecordInv, RecordIsOwned, Idle, sysVars,
        bounds, lostRecords
<1>12. ASSUME NEW t \in Callers, WriteRecord(t)
      PROVE  RecordInv'
  BY <1>12, NoneAssumption
    DEF WriteRecord, RecordOfAnother, At, Return, Fault, TypeOK, CallSteps,
        LockInv, Locked, Looking, RecordInv, RecordIsOwned, Idle, sysVars,
        bounds, lostRecords
<1>13. ASSUME NEW t \in Callers, CallStop(t)
      PROVE  RecordInv'
  BY <1>13, NoneAssumption
    DEF CallStop, At, Goto, TypeOK, CallSteps, LockInv, Locked, Looking,
        RecordInv, RecordIsOwned, Idle, sysVars, bounds, lostRecords
<1>14. ASSUME NEW t \in Callers, EnterStop(t)
      PROVE  RecordInv'
  BY <1>14, NoneAssumption
    DEF EnterStop, Fault, RecordKept, RecordDeleted, Identified, At, Return,
        GotoWith, Untouched, PidAlive, Alive, TypeOK, CallSteps, LockInv,
        Locked, Looking, RecordInv, RecordIsOwned, Idle, sysVars, bounds,
        lostRecords
<1>15. ASSUME NEW t \in Callers, Terminate(t)
      PROVE  RecordInv'
  BY <1>15, NoneAssumption
    DEF Terminate, At, Signal, Dead, Goto, Return, Fault, Alive, TypeOK,
        CallSteps, LockInv, Locked, Looking, RecordInv, RecordIsOwned, Idle,
        sysVars, bounds, lostRecords
<1>16. ASSUME NEW t \in Callers, ForceOwned(t)
      PROVE  RecordInv'
  BY <1>16, NoneAssumption
    DEF ForceOwned, At, Signal, Dead, Goto, Return, PidAlive, Alive, TypeOK,
        CallSteps, LockInv, Locked, Looking, RecordInv, RecordIsOwned, Idle,
        sysVars, bounds, lostRecords
<1>17. ASSUME NEW t \in Callers, FinishStop(t)
      PROVE  RecordInv'
  BY <1>17, NoneAssumption
    DEF FinishStop, Fault, RecordKept, RecordDeleted, RecordOfAnother, At,
        Return, Untouched, TypeOK, CallSteps, LockInv, Locked, Looking,
        RecordInv, RecordIsOwned, Idle, sysVars, bounds, lostRecords
<1>18. ASSUME NEW c \in Children, ChildBoots(c)
      PROVE  RecordInv'
  BY <1>18, NoneAssumption
    DEF ChildBoots, TypeOK, CallSteps, LockInv, Locked, Looking, RecordInv,
        RecordIsOwned, Idle, sysVars, bounds, lostRecords
<1>19. ASSUME NEW c \in Children, ChildDies(c)
      PROVE  RecordInv'
  BY <1>19, NoneAssumption
    DEF ChildDies, Dead, Alive, TypeOK, CallSteps, LockInv, Locked, Looking,
        RecordInv, RecordIsOwned, Idle, sysVars, bounds, lostRecords
<1>20. ASSUME NEW c \in Children, PidReused(c)
      PROVE  RecordInv'
  BY <1>20, NoneAssumption
    DEF PidReused, At, TypeOK, CallSteps, LockInv, Locked, Looking, RecordInv,
        RecordIsOwned, Idle, sysVars, bounds, lostRecords
<1>21. CASE ForeignListener
  BY <1>21, NoneAssumption
    DEF ForeignListener, Fault, TypeOK, CallSteps, LockInv, Locked, Looking,
        RecordInv, RecordIsOwned, Idle, sysVars, bounds, lostRecords
<1>22. CASE Restart
  BY <1>22, NoneAssumption
    DEF Restart, Alive, TypeOK, CallSteps, LockInv, Locked, Looking, RecordInv,
        RecordIsOwned, Idle, sysVars, bounds, lostRecords
<1> QED
  BY <1>1, <1>2, <1>3, <1>4, <1>5, <1>6, <1>7, <1>8, <1>9, <1>10, 
     <1>11, <1>12, <1>13, <1>14, <1>15, <1>16, <1>17, <1>18, 
     <1>19, <1>20, <1>21, <1>22
  DEF Next, CallStep

\* A record that goes is of a dead child or one that is excused.
LEMMA AccountedStep ==
  ASSUME TypeOK, LockInv, RecordInv, LifeInv, ChildAccounted, [Next]_vars
  PROVE  ChildAccounted'
<1>1. CASE UNCHANGED vars
  BY <1>1, NoneAssumption
    DEF vars, TypeOK, CallSteps, LockInv, Locked, RecordInv, LifeInv,
        ChildAccounted, Starting, Alive, Idle, sysVars, bounds, lostRecords
<1>2. ASSUME NEW t \in Callers, CallStatus(t)
      PROVE  ChildAccounted'
  BY <1>2, NoneAssumption
    DEF CallStatus, At, TypeOK, CallSteps, LockInv, Locked, RecordInv, LifeInv,
        ChildAccounted, Starting, Alive, Idle, sysVars, bounds, lostRecords
<1>3. ASSUME NEW t \in Callers, ReadRecord(t)
      PROVE  ChildAccounted'
  BY <1>3, NoneAssumption
    DEF ReadRecord, Fault, At, Stopped, Return, GotoWith, Untouched, TypeOK,
        CallSteps, LockInv, Locked, RecordInv, LifeInv, ChildAccounted,
        Starting, Alive, Idle, sysVars, bounds, lostRecords
<1>4. ASSUME NEW t \in Callers, CheckAlive(t)
      PROVE  ChildAccounted'
  BY <1>4, NoneAssumption
    DEF CheckAlive, At, Goto, Untouched, PidAlive, Alive, TypeOK, CallSteps,
        LockInv, Locked, RecordInv, LifeInv, ChildAccounted, Starting, Alive,
        Idle, sysVars, bounds, lostRecords
<1>5. ASSUME NEW t \in Callers, DeleteRecord(t)
      PROVE  ChildAccounted'
  BY <1>5, NoneAssumption
    DEF DeleteRecord, Fault, RecordOfAnother, At, Stopped, Return, Untouched,
        TypeOK, CallSteps, LockInv, Locked, RecordInv, LifeInv, ChildAccounted,
        Starting, Alive, Idle, sysVars, bounds, lostRecords
<1>6. ASSUME NEW t \in Callers, Probe(t)
      PROVE  ChildAccounted'
  BY <1>6, NoneAssumption
    DEF Probe, At, Return, Untouched, TypeOK, CallSteps, LockInv, Locked,
        RecordInv, LifeInv, ChildAccounted, Starting, Alive, Idle, sysVars,
        bounds, lostRecords
<1>7. ASSUME NEW t \in Callers, CallStart(t)
      PROVE  ChildAccounted'
  BY <1>7, NoneAssumption
    DEF CallStart, At, Goto, TypeOK, CallSteps, LockInv, Locked, RecordInv,
        LifeInv, ChildAccounted, Starting, Alive, Idle, sysVars, bounds,
        lostRecords
<1>8. ASSUME NEW t \in Callers, EnterStart(t)
      PROVE  ChildAccounted'
  BY <1>8, NoneAssumption
    DEF EnterStart, Fault, RecordKept, RecordDeleted, At, Return, Goto,
        Untouched, PidAlive, Alive, TypeOK, CallSteps, LockInv, Locked,
        RecordInv, LifeInv, ChildAccounted, Starting, Alive, Idle, sysVars,
        bounds, lostRecords
<1>9. ASSUME NEW t \in Callers, Launch(t)
      PROVE  ChildAccounted'
  BY <1>9, NoneAssumption
    DEF Launch, At, Return, GotoWith, Fault, TypeOK, CallSteps, LockInv,
        Locked, RecordInv, LifeInv, ChildAccounted, Starting, Alive, Idle,
        sysVars, bounds, lostRecords
<1>10. ASSUME NEW t \in Callers, WaitReady(t)
      PROVE  ChildAccounted'
  BY <1>10, NoneAssumption
    DEF WaitReady, At, Goto, Untouched, TypeOK, CallSteps, LockInv, Locked,
        RecordInv, LifeInv, ChildAccounted, Starting, Alive, Idle, sysVars,
        bounds, lostRecords
<1>11. ASSUME NEW t \in Callers, AbandonChild(t)
      PROVE  ChildAccounted'
  BY <1>11, NoneAssumption
    DEF AbandonChild, At, Return, Dead, Fault, Alive, TypeOK, CallSteps,
        LockInv, Locked, RecordInv, LifeInv, ChildAccounted, Starting, Alive,
        Idle, sysVars, bounds, lostRecords
<1>12. ASSUME NEW t \in Callers, WriteRecord(t)
      PROVE  ChildAccounted'
  BY <1>12, NoneAssumption
    DEF WriteRecord, RecordOfAnother, At, Return, Fault, TypeOK, CallSteps,
        LockInv, Locked, RecordInv, LifeInv, ChildAccounted, Starting, Alive,
        Idle, sysVars, bounds, lostRecords
<1>13. ASSUME NEW t \in Callers, CallStop(t)
      PROVE  ChildAccounted'
  BY <1>13, NoneAssumption
    DEF CallStop, At, Goto, TypeOK, CallSteps, LockInv, Locked, RecordInv,
        LifeInv, ChildAccounted, Starting, Alive, Idle, sysVars, bounds,
        lostRecords
<1>14. ASSUME NEW t \in Callers, EnterStop(t)
      PROVE  ChildAccounted'
  BY <1>14, NoneAssumption
    DEF EnterStop, Fault, RecordKept, RecordDeleted, Identified, At, Return,
        GotoWith, Untouched, PidAlive, Alive, TypeOK, CallSteps, LockInv,
        Locked, RecordInv, LifeInv, ChildAccounted, Starting, Alive, Idle,
        sysVars, bounds, lostRecords
<1>15. ASSUME NEW t \in Callers, Terminate(t)
      PROVE  ChildAccounted'
  BY <1>15, NoneAssumption
    DEF Terminate, At, Signal, Dead, Goto, Return, Fault, Alive, TypeOK,
        CallSteps, LockInv, Locked, RecordInv, LifeInv, ChildAccounted,
        Starting, Alive, Idle, sysVars, bounds, lostRecords
<1>16. ASSUME NEW t \in Callers, ForceOwned(t)
      PROVE  ChildAccounted'
  BY <1>16, NoneAssumption
    DEF ForceOwned, At, Signal, Dead, Goto, Return, PidAlive, Alive, TypeOK,
        CallSteps, LockInv, Locked, RecordInv, LifeInv, ChildAccounted,
        Starting, Alive, Idle, sysVars, bounds, lostRecords
<1>17. ASSUME NEW t \in Callers, FinishStop(t)
      PROVE  ChildAccounted'
  BY <1>17, NoneAssumption
    DEF FinishStop, Fault, RecordKept, RecordDeleted, RecordOfAnother, At,
        Return, Untouched, TypeOK, CallSteps, LockInv, Locked, RecordInv,
        LifeInv, ChildAccounted, Starting, Alive, Idle, sysVars, bounds,
        lostRecords
<1>18. ASSUME NEW c \in Children, ChildBoots(c)
      PROVE  ChildAccounted'
  BY <1>18, NoneAssumption
    DEF ChildBoots, TypeOK, CallSteps, LockInv, Locked, RecordInv, LifeInv,
        ChildAccounted, Starting, Alive, Idle, sysVars, bounds, lostRecords
<1>19. ASSUME NEW c \in Children, ChildDies(c)
      PROVE  ChildAccounted'
  BY <1>19, NoneAssumption
    DEF ChildDies, Dead, Alive, TypeOK, CallSteps, LockInv, Locked, RecordInv,
        LifeInv, ChildAccounted, Starting, Alive, Idle, sysVars, bounds,
        lostRecords
<1>20. ASSUME NEW c \in Children, PidReused(c)
      PROVE  ChildAccounted'
  BY <1>20, NoneAssumption
    DEF PidReused, At, TypeOK, CallSteps, LockInv, Locked, RecordInv, LifeInv,
        ChildAccounted, Starting, Alive, Idle, sysVars, bounds, lostRecords
<1>21. CASE ForeignListener
  BY <1>21, NoneAssumption
    DEF ForeignListener, Fault, TypeOK, CallSteps, LockInv, Locked, RecordInv,
        LifeInv, ChildAccounted, Starting, Alive, Idle, sysVars, bounds,
        lostRecords
<1>22. CASE Restart
  BY <1>22, NoneAssumption
    DEF Restart, Alive, TypeOK, CallSteps, LockInv, Locked, RecordInv, LifeInv,
        ChildAccounted, Starting, Alive, Idle, sysVars, bounds, lostRecords
<1> QED
  BY <1>1, <1>2, <1>3, <1>4, <1>5, <1>6, <1>7, <1>8, <1>9, <1>10, 
     <1>11, <1>12, <1>13, <1>14, <1>15, <1>16, <1>17, <1>18, 
     <1>19, <1>20, <1>21, <1>22
  DEF Next, CallStep

-----------------------------------------------------------------------------
\* The inductive invariant of child, record, handle and lock (manager.py:99-258,
\* process.py:105-155).
THEOREM ManagerInvariant == Spec => []ManagerInv
<1>1. ASSUME Init PROVE ManagerInv
  <2>1. TypeOK
    BY <1>1, NoneAssumption DEF Init, TypeOK, CallSteps, Idle
  <2>2. LockInv /\ LifeInv
    BY <1>1, NoneAssumption DEF Init, LockInv, LifeInv, Locked, Looking, Idle
  <2>3. RecordInv /\ ChildAccounted
    BY <1>1 DEF Init, RecordInv, RecordIsOwned, ChildAccounted, Alive, Idle
  <2> QED BY <2>1, <2>2, <2>3 DEF ManagerInv
<1>2. ManagerInv /\ [Next]_vars => ManagerInv'
  BY LockStep, LifeStep, TypeStep, RecordStep, AccountedStep DEF ManagerInv
<1> QED BY <1>1, <1>2, PTL DEF Spec

\* Every variable of the manager keeps its type.
THEOREM ManagerTypes == Spec => []TypeOK
<1>1. ManagerInv => TypeOK
  BY DEF ManagerInv
<1> QED BY <1>1, ManagerInvariant, PTL

\* No stop signals a process that is not a child of the backend, whatever was
\* started, died, was forgotten or given another's pid before
\* (manager.py:227-246, process.py:105-155).
THEOREM OnlyChildrenKilled == Spec => []NeverKillsForeign
<1>1. ManagerInv => NeverKillsForeign
  BY DEF ManagerInv, LifeInv, NeverKillsForeign
<1> QED BY <1>1, ManagerInvariant, PTL

\* Handle and record name one child, unless a start could not read or delete
\* the record of an older one (manager.py:221-258, 344-356).
THEOREM HandleMatchesRecord == Spec => []RecordIsOwned
<1>1. ManagerInv => RecordIsOwned
  BY DEF ManagerInv, RecordInv
<1> QED BY <1>1, ManagerInvariant, PTL

\* A living child can be found again, unless a fault, an end of the backend or
\* a call that read another's record lost it (manager.py:101-113, 152-219).
THEOREM ChildrenFound == Spec => []ChildAccounted
<1>1. ManagerInv => ChildAccounted
  BY DEF ManagerInv
<1> QED BY <1>1, ManagerInvariant, PTL
=============================================================================
