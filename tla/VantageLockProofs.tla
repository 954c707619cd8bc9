------------------------- MODULE VantageLockProofs -------------------------
(* For any number of threads and tools: as long as no vantage_lock of a    *)
(* thread fails, the mutex alone keeps the threads of the daemon apart.    *)
(* ThreadExclusion is not inductive: it needs to know that whoever has the *)
(* line, or is about to release the mutex, is the one the mutex names,     *)
(* that no thread is on the error path of vantage_lock before one failed,  *)
(* and that the mutex is only initialised again while none is in a call.   *)
EXTENDS VantageLock, TLAPS

Owning(a) == pc[a] \in {"wake", "session", "unmutex"}

OwnersHoldMutex == ~failed => \A a \in Actors : Owning(a) => mtx = a

NoErrorPath ==
  ~failed => \A t \in Threads : pc[t] \notin {"undoMutex", "undoFlock"}

IdleUnlessUp == pc[Main] # "up" => \A t \in Threads : pc[t] = "idle"

IInv == TypeOK /\ OwnersHoldMutex /\ NoErrorPath /\ IdleUnlessUp

LEMMA InitInv == Init => IInv
  BY NamesAssumption
  DEF Init, IInv, TypeOK, OwnersHoldMutex, Owning, NoErrorPath, IdleUnlessUp,
      Actors, Steps

(* The steps of a driver call, taken by any actor. *)
LEMMA DriverCallInv ==
  ASSUME IInv, NEW a \in Actors, DriverCall(a) \/ LockFails(a)
  PROVE  IInv'
<1> USE NamesAssumption
    DEF IInv, TypeOK, OwnersHoldMutex, Owning, NoErrorPath, IdleUnlessUp,
        Actors, Steps, Goto
<1>1. CASE Flock(a)
  BY <1>1 DEF Flock
<1>2. CASE LockMutex(a)
  BY <1>2 DEF LockMutex
<1>3. CASE Wakeup(a)
  BY <1>3 DEF Wakeup
<1>4. CASE EndSession(a)
  BY <1>4 DEF EndSession
<1>5. CASE UnlockMutex(a)
  BY <1>5 DEF UnlockMutex
<1>6. CASE UnlockFlock(a)
  BY <1>6 DEF UnlockFlock, ReleaseFlock, Rest
<1>7. CASE FlockFails(a)
  BY <1>7 DEF FlockFails, FailTo
<1>8. CASE WakeupFails(a)
  BY <1>8 DEF WakeupFails
<1>9. CASE UndoMutex(a)
  BY <1>9 DEF UndoMutex
<1>10. CASE UndoFlock(a)
  BY <1>10 DEF UndoFlock, ReleaseFlock, FailTo
<1> QED
  BY <1>1, <1>2, <1>3, <1>4, <1>5, <1>6, <1>7, <1>8, <1>9, <1>10
  DEF DriverCall, LockFails

LEMMA StepInv == IInv /\ [Next]_vars => IInv'
<1> SUFFICES ASSUME IInv, [Next]_vars PROVE IInv'
  OBVIOUS
<1>1. ASSUME NEW a \in Actors, DriverCall(a) \/ LockFails(a) PROVE IInv'
  BY <1>1, DriverCallInv
<1> USE NamesAssumption
    DEF IInv, TypeOK, OwnersHoldMutex, Owning, NoErrorPath, IdleUnlessUp,
        Actors, Steps, Goto
<1>2. ASSUME NEW t \in Threads, Call(t) PROVE IInv'
  BY <1>2 DEF Call
<1>3. CASE Open
  BY <1>3 DEF Open
<1>4. CASE InitFails
  BY <1>4 DEF InitFails
<1>5. CASE Destroy
  BY <1>5 DEF Destroy
<1>6. CASE Close
  BY <1>6 DEF Close, ReleaseFlock
<1>7. ASSUME NEW p \in Tools, ToolOpens(p) \/ ToolCloses(p) PROVE IInv'
  BY <1>7 DEF ToolOpens, ToolCloses
<1>8. CASE UNCHANGED vars
  BY <1>8 DEF vars
<1> QED
  BY <1>1, <1>2, <1>3, <1>4, <1>5, <1>6, <1>7, <1>8 DEF Next

(* Two threads of the daemon are never on the line together before a       *)
(* vantage_lock fails, for every set of threads and tools.                 *)
THEOREM LockThreadExclusion == Spec => []ThreadExclusion
<1>1. IInv => ThreadExclusion
  BY DEF IInv, OwnersHoldMutex, Owning, ThreadExclusion, OnLine
<1>2. IInv /\ [Next]_vars => IInv'
  BY StepInv
<1> QED
  BY <1>1, <1>2, InitInv, PTL DEF Spec
---------------------------------------------------------------------------
(* The second argument covers every failure. An actor that has the mutex   *)
(* has a release of it ahead of it, and the daemon has the file lock only  *)
(* while some actor has a release of that ahead of it.                     *)
MutexReleaseAhead ==
  \A a \in Actors :
    mtx = a => pc[a] \in {"wake", "session", "undoMutex", "unmutex"}
                 \cup (IF a = Main THEN {"close", "closed"} ELSE {})

FlockReleaseAhead ==
  flk = Daemon =>
    \E a \in Actors :
      pc[a] \in {"mutex", "wake", "session", "undoMutex", "undoFlock",
                 "unmutex", "unflock", "close"}
                  \cup (IF a = Main THEN {"flock"} ELSE {})

RInv == TypeOK /\ MutexReleaseAhead /\ FlockReleaseAhead

LEMMA DriverCallRInv ==
  ASSUME RInv, NEW a \in Actors, DriverCall(a) \/ LockFails(a)
  PROVE  RInv'
<1> USE NamesAssumption
    DEF RInv, TypeOK, MutexReleaseAhead, FlockReleaseAhead, Actors, Steps, Goto
<1>1. CASE Flock(a)
  BY <1>1 DEF Flock
<1>2. CASE FlockFails(a)
  BY <1>2 DEF FlockFails, FailTo
<1>3. CASE LockMutex(a)
  BY <1>3 DEF LockMutex
<1>4. CASE Wakeup(a)
  BY <1>4 DEF Wakeup
<1>5. CASE WakeupFails(a)
  BY <1>5 DEF WakeupFails
<1>6. CASE UndoMutex(a)
  BY <1>6 DEF UndoMutex
<1>7. CASE UndoFlock(a)
  BY <1>7 DEF UndoFlock, ReleaseFlock, FailTo
<1>8. CASE EndSession(a)
  BY <1>8 DEF EndSession
<1>9. CASE UnlockMutex(a)
  BY <1>9 DEF UnlockMutex
<1>10. CASE UnlockFlock(a)
  BY <1>10 DEF UnlockFlock, ReleaseFlock, Rest
<1> QED
  BY <1>1, <1>2, <1>3, <1>4, <1>5, <1>6, <1>7, <1>8, <1>9, <1>10
  DEF DriverCall, LockFails

LEMMA LockRInv == Spec => []RInv
<1>1. Init => RInv
  BY NamesAssumption
  DEF Init, RInv, TypeOK, MutexReleaseAhead, FlockReleaseAhead, Actors, Steps
<1>2. RInv /\ [Next]_vars => RInv'
  <2> SUFFICES ASSUME RInv, [Next]_vars PROVE RInv'
    OBVIOUS
  <2>1. ASSUME NEW a \in Actors, DriverCall(a) \/ LockFails(a) PROVE RInv'
    BY <2>1, DriverCallRInv
  <2> USE NamesAssumption
      DEF RInv, TypeOK, MutexReleaseAhead, FlockReleaseAhead, Actors, Steps,
          Goto
  <2>2. ASSUME NEW t \in Threads, Call(t) PROVE RInv'
    BY <2>2 DEF Call
  <2>3. CASE Open
    BY <2>3 DEF Open
  <2>4. CASE InitFails
    BY <2>4 DEF InitFails
  <2>5. CASE Destroy
    BY <2>5 DEF Destroy
  <2>6. CASE Close
    BY <2>6 DEF Close, ReleaseFlock
  <2>7. ASSUME NEW p \in Tools, ToolOpens(p) \/ ToolCloses(p) PROVE RInv'
    BY <2>7 DEF ToolOpens, ToolCloses
  <2>8. CASE UNCHANGED vars
    BY <2>8 DEF vars
  <2> QED
    BY <2>1, <2>2, <2>3, <2>4, <2>5, <2>6, <2>7, <2>8 DEF Next
<1> QED
  BY <1>1, <1>2, PTL DEF Spec

(* The line and the mutex have one holder at most each, a thread, a tool or *)
(* the daemon, and every actor stays on its way through vantage_lock and    *)
(* vantage_unlock, whichever of their calls fail.                           *)
THEOREM LockTypeOK == Spec => []TypeOK
<1>1. RInv => TypeOK
  BY DEF RInv
<1> QED
  BY <1>1, LockRInv, PTL

(* No lock is left behind by a daemon at rest, whatever fails, for every    *)
(* set of threads and tools.                                                *)
THEOREM LockNothingLeaked == Spec => []NothingLeaked
<1>1. RInv => NothingLeaked
  BY NamesAssumption
  DEF RInv, TypeOK, MutexReleaseAhead, FlockReleaseAhead, NothingLeaked,
      Actors, Steps
<1> QED
  BY <1>1, LockRInv, PTL
============================================================================
