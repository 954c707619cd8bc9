---------------------------- MODULE BoardProofs ----------------------------
(* Mutual exclusion on the board for any number of threads, readers and    *)
(* segments, through stops, restarts and deaths. The invariant adds that   *)
(* who is between board_lock and board_unlock on a segment that was        *)
(* neither lost nor taken over is the owner recorded in it, and that a     *)
(* daemon that is down has no thread left: the next one either finds a     *)
(* segment nobody has mapped or takes over one under its readers.          *)
EXTENDS Board, TLAPS

LockedOwns ==
  \A p \in Procs :
    /\ pc[p] # "idle" => map[p] # NoSeg
    /\ pc[p] = "locked" /\ state[map[p]] # "lost" /\ map[p] \notin taken
         => owner[map[p]] = p

(* A mutex its owner left at its death is not held by anyone alive. *)
DeadOwnsNothing ==
  \A p \in Procs :
    pc[p] = "locked" /\ map[p] \notin taken => state[map[p]] # "died"

LostOwnedByNone == \A s \in Segs : state[s] = "lost" => owner[s] = Free

DownLeavesNoThread ==
  ~up => \A p \in DaemonThreads : pc[p] = "idle" /\ map[p] = NoSeg

IInv ==
  /\ TypeOK /\ LockedOwns /\ DeadOwnsNothing /\ LostOwnedByNone
  /\ DownLeavesNoThread

LEMMA InitInv == Init => IInv
  BY NamesAssumption
  DEF Init, IInv, TypeOK, LockedOwns, DeadOwnsNothing, LostOwnedByNone,
      DownLeavesNoThread, Procs

(* A death unmaps what the dead had mapped, and idles them. *)
LEMMA DieInv ==
  ASSUME IInv, NEW S \in SUBSET Procs, Die(S), up' \in BOOLEAN,
         ~up' => (S = DaemonThreads \/ ~up)
  PROVE  IInv'
<1> USE NamesAssumption
    DEF IInv, TypeOK, LockedOwns, DeadOwnsNothing, LostOwnedByNone,
        DownLeavesNoThread, Procs
<1>1. TypeOK'
  BY DEF Die
<1>2. LockedOwns'
  BY DEF Die
<1>3. DeadOwnsNothing'
  BY DEF Die
<1>4. DownLeavesNoThread'
  BY DEF Die
<1>5. LostOwnedByNone'
  BY DEF Die
<1> QED
  BY <1>1, <1>2, <1>3, <1>4, <1>5

(* Opening, stopping and mapping. *)
LEMMA LifeInv ==
  ASSUME IInv,
         \/ \E s \in Segs : DaemonOpen(s)
         \/ DaemonStop \/ DaemonDies
         \/ \E r \in Readers : ReaderOpen(r) \/ ReaderClose(r) \/ ReaderDies(r)
  PROVE  IInv'
<1> USE NamesAssumption
    DEF IInv, TypeOK, LockedOwns, DeadOwnsNothing, LostOwnedByNone,
        DownLeavesNoThread, Procs
<1>1. ASSUME NEW s \in Segs, DaemonOpen(s) PROVE IInv'
  <2> USE <1>1 DEF DaemonOpen
  <2>1. TypeOK'
    OBVIOUS
  <2>2. \A p \in Procs : pc'[p] # "idle" =>
          /\ p \in Readers /\ map'[p] = map[p] /\ map[p] # NoSeg
          /\ map[p] \notin taken' => map[p] # s /\ map[p] \notin taken
    OBVIOUS
  <2>3. LockedOwns'
    BY <2>2
  <2>4. DeadOwnsNothing'
    BY <2>2
  <2>5. LostOwnedByNone' /\ DownLeavesNoThread'
    OBVIOUS
  <2> QED
    BY <2>1, <2>3, <2>4, <2>5
<1>2. CASE DaemonStop
  BY <1>2 DEF DaemonStop
<1>3. CASE DaemonDies
  BY <1>3, DieInv DEF DaemonDies
<1>4. ASSUME NEW r \in Readers, ReaderOpen(r) PROVE IInv'
  BY <1>4 DEF ReaderOpen
<1>5. ASSUME NEW r \in Readers, ReaderClose(r) PROVE IInv'
  BY <1>5 DEF ReaderClose
<1>6. ASSUME NEW r \in Readers, ReaderDies(r) PROVE IInv'
  BY <1>6, DieInv DEF ReaderDies
<1> QED
  BY <1>1, <1>2, <1>3, <1>4, <1>5, <1>6

(* Asking for, getting and releasing the lock. *)
LEMMA LockInv ==
  ASSUME IInv, NEW p \in Procs, Ask(p) \/ LockStep(p)
  PROVE  IInv'
<1> USE NamesAssumption
    DEF IInv, TypeOK, LockedOwns, DeadOwnsNothing, LostOwnedByNone,
        DownLeavesNoThread, Procs
<1>1. CASE Ask(p)
  BY <1>1 DEF Ask
<1>2. CASE Acquire(p)
  BY <1>2 DEF Acquire
<1>3. CASE AcquireFromDead(p)
  BY <1>3 DEF AcquireFromDead
<1>4. CASE PassUnlocked(p)
  BY <1>4 DEF PassUnlocked
<1>5. CASE Unlock(p)
  BY <1>5 DEF Unlock
<1> QED
  BY <1>1, <1>2, <1>3, <1>4, <1>5 DEF LockStep

LEMMA BoardInv == Spec => []IInv
<1>1. IInv /\ [Next]_vars => IInv'
  <2>1. CASE UNCHANGED vars
    BY <2>1 DEF vars, IInv, TypeOK, LockedOwns, DeadOwnsNothing,
                LostOwnedByNone, DownLeavesNoThread, Procs
  <2> QED
    BY <2>1, LifeInv, LockInv DEF Next
<1> QED
  BY <1>1, InitInv, PTL DEF Spec

(* Whatever dies, starts again or loses a mutex, every process is at a      *)
(* step of board_lock or outside it, with at most one segment mapped, and   *)
(* each mutex has one of its four states and one owner at most.             *)
THEOREM BoardTypeOK == Spec => []TypeOK
<1>1. IInv => TypeOK
  BY DEF IInv
<1> QED
  BY <1>1, BoardInv, PTL

(* Two users of one segment are never in their locked sections together,   *)
(* unless its mutex was lost or the segment taken over under a reader.     *)
THEOREM BoardMutualExclusion == Spec => []MutualExclusion
<1>1. IInv => MutualExclusion
  BY DEF IInv, LockedOwns, MutualExclusion
<1> QED
  BY <1>1, BoardInv, PTL
============================================================================
