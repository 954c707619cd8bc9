------------------------------- MODULE Board -------------------------------
(* The lock of the shared board (src/wslogd/board.c) and the life of the   *)
(* segment that holds it.                                                  *)
(*                                                                         *)
(* The daemon creates the segment under the name SHM_NAME, or takes over   *)
(* the one it finds there, and initialises it in place; it removes the     *)
(* name when it is told to stop. Its threads (the archive service pushes,  *)
(* the Wunderground service peeks) and the processes that map the segment  *)
(* (wsview) take the mutex around every access. wsview keeps its mapping   *)
(* from one request to the next, so that several segments may be mapped.   *)
(*                                                                         *)
(* The mutex is robust: when its owner dies, the next pthread_mutex_lock   *)
(* succeeds with EOWNERDEAD; unless pthread_mutex_consistent is called     *)
(* before pthread_mutex_unlock, the mutex is not recoverable and every     *)
(* later pthread_mutex_lock returns ENOTRECOVERABLE without it. Both come  *)
(* as return values, which board_lock compares with -1 only: it returns,   *)
(* and its callers go on, as if the lock were theirs.                      *)
EXTENDS FiniteSets

CONSTANTS DaemonThreads,  \* threads of wslogd that use the board
          Readers,        \* processes that open the board and lock it
          Segs,           \* names of shared memory objects, to be reused
          NoSeg, Free

ASSUME NamesAssumption ==
  /\ DaemonThreads \cap Readers = {}
  /\ NoSeg \notin Segs
  /\ Free \notin DaemonThreads \cup Readers

VARIABLES linked,   \* the object SHM_NAME names
          up,       \* whether wslogd runs
          map,      \* what wslogd (for each thread) or a reader has mapped
          owner,    \* owner of the mutex of each object
          state,    \* its robustness state
          taken,    \* objects initialised while a reader had them mapped
          pc        \* what each thread or process is doing

vars == <<linked, up, map, owner, state, taken, pc>>

Procs == DaemonThreads \cup Readers

TypeOK ==
  /\ linked \in Segs \cup {NoSeg}
  /\ up \in BOOLEAN
  /\ map \in [Procs -> Segs \cup {NoSeg}]
  /\ owner \in [Segs -> Procs \cup {Free}]
  /\ state \in [Segs -> {"ok", "died", "inconsistent", "lost"}]
  /\ taken \subseteq Segs
  /\ pc \in [Procs -> {"idle", "locking", "locked"}]

Init ==
  /\ linked = NoSeg
  /\ up = FALSE
  /\ map = [p \in Procs |-> NoSeg]
  /\ owner = [s \in Segs |-> Free]
  /\ state = [s \in Segs |-> "ok"]
  /\ taken = {}
  /\ pc = [p \in Procs |-> "idle"]

---------------------------------------------------------------------------
(* Opening and removing the board *)

Unused(s) == linked # s /\ \A p \in Procs : map[p] # s

(* shm_open with O_CREAT, neither O_EXCL nor O_TRUNC. *)
Opens(s) == IF linked = NoSeg THEN Unused(s) ELSE s = linked

DaemonOpen(s) ==
  /\ ~up
  /\ Opens(s)
  /\ up' = TRUE
  /\ linked' = s
  /\ map' = [p \in Procs |-> IF p \in DaemonThreads THEN s ELSE map[p]]
  /\ owner' = [owner EXCEPT ![s] = Free]
  /\ state' = [state EXCEPT ![s] = "ok"]
  /\ taken' = IF \E r \in Readers : map[r] = s THEN taken \cup {s}
                                                ELSE taken \ {s}
  /\ UNCHANGED pc

(* board_unlink, the threads joined. pthread_mutex_destroy of a mutex some *)
(* reader holds returns EBUSY, which is not -1 either.                     *)
DaemonStop ==
  /\ up
  /\ \A p \in DaemonThreads : pc[p] = "idle"
  /\ up' = FALSE
  /\ linked' = NoSeg
  /\ map' = [p \in Procs |-> IF p \in DaemonThreads THEN NoSeg ELSE map[p]]
  /\ UNCHANGED <<owner, state, taken, pc>>

ReaderOpen(r) ==
  /\ map[r] = NoSeg
  /\ linked # NoSeg
  /\ map' = [map EXCEPT ![r] = linked]
  /\ UNCHANGED <<linked, up, owner, state, taken, pc>>

ReaderClose(r) ==
  /\ map[r] # NoSeg
  /\ pc[r] = "idle"
  /\ map' = [map EXCEPT ![r] = NoSeg]
  /\ UNCHANGED <<linked, up, owner, state, taken, pc>>

---------------------------------------------------------------------------
(* board_lock and board_unlock *)

Ask(p) ==
  /\ pc[p] = "idle"
  /\ map[p] # NoSeg
  /\ pc' = [pc EXCEPT ![p] = "locking"]
  /\ UNCHANGED <<linked, up, map, owner, state, taken>>

\* Slip: the object is recorded where its owner should be.
AcquireSwapped(p) ==
  /\ pc[p] = "locking"
  /\ state[map[p]] \in {"ok", "inconsistent"}
  /\ owner[map[p]] = Free
  /\ owner' = [owner EXCEPT ![map[p]] = map[p]]
  /\ pc' = [pc EXCEPT ![p] = "locked"]
  /\ UNCHANGED <<linked, up, map, state, taken>>

\* Slip: the owner is not looked at.
AcquireAnyway(p) ==
  /\ pc[p] = "locking"
  /\ owner' = [owner EXCEPT ![map[p]] = p]
  /\ pc' = [pc EXCEPT ![p] = "locked"]
  /\ UNCHANGED <<linked, up, map, state, taken>>

Acquire(p) ==
  /\ pc[p] = "locking"
  /\ state[map[p]] \in {"ok", "inconsistent"}
  /\ owner[map[p]] = Free
  /\ owner' = [owner EXCEPT ![map[p]] = p]
  /\ pc' = [pc EXCEPT ![p] = "locked"]
  /\ UNCHANGED <<linked, up, map, state, taken>>

\* Slip: the mutex is created without PTHREAD_MUTEX_ROBUST.
AcquireNeverFromDead(p) ==
  /\ FALSE
  /\ UNCHANGED vars

(* EOWNERDEAD: the branch that makes the mutex consistent is not reached.  *)
AcquireFromDead(p) ==
  /\ pc[p] = "locking"
  /\ state[map[p]] = "died"
  /\ owner' = [owner EXCEPT ![map[p]] = p]
  /\ state' = [state EXCEPT ![map[p]] = "inconsistent"]
  /\ pc' = [pc EXCEPT ![p] = "locked"]
  /\ UNCHANGED <<linked, up, map, taken>>

(* ENOTRECOVERABLE *)
PassUnlocked(p) ==
  /\ pc[p] = "locking"
  /\ state[map[p]] = "lost"
  /\ pc' = [pc EXCEPT ![p] = "locked"]
  /\ UNCHANGED <<linked, up, map, owner, state, taken>>

(* A robust mutex is released by its owner only (EPERM otherwise). *)
Unlock(p) ==
  /\ pc[p] = "locked"
  /\ pc' = [pc EXCEPT ![p] = "idle"]
  /\ IF owner[map[p]] = p
       THEN /\ owner' = [owner EXCEPT ![map[p]] = Free]
            /\ state' = [state EXCEPT ![map[p]] =
                           IF @ = "inconsistent" THEN "lost" ELSE @]
       ELSE UNCHANGED <<owner, state>>
  /\ UNCHANGED <<linked, up, map, taken>>

---------------------------------------------------------------------------
(* Deaths. The kernel marks the mutexes the dead threads own. *)

Die(S) ==
  /\ pc' = [p \in Procs |-> IF p \in S THEN "idle" ELSE pc[p]]
  /\ map' = [p \in Procs |-> IF p \in S THEN NoSeg ELSE map[p]]
  /\ state' = [s \in Segs |-> IF owner[s] \in S THEN "died" ELSE state[s]]
  /\ UNCHANGED <<linked, owner, taken>>

(* A crash, or an exit of main on an error: SHM_NAME stays. *)
DaemonDies == up /\ up' = FALSE /\ Die(DaemonThreads)

ReaderDies(r) == map[r] # NoSeg /\ Die({r}) /\ UNCHANGED up

LockStep(p) ==
  \/ Acquire(p) \/ AcquireFromDead(p) \/ PassUnlocked(p) \/ Unlock(p)

Next ==
  \/ \E s \in Segs : DaemonOpen(s)
  \/ DaemonStop \/ DaemonDies
  \/ \E r \in Readers : ReaderOpen(r) \/ ReaderClose(r) \/ ReaderDies(r)
  \/ \E p \in Procs : Ask(p) \/ LockStep(p)

(* A lock that can be granted is, and a locked section is a bounded copy.  *)
Fairness == \A p \in Procs : WF_vars(LockStep(p))

Spec == Init /\ [][Next]_vars /\ Fairness

---------------------------------------------------------------------------
(* Two users of one segment are never between board_lock and board_unlock  *)
(* together, through any sequence of stops, restarts and deaths of wslogd  *)
(* and of its readers, except on a segment whose mutex was left by a dead  *)
(* owner and never made consistent, or that a restarted daemon initialised *)
(* under a reader.                                                         *)
MutualExclusion ==
  \A p, q \in Procs :
    /\ pc[p] = "locked" /\ pc[q] = "locked" /\ map[p] = map[q]
    /\ state[map[p]] # "lost" /\ map[p] \notin taken
    => p = q

(* board.c, board_lock: "Owner died with lock" is answered by             *)
(* pthread_mutex_consistent in a process that did not create the board, so *)
(* that its board_unlock leaves a mutex the others can still lock.         *)
ReaderRecovers ==
  [][\A r \in Readers, s \in Segs :
       Unlock(r) /\ owner[s] = r => state'[s] # "lost"]_vars

(* The purpose of PTHREAD_MUTEX_ROBUST: nobody waits for good behind an    *)
(* owner that died.                                                        *)
DeadOwnerReplaced ==
  \A p \in Procs, s \in Segs :
    (pc[p] = "locking" /\ map[p] = s /\ state[s] = "died")
      ~> ~(pc[p] = "locking" /\ map[p] = s /\ state[s] = "died")
============================================================================
