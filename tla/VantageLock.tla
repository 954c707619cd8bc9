---------------------------- MODULE VantageLock ----------------------------
(* Who talks to a Vantage console, and when (src/wslogd/driver/vantage.c). *)
(*                                                                         *)
(* The daemon holds one descriptor of the serial line. Every driver call   *)
(* made by one of its threads takes flock(LOCK_EX) on that descriptor, then *)
(* a mutex, wakes the console up, runs its session and releases both. The  *)
(* tools of the suite (src/vantage/main.c) open the line themselves and    *)
(* hold flock until they close it. flock belongs to the open file          *)
(* description: a second request through the daemon's descriptor succeeds  *)
(* at once, and one LOCK_UN through it gives the lock up for every thread. *)
(*                                                                         *)
(* Main is worker_main, which opens the line, reads the configuration of   *)
(* the console and closes the line between two generations of threads.     *)
EXTENDS FiniteSets

CONSTANTS Threads,      \* service threads that call the driver
          Tools,        \* processes of the tools that use the same console
          Main, Daemon, \* worker_main, and its open file description
          NoOne

ASSUME NamesAssumption ==
  /\ Main \notin Threads
  /\ NoOne \notin Threads \cup {Main}
  /\ Tools \cap {Daemon, NoOne} = {}
  /\ Daemon # NoOne

VARIABLES flk,    \* the description that holds the flock of the device
          mtx,    \* the thread that holds the mutex
          pc,     \* the next step of each actor of the daemon
          failed  \* a vantage_lock of a thread has failed (history)

vars == <<flk, mtx, pc, failed>>

Actors == Threads \cup {Main}

(* Main is "closed" when the driver is not initialised and "up" while the  *)
(* threads run; a thread is "idle" between two driver calls. "undoMutex"   *)
(* and "undoFlock" are the error path inside vantage_lock.                 *)
Steps == {"flock", "mutex", "wake", "session", "undoMutex", "undoFlock",
          "unmutex", "unflock"}
Rest(a) == IF a = Main THEN "up" ELSE "idle"

TypeOK ==
  /\ flk \in Tools \cup {Daemon, NoOne}
  /\ mtx \in Actors \cup {NoOne}
  /\ pc \in [Actors -> Steps \cup {"closed", "close", "up", "idle"}]
  /\ failed \in BOOLEAN

Init ==
  /\ flk = NoOne
  /\ mtx = NoOne
  /\ pc = [a \in Actors |-> IF a = Main THEN "closed" ELSE "idle"]
  /\ failed = FALSE

Goto(a, from, to) == pc[a] = from /\ pc' = [pc EXCEPT ![a] = to]

ReleaseFlock == flk' = IF flk = Daemon THEN NoOne ELSE flk

---------------------------------------------------------------------------
(* vantage_lock *)

Flock(a) ==
  /\ Goto(a, "flock", "mutex")
  /\ flk \in {NoOne, Daemon}
  /\ flk' = Daemon
  /\ UNCHANGED <<mtx, failed>>

(* Nothing is held yet; what the caller does on an error is FailTo.        *)
FailTo(a) == IF a = Main THEN "close" ELSE "unmutex"

FlockFails(a) ==
  /\ Goto(a, "flock", FailTo(a))
  /\ failed' = (failed \/ a # Main)
  /\ UNCHANGED <<flk, mtx>>

\* Slip: the mutex is taken in the name of the descriptor.
LockMutexAsDaemon(a) ==
  /\ mtx = NoOne
  /\ Goto(a, "mutex", "wake")
  /\ mtx' = Daemon
  /\ UNCHANGED <<flk, failed>>

\* Slip: the mutex is not waited for.
LockMutexBarging(a) ==
  /\ Goto(a, "mutex", "wake")
  /\ mtx' = a
  /\ UNCHANGED <<flk, failed>>

LockMutex(a) ==
  /\ mtx = NoOne
  /\ Goto(a, "mutex", "wake")
  /\ mtx' = a
  /\ UNCHANGED <<flk, failed>>

Wakeup(a) ==
  /\ Goto(a, "wake", "session")
  /\ UNCHANGED <<flk, mtx, failed>>

WakeupFails(a) ==
  /\ Goto(a, "wake", "undoMutex")
  /\ failed' = (failed \/ a # Main)
  /\ UNCHANGED <<flk, mtx>>

(* pthread_mutex_unlock on a default mutex: no owner is checked. *)
UndoMutex(a) ==
  /\ Goto(a, "undoMutex", "undoFlock")
  /\ mtx' = NoOne
  /\ UNCHANGED <<flk, failed>>

UndoFlock(a) ==
  /\ Goto(a, "undoFlock", FailTo(a))
  /\ ReleaseFlock
  /\ UNCHANGED <<mtx, failed>>

---------------------------------------------------------------------------
(* The session and vantage_unlock. Both outcomes of a session lead there,  *)
(* and so does the error path of a thread whose vantage_lock failed.       *)

EndSession(a) ==
  /\ Goto(a, "session", "unmutex")
  /\ UNCHANGED <<flk, mtx, failed>>

\* Slip: an early return that forgets the mutex.
UnlockMutexForgotten(a) ==
  /\ Goto(a, "unmutex", "unflock")
  /\ UNCHANGED <<flk, mtx, failed>>

UnlockMutex(a) ==
  /\ Goto(a, "unmutex", "unflock")
  /\ mtx' = NoOne
  /\ UNCHANGED <<flk, failed>>

\* Slip: an early return that forgets the file lock.
UnlockFlockForgotten(a) ==
  /\ Goto(a, "unflock", Rest(a))
  /\ UNCHANGED <<flk, mtx, failed>>

UnlockFlock(a) ==
  /\ Goto(a, "unflock", Rest(a))
  /\ ReleaseFlock
  /\ UNCHANGED <<mtx, failed>>

---------------------------------------------------------------------------
(* A service thread starts a driver call once drv_init is over. *)
Call(t) ==
  /\ pc[Main] = "up"
  /\ Goto(t, "idle", "flock")
  /\ UNCHANGED <<flk, mtx, failed>>

(* vantage_init: the mutex is initialised again, and ws_open takes flock. *)
Open ==
  /\ flk = NoOne
  /\ Goto(Main, "closed", "flock")
  /\ flk' = Daemon
  /\ mtx' = NoOne
  /\ failed' = FALSE

(* vantage_init gives up on an error of the first session. *)
InitFails ==
  /\ Goto(Main, "session", "close")
  /\ UNCHANGED <<flk, mtx, failed>>

(* vantage_destroy on a reload or a shutdown, every thread joined. *)
Destroy ==
  /\ \A t \in Threads : pc[t] = "idle"
  /\ Goto(Main, "up", "close")
  /\ UNCHANGED <<flk, mtx, failed>>

Close ==
  /\ Goto(Main, "close", "closed")
  /\ ReleaseFlock
  /\ UNCHANGED <<mtx, failed>>

(* A tool: ws_open blocks until it has the lock, ws_close gives it back. *)
ToolOpens(p) ==
  /\ flk = NoOne
  /\ flk' = p
  /\ UNCHANGED <<mtx, pc, failed>>

ToolCloses(p) ==
  /\ flk = p
  /\ flk' = NoOne
  /\ UNCHANGED <<mtx, pc, failed>>

DriverCall(a) ==
  \/ Flock(a) \/ LockMutex(a) \/ Wakeup(a) \/ EndSession(a)
  \/ UndoMutex(a) \/ UndoFlock(a) \/ UnlockMutex(a) \/ UnlockFlock(a)

LockFails(a) == FlockFails(a) \/ WakeupFails(a)

Next ==
  \/ \E a \in Actors : DriverCall(a) \/ LockFails(a)
  \/ \E t \in Threads : Call(t)
  \/ Open \/ InitFails \/ Destroy \/ Close
  \/ \E p \in Tools : ToolOpens(p) \/ ToolCloses(p)

(* Every actor that can take a step of a driver call does so in the end: a *)
(* session is bounded by the read timeouts of the console library. Nothing *)
(* has to fail.                                                            *)
Fairness ==
  /\ \A a \in Actors : WF_vars(DriverCall(a))
  /\ WF_vars(Close)

Spec == Init /\ [][Next]_vars /\ Fairness

---------------------------------------------------------------------------
(* vantage.c: the two locks of a driver call. *)
OnLine(a) == pc[a] \in {"wake", "session"}

(* Two threads of the daemon never exchange bytes with the console at the  *)
(* same time, whatever the tools do meanwhile, until the vantage_lock of   *)
(* one of them fails; a reload puts things straight again.                 *)
ThreadExclusion ==
  ~failed => \A a, b \in Actors : OnLine(a) /\ OnLine(b) => a = b

(* "Thread locking" (the comment of the mutex), failures or not. *)
ThreadLocking ==
  \A a, b \in Actors : OnLine(a) /\ OnLine(b) => a = b

(* "it requests an exclusive lock using flock(2), and releases that lock   *)
(* on completion [...] this is safe to use tools with the same locking     *)
(* mechanism while the daemon is running": no tool has the line while a    *)
(* thread of the daemon is talking to the console.                         *)
ToolExclusion ==
  flk \in Tools => \A a \in Actors : ~OnLine(a)

(* Whatever failed on the way, a daemon whose driver is up and whose       *)
(* threads are all between two calls has given both locks back: no error   *)
(* path leaks one and no tool is shut out by an idle daemon.               *)
NothingLeaked ==
  (pc[Main] = "up" /\ \A t \in Threads : pc[t] = "idle")
    => mtx = NoOne /\ flk # Daemon

(* However the calls of the threads overlap, the daemon keeps giving the   *)
(* file lock up: the tools are not shut out for good by a busy daemon.     *)
FlockGivenUp == (flk = Daemon) ~> (flk # Daemon)

(* Whoever got the mutex gives it back, on every path, unless the driver   *)
(* is closed over it: the next vantage_init makes a new one.               *)
MutexGivenUp ==
  \A a \in Actors : (mtx = a) ~> (mtx # a \/ pc[Main] = "closed")
============================================================================
