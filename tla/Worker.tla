------------------------------ MODULE Worker ------------------------------
(* The life of wslogd: src/wslogd/worker.c and the loop of wslogd.c.       *)
(*                                                                         *)
(* worker_main opens the driver, starts one thread per service, waits for  *)
(* SIGHUP or SIGTERM and stops the threads again; main calls it anew after *)
(* a reload of the configuration. A thread sleeps in sigwaitinfo on the    *)
(* signal of its slot. That signal comes from the timer of the service     *)
(* (sent to the process), from the sensor and archive threads, which queue *)
(* their readings to the services that want them (sent to the thread), and *)
(* from pthread_kill (sent to the thread too).                             *)
(*                                                                         *)
(* sigtimer_main calls timer_delete(&timer), which names no timer of the   *)
(* process: the call fails and is ignored, so that timers outlive their    *)
(* threads and go on sending the signal of their slot.                     *)
EXTENDS Integers, Sequences, FiniteSets

CONSTANTS NSlots,        \* the slots of threads[] in use
          Layouts,       \* service of each slot, per possible configuration
          MaxHups,       \* bound: SIGHUPs sent in a run
          MaxQueue       \* bound: readings queued to a thread

Slots == 1..NSlots

ASSUME LayoutsAssumption ==
  /\ NSlots \in Nat
  /\ \A l \in Layouts :
       /\ l \in Seq({"sensor", "archive", "sync", "ic", "wunder"})
       /\ Len(l) \in 2..NSlots
       /\ l[1] = "sensor" /\ l[2] = "archive"
       /\ \A i \in 3..Len(l) : l[i] \in {"sync", "ic", "wunder"}

ASSUME BoundsAssumption ==
  MaxHups \in Nat /\ MaxQueue \in Nat \ {0}

VARIABLES main,     \* where worker_main is
          k,        \* index of its loops over threads[]
          layout,   \* services of the loaded configuration
          thr,      \* what each thread is doing; "none": its tid is -1,
                    \* "void": its tid names no thread
          timers,   \* live timers of each slot
          fired,    \* their pending signals
          queue,    \* signals queued to each thread
          hup, term,          \* hangup_pending, shutdown_pending
          pend,     \* SIGHUP and SIGTERM pending on the process
          hups,     \* SIGHUPs sent so far
          missing,  \* a thread could not be created (history)
          drv,      \* the driver is open
          board,    \* "none", "open" or "unlinked"
          fault     \* how a thread brought the process down

vars == <<main, k, layout, thr, timers, fired, queue, hup, term, pend,
          hups, missing, drv, board, fault>>
threadVars == <<thr, timers, fired, queue>>

ThrStates == {"none", "void", "new", "check", "wait", "handle", "notify",
              "exit", "done"}

TypeOK ==
  /\ main \in {"start", "create", "wait", "kill", "join", "destroy", "reload",
               "halted", "failed"}
  /\ k \in Nat
  /\ layout \in Layouts
  /\ thr \in [Slots -> ThrStates]
  /\ timers \in [Slots -> 0..(MaxHups + 1)]
  /\ \A i \in Slots : fired[i] \in 0..timers[i]
  /\ queue \in [Slots -> Seq({"rt", "ar", "kill"})]
  /\ hup \in BOOLEAN /\ term \in BOOLEAN
  /\ pend \subseteq {"HUP", "TERM"}
  /\ hups \in 0..MaxHups
  /\ missing \in BOOLEAN /\ drv \in BOOLEAN
  /\ board \in {"none", "open", "unlinked"}
  /\ fault \in {"none", "tid", "handler"}

Init ==
  /\ main = "start" /\ k = 1
  /\ layout \in Layouts
  /\ thr = [i \in Slots |-> "none"]
  /\ timers = [i \in Slots |-> 0]
  /\ fired = [i \in Slots |-> 0]
  /\ queue = [i \in Slots |-> << >>]
  /\ hup = FALSE /\ term = FALSE
  /\ pend = {} /\ hups = 0
  /\ missing = FALSE /\ drv = FALSE /\ board = "none" /\ fault = "none"

Running == DOMAIN layout
Stopping == hup \/ term

(* ef_timer, ef_rt and ef_ar as threads_init sets them. *)
HasTimer(i) == layout[i] # "ic"
Listens(i, ev) == layout[i] = "ic" /\ ev \in {"rt", "ar"}
Notifies(i) == layout[i] \in {"sensor", "archive"}
UsesDriver(i) == layout[i] \in {"sensor", "archive", "sync"}

---------------------------------------------------------------------------
(* worker_main *)

(* drv_init, threads_init and, once, board_open. *)
Start ==
  /\ main = "start"
  /\ main' = "create"
  /\ k' = 1
  /\ hup' = FALSE /\ term' = FALSE
  /\ missing' = FALSE /\ drv' = TRUE
  /\ board' = IF board = "none" THEN "open" ELSE board
  /\ UNCHANGED <<layout, threadVars, pend, hups, fault>>

(* One of them fails: worker_destroy closes the driver and wslogd exits.   *)
StartFails ==
  /\ main = "start"
  /\ main' = "failed"
  /\ hup' = FALSE /\ term' = FALSE
  /\ drv' = FALSE
  /\ UNCHANGED <<k, layout, threadVars, pend, hups, missing, board, fault>>

(* One turn of threads_create. *)
Create ==
  /\ main = "create"
  /\ IF k \in Running
       THEN /\ thr' = [thr EXCEPT ![k] = "new"]
            /\ k' = k + 1
            /\ UNCHANGED main
       ELSE /\ main' = "wait"
            /\ UNCHANGED <<thr, k>>
  /\ UNCHANGED <<layout, timers, fired, queue, hup, term, pend, hups,
                 missing, drv, board, fault>>

(* pthread_create fails with an error number, which is not -1: the loop     *)
(* goes on. What the call leaves in tid is undefined; it may still be -1    *)
(* ("none") or name no thread ("void").                                     *)
CreateFails ==
  /\ main = "create" /\ k \in Running
  /\ thr' \in {thr, [thr EXCEPT ![k] = "void"]}
  /\ k' = k + 1
  /\ missing' = TRUE
  /\ UNCHANGED <<main, layout, timers, fired, queue, hup, term, pend, hups,
                 drv, board, fault>>

(* The flags are what the threads look at. *)
TakeSignal(s) ==
  /\ main = "wait"
  /\ s \in pend
  /\ pend' = pend \ {s}
  /\ hup' = (s = "HUP") /\ term' = (s = "TERM")
  /\ main' = "kill"
  /\ k' = 1
  /\ UNCHANGED <<layout, threadVars, hups, missing, drv, board, fault>>

\* Slip: the threads are stopped from the last to the first.
TurnReversed == Len(layout) + 1 - k

(* The thread that the loop of threads_kill is at. *)
Turn == k

\* Slip: pthread_kill is skipped, the flags being set.
KillNot ==
  /\ main = "kill"
  /\ main' = IF k \in Running THEN "join" ELSE "destroy"
  /\ UNCHANGED <<k, layout, threadVars, hup, term, pend, hups, missing, drv,
                 board, fault>>

(* threads_kill signals the threads one after the other and joins each     *)
(* before it signals the next. A thread that is over gets no signal, one   *)
(* whose tid is -1 is passed over.                                         *)
Kill ==
  /\ main = "kill"
  /\ IF k \in Running /\ thr[Turn] = "none"
       THEN k' = k + 1 /\ UNCHANGED <<main, queue, fault>>
       ELSE /\ UNCHANGED k
            /\ main' = IF k \in Running THEN "join" ELSE "destroy"
            /\ queue' = IF k \in Running /\ thr[Turn] \notin {"done", "void"}
                        THEN [queue EXCEPT ![Turn] = Append(@, "kill")]
                        ELSE queue
            /\ fault' = IF k \in Running /\ thr[Turn] = "void" THEN "tid" ELSE fault
  /\ UNCHANGED <<layout, thr, timers, fired, hup, term, pend, hups,
                 missing, drv, board>>

\* Slip: the thread is forgotten without being waited for.
JoinNot ==
  /\ main = "join"
  /\ main' = "kill"
  /\ k' = k + 1
  /\ UNCHANGED <<layout, threadVars, hup, term, pend, hups, missing, drv,
                 board, fault>>

(* pthread_join: the tid is invalid afterwards. *)
Join ==
  /\ main = "join"
  /\ thr[Turn] = "done"
  /\ thr' = [thr EXCEPT ![Turn] = "none"]
  /\ queue' = [queue EXCEPT ![Turn] = << >>]
  /\ main' = "kill"
  /\ k' = k + 1
  /\ UNCHANGED <<layout, timers, fired, hup, term, pend, hups, missing, drv,
                 board, fault>>

(* worker_destroy, then the loop of main. *)
Destroy ==
  /\ main = "destroy"
  /\ drv' = FALSE
  /\ board' = IF term THEN "unlinked" ELSE board
  /\ main' = IF term THEN "halted" ELSE "reload"
  /\ UNCHANGED <<k, layout, threadVars, hup, term, pend, hups, missing,
                 fault>>

(* loop_reinit, which gives up on a configuration it cannot load. *)
Reload(l) ==
  /\ main = "reload"
  /\ \/ main' = "start" /\ layout' = l
     \/ main' = "failed" /\ UNCHANGED layout
  /\ UNCHANGED <<k, threadVars, hup, term, pend, hups, missing, drv, board,
                 fault>>

MainStep ==
  \/ Start \/ Create \/ Kill \/ Join \/ Destroy
  \/ \E s \in pend : TakeSignal(s)
  \/ \E l \in Layouts : Reload(l)

---------------------------------------------------------------------------
(* sigtimer_main, run by the thread of slot i *)

Goto(i, from, to) == thr[i] = from /\ thr' = [thr EXCEPT ![i] = to]

(* UNCHANGED of all that the threads do not touch. *)
MainUnchanged ==
  UNCHANGED <<main, k, layout, hup, term, pend, hups, missing, drv, board>>

(* timer_create, for a service that has an ef_timer. *)
Begin(i) ==
  /\ Goto(i, "new", "check")
  /\ timers' = [timers EXCEPT ![i] = IF HasTimer(i) THEN @ + 1 ELSE @]
  /\ UNCHANGED <<fired, queue, fault>> /\ MainUnchanged

(* timer_create or sigwaitinfo fails: the thread ends, the daemon goes on. *)
Fail(i) ==
  /\ \/ thr[i] = "new" /\ HasTimer(i)
     \/ thr[i] = "wait"
  /\ thr' = [thr EXCEPT ![i] = "exit"]
  /\ UNCHANGED <<timers, fired, queue, fault>> /\ MainUnchanged

\* Slip: the timer is created in the loop, at each turn.
CheckRearms(i) ==
  /\ Goto(i, "check", IF Stopping THEN "exit" ELSE "wait")
  /\ timers' = [timers EXCEPT ![i] = IF HasTimer(i) THEN @ + 1 ELSE @]
  /\ UNCHANGED <<fired, queue, fault>> /\ MainUnchanged

(* The test of the flags at the head of the loop. *)
Check(i) ==
  /\ Goto(i, "check", IF Stopping THEN "exit" ELSE "wait")
  /\ UNCHANGED <<timers, fired, queue, fault>> /\ MainUnchanged

(* sigwaitinfo returns a signal sent to the thread. *)
WakeQueued(i) ==
  /\ queue[i] # << >>
  /\ LET s == Head(queue[i])
     IN  Goto(i, "wait", IF Stopping \/ ~Listens(i, s) THEN "check" ELSE "handle")
  /\ queue' = [queue EXCEPT ![i] = Tail(@)]
  /\ UNCHANGED <<timers, fired, fault>> /\ MainUnchanged

(* sigwaitinfo returns a signal of a timer; a service that has none runs   *)
(* its null ef_timer.                                                      *)
WakeTimer(i) ==
  /\ fired[i] > 0
  /\ fired' = [fired EXCEPT ![i] = @ - 1]
  /\ Goto(i, "wait", IF Stopping THEN "check" ELSE "handle")
  /\ fault' = IF Stopping \/ HasTimer(i) THEN fault ELSE "handler"
  /\ UNCHANGED <<timers, queue>> /\ MainUnchanged

(* The handler of the service; sensor and archive go on to notify when it  *)
(* succeeds.                                                               *)
Handle(i) ==
  /\ \/ Notifies(i) /\ Goto(i, "handle", "notify")
     \/ Goto(i, "handle", "check")
  /\ UNCHANGED <<timers, fired, queue, fault>> /\ MainUnchanged

Reading(i) == IF layout[i] = "sensor" THEN "rt" ELSE "ar"

(* sigevent_sensor, sigevent_archive: pthread_sigqueue to every listener.  *)
(* Nothing tells whether the listener's tid is that of a thread; a full    *)
(* queue drops the signal and the error is ignored.                        *)
Notify(i) ==
  /\ Goto(i, "notify", "check")
  /\ LET To == {j \in Running : Listens(j, Reading(i))}
     IN  /\ fault' = IF \E j \in To : thr[j] \in {"none", "void"} THEN "tid" ELSE fault
         /\ queue' = [j \in Slots |->
              IF j \in To /\ thr[j] \notin {"none", "void", "done"}
                 /\ Len(queue[j]) < MaxQueue
                THEN Append(queue[j], Reading(i)) ELSE queue[j]]
  /\ UNCHANGED <<timers, fired>> /\ MainUnchanged

(* timer_delete(&timer) deletes nothing; wdestroy; the thread returns. *)
Exit(i) ==
  /\ Goto(i, "exit", "done")
  /\ UNCHANGED <<timers, fired, queue, fault>> /\ MainUnchanged

ThreadStep(i) ==
  \/ Begin(i) \/ Check(i) \/ WakeQueued(i) \/ WakeTimer(i)
  \/ Handle(i) \/ Notify(i) \/ Exit(i)

---------------------------------------------------------------------------
(* The environment *)

(* A timer expires; one signal is pending per timer at most. *)
Expire(i) ==
  /\ main # "halted" /\ main # "failed"
  /\ fired[i] < timers[i]
  /\ fired' = [fired EXCEPT ![i] = @ + 1]
  /\ UNCHANGED <<thr, timers, queue, fault>> /\ MainUnchanged

(* Signals are blocked from the first start on; before, they end wslogd.   *)
Send(s) ==
  /\ board = "open" /\ main # "failed"
  /\ s = "HUP" => hups < MaxHups
  /\ hups' = IF s = "HUP" THEN hups + 1 ELSE hups
  /\ pend' = pend \cup {s}
  /\ UNCHANGED <<main, k, layout, threadVars, hup, term, missing, drv, board,
                 fault>>

Ended == (main \in {"halted", "failed"} \/ fault # "none") /\ UNCHANGED vars

Next ==
  \/ /\ fault = "none"
     /\ \/ MainStep \/ StartFails \/ CreateFails
        \/ \E i \in Slots : ThreadStep(i) \/ Fail(i) \/ Expire(i)
        \/ \E s \in {"HUP", "TERM"} : Send(s)
  \/ Ended

(* The handlers are bounded I/O, and the threads and main are scheduled.   *)
(* Nothing has to fail and no timer has to expire.                         *)
Fairness ==
  /\ WF_vars(fault = "none" /\ MainStep)
  /\ \A i \in Slots : WF_vars(fault = "none" /\ ThreadStep(i))

Spec == Init /\ [][Next]_vars /\ Fairness

---------------------------------------------------------------------------
(* No handler runs on a driver that worker_destroy closed. *)
DriverOpenWhileUsed ==
  \A i \in Running : thr[i] = "handle" /\ UsesDriver(i) => drv

(* "Threads stopped", "Resources released": between two generations, and   *)
(* after the last, no thread is left and no reading waits for one.         *)
AllStopped ==
  main \in {"reload", "halted"} =>
    /\ \A i \in Slots : thr[i] = "none" /\ queue[i] = << >>
    /\ ~drv
    /\ main = "halted" => board = "unlinked"

(* The services that notify are joined before those they notify, so that   *)
(* no reading is queued to a thread that was joined: once threads_create   *)
(* is through, no signal goes to a thread there is not, unless it could    *)
(* not be created.                                                         *)
SafeOnceCreated == fault = "tid" => main = "create" \/ missing

(* However the signals of the timers, of the other services and of         *)
(* pthread_kill interleave with the tests of the flags, none of the wake-  *)
(* ups is lost: once the threads are told to stop, all of them are joined, *)
(* those that could not be created apart.                                  *)
ThreadsStop ==
  (main = "kill") ~> (main \in {"reload", "halted"} \/ (missing /\ fault = "tid"))

(* A SIGTERM ends the daemon, whatever reloads are under way, unless a     *)
(* thread brought it down before.                                          *)
TermEnds ==
  ("TERM" \in pend) ~> (main \in {"halted", "failed"} \/ fault # "none")

---------------------------------------------------------------------------
(* worker.c: "Action on timer signal", of ef_timer. A tick runs a handler. *)
HandlerSet == fault # "handler"
============================================================================
