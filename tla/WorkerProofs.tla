---------------------------- MODULE WorkerProofs ----------------------------
(* That wslogd leaves nothing behind a generation of its threads, closes no *)
(* driver under a handler and signals no thread it has joined, for any      *)
(* number of services, reloads and queued readings.                         *)
(*                                                                          *)
(* Where main is tells which slots can have a thread: threads_create and    *)
(* threads_kill both go through them in order.                              *)
EXTENDS Worker, TLAPS

Phases == {"start", "create", "wait", "kill", "join", "destroy", "reload", "halted",
           "failed"}

Types ==
  /\ main \in Phases
  /\ layout \in Layouts
  /\ k \in Nat
  /\ thr \in [Slots -> ThrStates]
  /\ queue \in [Slots -> Seq({"rt", "ar", "kill"})]

(* The loops over threads[] stay within it. *)
InLoop ==
  /\ main \in {"create", "kill"} => k \in 1..(Len(layout) + 1)
  /\ main = "join" => k \in 1..Len(layout)

(* The slots that threads_create has not reached yet, or threads_kill has   *)
(* left, and those no service uses.                                         *)
Empty(i) ==
  \/ i > Len(layout)
  \/ main = "create" /\ i >= k
  \/ main \in {"kill", "join"} /\ i < k
  \/ main \in {"start", "destroy", "reload", "halted", "failed"}

NobodyThere == \A i \in Slots : Empty(i) => thr[i] = "none"

NoQueueAlone == \A i \in Slots : thr[i] \in {"none", "void"} => queue[i] = <<>>

(* Elsewhere there is a thread, unless it could not be created. *)
SomebodyElse ==
  \A i \in Slots : (thr[i] = "none" /\ ~Empty(i)) \/ thr[i] = "void" => missing

(* Only the sensor and the archive thread notify. *)
TwoNotify == \A i \in Slots : thr[i] = "notify" => i <= 2

DriverUp ==
  /\ main \in {"create", "wait", "kill", "join", "destroy"} => drv
  /\ main \in {"start", "reload", "halted", "failed"} => ~drv

Unlinked == main = "halted" => board = "unlinked"

Inv ==
  /\ Types /\ InLoop
  /\ NobodyThere /\ NoQueueAlone /\ SomebodyElse /\ TwoNotify
  /\ DriverUp /\ Unlinked
  /\ SafeOnceCreated

---------------------------------------------------------------------------
Signals == {"rt", "ar", "kill"}
Alive == ThrStates \ {"none", "void"}

(* threads_init puts sensor and archive first. *)
LEMMA LayoutType ==
  ASSUME NEW l \in Layouts
  PROVE  /\ Len(l) \in Nat /\ Len(l) >= 2 /\ Len(l) <= NSlots /\ NSlots \in Nat
         /\ DOMAIN l = 1..Len(l) /\ DOMAIN l \subseteq Slots
         /\ l[1] = "sensor" /\ l[2] = "archive"
         /\ \A i \in 3..Len(l) : l[i] \in {"sync", "ic", "wunder"}
BY LayoutsAssumption DEF Slots

LEMMA InvInit == Init => Inv
BY LayoutType
DEF Init, Inv, Types, Phases, ThrStates, InLoop, NobodyThere, NoQueueAlone, SomebodyElse,
    TwoNotify, DriverUp, Unlinked, SafeOnceCreated, Empty

(* A thread goes from one place of its loop to another. *)
LEMMA ThreadMoves ==
  ASSUME Inv, MainUnchanged, NEW i \in Slots, thr[i] \in Alive, thr'[i] \in Alive,
         \A j \in Slots : j # i => thr'[j] = thr[j], thr' \in [Slots -> ThrStates],
         thr'[i] = "notify" => i <= 2,
         queue' \in [Slots -> Seq(Signals)],
         \A j \in Slots : j # i => queue'[j] = queue[j],
         fault' = fault \/ fault' = "handler"
  PROVE  Inv'
PROOF
<1> USE DEF Inv, MainUnchanged
<1>1. Types' /\ InLoop'
  BY DEF Types, InLoop, Alive, Signals
<1>2. \A j \in Slots : Empty(j)' <=> Empty(j)
  BY DEF Empty
<1>3. \A j \in Slots : thr'[j] = thr[j] \/ (j = i /\ thr'[j] \in Alive)
  BY DEF Types
<1>4. NobodyThere' /\ SomebodyElse'
  BY <1>2, <1>3 DEF NobodyThere, SomebodyElse, Alive
<1>5. NoQueueAlone' /\ TwoNotify'
  BY <1>3 DEF NoQueueAlone, TwoNotify, Types, Alive
<1>6. DriverUp' /\ Unlinked' /\ SafeOnceCreated'
  BY DEF DriverUp, Unlinked, SafeOnceCreated
<1> QED
  BY <1>1, <1>4, <1>5, <1>6

LEMMA ThreadsStep ==
  ASSUME Inv, NEW i \in Slots,
         Begin(i) \/ Fail(i) \/ Check(i) \/ WakeQueued(i) \/ WakeTimer(i) \/ Handle(i)
         \/ Exit(i)
  PROVE  Inv'
PROOF
<1>1. MainUnchanged /\ (fault' = fault \/ fault' = "handler")
  BY DEF Begin, Fail, Check, WakeQueued, WakeTimer, Handle, Exit
<1>2. \E s \in Alive :
        thr[i] \in Alive /\ thr' = [thr EXCEPT ![i] = s] /\ (s = "notify" => Notifies(i))
  BY DEF Begin, Fail, Check, WakeQueued, WakeTimer, Handle, Exit, Goto, Alive, ThrStates
<1>3. /\ thr[i] \in Alive /\ thr'[i] \in Alive /\ thr' \in [Slots -> ThrStates]
      /\ \A j \in Slots : j # i => thr'[j] = thr[j]
      /\ thr'[i] = "notify" => Notifies(i)
  <2>1. thr \in [Slots -> ThrStates]
    BY DEF Inv, Types
  <2>2. ASSUME NEW s \in Alive, thr[i] \in Alive, thr' = [thr EXCEPT ![i] = s],
               s = "notify" => Notifies(i)
        PROVE  /\ thr[i] \in Alive /\ thr'[i] \in Alive /\ thr' \in [Slots -> ThrStates]
               /\ \A j \in Slots : j # i => thr'[j] = thr[j]
               /\ thr'[i] = "notify" => Notifies(i)
    BY <2>1, <2>2 DEF Alive
  <2> QED
    BY <1>2, <2>2
<1>4. ~Empty(i)
  BY <1>3 DEF Inv, NobodyThere, Alive
<1>5. thr'[i] = "notify" => i <= 2
  <2>1. layout \in Layouts /\ i \in Nat /\ i >= 1 /\ i <= Len(layout)
    BY <1>4, LayoutType DEF Inv, Types, Empty, Slots
  <2>2. i \in 3..Len(layout) => layout[i] \in {"sync", "ic", "wunder"}
    BY <2>1, LayoutType
  <2>3. i <= 2 \/ i \in 3..Len(layout)
    BY <2>1, LayoutType
  <2> QED
    BY <1>3, <2>2, <2>3 DEF Notifies
<1>6. /\ queue' \in [Slots -> Seq(Signals)]
      /\ \A j \in Slots : j # i => queue'[j] = queue[j]
  <2>1. queue \in [Slots -> Seq(Signals)]
    BY DEF Inv, Types, Signals
  <2>2. queue' = queue \/ (queue[i] # <<>> /\ queue' = [queue EXCEPT ![i] = Tail(@)])
    BY DEF Begin, Fail, Check, WakeQueued, WakeTimer, Handle, Exit
  <2> QED
    <3>1. \A q \in Seq(Signals) : q # <<>> => Tail(q) \in Seq(Signals)
      OBVIOUS
    <3> QED
      BY <2>1, <2>2, <3>1
<1> HIDE DEF MainUnchanged
<1> QED
  BY <1>1, <1>3, <1>5, <1>6, ThreadMoves

(* A reading reaches only threads there are; when it is sent to another one *)
(* either that one could not be created or threads_create is not through.   *)
LEMMA NotifyStep ==
  ASSUME Inv, NEW i \in Slots, Notify(i)
  PROVE  Inv'
PROOF
<1> DEFINE To == {j \in Running : Listens(j, Reading(i))}
<1>1. /\ thr[i] = "notify" /\ thr' = [thr EXCEPT ![i] = "check"]
      /\ fault' = IF \E j \in To : thr[j] \in {"none", "void"} THEN "tid" ELSE fault
      /\ queue' = [j \in Slots |->
             IF j \in To /\ thr[j] \notin {"none", "void", "done"}
                /\ Len(queue[j]) < MaxQueue
               THEN Append(queue[j], Reading(i)) ELSE queue[j]]
      /\ MainUnchanged
  BY DEF Notify, Goto
<1>2. /\ layout \in Layouts /\ k \in Nat /\ i <= 2 /\ i <= Len(layout) /\ ~Empty(i)
      /\ thr \in [Slots -> ThrStates] /\ queue \in [Slots -> Seq(Signals)]
  <2>1. ~Empty(i) /\ i <= 2
    BY <1>1 DEF Inv, NobodyThere, TwoNotify
  <2>2. layout \in Layouts
    BY DEF Inv, Types
  <2>3. i <= Len(layout)
    BY <2>1, <2>2, LayoutType DEF Empty, Slots
  <2> QED
    BY <2>1, <2>2, <2>3 DEF Inv, Types, Signals
<1>3. \A j \in To : j \in 3..Len(layout) /\ j \in Slots
  BY <1>2, LayoutType DEF Running, Listens
<1>4. Reading(i) \in Signals
  BY DEF Reading, Signals
<1> HIDE DEF To
<1>5. thr' \in [Slots -> ThrStates] /\ queue' \in [Slots -> Seq(Signals)]
  BY <1>1, <1>2, <1>4 DEF ThrStates
<1>6. \A j \in Slots : Empty(j)' <=> Empty(j)
  BY <1>1 DEF Empty, MainUnchanged
<1>7. \A j \in Slots : thr'[j] = thr[j] \/ (j = i /\ thr'[j] = "check")
  BY <1>1, <1>2
<1>8. Types' /\ InLoop' /\ DriverUp' /\ Unlinked'
  BY <1>1, <1>5 DEF Inv, Types, InLoop, DriverUp, Unlinked, MainUnchanged, Signals
<1>9. NobodyThere' /\ SomebodyElse' /\ TwoNotify'
  BY <1>1, <1>2, <1>6, <1>7
  DEF Inv, NobodyThere, SomebodyElse, TwoNotify, MainUnchanged
<1>10. NoQueueAlone'
  BY <1>1, <1>7 DEF Inv, NoQueueAlone
<1>11. SafeOnceCreated'
  <2>1. ASSUME NEW j \in To, thr[j] \in {"none", "void"}
        PROVE  main = "create" \/ missing
    <3>1. j \in Slots /\ j > i /\ j <= Len(layout)
      BY <1>2, <1>3, <2>1 DEF Slots
    <3>2. CASE thr[j] = "none" /\ Empty(j)
      BY <1>2, <3>1, <3>2, LayoutType DEF Empty, Slots
    <3>3. CASE thr[j] = "void" \/ ~Empty(j)
      BY <2>1, <3>1, <3>3 DEF Inv, SomebodyElse
    <3> QED
      BY <2>1, <3>2, <3>3
  <2> QED
    BY <1>1, <2>1 DEF Inv, SafeOnceCreated, MainUnchanged
<1> QED
  BY <1>8, <1>9, <1>10, <1>11 DEF Inv

(* threads_create goes from one service to the next, the thread started or *)
(* not.                                                                     *)
LEMMA CreateOne ==
  ASSUME Inv, main = "create", k \in Slots, k <= Len(layout),
         NEW s \in {"new", "void", "none"},
         thr' = [thr EXCEPT ![k] = s], (s = "new" /\ missing' = missing) \/ missing',
         k' = k + 1, UNCHANGED <<main, layout, queue, drv, board, fault>>
  PROVE  Inv'
PROOF
<1> USE DEF Inv
<1>1. /\ layout \in Layouts /\ k \in Nat /\ Len(layout) \in Nat
      /\ \A j \in Slots : j \in Nat
  BY LayoutType DEF Types, Slots
<1>2. \A j \in Slots : Empty(j)' <=> Empty(j) /\ j # k
  BY <1>1 DEF Empty
<1>3. thr[k] = "none" /\ queue[k] = << >>
  BY DEF NobodyThere, NoQueueAlone, Empty, Types
<1>4. \A j \in Slots : thr'[j] = IF j = k THEN s ELSE thr[j]
  BY DEF Types
<1>5. Types'
  BY <1>1 DEF Types, ThrStates
<1>6. InLoop' /\ DriverUp' /\ Unlinked' /\ SafeOnceCreated'
  BY <1>1 DEF InLoop, DriverUp, Unlinked, SafeOnceCreated
<1>7. NobodyThere' /\ NoQueueAlone' /\ TwoNotify'
  BY <1>2, <1>3, <1>4 DEF NobodyThere, NoQueueAlone, TwoNotify
<1>8. SomebodyElse'
  BY <1>2, <1>4 DEF SomebodyElse
<1> QED
  BY <1>5, <1>6, <1>7, <1>8

(* worker_main and the loop of main *)
LEMMA MainSteps ==
  ASSUME Inv, fault = "none", MainStep \/ StartFails \/ CreateFails
  PROVE  Inv'
PROOF
<1> USE DEF Inv, threadVars
<1>1. CASE Start
  BY <1>1, LayoutType, SMTT(30) DEF Start, Types, Phases, InLoop, NobodyThere, NoQueueAlone,
    SomebodyElse, TwoNotify, DriverUp, Unlinked, SafeOnceCreated, Empty
<1>2. CASE StartFails
  BY <1>2, LayoutType DEF StartFails, Types, Phases, InLoop, NobodyThere, NoQueueAlone,
    SomebodyElse, TwoNotify, DriverUp, Unlinked, SafeOnceCreated, Empty
<1>0. /\ layout \in Layouts /\ k \in Nat /\ Running = 1..Len(layout)
      /\ thr \in [Slots -> ThrStates] /\ queue \in [Slots -> Seq(Signals)]
  BY LayoutType DEF Types, Running, Signals
<1>3. CASE Create
  <2>1. CASE k \in Running
    <3>1. /\ main = "create" /\ thr' = [thr EXCEPT ![k] = "new"] /\ k' = k + 1
          /\ UNCHANGED <<main, layout, queue, missing, drv, board, fault>>
      BY <1>3, <2>1 DEF Create
    <3>2. k \in Slots /\ k <= Len(layout)
      BY <1>0, <2>1, LayoutType
    <3> QED
      BY <1>0, <3>1, <3>2, CreateOne DEF ThrStates
  <2>2. CASE k \notin Running
    <3>1. /\ main = "create" /\ main' = "wait"
          /\ UNCHANGED <<k, layout, thr, queue, missing, drv, board, fault>>
      BY <1>3, <2>2 DEF Create
    <3>2. Types' /\ InLoop'
      BY <3>1 DEF Types, Phases, InLoop
    <3>3. \A j \in Slots : Empty(j)' <=> Empty(j)
      BY <1>0, <2>2, <3>1, LayoutType DEF InLoop, Empty, Slots
    <3>4. SafeOnceCreated'
      BY <3>1 DEF SafeOnceCreated
    <3> QED
      BY <3>1, <3>2, <3>3, <3>4 DEF NobodyThere, NoQueueAlone, SomebodyElse, TwoNotify,
        DriverUp, Unlinked
  <2> QED
    BY <2>1, <2>2
<1>4. CASE CreateFails
  <2>1. /\ main = "create" /\ k \in Running /\ k' = k + 1 /\ missing'
        /\ thr' = thr \/ thr' = [thr EXCEPT ![k] = "void"]
        /\ UNCHANGED <<main, layout, queue, drv, board, fault>>
    BY <1>4 DEF CreateFails
  <2>2. k \in Slots /\ k <= Len(layout)
    BY <1>0, <2>1, LayoutType
  <2>3. thr[k] = "none"
    BY <2>1, <2>2 DEF NobodyThere, Empty, Types, Slots
  <2>4. thr' = [thr EXCEPT ![k] = "none"] \/ thr' = [thr EXCEPT ![k] = "void"]
    BY <1>0, <2>1, <2>3
  <2> QED
    BY <2>1, <2>2, <2>4, CreateOne
<1>5. CASE \E s \in pend : TakeSignal(s)
  <2>1. /\ main = "wait" /\ main' = "kill" /\ k' = 1
        /\ UNCHANGED <<layout, thr, queue, missing, drv, board, fault>>
    BY <1>5 DEF TakeSignal
  <2>2. Types' /\ InLoop'
    BY <1>0, <2>1, LayoutType DEF Types, Phases, InLoop
  <2>3. \A j \in Slots : Empty(j)' <=> Empty(j)
    BY <1>0, <2>1, LayoutType DEF Empty, Slots
  <2> QED
    BY <2>1, <2>2, <2>3 DEF NobodyThere, NoQueueAlone, SomebodyElse, TwoNotify, DriverUp,
      Unlinked, SafeOnceCreated
<1>6. CASE Kill
  <2>1. CASE k \in Running /\ thr[k] = "none"
    <3>1. /\ main = "kill" /\ k' = k + 1
          /\ UNCHANGED <<main, layout, thr, queue, missing, drv, board, fault>>
      BY <1>6, <2>1 DEF Kill, Turn
    <3>2. Types' /\ InLoop'
      BY <1>0, <2>1, <3>1, LayoutType DEF Types, Phases, InLoop
    <3>3. \A j \in Slots : Empty(j)' <=> Empty(j) \/ j = k
      BY <1>0, <2>1, <3>1, LayoutType DEF Empty, Slots
    <3> QED
      BY <2>1, <3>1, <3>2, <3>3 DEF NobodyThere, NoQueueAlone, SomebodyElse, TwoNotify,
        DriverUp, Unlinked, SafeOnceCreated
  <2>2. CASE k \in Running /\ thr[k] # "none"
    <3>1. /\ main = "kill" /\ main' = "join" /\ k' = k
          /\ queue' = IF thr[k] \notin {"done", "void"}
                        THEN [queue EXCEPT ![k] = Append(@, "kill")] ELSE queue
          /\ fault' = IF thr[k] = "void" THEN "tid" ELSE fault
          /\ UNCHANGED <<layout, thr, missing, drv, board>>
      BY <1>6, <2>2 DEF Kill, Turn
    <3>2. k \in Slots
      BY <1>0, <2>2, LayoutType
    <3>3. queue' \in [Slots -> Seq(Signals)]
      <4>1. Append(queue[k], "kill") \in Seq(Signals)
        BY <1>0, <3>2 DEF Signals
      <4> QED
        BY <1>0, <3>1, <4>1
    <3>4. Types'
      BY <1>0, <3>1, <3>3 DEF Types, Phases, Signals
    <3>5. InLoop'
      BY <1>0, <2>2, <3>1 DEF InLoop
    <3>6. \A j \in Slots : Empty(j)' <=> Empty(j)
      BY <1>0, <3>1 DEF Empty
    <3>7. NobodyThere' /\ SomebodyElse' /\ TwoNotify' /\ DriverUp' /\ Unlinked'
      BY <3>1, <3>6 DEF NobodyThere, SomebodyElse, TwoNotify, DriverUp, Unlinked
    <3>8. NoQueueAlone'
      BY <1>0, <2>2, <3>1, <3>2 DEF NoQueueAlone
    <3>9. SafeOnceCreated'
      BY <3>1, <3>2 DEF SomebodyElse, SafeOnceCreated
    <3> QED
      BY <3>4, <3>5, <3>7, <3>8, <3>9
  <2>3. CASE k \notin Running
    <3>1. /\ main = "kill" /\ main' = "destroy"
          /\ UNCHANGED <<k, layout, thr, queue, missing, drv, board, fault>>
      BY <1>6, <2>3 DEF Kill
    <3>2. Types' /\ InLoop'
      BY <3>1 DEF Types, Phases, InLoop
    <3>3. \A j \in Slots : Empty(j)
      BY <1>0, <2>3, <3>1, LayoutType DEF InLoop, Empty, Slots
    <3>4. \A j \in Slots : Empty(j)'
      BY <3>1 DEF Empty
    <3> QED
      BY <3>1, <3>2, <3>3, <3>4 DEF NobodyThere, NoQueueAlone, SomebodyElse, TwoNotify,
        DriverUp, Unlinked, SafeOnceCreated
  <2> QED
    BY <2>1, <2>2, <2>3
<1>7. CASE Join
  <2>1. /\ main = "join" /\ main' = "kill" /\ k' = k + 1
        /\ thr[k] = "done" /\ thr' = [thr EXCEPT ![k] = "none"]
        /\ queue' = [queue EXCEPT ![k] = << >>]
        /\ UNCHANGED <<layout, missing, drv, board, fault>>
    BY <1>7 DEF Join, Turn
  <2>2. k \in Slots /\ k \in 1..Len(layout)
    BY <1>0, <2>1, LayoutType DEF InLoop
  <2>3. thr' \in [Slots -> ThrStates] /\ queue' \in [Slots -> Seq(Signals)]
    <3>1. << >> \in Seq(Signals)
      OBVIOUS
    <3> QED
      BY <1>0, <2>1, <3>1 DEF ThrStates
  <2>4. Types' /\ InLoop'
    BY <1>0, <2>1, <2>2, <2>3 DEF Types, Phases, InLoop, Signals
  <2>5. \A j \in Slots : Empty(j)' <=> Empty(j) \/ j = k
    BY <1>0, <2>1, <2>2, LayoutType DEF Empty, Slots
  <2>6. NobodyThere' /\ NoQueueAlone' /\ TwoNotify'
    BY <1>0, <2>1, <2>2, <2>5 DEF NobodyThere, NoQueueAlone, TwoNotify
  <2>7. SomebodyElse'
    BY <1>0, <2>1, <2>2, <2>5 DEF SomebodyElse
  <2>8. DriverUp' /\ Unlinked' /\ SafeOnceCreated'
    BY <2>1 DEF DriverUp, Unlinked, SafeOnceCreated
  <2> QED
    BY <2>4, <2>6, <2>7, <2>8
<1>8. CASE Destroy
  BY <1>8, LayoutType DEF Destroy, Types, Phases, InLoop, NobodyThere, NoQueueAlone,
    SomebodyElse, TwoNotify, DriverUp, Unlinked, SafeOnceCreated, Empty
<1>9. CASE \E l \in Layouts : Reload(l)
  BY <1>9, LayoutType DEF Reload, Types, Phases, InLoop, NobodyThere, NoQueueAlone,
    SomebodyElse, TwoNotify, DriverUp, Unlinked, SafeOnceCreated, Empty
<1> QED
  BY <1>1, <1>2, <1>3, <1>4, <1>5, <1>6, <1>7, <1>8, <1>9 DEF MainStep

LEMMA InvStep == Inv /\ [Next]_vars => Inv'
PROOF
<1> SUFFICES ASSUME Inv, [Next]_vars
             PROVE  Inv'
  OBVIOUS
<1>1. CASE fault = "none" /\ (MainStep \/ StartFails \/ CreateFails)
  BY <1>1, MainSteps
<1>2. CASE \E i \in Slots : ThreadStep(i) \/ Fail(i)
  BY <1>2, ThreadsStep, NotifyStep DEF ThreadStep
<1>3. CASE \/ \E i \in Slots : Expire(i)
           \/ \E s \in {"HUP", "TERM"} : Send(s)
           \/ UNCHANGED vars
  <2>1. UNCHANGED <<main, k, layout, thr, queue, missing, drv, board, fault>>
    BY <1>3 DEF Expire, Send, MainUnchanged, threadVars, vars
  <2> QED
    BY <2>1 DEF Inv, Types, InLoop, NobodyThere, NoQueueAlone, SomebodyElse, TwoNotify,
      DriverUp, Unlinked, SafeOnceCreated, Empty
<1> QED
  BY <1>1, <1>2, <1>3 DEF Next, Ended

LEMMA InvAlways == Spec => []Inv
PROOF
<1> QED
  BY InvInit, InvStep, PTL DEF Spec

LEMMA InvSafe == Inv => DriverOpenWhileUsed /\ AllStopped /\ SafeOnceCreated
PROOF
<1> SUFFICES ASSUME Inv
             PROVE  DriverOpenWhileUsed /\ AllStopped /\ SafeOnceCreated
  OBVIOUS
<1> USE DEF Inv
<1>1. \A i \in Slots : main \in {"start", "reload", "halted", "failed"} => Empty(i)
  BY DEF Empty
<1>2. Running \subseteq Slots
  BY LayoutType DEF Types, Running
<1>3. DriverOpenWhileUsed
  BY <1>1, <1>2 DEF DriverOpenWhileUsed, NobodyThere, DriverUp, Types, Phases
<1>4. AllStopped
  BY <1>1 DEF AllStopped, NobodyThere, NoQueueAlone, DriverUp, Unlinked
<1> QED
  BY <1>3, <1>4

(* No handler of a service that uses the driver runs on a closed driver: worker_main *)
(* joins every thread before worker_destroy closes it, in every configuration.       *)
THEOREM WorkerDriverOpen == Spec => []DriverOpenWhileUsed
PROOF
<1> QED
  BY InvAlways, InvSafe, PTL

(* A generation of threads is gone as a whole, its queued readings with it, when the *)
(* configuration is read again and when wslogd has ended: threads_kill passes over   *)
(* no thread there is, whatever the services notify meanwhile.                       *)
THEOREM WorkerAllStopped == Spec => []AllStopped
PROOF
<1> QED
  BY InvAlways, InvSafe, PTL

(* Once threads_create is through, the sensor and the archive thread notify only     *)
(* threads there are, those that could not be created apart: threads_kill joins them *)
(* before the services that listen.                                                  *)
THEOREM WorkerSafeOnceCreated == Spec => []SafeOnceCreated
PROOF
<1> QED
  BY InvAlways, InvSafe, PTL

---------------------------------------------------------------------------
(* The timers *)

(* The generations of threads still to come of the signals sent so far.     *)
ToCome ==
  (IF "HUP" \in pend THEN 1 ELSE 0)
    + (IF main \in {"start", "reload"} \/ (main \in {"kill", "join", "destroy"} /\ ~term)
       THEN 1 ELSE 0)

(* The thread of a slot that has its timer to create yet in this one.       *)
MayBegin(i) == thr[i] = "new" \/ (main = "create" /\ i >= k)

(* Each generation leaves one timer behind in each slot at most.            *)
OneEach ==
  \A i \in Slots : timers[i] + (IF MayBegin(i) THEN 1 ELSE 0) + ToCome <= hups + 1

FiredOfTimers == \A i \in Slots : fired[i] <= timers[i]

TimerTypes ==
  /\ timers \in [Slots -> Nat] /\ fired \in [Slots -> Nat]
  /\ hups \in 0..MaxHups
  /\ pend \subseteq {"HUP", "TERM"}

Marks ==
  /\ hup \in BOOLEAN /\ term \in BOOLEAN
  /\ missing \in BOOLEAN /\ drv \in BOOLEAN

Names ==
  /\ board \in {"none", "open", "unlinked"}
  /\ fault \in {"none", "tid", "handler"}

TimersInv == TimerTypes /\ FiredOfTimers /\ OneEach /\ Marks /\ Names

LEMMA TimersInit == Init => TimersInv
PROOF
<1> SUFFICES ASSUME Init
             PROVE  TimersInv
  OBVIOUS
<1> USE DEF Init
<1>1. TimerTypes /\ FiredOfTimers
  BY BoundsAssumption DEF TimerTypes, FiredOfTimers
<1>2. ToCome = 1 /\ \A i \in Slots : ~MayBegin(i)
  BY DEF ToCome, MayBegin
<1>3. OneEach
  BY <1>2 DEF OneEach
<1>4. Marks
  BY DEF Marks
<1>5. Names
  BY DEF Names
<1> QED
  BY <1>1, <1>3, <1>4, <1>5 DEF TimersInv

LEMMA NamesStep == Names /\ Next => Names'
BY DEF Names, Next, MainStep, Start, StartFails, Create, CreateFails, TakeSignal, Kill, Join,
  Destroy, Reload, ThreadStep, Fail, Begin, Check, WakeQueued, WakeTimer, Handle, Notify, Exit,
  Expire, Send, Ended, MainUnchanged, threadVars, vars

LEMMA MarksStep == Marks /\ Next => Marks'
PROOF
<1> SUFFICES ASSUME Marks, Next
             PROVE  Marks'
  OBVIOUS
<1>1. CASE MainStep
  BY <1>1 DEF Marks, MainStep, Start, Create, TakeSignal, Kill, Join, Destroy, Reload, threadVars
<1>2. CASE StartFails \/ CreateFails
  BY <1>2 DEF Marks, StartFails, CreateFails, threadVars
<1>3. CASE \E i \in Slots : ThreadStep(i) \/ Fail(i) \/ Expire(i)
  BY <1>3 DEF Marks, ThreadStep, Begin, Check, WakeQueued, WakeTimer, Handle, Notify, Exit,
    Fail, Expire, MainUnchanged
<1>4. CASE (\E s \in {"HUP", "TERM"} : Send(s)) \/ Ended
  BY <1>4 DEF Marks, Send, Ended, vars
<1> QED
  BY <1>1, <1>2, <1>3, <1>4 DEF Next

(* Main creates no timer itself: a new generation is paid by the first      *)
(* start or by a SIGHUP.                                                     *)
LEMMA TimersMain ==
  ASSUME Inv, TimersInv, MainStep \/ StartFails \/ CreateFails
  PROVE  TimerTypes' /\ FiredOfTimers' /\ OneEach'
PROOF
<1>1. /\ UNCHANGED <<timers, fired, hups>>
      /\ pend' \subseteq pend
  BY DEF MainStep, Start, StartFails, Create, CreateFails, TakeSignal, Kill, Join, Destroy,
    Reload, threadVars
<1>2. TimerTypes' /\ FiredOfTimers'
  BY <1>1 DEF TimersInv, TimerTypes, FiredOfTimers
<1>3. ASSUME NEW i \in Slots
      PROVE  (IF MayBegin(i)' THEN 1 ELSE 0) + ToCome' <= (IF MayBegin(i) THEN 1 ELSE 0) + ToCome
  <2> USE <1>3 DEF MayBegin, ToCome
  <2>0. i \in Nat /\ k \in Nat /\ thr \in [Slots -> ThrStates]
    BY DEF Inv, Types, Slots
  <2>1. CASE Start
    BY <2>0, <2>1 DEF Start, threadVars
  <2>2. CASE StartFails
    BY <2>0, <2>2 DEF StartFails, threadVars
  <2>3. CASE Create
    BY <2>0, <2>3 DEF Create
  <2>4. CASE CreateFails
    BY <2>0, <2>4 DEF CreateFails
  <2>5. ASSUME NEW s \in pend, TakeSignal(s)
        PROVE  (IF MayBegin(i)' THEN 1 ELSE 0) + ToCome' <= (IF MayBegin(i) THEN 1 ELSE 0) + ToCome
    <3>1. /\ s = "HUP" \/ s = "TERM"
          /\ main = "wait" /\ main' = "kill" /\ thr' = thr /\ pend' = pend \ {s}
          /\ s = "TERM" => term'
      BY <2>5 DEF TakeSignal, threadVars, TimersInv, TimerTypes
    <3>2. MayBegin(i)' <=> MayBegin(i)
      BY <3>1
    <3>3. ToCome' <= ToCome
      BY <3>1
    <3> HIDE DEF MayBegin, ToCome
    <3>4. PICK b \in Nat, d \in Nat : b = ToCome' /\ d = ToCome
      BY DEF ToCome
    <3>5. b <= d
      BY <3>3, <3>4
    <3>6. (IF MayBegin(i) THEN 1 ELSE 0) + b <= (IF MayBegin(i) THEN 1 ELSE 0) + d
      BY <3>5
    <3> QED
      BY <3>2, <3>4, <3>6
  <2>6. CASE Kill
    BY <2>0, <2>6 DEF Kill
  <2>7. CASE Join
    BY <2>0, <2>7 DEF Join
  <2>8. CASE Destroy
    BY <2>0, <2>8 DEF Destroy, threadVars
  <2>9. CASE \E l \in Layouts : Reload(l)
    BY <2>0, <2>9 DEF Reload, threadVars
  <2> QED
    BY <2>1, <2>2, <2>3, <2>4, <2>5, <2>6, <2>7, <2>8, <2>9 DEF MainStep
<1>4. OneEach'
  <2> SUFFICES ASSUME NEW i \in Slots
               PROVE  timers[i] + (IF MayBegin(i)' THEN 1 ELSE 0) + ToCome' <= hups + 1
    BY <1>1 DEF OneEach
  <2>1. PICK a \in Nat, b \in Nat :
          a = (IF MayBegin(i)' THEN 1 ELSE 0) /\ b = ToCome'
    BY DEF ToCome
  <2>2. PICK c \in Nat, d \in Nat :
          c = (IF MayBegin(i) THEN 1 ELSE 0) /\ d = ToCome
    BY DEF ToCome
  <2>3. a + b <= c + d
    BY <1>3, <2>1, <2>2
  <2>4. timers[i] + c + d <= hups + 1 /\ timers[i] \in Nat /\ hups \in Nat
    BY <2>2 DEF TimersInv, OneEach, TimerTypes
  <2>5. timers[i] + a + b <= hups + 1
    BY <2>3, <2>4
  <2> QED
    BY <2>1, <2>5
<1> QED
  BY <1>2, <1>4

(* A thread creates its timer once, when it begins. *)
LEMMA TimersThread ==
  ASSUME Inv, TimersInv, NEW i \in Slots, ThreadStep(i) \/ Fail(i) \/ Expire(i)
  PROVE  TimerTypes' /\ FiredOfTimers' /\ OneEach'
PROOF
<1> USE DEF TimersInv
<1>0. /\ UNCHANGED <<main, k, pend, term, hups>>
      /\ thr \in [Slots -> ThrStates] /\ ToCome' = ToCome /\ ToCome \in Nat /\ hups \in Nat
  <2>1. UNCHANGED <<main, k, pend, term, hups>>
    BY DEF ThreadStep, Fail, Expire, Begin, Check, WakeQueued, WakeTimer, Handle, Notify, Exit,
      MainUnchanged
  <2> QED
    BY <2>1 DEF Inv, Types, ToCome, TimerTypes
<1>1. CASE Begin(i)
  <2>1. /\ thr[i] = "new" /\ thr' = [thr EXCEPT ![i] = "check"] /\ fired' = fired
        /\ timers' = [timers EXCEPT ![i] = IF HasTimer(i) THEN @ + 1 ELSE @]
    BY <1>1 DEF Begin, Goto
  <2>2. ~(main = "create" /\ i >= k)
    BY <2>1 DEF Inv, NobodyThere, Empty
  <2>3. /\ timers' \in [Slots -> Nat]
        /\ \A j \in Slots : timers'[j] = IF j = i /\ HasTimer(i) THEN timers[j] + 1 ELSE timers[j]
    BY <2>1 DEF TimerTypes
  <2>4. \A j \in Slots : thr'[j] = IF j = i THEN "check" ELSE thr[j]
    BY <1>0, <2>1
  <2>5. TimerTypes' /\ FiredOfTimers'
    BY <1>0, <2>1, <2>3 DEF TimerTypes, FiredOfTimers
  <2>6. ASSUME NEW j \in Slots
        PROVE  timers'[j] + (IF MayBegin(j)' THEN 1 ELSE 0) + ToCome <= hups + 1
    <3>1. timers[j] + (IF MayBegin(j) THEN 1 ELSE 0) + ToCome <= hups + 1 /\ timers[j] \in Nat
      BY DEF OneEach, TimerTypes
    <3>2. CASE j = i
      <4>1. MayBegin(j) /\ ~MayBegin(j)'
        BY <1>0, <2>1, <2>2, <2>4, <3>2 DEF MayBegin
      <4> QED
        BY <1>0, <2>3, <3>1, <4>1
    <3>3. CASE j # i
      <4>1. MayBegin(j)' <=> MayBegin(j)
        BY <1>0, <2>4, <3>3 DEF MayBegin
      <4> QED
        BY <1>0, <2>3, <3>1, <3>3, <4>1
    <3> QED
      BY <3>2, <3>3
  <2> QED
    BY <1>0, <2>5, <2>6 DEF OneEach
<1>2. ASSUME ~Begin(i)
      PROVE  TimerTypes' /\ FiredOfTimers' /\ OneEach'
  <2>1. timers' = timers /\ \A j \in Slots : MayBegin(j)' => MayBegin(j)
    <3>1. timers' = timers /\ UNCHANGED <<main, k>>
      BY <1>0, <1>2 DEF ThreadStep, Fail, Expire, Check, WakeQueued, WakeTimer, Handle, Notify,
        Exit
    <3>2. \/ thr' = thr
          \/ \E s \in ThrStates : s # "new" /\ thr' = [thr EXCEPT ![i] = s]
      BY <1>2 DEF ThreadStep, Fail, Expire, Check, WakeQueued, WakeTimer, Handle, Notify,
        Exit, Goto, ThrStates
    <3> QED
      BY <1>0, <3>1, <3>2 DEF MayBegin
  <2>2. OneEach'
    <3> SUFFICES ASSUME NEW j \in Slots
                 PROVE  timers[j] + (IF MayBegin(j)' THEN 1 ELSE 0) + ToCome <= hups + 1
      BY <1>0, <2>1 DEF OneEach
    <3>1. timers[j] + (IF MayBegin(j) THEN 1 ELSE 0) + ToCome <= hups + 1 /\ timers[j] \in Nat
      BY DEF OneEach, TimerTypes
    <3>2. CASE MayBegin(j)'
      BY <2>1, <3>1, <3>2
    <3>3. CASE ~MayBegin(j)'
      BY <1>0, <3>1, <3>3
    <3> QED
      BY <3>2, <3>3
  <2>3. \/ fired' = fired
        \/ fired[i] > 0 /\ fired' = [fired EXCEPT ![i] = @ - 1]
        \/ fired[i] < timers[i] /\ fired' = [fired EXCEPT ![i] = @ + 1]
    BY <1>2 DEF ThreadStep, Fail, Expire, Check, WakeQueued, WakeTimer, Handle, Notify, Exit
  <2>4. FiredOfTimers' /\ TimerTypes'
    BY <1>0, <2>1, <2>3 DEF FiredOfTimers, TimerTypes
  <2> QED
    BY <2>2, <2>4
<1> QED
  BY <1>1, <1>2

LEMMA TimersStep == Inv /\ TimersInv /\ [Next]_vars => TimersInv'
PROOF
<1> SUFFICES ASSUME Inv, TimersInv, [Next]_vars
             PROVE  TimersInv'
  OBVIOUS
<1>1. ASSUME MainStep \/ StartFails \/ CreateFails
      PROVE  TimerTypes' /\ FiredOfTimers' /\ OneEach'
  BY <1>1, TimersMain
<1>2. ASSUME NEW i \in Slots, ThreadStep(i) \/ Fail(i) \/ Expire(i)
      PROVE  TimerTypes' /\ FiredOfTimers' /\ OneEach'
  BY <1>2, TimersThread
<1>3. ASSUME NEW s \in {"HUP", "TERM"}, Send(s)
      PROVE  TimerTypes' /\ FiredOfTimers' /\ OneEach'
  <2>1. /\ UNCHANGED <<main, k, thr, timers, fired, term>>
        /\ pend' = pend \cup {s}
        /\ s = "HUP" => hups < MaxHups /\ hups' = hups + 1
        /\ s = "TERM" => hups' = hups
    BY <1>3 DEF Send, threadVars
  <2>2. TimerTypes' /\ FiredOfTimers'
    BY <2>1, BoundsAssumption DEF TimersInv, TimerTypes, FiredOfTimers
  <2>3. ASSUME NEW i \in Slots
        PROVE  MayBegin(i)' <=> MayBegin(i)
    BY <2>1 DEF MayBegin
  <2>4. ToCome \in Nat /\ ToCome' \in Nat /\ hups \in Nat /\ hups' \in Nat
    BY <2>2 DEF ToCome, TimersInv, TimerTypes
  <2>5. PICK a \in Nat, b \in Nat : a = ToCome' /\ b = hups' /\ a + hups <= ToCome + b
    <3>1. PICK a \in Nat, b \in Nat : a = ToCome' /\ b = hups'
      BY <2>4
    <3>2. CASE s = "HUP"
      <4>1. a <= ToCome + 1 /\ b = hups + 1
        BY <2>1, <2>4, <3>1, <3>2 DEF ToCome
      <4> QED
        BY <2>4, <3>1, <4>1
    <3>3. CASE s = "TERM"
      <4>1. a = ToCome /\ b = hups
        BY <2>1, <3>1, <3>3 DEF ToCome
      <4> QED
        BY <2>4, <3>1, <4>1
    <3> QED
      BY <3>2, <3>3
  <2>6. ASSUME NEW i \in Slots
        PROVE  timers[i] + (IF MayBegin(i)' THEN 1 ELSE 0) + ToCome' <= hups' + 1
    <3>1. timers[i] + (IF MayBegin(i) THEN 1 ELSE 0) + ToCome <= hups + 1 /\ timers[i] \in Nat
      BY DEF TimersInv, OneEach, TimerTypes
    <3>2. PICK c \in Nat, d \in Nat : c = (IF MayBegin(i) THEN 1 ELSE 0) /\ d = ToCome
      BY <2>4
    <3>3. timers[i] + c + d <= hups + 1 /\ a + hups <= d + b
      BY <2>5, <3>1, <3>2
    <3>4. timers[i] + c + a <= b + 1
      BY <2>4, <3>1, <3>3
    <3> QED
      BY <2>3, <2>5, <3>2, <3>4
  <2> QED
    BY <2>1, <2>2, <2>6 DEF OneEach
<1>4. CASE UNCHANGED vars
  <2>1. TimerTypes' /\ FiredOfTimers' /\ OneEach'
    BY <1>4 DEF vars, TimersInv, TimerTypes, FiredOfTimers, OneEach, ToCome, MayBegin
  <2>2. Marks' /\ Names'
    BY <1>4 DEF vars, TimersInv, Marks, Names
  <2> QED
    BY <2>1, <2>2 DEF TimersInv
<1>5. CASE Next
  <2>1. TimerTypes' /\ FiredOfTimers' /\ OneEach'
    <3>1. CASE UNCHANGED vars
      BY <1>4, <3>1 DEF TimersInv
    <3> QED
      BY <1>1, <1>2, <1>3, <1>5, <3>1 DEF Next, Ended
  <2> QED
    BY <1>5, <2>1, NamesStep, MarksStep DEF TimersInv
<1> QED
  BY <1>4, <1>5

(* timer_delete(&timer) in sigtimer_main deletes nothing, and yet the timers of a    *)
(* slot, and with them their pending signals, never outnumber the generations of     *)
(* threads there have been: one more than the SIGHUPs sent, whatever fails.          *)
THEOREM WorkerTypeOK == Spec => []TypeOK
PROOF
<1>1. ASSUME Inv, TimersInv
      PROVE  TypeOK
  <2> USE <1>1 DEF Inv, Types, TimersInv
  <2>1. ASSUME NEW i \in Slots
        PROVE  timers[i] \in 0..(MaxHups + 1) /\ fired[i] \in 0..timers[i]
    <3>1. PICK a \in Nat, b \in Nat :
            a = (IF MayBegin(i) THEN 1 ELSE 0) /\ b = ToCome
      BY DEF ToCome
    <3>2. timers[i] + a + b <= hups + 1 /\ hups \in 0..MaxHups
      BY <3>1 DEF OneEach, TimerTypes
    <3> QED
      BY <3>2, BoundsAssumption DEF TimerTypes, FiredOfTimers
  <2>2. timers \in [Slots -> 0..(MaxHups + 1)] /\ \A i \in Slots : fired[i] \in 0..timers[i]
    BY <2>1 DEF TimerTypes
  <2>3. /\ main \in {"start", "create", "wait", "kill", "join", "destroy", "reload",
                    "halted", "failed"}
        /\ k \in Nat /\ layout \in Layouts /\ thr \in [Slots -> ThrStates]
        /\ queue \in [Slots -> Seq({"rt", "ar", "kill"})]
    BY DEF Phases
  <2>4. pend \subseteq {"HUP", "TERM"} /\ hups \in 0..MaxHups
    BY DEF TimerTypes
  <2> QED
    BY <2>2, <2>3, <2>4 DEF TypeOK, Marks, Names
<1> QED
  BY <1>1, InvAlways, InvStep, TimersInit, TimersStep, PTL DEF Spec
=============================================================================
