------------------------------ MODULE Readers ------------------------------
(* A ring of the shared board as its bytes change. Ring says what the ring *)
(* is for those who hold the lock; here a push is the stores it is made    *)
(* of, and the three kinds of readers meet them:                           *)
(*   wunder   wunder_sig_timer copies the newest record under the lock;    *)
(*   view     wsview_current finds it under the lock and reads its fields  *)
(*            after the unlock;                                            *)
(*   list     wslogc follows the ring without the lock.                    *)
(* A reader is explored at a time: they change nothing the others see, and *)
(* Board is about their exclusion. The daemon may die at any point, and    *)
(* the next one initialises the segment in place.                          *)
EXTENDS Ring

CONSTANTS ListAsks,  \* the numbers of records wslogc is asked for, 0 for all
          MaxDeaths  \* bound: daemons that die

ASSUME ListAsksAssumption == ListAsks \subseteq Nat /\ MaxDeaths \in Nat

VARIABLES mem,      \* nel and idx in the segment
          cell,     \* the slots in the segment, each of two halves
          lock,     \* who holds boardp->mutex: "none", "daemon", "reader"
          push,     \* the push under way: its record, the stores to come
          reader,   \* the reader: what it asked for, saw and has read
          begun,    \* pushes begun since the reader's peek, up to Sz (history)
          deaths,   \* daemons that have died
          again     \* the segment was initialised since (history)

memory == <<mem, cell, lock, push, deaths>>
readersVars == <<circ, slot, mem, cell, lock, push, reader, begun, deaths,
                 again>>

Halves == {"head", "tail"}
Whole(r) == [h \in Halves |-> r]
NoPush == [rec |-> Blank, todo |-> {}]

Away == [kind |-> "none", pc |-> "away", nel |-> 0, i |-> 0, seen |-> 0,
         at |-> 0, got |-> Whole(Blank)]

ReadersInit ==
  /\ Init
  /\ mem = EmptyCirc /\ cell = [s \in Slots |-> Whole(Blank)]
  /\ lock = "none" /\ push = NoPush
  /\ reader = Away /\ begun = 0 /\ deaths = 0 /\ again = FALSE

---------------------------------------------------------------------------
(* The daemon *)

\* Slip: the archive service does not wait for the lock.
LockToPushAnyway ==
  /\ lock # "daemon" /\ lock' = "daemon"
  /\ UNCHANGED <<circ, slot, mem, cell, push, reader, begun, deaths, again>>

(* push_record takes the lock for all the records it was given. *)
LockToPush ==
  /\ lock = "none" /\ lock' = "daemon"
  /\ UNCHANGED <<circ, slot, mem, cell, push, reader, begun, deaths, again>>

(* board_push_ar. The first record of a ring leaves idx alone. *)
BeginPush(r) ==
  /\ lock = "daemon" /\ push = NoPush
  /\ push' = [rec |-> r,
              todo |-> (IF mem.nel = 0 THEN {"nel"} ELSE {"nel", "idx"})
                         \cup Halves]
  /\ begun' = IF reader # Away /\ begun < Sz THEN begun + 1 ELSE begun
  /\ UNCHANGED <<circ, slot, mem, cell, lock, reader, deaths, again>>

Stored(x) == push' = [push EXCEPT !.todo = @ \ {x}]

(* The two counters are plain stores: a build may order them either way.   *)
StoreCounter ==
  /\ \/ /\ "nel" \in push.todo
        /\ mem' = IncNel(mem, Sz)
        /\ Stored("nel")
     \/ /\ "idx" \in push.todo
        /\ mem' = IncIdx(mem, Sz)
        /\ Stored("idx")
  /\ UNCHANGED <<circ, slot, cell, lock, reader, begun, deaths,
                 again>>

(* The memcpy to board_peek_ar(0), half by half in any order. *)
StoreHalf(h) ==
  /\ h \in push.todo
  /\ push.todo \subseteq Halves
  /\ cell' = [cell EXCEPT ![Index(mem, 0)][h] = push.rec]
  /\ Stored(h)
  /\ UNCHANGED <<circ, slot, mem, lock, reader, begun, deaths,
                 again>>

(* For those who lock, the push happens as a whole. *)
EndPush ==
  /\ push.rec # Blank /\ push.todo = {}
  /\ Push(push.rec)
  /\ push' = NoPush
  /\ UNCHANGED <<mem, cell, lock, reader, begun, deaths, again>>

UnlockPushed ==
  /\ lock = "daemon" /\ push = NoPush
  /\ lock' = "none"
  /\ UNCHANGED <<circ, slot, mem, cell, push, reader, begun, deaths, again>>

(* The daemon dies wherever it is, its Weather Underground thread with it, *)
(* and the next one opens the segment that was never unlinked: a new       *)
(* mutex, empty counters, and whatever the slots hold.                     *)
Restart ==
  /\ deaths < MaxDeaths /\ deaths' = deaths + 1
  /\ Reinit
  /\ mem' = EmptyCirc
  /\ lock' = "none" /\ push' = NoPush
  /\ reader' = IF reader.kind = "wunder" THEN Away ELSE reader
  /\ again' = (reader' # Away)
  /\ UNCHANGED <<cell, begun>>

---------------------------------------------------------------------------
(* The readers *)

Goes(pc) == reader' = [reader EXCEPT !.pc = pc]

Comes(kind, n) ==
  /\ reader.pc = "away"
  /\ reader' = [Away EXCEPT !.kind = kind, !.pc = "start", !.nel = n]
  /\ UNCHANGED <<circ, slot, memory, begun, again>>

Leaves ==
  /\ reader' = Away /\ begun' = 0 /\ again' = FALSE
  /\ UNCHANGED <<circ, slot, memory>>

\* Slip: the reader peeks without waiting for the lock.
LockAndPeekAnyway ==
  /\ reader.kind \in {"wunder", "view"} /\ reader.pc = "start"
  /\ lock' = "reader"
  /\ reader' = [reader EXCEPT !.pc = IF mem.nel = 0 THEN "none" ELSE "peeked",
                              !.at = Index(mem, 0)]
  /\ begun' = 0 /\ again' = FALSE
  /\ UNCHANGED <<circ, slot, mem, cell, push, deaths>>

(* board_lock, then board_peek(0), which is NULL on an empty ring. *)
LockAndPeek ==
  /\ reader.kind \in {"wunder", "view"} /\ reader.pc = "start"
  /\ lock = "none" /\ lock' = "reader"
  /\ reader' = [reader EXCEPT !.pc = IF mem.nel = 0 THEN "none" ELSE "peeked",
                              !.at = Index(mem, 0)]
  /\ begun' = 0 /\ again' = FALSE
  /\ UNCHANGED <<circ, slot, mem, cell, push, deaths>>

(* The memcpy to the reader's own structure. wsview_current makes the same *)
(* copy and never looks at it.                                             *)
Copy ==
  /\ reader.kind = "wunder" /\ reader.pc = "peeked"
  /\ reader' = [reader EXCEPT !.pc = "copied", !.got = cell[reader.at]]
  /\ UNCHANGED <<circ, slot, memory, begun, again>>

(* board_unlock. On a mutex that was initialised meanwhile it fails and    *)
(* changes nothing, which neither reader looks at.                         *)
UnlockReader ==
  /\ \/ reader.pc = "none" /\ Goes("nothing")
     \/ reader.pc = "copied" /\ Goes("perform")
     \/ reader.kind = "view" /\ reader.pc = "peeked" /\ Goes("head")
  /\ lock' = IF lock = "reader" THEN "none" ELSE lock
  /\ UNCHANGED <<circ, slot, mem, cell, push, begun, deaths, again>>

(* wunder_perform sends the copy; its failures are logged and forgotten. *)
Perform == reader.pc = "perform" /\ Leaves

Nothing == reader.pc = "nothing" /\ Leaves

(* wsview_current fills its table through the pointer into the segment. *)
ReadHalf(h) ==
  /\ reader.kind = "view" /\ reader.pc = h
  /\ reader' = [reader EXCEPT !.pc = IF h = "head" THEN "tail" ELSE "shown",
                              !.got[h] = cell[reader.at][h]]
  /\ UNCHANGED <<circ, slot, memory, begun, again>>

Shown == reader.pc = "shown" /\ Leaves

(* board_peek_ar of wslogc reads nel, and ends the list past it. *)
ListPeek ==
  /\ reader.kind = "list" /\ reader.pc = "start"
  /\ reader' = [reader EXCEPT
       !.seen = mem.nel,
       !.pc = IF reader.i < mem.nel THEN "index" ELSE "nothing"]
  /\ begun' = 0 /\ again' = FALSE
  /\ UNCHANGED <<circ, slot, memory>>

(* shm_buf_index reads idx, and nel again unless the build has kept it. *)
ListIndex ==
  /\ reader.pc = "index"
  /\ \E n \in {reader.seen, mem.nel} :
       reader' = [reader EXCEPT
         !.at = Index([nel |-> n, idx |-> mem.idx], reader.i),
         !.pc = "print"]
  /\ UNCHANGED <<circ, slot, memory, begun, again>>

(* dump_ar goes on to the number it was asked for, to the end when that is 0. *)
ListPrint ==
  /\ reader.pc = "print"
  /\ LET more == reader.nel = 0 \/ reader.i + 1 < reader.nel
     IN  reader' = [reader EXCEPT !.i = @ + 1, !.seen = 0, !.at = 0,
                                  !.pc = IF more THEN "start" ELSE "nothing"]
  /\ UNCHANGED <<circ, slot, memory, begun, again>>

ReaderStep ==
  \/ Comes("wunder", 0) \/ Comes("view", 0) \/ \E n \in ListAsks : Comes("list", n)
  \/ LockAndPeek \/ Copy \/ UnlockReader \/ Perform \/ Nothing
  \/ (\E h \in Halves : ReadHalf(h)) \/ Shown
  \/ ListPeek \/ ListIndex \/ ListPrint

ReadersNext ==
  \/ LockToPush \/ UnlockPushed
  \/ \E r \in Record : BeginPush(r)
  \/ StoreCounter
  \/ \E h \in Halves : StoreHalf(h)
  \/ EndPush
  \/ Restart
  \/ ReaderStep

---------------------------------------------------------------------------
(* What the Weather Underground service finds under the lock is the newest *)
(* record pushed, whole, and it finds nothing only when nothing was pushed *)
(* since the segment was initialised: the stores of shm_buf_inc and memcpy *)
(* never show through the lock.                                            *)
CopyIsNewest ==
  reader.kind = "wunder" =>
    /\ reader.pc = "none" => circ.nel = 0
    /\ reader.pc = "copied" => /\ circ.nel > 0
                               /\ reader.got = Whole(Peeked[1])

(* The values wsview_current shows are those of one record, unless a whole *)
(* turn of pushes was begun since its peek, or the segment was initialised *)
(* under it: the pointer it reads through outlives the lock.               *)
ViewWhole ==
  reader.pc = "shown" =>
    \/ reader.got["head"] = reader.got["tail"]
    \/ begun >= Sz
    \/ again

(* wslogc reads inside the ring although it takes no lock, whichever of    *)
(* the two counters it meets first, unless the segment was initialised     *)
(* between its two looks at them.                                          *)
InRing == reader.pc = "print" /\ ~again => reader.at \in Slots
===========================================================================
