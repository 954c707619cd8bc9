------------------------------- MODULE Ring -------------------------------
(* One ring of the shared board (src/wslogd/board.c) as its users see it   *)
(* under the lock: pushing a record is one step, and peeking reads it back. *)
(* The ring is re-initialised when a daemon opens the board again; that    *)
(* resets the counters and leaves what the slots hold.                     *)
EXTENDS Circ, Sequences

CONSTANTS Record,   \* contents of a slot that the properties tell apart
          Sz,       \* number of slots, fixed by board_open
          Blank     \* the zeroes of a fresh segment

ASSUME SzAssumption == Sz \in Nat \ {0}
ASSUME BlankAssumption == Blank \notin Record

VARIABLES circ,     \* struct shm_circ
          slot      \* the array it describes

vars == <<circ, slot>>

Slots == 0..(Sz - 1)

TypeOK ==
  /\ circ \in CircType(Sz)
  /\ slot \in [Slots -> Record \cup {Blank}]

Init ==
  /\ circ = EmptyCirc
  /\ slot = [s \in Slots |-> Blank]

(* board_push / board_push_ar: advance, then copy over the newest slot. *)
Push(r) ==
  /\ circ' = Inc(circ, Sz)
  /\ slot' = [slot EXCEPT ![Index(circ', 0)] = r]

(* shm_board_init on a segment that exists already. *)
Reinit ==
  /\ circ' = EmptyCirc
  /\ UNCHANGED slot

Next == Reinit \/ \E r \in Record : Push(r)

Spec == Init /\ [][Next]_vars

---------------------------------------------------------------------------
(* What board_peek(0), board_peek(1), ... return until it returns NULL. *)
Peeked == [i \in 1..circ.nel |-> slot[Index(circ, i - 1)]]

(* The records never wrap before the ring is full: this is what makes      *)
(* shm_buf_index find the i-th most recent record with idx and nel alone.  *)
CircInv == CircOK(circ, Sz)

(* The ring of counters and slots is the window of the last Sz records:    *)
(* board_peek(i) is the i-th most recent push, whatever was overwritten.   *)
W == INSTANCE Window WITH window <- Peeked

ImplementsWindow == W!Spec
===========================================================================
