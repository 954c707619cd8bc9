------------------------------- MODULE Circ -------------------------------
(* The arithmetic of struct shm_circ (src/wslogd/board.c): which slot of a *)
(* ring of sz slots the next record goes to, and which slot holds the i-th *)
(* most recent one. nel counts the records held, idx is the slot of the    *)
(* newest. Index is not clamped: on a value of [nel, idx] caught between   *)
(* two assignments it may leave the ring, as the C expression does.        *)
EXTENDS Integers

EmptyCirc == [nel |-> 0, idx |-> 0]

CircType(sz) == [nel : 0..sz, idx : 0..(sz - 1)]

\* Slip: the count goes on when the ring is full.
IncNelUnbounded(c, sz) == [c EXCEPT !.nel = c.nel + 1]

(* The two assignments of shm_buf_inc, in the order they are made. *)
IncNel(c, sz) == [c EXCEPT !.nel = IF c.nel < sz THEN c.nel + 1 ELSE c.nel]

\* Slip: the comparison that lets the index reach the slot past the last.
IncIdxPastEnd(c, sz) ==
  [c EXCEPT !.idx = IF c.idx + 1 <= sz THEN c.idx + 1 ELSE 0]

IncIdx(c, sz) == [c EXCEPT !.idx = IF c.idx + 1 < sz THEN c.idx + 1 ELSE 0]

(* shm_buf_inc: the very first record goes to slot 0 and leaves idx alone. *)
Inc(c, sz) == IF c.nel = 0 THEN [c EXCEPT !.nel = 1]
                           ELSE IncIdx(IncNel(c, sz), sz)

\* Slip: the wrapped branch counts back from the end of the ring only.
IndexNoWrap(c, i) == IF i <= c.idx THEN c.idx - i ELSE c.nel - i

Index(c, i) == IF i <= c.idx THEN c.idx - i ELSE c.nel - (i - c.idx)

(* As long as the ring is not full the records fill slots 0..idx in order. *)
CircOK(c, sz) ==
  /\ c \in CircType(sz)
  /\ c.nel = 0 => c.idx = 0
  /\ 0 < c.nel /\ c.nel < sz => c.idx = c.nel - 1
===========================================================================
