------------------------------ MODULE Window ------------------------------
(* What a ring of the shared board promises to those who read it: the      *)
(* last Sz records pushed since it was initialised, most recent first.     *)
(* Element i of the window is what board_peek(i - 1) points to.            *)
EXTENDS Naturals, Sequences

CONSTANTS Record,   \* what can be pushed
          Sz        \* capacity

VARIABLE window

Init == window = << >>

Pushed(w, r) ==
  [i \in 1..(IF Len(w) < Sz THEN Len(w) + 1 ELSE Sz) |->
     IF i = 1 THEN r ELSE w[i - 1]]

Push(r) == window' = Pushed(window, r)

Clear == window' = << >>

Next == Clear \/ \E r \in Record : Push(r)

Spec == Init /\ [][Next]_window
===========================================================================
