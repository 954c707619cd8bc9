----------------------------- MODULE Ws23xxBatch -----------------------------
(***************************************************************************)
(* How ws23xx_read_batch lays the requests of its caller out in areas of   *)
(* the console's memory, and where it looks for each request's nybbles     *)
(* (4 bits, two to a byte) in the buffer the areas are read into.          *)
(***************************************************************************)
EXTENDS Naturals, Sequences, FiniteSets, SequencesExt

(* Requests whose ends this many nybbles or fewer before the next address  *)
(* are read with it: an exchange costs more than the nybbles in between.   *)
Gap == 11

(* A byte holds two nybbles; BytesDown drops the half byte of an odd count. *)
BytesDown(nnyb) == nnyb \div 2

Bytes(nnyb) == (nnyb + 1) \div 2

(* What a caller asks for, at an address.                                  *)
Requests == [addr : Nat, nnyb : Nat \ {0}]

End(q) == q.addr + q.nnyb

(* None of the requests lies inside another one: the end of an area is that *)
(* of the request placed last.                                             *)
NoneInside(req) ==
    \A i, j \in DOMAIN req :
        req[i].addr <= req[j].addr => End(req[i]) <= End(req[j])

(* No nybble that nobody asked for is read with an area.                   *)
NoGap(req) ==
    \A i, j \in DOMAIN req :
        End(req[i]) < req[j].addr /\ req[j].addr <= End(req[i]) + Gap =>
            \E m \in DOMAIN req :
                req[m].addr < req[j].addr /\ req[j].addr <= End(req[m])

(* How many of them are below an address.                                  *)
Below(req, a) == Cardinality({j \in DOMAIN req : req[j].addr < a})

(* The addresses of the requests, as often as requests have them, sorted.  *)
Sorted(req) ==
    [i \in DOMAIN req |->
        CHOOSE a \in {req[j].addr : j \in DOMAIN req} :
            Below(req, a) < i /\ i <= Below(req, a + 1)]

(* Areas joined across any gap below 132 nybbles.                          *)
SameAreaTooFar(area, r) == area.addr + area.nnyb + 12 * Gap >= r.addr

(* Only requests that overlap joined.                                      *)
SameAreaOverlap(area, r) == area.addr + area.nnyb > r.addr

(* A request that begins within Gap nybbles of an area's end is read in it. *)
SameArea(area, r) == area.addr + area.nnyb + Gap >= r.addr

Widened(area, r) == [area EXCEPT !.nnyb = r.addr + r.nnyb - area.addr]

(* An area is [addr, nnyb, at], at the byte of the buffer it starts at.    *)
NextArea(areas, r) ==
    [addr |-> r.addr, nnyb |-> r.nnyb,
     at |-> IF areas = << >> THEN 0
            ELSE Last(areas).at + Bytes(Last(areas).nnyb)]

(* Places the requests with address a: in the last area or in a new one,   *)
(* which then ends where the last of them does.                            *)
Place(req, plan, a) ==
    LET here  == {j \in DOMAIN req : req[j].addr = a}
        r     == req[Max(here)]
        same  == plan.areas # << >> /\ SameArea(Last(plan.areas), r)
        areas == IF same
                 THEN [plan.areas EXCEPT ![Len(plan.areas)] = Widened(@, r)]
                 ELSE Append(plan.areas, NextArea(plan.areas, r))
    IN  [areas |-> areas,
         off |-> [j \in DOMAIN req |->
                    IF j \in here THEN 2 * Last(areas).at + a - Last(areas).addr
                    ELSE plan.off[j]]]

NoPlan(req) == [areas |-> << >>, off |-> [j \in DOMAIN req |-> 0]]

(* The sorted addresses one by one; one that several requests share comes  *)
(* as many times.                                                          *)
Plan(req) ==
    FoldLeft(LAMBDA plan, a : Place(req, plan, a), NoPlan(req), Sorted(req))

(* The bytes of the buffer: those the requests take one by one.            *)
BufferBytes(req) == FoldLeft(LAMBDA n, r : n + Bytes(r.nnyb), 0, req)

==============================================================================
