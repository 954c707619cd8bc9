---------------------------- MODULE PublishProofs ----------------------------
(* What becomes of readings, for every size of the ring and all rates.      *)
(*                                                                          *)
(* Ring: the inductive invariant adds to the types that a ring which is not *)
(* full fills its slots in order; the refinement then follows by computing  *)
(* the slot of the i-th most recent record before and after a push.         *)
(* Readers: the bytes of the segment are those of the ring, a push under    *)
(* way apart, and a slot that a reader found under the lock stays as it is  *)
(* until the ring has come around to it.                                    *)
(* StatIC: records are whole intervals apart, so next is never after the    *)
(* record that the service handles; each buffer then has readings of one    *)
(* side of next only, and the latest of each side.                          *)
EXTENDS MCPublish, FiniteSetTheorems, TLAPS

---------------------------------------------------------------------------
(* Ring *)

IInv == TypeOK /\ CircInv

(* shm_buf_inc keeps the counters of a ring consistent, and what was the   *)
(* i-th most recent slot becomes the next one: only the slot about to be   *)
(* overwritten falls out.                                                  *)
LEMMA IncKeeps ==
  ASSUME NEW c, CircOK(c, Sz)
  PROVE  /\ CircOK(Inc(c, Sz), Sz)
         /\ Inc(c, Sz).nel = IF c.nel < Sz THEN c.nel + 1 ELSE Sz
<1> DEFINE d == Inc(c, Sz)
<1>1. c.nel \in 0..Sz /\ c.idx \in 0..(Sz - 1) /\ c \in CircType(Sz)
  BY DEF CircOK, CircType
<1>2. CASE c.nel = 0
  <2>1. d = [c EXCEPT !.nel = 1]
    BY <1>2 DEF Inc
  <2>2. d \in CircType(Sz) /\ d.nel = 1 /\ d.idx = 0
    BY <1>1, <1>2, <2>1, SzAssumption DEF CircType, CircOK
  <2> QED
    BY <1>2, <2>2, SzAssumption DEF CircOK
<1>3. CASE c.nel # 0
  <2>1. /\ d \in CircType(Sz)
        /\ d.nel = IF c.nel < Sz THEN c.nel + 1 ELSE Sz
        /\ d.idx = IF c.idx + 1 < Sz THEN c.idx + 1 ELSE 0
    <3> DEFINE n == IncNel(c, Sz)
    <3>1. /\ n \in CircType(Sz)
          /\ n.nel = IF c.nel < Sz THEN c.nel + 1 ELSE Sz
          /\ n.idx = c.idx
      BY <1>1, SzAssumption DEF IncNel, CircType
    <3>2. d = IncIdx(n, Sz)
      BY <1>3 DEF Inc
    <3> HIDE DEF n, d
    <3> QED
      BY <3>1, <3>2, SzAssumption DEF IncIdx, CircType
  <2> QED
    BY <1>1, <1>3, <2>1, SzAssumption DEF CircOK
<1> QED
  BY <1>2, <1>3

LEMMA IncShifts ==
  ASSUME NEW c, CircOK(c, Sz),
         NEW i \in 0..(Inc(c, Sz).nel - 1), i # 0
  PROVE  /\ i - 1 \in 0..(c.nel - 1)
         /\ Index(Inc(c, Sz), i) = Index(c, i - 1)
  BY SzAssumption DEF CircOK, CircType, Inc, IncNel, IncIdx, Index

(* shm_buf_index stays inside the array and is injective. *)
LEMMA IndexInside ==
  ASSUME NEW c, CircOK(c, Sz), NEW i \in 0..(c.nel - 1)
  PROVE  Index(c, i) \in 0..(Sz - 1)
  BY SzAssumption DEF CircOK, CircType, Index

LEMMA IndexInjective ==
  ASSUME NEW c, CircOK(c, Sz),
         NEW i \in 0..(c.nel - 1), NEW j \in 0..(c.nel - 1),
         Index(c, i) = Index(c, j)
  PROVE  i = j
  BY SzAssumption DEF CircOK, CircType, Index

---------------------------------------------------------------------------
LEMMA InvInductive == Spec => []IInv
<1>1. Init => IInv
  BY SzAssumption
  DEF Init, IInv, TypeOK, CircInv, CircOK, CircType, EmptyCirc, Slots
<1>2. IInv /\ [Next]_vars => IInv'
  <2> SUFFICES ASSUME IInv, [Next]_vars PROVE IInv'
    OBVIOUS
  <2>1. CASE Reinit
    BY <2>1, SzAssumption
    DEF Reinit, IInv, TypeOK, CircInv, CircOK, CircType, EmptyCirc
  <2>2. ASSUME NEW r \in Record, Push(r) PROVE IInv'
    <3>1. CircOK(circ', Sz)
      BY <2>2, IncKeeps DEF Push, IInv, CircInv
    <3>2. slot' \in [Slots -> Record \cup {Blank}]
      BY <2>2 DEF Push, IInv, TypeOK
    <3> QED
      BY <3>1, <3>2 DEF IInv, TypeOK, CircInv, CircOK
  <2>3. CASE UNCHANGED vars
    BY <2>3 DEF vars, IInv, TypeOK, CircInv
  <2> QED
    BY <2>1, <2>2, <2>3 DEF Next
<1> QED
  BY <1>1, <1>2, PTL DEF Spec

(* The counters and the slots keep their types through every push and      *)
(* re-initialisation.                                                      *)
THEOREM RingTypeOK == Spec => []TypeOK
  BY InvInductive, PTL DEF IInv

---------------------------------------------------------------------------
(* A ring of slots and counters is the window of the last Sz records:      *)
(* board_peek(i) reads the i-th most recent board_push, for any capacity.  *)
THEOREM RingImplementsWindow == Spec => ImplementsWindow
<1>1. Init => W!Init
  BY DEF Init, W!Init, Peeked, EmptyCirc
<1>2. IInv /\ [Next]_vars => [W!Next]_Peeked
  <2> SUFFICES ASSUME IInv, [Next]_vars PROVE [W!Next]_Peeked
    OBVIOUS
  <2>1. CASE Reinit
    BY <2>1 DEF Reinit, EmptyCirc, Peeked, W!Next, W!Clear
  <2>2. ASSUME NEW r \in Record, Push(r) PROVE W!Push(r)
    <3>1. circ' = Inc(circ, Sz) /\ CircOK(circ, Sz) /\ CircOK(circ', Sz)
      BY <2>2, IncKeeps DEF Push, IInv, CircInv
    <3>2. Len(Peeked) = circ.nel /\ circ.nel \in 0..Sz
      BY SzAssumption DEF Peeked, IInv, TypeOK, CircType
    <3>3. circ'.nel = IF Len(Peeked) < Sz THEN Len(Peeked) + 1 ELSE Sz
      BY <3>1, <3>2, IncKeeps
    <3>4. ASSUME NEW i \in 1..circ'.nel
          PROVE  slot'[Index(circ', i - 1)]
                   = IF i = 1 THEN r ELSE Peeked[i - 1]
      <4>1. i - 1 \in 0..(circ'.nel - 1) /\ 0 \in 0..(circ'.nel - 1)
        BY <3>1, SzAssumption DEF CircOK, CircType
      <4>2. Index(circ', 0) \in Slots
        BY <3>1, <4>1, IndexInside DEF Slots
      <4>3. CASE i = 1
        BY <2>2, <4>2, <4>3 DEF Push, IInv, TypeOK
      <4>4. CASE i # 1
        <5>1. Index(circ', i - 1) # Index(circ', 0)
          BY <3>1, <4>1, <4>4, IndexInjective
        <5>2. Index(circ', i - 1) \in Slots
          BY <3>1, <4>1, IndexInside DEF Slots
        <5>3. slot'[Index(circ', i - 1)] = slot[Index(circ', i - 1)]
          BY <2>2, <5>1, <5>2, <4>2 DEF Push, IInv, TypeOK
        <5>4. /\ (i - 1) - 1 \in 0..(circ.nel - 1)
              /\ Index(circ', i - 1) = Index(circ, (i - 1) - 1)
          BY <3>1, <4>1, <4>4, IncShifts
        <5>5. i - 1 \in 1..circ.nel
          BY <5>4, <3>2
        <5> QED
          BY <5>3, <5>4, <5>5, <4>4 DEF Peeked
      <4> QED
        BY <4>3, <4>4
    <3> QED
      BY <3>3, <3>4 DEF W!Push, W!Pushed, Peeked
  <2>3. CASE UNCHANGED vars
    BY <2>3 DEF vars, Peeked
  <2> QED
    BY <2>1, <2>2, <2>3 DEF Next, W!Next
<1> QED
  BY <1>1, <1>2, InvInductive, PTL DEF Spec, ImplementsWindow, W!Spec
---------------------------------------------------------------------------
(* Readers *)

Counters == {"nel", "idx"}
Pcs == {"away", "start", "none", "peeked", "copied", "nothing", "perform", "head", "tail",
        "shown", "index", "print"}

ReadersTypes ==
  /\ IInv
  /\ mem \in CircType(Sz)
  /\ cell \in [Slots -> [Halves -> Record \cup {Blank}]]
  /\ lock \in {"none", "daemon", "reader"}
  /\ push \in [rec : Record, todo : SUBSET (Counters \cup Halves)] \cup {NoPush}
  /\ reader \in [kind : {"none", "wunder", "view", "list"}, pc : Pcs, nel : Nat, i : Nat,
                 seen : 0..Sz, at : Int, got : [Halves -> Record \cup {Blank}]]
  /\ begun \in 0..Sz /\ again \in BOOLEAN

(* The counters once the push under way is through. *)
Target == IF push = NoPush THEN circ ELSE Inc(circ, Sz)

(* A push is made under the lock, the counters before the slot. *)
PushOrder ==
  push # NoPush =>
    /\ lock = "daemon"
    /\ push.todo \cap Counters # {} => Halves \subseteq push.todo
    /\ "idx" \in push.todo => circ.nel > 0

(* Each counter is that of the ring, or the next one when it was stored.    *)
MemFollows ==
  /\ mem.nel = IF "nel" \in push.todo THEN circ.nel ELSE Target.nel
  /\ mem.idx = IF "idx" \in push.todo THEN circ.idx ELSE Target.idx

(* The records of the ring are whole in the segment, but for the one that   *)
(* the push under way replaces: there the halves stored are the new ones.   *)
CellsFollow ==
  /\ \A i \in 0..(circ.nel - 1) :
       \/ cell[Index(circ, i)] = Whole(slot[Index(circ, i)])
       \/ push # NoPush /\ Index(circ, i) = Target.idx
  /\ push # NoPush => \A h \in Halves \ push.todo : cell[Target.idx][h] = push.rec

(* Between lock and unlock the Weather Underground service has the ring to  *)
(* itself.                                                                  *)
WunderLocked ==
  reader.kind = "wunder" /\ reader.pc \in {"none", "peeked", "copied"} =>
    /\ lock = "reader"
    /\ reader.pc = "none" => circ.nel = 0
    /\ reader.pc # "none" => circ.nel > 0 /\ reader.at = circ.idx
    /\ reader.pc = "copied" => reader.got = cell[reader.at]

(* The slot wsview has found is as many pushes behind the newest one as     *)
(* were begun since, and none of them has touched it.                       *)
ViewBehind ==
  /\ reader.kind = "view" /\ reader.pc \in {"peeked", "head", "tail", "shown"}
  /\ ~again /\ begun < Sz
  => /\ reader.at \in Slots /\ circ.nel > 0
     /\ Target.idx = IF reader.at + begun < Sz THEN reader.at + begun
                     ELSE reader.at + begun - Sz
     /\ push # NoPush => begun > 0
     /\ cell[reader.at]["head"] = cell[reader.at]["tail"]
     /\ reader.pc \in {"tail", "shown"} => reader.got["head"] = cell[reader.at]["head"]
     /\ reader.pc = "shown" => reader.got["tail"] = cell[reader.at]["tail"]

(* wslogc looks at a place it has seen filled; the ring only gets fuller.   *)
ListInside ==
  /\ reader.pc = "index" /\ ~again => reader.i < reader.seen /\ reader.seen <= mem.nel
  /\ InRing

(* Only wsview goes through its fields, and those of a slot of the ring. *)
KindOfPc ==
  /\ reader.pc \in {"peeked", "head", "tail", "shown"} => reader.at \in Slots
  /\ reader.pc \in {"head", "tail", "shown"} => reader.kind = "view"
  /\ reader.pc \in {"index", "print"} => reader.kind = "list"
  /\ reader.pc \in {"none", "peeked"} => reader.kind \in {"wunder", "view"}
  /\ reader.pc \in {"copied", "perform"} => reader.kind = "wunder"

ReadersInv ==
  /\ ReadersTypes /\ PushOrder /\ MemFollows /\ CellsFollow
  /\ WunderLocked /\ ViewBehind /\ ListInside /\ KindOfPc

LEMMA ReadersTypeInit == ReadersInit => ReadersInv
PROOF
<1> SUFFICES ASSUME ReadersInit
             PROVE  ReadersInv
  OBVIOUS
<1> USE SzAssumption DEF ReadersInit, Init
<1>1. IInv
  BY DEF IInv, TypeOK, CircInv, CircOK, CircType, EmptyCirc, Slots
<1>2. mem \in CircType(Sz) /\ begun \in 0..Sz /\ reader.seen \in 0..Sz
  BY DEF CircType, EmptyCirc, Away
<1>3. Whole(Blank) \in [Halves -> Record \cup {Blank}]
  BY DEF Whole
<1>4. reader \in [kind : {"none", "wunder", "view", "list"}, pc : Pcs, nel : Nat, i : Nat,
                 seen : 0..Sz, at : Int, got : [Halves -> Record \cup {Blank}]]
  BY <1>2, <1>3 DEF Away, Pcs
<1>5. cell \in [Slots -> [Halves -> Record \cup {Blank}]]
  BY <1>3
<1>6. ReadersTypes
  BY <1>1, <1>2, <1>4, <1>5 DEF ReadersTypes
<1> QED
  BY <1>6 DEF ReadersInv, PushOrder, MemFollows, CellsFollow, WunderLocked, ViewBehind,
    ListInside, InRing, KindOfPc, Target, NoPush, Away, EmptyCirc

(* What the parts of the invariant say together. *)
LEMMA PushUnderWay ==
  ASSUME ReadersInv
  PROVE  /\ circ \in CircType(Sz) /\ CircOK(circ, Sz) /\ CircOK(Target, Sz)
         /\ push = NoPush => Target = circ /\ mem = circ
         /\ push # NoPush => /\ Target = Inc(circ, Sz) /\ Target.nel > 0
                             /\ push.rec \in Record /\ push.rec # Blank
         /\ push.todo \cap Counters = {} => mem = Target
         /\ Index(circ, 0) = circ.idx /\ Index(Target, 0) = Target.idx
         /\ circ.idx \in Slots /\ Target.idx \in Slots
PROOF
<1> USE SzAssumption DEF ReadersInv, ReadersTypes
<1>1. circ \in CircType(Sz) /\ CircOK(circ, Sz)
  BY DEF IInv, TypeOK, CircInv
<1>2. CircOK(Target, Sz)
  BY <1>1, IncKeeps DEF Target
<1>3. /\ circ \in [nel : 0..Sz, idx : 0..(Sz - 1)] /\ Target \in [nel : 0..Sz, idx : 0..(Sz - 1)]
      /\ mem \in [nel : 0..Sz, idx : 0..(Sz - 1)]
  BY <1>1, <1>2 DEF CircOK, CircType
<1>4. Index(circ, 0) = circ.idx /\ Index(Target, 0) = Target.idx
  BY <1>3 DEF Index
<1>5. circ.idx \in Slots /\ Target.idx \in Slots
  BY <1>3 DEF Slots
<1>6. push.todo \cap Counters = {} => mem = Target
  BY <1>3 DEF MemFollows, Counters
<1>7. push = NoPush => Target = circ /\ mem = circ
  BY <1>6 DEF Target, NoPush
<1>8. push # NoPush => push.rec \in Record /\ push.rec # Blank
  BY BlankAssumption
<1>9. push # NoPush => Target = Inc(circ, Sz) /\ Target.nel > 0
  BY <1>1, <1>3, IncKeeps DEF Target
<1> QED
  BY <1>1, <1>2, <1>4, <1>5, <1>6, <1>7, <1>8, <1>9

(* Steps that leave the ring and the segment as they are. *)
LEMMA SegmentKept ==
  ASSUME ReadersInv, UNCHANGED <<circ, slot, mem, cell, push>>
  PROVE  /\ IInv' /\ Target' = Target /\ MemFollows' /\ CellsFollow'
         /\ mem' \in CircType(Sz) /\ cell' \in [Slots -> [Halves -> Record \cup {Blank}]]
         /\ push' \in [rec : Record, todo : SUBSET (Counters \cup Halves)] \cup {NoPush}
BY DEF ReadersInv, ReadersTypes, IInv, TypeOK, CircInv, Target, MemFollows, CellsFollow

LEMMA LockSteps ==
  ASSUME ReadersInv, LockToPush \/ UnlockPushed
  PROVE  ReadersInv'
PROOF
<1>1. /\ UNCHANGED <<circ, slot, mem, cell, push, reader, begun, again>>
      /\ lock # "reader" /\ lock' \in {"none", "daemon"}
      /\ push # NoPush => lock' = "daemon"
  BY DEF LockToPush, UnlockPushed
<1>2. Target' = Target
  BY <1>1, SegmentKept
<1>3. ReadersTypes' /\ MemFollows' /\ CellsFollow'
  BY <1>1, SegmentKept DEF ReadersInv, ReadersTypes
<1>4. PushOrder' /\ WunderLocked'
  BY <1>1 DEF ReadersInv, PushOrder, WunderLocked
<1>5. ViewBehind' /\ ListInside' /\ KindOfPc'
  BY <1>1, <1>2 DEF ReadersInv, ViewBehind, ListInside, InRing, KindOfPc
<1> QED
  BY <1>3, <1>4, <1>5 DEF ReadersInv

(* The next slot of the ring. *)
LEMMA NextIdx ==
  ASSUME NEW c, CircOK(c, Sz), c.nel > 0
  PROVE  Inc(c, Sz).idx = IF c.idx + 1 < Sz THEN c.idx + 1 ELSE 0
BY SzAssumption DEF CircOK, CircType, Inc, IncNel, IncIdx

LEMMA BeginPushStep ==
  ASSUME ReadersInv, NEW r \in Record, BeginPush(r)
  PROVE  ReadersInv'
PROOF
<1> USE SzAssumption
<1>1. /\ lock = "daemon" /\ push = NoPush
      /\ push' = [rec |-> r, todo |-> (IF mem.nel = 0 THEN {"nel"} ELSE {"nel", "idx"})
                                        \cup Halves]
      /\ begun' = IF reader # Away /\ begun < Sz THEN begun + 1 ELSE begun
      /\ UNCHANGED <<circ, slot, mem, cell, lock, reader, again>>
  BY DEF BeginPush
<1>2. /\ mem = circ /\ Target = circ /\ Target' = Inc(circ, Sz) /\ CircOK(circ, Sz)
      /\ push' # NoPush /\ circ \in CircType(Sz) /\ circ.nel \in 0..Sz
  <2>1. r # Blank
    BY BlankAssumption
  <2>2. push' # NoPush
    BY <1>1, <2>1 DEF NoPush
  <2> QED
    BY <1>1, <2>2, PushUnderWay DEF Target, CircType
<1>3. ReadersTypes'
  <2>1. begun' \in 0..Sz
    BY <1>1 DEF ReadersInv, ReadersTypes
  <2>2. push'.rec \in Record /\ push'.todo \subseteq Counters \cup Halves
        /\ push' \in [rec : Record, todo : SUBSET (Counters \cup Halves)]
    BY <1>1 DEF Counters
  <2> QED
    BY <1>1, <2>1, <2>2 DEF ReadersInv, ReadersTypes, IInv, TypeOK, CircInv
<1>4. PushOrder'
  BY <1>1, <1>2 DEF PushOrder, Halves
<1>5. MemFollows'
  <2>1. circ.nel = 0 => circ.idx = Inc(circ, Sz).idx
    BY <1>2 DEF CircOK, Inc, CircType
  <2> QED
    BY <1>1, <1>2, <2>1 DEF MemFollows, Halves
<1>6. CellsFollow'
  BY <1>1, <1>2 DEF ReadersInv, CellsFollow
<1>7. WunderLocked' /\ ListInside' /\ KindOfPc'
  BY <1>1 DEF ReadersInv, WunderLocked, ListInside, InRing, KindOfPc
<1>8. ViewBehind'
  <2> SUFFICES ASSUME reader.kind = "view", reader.pc \in {"peeked", "head", "tail", "shown"},
                      ~again, begun' < Sz
               PROVE  ViewBehind'
    BY <1>1 DEF ViewBehind
  <2>1. reader # Away /\ begun \in 0..Sz
    BY DEF Away, ReadersInv, ReadersTypes
  <2>2. begun' = begun + 1 /\ begun < Sz
    BY <1>1, <2>1
  <2>3. /\ circ.nel > 0 /\ reader.at \in 0..(Sz - 1) /\ circ.idx \in 0..(Sz - 1)
        /\ circ.idx = IF reader.at + begun < Sz THEN reader.at + begun
                      ELSE reader.at + begun - Sz
    BY <1>2, <2>2, PushUnderWay DEF ReadersInv, ViewBehind, Slots
  <2>4. Target'.idx = IF circ.idx + 1 < Sz THEN circ.idx + 1 ELSE 0
    BY <1>2, <2>3, NextIdx
  <2>5. Target'.idx = IF reader.at + (begun + 1) < Sz THEN reader.at + (begun + 1)
                      ELSE reader.at + (begun + 1) - Sz
    BY <2>1, <2>2, <2>3, <2>4
  <2>6. begun' > 0
    BY <2>1, <2>2
  <2> QED
    BY <1>1, <2>2, <2>3, <2>5, <2>6 DEF ReadersInv, ViewBehind, Slots
<1> QED
  BY <1>3, <1>4, <1>5, <1>6, <1>7, <1>8 DEF ReadersInv

LEMMA StoreCounterStep ==
  ASSUME ReadersInv, StoreCounter
  PROVE  ReadersInv'
PROOF
<1> USE SzAssumption
<1>1. PICK x \in Counters :
        /\ x \in push.todo /\ push' = [push EXCEPT !.todo = @ \ {x}]
        /\ mem' = IF x = "nel" THEN IncNel(mem, Sz) ELSE IncIdx(mem, Sz)
        /\ UNCHANGED <<circ, slot, cell, lock, reader, begun, again>>
  BY DEF StoreCounter, Stored, Counters
<1>2. push # NoPush /\ push \in [rec : Record, todo : SUBSET (Counters \cup Halves)]
  BY <1>1 DEF NoPush, ReadersInv, ReadersTypes
<1>3. /\ push'.rec = push.rec /\ push'.todo = push.todo \ {x} /\ push' # NoPush
      /\ push' \in [rec : Record, todo : SUBSET (Counters \cup Halves)]
  <2>1. /\ push'.rec = push.rec /\ push'.todo = push.todo \ {x}
        /\ push' \in [rec : Record, todo : SUBSET (Counters \cup Halves)]
    BY <1>1, <1>2
  <2> QED
    BY <1>2, <2>1, BlankAssumption DEF NoPush
<1>4. Target' = Target /\ Target = Inc(circ, Sz) /\ CircOK(circ, Sz) /\ CircOK(Target, Sz)
  BY <1>1, <1>2, <1>3, PushUnderWay DEF Target
<1>5. mem'.nel = (IF x = "nel" THEN Target.nel ELSE mem.nel) /\ mem'.nel >= mem.nel
      /\ mem'.idx = (IF x = "idx" THEN Target.idx ELSE mem.idx) /\ mem' \in CircType(Sz)
  <2>0. mem \in [nel : 0..Sz, idx : 0..(Sz - 1)] /\ circ \in [nel : 0..Sz, idx : 0..(Sz - 1)]
    BY PushUnderWay DEF ReadersInv, ReadersTypes, CircType
  <2>1. CASE x = "nel"
    <3>1. mem' = [mem EXCEPT !.nel = IF mem.nel < Sz THEN mem.nel + 1 ELSE mem.nel]
      BY <1>1, <2>1 DEF IncNel
    <3>2. mem.nel = circ.nel
      BY <1>1, <2>1 DEF ReadersInv, MemFollows
    <3>3. Target.nel = IF circ.nel < Sz THEN circ.nel + 1 ELSE Sz
      BY <1>4, IncKeeps
    <3> QED
      BY <2>0, <2>1, <3>1, <3>2, <3>3 DEF CircType
  <2>2. CASE x = "idx"
    <3>1. mem' = [mem EXCEPT !.idx = IF mem.idx + 1 < Sz THEN mem.idx + 1 ELSE 0]
      BY <1>1, <2>2 DEF IncIdx
    <3>2. mem.idx = circ.idx /\ circ.nel > 0
      BY <1>1, <1>2, <2>2 DEF ReadersInv, MemFollows, PushOrder
    <3>3. Target.idx = IF circ.idx + 1 < Sz THEN circ.idx + 1 ELSE 0
      BY <1>4, <3>2, NextIdx
    <3> QED
      BY <2>0, <2>2, <3>1, <3>2, <3>3 DEF CircType
  <2> QED
    BY <2>1, <2>2 DEF Counters
<1>6. ReadersTypes'
  BY <1>1, <1>3, <1>5 DEF ReadersInv, ReadersTypes, IInv, TypeOK, CircInv
<1>7. PushOrder'
  BY <1>1, <1>2, <1>3 DEF ReadersInv, PushOrder, Counters, Halves
<1>8. MemFollows'
  BY <1>1, <1>3, <1>4, <1>5 DEF ReadersInv, MemFollows, Counters
<1>9. CellsFollow'
  <2>1. Halves \ push'.todo = {}
    BY <1>1, <1>2, <1>3 DEF ReadersInv, PushOrder, Counters, Halves
  <2> QED
    BY <1>1, <1>2, <1>3, <1>4, <2>1 DEF ReadersInv, CellsFollow
<1>10. WunderLocked' /\ KindOfPc'
  BY <1>1 DEF ReadersInv, WunderLocked, KindOfPc
<1>11. ViewBehind'
  BY <1>1, <1>2, <1>3, <1>4 DEF ReadersInv, ViewBehind
<1>12. ListInside'
  <2>1. mem.nel \in Nat /\ mem'.nel \in Nat /\ reader.seen \in Nat
    BY <1>5 DEF ReadersInv, ReadersTypes, CircType
  <2> QED
    BY <1>1, <1>5, <2>1 DEF ReadersInv, ListInside, InRing
<1> QED
  BY <1>6, <1>7, <1>8, <1>9, <1>10, <1>11, <1>12 DEF ReadersInv

LEMMA StoreHalfStep ==
  ASSUME ReadersInv, NEW h \in Halves, StoreHalf(h)
  PROVE  ReadersInv'
PROOF
<1> USE SzAssumption
<1>1. /\ h \in push.todo /\ push.todo \subseteq Halves
      /\ cell' = [cell EXCEPT ![Index(mem, 0)][h] = push.rec]
      /\ push' = [push EXCEPT !.todo = @ \ {h}]
      /\ UNCHANGED <<circ, slot, mem, lock, reader, begun, again>>
  BY DEF StoreHalf, Stored
<1>2. push # NoPush /\ push \in [rec : Record, todo : SUBSET (Counters \cup Halves)]
  BY <1>1 DEF NoPush, ReadersInv, ReadersTypes
<1>3. /\ push'.rec = push.rec /\ push'.todo = push.todo \ {h} /\ push' # NoPush
      /\ push' \in [rec : Record, todo : SUBSET (Counters \cup Halves)]
  <2>1. /\ push'.rec = push.rec /\ push'.todo = push.todo \ {h}
        /\ push' \in [rec : Record, todo : SUBSET (Counters \cup Halves)]
    BY <1>1, <1>2
  <2> QED
    BY <1>2, <2>1, BlankAssumption DEF NoPush
<1>4. Target' = Target /\ mem = Target /\ Index(mem, 0) = Target.idx /\ Target.idx \in Slots
  <2>1. push.todo \cap Counters = {}
    BY <1>1 DEF Halves, Counters
  <2> QED
    BY <1>1, <1>2, <1>3, <2>1, PushUnderWay DEF Target
<1>5. /\ cell' \in [Slots -> [Halves -> Record \cup {Blank}]]
      /\ \A s \in Slots : s # Target.idx => cell'[s] = cell[s]
      /\ \A g \in Halves : cell'[Target.idx][g] = IF g = h THEN push.rec
                                                   ELSE cell[Target.idx][g]
  BY <1>1, <1>2, <1>4 DEF ReadersInv, ReadersTypes
<1>6. ReadersTypes'
  BY <1>1, <1>3, <1>5 DEF ReadersInv, ReadersTypes, IInv, TypeOK, CircInv
<1>7. PushOrder' /\ MemFollows'
  BY <1>1, <1>2, <1>3, <1>4 DEF ReadersInv, PushOrder, MemFollows, Counters, Halves
<1>8. CellsFollow'
  <2>1. \A i \in 0..(circ.nel - 1) : Index(circ, i) \in Slots
    BY PushUnderWay, IndexInside DEF Slots
  <2> QED
    BY <1>1, <1>2, <1>3, <1>4, <1>5, <2>1 DEF ReadersInv, CellsFollow
<1>9. WunderLocked' /\ KindOfPc' /\ ListInside'
  BY <1>1, <1>2 DEF ReadersInv, PushOrder, WunderLocked, KindOfPc, ListInside, InRing
<1>10. ViewBehind'
  <2>1. ASSUME reader.kind = "view", reader.pc \in {"peeked", "head", "tail", "shown"},
               ~again, begun < Sz
        PROVE  reader.at # Target.idx
    BY <1>2, <2>1 DEF ReadersInv, ReadersTypes, ViewBehind, Slots
  <2> QED
    BY <1>1, <1>2, <1>3, <1>4, <1>5, <2>1 DEF ReadersInv, ViewBehind
<1> QED
  BY <1>6, <1>7, <1>8, <1>9, <1>10 DEF ReadersInv

(* The push is through: what was next is now the ring. *)
LEMMA EndPushStep ==
  ASSUME ReadersInv, EndPush
  PROVE  ReadersInv'
PROOF
<1> USE SzAssumption
<1>1. /\ push.rec # Blank /\ push.todo = {} /\ push' = NoPush
      /\ circ' = Inc(circ, Sz) /\ slot' = [slot EXCEPT ![Index(circ', 0)] = push.rec]
      /\ UNCHANGED <<mem, cell, lock, reader, begun, again>>
  BY DEF EndPush, Push
<1>2. push # NoPush
  BY <1>1 DEF NoPush
<1>3. /\ circ' = Target /\ mem = Target /\ Target' = Target /\ CircOK(circ, Sz)
      /\ CircOK(circ', Sz) /\ Index(circ', 0) = circ'.idx /\ circ'.idx \in Slots
      /\ circ'.nel > 0 /\ push.rec \in Record
  BY <1>1, <1>2, PushUnderWay DEF Target
<1>4. IInv'
  BY <1>1, <1>3 DEF ReadersInv, ReadersTypes, IInv, TypeOK, CircInv, CircOK
<1>5. ReadersTypes'
  BY <1>1, <1>4 DEF ReadersInv, ReadersTypes
<1>6. PushOrder' /\ MemFollows' /\ KindOfPc' /\ ListInside'
  BY <1>1, <1>3 DEF ReadersInv, PushOrder, MemFollows, NoPush, KindOfPc, ListInside, InRing
<1>7. CellsFollow'
  <2>1. cell[circ'.idx] = Whole(push.rec)
    <3>1. \A h \in Halves : cell[circ'.idx][h] = push.rec
      BY <1>1, <1>2, <1>3 DEF ReadersInv, CellsFollow
    <3>2. cell[circ'.idx] \in [Halves -> Record \cup {Blank}]
      BY <1>3 DEF ReadersInv, ReadersTypes
    <3> QED
      BY <3>1, <3>2 DEF Whole
  <2>2. slot'[circ'.idx] = push.rec /\ \A s \in Slots : s # circ'.idx => slot'[s] = slot[s]
    BY <1>1, <1>3 DEF ReadersInv, ReadersTypes, IInv, TypeOK
  <2>3. ASSUME NEW i \in 0..(circ'.nel - 1)
        PROVE  cell[Index(circ', i)] = Whole(slot'[Index(circ', i)])
    <3>1. CASE i = 0
      BY <1>3, <2>1, <2>2, <3>1
    <3>2. CASE i # 0
      <4>1. i - 1 \in 0..(circ.nel - 1) /\ Index(circ', i) = Index(circ, i - 1)
        BY <1>1, <1>3, <2>3, <3>2, IncShifts
      <4>2. Index(circ', i) \in Slots
        BY <1>3, IndexInside DEF Slots
      <4>3. Index(circ', i) # circ'.idx
        <5>1. 0 \in 0..(circ'.nel - 1)
          BY <1>3 DEF CircOK, CircType
        <5> QED
          BY <1>3, <3>2, <5>1, IndexInjective
      <4> QED
        BY <1>2, <1>3, <2>2, <4>1, <4>2, <4>3 DEF ReadersInv, CellsFollow
    <3> QED
      BY <3>1, <3>2
  <2> QED
    BY <1>1, <1>3, <2>3 DEF CellsFollow
<1>8. WunderLocked'
  BY <1>1, <1>2 DEF ReadersInv, PushOrder, WunderLocked
<1>9. ViewBehind'
  BY <1>1, <1>3 DEF ReadersInv, ViewBehind
<1> QED
  BY <1>5, <1>6, <1>7, <1>8, <1>9 DEF ReadersInv

LEMMA RestartStep ==
  ASSUME ReadersInv, Restart
  PROVE  ReadersInv'
PROOF
<1> USE SzAssumption
<1>1. /\ circ' = EmptyCirc /\ mem' = EmptyCirc /\ lock' = "none" /\ push' = NoPush
      /\ reader' = (IF reader.kind = "wunder" THEN Away ELSE reader)
      /\ again' = (reader' # Away)
      /\ UNCHANGED <<slot, cell, begun>>
  BY DEF Restart, Reinit
<1>2. EmptyCirc \in CircType(Sz) /\ CircOK(EmptyCirc, Sz)
  BY DEF EmptyCirc, CircOK, CircType
<1>3. Away \in [kind : {"none", "wunder", "view", "list"}, pc : Pcs, nel : Nat, i : Nat,
                seen : 0..Sz, at : Int, got : [Halves -> Record \cup {Blank}]]
  <2>1. Whole(Blank) \in [Halves -> Record \cup {Blank}] /\ 0 \in 0..Sz
    BY DEF Whole
  <2> QED
    BY <2>1 DEF Away, Pcs
<1>4. ReadersTypes'
  BY <1>1, <1>2, <1>3 DEF ReadersInv, ReadersTypes, IInv, TypeOK, CircInv
<1>5. PushOrder' /\ MemFollows' /\ CellsFollow'
  BY <1>1 DEF PushOrder, MemFollows, CellsFollow, Target, NoPush, EmptyCirc
<1>6. reader' = Away \/ (again' /\ reader' = reader /\ reader.kind # "wunder")
  BY <1>1
<1>7. WunderLocked' /\ ViewBehind' /\ ListInside' /\ KindOfPc'
  BY <1>6 DEF ReadersInv, WunderLocked, ViewBehind, ListInside, InRing, KindOfPc, Away
<1> QED
  BY <1>4, <1>5, <1>7 DEF ReadersInv

(* The steps of a reader. *)
LEMMA ReaderSteps ==
  ASSUME ReadersInv, ReaderStep, ListAsks \subseteq Nat
  PROVE  ReadersInv'
PROOF
<1> USE SzAssumption
<1>1. UNCHANGED <<circ, slot, mem, cell, push>>
  BY DEF ReaderStep, Comes, Leaves, LockAndPeek, Copy, UnlockReader, Perform, Nothing, ReadHalf,
    Shown, ListPeek, ListIndex, ListPrint, memory
<1>2. Target' = Target /\ MemFollows' /\ CellsFollow'
  BY <1>1, SegmentKept
<1> DEFINE ReaderType ==
     [kind : {"none", "wunder", "view", "list"}, pc : Pcs, nel : Nat, i : Nat,
      seen : 0..Sz, at : Int, got : [Halves -> Record \cup {Blank}]]
<1>3. reader \in ReaderType /\ mem \in CircType(Sz) /\ mem.nel \in 0..Sz /\ mem.idx \in 0..(Sz - 1)
  BY DEF ReadersInv, ReadersTypes, CircType
<1>4. Away \in ReaderType
  <2>1. Whole(Blank) \in [Halves -> Record \cup {Blank}] /\ 0 \in 0..Sz
    BY DEF Whole
  <2> QED
    BY <2>1 DEF Away, Pcs
<1>5. ASSUME reader' \in ReaderType, begun' \in 0..Sz, again' \in BOOLEAN,
             lock' \in {"none", "daemon", "reader"}
      PROVE  ReadersTypes'
  BY <1>1, <1>5, SegmentKept DEF ReadersInv, ReadersTypes
<1>6. ASSUME lock' = lock \/ (lock = "none" /\ lock' = "reader")
             \/ (lock = "reader" /\ lock' = "none")
      PROVE  PushOrder'
  BY <1>1, <1>6 DEF ReadersInv, PushOrder
<1> HIDE DEF ReaderType
<1>7. ASSUME Comes("wunder", 0) \/ Comes("view", 0) \/ \E n \in ListAsks : Comes("list", n)
      PROVE  ReadersInv'
  <2>1. /\ reader' \in ReaderType /\ reader'.pc = "start"
        /\ UNCHANGED <<lock, begun, again>>
    <3>1. CASE Comes("wunder", 0)
      BY <1>4, <3>1 DEF Comes, Away, ReaderType, Pcs, memory
    <3>2. CASE Comes("view", 0)
      BY <1>4, <3>2 DEF Comes, Away, ReaderType, Pcs, memory
    <3>3. CASE \E n \in ListAsks : Comes("list", n)
      BY <1>4, <3>3 DEF Comes, Away, ReaderType, Pcs, memory
    <3> QED
      BY <1>7, <3>1, <3>2, <3>3
  <2>2. ReadersTypes'
    BY <1>5, <2>1 DEF ReadersInv, ReadersTypes
  <2> QED
    BY <1>2, <1>6, <2>1, <2>2
    DEF ReadersInv, WunderLocked, ViewBehind, ListInside, InRing, KindOfPc
<1>8. ASSUME Leaves
      PROVE  ReadersInv'
  <2>1. reader' = Away /\ begun' = 0 /\ again' = FALSE /\ lock' = lock
    BY <1>8 DEF Leaves, memory
  <2>2. ReadersTypes'
    <3>1. lock' \in {"none", "daemon", "reader"}
      BY <2>1 DEF ReadersInv, ReadersTypes
    <3>2. again' \in BOOLEAN
      BY <2>1
    <3>3. reader' \in ReaderType
      BY <1>4, <2>1
    <3>4. begun' \in 0..Sz
      BY <2>1, <1>3
    <3> QED
      BY <1>5, <3>1, <3>2, <3>3, <3>4
  <2> QED
    BY <1>2, <1>6, <2>1, <2>2
    DEF ReadersInv, WunderLocked, ViewBehind, ListInside, InRing, KindOfPc, Away
<1>9. CASE LockAndPeek
  <2>1. /\ lock = "none" /\ lock' = "reader" /\ begun' = 0 /\ again' = FALSE
        /\ reader' = [reader EXCEPT !.pc = IF mem.nel = 0 THEN "none" ELSE "peeked",
                                    !.at = Index(mem, 0)]
        /\ reader.kind \in {"wunder", "view"}
    BY <1>9 DEF LockAndPeek
  <2>2. push = NoPush /\ mem = circ /\ Target = circ /\ Index(mem, 0) = circ.idx
        /\ circ.idx \in Slots
    BY <2>1, PushUnderWay DEF ReadersInv, PushOrder
  <2>3. /\ reader' \in ReaderType /\ reader'.kind = reader.kind /\ reader'.at = circ.idx
        /\ reader'.pc = IF circ.nel = 0 THEN "none" ELSE "peeked"
    <3>1. PICK p \in {"none", "peeked"} : p = IF circ.nel = 0 THEN "none" ELSE "peeked"
      OBVIOUS
    <3>2. reader' = [reader EXCEPT !.pc = p, !.at = circ.idx]
      BY <2>1, <2>2, <3>1
    <3>3. circ.idx \in Int /\ p \in Pcs
      BY <1>3, <2>2 DEF Pcs
    <3> QED
      BY <1>3, <3>1, <3>2, <3>3 DEF ReaderType
  <2>4. ReadersTypes'
    <3>1. again' \in BOOLEAN /\ lock' \in {"none", "daemon", "reader"}
      BY <2>1
    <3>2. begun' \in 0..Sz
      BY <2>1, <1>3
    <3> QED
      BY <1>5, <2>3, <3>1, <3>2
  <2>5. WunderLocked' /\ ListInside' /\ KindOfPc'
    BY <1>1, <1>3, <2>1, <2>2, <2>3 DEF WunderLocked, ListInside, InRing, KindOfPc
  <2>6. ViewBehind'
    <3>1. CASE circ.nel = 0
      BY <2>3, <3>1 DEF ViewBehind
    <3>2. CASE circ.nel # 0
      <4>1. 0 \in 0..(circ.nel - 1) /\ circ.nel > 0
        BY <1>3, <2>2, <3>2
      <4>2. cell[circ.idx] = Whole(slot[circ.idx])
        BY <2>2, <4>1 DEF ReadersInv, CellsFollow
      <4>3. cell[circ.idx]["head"] = cell[circ.idx]["tail"]
        BY <4>2 DEF Whole, Halves
      <4>4. circ.idx = IF circ.idx + 0 < Sz THEN circ.idx + 0 ELSE circ.idx + 0 - Sz
        BY <1>3, <2>2
      <4> QED
        BY <1>1, <1>2, <2>1, <2>2, <2>3, <3>2, <4>1, <4>3, <4>4 DEF ViewBehind
    <3> QED
      BY <3>1, <3>2
  <2> QED
    BY <1>2, <1>6, <2>1, <2>4, <2>5, <2>6 DEF ReadersInv
<1>10. CASE Copy
  <2>1. /\ reader.kind = "wunder" /\ reader.pc = "peeked"
        /\ reader' = [reader EXCEPT !.pc = "copied", !.got = cell[reader.at]]
        /\ UNCHANGED <<lock, begun, again>>
    BY <1>10 DEF Copy, memory
  <2>2. reader.at \in Slots
    BY <2>1, PushUnderWay DEF ReadersInv, WunderLocked
  <2>3. /\ reader' \in ReaderType /\ reader'.kind = "wunder" /\ reader'.at = reader.at
        /\ reader'.pc = "copied" /\ reader'.got = cell[reader.at]
    BY <1>3, <2>1, <2>2 DEF ReaderType, Pcs, ReadersInv, ReadersTypes
  <2>4. ReadersTypes'
    BY <1>5, <2>1, <2>3 DEF ReadersInv, ReadersTypes
  <2> QED
    BY <1>1, <1>2, <1>6, <2>1, <2>3, <2>4
    DEF ReadersInv, WunderLocked, ViewBehind, ListInside, InRing, KindOfPc
<1>11. CASE UnlockReader
  <2>1. /\ \/ reader.pc = "none" /\ reader' = [reader EXCEPT !.pc = "nothing"]
           \/ reader.pc = "copied" /\ reader' = [reader EXCEPT !.pc = "perform"]
           \/ /\ reader.kind = "view" /\ reader.pc = "peeked"
              /\ reader' = [reader EXCEPT !.pc = "head"]
        /\ lock' = (IF lock = "reader" THEN "none" ELSE lock)
        /\ UNCHANGED <<begun, again>>
    BY <1>11 DEF UnlockReader, Goes
  <2>2. /\ reader' \in ReaderType /\ reader'.kind = reader.kind /\ reader'.at = reader.at
        /\ \/ reader.pc = "none" /\ reader'.pc = "nothing"
           \/ reader.pc = "copied" /\ reader'.pc = "perform"
           \/ reader.kind = "view" /\ reader.pc = "peeked" /\ reader'.pc = "head"
    BY <1>3, <2>1 DEF ReaderType, Pcs
  <2>3. ReadersTypes'
    BY <1>5, <2>1, <2>2 DEF ReadersInv, ReadersTypes
  <2>4. PushOrder'
    BY <1>6, <2>1
  <2>5. WunderLocked' /\ ListInside' /\ KindOfPc'
    BY <2>2 DEF ReadersInv, WunderLocked, ListInside, InRing, KindOfPc
  <2>6. ViewBehind'
    BY <1>1, <1>2, <2>1, <2>2 DEF ReadersInv, ViewBehind
  <2> QED
    BY <1>2, <2>3, <2>4, <2>5, <2>6 DEF ReadersInv
<1>12. ASSUME NEW h \in Halves, ReadHalf(h)
       PROVE  ReadersInv'
  <2>1. /\ reader.kind = "view" /\ reader.pc = h
        /\ reader' = [reader EXCEPT !.pc = IF h = "head" THEN "tail" ELSE "shown",
                                    !.got[h] = cell[reader.at][h]]
        /\ UNCHANGED <<lock, begun, again>>
    BY <1>12 DEF ReadHalf, memory
  <2>2. /\ reader'.kind = "view" /\ reader'.at = reader.at
        /\ reader'.pc = (IF h = "head" THEN "tail" ELSE "shown")
        /\ reader'.got = [reader.got EXCEPT ![h] = cell[reader.at][h]]
        /\ reader.got \in [Halves -> Record \cup {Blank}]
    BY <1>3, <2>1 DEF ReaderType
  <2>3. reader' \in ReaderType
    <3>1. reader.at \in Slots
      BY <2>1 DEF ReadersInv, KindOfPc, Halves
    <3>2. cell[reader.at][h] \in Record \cup {Blank}
      BY <3>1 DEF ReadersInv, ReadersTypes
    <3>3. reader'.got \in [Halves -> Record \cup {Blank}]
      BY <2>2, <3>2
    <3>4. PICK p \in Pcs : p = IF h = "head" THEN "tail" ELSE "shown"
      BY DEF Pcs
    <3>5. reader' = [reader EXCEPT !.pc = p, !.got = reader'.got]
      BY <1>3, <2>1, <3>4 DEF ReaderType
    <3> QED
      BY <1>3, <3>3, <3>5 DEF ReaderType
  <2>4. ReadersTypes'
    BY <1>5, <2>1, <2>3 DEF ReadersInv, ReadersTypes
  <2>5. WunderLocked' /\ ListInside' /\ KindOfPc'
    BY <2>1, <2>2 DEF ReadersInv, WunderLocked, ListInside, InRing, KindOfPc, Halves
  <2>6. ViewBehind'
    BY <1>1, <1>2, <2>1, <2>2 DEF ReadersInv, ViewBehind, Halves
  <2> QED
    BY <1>2, <1>6, <2>1, <2>4, <2>5, <2>6 DEF ReadersInv
<1>13. CASE ListPeek
  <2>1. /\ reader.kind = "list" /\ begun' = 0 /\ again' = FALSE /\ lock' = lock
        /\ reader' = [reader EXCEPT
                        !.seen = mem.nel,
                        !.pc = IF reader.i < mem.nel THEN "index" ELSE "nothing"]
    BY <1>13 DEF ListPeek, memory
  <2>2. /\ reader' \in ReaderType /\ reader'.kind = "list" /\ reader'.seen = mem.nel
        /\ reader'.i = reader.i
        /\ reader'.pc = IF reader.i < mem.nel THEN "index" ELSE "nothing"
    <3>1. PICK p \in Pcs : p = IF reader.i < mem.nel THEN "index" ELSE "nothing"
      BY DEF Pcs
    <3>2. reader' = [reader EXCEPT !.seen = mem.nel, !.pc = p]
      BY <2>1, <3>1
    <3> QED
      BY <1>3, <2>1, <3>1, <3>2 DEF ReaderType
  <2>3. ReadersTypes'
    <3>1. lock' \in {"none", "daemon", "reader"}
      BY <2>1 DEF ReadersInv, ReadersTypes
    <3>2. again' \in BOOLEAN
      BY <2>1
    <3>3. begun' \in 0..Sz
      BY <1>3, <2>1
    <3> QED
      BY <1>5, <2>2, <3>1, <3>2, <3>3
  <2> QED
    BY <1>1, <1>2, <1>3, <1>6, <2>1, <2>2, <2>3
    DEF ReadersInv, WunderLocked, ViewBehind, ListInside, InRing, KindOfPc
<1>14. CASE ListIndex
  <2>1. PICK n \in {reader.seen, mem.nel} :
          /\ reader.pc = "index"
          /\ reader' = [reader EXCEPT !.at = Index([nel |-> n, idx |-> mem.idx], reader.i),
                                      !.pc = "print"]
          /\ UNCHANGED <<lock, begun, again>>
    BY <1>14 DEF ListIndex, memory
  <2>2. Index([nel |-> n, idx |-> mem.idx], reader.i) =
          IF reader.i <= mem.idx THEN mem.idx - reader.i ELSE n - (reader.i - mem.idx)
    BY DEF Index
  <2>3. n \in 0..Sz /\ reader.i \in Nat /\ reader.seen \in 0..Sz
    BY <1>3 DEF ReaderType
  <2>4. /\ reader' \in ReaderType /\ reader'.kind = reader.kind /\ reader'.pc = "print"
        /\ reader'.at = Index([nel |-> n, idx |-> mem.idx], reader.i)
    <3>1. PICK x \in Int : x = Index([nel |-> n, idx |-> mem.idx], reader.i)
      BY <1>3, <2>2, <2>3
    <3>2. reader' = [reader EXCEPT !.at = x, !.pc = "print"] /\ "print" \in Pcs
      BY <2>1, <3>1 DEF Pcs
    <3> QED
      BY <1>3, <3>1, <3>2 DEF ReaderType
  <2>5. ReadersTypes'
    BY <1>5, <2>1, <2>4 DEF ReadersInv, ReadersTypes
  <2>6. ListInside'
    <3>1. ~again => reader.i < reader.seen /\ reader.seen <= mem.nel
      BY <2>1 DEF ReadersInv, ListInside
    <3>2. ~again => Index([nel |-> n, idx |-> mem.idx], reader.i) \in 0..(Sz - 1)
      BY <1>3, <2>2, <2>3, <3>1
    <3> QED
      BY <2>1, <2>4, <3>2 DEF ListInside, InRing, Slots
  <2>7. WunderLocked' /\ ViewBehind' /\ KindOfPc'
    BY <2>1, <2>4 DEF ReadersInv, WunderLocked, ViewBehind, KindOfPc
  <2> QED
    BY <1>2, <1>6, <2>1, <2>5, <2>6, <2>7 DEF ReadersInv
<1>15. CASE ListPrint
  <2>1. PICK p \in {"start", "nothing"} :
          /\ reader' = [reader EXCEPT !.i = @ + 1, !.seen = 0, !.at = 0, !.pc = p]
          /\ UNCHANGED <<lock, begun, again>>
    BY <1>15 DEF ListPrint, memory
  <2>2. reader' \in ReaderType /\ reader'.pc \in {"start", "nothing"}
    <3>1. PICK j \in Nat : j = reader.i + 1
      BY <1>3 DEF ReaderType
    <3>2. reader' = [reader EXCEPT !.i = j, !.seen = 0, !.at = 0, !.pc = p]
      BY <2>1, <3>1
    <3>3. p \in Pcs /\ 0 \in 0..Sz /\ 0 \in Int
      BY DEF Pcs
    <3> QED
      BY <1>3, <2>1, <3>1, <3>2, <3>3 DEF ReaderType
  <2>3. ReadersTypes'
    BY <1>5, <2>1, <2>2 DEF ReadersInv, ReadersTypes
  <2> QED
    BY <1>2, <1>6, <2>1, <2>2, <2>3
    DEF ReadersInv, WunderLocked, ViewBehind, ListInside, InRing, KindOfPc
<1> QED
  BY <1>7, <1>8, <1>9, <1>10, <1>11, <1>12, <1>13, <1>14, <1>15
  DEF ReaderStep, Perform, Nothing, Shown

LEMMA ReadersAlways == PublishSpec => []ReadersInv
PROOF
<1>1. PublishInit => ReadersInv
  BY ReadersTypeInit DEF PublishInit
<1>2. ReadersInv /\ [PublishNext]_vars_ => ReadersInv'
  <2> SUFFICES ASSUME ReadersInv, [PublishNext]_vars_
               PROVE  ReadersInv'
    OBVIOUS
  <2>1. CASE ReadersNext
    BY <2>1, ListAsksAssumption, LockSteps, BeginPushStep, StoreCounterStep, StoreHalfStep,
      EndPushStep, RestartStep, ReaderSteps DEF ReadersNext
  <2>2. CASE UNCHANGED readersVars
    <3>1. UNCHANGED <<circ, slot, mem, cell, push, lock, reader, begun, again>>
      BY <2>2 DEF readersVars
    <3>2. IInv' /\ Target' = Target /\ MemFollows' /\ CellsFollow' /\ ReadersTypes'
      BY <3>1, SegmentKept DEF ReadersInv, ReadersTypes
    <3> QED
      BY <3>1, <3>2 DEF ReadersInv, PushOrder, WunderLocked, ViewBehind, ListInside, InRing,
        KindOfPc
  <2> QED
    BY <2>1, <2>2 DEF PublishNext, vars_
<1> QED
  BY <1>1, <1>2, PTL DEF PublishSpec

(* Under the lock the Weather Underground service finds the newest record, whole, *)
(* or rightly none (board_peek in wunder_sig_timer), for every size of the ring.  *)
THEOREM ReadersCopyIsNewest == PublishSpec => []CopyIsNewest
PROOF
<1>1. ASSUME ReadersInv
      PROVE  CopyIsNewest
  <2> SUFFICES ASSUME reader.kind = "wunder", reader.pc \in {"none", "copied"}
               PROVE  /\ reader.pc = "none" => circ.nel = 0
                      /\ reader.pc = "copied" => circ.nel > 0 /\ reader.got = Whole(Peeked[1])
    BY DEF CopyIsNewest
  <2>1. /\ push = NoPush
        /\ reader.pc = "none" => circ.nel = 0
        /\ reader.pc = "copied" => circ.nel > 0 /\ reader.got = cell[circ.idx]
    BY <1>1 DEF ReadersInv, WunderLocked, PushOrder
  <2>2. ASSUME reader.pc = "copied"
        PROVE  cell[circ.idx] = Whole(Peeked[1])
    <3>1. circ.nel \in Nat /\ circ.nel > 0 /\ Index(circ, 0) = circ.idx
      BY <1>1, <2>1, <2>2, PushUnderWay, SzAssumption DEF CircType
    <3>2. 0 \in 0..(circ.nel - 1) /\ 1 \in 1..circ.nel
      BY <3>1
    <3>3. cell[circ.idx] = Whole(slot[circ.idx])
      BY <1>1, <2>1, <3>1, <3>2 DEF ReadersInv, CellsFollow
    <3>4. Peeked[1] = slot[Index(circ, 1 - 1)]
      BY <3>2 DEF Peeked
    <3>5. 1 - 1 = 0
      OBVIOUS
    <3> QED
      BY <3>1, <3>3, <3>4, <3>5
  <2> QED
    BY <2>1, <2>2
<1> QED
  BY <1>1, ReadersAlways, PTL

(* wsview_current, which reads on after its unlock, shows one record unless a     *)
(* whole turn of pushes or a new start of the daemon came in between: a larger    *)
(* ring gives it that much more time.                                             *)
THEOREM ReadersViewWhole == PublishSpec => []ViewWhole
PROOF
<1>1. ASSUME ReadersInv
      PROVE  ViewWhole
  <2> SUFFICES ASSUME reader.pc = "shown", ~(begun >= Sz), ~again
               PROVE  reader.got["head"] = reader.got["tail"]
    BY DEF ViewWhole
  <2>1. reader.kind = "view" /\ begun < Sz
    BY <1>1, SzAssumption DEF ReadersInv, ReadersTypes, KindOfPc
  <2> QED
    BY <1>1, <2>1 DEF ReadersInv, ViewBehind
<1> QED
  BY <1>1, ReadersAlways, PTL

(* wslogc stays within the ring without the lock, whichever stores of a push it   *)
(* sees, unless the daemon starts anew between its looks at the counters.         *)
THEOREM ReadersInRing == PublishSpec => []InRing
PROOF
<1>1. ReadersInv => InRing
  BY DEF ReadersInv, ListInside
<1> QED
  BY <1>1, ReadersAlways, PTL

(* The stores of the daemon and the steps of its readers amount to what Ring says *)
(* of those who lock: a push that happens as a whole when its last byte is in its *)
(* place, or a segment initialised anew, and nothing else.                        *)
THEOREM ReadersImplementRing == PublishSpec => Spec
PROOF
<1>1. PublishInit => Init
  BY DEF PublishInit, ReadersInit
<1>2. ReadersInv /\ [PublishNext]_vars_ => [Next]_vars
  <2> SUFFICES ASSUME ReadersInv, [PublishNext]_vars_
               PROVE  [Next]_vars
    OBVIOUS
  <2>1. ASSUME EndPush
        PROVE  Next
    <3>1. push # NoPush
      BY <2>1 DEF EndPush, NoPush
    <3>2. push.rec \in Record
      BY <3>1, PushUnderWay
    <3> QED
      BY <2>1, <3>2 DEF EndPush, Next
  <2>2. ASSUME Restart
        PROVE  Next
    BY <2>2 DEF Restart, Next
  <2>3. ASSUME ReadersNext, ~EndPush, ~Restart
        PROVE  UNCHANGED vars
    BY <2>3 DEF ReadersNext, LockToPush, UnlockPushed, BeginPush, StoreCounter, StoreHalf,
      ReaderStep, Comes, Leaves, LockAndPeek, Copy, UnlockReader, Perform, Nothing, ReadHalf,
      Shown, ListPeek, ListIndex, ListPrint, vars
  <2>4. CASE UNCHANGED readersVars
    BY <2>4 DEF readersVars, vars
  <2> QED
    BY <2>1, <2>2, <2>3, <2>4 DEF PublishNext, vars_
<1> QED
  BY <1>1, <1>2, ReadersAlways, PTL DEF PublishSpec, Spec

---------------------------------------------------------------------------
(* StatIC *)

(* The times of records. *)
RecordTimes == {n * Interval : n \in Nat}

ArStates == {"ar", "ar fields", "ar next"}

IcTypes ==
  /\ clock \in 1..MaxTime /\ filed \in RecordTimes
  /\ out \in [Kinds -> [time : Nat, val : Nat, todo : SUBSET (Parts \cup {"signal"})]]
  /\ box \in [Kinds -> [time : Nat, val : Nat]]
  /\ queue \in Seq(Kinds)
  /\ pc \in {"idle", "rt", "rt copy"} \cup ArStates
  /\ chosen \in {0, 1} /\ datidx \in {0, 1}
  /\ freq \in Freqs /\ next \in Nat
  /\ dat \in [{0, 1} -> [rt : Nat, odd : BOOLEAN]]
  /\ file \in [time : Nat, rt : Nat, ar : Nat, odd : BOOLEAN]
  /\ latest \in [Intervals -> Nat]

(* A structure is stored time first; it is whole but between its two parts. *)
Torn(kind) == "val" \in out[kind].todo /\ "time" \notin out[kind].todo

(* Readings are stamped with a clock that goes on between two of them.      *)
Readings ==
  /\ box["RT"].time <= clock
  /\ out["RT"].todo # {} =>
       out["RT"].time \in 1..clock /\ out["RT"].val \in {0, out["RT"].time}
  /\ "time" \in out["RT"].todo =>
       "val" \in out["RT"].todo /\ box["RT"].time < out["RT"].time
  /\ Torn("RT") => box["RT"].time = out["RT"].time
  /\ ~Torn("RT") => box["RT"].val \in {0, box["RT"].time}

(* Records come in order, a whole number of intervals apart.                *)
Archives ==
  /\ filed <= clock
  /\ box["AR"].time \in RecordTimes /\ box["AR"].time <= filed
  /\ out["AR"].todo # {} => filed > 0 /\ out["AR"].time = filed /\ out["AR"].val = filed
  /\ "time" \in out["AR"].todo => "val" \in out["AR"].todo /\ box["AR"].time < filed
  /\ out["AR"].todo # {} /\ "time" \notin out["AR"].todo => box["AR"].time = filed
  /\ ~Torn("AR") => box["AR"].val = box["AR"].time

(* A signal of a record comes after the record. *)
SignalAfter ==
  (\E n \in 1..Len(queue) : queue[n] = "AR") \/ pc \in ArStates => box["AR"].time > 0

(* next is stat_ic.freq after a record that the box has held. *)
NextAfter == next # 0 => \E r \in RecordTimes : next = r + freq /\ r <= box["AR"].time

(* The handler of a reading, as long as its structure stays as it was.      *)
HandlesReading ==
  pc \in {"rt", "rt copy"} /\ ~mixed =>
    /\ box["RT"].val \in {0, box["RT"].time}
    /\ pc = "rt copy" => chosen = IF next = 0 \/ box["RT"].time < next THEN datidx ELSE Other

(* The handler of a record: what the file has of the buffer, and of the     *)
(* record.                                                                  *)
HandlesRecord ==
  /\ pc \in {"ar", "ar fields"} /\ ~mixed => box["AR"].val = box["AR"].time
  /\ pc \in {"ar fields", "ar next"} =>
       /\ file.time \in RecordTimes /\ file.time > 0 /\ file.time <= clock
       /\ file.rt = dat[datidx].rt
       /\ dat[datidx].odd => file.odd
       /\ ~mixed => file.time = box["AR"].time
       /\ ~mixed \/ (pc = "ar next" /\ ~file.odd) => next = 0 \/ next < file.time + freq
  /\ pc = "ar next" /\ ~file.odd => file.ar = file.time

(* The buffer in turn has the readings before next, the other one those of  *)
(* the interval that begins there.                                          *)
InTheirPlace ==
  freq <= Interval =>
    \A i \in {0, 1} :
      dat[i].odd \/ dat[i].rt = 0
        \/ (next # 0 /\ dat[i].rt < IF i = datidx THEN next ELSE next + freq)

(* The latest reading of an interval that is not over is in its buffer.     *)
LatestThere ==
  freq = Interval =>
    \A n \in Intervals : latest[n] # 0 =>
      /\ next # 0 /\ latest[n] < next + freq
      /\ latest[n] \div Interval = n /\ latest[n] <= box["RT"].time
      /\ latest[n] >= next => dat[Other].odd \/ dat[Other].rt = latest[n]
      /\ latest[n] < next /\ next <= latest[n] + Interval
           => dat[datidx].odd \/ dat[datidx].rt = latest[n]

IcInv ==
  /\ IcTypes /\ Readings /\ Archives /\ SignalAfter /\ NextAfter
  /\ HandlesReading /\ HandlesRecord /\ InTheirPlace /\ LatestThere

---------------------------------------------------------------------------
(* Division by the interval. *)
LEMMA Division ==
  ASSUME NEW u \in Nat
  PROVE  /\ u \div Interval \in Nat
         /\ (u \div Interval) * Interval <= u
         /\ u < (u \div Interval) * Interval + Interval
BY RatesAssumption

LEMMA Apart ==
  ASSUME NEW m \in Nat, NEW n \in Nat, m * Interval < n * Interval
  PROVE  m < n /\ m * Interval + Interval <= n * Interval
PROOF
<1>1. m < n
  BY RatesAssumption
<1>2. (m + 1) * Interval <= n * Interval
  BY <1>1, RatesAssumption
<1> QED
  BY <1>1, <1>2, RatesAssumption

LEMMA Quotient ==
  ASSUME NEW u \in Nat, NEW n \in Nat, n * Interval <= u, u < n * Interval + Interval
  PROVE  u \div Interval = n
PROOF
<1>1. PICK q \in Nat : q = u \div Interval
  BY Division
<1>2. q * Interval <= u /\ u < q * Interval + Interval
  BY <1>1, Division
<1>3. ~(q < n)
  BY <1>2, RatesAssumption
<1>4. ~(n < q)
  BY <1>2, RatesAssumption
<1> QED
  BY <1>1, <1>3, <1>4

LEMMA RecordTimesApart ==
  /\ 0 \in RecordTimes /\ RecordTimes \subseteq Nat
  /\ \A x \in RecordTimes : x + Interval \in RecordTimes
  /\ \A x, y \in RecordTimes : x < y => x + Interval <= y
PROOF
<1>1. 0 \in RecordTimes
  BY RatesAssumption DEF RecordTimes
<1>2. RecordTimes \subseteq Nat
  BY RatesAssumption DEF RecordTimes
<1>3. ASSUME NEW n \in Nat
      PROVE  n * Interval + Interval \in RecordTimes
  <2>1. n * Interval + Interval = (n + 1) * Interval
    BY RatesAssumption
  <2> QED
    BY <2>1 DEF RecordTimes
<1>4. \A x, y \in RecordTimes : x < y => x + Interval <= y
  BY Apart DEF RecordTimes
<1> QED
  BY <1>1, <1>2, <1>3, <1>4 DEF RecordTimes

(* Two readings before the same record, after the one before it. *)
LEMMA SameInterval ==
  ASSUME NEW b \in RecordTimes, NEW u \in Nat, NEW v \in Nat,
         b <= u, u < b + Interval, b <= v, v < b + Interval
  PROVE  u \div Interval = v \div Interval
BY Quotient DEF RecordTimes

LEMMA IntervalBefore ==
  ASSUME NEW b \in RecordTimes, b > 0, NEW u \in Nat, u \div Interval = (b \div Interval) - 1
  PROVE  u < b /\ b <= u + Interval
PROOF
<1>1. PICK n \in Nat : b = n * Interval
  BY DEF RecordTimes
<1>2. b \div Interval = n
  BY <1>1, RatesAssumption, Quotient
<1>3. PICK q \in Nat : q = u \div Interval /\ q + 1 = n
  BY <1>2, Division
<1>4. q * Interval <= u /\ u < q * Interval + Interval
  BY <1>3, Division
<1>5. b = q * Interval + Interval
  BY <1>1, <1>3, RatesAssumption
<1> QED
  BY <1>4, <1>5, RatesAssumption

LEMMA InIntervals ==
  ASSUME NEW u \in 0..MaxTime
  PROVE  u \div Interval \in Intervals
PROOF
<1>1. PICK q \in Nat, n \in Nat : q = u \div Interval /\ n = MaxTime \div Interval
  BY Division, BoundsAssumption
<1>2. q * Interval <= u /\ MaxTime < n * Interval + Interval
  BY <1>1, Division, BoundsAssumption
<1>3. ~(n < q)
  BY <1>2, RatesAssumption, BoundsAssumption
<1> QED
  BY <1>1, <1>3 DEF Intervals

---------------------------------------------------------------------------
(* What the types say of numbers. *)
LEMMA IcNumbers ==
  ASSUME IcInv
  PROVE  /\ clock \in 1..MaxTime /\ clock \in Nat /\ clock > 0 /\ clock <= MaxTime
         /\ filed \in RecordTimes /\ filed \in Nat
         /\ \A kind \in Kinds : box[kind].time \in Nat /\ box[kind].val \in Nat
                                 /\ out[kind].time \in Nat /\ out[kind].val \in Nat
         /\ box["RT"].time \in Nat /\ box["AR"].time \in Nat
         /\ freq \in Nat /\ freq > 0 /\ next \in Nat
         /\ \A i \in {0, 1} : dat[i].rt \in Nat
         /\ file.time \in Nat /\ \A n \in Intervals : latest[n] \in Nat
PROOF
<1>1. clock \in 1..MaxTime /\ filed \in RecordTimes /\ freq \in Freqs /\ next \in Nat
  BY DEF IcInv, IcTypes
<1>2. clock \in Nat /\ clock > 0 /\ clock <= MaxTime
  BY <1>1, BoundsAssumption
<1>3. filed \in Nat
  BY <1>1, RecordTimesApart
<1>4. freq \in Nat /\ freq > 0
  BY <1>1, RatesAssumption
<1>5. /\ \A kind \in Kinds : box[kind].time \in Nat /\ box[kind].val \in Nat
      /\ \A kind \in Kinds : out[kind].time \in Nat /\ out[kind].val \in Nat
      /\ \A i \in {0, 1} : dat[i].rt \in Nat
      /\ file.time \in Nat
  BY DEF IcInv, IcTypes
<1>6. box["RT"].time \in Nat /\ box["AR"].time \in Nat
  BY <1>5 DEF Kinds
<1>7. \A n \in Intervals : latest[n] \in Nat
  BY DEF IcInv, IcTypes
<1> QED
  BY <1>1, <1>2, <1>3, <1>4, <1>5, <1>6, <1>7

LEMMA IcInvInit == IcInit => IcInv
PROOF
<1> SUFFICES ASSUME IcInit
             PROVE  IcInv
  OBVIOUS
<1> USE DEF IcInit
<1>1. out["RT"] = NoOut /\ out["AR"] = NoOut /\ box["RT"] = NoBox /\ box["AR"] = NoBox
  BY DEF Kinds
<1>2. Readings /\ Archives
  <2>1. clock = 1 /\ filed = 0 /\ 0 \in RecordTimes
    BY RecordTimesApart
  <2>2. /\ out["RT"].todo = {} /\ out["AR"].todo = {} /\ box["RT"].time = 0
        /\ box["RT"].val = 0 /\ box["AR"].time = 0 /\ box["AR"].val = 0
    <3>1. NoOut.todo = {} /\ NoBox.time = 0 /\ NoBox.val = 0
      BY DEF NoOut, NoBox
    <3> HIDE DEF IcInit
    <3> QED
      BY <1>1, <3>1
  <2> QED
    BY <2>1, <2>2 DEF Readings, Archives, Torn
<1>3. /\ SignalAfter /\ NextAfter /\ HandlesReading /\ HandlesRecord
      /\ LatestThere
  BY DEF SignalAfter, NextAfter, HandlesReading, HandlesRecord, LatestThere, ArStates
<1>4. InTheirPlace
  BY DEF InTheirPlace, Reset
<1>5. /\ clock \in 1..MaxTime /\ filed \in RecordTimes /\ queue \in Seq(Kinds)
      /\ pc \in {"idle", "rt", "rt copy"} \cup ArStates
      /\ chosen \in {0, 1} /\ datidx \in {0, 1} /\ freq \in Freqs /\ next \in Nat
      /\ latest \in [Intervals -> Nat]
  BY BoundsAssumption, RecordTimesApart
<1>6. /\ out \in [Kinds -> [time : Nat, val : Nat, todo : SUBSET (Parts \cup {"signal"})]]
      /\ box \in [Kinds -> [time : Nat, val : Nat]]
  BY DEF NoOut, NoBox
<1>7. dat \in [{0, 1} -> [rt : Nat, odd : BOOLEAN]]
  BY DEF Reset
<1>8. file \in [time : Nat, rt : Nat, ar : Nat, odd : BOOLEAN]
  BY DEF NoFile
<1>9. IcTypes
  BY <1>5, <1>6, <1>7, <1>8 DEF IcTypes
<1> QED
  BY <1>2, <1>3, <1>4, <1>9 DEF IcInv

(* Steps that leave the structures of the service and its handler alone. *)
LEMMA BoxKept ==
  ASSUME IcInv, UNCHANGED <<box, mixed, handler>>, clock' \in 1..MaxTime, clock <= clock'
  PROVE  /\ NextAfter' /\ HandlesReading' /\ HandlesRecord' /\ InTheirPlace' /\ LatestThere'
         /\ pc' \in {"idle", "rt", "rt copy"} \cup ArStates
         /\ chosen' \in {0, 1} /\ datidx' \in {0, 1} /\ freq' \in Freqs /\ next' \in Nat
         /\ dat' \in [{0, 1} -> [rt : Nat, odd : BOOLEAN]]
         /\ file' \in [time : Nat, rt : Nat, ar : Nat, odd : BOOLEAN]
         /\ latest' \in [Intervals -> Nat]
         /\ box' \in [Kinds -> [time : Nat, val : Nat]]
PROOF
<1> USE DEF IcInv, handler
<1>1. NextAfter' /\ HandlesReading' /\ InTheirPlace' /\ LatestThere'
  BY DEF NextAfter, HandlesReading, InTheirPlace, LatestThere, Other
<1>2. HandlesRecord'
  <2>1. clock \in Nat /\ file.time \in Nat
    BY IcNumbers
  <2>2. file.time <= clock => file.time <= clock'
    BY <2>1, BoundsAssumption
  <2> QED
    BY <2>2 DEF HandlesRecord
<1> QED
  BY <1>1, <1>2 DEF IcTypes

LEMMA TickStep ==
  ASSUME IcInv, Tick
  PROVE  IcInv'
PROOF
<1>1. /\ clock' = clock + 1 /\ clock \in 1..MaxTime /\ clock' \in 1..MaxTime /\ clock <= clock'
      /\ UNCHANGED <<filed, out, box, queue, mixed, handler>>
  BY BoundsAssumption, IcNumbers DEF Tick
<1>0. /\ clock \in Nat /\ filed \in Nat /\ box["RT"].time \in Nat
      /\ out["RT"].time \in Nat
  BY IcNumbers DEF Kinds
<1>2. Readings'
  BY <1>0, <1>1 DEF IcInv, Readings, Torn
<1>3. Archives' /\ SignalAfter'
  BY <1>0, <1>1 DEF IcInv, Archives, Torn, SignalAfter, handler
<1>4. IcTypes'
  BY <1>1, BoxKept DEF IcInv, IcTypes
<1> QED
  BY <1>1, <1>2, <1>3, <1>4, BoxKept DEF IcInv

LEMMA ReadSensorsStep ==
  ASSUME IcInv, ReadSensors
  PROVE  IcInv'
PROOF
<1>1. PICK v \in {0, clock} :
        /\ out' = [out EXCEPT !["RT"] =
                     [time |-> clock, val |-> v, todo |-> Parts \cup {"signal"}]]
        /\ out["RT"].todo = {} /\ box["RT"].time < clock
        /\ UNCHANGED <<clock, filed, box, queue, mixed, handler>>
  BY DEF ReadSensors, HandOut
<1>2. clock \in 1..MaxTime /\ clock' \in 1..MaxTime /\ clock <= clock'
  BY <1>1, IcNumbers
<1>3. /\ out' \in [Kinds -> [time : Nat, val : Nat, todo : SUBSET (Parts \cup {"signal"})]]
      /\ out'["AR"] = out["AR"]
      /\ out'["RT"] = [time |-> clock, val |-> v, todo |-> Parts \cup {"signal"}]
  <2>1. [time |-> clock, val |-> v, todo |-> Parts \cup {"signal"}]
          \in [time : Nat, val : Nat, todo : SUBSET (Parts \cup {"signal"})]
    BY IcNumbers
  <2> QED
    BY <1>1, <2>1 DEF IcInv, IcTypes, Kinds
<1>4. Readings'
  BY <1>1, <1>2, <1>3 DEF IcInv, Readings, Torn, Parts
<1>5. Archives' /\ SignalAfter'
  BY <1>1, <1>3 DEF IcInv, Archives, Torn, SignalAfter, handler
<1>6. IcTypes'
  BY <1>1, <1>2, <1>3, BoxKept DEF IcInv, IcTypes
<1> QED
  BY <1>1, <1>2, <1>4, <1>5, <1>6, BoxKept DEF IcInv

LEMMA FetchRecordStep ==
  ASSUME IcInv, FetchRecord
  PROVE  IcInv'
PROOF
<1>1. /\ out["AR"].todo = {} /\ filed + Interval <= clock /\ filed' = filed + Interval
      /\ out' = [out EXCEPT !["AR"] =
                   [time |-> filed', val |-> filed', todo |-> Parts \cup {"signal"}]]
      /\ UNCHANGED <<clock, box, queue, mixed, handler>>
  BY DEF FetchRecord, HandOut
<1>2. /\ clock \in 1..MaxTime /\ clock' \in 1..MaxTime /\ clock <= clock'
      /\ filed \in Nat /\ filed' \in Nat /\ filed' > filed /\ filed' \in RecordTimes
  BY <1>1, IcNumbers, RatesAssumption, RecordTimesApart
<1>3. /\ out' \in [Kinds -> [time : Nat, val : Nat, todo : SUBSET (Parts \cup {"signal"})]]
      /\ out'["RT"] = out["RT"]
      /\ out'["AR"] = [time |-> filed', val |-> filed', todo |-> Parts \cup {"signal"}]
  BY <1>1, <1>2 DEF IcInv, IcTypes, Kinds
<1>4. Readings' /\ SignalAfter'
  BY <1>1, <1>3 DEF IcInv, Readings, Torn, SignalAfter, handler
<1>5. Archives'
  <2>1. box["AR"].time \in Nat /\ box["AR"].time <= filed /\ filed' <= clock
    BY <1>1, RecordTimesApart DEF IcInv, Archives
  <2>2. box["AR"].time < filed' /\ filed' > 0
    BY <1>2, <2>1
  <2> QED
    BY <1>1, <1>3, <2>1, <2>2 DEF IcInv, Archives, Torn, Parts
<1>6. IcTypes'
  BY <1>1, <1>2, <1>3, BoxKept DEF IcInv, IcTypes
<1> QED
  BY <1>1, <1>2, <1>4, <1>5, <1>6, BoxKept DEF IcInv

LEMMA SignalStep ==
  ASSUME IcInv, NEW kind \in Kinds, Signal(kind)
  PROVE  IcInv'
PROOF
<1>1. /\ out[kind].todo = {"signal"} /\ out' = [out EXCEPT ![kind] = NoOut]
      /\ queue' = queue \/ queue' = Append(queue, kind)
      /\ UNCHANGED <<clock, filed, box, mixed, handler>>
  BY DEF Signal
<1>2. clock \in 1..MaxTime /\ clock' \in 1..MaxTime /\ clock <= clock'
  BY <1>1, IcNumbers
<1>3. /\ out' \in [Kinds -> [time : Nat, val : Nat, todo : SUBSET (Parts \cup {"signal"})]]
      /\ \A g \in Kinds : out'[g] = IF g = kind THEN NoOut ELSE out[g]
  BY <1>1 DEF IcInv, IcTypes, Kinds, NoOut
<1>4. Readings' /\ Archives'
  BY <1>1, <1>3 DEF IcInv, Readings, Archives, Torn, NoOut, Kinds
<1>5. SignalAfter'
  <2>1. kind = "AR" => box["AR"].time > 0
    BY <1>1 DEF IcInv, Archives
  <2>2. ASSUME NEW n \in 1..Len(queue'), queue'[n] = "AR"
        PROVE  box["AR"].time > 0
    <3>1. queue \in Seq(Kinds)
      BY DEF IcInv, IcTypes
    <3>2. (n \in 1..Len(queue) /\ queue[n] = "AR") \/ kind = "AR"
      BY <1>1, <2>2, <3>1
    <3> QED
      BY <2>1, <3>2 DEF IcInv, SignalAfter
  <2> QED
    BY <1>1, <2>2 DEF IcInv, SignalAfter, handler
<1>6. IcTypes'
  <2>0. queue \in Seq(Kinds)
    BY DEF IcInv, IcTypes
  <2>1. queue' \in Seq(Kinds)
    BY <1>1, <2>0
  <2> QED
    BY <1>1, <1>2, <1>3, <2>1, BoxKept DEF IcInv, IcTypes
<1> QED
  BY <1>1, <1>2, <1>4, <1>5, <1>6, BoxKept DEF IcInv

(* A structure changes: the handler that reads it takes note. *)
LEMMA StorePartStep ==
  ASSUME IcInv, NEW kind \in Kinds, NEW part \in Parts, StorePart(kind, part)
  PROVE  IcInv'
PROOF
<1> DEFINE KeptElsewhere(f) == \A g \in Kinds : g # kind => f[g]' = f[g]
<1>1. /\ part \in out[kind].todo
      /\ part = "val" => "time" \notin out[kind].todo
      /\ box' = [box EXCEPT ![kind][part] = out[kind][part]]
      /\ out' = [out EXCEPT ![kind].todo = @ \ {part}]
      /\ mixed' = (mixed \/ Handles(kind))
      /\ UNCHANGED <<clock, filed, queue, handler>>
  BY DEF StorePart
<1>2. /\ out \in [Kinds -> [time : Nat, val : Nat, todo : SUBSET (Parts \cup {"signal"})]]
      /\ box \in [Kinds -> [time : Nat, val : Nat]]
  BY DEF IcInv, IcTypes
<1>3. /\ out' \in [Kinds -> [time : Nat, val : Nat, todo : SUBSET (Parts \cup {"signal"})]]
      /\ \A g \in Kinds : /\ out'[g].time = out[g].time /\ out'[g].val = out[g].val
                          /\ out'[g].todo = IF g = kind THEN out[g].todo \ {part}
                                            ELSE out[g].todo
  BY <1>1, <1>2
<1>4. /\ box' \in [Kinds -> [time : Nat, val : Nat]]
      /\ \A g \in Kinds :
           /\ box'[g].time = IF g = kind /\ part = "time" THEN out[g].time ELSE box[g].time
           /\ box'[g].val = IF g = kind /\ part = "val" THEN out[g].val ELSE box[g].val
  <2>1. CASE part = "time"
    <3>1. box' = [box EXCEPT ![kind] = [@ EXCEPT !.time = out[kind].time]]
      BY <1>1, <2>1
    <3> QED
      BY <1>2, <2>1, <3>1
  <2>2. CASE part = "val"
    <3>1. box' = [box EXCEPT ![kind] = [@ EXCEPT !.val = out[kind].val]]
      BY <1>1, <2>2
    <3> QED
      BY <1>2, <2>2, <3>1
  <2> QED
    BY <2>1, <2>2 DEF Parts
<1>5. "RT" \in Kinds /\ "AR" \in Kinds /\ (kind = "RT" \/ kind = "AR")
      /\ (part = "time" \/ part = "val")
  BY DEF Kinds, Parts
<1>6. Readings'
  BY <1>1, <1>3, <1>4, <1>5 DEF IcInv, Readings, Torn
<1>7. Archives' /\ box'["AR"].time >= box["AR"].time
  BY <1>1, <1>3, <1>4, <1>5, IcNumbers DEF IcInv, Archives, Torn
<1>8. box'["RT"].time >= box["RT"].time
  BY <1>1, <1>4, <1>5, IcNumbers DEF IcInv, Readings
<1>9. IcTypes'
  BY <1>1, <1>3, <1>4 DEF IcInv, IcTypes, handler
<1>10. SignalAfter' /\ NextAfter'
  <2>1. box["AR"].time > 0 => box'["AR"].time > 0
    BY <1>4, <1>5, <1>7, IcNumbers
  <2>2. \A r \in RecordTimes : r <= box["AR"].time => r <= box'["AR"].time
    BY <1>3, <1>4, <1>5, <1>7, IcNumbers, RecordTimesApart
  <2> QED
    BY <1>1, <2>1, <2>2 DEF IcInv, SignalAfter, NextAfter, handler
<1>11. HandlesReading'
  <2> SUFFICES ASSUME pc \in {"rt", "rt copy"}, ~mixed'
               PROVE  HandlesReading'
    BY <1>1 DEF HandlesReading, handler
  <2>1. kind = "AR" /\ ~mixed
    BY <1>1, <1>5 DEF Handles
  <2> QED
    BY <1>1, <1>4, <1>5, <2>1 DEF IcInv, HandlesReading, handler, Other
<1>12. HandlesRecord'
  <2>1. CASE pc \in ArStates /\ kind = "AR"
    <3>1. mixed'
      BY <1>1, <2>1 DEF Handles, ArStates
    <3> QED
      BY <1>1, <3>1 DEF IcInv, HandlesRecord, handler
  <2>2. CASE pc \in ArStates /\ kind = "RT"
    <3>1. mixed' = mixed \/ ~mixed' = ~mixed
      BY <1>1, <2>2 DEF Handles, ArStates
    <3>2. ~mixed' => ~mixed
      BY <1>1
    <3>3. box'["AR"] = box["AR"]
      BY <1>1, <1>2, <1>5, <2>2
    <3> QED
      BY <1>1, <3>2, <3>3 DEF IcInv, HandlesRecord, handler
  <2>3. CASE pc \notin ArStates
    BY <1>1, <2>3 DEF HandlesRecord, ArStates, handler
  <2> QED
    BY <1>5, <2>1, <2>2, <2>3
<1>13. InTheirPlace'
  BY <1>1 DEF IcInv, InTheirPlace, handler
<1>14. LatestThere'
  <2>1. \A n \in Intervals : latest[n] <= box["RT"].time => latest[n] <= box'["RT"].time
    BY <1>4, <1>5, <1>8, IcNumbers
  <2> QED
    BY <1>1, <2>1 DEF IcInv, LatestThere, handler, Other
<1> QED
  BY <1>6, <1>7, <1>9, <1>10, <1>11, <1>12, <1>13, <1>14 DEF IcInv

LEMMA TakeStep ==
  ASSUME IcInv, Take
  PROVE  IcInv'
PROOF
<1>1. /\ pc = "idle" /\ queue # <<>> /\ queue' = Tail(queue)
      /\ pc' = IF Head(queue) = "RT" THEN "rt" ELSE "ar"
      /\ mixed' = (Cardinality(out[Head(queue)].todo \cap Parts) = 1)
      /\ UNCHANGED <<clock, filed, out, box, chosen, freq, next, datidx, dat, file, latest>>
  BY DEF Take
<1>2. queue \in Seq(Kinds) /\ Head(queue) \in Kinds /\ queue' \in Seq(Kinds)
  <2>1. queue \in Seq(Kinds)
    BY DEF IcInv, IcTypes
  <2> QED
    BY <1>1, <2>1
<1>3. Torn(Head(queue)) => mixed'
  <2> SUFFICES ASSUME Torn(Head(queue))
               PROVE  Cardinality(out[Head(queue)].todo \cap Parts) = 1
    BY <1>1
  <2>1. out[Head(queue)].todo \cap Parts = {"val"}
    BY DEF Torn, Parts
  <2> QED
    BY <2>1, FS_Singleton
<1>4. Readings' /\ Archives' /\ NextAfter' /\ InTheirPlace' /\ LatestThere'
  BY <1>1 DEF IcInv, Readings, Archives, Torn, NextAfter, InTheirPlace, LatestThere, Other
<1>5. IcTypes'
  <2>1. pc' \in {"idle", "rt", "rt copy"} \cup ArStates
    BY <1>1 DEF ArStates
  <2> QED
    BY <1>1, <1>2, <2>1 DEF IcInv, IcTypes
<1>6. SignalAfter'
  <2>1. Head(queue) = "AR" => box["AR"].time > 0
    <3>1. 1 \in 1..Len(queue) /\ Head(queue) = queue[1]
      BY <1>1, <1>2
    <3> QED
      BY <3>1 DEF IcInv, SignalAfter
  <2>2. ASSUME NEW n \in 1..Len(queue'), queue'[n] = "AR"
        PROVE  box["AR"].time > 0
    <3>1. n + 1 \in 1..Len(queue) /\ queue[n + 1] = "AR"
      BY <1>1, <1>2, <2>2
    <3> QED
      BY <3>1 DEF IcInv, SignalAfter
  <2>3. pc' \in ArStates => Head(queue) = "AR"
    BY <1>1, <1>2 DEF ArStates, Kinds
  <2> QED
    BY <1>1, <2>1, <2>2, <2>3 DEF SignalAfter
<1>7. HandlesReading'
  <2> SUFFICES ASSUME Head(queue) = "RT", ~mixed'
               PROVE  box["RT"].val \in {0, box["RT"].time}
    BY <1>1 DEF HandlesReading
  <2> QED
    BY <1>3 DEF IcInv, Readings
<1>8. HandlesRecord'
  <2> SUFFICES ASSUME Head(queue) = "AR", ~mixed'
               PROVE  box["AR"].val = box["AR"].time
    BY <1>1, <1>2 DEF HandlesRecord, Kinds
  <2> QED
    BY <1>3 DEF IcInv, Archives
<1> QED
  BY <1>4, <1>5, <1>6, <1>7, <1>8 DEF IcInv

LEMMA TwoBuffers ==
  \A d \in {0, 1} : (d + 1) % 2 \in {0, 1} /\ (d + 1) % 2 # d
OBVIOUS

LEMMA ChooseStep ==
  ASSUME IcInv, Choose
  PROVE  IcInv'
PROOF
<1>1. /\ pc = "rt" /\ pc' = "rt copy"
      /\ chosen' = IF next = 0 \/ box["RT"].time < next THEN datidx ELSE Other
      /\ UNCHANGED <<clock, filed, out, box, queue, mixed, freq, next, datidx, dat, file, latest>>
  BY DEF Choose
<1>2. Other \in {0, 1} /\ Other' = Other /\ datidx \in {0, 1}
  <2>1. datidx \in {0, 1}
    BY DEF IcInv, IcTypes
  <2> QED
    BY <1>1, <2>1, TwoBuffers DEF Other
<1>3. Readings' /\ Archives' /\ NextAfter' /\ InTheirPlace' /\ LatestThere'
  <2>1. Readings' /\ Archives'
    BY <1>1 DEF IcInv, Readings, Archives, Torn
  <2>2. NextAfter'
    BY <1>1 DEF IcInv, NextAfter
  <2>3. InTheirPlace'
    BY <1>1, <1>2 DEF IcInv, InTheirPlace
  <2>4. LatestThere'
    BY <1>1, <1>2 DEF IcInv, LatestThere
  <2> QED
    BY <2>1, <2>2, <2>3, <2>4
<1>4. IcTypes'
  <2>1. pc' \in {"idle", "rt", "rt copy"} \cup ArStates /\ chosen' \in {0, 1}
    BY <1>1, <1>2
  <2> QED
    BY <1>1, <2>1 DEF IcInv, IcTypes
<1>5. SignalAfter' /\ HandlesRecord'
  BY <1>1 DEF IcInv, SignalAfter, HandlesRecord, ArStates
<1>6. HandlesReading'
  BY <1>1, <1>2 DEF IcInv, HandlesReading
<1> QED
  BY <1>3, <1>4, <1>5, <1>6 DEF IcInv

LEMMA CopyReadingStep ==
  ASSUME IcInv, CopyReading
  PROVE  IcInv'
PROOF
<1> DEFINE val == box["RT"].val
<1>1. /\ pc = "rt copy" /\ pc' = "idle" /\ chosen' = 0
      /\ UNCHANGED <<clock, filed, out, box, queue, mixed, freq, next, datidx, file>>
      /\ \/ UNCHANGED <<dat, latest>>
         \/ /\ val # 0
            /\ dat' = [dat EXCEPT ![chosen] = [rt |-> val, odd |-> @.odd \/ Unsure(val)]]
            /\ latest' = IF Unsure(val) THEN latest
                         ELSE [latest EXCEPT ![val \div Interval] = val]
  BY DEF CopyReading
<1>2. Readings' /\ Archives' /\ NextAfter' /\ SignalAfter' /\ HandlesReading' /\ HandlesRecord'
  <2>1. Readings' /\ Archives'
    BY <1>1 DEF IcInv, Readings, Archives, Torn
  <2>2. NextAfter' /\ SignalAfter'
    BY <1>1 DEF IcInv, NextAfter, SignalAfter, ArStates
  <2>3. HandlesReading' /\ HandlesRecord'
    BY <1>1 DEF HandlesReading, HandlesRecord, ArStates
  <2> QED
    BY <2>1, <2>2, <2>3
<1>3. CASE UNCHANGED <<dat, latest>>
  <2>1. InTheirPlace' /\ LatestThere'
    BY <1>1, <1>3 DEF IcInv, InTheirPlace, LatestThere, Other
  <2>2. IcTypes'
    BY <1>1, <1>3 DEF IcInv, IcTypes
  <2> QED
    BY <1>2, <2>1, <2>2 DEF IcInv
<1>4. CASE /\ val # 0
           /\ dat' = [dat EXCEPT ![chosen] = [rt |-> val, odd |-> @.odd \/ Unsure(val)]]
           /\ latest' = IF Unsure(val) THEN latest
                        ELSE [latest EXCEPT ![val \div Interval] = val]
  <2>1. /\ val \in Nat /\ next \in Nat /\ freq \in Nat /\ box["RT"].time \in Nat
        /\ clock \in Nat /\ clock <= MaxTime
    BY IcNumbers DEF Kinds
  <2>2. /\ dat \in [{0, 1} -> [rt : Nat, odd : BOOLEAN]] /\ latest \in [Intervals -> Nat]
        /\ chosen \in {0, 1} /\ datidx \in {0, 1} /\ Other \in {0, 1} /\ Other' = Other
        /\ Other # datidx
    <3>1. /\ dat \in [{0, 1} -> [rt : Nat, odd : BOOLEAN]] /\ latest \in [Intervals -> Nat]
          /\ chosen \in {0, 1} /\ datidx \in {0, 1}
      BY DEF IcInv, IcTypes
    <3> QED
      BY <1>1, <3>1, TwoBuffers DEF Other
  <2>3. Unsure(val) \in BOOLEAN
    BY <2>1 DEF Unsure
  <2> HIDE DEF val
  <2>4. dat' \in [{0, 1} -> [rt : Nat, odd : BOOLEAN]]
    BY <1>4, <2>1, <2>2, <2>3
  <2>5. /\ dat'[chosen].rt = val /\ (dat[chosen].odd \/ Unsure(val) => dat'[chosen].odd)
        /\ \A i \in {0, 1} : i # chosen => dat'[i] = dat[i]
    BY <1>4, <2>2
  <2>6. CASE Unsure(val)
    <3>1. latest' = latest /\ dat'[chosen].odd
      BY <1>4, <2>5, <2>6
    <3>2. InTheirPlace'
      BY <1>1, <2>5, <3>1 DEF IcInv, InTheirPlace
    <3>3. LatestThere'
      BY <1>1, <2>2, <2>5, <3>1 DEF IcInv, LatestThere
    <3>4. IcTypes'
      BY <1>1, <2>4, <3>1 DEF IcInv, IcTypes
    <3> QED
      BY <1>2, <3>2, <3>3, <3>4 DEF IcInv
  <2>7. CASE ~Unsure(val)
    <3>1. next # 0 /\ ~(val >= next + freq) /\ ~mixed
      BY <2>7 DEF Unsure
    <3>2. val = box["RT"].time /\ chosen = IF val < next THEN datidx ELSE Other
      BY <1>1, <1>4, <3>1 DEF IcInv, HandlesReading, val
    <3>3. val < next + freq
      BY <2>1, <3>1
    <3>4. val \div Interval \in Intervals
      <4>1. val <= clock
        BY <3>2 DEF IcInv, Readings
      <4>2. val \in 0..MaxTime
        BY <2>1, <4>1, BoundsAssumption
      <4> QED
        BY <4>2, InIntervals
    <3>5. /\ latest' \in [Intervals -> Nat]
          /\ latest'[val \div Interval] = val
          /\ \A n \in Intervals : n # val \div Interval => latest'[n] = latest[n]
      BY <1>4, <2>1, <2>2, <2>7, <3>4
    <3>6. InTheirPlace'
      BY <1>1, <2>2, <2>5, <3>1, <3>2, <3>3 DEF IcInv, InTheirPlace
    <3>7. ASSUME freq = Interval, NEW n \in Intervals, latest'[n] # 0
          PROVE  /\ latest'[n] < next + freq
                 /\ latest'[n] \div Interval = n /\ latest'[n] <= box["RT"].time
                 /\ latest'[n] >= next => dat'[Other].odd \/ dat'[Other].rt = latest'[n]
                 /\ latest'[n] < next /\ next <= latest'[n] + Interval
                      => dat'[datidx].odd \/ dat'[datidx].rt = latest'[n]
      <4>1. CASE n = val \div Interval
        BY <2>1, <2>2, <2>5, <3>2, <3>3, <3>5, <4>1
      <4>2. CASE n # val \div Interval
        <5>1. PICK r \in RecordTimes : next = r + Interval
          BY <3>1, <3>7 DEF IcInv, NextAfter
        <5>2. r \in Nat /\ next \in RecordTimes
          BY <5>1, RecordTimesApart
        <5>3. PICK u \in Nat : u = latest[n]
          BY <2>2
        <5>4. /\ latest'[n] = u /\ u # 0
              /\ u < next + freq /\ u \div Interval = n /\ u <= val
              /\ u >= next => dat[Other].odd \/ dat[Other].rt = u
              /\ u < next /\ next <= u + Interval
                   => dat[datidx].odd \/ dat[datidx].rt = u
          BY <3>2, <3>5, <3>7, <4>2, <5>3 DEF IcInv, LatestThere
        <5>5. ~(u >= next /\ val >= next)
          BY <2>1, <3>3, <3>7, <4>2, <5>2, <5>4, SameInterval
        <5>6. ~(u < next /\ next <= u + Interval /\ val < next)
          <6> SUFFICES ASSUME u < next, next <= u + Interval, val < next
                       PROVE  FALSE
            OBVIOUS
          <6>1. r <= u /\ u < r + Interval /\ r <= val /\ val < r + Interval
            BY <2>1, <5>1, <5>2, <5>3, <5>4, RatesAssumption
          <6> QED
            BY <2>1, <4>2, <5>4, <6>1, SameInterval
        <5>7. u >= next => dat'[Other].odd \/ dat'[Other].rt = u
          BY <2>1, <2>2, <2>5, <3>2, <5>3, <5>4, <5>5
        <5>8. u < next /\ next <= u + Interval => dat'[datidx].odd \/ dat'[datidx].rt = u
          BY <2>1, <2>2, <2>5, <3>2, <5>3, <5>4, <5>6
        <5> QED
          BY <3>2, <5>4, <5>7, <5>8
      <4> QED
        BY <4>1, <4>2
    <3>8. LatestThere'
      BY <1>1, <2>2, <3>1, <3>7 DEF LatestThere
    <3>9. IcTypes'
      BY <1>1, <2>4, <3>5 DEF IcInv, IcTypes
    <3> QED
      BY <1>2, <3>6, <3>8, <3>9 DEF IcInv
  <2> QED
    BY <2>6, <2>7
<1> QED
  BY <1>1, <1>3, <1>4

LEMMA RecordTimeStep ==
  ASSUME IcInv, RecordTime
  PROVE  IcInv'
PROOF
<1>1. /\ pc = "ar" /\ pc' = "ar fields"
      /\ file' = [time |-> box["AR"].time, rt |-> dat[datidx].rt, ar |-> 0,
                  odd |-> dat[datidx].odd]
      /\ mixed' = (mixed \/ (next # 0 /\ box["AR"].time + freq <= next))
      /\ UNCHANGED <<clock, filed, out, box, queue, chosen, freq, next, datidx, dat, latest>>
  BY DEF RecordTime
<1>2. /\ box["AR"].time \in Nat /\ clock \in Nat /\ filed \in Nat /\ freq \in Nat
      /\ next \in Nat /\ dat[datidx].rt \in Nat
  BY IcNumbers DEF IcInv, IcTypes
<1>3. /\ box["AR"].time \in RecordTimes /\ box["AR"].time > 0
      /\ box["AR"].time <= filed /\ filed <= clock
  BY <1>1 DEF IcInv, Archives, SignalAfter, ArStates
<1>4. Readings' /\ Archives' /\ NextAfter' /\ SignalAfter' /\ HandlesReading' /\ InTheirPlace'
      /\ LatestThere'
  <2>1. Readings' /\ Archives' /\ NextAfter' /\ SignalAfter'
    BY <1>1 DEF IcInv, Readings, Archives, Torn, NextAfter, SignalAfter, ArStates
  <2>2. HandlesReading' /\ InTheirPlace' /\ LatestThere'
    BY <1>1 DEF IcInv, HandlesReading, InTheirPlace, LatestThere, Other
  <2> QED
    BY <2>1, <2>2
<1>5. file' \in [time : Nat, rt : Nat, ar : Nat, odd : BOOLEAN]
  BY <1>1, <1>2 DEF IcInv, IcTypes
<1>6. IcTypes'
  BY <1>1, <1>5 DEF IcInv, IcTypes, ArStates
<1>7. HandlesRecord'
  <2>1. box["AR"].time <= clock
    BY <1>2, <1>3
  <2>2. ~mixed' => next = 0 \/ next < box["AR"].time + freq
    <3>1. PICK a \in Nat : a = box["AR"].time
      BY <1>2
    <3>2. ~mixed' => next = 0 \/ ~(a + freq <= next)
      BY <1>1, <3>1
    <3> QED
      BY <1>2, <3>1, <3>2
  <2>3. ~mixed' => box["AR"].val = box["AR"].time
    BY <1>1 DEF IcInv, HandlesRecord
  <2> QED
    BY <1>1, <1>3, <2>1, <2>2, <2>3 DEF HandlesRecord
<1> QED
  BY <1>4, <1>6, <1>7 DEF IcInv

LEMMA RecordMeasuresStep ==
  ASSUME IcInv, RecordMeasures
  PROVE  IcInv'
PROOF
<1>1. /\ pc = "ar fields" /\ pc' = "ar next"
      /\ file' = [file EXCEPT !.ar = box["AR"].val, !.odd = @ \/ mixed]
      /\ UNCHANGED <<clock, filed, out, box, queue, mixed, chosen, freq, next, datidx, dat,
                     latest>>
  BY DEF RecordMeasures, Put
<1>2. file \in [time : Nat, rt : Nat, ar : Nat, odd : BOOLEAN] /\ box["AR"].val \in Nat
  BY IcNumbers DEF IcInv, IcTypes, Kinds
<1>3. /\ file'.time = file.time /\ file'.rt = file.rt /\ file'.ar = box["AR"].val
      /\ (file'.odd <=> file.odd \/ mixed)
      /\ file' \in [time : Nat, rt : Nat, ar : Nat, odd : BOOLEAN]
  <2>1. CASE mixed
    BY <1>1, <1>2, <2>1
  <2>2. CASE ~mixed
    BY <1>1, <1>2, <2>2
  <2> QED
    BY <2>1, <2>2
<1>4. Readings' /\ Archives' /\ NextAfter' /\ SignalAfter' /\ HandlesReading' /\ InTheirPlace'
      /\ LatestThere'
  <2>1. Readings' /\ Archives' /\ NextAfter' /\ SignalAfter'
    BY <1>1 DEF IcInv, Readings, Archives, Torn, NextAfter, SignalAfter, ArStates
  <2>2. HandlesReading' /\ InTheirPlace' /\ LatestThere'
    BY <1>1 DEF IcInv, HandlesReading, InTheirPlace, LatestThere, Other
  <2> QED
    BY <2>1, <2>2
<1>5. IcTypes'
  BY <1>1, <1>3 DEF IcInv, IcTypes, ArStates
<1>6. HandlesRecord'
  BY <1>1, <1>3 DEF IcInv, HandlesRecord
<1> QED
  BY <1>4, <1>5, <1>6 DEF IcInv

LEMMA Ordered == \A x, y, z \in Nat : x < y /\ y <= z => x < z
OBVIOUS

LEMMA WholeIntervals ==
  ASSUME NEW r \in RecordTimes, NEW t \in RecordTimes, NEW f \in Nat, f <= Interval,
         r + f < t + f
  PROVE  r + f <= t
PROOF
<1>1. r \in Nat /\ t \in Nat
  BY RecordTimesApart
<1>2. r < t
  BY <1>1
<1>3. r + Interval <= t
  BY <1>2, RecordTimesApart
<1> QED
  BY <1>1, <1>3, RatesAssumption

LEMMA IntervalEnded ==
  ASSUME NEW t \in RecordTimes, t > 0, NEW c \in 1..MaxTime, t <= c
  PROVE  (t \div Interval) - 1 \in Intervals
PROOF
<1>1. PICK m \in Nat : t = m * Interval
  BY DEF RecordTimes
<1>2. t \in 0..MaxTime
  BY RecordTimesApart, BoundsAssumption
<1>3. t \div Interval = m
  BY <1>1, RecordTimesApart, RatesAssumption, Quotient
<1>4. m # 0
  BY <1>1, RatesAssumption
<1>5. PICK n \in Nat : n = MaxTime \div Interval
  BY Division, BoundsAssumption
<1>6. m \in 0..n
  BY <1>2, <1>3, <1>5, InIntervals DEF Intervals
<1>7. m - 1 \in 0..n
  BY <1>4, <1>6
<1> QED
  BY <1>3, <1>5, <1>7 DEF Intervals

(* The record that ends the handler is not before next. *)
LEMMA NextNotAfter ==
  ASSUME IcInv, pc = "ar next", ~mixed \/ ~file.odd, freq <= Interval, next # 0
  PROVE  next <= file.time
PROOF
<1>1. next < file.time + freq /\ file.time \in RecordTimes
  BY DEF IcInv, HandlesRecord
<1>2. PICK r \in RecordTimes : next = r + freq
  BY DEF IcInv, NextAfter
<1>3. r \in Nat /\ freq \in Nat
  BY IcNumbers, RecordTimesApart
<1> QED
  BY <1>1, <1>2, <1>3, WholeIntervals

LEMMA NextBufferStep ==
  ASSUME IcInv, NextBuffer
  PROVE  IcInv'
PROOF
<1>1. /\ pc = "ar next" /\ pc' = "idle"
      /\ dat' = [dat EXCEPT ![datidx] = Reset, ![Other].odd = @ \/ mixed]
      /\ datidx' = Other
      /\ next' = box["AR"].time + freq
      /\ latest' = [k \in Intervals |->
                      IF mixed \/ k < file.time \div Interval THEN 0 ELSE latest[k]]
      /\ file' = NoFile
      /\ UNCHANGED <<clock, filed, out, box, queue, mixed, chosen, freq>>
  BY DEF NextBuffer
<1>2. /\ box["AR"].time \in Nat /\ freq \in Nat /\ freq > 0 /\ next \in Nat /\ file.time \in Nat
      /\ \A n \in Intervals : latest[n] \in Nat
      /\ \A i \in {0, 1} : dat[i].rt \in Nat
  BY IcNumbers
<1>3. /\ dat \in [{0, 1} -> [rt : Nat, odd : BOOLEAN]] /\ latest \in [Intervals -> Nat]
      /\ datidx \in {0, 1} /\ Other \in {0, 1} /\ Other # datidx
      /\ \A i \in {0, 1} : i = datidx \/ i = Other
  <2>1. /\ dat \in [{0, 1} -> [rt : Nat, odd : BOOLEAN]] /\ latest \in [Intervals -> Nat]
        /\ datidx \in {0, 1}
    BY DEF IcInv, IcTypes
  <2> QED
    BY <2>1, TwoBuffers DEF Other
<1>4. Other' # Other /\ Other' \in {0, 1}
  <2>1. Other' = (datidx' + 1) % 2
    BY DEF Other
  <2> QED
    BY <1>1, <1>3, <2>1, TwoBuffers
<1>5. /\ dat' \in [{0, 1} -> [rt : Nat, odd : BOOLEAN]]
      /\ dat'[datidx] = Reset
      /\ dat'[Other].rt = dat[Other].rt /\ (dat'[Other].odd <=> dat[Other].odd \/ mixed)
  <2>1. Reset \in [rt : Nat, odd : BOOLEAN]
    BY DEF Reset
  <2>2. CASE mixed
    BY <1>1, <1>3, <2>1, <2>2
  <2>3. CASE ~mixed
    BY <1>1, <1>3, <2>1, <2>3
  <2> QED
    BY <2>2, <2>3
<1>6. Readings' /\ Archives' /\ SignalAfter' /\ HandlesReading' /\ HandlesRecord'
  BY <1>1 DEF IcInv, Readings, Archives, Torn, SignalAfter, HandlesReading,
              HandlesRecord, ArStates
<1>7. NextAfter'
  <2>1. box["AR"].time \in RecordTimes /\ box["AR"].time <= box["AR"].time
    BY <1>2 DEF IcInv, Archives
  <2> QED
    BY <1>1, <2>1 DEF NextAfter
<1>8. next' \in Nat /\ next' > 0 /\ next' = box["AR"].time + freq
  <2>1. PICK a \in Nat : a = box["AR"].time
    BY <1>2
  <2>2. a + freq \in Nat /\ a + freq > 0
    BY <1>2, <2>1
  <2> QED
    BY <1>1, <2>1, <2>2
<1>9. ~mixed => file.time = box["AR"].time
  BY <1>1 DEF IcInv, HandlesRecord
<1>10. latest' \in [Intervals -> Nat] /\ \A n \in Intervals : latest'[n] # 0 =>
         ~mixed /\ ~(n < file.time \div Interval) /\ latest'[n] = latest[n]
  BY <1>1, <1>2
<1>11. IcTypes'
  <2>1. file' \in [time : Nat, rt : Nat, ar : Nat, odd : BOOLEAN]
    BY <1>1 DEF NoFile
  <2> QED
    BY <1>1, <1>3, <1>5, <1>8, <1>10, <2>1 DEF IcInv, IcTypes
<1>12. InTheirPlace'
  <2> SUFFICES ASSUME freq <= Interval, NEW i \in {0, 1}
               PROVE  dat'[i].odd \/ dat'[i].rt = 0 \/
                        (next' # 0 /\ dat'[i].rt < IF i = datidx' THEN next' ELSE next' + freq')
    BY <1>1 DEF InTheirPlace
  <2>1. CASE i = datidx
    BY <1>5, <2>1 DEF Reset
  <2>2. CASE i = Other
    <3> SUFFICES ASSUME ~mixed, ~dat[Other].odd, dat[Other].rt # 0
                 PROVE  dat[Other].rt < next'
      <4>1. i = datidx' /\ dat'[i].rt = dat[Other].rt /\ (dat'[i].odd <=> dat[Other].odd \/ mixed)
        BY <1>1, <1>5, <2>2
      <4>2. next' # 0
        BY <1>8
      <4> QED
        BY <4>1, <4>2
    <3>1. next # 0 /\ dat[Other].rt < next + freq
      BY <1>3 DEF IcInv, InTheirPlace
    <3>2. next <= box["AR"].time
      BY <1>1, <1>9, <3>1, NextNotAfter
    <3> QED
      BY <1>2, <1>3, <1>8, <3>1, <3>2
  <2> QED
    BY <1>3, <2>1, <2>2
<1>13. LatestThere'
  <2> SUFFICES ASSUME freq = Interval, NEW n \in Intervals, latest'[n] # 0
               PROVE  /\ next' # 0 /\ latest'[n] < next' + freq
                      /\ latest'[n] \div Interval = n /\ latest'[n] <= box["RT"].time
                      /\ ~(latest'[n] >= next')
                      /\ dat'[Other].odd \/ dat'[Other].rt = latest'[n]
    BY <1>1 DEF LatestThere
  <2>1. PICK u \in Nat : u = latest[n]
    BY <1>2
  <2>2. ~mixed /\ ~(n < file.time \div Interval) /\ latest'[n] = u /\ u # 0
    BY <1>10, <2>1
  <2>3. /\ next # 0 /\ u < next + freq /\ u \div Interval = n /\ u <= box["RT"].time
        /\ u >= next => dat[Other].odd \/ dat[Other].rt = u
    BY <2>1, <2>2 DEF IcInv, LatestThere
  <2>4. next <= file.time /\ file.time = box["AR"].time
    <3>1. freq <= Interval
      BY <1>2
    <3> QED
      BY <1>1, <1>9, <2>2, <2>3, <3>1, NextNotAfter
  <2>5. file.time <= u
    <3>1. file.time \in RecordTimes
      BY <1>1 DEF IcInv, HandlesRecord
    <3>2. PICK m \in Nat : file.time = m * Interval
      BY <3>1 DEF RecordTimes
    <3>3. file.time \div Interval = m
      BY <1>2, <3>2, RatesAssumption, Quotient
    <3>4. PICK q \in Nat : q = u \div Interval
      BY Division
    <3>5. q >= m /\ q * Interval <= u
      BY <2>2, <2>3, <3>3, <3>4, Division
    <3>6. m * Interval <= q * Interval
      BY <3>5, RatesAssumption
    <3>7. m * Interval \in Nat /\ q * Interval \in Nat
      BY RatesAssumption
    <3> QED
      BY <3>2, <3>5, <3>6, <3>7
  <2>6. next <= u /\ u < next' /\ u < next' + freq
    BY <1>2, <1>8, <2>3, <2>4, <2>5
  <2>7. dat'[Other].odd \/ dat'[Other].rt = u
    BY <1>2, <1>5, <2>3, <2>6
  <2> QED
    BY <1>8, <2>2, <2>3, <2>6, <2>7
<1> QED
  BY <1>6, <1>7, <1>11, <1>12, <1>13 DEF IcInv

LEMMA IcRestartStep ==
  ASSUME IcInv, IcRestart
  PROVE  IcInv'
PROOF
<1>1. /\ out' = [k \in Kinds |-> NoOut] /\ box' = [k \in Kinds |-> NoBox]
      /\ queue' = <<>> /\ pc' = "idle" /\ chosen' = 0
      /\ freq' \in Freqs /\ next' = 0 /\ datidx' = 0
      /\ dat' = [i \in {0, 1} |-> Reset] /\ file' = NoFile
      /\ mixed' = FALSE /\ latest' = [k \in Intervals |-> 0]
      /\ UNCHANGED <<clock, filed>>
  BY DEF IcRestart
<1>2. Readings' /\ Archives'
  <2>1. /\ out'["RT"].todo = {} /\ out'["AR"].todo = {} /\ box'["RT"].time = 0
        /\ box'["RT"].val = 0 /\ box'["AR"].time = 0 /\ box'["AR"].val = 0
    BY <1>1 DEF Kinds, NoOut, NoBox
  <2>2. /\ clock' = clock /\ filed' = filed /\ filed <= clock /\ 0 \in RecordTimes
        /\ 0 <= clock /\ 0 <= filed
    BY <1>1, IcNumbers, RecordTimesApart DEF IcInv, Archives
  <2> QED
    BY <2>1, <2>2 DEF Readings, Archives, Torn
<1>3. SignalAfter' /\ NextAfter' /\ HandlesReading' /\ HandlesRecord' /\ LatestThere'
  BY <1>1 DEF SignalAfter, NextAfter, HandlesReading, HandlesRecord, LatestThere, ArStates
<1>4. InTheirPlace'
  BY <1>1 DEF InTheirPlace, Reset
<1>5. IcTypes'
  <2>1. /\ clock' \in 1..MaxTime /\ filed' \in RecordTimes /\ queue' \in Seq(Kinds)
        /\ pc' \in {"idle", "rt", "rt copy"} \cup ArStates
        /\ chosen' \in {0, 1} /\ datidx' \in {0, 1} /\ freq' \in Freqs /\ next' \in Nat
        /\ latest' \in [Intervals -> Nat]
    BY <1>1, IcNumbers
  <2>2. /\ out' \in [Kinds -> [time : Nat, val : Nat, todo : SUBSET (Parts \cup {"signal"})]]
        /\ box' \in [Kinds -> [time : Nat, val : Nat]]
        /\ dat' \in [{0, 1} -> [rt : Nat, odd : BOOLEAN]]
        /\ file' \in [time : Nat, rt : Nat, ar : Nat, odd : BOOLEAN]
    BY <1>1 DEF NoOut, NoBox, Reset, NoFile
  <2> QED
    BY <2>1, <2>2 DEF IcTypes
<1> QED
  BY <1>2, <1>3, <1>4, <1>5 DEF IcInv

LEMMA IcInvUnchanged ==
  ASSUME IcInv, UNCHANGED icVars
  PROVE  IcInv'
PROOF
<1> USE DEF icVars, handler
<1>1. IcTypes' /\ SignalAfter' /\ NextAfter' /\ HandlesRecord'
  <2>1. IcTypes'
    BY DEF IcInv, IcTypes
  <2>2. SignalAfter' /\ NextAfter'
    BY DEF IcInv, SignalAfter, NextAfter
  <2>3. HandlesRecord'
    BY DEF IcInv, HandlesRecord
  <2> QED
    BY <2>1, <2>2, <2>3
<1>2. Readings' /\ Archives'
  BY DEF IcInv, Readings, Archives, Torn
<1>3. HandlesReading' /\ InTheirPlace' /\ LatestThere'
  BY DEF IcInv, HandlesReading, InTheirPlace, LatestThere, Other
<1> QED
  BY <1>1, <1>2, <1>3 DEF IcInv

LEMMA IcNextStep ==
  ASSUME IcInv, IcNext
  PROVE  IcInv'
BY TickStep, ReadSensorsStep, FetchRecordStep, SignalStep, StorePartStep, TakeStep,
   ChooseStep, CopyReadingStep, RecordTimeStep, RecordMeasuresStep, NextBufferStep,
   IcRestartStep DEF IcNext

LEMMA IcAlways == PublishSpec => []IcInv
PROOF
<1>1. PublishInit => IcInv
  BY IcInvInit DEF PublishInit
<1>2. IcInv /\ [PublishNext]_vars_ => IcInv'
  BY IcNextStep, IcInvUnchanged DEF PublishNext, vars_
<1> QED
  BY <1>1, <1>2, PTL DEF PublishSpec

(* The file that StatIC uploads for a record has the measures of that       *)
(* record, and no reading taken at its time or later (ic_sig_rt, ic_sig_ar): *)
(* whatever the pace of readings, records and signals, and however many      *)
(* signals were lost, as long as no structure was overwritten while or       *)
(* before its signal was handled.                                            *)
THEOREM StatICFileOwn == PublishSpec => []FileOwn
PROOF
<1>1. IcInv => FileOwn
  <2> SUFFICES ASSUME IcInv, pc = "ar next", ~file.odd, freq <= Interval
               PROVE  file.ar = file.time /\ file.rt < file.time
    BY DEF FileOwn
  <2>1. /\ file.ar = file.time /\ file.time > 0 /\ file.time \in RecordTimes
        /\ file.rt = dat[datidx].rt /\ ~dat[datidx].odd
        /\ next = 0 \/ next < file.time + freq
    BY DEF IcInv, HandlesRecord
  <2>2. datidx \in {0, 1} /\ dat[datidx].rt \in Nat
    BY DEF IcInv, IcTypes
  <2>3. dat[datidx].rt = 0 \/ (next # 0 /\ dat[datidx].rt < next)
    BY <2>1, <2>2 DEF IcInv, InTheirPlace
  <2>4. next # 0 => next <= file.time
    BY NextNotAfter
  <2>5. file.time \in Nat /\ next \in Nat
    BY IcNumbers
  <2> QED
    <3>1. CASE dat[datidx].rt = 0
      BY <2>1, <3>1
    <3>2. CASE next # 0 /\ dat[datidx].rt < next
      BY <2>1, <2>2, <2>4, <2>5, <3>2, Ordered
    <3> QED
      BY <2>3, <3>1, <3>2
<1> QED
  BY <1>1, IcAlways, PTL

(* When records come at the pace of stat_ic.freq, the file of a record has  *)
(* the latest reading of the interval it ends: the two buffers of ic.c      *)
(* change places without losing a reading.                                  *)
THEOREM StatICFileFresh == PublishSpec => []FileFresh
PROOF
<1>1. IcInv => FileFresh
  <2> SUFFICES ASSUME IcInv, pc = "ar next", ~file.odd, freq = Interval, next = file.time,
                      latest[(file.time \div Interval) - 1] # 0
               PROVE  file.rt = latest[(file.time \div Interval) - 1]
    BY DEF FileFresh
  <2>1. /\ file.time > 0 /\ file.time \in RecordTimes /\ file.time <= clock
        /\ file.rt = dat[datidx].rt /\ ~dat[datidx].odd
    BY DEF IcInv, HandlesRecord
  <2>2. (file.time \div Interval) - 1 \in Intervals
    <3>1. clock \in 1..MaxTime
      BY IcNumbers
    <3> QED
      BY <2>1, <3>1, IntervalEnded
  <2>3. PICK n \in Intervals : n = (file.time \div Interval) - 1
    BY <2>2
  <2>4. PICK u \in Nat : u = latest[n]
    BY <2>3, IcNumbers
  <2>5. /\ u # 0 /\ u \div Interval = n
        /\ u < next /\ next <= u + Interval => dat[datidx].odd \/ dat[datidx].rt = u
    BY <2>3, <2>4 DEF IcInv, LatestThere
  <2>6. u < file.time /\ file.time <= u + Interval
    BY <2>1, <2>3, <2>5, IntervalBefore
  <2> QED
    BY <2>1, <2>3, <2>4, <2>5, <2>6
<1> QED
  BY <1>1, IcAlways, PTL
=============================================================================
