--------------------------- MODULE ArchiveProofs ---------------------------
(* Proofs about Archive with console records and a table, for any length   *)
(* of the console's log, any batch size and any number of records. Only    *)
(* the cursor ties the table to the console, so the invariant says what it *)
(* stands for at each step: every row is at or before it, the batch or the *)
(* record in hand is right after it, and what lies before it is accounted  *)
(* for. Rows of the table are accounted for even while no process runs,    *)
(* because the next one takes its cursor from them.                        *)
EXTENDS Archive, TLAPS

Loaded == pc \in {"begin", "fetch", "insert", "commit",
                  "idle", "push", "save", "notify"}

InHand == pc \in {"push", "save", "notify"} /\ sz = 1

(* All that a record may have become once the cursor is past it. *)
Accounted(t) == t \in db \/ t \in failed \/ t \in dropped

RowsReached ==
  Loaded => \A r \in db \cup tx : r <= current

BatchAhead ==
  /\ pc # "insert" => batch = {}
  /\ \A t \in batch : current < t
  /\ \A b \in batch : \A t \in Time :
       current < t /\ t <= b => t \in batch \/ t \in dropped \/ t \in db

TxOnlyInBulk == pc \notin {"fetch", "insert", "commit"} => tx = {}

RecordInHand ==
  /\ pc = "save" => sz = 1
  /\ pc \in {"push", "save", "notify"} /\ sz = 0 => ar = Garbage
  /\ InHand => ar = current /\ current \in Time /\ ar \notin notified
  /\ InHand /\ pc # "notify" => ar \notin db
  /\ InHand /\ pc = "notify" => ar \in db

OverwrittenAccounted ==
  \A t \in Time : t <= clock - LogSize => t \in db \/ t \in dropped

RowsAccounted ==
  \A r \in db : \A t \in Time : t <= r => Accounted(t)

CursorAccounted ==
  Loaded => \A t \in Time : t <= current =>
              \/ Accounted(t)
              \/ t \in tx
              \/ pc \in {"push", "save"} /\ t = ar

IInv ==
  /\ TypeOK
  /\ db \subseteq Time
  /\ RowsReached /\ BatchAhead /\ TxOnlyInBulk /\ RecordInHand
  /\ OverwrittenAccounted /\ RowsAccounted /\ CursorAccounted
  /\ NotifiedSaved
---------------------------------------------------------------------------
(* Types, in every mode of the service: with a console that archives by     *)
(* itself a record in hand or in the table is one of the console's.         *)
OfTheConsole ==
  /\ pc = "save" => sz = 1
  /\ pc = "select" => HwArchive
  /\ HwArchive => db \subseteq Time /\ (sz = 1 => ar \in Time)

(* Whatever fails, dies or is reloaded, and with or without a table, the    *)
(* cursor and the board only ever stand on a time of the console's clock,   *)
(* never on a structure nothing was stored into.                            *)
THEOREM ArchiveTypeOK == Spec => []TypeOK
<1> DEFINE TInv == TypeOK /\ OfTheConsole
<1>1. Init => TInv
  BY BoundsAssumption DEF Init, TypeOK, OfTheConsole, Time
<1>2. TInv /\ [Next]_vars => TInv'
  <2> SUFFICES ASSUME TypeOK, OfTheConsole, [Next]_vars
               PROVE  TInv'
    OBVIOUS
  <2> USE BoundsAssumption, LogSizeAssumption, GarbageAssumption, ModeAssumption
      DEF TypeOK, OfTheConsole, Time
  <2>0. \A n \in Nat : Fetched(current, n) \subseteq Time
    BY DEF Fetched, FetchedAt, FirstAfter, OldestAt
  <2>1. CASE Boot
    BY <2>1 DEF Boot
  <2>2. CASE ArchiveInit
    BY <2>2 DEF ArchiveInit
  <2>3. CASE SelectLast
    BY <2>3 DEF SelectLast, Newest
  <2>4. CASE Begin
    BY <2>4 DEF Begin
  <2>5. CASE BulkFetch
    BY <2>0, <2>5 DEF BulkFetch
  <2>6. CASE BulkInsert
    BY <2>6 DEF BulkInsert, Newest
  <2>7. CASE Commit
    BY <2>7 DEF Commit
  <2>8. CASE Tick
    BY <2>0, <2>8 DEF Tick
  <2>9. CASE PushRecord
    BY <2>9 DEF PushRecord
  <2>10. CASE Save
    BY <2>10 DEF Save
  <2>11. CASE SaveFails
    BY <2>11 DEF SaveFails
  <2>12. CASE Notify
    BY <2>12 DEF Notify
  <2>13. CASE Reload
    BY <2>13 DEF Reload
  <2>14. CASE Crash
    BY <2>14 DEF Crash
  <2>15. CASE Produce
    BY <2>15 DEF Produce, Oldest, OldestAt
  <2>16. CASE UNCHANGED vars
    BY <2>16 DEF vars
  <2> QED
    BY <2>1, <2>2, <2>3, <2>4, <2>5, <2>6, <2>7, <2>8, <2>9, <2>10, <2>11,
       <2>12, <2>13, <2>14, <2>15, <2>16
    DEF Next
<1>3. TInv => TypeOK
  OBVIOUS
<1> QED
  BY <1>1, <1>2, <1>3, PTL DEF Spec
---------------------------------------------------------------------------
(* What drv_get_ar leaves out between the cursor and a record it returns   *)
(* had left the console already.                                           *)
LEMMA FetchedAhead ==
  ASSUME TypeOK, OverwrittenAccounted, NEW n \in Nat,
         NEW b \in Fetched(current, n)
  PROVE  /\ b \in Time /\ current < b
         /\ \A t \in Time : current < t /\ t <= b =>
              t \in Fetched(current, n) \/ t \in dropped \/ t \in db
  BY BoundsAssumption, LogSizeAssumption
  DEF TypeOK, OverwrittenAccounted, Fetched, FetchedAt, FirstAfter, OldestAt,
      Oldest, Time

LEMMA InitInv == Init => IInv
  BY BoundsAssumption, LogSizeAssumption
  DEF Init, IInv, TypeOK, RowsReached, BatchAhead, TxOnlyInBulk, RecordInHand,
      OverwrittenAccounted, RowsAccounted, CursorAccounted, NotifiedSaved,
      Loaded, InHand, Accounted, Time

LEMMA StepInv ==
  ASSUME HwArchive, Sqlite, IInv, [Next]_vars
  PROVE  IInv'
<1> USE BoundsAssumption, LogSizeAssumption, GarbageAssumption
    DEF IInv, TypeOK, RowsReached, BatchAhead, TxOnlyInBulk, RecordInHand,
        OverwrittenAccounted, RowsAccounted, CursorAccounted, NotifiedSaved,
        Loaded, InHand, Accounted, Time
<1>1. CASE Boot
  BY <1>1 DEF Boot
<1>2. CASE ArchiveInit
  BY <1>2 DEF ArchiveInit
<1>3. CASE SelectLast
  BY <1>3 DEF SelectLast, Newest
<1>4. CASE Begin
  BY <1>4 DEF Begin
<1>5. CASE BulkFetch
  <2>1. batch' = Fetched(current, ArLen)
    BY <1>5 DEF BulkFetch
  <2>2. \A b \in batch' :
          /\ b \in Time /\ current < b
          /\ \A t \in Time : current < t /\ t <= b =>
               t \in batch' \/ t \in dropped \/ t \in db
    BY <2>1, FetchedAhead
  <2> QED
    BY <1>5, <2>2 DEF BulkFetch
<1>6. CASE BulkInsert
  BY <1>6 DEF BulkInsert, Newest
<1>7. CASE Commit
  BY <1>7 DEF Commit
<1>8. CASE Tick
  <2>1. ASSUME NEW b \in Fetched(current, 1), sz' = 1, ar' = b, current' = b
        PROVE  IInv'
    <3>1. b \in Time /\ current < b
      BY FetchedAhead
    <3>2. Fetched(current, 1) \subseteq {b}
      BY DEF Fetched, FetchedAt, FirstAfter, OldestAt, Oldest
    <3>3. \A t \in Time : current < t /\ t <= b =>
            t = b \/ t \in dropped \/ t \in db
      BY <3>2, FetchedAhead
    <3> QED
      BY <1>8, <2>1, <3>1, <3>3 DEF Tick
  <2>2. CASE sz' = 0 /\ ar' = Garbage /\ UNCHANGED current
    BY <1>8, <2>2 DEF Tick
  <2> QED
    BY <1>8, <2>1, <2>2 DEF Tick
<1>9. CASE PushRecord
  BY <1>9 DEF PushRecord
<1>10. CASE Save
  BY <1>10 DEF Save
<1>11. CASE SaveFails
  BY <1>11 DEF SaveFails
<1>12. CASE Notify
  BY <1>12 DEF Notify
<1>13. CASE Reload
  BY <1>13 DEF Reload
<1>14. CASE Crash
  BY <1>14 DEF Crash
<1>15. CASE Produce
  BY <1>15 DEF Produce, Oldest, OldestAt
<1>16. CASE UNCHANGED vars
  BY <1>16 DEF vars
<1> QED
  BY <1>1, <1>2, <1>3, <1>4, <1>5, <1>6, <1>7, <1>8, <1>9, <1>10, <1>11,
     <1>12, <1>13, <1>14, <1>15, <1>16
  DEF Next
LEMMA ArchiveInv == ASSUME HwArchive, Sqlite PROVE Spec => []IInv
<1>1. IInv /\ [Next]_vars => IInv'
  BY StepInv
<1> QED
  BY <1>1, InitInv, PTL DEF Spec

---------------------------------------------------------------------------
(* The table never refuses a record because it holds its key: neither in   *)
(* the catch-up of archive_init nor on a tick, after any crash or reload.  *)
THEOREM ArchiveNoKeyConflict ==
  ASSUME HwArchive, Sqlite PROVE Spec => []NoKeyConflict
<1>1. IInv => NoKeyConflict
  BY DEF IInv, TypeOK, RowsReached, BatchAhead, RecordInHand, InHand, Loaded,
         NoKeyConflict, Time
<1> QED
  BY <1>1, ArchiveInv, PTL

(* Every record the cursor is past is saved, on its way, refused by the    *)
(* table or overwritten by the console: the service skips none.            *)
THEOREM ArchiveNoSilentGap ==
  ASSUME HwArchive, Sqlite PROVE Spec => []NoSilentGap
<1>1. IInv => NoSilentGap
  <2> SUFFICES ASSUME IInv, Loaded, NEW t \in 1..current
               PROVE  t \in db \cup tx \cup InFlight \cup failed \cup dropped
    BY DEF IInv, TypeOK, Loaded, NoSilentGap
  <2>1. t \in Time /\ t <= current
    BY BoundsAssumption, LogSizeAssumption DEF IInv, TypeOK, Time
  <2>2. \/ Accounted(t) \/ t \in tx
        \/ pc \in {"push", "save"} /\ t = ar
    BY <2>1 DEF IInv, CursorAccounted
  <2> QED
    BY <2>2 DEF Accounted, InFlight
<1> QED
  BY <1>1, ArchiveInv, PTL

(* The other services only hear of records the table holds. *)
THEOREM ArchiveNotifiedSaved ==
  ASSUME HwArchive, Sqlite PROVE Spec => []NotifiedSaved
<1>1. IInv => NotifiedSaved
  BY DEF IInv
<1> QED
  BY <1>1, ArchiveInv, PTL

(* No record is handed to the other services twice. *)
THEOREM ArchiveNotifiedOnce ==
  ASSUME HwArchive, Sqlite PROVE Spec => NotifiedOnce
<1>1. IInv /\ [Next]_vars =>
        [pc = "notify" /\ pc' = "idle" /\ ar # Garbage => ar \notin notified]_vars
  BY DEF IInv, TypeOK, RecordInHand, InHand
<1> QED
  BY <1>1, ArchiveInv, PTL DEF Spec, NotifiedOnce
============================================================================
