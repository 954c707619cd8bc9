------------------------------ MODULE Archive ------------------------------
(* The archive service (src/wslogd/service/archive.c) between the console,  *)
(* the shared board, the SQLite table and the services it notifies.         *)
(*                                                                          *)
(* The console writes one record per archive period; record t is the t-th.  *)
(* It keeps the last LogSize of them. At start-up, and again on every       *)
(* reload, the service reads what the table misses in one transaction, in   *)
(* batches of ArLen. From then on each tick of its timer fetches one record *)
(* after the cursor `current', pushes it on the board, inserts it and hands *)
(* it to the other services. The process may die between any two steps.     *)
EXTENDS ConsoleLog, FiniteSets

CONSTANTS MaxTime,       \* bound: records the console writes
          ArLen,         \* AR_LEN, records per batch
          HwArchive,     \* hw_archive: the console archives by itself
          Sqlite,        \* archive.sqlite.enabled
          Garbage        \* an archive structure nothing was stored into

ASSUME BoundsAssumption ==
  /\ MaxTime \in Nat
  /\ ArLen \in Nat \ {0}

ASSUME GarbageAssumption == Garbage \notin Nat

ASSUME ModeAssumption == HwArchive \in BOOLEAN /\ Sqlite \in BOOLEAN

VARIABLES clock,     \* the last record the console wrote
          pc,        \* where the service is
          current,   \* time of the last record fetched
          batch,     \* arbuf of bulk_fetch: the records of one batch
          ar,        \* the structure on the stack of sigevent_archive
          sz,        \* number of records fetched by a tick
          db,        \* rows of the table, committed
          tx,        \* rows of the open transaction
          board,     \* newest archive record on the board, 0 when empty
          notified,  \* records handed to the other services
          failed,    \* records whose insertion failed (history)
          dropped    \* records the console overwrote unread (history)

vars == <<clock, pc, current, batch, ar, sz, db, tx, board, notified,
          failed, dropped>>

Time == 1..MaxTime

TypeOK ==
  /\ clock \in 0..MaxTime
  /\ pc \in {"down", "boot", "select", "begin", "fetch", "insert", "commit",
             "idle", "push", "save", "notify"}
  /\ current \in 0..MaxTime
  /\ batch \subseteq Time
  /\ ar \in Time \cup {Garbage}
  /\ sz \in 0..1
  /\ db \subseteq Time \cup {Garbage}
  /\ tx \subseteq Time
  /\ board \in 0..MaxTime
  /\ notified \subseteq Time \cup {Garbage}
  /\ failed \subseteq Time \cup {Garbage}
  /\ dropped \subseteq Time

Init ==
  /\ clock = 0 /\ pc = "down" /\ current = 0
  /\ batch = {} /\ ar = Garbage /\ sz = 0
  /\ db = {} /\ tx = {} /\ board = 0
  /\ notified = {} /\ failed = {} /\ dropped = {}

---------------------------------------------------------------------------
(* The console *)

Oldest == OldestAt(clock)

\* Slip: the record the cursor stands on is read again.
FetchedAgain(after, n) ==
  LET first == IF after < Oldest THEN Oldest ELSE after
  IN  {t \in first..clock : t < first + n}

\* Slip: the slot past the last record of the log is read too.
FetchedPastEnd(after, n) ==
  LET first == IF after < Oldest THEN Oldest ELSE after + 1
  IN  {t \in first..(clock + 1) : t < first + n}

(* drv_get_ar, which VantageDump shows for the Vantage. *)
Fetched(after, n) == FetchedAt(clock, after, n)

(* The last of a set of records, as the set of the one there is. *)
Newest(S) == {t \in S : \A u \in S : u <= t}

InFlight == batch \cup (IF pc \in {"push", "save"} THEN {ar} ELSE {})

(* A record is written; a full log overwrites the oldest one, which is     *)
(* counted as dropped unless the table holds it by then.                   *)
Produce ==
  /\ clock < MaxTime
  /\ clock' = clock + 1
  /\ dropped' = dropped \cup
       (IF clock >= LogSize THEN {Oldest} \ db ELSE {})
  /\ UNCHANGED <<pc, current, batch, ar, sz, db, tx, board, notified, failed>>

---------------------------------------------------------------------------
(* archive_init *)

(* A new process: the statics are zero and the board is created again. *)
Boot ==
  /\ pc = "down"
  /\ pc' = "boot"
  /\ current' = 0
  /\ board' = 0
  /\ UNCHANGED <<clock, batch, ar, sz, db, tx, notified, failed, dropped>>

(* Without a table, "Start from now on": by the host's clock, which may be  *)
(* ahead of the console's or behind it.                                    *)
ArchiveInit ==
  /\ pc = "boot"
  /\ pc' = IF Sqlite /\ HwArchive THEN "select" ELSE "idle"
  /\ current' \in IF Sqlite THEN {current} ELSE 0..MaxTime
  /\ UNCHANGED <<clock, batch, ar, sz, db, tx, board, notified, failed, dropped>>

(* sqlite_select_last; WSLOG_EPOCH when the table is empty. *)
SelectLast ==
  /\ pc = "select"
  /\ pc' = "begin"
  /\ current' \in IF db = {} THEN {0} ELSE Newest(db)
  /\ UNCHANGED <<clock, batch, ar, sz, db, tx, board, notified, failed, dropped>>

Begin ==
  /\ pc = "begin"
  /\ pc' = "fetch"
  /\ tx' = {}
  /\ UNCHANGED <<clock, current, batch, ar, sz, db, board, notified, failed,
                 dropped>>

BulkFetch ==
  /\ pc = "fetch"
  /\ batch' = Fetched(current, ArLen)
  /\ pc' = IF batch' = {} THEN "commit" ELSE "insert"
  /\ UNCHANGED <<clock, current, ar, sz, db, tx, board, notified, failed,
                 dropped>>

\* Slip: the cursor jumps to the console's last record after a batch.
BulkInsertJump ==
  /\ pc = "insert"
  /\ batch \cap (db \cup tx) = {}
  /\ tx' = tx \cup batch
  /\ current' = clock
  /\ pc' = IF Cardinality(batch) = ArLen THEN "fetch" ELSE "commit"
  /\ batch' = {}
  /\ UNCHANGED <<clock, ar, sz, db, board, notified, failed, dropped>>

(* The rows of a batch; a key already there fails the whole bulk_fetch,    *)
(* which is then left with no step but InitFails.                          *)
BulkInsert ==
  /\ pc = "insert"
  /\ batch \cap (db \cup tx) = {}
  /\ tx' = tx \cup batch
  /\ current' \in Newest(batch)
  /\ pc' = IF Cardinality(batch) = ArLen THEN "fetch" ELSE "commit"
  /\ batch' = {}
  /\ UNCHANGED <<clock, ar, sz, db, board, notified, failed, dropped>>

Commit ==
  /\ pc = "commit"
  /\ pc' = "idle"
  /\ db' = db \cup tx
  /\ tx' = {}
  /\ UNCHANGED <<clock, current, batch, ar, sz, board, notified, failed,
                 dropped>>

---------------------------------------------------------------------------
(* sigevent_archive and archive_sig_timer *)

\* Slip: the structure is static, and an empty fetch leaves the last record.
TickStaleRecord ==
  /\ pc = "idle"
  /\ pc' = "push"
  /\ IF HwArchive
       THEN \/ \E t \in Fetched(current, 1) :
                 sz' = 1 /\ ar' = t /\ current' = t
            \/ /\ Fetched(current, 1) = {}
               /\ sz' = 0 /\ UNCHANGED <<ar, current>>
       ELSE sz' = 1 /\ ar' = Garbage /\ UNCHANGED current
  /\ UNCHANGED <<clock, batch, db, tx, board, notified, failed, dropped>>

(* A tick whose drv_get_ar fails changes nothing; it is not shown. *)
Tick ==
  /\ pc = "idle"
  /\ pc' = "push"
  /\ IF HwArchive
       THEN \/ \E t \in Fetched(current, 1) :
                 sz' = 1 /\ ar' = t /\ current' = t
            \/ /\ Fetched(current, 1) = {}
               /\ sz' = 0 /\ ar' = Garbage /\ UNCHANGED current
       ELSE sz' = 1 /\ ar' = Garbage /\ UNCHANGED current
  /\ UNCHANGED <<clock, batch, db, tx, board, notified, failed, dropped>>

(* push_record: ws_aggr computes nothing and returns 0, so that a software *)
(* record stays off the board; the number of records is returned anyway.   *)
PushRecord ==
  /\ pc = "push"
  /\ pc' = IF sz = 0 THEN "notify" ELSE "save"
  /\ board' = IF sz = 1 /\ HwArchive THEN ar ELSE board
  /\ UNCHANGED <<clock, current, batch, ar, sz, db, tx, notified, failed,
                 dropped>>

Save ==
  /\ pc = "save"
  /\ Sqlite => ar \notin db
  /\ pc' = "notify"
  /\ db' = IF Sqlite THEN db \cup {ar} ELSE db
  /\ UNCHANGED <<clock, current, batch, ar, sz, tx, board, notified, failed,
                 dropped>>

\* Slip: the error of the insertion is not returned.
SaveFailsSilently ==
  /\ pc = "save" /\ Sqlite
  /\ pc' = "notify"
  /\ failed' = failed \cup {ar}
  /\ UNCHANGED <<clock, current, batch, ar, sz, db, tx, board, notified,
                 dropped>>

(* The handler returns -1: nobody is notified. *)
SaveFails ==
  /\ pc = "save" /\ Sqlite
  /\ pc' = "idle"
  /\ failed' = failed \cup {ar}
  /\ UNCHANGED <<clock, current, batch, ar, sz, db, tx, board, notified,
                 dropped>>

Notify ==
  /\ pc = "notify"
  /\ pc' = "idle"
  /\ notified' = notified \cup {ar}
  /\ UNCHANGED <<clock, current, batch, ar, sz, db, tx, board, failed, dropped>>

---------------------------------------------------------------------------
(* The thread is joined between two ticks, then archive_init runs again.   *)
Reload ==
  /\ pc = "idle"
  /\ pc' = "boot"
  /\ UNCHANGED <<clock, current, batch, ar, sz, db, tx, board, notified,
                 failed, dropped>>

(* The process dies, or gives up on an error of archive_init: the open     *)
(* transaction is rolled back and the table keeps what was committed.      *)
Crash ==
  /\ pc # "down"
  /\ pc' = "down"
  /\ tx' = {} /\ batch' = {} /\ ar' = Garbage /\ sz' = 0
  /\ UNCHANGED <<clock, current, db, board, notified, failed, dropped>>

Next ==
  \/ Produce
  \/ Boot \/ ArchiveInit \/ SelectLast \/ Begin \/ BulkFetch \/ BulkInsert
  \/ Commit
  \/ Tick \/ PushRecord \/ Save \/ SaveFails \/ Notify
  \/ Reload \/ Crash

Spec == Init /\ [][Next]_vars

---------------------------------------------------------------------------
(* The key of the table is the time of the record: whatever was saved,     *)
(* lost or crashed before, no insertion meets a row with its key, so the   *)
(* catch-up at start-up is never refused by the table it repairs.          *)
NoKeyConflict ==
  /\ pc = "insert" => batch \cap (db \cup tx) = {}
  /\ pc = "save" /\ Sqlite => ar \notin db

(* The cursor never passes a record in silence: once the table was read,   *)
(* every record up to the cursor is in the table, on its way to it, was    *)
(* refused by the table, or had left the console before it could be read.  *)
NoSilentGap ==
  pc \notin {"down", "boot", "select"} =>
    (1..current) \subseteq db \cup tx \cup InFlight \cup failed \cup dropped

(* Services are told of a record only when the table holds it, even when   *)
(* the insertion fails and even if the process dies right after.           *)
NotifiedSaved == (notified \cap Time) \subseteq db

(* No record is handed to the services twice, across crashes and reloads.  *)
NotifiedOnce ==
  [][pc = "notify" /\ pc' = "idle" /\ ar # Garbage => ar \notin notified]_vars

---------------------------------------------------------------------------
(* worker.c: ef_ar is the "Action on archive data", run on the structure   *)
(* sigevent_archive hands out. It is always a record of the console.       *)
NotifiedReal == Garbage \notin notified
============================================================================
