---------------------------- MODULE VantageDump ----------------------------
(* The dump of a Vantage console's archive (src/libws/vantage/download.c).  *)
(*                                                                          *)
(* The console keeps its log in pages of RecCount slots that it fills in    *)
(* turn. DMPAFT asks for the records after a time: the console answers how  *)
(* many pages it will send and where the first record is in the first one.  *)
(* Each page is acknowledged, asked for again when its CRC is wrong, or     *)
(* answered with ESC, which ends the dump. DMP sends the whole log, from    *)
(* its first page. The console writes records meanwhile.                    *)
EXTENDS ConsoleLog, Sequences, FiniteSets, Functions

CONSTANTS MaxTime,     \* bound: records the console writes
          RecCount,    \* REC_COUNT, records per page
          NoPage       \* nothing on the serial line

ASSUME RecCountAssumption ==
  /\ MaxTime \in Nat
  /\ RecCount \in Nat \ {0}
  /\ LogSize % RecCount = 0

ASSUME NoPageAssumption == NoPage \notin [0..(RecCount - 1) -> Nat]

Pages == LogSize \div RecCount
MaxTries == 3

VARIABLES clock,       \* the last record the console wrote
          console,     \* the console: its phase, next page, pages to send
          line,        \* the page on its way to the host
          pc,          \* where the call is
          after,       \* the time the call was given
          nel,         \* records still wanted
          asked,       \* records the call was given room for
          whole,       \* the call is vantage_dmp
          offset,      \* slots to skip in the next page
          tries,       \* pages received in a row with a wrong CRC
          answer,      \* the records decoded so far
          since,       \* clock when the console took the command (history)
          overrun      \* an unread record was overwritten since (history)

vars == <<clock, console, line, pc, after, nel, asked, whole, offset, tries,
          answer, since, overrun>>

Slots == 0..(RecCount - 1)
PageType == [Slots -> 0..MaxTime]

TypeOK ==
  /\ clock \in 0..MaxTime
  /\ console \in [phase : {"idle", "sending", "waiting"},
                  page : 0..(Pages - 1), left : 0..(Pages + 1)]
  /\ line \in PageType \cup {NoPage}
  /\ pc \in {"ready", "command", "page", "done", "failed"}
  /\ after \in 0..MaxTime
  /\ nel \in 0..LogSize
  /\ asked \in 1..LogSize
  /\ whole \in BOOLEAN
  /\ offset \in Slots
  /\ tries \in 0..MaxTries
  /\ answer \in Seq(1..MaxTime)
  /\ Len(answer) + nel <= asked
  /\ since \in 0..MaxTime
  /\ overrun \in BOOLEAN

Quiet == [phase |-> "idle", page |-> 0, left |-> 0]

Init ==
  /\ clock \in 0..MaxTime
  /\ console = Quiet /\ line = NoPage
  /\ pc = "ready" /\ after = 0 /\ nel = 0 /\ asked = 1 /\ whole = FALSE
  /\ offset = 0 /\ tries = 0 /\ answer = <<>>
  /\ since = 0 /\ overrun = FALSE

---------------------------------------------------------------------------
(* The log *)

SlotOf(t) == (t - 1) % LogSize

(* What slot s holds once c records were written; 0 is never used, 0xFF    *)
(* throughout.                                                             *)
Record(c, s) == IF c <= s THEN 0 ELSE c - ((c - 1 - s) % LogSize)

Page(c, p) == [j \in Slots |-> Record(c, p * RecCount + j)]

Unread == FetchedAt(clock, after, LogSize) \ Range(answer)

(* A record is written, over the oldest one when the log is full. *)
Produce ==
  /\ clock < MaxTime
  /\ clock' = clock + 1
  /\ overrun' = (\/ overrun
                 \/ /\ pc = "page" /\ clock >= LogSize
                    /\ OldestAt(clock) \in Unread)
  /\ UNCHANGED <<console, line, pc, after, nel, asked, whole, offset, tries,
                 answer, since>>

(* The console answers an acknowledgement, or a request to send again. *)
SendPage ==
  /\ console.phase = "sending"
  /\ line' = Page(clock, console.page)
  /\ console' = [console EXCEPT !.phase = "waiting"]
  /\ UNCHANGED <<clock, pc, after, nel, asked, whole, offset, tries, answer,
                 since, overrun>>

---------------------------------------------------------------------------
(* The calls *)

(* vantage_wakeup comes before every command: it discards what is on the   *)
(* line and sends LF until the console answers, which ends a dump that was *)
(* left half way. The room a caller gives is at most the size of the log.  *)
Wakeup ==
  /\ pc \in {"ready", "done", "failed"}
  /\ pc' = "command"
  /\ console' = Quiet /\ line' = NoPage
  /\ after' \in 0..MaxTime
  /\ asked' \in 1..LogSize
  /\ nel' = 0 /\ whole' = FALSE /\ offset' = 0 /\ tries' = 0 /\ answer' = <<>>
  /\ UNCHANGED <<clock, since, overrun>>

(* vantage_dmpaft: nothing after the given time. *)
NothingAfter ==
  /\ pc = "command"
  /\ after >= clock
  /\ pc' = "done"
  /\ since' = clock /\ overrun' = FALSE
  /\ UNCHANGED <<clock, console, line, after, nel, asked, whole, offset, tries,
                 answer>>

\* Slip: the records skipped in the first page are counted as well.
StartPagesUncut(page, n, skip, room) ==
  /\ pc' = "page"
  /\ console' = [phase |-> "sending", page |-> page, left |-> n]
  /\ offset' = skip
  /\ nel' = IF n * RecCount < room THEN n * RecCount ELSE room
  /\ since' = clock /\ overrun' = FALSE
  /\ UNCHANGED <<clock, line, tries, answer>>

StartPages(page, n, skip, room) ==
  /\ pc' = "page"
  /\ console' = [phase |-> "sending", page |-> page, left |-> n]
  /\ offset' = skip
  /\ nel' = IF n * RecCount - skip < room THEN n * RecCount - skip ELSE room
  /\ since' = clock /\ overrun' = FALSE
  /\ UNCHANGED <<clock, line, tries, answer>>

(* The pages run from that of the first record to that of the last. *)
DumpAfter ==
  /\ pc = "command"
  /\ after < clock
  /\ LET first == FirstAfter(clock, after)
         skip  == SlotOf(first) % RecCount
     IN  StartPages(SlotOf(first) \div RecCount,
                    (skip + clock - first) \div RecCount + 1, skip, asked)
  /\ UNCHANGED <<after, asked, whole>>

(* vantage_dmp, with room for the whole log. *)
DumpAll ==
  /\ pc = "command"
  /\ StartPages(0, Pages, 0, LogSize)
  /\ after' = 0 /\ asked' = LogSize /\ whole' = TRUE

\* Slip: the records of the previous turn are not told apart.
EndsUncycled(page, e) ==
  /\ \A j \in offset..(e - 1) : page[j] # 0
  /\ e < RecCount => page[e] = 0

\* Slip: a page is decoded to its end.
EndsLate(page, e) == e = RecCount

(* The slots from the offset on are taken up to slot e: the page ends      *)
(* there, or the slot was never used or holds a record of the last turn.   *)
Ends(page, e) ==
  /\ \A j \in offset..(e - 1) : page[j] > after
  /\ e < RecCount => page[e] = 0 \/ page[e] <= after

\* Slip: the dump is not ended.
EscapeForgotten ==
  /\ console' = [console EXCEPT !.phase = "sending"]
  /\ pc' = "done"

Escape ==
  /\ console' = Quiet
  /\ pc' = "done"

Acknowledge ==
  /\ console' = IF console.left = 1 THEN Quiet
                ELSE [phase |-> "sending", page |-> (console.page + 1) % Pages,
                      left |-> console.left - 1]
  /\ UNCHANGED pc

(* A page of dmp_read_pages. *)
ReadPage ==
  /\ pc = "page" /\ line # NoPage
  /\ \E e \in offset..RecCount :
       LET taken == IF e - offset < nel THEN e - offset ELSE nel
       IN  /\ Ends(line, e)
           /\ answer' = answer \o [i \in 1..taken |-> line[offset + i - 1]]
           /\ nel' = nel - taken
           /\ IF taken = nel \/ e < RecCount THEN Escape ELSE Acknowledge
  /\ line' = NoPage /\ offset' = 0 /\ tries' = 0
  /\ UNCHANGED <<clock, after, asked, whole, since, overrun>>

\* Slip: the attempts are not counted.
AskAgainForever ==
  /\ pc = "page" /\ line # NoPage
  /\ line' = NoPage
  /\ console' = [console EXCEPT !.phase = "sending"]
  /\ UNCHANGED <<clock, pc, after, nel, asked, whole, offset, tries, answer,
                 since, overrun>>

(* dmp_read_page: the CRC is wrong. After the third time the library asks  *)
(* for the page once more and gives up.                                    *)
AskAgain ==
  /\ pc = "page" /\ line # NoPage
  /\ line' = NoPage
  /\ console' = [console EXCEPT !.phase = "sending"]
  /\ tries' = tries + 1
  /\ pc' = IF tries' = MaxTries THEN "failed" ELSE "page"
  /\ UNCHANGED <<clock, after, nel, asked, whole, offset, answer, since,
                 overrun>>

(* A read times out or the line fails: no ESC is sent. The death of the    *)
(* process leaves the same behind.                                         *)
GiveUp ==
  /\ pc \in {"command", "page"}
  /\ pc' = "failed"
  /\ UNCHANGED <<clock, console, line, after, nel, asked, whole, offset, tries,
                 answer, since, overrun>>

Library == NothingAfter \/ DumpAfter \/ DumpAll \/ ReadPage \/ AskAgain \/ GiveUp

Next == Produce \/ SendPage \/ Wakeup \/ Library

(* The reads of the library time out, whatever the console does. *)
Spec == Init /\ [][Next]_vars /\ WF_vars(Library)

---------------------------------------------------------------------------
InOrder(s) == \A i, j \in DOMAIN s : i < j => s[i] < s[j]

(* A dump answers what its caller was promised: the n oldest records after *)
(* the given time, as the log was at some instant of the call, each once   *)
(* and, with DMPAFT, in the order of time; whatever the console writes     *)
(* meanwhile, wherever the log wraps, and whatever an earlier call left    *)
(* behind, unless a record was overwritten before it was read.             *)
AnswerIsArchive ==
  pc = "done" /\ ~overrun =>
    /\ \E c \in since..clock : Range(answer) = FetchedAt(c, after, asked)
    /\ Cardinality(Range(answer)) = Len(answer)
    /\ ~whole => InOrder(answer)

(* The library never waits for a page that the console is not to send: the *)
(* number of records it wants and the number of pages it was announced     *)
(* agree, however many records appear during the dump.                     *)
PageExpected == pc = "page" => console.phase = "sending" \/ line # NoPage

(* A call that succeeds leaves the console out of the dump and the line    *)
(* empty, so that the next command is understood.                          *)
QuietWhenDone == pc = "done" => console = Quiet /\ line = NoPage

(* However many pages arrive damaged, a call ends. *)
CallEnds == pc = "command" ~> pc \in {"done", "failed"}
===========================================================================
