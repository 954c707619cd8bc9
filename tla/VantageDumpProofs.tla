------------------------- MODULE VantageDumpProofs -------------------------
(* For every size of log and of page: the dump stays within the room of its *)
(* caller, never waits for a page that is not to come, leaves the console   *)
(* quiet when it succeeds, and answers, unless the console overran a page   *)
(* not read yet, with the records the log had at one instant of the call.   *)
EXTENDS VantageDump, SequenceTheorems, FiniteSetTheorems, TLAPS

(* The records wanted fit in the pages announced; a page is awaited exactly *)
(* when one is on the line or about to be.                                  *)
PagesAgree ==
  pc = "page" => /\ nel > 0
                 /\ nel + offset <= RecCount * console.left
                 /\ IF line = NoPage THEN console.phase = "sending"
                                     ELSE console.phase = "waiting"

(* Only a failed call leaves the console in a dump. *)
QuietOutside == pc \in {"ready", "command", "done"} => console = Quiet /\ line = NoPage

(* A call starts afresh, and stops at the last attempt. *)
TriesLeft == /\ pc = "command" => answer = <<>>
             /\ pc \in {"command", "page"} => tries < MaxTries

Inv == TypeOK /\ PagesAgree /\ QuietOutside /\ TriesLeft

---------------------------------------------------------------------------
LEMMA Remainder == \A a \in Nat, b \in Nat \ {0} : a % b \in 0..(b - 1)
  OBVIOUS

LEMMA FunctionIsSeq ==
  ASSUME NEW S, NEW n \in Nat, NEW f \in [1..n -> S]
  PROVE  f \in Seq(S)
  BY SeqDef

LEMMA PositiveProduct == \A r \in Nat \ {0}, k \in Int : r * k > 0 => k > 0
  OBVIOUS

LEMMA PagesPositive == Pages \in Nat \ {0} /\ RecCount * Pages = LogSize
  BY RecCountAssumption, LogSizeAssumption DEF Pages

(* The sizes, without the products that slow the provers down. *)
LEMMA Sizes == /\ MaxTime \in Nat /\ RecCount \in Nat \ {0}
               /\ LogSize \in Nat \ {0} /\ Pages \in Nat \ {0}
  BY PagesPositive, RecCountAssumption, LogSizeAssumption

LEMMA RecordType == \A c \in 0..MaxTime, s \in Nat : Record(c, s) \in 0..MaxTime
  <1> TAKE c \in 0..MaxTime, s \in Nat
  <1>1. CASE c <= s
    BY <1>1, RecCountAssumption DEF Record
  <1>2. CASE c > s
    <2>1. (c - 1 - s) % LogSize \in 0..(c - 1 - s)
      BY <1>2, RecCountAssumption, LogSizeAssumption
    <2> QED  BY <2>1, <1>2, RecCountAssumption DEF Record
  <1> QED  BY <1>1, <1>2, RecCountAssumption

LEMMA PageOK == \A c \in 0..MaxTime, p \in 0..(Pages - 1) : Page(c, p) \in PageType
  <1> TAKE c \in 0..MaxTime, p \in 0..(Pages - 1)
  <1>1. \A j \in Slots : p * RecCount + j \in Nat
    BY PagesPositive, RecCountAssumption DEF Slots
  <1> QED  BY <1>1, RecordType DEF Page, PageType

LEMMA FirstType ==
  ASSUME NEW c \in 0..MaxTime, NEW a \in 0..MaxTime, a < c
  PROVE  FirstAfter(c, a) \in 1..c /\ c - FirstAfter(c, a) \in 0..(LogSize - 1)
  BY LogSizeAssumption, RecCountAssumption DEF FirstAfter, OldestAt

(* The page of a record, and the slot in that page. *)
LEMMA SlotPage ==
  ASSUME NEW t \in Nat \ {0}
  PROVE  SlotOf(t) \div RecCount \in 0..(Pages - 1) /\ SlotOf(t) % RecCount \in Slots
  <1>1. SlotOf(t) \in 0..(LogSize - 1)
    BY LogSizeAssumption DEF SlotOf
  <1>2. SlotOf(t) < RecCount * Pages
    BY <1>1, PagesPositive, LogSizeAssumption
  <1> QED  BY <1>1, <1>2, PagesPositive, RecCountAssumption DEF Slots

(* The pages from a record of the log to the newest one. *)
LEMMA PagesToSend ==
  ASSUME NEW skip \in Slots, NEW d \in 0..(LogSize - 1)
  PROVE  LET n == (skip + d) \div RecCount + 1
         IN  n \in 1..(Pages + 1) /\ n * RecCount - skip \in Nat \ {0}
  <1>1. skip + d < RecCount * (Pages + 1)
    <2>1. RecCount * (Pages + 1) = LogSize + RecCount
      BY PagesPositive, RecCountAssumption
    <2> QED  BY <2>1, RecCountAssumption, LogSizeAssumption DEF Slots
  <1>2. (skip + d) \div RecCount \in Nat /\ (skip + d) \div RecCount < Pages + 1
    BY <1>1, RecCountAssumption, LogSizeAssumption, PagesPositive DEF Slots
  <1>3. RecCount * ((skip + d) \div RecCount + 1) > skip + d
    BY RecCountAssumption, LogSizeAssumption DEF Slots
  <1> QED  BY <1>2, <1>3, RecCountAssumption, LogSizeAssumption, PagesPositive DEF Slots

---------------------------------------------------------------------------
LEMMA InitInv == Init => Inv
  <1> SUFFICES ASSUME Init PROVE Inv
    OBVIOUS
  <1>1. answer \in Seq(1..MaxTime) /\ Len(answer) = 0
    BY EmptySeq DEF Init
  <1>2. console \in [phase : {"idle", "sending", "waiting"},
                     page : 0..(Pages - 1), left : 0..(Pages + 1)]
    BY PagesPositive DEF Init, Quiet
  <1>3. /\ clock \in 0..MaxTime /\ after \in 0..MaxTime /\ since \in 0..MaxTime
        /\ nel \in 0..LogSize /\ asked \in 1..LogSize /\ tries \in 0..MaxTries
        /\ Len(answer) + nel <= asked /\ offset \in Slots
    BY <1>1, RecCountAssumption, LogSizeAssumption DEF Init, MaxTries, Slots
  <1> QED
    BY <1>1, <1>2, <1>3
    DEF Init, Inv, TypeOK, PagesAgree, QuietOutside, TriesLeft, MaxTries

(* A call that starts to read pages wants no more records than they hold.  *)
LEMMA StartPagesInv ==
  ASSUME Inv, pc = "command",
         NEW page \in 0..(Pages - 1), NEW n \in 1..(Pages + 1), NEW skip \in Slots,
         NEW room \in 1..LogSize, n * RecCount - skip \in Nat \ {0},
         asked' = room, after' \in 0..MaxTime, whole' \in BOOLEAN,
         StartPages(page, n, skip, room)
  PROVE  Inv'
  <1>1. nel' \in 1..room /\ nel' <= n * RecCount - skip
    BY LogSizeAssumption DEF StartPages
  <1>2. n * RecCount = RecCount * n
    BY PagesPositive, RecCountAssumption
  <1>3. TypeOK'
    <2>1. answer' \in Seq(1..MaxTime) /\ Len(answer') = 0
      BY EmptySeq DEF StartPages, Inv, TriesLeft
    <2>2. console' \in [phase : {"idle", "sending", "waiting"},
                        page : 0..(Pages - 1), left : 0..(Pages + 1)]
      BY PagesPositive DEF StartPages
    <2>3. nel' \in 0..LogSize /\ asked' \in 1..LogSize /\ Len(answer') + nel' <= asked'
      <3>1. PICK wanted \in 1..room : nel' = wanted
        BY <1>1
      <3> QED  BY <2>1, <3>1, LogSizeAssumption
    <2> QED  BY <2>1, <2>2, <2>3 DEF StartPages, Inv, TypeOK
  <1>4. PagesAgree'
    BY <1>1, <1>2, PagesPositive, RecCountAssumption
    DEF StartPages, Inv, QuietOutside, PagesAgree, Slots
  <1> QED  BY <1>3, <1>4 DEF StartPages, Inv, QuietOutside, TriesLeft

---------------------------------------------------------------------------
(* What a page adds to the answer is within its room. *)
LEMMA ReadPageInv == Inv /\ ReadPage => Inv'
  <1> SUFFICES ASSUME Inv, pc = "page", line # NoPage,
                      NEW e \in offset..RecCount,
                      NEW taken,
                      taken = IF e - offset < nel THEN e - offset ELSE nel,
                      answer' = answer \o [i \in 1..taken |-> line[offset + i - 1]],
                      nel' = nel - taken,
                      IF taken = nel \/ e < RecCount THEN Escape ELSE Acknowledge,
                      Ends(line, e),
                      line' = NoPage, offset' = 0, tries' = 0,
                      UNCHANGED <<clock, after, asked, whole, since, overrun>>
               PROVE  Inv'
    BY DEF ReadPage
  <1> USE Sizes
  <1>0. offset \in 0..RecCount /\ nel \in 0..LogSize /\ e - offset \in Nat
    BY DEF Inv, TypeOK, Slots
  <1>1. taken \in 0..nel /\ taken \in Nat /\ taken <= e - offset
    BY <1>0
  <1>2. \A i \in 1..taken : line[offset + i - 1] \in 1..MaxTime
    <2>1. SUFFICES ASSUME NEW i \in 1..taken
                   PROVE  line[offset + i - 1] \in 1..MaxTime
      OBVIOUS
    <2>2. offset + i - 1 \in offset..(e - 1) /\ offset + i - 1 \in Slots
      BY <1>1 DEF Inv, TypeOK, Slots
    <2>3. line[offset + i - 1] \in 0..MaxTime
      BY <2>2 DEF Inv, TypeOK, PageType
    <2>4. line[offset + i - 1] > after /\ after \in 0..MaxTime
      BY <2>2 DEF Ends, Inv, TypeOK
    <2> QED  BY <2>3, <2>4
  <1>3. answer' \in Seq(1..MaxTime) /\ Len(answer') = Len(answer) + taken
    <2> DEFINE new == [i \in 1..taken |-> line[offset + i - 1]]
    <2>0. answer' = answer \o new
      OBVIOUS
    <2>1. new \in Seq(1..MaxTime)
      <3>1. new \in [1..taken -> 1..MaxTime]
        BY <1>2
      <3> HIDE DEF new
      <3> QED  BY <3>1, <1>1, FunctionIsSeq
    <2>3. Len(new) = taken
      <3>1. DOMAIN new = 1..taken
        OBVIOUS
      <3>2. Len(new) \in Nat /\ DOMAIN new = 1..Len(new)
        BY <2>1, LenProperties
      <3> HIDE DEF new
      <3> QED  BY <3>1, <3>2, <1>1
    <2>2. answer \in Seq(1..MaxTime)
      BY DEF Inv, TypeOK
    <2> HIDE DEF new
    <2>4. answer \o new \in Seq(1..MaxTime) /\ Len(answer \o new) = Len(answer) + Len(new)
      BY <2>1, <2>2, ConcatProperties
    <2> QED  BY <2>0, <2>3, <2>4
  <1>4. nel' \in 0..LogSize /\ Len(answer') + nel' <= asked
    <2>1. Len(answer) \in Nat /\ Len(answer) + nel <= asked /\ asked \in 1..LogSize
      BY LenProperties DEF Inv, TypeOK
    <2> QED  BY <1>0, <1>1, <1>3, <2>1
  <1>5. CASE taken = nel \/ e < RecCount
    <2>1. console' = Quiet /\ pc' = "done"
      BY <1>5 DEF Escape
    <2>2. Quiet \in [phase : {"idle", "sending", "waiting"},
                     page : 0..(Pages - 1), left : 0..(Pages + 1)]
      BY PagesPositive DEF Quiet
    <2>3. TypeOK'
      BY <1>3, <1>4, <2>1, <2>2 DEF Inv, TypeOK, Slots, MaxTries
    <2> QED  BY <2>1, <2>3 DEF Inv, PagesAgree, QuietOutside, TriesLeft
  <1>6. CASE ~(taken = nel \/ e < RecCount)
    <2>1. taken = RecCount - offset /\ nel > RecCount - offset
      BY <1>1, <1>6 DEF Inv, TypeOK, Slots
    <2>2. nel' > 0 /\ nel' <= RecCount * console.left - RecCount
      BY <1>1, <2>1, SMTT(30) DEF Inv, TypeOK, PagesAgree, Slots
    <2>3. console.left \in 0..(Pages + 1)
      BY DEF Inv, TypeOK
    <2>4. RecCount * console.left - RecCount = RecCount * (console.left - 1)
      BY <2>3
    <2>5. console.left > 1
      <3>1. RecCount * (console.left - 1) > 0
        BY <2>2, <2>3, <2>4, <1>4, SMTT(30)
      <3> QED  BY <3>1, <2>3, PositiveProduct, PagesPositive
    <2>6. console' = [phase |-> "sending", page |-> (console.page + 1) % Pages,
                      left |-> console.left - 1]
      BY <1>6, <2>5 DEF Acknowledge
    <2>7. (console.page + 1) % Pages \in 0..(Pages - 1)
      <3>1. console.page + 1 \in Nat
        BY PagesPositive, SMTT(30) DEF Inv, TypeOK
      <3> QED  BY <3>1, PagesPositive, Remainder
    <2>8. TypeOK'
      <3>1. console' \in [phase : {"idle", "sending", "waiting"},
                          page : 0..(Pages - 1), left : 0..(Pages + 1)]
        BY <2>3, <2>5, <2>6, <2>7, PagesPositive, SMTT(30)
      <3>2. pc' = pc
        BY <1>6 DEF Acknowledge
      <3> QED  BY <1>3, <1>4, <3>1, <3>2 DEF Inv, TypeOK, Slots, MaxTries
    <2>9. PagesAgree'
      BY <1>4, <2>2, <2>4, <2>6 DEF PagesAgree
    <2> QED
      BY <1>6, <2>8, <2>9 DEF Acknowledge, Inv, QuietOutside, TriesLeft, MaxTries
  <1> QED  BY <1>5, <1>6

LEMMA StepInv == Inv /\ [Next]_vars => Inv'
  <1> SUFFICES ASSUME Inv, [Next]_vars PROVE Inv'
    OBVIOUS
  <1> USE Sizes
  <1>1. CASE Produce
    BY <1>1 DEF Produce, Inv, TypeOK, PagesAgree, QuietOutside, TriesLeft
  <1>2. CASE SendPage
    <2>1. Page(clock, console.page) \in PageType
      BY PageOK DEF Inv, TypeOK
    <2>2. Page(clock, console.page) # NoPage
      BY <2>1, NoPageAssumption DEF PageType, Slots
    <2>3. console' = [console EXCEPT !.phase = "waiting"] /\ console.phase = "sending"
      BY <1>2 DEF SendPage
    <2>4. TypeOK'
      BY <1>2, <2>1, <2>3 DEF SendPage, Inv, TypeOK
    <2>5. pc \in {"page", "failed"}
      BY <2>3 DEF Inv, TypeOK, QuietOutside, Quiet
    <2> QED
      BY <1>2, <2>2, <2>3, <2>4, <2>5
      DEF SendPage, Inv, TypeOK, PagesAgree, QuietOutside, TriesLeft
  <1>3. CASE Wakeup
    <2>1. answer' \in Seq(1..MaxTime) /\ Len(answer') = 0
      BY <1>3, EmptySeq DEF Wakeup
    <2>2. console' \in [phase : {"idle", "sending", "waiting"},
                        page : 0..(Pages - 1), left : 0..(Pages + 1)]
      BY <1>3 DEF Wakeup, Quiet
    <2>3. /\ nel' \in 0..LogSize /\ asked' \in 1..LogSize /\ offset' \in Slots
          /\ tries' \in 0..MaxTries /\ Len(answer') + nel' <= asked'
      BY <1>3, <2>1 DEF Wakeup, Slots, MaxTries
    <2>4. TypeOK'
      BY <1>3, <2>1, <2>2, <2>3 DEF Wakeup, Inv, TypeOK
    <2> QED
      BY <1>3, <2>4 DEF Wakeup, Inv, PagesAgree, QuietOutside, TriesLeft, MaxTries
  <1>4. CASE NothingAfter
    BY <1>4 DEF NothingAfter, Inv, TypeOK, PagesAgree, QuietOutside, TriesLeft
  <1>5. CASE DumpAfter
    <2> DEFINE first == FirstAfter(clock, after)
               skip  == SlotOf(first) % RecCount
    <2>0. clock \in 0..MaxTime /\ after \in 0..MaxTime /\ after < clock
      BY <1>5 DEF DumpAfter, Inv, TypeOK
    <2>1. first \in Nat \ {0} /\ clock - first \in 0..(LogSize - 1)
      <3>1. first \in 1..clock /\ clock - first \in 0..(LogSize - 1)
        BY <2>0, FirstType
      <3> HIDE DEF first
      <3> QED  BY <2>0, <3>1
    <2>2. SlotOf(first) \div RecCount \in 0..(Pages - 1) /\ skip \in Slots
      BY <2>1, SlotPage
    <2> HIDE DEF skip, first
    <2> DEFINE n == (skip + (clock - first)) \div RecCount + 1
    <2>3. n \in 1..(Pages + 1) /\ n * RecCount - skip \in Nat \ {0}
      BY <2>1, <2>2, PagesToSend
    <2>4. skip + clock - first = skip + (clock - first)
      BY <2>1, <2>2 DEF Slots, Inv, TypeOK
    <2>5. StartPages(SlotOf(first) \div RecCount, n, skip, asked)
      BY <1>5, <2>4 DEF DumpAfter, first, skip
    <2> HIDE DEF n
    <2>6. /\ asked \in 1..LogSize /\ asked' = asked
          /\ after' \in 0..MaxTime /\ whole' \in BOOLEAN /\ pc = "command"
      BY <1>5 DEF DumpAfter, Inv, TypeOK
    <2> QED  BY <2>2, <2>3, <2>5, <2>6, StartPagesInv
  <1>6. CASE DumpAll
    <2>1. Pages * RecCount - 0 = LogSize /\ 0 \in Slots
      BY PagesPositive DEF Slots
    <2>2. StartPages(0, Pages, 0, LogSize) /\ pc = "command"
      BY <1>6 DEF DumpAll
    <2>3. asked' = LogSize /\ after' \in 0..MaxTime /\ whole' \in BOOLEAN
      BY <1>6 DEF DumpAll
    <2>4. 0 \in 0..(Pages - 1) /\ Pages \in 1..(Pages + 1) /\ LogSize \in 1..LogSize
      OBVIOUS
    <2>5. Pages * RecCount - 0 \in Nat \ {0}
      BY <2>1
    <2> QED  BY <2>1, <2>2, <2>3, <2>4, <2>5, StartPagesInv
  <1>7. CASE ReadPage
    BY <1>7, ReadPageInv
  <1>8. CASE AskAgain
    <2>1. console' = [console EXCEPT !.phase = "sending"]
      BY <1>8 DEF AskAgain
    <2>2. tries' \in 0..MaxTries
      BY <1>8, SMTT(30) DEF AskAgain, Inv, TypeOK, TriesLeft, MaxTries
    <2>3. TypeOK'
      BY <1>8, <2>1, <2>2 DEF AskAgain, Inv, TypeOK
    <2>4. console'.left = console.left /\ console'.phase = "sending"
      BY <2>1 DEF Inv, TypeOK
    <2>5. tries' # MaxTries => tries' < MaxTries
      BY <2>2 DEF MaxTries
    <2> QED
      BY <1>8, <2>3, <2>4, <2>5 DEF AskAgain, Inv, PagesAgree, QuietOutside, TriesLeft
  <1>9. CASE GiveUp
    BY <1>9 DEF GiveUp, Inv, TypeOK, PagesAgree, QuietOutside, TriesLeft
  <1>10. CASE UNCHANGED vars
    BY <1>10 DEF vars, Inv, TypeOK, PagesAgree, QuietOutside, TriesLeft
  <1> QED
    BY <1>1, <1>2, <1>3, <1>4, <1>5, <1>6, <1>7, <1>8, <1>9, <1>10 DEF Next, Library

LEMMA SpecInv == Spec => []Inv
  BY InitInv, StepInv, PTL DEF Spec

---------------------------------------------------------------------------
(* The answer never exceeds the room the caller gave, among the other      *)
(* facts of the type invariant (src/libws/vantage/download.c, nel).        *)
THEOREM DumpTypeOK == Spec => []TypeOK
  BY SpecInv, PTL DEF Inv

(* dmp_read_pages never waits for a page the console is not to send. *)
THEOREM DumpPageExpected == Spec => []PageExpected
  <1>1. Inv => PageExpected
    BY DEF Inv, PagesAgree, PageExpected
  <1> QED  BY <1>1, SpecInv, PTL

(* A successful dump leaves the console quiet and the line empty. *)
THEOREM DumpQuietWhenDone == Spec => []QuietWhenDone
  <1>1. Inv => QuietWhenDone
    BY DEF Inv, QuietOutside, QuietWhenDone
  <1> QED  BY <1>1, SpecInv, PTL

---------------------------------------------------------------------------
(* The answer *)

(* The first record the call asks for, and the one due next.               *)
FirstWanted == FirstAfter(since, after)
Due == FirstWanted + Len(answer)

(* vantage_dmp of a full log: its slots hold a newer and an older turn.    *)
Turned == whole /\ since >= LogSize

(* The page on its way shows the log as it was when it was sent.           *)
Sent(c) == line = Page(c, console.page)

(* Otherwise the records are taken in order, and the next page begins with *)
(* the one due, which is in the log or to be written next.                 *)
InTurn ==
  /\ \A i \in DOMAIN answer : answer[i] = FirstWanted + i - 1
  /\ Due <= clock + 1 /\ OldestAt(clock) <= Due
  /\ \E z \in Int : Due - 1 = LogSize * z + console.page * RecCount + offset
  /\ line # NoPage => \E c \in since..clock : Sent(c) /\ Due <= c + 1
  /\ Len(answer) + nel = asked \/ Due + nel > since

(* A slot not read yet still holds what it held when the call began.       *)
Kept(s) == clock < Record(since, s) + LogSize

TurnedRight ==
  /\ \A i \in DOMAIN answer : answer[i] = Record(since, i - 1)
  /\ after = 0 /\ asked = LogSize /\ offset = 0
  /\ Len(answer) = console.page * RecCount /\ Len(answer) + nel = LogSize
  /\ \A s \in Len(answer)..LogSize - 1 : Kept(s)
  /\ line # NoPage => \E c \in since..clock : Sent(c)

Answered ==
  /\ \E c \in since..clock : Range(answer) = FetchedAt(c, after, asked)
  /\ Cardinality(Range(answer)) = Len(answer)
  /\ ~whole => InOrder(answer)

AnswerInv ==
  /\ pc = "command" => ~whole
  /\ pc = "page" => since <= clock
  /\ pc = "page" /\ ~overrun => IF Turned THEN TurnedRight ELSE InTurn
  /\ pc = "done" /\ ~overrun => Answered

(* Division with remainder. *)
LEMMA DivMod ==
  ASSUME NEW a \in Int, NEW h \in Int, h > 0
  PROVE  \E z \in Int, w \in 0..h - 1 : a % h = w /\ a = h * z + w
  <1>1. a % h \in 0..h - 1
    OBVIOUS
  <1>2. a \div h \in Int /\ a = h * (a \div h) + (a % h)
    BY SMT
  <1> QED  BY <1>1, <1>2

(* A multiple of h closer to 0 than h is 0. *)
LEMMA SameResidue ==
  ASSUME NEW h \in Int, h > 0, NEW y \in Int, NEW z \in Int,
         h * (y - z) < h, 0 - h < h * (y - z)
  PROVE  y = z
  <1>1. \A w \in Int : h * w < h /\ 0 - h < h * w => w = 0
    OBVIOUS
  <1>2. y - z = 0
    BY <1>1
  <1> QED  BY <1>2

(* The turns that have gone before a record, and its slot.                 *)
LEMMA TurnsAre ==
  ASSUME NEW h \in Int, h > 0, NEW y \in Int, NEW z \in Int,
         NEW s \in 0..h - 1, NEW w \in 0..h - 1, h * y + s = h * z + w
  PROVE  y = z /\ s = w
  <1>1. PICK d \in Int : d = y - z
    OBVIOUS
  <1>2. h * (y - z) = w - s
    BY <1>1
  <1>3. h * (y - z) < h /\ 0 - h < h * (y - z)
    BY <1>2
  <1>4. y = z
    BY <1>3, SameResidue
  <1> QED  BY <1>2, <1>4

(* The size of the log, without its product. *)
LEMMA LogType == LogSize \in Int /\ LogSize > 0
  BY LogSizeAssumption

(* A slot holds the last record written there.                             *)
LEMMA RecordIs ==
  ASSUME NEW s \in 0..LogSize - 1, NEW z \in Int, NEW t \in Nat \ {0},
         t - 1 = LogSize * z + s, NEW c \in Nat, t <= c, c < t + LogSize
  PROVE  Record(c, s) = t
  <1>1. PICK h \in Int : h = LogSize /\ h > 0
    BY LogType
  <1>2. z >= 0
    <2>1. h * z > 0 - h
      BY <1>1
    <2>2. \A w \in Int : h * w > 0 - h => w >= 0
      BY <1>1
    <2> QED  BY <2>1, <2>2
  <1>3. h * z >= 0
    BY <1>1, <1>2
  <1>4. c > s
    BY <1>1, <1>3
  <1>5. PICK y \in Int, w \in 0..h - 1 : (c - 1 - s) % h = w /\ c - 1 - s = h * y + w
    <2>1. c - 1 - s \in Int
      BY <1>1
    <2> QED  BY <1>1, <2>1, DivMod, Zenon
  <1>6. PICK d \in 0..h - 1 : d = c - t
    BY <1>1
  <1>7. w = c - t
    <2>1. h * y + w = h * z + d
      BY <1>1, <1>5, <1>6
    <2>2. h > 0
      BY <1>1
    <2>3. z = y /\ d = w
      BY <2>1, <2>2, TurnsAre
    <2> QED  BY <1>6, <2>3
  <1>8. Record(c, s) = c - w
    BY <1>1, <1>4, <1>5 DEF Record
  <1> QED  BY <1>7, <1>8

(* The record a slot holds, and the turn it was written in. *)
LEMMA RecordOf ==
  ASSUME NEW s \in 0..LogSize - 1, NEW c \in Nat, s < c
  PROVE  \E t \in Nat \ {0}, z \in Int :
           /\ Record(c, s) = t /\ t - 1 = LogSize * z + s
           /\ t <= c /\ c < t + LogSize
  <1>1. PICK h \in Int : h = LogSize /\ h > 0
    BY LogType
  <1>2. PICK y \in Int, w \in 0..h - 1 : (c - 1 - s) % h = w /\ c - 1 - s = h * y + w
    <2>1. c - 1 - s \in Int
      BY <1>1
    <2> QED  BY <1>1, <2>1, DivMod, Zenon
  <1>3. y >= 0
    <2>1. h * y > 0 - h
      BY <1>1, <1>2
    <2>2. \A x \in Int : h * x > 0 - h => x >= 0
      BY <1>1
    <2> QED  BY <2>1, <2>2
  <1>4. h * y >= 0
    BY <1>1, <1>3
  <1>5. PICK t \in Nat \ {0} : t = c - w /\ t - 1 = h * y + s
    BY <1>1, <1>2, <1>4
  <1>6. Record(c, s) = t
    BY <1>1, <1>2, <1>5 DEF Record
  <1>7. t - 1 = LogSize * y + s /\ t <= c /\ c < t + LogSize
    BY <1>1, <1>2, <1>5
  <1> QED  BY <1>6, <1>7, Zenon

(* The slots of a page are slots of the log.                               *)
LEMMA PageSlot ==
  ASSUME NEW page \in 0..(Pages - 1), NEW j \in Slots
  PROVE  page * RecCount + j \in 0..LogSize - 1
  <1>1. PICK n \in Int, rec \in Int : n = Pages /\ rec = RecCount /\ n > 0 /\ rec > 0 /\ rec * n = LogSize
    BY PagesPositive, Sizes
  <1>2. page * rec <= (n - 1) * rec /\ page * rec >= 0
    BY <1>1
  <1>3. (n - 1) * rec = LogSize - rec
    BY <1>1
  <1> QED  BY <1>1, <1>2, <1>3, LogType DEF Slots

(* The oldest record of a log, in numbers. *)
LEMMA OldestIs ==
  ASSUME NEW c \in Nat
  PROVE  \E o \in Nat \ {0} : /\ o = OldestAt(c)
                              /\ c >= LogSize => o = c - LogSize + 1
                              /\ c <= LogSize => o = 1
                              /\ c < o + LogSize /\ o <= c + 1
  <1>1. PICK h \in Nat \ {0} : h = LogSize
    BY LogSizeAssumption
  <1>2. CASE c > h
    <2>1. OldestAt(c) = c - h + 1
      BY <1>1, <1>2 DEF OldestAt
    <2> QED  BY <1>1, <1>2, <2>1
  <1>3. CASE ~(c > h)
    <2>1. OldestAt(c) = 1
      BY <1>1, <1>3 DEF OldestAt
    <2> QED  BY <1>1, <1>3, <2>1
  <1> QED  BY <1>2, <1>3

(* The first record wanted is in the log or to be written next. *)
LEMMA WantedIs ==
  ASSUME NEW c \in Nat, NEW a \in Nat
  PROVE  \E f \in Nat \ {0} : /\ f = FirstAfter(c, a) /\ a < f /\ OldestAt(c) <= f
                              /\ f = OldestAt(c) \/ f = a + 1
  <1>1. PICK o \in Nat \ {0} : o = OldestAt(c)
    BY OldestIs
  <1>2. PICK f \in Nat \ {0} : f = IF a < o THEN o ELSE a + 1
    BY <1>1
  <1> QED  BY <1>1, <1>2 DEF FirstAfter

(* What a page shows from the slot of record n on, which is not overwritten: *)
(* record after record, up to the newest, then an older turn or nothing.   *)
LEMMA PageShows ==
  ASSUME NEW c \in Nat, NEW page \in 0..(Pages - 1), NEW off \in Slots, NEW n \in Nat \ {0},
         NEW z \in Int, n - 1 = LogSize * z + page * RecCount + off,
         OldestAt(c) <= n, NEW j \in Slots, off <= j
  PROVE  /\ n + j - off <= c => Page(c, page)[j] = n + j - off
         /\ n + j - off = c + 1 => Page(c, page)[j] = IF c < LogSize THEN 0 ELSE c - LogSize + 1
  <1>1. PICK h \in Int : h = LogSize /\ h > 0
    BY LogType
  <1>2. PICK rec \in Int : rec = RecCount /\ rec > 0
    BY Sizes
  <1>3. PICK s \in 0..h - 1 : s = page * rec + j
    BY <1>1, <1>2, PageSlot
  <1>4. PICK t \in Nat \ {0} : t = n + j - off
    BY <1>2 DEF Slots
  <1>5. t - 1 = h * z + s
    <2>1. PICK x \in Int : x = page * rec
      BY <1>2
    <2>2. n - 1 = h * z + x + off
      BY <1>1, <1>2, <2>1
    <2>3. PICK y \in Int : y = h * z
      BY <1>1
    <2>4. off \in Int /\ j \in Int
      BY <1>2 DEF Slots
    <2> QED  BY <1>3, <1>4, <2>1, <2>2, <2>3, <2>4
  <1>6. Page(c, page)[j] = Record(c, s)
    BY <1>2, <1>3 DEF Page
  <1>7. n <= t
    BY <1>2, <1>4 DEF Slots
  <1>8. PICK o \in Nat \ {0} : o = OldestAt(c) /\ c < o + h
    BY <1>1, OldestIs
  <1>9. ASSUME t <= c
        PROVE  Record(c, s) = t
    <2>1. c < t + h
      BY <1>7, <1>8
    <2> QED  BY <1>1, <1>3, <1>5, <1>9, <2>1, RecordIs
  <1>10. ASSUME t = c + 1, c < h
         PROVE  Record(c, s) = 0
    <2>1. h * z + s = h * 0 + c /\ c \in 0..h - 1
      BY <1>5, <1>10
    <2>2. s = c
      BY <1>1, <2>1, TurnsAre
    <2> QED  BY <2>2 DEF Record
  <1>11. ASSUME t = c + 1, ~(c < h)
         PROVE  Record(c, s) = c - h + 1
    <2>1. PICK u \in Nat \ {0} : u = c - h + 1 /\ u <= c /\ c < u + h
      BY <1>1, <1>11
    <2>2. u - 1 = h * (z - 1) + s /\ z - 1 \in Int
      <3>1. h * (z - 1) = h * z - h
        BY <1>1
      <3> QED  BY <1>1, <1>5, <1>11, <2>1, <3>1
    <2> QED  BY <1>1, <1>3, <2>1, <2>2, RecordIs
  <1> QED  BY <1>1, <1>4, <1>6, <1>9, <1>10, <1>11

---------------------------------------------------------------------------
(* The records of a call that are read in turn are an interval.            *)
LEMMA RunIs ==
  ASSUME NEW ans \in Seq(Int), NEW f \in Nat \ {0}, \A i \in DOMAIN ans : ans[i] = f + i - 1
  PROVE  /\ Range(ans) = f..f + Len(ans) - 1
         /\ Cardinality(Range(ans)) = Len(ans) /\ InOrder(ans)
  <1>1. PICK n \in Nat : n = Len(ans) /\ DOMAIN ans = 1..n
    BY LenProperties
  <1>2. Range(ans) = f..f + n - 1
    <2>1. ASSUME NEW t \in f..f + n - 1
          PROVE  t \in Range(ans)
      <3>1. t - f + 1 \in DOMAIN ans /\ f + (t - f + 1) - 1 = t
        BY <1>1
      <3> QED  BY <3>1 DEF Range
    <2>2. ASSUME NEW i \in DOMAIN ans
          PROVE  ans[i] \in f..f + n - 1
      BY <1>1
    <2> QED  BY <2>1, <2>2 DEF Range
  <1>3. Cardinality(f..f + n - 1) = n
    <2>1. f \in Int /\ f + n - 1 \in Int
      BY <1>1
    <2>2. Cardinality(f..f + n - 1) = IF f > f + n - 1 THEN 0 ELSE f + n - 1 - f + 1
      BY <2>1, FS_Interval
    <2> QED  BY <1>1, <2>2
  <1>4. InOrder(ans)
    BY <1>1 DEF InOrder
  <1> QED  BY <1>1, <1>2, <1>3, <1>4

(* A record stays in the log as long as the log has not turned since. *)
LEMMA OldestStays ==
  ASSUME NEW s \in Nat, NEW c \in Nat, NEW f \in Nat \ {0}, OldestAt(s) <= f,
         c = s \/ c < f + LogSize
  PROVE  OldestAt(c) <= f
  <1>1. PICK o \in Nat \ {0} : o = OldestAt(c) /\ (c >= LogSize => o = c - LogSize + 1) /\ (c <= LogSize => o = 1)
    BY OldestIs
  <1> QED  BY <1>1, LogType

(* The console promises the same first record as long as it has it.        *)
LEMMA FirstStays ==
  ASSUME NEW s \in Nat, NEW a \in Nat, NEW c \in Nat, s <= c,
         NEW f \in Nat \ {0}, f = FirstAfter(s, a), OldestAt(c) <= f
  PROVE  FirstAfter(c, a) = f
  <1>1. PICK o \in Nat \ {0} : o = OldestAt(s) /\ (s > LogSize => o = s - LogSize + 1) /\ (s <= LogSize => o = 1)
    BY OldestIs, LogType
  <1>2. PICK u \in Nat \ {0} : u = OldestAt(c) /\ (c > LogSize => u = c - LogSize + 1) /\ (c <= LogSize => u = 1)
    BY OldestIs, LogType
  <1>3. o <= u
    BY <1>1, <1>2, LogType
  <1>4. f = IF a < o THEN o ELSE a + 1
    BY <1>1 DEF FirstAfter
  <1>5. FirstAfter(c, a) = IF a < u THEN u ELSE a + 1
    BY <1>2 DEF FirstAfter
  <1>6. u <= f
    BY <1>2
  <1> QED  BY <1>3, <1>4, <1>5, <1>6

(* The records read in turn are the oldest ones wanted: those asked for, or *)
(* all that there were at some instant.                                    *)
LEMMA RunAnswers ==
  ASSUME NEW s \in Nat, NEW a \in Nat, NEW now \in Nat, s <= now,
         NEW f \in Nat \ {0}, f = FirstAfter(s, a), NEW ans \in Seq(Int),
         \A i \in DOMAIN ans : ans[i] = f + i - 1,
         NEW n \in 1..LogSize, Len(ans) <= n, f + Len(ans) <= now + 1,
         Len(ans) = n \/ f + Len(ans) > s
  PROVE  /\ \E c \in s..now : Range(ans) = FetchedAt(c, a, n)
         /\ Cardinality(Range(ans)) = Len(ans) /\ InOrder(ans)
  <1>1. PICK l \in Nat : l = Len(ans)
    BY LenProperties
  <1>2. PICK last \in Int : last = f + l - 1
    OBVIOUS
  <1>3. Range(ans) = f..last /\ Cardinality(Range(ans)) = Len(ans) /\ InOrder(ans)
    BY <1>1, <1>2, RunIs
  <1>4. PICK c \in s..now : c = IF last > s THEN last ELSE s
    BY <1>1, <1>2
  <1>5. c \in Nat /\ s <= c /\ last <= c
    BY <1>4
  <1>6. OldestAt(c) <= f
    <2>1. OldestAt(s) <= f
      BY WantedIs
    <2>2. l <= LogSize
      BY <1>1, LogType
    <2>3. c = s \/ c < f + LogSize
      BY <1>2, <1>4, <2>2, LogType
    <2> QED  BY <1>5, <2>1, <2>3, OldestStays, Zenon
  <1>7. FetchedAt(c, a, n) = {t \in f..c : t < f + n}
    <2>1. FirstAfter(c, a) = f
      BY <1>5, <1>6, FirstStays
    <2> QED  BY <2>1 DEF FetchedAt
  <1>8. {t \in f..c : t < f + n} = f..last
    <2>1. l <= n /\ (l = n \/ f + l > s) /\ n \in Nat
      BY <1>1
    <2>2. \A t \in Int : t <= last => t < f + n
      BY <1>2, <2>1
    <2>3. \A t \in Int : t <= c /\ t < f + n => t <= last
      <3>1. CASE l = n
        BY <1>2, <3>1
      <3>2. CASE f + l > s
        <4>1. last >= s
          BY <1>2, <3>2
        <4>2. c = last
          BY <1>4, <4>1
        <4> QED  BY <4>2
      <3> QED  BY <2>1, <3>1, <3>2
    <2>4. last \in Int /\ c \in Int /\ f \in Int /\ f + n \in Int
      BY <1>2, <1>5, <2>1
    <2> QED  BY <1>5, <2>2, <2>3, <2>4
  <1> QED  BY <1>3, <1>4, <1>7, <1>8

LEMMA OldestRises ==
  ASSUME NEW s \in Nat, NEW c \in Nat, s <= c
  PROVE  OldestAt(s) <= OldestAt(c)
  <1>1. PICK o \in Nat \ {0} : o = OldestAt(s) /\ (s >= LogSize => o = s - LogSize + 1) /\ (s <= LogSize => o = 1)
    BY OldestIs
  <1>2. PICK u \in Nat \ {0} : u = OldestAt(c) /\ (c >= LogSize => u = c - LogSize + 1) /\ (c <= LogSize => u = 1)
    BY OldestIs
  <1> QED  BY <1>1, <1>2, LogType

(* A page read in turn: what is taken of it are the records due, and when   *)
(* the page ends early, all that the log had when it was sent.             *)
LEMMA ReadInTurn ==
  ASSUME Inv, InTurn, line # NoPage, since <= clock, NEW e \in offset..RecCount, Ends(line, e),
         NEW taken \in Nat, taken <= nel, taken <= e - offset, taken = nel \/ taken = e - offset
  PROVE  /\ \A i \in 1..taken : line[offset + i - 1] = Due + i - 1
         /\ \E c \in since..clock : /\ Due + taken <= c + 1
                                    /\ taken = nel \/ e = RecCount \/ Due + taken = c + 1
  <1>1. PICK c \in since..clock : Sent(c) /\ Due <= c + 1
    BY DEF InTurn
  <1>2. PICK off \in Nat, rec \in Nat, wanted \in Nat, room \in Nat, aft \in Nat, sin \in Nat, clk \in Nat :
          off = offset /\ rec = RecCount /\ wanted = nel /\ room = asked /\ aft = after /\ sin = since /\ clk = clock
    BY Sizes DEF Inv, TypeOK, Slots
  <1>3. PICK l \in Nat : l = Len(answer) /\ l + wanted <= room /\ room <= LogSize
    BY <1>2, LenProperties, LogType DEF Inv, TypeOK
  <1>4. PICK f \in Nat \ {0} : f = FirstWanted /\ aft < f /\ OldestAt(sin) <= f /\ (f = OldestAt(sin) \/ f = aft + 1)
    BY <1>2, WantedIs DEF FirstWanted
  <1>5. PICK d \in Nat \ {0} : d = Due /\ d = f + l
    BY <1>3, <1>4 DEF Due
  <1>6. c \in Nat /\ sin <= c /\ c <= clk
    BY <1>2
  <1>7. PICK o \in Nat \ {0} : o = OldestAt(c) /\ (c >= LogSize => o = c - LogSize + 1)
    BY <1>6, OldestIs
  <1>8. o <= d
    <2>1. o <= OldestAt(clk)
      BY <1>6, <1>7, OldestRises
    <2>2. OldestAt(clk) <= d /\ OldestAt(clk) \in Nat
      BY <1>2, <1>5, OldestIs DEF InTurn
    <2> QED  BY <1>7, <2>1, <2>2
  <1>9. ASSUME NEW j \in Slots, off <= j
        PROVE  /\ d + j - off <= c => line[j] = d + j - off
               /\ d + j - off = c + 1 => line[j] = IF c < LogSize THEN 0 ELSE c - LogSize + 1
    <2>1. console.page \in 0..(Pages - 1) /\ off \in Slots
      BY <1>2 DEF Inv, TypeOK
    <2>2. PICK z \in Int : d - 1 = LogSize * z + console.page * RecCount + off
      BY <1>2, <1>5 DEF InTurn
    <2>3. OldestAt(c) <= d
      BY <1>7, <1>8
    <2>4. line = Page(c, console.page)
      BY <1>1 DEF Sent
    <2> QED  BY <1>6, <1>9, <2>1, <2>2, <2>3, <2>4, PageShows
  <1>10. e \in Nat /\ off <= e /\ e <= rec /\ taken <= wanted /\ taken <= e - off /\ (taken = wanted \/ taken = e - off)
    BY <1>2
  <1>11. /\ \A j \in off..(e - 1) : line[j] > aft
         /\ e < rec => line[e] = 0 \/ line[e] <= aft
    BY <1>2 DEF Ends
  <1>12. \A j \in off..(e - 1) : j \in Slots
    BY <1>2, <1>10 DEF Slots
  <1>13. d + taken <= c + 1
    <2> SUFFICES ASSUME d + taken > c + 1
                 PROVE  FALSE
      BY <1>6
    <2>1. PICK j \in off..(e - 1) : j = off + (c + 1 - d)
      <3>1. d <= c + 1
        BY <1>1, <1>5
      <3> QED  BY <1>6, <1>10, <3>1
    <2>2. j \in Slots /\ off <= j /\ d + j - off = c + 1
      BY <1>6, <1>12, <2>1
    <2>3. line[j] = IF c < LogSize THEN 0 ELSE c - LogSize + 1
      BY <1>9, <2>2
    <2>4. line[j] > aft
      BY <1>11
    <2>5. ~(c < LogSize) /\ c - LogSize + 1 > aft
      BY <2>3, <2>4
    <2>6. o = c - LogSize + 1
      BY <1>6, <1>7, <2>5, LogType
    <2>7. f <= o
      <3>1. OldestAt(sin) <= o
        BY <1>6, <1>7, OldestRises
      <3> QED  BY <1>4, <2>5, <2>6, <3>1
    <2> QED  BY <1>3, <1>5, <1>6, <1>10, <2>6, <2>7, LogType
  <1>14. ASSUME taken # wanted, e # rec
         PROVE  d + taken = c + 1
    <2> SUFFICES ASSUME d + taken <= c
                 PROVE  FALSE
      BY <1>6, <1>13
    <2>1. e \in Slots /\ off <= e /\ d + e - off = d + taken
      BY <1>2, <1>10, <1>14 DEF Slots
    <2>2. line[e] = d + taken
      BY <1>9, <2>1
    <2>3. d + taken > aft /\ d + taken # 0
      BY <1>4, <1>5
    <2>4. e < rec
      BY <1>10, <1>14
    <2> QED  BY <1>11, <2>2, <2>3, <2>4
  <1>15. ASSUME NEW i \in 1..taken
         PROVE  line[off + i - 1] = d + i - 1
    <2>1. off + i - 1 \in off..(e - 1) /\ d + (off + i - 1) - off = d + i - 1 /\ d + i - 1 <= c
      BY <1>6, <1>10, <1>13
    <2>2. off + i - 1 \in Slots
      BY <1>12, <2>1
    <2> QED  BY <1>9, <2>1, <2>2
  <1> QED  BY <1>2, <1>5, <1>13, <1>14, <1>15

(* An answer with n slots of a page more.                                  *)
Extended(ans, n, off, pg) == ans \o [i \in 1..n |-> pg[off + i - 1]]

Adds(all, l, n, off, pg) == \A i \in 1..n : all[l + i] = pg[off + i - 1]

Numbers(pg, off, n) == \A i \in 1..n : pg[off + i - 1] \in Int

LEMMA TakenIs ==
  ASSUME NEW ans \in Seq(Int), NEW n \in Nat, NEW off \in Nat, NEW pg, Numbers(pg, off, n)
  PROVE  /\ Extended(ans, n, off, pg) \in Seq(Int) /\ Len(Extended(ans, n, off, pg)) = Len(ans) + n
         /\ \A i \in 1..Len(ans) : Extended(ans, n, off, pg)[i] = ans[i]
         /\ Adds(Extended(ans, n, off, pg), Len(ans), n, off, pg)
  <1> DEFINE new == [i \in 1..n |-> pg[off + i - 1]]
  <1>1. new \in [1..n -> Int]
    BY DEF Numbers
  <1>2. \A i \in 1..n : new[i] = pg[off + i - 1]
    OBVIOUS
  <1>3. DOMAIN new = 1..n
    OBVIOUS
  <1> HIDE DEF new
  <1>4. new \in Seq(Int)
    BY <1>1, FunctionIsSeq
  <1>5. Len(new) = n
    <2>1. Len(new) \in Nat /\ DOMAIN new = 1..Len(new)
      BY <1>4, LenProperties
    <2> QED  BY <1>3, <2>1
  <1>6. /\ ans \o new \in Seq(Int) /\ Len(ans \o new) = Len(ans) + n
        /\ \A i \in 1..Len(ans) + n : (ans \o new)[i] = IF i <= Len(ans) THEN ans[i] ELSE new[i - Len(ans)]
    BY <1>4, <1>5, ConcatProperties
  <1>7. PICK l \in Nat : l = Len(ans)
    BY LenProperties
  <1>8. \A i \in 1..l : (ans \o new)[i] = ans[i]
    BY <1>6, <1>7
  <1>9. ASSUME NEW i \in 1..n
        PROVE  (ans \o new)[l + i] = new[i]
    <2>1. l + i \in 1..l + n /\ ~(l + i <= l) /\ (l + i) - l = i
      BY <1>7
    <2> QED  BY <1>6, <1>7, <2>1
  <1> QED  BY <1>2, <1>6, <1>7, <1>8, <1>9 DEF new, Extended, Adds

Ascends(ans, f) == \A i \in DOMAIN ans : ans[i] = f + i - 1

GoesOn(pg, off, n, d) == \A i \in 1..n : pg[off + i - 1] = d + i - 1

(* The records due that a page adds go on with those of the answer.        *)
LEMMA RunGoesOn ==
  ASSUME NEW ans \in Seq(Int), NEW n \in Nat, NEW off \in Nat, NEW pg, NEW f \in Nat \ {0},
         Ascends(ans, f), GoesOn(pg, off, n, f + Len(ans))
  PROVE  /\ Extended(ans, n, off, pg) \in Seq(Int) /\ Len(Extended(ans, n, off, pg)) = Len(ans) + n
         /\ Ascends(Extended(ans, n, off, pg), f)
  <1>1. PICK l \in Nat : l = Len(ans) /\ DOMAIN ans = 1..l
    BY LenProperties
  <1>2. ASSUME NEW i \in 1..n
        PROVE  pg[off + i - 1] \in Int
    <2>1. pg[off + i - 1] = f + l + i - 1
      BY <1>1 DEF GoesOn
    <2> QED  BY <2>1
  <1> DEFINE all == Extended(ans, n, off, pg)
  <1>3. /\ all \in Seq(Int) /\ Len(all) = Len(ans) + n
        /\ \A i \in 1..Len(ans) : all[i] = ans[i]
        /\ \A i \in 1..n : all[Len(ans) + i] = pg[off + i - 1]
    <2>1. Numbers(pg, off, n)
      BY <1>2 DEF Numbers
    <2> HIDE DEF all
    <2>2. /\ Extended(ans, n, off, pg) \in Seq(Int) /\ Len(Extended(ans, n, off, pg)) = Len(ans) + n
          /\ \A i \in 1..Len(ans) : Extended(ans, n, off, pg)[i] = ans[i]
          /\ Adds(Extended(ans, n, off, pg), Len(ans), n, off, pg)
      BY <2>1, TakenIs
    <2> QED  BY <2>2 DEF all, Adds
  <1> HIDE DEF all
  <1>4. DOMAIN all = 1..l + n
    BY <1>1, <1>3, LenProperties
  <1>5. ASSUME NEW i \in 1..l + n
        PROVE  all[i] = f + i - 1
    <2>1. CASE i <= l
      <3>1. i \in 1..l
        BY <2>1
      <3>2. all[i] = ans[i] /\ ans[i] = f + i - 1
        BY <1>1, <1>3, <3>1 DEF Ascends
      <3> QED  BY <3>2
    <2>2. CASE ~(i <= l)
      <3>1. i - l \in 1..n /\ l + (i - l) = i
        BY <2>2
      <3>2. all[i] = f + l + (i - l) - 1
        BY <1>1, <1>3, <3>1 DEF GoesOn
      <3> QED  BY <3>1, <3>2
    <2> QED  BY <2>1, <2>2
  <1> QED  BY <1>3, <1>4, <1>5 DEF all, Ascends

LEMMA PageAfter ==
  ASSUME NEW page \in 0..(Pages - 1)
  PROVE  /\ page + 1 = Pages => (page + 1) % Pages = 0
         /\ page + 1 # Pages => (page + 1) % Pages = page + 1 /\ page + 1 \in 0..(Pages - 1)
  <1>1. PICK n \in Nat \ {0} : n = Pages
    BY Sizes
  <1>2. page + 1 \in Nat /\ page + 1 <= n
    BY <1>1
  <1>3. n % n = 0
    <2>1. PICK z \in Int, w \in 0..n - 1 : n % n = w /\ n = n * z + w
      BY DivMod
    <2>2. n * z + w = n * 1 + 0 /\ 0 \in 0..n - 1
      BY <2>1
    <2>3. w = 0
      BY <2>2, TurnsAre
    <2> QED  BY <2>1, <2>3
  <1>4. page + 1 # n => (page + 1) % n = page + 1
    BY <1>1
  <1> QED  BY <1>1, <1>2, <1>3, <1>4

(* The page after the one that is read begins with the record due then.    *)
LEMMA PositionAfter ==
  ASSUME NEW page \in 0..(Pages - 1), NEW off \in Slots, NEW d \in Int, NEW z \in Int,
         d - 1 = LogSize * z + page * RecCount + off
  PROVE  \E y \in Int : (d + (RecCount - off)) - 1 = LogSize * y + ((page + 1) % Pages) * RecCount + 0
  <1>1. PICK h \in Int, rec \in Int, n \in Int : h = LogSize /\ rec = RecCount /\ n = Pages /\ rec * n = h
    BY PagesPositive, Sizes
  <1>2. off \in Int
    BY <1>1 DEF Slots
  <1>3. PICK x \in Int, u \in Int : x = page * rec /\ u = h * z
    OBVIOUS
  <1>4. (page + 1) * rec = x + rec
    BY <1>3
  <1>5. (d + (rec - off)) - 1 = u + (page + 1) * rec
    BY <1>1, <1>2, <1>3, <1>4
  <1>6. CASE page + 1 = n
    <2>1. (page + 1) % n = 0
      BY <1>1, <1>6, PageAfter
    <2>2. u + (page + 1) * rec = h * (z + 1) + 0 * rec + 0
      BY <1>1, <1>3, <1>6
    <2>3. (d + (rec - off)) - 1 = h * (z + 1) + 0 * rec + 0
      BY <1>5, <2>2
    <2>4. (d + (RecCount - off)) - 1 = LogSize * (z + 1) + ((page + 1) % Pages) * RecCount + 0
      BY <1>1, <2>1, <2>3, Zenon
    <2>5. z + 1 \in Int
      OBVIOUS
    <2> QED  BY <2>4, <2>5, Zenon
  <1>7. CASE page + 1 # n
    <2>1. (page + 1) % n = page + 1
      BY <1>1, <1>7, PageAfter
    <2>2. (d + (rec - off)) - 1 = h * z + (page + 1) * rec + 0
      BY <1>1, <1>3, <1>4, <1>5
    <2>3. (d + (RecCount - off)) - 1 = LogSize * z + ((page + 1) % Pages) * RecCount + 0
      BY <1>1, <2>1, <2>2, Zenon
    <2> QED  BY <2>3, Zenon
  <1> QED  BY <1>6, <1>7

---------------------------------------------------------------------------
(* A step of dmp_read_pages.                                               *)
Reads(e, taken) ==
  /\ pc = "page" /\ line # NoPage /\ Ends(line, e)
  /\ answer' = answer \o [i \in 1..taken |-> line[offset + i - 1]]
  /\ nel' = nel - taken
  /\ IF taken = nel \/ e < RecCount THEN Escape ELSE Acknowledge
  /\ line' = NoPage /\ offset' = 0
  /\ UNCHANGED <<clock, after, asked, whole, since, overrun>>

LEMMA ReadPageIs ==
  ASSUME Inv, ReadPage
  PROVE  \E e \in offset..RecCount, taken \in Nat :
           /\ Reads(e, taken) /\ taken <= nel /\ taken <= e - offset
           /\ taken = nel \/ taken = e - offset
  <1>1. PICK e \in offset..RecCount :
          LET taken == IF e - offset < nel THEN e - offset ELSE nel
          IN  /\ Ends(line, e)
              /\ answer' = answer \o [i \in 1..taken |-> line[offset + i - 1]]
              /\ nel' = nel - taken
              /\ IF taken = nel \/ e < RecCount THEN Escape ELSE Acknowledge
    BY DEF ReadPage
  <1>2. nel \in Nat /\ offset \in Nat /\ RecCount \in Nat
    BY Sizes DEF Inv, TypeOK, Slots
  <1>3. PICK taken \in Nat : taken = IF e - offset < nel THEN e - offset ELSE nel
    BY <1>2
  <1>4. taken <= nel /\ taken <= e - offset /\ (taken = nel \/ taken = e - offset)
    BY <1>2, <1>3
  <1>5. Reads(e, taken)
    BY <1>1, <1>3 DEF ReadPage, Reads
  <1> QED  BY <1>4, <1>5

(* A page is acknowledged only when another one is to come.                *)
LEMMA Acknowledges ==
  ASSUME Inv, Inv', NEW e \in offset..RecCount, NEW taken \in Nat, Reads(e, taken),
         taken # nel, ~(e < RecCount)
  PROVE  pc' = "page" /\ console'.page = (console.page + 1) % Pages
  <1>1. Acknowledge
    BY DEF Reads
  <1>2. pc' = "page" /\ line' = NoPage
    BY <1>1 DEF Reads, Acknowledge
  <1>3. console'.phase = "sending"
    BY <1>2 DEF Inv, PagesAgree
  <1>4. console' # Quiet
    BY <1>3 DEF Quiet
  <1>5. console' = [phase |-> "sending", page |-> (console.page + 1) % Pages,
                    left |-> console.left - 1]
    BY <1>1, <1>4 DEF Acknowledge
  <1> QED  BY <1>2, <1>5

LEMMA AnswerType == Inv => answer \in Seq(Int)
  <1> SUFFICES ASSUME Inv
               PROVE  answer \in Seq(Int)
    OBVIOUS
  <1>1. answer \in Seq(1..MaxTime)
    BY DEF Inv, TypeOK
  <1>2. Len(answer) \in Nat /\ answer \in [1..Len(answer) -> 1..MaxTime]
    BY <1>1, LenProperties
  <1>3. answer \in [1..Len(answer) -> Int]
    BY <1>2
  <1> QED  BY <1>2, <1>3, FunctionIsSeq

LEMMA InTurnReads ==
  ASSUME Inv, Inv', InTurn, since <= clock, NEW e \in offset..RecCount, NEW taken \in Nat,
         Reads(e, taken), taken <= nel, taken <= e - offset, taken = nel \/ taken = e - offset
  PROVE  /\ pc' = "page" => InTurn'
         /\ pc' = "done" => Answered'
  <1>1. /\ \A i \in 1..taken : line[offset + i - 1] = Due + i - 1
        /\ \E c \in since..clock : /\ Due + taken <= c + 1
                                   /\ taken = nel \/ e = RecCount \/ Due + taken = c + 1
    BY ReadInTurn DEF Reads
  <1>2. PICK c \in since..clock : /\ Due + taken <= c + 1
                                  /\ taken = nel \/ e = RecCount \/ Due + taken = c + 1
    BY <1>1
  <1>3. PICK off \in Slots, wanted \in Nat, room \in 1..LogSize, aft \in Nat, sin \in Nat, clk \in Nat :
          off = offset /\ wanted = nel /\ room = asked /\ aft = after /\ sin = since /\ clk = clock
    BY Sizes DEF Inv, TypeOK
  <1>4. answer \in Seq(Int)
    BY AnswerType
  <1>5. PICK l \in Nat : l = Len(answer) /\ l + wanted <= room
    BY <1>3, <1>4, LenProperties DEF Inv, TypeOK
  <1>6. PICK f \in Nat \ {0} : f = FirstWanted
    BY <1>3, WantedIs DEF FirstWanted
  <1>7. Due = f + l /\ Due \in Nat
    BY <1>5, <1>6 DEF Due
  <1>8. /\ answer' \in Seq(Int) /\ Len(answer') = l + taken
        /\ \A i \in DOMAIN answer' : answer'[i] = f + i - 1
    <2>1. Ascends(answer, f)
      BY <1>6 DEF InTurn, Ascends
    <2>2. GoesOn(line, off, taken, f + Len(answer))
      BY <1>1, <1>3, <1>5, <1>7 DEF GoesOn
    <2>3. off \in Nat
      BY Sizes DEF Slots
    <2>4. answer' = Extended(answer, taken, off, line)
      BY <1>3 DEF Reads, Extended
    <2>5. /\ Extended(answer, taken, off, line) \in Seq(Int)
          /\ Len(Extended(answer, taken, off, line)) = Len(answer) + taken
          /\ Ascends(Extended(answer, taken, off, line), f)
      BY <1>4, <2>1, <2>2, <2>3, RunGoesOn
    <2> QED  BY <1>5, <2>4, <2>5 DEF Ascends
  <1>9. UNCHANGED <<clock, after, asked, whole, since, overrun>> /\ nel' = wanted - taken
        /\ line' = NoPage /\ offset' = 0
    BY <1>3 DEF Reads
  <1>10. FirstWanted' = f /\ Due' = f + l + taken
    <2>1. FirstWanted' = f
      BY <1>6, <1>9 DEF FirstWanted
    <2> QED  BY <1>5, <1>8, <2>1 DEF Due
  <1>11. l + wanted = room \/ f + l + wanted > sin
    BY <1>3, <1>5, <1>7 DEF InTurn
  <1>12. sin <= c /\ c <= clk /\ c \in Nat /\ f + l + taken <= c + 1 /\ taken <= wanted
    BY <1>2, <1>3, <1>7
  <1>13. CASE taken = nel \/ e < RecCount
    <2>1. pc' = "done"
      BY <1>13 DEF Reads, Escape
    <2>2. l + taken = room \/ f + l + taken > sin
      <3>1. CASE taken = nel
        BY <1>3, <1>11, <3>1
      <3>2. CASE taken # nel
        <4>1. e # RecCount
          BY <1>13, <3>2, Sizes
        <4>2. f + l + taken = c + 1
          BY <1>2, <1>7, <3>2, <4>1
        <4> QED  BY <1>12, <4>2
      <3> QED  BY <3>1, <3>2
    <2>3. /\ \E x \in sin..clk : Range(answer') = FetchedAt(x, aft, room)
          /\ Cardinality(Range(answer')) = Len(answer') /\ InOrder(answer')
      <3>1. sin <= clk /\ Len(answer') <= room /\ f + Len(answer') <= clk + 1
            /\ (Len(answer') = room \/ f + Len(answer') > sin)
        BY <1>5, <1>8, <1>12, <2>2
      <3>2. f = FirstAfter(sin, aft)
        BY <1>3, <1>6 DEF FirstWanted
      <3> QED  BY <1>8, <3>1, <3>2, RunAnswers
    <2> QED  BY <1>3, <1>9, <2>1, <2>3 DEF Answered
  <1>14. CASE taken # nel /\ ~(e < RecCount)
    <2>1. pc' = "page" /\ console'.page = (console.page + 1) % Pages
      BY <1>14, Acknowledges
    <2>2. taken = RecCount - off
      BY <1>3, <1>14, Sizes
    <2>3. \E z \in Int : Due' - 1 = LogSize * z + console'.page * RecCount + offset'
      <3>1. PICK z \in Int : Due - 1 = LogSize * z + console.page * RecCount + off
        BY <1>3 DEF InTurn
      <3>2. console.page \in 0..(Pages - 1) /\ Due \in Int
        BY <1>7 DEF Inv, TypeOK
      <3>3. \E y \in Int : (Due + (RecCount - off)) - 1 = LogSize * y + ((console.page + 1) % Pages) * RecCount + 0
        BY <3>1, <3>2, PositionAfter
      <3>4. Due' = Due + (RecCount - off)
        BY <1>7, <1>10, <2>2
      <3> QED  BY <1>9, <2>1, <3>3, <3>4
    <2>4. Due' <= clock' + 1 /\ OldestAt(clock') <= Due'
      <3>1. PICK o \in Nat \ {0} : o = OldestAt(clk)
        BY OldestIs
      <3>2. o <= f + l
        BY <1>3, <1>7, <3>1 DEF InTurn
      <3>3. o <= f + l + taken
        BY <3>2
      <3> QED  BY <1>3, <1>9, <1>10, <1>12, <3>1, <3>3
    <2>5. Len(answer') + nel' = asked' \/ Due' + nel' > since'
      <3>1. Len(answer') + nel' = l + wanted /\ Due' + nel' = f + l + wanted
        BY <1>8, <1>9, <1>10
      <3> QED  BY <1>3, <1>9, <1>11, <3>1
    <2>6. \A i \in DOMAIN answer' : answer'[i] = FirstWanted' + i - 1
      BY <1>8, <1>10
    <2>7. InTurn'
      BY <1>9, <2>3, <2>4, <2>5, <2>6 DEF InTurn
    <2> QED  BY <2>1, <2>7
  <1> QED  BY <1>13, <1>14

---------------------------------------------------------------------------
(* The slots of a full log hold the newest LogSize records, each once.     *)
LEMMA FullLog ==
  ASSUME NEW s \in Nat, s >= LogSize, NEW ans \in Seq(Int), Len(ans) = LogSize,
         \A i \in DOMAIN ans : ans[i] = Record(s, i - 1)
  PROVE  Range(ans) = FetchedAt(s, 0, LogSize) /\ Cardinality(Range(ans)) = Len(ans)
  <1>1. PICK h \in Nat \ {0} : h = LogSize
    BY LogSizeAssumption
  <1>2. PICK f \in Nat \ {0} : f = s - h + 1
    BY <1>1
  <1>3. DOMAIN ans = 1..h
    BY <1>1, LenProperties
  <1>4. FetchedAt(s, 0, LogSize) = f..s
    <2>1. OldestAt(s) = f
      BY <1>1, <1>2, OldestIs
    <2>2. FirstAfter(s, 0) = f
      BY <2>1 DEF FirstAfter
    <2>3. FetchedAt(s, 0, LogSize) = {t \in f..s : t < f + LogSize}
      BY <2>2 DEF FetchedAt
    <2>4. \A t \in f..s : t < f + LogSize
      BY <1>1, <1>2
    <2> QED  BY <2>3, <2>4
  <1>5. ASSUME NEW i \in DOMAIN ans
        PROVE  ans[i] \in f..s
    <2>1. i - 1 \in 0..h - 1 /\ i - 1 < s
      BY <1>1, <1>3
    <2>2. PICK t \in Nat \ {0} : Record(s, i - 1) = t /\ t <= s /\ s < t + h
      BY <1>1, <2>1, RecordOf
    <2> QED  BY <1>2, <2>2
  <1>6. ASSUME NEW t \in f..s
        PROVE  t \in Range(ans)
    <2>1. PICK z \in Int, w \in 0..h - 1 : t - 1 = h * z + w
      <3>1. t - 1 \in Int /\ h \in Int /\ h > 0
        OBVIOUS
      <3> QED  BY <3>1, DivMod, ZenonT(30)
    <2>2. t \in Nat \ {0} /\ t <= s /\ s < t + h
      BY <1>2
    <2>3. Record(s, w) = t
      BY <1>1, <2>1, <2>2, RecordIs
    <2>4. w + 1 \in DOMAIN ans /\ (w + 1) - 1 = w
      BY <1>3
    <2> QED  BY <2>3, <2>4 DEF Range
  <1>7. Range(ans) = f..s
    BY <1>5, <1>6 DEF Range
  <1>8. Cardinality(f..s) = h
    <2>1. Cardinality(f..s) = IF f > s THEN 0 ELSE s - f + 1
      BY FS_Interval
    <2> QED  BY <1>1, <1>2, <2>1
  <1> QED  BY <1>1, <1>4, <1>7, <1>8

(* A page of the whole log shows what its slots held when the call began.  *)
LEMMA TurnedShows ==
  ASSUME Inv, Turned, TurnedRight, since <= clock, line # NoPage, NEW j \in Slots
  PROVE  line[j] = Record(since, Len(answer) + j) /\ line[j] \in Nat \ {0}
  <1>1. PICK h \in Int : h = LogSize /\ h > 0
    BY LogType
  <1>2. PICK sin \in Nat, clk \in Nat : sin = since /\ clk = clock /\ h <= sin
    BY <1>1, Sizes DEF Inv, TypeOK, Turned
  <1>3. PICK c \in sin..clk : line = Page(c, console.page)
    BY <1>2 DEF TurnedRight, Sent
  <1>4. PICK s \in 0..h - 1 : s = console.page * RecCount + j
    <2>1. console.page \in 0..(Pages - 1)
      BY DEF Inv, TypeOK
    <2> QED  BY <1>1, <2>1, PageSlot
  <1>5. PICK l \in Nat : l = Len(answer) /\ l = console.page * RecCount
    BY AnswerType, LenProperties DEF TurnedRight
  <1>6. s = l + j /\ l <= s
    <2>1. j \in Nat
      BY Sizes DEF Slots
    <2> QED  BY <1>4, <1>5, <2>1
  <1>7. PICK t \in Nat \ {0}, z \in Int :
          Record(sin, s) = t /\ t - 1 = LogSize * z + s /\ t <= sin
    <2>1. s \in 0..LogSize - 1 /\ s < sin
      BY <1>1, <1>2
    <2>2. \E t \in Nat \ {0}, z \in Int :
            /\ Record(sin, s) = t /\ t - 1 = LogSize * z + s /\ t <= sin /\ sin < t + LogSize
      BY <2>1, RecordOf, Zenon
    <2> QED  BY <2>2, Zenon
  <1>8. clk < t + h
    <2>1. s \in Len(answer)..LogSize - 1
      BY <1>1, <1>5, <1>6
    <2>2. Kept(s)
      BY <2>1 DEF TurnedRight
    <2> QED  BY <1>1, <1>2, <1>7, <2>2 DEF Kept
  <1>9. Record(c, s) = t
    <2>1. c \in Nat /\ t <= c /\ c < t + LogSize /\ s \in 0..LogSize - 1
      BY <1>1, <1>2, <1>7, <1>8
    <2> QED  BY <1>7, <2>1, RecordIs
  <1>10. line[j] = Record(c, s)
    BY <1>3, <1>4 DEF Page
  <1> QED  BY <1>2, <1>5, <1>6, <1>7, <1>9, <1>10

LEMMA TurnedReads ==
  ASSUME Inv, Inv', Turned, TurnedRight, since <= clock, NEW e \in offset..RecCount, NEW taken \in Nat,
         Reads(e, taken), taken <= nel, taken <= e - offset, taken = nel \/ taken = e - offset
  PROVE  /\ pc' = "page" => TurnedRight'
         /\ pc' = "done" => Answered'
  <1>1. PICK h \in Nat \ {0}, rec \in Nat \ {0} : h = LogSize /\ rec = RecCount
    BY LogType, Sizes
  <1>2. PICK page \in 0..(Pages - 1) : page = console.page
    BY DEF Inv, TypeOK
  <1>3. answer \in Seq(Int)
    BY AnswerType
  <1>4. PICK l \in Nat : l = Len(answer) /\ DOMAIN answer = 1..l
    BY <1>3, LenProperties
  <1>5. PICK sin \in Nat, clk \in Nat, wanted \in Nat :
          sin = since /\ clk = clock /\ wanted = nel /\ h <= sin /\ sin <= clk
    BY <1>1, Sizes DEF Inv, TypeOK, Turned
  <1>6. l = page * rec /\ l + wanted = h /\ offset = 0 /\ after = 0 /\ asked = h /\ whole
    BY <1>1, <1>2, <1>4, <1>5 DEF TurnedRight, Turned
  <1>7. l + rec <= h
    <2>1. rec - 1 \in Slots
      BY <1>1 DEF Slots
    <2>2. page * rec + (rec - 1) \in 0..h - 1
      BY <1>1, <2>1, PageSlot
    <2> QED  BY <1>1, <1>6, <2>2
  <1>8. \A j \in Slots : line[j] = Record(sin, l + j) /\ line[j] \in Nat \ {0}
    <2>1. line # NoPage
      BY DEF Reads
    <2> QED  BY <1>4, <1>5, <2>1, TurnedShows
  <1>9. e = rec
    <2> SUFFICES ASSUME e # rec
                 PROVE  FALSE
      OBVIOUS
    <2>1. e \in Slots /\ e < RecCount
      BY <1>1, <1>6 DEF Slots
    <2>2. line[e] = 0 \/ line[e] <= 0
      BY <1>6, <2>1 DEF Reads, Ends
    <2>3. line[e] \in Nat \ {0}
      BY <1>8, <2>1
    <2>4. PICK x \in Nat \ {0} : x = line[e]
      BY <2>3
    <2> QED  BY <2>2, <2>4
  <1>10. taken = rec /\ rec <= wanted
    BY <1>1, <1>5, <1>6, <1>7, <1>9
  <1>11. UNCHANGED <<clock, after, asked, whole, since, overrun>> /\ nel' = wanted - rec
         /\ line' = NoPage /\ offset' = 0
    BY <1>5, <1>10 DEF Reads
  <1>12. /\ answer' \in Seq(Int) /\ Len(answer') = l + rec /\ DOMAIN answer' = 1..l + rec
         /\ \A i \in 1..l + rec : answer'[i] = Record(sin, i - 1)
    <2>1. Numbers(line, 0, rec)
      <3>1. ASSUME NEW i \in 1..rec
            PROVE  line[0 + i - 1] \in Int
        <4>1. 0 + i - 1 \in Slots
          BY <1>1 DEF Slots
        <4> QED  BY <1>8, <4>1
      <3> QED  BY <3>1 DEF Numbers
    <2>2. answer' = Extended(answer, rec, 0, line)
      BY <1>6, <1>10 DEF Reads, Extended
    <2>3. /\ Extended(answer, rec, 0, line) \in Seq(Int) /\ Len(Extended(answer, rec, 0, line)) = Len(answer) + rec
          /\ \A i \in 1..Len(answer) : Extended(answer, rec, 0, line)[i] = answer[i]
          /\ Adds(Extended(answer, rec, 0, line), Len(answer), rec, 0, line)
      BY <1>3, <2>1, TakenIs
    <2>4. answer' \in Seq(Int) /\ Len(answer') = l + rec /\ \A i \in 1..l : answer'[i] = answer[i]
      BY <1>4, <2>2, <2>3
    <2>5. \A i \in 1..rec : answer'[l + i] = line[0 + i - 1]
      BY <1>4, <2>2, <2>3 DEF Adds
    <2>6. DOMAIN answer' = 1..l + rec
      BY <1>4, <2>4, LenProperties
    <2>7. ASSUME NEW i \in 1..l + rec
          PROVE  answer'[i] = Record(sin, i - 1)
      <3>1. CASE i <= l
        <4>1. i \in 1..l
          BY <3>1
        <4>2. answer'[i] = answer[i] /\ answer[i] = Record(since, i - 1)
          BY <1>4, <2>4, <4>1 DEF TurnedRight
        <4> QED  BY <1>5, <4>2
      <3>2. CASE ~(i <= l)
        <4>1. PICK m \in 1..rec : m = i - l /\ l + m = i /\ 0 + m - 1 = m - 1 /\ l + (m - 1) = i - 1
          BY <3>2
        <4>2. m - 1 \in Slots
          BY <1>1, <4>1 DEF Slots
        <4>3. answer'[i] = line[m - 1]
          BY <2>5, <4>1
        <4>4. line[m - 1] = Record(sin, l + (m - 1))
          BY <1>8, <4>2
        <4> QED  BY <4>1, <4>3, <4>4
      <3> QED  BY <3>1, <3>2
    <2> QED  BY <2>4, <2>6, <2>7
  <1>13. CASE taken = nel
    <2>1. pc' = "done"
      BY <1>13 DEF Reads, Escape
    <2>2. l + rec = h
      BY <1>5, <1>6, <1>10, <1>13
    <2>3. Len(answer') = LogSize /\ sin >= LogSize /\ \A i \in DOMAIN answer' : answer'[i] = Record(sin, i - 1)
      BY <1>1, <1>5, <1>12, <2>2
    <2>4. Range(answer') = FetchedAt(sin, 0, LogSize) /\ Cardinality(Range(answer')) = Len(answer')
      BY <1>12, <2>3, FullLog
    <2>5. sin \in since'..clock' /\ after' = 0 /\ asked' = LogSize /\ whole'
      BY <1>1, <1>5, <1>6, <1>11
    <2> QED  BY <2>1, <2>4, <2>5 DEF Answered
  <1>14. CASE taken # nel
    <2>1. pc' = "page" /\ console'.page = (console.page + 1) % Pages
      <3>1. ~(e < RecCount)
        BY <1>1, <1>9
      <3> QED  BY <1>14, <3>1, Acknowledges
    <2>2. l + rec < h
      BY <1>5, <1>6, <1>10, <1>14
    <2>3. (page + 1) * rec = l + rec
      BY <1>6
    <2>4. page + 1 # Pages
      <3>1. rec * Pages = h
        BY <1>1, PagesPositive
      <3>2. page + 1 = Pages => (page + 1) * rec = h
        BY <3>1, Sizes
      <3> QED  BY <2>2, <2>3, <3>2
    <2>5. console'.page = page + 1
      BY <1>2, <2>1, <2>4, PageAfter
    <2>6. Len(answer') = console'.page * RecCount
      BY <1>1, <1>12, <2>3, <2>5
    <2>7. Len(answer') + nel' = LogSize
      BY <1>1, <1>6, <1>11, <1>12
    <2>8. ASSUME NEW s \in Len(answer')..LogSize - 1
          PROVE  clock' < Record(since', s) + LogSize
      <3>1. s \in Len(answer)..LogSize - 1
        BY <1>1, <1>4, <1>12
      <3>2. Kept(s)
        BY <3>1 DEF TurnedRight
      <3> QED  BY <1>11, <3>2 DEF Kept
    <2>9. \A i \in DOMAIN answer' : answer'[i] = Record(since', i - 1)
      BY <1>5, <1>11, <1>12
    <2>10. after' = 0 /\ asked' = LogSize /\ offset' = 0 /\ line' = NoPage
      BY <1>1, <1>6, <1>11
    <2> QED  BY <2>1, <2>6, <2>7, <2>8, <2>9, <2>10 DEF TurnedRight, Kept
  <1> QED  BY <1>13, <1>14

---------------------------------------------------------------------------
(* The record overwritten next is of no slot that is still to be read.     *)
LEMMA ProduceTurned ==
  ASSUME Inv, Turned, TurnedRight, since <= clock, pc = "page", Produce, ~overrun'
  PROVE  TurnedRight'
  <1>1. PICK h \in Nat \ {0} : h = LogSize
    BY LogType
  <1>2. PICK sin \in Nat, clk \in Nat : sin = since /\ clk = clock /\ h <= sin /\ sin <= clk
    BY <1>1, Sizes DEF Inv, TypeOK, Turned
  <1>3. clock' = clk + 1 /\ UNCHANGED <<console, line, pc, after, nel, asked, whole, offset, answer, since>>
    BY <1>2 DEF Produce
  <1>4. PICK l \in Nat : l = Len(answer) /\ DOMAIN answer = 1..l
    BY AnswerType, LenProperties
  <1>5. ASSUME NEW s \in l..h - 1
        PROVE  clk + 1 < Record(sin, s) + h
    <2>1. s \in 0..LogSize - 1 /\ s < sin /\ s \in Nat
      BY <1>1, <1>2, <1>4
    <2>2. \E t \in Nat \ {0}, z \in Int :
            /\ Record(sin, s) = t /\ t - 1 = LogSize * z + s /\ t <= sin /\ sin < t + LogSize
      BY <2>1, RecordOf, Zenon
    <2>3. PICK t \in Nat \ {0}, z \in Int :
            /\ Record(sin, s) = t /\ t - 1 = LogSize * z + s /\ t <= sin
      BY <2>2, Zenon
    <2>4. clk < t + h
      <3>1. Kept(s)
        BY <1>1, <1>4 DEF TurnedRight
      <3> QED  BY <1>1, <1>2, <2>3, <3>1 DEF Kept
    <2>5. SUFFICES ASSUME clk + 1 = t + h
                   PROVE  FALSE
      BY <2>3, <2>4
    <2>6. OldestAt(clk) = t
      <3>1. clk >= LogSize /\ t = clk - LogSize + 1
        BY <1>1, <1>2, <2>5
      <3> QED  BY <3>1, OldestIs
    <2>7. t \notin Unread
      BY <1>1, <1>2, <2>6 DEF Produce
    <2>8. t \in FetchedAt(clk, 0, LogSize)
      <3>1. FirstAfter(clk, 0) = t
        BY <2>6 DEF FirstAfter
      <3>2. t <= clk /\ t < t + LogSize
        BY <1>1, <1>2, <2>3
      <3> QED  BY <3>1, <3>2 DEF FetchedAt
    <2>9. t \in Range(answer)
      BY <1>2, <2>7, <2>8 DEF Unread, TurnedRight
    <2>10. PICK i \in 1..l : answer[i] = t
      BY <1>4, <2>9 DEF Range
    <2>11. Record(sin, i - 1) = t
      BY <1>2, <1>4, <2>10 DEF TurnedRight
    <2>12. i - 1 \in 0..LogSize - 1 /\ i - 1 < s
      BY <1>1
    <2>13. \E x \in Nat \ {0}, y \in Int :
             /\ Record(sin, i - 1) = x /\ x - 1 = LogSize * y + (i - 1) /\ x <= sin /\ sin < x + LogSize
      <3>1. i - 1 < sin
        BY <2>1, <2>12
      <3> QED  BY <2>12, <3>1, RecordOf, ZenonT(30)
    <2>14. PICK y \in Int : t - 1 = LogSize * y + (i - 1)
      BY <2>11, <2>13
    <2>15. PICK w \in 0..h - 1 : w = i - 1
      BY <1>1, <2>12
    <2>16. h * y + w = h * z + s /\ s \in 0..h - 1
      BY <1>1, <2>1, <2>3, <2>14, <2>15
    <2>17. w = s
      BY <2>16, TurnsAre
    <2> QED  BY <2>12, <2>15, <2>17
  <1>6. \A s \in Len(answer')..LogSize - 1 : clock' < Record(since', s) + LogSize
    BY <1>1, <1>2, <1>3, <1>4, <1>5
  <1>7. line' # NoPage => \E c \in since'..clock' : line' = Page(c, console'.page)
    <2> SUFFICES ASSUME line # NoPage
                 PROVE  \E c \in since..clk + 1 : line = Page(c, console.page)
      BY <1>3
    <2>1. PICK c \in sin..clk : line = Page(c, console.page)
      BY <1>2 DEF TurnedRight, Sent
    <2> QED  BY <1>2, <2>1
  <1>8. \A i \in DOMAIN answer' : answer'[i] = Record(since', i - 1)
    BY <1>3 DEF TurnedRight
  <1>9. after' = 0 /\ asked' = LogSize /\ offset' = 0 /\ Len(answer') = console'.page * RecCount
        /\ Len(answer') + nel' = LogSize
    BY <1>3 DEF TurnedRight
  <1> QED  BY <1>6, <1>7, <1>8, <1>9 DEF TurnedRight, Kept, Sent

(* The record overwritten next is not the one due, nor a later one.        *)
LEMMA ProduceInTurn ==
  ASSUME Inv, InTurn, since <= clock, pc = "page", Produce, ~overrun'
  PROVE  InTurn'
  <1>1. PICK h \in Nat \ {0} : h = LogSize
    BY LogType
  <1>2. PICK sin \in Nat, clk \in Nat, aft \in Nat : sin = since /\ clk = clock /\ aft = after /\ sin <= clk
    BY <1>1, Sizes DEF Inv, TypeOK
  <1>3. clock' = clk + 1 /\ UNCHANGED <<console, line, pc, after, nel, asked, whole, offset, answer, since>>
    BY <1>2 DEF Produce
  <1>4. PICK l \in Nat : l = Len(answer) /\ DOMAIN answer = 1..l
    BY AnswerType, LenProperties
  <1>5. PICK f \in Nat \ {0} : f = FirstWanted /\ aft < f
    BY <1>2, WantedIs DEF FirstWanted
  <1>6. PICK d \in Nat \ {0} : d = Due /\ d = f + l
    BY <1>4, <1>5 DEF Due
  <1>7. FirstWanted' = FirstWanted /\ Due' = Due
    BY <1>3 DEF FirstWanted, Due
  <1>8. PICK o \in Nat \ {0} : o = OldestAt(clk) /\ (clk >= LogSize => o = clk - LogSize + 1) /\ (clk <= LogSize => o = 1)
    BY <1>2, OldestIs
  <1>9. o <= d /\ d <= clk + 1
    BY <1>2, <1>6, <1>8 DEF InTurn
  <1>14. PICK n \in Nat : n = clk + 1
    OBVIOUS
  <1>10. PICK u \in Nat \ {0} : u = OldestAt(n) /\ (n >= LogSize => u = n - LogSize + 1) /\ (n <= LogSize => u = 1)
    BY OldestIs
  <1>11. u <= d
    <2>1. CASE clk < h
      BY <1>1, <1>10, <1>14, <2>1
    <2>2. CASE ~(clk < h)
      <3>1. u = o + 1 /\ o <= clk
        BY <1>1, <1>8, <1>10, <1>14, <2>2
      <3>2. SUFFICES ASSUME d = o
                     PROVE  FALSE
        BY <1>9, <3>1
      <3>3. o \notin Unread
        BY <1>1, <1>2, <1>8, <2>2 DEF Produce
      <3>4. o \in FetchedAt(clk, aft, LogSize)
        <4>1. PICK g \in Nat \ {0} : g = FirstAfter(clk, aft) /\ (g = o \/ g = aft + 1) /\ o <= g
          BY <1>2, <1>8, WantedIs
        <4>2. g <= o
          BY <1>5, <1>6, <3>2, <4>1
        <4>3. g = o
          BY <4>1, <4>2
        <4> QED  BY <1>1, <3>1, <4>1, <4>3 DEF FetchedAt
      <3>5. o \in Range(answer)
        BY <1>2, <3>3, <3>4 DEF Unread
      <3>6. PICK i \in 1..l : answer[i] = o
        BY <1>4, <3>5 DEF Range
      <3>7. answer[i] = f + i - 1
        BY <1>4, <1>5 DEF InTurn
      <3> QED  BY <1>6, <3>2, <3>6, <3>7
    <2> QED  BY <2>1, <2>2
  <1>12. Due' <= clock' + 1 /\ OldestAt(clock') <= Due'
    <2>1. Due' = d /\ clock' = n
      BY <1>3, <1>6, <1>7, <1>14
    <2>2. OldestAt(clock') = u
      BY <1>10, <2>1
    <2> QED  BY <1>9, <1>11, <1>14, <2>1, <2>2
  <1>13. line' # NoPage => \E c \in since'..clock' : line' = Page(c, console'.page) /\ Due' <= c + 1
    <2> SUFFICES ASSUME line # NoPage
                 PROVE  \E c \in since..clk + 1 : line = Page(c, console.page) /\ Due <= c + 1
      BY <1>3, <1>7
    <2>1. PICK c \in sin..clk : line = Page(c, console.page) /\ Due <= c + 1
      BY <1>2 DEF InTurn, Sent
    <2> QED  BY <1>2, <2>1
  <1> QED  BY <1>3, <1>7, <1>12, <1>13 DEF InTurn, Sent

---------------------------------------------------------------------------
(* A dump after a time begins with the first record wanted.                *)
LEMMA DumpAfterStep ==
  ASSUME Inv, Inv', AnswerInv, DumpAfter
  PROVE  AnswerInv'
  <1>1. PICK clk \in Nat, aft \in Nat, room \in Nat : clk = clock /\ aft = after /\ room = asked /\ aft < clk
    BY Sizes DEF DumpAfter, Inv, TypeOK
  <1>2. PICK f \in Nat \ {0} : f = FirstAfter(clk, aft) /\ OldestAt(clk) <= f /\ (f = OldestAt(clk) \/ f = aft + 1)
    BY <1>1, WantedIs
  <1>3. f <= clk
    <2>1. PICK o \in Nat \ {0} : o = OldestAt(clk) /\ (clk >= LogSize => o = clk - LogSize + 1) /\ (clk <= LogSize => o = 1)
      BY OldestIs
    <2>2. o <= clk
      BY <1>1, <2>1, LogType
    <2> QED  BY <1>1, <1>2, <2>1, <2>2
  <1>4. pc = "command" /\ answer = <<>> /\ ~whole /\ line = NoPage
    BY DEF DumpAfter, Inv, TriesLeft, QuietOutside, AnswerInv
  <1> DEFINE skip == SlotOf(f) % RecCount
             n == (skip + clk - f) \div RecCount + 1
  <1>5. StartPages(SlotOf(f) \div RecCount, n, skip, room) /\ UNCHANGED <<after, asked, whole>>
    BY <1>1, <1>2 DEF DumpAfter
  <1>6. PICK sk \in Slots : sk = skip
    BY SlotPage
  <1>7. PICK pages \in Int : pages = n
    <2>1. skip + clk - f \in Int
      BY <1>6, Sizes DEF Slots
    <2> QED  BY <2>1, Sizes
  <1>8. pages * RecCount - sk >= clk - f + 1 /\ pages * RecCount \in Int
    <2>1. PICK rec \in Int : rec = RecCount /\ rec > 0
      BY Sizes
    <2>2. PICK x \in Int : x = sk + clk - f
      BY <1>6, <2>1 DEF Slots
    <2>3. PICK z \in Int, w \in 0..rec - 1 : x % rec = w /\ x = rec * z + w
      BY <2>1, <2>2, DivMod
    <2>4. x \div rec = z
      BY <2>1, <2>2, <2>3
    <2>5. pages = z + 1
      BY <1>6, <1>7, <2>1, <2>2, <2>4
    <2>6. pages * rec = rec * z + rec
      BY <2>5
    <2> QED  BY <1>6, <2>1, <2>2, <2>3, <2>6 DEF Slots
  <1> HIDE DEF n, skip
  <1>9. /\ pc' = "page" /\ since' = clk /\ clock' = clk /\ answer' = <<>> /\ line' = NoPage
        /\ offset' = sk /\ console'.page = SlotOf(f) \div RecCount /\ overrun' = FALSE
        /\ nel' = IF pages * RecCount - sk < room THEN pages * RecCount - sk ELSE room
        /\ after' = aft /\ asked' = room /\ whole' = FALSE
    BY <1>1, <1>4, <1>5, <1>6, <1>7 DEF StartPages, Inv, TypeOK
  <1>10. FirstWanted' = f /\ Due' = f
    <2>1. FirstWanted' = f
      BY <1>2, <1>9 DEF FirstWanted
    <2>2. Len(answer') = 0
      BY <1>9, EmptySeq
    <2> QED  BY <2>1, <2>2 DEF Due
  <1>11. \E z \in Int : Due' - 1 = LogSize * z + console'.page * RecCount + offset'
    <2>1. PICK h \in Int, rec \in Int : h = LogSize /\ rec = RecCount /\ h > 0 /\ rec > 0
      BY LogType, Sizes
    <2>2. PICK z \in Int, s \in 0..h - 1 : (f - 1) % h = s /\ f - 1 = h * z + s
      <3>1. f - 1 \in Int
        OBVIOUS
      <3> QED  BY <2>1, <3>1, DivMod, Zenon
    <2>3. SlotOf(f) = s
      BY <2>1, <2>2 DEF SlotOf
    <2>4. PICK y \in Int, w \in 0..rec - 1 : s % rec = w /\ s = rec * y + w
      <3>1. s \in Int
        OBVIOUS
      <3> QED
        BY <2>1, <3>1, DivMod, Zenon
    <2>5. s \div rec = y
      BY <2>1, <2>4
    <2>6. console'.page = y /\ offset' = w
      BY <1>6, <1>9, <2>1, <2>3, <2>4, <2>5 DEF skip
    <2>7. y * rec = rec * y
      BY <2>1
    <2>8. f - 1 = h * z + y * rec + w
      BY <2>2, <2>4, <2>7
    <2> QED  BY <1>10, <2>1, <2>6, <2>8
  <1>12. Len(answer') + nel' = asked' \/ Due' + nel' > since'
    <2>1. Len(answer') = 0
      BY <1>9, EmptySeq
    <2>2. PICK x \in Int : x = pages * RecCount - sk
      BY <1>6, <1>8, Sizes DEF Slots
    <2>3. nel' = room \/ nel' = x
      BY <1>9, <2>2
    <2> QED  BY <1>8, <1>9, <1>10, <2>1, <2>2, <2>3
  <1>13. InTurn'
    <2>1. DOMAIN answer' = {}
      BY <1>9
    <2> QED  BY <1>2, <1>3, <1>9, <1>10, <1>11, <1>12, <2>1 DEF InTurn
  <1> QED  BY <1>9, <1>13 DEF AnswerInv, Turned

(* A dump of the whole log begins with its first slot.                     *)
LEMMA DumpAllStep ==
  ASSUME Inv, Inv', AnswerInv, DumpAll
  PROVE  AnswerInv'
  <1>1. PICK clk \in Nat, h \in Nat \ {0} : clk = clock /\ h = LogSize
    BY Sizes DEF Inv, TypeOK
  <1>2. pc = "command" /\ answer = <<>> /\ line = NoPage
    BY DEF DumpAll, Inv, TriesLeft, QuietOutside
  <1>3. Pages * RecCount - 0 = h
    BY <1>1, PagesPositive, Sizes
  <1>4. /\ pc' = "page" /\ since' = clk /\ clock' = clk /\ answer' = <<>> /\ line' = NoPage
        /\ offset' = 0 /\ console'.page = 0 /\ overrun' = FALSE
        /\ nel' = h /\ after' = 0 /\ asked' = h /\ whole' = TRUE
    BY <1>1, <1>2, <1>3 DEF DumpAll, StartPages, Inv, TypeOK
  <1>5. Len(answer') = 0 /\ DOMAIN answer' = {} /\ 0 * RecCount = 0
    BY <1>4, EmptySeq, Sizes
  <1>6. CASE clk >= h
    <2>1. ASSUME NEW s \in 0..h - 1
          PROVE  clk < Record(clk, s) + h
      <3>1. s \in 0..LogSize - 1 /\ s < clk
        BY <1>1, <1>6
      <3>2. \E t \in Nat \ {0}, z \in Int :
              /\ Record(clk, s) = t /\ t - 1 = LogSize * z + s /\ t <= clk /\ clk < t + LogSize
        BY <3>1, RecordOf, Zenon
      <3> QED  BY <1>1, <3>2
    <2>2. TurnedRight'
      BY <1>1, <1>4, <1>5, <2>1 DEF TurnedRight, Kept
    <2>3. Turned'
      BY <1>1, <1>4, <1>6 DEF Turned
    <2> QED  BY <1>1, <1>4, <2>2, <2>3 DEF AnswerInv
  <1>7. CASE ~(clk >= h)
    <2>1. OldestAt(clk) = 1
      BY <1>1, <1>7, OldestIs
    <2>2. FirstWanted' = 1 /\ Due' = 1
      <3>1. FirstAfter(clk, 0) = 1
        BY <2>1 DEF FirstAfter
      <3> QED  BY <1>4, <1>5, <3>1 DEF FirstWanted, Due
    <2>3. Due' - 1 = LogSize * 0 + console'.page * RecCount + offset'
      BY <1>1, <1>4, <1>5, <2>2
    <2>4. InTurn'
      BY <1>1, <1>4, <1>5, <2>1, <2>2, <2>3 DEF InTurn
    <2>5. ~Turned'
      BY <1>1, <1>4, <1>7 DEF Turned
    <2> QED  BY <1>1, <1>4, <2>4, <2>5 DEF AnswerInv
  <1> QED  BY <1>6, <1>7

---------------------------------------------------------------------------
LEMMA AnswerInit == Init => AnswerInv
  BY DEF Init, AnswerInv

LEMMA ReadPageStep ==
  ASSUME Inv, Inv', AnswerInv, ReadPage
  PROVE  AnswerInv'
  <1>1. PICK e \in offset..RecCount, taken \in Nat :
          /\ Reads(e, taken) /\ taken <= nel /\ taken <= e - offset
          /\ taken = nel \/ taken = e - offset
    BY ReadPageIs
  <1>2. pc = "page" /\ since <= clock
    BY <1>1 DEF Reads, AnswerInv
  <1>3. UNCHANGED <<clock, whole, since, overrun>>
    BY <1>1 DEF Reads
  <1>4. pc' \in {"page", "done"}
    BY <1>1, <1>2 DEF Reads, Escape, Acknowledge
  <1>5. ASSUME ~overrun, Turned
        PROVE  (pc' = "page" => TurnedRight') /\ (pc' = "done" => Answered')
    <2>1. TurnedRight
      BY <1>2, <1>5 DEF AnswerInv
    <2> QED  BY <1>1, <1>2, <1>5, <2>1, TurnedReads
  <1>6. ASSUME ~overrun, ~Turned
        PROVE  (pc' = "page" => InTurn') /\ (pc' = "done" => Answered')
    <2>1. InTurn
      BY <1>2, <1>6 DEF AnswerInv
    <2> QED  BY <1>1, <1>2, <2>1, InTurnReads
  <1>7. Turned' = Turned
    BY <1>3 DEF Turned
  <1> QED  BY <1>2, <1>3, <1>4, <1>5, <1>6, <1>7 DEF AnswerInv

LEMMA ProduceStep ==
  ASSUME Inv, AnswerInv, Produce
  PROVE  AnswerInv'
  <1>1. clock' = clock + 1 /\ UNCHANGED <<pc, after, asked, whole, answer, since>>
    BY DEF Produce
  <1>2. clock \in Nat /\ since \in Nat
    BY Sizes DEF Inv, TypeOK
  <1>3. ~overrun' => ~overrun
    BY DEF Produce
  <1>4. Turned' = Turned
    BY <1>1 DEF Turned
  <1>5. ASSUME pc = "page", ~overrun'
        PROVE  IF Turned THEN TurnedRight' ELSE InTurn'
    <2>1. since <= clock /\ IF Turned THEN TurnedRight ELSE InTurn
      BY <1>3, <1>5 DEF AnswerInv
    <2> QED  BY <1>5, <2>1, ProduceTurned, ProduceInTurn
  <1>6. ASSUME pc = "done", ~overrun'
        PROVE  Answered'
    <2>1. Answered
      BY <1>3, <1>6 DEF AnswerInv
    <2>2. \E c \in since..clock + 1 : Range(answer) = FetchedAt(c, after, asked)
      <3>1. PICK c \in since..clock : Range(answer) = FetchedAt(c, after, asked)
        BY <2>1 DEF Answered
      <3>2. c \in since..clock + 1
        BY <1>2
      <3> QED  BY <3>1, <3>2
    <2> QED  BY <1>1, <2>1, <2>2 DEF Answered
  <1>7. pc' = "page" => since' <= clock'
    BY <1>1, <1>2 DEF AnswerInv
  <1> QED  BY <1>1, <1>4, <1>5, <1>6, <1>7 DEF AnswerInv

(* The page sent shows the log of the moment.                              *)
LEMMA SendStep ==
  ASSUME Inv, AnswerInv, SendPage
  PROVE  AnswerInv'
  <1>1. line' = Page(clock, console.page) /\ console' = [console EXCEPT !.phase = "waiting"]
        /\ UNCHANGED <<clock, pc, after, nel, asked, whole, offset, tries, answer, since, overrun>>
    BY DEF SendPage
  <1>2. console'.page = console.page
    BY <1>1 DEF Inv, TypeOK
  <1>3. clock \in Nat /\ since \in Nat
    BY Sizes DEF Inv, TypeOK
  <1>4. since <= clock => clock \in since..clock
    BY <1>3
  <1>5. FirstWanted' = FirstWanted /\ Due' = Due /\ Turned' = Turned
    BY <1>1 DEF FirstWanted, Due, Turned
  <1>6. ASSUME since <= clock, InTurn
        PROVE  InTurn'
    BY <1>1, <1>2, <1>4, <1>5, <1>6 DEF InTurn, Sent
  <1>7. ASSUME since <= clock, TurnedRight
        PROVE  TurnedRight'
    BY <1>1, <1>2, <1>4, <1>7 DEF TurnedRight, Sent, Kept
  <1>8. Answered' = Answered
    BY <1>1 DEF Answered
  <1> QED  BY <1>1, <1>5, <1>6, <1>7, <1>8 DEF AnswerInv

LEMMA AskAgainStep ==
  ASSUME Inv, AnswerInv, AskAgain
  PROVE  AnswerInv'
  <1>1. line' = NoPage /\ pc' # "done" /\ pc' # "command" /\ pc = "page"
        /\ console' = [console EXCEPT !.phase = "sending"]
        /\ UNCHANGED <<clock, after, nel, asked, whole, offset, answer, since, overrun>>
    BY DEF AskAgain
  <1>2. console'.page = console.page
    BY <1>1 DEF Inv, TypeOK
  <1>3. FirstWanted' = FirstWanted /\ Due' = Due /\ Turned' = Turned
    BY <1>1 DEF FirstWanted, Due, Turned
  <1>4. InTurn => InTurn'
    BY <1>1, <1>2, <1>3 DEF InTurn
  <1>5. TurnedRight => TurnedRight'
    BY <1>1, <1>2 DEF TurnedRight, Kept
  <1> QED  BY <1>1, <1>3, <1>4, <1>5 DEF AnswerInv

(* Nothing is wanted that the console had when it was asked.               *)
LEMMA NothingAfterStep ==
  ASSUME Inv, AnswerInv, NothingAfter
  PROVE  AnswerInv'
  <1>1. PICK clk \in Nat, aft \in Nat, room \in 1..LogSize : clk = clock /\ aft = after /\ room = asked /\ clk <= aft
    BY Sizes DEF NothingAfter, Inv, TypeOK
  <1>2. answer = <<>> /\ pc' = "done" /\ since' = clk
        /\ UNCHANGED <<clock, after, asked, whole, answer>>
    BY <1>1 DEF NothingAfter, Inv, TriesLeft
  <1>3. PICK f \in Nat \ {0} : f = FirstAfter(clk, aft) /\ aft < f
    BY <1>1, WantedIs
  <1>4. FetchedAt(clk, aft, room) = {}
    BY <1>1, <1>3 DEF FetchedAt
  <1>5. Range(answer) = {} /\ Len(answer) = 0 /\ InOrder(answer)
    BY <1>2, EmptySeq DEF Range, InOrder
  <1>6. Cardinality({}) = 0
    BY FS_EmptySet
  <1>7. Answered'
    <2>1. clk \in clk..clk
      OBVIOUS
    <2> QED  BY <1>1, <1>2, <1>4, <1>5, <1>6, <2>1 DEF Answered
  <1> QED  BY <1>2, <1>7 DEF AnswerInv

LEMMA AnswerNext == Inv /\ Inv' /\ AnswerInv /\ [Next]_vars => AnswerInv'
  <1> SUFFICES ASSUME Inv, Inv', AnswerInv, [Next]_vars
               PROVE  AnswerInv'
    OBVIOUS
  <1>1. CASE Produce
    BY <1>1, ProduceStep
  <1>2. CASE SendPage
    BY <1>2, SendStep
  <1>3. CASE Wakeup
    BY <1>3 DEF Wakeup, AnswerInv
  <1>4. CASE NothingAfter
    BY <1>4, NothingAfterStep
  <1>5. CASE DumpAfter
    BY <1>5, DumpAfterStep
  <1>6. CASE DumpAll
    BY <1>6, DumpAllStep
  <1>7. CASE ReadPage
    BY <1>7, ReadPageStep
  <1>8. CASE AskAgain
    BY <1>8, AskAgainStep
  <1>9. CASE GiveUp
    BY <1>9 DEF GiveUp, AnswerInv
  <1>10. CASE UNCHANGED vars
    BY <1>10 DEF vars, AnswerInv, Turned, TurnedRight, InTurn, Answered, Kept, Sent, FirstWanted, Due
  <1> QED
    BY <1>1, <1>2, <1>3, <1>4, <1>5, <1>6, <1>7, <1>8, <1>9, <1>10 DEF Next, Library

(* A dump answers what its caller was promised (vantage_dmpaft,            *)
(* vantage_dmp): the oldest records after the time given, as the log was   *)
(* at some instant of the call, each once, and in the order of time when   *)
(* the log is not dumped whole. The first page and slot follow from the    *)
(* first record; from there the slots are read in the order the records    *)
(* were written, across the end of the log, until the room is used or a    *)
(* slot of an older turn is met.                                           *)
THEOREM DumpAnswerIsArchive == Spec => []AnswerIsArchive
  <1>1. AnswerInv => AnswerIsArchive
    BY DEF AnswerInv, Answered, AnswerIsArchive
  <1>2. Spec => []AnswerInv
    BY AnswerInit, AnswerNext, SpecInv, PTL DEF Spec
  <1> QED  BY <1>1, <1>2, PTL
============================================================================
