------------------------------- MODULE Ws23xx --------------------------------
(***************************************************************************)
(* The WS23XX library and driver: resets, exchanges of up to MaxBlocks     *)
(* nybbles with their retries, the reading of a batch, the history and the *)
(* writing of settings, over a console whose sensors and history go on     *)
(* while it is read, and a line that fails at will.                        *)
(*                                                                         *)
(* A call of the driver holds the mutex, and whoever has the device open   *)
(* holds its file lock (ws_open): one call is under way at a time.         *)
(***************************************************************************)
EXTENDS Integers, Sequences, FiniteSets, Ws23xxBatch, Ws23xxDecode

CONSTANTS MaxResets,    \* resets before ws23xx_reset_06 gives up
          MaxRetries,   \* tries of an exchange before it is given up
          HistSlots,    \* records the console's history holds
          Images,       \* what the sensors' memory may hold: address -> nybble
          ToolReads,    \* batches of requests of the tool's fetch
          HexReads,     \* single requests of the tool's hex
          HistAsks,     \* numbers of records asked for, 0 for all
          Sets,         \* writes [addr, nnyb, value] of the tool's set
          ArTimers,     \* arguments [itmin, next] of ws23xx_set_artimer
          MaxEpoch,     \* bound on the refreshes of the sensors
          MaxStored     \* bound on the records of the history

ASSUME Ws23xxAssumption ==
    /\ {MaxResets, MaxRetries, HistSlots, MaxEpoch, MaxStored} \subseteq Nat \ {0}
    /\ Images # {} /\ \A image \in Images : \A a \in DOMAIN image : image[a] \in Nybble

(* The tool's table has two measures at one address, of which one is inside *)
(* the other: they are not fetched together.  Nor are measures that leave a *)
(* gap in an area, which DataFits excludes.                                 *)
ASSUME CallsAssumption ==
    /\ ToolReads \subseteq Seq(Requests) \ {<< >>}
    /\ \A req \in ToolReads : NoneInside(req) /\ NoGap(req)
    /\ HexReads \subseteq Requests /\ HistAsks \subseteq Nat
    /\ Sets \subseteq [addr : Nat, nnyb : Nat \ {0}, value : Nat]
    /\ ArTimers \subseteq [itmin : Int, next : Int]

(* The nybbles of one exchange, a multiple of two.                         *)
MaxBlocks == 30

(* A nybble of the buffer that a failed exchange left: of no address.      *)
Damaged == <<-1, 0>>

VARIABLES
    line,    \* who has the device open: "free", "daemon" or "tool"
    pc,      \* "idle", "reset", "read", "write" or "done"
    job,     \* the call: [op, req, ask, writes], and for the history the
             \* number of records to read and the newest when it began
    after,   \* what the reset is for: "start", "retry" or "write"
    plan,    \* the areas to read and the offsets in the buffer
    cur,     \* the area, or the write, under way
    p,       \* nybbles of the area, or of the write, that are done
    k,       \* failed tries of this exchange
    r,       \* unanswered resets
    data,    \* nybble of the buffer -> <<address, stamp>>, Damaged
    got,     \* records of the history read so far, oldest first
    missed,  \* writes given up in silence during this call
    mem,     \* the nybbles this call has written: address -> nybble
    images,  \* the sensors' memory, epoch by epoch, since the call began
    stored   \* records the console has stored

link == <<pc, job, after, plan, cur, p, k, r, data, got, missed, mem>>
console == <<images, stored>>
vars == <<line, link, console>>

------------------------------------------------------------------------------
(* The console's memory *)

SettingsAt == 1714                  \* 0x6b2
SlotsAt    == 1734                  \* 0x6c6
HistSize   == 19

Epoch == Len(images)

LastSlot(n) == (n - 1) % HistSlots

RecordCount(n) == IF n < HistSlots THEN n ELSE HistSlots

(* The record a slot holds: the last one stored there.                     *)
RecordIn(slot) == stored - ((stored - 1 - slot) % HistSlots)

(* The state a nybble shows: of the sensors, the history or its settings.  *)
Stamp(a) == IF a < SettingsAt THEN Epoch
            ELSE IF a < SlotsAt THEN stored
            ELSE RecordIn((a - SlotsAt) \div HistSize)

NybbleAt(image, a) == IF a \in DOMAIN image THEN image[a] ELSE 0

(* The readings of all sensors change.  A call that reads them all at once *)
(* cannot tell the change from one before it or after it.                  *)
Refresh ==
    /\ Epoch < MaxEpoch /\ (pc = "idle" \/ job.op \in {"rt", "fetch", "hex"})
    /\ \E image \in Images :
           images' = IF pc = "idle" THEN <<image>> ELSE Append(images, image)
    /\ UNCHANGED <<line, link, stored>>

(* The console saves a record, over the oldest one when the slots are full. *)
Store ==
    /\ stored < MaxStored /\ (pc = "idle" \/ job.op \in {"ar", "history"})
    /\ stored' = stored + 1
    /\ UNCHANGED <<line, link, images>>

------------------------------------------------------------------------------
(* Calls *)

Row(a, n) == [addr |-> a, nnyb |-> n]

(* The table of ws23xx_get_rt.                                             *)
RtTable ==
    <<Row(838, 4), Row(883, 4), Row(928, 4), Row(974, 4), Row(1019, 2),
      Row(1049, 2), Row(1234, 6), Row(1319, 1), Row(1320, 1), Row(1321, 3),
      Row(1324, 1), Row(1357, 1), Row(1506, 5)>>

HistoryRows == <<Row(SettingsAt, 20)>>

Job(op, req, ask, writes) ==
    [op |-> op, req |-> req, ask |-> ask, writes |-> writes,
     count |-> -1, newest |-> 0]

(* The history's interval and the time to its next record, both counted    *)
(* from 0, then the number of records, back to 0.                          *)
SetArtimer(t) ==
    <<[addr |-> SettingsAt, nnyb |-> 6,
       value |-> t.itmin - 1 + 4096 * (IF t.next >= 1 THEN t.next - 1 ELSE 0)],
      [addr |-> SlotsAt - 2, nnyb |-> 2, value |-> 0]>>

GoodArtimer(t) == t.itmin \in 1..4095 /\ t.next <= 4095

(* The driver's calls, each under its mutex.                               *)
RtJobs        == {Job("rt", RtTable, 0, << >>)}
RtTimerJobs   == {Job("rt_timer", <<Row(1357, 4)>>, 0, << >>)}
ArTimerJobs   == {Job("ar_timer", <<Row(SettingsAt, 16)>>, 0, << >>)}
ArJobs        == {Job("ar", HistoryRows, n, << >>) : n \in HistAsks \ {0}}
ArtimerJobs   == {Job("set", << >>, 0, SetArtimer(t)) :
                    t \in {u \in ArTimers : GoodArtimer(u)}}

DaemonJobs == RtJobs \cup RtTimerJobs \cup ArTimerJobs \cup ArJobs \cup ArtimerJobs

(* The tool's commands.                                                    *)
FetchJobs   == {Job("fetch", req, 0, << >>) : req \in ToolReads}
HexJobs     == {Job("hex", <<q>>, 0, << >>) : q \in HexReads}
HistoryJobs == {Job("history", HistoryRows, n, << >>) : n \in HistAsks}
SetJobs     == {Job("set", << >>, 0, <<write>>) : write \in Sets}

ToolJobs == FetchJobs \cup HexJobs \cup HistoryJobs \cup SetJobs

Batches == {"rt", "fetch"}
Histories == {"ar", "history"}

NoJob == Job("none", << >>, 0, << >>)

(* ws23xx_read_batch plans its areas; ws23xx_read_safe reads what it is    *)
(* asked for.                                                              *)
PlanOf(batch, req) ==
    IF batch THEN Plan(req)
    ELSE [areas |-> IF req = << >> THEN << >>
                    ELSE <<[addr |-> req[1].addr, nnyb |-> req[1].nnyb,
                            at |-> 0]>>,
          off |-> [j \in DOMAIN req |-> 0]]

(* read_block_all and ws23xx_write_safe start with a reset.                *)
Prepare(why, batch, req) ==
    /\ pc' = "reset" /\ after' = why
    /\ plan' = PlanOf(batch, req)
    /\ cur' = 1 /\ p' = 0 /\ k' = 0 /\ r' = 0
    /\ data' = << >>

Call(j) ==
    /\ pc = "idle"
    /\ \/ line = "daemon" /\ j \in DaemonJobs
       \/ line = "tool" /\ j \in ToolJobs
    /\ job' = j /\ UNCHANGED <<got, missed, mem>>
    /\ Prepare(IF j.op = "set" THEN "write" ELSE "start",
               j.op \in Batches, j.req)
    /\ UNCHANGED <<line, console>>

(* The call is over, with an error or with an answer, and with it the      *)
(* tool; epochs are counted from here.                                     *)
Rest ==
    /\ pc' = "idle" /\ job' = NoJob /\ after' = "start"
    /\ plan' = PlanOf(FALSE, << >>) /\ cur' = 1 /\ p' = 0 /\ k' = 0 /\ r' = 0
    /\ data' = << >> /\ got' = << >> /\ missed' = {} /\ mem' = << >>
    /\ images' = <<Last(images)>>
    /\ line' = IF line = "tool" THEN "free" ELSE line
    /\ UNCHANGED stored

Return ==
    /\ pc = "done" /\ (job.op \in Histories => Len(got) = job.count)
    /\ Rest

(* The slot of the i-th record back from the newest, wrapped one too far.  *)
hist_addr_off(i, last, nel) ==
    SlotsAt + HistSize * (IF i <= last THEN last - i ELSE nel - 1 - (i - last))

(* The slot of the i-th record back from the newest one, of nel.           *)
hist_addr(i, last, nel) ==
    SlotsAt + HistSize * (IF i <= last THEN last - i ELSE nel - (i - last))

RecordRow(i, newest) ==
    <<Row(hist_addr(i, LastSlot(newest), RecordCount(newest)), HistSize)>>

(* The settings of the history are read: how many records, from where.     *)
HistorySettings ==
    /\ pc = "done" /\ job.op \in Histories /\ job.count = -1
    /\ LET newest == data[0][2]
           here   == RecordCount(newest)
           count  == IF job.ask = 0 \/ here < job.ask THEN here ELSE job.ask
       IN  /\ job' = [job EXCEPT !.count = count, !.newest = newest]
           /\ IF count > 0 THEN Prepare("start", FALSE, RecordRow(0, newest))
              ELSE UNCHANGED <<pc, after, plan, cur, p, k, r, data>>
    /\ UNCHANGED <<line, got, missed, mem, console>>

(* A record is read; its date is counted back from the newest one's.       *)
HistoryRecord ==
    /\ pc = "done" /\ job.op \in Histories /\ Len(got) < job.count
    /\ got' = <<[dated  |-> job.newest - Len(got),
                 record |-> {data[x][2] : x \in 0..HistSize - 1}]>> \o got
    /\ IF Len(got') < job.count
       THEN Prepare("start", FALSE, RecordRow(Len(got'), job.newest))
       ELSE UNCHANGED <<pc, after, plan, cur, p, k, r, data>>
    /\ UNCHANGED <<line, job, missed, mem, console>>

------------------------------------------------------------------------------
(* Resets *)

(* A reset that does not count the try that failed before it.              *)
ResetUncounted ==
    /\ pc = "reset" /\ r' = 0 /\ k' = k
    /\ pc' = IF after = "write" THEN "write" ELSE "read"
    /\ UNCHANGED <<line, job, after, plan, cur, p, data, got, missed, mem, console>>

(* The console answers 2: the exchange begins, or the next try of it.      *)
ResetAnswered ==
    /\ pc = "reset" /\ r' = 0
    /\ \/ after = "start" /\ pc' = "read" /\ k' = k
       \/ after = "write" /\ pc' = "write" /\ k' = k
       \/ after = "retry" /\ k + 1 < MaxRetries /\ pc' = "read" /\ k' = k + 1
    /\ UNCHANGED <<line, job, after, plan, cur, p, data, got, missed, mem, console>>

ResetUnanswered ==
    /\ pc = "reset" /\ r + 1 < MaxResets
    /\ r' = r + 1
    /\ UNCHANGED <<line, pc, job, after, plan, cur, p, k, data, got, missed>>
    /\ UNCHANGED <<mem, console>>

(* The line fails, the resets are used up, or the tries of the read are.   *)
GiveUp ==
    /\ pc = "reset"
    /\ Rest

------------------------------------------------------------------------------
(* Reading *)

Area == plan.areas[cur]

Chunk == IF Area.nnyb - p < MaxBlocks THEN Area.nnyb - p ELSE MaxBlocks

(* The first n bytes of the buffer the chunk is read into, as nybbles.     *)
First == 2 * (Area.at + Bytes(p))

Cells(n) == First..First + 2 * n - 1

AddrOf(cell) == Area.addr + p + cell - First

(* A chunk arrives, its checksum right: the console answers out of one     *)
(* state, whole bytes.                                                     *)
ReadOk ==
    /\ pc = "read"
    /\ data' = [c \in DOMAIN data \cup Cells(Bytes(Chunk)) |->
                  IF c \in Cells(Bytes(Chunk)) THEN <<AddrOf(c), Stamp(AddrOf(c))>>
                  ELSE data[c]]
    /\ LET whole == p + MaxBlocks >= Area.nnyb
       IN  /\ p' = IF whole THEN 0 ELSE p + MaxBlocks
           /\ cur' = IF whole THEN cur + 1 ELSE cur
           /\ pc' = IF whole /\ cur = Len(plan.areas) THEN "done" ELSE "read"
    /\ k' = 0
    /\ UNCHANGED <<line, job, after, plan, r, got, missed, mem, console>>

(* The exchange fails after n bytes, or its checksum is wrong.             *)
ReadFails(n) ==
    /\ pc = "read" /\ n <= Bytes(Chunk)
    /\ data' = [c \in DOMAIN data \cup Cells(n) |->
                  IF c \in Cells(n) THEN Damaged ELSE data[c]]
    /\ pc' = "reset" /\ after' = "retry" /\ r' = 0
    /\ UNCHANGED <<line, job, plan, cur, p, k, got, missed, mem, console>>

------------------------------------------------------------------------------
(* Writing *)

Command == job.writes[cur]

Refused == Command.nnyb > MaxBlocks

NybblesOf(write) == ultonyb(write.nnyb, write.value, 16)

(* A write is over, in one way or the other: the next one, or the end.     *)
NextWrite ==
    /\ p' = 0 /\ k' = 0 /\ cur' = cur + 1
    /\ IF cur = Len(job.writes) THEN pc' = "done" /\ after' = after
       ELSE pc' = "reset" /\ after' = "write"

(* ... where one try more than MaxRetries is counted.                      *)
TryFailsOnceMore ==
    IF k + 1 <= MaxRetries
    THEN /\ p' = 0 /\ k' = k + 1 /\ cur' = cur
         /\ pc' = "reset" /\ after' = "write" /\ missed' = missed
    ELSE NextWrite /\ missed' = missed \cup {cur}

(* A try failed: another one, or ws23xx_write_safe returns 0 all the same. *)
TryFails ==
    IF k + 1 < MaxRetries
    THEN /\ p' = 0 /\ k' = k + 1 /\ cur' = cur
         /\ pc' = "reset" /\ after' = "write" /\ missed' = missed
    ELSE NextWrite /\ missed' = missed \cup {cur}

Written ==
    LET at == Command.addr + p
    IN  mem' = [a \in DOMAIN mem \cup {at} |->
                  IF a = at THEN NybblesOf(Command)[p + 1] ELSE mem[a]]

(* The nybble is written: the next one, or the next write.                 *)
NybbleDone ==
    /\ IF p + 1 = Command.nnyb THEN NextWrite
       ELSE p' = p + 1 /\ UNCHANGED <<pc, after, cur, k>>
    /\ UNCHANGED <<line, job, plan, r, data, got, missed, console>>

(* A write that goes on whether or not its nybble is acknowledged.         *)
WriteUnchecked ==
    /\ pc = "write" /\ ~Refused
    /\ Written \/ mem' = mem
    /\ NybbleDone

(* The nybble reaches the console and is acknowledged.                     *)
WriteOk ==
    /\ pc = "write" /\ ~Refused
    /\ Written
    /\ NybbleDone

(* The write is refused, the address or a nybble is not acknowledged; the  *)
(* nybble may have reached the console.                                    *)
WriteFails ==
    /\ pc = "write"
    /\ (~Refused /\ Written) \/ mem' = mem
    /\ TryFails
    /\ UNCHANGED <<line, job, plan, r, data, got, console>>

------------------------------------------------------------------------------
(* ws23xx_open locks the device file until it is closed: by ws23xx_destroy *)
(* in the daemon, at the end of its one command in the tool.               *)
Opens(who) ==
    /\ line = "free" /\ line' = who
    /\ UNCHANGED <<link, console>>

Closes ==
    /\ line = "daemon" /\ pc = "idle" /\ line' = "free"
    /\ UNCHANGED <<link, console>>

Init ==
    /\ line = "free" /\ pc = "idle" /\ job = NoJob /\ after = "start"
    /\ plan = PlanOf(FALSE, << >>) /\ cur = 1 /\ p = 0 /\ k = 0 /\ r = 0
    /\ data = << >> /\ got = << >> /\ missed = {}
    /\ \E image \in Images : images = <<image>>
    /\ stored = 0 /\ mem = << >>

LinkStep ==
    \/ ResetAnswered \/ ResetUnanswered \/ GiveUp
    \/ ReadOk \/ \E n \in 0..Bytes(MaxBlocks) : ReadFails(n)
    \/ WriteOk \/ WriteFails
    \/ HistorySettings \/ HistoryRecord \/ Return

Next ==
    \/ LinkStep
    \/ \E j \in DaemonJobs \cup ToolJobs : Call(j)
    \/ Opens("daemon") \/ Opens("tool") \/ Closes
    \/ Refresh \/ Store

(* Every exchange ends by an answer or a time-out.                         *)
Spec == Init /\ [][Next]_vars /\ WF_vars(LinkStep)

------------------------------------------------------------------------------
(* Properties *)

TypeOK ==
    /\ line \in {"free", "daemon", "tool"}
    /\ pc \in {"idle", "reset", "read", "write", "done"}
    /\ after \in {"start", "retry", "write"}
    /\ Job(job.op, job.req, job.ask, job.writes)
         \in {NoJob} \cup DaemonJobs \cup ToolJobs
    /\ job.count \in -1..HistSlots /\ job.newest \in 0..MaxStored
    /\ cur \in Nat \ {0} /\ p \in Nat
    /\ k \in 0..MaxRetries - 1 /\ r \in 0..MaxResets - 1
    /\ images \in Seq(Images) /\ Epoch \in 1..MaxEpoch
    /\ stored \in 0..MaxStored
    /\ missed \subseteq DOMAIN job.writes

Batch == job.op \in Batches /\ pc = "done"

(* The nybbles of the buffer each operation has for its answer.            *)
Capacity ==
    IF job.op \in Batches THEN 2 * BufferBytes(job.req)
    ELSE IF job.op = "hex" THEN 2 * job.req[1].nnyb
    ELSE IF job.op \in Histories THEN 20
    ELSE 16

(* Nothing is read past the end of the buffer: for the requests of the     *)
(* driver, and those of the tool that leave no gap an area would span.     *)
DataFits == DOMAIN data \subseteq 0..Capacity - 1

(* Whatever order the requests come in, however they overlap and however   *)
(* often the exchanges are tried, each caller's buffer is filled with the  *)
(* nybbles of its own addresses, undamaged (ws23xx_read_batch).            *)
BatchOwn ==
    Batch => \A j \in DOMAIN job.req : \A i \in 0..job.req[j].nnyb - 1 :
        LET c == plan.off[j] + i
        IN  c \in DOMAIN data /\ data[c] # Damaged
              /\ data[c][1] = job.req[j].addr + i

(* The stamps of the nybbles a request gets.                               *)
Stamps(j) == {data[plan.off[j] + i][2] : i \in 0..job.req[j].nnyb - 1}

(* No field of a reading is torn by a refresh of the console, and the      *)
(* wind's flags are of the same reading as its speed and direction.        *)
FieldsWhole ==
    Batch /\ job.op = "rt" =>
        /\ \A j \in DOMAIN job.req : Cardinality(Stamps(j)) = 1
        /\ Cardinality(UNION {Stamps(j) : j \in 8..11}) = 1

(* A record of the history gets the date of its own sample, unless the     *)
(* console has stored another one over it since the settings were read     *)
(* (ws23xx_fetch_ar, hist_addr).                                           *)
HistoryDated ==
    /\ \A i \in DOMAIN got :
           \/ got[i].record = {got[i].dated}
           \/ \E n \in job.newest + 1..stored : got[i].record = {n}
    /\ \A i, j \in DOMAIN got : i < j => got[i].dated < got[j].dated

(* A write that answers 0 has left its nybbles in the console, unless its  *)
(* tries were used up (ws23xx_write_safe does not tell).                   *)
WriteDone ==
    pc = "done" /\ job.op = "set" =>
        \A n \in DOMAIN job.writes \ missed :
            \A i \in 1..job.writes[n].nnyb :
                LET a == job.writes[n].addr + i - 1
                IN  a \in DOMAIN mem /\ mem[a] = NybblesOf(job.writes[n])[i]

(* The nybbles of a field of the reading, as the sensors' memory held them *)
(* in the state they were read from.                                       *)
Nybs(j) ==
    [i \in 1..job.req[j].nnyb |->
        LET cell == data[plan.off[j] + i - 1]
        IN  NybbleAt(images[cell[2]], cell[1])]

(* What ws23xx_get_rt makes of the reading.                                *)
RtMask ==
    Mask([in_temp |-> temp(Nybs(1)), temp |-> temp(Nybs(2)),
          humidity |-> humidity(Nybs(6)), wind_speed |-> speed(Nybs(10))],
         Nybs(12)[1], Nybs(8)[1], Nybs(9)[1])

(* A lost sensor is never reported as a measure: a reported temperature    *)
(* has decimal high digits, a reported humidity decimal digits, a reported *)
(* wind no flag up, and all of them a console that is connected.           *)
OutdoorReal ==
    Batch /\ job.op = "rt" =>
        /\ RtMask \cap {"temp", "humidity", "wind_speed"} # {}
             => Nybs(12)[1] \in Connected
        /\ "temp" \in RtMask => Nybs(2)[3] < 10 /\ Nybs(2)[4] < 10
        /\ "humidity" \in RtMask => \A i \in 1..2 : Nybs(6)[i] < 10
        /\ "wind_speed" \in RtMask => Nybs(8)[1] = 0 /\ Nybs(9)[1] = 0

(* Every call comes to its end: resets and tries are counted, and every    *)
(* wait for the console times out.                                         *)
CallEnds == pc # "idle" ~> pc = "idle"

==============================================================================
