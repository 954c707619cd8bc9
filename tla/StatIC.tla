------------------------------- MODULE StatIC -------------------------------
(* The StatIC service (src/wslogd/service/ic.c) and the way it hears of    *)
(* readings and archive records.                                           *)
(*                                                                         *)
(* The sensor thread and the archive thread each overwrite one structure   *)
(* of the service's thread, without a lock, and queue a signal. The        *)
(* service takes the signals in order and reads the structures as they are *)
(* by then. Readings wait for the record that ends their interval in one   *)
(* of two buffers: dat[datidx] for those before next, when that record is  *)
(* due, the other one for those that come early. The record completes      *)
(* dat[datidx], which is written to a file and uploaded.                   *)
(*                                                                         *)
(* A measure stands for its kind: "val" is the time of the reading or of   *)
(* the record it came with, 0 when the station does not have it.           *)
EXTENDS Integers, Sequences, FiniteSets

CONSTANTS MaxTime,    \* bound: the clock
          Interval,   \* seconds between two archive records
          Freqs,      \* what stat_ic.freq may be
          Silent,     \* bound: seconds at which the station may lack a measure
          MaxQueue    \* signals the kernel keeps for a thread

ASSUME BoundsAssumption == MaxTime \in Nat \ {0} /\ MaxQueue \in Nat

\* ic_init replaces a stat_ic.freq of 0.
ASSUME RatesAssumption == Interval \in Nat \ {0} /\ Freqs \subseteq Nat \ {0}

VARIABLES clock,      \* the time
          filed,      \* the record the archive thread fetched last
          out,        \* per kind: the structure a thread hands out, and what
                      \* is left to do: the copy of each part, the signal
          box,        \* dt->rt and dt->ar
          queue,      \* signals queued to the service
          pc, chosen, \* the handler, and the buffer it has chosen
          freq, next, datidx, dat, \* the static variables of ic.c
          file,       \* the buffer completed by a record, to be uploaded
          mixed,      \* the box is not the one signalled (history)
          latest      \* per interval: its latest reading handled since the
                      \* buffers were last out of step (history)

handler == <<pc, chosen, freq, next, datidx, dat, file, latest>>
icVars == <<clock, filed, out, box, queue, mixed, handler>>

Kinds == {"RT", "AR"}      \* SRV_EVENT_RT, SRV_EVENT_AR
Parts == {"time", "val"}
NoBox == [time |-> 0, val |-> 0]
Reset == [rt |-> 0, odd |-> FALSE]
Intervals == 0..(MaxTime \div Interval)
NoFile == [time |-> 0, rt |-> 0, ar |-> 0, odd |-> TRUE]

NoOut == [time |-> 0, val |-> 0, todo |-> {}]

IcInit ==
  /\ clock = 1 /\ filed = 0
  /\ out = [k \in Kinds |-> NoOut] /\ box = [k \in Kinds |-> NoBox]
  /\ queue = <<>> /\ pc = "idle" /\ chosen = 0
  /\ freq \in Freqs /\ next = 0 /\ datidx = 0
  /\ dat = [i \in {0, 1} |-> Reset] /\ file = NoFile
  /\ mixed = FALSE /\ latest = [k \in Intervals |-> 0]

---------------------------------------------------------------------------
(* The threads that notify *)

Tick ==
  /\ clock < MaxTime
  /\ clock' = clock + 1
  /\ UNCHANGED <<filed, out, box, queue, mixed, handler>>

HandOut(kind, time, val) ==
  out' = [out EXCEPT ![kind] =
            [time |-> time, val |-> val, todo |-> Parts \cup {"signal"}]]

(* sensor_sig_timer reads the station and stamps the reading, at most once *)
(* a second.                                                                *)
ReadSensors ==
  /\ out["RT"].todo = {} /\ box["RT"].time < clock
  /\ \/ HandOut("RT", clock, clock)
     \/ clock \in Silent /\ HandOut("RT", clock, 0)
  /\ UNCHANGED <<clock, filed, box, queue, mixed, handler>>

(* archive_sig_timer fetches the next record, when there is one. *)
FetchRecord ==
  /\ out["AR"].todo = {}
  /\ filed + Interval <= clock
  /\ filed' = filed + Interval
  /\ HandOut("AR", filed', filed')
  /\ UNCHANGED <<clock, box, queue, mixed, handler>>

Handles(kind) == pc \in (IF kind = "RT" THEN {"rt", "rt copy"}
                                        ELSE {"ar", "ar fields", "ar next"})

(* The memcpy to the structure of the service; the time comes first in it. *)
StorePart(kind, part) ==
  /\ part \in out[kind].todo
  /\ part = "val" => "time" \notin out[kind].todo
  /\ box' = [box EXCEPT ![kind][part] = out[kind][part]]
  /\ out' = [out EXCEPT ![kind].todo = @ \ {part}]
  /\ mixed' = (mixed \/ Handles(kind))
  /\ UNCHANGED <<clock, filed, queue, handler>>

(* pthread_sigqueue fails when the queue is full, which nobody looks at. *)
Signal(kind) ==
  /\ out[kind].todo = {"signal"}
  /\ queue' = IF Len(queue) < MaxQueue THEN Append(queue, kind) ELSE queue
  /\ out' = [out EXCEPT ![kind] = NoOut]
  /\ UNCHANGED <<clock, filed, box, mixed, handler>>

---------------------------------------------------------------------------
(* The service *)

Take ==
  /\ pc = "idle" /\ queue # <<>>
  /\ queue' = Tail(queue)
  /\ pc' = IF Head(queue) = "RT" THEN "rt" ELSE "ar"
  /\ mixed' = (Cardinality(out[Head(queue)].todo \cap Parts) = 1)
  /\ UNCHANGED <<clock, filed, out, box, chosen, freq, next, datidx, dat, file,
                 latest>>

Other == (datidx + 1) % 2

\* Slip: the reading of the very second of the record is taken for the past.
ChooseLate ==
  /\ pc = "rt" /\ pc' = "rt copy"
  /\ chosen' = IF next = 0 \/ box["RT"].time <= next THEN datidx ELSE Other
  /\ UNCHANGED <<clock, filed, out, box, queue, mixed, freq, next, datidx, dat,
                 file, latest>>

(* ic_sig_rt: the buffer the reading belongs to. *)
Choose ==
  /\ pc = "rt" /\ pc' = "rt copy"
  /\ chosen' = IF next = 0 \/ box["RT"].time < next THEN datidx ELSE Other
  /\ UNCHANGED <<clock, filed, out, box, queue, mixed, freq, next, datidx, dat,
                 file, latest>>

(* Where two buffers are not enough to tell: no record came yet, the next  *)
(* record is more than an interval behind the reading, the box changed.    *)
Unsure(time) == next = 0 \/ time >= next + freq \/ mixed

(* Its measures, those it has. *)
CopyReading ==
  /\ pc = "rt copy" /\ pc' = "idle" /\ chosen' = 0
  /\ LET val == box["RT"].val
     IN  IF val = 0 THEN UNCHANGED <<dat, latest>>
         ELSE /\ dat' = [dat EXCEPT ![chosen] =
                           [rt |-> val, odd |-> @.odd \/ Unsure(val)]]
              /\ latest' = IF Unsure(val) THEN latest
                           ELSE [latest EXCEPT ![val \div Interval] = val]
  /\ UNCHANGED <<clock, filed, out, box, queue, mixed, freq, next, datidx,
                 file>>

(* ic_sig_ar: the buffer that the record completes, its time first. A       *)
(* signal whose record was overwritten finds the next one, which then comes *)
(* twice.                                                                   *)
RecordTime ==
  /\ pc = "ar" /\ pc' = "ar fields"
  /\ file' = [time |-> box["AR"].time, rt |-> dat[datidx].rt, ar |-> 0,
              odd |-> dat[datidx].odd]
  /\ mixed' = \/ mixed
              \/ next # 0 /\ box["AR"].time + freq <= next
  /\ UNCHANGED <<clock, filed, out, box, queue, chosen, freq, next, datidx, dat,
                 latest>>

(* ic_put: the buffer is written to the file, which is then uploaded. That  *)
(* may take its time, and fail without consequence.                         *)
Put(completed) == file' = completed

(* The measures of the record, and the upload. *)
RecordMeasures ==
  /\ pc = "ar fields" /\ pc' = "ar next"
  /\ Put([file EXCEPT !.ar = box["AR"].val, !.odd = @ \/ mixed])
  /\ UNCHANGED <<clock, filed, out, box, queue, mixed, chosen, freq, next,
                 datidx, dat, latest>>

\* Slip: the buffer that is filled from now on is reset.
NextBufferResetOther ==
  /\ pc = "ar next" /\ pc' = "idle"
  /\ dat' = [dat EXCEPT ![Other] = Reset, ![datidx].odd = @ \/ mixed]
  /\ datidx' = Other
  /\ next' = box["AR"].time + freq
  /\ latest' = [k \in Intervals |->
                  IF mixed \/ k < file.time \div Interval THEN 0 ELSE latest[k]]
  /\ file' = NoFile
  /\ UNCHANGED <<clock, filed, out, box, queue, mixed, chosen, freq>>

(* The two buffers change places. After a record that was not the one       *)
(* signalled they are out of step: a reading of the interval to come may be *)
(* in the one that the next record completes.                               *)
NextBuffer ==
  /\ pc = "ar next" /\ pc' = "idle"
  /\ dat' = [dat EXCEPT ![datidx] = Reset, ![Other].odd = @ \/ mixed]
  /\ datidx' = Other
  /\ next' = box["AR"].time + freq
  /\ latest' = [k \in Intervals |->
                  IF mixed \/ k < file.time \div Interval THEN 0 ELSE latest[k]]
  /\ file' = NoFile
  /\ UNCHANGED <<clock, filed, out, box, queue, mixed, chosen, freq>>

(* The daemon reloads or dies, and starts again: ic_init. *)
IcRestart ==
  /\ out' = [k \in Kinds |-> NoOut] /\ box' = [k \in Kinds |-> NoBox]
  /\ queue' = <<>> /\ pc' = "idle" /\ chosen' = 0
  /\ freq' \in Freqs /\ next' = 0 /\ datidx' = 0
  /\ dat' = [i \in {0, 1} |-> Reset] /\ file' = NoFile
  /\ mixed' = FALSE /\ latest' = [k \in Intervals |-> 0]
  /\ UNCHANGED <<clock, filed>>

IcNext ==
  \/ Tick \/ ReadSensors \/ FetchRecord
  \/ \E kind \in Kinds : Signal(kind) \/ \E part \in Parts : StorePart(kind, part)
  \/ Take \/ Choose \/ CopyReading \/ RecordTime \/ RecordMeasures
  \/ NextBuffer
  \/ IcRestart

---------------------------------------------------------------------------
(* The file of a record holds that record, and no reading taken at its     *)
(* time or later, as long as the service keeps up with its boxes and with  *)
(* the clock and stat_ic.freq is not above the archive interval. The first *)
(* record after a start is an exception: next is not known yet.            *)
FileOwn ==
  pc = "ar next" /\ ~file.odd /\ freq <= Interval =>
    file.ar = file.time /\ file.rt < file.time

(* When the records come one after the other, at the pace that             *)
(* stat_ic.freq says, the file holds the latest reading of the interval    *)
(* that the record ends, and not one of an interval before.                *)
FileFresh ==
  pc = "ar next" /\ ~file.odd /\ freq = Interval /\ next = file.time =>
    LET reading == latest[(file.time \div Interval) - 1]
    IN  reading # 0 => file.rt = reading
===========================================================================
