--------------------------- MODULE VantageSession ---------------------------
(* The sessions of the driver and of the tool with a Vantage console        *)
(* (src/libws/vantage, src/vantage/main.c), dumps excepted.                 *)
(*                                                                          *)
(* A session wakes the console up and makes exchanges with it, one after    *)
(* the other: a request is written and the parts of its answer are read.    *)
(* Nothing in an answer says which request it belongs to. The console       *)
(* answers in order but may be late, so that what comes after a timeout     *)
(* would be taken for the answer to the next request: a session ends at the *)
(* first failure, and the wake-up of the next one has to catch up with the  *)
(* console. An answer is the sequence of its parts; the values read, and    *)
(* the arguments written, are left out.                                     *)
EXTENDS Naturals, Sequences, Functions

CONSTANT MaxBehind     \* bound: requests the console has yet to answer

ASSUME MaxBehindAssumption == MaxBehind \in Nat \ {0}

VARIABLES phase,       \* where the session is
          script,      \* the exchanges it has still to make
          reads,       \* the parts of the answer it has still to read
          attempts,    \* line feeds written by the wake-up
          inbox,       \* answers the console has yet to give
          wire,        \* parts of answers on their way to the host
          synced,      \* the last line feed is what woke the console (history)
          foreign      \* a command read a part of another answer (history)

sessionVars == <<phase, script, reads, attempts, inbox, wire, synced, foreign>>

---------------------------------------------------------------------------
(* What the commands exchange. "bytes" is a read that takes whatever comes, *)
(* "line" one that reads on to the end of a line; "BLOCK" comes with its    *)
(* CRC. The other parts are compared with what is expected.                 *)

Exchange(answer, expected) == <<[answer |-> answer, reads |-> expected]>>

ACK_OK == <<"LFCR", "OK", "LFCR">>

OkCommands == {"RXCHECK", "VER", "NVER", "BAUD", "GAIN", "LAMPS"}
DoneCommands == {"CLRALM", "CLRCAL", "CLRGRA"}
AckCommands ==
  {"WRD", "LPS", "PUTRAIN", "PUTET", "GETEE", "EEBRD", "CLRLOG", "CLRVAR", "CLRHIGHS",
   "CLRLOWS", "CLRBITS", "CLRDATA", "SETTIME", "GETTIME", "SETPER", "NEWSETUP"}

Commands == {"TEST"} \cup OkCommands \cup DoneCommands \cup AckCommands

(* How each command is acknowledged. *)
CMDS ==
  [c \in Commands |-> IF c = "TEST" THEN <<"LFCR", "TEST", "LFCR">>
                      ELSE IF c \in OkCommands THEN ACK_OK
                      ELSE IF c \in DoneCommands THEN ACK_OK \o <<"DONE">>
                      ELSE <<"ACK">>]

(* vantage_proc alone, and followed by vantage_pread. *)
Proc(c) == Exchange(CMDS[c], CMDS[c])
Block(c) == Exchange(CMDS[c] \o <<"BLOCK">>, CMDS[c] \o <<"BLOCK">>)

verx(c) == Exchange(CMDS[c] \o <<"TEXT", "LFCR">>, CMDS[c] \o <<"bytes", "bytes">>)

Testing ==
  [TEST    |-> Proc("TEST"),
   WRD     |-> Exchange(CMDS["WRD"] \o <<"TEXT">>, CMDS["WRD"] \o <<"bytes">>),
   RXCHECK |-> Exchange(CMDS["RXCHECK"] \o <<"TEXT", "LFCR">>,
                        CMDS["RXCHECK"] \o <<"line">>),
   VER     |-> verx("VER"),
   NVER    |-> verx("NVER")]

(* SETTIME sends the time in a second exchange, once ACK has come. *)
Config ==
  [SETTIME  |-> Proc("SETTIME") \o Exchange(<<"ACK">>, <<"ACK">>),
   GETTIME  |-> Block("GETTIME"),
   BAUD     |-> Proc("BAUD"),
   GAIN     |-> Proc("GAIN"),
   SETPER   |-> Proc("SETPER"),
   NEWSETUP |-> Proc("NEWSETUP"),
   LAMPS    |-> Proc("LAMPS")]

(* The CR that cancels a failed LPS has no answer. *)
Current == [LPS     |-> Block("LPS"),
            PUTRAIN |-> Proc("PUTRAIN"),
            PUTET   |-> Proc("PUTET")]

Eeprom == [GETEE  |-> Block("GETEE"),
           EEBRD  |-> Block("EEBRD"),
           ee_cfg |-> Block("EEBRD") \o Block("EEBRD")]

Clearing ==
  [c \in DoneCommands \cup {"CLRLOG", "CLRVAR", "CLRHIGHS", "CLRLOWS", "CLRBITS",
                            "CLRDATA"} |-> Proc(c)]

---------------------------------------------------------------------------
(* The sessions *)

Info == Testing.WRD \o Testing.VER \o Testing.NVER \o Eeprom.ee_cfg
        \o Config.GETTIME \o Testing.RXCHECK

Queries == Range(Testing)
Clock == {Config.SETTIME, Config.GETTIME, Config.SETPER}
Reading == Eeprom.ee_cfg \o Current.LPS
Copies == {Eeprom.GETEE, Eeprom.EEBRD, Clearing.CLRLOG}

(* Those of the day, the month and the year that were asked for, in turn. *)
Extremes == {[i \in 1..n |-> Clearing[c][1]] : n \in 0..3, c \in {"CLRHIGHS", "CLRLOWS"}}

(* A name the tool does not know makes a session without exchanges. *)
ToolSessions ==
  {<<>>, Info, Reading} \cup Queries \cup Clock \cup Copies \cup Extremes

DriverSessions == {Testing.WRD \o Eeprom.ee_cfg, Current.LPS, Config.GETTIME,
                   Config.SETTIME}

(* Commands only other programs may ask the library for. *)
LibrarySessions == Range(Config) \cup Range(Current) \cup Range(Clearing)

Sessions == ToolSessions \cup DriverSessions \cup LibrarySessions

---------------------------------------------------------------------------
(* The console and the line *)

SessionInit ==
  /\ phase = "closed" /\ script = <<>> /\ reads = <<>> /\ attempts = 0
  /\ inbox = <<>> /\ wire = <<>>
  /\ synced = FALSE /\ foreign = FALSE

(* The console gives the next part of the oldest answer it owes; the part   *)
(* arrives, arrives damaged or is lost.                                     *)
ConsoleSends ==
  /\ inbox # <<>>
  /\ LET due  == Head(inbox)
         part == [is |-> Head(due.answer), own |-> due.own]
     IN  /\ wire' \in {Append(wire, part), Append(wire, [part EXCEPT !.is = "noise"]),
                       wire}
         /\ inbox' = IF Len(due.answer) = 1 THEN Tail(inbox)
                     ELSE [inbox EXCEPT ![1].answer = Tail(@)]
  /\ UNCHANGED <<phase, script, reads, attempts, synced, foreign>>

Stale(parts) == [i \in DOMAIN parts |-> [parts[i] EXCEPT !.own = FALSE]]

(* A request is written: what is still under way answers an earlier one. *)
Write(answer) ==
  /\ Len(inbox) < MaxBehind
  /\ inbox' = Append(Stale(inbox), [answer |-> answer, own |-> TRUE])

Close ==
  /\ phase' = "closed"
  /\ script' = <<>> /\ reads' = <<>> /\ attempts' = 0

---------------------------------------------------------------------------
(* The session *)

(* vantage_open, or vantage_lock on the line the daemon has open. *)
Start ==
  /\ phase = "closed"
  /\ phase' = "wake"
  /\ script' \in Sessions
  /\ UNCHANGED <<reads, attempts, inbox, wire, synced, foreign>>

(* A try of vantage_wakeup: what has come is discarded, LF is written. *)
LineFeed ==
  /\ phase = "wake" /\ reads = <<>>
  /\ attempts < 3
  /\ wire' = <<>>
  /\ Write(<<"LFCR">>)
  /\ reads' = <<"LFCR">>
  /\ attempts' = attempts + 1
  /\ UNCHANGED <<phase, script, synced, foreign>>

Woken ==
  /\ phase = "wake" /\ reads # <<>> /\ wire # <<>>
  /\ Head(wire).is = "LFCR"
  /\ phase' = "command" /\ attempts' = 0
  /\ reads' = <<>> /\ wire' = Tail(wire)
  /\ synced' = Head(wire).own /\ foreign' = FALSE
  /\ UNCHANGED <<script, inbox>>

(* Something else came, or nothing in time. *)
WakeAgain ==
  /\ phase = "wake" /\ reads # <<>>
  /\ wire # <<>> => Head(wire).is # "LFCR"
  /\ reads' = <<>>
  /\ UNCHANGED <<phase, script, attempts, inbox, wire, synced, foreign>>

(* vantage_proc and vantage_pwrite *)
Send ==
  /\ phase = "command" /\ reads = <<>> /\ script # <<>>
  /\ Write(Head(script).answer)
  /\ reads' = Head(script).reads
  /\ script' = Tail(script)
  /\ wire' = Stale(wire)
  /\ UNCHANGED <<phase, attempts, synced, foreign>>

Expected(part) ==
  \/ Head(reads) \in {"bytes", "line"}
  \/ Head(reads) = part.is

(* vantage_read_to, with the comparison or the CRC that follows it *)
Read ==
  /\ phase = "command" /\ reads # <<>> /\ wire # <<>>
  /\ Expected(Head(wire))
  /\ wire' = Tail(wire)
  /\ reads' = IF Head(reads) = "line" /\ Head(wire).is # "LFCR" THEN reads
              ELSE Tail(reads)
  /\ foreign' = (foreign \/ ~Head(wire).own)
  /\ UNCHANGED <<phase, script, attempts, inbox, synced>>

\* Slip: the next command is tried nevertheless.
FailsAndGoesOn ==
  /\ phase = "command"
  /\ \/ reads # <<>> /\ wire = <<>> /\ Head(reads) # "line"
     \/ reads # <<>> /\ wire # <<>> /\ ~Expected(Head(wire))
  /\ reads' = <<>>
  /\ UNCHANGED <<phase, script, attempts, inbox, wire, synced, foreign>>

(* A read has timed out, or what came is not what was expected. The loop of *)
(* vantage_rxcheck does not see the timeout of its reads.                   *)
Fails ==
  /\ phase = "command"
  /\ \/ reads # <<>> /\ wire = <<>> /\ Head(reads) # "line"
     \/ reads # <<>> /\ wire # <<>> /\ ~Expected(Head(wire))
  /\ Close
  /\ UNCHANGED <<inbox, wire, synced, foreign>>

(* The wake-up gives up, the script is over, the line fails, an argument is *)
(* refused before anything is written, a count of vantage_rxcheck is not a  *)
(* number, or the process dies.                                             *)
Over ==
  /\ phase # "closed"
  /\ Close
  /\ UNCHANGED <<inbox, wire, synced, foreign>>

SessionNext == ConsoleSends \/ Start \/ LineFeed \/ Woken \/ WakeAgain \/ Send
               \/ Read \/ Fails \/ Over

SessionSpec == SessionInit /\ [][SessionNext]_sessionVars

---------------------------------------------------------------------------
(* In a session whose wake-up was answered to its last line feed, a command *)
(* never reads a part of the answer to an earlier request, whatever was     *)
(* late, damaged or lost before and in whatever order sessions failed; and  *)
(* nothing is under way when the next command is sent.                      *)
AnswersOwn ==
  phase = "command" /\ synced =>
    /\ ~foreign
    /\ reads = <<>> => inbox = <<>> /\ wire = <<>>
=============================================================================
