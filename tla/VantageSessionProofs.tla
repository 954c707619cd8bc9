------------------------ MODULE VantageSessionProofs ------------------------
(* That a command of a session never takes an earlier answer for its own,   *)
(* for any number of requests the console may still owe an answer.          *)
(*                                                                          *)
(* First, what every session of the driver, the tool and the library is     *)
(* made of; then the invariant of a session.                                *)
EXTENDS VantageSession, TLAPS

---------------------------------------------------------------------------
(* The exchanges of the sessions *)

(* What the console sends and what the library reads. *)
Parts == {"LFCR", "TEST", "OK", "DONE", "ACK", "TEXT", "BLOCK", "bytes", "line"}

(* An exchange whose answer has as many parts as the command reads. *)
Whole(e) == Len(e.answer) = Len(e.reads)

(* One whose last two parts are read as one line, which ends the last. *)
Line(e) ==
  /\ Len(e.answer) = Len(e.reads) + 1
  /\ e.reads[Len(e.reads)] = "line"
  /\ e.answer[Len(e.answer) - 1] # "LFCR"

Exchanges ==
  {e \in [answer : Seq(Parts) \ {<<>>}, reads : Seq(Parts) \ {<<>>}] :
     Whole(e) \/ Line(e)}

(* Sequences joined, and what is left of them. *)
LEMMA ConcatSeq ==
  ASSUME NEW S, NEW s \in Seq(S), NEW t \in Seq(S)
  PROVE  s \o t \in Seq(S) /\ Len(s \o t) = Len(s) + Len(t)
OBVIOUS

LEMMA TailOfOne ==
  ASSUME NEW S, NEW s \in Seq(S), s # <<>>
  PROVE  Len(s) <= 1 => Tail(s) = <<>>
PROOF
<1>1. Tail(s) \in Seq(S) /\ Len(Tail(s)) = Len(s) - 1
  OBVIOUS
<1>2. \A t \in Seq(S) : Len(t) <= 0 => t = <<>>
  OBVIOUS
<1>3. Len(s) <= 1 => Len(Tail(s)) <= 0
  BY <1>1
<1> QED
  BY <1>1, <1>2, <1>3

(* Every command is acknowledged by one part at least. *)
LEMMA CmdsType ==
  ASSUME NEW c \in Commands
  PROVE  CMDS[c] \in Seq(Parts) /\ Len(CMDS[c]) > 0
PROOF
<1>1. ACK_OK \in Seq(Parts) /\ Len(ACK_OK) = 3
  BY DEF ACK_OK, Parts
<1>2. ACK_OK \o <<"DONE">> \in Seq(Parts) /\ Len(ACK_OK \o <<"DONE">>) = 4
  BY DEF ACK_OK, Parts
<1>3. <<"LFCR", "TEST", "LFCR">> \in Seq(Parts) /\ <<"ACK">> \in Seq(Parts)
  BY DEF Parts
<1> QED
  BY <1>1, <1>2, <1>3 DEF CMDS

(* An exchange that reads as many parts as are sent is one of Exchanges:    *)
(* alone, after an acknowledgement, and as the library makes it.            *)
LEMMA WholeExchange ==
  ASSUME NEW a \in Seq(Parts), NEW b \in Seq(Parts), Len(a) = Len(b), Len(a) > 0
  PROVE  Exchange(a, b) \in Seq(Exchanges)
PROOF
<1> DEFINE e == [answer |-> a, reads |-> b]
<1>1. e.answer = a /\ e.reads = b
  OBVIOUS
<1>2. a # <<>> /\ b # <<>>
  OBVIOUS
<1>3. e \in Exchanges
  BY <1>1, <1>2 DEF Exchanges, Whole
<1> HIDE DEF e
<1>4. <<e>> \in Seq(Exchanges)
  BY <1>3
<1> QED
  BY <1>4 DEF e, Exchange

LEMMA TailExchange ==
  ASSUME NEW c \in Commands, NEW s \in Seq(Parts), NEW t \in Seq(Parts)
  PROVE  Len(s) = Len(t) => Exchange(CMDS[c] \o s, CMDS[c] \o t) \in Seq(Exchanges)
PROOF
<1>1. PICK a \in Seq(Parts) : a = CMDS[c] /\ Len(a) > 0
  BY CmdsType
<1>2. /\ a \o s \in Seq(Parts) /\ Len(a \o s) = Len(a) + Len(s)
      /\ a \o t \in Seq(Parts) /\ Len(a \o t) = Len(a) + Len(t)
  OBVIOUS
<1>3. HAVE Len(s) = Len(t)
<1>4. Len(a \o s) = Len(a \o t) /\ Len(a \o s) > 0
  BY <1>1, <1>2, <1>3
<1>5. Exchange(a \o s, a \o t) \in Seq(Exchanges)
  BY <1>2, <1>4, WholeExchange
<1> QED
  BY <1>1, <1>5

LEMMA ProcExchange ==
  ASSUME NEW c \in Commands
  PROVE  Proc(c) \in Seq(Exchanges) /\ Block(c) \in Seq(Exchanges)
PROOF
<1>1. Exchange(CMDS[c], CMDS[c]) \in Seq(Exchanges)
  BY CmdsType, WholeExchange
<1>2. <<"BLOCK">> \in Seq(Parts)
  BY DEF Parts
<1> QED
  BY <1>1, <1>2, TailExchange DEF Proc, Block

(* Every session is a sequence of such exchanges, vantage_rxcheck included. *)
LEMMA SessionsType == Sessions \subseteq Seq(Exchanges)
PROOF
<1> USE DEF Commands, OkCommands, DoneCommands, AckCommands
<1>1. /\ Testing.TEST \in Seq(Exchanges)
      /\ Testing.WRD \in Seq(Exchanges)
      /\ Testing.VER \in Seq(Exchanges)
      /\ Testing.NVER \in Seq(Exchanges)
  <2>1. \A c \in Commands :
          /\ Exchange(CMDS[c] \o <<"TEXT">>, CMDS[c] \o <<"bytes">>) \in Seq(Exchanges)
          /\ verx(c) \in Seq(Exchanges)
    <3>1. /\ {<<"TEXT">>, <<"bytes">>, <<"TEXT", "LFCR">>, <<"bytes", "bytes">>}
               \subseteq Seq(Parts)
          /\ Len(<<"TEXT">>) = 1 /\ Len(<<"bytes">>) = 1
          /\ Len(<<"TEXT", "LFCR">>) = 2 /\ Len(<<"bytes", "bytes">>) = 2
      BY DEF Parts
    <3> QED
      BY <3>1, TailExchange DEF verx
  <2> QED
    BY <2>1, ProcExchange DEF Testing
<1>2. Testing.RXCHECK \in Seq(Exchanges)
  <2>1. CMDS["RXCHECK"] = ACK_OK
    BY DEF CMDS
  <2>2. PICK e : e = [answer |-> ACK_OK \o <<"TEXT", "LFCR">>,
                      reads  |-> ACK_OK \o <<"line">>]
    OBVIOUS
  <2>3. e.answer \in Seq(Parts) /\ Len(e.answer) = 5 /\ e.answer[4] = "TEXT"
    BY <2>2 DEF ACK_OK, Parts
  <2>4. e.reads \in Seq(Parts) /\ Len(e.reads) = 4 /\ e.reads[4] = "line"
    BY <2>2 DEF ACK_OK, Parts
  <2>5. e \in Exchanges
    BY <2>2, <2>3, <2>4 DEF Exchanges, Line
  <2> QED
    BY <2>1, <2>2, <2>5 DEF Testing, Exchange
<1>3. /\ Config.SETTIME \in Seq(Exchanges) /\ Config.GETTIME \in Seq(Exchanges)
      /\ Config.BAUD \in Seq(Exchanges) /\ Config.GAIN \in Seq(Exchanges)
      /\ Config.SETPER \in Seq(Exchanges) /\ Config.NEWSETUP \in Seq(Exchanges)
      /\ Config.LAMPS \in Seq(Exchanges)
  <2>1. <<"ACK">> \in Seq(Parts) /\ Len(<<"ACK">>) > 0
    BY DEF Parts
  <2>2. Exchange(<<"ACK">>, <<"ACK">>) \in Seq(Exchanges)
    BY <2>1, WholeExchange
  <2>3. Proc("SETTIME") \o Exchange(<<"ACK">>, <<"ACK">>) \in Seq(Exchanges)
    BY <2>2, ProcExchange
  <2> QED
    BY <2>3, ProcExchange DEF Config
<1>4. /\ Current.LPS \in Seq(Exchanges)
      /\ Current.PUTRAIN \in Seq(Exchanges) /\ Current.PUTET \in Seq(Exchanges)
  BY ProcExchange DEF Current
<1>5. /\ Eeprom.GETEE \in Seq(Exchanges) /\ Eeprom.EEBRD \in Seq(Exchanges)
      /\ Eeprom.ee_cfg \in Seq(Exchanges)
  <2>1. Block("EEBRD") \o Block("EEBRD") \in Seq(Exchanges)
    BY ProcExchange
  <2> QED
    BY <2>1, ProcExchange DEF Eeprom
<1>6. \A c \in DoneCommands \cup {"CLRLOG", "CLRVAR", "CLRHIGHS", "CLRLOWS",
                                  "CLRBITS", "CLRDATA"} :
        /\ Clearing[c] \in Seq(Exchanges)
        /\ Clearing[c][1] \in Exchanges
  <2>1. \A c \in Commands : Proc(c) \in Seq(Exchanges) /\ Len(Proc(c)) = 1
    BY ProcExchange DEF Proc, Exchange
  <2>2. \A c \in Commands : Proc(c)[1] \in Exchanges
    BY <2>1
  <2> QED
    BY <2>1, <2>2 DEF Clearing
<1>7. Range(Testing) \subseteq Seq(Exchanges)
  BY <1>1, <1>2 DEF Testing, Range
<1>8. Range(Config) \cup Range(Current) \cup Range(Clearing) \subseteq Seq(Exchanges)
  <2>1. Range(Config) \subseteq Seq(Exchanges)
    BY <1>3 DEF Config, Range
  <2>2. Range(Current) \subseteq Seq(Exchanges)
    BY <1>4 DEF Current, Range
  <2>3. Range(Clearing) \subseteq Seq(Exchanges)
    BY <1>6 DEF Clearing, Range
  <2> QED
    BY <2>1, <2>2, <2>3
<1>9. Info \in Seq(Exchanges) /\ Reading \in Seq(Exchanges)
  BY <1>1, <1>2, <1>3, <1>4, <1>5 DEF Info, Reading
<1>10. Extremes \subseteq Seq(Exchanges)
  <2> SUFFICES ASSUME NEW s \in Extremes
               PROVE  s \in Seq(Exchanges)
    OBVIOUS
  <2>1. PICK n \in 0..3, c \in {"CLRHIGHS", "CLRLOWS"} :
          s = [i \in 1..n |-> Clearing[c][1]]
    BY DEF Extremes
  <2>2. Clearing[c][1] \in Exchanges
    BY <1>6
  <2> QED
    BY <2>1, <2>2
<1>11. ToolSessions \subseteq Seq(Exchanges)
  <2>1. Clearing.CLRLOG \in Seq(Exchanges)
    BY <1>6
  <2>2. Copies \subseteq Seq(Exchanges)
    BY <2>1, <1>5 DEF Copies
  <2>3. Clock \subseteq Seq(Exchanges)
    BY <1>3 DEF Clock
  <2>4. {<<>>, Info, Reading} \subseteq Seq(Exchanges)
    BY <1>9
  <2> QED
    BY <2>2, <2>3, <2>4, <1>7, <1>10 DEF ToolSessions, Queries
<1>12. DriverSessions \subseteq Seq(Exchanges)
  <2>1. Testing.WRD \o Eeprom.ee_cfg \in Seq(Exchanges)
    BY <1>1, <1>5
  <2> QED
    BY <2>1, <1>3, <1>4 DEF DriverSessions
<1> QED
  BY <1>8, <1>11, <1>12 DEF Sessions, LibrarySessions
---------------------------------------------------------------------------
(* The inductive invariant *)

Part == [is : Parts \cup {"noise"}, own : BOOLEAN]
Answer == [answer : Seq(Parts) \ {<<>>}, own : BOOLEAN]

SessionTypeOK ==
  /\ phase \in {"closed", "wake", "command"}
  /\ script \in Seq(Exchanges)
  /\ reads \in Seq(Parts)
  /\ phase = "closed" => reads = <<>>
  /\ inbox \in Seq(Answer)
  /\ wire \in Seq(Part)
  /\ synced \in BOOLEAN /\ foreign \in BOOLEAN

(* Only the last thing under way can answer the last line feed. *)
LastAnswers ==
  phase = "wake" /\ reads # <<>> =>
    /\ \A i \in 1..Len(wire) : wire[i].own => i = Len(wire) /\ inbox = <<>>
    /\ \A i \in 1..Len(inbox) :
         inbox[i].own => i = Len(inbox) /\ Len(inbox[i].answer) = 1

(* What is under way when a command reads is its own answer. *)
AllOwn ==
  /\ ~foreign
  /\ \A i \in 1..Len(wire) : wire[i].own
  /\ Len(inbox) <= 1
  /\ inbox # <<>> => inbox[1].own

Due == IF inbox = <<>> THEN 0 ELSE Len(inbox[1].answer)

(* There is not more of it than the command reads, or one part more, of the *)
(* line it reads last: then only the last part ends that line.              *)
AllAwaited ==
  \/ Len(wire) + Due <= Len(reads)
  \/ /\ Len(wire) + Due = Len(reads) + 1
     /\ reads # <<>> /\ reads[Len(reads)] = "line"
     /\ Due >= 2 => inbox[1].answer[Due - 1] # "LFCR"
     /\ Due = 1 /\ wire # <<>> => wire[Len(wire)].is # "LFCR"
     /\ Due = 0 /\ Len(wire) >= 2 => wire[Len(wire) - 1].is # "LFCR"

Inv ==
  /\ SessionTypeOK
  /\ LastAnswers
  /\ phase = "command" /\ synced => AllOwn /\ AllAwaited

---------------------------------------------------------------------------

(* What is written over by a new request is no longer its own. *)
LEMMA StaleParts ==
  ASSUME NEW w \in Seq(Part)
  PROVE  /\ Stale(w) \in Seq(Part) /\ Len(Stale(w)) = Len(w)
         /\ \A i \in 1..Len(w) : ~Stale(w)[i].own
PROOF
<1>1. \A r \in Part : LET s == [r EXCEPT !.own = FALSE]
                     IN  s \in Part /\ ~s.own
  BY DEF Part
<1> QED
  BY <1>1 DEF Stale

LEMMA StaleAnswers ==
  ASSUME NEW w \in Seq(Answer)
  PROVE  /\ Stale(w) \in Seq(Answer) /\ Len(Stale(w)) = Len(w)
         /\ \A i \in 1..Len(w) : ~Stale(w)[i].own
PROOF
<1>1. \A r \in Answer : LET s == [r EXCEPT !.own = FALSE]
                     IN  s \in Answer /\ ~s.own
  BY DEF Answer
<1> QED
  BY <1>1 DEF Stale

(* What a request leaves to be answered. *)
LEMMA WriteType ==
  ASSUME inbox \in Seq(Answer), NEW a \in Seq(Parts) \ {<<>>}, Write(a)
  PROVE  /\ inbox' \in Seq(Answer)
         /\ Len(inbox') = Len(inbox) + 1
         /\ \A i \in 1..Len(inbox) : ~inbox'[i].own
         /\ inbox'[Len(inbox')] = [answer |-> a, own |-> TRUE]
PROOF
<1>1. PICK e \in Answer : e = [answer |-> a, own |-> TRUE]
  BY DEF Answer
<1>2. PICK w \in Seq(Answer) : w = Stale(inbox)
  BY StaleAnswers
<1>3. Len(w) = Len(inbox) /\ \A i \in 1..Len(inbox) : ~w[i].own
  BY <1>2, StaleAnswers
<1>4. inbox' = Append(w, e)
  BY <1>1, <1>2 DEF Write
<1>5. /\ Append(w, e) \in Seq(Answer) /\ Len(Append(w, e)) = Len(w) + 1
      /\ \A i \in 1..Len(w) : Append(w, e)[i] = w[i]
      /\ Append(w, e)[Len(w) + 1] = e
  OBVIOUS
<1> QED
  BY <1>1, <1>3, <1>4, <1>5

(* An answer that is not empty, and what is left after its first part. *)
LEMMA TailParts ==
  ASSUME NEW a \in Seq(Parts), a # <<>>
  PROVE  /\ Len(a) >= 1 /\ a[1] \in Parts /\ Head(a) = a[1]
         /\ Len(a) # 1 => /\ Len(a) > 1
                          /\ Tail(a) \in Seq(Parts) \ {<<>>}
                          /\ Len(Tail(a)) = Len(a) - 1
                          /\ \A i \in 1..(Len(a) - 1) : Tail(a)[i] = a[i + 1]
PROOF
<1>1. PICK n \in Nat : n = Len(a) /\ n > 0
  OBVIOUS
<1>2. Tail(a) \in Seq(Parts) /\ Len(Tail(a)) = Len(a) - 1
  OBVIOUS
<1>3. n >= 1 /\ (n # 1 => n > 1 /\ n - 1 > 0)
  BY <1>1
<1>4. \A t \in Seq(Parts) : Len(t) > 0 => t # <<>>
  OBVIOUS
<1>5. \A i \in 1..(Len(a) - 1) : Tail(a)[i] = a[i + 1]
  OBVIOUS
<1>6. a[1] \in Parts /\ Head(a) = a[1]
  OBVIOUS
<1>7. Len(a) # 1 => Tail(a) # <<>>
  BY <1>1, <1>2, <1>3, <1>4
<1> QED
  BY <1>1, <1>2, <1>3, <1>5, <1>6, <1>7

(* What the console sends is the first part of its oldest answer, or noise, *)
(* or nothing; that part is no longer due.                                  *)
LEMMA SendsParts ==
  ASSUME inbox \in Seq(Answer), wire \in Seq(Part), ConsoleSends
  PROVE  /\ inbox # <<>>
         /\ \/ wire' = wire
            \/ \E p \in Part : /\ wire' = Append(wire, p)
                              /\ p.own = inbox[1].own
                              /\ p.is \in {inbox[1].answer[1], "noise"}
         /\ \/ Len(inbox[1].answer) = 1 /\ inbox' = Tail(inbox)
            \/ \E e \in Answer : /\ Len(inbox[1].answer) > 1
                                /\ inbox' = [inbox EXCEPT ![1] = e]
                                /\ e.own = inbox[1].own
                                /\ e.answer = Tail(inbox[1].answer)
PROOF
<1> DEFINE due == inbox[1]
           part == [is |-> due.answer[1], own |-> due.own]
           e == [due EXCEPT !.answer = Tail(@)]
<1>1. inbox # <<>> /\ Head(inbox) = due /\ due \in Answer
  BY DEF ConsoleSends
<1>2. due.answer \in Seq(Parts) /\ due.answer # <<>> /\ due.own \in BOOLEAN
  BY <1>1 DEF Answer
<1>3. Head(due.answer) = due.answer[1] /\ due.answer[1] \in Parts
  BY <1>2
<1>4. part \in Part /\ [part EXCEPT !.is = "noise"] \in Part
  BY <1>2, <1>3 DEF Part
<1>5. wire' \in {Append(wire, part), Append(wire, [part EXCEPT !.is = "noise"]), wire}
  BY <1>1, <1>3 DEF ConsoleSends
<1>6. ASSUME Len(due.answer) # 1
      PROVE  /\ Len(due.answer) > 1 /\ e \in Answer /\ inbox' = [inbox EXCEPT ![1] = e]
             /\ e.own = due.own /\ e.answer = Tail(due.answer)
  <2>1. Len(due.answer) > 1
    BY <1>2, <1>6, TailParts
  <2>2. Tail(due.answer) \in Seq(Parts) /\ Tail(due.answer) # <<>>
    BY <1>2, <1>6, TailParts
  <2>3. e \in Answer /\ e.own = due.own /\ e.answer = Tail(due.answer)
    BY <1>1, <2>2 DEF Answer
  <2>4. inbox' = [inbox EXCEPT ![1].answer = Tail(@)]
    BY <1>1, <1>6 DEF ConsoleSends
  <2> QED
    BY <2>1, <2>3, <2>4
<1>7. CASE Len(due.answer) = 1
  BY <1>1, <1>4, <1>5, <1>7 DEF ConsoleSends
<1>8. CASE Len(due.answer) # 1
  BY <1>1, <1>4, <1>5, <1>6, <1>8
<1> QED
  BY <1>7, <1>8

(* The same, as what the line holds afterwards. *)
LEMMA AppendPart ==
  ASSUME NEW w \in Seq(Part), NEW p \in Part
  PROVE  /\ Append(w, p) \in Seq(Part) /\ Len(Append(w, p)) = Len(w) + 1
         /\ \A i \in 1..Len(w) : Append(w, p)[i] = w[i]
         /\ Append(w, p)[Len(w) + 1] = p
OBVIOUS

LEMMA SendsWire ==
  ASSUME inbox \in Seq(Answer), wire \in Seq(Part), ConsoleSends
  PROVE  /\ wire' \in Seq(Part)
         /\ \/ wire' = wire
            \/ /\ Len(wire') = Len(wire) + 1
               /\ \A i \in 1..Len(wire) : wire'[i] = wire[i]
               /\ wire'[Len(wire')].own = inbox[1].own
               /\ wire'[Len(wire')].is \in {inbox[1].answer[1], "noise"}
PROOF
<1>1. CASE wire' = wire
  BY <1>1
<1>2. ASSUME NEW p \in Part, wire' = Append(wire, p), p.own = inbox[1].own,
             p.is \in {inbox[1].answer[1], "noise"}
      PROVE  /\ wire' \in Seq(Part) /\ Len(wire') = Len(wire) + 1
             /\ \A i \in 1..Len(wire) : wire'[i] = wire[i]
             /\ wire'[Len(wire')].own = inbox[1].own
             /\ wire'[Len(wire')].is \in {inbox[1].answer[1], "noise"}
  BY <1>2, AppendPart
<1> QED
  BY <1>1, <1>2, SendsParts

(* The invariant *)
LEMMA InvInit == SessionInit => Inv
PROOF
<1>1. /\ <<>> \in Seq(Exchanges) /\ <<>> \in Seq(Parts)
      /\ <<>> \in Seq(Answer) /\ <<>> \in Seq(Part)
  OBVIOUS
<1> QED
  BY <1>1 DEF SessionInit, Inv, SessionTypeOK, LastAnswers

LEMMA TypeStep == SessionTypeOK /\ [SessionNext]_sessionVars => SessionTypeOK'
PROOF
<1> SUFFICES ASSUME SessionTypeOK, [SessionNext]_sessionVars
             PROVE  SessionTypeOK'
  OBVIOUS
<1> USE DEF SessionTypeOK
<1>1. CASE ConsoleSends
  <2>1. inbox # <<>> /\ inbox[1] \in Answer
    BY <1>1, SendsParts
  <2>2. wire' \in Seq(Part)
    <3>1. \A p \in Part : Append(wire, p) \in Seq(Part)
      OBVIOUS
    <3> QED
      BY <1>1, <3>1, SendsParts
  <2>3. inbox' \in Seq(Answer)
    <3>1. Tail(inbox) \in Seq(Answer)
      BY <2>1
    <3>2. \A e \in Answer : [inbox EXCEPT ![1] = e] \in Seq(Answer)
      BY <2>1
    <3> QED
      BY <1>1, <3>1, <3>2, SendsParts
  <2> QED
    BY <1>1, <2>2, <2>3 DEF ConsoleSends
<1>2. CASE Start
  BY <1>2, SessionsType DEF Start
<1>3. CASE LineFeed
  <2>1. <<"LFCR">> \in Seq(Parts) \ {<<>>}
    BY DEF Parts
  <2>2. inbox' \in Seq(Answer)
    BY <1>3, <2>1, WriteType DEF LineFeed
  <2>3. wire' \in Seq(Part) /\ reads' \in Seq(Parts)
    BY <1>3, <2>1 DEF LineFeed
  <2> QED
    BY <1>3, <2>2, <2>3 DEF LineFeed
<1>4. CASE Woken
  <2>1. Head(wire) \in Part /\ Tail(wire) \in Seq(Part)
    BY <1>4 DEF Woken
  <2>2. Head(wire).own \in BOOLEAN
    BY <2>1 DEF Part
  <2>3. synced' \in BOOLEAN /\ foreign' \in BOOLEAN
    BY <1>4, <2>2 DEF Woken
  <2>4. wire' \in Seq(Part) /\ reads' \in Seq(Parts) /\ inbox' \in Seq(Answer)
    BY <1>4, <2>1 DEF Woken
  <2> QED
    BY <1>4, <2>3, <2>4 DEF Woken
<1>5. CASE WakeAgain
  BY <1>5 DEF WakeAgain
<1>6. CASE Send
  <2>1. Head(script) \in Exchanges /\ Tail(script) \in Seq(Exchanges)
    BY <1>6 DEF Send
  <2>2. Head(script).answer \in Seq(Parts) \ {<<>>} /\ Head(script).reads \in Seq(Parts)
    BY <2>1 DEF Exchanges
  <2>3. inbox' \in Seq(Answer)
    BY <1>6, <2>2, WriteType DEF Send
  <2>4. wire' \in Seq(Part)
    BY <1>6, StaleParts DEF Send
  <2> QED
    BY <1>6, <2>1, <2>2, <2>3, <2>4 DEF Send
<1>7. CASE Read
  BY <1>7 DEF Read
<1>8. CASE Fails
  BY <1>8 DEF Fails, Close
<1>9. CASE Over
  BY <1>9 DEF Over, Close
<1>10. CASE UNCHANGED sessionVars
  BY <1>10 DEF sessionVars
<1> QED
  BY <1>1, <1>2, <1>3, <1>4, <1>5, <1>6, <1>7, <1>8, <1>9, <1>10 DEF SessionNext

(* A try of the wake-up leaves its line feed as the last thing to answer. *)
LEMMA LastAnswersStep == Inv /\ [SessionNext]_sessionVars => LastAnswers'
PROOF
<1> SUFFICES ASSUME Inv, [SessionNext]_sessionVars, (phase = "wake" /\ reads # <<>>)'
             PROVE  /\ \A i \in 1..Len(wire') :
                          wire'[i].own => i = Len(wire') /\ inbox' = <<>>
                    /\ \A i \in 1..Len(inbox') :
                          inbox'[i].own => i = Len(inbox') /\ Len(inbox'[i].answer) = 1
  BY DEF LastAnswers
<1>1. CASE ConsoleSends
  <2>1. phase = "wake" /\ reads # <<>>
    BY <1>1 DEF ConsoleSends
  <2>2. /\ inbox # <<>> /\ inbox \in Seq(Answer) /\ wire \in Seq(Part)
        /\ \A i \in 1..Len(wire) : ~wire[i].own
        /\ \A i \in 1..Len(inbox) :
             inbox[i].own => i = Len(inbox) /\ Len(inbox[i].answer) = 1
    BY <1>1, <2>1, SendsParts DEF Inv, SessionTypeOK, LastAnswers
  <2>3. PICK n \in Nat : n = Len(inbox) /\ n >= 1
    BY <2>2
  <2>4. CASE inbox[1].own
    <3>1. n = 1 /\ Len(inbox[1].answer) = 1
      BY <2>2, <2>3, <2>4
    <3>2. inbox' = Tail(inbox)
      BY <1>1, <2>2, <3>1, SendsParts
    <3>3. inbox' = <<>>
      BY <2>2, <2>3, <3>1, <3>2, TailOfOne
    <3>4. \A i \in 1..Len(wire') : wire'[i].own => i = Len(wire')
      BY <1>1, <2>2, SendsWire
    <3> QED
      BY <3>3, <3>4
  <2>5. CASE ~inbox[1].own
    <3>1. \A i \in 1..Len(wire') : ~wire'[i].own
      BY <1>1, <2>2, <2>5, SendsWire
    <3>2. CASE inbox' = Tail(inbox)
      BY <2>2, <3>1, <3>2
    <3>3. ASSUME NEW e \in Answer, inbox' = [inbox EXCEPT ![1] = e], ~e.own
          PROVE  \A i \in 1..Len(inbox') :
                   inbox'[i].own => i = Len(inbox') /\ Len(inbox'[i].answer) = 1
      BY <2>2, <3>3
    <3> QED
      BY <1>1, <2>2, <2>5, <3>1, <3>2, <3>3, SendsParts
  <2> QED
    BY <2>4, <2>5
<1>2. CASE LineFeed
  <2>1. <<"LFCR">> \in Seq(Parts) \ {<<>>} /\ Len(<<"LFCR">>) = 1
    BY DEF Parts
  <2>2. wire' = <<>> /\ Write(<<"LFCR">>)
    BY <1>2 DEF LineFeed
  <2>3. inbox \in Seq(Answer) /\ Len(inbox) \in Nat
    BY DEF Inv, SessionTypeOK
  <2>4. /\ Len(inbox') = Len(inbox) + 1
        /\ \A i \in 1..Len(inbox) : ~inbox'[i].own
        /\ inbox'[Len(inbox')] = [answer |-> <<"LFCR">>, own |-> TRUE]
    BY <2>1, <2>2, <2>3, WriteType
  <2>5. Len(inbox'[Len(inbox')].answer) = 1
    BY <2>1, <2>4
  <2> QED
    BY <2>2, <2>3, <2>4, <2>5
<1>3. CASE Start
  BY <1>3 DEF Start, Inv, SessionTypeOK
<1>4. CASE Woken \/ WakeAgain \/ Send \/ Read \/ Fails \/ Over
  BY <1>4 DEF Woken, WakeAgain, Send, Read, Fails, Over, Close
<1>5. CASE UNCHANGED sessionVars
  BY <1>5 DEF sessionVars, Inv, LastAnswers
<1> QED
  BY <1>1, <1>2, <1>3, <1>4, <1>5 DEF SessionNext

LEMMA DueType ==
  ASSUME SessionTypeOK
  PROVE  /\ Due \in Nat /\ Len(wire) \in Nat /\ Len(reads) \in Nat
         /\ inbox # <<>> => Due >= 1 /\ inbox[1] \in Answer
PROOF
<1>1. \A e \in Answer : Len(e.answer) \in Nat /\ Len(e.answer) >= 1
  BY TailParts DEF Answer
<1>2. inbox # <<>> => inbox[1] \in Answer
  BY DEF SessionTypeOK
<1>3. Len(wire) \in Nat /\ Len(reads) \in Nat
  BY DEF SessionTypeOK
<1> QED
  BY <1>1, <1>2, <1>3 DEF Due

(* A session that has caught up stays so: every read lowers what is awaited *)
(* and what is under way together.                                          *)
LEMMA SyncedStep ==
  ASSUME Inv, [SessionNext]_sessionVars, (phase = "command" /\ synced)'
  PROVE  AllOwn' /\ AllAwaited'
PROOF
<1> USE DEF Inv
<1>1. CASE ConsoleSends
  <2>1. /\ SessionTypeOK /\ AllOwn /\ AllAwaited /\ reads' = reads /\ foreign' = foreign
        /\ inbox \in Seq(Answer) /\ wire \in Seq(Part)
    BY <1>1 DEF ConsoleSends, SessionTypeOK
  <2>2. inbox # <<>> /\ Len(inbox) <= 1 /\ inbox[1].own /\ Due = Len(inbox[1].answer)
    BY <1>1, <2>1, SendsParts DEF AllOwn, Due
  <2>3. /\ inbox[1] \in Answer /\ inbox[1].answer \in Seq(Parts) /\ inbox[1].answer # <<>>
        /\ Due \in Nat /\ Len(wire) \in Nat /\ Len(reads) \in Nat
    BY <2>1, <2>2, DueType DEF Answer
  <2>4. /\ \A i \in 1..Len(wire') : wire'[i].own
        /\ \/ wire' = wire
           \/ /\ Len(wire') = Len(wire) + 1
              /\ \A i \in 1..Len(wire) : wire'[i] = wire[i]
              /\ wire'[Len(wire')].is \in {inbox[1].answer[1], "noise"}
    <3>1. \/ wire' = wire
          \/ /\ Len(wire') = Len(wire) + 1
             /\ \A i \in 1..Len(wire) : wire'[i] = wire[i]
             /\ wire'[Len(wire')].own
             /\ wire'[Len(wire')].is \in {inbox[1].answer[1], "noise"}
      BY <1>1, <2>1, <2>2, SendsWire
    <3>2. \A i \in 1..Len(wire) : wire[i].own
      BY <2>1 DEF AllOwn
    <3> QED
      BY <2>3, <3>1, <3>2
  <2>5. CASE Due = 1 /\ inbox' = Tail(inbox)
    <3>1. inbox' = <<>> /\ Due' = 0
      BY <2>1, <2>2, <2>5, TailOfOne DEF Due
    <3>2. AllOwn'
      BY <2>1, <2>4, <3>1 DEF AllOwn
    <3>3. CASE wire' = wire \/ Len(wire) + Due <= Len(reads)
      <4>1. Len(wire') + Due' <= Len(reads')
        BY <2>1, <2>3, <2>4, <2>5, <3>1, <3>3 DEF AllAwaited
      <4> QED
        BY <3>2, <4>1 DEF AllAwaited
    <3>4. CASE wire' # wire /\ ~(Len(wire) + Due <= Len(reads))
      <4>1. /\ Len(wire) + Due = Len(reads) + 1
            /\ reads # <<>> /\ reads[Len(reads)] = "line"
            /\ wire # <<>> => wire[Len(wire)].is # "LFCR"
        BY <2>1, <2>5, <3>4 DEF AllAwaited
      <4>2. Len(wire') + Due' = Len(reads') + 1
        BY <2>1, <2>3, <2>4, <2>5, <3>1, <3>4, <4>1
      <4>3. Len(wire') >= 2 => wire'[Len(wire') - 1].is # "LFCR"
        BY <2>1, <2>3, <2>4, <3>4, <4>1
      <4> QED
        BY <2>1, <3>1, <3>2, <4>1, <4>2, <4>3 DEF AllAwaited
    <3> QED
      BY <3>3, <3>4
  <2>6. ASSUME NEW e \in Answer, Due > 1, inbox' = [inbox EXCEPT ![1] = e],
               e.own, e.answer = Tail(inbox[1].answer)
        PROVE  AllOwn' /\ AllAwaited'
    <3>1. /\ Len(e.answer) = Due - 1
          /\ \A i \in 1..(Due - 1) : e.answer[i] = inbox[1].answer[i + 1]
      BY <2>2, <2>3, <2>6, TailParts
    <3>2. inbox' # <<>> /\ Len(inbox') <= 1 /\ inbox'[1] = e
      BY <2>1, <2>2, <2>6
    <3>3. Due' = Due - 1
      BY <3>1, <3>2 DEF Due
    <3>4. AllOwn'
      BY <2>1, <2>4, <2>6, <3>2 DEF AllOwn
    <3>5. CASE wire' = wire \/ Len(wire) + Due <= Len(reads)
      <4>1. Len(wire') + Due' <= Len(reads')
        BY <2>1, <2>3, <2>4, <3>3, <3>5 DEF AllAwaited
      <4> QED
        BY <3>4, <4>1 DEF AllAwaited
    <3>6. CASE wire' # wire /\ ~(Len(wire) + Due <= Len(reads))
      <4>1. /\ Len(wire) + Due = Len(reads) + 1
            /\ reads # <<>> /\ reads[Len(reads)] = "line"
            /\ inbox[1].answer[Due - 1] # "LFCR"
        BY <2>1, <2>3, <2>6, <3>6 DEF AllAwaited
      <4>2. Len(wire') + Due' = Len(reads') + 1
        BY <2>1, <2>3, <2>4, <3>3, <3>6, <4>1
      <4>3. Due' >= 2 => inbox'[1].answer[Due' - 1] # "LFCR"
        <5>1. Due - 1 >= 2 => Due - 2 \in 1..(Due - 1) /\ (Due - 2) + 1 = Due - 1
          BY <2>3
        <5>2. Due - 1 >= 2 => e.answer[Due - 2] = inbox[1].answer[Due - 1]
          BY <3>1, <5>1
        <5>3. Due' - 1 = Due - 2
          BY <2>3, <3>3
        <5> QED
          BY <3>2, <3>3, <4>1, <5>2, <5>3
      <4>4. Due' = 1 => wire'[Len(wire')].is # "LFCR"
        BY <2>3, <2>4, <2>6, <3>3, <3>6, <4>1
      <4>5. Due' # 0
        BY <2>3, <2>6, <3>3
      <4> QED
        BY <2>1, <3>4, <4>1, <4>2, <4>3, <4>4, <4>5 DEF AllAwaited
    <3> QED
      BY <3>5, <3>6
  <2>7. \/ Due = 1 /\ inbox' = Tail(inbox)
        \/ \E e \in Answer : /\ Due > 1 /\ inbox' = [inbox EXCEPT ![1] = e]
                            /\ e.own /\ e.answer = Tail(inbox[1].answer)
    BY <1>1, <2>1, <2>2, SendsParts
  <2> QED
    BY <2>5, <2>6, <2>7
<1>2. CASE Woken
  <2>1. /\ phase = "wake" /\ reads # <<>> /\ wire # <<>>
        /\ wire' = Tail(wire) /\ inbox' = inbox /\ reads' = <<>>
        /\ synced' = Head(wire).own /\ foreign' = FALSE
    BY <1>2 DEF Woken
  <2>2. PICK n \in Nat : n = Len(wire) /\ n >= 1
    BY <2>1 DEF SessionTypeOK
  <2>3. Head(wire) = wire[1]
    BY <2>1 DEF SessionTypeOK
  <2>4. wire[1].own
    BY <2>1, <2>3
  <2>5. n = 1 /\ inbox = <<>>
    BY <2>1, <2>2, <2>4 DEF LastAnswers
  <2>6. wire' = <<>> /\ inbox' = <<>>
    BY <2>1, <2>2, <2>5, TailOfOne DEF SessionTypeOK
  <2> QED
    BY <2>1, <2>6 DEF AllOwn, AllAwaited, Due
<1>3. CASE Send
  <2>1. SessionTypeOK /\ AllOwn /\ AllAwaited /\ reads = <<>> /\ script # <<>>
    BY <1>3 DEF Send
  <2>2. Len(wire) + Due <= 0
    BY <2>1 DEF AllAwaited
  <2>3. wire = <<>> /\ inbox = <<>>
    BY <2>1, <2>2, DueType DEF SessionTypeOK
  <2>4. PICK e \in Exchanges : e = Head(script)
    BY <2>1 DEF SessionTypeOK
  <2>5. e.answer \in Seq(Parts) \ {<<>>} /\ Write(e.answer) /\ reads' = e.reads
    BY <1>3, <2>4 DEF Send, Exchanges
  <2>6. /\ inbox' \in Seq(Answer)
        /\ Len(inbox') = Len(inbox) + 1
        /\ inbox'[Len(inbox')] = [answer |-> e.answer, own |-> TRUE]
    BY <2>1, <2>5, WriteType DEF SessionTypeOK
  <2>7. Len(inbox') = 1 /\ inbox'[1].answer = e.answer /\ inbox'[1].own
    BY <2>3, <2>6
  <2>8. wire' = Stale(wire) /\ foreign' = foreign
    BY <1>3 DEF Send
  <2>9. wire' = <<>>
    <3>1. <<>> \in Seq(Part) /\ Len(<<>>) <= 0
      OBVIOUS
    <3>2. \A t \in Seq(Part) : Len(t) <= 0 => t = <<>>
      OBVIOUS
    <3>3. Stale(<<>>) \in Seq(Part) /\ Len(Stale(<<>>)) <= 0
      BY <3>1, StaleParts
    <3> QED
      BY <2>3, <2>8, <3>2, <3>3
  <2>10. inbox' # <<>> /\ Due' = Len(e.answer)
    BY <2>7, <2>6 DEF Due
  <2>11. AllOwn'
    BY <2>1, <2>7, <2>8, <2>9 DEF AllOwn
  <2>12. AllAwaited'
    BY <2>5, <2>7, <2>9, <2>10 DEF AllAwaited, Exchanges, Whole, Line
  <2> QED
    BY <2>11, <2>12
<1>4. CASE Read
  <2>1. /\ SessionTypeOK /\ AllOwn /\ AllAwaited
        /\ reads # <<>> /\ wire # <<>> /\ wire' = Tail(wire) /\ inbox' = inbox
        /\ foreign' = (foreign \/ ~Head(wire).own)
    BY <1>4 DEF Read
  <2>2. /\ Len(wire) >= 1 /\ Head(wire) = wire[1]
        /\ Len(wire') = Len(wire) - 1
        /\ \A i \in 1..(Len(wire) - 1) : wire'[i] = wire[i + 1]
    BY <2>1 DEF SessionTypeOK
  <2>3. Due' = Due
    BY <2>1 DEF Due
  <2>4. AllOwn'
    BY <2>1, <2>2 DEF AllOwn, SessionTypeOK
  <2>5. CASE reads' = reads
    <3>1. Len(wire) + Due <= Len(reads) + 1
      BY <2>1, DueType DEF AllAwaited
    <3>2. Len(wire') + Due' <= Len(reads')
      BY <2>1, <2>2, <2>3, <2>5, <3>1, DueType
    <3> QED
      BY <2>4, <3>2 DEF AllAwaited
  <2>6. CASE reads' = Tail(reads) /\ (Head(reads) # "line" \/ Head(wire).is = "LFCR")
    <3>1. /\ Len(reads') = Len(reads) - 1 /\ Head(reads) = reads[1]
          /\ \A i \in 1..(Len(reads) - 1) : reads'[i] = reads[i + 1]
      BY <2>1, <2>6 DEF SessionTypeOK
    <3>2. CASE Len(wire) + Due <= Len(reads)
      <4>1. Len(wire') + Due' <= Len(reads')
        BY <2>1, <2>2, <2>3, <3>1, <3>2, DueType
      <4> QED
        BY <2>4, <4>1 DEF AllAwaited
    <3>3. CASE ~(Len(wire) + Due <= Len(reads))
      <4>1. /\ Len(wire) + Due = Len(reads) + 1
            /\ reads[Len(reads)] = "line"
            /\ Due >= 2 => inbox[1].answer[Due - 1] # "LFCR"
            /\ Due = 1 => wire[Len(wire)].is # "LFCR"
            /\ Due = 0 /\ Len(wire) >= 2 => wire[Len(wire) - 1].is # "LFCR"
        BY <2>1, <3>3 DEF AllAwaited
      <4>2. Len(reads) >= 2
        BY <2>1, <2>2, <2>6, <3>1, <4>1, DueType DEF SessionTypeOK
      <4>3. Len(wire') + Due' = Len(reads') + 1
        BY <2>1, <2>2, <2>3, <3>1, <4>1, DueType
      <4>4. reads' # <<>> /\ reads'[Len(reads')] = "line"
        <5>1. Len(reads) - 1 \in 1..(Len(reads) - 1) /\ (Len(reads) - 1) + 1 = Len(reads)
          BY <4>2, DueType, <2>1
        <5>2. reads'[Len(reads) - 1] = "line"
          BY <3>1, <4>1, <5>1
        <5>3. reads' # <<>>
          BY <3>1, <4>2, DueType, <2>1
        <5> QED
          BY <3>1, <5>2, <5>3
      <4>5. /\ Due' >= 2 => inbox'[1].answer[Due' - 1] # "LFCR"
            /\ Due' = 1 /\ wire' # <<>> => wire'[Len(wire')].is # "LFCR"
            /\ Due' = 0 /\ Len(wire') >= 2 => wire'[Len(wire') - 1].is # "LFCR"
        BY <2>1, <2>2, <2>3, <4>1, DueType DEF SessionTypeOK
      <4> QED
        BY <2>4, <4>3, <4>4, <4>5 DEF AllAwaited
    <3> QED
      BY <3>2, <3>3
  <2>7. \/ reads' = reads
        \/ reads' = Tail(reads) /\ (Head(reads) # "line" \/ Head(wire).is = "LFCR")
    BY <1>4 DEF Read
  <2> QED
    BY <2>4, <2>5, <2>6, <2>7
<1>5. CASE Start \/ LineFeed \/ WakeAgain \/ Fails \/ Over
  BY <1>5 DEF Start, LineFeed, WakeAgain, Fails, Over, Close
<1>6. CASE UNCHANGED sessionVars
  BY <1>6 DEF sessionVars, AllOwn, AllAwaited, Due
<1> QED
  BY <1>1, <1>2, <1>3, <1>4, <1>5, <1>6 DEF SessionNext

LEMMA InvAnswersOwn == Inv => AnswersOwn
PROOF
<1> SUFFICES ASSUME Inv, phase = "command", synced
             PROVE  ~foreign /\ (reads = <<>> => inbox = <<>> /\ wire = <<>>)
  BY DEF AnswersOwn
<1>1. SessionTypeOK /\ AllOwn /\ AllAwaited
  BY DEF Inv
<1>2. reads = <<>> => Len(wire) + Due <= 0
  BY <1>1, DueType DEF AllAwaited
<1> QED
  BY <1>1, <1>2, DueType DEF AllOwn, SessionTypeOK

(* However far behind the console is, and whatever is lost or damaged on    *)
(* the line: in a session whose wake-up was answered to its last line feed, *)
(* no command of vantage_proc, vantage_pread or the tool reads a part of    *)
(* the answer to an earlier request.                                        *)
THEOREM SessionAnswersOwn == SessionSpec => []AnswersOwn
PROOF
<1>1. Inv /\ [SessionNext]_sessionVars => Inv'
  BY TypeStep, LastAnswersStep, SyncedStep DEF Inv
<1> QED
  BY InvInit, <1>1, InvAnswersOwn, PTL DEF SessionSpec
============================================================================
