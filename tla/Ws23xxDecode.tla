---------------------------- MODULE Ws23xxDecode -----------------------------
(***************************************************************************)
(* The conversions of the WS23XX's nybbles.  A field is a sequence of      *)
(* nybbles, least significant first, as it lies in the console's memory;   *)
(* a sensor that is not heard of leaves nybbles above 9 in it.             *)
(* Temperatures are counted in hundredths of a degree.                     *)
(***************************************************************************)
EXTENDS Integers, Sequences, SequencesExt

Nybble == 0..15

(* Nybbles to a number: from the most significant one down to the first    *)
(* that is no digit of the base, where it stops with what it has.          *)
nybtoul(nybs, base) ==
    FoldRight(LAMBDA v, res : IF res.ended \/ v >= base
                              THEN [res EXCEPT !.ended = TRUE]
                              ELSE [res EXCEPT !.value = base * @ + v],
              nybs, [value |-> 0, ended |-> FALSE]).value

(* A number to n nybbles: the rest, what does not fit, is lost.            *)
ultonyb(n, v, base) == [i \in 1..n |-> (v \div base^(i - 1)) % base]

temp(nybs) == nybtoul(nybs, 10) - 3000

humidity(nybs) == nybtoul(nybs, 10)

speed(nybs) == nybtoul(nybs, 16)

(* The connection types of a console that hears its sensors.               *)
Connected == {0, 15}

(* What the reading reports before the limits: the indoor fields always,   *)
(* the outdoor ones when connected, the wind when neither flag is up.      *)
Reported(cnx, overflow, invalid) ==
    {"in_temp", "in_humidity", "pressure", "barometer"}
        \cup (IF cnx \in Connected
              THEN {"temp", "humidity", "rain", "dew_point"} ELSE {})
        \cup (IF cnx \in Connected /\ invalid = 0 /\ overflow = 0
              THEN {"wind_speed", "wind_dir", "windchill"} ELSE {})

(* The fields the limits take away.  69.9 and 59.9 degrees, stored as      *)
(* float, are above the double they are compared with: from there on the   *)
(* limit is passed.  The indoor limits look at the outdoor values.         *)
OutOfRange(v) ==
    (IF v.temp < -2990 \/ v.temp >= 6990 THEN {"temp"} ELSE {})
        \cup (IF v.humidity < 10 \/ 99 < v.humidity
              THEN {"humidity"} ELSE {})
        \cup (IF 500 < v.wind_speed THEN {"wind_speed"} ELSE {})
        \cup (IF v.in_temp < -990 \/ v.temp >= 5990 THEN {"in_temp"} ELSE {})
        \cup (IF v.humidity < 1 \/ 99 < v.humidity
              THEN {"in_humidity"} ELSE {})

(* The mask of a reading that forgets the limits.                          *)
MaskUnlimited(v, cnx, overflow, invalid) == Reported(cnx, overflow, invalid)

(* The fields a reading reports.                                           *)
Mask(v, cnx, overflow, invalid) ==
    Reported(cnx, overflow, invalid) \ OutOfRange(v)

(* The countdown to the console's next reading, in half seconds, and what  *)
(* the driver makes of it: the period and the first tick in seconds, or    *)
(* nothing when the sensors are not connected.  lround rounds halves up.   *)
RtTimer(cnx, countdown) ==
    CASE cnx = 0  -> [period |-> 8, first |-> (countdown + 1) \div 2 + 2]
      [] cnx = 15 -> [period |-> 128, first |-> (countdown + 1) \div 2 + 10]
      [] OTHER    -> [period |-> 0, first |-> 0]

==============================================================================
