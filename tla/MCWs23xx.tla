------------------------------ MODULE MCWs23xx -------------------------------
(***************************************************************************)
(* A console whose sensors are heard, lost or half heard, a history of     *)
(* three slots that wraps, and one request of each kind.                   *)
(***************************************************************************)
EXTENDS Ws23xx, TLC

(* 0x373: temperature, 0x419: humidity, 0x527: wind overflow and validity, *)
(* 0x529: wind speed, 0x54d: connection.  All else is 0.                   *)
Heard == (883 :> 0 @@ 884 :> 5 @@ 885 :> 1 @@ 886 :> 5
            @@ 1049 :> 5 @@ 1050 :> 6 @@ 1321 :> 4 @@ 1357 :> 15)

Lost == (883 :> 10 @@ 884 :> 10 @@ 885 :> 10 @@ 886 :> 10
           @@ 1049 :> 10 @@ 1050 :> 10 @@ 1319 :> 1 @@ 1320 :> 2 @@ 1357 :> 1)

HalfHeard == (883 :> 0 @@ 884 :> 0 @@ 885 :> 11 @@ 886 :> 0
                @@ 1049 :> 10 @@ 1050 :> 6 @@ 1320 :> 1)

MCImages == {Heard, Lost, HalfHeard}

(* Out of order, one of them twice; and three that make an area of two     *)
(* exchanges.                                                              *)
MCToolReads ==
    {<<Row(1321, 3), Row(838, 4), Row(1321, 3), Row(842, 5)>>,
     <<Row(1010, 10), Row(1000, 10), Row(1020, 14)>>}

MCHexReads == {Row(900, 33)}

(* A write, and one that is too long for an exchange.                      *)
MCSets ==
    {[addr |-> 101, nnyb |-> 3, value |-> 513],
     [addr |-> 100, nnyb |-> 31, value |-> 1]}

MCArTimers == {[itmin |-> 10, next |-> 0], [itmin |-> 0, next |-> 1]}

==============================================================================
