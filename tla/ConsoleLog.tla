---------------------------- MODULE ConsoleLog ----------------------------
(* The archive a console keeps, as the drivers promise it to their callers. *)
(* Records are numbered in the order they are written, from 1, and the      *)
(* number stands for the time of the record: record times grow. The console *)
(* keeps the last LogSize of them.                                          *)
EXTENDS Integers

CONSTANT LogSize       \* capacity of the console's archive

ASSUME LogSizeAssumption == LogSize \in Nat \ {0}

(* The oldest record of a console that has written c of them. *)
OldestAt(c) == IF c > LogSize THEN c - LogSize + 1 ELSE 1

(* The first record after a given time that such a console can return. *)
FirstAfter(c, after) == IF after < OldestAt(c) THEN OldestAt(c) ELSE after + 1

(* drv_get_ar(buf, n, after): the n oldest records after the given time. *)
FetchedAt(c, after, n) ==
  LET first == FirstAfter(c, after)
  IN  {t \in first..c : t < first + n}
===========================================================================
