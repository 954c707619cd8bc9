----------------------------- MODULE MCWorker -----------------------------
(* Configurations of wslogd for Worker. *)
EXTENDS Worker

\* StatIC enabled.
WithIC == {<<"sensor", "archive", "ic">>}

\* Weather Underground enabled.
WithWunder == {<<"sensor", "archive", "wunder">>}

\* The administrator enables one service or the other, then reloads.
Either == WithIC \cup WithWunder
============================================================================
