------------------------------ MODULE MCPublish ------------------------------
(***************************************************************************)
(* What becomes of readings and records once they are taken: the board and *)
(* its readers on one hand, the StatIC service on the other. The two share *)
(* nothing: a behaviour is one of either.                                  *)
(***************************************************************************)
EXTENDS Readers, StatIC

VARIABLE watched

vars_ == <<readersVars, icVars, watched>>

PublishInit ==
    /\ ReadersInit
    /\ IcInit
    /\ watched \in {"board", "static"}
    /\ watched = "board" => freq = Interval

PublishNext ==
    \/ watched = "board" /\ ReadersNext /\ UNCHANGED <<icVars, watched>>
    \/ watched = "static" /\ IcNext /\ UNCHANGED <<readersVars, watched>>

PublishSpec == PublishInit /\ [][PublishNext]_vars_

==============================================================================
