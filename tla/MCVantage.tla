------------------------------- MODULE MCVantage -------------------------------
(***************************************************************************)
(* The Vantage console seen by a dump of its archive, or by the sessions   *)
(* that make the other commands: a behaviour is one of either.             *)
(***************************************************************************)
EXTENDS VantageDump, VantageSession

VARIABLE watched

allVars == <<vars, sessionVars, watched>>

VantageInit ==
    /\ Init
    /\ SessionInit
    /\ watched \in {"dump", "session"}
    /\ watched = "session" => clock = 0

VantageNext ==
    \/ watched = "dump" /\ Next /\ UNCHANGED <<sessionVars, watched>>
    \/ watched = "session" /\ SessionNext /\ UNCHANGED <<vars, watched>>

VantageSpec ==
    VantageInit /\ [][VantageNext]_allVars /\ WF_vars(watched = "dump" /\ Library)

================================================================================
