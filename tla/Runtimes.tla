------------------------------- MODULE Runtimes -------------------------------
(***************************************************************************)
(* The cluster on either runtime (cluster.py takes the runtime as an       *)
(* argument, live_cluster.py passes the one on asyncio).  The program      *)
(* never spawns a killed id again; AsyncRuntime is checked beyond that.    *)
(***************************************************************************)
EXTENDS ActorRuntime

VARIABLE mode      \* "sim" or "live"

Sim == INSTANCE SimClock WITH MaxIncarnations <- 1
Live == INSTANCE AsyncRuntime

RuntimesInit == Init /\ mode \in {"sim", "live"}

SimNext == mode = "sim" /\ Sim!Next /\ UNCHANGED mode
LiveNext == mode = "live" /\ Live!Next /\ UNCHANGED mode

RuntimesFairness ==
  /\ mode = "sim" => Sim!Fairness
  /\ mode = "live" => Live!Fairness

RuntimesSpec ==
  RuntimesInit /\ [][SimNext \/ LiveNext]_<<vars, mode>> /\ RuntimesFairness
=============================================================================
