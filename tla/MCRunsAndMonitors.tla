------------------------- MODULE MCRunsAndMonitors -------------------------
(* The runner and the monitors, which share no state, in one run.  A       *)
(* behaviour is one of one component, chosen at the start; the other keeps *)
(* its initial state, so that the state spaces add and do not multiply.    *)
EXTENDS MCInvestigationRunner, MonitorScheduler

VARIABLE focus

RunsOrMonitorsInit ==
  /\ focus \in {"runner", "monitors"}
  /\ Init
  /\ MonitorInit

RunsOrMonitorsNext ==
  \/ focus = "runner" /\ Next /\ UNCHANGED <<focus, monitorVars>>
  \/ focus = "monitors" /\ MonitorNext /\ UNCHANGED <<focus, vars>>

\* In its initial state a component has nothing to be fair about.
RunsOrMonitorsSpec ==
  /\ RunsOrMonitorsInit /\ [][RunsOrMonitorsNext]_<<focus, vars, monitorVars>>
  /\ Fairness
  /\ MonitorFairness
=============================================================================
