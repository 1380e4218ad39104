-------------------------- MODULE MonitorScheduler --------------------------
(***************************************************************************)
(* Monitors: the scheduler loop of src/argus/main.py, the check of one     *)
(* monitor (monitor_scheduler.py), the monitor routes (api/routes/         *)
(* monitors.py) and the retention cleanup the loop runs (retention.py).    *)
(*                                                                         *)
(* A round of checks works on the rows it read when it started; users edit *)
(* the rows meanwhile.  An investigation run by a check either completes   *)
(* with some evidence or ends with an exception (InvestigationRunner).     *)
(* The clock is abstracted to whether a monitor's next_check has come.     *)
(***************************************************************************)
EXTENDS Naturals

CONSTANTS
  Monitor,              \* ids of monitors rows
  Fingerprint,          \* SHA-256 digests of evidence
  ForeignKeysEnforced,  \* the database checks foreign keys (PostgreSQL)
  MaxRestarts,          \* bound: how often the process is killed
  None                  \* SQL NULL

ASSUME SchedulerAssumption ==
  /\ ForeignKeysEnforced \in BOOLEAN
  /\ MaxRestarts \in Nat
  /\ None \notin Fingerprint

VARIABLES
  life,       \* whether the row of a monitor exists: its id is never used again
  row,        \* monitors
  gathering,  \* the loop awaits a round of checks
  check,      \* the check of a monitor in this round
  restarts    \* how often the process was killed

monitorVars == <<life, row, gathering, check, restarts>>

\* last_investigation_id: none yet, with its evidence, or a dangling number.
Baseline == {"none", "kept", "purged"}

Row == [active : BOOLEAN,
        due    : BOOLEAN,                       \* next_check has come
        hash   : Fingerprint \union {None},     \* last_hash
        last   : Baseline]

NewRow == [active |-> TRUE, due |-> FALSE, hash |-> None, last |-> "none"]

Check == [phase : {"idle", "listed", "running", "ran", "alerting"},
          was   : Row,                            \* the row the poll read
          found : Fingerprint \union {None}]      \* new_hash

NoCheck == [phase |-> "idle", was |-> NewRow, found |-> None]

MonitorTypeOK ==
  /\ life \in [Monitor -> {"absent", "present", "deleted"}]
  /\ row \in [Monitor -> Row]
  /\ gathering \in BOOLEAN
  /\ check \in [Monitor -> Check]
  /\ restarts \in 0..MaxRestarts

MonitorInit ==
  /\ life = [m \in Monitor |-> "absent"]
  /\ row = [m \in Monitor |-> NewRow]
  /\ gathering = FALSE
  /\ check = [m \in Monitor |-> NoCheck]
  /\ restarts = 0

Exists(m) == life[m] = "present"

-----------------------------------------------------------------------------
(* The routes, at any time                                                 *)

CreateMonitor(m) ==
  /\ life[m] = "absent"
  /\ life' = [life EXCEPT ![m] = "present"]
  /\ UNCHANGED <<row, gathering, check, restarts>>

\* PATCH: `active`, and a new schedule, which moves next_check ahead.
UpdateMonitor(m) ==
  /\ Exists(m)
  /\ \E active \in BOOLEAN, due \in {FALSE, row[m].due} :
       row' = [row EXCEPT ![m].active = active, ![m].due = due]
  /\ UNCHANGED <<life, gathering, check, restarts>>

DeleteMonitor(m) ==
  /\ Exists(m)
  /\ life' = [life EXCEPT ![m] = "deleted"]
  /\ row' = [row EXCEPT ![m] = NewRow]
  /\ UNCHANGED <<gathering, check, restarts>>

\* check-now, or the clock: next_check is not in the future any more.
BecomeDue(m) ==
  /\ Exists(m)
  /\ row' = [row EXCEPT ![m].due = TRUE]
  /\ UNCHANGED <<life, gathering, check, restarts>>

-----------------------------------------------------------------------------
(* The loop.  A definition with the parameters of the next one and no      *)
(* comment of its own is a faulty variant of it, used to test that the     *)
(* properties below can fail.                                              *)

Due == {m \in Monitor : Exists(m) /\ row[m].active /\ row[m].due}

ListedOne == {CHOOSE m \in Due : TRUE}
Listed == Due

\* The rows of the due monitors are read and a round of checks starts.
Poll ==
  /\ ~gathering
  /\ Due # {}
  /\ gathering' = TRUE
  /\ check' = [m \in Monitor |->
                 IF m \in Listed
                 THEN [phase |-> "listed", was |-> row[m], found |-> None]
                 ELSE NoCheck]
  /\ UNCHANGED <<life, row, restarts>>

\* _run_monitor creates the investigation, from what the poll read.
BeginCheck(m) ==
  /\ check[m].phase = "listed"
  /\ check' = [check EXCEPT ![m].phase = "running"]
  /\ UNCHANGED <<life, row, gathering, restarts>>

\* run_investigation raised: gather keeps the exception, nobody looks at it.
EndedFailed(m) == [check[m] EXCEPT !.phase = "failed"]
Ended(m) == NoCheck

RunDies(m) ==
  /\ check[m].phase = "running"
  /\ check' = [check EXCEPT ![m] = Ended(m)]
  /\ UNCHANGED <<life, row, gathering, restarts>>

\* run_investigation returned, with evidence of some fingerprint.
RunEnds(m) ==
  /\ check[m].phase = "running"
  /\ \E f \in Fingerprint :
       check' = [check EXCEPT ![m].phase = "ran", ![m].found = f]
  /\ UNCHANGED <<life, row, gathering, restarts>>

\* `if monitor.last_hash and monitor.last_hash != new_hash`, with the
\* last_hash the poll read.
Changed(c) == c.was.hash # None /\ c.was.hash # c.found

\* The update of the row, whatever it is by now: next_check moves ahead.
SavedUnlessChanged(r, c) ==
  [r EXCEPT !.due = FALSE, !.hash = IF Changed(c) THEN @ ELSE c.found]
Saved(r, c) == [r EXCEPT !.due = FALSE, !.hash = c.found, !.last = "kept"]

\* The comparison and its commit; an alert follows if something changed.
Compare(m) ==
  /\ check[m].phase = "ran"
  /\ IF Exists(m)
     THEN row' = [row EXCEPT ![m] = Saved(@, check[m])]
     ELSE UNCHANGED row
  /\ check' = [check EXCEPT ![m] =
                 IF Changed(@) THEN [@ EXCEPT !.phase = "alerting"] ELSE NoCheck]
  /\ UNCHANGED <<life, gathering, restarts>>

\* Telegram and the webhook get the alert, or fail and are not asked again.
SendAlert(m) ==
  /\ check[m].phase = "alerting"
  /\ check' = [check EXCEPT ![m] = NoCheck]
  /\ UNCHANGED <<life, row, gathering, restarts>>

\* asyncio.gather returns when every check has.
EndRound ==
  /\ gathering
  /\ \A m \in Monitor : check[m] = NoCheck
  /\ gathering' = FALSE
  /\ UNCHANGED <<life, row, check, restarts>>

\* cleanup_old_data, between rounds: the investigations of a prefix of time
\* go, among them last investigations of the monitors in S.  A completed one
\* has a chain_of_custody row that refers to it.
CleanupAnytime == TRUE
CleanupMayRun == ~gathering

CleanupOldData ==
  /\ CleanupMayRun
  /\ ~ForeignKeysEnforced
  /\ \E S \in SUBSET {m \in Monitor : Exists(m) /\ row[m].last = "kept"} :
       row' = [m \in Monitor |->
                 IF m \in S THEN [row[m] EXCEPT !.last = "purged"] ELSE row[m]]
  /\ UNCHANGED <<life, gathering, check, restarts>>

\* Killed and started again, or cancelled by a signal.
Restart ==
  /\ restarts < MaxRestarts
  /\ restarts' = restarts + 1
  /\ gathering' = FALSE
  /\ check' = [m \in Monitor |-> NoCheck]
  /\ UNCHANGED <<life, row>>

-----------------------------------------------------------------------------
Route(m) ==
  CreateMonitor(m) \/ UpdateMonitor(m) \/ DeleteMonitor(m) \/ BecomeDue(m)

RunMonitor(m) ==
  BeginCheck(m) \/ RunDies(m) \/ RunEnds(m) \/ Compare(m) \/ SendAlert(m)

MonitorNext ==
  \/ \E m \in Monitor : Route(m)
  \/ Poll
  \/ \E m \in Monitor : RunMonitor(m)
  \/ EndRound
  \/ CleanupOldData
  \/ Restart

MonitorSpec == MonitorInit /\ [][MonitorNext]_monitorVars

\* The loop goes on, and an investigation ends one way or the other.
MonitorFairness ==
  /\ WF_monitorVars(Poll)
  /\ WF_monitorVars(EndRound)
  /\ \A m \in Monitor : WF_monitorVars(RunMonitor(m))

MonitorFairSpec == MonitorSpec /\ MonitorFairness

-----------------------------------------------------------------------------
(* Properties                                                              *)

\* What a check compares with is still the monitor's baseline when it does,
\* although it was read when the round started: no other check, and no
\* cleanup, has replaced the fingerprint or removed the evidence since.
BaselineIsCurrent ==
  \A m \in Monitor :
    check[m].phase \in {"listed", "running", "ran"} /\ Exists(m) =>
      /\ check[m].was.hash = row[m].hash
      /\ check[m].was.last = row[m].last

\* An alert never comes before the change is the new baseline, so the same
\* change is not announced twice, by a later round or after a crash.
AlertsFollowTheSave ==
  \A m \in Monitor :
    check[m].phase = "alerting" /\ Exists(m) =>
      row[m].hash = check[m].found /\ row[m].hash # check[m].was.hash

\* A monitor that stays active and due is checked, whatever becomes of the
\* checks of other monitors and of its own earlier ones.
DueMonitorsAreChecked ==
  \A m \in Monitor : m \in Due ~> m \notin Due \/ check[m].phase = "running"
=============================================================================
