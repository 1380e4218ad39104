----------------------- MODULE MonitorSchedulerProofs -----------------------
(***************************************************************************)
(* Proofs about MonitorScheduler.  A check trusts the row its round read;  *)
(* Rounds says why it may: checks belong to a round, a round to a monitor  *)
(* that exists or was deleted since, and nothing else writes a baseline    *)
(* while a round is on.                                                    *)
(***************************************************************************)
EXTENDS MonitorScheduler, TLAPS

ChecksBelongToRound ==
  \A m \in Monitor :
    check[m].phase # "idle" => gathering /\ life[m] # "absent"

Rounds ==
  /\ MonitorTypeOK
  /\ ChecksBelongToRound
  /\ BaselineIsCurrent
  /\ AlertsFollowTheSave

\* A new monitor's row, which is also what a deleted one leaves.
LEMMA NewRowType == NewRow \in Row /\ NoCheck \in Check
  BY DEF NewRow, NoCheck, Row, Check, Baseline

LEMMA RoundsInit == MonitorInit => Rounds
<1> SUFFICES ASSUME MonitorInit PROVE Rounds
  OBVIOUS
<1>1. MonitorTypeOK
  <2>1. row \in [Monitor -> Row] /\ check \in [Monitor -> Check]
    BY NewRowType DEF MonitorInit
  <2>2. life \in [Monitor -> {"absent", "present", "deleted"}]
    BY DEF MonitorInit
  <2>3. gathering \in BOOLEAN
    BY DEF MonitorInit
  <2>4. restarts = 0 /\ 0 \in 0..MaxRestarts
    <3>1. MaxRestarts \in Nat
      BY SchedulerAssumption
    <3> QED BY <3>1 DEF MonitorInit
  <2> QED BY <2>1, <2>2, <2>3, <2>4 DEF MonitorTypeOK
<1>2. \A m \in Monitor : check[m].phase = "idle"
  BY DEF MonitorInit, NoCheck
<1>3. ChecksBelongToRound /\ BaselineIsCurrent /\ AlertsFollowTheSave
  BY <1>2 DEF ChecksBelongToRound, BaselineIsCurrent, AlertsFollowTheSave
<1> QED BY <1>1, <1>3 DEF Rounds

-----------------------------------------------------------------------------
(* The parts of Rounds are kept by every step.                             *)

LEMMA TypeStep == MonitorTypeOK /\ [MonitorNext]_monitorVars => MonitorTypeOK'
<1> SUFFICES ASSUME MonitorTypeOK, [MonitorNext]_monitorVars
             PROVE  MonitorTypeOK'
  OBVIOUS
<1> USE NewRowType, SchedulerAssumption DEF MonitorTypeOK
<1>1. ASSUME NEW m \in Monitor, Route(m)
      PROVE  MonitorTypeOK'
  <2>1. CASE CreateMonitor(m)
    BY <2>1 DEF CreateMonitor
  <2>2. CASE UpdateMonitor(m)
    <3>1. PICK active \in BOOLEAN, due \in {FALSE, row[m].due} :
            row' = [row EXCEPT ![m] = [row[m] EXCEPT !.active = active,
                                                     !.due = due]]
      BY <2>2 DEF UpdateMonitor
    <3>2. row[m] \in Row
      OBVIOUS
    <3>3. [row[m] EXCEPT !.active = active, !.due = due] \in Row
      BY <3>1, <3>2 DEF Row
    <3>4. row' \in [Monitor -> Row]
      BY <3>1, <3>3
    <3> QED BY <2>2, <3>4 DEF UpdateMonitor
  <2>3. CASE DeleteMonitor(m)
    BY <2>3 DEF DeleteMonitor
  <2>4. CASE BecomeDue(m)
    BY <2>4 DEF BecomeDue, Row
  <2> QED BY <1>1, <2>1, <2>2, <2>3, <2>4 DEF Route
<1>2. CASE Poll
  <2>1. ASSUME NEW m \in Monitor
        PROVE  [phase |-> "listed", was |-> row[m], found |-> None] \in Check
    BY DEF Check
  <2> QED BY <1>2, <2>1 DEF Poll
<1>3. ASSUME NEW m \in Monitor, RunMonitor(m)
      PROVE  MonitorTypeOK'
  <2>1. CASE BeginCheck(m)
    BY <2>1 DEF BeginCheck, Check
  <2>2. CASE RunDies(m)
    BY <2>2 DEF RunDies, Ended
  <2>3. CASE RunEnds(m)
    <3>1. PICK f \in Fingerprint :
            check' = [check EXCEPT ![m] = [check[m] EXCEPT !.phase = "ran",
                                                           !.found = f]]
      BY <2>3 DEF RunEnds
    <3>2. check[m] \in Check
      OBVIOUS
    <3>3. [check[m] EXCEPT !.phase = "ran", !.found = f] \in Check
      BY <3>2 DEF Check
    <3>4. check' \in [Monitor -> Check]
      BY <3>1, <3>3
    <3> QED BY <2>3, <3>4 DEF RunEnds
  <2>4. CASE Compare(m)
    <3> DEFINE c == check[m]
    <3>1. c \in Check /\ [c EXCEPT !.phase = "alerting"] \in Check
      BY DEF Check
    <3>2. check' \in [Monitor -> Check]
      BY <2>4, <3>1 DEF Compare
    <3>3. row[m] \in Row
      OBVIOUS
    <3>4. c.phase = "ran"
      BY <2>4 DEF Compare
    <3>5. Saved(row[m], c) \in Row
      BY <3>1, <3>3 DEF Saved, Row, Check, Baseline
    <3>6. row' \in [Monitor -> Row]
      BY <2>4, <3>5 DEF Compare
    <3> QED BY <2>4, <3>2, <3>6 DEF Compare
  <2>5. CASE SendAlert(m)
    BY <2>5 DEF SendAlert
  <2> QED BY <1>3, <2>1, <2>2, <2>3, <2>4, <2>5 DEF RunMonitor
<1>4. CASE EndRound
  BY <1>4 DEF EndRound
<1>5. CASE CleanupOldData
  <2>1. ASSUME NEW m \in Monitor
        PROVE  [row[m] EXCEPT !.last = "purged"] \in Row
    BY DEF Row, Baseline
  <2> QED BY <1>5, <2>1 DEF CleanupOldData
<1>6. CASE Restart
  <2>1. restarts \in Nat /\ restarts < MaxRestarts /\ restarts' = restarts + 1
    BY <1>6 DEF Restart
  <2>2. restarts' \in 0..MaxRestarts
    BY <2>1
  <2> QED BY <1>6, <2>2 DEF Restart
<1>7. CASE UNCHANGED monitorVars
  BY <1>7 DEF monitorVars
<1> QED BY <1>1, <1>2, <1>3, <1>4, <1>5, <1>6, <1>7 DEF MonitorNext

LEMMA RoundStep ==
  Rounds /\ [MonitorNext]_monitorVars =>
    ChecksBelongToRound' /\ BaselineIsCurrent' /\ AlertsFollowTheSave'
<1> SUFFICES ASSUME Rounds, [MonitorNext]_monitorVars
             PROVE  /\ ChecksBelongToRound'
                    /\ BaselineIsCurrent'
                    /\ AlertsFollowTheSave'
  OBVIOUS
<1>0. MonitorTypeOK /\ MonitorTypeOK'
  BY TypeStep DEF Rounds
<1> USE <1>0 DEF Rounds, MonitorTypeOK, ChecksBelongToRound,
                 BaselineIsCurrent, AlertsFollowTheSave, Exists, NoCheck
<1>1. ASSUME NEW m \in Monitor, Route(m)
      PROVE  /\ ChecksBelongToRound'
             /\ BaselineIsCurrent'
             /\ AlertsFollowTheSave'
  <2>1. CASE CreateMonitor(m)
    BY <2>1 DEF CreateMonitor
  <2>2. CASE UpdateMonitor(m)
    BY <2>2 DEF UpdateMonitor, Row
  <2>3. CASE DeleteMonitor(m)
    BY <2>3 DEF DeleteMonitor
  <2>4. CASE BecomeDue(m)
    BY <2>4 DEF BecomeDue, Row
  <2> QED BY <1>1, <2>1, <2>2, <2>3, <2>4 DEF Route
<1>2. CASE Poll
  BY <1>2 DEF Poll, Due, Listed
<1>3. ASSUME NEW m \in Monitor, RunMonitor(m)
      PROVE  /\ ChecksBelongToRound'
             /\ BaselineIsCurrent'
             /\ AlertsFollowTheSave'
  <2>0. check[m] \in Check
    OBVIOUS
  <2>1. CASE BeginCheck(m)
    BY <2>0, <2>1 DEF BeginCheck, Check
  <2>2. CASE RunDies(m)
    BY <2>2 DEF RunDies, Ended
  <2>3. CASE RunEnds(m)
    BY <2>0, <2>3 DEF RunEnds, Check
  <2>4. CASE Compare(m)
    <3>1. \A n \in Monitor \ {m} : check'[n] = check[n] /\ row'[n] = row[n]
      BY <2>4 DEF Compare
    <3>2. /\ life' = life /\ gathering' = gathering
          /\ check[m].phase = "ran"
      BY <2>4 DEF Compare
    <3>3. CASE ~Changed(check[m])
      <4>1. check'[m] = NoCheck
        BY <2>4, <3>3 DEF Compare
      <4> QED BY <3>1, <3>2, <4>1
    <3>4. CASE Changed(check[m])
      <4>1. /\ check'[m].phase = "alerting"
            /\ check'[m].was = check[m].was
            /\ check'[m].found = check[m].found
        BY <2>0, <2>4, <3>4 DEF Compare, Check
      <4>2. Exists(m) => row'[m].hash = check[m].found
        <5>1. row[m] \in Row /\ Saved(row[m], check[m]).hash = check[m].found
          BY DEF Saved, Row
        <5>2. Exists(m) => row'[m] = Saved(row[m], check[m])
          BY <2>4 DEF Compare
        <5> QED BY <5>1, <5>2
      <4>3. check[m].was.hash # check[m].found
        BY <3>4 DEF Changed
      <4> QED BY <3>1, <3>2, <4>1, <4>2, <4>3
    <3> QED BY <3>3, <3>4
  <2>5. CASE SendAlert(m)
    BY <2>5 DEF SendAlert
  <2> QED BY <1>3, <2>1, <2>2, <2>3, <2>4, <2>5 DEF RunMonitor
<1>4. CASE EndRound
  BY <1>4 DEF EndRound
<1>5. CASE CleanupOldData
  BY <1>5 DEF CleanupOldData, CleanupMayRun
<1>6. CASE Restart
  BY <1>6 DEF Restart
<1>7. CASE UNCHANGED monitorVars
  BY <1>7 DEF monitorVars
<1> QED BY <1>1, <1>2, <1>3, <1>4, <1>5, <1>6, <1>7 DEF MonitorNext

LEMMA RoundsInvariant == MonitorSpec => []Rounds
<1>1. MonitorInit => Rounds
  BY RoundsInit
<1>2. Rounds /\ [MonitorNext]_monitorVars => Rounds'
  BY TypeStep, RoundStep DEF Rounds
<1> QED BY <1>1, <1>2, PTL DEF MonitorSpec

-----------------------------------------------------------------------------
(* The theorems                                                            *)

\* The variables keep their types, whoever edits or deletes a monitor during
\* a round of checks.
THEOREM MonitorTypes == MonitorSpec => []MonitorTypeOK
<1>1. Rounds => MonitorTypeOK
  BY DEF Rounds
<1> QED BY <1>1, RoundsInvariant, PTL

\* The row a check read when its round started still holds the baseline it is
\* compared with (_run_monitor uses a row read by the poll).
THEOREM BaselinesAreCurrent == MonitorSpec => []BaselineIsCurrent
<1>1. Rounds => BaselineIsCurrent
  BY DEF Rounds
<1> QED BY <1>1, RoundsInvariant, PTL

\* Whenever an alert is about to be sent, its change is the saved baseline.
THEOREM AlertsComeAfterTheSave == MonitorSpec => []AlertsFollowTheSave
<1>1. Rounds => AlertsFollowTheSave
  BY DEF Rounds
<1> QED BY <1>1, RoundsInvariant, PTL
=============================================================================
