---------------------------- MODULE RunnerProofs ----------------------------
(***************************************************************************)
(* Proofs about InvestigationRunner.  AllOrNothing needs that a coroutine  *)
(* has a result exactly from its delivery on (ResultsAreDelivered), and    *)
(* BulkStopsAtFirstDeath that the tasks of a request are what is left of   *)
(* its targets once the completed ones are taken off (TasksAreSuffix).     *)
(***************************************************************************)
EXTENDS InvestigationRunner, TLAPS

ResultsAreDelivered ==
  \A i \in Investigation, p \in Plugin :
    /\ result[i][p] # "none" <=>
         plugin[i][p] \in {"flushing", "delivered", "lost"}
    /\ p \notin PluginsOf[i] => plugin[i][p] = "idle"

Ended(r) == Len(Submitted[r]) - Len(tasks[r])

TasksAreSuffix ==
  \A r \in Request :
    tasks[r] # <<>> =>
      /\ Len(tasks[r]) <= Len(Submitted[r])
      /\ \A k \in 1..Len(tasks[r]) : tasks[r][k] = Submitted[r][Ended(r) + k]
      /\ \A k \in 1..Ended(r) : status[Submitted[r][k]] = "completed"

Runner ==
  /\ RunnerTypeOK
  /\ ResultsAreDelivered
  /\ AllOrNothing

Bulk ==
  /\ Runner
  /\ TasksAreSuffix
  /\ BulkStopsAtFirstDeath

-----------------------------------------------------------------------------
(* Types.                                                                  *)

LEMMA IdleTypes ==
  /\ AllIdle \in [Plugin -> PluginState]
  /\ Nothing \in [Plugin -> Stored]
  BY DEF AllIdle, Nothing, PluginState, Stored

\* Changing one entry of a table of tables.
LEMMA TableUpdate ==
  ASSUME NEW A, NEW B, NEW V, NEW f \in [A -> [B -> V]],
         NEW a \in A, NEW b \in B, NEW v \in V
  PROVE  [f EXCEPT ![a][b] = v] \in [A -> [B -> V]]
  OBVIOUS

LEMMA RunnerTypesInit == Init => RunnerTypeOK
<1> SUFFICES ASSUME Init PROVE RunnerTypeOK
  OBVIOUS
<1>1. crashes = 0 /\ 0 \in 0..MaxCrashes
  <2>1. MaxCrashes \in Nat
    BY RunnerAssumption
  <2> QED BY <2>1 DEF Init
<1>2. tasks \in [Request -> Seq(Investigation)]
  BY DEF Init
<1> QED BY <1>1, <1>2, IdleTypes DEF Init, RunnerTypeOK

LEMMA DeliverTypes ==
  ASSUME RunnerTypeOK, NEW i \in Investigation, NEW p \in Plugin,
         NEW outcome \in Outcome, Deliver(i, p, outcome)
  PROVE  /\ plugin' \in [Investigation -> [Plugin -> PluginState]]
         /\ result' \in [Investigation -> [Plugin -> Stored]]
         /\ UNCHANGED <<status, tasks, evidence, reported, custody, crashes>>
<1>1. outcome \in Stored
  BY DEF Stored
<1>2. result' \in [Investigation -> [Plugin -> Stored]]
  BY <1>1, TableUpdate DEF Deliver, RunnerTypeOK
<1>3. PICK s \in {"flushing", "lost"} : plugin' = [plugin EXCEPT ![i][p] = s]
  BY DEF Deliver
<1>4. plugin' \in [Investigation -> [Plugin -> PluginState]]
  BY <1>3, TableUpdate DEF RunnerTypeOK, PluginState
<1> QED BY <1>2, <1>4 DEF Deliver

LEMMA RunPluginTypes ==
  ASSUME RunnerTypeOK, NEW i \in Investigation, NEW p \in Plugin,
         RunPlugin(i, p)
  PROVE  RunnerTypeOK'
<1> USE DEF RunnerTypeOK
<1>1. CASE Acquire(i, p)
  <2>1. TargetOf[i] \in Target
    BY RunnerAssumption
  <2>2. cache[TargetOf[i]][p] \in Stored
    BY <2>1
  <2>3. CASE cache[TargetOf[i]][p] # "none" /\ Deliver(i, p, cache[TargetOf[i]][p])
                /\ UNCHANGED cache
    <3>1. cache[TargetOf[i]][p] \in Outcome
      BY <2>2, <2>3 DEF Stored
    <3> QED BY <2>3, <3>1, DeliverTypes
  <2>4. CASE plugin' = [plugin EXCEPT ![i][p] = "running"]
                /\ UNCHANGED <<status, tasks, result, cache,
                               evidence, reported, custody, crashes>>
    BY <2>4, TableUpdate DEF PluginState
  <2> QED BY <1>1, <2>3, <2>4 DEF Acquire
<1>2. CASE Retry(i, p)
  BY <1>2, TableUpdate DEF Retry, PluginState
<1>3. CASE Return(i, p)
  <2>1. PICK outcome \in Outcome :
          /\ cache' = [cache EXCEPT ![TargetOf[i]][p] = outcome]
          /\ Deliver(i, p, outcome)
    BY <1>3 DEF Return
  <2>2. TargetOf[i] \in Target /\ outcome \in Stored
    BY RunnerAssumption DEF Stored
  <2>3. cache' \in [Target -> [Plugin -> Stored]]
    BY <2>1, <2>2, TableUpdate
  <2> QED BY <2>1, <2>3, DeliverTypes
<1>4. CASE GiveUp(i, p)
  <2>1. "error" \in Outcome
    BY DEF Outcome
  <2> QED BY <1>4, <2>1, DeliverTypes DEF GiveUp
<1>5. CASE EndFlush(i, p)
  BY <1>5, TableUpdate DEF EndFlush, PluginState
<1> QED BY <1>1, <1>2, <1>3, <1>4, <1>5 DEF RunPlugin

LEMMA RunTypes ==
  ASSUME RunnerTypeOK, NEW r \in Request, NEW i \in Investigation, Run(r, i)
  PROVE  RunnerTypeOK'
<1> USE DEF RunnerTypeOK
<1>0. tasks[r] # <<>> /\ Tail(tasks[r]) \in Seq(Investigation)
  <2>1. tasks[r] \in Seq(Investigation)
    OBVIOUS
  <2>2. tasks[r] # <<>>
    BY DEF Run, Begin, Collect, Runs
  <2> QED BY <2>1, <2>2
<1>1. CASE Begin(r, i)
  <2>1. CASE PluginsOf[i] = {}
    BY <1>0, <1>1, <2>1 DEF Begin
  <2>2. CASE PluginsOf[i] # {}
    <3>1. [p \in Plugin |-> IF p \in PluginsOf[i] THEN "queued" ELSE "idle"]
            \in [Plugin -> PluginState]
      BY DEF PluginState
    <3> QED BY <1>1, <2>2, <3>1 DEF Begin
  <2> QED BY <2>1, <2>2
<1>2. CASE Collect(r, i)
  <2>1. /\ plugin' \in [Investigation -> [Plugin -> PluginState]]
        /\ result' \in [Investigation -> [Plugin -> Stored]]
        /\ cache' \in [Target -> [Plugin -> Stored]]
        /\ crashes' \in 0..MaxCrashes
    BY <1>2, IdleTypes DEF Collect
  <2>2. CASE Combined(i) = {}
    <3>1. In(i, "delivered") \in SUBSET Plugin /\ Combined(i) \in SUBSET Plugin
      BY DEF In, Combined
    <3>2. Committed(i) \in [Plugin -> Stored]
      BY DEF Committed
    <3>3. evidence' \in [Investigation -> [Plugin -> Stored]]
      BY <1>2, <2>2, <3>2 DEF Collect
    <3>4. /\ reported' \in [Investigation -> SUBSET Plugin]
          /\ custody' \in [Investigation -> SUBSET Plugin]
      BY <1>2, <2>2, <3>1 DEF Collect
    <3>5. /\ status' \in [Investigation -> {"absent", "running", "completed"}]
          /\ tasks' \in [Request -> Seq(Investigation)]
      BY <1>0, <1>2, <2>2 DEF Collect
    <3> QED BY <2>1, <3>3, <3>4, <3>5
  <2>3. CASE Combined(i) # {}
    <3>1. TasksAfterDeath(r) \in Seq(Investigation)
      BY DEF TasksAfterDeath
    <3> QED BY <1>2, <2>1, <2>3, <3>1 DEF Collect
  <2> QED BY <2>2, <2>3
<1> QED BY <1>1, <1>2 DEF Run

LEMMA RunnerTypeStep == RunnerTypeOK /\ [Next]_vars => RunnerTypeOK'
<1> SUFFICES ASSUME RunnerTypeOK, [Next]_vars
             PROVE  RunnerTypeOK'
  OBVIOUS
<1> USE DEF RunnerTypeOK
<1>1. ASSUME NEW r \in Request, Submit(r)
      PROVE  RunnerTypeOK'
  <2>1. Submitted[r] \in Seq(Investigation)
    BY RunnerAssumption
  <2>2. status' \in [Investigation -> {"absent", "running", "completed"}]
    BY <1>1 DEF Submit
  <2> QED BY <1>1, <2>1, <2>2 DEF Submit
<1>2. ASSUME NEW r \in Request, NEW i \in Investigation, Run(r, i)
      PROVE  RunnerTypeOK'
  BY <1>2, RunTypes
<1>3. ASSUME NEW i \in Investigation, NEW p \in Plugin, RunPlugin(i, p)
      PROVE  RunnerTypeOK'
  BY <1>3, RunPluginTypes
<1>4. ASSUME NEW t \in Target, NEW p \in Plugin, CacheExpires(t, p)
      PROVE  RunnerTypeOK'
  <2>1. "none" \in Stored
    BY DEF Stored
  <2> QED BY <1>4, <2>1, TableUpdate DEF CacheExpires
<1>5. CASE Crash
  <2>1. crashes' \in 0..MaxCrashes
    <3>1. crashes < MaxCrashes /\ crashes' = crashes + 1 /\ crashes \in Nat
      BY <1>5 DEF Crash
    <3> QED BY <3>1, RunnerAssumption
  <2>2. tasks' \in [Request -> Seq(Investigation)]
    BY <1>5 DEF Crash
  <2> QED BY <1>5, <2>1, <2>2, IdleTypes DEF Crash
<1>6. CASE UNCHANGED vars
  BY <1>6 DEF vars
<1> QED BY <1>1, <1>2, <1>3, <1>4, <1>5, <1>6 DEF Next

-----------------------------------------------------------------------------
(* All or nothing.                                                         *)

LEMMA RunnerInit == Init => Runner
<1> SUFFICES ASSUME Init PROVE Runner
  OBVIOUS
<1>1. \A i \in Investigation, p \in Plugin :
        /\ result[i][p] = "none"
        /\ plugin[i][p] = "idle"
        /\ evidence[i][p] = "none"
        /\ status[i] # "completed"
  BY DEF Init, AllIdle, Nothing
<1> QED BY <1>1, RunnerTypesInit DEF Runner, ResultsAreDelivered, AllOrNothing

\* A delivery gives the coroutine a result and touches no other coroutine.
LEMMA DeliverResults ==
  ASSUME Runner, NEW i \in Investigation, NEW p \in PluginsOf[i],
         p \in Plugin, NEW outcome \in Outcome, Deliver(i, p, outcome)
  PROVE  ResultsAreDelivered' /\ AllOrNothing'
<1> USE DEF Runner, RunnerTypeOK
<1>1. /\ result'[i][p] = outcome
      /\ plugin'[i][p] \in {"flushing", "lost"}
  BY DEF Deliver
<1>2. outcome # "none"
  BY DEF Outcome
<1>3. \A j \in Investigation, q \in Plugin :
        ~(j = i /\ q = p) =>
          result'[j][q] = result[j][q] /\ plugin'[j][q] = plugin[j][q]
  BY DEF Deliver
<1>4. ResultsAreDelivered'
  <2> SUFFICES ASSUME NEW j \in Investigation, NEW q \in Plugin
               PROVE  /\ result'[j][q] # "none" <=>
                           plugin'[j][q] \in {"flushing", "delivered", "lost"}
                      /\ q \notin PluginsOf[j] => plugin'[j][q] = "idle"
    BY DEF ResultsAreDelivered
  <2>1. CASE j = i /\ q = p
    BY <1>1, <1>2, <2>1
  <2>2. CASE ~(j = i /\ q = p)
    <3>1. result'[j][q] = result[j][q] /\ plugin'[j][q] = plugin[j][q]
      BY <1>3, <2>2
    <3> QED BY <3>1 DEF ResultsAreDelivered
  <2> QED BY <2>1, <2>2
<1>5. AllOrNothing'
  BY DEF Deliver, AllOrNothing
<1> QED BY <1>4, <1>5

\* A coroutine that is not idle belongs to the investigation's target type.
LEMMA OnlyPluginsOfTheTypeRun ==
  ASSUME Runner, NEW i \in Investigation, NEW p \in Plugin,
         plugin[i][p] # "idle"
  PROVE  p \in PluginsOf[i]
  BY DEF Runner, ResultsAreDelivered

LEMMA RunPluginResults ==
  ASSUME Runner, NEW i \in Investigation, NEW p \in Plugin, RunPlugin(i, p)
  PROVE  ResultsAreDelivered' /\ AllOrNothing'
<1> USE DEF Runner, RunnerTypeOK
<1>0. p \in PluginsOf[i]
  <2>1. plugin[i][p] # "idle"
    BY DEF RunPlugin, Acquire, Retry, Return, GiveUp, EndFlush
  <2> QED BY <2>1, OnlyPluginsOfTheTypeRun
\* A step that only moves the coroutine, on one side of its delivery.
<1>1. ASSUME NEW s \in PluginState, s # "idle",
             plugin' = [plugin EXCEPT ![i][p] = s],
             s \in {"flushing", "delivered", "lost"} <=>
               plugin[i][p] \in {"flushing", "delivered", "lost"},
             UNCHANGED <<status, result, evidence>>
      PROVE  ResultsAreDelivered' /\ AllOrNothing'
  <2>1. plugin'[i][p] = s
    BY <1>1
  <2>2. \A j \in Investigation, q \in Plugin :
          ~(j = i /\ q = p) => plugin'[j][q] = plugin[j][q]
    BY <1>1
  <2>3. ResultsAreDelivered'
    <3> SUFFICES ASSUME NEW j \in Investigation, NEW q \in Plugin
                 PROVE  /\ result'[j][q] # "none" <=>
                             plugin'[j][q] \in {"flushing", "delivered", "lost"}
                        /\ q \notin PluginsOf[j] => plugin'[j][q] = "idle"
      BY DEF ResultsAreDelivered
    <3>1. CASE j = i /\ q = p
      BY <1>0, <1>1, <2>1, <3>1 DEF ResultsAreDelivered
    <3>2. CASE ~(j = i /\ q = p)
      <4>1. result'[j][q] = result[j][q] /\ plugin'[j][q] = plugin[j][q]
        BY <1>1, <2>2, <3>2
      <4> QED BY <4>1 DEF ResultsAreDelivered
    <3> QED BY <3>1, <3>2
  <2>4. AllOrNothing'
    BY <1>1 DEF AllOrNothing
  <2> QED BY <2>3, <2>4
<1>2. CASE Acquire(i, p)
  <2>1. TargetOf[i] \in Target
    BY RunnerAssumption
  <2>2. CASE cache[TargetOf[i]][p] # "none" /\ Deliver(i, p, cache[TargetOf[i]][p])
    <3>1. cache[TargetOf[i]][p] \in Outcome
      BY <2>1, <2>2 DEF Stored
    <3> QED BY <1>0, <2>2, <3>1, DeliverResults
  <2>3. CASE plugin' = [plugin EXCEPT ![i][p] = "running"]
                /\ UNCHANGED <<status, result, evidence>>
    <3>1. plugin[i][p] = "queued"
      BY <1>2 DEF Acquire
    <3> QED BY <1>1, <2>3, <3>1 DEF PluginState
  <2> QED BY <1>2, <2>2, <2>3 DEF Acquire
<1>3. CASE Retry(i, p)
  BY <1>1, <1>3 DEF Retry, PluginState
<1>4. CASE Return(i, p)
  BY <1>0, <1>4, DeliverResults DEF Return
<1>5. CASE GiveUp(i, p)
  <2>1. "error" \in Outcome
    BY DEF Outcome
  <2> QED BY <1>0, <1>5, <2>1, DeliverResults DEF GiveUp
<1>6. CASE EndFlush(i, p)
  BY <1>1, <1>6 DEF EndFlush, PluginState
<1> QED BY <1>2, <1>3, <1>4, <1>5, <1>6 DEF RunPlugin

\* A step after which no coroutine of a run has delivered anything.
LEMMA UndeliveredRun ==
  ASSUME ResultsAreDelivered, NEW i \in Investigation,
         \A p \in Plugin :
           /\ plugin'[i][p] \in {"queued", "idle"}
           /\ result'[i][p] = "none"
           /\ p \notin PluginsOf[i] => plugin'[i][p] = "idle",
         \A j \in Investigation :
           j # i => plugin'[j] = plugin[j] /\ result'[j] = result[j]
  PROVE  ResultsAreDelivered'
<1> SUFFICES ASSUME NEW j \in Investigation, NEW p \in Plugin
             PROVE  /\ result'[j][p] # "none" <=>
                         plugin'[j][p] \in {"flushing", "delivered", "lost"}
                    /\ p \notin PluginsOf[j] => plugin'[j][p] = "idle"
  BY DEF ResultsAreDelivered
<1>1. CASE j = i
  <2>1. /\ plugin'[j][p] = "queued" \/ plugin'[j][p] = "idle"
        /\ result'[j][p] = "none"
        /\ p \notin PluginsOf[j] => plugin'[j][p] = "idle"
    BY <1>1
  <2> QED BY <2>1
<1>2. CASE j # i
  <2>1. plugin'[j] = plugin[j] /\ result'[j] = result[j]
    BY <1>2
  <2> QED BY <2>1 DEF ResultsAreDelivered
<1> QED BY <1>1, <1>2

LEMMA RunResults ==
  ASSUME Runner, NEW r \in Request, NEW i \in Investigation, Run(r, i)
  PROVE  ResultsAreDelivered' /\ AllOrNothing'
<1> USE DEF Runner, RunnerTypeOK
<1>1. CASE Begin(r, i) /\ PluginsOf[i] = {}
  <2>1. UNCHANGED <<plugin, result, evidence>>
    BY <1>1 DEF Begin
  <2>2. \A j \in Investigation : j # i => status'[j] = status[j]
    BY <1>1 DEF Begin
  <2>3. \A p \in Plugin : evidence[i][p] = "none"
    BY <1>1 DEF AllOrNothing
  <2> QED BY <1>1, <2>1, <2>2, <2>3 DEF ResultsAreDelivered, AllOrNothing
<1>2. CASE Begin(r, i) /\ PluginsOf[i] # {}
  <2>1. UNCHANGED <<status, result, evidence>>
    BY <1>2 DEF Begin
  <2>2. \A p \in Plugin : result[i][p] = "none"
    BY <1>2 DEF Begin, AllIdle, ResultsAreDelivered
  <2>3. \A p \in Plugin :
          plugin'[i][p] = IF p \in PluginsOf[i] THEN "queued" ELSE "idle"
    BY <1>2 DEF Begin
  <2>4. \A j \in Investigation : j # i => plugin'[j] = plugin[j]
    BY <1>2 DEF Begin
  <2>5. ResultsAreDelivered'
    <3>1. \A p \in Plugin :
            /\ plugin'[i][p] \in {"queued", "idle"}
            /\ result'[i][p] = "none"
            /\ p \notin PluginsOf[i] => plugin'[i][p] = "idle"
      BY <2>1, <2>2, <2>3
    <3> QED BY <2>1, <2>4, <3>1, UndeliveredRun
  <2> QED BY <2>1, <2>5 DEF AllOrNothing
<1>3. CASE Collect(r, i)
  <2>1. \A p \in Plugin : plugin'[i][p] = "idle" /\ result'[i][p] = "none"
    BY <1>3 DEF Collect, AllIdle, Nothing
  <2>2. \A j \in Investigation :
          j # i => plugin'[j] = plugin[j] /\ result'[j] = result[j]
    BY <1>3 DEF Collect
  <2>3. ResultsAreDelivered'
    BY <2>1, <2>2, UndeliveredRun
  <2>4. CASE Combined(i) # {}
    BY <1>3, <2>3, <2>4 DEF Collect, AllOrNothing
  <2>5. CASE Combined(i) = {}
    <3>1. status'[i] = "completed" /\ evidence'[i] = result[i]
      BY <1>3, <2>5 DEF Collect, Committed
    <3>2. \A j \in Investigation :
            j # i => status'[j] = status[j] /\ evidence'[j] = evidence[j]
      BY <1>3, <2>5 DEF Collect
    <3>3. \A p \in Plugin : result[i][p] # "none" <=> p \in PluginsOf[i]
      BY <1>3 DEF Collect, ResultsAreDelivered
    <3> QED BY <2>3, <3>1, <3>2, <3>3 DEF AllOrNothing
  <2> QED BY <2>4, <2>5
<1> QED BY <1>1, <1>2, <1>3 DEF Run

LEMMA RunnerStep == Runner /\ [Next]_vars => Runner'
<1> SUFFICES ASSUME Runner, [Next]_vars
             PROVE  ResultsAreDelivered' /\ AllOrNothing'
  BY RunnerTypeStep DEF Runner
<1> USE DEF Runner, RunnerTypeOK
<1>1. ASSUME NEW r \in Request, Submit(r)
      PROVE  ResultsAreDelivered' /\ AllOrNothing'
  <2>1. \A i \in Investigation :
          status'[i] = "completed" <=> status[i] = "completed"
    BY <1>1 DEF Submit
  <2>2. UNCHANGED <<plugin, result, evidence>>
    BY <1>1 DEF Submit
  <2> QED BY <2>1, <2>2 DEF ResultsAreDelivered, AllOrNothing
<1>2. ASSUME NEW r \in Request, NEW i \in Investigation, Run(r, i)
      PROVE  ResultsAreDelivered' /\ AllOrNothing'
  BY <1>2, RunResults
<1>3. ASSUME NEW i \in Investigation, NEW p \in Plugin, RunPlugin(i, p)
      PROVE  ResultsAreDelivered' /\ AllOrNothing'
  BY <1>3, RunPluginResults
<1>4. ASSUME NEW t \in Target, NEW p \in Plugin, CacheExpires(t, p)
      PROVE  ResultsAreDelivered' /\ AllOrNothing'
  BY <1>4 DEF CacheExpires, ResultsAreDelivered, AllOrNothing
<1>5. CASE Crash
  <2>1. \A i \in Investigation, p \in Plugin :
          plugin'[i][p] = "idle" /\ result'[i][p] = "none"
    BY <1>5 DEF Crash, AllIdle, Nothing
  <2>2. UNCHANGED <<status, evidence>>
    BY <1>5 DEF Crash
  <2> QED BY <2>1, <2>2 DEF ResultsAreDelivered, AllOrNothing
<1>6. CASE UNCHANGED vars
  BY <1>6 DEF vars, ResultsAreDelivered, AllOrNothing
<1> QED BY <1>1, <1>2, <1>3, <1>4, <1>5, <1>6 DEF Next

LEMMA RunnerInvariant == Spec => []Runner
  BY RunnerInit, RunnerStep, PTL DEF Spec

\* The variables keep their types across retries, refused flushes and crashes.
THEOREM RunnerTypes == Spec => []RunnerTypeOK
<1>1. Runner => RunnerTypeOK
  BY DEF Runner
<1> QED BY <1>1, RunnerInvariant, PTL

\* A completed investigation has the evidence of every plugin of its target
\* type and any other has none, whatever the plugins and the crashes do
\* (run_investigation commits once, at its end).
THEOREM EvidenceIsAllOrNothing == Spec => []AllOrNothing
<1>1. Runner => AllOrNothing
  BY DEF Runner
<1> QED BY <1>1, RunnerInvariant, PTL

-----------------------------------------------------------------------------
(* Bulk requests.                                                          *)

LEMMA BulkInit == Init => Bulk
<1> SUFFICES ASSUME Init PROVE Bulk
  OBVIOUS
<1>1. TasksAreSuffix
  BY DEF Init, TasksAreSuffix
<1>2. \A i \in Investigation : plugin[i] = AllIdle /\ status[i] # "completed"
  BY DEF Init
<1>3. BulkStopsAtFirstDeath
  BY <1>2, RunnerAssumption DEF BulkStopsAtFirstDeath
<1> QED BY <1>1, <1>3, RunnerInit DEF Bulk

\* What the handlers other than the end of a run leave alone.
BulkFrame ==
  /\ UNCHANGED tasks
  /\ \A i \in Investigation :
       /\ status'[i] = "completed" <=> status[i] = "completed"
       /\ plugin'[i] # AllIdle => plugin[i] # AllIdle

LEMMA SubmittedTypes ==
  \A r \in Request :
    /\ Submitted[r] \in Seq(Investigation)
    /\ Len(Submitted[r]) \in Nat
    /\ \A k \in 1..Len(Submitted[r]) : Submitted[r][k] \in Investigation
    /\ DOMAIN Submitted[r] = 1..Len(Submitted[r])
  BY RunnerAssumption

LEMMA FramedStep ==
  ASSUME Bulk, BulkFrame
  PROVE  TasksAreSuffix' /\ BulkStopsAtFirstDeath'
<1> USE DEF Bulk, BulkFrame
<1>1. BulkStopsAtFirstDeath'
  BY SubmittedTypes DEF BulkStopsAtFirstDeath
<1>2. ASSUME NEW r \in Request, tasks'[r] # <<>>
      PROVE  /\ Len(tasks'[r]) <= Len(Submitted[r])
             /\ \A k \in 1..Len(tasks'[r]) :
                  tasks'[r][k] = Submitted[r][Ended(r)' + k]
             /\ \A k \in 1..Ended(r)' : status'[Submitted[r][k]] = "completed"
  <2>1. tasks'[r] = tasks[r] /\ Ended(r)' = Ended(r)
    BY DEF Ended
  <2>2. tasks[r] \in Seq(Investigation) /\ Len(tasks[r]) \in Nat
    BY DEF Runner, RunnerTypeOK
  <2>3. \A k \in 1..Ended(r) : Submitted[r][k] \in Investigation
    BY <2>2, SubmittedTypes DEF Ended
  <2> QED BY <1>2, <2>1, <2>3 DEF TasksAreSuffix
<1> QED BY <1>1, <1>2 DEF TasksAreSuffix

\* The run at the head of a request's tasks: its place among the targets.
LEMMA HeadOfTasks ==
  ASSUME Bulk, NEW r \in Request, NEW i \in Investigation, Runs(r, i)
  PROVE  /\ Ended(r) \in Nat
         /\ Ended(r) + 1 \in 1..Len(Submitted[r])
         /\ Submitted[r][Ended(r) + 1] = i
         /\ \A k \in 1..Ended(r) : status[Submitted[r][k]] = "completed"
<1>1. tasks[r] \in Seq(Investigation) /\ tasks[r] # <<>>
  BY DEF Bulk, Runner, RunnerTypeOK, Runs
<1>2. Len(tasks[r]) \in Nat \ {0} /\ Head(tasks[r]) = tasks[r][1]
  BY <1>1
<1>3. tasks[r][1] = i
  BY <1>2 DEF Runs
<1>4. /\ Len(tasks[r]) <= Len(Submitted[r])
      /\ \A k \in 1..Len(tasks[r]) : tasks[r][k] = Submitted[r][Ended(r) + k]
      /\ \A k \in 1..Ended(r) : status[Submitted[r][k]] = "completed"
  BY <1>1 DEF Bulk, TasksAreSuffix
<1>5. Ended(r) \in Nat /\ Ended(r) + 1 \in 1..Len(Submitted[r])
  <2>1. Len(Submitted[r]) \in Nat
    BY SubmittedTypes
  <2>2. Len(tasks[r]) \in Nat /\ Len(tasks[r]) # 0
    BY <1>2
  <2>3. Len(tasks[r]) <= Len(Submitted[r])
    BY <1>4
  <2>4. \A s, t \in Nat : t # 0 /\ t <= s => s - t \in Nat /\ s - t + 1 \in 1..s
    OBVIOUS
  <2> QED BY <2>1, <2>2, <2>3, <2>4 DEF Ended
<1>6. Submitted[r][Ended(r) + 1] = i
  BY <1>2, <1>3, <1>4
<1> QED BY <1>4, <1>5, <1>6

\* If only the run at the head of a request gets on, its bulk stays in order.
LEMMA HeadStep ==
  ASSUME Bulk, NEW r \in Request, NEW i \in Investigation, Runs(r, i),
         \A j \in Investigation :
           j # i => /\ status'[j] = "completed" <=> status[j] = "completed"
                    /\ plugin'[j] # AllIdle => plugin[j] # AllIdle,
         status[i] = "completed" => status'[i] = "completed"
  PROVE  BulkStopsAtFirstDeath'
<1> SUFFICES ASSUME NEW q \in Request,
                    NEW j \in DOMAIN Submitted[q], NEW k \in DOMAIN Submitted[q],
                    j < k,
                    \/ plugin'[Submitted[q][k]] # AllIdle
                    \/ status'[Submitted[q][k]] = "completed"
             PROVE  status'[Submitted[q][j]] = "completed"
  BY DEF BulkStopsAtFirstDeath
<1>1. /\ Submitted[q][j] \in Investigation
      /\ Submitted[q][k] \in Investigation
      /\ j \in 1..Len(Submitted[q]) /\ k \in 1..Len(Submitted[q])
  BY SubmittedTypes
<1>2. status[Submitted[q][j]] = "completed" =>
        status'[Submitted[q][j]] = "completed"
  BY <1>1
<1>3. CASE Submitted[q][k] # i
  BY <1>1, <1>2, <1>3 DEF Bulk, BulkStopsAtFirstDeath
<1>4. CASE Submitted[q][k] = i
  <2>1. q = r /\ k = Ended(r) + 1
    BY <1>1, <1>4, HeadOfTasks, RunnerAssumption, SubmittedTypes
  <2>2. j \in 1..Ended(r)
    BY <1>1, <2>1, HeadOfTasks
  <2> QED BY <1>2, <2>1, <2>2, HeadOfTasks
<1> QED BY <1>3, <1>4

\* Tasks of a request after its head ended, with the head completed or not.
LEMMA TailIsSuffix ==
  ASSUME Bulk, NEW r \in Request, NEW i \in Investigation, Runs(r, i),
         \A j \in Investigation :
           status[j] = "completed" => status'[j] = "completed",
         \/ tasks' = [tasks EXCEPT ![r] = Tail(@)] /\ status'[i] = "completed"
         \/ tasks' = [tasks EXCEPT ![r] = <<>>]
         \/ UNCHANGED tasks
  PROVE  TasksAreSuffix'
<1> SUFFICES ASSUME NEW q \in Request, tasks'[q] # <<>>
             PROVE  /\ Len(tasks'[q]) <= Len(Submitted[q])
                    /\ \A k \in 1..Len(tasks'[q]) :
                         tasks'[q][k] = Submitted[q][Ended(q)' + k]
                    /\ \A k \in 1..Ended(q)' :
                         status'[Submitted[q][k]] = "completed"
  BY DEF TasksAreSuffix
<1>0. /\ tasks \in [Request -> Seq(Investigation)]
      /\ tasks[q] \in Seq(Investigation) /\ Len(tasks[q]) \in Nat
  BY DEF Bulk, Runner, RunnerTypeOK
<1>1. CASE tasks'[q] = tasks[q]
  <2>1. Ended(q)' = Ended(q)
    BY <1>1 DEF Ended
  <2>2. \A k \in 1..Ended(q) : Submitted[q][k] \in Investigation
    BY <1>0, SubmittedTypes DEF Ended
  <2> QED BY <1>1, <2>1, <2>2 DEF Bulk, TasksAreSuffix
<1>2. CASE tasks'[q] # tasks[q]
  <2>1. /\ q = r
        /\ tasks' = [tasks EXCEPT ![r] = Tail(@)] /\ status'[i] = "completed"
    BY <1>0, <1>2
  <2>2. /\ tasks'[r] = Tail(tasks[r])
        /\ tasks[r] # <<>>
    BY <1>0, <2>1 DEF Runs
  <2>3. /\ Len(tasks'[r]) = Len(tasks[r]) - 1
        /\ \A k \in 1..Len(tasks'[r]) : tasks'[r][k] = tasks[r][k + 1]
        /\ Len(tasks[r]) \in Nat \ {0}
    BY <1>0, <2>1, <2>2
  <2>4. Ended(r)' = Ended(r) + 1
    BY <2>3, SubmittedTypes DEF Ended
  <2>5. /\ Len(tasks[r]) <= Len(Submitted[r])
        /\ \A k \in 1..Len(tasks[r]) : tasks[r][k] = Submitted[r][Ended(r) + k]
    BY <2>2 DEF Bulk, TasksAreSuffix
  <2>6. /\ Len(tasks'[r]) <= Len(Submitted[r])
        /\ \A k \in 1..Len(tasks'[r]) :
             tasks'[r][k] = Submitted[r][Ended(r) + 1 + k]
    <3>1. Ended(r) \in Nat /\ Len(Submitted[r]) \in Nat
      BY HeadOfTasks, SubmittedTypes
    <3>2. Len(tasks'[r]) <= Len(Submitted[r])
      BY <2>3, <2>5, <3>1
    <3>3. ASSUME NEW k \in 1..Len(tasks'[r])
          PROVE  tasks'[r][k] = Submitted[r][Ended(r) + 1 + k]
      <4>1. k + 1 \in 1..Len(tasks[r])
        BY <2>3
      <4>2. tasks[r][k + 1] = Submitted[r][Ended(r) + (k + 1)]
        BY <2>5, <4>1
      <4>3. Ended(r) + (k + 1) = Ended(r) + 1 + k
        BY <2>3, <3>1
      <4> QED BY <2>3, <4>2, <4>3
    <3> QED BY <3>2, <3>3
  <2>7. \A k \in 1..(Ended(r) + 1) :
          status'[Submitted[r][k]] = "completed"
    <3> SUFFICES ASSUME NEW k \in 1..(Ended(r) + 1)
                 PROVE  status'[Submitted[r][k]] = "completed"
      OBVIOUS
    <3>1. CASE k = Ended(r) + 1
      BY <2>1, <3>1, HeadOfTasks
    <3>2. CASE k # Ended(r) + 1
      <4>1. k \in 1..Ended(r) /\ k \in 1..Len(Submitted[r])
        BY <3>2, HeadOfTasks, SubmittedTypes
      <4> QED BY <4>1, HeadOfTasks, SubmittedTypes
    <3> QED BY <3>1, <3>2
  <2> QED BY <2>1, <2>4, <2>6, <2>7
<1> QED BY <1>1, <1>2

LEMMA RunBulk ==
  ASSUME Bulk, NEW r \in Request, NEW i \in Investigation, Run(r, i)
  PROVE  TasksAreSuffix' /\ BulkStopsAtFirstDeath'
<1> USE DEF Bulk, Runner, RunnerTypeOK
<1>0. Runs(r, i)
  BY DEF Run, Begin, Collect
<1>1. \A j \in Investigation :
        j # i => status'[j] = status[j] /\ plugin'[j] = plugin[j]
  BY DEF Run, Begin, Collect
<1>2. status[i] = "completed" => status'[i] = "completed"
  BY DEF Run, Begin, Collect
<1>3. BulkStopsAtFirstDeath'
  BY <1>0, <1>1, <1>2, HeadStep
<1>4. \/ tasks' = [tasks EXCEPT ![r] = Tail(@)] /\ status'[i] = "completed"
      \/ tasks' = [tasks EXCEPT ![r] = <<>>]
      \/ UNCHANGED tasks
  BY DEF Run, Begin, Collect, TasksAfterDeath
<1>5. \A j \in Investigation :
        status[j] = "completed" => status'[j] = "completed"
  BY <1>1, <1>2
<1>6. TasksAreSuffix'
  BY <1>0, <1>4, <1>5, TailIsSuffix
<1> QED BY <1>3, <1>6

LEMMA SubmitBulk ==
  ASSUME Bulk, NEW r \in Request, Submit(r)
  PROVE  TasksAreSuffix' /\ BulkStopsAtFirstDeath'
<1> USE DEF Bulk, Runner, RunnerTypeOK
<1>1. \A i \in Investigation :
        status'[i] = "completed" <=> status[i] = "completed"
  BY DEF Submit
<1>2. BulkStopsAtFirstDeath'
  <2>1. plugin' = plugin
    BY DEF Submit
  <2> QED BY <1>1, <2>1, SubmittedTypes DEF BulkStopsAtFirstDeath
<1>3. ASSUME NEW q \in Request, tasks'[q] # <<>>
      PROVE  /\ Len(tasks'[q]) <= Len(Submitted[q])
             /\ \A k \in 1..Len(tasks'[q]) :
                  tasks'[q][k] = Submitted[q][Ended(q)' + k]
             /\ \A k \in 1..Ended(q)' : status'[Submitted[q][k]] = "completed"
  <2>1. CASE q = r
    <3>1. tasks'[q] = Submitted[q]
      BY <2>1 DEF Submit
    <3>2. Ended(q)' = 0
      BY <3>1, SubmittedTypes DEF Ended
    <3>3. \A k \in 1..Len(Submitted[q]) : 0 + k = k
      BY SubmittedTypes
    <3> QED BY <3>1, <3>2, <3>3, SubmittedTypes
  <2>2. CASE q # r
    <3>1. tasks'[q] = tasks[q]
      BY <2>2 DEF Submit
    <3>2. Ended(q)' = Ended(q) /\ Len(tasks[q]) \in Nat
      BY <3>1 DEF Ended
    <3>3. \A k \in 1..Ended(q) : Submitted[q][k] \in Investigation
      BY <3>2, SubmittedTypes DEF Ended
    <3> QED BY <1>1, <1>3, <3>1, <3>2, <3>3 DEF TasksAreSuffix
  <2> QED BY <2>1, <2>2
<1> QED BY <1>2, <1>3 DEF TasksAreSuffix

LEMMA BulkStep == Bulk /\ [Next]_vars => Bulk'
<1> SUFFICES ASSUME Bulk, [Next]_vars
             PROVE  TasksAreSuffix' /\ BulkStopsAtFirstDeath'
  BY RunnerStep DEF Bulk
<1> USE DEF Bulk, Runner, RunnerTypeOK
<1>1. ASSUME NEW r \in Request, Submit(r)
      PROVE  TasksAreSuffix' /\ BulkStopsAtFirstDeath'
  BY <1>1, SubmitBulk
<1>2. ASSUME NEW r \in Request, NEW i \in Investigation, Run(r, i)
      PROVE  TasksAreSuffix' /\ BulkStopsAtFirstDeath'
  BY <1>2, RunBulk
<1>3. ASSUME NEW i \in Investigation, NEW p \in Plugin, RunPlugin(i, p)
      PROVE  TasksAreSuffix' /\ BulkStopsAtFirstDeath'
  <2>1. UNCHANGED <<status, tasks>>
    BY <1>3 DEF RunPlugin, Acquire, Retry, Return, GiveUp, EndFlush, Deliver
  <2>2. \A j \in Investigation : j # i => plugin'[j] = plugin[j]
    BY <1>3 DEF RunPlugin, Acquire, Retry, Return, GiveUp, EndFlush, Deliver
  <2>3. plugin[i][p] # "idle"
    BY <1>3 DEF RunPlugin, Acquire, Retry, Return, GiveUp, EndFlush
  <2>4. plugin[i] # AllIdle
    BY <2>3 DEF AllIdle
  <2>5. BulkFrame
    BY <2>1, <2>2, <2>4 DEF BulkFrame
  <2> QED BY <2>5, FramedStep
<1>4. ASSUME NEW t \in Target, NEW p \in Plugin, CacheExpires(t, p)
      PROVE  TasksAreSuffix' /\ BulkStopsAtFirstDeath'
  BY <1>4, FramedStep DEF CacheExpires, BulkFrame
<1>5. CASE Crash
  <2>1. TasksAreSuffix'
    BY <1>5 DEF Crash, TasksAreSuffix
  <2>2. \A i \in Investigation :
          plugin'[i] = AllIdle /\ status'[i] = status[i]
    BY <1>5 DEF Crash
  <2> QED BY <2>1, <2>2, SubmittedTypes DEF BulkStopsAtFirstDeath
<1>6. CASE UNCHANGED vars
  BY <1>6, FramedStep DEF vars, BulkFrame
<1> QED BY <1>1, <1>2, <1>3, <1>4, <1>5, <1>6 DEF Next

\* A target of a bulk request is worked on only when every earlier target was
\* completed: a run that dies takes the rest of its request with it.
THEOREM BulkStops == Spec => []BulkStopsAtFirstDeath
<1>1. Bulk => BulkStopsAtFirstDeath
  BY DEF Bulk
<1> QED BY <1>1, BulkInit, BulkStep, PTL DEF Spec
=============================================================================
