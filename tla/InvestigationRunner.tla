------------------------ MODULE InvestigationRunner ------------------------
(***************************************************************************)
(* The investigation runner: src/argus/plugins/runner.py, with the routes  *)
(* that start investigations (api/routes/investigations.py), the plugin    *)
(* retry (plugins/retry.py) and the result cache (cache.py).               *)
(*                                                                         *)
(* A run is one coroutine per plugin on one event loop, sharing one        *)
(* database session.  An action is what a coroutine does between two       *)
(* suspensions.  Nothing a run writes is durable before its one commit.    *)
(***************************************************************************)
EXTENDS Naturals, Sequences, FiniteSets

CONSTANTS
  Plugin,         \* plugin names
  Target,         \* targets, as they appear in a cache key
  Request,        \* HTTP requests that start investigations
  Investigation,  \* ids of investigations rows
  Submitted,      \* request -> the investigations it creates, in order
  TargetOf,       \* investigation -> target
  PluginsOf,      \* investigation -> the plugins of its target type
  MaxConcurrent,  \* max_concurrent_plugins
  MaxCrashes      \* bound: how often the process is killed

ASSUME RunnerAssumption ==
  /\ Submitted \in [Request -> Seq(Investigation)]
  /\ TargetOf \in [Investigation -> Target]
  /\ PluginsOf \in [Investigation -> SUBSET Plugin]
  /\ MaxConcurrent \in Nat \ {0}
  /\ MaxCrashes \in Nat
  \* an investigation is created once, by one request
  /\ \A q, r \in Request : \A j \in DOMAIN Submitted[q], k \in DOMAIN Submitted[r] :
       Submitted[q][j] = Submitted[r][k] => q = r /\ j = k

VARIABLES
  status,     \* investigations.status
  tasks,      \* the background tasks of a request not ended; the first one runs
  plugin,     \* where the coroutine of a plugin is
  result,     \* what it returned, or will return after its flush
  cache,      \* cache.py, in the memory of the process
  evidence,   \* evidence rows, by investigation and plugin
  reported,   \* the plugins whose results the summary is built from
  custody,    \* the plugins whose data the chain_of_custody hash covers
  crashes     \* how often the process was killed

vars == <<status, tasks, plugin, result, cache,
          evidence, reported, custody, crashes>>

PluginState ==
  {"idle", "queued", "running", "retrying", "flushing", "delivered", "lost"}

Outcome == {"data", "error"}
Stored == Outcome \union {"none"}

RunnerTypeOK ==
  /\ status \in [Investigation -> {"absent", "running", "completed"}]
  /\ tasks \in [Request -> Seq(Investigation)]
  /\ plugin \in [Investigation -> [Plugin -> PluginState]]
  /\ result \in [Investigation -> [Plugin -> Stored]]
  /\ cache \in [Target -> [Plugin -> Stored]]
  /\ evidence \in [Investigation -> [Plugin -> Stored]]
  /\ reported \in [Investigation -> SUBSET Plugin]
  /\ custody \in [Investigation -> SUBSET Plugin]
  /\ crashes \in 0..MaxCrashes

AllIdle == [p \in Plugin |-> "idle"]
Nothing == [p \in Plugin |-> "none"]

Init ==
  /\ status = [i \in Investigation |-> "absent"]
  /\ tasks = [r \in Request |-> <<>>]
  /\ plugin = [i \in Investigation |-> AllIdle]
  /\ result = [i \in Investigation |-> Nothing]
  /\ cache = [t \in Target |-> Nothing]
  /\ evidence = [i \in Investigation |-> Nothing]
  /\ reported = [i \in Investigation |-> {}]
  /\ custody = [i \in Investigation |-> {}]
  /\ crashes = 0

-----------------------------------------------------------------------------
(* Helpers.  A definition with the parameters of the next one and no       *)
(* comment of its own is a faulty variant of it, used to test that the     *)
(* properties below can fail.                                              *)

SubmittedBy(r) == {Submitted[r][k] : k \in DOMAIN Submitted[r]}

\* The task of a request that is being worked on.
RunsConcurrently(r, i) == \E k \in DOMAIN tasks[r] : tasks[r][k] = i
Runs(r, i) == tasks[r] # <<>> /\ Head(tasks[r]) = i

In(i, state) == {p \in Plugin : plugin[i][p] = state}

\* Coroutines inside `async with sem`.
Running(i) == In(i, "running") \union In(i, "retrying")

\* Starlette awaits the background tasks of a request in turn; an exception
\* of one leaves the rest unrun.
TasksAfterDeath(r) == <<>>

-----------------------------------------------------------------------------
\* start_investigation and bulk_investigate: the rows are committed as
\* "running" before any of them is worked on.
Submit(r) ==
  /\ \A i \in SubmittedBy(r) : status[i] = "absent"
  /\ status' = [i \in Investigation |->
                  IF i \in SubmittedBy(r) THEN "running" ELSE status[i]]
  /\ tasks' = [tasks EXCEPT ![r] = Submitted[r]]
  /\ UNCHANGED <<plugin, result, cache, evidence, reported, custody, crashes>>

\* The first part of run_investigation: a target type without plugins is
\* completed at once, otherwise one coroutine per plugin is created.
Begin(r, i) ==
  /\ Runs(r, i)
  /\ plugin[i] = AllIdle
  /\ IF PluginsOf[i] = {}
     THEN /\ status' = [status EXCEPT ![i] = "completed"]
          /\ tasks' = [tasks EXCEPT ![r] = Tail(@)]
          /\ UNCHANGED plugin
     ELSE /\ plugin' = [plugin EXCEPT ![i] =
                          [p \in Plugin |->
                             IF p \in PluginsOf[i] THEN "queued" ELSE "idle"]]
          /\ UNCHANGED <<status, tasks>>
  /\ UNCHANGED <<result, cache, evidence, reported, custody, crashes>>

\* _run_and_track after _run_one: the evidence joins the session and is
\* flushed.  The session of the run is shared, and a session that is being
\* flushed refuses another flush: that coroutine ends with an exception, but
\* its evidence stays in the session.
Deliver(i, p, outcome) ==
  /\ result' = [result EXCEPT ![i][p] = outcome]
  /\ plugin' = [plugin EXCEPT ![i][p] =
                  IF In(i, "flushing") = {} THEN "flushing" ELSE "lost"]
  /\ UNCHANGED <<status, tasks, evidence, reported, custody, crashes>>

\* Entering the semaphore: a cached result, a failure too, is used as it is.
Acquire(i, p) ==
  /\ plugin[i][p] = "queued"
  /\ Cardinality(Running(i)) < MaxConcurrent
  /\ LET cached == cache[TargetOf[i]][p]
     IN \/ /\ cached # "none"
           /\ Deliver(i, p, cached)
           /\ UNCHANGED cache
        \/ /\ cached = "none"
           /\ plugin' = [plugin EXCEPT ![i][p] = "running"]
           /\ UNCHANGED <<status, tasks, result, cache,
                          evidence, reported, custody, crashes>>

\* run_with_retry: a failure is tried once more after two seconds.
Retry(i, p) ==
  /\ plugin[i][p] = "running"
  /\ plugin' = [plugin EXCEPT ![i][p] = "retrying"]
  /\ UNCHANGED <<status, tasks, result, cache,
                 evidence, reported, custody, crashes>>

\* The plugin returned: data at either attempt, a failure at the second one.
Return(i, p) ==
  \E outcome \in Outcome :
    /\ \/ plugin[i][p] = "running" /\ outcome = "data"
       \/ plugin[i][p] = "retrying"
    /\ cache' = [cache EXCEPT ![TargetOf[i]][p] = outcome]
    /\ Deliver(i, p, outcome)

\* asyncio.wait_for gives up, or the plugin raises: a failure not cached.
NeverGiveUp(i, p) == FALSE
GiveUpAsTimeout(i, p) ==
  /\ plugin[i][p] \in {"running", "retrying"}
  /\ UNCHANGED cache
  /\ Deliver(i, p, "timeout")
GiveUp(i, p) ==
  /\ plugin[i][p] \in {"running", "retrying"}
  /\ UNCHANGED cache
  /\ Deliver(i, p, "error")

\* cache_get past the hour.
CacheExpires(t, p) ==
  /\ cache[t][p] # "none"
  /\ cache' = [cache EXCEPT ![t][p] = "none"]
  /\ UNCHANGED <<status, tasks, plugin, result,
                 evidence, reported, custody, crashes>>

\* The flush is done: rows are written, in a transaction not yet committed.
EndFlush(i, p) ==
  /\ plugin[i][p] = "flushing"
  /\ plugin' = [plugin EXCEPT ![i][p] = "delivered"]
  /\ UNCHANGED <<status, tasks, result, cache,
                 evidence, reported, custody, crashes>>

\* combined_data: the data of the plugins whose coroutine returned.
Combined(i) == {p \in In(i, "delivered") : result[i][p] = "data"}

\* What the commit makes durable: everything added to the session.
CommittedDelivered(i) ==
  [p \in Plugin |-> IF p \in In(i, "delivered") THEN result[i][p] ELSE "none"]
Committed(i) == result[i]

\* The rest of run_investigation after asyncio.gather.  With data to analyse
\* it evaluates `settings`, a name that is bound nowhere: the NameError ends
\* the task and the session is rolled back.
Collect(r, i) ==
  /\ Runs(r, i)
  /\ PluginsOf[i] # {}
  /\ \A p \in PluginsOf[i] : plugin[i][p] \in {"delivered", "lost"}
  /\ IF Combined(i) = {}
     THEN /\ status' = [status EXCEPT ![i] = "completed"]
          /\ evidence' = [evidence EXCEPT ![i] = Committed(i)]
          /\ reported' = [reported EXCEPT ![i] = In(i, "delivered")]
          /\ custody' = [custody EXCEPT ![i] = Combined(i)]
          /\ tasks' = [tasks EXCEPT ![r] = Tail(@)]
     ELSE /\ tasks' = [tasks EXCEPT ![r] = TasksAfterDeath(r)]
          /\ UNCHANGED <<status, evidence, reported, custody>>
  /\ plugin' = [plugin EXCEPT ![i] = AllIdle]
  /\ result' = [result EXCEPT ![i] = Nothing]
  /\ UNCHANGED <<cache, crashes>>

\* The process is killed and started again; nothing resumes the runs.
Crash ==
  /\ crashes < MaxCrashes
  /\ crashes' = crashes + 1
  /\ tasks' = [r \in Request |-> <<>>]
  /\ plugin' = [i \in Investigation |-> AllIdle]
  /\ result' = [i \in Investigation |-> Nothing]
  /\ cache' = [t \in Target |-> Nothing]
  /\ UNCHANGED <<status, evidence, reported, custody>>

-----------------------------------------------------------------------------
Run(r, i) == Begin(r, i) \/ Collect(r, i)

RunPlugin(i, p) ==
  \/ Acquire(i, p)
  \/ Retry(i, p)
  \/ Return(i, p)
  \/ GiveUp(i, p)
  \/ EndFlush(i, p)

Next ==
  \/ \E r \in Request : Submit(r)
  \/ \E r \in Request, i \in Investigation : Run(r, i)
  \/ \E i \in Investigation, p \in Plugin : RunPlugin(i, p)
  \/ \E t \in Target, p \in Plugin : CacheExpires(t, p)
  \/ Crash

Spec == Init /\ [][Next]_vars

\* The event loop runs every ready coroutine, the timeout fires, and the
\* database answers.  No plugin has to return and no request has to come.
Fairness ==
  /\ \A r \in Request, i \in Investigation : WF_vars(Run(r, i))
  /\ \A i \in Investigation, p \in Plugin :
       /\ WF_vars(Acquire(i, p))
       /\ WF_vars(GiveUp(i, p))
       /\ WF_vars(EndFlush(i, p))

FairSpec == Spec /\ Fairness

-----------------------------------------------------------------------------
(* Properties                                                              *)

\* A completed investigation has the evidence of every plugin of its target
\* type, whatever became of the coroutine; one that is not completed has none,
\* whether it is under way, failed or was cut off (the one commit at the end of
\* run_investigation; see PartialResultsSurvive).
AllOrNothing ==
  \A i \in Investigation, p \in Plugin :
    evidence[i][p] # "none" <=> status[i] = "completed" /\ p \in PluginsOf[i]

\* "Persist evidence as it completes (so partial results survive crash)"
\* (runner.py): the evidence of a plugin that has been flushed is on record
\* after a crash.
PartialResultsSurvive ==
  [][\A i \in Investigation, p \in Plugin :
       plugin[i][p] = "delivered" /\ crashes' # crashes =>
         evidence'[i][p] # "none"]_vars

\* A target of a bulk request is worked on only after every target before it
\* was completed: one run that dies, dies with all that follow.
BulkStopsAtFirstDeath ==
  \A r \in Request : \A j, k \in DOMAIN Submitted[r] :
    LET earlier == Submitted[r][j]
        later   == Submitted[r][k]
    IN j < k /\ (plugin[later] # AllIdle \/ status[later] = "completed")
         => status[earlier] = "completed"

\* A background task always ends: no plugin, cached result, refused flush or
\* full semaphore can hold a request's tasks up for ever.
TasksEnd == \A r \in Request : tasks[r] # <<>> ~> tasks[r] = <<>>

\* "Each target runs as an independent background task." (bulk_investigate): a
\* target is at least worked on, whatever becomes of the others.
EveryTargetRuns ==
  \A i \in Investigation :
    status[i] = "running" ~> plugin[i] # AllIdle \/ status[i] = "completed"

\* "Chain of custody: hash the combined evidence" (runner.py): the hash of a
\* completed investigation covers all the data stored as its evidence.
CustodyCoversEvidence ==
  \A i \in Investigation :
    status[i] = "completed" =>
      {p \in Plugin : evidence[i][p] = "data"} \subseteq custody[i]
=============================================================================
