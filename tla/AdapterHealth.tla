--------------------------- MODULE AdapterHealth ---------------------------
(***************************************************************************)
(* Plugin adapters and the health of plugins:                              *)
(* src/argus/canonical/adapters/, registry.py and health.py.               *)
(*                                                                         *)
(* A result enters the canonical store through the adapter registered for  *)
(* its plugin.  What goes wrong on the way is recorded by the health       *)
(* tracker, which tells a transient failure from a structural one by the   *)
(* name of the exception's class, and quarantines a plugin after           *)
(* FailureThreshold structural failures within WindowHours.  The tracker   *)
(* and the registry live in memory, so a restart forgets both.             *)
(*                                                                         *)
(* history is a ghost: every structural failure of a plugin since its      *)
(* record was last fresh, the ones the tracker has dropped included.       *)
(***************************************************************************)
EXTENDS SlidingWindow

CONSTANTS
  PluginId,
  DefaultAdapted,    \* DEFAULT_ADAPTED_PLUGINS
  Raised,            \* what adapting or validating may raise: (name, status)
  FailureThreshold,  \* QUARANTINE_STRUCTURAL_FAILURE_THRESHOLD
  WindowHours,       \* QUARANTINE_WINDOW_HOURS
  MaxRuns,           \* bound on the recorded runs of a plugin
  MaxHour            \* bound on the clock

ASSUME HealthAssumption ==
  /\ DefaultAdapted \subseteq PluginId
  /\ Raised \subseteq [name : STRING, status : Nat]
  /\ FailureThreshold \in Nat \ {0}
  /\ WindowHours \in Nat
  /\ MaxRuns \in Nat /\ MaxHour \in Nat

VARIABLES
  adapters,  \* AdapterRegistry._adapters: plugin -> "none", "default", "custom"
  health,    \* PluginHealthTracker._records
  hour,      \* the clock
  history    \* ghost: all structural failures since a record was fresh

healthVars == <<adapters, health, hour, history>>

HealthRecord ==
  [quarantined : BOOLEAN, structural : Seq(Nat), transient : Nat,
   total : Nat, successful : Nat]

FreshRecord == [quarantined |-> FALSE, structural |-> <<>>, transient |-> 0,
                total |-> 0, successful |-> 0]

HealthTypeOK ==
  /\ adapters \in [PluginId -> {"none", "default", "custom"}]
  /\ health \in [PluginId -> HealthRecord]
  /\ hour \in Nat
  /\ history \in [PluginId -> Seq(Nat)]

HealthInit ==
  /\ adapters = [p \in PluginId |-> "none"]
  /\ health = [p \in PluginId |-> FreshRecord]
  /\ hour = 0
  /\ history = [p \in PluginId |-> <<>>]

-----------------------------------------------------------------------------
(* Classification and quarantine.  A definition with the parameters of the *)
(* next one and no comment of its own is a faulty variant of it, used to   *)
(* test that the properties below can fail.                                *)

StructuralNames == {"AdapterError", "ValidationError", "KeyError",
                    "AttributeError", "TypeError", "ValueError"}
TransientNames == {"TimeoutError", "ClientConnectorError", "ClientResponseError",
                   "ClientError", "ConnectionError", "OSError",
                   "ServerDisconnectedError"}
TransientStatuses == {429, 500, 502, 503, 504}

\* classify_exception goes by the class's own name, not by its bases: a
\* ConnectionResetError is none of the names and counts as structural.
IsTransient(exc) ==
  /\ exc.name \notin StructuralNames
  /\ exc.name \in TransientNames \/ exc.status \in TransientStatuses

StrictlyRecent(rec) ==
  LET kept == Within(rec.structural, WindowHours, hour + 1)
  IN  IF rec.quarantined THEN rec
      ELSE [rec EXCEPT !.structural = kept,
                       !.quarantined = Len(kept) >= FailureThreshold]
\* _maybe_quarantine.  A failure exactly WindowHours old still counts.
MaybeQuarantine(rec) ==
  LET kept == Within(rec.structural, WindowHours, hour)
  IN  IF rec.quarantined THEN rec
      ELSE [rec EXCEPT !.structural = kept,
                       !.quarantined = Len(kept) >= FailureThreshold]

-----------------------------------------------------------------------------
\* register refuses a plugin that has an adapter, unless told to overwrite.
RegisterAdapter(p, overwrite) ==
  /\ overwrite \/ adapters[p] = "none"
  /\ adapters' = [adapters EXCEPT ![p] = "custom"]
  /\ UNCHANGED <<health, hour, history>>

\* register_default_adapters skips what is registered, overwrite or not.
RegisterDefaultAdapters ==
  /\ adapters' = [p \in PluginId |->
                    IF p \in DefaultAdapted /\ adapters[p] = "none"
                    THEN "default" ELSE adapters[p]]
  /\ UNCHANGED <<health, hour, history>>

RecordSuccess(p) ==
  /\ health[p].total < MaxRuns
  /\ LET ran == [health[p] EXCEPT !.total = @ + 1, !.successful = @ + 1]
     IN  health' = [health EXCEPT ![p] = ran]
  /\ UNCHANGED <<adapters, hour, history>>

RecordTransientFailure(p) ==
  /\ health[p].total < MaxRuns
  /\ \E exc \in Raised : IsTransient(exc)
  /\ LET failed == [health[p] EXCEPT !.total = @ + 1, !.transient = @ + 1]
     IN  health' = [health EXCEPT ![p] = failed]
  /\ UNCHANGED <<adapters, hour, history>>

\* A quarantined plugin is not skipped by anything: its failures are still
\* recorded, but the window is not looked at any more.
RecordStructuralFailure(p) ==
  /\ health[p].total < MaxRuns
  /\ \E exc \in Raised : ~IsTransient(exc)
  /\ LET failed == [health[p] EXCEPT !.total = @ + 1,
                                     !.structural = Append(@, hour)]
     IN  health' = [health EXCEPT ![p] = MaybeQuarantine(failed)]
  /\ history' = [history EXCEPT ![p] = Append(@, hour)]
  /\ UNCHANGED <<adapters, hour>>

\* reactivate forgets the failures, not the counts of runs.
Reactivate(p) ==
  /\ LET cleared == [health[p] EXCEPT !.quarantined = FALSE,
                                      !.structural = <<>>, !.transient = 0]
     IN  health' = [health EXCEPT ![p] = cleared]
  /\ history' = [history EXCEPT ![p] = <<>>]
  /\ UNCHANGED <<adapters, hour>>

\* The process restarts: app.py registers the default adapters again.
RestartProcess ==
  /\ adapters' = [p \in PluginId |-> IF p \in DefaultAdapted THEN "default" ELSE "none"]
  /\ health' = [p \in PluginId |-> FreshRecord]
  /\ history' = [p \in PluginId |-> <<>>]
  /\ UNCHANGED hour

HourPasses ==
  /\ hour < MaxHour
  /\ hour' = hour + 1
  /\ UNCHANGED <<adapters, health, history>>

HealthNext ==
  \/ \E p \in PluginId :
       \/ \E overwrite \in BOOLEAN : RegisterAdapter(p, overwrite)
       \/ RecordSuccess(p)
       \/ RecordTransientFailure(p)
       \/ RecordStructuralFailure(p)
       \/ Reactivate(p)
  \/ RegisterDefaultAdapters
  \/ RestartProcess
  \/ HourPasses

HealthSpec == HealthInit /\ [][HealthNext]_healthVars

-----------------------------------------------------------------------------
\* FailureThreshold consecutive failures of the history within the window.
Burst(times) ==
  \E i \in DOMAIN times :
    /\ i + FailureThreshold - 1 \in DOMAIN times
    /\ times[i + FailureThreshold - 1] <= times[i] + WindowHours

\* A plugin is quarantined exactly if at some moment since its record was
\* fresh the last failures came FailureThreshold within the window, although
\* the tracker looks at the window only when a structural failure arrives and
\* drops what is older for good (health.py:19-21).
QuarantineIsEarned ==
  \A p \in PluginId : health[p].quarantined <=> Burst(history[p])
=============================================================================
