------------------------------- MODULE Replay -------------------------------
(***************************************************************************)
(* The replay engine, src/argus/canonical/replay.py, on top of             *)
(* IdentityLifecycle.  Derived state is the identities, their links and    *)
(* the merge records; replay deletes it and folds the identity events over *)
(* an empty state.  Decision events are read and ignored.                  *)
(*                                                                         *)
(* The events are those the services write: "created" carries no           *)
(* entity_ids, "merged" is filed under the target with the key             *)
(* source_identity, "split" carries no moved_entities.                     *)
(***************************************************************************)
EXTENDS IdentityLifecycle

\* identity_events.identity_id is a foreign key with ON DELETE CASCADE.
\* PostgreSQL enforces it; SQLite does not unless it is told to.
CONSTANT CascadeDeletes

ASSUME CascadeAssumption == CascadeDeletes \in BOOLEAN

\* _clear_derived_state.
Cleared == [status     |-> [i \in Identity |-> "absent"],
            mergedInto |-> [i \in Identity |-> None],
            confidence |-> [i \in Identity |-> {}]]

\* _get_or_create_identity and an assignment to its status.
SetStatus(state, i, st) == [state EXCEPT !.status[i] = st]

Recreate(state, ev) ==
  [SetStatus(state, ev.identity, "tentative")
     EXCEPT !.confidence[ev.identity] = ev.counted]

\* An identity a "promoted" event has brought back is left alone.
ApplyCreatedAgain(state, ev) == Recreate(state, ev)
ApplyCreated(state, ev) ==
  IF state.status[ev.identity] = "absent" THEN Recreate(state, ev) ELSE state

\* A merge event without target_identity_id is skipped.
ApplyMerged(state, ev) ==
  IF ev.target = None
  THEN state
  ELSE [SetStatus(state, ev.identity, "merged")
          EXCEPT !.mergedInto[ev.identity] = ev.target]

ApplySplit(state, ev) ==
  [SetStatus(state, ev.source, "tentative") EXCEPT !.mergedInto[ev.source] = None]

\* _apply_identity_event.  No event restores a link, so links stay out of the
\* fold.
Apply(state, ev) ==
  CASE ev.action = "created"  -> ApplyCreated(state, ev)
    [] ev.action = "promoted" -> SetStatus(state, ev.identity, "confirmed")
    [] ev.action = "disputed" -> SetStatus(state, ev.identity, "disputed")
    [] ev.action = "merged"   -> ApplyMerged(state, ev)
    [] ev.action = "split"    -> ApplySplit(state, ev)

Rebuilt(events) ==
  LET state[n \in 0..Len(events)] ==
        IF n = 0 THEN Cleared ELSE Apply(state[n - 1], events[n])
  IN state[Len(events)]

\* The events that are left once the identities are deleted.
SurvivingCascade == <<>>
Surviving == IF CascadeDeletes THEN <<>> ELSE identityEvents

\* replay, committed.  An identity without links has no investigation, so
\* _recompute_confidences leaves all of them alone and logs nothing.
ReplayAll ==
  LET rebuilt == Rebuilt(Surviving)
  IN /\ status' = rebuilt.status
     /\ mergedInto' = rebuilt.mergedInto
     /\ confidence' = rebuilt.confidence
     /\ entities' = [i \in Identity |-> {}]
     /\ records' = <<>>
     /\ identityEvents' = Surviving
     /\ UNCHANGED <<items, decisionEvents, observations>>

ReplayNext == Next \/ ReplayAll

ReplaySpec == Init /\ [][ReplayNext]_vars

-----------------------------------------------------------------------------
\* "Replay doesn't lose identities." (tests/test_decision_engine.py): every
\* identity there is comes back, whatever happened to it.
ReplayKeepsIdentities ==
  \A i \in Identity :
    Exists(i) => Rebuilt(Surviving).status[i] # "absent"

\* An identity that was never merged away and is not disputed comes back with
\* its status, although a promotion on creation is logged before the creation.
ReplayRestoresUnmerged ==
  \A i \in Identity :
    (/\ status[i] \in {"tentative", "confirmed"}
     /\ \A k \in DOMAIN records : records[k].source # i) =>
       Rebuilt(Surviving).status[i] = status[i]

\* What a replay brings back where reviewers race: every identity, and with its
\* status each one that was never merged away and is not disputed (replay.py:
\* 81-123).  A dispute and a promotion that is logged after it, as the engine
\* does whatever the status is, come back as a confirmed identity.
ReplayBringsBack == ReplayKeepsIdentities /\ ReplayRestoresUnmerged

\* "After replay, the identity state must EXACTLY match the state before
\* replay." (replay.py): what _compare_snapshots compares is unchanged.
ReplayExact ==
  [][ReplayAll => UNCHANGED <<status, mergedInto, confidence, entities>>]_vars
=============================================================================
