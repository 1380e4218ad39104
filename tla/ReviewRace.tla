----------------------------- MODULE ReviewRace -----------------------------
(***************************************************************************)
(* Reviewers at work: src/argus/api/routes/review_queue.py on top of       *)
(* IdentityLifecycle.                                                      *)
(*                                                                         *)
(* Each HTTP request has a session of its own.  It reads the review item   *)
(* with a plain SELECT, checks the status it read, and only then writes;   *)
(* review_queue has no version column and the SELECT takes no lock.  The   *)
(* first write of a request, the UPDATE of the item, locks the database    *)
(* (SQLite) or the item's row (PostgreSQL) until the commit, so that what  *)
(* follows the check is one step even though the check is stale by then.   *)
(***************************************************************************)
EXTENDS IdentityLifecycle

CONSTANT Request     \* approve and reject requests

ASSUME RequestAssumption == None \notin Decision

VARIABLE requests    \* what every request has read

allVars == <<vars, requests>>

RequestState == [phase : {"new", "checked", "done"},
                 op    : {"approve", "reject"},
                 item  : Decision \union {None}]

RequestTypeOK ==
  /\ TypeOK
  /\ requests \in [Request -> RequestState]

RaceInit ==
  /\ Init
  /\ requests \in [Request -> [phase : {"new"}, op : {"approve", "reject"},
                               item : {None}]]

-----------------------------------------------------------------------------
CheckKeepsRow(q, d) ==
  /\ requests[q].phase = "new"
  /\ items[d].status = "pending"
  /\ requests' = [requests EXCEPT ![q].phase = "checked", ![q].item = items[d]]
  /\ UNCHANGED vars

\* _load_review_item and the guard; an item that is not pending is a 400.
Check(q, d) ==
  /\ requests[q].phase = "new"
  /\ items[d].status = "pending"
  /\ requests' = [requests EXCEPT ![q].phase = "checked", ![q].item = d]
  /\ UNCHANGED vars

Close(q) == requests' = [requests EXCEPT ![q].phase = "done"]

\* The rest of the handler and the commit.
CommitApproval(q) ==
  /\ requests[q].phase = "checked"
  /\ requests[q].op = "approve"
  /\ ExecuteApproval(requests[q].item)
  /\ Close(q)

\* What an approval that fails would leave behind without the rollback.
ApprovalLeftBehind(q) ==
  /\ requests[q].phase = "checked"
  /\ requests[q].op = "approve"
  /\ LogDecision(requests[q].item, {"approved"})
  /\ Close(q)
  /\ UNCHANGED <<status, mergedInto, entities, confidence,
                 records, items, identityEvents, observations>>

\* merge_identities or its caller refuses: an identity is missing, the draft has
\* no investigation, or the target nothing in the one that was picked.
MergeRefused(s, t) ==
  \/ ~Exists(s) \/ ~Exists(t)
  \/ ScopesOf(s) = {}
  \/ \E v \in ScopesOf(s) : ~Mergeable(s, t, v)

\* A handler that raises is rolled back and answers 400 or 500.
RollBackApproval(q) ==
  LET item == items[requests[q].item]
  IN /\ requests[q].phase = "checked"
     /\ requests[q].op = "approve"
     /\ \/ item.target = None /\ ~Exists(item.candidate)
        \/ item.target # None /\ MergeRefused(item.candidate, item.target)
     /\ Close(q)
     /\ UNCHANGED vars

CommitRejection(q) ==
  /\ requests[q].phase = "checked"
  /\ requests[q].op = "reject"
  /\ ExecuteRejection(requests[q].item)
  /\ Close(q)

Review(q) ==
  \/ \E d \in Decision : Check(q, d)
  \/ CommitApproval(q)
  \/ RollBackApproval(q)
  \/ CommitRejection(q)

\* The handlers of IdentityLifecycle other than the review endpoints.
Background ==
  /\ \/ Observe
     \/ Resolve
     \/ \E i \in Identity : Dispute(i)
     \/ \E d \in Decision : Process(d)
     \/ \E k \in 1..Len(records) : Split(k)
  /\ UNCHANGED requests

RaceNext == Background \/ \E q \in Request : Review(q)

RaceSpec == RaceInit /\ [][RaceNext]_allVars

-----------------------------------------------------------------------------
\* An approval and its effect commit together or not at all, also when the
\* approval turns out to be impossible after another reviewer's or when two
\* reviewers approve one item (review_queue.py rolls back on every error).
ApprovalsExecute ==
  \A d \in Decision :
    decisionEvents[d]["approved"] <= decisionEvents[d]["executed"]

\* However many reviewers race, at most one merge of a decision is in force:
\* the second one finds the candidate without entities.
OneMergeInForce ==
  \A k, l \in DOMAIN records :
    (/\ k # l
     /\ records[k].decision = records[l].decision) =>
       records[k].reverted \/ records[l].reverted

\* Racing reviewers break nothing that one reviewer at a time keeps: tombstones
\* stay empty and every merge can still be taken back (review_queue.py:132-189).
RacesKeepTheLifecycle == TombstonesOwnNothing /\ SplitsCannotConflict

\* "Can't approve a review item that's already been resolved." (tests/
\* test_decision_engine.py); "Status lifecycle: pending -> approved ->
\* executed, pending -> rejected" (models.py).
ResolvedIsFinal ==
  [][\A d \in Decision :
       items[d].status \in {"executed", "rejected"} =>
         items'[d] = items[d]]_allVars
=============================================================================
