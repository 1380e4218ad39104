# Argus: a TLA+ verification project

Argus (`src/argus/`) is an open-source-intelligence platform. A user submits a
target, the *investigation runner* asks some seventy plugins about it and stores
what they return as evidence; *monitors* repeat an investigation on a schedule
and alert on changes; the *canonical* layer turns evidence into entities,
groups entities into identities, and lets a *decision engine*, with human
reviewers, merge, promote, split and replay those identities.

This directory holds TLA+ models of the parts that keep state and can go wrong,
the TLC runs that check them on small instances, and TLAPS proofs of the
properties that matter most for every instance. `PROJECT.json` lists the runs,
the lines each definition stands for, the faults each property was seen to
catch, the hazards of the code and the disagreements found.

    tlc -workers 2 -config IdentityLifecycle.cfg MCReplay
    tlapm IdentityLifecycleProofs.tla

## 1. Inventory

| Component | State | Operations | Hard because |
|---|---|---|---|
| Identity resolution `canonical/services/identity.py` | `identities`, `identity_entities`, `identity_events` | resolve, merge, dispute, recompute confidence | queries run against a session that does not flush; chains of merges |
| Decision engine `canonical/decision_engine.py` | `decision_events`, `review_queue`, `identity_merge_records` | process (merge, promote, queue, reject), approve, reject, split | several writes per decision, idempotency, errors committed half-way |
| Review routes `api/routes/review_queue.py` | a session per request | approve, reject, list | two reviewers; check and write apart |
| Replay `canonical/replay.py` | the same tables | replay, dry run | deletes what it rebuilds; foreign keys |
| Runner `plugins/runner.py` | `investigations`, `evidence`, `chain_of_custody`, result cache | start, bulk, run | coroutines on one session, timeouts, retry, one commit, crash |
| Monitors `main.py`, `monitor_scheduler.py`, `api/routes/monitors.py` | `monitors` | create, edit, delete, check now, poll, check, alert | a round works on rows read before |
| Retention `retention.py` | `investigations`, `evidence` | clean up | dangling references, foreign keys |
| Ingestion `canonical/ingestion.py` | entities, observations, relationships and their links | ingest | check-then-insert, unflushed links |
| Entity service `canonical/services/canonical_entity.py` | the same tables and `identities` | upsert, link, get or create an identity, merge | an older twin of identity resolution, blind to tombstones |
| Correlation `canonical/correlation.py`, `canonical/rules/` | the registry of rules | correlate, evaluate rules, resolve conflicts | dependent signals, priorities between rules |
| Adapters `canonical/adapters/` | health record per plugin, in memory | register, record success or failure, quarantine | sliding window at its boundary |
| Plugins `plugins/*_plugin.py` | none | run | which failure of which request ends a run |
| Rate limiter `api/rate_limit.py` | a window per client and path, in memory | admit, refuse | two readings of the clock |
| API shell `api/` | none between requests | authentication, middleware, CRUD | one statement per request |
| Intelligence, exports, bots, notifiers, UI | AI cache | formatting and network clients | I/O |

How they interact: routes start background tasks that call the runner; the
scheduler calls the runner and reads its evidence; the runner knows nothing of
the canonical layer. Ingestion would feed entities to identity resolution and
correlation would feed decisions to the engine, but no production code calls
`ingest`, `process`, `split_identity`, `resolve_investigation`,
`dispute_identity` or `replay`: only tests do. The review routes are the one
production user of the engine. The models treat those entry points as what they
are, public operations that may be called in any order.

What makes each correct: identities keep every entity under exactly the merges
and splits that were decided; a decision takes effect once and its audit trail
agrees; replay gives back what was there; a run stores all of its evidence or
none and ends; a plugin reports a success only with something to show for it; a
monitor compares with its current baseline, alerts a change once, and alerts
nothing the world did not do unless a plugin was down; ingestion takes effect
at one instant; a watched identity is never merged behind the reviewer's back.

## 2. Modules

| Module | Models | Extends |
|---|---|---|
| `IdentityLifecycle` | decision engine and identity resolution, a handler per action | |
| `ReviewRace` | the review routes, a request taken apart at its read | `IdentityLifecycle` |
| `Replay` | the replay engine, one transaction | `IdentityLifecycle` |
| `ReviewReplay` | review requests composed with replays | `ReviewRace`, `Replay` |
| `InvestigationRunner` | runner, retry, cache, start and bulk routes | |
| `MonitorScheduler` | scheduler loop, checks, monitor routes, retention | |
| `CanonicalStore` | what ingestion comes to: one atomic step per call | |
| `Ingestion` | `IngestionService.ingest`, overlapping calls on either database | |
| `NoisyOr` | the combination of weights that the next two compute | |
| `EntityService` | the canonical entity service | `NoisyOr` |
| `CorrelationRules` | the correlation engine, the registry of rules and their conflicts | `NoisyOr` |
| `SlidingWindow` | the window over a list of times that health and rate limiter keep | |
| `AdapterHealth` | the adapter registry, failure classification, the quarantine | `SlidingWindow` |
| `Plugins` | the `run` of 71 plugins | |
| `RedirectChain`, `EmailSecurity` | the two plugins with a loop or a score of their own | |
| `MonitorDiff` | the fingerprint and the diff of a monitor, by field | |
| `RateLimiter` | the limits of the API per client and path | `SlidingWindow` |
| `MCIdentityLifecycle`, `MCInvestigationRunner`, `MCIngestion`, `MCReviewRace`, `MCReplay` | instances of one module for TLC | the module |
| `MCReviewReplay` | the instance of the composition | `MCReviewRace`, `ReviewReplay` |
| `MCRunsAndMonitors` | the runner and the monitors, one at a time | `MCInvestigationRunner`, `MonitorScheduler` |
| `MCPlatform` | the components that share no state, one at a time | `MCIngestion` and seven others |
| `...Proofs` | theorems, section 4 | the modules they are about |
| `Induction` | induction and recursion for the proofs | |

In every module a definition that directly precedes one with the same
parameters, and has no comment of its own, is a faulty variant: the mutants of
`PROJECT.json` put it in the place of the right one and TLC then finds the
property violated.

### IdentityLifecycle

An action is a handler together with the commit of its caller's transaction. A
handler whose transaction is rolled back changes nothing and is a stutter. Two
kinds of error differ: `process` catches `DecisionEngineError`, logs a rejection
and re-raises, and its callers commit (`ProcessAutoMergeFails`,
`ProcessPromotionFails`, including the merge record that was written before the
error); an `IdentityResolutionError` (no common investigation) is rolled back.

| Variable | Code |
|---|---|
| `status`, `mergedInto` | `identities.status`, `identities.merged_into` |
| `entities` | `identity_entities`, as the set of entities of an identity |
| `confidence` | `identities.confidence`, as the basis it was computed from: links, and for each the further sources counted |
| `records` | `identity_merge_records`, in insertion order |
| `items` | `review_queue`, one row per decision |
| `decisionEvents` | `decision_events`, counted per decision and action |
| `identityEvents` | `identity_events`, in insertion order |
| `observations` | what ingestion recorded besides the first observation of each entity |

Decisions of the model:

- *Confidence.* It is a noisy-OR over weights. The weight of an entity depends
  on its type and, in tiers 2 and 3, on how many sources observed it in the
  investigation the computation is given (`_compute_entity_weight`). So the
  stored value is a function of a basis: the links that the query sees and, for
  each, the sources besides its first one. `Promoting` is the family of bases
  that pass the threshold; all that is assumed is that it is closed upwards.
  `MCIdentityLifecycle` computes it from weights of `confidence.py`, such that a
  second source lifts one pair of entities over the threshold.
- *Observations.* `Observe` is ingestion recording a further source, which may
  happen at any time and recomputes nothing: it counts when the next handler
  computes a confidence, and only if that handler is given the investigation the
  source belongs to. A merge or a split picks one of several.
- *Autoflush.* `database.py` turns it off, the test fixtures leave it on.
  `Visible` is what a query sees of links that are only pending in the session.
- *Choice by the database.* `LIMIT 1` without an order is any matching row.
- Each candidate group of `resolve_investigation` is one step: the caller may
  commit after any, and TLC covers every order.
- The merge of the draft picks one investigation of the source; the target must
  own an entity of it (`Mergeable`).
- The status `approved` of a review item exists only inside a transaction and is
  never committed. `targetHad` in a merge record is a history variable, used by
  one property.

### ReviewRace

`Check` is the plain `SELECT` and the test of the status it read. Everything
after it is one step at commit time, working on the current database: the first
write of a request locks the database on SQLite. This is exact for SQLite; on
PostgreSQL the first write locks only the item's row, so two approvals of
*different* items can interleave further, which is not modelled. Splits,
decisions, resolutions, disputes and observations of other sessions run in
between (`Background`: every handler but the two review endpoints).

### Replay

`Rebuilt` folds the events over the emptied tables, as a recursive function of
the number of events read. Events are those the
services really write: `created` carries no `entity_ids`, `merged` is filed
under the target without a `target_identity_id`, `split` carries no
`moved_entities`; so no event restores a link. `CascadeDeletes` says whether the
database enforces `ON DELETE CASCADE` of `identity_events.identity_id`.

### InvestigationRunner

An action is what a coroutine does between two suspensions of the event loop.

| Variable | Code |
|---|---|
| `status` | `investigations.status` |
| `tasks` | Starlette's background tasks of a response, run in turn |
| `plugin` | where the coroutine `_run_and_track(plugin)` is: before the semaphore, in its first or second attempt, flushing, returned, or ended by a refused flush |
| `result` | what it got, pending in the session of the run |
| `cache` | the result cache, in the memory of the process |
| `evidence`, `reported`, `custody` | what the commit made durable: rows, results in the summary, data under the custody hash |

A flush makes nothing durable: what a run flushed is there after a crash only
if the run had committed (`Collect`), whatever the comment at the flush says
(section 5). The session of a run is shared by its coroutines; a flush begun during another
one raises `InvalidRequestError`, `asyncio.gather` keeps it, and the evidence
object stays in the session (`Deliver`, state `lost`). After the gather, with
any data to analyse, `run_investigation` evaluates the unbound name `settings`
(runner.py:439): `Collect` ends the task with the transaction undone. So only
runs in which no coroutine returned data complete. The semaphore admits waiters
in any order, which includes the order of arrival. A template that narrows the
plugins, and a start request (a bulk of one), are covered by `PluginsOf` and
`Submitted` being arbitrary. Telegram progress, entity extraction and the text
of the summary are left out.

### MonitorScheduler

`row` is a row of `monitors`; `check` is the progress of `_run_monitor` with
`was`, the detached row the poll read. The clock is abstracted to the flag `due`
(`next_check` has come): it becomes true by time or by check-now and false when
a check saves or the schedule is edited. An investigation inside a check ends
with some fingerprint or with an exception. `cleanup_old_data` runs between
rounds and turns the last investigation of any set of monitors into a dangling
number; on a database that enforces foreign keys a completed investigation has a
`chain_of_custody` row and the delete fails. `change_count` and `last_checked`
are not modelled.

### Ingestion

A call of `ingest` is a session: `session[c]` says where it is (`phase`, `next`)
and what it holds back until its caller commits. An action is one query together
with what is done about its answer; adding an object to the session does not
query, so an upsert, a link, and a relationship with its provenance are a step
each.

| Variable | Code |
|---|---|
| `evidence` | `raw_evidence`, by the call that wrote it |
| `known` | `canonical_entities` |
| `links`, `count` | `entity_investigation_links`, `investigation_count` |
| `rows`, `support` | `relationships`, by the call that inserted the row, and `relationship_provenance` |
| `session[c].created`, `linked`, `related`, `supported` | rows the call inserted |
| `session[c].unflushed`, `unbacked` | links and provenance still pending, which its own queries miss (`autoflush=False`) |
| `session[c].base` | the counts as its session loaded them |

Decisions of the model:

- *Visibility.* A query sees what is committed plus what its own session has
  flushed. Inserting an entity or a relationship flushes everything pending;
  adding a link or provenance does not.
- *Two databases.* `Init` picks one. On SQLite the first `INSERT` of a
  transaction takes the only write lock (`MayWrite`), after the idempotency
  check was made. On PostgreSQL nothing orders the calls, and a broken
  constraint refuses the later one (`Conflicts`), evaluated at the commit: the
  `INSERT` that would raise earlier blocks until the other call has ended.
- *Refusals.* A pending link or provenance that is added again breaks its primary
  key at the next flush; two rows of an edge make `scalar_one_or_none` raise.
  Both end the call, and its caller rolls back, as the docstring asks.
- *A relationship whose ends were not extracted* upserts them without a link
  (`NewEnds`), in the step of the relationship.
- Left out: validation and caps, which come before any state; observations and
  their links; confidences, timestamps and `source_count`.

`CanonicalStore` is what the service comes to for its callers: one step per
call, in which the evidence and everything derived from it appear together. The
docstring promises more, that re-ingesting an execution is a no-op
(`ingestion.py:15`). That holds of calls in turn; of two that overlap, both look
for the evidence before either commits, no constraint backs the look, and both
take effect, each with an evidence row. The abstract store therefore knows a call
by its evidence and not by its execution (section 5). `IngestionIsAtomic` is its
specification over the variables of `Ingestion` (`INSTANCE CanonicalStore`, with
the committed part of the state as refinement mapping): reading, holding back,
refusing and aborting are stutters, a commit is `TakeEffect`.

### EntityService

An action is one call and the flush it ends with, in a session with autoflush or
without. `weight` is `identity_entities` with the weight of each link,
`confidence` the product of the complements, in exact integers over all keys, so
that identities with different links can be compared. The service chooses the
identity with the largest overlap and leaves equals to the order of the rows; it
looks neither at the investigation nor at the tombstone status, so a merged
identity may be merged again, or into.

### CorrelationRules

A draft identity grows result by result; correlation and judgement change
nothing, so they are operators over the draft, in integers (weights in
hundredths, scores in thousandths of `Whole`, the product of as many hundreds as
there are pieces of evidence), which are exact for any finite evidence: a piece
without a signal multiplies by a whole. What is state besides the draft is the registry: a rule can be
registered, overwritten or cleared, and the checker of the watchlist rule can be
the default one, one that looks values up, or one that raises; a rule that
raises proposes nothing.

### AdapterHealth

`health[p]` is the tracker's record, `adapters` the registry. Exceptions are
classified by the name of their class and a status, as the code does. The
window is a filter; the code drops from the front of the list, which is the same
for times in the order of the clock. `history`
is a ghost of all structural failures since the record was fresh, the ones the
window has dropped included; the property compares the quarantine with it.

### Plugins

A plugin is a value: whether it refuses some targets, the stages of requests it
makes, and what it needs to report a success. A stage is sources asked at once
that it can do without (`Optional`), or sources asked in turn until one answers
acceptably (`InTurn`, with `Required`, `RequiredData` and `UnlessUnknown` for the
common shapes). One pair of actions starts and
advances any plugin; a source answers with data, nothing, 404, another status,
no connection, or an exception. The map gives each plugin its `run`. Parsing and
the texts of a report are left out.

`RedirectChain` is the walk of `redirect_chain`, over any map of URLs to
answers, with the guard against private addresses. `EmailSecurity` is the score
of `email_security`, with Python's scoping of `score` (section 5).

### MonitorDiff

Two consecutive checks of one monitor, each with what the world held and which
plugins worked. The row of a failed plugin holds an error in place of its fields
(`runner.py:366`), and both the fingerprint and the diff read a missing field as
empty: neither can tell an outage from an empty finding. Of certificates the
fingerprint reads a count.
`PurgeBaseline` is the cleanup deleting the evidence of the last check while its
fingerprint stays in the monitor's row. `asn` stands for all that only the
fingerprint looks at; `scope` is the fields an instance lets vary.

### RateLimiter

The two readings of the clock of a request, the clean-up between them, and the
process restart that forgets every window. `admitted` and `refused` are ghosts.

### ReviewReplay, MCPlatform and MCRunsAndMonitors

`ReviewReplay` interleaves the requests of `ReviewRace` with whole replays: a
request may have read its item before a replay and commit after it.

`MCPlatform` puts the modules from `Ingestion` on that share no state into one
run. `focus`, chosen by `Init`, says which one moves; the others keep one initial
state, so that the state spaces add and do not multiply, and a property of one
component is trivially kept while another has the focus. `MCRunsAndMonitors`
does the same with the runner and the monitors, whose names are kept apart by a
prefix (`MonitorInit`, `MonitorNext`, ...).

## 3. Runs

| Run | Bounds | Shows |
|---|---|---|
| `identity_lifecycle` | 3 identities, 3 entities in 2 investigations, one further source, 2 decisions, observing and disputing while the log is shorter than 2 events, autoflush on (1 722 620 states) | tombstones own nothing, merge chains end, splits cannot conflict, a decision is decided once, items agree with the trail, whoever is computed to reach the threshold is promoted, no entity is lost, disputes stick; at any moment a replay would bring back the identities neither merged away nor disputed with their status |
| `review_and_replay` | as above, 1 decision, 2 requests, replays at any time, autoflush off, no cascade (1 642 989 states) | approvals execute or leave nothing, one merge of a decision in force, the structural invariants under the race, and every identity comes back from a replay, with its status if it was neither merged away nor disputed |
| `runs_and_monitors` | runner: 3 plugins, 2 slots, a bulk of two targets and one whose first target has no plugin, 1 crash; monitors: 2 monitors, 2 fingerprints, 1 crash (183 463 states) | evidence all or nothing, a bulk goes on only over completed targets, every task ends; current baselines, alerts after the save, due monitors are checked |
| `platform` | per component, below (691 070 states) | ingestion implements the atomic store, and the properties of the seven components next to it |
| `production_promotion` | 2 identities, no dispute and no further source, autoflush off | finding: promotion misses pending links |
| `split_reverses` | 3 identities, no dispute and no further source | finding: a split takes what the target owned |
| `review_race_resolved` | as `review_and_replay`, no replay, dispute or further source | finding: a resolved item is resolved again |
| `replay_exact` | 2 identities, 1 decision, with the cascade | finding: replay deletes its events |
| `partial_results` | the runner alone, 1 crash | finding: evidence that was flushed is lost |
| `bulk_targets` | the same, no crash | finding: later targets of a bulk never run |
| `custody` | the same, no crash | finding: evidence outside the custody hash |
| `email_security` | one domain, every outcome of the five checks | finding: deductions never count |

What `platform` asks of each component, and its bounds:

| Component | Bounds | Properties |
|---|---|---|
| `Ingestion` | 4 calls (a result, its retry, one that repeats itself, one of another investigation), 3 entities, 3 relationships, both databases | `IngestionIsAtomic`; the derived store is what the evidence says (`StoreIsItsEvidence`), counts are those of the links, edges are unique and refusals explained on SQLite |
| `CorrelationRules` | 4 identifiers of 4 types (one without a signal), 1 relationship, 3 pieces of evidence | a pair scores enough for a merge exactly if it shares a strong identifier; a watched match is not merged without review while the watchlist answers; more evidence never lowers the score |
| `AdapterHealth` | 2 plugins (one adapted by default), threshold 2, window 1 hour, 3 runs, 4 hours | a plugin is quarantined exactly if some window held enough structural failures |
| `Plugins` | every plugin, every reply | a run that heard from nobody reports a failure, except in the 32 plugins named, which compute their result or swallow every failure |
| `RedirectChain` | 4 URLs, one refused, 3 hops, every map of answers | `has_loop` is told exactly when a loop closes within the hops, and no URL is requested twice |
| `MonitorDiff` | 2 items, 16 scopes (each field, and three pairs that share a plugin or not) | a false alarm needs an outage; a change both checks could see is told, outages elsewhere notwithstanding |
| `EntityService` | 3 entities, 2 identities, 2 tables of weights, both settings of autoflush | confidence is earned; the best signal of an entity never gets worse |
| `RateLimiter` | 2 keys with limits 1 and 2, window 2, clock to 4 | no window holds more than the limit, and no request is refused without cause |

*Why the bounds are enough.* Three identities are what a chain of merges, a
cycle or a second merge of one source needs; three entities in two overlapping
investigations give identities that share an entity, that share only an
investigation, and that share nothing, and weights on both sides of the
threshold, one of them only with the further source. Two decisions let one
decision's merge meet another one's record; merge records and events need no
bound of their own, because a decision is processed once and a promotion happens
once per activation. `Dispute` could repeat for ever, and `Observe` would double
every state: `MaxEvents` lets both happen while the log is short, which is before
or after an identity is created or promoted and before all that follows, and
`Observable` names the observations there are. The replay run adds no loop: a replay
never lengthens the log. Three plugins with two slots give a full semaphore and
two flushes that meet; a crash may hit any step. Two monitors show one check
dying while another goes on. Four calls of ingest hold every kind of overlap:
the same execution twice, two executions of one investigation (the same links),
two investigations (the same entities and counts), and a repetition inside one
result; nothing is unbounded, because every call ends.

In the platform, one identifier per tier and one without a signal reach every
branch of the score and both thresholds, and three pieces of evidence give
signals that depend on each other and signals that do not. Three runs against a
threshold of two let a failure leave the window before, at and after its edge.
Four URLs and three hops have loops of every length up to the bound, loops the
last request closes, and chains that outrun it. A diff treats fields apart
except through the plugin they share, so pairs suffice. Two identities and three
entities are what a merge with a shared, a moved and an untouched link needs.
A clock of twice the window lets a full window slide out and fill again.
`MaxRuns`, `MaxHour`, `MaxHops` (a constant of the code), `MaxTime`,
`MaxCrashes`, `MaxRestarts`, `MaxEvents` and `Observable` are the only bounds
that cut behaviours.

*Fairness.* The identity and platform models claim no liveness: nothing in the
code forces a reviewer, a caller or a client to act. The runner assumes weak
fairness of what the event loop does by itself: start and collect a task, admit a coroutine to a free slot,
end a flush, and fire `asyncio.wait_for`. No plugin has to answer and no retry
or cache expiry has to happen, so `TasksEnd` rests on the timeout alone. The
scheduler assumes that the loop goes on and that each check in progress
advances, which `TasksEnd` justifies for the investigation inside it, and the
HTTP timeouts for the alert. No fairness is assumed of users, the clock, the
cleanup or crashes. `runs_and_monitors` conjoins the two conditions; the component
without the focus has nothing enabled. Deadlock checking is off where the system may stop: all
decisions taken, all requests served, all monitors deleted, a call, a plugin or
a walk ended.

## 4. Proofs

All theorems hold for every value of the constants that satisfies the named
assumptions, which TLC evaluates in the runs.

- `IdentityLifecycleProofs`: `TypeCorrect`, and, from the invariant `Structure`,
  `Tombstones`, `MergeChainsEnd` and `SplitsAreConflictFree`. None of the three
  is inductive alone. A merge keeps chains finite because its source owns an
  entity, hence is no tombstone, and nothing without entities can become a
  target; a split is free of conflicts because the source of a merge in force
  stays empty, which needs that a tombstone is no candidate of any action and
  that one source has at most one such record. `Structure` is their conjunction
  with types and with the fact that an absent identity is blank. It does not
  assume autoflush.

  The same module proves `DecisionsDecidedOnce` and `ReviewItemsMatchTrail`, from
  the invariant `Trails`, which adds to the two that a decision with a review
  item was requested exactly once: so `process` skips it ever after, and the
  review handlers need the pending status, so only one of them runs.
  `EntitiesAreKept` and `DisputesStick` are action properties proved step by
  step under `Structure`. `PromotionIsPrompt`: with autoflush on, no identity
  whose stored confidence, or whose links alone, reach the threshold is
  tentative, whatever sources were counted and in whichever investigation. It
  is inductive once `Structure` is there: a merge leaves its source without
  entities, so only the target and the source of a split can cross the threshold,
  both are recomputed in the same step, and the basis of a computation covers the
  links, so it promotes wherever they do. It says nothing of sources observed
  after the computation: they count at the next one (section 5). With autoflush
  off the statement is false (`production_promotion`).
- `RunnerProofs`: `RunnerTypes`; `EvidenceIsAllOrNothing`, from `Runner`, which
  adds that a coroutine that flushes, returned or was lost has a result, and
  others have none; `BulkStops`, from `Bulk`, which adds that the tasks left are
  a suffix of those submitted and all before it are completed.
- `MonitorSchedulerProofs`: `MonitorTypes`, `BaselinesAreCurrent` and
  `AlertsComeAfterTheSave`, from `Rounds`: checks exist only inside a round, and
  a round to monitors that exist or were deleted since. Between the start of a
  round and a monitor's own comparison nothing else writes its baseline.
- `IngestionProofs`: `IngestTypeCorrect`, `DerivedFromEvidence`,
  `CountsCorrect`, `EdgesUnique` and `RefusalsExplained`, from
  `IngestInvariant`. The properties speak of committed rows only, so none is
  inductive: `Follows` says what a call in progress has read and holds back -
  the entities it handled are known or created, each is linked by it or was
  found linked, each edge it supports has a row - and these survive the commits
  of others because the store only grows. `Alone` is what a call may count on
  besides where `SingleWriter` holds: nothing it found missing has appeared. A
  commit then adds exactly what its evidence accounts for.

  `IngestionImplementsStore` proves the refinement: `StoreIsItsEvidence` before
  and after a step makes the derived store a function of the evidence, so a step
  that adds no evidence is a stutter of `CanonicalStore`, and one that adds a
  call's evidence, which only a commit not made before can do, is its
  `TakeEffect`.
- `RaceProofs`: `RaceTypes`, `RacesAreHarmless`, `ApprovalsAreExecuted` and
  `OneMergeOnly`, for any number of requests. `RaceStructure` is `Structure`
  once more, now kept by commits that act on an item they read earlier.
  `MergesOfDecisions` adds that all merges reviewers execute for one decision
  have the candidate of its item as source and moved some of its links: a record
  in force leaves that source empty, so a second one cannot be.

  `ReplaysRestore` and `ReplaysBringBack` say what a replay gives back, under the
  hypothesis that the database does not cascade (with the cascade the claim is
  false: `replay_exact`). The log is folded, so the argument is about the fold
  after one more event (`RebuiltAppend`). `Restorable` is inductive: an identity
  is in the log exactly if it has a row, and one that no merge record names as a
  source, and is not disputed, has in the log the status of its row. Disputes are
  among the steps: a disputed identity is outside the claim (section 5), and
  after a replay has given it another status it is inside again. The records
  are what makes it work: after a merge and its split the log and the row may
  disagree, and a record, even a split one, marks the identity until a replay
  clears the records and rebuilds the row from the log.
  `RaceReplayInvariant` joins it with the invariants of the race, and shows that
  a replay between the check of a review and its commit rebuilds tables that
  satisfy all of them (`ReplaysAreHarmless`), and restores what it has restored
  before.
- `Induction`: what the proofs about folds, walks and windows rest on. Induction
  over naturals and finite sets is stated with the set of values that satisfy
  the claim instead of a predicate, and follows from the well-foundedness of the
  order on naturals. From it: a recursive function over `0..n`, and a fold over a
  finite set, exist and satisfy their equations.
- `CanonicalProofs`: `RulesTypes` and `WatchedAreReviewed` (no proposal beats a
  review in priority unless it is a rejection, and with a working checker a
  watched match always proposes a review), and `SignalsSurvive` of the entity
  service, one step per call.

  `StrongScoresAreTierOne` and `MoreEvidenceCounts` are about any draft and any
  finite evidence. The product of a noisy-or is shown to be independent of the
  order of the fold, to shrink with every weight that grows, and to lose at least
  nine tenths by one strong signal. Hence `ScoreBand`: the scores that a decisive
  tier allows, caps and boosts included, are at least 0.9 in tier 1, between 0.45
  and 0.795 in tier 2 and at most 0.45 in tier 3. The bands do not overlap, so new
  evidence lowers no score when it changes the decisive tier, and within a tier
  the score is monotonic. The caps are used at their exact values.

  `ConfidencesAreEarned` has the types and `ConfidenceIsEarned` as one inductive
  invariant: where the session does not flush, the stored value is the noisy-or
  of fewer or lighter links than the identity has, because links of a living
  identity are only added or raised.
- `PlatformProofs`: the remaining components, and all of them side by side.
  - `DiffTypes`, `AlarmsAreEarned` and `ChangesToldAlways`, action properties of
    any set of items and any scope, proved from the types: the first goes through
    the field an alert is about, the second shows that a fingerprint moves with
    every change the diff would tell, although it reads an outage as an empty
    finding: of a plugin that worked in both checks it reads what was found.
  - `QuarantinesAreEarned`, for any threshold and window. `HealthInvariant` says
    that the times the tracker remembers are a suffix of all failures and that
    what it dropped was too old when it was dropped; the clock only goes on, so
    the dropped ones can never again share a window with a new failure.
  - `WindowsAreKept`, for any keys, limits and window, with the same argument in
    `RateInvariant`; that requests which share a window are fewer than the
    limit follows from any two of them that are `Limit[k]` places apart being a
    window apart.
  - `LoopsAreReported`, for any map of redirects and any number of hops.
    `RedirectInvariant` says that a walk has followed the path of redirects from
    its first URL, that the URLs it has visited are that path so far, without
    repetition, and that the guard has accepted each. So a path that returns to
    itself within the hops is seen at the first return.
  - `OutagesAreReported`, for every registered plugin. `PluginInvariant` says
    that what is left of a run nobody has answered still attends: it needs data,
    or has a stage ahead that is not passed unless somebody answers, and no stage
    ends it with a success.
  - `PlatformTypes` joins the invariants of all components: a step of the
    platform is one step of each component or leaves it alone.

What stays with TLC: liveness (`TasksEnd`, `DueMonitorsAreChecked`), which rests
on fairness and is out of the prover's reach, and the statements that runs show
to be false. Every other property of a passing run is a theorem. `EmailSecurity`
has no property that holds and would say anything: its run is a finding.

## 5. Findings

Each is a run that TLC ends with a counterexample to a statement of the
repository; `PROJECT.json` quotes the statement and names the lines.
`production_promotion`, `split_reverses` and `review_race_resolved` are
disagreements of code with its documentation or tests; `replay_exact`,
`partial_results`, `bulk_targets`, `custody` and `email_security` are faults of
the code. In `partial_results`, a comment says evidence is persisted as it
completes, "so partial results survive crash" (`runner.py:365`); it is flushed,
the one commit comes at the end of the run (`runner.py:477`), and a crash or an
exception in between loses all of it. In `email_security`, each check assigns
`score` without declaring it nonlocal; Python takes it for an unbound local, so a
deduction raises. Within a check's `try` the exception is recorded as a failed
lookup, outside it the whole run ends: a domain without a DKIM selector, an MX
record or a TXT record at either name gets no report. Every report that is made,
one that lists a blacklist entry included, carries 100 points and the grade A.

Smaller disagreements met while modelling; the models follow the code:

- Identities: `replay.py:4` says that a replay restores the exact state. A
  disputed identity comes back without its dispute where its promotion was
  logged, or is logged later: as confirmed. Confidence is recomputed only when an
  identity is resolved, merged into or split: sources observed later leave it
  below a threshold it would pass, and which investigation a merge or a split
  names decides which sources count.
- Correlation and rules: `no_overlap` never fires where the global identity has
  neither entities nor relationships, against its docstring. A watchlist checker
  that raises proposes nothing, and a merge may then win although watchlist hits
  "never auto-merge". The rule sees only matched entities whose type has a
  signal.
- Adapters: `ConnectionResetError` and its like count as structural, going by the
  exact class name, and a `ClientResponseError` with status 404 as transient.
  Nothing skips a quarantined plugin.
- Ingestion: "re-ingesting the same (execution_id, plugin_id) is a no-op"
  (`ingestion.py:15`), and a row of `raw_evidence` is one execution's
  (`models.py:209`). Two overlapping calls of one execution both find nothing,
  both commit, and the execution has two rows; no constraint forbids it. The
  validator accepts entity types in any case and ingestion stores
  them as they are; a relationship of an entity with itself is looked for among
  raw values, before normalisation. The upsert's docstring speaks of `INSERT ON
  CONFLICT`; the code selects, then inserts.
- Entity service: `get_or_create_identity` ignores its `investigation_id`,
  although cross-investigation merges are said to be refused;
  `merge_identities` takes tombstones as source and target. Only tests call it.
- Plugins: a redirect loop that only the last of `max_hops` requests closes is
  reported as none. `email_disposable` takes any DNS exception for "no MX".
  `email_patterns` is registered for e-mail addresses and `nostr` for usernames,
  and each refuses every one. The template `full` lists 13 of the domain's 38
  plugins. `supports` is used by nobody.
- Monitors: a failed plugin's row is read as an empty finding. So an outage makes
  the diff report vulnerabilities as resolved or subdomains as removed, and an
  outage in place of an empty finding is not noticed; a change of address during
  an outage is never told.
- Rate limiter: windows are kept per process, and a restart empties them.
- A crash leaves an investigation `running` for ever: nothing looks for it.

## 6. Not modelled

- `provenance.py` and the finders of the services only read: what they return
  follows from the store `Ingestion` keeps.
- The normalizer, the validator and the schemas work on characters and refuse a
  result before any state is read.
- Target templates and the registration of plugins by target type are tables;
  the runner takes what they yield as the constant `PluginsOf`.
- Authentication, CRUD routes, search, graph, audit, RSS, metrics and the
  WebSocket endpoints keep no state between requests beyond single statements.
- Exports format stored rows; the intelligence helpers score, build prompts and
  map tables; notifiers, bots and the UI are clients of a network.
- Within modelled components: observations and `source_count` of ingestion, the
  adapters' copying of fields and the compliance kit, the text of summaries and
  alerts, `change_count`, the parsing of a plugin's answers.
- An investigation left `running` by a crash or an exception stays so: there is
  no recovery code to model.

## 7. Plan

1. `MergeTransactions`: approvals of different items on PostgreSQL, the reads
   and writes of `merge_identities` as separate steps.
2. A refinement that puts `InvestigationRunner` in place of the arbitrary
   outcome of a check in `MonitorScheduler`.
3. The AI cache, and the delete route of investigations under a running task.
4. Abstract specifications still to be stated and refined: the decision engine
   as a set of merges in force, and the rate limiter as a set of admissions.
