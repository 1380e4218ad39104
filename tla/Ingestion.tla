----------------------------- MODULE Ingestion -----------------------------
(***************************************************************************)
(* Canonical ingestion: src/argus/canonical/ingestion.py.  A call of       *)
(* ingest turns one plugin result into raw evidence and into the derived   *)
(* store of entities, links and relationships, in its caller's             *)
(* transaction.                                                            *)
(*                                                                         *)
(* Calls run concurrently.  A query sees what is committed and what its    *)
(* own session has flushed; the session does not flush before a query      *)
(* (autoflush is off).  What a call writes is kept with the call until it  *)
(* commits; a uniqueness constraint it breaks refuses it then, which       *)
(* nobody can tell from a refusal at the INSERT.  Row locks only delay a   *)
(* call or, in a deadlock, abort it.                                       *)
(*                                                                         *)
(* The observations of a result and their links are left out: they belong  *)
(* to one evidence and nothing here reads them.                            *)
(***************************************************************************)
EXTENDS Naturals, Sequences, FiniteSets

CONSTANTS
  Entity,         \* canonical entities, by (type, normalized_value)
  Relationship,   \* edges, by source, target and type
  Ends,           \* relationship -> its source and target entity
  Execution,      \* (execution_id, plugin_id) of plugin results
  Investigation,  \* ids of investigations
  Call,           \* calls of ingest; a call's id is that of its evidence too
  Result          \* call -> the validated plugin result it is given

ASSUME ResultAssumption ==
  /\ IsFiniteSet(Investigation)
  /\ Ends \in [Relationship -> SUBSET Entity]
  /\ Result \in [Call -> [execution     : Execution,
                          investigation : Investigation,
                          entities      : Seq(Entity),
                          relationships : Seq(Relationship)]]

VARIABLES
  database,    \* which database the deployment has
  evidence,    \* raw_evidence
  known,       \* canonical_entities
  links,       \* entity_investigation_links
  count,       \* canonical_entities.investigation_count
  rows,        \* relationships: an edge's rows, by the calls that wrote them
  support,     \* relationship_provenance: an edge's evidence
  session      \* where a call is, and what it has not committed

store == <<evidence, known, links, count, rows, support>>
vars == <<database, store, session>>

Phase == {"new", "checked", "upserting", "linking", "relating",
          "done", "refused", "aborted"}

Session == [phase     : Phase,
            next      : Nat,                \* the element to process next
            created   : SUBSET Entity,      \* entities inserted
            linked    : SUBSET Entity,      \* links inserted
            unflushed : SUBSET Entity,      \* links not flushed yet
            base      : [Entity -> Nat],    \* the counts it loaded
            related   : SUBSET Relationship,  \* relationships inserted
            supported : SUBSET Relationship,  \* provenance inserted
            unbacked  : SUBSET Relationship]  \* provenance not flushed yet

NewSession == [phase |-> "new", next |-> 1, created |-> {}, linked |-> {},
               unflushed |-> {}, base |-> [e \in Entity |-> 0],
               related |-> {}, supported |-> {}, unbacked |-> {}]

IngestTypeOK ==
  /\ database \in {"sqlite", "postgresql"}
  /\ evidence \in SUBSET Call
  /\ known \in SUBSET Entity
  /\ links \in [Entity -> SUBSET Investigation]
  /\ count \in [Entity -> Nat]
  /\ rows \in [Relationship -> SUBSET Call]
  /\ support \in [Relationship -> SUBSET Call]
  /\ session \in [Call -> Session]

Init ==
  /\ database \in {"sqlite", "postgresql"}
  /\ evidence = {}
  /\ known = {}
  /\ links = [e \in Entity |-> {}]
  /\ count = [e \in Entity |-> 0]
  /\ rows = [g \in Relationship |-> {}]
  /\ support = [g \in Relationship |-> {}]
  /\ session = [c \in Call |-> NewSession]

-----------------------------------------------------------------------------
(* Helpers.  A definition with the parameters of the next one and no       *)
(* comment of its own is a faulty variant of it, used to test that the     *)
(* properties below can fail.                                              *)

InvestigationOf(c) == Result[c].investigation

EntitiesOf(c) == {Result[c].entities[k] : k \in DOMAIN Result[c].entities}

RelationshipsOf(c) ==
  {Result[c].relationships[k] : k \in DOMAIN Result[c].relationships}

EndsOf(R) == UNION {Ends[g] : g \in R}

Writing(c) == session[c].phase \in {"upserting", "linking", "relating"}

Goto(c, phase) == session' = [session EXCEPT ![c] = [@ EXCEPT !.phase = phase]]

\* Flushing sends what the session has pending.
Flushed(s) == [s EXCEPT !.unflushed = {}, !.unbacked = {}]

\* The first INSERT of a transaction takes SQLite's write lock.
MayWrite(c) ==
  database = "sqlite" => \A d \in Call : d # c => ~Writing(d)

-----------------------------------------------------------------------------
\* _find_existing_evidence: evidence of the same execution is returned as it
\* is.  On SQLite too this query runs before the transaction has its lock.
CheckExisting(c) ==
  /\ session[c].phase = "new"
  /\ Goto(c, IF \E d \in evidence : Result[d].execution = Result[c].execution
             THEN "done" ELSE "checked")
  /\ UNCHANGED <<database, store>>

EvidenceCommittedFirst(c) ==
  /\ session[c].phase = "checked"
  /\ MayWrite(c)
  /\ Goto(c, "upserting")
  /\ evidence' = evidence \union {c}
  /\ UNCHANGED <<database, known, links, count, rows, support>>
\* _record_evidence, with the observations that follow.
RecordEvidence(c) ==
  /\ session[c].phase = "checked"
  /\ MayWrite(c)
  /\ Goto(c, "upserting")
  /\ UNCHANGED <<database, store>>

\* _upsert_canonical_entity: an entity that is not found is inserted and
\* flushed, one that is found is loaded unless the session has it already.
Upserted(s, e) ==
  IF e \notin known \union s.created
  THEN [Flushed(s) EXCEPT !.created = @ \union {e},
                          !.base = [@ EXCEPT ![e] = 0]]
  ELSE IF e \in s.linked THEN s
  ELSE [s EXCEPT !.base = [@ EXCEPT ![e] = count[e]]]

UpsertEntity(c) ==
  /\ session[c].phase = "upserting"
  /\ session[c].next \in DOMAIN Result[c].entities
  /\ session' = [session EXCEPT ![c] =
       [Upserted(@, Result[c].entities[@.next]) EXCEPT !.phase = "linking"]]
  /\ UNCHANGED <<database, store>>

LinkSeenAnywhere(c, e) == links[e] # {}
LinkSeenFlushed(c, e) == e \in session[c].linked \ session[c].unflushed
\* The entity's link is in the database or flushed by this session.
LinkSeen(c, e) ==
  \/ InvestigationOf(c) \in links[e]
  \/ e \in session[c].linked \ session[c].unflushed

Passed(s) == [s EXCEPT !.phase = "upserting", !.next = @ + 1]

Linked(s, e) == [Passed(s) EXCEPT !.linked = @ \union {e},
                                  !.unflushed = @ \union {e}]

\* _link_entity_to_investigation.  A link that is pending is added again: the
\* flush that follows sooner or later breaks the primary key.
LinkEntity(c) ==
  LET e == Result[c].entities[session[c].next]
  IN /\ session[c].phase = "linking"
     /\ session[c].next \in DOMAIN Result[c].entities
     /\ session' = [session EXCEPT ![c] =
          IF LinkSeen(c, e) THEN Passed(@)
          ELSE IF e \in @.linked THEN [@ EXCEPT !.phase = "refused"]
          ELSE Linked(@, e)]
     /\ UNCHANGED <<database, store>>

EndEntities(c) ==
  /\ session[c].phase = "upserting"
  /\ session[c].next \notin DOMAIN Result[c].entities
  /\ session' = [session EXCEPT ![c] = [@ EXCEPT !.phase = "relating",
                                                 !.next = 1]]
  /\ UNCHANGED <<database, store>>

\* The ends of g that a relationship brings in: they get no link.
NewEnds(s, g) == Ends[g] \ (known \union s.created)

\* _upsert_relationship, for a relationship with no row yet.
Inserted(s, g) ==
  [Flushed(s) EXCEPT !.created = @ \union NewEnds(s, g),
                     !.related = @ \union {g}]

\* _link_provenance to the call's own evidence.
Supported(s, g) ==
  [s EXCEPT !.next = @ + 1,
            !.supported = @ \union {g},
            !.unbacked = @ \union {g}]

\* The rows the query for an edge finds; two of them are an exception.
RowsSeenOwn(c, g) == IF g \in session[c].related THEN {c} ELSE {}
RowsSeen(c, g) == rows[g] \union (IF g \in session[c].related THEN {c} ELSE {})

Relate(c) ==
  LET s == session[c]
      g == Result[c].relationships[s.next]
  IN /\ s.phase = "relating"
     /\ s.next \in DOMAIN Result[c].relationships
     /\ \/ /\ RowsSeen(c, g) = {}
           /\ session' = [session EXCEPT ![c] = Supported(Inserted(s, g), g)]
        \/ /\ Cardinality(RowsSeen(c, g)) = 1
           /\ g \notin s.supported
           /\ session' = [session EXCEPT ![c] = Supported(s, g)]
        \/ /\ Cardinality(RowsSeen(c, g)) = 1
           /\ g \in s.supported \ s.unbacked
           /\ session' = [session EXCEPT ![c] = [s EXCEPT !.next = @ + 1]]
        \/ /\ \/ Cardinality(RowsSeen(c, g)) > 1
              \/ g \in s.unbacked
           /\ Goto(c, "refused")
     /\ UNCHANGED <<database, store>>

\* uq_canonical_type_norm or the primary key of the links is broken.
Conflicts(c) ==
  \/ session[c].created \intersect known # {}
  \/ \E e \in session[c].linked : InvestigationOf(c) \in links[e]

Ready(c) ==
  /\ session[c].phase = "relating"
  /\ session[c].next \notin DOMAIN Result[c].relationships

CountOfMentions(c) ==
  [e \in Entity |-> IF e \in EntitiesOf(c) THEN count[e] + 1 ELSE count[e]]
CountOfLinked(c) == [e \in session[c].linked |-> session[c].base[e] + 1]
\* The counts are written as the values the session holds.
CountAfter(c) ==
  [e \in Entity |-> IF e \in session[c].linked THEN session[c].base[e] + 1
                                               ELSE count[e]]

\* The last flush and the caller's commit.
Commit(c) ==
  /\ Ready(c)
  /\ ~Conflicts(c)
  /\ evidence' = evidence \union {c}
  /\ known' = known \union session[c].created
  /\ links' = [e \in Entity |->
                 IF e \in session[c].linked
                 THEN links[e] \union {InvestigationOf(c)} ELSE links[e]]
  /\ count' = CountAfter(c)
  /\ rows' = [g \in Relationship |->
                IF g \in session[c].related THEN rows[g] \union {c} ELSE rows[g]]
  /\ support' = [g \in Relationship |->
                   IF g \in session[c].supported
                   THEN support[g] \union {c} ELSE support[g]]
  /\ Goto(c, "done")
  /\ UNCHANGED database

Refuse(c) ==
  /\ Ready(c)
  /\ Conflicts(c)
  /\ Goto(c, "refused")
  /\ UNCHANGED <<database, store>>

\* The process dies, the connection breaks, a lock is waited for too long, or
\* the database picks this call as the victim of a deadlock.
Abort(c) ==
  /\ session[c].phase = "checked" \/ Writing(c)
  /\ Goto(c, "aborted")
  /\ UNCHANGED <<database, store>>

-----------------------------------------------------------------------------
Ingest(c) ==
  \/ CheckExisting(c)
  \/ RecordEvidence(c)
  \/ UpsertEntity(c)
  \/ LinkEntity(c)
  \/ EndEntities(c)
  \/ Relate(c)
  \/ Commit(c)
  \/ Refuse(c)
  \/ Abort(c)

Next == \E c \in Call : Ingest(c)

Spec == Init /\ [][Next]_vars

-----------------------------------------------------------------------------
(* Properties                                                              *)

\* "Single transaction boundary. Either everything commits or nothing does."
\* and "every observation and every relationship in the canonical store must
\* trace back to a piece of raw evidence" (provenance.py): however calls
\* overlap, repeat and fail, what is derived is what the evidence says.
StoreIsItsEvidence ==
  /\ known = (UNION {EntitiesOf(c) : c \in evidence})
              \union EndsOf(UNION {RelationshipsOf(c) : c \in evidence})
  /\ \A e \in Entity :
       links[e] = {InvestigationOf(c) : c \in {d \in evidence : e \in EntitiesOf(d)}}
  /\ \A g \in Relationship :
       /\ support[g] = {c \in evidence : g \in RelationshipsOf(c)}
       /\ rows[g] \subseteq support[g]
       /\ rows[g] = {} => support[g] = {}

\* "bump investigation_count on first link" (ingestion.py): the count is that
\* of the links where writers take turns.  Elsewhere an update can be lost
\* between the read of a count and its commit, but a count is never too high,
\* and never zero where there is a link.
CountsMatchLinks ==
  \A e \in Entity :
    /\ count[e] <= Cardinality(links[e])
    /\ count[e] = 0 => links[e] = {}
    /\ database = "sqlite" => count[e] = Cardinality(links[e])

\* No constraint says that an edge has one row, and the query for it raises
\* once there are two: it is the lock taken before the query that keeps every
\* later result with the edge acceptable.
OneRowPerRelationship ==
  database = "sqlite" =>
    \A g \in Relationship : \A c, d \in rows[g] : c = d

\* The same, step by step: a call takes effect at one instant, as the abstract
\* specification of the store says, however long it reads and holds back
\* what it writes (ingestion.py:14-17).  A retry that overlaps the first call
\* of its execution takes effect too.
Store == INSTANCE CanonicalStore WITH
           Mentions <- [c \in Call |-> EntitiesOf(c)],
           Edges    <- [c \in Call |-> RelationshipsOf(c)],
           Target   <- [c \in Call |-> InvestigationOf(c)]

IngestionIsAtomic == Store!Spec

NoRepeats(s) == \A j, k \in DOMAIN s : s[j] = s[k] => j = k

\* Where writers take turns a constraint refuses a call only for an entity or
\* relationship that its own result repeats.
RefusedOnlyForRepeats ==
  database = "sqlite" =>
    \A c \in Call :
      session[c].phase = "refused" =>
        ~NoRepeats(Result[c].entities) \/ ~NoRepeats(Result[c].relationships)
=============================================================================
