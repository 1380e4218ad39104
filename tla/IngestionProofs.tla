--------------------------- MODULE IngestionProofs ---------------------------
(***************************************************************************)
(* Proofs about Ingestion.  StoreIsItsEvidence and CountsMatchLinks speak  *)
(* of committed rows; Follows says what a call that is writing has read    *)
(* and holds back, so that its commit keeps them.                          *)
(***************************************************************************)
EXTENDS Ingestion, FiniteSetTheorems, TLAPS

-----------------------------------------------------------------------------
(* Types.                                                                  *)

LEMMA ResultTypes ==
  ASSUME NEW c \in Call
  PROVE  /\ Result[c].investigation \in Investigation
         /\ Result[c].entities \in Seq(Entity)
         /\ Result[c].relationships \in Seq(Relationship)
         /\ InvestigationOf(c) \in Investigation
  BY ResultAssumption DEF InvestigationOf

LEMMA NewSessionType == NewSession \in Session
  BY DEF NewSession, Session, Phase

LEMMA IngestTypesInit == Init => IngestTypeOK
  BY NewSessionType DEF Init, IngestTypeOK

(* What the steps of a call do to its session s.                           *)

LEMMA PhaseFields ==
  ASSUME NEW s \in Session, NEW p \in Phase
  PROVE  LET t == [s EXCEPT !.phase = p]
         IN /\ t \in Session
            /\ t.phase = p /\ t.next = s.next
            /\ t.created = s.created /\ t.linked = s.linked
            /\ t.base = s.base /\ t.related = s.related
            /\ t.supported = s.supported /\ t.unbacked = s.unbacked
  BY DEF Session

LEMMA MovedFields ==
  ASSUME NEW s \in Session, NEW p \in Phase, NEW n \in Nat
  PROVE  LET t == [s EXCEPT !.phase = p, !.next = n]
         IN /\ t \in Session
            /\ t.phase = p /\ t.next = n
            /\ t.created = s.created /\ t.linked = s.linked
            /\ t.base = s.base /\ t.related = s.related
            /\ t.supported = s.supported /\ t.unbacked = s.unbacked
  BY DEF Session

LEMMA FlushedFields ==
  ASSUME NEW s \in Session
  PROVE  LET t == Flushed(s)
         IN /\ t \in Session
            /\ t.phase = s.phase /\ t.next = s.next
            /\ t.created = s.created /\ t.linked = s.linked
            /\ t.base = s.base /\ t.related = s.related
            /\ t.supported = s.supported /\ t.unbacked = {}
  BY DEF Session, Flushed

LEMMA PassedFields ==
  ASSUME NEW s \in Session
  PROVE  LET t == Passed(s)
         IN /\ t \in Session
            /\ t.phase = "upserting" /\ t.next = s.next + 1
            /\ t.created = s.created /\ t.linked = s.linked
            /\ t.base = s.base /\ t.related = s.related
            /\ t.supported = s.supported /\ t.unbacked = s.unbacked
            /\ t.unflushed = s.unflushed
  <1> DEFINE n == s.next + 1
  <1>1. n \in Nat
    BY DEF Session
  <1>2. Passed(s) = [s EXCEPT !.phase = "upserting", !.next = n]
    BY DEF Passed
  <1> HIDE DEF n
  <1>3. LET t == [s EXCEPT !.phase = "upserting", !.next = n]
        IN /\ t \in Session
           /\ t.phase = "upserting" /\ t.next = n
           /\ t.created = s.created /\ t.linked = s.linked
           /\ t.base = s.base /\ t.related = s.related
           /\ t.supported = s.supported /\ t.unbacked = s.unbacked
           /\ t.unflushed = s.unflushed
    BY <1>1 DEF Session, Phase
  <1>4. QED
    BY <1>2, <1>3 DEF n

LEMMA LinkedFields ==
  ASSUME NEW s \in Session, NEW e \in Entity
  PROVE  LET t == Linked(s, e)
         IN /\ t \in Session
            /\ t.phase = "upserting" /\ t.next = s.next + 1
            /\ t.created = s.created /\ t.linked = s.linked \union {e}
            /\ t.base = s.base /\ t.related = s.related
            /\ t.supported = s.supported /\ t.unbacked = s.unbacked
  <1> DEFINE v == s.linked \union {e}
             w == s.unflushed \union {e}
             p == Passed(s)
  <1>1. v \in SUBSET Entity /\ w \in SUBSET Entity /\ s.next + 1 \in Nat
    BY DEF Session
  <1>2. /\ p \in Session
        /\ p.phase = "upserting" /\ p.next = s.next + 1
        /\ p.created = s.created /\ p.linked = s.linked
        /\ p.unflushed = s.unflushed
        /\ p.base = s.base /\ p.related = s.related
        /\ p.supported = s.supported /\ p.unbacked = s.unbacked
    BY PassedFields
  <1>3. Linked(s, e) = [p EXCEPT !.linked = v, !.unflushed = w]
    BY <1>2 DEF Linked
  <1> HIDE DEF v, w, p
  <1>4. LET t == [p EXCEPT !.linked = v, !.unflushed = w]
        IN /\ t \in Session
           /\ t.phase = p.phase /\ t.next = p.next
           /\ t.created = p.created /\ t.linked = v
           /\ t.base = p.base /\ t.related = p.related
           /\ t.supported = p.supported /\ t.unbacked = p.unbacked
    BY <1>1, <1>2 DEF Session
  <1>5. QED
    BY <1>2, <1>3, <1>4 DEF v

LEMMA UpsertedFields ==
  ASSUME IngestTypeOK, NEW s \in Session, NEW e \in Entity
  PROVE  LET t == [Upserted(s, e) EXCEPT !.phase = "linking"]
         IN /\ t \in Session
            /\ t.phase = "linking" /\ t.next = s.next
            /\ t.linked = s.linked /\ t.related = s.related
            /\ t.supported = s.supported /\ t.unbacked \subseteq s.unbacked
            /\ \/ t.created = s.created /\ e \in known \union s.created
               \/ t.created = s.created \union {e} /\ e \notin known
            /\ \A x \in Entity : x # e => t.base[x] = s.base[x]
            /\ \/ e \notin known /\ t.base[e] = 0
               \/ e \in s.linked /\ t.base[e] = s.base[e]
               \/ t.base[e] = count[e]
  <1> DEFINE u == Upserted(s, e)
  <1>1. s.base \in [Entity -> Nat] /\ s.created \in SUBSET Entity
    BY DEF Session
  <1>2. CASE e \notin known \union s.created
    <2> DEFINE f == Flushed(s)
               v == s.created \union {e}
               b == [s.base EXCEPT ![e] = 0]
               t == [u EXCEPT !.phase = "linking"]
    <2>1. /\ f \in Session
          /\ f.next = s.next /\ f.linked = s.linked /\ f.related = s.related
          /\ f.supported = s.supported /\ f.unbacked = {}
          /\ f.created = s.created /\ f.base = s.base
      BY FlushedFields
    <2>2. u = [f EXCEPT !.created = v, !.base = b]
      BY <1>2, <2>1 DEF Upserted
    <2>3. v \in SUBSET Entity /\ b \in [Entity -> Nat] /\ b[e] = 0
          /\ \A x \in Entity : x # e => b[x] = s.base[x]
      BY <1>1
    <2> HIDE DEF u, f, v, b
    <2>4. /\ t \in Session
          /\ t.phase = "linking" /\ t.next = f.next
          /\ t.linked = f.linked /\ t.related = f.related
          /\ t.supported = f.supported /\ t.unbacked = f.unbacked
          /\ t.created = v /\ t.base = b
      BY <2>1, <2>2, <2>3 DEF Session, Phase
    <2> HIDE DEF t
    <2>5. QED
      BY <1>2, <2>1, <2>3, <2>4 DEF t, u, v
  <1>3. CASE e \in known \union s.created /\ e \in s.linked
    <2>1. u = s
      BY <1>3 DEF Upserted
    <2> DEFINE t == [s EXCEPT !.phase = "linking"]
    <2>2. /\ t \in Session
          /\ t.phase = "linking" /\ t.next = s.next
          /\ t.created = s.created /\ t.linked = s.linked
          /\ t.base = s.base /\ t.related = s.related
          /\ t.supported = s.supported /\ t.unbacked = s.unbacked
      BY PhaseFields DEF Phase
    <2> HIDE DEF u, t
    <2>3. QED
      BY <1>3, <2>1, <2>2 DEF t, u
  <1>4. CASE e \in known \union s.created /\ e \notin s.linked
    <2> DEFINE b == [s.base EXCEPT ![e] = count[e]]
               t == [u EXCEPT !.phase = "linking"]
    <2>1. u = [s EXCEPT !.base = b]
      BY <1>4 DEF Upserted
    <2>2. b \in [Entity -> Nat] /\ b[e] = count[e]
          /\ \A x \in Entity : x # e => b[x] = s.base[x]
      BY <1>1 DEF IngestTypeOK
    <2> HIDE DEF u, b
    <2>3. /\ t \in Session
          /\ t.phase = "linking" /\ t.next = s.next
          /\ t.linked = s.linked /\ t.related = s.related
          /\ t.supported = s.supported /\ t.unbacked = s.unbacked
          /\ t.created = s.created /\ t.base = b
      BY <2>1, <2>2 DEF Session, Phase
    <2> HIDE DEF t
    <2>4. QED
      BY <1>4, <2>2, <2>3 DEF t, u
  <1>5. QED
    BY <1>2, <1>3, <1>4

LEMMA SupportedFields ==
  ASSUME NEW s \in Session, NEW g \in Relationship
  PROVE  LET t == Supported(s, g)
         IN /\ t \in Session
            /\ t.phase = s.phase /\ t.next = s.next + 1
            /\ t.created = s.created /\ t.linked = s.linked
            /\ t.base = s.base /\ t.related = s.related
            /\ t.supported = s.supported \union {g}
            /\ t.unbacked = s.unbacked \union {g}
  <1> DEFINE v == s.supported \union {g}
             w == s.unbacked \union {g}
             n == s.next + 1
  <1>1. v \in SUBSET Relationship /\ w \in SUBSET Relationship /\ n \in Nat
    BY DEF Session
  <1>2. Supported(s, g) = [s EXCEPT !.next = n, !.supported = v, !.unbacked = w]
    BY DEF Supported
  <1> HIDE DEF v, w, n
  <1>3. LET t == [s EXCEPT !.next = n, !.supported = v, !.unbacked = w]
        IN /\ t \in Session
           /\ t.phase = s.phase /\ t.next = n
           /\ t.created = s.created /\ t.linked = s.linked
           /\ t.base = s.base /\ t.related = s.related
           /\ t.supported = v /\ t.unbacked = w
    BY <1>1 DEF Session
  <1>4. QED
    BY <1>2, <1>3 DEF v, w, n

LEMMA RelatedFields ==
  ASSUME IngestTypeOK, NEW s \in Session, NEW g \in Relationship
  PROVE  LET t == Supported(Inserted(s, g), g)
         IN /\ t \in Session
            /\ t.phase = s.phase /\ t.next = s.next + 1
            /\ t.created = s.created \union NewEnds(s, g)
            /\ t.linked = s.linked
            /\ t.base = s.base /\ t.related = s.related \union {g}
            /\ t.supported = s.supported \union {g} /\ t.unbacked = {g}
  <1> DEFINE v == s.created \union NewEnds(s, g)
             r == s.related \union {g}
  <1>1. v \in SUBSET Entity /\ r \in SUBSET Relationship
    BY ResultAssumption DEF NewEnds, Session
  <1> DEFINE f == Flushed(s)
             i == Inserted(s, g)
  <1>2. /\ f \in Session
        /\ f.phase = s.phase /\ f.next = s.next /\ f.linked = s.linked
        /\ f.base = s.base /\ f.created = s.created /\ f.related = s.related
        /\ f.supported = s.supported /\ f.unbacked = {}
    BY FlushedFields
  <1>3. i = [f EXCEPT !.created = v, !.related = r]
    BY <1>2 DEF Inserted
  <1> HIDE DEF v, r, f, i
  <1>4. /\ i \in Session
        /\ i.phase = f.phase /\ i.next = f.next
        /\ i.created = v /\ i.linked = f.linked
        /\ i.base = f.base /\ i.related = r
        /\ i.supported = f.supported /\ i.unbacked = f.unbacked
    BY <1>1, <1>2, <1>3 DEF Session
  <1>5. Supported(i, g).unbacked = {g}
    BY <1>2, <1>4, SupportedFields
  <1>6. QED
    BY <1>2, <1>4, <1>5, SupportedFields DEF v, r, i

-----------------------------------------------------------------------------
(* Each step of a call, told by what becomes of its session.               *)

LEMMA SessionUpdate ==
  ASSUME session \in [Call -> Session], NEW c \in Call, NEW t \in Session,
         session' = [session EXCEPT ![c] = t]
  PROVE  /\ session' \in [Call -> Session]
         /\ session'[c] = t
         /\ \A d \in Call : d # c => session'[d] = session[d]
  OBVIOUS

LEMMA GotoStep ==
  ASSUME session \in [Call -> Session], NEW c \in Call, NEW p \in Phase,
         Goto(c, p)
  PROVE  LET t == [session[c] EXCEPT !.phase = p]
         IN t \in Session /\ session' = [session EXCEPT ![c] = t]
  BY PhaseFields DEF Goto

LEMMA SessionStep ==
  ASSUME IngestTypeOK, NEW c \in Call, Ingest(c)
  PROVE  \E t \in Session : session' = [session EXCEPT ![c] = t]
  <1> DEFINE s == session[c]
             e == Result[c].entities[s.next]
             g == Result[c].relationships[s.next]
  <1>0. s \in Session /\ s.next \in Nat /\ session \in [Call -> Session]
    BY DEF Session, IngestTypeOK
  <1>a. ASSUME NEW p \in Phase, Goto(c, p)
        PROVE  \E t \in Session : session' = [session EXCEPT ![c] = t]
    BY <1>0, <1>a, GotoStep
  <1>1. CASE CheckExisting(c)
    BY <1>1, <1>a DEF CheckExisting, Phase
  <1>2. CASE RecordEvidence(c)
    BY <1>2, <1>a DEF RecordEvidence, Phase
  <1>3. CASE UpsertEntity(c)
    <2>1. e \in Entity
      BY <1>0, <1>3, ResultTypes DEF UpsertEntity
    <2>2. [Upserted(s, e) EXCEPT !.phase = "linking"] \in Session
      BY <2>1, <1>0, UpsertedFields
    <2>3. QED
      BY <1>3, <2>2 DEF UpsertEntity
  <1>4. CASE LinkEntity(c)
    <2>1. e \in Entity
      BY <1>0, <1>4, ResultTypes DEF LinkEntity
    <2>2. Linked(s, e) \in Session
      BY <2>1, <1>0, LinkedFields
    <2>3. Passed(s) \in Session
      BY <1>0, PassedFields
    <2>4. [s EXCEPT !.phase = "refused"] \in Session
      BY <1>0, PhaseFields DEF Phase
    <2>5. QED
      BY <1>4, <2>2, <2>3, <2>4 DEF LinkEntity
  <1>5. CASE EndEntities(c)
    <2>1. [s EXCEPT !.phase = "relating", !.next = 1] \in Session
      BY <1>0, MovedFields DEF Phase
    <2>2. QED
      BY <1>5, <2>1 DEF EndEntities
  <1>6. CASE Relate(c)
    <2>1. g \in Relationship
      BY <1>0, <1>6, ResultTypes DEF Relate
    <2>2. Supported(s, g) \in Session
      BY <1>0, <2>1, SupportedFields
    <2>3. Supported(Inserted(s, g), g) \in Session
      BY <1>0, <2>1, RelatedFields
    <2>4. [s EXCEPT !.next = s.next + 1] \in Session
      BY <1>0 DEF Session
    <2>6. CASE Goto(c, "refused")
      BY <1>a, <2>6 DEF Phase
    <2>7. CASE ~Goto(c, "refused")
      <3> HIDE DEF s, g
      <3>1. \/ session' = [session EXCEPT ![c] = Supported(Inserted(s, g), g)]
            \/ session' = [session EXCEPT ![c] = Supported(s, g)]
            \/ session' = [session EXCEPT ![c] = [s EXCEPT !.next = @ + 1]]
        BY <1>6, <2>7 DEF Relate, s, g
      <3>2. CASE session' = [session EXCEPT ![c] = [s EXCEPT !.next = @ + 1]]
        BY <2>4, <3>2
      <3>3. QED
        BY <2>2, <2>3, <3>1, <3>2
    <2>8. QED
      BY <2>6, <2>7
  <1>7. CASE Commit(c)
    BY <1>7, <1>a DEF Commit, Phase
  <1>8. CASE Refuse(c)
    BY <1>8, <1>a DEF Refuse, Phase
  <1>9. CASE Abort(c)
    BY <1>9, <1>a DEF Abort, Phase
  <1>10. QED
    BY <1>1, <1>2, <1>3, <1>4, <1>5, <1>6, <1>7, <1>8, <1>9 DEF Ingest

LEMMA StoreStep ==
  ASSUME NEW c \in Call, Ingest(c), ~Commit(c)
  PROVE  UNCHANGED <<database, store>>
  BY DEF Ingest, CheckExisting, RecordEvidence, UpsertEntity, LinkEntity,
         EndEntities, Relate, Refuse, Abort

LEMMA IngestTypeStep == IngestTypeOK /\ [Next]_vars => IngestTypeOK'
  <1> SUFFICES ASSUME IngestTypeOK, [Next]_vars PROVE IngestTypeOK'
    OBVIOUS
  <1>1. CASE UNCHANGED vars
    BY <1>1 DEF vars, store, IngestTypeOK
  <1>2. ASSUME NEW c \in Call, Ingest(c)
        PROVE  IngestTypeOK'
    <2>1. session' \in [Call -> Session]
      BY <1>2, SessionStep, SessionUpdate DEF IngestTypeOK
    <2>2. CASE ~Commit(c)
      BY <1>2, <2>1, <2>2, StoreStep DEF store, IngestTypeOK
    <2>3. CASE Commit(c)
      <3> DEFINE s == session[c]
      <3>1. s \in Session
        BY DEF IngestTypeOK
      <3>2. s.base \in [Entity -> Nat] /\ s.created \in SUBSET Entity
        BY <3>1 DEF Session
      <3>3. count' \in [Entity -> Nat]
        BY <2>3, <3>2 DEF Commit, CountAfter, IngestTypeOK
      <3>4. links' \in [Entity -> SUBSET Investigation]
        BY <2>3, ResultTypes DEF Commit, IngestTypeOK
      <3>5. known' \in SUBSET Entity /\ evidence' \in SUBSET Call
        BY <2>3, <3>2 DEF Commit, IngestTypeOK
      <3>6. rows' \in [Relationship -> SUBSET Call]
        BY <2>3 DEF Commit, IngestTypeOK
      <3>7. support' \in [Relationship -> SUBSET Call]
        BY <2>3 DEF Commit, IngestTypeOK
      <3>8. QED
        BY <2>1, <2>3, <3>3, <3>4, <3>5, <3>6, <3>7 DEF Commit, IngestTypeOK
    <2>4. QED
      BY <2>2, <2>3
  <1>3. QED
    BY <1>1, <1>2 DEF Next

\* The type invariant holds for any results, however many calls overlap.
THEOREM IngestTypeCorrect == Spec => []IngestTypeOK
  BY IngestTypesInit, IngestTypeStep, PTL DEF Spec

-----------------------------------------------------------------------------
(* What a call that has not ended has done, whatever the others did        *)
(* meanwhile.  s is its session.                                           *)

Before(q, n) == {q[k] : k \in {j \in DOMAIN q : j < n}}

\* The entities that have been processed, the one that is, the relationships.
Handled(c, s) == IF s.phase = "relating" THEN EntitiesOf(c)
                 ELSE Before(Result[c].entities, s.next)

Current(c, s) == IF s.phase = "linking" THEN {Result[c].entities[s.next]} ELSE {}

HandledRels(c, s) == IF s.phase = "relating"
                     THEN Before(Result[c].relationships, s.next) ELSE {}

Live(s) == s.phase \in {"new", "checked", "upserting", "linking", "relating"}

Creates(c, s) ==
  /\ s.created \subseteq EntitiesOf(c) \union EndsOf(RelationshipsOf(c))
  /\ Handled(c, s) \subseteq known \union s.created
  /\ Current(c, s) \subseteq known \union s.created
  /\ EndsOf(s.supported) \subseteq known \union s.created

Links(c, s) ==
  /\ s.linked \subseteq Handled(c, s)
  /\ \A e \in Handled(c, s) : e \in s.linked \/ InvestigationOf(c) \in links[e]

Relates(c, s) ==
  /\ s.supported = HandledRels(c, s)
  /\ s.related \subseteq s.supported
  /\ s.unbacked \subseteq s.supported
  /\ \A g \in s.supported : g \in s.related \/ rows[g] # {}

Counts(c, s) ==
  \A e \in s.linked \union Current(c, s) : s.base[e] <= Cardinality(links[e])

\* A call that nobody writes beside finds the store as it read it.
Alone(c, s) ==
  /\ s.created \intersect known = {}
  /\ \A e \in s.linked : InvestigationOf(c) \notin links[e]
  /\ \A e \in s.linked \union Current(c, s) : s.base[e] = count[e]
  /\ \A g \in s.related : rows[g] = {}

Unwritten(s) ==
  s.phase \in {"new", "checked"} =>
    s.created = {} /\ s.linked = {} /\ s.related = {} /\ s.next = 1

Follows(c, s) ==
  Live(s) =>
    /\ s.next >= 1
    /\ Unwritten(s)
    /\ Creates(c, s)
    /\ Links(c, s)
    /\ Relates(c, s)
    /\ Counts(c, s)
    /\ database = "sqlite" => Alone(c, s)

SingleWriter ==
  database = "sqlite" => \A c, d \in Call : Writing(c) /\ Writing(d) => c = d

IngestInvariant ==
  /\ IngestTypeOK
  /\ SingleWriter
  /\ \A c \in Call : Follows(c, session[c])
  /\ StoreIsItsEvidence
  /\ CountsMatchLinks
  /\ OneRowPerRelationship
  /\ RefusedOnlyForRepeats

-----------------------------------------------------------------------------
(* Sequences, and the number of links.                                     *)

LEMMA BeforeNext ==
  ASSUME NEW S, NEW q \in Seq(S), NEW n \in Nat, n >= 1
  PROVE  /\ n \in DOMAIN q => Before(q, n + 1) = Before(q, n) \union {q[n]}
         /\ n \notin DOMAIN q => Before(q, n) = {q[k] : k \in DOMAIN q}
         /\ Before(q, n) \subseteq {q[k] : k \in DOMAIN q}
         /\ Before(q, 1) = {}
         /\ n \in DOMAIN q /\ q[n] \in Before(q, n) => ~NoRepeats(q)
  <1>1. DOMAIN q = 1 .. Len(q) /\ Len(q) \in Nat
    OBVIOUS
  <1>2. n \in DOMAIN q => {j \in DOMAIN q : j < n + 1} = {j \in DOMAIN q : j < n} \union {n}
    BY <1>1
  <1>3. n \notin DOMAIN q => {j \in DOMAIN q : j < n} = DOMAIN q
    BY <1>1
  <1>4. {j \in DOMAIN q : j < 1} = {}
    BY <1>1
  <1>5. n \in DOMAIN q => Before(q, n + 1) = Before(q, n) \union {q[n]}
    BY <1>2 DEF Before
  <1>6. n \notin DOMAIN q => Before(q, n) = {q[k] : k \in DOMAIN q}
    BY <1>3 DEF Before
  <1>7. Before(q, n) \subseteq {q[k] : k \in DOMAIN q}
    BY DEF Before
  <1>8. Before(q, 1) = {}
    BY <1>4 DEF Before
  <1>9. ASSUME n \in DOMAIN q, q[n] \in Before(q, n), NoRepeats(q)
        PROVE  FALSE
    <2>1. PICK k \in DOMAIN q : k < n /\ q[n] = q[k]
      BY <1>9 DEF Before
    <2>2. k = n
      BY <1>9, <2>1 DEF NoRepeats
    <2>3. QED
      BY <2>1, <2>2
  <1>10. QED
    BY <1>5, <1>6, <1>7, <1>8, <1>9

LEMMA LinkCount ==
  ASSUME IngestTypeOK, NEW e \in Entity
  PROVE  /\ IsFiniteSet(links[e]) /\ Cardinality(links[e]) \in Nat
         /\ count[e] \in Nat
         /\ links[e] = {} => Cardinality(links[e]) = 0
         /\ \A i \in Investigation \ links[e] :
              Cardinality(links[e] \union {i}) = Cardinality(links[e]) + 1
  <1>1. links[e] \subseteq Investigation /\ count[e] \in Nat
    BY DEF IngestTypeOK
  <1>2. IsFiniteSet(links[e])
    BY <1>1, FS_Subset, ResultAssumption
  <1>3. QED
    BY <1>1, <1>2, FS_CardinalityType, FS_EmptySet, FS_AddElement

LEMMA UnknownUnlinked ==
  ASSUME IngestInvariant, NEW e \in Entity, e \notin known
  PROVE  count[e] = 0
  <1>1. links[e] = {}
    BY DEF IngestInvariant, StoreIsItsEvidence
  <1>2. count[e] <= 0 /\ count[e] \in Nat
    BY <1>1, LinkCount DEF IngestInvariant, CountsMatchLinks
  <1>3. QED
    BY <1>2

-----------------------------------------------------------------------------
(* The steps of a call keep what Follows says of it.                       *)

LEMMA UpsertFollows ==
  ASSUME IngestInvariant, NEW c \in Call, NEW s \in Session, Follows(c, s),
         s.phase = "upserting", s.next \in DOMAIN Result[c].entities
  PROVE  Follows(c, [Upserted(s, Result[c].entities[s.next])
                       EXCEPT !.phase = "linking"])
  <1> DEFINE e == Result[c].entities[s.next]
             t == [Upserted(s, e) EXCEPT !.phase = "linking"]
  <1>1. e \in Entity /\ e \in EntitiesOf(c) /\ IngestTypeOK
    BY ResultTypes DEF EntitiesOf, IngestInvariant
  <1>2. /\ t \in Session
        /\ t.phase = "linking" /\ t.next = s.next
        /\ t.linked = s.linked /\ t.related = s.related
        /\ t.supported = s.supported /\ t.unbacked \subseteq s.unbacked
        /\ \/ t.created = s.created /\ e \in known \union s.created
           \/ t.created = s.created \union {e} /\ e \notin known
        /\ \A x \in Entity : x # e => t.base[x] = s.base[x]
        /\ \/ e \notin known /\ t.base[e] = 0
           \/ e \in s.linked /\ t.base[e] = s.base[e]
           \/ t.base[e] = count[e]
    BY <1>1, UpsertedFields
  <1> HIDE DEF t
  <1>3. /\ s.next >= 1 /\ Creates(c, s) /\ Links(c, s) /\ Relates(c, s)
        /\ Counts(c, s) /\ (database = "sqlite" => Alone(c, s))
    BY DEF Follows, Live
  <1>4. /\ Handled(c, t) = Handled(c, s) /\ Current(c, s) = {}
        /\ HandledRels(c, t) = HandledRels(c, s) /\ Current(c, t) = {e}
    BY <1>2 DEF Handled, Current, HandledRels
  <1>5. s.linked \subseteq Entity
    BY DEF Session
  <1>6. Creates(c, t)
    BY <1>1, <1>2, <1>3, <1>4 DEF Creates
  <1>7. Links(c, t)
    BY <1>2, <1>3, <1>4 DEF Links
  <1>8. Relates(c, t)
    BY <1>2, <1>3, <1>4 DEF Relates
  <1>9. Counts(c, t)
    <2>1. t.base[e] <= Cardinality(links[e])
      <3>1. 0 <= Cardinality(links[e]) /\ count[e] <= Cardinality(links[e])
        BY <1>1, LinkCount DEF IngestInvariant, CountsMatchLinks
      <3>2. QED
        BY <1>2, <1>3, <3>1 DEF Counts
    <2>2. QED
      BY <1>2, <1>3, <1>4, <1>5, <2>1 DEF Counts
  <1>10. database = "sqlite" => Alone(c, t)
    <2> SUFFICES ASSUME Alone(c, s) PROVE Alone(c, t)
      BY <1>3
    <2>1. t.base[e] = count[e]
      BY <1>1, <1>2, UnknownUnlinked DEF Alone
    <2>2. \A x \in t.linked \union Current(c, t) : t.base[x] = count[x]
      BY <1>2, <1>4, <1>5, <2>1 DEF Alone
    <2>3. QED
      BY <1>2, <2>2 DEF Alone
  <1>11. QED
    BY <1>2, <1>3, <1>6, <1>7, <1>8, <1>9, <1>10 DEF Follows, Unwritten, t

LEMMA LinkFollows ==
  ASSUME IngestInvariant, NEW c \in Call, NEW s \in Session, Follows(c, s),
         s.phase = "linking", s.next \in DOMAIN Result[c].entities,
         NEW t \in Session,
         t.phase = "upserting", t.next = s.next + 1, t.created = s.created,
         t.base = s.base, t.related = s.related, t.supported = s.supported,
         t.unbacked = s.unbacked,
         \/ /\ t.linked = s.linked
            /\ \/ InvestigationOf(c) \in links[Result[c].entities[s.next]]
               \/ Result[c].entities[s.next] \in s.linked
         \/ /\ t.linked = s.linked \union {Result[c].entities[s.next]}
            /\ InvestigationOf(c) \notin links[Result[c].entities[s.next]]
  PROVE  Follows(c, t)
  <1> DEFINE e == Result[c].entities[s.next]
  <1>1. /\ s.next >= 1 /\ Creates(c, s) /\ Links(c, s) /\ Relates(c, s)
        /\ Counts(c, s) /\ (database = "sqlite" => Alone(c, s))
    BY DEF Follows, Live
  <1>2. s.next \in Nat /\ t.next \in Nat /\ t.next >= 1
    BY <1>1 DEF Session
  <1>3. /\ Handled(c, t) = Handled(c, s) \union {e} /\ Current(c, s) = {e}
        /\ HandledRels(c, t) = HandledRels(c, s) /\ Current(c, t) = {}
    BY <1>1, <1>2, BeforeNext, ResultTypes DEF Handled, Current, HandledRels
  <1> HIDE DEF e
  <1>4. Creates(c, t)
    BY <1>1, <1>3 DEF Creates
  <1>5. Links(c, t)
    BY <1>1, <1>3 DEF Links, e
  <1>6. Relates(c, t)
    BY <1>1, <1>3 DEF Relates
  <1>7. Counts(c, t)
    BY <1>1, <1>3 DEF Counts, e
  <1>8. database = "sqlite" => Alone(c, t)
    BY <1>1, <1>3 DEF Alone, e
  <1>9. QED
    BY <1>2, <1>4, <1>5, <1>6, <1>7, <1>8 DEF Follows, Unwritten

LEMMA EndFollows ==
  ASSUME NEW c \in Call, NEW s \in Session, Follows(c, s),
         s.phase = "upserting", s.next \notin DOMAIN Result[c].entities
  PROVE  Follows(c, [s EXCEPT !.phase = "relating", !.next = 1])
  <1> DEFINE t == [s EXCEPT !.phase = "relating", !.next = 1]
  <1>1. /\ s.next >= 1 /\ Creates(c, s) /\ Links(c, s) /\ Relates(c, s)
        /\ Counts(c, s) /\ (database = "sqlite" => Alone(c, s))
    BY DEF Follows, Live
  <1>2. /\ t.phase = "relating" /\ t.next = 1
        /\ t.created = s.created /\ t.linked = s.linked
        /\ t.base = s.base /\ t.related = s.related
        /\ t.supported = s.supported /\ t.unbacked = s.unbacked
    BY DEF Session, Phase
  <1> HIDE DEF t
  <1>3. s.next \in Nat
    BY DEF Session
  <1>4. /\ Handled(c, t) = Handled(c, s) /\ Current(c, s) = {}
        /\ HandledRels(c, t) = {} /\ HandledRels(c, s) = {} /\ Current(c, t) = {}
    BY <1>1, <1>2, <1>3, BeforeNext, ResultTypes
       DEF Handled, Current, HandledRels, EntitiesOf
  <1>5. Creates(c, t) /\ Links(c, t)
    BY <1>1, <1>2, <1>4 DEF Creates, Links
  <1>6. Relates(c, t)
    BY <1>1, <1>2, <1>4 DEF Relates
  <1>7. Counts(c, t) /\ (database = "sqlite" => Alone(c, t))
    BY <1>1, <1>2, <1>4 DEF Counts, Alone
  <1>8. QED
    BY <1>2, <1>5, <1>6, <1>7 DEF Follows, Unwritten, t

LEMMA RowsEnds ==
  ASSUME StoreIsItsEvidence, NEW g \in Relationship, rows[g] # {}
  PROVE  Ends[g] \subseteq known
  <1>1. PICK d \in rows[g] : d \in evidence /\ g \in RelationshipsOf(d)
    BY DEF StoreIsItsEvidence
  <1> DEFINE E == UNION {EntitiesOf(b) : b \in evidence}
             R == UNION {RelationshipsOf(b) : b \in evidence}
  <1>2. g \in R
    BY <1>1
  <1>3. known = E \union EndsOf(R)
    BY DEF StoreIsItsEvidence
  <1> HIDE DEF E, R
  <1>4. QED
    BY <1>2, <1>3 DEF EndsOf

LEMMA RelateFollows ==
  ASSUME IngestInvariant, NEW c \in Call, NEW s \in Session, Follows(c, s),
         s.phase = "relating", s.next \in DOMAIN Result[c].relationships,
         NEW g \in Relationship, g = Result[c].relationships[s.next],
         NEW t \in Session,
         t.phase = s.phase, t.next = s.next + 1, t.linked = s.linked,
         t.base = s.base, t.supported = s.supported \union {g},
         t.unbacked \subseteq s.unbacked \union {g},
         \/ /\ t.created = s.created \union NewEnds(s, g)
            /\ t.related = s.related \union {g}
            /\ rows[g] = {}
         \/ /\ t.created = s.created
            /\ t.related = s.related
            /\ g \in s.related \/ rows[g] # {}
  PROVE  Follows(c, t)
  <1>1. /\ s.next >= 1 /\ Creates(c, s) /\ Links(c, s) /\ Relates(c, s)
        /\ Counts(c, s) /\ (database = "sqlite" => Alone(c, s))
    BY DEF Follows, Live
  <1>2. s.next \in Nat /\ t.next \in Nat /\ t.next >= 1
    BY <1>1 DEF Session
  <1>3. /\ Handled(c, t) = Handled(c, s) /\ Current(c, s) = {}
        /\ HandledRels(c, t) = HandledRels(c, s) \union {g}
        /\ Current(c, t) = {}
    BY <1>1, <1>2, BeforeNext, ResultTypes DEF Handled, Current, HandledRels
  <1>4. g \in RelationshipsOf(c)
    BY DEF RelationshipsOf
  <1>5. Creates(c, t)
    <2>1. Ends[g] \subseteq EndsOf(RelationshipsOf(c))
      BY <1>4 DEF EndsOf
    <2>2. EndsOf(t.supported) = EndsOf(s.supported) \union Ends[g]
      BY DEF EndsOf
    <2>3. Ends[g] \subseteq known \union t.created
      <3>1. CASE g \in s.related
        <4>1. g \in s.supported
          BY <1>1, <3>1 DEF Relates
        <4>2. Ends[g] \subseteq EndsOf(s.supported)
          BY <4>1 DEF EndsOf
        <4>3. QED
          BY <1>1, <4>2 DEF Creates
      <3>2. CASE rows[g] # {}
        BY <3>2, RowsEnds DEF IngestInvariant
      <3>3. CASE t.created = s.created \union NewEnds(s, g)
        BY <3>3 DEF NewEnds
      <3>4. QED
        BY <3>1, <3>2, <3>3
    <2>4. s.created \subseteq t.created
          /\ t.created \subseteq s.created \union Ends[g]
      BY DEF NewEnds
    <2>5. QED
      BY <1>1, <1>3, <2>1, <2>2, <2>3, <2>4 DEF Creates
  <1>6. Links(c, t)
    BY <1>1, <1>3 DEF Links
  <1>7. Relates(c, t)
    BY <1>1, <1>3 DEF Relates
  <1>8. Counts(c, t)
    BY <1>1, <1>3 DEF Counts
  <1>9. database = "sqlite" => Alone(c, t)
    BY <1>1, <1>3 DEF Alone, NewEnds
  <1>10. QED
    BY <1>2, <1>5, <1>6, <1>7, <1>8, <1>9 DEF Follows, Unwritten

\* A step of c ends in a session that Follows describes in the store before
\* it; it starts to write only in RecordEvidence, and on SQLite is refused
\* only for a repetition.
LEMMA OwnStep ==
  ASSUME IngestInvariant, NEW c \in Call, Ingest(c)
  PROVE  /\ ~Commit(c) => Follows(c, session'[c])
         /\ Writing(c)' => Writing(c) \/ RecordEvidence(c)
         /\ session'[c].phase = "refused" /\ database = "sqlite" =>
              \/ ~NoRepeats(Result[c].entities)
              \/ ~NoRepeats(Result[c].relationships)
  <1> DEFINE s == session[c]
             e == Result[c].entities[s.next]
             g == Result[c].relationships[s.next]
             Claim ==
               /\ ~Commit(c) => Follows(c, session'[c])
               /\ Writing(c)' => Writing(c) \/ RecordEvidence(c)
               /\ session'[c].phase = "refused" /\ database = "sqlite" =>
                    \/ ~NoRepeats(Result[c].entities)
                    \/ ~NoRepeats(Result[c].relationships)
  <1>0. /\ s \in Session /\ s.next \in Nat /\ session \in [Call -> Session]
        /\ Follows(c, s) /\ IngestTypeOK
    BY DEF Session, IngestTypeOK, IngestInvariant
  <1>a. ASSUME NEW p \in Phase, Goto(c, p)
        PROVE  /\ session'[c].phase = p /\ session'[c].next = s.next
               /\ session'[c].created = s.created
               /\ session'[c].linked = s.linked
               /\ session'[c].base = s.base /\ session'[c].related = s.related
               /\ session'[c].supported = s.supported
               /\ session'[c].unbacked = s.unbacked
    <2> DEFINE t == [s EXCEPT !.phase = p]
    <2>1. session'[c] = t
      BY <1>0, <1>a DEF Goto
    <2>2. QED
      BY <1>0, <2>1, PhaseFields
  <1>b. ASSUME Goto(c, "done") \/ Goto(c, "aborted")
        PROVE  Claim
    <2>1. session'[c].phase \in {"done", "aborted"}
      BY <1>a, <1>b DEF Phase
    <2>2. QED
      BY <2>1 DEF Follows, Live, Writing
  <1>c. ASSUME s.phase \in {"new", "checked"},
               NEW p \in {"checked", "upserting"}, Goto(c, p)
        PROVE  Follows(c, session'[c]) /\ session'[c].phase = p
    <2> DEFINE t == session'[c]
    <2>1. /\ t.phase = p /\ t.next = s.next
          /\ t.created = s.created /\ t.linked = s.linked
          /\ t.base = s.base /\ t.related = s.related
          /\ t.supported = s.supported /\ t.unbacked = s.unbacked
      BY <1>a, <1>c DEF Phase
    <2>2. Live(s)
      BY <1>c DEF Live
    <2> HIDE DEF t, s
    <2>3. /\ Handled(c, t) = Handled(c, s) /\ Current(c, s) = {}
          /\ HandledRels(c, t) = HandledRels(c, s) /\ Current(c, t) = {}
      BY <1>c, <2>1 DEF Handled, Current, HandledRels
    <2>4. /\ s.next >= 1 /\ Creates(c, s) /\ Links(c, s) /\ Relates(c, s)
          /\ Counts(c, s) /\ (database = "sqlite" => Alone(c, s))
          /\ Unwritten(s)
      BY <1>0, <2>2 DEF Follows
    <2>5. Creates(c, t) /\ Links(c, t)
      BY <2>1, <2>3, <2>4 DEF Creates, Links
    <2>6. Relates(c, t) /\ Counts(c, t) /\ Unwritten(t)
      BY <1>c, <2>1, <2>3, <2>4 DEF Relates, Counts, Unwritten
    <2>7. database = "sqlite" => Alone(c, t)
      BY <2>1, <2>3, <2>4 DEF Alone
    <2>8. QED
      BY <2>1, <2>4, <2>5, <2>6, <2>7 DEF Follows, t
  <1>1. CASE CheckExisting(c)
    <2>1. s.phase = "new" /\ (Goto(c, "done") \/ Goto(c, "checked"))
      BY <1>1 DEF CheckExisting
    <2>2. CASE Goto(c, "checked")
      BY <1>c, <2>1, <2>2 DEF Writing
    <2>3. QED
      BY <1>b, <2>1, <2>2
  <1>2. CASE RecordEvidence(c)
    BY <1>2, <1>c DEF RecordEvidence
  <1>3. CASE UpsertEntity(c)
    <2> DEFINE t == [Upserted(s, e) EXCEPT !.phase = "linking"]
    <2>1. s.phase = "upserting" /\ s.next \in DOMAIN Result[c].entities
      BY <1>3 DEF UpsertEntity
    <2>2. e \in Entity
      BY <1>0, <2>1, ResultTypes
    <2>3. session'[c] = t
      BY <1>0, <1>3 DEF UpsertEntity
    <2>4. t.phase = "linking"
      BY <1>0, <2>2, UpsertedFields
    <2>5. Follows(c, t)
      BY <1>0, <2>1, UpsertFollows
    <2> HIDE DEF t
    <2>6. QED
      BY <2>1, <2>3, <2>4, <2>5 DEF Writing
  <1>4. CASE LinkEntity(c)
    <2>1. s.phase = "linking" /\ s.next \in DOMAIN Result[c].entities
      BY <1>4 DEF LinkEntity
    <2>2. e \in Entity
      BY <1>0, <2>1, ResultTypes
    <2>3. CASE LinkSeen(c, e)
      <3> DEFINE t == Passed(s)
      <3>1. session'[c] = t
        BY <1>0, <1>4, <2>3 DEF LinkEntity
      <3>2. /\ t \in Session
            /\ t.phase = "upserting" /\ t.next = s.next + 1
            /\ t.created = s.created /\ t.linked = s.linked
            /\ t.base = s.base /\ t.related = s.related
            /\ t.supported = s.supported /\ t.unbacked = s.unbacked
        BY <1>0, PassedFields
      <3>3. InvestigationOf(c) \in links[e] \/ e \in s.linked
        BY <2>3 DEF LinkSeen
      <3> HIDE DEF t, s
      <3>4. Follows(c, t)
        BY <1>0, <2>1, <3>2, <3>3, LinkFollows
      <3>5. QED
        BY <2>1, <3>1, <3>2, <3>4 DEF Writing, s
    <2>4. CASE ~LinkSeen(c, e) /\ e \in s.linked
      <3>1. Goto(c, "refused")
        BY <1>0, <1>4, <2>4 DEF LinkEntity, Goto
      <3>2. session'[c].phase = "refused"
        BY <1>a, <3>1 DEF Phase
      <3>3. e \in Before(Result[c].entities, s.next) /\ s.next >= 1
        BY <1>0, <2>1, <2>4 DEF Follows, Live, Links, Handled
      <3>4. ~NoRepeats(Result[c].entities)
        BY <1>0, <2>1, <3>3, BeforeNext, ResultTypes
      <3>5. QED
        BY <3>2, <3>4 DEF Follows, Live, Writing
    <2>5. CASE ~LinkSeen(c, e) /\ e \notin s.linked
      <3> DEFINE t == Linked(s, e)
      <3>1. session'[c] = t
        BY <1>0, <1>4, <2>5 DEF LinkEntity
      <3>2. /\ t \in Session
            /\ t.phase = "upserting" /\ t.next = s.next + 1
            /\ t.created = s.created /\ t.linked = s.linked \union {e}
            /\ t.base = s.base /\ t.related = s.related
            /\ t.supported = s.supported /\ t.unbacked = s.unbacked
        BY <1>0, <2>2, LinkedFields
      <3>3. InvestigationOf(c) \notin links[e]
        BY <2>5 DEF LinkSeen
      <3> HIDE DEF t, s
      <3>4. Follows(c, t)
        BY <1>0, <2>1, <3>2, <3>3, LinkFollows
      <3>5. QED
        BY <2>1, <3>1, <3>2, <3>4 DEF Writing, s
    <2>6. QED
      BY <2>3, <2>4, <2>5
  <1>5. CASE EndEntities(c)
    <2> DEFINE t == [s EXCEPT !.phase = "relating", !.next = 1]
    <2>1. s.phase = "upserting" /\ s.next \notin DOMAIN Result[c].entities
      BY <1>5 DEF EndEntities
    <2>2. session'[c] = t
      BY <1>0, <1>5 DEF EndEntities
    <2>3. t.phase = "relating"
      BY <1>0 DEF Session
    <2>4. Follows(c, t)
      BY <1>0, <2>1, EndFollows
    <2> HIDE DEF t
    <2>5. QED
      BY <2>1, <2>2, <2>3, <2>4 DEF Writing
  <1>6. CASE Relate(c)
    <2>1. s.phase = "relating" /\ s.next \in DOMAIN Result[c].relationships
      BY <1>6 DEF Relate
    <2>2. g \in Relationship
      BY <1>0, <2>1, ResultTypes
    <2>3. Cardinality(RowsSeen(c, g)) = 1 => g \in s.related \/ rows[g] # {}
      BY FS_EmptySet DEF RowsSeen
    <2>4. CASE RowsSeen(c, g) = {}
               /\ session' = [session EXCEPT ![c] = Supported(Inserted(s, g), g)]
      <3> DEFINE t == Supported(Inserted(s, g), g)
      <3>1. session'[c] = t /\ rows[g] = {}
        BY <1>0, <2>4 DEF RowsSeen
      <3>2. /\ t \in Session
            /\ t.phase = s.phase /\ t.next = s.next + 1
            /\ t.created = s.created \union NewEnds(s, g)
            /\ t.linked = s.linked
            /\ t.base = s.base /\ t.related = s.related \union {g}
            /\ t.supported = s.supported \union {g} /\ t.unbacked = {g}
        BY <1>0, <2>2, RelatedFields
      <3> HIDE DEF t, s
      <3>3. Follows(c, t)
        BY <1>0, <2>1, <2>2, <3>1, <3>2, RelateFollows
      <3>4. QED
        BY <2>1, <3>1, <3>2, <3>3 DEF Writing, s
    <2>5. CASE Cardinality(RowsSeen(c, g)) = 1
               /\ session' = [session EXCEPT ![c] = Supported(s, g)]
      <3> DEFINE t == Supported(s, g)
      <3>1. session'[c] = t
        BY <1>0, <2>5
      <3>2. /\ t \in Session
            /\ t.phase = s.phase /\ t.next = s.next + 1
            /\ t.created = s.created /\ t.linked = s.linked
            /\ t.base = s.base /\ t.related = s.related
            /\ t.supported = s.supported \union {g}
            /\ t.unbacked = s.unbacked \union {g}
        BY <1>0, <2>2, SupportedFields
      <3> HIDE DEF t, s
      <3>3. Follows(c, t)
        BY <1>0, <2>1, <2>2, <2>3, <2>5, <3>2, RelateFollows
      <3>4. QED
        BY <2>1, <3>1, <3>2, <3>3 DEF Writing, s
    <2>6. CASE Cardinality(RowsSeen(c, g)) = 1 /\ g \in s.supported
               /\ session' = [session EXCEPT ![c] = [s EXCEPT !.next = @ + 1]]
      <3> DEFINE t == [s EXCEPT !.next = @ + 1]
      <3>1. session'[c] = t
        BY <1>0, <2>6
      <3>2. s.next + 1 \in Nat
        BY <1>0
      <3>3. /\ t \in Session
            /\ t.phase = s.phase /\ t.next = s.next + 1
            /\ t.created = s.created /\ t.linked = s.linked
            /\ t.base = s.base /\ t.related = s.related
            /\ t.supported = s.supported /\ t.unbacked = s.unbacked
        BY <1>0, <3>2 DEF Session
      <3>4. t.supported = s.supported \union {g}
        BY <2>6, <3>3
      <3> HIDE DEF t, s
      <3>5. Follows(c, t)
        BY <1>0, <2>1, <2>2, <2>3, <2>6, <3>3, <3>4, RelateFollows
      <3>6. QED
        BY <2>1, <3>1, <3>3, <3>5 DEF Writing, s
    <2>7. CASE /\ Goto(c, "refused")
               /\ Cardinality(RowsSeen(c, g)) > 1 \/ g \in s.unbacked
      <3>1. session'[c].phase = "refused"
        BY <1>a, <2>7 DEF Phase
      <3>2. ASSUME database = "sqlite"
            PROVE  ~NoRepeats(Result[c].relationships)
        <4>1. s.next >= 1 /\ Relates(c, s) /\ Alone(c, s)
          BY <1>0, <2>1, <3>2 DEF Follows, Live
        <4>2. ASSUME NEW x, RowsSeen(c, g) \subseteq {x}
              PROVE  ~(Cardinality(RowsSeen(c, g)) > 1)
          <5>1. RowsSeen(c, g) = {} \/ RowsSeen(c, g) = {x}
            BY <4>2
          <5>2. QED
            BY <5>1, FS_EmptySet, FS_Singleton
        <4>3. ~(Cardinality(RowsSeen(c, g)) > 1)
          <5>1. CASE g \in s.related
            <6>1. RowsSeen(c, g) \subseteq {c}
              BY <4>1, <5>1 DEF Alone, RowsSeen
            <6>2. QED
              BY <4>2, <6>1
          <5>2. CASE g \notin s.related /\ rows[g] = {}
            <6>1. RowsSeen(c, g) \subseteq {c}
              BY <5>2 DEF RowsSeen
            <6>2. QED
              BY <4>2, <6>1
          <5>3. CASE g \notin s.related /\ rows[g] # {}
            <6>1. PICK x \in rows[g] : rows[g] \subseteq {x}
              BY <2>2, <3>2, <5>3 DEF IngestInvariant, OneRowPerRelationship
            <6>2. RowsSeen(c, g) \subseteq {x}
              BY <5>3, <6>1 DEF RowsSeen
            <6>3. QED
              BY <4>2, <6>2
          <5>4. QED
            BY <5>1, <5>2, <5>3
        <4>4. g \in Before(Result[c].relationships, s.next)
          BY <2>1, <2>7, <4>1, <4>3 DEF Relates, HandledRels
        <4>5. QED
          BY <1>0, <2>1, <4>1, <4>4, BeforeNext, ResultTypes
      <3>3. QED
        BY <3>1, <3>2 DEF Follows, Live, Writing
    <2>8. QED
      <3> HIDE DEF Claim
      <3>1. \/ RowsSeen(c, g) = {}
               /\ session' = [session EXCEPT ![c] = Supported(Inserted(s, g), g)]
            \/ Cardinality(RowsSeen(c, g)) = 1
               /\ session' = [session EXCEPT ![c] = Supported(s, g)]
            \/ Cardinality(RowsSeen(c, g)) = 1 /\ g \in s.supported
               /\ session' = [session EXCEPT ![c] = [s EXCEPT !.next = @ + 1]]
            \/ /\ Goto(c, "refused")
               /\ Cardinality(RowsSeen(c, g)) > 1 \/ g \in s.unbacked
        BY <1>6 DEF Relate
      <3>2. QED
        BY <2>4, <2>5, <2>6, <2>7, <3>1 DEF Claim
  <1>7. CASE Commit(c)
    BY <1>7, <1>b DEF Commit
  <1>8. CASE Refuse(c)
    <2>1. s.phase = "relating" /\ Conflicts(c) /\ Goto(c, "refused")
      BY <1>8 DEF Refuse, Ready
    <2>2. session'[c].phase = "refused"
      BY <1>a, <2>1 DEF Phase
    <2>3. database # "sqlite"
      BY <1>0, <2>1 DEF Follows, Live, Alone, Conflicts
    <2>4. QED
      BY <2>2, <2>3 DEF Follows, Live, Writing
  <1>9. CASE Abort(c)
    BY <1>9, <1>b DEF Abort
  <1>10. QED
    BY <1>1, <1>2, <1>3, <1>4, <1>5, <1>6, <1>7, <1>8, <1>9 DEF Ingest

\* While others commit, what Follows says of a call stays true.
LEMMA OtherStep ==
  ASSUME IngestInvariant, NEW c \in Call, NEW d \in Call, d # c, Commit(d),
         NEW s \in Session, Follows(c, s), s = session[c], s = session'[c]
  PROVE  Follows(c, session[c])'
  <1> SUFFICES ASSUME Live(s) PROVE Follows(c, session[c])'
    BY DEF Follows, Live
  <1>1. /\ s.next >= 1 /\ Creates(c, s) /\ Links(c, s) /\ Relates(c, s)
        /\ Counts(c, s) /\ (database = "sqlite" => Alone(c, s))
        /\ Unwritten(s)
    BY DEF Follows
  <1>2. IngestTypeOK
    BY DEF IngestInvariant
  <1>3. /\ known \subseteq known' /\ database' = database
        /\ \A e \in Entity : links[e] \subseteq links'[e]
        /\ \A g \in Relationship : rows[g] \subseteq rows'[g]
    BY DEF Commit
  <1>4. \A e \in Entity : Cardinality(links[e]) <= Cardinality(links'[e])
    <2> TAKE e \in Entity
    <2>1. links'[e] \subseteq Investigation
      BY <1>2, ResultTypes DEF Commit, IngestTypeOK
    <2>2. IsFiniteSet(links'[e])
      BY <2>1, FS_Subset, ResultAssumption
    <2>3. QED
      BY <1>3, <2>2, FS_Subset
  <1>5. s.linked \union Current(c, s) \subseteq Entity
    BY <1>1, <1>2 DEF Creates, Session, IngestTypeOK
  <1>6. s.supported \subseteq Relationship /\ s.related \subseteq s.supported
    BY <1>1 DEF Session, Relates
  <1>7. Handled(c, s) \subseteq Entity
    BY <1>1, <1>2 DEF Creates, Session, IngestTypeOK
  <1>8. Creates(c, session[c])'
    BY <1>1, <1>3 DEF Creates, Handled, Current, EndsOf, EntitiesOf,
                      RelationshipsOf, Before
  <1>9. Links(c, session[c])'
    BY <1>1, <1>3, <1>7 DEF Links, Handled, InvestigationOf, EntitiesOf, Before
  <1>10. Relates(c, session[c])'
    BY <1>1, <1>3, <1>6 DEF Relates, HandledRels, Before
  <1>11. Counts(c, session[c])'
    <2> DEFINE E == s.linked \union Current(c, s)
    <2>1. ASSUME NEW e \in E
          PROVE  s.base[e] <= Cardinality(links'[e])
      <3>1. /\ s.base[e] \in Nat /\ Cardinality(links[e]) \in Nat
            /\ s.base[e] <= Cardinality(links[e])
            /\ Cardinality(links[e]) <= Cardinality(links'[e])
        BY <1>1, <1>2, <1>4, <1>5, <2>1, LinkCount DEF Counts, Session
      <3>2. links'[e] \subseteq Investigation
        BY <1>2, <1>5, <2>1, ResultTypes DEF Commit, IngestTypeOK
      <3>3. Cardinality(links'[e]) \in Nat
        BY <3>2, FS_Subset, FS_CardinalityType, ResultAssumption
      <3>4. QED
        BY <3>1, <3>3
    <2>2. QED
      BY <2>1 DEF Counts, Current
  <1>12. (database = "sqlite" => Alone(c, session[c]))'
    <2> SUFFICES ASSUME database = "sqlite" PROVE Alone(c, session[c])'
      BY <1>3
    <2>1. Writing(d)
      BY DEF Commit, Ready, Writing
    <2>2. ~Writing(c)
      BY <2>1 DEF IngestInvariant, SingleWriter
    <2>3. s.phase \in {"new", "checked"}
      BY <2>2 DEF Writing, Live
    <2>4. s.created = {} /\ s.linked = {} /\ s.related = {}
      BY <1>1, <2>3 DEF Unwritten
    <2>5. QED
      BY <2>3, <2>4 DEF Alone, Current
  <1>13. QED
    BY <1>1, <1>8, <1>9, <1>10, <1>11, <1>12 DEF Follows, Unwritten

\* While the store stands, too.
LEMMA StillFollows ==
  ASSUME NEW c \in Call, Follows(c, session'[c]), UNCHANGED <<database, store>>
  PROVE  Follows(c, session[c])'
  BY DEF store, Follows, Live, Unwritten, Creates, Links, Relates, Counts, Alone,
         Handled, Current, HandledRels, EndsOf, EntitiesOf, RelationshipsOf,
         InvestigationOf, Before

-----------------------------------------------------------------------------
(* What a commit does to the store.                                        *)

LEMMA CommitFacts ==
  ASSUME IngestInvariant, NEW c \in Call, Commit(c)
  PROVE  LET s == session[c]
         IN /\ s \in Session
            /\ s.created \subseteq EntitiesOf(c) \union EndsOf(RelationshipsOf(c))
            /\ EntitiesOf(c) \union EndsOf(RelationshipsOf(c))
                 \subseteq known \union s.created
            /\ s.linked \subseteq EntitiesOf(c)
            /\ \A e \in EntitiesOf(c) :
                 e \in s.linked \/ InvestigationOf(c) \in links[e]
            /\ \A e \in s.linked : InvestigationOf(c) \notin links[e]
            /\ s.supported = RelationshipsOf(c)
            /\ s.related \subseteq s.supported
            /\ \A g \in s.supported : g \in s.related \/ rows[g] # {}
            /\ \A e \in s.linked : s.base[e] <= Cardinality(links[e])
            /\ database = "sqlite" => Alone(c, s)
  <1> DEFINE s == session[c]
  <1>1. /\ s \in Session /\ s.phase = "relating"
        /\ s.next \notin DOMAIN Result[c].relationships
        /\ Follows(c, s) /\ Live(s) /\ ~Conflicts(c)
    BY DEF Commit, Ready, IngestInvariant, IngestTypeOK, Live
  <1>2. /\ s.next \in Nat /\ s.next >= 1 /\ Creates(c, s) /\ Links(c, s)
        /\ Relates(c, s) /\ Counts(c, s) /\ (database = "sqlite" => Alone(c, s))
    BY <1>1 DEF Follows, Session
  <1>3. /\ Handled(c, s) = EntitiesOf(c) /\ Current(c, s) = {}
        /\ HandledRels(c, s) = RelationshipsOf(c)
    BY <1>1, <1>2, BeforeNext, ResultTypes
       DEF Handled, Current, HandledRels, RelationshipsOf
  <1>4. \A e \in s.linked : InvestigationOf(c) \notin links[e]
    BY <1>1 DEF Conflicts
  <1> HIDE DEF s
  <1>5. QED
    BY <1>1, <1>2, <1>3, <1>4 DEF Creates, Links, Relates, Counts, s

LEMMA CommitStore ==
  ASSUME IngestInvariant, NEW c \in Call, Commit(c)
  PROVE  StoreIsItsEvidence'
  <1> DEFINE s == session[c]
             N == EntitiesOf(c)
             M == RelationshipsOf(c)
  <1>1. /\ s.created \subseteq N \union EndsOf(M)
        /\ N \union EndsOf(M) \subseteq known \union s.created
        /\ s.linked \subseteq N
        /\ \A e \in N : e \in s.linked \/ InvestigationOf(c) \in links[e]
        /\ s.supported = M /\ s.related \subseteq s.supported
        /\ \A g \in s.supported : g \in s.related \/ rows[g] # {}
    BY CommitFacts
  <1>2. evidence' = evidence \union {c} /\ known' = known \union s.created
    BY DEF Commit
  <1>3. /\ \A d : EntitiesOf(d)' = EntitiesOf(d)
        /\ \A d : RelationshipsOf(d)' = RelationshipsOf(d)
        /\ \A d : InvestigationOf(d)' = InvestigationOf(d)
    BY DEF EntitiesOf, RelationshipsOf, InvestigationOf
  <1>4. known' = (UNION {EntitiesOf(d) : d \in evidence'})
                   \union EndsOf(UNION {RelationshipsOf(d) : d \in evidence'})
    <2> DEFINE E == UNION {EntitiesOf(d) : d \in evidence}
               R == UNION {RelationshipsOf(d) : d \in evidence}
               F == UNION {EntitiesOf(d) : d \in evidence'}
               S == UNION {RelationshipsOf(d) : d \in evidence'}
    <2>1. known = E \union EndsOf(R)
      BY DEF IngestInvariant, StoreIsItsEvidence
    <2>2. F = E \union N
      BY <1>2
    <2>3. S = R \union M
      BY <1>2
    <2> HIDE DEF N, M, E, R, F, S
    <2>4. EndsOf(S) = EndsOf(R) \union EndsOf(M)
      BY <2>3 DEF EndsOf
    <2>5. known' = F \union EndsOf(S)
      BY <1>1, <1>2, <2>1, <2>2, <2>4
    <2>6. QED
      BY <2>5 DEF F, S
  <1>5. ASSUME NEW e \in Entity
        PROVE  links'[e] = {InvestigationOf(d) : d \in {d \in evidence' : e \in EntitiesOf(d)}}
    <2>1. links[e] = {InvestigationOf(d) : d \in {d \in evidence : e \in EntitiesOf(d)}}
      BY DEF IngestInvariant, StoreIsItsEvidence
    <2>2. links'[e] = IF e \in s.linked THEN links[e] \union {InvestigationOf(c)}
                                        ELSE links[e]
      BY DEF Commit
    <2>3. links'[e] = IF e \in N THEN links[e] \union {InvestigationOf(c)}
                                 ELSE links[e]
      BY <1>1, <2>2
    <2> DEFINE D == {d \in evidence : e \in EntitiesOf(d)}
               G == {d \in evidence' : e \in EntitiesOf(d)}
    <2>4. G = IF e \in N THEN D \union {c} ELSE D
      BY <1>2
    <2> HIDE DEF D, G, N
    <2>5. links[e] = {InvestigationOf(d) : d \in D}
      BY <2>1 DEF D
    <2>6. links'[e] = {InvestigationOf(d) : d \in G}
      BY <2>3, <2>4, <2>5
    <2>7. QED
      BY <2>6 DEF G
  <1>6. ASSUME NEW g \in Relationship
        PROVE  /\ support'[g] = {d \in evidence' : g \in RelationshipsOf(d)}
               /\ rows'[g] \subseteq support'[g]
               /\ rows'[g] = {} => support'[g] = {}
    <2>1. /\ support[g] = {d \in evidence : g \in RelationshipsOf(d)}
          /\ rows[g] \subseteq support[g]
          /\ rows[g] = {} => support[g] = {}
      BY DEF IngestInvariant, StoreIsItsEvidence
    <2>2. /\ support'[g] = IF g \in M THEN support[g] \union {c} ELSE support[g]
          /\ rows'[g] = IF g \in s.related THEN rows[g] \union {c} ELSE rows[g]
      BY <1>1 DEF Commit
    <2>3. support'[g] = {d \in evidence' : g \in RelationshipsOf(d)}
      BY <1>2, <2>1, <2>2
    <2> HIDE DEF M, s
    <2>4. QED
      BY <1>1, <2>1, <2>2, <2>3
  <1>7. QED
    BY <1>3, <1>4, <1>5, <1>6 DEF StoreIsItsEvidence

LEMMA CommitCounts ==
  ASSUME IngestInvariant, NEW c \in Call, Commit(c)
  PROVE  CountsMatchLinks'
  <1> DEFINE s == session[c]
  <1>1. IngestTypeOK /\ s \in Session /\ database' = database
    BY CommitFacts DEF IngestInvariant, Commit
  <1> SUFFICES ASSUME NEW e \in Entity
               PROVE  /\ count'[e] <= Cardinality(links'[e])
                      /\ count'[e] = 0 => links'[e] = {}
                      /\ database = "sqlite" => count'[e] = Cardinality(links'[e])
    BY <1>1 DEF CountsMatchLinks
  <1>2. /\ count[e] <= Cardinality(links[e])
        /\ count[e] = 0 => links[e] = {}
        /\ database = "sqlite" => count[e] = Cardinality(links[e])
    BY DEF IngestInvariant, CountsMatchLinks
  <1>3. CASE e \notin s.linked
    <2>1. count'[e] = count[e] /\ links'[e] = links[e]
      BY <1>3 DEF Commit, CountAfter
    <2>2. QED
      BY <1>2, <2>1
  <1>4. CASE e \in s.linked
    <2>1. /\ InvestigationOf(c) \in Investigation \ links[e]
          /\ s.base[e] <= Cardinality(links[e])
          /\ database = "sqlite" => s.base[e] = count[e]
      BY <1>4, CommitFacts, ResultTypes DEF Alone
    <2>2. /\ count'[e] = s.base[e] + 1
          /\ links'[e] = links[e] \union {InvestigationOf(c)}
      BY <1>4 DEF Commit, CountAfter
    <2>3. Cardinality(links'[e]) = Cardinality(links[e]) + 1
          /\ Cardinality(links[e]) \in Nat
      BY <1>1, <2>1, <2>2, LinkCount
    <2>4. s.base[e] \in Nat
      BY <1>1 DEF Session
    <2>5. count'[e] <= Cardinality(links'[e]) /\ count'[e] # 0
      BY <2>1, <2>2, <2>3, <2>4
    <2>6. database = "sqlite" => count'[e] = Cardinality(links'[e])
      BY <1>2, <2>1, <2>2, <2>3
    <2>7. QED
      BY <2>5, <2>6
  <1>5. QED
    BY <1>3, <1>4

LEMMA CommitRows ==
  ASSUME IngestInvariant, NEW c \in Call, Commit(c)
  PROVE  OneRowPerRelationship'
  <1> SUFFICES ASSUME database = "sqlite", NEW g \in Relationship,
                      NEW a \in rows'[g], NEW b \in rows'[g]
               PROVE  a = b
    BY DEF OneRowPerRelationship, Commit
  <1>1. \A x, y \in rows[g] : x = y
    BY DEF IngestInvariant, OneRowPerRelationship
  <1>2. g \in session[c].related => rows[g] = {}
    BY CommitFacts DEF Alone
  <1>3. rows'[g] = IF g \in session[c].related THEN rows[g] \union {c} ELSE rows[g]
    BY DEF Commit
  <1>4. QED
    BY <1>1, <1>2, <1>3

-----------------------------------------------------------------------------
(* The invariant.                                                          *)

LEMMA IngestInvariantInit == Init => IngestInvariant
  <1> SUFFICES ASSUME Init PROVE IngestInvariant
    OBVIOUS
  <1>1. IngestTypeOK
    BY IngestTypesInit
  <1>2. ASSUME NEW c \in Call
        PROVE  /\ session[c].phase = "new" /\ session[c].next = 1
               /\ session[c].created = {} /\ session[c].linked = {}
               /\ session[c].related = {} /\ session[c].supported = {}
               /\ session[c].unbacked = {}
    BY DEF Init, NewSession
  <1>3. ASSUME NEW c \in Call
        PROVE  Follows(c, session[c])
    <2> DEFINE s == session[c]
    <2>1. /\ s.phase = "new" /\ s.next = 1
          /\ s.created = {} /\ s.linked = {}
          /\ s.related = {} /\ s.supported = {}
          /\ s.unbacked = {}
      BY <1>2
    <2> HIDE DEF s
    <2>2. Handled(c, s) = {} /\ Current(c, s) = {} /\ HandledRels(c, s) = {}
      BY <2>1, BeforeNext, ResultTypes DEF Handled, Current, HandledRels
    <2>3. EndsOf(s.supported) = {}
      BY <2>1 DEF EndsOf
    <2>4. Creates(c, s) /\ Links(c, s) /\ Relates(c, s) /\ Counts(c, s)
          /\ Alone(c, s) /\ Unwritten(s)
      BY <2>1, <2>2, <2>3 DEF Creates, Links, Relates, Counts, Alone, Unwritten
    <2>5. QED
      BY <2>1, <2>4 DEF Follows, s
  <1>4. SingleWriter /\ RefusedOnlyForRepeats
    BY <1>2 DEF SingleWriter, Writing, RefusedOnlyForRepeats
  <1>5. StoreIsItsEvidence
    <2>1. EndsOf(UNION {RelationshipsOf(c) : c \in evidence}) = {}
      BY DEF Init, EndsOf
    <2>2. (UNION {EntitiesOf(c) : c \in evidence}) = {} /\ known = {}
      BY DEF Init
    <2>3. \A e \in Entity :
            links[e] = {InvestigationOf(c) : c \in {d \in evidence : e \in EntitiesOf(d)}}
      BY DEF Init
    <2>4. \A g \in Relationship :
            /\ support[g] = {c \in evidence : g \in RelationshipsOf(c)}
            /\ rows[g] \subseteq support[g]
            /\ rows[g] = {} => support[g] = {}
      BY DEF Init
    <2>5. known = (UNION {EntitiesOf(c) : c \in evidence})
                    \union EndsOf(UNION {RelationshipsOf(c) : c \in evidence})
      BY <2>1, <2>2
    <2>6. QED
      BY <2>3, <2>4, <2>5, Zenon DEF StoreIsItsEvidence
  <1>6. CountsMatchLinks
    BY FS_EmptySet DEF Init, CountsMatchLinks
  <1>7. OneRowPerRelationship
    BY DEF Init, OneRowPerRelationship
  <1>8. QED
    BY <1>1, <1>3, <1>4, <1>5, <1>6, <1>7 DEF IngestInvariant

LEMMA IngestInvariantStep == IngestInvariant /\ [Next]_vars => IngestInvariant'
  <1> SUFFICES ASSUME IngestInvariant, [Next]_vars PROVE IngestInvariant'
    OBVIOUS
  <1>1. IngestTypeOK'
    BY IngestTypeStep DEF IngestInvariant
  <1>a. ASSUME UNCHANGED <<database, store>>
        PROVE  /\ StoreIsItsEvidence' /\ CountsMatchLinks' /\ OneRowPerRelationship'
    BY <1>a DEF IngestInvariant, store, StoreIsItsEvidence, CountsMatchLinks,
                OneRowPerRelationship, EntitiesOf, RelationshipsOf, InvestigationOf
  <1>2. CASE UNCHANGED vars
    <2>1. \A c \in Call : Follows(c, session[c])'
      BY <1>2, StillFollows DEF vars, IngestInvariant
    <2>2. SingleWriter' /\ RefusedOnlyForRepeats'
      BY <1>2 DEF vars, IngestInvariant, SingleWriter, Writing,
                  RefusedOnlyForRepeats, NoRepeats
    <2>3. QED
      BY <1>1, <1>2, <1>a, <2>1, <2>2 DEF vars, IngestInvariant
  <1>3. ASSUME NEW c \in Call, Ingest(c)
        PROVE  IngestInvariant'
    <2>1. \A d \in Call : d # c => session'[d] = session[d]
      BY <1>3, SessionStep, SessionUpdate DEF IngestInvariant, IngestTypeOK
    <2>2. database' = database
      BY <1>3, StoreStep DEF Commit
    <2>3. SingleWriter'
      <3> SUFFICES ASSUME database = "sqlite", NEW a \in Call, NEW b \in Call,
                          Writing(a)', Writing(b)', a # b
                   PROVE  FALSE
        BY <2>2 DEF SingleWriter
      <3>1. \A d \in Call : d # c => (Writing(d)' <=> Writing(d))
        BY <2>1 DEF Writing
      <3>2. CASE a # c /\ b # c
        BY <3>1, <3>2 DEF IngestInvariant, SingleWriter
      <3>3. ASSUME NEW d \in Call, d # c, Writing(d), Writing(c)'
            PROVE  FALSE
        <4>1. Writing(c) \/ RecordEvidence(c)
          BY <1>3, <3>3, OwnStep
        <4>2. ~Writing(c)
          BY <3>3 DEF IngestInvariant, SingleWriter
        <4>3. QED
          BY <3>3, <4>1, <4>2 DEF RecordEvidence, MayWrite
      <3>4. CASE a = c
        BY <3>1, <3>3, <3>4
      <3>5. CASE b = c
        BY <3>1, <3>3, <3>5
      <3>6. QED
        BY <3>2, <3>4, <3>5
    <2>4. ASSUME NEW d \in Call
          PROVE  Follows(d, session[d])'
      <3>1. CASE ~Commit(c)
        <4>1. UNCHANGED <<database, store>>
          BY <1>3, <3>1, StoreStep
        <4>2. Follows(d, session'[d])
          BY <1>3, <2>1, <3>1, OwnStep DEF IngestInvariant
        <4>3. QED
          BY <4>1, <4>2, StillFollows
      <3>2. CASE Commit(c) /\ d = c
        <4>1. session'[c].phase = "done"
          BY <3>2 DEF Commit, Goto, IngestInvariant, IngestTypeOK, Session
        <4>2. QED
          BY <3>2, <4>1 DEF Follows, Live
      <3>3. CASE Commit(c) /\ d # c
        <4>1. /\ session[d] \in Session /\ session[d] = session'[d]
              /\ Follows(d, session[d])
          BY <2>1, <3>3 DEF IngestInvariant, IngestTypeOK
        <4>2. QED
          BY <3>3, <4>1, OtherStep
      <3>4. QED
        BY <3>1, <3>2, <3>3
    <2>5. StoreIsItsEvidence' /\ CountsMatchLinks' /\ OneRowPerRelationship'
      <3>1. CASE Commit(c)
        BY <3>1, CommitStore, CommitCounts, CommitRows
      <3>2. CASE ~Commit(c)
        BY <1>3, <1>a, <3>2, StoreStep
      <3>3. QED
        BY <3>1, <3>2
    <2>6. RefusedOnlyForRepeats'
      <3> SUFFICES ASSUME database = "sqlite", NEW d \in Call,
                          session'[d].phase = "refused"
                   PROVE  \/ ~NoRepeats(Result[d].entities)
                          \/ ~NoRepeats(Result[d].relationships)
        BY <2>2 DEF RefusedOnlyForRepeats, NoRepeats
      <3>1. CASE d = c
        BY <1>3, <3>1, OwnStep
      <3>2. CASE d # c
        BY <2>1, <3>2 DEF IngestInvariant, RefusedOnlyForRepeats
      <3>3. QED
        BY <3>1, <3>2
    <2>7. QED
      BY <1>1, <2>3, <2>4, <2>5, <2>6 DEF IngestInvariant
  <1>4. QED
    BY <1>2, <1>3 DEF Next

LEMMA IngestInvariantHolds == Spec => []IngestInvariant
  BY IngestInvariantInit, IngestInvariantStep, PTL DEF Spec

\* However calls of ingest overlap, repeat and fail, for any results: the
\* derived store is what the committed evidence says.
THEOREM DerivedFromEvidence == Spec => []StoreIsItsEvidence
  <1>1. IngestInvariant => StoreIsItsEvidence
    BY DEF IngestInvariant
  <1>2. QED
    BY <1>1, IngestInvariantHolds, PTL

\* An entity's count of investigations never exceeds its links, is zero only
\* without links, and on SQLite is their number.
THEOREM CountsCorrect == Spec => []CountsMatchLinks
  <1>1. IngestInvariant => CountsMatchLinks
    BY DEF IngestInvariant
  <1>2. QED
    BY <1>1, IngestInvariantHolds, PTL

\* On SQLite no edge ever gets a second row, which every later result with
\* that edge would fail on.
THEOREM EdgesUnique == Spec => []OneRowPerRelationship
  <1>1. IngestInvariant => OneRowPerRelationship
    BY DEF IngestInvariant
  <1>2. QED
    BY <1>1, IngestInvariantHolds, PTL

\* On SQLite a constraint never refuses a result that does not repeat itself.
THEOREM RefusalsExplained == Spec => []RefusedOnlyForRepeats
  <1>1. IngestInvariant => RefusedOnlyForRepeats
    BY DEF IngestInvariant
  <1>2. QED
    BY <1>1, IngestInvariantHolds, PTL

-----------------------------------------------------------------------------
(* Ingestion implements the abstract store: between two states whose store *)
(* is what the evidence says, evidence of one more call is one TakeEffect. *)

EvidenceDone == \A c \in evidence : session[c].phase = "done"

LEMMA EvidenceDoneStep ==
  IngestTypeOK /\ EvidenceDone /\ [Next]_vars => EvidenceDone'
  <1> SUFFICES ASSUME IngestTypeOK, EvidenceDone, [Next]_vars PROVE EvidenceDone'
    OBVIOUS
  <1>1. CASE UNCHANGED vars
    BY <1>1 DEF vars, store, EvidenceDone
  <1>2. ASSUME NEW c \in Call, Ingest(c) PROVE EvidenceDone'
    <2>1. \A d \in Call : d # c => session'[d] = session[d]
      <3>1. PICK t \in Session : session' = [session EXCEPT ![c] = t]
        BY <1>2, SessionStep
      <3>2. QED
        BY <3>1 DEF IngestTypeOK
    <2>2. evidence \subseteq Call
      BY DEF IngestTypeOK
    <2>3. CASE Commit(c)
      <3>1. /\ evidence' = evidence \union {c}
            /\ session'[c].phase = "done"
        BY <2>3 DEF Commit, Goto, IngestTypeOK, Session
      <3>2. QED
        BY <2>1, <2>2, <3>1 DEF EvidenceDone
    <2>4. CASE ~Commit(c)
      <3>1. evidence' = evidence
        BY <1>2, <2>4, StoreStep DEF store
      <3>2. session[c].phase # "done"
        BY <1>2 DEF Ingest, CheckExisting, RecordEvidence, UpsertEntity,
             LinkEntity, EndEntities, Relate, Commit, Refuse, Abort, Ready, Writing
      <3>3. QED
        BY <2>1, <2>2, <3>1, <3>2 DEF EvidenceDone
    <2>5. QED
      BY <2>3, <2>4
  <1>3. QED
    BY <1>1, <1>2 DEF Next

LEMMA EvidenceDoneHolds == Spec => []EvidenceDone
  <1>1. Init => EvidenceDone
    BY DEF Init, EvidenceDone
  <1>2. QED
    BY <1>1, EvidenceDoneStep, IngestTypeCorrect, PTL DEF Spec

LEMMA StoreInit == Init => Store!Init
  BY DEF Init, Store!Init

\* The evidence determines the rest of the abstract store.
LEMMA CommitTakesEffect ==
  ASSUME StoreIsItsEvidence, StoreIsItsEvidence', EvidenceDone,
         NEW c \in Call, Commit(c), IngestTypeOK, IngestTypeOK'
  PROVE  Store!TakeEffect(c)
  <1> DEFINE N(d) == EntitiesOf(d)
             M(d) == RelationshipsOf(d)
             T(d) == InvestigationOf(d)
  <1>1. /\ evidence' = evidence \union {c}
        /\ c \notin evidence
    BY DEF Commit, Ready, EvidenceDone
  <1>2. /\ \A d : EntitiesOf(d)' = N(d)
        /\ \A d : RelationshipsOf(d)' = M(d)
        /\ \A d : InvestigationOf(d)' = T(d)
        /\ \A R : EndsOf(R)' = EndsOf(R)
    BY DEF EntitiesOf, RelationshipsOf, InvestigationOf, EndsOf
  <1>3. evidence \subseteq Call /\ evidence' \subseteq Call
    BY DEF IngestTypeOK
  <1>4. known = (UNION {N(d) : d \in evidence})
                 \union EndsOf(UNION {M(d) : d \in evidence})
    BY DEF StoreIsItsEvidence
  <1>5. known' = (UNION {N(d) : d \in evidence'})
                  \union EndsOf(UNION {M(d) : d \in evidence'})
    BY <1>2 DEF StoreIsItsEvidence
  <1>6. known' = known \union N(c) \union UNION {Ends[g] : g \in M(c)}
    <2> HIDE DEF N, M
    <2>1. UNION {N(d) : d \in evidence'} = (UNION {N(d) : d \in evidence}) \union N(c)
      BY <1>1
    <2>2. UNION {M(d) : d \in evidence'} = (UNION {M(d) : d \in evidence}) \union M(c)
      BY <1>1
    <2>3. EndsOf((UNION {M(d) : d \in evidence}) \union M(c))
            = EndsOf(UNION {M(d) : d \in evidence}) \union EndsOf(M(c))
      BY DEF EndsOf
    <2>4. EndsOf(M(c)) = UNION {Ends[g] : g \in M(c)}
      BY DEF EndsOf
    <2>5. QED
      BY <1>4, <1>5, <2>1, <2>2, <2>3, <2>4
  <1>7. \A e \in Entity : links'[e] = IF e \in N(c) THEN links[e] \union {T(c)} ELSE links[e]
    <2> SUFFICES ASSUME NEW e \in Entity
                 PROVE  links'[e] = IF e \in N(c) THEN links[e] \union {T(c)} ELSE links[e]
      OBVIOUS
    <2>1. links[e] = {T(d) : d \in {b \in evidence : e \in N(b)}}
      BY DEF StoreIsItsEvidence
    <2>2. links'[e] = {T(d) : d \in {b \in evidence' : e \in N(b)}}
      BY <1>2 DEF StoreIsItsEvidence
    <2> HIDE DEF N, T
    <2>3. QED
      BY <1>1, <2>1, <2>2
  <1>8. \A g \in Relationship : support'[g] = IF g \in M(c) THEN support[g] \union {c} ELSE support[g]
    <2> SUFFICES ASSUME NEW g \in Relationship
                 PROVE  support'[g] = IF g \in M(c) THEN support[g] \union {c} ELSE support[g]
      OBVIOUS
    <2>1. support[g] = {d \in evidence : g \in M(d)}
      BY DEF StoreIsItsEvidence
    <2>2. support'[g] = {d \in evidence' : g \in M(d)}
      BY <1>2 DEF StoreIsItsEvidence
    <2> HIDE DEF M
    <2>3. QED
      BY <1>1, <2>1, <2>2
  <1>9. /\ links' \in [Entity -> SUBSET Investigation]
        /\ support' \in [Relationship -> SUBSET Call]
    BY DEF IngestTypeOK
  <1>10. /\ [d \in Call |-> EntitiesOf(d)][c] = N(c)
         /\ [d \in Call |-> RelationshipsOf(d)][c] = M(c)
         /\ [d \in Call |-> InvestigationOf(d)][c] = T(c)
    OBVIOUS
  <1> HIDE DEF N, M, T
  <1>11. links' = [e \in Entity |-> IF e \in N(c) THEN links[e] \union {T(c)} ELSE links[e]]
    BY <1>7, <1>9
  <1>12. support' = [g \in Relationship |-> IF g \in M(c) THEN support[g] \union {c} ELSE support[g]]
    BY <1>8, <1>9
  <1>13. QED
    BY <1>1, <1>6, <1>10, <1>11, <1>12 DEF Store!TakeEffect

LEMMA StoreSteps ==
  ASSUME IngestInvariant, IngestInvariant', EvidenceDone, [Next]_vars
  PROVE  [Store!Next]_(Store!vars)
  <1>1. CASE UNCHANGED vars
    BY <1>1 DEF vars, store, Store!vars
  <1>2. ASSUME NEW c \in Call, Ingest(c) PROVE [Store!Next]_(Store!vars)
    <2>1. CASE Commit(c)
      BY <2>1, CommitTakesEffect DEF IngestInvariant, Store!Next
    <2>2. CASE ~Commit(c)
      BY <1>2, <2>2, StoreStep DEF store, Store!vars
    <2>3. QED
      BY <2>1, <2>2
  <1>3. QED
    BY <1>1, <1>2 DEF Next

\* Ingestion implements the abstract store for any results and any number of
\* overlapping calls: each call that commits takes effect at one instant,
\* with all of its result, and no other step is visible.
THEOREM IngestionImplementsStore == Spec => IngestionIsAtomic
  <1>1. Init => Store!Init
    BY StoreInit
  <1>2. IngestInvariant /\ IngestInvariant' /\ EvidenceDone /\ [Next]_vars
          => [Store!Next]_(Store!vars)
    BY StoreSteps
  <1>3. QED
    BY <1>1, <1>2, IngestInvariantHolds, EvidenceDoneHolds, PTL
       DEF Spec, IngestionIsAtomic, Store!Spec
=============================================================================
