--------------------------- MODULE CanonicalStore ---------------------------
(***************************************************************************)
(* What canonical ingestion (src/argus/canonical/ingestion.py:4-17) comes  *)
(* to for its callers: a call takes effect at one instant.  At that        *)
(* instant its evidence is recorded together with every entity, link and   *)
(* edge its result mentions, and nothing else changes; a call that is      *)
(* refused or cut off takes no effect, nor does one that finds the         *)
(* evidence of its execution on record.                                    *)
(*                                                                         *)
(* "Idempotent: re-ingesting the same (execution_id, plugin_id) is a       *)
(* no-op" (ingestion.py:15) is more than the code keeps and is not         *)
(* promised here: two calls of one execution that overlap both look for    *)
(* its evidence before either commits, no constraint backs the look        *)
(* (models.py:209-220), and both take effect, each with evidence of its    *)
(* own.  Ingestion.tla is shown to implement this.                         *)
(***************************************************************************)
EXTENDS Naturals

CONSTANTS Entity, Relationship, Ends, Investigation, Call,
          Mentions,  \* call -> the entities of its result
          Edges,     \* call -> the relationships of its result
          Target     \* call -> the investigation it is linked to

VARIABLES
  evidence,  \* the calls that have taken effect
  known,     \* entities with a row
  links,     \* entity -> the investigations it is linked to
  support    \* relationship -> the evidence behind it

vars == <<evidence, known, links, support>>

Init ==
  /\ evidence = {}
  /\ known = {}
  /\ links = [e \in Entity |-> {}]
  /\ support = [g \in Relationship |-> {}]

\* A call is known by the id of its evidence, so a retry is a call of its own.
\* Ends of edges become known, but only what a result lists as an entity is
\* linked to the investigation.
TakeEffect(c) ==
  /\ c \notin evidence
  /\ evidence' = evidence \union {c}
  /\ known' = known \union Mentions[c] \union UNION {Ends[g] : g \in Edges[c]}
  /\ links' = [e \in Entity |-> IF e \in Mentions[c]
                                THEN links[e] \union {Target[c]} ELSE links[e]]
  /\ support' = [g \in Relationship |-> IF g \in Edges[c]
                                        THEN support[g] \union {c} ELSE support[g]]

Next == \E c \in Call : TakeEffect(c)

Spec == Init /\ [][Next]_vars
=============================================================================
