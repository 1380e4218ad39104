---------------------------- MODULE MonitorDiff ----------------------------
(***************************************************************************)
(* What a monitor alerts its user of: _compute_fingerprint and             *)
(* _compute_diff of src/argus/monitor_scheduler.py, as _run_monitor uses   *)
(* them for one monitor after the other check of its target.               *)
(*                                                                         *)
(* A check compares its evidence with that of the last investigation.  The *)
(* row of a plugin that failed holds an error and no field, and both the   *)
(* fingerprint and the diff read a field that is not there as empty, so    *)
(* what is compared is not what the world was.  The cleanup may have       *)
(* purged the evidence of the last check too, while its fingerprint stays  *)
(* in the monitor's row.  When checks run, and what crashes between them,  *)
(* is in MonitorScheduler.                                                 *)
(***************************************************************************)
EXTENDS Naturals, FiniteSets

CONSTANTS
  Item,        \* subdomains, ports, addresses and whatever else is listed
  CertMargin,  \* certificates that may be new without an alert
  Scopes       \* bound: the sets of fields with something to find

\* The fields and the plugins that fill them.  A flag is a list of at most one
\* item.  asn stands for all that only the fingerprint looks at.
SourceOf ==
  [subdomains |-> "subdomains", vulns |-> "shodan", ports |-> "shodan",
   breached |-> "breach", credentials |-> "breach",
   threats |-> "reputation", tor |-> "reputation", platforms |-> "username",
   sites |-> "social_email", ip |-> "ip_geo", dns_a |-> "dns",
   certs |-> "certs", asn |-> "bgp"]

Field == DOMAIN SourceOf
Flags == {"breached", "credentials", "tor", "ip", "asn"}

ASSUME DiffAssumption ==
  /\ IsFiniteSet(Item)
  /\ CertMargin \in Nat
  /\ Scopes \subseteq SUBSET Field

VARIABLES
  scope,    \* the fields with something to find, of Scopes
  latest,   \* the latest check
  kept,     \* is its evidence in the database?
  alerts    \* what the latest check told the user

diffVars == <<scope, latest, kept, alerts>>

\* What a check would find if all plugins worked, and those that did.
Check == [finds : [Field -> SUBSET Item], up : SUBSET {SourceOf[f] : f \in Field}]
NoneYet == [finds |-> [f \in Field |-> {}], up |-> {}, none |-> TRUE]

Alert == (Field \X {"gained", "lost"}) \union {<<"data", "changed">>}

DiffTypeOK ==
  /\ scope \in Scopes
  /\ latest \in Check \union {NoneYet}
  /\ kept \in BOOLEAN
  /\ alerts \in SUBSET Alert

DiffInit ==
  /\ scope \in Scopes
  /\ latest = NoneYet
  /\ kept = TRUE
  /\ alerts = {}

-----------------------------------------------------------------------------
(* Fingerprint and diff.  A definition with the parameters of the next one *)
(* and no comment of its own is a faulty variant of it, used to test that  *)
(* the properties below can fail.                                          *)

\* The evidence of a check as `d.get(field, default)` reads it: the default
\* where the row of a plugin is {"error": ...}.
EvidenceOf(c) == [f \in Field |-> IF SourceOf[f] \in c.up THEN c.finds[f] ELSE {}]

HashOfSomeFields(c) == [f \in Field \ {"threats"} |-> EvidenceOf(c)[f]]
\* The digest: an outage has that of an empty finding.  Of the certificates
\* the plugin reports a count.
Hash(c) == [EvidenceOf(c) EXCEPT !["certs"] = Cardinality(@)]

TellsGains == Field \ {"certs", "asn"}
TellsLosses == {"subdomains", "vulns", "ports", "tor", "platforms", "dns_a"}

\* For an address or a DNS record a check without an answer is no change.
NeedsBoth == {"ip", "dns_a"}

ComparedAnyway(f, old, new) == TRUE
Compared(f, old, new) == f \in NeedsBoth => old[f] # {} /\ new[f] # {}

\* _compute_diff
Diff(old, new) ==
  {<<f, "gained">> : f \in {g \in TellsGains :
     Compared(g, old, new) /\ new[g] \ old[g] # {}}}
  \union {<<f, "lost">> : f \in {g \in TellsLosses :
     Compared(g, old, new) /\ old[g] \ new[g] # {}}}
  \union {<<f, "gained">> : f \in {g \in {"certs"} :
     Cardinality(new[g]) > Cardinality(old[g]) + CertMargin}}

-----------------------------------------------------------------------------
\* The comparison of _run_monitor: the evidence is compared only when the
\* fingerprint moved, and an unexplained move is told as such.
CheckTarget(c) ==
  /\ latest' = c
  /\ kept' = TRUE
  /\ LET old == IF kept THEN EvidenceOf(latest) ELSE [f \in Field |-> {}]
         changes == Diff(old, EvidenceOf(c))
     IN  alerts' = IF latest = NoneYet \/ Hash(latest) = Hash(c) THEN {}
                   ELSE IF changes = {} THEN {<<"data", "changed">>}
                   ELSE changes
  /\ UNCHANGED scope

Lists(f) == IF f \in Flags THEN {S \in SUBSET Item : Cardinality(S) <= 1}
            ELSE SUBSET Item

MonitorChecks ==
  \E finds \in [scope -> SUBSET Item], up \in SUBSET {SourceOf[f] : f \in scope} :
    /\ \A f \in scope : finds[f] \in Lists(f)
    /\ CheckTarget([finds |-> [f \in Field |->
                                 IF f \in scope THEN finds[f] ELSE {}],
                    up |-> up])

\* cleanup_old_data deletes the evidence of the last investigation.  The
\* alerts of the check before are history.
PurgeBaseline ==
  /\ latest # NoneYet /\ kept
  /\ kept' = FALSE
  /\ alerts' = {}
  /\ UNCHANGED <<scope, latest>>

DiffNext == MonitorChecks \/ PurgeBaseline

DiffSpec == DiffInit /\ [][DiffNext]_diffVars

-----------------------------------------------------------------------------
(* Properties                                                              *)

\* An alert that the world does not bear out needs an outage of the plugin in
\* one of the two checks, or a purged baseline, and for an address or a DNS
\* record there is none at all.  "Data has changed" needs a field that changed,
\* or an outage of a plugin that had something to find: one that fails in both
\* checks, or finds nothing in the other, alarms nobody (monitor_scheduler.py:
\* 92-201, 306-323).
FalseAlarmsNeedAnOutage ==
  [][LET was == latest.finds
         is == latest'.finds
         seen(f) == SourceOf[f] \in latest.up \intersect latest'.up
         Bears(a) ==
           CASE a[2] = "gained" -> is[a[1]] \ was[a[1]] # {}
             [] a[2] = "lost" -> was[a[1]] \ is[a[1]] # {}
             [] OTHER ->
                  \E f \in Field :
                    \/ was[f] # is[f]
                    \/ ~seen(f) /\ was[f] \union is[f] # {}
     IN  \A a \in alerts' :
           \/ Bears(a)
           \/ a[1] \notin NeedsBoth \union {"data"} /\ (~kept \/ ~seen(a[1]))
    ]_diffVars

\* A gain of a field that both checks could look at is told, and so is a loss
\* where losses are told: the fingerprint never hides what the diff would see
\* (monitor_scheduler.py:314-318).  Not so for a change during an outage: of
\* an address it is never told, because neither check has something to
\* compare.
ChangesAreTold ==
  [][kept /\ kept' /\ latest # NoneYet =>
       \A f \in TellsGains :
         LET was == latest.finds[f]
             is == latest'.finds[f]
             seen == /\ SourceOf[f] \in latest.up \intersect latest'.up
                     /\ f \in NeedsBoth => was # {} /\ is # {}
         IN  /\ seen /\ is \ was # {} => <<f, "gained">> \in alerts'
             /\ seen /\ f \in TellsLosses /\ was \ is # {} => <<f, "lost">> \in alerts'
    ]_diffVars
=============================================================================
