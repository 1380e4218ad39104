--------------------------- MODULE EmailSecurity ---------------------------
(***************************************************************************)
(* The email_security plugin: src/argus/plugins/email_security_plugin.py.  *)
(* Five checks of a domain run at once; each may record issues and adjusts *)
(* a score that starts at 100 and is graded at the end.                    *)
(*                                                                         *)
(* The checks are nested functions that write "score -= n" and do not      *)
(* declare the name nonlocal: to Python it is an unbound local of each,    *)
(* the statement raises, and the score of the run is never touched.  Where *)
(* the statement stands decides what the exception does.                   *)
(***************************************************************************)
EXTENDS Integers, FiniteSets, FiniteSetsExt

VARIABLES
  checks,      \* checks that have not finished
  issues,      \* what they reported
  score,
  report       \* "running", "raised", or the grade

securityVars == <<checks, issues, score, report>>

\* What a lookup can bring, per check.  "nxdomain" stands for both exceptions
\* that are handled apart, "failed" for any other.
Finding ==
  [spf   |-> {"strict", "allows_all", "softfail", "several_records", "no_spf",
              "nxdomain", "failed"},
   dmarc |-> {"no_policy", "no_rua", "policy_none", "strong", "no_dmarc",
              "nxdomain", "failed"},
   dkim  |-> {"selector", "no_selector"},
   mx    |-> {"hosts", "nxdomain", "failed"},
   blacklists |-> {"clean", "listed", "failed"}]

\* Findings that adjust the score: here inside the try block of the check, so
\* that the exception is taken for a failed lookup and the rest of the block is
\* skipped: several SPF records are looked at only behind a strict first one, a
\* missing rua only where the policy adjusts nothing,
AdjustsInTry == {"allows_all", "softfail", "several_records", "no_spf",
                 "policy_none", "strong", "no_dmarc", "listed"}

\* and here in a handler or after the block, so that it leaves the check.
AdjustsOutside == {"nxdomain", "no_selector"}

\* "strong" is a bonus, and a missing rua an issue that costs nothing.
Deducted == (AdjustsInTry \union AdjustsOutside) \ {"strong"}

\* An issue is recorded before its deduction.
Reported(check, finding) ==
  IF finding \in Deducted \union {"no_rua"} THEN {<<check, finding>>} ELSE {}

SecurityTypeOK ==
  /\ checks \subseteq DOMAIN Finding
  /\ \A issue \in issues : issue[2] \in Finding[issue[1]]
  /\ score \in Int
  /\ report \in {"running", "raised", "A", "B", "C", "D", "F"}

SecurityInit ==
  /\ checks = DOMAIN Finding
  /\ issues = {}
  /\ score = 100
  /\ report = "running"

Grade(n) == CASE n >= 90 -> "A" [] n >= 80 -> "B" [] n >= 60 -> "C"
              [] n >= 40 -> "D" [] OTHER   -> "F"

Clamped(n) == Max({0, Min({100, n})})

\* gather hands on the first exception at once; run has no handler for it.
CheckEnds(check, finding) ==
  /\ report = "running" /\ check \in checks
  /\ checks' = checks \ {check}
  /\ issues' = issues \union Reported(check, finding)
  /\ UNCHANGED score
  /\ report' = IF finding \in AdjustsOutside THEN "raised" ELSE report

Assess ==
  /\ report = "running" /\ checks = {}
  /\ score' = Clamped(score)
  /\ report' = Grade(Clamped(score))
  /\ UNCHANGED <<checks, issues>>

SecurityNext ==
  \/ \E check \in DOMAIN Finding : \E finding \in Finding[check] :
       CheckEnds(check, finding)
  \/ Assess

SecuritySpec == SecurityInit /\ [][SecurityNext]_securityVars

-----------------------------------------------------------------------------
\* "Start with perfect score, deduct for issues"
\* (email_security_plugin.py:45): a report with an issue that has a deduction in
\* the code is not a perfect score.
DeductionsCount ==
  /\ report \notin {"running", "raised"}
  /\ \E issue \in issues : issue[2] \in Deducted
  => score < 100
=============================================================================
