--------------------------- MODULE PlatformProofs ---------------------------
(***************************************************************************)
(* Theorems about the components that keep histories or walk: MonitorDiff, *)
(* AdapterHealth, RateLimiter, RedirectChain and Plugins, for any items,   *)
(* margins, thresholds, windows, limits, redirects and numbers of hops;    *)
(* and about the components side by side.                                  *)
(***************************************************************************)
EXTENDS MCPlatform, CanonicalProofs, IngestionProofs

-----------------------------------------------------------------------------
(* Comparing two checks of a target.                                       *)

\* A row of evidence belongs to one of the fields' plugins.
LEMMA CheckType ==
  ASSUME NEW S \in SUBSET Field, NEW finds \in [S -> SUBSET Item],
         NEW up \in SUBSET {SourceOf[f] : f \in S}
  PROVE  [finds |-> [f \in Field |-> IF f \in S THEN finds[f] ELSE {}],
          up |-> up] \in Check
  BY DEF Check

\* What MonitorChecks does is a comparison with some check.
LEMMA CheckFields ==
  ASSUME DiffTypeOK, MonitorChecks
  PROVE  \E c \in Check : CheckTarget(c)
  <1>1. scope \in SUBSET Field
    BY DiffAssumption DEF DiffAssumption, DiffTypeOK
  <1>2. PICK finds \in [scope -> SUBSET Item],
             up \in SUBSET {SourceOf[f] : f \in scope} :
          CheckTarget([finds |-> [f \in Field |->
                                    IF f \in scope THEN finds[f] ELSE {}],
                       up |-> up])
    BY DEF MonitorChecks
  <1>3. QED
    BY <1>1, <1>2, CheckType

\* A comparison tells nothing but alerts.
LEMMA DiffIsAlerts ==
  ASSUME NEW old, NEW new
  PROVE  Diff(old, new) \subseteq Alert
  BY DEF Diff, Alert, TellsGains, TellsLosses, Field, SourceOf

LEMMA DiffTypeInit == DiffInit => DiffTypeOK
  BY DEF DiffInit, DiffTypeOK

LEMMA DiffTypeNext == DiffTypeOK /\ [DiffNext]_diffVars => DiffTypeOK'
  <1> SUFFICES ASSUME DiffTypeOK, [DiffNext]_diffVars
               PROVE  DiffTypeOK'
    OBVIOUS
  <1>1. CASE MonitorChecks
    <2>1. PICK c \in Check : CheckTarget(c)
      BY <1>1, CheckFields
    <2>2. latest' = c /\ kept' = TRUE /\ scope' = scope
      BY <2>1 DEF CheckTarget
    <2>3. alerts' \in SUBSET Alert
      <3>1. {<<"data", "changed">>} \subseteq Alert
        BY DEF Alert
      <3>2. QED
        BY <2>1, <3>1, DiffIsAlerts DEF CheckTarget
    <2>4. QED
      BY <2>2, <2>3 DEF DiffTypeOK
  <1>2. CASE PurgeBaseline
    BY <1>2 DEF PurgeBaseline, DiffTypeOK
  <1>3. CASE UNCHANGED diffVars
    BY <1>3 DEF diffVars, DiffTypeOK
  <1>4. QED
    BY <1>1, <1>2, <1>3 DEF DiffNext

\* Every variable keeps its type.
THEOREM DiffTypes == DiffSpec => []DiffTypeOK
  <1>1. QED
    BY DiffTypeInit, DiffTypeNext, PTL DEF DiffSpec

-----------------------------------------------------------------------------
(* What a comparison can tell.                                             *)

\* The alerts of a check come from a diff, or from fingerprints that differ.
LEMMA AlertsOf ==
  ASSUME NEW c \in Check, CheckTarget(c), NEW a \in alerts'
  PROVE  /\ latest # NoneYet /\ Hash(latest) # Hash(c)
         /\ \/ a = <<"data", "changed">>
            \/ a \in Diff(IF kept THEN EvidenceOf(latest)
                          ELSE [f \in Field |-> {}], EvidenceOf(c))
  BY DEF CheckTarget

\* The evidence of a field is what there is to find, or nothing.
LEMMA EvidenceFields ==
  ASSUME NEW c, NEW f \in Field
  PROVE  /\ SourceOf[f] \in c.up => EvidenceOf(c)[f] = c.finds[f]
         /\ SourceOf[f] \notin c.up => EvidenceOf(c)[f] = {}
  BY DEF EvidenceOf

\* A check finds finite sets of items.
LEMMA FoundIsFinite ==
  ASSUME DiffTypeOK, NEW f \in Field
  PROVE  IsFiniteSet(latest.finds[f])
  <1>1. latest.finds[f] \in SUBSET Item
    BY DEF DiffTypeOK, Check, NoneYet
  <1>2. QED
    BY <1>1, FS_Subset, DiffAssumption DEF DiffAssumption

LEMMA FewerItems ==
  ASSUME NEW S, NEW T, IsFiniteSet(T), NEW m \in Nat,
         Cardinality(S) > Cardinality(T) + m, S \subseteq T
  PROVE  FALSE
  <1>1. IsFiniteSet(S) /\ Cardinality(S) <= Cardinality(T)
    BY FS_Subset
  <1>2. Cardinality(S) \in Nat /\ Cardinality(T) \in Nat
    BY <1>1, FS_CardinalityType
  <1>3. QED
    BY <1>1, <1>2

\* Of an alert that a check gives, the fields of old and new evidence.
LEMMA DiffTells ==
  ASSUME NEW old, NEW new, NEW a \in Diff(old, new)
  PROVE  \E f \in Field :
           /\ f \in NeedsBoth => old[f] # {} /\ new[f] # {}
           /\ \/ a = <<f, "gained">> /\ new[f] \ old[f] # {}
              \/ a = <<f, "lost">> /\ old[f] \ new[f] # {}
              \/ /\ a = <<f, "gained">>
                 /\ Cardinality(new[f]) > Cardinality(old[f]) + CertMargin
  <1>1. /\ TellsGains \subseteq Field /\ TellsLosses \subseteq Field
        /\ "certs" \in Field /\ "certs" \notin NeedsBoth
    BY DEF TellsGains, TellsLosses, NeedsBoth, Field, SourceOf
  <1>2. QED
    BY <1>1 DEF Diff, Compared

\* Both checks could look at a field.
BothLooked(c, f) == SourceOf[f] \in latest.up \intersect c.up

\* One alert of one check.
BearsOut(a, c) ==
  CASE a[2] = "gained" -> c.finds[a[1]] \ latest.finds[a[1]] # {}
    [] a[2] = "lost" -> latest.finds[a[1]] \ c.finds[a[1]] # {}
    [] OTHER ->
         \E f \in Field :
           \/ latest.finds[f] # c.finds[f]
           \/ ~BothLooked(c, f) /\ latest.finds[f] \union c.finds[f] # {}

\* Evidence that differs is of a change, or of something a plugin missed.
LEMMA HashMoves ==
  ASSUME NEW c \in Check, Hash(latest) # Hash(c)
  PROVE  \E f \in Field :
           \/ latest.finds[f] # c.finds[f]
           \/ ~BothLooked(c, f) /\ latest.finds[f] \union c.finds[f] # {}
  <1>1. EvidenceOf(latest) # EvidenceOf(c)
    BY DEF Hash
  <1>2. PICK f \in Field : EvidenceOf(latest)[f] # EvidenceOf(c)[f]
    BY <1>1 DEF EvidenceOf
  <1>3. CASE BothLooked(c, f)
    BY <1>2, <1>3, EvidenceFields DEF BothLooked
  <1>4. CASE ~BothLooked(c, f)
    <2>1. \/ EvidenceOf(latest)[f] = {} /\ EvidenceOf(c)[f] \in {{}, c.finds[f]}
          \/ EvidenceOf(c)[f] = {} /\ EvidenceOf(latest)[f] \in {{}, latest.finds[f]}
      BY <1>4, EvidenceFields DEF BothLooked
    <2>2. c.finds[f] # {} \/ latest.finds[f] # {}
      BY <1>2, <2>1
    <2>3. latest.finds[f] \union c.finds[f] # {}
      BY <2>2
    <2>4. QED
      BY <1>4, <2>3
  <1>5. QED
    BY <1>3, <1>4

LEMMA AlertBears ==
  ASSUME DiffTypeOK, NEW c \in Check, CheckTarget(c), NEW a \in alerts'
  PROVE  \/ BearsOut(a, c)
         \/ a[1] \notin NeedsBoth \union {"data"} /\ (~kept \/ ~BothLooked(c, a[1]))
  <1> DEFINE old == IF kept THEN EvidenceOf(latest) ELSE [f \in Field |-> {}]
             new == EvidenceOf(c)
  <1>1. CASE a = <<"data", "changed">>
    <2>1. Hash(latest) # Hash(c)
      BY AlertsOf
    <2>2. a[2] = "changed"
      BY <1>1
    <2>3. QED
      BY <2>1, <2>2, HashMoves DEF BearsOut
  <1>2. CASE a \in Diff(old, new)
    <2> HIDE DEF old, new
    <2>1. PICK f \in Field :
            /\ f \in NeedsBoth => old[f] # {} /\ new[f] # {}
            /\ \/ a = <<f, "gained">> /\ new[f] \ old[f] # {}
               \/ a = <<f, "lost">> /\ old[f] \ new[f] # {}
               \/ /\ a = <<f, "gained">>
                  /\ Cardinality(new[f]) > Cardinality(old[f]) + CertMargin
      BY <1>2, DiffTells
    <2>2. /\ a[1] = f
          /\ a[2] \in {"gained", "lost"}
          /\ a[2] = "gained" <=> a = <<f, "gained">>
      BY <2>1
    <2>3. /\ ~kept => old[f] = {}
          /\ kept => old = EvidenceOf(latest)
          /\ new = EvidenceOf(c)
      BY DEF old, new
    <2>4. CASE kept /\ BothLooked(c, f)
      <3>1. old[f] = latest.finds[f] /\ new[f] = c.finds[f]
        BY <2>3, <2>4, EvidenceFields DEF BothLooked
      <3>2. IsFiniteSet(old[f])
        BY <3>1, FoundIsFinite
      <3>3. \/ a[2] = "gained" /\ new[f] \ old[f] # {}
            \/ a[2] = "lost" /\ old[f] \ new[f] # {}
        <4>1. Cardinality(new[f]) > Cardinality(old[f]) + CertMargin
                => new[f] \ old[f] # {}
          BY <3>2, FewerItems, DiffAssumption DEF DiffAssumption
        <4>2. QED
          BY <2>1, <2>2, <4>1
      <3>4. QED
        BY <2>2, <3>1, <3>3 DEF BearsOut
    <2>5. CASE ~(kept /\ BothLooked(c, f))
      <3>1. f \notin NeedsBoth
        BY <2>1, <2>3, <2>5, EvidenceFields DEF BothLooked
      <3>2. f # "data"
        BY DEF Field, SourceOf
      <3>3. QED
        BY <2>2, <2>5, <3>1, <3>2
    <2>6. QED
      BY <2>4, <2>5
  <1>3. QED
    BY <1>1, <1>2, AlertsOf

\* An alert without a change in the world needs an outage in one of the two
\* checks or a purged baseline, and is never about an address; and an outage is
\* told only where there was something to find (what AlarmsAreEarned is about:
\* monitor_scheduler.py:92-201, 306-323).
THEOREM AlarmsAreEarned == DiffSpec => FalseAlarmsNeedAnOutage
  <1> DEFINE Earned ==
        LET was == latest.finds
            is == latest'.finds
            seen(f) == SourceOf[f] \in latest.up \intersect latest'.up
            Bears(a) ==
              CASE a[2] = "gained" -> is[a[1]] \ was[a[1]] # {}
                [] a[2] = "lost" -> was[a[1]] \ is[a[1]] # {}
                [] OTHER ->
                     \E f \in Field :
                       \/ was[f] # is[f]
                       \/ ~seen(f) /\ was[f] \union is[f] # {}
        IN  \A a \in alerts' :
              \/ Bears(a)
              \/ a[1] \notin NeedsBoth \union {"data"} /\ (~kept \/ ~seen(a[1]))
  <1>1. DiffTypeOK /\ DiffNext => Earned
    <2> SUFFICES ASSUME DiffTypeOK, DiffNext PROVE Earned
      OBVIOUS
    <2>1. CASE MonitorChecks
      <3>1. PICK c \in Check : CheckTarget(c)
        BY <2>1, CheckFields
      <3>2. latest' = c
        BY <3>1 DEF CheckTarget
      <3>3. QED
        BY <3>1, <3>2, AlertBears DEF BearsOut, BothLooked
    <2>2. CASE PurgeBaseline
      BY <2>2 DEF PurgeBaseline
    <2>3. QED
      BY <2>1, <2>2 DEF DiffNext
  <1>2. DiffTypeOK /\ [DiffNext]_diffVars => [Earned]_diffVars
    BY <1>1
  <1>3. DiffSpec => [][Earned]_diffVars
    BY <1>2, DiffTypes, PTL DEF DiffSpec
  <1>4. QED
    BY <1>3 DEF FalseAlarmsNeedAnOutage

-----------------------------------------------------------------------------
(* What a comparison must tell.                                            *)

LEMMA MovedIsTold ==
  ASSUME NEW old, NEW new, NEW f \in TellsGains,
         f \in NeedsBoth => old[f] # {} /\ new[f] # {}
  PROVE  /\ new[f] \ old[f] # {} => <<f, "gained">> \in Diff(old, new)
         /\ f \in TellsLosses /\ old[f] \ new[f] # {} =>
              <<f, "lost">> \in Diff(old, new)
  BY DEF Diff, Compared

\* Evidence that differs has another fingerprint, save for a count that stayed.
LEMMA HashSeparates ==
  ASSUME NEW c, NEW d, Hash(c) = Hash(d), NEW f \in Field \ {"certs"}
  PROVE  EvidenceOf(c)[f] = EvidenceOf(d)[f]
  BY DEF Hash, EvidenceOf

\* A field the comparison could look at.
Seen(f, c) ==
  /\ SourceOf[f] \in latest.up \intersect c.up
  /\ f \in NeedsBoth => latest.finds[f] # {} /\ c.finds[f] # {}

LEMMA CheckTells ==
  ASSUME NEW c \in Check, CheckTarget(c), kept, latest # NoneYet,
         NEW f \in TellsGains, Seen(f, c)
  PROVE  /\ c.finds[f] \ latest.finds[f] # {} => <<f, "gained">> \in alerts'
         /\ f \in TellsLosses /\ latest.finds[f] \ c.finds[f] # {} =>
              <<f, "lost">> \in alerts'
  <1> DEFINE old == EvidenceOf(latest)
             new == EvidenceOf(c)
  <1>1. f \in Field
    BY DEF TellsGains
  <1>2. old[f] = latest.finds[f] /\ new[f] = c.finds[f]
    BY <1>1, EvidenceFields DEF Seen
  <1>3. Hash(latest) = Hash(c) => old[f] = new[f]
    BY <1>1, HashSeparates DEF TellsGains
  <1>4. Hash(latest) # Hash(c) /\ Diff(old, new) # {} => alerts' = Diff(old, new)
    BY DEF CheckTarget
  <1> HIDE DEF old, new
  <1>5. /\ new[f] \ old[f] # {} => <<f, "gained">> \in Diff(old, new)
        /\ f \in TellsLosses /\ old[f] \ new[f] # {} =>
             <<f, "lost">> \in Diff(old, new)
    BY <1>2, MovedIsTold DEF Seen
  <1>6. QED
    BY <1>2, <1>3, <1>4, <1>5

\* What both checks could look at and the diff can tell is told: neither the
\* fingerprint nor another field of the check hides it.
THEOREM ChangesToldAlways == DiffSpec => ChangesAreTold
  <1> DEFINE Told ==
        kept /\ kept' /\ latest # NoneYet =>
          \A f \in TellsGains :
            LET was == latest.finds[f]
                is == latest'.finds[f]
                seen == /\ SourceOf[f] \in latest.up \intersect latest'.up
                        /\ f \in NeedsBoth => was # {} /\ is # {}
            IN  /\ seen /\ is \ was # {} => <<f, "gained">> \in alerts'
                /\ seen /\ f \in TellsLosses /\ was \ is # {} =>
                     <<f, "lost">> \in alerts'
  <1>1. DiffTypeOK /\ DiffNext => Told
    <2> SUFFICES ASSUME DiffTypeOK, DiffNext PROVE Told
      OBVIOUS
    <2>1. CASE MonitorChecks
      <3>1. PICK c \in Check : CheckTarget(c)
        BY <2>1, CheckFields
      <3>2. latest' = c
        BY <3>1 DEF CheckTarget
      <3>3. QED
        BY <3>1, <3>2, CheckTells DEF Seen
    <2>2. CASE PurgeBaseline
      BY <2>2 DEF PurgeBaseline
    <2>3. QED
      BY <2>1, <2>2 DEF DiffNext
  <1>2. DiffTypeOK /\ [DiffNext]_diffVars => [Told]_diffVars
    BY <1>1
  <1>3. DiffSpec => [][Told]_diffVars
    BY <1>2, DiffTypes, PTL DEF DiffSpec
  <1>4. QED
    BY <1>3 DEF ChangesAreTold

-----------------------------------------------------------------------------
(* Times in the order of the clock, and the window over them.              *)

Ordered(times) ==
  \A i, j \in DOMAIN times : i <= j => times[i] <= times[j]

\* A part of a sequence, one element longer.
LEMMA LongerSubSeq ==
  ASSUME NEW S, NEW s \in Seq(S), NEW k \in 1..Len(s), NEW l \in 1..k
  PROVE  SubSeq(s, l, k) = Append(SubSeq(s, l, k - 1), s[k])
  OBVIOUS

LEMMA NoSubSeq ==
  ASSUME NEW S, NEW s \in Seq(S), NEW k \in Nat, NEW l \in Nat, k < l
  PROVE  SubSeq(s, l, k) = <<>>
  OBVIOUS

\* The window is a suffix: the times from place m + 1 on.
LEMMA WithinIsSuffix ==
  ASSUME NEW times \in Seq(Nat), Ordered(times), NEW width \in Nat, NEW now \in Nat
  PROVE  \E m \in 0..Len(times) :
           /\ Within(times, width, now) = SubSeq(times, m + 1, Len(times))
           /\ \A i \in 1..m : times[i] + width < now
           /\ \A i \in m+1..Len(times) : times[i] + width >= now
  <1> DEFINE n == Len(times)
             Young == {i \in 1..n : times[i] + width >= now}
  <1>1. n \in Nat /\ \A i \in 1..n : times[i] \in Nat
    OBVIOUS
  <1>2. \E m \in 0..n : /\ \A i \in 1..m : times[i] + width < now
                        /\ \A i \in m+1..n : times[i] + width >= now
    <2>1. CASE Young = {}
      <3>1. \A i \in 1..n : times[i] + width < now
        BY <1>1, <2>1
      <3>2. QED
        BY <1>1, <3>1
    <2>2. CASE Young # {}
      <3>a. Young \in SUBSET Nat
        OBVIOUS
      <3>1. PICK l \in Young : \A i \in Young : l <= i
        <4> HIDE DEF Young
        <4> QED BY <2>2, <3>a, LeastNatural
      <3>2. \A i \in 1..l-1 : times[i] + width < now
        BY <1>1, <3>1
      <3>3. \A i \in l..n : times[i] + width >= now
        <4> TAKE i \in l..n
        <4>1. times[l] <= times[i]
          BY <1>1, <3>1 DEF Ordered
        <4>2. times[l] + width >= now /\ times[l] \in Nat /\ times[i] \in Nat
          BY <1>1, <3>1
        <4>3. QED
          BY <4>1, <4>2
      <3>4. l - 1 \in 0..n /\ (l - 1) + 1 = l
        BY <1>1
      <3>5. QED
        BY <3>2, <3>3, <3>4
    <2>3. QED
      BY <2>1, <2>2
  <1>3. PICK m \in 0..n : /\ \A i \in 1..m : times[i] + width < now
                          /\ \A i \in m+1..n : times[i] + width >= now
    BY <1>2
  <1> DEFINE S == Seq(Nat)
             f == [k \in 1..n |-> [s \in S |-> IF times[k] + width >= now
                                               THEN Append(s, times[k]) ELSE s]]
             Eq(h) == [k \in 0..n |->
                         IF k = 0 THEN <<>>
                         ELSE IF times[k] + width >= now
                              THEN Append(h[k - 1], times[k]) ELSE h[k - 1]]
             left == CHOOSE h : h = Eq(h)
             suffix == [k \in 0..n |-> SubSeq(times, m + 1, k)]
  <1>4. f \in [1..n -> [S -> S]] /\ <<>> \in S
    BY <1>1
  <1>5. suffix = Eq(suffix)
    <2>1. \A k \in 0..n : suffix[k] = SubSeq(times, m + 1, k)
      OBVIOUS
    <2>2. suffix[0] = <<>>
      BY <2>1
    <2>4. suffix = [k \in 0..n |-> suffix[k]]
      OBVIOUS
    <2> HIDE DEF suffix
    <2>3. ASSUME NEW k \in 1..n
          PROVE  suffix[k] = IF times[k] + width >= now
                             THEN Append(suffix[k - 1], times[k])
                             ELSE suffix[k - 1]
      <3>1. /\ suffix[k - 1] = SubSeq(times, m + 1, k - 1)
            /\ suffix[k] = SubSeq(times, m + 1, k)
        BY <1>1, <2>1
      <3>2. CASE k <= m
        <4>1. times[k] + width < now /\ times[k] \in Nat
          BY <1>1, <1>3, <3>2
        <4>a. k \in Nat /\ k - 1 \in Nat /\ m + 1 \in Nat /\ k < m + 1 /\ k - 1 < m + 1
          BY <1>1, <3>2
        <4>2. SubSeq(times, m + 1, k) = <<>> /\ SubSeq(times, m + 1, k - 1) = <<>>
          BY <4>a, NoSubSeq
        <4>3. ~(times[k] + width >= now)
          BY <4>1
        <4>4. suffix[k] = suffix[k - 1]
          BY <3>1, <4>2
        <4>5. QED
          BY <4>3, <4>4
      <3>3. CASE k > m
        <4>1. times[k] + width >= now
          BY <1>3, <3>3
        <4>2. SubSeq(times, m + 1, k) = Append(SubSeq(times, m + 1, k - 1), times[k])
          BY <1>1, <3>3, LongerSubSeq
        <4>3. QED
          BY <3>1, <4>1, <4>2
      <3>4. QED
        BY <3>2, <3>3
    <2>5. \A k \in 0..n : suffix[k] = Eq(suffix)[k]
      BY <1>1, <2>2, <2>3
    <2>6. Eq(suffix) = [k \in 0..n |-> Eq(suffix)[k]]
      OBVIOUS
    <2> HIDE DEF Eq
    <2>7. QED
      BY <2>4, <2>5, <2>6
  <1>6. left = Eq(left)
    BY <1>5
  <1>7. PICK g : /\ Walk(g, S, <<>>, n, f)
                 /\ \A h : Obeys(h, S, <<>>, n, f) => \A k \in 0..n : h[k] = g[k]
    <2> HIDE DEF f, S, n
    <2> QED BY <1>1, <1>4, Walks
  <1>8. ASSUME NEW h, h = Eq(h) PROVE h[n] = g[n]
    <2>1. h[0] = <<>>
      BY <1>1, <1>8
    <2>2. ASSUME NEW k \in 1..n
          PROVE  h[k] = IF times[k] + width >= now
                        THEN Append(h[k - 1], times[k]) ELSE h[k - 1]
      <3>1. h[k] = Eq(h)[k]
        <4> HIDE DEF Eq
        <4> QED BY <1>8
      <3>2. k \in 0..n /\ k # 0
        BY <1>1
      <3>3. QED
        BY <3>1, <3>2
    <2>3. Obeys(h, S, <<>>, n, f)
      BY <2>1, <2>2 DEF Obeys
    <2>4. n \in 0..n
      BY <1>1
    <2> HIDE DEF n, f, S
    <2>5. QED
      BY <1>7, <2>3, <2>4
  <1>9. Within(times, width, now) = left[n]
    BY DEF Within
  <1>10. left[n] = suffix[n]
    <2> HIDE DEF left, suffix, Eq, n
    <2> QED BY <1>5, <1>6, <1>8
  <1>11. suffix[n] = SubSeq(times, m + 1, n)
    BY <1>1
  <1> HIDE DEF left, suffix
  <1>12. QED
    BY <1>3, <1>9, <1>10, <1>11

-----------------------------------------------------------------------------
(* Health records and quarantine.                                         *)

\* A later time appended to ordered ones.
LEMMA OrderedAppend ==
  ASSUME NEW times \in Seq(Nat), Ordered(times), NEW now \in Nat,
         \A i \in DOMAIN times : times[i] <= now
  PROVE  /\ Append(times, now) \in Seq(Nat)
         /\ Ordered(Append(times, now))
         /\ Len(Append(times, now)) = Len(times) + 1
         /\ Append(times, now)[Len(times) + 1] = now
         /\ \A i \in 1..Len(times) : Append(times, now)[i] = times[i]
         /\ \A i \in DOMAIN Append(times, now) : Append(times, now)[i] <= now
  <1> DEFINE n == Len(times)
             more == Append(times, now)
  <1>1. /\ n \in Nat
        /\ DOMAIN times = 1..n
        /\ \A i \in 1..n : times[i] \in Nat
    OBVIOUS
  <1>2. /\ more \in Seq(Nat)
        /\ Len(more) = n + 1
        /\ DOMAIN more = 1..n+1
        /\ more[n + 1] = now
        /\ \A i \in 1..n : more[i] = times[i]
    OBVIOUS
  <1> HIDE DEF n, more
  <1>3. \A i \in 1..n+1 : i \in 1..n \/ i = n + 1
    BY <1>1
  <1>4. \A i \in DOMAIN more : more[i] <= now
    BY <1>1, <1>2, <1>3
  <1>5. Ordered(more)
    BY <1>1, <1>2, <1>3, <1>4 DEF Ordered
  <1>6. QED
    BY <1>2, <1>4, <1>5 DEF n, more

\* The times after place m.
LEMMA Suffix ==
  ASSUME NEW S, NEW s \in Seq(S), NEW m \in 0..Len(s)
  PROVE  /\ SubSeq(s, m + 1, Len(s)) \in Seq(S)
         /\ Len(SubSeq(s, m + 1, Len(s))) = Len(s) - m
         /\ \A i \in 1..Len(s)-m : SubSeq(s, m + 1, Len(s))[i] = s[m + i]
  OBVIOUS

\* A suffix of a suffix is one of the whole.
LEMMA SuffixOfSuffix ==
  ASSUME NEW S, NEW s \in Seq(S), NEW m \in 0..Len(s), NEW b \in 0..Len(s)-m
  PROVE  LET tail == SubSeq(s, m + 1, Len(s))
         IN  SubSeq(tail, b + 1, Len(tail)) = SubSeq(s, (m + b) + 1, Len(s))
  <1> DEFINE n == Len(s)
             tail == SubSeq(s, m + 1, n)
             one == SubSeq(tail, b + 1, n - m)
             two == SubSeq(s, (m + b) + 1, n)
  <1>1. n \in Nat /\ m + b \in 0..n /\ b \in 0..n-m
    OBVIOUS
  <1>2. /\ tail \in Seq(S) /\ Len(tail) = n - m
        /\ \A i \in 1..n-m : tail[i] = s[m + i]
    BY Suffix
  <1>3. /\ two \in Seq(S) /\ Len(two) = n - (m + b)
        /\ \A i \in 1..n-(m+b) : two[i] = s[(m + b) + i]
    BY <1>1, Suffix
  <1> HIDE DEF tail, two
  <1>4. /\ one \in Seq(S) /\ Len(one) = (n - m) - b
        /\ \A i \in 1..(n-m)-b : one[i] = tail[b + i]
    BY <1>1, <1>2, Suffix
  <1> HIDE DEF one, n
  <1>5. Len(one) = Len(two)
    BY <1>1, <1>3, <1>4
  <1>6. \A i \in 1..Len(one) : one[i] = two[i]
    <2> TAKE i \in 1..Len(one)
    <2>1. /\ i \in 1..(n-m)-b /\ i \in 1..n-(m+b) /\ b + i \in 1..n-m
          /\ m + (b + i) = (m + b) + i
      BY <1>1, <1>4
    <2>2. QED
      BY <1>2, <1>3, <1>4, <2>1
  <1>7. one = two
    BY <1>3, <1>4, <1>5, <1>6
  <1>8. QED
    BY <1>2, <1>7 DEF one, two, tail, n

\* Looking at the window again, at what an earlier look has left.
LEMMA WithinOfSuffix ==
  ASSUME NEW times \in Seq(Nat), Ordered(times), NEW width \in Nat, NEW now \in Nat,
         NEW m \in 0..Len(times), \A i \in 1..m : times[i] + width < now
  PROVE  \E l \in 0..Len(times) :
           /\ Within(SubSeq(times, m + 1, Len(times)), width, now) =
                SubSeq(times, l + 1, Len(times))
           /\ \A i \in 1..l : times[i] + width < now
           /\ \A i \in l+1..Len(times) : times[i] + width >= now
  <1> DEFINE n == Len(times)
             tail == SubSeq(times, m + 1, n)
  <1>1. /\ n \in Nat
        /\ DOMAIN times = 1..n
        /\ \A i \in 1..n : times[i] \in Nat
    OBVIOUS
  <1>2. /\ tail \in Seq(Nat)
        /\ Len(tail) = n - m
        /\ \A i \in 1..n-m : tail[i] = times[m + i]
    BY Suffix
  <1> HIDE DEF tail
  <1>3. Ordered(tail)
    <2> SUFFICES ASSUME NEW i \in 1..n-m, NEW j \in 1..n-m, i <= j
                 PROVE  tail[i] <= tail[j]
      <3>1. DOMAIN tail = 1..n-m
        BY <1>1, <1>2
      <3>2. QED
        BY <3>1 DEF Ordered
    <2>1. m + i \in 1..n /\ m + j \in 1..n /\ m + i <= m + j
      BY <1>1
    <2>2. QED
      BY <1>1, <1>2, <2>1 DEF Ordered
  <1>4. PICK b \in 0..Len(tail) :
          /\ Within(tail, width, now) = SubSeq(tail, b + 1, Len(tail))
          /\ \A i \in 1..b : tail[i] + width < now
          /\ \A i \in b+1..Len(tail) : tail[i] + width >= now
    BY <1>2, <1>3, WithinIsSuffix
  <1>5. m + b \in 0..n
    BY <1>1, <1>2
  <1>6. SubSeq(tail, b + 1, Len(tail)) = SubSeq(times, (m + b) + 1, n)
    <2>1. b \in 0..n-m
      BY <1>2
    <2>2. QED
      BY <2>1, SuffixOfSuffix DEF tail
  <1>7. \A i \in 1..m+b : times[i] + width < now
    <2> TAKE i \in 1..m+b
    <2>1. CASE i > m
      <3>1. i - m \in 1..b /\ i - m \in 1..n-m /\ m + (i - m) = i
        BY <1>1, <1>2, <2>1
      <3>2. QED
        BY <1>2, <1>4, <3>1
    <2>2. QED
      BY <2>1
  <1>8. \A i \in (m+b)+1..n : times[i] + width >= now
    <2> TAKE i \in (m+b)+1..n
    <2>1. i - m \in b+1..Len(tail) /\ i - m \in 1..n-m /\ m + (i - m) = i
      BY <1>1, <1>2
    <2>2. QED
      BY <1>2, <1>4, <2>1
  <1>9. QED
    BY <1>4, <1>5, <1>6, <1>7, <1>8 DEF tail

-----------------------------------------------------------------------------
(* The health tracker.                                                     *)

\* What the tracker of a plugin that is not quarantined remembers of the
\* failures (times): a suffix, and it dropped only what is too old by now.
Remembers(list, times, now) ==
  \E m \in 0..Len(times) :
    /\ list = SubSeq(times, m + 1, Len(times))
    /\ \A i \in 1..m : times[i] + WindowHours < now

Tracked(rec, times, now) ==
  /\ Ordered(times)
  /\ \A i \in DOMAIN times : times[i] <= now
  /\ rec.quarantined <=> Burst(times)
  /\ ~rec.quarantined => Remembers(rec.structural, times, now)

\* The inductive invariant of the health tracker.
HealthInvariant ==
  /\ HealthTypeOK
  /\ \A p \in PluginId : Tracked(health[p], history[p], hour)

\* A failure that arrives now.
LEMMA FailureCounted ==
  ASSUME NEW times \in Seq(Nat), Ordered(times), NEW now \in Nat,
         \A i \in DOMAIN times : times[i] <= now,
         NEW list, Remembers(list, times, now), ~Burst(times)
  PROVE  LET left == Within(Append(list, now), WindowHours, now)
         IN  /\ left \in Seq(Nat)
             /\ Remembers(left, Append(times, now), now)
             /\ Len(left) >= FailureThreshold <=> Burst(Append(times, now))
  <1> DEFINE n == Len(times)
             more == Append(times, now)
             left == Within(Append(list, now), WindowHours, now)
  <1>0. WindowHours \in Nat /\ FailureThreshold \in Nat /\ FailureThreshold >= 1
    BY HealthAssumption
  <1>1. /\ n \in Nat
        /\ DOMAIN times = 1..n
        /\ \A i \in 1..n : times[i] \in Nat
    OBVIOUS
  <1>2. /\ more \in Seq(Nat) /\ Ordered(more)
        /\ Len(more) = n + 1 /\ DOMAIN more = 1..n+1
        /\ more[n + 1] = now
        /\ \A i \in 1..n : more[i] = times[i]
        /\ \A i \in 1..n+1 : more[i] \in Nat
    <2>1. /\ more \in Seq(Nat) /\ Ordered(more)
          /\ Len(more) = n + 1
          /\ more[n + 1] = now
          /\ \A i \in 1..n : more[i] = times[i]
      BY OrderedAppend
    <2> HIDE DEF more
    <2>2. QED
      BY <1>1, <2>1
  <1>3. PICK m \in 0..n : /\ list = SubSeq(times, m + 1, n)
                          /\ \A i \in 1..m : times[i] + WindowHours < now
    BY DEF Remembers
  <1>4. Append(list, now) = SubSeq(more, m + 1, n + 1)
    <2>1. SubSeq(more, m + 1, n) = SubSeq(times, m + 1, n)
      BY <1>1
    <2>2. n + 1 \in 1..Len(more) /\ m + 1 \in 1..n+1 /\ (n + 1) - 1 = n
      BY <1>1, <1>2
    <2> HIDE DEF more
    <2>3. SubSeq(more, m + 1, n + 1) = Append(SubSeq(more, m + 1, n), more[n + 1])
      BY <1>2, <2>2, LongerSubSeq
    <2>4. QED
      BY <1>2, <1>3, <2>1, <2>3
  <1> HIDE DEF more, left
  <1>a. left = Within(Append(list, now), WindowHours, now)
    BY DEF left
  <1>5. PICK l \in 0..n+1 :
          /\ left = SubSeq(more, l + 1, n + 1)
          /\ \A i \in 1..l : more[i] + WindowHours < now
          /\ \A i \in l+1..n+1 : more[i] + WindowHours >= now
    <2>1. m \in 0..Len(more) /\ \A i \in 1..m : more[i] + WindowHours < now
      BY <1>1, <1>2, <1>3
    <2>2. \E l \in 0..Len(more) :
            /\ Within(SubSeq(more, m + 1, Len(more)), WindowHours, now) =
                 SubSeq(more, l + 1, Len(more))
            /\ \A i \in 1..l : more[i] + WindowHours < now
            /\ \A i \in l+1..Len(more) : more[i] + WindowHours >= now
      BY <1>0, <1>2, <2>1, WithinOfSuffix
    <2>3. QED
      BY <1>2, <1>4, <1>a, <2>2
  <1>6. left \in Seq(Nat) /\ Len(left) = n + 1 - l
    BY <1>1, <1>2, <1>5
  <1>7. Remembers(left, more, now)
    BY <1>2, <1>5 DEF Remembers
  <1>8. ASSUME Len(left) >= FailureThreshold PROVE Burst(more)
    <2> DEFINE i == n + 2 - FailureThreshold
    <2>1. i \in l+1..n+1 /\ i + FailureThreshold - 1 = n + 1
      BY <1>0, <1>1, <1>6, <1>8
    <2>2. more[i] + WindowHours >= now /\ i \in 1..n+1 /\ n + 1 \in 1..n+1
      BY <1>1, <1>5, <2>1
    <2> HIDE DEF i
    <2>3. QED
      BY <1>2, <2>1, <2>2 DEF Burst
  <1>9. ASSUME Burst(more) PROVE Len(left) >= FailureThreshold
    <2>1. PICK i \in 1..n+1 :
            /\ i + FailureThreshold - 1 \in 1..n+1
            /\ more[i + FailureThreshold - 1] <= more[i] + WindowHours
      BY <1>2, <1>9 DEF Burst
    <2>2. CASE i + FailureThreshold - 1 \in 1..n
      <3>1. i \in 1..n
        BY <1>0, <1>1, <2>2
      <3>2. Burst(times)
        BY <1>1, <1>2, <2>1, <2>2, <3>1 DEF Burst
      <3>3. QED
        BY <3>2
    <2>3. CASE i + FailureThreshold - 1 = n + 1
      <3>1. ~(more[i] + WindowHours < now)
        BY <1>0, <1>2, <2>1, <2>3
      <3>2. ~(i \in 1..l)
        BY <1>5, <3>1
      <3>3. QED
        BY <1>0, <1>1, <1>6, <2>3, <3>2
    <2>4. QED
      BY <1>1, <2>1, <2>2, <2>3
  <1>10. QED
    BY <1>6, <1>7, <1>8, <1>9 DEF left, more

\* More failures do not undo a burst.
LEMMA BurstStays ==
  ASSUME NEW times \in Seq(Nat), NEW now \in Nat, Burst(times)
  PROVE  Burst(Append(times, now))
  <1>1. PICK i \in DOMAIN times :
          /\ i + FailureThreshold - 1 \in DOMAIN times
          /\ times[i + FailureThreshold - 1] <= times[i] + WindowHours
    BY DEF Burst
  <1>2. \A j \in DOMAIN times :
          j \in DOMAIN Append(times, now) /\ Append(times, now)[j] = times[j]
    OBVIOUS
  <1>3. QED
    BY <1>1, <1>2 DEF Burst

LEMMA FreshHistory ==
  /\ <<>> \in Seq(Nat)
  /\ Ordered(<<>>)
  /\ ~Burst(<<>>)
  /\ DOMAIN <<>> = {}
  /\ \A now : Remembers(<<>>, <<>>, now)
  <1>1. <<>> \in Seq(Nat) /\ DOMAIN <<>> = {} /\ Len(<<>>) = 0
    OBVIOUS
  <1>2. \A now : Remembers(<<>>, <<>>, now)
    <2>1. SubSeq(<<>>, 0 + 1, 0) = <<>>
      OBVIOUS
    <2>2. QED
      BY <1>1, <2>1 DEF Remembers
  <1>3. QED
    BY <1>1, <1>2 DEF Ordered, Burst

\* A plugin without a history is tracked.
LEMMA FreshTracked ==
  ASSUME NEW rec \in HealthRecord, rec.quarantined = FALSE, rec.structural = <<>>,
         NEW now \in Nat
  PROVE  Tracked(rec, <<>>, now)
  BY FreshHistory DEF Tracked

LEMMA FreshIsRecord ==
  /\ FreshRecord \in HealthRecord
  /\ FreshRecord.quarantined = FALSE
  /\ FreshRecord.structural = <<>>
  BY FreshHistory DEF FreshRecord, HealthRecord

\* Nothing has failed yet.
LEMMA HealthInitially == HealthInit => HealthInvariant
  <1> SUFFICES ASSUME HealthInit PROVE HealthInvariant
    OBVIOUS
  <1>1. HealthTypeOK
    BY FreshIsRecord, FreshHistory DEF HealthInit, HealthTypeOK
  <1>2. QED
    BY <1>1, FreshIsRecord, FreshTracked DEF HealthInvariant, HealthInit

\* A later clock makes dropped failures no younger.
LEMMA TrackedLater ==
  ASSUME NEW times \in Seq(Nat), NEW now \in Nat, NEW later \in Nat, now <= later,
         NEW rec, Tracked(rec, times, now)
  PROVE  Tracked(rec, times, later)
  <1>1. \A i \in DOMAIN times : times[i] \in Nat /\ times[i] <= later
    BY DEF Tracked
  <1>2. ASSUME Remembers(rec.structural, times, now)
        PROVE  Remembers(rec.structural, times, later)
    <2>1. PICK m \in 0..Len(times) :
            /\ rec.structural = SubSeq(times, m + 1, Len(times))
            /\ \A i \in 1..m : times[i] + WindowHours < now
      BY <1>2 DEF Remembers
    <2>2. \A i \in 1..m : times[i] + WindowHours < later
      <3> TAKE i \in 1..m
      <3>1. i \in DOMAIN times
        OBVIOUS
      <3>2. times[i] \in Nat /\ WindowHours \in Nat
        BY <1>1, <3>1, HealthAssumption
      <3>3. QED
        BY <2>1, <3>2
    <2>3. QED
      BY <2>1, <2>2 DEF Remembers
  <1>3. QED
    BY <1>1, <1>2 DEF Tracked

\* A structural failure of a plugin, quarantined or not.
LEMMA TrackedFailure ==
  ASSUME NEW times \in Seq(Nat), NEW rec \in HealthRecord, hour \in Nat,
         Tracked(rec, times, hour)
  PROVE  LET new == MaybeQuarantine([rec EXCEPT !.total = @ + 1,
                                       !.structural = Append(@, hour)])
         IN  new \in HealthRecord /\ Tracked(new, Append(times, hour), hour)
  <1> DEFINE failed == [rec EXCEPT !.total = @ + 1,
                                   !.structural = Append(@, hour)]
             left == Within(Append(rec.structural, hour), WindowHours, hour)
             new == MaybeQuarantine(failed)
  <1>1. /\ failed \in HealthRecord
        /\ failed.quarantined = rec.quarantined
        /\ failed.structural = Append(rec.structural, hour)
    <2>1. rec.total + 1 \in Nat /\ Append(rec.structural, hour) \in Seq(Nat)
      BY DEF HealthRecord
    <2>2. failed = [rec EXCEPT !.total = rec.total + 1,
                               !.structural = Append(rec.structural, hour)]
      BY DEF HealthRecord
    <2>3. QED
      BY <2>1, <2>2 DEF HealthRecord
  <1>2. /\ Append(times, hour) \in Seq(Nat)
        /\ Ordered(Append(times, hour))
        /\ \A i \in DOMAIN Append(times, hour) : Append(times, hour)[i] <= hour
    BY OrderedAppend DEF Tracked
  <1> HIDE DEF failed
  <1>3. CASE rec.quarantined
    <2>1. new = failed
      BY <1>1, <1>3 DEF MaybeQuarantine
    <2>2. Burst(Append(times, hour))
      BY <1>3, BurstStays DEF Tracked
    <2>3. QED
      BY <1>1, <1>2, <1>3, <2>1, <2>2 DEF Tracked, failed
  <1>4. CASE ~rec.quarantined
    <2>1. Remembers(rec.structural, times, hour) /\ ~Burst(times)
      BY <1>4 DEF Tracked
    <2>2. /\ left \in Seq(Nat)
          /\ Remembers(left, Append(times, hour), hour)
          /\ Len(left) >= FailureThreshold <=> Burst(Append(times, hour))
      BY <2>1, FailureCounted DEF Tracked
    <2>3. new = [failed EXCEPT !.structural = left,
                               !.quarantined = Len(left) >= FailureThreshold]
      BY <1>1, <1>4 DEF MaybeQuarantine
    <2> HIDE DEF left, new
    <2>a. (Len(left) >= FailureThreshold) \in BOOLEAN
      OBVIOUS
    <2>4. /\ new \in HealthRecord
          /\ new.structural = left
          /\ new.quarantined <=> Len(left) >= FailureThreshold
      BY <1>1, <2>2, <2>3, <2>a DEF HealthRecord
    <2>5. QED
      BY <1>2, <2>2, <2>4 DEF Tracked, new, failed
  <1>5. QED
    BY <1>3, <1>4

\* A step that touches one plugin.
LEMMA OnePlugin ==
  ASSUME HealthInvariant, UNCHANGED <<adapters, hour>>, NEW p \in PluginId,
         NEW rec \in HealthRecord, NEW times \in Seq(Nat),
         health' = [health EXCEPT ![p] = rec],
         history' = [history EXCEPT ![p] = times],
         Tracked(rec, times, hour)
  PROVE  HealthInvariant'
  <1>1. HealthTypeOK'
    BY DEF HealthInvariant, HealthTypeOK
  <1>2. \A q \in PluginId : Tracked(health'[q], history'[q], hour)
    BY DEF HealthInvariant, HealthTypeOK
  <1>3. QED
    BY <1>1, <1>2 DEF HealthInvariant

\* Every call, run and advance of the clock keeps the records.
LEMMA HealthStep ==
  ASSUME HealthInvariant, [HealthNext]_healthVars
  PROVE  HealthInvariant'
  <1>0. /\ adapters \in [PluginId -> {"none", "default", "custom"}]
        /\ health \in [PluginId -> HealthRecord]
        /\ hour \in Nat
        /\ history \in [PluginId -> Seq(Nat)]
        /\ \A p \in PluginId : Tracked(health[p], history[p], hour)
    BY DEF HealthInvariant, HealthTypeOK
  <1>1. CASE /\ UNCHANGED <<health, hour, history>>
             /\ adapters' \in [PluginId -> {"none", "default", "custom"}]
    BY <1>0, <1>1 DEF HealthInvariant, HealthTypeOK
  <1>2. CASE UNCHANGED healthVars
    BY <1>0, <1>1, <1>2 DEF healthVars
  <1>3. ASSUME NEW p \in PluginId, NEW overwrite \in BOOLEAN,
               RegisterAdapter(p, overwrite)
        PROVE  HealthInvariant'
    BY <1>0, <1>1, <1>3 DEF RegisterAdapter
  <1>4. CASE RegisterDefaultAdapters
    BY <1>0, <1>1, <1>4 DEF RegisterDefaultAdapters
  <1>5. ASSUME NEW p \in PluginId, RecordSuccess(p) \/ RecordTransientFailure(p)
        PROVE  HealthInvariant'
    <2>1. PICK rec : /\ health' = [health EXCEPT ![p] = rec]
                     /\ \/ rec = [health[p] EXCEPT !.total = @ + 1,
                                                   !.successful = @ + 1]
                        \/ rec = [health[p] EXCEPT !.total = @ + 1,
                                                   !.transient = @ + 1]
      BY <1>0, <1>5, Zenon DEF RecordSuccess, RecordTransientFailure
    <2>a. health[p] \in HealthRecord
      BY <1>0
    <2>b. /\ health[p].total + 1 \in Nat
          /\ health[p].successful + 1 \in Nat
          /\ health[p].transient + 1 \in Nat
      BY <2>a DEF HealthRecord
    <2>2. /\ rec \in HealthRecord
          /\ rec.quarantined = health[p].quarantined
          /\ rec.structural = health[p].structural
      BY <2>1, <2>a, <2>b DEF HealthRecord
    <2>3. Tracked(rec, history[p], hour)
      BY <1>0, <2>2 DEF Tracked
    <2>4. /\ history' = [history EXCEPT ![p] = history[p]]
          /\ history[p] \in Seq(Nat)
          /\ UNCHANGED <<adapters, hour>>
      BY <1>0, <1>5 DEF RecordSuccess, RecordTransientFailure
    <2>5. QED
      BY <2>1, <2>2, <2>3, <2>4, OnePlugin
  <1>6. ASSUME NEW p \in PluginId, RecordStructuralFailure(p)
        PROVE  HealthInvariant'
    <2> DEFINE rec == MaybeQuarantine([health[p] EXCEPT !.total = @ + 1,
                                         !.structural = Append(@, hour)])
               times == Append(history[p], hour)
    <2>1. rec \in HealthRecord /\ Tracked(rec, times, hour)
      BY <1>0, TrackedFailure
    <2>2. /\ health' = [health EXCEPT ![p] = rec]
          /\ history' = [history EXCEPT ![p] = times]
          /\ UNCHANGED <<adapters, hour>>
      BY <1>0, <1>6 DEF RecordStructuralFailure
    <2>3. times \in Seq(Nat)
      BY <1>0
    <2> HIDE DEF rec, times
    <2>4. QED
      BY <2>1, <2>2, <2>3, OnePlugin
  <1>7. ASSUME NEW p \in PluginId, Reactivate(p)
        PROVE  HealthInvariant'
    <2> DEFINE rec == [health[p] EXCEPT !.quarantined = FALSE,
                                        !.structural = <<>>, !.transient = 0]
    <2>1. rec \in HealthRecord /\ rec.quarantined = FALSE /\ rec.structural = <<>>
      BY <1>0, FreshHistory DEF HealthRecord
    <2>2. /\ health' = [health EXCEPT ![p] = rec]
          /\ history' = [history EXCEPT ![p] = <<>>]
          /\ UNCHANGED <<adapters, hour>>
      BY <1>0, <1>7 DEF Reactivate
    <2> HIDE DEF rec
    <2>3. QED
      BY <1>0, <2>1, <2>2, FreshTracked, FreshHistory, OnePlugin
  <1>8. CASE RestartProcess
    <2>1. /\ health' = [p \in PluginId |-> FreshRecord]
          /\ history' = [p \in PluginId |-> <<>>]
          /\ hour' = hour
          /\ adapters' \in [PluginId -> {"none", "default", "custom"}]
      BY <1>8 DEF RestartProcess
    <2>2. HealthTypeOK'
      BY <1>0, <2>1, FreshIsRecord, FreshHistory DEF HealthTypeOK
    <2>3. QED
      BY <1>0, <2>1, <2>2, FreshIsRecord, FreshTracked DEF HealthInvariant
  <1>9. CASE HourPasses
    <2>1. /\ hour' \in Nat /\ hour <= hour'
          /\ UNCHANGED <<adapters, health, history>>
      BY <1>0, <1>9 DEF HourPasses
    <2>2. \A p \in PluginId : Tracked(health[p], history[p], hour')
      BY <1>0, <2>1, TrackedLater
    <2>3. QED
      BY <1>0, <2>1, <2>2 DEF HealthInvariant, HealthTypeOK
  <1>10. QED
    BY <1>2, <1>3, <1>4, <1>5, <1>6, <1>7, <1>8, <1>9 DEF HealthNext

\* A plugin is in quarantine exactly if its failures once came too fast.
THEOREM QuarantinesAreEarned == HealthSpec => [](HealthTypeOK /\ QuarantineIsEarned)
  <1>1. HealthInvariant => HealthTypeOK /\ QuarantineIsEarned
    BY DEF HealthInvariant, QuarantineIsEarned, Tracked
  <1>2. QED
    BY <1>1, HealthInitially, HealthStep, PTL DEF HealthSpec

-----------------------------------------------------------------------------
(* The rate limiter.                                                       *)

\* The admitted requests of a key that lie in the window ending at t.
InWindow(times, t) == {i \in DOMAIN times : times[i] <= t /\ t < times[i] + Window}

\* What the limiter keeps of the admitted requests (times): a suffix, and it
\* dropped only what is a window old by now.
Keeps(list, times, now) ==
  \E m \in 0..Len(times) :
    /\ list = SubSeq(times, m + 1, Len(times))
    /\ \A i \in 1..m : times[i] + Window < now + 1

Limited(times, limit) ==
  \A i \in DOMAIN times :
    i + limit \in DOMAIN times => times[i + limit] >= times[i] + Window

Admissions(list, times, gone, limit, now) ==
  /\ Ordered(times)
  /\ \A i \in DOMAIN times : times[i] <= now
  /\ Keeps(list, times, now)
  /\ Limited(times, limit)
  /\ \A t \in gone : Cardinality(InWindow(times, t)) >= limit

\* The inductive invariant of the limiter.
RateInvariant ==
  /\ RateTypeOK
  /\ \A k \in ClientPath :
       Admissions(requests[k], admitted[k], refused[k], Limit[k], clock)

\* The requests of a window are counted.
LEMMA InWindowIsFinite ==
  ASSUME NEW times \in Seq(Nat), NEW t
  PROVE  IsFiniteSet(InWindow(times, t)) /\ Cardinality(InWindow(times, t)) \in Nat
  <1>1. InWindow(times, t) \subseteq 1..Len(times)
    BY DEF InWindow
  <1>2. IsFiniteSet(1..Len(times))
    BY FS_Interval
  <1>3. QED
    BY <1>1, <1>2, FS_Subset, FS_CardinalityType

\* What the cleanup leaves: exactly the admitted requests of the last window.
LEMMA CleanedUp ==
  ASSUME NEW times \in Seq(Nat), Ordered(times), NEW now \in Nat,
         NEW list, Keeps(list, times, now)
  PROVE  \E l \in 0..Len(times) :
           /\ Within(list, Window, now + 1) = SubSeq(times, l + 1, Len(times))
           /\ \A i \in 1..l : times[i] + Window < now + 1
           /\ \A i \in l+1..Len(times) : times[i] + Window >= now + 1
  <1>1. PICK m \in 0..Len(times) :
          /\ list = SubSeq(times, m + 1, Len(times))
          /\ \A i \in 1..m : times[i] + Window < now + 1
    BY DEF Keeps
  <1>2. Window \in Nat /\ now + 1 \in Nat
    BY RateAssumption
  <1>3. QED
    BY <1>1, <1>2, WithinOfSuffix

\* A request admitted at or after the time of the cleanup.
LEMMA Admitted ==
  ASSUME NEW times \in Seq(Nat), NEW list, NEW gone, NEW limit \in Nat,
         NEW now \in Nat, Admissions(list, times, gone, limit, now),
         NEW later \in Nat, now <= later,
         Len(Within(list, Window, now + 1)) < limit
  PROVE  /\ Append(Within(list, Window, now + 1), later) \in Seq(Nat)
         /\ Admissions(Append(Within(list, Window, now + 1), later),
                       Append(times, later), gone, limit, later)
  <1> DEFINE n == Len(times)
             more == Append(times, later)
             left == Within(list, Window, now + 1)
  <1>0. Window \in Nat
    BY RateAssumption
  <1>1. /\ n \in Nat
        /\ DOMAIN times = 1..n
        /\ \A i \in 1..n : times[i] \in Nat /\ times[i] <= now
    BY DEF Admissions
  <1>2. /\ more \in Seq(Nat) /\ Ordered(more)
        /\ Len(more) = n + 1 /\ DOMAIN more = 1..n+1
        /\ more[n + 1] = later
        /\ \A i \in 1..n : more[i] = times[i]
        /\ \A i \in 1..n+1 : more[i] \in Nat /\ more[i] <= later
    <2>0. \A i \in DOMAIN times : times[i] <= later
      BY <1>1
    <2>1. /\ more \in Seq(Nat) /\ Ordered(more)
          /\ Len(more) = n + 1
          /\ more[n + 1] = later
          /\ \A i \in 1..n : more[i] = times[i]
          /\ \A i \in DOMAIN more : more[i] <= later
      BY <2>0, OrderedAppend DEF Admissions
    <2> HIDE DEF more, n
    <2>2. DOMAIN more = 1..n+1 /\ \A i \in 1..n+1 : more[i] \in Nat
      BY <1>1, <2>1
    <2>3. QED
      BY <1>1, <2>1, <2>2
  <1>3. PICK l \in 0..n :
          /\ left = SubSeq(times, l + 1, n)
          /\ \A i \in 1..l : times[i] + Window < now + 1
          /\ \A i \in l+1..n : times[i] + Window >= now + 1
    BY CleanedUp DEF Admissions
  <1>4. Append(left, later) = SubSeq(more, l + 1, n + 1)
    <2>1. SubSeq(more, l + 1, n) = SubSeq(times, l + 1, n)
      BY <1>1
    <2>2. n + 1 \in 1..Len(more) /\ l + 1 \in 1..n+1 /\ (n + 1) - 1 = n
      BY <1>1, <1>2
    <2> HIDE DEF more, left
    <2>3. SubSeq(more, l + 1, n + 1) = Append(SubSeq(more, l + 1, n), more[n + 1])
      BY <1>2, <2>2, LongerSubSeq
    <2>4. QED
      BY <1>2, <1>3, <2>1, <2>3
  <1>a. Len(left) = n - l /\ n - l < limit
    <2>1. Len(SubSeq(times, l + 1, n)) = n - l
      BY Suffix
    <2>2. QED
      BY <1>3, <2>1
  <1> HIDE DEF left, more, n
  <1>5. Append(left, later) \in Seq(Nat)
    <2>1. l \in 0..Len(more)
      BY <1>1, <1>2
    <2>2. QED
      BY <1>2, <1>4, <2>1, Suffix
  <1>6. Keeps(Append(left, later), more, later)
    <2>1. ASSUME NEW i \in 1..l PROVE more[i] + Window < later + 1
      <3>1. i \in 1..n
        BY <1>1
      <3>2. more[i] = times[i] /\ times[i] \in Nat /\ times[i] + Window < now + 1
        BY <1>1, <1>2, <1>3, <3>1
      <3>3. QED
        BY <1>0, <3>2
    <2>a. l \in 0..n+1
      BY <1>1
    <2>2. QED
      BY <1>2, <1>4, <2>1, <2>a DEF Keeps
  <1>7. Limited(more, limit)
    <2> SUFFICES ASSUME NEW i \in 1..n+1, i + limit \in 1..n+1
                 PROVE  more[i + limit] >= more[i] + Window
      BY <1>2 DEF Limited
    <2>1. i \in 1..n
      BY <1>1, <1>a
    <2>2. CASE i + limit \in 1..n
      <3>1. times[i + limit] >= times[i] + Window
        BY <1>1, <2>1, <2>2 DEF Admissions, Limited
      <3>2. QED
        BY <1>2, <2>1, <2>2, <3>1
    <2>3. CASE i + limit = n + 1
      <3>1. i \in 1..l
        BY <1>1, <1>a, <2>1, <2>3
      <3>2. times[i] + Window < now + 1 /\ times[i] \in Nat
        BY <1>1, <1>3, <2>1, <3>1
      <3>3. more[i] = times[i] /\ more[i + limit] = later
        BY <1>2, <2>1, <2>3
      <3>4. QED
        BY <1>0, <3>2, <3>3
    <2>4. i + limit \in 1..n \/ i + limit = n + 1
      BY <1>1
    <2>5. QED
      BY <2>2, <2>3, <2>4
  <1>8. ASSUME NEW t \in gone PROVE Cardinality(InWindow(more, t)) >= limit
    <2>1. InWindow(times, t) \subseteq InWindow(more, t)
      BY <1>1, <1>2 DEF InWindow
    <2>2. /\ IsFiniteSet(InWindow(more, t))
          /\ Cardinality(InWindow(more, t)) \in Nat
          /\ Cardinality(InWindow(times, t)) \in Nat
      BY <1>2, InWindowIsFinite
    <2>3. Cardinality(InWindow(times, t)) <= Cardinality(InWindow(more, t))
      BY <2>1, <2>2, FS_Subset
    <2>4. Cardinality(InWindow(times, t)) >= limit
      BY DEF Admissions
    <2>5. QED
      BY <2>2, <2>3, <2>4
  <1>9. QED
    BY <1>2, <1>5, <1>6, <1>7, <1>8 DEF Admissions, left, more, n

\* A request that is refused.
LEMMA Refused ==
  ASSUME NEW times \in Seq(Nat), NEW list, NEW gone, NEW limit \in Nat,
         NEW now \in Nat, Admissions(list, times, gone, limit, now),
         Len(Within(list, Window, now + 1)) >= limit
  PROVE  /\ Within(list, Window, now + 1) \in Seq(Nat)
         /\ Admissions(Within(list, Window, now + 1), times,
                       gone \union {now}, limit, now)
  <1> DEFINE n == Len(times)
             left == Within(list, Window, now + 1)
  <1>0. Window \in Nat
    BY RateAssumption
  <1>1. /\ n \in Nat
        /\ DOMAIN times = 1..n
        /\ \A i \in 1..n : times[i] \in Nat /\ times[i] <= now
    BY DEF Admissions
  <1>2. PICK l \in 0..n :
          /\ left = SubSeq(times, l + 1, n)
          /\ \A i \in 1..l : times[i] + Window < now + 1
          /\ \A i \in l+1..n : times[i] + Window >= now + 1
    BY CleanedUp DEF Admissions
  <1>3. left \in Seq(Nat) /\ Len(left) = n - l
    <2>1. /\ SubSeq(times, l + 1, n) \in Seq(Nat)
          /\ Len(SubSeq(times, l + 1, n)) = n - l
      BY Suffix
    <2>2. QED
      BY <1>2, <2>1
  <1>b. n - l >= limit
    BY <1>3
  <1> HIDE DEF left
  <1>4. Keeps(left, times, now)
    BY <1>2 DEF Keeps
  <1>5. InWindow(times, now) = (l + 1)..n
    <2>1. ASSUME NEW i \in 1..n
          PROVE  (times[i] <= now /\ now < times[i] + Window) <=> i \in (l + 1)..n
      BY <1>0, <1>1, <1>2
    <2>2. QED
      BY <1>1, <2>1 DEF InWindow
  <1>6. Cardinality(InWindow(times, now)) = n - l
    <2>a. l + 1 \in Int /\ n \in Int
      BY <1>1
    <2> HIDE DEF n
    <2>1. Cardinality((l + 1)..n) = IF l + 1 > n THEN 0 ELSE n - (l + 1) + 1
      BY <2>a, FS_Interval
    <2>2. QED
      BY <1>1, <1>5, <2>1
  <1>7. QED
    BY <1>3, <1>4, <1>6, <1>b DEF Admissions, left

LEMMA NoAdmissions ==
  ASSUME NEW limit \in Nat, NEW now \in Nat
  PROVE  Admissions(<<>>, <<>>, {}, limit, now)
  <1>1. SubSeq(<<>>, 0 + 1, 0) = <<>> /\ Len(<<>>) = 0
    OBVIOUS
  <1>2. Keeps(<<>>, <<>>, now)
    BY <1>1 DEF Keeps
  <1>3. QED
    BY <1>2, FreshHistory DEF Admissions, Limited

\* Nobody has made a request.
LEMMA RateInitially == RateInit => RateInvariant
  <1> SUFFICES ASSUME RateInit PROVE RateInvariant
    OBVIOUS
  <1>1. RateTypeOK
    BY FreshHistory DEF RateInit, RateTypeOK, NoRequests
  <1>2. ASSUME NEW k \in ClientPath
        PROVE  Admissions(requests[k], admitted[k], refused[k], Limit[k], clock)
    BY NoAdmissions, RateAssumption DEF RateInit, NoRequests
  <1>3. QED
    BY <1>1, <1>2 DEF RateInvariant

\* Keeping the list without a cleanup while the clock advances.
LEMMA AdmissionsLater ==
  ASSUME NEW times \in Seq(Nat), NEW list, NEW gone, NEW limit \in Nat,
         NEW now \in Nat, Admissions(list, times, gone, limit, now),
         NEW later \in Nat, now <= later
  PROVE  Admissions(list, times, gone, limit, later)
  <1>1. \A i \in DOMAIN times : times[i] \in Nat /\ times[i] <= later
    BY DEF Admissions
  <1>2. Keeps(list, times, later)
    <2>1. PICK m \in 0..Len(times) :
            /\ list = SubSeq(times, m + 1, Len(times))
            /\ \A i \in 1..m : times[i] + Window < now + 1
      BY DEF Admissions, Keeps
    <2>2. ASSUME NEW i \in 1..m PROVE times[i] + Window < later + 1
      <3>1. i \in DOMAIN times
        OBVIOUS
      <3>2. times[i] \in Nat /\ Window \in Nat
        BY <1>1, <3>1, RateAssumption
      <3>3. QED
        BY <2>1, <3>2
    <2>3. QED
      BY <2>1, <2>2 DEF Keeps
  <1>3. QED
    BY <1>1, <1>2 DEF Admissions

\* Every request and every advance of the clock keeps the windows.
LEMMA RateStep ==
  ASSUME RateInvariant, [RateNext]_rateVars
  PROVE  RateInvariant'
  <1>0. /\ requests \in [ClientPath -> Seq(Nat)]
        /\ clock \in Nat
        /\ admitted \in [ClientPath -> Seq(Nat)]
        /\ refused \in [ClientPath -> SUBSET Nat]
        /\ Limit \in [ClientPath -> Nat]
        /\ \A k \in ClientPath :
             Admissions(requests[k], admitted[k], refused[k], Limit[k], clock)
    BY RateAssumption DEF RateInvariant, RateTypeOK
  <1>1. CASE UNCHANGED rateVars
    BY <1>0, <1>1 DEF rateVars, RateInvariant, RateTypeOK
  <1>2. ASSUME NEW k \in ClientPath, Admit(k) PROVE RateInvariant'
    <2>1. PICK now \in clock .. MaxTime :
            /\ clock' = now
            /\ requests' = [requests EXCEPT ![k] = Append(Cleaned(k), now)]
            /\ admitted' = [admitted EXCEPT ![k] = Append(admitted[k], now)]
            /\ refused' = refused
            /\ Len(Cleaned(k)) < Limit[k]
      BY <1>0, <1>2 DEF Admit
    <2>2. now \in Nat /\ clock <= now
      BY <1>0, <2>1, RateAssumption
    <2>3. /\ Append(Cleaned(k), now) \in Seq(Nat)
          /\ Admissions(Append(Cleaned(k), now), Append(admitted[k], now),
                        refused[k], Limit[k], now)
      BY <1>0, <2>1, <2>2, Admitted DEF Cleaned
    <2>4. ASSUME NEW j \in ClientPath
          PROVE  Admissions(requests'[j], admitted'[j], refused'[j], Limit[j], now)
      <3>1. CASE j = k
        BY <1>0, <2>1, <2>3, <3>1
      <3>2. CASE j # k
        <4>1. requests'[j] = requests[j] /\ admitted'[j] = admitted[j]
          BY <1>0, <2>1, <3>2
        <4>2. QED
          BY <1>0, <2>1, <2>2, <4>1, AdmissionsLater
      <3>3. QED
        BY <3>1, <3>2
    <2>5. RateTypeOK'
      BY <1>0, <2>1, <2>2, <2>3 DEF RateTypeOK
    <2>6. QED
      BY <2>1, <2>4, <2>5 DEF RateInvariant
  <1>3. ASSUME NEW k \in ClientPath, RefuseRequest(k) PROVE RateInvariant'
    <2>1. /\ Len(Cleaned(k)) >= Limit[k]
          /\ requests' = [requests EXCEPT ![k] = Cleaned(k)]
          /\ refused' = [refused EXCEPT ![k] = refused[k] \union {clock}]
          /\ clock' = clock
          /\ admitted' = admitted
      BY <1>0, <1>3 DEF RefuseRequest
    <2>2. /\ Cleaned(k) \in Seq(Nat)
          /\ Admissions(Cleaned(k), admitted[k], refused[k] \union {clock},
                        Limit[k], clock)
      BY <1>0, <2>1, Refused DEF Cleaned
    <2>3. RateTypeOK'
      BY <1>0, <2>1, <2>2 DEF RateTypeOK
    <2>4. \A j \in ClientPath :
            Admissions(requests'[j], admitted'[j], refused'[j], Limit[j], clock)
      BY <1>0, <2>1, <2>2
    <2>5. QED
      BY <2>1, <2>3, <2>4 DEF RateInvariant
  <1>4. CASE ClockTicks
    <2>1. /\ clock' \in Nat /\ clock <= clock'
          /\ UNCHANGED <<requests, admitted, refused>>
      BY <1>0, <1>4 DEF ClockTicks
    <2>2. \A k \in ClientPath :
            Admissions(requests[k], admitted[k], refused[k], Limit[k], clock')
      BY <1>0, <2>1, AdmissionsLater
    <2>3. QED
      BY <1>0, <2>1, <2>2 DEF RateInvariant, RateTypeOK
  <1>5. CASE RestartApi
    <2>1. /\ requests' = [k \in ClientPath |-> <<>>]
          /\ admitted' = [k \in ClientPath |-> <<>>]
          /\ refused' = [k \in ClientPath |-> {}]
          /\ clock' = clock
      BY <1>5 DEF RestartApi, NoRequests
    <2>2. RateTypeOK'
      BY <1>0, <2>1, FreshHistory DEF RateTypeOK
    <2>3. \A k \in ClientPath :
            Admissions(requests'[k], admitted'[k], refused'[k], Limit[k], clock)
      BY <1>0, <2>1, NoAdmissions
    <2>4. QED
      BY <2>1, <2>2, <2>3 DEF RateInvariant
  <1>6. QED
    BY <1>1, <1>2, <1>3, <1>4, <1>5 DEF RateNext

\* For every limit, window and number of clients, no window holds more
\* admitted requests than its limit, and no request is refused early.
THEOREM WindowsAreKept == RateSpec => [](RateTypeOK /\ WindowsHoldTheLimit)
  <1>1. RateInvariant => RateTypeOK /\ WindowsHoldTheLimit
    BY DEF RateInvariant, WindowsHoldTheLimit, Admissions, Limited, InWindow
  <1>2. QED
    BY <1>1, RateInitially, RateStep, PTL DEF RateSpec

-----------------------------------------------------------------------------
(* The redirect chain.                                                     *)

Place == Url \union {"final", "raises"}

\* A path follows the redirects: it goes on only from a URL that the guard
\* accepts, and ends otherwise.
Leads(path, redirects) ==
  \A k \in Nat : path[k + 1] = IF path[k] \in Url \ RefusedUrl
                               THEN redirects[path[k]] ELSE "final"

\* The recursion of Beyond, as equations.
LEMMA BeyondSteps ==
  ASSUME answers \in [Url -> Url \union {"final", "raises"}], NEW url \in Url
  PROVE  \E path \in [Nat -> Place] :
           /\ path[0] = url
           /\ Leads(path, answers)
           /\ \A n \in Nat : Beyond(url, n) = path[n]
  <1> DEFINE step == [s \in Place |-> IF s \in Url \ RefusedUrl
                                      THEN answers[s] ELSE "final"]
             F == [k \in Nat |-> step]
  <1>1. step \in [Place -> Place] /\ url \in Place
    BY DEF Place
  <1>2. F \in [Nat -> [Place -> Place]]
    BY <1>1
  <1>3. PICK g : IsIteration(g, Place, url, F)
    <2> HIDE DEF F
    <2> QED BY <1>1, <1>2, Iterates
  <1>4. /\ g \in [Nat -> Place]
        /\ g[0] = url
        /\ \A k \in Nat : g[k + 1] = step[g[k]]
    <2>1. \A k \in Nat : F[k + 1] = step
      OBVIOUS
    <2> HIDE DEF F, step
    <2>2. QED
      BY <1>3, <2>1 DEF IsIteration
  <1>5. Leads(g, answers)
    BY <1>4 DEF Leads
  <1>6. ASSUME NEW n \in Nat PROVE Beyond(url, n) = g[n]
    <2> DEFINE f == [k \in 1..n |-> step]
               Eq(h) == [k \in 0..n |->
                           IF k = 0 THEN url
                           ELSE IF h[k - 1] \in Url \ RefusedUrl
                                THEN answers[h[k - 1]] ELSE "final"]
               place == CHOOSE h : h = Eq(h)
               upto == [k \in 0..n |-> g[k]]
    <2>1. \A k \in 1..n : k - 1 \in Nat /\ (k - 1) + 1 = k /\ k - 1 \in 0..n /\ k \in 0..n
      OBVIOUS
    <2>2. upto = Eq(upto)
      <3>1. upto[0] = url
        <4>1. 0 \in 0..n
          OBVIOUS
        <4> HIDE DEF step, F, f, Eq, place
        <4>2. QED
          BY <1>4, <4>1
      <3>2. ASSUME NEW k \in 1..n
            PROVE  upto[k] = IF upto[k - 1] \in Url \ RefusedUrl
                             THEN answers[upto[k - 1]] ELSE "final"
        <4>1. upto[k] = g[k] /\ upto[k - 1] = g[k - 1] /\ g[k] = step[g[k - 1]]
          <5> HIDE DEF step
          <5> QED BY <1>4, <2>1
        <4>2. g[k - 1] \in Place
          BY <1>4, <2>1
        <4>3. QED
          BY <4>1, <4>2
      <3>3. upto = [k \in 0..n |-> upto[k]]
        OBVIOUS
      <3> HIDE DEF upto
      <3>4. \A k \in 0..n : upto[k] = Eq(upto)[k]
        BY <3>1, <3>2
      <3>5. Eq(upto) = [k \in 0..n |-> Eq(upto)[k]]
        OBVIOUS
      <3> HIDE DEF Eq
      <3>6. QED
        BY <3>3, <3>4, <3>5
    <2>3. place = Eq(place)
      BY <2>2
    <2>4. f \in [1..n -> [Place -> Place]]
      BY <1>1
    <2>5. PICK w : /\ Walk(w, Place, url, n, f)
                   /\ \A h : Obeys(h, Place, url, n, f) => \A k \in 0..n : h[k] = w[k]
      <3>1. url \in Place
        BY DEF Place
      <3> HIDE DEF f
      <3>2. QED
        BY <2>4, <3>1, Walks
    <2>6. ASSUME NEW h, h = Eq(h) PROVE h[n] = w[n]
      <3>1. h[0] = url
        BY <2>6
      <3>2. ASSUME NEW k \in 1..n, h[k - 1] \in Place
            PROVE  h[k] = f[k][h[k - 1]]
        <4>1. h[k] = Eq(h)[k]
          <5> HIDE DEF Eq
          <5> QED BY <2>6
        <4>2. k \in 0..n /\ k # 0
          OBVIOUS
        <4>3. QED
          BY <3>2, <4>1, <4>2
      <3>3. Obeys(h, Place, url, n, f)
        BY <3>1, <3>2 DEF Obeys
      <3>4. n \in 0..n
        OBVIOUS
      <3> HIDE DEF f
      <3>5. QED
        BY <2>5, <3>3, <3>4
    <2>7. Beyond(url, n) = place[n]
      BY DEF Beyond
    <2>8. place[n] = upto[n]
      <3> HIDE DEF place, upto, Eq
      <3> QED BY <2>2, <2>3, <2>6
    <2>9. upto[n] = g[n]
      OBVIOUS
    <2> HIDE DEF place, upto
    <2>10. QED
      BY <2>7, <2>8, <2>9
  <1>7. QED
    BY <1>4, <1>5, <1>6

\* A path that has ended stays at no URL.
LEMMA PathsEnd ==
  ASSUME NEW path \in [Nat -> Place], NEW redirects, Leads(path, redirects),
         NEW n \in Nat, path[n] \notin Url \ RefusedUrl
  PROVE  \A k \in Nat : k > n => path[k] = "final"
  <1> DEFINE T == {k \in Nat : path[n + k + 1] = "final"}
  <1>0. "final" \notin Url
    BY RedirectAssumption
  <1>1. 0 \in T
    BY DEF Leads
  <1>2. ASSUME NEW k \in Nat, k \in T PROVE k + 1 \in T
    <2>1. path[(n + k + 1) + 1] = "final"
      BY <1>0, <1>2 DEF Leads
    <2>2. n + (k + 1) + 1 = (n + k + 1) + 1
      OBVIOUS
    <2>3. QED
      BY <2>1, <2>2
  <1>3. \A k \in Nat : k \in T
    <2> HIDE DEF T
    <2> QED BY <1>1, <1>2, NaturalsBySteps
  <1>4. ASSUME NEW k \in Nat, k > n PROVE path[k] = "final"
    <2>1. k - (n + 1) \in Nat /\ n + (k - (n + 1)) + 1 = k
      BY <1>4
    <2>2. k - (n + 1) \in T
      BY <1>3, <2>1
    <2>3. QED
      BY <2>1, <2>2
  <1>5. QED
    BY <1>4

\* Where the walk is after the requests of a chain: it has followed the path,
\* has been nowhere twice, and the guard has accepted where it is.
Walked(steps, at, seen, path) ==
  /\ Len(steps) <= MaxHops
  /\ \A i \in 1..Len(steps) : steps[i] = Step(path[i - 1], "answered")
  /\ at = path[Len(steps)]
  /\ \A k \in 0..Len(steps) : path[k] \in Url \ RefusedUrl
  /\ \A k, m \in 0..Len(steps)-1 : path[k] = path[m] => k = m
  /\ seen = {path[k] : k \in 0..Len(steps)-1}

Told(steps, path) ==
  LET Requested == {i \in DOMAIN steps : steps[i].status = "answered"}
  IN  /\ \A i, j \in Requested : steps[i].url = steps[j].url => i = j
      /\ (\E i \in DOMAIN steps : steps[i].status = "LOOP_DETECTED") <=>
           \E n \in 1 .. MaxHops - 1 : \E m \in 0 .. n - 1 :
             path[n] \in Url /\ path[n] = path[m]

Path(url) == [k \in Nat |-> Beyond(url, k)]

\* The inductive invariant of a walk along the redirects.
RedirectInvariant ==
  /\ RedirectTypeOK
  /\ walk = "ready" => chain = <<>> /\ visited = {}
  /\ walk = "walking" => \E start \in Url : Walked(chain, current, visited, Path(start))
  /\ walk = "reported" =>
       /\ chain[1].url \in Url
       /\ Told(chain, Path(chain[1].url))

\* The path from a URL is a path.
LEMMA PathLeads ==
  ASSUME answers \in [Url -> Url \union {"final", "raises"}], NEW url \in Url
  PROVE  /\ Path(url) \in [Nat -> Place]
         /\ Path(url)[0] = url
         /\ Leads(Path(url), answers)
  <1>1. PICK path \in [Nat -> Place] :
          /\ path[0] = url
          /\ Leads(path, answers)
          /\ \A n \in Nat : Beyond(url, n) = path[n]
    BY BeyondSteps
  <1>2. Path(url) = path
    BY <1>1 DEF Path
  <1>3. QED
    BY <1>1, <1>2

\* An entry more.
LEMMA ChainGrows ==
  ASSUME NEW steps \in Seq([url : Url, status : Status]), NEW at \in Url,
         NEW answer \in Status
  PROVE  /\ Append(steps, Step(at, answer)) \in Seq([url : Url, status : Status])
         /\ Len(Append(steps, Step(at, answer))) = Len(steps) + 1
         /\ DOMAIN Append(steps, Step(at, answer)) = 1..Len(steps)+1
         /\ Append(steps, Step(at, answer))[Len(steps) + 1] = Step(at, answer)
         /\ \A i \in 1..Len(steps) : Append(steps, Step(at, answer))[i] = steps[i]
  <1>1. Step(at, answer) \in [url : Url, status : Status]
    BY DEF Step
  <1>2. QED
    BY <1>1

\* No walk has begun.
LEMMA RedirectInitially == RedirectInit => RedirectInvariant
  <1> SUFFICES ASSUME RedirectInit PROVE RedirectInvariant
    OBVIOUS
  <1>1. <<>> \in Seq([url : Url, status : Status])
    OBVIOUS
  <1>2. QED
    BY <1>1 DEF RedirectInit, RedirectInvariant, RedirectTypeOK

\* A report whose loop entry names a place the walk has been to.
LEMMA LoopTold ==
  ASSUME NEW path \in [Nat -> Place], NEW redirects, Leads(path, redirects),
         NEW steps \in Seq([url : Url, status : Status]), NEW at \in Url, NEW seen,
         Walked(steps, at, seen, path), at \in seen, Len(steps) < MaxHops
  PROVE  LET told == Append(steps, Step(at, "LOOP_DETECTED"))
         IN  told[1].url = path[0] /\ Told(told, path)
  <1> DEFINE l == Len(steps)
             told == Append(steps, Step(at, "LOOP_DETECTED"))
  <1>1. l \in Nat /\ MaxHops \in Nat
    BY RedirectAssumption
  <1>2. /\ DOMAIN told = 1..l+1
        /\ told[l + 1] = Step(at, "LOOP_DETECTED")
        /\ \A i \in 1..l : told[i] = steps[i]
    BY ChainGrows DEF Status
  <1> HIDE DEF l, told
  <1>3. /\ \A i \in 1..l : steps[i] = Step(path[i - 1], "answered")
        /\ at = path[l]
        /\ \A k, m \in 0..l-1 : path[k] = path[m] => k = m
        /\ seen = {path[k] : k \in 0..l-1}
        /\ l < MaxHops
    BY DEF Walked, l
  <1>4. PICK m \in 0..l-1 : path[m] = path[l]
    BY <1>3
  <1>5. \A i \in 1..l : told[i].status = "answered" /\ told[i].url = path[i - 1]
    <2> TAKE i \in 1..l
    <2>1. told[i] = Step(path[i - 1], "answered")
      BY <1>2, <1>3
    <2>2. QED
      BY <2>1 DEF Step
  <1>6. told[l + 1].status = "LOOP_DETECTED"
    BY <1>2 DEF Step
  <1>7. told[1].url = path[0]
    BY <1>1, <1>4, <1>5
  <1>8. ASSUME NEW i \in 1..l+1, NEW j \in 1..l+1, told[i].status = "answered",
               told[j].status = "answered", told[i].url = told[j].url
        PROVE  i = j
    <2>1. i \in 1..l /\ j \in 1..l
      BY <1>1, <1>6, <1>8
    <2>2. i - 1 \in 0..l-1 /\ j - 1 \in 0..l-1 /\ path[i - 1] = path[j - 1]
      BY <1>1, <1>5, <1>8, <2>1
    <2>3. i - 1 = j - 1
      BY <1>3, <2>2
    <2>4. QED
      BY <2>1, <2>3
  <1>9. l \in 1..MaxHops-1 /\ l + 1 \in 1..l+1
    BY <1>1, <1>3, <1>4
  <1>10. path[l] \in Url
    BY <1>3
  <1>11. Told(told, path)
    BY <1>2, <1>4, <1>6, <1>8, <1>9, <1>10 DEF Told
  <1>12. QED
    BY <1>7, <1>11 DEF told

\* A report without a loop entry: it has n requests at different places of the
\* path, and then the path is over or the requests are exhausted.
Straight(told, n, path) ==
  /\ DOMAIN told \in {1..n, 1..n+1}
  /\ \A i \in 1..n : told[i].url = path[i - 1] /\ told[i].status # "LOOP_DETECTED"
  /\ n + 1 \in DOMAIN told => told[n + 1].status = "BLOCKED_SSRF"
  /\ \A k \in 0..n-1 : path[k] \in Url \ RefusedUrl
  /\ \A k, m \in 0..n-1 : path[k] = path[m] => k = m
  /\ n = MaxHops \/ path[n] \notin Url \ RefusedUrl

\* It tells the truth.
LEMMA NoLoopTold ==
  ASSUME NEW path \in [Nat -> Place], NEW redirects, Leads(path, redirects),
         NEW n \in 1..MaxHops, NEW told, Straight(told, n, path)
  PROVE  told[1].url = path[0] /\ Told(told, path)
  <1>0. /\ DOMAIN told \in {1..n, 1..n+1}
        /\ \A i \in 1..n : told[i].url = path[i - 1] /\ told[i].status # "LOOP_DETECTED"
        /\ n + 1 \in DOMAIN told => told[n + 1].status = "BLOCKED_SSRF"
        /\ \A k \in 0..n-1 : path[k] \in Url \ RefusedUrl
        /\ \A k, m \in 0..n-1 : path[k] = path[m] => k = m
        /\ n = MaxHops \/ path[n] \notin Url \ RefusedUrl
    BY DEF Straight
  <1>1. n \in Nat /\ n >= 1 /\ MaxHops \in Nat
    BY RedirectAssumption
  <1>2. told[1].url = path[0]
    BY <1>0, <1>1
  <1>3. ASSUME NEW i \in DOMAIN told PROVE i \in 1..n \/ told[i].status = "BLOCKED_SSRF"
    <2>1. i \in 1..n \/ i = n + 1
      BY <1>0, <1>1
    <2>2. QED
      BY <1>0, <2>1
  <1>4. ASSUME NEW i \in DOMAIN told, NEW j \in DOMAIN told,
               told[i].status = "answered", told[j].status = "answered",
               told[i].url = told[j].url
        PROVE  i = j
    <2>1. i \in 1..n /\ j \in 1..n
      BY <1>0, <1>3, <1>4
    <2>2. i - 1 \in 0..n-1 /\ j - 1 \in 0..n-1 /\ path[i - 1] = path[j - 1]
      BY <1>0, <1>1, <1>4, <2>1
    <2>3. i - 1 = j - 1
      BY <1>0, <2>2
    <2>4. QED
      BY <2>1, <2>3
  <1>5. ~ \E i \in DOMAIN told : told[i].status = "LOOP_DETECTED"
    BY <1>0, <1>3
  <1>6. ASSUME NEW k \in 1..MaxHops-1, NEW m \in 0..k-1, path[k] \in Url,
               path[k] = path[m]
        PROVE  FALSE
    <2>1. k \in Nat /\ m \in Nat /\ m < k /\ k < MaxHops
      BY <1>0, <1>1
    <2>2. CASE k < n
      <3>1. k \in 0..n-1 /\ m \in 0..n-1
        BY <1>0, <1>1, <2>1, <2>2
      <3>2. k = m
        BY <1>0, <1>6, <3>1
      <3>3. QED
        BY <2>1, <3>2
    <2>3. CASE k = n
      <3>1. path[n] \notin Url \ RefusedUrl
        BY <1>0, <1>1, <2>1, <2>3
      <3>2. m \in 0..n-1
        BY <1>0, <1>1, <2>1, <2>3
      <3>3. path[m] \in Url \ RefusedUrl
        BY <1>0, <3>2
      <3>4. QED
        BY <1>6, <2>3, <3>1, <3>3
    <2>4. CASE k > n
      <3>1. path[n] \notin Url \ RefusedUrl
        BY <1>0, <1>1, <2>1, <2>4
      <3>2. path[k] = "final"
        BY <1>0, <1>1, <2>1, <2>4, <3>1, PathsEnd
      <3>3. QED
        BY <1>6, <3>2, RedirectAssumption
    <2>5. QED
      BY <1>0, <1>1, <2>1, <2>2, <2>3, <2>4
  <1>7. Told(told, path)
    BY <1>4, <1>5, <1>6 DEF Told
  <1>8. QED
    BY <1>2, <1>7

\* The walk goes on at the next place of the path.
GoesOn(l, more, at, seen, path, next) ==
  /\ l \in Nat
  /\ at = path[l]
  /\ l + 1 \in 1..MaxHops
  /\ path[l + 1] = next
  /\ Len(more) = l + 1
  /\ \A i \in 1..l+1 : more[i] = Step(path[i - 1], "answered")
  /\ \A k \in 0..l : path[k] \in Url \ RefusedUrl
  /\ \A k, m \in 0..l : path[k] = path[m] => k = m
  /\ seen \union {at} = {path[k] : k \in 0..l}

\* A walk that goes on stays on its path.
LEMMA WalkedOn ==
  ASSUME NEW path \in [Nat -> Place], NEW redirects, Leads(path, redirects),
         NEW steps \in Seq([url : Url, status : Status]), NEW at \in Url, NEW seen,
         Walked(steps, at, seen, path), at \notin seen, Len(steps) < MaxHops
  PROVE  GoesOn(Len(steps), Append(steps, Step(at, "answered")), at, seen, path,
                redirects[at])
  <1> DEFINE l == Len(steps)
             more == Append(steps, Step(at, "answered"))
  <1>1. l \in Nat /\ MaxHops \in Nat
    BY RedirectAssumption
  <1>2. /\ Len(more) = l + 1
        /\ more[l + 1] = Step(at, "answered")
        /\ \A i \in 1..l : more[i] = steps[i]
    BY ChainGrows DEF Status
  <1> HIDE DEF l, more
  <1>3. /\ \A i \in 1..l : steps[i] = Step(path[i - 1], "answered")
        /\ at = path[l]
        /\ \A k \in 0..l : path[k] \in Url \ RefusedUrl
        /\ \A k, m \in 0..l-1 : path[k] = path[m] => k = m
        /\ seen = {path[k] : k \in 0..l-1}
        /\ l < MaxHops
    BY DEF Walked, l
  <1>4. l + 1 \in 1..MaxHops
    BY <1>1, <1>3
  <1>5. path[l + 1] = redirects[at]
    BY <1>1, <1>3 DEF Leads
  <1>6. \A i \in 1..l+1 : more[i] = Step(path[i - 1], "answered")
    <2> TAKE i \in 1..l+1
    <2>1. CASE i \in 1..l
      BY <1>2, <1>3, <2>1
    <2>2. CASE i = l + 1
      BY <1>1, <1>2, <1>3, <2>2
    <2>3. QED
      BY <1>1, <2>1, <2>2
  <1>7. \A k \in 0..l : k \in 0..l-1 \/ k = l
    BY <1>1
  <1>8. \A k, m \in 0..l : path[k] = path[m] => k = m
    BY <1>3, <1>7
  <1>9. seen \union {at} = {path[k] : k \in 0..l}
    <2>1. l \in 0..l /\ 0..l-1 \subseteq 0..l
      BY <1>1
    <2>2. QED
      BY <1>3, <1>7, <2>1
  <1>10. QED
    BY <1>1, <1>2, <1>3, <1>4, <1>5, <1>6, <1>8, <1>9 DEF l, more, GoesOn

\* The redirects do not change, and so no path does.
LEMMA PathStays ==
  ASSUME answers' = answers, NEW url
  PROVE  Path(url)' = Path(url)
  BY DEF Path, Beyond

LEMMA Reports ==
  ASSUME RedirectTypeOK', NEW start \in Url, walk' = "reported",
         chain'[1].url = start, Told(chain', Path(start)')
  PROVE  RedirectInvariant'
  BY DEF RedirectInvariant
 
\* A request, and a report, leave what has been told true.
LEMMA RedirectStep ==
  ASSUME RedirectInvariant, [RedirectNext]_redirectVars
  PROVE  RedirectInvariant'
  <1> DEFINE Entry == [url : Url, status : Status]
  <1>0. /\ answers \in [Url -> Url \union {"final", "raises"}]
        /\ current \in Url
        /\ visited \in SUBSET Url
        /\ chain \in Seq(Entry)
        /\ walk \in {"ready", "walking", "reported", "refused"}
        /\ answers' = answers
    BY DEF RedirectInvariant, RedirectTypeOK, RedirectNext, redirectVars,
           WalkStarts, FindsLoop, Redirected, Arrives, HopsExhausted
  <1>p. \A url : Path(url)' = Path(url)
    BY <1>0, PathStays
  <1>1. CASE UNCHANGED redirectVars
    <2>1. RedirectTypeOK'
      BY <1>1 DEF RedirectInvariant, RedirectTypeOK, redirectVars
    <2>2. QED
      BY <1>1, <1>p, <2>1 DEF RedirectInvariant, redirectVars
  <1>2. CASE WalkStarts
    <2>1. RedirectTypeOK' /\ walk' \in {"refused", "walking"}
      BY <1>0, <1>2 DEF RedirectTypeOK, WalkStarts
    <2>2. CASE walk' = "walking"
      <3>1. /\ chain' = <<>> /\ visited' = {} /\ current' = current
            /\ current \in Url \ RefusedUrl
        BY <1>0, <1>2, <2>2 DEF RedirectInvariant, WalkStarts
      <3>2. PICK path : path = Path(current)
        OBVIOUS
      <3>3. path[0] = current
        BY <1>0, <3>2, PathLeads
      <3>4. Len(<<>>) = 0 /\ MaxHops \in Nat
        BY RedirectAssumption
      <3>5. Walked(<<>>, current, {}, path)
        BY <3>1, <3>3, <3>4 DEF Walked
      <3>6. QED
        BY <1>0, <1>p, <2>1, <2>2, <3>1, <3>2, <3>5 DEF RedirectInvariant
    <2>3. QED
      BY <2>1, <2>2 DEF RedirectInvariant
  <1>3. ASSUME walk = "walking", FindsLoop \/ Redirected \/ Arrives \/ HopsExhausted
        PROVE  RedirectInvariant'
    <2>1. PICK start \in Url : Walked(chain, current, visited, Path(start))
      BY <1>3 DEF RedirectInvariant
    <2>2. PICK path : path = Path(start)
      OBVIOUS
    <2>3. /\ path \in [Nat -> Place]
          /\ path[0] = start
          /\ Leads(path, answers)
          /\ Walked(chain, current, visited, path)
          /\ Path(start)' = path
      BY <1>0, <1>p, <2>1, <2>2, PathLeads
    <2>4. CASE FindsLoop
      <3>1. PICK told : told = Append(chain, Step(current, "LOOP_DETECTED"))
        OBVIOUS
      <3>2. /\ chain' = told /\ walk' = "reported" /\ current \in visited
            /\ Len(chain) < MaxHops /\ UNCHANGED <<current, visited>>
        BY <2>4, <3>1 DEF FindsLoop
      <3>3. told[1].url = start /\ Told(told, path)
        BY <1>0, <2>3, <3>1, <3>2, LoopTold
      <3>4. told \in Seq(Entry)
        BY <1>0, <3>1, ChainGrows DEF Status
      <3>5. RedirectTypeOK'
        BY <1>0, <3>2, <3>4 DEF RedirectTypeOK
      <3>6. QED
        BY <2>3, <3>2, <3>3, <3>5, Reports
    <2>5. ASSUME Redirected \/ Arrives PROVE RedirectInvariant'
      <3>1. /\ current \notin visited /\ Len(chain) < MaxHops
            /\ visited' = visited \union {current}
        BY <2>5 DEF Redirected, Arrives, Visits
      <3>c. PICK l, more :
              l = Len(chain) /\ more = Append(chain, Step(current, "answered"))
        OBVIOUS
      <3>d. GoesOn(Len(chain), Append(chain, Step(current, "answered")), current,
                   visited, path, answers[current])
        BY <1>0, <2>3, <3>1, WalkedOn
      <3>2. /\ l \in Nat
            /\ current = path[l]
            /\ l + 1 \in 1..MaxHops
            /\ path[l + 1] = answers[current]
            /\ Len(more) = l + 1
            /\ \A i \in 1..l+1 : more[i] = Step(path[i - 1], "answered")
            /\ \A k \in 0..l : path[k] \in Url \ RefusedUrl
            /\ \A k, m \in 0..l : path[k] = path[m] => k = m
            /\ visited \union {current} = {path[k] : k \in 0..l}
        BY <3>c, <3>d DEF GoesOn
      <3>3. more \in Seq(Entry)
        BY <1>0, <3>c, ChainGrows DEF Status
      <3>a. visited' \in SUBSET Url
        BY <1>0, <3>1
      <3>b. (l + 1) - 1 = l /\ 0..(l+1)-1 = 0..l /\ 0..l \subseteq 0..l+1
        BY <3>2
      <3>4. CASE Redirected /\ answers[current] \notin RefusedUrl
        <4>1. /\ chain' = more /\ walk' = "walking" /\ current' = answers[current]
              /\ answers[current] \in Url
          BY <3>c, <3>4 DEF Redirected
        <4>2. RedirectTypeOK'
          BY <1>0, <3>3, <3>a, <4>1 DEF RedirectTypeOK
        <4>3. \A k \in 0..l+1 : path[k] \in Url \ RefusedUrl
          <5>1. \A k \in 0..l+1 : k \in 0..l \/ k = l + 1
            BY <3>2
          <5>2. QED
            BY <3>2, <3>4, <4>1, <5>1
        <4>4. Walked(more, answers[current], visited \union {current}, path)
          BY <3>2, <3>b, <4>3 DEF Walked
        <4>5. QED
          BY <2>3, <3>1, <4>1, <4>2, <4>4 DEF RedirectInvariant
      <3>5. CASE Redirected /\ answers[current] \in RefusedUrl
        <4>1. PICK told : told = Append(more, Step(answers[current], "BLOCKED_SSRF"))
          OBVIOUS
        <4>2. /\ chain' = told /\ walk' = "reported" /\ current' = answers[current]
              /\ answers[current] \in Url
          BY <3>c, <3>5, <4>1 DEF Redirected
        <4>3. /\ told \in Seq(Entry)
              /\ DOMAIN told = 1..(l+1)+1
              /\ told[(l + 1) + 1] = Step(answers[current], "BLOCKED_SSRF")
              /\ \A i \in 1..l+1 : told[i] = more[i]
          <5>1. "BLOCKED_SSRF" \in Status /\ answers[current] \in Url
            BY <4>2 DEF Status
          <5>2. /\ told \in Seq(Entry)
                /\ DOMAIN told = 1..Len(more)+1
                /\ told[Len(more) + 1] = Step(answers[current], "BLOCKED_SSRF")
                /\ \A i \in 1..Len(more) : told[i] = more[i]
            BY <3>3, <4>1, <5>1, ChainGrows
          <5>3. QED
            BY <3>2, <5>2
        <4>4. RedirectTypeOK'
          BY <1>0, <3>a, <4>2, <4>3 DEF RedirectTypeOK
        <4>5. /\ \A i \in 1..l+1 : /\ told[i].url = path[i - 1]
                                   /\ told[i].status # "LOOP_DETECTED"
              /\ told[(l + 1) + 1].status = "BLOCKED_SSRF"
          <5>1. ASSUME NEW i \in 1..l+1
                PROVE  /\ told[i].url = path[i - 1]
                       /\ told[i].status # "LOOP_DETECTED"
            <6>1. told[i] = Step(path[i - 1], "answered")
              BY <3>2, <4>3, <5>1
            <6>2. QED
              BY <6>1 DEF Step
          <5>2. told[(l + 1) + 1].status = "BLOCKED_SSRF"
            BY <4>3 DEF Step
          <5>3. QED
            BY <5>1, <5>2
        <4>6. path[l + 1] \notin Url \ RefusedUrl
          BY <3>2, <3>5
        <4>7. told[1].url = path[0] /\ Told(told, path)
          <5>1. Straight(told, l + 1, path)
            BY <3>2, <3>b, <4>3, <4>5, <4>6 DEF Straight
          <5>2. QED
            BY <2>3, <3>2, <5>1, NoLoopTold
        <4>8. QED
          BY <2>3, <4>2, <4>4, <4>7, Reports
      <3>6. CASE Arrives
        <4>1. PICK answer \in {"answered", "ERROR"} :
                chain' = Append(chain, Step(current, answer))
          BY <3>6 DEF Arrives
        <4>2. PICK told : told = Append(chain, Step(current, answer))
          OBVIOUS
        <4>3. /\ chain' = told /\ walk' = "reported" /\ current' = current
              /\ answers[current] \notin Url
          BY <3>6, <4>1, <4>2 DEF Arrives
        <4>4. /\ told \in Seq(Entry)
              /\ DOMAIN told = 1..l+1
              /\ told[l + 1] = Step(current, answer)
              /\ \A i \in 1..l : told[i] = chain[i]
          <5>1. answer \in Status /\ l = Len(chain)
            BY <3>c, <4>1 DEF Status
          <5>2. QED
            BY <1>0, <4>2, <5>1, ChainGrows
        <4>5. RedirectTypeOK'
          BY <1>0, <3>a, <4>3, <4>4 DEF RedirectTypeOK
        <4>6. \A i \in 1..l : chain[i] = Step(path[i - 1], "answered")
          BY <2>3, <3>c DEF Walked
        <4>7. ASSUME NEW i \in 1..l+1
              PROVE  /\ told[i].url = path[i - 1]
                     /\ told[i].status # "LOOP_DETECTED"
          <5>1. CASE i \in 1..l
            <6>1. told[i] = Step(path[i - 1], "answered")
              BY <4>4, <4>6, <5>1
            <6>2. QED
              BY <6>1 DEF Step
          <5>2. CASE i = l + 1
            <6>1. told[i] = Step(path[i - 1], answer)
              BY <3>2, <3>b, <4>4, <5>2
            <6>2. QED
              BY <4>1, <6>1 DEF Step
          <5>3. QED
            BY <3>2, <5>1, <5>2
        <4>8. path[l + 1] \notin Url \ RefusedUrl /\ (l + 1) + 1 \notin DOMAIN told
          BY <3>2, <4>3, <4>4
        <4>9. told[1].url = path[0] /\ Told(told, path)
          <5>1. Straight(told, l + 1, path)
            BY <3>2, <3>b, <4>4, <4>7, <4>8 DEF Straight
          <5>2. QED
            BY <2>3, <3>2, <5>1, NoLoopTold
        <4>10. QED
          BY <2>3, <4>3, <4>5, <4>9, Reports
      <3>7. QED
        BY <2>5, <3>4, <3>5, <3>6
    <2>6. CASE HopsExhausted
      <3>1. /\ chain' = chain /\ walk' = "reported" /\ UNCHANGED <<current, visited>>
            /\ Len(chain) = MaxHops
        BY <2>6 DEF HopsExhausted
      <3>2. MaxHops \in 1..MaxHops /\ MaxHops \in Nat
        BY RedirectAssumption
      <3>3. PICK told : told = chain
        OBVIOUS
      <3>4. /\ DOMAIN told = 1..MaxHops
            /\ \A i \in 1..MaxHops : told[i] = Step(path[i - 1], "answered")
            /\ \A k \in 0..MaxHops-1 : path[k] \in Url \ RefusedUrl
            /\ \A k, m \in 0..MaxHops-1 : path[k] = path[m] => k = m
        BY <1>0, <2>3, <3>1, <3>2, <3>3 DEF Walked
      <3>5. \A i \in 1..MaxHops : /\ told[i].url = path[i - 1]
                                  /\ told[i].status # "LOOP_DETECTED"
        BY <3>4 DEF Step
      <3>6. MaxHops + 1 \notin DOMAIN told
        BY <3>2, <3>4
      <3>7. told[1].url = path[0] /\ Told(told, path)
        <4>1. Straight(told, MaxHops, path)
          BY <3>4, <3>5, <3>6 DEF Straight
        <4>2. QED
          BY <2>3, <3>2, <4>1, NoLoopTold
      <3>8. RedirectTypeOK'
        BY <1>0, <3>1 DEF RedirectTypeOK
      <3>9. QED
        BY <2>3, <3>1, <3>3, <3>7, <3>8, Reports
    <2>7. QED
      BY <1>3, <2>4, <2>5, <2>6
  <1>4. QED
    BY <1>1, <1>2, <1>3
    DEF RedirectNext, FindsLoop, Redirected, Arrives, HopsExhausted

\* For every answer of the servers, every set of refused URLs and every number
\* of hops, a report tells a loop exactly if there is one within reach.
THEOREM LoopsAreReported == RedirectSpec => [](RedirectTypeOK /\ LoopsAreTold)
  <1>1. RedirectInvariant => RedirectTypeOK /\ LoopsAreTold
    <2> SUFFICES ASSUME RedirectInvariant, walk = "reported" PROVE LoopsAreTold
      BY DEF RedirectInvariant, LoopsAreTold
    <2>1. \A n \in Nat : Path(chain[1].url)[n] = Beyond(chain[1].url, n)
      BY DEF Path
    <2>a. \A n \in 1..MaxHops-1 : n \in Nat /\ \A m \in 0..n-1 : m \in Nat
      OBVIOUS
    <2>2. Told(chain, Path(chain[1].url))
      BY DEF RedirectInvariant
    <2>3. QED
      BY <2>1, <2>a, <2>2 DEF Told, LoopsAreTold, HasLoop
  <1>2. QED
    BY <1>1, RedirectInitially, RedirectStep, PTL DEF RedirectSpec

-----------------------------------------------------------------------------
(* The plugins: each of them, but those named as silent, has a request it  *)
(* cannot succeed without.                                                 *)

Unheard == {"unreachable", "raised"}

IsStage(s) ==
  /\ s = [atOnce |-> s.atOnce, inTurn |-> s.inTurn, accepts |-> s.accepts,
          skips |-> s.skips, ends |-> s.ends]
  /\ s.inTurn = <<>> => s.atOnce # {}

\* A stage that does not end the run with a success that nobody answered, and
\* one that a run does not pass unless somebody answers.
Honest(s) == IsStage(s) /\ s.ends \intersect Unheard = {}
Loud(s) == Honest(s) /\ s.inTurn # <<>> /\ s.accepts \intersect Unheard = {}

Stages(q) == \E S : q \in Seq(S) /\ \A s \in S : IsStage(s)

\* What is left of a run cannot succeed without an answer.
Attends(stages, needs) ==
  /\ \A i \in DOMAIN stages : Honest(stages[i])
  /\ needs # {} \/ \E i \in DOMAIN stages : Loud(stages[i])

\* A plugin that is named above, or attends.
Listens(p) ==
  /\ Stages(p.stages)
  /\ p.name \in Computed \union Silent \/ Attends(p.stages, p.needs)

LEMMA OptionalStage ==
  ASSUME NEW S, S # {}
  PROVE  Honest(Optional(S))
  BY DEF Optional, IsStage, Honest

LEMMA InTurnStage ==
  ASSUME NEW q, q # <<>>, NEW accepts, NEW skips, NEW ends
  PROVE  LET s == InTurn(q, accepts, skips, ends)
         IN  /\ IsStage(s)
             /\ ends \intersect Unheard = {} => Honest(s)
             /\ ends \intersect Unheard = {} /\ accepts \intersect Unheard = {} => Loud(s)
  BY DEF InTurn, IsStage, Honest, Loud

LEMMA RequiredStage ==
  ASSUME NEW s
  PROVE  Loud(Required(s)) /\ Loud(RequiredData(s)) /\ Loud(UnlessUnknown(s))
  <1>1. <<s>> # <<>>
    OBVIOUS
  <1>2. /\ Answered \intersect Unheard = {}
        /\ {"data"} \intersect Unheard = {}
        /\ {"absent"} \intersect Unheard = {}
        /\ {} \intersect Unheard = {}
    BY DEF Answered, Unheard
  <1>3. QED
    BY <1>1, <1>2, InTurnStage DEF Required, RequiredData, UnlessUnknown

\* One to three stages.
LEMMA FewStages ==
  ASSUME NEW s, NEW t, NEW u, IsStage(s), IsStage(t), IsStage(u)
  PROVE  Stages(<<>>) /\ Stages(<<s>>) /\ Stages(<<s, t>>) /\ Stages(<<s, t, u>>)
  <1> DEFINE S == {s, t, u}
  <1>1. /\ <<>> \in Seq(S) /\ <<s>> \in Seq(S)
        /\ <<s, t>> \in Seq(S) /\ <<s, t, u>> \in Seq(S)
    OBVIOUS
  <1>2. \A x \in S : IsStage(x)
    OBVIOUS
  <1> HIDE DEF S
  <1>3. QED
    BY <1>1, <1>2 DEF Stages

LEMMA LoudOne ==
  ASSUME NEW name, NEW refuses, NEW s, Loud(s)
  PROVE  Listens(Plugin(name, refuses, <<s>>, {}))
  <1>1. Attends(<<s>>, {})
    BY DEF Attends, Loud
  <1>2. Stages(<<s>>)
    BY FewStages DEF Loud, Honest
  <1>3. QED
    BY <1>1, <1>2 DEF Listens, Plugin

LEMMA LoudTwo ==
  ASSUME NEW name, NEW refuses, NEW s, NEW t, Loud(s), Honest(t)
  PROVE  Listens(Plugin(name, refuses, <<s, t>>, {}))
  <1>1. Attends(<<s, t>>, {})
    BY DEF Attends, Loud
  <1>2. Stages(<<s, t>>)
    BY FewStages DEF Loud, Honest
  <1>3. QED
    BY <1>1, <1>2 DEF Listens, Plugin

LEMMA NeedsOne ==
  ASSUME NEW name, NEW refuses, NEW needs, needs # {}, NEW s, Honest(s)
  PROVE  Listens(Plugin(name, refuses, <<s>>, needs))
  <1>1. Attends(<<s>>, needs)
    BY DEF Attends
  <1>2. Stages(<<s>>)
    BY FewStages DEF Honest
  <1>3. QED
    BY <1>1, <1>2 DEF Listens, Plugin

LEMMA NeedsTwo ==
  ASSUME NEW name, NEW refuses, NEW needs, needs # {}, NEW s, NEW t,
         Honest(s), Honest(t)
  PROVE  Listens(Plugin(name, refuses, <<s, t>>, needs))
  <1>1. Attends(<<s, t>>, needs)
    BY DEF Attends
  <1>2. Stages(<<s, t>>)
    BY FewStages DEF Honest
  <1>3. QED
    BY <1>1, <1>2 DEF Listens, Plugin

\* Plugins that are named.
LEMMA Named ==
  ASSUME NEW name \in Computed \union Silent, NEW refuses,
         NEW s, NEW t, NEW u, IsStage(s), IsStage(t), IsStage(u)
  PROVE  /\ Listens(Plugin(name, refuses, <<>>, {}))
         /\ Listens(Plugin(name, refuses, <<s>>, {}))
         /\ Listens(Plugin(name, refuses, <<s, t>>, {}))
         /\ Listens(Plugin(name, refuses, <<s, t, u>>, {}))
  BY FewStages DEF Listens, Plugin

LEMMA NamedOptional ==
  ASSUME NEW name \in Computed \union Silent, NEW refuses, NEW S, S # {}
  PROVE  Listens(Plugin(name, refuses, <<Optional(S)>>, {}))
  BY Named, OptionalStage DEF Honest

LEMMA NeedsOptional ==
  ASSUME NEW name, NEW refuses, NEW S, S # {}, NEW needs, needs # {}
  PROVE  Listens(Plugin(name, refuses, <<Optional(S)>>, needs))
  BY NeedsOne, OptionalStage

\* Every plugin with one request it depends on.
LEMMA RequestsListen ==
  /\ Listens(AiAnalysisPlugin) /\ Listens(BlueskyPlugin)
  /\ Listens(CertsPlugin) /\ Listens(CrossrefPlugin)
  /\ Listens(EnsResolverPlugin) /\ Listens(FlightPlugin)
  /\ Listens(GdeltPlugin) /\ Listens(GleifPlugin)
  /\ Listens(GreyNoisePlugin) /\ Listens(ImagePlugin)
  /\ Listens(JarmPlugin) /\ Listens(MalwareBazaarPlugin)
  /\ Listens(MastodonPlugin) /\ Listens(NostrPlugin)
  /\ Listens(OpenAlexPlugin) /\ Listens(OpenCorporatesPlugin)
  /\ Listens(OpenSanctionsPlugin) /\ Listens(OtxPlugin)
  /\ Listens(PdfMetadataPlugin) /\ Listens(StackExchangePlugin)
  /\ Listens(ThreatFoxPlugin) /\ Listens(UrlScanPlugin)
  /\ Listens(VinPlugin) /\ Listens(VirusTotalPlugin)
  /\ Listens(WhoisPlugin)
  BY LoudOne, RequiredStage
  DEF AiAnalysisPlugin, BlueskyPlugin, CertsPlugin, CrossrefPlugin,
      EnsResolverPlugin, FlightPlugin, GdeltPlugin, GleifPlugin,
      GreyNoisePlugin, ImagePlugin, JarmPlugin, MalwareBazaarPlugin,
      MastodonPlugin, NostrPlugin, OpenAlexPlugin, OpenCorporatesPlugin,
      OpenSanctionsPlugin, OtxPlugin, PdfMetadataPlugin, StackExchangePlugin,
      ThreatFoxPlugin, UrlScanPlugin, VinPlugin, VirusTotalPlugin,
      WhoisPlugin

\* Every named plugin that asks all its sources at once.
LEMMA SearchesListen ==
  /\ Listens(BreachPlugin) /\ Listens(CobaltstrikePlugin)
  /\ Listens(CryptoTracerPlugin) /\ Listens(EmailPlugin)
  /\ Listens(EmailAgePlugin) /\ Listens(EmailBreachTimelinePlugin)
  /\ Listens(EmailDisposablePlugin) /\ Listens(EmailDomainProfilePlugin)
  /\ Listens(EmailIdentityPlugin) /\ Listens(EmailPatternPlugin)
  /\ Listens(EmailReversePlugin) /\ Listens(EmailUsernamePlugin)
  /\ Listens(EntityPlugin) /\ Listens(GithubDorkPlugin)
  /\ Listens(GithubOsintPlugin) /\ Listens(MacLookupPlugin)
  /\ Listens(OnionCheckerPlugin) /\ Listens(PassiveDnsPlugin)
  /\ Listens(PastebinPlugin) /\ Listens(PhonePlugin)
  /\ Listens(ProfilePlugin) /\ Listens(ReputationPlugin)
  /\ Listens(SocialEmailPlugin) /\ Listens(SubdomainPlugin)
  /\ Listens(TyposquatPlugin) /\ Listens(UsernamePlugin)
  /\ Listens(WaybackPlugin)
  BY NamedOptional
  DEF BreachPlugin, CobaltstrikePlugin, CryptoTracerPlugin, EmailPlugin,
      EmailAgePlugin, EmailBreachTimelinePlugin, EmailDisposablePlugin,
      EmailDomainProfilePlugin, EmailIdentityPlugin, EmailPatternPlugin,
      EmailReversePlugin, EmailUsernamePlugin, EntityPlugin,
      GithubDorkPlugin, GithubOsintPlugin, MacLookupPlugin,
      OnionCheckerPlugin, PassiveDnsPlugin, PastebinPlugin, PhonePlugin,
      ProfilePlugin, ReputationPlugin, SocialEmailPlugin, SubdomainPlugin,
      TyposquatPlugin, UsernamePlugin, WaybackPlugin, Computed, Silent

\* The others.
LEMMA OthersListen ==
  /\ Listens(DnsPlugin) /\ Listens(DnssecPlugin)
  /\ Listens(GoogleDorkPlugin) /\ Listens(RobotsSitemapPlugin)
  /\ Listens(SocialPostsPlugin) /\ Listens(BlockstreamPlugin)
  /\ Listens(EtherscanPlugin) /\ Listens(PublicRpc)
  /\ Listens(IpPlugin) /\ Listens(SslAnalysisPlugin)
  /\ Listens(HttpPlugin) /\ Listens(SecEdgarPlugin)
  /\ Listens(SecretScannerPlugin) /\ Listens(ViesPlugin)
  /\ Listens(PortScanPlugin) /\ Listens(ShodanDorkPlugin)
  /\ Listens(TechnologyPlugin) /\ Listens(BgpPlugin)
  /\ Listens(EmailVerifyPlugin) /\ Listens(IbanPlugin)
  /\ Listens(ShodanPlugin) /\ Listens(SpfDmarcPlugin)
  <1>1. /\ Listens(DnsPlugin) /\ Listens(DnssecPlugin)
        /\ Listens(GoogleDorkPlugin) /\ Listens(RobotsSitemapPlugin)
        /\ Listens(SocialPostsPlugin)
    BY NeedsOptional
    DEF DnsPlugin, DnssecPlugin, GoogleDorkPlugin, RobotsSitemapPlugin,
        SocialPostsPlugin, RecordType, Dork, Platform
  <1>2. /\ Listens(BlockstreamPlugin) /\ Listens(EtherscanPlugin)
        /\ Listens(PublicRpc) /\ Listens(IpPlugin)
        /\ Listens(SslAnalysisPlugin)
    BY LoudTwo, RequiredStage, OptionalStage
    DEF BlockstreamPlugin, EtherscanPlugin, PublicRpc, IpPlugin,
        SslAnalysisPlugin, Loud
  <1>3. /\ Listens(HttpPlugin) /\ Listens(SecEdgarPlugin)
        /\ Listens(SecretScannerPlugin) /\ Listens(ViesPlugin)
    BY LoudOne, InTurnStage
    DEF HttpPlugin, SecEdgarPlugin, SecretScannerPlugin, ViesPlugin,
        Answered, Bad, Reply, Unheard
  <1>4. /\ Listens(PortScanPlugin) /\ Listens(ShodanDorkPlugin)
    BY NeedsTwo, OptionalStage
    DEF PortScanPlugin, ShodanDorkPlugin
  <1>5. /\ Listens(TechnologyPlugin)
    BY NeedsOne, InTurnStage
    DEF TechnologyPlugin, Unheard
  <1>6. /\ Listens(BgpPlugin) /\ Listens(EmailVerifyPlugin)
        /\ Listens(IbanPlugin) /\ Listens(ShodanPlugin)
        /\ Listens(SpfDmarcPlugin)
    BY Named, InTurnStage, OptionalStage
    DEF BgpPlugin, EmailVerifyPlugin, IbanPlugin, ShodanPlugin,
        SpfDmarcPlugin, Honest, Computed, Silent
  <1>7. QED
    BY <1>1, <1>2, <1>3, <1>4, <1>5, <1>6

\* Every registered plugin.
LEMMA RegisteredListen ==
  ASSUME NEW type \in DOMAIN AllPlugins, NEW p \in AllPlugins[type]
  PROVE  Listens(p)
  BY RequestsListen, SearchesListen, OthersListen DEF AllPlugins

-----------------------------------------------------------------------------
(* A run of a plugin.                                                      *)

\* Nobody has answered a plugin that cannot succeed without an answer.
Unanswered == Attends(plugin.stages, plugin.needs) /\ heard = {}

\* The inductive invariant of a run: what is left of it attends.
PluginInvariant ==
  /\ Len(todo) <= Len(plugin.stages)
  /\ got \subseteq heard
  /\ verdict \in {"none", "running", "success", "failure"}
  /\ asked # {} <=> verdict = "running"
  /\ Stages(todo) /\ (todo # <<>> <=> verdict = "running")
  /\ verdict # "none" => Listens(plugin)
  /\ Unanswered => /\ verdict # "success"
                   /\ verdict = "running" => Attends(todo, plugin.needs)

\* The first of the stages that are left, and the rest.
LEMMA FirstStage ==
  ASSUME NEW q, Stages(q), q # <<>>
  PROVE  /\ IsStage(Head(q)) /\ Stages(Tail(q)) /\ First(q) # {}
         /\ Len(q) \in Nat /\ Len(Tail(q)) + 1 = Len(q)
  <1>1. PICK S : q \in Seq(S) /\ \A s \in S : IsStage(s)
    BY DEF Stages
  <1>2. Head(q) \in S /\ Tail(q) \in Seq(S)
        /\ Len(q) \in Nat /\ Len(Tail(q)) + 1 = Len(q)
    BY <1>1
  <1>3. IsStage(Head(q)) /\ Stages(Tail(q))
    BY <1>1, <1>2 DEF Stages
  <1>4. QED
    BY <1>2, <1>3 DEF First, IsStage

\* A stage that is done was honest, and loud or not needed.
LEMMA RestAttends ==
  ASSUME NEW q, Stages(q), q # <<>>, NEW needs, Attends(q, needs)
  PROVE  /\ Honest(Head(q))
         /\ Loud(Head(q)) \/ Attends(Tail(q), needs)
  <1>1. PICK S : q \in Seq(S)
    BY DEF Stages
  <1>2. /\ 1 \in DOMAIN q /\ Head(q) = q[1]
        /\ \A i \in DOMAIN Tail(q) : i + 1 \in DOMAIN q /\ Tail(q)[i] = q[i + 1]
        /\ \A i \in DOMAIN q : i = 1 \/ (i - 1 \in DOMAIN Tail(q) /\ q[i] = Tail(q)[i - 1])
    BY <1>1
  <1>3. \A i \in DOMAIN Tail(q) : Honest(Tail(q)[i])
    BY <1>2 DEF Attends
  <1>4. ASSUME NEW i \in DOMAIN q, Loud(q[i]), ~Loud(Head(q))
        PROVE  \E j \in DOMAIN Tail(q) : Loud(Tail(q)[j])
    BY <1>2, <1>4
  <1>5. QED
    BY <1>2, <1>3, <1>4 DEF Attends

\* A stage with fewer sources in the place of the first one.
LEMMA ShorterStage ==
  ASSUME NEW q, Stages(q), q # <<>>, NEW more, more # <<>>,
         NEW s, s = [Head(q) EXCEPT !.inTurn = more], Head(q).inTurn # <<>>
  PROVE  LET r == <<s>> \o Tail(q)
         IN  /\ Stages(r) /\ r # <<>> /\ Len(r) = Len(q)
             /\ \A needs : Attends(q, needs) => Attends(r, needs)
  <1>1. PICK S : q \in Seq(S) /\ \A x \in S : IsStage(x)
    BY DEF Stages
  <1> DEFINE r == <<s>> \o Tail(q)
             R == S \union {s}
  <1>2. PICK h : h = Head(q)
    OBVIOUS
  <1>3. /\ s.inTurn = more /\ s.ends = h.ends /\ s.accepts = h.accepts
        /\ IsStage(s)
    <2>1. IsStage(h)
      BY <1>1, <1>2
    <2>2. QED
      BY <1>2, <2>1 DEF IsStage
  <1>4. /\ Honest(h) => Honest(s)
        /\ Loud(h) => Loud(s)
    BY <1>2, <1>3 DEF Honest, Loud
  <1>5. /\ r \in Seq(R) /\ r # <<>> /\ Len(r) = Len(q)
        /\ DOMAIN r = DOMAIN q /\ r[1] = s /\ q[1] = h /\ 1 \in DOMAIN q
        /\ \A i \in DOMAIN q : i # 1 => r[i] = q[i]
    <2>1. Tail(q) \in Seq(R) /\ <<s>> \in Seq(R) /\ Len(q) = Len(Tail(q)) + 1
      <3>1. \A X, Y : X \subseteq Y => Seq(X) \subseteq Seq(Y)
        OBVIOUS
      <3>2. Tail(q) \in Seq(S) /\ S \subseteq R
        BY <1>1
      <3>3. s \in R
        OBVIOUS
      <3> HIDE DEF R
      <3>4. QED
        BY <1>1, <3>1, <3>2, <3>3
    <2> HIDE DEF R
    <2>2. QED
      BY <1>1, <1>2, <2>1
  <1>6. \A x \in R : IsStage(x)
    BY <1>1, <1>3
  <1> HIDE DEF r, R
  <1>7. ASSUME NEW needs, Attends(q, needs)
        PROVE  Attends(r, needs)
    <2>1. \A i \in DOMAIN r : Honest(r[i])
      BY <1>4, <1>5, <1>7 DEF Attends
    <2>2. ASSUME NEW i \in DOMAIN q, Loud(q[i]) PROVE Loud(r[i])
      BY <1>4, <1>5, <2>2
    <2>3. QED
      BY <1>5, <1>7, <2>1, <2>2 DEF Attends
  <1>8. QED
    BY <1>5, <1>6, <1>7 DEF Stages, r

\* The rest of the stages is no more than the plugin has.
LEMMA RestIsShorter ==
  ASSUME NEW q, NEW p, Stages(q), q # <<>>, Listens(p), Len(q) <= Len(p.stages)
  PROVE  Stages(Tail(q)) /\ Len(Tail(q)) <= Len(p.stages)
  <1>1. PICK S : p.stages \in Seq(S)
    BY DEF Listens, Stages
  <1>2. Len(p.stages) \in Nat
    BY <1>1
  <1>3. Stages(Tail(q)) /\ Len(q) \in Nat /\ Len(Tail(q)) + 1 = Len(q)
    BY FirstStage
  <1>4. Len(Tail(q)) \in Nat
    <2>1. PICK T : Tail(q) \in Seq(T)
      BY <1>3 DEF Stages
    <2>2. QED
      BY <2>1
  <1>5. QED
    BY <1>2, <1>3, <1>4

\* With the stages that are left a run goes on, or ends as it should.
LEMMA RunGoesOn ==
  ASSUME NEW stages, Stages(stages), Len(stages) <= Len(plugin'.stages),
         NEW taken, taken \subseteq heard', GoOn(stages, taken),
         got' \subseteq heard', Listens(plugin'),
         Unanswered' => Attends(stages, plugin'.needs)
  PROVE  PluginInvariant'
  <1>1. CASE stages # <<>>
    <2>1. First(stages) # {}
      BY <1>1, FirstStage
    <2>2. todo' = stages /\ asked' = First(stages) /\ verdict' = "running"
      BY <1>1 DEF GoOn
    <2>3. QED
      BY <1>1, <2>1, <2>2 DEF PluginInvariant
  <1>2. CASE stages = <<>>
    <2>1. /\ todo' = <<>> /\ asked' = {}
          /\ verdict' = Ended(plugin', taken)
      BY <1>2 DEF GoOn, First
    <2>2. ASSUME Unanswered', verdict' = "success" PROVE FALSE
      <3>1. plugin'.needs # {}
        BY <1>2, <2>2 DEF Attends
      <3>2. taken # {}
        BY <2>1, <2>2, <3>1 DEF Ended
      <3>3. QED
        BY <2>2, <3>2 DEF Unanswered
    <2>3. verdict' \in {"success", "failure"}
      BY <2>1 DEF Ended
    <2>4. QED
      BY <1>2, <2>1, <2>2, <2>3 DEF PluginInvariant
  <1>3. QED
    BY <1>1, <1>2

\* A run that is stopped without an answer fails.
LEMMA RunStops ==
  ASSUME NEW v \in {"success", "failure"}, Stop(v), got' \subseteq heard',
         Listens(plugin'), Unanswered' => v = "failure"
  PROVE  PluginInvariant'
  <1>1. PICK S : plugin'.stages \in Seq(S)
    BY DEF Listens, Stages
  <1>2. Len(plugin'.stages) \in Nat /\ Len(<<>>) = 0
    BY <1>1
  <1>3. Stages(<<>>)
    <2>1. PICK T : T = {}
      OBVIOUS
    <2>2. <<>> \in Seq(T) /\ \A s \in T : IsStage(s)
      BY <2>1
    <2>3. QED
      BY <2>2 DEF Stages
  <1>4. QED
    BY <1>2, <1>3 DEF Stop, PluginInvariant

\* No plugin runs.
LEMMA RunInitially == PluginInit => PluginInvariant
  BY DEF PluginInit, NoPlugin, Plugin, PluginInvariant, Stages

\* The start of a run and every answer keep it so.
LEMMA RunStep ==
  ASSUME PluginInvariant, [PluginNext]_pluginVars
  PROVE  PluginInvariant'
  <1>1. ASSUME NEW type, NEW p, Listens(p), RunStarts(type, p)
        PROVE  PluginInvariant'
    <2>1. plugin' = p /\ got' \subseteq heard'
      BY <1>1 DEF RunStarts, PluginInvariant
    <2>2. CASE GoOn(p.stages, {})
      <3>1. Stages(p.stages) /\ Len(p.stages) <= Len(p.stages)
        <4>1. PICK S : p.stages \in Seq(S)
          BY <1>1 DEF Listens, Stages
        <4>2. Len(p.stages) \in Nat
          BY <4>1
        <4>3. QED
          BY <1>1, <4>2 DEF Listens
      <3>2. Unanswered' => Attends(p.stages, plugin'.needs)
        BY <2>1 DEF Unanswered
      <3>3. QED
        BY <1>1, <2>1, <2>2, <3>1, <3>2, RunGoesOn
    <2>3. CASE Stop("failure")
      BY <1>1, <2>1, <2>3, RunStops
    <2>4. QED
      BY <1>1, <2>2, <2>3 DEF RunStarts
  <1>2. ASSUME NEW s \in asked, NEW a \in Reply, RequestEnds(s, a)
        PROVE  /\ plugin' = plugin /\ Listens(plugin) /\ got' \subseteq heard'
               /\ Stages(todo) /\ todo # <<>> /\ Len(todo) <= Len(plugin.stages)
               /\ Unanswered' => /\ Unanswered /\ Attends(todo, plugin.needs)
                                 /\ a \in Unheard
    <2>1. verdict = "running"
      BY DEF PluginInvariant
    <2>2. Unanswered' => Unanswered /\ a \in Unheard
      BY <1>2 DEF RequestEnds, Unanswered, Unheard
    <2>3. QED
      BY <1>2, <2>1, <2>2 DEF RequestEnds, PluginInvariant
  <1>3. ASSUME NEW s \in asked, NEW a \in Reply, OneEnds(s, a)
        PROVE  PluginInvariant'
    <2>1. RequestEnds(s, a) /\ Head(todo).inTurn = <<>>
      BY <1>3 DEF OneEnds
    <2>2. ~Loud(Head(todo))
      BY <2>1 DEF Loud
    <2>3. CASE asked = {s}
      <3>1. GoOn(Tail(todo), got')
        BY <1>3, <2>3 DEF OneEnds
      <3>2. Stages(Tail(todo)) /\ Len(Tail(todo)) <= Len(plugin'.stages)
        BY <1>2, <2>1, RestIsShorter
      <3>3. Unanswered' => Attends(Tail(todo), plugin'.needs)
        BY <1>2, <2>1, <2>2, RestAttends
      <3>4. QED
        BY <1>2, <2>1, <3>1, <3>2, <3>3, RunGoesOn
    <2>4. CASE asked # {s}
      <3>1. asked' = asked \ {s} /\ UNCHANGED <<todo, verdict>>
        BY <1>3, <2>4 DEF OneEnds
      <3>2. QED
        BY <1>2, <2>1, <2>4, <3>1 DEF PluginInvariant
    <2>5. QED
      BY <2>3, <2>4
  <1>4. ASSUME NEW s \in asked, NEW a \in Reply, TurnEnds(s, a)
        PROVE  PluginInvariant'
    <2> DEFINE stage == Head(todo)
               more == Tail(stage.inTurn)
    <2>1. RequestEnds(s, a) /\ stage.inTurn # <<>>
      BY <1>4 DEF TurnEnds
    <2>2. Unanswered' => Honest(stage) /\ a \in Unheard
      BY <1>2, <2>1, RestAttends
    <2>3. CASE a \in stage.accepts
      <3>1. GoOn(Tail(todo), got')
        BY <1>4, <2>3 DEF TurnEnds
      <3>2. Stages(Tail(todo)) /\ Len(Tail(todo)) <= Len(plugin'.stages)
        BY <1>2, <2>1, RestIsShorter
      <3>3. Unanswered' => ~Loud(stage)
        BY <2>2, <2>3 DEF Loud
      <3>4. Unanswered' => Attends(Tail(todo), plugin'.needs)
        BY <1>2, <2>1, <3>3, RestAttends
      <3>5. QED
        BY <1>2, <2>1, <3>1, <3>2, <3>4, RunGoesOn
    <2>4. CASE a \in stage.skips \ stage.accepts /\ more # <<>>
      <3>1. PICK shorter : shorter = [stage EXCEPT !.inTurn = more]
        OBVIOUS
      <3>2. GoOn(<<shorter>> \o Tail(todo), got')
        BY <1>4, <2>4, <3>1 DEF TurnEnds
      <3>3. PICK r : r = <<shorter>> \o Tail(todo)
        OBVIOUS
      <3>4. /\ Stages(r) /\ Len(r) = Len(todo)
            /\ \A needs : Attends(todo, needs) => Attends(r, needs)
        BY <1>2, <2>1, <2>4, <3>1, <3>3, ShorterStage
      <3>5. QED
        BY <1>2, <2>1, <3>2, <3>3, <3>4, RunGoesOn
    <2>5. CASE a \notin stage.accepts /\ ~(a \in stage.skips \ stage.accepts /\ more # <<>>)
      <3>1. PICK v : v = IF a \in stage.ends THEN "success" ELSE "failure"
        OBVIOUS
      <3>2. Stop(v)
        BY <1>4, <2>5, <3>1 DEF TurnEnds
      <3>3. Unanswered' => v = "failure"
        BY <2>2, <3>1 DEF Honest
      <3>4. QED
        BY <1>2, <2>1, <3>1, <3>2, <3>3, RunStops
    <2>6. QED
      BY <2>3, <2>4, <2>5
  <1>5. CASE UNCHANGED pluginVars
    BY <1>5 DEF pluginVars, PluginInvariant, Unanswered
  <1>6. \A p \in Apart : Listens(p)
    BY RequestsListen, SearchesListen DEF Apart
  <1>7. {"data", "empty", "unreachable"} \subseteq Reply
    BY DEF Reply
  <1>8. QED
    BY <1>1, <1>3, <1>4, <1>5, <1>6, <1>7, RegisteredListen DEF PluginNext

\* A plugin nobody answers reports a failure, in whatever order its requests
\* end, unless it is one of those named as silent.
THEOREM OutagesAreReported == PluginSpec => [](PluginTypeOK /\ OutageIsReported)
  <1>1. PluginInvariant => PluginTypeOK /\ OutageIsReported
    <2>1. PluginInvariant => PluginTypeOK
      BY DEF PluginInvariant, PluginTypeOK
    <2>2. ASSUME PluginInvariant, verdict = "success", heard = {}
          PROVE  plugin.name \in Computed \union Silent
      <3>1. Listens(plugin) /\ ~Unanswered
        BY <2>2 DEF PluginInvariant
      <3>2. ~Attends(plugin.stages, plugin.needs)
        BY <2>2, <3>1 DEF Unanswered
      <3>3. QED
        BY <3>1, <3>2 DEF Listens
    <2>3. QED
      BY <2>1, <2>2 DEF OutageIsReported
  <1>2. QED
    BY <1>1, RunInitially, RunStep, PTL DEF PluginSpec

-----------------------------------------------------------------------------
(* The components side by side.                                            *)

PlatformInvariant ==
  /\ IngestTypeOK /\ RulesTypeOK /\ HealthInvariant /\ PluginInvariant
  /\ RedirectInvariant /\ DiffTypeOK /\ ServiceTypeOK /\ ConfidenceIsEarned
  /\ RateInvariant

\* A step of the platform is one of each component, or leaves it alone.
LEMMA PlatformSteps ==
  ASSUME [PlatformNext]_<<focus, vars, otherVars>>
  PROVE  /\ [Next]_vars /\ [RulesNext]_rulesVars /\ [HealthNext]_healthVars
         /\ [PluginNext]_pluginVars /\ [RedirectNext]_redirectVars
         /\ [DiffNext]_diffVars /\ [ServiceNext]_serviceVars /\ [RateNext]_rateVars
  BY DEF PlatformNext, otherVars

\* Each component keeps the types of its variables while the others take their
\* steps.
THEOREM PlatformTypes == PlatformSpec => []PlatformTypeOK
  <1>1. PlatformInit => PlatformInvariant
    BY IngestTypesInit, RulesTypeInit, HealthInitially, RunInitially,
       RedirectInitially, DiffTypeInit, ServiceInitially, RateInitially
    DEF PlatformInit, PlatformInvariant
  <1>2. PlatformInvariant /\ [PlatformNext]_<<focus, vars, otherVars>> => PlatformInvariant'
    BY PlatformSteps, IngestTypeStep, RulesTypeNext, HealthStep, RunStep,
       RedirectStep, DiffTypeNext, ServiceStep, RateStep
    DEF PlatformInvariant
  <1>3. PlatformInvariant => PlatformTypeOK
    <2>1. HealthInvariant => HealthTypeOK
      BY DEF HealthInvariant
    <2>2. PluginInvariant => PluginTypeOK
      BY DEF PluginInvariant, PluginTypeOK
    <2>3. RedirectInvariant => RedirectTypeOK
      BY DEF RedirectInvariant
    <2>4. RateInvariant => RateTypeOK
      BY DEF RateInvariant
    <2>5. QED
      BY <2>1, <2>2, <2>3, <2>4 DEF PlatformInvariant, PlatformTypeOK
  <1>4. QED
    BY <1>1, <1>2, <1>3, PTL DEF PlatformSpec
=============================================================================
