------------------------- MODULE InspectBundleProofs -------------------------
(***************************************************************************)
(* The inspection uses the rule bookkeeping only through its calls, for    *)
(* every request, rule table and outcome of the scanners; what was proved  *)
(* about the bookkeeping therefore holds of every inspection.  Then what   *)
(* its verdict means: it is backed by credits, it is 0 only for the known  *)
(* reasons, a threat once found is kept, and without a threat every value  *)
(* and every transaction rule had its turn.                                *)
(***************************************************************************)
EXTENDS InspectBundle, RuleStateProofs

\* Where the positions an action uses as an index are valid.
InValue == {"empty", "raw", "json", "filter", "scan", "dispatch", "trailing", "valueEnd"}

PositionsOK ==
  /\ pc \in InValue => cur \in DOMAIN request.vals
  /\ pc = "projectScan" => step \in DOMAIN request.projected
  /\ step >= 1

\* An element of a sequence over S is in S.
LEMMA ElementOf ==
  ASSUME NEW S, NEW s \in Seq(S)
  PROVE  DOMAIN s = 1 .. Len(s) /\ \A k \in DOMAIN s : s[k] \in S
  OBVIOUS

LEMMA AdaptiveBounds ==
  ASSUME NEW len \in Nat, NEW rich \in BOOLEAN
  PROVE  Adaptive(len, rich) \in 4 .. 7
  BY DEF Adaptive

\* What RequestsAssumption says of one value.
LEMMA ValueShape ==
  ASSUME request \in Requests, NEW i \in DOMAIN request.vals
  PROVE  LET v == request.vals[i] IN
           /\ v.off \in Removals /\ v.len \in Nat /\ v.dlen \in Nat
           /\ v.rich \in BOOLEAN /\ v.null \in BOOLEAN
           /\ v.strings \in Seq([len : Nat, rich : BOOLEAN])
<1>1. request.vals \in Seq(CallerValue)
  BY RequestsAssumption
<1>2. request.vals[i] \in CallerValue
  BY <1>1
<1> QED
  BY <1>2 DEF CallerValue

LEMMA ProjectedShape ==
  ASSUME request \in Requests, NEW i \in DOMAIN request.projected
  PROVE  request.projected[i].off \in Removals /\ request.projected[i].limit \in BOOLEAN
<1>1. request.projected \in Seq(ProjectedValue)
  BY RequestsAssumption
<1>2. request.projected[i] \in ProjectedValue
  BY <1>1
<1> QED
  BY <1>2 DEF ProjectedValue

\* The rules that are scored by the macro: no chained transaction rule is, nor an id
\* that only the scanners without the macro report.
TxIds == {TxRules[k].rule : k \in DOMAIN TxRules}
Scored == Deduplicated \ (Chained \cap TxIds)

\* What the rule table gives to the scoring calls.
LEMMA TableShape ==
  /\ \A k \in DOMAIN MetaChecks : MetaChecks[k][1] \in Scored /\ MetaChecks[k][2] \in Points
  /\ \A k \in DOMAIN Scanners :
       /\ ScannerRules[Scanners[k]] \subseteq Rule
       /\ Scanners[k] \notin Unlisted => ScannerRules[Scanners[k]] \subseteq Scored
  /\ \A k \in DOMAIN JsonScanners : ScannerRules[JsonScanners[k]] \subseteq Scored
  /\ \A r \in Engine : RulePoints[r] > 0 => r \in Scored /\ RulePoints[r] \in Points
  /\ NullByte \in Scored
  /\ \A s, len : ScanPoints(s, len) \in Points
  /\ 5 \in Points
<1>1. MaxPoints \in Nat /\ MaxPoints >= 5
  BY InspectAssumption, BoundsAssumption
<1>2. 5 \in Points /\ 3 \in Points /\ 2 \in Points
  BY <1>1 DEF Points
<1>3. \A k \in DOMAIN MetaChecks : MetaChecks[k][1] \in Scored
  BY InspectAssumption DEF Scored, TxIds
<1>4. \A k \in DOMAIN MetaChecks : MetaChecks[k][2] \in {5, 3, 2}
  BY DEF MetaChecks
<1>5. \A s \in Range(Scanners) :
        /\ ScannerRules[s] \subseteq Rule
        /\ s \notin Unlisted => ScannerRules[s] \subseteq Scored
  BY InspectAssumption DEF Scored, TxIds
<1>6. \A k \in DOMAIN Scanners : Scanners[k] \in Range(Scanners)
  BY DEF Range
<1>7. \A k \in DOMAIN JsonScanners : JsonScanners[k] \in Range(Scanners) \ Unlisted
  <2>1. Scanners[1] = "xss" /\ Scanners[2] = "path" /\ Scanners[6] = "sqli"
        /\ {1, 2, 6} \subseteq DOMAIN Scanners
    BY DEF Scanners
  <2>2. {"xss", "path", "sqli"} \subseteq Range(Scanners)
    BY <2>1 DEF Range
  <2>3. \A k \in DOMAIN JsonScanners : JsonScanners[k] \in {"xss", "path", "sqli"} \ Unlisted
    BY DEF JsonScanners, Unlisted
  <2> QED
    BY <2>2, <2>3
<1>8. \A s, len : ScanPoints(s, len) \in {5, 2}
  BY DEF ScanPoints
<1>9. \A r \in Engine : RulePoints[r] > 0 => r \in Scored /\ RulePoints[r] \in Points
  BY <1>1, InspectAssumption DEF Scored, Deduplicated, TxIds, Points, Rule
<1>10. NullByte \in Scored
  BY InspectAssumption DEF Scored, Deduplicated, Rule
<1> QED
  BY <1>2, <1>3, <1>4, <1>5, <1>6, <1>7, <1>8, <1>9, <1>10

LEMMA TxShape ==
  ASSUME NEW k \in DOMAIN TxRules
  PROVE  TxRules[k].rule \in Engine /\ TxRules[k].points \in Points
<1>1. TxRules \in Seq([rule : Engine, points : Points, gated : BOOLEAN])
  BY InspectAssumption
<1>2. TxRules[k] \in [rule : Engine, points : Points, gated : BOOLEAN]
  BY <1>1, ElementOf
<1> QED
  BY <1>2

-----------------------------------------------------------------------------
\* The position of a JSON string belongs to a string.
LEMMA StringShape ==
  ASSUME request \in Requests, cur \in DOMAIN request.vals, step \in Nat, step >= 1, ~JsonOver
  PROVE  /\ ((step - 1) % 3) + 1 \in DOMAIN JsonScanners
         /\ LET string == Value.strings[((step - 1) \div 3) + 1] IN
              string.len \in Nat /\ string.rich \in BOOLEAN
<1>1. Value.strings \in Seq([len : Nat, rich : BOOLEAN])
  BY ValueShape DEF Value
<1>2. step \in Nat /\ step >= 1 /\ step <= 3 * Len(Value.strings)
  BY <1>1 DEF JsonOver
<1>3. ((step - 1) \div 3) + 1 \in 1 .. Len(Value.strings)
  BY <1>1, <1>2
<1>4. Value.strings[((step - 1) \div 3) + 1] \in [len : Nat, rich : BOOLEAN]
  <2>1. \A k \in 1 .. Len(Value.strings) : Value.strings[k] \in [len : Nat, rich : BOOLEAN]
    BY ONLY <1>1, ElementOf
  <2> QED
    BY ONLY <2>1, <1>3
<1>5. ((step - 1) % 3) + 1 \in 1 .. 3
  BY <1>2
<1> QED
  BY <1>4, <1>5 DEF JsonScanners

\* The calls an inspection makes: it never restarts the score or the state, and
\* it scores no chained transaction rule by the macro.
Call ==
  \/ \E r \in Scored, p \in Points : AddScore(r, p)
  \/ \E r \in Engine, p \in Points : CommitGenerated(r, p)
  \/ \E r \in Engine : MarkPredicate(r)
  \/ \E r \in Rule, p \in Points : ScoreUnrecorded(r, p)
  \/ \E rs \in SUBSET Engine : RemoveRules(rs)
  \/ \E off \in [Collections -> SUBSET Engine] : RemoveTargets(off)

\* Every step of the inspection is one of these calls or leaves the bookkeeping
\* alone.
LEMMA CallStep ==
  BundleTypeOK /\ PositionsOK /\ [BundleNext]_bundleVars => [Call]_ruleVars
<1> SUFFICES ASSUME BundleTypeOK, PositionsOK, [BundleNext]_bundleVars
             PROVE  [Call]_ruleVars
  OBVIOUS
<1> USE DEF BundleTypeOK
<1>1. \A r \in Scored, p \in Points : AddScore(r, p) => Call
  BY DEF Call
<1>2. \A r \in Engine, p \in Points : CommitGenerated(r, p) => Call
  BY DEF Call
<1>3. \A off \in Removals : RemoveTargets(off) => Call
  BY DEF Call, Removals
<1>4. CASE Controls
  BY <1>4, RequestsAssumption DEF Controls, Call
<1>5. CASE TxRule
  BY <1>5, <1>2, TxShape DEF TxRule
<1>6. CASE MetaCheck
  BY <1>6, <1>1, TableShape DEF MetaCheck, Score
<1>7. CASE ProjectValue
  BY <1>7, <1>3, ProjectedShape DEF ProjectValue
<1>8. CASE StartValue
  BY <1>8, <1>3, ValueShape DEF StartValue
<1>9. CASE RawNullByte
  BY <1>9, <1>1, TableShape DEF RawNullByte, Score
<1>10. CASE JsonString
  <2>1. ((step - 1) % 3) + 1 \in DOMAIN JsonScanners
    BY <1>10, StringShape DEF JsonString, PositionsOK, InValue
  <2>2. ASSUME NEW r \in ScannerRules[JsonScanners[((step - 1) % 3) + 1]],
               AddScore(r, 5)
        PROVE  Call
    BY <1>1, <2>1, <2>2, TableShape
  <2> QED
    BY <1>10, <2>2 DEF JsonString, Score
<1>11. CASE Scan
  <2>1. ASSUME NEW s, NEW r \in ScannerRules[s], NEW p \in Points,
               ScannerRules[s] \subseteq Rule, ScoreUnrecorded(r, p)
        PROVE  Call
    BY <2>1 DEF Call
  <2> QED
    BY <1>11, <1>1, <2>1, TableShape DEF Scan, Score, ScoreDirectly
<1>12. CASE GeneratedHit
  <2>1. PICK r \in Engine \ mask :
          MarkPredicate(r) \/ (RulePoints[r] > 0 /\ CommitGenerated(r, RulePoints[r]))
    BY <1>12 DEF GeneratedHit
  <2> QED
    BY <1>2, <2>1, TableShape DEF Call
<1>13. CASE DispatchHit
  <2>1. PICK r \in Engine \ mask : RulePoints[r] > 0 /\ AddScore(r, RulePoints[r])
    BY <1>13 DEF DispatchHit, Score
  <2> QED
    BY <1>1, <2>1, TableShape
<1>14. CASE UNCHANGED ruleVars
  BY <1>14
<1>15. (\/ TxDone \/ MetaDone \/ ProjectValueDone \/ ProjectDone \/ EmptyDone
        \/ JsonDone \/ Filter \/ ScanDone \/ DispatchDone \/ ValueEnd \/ ValuesDone
        \/ Verdict \/ Finished \/ UNCHANGED bundleVars) => UNCHANGED ruleVars
  BY DEF TxDone, MetaDone, ProjectValueDone, ProjectDone, EmptyDone, JsonDone, Filter,
         ScanDone, DispatchDone, ValueEnd, ValuesDone, Verdict, Finished, bundleVars
<1> QED
  BY <1>4, <1>5, <1>6, <1>7, <1>8, <1>9, <1>10, <1>11, <1>12, <1>13, <1>14, <1>15
     DEF BundleNext, Advance

\* These calls are calls of the bookkeeping's interface.
LEMMA CallIsNext == [Call]_ruleVars => [Next]_ruleVars
<1>1. Scored \subseteq Deduplicated
  BY DEF Scored
<1> QED
  BY <1>1 DEF Call, Next

\* The results a step can leave behind.
LEMMA Results ==
  /\ NullByte \in Rule /\ Engine \subseteq Rule
  /\ \A k \in DOMAIN TxRules : TxRules[k].rule \in Rule
  BY InspectAssumption, TxShape DEF Rule

\* The inspection's own variables stay within their types, and every position
\* is used as an index only where it is one.
LEMMA ShapeStep ==
  BundleTypeOK /\ PositionsOK /\ [BundleNext]_bundleVars => BundleTypeOK' /\ PositionsOK'
<1> SUFFICES ASSUME BundleTypeOK, PositionsOK, [BundleNext]_bundleVars
             PROVE  BundleTypeOK' /\ PositionsOK'
  OBVIOUS
<1>0. TypeOK'
  BY CallStep, CallIsNext, TypeStep DEF BundleTypeOK
<1> USE <1>0, Results DEF BundleTypeOK, PositionsOK, InValue, control, NextValue
<1>1. CASE Controls
  BY <1>1 DEF Controls
<1>2. CASE TxRule
  BY <1>2 DEF TxRule
<1>3. CASE TxDone
  BY <1>3 DEF TxDone
<1>4. CASE MetaCheck
  BY <1>4, TableShape DEF MetaCheck, Score, Scored, Deduplicated
<1>5. CASE MetaDone
  BY <1>5 DEF MetaDone
<1>6. CASE ProjectValue
  <2>1. mask' \in SUBSET Engine
    BY <1>6 DEF ProjectValue, DisabledMask, TypeOK
  <2> QED
    BY <1>6, <2>1 DEF ProjectValue
<1>7. CASE ProjectValueDone
  BY <1>7 DEF ProjectValueDone
<1>8. CASE ProjectDone
  BY <1>8 DEF ProjectDone
<1>9. CASE StartValue
  <2>1. mask' \in SUBSET Engine
    BY <1>9 DEF StartValue, DisabledMask, TypeOK
  <2>2. before' \in Nat
    BY <1>9 DEF StartValue, TypeOK
  <2>3. request.vals \in Seq(CallerValue)
    BY RequestsAssumption
  <2>4. todo' \subseteq todo /\ cur' \in DOMAIN request.vals /\ cur' \in Nat /\ step' = 1
        /\ UNCHANGED <<request, verdict, scanned, threat>> /\ nullFound' = FALSE /\ local' = 0
    BY <1>9, <2>3 DEF StartValue
  <2>5. pc' # "projectScan"
    BY <1>9 DEF StartValue
  <2>6. BundleTypeOK'
    BY <2>1, <2>2, <2>4
  <2> QED
    BY <2>4, <2>5, <2>6
<1>10. CASE EmptyDone
  BY <1>10 DEF EmptyDone
<1>11. CASE RawNullByte
  <2>1. nullFound' \in BOOLEAN
    BY <1>11, ValueShape DEF RawNullByte, Value
  <2> QED
    BY <1>11, <2>1 DEF RawNullByte, Score
<1>12. CASE JsonString
  <2>1. ((step - 1) % 3) + 1 \in DOMAIN JsonScanners
    BY <1>12, StringShape DEF JsonString
  <2>2. ScannerRules[JsonScanners[((step - 1) % 3) + 1]] \subseteq Rule
    BY <2>1, TableShape DEF Scored, Deduplicated
  <2>3. threat' \in Rule \cup {0, -1}
    BY <1>12, <2>2 DEF JsonString, Score
  <2> QED
    BY <1>12, <2>3 DEF JsonString
<1>13. CASE JsonDone
  BY <1>13 DEF JsonDone
<1>14. CASE Filter
  <2>1. threat' \in Rule \cup {0, -1} /\ scanned' \subseteq Nat /\ todo' \subseteq todo
        /\ pc' \in {"scan", "value"} /\ step' = 1
    BY <1>14 DEF Filter
  <2>2. UNCHANGED <<request, cur, mask, before, nullFound, verdict, local>>
    BY <1>14 DEF Filter
  <2> QED
    BY <1>14, <2>1, <2>2 DEF Filter
<1>15. CASE Scan
  <2>1. threat' \in Rule \cup {0, -1}
    BY <1>15, TableShape DEF Scored, Deduplicated, Scan, Score, ScoreDirectly
  <2> QED
    BY <1>15, <2>1 DEF Scan
<1>16. CASE ScanDone
  BY <1>16 DEF ScanDone
<1>17. CASE DispatchDone
  BY <1>17 DEF DispatchDone
<1>18. CASE ValueEnd
  BY <1>18 DEF ValueEnd
<1>19. CASE ValuesDone
  BY <1>19 DEF ValuesDone
<1>20. CASE Verdict
  BY <1>20 DEF Verdict
<1>21. CASE GeneratedHit
  BY <1>21 DEF GeneratedHit
<1>22. CASE DispatchHit
  <2>1. threat' \in Rule \cup {0, -1} /\ pc' \in {"dispatch", "valueEnd", "trailing"}
    BY <1>22 DEF DispatchHit, Score
  <2> QED
    BY <1>22, <2>1 DEF DispatchHit
<1>23. CASE UNCHANGED bundleVars
  BY <1>23 DEF bundleVars, ruleVars, stateVars
<1> QED
  BY <1>1, <1>2, <1>3, <1>4, <1>5, <1>6, <1>7, <1>8, <1>9, <1>10, <1>11, <1>12, <1>13,
     <1>14, <1>15, <1>16, <1>17, <1>18, <1>19, <1>20, <1>21, <1>22, <1>23
     DEF BundleNext, Advance, Finished

\* Every variable of an inspection keeps its type, for every request and rule
\* table.
THEOREM BundleTypeCorrect == BundleSpec => [](BundleTypeOK /\ PositionsOK)
<1>1. BundleInit => BundleTypeOK /\ PositionsOK
  <2> SUFFICES ASSUME BundleInit PROVE BundleTypeOK /\ PositionsOK
    OBVIOUS
  <2>1. TypeOK
    BY RuleSetsAssumption DEF BundleInit, Init, EmptyState, TypeOK, Rule
  <2>2. {threat, local, verdict} \subseteq {0} /\ step = 1 /\ pc = "controls1"
    BY DEF BundleInit
  <2>3. request \in Requests /\ cur \in Nat /\ todo \subseteq DOMAIN request.vals
        /\ mask \in SUBSET Engine /\ before \in Nat /\ nullFound \in BOOLEAN
        /\ scanned \subseteq Nat
    BY DEF BundleInit
  <2> QED
    BY <2>1, <2>2, <2>3 DEF BundleTypeOK, PositionsOK, InValue
<1> QED
  BY <1>1, ShapeStep, PTL DEF BundleSpec

\* An inspection drives the bookkeeping only through its calls: every behaviour
\* of the inspection is one of the bookkeeping.
THEOREM BookkeepingRefined == BundleSpec => Spec
<1>1. BundleInit => Init
  BY DEF BundleInit
<1> QED
  BY <1>1, CallStep, CallIsNext, BundleTypeCorrect, PTL DEF BundleSpec, Spec

\* No inspection credits a rule twice, whichever of its evaluation paths reach
\* it (the scanners that score directly excepted).
THEOREM InspectionCreditsOnce == BundleSpec => []CreditedOnce
  BY BookkeepingRefined, CreditedOnceAlways, PTL

-----------------------------------------------------------------------------
(* The verdict *)

\* A rule stands behind its threat.
Accounted(r) == credits[r] > 0 \/ (r = NullByte /\ NullByte \in disabled)

\* A rule marked in the slab was credited, unless it is a chained rule that the
\* macro dropped.  This is what lets a dismissed repeat count as accounted.
CompletedBacked == \A r \in completed : r \in Chained \ TxIds \/ credits[r] > 0

\* The inductive invariant behind VerdictIsAccounted and QuietStops: each of the
\* three places a verdict can come from is backed, and the score has reached the
\* lowest threshold it can have been compared with.
ThreatBacked ==
  /\ threat > 0 => score >= Threshold - 1 /\ Accounted(threat)
  /\ local > 0 => score >= Threshold /\ Accounted(local)
  /\ nullFound => Accounted(NullByte)
  /\ pc = "done" => verdict = IF score >= Threshold THEN threat ELSE 0

-----------------------------------------------------------------------------
\* The calls of an inspection only ever add.
LEMMA Accumulate ==
  TypeOK /\ CompletedBacked /\ [Call]_ruleVars =>
    /\ score' >= score
    /\ \A r \in Rule : credits'[r] >= credits[r]
    /\ disabled \subseteq disabled'
    /\ CompletedBacked'
<1> DEFINE Adds == /\ score' >= score
                   /\ \A r \in Rule : credits'[r] >= credits[r]
                   /\ disabled \subseteq disabled'
                   /\ CompletedBacked'
<1> SUFFICES ASSUME TypeOK, CompletedBacked, [Call]_ruleVars PROVE Adds
  OBVIOUS
<1> USE RuleSetsAssumption DEF TypeOK, CompletedBacked, Rule, Points
<1>1. ASSUME NEW r \in Scored, NEW p \in Points, AddScore(r, p) PROVE Adds
  <2>0. r \in Rule /\ (r \in Chained => r \in Chained \ TxIds)
    BY DEF Scored, Deduplicated
  <2>1. CASE UNCHANGED ruleVars
    BY <2>1 DEF ruleVars, stateVars
  <2>2. CASE r \in Chained /\ MarkSeen(r) /\ UNCHANGED <<disabled, score, credits>>
    BY <2>0, <2>2 DEF MarkSeen
  <2>3. CASE MarkSeen(r) /\ Credit(r, p) /\ UNCHANGED disabled
    <3>1. completed' \subseteq completed \cup {r}
      BY <2>3 DEF MarkSeen
    <3>2. credits' = [credits EXCEPT ![r] = @ + 1] /\ score' = score + p
      BY <2>3 DEF Credit
    <3> QED
      BY <2>0, <2>3, <3>1, <3>2
  <2> QED
    BY <1>1, <2>1, <2>2, <2>3 DEF AddScore
<1>2. ASSUME NEW r \in Engine, NEW p \in Points, CommitGenerated(r, p) PROVE Adds
  <2>1. CASE UNCHANGED ruleVars
    BY <2>1 DEF ruleVars, stateVars
  <2>2. CASE completed' = completed \cup {r} /\ Credit(r, p) /\ UNCHANGED disabled
    BY <2>2 DEF Credit
  <2> QED
    BY <1>2, <2>1, <2>2 DEF CommitGenerated
<1>3. ASSUME NEW r \in Engine, MarkPredicate(r) PROVE Adds
  BY <1>3 DEF MarkPredicate
<1>4. ASSUME NEW r \in Rule, NEW p \in Points, ScoreUnrecorded(r, p) PROVE Adds
  BY <1>4 DEF ScoreUnrecorded, Credit, stateVars
<1>5. ASSUME NEW rs \in SUBSET Engine, RemoveRules(rs) PROVE Adds
  BY <1>5 DEF RemoveRules
<1>6. ASSUME NEW off \in [Collections -> SUBSET Engine], RemoveTargets(off) PROVE Adds
  BY <1>6 DEF RemoveTargets
<1>7. CASE UNCHANGED ruleVars
  BY <1>7 DEF ruleVars, stateVars
<1> QED
  BY <1>1, <1>2, <1>3, <1>4, <1>5, <1>6, <1>7 DEF Call

\* The macro sets the threat to the rule it just credited, or leaves it.
LEMMA ScoreHit ==
  ASSUME TypeOK, NEW r \in Rule, NEW p \in Points, NEW threshold \in Int,
         Score(r, p, threshold)
  PROVE  \/ threat' = threat
         \/ threat' = r /\ score' >= threshold /\ credits'[r] > 0
<1>1. CASE Fires(r) /\ score + p >= threshold
  <2>1. Credit(r, p) /\ threat' = r
    BY <1>1 DEF Score, AddScore, Fires
  <2> QED
    BY <1>1, <2>1 DEF Credit, TypeOK
<1> QED
  BY <1>1 DEF Score

\* The scanners that write the score themselves likewise.
LEMMA DirectHit ==
  ASSUME TypeOK, before \in Nat, NEW r \in Rule, NEW p \in Points, NEW threshold \in Int,
         ScoreDirectly(r, p, threshold)
  PROVE  \/ threat' = threat
         \/ threat' = r /\ score' >= threshold /\ credits'[r] > 0
<1>1. CASE score + p - before >= threshold
  <2>1. Credit(r, p)
    BY DEF ScoreDirectly, ScoreUnrecorded
  <2> QED
    BY <1>1, <2>1 DEF Credit, TypeOK, ScoreDirectly, Points
<1> QED
  BY <1>1 DEF ScoreDirectly

\* A generated hit or a transaction rule likewise, for the local result.
LEMMA CommitHit ==
  ASSUME TypeOK, NEW r \in Engine, NEW p \in Points, CommitGenerated(r, p),
         local' = IF score' > score /\ score' >= Threshold THEN r ELSE local
  PROVE  \/ local' = local
         \/ local' = r /\ score' >= Threshold /\ credits'[r] > 0
<1>1. CASE UNCHANGED ruleVars
  BY <1>1 DEF ruleVars, TypeOK
<1>2. CASE Credit(r, p)
  BY <1>2 DEF Credit, TypeOK, Rule
<1> QED
  BY <1>1, <1>2 DEF CommitGenerated

-----------------------------------------------------------------------------
\* How the threat can change: a rule scores, the result of a generated part is
\* taken over, or the null-byte fallback speaks.
NewThreat ==
  \/ threat' \in Rule /\ score' >= Threshold - 1 /\ credits'[threat'] > 0
  \/ local # 0 /\ threat' = local
  \/ nullFound /\ score >= Threshold /\ threat' = NullByte

LEMMA ThreatStep ==
  BundleTypeOK /\ PositionsOK /\ [BundleNext]_bundleVars => threat' = threat \/ NewThreat
<1> SUFFICES ASSUME BundleTypeOK, PositionsOK, [BundleNext]_bundleVars
             PROVE  threat' = threat \/ NewThreat
  OBVIOUS
<1> USE DEF BundleTypeOK, PositionsOK, InValue
<1>0. \A r, p, threshold : r \in Scored /\ p \in Points /\ threshold \in Int
        /\ threshold >= Threshold - 1 /\ Score(r, p, threshold) => threat' = threat \/ NewThreat
  <2> SUFFICES ASSUME NEW r \in Scored, NEW p \in Points, NEW threshold \in Int,
                      threshold >= Threshold - 1, Score(r, p, threshold)
               PROVE  threat' = threat \/ NewThreat
    OBVIOUS
  <2>1. r \in Rule /\ score' \in Int
    BY CallStep, CallIsNext, TypeStep DEF Scored, Deduplicated, TypeOK
  <2>2. \/ threat' = threat
        \/ threat' = r /\ score' >= threshold /\ credits'[r] > 0
    BY <2>1, ScoreHit
  <2> QED
    BY <2>1, <2>2 DEF NewThreat, Threshold
<1>a. \A len \in Nat, rich \in BOOLEAN :
        /\ Adaptive(len, rich) + before \in Int
        /\ Adaptive(len, rich) + before >= Threshold - 1
        /\ Adaptive(len, rich) \in Int /\ Adaptive(len, rich) >= Threshold - 1
  BY AdaptiveBounds DEF Threshold
<1>1. CASE MetaCheck
  BY <1>0, <1>1, TableShape DEF MetaCheck, Threshold
<1>2. CASE RawNullByte
  <2>1. Value.len \in Nat /\ Value.rich \in BOOLEAN
    BY <1>2, ValueShape DEF RawNullByte, Value
  <2> QED
    BY <1>0, <1>a, <1>2, <2>1, TableShape DEF RawNullByte
<1>3. CASE JsonString
  <2> DEFINE scanner == JsonScanners[((step - 1) % 3) + 1]
             string  == Value.strings[((step - 1) \div 3) + 1]
  <2>1. string.len \in Nat /\ string.rich \in BOOLEAN /\ ScannerRules[scanner] \subseteq Scored
    BY <1>3, StringShape, TableShape DEF JsonString
  <2>2. Adaptive(string.len, string.rich) + before \in Int
        /\ Adaptive(string.len, string.rich) + before >= Threshold - 1
    BY <1>a, <2>1
  <2>3. threat' = threat \/ \E r \in ScannerRules[scanner] :
          Score(r, 5, Adaptive(string.len, string.rich) + before)
    BY <1>3 DEF JsonString
  <2> HIDE DEF scanner, string
  <2> QED
    BY <1>0, <2>1, <2>2, <2>3, TableShape
<1>4. CASE Scan
  <2> DEFINE scanner == Scanners[step]
             limit   == Adaptive(Value.dlen, Value.rich)
             points  == ScanPoints(scanner, Value.dlen)
  <2>1. limit \in Int /\ limit >= Threshold - 1 /\ limit + before \in Int
        /\ limit + before >= Threshold - 1
    BY <1>a, <1>4, ValueShape DEF Scan, Value
  <2>2. /\ ScannerRules[scanner] \subseteq Rule /\ points \in Points
        /\ scanner \notin Unlisted => ScannerRules[scanner] \subseteq Scored
    BY <1>4, TableShape DEF Scan
  <2>3. \/ threat' = threat
        \/ scanner \notin Unlisted
           /\ \E r \in ScannerRules[scanner] : Score(r, points, limit + before)
        \/ \E r \in ScannerRules[scanner] : ScoreDirectly(r, points, limit)
    BY <1>4 DEF Scan
  <2> HIDE DEF scanner, limit, points
  <2>4. ASSUME NEW r \in ScannerRules[scanner], ScoreDirectly(r, points, limit)
        PROVE  threat' = threat \/ NewThreat
    <3>1. r \in Rule
      BY <2>2 DEF Scored, Deduplicated
    <3>2. score' \in Int
      BY CallStep, CallIsNext, TypeStep DEF TypeOK
    <3>3. \/ threat' = threat
          \/ threat' = r /\ score' >= limit /\ credits'[r] > 0
      BY <2>1, <2>2, <2>4, <3>1, DirectHit
    <3> QED
      BY <2>1, <3>1, <3>2, <3>3 DEF NewThreat, Threshold
  <2> QED
    BY <1>0, <2>1, <2>2, <2>3, <2>4
<1>5. CASE DispatchHit
  <2>1. PICK r \in Engine : RulePoints[r] > 0
               /\ Score(r, RulePoints[r], Adaptive(Value.dlen, Value.rich) + before)
    BY <1>5 DEF DispatchHit
  <2>2. Value.dlen \in Nat /\ Value.rich \in BOOLEAN
    BY <1>5, ValueShape DEF DispatchHit, Value
  <2> QED
    BY <1>0, <1>a, <2>1, <2>2, TableShape
<1>6. CASE TxDone \/ ProjectDone \/ EmptyDone
  BY <1>6 DEF TxDone, ProjectDone, EmptyDone, NewThreat
<1>7. CASE Filter \/ ValueEnd
  BY <1>7 DEF Filter, ValueEnd, NewThreat
<1>8. CASE UNCHANGED threat
  BY <1>8
<1>9. (\/ Controls \/ TxRule \/ MetaDone \/ ProjectValue \/ ProjectValueDone \/ StartValue
       \/ JsonDone \/ ScanDone \/ DispatchDone \/ ValuesDone \/ Verdict \/ GeneratedHit
       \/ Finished \/ UNCHANGED bundleVars) => UNCHANGED threat
  BY DEF Controls, TxRule, MetaDone, ProjectValue, ProjectValueDone, StartValue, JsonDone,
         ScanDone, DispatchDone, ValuesDone, Verdict, GeneratedHit, Finished, bundleVars
<1> QED
  BY <1>1, <1>2, <1>3, <1>4, <1>5, <1>6, <1>7, <1>8, <1>9 DEF BundleNext, Advance

\* Once a threat is found, no later step takes it back.
LEMMA ThreatKeptStep ==
  BundleTypeOK /\ PositionsOK /\ [BundleNext]_bundleVars => (threat # 0 => threat' # 0)
<1>1. \A r \in Rule : r # 0
  BY RuleSetsAssumption DEF Rule
<1> QED
  BY <1>1, ThreatStep, Results DEF NewThreat

\* Whatever threat the inspection ends with, an earlier evaluation path's
\* finding was never dropped.
THEOREM ThreatKept == BundleSpec => ThreatIsKept
  BY ThreatKeptStep, BundleTypeCorrect, PTL DEF BundleSpec, ThreatIsKept

-----------------------------------------------------------------------------
\* A rule that is accounted for stays so.
LEMMA AccountedStays ==
  ASSUME BundleTypeOK, PositionsOK, CompletedBacked, [BundleNext]_bundleVars
  PROVE  /\ score' \in Nat /\ score \in Nat /\ score' >= score
         /\ \A r \in Rule : Accounted(r) => Accounted(r)'
         /\ \A r \in Rule : credits'[r] > 0 => Accounted(r)'
         /\ CompletedBacked'
<1>1. TypeOK /\ TypeOK'
  BY CallStep, CallIsNext, TypeStep DEF BundleTypeOK
<1>2. /\ score' >= score
      /\ \A r \in Rule : credits'[r] >= credits[r]
      /\ disabled \subseteq disabled'
      /\ CompletedBacked'
  BY <1>1, CallStep, Accumulate
<1> QED
  BY <1>1, <1>2 DEF Accounted, TypeOK

\* How the result of a generated part can change.
LEMMA LocalStep ==
  BundleTypeOK /\ PositionsOK /\ [BundleNext]_bundleVars =>
    \/ local' = local
    \/ local' \in {0, -1}
    \/ local' \in Engine /\ score' >= Threshold /\ credits'[local'] > 0
<1> SUFFICES ASSUME BundleTypeOK, PositionsOK, [BundleNext]_bundleVars
             PROVE  \/ local' = local
                    \/ local' \in {0, -1}
                    \/ local' \in Engine /\ score' >= Threshold /\ credits'[local'] > 0
  OBVIOUS
<1> USE DEF BundleTypeOK, PositionsOK
<1>1. CASE TxRule
  BY <1>1, CommitHit, TxShape DEF TxRule
<1>2. CASE GeneratedHit
  <2>1. PICK r \in Engine :
          \/ UNCHANGED local
          \/ /\ RulePoints[r] > 0
             /\ CommitGenerated(r, RulePoints[r])
             /\ local' = IF score' > score /\ score' >= Threshold THEN r ELSE local
    BY <1>2 DEF GeneratedHit
  <2> QED
    BY <2>1, CommitHit, TableShape
<1>3. CASE Controls \/ MetaDone \/ ProjectValueDone \/ StartValue
  BY <1>3 DEF Controls, MetaDone, ProjectValueDone, StartValue
<1>4. (\/ TxDone \/ MetaCheck \/ ProjectValue \/ ProjectDone \/ EmptyDone \/ RawNullByte
       \/ JsonString \/ JsonDone \/ Filter \/ Scan \/ ScanDone \/ DispatchDone \/ ValueEnd
       \/ ValuesDone \/ Verdict \/ DispatchHit \/ Finished \/ UNCHANGED bundleVars)
      => UNCHANGED local
  BY DEF TxDone, MetaCheck, ProjectValue, ProjectDone, EmptyDone, RawNullByte, JsonString,
         JsonDone, Filter, Scan, ScanDone, DispatchDone, ValueEnd, ValuesDone, Verdict,
         DispatchHit, Finished, bundleVars
<1> QED
  BY <1>1, <1>2, <1>3, <1>4 DEF BundleNext, Advance

\* A null byte counts as found only after its rule was offered for scoring.
LEMMA NullStep ==
  BundleTypeOK /\ PositionsOK /\ CompletedBacked /\ [BundleNext]_bundleVars /\ nullFound'
    => nullFound \/ Accounted(NullByte)'
<1> SUFFICES ASSUME BundleTypeOK, PositionsOK, CompletedBacked, [BundleNext]_bundleVars, nullFound'
             PROVE  nullFound \/ Accounted(NullByte)'
  OBVIOUS
<1>1. CASE RawNullByte
  <2>1. AddScore(NullByte, 5)
    BY <1>1 DEF RawNullByte, Score, BundleTypeOK
  <2>2. CASE UNCHANGED ruleVars
    BY <2>1, <2>2, InspectAssumption DEF AddScore, ruleVars, stateVars, Accounted, CompletedBacked, Seen, Fires,
         MarkSeen, Credit, TypeOK, BundleTypeOK, Rule, Points
  <2>3. CASE Credit(NullByte, 5)
    BY <2>3, InspectAssumption DEF Credit, Accounted, TypeOK, BundleTypeOK, Rule
  <2> QED
    BY <2>1, <2>2, <2>3, InspectAssumption DEF AddScore
<1>2. nullFound' = nullFound \/ nullFound' = FALSE \/ RawNullByte
  BY DEF BundleNext, Advance, Controls, TxRule, TxDone, MetaCheck, MetaDone, ProjectValue,
         ProjectValueDone, ProjectDone, StartValue, EmptyDone, JsonString, JsonDone, Filter,
         Scan, ScanDone, DispatchDone, ValueEnd, ValuesDone, Verdict, GeneratedHit,
         DispatchHit, Finished, bundleVars, control
<1> QED
  BY <1>1, <1>2 DEF BundleTypeOK

\* The verdict is computed in the last step, from the score and the threat.
LEMMA DoneStep ==
  [BundleNext]_bundleVars =>
    \/ pc' # "done"
    \/ pc = "done" /\ UNCHANGED <<score, threat, verdict>>
    \/ verdict' = (IF score >= Threshold THEN threat ELSE 0) /\ UNCHANGED <<score, threat>>
  BY DEF BundleNext, Advance, Controls, TxRule, TxDone, MetaCheck, MetaDone, ProjectValue,
         ProjectValueDone, ProjectDone, StartValue, EmptyDone, RawNullByte, JsonString, JsonDone,
         Filter, Scan, ScanDone, DispatchDone, ValueEnd, ValuesDone, Verdict, GeneratedHit,
         DispatchHit, Finished, bundleVars, ruleVars, control, NextValue

\* The strengthened invariant survives every step.
LEMMA BackedStep ==
  BundleTypeOK /\ PositionsOK /\ CompletedBacked /\ ThreatBacked /\ [BundleNext]_bundleVars
    => CompletedBacked' /\ ThreatBacked'
<1> SUFFICES ASSUME BundleTypeOK, PositionsOK, CompletedBacked, ThreatBacked,
                    [BundleNext]_bundleVars
             PROVE  CompletedBacked' /\ ThreatBacked'
  OBVIOUS
<1>1. /\ score' \in Nat /\ score \in Nat /\ score' >= score
      /\ \A r \in Rule : Accounted(r) => Accounted(r)'
      /\ \A r \in Rule : credits'[r] > 0 => Accounted(r)'
      /\ CompletedBacked'
  BY AccountedStays
<1>2. /\ {threat, local} \subseteq Rule \cup {0, -1}
      /\ NullByte \in Rule /\ Engine \subseteq Rule
      /\ \A r \in Rule : r \in Nat
  BY Results, RuleSetsAssumption DEF BundleTypeOK, Rule
<1>3. nullFound' => Accounted(NullByte)'
  BY <1>1, <1>2, NullStep DEF ThreatBacked
<1>4. local' > 0 => score' >= Threshold /\ Accounted(local)'
  BY <1>1, <1>2, LocalStep DEF ThreatBacked, Accounted, Threshold
<1>5. threat' > 0 => score' >= Threshold - 1 /\ Accounted(threat)'
  BY <1>1, <1>2, ThreatStep DEF ThreatBacked, Accounted, Threshold, NewThreat
<1>6. pc' = "done" => verdict' = IF score' >= Threshold THEN threat' ELSE 0
  BY DoneStep DEF ThreatBacked
<1> QED
  BY <1>1, <1>3, <1>4, <1>5, <1>6 DEF ThreatBacked

LEMMA Backed == BundleSpec => [](CompletedBacked /\ ThreatBacked)
<1>1. BundleInit => CompletedBacked /\ ThreatBacked
  BY DEF BundleInit, Init, EmptyState, CompletedBacked, ThreatBacked
<1> QED
  BY <1>1, BackedStep, BundleTypeCorrect, PTL DEF BundleSpec

\* No request is blocked for a rule that was not credited (the null-byte
\* fallback for a removed rule excepted), for every rule table and request.
THEOREM VerdictAlwaysAccounted == BundleSpec => []VerdictIsAccounted
<1>1. ThreatBacked => VerdictIsAccounted
  BY DEF ThreatBacked, VerdictIsAccounted, Accounted, Threshold
<1> QED
  BY <1>1, Backed, PTL

\* An inspection that ended with a threat passes the request only when the XML
\* parser gave up or the score is exactly one point short of the limit.
THEOREM QuietStopsExplained == BundleSpec => []QuietStops
<1>1. BundleTypeOK /\ ThreatBacked => QuietStops
  <2> SUFFICES ASSUME BundleTypeOK, ThreatBacked, pc = "done", verdict = 0, threat # 0,
                      threat # -1
               PROVE  score = Threshold - 1
    BY DEF QuietStops
  <2>1. threat > 0
    <3>1. threat \in Rule \cup {0, -1}
      BY DEF BundleTypeOK
    <3> QED
      BY <3>1, RuleSetsAssumption DEF Rule
  <2>2. score \in Nat
    BY DEF BundleTypeOK, TypeOK
  <2> QED
    BY <2>1, <2>2 DEF ThreatBacked, Threshold
<1> QED
  BY <1>1, Backed, BundleTypeCorrect, PTL

-----------------------------------------------------------------------------
(* Every value and every transaction rule has its turn. *)

AfterValues == {"controls2", "tx2", "verdict", "done"}

\* The inductive invariant behind NoThreatMeansAllScanned: a value the loop is
\* done with was evaluated or left out, or there is a threat.
NothingLost ==
  /\ \A i \in DOMAIN request.vals :
       i \in todo \/ i \in scanned \/ LeftOut(request.vals[i]) \/ threat # 0
  /\ pc \in AfterValues => threat # 0 \/ todo = {}

LEMMA LossStep ==
  BundleTypeOK /\ PositionsOK /\ NothingLost /\ [BundleNext]_bundleVars => NothingLost'
<1> SUFFICES ASSUME BundleTypeOK, PositionsOK, NothingLost, [BundleNext]_bundleVars
             PROVE  NothingLost'
  OBVIOUS
<1>1. threat # 0 => threat' # 0
  BY ThreatKeptStep
<1> USE <1>1 DEF NothingLost, AfterValues, LeftOut, NextValue, control
<1>2. CASE UNCHANGED <<request, todo, scanned>> /\ (pc' \in AfterValues => pc \in AfterValues)
  BY <1>2
<1>3. CASE StartValue
  BY <1>3 DEF StartValue
<1>4. CASE EmptyDone \/ ValueEnd
  BY <1>4 DEF EmptyDone, ValueEnd
<1>5. CASE JsonDone
  BY <1>5 DEF JsonDone
<1>6. CASE Filter
  BY <1>6 DEF Filter
<1>7. CASE ValuesDone
  BY <1>7 DEF ValuesDone
<1>8. (\/ Controls \/ TxRule \/ TxDone \/ MetaCheck \/ MetaDone \/ ProjectValue
       \/ ProjectValueDone \/ ProjectDone \/ RawNullByte \/ JsonString \/ Scan \/ ScanDone
       \/ DispatchDone \/ Verdict \/ GeneratedHit \/ DispatchHit \/ Finished
       \/ UNCHANGED bundleVars)
      => UNCHANGED <<request, todo, scanned>> /\ (pc' \in AfterValues => pc \in AfterValues)
  BY DEF Controls, TxRule, TxDone, MetaCheck, MetaDone, ProjectValue, ProjectValueDone,
         ProjectDone, RawNullByte, JsonString, Scan, ScanDone, DispatchDone, Verdict,
         GeneratedHit, DispatchHit, Finished, bundleVars
<1> QED
  BY <1>2, <1>3, <1>4, <1>5, <1>6, <1>7, <1>8 DEF BundleNext, Advance

\* Without a threat no value of the request is skipped, whatever their number,
\* lengths and kinds.
THEOREM NothingSkipped == BundleSpec => []NoThreatMeansAllScanned
<1>1. BundleInit => NothingLost
  BY DEF BundleInit, NothingLost, AfterValues
<1>2. NothingLost => NoThreatMeansAllScanned
  BY DEF NothingLost, NoThreatMeansAllScanned, AfterValues
<1> QED
  BY <1>1, <1>2, LossStep, BundleTypeCorrect, PTL DEF BundleSpec

\* A transaction rule whose condition holds was credited, unless it is removed.
Settled(k) ==
  TxRuleFires(TxRules[k]) /\ TxRules[k].rule \notin disabled => credits[TxRules[k].rule] > 0

\* The inductive invariant behind TransactionRulesSettle: the second pass has
\* settled every rule before its position, and nothing unsettles one afterwards.
SettledSoFar ==
  /\ pc = "tx2" => \A k \in DOMAIN TxRules : k < step => Settled(k)
  /\ pc \in {"verdict", "done"} => \A k \in DOMAIN TxRules : Settled(k)

\* The table is consulted whole: a position past its end has passed every entry.
LEMMA PastTheEnd ==
  ASSUME step \in Nat, step >= 1
  PROVE  /\ \A k \in DOMAIN TxRules : k \in Nat /\ k >= 1
         /\ step \notin DOMAIN TxRules => \A k \in DOMAIN TxRules : k < step
<1>1. TxRules \in Seq([rule : Engine, points : Points, gated : BOOLEAN])
  BY InspectAssumption
<1>2. DOMAIN TxRules = 1 .. Len(TxRules) /\ Len(TxRules) \in Nat
  BY <1>1
<1> QED
  BY <1>2

LEMMA SettleStep ==
  BundleTypeOK /\ PositionsOK /\ CompletedBacked /\ SettledSoFar /\ [BundleNext]_bundleVars
    => SettledSoFar'
<1> SUFFICES ASSUME BundleTypeOK, PositionsOK, CompletedBacked, SettledSoFar,
                    [BundleNext]_bundleVars
             PROVE  SettledSoFar'
  OBVIOUS
<1>1. TypeOK /\ TypeOK' /\ step \in Nat /\ step >= 1
  BY CallStep, CallIsNext, TypeStep DEF BundleTypeOK, PositionsOK
<1>2. CASE TxRule
  <2> DEFINE t == TxRules[step]
  <2>1. step \in DOMAIN TxRules /\ t.rule \in Engine /\ t.points \in Points
        /\ pc' = pc /\ step' = step + 1 /\ request' = request
    BY <1>2, TxShape DEF TxRule, control
  <2>2. UNCHANGED <<predicate, disabled>>
        /\ \A r \in Rule : credits[r] > 0 => credits'[r] > 0
    <3>1. CASE UNCHANGED ruleVars
      BY <3>1 DEF ruleVars, stateVars
    <3>2. CASE Credit(t.rule, t.points) /\ UNCHANGED <<predicate, disabled>>
      BY <1>1, <2>1, <3>2 DEF Credit, TypeOK, Rule
    <3>3. CommitGenerated(t.rule, t.points) \/ UNCHANGED ruleVars
      BY <1>2 DEF TxRule
    <3> QED
      BY <3>1, <3>2, <3>3 DEF CommitGenerated
  <2>3. \A k \in DOMAIN TxRules : Settled(k) => Settled(k)'
    BY <2>1, <2>2, TxShape DEF Settled, TxRuleFires, Rule
  <2>4. \A k \in DOMAIN TxRules : k = step => Settled(k)'
    <3> SUFFICES ASSUME TxRuleFires(t), t.rule \notin disabled PROVE credits'[t.rule] > 0
      BY <2>1, <2>2 DEF Settled, TxRuleFires
    <3>1. CommitGenerated(t.rule, t.points)
      BY <1>2 DEF TxRule
    <3>2. CASE t.rule \in completed
      BY <2>1, <2>2, <3>2 DEF CompletedBacked, Rule, TxIds
    <3>3. CASE t.rule \notin completed
      <4>1. Credit(t.rule, t.points)
        BY <3>1, <3>3 DEF CommitGenerated
      <4> QED
        BY <1>1, <2>1, <4>1 DEF Credit, TypeOK, Rule
    <3> QED
      BY <3>2, <3>3
  <2> QED
    BY <1>1, <1>2, <2>1, <2>3, <2>4, PastTheEnd DEF SettledSoFar, TxRule
<1>3. CASE TxDone
  BY <1>1, <1>3, PastTheEnd DEF TxDone, SettledSoFar, Settled, TxRuleFires, control, ruleVars,
     stateVars
<1>4. CASE Controls
  BY <1>4, <1>1, PastTheEnd DEF Controls, SettledSoFar, control
<1>5. CASE Verdict \/ Finished \/ UNCHANGED bundleVars
  BY <1>5 DEF Verdict, Finished, SettledSoFar, Settled, TxRuleFires, bundleVars, control,
     ruleVars, stateVars
<1>6. CASE pc' \notin {"tx2", "verdict", "done"}
  BY <1>6 DEF SettledSoFar
<1>7. (\/ MetaCheck \/ MetaDone \/ ProjectValue \/ ProjectValueDone \/ ProjectDone
       \/ StartValue \/ EmptyDone \/ RawNullByte \/ JsonString \/ JsonDone \/ Filter \/ Scan
       \/ ScanDone \/ DispatchDone \/ ValueEnd \/ ValuesDone \/ GeneratedHit \/ DispatchHit)
      => pc' \notin {"tx2", "verdict", "done"}
  BY DEF MetaCheck, MetaDone, ProjectValue, ProjectValueDone, ProjectDone, StartValue,
         EmptyDone, RawNullByte, JsonString, JsonDone, Filter, Scan, ScanDone, DispatchDone,
         ValueEnd, ValuesDone, GeneratedHit, DispatchHit, NextValue, control
<1> QED
  BY <1>2, <1>3, <1>4, <1>5, <1>6, <1>7 DEF BundleNext, Advance

\* Whichever predicates the values and projections recorded, at the verdict no
\* transaction rule that should have fired is missing.
THEOREM TransactionRulesSettled == BundleSpec => []TransactionRulesSettle
<1>1. BundleInit => SettledSoFar
  BY DEF BundleInit, SettledSoFar
<1>2. SettledSoFar => TransactionRulesSettle
  BY DEF SettledSoFar, Settled, TransactionRulesSettle
<1> QED
  BY <1>1, <1>2, SettleStep, Backed, BundleTypeCorrect, PTL DEF BundleSpec

-----------------------------------------------------------------------------
(* Null bytes, and rules removed for a collection. *)

BeforeValues == {"controls1", "tx1", "meta", "project", "projectScan", "empty"}

\* The inductive invariant behind NullByteIsNotIgnored: nothing but the current
\* value can have held the null byte.
NullIsOwn ==
  /\ pc \in BeforeValues => ~nullFound
  /\ pc = "value" /\ nullFound /\ score >= Threshold => threat # 0

LEMMA NullOwnStep ==
  BundleTypeOK /\ PositionsOK /\ NullIsOwn /\ [BundleNext]_bundleVars => NullIsOwn'
<1> SUFFICES ASSUME BundleTypeOK, PositionsOK, NullIsOwn, [BundleNext]_bundleVars
             PROVE  NullIsOwn'
  OBVIOUS
<1>1. NullByte # 0
  BY DEF NullByte
<1> USE <1>1 DEF NullIsOwn, BeforeValues, control, NextValue
<1>2. CASE StartValue
  BY <1>2 DEF StartValue
<1>3. CASE EmptyDone
  BY <1>3 DEF EmptyDone
<1>4. CASE JsonDone
  BY <1>4 DEF JsonDone
<1>5. CASE Filter
  BY <1>5 DEF Filter, ruleVars
<1>6. CASE ValueEnd
  BY <1>6 DEF ValueEnd, ruleVars
<1>7. CASE ProjectDone
  BY <1>7 DEF ProjectDone
<1>8. CASE /\ pc' # "value"
           /\ pc' \in BeforeValues => pc \in BeforeValues /\ UNCHANGED nullFound
  BY <1>8
<1>9. CASE UNCHANGED bundleVars
  BY <1>9 DEF bundleVars, ruleVars
<1>10. (\/ Controls \/ TxRule \/ TxDone \/ MetaCheck \/ MetaDone \/ ProjectValue
        \/ ProjectValueDone \/ RawNullByte \/ JsonString \/ Scan \/ ScanDone \/ DispatchDone
        \/ ValuesDone \/ Verdict \/ GeneratedHit \/ DispatchHit)
       => /\ pc' # "value"
          /\ pc' \in BeforeValues => pc \in BeforeValues /\ UNCHANGED nullFound
  BY DEF Controls, TxRule, TxDone, MetaCheck, MetaDone, ProjectValue, ProjectValueDone,
         RawNullByte, JsonString, Scan, ScanDone, DispatchDone, ValuesDone, Verdict,
         GeneratedHit, DispatchHit
<1> QED
  BY <1>2, <1>3, <1>4, <1>5, <1>6, <1>7, <1>8, <1>9, <1>10 DEF BundleNext, Advance, Finished

\* After a value that held a null byte, whatever the scanners found in it, the
\* rule is among the credits, or removed, and a score over the limit has a threat.
THEOREM NullByteNeverIgnored == BundleSpec => []NullByteIsNotIgnored
<1>1. BundleInit => NullIsOwn
  BY DEF BundleInit, NullIsOwn
<1>2. NullIsOwn /\ ThreatBacked => NullByteIsNotIgnored
  BY DEF NullIsOwn, ThreatBacked, Accounted, NullByteIsNotIgnored
<1> QED
  BY <1>1, <1>2, NullOwnStep, Backed, BundleTypeCorrect, PTL DEF BundleSpec

\* The inductive invariant behind RemovedTargetsAreSilent: the mask computed when
\* a value is taken is what the removals say for as long as it is evaluated.
MaskIsCurrent ==
  /\ pc \in InValue => mask = DisabledMask(disabled, targetsOff, Value.colls)
  /\ pc = "projectScan" =>
       mask = DisabledMask(disabled, targetsOff, request.projected[step].colls)

\* Scoring removes nothing.
LEMMA ScoringRemovesNothing ==
  /\ \A r, p : AddScore(r, p) => UNCHANGED <<disabled, targetsOff>>
  /\ \A r, p : CommitGenerated(r, p) => UNCHANGED <<disabled, targetsOff>>
  /\ \A r, p : ScoreUnrecorded(r, p) => UNCHANGED <<disabled, targetsOff>>
  /\ \A r : MarkPredicate(r) => UNCHANGED <<disabled, targetsOff>>
  BY DEF AddScore, CommitGenerated, ScoreUnrecorded, MarkPredicate, ruleVars, stateVars

LEMMA MaskStep ==
  BundleTypeOK /\ PositionsOK /\ MaskIsCurrent /\ [BundleNext]_bundleVars => MaskIsCurrent'
<1> SUFFICES ASSUME BundleTypeOK, PositionsOK, MaskIsCurrent, [BundleNext]_bundleVars
             PROVE  MaskIsCurrent'
  OBVIOUS
<1> DEFINE Stays == /\ UNCHANGED <<disabled, targetsOff, mask, cur, request>>
                    /\ pc' \in InValue => pc \in InValue
                    /\ pc' = "projectScan" => pc = "projectScan" /\ UNCHANGED step
<1> USE DEF control, NextValue, InValue
<1>1. Stays => MaskIsCurrent'
  BY DEF MaskIsCurrent, Value
<1>2. CASE pc' \notin InValue /\ pc' # "projectScan"
  BY <1>2 DEF MaskIsCurrent
<1>3. CASE ProjectValue
  BY <1>3 DEF ProjectValue, MaskIsCurrent, RemoveTargets
<1>4. CASE StartValue
  BY <1>4 DEF StartValue, MaskIsCurrent, RemoveTargets, Value
<1>5. RawNullByte \/ JsonString \/ Scan \/ DispatchHit \/ GeneratedHit => Stays
  BY ScoringRemovesNothing
  DEF RawNullByte, JsonString, Scan, DispatchHit, GeneratedHit, Score, ScoreDirectly, ruleVars,
      stateVars
<1>6. JsonDone \/ Filter \/ ScanDone \/ DispatchDone \/ UNCHANGED bundleVars => Stays
  BY DEF JsonDone, Filter, ScanDone, DispatchDone, bundleVars, ruleVars, stateVars
<1>7. (\/ Controls \/ TxRule \/ TxDone \/ MetaCheck \/ MetaDone \/ ProjectValueDone
       \/ ProjectDone \/ EmptyDone \/ ValueEnd \/ ValuesDone \/ Verdict)
      => pc' \notin InValue /\ pc' # "projectScan"
  BY DEF Controls, TxRule, TxDone, MetaCheck, MetaDone, ProjectValueDone, ProjectDone,
         EmptyDone, ValueEnd, ValuesDone, Verdict
<1> HIDE DEF Stays
<1> QED
  BY <1>1, <1>2, <1>3, <1>4, <1>5, <1>6, <1>7 DEF BundleNext, Advance, Finished

\* What the generated rules of a value may credit.
LEMMA CreditsOutsideMask ==
  ASSUME BundleTypeOK, PositionsOK, [BundleNext]_bundleVars,
         pc \in {"dispatch", "trailing", "empty", "projectScan"}
  PROVE  \A r \in mask : credits'[r] = credits[r]
<1> SUFFICES ASSUME NEW r \in mask PROVE credits'[r] = credits[r]
  OBVIOUS
<1> USE DEF BundleTypeOK
<1>1. ASSUME NEW s \in Engine \ mask, NEW p, Credit(s, p) PROVE credits'[r] = credits[r]
  BY <1>1 DEF Credit, TypeOK, Rule
<1>2. CASE GeneratedHit
  BY <1>1, <1>2 DEF GeneratedHit, MarkPredicate, CommitGenerated, ruleVars
<1>3. CASE DispatchHit
  BY <1>1, <1>3 DEF DispatchHit, Score, AddScore, ruleVars
<1>4. CASE UNCHANGED ruleVars
  BY <1>4 DEF ruleVars
<1>5. GeneratedHit \/ DispatchHit \/ UNCHANGED ruleVars
  BY DEF BundleNext, Advance, Controls, TxRule, TxDone, MetaCheck, MetaDone, ProjectValue,
         ProjectValueDone, ProjectDone, StartValue, EmptyDone, RawNullByte, JsonString, JsonDone,
         Filter, Scan, ScanDone, DispatchDone, ValueEnd, ValuesDone, Verdict, Finished,
         bundleVars
<1> QED
  BY <1>2, <1>3, <1>4, <1>5

\* The dispatch of the generated rules credits none whose target was removed for the
\* collections of the value, by this value's controls or by earlier ones; nothing is
\* said of the hand-written scanners, which do not look at targets.
THEOREM RemovedTargetsSilent == BundleSpec => RemovedTargetsAreSilent
<1> DEFINE A == /\ pc \in {"dispatch", "trailing", "empty"} => Silent(Value)
                /\ pc = "projectScan" => Silent(request.projected[step])
<1>1. BundleInit => MaskIsCurrent
  BY DEF BundleInit, MaskIsCurrent, InValue
<1>2. BundleTypeOK /\ PositionsOK /\ MaskIsCurrent /\ [BundleNext]_bundleVars => A
  BY CreditsOutsideMask DEF MaskIsCurrent, Silent, InValue
<1>3. BundleTypeOK /\ PositionsOK /\ MaskIsCurrent /\ [BundleNext]_bundleVars => [A]_bundleVars
  BY <1>2
<1> QED
  BY <1>1, <1>3, MaskStep, BundleTypeCorrect, PTL DEF BundleSpec, RemovedTargetsAreSilent
=============================================================================
