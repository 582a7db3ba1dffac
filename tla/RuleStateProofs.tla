--------------------------- MODULE RuleStateProofs ---------------------------
(***************************************************************************)
(* The rule bookkeeping is correct for every rule table, every hash-slot   *)
(* layout and every capacity, whatever calls its clients make.             *)
(***************************************************************************)
EXTENDS RuleState, TLAPS

(***************************************************************************)
(* A credited rule is remembered: in the slab if it is generated, in the   *)
(* hash set otherwise.  This makes CreditedOnce inductive.                 *)
(***************************************************************************)
CreditedAreSeen == \A r \in Rule \ Unrecorded : credits[r] > 0 => Seen(r)

\* No two ids of hand-written scanners share a hash bit.
DistinctSlots == \A r, s \in RuntimeOnly : Slot(r) = Slot(s) => r = s

\* A rule id hashes into the 512-bit set.
LEMMA SlotInRange == ASSUME NEW r \in Nat PROVE Slot(r) \in 0 .. HashWidth - 1
  BY DEF Slot, HashWidth

-----------------------------------------------------------------------------
\* A single call keeps every slab, the hash set, the match list and the
\* counters within their types.
LEMMA TypeStep == TypeOK /\ [Next]_ruleVars => TypeOK'
<1> SUFFICES ASSUME TypeOK, [Next]_ruleVars PROVE TypeOK'
  OBVIOUS
<1> USE RuleSetsAssumption, BoundsAssumption DEF TypeOK, Rule, Points
<1>1. ASSUME NEW r \in Rule, NEW p \in Points, AddScore(r, p) PROVE TypeOK'
  <2>1. CASE UNCHANGED ruleVars
    BY <2>1 DEF ruleVars, stateVars
  <2>2. MarkSeen(r) => completed' \in SUBSET Engine /\ slots' \in SUBSET (0 .. HashWidth - 1)
    BY SlotInRange DEF MarkSeen
  <2>3. RecordMatch(r) => matched' \in SUBSET Engine /\ external' \in Seq(RuntimeOnly)
    BY DEF RecordMatch
  <2>4. Credit(r, p) =>
          score' \in Nat /\ credits' \in [Rule -> Nat]
    BY DEF Credit
  <2> QED
    BY <1>1, <2>1, <2>2, <2>3, <2>4 DEF AddScore
<1>2. ASSUME NEW r \in Engine, NEW p \in Points, CommitGenerated(r, p) PROVE TypeOK'
  <2>1. CASE UNCHANGED ruleVars
    BY <2>1 DEF ruleVars, stateVars
  <2>2. CASE /\ completed' = completed \cup {r}
             /\ matched' = matched \cup {r}
             /\ Credit(r, p)
             /\ UNCHANGED <<predicate, disabled, targetsOff, slots, external>>
    <3>1. credits' \in [Rule -> Nat] /\ score' \in Nat
      BY <2>2 DEF Credit
    <3> QED
      BY <2>2, <3>1
  <2> QED
    BY <1>2, <2>1, <2>2 DEF CommitGenerated
<1>3. ASSUME NEW r \in Engine, MarkPredicate(r) PROVE TypeOK'
  BY <1>3 DEF MarkPredicate
<1>4. ASSUME NEW r \in Rule, AuditMatch(r) PROVE TypeOK'
  BY <1>4 DEF AuditMatch, RecordMatch
<1>5. ASSUME NEW r \in Rule, NEW p \in Points, ScoreUnrecorded(r, p) PROVE TypeOK'
  <2>1. credits' \in [Rule -> Nat] /\ score' \in Nat
    BY <1>5 DEF ScoreUnrecorded, Credit
  <2> QED
    BY <1>5, <2>1 DEF ScoreUnrecorded, stateVars
<1>6. ASSUME NEW rs \in SUBSET Engine, RemoveRules(rs) PROVE TypeOK'
  BY <1>6 DEF RemoveRules
<1>7. ASSUME NEW off \in [Collections -> SUBSET Engine], RemoveTargets(off)
      PROVE TypeOK'
  BY <1>7 DEF RemoveTargets
<1>8. CASE BeginInspection
  BY <1>8 DEF BeginInspection, stateVars
<1>9. CASE FreshState
  BY <1>9 DEF FreshState
<1>10. CASE UNCHANGED ruleVars
  BY <1>10 DEF ruleVars, stateVars
<1> QED
  BY <1>1, <1>2, <1>3, <1>4, <1>5, <1>6, <1>7, <1>8, <1>9, <1>10 DEF Next, Deduplicated

\* Every slab stays within the generated table, every hash bit within the
\* 512-bit set, and the score never turns negative.
THEOREM TypeCorrect == Spec => []TypeOK
<1>1. Init => TypeOK
  BY RuleSetsAssumption DEF Init, EmptyState, TypeOK, Rule
<1> QED
  BY <1>1, TypeStep, PTL DEF Spec

-----------------------------------------------------------------------------
\* The strengthened invariant survives every call.
LEMMA CreditStep ==
  TypeOK /\ CreditedOnce /\ CreditedAreSeen /\ [Next]_ruleVars
    => CreditedOnce' /\ CreditedAreSeen'
<1> SUFFICES ASSUME TypeOK, CreditedOnce, CreditedAreSeen, [Next]_ruleVars
             PROVE CreditedOnce' /\ CreditedAreSeen'
  OBVIOUS
<1> USE RuleSetsAssumption DEF TypeOK, CreditedOnce, CreditedAreSeen, Seen, Rule, Points
<1>1. ASSUME NEW r \in Rule, NEW p \in Points, AddScore(r, p)
      PROVE CreditedOnce' /\ CreditedAreSeen'
  <2>1. CASE UNCHANGED ruleVars
    BY <2>1 DEF ruleVars, stateVars
  <2>2. CASE MarkSeen(r) /\ UNCHANGED credits
    BY <2>2 DEF MarkSeen
  <2>3. CASE ~Seen(r) /\ MarkSeen(r) /\ Credit(r, p)
    BY <2>3 DEF MarkSeen, Credit
  <2> QED
    BY <1>1, <2>1, <2>2, <2>3 DEF AddScore, Fires
<1>2. ASSUME NEW r \in Engine, NEW p \in Points, CommitGenerated(r, p)
      PROVE CreditedOnce' /\ CreditedAreSeen'
  BY <1>2 DEF CommitGenerated, Credit, ruleVars, stateVars
<1>3. ASSUME NEW r \in Engine, MarkPredicate(r) PROVE CreditedOnce' /\ CreditedAreSeen'
  BY <1>3 DEF MarkPredicate
<1>4. ASSUME NEW r \in Rule, AuditMatch(r) PROVE CreditedOnce' /\ CreditedAreSeen'
  BY <1>4 DEF AuditMatch
<1>5. ASSUME NEW r \in Rule, NEW p \in Points, ScoreUnrecorded(r, p)
      PROVE CreditedOnce' /\ CreditedAreSeen'
  BY <1>5 DEF ScoreUnrecorded, Credit, stateVars
<1>6. ASSUME NEW rs \in SUBSET Engine, RemoveRules(rs)
      PROVE CreditedOnce' /\ CreditedAreSeen'
  BY <1>6 DEF RemoveRules
<1>7. ASSUME NEW off \in [Collections -> SUBSET Engine], RemoveTargets(off)
      PROVE CreditedOnce' /\ CreditedAreSeen'
  BY <1>7 DEF RemoveTargets
<1>8. CASE BeginInspection
  BY <1>8 DEF BeginInspection, stateVars
<1>9. CASE FreshState
  BY <1>9 DEF FreshState
<1>10. CASE UNCHANGED ruleVars
  BY <1>10 DEF ruleVars, stateVars
<1> QED
  BY <1>1, <1>2, <1>3, <1>4, <1>5, <1>6, <1>7, <1>8, <1>9, <1>10 DEF Next, Deduplicated

\* No rule that goes through the bookkeeping is ever credited twice under one
\* state, for every rule table and every sequence of calls.
THEOREM CreditedOnceAlways == Spec => []CreditedOnce
<1>1. Init => CreditedOnce /\ CreditedAreSeen
  BY RuleSetsAssumption DEF Init, EmptyState, CreditedOnce, CreditedAreSeen, Rule
<1> QED
  BY <1>1, CreditStep, TypeCorrect, PTL DEF Spec

-----------------------------------------------------------------------------
\* One call keeps dismissals justified, as long as no two ids of hand-written
\* scanners share a hash bit.
LEMMA DismissalStep ==
  ASSUME DistinctSlots
  PROVE TypeOK /\ RepeatsAreReal /\ [Next]_ruleVars => RepeatsAreReal'
<1> SUFFICES ASSUME TypeOK, RepeatsAreReal, [Next]_ruleVars PROVE RepeatsAreReal'
  OBVIOUS
<1> USE RuleSetsAssumption DEF TypeOK, RepeatsAreReal, Seen, Rule, Points
<1>1. ASSUME NEW r \in Rule, NEW p \in Points, AddScore(r, p) PROVE RepeatsAreReal'
  <2>1. CASE UNCHANGED ruleVars
    BY <2>1 DEF ruleVars, stateVars
  <2>2. CASE r \in Chained /\ MarkSeen(r) /\ UNCHANGED credits
    BY <2>2 DEF MarkSeen
  <2>3. CASE MarkSeen(r) /\ Credit(r, p)
    <3> SUFFICES ASSUME NEW s \in Rule \ Chained, Seen(s)' PROVE credits'[s] > 0
      OBVIOUS
    <3>1. s = r \/ Seen(s)
      BY <2>3, DistinctSlots DEF MarkSeen, DistinctSlots
    <3>2. credits' = [credits EXCEPT ![r] = @ + 1]
      BY <2>3 DEF Credit
    <3>3. CASE s = r
      BY <3>2, <3>3
    <3>4. CASE s # r /\ Seen(s)
      BY <3>2, <3>4
    <3> QED
      BY <3>1, <3>3, <3>4
  <2> QED
    BY <1>1, <2>1, <2>2, <2>3 DEF AddScore
<1>2. ASSUME NEW r \in Engine, NEW p \in Points, CommitGenerated(r, p)
      PROVE RepeatsAreReal'
  BY <1>2 DEF CommitGenerated, Credit, ruleVars, stateVars
<1>3. ASSUME NEW r \in Engine, MarkPredicate(r) PROVE RepeatsAreReal'
  BY <1>3 DEF MarkPredicate
<1>4. ASSUME NEW r \in Rule, AuditMatch(r) PROVE RepeatsAreReal'
  BY <1>4 DEF AuditMatch
<1>5. ASSUME NEW r \in Rule, NEW p \in Points, ScoreUnrecorded(r, p) PROVE RepeatsAreReal'
  <2>1. \A s \in Rule : credits[s] > 0 => credits'[s] > 0
    BY <1>5 DEF ScoreUnrecorded, Credit
  <2> QED
    BY <1>5, <2>1 DEF ScoreUnrecorded, stateVars
<1>6. ASSUME NEW rs \in SUBSET Engine, RemoveRules(rs) PROVE RepeatsAreReal'
  BY <1>6 DEF RemoveRules
<1>7. ASSUME NEW off \in [Collections -> SUBSET Engine], RemoveTargets(off)
      PROVE RepeatsAreReal'
  BY <1>7 DEF RemoveTargets
<1>8. CASE BeginInspection
  BY <1>8 DEF BeginInspection, stateVars
<1>9. CASE FreshState
  BY <1>9 DEF FreshState
<1>10. CASE UNCHANGED ruleVars
  BY <1>10 DEF ruleVars, stateVars
<1> QED
  BY <1>1, <1>2, <1>3, <1>4, <1>5, <1>6, <1>7, <1>8, <1>9, <1>10 DEF Next, Deduplicated

\* If the ids of hand-written scanners have distinct hash bits, the dedup is
\* exact: no rule is dismissed because of another one.  (The ids in the code do
\* not all have distinct bits; the run hash_collision shows the consequence.)
THEOREM DedupExact == ASSUME DistinctSlots PROVE Spec => []RepeatsAreReal
<1>1. Init => RepeatsAreReal
  BY RuleSetsAssumption DEF Init, EmptyState, RepeatsAreReal, Seen, Rule
<1> QED
  BY <1>1, DismissalStep, TypeCorrect, PTL DEF Spec

-----------------------------------------------------------------------------
(***************************************************************************)
(* The list of external matches never exceeds its capacity; with it, what  *)
(* CreditsAreReported says is inductive.                                   *)
(***************************************************************************)
ExternalFits == Len(external) <= ExternalCap

\* Recording a match forgets no other match, and reports the rule unless it was
\* removed or the list of external matches is full.
LEMMA RecordReports ==
  ASSUME TypeOK, ExternalFits, NEW r \in Rule, RecordMatch(r),
         UNCHANGED disabled
  PROVE  /\ ExternalFits' /\ external' \in Seq(RuntimeOnly)
         /\ Len(external) = ExternalCap => Len(external)' = ExternalCap
         /\ \A s \in Rule : Reported(s) => Reported(s)'
         /\ Reported(r)' \/ r \in disabled \/ (r \in RuntimeOnly /\ Len(external)' = ExternalCap)
<1> USE RuleSetsAssumption, BoundsAssumption DEF TypeOK, Rule
<1>1. CASE external' = external
  BY <1>1 DEF RecordMatch, Reported, ExternalFits
<1>2. CASE r \in RuntimeOnly /\ Len(external) < ExternalCap /\ external' = Append(external, r)
  <2>1. external' \in Seq(RuntimeOnly) /\ Len(external)' = Len(external) + 1
    BY <1>2
  <2>2. \A i \in 1 .. Len(external) : external'[i] = external[i]
    BY <1>2
  <2>3. external'[Len(external) + 1] = r
    BY <1>2
  <2>4. Range(external) \subseteq Range(external)' /\ r \in Range(external)'
    BY <2>1, <2>2, <2>3 DEF Range
  <2>5. matched' = matched
    BY <1>2 DEF RecordMatch
  <2> QED
    BY <1>2, <2>1, <2>4, <2>5 DEF Reported, ExternalFits
<1> QED
  BY <1>1, <1>2 DEF RecordMatch, ExternalFits

\* One call keeps credited rules reported.
LEMMA ReportStep ==
  TypeOK /\ ExternalFits /\ CreditsAreReported /\ [Next]_ruleVars
    => ExternalFits' /\ CreditsAreReported'
<1> SUFFICES ASSUME TypeOK, ExternalFits, CreditsAreReported, [Next]_ruleVars
             PROVE ExternalFits' /\ CreditsAreReported'
  OBVIOUS
<1> USE RuleSetsAssumption, BoundsAssumption DEF TypeOK, Rule, Points
<1>1. ASSUME UNCHANGED <<matched, external, credits>>, disabled \subseteq disabled'
      PROVE ExternalFits' /\ CreditsAreReported'
  BY <1>1 DEF ExternalFits, CreditsAreReported, Reported
<1>2. ASSUME NEW r \in Rule, NEW p \in Points, RecordMatch(r), UNCHANGED disabled,
             UNCHANGED credits \/ Credit(r, p)
      PROVE ExternalFits' /\ CreditsAreReported'
  <2>1. \A s \in Rule \ {r} : credits'[s] = credits[s]
    BY <1>2 DEF Credit
  <2>2. CASE UNCHANGED credits
    BY <1>2, <2>2, RecordReports DEF CreditsAreReported
  <2>3. CASE Credit(r, p)
    BY <1>2, <2>1, RecordReports DEF CreditsAreReported
  <2> QED
    BY <1>2, <2>2, <2>3
<1>3. ASSUME NEW r \in Rule, NEW p \in Points, AddScore(r, p)
      PROVE ExternalFits' /\ CreditsAreReported'
  BY <1>1, <1>2, <1>3 DEF AddScore, ruleVars, stateVars
<1>4. ASSUME NEW r \in Engine, NEW p \in Points, CommitGenerated(r, p)
      PROVE ExternalFits' /\ CreditsAreReported'
  <2>1. CASE UNCHANGED ruleVars
    BY <1>1, <2>1 DEF ruleVars, stateVars
  <2>2. CASE r \notin disabled /\ matched' = matched \cup {r} /\ Credit(r, p)
             /\ UNCHANGED <<disabled, external>>
    BY <2>2 DEF Credit, ExternalFits, CreditsAreReported, Reported
  <2> QED
    BY <1>4, <2>1, <2>2 DEF CommitGenerated
<1>5. ASSUME NEW r \in Rule, NEW p \in Points, ScoreUnrecorded(r, p)
      PROVE ExternalFits' /\ CreditsAreReported'
  BY <1>5 DEF ScoreUnrecorded, Credit, stateVars, ExternalFits, CreditsAreReported, Reported
<1>6. CASE FreshState
  BY <1>6 DEF FreshState, ExternalFits, CreditsAreReported
<1>7. ASSUME NEW r \in Rule, AuditMatch(r)
      PROVE ExternalFits' /\ CreditsAreReported'
  <2>1. 1 \in Points
    BY BoundsAssumption
  <2> QED
    BY <1>2, <1>7, <2>1 DEF AuditMatch
<1> QED
  BY <1>1, <1>3, <1>4, <1>5, <1>6, <1>7
  DEF Next, Deduplicated, MarkPredicate, RemoveRules, RemoveTargets, BeginInspection, ruleVars, stateVars

\* luminawaf_rule_state_matched denies no credited rule, but for one that was
\* removed afterwards or found the list of external matches full.
THEOREM CreditsReported == Spec => []CreditsAreReported
<1>1. Init => ExternalFits /\ CreditsAreReported
  BY BoundsAssumption, RuleSetsAssumption
  DEF Init, EmptyState, ExternalFits, CreditsAreReported, Rule
<1> QED
  BY <1>1, ReportStep, TypeCorrect, PTL DEF Spec

-----------------------------------------------------------------------------
\* No call credits a removed rule, nor reports it, as long as the state lives.
THEOREM RemovedStaySilent == Spec => RemovedRulesStaySilent
<1>1. ASSUME TypeOK, [Next]_ruleVars, NEW r \in disabled \ Unrecorded, r \in disabled'
      PROVE credits'[r] = credits[r] /\ ~Reported(r)'
  <2> USE RuleSetsAssumption DEF TypeOK, Rule, Points
  <2>1. r \in Engine /\ ~Reported(r)'
    BY <1>1 DEF Reported
  <2>2. ASSUME NEW s \in Rule, NEW p \in Points, Credit(s, p), s # r
        PROVE credits'[r] = credits[r]
    BY <2>2 DEF Credit
  <2>3. ASSUME NEW s \in Rule, NEW p \in Points, AddScore(s, p) PROVE credits'[r] = credits[r]
    BY <1>1, <2>2, <2>3 DEF AddScore, Fires, ruleVars
  <2>4. ASSUME NEW s \in Engine, NEW p \in Points, CommitGenerated(s, p)
        PROVE credits'[r] = credits[r]
    BY <1>1, <2>2, <2>4 DEF CommitGenerated, ruleVars
  <2>5. ASSUME NEW s \in Rule, NEW p \in Points, ScoreUnrecorded(s, p)
        PROVE credits'[r] = credits[r]
    BY <1>1, <2>2, <2>5 DEF ScoreUnrecorded
  <2>6. FreshState => r \notin disabled'
    BY DEF FreshState
  <2>7. credits'[r] = credits[r]
    BY <1>1, <2>3, <2>4, <2>5, <2>6
    DEF Next, Deduplicated, MarkPredicate, AuditMatch, RemoveRules, RemoveTargets, BeginInspection,
        ruleVars
  <2> QED
    BY <2>1, <2>7
<1>2. TypeOK /\ [Next]_ruleVars =>
        [\A r \in disabled \ Unrecorded :
           r \in disabled' => credits'[r] = credits[r] /\ ~Reported(r)']_ruleVars
  BY <1>1
<1> QED
  BY <1>2, TypeCorrect, PTL DEF Spec, RemovedRulesStaySilent

-----------------------------------------------------------------------------
\* Every call is a step of the ledger, or none.
LEMMA LedgerStep ==
  TypeOK /\ CreditedAreSeen /\ [Next]_ruleVars => [Ledger!Next]_Ledger!ledgerVars
<1> SUFFICES ASSUME TypeOK, CreditedAreSeen, [Next]_ruleVars
             PROVE [Ledger!Next]_Ledger!ledgerVars
  OBVIOUS
<1> USE RuleSetsAssumption DEF TypeOK, Rule, Points
<1> DEFINE Account == {r \in Rule : credits[r] > 0}
<1>1. ASSUME UNCHANGED <<score, credits>> PROVE [Ledger!Next]_Ledger!ledgerVars
  BY <1>1 DEF Ledger!ledgerVars
<1>2. ASSUME NEW r \in Rule, NEW p \in Points, Credit(r, p), r \in Account => r \in Unrecorded
      PROVE Ledger!Next
  <2>1. Account' = Account \cup {r} /\ score' = score + p
    BY <1>2 DEF Credit
  <2>2. CASE r \in Account
    <3>1. Ledger!Repeat(r, p)
      BY <1>2, <2>1, <2>2 DEF Ledger!Repeat
    <3> QED
      BY <3>1 DEF Ledger!Next
  <2>3. CASE r \notin Account
    <3>1. Ledger!Enter(r, p)
      BY <2>1, <2>3 DEF Ledger!Enter
    <3> QED
      BY <3>1 DEF Ledger!Next
  <2> QED
    BY <2>2, <2>3
<1>3. ASSUME NEW r \in Rule, NEW p \in Points, AddScore(r, p)
      PROVE [Ledger!Next]_Ledger!ledgerVars
  BY <1>1, <1>2, <1>3 DEF AddScore, Fires, CreditedAreSeen, ruleVars
<1>4. ASSUME NEW r \in Engine, NEW p \in Points, CommitGenerated(r, p)
      PROVE [Ledger!Next]_Ledger!ledgerVars
  BY <1>1, <1>2, <1>4 DEF CommitGenerated, CreditedAreSeen, Seen, ruleVars
<1>5. ASSUME NEW r \in Rule, NEW p \in Points, ScoreUnrecorded(r, p)
      PROVE [Ledger!Next]_Ledger!ledgerVars
  BY <1>2, <1>5 DEF ScoreUnrecorded
<1>6. CASE BeginInspection
  BY <1>6 DEF BeginInspection, Ledger!Next, Ledger!Restart
<1>7. CASE FreshState
  <2>1. Account' = {} /\ score' = score
    BY <1>7 DEF FreshState
  <2> QED
    BY <2>1 DEF Ledger!Next, Ledger!Reopen
<1> QED
  BY <1>1, <1>3, <1>4, <1>5, <1>6, <1>7
  DEF Next, Deduplicated, MarkPredicate, AuditMatch, RemoveRules, RemoveTargets, ruleVars

\* The bookkeeping, with its slabs, hash bits and evaluation paths, implements
\* the account that enters every rule once.
THEOREM LedgerImplemented == Spec => LedgerSpec
<1>1. Init => Ledger!Init /\ CreditedOnce /\ CreditedAreSeen
  BY RuleSetsAssumption
  DEF Init, EmptyState, Ledger!Init, CreditedOnce, CreditedAreSeen, Rule
<1> QED
  BY <1>1, LedgerStep, CreditStep, TypeCorrect, PTL DEF Spec, LedgerSpec, Ledger!Spec
=============================================================================
