----------------------------- MODULE MCRuleState -----------------------------
(***************************************************************************)
(* RuleState for TLC.  Two generated rules, one of them a chain head, and  *)
(* three ids of hand-written scanners, of which one is scored without      *)
(* bookkeeping.  The list of external matches has room for one.            *)
(***************************************************************************)
EXTENDS RuleState

CONSTANTS
  TxRule,       \* bound: the rules with a predicate or a removable target
  MaxRepeats,   \* bound: credits of one rule under one state
  MaxScore      \* bound: score of one inspection

\* The unbounded counters, capped.
Bounded ==
  /\ \A r \in Rule : credits'[r] <= MaxRepeats
  /\ score' <= MaxScore

MCNext ==
  \/ \E r \in Deduplicated, p \in Points : AddScore(r, p) /\ Bounded
  \/ \E r \in Engine, p \in Points : CommitGenerated(r, p) /\ Bounded
  \/ \E r \in TxRule : MarkPredicate(r)
  \/ \E r \in Deduplicated : AuditMatch(r)
  \/ \E r \in Rule, p \in Points : ScoreUnrecorded(r, p) /\ Bounded
  \/ \E rs \in SUBSET Engine : RemoveRules(rs)
  \/ \E off \in [Collections -> SUBSET TxRule] : RemoveTargets(off)
  \/ BeginInspection
  \/ FreshState

MCSpec == Init /\ [][MCNext]_ruleVars
=============================================================================
