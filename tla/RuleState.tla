------------------------------ MODULE RuleState ------------------------------
(***************************************************************************)
(* LuminaRuleState together with the thread-local anomaly score: the rule  *)
(* bookkeeping every evaluation path of the runtime goes through           *)
(* (src/src/luminawaf.h, src/src/lumina_hit_slab.h, and the macros and     *)
(* helpers at the top of src/src/luminawaf.cpp).                           *)
(*                                                                         *)
(* A rule is identified by its numeric id.  Ids in Engine have a slot in   *)
(* the generated table, so the slabs track them exactly; ids in            *)
(* RuntimeOnly are reported by hand-written scanners only and share a      *)
(* 512-bit hash set.                                                       *)
(*                                                                         *)
(* Next lets a client make any legal call, in any order, with any          *)
(* arguments: what holds here holds for every evaluation path.             *)
(***************************************************************************)
EXTENDS Integers, Sequences, Functions

CONSTANTS
  Engine,        \* ids compiled into the generated rule table
  RuntimeOnly,   \* ids only hand-written scanners and structural checks use
  Chained,       \* generated ids whose g_rule_chain entry has members
  Unrecorded,    \* ids whose scanner adds to the score directly
  Collections,   \* LUMINA_COL_* bits that own a target-removal slab
  ExternalCap,   \* LUMINA_MAX_EXTERNAL_MATCHES
  MaxPoints      \* largest anomaly increment of a rule

ASSUME RuleSetsAssumption ==
  /\ Engine \subseteq Nat \ {0}
  /\ RuntimeOnly \subseteq Nat \ {0}
  /\ Engine \cap RuntimeOnly = {}
  /\ Chained \subseteq Engine
  /\ Unrecorded \subseteq Engine \cup RuntimeOnly

ASSUME BoundsAssumption ==
  /\ ExternalCap \in Nat
  /\ MaxPoints \in Nat \ {0}

VARIABLES
  completed,   \* slab: generated rules already accounted for
  matched,     \* slab: generated rules reported as matched
  predicate,   \* slab: transaction predicates seen
  disabled,    \* slab: ctl:ruleRemoveById
  targetsOff,  \* slab per collection: ctl:ruleRemoveTargetByTag
  slots,       \* hash_dedup, as the set of bits that are 1
  external,    \* external_matches[0 .. external_match_count)
  score,       \* g_anomaly_score_tls
  credits      \* history: how often each rule was added to a score

stateVars == <<completed, matched, predicate, disabled, targetsOff, slots, external>>
ruleVars  == <<stateVars, score, credits>>

Rule   == Engine \cup RuntimeOnly
Points == 1 .. MaxPoints

\* The ids the bookkeeping is ever given: a scanner that writes the score itself
\* does not report its id, which comes up elsewhere only if the rule is generated.
Deduplicated == Rule \ (Unrecorded \ Engine)

(***************************************************************************)
(* (rule_id * 2654435761) & 511.  The low nine bits of a product depend    *)
(* only on the low nine bits of its factors and 2654435761 % 512 = 433, so *)
(* the 32-bit wrap-around of the C expression does not show.               *)
(***************************************************************************)
HashWidth == 512
Slot(r) == (r * 433) % HashWidth

TypeOK ==
  /\ completed \in SUBSET Engine
  /\ matched \in SUBSET Engine
  /\ predicate \in SUBSET Engine
  /\ disabled \in SUBSET Engine
  /\ targetsOff \in [Collections -> SUBSET Engine]
  /\ slots \in SUBSET (0 .. HashWidth - 1)
  /\ external \in Seq(RuntimeOnly)
  /\ score \in Nat
  /\ credits \in [Rule -> Nat]

EmptyState ==
  /\ completed = {} /\ matched = {} /\ predicate = {} /\ disabled = {}
  /\ targetsOff = [c \in Collections |-> {}]
  /\ slots = {} /\ external = <<>>
  /\ credits = [r \in Rule |-> 0]

Init ==
  /\ EmptyState
  /\ score = 0

-----------------------------------------------------------------------------
(* Queries *)

Seen(r) == IF r \in Engine THEN r \in completed ELSE Slot(r) \in slots

\* The macro credits r: not removed, not a repeat, and no pending chain.
Fires(r) == r \notin disabled /\ ~Seen(r) /\ r \notin Chained

\* luminawaf_rule_state_matched
Reported(r) == IF r \in Engine THEN r \in matched \ disabled ELSE r \in Range(external)

-----------------------------------------------------------------------------
(* Building blocks of the calls *)

\* Mutant: the generated rules' slab is not marked.
MarkSeenHashOnly(r) ==
  /\ slots' = IF r \in Engine THEN slots ELSE slots \cup {Slot(r)}
  /\ UNCHANGED completed

MarkSeen(r) ==
  /\ completed' = IF r \in Engine THEN completed \cup {r} ELSE completed
  /\ slots' = IF r \in Engine THEN slots ELSE slots \cup {Slot(r)}

\* Mutants: the last entry of the list is never used; one too many is.
RecordMatchShort(r) ==
  /\ matched' = IF r \in Engine \ disabled THEN matched \cup {r} ELSE matched
  /\ external' = IF r \in Engine \/ r \in Range(external) \/ Len(external) + 1 >= ExternalCap
                   THEN external
                   ELSE Append(external, r)

\* lumina_record_rule_match
RecordMatch(r) ==
  /\ matched' = IF r \in Engine \ disabled THEN matched \cup {r} ELSE matched
  /\ external' = IF r \in Engine \/ r \in Range(external) \/ Len(external) >= ExternalCap
                   THEN external
                   ELSE Append(external, r)

Credit(r, p) ==
  /\ score' = score + p
  /\ credits' = [credits EXCEPT ![r] = @ + 1]

-----------------------------------------------------------------------------
(* Calls *)

\* Mutant: the dedup test-and-set runs before the test for removal.
AddScoreDedupFirst(r, p) ==
  \/ Seen(r) /\ UNCHANGED ruleVars
  \/ /\ ~Seen(r) /\ (r \in disabled \/ r \in Chained)
     /\ MarkSeen(r)
     /\ UNCHANGED <<matched, predicate, disabled, targetsOff, external, score, credits>>
  \/ /\ Fires(r)
     /\ MarkSeen(r) /\ RecordMatch(r) /\ Credit(r, p)
     /\ UNCHANGED <<predicate, disabled, targetsOff>>

\* LUMINA_ADD_SCORE_AND_CHECK.  A chained rule is marked before its chain is
\* evaluated, and the linked lumina_eval_chain answers false.
AddScore(r, p) ==
  \/ /\ r \in disabled \/ Seen(r)
     /\ UNCHANGED ruleVars
  \/ /\ r \notin disabled /\ ~Seen(r) /\ r \in Chained
     /\ MarkSeen(r)
     /\ UNCHANGED <<matched, predicate, disabled, targetsOff, external, score, credits>>
  \/ /\ Fires(r)
     /\ MarkSeen(r)
     /\ RecordMatch(r)
     /\ Credit(r, p)
     /\ UNCHANGED <<predicate, disabled, targetsOff>>

\* Mutant: a commit that does not look at the completed slab.
CommitRepeatedly(r, p) ==
  /\ r \notin disabled
  /\ completed' = completed \cup {r}
  /\ matched' = matched \cup {r}
  /\ Credit(r, p)
  /\ UNCHANGED <<predicate, disabled, targetsOff, slots, external>>

\* Mutant: a commit that does not look at the removals.
CommitRemoved(r, p) ==
  /\ r \notin completed
  /\ completed' = completed \cup {r}
  /\ matched' = matched \cup {r}
  /\ Credit(r, p)
  /\ UNCHANGED <<predicate, disabled, targetsOff, slots, external>>

\* lumina_commit_generated_rule, and the scoring arm of LUMINA_ADD_SCORE_SLAB
CommitGenerated(r, p) ==
  \/ /\ r \in disabled \cup completed
     /\ UNCHANGED ruleVars
  \/ /\ r \in Engine \ (disabled \cup completed)
     /\ completed' = completed \cup {r}
     /\ matched' = matched \cup {r}
     /\ Credit(r, p)
     /\ UNCHANGED <<predicate, disabled, targetsOff, slots, external>>

\* A hit of a generated rule without points only records a predicate.
MarkPredicate(r) ==
  /\ r \in Engine \ disabled
  /\ predicate' = predicate \cup {r}
  /\ UNCHANGED <<completed, matched, disabled, targetsOff, slots, external, score, credits>>

\* The audit entry points record a match and leave the score alone.
AuditMatch(r) ==
  /\ RecordMatch(r)
  /\ UNCHANGED <<completed, predicate, disabled, targetsOff, slots, score, credits>>

\* The response-splitting and SSRF scanners of the bundle loop.
ScoreUnrecorded(r, p) ==
  /\ r \in Unrecorded
  /\ Credit(r, p)
  /\ UNCHANGED stateVars

\* Generated ctl:ruleRemoveById controls.
RemoveRules(rs) ==
  /\ disabled' = disabled \cup rs
  /\ UNCHANGED <<completed, matched, predicate, targetsOff, slots, external, score, credits>>

\* Generated ctl:ruleRemoveTargetByTag controls: off names, per collection, the
\* rules that the controls matching one value remove there.
RemoveTargets(off) ==
  /\ targetsOff' = [c \in Collections |-> targetsOff[c] \cup off[c]]
  /\ UNCHANGED <<completed, matched, predicate, disabled, slots, external, score, credits>>

\* Every inspection entry point zeroes the thread's score first.
BeginInspection ==
  /\ score' = 0
  /\ UNCHANGED <<stateVars, credits>>

\* The caller supplies another zeroed state; the thread keeps its score.
FreshState ==
  /\ completed' = {} /\ matched' = {} /\ predicate' = {} /\ disabled' = {}
  /\ targetsOff' = [c \in Collections |-> {}]
  /\ slots' = {} /\ external' = <<>>
  /\ credits' = [r \in Rule |-> 0]
  /\ UNCHANGED score

Next ==
  \/ \E r \in Deduplicated, p \in Points : AddScore(r, p)
  \/ \E r \in Engine, p \in Points : CommitGenerated(r, p)
  \/ \E r \in Engine : MarkPredicate(r)
  \/ \E r \in Deduplicated : AuditMatch(r)
  \/ \E r \in Rule, p \in Points : ScoreUnrecorded(r, p)
  \/ \E rs \in SUBSET Engine : RemoveRules(rs)
  \/ \E off \in [Collections -> SUBSET Engine] : RemoveTargets(off)
  \/ BeginInspection
  \/ FreshState

Spec == Init /\ [][Next]_ruleVars

-----------------------------------------------------------------------------
(* Properties *)

\* A rule adds to the score at most once per state, whichever evaluation paths
\* reach it and in whatever order ("repeated matches contribute to the anomaly
\* score only once", luminawaf.cpp:213-215).  The two scanners that bypass the
\* bookkeeping are left out.
CreditedOnce == \A r \in Rule \ Unrecorded : credits[r] <= 1

\* The same promise for every rule, as the comment at luminawaf.cpp:213-215
\* words it.  A rule whose scanner writes the score itself is charged again for
\* every value it matches in.
EveryRuleCreditedOnce == \A r \in Rule : credits[r] <= 1

\* A rule is dismissed as a repeat only if it was credited before: the dedup of
\* one rule never suppresses another ("Hash collisions can no longer suppress
\* rule scoring", lumina_hit_slab.h:28-29).
RepeatsAreReal == \A r \in Rule \ Chained : Seen(r) => credits[r] > 0

\* Whatever luminawaf_rule_state_matched denies about a credited rule is due to
\* a later removal of the rule, or to the full list of external matches.
CreditsAreReported ==
  \A r \in Rule \ Unrecorded :
    credits[r] > 0 =>
      \/ Reported(r)
      \/ r \in disabled
      \/ r \in RuntimeOnly /\ Len(external) = ExternalCap

\* Once ctl:ruleRemoveById removed a rule, no call credits it, and it is not
\* reported, for as long as the state lives.
RemovedRulesStaySilent ==
  [][\A r \in disabled \ Unrecorded :
       r \in disabled' => credits'[r] = credits[r] /\ ~Reported(r)']_ruleVars

-----------------------------------------------------------------------------
(* The bookkeeping implements an account that credits every rule once. *)

Ledger == INSTANCE AnomalyLedger WITH
            Repeatable <- Unrecorded,
            account <- {r \in Rule : credits[r] > 0},
            total <- score

LedgerSpec == Ledger!Spec
=============================================================================
