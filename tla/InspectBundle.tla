----------------------------- MODULE InspectBundle -----------------------------
(***************************************************************************)
(* luminawaf_inspect_bundle (src/src/luminawaf.cpp): one inspection of one *)
(* request, from the first transaction rule to the verdict.  It drives the *)
(* calls of RuleState and decides, value by value, what is evaluated, with *)
(* which threshold, and when to stop.                                      *)
(*                                                                         *)
(* A request is a record                                                   *)
(*   removed    rules its ctl:ruleRemoveById controls remove               *)
(*   tx         transaction rules whose own condition holds                *)
(*   meta       indices of the structural checks that hit                  *)
(*   projected  values derived from it, in the order they are projected    *)
(*   vals       the caller's values (BundleVar)                            *)
(*   structured TRUE iff its body is JSON or XML                           *)
(* and a value is a record                                                 *)
(*   scope, kind   "uri", "headers" or "body"; "path", "container" (raw    *)
(*                 query string or Cookie field), "body", "json" (a body   *)
(*                 with the JSON scope) or "plain"                         *)
(*   colls         the collections it belongs to                           *)
(*   off           the rules the controls matching it remove, per          *)
(*                 collection                                              *)
(*   len, dlen     its length, raw and after canonicalization              *)
(*   rich          TRUE iff its first 64 bytes hold over 48 distinct ones  *)
(*   null          TRUE iff it holds the text %00                          *)
(*   dull          TRUE iff prefilter and first-byte table reject it       *)
(*   strings       the JSON strings of it that pass the prefilter, each    *)
(*                 with its own len and rich                               *)
(* What a scanner or a generated matcher finds in a value is left open.    *)
(***************************************************************************)
EXTENDS RuleState

CONSTANTS
  Requests,      \* the requests to inspect
  RulePoints,    \* g_short_rule_score: 0 for a predicate of a transaction rule
  TxRules,       \* transaction rules in table order: [rule, points, gated]
  ScannerRules,  \* per hand-written scanner, the ids it can report
  JndiColls      \* collections the JNDI scanner is limited to

Threshold == 5        \* LUMINA_ANOMALY_THRESHOLD
MaxValueLen == 131072
NullByte == 920270
Hpp == 921170         \* parameter-pollution counter, never scored from a value

\* The checks of request metadata, in code order, as <<rule, points>>.
MetaChecks ==
  << <<911100, 5>>, <<920100, 5>>, <<920430, 5>>, <<920660, 3>>,
     <<920280, 5>>, <<920620, 5>>, <<920320, 2>>, <<913100, 5>> >>

\* The scanners one value goes through, in code order.
Scanners ==
  << "xss", "path", "osfiles", "restricted", "ext", "sqli", "cmd", "jndi",
     "ldap", "split", "ssrf" >>
JsonScanners == << "xss", "path", "sqli" >>
Unlisted == {"split", "ssrf"}   \* scored without the macro

\* A transaction rule scores through lumina_eval_tx_rules only: the table gives
\* it no points (sidecar_translator.py:7494-7498), and a chained one has no
\* scanner or structural check that reports it.  Only the unlisted scanners find
\* the ids that the macro is never given.
ASSUME InspectAssumption ==
  /\ {MetaChecks[k][1] : k \in DOMAIN MetaChecks} \subseteq Deduplicated
  /\ NullByte \in Engine \ Chained
  /\ RulePoints \in [Engine -> 0 .. MaxPoints]
  /\ MaxPoints >= 5
  /\ ScannerRules \in [Range(Scanners) -> SUBSET Rule]
  /\ \A s \in Range(Scanners) :
       ScannerRules[s] \subseteq IF s \in Unlisted THEN Unrecorded ELSE Deduplicated
  /\ TxRules \in Seq([rule : Engine, points : Points, gated : BOOLEAN])
  /\ \A k \in DOMAIN TxRules : LET r == TxRules[k].rule IN
       /\ RulePoints[r] = 0
       /\ r \in Chained =>
            /\ \A j \in DOMAIN MetaChecks : r # MetaChecks[j][1]
            /\ \A s \in Range(Scanners) : r \notin ScannerRules[s]

Removals == [Collections -> SUBSET Engine]

ProjectedValue == [colls : SUBSET STRING, off : Removals, limit : BOOLEAN]

CallerValue ==
  [scope : STRING, kind : STRING, colls : SUBSET STRING, off : Removals,
   len : Nat, dlen : Nat, rich : BOOLEAN, null : BOOLEAN, dull : BOOLEAN,
   strings : Seq([len : Nat, rich : BOOLEAN])]

ASSUME RequestsAssumption ==
  \A q \in Requests :
    /\ q.removed \subseteq Engine
    /\ q.projected \in Seq(ProjectedValue)
    /\ q.vals \in Seq(CallerValue)

VARIABLES
  request,     \* the request under inspection
  pc,          \* what runs next
  step,        \* position within the current part
  todo,        \* values the loop has not finished with
  cur,         \* the value in the loop's hands
  mask,        \* rules disabled for the current value, as computed on entry
  before,      \* var_score_before
  nullFound,   \* null_byte_found
  threat,      \* rule that ended the inspection so far, 0 if none
  local,       \* result of the generated part that is running
  verdict,     \* out_result->threat_level
  scanned      \* history: values whose evaluation ran to its end

control == <<request, todo, cur, mask, before, nullFound, verdict, scanned>>
bundleVars == <<ruleVars, control, pc, step, threat, local>>

-----------------------------------------------------------------------------
(* Pure helpers *)

Value == request.vals[cur]

\* bundle_build_length_order is a stable insertion sort, shortest value first:
\* the loop takes, of the values that are left, the first of the shortest.
ComesFirst(i) ==
  LET len(j) == request.vals[j].len IN
    \A j \in todo : len(i) < len(j) \/ (len(i) = len(j) /\ i <= j)

\* compute_adaptive_threshold
Adaptive(len, rich) ==
  5 + (IF len > 64 THEN 1 ELSE IF len < 16 THEN -1 ELSE 0)
    + (IF rich /\ len > 48 THEN 1 ELSE 0)

\* lumina_build_disabled_mask
DisabledMask(dis, off, colls) == dis \cup UNION {off[c] : c \in colls \cap Collections}

\* Values the loop leaves to the projected collections, or does not look at.
LeftOut(v) ==
  \/ v.len > MaxValueLen
  \/ v.kind = "container"
  \/ request.structured /\ v.kind \in {"body", "json"}

\* A scanner runs: only XSS ignores that a threat was found.
Runs(s, v) ==
  /\ s = "xss" \/ threat = 0
  /\ s = "osfiles" => v.scope \in {"body", "uri"}
  /\ s = "restricted" => v.kind = "path"
  /\ s = "ext" => v.scope = "uri"
  /\ s = "jndi" => v.colls = {} \/ v.colls \cap JndiColls # {}

ScanPoints(s, len) ==
  IF s \in {"jndi", "ldap", "split", "ssrf"} /\ len > 128 THEN 2 ELSE 5

-----------------------------------------------------------------------------
(* Scoring steps *)

\* Mutant: the rule is scored without the dedup test.
ScoreRepeatedly(r, p, threshold) ==
  /\ IF r \in disabled
       THEN UNCHANGED ruleVars
       ELSE MarkSeen(r) /\ RecordMatch(r) /\ Credit(r, p)
            /\ UNCHANGED <<predicate, disabled, targetsOff>>
  /\ threat' = IF score' > score /\ score' >= threshold THEN r ELSE threat

\* LUMINA_ADD_SCORE_AND_CHECK, with its effect on the local threat.
Score(r, p, threshold) ==
  /\ AddScore(r, p)
  /\ threat' = IF Fires(r) /\ score + p >= threshold THEN r ELSE threat

\* The two scanners that write the score themselves: the result is
\* "r & (over the threshold ? 1 : 0)", so an even id never becomes the threat.
ScoreDirectly(r, p, threshold) ==
  /\ ScoreUnrecorded(r, p)
  /\ threat' = IF r % 2 = 1 /\ score + p - before >= threshold THEN r ELSE threat

\* One hit of a generated rule in a projected or an empty value.
GeneratedHit ==
  /\ pc \in {"projectScan", "empty"}
  /\ \E r \in Engine \ mask :
       \/ /\ RulePoints[r] = 0
          /\ MarkPredicate(r)
          /\ UNCHANGED local
       \/ /\ RulePoints[r] > 0
          /\ CommitGenerated(r, RulePoints[r])
          /\ local' = IF score' > score /\ score' >= Threshold THEN r ELSE local
  /\ UNCHANGED <<control, pc, step, threat>>

-----------------------------------------------------------------------------
(* Transaction rules: before everything else, and again after the values. *)

\* The removal controls run first.
Controls ==
  /\ pc \in {"controls1", "controls2"}
  /\ RemoveRules(request.removed)
  /\ pc' = IF pc = "controls1" THEN "tx1" ELSE "tx2"
  /\ step' = 1
  /\ local' = 0
  /\ UNCHANGED <<control, threat>>

TxRuleFires(t) ==
  /\ t.rule \in request.tx
  /\ t.gated => t.rule \in predicate

TxRule ==
  /\ pc \in {"tx1", "tx2"}
  /\ step \in DOMAIN TxRules
  /\ LET t == TxRules[step] IN
       IF TxRuleFires(t)
         THEN /\ CommitGenerated(t.rule, t.points)
              /\ local' = IF score' > score /\ score' >= Threshold THEN t.rule ELSE local
         ELSE UNCHANGED <<ruleVars, local>>
  /\ step' = step + 1
  /\ UNCHANGED <<control, pc, threat>>

TxDone ==
  /\ pc \in {"tx1", "tx2"}
  /\ step \notin DOMAIN TxRules
  /\ threat' = IF threat = 0 THEN local ELSE threat
  /\ pc' = IF pc = "tx1" THEN "meta" ELSE "verdict"
  /\ step' = 1
  /\ UNCHANGED <<ruleVars, control, local>>

-----------------------------------------------------------------------------
(* Request metadata and projected collections *)

MetaCheck ==
  /\ pc = "meta"
  /\ step \in DOMAIN MetaChecks
  /\ IF step \in request.meta
       THEN Score(MetaChecks[step][1], MetaChecks[step][2], Threshold)
       ELSE UNCHANGED <<ruleVars, threat>>
  /\ step' = step + 1
  /\ UNCHANGED <<control, pc, local>>

MetaDone ==
  /\ pc = "meta"
  /\ step \notin DOMAIN MetaChecks
  /\ pc' = "project"
  /\ step' = 1
  /\ local' = 0
  /\ UNCHANGED <<ruleVars, control, threat>>

\* Mutant: the disabled rules are taken before the value's own controls ran.
ProjectValueStale ==
  /\ pc = "project"
  /\ step \in DOMAIN request.projected
  /\ LET v == request.projected[step] IN
       /\ RemoveTargets(v.off)
       /\ mask' = DisabledMask(disabled, targetsOff, v.colls)
  /\ pc' = "projectScan"
  /\ UNCHANGED <<request, todo, cur, before, nullFound, verdict, scanned, step, threat, local>>

\* Every projected value is evaluated, whatever the ones before it gave.
ProjectValue ==
  /\ pc = "project"
  /\ step \in DOMAIN request.projected
  /\ LET v == request.projected[step] IN
       /\ RemoveTargets(v.off)
       /\ mask' = DisabledMask(disabled, targetsOff', v.colls)
  /\ pc' = "projectScan"
  /\ UNCHANGED <<request, todo, cur, before, nullFound, verdict, scanned, step, threat, local>>

\* The XML parser answers -1 when the document exceeds one of its limits.
ProjectValueDone ==
  /\ pc = "projectScan"
  /\ local' = IF request.projected[step].limit THEN -1 ELSE local
  /\ pc' = "project"
  /\ step' = step + 1
  /\ UNCHANGED <<ruleVars, control, threat>>

\* Mutant: the threat of the transaction rules is overwritten.
ProjectDoneOverwrites ==
  /\ pc = "project"
  /\ step \notin DOMAIN request.projected
  /\ threat' = local
  /\ pc' = "value"
  /\ UNCHANGED <<ruleVars, control, step, local>>

ProjectDone ==
  /\ pc = "project"
  /\ step \notin DOMAIN request.projected
  /\ threat' = IF threat = 0 THEN local ELSE threat
  /\ pc' = "value"
  /\ UNCHANGED <<ruleVars, control, step, local>>

-----------------------------------------------------------------------------
(* The loop over the caller's values *)

\* Mutant: the loop does not move on.
NextValueStuck(i) ==
  /\ pc' = "value"
  /\ UNCHANGED todo

\* continue
NextValue(i) ==
  /\ pc' = "value"
  /\ todo' = todo \ {i}

StartValue ==
  /\ pc = "value" /\ threat = 0
  /\ \E i \in todo : LET v == request.vals[i] IN
       /\ ComesFirst(i)
       /\ cur' = i
       /\ RemoveTargets(v.off)
       /\ mask' = DisabledMask(disabled, targetsOff', v.colls)
       /\ \/ v.len = 0 /\ pc' = "empty" /\ UNCHANGED todo
          \/ v.len > 0 /\ LeftOut(v) /\ NextValue(i)
          \/ v.len > 0 /\ ~LeftOut(v) /\ pc' = "raw" /\ UNCHANGED todo
  /\ before' = score
  /\ nullFound' = FALSE
  /\ local' = 0
  /\ step' = 1
  /\ UNCHANGED <<request, verdict, scanned, threat>>

\* lumina_scan_empty_variable returned.
EmptyDone ==
  /\ pc = "empty"
  /\ threat' = IF local # 0 THEN local ELSE threat
  /\ scanned' = scanned \cup {cur}
  /\ NextValue(cur)
  /\ UNCHANGED <<ruleVars, request, cur, mask, before, nullFound, verdict, step, local>>

\* Canonicalization removes %00, so its rule looks at the raw value.
RawNullByte ==
  /\ pc = "raw"
  /\ IF Value.null
       THEN Score(NullByte, 5, Adaptive(Value.len, Value.rich) + before)
       ELSE UNCHANGED <<ruleVars, threat>>
  /\ nullFound' = Value.null
  /\ pc' = IF Value.kind = "json" THEN "json" ELSE "filter"
  /\ UNCHANGED <<request, todo, cur, mask, before, verdict, scanned, step, local>>

\* Each JSON string goes through three scanners; a threat ends the value.
JsonOver ==
  \/ step > 3 * Len(Value.strings)
  \/ step > 1 /\ step % 3 = 1 /\ threat # 0

JsonString ==
  /\ pc = "json"
  /\ ~JsonOver
  /\ LET s == JsonScanners[((step - 1) % 3) + 1]
         string == Value.strings[((step - 1) \div 3) + 1]
     IN \/ UNCHANGED <<ruleVars, threat>>
        \/ /\ s = "xss" \/ threat = 0
           /\ \E r \in ScannerRules[s] :
                Score(r, 5, Adaptive(string.len, string.rich) + before)
  /\ step' = step + 1
  /\ UNCHANGED <<control, pc, local>>

\* Mutant: a value with JSON strings is never evaluated as a whole.
JsonDoneSkipsValue ==
  /\ pc = "json"
  /\ JsonOver
  /\ NextValue(cur)
  /\ step' = 1
  /\ UNCHANGED <<ruleVars, request, cur, mask, before, nullFound, verdict, scanned, threat, local>>

JsonDone ==
  /\ pc = "json"
  /\ JsonOver
  /\ IF threat # 0 THEN NextValue(cur) ELSE pc' = "filter" /\ UNCHANGED todo
  /\ step' = 1
  /\ UNCHANGED <<ruleVars, request, cur, mask, before, nullFound, verdict, scanned, threat, local>>

\* A value without a candidate is skipped, unless a null byte was found in it
\* and the score is already over the limit.
Filter ==
  /\ pc = "filter"
  /\ step' = 1
  /\ \/ /\ ~Value.dull
        /\ pc' = "scan"
        /\ UNCHANGED <<todo, threat, scanned>>
     \/ /\ Value.dull /\ nullFound /\ score >= Threshold
        /\ threat' = NullByte
        /\ pc' = "scan"
        /\ UNCHANGED <<todo, scanned>>
     \/ /\ Value.dull /\ ~(nullFound /\ score >= Threshold)
        /\ NextValue(cur)
        /\ scanned' = IF threat = 0 THEN scanned \cup {cur} ELSE scanned
        /\ UNCHANGED threat
  /\ UNCHANGED <<ruleVars, request, cur, mask, before, nullFound, verdict, local>>

Scan ==
  /\ pc = "scan"
  /\ step \in DOMAIN Scanners
  /\ LET s == Scanners[step]
         limit == Adaptive(Value.dlen, Value.rich)
         p == ScanPoints(s, Value.dlen)
     IN \/ UNCHANGED <<ruleVars, threat>>
        \/ /\ Runs(s, Value) /\ s \notin Unlisted
           /\ \E r \in ScannerRules[s] : Score(r, p, limit + before)
        \/ /\ Runs(s, Value) /\ s \in Unlisted
           /\ \E r \in ScannerRules[s] : ScoreDirectly(r, p, limit)
  /\ step' = step + 1
  /\ UNCHANGED <<control, pc, local>>

ScanDone ==
  /\ pc = "scan"
  /\ step \notin DOMAIN Scanners
  /\ pc' = IF threat = 0 THEN "dispatch" ELSE "valueEnd"
  /\ UNCHANGED <<ruleVars, control, step, threat, local>>

\* A generated rule hits.  When the hit comes from a shared router and sets the
\* threat, the rest of the mask word still runs until it hits once more.
DispatchHit ==
  /\ pc \in {"dispatch", "trailing"}
  /\ \E r \in Engine \ mask :
       /\ r # Hpp /\ RulePoints[r] > 0
       /\ Score(r, RulePoints[r], Adaptive(Value.dlen, Value.rich) + before)
  /\ \/ pc' = IF threat' = 0 THEN "dispatch" ELSE "valueEnd"
     \/ pc = "dispatch" /\ threat' # 0 /\ pc' = "trailing"
  /\ UNCHANGED <<control, step, local>>

DispatchDone ==
  /\ pc \in {"dispatch", "trailing"}
  /\ pc' = "valueEnd"
  /\ UNCHANGED <<ruleVars, control, step, threat, local>>

\* Mutant: there is no null-byte fallback.
ValueEndWithoutFallback ==
  /\ pc = "valueEnd"
  /\ scanned' = IF threat = 0 THEN scanned \cup {cur} ELSE scanned
  /\ NextValue(cur)
  /\ UNCHANGED <<ruleVars, request, cur, mask, before, nullFound, verdict, step, threat, local>>

\* Mutant: the fallback does not ask whether this value held a null byte.
ValueEndAlwaysNull ==
  /\ pc = "valueEnd"
  /\ threat' = IF threat = 0 /\ score >= Threshold THEN NullByte ELSE threat
  /\ scanned' = IF threat = 0 THEN scanned \cup {cur} ELSE scanned
  /\ NextValue(cur)
  /\ UNCHANGED <<ruleVars, request, cur, mask, before, nullFound, verdict, step, local>>

\* The null-byte fallback closes the value.
ValueEnd ==
  /\ pc = "valueEnd"
  /\ threat' = IF threat = 0 /\ nullFound /\ score >= Threshold THEN NullByte ELSE threat
  /\ scanned' = IF threat = 0 THEN scanned \cup {cur} ELSE scanned
  /\ NextValue(cur)
  /\ UNCHANGED <<ruleVars, request, cur, mask, before, nullFound, verdict, step, local>>

\* Mutant: the transaction rules are not evaluated a second time.
ValuesDoneWithoutTx ==
  /\ pc = "value"
  /\ threat # 0 \/ todo = {}
  /\ pc' = "verdict"
  /\ UNCHANGED <<ruleVars, control, step, threat, local>>

ValuesDone ==
  /\ pc = "value"
  /\ threat # 0 \/ todo = {}
  /\ pc' = "controls2"
  /\ UNCHANGED <<ruleVars, control, step, threat, local>>

-----------------------------------------------------------------------------
(* The verdict *)

\* Mutant: the limit itself passes.
VerdictAboveLimit ==
  /\ pc = "verdict"
  /\ verdict' = IF score > Threshold THEN threat ELSE 0
  /\ pc' = "done"
  /\ UNCHANGED <<ruleVars, request, todo, cur, mask, before, nullFound, scanned, step, threat, local>>

Verdict ==
  /\ pc = "verdict"
  /\ verdict' = IF score >= Threshold THEN threat ELSE 0
  /\ pc' = "done"
  /\ UNCHANGED <<ruleVars, request, todo, cur, mask, before, nullFound, scanned, step, threat, local>>

\* A fresh state and a cleared score, as at the start of the function.
BundleInit ==
  /\ Init
  /\ request \in Requests
  /\ pc = "controls1" /\ step = 1 /\ todo = DOMAIN request.vals /\ cur = 0
  /\ mask = {} /\ before = 0 /\ nullFound = FALSE
  /\ threat = 0 /\ local = 0 /\ verdict = 0 /\ scanned = {}

Finished == pc = "done" /\ UNCHANGED bundleVars

Advance ==
  \/ Controls \/ TxRule \/ TxDone
  \/ MetaCheck \/ MetaDone
  \/ ProjectValue \/ ProjectValueDone \/ ProjectDone
  \/ StartValue \/ EmptyDone
  \/ RawNullByte \/ JsonString \/ JsonDone \/ Filter
  \/ Scan \/ ScanDone \/ DispatchDone \/ ValueEnd
  \/ ValuesDone \/ Verdict

BundleNext == Advance \/ GeneratedHit \/ DispatchHit \/ Finished

\* A sequential function: it keeps running, and every value has finitely many
\* offsets, so the hits of one value come to an end.
Fairness == WF_bundleVars(Advance)

BundleSpec == BundleInit /\ [][BundleNext]_bundleVars /\ Fairness

-----------------------------------------------------------------------------
(* Properties *)

BundleTypeOK ==
  /\ TypeOK
  /\ request \in Requests
  /\ step \in Nat /\ cur \in Nat /\ todo \subseteq DOMAIN request.vals
  /\ mask \in SUBSET Engine
  /\ before \in Nat
  /\ nullFound \in BOOLEAN
  /\ {threat, local, verdict} \subseteq Rule \cup {0, -1}
  /\ scanned \subseteq Nat

\* A request is only blocked for a rule that was credited.  The one exception
\* is the null-byte fallback, which names its rule even if it was removed.
VerdictIsAccounted ==
  pc = "done" /\ verdict > 0 =>
    credits[verdict] > 0 \/ (verdict = NullByte /\ NullByte \in disabled)

\* When no threat ended the inspection, every value was evaluated to its end or
\* belongs to those the loop leaves to the projections.
NoThreatMeansAllScanned ==
  pc = "done" /\ threat = 0 =>
    \A i \in DOMAIN request.vals : i \in scanned \/ LeftOut(request.vals[i])

\* Once an evaluation path found a threat, no later one takes it back; a later
\* one may only replace it.
ThreatIsKept == [][threat # 0 => threat' # 0]_bundleVars

Silent(v) ==
  \A r \in DisabledMask(disabled, targetsOff, v.colls) : credits'[r] = credits[r]

\* The dispatch of generated rules over a value, a projected value or an empty one
\* credits no rule whose target was removed for the collections of the value, by
\* this value's controls or by earlier ones.  Of these steps alone: the null-byte
\* check and the hand-written scanners (luminawaf.cpp:1860-1916, 1951-2025) look
\* at removed ids, not at removed targets.
RemovedTargetsAreSilent ==
  [][/\ pc \in {"dispatch", "trailing", "empty"} => Silent(Value)
     /\ pc = "projectScan" => Silent(request.projected[step])]_bundleVars

\* Where the verdict differs from the threat that ended the inspection, the
\* reason is one of two: the XML parser gave up, or a short value reached its
\* own lower threshold and the transaction stayed one point below the limit.
QuietStops ==
  pc = "done" /\ verdict = 0 /\ threat # 0 =>
    threat = -1 \/ score = Threshold - 1

\* A null byte found in a value is never passed over, not even if no scanner finds
\* anything else in it (the comments at luminawaf.cpp:1935-1938 and 2123-2125):
\* when the value is left its rule is credited, if not removed, and with the score
\* over the limit there is a threat.
NullByteIsNotIgnored ==
  pc = "value" /\ nullFound =>
    /\ credits[NullByte] > 0 \/ NullByte \in disabled
    /\ score >= Threshold => threat # 0

\* The second pass over the transaction rules sees every predicate the
\* projections recorded: a rule whose conditions hold in the end is credited.
TransactionRulesSettle ==
  pc = "done" =>
    \A k \in DOMAIN TxRules :
      TxRuleFires(TxRules[k]) /\ TxRules[k].rule \notin disabled
        => credits[TxRules[k].rule] > 0

\* Every inspection comes to a verdict.
Terminates == <>(pc = "done")

\* "The final verdict uses the transaction-wide anomaly score" (luminawaf.cpp,
\* line 2141): the request is blocked iff its score reached the limit.
VerdictMatchesScore == pc = "done" => (verdict # 0 <=> score >= Threshold)
=============================================================================
