---------------------------- MODULE RuleTranslation ----------------------------
(***************************************************************************)
(* tools/sidecar_translator.py from the text of a rule set to the list of  *)
(* generated rules: statements, chains, the rules that are compiled, left  *)
(* to the runtime or given up, and the removal controls.  Patterns are     *)
(* names; what the emitters do with one is a parameter (RegexCompiler and  *)
(* RegexBackends model them).  tools/audit_crs_mechanisms.py reads the     *)
(* same text for the published manifest.                                   *)
(***************************************************************************)
EXTENDS RuleLists, SequencesExt, FiniteSetsExt

CONSTANTS
    Statements,      \* texts of one statement: sequences of [comment, item]
    MaxStatements,   \* bound: statements of a rule set
    PL,              \* --pl, the paranoia level compiled
    FileParanoia,    \* FILE_MAP: the level of a rule that states none
    HeaderNames,     \* HEADER_MASKS
    Collections,     \* COLLECTION_SPECS
    Transaction,     \* pattern -> "none", "runtime" or "lowered": what a transaction chain that starts with it becomes
    ChainForm,       \* pattern -> the first chain lowering that accepts it, or "none"
    OverBudget,      \* patterns whose automaton is over its budget
    Untranslatable,  \* patterns whose emitter raises
    MissingData      \* phrase files that do not exist

VARIABLES
    text,       \* the items read, each with whether its line is a comment
    rules,      \* parsed_rules
    next,       \* position in rules of the loop that runs over them
    units,      \* rules grouped into chains, those still to be classified
    fates,      \* what became of the units classified so far
    detection,  \* the generated rules, by engine index - 1
    removals, targetRemovals,  \* the two lists of controls
    unsupported,  \* ids and reasons of unsupported_rules
    head, heads,  \* the audit: the chain it is in, the chains that score
    audited,    \* the rows of the audit
    phase       \* "read", "translate", "audit" or "done"

outcome == <<fates, detection, removals, targetRemovals, unsupported>>
audit == <<head, heads, audited>>
vars == <<text, rules, next, units, outcome, audit, phase>>

NoId == 0
NoScore == -1
RUNTIME_COVERED_IDS == {911100, 920100, 913100, 920430, 920660, 920280, 920620, 920320}
AUDIT_COVERED_IDS == {911100, 920100, 913100, 920171, 920280, 920320, 920430, 920620, 920660}
REQUEST_METADATA_FIELDS == {"REQUEST_METHOD", "REQUEST_PROTOCOL", "REQBODY_PROCESSOR"}
NameFields == {"REQUEST_FILENAME", "REQUEST_BASENAME"}

-----------------------------------------------------------------------------
(* From text to rules *)

\* parse_conf_files: comment lines do not count; a statement ends where the next
\* SecRule or SecAction starts.
Split(items) ==
    LET starts == {k \in DOMAIN items : ~items[k].comment /\ items[k].item[1] \in {"SecRule", "SecAction"}}
        last == Cardinality(starts)
    IN [n \in 1..last |->
          SubSeq(items, Nth(starts, n), IF n = last THEN Len(items) ELSE Nth(starts, n + 1) - 1)]

LevelPoints == [critical |-> 5, error |-> 4, warning |-> 3, notice |-> 2]

\* parse_statement: of an action given twice the last counts, except that a
\* severity decides the score whatever the setvar says.
ParseStatement(items) ==
    LET Is(t, key) == ~t.comment /\ t.item[1] = key
        Has(key) == \E t \in ToSet(items) : Is(t, key)
        All(key) == SelectSeq(items, LAMBDA t : Is(t, key))
        Each(key) == {t.item : t \in {x \in ToSet(items) : Is(x, key)}}
        Value(key, default) == IF Has(key) THEN Last(All(key)).item[2] ELSE default
        op == IF Has("op") THEN Head(All("op")).item ELSE <<"op", "", FALSE, "">>
        variables == Value("vars", {})
    IN [kind |-> items[1].item[1], id |-> Value("id", NoId), phase |-> Value("phase", 0),
        chain |-> Has("chain"), block |-> Has("block"), gating |-> Has("gating"),
        operator |-> op[2], negated |-> op[3], pattern |-> op[4],
        bindings |-> variables, transforms |-> {i[2] : i \in Each("t")},
        score |-> LevelPoints[Value("severity", Value("setvar", "critical"))],
        scoring |-> items[1].item[1] = "SecRule" /\ Has("setvar"),
        blockingEval |-> \E b \in variables : b.collection = "TX" /\ b.selector # "",
        paranoia |-> Value("says", Value("paranoia", FileParanoia)),
        tags |-> {i[2] : i \in Each("tag")},
        removes |-> Each("remove"), dynamic |-> Has("removeMacro"),
        removeTargets |-> Each("removeTarget"), members |-> <<>>]

Members(unit) == IF unit.members = <<>> THEN <<unit>> ELSE unit.members

\* Mutant: the score-bearing action is looked for on the head alone.
HeadIsScoreBearing(unit) == unit.scoring
chain_is_score_bearing(unit) == \E m \in ToSet(Members(unit)) : m.scoring

\* group_rule_chains: a chain is one unit, its head's; it ends at the first
\* statement that asks for no further one, and charges what its first scoring
\* member does.
ChainEnd(first) ==
    LET ends == {j \in first..Len(rules) : ~rules[j].chain}
    IN IF ends = {} THEN Len(rules) ELSE Min(ends)

\* Mutant: a chain charges what its head does.
UnitOfHead(first) ==
    IF rules[first].chain THEN [rules[first] EXCEPT !.members = SubSeq(rules, first, ChainEnd(first))] ELSE rules[first]

Unit(first) ==
    LET scoring == {j \in first..ChainEnd(first) : rules[j].scoring}
    IN IF ~rules[first].chain THEN rules[first]
       ELSE [rules[first] EXCEPT !.members = SubSeq(rules, first, ChainEnd(first)),
                                 !.score = IF scoring = {} THEN @ ELSE rules[Min(scoring)].score]

\* --rule-mode auto
RuleMode(parsed) == IF \E r \in ToSet(parsed) : r.scoring THEN "crs-scoring" ELSE "modsecurity"

-----------------------------------------------------------------------------
(* What becomes of a unit *)

Positive(r) == {b \in r.bindings : ~b.excluded}
Single(r) == Cardinality(Positive(r)) = 1
Binding(r) == CHOOSE b \in Positive(r) : TRUE

negated_rx_runtime_safe(r) ==
    /\ Positive(r) # {}
    /\ \/ \A b \in Positive(r) : b.collection \in {"FILES", "FILES_NAMES"} /\ ~b.count /\ b.selector = ""
       \/ \A b \in Positive(r) : b.collection = "REQUEST_HEADERS" /\ ~b.count /\ b.selector \in HeaderNames

WholeValue(unit) ==
    /\ unit.members = <<>> /\ unit.negated /\ unit.operator = "@rx"
    /\ negated_rx_runtime_safe(unit) /\ unit.transforms \subseteq {"none", "lowercase"}
    /\ Single(unit) /\ Binding(unit).selector \in HeaderNames

\* classify_transaction_chain, then classify_whole_value_request_rule
Descriptor(unit) ==
    IF Transaction[unit.pattern] # "none" THEN Transaction[unit.pattern]
    ELSE IF WholeValue(unit) THEN "runtime" ELSE "none"

IsDisruptive(r) == r.kind = "SecRule" /\ r.id # NoId /\ r.block
is_compilable(unit, mode) ==
    \/ chain_is_score_bearing(unit)
    \/ mode = "modsecurity" /\ \E m \in ToSet(Members(unit)) : IsDisruptive(m)

WholeBuffer == {"@detectXSS", "@detectSQLi", "@validateByteRange", "@validateUtf8Encoding",
                "@validateUrlEncoding", "@eq", "@gt", "@ge", "@lt", "@streq", "@within"}

Test(guard, to, reason) == [guard |-> guard, to |-> to, reason |-> reason]
Lost(guard, reason) == Test(guard, "unhandled", reason)  \* "" is not listed in unsupported_rules

\* The loop of main, in the order of its tests: the first that holds decides.
\* Which units are compiled at all:
Gates(unit, mode) ==
    LET described == Descriptor(unit) # "none"
    IN <<Test(unit.gating, "gating", ""),
         Lost(unit.phase \notin {1, 2}, ""),
         Lost(unit.blockingEval /\ ~described /\ chain_is_score_bearing(unit), "runtime-tx-state"),
         Test(unit.blockingEval /\ ~described, "blocking", ""),
         Test(unit.paranoia > PL, "pl", ""),
         Lost(unit.kind # "SecRule" \/ unit.operator = "", ""),
         Lost(unit.id = NoId, "chain-child-or-missing-id"),
         Test(unit.id \in RUNTIME_COVERED_IDS, "runtime", ""),
         Lost(~is_compilable(unit, mode), ""),
         Lost(~described /\ (unit.bindings = {} \/ \E b \in unit.bindings : b.collection \notin Collections),
              "unknown-collection"),
         Test(Descriptor(unit) = "runtime", "generated", "")>>

\* A chain no transaction evaluates must fit one of the chain lowerings.
Chains(unit) ==
    LET chained == unit.members # <<>> /\ Descriptor(unit) = "none"
    IN <<Lost(chained /\ ChainForm[unit.pattern] = "none", "unsupported-chain"),
         Lost(chained /\ ChainForm[unit.pattern] = "phrase" /\ unit.pattern \in MissingData,
              "chain-pm-data-file-not-found"),
         Lost(chained /\ unit.pattern \in OverBudget, "chain-dfa-budget"),
         Test(chained, "generated", "")>>

Negations(unit) ==
    <<Test(unit.negated /\ unit.operator = "@within", "generated", ""),
      Lost(unit.negated /\ ~(unit.operator = "@rx" /\ negated_rx_runtime_safe(unit)), "unsafe-negated-operator-binding"),
      Lost(unit.negated /\ unit.pattern \in OverBudget, "negated-dfa-budget"),
      Test(unit.negated, "generated", "")>>

Operators(unit) ==
    LET Op(names) == unit.operator \in names
    IN <<Lost(Op({"@rx"}) /\ unit.pattern \in Untranslatable, ""),
         Lost(Op({"@pm", "@contains"}) /\ unit.pattern = "", ""),
         Test(Op({"@pmFromFile"}) /\ unit.pattern = "", "uncounted", ""),
         Lost(Op({"@pmFromFile"}) /\ unit.pattern \in MissingData, ""),
         Test(Op(WholeBuffer \cup {"@rx", "@pm", "@contains", "@pmFromFile"}), "generated", ""),
         Lost(TRUE, "unsupported-operator")>>

Ladder(unit, mode) == Gates(unit, mode) \o Chains(unit) \o Negations(unit) \o Operators(unit)

Fate(unit, mode) ==
    LET ladder == Ladder(unit, mode)
        first == SelectInSeq(ladder, LAMBDA t : t.guard)
    IN [id |-> unit.id, to |-> ladder[first].to, reason |-> ladder[first].reason]

\* Mutant: a transaction rule keeps its score next to that of its descriptor.
GeneratedWithBothScores(unit) ==
    [id |-> unit.id, tags |-> unit.tags, score |-> unit.score,
     transactionScore |-> IF Descriptor(unit) = "none" THEN NoScore ELSE unit.score]

\* A rule with a transaction descriptor charges by that descriptor alone.
Generated(unit) ==
    [id |-> unit.id, tags |-> unit.tags,
     score |-> IF Descriptor(unit) = "none" THEN unit.score ELSE 0,
     transactionScore |-> IF Descriptor(unit) = "none" THEN NoScore ELSE unit.score]

-----------------------------------------------------------------------------
(* Controls: which generated rules a statement removes at run time *)

Positions(final, ranges) == {k \in DOMAIN final : \E t \in ranges : final[k].id \in t[2]..t[3]}

Removal(r) ==
    /\ r.kind = "SecRule" /\ r.phase \in {1, 2} /\ ~r.chain /\ ~r.negated /\ r.operator = "@streq"
    /\ Single(r) /\ Binding(r).selector = "" /\ ~Binding(r).count
    /\ Binding(r).collection \in REQUEST_METADATA_FIELDS
    /\ r.transforms \subseteq {"none", "lowercase"} /\ ~r.dynamic

RemovalControl(r, final) ==
    [source |-> r.id,
     targets |-> Positions(final, r.removes)]

collect_rule_removal_controls(parsed, final) ==
    LET named == {r \in ToSet(parsed) : r.dynamic \/ r.removes # {}}
        kept == {r \in named : Removal(r) /\ RemovalControl(r, final).targets # {}}
        Missed(r) == {t \in r.removes : Positions(final, {t}) = {}}
    IN [controls |-> {RemovalControl(r, final) : r \in kept},
        unsupported |->
            {[id |-> r.id, reason |-> "unsupported-rule-removal-control"] : r \in {x \in named : ~Removal(x)}}
            \cup {[id |-> r.id, reason |-> "rule-removal-target-not-generated"] :
                      r \in {x \in named : Removal(x) /\ Missed(x) # {}}}]

TargetRemoval(r, action) ==
    /\ r.kind = "SecRule" /\ r.phase \in {1, 2} /\ ~r.chain /\ r.operator = "@validateByteRange"
    /\ Single(r) /\ Binding(r).selector = "" /\ ~Binding(r).count
    /\ Binding(r).collection \in NameFields /\ action[3] \in NameFields
    /\ r.transforms \subseteq {"none"} /\ r.pattern # ""

collect_rule_target_removal_controls(parsed, final) ==
    LET asked == UNION {{<<r, a>> : a \in r.removeTargets} : r \in ToSet(parsed)}
        Reach(a) == {k \in DOMAIN final : a[2] \in final[k].tags}
        kept == {x \in asked : TargetRemoval(x[1], x[2]) /\ Reach(x[2]) # {}}
    IN [controls |-> {[source |-> x[1].id, collection |-> x[2][3], targets |-> Reach(x[2])] : x \in kept},
        unsupported |->
            {[id |-> x[1].id, reason |-> IF TargetRemoval(x[1], x[2]) THEN "rule-remove-target-tag-empty"
                                         ELSE "unsupported-rule-remove-target-by-tag-control"] : x \in asked \ kept}]

-----------------------------------------------------------------------------
(* The audit *)

\* audit_rules: one row for every rule with an id, a phase and a level of the scope
audit_rules(parsed, emitted) ==
    LET Row(r) ==
            LET native == r.id \in AUDIT_COVERED_IDS
            IN [id |-> r.id, headScores |-> r.id \in heads,
                scoring |-> r.scoring \/ (r.id \in heads /\ native),
                covered |-> native \/ r.id \in emitted]
    IN {Row(r) : r \in {x \in ToSet(parsed) : x.id # NoId /\ x.paranoia <= PL /\ x.phase \in {1, 2}}}

NotCovered(rows) == {row.id : row \in {x \in rows : x.scoring /\ ~x.covered}}

-----------------------------------------------------------------------------
(* The program *)

\* A statement is a sequence of items.
StatementsAssumption == \A statement \in Statements : statement \in Seq(ToSet(statement))

Init ==
    /\ text = <<>> /\ rules = <<>> /\ next = 1 /\ units = <<>>
    /\ fates = <<>> /\ detection = <<>> /\ removals = {} /\ targetRemovals = {} /\ unsupported = {}
    /\ head = NoId /\ heads = {} /\ audited = {}
    /\ phase = "read"

\* The environment: the rule set has one more statement.
Write ==
    /\ phase = "read" /\ Len(Split(text)) < MaxStatements
    /\ \E statement \in Statements : text' = text \o statement
    /\ UNCHANGED <<rules, next, units, outcome, audit, phase>>

Parse ==
    /\ phase = "read" /\ text # <<>>
    /\ \E statements \in {Split(text)} : rules' = [k \in DOMAIN statements |-> ParseStatement(statements[k])]
    /\ phase' = "translate"
    /\ UNCHANGED <<text, next, units, outcome, audit>>

Group ==
    /\ phase = "translate" /\ next <= Len(rules)
    /\ units' = Append(units, Unit(next))
    /\ next' = IF rules[next].chain THEN ChainEnd(next) + 1 ELSE next + 1
    /\ UNCHANGED <<text, rules, outcome, audit, phase>>

Skip ==
    /\ phase = "translate" /\ next > Len(rules) /\ units # <<>>
    /\ \E fate \in {Fate(Head(units), RuleMode(rules))} :
          /\ fate.to # "generated"
          /\ fates' = Append(fates, fate)
          /\ unsupported' = unsupported \cup {[id |-> fate.id, reason |-> r] : r \in {fate.reason} \ {""}}
    /\ units' = Tail(units)
    /\ UNCHANGED <<text, rules, next, detection, removals, targetRemovals, audit, phase>>

Generate ==
    /\ phase = "translate" /\ next > Len(rules) /\ units # <<>>
    /\ \E fate \in {Fate(Head(units), RuleMode(rules))} :
          fate.to = "generated" /\ fates' = Append(fates, fate)
    /\ detection' = Append(detection, Generated(Head(units)))
    /\ units' = Tail(units)
    /\ UNCHANGED <<text, rules, next, removals, targetRemovals, unsupported, audit, phase>>

\* Mutant: the controls take their indices before repeated ids are dropped.
FinishWithEarlyIndices ==
    /\ phase = "translate" /\ next > Len(rules) /\ units = <<>>
    /\ detection' = Final(detection)
    /\ \E byId \in {collect_rule_removal_controls(rules, detection)},
          byTag \in {collect_rule_target_removal_controls(rules, detection)} :
          /\ removals' = byId.controls /\ targetRemovals' = byTag.controls
          /\ unsupported' = unsupported \cup byId.unsupported \cup byTag.unsupported
    /\ phase' = "audit" /\ next' = 1
    /\ UNCHANGED <<text, rules, units, fates, audit>>

Finish ==
    /\ phase = "translate" /\ next > Len(rules) /\ units = <<>>
    /\ detection' = Final(detection)
    /\ \E byId \in {collect_rule_removal_controls(rules, detection')},
          byTag \in {collect_rule_target_removal_controls(rules, detection')} :
          /\ removals' = byId.controls /\ targetRemovals' = byTag.controls
          /\ unsupported' = unsupported \cup byId.unsupported \cup byTag.unsupported
    /\ phase' = "audit" /\ next' = 1
    /\ UNCHANGED <<text, rules, units, fates, audit>>

\* The chain the statement is in; a chain without an id is not followed.
Current(r) == IF head # NoId THEN head ELSE IF r.chain THEN r.id ELSE NoId

\* Mutant: the chain is closed before its last member is looked at.
FollowWithoutLast ==
    /\ phase = "audit" /\ next <= Len(rules)
    /\ \E r \in {rules[next]} :
          /\ head' = IF r.chain THEN Current(r) ELSE NoId
          /\ heads' = heads \cup IF r.scoring /\ r.chain THEN {Current(r)} \ {NoId} ELSE {}
    /\ next' = next + 1
    /\ UNCHANGED <<text, rules, units, outcome, audited, phase>>

\* chain_score_heads, one statement
Follow ==
    /\ phase = "audit" /\ next <= Len(rules)
    /\ \E r \in {rules[next]} :
          /\ head' = IF r.chain THEN Current(r) ELSE NoId
          /\ heads' = heads \cup IF r.scoring THEN {Current(r)} \ {NoId} ELSE {}
    /\ next' = next + 1
    /\ UNCHANGED <<text, rules, units, outcome, audited, phase>>

Audit ==
    /\ phase = "audit" /\ next > Len(rules)
    /\ audited' = audit_rules(rules, {g.id : g \in ToSet(detection)})
    /\ phase' = "done"
    /\ UNCHANGED <<text, rules, next, units, outcome, head, heads>>

Next ==
    \/ Write \/ Parse \/ Group \/ Skip \/ Generate \/ Finish \/ Follow \/ Audit

Spec == Init /\ [][Next]_vars

-----------------------------------------------------------------------------
(* Properties *)

Translated == phase \in {"audit", "done"}

\* The statements of the chain that starts at position k of the rule set, and
\* the positions where one starts, read off the statements alone.
Reaches(k, j) == k <= j /\ \A i \in k..(j - 1) : rules[i].chain
Starts == {k \in DOMAIN rules : k = 1 \/ ~rules[k - 1].chain}
ScoresAt(k) == \E j \in DOMAIN rules : Reaches(k, j) /\ rules[j].scoring

\* Emission gave up without an entry: phrase data that is missing, no phrases,
\* an @rx emitter that raised, or a rule that counts parameters (HPP_SKIP).
\* The code loses these silently (sidecar_translator.py:7884-7906, 7941-7947).
GivenUp(r) ==
    \/ r.operator \in {"@pm", "@contains", "@pmFromFile"} /\ r.pattern \in (MissingData \cup {""})
    \/ r.operator = "@rx" /\ r.pattern \in Untranslatable
    \/ r.id \in HPP_SKIP

\* A score-bearing rule or chain of the phases and levels compiled, gating rules
\* apart, is generated, left to the runtime or in unsupported_rules
\* (group_rule_chains, the loop of main), wherever in the chain its score is.
\* Only what GivenUp names is lost without a sign.
ScoringRulesAreAccounted ==
    Translated =>
        \A k \in Starts :
            LET r == rules[k]
            IN ScoresAt(k) /\ r.kind = "SecRule" /\ r.operator # "" /\ r.phase \in {1, 2} /\ ~(r.paranoia > PL)
               /\ ~r.gating /\ ~GivenUp(r) =>
                   \/ r.id \in RUNTIME_COVERED_IDS
                   \/ \E g \in ToSet(detection) : g.id = r.id
                   \/ \E u \in unsupported : u.id = r.id

\* A generated rule charges the points of its first scoring statement exactly
\* once: in its own score or in that of its transaction descriptor, never both.
ChargedOnce ==
    Translated =>
        \A g \in ToSet(detection) :
            \E k \in Starts :
                /\ rules[k].id = g.id
                /\ \E j \in DOMAIN rules :
                      /\ Reaches(k, j)
                      /\ rules[j].scoring \/ (j = k /\ ~ScoresAt(k))
                      /\ \A i \in k..(j - 1) : ~rules[i].scoring
                      /\ \/ g.score = rules[j].score /\ g.transactionScore = NoScore
                         \/ g.score = 0 /\ g.transactionScore = rules[j].score

\* The engine indices a removal control disables are those of the generated
\* rules its statement names, after repeated and skipped ids are gone; a
\* statement whose targets cannot be removed is in unsupported_rules.
RemovalsReachTheirTargets ==
    Translated =>
        /\ \A c \in removals :
              \E r \in ToSet(rules) :
                  /\ r.id = c.source
                  /\ c.targets = {k \in DOMAIN detection : \E t \in r.removes : detection[k].id \in t[2]..t[3]}
        /\ \A c \in targetRemovals :
              \E r \in ToSet(rules), a \in UNION {x.removeTargets : x \in ToSet(rules)} :
                  /\ r.id = c.source /\ a \in r.removeTargets /\ a[3] = c.collection
                  /\ c.targets = {k \in DOMAIN detection : a[2] \in detection[k].tags}
        /\ \A r \in ToSet(rules) :
              r.removes # {} \/ r.dynamic \/ r.removeTargets # {} =>
                  \/ \E c \in removals \cup targetRemovals : c.source = r.id
                  \/ \E u \in unsupported : u.id = r.id

\* The audit and the translator, which find the members of a chain with code
\* of their own, agree on which chains score (of an id that occurs once); and a
\* rule that scores by itself and that the translator lost is among the audit's
\* gaps.  A lost chain that scores on a later member is not asked for: the
\* audit lists it by its head's own score only (audit_crs_mechanisms.py:269-273).
AuditSeesTheSameChains ==
    phase = "done" =>
        /\ \A row \in audited, k \in Starts :
              rules[k].id = row.id /\ rules[k].chain
              /\ Cardinality({j \in DOMAIN rules : rules[j].id = row.id}) = 1 =>
                  (row.headScores <=> ScoresAt(k))
        /\ \A fate \in ToSet(fates) :
              \A r \in ToSet(rules) :
                  /\ r.id = fate.id /\ r.scoring /\ r.phase \in {1, 2} /\ r.paranoia <= PL
                  /\ fate.to = "unhandled" /\ fate.id # NoId
                  => \/ fate.id \in NotCovered(audited) \cup AUDIT_COVERED_IDS
                     \/ \E g \in ToSet(detection) : g.id = fate.id

=============================================================================
