----------------------------- MODULE RoutingTables -----------------------------
(***************************************************************************)
(* Which generated rules see a value.  tools/sidecar_translator.py turns a *)
(* rule's variables into scope, type, header and collection masks, fuses   *)
(* call dictionaries into shared routers and writes the routing tables;    *)
(* src/luminawaf.cpp selects a row of them for a value and runs what the   *)
(* value's bytes route to.  Masks are sets: of scopes, types, header bits, *)
(* and of the indexes of "detection", the generated rules.                 *)
(***************************************************************************)
EXTENDS RuleLists, SequencesExt, FiniteSetsExt

CONSTANTS
    RuleChoices,     \* [id, vars, pattern, transforms, targets]
    Values,          \* [scope, type, headers, collections, bytes, form, off, offTargets]
    MaxRules,        \* bound: rules translated
    Bytes, WordBytes, Blank, Lower,  \* bytes, word characters, white space, case folding
    RouterRules,     \* rules of one router (8 in the code)
    LargeDictionary, \* words of a dictionary worth a router alone (256 in the code)
    StandaloneWords, StandaloneBytes  \* least size of a trie of its own (8 and 32)

VARIABLES
    rules,      \* rules as they were classified
    detection,  \* the rules the tables are about, in order
    phase,      \* "translate", "tables" or "scanned"
    value,      \* the value scanned last
    fired, audited, listed  \* what inspection, the audit of one rule and the full audit match

vars == <<rules, detection, phase, value, fired, audited, listed>>

-----------------------------------------------------------------------------
(* Variables.  An expression is a sequence of symbols: names and selectors  *)
(* are one symbol each, the characters that steer the parser are their own. *)

Spec3(scope, types, collections) == [scope |-> scope, types |-> types, collections |-> collections]
Scopes == {"uri", "headers", "body"}
CollectionSpecs ==
    [REQUEST_URI      |-> Spec3({"uri"}, {0}, {}),
     REQUEST_FILENAME |-> Spec3({"uri"}, {11}, {"filename"}),
     ARGS             |-> Spec3({"uri", "body"}, {1}, {"args"}),
     ARGS_NAMES       |-> Spec3({"uri", "body"}, {6}, {"args_names"}),
     ARGS_GET         |-> Spec3({"uri"}, {1}, {"args"}),
     REQUEST_COOKIES  |-> Spec3({"headers"}, {2}, {"cookies"}),
     REQUEST_HEADERS  |-> Spec3({"headers"}, {3}, {"headers"}),
     REQUEST_BODY     |-> Spec3({"body"}, {4}, {"body"}),
     FILES            |-> Spec3({"body"}, {7}, {"files"}),
     XML              |-> Spec3({"body"}, {13, 14}, {"xml"}),
     REQUEST_METHOD   |-> Spec3({}, {}, {}),
     TX               |-> Spec3({}, {}, {})]
HeaderBit == [HOST |-> 3, USER_AGENT |-> 4, REFERER |-> 9, X_FILENAME |-> 10, X_FILE_NAME |-> 10]
AnyType == 5           \* the slot of the tables that every type belongs to
AnyTypes == 0..7       \* VAR_ANY, 0xFF

\* A bar separates variables unless it is inside a /regular expression/.
SplitVariables(expression) ==
    LET Close(s) == IF s.cur = <<>> THEN s.out ELSE Append(s.out, s.cur)
        Step(s, c) ==
            CASE s.escaped -> [s EXCEPT !.cur = Append(@, c), !.escaped = FALSE]
              [] c = "\\"  -> [s EXCEPT !.cur = Append(@, c), !.escaped = TRUE]
              [] c = "/"   -> [s EXCEPT !.cur = Append(@, c), !.regex = ~@]
              [] c = "|" /\ ~s.regex -> [s EXCEPT !.out = Close(s), !.cur = <<>>]
              [] OTHER     -> [s EXCEPT !.cur = Append(@, c)]
    IN Close(FoldLeft(Step, [out |-> <<>>, cur |-> <<>>, regex |-> FALSE, escaped |-> FALSE], expression))

ParseBinding(token) ==
    LET marks == SelectInSeq(Append(token, ""), LAMBDA c : c \notin {"!", "&"}) - 1
        plain == SubSeq(token, marks + 1, Len(token))
        colon == SelectInSeq(plain, LAMBDA c : c = ":")
        selector == IF colon = 0 THEN <<>> ELSE SubSeq(plain, colon + 1, Len(plain))
    IN [collection |-> IF plain = <<>> THEN "" ELSE Head(plain),
        selector |-> selector,
        kind |-> CASE selector = <<>> -> "none"
                   [] Len(selector) >= 2 /\ Head(selector) = "/" /\ Last(selector) = "/" -> "regex"
                   [] OTHER -> "literal",
        excluded |-> \E k \in 1..marks : token[k] = "!",
        count |-> \E k \in 1..marks : token[k] = "&"]

Bindings(expression) == {ParseBinding(t) : t \in ToSet(SplitVariables(expression))}
Bound(bindings) == {b \in bindings : b.collection \in DOMAIN CollectionSpecs /\ ~b.excluded}

\* compile_binding_contract: a binding of all request headers lifts the selectors.
HeaderMask(bindings) ==
    LET headers == {b \in Bound(bindings) : b.collection = "REQUEST_HEADERS"}
    IN IF \E b \in headers : b.kind = "none" THEN {}
       ELSE {HeaderBit[Head(b.selector)] :
                b \in {h \in headers : h.kind = "literal" /\ Head(h.selector) \in DOMAIN HeaderBit}}

Contract(bindings) ==
    LET Union(f) == UNION {CollectionSpecs[b.collection][f] : b \in Bound(bindings)}
    IN [scope |-> Union("scope"), types |-> Union("types"), collections |-> Union("collections"),
        headers |-> HeaderMask(bindings)]

\* map_scope: no scope means every scope, no type the first eight.
Masks(bindings) ==
    LET c == Contract(bindings)
    IN [c EXCEPT !.scope = IF @ = {} THEN Scopes ELSE @,
                 !.types = IF @ = {} THEN AnyTypes ELSE @]

-----------------------------------------------------------------------------
(* Call dictionaries: \b?(?:word|...)\s*\( or =[^=] *)

Fold(pattern, w) == IF pattern.fold THEN [k \in 1..Len(w) |-> Lower[w[k]]] ELSE w
Dictionary(pattern) == {Fold(pattern, w) : w \in pattern.words}

\* Word characters, then nothing but white space.
IsCallWord(w) ==
    \E n \in 1..Len(w) : \A k \in 1..Len(w) : w[k] \in IF k <= n THEN WordBytes ELSE Blank

HasPlan(pattern) ==
    /\ ~pattern.dotAll
    /\ pattern.blanks
    /\ pattern.suffix \in {"CALL", "ASSIGN"}
    /\ pattern.words # {}
    /\ \A w \in Dictionary(pattern) : IsCallWord(w)

Standalone(pattern) ==
    /\ HasPlan(pattern) /\ ~pattern.fold /\ ~pattern.boundary /\ pattern.suffix = "CALL"
    /\ Cardinality(pattern.words) >= StandaloneWords
    /\ MapThenSumSet(Len, pattern.words) >= StandaloneBytes

\* Rules of one group may share a router.
GroupKey(r) == <<r.transforms, r.pattern.fold, r.pattern.boundary>>

\* The indexes of i's router, or {}: chunks of its group in table order.
RouterOf(rs, i) ==
    LET Routable(j) == HasPlan(rs[j].pattern) /\ ~Standalone(rs[j].pattern)
        group == {j \in DOMAIN rs : Routable(j) /\ GroupKey(rs[j]) = GroupKey(rs[i])}
        rank(j) == Cardinality({k \in group : k < j})
        chunk == {j \in group : rank(j) \div RouterRules = rank(i) \div RouterRules}
        Alone(js) == Cardinality(js) < 2 /\ Cardinality(Dictionary(rs[Min(js)].pattern)) < LargeDictionary
    IN IF ~Routable(i) \/ Alone(group) \/ Alone(chunk) THEN {} ELSE chunk

\* The bytes a rule is routed on; lower-casing adds the other case.
RouteMask(r, forced) ==
    LET first == {w[1] : w \in Dictionary(r.pattern)}
    IN IF forced THEN Bytes
       ELSE IF r.pattern.fold \/ r.transforms = "lowercase"
            THEN {b \in Bytes : Lower[b] \in {Lower[f] : f \in first}} ELSE first

\* A row of the tables.
Row(rs, i) ==
    LET bindings == Bindings(rs[i].vars)
    IN [id |-> rs[i].id, pattern |-> rs[i].pattern, transforms |-> rs[i].transforms, targets |-> rs[i].targets,
        masks |-> Masks(bindings),
        body |-> \E b \in Bound(bindings) : b.collection = "REQUEST_BODY",
        router |-> RouterOf(rs, i),
        route |-> RouteMask(rs[i], Standalone(rs[i].pattern) \/ RouterOf(rs, i) # {})]

Tables(rs) == LET kept == Final(rs) IN [i \in DOMAIN kept |-> Row(kept, i)]

Indexes == DOMAIN detection
PatternOf(i) == detection[i].pattern
Router(i) == detection[i].router
MasksOf(i) == detection[i].masks

-----------------------------------------------------------------------------
(* The generated trie: its nodes are the prefixes of its members' words. *)

Continues(pattern, data, pos) ==
    LET start == IF pattern.blanks THEN SelectInSubSeq(Append(data, ""), pos, Len(data) + 1, LAMBDA c : c \notin Blank)
                 ELSE pos
    IN CASE pattern.suffix = "CALL" -> start <= Len(data) /\ data[start] = "("
         [] pattern.suffix = "ASSIGN" -> start < Len(data) /\ data[start] = "=" /\ data[start + 1] # "="
         [] OTHER -> TRUE

\* The wanted members of a router that match from the offset on.
RouterHits(members, data, offset, wanted) ==
    LET lead == PatternOf(Min(members))
        Text(c, n) == Fold(lead, SubSeq(data, c, c + n - 1))
        Below(node) == {i \in wanted : \E w \in Dictionary(PatternOf(i)) : IsPrefix(node, w)}
        Starts == {c \in offset..Len(data) : ~(lead.boundary /\ c > 1 /\ data[c - 1] \in WordBytes)}
        Walk(c) == {n \in 1..(Len(data) - c + 1) : \A k \in 1..n : Below(Text(c, k)) # {}}
    IN {i \in wanted :
          \E c \in Starts : \E n \in Walk(c) :
             Text(c, n) \in Dictionary(PatternOf(i)) /\ Continues(PatternOf(i), data, c + n)}

Transformed(i, data) ==
    IF detection[i].transforms = "lowercase" THEN [k \in 1..Len(data) |-> Lower[data[k]]] ELSE data

\* A matcher of its own: anchored, unless its trie searches.
MatchesAt(i, data, c) ==
    /\ PatternOf(i).boundary => c = 1 \/ data[c - 1] \notin WordBytes
    /\ \E w \in Dictionary(PatternOf(i)) :
          /\ c + Len(w) - 1 <= Len(data)
          /\ Fold(PatternOf(i), SubSeq(data, c, c + Len(w) - 1)) = w
          /\ Continues(PatternOf(i), data, c + Len(w))

\* lumina_dispatch_rule: the rule's transforms, then its matcher at the offset.
Dispatch(i, bytes, offset) ==
    LET data == Transformed(i, bytes) IN
    CASE Router(i) # {} -> RouterHits(Router(i), data, offset, {i}) # {}
      [] Standalone(PatternOf(i)) -> RouterHits({i}, data, offset, {i}) # {}
      [] OTHER -> MatchesAt(i, data, offset)

-----------------------------------------------------------------------------
(* The rows a value selects *)

AnywhereMask == {i \in Indexes : detection[i].route = Bytes}
RequestBodyMask == {i \in Indexes : detection[i].body}

ActivePos0(scope, type) ==
    {i \in Indexes : /\ MasksOf(i).scope \cap scope # {}
                     /\ type = AnyType \/ type \in MasksOf(i).types}

\* Slot {} is for headers no selector knows, slot {bit} for a known one.
HeaderActivePos0(scope, slot) ==
    {i \in ActivePos0(scope, 3) : MasksOf(i).headers = {} \/ MasksOf(i).headers \cap slot # {}}

\* Mutant: a value with several selectors uses the row of the lowest.
ActiveMaskLowestSelector(v) ==
    IF v.type # 3 THEN ActivePos0(v.scope, v.type)
    ELSE HeaderActivePos0(v.scope, IF v.headers = {} THEN {} ELSE {Min(v.headers)})

\* lumina_build_short_rule_active_mask: several selectors join their rows.
ActiveMask(v) ==
    IF v.type # 3 THEN ActivePos0(v.scope, v.type)
    ELSE IF Cardinality(v.headers) <= 1 THEN HeaderActivePos0(v.scope, v.headers)
    ELSE HeaderActivePos0(v.scope, {}) \cup UNION {HeaderActivePos0(v.scope, {h}) : h \in v.headers}

DisabledMask(v) ==
    {i \in Indexes : detection[i].id \in v.off \/ \E c \in v.collections : <<detection[i].id, c>> \in v.offTargets}

EffectiveMask(v) ==
    ((IF v.form THEN RequestBodyMask ELSE Indexes) \ DisabledMask(v)) \cap ActiveMask(v)

-----------------------------------------------------------------------------
(* A value *)

\* What the bytes route to: at the first offset every active rule, later the
\* rules that are not tried once for the whole value.
Routed(v, active) ==
    {i \in active : \/ v.bytes[1] \in detection[i].route /\ Dispatch(i, v.bytes, 1)
                    \/ /\ i \notin AnywhereMask
                       /\ \E c \in 2..Len(v.bytes) : v.bytes[c] \in detection[i].route /\ Dispatch(i, v.bytes, c)}

\* Mutant: the router answers for all its members.
InspectUnmasked(v) ==
    LET active == EffectiveMask(v)
        shared == {i \in active : Router(i) # {}}
    IN Routed(v, active \ shared)
       \cup UNION {RouterHits(Router(i), v.bytes, 1, Router(i)) : i \in shared}

\* Inspection: a router answers for all its active members, on the value as it is.
Inspect(v) ==
    LET active == EffectiveMask(v)
        shared == {i \in active : Router(i) # {}}
    IN Routed(v, active \ shared)
       \cup UNION {RouterHits(Router(i), v.bytes, 1, Router(i) \cap active) : i \in shared}

\* The audit of one rule asks for no mask row and removes no target.
AuditRule(v, i) ==
    /\ detection[i].id \notin v.off
    /\ MasksOf(i).scope \cap v.scope # {}
    /\ v.type # AnyType /\ v.type \in MasksOf(i).types
    /\ v.form => i \in RequestBodyMask
    /\ v.type = 3 => MasksOf(i).headers = {} \/ MasksOf(i).headers \cap v.headers # {}
    /\ LET offsets == {c \in 1..Len(v.bytes) : v.bytes[c] \in detection[i].route}
       IN \E c \in IF i \in AnywhereMask THEN {1} ELSE offsets : Dispatch(i, v.bytes, c)

\* The full audit also asks for a collection the rule names.
AuditAll(v) ==
    Routed(v, {i \in EffectiveMask(v) : \/ MasksOf(i).collections = {}
                                        \/ MasksOf(i).collections \cap v.collections # {}})

\* What the theorems ask of rules and values.  A rule has no transform but
\* lower-casing, its words have bytes, and they do not start with every byte (an
\* expression that may gets a matcher that searches, RegexBackends); its
\* expression binds the variables its author means.  A value has bytes, a type
\* of its own, and is marked as a form only if it is a request body.  Lower-casing
\* twice is lower-casing once, and changes neither white space nor punctuation.
Binds(b, t) ==
    /\ b.collection = t.collection
    /\ b.kind = "none" \/ (b.kind = "literal" /\ t.header # "" /\ Head(b.selector) = t.header)

RoutedRule(r) ==
    /\ r.transforms \in {"none", "lowercase"}
    /\ \A w \in r.pattern.words : w \in Seq(Bytes) /\ w # <<>>
    /\ \E b \in Bytes : \A w \in r.pattern.words : Lower[b] # Lower[w[1]]
    /\ \A t \in r.targets :
          /\ t.header = "" \/ t.header \in DOMAIN HeaderBit
          /\ \E b \in Bound(Bindings(r.vars)) : Binds(b, t)

RoutedValue(v) ==
    /\ v.bytes \in Seq(Bytes) /\ v.bytes # <<>>
    /\ v.type \in Nat \ {AnyType} /\ (v.form => v.type = 4)
    /\ v.headers \subseteq Nat /\ IsFiniteSet(v.headers)

BytesAssumption ==
    /\ Blank \subseteq Bytes /\ Lower \in [Bytes -> Bytes]
    /\ \A b \in Bytes :
          /\ Lower[Lower[b]] = Lower[b]
          /\ Lower[b] \in WordBytes <=> b \in WordBytes
          /\ Lower[b] \in Blank <=> b \in Blank

PunctuationAssumption ==
    /\ "" \notin Blank
    /\ \A b \in Bytes, c \in {"(", "="} : Lower[b] = c <=> b = c

RoutingAssumption ==
    /\ BytesAssumption /\ PunctuationAssumption
    /\ \A r \in RuleChoices : RoutedRule(r)
    /\ \A v \in Values : RoutedValue(v)

Init ==
    /\ rules = <<>> /\ detection = <<>> /\ phase = "translate"
    /\ value = <<>>
    /\ fired = {} /\ audited = {} /\ listed = {}

Translate(r) ==
    /\ phase = "translate" /\ Len(rules) < MaxRules
    /\ rules' = Append(rules, r)
    /\ UNCHANGED <<detection, phase, value, fired, audited, listed>>

BuildTables ==
    /\ phase = "translate" /\ rules # <<>>
    /\ phase' = "tables"
    /\ detection' = Tables(rules)
    /\ UNCHANGED <<rules, value, fired, audited, listed>>

Scan(v) ==
    /\ phase = "tables"
    /\ phase' = "scanned" /\ value' = v
    /\ fired' = Inspect(v)
    /\ audited' = {i \in Indexes : AuditRule(v, i)}
    /\ listed' = AuditAll(v)
    /\ UNCHANGED <<rules, detection>>

\* A variable of the rule, as its author means it, names this value.
Selects(i, v) ==
    \E t \in detection[i].targets :
        /\ CollectionSpecs[t.collection].scope \cap v.scope # {}
        /\ v.type \in CollectionSpecs[t.collection].types
        /\ t.header # "" => HeaderBit[t.header] \in v.headers

Next == (\E r \in RuleChoices : Translate(r)) \/ BuildTables \/ (\E v \in Values : Scan(v))
Spec == Init /\ [][Next]_vars
-----------------------------------------------------------------------------

\* A shared router gets the value as it is, while the rules it stands for may
\* ask for it in lower case.  (src/luminawaf.cpp:774-793, 2042-2061; a
\* dictionary that ignores case does not notice.)
SeesItsValue(i) == Router(i) = {} \/ detection[i].transforms = "none" \/ PatternOf(i).fold

\* Inspection matches every rule that is on, sees the value it asks for, selects
\* it by one of its variables and whose expression holds somewhere in the
\* transformed value: no mask, route or router loses it.
NothingSelectedIsMissed ==
    phase = "scanned" =>
        \A i \in Indexes :
            /\ SeesItsValue(i)
            /\ Selects(i, value)
            /\ i \notin DisabledMask(value)
            /\ LET data == Transformed(i, value.bytes) IN \E c \in 1..Len(data) : MatchesAt(i, data, c)
            => i \in fired

\* Inspection through the tables and the audit of one rule, which uses neither
\* mask rows nor routers, agree on every rule that sees the value it asks for and
\* whose target is not removed; the full audit, which uses no router, on those
\* that name no other collection.
AuditsAgree ==
    phase = "scanned" =>
        \A i \in {j \in Indexes : SeesItsValue(j)} :
            /\ i \in fired <=> i \in audited /\ i \notin DisabledMask(value)
            /\ MasksOf(i).collections \subseteq value.collections => (i \in fired <=> i \in listed)

==============================================================================
