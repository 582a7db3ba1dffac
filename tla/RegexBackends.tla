----------------------------- MODULE RegexBackends -----------------------------
(***************************************************************************)
(* tools/sidecar_translator.py: how an @rx rule is lowered (a ladder of    *)
(* backends, each of which may exceed its budget), which bytes its matcher *)
(* is routed on, and what the generated tables and matcher make of a value.*)
(* A rule's "over" names the backends it exceeds a limit of: states, table *)
(* bytes, fanout, a retry only made for too many states.  Sizes are data,  *)
(* the control that follows from them is kept.  The specialised plans      *)
(* tried before the ladder and (?m) are not modelled.                      *)
(***************************************************************************)
EXTENDS RegexAutomata

CONSTANTS
    Rules,       \* [groups, ast, caret, long, chained, offsetZero, multimatch, over]
    MinFanout,   \* least alternatives of the alternative router (4 in the code)
    GuardLimit   \* widest byte set compared in a prefix guard (8 in the code)

VARIABLES
    phase,    \* "lower", "ready", "scan" or "done"
    rule,
    step,     \* how far down the ladder
    backend,  \* the backend that was emitted, or "none"
    value, at, matched

vars == <<phase, rule, step, backend, value, at, matched>>

RuleFlags == Flags(rule)
Nodes == rule.ast
Alternatives(nodes) == {nodes[k] : k \in 1..Len(nodes)}

-----------------------------------------------------------------------------
(* Questions asked of the syntax tree. *)

RECURSIVE HasBranch(_), NeedsDfa(_)
HasBranch(nodes) ==
    \E k \in 1..Len(nodes) : \/ nodes[k].op = "BRANCH"
                             \/ nodes[k].op \in Repeats \cup {"SUBPATTERN"} /\ HasBranch(nodes[k].inner)

\* requires_dfa
NeedsDfa(nodes) ==
    \E k \in 1..Len(nodes) :
        LET node == nodes[k] IN
        CASE node.op \in Repeats ->
                \/ node.min # node.max /\ (k < Len(nodes) \/ HasBranch(node.inner))
                \/ NeedsDfa(node.inner)
          [] node.op = "SUBPATTERN" -> NeedsDfa(node.inner)
          [] node.op = "BRANCH" -> \E alt \in Alternatives(node.alts) : NeedsDfa(alt)
          [] OTHER -> FALSE

\* build_bitmask_for_in: \W, \S and \D set no bit.
ClassBits(node, flags) ==
    LET listed == UNION {LiteralMask(b, flags) : b \in node.bytes}
        bits == listed \cup (IF "WORD" \in node.categories THEN UNION {LiteralMask(b, flags) : b \in WordBytes} ELSE {})
    IN IF node.negate THEN Bytes \ bits ELSE bits

Consumers == {"LITERAL", "NOT_LITERAL", "IN", "ANY"}
ConsumingSet(node, flags) ==
    CASE node.op = "LITERAL" -> LiteralMask(node.byte, flags)
      [] node.op = "NOT_LITERAL" -> Bytes \ LiteralMask(node.byte, flags)
      [] node.op = "IN" -> ClassBits(node, flags)
      [] node.op = "ANY" -> Bytes

\* first_bytes_of: the bytes a sequence may begin with, and whether it may be empty.
RECURSIVE Starts(_, _)
Starts(nodes, flags) ==
    IF nodes = <<>> THEN [bytes |-> {}, empty |-> TRUE]
    ELSE LET node == Head(nodes)
             rest == Starts(Tail(nodes), flags)
             first == CASE node.op = "BRANCH" ->
                              [bytes |-> UNION {Starts(alt, flags).bytes : alt \in Alternatives(node.alts)},
                               empty |-> \E alt \in Alternatives(node.alts) : Starts(alt, flags).empty]
                        [] node.op = "SUBPATTERN" -> Starts(node.inner, flags)
                        [] node.op \in Repeats ->
                              [bytes |-> Starts(node.inner, flags).bytes,
                               empty |-> node.min = 0 \/ Starts(node.inner, flags).empty]
                        [] node.op = "AT" -> [bytes |-> {}, empty |-> TRUE]
                        [] node.op \in Consumers -> [bytes |-> ConsumingSet(node, flags), empty |-> FALSE]
                        [] OTHER -> [bytes |-> Bytes, empty |-> TRUE]
         IN IF first.empty THEN [bytes |-> first.bytes \cup rest.bytes, empty |-> rest.empty] ELSE first

FirstBytes(nodes, flags) == LET s == Starts(nodes, flags).bytes IN IF s = {} THEN Bytes ELSE s

RECURSIVE StartsUnbounded(_)
StartsUnbounded(nodes) ==
    /\ nodes # <<>>
    /\ LET node == Head(nodes) IN
       CASE node.op = "AT" -> StartsUnbounded(Tail(nodes))
         [] node.op = "SUBPATTERN" -> StartsUnbounded(node.inner)
         [] node.op = "BRANCH" -> \E alt \in Alternatives(node.alts) : StartsUnbounded(alt)
         [] OTHER -> node.op \in Repeats /\ Unlimited(node)

\* dfa_search_lowering: whether the DFA is compiled behind a prefix of any bytes.
SearchLowered(r) ==
    /\ ~r.caret
    /\ FirstBytes(r.ast, Flags(r)) = Bytes \/ StartsUnbounded(r.ast)

\* The sets of the fixed-width bytes an expression begins with, four at most.
RECURSIVE FixedPrefix(_, _, _)
FixedPrefix(nodes, flags, limit) ==
    IF nodes = <<>> \/ limit = 0 THEN <<>>
    ELSE CASE Head(nodes).op = "AT" -> FixedPrefix(Tail(nodes), flags, limit)
           [] Head(nodes).op \in Consumers ->
                 <<ConsumingSet(Head(nodes), flags)>> \o FixedPrefix(Tail(nodes), flags, limit - 1)
           [] OTHER -> <<>>

PrefixSets(nodes, flags) ==
    LET fixed == FixedPrefix(nodes, flags, 4)
    IN IF fixed = <<>> THEN <<FirstBytes(nodes, flags)>> ELSE fixed

PrefixAt(sets, d, i) == i + Len(sets) <= Len(d) /\ \A k \in 1..Len(sets) : d[i + k] \in sets[k]

-----------------------------------------------------------------------------
(* The matchers.  Each answers for the offset it is called at. *)

\* compile_ast: straight-line code without backtracking.  The cursor after the
\* nodes, or NoMatch.  An alternation keeps the end of its last alternative
\* that matches, a repeat takes all it can.
RECURSIVE Procedural(_, _, _, _), Turns(_, _, _, _, _)
Turns(node, flags, d, cur, count) ==
    LET more == IF Unlimited(node) THEN cur < Len(d) ELSE count < node.max
        after == Procedural(node.inner, flags, d, cur)
    IN IF more /\ after # NoMatch /\ after > cur THEN Turns(node, flags, d, after, count + 1)
       ELSE IF count >= node.min THEN cur ELSE NoMatch

BoundedGap(node) == node.op \in Repeats /\ Head(node.inner).op = "ANY" /\ ~Unlimited(node)

\* A bounded gap tries the rest of the expression at every place it may end.
GapEnds(node, rest, flags, d, cur) ==
    {i \in (cur + node.min)..(IF cur + node.max > Len(d) THEN Len(d) ELSE cur + node.max) :
        Procedural(rest, flags, d, i) # NoMatch}

Chosen(node, ends) ==
    CHOOSE i \in ends : \A j \in ends : IF node.op = "MIN_REPEAT" THEN i <= j ELSE j <= i

Procedural(nodes, flags, d, cur) ==
    IF nodes = <<>> THEN cur
    ELSE LET node == Head(nodes)
             after ==
                CASE node.op \in Consumers ->
                        IF cur < Len(d) /\ d[cur + 1] \in ConsumingSet(node, flags) THEN cur + 1 ELSE NoMatch
                  [] node.op = "AT" -> IF Holds(node.at, d, cur) THEN cur ELSE NoMatch
                  [] node.op = "SUBPATTERN" -> Procedural(node.inner, flags, d, cur)
                  [] node.op = "BRANCH" ->
                        FoldLeft(LAMBDA best, alt : LET e == Procedural(alt, flags, d, cur)
                                                    IN IF e = NoMatch THEN best ELSE e,
                                 NoMatch, node.alts)
                  [] OTHER -> Turns(node, flags, d, cur, 0)
         IN IF BoundedGap(node)
            THEN LET ends == GapEnds(node, Tail(nodes), flags, d, cur)
                 IN IF ends = {} THEN NoMatch ELSE Procedural(Tail(nodes), flags, d, Chosen(node, ends))
            ELSE IF after = NoMatch THEN NoMatch ELSE Procedural(Tail(nodes), flags, d, after)

\* emit_gap_split_dfa: fixed bytes, any gap, then the suffix's DFA.  (The gap is
\* found in the text, where it may cut a root alternation: not modelled.)
Wildcard(node) == node.op \in Repeats /\ node.inner = <<[op |-> "ANY"]>> /\ node.min = 0 /\ Unlimited(node)
GapAt(nodes) == {k \in 2..(Len(nodes) - 1) : /\ Wildcard(nodes[k])
                                              /\ \A j \in 1..(k - 1) : nodes[j].op = "LITERAL"}
GapSplit(nodes, flags, d, i) ==
    LET k == CHOOSE k \in GapAt(nodes) : TRUE
        suffix == SubSeq(nodes, k + 1, Len(nodes))
    IN /\ i + k - 1 <= Len(d)
       /\ \A j \in 1..(k - 1) : d[i + j] = nodes[j].byte
       /\ \E j \in (i + k - 1)..(Len(d) - 1) : /\ d[j + 1] \in FirstBytes(suffix, flags)
                                              /\ DfaMatch(suffix, flags, d, j)

BranchAt(nodes) == {k \in 1..Len(nodes) : nodes[k].op = "BRANCH"}
Before(nodes, k) == SubSeq(nodes, 1, k - 1)
After(nodes, k) == SubSeq(nodes, k + 1, Len(nodes))

\* emit_factored_branch_concat_dfa: the DFA of what precedes the last root
\* alternation delegates every end it accepts to one shard per alternative.
FactorAt(nodes) == {k \in BranchAt(nodes) : k > 1 /\ \A j \in BranchAt(nodes) : j <= k}
Factored(nodes, flags, d, i) ==
    LET k == CHOOSE k \in FactorAt(nodes) : TRUE
    IN \E end \in DfaEnds(Before(nodes, k), flags, d, i) :
          \E alt \in Alternatives(nodes[k].alts) : DfaMatch(alt \o After(nodes, k), flags, d, end)

\* emit_recursive_factored_concat_dfa: fragments delegate their ends to the
\* shared continuation; "rest" is the list of continuations still to run.
RECURSIVE Dag(_, _, _, _, _)
Dag(nodes, rest, flags, d, i) ==
    IF nodes = <<>> THEN rest = <<>> \/ Dag(Head(rest), Tail(rest), flags, d, i)
    ELSE IF BranchAt(nodes) = {} THEN \E end \in DfaEnds(nodes, flags, d, i) : Dag(<<>>, rest, flags, d, end)
    ELSE LET k == CHOOSE k \in BranchAt(nodes) : \A j \in BranchAt(nodes) : k <= j
         IN \E end \in (IF k = 1 THEN {i} ELSE DfaEnds(Before(nodes, k), flags, d, i)) :
               \E alt \in Alternatives(nodes[k].alts) : Dag(alt, <<After(nodes, k)>> \o rest, flags, d, end)

Recursive(nodes, flags, d, i) ==
    \E j \in i..Len(d) : PrefixAt(PrefixSets(nodes, flags), d, j) /\ Dag(nodes, <<>>, flags, d, j)

\* emit_top_level_alternative_dfa_router: one DFA per root alternative, routed
\* on its first byte and guarded by the narrow sets of its fixed prefix.
Routable(nodes, flags) ==
    /\ Len(nodes) = 1 /\ nodes[1].op = "BRANCH" /\ Len(nodes[1].alts) >= MinFanout
    /\ \A alt \in Alternatives(nodes[1].alts) : ~Starts(alt, flags).empty /\ Starts(alt, flags).bytes # {}

Guard(alt, flags, d, i) ==
    LET sets == PrefixSets(alt, flags)
        wide == {k \in 2..Len(sets) : Cardinality(sets[k]) > GuardLimit}
        last == IF wide = {} THEN Len(sets) ELSE (CHOOSE k \in wide : \A j \in wide : k <= j) - 1
    IN last >= 2 => PrefixAt(<<Bytes>> \o SubSeq(sets, 2, last), d, i)

Routed(nodes, flags, d, i) ==
    \E j \in i..(Len(d) - 1) : \E alt \in Alternatives(nodes[1].alts) :
        /\ d[j + 1] \in Starts(alt, flags).bytes
        /\ Guard(alt, flags, d, j)
        /\ DfaMatch(alt, flags, d, j)

-----------------------------------------------------------------------------
(* The ladder. *)

Ladder == <<"alternatives", "dag", "dfa", "dfa-all-offsets", "gap", "recursive", "factored",
            "compact", "nfa", "procedural-fallback", "procedural">>

UsesDfa(r) == r.chained \/ NeedsDfa(r.ast)

\* Whether the ladder tries this backend for the rule at all.
Tried(b, r) ==
    CASE b = "alternatives" -> r.offsetZero /\ r.multimatch
      [] b = "dag" -> r.offsetZero
      [] b = "dfa-all-offsets" -> UsesDfa(r) /\ SearchLowered(r)
      [] b \in {"recursive", "factored"} -> UsesDfa(r) /\ r.long
      [] b = "compact" -> UsesDfa(r) /\ ~r.long
      [] b = "procedural" -> ~UsesDfa(r)
      [] OTHER -> UsesDfa(r)

\* Whether it emits: the expression has the shape, and the tables fit.
Emits(b, r) ==
    /\ b \notin r.over
    /\ b \notin {"procedural", "procedural-fallback"} => Supported(r.ast)
    /\ CASE b = "alternatives" -> Routable(r.ast, Flags(r))
         [] b = "gap" -> GapAt(r.ast) # {}
         [] b = "factored" -> Len(r.ast) >= 3 /\ FactorAt(r.ast) # {}
         [] OTHER -> TRUE

ForcedToStart == backend \in {"alternatives", "dag", "recursive"}
                 \/ (backend \in {"dfa", "compact"} /\ SearchLowered(rule))

SearchNodes == IF SearchLowered(rule) THEN <<AnyBytes>> \o Nodes ELSE Nodes

Matcher(d, i) ==
    LET f == RuleFlags IN
    CASE backend = "alternatives" -> Routed(Nodes, f, d, i)
      [] backend \in {"dag", "recursive"} -> Recursive(Nodes, f, d, i)
      [] backend \in {"dfa", "compact"} -> DfaMatch(SearchNodes, f, d, i)
      [] backend \in {"dfa-all-offsets", "nfa"} -> DfaMatch(Nodes, f, d, i)
      [] backend = "gap" -> GapSplit(Nodes, f, d, i)
      [] backend = "factored" -> Factored(Nodes, f, d, i)
      [] OTHER -> Procedural(Nodes, f, d, i) # NoMatch

\* The routing tables: bytes the rule is a candidate on, and whether it is
\* taken for a rule that scans the value itself and is only called at its start.
RouteMask == IF ForcedToStart THEN Bytes ELSE FirstBytes(Nodes, RuleFlags)

\* Mutant: a DFA recovered for every offset keeps the anywhere bit.
AnywhereOfMask == RouteMask = Bytes

Anywhere == RouteMask = Bytes /\ backend # "dfa-all-offsets"
EmptyBit == Supported(Nodes) /\ DfaMatch(Nodes, RuleFlags, <<>>, 0)

Init ==
    /\ phase = "lower" /\ rule \in Rules /\ step = 1 /\ backend = "none"
    /\ value = <<>> /\ at = 0 /\ matched = FALSE

\* One backend is tried: emitted, or given up for the next one.
Lowering ==
    /\ phase = "lower"
    /\ IF Tried(Ladder[step], rule) /\ Emits(Ladder[step], rule)
       THEN backend' = Ladder[step] /\ phase' = "ready" /\ UNCHANGED step
       ELSE step' = step + 1 /\ UNCHANGED <<backend, phase>>
    /\ UNCHANGED <<rule, value, at, matched>>

\* A value is scanned; an empty one is only routed by the empty mask.
Scan(d) ==
    /\ phase = "ready"
    /\ value' = d /\ at' = 0
    /\ matched' = (d = <<>> /\ EmptyBit /\ Matcher(d, 0))
    /\ phase' = IF d = <<>> THEN "done" ELSE "scan"
    /\ UNCHANGED <<rule, step, backend>>

Candidate == value[at + 1] \in RouteMask /\ (at > 0 => ~Anywhere)

Dispatch ==
    /\ phase = "scan"
    /\ matched' = (matched \/ (Candidate /\ Matcher(value, at)))
    /\ IF at + 1 < Len(value) THEN at' = at + 1 /\ UNCHANGED phase ELSE phase' = "done" /\ UNCHANGED at
    /\ UNCHANGED <<rule, step, backend, value>>

NextValue ==
    /\ phase = "done"
    /\ phase' = "ready" /\ value' = <<>> /\ at' = 0 /\ matched' = FALSE
    /\ UNCHANGED <<rule, step, backend>>

Next == Lowering \/ Dispatch \/ NextValue \/ \E d \in Values : Scan(d)

Spec == Init /\ [][Next]_vars

-----------------------------------------------------------------------------
(* Where the code is known not to keep an expression.                      *)

RECURSIVE Within(_), Width(_), Settled(_)
\* Every node of a tree.
Within(nodes) ==
    UNION {{nodes[k]} \cup CASE nodes[k].op \in Repeats \cup {"SUBPATTERN"} -> Within(nodes[k].inner)
                             [] nodes[k].op = "BRANCH" -> UNION {Within(alt) : alt \in Alternatives(nodes[k].alts)}
                             [] OTHER -> {} : k \in 1..Len(nodes)}

\* The least and the greatest number of bytes a sequence takes.
Width(nodes) ==
    LET of(node) ==
            CASE node.op = "SUBPATTERN" -> Width(node.inner)
              [] node.op = "BRANCH" -> [least |-> Min({Width(alt).least : alt \in Alternatives(node.alts)}),
                                        most |-> Max({Width(alt).most : alt \in Alternatives(node.alts)})]
              [] node.op \in Repeats -> [least |-> node.min * Width(node.inner).least,
                                         most |-> node.max * Width(node.inner).most]
              [] node.op = "AT" -> [least |-> 0, most |-> 0]
              [] OTHER -> [least |-> 1, most |-> 1]
    IN FoldLeft(LAMBDA w, node : [least |-> w.least + of(node).least, most |-> w.most + of(node).most],
                [least |-> 0, most |-> 0], nodes)
OneEnd(nodes) == Width(nodes).least = Width(nodes).most

\* Straight-line code has nothing to go back for: what may end at several places
\* is last, or a bounded gap, and no turn of a repeat depends on one before.
Settled(nodes) ==
    \A k \in 1..Len(nodes) :
        LET node == nodes[k] IN
        /\ k < Len(nodes) => OneEnd(<<node>>) \/ BoundedGap(node)
        /\ node.op = "SUBPATTERN" => Settled(node.inner)
        /\ node.op = "BRANCH" => \A alt \in Alternatives(node.alts) : Settled(alt)
        /\ node.op \in Repeats => /\ Settled(node.inner)
                                  /\ node.min > 0 => Width(node.inner).least > 0
                                  /\ node.min > 1 => OneEnd(node.inner)
                                  /\ BoundedGap(node) => Len(node.inner) = 1

StraightLine == {"procedural", "procedural-fallback"}
Read(node) == node.op \in Consumers

\* A class with a negated category, as [\Wa], is read without the category
\* (T:698 against regex_dfa.py:105-117).
CategoryDropped ==
    \E node \in Within(Nodes) : Read(node) /\ ~(ByteMask(node, RuleFlags) \subseteq ConsumingSet(node, RuleFlags))

\* A rule that any byte may begin is called at the start of the value only, but
\* its matcher does not search: the DFA was given up for another backend than
\* the one for all offsets (8141 against 3949), or a "^" at the front of the text
\* is one alternative's (2265).
SearchLost ==
    /\ backend # "dfa-all-offsets" /\ ~ForcedToStart /\ RouteMask = Bytes
    /\ Nodes # <<>> /\ Head(Nodes) # [op |-> "AT", at |-> "BOL"]

\* An expression that may match no byte is routed on the bytes it could begin with.
EmptyMatchLost == Starts(Nodes, RuleFlags).empty /\ ~(backend \in {"dfa", "compact"} /\ SearchLowered(rule))

\* Around a gap, (?i) is not applied to the fixed bytes (4005 against 3971), the
\* gap takes newlines without (?s), and something has to follow it (4054-4058).
GapMisread ==
    /\ backend = "gap"
    /\ LET k == CHOOSE k \in GapAt(Nodes) : TRUE
       IN \/ "i" \in RuleFlags /\ \E j \in 1..(k - 1) : Nodes[j].byte \in DOMAIN CaseOf
          \/ "s" \notin RuleFlags
          \/ Starts(After(Nodes, k), RuleFlags).empty

\* Straight-line code cannot go back (requires_dfa, regex_dfa.py:201-239), and
\* takes a newline for "." (795).
StraightLineMisread ==
    /\ backend \in StraightLine
    /\ \/ ~Settled(Nodes)
       \/ \E node \in Within(Nodes) : Read(node) /\ ByteMask(node, RuleFlags) # ConsumingSet(node, RuleFlags)

KnownNotExact ==
    CategoryDropped \/ SearchLost \/ EmptyMatchLost \/ GapMisread \/ StraightLineMisread

-----------------------------------------------------------------------------
MatchesFrom(i) == Ends(Nodes, RuleFlags, value, i) # {}
Meaning == \E i \in 0..Len(value) : MatchesFrom(i)

\* Whatever backend a rule ends up with, and wherever its matcher is called,
\* the value matches exactly when the expression matches somewhere in it: the
\* factored backends neither lose nor invent a concatenation, routing drops no
\* start, and a rule called only at the start does scan the rest.  Exempt are
\* the five ways in which the code is known not to keep an expression, above:
\* a negated category in a class, the search given up after the rule was
\* routed on every byte, a match of no byte, a gap's case, newlines and empty
\* suffix, and straight-line code for what can end at several places.
LoweringIsExact == (phase = "done" /\ ~KnownNotExact) => (matched <=> Meaning)

\* regex_dfa.py, requires_dfa: what it does not send to a DFA can be emitted
\* procedurally with its continuation preserved.
ContinuationIsPreserved == (phase = "done" /\ backend = "procedural") => (matched <=> Meaning)

=============================================================================
