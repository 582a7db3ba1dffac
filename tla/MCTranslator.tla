------------------------------ MODULE MCTranslator ------------------------------
(***************************************************************************)
(* The tools that turn rules into C, one part of them per behavior: the    *)
(* regular expression compiler, the ladder of matchers a rule is lowered   *)
(* to, the routing tables, and the translation of a whole rule set.        *)
(* Variables a part does not have are 0.  The compiler is extended, the    *)
(* other parts are instances: TLC evaluates its graphs once.               *)
(***************************************************************************)
EXTENDS RegexCompiler, MCRegexSyntax, MCTables

CONSTANTS LoweredRules, LoweredLength, MinFanout, GuardLimit            \* RegexBackends

VARIABLES rule, step, backend, at, matched                              \* RegexBackends

compilerOnly == <<pattern, table, queue, engine, data, offset, pos, active, previousWord, bol, hit>>
backendOnly  == <<rule, step, backend, at, matched>>
tablesOnly   == <<stage, rules, detection, audited, routingOnly, textOnly>>
toolVars     == <<tool, phase, value, compilerOnly, backendOnly, tablesOnly>>

\* The rules, which the modules of the parts define: they do not depend on the
\* constants they are the values of.
LoweredInput == INSTANCE MCRegexBackends WITH MaxLength <- LoweredLength, Rules <- {}
RoutedInput  == INSTANCE MCRoutingTables WITH
                  RuleChoices <- {}, Values <- {}, Bytes <- {}, WordBytes <- {}, Blank <- {}, Lower <- <<>>,
                  phase <- stage
TextInput    == INSTANCE MCRuleTranslation WITH
                  Statements <- {}, Transaction <- <<>>, ChainForm <- <<>>, phase <- stage

Backends == INSTANCE MCRegexBackends WITH MaxLength <- LoweredLength, Rules <- LoweredRules

MCLoweredRules    == LoweredInput!MCRules
MCRuleChoices     == RoutedInput!MCRuleChoices
MCRoutedValues    == RoutedInput!MCValues
MCRoutedBytes     == RoutedInput!MCBytes
MCRoutedWordBytes == RoutedInput!MCWordBytes
MCBlank           == RoutedInput!MCBlank
MCLower           == RoutedInput!MCLower
MCStatements      == TextInput!MCStatements
MCTransaction     == TextInput!MCTransaction
MCChainForm       == TextInput!MCChainForm

ASSUME RegexAssumption

-----------------------------------------------------------------------------
(* Expressions for the compiler, with the features CRS rules combine:      *)
(* alternation followed by a continuation, nested and bounded repeats,     *)
(* word boundaries, anchors, classes, case folding, and the root           *)
(* alternations the seeds are for.                                         *)

Pattern(groups, ast) == [groups |-> groups, ast |-> ast, search |-> FALSE]
Search(groups, ast) == [groups |-> groups, ast |-> ast, search |-> TRUE]

MCPatterns ==
    { \* a(?:x|)x
      Pattern({}, <<Lit("a"), Alt(<< <<Lit("x")>>, <<>> >>), Lit("x")>>),
      \* \b(?:a|-x)\b and [^-]\B
      Pattern({}, <<At("WB"), Alt(<< <<Lit("a")>>, <<Lit("-"), Lit("x")>> >>), At("WB")>>),
      Pattern({}, <<In({"-"}, {}, TRUE), At("NWB")>>),
      \* ^\W*.x?$ , with and without (?s)
      Pattern({}, <<At("BOL"), Rep(0, MaxRepeat, <<In({}, {"NOT_WORD"}, FALSE)>>), Dot,
                    Rep(0, 1, <<Lit("x")>>), At("EOL")>>),
      Pattern({{"s"}}, <<Dot, Lazy(1, 2, <<NotLit("x")>>)>>),
      \* (?i)(?:a-?)+x
      Pattern({{"i"}}, <<Rep(1, MaxRepeat, <<Lit("a"), Rep(0, 1, <<Lit("-")>>)>>), Lit("x")>>),
      \* searches: (?i)ax|x-*x|-, (?:(?:ax)+|\Bx-?A), [\w-]a.x?
      Search({{"i"}, {}}, <<Alt(<< <<Lit("A"), Lit("x")>>, <<Lit("x"), Rep(0, MaxRepeat, <<Lit("-")>>), Lit("x")>>,
                                   <<Lit("-"), Lit("-")>> >>)>>),
      Search({}, <<Group(<<Alt(<< <<Rep(1, 2, <<Lit("a"), Lit("x")>>)>>,
                                  <<At("NWB"), Lit("x"), Rep(0, 1, <<Lit("-")>>), Lit("A")>> >>)>>)>>),
      Search({}, <<In({"-"}, {"WORD"}, FALSE), Rep(0, 1, <<Lit("a"), Lit("x")>>), Dot>>),
      \* rejected: a...$ has too many DFA states, a repeat that expands too
      \* far, a back reference
      Search({}, <<Lit("a"), Rep(3, 3, <<Dot>>), At("EOL")>>),
      Pattern({}, <<Rep(0, 4, <<Lit("a")>>)>>),
      Pattern({}, <<Lit("a"), [op |-> "GROUPREF"]>>) }

-----------------------------------------------------------------------------
(* One part per behavior *)

NoCompiler ==
  /\ pattern = 0 /\ table = 0 /\ queue = 0 /\ engine = 0 /\ data = 0 /\ offset = 0
  /\ pos = 0 /\ active = 0 /\ previousWord = 0 /\ bol = 0 /\ hit = 0
NoBackend == rule = 0 /\ step = 0 /\ backend = 0 /\ at = 0 /\ matched = 0

ToolInit ==
  \/ tool = "compiler" /\ Init /\ value = 0 /\ NoBackend /\ NoTables
  \/ tool = "backends" /\ Backends!Init /\ NoCompiler /\ NoTables
  \/ TablesInit /\ phase = 0 /\ NoCompiler /\ NoBackend

ToolNext ==
  \/ tool = "compiler" /\ Next /\ UNCHANGED <<tool, value, backendOnly, tablesOnly>>
  \/ tool = "backends" /\ Backends!Next /\ UNCHANGED <<tool, compilerOnly, tablesOnly>>
  \/ TablesNext /\ UNCHANGED <<phase, compilerOnly, backendOnly>>

ToolSpec == ToolInit /\ [][ToolNext]_toolVars

-----------------------------------------------------------------------------
(* Properties *)

\* tools/regex_dfa.py: the DFA walkers return the shortest and the longest end
\* of a match that starts at the offset.
EndsAreExact == tool = "compiler" => MatchEndsAreExact

\* tools/regex_dfa.py: the NFA matchers, with their seeds and fast branches,
\* decide exactly whether there is a match.
DecisionsAreExact == tool = "compiler" => SearchIsExact

\* tools/sidecar_translator.py: whatever backend a rule ends up with, a value
\* routed and matched by it matches exactly when the expression does.  Exempt are
\* the five ways in which the code is known not to keep an expression, which
\* RegexBackends names: CategoryDropped, SearchLost, EmptyMatchLost, GapMisread
\* and StraightLineMisread.
LoweringIsExact == tool = "backends" => Backends!LoweringIsExact
================================================================================
