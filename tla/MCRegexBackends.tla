---------------------------- MODULE MCRegexBackends ----------------------------
(***************************************************************************)
(* Rules for every step of the ladder, one for each way in which the code  *)
(* is known not to keep an expression, and the rules of the disagreement   *)
(* between requires_dfa and its docstring.                                 *)
(***************************************************************************)
EXTENDS RegexBackends, MCRegexSyntax

Plainly(ast, over) ==
    [groups |-> {}, ast |-> ast, caret |-> FALSE, long |-> FALSE, chained |-> FALSE,
     offsetZero |-> FALSE, multimatch |-> FALSE, over |-> over]
Long(r) == [r EXCEPT !.long = TRUE]
Chained(r) == [r EXCEPT !.chained = TRUE]
Caret(r) == [r EXCEPT !.caret = TRUE]
With(r, f) == [r EXCEPT !.groups = {{f}}]
OffsetZero(r, multi) == [r EXCEPT !.offsetZero = TRUE, !.multimatch = multi]

\* Every backend but the two procedural ones.
Tables == {"dfa", "dfa-all-offsets", "gap", "recursive", "factored", "compact", "nfa"}

Begins == Alt(<< <<Lit("a"), Lit("x")>>, <<Opt(<<Lit("-")>>), Lit("A")>>, <<Lit("x"), Dot, Lit("a")>> >>)
Nullable == Alt(<< <<Lit("x")>>, <<>> >>)
Joined == <<Lit("a"), Opt(<<Lit("-")>>), Alt(<< <<Lit("x")>>, <<Star(<<Lit("a")>>)>> >>), Lit("-")>>
Search == <<Dot, Opt(<<Lit("a")>>), Lit("x")>>
Repeat == <<Star(<<Lit("x")>>), Lit("-")>>

MCRules ==
    { \* transforms that force offset zero: routed alternatives, candidate DAGs
      OffsetZero(Plainly(<<Begins>>, {}), TRUE),
      With(OffsetZero(Plainly(<<Begins>>, {}), FALSE), "i"),
      OffsetZero(Plainly(<<Alt(<< <<Lit("a"), Opt(<<Lit("x")>>)>>, <<Star(<<Lit("-")>>), Lit("x")>> >>), Lit("A")>>, {}), TRUE),
      OffsetZero(Plainly(Repeat, {"alternatives", "dag"}), TRUE),
      \* DFAs: anchored, searching, at every offset, compact
      Plainly(<<Nullable, Lit("a"), Opt(<<Lit("x")>>), Lit("-")>>, {}),
      With(Plainly(Search, {}), "i"),
      Plainly(Search, {"dfa"}),
      Plainly(Repeat, {"dfa"}),
      Plainly(Repeat, {"dfa", "dfa-all-offsets"}),
      Caret(Plainly(<<At("BOL"), Star(<<Lit("x")>>), Lit("-"), At("EOL")>>, {"dfa"})),
      Chained(Plainly(<<At("WB"), NotLit("x"), At("NWB")>>, {})),
      \* beyond the budgets: gap, shared continuations, shards, the NFA
      With(Plainly(<<Lit("a"), Lazy(0, MaxRepeat, <<Dot>>), Lit("x"), Opt(<<Lit("-")>>), Lit("x")>>, {"dfa"}), "s"),
      Long(Plainly(Joined, {"dfa"})),
      Long(Plainly(<<Nullable, In({"-"}, {"WORD"}, FALSE), Nullable, Opt(<<Lit("a")>>), Lit("-")>>, {"dfa"})),
      Long(Plainly(Joined, {"dfa", "recursive"})),
      Plainly(<<Nullable, Lit("a"), Opt(<<Lit("x")>>), Lit("-")>>, {"dfa", "compact"}),
      \* straight-line code: a repeat too wide to expand, a gap, no budget left
      Chained(Plainly(<<Lit("x"), Rep(0, 4, <<Lit("a")>>)>>, {})),
      With(Chained(Plainly(<<Lit("a"), Rep(0, 1, <<Dot>>), Lit("x")>>, Tables)), "s"),
      With(Plainly(<<In({"a"}, {}, FALSE), Alt(<< <<Lit("x")>>, <<Lit("-")>> >>), At("EOL")>>, {}), "i"),
      Plainly(<<At("WB"), In({"-", "nl"}, {}, TRUE), Rep(1, MaxRepeat, <<NotLit("x")>>)>>, {}),
      \* what LoweringIsExact exempts: [\Wa]x, a search given up for the NFA, a
      \* value without the optional byte, (?i) at a gap, (?:ax|a)- as a(?:x|)-
      Plainly(<<In({"a"}, {"NOT_WORD"}, FALSE), Lit("x")>>, {}),
      Plainly(Search, {"dfa", "dfa-all-offsets", "gap", "compact"}),
      Plainly(<<Opt(<<Lit("a")>>)>>, {}),
      With(Plainly(<<Lit("a"), Star(<<Dot>>), Lit("x")>>, {"dfa"}), "i"),
      Plainly(<<Lit("a"), Nullable, Lit("-")>>, {}) }

\* (?:ab|a)c, which Python parses as a(?:b|)c
ContinuationRules == {Plainly(<<Lit("a"), Nullable, Lit("-")>>, {}), Plainly(<<Lit("a"), Nullable, Lit("x")>>, {})}
=============================================================================
