--------------------------- MODULE MCRuleTranslation ---------------------------
EXTENDS RuleTranslation

\* A variable of a rule, with or without a selector.
Var(collection) == [collection |-> collection, selector |-> "", count |-> FALSE, excluded |-> FALSE]
Named(collection, selector) == [Var(collection) EXCEPT !.selector = selector]

Line(items) == [k \in DOMAIN items |-> [comment |-> FALSE, item |-> items[k]]]
Comment(items) == [k \in DOMAIN items |-> [comment |-> TRUE, item |-> items[k]]]
Rule(id, over, op, actions) ==
    Line(<<<<"SecRule">>, <<"vars", over>>, op, <<"id", id>>, <<"phase", 2>>>> \o actions)
Op(name, pattern) == <<"op", name, FALSE, pattern>>
Not(name, pattern) == <<"op", name, TRUE, pattern>>
Args == {Var("ARGS")}
Host == {Named("REQUEST_HEADERS", "Host")}
Scores(level) == <<<<"setvar", level>>>>
Chain == <<<<"chain">>>>

MCStatements == {
    \* ordinary rules; the same id twice; a rule commented out in the middle of one
    Rule(1, Args, Op("@rx", "plain"), Scores("warning") \o <<<<"tag", "a">>>>),
    Rule(1, Args, Op("@pm", "words"), Scores("notice") \o <<<<"tag", "b">>>>),
    Rule(2, Args, Op("@rx", "plain"), Scores("error") \o <<<<"severity", "notice">>>>) \o
        Comment(<<<<"SecAction">>, <<"id", 3>>, <<"chain">>>>) \o Line(<<<<"tag", "a">>>>),
    Rule(3, Args, Op("@rx", "plain"), <<<<"block">>>>),
    \* heads and children of chains
    Rule(4, Args, Op("@rx", "two"), Chain),
    Rule(5, Args, Op("@pmFromFile", "file"), Chain \o Scores("error")),
    Rule(6, Args, Op("@rx", "huge"), Chain \o <<<<"block">>>>),
    Rule(7, Args, Op("@rx", "other"), Chain),
    Rule(8, {Named("TX", "x")}, Op("@rx", "tx"), Chain),
    Rule(0, Args, Op("@rx", "plain"), Scores("notice")),
    Rule(0, Args, Op("@within", "plain"), Chain \o Scores("critical")),
    \* what the ladder tells apart
    Rule(9, Args, Op("@rx", "plain"), <<<<"gating">>>> \o Scores("critical")),
    Rule(9, Args, Op("@rx", "plain"), <<<<"phase", 3>>>> \o Scores("critical")),
    Rule(9, {Named("TX", "x")}, Op("@ge", "plain"), Scores("critical")),
    Rule(9, {Named("TX", "x")}, Op("@ge", "plain"), <<>>),
    Rule(9, Args, Op("@rx", "plain"), <<<<"paranoia", 3>>>> \o Scores("critical")),
    Rule(9, {Var("SESSION")}, Op("@rx", "plain"), Scores("critical")),
    Rule(9, Args, Op("@geoLookup", "plain"), Scores("critical")),
    Rule(911100, Args, Not("@within", "plain"), Scores("critical")),
    Rule(920171, Args, Op("@rx", "plain"), Chain),
    Rule(921170, Args, Op("@rx", "plain"), Scores("critical")),
    Rule(10, Host, Not("@rx", "plain"), Scores("error")),
    Rule(10, {Var("FILES")}, Not("@rx", "huge"), Scores("error")),
    Rule(10, Args, Not("@rx", "plain"), Scores("error")),
    Rule(10, Args, Op("@rx", "low"), Scores("error") \o <<<<"tag", "a">>>>),
    Rule(10, Args, Op("@pmFromFile", ""), Scores("critical")),
    Rule(10, Args, Op("@pmFromFile", "gone"), Scores("critical")),
    Rule(10, Args, Op("@rx", "raises"), Scores("critical")),
    \* controls
    Rule(20, {Var("REQUEST_METHOD")}, Op("@streq", "plain"), <<<<"remove", 1, 3>>>>),
    Rule(20, {Var("REQUEST_METHOD")}, Op("@streq", "plain"), <<<<"remove", 4, 4>>, <<"remove", 10, 10>>>>),
    Rule(21, {Var("REQUEST_METHOD")}, Op("@streq", "plain"), <<<<"removeMacro">>>>),
    Rule(22, {Var("REQUEST_FILENAME")}, Op("@validateByteRange", "plain"),
        <<<<"removeTarget", "a", "REQUEST_BASENAME">>>>),
    Line(<<<<"SecAction">>, <<"id", 23>>, <<"removeTarget", "b", "REQUEST_FILENAME">>>>)}

PatternNames == {"", "plain", "words", "gone", "raises", "two", "file", "huge", "other", "tx", "low"}
MCTransaction == [p \in PatternNames |-> CASE p = "tx" -> "runtime" [] p = "low" -> "lowered" [] OTHER -> "none"]
MCChainForm ==
    [p \in PatternNames |-> CASE p = "two" -> "two-capture" [] p = "file" -> "phrase" [] p = "huge" -> "same-buffer"
                          [] OTHER -> "none"]
=============================================================================
