---------------------------- MODULE MCRoutingTables ----------------------------
(***************************************************************************)
(* Thirteen rules over six bytes, three translated in every order, and the *)
(* values their variables tell apart.                                      *)
(***************************************************************************)
EXTENDS RoutingTables

MCBytes == {"a", "b", "A", "(", "=", " "}
MCWordBytes == {"a", "b", "A"}
MCBlank == {" "}
MCLower == [c \in MCBytes |-> IF c = "A" THEN "a" ELSE c]

P(words, suffix, fold, boundary) ==
    [words |-> words, suffix |-> suffix, fold |-> fold, boundary |-> boundary,
     blanks |-> suffix # "OTHER", dotAll |-> FALSE]
R(id, expression, targets, pattern, transforms) ==
    [id |-> id, vars |-> expression, pattern |-> pattern, transforms |-> transforms,
     targets |-> {[collection |-> t[1], header |-> t[2]] : t \in targets}]

Args == <<"ARGS">>
Word(w) == P({w}, "OTHER", FALSE, FALSE)
Calls(words) == P(words, "CALL", TRUE, TRUE)

MCRuleChoices ==
    {R(1, <<"ARGS", "|", "REQUEST_HEADERS", ":", "USER_AGENT">>, {<<"ARGS", "">>, <<"REQUEST_HEADERS", "USER_AGENT">>},
       Word(<<"a">>), "none"),
     R(2, <<"REQUEST_HEADERS", "|", "!", "REQUEST_HEADERS", ":", "REFERER">>, {<<"REQUEST_HEADERS", "HOST">>},
       Word(<<"a", "b">>), "lowercase"),
     R(3, <<"REQUEST_HEADERS", ":", "/", "x", "|", "ARGS", "/", "|", "REQUEST_HEADERS", ":", "X_FILENAME">>,
       {<<"REQUEST_HEADERS", "X_FILENAME">>}, Word(<<"b">>), "none"),
     R(4, <<"REQUEST_URI", "|", "ARGS">>, {<<"REQUEST_URI", "">>, <<"ARGS", "">>}, Word(<<"b">>), "none"),
     R(5, <<"REQUEST_BODY", "|", "&", "ARGS">>, {<<"REQUEST_BODY", "">>}, Word(<<"=">>), "none"),
     R(6, Args, {<<"ARGS", "">>}, Calls({<<"a">>, <<"A", "b">>}), "none"),
     R(7, Args \o <<"|", "REQUEST_COOKIES">>, {<<"ARGS", "">>, <<"REQUEST_COOKIES", "">>},
       P({<<"a">>, <<"b", " ">>}, "ASSIGN", TRUE, TRUE), "none"),
     R(8, <<"ARGS_GET">>, {<<"ARGS_GET", "">>}, P({<<"a">>, <<"b", "b">>, <<"a", "b">>}, "CALL", TRUE, FALSE), "none"),
     R(9, Args, {<<"ARGS", "">>}, P({<<"a", "b">>, <<"b">>}, "CALL", FALSE, FALSE), "none"),
     R(11, Args, {<<"ARGS", "">>}, P({<<"a">>, <<"b">>}, "ASSIGN", FALSE, FALSE), "lowercase"),
     R(12, Args, {<<"ARGS", "">>}, P({<<"a", "b">>}, "CALL", FALSE, FALSE), "lowercase"),
     R(10, <<"REQUEST_METHOD">>, {}, Calls({<<"b">>}), "none"),
     R(1, Args, {<<"ARGS", "">>}, Word(<<"=">>), "none")}

Texts ==
    {<<"a">>, <<"A", "b">>, <<"b", "=">>, <<"a", "(">>, <<"b", "a", " ", "(">>, <<"a", " ", "=", "a">>,
     <<"b", " ", "=", "=">>, <<" ", "A", "b", "(">>, <<"a", "b", "(", "b", "(">>, <<"=", "b", " ", " ", "=", "(">>,
     <<"a", "a", "b", "(">>}
\* Controls remove rule 6, or its arguments, from a transaction.
V(type, scope, headers, collections, form) ==
    {[type |-> type, scope |-> scope, headers |-> headers, collections |-> collections, form |-> form,
      bytes |-> t, off |-> off, offTargets |-> IF off = {} THEN {} ELSE {<<7, "args">>}] :
        t \in Texts, off \in IF type = 1 THEN {{}, {6}} ELSE {{}}}
MCValues ==
    V(0, {"uri"}, {}, {}, FALSE) \cup V(1, {"uri"}, {}, {"args"}, FALSE)
    \cup V(1, {"body"}, {}, {"args"}, FALSE) \cup V(2, {"headers"}, {}, {"cookies"}, FALSE)
    \cup V(4, {"body"}, {}, {"body"}, TRUE) \cup V(7, {"body"}, {}, {"files"}, FALSE)
    \cup UNION {V(3, {"headers"}, h, {"headers"}, FALSE) : h \in {{}, {4}, {3, 4}, {4, 10}, {3, 9}}}
==============================================================================
