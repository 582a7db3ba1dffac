------------------------------ MODULE MCXmlParser ------------------------------
(***************************************************************************)
(* XmlParser for TLC: documents composed of up to four items, and texts     *)
(* that are not XML behind each of several openings.                        *)
(***************************************************************************)
EXTENDS XmlParser

Upto(n, S) == UNION {[1 .. k -> S] : k \in 0 .. n}

\* What an item is written as, what it adds to the values, the tag it is if it is
\* one, and how many attributes that has.
Item(written, made, tag, attributes) ==
  [text |-> written, made |-> made, tag |-> tag, attributes |-> attributes]
Plain(written, made) == Item(written, made, "none", 0)
Same(written) == Plain(written, written)

Texts == { Same(<<"x">>), Same(<<"]">>), Same(<<"&", "x", " ">>), Same(<<"&", "x", "x", "x">>) }
References == { Plain(<<"&", "lt", ";">>, <<"<">>), Plain(<<"&", "#60", ";">>, <<"<">>),
                Plain(<<"&", "#0", ";">>, << >>), Same(<<"&", "x", ";">>) }
Markup == { Plain(<<"<", "!", "-", "-", "x", "-", "-", ">">>, << >>),
            Plain(<<"<", "?", "x", "?", ">">>, << >>),
            Plain(<<"<", "!", "D", "x", ">">>, << >>),
            Plain(<<"<", "!", "[CDATA[", "x", "<", "]", "]", ">">>, <<"x", "<">>) }
Tags == { Item(<<"<", "x", ">">>, << >>, "start", 0),
          Item(<<"<", "/", "x", ">">>, <<"|">>, "end", 0) }
Attributed == { Item(<<"<", "x", " ", "x", "=", "'", "x", "&", "lt", ";", "'", ">">>,
                     <<"|", "x", "<", "|">>, "start", 1) }
Closing == { Item(<<"<", "x", "/", ">">>, <<"^">>, "self", 0),
             Item(<<"<", "x", " ", "x", " ", "=", "\"", "x", "\"", "/", ">">>,
                  <<"|", "x", "|", "^">>, "self", 1) }
Nested == { Item(<<"<", "x", " ", "x", "=", "'", "'", "x", "=", "'", "'", ">">>,
                 <<"|">>, "start", 2) }

Count(items, n, tag) == Cardinality({k \in 1 .. n : items[k].tag = tag})
DepthAfter(items, n) ==
  Count(items, n - 1, "start") - Count(items, n - 1, "end")
    + (IF items[n].tag \in {"start", "self"} THEN 1 ELSE 0)

Doc(items) ==
  [text |-> FlattenSeq([k \in DOMAIN items |-> items[k].text]),
   made |-> FlattenSeq([k \in DOMAIN items |-> items[k].made]),
   limit |-> \E k \in DOMAIN items :
               items[k].tag \in {"start", "self"} /\
                 (DepthAfter(items, k) > MaxNesting \/ items[k].attributes > MaxAttributes)]

X == Same(<<"x">>)
ComposedDocs ==
  {Doc(s) : s \in Upto(2, Texts \cup References \cup Markup \cup Tags \cup Attributed \cup Closing \cup Nested)}
    \cup {Doc(<<X>> \o s) : s \in Upto(3, {X} \cup Tags \cup Closing \cup Attributed)}
    \cup {Doc(<<X, m, X, n, X>>) : m, n \in References \cup Markup \cup Closing}

Raw(s) == [text |-> s, made |-> << >>, limit |-> FALSE]
RawDocs ==
  {Raw(<<"x">> \o s) : s \in Upto(4, {"<", "&", ";", "]", "#0", " "})}
    \cup {Raw(<<"<", "x">> \o s) : s \in Upto(4, {" ", "x", "=", "'", "/", ">"})}
    \cup {Raw(<<"x", "<">> \o s) : s \in Upto(4, {"!", "?", "-", "D", "[CDATA[", ">"})}
    \cup {Raw(<<"<", "!", "[CDATA[">> \o s) : s \in Upto(4, {"x", "]", ">"})}
    \cup {Raw(<<"&", n, "x", ";", "x">>) : n \in {"#60", "#0", "#huge", "lt"}}

MCCalls ==
  { << d >> : d \in ComposedDocs \cup RawDocs }
    \cup { << d, e >> :
             d \in {Doc(<<X>> \o s) : s \in Upto(2, Tags \cup Attributed \cup Nested)}
                     \cup {Doc(<<X, t, X, t, X, t>>) : t \in Tags}
                     \cup {Raw(<<"bom", "x">>), Raw(<< >>), Raw(<<"<", "x", " ", "x", "=", "'", "x">>)},
             e \in {Doc(<<X>>), Doc(<< CHOOSE t \in Attributed : TRUE >>), Raw(<<"bom", "x">>), Raw(<< >>)} }

MCResults == {0, 941100}
=============================================================================
