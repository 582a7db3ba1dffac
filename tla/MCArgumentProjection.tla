-------------------------- MODULE MCArgumentProjection --------------------------
(***************************************************************************)
(* ArgumentProjection for TLC: all texts of up to four characters, and      *)
(* queries and cookies built from parts, with a buffer of four characters.  *)
(***************************************************************************)
EXTENDS ArgumentProjection

Upto(n, S) == UNION {[1 .. k -> S] : k \in 0 .. n}

Value(kind, s) == [kind |-> kind, text |-> s, built |-> FALSE, parts |-> << >>]

\* Characters of a form as they are written and meant; % stands for itself where
\* no two digits follow.
Glyphs == { << <<"x">>, <<"x">> >>, << <<"4">>, <<"4">> >>, << <<"+">>, <<" ">> >>,
            << <<"%", "4", "f">>, <<"4", "f">> >>, << <<"%">>, <<"%">> >> }

Written(g) == FlattenSeq([k \in DOMAIN g |-> g[k][1]])
Meant(g)   == [k \in DOMAIN g |-> g[k][2]]
Plain(g) ==
  \A k \in DOMAIN g : g[k][1] = <<"%">> =>
    ~ (k + 2 <= Len(g) /\ {g[k + 1][1], g[k + 2][1]} \subseteq {<<"4">>})

Part(what, g) == << what, Meant(g), Len(Written(g)) >>

Components == {g \in Upto(3, Glyphs) : Plain(g)}
Short == {g \in Components : Len(g) <= 1}

BuiltPair(k, v) ==
  [text |-> Written(k) \o <<"=">> \o Written(v),
   parts |-> << Part("ARGS_NAMES", k), Part("ARGS", v) >>]
BuiltName(k) == [text |-> Written(k), parts |-> << Part("ARGS_NAMES", k) >>]

Pairs == {BuiltPair(k, v) : k \in Short, v \in Components} \cup {BuiltName(k) : k \in Components}
FewPairs == {BuiltPair(k, v) : k \in Short, v \in {<< >>}}

BuiltQuery(kind, p, q) ==
  [kind |-> kind, text |-> p.text \o <<"&">> \o q.text, built |-> TRUE,
   parts |-> p.parts \o q.parts]

Words == Upto(2, {"x", "="})
CookieText(name, value) == <<" ">> \o name \o <<" ", "=", " ">> \o value \o <<" ">>
CookiePart(what, w) == << what, AsIs(w), Len(w) >>
BuiltCookie(n, v, w) ==
  [kind |-> "cookie", text |-> CookieText(n, v) \o <<";">> \o w, built |-> TRUE,
   parts |-> << CookiePart("REQUEST_COOKIES_NAMES", n), CookiePart("REQUEST_COOKIES", v),
                CookiePart("REQUEST_COOKIES", w) >>]

MCRequests ==
  { << Value(kind, s) >> : kind \in {"query", "form"}, s \in Upto(4, {"x", "&", "=", "%", "4"}) }
    \cup { << Value("cookie", s) >> : s \in Upto(4, {"x", ";", "=", " "}) }
    \cup { << BuiltQuery("form", p, q) >> : p \in Pairs, q \in FewPairs }
    \cup { << BuiltQuery("query", p, q), Value("other", <<"x">>) >> : p \in FewPairs, q \in FewPairs }
    \cup { << BuiltCookie(n, v, w) >> : n \in Upto(2, {"x"}), v \in Words, w \in Upto(5, {"x"}) }

MCResults == {0, 942100}
=============================================================================
