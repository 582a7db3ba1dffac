---------------------------- MODULE MCJsonProjection ----------------------------
(***************************************************************************)
(* JsonProjection for TLC: all texts of up to five characters of seven, and *)
(* documents built from a few values, with a buffer of four characters.     *)
(***************************************************************************)
EXTENDS JsonProjection

Text(s) == [text |-> s, valid |-> FALSE, leaves |-> << >>]
\* 1 also stands for the hex digits, n for the letters that begin a literal.
Chars == {"{", "}", "quote", "\\", "x", "1", "n"}
Texts == UNION {[1 .. n -> Chars] : n \in 0 .. 5}

\* A character as it is written and as it is meant.
Glyphs == { << <<"x">>, <<"x">> >>, << <<"{">>, <<"{">> >>, << <<":">>, <<":">> >>,
            << <<"\\", "quote">>, <<"quote">> >>, << <<"\\", "\\">>, <<"\\">> >>,
            << <<"\\", "n">>, <<"newline">> >>,
            << <<"\\", "u", "0", "0", "1", "f">>, <<"u", "0", "0", "1", "f">> >> }

String(glyphs) ==
  [text |-> <<"quote">> \o FlattenSeq([k \in DOMAIN glyphs |-> glyphs[k][1]]) \o <<"quote">>,
   leaves |-> << << "ARGS", [k \in DOMAIN glyphs |-> glyphs[k][2]] >> >>]
Number == [text |-> <<"1", "0">>, leaves |-> << << "ARGS", << <<"1">>, <<"0">> >> >> >>]

\* A member or element, and a container of one or two of them.
Key(k, d) == [text |-> k.text \o <<" ", ":", " ">> \o d.text,
              leaves |-> << << "ARGS_NAMES", k.leaves[1][2] >> >> \o d.leaves]
One(open, d, close) == [text |-> <<open>> \o d.text \o <<close>>, leaves |-> d.leaves]
Two(open, d, e, close) == [text |-> <<open>> \o d.text \o <<",">> \o e.text \o <<close>>,
                           leaves |-> d.leaves \o e.leaves]

Strings == {String(g) : g \in UNION {[1 .. n -> Glyphs] : n \in 0 .. 2}}
Few == {String(<< >>), Number, String(<< << <<"x">>, <<"x">> >> >>)}
\* One character longer than the buffer.
Name == String([k \in 1 .. 5 |-> IF k < 5 THEN << <<"x">>, <<"x">> >> ELSE << <<"{">>, <<"{">> >>])
Deep == One("[", One("{", Key(Name, Number), "}"), "]")
Values ==
  Strings \cup {Two("[", d, e, "]") : d \in Few, e \in Strings \cup {Number, Deep}}
    \cup {Two("{", Key(s, d), Key(Name, e), "}") : s \in Strings, d \in Few, e \in Few \cup {Deep}}

MCDocuments ==
  {Text(s) : s \in Texts}
    \cup {[text |-> d.text, valid |-> TRUE, leaves |-> d.leaves] : d \in Values}

MCResults == {0, 942100}
=============================================================================
