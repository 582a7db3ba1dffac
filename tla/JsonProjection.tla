---------------------------- MODULE JsonProjection ----------------------------
(***************************************************************************)
(* lumina_parse_and_project_json (src/src/luminawaf.cpp): one pass over a  *)
(* JSON body that decodes its strings into a scratch buffer and has each   *)
(* string, key and scalar scanned.                                         *)
(*                                                                         *)
(* A document is a record [text, valid, leaves]: the characters of the     *)
(* body; whether it is JSON; and if so, what it consists of.  A decoded    *)
(* character is the tuple <<c>>, or <<"u", h1, h2, h3, h4>> for a code      *)
(* point given by its digits; the buffer is measured in characters, where  *)
(* the code counts the bytes of their UTF-8 form.                          *)
(***************************************************************************)
EXTENDS Integers, SequencesExt, FiniteSetsExt

CONSTANTS
  Documents,
  Results,      \* what scanning a value may return; 0 is no match
  MaxDepth,     \* 64
  ScratchSize   \* of the buffer of decoded characters: 131072

JsonAssumption ==
  /\ 0 \in Results /\ Results \subseteq Int
  /\ MaxDepth \in Nat /\ ScratchSize \in Nat \ {0}
  /\ \A d \in Documents :
       /\ d.text \in Seq(STRING)
       /\ d.valid \in BOOLEAN
       /\ d.leaves \in Seq({"ARGS", "ARGS_NAMES"} \X Seq(Seq(STRING)))

Blanks  == {" ", "tab", "newline", "return"}
Opening == {"{", "["}
Closing == {"}", "]"}
Hex     == {"0", "1", "f"}
ScalarStart == {"0", "1", "-", "t", "f", "n"}
ScalarEnd   == Blanks \cup {","} \cup Closing
Control == [b |-> "backspace", f |-> "formfeed", n |-> "newline", r |-> "return", t |-> "tab"]

VARIABLES
  doc,
  i,          \* character being read
  depth,
  inString,
  out,        \* scratch[0 .. out_len)
  threat,
  pc,
  spans,      \* history: where each string or scalar lies in the text
  log         \* history: every scan, as
              \* <<collection, value, result, first character>>

jsonVars == <<doc, i, depth, inString, out, threat, pc, spans, log>>

text == doc.text
char == text[i]
More == i <= Len(text)

Plain(c) == <<c>>

-----------------------------------------------------------------------------
(* Parts of the pass *)

\* Mutant: a character that does not fit replaces the last one.
PutOver(c) == out' = IF Len(out) < ScratchSize THEN Append(out, c) ELSE [out EXCEPT ![Len(out)] = c]

\* A character that does not fit is dropped.
Put(c) == out' = IF Len(out) < ScratchSize THEN Append(out, c) ELSE out

\* The four digits of \u, if the text has them.
Digits == SubSeq(text, i + 2, i + 5)
IsCodePoint == text[i + 1] = "u" /\ i + 5 <= Len(text) /\ \A k \in 1 .. 4 : Digits[k] \in Hex

Unescaped(e) == IF e \in DOMAIN Control THEN Control[e] ELSE e

\* The next character that is not a blank is a colon.
IsKey(from) ==
  LET next == SelectInSubSeq(text, from, Len(text), LAMBDA c : c \notin Blanks) IN
    next # 0 /\ text[next] = ":"

Scan(collection, value, from) ==
  IF value = << >> THEN UNCHANGED <<threat, log>>
  ELSE \E r \in Results :
         /\ threat' = IF r # 0 THEN r ELSE threat
         /\ log' = Append(log, <<collection, value, r, from>>)

-----------------------------------------------------------------------------
(* Steps *)

Init ==
  /\ doc \in Documents
  /\ i = 1 /\ depth = 0
  /\ inString = FALSE /\ out = << >>
  /\ threat = 0 /\ pc = "read"
  /\ spans = << >> /\ log = << >>

Outside(chars) == pc = "read" /\ ~inString /\ More /\ char \in chars
Inside == pc = "read" /\ inString

\* Separators, and characters that belong nowhere.
Skip ==
  /\ pc = "read" /\ ~inString /\ More
  /\ char \notin Opening \cup Closing \cup {"quote"} \cup ScalarStart
  /\ i' = i + 1
  /\ UNCHANGED <<doc, depth, inString, out, threat, pc, spans, log>>

Nest(by) ==
  /\ depth' = depth + by
  /\ IF depth + by \in 0 .. MaxDepth THEN i' = i + 1 /\ UNCHANGED pc
     ELSE pc' = "done" /\ UNCHANGED i
  /\ UNCHANGED <<doc, inString, out, threat, spans, log>>

\* Too many brackets, and one too many closed, end the pass.
Open  == Outside(Opening) /\ Nest(1)
Close == Outside(Closing) /\ Nest(-1)

\* Mutant: the buffer still holds the string before.
QuoteKeepsBuffer ==
  /\ Outside({"quote"})
  /\ i' = i + 1
  /\ inString' = TRUE
  /\ spans' = Append(spans, <<i, Len(text)>>)
  /\ UNCHANGED <<doc, depth, out, threat, pc, log>>

Quote ==
  /\ Outside({"quote"})
  /\ i' = i + 1
  /\ inString' = TRUE /\ out' = << >>
  /\ spans' = Append(spans, <<i, Len(text)>>)
  /\ UNCHANGED <<doc, depth, threat, pc, log>>

\* A backslash that is the last character of the text stands for itself.
Character ==
  /\ Inside /\ More /\ char # "quote"
  /\ char = "\\" => i = Len(text)
  /\ Put(Plain(char))
  /\ i' = i + 1
  /\ UNCHANGED <<doc, depth, inString, threat, pc, spans, log>>

\* Mutant: an escaped quote ends the string.
EscapeQuoteEnds ==
  /\ Inside /\ More /\ char = "\\" /\ i < Len(text)
  /\ IF IsCodePoint
       THEN Put(<<"u">> \o Digits) /\ i' = i + 6
       ELSE IF text[i + 1] = "quote" THEN UNCHANGED out /\ i' = i + 1
       ELSE Put(Plain(Unescaped(text[i + 1]))) /\ i' = i + 2
  /\ UNCHANGED <<doc, depth, inString, threat, pc, spans, log>>

Escape ==
  /\ Inside /\ More /\ char = "\\" /\ i < Len(text)
  /\ IF IsCodePoint
       THEN Put(<<"u">> \o Digits) /\ i' = i + 6
       ELSE Put(Plain(Unescaped(text[i + 1]))) /\ i' = i + 2
  /\ UNCHANGED <<doc, depth, inString, threat, pc, spans, log>>

\* Mutant: a string that the text does not end is dropped.
EndStringQuoted ==
  /\ Inside
  /\ More => char = "quote"
  /\ LET next == IF More THEN i + 1 ELSE i IN
       /\ i' = next
       /\ Scan(IF IsKey(next) THEN "ARGS_NAMES" ELSE "ARGS", IF More THEN out ELSE << >>,
               Last(spans)[1])
       /\ spans' = IF More THEN [spans EXCEPT ![Len(spans)] = << @[1], next - 1 >>] ELSE Front(spans)
  /\ inString' = FALSE
  /\ UNCHANGED <<doc, depth, out, pc>>

\* The closing quote, or the end of the text.
EndString ==
  /\ Inside
  /\ More => char = "quote"
  /\ LET next == IF More THEN i + 1 ELSE i IN
       /\ i' = next
       /\ Scan(IF IsKey(next) THEN "ARGS_NAMES" ELSE "ARGS", out, Last(spans)[1])
       /\ spans' = [spans EXCEPT ![Len(spans)] = << @[1], next - 1 >>]
  /\ inString' = FALSE
  /\ UNCHANGED <<doc, depth, out, pc>>

\* A number or literal, up to the next delimiter.
Scalar ==
  /\ Outside(ScalarStart)
  /\ LET end  == SelectInSubSeq(text, i, Len(text), LAMBDA c : c \in ScalarEnd)
         next == IF end = 0 THEN Len(text) + 1 ELSE end
         raw  == SubSeq(text, i, next - 1)
     IN /\ Scan("ARGS", [k \in DOMAIN raw |-> Plain(raw[k])], i)
        /\ spans' = Append(spans, <<i, next - 1>>)
        /\ i' = next
  /\ UNCHANGED <<doc, depth, inString, out, pc>>

Return ==
  /\ pc = "read" /\ ~inString /\ ~More
  /\ pc' = "done"
  /\ UNCHANGED <<doc, i, depth, inString, out, threat, spans, log>>

Finished == pc = "done" /\ UNCHANGED jsonVars

Step ==
  \/ Skip \/ Open \/ Close \/ Quote \/ Character \/ Escape \/ EndString
  \/ Scalar \/ Return

Next == Step \/ Finished

Spec == Init /\ [][Next]_jsonVars

-----------------------------------------------------------------------------
(* Properties *)

JsonTypeOK ==
  /\ i \in 1 .. Len(text) + 1
  /\ depth \in -1 .. MaxDepth + 1
  /\ inString \in BOOLEAN
  /\ Len(out) <= ScratchSize
  /\ threat \in Results
  /\ pc \in {"read", "done"}

\* Of a JSON body within the depth limit, exactly the strings, keys and scalars
\* are scanned, decoded and cut to the buffer, in order, keys as ARGS_NAMES.
LeavesAreScanned ==
  doc.valid =>
    LET cut(v) == SubSeq(v, 1, Min({Len(v), ScratchSize}))
        leaves == SelectSeq(doc.leaves, LAMBDA l : l[2] # << >>)
        expected == [k \in DOMAIN leaves |-> << leaves[k][1], cut(leaves[k][2]) >>]
        made == [k \in DOMAIN log |-> << log[k][1], log[k][2] >>]
    IN /\ IsPrefix(made, expected)
       /\ pc = "done" => made = expected

\* Character k is escaped: an odd number of backslashes stands before it, back to
\* character a.
Escaped(k, a) ==
  \E m \in a .. k - 1 :
    /\ (k - m) % 2 = 1
    /\ \A j \in m .. k - 1 : text[j] = "\\"
    /\ m = a \/ text[m - 1] # "\\"

\* A string from a to b: up to the first quote that is not escaped, or else to the
\* end of the text.
StringSpan(a, b) ==
  /\ text[a] = "quote"
  /\ \A k \in a + 1 .. b - 1 : text[k] = "quote" => Escaped(k, a + 1)
  /\ \/ a < b /\ text[b] = "quote" /\ ~Escaped(b, a + 1)
     \/ b = Len(text) /\ (a < b /\ text[b] = "quote" => Escaped(b, a + 1))

\* A number or literal from a to b.
ScalarSpan(a, b) ==
  /\ text[a] \in ScalarStart
  /\ \A k \in a .. b : text[k] \notin ScalarEnd
  /\ b = Len(text) \/ text[b + 1] \in ScalarEnd

IsEmptyString(a, b) == text[a] = "quote" /\ (b = a \/ (b = a + 1 /\ text[b] = "quote"))

\* The spans that were read to their end.
Read == 1 .. IF inString THEN Len(spans) - 1 ELSE Len(spans)

\* Each is a whole string or scalar, and they follow one another.
SpansAreWhole ==
  /\ \A k \in Read : StringSpan(spans[k][1], spans[k][2]) \/ ScalarSpan(spans[k][1], spans[k][2])
  /\ \A j, k \in DOMAIN spans : j < k => spans[j][2] < spans[k][1]

\* What is read begins none outside of them.
NoneIsBetween ==
  \A k \in 1 .. i - 1 :
    text[k] \in {"quote"} \cup ScalarStart =>
      \E n \in DOMAIN spans : k \in spans[n][1] .. spans[n][2]

\* Each is scanned once, an empty string excepted.
EachIsScanned ==
  /\ {log[k][4] : k \in DOMAIN log}
       = {spans[k][1] : k \in {n \in Read : ~IsEmptyString(spans[n][1], spans[n][2])}}
  /\ \A j, k \in DOMAIN log : j < k => log[j][4] < log[k][4]

\* Of any text, up to where the pass is, no string or scalar is skipped, ended early,
\* run into the next one or scanned twice; and the pass gives up early only when the
\* brackets are too deep or do not match.  A scan of a string is of what fits the
\* buffer: where it was cut, LeavesAreScanned says.
NothingIsSkipped ==
  /\ SpansAreWhole /\ NoneIsBetween /\ EachIsScanned
  /\ pc = "done" => ~More \/ depth \notin 0 .. MaxDepth

=============================================================================
