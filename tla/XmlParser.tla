------------------------------- MODULE XmlParser -------------------------------
(***************************************************************************)
(* lumina_scan_xml_avx2 (src/src/lumina_xml_parser.c): one pass over an    *)
(* XML text that joins the fragments of its values in a thread-local       *)
(* buffer and has each value scanned.  Documents follow one another on the *)
(* same thread.                                                            *)
(*                                                                         *)
(* A document is a record                                                  *)
(*   text   its characters; some stand for several: "[CDATA[", the names   *)
(*          of references ("lt" and the numbers), "bom" (UTF-16)           *)
(*   made   what it was composed of, if it was: the characters of its      *)
(*          values with "|" where one value ends and "^" where a tag       *)
(*          closes itself                                                  *)
(*   limit  composed so that it exceeds a limit of the parser              *)
(***************************************************************************)
EXTENDS Integers, SequencesExt, FiniteSetsExt

CONSTANTS
  Calls,          \* sequences of documents
  Results,        \* what scanning a value may return; 0 is no match
  MaxNesting,     \* 128
  MaxAttributes,  \* 256
  MaxEntity,      \* 16
  MaxValue,       \* of the value buffer: 1 MB
  Chunk           \* characters that the wide search looks at together: 32

XmlAssumption ==
  /\ 0 \in Results /\ -1 \notin Results /\ Results \subseteq Int
  /\ {MaxNesting, MaxAttributes, MaxEntity} \subseteq Nat
  /\ {MaxValue, Chunk} \subseteq Nat \ {0}
  /\ \A c \in Calls : Len(c) \in Nat /\ DOMAIN c = 1 .. Len(c)
  /\ \A c \in Calls : \A d \in DOMAIN c :
       /\ c[d].text \in Seq(STRING) /\ c[d].made \in Seq(STRING)
       /\ c[d].limit \in BOOLEAN

Blanks == {" ", "newline"}
Quotes == {"'", "\""}
Limit  == -1

States == {"text", "tagOpen", "startTag", "endTag", "between", "attrName", "afterName",
           "beforeValue", "'", "\"", "entity", "bang", "bangDash", "comment", "cdata",
           "pi", "doctype"}

\* States whose characters the wide search passes over.
Wide == {"text", "cdata"} \cup Quotes

VARIABLES
  docs, wide,   \* the calls; whether the build has the wide search
  di,           \* document being read
  i,            \* character being read
  state,        \* of the parser; a quote is the attribute value it ends
  before,       \* pre_entity_state
  textStart, entityStart,
  depth, attrs,
  value,        \* g_xml_value_buffer, up to g_xml_value_len
  threat,       \* g_xml_threat
  pc,           \* "idle", "read" or "done"
  returned,     \* history: what each call returned
  full,         \* history: a fragment of this document did not fit
  log           \* history: every scan, as <<document, value, result>>

local == <<i, state, before, textStart, entityStart, depth, attrs>>
xmlVars == <<docs, wide, di, local, value, threat, pc, returned, full, log>>

text == docs[di].text
size == Len(text)

-----------------------------------------------------------------------------
(* Where the parser is *)

\* Mutant: a bracket is not looked for.
DelimitersNoBracket == {"<", ">", "&"} \cup Quotes

Delimiters == {"<", ">", "&", "]"} \cup Quotes

\* The wide search stops at a delimiter of a full chunk, or where no full chunk
\* is left.
Landing(k) ==
  LET last == k + Chunk * ((size - k + 1) \div Chunk)
      found == SelectInSubSeq(text, k, last - 1, LAMBDA c : c \in Delimiters)
  IN IF found = 0 THEN last ELSE found

\* The character that the next step looks at, or size + 1.
here == IF wide /\ state \in Wide THEN Landing(i) ELSE i
char == text[here]
Ahead(k) == IF here + k <= size THEN text[here + k] ELSE "end"

At(states) == pc = "read" /\ here <= size /\ state \in states

Move(next, s) == i' = next /\ state' = s

-----------------------------------------------------------------------------
(* The value buffer *)

Add(v, fragment) == IF Len(v) + Len(fragment) <= MaxValue THEN v \o fragment ELSE v

\* lumina_xml_value_fragment
Fragment(fragment) ==
  /\ value' = Add(value, fragment)
  /\ full' = (full \/ Len(value) + Len(fragment) > MaxValue)

\* The text from textStart up to here; none if a tag ended before.
Pending == SubSeq(text, textStart, here - 1)

\* lumina_xml_value_end and lumina_xml_value_begin
Flush(v) ==
  /\ value' = << >>
  /\ IF v = << >> THEN UNCHANGED <<threat, log>>
     ELSE \E r \in Results :
            /\ threat' = IF r # 0 THEN r ELSE threat
            /\ log' = Append(log, <<di, v, r>>)

\* handle_entity: a named reference and a number up to 255 give a character, 0 and
\* what is no number nothing, and all else stays as it is.  A long number
\* overflows an int.
Decoded(name) ==
  LET asIs == <<"&">> \o name \o <<";">> IN
    CASE name = <<"lt">> -> {<<"<">>}
      [] name # << >> /\ Head(name) = "#60"  -> {<<"<">>}
      [] name # << >> /\ Head(name) = "#0"   -> {<< >>}
      [] name # << >> /\ Head(name) = "#huge" -> {<< >>, <<"<">>, asIs}
      [] OTHER -> {asIs}

-----------------------------------------------------------------------------
(* Calls *)

Init ==
  /\ docs \in Calls /\ wide \in BOOLEAN
  /\ di = 1 /\ i = 1 /\ state = "text" /\ before = "text"
  /\ textStart = 1 /\ entityStart = 1 /\ depth = 0 /\ attrs = 0
  /\ value = << >> /\ threat = 0 /\ pc = "idle"
  /\ returned = << >> /\ full = FALSE /\ log = << >>

Return(r) ==
  /\ returned' = Append(returned, r)
  /\ di' = di + 1
  /\ pc' = "idle"

Enter ==
  /\ pc' = "read"
  /\ i' = 1 /\ state' = "text" /\ before' = "text"
  /\ textStart' = 1 /\ entityStart' = 1 /\ depth' = 0 /\ attrs' = 0
  /\ full' = FALSE
  /\ UNCHANGED <<di, returned>>

\* Mutant: the buffer is not cleared when a document begins.
BeginKeepsValue ==
  /\ pc = "idle" /\ di <= Len(docs) /\ text # << >>
  /\ threat' = 0
  /\ IF Head(text) = "bom" THEN Return(Limit) /\ UNCHANGED <<local, full>> ELSE Enter
  /\ UNCHANGED <<docs, wide, value, log>>

\* Mutant: the result of the document before is kept.
BeginKeepsThreat ==
  /\ pc = "idle" /\ di <= Len(docs) /\ text # << >>
  /\ IF Head(text) = "bom" THEN Return(Limit) /\ UNCHANGED <<local, value, full>>
                           ELSE Enter /\ value' = << >>
  /\ UNCHANGED <<docs, wide, threat, log>>

Begin ==
  /\ pc = "idle" /\ di <= Len(docs) /\ text # << >>
  /\ threat' = 0
  /\ IF Head(text) = "bom" THEN Return(Limit) /\ UNCHANGED <<local, value, full>>
                           ELSE Enter /\ value' = << >>
  /\ UNCHANGED <<docs, wide, log>>

Empty ==
  /\ pc = "idle" /\ di <= Len(docs) /\ text = << >>
  /\ Return(0)
  /\ UNCHANGED <<docs, wide, local, value, threat, full, log>>

\* The end of the text: only text is still a value, an attribute or a CDATA
\* section that was not closed is not.
End ==
  /\ pc = "read" /\ here > size
  /\ \E v \in {IF state = "text" THEN Add(value, Pending) ELSE value} :
       /\ Flush(v)
       /\ full' = (full \/ (state = "text" /\ Len(value) + Len(Pending) > MaxValue))
  /\ Return(threat')
  /\ UNCHANGED <<docs, wide, local>>

Leave ==
  /\ pc = "idle" /\ di > Len(docs)
  /\ pc' = "done"
  /\ UNCHANGED <<docs, wide, di, local, value, threat, returned, full, log>>

-----------------------------------------------------------------------------
(* Characters without an effect but the state they lead to *)

Pass ==
  /\ \/ At({"text"}) /\ char \notin {"<", "&"} /\ Move(here + 1, state)
     \/ At(Quotes) /\ char \notin {state, "&"} /\ Move(here + 1, state)
     \/ At({"tagOpen"}) /\ char = "!" /\ Move(here + 1, "bang")
     \/ At({"tagOpen"}) /\ char = "?" /\ Move(here + 1, "pi")
     \/ At({"startTag"}) /\ char \notin {">", "/"}
        /\ Move(here + 1, IF char \in Blanks THEN "between" ELSE state)
     \/ At({"endTag", "doctype"}) /\ char # ">" /\ Move(here + 1, state)
     \/ At({"between"}) /\ char \notin {">", "/"}
        /\ Move(here + 1, IF char \in Blanks THEN state ELSE "attrName")
     \/ At({"attrName"}) /\ char \notin {"=", ">"}
        /\ Move(here + 1, IF char \in Blanks THEN "afterName" ELSE state)
     \/ At({"afterName"}) /\ char \notin {"=", ">"}
        /\ Move(here + 1, IF char \in Blanks THEN state ELSE "attrName")
     \/ At({"beforeValue"}) /\ char \notin Quotes \cup {">"} /\ Move(here + 1, state)
     \/ At({"bang"}) /\ char = "-" /\ Move(here + 1, "bangDash")
     \/ At({"bang"}) /\ char = "D" /\ Move(here + 1, "doctype")
     \/ At({"bangDash"}) /\ char = "-" /\ Move(here + 1, "comment")
     \/ At({"comment"}) /\ <<char, Ahead(1), Ahead(2)>> # <<"-", "-", ">">> /\ Move(here + 1, state)
     \/ At({"cdata"}) /\ <<char, Ahead(1), Ahead(2)>> # <<"]", "]", ">">> /\ Move(here + 1, state)
     \/ At({"pi"}) /\ <<char, Ahead(1)>> # <<"?", ">">> /\ Move(here + 1, state)
  /\ UNCHANGED <<docs, wide, di, before, textStart, entityStart, depth, attrs,
                 value, threat, pc, returned, full, log>>

\* <! that begins nothing known: text again, from where the last text began.
Malformed ==
  /\ \/ At({"bang"}) /\ char \notin {"-", "D", "[CDATA["}
     \/ At({"bangDash"}) /\ char # "-"
  /\ Move(here + 1, "text")
  /\ UNCHANGED <<docs, wide, di, before, textStart, entityStart, depth, attrs,
                 value, threat, pc, returned, full, log>>

-----------------------------------------------------------------------------
(* Tags *)

TextEnds ==
  /\ At({"text"}) /\ char = "<"
  /\ Fragment(Pending)
  /\ Move(here + 1, "tagOpen")
  /\ UNCHANGED <<docs, wide, di, before, textStart, entityStart, depth, attrs,
                 threat, pc, returned, log>>

StartTag ==
  /\ At({"tagOpen"}) /\ char \notin {"/", "!", "?"}
  /\ depth' = depth + 1
  /\ IF depth' > MaxNesting THEN Return(Limit) /\ UNCHANGED <<i, state, attrs>>
     ELSE Move(here + 1, "startTag") /\ attrs' = 0 /\ UNCHANGED <<pc, di, returned>>
  /\ UNCHANGED <<docs, wide, before, textStart, entityStart, value, threat, full, log>>

EndTag ==
  /\ At({"tagOpen"}) /\ char = "/"
  /\ depth' = depth - 1
  /\ Move(here + 1, "endTag")
  /\ UNCHANGED <<docs, wide, di, before, textStart, entityStart, attrs,
                 value, threat, pc, returned, full, log>>

\* The tag's own > is text, and so is all since the text before it began.
SelfClosing ==
  /\ At({"startTag", "between"}) /\ char = "/"
  /\ depth' = depth - 1
  /\ Move(here + 1, "text")
  /\ UNCHANGED <<docs, wide, di, before, textStart, entityStart, attrs,
                 value, threat, pc, returned, full, log>>

\* Mutant: only an end tag and a start tag without attributes begin a text.
TagEndsKeepsStart ==
  /\ At({"startTag", "between", "attrName", "afterName", "beforeValue", "doctype"})
  /\ char = ">"
  /\ Move(here + 1, "text")
  /\ textStart' = IF state = "startTag" THEN here + 1 ELSE textStart
  /\ UNCHANGED <<docs, wide, di, before, entityStart, depth, attrs,
                 value, threat, pc, returned, full, log>>

TagEnds ==
  /\ At({"startTag", "between", "attrName", "afterName", "beforeValue", "doctype"})
  /\ char = ">"
  /\ Move(here + 1, "text")
  /\ textStart' = here + 1
  /\ UNCHANGED <<docs, wide, di, before, entityStart, depth, attrs,
                 value, threat, pc, returned, full, log>>

\* Mutant: an end tag does not end the value.
EndTagEndsJoined ==
  /\ At({"endTag"}) /\ char = ">"
  /\ Move(here + 1, "text")
  /\ textStart' = here + 1
  /\ UNCHANGED <<docs, wide, di, before, entityStart, depth, attrs,
                 value, threat, pc, returned, full, log>>

EndTagEnds ==
  /\ At({"endTag"}) /\ char = ">"
  /\ Move(here + 1, "text")
  /\ textStart' = here + 1
  /\ Flush(value)
  /\ UNCHANGED <<docs, wide, di, before, entityStart, depth, attrs, pc, returned, full>>

-----------------------------------------------------------------------------
(* Attributes *)

Equals ==
  /\ At({"attrName", "afterName"}) /\ char = "="
  /\ attrs' = attrs + 1
  /\ IF attrs' > MaxAttributes THEN Return(Limit) /\ UNCHANGED <<i, state>>
     ELSE Move(here + 1, "beforeValue") /\ UNCHANGED <<pc, di, returned>>
  /\ UNCHANGED <<docs, wide, before, textStart, entityStart, depth, value, threat, full, log>>

\* The text before the tag is a value of its own.
ValueBegins ==
  /\ At({"beforeValue"}) /\ char \in Quotes
  /\ Move(here + 1, char)
  /\ Flush(value)
  /\ textStart' = here + 1
  /\ UNCHANGED <<docs, wide, di, before, entityStart, depth, attrs, pc, returned, full>>

ValueEnds ==
  /\ At(Quotes) /\ char = state
  /\ Move(here + 1, "between")
  /\ \E v \in {Add(value, Pending)} : Flush(v)
  /\ full' = (full \/ Len(value) + Len(Pending) > MaxValue)
  /\ UNCHANGED <<docs, wide, di, before, textStart, entityStart, depth, attrs, pc, returned>>

-----------------------------------------------------------------------------
(* References *)

Reference ==
  /\ At({"text"} \cup Quotes) /\ char = "&"
  /\ Fragment(Pending)
  /\ entityStart' = here
  /\ before' = state
  /\ Move(here + 1, "entity")
  /\ UNCHANGED <<docs, wide, di, textStart, depth, attrs, threat, pc, returned, log>>

\* Mutant: the text goes on from before the reference.
ReferenceEndsKeepsStart ==
  /\ At({"entity"}) /\ char = ";"
  /\ \E d \in Decoded(SubSeq(text, entityStart + 1, here - 1)) : Fragment(d)
  /\ Move(here + 1, before)
  /\ UNCHANGED <<docs, wide, di, before, textStart, entityStart, depth, attrs, threat, pc, returned, log>>

ReferenceEnds ==
  /\ At({"entity"}) /\ char = ";"
  /\ \E d \in Decoded(SubSeq(text, entityStart + 1, here - 1)) : Fragment(d)
  /\ Move(here + 1, before)
  /\ textStart' = here + 1
  /\ UNCHANGED <<docs, wide, di, before, entityStart, depth, attrs, threat, pc, returned, log>>

InReference ==
  At({"entity"}) /\ char # ";" /\ here - entityStart <= MaxEntity
    /\ char \notin {"<", " ", "newline"}

GoesOn ==
  /\ InReference
  /\ Move(here + 1, state)
  /\ UNCHANGED <<docs, wide, di, before, textStart, entityStart, depth, attrs,
                 value, threat, pc, returned, full, log>>

\* Mutants: the character that ends it is passed over; the state is kept.
NoReferencePasses ==
  /\ At({"entity"}) /\ char # ";" /\ ~InReference
  /\ Fragment(SubSeq(text, entityStart, here - 1))
  /\ Move(here + 1, before)
  /\ textStart' = here + 1
  /\ UNCHANGED <<docs, wide, di, before, entityStart, depth, attrs, threat, pc, returned, log>>
NoReferenceStays ==
  /\ At({"entity"}) /\ char # ";" /\ ~InReference
  /\ Fragment(SubSeq(text, entityStart, here - 1))
  /\ Move(here, state)
  /\ textStart' = here
  /\ UNCHANGED <<docs, wide, di, before, entityStart, depth, attrs, threat, pc, returned, log>>

\* No reference after all: it is text, and the character is read again.
NoReference ==
  /\ At({"entity"}) /\ char # ";" /\ ~InReference
  /\ Fragment(SubSeq(text, entityStart, here - 1))
  /\ Move(here, before)
  /\ textStart' = here
  /\ UNCHANGED <<docs, wide, di, before, entityStart, depth, attrs, threat, pc, returned, log>>

-----------------------------------------------------------------------------
(* Comments, processing instructions, CDATA sections *)

CdataBegins ==
  /\ At({"bang"}) /\ char = "[CDATA["
  /\ Move(here + 1, "cdata")
  /\ textStart' = here + 1
  /\ UNCHANGED <<docs, wide, di, before, entityStart, depth, attrs,
                 value, threat, pc, returned, full, log>>

CdataEnds ==
  /\ At({"cdata"}) /\ <<char, Ahead(1), Ahead(2)>> = <<"]", "]", ">">>
  /\ Fragment(Pending)
  /\ Move(here + 3, "text")
  /\ textStart' = here + 3
  /\ UNCHANGED <<docs, wide, di, before, entityStart, depth, attrs, threat, pc, returned, log>>

\* Ends a comment or a processing instruction after n more characters.
MarkupEnds(n) ==
  /\ Move(here + n, "text")
  /\ textStart' = here + n
  /\ UNCHANGED <<docs, wide, di, before, entityStart, depth, attrs,
                 value, threat, pc, returned, full, log>>

CommentEnds == At({"comment"}) /\ <<char, Ahead(1), Ahead(2)>> = <<"-", "-", ">">> /\ MarkupEnds(3)
PiEnds == At({"pi"}) /\ <<char, Ahead(1)>> = <<"?", ">">> /\ MarkupEnds(2)

-----------------------------------------------------------------------------

Finished == pc = "done" /\ UNCHANGED xmlVars

Step ==
  \/ Begin \/ Empty \/ End \/ Leave \/ Pass \/ Malformed
  \/ TextEnds \/ StartTag \/ EndTag \/ SelfClosing \/ TagEnds \/ EndTagEnds
  \/ Equals \/ ValueBegins \/ ValueEnds
  \/ Reference \/ ReferenceEnds \/ GoesOn \/ NoReference
  \/ CdataBegins \/ CdataEnds \/ CommentEnds \/ PiEnds

Next == Step \/ Finished

\* One call after another on one thread: each runs on until it returns.
Spec == Init /\ [][Next]_xmlVars /\ WF_xmlVars(Step)

-----------------------------------------------------------------------------
(* Properties *)

XmlTypeOK ==
  /\ di \in 1 .. Len(docs) + 1
  /\ pc \in {"idle", "read", "done"}
  /\ state \in States /\ before \in {"text"} \cup Quotes
  /\ pc = "read" =>
       /\ i \in 1 .. size + 1 /\ textStart \in 1 .. size + 1
       /\ entityStart \in 1 .. i
       /\ depth <= MaxNesting /\ attrs \in 0 .. MaxAttributes
  /\ Len(value) <= MaxValue
  /\ threat \in Results
  /\ Len(returned) = di - 1

Scans(d) == SelectSeq(log, LAMBDA l : l[1] = d)
Values(d) == LET s == Scans(d) IN [k \in DOMAIN s |-> s[k][2]]

\* The segments of a sequence between separators that are not empty.
Segments(s, separators) ==
  LET add(parts, c) == IF c \in separators THEN Append(parts, << >>)
                       ELSE Front(parts) \o << Append(Last(parts), c) >>
  IN SelectSeq(FoldLeft(add, << << >> >>, s), LAMBDA p : p # << >>)

Composed(d) == docs[d].made # << >>

\* Of a document whose values fit the buffer, exactly the values are scanned, each
\* joined from its fragments, whatever markup or references lie between them;
\* and all of them unless a limit ends the pass.
ValuesAreScanned ==
  \A d \in DOMAIN docs :
    LET values == Segments(docs[d].made, {"|"}) IN
      Composed(d) /\ "^" \notin Range(docs[d].made)
        /\ (\A k \in DOMAIN values : Len(values[k]) <= MaxValue)
      => /\ IsPrefix(Values(d), values)
         /\ d < di /\ ~docs[d].limit => Values(d) = values

\* Elements that close themselves only add to what is scanned: each piece of text
\* between them is part of a value, if the buffer held them.
NoTextIsLost ==
  pc = "idle" /\ di > 1 =>
    LET d == di - 1
        pieces == Segments(docs[d].made, {"|", "^"})
        values == Values(d)
        within(p, v) == \E k \in 0 .. Len(v) - Len(p) : SubSeq(v, k + 1, k + Len(p)) = p
    IN Composed(d) /\ ~docs[d].limit /\ ~full
       => \A k \in DOMAIN pieces : \E j \in DOMAIN values : within(pieces[k], values[j])

\* The scans of document d with a match, and the last of their results.
Hits(d) == {k \in DOMAIN log : log[k][1] = d /\ log[k][3] # 0}
LastHit(d) == IF Hits(d) = {} THEN 0 ELSE log[Max(Hits(d))][3]

\* What a call returns is the last match of its own document, or that this
\* document goes beyond a limit; nothing of the document before.
ResultIsOwn == \A d \in DOMAIN returned : returned[d] \in {Limit, LastHit(d)}

\* The limit is reported of the documents that exceed it, and of no other.
LimitIsReported ==
  \A d \in DOMAIN returned : Composed(d) => (returned[d] = Limit) = docs[d].limit

\* The wide search passes over nothing that the parser would have acted on.
SkipIsHarmless ==
  pc = "read" /\ wide /\ state \in Wide =>
    \A k \in i .. Landing(i) - 1 :
      /\ text[k] # "]" \/ state # "cdata"
      /\ text[k] # "&" \/ state = "cdata"
      /\ text[k] # "<" \/ state # "text"
      /\ text[k] # state \/ state \notin Quotes

=============================================================================
