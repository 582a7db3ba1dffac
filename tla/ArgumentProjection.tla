--------------------------- MODULE ArgumentProjection ---------------------------
(***************************************************************************)
(* The last part of lumina_scan_projected_collections                      *)
(* (src/src/luminawaf.cpp): query strings, form bodies and cookies are cut  *)
(* into names and values, and each is scanned; forms are decoded first.    *)
(*                                                                         *)
(* A value is a record                                                     *)
(*   kind    "query", "form" (the body of a form), "cookie" or "other"     *)
(*   text    its characters; none if it is empty or missing                *)
(*   built   TRUE iff the text was built from parts, and then              *)
(*   parts   these, as <<collection, decoded text, length in the text>>    *)
(* A decoded character is <<c>>, or <<h, l>> if it was given by its digits. *)
(***************************************************************************)
EXTENDS Integers, SequencesExt, FiniteSetsExt

CONSTANTS
  Requests,   \* sequences of values
  Results,    \* what scanning a value may return; 0 is no match
  Capacity    \* of the buffer a form component is decoded into: 131072

Collections == {"QUERY_STRING", "REQUEST_HEADERS", "ARGS", "ARGS_NAMES",
                "REQUEST_COOKIES", "REQUEST_COOKIES_NAMES"}

ArgumentAssumption ==
  /\ 0 \in Results /\ Results \subseteq Int
  /\ Capacity \in Nat \ {0}
  /\ \A q \in Requests : Len(q) \in Nat /\ DOMAIN q = 1 .. Len(q)
  /\ \A q \in Requests : \A v \in DOMAIN q :
       /\ q[v].kind \in {"query", "form", "cookie", "other"}
       /\ q[v].text \in Seq(STRING)
       /\ q[v].parts \in Seq(Collections \X Seq(Seq(STRING)) \X Nat)

Hex    == {"0", "4", "f"}
Blanks == {" ", "tab"}

VARIABLES
  request,
  vi,       \* value being cut
  start,    \* first character of the component being cut, 0 before the first
  threat,
  pc,
  log       \* history: every scan, as
            \* [what, value, from, to, decoded, result]

argVars == <<request, vi, start, threat, pc, log>>

val  == request[vi]
text == val.text

-----------------------------------------------------------------------------
(* Cutting and decoding *)

\* The first c in from .. to, or to + 1.
Find(c, from, to) ==
  LET k == SelectInSubSeq(text, from, to, LAMBDA d : d = c) IN IF k = 0 THEN to + 1 ELSE k

\* The first and the last character of from .. to that is not blank, if any.
TrimLeft(from, to) ==
  LET k == SelectInSubSeq(text, from, to, LAMBDA d : d \notin Blanks) IN
    IF k = 0 THEN to + 1 ELSE k
TrimRight(from, to) ==
  LET k == SelectLastInSubSeq(text, from, to, LAMBDA d : d \notin Blanks) IN
    IF k = 0 THEN from - 1 ELSE k

\* Mutant: an escape at the very end is not decoded.
EscapedShort(s, i) == s[i] = "%" /\ i + 2 < Len(s) /\ {s[i + 1], s[i + 2]} \subseteq Hex

Escaped(s, i) == s[i] = "%" /\ i + 2 <= Len(s) /\ {s[i + 1], s[i + 2]} \subseteq Hex

\* lumina_decode_form_component
Decode(s) ==
  LET from[i \in 1 .. Len(s) + 1] ==
        IF i > Len(s) THEN << >>
        ELSE IF s[i] = "+" THEN << << " " >> >> \o from[i + 1]
        ELSE IF Escaped(s, i) THEN << << s[i + 1], s[i + 2] >> >> \o from[i + 3]
        ELSE << << s[i] >> >> \o from[i + 1]
  IN from[1]

AsIs(s) == [k \in DOMAIN s |-> << s[k] >>]

\* Arguments are decoded, cookies are not.
IsDecoded(what) == what \in {"ARGS", "ARGS_NAMES"}

\* Mutant: a component that does not fit is cut.
CutToFit(what, from, to) ==
  LET last == IF IsDecoded(what) /\ to - from + 1 > Capacity THEN from + Capacity - 1 ELSE to
      raw  == SubSeq(text, from, last)
  IN IF from > last THEN << >>
     ELSE << [what |-> what, value |-> vi, from |-> from, to |-> last,
              decoded |-> IF IsDecoded(what) THEN Decode(raw) ELSE AsIs(raw)] >>

\* What from .. to of the text gives to scan as a member of a collection: nothing
\* if it is empty, or if it is to be decoded and does not fit the buffer.
Cut(what, from, to) ==
  LET raw == SubSeq(text, from, to) IN
    IF from > to \/ (IsDecoded(what) /\ Len(raw) > Capacity) THEN << >>
    ELSE << [what |-> what, value |-> vi, from |-> from, to |-> to,
             decoded |-> IF IsDecoded(what) THEN Decode(raw) ELSE AsIs(raw)] >>

\* The last match is kept.
Scan(cuts) ==
  \E scans \in {cuts} : \E results \in [DOMAIN scans -> Results] :
    LET hits == {k \in DOMAIN scans : results[k] # 0} IN
      /\ threat' = IF hits = {} THEN threat ELSE results[Max(hits)]
      /\ log' = log \o [k \in DOMAIN scans |-> [scan |-> scans[k], result |-> results[k]]]

-----------------------------------------------------------------------------
(* Steps *)

Init ==
  /\ request \in Requests
  /\ vi = 1 /\ start = 0 /\ threat = 0
  /\ pc = "cut" /\ log = << >>

AtValue(kinds) == pc = "cut" /\ vi <= Len(request) /\ val.kind \in kinds

SkipValue ==
  /\ AtValue({"query", "form", "cookie", "other"})
  /\ val.kind = "other" \/ text = << >>
  /\ vi' = vi + 1
  /\ UNCHANGED <<request, start, threat, pc, log>>

\* A query string and a cookie header are also scanned as they are.
Whole ==
  /\ AtValue({"query", "form", "cookie"}) /\ text # << >>
  /\ start = 0
  /\ Scan(CASE val.kind = "query"  -> Cut("QUERY_STRING", 1, Len(text))
            [] val.kind = "cookie" -> Cut("REQUEST_HEADERS", 1, Len(text))
            [] OTHER -> << >>)
  /\ start' = 1
  /\ UNCHANGED <<request, vi, pc>>

\* Mutant: an empty component ends the value.
ContinueUntilEmpty(sep) ==
  /\ start' = IF sep > Len(text) \/ sep = start THEN 0 ELSE sep + 1
  /\ vi'    = IF sep > Len(text) \/ sep = start THEN vi + 1 ELSE vi
  /\ UNCHANGED <<request, pc>>

\* The next component begins after the separator; at the end of the text, the
\* next value does.
Continue(sep) ==
  /\ start' = IF sep > Len(text) THEN 0 ELSE sep + 1
  /\ vi'    = IF sep > Len(text) THEN vi + 1 ELSE vi
  /\ UNCHANGED <<request, pc>>

\* Mutant: the value of a pair begins after its last equals sign.
PairAtLastEqual ==
  /\ AtValue({"query", "form"}) /\ start > 0
  /\ \E sep \in {Find("&", start, Len(text))} :
       \E equal \in {Find("=", start, sep - 1)} :
       \E last \in {Max({k \in start .. sep - 1 : text[k] = "="} \cup {equal})} :
         /\ Scan(Cut("ARGS_NAMES", start, equal - 1)
                 \o Cut("ARGS", last + 1, sep - 1))
         /\ Continue(sep)

\* key=value of a query or a form; without a = all of it is the name.
Pair ==
  /\ AtValue({"query", "form"}) /\ start > 0
  /\ \E sep \in {Find("&", start, Len(text))} :
       \E equal \in {Find("=", start, sep - 1)} :
         /\ Scan(Cut("ARGS_NAMES", start, equal - 1)
                 \o Cut("ARGS", equal + 1, sep - 1))
         /\ Continue(sep)

\* name=value of a cookie, without the blanks around; without a = all of it is
\* the value.
Crumb ==
  /\ AtValue({"cookie"}) /\ start > 0
  /\ \E sep \in {Find(";", start, Len(text))} :
       \E first \in {TrimLeft(start, sep - 1)} :
       \E last \in {TrimRight(first, sep - 1)} :
       \E equal \in {Find("=", first, last)} :
         /\ Scan(IF equal > last THEN Cut("REQUEST_COOKIES", first, last)
                 ELSE Cut("REQUEST_COOKIES_NAMES", first, TrimRight(first, equal - 1))
                        \o Cut("REQUEST_COOKIES", TrimLeft(equal + 1, last), last))
         /\ Continue(sep)

Return ==
  /\ pc = "cut" /\ vi > Len(request)
  /\ pc' = "done"
  /\ UNCHANGED <<request, vi, start, threat, log>>

Finished == pc = "done" /\ UNCHANGED argVars

Step == SkipValue \/ Whole \/ Pair \/ Crumb \/ Return

Next == Step \/ Finished

Spec == Init /\ [][Next]_argVars

-----------------------------------------------------------------------------
(* Properties *)

ArgumentTypeOK ==
  /\ vi \in 1 .. Len(request) + 1
  /\ start # 0 => vi <= Len(request) /\ start <= Len(text) + 1
  /\ threat \in Results
  /\ pc \in {"cut", "done"}
  /\ \A k \in DOMAIN log : log[k].scan.what \in Collections /\ log[k].result \in Results

\* The parts of value v that are to be scanned.
Expected(v) ==
  LET whole(what) == << <<what, AsIs(request[v].text)>> >>
      fits(p) == p[3] > 0 /\ (IsDecoded(p[1]) => p[3] <= Capacity)
      parts == SelectSeq(request[v].parts, fits)
  IN (CASE request[v].kind = "query"  -> whole("QUERY_STRING")
        [] request[v].kind = "cookie" -> whole("REQUEST_HEADERS")
        [] OTHER -> << >>)
     \o [k \in DOMAIN parts |-> << parts[k][1], parts[k][2] >>]

\* Names and values that were written into a query, a form or a cookie are scanned
\* as they were meant, decoded once, in order; only an empty one, or one too long
\* for the buffer, is not.
PartsAreScanned ==
  \A v \in DOMAIN request :
    request[v].built =>
      LET mine == SelectSeq(log, LAMBDA l : l.scan.value = v)
          made == [k \in DOMAIN mine |-> << mine[k].scan.what, mine[k].scan.decoded >>]
      IN /\ IsPrefix(made, Expected(v))
         /\ vi > v => made = Expected(v)

\* Where one component of a value ends and the next begins.
Separator(v) == IF v.kind = "cookie" THEN ";" ELSE "&"

\* Characters j and k belong to one component.
Together(v, j, k) == \A n \in (j .. k) \cup (k .. j) : v.text[n] # Separator(v)

\* The equals sign between a name and its value.
IsFirstEqual(v, k) ==
  /\ v.text[k] = "="
  /\ \A j \in 1 .. k - 1 : Together(v, j, k) => v.text[j] # "="

TooLong(v, k) ==
  /\ v.kind # "cookie"
  /\ \E a, b \in DOMAIN v.text : k \in a .. b /\ Together(v, a, b) /\ (b - a) + 1 > Capacity

\* Character k of a value separates or surrounds the names and values, or its
\* component is too long.
IsLeftOut(v, k) ==
  \/ v.text[k] = Separator(v)
  \/ IsFirstEqual(v, k)
  \/ v.kind = "cookie" /\ v.text[k] \in Blanks
  \/ TooLong(v, k)

\* The names and values scanned that hold character k of value n.
PartsWith(n, k) ==
  {s \in {log[j].scan : j \in DOMAIN log} :
     /\ s.value = n /\ s.what \notin {"QUERY_STRING", "REQUEST_HEADERS"}
     /\ k \in s.from .. s.to}

\* Of any text that was cut, each character was scanned as part of one name or value,
\* but for separators, first equals signs, the blanks of a cookie, and components
\* that are too long for the decoding buffer (IsLeftOut).
NothingIsDropped ==
  \A n \in DOMAIN request :
    vi > n /\ request[n].kind # "other" =>
      \A k \in DOMAIN request[n].text :
        IsLeftOut(request[n], k) \/ \E s \in PartsWith(n, k) : PartsWith(n, k) = {s}

=============================================================================
