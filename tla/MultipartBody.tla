----------------------------- MODULE MultipartBody -----------------------------
(***************************************************************************)
(* lumina_scan_multipart_file_collections (src/src/luminawaf.cpp): one     *)
(* pass over the lines of a multipart body that cuts out the file names,   *)
(* the field names and the parts that hold XML, and has each scanned.      *)
(*                                                                         *)
(* A body is the sequence of its lines.  A line is a record                *)
(*   kind   "open" or "close" boundary, "blank", "field"                   *)
(*          (Content-Disposition), "type" (Content-Type), "text"           *)
(*   name, filename   what a field line says: "none", "empty", "text",     *)
(*          "xml" (a name that ends like an XML file) or "long" (escaped   *)
(*          and too long for the scratch buffer)                           *)
(*   xml    of a type line: an XML type; of a text line: starts with <?xml *)
(* Where a line stands decides what it means: in the content of a part a   *)
(* field or a blank line is content.                                       *)
(* Abstracted: a file name too long for the buffer does not end like that  *)
(* of an XML file, and the first <?xml stands within the 256 bytes that     *)
(* lumina_is_xml_part looks at.                                             *)
(***************************************************************************)
EXTENDS Integers, SequencesExt, FiniteSetsExt

CONSTANTS
  Requests,   \* records: has a boundary; the values, of which those that are
              \* not bodies are << >>
  Results     \* what scanning a value may return; 0 is no match

Kinds  == {"open", "close", "blank", "field", "type", "text"}
Params == {"none", "empty", "text", "xml", "long"}
Line   == [kind : Kinds, name : Params, filename : Params, xml : BOOLEAN]

MultipartAssumption ==
  /\ 0 \in Results /\ Results \subseteq Int
  /\ \A q \in Requests : q.boundary \in BOOLEAN /\ q.values \in Seq(Seq(Line))

VARIABLES
  request,
  vi,          \* value being read
  pos,         \* line being read
  inHeaders,
  partStart,   \* first line of the part's content, 0 outside
  fields,      \* current_name, current_filename
  xmlType,     \* current_content_type is an XML type
  threat,
  pc,
  log          \* history: every scan and what it returned

part == <<inHeaders, partStart, fields, xmlType>>
bodyVars == <<request, vi, pos, part, threat, pc, log>>

NoFields == [name |-> "none", filename |-> "none"]
lines == request.values[vi]
line  == lines[pos]

-----------------------------------------------------------------------------
(* The state of a part *)

\* Mutant: the names of the part before are kept.
BeginPartKeepNames(headers) ==
  /\ inHeaders' = headers
  /\ partStart' = 0
  /\ xmlType' = FALSE
  /\ UNCHANGED fields

BeginPart(headers) ==
  /\ inHeaders' = headers
  /\ partStart' = 0
  /\ fields' = NoFields
  /\ xmlType' = FALSE

\* lumina_is_xml_part: by type, by file name, or by the first line that is not
\* blank.
Sniff(content) ==
  \E k \in DOMAIN content :
    /\ content[k].kind = "text" /\ content[k].xml
    /\ \A j \in 1 .. k - 1 : content[j].kind = "blank"

IsXmlPart(typed, filename, content) == typed \/ filename = "xml" \/ Sniff(content)

\* A present name that is not empty and fits the scratch buffer is scanned.
Scanned(p) == p \in {"text", "xml"}

Matches(results) == {k \in DOMAIN results : results[k] # 0}

\* Mutant: the last match is kept.
KeepLast(t, results) ==
  IF Matches(results) = {} THEN t ELSE results[Max(Matches(results))]

\* The first match is kept.
Keep(t, results) ==
  IF t # 0 \/ Matches(results) = {} THEN t ELSE results[Min(Matches(results))]

\* What is scanned at line pos: a name, or the content from partStart on.
NameScan(what, p) ==
  [what |-> what, value |-> vi, at |-> pos, from |-> 0, name |-> fields[p]]
ContentScan(what) ==
  [what |-> what, value |-> vi, at |-> pos, from |-> partStart, name |-> "none"]

\* An empty content is scanned without effect.
Scan(scans) ==
  \E results \in [DOMAIN scans -> Results] :
    /\ threat' = Keep(threat, results)
    /\ log' = log \o [k \in DOMAIN scans |-> [scan |-> scans[k], result |-> results[k]]]

-----------------------------------------------------------------------------
(* Steps *)

Init ==
  /\ request \in Requests
  /\ vi = 1 /\ pos = 1
  /\ inHeaders = FALSE /\ partStart = 0 /\ fields = NoFields /\ xmlType = FALSE
  /\ threat = 0 /\ log = << >>
  /\ pc = IF request.boundary THEN "lines" ELSE "done"

AtLine(kinds) ==
  /\ pc = "lines"
  /\ vi <= Len(request.values)
  /\ pos <= Len(lines)
  /\ line.kind \in kinds

Onward == pos' = pos + 1 /\ UNCHANGED <<request, vi, pc>>

\* Mutant: only a closing boundary ends the content of a part.
BoundaryOnlyClosing ==
  /\ AtLine({"open", "close"})
  /\ LET content == SubSeq(lines, partStart, pos - 1) IN
       IF line.kind = "close" /\ partStart > 0 /\ IsXmlPart(xmlType, fields.filename, content)
         THEN Scan(<< ContentScan("container"), ContentScan("xml") >>)
         ELSE UNCHANGED <<threat, log>>
  /\ BeginPart(line.kind = "open")
  /\ Onward

\* A boundary ends the content of the part before and begins another.
Boundary ==
  /\ AtLine({"open", "close"})
  /\ LET content == SubSeq(lines, partStart, pos - 1) IN
       IF partStart > 0 /\ IsXmlPart(xmlType, fields.filename, content)
         THEN Scan(<< ContentScan("container"), ContentScan("xml") >>)
         ELSE UNCHANGED <<threat, log>>
  /\ BeginPart(line.kind = "open")
  /\ Onward

\* The blank line after the headers: the names collected are scanned.
EndHeaders ==
  /\ AtLine({"blank"}) /\ inHeaders
  /\ inHeaders' = FALSE
  /\ partStart' = pos + 1
  /\ Scan((IF Scanned(fields.filename) THEN << NameScan("FILES", "filename") >> ELSE << >>)
          \o (IF Scanned(fields.name) THEN << NameScan("FILES_NAMES", "name") >> ELSE << >>))
  /\ Onward
  /\ UNCHANGED <<fields, xmlType>>

\* A parameter that a line does not have leaves what an earlier line said.
FieldHeader ==
  /\ AtLine({"field"}) /\ inHeaders
  /\ fields' = [p \in {"name", "filename"} |-> IF line[p] = "none" THEN fields[p] ELSE line[p]]
  /\ Onward
  /\ UNCHANGED <<inHeaders, partStart, xmlType, threat, log>>

TypeHeader ==
  /\ AtLine({"type"}) /\ inHeaders
  /\ xmlType' = line.xml
  /\ Onward
  /\ UNCHANGED <<inHeaders, partStart, fields, threat, log>>

\* Content, other headers, and what stands outside the parts.
OtherLine ==
  /\ AtLine(Kinds \ {"open", "close"})
  /\ inHeaders => line.kind = "text"
  /\ Onward
  /\ UNCHANGED <<part, threat, log>>

\* The next value: what the last part of this one collected is dropped.
NextValue ==
  /\ pc = "lines"
  /\ vi <= Len(request.values)
  /\ pos > Len(lines)
  /\ vi' = vi + 1 /\ pos' = 1
  /\ BeginPart(FALSE)
  /\ UNCHANGED <<request, threat, pc, log>>

Return ==
  /\ pc = "lines"
  /\ vi > Len(request.values)
  /\ pc' = "done"
  /\ UNCHANGED <<request, vi, pos, part, threat, log>>

Finished == pc = "done" /\ UNCHANGED bodyVars

Step ==
  \/ Boundary \/ EndHeaders \/ FieldHeader \/ TypeHeader \/ OtherLine
  \/ NextValue \/ Return

Next == Step \/ Finished

Spec == Init /\ [][Next]_bodyVars

-----------------------------------------------------------------------------
(* What the parts of a body are, without a scan over its lines *)

IsBoundary(l) == l.kind \in {"open", "close"}

\* Line b ends the headers of the part that line o opens.
HeadersEnd(s, o, b) ==
  /\ s[o].kind = "open" /\ o < b /\ s[b].kind = "blank"
  /\ \A j \in o + 1 .. b - 1 : ~IsBoundary(s[j]) /\ s[j].kind # "blank"

\* Line c ends the content that follows line b.
ContentEnds(s, b, c) ==
  b < c /\ IsBoundary(s[c]) /\ \A j \in b + 1 .. c - 1 : ~IsBoundary(s[j])

\* The last of the headers between o and b that gives parameter p says x.
Says(s, o, b, p, x) ==
  \E j \in o + 1 .. b - 1 :
    /\ s[j].kind = "field" /\ s[j][p] = x
    /\ \A k \in j + 1 .. b - 1 : s[k].kind = "field" => s[k][p] = "none"

\* The last of their types is that of XML.
IsTyped(s, o, b) ==
  \E j \in o + 1 .. b - 1 :
    /\ s[j].kind = "type" /\ s[j].xml
    /\ \A k \in j + 1 .. b - 1 : s[k].kind # "type"

\* The content after b begins, but for blank lines, with <?xml.
IsMarked(s, b, c) ==
  \E j \in b + 1 .. c - 1 :
    /\ s[j].kind = "text" /\ s[j].xml
    /\ \A k \in b + 1 .. j - 1 : s[k].kind = "blank"

NamesOf(v) ==
  LET s == request.values[v] IN
    {d \in [what : {"FILES", "FILES_NAMES"}, value : {v}, at : DOMAIN s, from : {0},
            name : {"text", "xml"}] :
       \E o \in DOMAIN s :
         /\ HeadersEnd(s, o, d.at)
         /\ Says(s, o, d.at, IF d.what = "FILES" THEN "filename" ELSE "name", d.name)}

ContentsOf(v) ==
  LET s == request.values[v] IN
    {d \in [what : {"container", "xml"}, value : {v}, at : DOMAIN s, from : DOMAIN s,
            name : {"none"}] :
       LET b == d.from - 1 IN
         \E o \in DOMAIN s :
           /\ HeadersEnd(s, o, b) /\ ContentEnds(s, b, d.at)
           /\ \/ IsTyped(s, o, b) \/ Says(s, o, b, "filename", "xml")
              \/ IsMarked(s, b, d.at)}

\* All that is to be scanned of the request.
AllScans ==
  IF ~request.boundary THEN {}
  ELSE UNION {NamesOf(v) \cup ContentsOf(v) : v \in DOMAIN request.values}

\* Whether the pass has come by the place of a scan.
Passed(d) == pc = "done" \/ d.value < vi \/ (d.value = vi /\ d.at < pos)

\* The order of two scans: by place, and at one place the file name before the
\* field name and the container before its XML.
Precedes(d, e) ==
  \/ d.value < e.value
  \/ d.value = e.value /\ d.at < e.at
  \/ /\ d.value = e.value /\ d.at = e.at
     /\ <<d.what, e.what>> \in {<<"FILES", "FILES_NAMES">>, <<"container", "xml">>}

-----------------------------------------------------------------------------
(* Properties *)

MultipartTypeOK ==
  /\ vi \in 1 .. Len(request.values) + 1
  /\ pos \in Nat \ {0}
  /\ inHeaders \in BOOLEAN /\ xmlType \in BOOLEAN
  /\ partStart \in 0 .. pos
  /\ ~(inHeaders /\ partStart > 0)
  /\ fields \in [{"name", "filename"} -> Params]
  /\ threat \in Results
  /\ pc \in {"lines", "done"}

\* The pass scans exactly what the parts consist of, each part by its own
\* headers and content, once and in order: names of every part with complete
\* headers, and the XML of every part that a boundary ends.  Nothing is taken over
\* from another part or another value, and no content is mistaken for a header.
ScansItsParts ==
  /\ {log[k].scan : k \in DOMAIN log} = {d \in AllScans : Passed(d)}
  /\ \A j, k \in DOMAIN log : j < k => Precedes(log[j].scan, log[k].scan)

\* The match that is returned is the first one, so a later scan without a match,
\* or one that reports the parser's limit, never hides it.
FirstMatchIsReturned ==
  LET none == \A k \in DOMAIN log : log[k].result = 0 IN
    IF none THEN threat = 0
    ELSE \E k \in DOMAIN log :
           /\ threat = log[k].result /\ threat # 0
           /\ \A j \in 1 .. k - 1 : log[j].result = 0
=============================================================================
