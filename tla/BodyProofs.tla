------------------------------ MODULE BodyProofs -------------------------------
(***************************************************************************)
(* What the passes over a request's body keep, whatever the body is.       *)
(***************************************************************************)
EXTENDS MCRequestBodies, Sequences, SequenceTheorems, WellFoundedInduction, TLAPS

-----------------------------------------------------------------------------
(* Multipart bodies                                                         *)

MLine == Multipart!Line
IsLines(s) == s \in Seq(MLine)

\* What the headers between o and n said is what the pass has collected.
Collected(s, o, n) ==
  /\ \A p \in {"name", "filename"}, x \in Multipart!Params \ {"none"} :
       fields[p] = x <=> Multipart!Says(s, o, n, p, x)
  /\ xmlType <=> Multipart!IsTyped(s, o, n)

NoBoundary(s, a, b) == \A j \in a .. b : ~Multipart!IsBoundary(s[j])

\* Where the pass is: in the headers of the part that o opens, in the content
\* that follows its headers, or in no part at all.
InHeaders(s) ==
  inHeaders =>
    \E o \in 1 .. pos - 1 :
      /\ s[o].kind = "open" /\ NoBoundary(s, o + 1, pos - 1)
      /\ \A j \in o + 1 .. pos - 1 : s[j].kind # "blank"
      /\ Collected(s, o, pos)
InContent(s) ==
  partStart > 0 =>
    \E o \in 1 .. partStart - 2 :
      /\ Multipart!HeadersEnd(s, o, partStart - 1) /\ NoBoundary(s, partStart, pos - 1)
      /\ Collected(s, o, partStart - 1)
Outside(s) ==
  ~inHeaders /\ partStart = 0 =>
    \A o \in 1 .. pos - 1 :
      s[o].kind = "open" => \E c \in o + 1 .. pos - 1 : Multipart!IsBoundary(s[c])

Place ==
  pc = "lines" /\ vi <= Len(request.values) =>
    /\ pos <= Len(Multipart!lines) + 1
    /\ InHeaders(Multipart!lines) /\ InContent(Multipart!lines) /\ Outside(Multipart!lines)

Whats == {"FILES", "FILES_NAMES", "container", "xml"}
ScanRecord == [what : Whats, value : Nat, at : Nat, from : Nat, name : Multipart!Params]
Entry == [scan : ScanRecord, result : Results \cup {-1}]

MultipartInv ==
  /\ request \in MultipartRequests /\ log \in Seq(Entry)
  /\ pc = "done" => ~request.boundary \/ vi > Len(request.values)
  /\ pc = "lines" => request.boundary
  /\ Multipart!MultipartTypeOK /\ Place
  /\ Multipart!ScansItsParts /\ Multipart!FirstMatchIsReturned

-----------------------------------------------------------------------------
(* One more line of headers *)

LEMMA SaysNext ==
  ASSUME NEW s, NEW o \in Nat, NEW n \in Nat, o < n,
         NEW p, NEW x, x # "none"
  PROVE  Multipart!Says(s, o, n + 1, p, x)
           <=> IF s[n].kind = "field" /\ s[n][p] # "none" THEN s[n][p] = x
               ELSE Multipart!Says(s, o, n, p, x)
<1>1. ASSUME Multipart!Says(s, o, n + 1, p, x)
      PROVE  IF s[n].kind = "field" /\ s[n][p] # "none" THEN s[n][p] = x
             ELSE Multipart!Says(s, o, n, p, x)
  <2>1. PICK j \in o + 1 .. n :
          /\ s[j].kind = "field" /\ s[j][p] = x
          /\ \A k \in j + 1 .. n : s[k].kind = "field" => s[k][p] = "none"
    BY <1>1 DEF Multipart!Says
  <2>2. CASE j = n
    BY <2>1, <2>2
  <2>3. CASE j # n
    <3>1. j \in o + 1 .. n - 1 /\ n \in j + 1 .. n
      BY <2>3
    <3>2. \A k \in j + 1 .. n - 1 : k \in j + 1 .. n
      OBVIOUS
    <3> QED
      BY <2>1, <3>1, <3>2 DEF Multipart!Says
  <2> QED
    BY <2>2, <2>3
<1>2. ASSUME s[n].kind = "field", s[n][p] = x
      PROVE  Multipart!Says(s, o, n + 1, p, x)
  BY <1>2 DEF Multipart!Says
<1>3. ASSUME ~(s[n].kind = "field" /\ s[n][p] # "none"), Multipart!Says(s, o, n, p, x)
      PROVE  Multipart!Says(s, o, n + 1, p, x)
  <2>1. PICK j \in o + 1 .. n - 1 :
          /\ s[j].kind = "field" /\ s[j][p] = x
          /\ \A k \in j + 1 .. n - 1 : s[k].kind = "field" => s[k][p] = "none"
    BY <1>3 DEF Multipart!Says
  <2>2. \A k \in j + 1 .. n : k \in j + 1 .. n - 1 \/ k = n
    OBVIOUS
  <2>3. j \in o + 1 .. (n + 1) - 1 /\ (n + 1) - 1 = n
    OBVIOUS
  <2> QED
    BY <2>1, <2>2, <2>3, <1>3 DEF Multipart!Says
<1> QED
  BY <1>1, <1>2, <1>3

LEMMA TypedNext ==
  ASSUME NEW s, NEW o \in Nat, NEW n \in Nat, o < n
  PROVE  Multipart!IsTyped(s, o, n + 1)
           <=> IF s[n].kind = "type" THEN s[n].xml ELSE Multipart!IsTyped(s, o, n)
<1>1. ASSUME Multipart!IsTyped(s, o, n + 1)
      PROVE  IF s[n].kind = "type" THEN s[n].xml ELSE Multipart!IsTyped(s, o, n)
  <2>1. PICK j \in o + 1 .. n :
          /\ s[j].kind = "type" /\ s[j].xml
          /\ \A k \in j + 1 .. n : s[k].kind # "type"
    BY <1>1 DEF Multipart!IsTyped
  <2>2. CASE j = n
    BY <2>1, <2>2
  <2>3. CASE j # n
    <3>1. j \in o + 1 .. n - 1 /\ n \in j + 1 .. n
      BY <2>3
    <3>2. \A k \in j + 1 .. n - 1 : k \in j + 1 .. n
      OBVIOUS
    <3> QED
      BY <2>1, <3>1, <3>2 DEF Multipart!IsTyped
  <2> QED
    BY <2>2, <2>3
<1>2. ASSUME s[n].kind = "type", s[n].xml
      PROVE  Multipart!IsTyped(s, o, n + 1)
  BY <1>2 DEF Multipart!IsTyped
<1>3. ASSUME s[n].kind # "type", Multipart!IsTyped(s, o, n)
      PROVE  Multipart!IsTyped(s, o, n + 1)
  <2>1. PICK j \in o + 1 .. n - 1 :
          /\ s[j].kind = "type" /\ s[j].xml
          /\ \A k \in j + 1 .. n - 1 : s[k].kind # "type"
    BY <1>3 DEF Multipart!IsTyped
  <2>2. \A k \in j + 1 .. n : k \in j + 1 .. n - 1 \/ k = n
    OBVIOUS
  <2>3. j \in o + 1 .. (n + 1) - 1 /\ (n + 1) - 1 = n
    OBVIOUS
  <2> QED
    BY <2>1, <2>2, <2>3, <1>3 DEF Multipart!IsTyped
<1> QED
  BY <1>1, <1>2, <1>3

\* Nothing is said between a line and the next.
LEMMA NothingSaidYet ==
  ASSUME NEW s, NEW o \in Nat
  PROVE  /\ \A p, x : ~Multipart!Says(s, o, o + 1, p, x)
         /\ ~Multipart!IsTyped(s, o, o + 1)
BY DEF Multipart!Says, Multipart!IsTyped
-----------------------------------------------------------------------------
(* What is to be scanned at the line the pass has come to                   *)

\* A line belongs to the last part that was opened before it, and to no other.
LEMMA OneOpening ==
  ASSUME NEW s, NEW n \in Nat, NEW o \in 1 .. n - 1, NEW p \in 1 .. n - 1,
         s[o].kind = "open", s[p].kind = "open",
         NoBoundary(s, o + 1, n - 1), NoBoundary(s, p + 1, n - 1)
  PROVE  o = p
<1>1. \A j \in o + 1 .. n - 1 : s[j].kind # "open"
  BY DEF NoBoundary, Multipart!IsBoundary
<1>2. \A j \in p + 1 .. n - 1 : s[j].kind # "open"
  BY DEF NoBoundary, Multipart!IsBoundary
<1> QED
  BY <1>1, <1>2

\* From the opening to the end of the headers there is no boundary, nor on from there.
LEMMA OpenTo ==
  ASSUME NEW s, NEW n \in Nat, NEW o \in Nat, NEW b \in Nat,
         Multipart!HeadersEnd(s, o, b), NoBoundary(s, b + 1, n - 1)
  PROVE  NoBoundary(s, o + 1, n - 1)
<1>1. \A j \in o + 1 .. n - 1 : j \in o + 1 .. b - 1 \/ j = b \/ j \in b + 1 .. n - 1
  OBVIOUS
<1>2. ~Multipart!IsBoundary(s[b])
  BY DEF Multipart!HeadersEnd, Multipart!IsBoundary
<1> QED
  BY <1>1, <1>2 DEF NoBoundary, Multipart!HeadersEnd

NamesAt(v, n)    == {d \in Multipart!NamesOf(v) : d.at = n}
ContentsAt(v, n) == {d \in Multipart!ContentsOf(v) : d.at = n}

Param(what) == IF what = "FILES" THEN "filename" ELSE "name"

LEMMA NameIsDue ==
  ASSUME NEW v, NEW n, NEW d
  PROVE  d \in NamesAt(v, n) <=>
           /\ d \in [what : {"FILES", "FILES_NAMES"}, value : {v}, at : {n}, from : {0},
                     name : {"text", "xml"}]
           /\ n \in DOMAIN request.values[v]
           /\ \E o \in DOMAIN request.values[v] :
                /\ Multipart!HeadersEnd(request.values[v], o, n)
                /\ Multipart!Says(request.values[v], o, n, Param(d.what), d.name)
BY DEF NamesAt, Multipart!NamesOf, Param

XmlContent(s, o, b, n) ==
  \/ Multipart!IsTyped(s, o, b) \/ Multipart!Says(s, o, b, "filename", "xml")
  \/ Multipart!IsMarked(s, b, n)

LEMMA ContentIsDue ==
  ASSUME NEW v, NEW n, NEW d
  PROVE  d \in ContentsAt(v, n) <=>
           /\ d \in [what : {"container", "xml"}, value : {v}, at : {n},
                     from : DOMAIN request.values[v], name : {"none"}]
           /\ n \in DOMAIN request.values[v]
           /\ \E o \in DOMAIN request.values[v] :
                /\ Multipart!HeadersEnd(request.values[v], o, d.from - 1)
                /\ Multipart!ContentEnds(request.values[v], d.from - 1, n)
                /\ XmlContent(request.values[v], o, d.from - 1, n)
BY DEF ContentsAt, Multipart!ContentsOf, XmlContent

\* The first line of a content that is not blank, in the content and in the body.
LEMMA SniffedIsMarked ==
  ASSUME NEW s \in Seq(MLine), NEW b \in Nat, NEW n \in 1 .. Len(s), b < n
  PROVE  Multipart!Sniff(SubSeq(s, b + 1, n - 1)) <=> Multipart!IsMarked(s, b, n)
<1> DEFINE c == SubSeq(s, b + 1, n - 1)
<1>1. DOMAIN c = 1 .. n - 1 - b /\ \A k \in 1 .. n - 1 - b : c[k] = s[b + k]
  BY SubSeqProperties
<1> HIDE DEF c
<1>2. ASSUME Multipart!Sniff(c) PROVE Multipart!IsMarked(s, b, n)
  <2>1. PICK k \in 1 .. n - 1 - b :
          /\ c[k].kind = "text" /\ c[k].xml
          /\ \A j \in 1 .. k - 1 : c[j].kind = "blank"
    BY <1>1, <1>2 DEF Multipart!Sniff
  <2>2. b + k \in b + 1 .. n - 1 /\ s[b + k] = c[k]
    BY <1>1
  <2>3. ASSUME NEW j \in b + 1 .. (b + k) - 1 PROVE s[j].kind = "blank"
    <3>1. j - b \in 1 .. k - 1 /\ b + (j - b) = j
      OBVIOUS
    <3>2. j - b \in 1 .. n - 1 - b
      BY <3>1
    <3>3. s[b + (j - b)] = c[j - b]
      BY <1>1, <3>2
    <3> QED
      BY <2>1, <3>1, <3>3
  <2> QED
    BY <2>1, <2>2, <2>3 DEF Multipart!IsMarked
<1>3. ASSUME Multipart!IsMarked(s, b, n) PROVE Multipart!Sniff(c)
  <2>1. PICK j \in b + 1 .. n - 1 :
          /\ s[j].kind = "text" /\ s[j].xml
          /\ \A k \in b + 1 .. j - 1 : s[k].kind = "blank"
    BY <1>3 DEF Multipart!IsMarked
  <2>2. j - b \in 1 .. n - 1 - b /\ b + (j - b) = j
    OBVIOUS
  <2>3. c[j - b] = s[j]
    BY <1>1, <2>2
  <2>4. ASSUME NEW k \in 1 .. (j - b) - 1 PROVE c[k].kind = "blank"
    <3>1. b + k \in b + 1 .. j - 1 /\ k \in 1 .. n - 1 - b
      OBVIOUS
    <3> QED
      BY <1>1, <2>1, <3>1
  <2> QED
    BY <1>1, <2>1, <2>2, <2>3, <2>4 DEF Multipart!Sniff
<1> QED
  BY <1>2, <1>3 DEF c

AtSomeLine ==
  /\ MultipartInv /\ pc = "lines"
  /\ vi <= Len(request.values) /\ pos <= Len(Multipart!lines)

LEMMA LinesOfRequest ==
  ASSUME AtSomeLine
  PROVE  /\ Multipart!lines \in Seq(MLine) /\ Multipart!lines = request.values[vi]
         /\ vi \in DOMAIN request.values /\ vi \in Nat
         /\ pos \in 1 .. Len(Multipart!lines) /\ pos \in DOMAIN Multipart!lines
         /\ Multipart!line \in MLine /\ Multipart!line = Multipart!lines[pos]
         /\ request.boundary /\ request.values \in Seq(Seq(MLine))
<1>1. request.values \in Seq(Seq(MLine)) /\ request.boundary
  BY MultipartConstants DEF AtSomeLine, MultipartInv, Multipart!MultipartAssumption, MLine
<1>2. vi \in 1 .. Len(request.values) /\ pos \in Nat \ {0}
  BY <1>1 DEF AtSomeLine, MultipartInv, Multipart!MultipartTypeOK
<1>3. vi \in DOMAIN request.values /\ request.values[vi] \in Seq(MLine)
  BY <1>1, <1>2
<1>4. Multipart!lines = request.values[vi] /\ Multipart!line = Multipart!lines[pos]
  BY DEF Multipart!lines, Multipart!line
<1>5. pos \in 1 .. Len(Multipart!lines)
  BY <1>2, <1>3, <1>4 DEF AtSomeLine
<1> QED
  BY <1>1, <1>2, <1>3, <1>4, <1>5

LEMMA NamesHere ==
  ASSUME AtSomeLine, Multipart!line.kind = "blank", inHeaders
  PROVE  NamesAt(vi, pos) =
           {d \in {Multipart!NameScan("FILES", "filename"),
                   Multipart!NameScan("FILES_NAMES", "name")} : Multipart!Scanned(d.name)}
<1> DEFINE s == Multipart!lines
<1>0. /\ s \in Seq(MLine) /\ s = request.values[vi] /\ pos \in 1 .. Len(s)
      /\ pos \in DOMAIN s /\ s[pos].kind = "blank"
  BY LinesOfRequest
<1>1. PICK o \in 1 .. pos - 1 :
        /\ s[o].kind = "open" /\ NoBoundary(s, o + 1, pos - 1)
        /\ \A j \in o + 1 .. pos - 1 : s[j].kind # "blank"
        /\ Collected(s, o, pos)
  BY <1>0 DEF AtSomeLine, MultipartInv, Place, InHeaders
<1> HIDE DEF s
<1>2. o \in DOMAIN s /\ Multipart!HeadersEnd(s, o, pos)
  BY <1>0, <1>1 DEF Multipart!HeadersEnd, NoBoundary
<1>3. ASSUME NEW p \in DOMAIN s, Multipart!HeadersEnd(s, p, pos) PROVE p = o
  <2>1. p \in 1 .. pos - 1 /\ s[p].kind = "open" /\ NoBoundary(s, p + 1, pos - 1)
    BY <1>0, <1>3 DEF Multipart!HeadersEnd, NoBoundary
  <2> QED
    BY <1>0, <1>1, <2>1, OneOpening
<1>4. \A d : d \in NamesAt(vi, pos) <=>
        /\ d \in [what : {"FILES", "FILES_NAMES"}, value : {vi}, at : {pos}, from : {0},
                  name : {"text", "xml"}]
        /\ Multipart!Says(s, o, pos, Param(d.what), d.name)
  BY <1>0, <1>2, <1>3, NameIsDue
<1>5. \A p \in {"filename", "name"}, x \in {"text", "xml"} :
        Multipart!Says(s, o, pos, p, x) <=> fields[p] = x
  BY <1>1 DEF Collected, Multipart!Params
<1>6. \A what \in {"FILES", "FILES_NAMES"}, x \in {"text", "xml"} :
        Multipart!Says(s, o, pos, Param(what), x) <=> fields[Param(what)] = x
  BY <1>5 DEF Param
<1>7. \A d : d \in NamesAt(vi, pos) <=>
        /\ d \in [what : {"FILES", "FILES_NAMES"}, value : {vi}, at : {pos}, from : {0},
                  name : {"text", "xml"}]
        /\ fields[Param(d.what)] = d.name
  BY <1>4, <1>6
<1>8. ASSUME NEW d \in NamesAt(vi, pos)
      PROVE  d \in {Multipart!NameScan("FILES", "filename"),
                    Multipart!NameScan("FILES_NAMES", "name")} /\ Multipart!Scanned(d.name)
  BY <1>7 DEF Multipart!NameScan, Multipart!Scanned, Param
<1>9. ASSUME NEW what \in {"FILES", "FILES_NAMES"}, Multipart!Scanned(fields[Param(what)])
      PROVE  Multipart!NameScan(what, Param(what)) \in NamesAt(vi, pos)
  BY <1>7, <1>9 DEF Multipart!NameScan, Multipart!Scanned
<1>10. /\ Multipart!NameScan("FILES", "filename").name = fields["filename"]
       /\ Multipart!NameScan("FILES_NAMES", "name").name = fields["name"]
       /\ Param("FILES") = "filename" /\ Param("FILES_NAMES") = "name"
  BY DEF Multipart!NameScan, Param
<1> QED
  BY <1>8, <1>9, <1>10

LEMMA NoNamesHere ==
  ASSUME AtSomeLine, ~(Multipart!line.kind = "blank" /\ inHeaders)
  PROVE  NamesAt(vi, pos) = {}
<1> DEFINE s == Multipart!lines
<1>0. s \in Seq(MLine) /\ s = request.values[vi] /\ pos \in 1 .. Len(s) /\ Multipart!line = s[pos]
  BY LinesOfRequest
<1>1. InContent(s) /\ Outside(s) /\ partStart \in Nat /\ partStart <= pos
  BY <1>0 DEF AtSomeLine, MultipartInv, Place, Multipart!MultipartTypeOK
<1> HIDE DEF s
<1> SUFFICES ASSUME NEW p \in DOMAIN s, Multipart!HeadersEnd(s, p, pos) PROVE FALSE
  BY <1>0, NameIsDue
<1>2. p \in 1 .. pos - 1 /\ s[p].kind = "open" /\ NoBoundary(s, p + 1, pos - 1)
      /\ s[pos].kind = "blank" /\ \A j \in p + 1 .. pos - 1 : s[j].kind # "blank"
  BY <1>0 DEF Multipart!HeadersEnd, NoBoundary
<1>3. ~inHeaders
  BY <1>0, <1>2
<1>4. CASE partStart = 0
  BY <1>1, <1>2, <1>3, <1>4 DEF Outside, NoBoundary
<1>5. CASE partStart > 0
  <2>1. PICK o \in 1 .. partStart - 2 :
          Multipart!HeadersEnd(s, o, partStart - 1) /\ NoBoundary(s, partStart, pos - 1)
    BY <1>1, <1>5 DEF InContent
  <2>2. o \in Nat /\ partStart - 1 \in Nat /\ (partStart - 1) + 1 = partStart
        /\ o \in 1 .. pos - 1 /\ pos \in Nat
    BY <1>0, <1>1
  <2>3. NoBoundary(s, o + 1, pos - 1)
    BY <2>1, <2>2, OpenTo
  <2>4. s[o].kind = "open" /\ s[partStart - 1].kind = "blank"
    BY <2>1 DEF Multipart!HeadersEnd
  <2>5. p = o
    BY <1>2, <2>2, <2>3, <2>4, OneOpening
  <2>6. partStart - 1 \in o + 1 .. pos - 1
    BY <1>0, <1>1, <2>2
  <2> QED
    BY <1>2, <2>4, <2>5, <2>6
<1> QED
  BY <1>1, <1>4, <1>5
LEMMA ContentHere ==
  ASSUME AtSomeLine, Multipart!IsBoundary(Multipart!line), partStart > 0
  PROVE  ContentsAt(vi, pos) =
           IF Multipart!IsXmlPart(xmlType, fields.filename,
                                  SubSeq(Multipart!lines, partStart, pos - 1))
           THEN {Multipart!ContentScan("container"), Multipart!ContentScan("xml")} ELSE {}
<1> DEFINE s == Multipart!lines
           b == partStart - 1
<1>0. /\ s \in Seq(MLine) /\ s = request.values[vi] /\ pos \in 1 .. Len(s)
      /\ pos \in DOMAIN s /\ Multipart!IsBoundary(s[pos])
  BY LinesOfRequest
<1>1. partStart \in Nat /\ partStart <= pos
  BY DEF AtSomeLine, MultipartInv, Multipart!MultipartTypeOK
<1>2. PICK o \in 1 .. partStart - 2 :
        /\ Multipart!HeadersEnd(s, o, b) /\ NoBoundary(s, partStart, pos - 1)
        /\ Collected(s, o, b)
  BY <1>0 DEF AtSomeLine, MultipartInv, Place, InContent
<1> HIDE DEF s
<1>3. /\ o \in Nat /\ b \in Nat /\ b + 1 = partStart /\ b < pos /\ pos \in Nat
      /\ o \in 1 .. pos - 1 /\ o \in DOMAIN s /\ o < b /\ b \in DOMAIN s
  BY <1>0, <1>1
<1> HIDE DEF b
<1>4. NoBoundary(s, o + 1, pos - 1) /\ s[o].kind = "open" /\ s[b].kind = "blank"
      /\ \A j \in o + 1 .. b - 1 : s[j].kind # "blank"
  BY <1>2, <1>3, OpenTo DEF Multipart!HeadersEnd
<1>5. Multipart!ContentEnds(s, b, pos)
  BY <1>0, <1>2, <1>3 DEF Multipart!ContentEnds, NoBoundary
<1>6. ASSUME NEW p \in DOMAIN s, NEW f \in DOMAIN s,
             Multipart!HeadersEnd(s, p, f - 1), Multipart!ContentEnds(s, f - 1, pos)
      PROVE  p = o /\ f = partStart
  <2>1. /\ p \in Nat /\ f - 1 \in Nat /\ p < f - 1 /\ f - 1 < pos
        /\ s[p].kind = "open" /\ s[f - 1].kind = "blank"
        /\ \A j \in p + 1 .. (f - 1) - 1 : s[j].kind # "blank"
    BY <1>0, <1>6 DEF Multipart!HeadersEnd, Multipart!ContentEnds
  <2>2. NoBoundary(s, (f - 1) + 1, pos - 1) /\ p \in 1 .. Len(s) /\ f \in Nat
    BY <1>0, <1>6 DEF Multipart!ContentEnds, NoBoundary
  <2>3. NoBoundary(s, p + 1, pos - 1) /\ p \in 1 .. pos - 1
    <3>1. NoBoundary(s, p + 1, pos - 1)
      BY <1>3, <1>6, <2>1, <2>2, OpenTo
    <3>2. p # 0 /\ p < pos
      BY <1>3, <2>1, <2>2
    <3> QED
      BY <1>3, <2>1, <3>1, <3>2
  <2>4. p = o
    BY <1>3, <1>4, <2>1, <2>3, OneOpening
  <2>5. ~(f - 1 < b) /\ ~(b < f - 1)
    BY <1>3, <1>4, <2>1, <2>4
  <2> QED
    BY <1>3, <2>1, <2>2, <2>4, <2>5
<1>7. XmlContent(s, o, b, pos)
        <=> Multipart!IsXmlPart(xmlType, fields.filename, SubSeq(s, partStart, pos - 1))
  <2>1. Multipart!Sniff(SubSeq(s, b + 1, pos - 1)) <=> Multipart!IsMarked(s, b, pos)
    BY <1>0, <1>3, SniffedIsMarked
  <2>2. fields["filename"] = "xml" <=> Multipart!Says(s, o, b, "filename", "xml")
    BY <1>2 DEF Collected, Multipart!Params
  <2>3. xmlType <=> Multipart!IsTyped(s, o, b)
    BY <1>2 DEF Collected
  <2> QED
    BY <1>3, <2>1, <2>2, <2>3 DEF XmlContent, Multipart!IsXmlPart
<1>8. partStart \in DOMAIN s /\ b = partStart - 1
  BY <1>0, <1>1, <1>3
<1>9. \A d : d \in ContentsAt(vi, pos) <=>
        /\ d \in [what : {"container", "xml"}, value : {vi}, at : {pos},
                  from : {partStart}, name : {"none"}]
        /\ XmlContent(s, o, b, pos)
  <2>1. \A d : d \in ContentsAt(vi, pos) <=>
          /\ d \in [what : {"container", "xml"}, value : {vi}, at : {pos},
                    from : DOMAIN s, name : {"none"}]
          /\ \E p \in DOMAIN s :
               /\ Multipart!HeadersEnd(s, p, d.from - 1)
               /\ Multipart!ContentEnds(s, d.from - 1, pos)
               /\ XmlContent(s, p, d.from - 1, pos)
    BY <1>0, ContentIsDue
  <2>2. ASSUME NEW d \in ContentsAt(vi, pos)
        PROVE  /\ d \in [what : {"container", "xml"}, value : {vi}, at : {pos},
                         from : {partStart}, name : {"none"}]
               /\ XmlContent(s, o, b, pos)
    <3>1. PICK p \in DOMAIN s :
               /\ Multipart!HeadersEnd(s, p, d.from - 1)
               /\ Multipart!ContentEnds(s, d.from - 1, pos)
               /\ XmlContent(s, p, d.from - 1, pos)
      BY <2>1
    <3>2. d.from \in DOMAIN s
      BY <2>1
    <3>3. p = o /\ d.from = partStart
      BY <1>6, <3>1, <3>2
    <3> QED
      BY <1>8, <2>1, <3>1, <3>3
  <2>3. ASSUME NEW d \in [what : {"container", "xml"}, value : {vi}, at : {pos},
                          from : {partStart}, name : {"none"}],
               XmlContent(s, o, b, pos)
        PROVE  d \in ContentsAt(vi, pos)
    BY <1>2, <1>3, <1>5, <1>8, <2>1, <2>3
  <2> QED
    BY <2>2, <2>3
<1>10. \A what \in {"container", "xml"} :
         Multipart!ContentScan(what) = [what |-> what, value |-> vi, at |-> pos,
                                        from |-> partStart, name |-> "none"]
  BY DEF Multipart!ContentScan
<1>11. \A d : d \in [what : {"container", "xml"}, value : {vi}, at : {pos},
                     from : {partStart}, name : {"none"}]
         <=> d \in {Multipart!ContentScan("container"), Multipart!ContentScan("xml")}
  BY <1>10
<1> QED
  BY <1>7, <1>9, <1>11 DEF s

LEMMA NoContentHere ==
  ASSUME AtSomeLine, ~(Multipart!IsBoundary(Multipart!line) /\ partStart > 0)
  PROVE  ContentsAt(vi, pos) = {}
<1> DEFINE s == Multipart!lines
<1>0. s \in Seq(MLine) /\ s = request.values[vi] /\ pos \in 1 .. Len(s) /\ Multipart!line = s[pos]
  BY LinesOfRequest
<1>1. InHeaders(s) /\ Outside(s) /\ partStart \in Nat
  BY <1>0 DEF AtSomeLine, MultipartInv, Place, Multipart!MultipartTypeOK
<1> HIDE DEF s
<1> SUFFICES ASSUME NEW p \in DOMAIN s, NEW f \in DOMAIN s,
                    Multipart!HeadersEnd(s, p, f - 1), Multipart!ContentEnds(s, f - 1, pos)
             PROVE  FALSE
  BY <1>0, ContentIsDue
<1>2. /\ p \in Nat /\ f - 1 \in Nat /\ p < f - 1 /\ f - 1 < pos /\ pos \in Nat
      /\ s[p].kind = "open" /\ s[f - 1].kind = "blank" /\ Multipart!IsBoundary(s[pos])
  BY <1>0 DEF Multipart!HeadersEnd, Multipart!ContentEnds
<1>3. NoBoundary(s, (f - 1) + 1, pos - 1)
  BY DEF Multipart!ContentEnds, NoBoundary
<1>4. NoBoundary(s, p + 1, pos - 1)
  BY <1>2, <1>3, OpenTo
<1>5. p \in 1 .. pos - 1 /\ f - 1 \in p + 1 .. pos - 1 /\ partStart = 0
  BY <1>0, <1>1, <1>2
<1>6. CASE inHeaders
  <2>1. PICK o \in 1 .. pos - 1 :
          /\ s[o].kind = "open" /\ NoBoundary(s, o + 1, pos - 1)
          /\ \A j \in o + 1 .. pos - 1 : s[j].kind # "blank"
    BY <1>1, <1>6 DEF InHeaders
  <2>2. o = p
    BY <1>2, <1>4, <1>5, <2>1, OneOpening
  <2> QED
    BY <1>2, <1>5, <2>1, <2>2
<1>7. CASE ~inHeaders
  BY <1>1, <1>2, <1>4, <1>5, <1>7 DEF Outside, NoBoundary
<1> QED
  BY <1>6, <1>7

\* What is behind the pass after this line: what was, and what is due here.
ScansHere == NamesAt(vi, pos) \cup ContentsAt(vi, pos)

LEMMA ScansArePlaced ==
  ASSUME NEW d \in Multipart!AllScans
  PROVE  /\ d.value \in DOMAIN request.values /\ d.at \in DOMAIN request.values[d.value]
         /\ d \in Multipart!NamesOf(d.value) \cup Multipart!ContentsOf(d.value)
         /\ request.boundary
BY DEF Multipart!AllScans, Multipart!NamesOf, Multipart!ContentsOf

LEMMA PassedOneMore ==
  ASSUME AtSomeLine, request' = request, vi' = vi, pos' = pos + 1, pc' = pc
  PROVE  {d \in Multipart!AllScans : Multipart!Passed(d)}' =
           {d \in Multipart!AllScans : Multipart!Passed(d)} \cup ScansHere
<1>1. Multipart!AllScans' = Multipart!AllScans
  BY DEF Multipart!AllScans, Multipart!NamesOf, Multipart!ContentsOf
<1>2. pc = "lines" /\ vi \in DOMAIN request.values /\ vi \in Nat /\ pos \in Nat
      /\ request.boundary /\ request.values \in Seq(Seq(MLine))
  BY LinesOfRequest DEF AtSomeLine
<1>3. \A d \in Multipart!AllScans :
        d.value \in Nat /\ d.at \in Nat
  <2> SUFFICES ASSUME NEW d \in Multipart!AllScans PROVE d.value \in Nat /\ d.at \in Nat
    OBVIOUS
  <2>1. d.value \in DOMAIN request.values /\ d.at \in DOMAIN request.values[d.value]
    BY ScansArePlaced
  <2>2. request.values[d.value] \in Seq(MLine)
    BY <1>2, <2>1
  <2> QED
    BY <1>2, <2>1, <2>2
<1>4. \A d \in Multipart!AllScans :
        Multipart!Passed(d)' <=> Multipart!Passed(d) \/ (d.value = vi /\ d.at = pos)
  BY <1>2, <1>3 DEF Multipart!Passed
<1>5. \A d : d \in ScansHere <=> d \in Multipart!AllScans /\ d.value = vi /\ d.at = pos
  <2>1. ASSUME NEW d \in ScansHere
        PROVE  d \in Multipart!AllScans /\ d.value = vi /\ d.at = pos
    <3>1. d \in Multipart!NamesOf(vi) \cup Multipart!ContentsOf(vi) /\ d.at = pos
      BY <2>1 DEF ScansHere, NamesAt, ContentsAt
    <3>2. d \in Multipart!AllScans
      BY <1>2, <3>1 DEF Multipart!AllScans
    <3>3. \A e \in Multipart!NamesOf(vi) : e.value = vi
      BY DEF Multipart!NamesOf
    <3>4. \A e \in Multipart!ContentsOf(vi) : e.value = vi
      BY DEF Multipart!ContentsOf
    <3> QED
      BY <3>1, <3>2, <3>3, <3>4
  <2>2. ASSUME NEW d \in Multipart!AllScans, d.value = vi, d.at = pos
        PROVE  d \in ScansHere
    BY <2>2, ScansArePlaced DEF ScansHere, NamesAt, ContentsAt
  <2> QED
    BY <2>1, <2>2
<1> QED
  BY <1>1, <1>4, <1>5
-----------------------------------------------------------------------------
(* Scanning                                                                 *)

LogOK ==
  /\ log \in Seq(Entry) /\ threat \in Results \cup {-1}
  /\ Multipart!FirstMatchIsReturned
  /\ \A j, k \in DOMAIN log : j < k => Multipart!Precedes(log[j].scan, log[k].scan)

Logged == {log[k].scan : k \in DOMAIN log}

\* Up to two scans, in order and after all that was scanned before.
LEMMA ScanExtends ==
  ASSUME LogOK, NEW scans \in Seq(ScanRecord), Len(scans) <= 2,
         Multipart!Scan(scans),
         \A e \in Logged : \A k \in DOMAIN scans : Multipart!Precedes(e, scans[k]),
         \A j, k \in DOMAIN scans : j < k => Multipart!Precedes(scans[j], scans[k])
  PROVE  LogOK' /\ Logged' = Logged \cup {scans[k] : k \in DOMAIN scans}
<1>1. PICK results \in [DOMAIN scans -> Results \cup {-1}] :
        /\ threat' = Multipart!Keep(threat, results)
        /\ log' = log \o [k \in DOMAIN scans |-> [scan |-> scans[k], result |-> results[k]]]
  BY DEF Multipart!Scan
<1> DEFINE new == [k \in DOMAIN scans |-> [scan |-> scans[k], result |-> results[k]]]
           n == Len(log)
           m == Len(scans)
<1>2. /\ log \in Seq(Entry) /\ n \in Nat /\ m \in Nat /\ m <= 2 /\ DOMAIN log = 1 .. n
      /\ DOMAIN scans = 1 .. m
  BY DEF LogOK
<1>3. new \in Seq(Entry) /\ Len(new) = m
  <2>1. \A k \in 1 .. m : new[k] \in Entry
    BY <1>2 DEF Entry
  <2>2. new = [k \in 1 .. m |-> new[k]]
    BY <1>2
  <2> QED
    BY <1>2, <2>1, <2>2
<1>4. /\ log' \in Seq(Entry) /\ DOMAIN log' = 1 .. n + m
      /\ \A k \in 1 .. n : log'[k] = log[k]
      /\ \A k \in 1 .. m : log'[n + k].scan = scans[k] /\ log'[n + k].result = results[k]
  <2> HIDE DEF new
  <2>1. log' = log \o new
    BY <1>1 DEF new
  <2>2. log' \in Seq(Entry) /\ Len(log') = n + m
        /\ \A k \in 1 .. n + m : log'[k] = IF k <= n THEN log[k] ELSE new[k - n]
    BY <1>2, <1>3, <2>1, ConcatProperties
  <2>3. DOMAIN log' = 1 .. n + m
    BY <2>2
  <2>4. ASSUME NEW k \in 1 .. m PROVE log'[n + k] = new[k]
    <3>1. n + k \in 1 .. n + m /\ ~(n + k <= n) /\ (n + k) - n = k
      BY <1>2
    <3> QED
      BY <2>2, <3>1
  <2>5. \A k \in 1 .. m : new[k].scan = scans[k] /\ new[k].result = results[k]
    BY <1>2 DEF new
  <2>6. \A k \in 1 .. n : k \in 1 .. n + m /\ k <= n
    BY <1>2
  <2> QED
    BY <2>2, <2>3, <2>4, <2>5, <2>6
<1> HIDE DEF new, n, m
<1>5. \A k \in 1 .. n + m : k \in 1 .. n \/ \E g \in 1 .. m : k = n + g
  <2> SUFFICES ASSUME NEW k \in 1 .. n + m, k \notin 1 .. n
               PROVE  \E g \in 1 .. m : k = n + g
    OBVIOUS
  <2>1. k - n \in 1 .. m /\ k = n + (k - n)
    BY <1>2
  <2> QED
    BY <2>1
<1>6. \A k \in 1 .. n : k \in DOMAIN log'
  BY <1>2, <1>4
<1>7. \A k \in 1 .. m : n + k \in DOMAIN log'
  BY <1>2, <1>4
<1>8. Logged' = Logged \cup {scans[k] : k \in DOMAIN scans}
  <2>1. Logged' = {log'[k].scan : k \in 1 .. n + m}
    BY <1>4 DEF Logged
  <2>2. ASSUME NEW k \in 1 .. n + m
        PROVE  log'[k].scan \in Logged \cup {scans[g] : g \in 1 .. m}
    <3>1. CASE k \in 1 .. n
      BY <1>2, <1>4, <3>1 DEF Logged
    <3>2. CASE \E g \in 1 .. m : k = n + g
      BY <1>4, <3>2
    <3> QED
      BY <1>5, <3>1, <3>2
  <2>3. \A e \in Logged : e \in Logged'
    BY <1>2, <1>4, <1>6 DEF Logged
  <2>4. \A g \in 1 .. m : scans[g] \in Logged'
    BY <1>4, <1>7 DEF Logged
  <2> QED
    BY <1>2, <2>1, <2>2, <2>3, <2>4
<1>9. \A j, k \in DOMAIN log' : j < k => Multipart!Precedes(log'[j].scan, log'[k].scan)
  <2> SUFFICES ASSUME NEW j \in 1 .. n + m, NEW k \in 1 .. n + m, j < k
               PROVE  Multipart!Precedes(log'[j].scan, log'[k].scan)
    BY <1>4
  <2>1. CASE k \in 1 .. n
    <3>1. j \in 1 .. n
      BY <1>2, <2>1
    <3> QED
      BY <1>2, <1>4, <2>1, <3>1 DEF LogOK
  <2>2. ASSUME NEW g \in 1 .. m, k = n + g, j \in 1 .. n
        PROVE  Multipart!Precedes(log'[j].scan, log'[k].scan)
    BY <1>2, <1>4, <2>2 DEF Logged
  <2>3. ASSUME NEW g \in 1 .. m, k = n + g, NEW h \in 1 .. m, j = n + h
        PROVE  Multipart!Precedes(log'[j].scan, log'[k].scan)
    <3>1. h < g
      BY <1>2, <2>3
    <3> QED
      BY <1>2, <1>4, <2>3, <3>1
  <2> QED
    BY <1>5, <2>1, <2>2, <2>3
<1>10. Multipart!FirstMatchIsReturned' /\ threat' \in Results \cup {-1}
  <2> DEFINE hits == Multipart!Matches(results)
             none == \A k \in DOMAIN log : log[k].result = 0
  <2>0. IF none THEN threat = 0
        ELSE \E k \in DOMAIN log :
               /\ threat = log[k].result /\ threat # 0
               /\ \A j \in 1 .. k - 1 : log[j].result = 0
    BY DEF LogOK, Multipart!FirstMatchIsReturned
  <2>1. hits = {k \in 1 .. m : results[k] # 0}
    BY <1>2 DEF Multipart!Matches
  <2>2. CASE threat # 0
    <3>1. threat' = threat
      BY <1>1, <2>2 DEF Multipart!Keep
    <3>2. PICK k \in 1 .. n :
               /\ threat = log[k].result /\ threat # 0
               /\ \A j \in 1 .. k - 1 : log[j].result = 0
      BY <1>2, <2>0, <2>2
    <3>3. \A j \in 1 .. k - 1 : j \in 1 .. n
      BY <1>2
    <3>4. /\ k \in DOMAIN log' /\ threat' = log'[k].result /\ threat' # 0
          /\ \A j \in 1 .. k - 1 : log'[j].result = 0
      BY <1>4, <1>6, <3>1, <3>2, <3>3
    <3> QED
      BY <3>1, <3>4 DEF LogOK, Multipart!FirstMatchIsReturned
  <2>3. CASE threat = 0 /\ hits = {}
    <3>1. threat' = 0
      BY <1>1, <2>3 DEF Multipart!Keep
    <3>2. \A k \in 1 .. n : log[k].result = 0
      BY <1>2, <2>0, <2>3
    <3>3. \A k \in DOMAIN log' : log'[k].result = 0
      BY <1>4, <1>5, <2>1, <2>3, <3>2
    <3> QED
      BY <3>1, <3>3, MultipartConstants DEF Multipart!FirstMatchIsReturned, Multipart!MultipartAssumption
  <2>4. CASE threat = 0 /\ hits # {}
    <3>1. \A k \in 1 .. n : log[k].result = 0
      BY <1>2, <2>0, <2>4
    <3>2. \E k \in hits : \A j \in hits : k <= j
      <4>1. hits \subseteq {1, 2}
        BY <1>2, <2>1
      <4>2. CASE 1 \in hits
        BY <4>1, <4>2
      <4>3. CASE 1 \notin hits
        BY <2>4, <4>1, <4>3
      <4> QED
        BY <4>2, <4>3
    <3> DEFINE f == Multipart!Min(hits)
    <3>3. f \in hits /\ \A j \in hits : f <= j
      BY <3>2 DEF Multipart!Min
    <3>4. threat' = results[f]
      BY <1>1, <2>4 DEF Multipart!Keep
    <3> HIDE DEF f, hits
    <3>5. f \in 1 .. m /\ results[f] # 0 /\ \A j \in 1 .. m : j < f => results[j] = 0
      <4>1. f \in 1 .. m /\ results[f] # 0
        BY <2>1, <3>3
      <4>2. ASSUME NEW j \in 1 .. m, j < f PROVE results[j] = 0
        BY <1>2, <2>1, <3>3, <4>1, <4>2
      <4> QED
        BY <4>1, <4>2
    <3>6. ASSUME NEW j \in 1 .. (n + f) - 1 PROVE log'[j].result = 0
      <4>1. CASE j \in 1 .. n
        BY <1>4, <3>1, <4>1
      <4>2. CASE j \notin 1 .. n
        <5>1. j \in 1 .. n + m
          BY <1>2, <3>5
        <5>2. PICK g \in 1 .. m : j = n + g
          BY <1>5, <4>2, <5>1
        <5>3. g < f
          BY <1>2, <3>5, <5>2
        <5> QED
          BY <1>4, <3>5, <5>2, <5>3
      <4> QED
        BY <4>1, <4>2
    <3>7. n + f \in DOMAIN log' /\ log'[n + f].result = threat' /\ threat' # 0
      BY <1>4, <1>7, <3>4, <3>5
    <3>8. threat' \in Results \cup {-1}
      BY <1>1, <1>2, <3>4, <3>5
    <3> QED
      BY <3>6, <3>7, <3>8 DEF Multipart!FirstMatchIsReturned
  <2> QED
    BY <2>2, <2>3, <2>4
<1> QED
  BY <1>4, <1>8, <1>9, <1>10 DEF LogOK
-----------------------------------------------------------------------------
(* Every step of the pass                                                   *)

LEMMA LoggedIsBehind ==
  ASSUME AtSomeLine
  PROVE  /\ LogOK /\ Logged = {d \in Multipart!AllScans : Multipart!Passed(d)}
         /\ \A e \in Logged : \A d : d.value = vi /\ d.at = pos => Multipart!Precedes(e, d)
<1>1. LogOK /\ Logged = {d \in Multipart!AllScans : Multipart!Passed(d)}
  BY DEF AtSomeLine, MultipartInv, LogOK, Logged, Multipart!ScansItsParts,
     Multipart!MultipartTypeOK
<1>2. ASSUME NEW e \in Logged, NEW d, d.value = vi, d.at = pos
      PROVE  Multipart!Precedes(e, d)
  BY <1>1, <1>2 DEF AtSomeLine, Multipart!Passed, Multipart!Precedes
<1> QED
  BY <1>1, <1>2

\* The request and the part are not touched, and nothing is scanned.
LEMMA NothingScanned ==
  ASSUME AtSomeLine, UNCHANGED <<request, vi, pc, threat, log>>, pos' = pos + 1,
         NamesAt(vi, pos) = {}, ContentsAt(vi, pos) = {}
  PROVE  LogOK' /\ Multipart!ScansItsParts'
<1>1. LogOK /\ Logged = {d \in Multipart!AllScans : Multipart!Passed(d)}
  BY LoggedIsBehind
<1>2. LogOK' /\ Logged' = Logged
  BY <1>1 DEF LogOK, Logged, Multipart!FirstMatchIsReturned, Multipart!Precedes
<1>3. {d \in Multipart!AllScans : Multipart!Passed(d)}' =
        {d \in Multipart!AllScans : Multipart!Passed(d)}
  BY PassedOneMore DEF ScansHere
<1> QED
  BY <1>1, <1>2, <1>3 DEF LogOK, Logged, Multipart!ScansItsParts

\* What is due at this line is scanned.
LEMMA DueIsScanned ==
  ASSUME AtSomeLine, request' = request, vi' = vi, pc' = pc, pos' = pos + 1,
         NEW scans \in Seq(ScanRecord), Len(scans) <= 2, Multipart!Scan(scans),
         {scans[k] : k \in DOMAIN scans} = ScansHere,
         \A j, k \in DOMAIN scans : j < k => Multipart!Precedes(scans[j], scans[k])
  PROVE  LogOK' /\ Multipart!ScansItsParts'
<1>1. LogOK /\ Logged = {d \in Multipart!AllScans : Multipart!Passed(d)}
      /\ \A e \in Logged : \A d : d.value = vi /\ d.at = pos => Multipart!Precedes(e, d)
  BY LoggedIsBehind
<1>2. \A k \in DOMAIN scans : scans[k].value = vi /\ scans[k].at = pos
  <2>1. \A d \in Multipart!NamesOf(vi) : d.value = vi
    BY DEF Multipart!NamesOf
  <2>2. \A d \in Multipart!ContentsOf(vi) : d.value = vi
    BY DEF Multipart!ContentsOf
  <2>3. \A d \in ScansHere : d.value = vi /\ d.at = pos
    BY <2>1, <2>2 DEF ScansHere, NamesAt, ContentsAt
  <2> QED
    BY <2>3
<1>3. LogOK' /\ Logged' = Logged \cup ScansHere
  BY <1>1, <1>2, ScanExtends
<1>4. {d \in Multipart!AllScans : Multipart!Passed(d)}' =
        {d \in Multipart!AllScans : Multipart!Passed(d)} \cup ScansHere
  BY PassedOneMore
<1> QED
  BY <1>1, <1>3, <1>4 DEF LogOK, Logged, Multipart!ScansItsParts

\* The scans of a line are two records of one place at most.
LEMMA PairsOfScans ==
  ASSUME NEW a \in ScanRecord, NEW b \in ScanRecord
  PROVE  /\ << a, b >> \in Seq(ScanRecord) /\ Len(<< a, b >>) = 2
         /\ {<< a, b >>[k] : k \in DOMAIN << a, b >>} = {a, b}
         /\ Multipart!Precedes(a, b) =>
              \A j, k \in DOMAIN << a, b >> :
                j < k => Multipart!Precedes(<< a, b >>[j], << a, b >>[k])
         /\ << a >> \o << b >> = << a, b >> /\ << a >> \o << >> = << a >>
         /\ << >> \o << b >> = << b >>
<1>1. \A s \in Seq(ScanRecord) : s \o << >> = s /\ << >> \o s = s
  BY ConcatEmptySeq
<1>2. << a >> \in Seq(ScanRecord) /\ << b >> \in Seq(ScanRecord)
  OBVIOUS
<1>3. << a >> \o << b >> = Append(<< a >>, b)
  BY <1>2, AppendIsConcat
<1>7. Append(<< a >>, b) = << a, b >>
  <2>1. /\ Append(<< a >>, b) \in Seq(ScanRecord) /\ Len(Append(<< a >>, b)) = Len(<< a >>) + 1
        /\ \A g \in 1 .. Len(<< a >>) : Append(<< a >>, b)[g] = << a >>[g]
        /\ Append(<< a >>, b)[Len(<< a >>) + 1] = b
    BY <1>2, AppendProperties
  <2>2. Len(<< a >>) = 1 /\ << a >>[1] = a
    OBVIOUS
  <2>3. << a, b >> \in Seq(ScanRecord) /\ Len(<< a, b >>) = 2 /\ << a, b >>[1] = a /\ << a, b >>[2] = b
    OBVIOUS
  <2>4. \A g \in 1 .. 2 : Append(<< a >>, b)[g] = << a, b >>[g]
    BY <2>1, <2>2, <2>3
  <2> DEFINE t == Append(<< a >>, b)
             u == << a, b >>
  <2>5. t \in Seq(ScanRecord) /\ u \in Seq(ScanRecord) /\ Len(t) = Len(u)
    BY <2>1, <2>2, <2>3
  <2>6. \A g \in 1 .. Len(t) : t[g] = u[g]
    BY <2>1, <2>2, <2>3, <2>4
  <2> HIDE DEF t, u
  <2>7. t = u
    BY <2>5, <2>6, SeqEqual
  <2> QED
    BY <2>7 DEF t, u
<1>4. << a >> \o << >> = << a >> /\ << >> \o << b >> = << b >>
  BY <1>1, <1>2
<1>5. << a, b >> \in Seq(ScanRecord) /\ Len(<< a, b >>) = 2
      /\ {<< a, b >>[k] : k \in DOMAIN << a, b >>} = {a, b}
  OBVIOUS
<1>6. Multipart!Precedes(a, b) =>
        \A j, k \in DOMAIN << a, b >> :
          j < k => Multipart!Precedes(<< a, b >>[j], << a, b >>[k])
  OBVIOUS
<1> QED
  BY <1>3, <1>4, <1>5, <1>6, <1>7

LEMMA OneScan ==
  ASSUME NEW a \in ScanRecord
  PROVE  /\ << a >> \in Seq(ScanRecord) /\ Len(<< a >>) = 1
         /\ {<< a >>[k] : k \in DOMAIN << a >>} = {a}
         /\ \A j, k \in DOMAIN << a >> : ~(j < k)
OBVIOUS

LEMMA NoScan ==
  /\ << >> \in Seq(ScanRecord) /\ Len(<< >>) = 0
  /\ {<< >>[k] : k \in DOMAIN << >>} = {}
  /\ \A j, k \in DOMAIN << >> : ~(j < k)
OBVIOUS

LEMMA NamesScanned ==
  ASSUME AtSomeLine, Multipart!EndHeaders
  PROVE  LogOK' /\ Multipart!ScansItsParts'
<1> DEFINE f == Multipart!NameScan("FILES", "filename")
           g == Multipart!NameScan("FILES_NAMES", "name")
           fs == IF Multipart!Scanned(fields.filename) THEN << f >> ELSE << >>
           gs == IF Multipart!Scanned(fields.name) THEN << g >> ELSE << >>
           scans == fs \o gs
<1>0. Multipart!line.kind = "blank" /\ inHeaders
      /\ request' = request /\ vi' = vi /\ pc' = pc /\ pos' = pos + 1
      /\ Multipart!Scan(scans)
  BY DEF Multipart!EndHeaders, Multipart!AtLine, Multipart!Onward
<1>1. /\ f \in ScanRecord /\ g \in ScanRecord
      /\ f.name = fields.filename /\ g.name = fields.name
      /\ f.value = vi /\ g.value = vi /\ f.at = pos /\ g.at = pos
      /\ f.what = "FILES" /\ g.what = "FILES_NAMES"
  <2>1. vi \in Nat /\ pos \in Nat
    BY LinesOfRequest
  <2>2. fields["filename"] \in Multipart!Params /\ fields["name"] \in Multipart!Params
    BY DEF AtSomeLine, MultipartInv, Multipart!MultipartTypeOK
  <2>3. "FILES" \in Whats /\ "FILES_NAMES" \in Whats
    BY DEF Whats
  <2>4. \A w \in Whats, n \in Multipart!Params, v \in Nat, k \in Nat :
          [what |-> w, value |-> v, at |-> k, from |-> 0, name |-> n] \in ScanRecord
    BY DEF ScanRecord
  <2>5. f = [what |-> "FILES", value |-> vi, at |-> pos, from |-> 0, name |-> fields["filename"]]
        /\ g = [what |-> "FILES_NAMES", value |-> vi, at |-> pos, from |-> 0, name |-> fields["name"]]
    BY DEF Multipart!NameScan
  <2>6. f \in ScanRecord /\ g \in ScanRecord
    BY <2>1, <2>2, <2>3, <2>4, <2>5
  <2> QED
    BY <2>5, <2>6
<1>2. NamesAt(vi, pos) = {d \in {f, g} : Multipart!Scanned(d.name)}
  BY <1>0, NamesHere
<1>3. ContentsAt(vi, pos) = {}
  BY <1>0, NoContentHere DEF Multipart!IsBoundary
<1> HIDE DEF f, g
<1>4. Multipart!Precedes(f, g)
  BY <1>1 DEF Multipart!Precedes
<1>5. /\ scans \in Seq(ScanRecord) /\ Len(scans) <= 2
      /\ {scans[k] : k \in DOMAIN scans} = {d \in {f, g} : Multipart!Scanned(d.name)}
      /\ \A j, k \in DOMAIN scans : j < k => Multipart!Precedes(scans[j], scans[k])
  <2>1. CASE Multipart!Scanned(fields.filename) /\ Multipart!Scanned(fields.name)
    <3>1. scans = << f, g >>
      BY <1>1, <2>1, PairsOfScans
    <3>2. {d \in {f, g} : Multipart!Scanned(d.name)} = {f, g}
      BY <1>1, <2>1
    <3> HIDE DEF scans
    <3> QED
      BY <1>1, <1>4, <3>1, <3>2, PairsOfScans
  <2>2. CASE Multipart!Scanned(fields.filename) /\ ~Multipart!Scanned(fields.name)
    <3>1. scans = << f >>
      BY <1>1, <2>2, PairsOfScans
    <3>2. {d \in {f, g} : Multipart!Scanned(d.name)} = {f}
      BY <1>1, <2>2
    <3> HIDE DEF scans
    <3> QED
      BY <1>1, <3>1, <3>2, OneScan
  <2>3. CASE ~Multipart!Scanned(fields.filename) /\ Multipart!Scanned(fields.name)
    <3>1. scans = << g >>
      BY <1>1, <2>3, PairsOfScans
    <3>2. {d \in {f, g} : Multipart!Scanned(d.name)} = {g}
      BY <1>1, <2>3
    <3> HIDE DEF scans
    <3> QED
      BY <1>1, <3>1, <3>2, OneScan
  <2>4. CASE ~Multipart!Scanned(fields.filename) /\ ~Multipart!Scanned(fields.name)
    <3>1. scans = << >>
      BY <2>4
    <3>2. {d \in {f, g} : Multipart!Scanned(d.name)} = {}
      BY <1>1, <2>4
    <3> HIDE DEF scans
    <3> QED
      BY <3>1, <3>2, NoScan
  <2> QED
    BY <2>1, <2>2, <2>3, <2>4
<1> HIDE DEF scans
<1>6. {scans[k] : k \in DOMAIN scans} = ScansHere
  BY <1>2, <1>3, <1>5 DEF ScansHere
<1> QED
  BY <1>0, <1>5, <1>6, DueIsScanned

LEMMA ContentScanned ==
  ASSUME AtSomeLine, Multipart!Boundary
  PROVE  LogOK' /\ Multipart!ScansItsParts'
<1> DEFINE c == Multipart!ContentScan("container")
           x == Multipart!ContentScan("xml")
           xml == partStart > 0 /\ Multipart!IsXmlPart(xmlType, fields.filename,
                                     SubSeq(Multipart!lines, partStart, pos - 1))
<1>0. Multipart!IsBoundary(Multipart!line)
      /\ request' = request /\ vi' = vi /\ pc' = pc /\ pos' = pos + 1
      /\ IF xml THEN Multipart!Scan(<< c, x >>) ELSE UNCHANGED <<threat, log>>
  BY DEF Multipart!Boundary, Multipart!AtLine, Multipart!Onward, Multipart!IsBoundary
<1>1. NamesAt(vi, pos) = {}
  BY <1>0, NoNamesHere DEF Multipart!IsBoundary
<1>2. ContentsAt(vi, pos) = IF xml THEN {c, x} ELSE {}
  BY <1>0, ContentHere, NoContentHere
<1>3. c \in ScanRecord /\ x \in ScanRecord /\ Multipart!Precedes(c, x)
  <2>1. vi \in Nat /\ pos \in Nat
    BY LinesOfRequest
  <2>2. partStart \in Nat
    BY <2>1 DEF AtSomeLine, MultipartInv, Multipart!MultipartTypeOK
  <2>3. \A w \in Whats, n \in Multipart!Params, v \in Nat, k \in Nat, b \in Nat :
          [what |-> w, value |-> v, at |-> k, from |-> b, name |-> n] \in ScanRecord
    BY DEF ScanRecord
  <2>4. c = [what |-> "container", value |-> vi, at |-> pos, from |-> partStart, name |-> "none"]
        /\ x = [what |-> "xml", value |-> vi, at |-> pos, from |-> partStart, name |-> "none"]
    BY DEF Multipart!ContentScan
  <2>5. c \in ScanRecord /\ x \in ScanRecord
    BY <2>1, <2>2, <2>3, <2>4 DEF Whats, Multipart!Params
  <2>6. Multipart!Precedes(c, x)
    BY <2>4 DEF Multipart!Precedes
  <2> QED
    BY <2>5, <2>6
<1> HIDE DEF c, x, xml
<1>4. CASE xml
  <2>1. /\ << c, x >> \in Seq(ScanRecord) /\ Len(<< c, x >>) <= 2
        /\ {<< c, x >>[k] : k \in DOMAIN << c, x >>} = {c, x}
        /\ \A j, k \in DOMAIN << c, x >> :
             j < k => Multipart!Precedes(<< c, x >>[j], << c, x >>[k])
    BY <1>3, PairsOfScans
  <2>2. {c, x} = ScansHere
    BY <1>1, <1>2, <1>4 DEF ScansHere
  <2> DEFINE scans == << c, x >>
  <2>3. /\ scans \in Seq(ScanRecord) /\ Len(scans) <= 2 /\ Multipart!Scan(scans)
        /\ {scans[k] : k \in DOMAIN scans} = ScansHere
        /\ \A j, k \in DOMAIN scans : j < k => Multipart!Precedes(scans[j], scans[k])
    BY <1>0, <1>4, <2>1, <2>2
  <2> HIDE DEF scans
  <2> QED
    BY <1>0, <2>3, DueIsScanned
<1>5. CASE ~xml
  BY <1>0, <1>1, <1>2, <1>5, NothingScanned
<1> QED
  BY <1>4, <1>5
\* What the other lines have scanned of them: nothing.
LEMMA QuietLine ==
  ASSUME AtSomeLine, Multipart!FieldHeader \/ Multipart!TypeHeader \/ Multipart!OtherLine
  PROVE  LogOK' /\ Multipart!ScansItsParts'
<1>1. /\ ~Multipart!IsBoundary(Multipart!line)
      /\ ~(Multipart!line.kind = "blank" /\ inHeaders)
      /\ UNCHANGED <<request, vi, pc, threat, log>> /\ pos' = pos + 1
  BY DEF Multipart!FieldHeader, Multipart!TypeHeader, Multipart!OtherLine, Multipart!AtLine,
     Multipart!Onward, Multipart!IsBoundary, Multipart!Kinds
<1> QED
  BY <1>1, NoNamesHere, NoContentHere, NothingScanned

\* The next line, under the same values, and the types of what is kept.
LineStep ==
  Multipart!Boundary \/ Multipart!EndHeaders \/ Multipart!FieldHeader \/ Multipart!TypeHeader
    \/ Multipart!OtherLine

LEMMA LineStepKeeps ==
  ASSUME AtSomeLine, LineStep
  PROVE  /\ request' = request /\ vi' = vi /\ pc' = pc /\ pos' = pos + 1
         /\ LogOK' /\ Multipart!ScansItsParts'
         /\ inHeaders' \in BOOLEAN /\ xmlType' \in BOOLEAN /\ partStart' \in 0 .. pos'
         /\ ~(inHeaders' /\ partStart' > 0)
         /\ fields' \in [{"name", "filename"} -> Multipart!Params]
<1>1. request' = request /\ vi' = vi /\ pc' = pc /\ pos' = pos + 1
  BY DEF LineStep, Multipart!Boundary, Multipart!EndHeaders, Multipart!FieldHeader,
     Multipart!TypeHeader, Multipart!OtherLine, Multipart!Onward
<1>2. LogOK' /\ Multipart!ScansItsParts'
  BY ContentScanned, NamesScanned, QuietLine DEF LineStep
<1>3. /\ Multipart!line \in MLine /\ pos \in Nat
      /\ inHeaders \in BOOLEAN /\ xmlType \in BOOLEAN /\ partStart \in 0 .. pos
      /\ ~(inHeaders /\ partStart > 0)
      /\ fields \in [{"name", "filename"} -> Multipart!Params]
  BY LinesOfRequest DEF AtSomeLine, MultipartInv, Multipart!MultipartTypeOK
<1>4. fields' \in [{"name", "filename"} -> Multipart!Params]
  <2>1. CASE Multipart!Boundary
    BY <2>1 DEF Multipart!Boundary, Multipart!BeginPart, Multipart!NoFields, Multipart!Params
  <2>2. CASE Multipart!FieldHeader
    <3>1. Multipart!line["name"] \in Multipart!Params /\ Multipart!line["filename"] \in Multipart!Params
      BY <1>3 DEF MLine, Multipart!Line
    <3>2. \A p \in {"name", "filename"} :
            (IF Multipart!line[p] = "none" THEN fields[p] ELSE Multipart!line[p])
              \in Multipart!Params
      BY <1>3, <3>1
    <3> QED
      BY <2>2, <3>2 DEF Multipart!FieldHeader
  <2>3. CASE Multipart!EndHeaders \/ Multipart!TypeHeader \/ Multipart!OtherLine
    BY <1>3, <2>3 DEF Multipart!EndHeaders, Multipart!TypeHeader, Multipart!OtherLine,
       Multipart!part
  <2> QED
    BY <2>1, <2>2, <2>3 DEF LineStep
<1>5. /\ inHeaders' \in BOOLEAN /\ partStart' \in 0 .. pos' /\ ~(inHeaders' /\ partStart' > 0)
      /\ xmlType' \in BOOLEAN
  <2>1. CASE Multipart!Boundary
    <3>1. inHeaders' = (Multipart!line.kind = "open") /\ partStart' = 0 /\ xmlType' = FALSE
      BY <2>1 DEF Multipart!Boundary, Multipart!BeginPart
    <3>2. inHeaders' \in BOOLEAN
      BY <3>1
    <3>3. partStart' \in 0 .. pos' /\ ~(partStart' > 0)
      BY <1>1, <1>3, <3>1
    <3> QED
      BY <3>1, <3>2, <3>3
  <2>2. CASE Multipart!EndHeaders
    <3>1. inHeaders' = FALSE /\ partStart' = pos + 1 /\ xmlType' = xmlType
      BY <2>2 DEF Multipart!EndHeaders
    <3>2. partStart' \in 0 .. pos'
      BY <1>1, <1>3, <3>1
    <3> QED
      BY <1>3, <3>1, <3>2
  <2>3. CASE Multipart!FieldHeader \/ Multipart!OtherLine
    BY <1>1, <1>3, <2>3 DEF Multipart!FieldHeader, Multipart!OtherLine, Multipart!part
  <2>4. CASE Multipart!TypeHeader
    <3>1. Multipart!line.xml \in BOOLEAN
      BY <1>3 DEF MLine, Multipart!Line
    <3> QED
      BY <1>1, <1>3, <2>4, <3>1 DEF Multipart!TypeHeader
  <2> QED
    BY <2>1, <2>2, <2>3, <2>4 DEF LineStep
<1> QED
  BY <1>1, <1>2, <1>4, <1>5

LEMMA PlaceKept ==
  ASSUME AtSomeLine, LineStep
  PROVE  Place'
<1> DEFINE s == Multipart!lines
<1>0. /\ s' = s /\ Multipart!line = s[pos] /\ s[pos] \in MLine /\ pos \in 1 .. Len(s)
      /\ pos \in Nat /\ Len(s) \in Nat /\ pos' = pos + 1 /\ (pos + 1) - 1 = pos
  <2>1. request' = request /\ vi' = vi /\ pos' = pos + 1
    BY LineStepKeeps
  <2>2. s' = s
    BY <2>1 DEF Multipart!lines
  <2> QED
    BY <2>1, <2>2, LinesOfRequest
<1>1. InHeaders(s) /\ InContent(s) /\ Outside(s) /\ partStart \in Nat /\ partStart <= pos
  BY <1>0 DEF AtSomeLine, MultipartInv, Place, Multipart!MultipartTypeOK
<1> SUFFICES InHeaders(s)' /\ InContent(s)' /\ Outside(s)'
  BY <1>0 DEF Place
<1> HIDE DEF s
<1>2. CASE Multipart!Boundary
  <2>1. /\ Multipart!IsBoundary(s[pos]) /\ partStart' = 0
        /\ inHeaders' = (s[pos].kind = "open")
        /\ fields' = Multipart!NoFields /\ xmlType' = FALSE
    BY <1>0, <1>2 DEF Multipart!Boundary, Multipart!AtLine, Multipart!IsBoundary,
       Multipart!BeginPart
  <2>2. ASSUME s[pos].kind = "open" PROVE InHeaders(s)'
    <3>1. \A p, x : ~Multipart!Says(s, pos, pos + 1, p, x)
      BY <1>0, NothingSaidYet
    <3>2. ~Multipart!IsTyped(s, pos, pos + 1)
      BY <1>0, NothingSaidYet
    <3>3. \A p \in {"name", "filename"} : fields'[p] = "none"
      BY <2>1 DEF Multipart!NoFields
    <3>4. /\ \A p \in {"name", "filename"}, x \in Multipart!Params \ {"none"} :
               fields'[p] = x <=> Multipart!Says(s, pos, pos + 1, p, x)
          /\ xmlType' <=> Multipart!IsTyped(s, pos, pos + 1)
      BY <2>1, <3>1, <3>2, <3>3
    <3>5. pos \in 1 .. pos' - 1 /\ NoBoundary(s, pos + 1, pos' - 1)
          /\ \A j \in pos + 1 .. pos' - 1 : s[j].kind # "blank"
      BY <1>0 DEF NoBoundary
    <3>6. \E p \in 1 .. pos' - 1 :
            /\ s[p].kind = "open" /\ NoBoundary(s, p + 1, pos' - 1)
            /\ \A j \in p + 1 .. pos' - 1 : s[j].kind # "blank"
            /\ \A q \in {"name", "filename"}, x \in Multipart!Params \ {"none"} :
                 fields'[q] = x <=> Multipart!Says(s, p, pos', q, x)
            /\ xmlType' <=> Multipart!IsTyped(s, p, pos')
      BY <1>0, <2>2, <3>4, <3>5
    <3> QED
      BY <1>0, <3>6 DEF InHeaders, Collected
  <2>3. Outside(s)'
    <3> SUFFICES ASSUME ~inHeaders', NEW o \in 1 .. pos, s[o].kind = "open"
                 PROVE  \E c \in o + 1 .. pos : Multipart!IsBoundary(s[c])
      BY <1>0 DEF Outside
    <3>1. o # pos
      BY <2>1
    <3>2. pos \in o + 1 .. pos
      BY <1>0, <3>1
    <3> QED
      BY <2>1, <3>2
  <2>4. InHeaders(s)'
    BY <2>1, <2>2 DEF InHeaders
  <2>5. InContent(s)'
    BY <2>1 DEF InContent
  <2> QED
    BY <2>3, <2>4, <2>5
<1>3. CASE Multipart!EndHeaders
  <2>1. /\ s[pos].kind = "blank" /\ inHeaders /\ ~inHeaders' /\ partStart' = pos + 1
        /\ fields' = fields /\ xmlType' = xmlType
    BY <1>0, <1>3 DEF Multipart!EndHeaders, Multipart!AtLine
  <2>2. PICK o \in 1 .. pos - 1 :
          /\ s[o].kind = "open" /\ NoBoundary(s, o + 1, pos - 1)
          /\ \A j \in o + 1 .. pos - 1 : s[j].kind # "blank"
          /\ Collected(s, o, pos)
    BY <1>1, <2>1 DEF InHeaders
  <2>3. Multipart!HeadersEnd(s, o, pos)
    BY <1>0, <2>1, <2>2 DEF Multipart!HeadersEnd, NoBoundary
  <2>4. o \in 1 .. (pos + 1) - 2 /\ NoBoundary(s, pos + 1, (pos + 1) - 1)
    BY <1>0 DEF NoBoundary
  <2>6. \E p \in 1 .. partStart' - 2 :
          /\ Multipart!HeadersEnd(s, p, partStart' - 1)
          /\ NoBoundary(s, partStart', pos' - 1)
          /\ \A q \in {"name", "filename"}, x \in Multipart!Params \ {"none"} :
               fields'[q] = x <=> Multipart!Says(s, p, partStart' - 1, q, x)
          /\ xmlType' <=> Multipart!IsTyped(s, p, partStart' - 1)
    BY <1>0, <2>1, <2>2, <2>3, <2>4 DEF Collected
  <2>7. InContent(s)'
    BY <1>0, <2>6 DEF InContent, Collected
  <2> QED
    BY <2>1, <2>7, <1>0 DEF InHeaders, Outside
<1>4. CASE Multipart!FieldHeader \/ Multipart!TypeHeader
  <2>1. /\ s[pos].kind \in {"field", "type"} /\ inHeaders /\ inHeaders' /\ partStart' = partStart
    BY <1>0, <1>4 DEF Multipart!FieldHeader, Multipart!TypeHeader, Multipart!AtLine, AtSomeLine,
       MultipartInv, Multipart!MultipartTypeOK
  <2>2. PICK o \in 1 .. pos - 1 :
          /\ s[o].kind = "open" /\ NoBoundary(s, o + 1, pos - 1)
          /\ \A j \in o + 1 .. pos - 1 : s[j].kind # "blank"
          /\ Collected(s, o, pos)
    BY <1>1, <2>1 DEF InHeaders
  <2>3. o \in Nat /\ o < pos /\ o \in 1 .. pos
    BY <1>0
  <2>4. \A j \in o + 1 .. pos : j \in o + 1 .. pos - 1 \/ j = pos
    BY <1>0, <2>3
  <2>5. NoBoundary(s, o + 1, pos) /\ \A j \in o + 1 .. pos : s[j].kind # "blank"
    BY <2>1, <2>2, <2>4 DEF NoBoundary, Multipart!IsBoundary
  <2>6. ASSUME NEW p \in {"name", "filename"}, NEW x \in Multipart!Params \ {"none"}
        PROVE  fields'[p] = x <=> Multipart!Says(s, o, pos + 1, p, x)
    <3>1. Multipart!Says(s, o, pos + 1, p, x)
            <=> IF s[pos].kind = "field" /\ s[pos][p] # "none" THEN s[pos][p] = x
                ELSE Multipart!Says(s, o, pos, p, x)
      BY <1>0, <2>3, SaysNext
    <3>2. fields[p] = x <=> Multipart!Says(s, o, pos, p, x)
      BY <2>2 DEF Collected
    <3>3. CASE s[pos].kind = "field"
      <4>1. fields'[p] = IF s[pos][p] = "none" THEN fields[p] ELSE s[pos][p]
        BY <1>0, <1>4, <3>3 DEF Multipart!FieldHeader, Multipart!TypeHeader, Multipart!AtLine
      <4> QED
        BY <3>1, <3>2, <3>3, <4>1
    <3>4. CASE s[pos].kind # "field"
      <4>1. fields' = fields
        BY <1>0, <1>4, <3>4 DEF Multipart!FieldHeader, Multipart!TypeHeader, Multipart!AtLine
      <4> QED
        BY <3>1, <3>2, <3>4, <4>1
    <3> QED
      BY <3>3, <3>4
  <2>7. xmlType' <=> Multipart!IsTyped(s, o, pos + 1)
    <3>1. Multipart!IsTyped(s, o, pos + 1)
            <=> IF s[pos].kind = "type" THEN s[pos].xml ELSE Multipart!IsTyped(s, o, pos)
      BY <1>0, <2>3, TypedNext
    <3>2. xmlType <=> Multipart!IsTyped(s, o, pos)
      BY <2>2 DEF Collected
    <3>3. CASE s[pos].kind = "type"
      <4>1. xmlType' = s[pos].xml
        BY <1>0, <1>4, <3>3 DEF Multipart!FieldHeader, Multipart!TypeHeader, Multipart!AtLine
      <4> QED
        BY <3>1, <3>3, <4>1
    <3>4. CASE s[pos].kind # "type"
      <4>1. xmlType' = xmlType
        BY <1>0, <1>4, <3>4 DEF Multipart!FieldHeader, Multipart!TypeHeader, Multipart!AtLine
      <4> QED
        BY <3>1, <3>2, <3>4, <4>1
    <3> QED
      BY <3>3, <3>4
  <2>8. InHeaders(s)'
    <3>1. \E p \in 1 .. pos' - 1 :
            /\ s[p].kind = "open" /\ NoBoundary(s, p + 1, pos' - 1)
            /\ \A j \in p + 1 .. pos' - 1 : s[j].kind # "blank"
            /\ \A q \in {"name", "filename"}, x \in Multipart!Params \ {"none"} :
                 fields'[q] = x <=> Multipart!Says(s, p, pos', q, x)
            /\ xmlType' <=> Multipart!IsTyped(s, p, pos')
      BY <1>0, <2>2, <2>3, <2>5, <2>6, <2>7
    <3> QED
      BY <1>0, <3>1 DEF InHeaders, Collected
  <2>9. partStart' = 0
    BY <1>1, <2>1 DEF AtSomeLine, MultipartInv, Multipart!MultipartTypeOK
  <2> QED
    BY <2>1, <2>8, <2>9 DEF InContent, Outside
<1>5. CASE Multipart!OtherLine
  <2>1. /\ ~Multipart!IsBoundary(s[pos]) /\ s[pos].kind # "open"
        /\ inHeaders => s[pos].kind = "text"
        /\ inHeaders' = inHeaders /\ partStart' = partStart /\ fields' = fields
        /\ xmlType' = xmlType
    BY <1>0, <1>5 DEF Multipart!OtherLine, Multipart!AtLine, Multipart!IsBoundary,
       Multipart!Kinds, Multipart!part
  <2>2. \A a \in Nat : NoBoundary(s, a, pos - 1) => NoBoundary(s, a, pos)
    <3>1. \A a \in Nat : \A j \in a .. pos : j \in a .. pos - 1 \/ j = pos
      BY <1>0
    <3> QED
      BY <2>1, <3>1 DEF NoBoundary
  <2>3. InHeaders(s)'
    <3> SUFFICES ASSUME inHeaders PROVE InHeaders(s)'
      BY <2>1 DEF InHeaders
    <3>1. PICK o \in 1 .. pos - 1 :
            /\ s[o].kind = "open" /\ NoBoundary(s, o + 1, pos - 1)
            /\ \A j \in o + 1 .. pos - 1 : s[j].kind # "blank"
            /\ Collected(s, o, pos)
      BY <1>1 DEF InHeaders
    <3>2. o \in Nat /\ o < pos /\ o \in 1 .. pos /\ o + 1 \in Nat
      BY <1>0
    <3>3. \A j \in o + 1 .. pos : j \in o + 1 .. pos - 1 \/ j = pos
      BY <1>0, <3>2
    <3>4. NoBoundary(s, o + 1, pos) /\ \A j \in o + 1 .. pos : s[j].kind # "blank"
      BY <2>1, <2>2, <3>1, <3>2, <3>3
    <3>5. \A p \in {"name", "filename"}, x \in Multipart!Params \ {"none"} :
            fields[p] = x <=> Multipart!Says(s, o, pos + 1, p, x)
      <4>1. \A p, x : x # "none" =>
              (Multipart!Says(s, o, pos + 1, p, x) <=> Multipart!Says(s, o, pos, p, x))
        BY <1>0, <2>1, <3>2, SaysNext
      <4> QED
        BY <3>1, <4>1 DEF Collected
    <3>6. xmlType <=> Multipart!IsTyped(s, o, pos + 1)
      BY <1>0, <2>1, <3>1, <3>2, TypedNext DEF Collected
    <3>7. \E p \in 1 .. pos' - 1 :
            /\ s[p].kind = "open" /\ NoBoundary(s, p + 1, pos' - 1)
            /\ \A j \in p + 1 .. pos' - 1 : s[j].kind # "blank"
            /\ \A q \in {"name", "filename"}, x \in Multipart!Params \ {"none"} :
                 fields'[q] = x <=> Multipart!Says(s, p, pos', q, x)
            /\ xmlType' <=> Multipart!IsTyped(s, p, pos')
      BY <1>0, <2>1, <3>1, <3>2, <3>4, <3>5, <3>6
    <3> QED
      BY <1>0, <3>7 DEF InHeaders, Collected
  <2>4. InContent(s)'
    <3> SUFFICES ASSUME partStart > 0 PROVE InContent(s)'
      BY <2>1 DEF InContent
    <3>1. PICK o \in 1 .. partStart - 2 :
            /\ Multipart!HeadersEnd(s, o, partStart - 1) /\ NoBoundary(s, partStart, pos - 1)
            /\ Collected(s, o, partStart - 1)
      BY <1>1 DEF InContent
    <3>2. NoBoundary(s, partStart, pos)
      BY <1>1, <2>2, <3>1
    <3> QED
      BY <1>0, <2>1, <3>1, <3>2 DEF InContent, Collected
  <2>5. Outside(s)'
    <3> SUFFICES ASSUME ~inHeaders, partStart = 0,
                        NEW o \in 1 .. pos, s[o].kind = "open"
                 PROVE  \E c \in o + 1 .. pos : Multipart!IsBoundary(s[c])
      BY <1>0, <2>1 DEF Outside
    <3>1. o \in 1 .. pos - 1
      BY <1>0, <2>1
    <3>2. PICK c \in o + 1 .. pos - 1 : Multipart!IsBoundary(s[c])
      BY <1>1, <3>1 DEF Outside
    <3>3. c \in o + 1 .. pos
      BY <1>0, <3>1
    <3> QED
      BY <3>2, <3>3
  <2> QED
    BY <2>3, <2>4, <2>5
<1> QED
  BY <1>2, <1>3, <1>4, <1>5 DEF LineStep
LEMMA MultipartInitially == Multipart!Init => MultipartInv
<1> SUFFICES ASSUME Multipart!Init PROVE MultipartInv
  OBVIOUS
<1>1. /\ request \in MultipartRequests /\ vi = 1 /\ pos = 1 /\ inHeaders = FALSE
      /\ partStart = 0 /\ fields = Multipart!NoFields /\ xmlType = FALSE /\ threat = 0
      /\ log = << >> /\ pc = IF request.boundary THEN "lines" ELSE "done"
  BY DEF Multipart!Init
<1>2. /\ request.boundary \in BOOLEAN /\ request.values \in Seq(Seq(MLine))
      /\ 0 \in Results \cup {-1}
  BY <1>1, MultipartConstants DEF Multipart!MultipartAssumption, MLine
<1>3. Multipart!MultipartTypeOK
  <2>1. fields \in [{"name", "filename"} -> Multipart!Params]
    BY <1>1 DEF Multipart!NoFields, Multipart!Params
  <2>2. vi \in 1 .. Len(request.values) + 1
    BY <1>1, <1>2
  <2>3. pos \in Nat \ {0} /\ partStart \in 0 .. pos
    BY <1>1
  <2>4. inHeaders \in BOOLEAN /\ xmlType \in BOOLEAN /\ ~(inHeaders /\ partStart > 0)
    BY <1>1
  <2>5. threat \in Results \cup {-1} /\ pc \in {"lines", "done"}
    BY <1>1, <1>2
  <2> QED
    BY <2>1, <2>2, <2>3, <2>4, <2>5 DEF Multipart!MultipartTypeOK
<1>4. Place
  <2>1. vi <= Len(request.values) => Len(Multipart!lines) \in Nat
    <3> SUFFICES ASSUME vi <= Len(request.values) PROVE Len(Multipart!lines) \in Nat
      OBVIOUS
    <3>1. vi \in DOMAIN request.values
      BY <1>1, <1>2
    <3>2. Multipart!lines \in Seq(MLine)
      BY <1>2, <3>1 DEF Multipart!lines
    <3> QED
      BY <3>2
  <2> QED
    BY <1>1, <2>1 DEF Place, InHeaders, InContent, Outside
<1>5. Multipart!ScansItsParts
  <2>1. \A d \in Multipart!AllScans : ~Multipart!Passed(d)
    <3> SUFFICES ASSUME NEW d \in Multipart!AllScans, Multipart!Passed(d) PROVE FALSE
      OBVIOUS
    <3>1. /\ d.value \in DOMAIN request.values /\ d.at \in DOMAIN request.values[d.value]
          /\ request.boundary
      BY ScansArePlaced
    <3>2. request.values[d.value] \in Seq(MLine)
      BY <1>2, <3>1
    <3>3. d.value \in Nat /\ d.value >= 1 /\ d.at \in Nat /\ d.at >= 1
      BY <1>2, <3>1, <3>2
    <3> QED
      BY <1>1, <3>1, <3>3 DEF Multipart!Passed
  <2>2. {log[k].scan : k \in DOMAIN log} = {}
    BY <1>1
  <2>3. {d \in Multipart!AllScans : Multipart!Passed(d)} = {}
    BY <2>1
  <2>4. \A j, k \in DOMAIN log : j < k => Multipart!Precedes(log[j].scan, log[k].scan)
    BY <1>1
  <2> QED
    BY <2>2, <2>3, <2>4 DEF Multipart!ScansItsParts
<1>6. Multipart!FirstMatchIsReturned
  BY <1>1 DEF Multipart!FirstMatchIsReturned
<1>7. log \in Seq(Entry)
  BY <1>1
<1> QED
  BY <1>1, <1>2, <1>3, <1>4, <1>5, <1>6, <1>7 DEF MultipartInv

LEMMA MultipartNext ==
  ASSUME MultipartInv, [Multipart!Next]_(Multipart!bodyVars)
  PROVE  MultipartInv'
<1>1. CASE AtSomeLine /\ LineStep
  <2>1. Place'
    BY <1>1, PlaceKept
  <2>2. /\ request' = request /\ vi' = vi /\ pc' = pc /\ pos' = pos + 1
        /\ LogOK' /\ Multipart!ScansItsParts'
        /\ inHeaders' \in BOOLEAN /\ xmlType' \in BOOLEAN /\ partStart' \in 0 .. pos'
        /\ ~(inHeaders' /\ partStart' > 0)
        /\ fields' \in [{"name", "filename"} -> Multipart!Params]
    BY <1>1, LineStepKeeps
  <2>3. pc = "lines" /\ request.boundary /\ pos \in Nat /\ pos' \in Nat \ {0}
        /\ vi \in 1 .. Len(request.values) + 1
    BY <1>1, <2>2, LinesOfRequest DEF AtSomeLine, MultipartInv, Multipart!MultipartTypeOK
  <2>4. Multipart!MultipartTypeOK'
    BY <2>2, <2>3 DEF Multipart!MultipartTypeOK, LogOK
  <2> QED
    BY <2>1, <2>2, <2>3, <2>4 DEF MultipartInv, LogOK
<1>2. CASE Multipart!NextValue
  <2>1. /\ pc = "lines" /\ vi <= Len(request.values) /\ pos > Len(Multipart!lines)
        /\ vi' = vi + 1 /\ pos' = 1 /\ inHeaders' = FALSE /\ partStart' = 0
        /\ fields' = Multipart!NoFields /\ xmlType' = FALSE
        /\ request' = request /\ threat' = threat /\ pc' = pc /\ log' = log
    BY <1>2 DEF Multipart!NextValue, Multipart!BeginPart
  <2>2. /\ request.values \in Seq(Seq(MLine)) /\ vi \in 1 .. Len(request.values) + 1
        /\ vi \in DOMAIN request.values /\ Len(request.values) \in Nat
        /\ request.values[vi] \in Seq(MLine) /\ Multipart!lines = request.values[vi]
        /\ Len(Multipart!lines) \in Nat /\ pos \in Nat /\ vi \in Nat
    <3>1. request.values \in Seq(Seq(MLine))
      BY MultipartConstants DEF MultipartInv, Multipart!MultipartAssumption, MLine
    <3>2. vi \in 1 .. Len(request.values) + 1 /\ pos \in Nat
      BY DEF MultipartInv, Multipart!MultipartTypeOK
    <3>3. vi \in DOMAIN request.values
      BY <2>1, <3>1, <3>2
    <3>4. request.values[vi] \in Seq(MLine) /\ Multipart!lines = request.values[vi]
      BY <3>1, <3>3 DEF Multipart!lines
    <3> QED
      BY <3>1, <3>2, <3>3, <3>4
  <2>3. Multipart!MultipartTypeOK'
    <3>1. fields' \in [{"name", "filename"} -> Multipart!Params]
      BY <2>1 DEF Multipart!NoFields, Multipart!Params
    <3>2. vi' \in 1 .. Len(request'.values) + 1
      BY <2>1, <2>2
    <3>3. threat' \in Results \cup {-1}
      BY <2>1 DEF MultipartInv, Multipart!MultipartTypeOK
    <3>4. pos' \in Nat \ {0} /\ partStart' \in 0 .. pos'
      BY <2>1
    <3>5. inHeaders' \in BOOLEAN /\ xmlType' \in BOOLEAN /\ ~(inHeaders' /\ partStart' > 0)
      BY <2>1
    <3>6. pc' \in {"lines", "done"}
      BY <2>1
    <3> QED
      BY <3>1, <3>2, <3>3, <3>4, <3>5, <3>6 DEF Multipart!MultipartTypeOK
  <2>4. Place'
    <3>1. vi' <= Len(request'.values) => Len(Multipart!lines') \in Nat
      <4> SUFFICES ASSUME vi' <= Len(request'.values) PROVE Len(Multipart!lines') \in Nat
        OBVIOUS
      <4>1. vi + 1 \in DOMAIN request.values
        BY <2>1, <2>2
      <4>2. Multipart!lines' = request.values[vi + 1]
        BY <2>1 DEF Multipart!lines
      <4>3. Multipart!lines' \in Seq(MLine)
        BY <2>2, <4>1, <4>2
      <4> QED
        BY <4>3
    <3> QED
      BY <2>1, <3>1 DEF Place, InHeaders, InContent, Outside
  <2>5. Multipart!ScansItsParts'
    <3>1. Multipart!AllScans' = Multipart!AllScans
      BY <2>1 DEF Multipart!AllScans, Multipart!NamesOf, Multipart!ContentsOf
    <3>2. ASSUME NEW d \in Multipart!AllScans
          PROVE  Multipart!Passed(d)' <=> Multipart!Passed(d)
      <4>1. d.value \in DOMAIN request.values /\ d.at \in DOMAIN request.values[d.value]
        BY ScansArePlaced
      <4>2. request.values[d.value] \in Seq(MLine)
        BY <2>2, <4>1
      <4>3. d.value \in Nat /\ d.at \in 1 .. Len(request.values[d.value]) /\ d.at \in Nat
        BY <2>2, <4>1, <4>2
      <4>4. d.value = vi => d.at < pos
        BY <2>1, <2>2, <4>3
      <4>5. ~(d.at < 1)
        BY <4>3
      <4>6. d.value < vi + 1 <=> d.value < vi \/ d.value = vi
        BY <2>2, <4>3
      <4>7. Multipart!Passed(d)' <=> pc' = "done" \/ d.value < vi + 1
        BY <2>1, <4>5 DEF Multipart!Passed
      <4>8. Multipart!Passed(d) <=> pc = "done" \/ d.value < vi \/ d.value = vi
        BY <4>4 DEF Multipart!Passed
      <4> QED
        BY <2>1, <4>6, <4>7, <4>8
    <3> QED
      BY <2>1, <3>1, <3>2 DEF MultipartInv, Multipart!ScansItsParts, Multipart!Precedes
  <2>6. Multipart!FirstMatchIsReturned'
    BY <2>1 DEF MultipartInv, Multipart!FirstMatchIsReturned
  <2> QED
    BY <2>1, <2>3, <2>4, <2>5, <2>6 DEF MultipartInv
<1>3. CASE Multipart!Return
  <2>1. /\ pc = "lines" /\ vi > Len(request.values) /\ pc' = "done"
        /\ UNCHANGED <<request, vi, pos, inHeaders, partStart, fields, xmlType, threat, log>>
    BY <1>3 DEF Multipart!Return, Multipart!part
  <2>2. /\ request.values \in Seq(Seq(MLine)) /\ Len(request.values) \in Nat /\ vi \in Nat
    BY MultipartConstants DEF MultipartInv, Multipart!MultipartAssumption, MLine,
       Multipart!MultipartTypeOK
  <2>3. Multipart!MultipartTypeOK' /\ Place' /\ Multipart!FirstMatchIsReturned'
    BY <2>1 DEF MultipartInv, Multipart!MultipartTypeOK, Place, Multipart!FirstMatchIsReturned
  <2>4. Multipart!ScansItsParts'
    <3>1. Multipart!AllScans' = Multipart!AllScans
      BY <2>1 DEF Multipart!AllScans, Multipart!NamesOf, Multipart!ContentsOf
    <3>2. ASSUME NEW d \in Multipart!AllScans
          PROVE  Multipart!Passed(d)' <=> Multipart!Passed(d)
      <4>1. d.value \in DOMAIN request.values
        BY ScansArePlaced
      <4>2. d.value < vi
        BY <2>1, <2>2, <4>1
      <4> QED
        BY <2>1, <4>2 DEF Multipart!Passed
    <3> QED
      BY <2>1, <3>1, <3>2 DEF MultipartInv, Multipart!ScansItsParts, Multipart!Precedes
  <2> QED
    BY <2>1, <2>3, <2>4 DEF MultipartInv
<1>4. CASE UNCHANGED Multipart!bodyVars
  <2>1. UNCHANGED <<request, vi, pos, inHeaders, partStart, fields, xmlType, threat, pc, log>>
    BY <1>4 DEF Multipart!bodyVars, Multipart!part
  <2>2. Multipart!MultipartTypeOK' /\ Multipart!FirstMatchIsReturned'
    BY <2>1 DEF MultipartInv, Multipart!MultipartTypeOK, Multipart!FirstMatchIsReturned
  <2>3. Place'
    BY <2>1 DEF MultipartInv, Place, InHeaders, InContent, Outside, Collected,
       Multipart!lines
  <2>4. Multipart!AllScans' = Multipart!AllScans
    BY <2>1 DEF Multipart!AllScans, Multipart!NamesOf, Multipart!ContentsOf
  <2>5. Multipart!ScansItsParts'
    BY <2>1, <2>4 DEF MultipartInv, Multipart!ScansItsParts, Multipart!Precedes,
       Multipart!Passed
  <2> QED
    BY <2>1, <2>2, <2>3, <2>5 DEF MultipartInv
<1> QED
  <2>1. LineStep => Multipart!AtLine(Multipart!Kinds)
    BY DEF LineStep, Multipart!Boundary, Multipart!EndHeaders, Multipart!FieldHeader,
       Multipart!TypeHeader, Multipart!OtherLine, Multipart!AtLine, Multipart!Kinds
  <2>2. LineStep => AtSomeLine
    BY <2>1 DEF Multipart!AtLine, AtSomeLine
  <2>3. LineStep \/ Multipart!NextValue \/ Multipart!Return \/ UNCHANGED Multipart!bodyVars
    BY DEF Multipart!Next, Multipart!Step, Multipart!Finished, LineStep
  <2> QED
    BY <1>1, <1>2, <1>3, <1>4, <2>2, <2>3

THEOREM MultipartInvariant == Spec => [](body = "multipart" => MultipartInv)
<1>1. Init => (body = "multipart" => MultipartInv)
  BY MultipartInitially DEF Init
<1>2. (body = "multipart" => MultipartInv) /\ [Next]_vars => (body = "multipart" => MultipartInv)'
  <2> SUFFICES ASSUME body = "multipart" => MultipartInv, [Next]_vars, body' = "multipart"
               PROVE  MultipartInv'
    OBVIOUS
  <2>1. body = "multipart" /\ [Multipart!Next]_(Multipart!bodyVars)
    BY DEF Next, vars, multipartOnly, Multipart!bodyVars, Multipart!part
  <2> QED
    BY <2>1, MultipartNext
<1> QED
  BY <1>1, <1>2, PTL DEF Spec

\* lumina_scan_multipart_file_collections, for bodies of any lines: what is scanned
\* are the names and the XML of its parts, each once, in order and under its own
\* headers, and the first match is what is returned.
THEOREM PartsAlwaysScanned == Spec => []PartsOfABodyAreScanned
<1>1. (body = "multipart" => MultipartInv) => PartsOfABodyAreScanned
  BY DEF MultipartInv, PartsOfABodyAreScanned
<1> QED
  BY <1>1, MultipartInvariant, PTL

-----------------------------------------------------------------------------
(* XML documents                                                            *)

\* Characters; the last ones are those that references stand for, or are made of.
Chars == STRING \cup {"&", ";", "<"}
Text == Seq(Chars)
Scanned == Nat \X Text \X Results

XmlInv ==
  /\ docs \in Calls /\ wide \in BOOLEAN
  /\ Xml!XmlTypeOK
  /\ value \in Text /\ log \in Seq(Scanned) /\ returned \in Seq(Results \cup {-1})
  /\ full \in BOOLEAN /\ depth \in Int
  /\ \A k \in DOMAIN log : log[k][1] \in 1 .. di /\ (log[k][1] = di => pc = "read")
  /\ pc = "read" => di <= Len(docs) /\ threat = Xml!LastHit(di)
  /\ Xml!ResultIsOwn

LEMMA OneIsText == ASSUME NEW c \in Chars PROVE << c >> \in Text
  BY DEF Text

LEMMA WiderSequences ==
  ASSUME NEW S, NEW T, S \subseteq T, NEW s \in Seq(S)
  PROVE  s \in Seq(T)
  OBVIOUS

LEMMA DocumentsHaveTexts ==
  ASSUME NEW c \in Calls
  PROVE  /\ Len(c) \in Nat /\ DOMAIN c = 1 .. Len(c)
         /\ \A d \in 1 .. Len(c) : c[d].text \in Text
<1>1. \A s \in Seq(STRING) : s \in Text
  <2>1. STRING \subseteq Chars
    BY DEF Chars
  <2> QED
    BY <2>1, WiderSequences DEF Text
<1> QED
  BY <1>1, XmlConstants DEF Xml!XmlAssumption

LEMMA Multiples ==
  ASSUME NEW n \in Nat, NEW c \in Nat \ {0}
  PROVE  c * (n \div c) \in 0 .. n
<1>1. n \div c \in Nat /\ n = c * (n \div c) + (n % c) /\ n % c \in 0 .. c - 1
  OBVIOUS
<1>2. c * (n \div c) >= 0
  BY <1>1
<1> QED
  BY <1>1, <1>2

LEMMA LeastOfNumbers ==
  ASSUME NEW S \in SUBSET Nat, S # {}
  PROVE  \E m \in S : \A n \in S : m <= n
<1>1. PICK m \in S : \A n \in S : ~(<<n, m>> \in OpToRel(<, Nat))
  BY WFMin, NatLessThanWellFounded
<1>2. \A n \in S : <<n, m>> \in OpToRel(<, Nat) <=> n < m
  BY DEF OpToRel
<1>3. \A n \in S : n \in Nat /\ m \in Nat /\ ~(n < m)
  BY <1>1, <1>2
<1> QED
  BY <1>3

LEMMA GreatestOfNumbers ==
  ASSUME NEW N \in Nat, NEW S \in SUBSET (0 .. N), S # {}
  PROVE  \E m \in S : \A n \in S : n <= m
<1> DEFINE T == {N - n : n \in S}
<1>1. T \in SUBSET Nat /\ T # {}
  <2>1. \A n \in S : n \in Nat /\ n <= N
    OBVIOUS
  <2>2. \A n \in S : N - n \in Nat
    BY <2>1
  <2> QED
    BY <2>2
<1>2. PICK t \in T : \A n \in T : t <= n
  BY <1>1, LeastOfNumbers
<1>3. PICK m \in S : t = N - m
  BY <1>2
<1>4. \A n \in S : N - m <= N - n
  BY <1>2, <1>3
<1> QED
  BY <1>3, <1>4

LEMMA LastIs ==
  ASSUME NEW S, NEW n \in Nat, S \subseteq 0 .. n, S # {}
  PROVE  Xml!Max(S) \in S /\ \A y \in S : Xml!Max(S) >= y
<1>1. \E x \in S : \A y \in S : x >= y
  BY GreatestOfNumbers
<1> QED
  BY <1>1 DEF Xml!Max

LEMMA LandingFound ==
  ASSUME Xml!text \in Text, Chunk \in Nat \ {0}, NEW k \in 1 .. Xml!size + 1
  PROVE  /\ Xml!Landing(k) \in k .. Xml!size + 1
         /\ \A j \in k .. Xml!Landing(k) - 1 : Xml!text[j] \notin Xml!Delimiters
<1> DEFINE n == Xml!size
           last == k + Chunk * ((n - k + 1) \div Chunk)
           I == {j \in k .. last - 1 : Xml!text[j] \in Xml!Delimiters}
<1>1. n \in Nat
  BY DEF Xml!size
<1>2. last \in k .. n + 1
  <2>1. n - k + 1 \in Nat
    BY <1>1
  <2>2. Chunk * ((n - k + 1) \div Chunk) \in 0 .. n - k + 1
    BY <2>1, Multiples
  <2> HIDE DEF n
  <2> QED
    BY <1>1, <2>2
<1>3. Xml!Landing(k) = IF I = {} THEN last ELSE Xml!Min(I)
  <2>1. I # {} => Xml!Min(I) # 0
    <3> SUFFICES ASSUME I # {} PROVE Xml!Min(I) # 0
      OBVIOUS
    <3>1. I \in SUBSET Nat
      BY <1>2
    <3>2. \E x \in I : \A y \in I : x <= y
      BY <3>1, LeastOfNumbers
    <3>3. Xml!Min(I) \in I
      BY <3>2 DEF Xml!Min
    <3> QED
      BY <3>3
  <2> QED
    BY <2>1 DEF Xml!Landing, Xml!SelectInSubSeq
<1>4. CASE I = {}
  BY <1>2, <1>3, <1>4
<1>5. CASE I # {}
  <2>1. I \in SUBSET Nat
    BY <1>2
  <2>2. \E x \in I : \A y \in I : x <= y
    BY <1>5, <2>1, LeastOfNumbers
  <2>3. Xml!Min(I) \in I /\ \A y \in I : Xml!Min(I) <= y
    BY <2>2 DEF Xml!Min
  <2>4. Xml!Landing(k) = Xml!Min(I)
    BY <1>3, <1>5
  <2>5. Xml!Landing(k) \in k .. last - 1
    BY <2>3, <2>4
  <2>6. ASSUME NEW j \in k .. Xml!Landing(k) - 1 PROVE Xml!text[j] \notin Xml!Delimiters
    <3>1. j \in k .. last - 1 /\ ~(Xml!Min(I) <= j)
      BY <1>2, <2>4, <2>5
    <3> QED
      BY <2>3, <3>1
  <2> HIDE DEF I
  <2>7. Xml!Landing(k) \in k .. n + 1
    BY <1>1, <1>2, <2>5
  <2> QED
    BY <2>6, <2>7
<1> QED
  BY <1>4, <1>5
-----------------------------------------------------------------------------
(* What one step of the XML parser does to the record of the scans          *)

Logs ==
  \/ UNCHANGED <<threat, log>>
  \/ \E v \in Text, r \in Results :
       /\ threat' = IF r # 0 THEN r ELSE threat
       /\ log' = Append(log, <<di, v, r>>)

LEMMA HitsAppended ==
  ASSUME log \in Seq(Scanned), NEW e \in Scanned, log' = Append(log, e), NEW d
  PROVE  Xml!LastHit(d)' = IF e[1] = d /\ e[3] # 0 THEN e[3] ELSE Xml!LastHit(d)
<1> DEFINE n == Len(log)
           H == Xml!Hits(d)
           G == {k \in DOMAIN log' : log'[k][1] = d /\ log'[k][3] # 0}
<1>1. /\ n \in Nat /\ DOMAIN log = 1 .. n /\ DOMAIN log' = 1 .. n + 1
      /\ \A k \in 1 .. n : log'[k] = log[k]
      /\ log'[n + 1] = e
  BY AppendProperties
<1>2. H \subseteq 1 .. n
  BY <1>1 DEF Xml!Hits
<1>3. Xml!LastHit(d)' = IF G = {} THEN 0 ELSE log'[Xml!Max(G)][3]
  BY DEF Xml!LastHit, Xml!Hits
<1>4. Xml!LastHit(d) = IF H = {} THEN 0 ELSE log[Xml!Max(H)][3]
  BY DEF Xml!LastHit
<1>5. CASE e[1] = d /\ e[3] # 0
  <2>1. n + 1 \in G /\ G \subseteq 0 .. n + 1 /\ G # {} /\ n + 1 \in Nat
    BY <1>1, <1>5
  <2> HIDE DEF G
  <2>2. Xml!Max(G) \in G /\ Xml!Max(G) >= n + 1
    BY <2>1, LastIs
  <2>3. Xml!Max(G) = n + 1
    <3>1. Xml!Max(G) \in 0 .. n + 1
      BY <2>1, <2>2
    <3> QED
      BY <1>1, <2>2, <3>1
  <2> QED
    BY <1>1, <1>3, <1>5, <2>1, <2>3
<1>6. CASE ~(e[1] = d /\ e[3] # 0)
  <2>1. G = H
    <3>1. \A k : k \in 1 .. n + 1 <=> (k \in 1 .. n \/ k = n + 1)
      BY <1>1
    <3>2. n + 1 \notin 1 .. n
      BY <1>1
    <3>3. \A k : k \in G <=> k \in H
      BY <1>1, <1>6, <3>1, <3>2 DEF Xml!Hits
    <3> QED
      BY <3>3
  <2>2. H # {} => Xml!Max(H) \in 1 .. n
    <3>1. H \subseteq 0 .. n
      BY <1>1, <1>2
    <3> QED
      BY <1>1, <1>2, <3>1, LastIs
  <2> HIDE DEF H, G
  <2> QED
    BY <1>1, <1>3, <1>4, <1>6, <2>1, <2>2
<1> QED
  BY <1>5, <1>6

LEMMA LogKept ==
  ASSUME XmlInv, pc = "read", Logs
  PROVE  /\ log' \in Seq(Scanned) /\ threat' \in Results
         /\ \A k \in DOMAIN log' : log'[k][1] \in 1 .. di
         /\ \A d \in Nat : Xml!LastHit(d)' = IF d = di THEN threat' ELSE Xml!LastHit(d)
<1>1. /\ log \in Seq(Scanned) /\ threat \in Results /\ di \in Nat /\ di >= 1
      /\ threat = Xml!LastHit(di) /\ \A k \in DOMAIN log : log[k][1] \in 1 .. di
  BY DEF XmlInv, Xml!XmlTypeOK
<1>2. CASE UNCHANGED <<threat, log>>
  <2>1. \A d \in Nat : Xml!LastHit(d)' = Xml!LastHit(d)
    BY <1>2 DEF Xml!LastHit, Xml!Hits
  <2> QED
    BY <1>1, <1>2, <2>1
<1>3. ASSUME NEW v \in Text, NEW r \in Results,
             threat' = IF r # 0 THEN r ELSE threat, log' = Append(log, <<di, v, r>>)
      PROVE  /\ log' \in Seq(Scanned) /\ threat' \in Results
             /\ \A k \in DOMAIN log' : log'[k][1] \in 1 .. di
             /\ \A d \in Nat : Xml!LastHit(d)' = IF d = di THEN threat' ELSE Xml!LastHit(d)
  <2> DEFINE e == <<di, v, r>>
  <2>1. e \in Scanned /\ e[1] = di /\ e[3] = r
    BY <1>1 DEF Scanned
  <2>2. log' = Append(log, e)
    BY <1>3
  <2> HIDE DEF e
  <2>3. \A d \in Nat : Xml!LastHit(d)' = IF e[1] = d /\ e[3] # 0 THEN e[3] ELSE Xml!LastHit(d)
    BY <1>1, <2>1, <2>2, HitsAppended
  <2>4. log' \in Seq(Scanned)
    BY <1>1, <2>1, <2>2, AppendProperties
  <2>5. \A k \in DOMAIN log' : log'[k][1] \in 1 .. di
    <3>1. \A k \in DOMAIN log' : log'[k] = e \/ (k \in DOMAIN log /\ log'[k] = log[k])
      BY <1>1, <2>1, <2>2, AppendProperties
    <3> QED
      BY <1>1, <2>1, <3>1
  <2>6. threat' \in Results
    BY <1>1, <1>3
  <2>7. \A d \in Nat : Xml!LastHit(d)' = IF d = di THEN threat' ELSE Xml!LastHit(d)
    BY <1>1, <1>3, <2>1, <2>3
  <2> QED
    BY <2>4, <2>5, <2>6, <2>7
<1> QED
  BY <1>2, <1>3 DEF Logs

\* The parser goes on with the document.
Continues ==
  /\ pc = "read" /\ pc' = "read"
  /\ UNCHANGED <<docs, wide, di, returned>>
  /\ state' \in Xml!States /\ before' \in {"text"} \cup Xml!Quotes
  /\ i' \in i .. Xml!size + 1 /\ textStart' \in 1 .. Xml!size + 1 /\ entityStart' \in 1 .. i'
  /\ depth' \in Int /\ depth' <= MaxNesting /\ attrs' \in 0 .. MaxAttributes
  /\ value' \in Text /\ Len(value') <= MaxValue /\ full' \in BOOLEAN

LEMMA ContinuesKeeps ==
  ASSUME XmlInv, Continues, Logs
  PROVE  XmlInv'
<1>1. /\ log' \in Seq(Scanned) /\ threat' \in Results
      /\ \A k \in DOMAIN log' : log'[k][1] \in 1 .. di
      /\ \A d \in Nat : Xml!LastHit(d)' = IF d = di THEN threat' ELSE Xml!LastHit(d)
  BY LogKept DEF Continues
<1>2. /\ di \in Nat /\ di >= 1 /\ di <= Len(docs) /\ i \in 1 .. Xml!size + 1 /\ Xml!size \in Nat
      /\ returned \in Seq(Results \cup {-1}) /\ Len(returned) = di - 1
      /\ docs \in Calls /\ wide \in BOOLEAN
  <2>1. docs \in Calls /\ di \in 1 .. Len(docs) + 1 /\ di <= Len(docs)
    BY DEF Continues, XmlInv, Xml!XmlTypeOK
  <2>2. docs[di].text \in Text /\ Len(docs) \in Nat
    BY <2>1, DocumentsHaveTexts
  <2>3. Xml!size \in Nat
    BY <2>2 DEF Xml!size, Xml!text, Text
  <2>4. i \in 1 .. Xml!size + 1 /\ Len(returned) = di - 1
    BY DEF Continues, XmlInv, Xml!XmlTypeOK
  <2>5. returned \in Seq(Results \cup {-1}) /\ wide \in BOOLEAN
    BY DEF XmlInv
  <2> QED
    BY <2>1, <2>2, <2>3, <2>4, <2>5
<1>3. Xml!XmlTypeOK'
  <2>1. Xml!size' = Xml!size
    BY DEF Continues, Xml!size, Xml!text
  <2>2. i' \in 1 .. Xml!size' + 1
    BY <1>2, <2>1 DEF Continues
  <2>3. di' \in 1 .. Len(docs') + 1 /\ Len(returned') = di' - 1
    BY DEF Continues, XmlInv, Xml!XmlTypeOK
  <2> QED
    BY <1>1, <2>1, <2>2, <2>3 DEF Continues, Xml!XmlTypeOK
<1>4. Xml!ResultIsOwn'
  <2>1. \A d \in DOMAIN returned : d \in Nat /\ d # di
    BY <1>2
  <2> QED
    BY <1>1, <2>1 DEF Continues, XmlInv, Xml!ResultIsOwn, Xml!Limit
<1>5. threat' = Xml!LastHit(di)'
  <2>1. \A d \in Nat : d = di => Xml!LastHit(d)' = threat'
    BY <1>1
  <2>2. Xml!LastHit(di)' = (IF Xml!Hits(di)' = {} THEN 0 ELSE log'[Xml!Max(Xml!Hits(di)')][3])
    BY DEF Xml!LastHit
  <2>3. Xml!Hits(di)' = {k \in DOMAIN log' : log'[k][1] = di /\ log'[k][3] # 0}
    BY DEF Xml!Hits, Continues
  <2>4. PICK d \in Nat : d = di
    BY <1>2
  <2>5. Xml!LastHit(d)' = (IF Xml!Hits(d)' = {} THEN 0 ELSE log'[Xml!Max(Xml!Hits(d)')][3])
    BY DEF Xml!LastHit
  <2>6. Xml!Hits(d)' = {k \in DOMAIN log' : log'[k][1] = di /\ log'[k][3] # 0}
    BY <2>4 DEF Xml!Hits
  <2>7. Xml!LastHit(d)' = threat'
    BY <2>1, <2>4
  <2> QED
    BY <2>2, <2>3, <2>5, <2>6, <2>7
<1> QED
  BY <1>1, <1>2, <1>3, <1>4, <1>5 DEF Continues, XmlInv
LEMMA ReturnKeeps ==
  ASSUME XmlInv, di <= Len(docs), UNCHANGED <<docs, wide>>,
         NEW r \in Results \cup {-1}, Xml!Return(r),
         log' \in Seq(Scanned), threat' \in Results,
         \A k \in DOMAIN log' : log'[k][1] \in 1 .. di,
         \A d \in Nat : d # di => Xml!LastHit(d)' = Xml!LastHit(d),
         r = -1 \/ \A d \in Nat : d = di => Xml!LastHit(d)' = r,
         state' \in Xml!States, before' \in {"text"} \cup Xml!Quotes, depth' \in Int,
         value' \in Text, Len(value') <= MaxValue, full' \in BOOLEAN
  PROVE  XmlInv'
<1>1. /\ di \in Nat /\ di >= 1 /\ Len(docs) \in Nat /\ docs \in Calls /\ wide \in BOOLEAN
      /\ returned \in Seq(Results \cup {-1}) /\ Len(returned) = di - 1
  <2>1. docs \in Calls /\ wide \in BOOLEAN /\ returned \in Seq(Results \cup {-1})
    BY DEF XmlInv
  <2>2. di \in 1 .. Len(docs) + 1 /\ Len(returned) = di - 1
    BY DEF XmlInv, Xml!XmlTypeOK
  <2> QED
    BY <2>1, <2>2, DocumentsHaveTexts
<1>2. returned' = Append(returned, r) /\ di' = di + 1 /\ pc' = "idle"
  BY DEF Xml!Return
<1>3. /\ returned' \in Seq(Results \cup {-1}) /\ Len(returned') = di
      /\ DOMAIN returned = 1 .. di - 1 /\ DOMAIN returned' = 1 .. di
      /\ \A d \in 1 .. di - 1 : returned'[d] = returned[d]
      /\ returned'[di] = r
  <2>1. /\ returned' \in Seq(Results \cup {-1}) /\ Len(returned') = Len(returned) + 1
        /\ \A d \in 1 .. Len(returned) : returned'[d] = returned[d]
        /\ returned'[Len(returned) + 1] = r
    BY <1>1, <1>2, AppendProperties
  <2>2. Len(returned) + 1 = di
    BY <1>1
  <2> QED
    BY <1>1, <2>1, <2>2
<1>4. Xml!XmlTypeOK'
  <2>1. di' \in 1 .. Len(docs') + 1 /\ Len(returned') = di' - 1
    BY <1>1, <1>2, <1>3
  <2> QED
    BY <1>2, <2>1 DEF Xml!XmlTypeOK
<1>5. \A k \in DOMAIN log' : log'[k][1] \in 1 .. di' /\ log'[k][1] # di'
  BY <1>1, <1>2
<1>6. Xml!ResultIsOwn'
  <2> SUFFICES ASSUME NEW d \in 1 .. di PROVE returned'[d] \in {-1, Xml!LastHit(d)'}
    BY <1>3 DEF Xml!ResultIsOwn, Xml!Limit
  <2>1. CASE d = di
    BY <1>1, <1>3, <2>1
  <2>2. CASE d # di
    <3>1. d \in 1 .. di - 1 /\ d \in Nat
      BY <1>1, <2>2
    <3>2. returned[d] \in {-1, Xml!LastHit(d)}
      BY <1>3, <3>1 DEF XmlInv, Xml!ResultIsOwn, Xml!Limit
    <3> QED
      BY <1>3, <2>2, <3>1, <3>2
  <2> QED
    BY <2>1, <2>2
<1> QED
  BY <1>1, <1>2, <1>3, <1>4, <1>5, <1>6 DEF XmlInv

-----------------------------------------------------------------------------
(* The texts that a step takes                                              *)

LEMMA PartsOfText ==
  ASSUME NEW s \in Text, NEW a \in Nat \ {0}, NEW b \in Int, b <= Len(s)
  PROVE  SubSeq(s, a, b) \in Text
<1>1. CASE a <= b
  BY <1>1, SubSeqProperties DEF Text
<1>2. CASE ~(a <= b)
  BY <1>2 DEF Text
<1> QED
  BY <1>1, <1>2

LEMMA AddFits ==
  ASSUME NEW v \in Text, Len(v) <= MaxValue, NEW f \in Text
  PROVE  Xml!Add(v, f) \in Text /\ Len(Xml!Add(v, f)) <= MaxValue
<1>1. MaxValue \in Nat
  BY XmlConstants DEF Xml!XmlAssumption
<1>2. v \o f \in Text /\ Len(v \o f) = Len(v) + Len(f)
  BY ConcatProperties DEF Text
<1> QED
  BY <1>1, <1>2 DEF Xml!Add

LEMMA Reading ==
  ASSUME XmlInv, pc = "read"
  PROVE  /\ di \in 1 .. Len(docs) /\ Len(docs) \in Nat
         /\ Xml!text \in Text /\ Xml!size \in Nat /\ Xml!size = Len(Xml!text)
         /\ i \in 1 .. Xml!size + 1 /\ textStart \in 1 .. Xml!size + 1
         /\ entityStart \in 1 .. i
         /\ Xml!here \in i .. Xml!size + 1
         /\ Xml!Pending \in Text
<1>1. docs \in Calls /\ di \in 1 .. Len(docs) + 1 /\ di <= Len(docs)
  BY DEF XmlInv, Xml!XmlTypeOK
<1>2. /\ Len(docs) \in Nat /\ DOMAIN docs = 1 .. Len(docs)
      /\ \A d \in DOMAIN docs : docs[d].text \in Text
  BY <1>1, DocumentsHaveTexts
<1>3. di \in 1 .. Len(docs) /\ Xml!text \in Text
  BY <1>1, <1>2 DEF Xml!text
<1>4. Xml!size \in Nat /\ Xml!size = Len(Xml!text)
  BY <1>3 DEF Xml!size, Text
<1>5. i \in 1 .. Xml!size + 1 /\ textStart \in 1 .. Xml!size + 1 /\ entityStart \in 1 .. i
  BY DEF XmlInv, Xml!XmlTypeOK
<1>6. Xml!here \in i .. Xml!size + 1
  <2>1. Chunk \in Nat \ {0}
    BY XmlConstants DEF Xml!XmlAssumption
  <2>2. Xml!Landing(i) \in i .. Xml!size + 1
    BY <1>3, <1>5, <2>1, LandingFound
  <2> QED
    BY <1>4, <1>5, <2>2 DEF Xml!here
<1>7. Xml!Pending \in Text
  <2>1. Xml!here - 1 \in Int /\ Xml!here - 1 <= Len(Xml!text) /\ textStart \in Nat \ {0}
    BY <1>4, <1>5, <1>6
  <2> QED
    BY <1>3, <2>1, PartsOfText DEF Xml!Pending
<1> QED
  BY <1>2, <1>3, <1>4, <1>5, <1>6, <1>7

LEMMA DecodedIsText ==
  ASSUME NEW name \in Text, NEW d \in Xml!Decoded(name)
  PROVE  d \in Text
<1> DEFINE asIs == <<"&">> \o name \o <<";">>
<1>1. asIs \in Text
  <2>1. <<"&">> \in Seq(Chars) /\ <<";">> \in Seq(Chars)
    <3>1. "&" \in Chars /\ ";" \in Chars
      BY DEF Chars
    <3> QED
      BY <3>1, OneIsText DEF Text
  <2> QED
    BY <2>1, ConcatProperties DEF Text
<1>2. <<"<">> \in Text /\ << >> \in Text
  <2>1. "<" \in Chars
    BY DEF Chars
  <2> QED
    BY <2>1 DEF Text
<1> HIDE DEF asIs
<1>3. d \in {<<"<">>, << >>, asIs}
  BY DEF Xml!Decoded, asIs
<1> QED
  BY <1>1, <1>2, <1>3

LEMMA FlushLogs ==
  ASSUME NEW v \in Text, Xml!Flush(v)
  PROVE  value' = << >> /\ Logs
BY DEF Xml!Flush, Logs
-----------------------------------------------------------------------------
(* Steps                                                                    *)

\* A step that only moves on.
Moves ==
  /\ pc = "read" /\ pc' = "read" /\ Xml!here <= Xml!size
  /\ UNCHANGED <<docs, wide, di, returned, before, value, full, threat, log>>
  /\ state' \in Xml!States
  /\ i' \in Xml!here .. Xml!size + 1
  /\ textStart' \in {textStart, i'}
  /\ entityStart' = entityStart
  /\ depth' \in {depth, depth - 1} \/ (depth' = depth + 1 /\ depth' <= MaxNesting)
  /\ attrs' \in {attrs, 0} \/ (attrs' = attrs + 1 /\ attrs' <= MaxAttributes)

LEMMA MovesKeeps ==
  ASSUME XmlInv, Moves
  PROVE  XmlInv'
<1>1. /\ Xml!size \in Nat /\ i \in 1 .. Xml!size + 1 /\ textStart \in 1 .. Xml!size + 1
      /\ entityStart \in 1 .. i /\ Xml!here \in i .. Xml!size + 1
  BY Reading DEF Moves
<1>2. /\ depth \in Int /\ depth <= MaxNesting /\ attrs \in 0 .. MaxAttributes
      /\ MaxNesting \in Nat /\ MaxAttributes \in Nat
      /\ before \in {"text"} \cup Xml!Quotes /\ Len(value) <= MaxValue
  BY XmlConstants DEF Moves, XmlInv, Xml!XmlTypeOK, Xml!XmlAssumption
<1>3. i' \in i .. Xml!size + 1 /\ entityStart' \in 1 .. i'
  BY <1>1 DEF Moves
<1>4. textStart' \in 1 .. Xml!size + 1
  BY <1>1, <1>3 DEF Moves
<1>5. depth' \in Int /\ depth' <= MaxNesting
  BY <1>2 DEF Moves
<1>6. attrs' \in 0 .. MaxAttributes
  BY <1>2 DEF Moves
<1>7. value \in Text /\ full \in BOOLEAN
  BY DEF XmlInv
<1>8. Continues
  BY <1>2, <1>3, <1>4, <1>5, <1>6, <1>7 DEF Continues, Moves
<1> QED
  BY <1>8, ContinuesKeeps DEF Moves, Logs

LEMMA AheadInside ==
  ASSUME XmlInv, pc = "read", NEW k \in Nat, Xml!Ahead(k) # "end"
  PROVE  Xml!here + k <= Xml!size
BY DEF Xml!Ahead

Quiet ==
  \/ Xml!Pass \/ Xml!Malformed \/ Xml!EndTag \/ Xml!SelfClosing \/ Xml!TagEnds
  \/ Xml!GoesOn \/ Xml!CdataBegins \/ Xml!CommentEnds \/ Xml!PiEnds

LEMMA QuietMoves ==
  ASSUME XmlInv, Quiet
  PROVE  Moves
<1>1. pc = "read" /\ Xml!here <= Xml!size
  <2>1. CASE Xml!Pass
    BY <2>1 DEF Xml!Pass, Xml!At
  <2>2. CASE ~Xml!Pass
    BY <2>2 DEF Quiet, Xml!Malformed, Xml!EndTag, Xml!SelfClosing, Xml!TagEnds,
       Xml!GoesOn, Xml!InReference, Xml!CdataBegins, Xml!CommentEnds, Xml!PiEnds, Xml!At
  <2> QED
    BY <2>1, <2>2
<1>2. Xml!size \in Nat /\ Xml!here \in i .. Xml!size + 1 /\ i \in 1 .. Xml!size + 1
  BY <1>1, Reading
<1>3. Xml!here + 1 \in Xml!here .. Xml!size + 1
  BY <1>1, <1>2
<1>4. /\ "text" \in Xml!States /\ Xml!Quotes \subseteq Xml!States
      /\ {"bang", "pi", "between", "attrName", "afterName", "bangDash", "doctype", "comment",
          "endTag", "cdata"} \subseteq Xml!States
      /\ state \in Xml!States
  BY DEF Xml!States, Xml!Quotes, XmlInv, Xml!XmlTypeOK
<1>5. CASE Xml!Pass
  <2>1. i' = Xml!here + 1
    BY <1>5 DEF Xml!Pass, Xml!Move
  <2>2. state' \in Xml!States
    BY <1>4, <1>5 DEF Xml!Pass, Xml!Move
  <2>3. UNCHANGED <<docs, wide, di, before, textStart, entityStart, depth, attrs,
                    value, threat, pc, returned, full, log>>
    BY <1>5 DEF Xml!Pass
  <2> QED
    BY <1>1, <1>3, <2>1, <2>2, <2>3 DEF Moves
<1>6. CASE Xml!Malformed
  BY <1>1, <1>3, <1>4, <1>6 DEF Xml!Malformed, Xml!Move, Moves
<1>7. CASE Xml!EndTag
  BY <1>1, <1>3, <1>4, <1>7 DEF Xml!EndTag, Xml!Move, Moves
<1>8. CASE Xml!SelfClosing
  BY <1>1, <1>3, <1>4, <1>8 DEF Xml!SelfClosing, Xml!Move, Moves
<1>9. CASE Xml!TagEnds
  BY <1>1, <1>3, <1>4, <1>9 DEF Xml!TagEnds, Xml!Move, Moves
<1>10. CASE Xml!GoesOn
  BY <1>1, <1>3, <1>4, <1>10 DEF Xml!GoesOn, Xml!Move, Moves
<1>11. CASE Xml!CdataBegins
  BY <1>1, <1>3, <1>4, <1>11 DEF Xml!CdataBegins, Xml!Move, Moves
<1>12. CASE Xml!CommentEnds
  <2>1. Xml!Ahead(2) # "end"
    BY <1>12 DEF Xml!CommentEnds
  <2>2. Xml!here + 2 <= Xml!size
    BY <1>1, <2>1, AheadInside
  <2>3. Xml!here + 3 \in Xml!here .. Xml!size + 1
    BY <1>2, <2>2
  <2> QED
    BY <1>1, <1>4, <1>12, <2>3 DEF Xml!CommentEnds, Xml!MarkupEnds, Xml!Move, Moves
<1>13. CASE Xml!PiEnds
  <2>1. Xml!Ahead(1) # "end"
    BY <1>13 DEF Xml!PiEnds
  <2>2. Xml!here + 1 <= Xml!size
    BY <1>1, <2>1, AheadInside
  <2>3. Xml!here + 2 \in Xml!here .. Xml!size + 1
    BY <1>2, <2>2
  <2> QED
    BY <1>1, <1>4, <1>13, <2>3 DEF Xml!PiEnds, Xml!MarkupEnds, Xml!Move, Moves
<1> QED
  BY <1>5, <1>6, <1>7, <1>8, <1>9, <1>10, <1>11, <1>12, <1>13 DEF Quiet

\* A step that adds a fragment to the value.
LEMMA FragmentFits ==
  ASSUME XmlInv, NEW f \in Text, Xml!Fragment(f)
  PROVE  value' \in Text /\ Len(value') <= MaxValue /\ full' \in BOOLEAN
<1>1. value \in Text /\ full \in BOOLEAN /\ Len(value) <= MaxValue
  BY DEF XmlInv, Xml!XmlTypeOK
<1>2. value' = Xml!Add(value, f) /\ full' \in BOOLEAN
  BY <1>1 DEF Xml!Fragment
<1> QED
  BY <1>1, <1>2, AddFits

Fragments ==
  \/ Xml!TextEnds \/ Xml!Reference \/ Xml!ReferenceEnds \/ Xml!NoReference \/ Xml!CdataEnds

LEMMA FragmentsKeep ==
  ASSUME XmlInv, Fragments
  PROVE  XmlInv'
<1>1. pc = "read" /\ Xml!here <= Xml!size
  BY DEF Fragments, Xml!TextEnds, Xml!Reference, Xml!ReferenceEnds, Xml!NoReference,
     Xml!CdataEnds, Xml!At
<1>2. /\ Xml!size \in Nat /\ Xml!size = Len(Xml!text) /\ Xml!text \in Text
      /\ i \in 1 .. Xml!size + 1 /\ textStart \in 1 .. Xml!size + 1 /\ entityStart \in 1 .. i
      /\ Xml!here \in i .. Xml!size + 1 /\ Xml!Pending \in Text
  BY <1>1, Reading
<1>3. /\ state \in Xml!States /\ before \in {"text"} \cup Xml!Quotes
      /\ {"tagOpen", "entity", "text"} \subseteq Xml!States
      /\ {"text"} \cup Xml!Quotes \subseteq Xml!States
      /\ depth \in Int /\ depth <= MaxNesting /\ attrs \in 0 .. MaxAttributes
  BY <1>1 DEF XmlInv, Xml!XmlTypeOK, Xml!States, Xml!Quotes
<1>4. Xml!here \in i .. Xml!size + 1 /\ Xml!here + 1 \in i .. Xml!size + 1
      /\ Xml!here \in 1 .. Xml!size + 1 /\ Xml!here + 1 \in 1 .. Xml!size + 1
      /\ entityStart \in 1 .. Xml!here /\ entityStart \in 1 .. Xml!here + 1
      /\ Xml!here \in 1 .. Xml!here + 1
  BY <1>1, <1>2
<1>5. CASE Xml!TextEnds
  <2>1. value' \in Text /\ Len(value') <= MaxValue /\ full' \in BOOLEAN
    BY <1>2, <1>5, FragmentFits DEF Xml!TextEnds
  <2>2. Continues /\ Logs
    BY <1>1, <1>2, <1>3, <1>4, <1>5, <2>1 DEF Xml!TextEnds, Xml!Move, Continues, Logs
  <2> QED
    BY <2>2, ContinuesKeeps
<1>6. CASE Xml!Reference
  <2>1. value' \in Text /\ Len(value') <= MaxValue /\ full' \in BOOLEAN
    BY <1>2, <1>6, FragmentFits DEF Xml!Reference
  <2>2. before' \in {"text"} \cup Xml!Quotes
    BY <1>6 DEF Xml!Reference, Xml!At
  <2>3. Continues /\ Logs
    BY <1>1, <1>2, <1>3, <1>4, <1>6, <2>1, <2>2 DEF Xml!Reference, Xml!Move, Continues, Logs
  <2> QED
    BY <2>3, ContinuesKeeps
<1>7. CASE Xml!ReferenceEnds
  <2>1. SubSeq(Xml!text, entityStart + 1, Xml!here - 1) \in Text
    <3>1. entityStart + 1 \in Nat \ {0} /\ Xml!here - 1 \in Int /\ Xml!here - 1 <= Len(Xml!text)
      BY <1>2
    <3> QED
      BY <1>2, <3>1, PartsOfText
  <2>2. value' \in Text /\ Len(value') <= MaxValue /\ full' \in BOOLEAN
    <3>1. PICK d \in Xml!Decoded(SubSeq(Xml!text, entityStart + 1, Xml!here - 1)) : Xml!Fragment(d)
      BY <1>7 DEF Xml!ReferenceEnds
    <3>2. d \in Text
      BY <2>1, DecodedIsText
    <3> QED
      BY <3>1, <3>2, FragmentFits
  <2>3. Continues /\ Logs
    BY <1>1, <1>2, <1>3, <1>4, <1>7, <2>2 DEF Xml!ReferenceEnds, Xml!Move, Continues, Logs
  <2> QED
    BY <2>3, ContinuesKeeps
<1>8. CASE Xml!NoReference
  <2>1. SubSeq(Xml!text, entityStart, Xml!here - 1) \in Text
    <3>1. entityStart \in Nat \ {0} /\ Xml!here - 1 \in Int /\ Xml!here - 1 <= Len(Xml!text)
      BY <1>2
    <3> QED
      BY <1>2, <3>1, PartsOfText
  <2>2. value' \in Text /\ Len(value') <= MaxValue /\ full' \in BOOLEAN
    BY <1>8, <2>1, FragmentFits DEF Xml!NoReference
  <2>3. Continues /\ Logs
    BY <1>1, <1>2, <1>3, <1>4, <1>8, <2>2 DEF Xml!NoReference, Xml!Move, Continues, Logs
  <2> QED
    BY <2>3, ContinuesKeeps
<1>9. CASE Xml!CdataEnds
  <2>1. value' \in Text /\ Len(value') <= MaxValue /\ full' \in BOOLEAN
    BY <1>2, <1>9, FragmentFits DEF Xml!CdataEnds
  <2>2. Xml!Ahead(2) # "end"
    BY <1>9 DEF Xml!CdataEnds
  <2>3. Xml!here + 2 <= Xml!size
    BY <1>1, <2>2, AheadInside
  <2>4. /\ Xml!here + 3 \in i .. Xml!size + 1 /\ Xml!here + 3 \in 1 .. Xml!size + 1
        /\ entityStart \in 1 .. Xml!here + 3
    BY <1>2, <2>3
  <2>5. Continues /\ Logs
    BY <1>1, <1>2, <1>3, <1>9, <2>1, <2>4 DEF Xml!CdataEnds, Xml!Move, Continues, Logs
  <2> QED
    BY <2>5, ContinuesKeeps
<1> QED
  BY <1>5, <1>6, <1>7, <1>8, <1>9 DEF Fragments
\* A step that has the value scanned.
Flushes == Xml!EndTagEnds \/ Xml!ValueBegins \/ Xml!ValueEnds

LEMMA FlushesKeep ==
  ASSUME XmlInv, Flushes
  PROVE  XmlInv'
<1>1. pc = "read" /\ Xml!here <= Xml!size
  BY DEF Flushes, Xml!EndTagEnds, Xml!ValueBegins, Xml!ValueEnds, Xml!At
<1>2. /\ Xml!size \in Nat /\ i \in 1 .. Xml!size + 1 /\ textStart \in 1 .. Xml!size + 1
      /\ entityStart \in 1 .. i /\ Xml!here \in i .. Xml!size + 1 /\ Xml!Pending \in Text
  BY <1>1, Reading
<1>3. /\ Xml!here + 1 \in i .. Xml!size + 1 /\ Xml!here + 1 \in 1 .. Xml!size + 1
      /\ entityStart \in 1 .. Xml!here + 1
  BY <1>1, <1>2
<1>4. /\ before \in {"text"} \cup Xml!Quotes
      /\ {"text", "between"} \subseteq Xml!States /\ Xml!Quotes \subseteq Xml!States
      /\ depth \in Int /\ depth <= MaxNesting /\ attrs \in 0 .. MaxAttributes
      /\ value \in Text /\ Len(value) <= MaxValue /\ full \in BOOLEAN /\ MaxValue \in Nat
  BY <1>1, XmlConstants DEF XmlInv, Xml!XmlTypeOK, Xml!States, Xml!Quotes, Xml!XmlAssumption
<1>5. << >> \in Text /\ Len(<< >>) <= MaxValue
  BY <1>4 DEF Text
<1>6. CASE Xml!EndTagEnds
  <2>1. value' = << >> /\ Logs
    BY <1>4, <1>6, FlushLogs DEF Xml!EndTagEnds
  <2>2. Continues
    BY <1>1, <1>2, <1>3, <1>4, <1>5, <1>6, <2>1 DEF Xml!EndTagEnds, Xml!Move, Continues
  <2> QED
    BY <2>1, <2>2, ContinuesKeeps
<1>7. CASE Xml!ValueBegins
  <2>1. value' = << >> /\ Logs
    BY <1>4, <1>7, FlushLogs DEF Xml!ValueBegins
  <2>2. state' \in Xml!States
    BY <1>4, <1>7 DEF Xml!ValueBegins, Xml!Move
  <2>3. Continues
    BY <1>1, <1>2, <1>3, <1>4, <1>5, <1>7, <2>1, <2>2 DEF Xml!ValueBegins, Xml!Move, Continues
  <2> QED
    BY <2>1, <2>3, ContinuesKeeps
<1>8. CASE Xml!ValueEnds
  <2>1. Xml!Add(value, Xml!Pending) \in Text
    BY <1>2, <1>4, AddFits
  <2>2. Xml!Flush(Xml!Add(value, Xml!Pending))
    BY <1>8 DEF Xml!ValueEnds
  <2>3. value' = << >> /\ Logs
    BY <2>1, <2>2, FlushLogs
  <2>4. full' \in BOOLEAN
    BY <1>4, <1>8 DEF Xml!ValueEnds
  <2>5. Continues
    BY <1>1, <1>2, <1>3, <1>4, <1>5, <1>8, <2>3, <2>4 DEF Xml!ValueEnds, Xml!Move, Continues
  <2> QED
    BY <2>3, <2>5, ContinuesKeeps
<1> QED
  BY <1>6, <1>7, <1>8 DEF Flushes

\* A start tag or an attribute: the document goes on, or a limit ends it.
LEMMA LimitedKeep ==
  ASSUME XmlInv, Xml!StartTag \/ Xml!Equals
  PROVE  XmlInv'
<1>1. pc = "read" /\ Xml!here <= Xml!size
  BY DEF Xml!StartTag, Xml!Equals, Xml!At
<1>2. /\ Xml!size \in Nat /\ i \in 1 .. Xml!size + 1 /\ di \in 1 .. Len(docs)
      /\ Len(docs) \in Nat /\ Xml!here \in i .. Xml!size + 1
  BY <1>1, Reading
<1>3. Xml!here + 1 \in Xml!here .. Xml!size + 1
  BY <1>1, <1>2
<1>4. /\ depth \in Int /\ depth <= MaxNesting /\ attrs \in 0 .. MaxAttributes
      /\ state \in Xml!States /\ before \in {"text"} \cup Xml!Quotes
      /\ value \in Text /\ Len(value) <= MaxValue /\ full \in BOOLEAN
      /\ threat \in Results /\ log \in Seq(Scanned)
      /\ \A k \in DOMAIN log : log[k][1] \in 1 .. di
      /\ {"startTag", "beforeValue"} \subseteq Xml!States
  BY <1>1 DEF XmlInv, Xml!XmlTypeOK, Xml!States
<1>5. /\ MaxNesting \in Nat /\ MaxAttributes \in Nat
  BY XmlConstants DEF Xml!XmlAssumption
<1>6. UNCHANGED log => \A d \in Nat : Xml!LastHit(d)' = Xml!LastHit(d)
  BY DEF Xml!LastHit, Xml!Hits
<1>7. CASE Xml!StartTag
  <2>1. CASE depth + 1 > MaxNesting
    <3>1. /\ Xml!Return(-1) /\ depth' = depth + 1
          /\ UNCHANGED <<i, state, attrs, docs, wide, before, textStart, entityStart, value,
                         threat, full, log>>
      BY <1>7, <2>1 DEF Xml!StartTag, Xml!Limit
    <3>2. depth' \in Int
      BY <1>4, <3>1
    <3> QED
      BY <1>2, <1>4, <1>6, <3>1, <3>2, ReturnKeeps
  <2>2. CASE ~(depth + 1 > MaxNesting)
    <3>1. depth' = depth + 1 /\ depth' <= MaxNesting
      BY <1>4, <1>5, <1>7, <2>2 DEF Xml!StartTag
    <3>2. Moves
      BY <1>1, <1>3, <1>4, <1>7, <2>2, <3>1 DEF Xml!StartTag, Xml!Move, Moves
    <3> QED
      BY <3>2, MovesKeeps
  <2> QED
    BY <2>1, <2>2
<1>8. CASE Xml!Equals
  <2>1. CASE attrs + 1 > MaxAttributes
    <3>1. /\ Xml!Return(-1) /\ attrs' = attrs + 1
          /\ UNCHANGED <<i, state, depth, docs, wide, before, textStart, entityStart, value,
                         threat, full, log>>
      BY <1>8, <2>1 DEF Xml!Equals, Xml!Limit
    <3> QED
      BY <1>2, <1>4, <1>6, <3>1, ReturnKeeps
  <2>2. CASE ~(attrs + 1 > MaxAttributes)
    <3>1. attrs' = attrs + 1 /\ attrs' <= MaxAttributes
      BY <1>4, <1>5, <1>8, <2>2 DEF Xml!Equals
    <3>2. Moves
      BY <1>1, <1>3, <1>4, <1>8, <2>2, <3>1 DEF Xml!Equals, Xml!Move, Moves
    <3> QED
      BY <3>2, MovesKeeps
  <2> QED
    BY <2>1, <2>2
<1> QED
  BY <1>7, <1>8

\* The end of a document.
LEMMA EndKeeps ==
  ASSUME XmlInv, Xml!End
  PROVE  XmlInv'
<1>1. pc = "read" /\ Xml!Return(threat')
      /\ UNCHANGED <<docs, wide, i, state, before, textStart, entityStart, depth, attrs>>
  BY DEF Xml!End, Xml!local
<1>2. di \in 1 .. Len(docs) /\ Len(docs) \in Nat /\ Xml!Pending \in Text
  BY <1>1, Reading
<1>3. /\ state \in Xml!States /\ before \in {"text"} \cup Xml!Quotes /\ depth \in Int
      /\ value \in Text /\ Len(value) <= MaxValue /\ full \in BOOLEAN /\ MaxValue \in Nat
  BY <1>1, XmlConstants DEF XmlInv, Xml!XmlTypeOK, Xml!XmlAssumption
<1>4. PICK v \in Text : Xml!Flush(v)
  <2>1. Xml!Add(value, Xml!Pending) \in Text
    BY <1>2, <1>3, AddFits
  <2> QED
    BY <1>3, <2>1 DEF Xml!End
<1>5. value' = << >> /\ Logs
  BY <1>4, FlushLogs
<1>6. /\ log' \in Seq(Scanned) /\ threat' \in Results
      /\ \A k \in DOMAIN log' : log'[k][1] \in 1 .. di
      /\ \A d \in Nat : Xml!LastHit(d)' = IF d = di THEN threat' ELSE Xml!LastHit(d)
  BY <1>1, <1>5, LogKept
<1>7. << >> \in Text /\ Len(<< >>) <= MaxValue
  BY <1>3 DEF Text
<1>8. full' \in BOOLEAN
  BY <1>3 DEF Xml!End
<1>9. di <= Len(docs)
  BY <1>2
<1> QED
  BY <1>1, <1>3, <1>5, <1>6, <1>7, <1>8, <1>9, ReturnKeeps

\* Between documents.
LEMMA CallsKeep ==
  ASSUME XmlInv, Xml!Begin \/ Xml!Empty \/ Xml!Leave
  PROVE  XmlInv'
<1>1. pc = "idle"
  BY DEF Xml!Begin, Xml!Empty, Xml!Leave
<1>2. /\ docs \in Calls /\ wide \in BOOLEAN /\ di \in 1 .. Len(docs) + 1
      /\ state \in Xml!States /\ before \in {"text"} \cup Xml!Quotes
      /\ value \in Text /\ Len(value) <= MaxValue /\ full \in BOOLEAN /\ depth \in Int
      /\ threat \in Results /\ log \in Seq(Scanned)
      /\ \A k \in DOMAIN log : log[k][1] \in 1 .. di /\ log[k][1] # di
      /\ returned \in Seq(Results \cup {-1}) /\ Len(returned) = di - 1
  BY <1>1 DEF XmlInv, Xml!XmlTypeOK
<1>3. /\ Len(docs) \in Nat /\ DOMAIN docs = 1 .. Len(docs)
      /\ \A d \in 1 .. Len(docs) : docs[d].text \in Text
  BY <1>2, DocumentsHaveTexts
<1>4. 0 \in Results /\ MaxValue \in Nat /\ MaxNesting \in Nat /\ MaxAttributes \in Nat
  BY XmlConstants DEF Xml!XmlAssumption
<1>5. ASSUME log' = log
      PROVE  /\ \A d \in Nat : Xml!LastHit(d)' = Xml!LastHit(d)
             /\ \A d \in Nat : d = di => Xml!LastHit(d)' = 0
  <2>1. \A d : Xml!LastHit(d)' = Xml!LastHit(d)
    BY <1>5 DEF Xml!LastHit, Xml!Hits
  <2>2. \A d : d = di => Xml!Hits(d) = {}
    BY <1>2 DEF Xml!Hits
  <2>3. \A d : d = di => Xml!LastHit(d)' = 0
    BY <2>1, <2>2 DEF Xml!LastHit
  <2> QED
    BY <2>1, <2>3
<1>6. ASSUME log' = log, returned' = returned
       PROVE  Xml!ResultIsOwn'
  <2>1. \A d : Xml!LastHit(d)' = Xml!LastHit(d)
    BY <1>6 DEF Xml!LastHit, Xml!Hits
  <2>2. \A d \in DOMAIN returned : returned[d] \in {Xml!Limit, Xml!LastHit(d)}
    BY DEF XmlInv, Xml!ResultIsOwn
  <2> QED
    BY <1>6, <2>1, <2>2 DEF Xml!ResultIsOwn, Xml!Limit
<1>7. CASE Xml!Empty
  <2>1. /\ di <= Len(docs) /\ Xml!Return(0)
        /\ UNCHANGED <<docs, wide, i, state, before, textStart, entityStart, depth, attrs,
                       value, threat, full, log>>
    BY <1>7 DEF Xml!Empty, Xml!local
  <2>2. /\ log' \in Seq(Scanned) /\ threat' \in Results
        /\ \A k \in DOMAIN log' : log'[k][1] \in 1 .. di
        /\ \A d \in Nat : d # di => Xml!LastHit(d)' = Xml!LastHit(d)
        /\ \A d \in Nat : d = di => Xml!LastHit(d)' = 0
    <3>1. log' = log /\ threat' \in Results
      BY <1>2, <1>4, <2>1
    <3>2. \A k \in DOMAIN log' : log'[k][1] \in 1 .. di
      BY <1>2, <3>1
    <3>3. log' \in Seq(Scanned)
      BY <1>2, <3>1
    <3>4. /\ \A d \in Nat : Xml!LastHit(d)' = Xml!LastHit(d)
          /\ \A d \in Nat : d = di => Xml!LastHit(d)' = 0
      BY <1>5, <3>1
    <3> QED
      BY <3>1, <3>2, <3>3, <3>4
  <2>3. /\ state' \in Xml!States /\ before' \in {"text"} \cup Xml!Quotes /\ depth' \in Int
        /\ value' \in Text /\ Len(value') <= MaxValue
    BY <1>2, <2>1
  <2>4. full' \in BOOLEAN
    BY <1>2, <2>1
  <2> QED
    BY <1>4, <2>1, <2>2, <2>3, <2>4, ReturnKeeps
<1>8. CASE Xml!Begin /\ Head(Xml!text) = "bom"
  <2>1. /\ di <= Len(docs) /\ Xml!Return(-1) /\ threat' = 0
        /\ UNCHANGED <<docs, wide, i, state, before, textStart, entityStart, depth, attrs,
                       value, full, log>>
    BY <1>8 DEF Xml!Begin, Xml!local, Xml!Limit
  <2>2. /\ log' \in Seq(Scanned) /\ threat' \in Results
        /\ \A k \in DOMAIN log' : log'[k][1] \in 1 .. di
        /\ \A d \in Nat : d # di => Xml!LastHit(d)' = Xml!LastHit(d)
        /\ \A d \in Nat : d = di => Xml!LastHit(d)' = 0
    <3>1. log' = log /\ threat' \in Results
      BY <1>2, <1>4, <2>1
    <3>2. \A k \in DOMAIN log' : log'[k][1] \in 1 .. di
      BY <1>2, <3>1
    <3>3. log' \in Seq(Scanned)
      BY <1>2, <3>1
    <3>4. /\ \A d \in Nat : Xml!LastHit(d)' = Xml!LastHit(d)
          /\ \A d \in Nat : d = di => Xml!LastHit(d)' = 0
      BY <1>5, <3>1
    <3> QED
      BY <3>1, <3>2, <3>3, <3>4
  <2>3. /\ state' \in Xml!States /\ before' \in {"text"} \cup Xml!Quotes /\ depth' \in Int
        /\ value' \in Text /\ Len(value') <= MaxValue
    BY <1>2, <2>1
  <2>4. full' \in BOOLEAN
    BY <1>2, <2>1
  <2> QED
    BY <1>4, <2>1, <2>2, <2>3, <2>4, ReturnKeeps
<1>9. CASE Xml!Begin /\ Head(Xml!text) # "bom"
  <2>1. /\ di <= Len(docs) /\ threat' = 0 /\ value' = << >> /\ pc' = "read"
        /\ i' = 1 /\ state' = "text" /\ before' = "text"
        /\ textStart' = 1 /\ entityStart' = 1 /\ depth' = 0 /\ attrs' = 0 /\ full' = FALSE
        /\ UNCHANGED <<docs, wide, di, returned, log>>
    BY <1>9 DEF Xml!Begin, Xml!Enter
  <2>2. Xml!size' \in Nat
    <3>1. Xml!text' \in Text
      BY <1>2, <1>3, <2>1 DEF Xml!text
    <3> QED
      BY <3>1 DEF Xml!size, Text
  <2>3. << >> \in Text /\ Len(<< >>) <= MaxValue
    BY <1>4 DEF Text
  <2>4. "text" \in Xml!States
    BY DEF Xml!States
  <2>5. Xml!XmlTypeOK'
    <3>1. di' \in 1 .. Len(docs') + 1 /\ Len(returned') = di' - 1 /\ Len(value') <= MaxValue
      BY <1>2, <2>1, <2>3
    <3>2. state' \in Xml!States /\ before' \in {"text"} \cup Xml!Quotes /\ threat' \in Results
      BY <1>4, <2>1, <2>4
    <3>3. /\ i' \in 1 .. Xml!size' + 1 /\ textStart' \in 1 .. Xml!size' + 1
          /\ entityStart' \in 1 .. i' /\ depth' <= MaxNesting /\ attrs' \in 0 .. MaxAttributes
      <4>1. \A n \in Nat : 1 \in 1 .. n + 1 /\ 1 \in 1 .. 1
        OBVIOUS
      <4>2. 0 <= MaxNesting /\ 0 \in 0 .. MaxAttributes
        BY <1>4
      <4> QED
        BY <2>1, <2>2, <4>1, <4>2
    <3> QED
      BY <2>1, <3>1, <3>2, <3>3 DEF Xml!XmlTypeOK
  <2>6. threat' = Xml!LastHit(di)'
    <3>1. Xml!Hits(di)' = {}
      BY <1>2, <2>1 DEF Xml!Hits
    <3> QED
      BY <2>1, <3>1 DEF Xml!LastHit
  <2>7. Xml!ResultIsOwn'
    BY <1>6, <2>1
  <2>8. full' \in BOOLEAN
    <3>1. full' = FALSE
      BY <2>1
    <3> QED
      BY <3>1, Zenon
  <2>9. depth' \in Int
    BY <2>1
  <2>10. \A k \in DOMAIN log' : log'[k][1] \in 1 .. di' /\ (log'[k][1] = di' => pc' = "read")
    BY <1>2, <2>1
  <2>11. value' \in Text /\ log' \in Seq(Scanned) /\ returned' \in Seq(Results \cup {-1})
    BY <1>2, <2>1, <2>3
  <2> QED
    BY <1>2, <2>1, <2>5, <2>6, <2>7, <2>8, <2>9, <2>10, <2>11 DEF XmlInv
<1>10. CASE Xml!Leave
  <2>1. /\ pc' = "done"
        /\ UNCHANGED <<docs, wide, di, i, state, before, textStart, entityStart, depth, attrs,
                       value, threat, returned, full, log>>
    BY <1>10 DEF Xml!Leave, Xml!local
  <2>2. Xml!XmlTypeOK'
    BY <1>2, <2>1 DEF Xml!XmlTypeOK
  <2>3. Xml!ResultIsOwn'
    BY <1>6, <2>1
  <2> QED
    BY <1>2, <2>1, <2>2, <2>3 DEF XmlInv
<1> QED
  BY <1>7, <1>8, <1>9, <1>10

LEMMA XmlInitially == Xml!Init => XmlInv
<1> SUFFICES ASSUME Xml!Init PROVE XmlInv
  OBVIOUS
<1>1. /\ docs \in Calls /\ wide \in BOOLEAN
      /\ di = 1 /\ i = 1 /\ state = "text" /\ before = "text"
      /\ textStart = 1 /\ entityStart = 1 /\ depth = 0 /\ attrs = 0
      /\ value = << >> /\ threat = 0 /\ pc = "idle"
      /\ returned = << >> /\ full = FALSE /\ log = << >>
  BY DEF Xml!Init
<1>2. Len(docs) \in Nat
  BY <1>1, DocumentsHaveTexts
<1>3. 0 \in Results /\ MaxValue \in Nat
  BY XmlConstants DEF Xml!XmlAssumption
<1>4. Xml!XmlTypeOK
  <2>1. state \in Xml!States /\ before \in {"text"} \cup Xml!Quotes
    BY <1>1 DEF Xml!States
  <2>2. Len(value) <= MaxValue /\ Len(returned) = di - 1
    BY <1>1, <1>3
  <2> QED
    BY <1>1, <1>2, <1>3, <2>1, <2>2 DEF Xml!XmlTypeOK
<1>5. Xml!ResultIsOwn
  BY <1>1 DEF Xml!ResultIsOwn
<1>6. value \in Text /\ log \in Seq(Scanned) /\ returned \in Seq(Results \cup {-1})
  BY <1>1 DEF Text
<1>7. full \in BOOLEAN
  BY <1>1, Zenon
<1>8. depth \in Int
  BY <1>1
<1> QED
  BY <1>1, <1>4, <1>5, <1>6, <1>7, <1>8 DEF XmlInv

LEMMA XmlNext ==
  ASSUME XmlInv, [Xml!Next]_(Xml!xmlVars)
  PROVE  XmlInv'
<1>1. CASE Quiet
  BY <1>1, QuietMoves, MovesKeeps
<1>2. CASE Fragments
  BY <1>2, FragmentsKeep
<1>3. CASE Flushes
  BY <1>3, FlushesKeep
<1>4. CASE Xml!StartTag \/ Xml!Equals
  BY <1>4, LimitedKeep
<1>5. CASE Xml!End
  BY <1>5, EndKeeps
<1>6. CASE Xml!Begin \/ Xml!Empty \/ Xml!Leave
  BY <1>6, CallsKeep
<1>7. CASE UNCHANGED Xml!xmlVars
  <2>1. UNCHANGED <<docs, wide, di, i, state, before, textStart, entityStart, depth, attrs,
                    value, threat, pc, returned, full, log>>
    BY <1>7 DEF Xml!xmlVars, Xml!local
  <2>2. Xml!XmlTypeOK'
    BY <2>1 DEF XmlInv, Xml!XmlTypeOK, Xml!size, Xml!text
  <2>3. Xml!ResultIsOwn' /\ (pc' = "read" => threat' = Xml!LastHit(di)')
    BY <2>1 DEF XmlInv, Xml!ResultIsOwn, Xml!LastHit, Xml!Hits
  <2> QED
    BY <2>1, <2>2, <2>3 DEF XmlInv
<1> QED
  BY <1>1, <1>2, <1>3, <1>4, <1>5, <1>6, <1>7
  DEF Xml!Next, Xml!Step, Xml!Finished, Quiet, Fragments, Flushes

THEOREM XmlInvariant == Spec => [](body = "xml" => XmlInv)
<1>1. Init => (body = "xml" => XmlInv)
  BY XmlInitially DEF Init
<1>2. (body = "xml" => XmlInv) /\ [Next]_vars => (body = "xml" => XmlInv)'
  <2> SUFFICES ASSUME body = "xml" => XmlInv, [Next]_vars, body' = "xml"
               PROVE  XmlInv'
    OBVIOUS
  <2>1. body = "xml" /\ [Xml!Next]_(Xml!xmlVars)
    BY DEF Next, vars, xmlOnly, Xml!xmlVars, Xml!local
  <2> QED
    BY <2>1, XmlNext
<1> QED
  BY <1>1, <1>2, PTL DEF Spec

\* The wide search stops at whatever the parser acts on.
LEMMA SkipsHarmlessly == XmlInv => Xml!SkipIsHarmless
<1> SUFFICES ASSUME XmlInv, pc = "read", state \in Xml!Wide,
                    NEW k \in i .. Xml!Landing(i) - 1
             PROVE  /\ Xml!text[k] # "]" /\ Xml!text[k] # "&" /\ Xml!text[k] # "<"
                    /\ Xml!text[k] # state \/ state \notin Xml!Quotes
  BY DEF Xml!SkipIsHarmless
<1>1. Chunk \in Nat \ {0}
  BY XmlConstants DEF Xml!XmlAssumption
<1>2. Xml!text[k] \notin Xml!Delimiters
  BY <1>1, Reading, LandingFound
<1> QED
  BY <1>2 DEF Xml!Delimiters

\* lumina_scan_xml_avx2, for any texts, one document after another on a thread, with
\* or without the wide search: a call returns the last match of its own document or
\* that this one exceeds a limit, the value stays within its buffer, and the wide
\* search passes over nothing that the parser acts on.
THEOREM DocumentsAlwaysTheirOwn == Spec => []DocumentsAreTheirOwn
<1>1. (body = "xml" => XmlInv) => DocumentsAreTheirOwn
  BY SkipsHarmlessly DEF XmlInv, DocumentsAreTheirOwn
<1> QED
  BY <1>1, XmlInvariant, PTL
================================================================================
