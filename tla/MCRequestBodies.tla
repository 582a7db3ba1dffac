---------------------------- MODULE MCRequestBodies ----------------------------
(***************************************************************************)
(* The passes over what a request carries, one of them per behavior: the   *)
(* arguments of a query, a form or a cookie, a multipart body, a JSON body, *)
(* and documents of the XML parser.  Variables the pass does not have are   *)
(* 0.                                                                       *)
(***************************************************************************)
EXTENDS Integers

CONSTANTS
  FormRequests, Capacity,               \* ArgumentProjection
  MultipartRequests,                    \* MultipartBody
  Documents, MaxDepth, ScratchSize,     \* JsonProjection
  Calls, MaxNesting, MaxAttributes, MaxEntity, MaxValue, Chunk,   \* XmlParser
  Results

VARIABLES
  body,                                 \* the pass that runs
  request, vi, start,
  pos, inHeaders, partStart, fields, xmlType,
  doc, i, depth, inString, out, spans,
  docs, wide, di, state, before, textStart, entityStart, attrs, value, returned, full,
  threat, pc, log

formOnly      == <<start>>
multipartOnly == <<pos, inHeaders, partStart, fields, xmlType>>
jsonOnly      == <<doc, inString, out, spans>>
xmlOnly       == <<docs, wide, di, state, before, textStart, entityStart, attrs, value, returned, full>>
vars == <<body, request, vi, i, depth, formOnly, multipartOnly, jsonOnly, xmlOnly, threat, pc, log>>

Form      == INSTANCE MCArgumentProjection WITH Requests <- FormRequests
Multipart == INSTANCE MCMultipartBody WITH Requests <- MultipartRequests, Results <- Results \cup {-1}
Json      == INSTANCE MCJsonProjection
Xml       == INSTANCE MCXmlParser

\* The texts, which the modules of the passes define: they depend on the bounds,
\* and not on the constants they are the values of.
FormTexts      == INSTANCE MCArgumentProjection WITH Requests <- {}
MultipartTexts == INSTANCE MCMultipartBody WITH Requests <- {}
JsonTexts      == INSTANCE MCJsonProjection WITH Documents <- {}
XmlTexts       == INSTANCE MCXmlParser WITH Calls <- {}

MCFormRequests      == FormTexts!MCRequests
MCMultipartRequests == MultipartTexts!MCRequests
MCDocuments         == JsonTexts!MCDocuments
MCCalls             == XmlTexts!MCCalls

ASSUME FormConstants      == Form!ArgumentAssumption
ASSUME MultipartConstants == Multipart!MultipartAssumption
ASSUME JsonConstants      == Json!JsonAssumption
ASSUME XmlConstants       == Xml!XmlAssumption

NoForm      == start = 0
NoMultipart == pos = 0 /\ inHeaders = 0 /\ partStart = 0 /\ fields = 0 /\ xmlType = 0
NoJson      == doc = 0 /\ inString = 0 /\ out = 0 /\ spans = 0
NoXml ==
  /\ docs = 0 /\ wide = 0 /\ di = 0 /\ state = 0 /\ before = 0 /\ textStart = 0
  /\ entityStart = 0 /\ attrs = 0 /\ value = 0 /\ returned = 0 /\ full = 0
NoRequest == request = 0 /\ vi = 0
NoText    == i = 0 /\ depth = 0

Init ==
  \/ body = "form" /\ Form!Init /\ NoMultipart /\ NoJson /\ NoXml /\ NoText
  \/ body = "multipart" /\ Multipart!Init /\ NoForm /\ NoJson /\ NoXml /\ NoText
  \/ body = "json" /\ Json!Init /\ NoForm /\ NoMultipart /\ NoXml /\ NoRequest
  \/ body = "xml" /\ Xml!Init /\ NoForm /\ NoMultipart /\ NoJson /\ NoRequest

Next ==
  /\ UNCHANGED body
  /\ \/ body = "form" /\ Form!Next /\ UNCHANGED <<multipartOnly, jsonOnly, xmlOnly, i, depth>>
     \/ body = "multipart" /\ Multipart!Next /\ UNCHANGED <<formOnly, jsonOnly, xmlOnly, i, depth>>
     \/ body = "json" /\ Json!Next /\ UNCHANGED <<formOnly, multipartOnly, xmlOnly, request, vi>>
     \/ body = "xml" /\ Xml!Next /\ UNCHANGED <<formOnly, multipartOnly, jsonOnly, request, vi>>

\* A pass is one call: the worker runs it to its end.
Spec == Init /\ [][Next]_vars /\ WF_vars(Next)

-----------------------------------------------------------------------------
(* Properties *)

\* Whoever writes a text means something by it, and that is scanned, decoded, once
\* and in order: the names and values of a query, a form or a cookie
\* (lumina_scan_projected_collections), the keys, strings and scalars of a JSON body
\* (lumina_parse_and_project_json), the values of an XML document with whatever
\* stands between their fragments (lumina_scan_xml_avx2).
TextsAreScanned ==
  /\ body = "form" => Form!PartsAreScanned
  /\ body = "json" => Json!LeavesAreScanned
  /\ body = "xml"  => Xml!ValuesAreScanned /\ Xml!NoTextIsLost /\ Xml!LimitIsReported

\* lumina_scan_multipart_file_collections: exactly the names and the XML of the parts
\* are scanned, each part by its own headers, and the first match is returned.
PartsOfABodyAreScanned ==
  body = "multipart" =>
    Multipart!MultipartTypeOK /\ Multipart!ScansItsParts /\ Multipart!FirstMatchIsReturned

\* Of any query, form, cookie or JSON text, whatever it means or fails to mean, what
\* the passes cut out is scanned as part of exactly one name, value, string or
\* scalar.  Left out are: separators, first equals signs and the blanks of a cookie;
\* components too long to be decoded (TooLong); JSON after an unmatched or too deep
\* bracket, where the pass stops; and of a string the part that does not fit the
\* scratch buffer, which is read over and not scanned.
NothingIsDropped ==
  /\ body = "form" => Form!ArgumentTypeOK /\ Form!NothingIsDropped
  /\ body = "json" => Json!JsonTypeOK /\ Json!NothingIsSkipped

\* lumina_scan_xml_avx2: of any text, what a call returns is its own document's,
\* and the wide search passes over nothing that the parser acts on.
DocumentsAreTheirOwn ==
  body = "xml" => Xml!XmlTypeOK /\ Xml!ResultIsOwn /\ Xml!SkipIsHarmless

\* Every pass comes to its end, whatever the text is.
EveryPassEnds == <>(pc = "done")
================================================================================
