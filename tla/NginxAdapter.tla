------------------------------ MODULE NginxAdapter ------------------------------
(***************************************************************************)
(* The nginx access-phase handler of nginx_module/                         *)
(* ngx_http_luminawaf_module.c: it fills a bundle of limited size from the *)
(* request, has it inspected and answers.                                  *)
(*                                                                         *)
(* A request is a record                                                   *)
(*   conf     the lumina_waf flag at each level, outermost first           *)
(*   uri      TRUE iff the unparsed URI is not empty                       *)
(*   args     "null", "empty" or "text"                                    *)
(*   parts    the parts of nginx's header list, each a sequence of headers *)
(* and a header is a record                                                *)
(*   live     FALSE iff nginx marked it deleted (hash 0)                   *)
(*   name     one of the names the module knows, or another                *)
(*   value    "null", "empty" or "text"                                    *)
(*   media    for Content-Type, what its media type selects                *)
(* nginx itself (allocation, lists, response headers) is external.         *)
(***************************************************************************)
EXTENDS Integers, SequencesExt, FiniteSetsExt

CONSTANTS
  Requests,
  Threats,      \* what luminawaf_inspect_bundle may report
  Capacity,     \* of the bundle: 16
  MaxCount,     \* UINT16_MAX
  Copyleft      \* TRUE iff luminawaf_license_mode() is AGPLv3

Selected == {"URLENCODED", "JSON", "XML"}
Nobody == "none"   \* no processor; also the media types that select none

Header == [live : BOOLEAN, name : STRING, value : {"null", "empty", "text"},
           media : Selected \cup {Nobody}]

AdapterAssumption ==
  /\ Capacity \in Nat \ {0}
  /\ MaxCount \in Nat \ {0, 1}
  /\ Threats \subseteq Int
  /\ Copyleft \in BOOLEAN
  /\ \A q \in Requests :
       /\ q.conf \in Seq({"unset", "off", "on"})
       /\ q.uri \in BOOLEAN /\ q.args \in {"null", "empty", "text"}
       /\ q.parts \in Seq(Seq(Header)) /\ q.parts # <<>>
       /\ \A k \in DOMAIN q.parts : k > 1 => q.parts[k] # <<>>

\* Names with a bit of the presence mask, and names that are counted.
Masked == {"Content-Length", "Request-Range", "Connection", "Host", "User-Agent",
           "Content-Type", "Accept-Encoding", "Accept", "Cookie", "Referer",
           "X-Filename", "Range"}
Counted == {"Host", "User-Agent", "Content-Type", "Request-Range", "Transfer-Encoding"}

VARIABLES
  request,
  pc,
  part, pos,     \* position in the header list
  vals,          \* bundle.vars[0 .. count)
  present,       \* hdr_presence_mask
  counts,        \* hdr_*_count
  processor,     \* reqbody_processor
  origin,        \* how many X-LuminaWAF-Id headers the response has
  blockedBy,     \* X-Lumina-Rule-Id, 0 if absent
  threat,        \* res.threat_level
  answer         \* the handler's return value

bundle == <<vals, present, counts, processor>>
response == <<origin, blockedBy, answer>>
adapterVars == <<request, pc, part, pos, bundle, response, threat>>

-----------------------------------------------------------------------------
(* Parts of the handler *)

\* ngx_conf_merge_value, level by level: an unset flag is inherited, off at last.
Enabled(conf) ==
  LET known == SelectSeq(conf, LAMBDA c : c # "unset") IN
    known # <<>> /\ Last(known) = "on"

\* Mutant: an empty value is not added, named or not.
AddableUnnamed(value, named) == value = "text"

\* ngx_http_luminawaf_bundle_add drops what has no bytes at all, an empty value
\* without a name, and everything beyond the capacity.
Addable(value, named) == value # "null" /\ (value = "empty" => named)

\* Mutant: the capacity test lets one more in.
AddOneMore(b, value, named, what) ==
  IF Addable(value, named) /\ Len(b) <= Capacity THEN Append(b, what) ELSE b

Add(b, value, named, what) ==
  IF Addable(value, named) /\ Len(b) < Capacity THEN Append(b, what) ELSE b

\* Mutant: the count wraps around.
CountWraps(c, name) ==
  IF name \in Counted THEN [c EXCEPT ![name] = (@ + 1) % (MaxCount + 1)] ELSE c

Count(c, name) ==
  IF name \in Counted /\ c[name] # MaxCount THEN [c EXCEPT ![name] = @ + 1] ELSE c

\* The value of a Content-Type header selects a processor or leaves the one there.
Process(p, h) ==
  IF h.name = "Content-Type" /\ h.value # "null" /\ h.media # Nobody THEN h.media ELSE p

Mask(name) == {name} \cap Masked

Place(p, i) == <<p, i>>
HeaderAt(p, i) == request.parts[p][i]

-----------------------------------------------------------------------------
(* Steps of the handler *)

Init ==
  /\ request \in Requests
  /\ pc = "start"
  /\ part = 1 /\ pos = 1
  /\ vals = <<>> /\ present = {}
  /\ counts = [name \in Counted |-> 0]
  /\ processor = Nobody
  /\ origin = 0 /\ blockedBy = 0 /\ threat = 0
  /\ answer = "none"

Return(a) ==
  /\ answer' = a
  /\ pc' = "done"

\* The module is off here, or there is no URI.
Bypass ==
  /\ pc = "start"
  /\ ~Enabled(request.conf) \/ ~request.uri
  /\ Return("declined")
  /\ UNCHANGED <<request, part, pos, bundle, origin, blockedBy, threat>>

\* The rule state cannot be allocated.
NoState ==
  /\ pc = "start"
  /\ Enabled(request.conf) /\ request.uri
  /\ Return("error")
  /\ UNCHANGED <<request, part, pos, bundle, origin, blockedBy, threat>>

Start ==
  /\ pc = "start"
  /\ Enabled(request.conf) /\ request.uri
  /\ vals' = Add(Add(<<>>, "text", FALSE, "uri"), request.args, FALSE, "args")
  /\ pc' = "headers"
  /\ UNCHANGED <<request, part, pos, present, counts, processor, response, threat>>

NextPart ==
  /\ pc = "headers"
  /\ pos > Len(request.parts[part])
  /\ part < Len(request.parts)
  /\ part' = part + 1 /\ pos' = 1
  /\ UNCHANGED <<request, pc, bundle, response, threat>>

\* Mutant: a full bundle ends the loop over the headers.
TakeHeaderUntilFull ==
  /\ pc = "headers"
  /\ pos \in DOMAIN request.parts[part]
  /\ LET h == HeaderAt(part, pos) IN
       IF h.live /\ Len(vals) < Capacity
         THEN /\ present' = present \cup Mask(h.name)
              /\ counts' = Count(counts, h.name)
              /\ processor' = Process(processor, h)
              /\ vals' = Add(vals, h.value, TRUE, Place(part, pos))
         ELSE UNCHANGED bundle
  /\ pos' = pos + 1
  /\ UNCHANGED <<request, pc, part, response, threat>>

TakeHeader ==
  /\ pc = "headers"
  /\ pos \in DOMAIN request.parts[part]
  /\ LET h == HeaderAt(part, pos) IN
       IF h.live
         THEN /\ present' = present \cup Mask(h.name)
              /\ counts' = Count(counts, h.name)
              /\ processor' = Process(processor, h)
              /\ vals' = Add(vals, h.value, TRUE, Place(part, pos))
         ELSE UNCHANGED bundle
  /\ pos' = pos + 1
  /\ UNCHANGED <<request, pc, part, response, threat>>

\* luminawaf_inspect_bundle refuses an empty bundle and one above the capacity,
\* and then leaves the result as it was.
Legal == Len(vals) \in 1 .. Capacity

Inspect ==
  /\ pc = "headers"
  /\ part = Len(request.parts) /\ pos > Len(request.parts[part])
  /\ threat' \in IF Legal THEN Threats ELSE {0}
  /\ pc' = "decide"
  /\ \E pushed \in BOOLEAN : origin' = IF Copyleft /\ pushed THEN 1 ELSE 0
  /\ UNCHANGED <<request, part, pos, bundle, blockedBy, answer>>

\* Mutant: any threat blocks.
BlockAny ==
  /\ pc = "decide"
  /\ threat # 0
  /\ \E pushed \in BOOLEAN : blockedBy' = IF pushed THEN threat ELSE 0
  /\ Return("forbidden")
  /\ UNCHANGED <<request, part, pos, bundle, origin, threat>>

Block ==
  /\ pc = "decide"
  /\ threat > 0
  /\ \E pushed \in BOOLEAN : blockedBy' = IF pushed THEN threat ELSE 0
  /\ Return("forbidden")
  /\ UNCHANGED <<request, part, pos, bundle, origin, threat>>

\* The buffer of that header is not tested: without memory the worker dies here.
BlockUnallocated ==
  /\ pc = "decide"
  /\ threat > 0
  /\ Return("crash")
  /\ UNCHANGED <<request, part, pos, bundle, origin, blockedBy, threat>>

Pass ==
  /\ pc = "decide"
  /\ threat <= 0
  /\ Return("declined")
  /\ UNCHANGED <<request, part, pos, bundle, origin, blockedBy, threat>>

Finished == pc = "done" /\ UNCHANGED adapterVars

Handle ==
  \/ Bypass \/ NoState \/ Start
  \/ NextPart \/ TakeHeader \/ Inspect
  \/ Block \/ BlockUnallocated \/ Pass

Next == Handle \/ Finished

Spec == Init /\ [][Next]_adapterVars

-----------------------------------------------------------------------------
(* Properties *)

AdapterTypeOK ==
  /\ pc \in {"start", "headers", "decide", "done"}
  /\ part \in DOMAIN request.parts
  /\ pos \in 1 .. Len(request.parts[part]) + 1
  /\ Len(vals) <= Capacity
  /\ present \subseteq Masked
  /\ counts \in [Counted -> 0 .. MaxCount]
  /\ processor \in Selected \cup {Nobody}
  /\ origin \in {0, 1}
  /\ blockedBy \in Int /\ threat \in Int
  /\ answer \in {"none", "declined", "error", "forbidden", "crash"}

\* The places of the live headers the loop has passed, and their order.
Passed ==
  { x \in UNION { {p} \X DOMAIN request.parts[p] : p \in 1 .. part } :
      (x[1] < part \/ x[2] < pos) /\ HeaderAt(x[1], x[2]).live }
Before(x, y) == x[1] < y[1] \/ (x[1] = y[1] /\ x[2] < y[2])

Started == vals # <<>>

\* What stands before the headers: the URI, and a query that is not empty.
Leading == IF request.args = "text" THEN << "uri", "args" >> ELSE << "uri" >>

\* The bundle holds what comes first: the URI, a query that is not empty, and the
\* live headers that have a value, an empty one included, in their order. One is
\* left out only if the bundle is full of earlier ones, never because of the
\* deleted headers or the parts between.
KeepsWhatComesFirst ==
  Started =>
    LET headers == Len(Leading) + 1 .. Len(vals) IN
    /\ \A k \in DOMAIN Leading : IF k <= Len(vals) THEN vals[k] = Leading[k]
                                 ELSE Len(vals) = Capacity
    /\ \A k \in headers :
         /\ vals[k] \in Passed /\ HeaderAt(vals[k][1], vals[k][2]).value # "null"
         /\ \A j \in headers : j < k => Before(vals[j], vals[k])
    /\ \A x \in Passed : HeaderAt(x[1], x[2]).value # "null" =>
         \/ \E k \in headers : vals[k] = x
         \/ Len(vals) = Capacity /\ \A k \in headers : Before(vals[k], x)

Named(n) == { x \in Passed : HeaderAt(x[1], x[2]).name = n }
Selects(x) == LET h == HeaderAt(x[1], x[2])
              IN h.name = "Content-Type" /\ h.value # "null" /\ h.media # Nobody

\* What the structural checks read describes every live header, those that found
\* the bundle full included: presence, saturating counts (a repeated header never
\* looks single or absent) and the body processor, which the last one selects.
MetadataIsComplete ==
  Started =>
    /\ present = { n \in Masked : Named(n) # {} }
    /\ \A n \in Counted :
         counts[n] = IF Cardinality(Named(n)) < MaxCount THEN Cardinality(Named(n)) ELSE MaxCount
    /\ IF \A x \in Passed : ~Selects(x) THEN processor = Nobody
       ELSE \E x \in Passed :
              /\ Selects(x) /\ processor = HeaderAt(x[1], x[2]).media
              /\ \A y \in Passed : Selects(y) /\ y # x => Before(y, x)

\* The inspection never refuses the bundle, so no request passes unread because
\* of how its bundle was filled.
NeverRefused == pc = "decide" => Legal

\* A request is blocked only by a rule, and the response names no other; with a
\* rule reported, it is never let through.
BlockedByRule ==
  /\ answer = "forbidden" => threat > 0
  /\ blockedBy # 0 => blockedBy = threat /\ answer = "forbidden"
  /\ answer = "declined" => threat <= 0
=============================================================================
