--------------------------- MODULE MCInspectBundle ---------------------------
(***************************************************************************)
(* InspectBundle for TLC: the requests to inspect and the rule table.      *)
(* Lengths are chosen on both sides of every comparison the code makes     *)
(* (16, 48, 64, 128, 131072); the requests combine values that can stop    *)
(* the loop, values it skips and values the projections cover.             *)
(***************************************************************************)
EXTENDS InspectBundle, TLC

MCRulePoints == (942100 :> 5) @@ (920350 :> 3) @@ (920270 :> 5) @@ (920180 :> 0) @@ (920171 :> 0) @@ (921130 :> 5)

MCTxRules ==
  << [rule |-> 920171, points |-> 5, gated |-> FALSE],
     [rule |-> 920180, points |-> 3, gated |-> TRUE] >>

MCScannerRules ==
  [s \in Range(Scanners) |->
     CASE s = "xss"   -> {1000050}
       [] s = "sqli"  -> {942100}
       [] s = "jndi"  -> {932130}
       [] s = "split" -> {921130}
       [] OTHER       -> {}]

Nothing == [c \in Collections |-> {}]

Header(len, dull) ==
  [scope |-> "headers", kind |-> "plain", colls |-> {"HDR"}, off |-> Nothing,
   len |-> len, dlen |-> len, rich |-> FALSE, null |-> FALSE, dull |-> dull,
   strings |-> <<>>]

Path  == [Header(20, FALSE) EXCEPT !.scope = "uri", !.kind = "path", !.colls = {}, !.null = TRUE]
Query == [Header(30, FALSE) EXCEPT !.scope = "uri", !.kind = "container", !.colls = {}]
Null  == [Header(5, TRUE) EXCEPT !.null = TRUE, !.dlen = 2]
Body  == [Header(200, FALSE) EXCEPT !.scope = "body", !.kind = "body", !.colls = {"BODY"},
            !.off = [Nothing EXCEPT !["BODY"] = {942100}], !.dlen = 150, !.rich = TRUE]
Json  == [Body EXCEPT !.kind = "json", !.strings = << [len |-> 8, rich |-> FALSE] >>]

LongNull == [Header(70, TRUE) EXCEPT !.null = TRUE, !.dlen = 40]

\* Lengths 10 and 70 bring the value's threshold to 4 and 6.
Values == {Header(10, FALSE), Header(0, FALSE), Header(131073, FALSE), Query,
           Path, Null, LongNull, Body, Json}

Projections ==
  LET body == [colls |-> {"BODY"}, off |-> [Nothing EXCEPT !["BODY"] = {942100}],
               limit |-> FALSE]
  IN { <<>>, << [body EXCEPT !.limit = TRUE], body >> }

\* Bounds: two values, two projected values, few sets of structural checks.
MCRequests ==
  [vals : {<<v, w>> : v, w \in Values},
   meta : {{}, {4, 7}, {7}},
   removed : {{}, {920270, 942100}},
   tx : {{920180}},
   projected : Projections,
   structured : {FALSE}]
  \cup
  [vals : {<<Body, Header(16, TRUE)>>},
   meta : SUBSET {1, 4, 5, 7},
   removed : {{}},
   tx : SUBSET {920171, 920180},
   projected : Projections,
   structured : {TRUE}]
=============================================================================
