----------------------------- MODULE MCEntryPoints -----------------------------
(***************************************************************************)
(* The callers of the inspection, one of them per behavior: the nginx       *)
(* handler, and the single-buffer entry points called in a session.  A      *)
(* bundle of three values instead of sixteen and counts that saturate at    *)
(* two, so that both limits are passed; buffers that take every stage.      *)
(***************************************************************************)
EXTENDS Integers, Sequences, SequencesExt

CONSTANTS
  HttpRequests, Threats, Capacity, MaxCount, Copyleft,         \* NginxAdapter
  Requests, Buffers, TxRules, TxMatches, Removable, MaxLen     \* BufferSession

VARIABLES
  entry,                                   \* the way in
  request, pc, part, pos, vals, present, counts, processor, origin, blockedBy, threat,
  states, score, charged, calls,
  answer

handlerOnly == <<request, pc, part, pos, vals, present, counts, processor, origin, blockedBy, threat>>
sessionOnly == <<states, score, charged, calls>>
vars == <<entry, handlerOnly, sessionOnly, answer>>

Adapter == INSTANCE NginxAdapter WITH Requests <- HttpRequests
Buffer  == INSTANCE BufferSession

ASSUME AdapterConstants == Adapter!AdapterAssumption
ASSUME SessionConstants == Buffer!SessionAssumption

-----------------------------------------------------------------------------
(* Requests of the handler *)

H(name, value) == [live |-> TRUE, name |-> name, value |-> value, media |-> "none"]
Type(media) == [live |-> TRUE, name |-> "Content-Type", value |-> "text", media |-> media]
Dead(h) == [h EXCEPT !.live = FALSE]

MCHeaders == { H("Host", "text"), H("Host", "empty"), H("Other", "null"),
               Dead(H("Cookie", "text")), Type("JSON"), Type("none") }

\* One part, or two of which only the first may be empty.
MCParts ==
  { << s >> : s \in UNION {[1 .. n -> MCHeaders] : n \in 0 .. 2} }
    \cup { << s, t >> : s \in UNION {[1 .. n -> MCHeaders] : n \in 0 .. 2},
                        t \in UNION {[1 .. n -> MCHeaders] : n \in 1 .. 2} }

Http(conf, uri, args, parts) == [conf |-> conf, uri |-> uri, args |-> args, parts |-> parts]

MCHttpRequests ==
  { Http(<< "on" >>, TRUE, "null", parts) : parts \in MCParts }
    \cup { Http(<< "on" >>, TRUE, args, << << H("Host", "text"), H("Host", "empty") >> >>) :
             args \in {"empty", "text"} }
    \cup { Http(conf, uri, "null", << << H("Host", "text") >> >>) :
             conf \in [1 .. 3 -> {"unset", "off", "on"}], uri \in BOOLEAN }

MCThreats == {-1, 0, 942100}

-----------------------------------------------------------------------------
(* Calls of a session *)

Nothing == [s \in {"xss", "path", "files", "ext", "sqli", "cmd"} |-> 0]
Plain == [len |-> 20, unique |-> 9, path |-> FALSE, uri |-> FALSE, danger |-> TRUE, candidate |-> TRUE,
          raw |-> 0, triggers |-> {}, found |-> Nothing, generated |-> <<>>,
          collections |-> {"ARGS"}, controls |-> {}]
Hit(rule, points) == [rule |-> rule, points |-> points]
Removal(rule, collection) == [rule |-> rule, collection |-> collection]

\* Scanner rules 11-16, generated rules 1-3 and 921170; 3 is a predicate.
MCBuffers == {
    [Plain EXCEPT !.danger = FALSE, !.candidate = FALSE],
    [Plain EXCEPT !.len = MaxLen + 1],
    [Plain EXCEPT !.raw = 920270, !.generated = <<Hit(2, 3)>>],
    \* a value that removes a rule for its own collection, for another, and for one
    \* whose rule a scanner finds as well
    [Plain EXCEPT !.controls = {Removal(2, "ARGS"), Removal(1, "BODY"), Removal(11, "ARGS")},
                  !.triggers = {"xss"}, !.found = [Nothing EXCEPT !["xss"] = 11],
                  !.generated = <<Hit(2, 3), Hit(1, 2)>>],
    [Plain EXCEPT !.collections = {"BODY"}, !.generated = <<Hit(1, 2), Hit(2, 3)>>],
    \* a long, varied value: five points are no threat, two more of the table are
    [Plain EXCEPT !.len = 100, !.unique = 50, !.triggers = {"xss", "sqli"},
                  !.found = [Nothing EXCEPT !["xss"] = 11, !["sqli"] = 15], !.generated = <<Hit(1, 2)>>],
    [Plain EXCEPT !.len = 70, !.triggers = {"xss"}, !.found = [Nothing EXCEPT !["xss"] = 11]],
    \* a path of the URI
    [Plain EXCEPT !.path = TRUE, !.uri = TRUE, !.found = [Nothing EXCEPT !["files"] = 13, !["ext"] = 14]],
    [Plain EXCEPT !.path = TRUE, !.uri = TRUE, !.len = 65, !.found = [Nothing EXCEPT !["path"] = 12],
                  !.generated = <<Hit(921170, 5), Hit(2, 3)>>],
    \* a short command, a long one, and table rules in their order
    [Plain EXCEPT !.len = 12, !.triggers = {"cmd"}, !.found = [Nothing EXCEPT !["cmd"] = 16],
                  !.generated = <<Hit(1, 2), Hit(3, 0), Hit(2, 3)>>],
    [Plain EXCEPT !.len = 40, !.triggers = {"cmd"}, !.found = [Nothing EXCEPT !["cmd"] = 16]],
    [Plain EXCEPT !.generated = <<Hit(3, 0), Hit(2, 3)>>]}

MCTxRules == <<[rule |-> 4, points |-> 2, needs |-> FALSE], [rule |-> 3, points |-> 3, needs |-> TRUE]>>
MCTxMatches == {{}, {3, 4}, {4}}
MCRemovable == {2, 16}

-----------------------------------------------------------------------------

NoHandler ==
  /\ request = 0 /\ pc = 0 /\ part = 0 /\ pos = 0 /\ vals = 0 /\ present = 0 /\ counts = 0
  /\ processor = 0 /\ origin = 0 /\ blockedBy = 0 /\ threat = 0
NoSession == states = 0 /\ score = 0 /\ charged = 0 /\ calls = 0

Init ==
  \/ entry = "nginx" /\ Adapter!Init /\ NoSession
  \/ entry = "buffer" /\ Buffer!Init /\ NoHandler

Next ==
  /\ UNCHANGED entry
  /\ \/ entry = "nginx" /\ Adapter!Next /\ UNCHANGED sessionOnly
     \/ entry = "buffer" /\ Buffer!Next /\ UNCHANGED handlerOnly

Spec == Init /\ [][Next]_vars

-----------------------------------------------------------------------------
(* Properties *)

\* ngx_http_luminawaf_handler: the bundle holds what comes first, a full bundle is
\* still described in full and accepted, and a request is blocked by a rule or not
\* at all.
HandlerIsFaithful ==
  entry = "nginx" =>
    /\ Adapter!AdapterTypeOK /\ Adapter!KeepsWhatComesFirst /\ Adapter!MetadataIsComplete
    /\ Adapter!NeverRefused /\ Adapter!BlockedByRule

\* luminawaf_inspect_scratchpad: the answer about a buffer, and the score it leaves,
\* depend on that buffer and its request alone, whatever the thread did before.
BufferAnswersForItself == [][entry = "buffer" => Buffer!OwnAnswer]_vars

\* "Request-local fields use thread-local storage" (src/src/luminawaf.cpp:208):
\* a transaction is called a threat only on points charged to its own request.
TxChargesItsRequest == entry = "buffer" => Buffer!TxChargesItsRequest
================================================================================
