----------------------------- MODULE BufferSession -----------------------------
(***************************************************************************)
(* The single-buffer entry points of src/src/luminawaf.cpp on one thread:  *)
(* luminawaf_inspect_buffer and _request, which look at the raw bytes      *)
(* first, _buffer_ex and _variable, which do not, and luminawaf_inspect_tx, *)
(* called in any order for several requests.  Each request has a rule      *)
(* state of its own; the score is the thread's.  What a scanner finds in a *)
(* buffer is data; RuleState has the details of the bookkeeping.           *)
(***************************************************************************)
EXTENDS Integers, Sequences, SequencesExt, FiniteSets, FiniteSetsExt

CONSTANTS
    Requests,
    Buffers,     \* [len, unique, path, uri, triggers, danger, candidate, raw, found, generated,
                 \*  collections, controls: the target removals its bytes trigger]
    TxRules,     \* rules luminawaf_inspect_tx evaluates: [rule, points, needs]
    TxMatches,   \* sets of transaction rules a bundle may match
    Removable,   \* rules a control may disable
    MaxLen       \* 131072

SessionAssumption ==
    \A b \in Buffers :
        /\ b.generated \in Seq(ToSet(b.generated))
        /\ \A g \in ToSet(b.generated) : g.points \in 0..5

LUMINA_ANOMALY_THRESHOLD == 5
MaxCalls == 3    \* bound: calls of a session

VARIABLES
    states,  \* per request: rules done (completed or hashed), off (disabled), seen (predicates),
             \* and targets: [rule, collection], disabled for values of a collection
    score,   \* g_anomaly_score_tls
    charged, \* history: the points charged to each request
    calls,   \* history: calls made
    answer   \* the last call: [call, request, status, threat]

sessionVars == <<states, score, charged, calls, answer>>

-----------------------------------------------------------------------------
\* compute_adaptive_threshold, which the callers give category 0
AdaptiveThreshold(b) ==
    LET byLength == IF b.len > 64 THEN 6 ELSE IF b.len < 16 THEN 4 ELSE 5
    IN byLength + (IF b.unique > 48 THEN 1 ELSE 0)

\* The hand-written scanners, in order, and what they need to run.
Stages == <<"xss", "path", "files", "ext", "sqli", "cmd">>
Runs(b, stage) ==
    CASE stage = "path"  -> b.path \/ stage \in b.triggers
      [] stage = "files" -> b.path
      [] stage = "ext"   -> b.uri
      [] OTHER           -> stage \in b.triggers
Points(b, stage) == IF stage # "cmd" THEN 5 ELSE IF b.len > 32 THEN 1 ELSE 3

\* LUMINA_ADD_SCORE_AND_CHECK and LUMINA_ADD_SCORE_SLAB: a rule charges a
\* request once, unless a control removed it; the last to reach the threshold
\* is the threat.
Charge(s, rule, points, threshold) ==
    IF rule \in s.off \/ rule \in s.done THEN s
    ELSE [s EXCEPT !.done = @ \cup {rule}, !.score = @ + points,
                   !.threat = IF s.score + points >= threshold THEN rule ELSE @]

Scan(s, b, stage) ==
    IF s.threat = 0 /\ Runs(b, stage) /\ b.found[stage] # 0
    THEN Charge(s, b.found[stage], Points(b, stage), AdaptiveThreshold(b))
    ELSE s
Scanners(s, b) == FoldLeft(LAMBDA t, stage : Scan(t, b, stage), s, Stages)

\* lumina_build_disabled_mask: disabled altogether, or for a collection of the value.
Disabled(st, b) == st.off \cup {t.rule : t \in {x \in st.targets : x.collection \in b.collections}}

\* Generated rules in the order the first-byte mask selects them; one without
\* points is remembered for the transaction.
Match(s, g, disabled) ==
    IF s.threat # 0 \/ g.rule = 921170 \/ g.rule \in disabled THEN s
    ELSE IF g.points = 0 THEN [s EXCEPT !.seen = @ \cup {g.rule}]
    ELSE Charge(s, g.rule, g.points, LUMINA_ANOMALY_THRESHOLD)
Generated(s, b, disabled) == FoldLeft(LAMBDA t, g : Match(t, g, disabled), s, b.generated)

\* What a call works on: the request's state, the score it goes on from, its threat;
\* and what is left of it in the state.
Begin(st, points) ==
    [done |-> st.done, off |-> st.off, seen |-> st.seen, targets |-> st.targets,
     score |-> points, threat |-> 0]
Kept(s) == [done |-> s.done, off |-> s.off, seen |-> s.seen, targets |-> s.targets]

\* Mutant: the score of the previous inspection is kept.
ScratchpadWithoutReset(st, b) ==
    LET start == [Begin(st, score) EXCEPT !.targets = @ \cup b.controls]
    IN IF ~b.danger /\ ~b.path /\ ~b.candidate THEN start
       ELSE Generated(Scanners(start, b), b, Disabled(start, b))

\* Mutant: the disabled mask is built before the controls are evaluated.
ScratchpadEarlyMask(st, b) ==
    LET start == [Begin(st, 0) EXCEPT !.targets = @ \cup b.controls]
    IN IF ~b.danger /\ ~b.path /\ ~b.candidate THEN start
       ELSE Generated(Scanners(start, b), b, Disabled(st, b))

\* luminawaf_inspect_scratchpad: the controls this value triggers, the mask of
\* what is disabled for it, the scanners and the generated rules.
Scratchpad(st, b) ==
    LET start == [Begin(st, 0) EXCEPT !.targets = @ \cup b.controls]
    IN IF ~b.danger /\ ~b.path /\ ~b.candidate THEN start
       ELSE Generated(Scanners(start, b), b, Disabled(start, b))

\* lumina_eval_tx_rules: controls first, then the rules not settled yet, one
\* that "needs" a predicate only after a scan has seen it.
EvalTx(st, removed, matches) ==
    LET start == [Begin(st, score) EXCEPT !.off = @ \cup removed]
        Step(t, x) ==
            IF x.rule \in matches /\ (x.needs => x.rule \in t.seen)
            THEN Charge(t, x.rule, x.points, LUMINA_ANOMALY_THRESHOLD)
            ELSE t
    IN FoldLeft(Step, start, TxRules)

-----------------------------------------------------------------------------
Fresh == [done |-> {}, off |-> {}, seen |-> {}, targets |-> {}]

Init ==
    /\ states = [r \in Requests |-> Fresh] /\ score = 0
    /\ charged = [r \in Requests |-> 0] /\ calls = 0
    /\ answer = [call |-> "none", request |-> CHOOSE r \in Requests : TRUE, status |-> 0, threat |-> 0]

Answer(call, r, status, threat) ==
    /\ answer' = [call |-> call, request |-> r, status |-> status, threat |-> threat]
    /\ calls' = calls + 1

\* Too long, or the raw bytes settle it: neither state nor score is touched.
Settled(r, b, checksRaw) ==
    /\ calls < MaxCalls
    /\ b.len > MaxLen \/ (checksRaw /\ b.raw # 0)
    /\ IF b.len > MaxLen THEN Answer("buffer", r, -1, 0) ELSE Answer("buffer", r, 0, b.raw)
    /\ UNCHANGED <<states, score, charged>>

Settle(r, result) ==
    /\ states' = [states EXCEPT ![r] = Kept(result)]
    /\ score' = result.score

InspectBuffer(r, b, checksRaw) ==
    /\ calls < MaxCalls
    /\ b.len <= MaxLen /\ (checksRaw => b.raw = 0)
    /\ LET result == Scratchpad(states[r], b)
       IN /\ Settle(r, result)
          /\ charged' = [charged EXCEPT ![r] = @ + result.score]
          /\ Answer("buffer", r, 0, result.threat)

\* luminawaf_inspect_tx
InspectTx(r, removed, matches) ==
    /\ calls < MaxCalls
    /\ LET result == EvalTx(states[r], removed, matches)
       IN /\ Settle(r, result)
          /\ charged' = [charged EXCEPT ![r] = @ + result.score - score]
          /\ Answer("tx", r, result.threat, result.threat)

\* The request ended; the caller clears its state for the next one.
NewRequest(r) ==
    /\ states[r] # Fresh
    /\ states' = [states EXCEPT ![r] = Fresh] /\ charged' = [charged EXCEPT ![r] = 0]
    /\ UNCHANGED <<score, calls, answer>>

Next ==
    \/ \E r \in Requests, b \in Buffers, checksRaw \in BOOLEAN :
          Settled(r, b, checksRaw) \/ InspectBuffer(r, b, checksRaw)
    \/ \E r \in Requests, m \in TxMatches, off \in {{}, Removable} : InspectTx(r, off, m)
    \/ \E r \in Requests : NewRequest(r)

Spec == Init /\ [][Next]_sessionVars

-----------------------------------------------------------------------------
(* Properties *)

\* The points a buffer may charge for one rule.
PointsOf(b, rule) ==
    LET byScanner == {Points(b, s) : s \in {x \in ToSet(Stages) : b.found[x] = rule}}
        byTable == {g.points : g \in {x \in ToSet(b.generated) : x.rule = rule}}
    IN byScanner \cup byTable

Sum(p) == MapThenSumSet(LAMBDA x : p[x], DOMAIN p)

\* The answer about a buffer depends on that buffer and its request alone: the
\* score it leaves is that of the rules this call charged, and a threat is one
\* of them, whatever the thread inspected before (the resets of
\* luminawaf_inspect_scratchpad); no rule removed for a collection of the value,
\* by this very value or before, is charged by the table.
OwnAnswer ==
    \A r \in Requests, b \in Buffers :
        InspectBuffer(r, b, FALSE) =>
            LET new == states'[r].done \ states[r].done
                scanned == {b.found[s] : s \in ToSet(Stages)}
            IN /\ \E p \in [new -> 1..5] : (\A x \in new : p[x] \in PointsOf(b, x)) /\ score' = Sum(p)
               /\ answer'.threat \in new \cup {0}
               /\ \A x \in new \ scanned, c \in b.collections :
                     [rule |-> x, collection |-> c] \notin states'[r].targets
               /\ \A q \in Requests \ {r} : states'[q] = states[q]
BufferAnswersForItself == [][OwnAnswer]_sessionVars

\* "Request-local fields use thread-local storage" (src/src/luminawaf.cpp:208):
\* a transaction is called a threat only on points charged to its own request.
TxChargesItsRequest ==
    answer.call = "tx" /\ answer.threat # 0 /\ states[answer.request] # Fresh =>
        charged[answer.request] >= LUMINA_ANOMALY_THRESHOLD
=============================================================================
