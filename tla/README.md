# LuminaWAF: a verification project

LuminaWAF compiles the OWASP Core Rule Set into C matchers and evaluates a
request against them in one pass. This directory holds TLA+ models of the
runtime that does the evaluating, of the tools that turn rules into C, and of
the harness whose measurements the repository publishes; the TLC runs that check
them on small instances; and machine-checked proofs of the properties that
matter most, for every rule table and every request.

Paths below are relative to the repository. "The bundle" is the set of values
of one request that an integration hands to `luminawaf_inspect_bundle`.

## 1. The system

### Components, their state, their operations

| component | code | state | operations |
|---|---|---|---|
| Rule state and anomaly score | `src/luminawaf.h:166-185`, `src/lumina_hit_slab.h`, `src/luminawaf.cpp:213-336` | five slabs (completed, matched, predicate, disabled, and one per removable collection), a 512-bit hash set, a list of 32 external matches; the thread-local anomaly score | dedup test-and-set, record a match, score with a threshold test, commit a generated rule, mark a predicate, query |
| Bundle inspection | `src/luminawaf.cpp:1743-2146` | locals of one call: threat, disabled mask of the value, score on entry, null-byte flag | transaction rules, structural checks, projections, the loop over the values, the verdict |
| Generated transaction rules and controls | emitted by `tools/sidecar_translator.py:6896-7371`, `6116-6139` | none of its own: reads and writes the rule state | removal controls, target controls, one commit per rule |
| Single-buffer and audit entry points | `src/luminawaf.cpp:404-656`, `1557-1741` | none of their own | `inspect_buffer`, `inspect_buffer_ex`, `inspect_variable`, `inspect_request`, `inspect_tx`, `audit_*` |
| Projected collections | `src/luminawaf.cpp:749-1553`, `src/json_extract.h`, `src/lumina_xml_parser.c` | parser positions; a thread-local XML value buffer | cut a body, a query or a cookie into values and scan each |
| Short-rule masks | `src/luminawaf.cpp:113-184`, tables from `tools/sidecar_translator.py:8096-8190` | constant tables | which generated rules a value is eligible for |
| Transform view cache | emitted by `tools/sidecar_translator.py:8209-8482` | eight thread-local cache slots | transform a value once per chain and reuse the view |
| nginx adapter | `nginx_module/ngx_http_luminawaf_module.c` | per-location configuration; one request's bundle | collect values, inspect, 403 or decline |
| Canonicalization, transforms | `src/canonicalize.c`, `src/lumina_transforms.c` | none | decode in place, strip, lower-case |
| Hand-written scanners, prefilter | `src/lumina_scan_*.c`, `src/lumina_sqli.c`, `src/fast_prefilter.c`, `src/trigger_matcher.c` | none | bytes to a rule id or nothing |
| Regex compiler | `tools/regex_dfa.py` | graph, table and queue of one expression | parse, build the graph, determinize, find required seeds, emit, match |
| Rule translator | `tools/sidecar_translator.py`, `tools/audit_crs_mechanisms.py` | rules, chains, generated rules in order, removal controls, lists of what was given up | join lines, group chains, classify, lower to a backend, compute masks and routing tables, audit |
| Benchmark harness | `bench/benchmark_harness/run.py`, `e2e.py`, `report.py`, `manifest.py`, `correctness.py`, `coraza_correctness.py` | processes and their pid files, payloads, the manifest of the run | start, load and stop a server per leg, judge, plan, gate, publish |
| Release tools | `tools/verify_*` | none | comparing artefacts with lists |

### How they interact

An integration zeroes a `LuminaRuleState`, fills a bundle and calls
`luminawaf_inspect_bundle`. That function is strictly sequential and calls
everything else: the emitted transaction rules, then structural checks of the
metadata, then the projections, then a loop over the values (shortest first)
in which each value goes through the removal controls, the null-byte check,
the JSON strings, the prefilter, eleven scanners and the generated matchers,
then the transaction rules again, then the verdict. All of these meet in two
pieces of shared state, the rule state and the thread's score, which is why the
bookkeeping is modelled first and by itself.

The only concurrency is one inspection per worker thread; threads share
nothing but constant tables, and the score, the XML buffers and the cache are
thread-local. So the models of the runtime have no interleaving of threads. What
makes it hard is the *order* in which several evaluation paths touch the same
bookkeeping, and the many ways to leave a value early.

The tools run before that, once: rules become expressions, expressions become
automata, automata become matchers, and masks and tables decide which matcher sees
which value. A slip there is a rule that is never reached, without any sign at run
time. The harness runs beside it: it drives NGINX and a load generator, processes
that start late, die and leave files behind, and two programs (`e2e.py` and
`report.py`, or `run.py` and `report.py`) judge the same evidence.

### What is hard, and what makes each part correct

* A rule can be reached by a projection, a scanner, the generated dispatch and
  the transaction rules. It must be charged once, never because of another
  rule's mark, and never after it was removed.
* A threat can be found in five places and is handed over twice through a
  `threat == 0` test. It must not be lost, and the verdict must name a rule
  that was really charged.
* Six `continue` statements and a `break` leave the value loop. None may
  drop a value that nothing has looked at.
* Each value has its own threshold (4 to 7 points above the score it started
  with), the transaction has another (5). The two can disagree.
* A transaction rule waits for predicates recorded later than its first
  evaluation.
* The disabled mask is computed once per value and must contain the effect of
  the controls this value triggered.

* What the tools give up (a budget, an unknown construct) must be listed, and what
  they lower must mean what the expression means, through every fallback.
* A selector, a mask, a router and an audit each compute "does this rule see this
  value" in their own way, and have to agree.
* A leg of a benchmark must be measured on the server it started, although stopping
  one is asynchronous; a run that failed anywhere must not end as a success.

`PROJECT.json` lists each hazard at its line, with the properties that cover it.

## 2. Modules

| module | models | role |
|---|---|---|
| `AnomalyLedger` | what the bookkeeping promises: an account that each rule enters once, and a total | abstract specification |
| `RuleState` | the rule state and the score; one action per call | component; refines `AnomalyLedger` |
| `InspectBundle` | one inspection, from the first transaction rule to the verdict | component; extends `RuleState` and refines its `Spec` |
| `BufferSession` | the single-buffer entry points, called in any order on one thread | component |
| `TransformChains` | what a generated matcher may be run on: the value, or its transforms around an offset | definitions shared by the next two |
| `DispatchContract` | the dispatch without a cache | abstract specification |
| `TransformViewCache` | the dispatch with its thread-local workspace, and its callers | component; refines `DispatchContract` |
| `NginxAdapter` | the nginx access-phase handler: what it hands over and how it answers | component |
| `ArgumentProjection`, `MultipartBody`, `JsonProjection`, `XmlParser` | the passes that cut a body into values | components |
| `RegexAutomata` | parsed expressions, their meaning, the Thompson graph | definitions shared by the next two |
| `RegexCompiler` | an expression to a DFA or bit-set NFA, and the walk of its tables | component |
| `RegexBackends` | the ladder of backends a rule is lowered by, and what its matcher finds | component |
| `RuleLists` | which generated rules go on: repeated ids, `HPP_SKIP` | definitions shared by the next two |
| `RoutingTables` | masks, routers and tables, and the inspection and audits that use them | component |
| `RuleTranslation` | rule text to generated rules, controls and audit rows | component |
| `E2eLegs` | one NGINX and one load generator per leg, with their crashes | component |
| `Evidence` | what e2e.py, run.py and report.py make of the legs | component |
| `BenchmarkRun` | the steps of a run while sources and libraries change | component |
| `EvidenceGates` | the gates over files other programs write | component |
| `MCRuleState`, `MCInspectBundle`, `MCTransformViewCache` | instances for TLC | |
| `MCRequestBodies` (of `MCArgumentProjection`, `MCMultipartBody`, `MCJsonProjection`, `MCXmlParser`), `MCEntryPoints`, `MCTranslator` (of `MCRegexSyntax`, `MCRegexBackends` and `MCTables`, which joins `RoutingTables` and `RuleTranslation`, with the constants of `MCRoutingTables` and `MCRuleTranslation`), `MCHarness` | the parts of one subsystem, checked in one run | |
| `RuleStateProofs`, `InspectBundleProofs`, `ViewCacheProofs`, `EntryPointProofs`, `HarnessProofs`, `BodyProofs`, `TextProofs`, `TranslatorProofs` | theorems | |

### RuleState and the code

A rule is its numeric id. `Engine` are the ids with a slot in the generated
table (`g_short_rule_id`), `RuntimeOnly` those that only a scanner or a
structural check reports. The slabs are sets of ids; `slots` is the set of bits
that are 1 in `hash_dedup`; `external` is `external_matches`. `credits` is a
history variable: how often a rule was added to a score.

| action | code |
|---|---|
| `AddScore` | `LUMINA_ADD_SCORE_AND_CHECK` (274-290), with the dedup test that also marks (216-227). It is called with every rule but those of the two scanners below (`Deduplicated`). The chain arm calls `lumina_eval_chain`, of which the only definition is the weak one that answers false (line 49), so a chained rule is marked and never fires |
| `CommitGenerated` | `lumina_commit_generated_rule` and the scoring arm of `LUMINA_ADD_SCORE_SLAB` (292-323) |
| `MarkPredicate` | the arm of the same code for a rule without points |
| `AuditMatch` | what the audit entry points record |
| `ScoreUnrecorded` | the two scanners that write the score themselves (2006-2025) |
| `RemoveRules`, `RemoveTargets` | the emitted controls |
| `BeginInspection`, `FreshState` | an entry point clears the score; the caller supplies another zeroed state |

`Next` allows every call, in any order, with any arguments. What holds here
therefore holds whatever the evaluation paths do.

### InspectBundle and the code

`pc` says which part of the function runs, `step` the position in it. The
parts in order: `controls1`, `tx1`, `meta`, `project`/`projectScan`, then per
value `value`, `empty`, `raw`, `json`, `filter`, `scan`, `dispatch`/`trailing`,
`valueEnd`, then `controls2`, `tx2`, `verdict`, `done`. An action is one call
that changes state, or the decision between two of them.

What is kept: every branch, early `continue` and `break`, the order of the
eleven scanners and which of them runs for which value, the thresholds, the
handing over of results (`threat`, `local`), the two ways the score is written,
the exact condition of the null-byte fallback, and that a hit of a shared router
lets the rest of its mask word run (`trailing`).

What is abstracted: a value is a record of the attributes the control flow
tests (scope, kind, collections, lengths before and after canonicalization,
whether the entropy estimate is high, whether it holds `%00`, whether the
prefilter rejects it). What a scanner or generated matcher finds is left open:
every subset of its rules, in every order. The stable insertion sort of
`bundle_build_length_order` appears as what it does, "take the first of the
shortest values left" (`ComesFirst`). The projections are a sequence of values,
each scanned by an unbounded number of generated hits; the parsers that cut
them out are not modelled here. One simplification: inside a multipart body the
code keeps the first threat, the model (like the other projections) the last.
Only whether there is one matters to the properties.

Assumptions on the tables (`InspectAssumption`) are the ones the translator
establishes: a transaction rule has no points in the short-rule table
(`sidecar_translator.py:7494-7498` moves them away), rule 920270 is generated
and is not a chain.

### TransformViewCache and the code

The translator emits `lumina_dispatch_rule` as text (`sidecar_translator.py:
8209-8356`). `mem` is what each buffer holds, `scanning` the buffer whose value
is being scanned; `views`, `input` and `scratch` are the workspace and the eight
scratch buffers, each described by the view it holds. `seen` is a history
variable: what the last call ran its matcher on.

| action | code |
|---|---|
| `Begin`, `End` | a scan of one value: `lumina_reset_transform_view_cache`, called by every scanning loop before its first dispatch |
| `Scan` | one dispatch, by its four ends: `RunRaw`, `RunMulti`, `RunCached`, `RunFresh` |
| `Refill` | the next value is decoded into the same buffer |
| `BorrowScratch` | a transaction rule decodes into the buffer of slot 0 |
| `AuditEmpty` | the audit of one rule against an empty value, which does not reset |

Bytes are not modelled: a view is named by the chain, the number of transforms
applied, the content and the offset. So a wrong view is one made otherwise,
whether or not the bytes would differ. `Dirty` and `Shrunk` stand for the two
facts about bytes the code branches on; both are open. That a chain whose dirty
bytes do not occur really is the identity belongs to the transform kernels and
is not modelled. Values are limited to 131072 bytes, so that with the real
buffers of 2^18 the copy always fits; `Cap` keeps the branch.

### BufferSession and the code

`luminawaf_inspect_buffer` and its variants end in `luminawaf_inspect_scratchpad`
(`luminawaf.cpp:481-656`): `Settled` is a buffer that is too long or that its raw
bytes decide (which only `luminawaf_inspect_buffer` looks at), `InspectBuffer` one that
is scanned (its target controls, then `Scanners`, then `Generated`),
`InspectTx` is `luminawaf_inspect_tx`. Requests have a rule state each, the score is
the thread's. What a scanner finds in a buffer is an attribute of the buffer.
`charged` is a history variable.

### NginxAdapter and the code

One call of `ngx_http_luminawaf_handler`, step by step: `Bypass`, `NoState` or
`Start`, then one `TakeHeader` per header of nginx's list (a list of parts, of
which only the first may be empty), `Inspect`, and the answer. The bundle is
kept as the places of its values in the request; `present`, `counts` and
`processor` are the metadata the structural checks read. What nginx does is
external: an allocation may fail (`NoState`; `pushed` in `Inspect` and `Block`;
`BlockUnallocated` for the one result the handler does not test, which ends the
worker). The inspection is represented by `Threats`, what it may report, and by
the sizes of a bundle it accepts (`Legal`). Header names that differ only in
case, and the spellings of `X-Filename`, are one name. The compile options for
debugging and for another error page are left out.

### The projections and the code

Four passes that cut a body into values and have each scanned. In each, `log` is a history variable: every scan, what it was of and
what it returned (any member of `Results`). The properties compare it with what
the text consists of, computed without a pass.

`MultipartBody` (993-1242) reads a body line by line: `Boundary`, `EndHeaders`,
`FieldHeader`, `TypeHeader`, `OtherLine`, `NextValue`. A line is a record of what
the code asks of it; finding the boundary and cutting parameters out of a line
are part of what a line is. `BeginPart` is the memory of one part that has to be
cleared at each boundary. A part that no boundary ends is not scanned as XML
here, only with the whole body.

`JsonProjection` (1290-1411) reads a text character by character: one action for
each way the loop goes on. The alphabet has one character per case the code
distinguishes. The pass is not a JSON parser: commas and colons may stand
anywhere, a bracket too many ends it. So there are two properties: of a JSON
text, exactly the keys, strings and scalars are scanned
(`LeavesAreScanned`, part of `TextsAreScanned`); of any text nothing is skipped up to
where the pass ends (`NothingIsSkipped`, part of `NothingIsDropped`): what follows an unmatched or
too deep bracket, and what is past the scratch buffer, is not looked at. The buffer is measured
in characters, not in bytes.

`ArgumentProjection` (942-971, 1459-1553) cuts at `&`, `;` and the first `=`.
`Continue` is the step of the loop, one component at a time; `Decode` is what
`lumina_decode_form_component` does, a character at a time, so that an escape
that yields a percent sign is not decoded again. A component too long to be decoded is left
out by the code, and by `NothingIsDropped`.

`XmlParser` (`lumina_xml_parser.c:70-398`) is the state machine of the pass, an
action for each effect and `Pass` for the characters that only change the state.
The seven states that spell `[CDATA[` are one character of the alphabet, a
reference is named by what it stands for. `here` is where the next step looks: the wide
search of AVX2 builds (`Landing`) is part of each step, and `wide` says whether the
build has it. Value buffer and result are variables that outlive a call, as the
thread-local ones do. Two things the model shows that a reader may not expect: a
tag that closes itself makes the text before it, and the tag, part of the next
fragment, so more is scanned than the text (`NoTextIsLost` says that nothing is
lost, unless the buffer fills up with it); and at a limit the pass
returns -1, whatever matched before.

### The regular expressions and the code

An expression is its parsed tree; `Ends` in `RegexAutomata` is its meaning (at which
offsets a match that starts here may end), a reference that shares nothing with the
automata. `RegexCompiler` builds the Thompson graph (`BuildSequence` and the operators
under it), and from there `Determinize` expands one DFA state per step, by byte class,
within the budgets; `Emit` accepts the table or gives it up. `Call` starts one of the four emitted
matchers, which reads a value byte by byte (`ReadDfa`, `ReadNfa`) and decides at its end
(`EndDfa`, `EndNfa`). The NFA matcher comes with the seeds that have to occur (`SeedCover`) and
the branches it answers without running (`FastAccept`). Each answer is compared with the
meaning for every value up to the bound.

`RegexBackends` takes the same kind of expressions as rules: each step of `Lowering` is one rung
of the ladder in `sidecar_translator.py:7793-8160`, `Dispatch` is one position of the
scanning loop with the mask it is routed by. Sizes are data: a rule
names the backends that exceed their budgets for it, and the flags that one rung sets
are seen by the next. The plans written by hand for single expressions, tried
before the ladder, and `(?m)` are left out.

There are five ways in which the code is known not to keep an expression. Each is an operator
of `RegexBackends`, with its lines; `LoweringIsExact` is about all other rules, and the
instance has a rule for each:

* `CategoryDropped`: a class with a negated category (`[\Wa]`) is read without it;
* `SearchLost`: a rule routed on every byte, so called at the start only, whose matcher does not search;
* `EmptyMatchLost`: an expression that may match no byte is routed on the bytes it can begin with;
* `GapMisread`: at a gap `(?i)` is lost, the gap takes newlines, and something has to follow;
* `StraightLineMisread`: straight-line code for an expression of which something that may end at
  several places is followed by more, or with a `.` that takes a newline.

Each is needed: without one of them TLC finds a rule, exempt for no other reason, whose
matcher and expression disagree on a value of two bytes. They are enough for more than 13,000
pairs of an expression and a backend, built from eighteen kinds of pieces (a check made
with the modules as they are, not one of the runs).

### RoutingTables and the code

`Translate` adds a rule, whose masks come from its variables (`Contract`, `HeaderMask`:
exclusions, counts and selectors included); `BuildTables` groups call dictionaries into
routers. `Scan` is one value: `ActiveMask` selects the rows
(`luminawaf.cpp:113-184`), `Inspect` runs what is routed, `AuditRule` and `AuditAll` are
the two audits. Masks are sets. What a value must not be lost for is `Selects`, computed
from the rule's variables one by one. `SeesItsValue` says which rules get the value they
ask for: a shared router is given the bytes as they are, whatever transforms its rules have
(see the divergences below), and the two properties are about the other rules.

### RuleTranslation and the code

`Write` adds a statement to the text and `Parse` reads all of it: comments and continued
lines (`Split`). `Group` is one unit of `group_rule_chains`: a rule by itself, or a chain up
to its last member (`ChainEnd`, `Unit`). Each unit meets the tests of the loop of `main` in their order
(`Ladder`: a sequence of guards, each with what becomes of the unit), and is generated
(`Generate`) or not (`Skip`). `Finish` drops repeated ids and resolves the removal
controls to indices. `Follow` is one statement of `chain_score_heads`, which looks for the heads of
scoring chains by a loop of its own, and `Audit` is `audit_rules` with what it found, over
the same text. A statement's items are what the text holds on a line, each with the comment
mark it may have. Patterns are names, and constants say what the emitters do with one.

### The benchmark harness and the code

`E2eLegs` is `NginxLeg` and the loop of `main` in `e2e.py`: one action per call that
touches a process, a file or the port. NGINX and wrk are the environment: a server
takes its time to start and to leave, may lose a worker or its master at any
moment, and wrk may die. `disturbed` and `unstopped` are history variables.
`Evidence` measures a set of slots in the order of `main` and `rotated_order`, with any
outcome for each, and computes what the three programs
derive from the legs; `EvidenceGates` does the same for the files of other tools; both
have one action (`Measure`, `Write`) because the programs are sequential and their
hazard is disagreement. `BenchmarkRun` is `main` of `run.py`, step by step, with
`Edit` and `Rebuild` of a developer on the same checkout in between.

## 3. Runs

A run puts one question to one subsystem. Where a subsystem has several parts that do
not call each other, they share a run: a selector (`body`, `entry`, `tool`, `part`)
picks the part of a behavior, its `Init` and `Next` are those of the component's
module, and the variables of the other parts are 0. Each property then reads
"if this part runs, then ...", and states what the component's module states of it,
several conjuncts about the same promise together.

| run | question | instance | result |
|---|---|---|---|
| `rule_state` | is the bookkeeping exact under any sequence of calls, and does it implement the ledger? | two generated rules, one chained; three scanner ids with distinct hash bits, one unrecorded; an external list of one | holds, 25,920 states |
| `hash_collision` | does the dedup of one id affect another? | real ids 920660 and 1000020, which share a bit | violated: see findings |
| `unrecorded_repeat` | is every rule charged once? | as `rule_state` | violated: see findings |
| `inspect_bundle` | does an inspection account for its verdict, skip nothing, keep a threat, honour removals, settle the transaction rules, use the bookkeeping only by its calls, and end? | requests of two values (nine kinds), up to two projected values, sets of structural checks, removals | holds, 490,139 states |
| `verdict_by_threat` | is the request blocked exactly when its score reaches the limit? | as `inspect_bundle` | violated: see findings |
| `view_cache` | does a matcher ever run on a stale or foreign view? | three chains, two of them in slot 0, a multiMatch rule, two buffers, two values of equal length, an empty one and one that fits only from an offset | holds, 15,400 states |
| `entry_points` | does the handler hand over what comes first and block just when a rule is named? does a buffer's answer depend on that buffer alone? | lists of one or two parts with up to two headers each, six kinds; three levels of configuration; sessions of three calls for two requests over twelve buffers | holds, 62,440 states |
| `tx_score` | is a transaction called a threat on its own points? | as `entry_points` | violated: see findings |
| `request_bodies` | is everything a body means scanned, as it was meant, once, and does every pass end? | all texts of up to four (arguments) and five (JSON) characters and texts built from parts; bodies of up to four lines of ten kinds; documents of up to four items of sixteen kinds and pairs of them | holds, 629,068 states |
| `translator` | do the automata decide what the expression says, does every backend keep it, does no table lose a rule, is every scoring rule accounted for? | twelve expressions over every value of up to three bytes; twenty-five rules with values of up to four; three of thirteen rules over the routed values; three of thirty-three statements | holds, 855,937 states |
| `continuation` | is what is not sent to a DFA emitted with its continuation kept? | two rules, an alternation that may be empty before another byte | violated: see findings |
| `harness` | are recorded legs their own, is what is published backed, does a run fail closed, and does it end? | two adapters, two repetitions, one crash; every outcome of the legs of four phases; nine machines in four modes with two versions of the sources; files of up to three rows | holds, 800,281 states |

Bounds, and why they are enough. *MCRuleState* caps a rule's credits at
`MaxRepeats` = 2 and the score at `MaxScore` = 3: a second charge is already the
error, and no guard of the bookkeeping looks at the score. One collection and one
rule with a predicate are enough because the slabs do not interact. The external
list of one is full after one match, which is the case the property is about.
*MCInspectBundle* uses two values because every decision of the loop is about
the current value and what was left by an earlier one (`threat`, `score`, the
rule state). Lengths lie on both sides of every comparison (16, 48, 64, 128,
131072), so that thresholds of 4, 5, 6 and 7 occur.
*MCTransformViewCache* puts two chains in one slot, since slots do not interact,
and in slot 0, the one that is borrowed; two buffers tell "same address" from
"same length"; four contents are one for each way a value can be mistaken for
another or refused.
*MCEntryPoints* replaces the capacity of 16 by 3 and the limit 65535 of a count
by 2, so that up to four headers and two other values pass both limits. Three calls
(`MaxCalls`) are the shortest session in which one request is returned to after
another.
*MCMultipartBody*: four lines after a boundary are the shortest body in which two
parts have names or a type each; a second value shows what is carried over.
*MCJsonProjection* replaces the depth 64 by 3 and the buffer by four characters,
and *MCArgumentProjection* the buffer of 131072 by four, so that texts lie on both
sides of each limit; longer texts repeat the steps of shorter ones.
*MCXmlParser* replaces nesting 128, 256 attributes, references of 16 and values of
1 MB by 2, 1, 2 and 8, and the 32 bytes of the wide search by 2, so that it
lands in the middle of a chunk, at its end and behind the last full one.
*MCTranslator*: the compiler's five bytes are one letter in two cases, another word
character, a byte that is none and a newline, one for each distinction the compiler
makes between bytes; three of them are enough for a context before, inside and after
a match. The budgets are small enough that some expressions exceed them.
*MCRegexBackends*: each rule takes another way down the ladder (fanout 2 for 4, guards
of 2 bytes for 8), and five are the exempt ones. *MCRoutingTables*: routers of two rules for eight, large
dictionaries of three words for 256; three rules show two in one router and one
outside it. *MCRuleTranslation*: a chain with a control beside it takes three
statements.
*MCHarness*: two repetitions make two servers of one adapter follow each other, so
that a pid file may be of the one before; one crash at any moment, more only repeat;
two valid runs are required where the code asks for five, so that one lost leg
decides; the second version of the sources is any change of them. Where the runs of a point
are only counted and averaged (`OrderedKinds`), one order of their outcomes stands for all;
not so for the overhead payload, whose rounds pair legs.

Deadlock is checked in `rule_state`, `inspect_bundle`, `view_cache`, `request_bodies`
and the runs that share their modules: a finished inspection or pass stutters by an
action of its own. In `entry_points`, `translator` and `harness` (and `tx_score`) the
system really stops: a handler that answered, a session at its bound, a tool that wrote
its output, a run that is over.

*Fairness.* `BundleSpec` has `WF(Advance)`: a sequential function whose thread
runs keeps moving. `GeneratedHit` and `DispatchHit` are outside `Advance`:
nothing forces a matcher to hit, and each offers a value's finitely many
offsets, so the part is left in the end; `Advance` contains the step that leaves
it. Termination (`Terminates`) needs nothing more. `MCRequestBodies` has `WF(Next)` for
the same reason: a pass is one call of one sequential function, and `EveryPassEnds`
says that reading a character again never lasts. `MCHarness` has `WF` of the script's own
steps and of the end of a load, because wrk is given a duration; nothing is assumed of
NGINX, which may never start, answer or leave: every wait for it has a deadline. The
other parts move forward with each step, so they state no liveness and assume no
fairness.

### Findings

* **A hash collision drops points** (`hash_collision`). Ids outside the
  generated table are deduplicated by one bit of 512. 920660 (missing header
  combination) and 1000020 (XSS scanner) share it, so the second is dismissed.
  `lumina_hit_slab.h:28-29` says that collisions can no longer suppress scoring.
* **Two scanners charge per value** (`unrecorded_repeat`). Response splitting
  and SSRF add to the score without the dedup (`luminawaf.cpp:2006-2025`), against
  `luminawaf.cpp:213-215`. In the model such an id is charged only by
  `ScoreUnrecorded` (`Deduplicated` keeps it from the macro), and the trace is two such
  calls, as for one pattern in two values.
* **The verdict is not the score** (`verdict_by_threat`). A request whose score
  is 5 passes if no value crossed its own threshold, or if the points came from
  the two scanners above: `r & (... ? 1 : 0)` is 0 for their even ids.
  `luminawaf.cpp:2141` says that the verdict uses the transaction-wide score.
* **A transaction is judged on another's points** (`tx_score`).
  `luminawaf_inspect_tx` (`luminawaf.cpp:1763`) starts from the score the thread's
  previous inspection left, against `luminawaf.cpp:208`.
* **An alternation loses its continuation** (`continuation`). `requires_dfa`
  (`regex_dfa.py:201`) looks at repeats only; `(?:ab|a)c`, parsed as `a(?:b|)c`, is
  emitted as straight-line code that cannot go back, against its docstring.

### Divergences met while modelling, outside the runs

Places where the code does other than a document or another part of it says. Each
was seen in a model; the modules keep what the code does, and where a
property would fail for the reason given, it or its instance says so.

* A leg whose NGINX lost a worker or was restarted ends valid (`e2e.py:460`), although
  `methodology/README.md:128` requires stable processes. `RecordedLegsAreTheirOwn` is
  about undisturbed legs where CPU time is concerned.
* A scaling table is NOT QUALIFIED when only the baseline's client is at its limit
  (`report.py:716` against `report.py:1061`).
* A point counts as sustainable when two of three legs are valid and the third had
  errors (`e2e.py:784` against `report.py:1050`).
* The manifest reads one assignment of a policy value, the server the last one
  (`manifest.py:65` against `methodology/README.md:73`). `GatesAgree` is about
  configurations without another assignment.
* The first bytes of a class with a negated category, as `[\Wa]`, are computed without
  the category (`sidecar_translator.py:698` against `1413`).
* A search expression whose DFA is given up for the NFA keeps the flag that routes it on
  every byte and is called once (`sidecar_translator.py:8141` against `3949`).
* An expression split at a gap loses its `(?i)` (`sidecar_translator.py:4005` against `3971`).
  The gap is looked for in the text, where it may cut a root alternation (not modelled).
* These and two more are what `LoweringIsExact` exempts by name (section 2).
* A performance counter that reads 0, or no transaction counted, is accepted by `run.py`
  (499-526) and not qualified by `report.py` (345-352, 411); where an event has several
  lines `report.py` reads the last (307-308) and `run.py` asks all of them. `GatesAgree` says
  that the two agree on the rest: the report qualifies a group exactly if the gate accepts it,
  cycles, instructions and branches do not read 0 (the overhead table: and the first log counted a
  transaction), for files that hold each event once, as `run.py` writes them.
* A scoring rule is lost without an entry when its phrase data is missing or empty, when an
  `@rx` emitter raises, and when it counts parameters (`sidecar_translator.py:7884-7906`,
  `7941-7947`); `ScoringRulesAreAccounted` exempts what `GivenUp` names.
* A fused router runs on the untransformed value (`luminawaf.cpp:774-793` and `2042-2061`,
  routers filled at `sidecar_translator.py:1501` and `5545`), although transforms come before
  the operator (`methodology/README.md:28-31`). `NothingSelectedIsMissed` and `AuditsAgree`
  exempt exactly the rules this happens to (`SeesItsValue`). Without the exemption TLC violates
  both: two rules that ask for lower case share a router, the value holds one of their words
  in upper case, both audits report the match and the inspection has none.
* The full audit filters rules by collection otherwise than the audit of one rule
  (`luminawaf.cpp:1595` against `1642`); `AuditsAgree` compares them on rules that name
  no other collection.
* 920171 is in the inventory of native rules and nothing implements it
  (`audit_crs_mechanisms.py:67` against `methodology/README.md:49`).
* A lost chain whose score is on its last member is not among the audit's gaps
  (`audit_crs_mechanisms.py:269-273`); `AuditSeesTheSameChains` asks it of rules that score
  by themselves.

## 4. Proofs

All theorems are checked by TLAPS from the named assumptions on the constants, which TLC
evaluates on each run: `RuleSetsAssumption` and `BoundsAssumption` (rules and the
external list), `InspectAssumption` and `RequestsAssumption` (an inspection),
`ChainsAssumption` and `AddressAssumption` (the view cache), `AdapterConstants`, `SessionConstants`,
`LegsConstants`, `EvidenceConstants`, `RunConstants`, `GateConstants`, `FormConstants`,
`MultipartConstants`, `JsonConstants`, `XmlConstants`, `RoutingConstants` and
`StatementsAreItems` (what the modules of the parts assume). They say what sort of thing a constant is and, of the bounds, that they are
positive; where one says more, it is discussed below. A theorem holds for any rules,
requests, texts, files, buffers, limits and numbers of retries.

In the proofs, a part that shares a run with others has its invariant under its
selector, as in `body = "json" => JsonInv`: the step of another part leaves it alone.

**Bookkeeping** (`RuleStateProofs`).
`TypeCorrect` is inductive as it stands. `CreditedOnceAlways` needs a
strengthening: "credited at most once" survives a call only because a credited
rule is *seen* (`CreditedAreSeen`), by its slab bit or its hash bit; collisions
only ever make more rules seen, so this direction needs no assumption on the
hash. The converse, `DedupExact`, does: it takes `DistinctSlots`, and
`hash_collision` shows that the ids in the code do not satisfy it.
`CreditsReported` adds that the external list keeps to its capacity (`ExternalFits`):
a rule recorded once stays reported, and only a full list loses one. `RemovedStaySilent`
is an action property and follows from the guards of the calls alone, `TypeOK` given.
`LedgerImplemented` maps every call to a step of `AnomalyLedger` or a stutter. The
mapping needs `CreditedOnce` and `CreditedAreSeen`: a call that dismisses a repeat is a
stutter only because what is seen was entered before, and one that enters a rule is a
step of the ledger only because the rule was not there.

**An inspection is a client of the bookkeeping** (`InspectBundleProofs`).
`CallStep` shows, action by action, that a step of the inspection is one of six
calls or leaves the bookkeeping alone; it needs the shapes of the request
(`ValueShape`, `StringShape`) and that every position is an index where it is
used (`PositionsOK`), which `ShapeStep` carries along. Hence
`BookkeepingRefined` (`BundleSpec => Spec`), and every theorem about `Spec` is
one about inspections: `InspectionCreditsOnce`.

**The verdict** (`InspectBundleProofs`). `Accumulate`: the calls of an inspection only
add (score, credits, removals), and a slab mark means a credit unless the macro
dropped a chained rule (`CompletedBacked`). `ThreatStep` and `LocalStep` say
how a result can change. From these:

* `ThreatKept`: a threat is never taken back;
* `VerdictAlwaysAccounted` and `QuietStopsExplained`, from the inductive
  invariant `ThreatBacked`: threat, part result and null-byte flag are each
  backed by a credit, and the score has reached the lowest threshold (4 for a
  value, 5 for a generated part);
* `NothingSkipped`, from `NothingLost`: a value is still to come, evaluated, left
  out by its kind, or there is a threat;
* `TransactionRulesSettled`, from `SettledSoFar`: the second pass settles the
  table up to its position, and nothing after it records a predicate;
* `NullByteNeverIgnored`, from `NullIsOwn`: the flag is clear until the values begin,
  so what it says at the end of a value is of one that was looked at. A null byte that was
  found is credited or its rule disabled, whatever the score; with a score of five, there is a threat;
* `RemovedTargetsSilent` (of the generated dispatch, the empty scan and the projections; the
  null-byte check and the hand-written scanners, `luminawaf.cpp:1951-2025`, do not look at
  removed targets and are not meant), from `MaskIsCurrent`: while a value is evaluated, the disabled
  mask is the one its own controls give, those it triggered itself included. Without
  that the mask could be the one of the value before, which a step alone cannot tell.

**The view cache** (`ViewCacheProofs`, from `ChainsAssumption` and
`AddressAssumption`). `CacheIsCurrent` is about scans. What `AuditEmpty` meets
was left by earlier scans, so `CacheInv` also says what the workspace holds
between them: each entry is the transform of *some* value of the recorded length,
unless its buffer was borrowed. No reset is needed for an empty value because
there is only one; that is where the assumption that no two contents have length
0 is used (`ClassifiedRight`, `HitIsRight`). `CallAnswers` shows what one call
runs the matcher on, and with `CacheInv` it gives `CacheStaysCurrent` and the
refinement `DispatchKeepsContract`. The exception in the contract is real: the
audits evaluate the transaction rules immediately before (`luminawaf.cpp:
1724-1727`), and a chain in slot 0 with a non-empty transform of an empty value
(`t:length`) would be matched against what they left in the buffer.

**The nginx handler** (`EntryPointProofs`). `AdapterInv` says what the bundle, the counts
and the flags describe after each header: the fields handed over so far are distinct,
come first in the request and are as many as fit (`UriComesFirst`), and nothing is
answered or described early (`UnansweredYet`, `UndescribedYet`). That the
bundle is full exactly if fields are left over is a fact about the number of fields
passed, so the proof carries the finiteness of that set. `HandlerStaysFaithful` follows
for any lists of headers, of any length, and any limits.

**Single-buffer calls** (`EntryPointProofs`). A call folds the scanners and then the
generated rules over what it works on, and the score it leaves is a sum over a set of rules.
Library folds are chosen functions on the subsets of a finite set: `FoldsExist` shows that
there is one with values in any set its step stays in (of the sizes without one, none is
the least: the induction the prover has), so that `ScannersStay` and `TableStays` carry an
invariant of one step through the whole list, however long. `SumGrows` says that a sum
grows by the term that is added, which needs that the order of the terms does not matter
(`AnyTermFirst`). The invariant is `Work`: what the request had is still there, the score
is the sum of points of the rules charged since the call began (`Accounted`), the threat is
one of those, and the table charged none of the rules removed for a collection of the value.
`SessionConstants` says that the generated rules of a buffer are a finite list and that
none is worth more than five points. `BuffersAnswerForThemselves` then holds for any
number of calls, of any requests, in any order.

**The harness** (`HarnessProofs`). *Legs*: `LegsInv` rests on `OneServer` (a launch needs
the port free, so at most one server has it, and a pid file that names a leg names that
server) and on `Order` (servers of earlier legs were told to stop or lost their master,
those of later legs do not exist). `GeneratorIsWatched` and `CpuIsFollowed` connect the
load with the server; hence `LegsMeasureThemselves`, for any number of adapters, repetitions
and crashes. `LegsCleanUp` says what a run may leave behind: no load generator; a master only
if it was launched by the last leg, had no pid file yet when `stop()` looked, and the run
failed; the workers of a master that died (`stop()` has no way to reach them), but those of
the last leg, or of the one before in a run that failed. That the port decides this is
`Orphans`: while workers hold it no later leg gets a server up. *Run*: `RunInv` follows 24 steps; `Versions` says that
a measurement ran a version between the recorded one and the one on disk, and
that once the postflight has found the recorded one on disk the three are the same:
versions of the library never return. Then `RunFailsClosed`, `RunMeasuresOneLibrary`.
*Gates*: `GatesAlwaysAgree` is a statement about data, for files of any length, and only
its folds and last-assignment rules need a proof. Two assumptions turned out to
be needed (in `GateAssumption`): running times and transaction counts are numbers, and at least one process of
the micro benchmarks was asked for; with none, an empty result is valid and has no row.
*Evidence*: `EvidenceInvariant` says that every slot is to be measured or has one
result. The rest is about finite sets of legs, in five steps. `SumsExist` gives the sums of
`MapThenSumSet` a function that adds them up, by induction on the number of legs; that is
written as a least counterexample, because the library's induction theorems cannot be
instantiated. `SumsAreBounded` is Cauchy's inequality for it, where only rates that are not 0
count. `SteadyRates` follows: of *n* legs within 5%, *p* answered anything, and 400*n*(*n* -
*p*) is at most *p*(*n* - 1). So a stable point has a median above 0 (`MedianIs`), and
the one-worker rate a speedup is relative to is not 0. From these `PublishedAlwaysBacked`, for any sweep, worker
points and results. `ReportAlwaysAgrees` has one more hypothesis, `Repetitions <= 401`. With
402 legs of a point, one that received no response at all keeps the variation within 5% and has
no CPU time per request (`e2e.py:756`), so that its round is not paired: e2e.py would accept
the payload and the report would not. The bound is exact; a canonical run has five repetitions
unless `LUMINA_BENCH_V1_REPETITIONS` says otherwise (`run.py:1147`). `EvidenceAssumption` says
that counts and rates are numbers, the sets of points finite, and that wrk's rate is 0 when
it counted no response.

**Multipart bodies** (`BodyProofs`). The property compares the scans with the parts of the
body, which are defined by looking at all of it; the pass knows four variables.
`MultipartInv` connects them: the pass is in the headers of the part that some boundary
opened (`InHeaders`), in the content of one (`InContent`) or outside (`Outside`), and
`Collected` says that fields and type are what the headers between those two lines said,
no other. With it, `PartsAlwaysScanned`: what a line adds to the scans is exactly
what ends at this line (`ScansHere`).

**XML documents** (`BodyProofs`). In `XmlInv` the result while a document is read is the
last hit *of this document*, although the variable is the thread's and outlives a call; a
document that stopped at a limit leaves nothing in it. The other half of
`DocumentsAlwaysTheirOwn` is that the wide search lands before the first character on
which the parser would act, wherever in a chunk it lies, and that the value stays within
its buffer.

**Texts** (`TextProofs`). `NothingEverDropped` joins two invariants, over any text, with the
exemptions of section 2: components too long to be decoded, and JSON past the buffer or past
an unmatched or too deep bracket.
`JsonInv`: between two steps the pass is inside a string exactly if `InsideString` holds,
which says of the text that the quotes since the opening one are escaped. An escape is
decided by the number of backslashes before a quote (`EscapedIn`), so the proof carries
that number's parity from one character to the next. `Histories` orders what was scanned.
`FormInv`: every character behind the component that comes next is left out for a reason
or held by exactly one name or value scanned (`Counted`), and no scan reaches beyond
(`ScansAreBehind`); without the second part the first would not survive a step, because
a character could be scanned twice. The lemma on a component (`ComponentKeeps`) is one for
pairs and cookies; `PairKeeps` and `CrumbKeeps` show that first equals sign, blanks and
the rest cover it. That a component is too long to be decoded (`TooLong`) is said of the
text and not of the cut.

**Routing tables** (`TranslatorProofs`). `RoutingIsBuilt` is the invariant: the rules are
those translated, the tables are those of the rules, and after a scan the three results are
those of the value. What remains is a statement about one value and any list of rules, and
needs no induction over it, because a router is stated as a set of positions with the same
key, cut into pieces of the router's capacity. `RouterIs` says that a routed rule is a member
of its router and that all members have this router and fold case and end words alike, `HitsAreMatches`
that the shared trie, walked from an offset on, answers for a rule exactly if one of its words
stands there or later, `DispatchIs` the same of whatever matcher a rule has (one that searches
is asked once, at the first offset), and `RoutedIs` that the loop over the bytes reaches every
offset where a rule may start. `SelectedIsActive` is the other half: the rows of scope, type,
header and collection that a value selects hold every rule with a variable that names it.
From these `NoRuleIsMissed`, and with `InspectIs`, `AuditRuleIs` and `AuditAllIs`, which say of
the three loops what they compute, `AuditsTellWhatInspectionDoes`. `RoutingConstants` says of
rules that their words are byte strings and not empty, that some byte starts no word of theirs
(an expression that may start with any byte gets a searching matcher instead, which
`RegexBackends` models), that the transforms are none or lower case and that each target is
bound by a variable; of lower-casing that it is idempotent and keeps word bytes, blanks and
punctuation; of values that a type is never the `VAR_ANY` of the tables and that a form is a
request body.

**Rule translation** (`TranslatorProofs`, with `StatementsAreItems`: a statement is a
sequence of its items). `TextIsRead` says that rules are statements of the text and that
nothing changes them once they are read. `UnitsAreAnswered` follows the loop of `main`: a
chain's head or a rule by itself that scores is settled (generated, covered by the runtime or
listed) once the loop has passed it, and otherwise still among the units to come; and what was generated
is of a unit. The step needs `WantedIsAccounted`, over the 25 tests of the ladder: each one
that does not generate a rule that scores gives a reason, so that it is listed, unless the rule is one that
`GivenUp` names (the code does lose those, and the theorem does not claim them). `FinalKeeps` says that dropping repeated ids loses no id. Hence
`NoScoringRuleIsLost`; `RulesChargeOnce`, because the score of a unit is that of its first
member that scores (`UnitIs`); and `ControlsReachTheirTargets`, because controls are resolved against the final
list and not the one of the loop. `HeadsAreFollowed` is about the audit, which finds chains by
a state of its own: `CurrentIs` says that the head it remembers is the one `Unit` would
give the chain, and the invariant that the heads noted so far are those whose chains have
scored up to here. `AuditAndTranslatorAgree` compares two programs that read the same text
in two ways, for any text. It is asked of ids that occur once, and the list of gaps of rules
that score by themselves.

Type invariants of the runs' modules are not listed in the configurations of
`rule_state` and `inspect_bundle`: `TypeCorrect` and `BundleTypeCorrect` prove them for
every instance.

Only model-checked, and why:

* `Terminates`, `EveryPassEnds` and `RunEnds`: liveness under fairness is out of the
  prover's reach.
* `TextsAreScanned`: what a text composed of names, values, fragments and escapes
  *means* is a recursive definition over its parts, and that the pass computes it is
  induction over that data. The theorems on texts cover the rest: nothing is
  dropped, run together or scanned twice, whatever the text is.
* `EndsAreExact`, `DecisionsAreExact` and `LoweringIsExact`: what an expression and its automata
  mean is recursive over the expression (`RECURSIVE` operators in `RegexAutomata` and the
  modules above it). `MCTables` reaches none of them, which is why it is a module
  of its own.

## 5. Not modelled, and the plan

Not modelled, and why:

* *Canonicalization and the transform kernels* (`src/canonicalize.c`,
  `src/lumina_transforms.c`, `tools/gen_transform_mask.py`): functions of bytes without
  state, which a model could only spell out again. Their results are inputs.
* *The byte patterns of the hand-written scanners and the prefilter*: only their result
  matters to any state. `InspectBundle` leaves it open.
* *The text of the emitted C*: the chain lowerings (`sidecar_translator.py`, the
  `emit_*_chain` functions and `classify_transaction_chain`) and the plans written by hand
  for single expressions are templates; `RuleTranslation` keeps which of them accepts a
  chain, `RegexBackends` what the general ones answer.
* *The recognition of a form body* (`luminawaf.cpp:901-940`), *the scan of projected
  values by rule*, single-buffer calls without a rule state, the formatting of audit
  answers.
* *The release and integrity tools*: one comparison with a fixed list each.
* *The generators of benchmark configurations*: templates.

What could come next: the recognition of a form body and the scan of projected values by
rule, the parts of an inspection that are still open.
