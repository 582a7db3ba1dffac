----------------------------- MODULE RegexCompiler -----------------------------
(***************************************************************************)
(* tools/regex_dfa.py: a regular expression becomes a Thompson graph, the  *)
(* graph a DFA (or a bit-set NFA), and the emitted matcher walks its       *)
(* tables one byte at a time.  A pattern is its parsed syntax tree, the    *)
(* flag groups its text holds, and whether it is compiled for a search     *)
(* (behind a prefix that takes any bytes) or for a match at an offset.     *)
(* Bytes are model values: lower and upper case of one letter, a byte that *)
(* is no word character, a newline.                                        *)
(***************************************************************************)
EXTENDS RegexAutomata

CONSTANTS
    Patterns,       \* the expressions the translator meets
    StateBudget,    \* DFA states before the compiler gives up
    TableBudget,    \* bytes of the emitted DFA tables
    NfaStateBudget, VectorBudget,  \* the bit-set NFA's own bounds
    MinSeedLength, MaxSeeds, MaxBranches, FastScanBudget

VARIABLES
    phase,    \* "compile", "ready", "run", "done" or "unsupported"
    pattern,  \* the expression being compiled or matched
    table,    \* DFA state |-> its row; a state is a set of graph states
    queue,    \* DFA states found and not expanded yet
    engine,   \* which emitted matcher runs
    data, offset, pos,
    active,   \* the DFA state, or the NFA's active states
    previousWord, bol,
    hit       \* end of the match found so far, or NoMatch

vars == <<phase, pattern, table, queue, engine, data, offset, pos, active,
          previousWord, bol, hit>>

Engines == {"shortest", "longest", "nfa", "seeded"}

-----------------------------------------------------------------------------
(* The graph and the tables of each pattern. *)

Ast(p) == IF p.search THEN <<AnyBytes>> \o p.ast ELSE p.ast

Graph == [p \in {p \in Patterns : Supported(p.ast)} |-> BuildSequence(Ast(p), 0, Flags(p))]

\* Mutant: the end of input is judged without the byte before it.
RowWithoutPrevious(g, states) ==
    [on |-> [s \in Symbols(g) |-> [to |-> Destination(g, states, s),
                                   accept |-> AcceptsBefore(g, states, s)]],
     eof |-> [c \in BOOLEAN \X BOOLEAN |-> AcceptsAtEnd(g, states, FALSE, c[2])]]
Row(g, states) ==
    [on |-> [s \in Symbols(g) |-> [to |-> Destination(g, states, s),
                                   accept |-> AcceptsBefore(g, states, s)]],
     eof |-> [c \in BOOLEAN \X BOOLEAN |-> AcceptsAtEnd(g, states, c[1], c[2])]]

\* The NFA's tables: one destination vector per symbol and single state.
NfaTable == [p \in DOMAIN Graph |->
    LET g == Graph[p]
        states == 0..(g.next - 1)
    IN [to |-> [s \in Symbols(g) |-> [q \in states |-> Destination(g, {q}, s)]],
        accept |-> [s \in Symbols(g) |-> {q \in states : AcceptsBefore(g, {q}, s)}],
        eof |-> [c \in BOOLEAN \X BOOLEAN |-> {q \in states : AcceptsAtEnd(g, {q}, c[1], c[2])}]]]

NfaPatterns == {p \in DOMAIN Graph :
    LET to == NfaTable[p].to
    IN /\ Graph[p].next <= NfaStateBudget
       /\ Cardinality({{}} \cup UNION {{to[s][q] : q \in DOMAIN to[s]} : s \in DOMAIN to}) <= VectorBudget}

-----------------------------------------------------------------------------
(* Literals every match must contain. *)

RECURSIVE Unwrap(_)
Unwrap(nodes) == IF Len(nodes) = 1 /\ nodes[1].op = "SUBPATTERN" THEN Unwrap(nodes[1].inner) ELSE nodes

Flushed(acc) == IF acc.run = <<>> THEN acc.found ELSE acc.found \cup {acc.run}

\* Mutant: a repeat that may take nothing contributes its literals too.
RequiredByMaximum(node) == node.max > 0
Required(node) == node.min > 0

RECURSIVE LiteralRuns(_)
LiteralRuns(nodes) ==
    LET inside(node) ==
            CASE node.op = "SUBPATTERN" -> LiteralRuns(node.inner)
              [] node.op = "BRANCH" ->
                    {r \in LiteralRuns(node.alts[1]) :
                        \A j \in 1..Len(node.alts) : r \in LiteralRuns(node.alts[j])}
              [] node.op \in Repeats -> IF Required(node) THEN LiteralRuns(node.inner) ELSE {}
              [] OTHER -> {}
        step(acc, node) ==
            IF node.op = "LITERAL" THEN [acc EXCEPT !.run = Append(@, node.byte)]
            ELSE [run |-> <<>>, found |-> Flushed(acc) \cup inside(node)]
    IN Flushed(FoldLeft(step, [run |-> <<>>, found |-> {}], Unwrap(nodes)))

Alternatives(p) ==
    LET root == Unwrap(p.ast)
    IN IF Len(root) = 1 /\ root[1].op = "BRANCH" THEN root[1].alts ELSE <<root>>

Candidates(nodes, least) == {r \in LiteralRuns(nodes) : Len(r) >= least}

Lowered(seed, flags) ==
    IF "i" \in flags THEN [k \in DOMAIN seed |-> IF seed[k] \in UpperBytes THEN CaseOf[seed[k]] ELSE seed[k]]
    ELSE seed

SeedOf(nodes, least, flags) ==
    Lowered(CHOOSE r \in Candidates(nodes, least) : \A s \in Candidates(nodes, least) : Len(s) <= Len(r), flags)

\* The mandatory seed cover, {} when some alternative has no mandatory literal.
SeedCover(p) ==
    LET alts == {Alternatives(p)[k] : k \in 1..Len(Alternatives(p))}
        seeds == {SeedOf(a, 1, Flags(p)) : a \in alts}
    IN IF \E a \in alts : Candidates(a, 1) = {} THEN {}
       ELSE IF Cardinality(seeds) > MaxSeeds THEN {} ELSE seeds

SeedAt(seed, flags, d, at) ==
    /\ at + Len(seed) <= Len(d)
    /\ \A k \in DOMAIN seed : d[at + k] \in LiteralMask(seed[k], flags)

SeedPresent(seeds, flags, d, from) == \E seed \in seeds : \E at \in from..Len(d) : SeedAt(seed, flags, d, at)

\* There is a seed cover, and the value holds no seed of it.
Hopeless(p, d, from) ==
    \E seeds \in {SeedCover(p)} : seeds # {} /\ ~SeedPresent(seeds, Flags(p), d, from)

\* Alternatives of a root branch that have a long mandatory literal: each may
\* get a seeded search DFA of its own (unless that DFA is over its budget).
FastAlternatives(p) ==
    IF Unwrap(p.ast)[1].op # "BRANCH" THEN {}
    ELSE {a \in {Alternatives(p)[k] : k \in 1..Len(Alternatives(p))} : Candidates(a, MinSeedLength) # {}}

FastAccept(plans, flags, d, from) ==
    \E a \in plans : /\ SeedPresent({SeedOf(a, MinSeedLength, flags)}, flags, d, from)
                     /\ DfaMatch(<<AnyBytes>> \o a, flags, d, from)

-----------------------------------------------------------------------------
(* Compiling. *)

Idle == /\ engine = "shortest" /\ data = <<>> /\ offset = 0 /\ pos = 0 /\ active = {}
        /\ previousWord = FALSE /\ bol = TRUE /\ hit = NoMatch

Begin(p) ==
    /\ pattern' = p /\ table' = <<>>
    /\ IF Supported(p.ast) THEN phase' = "compile" /\ queue' = {StartSet(Graph[p])}
                           ELSE phase' = "unsupported" /\ queue' = {}

Init ==
    /\ Idle
    /\ pattern \in Patterns /\ table = <<>>
    /\ phase = IF Supported(pattern.ast) THEN "compile" ELSE "unsupported"
    /\ queue = IF Supported(pattern.ast) THEN {StartSet(Graph[pattern])} ELSE {}

\* One pass of the work list: the row of a state, and the states it leads to.
\* Their numbers follow the order of discovery, which no walk can observe.
Determinize ==
    /\ phase = "compile" /\ queue # {}
    /\ LET g == Graph[pattern]
           s == CHOOSE s \in queue : TRUE
       IN \E row \in {Row(g, s)} :
          LET known == DOMAIN table \cup queue
              found == {row.on[x].to : x \in DOMAIN row.on} \ known
          IN IF Cardinality(known) + Cardinality(found) > StateBudget
             THEN phase' = "unsupported" /\ queue' = {} /\ table' = <<>>
             ELSE /\ table' = [t \in DOMAIN table \cup {s} |-> IF t = s THEN row ELSE table[t]]
                  /\ queue' = (queue \ {s}) \cup found
                  /\ UNCHANGED phase
    /\ UNCHANGED <<pattern, engine, data, offset, pos, active, previousWord, bol, hit>>

\* Bytes of the emitted tables: equal rows are stored once, behind an index.
TableBytes ==
    LET states == DOMAIN table
        rows == {table[s].on : s \in states}
    IN Cardinality(rows) * Cardinality(Symbols(Graph[pattern])) * 3
         + Cardinality({table[s].eof : s \in states}) * 4 + Cardinality(states) * 3

Emit ==
    /\ phase = "compile" /\ queue = {}
    /\ IF TableBytes <= TableBudget THEN phase' = "ready" /\ UNCHANGED table
                                   ELSE phase' = "unsupported" /\ table' = <<>>
    /\ UNCHANGED <<pattern, queue, engine, data, offset, pos, active, previousWord, bol, hit>>

\* The translator goes on with another rule.
NextRule(p) ==
    /\ phase \in {"ready", "unsupported"}
    /\ Begin(p)
    /\ UNCHANGED <<engine, data, offset, pos, active, previousWord, bol, hit>>

-----------------------------------------------------------------------------
(* Matching. *)

Walk(e, d, from) ==
    /\ engine' = e /\ data' = d /\ offset' = from /\ pos' = from
    /\ active' = StartSet(Graph[pattern])
    /\ previousWord' = (from > 0 /\ Word(d[from])) /\ bol' = (from = 0)

\* A matcher is called.  The seeded NFA first tries its fast branches on short
\* values, then rejects a value without any seed, before it walks.
Call(e, d, from) ==
    /\ phase = "ready"
    /\ Walk(e, d, from)
    /\ \E plans \in SUBSET FastAlternatives(pattern) :
        LET flags == Flags(pattern)
            fast == Len(d) - from <= FastScanBudget /\ FastAccept(plans, flags, d, from)
        IN /\ Cardinality(plans) <= MaxBranches
           /\ e # "seeded" => plans = {}
           /\ e = "seeded" => pattern.search
           /\ e \in {"nfa", "seeded"} => pattern \in NfaPatterns
           /\ hit' = IF e = "seeded" /\ fast THEN from ELSE NoMatch
           /\ phase' = IF e = "seeded" /\ (hit' # NoMatch \/ Hopeless(pattern, d, from)) THEN "done" ELSE "run"
    /\ UNCHANGED <<pattern, table, queue>>

Advance(b) == pos' = pos + 1 /\ previousWord' = Word(b) /\ bol' = FALSE

\* The DFA walk: acceptance is tested before the byte is taken, and the walk
\* stops at the dead state.
ReadDfa ==
    /\ phase = "run" /\ engine \in {"shortest", "longest"} /\ pos < Len(data) /\ active # {}
    /\ \E b \in {data[pos + 1]} :
       \E cell \in {table[active].on[Symbol(Graph[pattern], b, previousWord, bol)]} :
          IF cell.accept /\ engine = "shortest"
          THEN /\ hit' = pos /\ phase' = "done"
               /\ UNCHANGED <<pos, active, previousWord, bol>>
          ELSE /\ hit' = IF cell.accept THEN pos ELSE hit
               /\ active' = cell.to
               /\ Advance(b)
               /\ UNCHANGED phase
    /\ UNCHANGED <<pattern, table, queue, engine, data, offset>>

EndDfa ==
    /\ phase = "run" /\ engine \in {"shortest", "longest"}
    /\ pos = Len(data) \/ active = {}
    /\ phase' = "done"
    /\ hit' = IF table[active].eof[<<previousWord, bol>>] THEN Len(data) ELSE hit
    /\ UNCHANGED <<pattern, table, queue, engine, data, offset, pos, active, previousWord, bol>>

\* The NFA walk: every active state contributes its own destination vector.
ReadNfa ==
    /\ phase = "run" /\ engine \in {"nfa", "seeded"} /\ pos < Len(data)
    /\ \E b \in {data[pos + 1]} : \E nfa \in {NfaTable[pattern]} :
       \E s \in {Symbol(Graph[pattern], b, previousWord, bol)} :
          IF active \cap nfa.accept[s] # {}
          THEN hit' = pos /\ phase' = "done" /\ UNCHANGED <<pos, active, previousWord, bol>>
          ELSE /\ active' = UNION {nfa.to[s][q] : q \in active}
               /\ phase' = IF active' = {} THEN "done" ELSE "run"
               /\ Advance(b)
               /\ UNCHANGED hit
    /\ UNCHANGED <<pattern, table, queue, engine, data, offset>>

EndNfa ==
    /\ phase = "run" /\ engine \in {"nfa", "seeded"} /\ pos = Len(data)
    /\ phase' = "done"
    /\ hit' = IF active \cap NfaTable[pattern].eof[<<previousWord, bol>>] # {} THEN pos ELSE hit
    /\ UNCHANGED <<pattern, table, queue, engine, data, offset, pos, active, previousWord, bol>>

Return ==
    /\ phase = "done"
    /\ phase' = "ready"
    /\ engine' = "shortest" /\ data' = <<>> /\ offset' = 0 /\ pos' = 0 /\ active' = {}
    /\ previousWord' = FALSE /\ bol' = TRUE /\ hit' = NoMatch
    /\ UNCHANGED <<pattern, table, queue>>

Next ==
    \/ Determinize \/ Emit \/ ReadDfa \/ EndDfa \/ ReadNfa \/ EndNfa \/ Return
    \/ \E p \in Patterns : NextRule(p)
    \/ \E e \in Engines : \E d \in Values : \E from \in 0..Len(d) : Call(e, d, from)

Spec == Init /\ [][Next]_vars

-----------------------------------------------------------------------------

Meaning == Ends(Ast(pattern), Flags(pattern), data, offset)

\* The DFA walkers return the shortest and the longest end of a match that
\* starts at the offset, for every expression the compiler accepts: byte
\* classes, word boundaries at either side of the offset, anchors at the first
\* byte only, the dead state and the end of the value included.
MatchEndsAreExact ==
    (phase = "done" /\ engine \in {"shortest", "longest"}) =>
        IF Meaning = {} THEN hit = NoMatch
        ELSE /\ hit \in Meaning
             /\ \A end \in Meaning : IF engine = "shortest" THEN hit <= end ELSE end <= hit

\* The NFA matchers decide exactly whether there is a match; neither the fast
\* branches accept a value without one, nor does the seed gate reject a value
\* with one.
SearchIsExact ==
    (phase = "done" /\ engine \in {"nfa", "seeded"}) => ((hit # NoMatch) <=> (Meaning # {}))

=============================================================================
