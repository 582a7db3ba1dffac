----------------------------- MODULE RegexAutomata -----------------------------
(***************************************************************************)
(* tools/regex_dfa.py: the parsed expression, its Thompson graph and the   *)
(* steps of the automata built from it.  Bytes are model values: lower and *)
(* upper case of one letter, other word characters, a byte that is none, a *)
(* newline.                                                                *)
(***************************************************************************)
EXTENDS Naturals, Sequences, FiniteSets, SequencesExt

CONSTANTS
    Bytes,          \* the byte alphabet
    WordBytes,      \* the word characters among them
    Newline,        \* the one byte "." does not take
    CaseOf,         \* letter |-> the same letter in the other case
    UpperBytes,     \* the upper case letters
    MaxLength,      \* longest value scanned
    OptionalLimit   \* copies a bounded repeat may expand to (32 in the code)

MaxRepeat == 99            \* the parser's MAXREPEAT
NoMatch == MaxLength + 1   \* no end
Word(b) == b \in WordBytes
Values == UNION {[1..n -> Bytes] : n \in 0..MaxLength}

RegexAssumption ==
    /\ WordBytes \subseteq Bytes /\ UpperBytes \subseteq WordBytes
    /\ Newline \in Bytes \ WordBytes
    /\ \A b \in DOMAIN CaseOf : CaseOf[b] \in WordBytes /\ CaseOf[CaseOf[b]] = b

-----------------------------------------------------------------------------
(* The parsed expression. *)

\* A flag counts when any group of the text turns it on, wherever it stands.
FlagEnabled(p, f) == \E g \in p.groups : f \in g
Flags(p) == {f \in {"i", "s"} : FlagEnabled(p, f)}

Repeats == {"MAX_REPEAT", "MIN_REPEAT"}
Unlimited(node) == node.max = MaxRepeat

RECURSIVE Supported(_)
Supported(nodes) ==
    \A k \in 1..Len(nodes) :
        LET node == nodes[k] IN
        CASE node.op = "SUBPATTERN" -> Supported(node.inner)
          [] node.op = "BRANCH" -> \A j \in 1..Len(node.alts) : Supported(node.alts[j])
          [] node.op \in Repeats ->
                /\ Supported(node.inner)
                /\ Unlimited(node) \/ node.max - node.min <= OptionalLimit
          [] OTHER -> node.op \notin {"GROUPREF", "ASSERT"}

LiteralMask(b, flags) ==
    {b} \cup (IF "i" \in flags /\ b \in DOMAIN CaseOf THEN {CaseOf[b]} ELSE {})

ClassMask(node, flags) ==
    LET literals == UNION {LiteralMask(b, flags) : b \in node.bytes}
        word == UNION {LiteralMask(b, flags) : b \in WordBytes}
        named == {b \in Bytes : \/ "WORD" \in node.categories /\ b \in word
                                \/ "NOT_WORD" \in node.categories /\ b \notin word}
    IN IF node.negate THEN Bytes \ (literals \cup named) ELSE literals \cup named

ByteMask(node, flags) ==
    CASE node.op = "LITERAL" -> LiteralMask(node.byte, flags)
      [] node.op = "NOT_LITERAL" -> Bytes \ LiteralMask(node.byte, flags)
      [] node.op = "IN" -> ClassMask(node, flags)
      [] node.op = "ANY" -> IF "s" \in flags THEN Bytes ELSE Bytes \ {Newline}

-----------------------------------------------------------------------------
(* The Thompson graph.  A fragment is [start, end, next, edges]: "next" is *)
(* the first state number not yet taken.                                   *)

Edge(from, kind, to, mask, assertion) ==
    [from |-> from, kind |-> kind, to |-> to, mask |-> mask, assertion |-> assertion]
Eps(from, to) == Edge(from, "EPS", to, {}, "")

Empty(n) == [start |-> n, end |-> n, next |-> n + 1, edges |-> {}]

\* fragment f continued by fragment g
Link(f, g) == [f EXCEPT !.end = g.end, !.next = g.next,
                        !.edges = @ \cup g.edges \cup {Eps(f.end, g.start)}]

Close(f) == [f EXCEPT !.end = f.next, !.next = f.next + 1,
                      !.edges = @ \cup {Eps(f.end, f.next)}]

Step(n, kind, mask, assertion) ==
    [start |-> n, end |-> n + 1, next |-> n + 2,
     edges |-> {Edge(n, kind, n + 1, mask, assertion)}]

RECURSIVE Atom(_, _, _), BuildSequence(_, _, _)

BuildRepeat(node, n, flags) ==
    LET copies(k) == [i \in 1..k |-> node.inner]
        required == FoldLeft(LAMBDA f, inner : Link(f, BuildSequence(inner, f.next, flags)),
                             Empty(n), copies(node.min))
        optional(f, inner) ==
            LET g == BuildSequence(inner, f.next, flags)
            IN [Link(f, g) EXCEPT !.edges = @ \cup {Eps(f.end, g.end)}]
        loop == BuildSequence(node.inner, required.next + 1, flags)
    IN IF Unlimited(node)
       THEN [start |-> required.start, end |-> required.next, next |-> loop.next,
             edges |-> required.edges \cup loop.edges
                         \cup {Eps(required.end, required.next),
                               Eps(required.end, loop.start), Eps(loop.end, required.end)}]
       ELSE Close(FoldLeft(optional, required, copies(node.max - node.min)))

BuildBranch(node, n, flags) ==
    LET add(f, alt) ==
            LET g == BuildSequence(alt, f.next, flags)
            IN [f EXCEPT !.next = g.next,
                         !.edges = @ \cup g.edges \cup {Eps(f.start, g.start), Eps(g.end, f.end)}]
    IN FoldLeft(add, [start |-> n, end |-> n + 1, next |-> n + 2, edges |-> {}], node.alts)

Atom(node, n, flags) ==
    CASE node.op = "AT" -> Step(n, "ASSERT", {}, node.at)
      [] node.op = "SUBPATTERN" -> BuildSequence(node.inner, n, flags)
      [] node.op = "BRANCH" -> BuildBranch(node, n, flags)
      [] node.op \in Repeats -> BuildRepeat(node, n, flags)
      [] OTHER -> Step(n, "BYTE", ByteMask(node, flags), "")

BuildSequence(nodes, n, flags) ==
    Close(FoldLeft(LAMBDA f, node : Link(f, Atom(node, f.next, flags)), Empty(n), nodes))

\* A search expression is the pattern behind a prefix that takes any bytes.
AnyBytes == [op |-> "MAX_REPEAT", min |-> 0, max |-> MaxRepeat,
             inner |-> <<[op |-> "IN", negate |-> TRUE, bytes |-> {}, categories |-> {}]>>]
-----------------------------------------------------------------------------
(* Determinization: byte classes, closures and rows. *)

Plain == [kind |-> "plain"]
Context(pw, cw, b, e) == [kind |-> "context", previous |-> pw, current |-> cw, bol |-> b, eol |-> e]

AssertionOk(name, c) ==
    CASE name = "BOL" -> c.bol
      [] name = "EOL" -> c.eol
      [] name = "WB" -> c.previous # c.current
      [] name = "NWB" -> c.previous = c.current

Follows(e, c) == e.kind = "EPS" \/ (c.kind = "context" /\ e.kind = "ASSERT" /\ AssertionOk(e.assertion, c))

RECURSIVE Closure(_, _, _)
Closure(g, seed, c) ==
    LET more == {e.to : e \in {e \in g.edges : e.from \in seed /\ Follows(e, c)}} \ seed
    IN IF more = {} THEN seed ELSE Closure(g, seed \cup more, c)

StartSet(g) == Closure(g, {g.start}, Plain)

Signature(g, b) == <<Word(b), {e \in g.edges : e.kind = "BYTE" /\ b \in e.mask}>>
ByteClass(g, b) == {c \in Bytes : Signature(g, c) = Signature(g, b)}
Member(class) == CHOOSE b \in class : TRUE

Symbols(g) == {ByteClass(g, b) : b \in Bytes} \X BOOLEAN \X BOOLEAN
Symbol(g, b, pw, atStart) == <<ByteClass(g, b), pw, atStart>>

Expanded(g, states, symbol) ==
    Closure(g, states, Context(symbol[2], Word(Member(symbol[1])), symbol[3], FALSE))

Destination(g, states, symbol) ==
    LET open == Expanded(g, states, symbol)
    IN Closure(g, {e.to : e \in {e \in g.edges : /\ e.kind = "BYTE" /\ e.from \in open
                                                /\ Member(symbol[1]) \in e.mask}}, Plain)

AcceptsBefore(g, states, symbol) == g.end \in Expanded(g, states, symbol)
AcceptsAtEnd(g, states, pw, atStart) ==
    g.end \in Closure(g, states, Context(pw, FALSE, atStart, TRUE))

\* Every end the walker accepts, from the given states at position "at".
RECURSIVE AcceptsFrom(_, _, _, _)
AcceptsFrom(g, states, d, at) ==
    LET pw == at > 0 /\ Word(d[at])
    IN IF at = Len(d) THEN IF AcceptsAtEnd(g, states, pw, at = 0) THEN {at} ELSE {}
       ELSE LET s == Symbol(g, d[at + 1], pw, at = 0)
            IN (IF AcceptsBefore(g, states, s) THEN {at} ELSE {})
                 \cup AcceptsFrom(g, Destination(g, states, s), d, at + 1)
DfaEnds(nodes, flags, d, from) ==
    LET g == BuildSequence(nodes, 0, flags) IN AcceptsFrom(g, StartSet(g), d, from)
DfaMatch(nodes, flags, d, from) == DfaEnds(nodes, flags, d, from) # {}

-----------------------------------------------------------------------------
(* What the expression means: the ends of its matches that start at i. *)

Holds(at, d, i) ==
    LET left == i > 0 /\ Word(d[i])
        right == i < Len(d) /\ Word(d[i + 1])
    IN CASE at = "BOL" -> i = 0
         [] at = "EOL" -> i = Len(d)
         [] at = "WB" -> left # right
         [] at = "NWB" -> left = right

RECURSIVE Ends(_, _, _, _), Repeated(_, _, _, _, _)
\* Ends of k further turns of a repeat, from the positions in "from".
Repeated(node, flags, d, from, turns) ==
    LET next == UNION {Ends(node.inner, flags, d, i) : i \in from}
    IN IF turns < node.min THEN Repeated(node, flags, d, next, turns + 1)
       ELSE IF turns = node.max \/ next \subseteq from THEN from
       ELSE from \cup Repeated(node, flags, d, from \cup next, turns + 1)

Ends(nodes, flags, d, i) ==
    IF nodes = <<>> THEN {i}
    ELSE LET node == Head(nodes)
             after == CASE node.op = "AT" -> IF Holds(node.at, d, i) THEN {i} ELSE {}
                        [] node.op = "SUBPATTERN" -> Ends(node.inner, flags, d, i)
                        [] node.op = "BRANCH" -> UNION {Ends(node.alts[k], flags, d, i) : k \in 1..Len(node.alts)}
                        [] node.op \in Repeats -> Repeated(node, flags, d, {i}, 0)
                        [] OTHER -> IF i < Len(d) /\ d[i + 1] \in ByteMask(node, flags) THEN {i + 1} ELSE {}
         IN UNION {Ends(Tail(nodes), flags, d, j) : j \in after}

=============================================================================
