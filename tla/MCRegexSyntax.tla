----------------------------- MODULE MCRegexSyntax -----------------------------
(* Constructors for the syntax trees of the model-checked expressions. *)
EXTENDS Naturals, Sequences

Lit(b) == [op |-> "LITERAL", byte |-> b]
NotLit(b) == [op |-> "NOT_LITERAL", byte |-> b]
In(bytes, categories, negate) ==
    [op |-> "IN", negate |-> negate, bytes |-> bytes, categories |-> categories]
Dot == [op |-> "ANY"]
At(a) == [op |-> "AT", at |-> a]
Group(nodes) == [op |-> "SUBPATTERN", inner |-> nodes]
Alt(alts) == [op |-> "BRANCH", alts |-> alts]
Rep(min, max, nodes) == [op |-> "MAX_REPEAT", min |-> min, max |-> max, inner |-> nodes]
Lazy(min, max, nodes) == [op |-> "MIN_REPEAT", min |-> min, max |-> max, inner |-> nodes]
Star(nodes) == Rep(0, 99, nodes)
Opt(nodes) == Rep(0, 1, nodes)

MCBytes == {"a", "A", "x", "-", "nl"}
MCWordBytes == {"a", "A", "x"}
MCUpperBytes == {"A"}
MCCaseOf == [b \in {"a", "A"} |-> IF b = "a" THEN "A" ELSE "a"]

=============================================================================
