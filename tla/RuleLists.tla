------------------------------- MODULE RuleLists -------------------------------
(***************************************************************************)
(* The list of generated rules that tools/sidecar_translator.py goes on    *)
(* with: of the rules of an id the first stays, the rules that count       *)
(* parameters are dropped, the others keep their order.                    *)
(***************************************************************************)
EXTENDS Integers, Sequences, FiniteSets

HPP_SKIP == {921170}

\* The n-th of a finite set of positions.
Rank(positions, k) == Cardinality({j \in positions : j <= k})
Nth(positions, n) == CHOOSE k \in positions : Rank(positions, k) = n

\* by_id, and the filter after it: the positions that stay.
Staying(generated) ==
    {k \in DOMAIN generated : /\ generated[k].id \notin HPP_SKIP
                              /\ \A j \in 1..(k - 1) : generated[j].id # generated[k].id}

\* The generated rules, by engine index - 1.
Final(generated) ==
    [n \in 1..Cardinality(Staying(generated)) |-> generated[Nth(Staying(generated), n)]]
================================================================================
