---------------------------- MODULE TransformChains ----------------------------
(***************************************************************************)
(* What a generated matcher is to be run on (lumina_dispatch_rule, emitted *)
(* by tools/sidecar_translator.py): the value as it is, or the view of it  *)
(* that the rule's chain of transforms produces, around one offset.        *)
(*                                                                         *)
(* Chain 0 is the empty one.  Bytes are not modelled: a view is named by   *)
(* the chain, how many of its transforms were applied, the content and the *)
(* offset, so two views are the same only if they were made the same way.  *)
(***************************************************************************)
EXTENDS Integers, FiniteSets

CONSTANTS
  Matcher,   \* rules of the generated table
  Chain,     \* transform sequence ids; 0 is "no transform"
  ChainOf,   \* g_rule_transform_seq_id
  Steps,     \* number of transforms of a chain
  Multi,     \* g_short_rule_multimatch
  Content,   \* contents a value can have
  LenOf,     \* their lengths
  Dirty,     \* per content, the chains with a byte of it in their dirty set
  Shrunk,    \* views that end before the offset
  Offset,    \* offsets a matcher is tried at
  Cap        \* lumina_xform_scratch_cap()

ASSUME ChainsAssumption ==
  /\ Chain \subseteq Nat /\ 0 \in Chain
  /\ ChainOf \in [Matcher -> Chain]
  /\ Steps \in [Chain -> 0 .. 12]
  /\ Multi \subseteq Matcher
  /\ LenOf \in [Content -> Nat]
  /\ \A c, d \in Content : LenOf[c] = 0 /\ LenOf[d] = 0 => c = d
  /\ Dirty \in [Content -> SUBSET Chain]
  /\ Cap \in Nat
  /\ Offset \subseteq Nat /\ 0 \in Offset

View(s, n, c, o) == [chain |-> s, upto |-> n, content |-> c, offset |-> o]
Raw(c, o) == View(0, 0, c, o)

\* What a buffer holds that a transaction rule decoded into, or nobody yet: no
\* view of any value.
Borrowed == [chain |-> 0, upto |-> 0, content |-> "borrowed", offset |-> 0]

\* A candidate position lies within the value; an empty value has only 0.
Within(o, c) == o < LenOf[c] \/ (o = 0 /\ LenOf[c] = 0)

\* At most 32 bytes before the offset are transformed with the rest.
Context == 32
Copied(c, o) == LenOf[c] - (IF o > Context THEN o - Context ELSE 0)

\* The matcher runs on the value itself.
Untransformed(r, c, o) ==
  ChainOf[r] = 0 \/ ChainOf[r] \notin Dirty[c] \/ Copied(c, o) > Cap

Full(s, c, o) == View(s, Steps[s], c, o)

\* A multiMatch rule runs after every transform that leaves the offset within
\* the view, until it matches.
Prefixes(s, n, c, o) == {View(s, i, c, o) : i \in 1 .. n} \ Shrunk

\* What the matcher may be run on for one call, as sets of views.
Answers(r, c, o) ==
  LET s == ChainOf[r] IN
    IF Untransformed(r, c, o) THEN {{Raw(c, o)}}
    ELSE IF r \in Multi THEN {{Raw(c, o)} \cup Prefixes(s, n, c, o) : n \in 0 .. Steps[s]}
    ELSE {{Full(s, c, o)} \ Shrunk}
=============================================================================
