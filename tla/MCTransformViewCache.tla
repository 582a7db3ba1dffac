-------------------------- MODULE MCTransformViewCache --------------------------
(* A small instance of TransformViewCache for TLC: chains 8 and 16 share slot  *)
(* 0, which is also the slot transaction rules borrow.                         *)
EXTENDS TransformViewCache

MCMatcher == {"plain", "eight", "sixteen", "multi"}
MCChain == {0, 8, 16}
MCChainOf == [r \in MCMatcher |->
  CASE r = "plain" -> 0 [] r = "sixteen" -> 16 [] OTHER -> 8]
MCSteps == [s \in MCChain |-> CASE s = 0 -> 0 [] s = 8 -> 2 [] s = 16 -> 1]
MCMulti == {"multi"}

\* "one" and "two" have the same length.  "long" does not fit the scratch buffer
\* from the start, but does from offset 40.
MCContent == {"empty", "one", "two", "long"}
MCLenOf == [c \in MCContent |->
  CASE c = "empty" -> 0 [] c = "long" -> 48 [] OTHER -> 2]
MCDirty == [c \in MCContent |->
  CASE c = "empty" -> {16} [] c = "one" -> {8, 16} [] c = "two" -> {16} [] c = "long" -> {8, 16}]
MCCap == 45
MCOffset == {0, 1, 40}
MCShrunk == {View(8, 1, "one", 1), View(16, 1, "two", 1)}
=============================================================================
