----------------------------- MODULE AnomalyLedger -----------------------------
(***************************************************************************)
(* What the rule bookkeeping promises, without slabs, hash bits or the     *)
(* order of the evaluation paths: an account of the rules that were        *)
(* credited, and the score they add up to.  A rule enters the account      *)
(* once, and only entering it - or repeating one of the rules that are     *)
(* scored without bookkeeping - changes the score.                         *)
(***************************************************************************)
EXTENDS Integers

CONSTANTS
  Rule,        \* rule ids
  Repeatable,  \* rules that may be credited again
  MaxPoints    \* largest anomaly increment

VARIABLES
  account,     \* rules credited so far
  total        \* anomaly score

ledgerVars == <<account, total>>

Init == account = {} /\ total = 0

Enter(r, p) ==
  /\ r \notin account
  /\ account' = account \cup {r}
  /\ total' = total + p

Repeat(r, p) ==
  /\ r \in account \cap Repeatable
  /\ total' = total + p
  /\ UNCHANGED account

\* Another inspection starts: the score restarts, the account stays.
Restart == total' = 0 /\ UNCHANGED account

\* Another request's state is used: the account restarts, the score stays.
Reopen == account' = {} /\ UNCHANGED total

Next ==
  \/ \E r \in Rule, p \in 1 .. MaxPoints : Enter(r, p) \/ Repeat(r, p)
  \/ Restart
  \/ Reopen

Spec == Init /\ [][Next]_ledgerVars
=============================================================================
