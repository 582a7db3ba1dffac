------------------------------- MODULE MCTables -------------------------------
(***************************************************************************)
(* The two parts of the tools that are not about one expression, one of    *)
(* them per behavior: the routing tables of a list of rules, and the       *)
(* translation of the text of a rule set.  Variables a part does not have  *)
(* are 0.                                                                  *)
(***************************************************************************)
EXTENDS Integers, Sequences

CONSTANTS
  RuleChoices, RoutedValues, RoutedBytes, RoutedWordBytes, Blank, Lower,
  MaxRules, RouterRules, LargeDictionary, StandaloneWords, StandaloneBytes,  \* RoutingTables
  Statements, MaxStatements, PL, FileParanoia, HeaderNames, Collections,
  Transaction, ChainForm, OverBudget, Untranslatable, MissingData      \* RuleTranslation

VARIABLES
  tool,                                    \* the part that runs
  stage, rules, detection, audited,        \* both
  value, fired, listed,                    \* RoutingTables
  text, next, units, fates, removals, targetRemovals, unsupported, head, heads

routingOnly == <<fired, listed>>
textOnly    == <<text, next, units, fates, removals, targetRemovals, unsupported, head, heads>>
tableVars   == <<tool, stage, rules, detection, audited, value, routingOnly, textOnly>>

Routing     == INSTANCE RoutingTables WITH
             Values <- RoutedValues, Bytes <- RoutedBytes, WordBytes <- RoutedWordBytes, phase <- stage
Translation == INSTANCE RuleTranslation WITH phase <- stage

ASSUME RoutingConstants == Routing!RoutingAssumption
ASSUME StatementsAreItems == Translation!StatementsAssumption

NoRouting == fired = 0 /\ listed = 0
NoText    == /\ text = 0 /\ next = 0 /\ units = 0 /\ fates = 0 /\ removals = 0 /\ targetRemovals = 0
             /\ unsupported = 0 /\ head = 0 /\ heads = 0
NoTables  == NoRouting /\ NoText /\ stage = 0 /\ rules = 0 /\ detection = 0 /\ audited = 0

TablesInit ==
  \/ tool = "routing" /\ Routing!Init /\ NoText
  \/ tool = "rules" /\ Translation!Init /\ value = 0 /\ NoRouting

TablesNext ==
  /\ UNCHANGED tool
  /\ \/ tool = "routing" /\ Routing!Next /\ UNCHANGED textOnly
     \/ tool = "rules" /\ Translation!Next /\ UNCHANGED <<value, routingOnly>>

TablesSpec == TablesInit /\ [][TablesNext]_tableVars

-----------------------------------------------------------------------------
(* Properties *)

\* src/luminawaf.cpp over the routing tables: a rule that names a value, and
\* whose own matcher finds it there, is not missed.
NothingSelectedIsMissed == tool = "routing" => Routing!NothingSelectedIsMissed

\* lumina_audit_short_rule and the full audit report what inspection does.
AuditsAgree == tool = "routing" => Routing!AuditsAgree

\* sidecar_translator.py, main: a score-bearing rule or chain is generated,
\* left to the runtime or listed as unsupported, except for what GivenUp names
\* (phrase data missing or empty, an @rx emitter that raises, HPP_SKIP: the code
\* loses these silently, 7884-7906, 7941-7947) and gating rules.
ScoringRulesAreAccounted == tool = "rules" => Translation!ScoringRulesAreAccounted

\* A generated rule charges the points of its first scoring statement once.
ChargedOnce == tool = "rules" => Translation!ChargedOnce

\* A removal control disables the generated rules its statement names.
RemovalsReachTheirTargets == tool = "rules" => Translation!RemovalsReachTheirTargets

\* audit_crs_mechanisms.py and the translator agree on which chains score, and the
\* audit lists a lost rule that scores by itself (a lost chain that scores on a
\* later member is not listed, 269-273, and not asked for).
AuditSeesTheSameChains == tool = "rules" => Translation!AuditSeesTheSameChains
================================================================================
