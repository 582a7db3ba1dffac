---------------------------- MODULE EvidenceGates ----------------------------
(***************************************************************************)
(* The gates that look at files other programs wrote: the CRS manifest     *)
(* over the comparators' configurations, Google Benchmark's processes,     *)
(* perf's counters, go-ftw's results and the outcome matrix.  A file is a  *)
(* sequence of rows; each gate is what run.py accepts of it, and report.py *)
(* reads the same file again.                                              *)
(***************************************************************************)
EXTENDS Integers, Sequences, SequencesExt, FiniteSets, FiniteSetsExt

CONSTANTS
    Rows,       \* kind of file -> rows it may hold
    MaxRows,    \* bound: rows of a file
    Processes,  \* benchmark processes of a qualified run (5 in the code)
    Benchmarks  \* names every process must have measured

GateAssumption ==
    /\ DOMAIN Rows \subseteq {"manifest", "micro", "pmu", "ftw", "matrix"}
    /\ MaxRows \in Nat /\ Processes \in Nat \ {0}
    /\ "pmu" \in DOMAIN Rows => \A g \in Rows["pmu"] : g.running \in Nat /\ g.transactions \in Nat

VARIABLES kind, rows
vars == <<kind, rows>>

All == ToSet(rows)
Count(P(_)) == Cardinality({i \in DOMAIN rows : P(rows[i])})

Init == kind \in DOMAIN Rows /\ rows = <<>>
Write == /\ Len(rows) < MaxRows
         /\ \E r \in Rows[kind] : rows' = Append(rows, r)
         /\ UNCHANGED kind
Spec == Init /\ [][Write]_vars

-----------------------------------------------------------------------------
(* manifest.py: the lines of the comparator's configuration that matter, in *)
(* the order they are read; where = "config" is the configuration itself    *)

Included  == {i \in DOMAIN rows : rows[i].where # "config"}
Assigning == {i \in DOMAIN rows : rows[i].sets # 0}

\* The first assignment in an included file, 0 when there is none.
PolicyValue ==
    LET sets == Included \cap Assigning
    IN IF sets = {} THEN 0 ELSE rows[Min(sets)].sets

ManifestErrors ==
    {e \in {"policy", "setup", "949", "override", "coraza"} :
        \/ e = "policy" /\ PolicyValue # 5
        \/ e = "setup" /\ Count(LAMBDA r : r.where = "setup") # 1
        \/ e = "949" /\ Count(LAMBDA r : r.where = "949") = 0
        \/ e = "override" /\ \E r \in All : r.where = "config" /\ r.override
        \/ e = "coraza" /\ \E r \in All : r.where # "config" /\ ~r.coraza}

\* The threshold the comparator runs with: assignments take effect in order, a
\* default only when nothing was assigned before it.
Effective == {i \in Assigning : rows[i].default => \A j \in Assigning : i <= j}
EffectivePolicy == IF Effective = {} THEN 0 ELSE rows[Max(Effective)].sets

\* Assignments of another threshold that are more than an included default: the
\* configuration's own default, read first, keeps the included one from effect.
Overridden == {i \in DOMAIN rows : /\ rows[i].sets \notin {0, 5}
                                   /\ rows[i].default => rows[i].where = "config"}

-----------------------------------------------------------------------------
(* Google Benchmark: a row is what one process wrote of each benchmark      *)

\* validate_benchmark_artifacts()
MicroValid ==
    /\ Len(rows) = Processes
    /\ \A p \in All : \A b \in Benchmarks :
          p[b].raw = 10 /\ ~p[b].error /\ {"mean", "median", "stddev", "cv"} \subseteq p[b].aggregates

\* micro_rows(): one row for each benchmark with a median, over its processes.
MicroRows ==
    LET medians(b) == Count(LAMBDA p : "median" \in p[b].aggregates)
    IN {[name |-> b, qualified |-> medians(b) >= Processes]
        : b \in {b \in Benchmarks : medians(b) > 0}}

-----------------------------------------------------------------------------
(* perf: a row is the result of one group of events, in the order run.py    *)
(* measures them; zero = its counters that read 0, transactions = what the  *)
(* log of the group says the benchmark ran                                  *)

Core == {"cycles", "instructions", "branches", "branch-misses"}

\* The lines of a group that hold a number: what perf counted, and none of a group
\* the machine does not have (execute_pmu_group() writes "<not supported>").
Counted(g) == {e \in g.events : g.supported /\ e \notin g.missing}

\* Mutant: only the core events must have been counted all the time.
PmuValidOfCore ==
    /\ Core \subseteq UNION {Counted(g) : g \in All}
    /\ \A g \in All : Counted(g) \cap Core # {} => g.running >= 90

\* validate_pmu_csv(): every line with a number counts.
PmuValid ==
    /\ Core \subseteq UNION {Counted(g) : g \in All}
    /\ \A g \in All : Counted(g) # {} => g.running >= 90

\* The dictionaries of report.py: of several lines of an event the last is kept.
Kept(e) == {i \in DOMAIN rows : /\ e \in Counted(rows[i])
                                /\ \A j \in DOMAIN rows : e \in Counted(rows[j]) => j <= i}
Positive(e) == \E i \in Kept(e) : e \notin rows[i].zero

\* pmu_rows()
PmuQualified ==
    /\ Positive("cycles") /\ Positive("instructions") /\ Positive("branches")
    /\ Kept("branch-misses") # {}
    /\ \A i \in DOMAIN rows : (\E e \in rows[i].events : i \in Kept(e)) => rows[i].running >= 90

\* overhead_pmu_rows(): only the log of the first group is read for transactions.
OverheadPmuQualified ==
    PmuQualified /\ \E i \in DOMAIN rows : i = 1 /\ rows[i].transactions > 0

-----------------------------------------------------------------------------
(* go-ftw: a row is a number of tests that ended alike                      *)

Tests(status) == MapThenSumSet(LAMBDA i : IF rows[i].status = status THEN rows[i].tests ELSE 0,
                               DOMAIN rows)

\* normalize_ftw(): neither timeouts nor exceptions are in go-ftw's output.
Normalized ==
    [tests |-> Tests("success") + Tests("failed"), passed |-> Tests("success"),
     overrides |-> Tests("ignored") + Tests("forced-pass") + Tests("forced-fail"),
     timeouts |-> 0, exceptions |-> 0]

\* Parity of at least 99.70%; there is none without tests.
Parity(n) == n.tests > 0 /\ n.passed * 10000 >= n.tests * 9970

CorazaAccepted ==
    LET n == Normalized
    IN n.timeouts = 0 /\ n.exceptions = 0 /\ Parity(n) /\ n.overrides = 0 /\ n.tests # 0

\* full_correctness_rows()
CorazaReported ==
    LET n == Normalized
    IN Parity(n) /\ n.timeouts = 0 /\ n.exceptions = 0 /\ n.overrides = 0

-----------------------------------------------------------------------------
(* correctness.py: a row is one response of one engine                      *)

Passed(r) == CASE r.table = "baseline" -> ~r.blocked
               [] r.table = "crs" -> r.blocked = (r.class = "attack")
               [] r.table = "native-waf" -> TRUE

Summary(table) ==
    LET of(c) == {i \in DOMAIN rows : rows[i].table = table /\ rows[i].class = c}
    IN [attacks |-> Cardinality(of("attack")),
        detected |-> Cardinality({i \in of("attack") : rows[i].blocked}),
        falsePositives |-> Cardinality({i \in of("allow") : rows[i].blocked}),
        passed |-> \A i \in DOMAIN rows : rows[i].table = table => Passed(rows[i])]

MatrixValid == \A t \in {"baseline", "crs"} : Summary(t).passed

-----------------------------------------------------------------------------
(* Properties                                                               *)

\* run.py writes each group of events once, and no event is in two groups.
EachEventOnce == \A i, j \in DOMAIN rows : rows[i].events \cap rows[j].events # {} => i = j

\* What report.py asks of the counters and run.py does not: a number above 0.
NoZero == \A g \in All : g.zero \cap Counted(g) \cap {"cycles", "instructions", "branches"} = {}

\* What run.py accepts of a file against what report.py calls qualified when it
\* reads the file again with its own code: every benchmark has enough processes,
\* the parity of the suite is the same, and in the matrix the CRS engines detect
\* every attack and nobody else's request is refused.  Counters that run.py accepts
\* are qualified exactly if cycles, instructions and branches do not read 0, and
\* for the overhead kernels if the first log names a transaction, which run.py does
\* not look at; said of files that hold each event once, as run.py writes them.
\* The comparator of an accepted manifest runs with the threshold the manifest
\* read, unless a line the manifest does not look at assigns another (Overridden).
GatesAgree ==
    /\ (kind = "micro" /\ MicroValid) =>
          /\ {r.name : r \in MicroRows} = Benchmarks
          /\ \A r \in MicroRows : r.qualified
    /\ (kind = "pmu" /\ EachEventOnce) =>
          /\ PmuQualified <=> PmuValid /\ NoZero
          /\ OverheadPmuQualified <=> PmuValid /\ NoZero /\ rows[1].transactions > 0
    /\ kind = "ftw" => (CorazaAccepted <=> CorazaReported)
    /\ (kind = "matrix" /\ MatrixValid) =>
          /\ Summary("crs").detected = Summary("crs").attacks
          /\ Summary("crs").falsePositives + Summary("baseline").falsePositives = 0
    /\ (kind = "manifest" /\ ManifestErrors = {} /\ Overridden = {}) => EffectivePolicy = 5
=============================================================================
