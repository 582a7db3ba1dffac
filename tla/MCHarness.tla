------------------------------ MODULE MCHarness ------------------------------
(***************************************************************************)
(* The benchmark harness, one of its parts per behavior: the NGINX legs of  *)
(* e2e.py, the verdicts over their results, the steps of a run of run.py,   *)
(* and the gates over the files the tools write.                            *)
(***************************************************************************)
EXTENDS Integers, Sequences, FiniteSets

CONSTANTS
    Engines, Threads, Fixed, MaxFaults,                              \* E2eLegs
    Kinds, Points, RequiredRuns, MinSamples, ClientLimit, Outputs, OrderedKinds,  \* Evidence
    Modes, Hosts, MaxVersion,                                        \* BenchmarkRun
    Rows, MaxRows, Processes, Benchmarks,                            \* EvidenceGates
    Repetitions, WorkerPoints

VARIABLES
    part,
    pc, leg, server, pidFile, ticks, wrk, errors, expected, cpuBefore, raised, unstopped,
    disturbed, faults,
    todo, legs,
    mode, scaling, host, at, used, sources, disk, recorded, manifest, report, outcome,
    rows,
    results, kind

legsOnly == <<pc, leg, server, pidFile, ticks, wrk, errors, expected, cpuBefore, raised,
              unstopped, disturbed, faults>>
runOnly  == <<mode, scaling, host, at, used, sources, disk, recorded, manifest, report, outcome>>
vars == <<part, legsOnly, todo, legs, runOnly, rows, results, kind>>

Legs     == INSTANCE E2eLegs
Verdicts == INSTANCE Evidence
Run      == INSTANCE BenchmarkRun
Gates    == INSTANCE EvidenceGates

ASSUME LegsConstants     == Legs!LegsAssumption
ASSUME EvidenceConstants == Verdicts!EvidenceAssumption
ASSUME RunConstants      == Run!RunAssumption
ASSUME GateConstants     == Gates!GateAssumption

-----------------------------------------------------------------------------
(* Legs.  Two adapters: the second repetition starts with the adapter the   *)
(* first ended with, so two servers in a row share a pid file.              *)

MCEngines == <<"baseline", "luminawaf">>

-----------------------------------------------------------------------------
(* Evidence.  Five outcomes of a leg: two rates within 5%, an output        *)
(* without requests, an overloaded leg, and one whose generator failed.     *)

Output(rps, requests, failed, exit, client) ==
    [rps |-> rps, requests |-> requests, errors |-> failed, socket |-> 0, exit |-> exit,
     client |-> client, percentiles |-> requests > 0]
MCOutputs == <<Output(100, 100000, 0, 0, 50), Output(104, 110000, 0, 0, 95),
               Output(0, 0, 0, 0, 50), Output(102, 100000, 7, 0, 50),
               Output(208, 120000, 0, 1, 50)>>
MCPoints == {10, 100}

-----------------------------------------------------------------------------
(* Runs.  Six CPUs in three cores; machines that differ in what the gate    *)
(* looks at.                                                                *)

Good == [clean |-> TRUE, governors |-> {"performance"}, online |-> 0..5, isolated |-> 0..5, affine |-> 0..5,
         siblings |-> [c \in 0..5 |-> {c, (c + 3) % 6}],
         server |-> {0}, micro |-> {0}, client |-> {1},
         scalingServer |-> {0, 2}, scalingClient |-> {1}]
MCHosts == {Good,
            [Good EXCEPT !.clean = FALSE],
            [Good EXCEPT !.governors = {"performance", "powersave"}],
            [Good EXCEPT !.client = {3}],
            [Good EXCEPT !.micro = {4}],
            [Good EXCEPT !.isolated = {0, 1}],
            [Good EXCEPT !.affine = {0, 1}],
            [Good EXCEPT !.scalingServer = {0}],
            [Good EXCEPT !.scalingClient = {}]}

-----------------------------------------------------------------------------
(* Files.  Rows that differ in what a gate looks at; two processes stand    *)
(* for five.                                                                *)

Line(where, sets, default) ==
    [where |-> where, sets |-> sets, default |-> default, override |-> FALSE, coraza |-> TRUE]
Bench(raw, aggregates, error) == [raw |-> raw, aggregates |-> aggregates, error |-> error]
Full == {"mean", "median", "stddev", "cv"}
Processes2(b) == {[allow |-> x, attack |-> y] : x \in b, y \in b}
Group(events, supported, missing, running) ==
    [events |-> events, supported |-> supported, missing |-> missing, running |-> running,
     zero |-> {}, transactions |-> 1000]
Core == {"cycles", "instructions", "branches", "branch-misses"}
Caches == {"cache-references", "cache-misses"}
MCRows ==
    [manifest |-> {Line("setup", 5, FALSE), Line("rules", 5, TRUE), Line("rules", 10, FALSE), Line("rules", 10, TRUE),
                   Line("949", 0, FALSE), Line("config", 10, FALSE),
                   Line("config", 10, TRUE),
                   [Line("config", 0, FALSE) EXCEPT !.override = TRUE],
                   [Line("rules", 0, FALSE) EXCEPT !.coraza = FALSE]},
     micro |-> Processes2({Bench(10, Full, FALSE), Bench(9, Full, FALSE),
                           Bench(10, Full \ {"cv"}, FALSE), Bench(10, {}, FALSE),
                           Bench(10, Full, TRUE)}),
     pmu |-> {Group(Core, TRUE, {}, 100), Group(Core, TRUE, {"branches"}, 100),
              Group(Core, TRUE, {}, 89), Group(Core, FALSE, {}, 0),
              Group(Caches, TRUE, {}, 100), Group(Caches, TRUE, {}, 90),
              Group(Caches, TRUE, {"cache-misses"}, 89), Group(Caches, FALSE, {}, 0),
              [Group(Core, TRUE, {}, 100) EXCEPT !.zero = {"branches"}],
              [Group(Core, TRUE, {}, 100) EXCEPT !.zero = {"branch-misses"}],
              [Group(Caches, TRUE, {}, 100) EXCEPT !.zero = Caches, !.transactions = 0],
              [Group(Core, TRUE, {}, 90) EXCEPT !.transactions = 0]},
     ftw |-> {[status |-> s, tests |-> n] : s \in {"success", "failed", "ignored",
                  "forced-pass", "forced-fail", "skipped"}, n \in {1, 333}},
     matrix |-> {[table |-> t, class |-> c, blocked |-> b]
                 : t \in {"baseline", "crs", "native-waf"}, c \in {"attack", "allow"},
                   b \in BOOLEAN}]

-----------------------------------------------------------------------------

NoLegs ==
    /\ pc = "none" /\ leg = 0 /\ server = 0 /\ pidFile = 0 /\ ticks = 0 /\ wrk = 0 /\ errors = 0
    /\ expected = 0 /\ cpuBefore = 0 /\ raised = 0 /\ unstopped = 0 /\ disturbed = 0 /\ faults = 0
NoRun ==
    /\ mode = 0 /\ scaling = 0 /\ host = 0 /\ at = 0 /\ used = 0 /\ sources = 0 /\ disk = 0
    /\ recorded = 0 /\ manifest = 0 /\ report = 0 /\ outcome = 0

Init ==
    \/ part = "legs" /\ Legs!Init /\ legs = 0 /\ todo = 0 /\ NoRun /\ rows = 0 /\ kind = 0
    \/ part = "evidence" /\ Verdicts!Init /\ NoLegs /\ NoRun /\ rows = 0 /\ results = 0
    \/ part = "run" /\ Run!Init /\ NoLegs /\ legs = 0 /\ todo = 0 /\ rows = 0 /\ kind = 0
    \/ part = "gates" /\ Gates!Init /\ NoLegs /\ legs = 0 /\ todo = 0 /\ NoRun /\ results = 0

LegsStep == part = "legs" /\ Legs!Next /\ UNCHANGED <<part, todo, legs, runOnly, rows, kind>>

Next ==
    \/ LegsStep
    \/ part = "evidence" /\ Verdicts!Next /\ UNCHANGED <<part, legsOnly, runOnly, rows, results>>
    \/ part = "run" /\ Run!Next /\ UNCHANGED <<part, legsOnly, todo, legs, rows, kind>>
    \/ part = "gates" /\ Gates!Write /\ UNCHANGED <<part, legsOnly, todo, legs, runOnly, results>>

\* Of E2eLegs!Fairness: the script runs on, and wrk ends after its duration.
Spec ==
    /\ Init /\ [][Next]_vars
    /\ WF_vars(LegsStep /\ Legs!Harness) /\ WF_vars(LegsStep /\ Legs!LoadEnds)

-----------------------------------------------------------------------------
(* Properties *)

\* NginxLeg: every recorded leg was served by the NGINX it started itself, and the
\* CPU time of a valid leg whose server kept its processes is its own load's.
RecordedLegsAreTheirOwn ==
    part = "legs" => Legs!MeasuresItsOwnServer /\ Legs!CpuIsTheLoads

\* NginxLeg.stop and the finally blocks: a run that is over left no generator, no
\* master stop() could signal, and orphaned workers at the place it stopped only.
NothingOutlivesTheRun == part = "legs" => Legs!NothingOutlivesTheRun

\* Every wait of e2e.py has a deadline or waits for a load of bounded duration.
RunEnds == part = "legs" => Legs!RunEnds

\* evaluate_measurement_validity and render: what e2e.py accepts the report
\* qualifies.
ReportAgrees == part = "evidence" => Verdicts!ReportAgrees

\* What is derived from the legs and published (sustainable points, paired deltas,
\* speedups, and the plan of the next measurement) rests on legs that counted.
PublishedRowsAreBacked ==
    part = "evidence" =>
        /\ Verdicts!QualifiedRowsAreBacked /\ Verdicts!PlanIsAffordable
        /\ Verdicts!PairsAreValid /\ Verdicts!ScalingIsGrounded

\* run.py: exit status 0, and the word canonical, only for a run whose steps were
\* all done and valid.
FailsClosed == part = "run" => Run!FailsClosed /\ Run!CanonicalIsEarned

\* run.py: the evidence of a run that passed is of one library, the recorded one.
OneLibraryMeasured == part = "run" => Run!OneLibraryMeasured

\* run.py, report.py: both read a file with their own code and agree on it.
GatesAgree == part = "gates" => Gates!GatesAgree
================================================================================
