---------------------------- MODULE BenchmarkRun -----------------------------
(***************************************************************************)
(* The orchestration of a benchmark run (run.py, main): gates, builds,     *)
(* measurements, correctness suites and reports, one subprocess at a time. *)
(* A step that cannot go on raises, and the run ends without a report.     *)
(*                                                                         *)
(* Meanwhile somebody works on the same checkout: the sources change, and  *)
(* the library in the build directory is replaced, by hand or by the CRS   *)
(* parity gate, which rebuilds it.  Versions of the library never return.  *)
(***************************************************************************)
EXTENDS Integers, Sequences, FiniteSets, FiniteSetsExt

CONSTANTS
    Modes,         \* of "smoke", "exploratory", "qualification", "canonical"
    Hosts,         \* machines the run may be started on
    WorkerPoints,  \* worker counts of the scaling supplement
    MaxVersion     \* bound: versions of the sources

RunAssumption ==
    /\ Modes \subseteq {"smoke", "exploratory", "qualification", "canonical"}
    /\ WorkerPoints \subseteq Nat \ {0} /\ MaxVersion \in Nat \ {0}

VARIABLES
    mode, scaling, host,  \* the command line and the machine
    at,         \* index of the step under way
    results,    \* step -> "valid" or "invalid", of the steps that were done
    used,       \* step -> version of the library it ran
    sources,    \* version of the checkout's sources
    disk,       \* version of the library in the build directory, 0 for none
    recorded,   \* version artifacts.json holds the hash of
    manifest,   \* run_manifest.json, once it is written
    report,     \* whether BENCHMARK_RESULTS.md was written
    outcome     \* "running", "passed" (exit 0) or "failed" (exit 2)
vars == <<mode, scaling, host, at, results, used, sources, disk, recorded,
          manifest, report, outcome>>

Publication == mode \in {"qualification", "canonical"}
Strict == mode = "canonical"

-----------------------------------------------------------------------------
(* The steps, in their order                                                *)

Steps ==
    <<"manifest", "tools", "host", "build", "isolation", "artifacts", "preflight",
      "micro", "overhead_micro", "pmu", "overhead_pmu", "lumina_crs", "coraza_crs",
      "outcome_matrix", "execution_preflight", "saturation", "plan", "fixed", "scaling",
      "overhead_saturation", "overhead_plan", "overhead_fixed", "postflight", "report">>

\* The steps a run does not do are passed over.
Wanted(s) ==
    CASE s = "host" -> Strict
      [] s \in {"pmu", "overhead_pmu", "lumina_crs", "coraza_crs"} -> Publication
      [] s = "scaling" -> scaling
      [] OTHER -> TRUE

At(s) == outcome = "running" /\ at <= Len(Steps) /\ Steps[at] = s

Raise ==
    /\ outcome' = "failed"
    /\ UNCHANGED <<mode, scaling, host, at, results, used, sources, disk, recorded,
                   manifest, report>>

With(f, s, v) == [x \in DOMAIN f \cup {s} |-> IF x = s THEN v ELSE f[x]]

\* The step ends with a result, having run the library that is on disk; the
\* next one that is wanted follows.
Proceed(r) ==
    /\ \E next \in (at + 1)..Len(Steps) :
          /\ Wanted(Steps[next])
          /\ \A i \in (at + 1)..(next - 1) : ~Wanted(Steps[i])
          /\ at' = next
    /\ results' = With(results, Steps[at], r)
    /\ used' = With(used, Steps[at], disk')
    /\ UNCHANGED <<mode, scaling, host, sources, manifest, report, outcome>>

\* A step that raises whatever goes wrong: a command that failed or evidence
\* that is not complete.
Gate == \/ UNCHANGED <<disk, recorded>> /\ Proceed("valid")
        \/ Raise

\* e2e.py and correctness.py: with --canonical an invalid payload exits with 2
\* and so raises, without it the payload is kept.
Measurement(canonicalFlag) ==
    \/ Gate
    \/ ~canonicalFlag /\ UNCHANGED <<disk, recorded>> /\ Proceed("invalid")

-----------------------------------------------------------------------------
(* Before anything is measured                                              *)

\* manifest.py refuses defects only with --strict.
Manifest == At("manifest") /\ Measurement(Publication)

\* Missing tools, or settings a qualified run requires.
Dependencies == At("tools") /\ Gate

Siblings(h, cpus) == UNION {h.siblings[c] : c \in cpus}

\* Two CPU sets that a server and its load generator may use ("affine" are the
\* CPUs taskset may give this process).
Separate(h, servers, clients) ==
    /\ servers # {} /\ clients # {} /\ servers \intersect clients = {}
    /\ servers \union clients \subseteq h.online \intersect h.isolated \intersect h.affine
    /\ Siblings(h, servers) \intersect clients = {}

\* canonical_environment_gate(), after a clean worktree was seen.
HostAccepted(h) ==
    /\ h.clean /\ h.governors \subseteq {"performance"}
    /\ h.micro # {} /\ Separate(h, h.server \union h.micro, h.client) /\ h.server # {}
    /\ scaling => Separate(h, h.scalingServer, h.scalingClient)

HostGate ==
    /\ At("host")
    /\ IF HostAccepted(host) THEN UNCHANGED <<disk, recorded>> /\ Proceed("valid") ELSE Raise

\* Configures and builds from nothing, and keeps the provenance.
Build ==
    /\ At("build")
    /\ \/ disk' = sources /\ Proceed("valid") /\ UNCHANGED recorded
       \/ Raise

\* No symbol of the classifier it replaced, no comparator among its libraries.
SymbolIsolation == At("isolation") /\ Gate

\* artifacts.json, with the hash of every file the run depends on.
ArtifactManifest ==
    /\ At("artifacts")
    /\ recorded' = disk /\ UNCHANGED disk /\ Proceed("valid")

\* Every recorded artifact still has its hash; a qualified run has them all.
ArtifactPreflight ==
    /\ At("preflight")
    /\ IF recorded = disk THEN Gate ELSE Raise

-----------------------------------------------------------------------------
(* Measurements                                                             *)

Micro == (At("micro") \/ At("overhead_micro")) /\ Gate
Pmu == (At("pmu") \/ At("overhead_pmu")) /\ Gate

\* run_crs_parity_gate.sh builds the library before it tests it.
LuminaParity ==
    /\ At("lumina_crs")
    /\ \/ disk' = sources /\ Proceed("valid") /\ UNCHANGED recorded
       \/ outcome' = "failed" /\ disk' \in {disk, sources}
          /\ UNCHANGED <<mode, scaling, host, at, results, used, sources, recorded,
                         manifest, report>>

CorazaParity == At("coraza_crs") /\ Gate
OutcomeMatrix == At("outcome_matrix") /\ Measurement(Publication)

\* Runs without --canonical, and raises itself unless its three legs are valid.
ExecutionPreflight == At("execution_preflight") /\ Gate

Saturation == (At("saturation") \/ At("overhead_saturation")) /\ Measurement(Publication)
FixedRate == (At("fixed") \/ At("overhead_fixed")) /\ Measurement(Publication)

\* derive_sampling_plan() raises when it cannot qualify; a diagnostic run takes
\* the rate it is given.
SamplingPlan ==
    /\ At("plan") \/ At("overhead_plan")
    /\ IF Publication THEN Gate ELSE UNCHANGED <<disk, recorded>> /\ Proceed("valid")

\* derive_scaling_plan()
ScalingPlanned ==
    /\ host.scalingServer # {} /\ host.scalingClient # {}
    /\ host.scalingServer \intersect host.scalingClient = {}
    /\ 1 \in WorkerPoints /\ Max(WorkerPoints) <= Cardinality(host.scalingServer)

\* One canonical sweep for each worker count; only the summary may be invalid.
Scaling ==
    /\ At("scaling")
    /\ IF ScalingPlanned THEN Measurement(FALSE) ELSE Raise

-----------------------------------------------------------------------------
(* The verdict                                                              *)

\* Mutant: takes the hashes of what is there now.
PostflightOfNow ==
    /\ At("postflight")
    /\ recorded' = disk /\ UNCHANGED disk /\ Proceed("valid")

ArtifactPostflight ==
    /\ At("postflight")
    /\ UNCHANGED <<disk, recorded>>
    /\ Proceed(IF recorded = disk THEN "valid" ELSE "invalid")

Valid(s) == s \in DOMAIN results /\ results[s] = "valid"

PhaseNames ==
    {"manifest", "micro", "e2e", "overhead", "artifacts", "lumina_crs", "coraza_crs",
     "outcome_matrix", "execution_preflight", "scaling"}

\* Mutant: the fixed-rate payload alone decides the phase.
PhasesOfFixed ==
    [p \in PhaseNames |->
        CASE p \in {"manifest", "micro"} -> TRUE
          [] p = "e2e" -> Valid("fixed")
          [] p = "overhead" -> Valid("overhead_fixed")
          [] p = "artifacts" -> Valid("postflight")
          [] OTHER -> Valid(p)]

\* phases[name] = "passed"; a step that was not run has not passed.
Phases ==
    [p \in PhaseNames |->
        CASE p \in {"manifest", "micro"} -> TRUE
          [] p = "e2e" -> Valid("fixed") /\ Valid("saturation")
          [] p = "overhead" -> Valid("overhead_fixed") /\ Valid("overhead_saturation")
          [] p = "artifacts" -> Valid("postflight")
          [] OTHER -> Valid(p)]

RequiredPhases ==
    PhaseNames \ IF scaling THEN {} ELSE {"scaling"}

EngineeringPhases ==
    IF Publication THEN RequiredPhases
    ELSE {"manifest", "artifacts", "micro", "outcome_matrix", "e2e", "overhead"}

FailedPhases == {p \in EngineeringPhases : ~Phases[p]}

\* Mutant: any run whose phases passed.
CanonicalOfPhases == \A p \in EngineeringPhases : Phases[p]

Canonical ==
    /\ Strict /\ Valid("manifest") /\ Valid("micro") /\ Valid("overhead_micro")
    /\ Valid("pmu") /\ Valid("overhead_pmu") /\ Valid("postflight")
    /\ \A s \in {"fixed", "saturation", "overhead_fixed", "overhead_saturation"} : Valid(s)
    /\ scaling => Valid("scaling")
    /\ \A p \in RequiredPhases : Phases[p]

\* run_manifest.json, then report.py, then the exit status.
WriteReport ==
    /\ At("report")
    /\ manifest' = [canonical |-> Canonical, failed |-> FailedPhases]
    /\ \/ /\ report' = TRUE
          /\ outcome' = IF FailedPhases # {} \/ (Strict /\ ~Canonical)
                        THEN "failed" ELSE "passed"
       \/ report' = FALSE /\ outcome' = "failed"
    /\ at' = at + 1
    /\ UNCHANGED <<mode, scaling, host, results, used, sources, disk, recorded>>

-----------------------------------------------------------------------------
(* The checkout                                                             *)

Edit ==
    /\ outcome = "running" /\ sources < MaxVersion
    /\ sources' = sources + 1
    /\ UNCHANGED <<mode, scaling, host, at, results, used, disk, recorded, manifest,
                   report, outcome>>

\* Another build in the same directory.
Rebuild ==
    /\ outcome = "running" /\ disk # 0 /\ disk' = sources
    /\ UNCHANGED <<mode, scaling, host, at, results, used, sources, recorded, manifest,
                   report, outcome>>

\* A supplement for publications is refused to other modes before anything.
Init ==
    /\ mode \in Modes /\ host \in Hosts
    /\ scaling \in (IF Publication THEN BOOLEAN ELSE {FALSE})
    /\ at = 1 /\ results = <<>> /\ used = <<>>
    /\ sources = 1 /\ disk = 0 /\ recorded = 0
    /\ manifest = <<>> /\ report = FALSE /\ outcome = "running"

Next ==
    \/ Manifest \/ Dependencies \/ HostGate \/ Build \/ SymbolIsolation
    \/ ArtifactManifest \/ ArtifactPreflight \/ Micro \/ Pmu \/ LuminaParity
    \/ CorazaParity \/ OutcomeMatrix \/ ExecutionPreflight \/ Saturation \/ FixedRate
    \/ SamplingPlan \/ Scaling \/ ArtifactPostflight \/ WriteReport
    \/ Edit \/ Rebuild
Spec == Init /\ [][Next]_vars

-----------------------------------------------------------------------------
(* Properties                                                               *)

MeasuringSteps ==
    {"micro", "overhead_micro", "pmu", "overhead_pmu", "lumina_crs", "coraza_crs",
     "outcome_matrix", "execution_preflight", "saturation", "fixed", "scaling",
     "overhead_saturation", "overhead_fixed"}

\* A run exits with 0 only when nothing it measured was invalid and it wrote
\* its report, whatever the mode: no payload a diagnostic mode tolerates is
\* forgotten on the way to the exit status.
FailsClosed ==
    outcome = "passed" =>
        /\ report
        /\ \A s \in DOMAIN results : s \in MeasuringSteps => results[s] = "valid"

\* The evidence of a run that exits with 0 is of one library, the one whose
\* hash it recorded, although the parity gate builds it again half way and
\* others may build it at any time.
OneLibraryMeasured ==
    outcome = "passed" =>
        \A s \in DOMAIN used : s \in MeasuringSteps => used[s] = recorded

\* A manifest that says canonical belongs to a canonical run on a machine the
\* gate accepts, with every step of the protocol done and valid.
CanonicalIsEarned ==
    (manifest # <<>> /\ manifest.canonical) =>
        /\ mode = "canonical" /\ HostAccepted(host) /\ manifest.failed = {}
        /\ \A i \in 1..(Len(Steps) - 1) : Wanted(Steps[i]) => Valid(Steps[i])
=============================================================================
