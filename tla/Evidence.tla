------------------------------ MODULE Evidence -------------------------------
(***************************************************************************)
(* What the benchmark harness concludes from the legs it has measured:     *)
(* e2e.py judges a payload (parse_wrk, stability, validity), run.py plans  *)
(* the fixed-rate run and the multi-worker scaling from it, and report.py  *)
(* reads the same files again and labels each table.  The three must say   *)
(* the same of the same evidence.                                          *)
(*                                                                         *)
(* Rates are integers and medians are kept doubled, so that every          *)
(* comparison the code makes in floating point is exact here.              *)
(***************************************************************************)
EXTENDS Integers, Sequences, SequencesExt, FiniteSets, FiniteSetsExt

CONSTANTS
    Kinds,         \* the payloads looked at: "saturation", "fixed", "overhead", "scaling"
    Points,        \* connection counts of the sweep
    WorkerPoints,  \* NGINX workers of the scaling payloads
    Repetitions,   \* legs of one adapter at one point
    RequiredRuns,  \* runs a point needs (5 in the code)
    MinSamples,    \* accepted responses a fixed-rate leg needs (100000 in the code)
    ClientLimit,   \* client CPU percentage a scaling row may reach
    Outputs,       \* sequence of what a leg can yield
    OrderedKinds   \* bound: of these only one order of the runs of a point is looked at

EvidenceAssumption ==
    /\ Kinds \subseteq {"saturation", "fixed", "overhead", "scaling"}
    /\ Points \subseteq Nat \ {0} /\ Points # {} /\ IsFiniteSet(Points)
    /\ WorkerPoints \subseteq Nat \ {0} /\ IsFiniteSet(WorkerPoints)
    /\ Repetitions \in Nat \ {0} /\ RequiredRuns \in Nat \ {0} /\ MinSamples \in Nat
    /\ Outputs \in Seq(ToSet(Outputs))
    /\ \A out \in ToSet(Outputs) :
          /\ {out.requests, out.errors, out.socket, out.rps} \subseteq Nat
          /\ out.requests = 0 => out.rps = 0

VARIABLES
    kind,   \* the payload's kind
    todo,   \* the set of the legs not measured yet
    legs    \* the results, in the order measured
vars == <<kind, todo, legs>>

Overhead == <<"baseline", "luminawaf-loaded-off", "luminawaf">>
EnginesOf(k) == IF k = "overhead" THEN Overhead ELSE <<"baseline", "luminawaf">>
Table(k, e) == IF k = "overhead" THEN "diagnostic"
               ELSE IF e = "baseline" THEN "baseline" ELSE "crs"
EngineSet(k) == ToSet(EnginesOf(k))

-----------------------------------------------------------------------------
(* A leg: what parse_wrk reads in wrk's output                              *)

\* The offered rate of a fixed-rate leg (none in the closed-loop modes).
OfferedRate == 100

Accepted(out) == IF out.requests > out.errors THEN out.requests - out.errors ELSE 0

\* (Socket counters that wrk wrote and parse_wrk cannot read, e2e.py:276-277, are one
\* more reason without a number behind it, as the exit status is.)
Reasons(k, out) ==
    LET Why(c, r) == IF c THEN {r} ELSE {}
    IN UNION {Why(out.errors > 0, "non-success responses"),
              Why(out.socket > 0, "socket errors"),
              Why(k = "fixed" /\ out.rps * 100 < OfferedRate * 90, "achieved rate"),
              Why(k = "fixed" /\ Accepted(out) < MinSamples, "accepted samples"),
              Why(k = "fixed" /\ ~out.percentiles, "percentiles"),
              Why(out.exit # 0, "load generator exit")}

Leg(k, slot, i) ==
    LET out == Outputs[i] IN
    [workers |-> slot.workers, repetition |-> slot.repetition,
     connections |-> slot.connections, engine |-> slot.engine, table |-> Table(k, slot.engine),
     reasons |-> Reasons(k, out), valid |-> Reasons(k, out) = {},
     rps |-> out.rps, client |-> out.client, accepted |-> Accepted(out),
     cpu |-> IF out.requests = 0 THEN "none" ELSE "some", output |-> i]

SlotsOf(k) ==
    [workers     : IF k = "scaling" THEN WorkerPoints ELSE {1},
     repetition  : 1..Repetitions,
     connections : IF k = "saturation" THEN Points ELSE {Min(Points)},
     engine      : EngineSet(k)]

\* rotated_order(): when the turn of an adapter is in a round.
Turn(k, slot) ==
    LET n == Len(EnginesOf(k))
        round == slot.repetition - 1
        index == (CHOOSE i \in 1..n : EnginesOf(k)[i] = slot.engine) - 1
        turn == (index - (round % n)) % n
    IN IF (round \div n) % 2 = 1 THEN n - 1 - turn ELSE turn

\* main(): repetition by repetition, point by point, engine by engine; the
\* scaling supplement runs the whole sweep once per worker point.
Precedes(k, s, t) ==
    LET Key(x) == <<x.workers, x.repetition, x.connections, Turn(k, x)>>
    IN \E i \in 1..4 : Key(s)[i] < Key(t)[i] /\ \A j \in 1..(i - 1) : Key(s)[j] = Key(t)[j]

Init == kind \in Kinds /\ todo = SlotsOf(kind) /\ legs = <<>>

InOrder(slot, i) ==
    \A j \in DOMAIN legs :
        (/\ legs[j].engine = slot.engine /\ legs[j].workers = slot.workers
         /\ legs[j].connections = slot.connections)
           => IF legs[j].repetition < slot.repetition
              THEN legs[j].output <= i ELSE legs[j].output >= i

Measure(slot, i) ==
    /\ \A other \in todo \ {slot} : Precedes(kind, slot, other)
    /\ kind \in OrderedKinds => InOrder(slot, i)
    /\ legs' = Append(legs, Leg(kind, slot, i))
    /\ todo' = todo \ {slot}
    /\ UNCHANGED kind

Done == todo = {}
Next == \E slot \in todo, i \in DOMAIN Outputs : Measure(slot, i)
Spec == Init /\ [][Next]_vars

-----------------------------------------------------------------------------
(* Stability                                                                *)

Items == {legs[i] : i \in DOMAIN legs}
Of(items, e, c) == {i \in items : i.engine = e /\ i.connections = c}
ValidOf(items, e, c) == {i \in Of(items, e, c) : i.valid}

Total(items) == MapThenSumSet(LAMBDA i : i.rps, items)
Squares(items) == MapThenSumSet(LAMBDA i : i.rps * i.rps, items)

\* stdev / mean of the rates is at most 5%; there is no cv for one run, or for
\* a mean of nothing.
Steady(items) ==
    LET n == Cardinality(items)
        s == Total(items)
    IN /\ n > 1 /\ s > 0
       /\ 400 * n * (n * Squares(items) - s * s) <= (n - 1) * s * s

\* The k-th of the rates in ascending order, and twice their median.
RateAt(items, k) ==
    Min({r \in {i.rps : i \in items} : Cardinality({i \in items : i.rps <= r}) >= k})
Median2(items) ==
    LET n == Cardinality(items)
    IN IF n = 0 THEN 0 ELSE RateAt(items, (n + 1) \div 2) + RateAt(items, (n \div 2) + 1)

Stability(k, items) ==
    LET Row(e, c) ==
          LET samples == ValidOf(items, e, c)
              stable == Cardinality(samples) >= RequiredRuns /\ Steady(samples)
          IN [engine |-> e, connections |-> c, runs |-> Cardinality(samples),
              median |-> Median2(samples), stable |-> stable,
              sustainable |-> k # "fixed" /\ stable]
    IN {Row(e, c) : e \in EngineSet(k), c \in {i.connections : i \in items}}

\* evaluate_measurement_validity() of a canonical payload: overload explains a
\* leg of a saturation sweep, nothing explains any other.
Valid(k, items, expectedResults) ==
    LET stability == Stability(k, items)
        overload(i) == /\ k # "fixed" /\ i.reasons # {}
                       /\ i.reasons \subseteq {"non-success responses", "socket errors"}
        stableEngines == {s.engine : s \in {s \in stability : s.stable}}
        coverage == items # {} /\ Cardinality(items) = expectedResults
        stable == IF k = "overhead" THEN stability # {} /\ \A s \in stability : s.stable
                  ELSE EngineSet(k) \subseteq stableEngines
    IN /\ coverage /\ stable
       /\ \A i \in items : i.valid \/ (k \in {"saturation", "scaling"} /\ overload(i))

-----------------------------------------------------------------------------
(* run.py: the fixed-rate plan and the scaling summary                      *)

CeilDiv(a, b) == (a + b - 1) \div b
TargetSamples == 100000

\* The highest stable rate (doubled) of each engine, 0 when it has none.
StableRate(items, e) ==
    Max({0} \cup {s.median : s \in {s \in Stability("saturation", items) :
                                      s.engine = e /\ s.sustainable}})

\* 60% of the slowest engine's rate, and at least one request a second.
RateCeiling(items) ==
    LET limit == Min({StableRate(items, e) : e \in EngineSet("saturation")})
    IN Max({1, (limit * 6) \div 20})

\* Mutant: budgets against the offered rate instead of the 90% floor.
SecondsAtFullRate(rate) == CeilDiv(TargetSamples * 110, rate * 100)

SecondsFor(rate) == CeilDiv(TargetSamples * 110, rate * 90)

\* derive_sampling_plan(): {} when it raises; 0 stands for "not requested".
SamplingPlan(items, requestedRate, requestedSeconds) ==
    LET ceiling == RateCeiling(items)
        rate == IF requestedRate # 0 THEN requestedRate ELSE ceiling
        needed == SecondsFor(rate)
        seconds == IF requestedSeconds # 0 THEN requestedSeconds ELSE needed
    IN IF \E e \in EngineSet("saturation") : StableRate(items, e) = 0 THEN {}
       ELSE IF rate > ceiling \/ seconds < needed THEN {}
       ELSE {[rate |-> rate, seconds |-> seconds]}

\* summarize_scaling() of the payloads of all worker points.
Payload(w) == {i \in Items : i.workers = w}

\* The best sustainable point of an engine at w workers.  The code takes the first
\* of equals; with one connection count per worker count (SlotsOf) there are none.
BestPoints(w, e) ==
    LET rows == {s \in Stability("scaling", Payload(w)) : s.engine = e /\ s.sustainable}
    IN {s \in rows : \A t \in rows : t.median <= s.median}

\* Mutant: the median client load decides instead of the highest.
HeadroomOfMedian(samples) ==
    \E i \in samples : i.client <= ClientLimit

Headroom(samples) == \A i \in samples : i.client <= ClientLimit

ScalingRow(w, e, s) ==
    LET samples == ValidOf(Payload(w), e, s.connections)
    IN [engine |-> e, workers |-> w, rps |-> s.median, blocking |-> Table("scaling", e) # "baseline",
        qualified |-> Cardinality(samples) >= RequiredRuns /\ Steady(samples) /\ Headroom(samples)]

ScalingRows ==
    UNION {{ScalingRow(w, e, s) : s \in BestPoints(w, e)}
           : w \in WorkerPoints, e \in EngineSet("scaling")}

ScalingValid ==
    /\ 1 \in WorkerPoints
    /\ \A w \in WorkerPoints : \A e \in EngineSet("scaling") : BestPoints(w, e) # {}
    /\ \E r \in ScalingRows : r.blocking
    /\ \A r \in ScalingRows : r.blocking => r.qualified

-----------------------------------------------------------------------------
(* report.py: what the tables say of the same files                         *)

\* Mutant: the required number of samples is not enough.
FixedRowsAbove(items) ==
    {[engine |-> e,
      qualified |-> LET own == {i \in items : i.engine = e /\ i.valid} IN
                    /\ Cardinality(own) >= RequiredRuns /\ Steady(own)
                    /\ \A i \in own : i.accepted > MinSamples]
     : e \in {i.engine : i \in {i \in items : i.valid}}}

FixedRow(items, e) ==
    LET own == {i \in items : i.engine = e /\ i.valid}
    IN [engine |-> e,
        qualified |-> /\ Cardinality(own) >= RequiredRuns /\ Steady(own)
                      /\ \A i \in own : i.accepted >= MinSamples]

FixedRows(items) == {FixedRow(items, e) : e \in {i.engine : i \in {i \in items : i.valid}}}

\* Mutant: a point without a stability row is reported all the same.
SaturationRowsOfAny(k, items) ==
    {[engine |-> e, rps |-> Max({Median2(ValidOf(items, e, c)) : c \in Points}),
      qualified |-> \E c \in Points : Cardinality(ValidOf(items, e, c)) >= RequiredRuns]
     : e \in {i.engine : i \in {i \in items : i.valid}}}

\* Of each engine the fastest sustainable point.
SaturationRows(k, items) ==
    LET sustainable == {s \in Stability(k, items) : s.sustainable}
        best == {s \in sustainable :
                   \A t \in sustainable : t.engine = s.engine => t.median <= s.median}
    IN {[engine |-> s.engine, rps |-> s.median, qualified |-> s.runs >= RequiredRuns]
        : s \in best}

AbsoluteRows(items) ==
    {[engine |-> s.engine, connections |-> s.connections,
      qualified |-> s.runs >= RequiredRuns /\ s.stable]
     : s \in {s \in Stability("overhead", items) : s.runs > 0}}

\* Mutant: a group with an invalid row is paired too.
PairedInvalid(items, r, c) ==
    LET group == {i \in items : i.repetition = r /\ i.connections = c}
    IN /\ {i.engine : i \in group} = ToSet(Overhead)
       /\ \A i \in group : i.cpu # "none"

\* A round whose three adapters are there, valid, and have their CPU time.
Paired(items, r, c) ==
    LET group == {i \in items : i.repetition = r /\ i.connections = c}
    IN /\ {i.engine : i \in group} = ToSet(Overhead)
       /\ \A i \in group : i.valid /\ i.cpu # "none"

Pairs(items, c) == {r \in 1..Repetitions : Paired(items, r, c)}

\* The status column of "Publication Qualification", of a payload that is valid.
Status(k) ==
    LET nonempty(rows) == rows # {} /\ \A r \in rows : r.qualified IN
    CASE k = "saturation" -> nonempty(SaturationRows(k, Items))
      [] k = "fixed" -> nonempty(FixedRows(Items))
      [] k = "overhead" ->
           /\ nonempty(AbsoluteRows(Items))
           /\ \A c \in {i.connections : i \in Items} :
                 /\ Cardinality(Pairs(Items, c)) >= RequiredRuns
                 /\ \A r \in 1..Repetitions : Paired(Items, r, c)
      [] k = "scaling" -> nonempty(ScalingRows)

-----------------------------------------------------------------------------
(* Properties                                                               *)

\* Evidence e2e.py accepts is evidence the report qualifies: no table of a
\* valid payload says NOT QUALIFIED, for the three payloads a canonical run
\* cannot do without.
ReportAgrees ==
    (Done /\ kind # "scaling" /\ Valid(kind, Items, Cardinality(SlotsOf(kind)))) => Status(kind)

\* What the report calls sustainable or qualified rests on enough valid runs of
\* one point within 5% of each other, whatever else was measured, and it
\* reports the very rate the fixed-rate plan was derived from.
QualifiedRowsAreBacked ==
    (Done /\ kind = "saturation") =>
        \A row \in SaturationRows(kind, Items) : row.qualified =>
            /\ \E c \in Points : LET runs == ValidOf(Items, row.engine, c) IN
                  /\ Cardinality(runs) >= RequiredRuns /\ Steady(runs)
                  /\ Median2(runs) = row.rps
            /\ row.rps = StableRate(Items, row.engine)

\* A plan the harness accepts can yield the samples it was made for even when
\* each leg only reaches the 90% that still counts as valid, at a rate no more
\* than 60% of what every engine sustained (or one request a second).
PlanIsAffordable ==
    (Done /\ kind = "saturation") =>
        \A rate \in {0, 1, 60, 61}, seconds \in {0, 2020} :
            \A plan \in SamplingPlan(Items, rate, seconds) :
                /\ plan.rate * 90 * plan.seconds >= TargetSamples * 100
                /\ \A e \in EngineSet(kind) :
                      plan.rate = 1 \/ plan.rate * 20 <= StableRate(Items, e) * 6

\* Paired CPU deltas come from rounds whose legs all counted: the report never
\* subtracts the CPU time of a leg that failed.
PairsAreValid ==
    (Done /\ kind = "overhead") =>
        \A c \in Points : \A r \in Pairs(Items, c) :
            \A i \in Items : (i.repetition = r /\ i.connections = c) => i.valid

\* A valid scaling summary has, for every engine, a row at every worker count
\* and so the one-worker rate its speedup is relative to, and no WAF row of it
\* was measured with a client at its limit.
ScalingIsGrounded ==
    (Done /\ kind = "scaling" /\ ScalingValid) =>
        /\ \A w \in WorkerPoints, e \in EngineSet(kind) :
              \E row \in ScalingRows : row.engine = e /\ row.workers = w /\ row.rps > 0
        /\ \A row \in ScalingRows : row.blocking =>
              \E c \in Points : LET runs == ValidOf(Payload(row.workers), row.engine, c) IN
                 runs # {} /\ \A i \in runs : i.client <= ClientLimit

=============================================================================
