------------------------------- MODULE E2eLegs -------------------------------
(***************************************************************************)
(* The end-to-end runner of the benchmark harness                          *)
(* (bench/benchmark_harness/e2e.py): it starts one NGINX per leg on one    *)
(* port, waits for it, probes it, loads it with wrk, accounts its CPU time *)
(* and stops it, leg after leg, in the order rotated_order gives.          *)
(*                                                                         *)
(* NGINX, wrk and their faults are the environment: a server may lose a    *)
(* worker (its master forks another one, unbound and with no CPU time) or  *)
(* its master (the workers live on, still holding the port, and the pid    *)
(* file goes stale), and takes its time to leave when told to.  Deadlines  *)
(* are timeouts that may fire at any poll that has not succeeded.          *)
(***************************************************************************)
EXTENDS Integers, Sequences, SequencesExt, FiniteSets

CONSTANTS
    Engines,      \* the adapters, in the order adapters() lists them
    Repetitions,  \* --repetitions
    Threads,      \* load-generator threads of a leg
    Fixed,        \* --mode fixed: a warm-up comes before the measured load
    MaxFaults     \* bound on the crashes of workers and masters

LegsAssumption ==
    /\ Engines \in Seq(STRING) /\ Engines # <<>>
    /\ Repetitions \in Nat \ {0} /\ Threads \in Nat \ {0} /\ MaxFaults \in Nat
    /\ Fixed \in BOOLEAN

\* The adapter that repetition r visits at place i: rotated by one more place
\* each time, and reversed on every other tour of the list.
RotatedOrder(r, i) ==
    LET n == Len(Engines)
        place == IF (r \div n) % 2 = 1 THEN n + 1 - i ELSE i
    IN Engines[((r + place - 1) % n) + 1]

\* Every leg of the run: repetition by repetition (one connection point).
Legs == 1..(Repetitions * Len(Engines))
Plan == [l \in Legs |-> RotatedOrder((l - 1) \div Len(Engines), ((l - 1) % Len(Engines)) + 1)]

VARIABLES
    pc,        \* where main() stands
    leg,       \* the leg it is in
    server,    \* [Legs -> the state of the NGINX that leg started]
    pidFile,   \* [adapter -> the leg whose master its pid file names, or 0]
    ticks,     \* [Legs -> CPU time of the server's living processes]
    wrk,       \* the load generator: alive, its threads, a reply lost, its exit status
    errors,    \* reasons for which the current leg is invalid
    expected,  \* the response contract of the first leg, or "none"
    cpuBefore, \* what cpu_seconds() gave before the measured load
    results,   \* the legs recorded
    raised,    \* an exception is on its way out of the leg
    unstopped, \* legs whose stop() found no pid file to signal
    disturbed, \* legs whose server lost a process after it was bound
    faults     \* crashes so far

vars == <<pc, leg, server, pidFile, ticks, wrk, errors, expected, cpuBefore,
          results, raised, unstopped, disturbed, faults>>

Adapter == Plan[leg]
Idle == [alive |-> FALSE, threads |-> 0, lost |-> FALSE, exit |-> 0]
Holding == {l \in Legs : server[l] \in {"launched", "up", "orphaned", "stopping"}}
Serving == {l \in Legs : server[l] \in {"up", "orphaned", "stopping"}}

Init ==
    /\ pc = "render" /\ leg = 1
    /\ server = [l \in Legs |-> "none"]
    /\ pidFile = [a \in ToSet(Engines) |-> 0]
    /\ ticks = [l \in Legs |-> 0]
    /\ wrk = Idle /\ errors = {} /\ expected = "none" /\ cpuBefore = 0
    /\ results = <<>> /\ raised = FALSE
    /\ unstopped = {} /\ disturbed = {} /\ faults = 0

Goto(label) == pc' = label /\ UNCHANGED raised
\* An exception inside the try block: finally stops the server, then it leaves.
Raise == pc' = "stop" /\ raised' = TRUE

world == <<server, pidFile, ticks, unstopped, disturbed, faults>>
record == <<errors, expected, cpuBefore, results>>

-----------------------------------------------------------------------------
(* One leg                                                                 *)

\* render_config and NginxLeg(): no server runs yet, nothing has to be stopped.
Render ==
    /\ pc = "render"
    /\ \/ Goto("preflight")
       \/ pc' = "ended" /\ raised' = TRUE
    /\ UNCHANGED <<leg, wrk, world, record>>

Preflight ==
    /\ pc = "preflight"
    /\ Goto("launch") \/ Raise
    /\ UNCHANGED <<leg, wrk, world, record>>

\* The foreground NGINX binds the port and returns once it is a daemon.
Launch ==
    /\ pc = "launch" /\ Holding = {}
    /\ server' = [server EXCEPT ![leg] = "launched"]
    /\ Goto("workers")
    /\ UNCHANGED <<leg, wrk, record, pidFile, ticks, unstopped, disturbed, faults>>

\* Mutant: check=True dropped.
LaunchIgnored ==
    /\ pc = "launch" /\ Holding # {}
    /\ Goto("workers")
    /\ UNCHANGED <<leg, wrk, world, record>>

\* Its exit status is checked: a port that stays held ends the run.
LaunchFails ==
    /\ pc = "launch" /\ Holding # {}
    /\ Raise
    /\ UNCHANGED <<leg, wrk, world, record>>

\* The master the pid file names has its workers: they are bound, or binding fails.
WorkersBound ==
    /\ pc = "workers" /\ pidFile[Adapter] # 0
    /\ server[pidFile[Adapter]] \in {"up", "stopping"}
    /\ Goto("ready") \/ Raise
    /\ UNCHANGED <<leg, wrk, world, record>>

\* Ten seconds without them, or more children than workers.
WorkersMissing ==
    /\ pc = "workers"
    /\ Raise
    /\ UNCHANGED <<leg, wrk, world, record>>

\* The readiness probe is answered, or it is not for ten seconds.
Ready ==
    /\ pc = "ready"
    /\ (Serving # {} /\ Goto("contract")) \/ Raise
    /\ UNCHANGED <<leg, wrk, world, record>>

\* Every allow request once: statuses must be successes, and status and body
\* those the first leg saw.  A connection error leaves the leg.
ProbeResponses(contract) ==
    /\ pc = "contract" /\ Serving # {}
    /\ expected' = IF expected = "none" THEN contract ELSE expected
    /\ errors' = {e \in {"status", "contract"} :
                    CASE e = "status" -> contract = "blocked"
                      [] e = "contract" -> contract # expected'}
    /\ Goto(IF Fixed THEN "warmup" ELSE "cpuBefore")
    /\ UNCHANGED <<leg, wrk, cpuBefore, results, world>>

ProbeFails ==
    /\ pc = "contract"
    /\ Raise
    /\ UNCHANGED <<leg, wrk, world, record>>

-----------------------------------------------------------------------------
(* run_wrk, for the warm-up ("pinW", "loadW") and the load ("pin", "load")  *)

Spawn ==
    /\ pc \in {"warmup", "measure"}
    /\ wrk' = [Idle EXCEPT !.alive = TRUE]
    /\ Goto(IF pc = "warmup" THEN "pinW" ELSE "pin")
    /\ UNCHANGED <<leg, world, record>>

\* As many threads as expected: each is bound to its CPU and read back.
Pin ==
    /\ pc \in {"pin", "pinW"} /\ wrk.threads = Threads
    /\ Goto(IF pc = "pinW" THEN "loadW" ELSE "load")
    /\ UNCHANGED <<leg, wrk, world, record>>

\* Mutant: no terminate() on the way out.
PinLeavesLoad ==
    /\ pc \in {"pin", "pinW"}
    /\ Raise
    /\ UNCHANGED <<leg, wrk, world, record>>


\* Mutant: no deadline on the poll.
PinWaits ==
    /\ pc \in {"pin", "pinW"} /\ ~wrk.alive
    /\ wrk' = Idle
    /\ Raise
    /\ UNCHANGED <<leg, world, record>>

\* Too many threads, an early exit, five seconds without them, or an affinity
\* that does not take: the generator is terminated and waited for.
PinFails ==
    /\ pc \in {"pin", "pinW"}
    /\ wrk' = Idle
    /\ Raise
    /\ UNCHANGED <<leg, world, record>>

\* communicate() returns: of the warm-up only the exit status is looked at.
WarmupEnds ==
    /\ pc = "loadW" /\ ~wrk.alive
    /\ errors' = errors \cup (IF wrk.exit = 0 THEN {} ELSE {"warmup exit"})
    /\ wrk' = Idle
    /\ Goto("cpuBefore")
    /\ UNCHANGED <<leg, expected, cpuBefore, results, world>>

\* cpu_seconds(): the master of the pid file and its children, nothing when
\* the file is missing or its master is.
CpuSeconds ==
    LET l == pidFile[Adapter] IN
    IF l # 0 /\ server[l] \in {"up", "stopping"} THEN ticks[l] ELSE 0

\* Mutant: taken from a pid file that is not there yet.
CpuBeforeUnread ==
    /\ pc = "cpuBefore"
    /\ cpuBefore' = 0
    /\ Goto("measure")
    /\ UNCHANGED <<leg, wrk, errors, expected, results, world>>

CpuBefore ==
    /\ pc = "cpuBefore"
    /\ cpuBefore' = CpuSeconds
    /\ Goto("measure")
    /\ UNCHANGED <<leg, wrk, errors, expected, results, world>>

\* The measured load ended: parse_wrk on its output, its exit status, the
\* errors met before it, and the CPU time the server took meanwhile.
Record(overload) ==
    /\ pc = "load" /\ ~wrk.alive
    /\ LET bad == errors \cup (IF wrk.exit = 0 THEN {} ELSE {"exit"})
                         \cup (IF wrk.lost THEN {"socket errors"} ELSE {})
                         \cup (IF overload THEN {"non-success"} ELSE {})
           used == CpuSeconds - cpuBefore
       IN results' = Append(results, [engine |-> Adapter, valid |-> bad = {},
                                      cpu |-> IF used > 0 THEN used ELSE 0,
                                      own |-> leg \in Serving,
                                      disturbed |-> leg \in disturbed])
    /\ wrk' = Idle
    /\ Goto("stop")
    /\ UNCHANGED <<leg, errors, expected, cpuBefore, world>>

\* Mutant: stop() left out of the finally clause.
StopForgotten ==
    /\ pc = "stop"
    /\ IF raised \/ leg = Cardinality(Legs)
       THEN pc' = "ended" /\ leg' = leg
       ELSE pc' = "render" /\ leg' = leg + 1
    /\ UNCHANGED <<wrk, record, raised, world>>

\* finally: nginx -s stop signals the master the pid file names, if any.
Stop ==
    /\ pc = "stop"
    /\ LET l == pidFile[Adapter] IN
       /\ server' = IF l # 0 /\ server[l] = "up"
                    THEN [server EXCEPT ![l] = "stopping"] ELSE server
       /\ unstopped' = IF l = 0 THEN unstopped \cup {leg} ELSE unstopped
    /\ IF raised \/ leg = Cardinality(Legs)
       THEN pc' = "ended" /\ leg' = leg
       ELSE pc' = "render" /\ leg' = leg + 1
    /\ UNCHANGED <<wrk, record, raised, pidFile, ticks, disturbed, faults>>

Harness ==
    \/ Render \/ Preflight \/ Launch \/ LaunchFails \/ WorkersBound \/ WorkersMissing
    \/ Ready \/ \E c \in {"allowed", "blocked"} : ProbeResponses(c)
    \/ ProbeFails \/ Spawn \/ Pin \/ PinFails \/ WarmupEnds \/ CpuBefore
    \/ (\E overload \in BOOLEAN : Record(overload)) \/ Stop

-----------------------------------------------------------------------------
(* NGINX and wrk                                                           *)

\* The daemon has written its pid file and forked its workers.
Daemonized(l) ==
    /\ server[l] = "launched"
    /\ server' = [server EXCEPT ![l] = "up"]
    /\ pidFile' = [pidFile EXCEPT ![Plan[l]] = l]
    /\ UNCHANGED <<pc, leg, ticks, wrk, record, raised, unstopped, disturbed, faults>>

Exits(l) ==
    /\ server[l] = "stopping"
    /\ server' = [server EXCEPT ![l] = "gone"]
    /\ pidFile' = [pidFile EXCEPT ![Plan[l]] = IF @ = l THEN 0 ELSE @]
    /\ UNCHANGED <<pc, leg, ticks, wrk, record, raised, unstopped, disturbed, faults>>

\* A connection to the dead worker is a reply lost for a running load.
WorkerDies(l) ==
    /\ server[l] = "up" /\ faults < MaxFaults
    /\ ticks' = [ticks EXCEPT ![l] = 0]
    /\ wrk' = [wrk EXCEPT !.lost = @ \/ (wrk.alive /\ pc \in {"load", "loadW"})]
    /\ disturbed' = disturbed \cup {l} /\ faults' = faults + 1
    /\ UNCHANGED <<pc, leg, server, pidFile, record, raised, unstopped>>

MasterDies(l) ==
    /\ server[l] = "up" /\ faults < MaxFaults
    /\ server' = [server EXCEPT ![l] = "orphaned"]
    /\ disturbed' = disturbed \cup {l} /\ faults' = faults + 1
    /\ UNCHANGED <<pc, leg, pidFile, ticks, wrk, record, raised, unstopped>>

NewThread ==
    /\ wrk.alive /\ wrk.threads < Threads /\ pc \in {"pin", "pinW"}
    /\ wrk' = [wrk EXCEPT !.threads = @ + 1]
    /\ UNCHANGED <<pc, leg, world, record, raised>>

\* The load has run for its duration; serving it took the server CPU time.
LoadEnds ==
    /\ wrk.alive /\ pc \in {"load", "loadW"}
    /\ \E status \in {0, 1} :
          wrk' = [wrk EXCEPT !.alive = FALSE, !.lost = @ \/ Serving = {}, !.exit = status]
    /\ ticks' = [l \in Legs |-> IF l \in Serving THEN ticks[l] + 1 ELSE ticks[l]]
    /\ UNCHANGED <<pc, leg, server, pidFile, record, raised, unstopped, disturbed, faults>>

\* A generator that leaves before it has loaded anything reports a failure.
LoadDies ==
    /\ wrk.alive /\ pc \in {"pin", "pinW"}
    /\ wrk' = [wrk EXCEPT !.alive = FALSE, !.exit = 1]
    /\ UNCHANGED <<pc, leg, world, record, raised>>

Environment ==
    \/ \E l \in Legs : Daemonized(l) \/ Exits(l) \/ WorkerDies(l) \/ MasterDies(l)
    \/ NewThread \/ LoadEnds \/ LoadDies

Next == Harness \/ Environment

\* The script runs on, and wrk ends after the duration it was given; nothing is
\* assumed of NGINX.
Fairness == WF_vars(Harness) /\ WF_vars(LoadEnds)
Spec == Init /\ [][Next]_vars /\ Fairness

-----------------------------------------------------------------------------
(* Properties                                                              *)

\* Every recorded leg was served by the NGINX it started itself, never by a
\* server of an earlier leg that had not left the port yet.
MeasuresItsOwnServer == \A i \in DOMAIN results : results[i].own

\* The CPU time recorded for a valid leg whose server kept its processes is
\* that of the measured load alone: warm-up and other legs are not in it.
CpuIsTheLoads ==
    \A i \in DOMAIN results :
        (results[i].valid /\ ~results[i].disturbed) => results[i].cpu = 1

\* When the run is over, however it ended, no load generator runs.  A master that
\* was not told to stop is that of the last leg, had written no pid file when
\* stop() looked for it, and the run has failed.  The workers of a dead master are
\* beyond stop() and may live on, even after a run that ended well; no leg follows
\* on their port, so they are the last leg's, or those of the leg before it, and
\* then the run has failed.
NothingOutlivesTheRun ==
    pc = "ended" =>
        /\ ~wrk.alive
        /\ \A l \in Legs : server[l] \in {"launched", "up"} => l = leg /\ l \in unstopped /\ raised
        /\ \A l \in Legs : server[l] = "orphaned" => l = leg \/ (l = leg - 1 /\ raised)

\* The run always comes to an end: every wait of the script has a deadline or
\* waits for a load of bounded duration.
RunEnds == <>(pc = "ended")

=============================================================================
