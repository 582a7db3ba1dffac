----------------------------- MODULE HarnessProofs -----------------------------
(***************************************************************************)
(* The benchmark harness, for any adapters, threads, machines and modes,   *)
(* any number of crashes, edits and builds, and any files: a recorded leg  *)
(* was served by the server it started, its CPU time is its load's, and    *)
(* nothing outlives the legs; what is published of the legs rests on       *)
(* enough of them, and the report qualifies what was accepted; a run fails *)
(* closed and measures one library; and the gates over the files it wrote  *)
(* agree with the report that reads them again.                            *)
(***************************************************************************)
EXTENDS MCHarness, FiniteSetTheorems, WellFoundedInduction, TLAPS

-----------------------------------------------------------------------------
(* Legs                                                                     *)

Last     == Repetitions * Len(Engines)
Places   == 1 .. Last
Adapters == {Engines[i] : i \in 1 .. Len(Engines)}
ServerStates == {"none", "launched", "up", "orphaned", "stopping", "gone"}
Beginnings == {"render", "preflight", "launch"}

\* NGINX was launched for the leg; and its workers were seen bound.
Bound   == {"ready", "contract", "warmup", "pinW", "loadW", "cpuBefore", "measure", "pin", "load"}
Running == Bound \cup {"workers"}

Generators == [alive : BOOLEAN, threads : Nat, lost : BOOLEAN, exit : {0, 1}]
Recorded == [engine : Adapters, valid : BOOLEAN, cpu : Nat, own : BOOLEAN, disturbed : BOOLEAN]

LegsTypeOK ==
  /\ pc \in Beginnings \cup Running \cup {"stop", "ended"}
  /\ leg \in Places
  /\ server \in [Places -> ServerStates]
  /\ pidFile \in [Adapters -> Places \cup {0}]
  /\ ticks \in [Places -> Nat]
  /\ wrk \in Generators
  /\ cpuBefore \in Nat
  /\ results \in Seq(Recorded)
  /\ raised \in BOOLEAN
  /\ unstopped \subseteq Places /\ disturbed \subseteq Places

\* One server at most holds the port, and its pid file, once written, is the
\* only one that names a leg.
OneServer ==
  /\ \A l, m \in Legs!Holding : l = m
  /\ \A l \in Legs!Serving : pidFile[Legs!Plan[l]] = l
  /\ \A a \in Adapters : pidFile[a] # 0 =>
       Legs!Plan[pidFile[a]] = a /\ pidFile[a] \in Legs!Serving

\* How far the server of each leg has come.
Order ==
  /\ \A l \in Places : l > leg => server[l] = "none"
  /\ \A l \in Places : l < leg => server[l] \in {"orphaned", "stopping", "gone"}
  /\ pc \in Beginnings => server[leg] = "none"
  /\ pc = "workers" => server[leg] \in {"launched", "up", "orphaned"}
  /\ pc \in Bound \/ (pc = "stop" /\ ~raised) => server[leg] \in {"up", "orphaned"}
  /\ pc \in Bound /\ leg \notin disturbed => server[leg] = "up"
  /\ pc \in Beginnings \cup Running => ~raised

\* Workers whose master died keep the port: the run does not get past the next leg.
Orphans ==
  \A l \in Places : server[l] = "orphaned" =>
    l = leg \/ (l = leg - 1 /\ (pc \in Beginnings \/ raised))

\* The load generator lives in the steps that wait for it only.
GeneratorIsWatched == wrk.alive => pc \in {"pinW", "loadW", "pin", "load"}

\* The CPU time of a server that kept its processes, since cpu_seconds() was
\* first asked.
CpuIsFollowed ==
  leg \notin disturbed =>
    /\ pc = "measure" => ticks[leg] = cpuBefore
    /\ pc = "pin" => ticks[leg] = cpuBefore /\ (wrk.alive \/ wrk.exit = 1)
    /\ pc = "load" /\ wrk.alive => ticks[leg] = cpuBefore
    /\ pc = "load" /\ ~wrk.alive => wrk.exit = 1 \/ ticks[leg] = cpuBefore + 1

LegsInv ==
  /\ LegsTypeOK /\ OneServer /\ Order /\ Orphans /\ GeneratorIsWatched /\ CpuIsFollowed
  /\ Legs!MeasuresItsOwnServer /\ Legs!CpuIsTheLoads /\ Legs!NothingOutlivesTheRun

-----------------------------------------------------------------------------
\* The legs are numbered from one, and there is at least one.
LEMMA LegNumbers ==
  Last \in Nat \ {0} /\ Legs!Legs = Places /\ Legs!Cardinality(Legs!Legs) = Last
<1>1. Engines \in Seq(STRING) /\ Engines # <<>> /\ Repetitions \in Nat \ {0}
  BY LegsConstants DEF Legs!LegsAssumption
<1>2. Len(Engines) \in Nat \ {0}
  BY <1>1
<1>3. Last \in Nat \ {0}
  BY <1>1, <1>2 DEF Last
<1>4. Legs!Legs = Places
  BY DEF Legs!Legs, Places, Last
<1>5. Cardinality(Legs!Legs) = Last
  BY <1>3, <1>4, FS_Interval DEF Places
<1>6. Legs!Cardinality(Legs!Legs) = Cardinality(Legs!Legs)
  BY DEF Legs!Cardinality, Cardinality
<1> QED
  BY <1>3, <1>4, <1>5, <1>6

\* The rotation of the adapters stays within their list.
LEMMA PlanIsOfAdapters ==
  Adapters = Legs!ToSet(Engines) /\ \A l \in Places : Legs!Plan[l] \in Adapters
<1>1. Engines \in Seq(STRING) /\ Len(Engines) \in Nat \ {0}
  BY LegsConstants DEF Legs!LegsAssumption
<1>2. \A x \in Int : (x % Len(Engines)) + 1 \in 1 .. Len(Engines)
  BY <1>1
<1>3. \A r, i \in Int : Legs!RotatedOrder(r, i) \in Adapters
  <2> TAKE r, i \in Int
  <2> DEFINE place == IF (r \div Len(Engines)) % 2 = 1 THEN Len(Engines) + 1 - i ELSE i
  <2>1. place \in Int
    BY <1>1
  <2>2. Legs!RotatedOrder(r, i) = Engines[((r + place - 1) % Len(Engines)) + 1]
    BY DEF Legs!RotatedOrder
  <2> HIDE DEF place
  <2>3. r + place - 1 \in Int
    BY <2>1
  <2> QED
    BY <2>2, <2>3, <1>2 DEF Adapters
<1>4. \A l \in Places : Legs!Plan[l] \in Adapters
  <2> TAKE l \in Places
  <2>1. l - 1 \in Int /\ l \in Legs!Legs
    BY LegNumbers DEF Places
  <2>2. (l - 1) \div Len(Engines) \in Int /\ ((l - 1) % Len(Engines)) + 1 \in Int
    BY <2>1, <1>1
  <2> QED
    BY <2>1, <2>2, <1>3 DEF Legs!Plan
<1> QED
  BY <1>1, <1>4 DEF Adapters, Legs!ToSet
-----------------------------------------------------------------------------
(* A run of the legs alone: Legs!Init and Legs!Next, whatever the other parts *)
(* of MCHarness do.                                                         *)

LEMMA LegsInitially == Legs!Init => LegsInv
<1> SUFFICES ASSUME Legs!Init PROVE LegsInv
  OBVIOUS
<1> USE LegNumbers, PlanIsOfAdapters DEF Legs!Init, Legs!Idle
<1>1. leg \in Places /\ Places \subseteq Int
  BY DEF Places
<1>2. wrk \in Generators /\ results \in Seq(Recorded)
  BY DEF Generators
<1>3. server \in [Places -> ServerStates] /\ pidFile \in [Adapters -> Places \cup {0}]
  BY DEF ServerStates
<1>4. LegsTypeOK
  BY <1>1, <1>2, <1>3 DEF LegsTypeOK, Beginnings
<1>5. OneServer
  BY DEF OneServer, Legs!Holding, Legs!Serving
<1>6. Order
  BY <1>1 DEF Order, Beginnings, Running, Bound, Places
<1> QED
  BY <1>4, <1>5, <1>6 DEF LegsInv, Orphans, GeneratorIsWatched, CpuIsFollowed,
     Legs!MeasuresItsOwnServer, Legs!CpuIsTheLoads, Legs!NothingOutlivesTheRun

\* The type invariant is preserved.
LEMMA LegsTypeStep == LegsTypeOK /\ [Legs!Next]_(Legs!vars) => LegsTypeOK'
<1> SUFFICES ASSUME LegsTypeOK, [Legs!Next]_(Legs!vars) PROVE LegsTypeOK'
  OBVIOUS
<1> USE LegNumbers, PlanIsOfAdapters
    DEF LegsTypeOK, Legs!Goto, Legs!Raise, Legs!world, Legs!record
<1>0. Places \subseteq Nat \ {0} /\ (leg # Last => leg + 1 \in Places)
  BY DEF Places
<1>a. Legs!Adapter \in Adapters /\ Legs!CpuSeconds \in Nat
  BY <1>0 DEF Legs!Adapter, Legs!CpuSeconds
<1>b. Legs!Idle \in Generators
  BY DEF Legs!Idle, Generators
<1> USE DEF Beginnings, Running, Bound
<1>1. CASE Legs!Render \/ Legs!Preflight
  BY <1>1 DEF Legs!Render, Legs!Preflight
<1>2. CASE Legs!Launch \/ Legs!LaunchFails
  BY <1>2 DEF Legs!Launch, Legs!LaunchFails, ServerStates
<1>3. CASE Legs!WorkersBound \/ Legs!WorkersMissing \/ Legs!Ready
  BY <1>3 DEF Legs!WorkersBound, Legs!WorkersMissing, Legs!Ready
<1>4. CASE (\E c \in {"allowed", "blocked"} : Legs!ProbeResponses(c)) \/ Legs!ProbeFails
  BY <1>4 DEF Legs!ProbeResponses, Legs!ProbeFails
<1>5. CASE Legs!Spawn \/ Legs!Pin \/ Legs!PinFails
  <2>1. wrk' \in Generators
    BY <1>5, <1>b DEF Legs!Spawn, Legs!Pin, Legs!PinFails, Generators
  <2> QED
    BY <1>5, <2>1 DEF Legs!Spawn, Legs!Pin, Legs!PinFails
<1>6. CASE Legs!WarmupEnds \/ Legs!CpuBefore
  BY <1>6, <1>a, <1>b DEF Legs!WarmupEnds, Legs!CpuBefore
<1>7. ASSUME NEW overload \in BOOLEAN, Legs!Record(overload) PROVE LegsTypeOK'
  <2> DEFINE spent == Legs!CpuSeconds - cpuBefore
             bad == errors \cup (IF wrk.exit = 0 THEN {} ELSE {"exit"})
                           \cup (IF wrk.lost THEN {"socket errors"} ELSE {})
                           \cup (IF overload THEN {"non-success"} ELSE {})
             entry == [engine |-> Legs!Adapter, valid |-> bad = {},
                       cpu |-> IF spent > 0 THEN spent ELSE 0,
                       own |-> leg \in Legs!Serving, disturbed |-> leg \in disturbed]
  <2>2. results' = Append(results, entry)
    BY <1>7 DEF Legs!Record
  <2>3. spent \in Int
    BY <1>a
  <2>4. entry \in Recorded
    <3> HIDE DEF spent, bad
    <3>1. (IF spent > 0 THEN spent ELSE 0) \in Nat
      BY <2>3
    <3>2. (bad = {}) \in BOOLEAN /\ (leg \in Legs!Serving) \in BOOLEAN
          /\ (leg \in disturbed) \in BOOLEAN
      OBVIOUS
    <3> QED
      BY <1>a, <3>1, <3>2 DEF Recorded
  <2>1. results' \in Seq(Recorded)
    <3> HIDE DEF entry
    <3> QED
      BY <2>2, <2>4
  <2> QED
    BY <1>7, <1>b, <2>1 DEF Legs!Record
<1>8. CASE Legs!Stop
  <2>1. pidFile[Legs!Adapter] \in Places \cup {0}
    BY <1>a
  <2>2. server' \in [Places -> ServerStates] /\ unstopped' \subseteq Places
    BY <1>8, <2>1 DEF Legs!Stop, ServerStates
  <2>3. leg' \in Places /\ pc' \in {"ended", "render"}
    <3>1. \/ pc' = "ended" /\ leg' = leg
          \/ ~raised /\ leg # Last /\ pc' = "render" /\ leg' = leg + 1
      BY <1>8, Zenon DEF Legs!Stop
    <3> QED
      BY <1>0, <3>1
  <2> QED
    BY <1>8, <2>2, <2>3 DEF Legs!Stop
<1>9. ASSUME NEW l \in Places, Legs!Daemonized(l) \/ Legs!Exits(l) PROVE LegsTypeOK'
  <2>1. server' \in [Places -> ServerStates]
    BY <1>9 DEF Legs!Daemonized, Legs!Exits, ServerStates
  <2>2. pidFile' \in [Adapters -> Places \cup {0}]
    BY <1>9 DEF Legs!Daemonized, Legs!Exits
  <2> QED
    BY <1>9, <2>1, <2>2 DEF Legs!Daemonized, Legs!Exits
<1>10. ASSUME NEW l \in Places, Legs!WorkerDies(l) \/ Legs!MasterDies(l) PROVE LegsTypeOK'
  <2>1. server' \in [Places -> ServerStates] /\ ticks' \in [Places -> Nat]
    BY <1>10 DEF Legs!WorkerDies, Legs!MasterDies, ServerStates
  <2>2. wrk' \in Generators
    BY <1>10 DEF Legs!WorkerDies, Legs!MasterDies, Generators
  <2> QED
    BY <1>10, <2>1, <2>2 DEF Legs!WorkerDies, Legs!MasterDies
<1>11. CASE Legs!NewThread \/ Legs!LoadDies
  <2>1. wrk' \in Generators
    <3>1. wrk.threads + 1 \in Nat
      BY DEF Generators
    <3> QED
      BY <1>11, <3>1 DEF Legs!NewThread, Legs!LoadDies, Generators
  <2> QED
    BY <1>11, <2>1 DEF Legs!NewThread, Legs!LoadDies
<1>12. CASE Legs!LoadEnds
  <2>1. wrk' \in Generators
    BY <1>12 DEF Legs!LoadEnds, Generators
  <2>2. ticks' \in [Places -> Nat]
    BY <1>12 DEF Legs!LoadEnds
  <2> QED
    BY <1>12, <2>1, <2>2 DEF Legs!LoadEnds
<1>13. CASE UNCHANGED Legs!vars
  BY <1>13 DEF Legs!vars
<1> QED
  BY <1>1, <1>2, <1>3, <1>4, <1>5, <1>6, <1>7, <1>8, <1>9, <1>10, <1>11, <1>12, <1>13
     DEF Legs!Next, Legs!Harness, Legs!Environment
-----------------------------------------------------------------------------
\* A server changes hands in a few steps only: in the others it stays as it is.
KeepsServers == UNCHANGED <<server, pidFile, unstopped>>

LEMMA ServerSteps ==
  [Legs!Next]_(Legs!vars) =>
    \/ KeepsServers \/ Legs!Launch \/ Legs!Stop
    \/ \E l \in Places : Legs!Daemonized(l) \/ Legs!Exits(l) \/ Legs!MasterDies(l)
<1> SUFFICES ASSUME [Legs!Next]_(Legs!vars)
             PROVE \/ KeepsServers \/ Legs!Launch \/ Legs!Stop
                   \/ \E l \in Places : Legs!Daemonized(l) \/ Legs!Exits(l) \/ Legs!MasterDies(l)
  OBVIOUS
<1>1. CASE Legs!Harness
  BY <1>1 DEF Legs!Harness, KeepsServers, Legs!Render, Legs!Preflight, Legs!LaunchFails,
     Legs!WorkersBound, Legs!WorkersMissing, Legs!Ready, Legs!ProbeResponses,
     Legs!ProbeFails, Legs!Spawn, Legs!Pin, Legs!PinFails, Legs!WarmupEnds,
     Legs!CpuBefore, Legs!Record, Legs!world
<1>2. CASE Legs!Environment
  BY <1>2, LegNumbers DEF Legs!Environment, KeepsServers, Legs!WorkerDies,
     Legs!NewThread, Legs!LoadEnds, Legs!LoadDies, Legs!world
<1> QED
  BY <1>1, <1>2 DEF Legs!Next, Legs!vars, KeepsServers

\* One server at most holds the port: a launch needs it free.
LEMMA OneServerStep == LegsInv /\ [Legs!Next]_(Legs!vars) => OneServer'
<1> SUFFICES ASSUME LegsInv, [Legs!Next]_(Legs!vars) PROVE OneServer'
  OBVIOUS
<1> USE LegNumbers, PlanIsOfAdapters DEF LegsInv, OneServer, Legs!Holding, Legs!Serving
<1>1. CASE KeepsServers
  BY <1>1 DEF KeepsServers
<1>2. CASE Legs!Launch
  BY <1>2 DEF Legs!Launch, LegsTypeOK
<1>3. CASE Legs!Stop
  <2>1. Legs!Adapter \in Adapters
    BY DEF Legs!Adapter, LegsTypeOK
  <2> QED
    BY <1>3, <2>1 DEF Legs!Stop, LegsTypeOK
<1>4. ASSUME NEW l \in Places, Legs!Daemonized(l) PROVE OneServer'
  BY <1>4 DEF Legs!Daemonized, LegsTypeOK
<1>5. ASSUME NEW l \in Places, Legs!Exits(l) PROVE OneServer'
  BY <1>5 DEF Legs!Exits, LegsTypeOK
<1>6. ASSUME NEW l \in Places, Legs!MasterDies(l) PROVE OneServer'
  BY <1>6 DEF Legs!MasterDies, LegsTypeOK
<1> QED
  BY <1>1, <1>2, <1>3, <1>4, <1>5, <1>6, ServerSteps
\* A pid file that names a leg whose server has not left names the only server.
LEMMA PidFileNamesTheServer ==
  ASSUME LegsInv, NEW l \in Places
  PROVE  /\ server[l] \in {"up", "stopping", "orphaned"} => pidFile[Legs!Plan[l]] = l
         /\ server[l] = "launched" => \A a \in Adapters : pidFile[a] = 0
BY LegNumbers, PlanIsOfAdapters
   DEF LegsInv, OneServer, LegsTypeOK, Legs!Holding, Legs!Serving

\* The servers of earlier legs have been told to stop or lost their master, those
\* of later legs do not exist, and the script goes on with a server of its own.
LEMMA OrderStep == LegsInv /\ [Legs!Next]_(Legs!vars) => Order'
<1> SUFFICES ASSUME LegsInv, [Legs!Next]_(Legs!vars) PROVE Order'
  OBVIOUS
<1> USE LegNumbers DEF LegsInv, Legs!Goto, Legs!Raise, Legs!world
<1>0. leg \in Places /\ Places \subseteq Nat /\ Legs!Adapter \in Adapters
  BY PlanIsOfAdapters DEF LegsTypeOK, Places, Legs!Adapter
<1> DEFINE Abandons == pc' \in {"stop", "ended"} /\ raised'
           Continues ==
             /\ raised' = raised
             /\ \/ pc \in Beginnings /\ pc' \in Beginnings
                \/ pc \in Bound /\ pc' \in Bound \cup {"stop"}
<1>a. ASSUME UNCHANGED <<server, leg, disturbed>>, Abandons \/ Continues PROVE Order'
  BY <1>a DEF Order, Beginnings, Running, Bound
<1>1. CASE \/ Legs!Render \/ Legs!Preflight \/ Legs!LaunchFails \/ Legs!WorkersMissing
           \/ Legs!Ready \/ (\E c \in {"allowed", "blocked"} : Legs!ProbeResponses(c))
           \/ Legs!ProbeFails
  <2>1. UNCHANGED <<server, leg, disturbed>>
    BY <1>1 DEF Legs!Render, Legs!Preflight,
       Legs!LaunchFails, Legs!WorkersMissing, Legs!Ready, Legs!ProbeResponses, Legs!ProbeFails
  <2>2. Abandons \/ Continues
    BY <1>1 DEF Beginnings, Bound, Legs!Render, Legs!Preflight,
       Legs!LaunchFails, Legs!WorkersMissing, Legs!Ready, Legs!ProbeResponses, Legs!ProbeFails
  <2> QED
    BY <2>1, <2>2, <1>a
<1>2. CASE \/ Legs!Spawn \/ Legs!Pin \/ Legs!PinFails \/ Legs!WarmupEnds \/ Legs!CpuBefore
           \/ (\E overload \in BOOLEAN : Legs!Record(overload))
  <2>1. UNCHANGED <<server, leg, disturbed>>
    BY <1>2 DEF Legs!Spawn, Legs!Pin, Legs!PinFails,
       Legs!WarmupEnds, Legs!CpuBefore, Legs!Record
  <2>2. Abandons \/ Continues
    BY <1>2 DEF Bound, Legs!Spawn, Legs!Pin, Legs!PinFails,
       Legs!WarmupEnds, Legs!CpuBefore, Legs!Record
  <2> QED
    BY <2>1, <2>2, <1>a
<1>3. CASE Legs!Launch
  BY <1>3, <1>0 DEF Legs!Launch, Order, LegsTypeOK, Beginnings, Running, Bound
<1>4. CASE Legs!WorkersBound
  <2>1. pidFile[Legs!Adapter] = leg /\ server[leg] = "up"
    BY <1>4, <1>0, PidFileNamesTheServer
       DEF Legs!WorkersBound, Order, OneServer, Legs!Holding, Legs!Adapter, LegsTypeOK
  <2> QED
    BY <1>4, <2>1 DEF Legs!WorkersBound, Order, Beginnings, Running, Bound
<1>5. CASE Legs!Stop
  <2>1. \/ pc' = "ended" /\ leg' = leg
        \/ ~raised /\ leg # Last /\ pc' = "render" /\ leg' = leg + 1
    BY <1>5, Zenon DEF Legs!Stop
  <2>2. CASE pc' = "ended" /\ leg' = leg
    BY <1>5, <1>0, <2>2 DEF Legs!Stop, Order, LegsTypeOK, Beginnings, Running, Bound
  <2>3. CASE ~raised /\ leg # Last /\ pc' = "render" /\ leg' = leg + 1
    <3>1. leg + 1 \in Places
      BY <1>0, <2>3 DEF Places
    <3>2. server'[leg] \in {"orphaned", "stopping", "gone"}
      <4>1. server[leg] \in {"up", "orphaned"}
        BY <1>5, <2>3 DEF Legs!Stop, Order
      <4>2. CASE server[leg] = "up"
        <5>1. pidFile[Legs!Adapter] = leg /\ leg # 0
          BY <1>0, <4>2, PidFileNamesTheServer DEF Legs!Adapter, Places
        <5> QED
          BY <1>5, <1>0, <4>2, <5>1 DEF Legs!Stop, LegsTypeOK
      <4>3. CASE server[leg] = "orphaned"
        BY <1>5, <1>0, <4>3 DEF Legs!Stop, LegsTypeOK
      <4> QED
        BY <4>1, <4>2, <4>3
    <3>3. \A l \in Places : server[l] # "up" => server'[l] = server[l]
      BY <1>5, <1>0 DEF Legs!Stop, LegsTypeOK
    <3>4. \A l \in Places : l > leg => server'[l] = "none"
      BY <3>3, <1>0 DEF Order
    <3>5. \A l \in Places : l < leg => server'[l] \in {"orphaned", "stopping", "gone"}
      BY <3>3, <1>0 DEF Order
    <3>6. raised' = raised
      BY <1>5 DEF Legs!Stop
    <3> QED
      BY <1>0, <2>3, <3>1, <3>2, <3>4, <3>5, <3>6 DEF Order, Beginnings, Running, Bound
  <2> QED
    BY <2>1, <2>2, <2>3
<1>6. ASSUME NEW l \in Places, Legs!Daemonized(l) PROVE Order'
  <2>1. l = leg
    BY <1>6, <1>0 DEF Legs!Daemonized, Order
  <2>2. \A m \in Places : m # leg => server'[m] = server[m]
    BY <1>6, <2>1 DEF Legs!Daemonized, LegsTypeOK
  <2>3. pc \notin Beginnings /\ server'[leg] = "up" /\ UNCHANGED <<pc, leg, disturbed, raised>>
    BY <1>6, <1>0, <2>1 DEF Legs!Daemonized, Order, LegsTypeOK
  <2> QED
    BY <1>0, <2>2, <2>3 DEF Order
<1>7. ASSUME NEW l \in Places, Legs!Exits(l) PROVE Order'
  BY <1>7, <1>0 DEF Legs!Exits, Order, LegsTypeOK
<1>8. ASSUME NEW l \in Places, Legs!WorkerDies(l) \/ Legs!MasterDies(l) PROVE Order'
  <2>1. server[l] = "up" /\ disturbed' = disturbed \cup {l} /\ UNCHANGED <<pc, leg, raised>>
    BY <1>8 DEF Legs!WorkerDies, Legs!MasterDies
  <2>2. /\ \A m \in Places : m # l => server'[m] = server[m]
        /\ server'[l] \in {"up", "orphaned"}
    BY <1>8 DEF Legs!WorkerDies, Legs!MasterDies, LegsTypeOK
  <2>3. l = leg
    BY <2>1, <1>0 DEF Order
  <2> QED
    BY <1>0, <2>1, <2>2, <2>3 DEF Order
<1>9. CASE Legs!NewThread \/ Legs!LoadEnds \/ Legs!LoadDies \/ UNCHANGED Legs!vars
  BY <1>9 DEF Legs!NewThread, Legs!LoadEnds, Legs!LoadDies, Legs!vars, Order
<1> QED
  BY <1>1, <1>2, <1>3, <1>4, <1>5, <1>6, <1>7, <1>8, <1>9
     DEF Legs!Next, Legs!Harness, Legs!Environment
\* A launch needs the port free, so a step past the launch leaves no orphan behind.
LEMMA OrphansStep == LegsInv /\ [Legs!Next]_(Legs!vars) => Orphans'
<1> SUFFICES ASSUME LegsInv, [Legs!Next]_(Legs!vars) PROVE Orphans'
  OBVIOUS
<1> USE LegNumbers DEF LegsInv, Legs!Goto, Legs!Raise, Legs!world
<1>0. leg \in Places /\ Places \subseteq Nat /\ Legs!Adapter \in Adapters
  BY PlanIsOfAdapters DEF LegsTypeOK, Places, Legs!Adapter
<1>a. ASSUME UNCHANGED <<server, leg>>, raised' \/ (pc \in Beginnings /\ pc' \in Beginnings)
                                        \/ (pc \notin Beginnings /\ raised' = raised)
      PROVE  Orphans'
  BY <1>a DEF Orphans
<1>1. CASE \/ Legs!Render \/ Legs!Preflight \/ Legs!LaunchFails
           \/ Legs!WorkersBound \/ Legs!WorkersMissing \/ Legs!Ready
           \/ (\E c \in {"allowed", "blocked"} : Legs!ProbeResponses(c)) \/ Legs!ProbeFails
  <2>1. UNCHANGED <<server, leg>>
    BY <1>1 DEF Legs!Render, Legs!Preflight, Legs!WorkersBound,
       Legs!LaunchFails, Legs!WorkersMissing, Legs!Ready, Legs!ProbeResponses, Legs!ProbeFails
  <2>2. raised' \/ (pc \in Beginnings /\ pc' \in Beginnings)
                \/ (pc \notin Beginnings /\ raised' = raised)
    BY <1>1 DEF Beginnings, Legs!Render, Legs!Preflight, Legs!WorkersBound,
       Legs!LaunchFails, Legs!WorkersMissing, Legs!Ready, Legs!ProbeResponses, Legs!ProbeFails
  <2> QED
    BY <2>1, <2>2, <1>a
<1>2. CASE \/ Legs!Spawn \/ Legs!Pin \/ Legs!PinFails \/ Legs!WarmupEnds \/ Legs!CpuBefore
           \/ (\E overload \in BOOLEAN : Legs!Record(overload))
  <2>1. UNCHANGED <<server, leg>>
    BY <1>2 DEF Legs!Spawn, Legs!Pin, Legs!PinFails,
       Legs!WarmupEnds, Legs!CpuBefore, Legs!Record
  <2>2. raised' \/ (pc \notin Beginnings /\ raised' = raised)
    BY <1>2 DEF Beginnings, Legs!Spawn, Legs!Pin, Legs!PinFails,
       Legs!WarmupEnds, Legs!CpuBefore, Legs!Record
  <2> QED
    BY <2>1, <2>2, <1>a
<1>3. CASE Legs!Launch
  BY <1>3, <1>0 DEF Legs!Launch, Legs!Holding, Orphans, LegsTypeOK
<1>4. CASE Legs!Stop
  <2>1. \A l \in Places : server'[l] = "orphaned" => server[l] = "orphaned"
    BY <1>4, <1>0 DEF Legs!Stop, LegsTypeOK
  <2>2. pc = "stop" /\ raised' = raised
        /\ (leg' = leg \/ (~raised /\ pc' = "render" /\ leg' = leg + 1))
    BY <1>4, Zenon DEF Legs!Stop
  <2>3. CASE leg' = leg
    BY <2>1, <2>2, <2>3 DEF Orphans, Beginnings
  <2>4. CASE ~raised /\ pc' = "render" /\ leg' = leg + 1
    <3>1. \A l \in Places : server'[l] = "orphaned" => l = leg
      BY <2>1, <2>2, <2>4 DEF Orphans, Beginnings
    <3> QED
      BY <1>0, <2>4, <3>1 DEF Orphans, Beginnings
  <2> QED
    BY <2>2, <2>3, <2>4
<1>5. ASSUME NEW l \in Places,
             Legs!Daemonized(l) \/ Legs!Exits(l) \/ Legs!WorkerDies(l) \/ Legs!MasterDies(l)
      PROVE  Orphans'
  <2>1. UNCHANGED <<pc, leg, raised>>
        /\ \A m \in Places : server'[m] = "orphaned" =>
             server[m] = "orphaned" \/ (m = l /\ server[l] = "up")
    BY <1>5 DEF Legs!Daemonized, Legs!Exits, Legs!WorkerDies, Legs!MasterDies, LegsTypeOK
  <2>2. server[l] = "up" => l = leg
    BY <1>0 DEF Order
  <2> QED
    BY <2>1, <2>2 DEF Orphans
<1>6. CASE Legs!NewThread \/ Legs!LoadEnds \/ Legs!LoadDies \/ UNCHANGED Legs!vars
  BY <1>6 DEF Legs!NewThread, Legs!LoadEnds, Legs!LoadDies, Legs!vars, Orphans
<1> QED
  BY <1>1, <1>2, <1>3, <1>4, <1>5, <1>6
     DEF Legs!Next, Legs!Harness, Legs!Environment
\* The generator is waited for: it has ended, or is ended, when the script goes on;
\* and the time it took the server is all that cpu_seconds() sees meanwhile.
LEMMA LoadStep ==
  LegsInv /\ [Legs!Next]_(Legs!vars) => GeneratorIsWatched' /\ CpuIsFollowed'
<1> SUFFICES ASSUME LegsInv, [Legs!Next]_(Legs!vars)
             PROVE GeneratorIsWatched' /\ CpuIsFollowed'
  OBVIOUS
<1> USE LegNumbers DEF LegsInv, Legs!Goto, Legs!Raise, Legs!world, Legs!record
<1>0. leg \in Places /\ Places \subseteq Nat \ {0}
  BY DEF LegsTypeOK, Places
<1>1. CASE \/ Legs!Render \/ Legs!Preflight \/ Legs!Launch \/ Legs!LaunchFails
           \/ Legs!WorkersBound \/ Legs!WorkersMissing \/ Legs!Ready
           \/ (\E c \in {"allowed", "blocked"} : Legs!ProbeResponses(c)) \/ Legs!ProbeFails
  BY <1>1 DEF GeneratorIsWatched, CpuIsFollowed, Legs!Render, Legs!Preflight,
     Legs!Launch, Legs!LaunchFails, Legs!WorkersBound, Legs!WorkersMissing, Legs!Ready,
     Legs!ProbeResponses, Legs!ProbeFails
<1>2. CASE Legs!Spawn \/ Legs!Pin
  BY <1>2 DEF GeneratorIsWatched, CpuIsFollowed, Legs!Spawn, Legs!Pin, Legs!Idle
<1>3. CASE \/ Legs!PinFails \/ Legs!WarmupEnds
           \/ (\E overload \in BOOLEAN : Legs!Record(overload))
  <2>1. wrk' = Legs!Idle /\ pc' \in {"stop", "cpuBefore"}
    BY <1>3 DEF Legs!PinFails, Legs!WarmupEnds, Legs!Record
  <2> QED
    BY <2>1 DEF GeneratorIsWatched, CpuIsFollowed, Legs!Idle
<1>4. CASE Legs!CpuBefore
  <2>1. leg \notin disturbed => server[leg] = "up" /\ pidFile[Legs!Adapter] = leg
    BY <1>4, <1>0, PidFileNamesTheServer DEF Legs!CpuBefore, Order, Bound, Legs!Adapter
  <2>2. leg \notin disturbed => Legs!CpuSeconds = ticks[leg]
    BY <2>1, <1>0 DEF Legs!CpuSeconds
  <2> QED
    BY <1>4, <2>2 DEF Legs!CpuBefore, GeneratorIsWatched, CpuIsFollowed
<1>5. CASE Legs!Stop
  BY <1>5 DEF Legs!Stop, GeneratorIsWatched, CpuIsFollowed
<1>6. ASSUME NEW l \in Places, Legs!Daemonized(l) \/ Legs!Exits(l) \/ Legs!MasterDies(l)
      PROVE GeneratorIsWatched' /\ CpuIsFollowed'
  BY <1>6 DEF Legs!Daemonized, Legs!Exits, Legs!MasterDies, GeneratorIsWatched, CpuIsFollowed
<1>7. ASSUME NEW l \in Places, Legs!WorkerDies(l)
      PROVE GeneratorIsWatched' /\ CpuIsFollowed'
  <2>1. wrk'.alive = wrk.alive /\ wrk'.exit = wrk.exit
    BY <1>7 DEF Legs!WorkerDies, LegsTypeOK, Generators
  <2>2. leg \notin disturbed' => leg \notin disturbed /\ ticks'[leg] = ticks[leg]
    BY <1>7, <1>0 DEF Legs!WorkerDies, LegsTypeOK
  <2> QED
    BY <1>7, <2>1, <2>2 DEF Legs!WorkerDies, GeneratorIsWatched, CpuIsFollowed
<1>8. CASE Legs!NewThread \/ Legs!LoadDies
  BY <1>8 DEF Legs!NewThread, Legs!LoadDies, LegsTypeOK, Generators, GeneratorIsWatched,
     CpuIsFollowed
<1>9. CASE Legs!LoadEnds
  <2>1. pc = "load" /\ leg \notin disturbed => ticks[leg] = cpuBefore /\ leg \in Legs!Serving
    BY <1>9, <1>0 DEF Legs!LoadEnds, CpuIsFollowed, Order, Bound, Legs!Serving
  <2>2. pc = "load" /\ leg \notin disturbed => ticks'[leg] = cpuBefore + 1
    BY <1>9, <1>0, <2>1 DEF Legs!LoadEnds
  <2>3. ~wrk'.alive /\ pc \in {"load", "loadW"}
    BY <1>9 DEF Legs!LoadEnds, LegsTypeOK, Generators
  <2> QED
    BY <1>9, <2>2, <2>3 DEF Legs!LoadEnds, GeneratorIsWatched, CpuIsFollowed
<1>10. CASE UNCHANGED Legs!vars
  BY <1>10 DEF Legs!vars, GeneratorIsWatched, CpuIsFollowed
<1> QED
  BY <1>1, <1>2, <1>3, <1>4, <1>5, <1>6, <1>7, <1>8, <1>9, <1>10
     DEF Legs!Next, Legs!Harness, Legs!Environment

\* What is recorded is recorded once and for all, when the load of the leg has ended.
LEMMA RecordedStep ==
  LegsInv /\ [Legs!Next]_(Legs!vars) => Legs!MeasuresItsOwnServer' /\ Legs!CpuIsTheLoads'
<1> SUFFICES ASSUME LegsInv, [Legs!Next]_(Legs!vars)
             PROVE Legs!MeasuresItsOwnServer' /\ Legs!CpuIsTheLoads'
  OBVIOUS
<1> USE LegNumbers DEF LegsInv, Legs!Goto, Legs!Raise, Legs!world, Legs!record
<1>1. ASSUME UNCHANGED results PROVE Legs!MeasuresItsOwnServer' /\ Legs!CpuIsTheLoads'
  BY <1>1 DEF Legs!MeasuresItsOwnServer, Legs!CpuIsTheLoads
<1>2. ASSUME NEW overload \in BOOLEAN, Legs!Record(overload)
      PROVE Legs!MeasuresItsOwnServer' /\ Legs!CpuIsTheLoads'
  <2> DEFINE spent == Legs!CpuSeconds - cpuBefore
             bad == errors \cup (IF wrk.exit = 0 THEN {} ELSE {"exit"})
                           \cup (IF wrk.lost THEN {"socket errors"} ELSE {})
                           \cup (IF overload THEN {"non-success"} ELSE {})
             entry == [engine |-> Legs!Adapter, valid |-> bad = {},
                       cpu |-> IF spent > 0 THEN spent ELSE 0,
                       own |-> leg \in Legs!Serving, disturbed |-> leg \in disturbed]
  <2>0. leg \in Places /\ Places \subseteq Nat \ {0} /\ cpuBefore \in Nat
    BY DEF LegsTypeOK, Places
  <2>1. results' = Append(results, entry)
    BY <1>2 DEF Legs!Record
  <2>a. pc = "load" /\ ~wrk.alive
    BY <1>2 DEF Legs!Record
  <2>2. server[leg] \in {"up", "orphaned"} /\ (leg \notin disturbed => server[leg] = "up")
    BY <2>a DEF Order, Bound
  <2>3. entry.own
    BY <2>0, <2>2 DEF Legs!Serving
  <2>4. entry.valid /\ ~entry.disturbed => entry.cpu = 1
    <3>1. bad = {} => wrk.exit = 0
      OBVIOUS
    <3>2. ASSUME wrk.exit = 0, leg \notin disturbed PROVE spent = 1
      <4>1. ticks[leg] = cpuBefore + 1
        BY <3>2, <2>a DEF CpuIsFollowed
      <4>2. pidFile[Legs!Adapter] = leg
        BY <2>0, <2>2, <3>2, PidFileNamesTheServer DEF Legs!Adapter
      <4>3. Legs!CpuSeconds = ticks[leg]
        BY <2>0, <2>2, <3>2, <4>2 DEF Legs!CpuSeconds
      <4> QED
        BY <2>0, <4>1, <4>3
    <3> HIDE DEF bad, spent
    <3> QED
      BY <3>1, <3>2
  <2>5. results \in Seq(Recorded)
    BY DEF LegsTypeOK
  <2> HIDE DEF entry
  <2>6. /\ DOMAIN results' = DOMAIN results \cup {Len(results) + 1}
        /\ \A i \in DOMAIN results : results'[i] = results[i]
        /\ results'[Len(results) + 1] = entry
    BY <2>1, <2>5
  <2> QED
    BY <2>3, <2>4, <2>6 DEF Legs!MeasuresItsOwnServer, Legs!CpuIsTheLoads
<1>3. Legs!Harness => UNCHANGED results \/ \E overload \in BOOLEAN : Legs!Record(overload)
  BY DEF Legs!Harness, Legs!Render, Legs!Preflight, Legs!Launch, Legs!LaunchFails,
     Legs!WorkersBound, Legs!WorkersMissing, Legs!Ready, Legs!ProbeResponses,
     Legs!ProbeFails, Legs!Spawn, Legs!Pin, Legs!PinFails, Legs!WarmupEnds,
     Legs!CpuBefore, Legs!Stop
<1>4. Legs!Environment => UNCHANGED results
  BY DEF Legs!Environment, Legs!Daemonized, Legs!Exits, Legs!WorkerDies,
     Legs!MasterDies, Legs!NewThread, Legs!LoadEnds, Legs!LoadDies
<1> QED
  BY <1>1, <1>2, <1>3, <1>4 DEF Legs!Next, Legs!vars
\* A master that is not told to stop when the run ends had written no pid file.
Unreached ==
  pc = "ended" =>
    /\ ~wrk.alive
    /\ \A l \in Places : server[l] \in {"launched", "up"} => l \in unstopped /\ raised

LEMMA UnreachedStep == LegsInv /\ [Legs!Next]_(Legs!vars) => Unreached'
<1> SUFFICES ASSUME LegsInv, [Legs!Next]_(Legs!vars), pc' = "ended"
             PROVE /\ ~wrk'.alive
                   /\ \A l \in Places : server'[l] \in {"launched", "up"} => l \in unstopped' /\ raised'
  BY DEF Unreached
<1> USE LegNumbers DEF LegsInv
<1>0. leg \in Places /\ Places \subseteq Nat \ {0} /\ Legs!Adapter \in Adapters
  BY PlanIsOfAdapters DEF LegsTypeOK, Places, Legs!Adapter
<1>1. CASE pc = "render"
  <2>1. Legs!Render
    BY <1>1 DEF Legs!Next, Legs!Harness, Legs!Render, Legs!Preflight, Legs!Launch,
       Legs!LaunchFails, Legs!WorkersBound, Legs!WorkersMissing, Legs!Ready,
       Legs!ProbeResponses, Legs!ProbeFails, Legs!Spawn, Legs!Pin, Legs!PinFails,
       Legs!WarmupEnds, Legs!CpuBefore, Legs!Record, Legs!Stop, Legs!Environment,
       Legs!Daemonized, Legs!Exits, Legs!WorkerDies, Legs!MasterDies, Legs!NewThread,
       Legs!LoadEnds, Legs!LoadDies, Legs!vars
  <2>2. \A l \in Places : server[l] \notin {"launched", "up"}
    BY <1>0, <1>1 DEF Order, Beginnings
  <2> QED
    BY <1>1, <2>1, <2>2 DEF Legs!Render, Legs!world, GeneratorIsWatched
<1>2. CASE pc = "ended"
  <2>1. Legs!Environment \/ UNCHANGED Legs!vars
    BY <1>2 DEF Legs!Next, Legs!Harness, Legs!Render, Legs!Preflight, Legs!Launch,
       Legs!LaunchFails, Legs!WorkersBound, Legs!WorkersMissing, Legs!Ready,
       Legs!ProbeResponses, Legs!ProbeFails, Legs!Spawn, Legs!Pin, Legs!PinFails,
       Legs!WarmupEnds, Legs!CpuBefore, Legs!Record, Legs!Stop
  <2>2. /\ ~wrk.alive
        /\ \A l \in Places : server[l] \in {"launched", "up"} => l \in unstopped /\ raised
    BY <1>2 DEF Legs!NothingOutlivesTheRun
  <2>3. ASSUME NEW l \in Places,
               Legs!Daemonized(l) \/ Legs!Exits(l) \/ Legs!MasterDies(l) \/ Legs!WorkerDies(l)
        PROVE  /\ ~wrk'.alive /\ UNCHANGED <<unstopped, raised>>
               /\ \A m \in Places : server'[m] \in {"launched", "up"} => server[m] \in {"launched", "up"}
    BY <2>2, <2>3 DEF LegsTypeOK, Generators, Legs!Daemonized, Legs!Exits, Legs!MasterDies,
       Legs!WorkerDies
  <2>4. ~Legs!NewThread /\ ~Legs!LoadEnds /\ ~Legs!LoadDies
    BY <2>2 DEF Legs!NewThread, Legs!LoadEnds, Legs!LoadDies
  <2> QED
    BY <2>1, <2>2, <2>3, <2>4 DEF Legs!Environment, Legs!vars
<1>3. CASE Legs!Stop
  <2>1. pc = "stop" /\ ~wrk.alive /\ wrk' = wrk /\ raised' = raised
    BY <1>3 DEF Legs!Stop, GeneratorIsWatched
  <2>2. \A l \in Places : server'[l] \in {"launched", "up"} => l = leg /\ server'[l] = server[l]
    BY <1>3, <1>0 DEF Legs!Stop, Order, LegsTypeOK
  <2>3. server'[leg] # "up"
    BY <1>3, <1>0, PidFileNamesTheServer DEF Legs!Stop, LegsTypeOK, Legs!Adapter
  <2>4. server[leg] = "launched" => leg \in unstopped' /\ raised
    <3>1. server[leg] = "launched" => pidFile[Legs!Adapter] = 0
      BY <1>0, PidFileNamesTheServer
    <3>2. server[leg] = "launched" => raised
      BY <2>1 DEF Order
    <3> QED
      BY <1>3, <3>1, <3>2 DEF Legs!Stop
  <2> QED
    BY <2>1, <2>2, <2>3, <2>4
<1>4. pc \in {"render", "ended"} \/ Legs!Stop
  BY DEF Legs!Next, Legs!Harness, Legs!Render, Legs!Preflight, Legs!Launch, Legs!Goto, Legs!Raise,
     Legs!LaunchFails, Legs!WorkersBound, Legs!WorkersMissing, Legs!Ready,
     Legs!ProbeResponses, Legs!ProbeFails, Legs!Spawn, Legs!Pin, Legs!PinFails,
     Legs!WarmupEnds, Legs!CpuBefore, Legs!Record, Legs!Environment,
     Legs!Daemonized, Legs!Exits, Legs!WorkerDies, Legs!MasterDies, Legs!NewThread,
     Legs!LoadEnds, Legs!LoadDies, Legs!vars
<1> QED
  BY <1>1, <1>2, <1>3, <1>4

\* Which leg's it is, and whose workers are left, is a matter of the order of the legs.
LEMMA OutliveStep == LegsInv /\ [Legs!Next]_(Legs!vars) => Legs!NothingOutlivesTheRun'
<1> SUFFICES ASSUME LegsInv, [Legs!Next]_(Legs!vars), pc' = "ended"
             PROVE /\ ~wrk'.alive
                   /\ \A l \in Places : server'[l] \in {"launched", "up"}
                                          => l = leg' /\ l \in unstopped' /\ raised'
                   /\ \A l \in Places : server'[l] = "orphaned"
                                          => l = leg' \/ (l = leg' - 1 /\ raised')
  BY LegNumbers DEF Legs!NothingOutlivesTheRun
<1>1. leg' \in Places /\ Places \subseteq Int
  BY LegsTypeStep DEF LegsInv, LegsTypeOK, Places
<1>2. \A l \in Places : server'[l] \in {"launched", "up"} => l = leg'
  BY <1>1, OrderStep DEF Order
<1>3. \A l \in Places : server'[l] = "orphaned" => l = leg' \/ (l = leg' - 1 /\ raised')
  BY OrphansStep DEF Orphans, Beginnings
<1> QED
  BY <1>2, <1>3, UnreachedStep DEF Unreached

LEMMA LegsStepKeeps == LegsInv /\ [Legs!Next]_(Legs!vars) => LegsInv'
  BY LegsTypeStep, OneServerStep, OrderStep, OrphansStep, LoadStep, RecordedStep, OutliveStep
     DEF LegsInv

-----------------------------------------------------------------------------
(* In MCHarness: a behavior stays in the part it started in.               *)

LEMMA LegsStay ==
  (part = "legs" => LegsInv) /\ [Next]_vars => (part = "legs" => LegsInv)'
<1> SUFFICES ASSUME part = "legs" => LegsInv, [Next]_vars, part' = "legs" PROVE LegsInv'
  OBVIOUS
<1>1. part = "legs" /\ [Legs!Next]_(Legs!vars)
  BY DEF Next, LegsStep, vars, legsOnly, Legs!vars
<1> QED
  BY <1>1, LegsStepKeeps

THEOREM LegsInvariant == Spec => [](part = "legs" => LegsInv)
<1>1. Init => (part = "legs" => LegsInv)
  BY LegsInitially DEF Init
<1> QED
  BY <1>1, LegsStay, PTL DEF Spec

\* Every recorded leg was served by the NGINX it started itself, and the CPU time of
\* a valid undisturbed leg is its load's, for any adapters, repetitions and crashes.
THEOREM LegsMeasureThemselves == Spec => []RecordedLegsAreTheirOwn
<1>1. (part = "legs" => LegsInv) => RecordedLegsAreTheirOwn
  BY DEF LegsInv, RecordedLegsAreTheirOwn
<1> QED
  BY <1>1, LegsInvariant, PTL

\* A run that is over, however it ended, left no load generator; no master but one
\* whose pid file stop() did not find, after a failure; and orphaned workers of the
\* last leg only, or of the leg before it when their port made the run fail.
THEOREM LegsCleanUp == Spec => []NothingOutlivesTheRun
<1>1. (part = "legs" => LegsInv) => NothingOutlivesTheRun
  BY DEF LegsInv, NothingOutlivesTheRun
<1> QED
  BY <1>1, LegsInvariant, PTL

-----------------------------------------------------------------------------
(* Runs and gates                                                           *)

\* The steps a run of this mode has behind it; the report is not one of them.
DoneSteps == {Run!Steps[i] : i \in {j \in 1 .. 23 : j < at /\ Run!Wanted(Run!Steps[j])}}

CommandLine == mode \in Modes /\ scaling \in BOOLEAN /\ (scaling => Run!Publication)

Progress ==
  /\ at \in 1 .. 25
  /\ at < 25 => Run!Wanted(Run!Steps[at])
  /\ DOMAIN results = DoneSteps /\ DOMAIN used = DoneSteps

\* The steps whose evidence may be invalid without an exception.
Tolerated ==
  {"scaling", "postflight"} \cup
  (IF Run!Publication THEN {}
   ELSE {"manifest", "outcome_matrix", "saturation", "fixed", "overhead_saturation",
         "overhead_fixed"})

Evidenced ==
  /\ \A s \in DOMAIN results : results[s] = "valid" \/ s \in Tolerated
  /\ "host" \in DOMAIN results => Run!HostAccepted(host)

\* The library only ever gets newer; what a measurement ran lies between the
\* recorded version and the present one, and is the recorded one when the
\* postflight has found that still there.
Versions ==
  /\ recorded \in Nat /\ disk \in Nat /\ sources \in Nat
  /\ recorded <= disk /\ disk <= sources
  /\ \A s \in DOMAIN used : s \in Run!MeasuringSteps =>
       /\ used[s] \in Nat /\ recorded <= used[s] /\ used[s] <= disk
       /\ Run!Valid("postflight") => used[s] = recorded

\* The verdict is the last step.
Decided ==
  /\ outcome \in {"running", "passed", "failed"}
  /\ outcome = "running" => at <= 24 /\ manifest = <<>>
  /\ outcome = "passed" => at = 25

RunInv ==
  /\ CommandLine /\ Progress /\ Evidenced /\ Versions /\ Decided
  /\ Run!FailsClosed /\ Run!CanonicalIsEarned /\ Run!OneLibraryMeasured
-----------------------------------------------------------------------------
\* Where the steps stand that the order of the run depends on.
LEMMA StepPlaces ==
  /\ Len(Run!Steps) = 24
  /\ \A i \in 1 .. 24 :
       /\ Run!Steps[i] = "host" <=> i = 3
       /\ Run!Steps[i] = "artifacts" <=> i = 6
       /\ Run!Steps[i] = "postflight" <=> i = 23
       /\ Run!Steps[i] = "report" <=> i = 24
       /\ Run!Steps[i] \in Run!MeasuringSteps => 7 < i /\ i < 23
<1>1. Len(Run!Steps) = 24
  BY DEF Run!Steps
<1>2. \A i \in 1 .. 24 :
       /\ Run!Steps[i] = "host" <=> i = 3
       /\ Run!Steps[i] = "artifacts" <=> i = 6
       /\ Run!Steps[i] = "postflight" <=> i = 23
       /\ Run!Steps[i] = "report" <=> i = 24
  BY DEF Run!Steps
<1>3. \A i \in 1 .. 24 : Run!Steps[i] \in Run!MeasuringSteps => 7 < i /\ i < 23
  BY DEF Run!Steps, Run!MeasuringSteps
<1> QED
  BY <1>1, <1>2, <1>3

LEMMA RunInitially == Run!Init => RunInv
<1> SUFFICES ASSUME Run!Init PROVE RunInv
  OBVIOUS
<1> USE DEF Run!Init
<1>1. CommandLine
  BY DEF CommandLine
<1>2. Progress
  <2>1. DoneSteps = {}
    BY DEF DoneSteps
  <2>2. Run!Wanted(Run!Steps[1])
    BY DEF Run!Wanted, Run!Steps
  <2> QED
    BY <2>1, <2>2 DEF Progress
<1>3. Evidenced /\ Versions /\ Decided
  BY DEF Evidenced, Versions, Decided
<1> QED
  BY <1>1, <1>2, <1>3 DEF RunInv, Run!FailsClosed, Run!CanonicalIsEarned, Run!OneLibraryMeasured

\* A step of the protocol adds its own result and goes to the next wanted step.
LEMMA ProceedStep ==
  ASSUME RunInv, NEW s, NEW r, Run!At(s), s # "report", Run!Proceed(r),
         r = "valid" \/ s \in Tolerated,
         s = "host" => Run!HostAccepted(host),
         disk' \in Nat, disk <= disk', disk' <= sources,
         \/ recorded' = recorded
         \/ s = "artifacts" /\ recorded' = disk',
         s = "postflight" => disk' = disk /\ (r = "valid" => recorded = disk)
  PROVE  RunInv'
<1> USE DEF RunInv
<1>0. /\ outcome = "running" /\ s = Run!Steps[at] /\ at \in 1 .. 23
      /\ UNCHANGED <<mode, scaling, host, sources, manifest, report, outcome>>
  BY StepPlaces DEF Run!At, Run!Proceed, Progress
<1>1. PICK next \in (at + 1) .. 24 :
        /\ Run!Wanted(Run!Steps[next])
        /\ \A i \in (at + 1) .. (next - 1) : ~Run!Wanted(Run!Steps[i])
        /\ at' = next
  BY StepPlaces DEF Run!Proceed
<1>2. CommandLine'
  BY <1>0 DEF CommandLine, Run!Publication
<1>3. /\ \A t : Run!Wanted(t)' = Run!Wanted(t)
      /\ Tolerated' = Tolerated
      /\ Run!HostAccepted(host)' = Run!HostAccepted(host)
  BY <1>0 DEF Run!Wanted, Run!Strict, Run!Publication, Tolerated, Run!HostAccepted, Run!Separate,
     Run!Siblings
<1>4. DoneSteps' = DoneSteps \cup {s}
  <2>1. \A i \in 1 .. 23 : i < next /\ Run!Wanted(Run!Steps[i]) <=>
          (i < at /\ Run!Wanted(Run!Steps[i])) \/ i = at
    BY <1>0, <1>1 DEF Progress
  <2> QED
    BY <1>0, <1>1, <1>3, <2>1 DEF DoneSteps
<1>5. /\ results' = Run!With(results, s, r) /\ used' = Run!With(used, s, disk')
  BY <1>0 DEF Run!Proceed
<1>6. /\ DOMAIN results' = DOMAIN results \cup {s} /\ DOMAIN used' = DOMAIN used \cup {s}
      /\ results'[s] = r /\ used'[s] = disk'
      /\ \A t \in DOMAIN results : t # s => results'[t] = results[t]
      /\ \A t \in DOMAIN used : t # s => used'[t] = used[t]
  BY <1>5 DEF Run!With
<1>7. Progress'
  BY <1>0, <1>1, <1>3, <1>4, <1>6 DEF Progress
<1>8. Evidenced'
  BY <1>3, <1>6 DEF Evidenced
<1>9. Decided'
  BY <1>0, <1>1 DEF Decided
<1>10. Versions'
  <2>1. ASSUME NEW t \in DOMAIN used, t \in Run!MeasuringSteps PROVE 7 < at
    <3>1. PICK i \in 1 .. 23 : i < at /\ t = Run!Steps[i]
      BY DEF Progress, DoneSteps
    <3>2. 7 < i
      BY <2>1, <3>1, StepPlaces
    <3> QED
      BY <1>0, <3>1, <3>2
  <2>2. s = "artifacts" => at = 6
    <3>1. at \in 1 .. 24 /\ s = Run!Steps[at]
      BY <1>0
    <3> QED
      BY <3>1, StepPlaces, Zenon
  <2>3. s = "postflight" => s \notin Run!MeasuringSteps
    BY DEF Run!MeasuringSteps
  <2>4. s \in Run!MeasuringSteps => 7 < at /\ at < 23
    BY <1>0, StepPlaces
  <2>5. "postflight" \in DOMAIN results => at = 24
    BY <1>0, StepPlaces DEF Progress, DoneSteps
  <2>6. Run!Valid("postflight")' => s = "postflight" /\ r = "valid"
    BY <1>0, <1>6, <2>5 DEF Run!Valid
  <2>7. recorded' \in Nat /\ recorded' <= disk' /\ disk' <= sources'
    BY <1>0 DEF Versions
  <2>8. ASSUME NEW t \in DOMAIN used', t \in Run!MeasuringSteps
        PROVE  used'[t] \in Nat /\ recorded' <= used'[t] /\ used'[t] <= disk'
    <3>1. CASE t = s
      BY <3>1, <1>6, <2>7
    <3>2. CASE t # s
      <4>1. t \in DOMAIN used /\ recorded' = recorded
        BY <3>2, <2>8, <1>6, <2>1, <2>2
      <4> QED
        BY <3>2, <4>1, <2>8, <1>6 DEF Versions
    <3> QED
      BY <3>1, <3>2
  <2>9. ASSUME NEW t \in DOMAIN used', t \in Run!MeasuringSteps, Run!Valid("postflight")'
        PROVE  used'[t] = recorded'
    <3>1. s = "postflight" /\ recorded = disk /\ disk' = disk /\ t # s
      BY <2>3, <2>6, <2>9
    <3>2. recorded' = recorded
      BY <3>1
    <3>3. t \in DOMAIN used /\ used'[t] = used[t]
      BY <3>1, <2>9, <1>6
    <3> QED
      BY <3>1, <3>2, <3>3, <2>9 DEF Versions
  <2> QED
    BY <1>0, <2>7, <2>8, <2>9 DEF Versions
<1>11. Run!FailsClosed' /\ Run!OneLibraryMeasured' /\ Run!CanonicalIsEarned'
  BY <1>0 DEF Decided, Run!FailsClosed, Run!OneLibraryMeasured, Run!CanonicalIsEarned
<1> QED
  BY <1>2, <1>7, <1>8, <1>9, <1>10, <1>11
\* The verdict: what is not valid by then is a phase that failed.
LEMMA ReportStep == RunInv /\ Run!WriteReport => RunInv'
<1> SUFFICES ASSUME RunInv, Run!WriteReport PROVE RunInv'
  OBVIOUS
<1> USE DEF RunInv
<1>0. /\ outcome = "running" /\ at = 24 /\ at' = 25
      /\ UNCHANGED <<mode, scaling, host, results, used, sources, disk, recorded>>
      /\ manifest' = [canonical |-> Run!Canonical, failed |-> Run!FailedPhases]
      /\ outcome' \in {"passed", "failed"}
      /\ outcome' = "passed" => report' /\ Run!FailedPhases = {}
  <2>1. outcome = "running" /\ at \in 1 .. 24 /\ Run!Steps[at] = "report" /\ at' = at + 1
    BY StepPlaces DEF Run!WriteReport, Run!At, Progress
  <2>2. at = 24
    BY <2>1, StepPlaces
  <2> QED
    BY <2>1, <2>2 DEF Run!WriteReport
<1>1. DoneSteps' = DoneSteps /\ (\A t : Run!Wanted(t)' = Run!Wanted(t)) /\ Tolerated' = Tolerated
      /\ Run!HostAccepted(host)' = Run!HostAccepted(host) /\ Run!Publication' = Run!Publication
  BY <1>0 DEF DoneSteps, Run!Wanted, Run!Strict, Run!Publication, Tolerated, Run!HostAccepted,
     Run!Separate, Run!Siblings
<1>2. CommandLine' /\ Progress' /\ Evidenced' /\ Decided'
  BY <1>0, <1>1 DEF CommandLine, Progress, Evidenced, Decided
<1>3. Versions'
  BY <1>0 DEF Versions, Run!Valid
<1>4. ASSUME Run!FailedPhases = {}
      PROVE  /\ \A s \in DOMAIN results : s \in Run!MeasuringSteps => results[s] = "valid"
             /\ Run!Valid("postflight")
  <2>1. \A p \in Run!EngineeringPhases : Run!Phases[p]
    BY <1>4 DEF Run!FailedPhases
  <2>2. Run!Valid("postflight")
    <3>1. "artifacts" \in Run!EngineeringPhases
      BY DEF Run!EngineeringPhases, Run!RequiredPhases, Run!PhaseNames
    <3> QED
      BY <2>1, <3>1 DEF Run!Phases, Run!PhaseNames
  <2>3. "scaling" \in DOMAIN results => scaling
    BY DEF Progress, DoneSteps, Run!Wanted
  <2>4. scaling => results["scaling"] = "valid"
    <3>1. SUFFICES ASSUME scaling PROVE Run!Valid("scaling")
      BY DEF Run!Valid
    <3>2. "scaling" \in Run!EngineeringPhases
      BY <3>1 DEF Run!EngineeringPhases, Run!RequiredPhases, Run!PhaseNames, CommandLine
    <3> QED
      BY <2>1, <3>2 DEF Run!Phases, Run!PhaseNames
  <2>5. ASSUME ~Run!Publication
        PROVE  /\ results["outcome_matrix"] = "valid"
               /\ results["saturation"] = "valid" /\ results["fixed"] = "valid"
               /\ results["overhead_saturation"] = "valid" /\ results["overhead_fixed"] = "valid"
    <3>1. {"outcome_matrix", "e2e", "overhead"} \subseteq Run!EngineeringPhases
      BY <2>5 DEF Run!EngineeringPhases
    <3>2. Run!Valid("outcome_matrix")
      BY <2>1, <3>1 DEF Run!Phases, Run!PhaseNames
    <3>3. Run!Valid("fixed") /\ Run!Valid("saturation")
      BY <2>1, <3>1 DEF Run!Phases, Run!PhaseNames
    <3>4. Run!Valid("overhead_fixed") /\ Run!Valid("overhead_saturation")
      BY <2>1, <3>1 DEF Run!Phases, Run!PhaseNames
    <3> QED
      BY <3>2, <3>3, <3>4 DEF Run!Valid
  <2>6. "postflight" \notin Run!MeasuringSteps /\ "manifest" \notin Run!MeasuringSteps
    BY DEF Run!MeasuringSteps
  <2> QED
    BY <2>2, <2>3, <2>4, <2>5, <2>6 DEF Evidenced, Tolerated
<1>5. Run!FailsClosed'
  BY <1>0, <1>4 DEF Run!FailsClosed
<1>6. Run!OneLibraryMeasured'
  BY <1>0, <1>4 DEF Run!OneLibraryMeasured, Versions
<1>7. ASSUME Run!Canonical
      PROVE  /\ mode = "canonical" /\ Run!HostAccepted(host) /\ Run!FailedPhases = {}
             /\ \A i \in 1 .. 23 : Run!Wanted(Run!Steps[i]) => Run!Valid(Run!Steps[i])
  <2>1. mode = "canonical" /\ Run!Publication
    BY <1>7 DEF Run!Canonical, Run!Strict, Run!Publication
  <2>2. Run!FailedPhases = {}
    BY <1>7, <2>1 DEF Run!Canonical, Run!FailedPhases, Run!EngineeringPhases
  <2>3. ASSUME NEW i \in 1 .. 23, Run!Wanted(Run!Steps[i])
        PROVE  Run!Steps[i] \in DOMAIN results
    BY <1>0, <2>3 DEF Progress, DoneSteps
  <2>4. Run!HostAccepted(host)
    <3>1. Run!Steps[3] = "host"
      BY StepPlaces
    <3>2. Run!Wanted("host")
      BY <2>1 DEF Run!Wanted, Run!Strict
    <3> QED
      BY <2>3, <3>1, <3>2 DEF Evidenced
  <2>5. ASSUME NEW i \in 1 .. 23, Run!Wanted(Run!Steps[i]) PROVE Run!Valid(Run!Steps[i])
    <3>1. Run!Steps[i] \in DOMAIN results
      BY <2>3, <2>5
    <3>2. CASE Run!Steps[i] = "postflight"
      BY <1>7, <3>2 DEF Run!Canonical
    <3>3. CASE Run!Steps[i] = "scaling"
      BY <1>7, <2>5, <3>3 DEF Run!Canonical, Run!Wanted
    <3>4. CASE Run!Steps[i] \notin {"postflight", "scaling"}
      BY <2>1, <3>1, <3>4 DEF Evidenced, Tolerated, Run!Valid
    <3> QED
      BY <3>2, <3>3, <3>4
  <2> QED
    BY <2>1, <2>2, <2>4, <2>5
<1>8. Run!CanonicalIsEarned'
  <2>1. SUFFICES ASSUME manifest' # <<>>, manifest'.canonical
                 PROVE  /\ mode' = "canonical" /\ Run!HostAccepted(host)' /\ manifest'.failed = {}
                        /\ \A i \in 1 .. 23 : Run!Wanted(Run!Steps[i])' => Run!Valid(Run!Steps[i])'
    BY StepPlaces DEF Run!CanonicalIsEarned
  <2>2. Run!Canonical /\ manifest'.failed = Run!FailedPhases
    BY <1>0, <2>1
  <2>3. \A t : Run!Valid(t)' = Run!Valid(t)
    BY <1>0 DEF Run!Valid
  <2> QED
    BY <1>0, <1>1, <1>7, <2>2, <2>3
<1> QED
  BY <1>2, <1>3, <1>5, <1>6, <1>8
LEMMA RunNext == RunInv /\ [Run!Next]_(Run!vars) => RunInv'
<1> SUFFICES ASSUME RunInv, [Run!Next]_(Run!vars) PROVE RunInv'
  OBVIOUS
<1>1. /\ disk \in Nat /\ recorded \in Nat /\ sources \in Nat
      /\ recorded <= disk /\ disk <= sources
  BY DEF RunInv, Versions
<1>a. ASSUME UNCHANGED <<mode, scaling, host, at, results, used, recorded, manifest, report>>,
             outcome' \in {"failed", outcome},
             disk' \in Nat, sources' \in Nat, disk <= disk', disk' <= sources'
      PROVE  RunInv'
  <2> USE <1>a DEF RunInv
  <2>1. /\ DoneSteps' = DoneSteps /\ Tolerated' = Tolerated
        /\ \A t : Run!Wanted(t)' = Run!Wanted(t) /\ Run!Valid(t)' = Run!Valid(t)
        /\ Run!HostAccepted(host)' = Run!HostAccepted(host)
        /\ Run!Publication' = Run!Publication
    BY DEF DoneSteps, Tolerated, Run!Wanted, Run!Strict, Run!Publication, Run!Valid,
       Run!HostAccepted, Run!Separate, Run!Siblings
  <2>2. CommandLine' /\ Progress' /\ Evidenced' /\ Decided'
    BY <2>1 DEF CommandLine, Progress, Evidenced, Decided
  <2>3. Versions'
    BY <1>1, <2>1 DEF Versions
  <2>4. Run!FailsClosed' /\ Run!CanonicalIsEarned' /\ Run!OneLibraryMeasured'
    BY <2>1 DEF Run!FailsClosed, Run!CanonicalIsEarned, Run!OneLibraryMeasured
  <2> QED
    BY <2>2, <2>3, <2>4
<1>2. ASSUME Run!Raise \/ UNCHANGED Run!vars PROVE RunInv'
  BY <1>1, <1>2, <1>a DEF Run!Raise, Run!vars
<1>3. ASSUME NEW s, Run!At(s), s \notin {"report", "host", "postflight"}, Run!Gate PROVE RunInv'
  BY <1>1, <1>2, <1>3, ProceedStep DEF Run!Gate
<1>4. ASSUME NEW s, Run!At(s), s \in {"manifest", "outcome_matrix", "saturation", "fixed",
                                      "overhead_saturation", "overhead_fixed"},
             Run!Measurement(Run!Publication)
      PROVE RunInv'
  <2>1. CASE ~Run!Publication /\ UNCHANGED <<disk, recorded>> /\ Run!Proceed("invalid")
    <3>1. s \in Tolerated
      BY <1>4, <2>1 DEF Tolerated
    <3>2. s \notin {"report", "host", "postflight", "artifacts"}
      BY <1>4
    <3> QED
      BY <1>1, <1>4, <2>1, <3>1, <3>2, ProceedStep
  <2> QED
    BY <1>3, <1>4, <2>1 DEF Run!Measurement
<1>5. CASE Run!HostGate
  BY <1>1, <1>2, <1>5, ProceedStep DEF Run!HostGate
<1>6. CASE Run!Build
  BY <1>1, <1>2, <1>6, ProceedStep DEF Run!Build
<1>7. CASE Run!ArtifactManifest
  BY <1>1, <1>7, ProceedStep DEF Run!ArtifactManifest
<1>8. CASE Run!ArtifactPreflight
  BY <1>2, <1>3, <1>8 DEF Run!ArtifactPreflight
<1>9. CASE Run!LuminaParity
  <2>1. CASE disk' = sources /\ Run!Proceed("valid") /\ UNCHANGED recorded
    BY <1>1, <1>9, <2>1, ProceedStep DEF Run!LuminaParity
  <2>2. CASE /\ outcome' = "failed" /\ disk' \in {disk, sources}
             /\ UNCHANGED <<mode, scaling, host, at, results, used, sources, recorded, manifest,
                            report>>
    BY <1>1, <1>a, <2>2
  <2> QED
    BY <1>9, <2>1, <2>2 DEF Run!LuminaParity
<1>10. CASE Run!SamplingPlan
  <2>1. ASSUME NEW s \in {"plan", "overhead_plan"}, Run!At(s) PROVE RunInv'
    <3>1. CASE UNCHANGED <<disk, recorded>> /\ Run!Proceed("valid")
      BY <1>1, <2>1, <3>1, ProceedStep
    <3> QED
      BY <1>3, <1>10, <2>1, <3>1 DEF Run!SamplingPlan
  <2> QED
    BY <1>10, <2>1 DEF Run!SamplingPlan
<1>11. CASE Run!Scaling
  <2>1. CASE UNCHANGED <<disk, recorded>> /\ Run!Proceed("invalid")
    BY <1>1, <1>11, <2>1, ProceedStep DEF Run!Scaling, Tolerated
  <2> QED
    BY <1>2, <1>3, <1>11, <2>1 DEF Run!Scaling, Run!Measurement
<1>12. CASE Run!ArtifactPostflight
  <2>1. "postflight" \in Tolerated /\ "postflight" \notin {"report", "host", "artifacts"}
    BY DEF Tolerated
  <2>2. CASE recorded = disk
    BY <1>1, <1>12, <2>1, <2>2, ProceedStep DEF Run!ArtifactPostflight
  <2>3. CASE recorded # disk
    BY <1>1, <1>12, <2>1, <2>3, ProceedStep DEF Run!ArtifactPostflight
  <2> QED
    BY <2>2, <2>3
<1>13. CASE Run!Edit \/ Run!Rebuild
  BY <1>1, <1>13, <1>a DEF Run!Edit, Run!Rebuild
<1>14. CASE Run!Manifest \/ Run!OutcomeMatrix \/ Run!Saturation \/ Run!FixedRate
  BY <1>4, <1>14 DEF Run!Manifest, Run!OutcomeMatrix, Run!Saturation, Run!FixedRate
<1>15. CASE \/ Run!Dependencies \/ Run!SymbolIsolation \/ Run!Micro \/ Run!Pmu
            \/ Run!CorazaParity \/ Run!ExecutionPreflight
  BY <1>3, <1>15 DEF Run!Dependencies, Run!SymbolIsolation, Run!Micro, Run!Pmu,
     Run!CorazaParity, Run!ExecutionPreflight
<1> QED
  BY <1>2, <1>5, <1>6, <1>7, <1>8, <1>9, <1>10, <1>11, <1>12, <1>13, <1>14, <1>15, ReportStep
     DEF Run!Next
-----------------------------------------------------------------------------
(* In MCHarness: a behavior stays in the part it started in.               *)

THEOREM RunInvariant == Spec => [](part = "run" => RunInv)
<1>1. Init => (part = "run" => RunInv)
  BY RunInitially DEF Init
<1>2. (part = "run" => RunInv) /\ [Next]_vars => (part = "run" => RunInv)'
  <2> SUFFICES ASSUME part = "run" => RunInv, [Next]_vars, part' = "run" PROVE RunInv'
    OBVIOUS
  <2>1. part = "run" /\ [Run!Next]_(Run!vars)
    BY DEF Next, LegsStep, vars, runOnly, Run!vars
  <2> QED
    BY <2>1, RunNext
<1> QED
  BY <1>1, <1>2, PTL DEF Spec

\* Exit status 0 and the word canonical are for runs whose measuring steps were all
\* done and valid: no payload a diagnostic mode tolerates is forgotten.
THEOREM RunFailsClosed == Spec => []FailsClosed
<1>1. (part = "run" => RunInv) => FailsClosed
  BY DEF RunInv, FailsClosed
<1> QED
  BY <1>1, RunInvariant, PTL

\* The evidence of a run that passed is of the library whose hash it recorded, however
\* often the sources changed and the library was built again under it.
THEOREM RunMeasuresOneLibrary == Spec => []OneLibraryMeasured
<1>1. (part = "run" => RunInv) => OneLibraryMeasured
  BY DEF RunInv, OneLibraryMeasured
<1> QED
  BY <1>1, RunInvariant, PTL

-----------------------------------------------------------------------------
(* The verdicts over the evidence                                          *)

\* Of any numbers one is the least, and of numbers below a bound one is the greatest.
LEMMA LeastOfNumbers ==
  ASSUME NEW S \in SUBSET Nat, S # {}
  PROVE  \E m \in S : \A n \in S : m <= n
<1>1. PICK m \in S : \A n \in S : ~(<<n, m>> \in OpToRel(<, Nat))
  BY WFMin, NatLessThanWellFounded
<1>2. \A n \in S : <<n, m>> \in OpToRel(<, Nat) <=> n < m
  BY DEF OpToRel
<1>3. \A n \in S : n \in Nat /\ m \in Nat /\ ~(n < m)
  BY <1>1, <1>2
<1> QED
  BY <1>3

LEMMA GreatestOfNumbers ==
  ASSUME NEW N \in Nat, NEW S \in SUBSET (0 .. N), S # {}
  PROVE  \E m \in S : \A n \in S : n <= m
<1> DEFINE T == {N - n : n \in S}
<1>1. T \in SUBSET Nat /\ T # {}
  <2>1. \A n \in S : n \in Nat /\ n <= N
    OBVIOUS
  <2>2. \A n \in S : N - n \in Nat
    BY <2>1
  <2> QED
    BY <2>2
<1>2. PICK t \in T : \A n \in T : t <= n
  BY <1>1, LeastOfNumbers
<1>3. PICK m \in S : t = N - m
  BY <1>2
<1>4. \A n \in S : N - m <= N - n
  BY <1>2, <1>3
<1> QED
  BY <1>3, <1>4

\* A function that adds up w over a finite set, taking the elements in the order of c.
AddsUp(T, w, c, g) == g = [s \in SUBSET T |-> IF s = {} THEN 0 ELSE w[c[s]] + g[s \ {c[s]}]]

\* There is one, by induction on the number of the elements: of the sizes for which
\* there is none, none is the least.
LEMMA SumsExist ==
  ASSUME NEW T, IsFiniteSet(T), NEW w, NEW c, \A s \in SUBSET T : s # {} => c[s] \in s
  PROVE  \E g : AddsUp(T, w, c, g)
<1> DEFINE Upto(n) == {s \in SUBSET T : Cardinality(s) <= n}
           Next2(g, s) == IF s = {} THEN 0 ELSE w[c[s]] + g[s \ {c[s]}]
           Part(n, g) == g = [s \in Upto(n) |-> Next2(g, s)]
           Bad == {n \in Nat : \A g : ~Part(n, g)}
<1>1. \A s \in SUBSET T : /\ IsFiniteSet(s) /\ Cardinality(s) \in Nat /\ Cardinality(s) <= Cardinality(T)
                          /\ s # {} => /\ Cardinality(s) # 0
                                       /\ Cardinality(s \ {c[s]}) = Cardinality(s) - 1
  BY FS_Subset, FS_CardinalityType, FS_RemoveElement, FS_EmptySet
<1>2. Bad = {}
  <2> SUFFICES ASSUME Bad # {} PROVE FALSE
    OBVIOUS
  <2>1. PICK m \in Bad : \A n \in Bad : m <= n
    BY LeastOfNumbers
  <2>2. m \in Nat /\ \A g : ~Part(m, g)
    OBVIOUS
  <2>3. CASE m = 0
    <3> DEFINE g == [s \in Upto(0) |-> 0]
    <3>1. \A s \in Upto(0) : s = {}
      <4>1. \A s \in Upto(0) : s \in SUBSET T /\ Cardinality(s) <= 0
        OBVIOUS
      <4>2. \A s \in Upto(0) : Cardinality(s) \in Nat /\ (s # {} => Cardinality(s) # 0)
        BY <1>1, <4>1
      <4> QED
        BY <4>1, <4>2
    <3>2. g = [s \in Upto(0) |-> Next2(g, s)]
      BY <3>1
    <3> QED
      BY <2>2, <2>3, <3>2
  <2>4. CASE m # 0
    <3>1. m - 1 \in Nat /\ ~(m <= m - 1)
      BY <2>2, <2>4
    <3>a. m - 1 \notin Bad
      BY <2>1, <3>1
    <3>2. PICK g : Part(m - 1, g)
      BY <3>1, <3>a
    <3> DEFINE h == [s \in Upto(m) |-> Next2(g, s)]
    <3>3. \A t \in Upto(m - 1) : t \in Upto(m) /\ h[t] = g[t]
      <4> SUFFICES ASSUME NEW t \in Upto(m - 1) PROVE t \in Upto(m) /\ h[t] = g[t]
        OBVIOUS
      <4>a. t \in SUBSET T /\ Cardinality(t) <= m - 1
        OBVIOUS
      <4>b. Cardinality(t) \in Nat
        BY <1>1, <4>a
      <4>c. Cardinality(t) <= m
        BY <2>2, <4>a, <4>b
      <4>1. t \in Upto(m)
        BY <4>a, <4>c
      <4>2. g[t] = Next2(g, t)
        BY <3>2
      <4> QED
        BY <4>1, <4>2
    <3>4. \A s \in Upto(m) : s # {} => s \ {c[s]} \in Upto(m - 1)
      <4> SUFFICES ASSUME NEW s \in Upto(m), s # {} PROVE s \ {c[s]} \in Upto(m - 1)
        OBVIOUS
      <4>1. s \in SUBSET T /\ Cardinality(s) <= m
        OBVIOUS
      <4>2. s \ {c[s]} \in SUBSET T /\ Cardinality(s \ {c[s]}) <= m - 1
        <5>1. Cardinality(s) \in Nat /\ Cardinality(s \ {c[s]}) = Cardinality(s) - 1
          BY <1>1, <4>1
        <5> QED
          BY <2>2, <4>1, <5>1
      <4> QED
        BY <4>2
    <3>5. \A s \in Upto(m) : Next2(g, s) = Next2(h, s)
      BY <3>3, <3>4
    <3>6. h = [s \in Upto(m) |-> Next2(h, s)]
      BY <3>5
    <3> QED
      BY <2>2, <3>6
  <2> QED
    BY <2>3, <2>4
<1>3. Cardinality(T) \in Nat /\ Upto(Cardinality(T)) = SUBSET T
  BY <1>1, FS_CardinalityType
<1>4. PICK g : Part(Cardinality(T), g)
  <2>1. Cardinality(T) \notin Bad
    BY <1>2
  <2> QED
    BY <1>3, <2>1
<1>5. g = [s \in SUBSET T |-> Next2(g, s)]
  BY <1>3, <1>4
<1> QED
  BY <1>5 DEF AddsUp

\* Total and Squares add up the rates and their squares.
LEMMA TotalIs ==
  ASSUME NEW T, IsFiniteSet(T)
  PROVE  LET c == [s \in SUBSET T |-> CHOOSE x \in s : TRUE]
         IN /\ \A s \in SUBSET T : s # {} => c[s] \in s
            /\ \E g : AddsUp(T, [x \in T |-> x.rps], c, g) /\ Verdicts!Total(T) = g[T]
            /\ \E g : AddsUp(T, [x \in T |-> x.rps * x.rps], c, g) /\ Verdicts!Squares(T) = g[T]
<1> DEFINE First(s) == CHOOSE x \in s : TRUE
           c == [s \in SUBSET T |-> First(s)]
           w == [x \in T |-> x.rps]
           v == [x \in T |-> x.rps * x.rps]
           SumOf(g) == g = [s \in SUBSET T |-> IF s = {} THEN 0 ELSE First(s).rps + g[s \ {First(s)}]]
           SquareOf(g) == g = [s \in SUBSET T |-> IF s = {} THEN 0
                                                 ELSE First(s).rps * First(s).rps + g[s \ {First(s)}]]
<1>1. Verdicts!Total(T) = (CHOOSE g : SumOf(g))[T]
  BY DEF Verdicts!Total, Verdicts!MapThenSumSet, Verdicts!MapThenFoldSet
<1>2. Verdicts!Squares(T) = (CHOOSE g : SquareOf(g))[T]
  BY DEF Verdicts!Squares, Verdicts!MapThenSumSet, Verdicts!MapThenFoldSet
<1>3. \A s \in SUBSET T : s # {} => First(s) \in s /\ First(s) \in T
  OBVIOUS
<1>4. \A s \in SUBSET T : c[s] = First(s)
  OBVIOUS
<1> HIDE DEF First
<1>5. \A s \in SUBSET T : s # {} => c[s] \in s /\ w[c[s]] = First(s).rps /\ v[c[s]] = First(s).rps * First(s).rps
  BY <1>3, <1>4
<1>6. \A g : AddsUp(T, w, c, g) <=> SumOf(g)
  BY <1>4, <1>5 DEF AddsUp
<1>7. \A g : AddsUp(T, v, c, g) <=> SquareOf(g)
  BY <1>4, <1>5 DEF AddsUp
<1>8. (\E g : AddsUp(T, w, c, g)) /\ (\E g : AddsUp(T, v, c, g))
  <2> HIDE DEF c, w, v
  <2> QED
    BY <1>5, SumsExist
<1> HIDE DEF SumOf, SquareOf, w, v
<1>9. SumOf(CHOOSE g : SumOf(g)) /\ SquareOf(CHOOSE g : SquareOf(g))
  BY <1>6, <1>7, <1>8
<1>a. /\ \E g : AddsUp(T, w, c, g) /\ Verdicts!Total(T) = g[T]
      /\ \E g : AddsUp(T, v, c, g) /\ Verdicts!Squares(T) = g[T]
  BY <1>1, <1>2, <1>6, <1>7, <1>9
<1> QED
  BY <1>5, <1>a DEF First, w, v

\* Cauchy's inequality: the terms that are not 0 are enough to bound the sum.
LEMMA SumsAreBounded ==
  ASSUME NEW T, IsFiniteSet(T), \A x \in T : x.rps \in Nat
  PROVE  LET p == Cardinality({x \in T : x.rps # 0})
         IN /\ Verdicts!Total(T) \in Nat /\ Verdicts!Squares(T) \in Nat /\ p \in Nat
            /\ Verdicts!Total(T) * Verdicts!Total(T) <= p * Verdicts!Squares(T)
<1> DEFINE c == [s \in SUBSET T |-> CHOOSE x \in s : TRUE]
           Rising(s) == {x \in s : x.rps # 0}
<1>1. \A s \in SUBSET T : s # {} => c[s] \in s
  BY TotalIs
<1>2. PICK g : AddsUp(T, [x \in T |-> x.rps], c, g) /\ Verdicts!Total(T) = g[T]
  BY TotalIs
<1>3. PICK q : AddsUp(T, [x \in T |-> x.rps * x.rps], c, q) /\ Verdicts!Squares(T) = q[T]
  BY TotalIs
<1> HIDE DEF c
<1> DEFINE Bounded(s) == /\ g[s] \in Nat /\ q[s] \in Nat /\ Cardinality(Rising(s)) \in Nat
                         /\ g[s] * g[s] <= Cardinality(Rising(s)) * q[s]
           Bad == {n \in Nat : \E s \in SUBSET T : Cardinality(s) = n /\ ~Bounded(s)}
<1>4. \A s \in SUBSET T : /\ IsFiniteSet(s) /\ Cardinality(s) \in Nat
                          /\ IsFiniteSet(Rising(s)) /\ Cardinality(Rising(s)) \in Nat
  BY FS_Subset, FS_CardinalityType
<1>5. ASSUME NEW s \in SUBSET T, s # {}, Bounded(s \ {c[s]}) PROVE Bounded(s)
  <2> DEFINE a == c[s].rps
             S == g[s \ {c[s]}]
             Q == q[s \ {c[s]}]
             p == Cardinality(Rising(s \ {c[s]}))
  <2>1. c[s] \in s /\ c[s] \in T /\ a \in Nat
    BY <1>1, <1>5
  <2>2. g[s] = a + S
    BY <1>2, <1>5, <2>1 DEF AddsUp
  <2>3. q[s] = a * a + Q
    BY <1>3, <1>5, <2>1 DEF AddsUp
  <2>4. S \in Nat /\ Q \in Nat /\ p \in Nat /\ S * S <= p * Q
    BY <1>5
  <2>5. Cardinality(Rising(s)) = IF a = 0 THEN p ELSE p + 1
    <3>1. Rising(s \ {c[s]}) = Rising(s) \ {c[s]} /\ (c[s] \in Rising(s) <=> a # 0)
      BY <2>1
    <3>2. Cardinality(Rising(s) \ {c[s]}) = IF c[s] \in Rising(s) THEN Cardinality(Rising(s)) - 1
                                            ELSE Cardinality(Rising(s))
      BY <1>4, FS_RemoveElement
    <3>3. Cardinality(Rising(s)) \in Nat
      BY <1>4
    <3> QED
      BY <3>1, <3>2, <3>3
  <2> HIDE DEF a, S, Q, p, Rising
  <2>6. CASE a = 0
    BY <2>2, <2>3, <2>4, <2>5, <2>6
  <2>7. CASE a # 0
    <3>1. 2 * a * S <= Q + p * (a * a)
      <4>1. CASE p = 0
        <5>1. S * S <= 0
          BY <2>4, <4>1
        <5>2. S = 0
          BY <2>4, <5>1
        <5> QED
          BY <2>1, <2>4, <4>1, <5>2
      <4>2. CASE p # 0
        <5> DEFINE R == Q + p * (a * a) - 2 * a * S
        <5>1. R \in Int
          BY <2>1, <2>4
        <5>2. p * R = (p * Q - S * S) + (p * a - S) * (p * a - S)
          BY <2>1, <2>4
        <5>3. (p * a - S) * (p * a - S) >= 0 /\ (p * a - S) * (p * a - S) \in Int
          BY <2>1, <2>4
        <5>4. p * R >= 0
          BY <2>4, <5>2, <5>3
        <5>5. R >= 0
          <6> HIDE DEF R
          <6> QED
            BY <2>4, <4>2, <5>1, <5>4
        <5> QED
          BY <2>1, <2>4, <5>5
      <4> QED
        BY <4>1, <4>2
    <3>2. (a + S) * (a + S) = a * a + 2 * a * S + S * S
      BY <2>1, <2>4
    <3>3. (p + 1) * (a * a + Q) = p * (a * a) + p * Q + a * a + Q
      BY <2>1, <2>4
    <3>4. /\ a * a \in Nat /\ a * S \in Nat /\ S * S \in Nat /\ p * (a * a) \in Nat /\ p * Q \in Nat
          /\ 2 * a * S \in Nat
      BY <2>1, <2>4
    <3>5. (a + S) * (a + S) <= (p + 1) * (a * a + Q)
      BY <2>4, <3>1, <3>2, <3>3, <3>4
    <3> QED
      BY <2>1, <2>2, <2>3, <2>4, <2>5, <2>7, <3>5
  <2> QED
    BY <2>6, <2>7
<1>6. Bounded({})
  <2>1. g[{}] = 0 /\ q[{}] = 0
    BY <1>2, <1>3 DEF AddsUp
  <2>2. Rising({}) = {} /\ Cardinality({}) = 0
    BY FS_EmptySet
  <2> QED
    BY <2>1, <2>2
<1>7. Bad = {}
  <2> SUFFICES ASSUME Bad # {} PROVE FALSE
    OBVIOUS
  <2>1. PICK m \in Bad : \A n \in Bad : m <= n
    BY LeastOfNumbers
  <2>2. PICK s \in SUBSET T : Cardinality(s) = m /\ ~Bounded(s)
    OBVIOUS
  <2>3. s # {}
    BY <1>6, <2>2
  <2>4. c[s] \in s
    BY <1>1, <2>3
  <2>5. s \ {c[s]} \in SUBSET T /\ Cardinality(s \ {c[s]}) = m - 1
    BY <1>4, <2>2, <2>4, FS_RemoveElement
  <2>6. m \in Nat /\ Cardinality(s \ {c[s]}) \in Nat
    BY <1>4, <2>2, <2>5
  <2>a. m - 1 \in Nat /\ ~(m <= m - 1)
    BY <2>5, <2>6
  <2>7. m - 1 \notin Bad
    BY <2>1, <2>a
  <2>8. Bounded(s \ {c[s]})
    BY <2>5, <2>7, <2>a
  <2> QED
    BY <1>5, <2>2, <2>3, <2>8
<1>8. Bounded(T)
  BY <1>4, <1>7
<1> QED
  BY <1>2, <1>3, <1>8

\* The standard modules an instance brings in count alike.
LEMMA SameCardinality == \A S : Verdicts!Cardinality(S) = Cardinality(S)
BY DEF Verdicts!Cardinality, Cardinality

\* Of finitely many numbers one is the greatest.
LEMMA GreatestOfFinite ==
  ASSUME NEW T \in SUBSET Nat, IsFiniteSet(T), T # {}
  PROVE  \E m \in T : \A n \in T : n <= m
<1> DEFINE Bounded(s) == \E b \in Nat : \A n \in s : n <= b
           Bad == {n \in Nat : \E s \in SUBSET T : Cardinality(s) = n /\ ~Bounded(s)}
<1>1. \A s \in SUBSET T : IsFiniteSet(s) /\ Cardinality(s) \in Nat
  BY FS_Subset, FS_CardinalityType
<1>2. Bad = {}
  <2> SUFFICES ASSUME Bad # {} PROVE FALSE
    OBVIOUS
  <2>1. PICK m \in Bad : \A n \in Bad : m <= n
    BY LeastOfNumbers
  <2>2. PICK s \in SUBSET T : Cardinality(s) = m /\ ~Bounded(s)
    OBVIOUS
  <2>3. PICK x \in s : TRUE
    <3>1. 0 \in Nat
      OBVIOUS
    <3> QED
      BY <2>2, <3>1
  <2>4. s \ {x} \in SUBSET T /\ Cardinality(s \ {x}) = m - 1
    BY <1>1, <2>2, <2>3, FS_RemoveElement
  <2>5. m - 1 \in Nat /\ ~(m <= m - 1)
    BY <1>1, <2>2, <2>4
  <2>6. m - 1 \notin Bad
    BY <2>1, <2>5
  <2>7. PICK b \in Nat : \A n \in s \ {x} : n <= b
    BY <2>4, <2>5, <2>6
  <2>8. x \in Nat /\ s \subseteq Nat
    BY <2>2, <2>3
  <2>9. \A n \in s : n <= b + x
    BY <2>7, <2>8
  <2> QED
    BY <2>2, <2>8, <2>9
<1>3. Bounded(T)
  BY <1>1, <1>2
<1>4. PICK b \in Nat : \A n \in T : n <= b
  BY <1>3
<1>5. T \in SUBSET (0 .. b)
  BY <1>4
<1> QED
  BY <1>4, <1>5, GreatestOfNumbers

\* Rates within 5% of each other: few of them, if any, are 0.
LEMMA SteadyRates ==
  ASSUME NEW T, IsFiniteSet(T), \A x \in T : x.rps \in Nat, Verdicts!Steady(T)
  PROVE  LET n == Cardinality(T)
             p == Cardinality({x \in T : x.rps # 0})
         IN n \in Nat /\ p \in 1 .. n /\ 400 * (n * (n - p)) <= p * (n - 1)
<1> DEFINE n == Cardinality(T)
           Rising == {x \in T : x.rps # 0}
           p == Cardinality(Rising)
           s == Verdicts!Total(T)
           Q == Verdicts!Squares(T)
<1>1. n \in Nat /\ IsFiniteSet(Rising) /\ p \in Nat /\ p <= n
  BY FS_Subset, FS_CardinalityType
<1>2. s \in Nat /\ Q \in Nat /\ s * s <= p * Q
  BY SumsAreBounded
<1>3. n > 1 /\ s > 0 /\ 400 * n * (n * Q - s * s) <= (n - 1) * s * s
  BY SameCardinality DEF Verdicts!Steady
<1> HIDE DEF n, p, s, Q
<1> DEFINE X == n * Q - s * s
           z == s * s
<1>4. z \in Nat /\ z >= 1 /\ p * Q \in Nat /\ X \in Int
  BY <1>1, <1>2, <1>3
<1>5. p # 0
  BY <1>2, <1>3, <1>4
<1>6. (n - p) * z <= p * X
  <2>1. p * X = n * (p * Q) - p * z
    BY <1>1, <1>2, <1>4
  <2>2. n * z <= n * (p * Q)
    BY <1>1, <1>2, <1>4
  <2>3. (n - p) * z = n * z - p * z
    BY <1>1, <1>4
  <2>4. n * (p * Q) \in Int /\ n * z \in Int /\ p * z \in Int
    BY <1>1, <1>4
  <2> QED
    BY <2>1, <2>2, <2>3, <2>4
<1>7. 400 * (n * X) <= (n - 1) * z
  <2>1. 400 * n * X = 400 * (n * X) /\ (n - 1) * s * s = (n - 1) * z
    BY <1>1, <1>2, <1>4
  <2> QED
    BY <1>3, <2>1
<1> HIDE DEF X, z
<1>8. 400 * (n * ((n - p) * z)) <= p * ((n - 1) * z)
  <2>1. n * ((n - p) * z) <= n * (p * X)
    BY <1>1, <1>4, <1>6
  <2>2. p * (400 * (n * X)) <= p * ((n - 1) * z)
    BY <1>1, <1>4, <1>7
  <2>3. p * (400 * (n * X)) = 400 * (n * (p * X))
    BY <1>1, <1>4
  <2>4. n * ((n - p) * z) \in Int /\ n * (p * X) \in Int /\ p * ((n - 1) * z) \in Int
    BY <1>1, <1>4
  <2> QED
    BY <2>1, <2>2, <2>3, <2>4
<1>9. 400 * (n * (n - p)) <= p * (n - 1)
  <2> DEFINE D == p * (n - 1) - 400 * (n * (n - p))
  <2>1. D * z = p * ((n - 1) * z) - 400 * (n * ((n - p) * z))
    BY <1>1, <1>4
  <2>2. D \in Int /\ p * (n - 1) \in Int /\ n * (n - p) \in Int
    BY <1>1
  <2>3. n * ((n - p) * z) \in Int /\ p * ((n - 1) * z) \in Int
    BY <1>1, <1>4
  <2>4. D * z >= 0
    BY <1>8, <2>1, <2>3
  <2>5. D >= 0
    <3> HIDE DEF D
    <3> QED
      BY <1>4, <2>2, <2>4
  <2> QED
    BY <2>2, <2>5
<1> QED
  BY <1>1, <1>5, <1>9 DEF n, p

\* The k-th rate is one of the rates, and k of them are no higher.
LEMMA RateIs ==
  ASSUME NEW T, IsFiniteSet(T), \A x \in T : x.rps \in Nat, NEW k \in 1 .. Cardinality(T)
  PROVE  /\ \E x \in T : x.rps = Verdicts!RateAt(T, k)
         /\ Cardinality({x \in T : x.rps <= Verdicts!RateAt(T, k)}) >= k
<1> DEFINE Rates == {x.rps : x \in T}
           Reached == {r \in Rates : Cardinality({x \in T : x.rps <= r}) >= k}
<1>1. Rates \in SUBSET Nat /\ IsFiniteSet(Rates)
  <2>1. [x \in T |-> x.rps] \in Surjection(T, Rates)
    BY DEF Surjection
  <2> QED
    BY <2>1, FS_Surjection
<1>2. Cardinality(T) \in Nat /\ T # {}
  BY FS_CardinalityType, FS_EmptySet
<1>3. PICK M \in Rates : \A r \in Rates : r <= M
  <2>1. Rates # {}
    BY <1>2
  <2> QED
    BY <1>1, <2>1, GreatestOfFinite
<1>4. {x \in T : x.rps <= M} = T
  BY <1>3
<1>5. M \in Reached
  BY <1>2, <1>3, <1>4
<1>6. PICK m \in Reached : \A r \in Reached : m <= r
  <2>1. Reached \in SUBSET Nat /\ Reached # {}
    BY <1>1, <1>5
  <2> QED
    BY <2>1, LeastOfNumbers
<1>7. Verdicts!RateAt(T, k) = CHOOSE m2 \in Reached : \A r \in Reached : m2 <= r
  BY SameCardinality DEF Verdicts!RateAt, Verdicts!Min
<1>8. Verdicts!RateAt(T, k) \in Reached
  <2> HIDE DEF Reached
  <2> QED
    BY <1>6, <1>7
<1> QED
  BY <1>8

\* The median lies among the rates, and that of steady runs is not 0.
LEMMA MedianIs ==
  ASSUME NEW T, IsFiniteSet(T), \A x \in T : x.rps \in Nat
  PROVE  /\ Verdicts!Median2(T) \in Nat
         /\ \A b \in Nat : (\A x \in T : x.rps <= b) => Verdicts!Median2(T) <= 2 * b
         /\ Verdicts!Steady(T) => Verdicts!Median2(T) > 0
<1> DEFINE n == Cardinality(T)
           low == Verdicts!RateAt(T, (n + 1) \div 2)
           high == Verdicts!RateAt(T, (n \div 2) + 1)
<1>1. n \in Nat
  BY FS_CardinalityType
<1>2. Verdicts!Median2(T) = IF n = 0 THEN 0 ELSE low + high
  BY SameCardinality DEF Verdicts!Median2
<1>3. CASE n = 0
  <2>1. ~Verdicts!Steady(T)
    BY <1>3, SameCardinality DEF Verdicts!Steady
  <2>2. Verdicts!Median2(T) = 0
    BY <1>2, <1>3
  <2> QED
    BY <2>1, <2>2
<1>4. CASE n # 0
  <2>1. (n + 1) \div 2 \in 1 .. n /\ (n \div 2) + 1 \in 1 .. n
    <3> HIDE DEF n
    <3> QED
      BY <1>1, <1>4
  <2>2. /\ \E x \in T : x.rps = low
        /\ \E x \in T : x.rps = high
        /\ Cardinality({x \in T : x.rps <= high}) >= (n \div 2) + 1
    BY <2>1, RateIs
  <2> HIDE DEF low, high
  <2>3. low \in Nat /\ high \in Nat /\ Verdicts!Median2(T) = low + high
    BY <1>2, <1>4, <2>2
  <2>4. ASSUME NEW b \in Nat, \A x \in T : x.rps <= b PROVE Verdicts!Median2(T) <= 2 * b
    BY <2>2, <2>3, <2>4
  <2>5. ASSUME Verdicts!Steady(T) PROVE high # 0
    <3> DEFINE Rising == {x \in T : x.rps # 0}
               p == Cardinality(Rising)
    <3>1. p \in 1 .. n /\ 400 * (n * (n - p)) <= p * (n - 1)
      BY <2>5, SteadyRates
    <3> SUFFICES ASSUME high = 0 PROVE FALSE
      OBVIOUS
    <3>2. {x \in T : x.rps <= high} = T \ Rising
      OBVIOUS
    <3>3. Cardinality(T \ Rising) = n - p
      <4>1. Rising \subseteq T /\ T \cap Rising = Rising
        OBVIOUS
      <4> QED
        BY <4>1, FS_Difference
    <3>4. n - p >= (n \div 2) + 1
      BY <2>2, <3>2, <3>3
    <3> HIDE DEF n, p
    <3>5. n - p >= p /\ n - p \in Nat
      BY <1>1, <3>1, <3>4
    <3>6. p * (n - 1) <= (n - p) * (n - 1) /\ (n - p) * (n - 1) < (n - p) * n
      BY <1>1, <1>4, <3>1, <3>4, <3>5
    <3>7. (n - p) * n = n * (n - p) /\ n * (n - p) \in Nat /\ p * (n - 1) \in Int /\ (n - p) * (n - 1) \in Int
      BY <1>1, <3>1, <3>5
    <3> QED
      BY <3>1, <3>6, <3>7
  <2> QED
    BY <2>3, <2>4, <2>5
<1> QED
  BY <1>3, <1>4

SlotOf(i) == [workers |-> i.workers, repetition |-> i.repetition,
              connections |-> i.connections, engine |-> i.engine]
Measurements == {Verdicts!Leg(kind, slot, i) : slot \in Verdicts!SlotsOf(kind), i \in DOMAIN Outputs}

\* Each slot is to be measured or has been, once.
EvidenceOK ==
  /\ kind \in Kinds
  /\ legs \in Seq(Measurements) /\ todo \subseteq Verdicts!SlotsOf(kind)
  /\ \A slot \in Verdicts!SlotsOf(kind) : slot \in todo \/ \E j \in DOMAIN legs : SlotOf(legs[j]) = slot
  /\ \A j \in DOMAIN legs : SlotOf(legs[j]) \notin todo
  /\ \A i, j \in DOMAIN legs : SlotOf(legs[i]) = SlotOf(legs[j]) => i = j

\* No slot has been measured, and then one after the other.
LEMMA EvidenceStarts == Verdicts!Init => EvidenceOK
<1> SUFFICES ASSUME Verdicts!Init PROVE EvidenceOK
  OBVIOUS
<1>1. kind \in Kinds /\ todo = Verdicts!SlotsOf(kind) /\ legs = <<>>
  BY DEF Verdicts!Init
<1> QED
  BY <1>1 DEF EvidenceOK

LEMMA EvidenceStep ==
  ASSUME EvidenceOK, Verdicts!Next
  PROVE  EvidenceOK'
<1>1. PICK slot \in todo, i \in DOMAIN Outputs : Verdicts!Measure(slot, i)
  BY DEF Verdicts!Next
<1> DEFINE new == Verdicts!Leg(kind, slot, i)
           n == Len(legs)
<1>2. legs' = Append(legs, new) /\ todo' = todo \ {slot} /\ kind' = kind
  BY <1>1 DEF Verdicts!Measure
<1>3. slot \in Verdicts!SlotsOf(kind) /\ new \in Measurements
  BY <1>1 DEF EvidenceOK, Measurements
<1>4. SlotOf(new) = slot
  BY <1>3 DEF SlotOf, Verdicts!Leg, Verdicts!SlotsOf
<1>5. legs \in Seq(Measurements) /\ n \in Nat /\ DOMAIN legs = 1 .. n
  BY DEF EvidenceOK
<1> HIDE DEF new
<1>6. /\ legs' \in Seq(Measurements) /\ DOMAIN legs' = 1 .. n + 1
      /\ legs'[n + 1] = new /\ \A j \in 1 .. n : legs'[j] = legs[j]
  BY <1>2, <1>3, <1>5
<1>7. Measurements' = Measurements /\ Verdicts!SlotsOf(kind)' = Verdicts!SlotsOf(kind)
  BY <1>2 DEF Measurements, Verdicts!Leg, Verdicts!SlotsOf
<1>8. \A j \in DOMAIN legs' : (j \in 1 .. n /\ SlotOf(legs'[j]) = SlotOf(legs[j]) /\ SlotOf(legs[j]) # slot)
                           \/ (j = n + 1 /\ SlotOf(legs'[j]) = slot)
  <2>1. \A j \in 1 .. n : SlotOf(legs[j]) # slot
    BY <1>1, <1>5 DEF EvidenceOK
  <2> QED
    BY <1>4, <1>5, <1>6, <2>1
<1>9. \A s \in Verdicts!SlotsOf(kind) : s \in todo' \/ \E j \in DOMAIN legs' : SlotOf(legs'[j]) = s
  <2> SUFFICES ASSUME NEW s \in Verdicts!SlotsOf(kind), s \notin todo'
               PROVE  \E j \in DOMAIN legs' : SlotOf(legs'[j]) = s
    OBVIOUS
  <2>1. CASE s = slot
    BY <1>4, <1>5, <1>6, <2>1
  <2>2. CASE s # slot
    <3>1. s \notin todo
      BY <1>2, <2>2
    <3>2. PICK j \in DOMAIN legs : SlotOf(legs[j]) = s
      BY <3>1 DEF EvidenceOK
    <3>3. j \in DOMAIN legs' /\ legs'[j] = legs[j]
      BY <1>5, <1>6
    <3> QED
      BY <3>2, <3>3
  <2> QED
    BY <2>1, <2>2
<1>10. \A j \in DOMAIN legs' : SlotOf(legs'[j]) \notin todo'
  BY <1>2, <1>5, <1>8 DEF EvidenceOK
<1>11. \A j, k \in DOMAIN legs' : SlotOf(legs'[j]) = SlotOf(legs'[k]) => j = k
  BY <1>5, <1>8 DEF EvidenceOK
<1>12. kind' \in Kinds /\ todo' \subseteq Verdicts!SlotsOf(kind)
  BY <1>2 DEF EvidenceOK
<1>13. \A j : SlotOf(legs[j])' = SlotOf(legs'[j])
  BY DEF SlotOf
<1> QED
  BY <1>6, <1>7, <1>9, <1>10, <1>11, <1>12, <1>13 DEF EvidenceOK

\* What the measurements are.
LEMMA ItemIs ==
  ASSUME EvidenceOK, NEW x \in Verdicts!Items
  PROVE  /\ SlotOf(x) \in Verdicts!SlotsOf(kind)
         /\ \E out \in Verdicts!ToSet(Outputs) :
               /\ x.reasons = Verdicts!Reasons(kind, out) /\ x.valid = (x.reasons = {}) /\ x.rps = out.rps
               /\ x.accepted = Verdicts!Accepted(out) /\ x.cpu = IF out.requests = 0 THEN "none" ELSE "some"
               /\ {out.requests, out.errors, out.socket, out.rps} \subseteq Nat
               /\ out.requests = 0 => out.rps = 0
         /\ x.rps \in Nat /\ x.valid \in BOOLEAN
         /\ \A y \in Verdicts!Items : SlotOf(x) = SlotOf(y) => x = y
<1>1. legs \in Seq(Measurements) /\ \A y \in Verdicts!Items : \E j \in DOMAIN legs : y = legs[j]
  BY DEF EvidenceOK, Verdicts!Items
<1>2. x \in Measurements
  BY <1>1
<1>3. PICK slot \in Verdicts!SlotsOf(kind), i \in DOMAIN Outputs : x = Verdicts!Leg(kind, slot, i)
  BY <1>2 DEF Measurements
<1>4. SlotOf(x) = slot
  BY <1>3 DEF SlotOf, Verdicts!Leg, Verdicts!SlotsOf
<1> DEFINE out == Outputs[i]
<1>5. out \in Verdicts!ToSet(Outputs)
  BY DEF Verdicts!ToSet
<1>6. {out.requests, out.errors, out.socket, out.rps} \subseteq Nat /\ (out.requests = 0 => out.rps = 0)
  BY <1>5, EvidenceConstants DEF Verdicts!EvidenceAssumption
<1>7. /\ x.reasons = Verdicts!Reasons(kind, out) /\ x.valid = (x.reasons = {}) /\ x.rps = out.rps
      /\ x.accepted = Verdicts!Accepted(out) /\ x.cpu = IF out.requests = 0 THEN "none" ELSE "some"
  BY <1>3 DEF Verdicts!Leg
<1>8. \A y \in Verdicts!Items : SlotOf(x) = SlotOf(y) => x = y
  BY <1>1 DEF EvidenceOK
<1> QED
  BY <1>4, <1>5, <1>6, <1>7, <1>8

\* There are finitely many, with a highest rate.
LEMMA ItemsAreFinite ==
  ASSUME EvidenceOK
  PROVE  IsFiniteSet(Verdicts!Items) /\ \E b \in Nat : \A x \in Verdicts!Items : x.rps <= b
<1> DEFINE n == Len(legs)
           Rates == {x.rps : x \in Verdicts!Items}
<1>1. n \in Nat /\ DOMAIN legs = 1 .. n
  BY DEF EvidenceOK
<1>2. IsFiniteSet(Verdicts!Items)
  <2>1. [j \in 1 .. n |-> legs[j]] \in Surjection(1 .. n, Verdicts!Items)
    BY <1>1 DEF Surjection, Verdicts!Items
  <2>2. IsFiniteSet(1 .. n)
    BY <1>1, FS_Interval
  <2> QED
    BY <2>1, <2>2, FS_Surjection
<1>3. Rates \in SUBSET Nat /\ IsFiniteSet(Rates)
  <2>1. [x \in Verdicts!Items |-> x.rps] \in Surjection(Verdicts!Items, Rates)
    BY DEF Surjection
  <2>2. Rates \in SUBSET Nat
    BY ItemIs
  <2> QED
    BY <1>2, <2>1, <2>2, FS_Surjection
<1>4. CASE Verdicts!Items = {}
  BY <1>2, <1>4
<1>5. CASE Verdicts!Items # {}
  <2>1. PICK m \in Rates : \A r \in Rates : r <= m
    <3>1. Rates # {}
      BY <1>5
    <3> QED
      BY <1>3, <3>1, GreatestOfFinite
  <2>2. m \in Nat /\ \A x \in Verdicts!Items : x.rps <= m
    BY <1>3, <2>1
  <2> QED
    BY <1>2, <2>2
<1> QED
  BY <1>4, <1>5

\* A row of the stability table is about the valid runs of one adapter at one point.
LEMMA StabilityIs ==
  ASSUME EvidenceOK, NEW k, NEW items \in SUBSET Verdicts!Items, NEW s \in Verdicts!Stability(k, items)
  PROVE  LET runs == Verdicts!ValidOf(items, s.engine, s.connections)
         IN /\ s.engine \in Verdicts!EngineSet(k) /\ \E x \in items : s.connections = x.connections
            /\ runs \subseteq items /\ IsFiniteSet(runs) /\ \A x \in runs : x.rps \in Nat
            /\ s.runs = Cardinality(runs) /\ s.runs \in Nat /\ s.median = Verdicts!Median2(runs)
            /\ s.stable \in BOOLEAN /\ (s.stable <=> s.runs >= RequiredRuns /\ Verdicts!Steady(runs))
            /\ s.sustainable \in BOOLEAN /\ (s.sustainable <=> k # "fixed" /\ s.stable)
            /\ s.median \in Nat /\ (s.stable => s.median > 0)
<1> DEFINE Runs(e, c) == Verdicts!ValidOf(items, e, c)
<1>1. PICK e \in Verdicts!EngineSet(k), c \in {i.connections : i \in items} :
         LET samples == Runs(e, c)
             stable == Verdicts!Cardinality(samples) >= RequiredRuns /\ Verdicts!Steady(samples)
         IN s = [engine |-> e, connections |-> c, runs |-> Verdicts!Cardinality(samples),
                 median |-> Verdicts!Median2(samples), stable |-> stable,
                 sustainable |-> k # "fixed" /\ stable]
  BY DEF Verdicts!Stability
<1>2. s.engine = e /\ s.connections = c
  BY <1>1
<1> DEFINE runs == Runs(e, c)
<1>3. runs \subseteq items /\ IsFiniteSet(runs) /\ \A x \in runs : x.rps \in Nat
  <2>1. runs \subseteq items
    BY DEF Verdicts!ValidOf, Verdicts!Of
  <2> QED
    BY <2>1, ItemsAreFinite, ItemIs, FS_Subset
<1>4. Cardinality(runs) \in Nat /\ Verdicts!Median2(runs) \in Nat
      /\ (Verdicts!Steady(runs) => Verdicts!Median2(runs) > 0)
  BY <1>3, FS_CardinalityType, MedianIs
<1>5. /\ s.runs = Cardinality(runs) /\ s.median = Verdicts!Median2(runs)
      /\ s.stable = (Cardinality(runs) >= RequiredRuns /\ Verdicts!Steady(runs))
      /\ s.sustainable = (k # "fixed" /\ Cardinality(runs) >= RequiredRuns /\ Verdicts!Steady(runs))
  BY <1>1, SameCardinality
<1> HIDE DEF runs
<1>6. /\ s.runs = Cardinality(runs) /\ s.runs \in Nat /\ s.median = Verdicts!Median2(runs)
      /\ s.stable \in BOOLEAN /\ (s.stable <=> s.runs >= RequiredRuns /\ Verdicts!Steady(runs))
      /\ s.sustainable \in BOOLEAN /\ (s.sustainable <=> k # "fixed" /\ s.stable)
      /\ s.median \in Nat /\ (s.stable => s.median > 0)
  BY <1>4, <1>5
<1> QED
  BY <1>1, <1>2, <1>3, <1>6 DEF runs

\* Every point that was measured has its row for every adapter.
LEMMA StabilityHas ==
  ASSUME NEW k, NEW items, NEW e \in Verdicts!EngineSet(k), NEW x \in items
  PROVE  \E s \in Verdicts!Stability(k, items) : s.engine = e /\ s.connections = x.connections
<1> DEFINE samples == Verdicts!ValidOf(items, e, x.connections)
           stable == Verdicts!Cardinality(samples) >= RequiredRuns /\ Verdicts!Steady(samples)
           s == [engine |-> e, connections |-> x.connections, runs |-> Verdicts!Cardinality(samples),
                 median |-> Verdicts!Median2(samples), stable |-> stable,
                 sustainable |-> k # "fixed" /\ stable]
<1>1. x.connections \in {i.connections : i \in items}
  OBVIOUS
<1>2. s \in Verdicts!Stability(k, items)
  BY <1>1 DEF Verdicts!Stability
<1>3. s.engine = e /\ s.connections = x.connections
  OBVIOUS
<1> QED
  BY <1>2, <1>3

\* The adapters of each kind of payload.
LEMMA EnginesAre ==
  /\ Verdicts!EngineSet("saturation") = {"baseline", "luminawaf"}
  /\ Verdicts!EngineSet("fixed") = {"baseline", "luminawaf"}
  /\ Verdicts!EngineSet("scaling") = {"baseline", "luminawaf"}
  /\ Verdicts!EngineSet("overhead") = Verdicts!ToSet(Verdicts!Overhead)
BY DEF Verdicts!EngineSet, Verdicts!EnginesOf, Verdicts!ToSet

\* The greatest and the least of a set are what their names say.
LEMMA MaxIs ==
  ASSUME NEW S \in SUBSET Nat, NEW m \in S, \A n \in S : n <= m
  PROVE  Verdicts!Max(S) = m
<1>1. \A x \in S : (\A y \in S : x >= y) => x = m
  OBVIOUS
<1>2. \A y \in S : m >= y
  OBVIOUS
<1> QED
  BY <1>1, <1>2 DEF Verdicts!Max

LEMMA MinIs ==
  ASSUME NEW S \in SUBSET Nat, NEW m \in S, \A n \in S : m <= n
  PROVE  Verdicts!Min(S) = m
<1>1. \A x \in S : (\A y \in S : x <= y) => x = m
  OBVIOUS
<1> QED
  BY <1>1 DEF Verdicts!Min

\* Among rows of a stability table one has the highest median.
LEMMA BestRow ==
  ASSUME EvidenceOK, NEW k, NEW items \in SUBSET Verdicts!Items,
         NEW R \in SUBSET Verdicts!Stability(k, items), R # {}
  PROVE  \E m \in R : \A t \in R : t.median <= m.median
<1> DEFINE Medians == {s.median : s \in R}
<1>1. PICK b \in Nat : \A x \in Verdicts!Items : x.rps <= b
  BY ItemsAreFinite
<1>2. \A s \in R : s.median \in 0 .. 2 * b
  <2> SUFFICES ASSUME NEW s \in R PROVE s.median \in 0 .. 2 * b
    OBVIOUS
  <2> DEFINE runs == Verdicts!ValidOf(items, s.engine, s.connections)
  <2>1. /\ runs \subseteq Verdicts!Items /\ IsFiniteSet(runs) /\ \A x \in runs : x.rps \in Nat
        /\ s.median = Verdicts!Median2(runs) /\ s.median \in Nat
    BY StabilityIs
  <2> HIDE DEF runs
  <2>2. s.median <= 2 * b
    BY <1>1, <2>1, MedianIs
  <2> QED
    BY <2>1, <2>2
<1>3. PICK m \in Medians : \A n \in Medians : n <= m
  <2>1. Medians \in SUBSET (0 .. 2 * b) /\ Medians # {} /\ 2 * b \in Nat
    BY <1>2
  <2> HIDE DEF Medians
  <2> QED
    BY <2>1, GreatestOfNumbers
<1>4. PICK s \in R : m = s.median
  OBVIOUS
<1> QED
  BY <1>3, <1>4

\* The rate a plan is made from is that of the fastest sustainable point, or 0.
LEMMA StableRateIs ==
  ASSUME EvidenceOK, NEW e
  PROVE  LET R == {s \in Verdicts!Stability("saturation", Verdicts!Items) : s.engine = e /\ s.sustainable}
             rate == Verdicts!StableRate(Verdicts!Items, e)
         IN /\ rate \in Nat /\ \A s \in R : s.median <= rate
            /\ R # {} => \E s \in R : s.median = rate
<1> DEFINE R == {s \in Verdicts!Stability("saturation", Verdicts!Items) : s.engine = e /\ s.sustainable}
           Rates == {0} \cup {s.median : s \in R}
           rate == Verdicts!StableRate(Verdicts!Items, e)
<1>1. rate = Verdicts!Max(Rates)
  BY DEF Verdicts!StableRate
<1>2. R \subseteq Verdicts!Stability("saturation", Verdicts!Items) /\ \A s \in R : s.median \in Nat
  BY StabilityIs
<1>3. CASE R = {}
  <2>1. Rates = {0}
    BY <1>3
  <2>2. Verdicts!Max({0}) = 0
    BY MaxIs
  <2> QED
    BY <1>1, <1>3, <2>1, <2>2
<1>4. CASE R # {}
  <2>1. PICK m \in R : \A t \in R : t.median <= m.median
    <3> HIDE DEF R
    <3> QED
      BY <1>2, <1>4, BestRow
  <2>2. m.median \in Rates /\ Rates \in SUBSET Nat /\ \A n \in Rates : n <= m.median
    BY <1>2, <2>1
  <2>3. Verdicts!Max(Rates) = m.median
    <3> HIDE DEF Rates
    <3> QED
      BY <2>2, MaxIs
  <2> QED
    BY <1>1, <1>2, <2>1, <2>3
<1> QED
  BY <1>3, <1>4

\* A sustainable row of the report is the row the plan was made from.
LEMMA QualifiedIsBacked == EvidenceOK => Verdicts!QualifiedRowsAreBacked
<1> SUFFICES ASSUME EvidenceOK, kind = "saturation", NEW row \in Verdicts!SaturationRows(kind, Verdicts!Items)
             PROVE  /\ \E c \in Points : LET runs == Verdicts!ValidOf(Verdicts!Items, row.engine, c) IN
                          /\ Verdicts!Cardinality(runs) >= RequiredRuns /\ Verdicts!Steady(runs)
                          /\ Verdicts!Median2(runs) = row.rps
                    /\ row.rps = Verdicts!StableRate(Verdicts!Items, row.engine)
  BY DEF Verdicts!QualifiedRowsAreBacked
<1>1. PICK s \in Verdicts!Stability("saturation", Verdicts!Items) :
         /\ s.sustainable /\ row.engine = s.engine /\ row.rps = s.median
         /\ \A t \in Verdicts!Stability("saturation", Verdicts!Items) :
               t.sustainable /\ t.engine = s.engine => t.median <= s.median
  BY DEF Verdicts!SaturationRows
<1> DEFINE runs == Verdicts!ValidOf(Verdicts!Items, s.engine, s.connections)
<1>2. /\ \E x \in Verdicts!Items : s.connections = x.connections
      /\ s.runs = Cardinality(runs) /\ s.median = Verdicts!Median2(runs) /\ s.median \in Nat
      /\ s.runs >= RequiredRuns /\ Verdicts!Steady(runs)
  BY <1>1, StabilityIs
<1>3. s.connections \in Points
  <2>1. PICK x \in Verdicts!Items : s.connections = x.connections
    BY <1>2
  <2>2. SlotOf(x) \in Verdicts!SlotsOf("saturation")
    BY ItemIs
  <2>3. x.connections \in Points
    BY <2>2 DEF SlotOf, Verdicts!SlotsOf
  <2> QED
    BY <2>1, <2>3
<1>4. s.median = Verdicts!StableRate(Verdicts!Items, s.engine)
  <2> DEFINE R == {t \in Verdicts!Stability("saturation", Verdicts!Items) : t.engine = s.engine /\ t.sustainable}
             rate == Verdicts!StableRate(Verdicts!Items, s.engine)
  <2>1. /\ rate \in Nat /\ \A t \in R : t.median <= rate
        /\ R # {} => \E t \in R : t.median = rate
    BY StableRateIs
  <2>2. s \in R
    BY <1>1
  <2> HIDE DEF rate
  <2>3. s.median <= rate /\ rate <= s.median
    BY <1>1, <2>1, <2>2
  <2> QED
    BY <1>2, <2>1, <2>3 DEF rate
<1> QED
  BY <1>1, <1>2, <1>3, <1>4, SameCardinality

\* A division that rounds up leaves nothing undone.
LEMMA CeilingOf ==
  ASSUME NEW a \in Nat, NEW b \in Nat, b > 0
  PROVE  Verdicts!CeilDiv(a, b) \in Nat /\ b * Verdicts!CeilDiv(a, b) >= a
<1> DEFINE q == (a + b - 1) \div b
<1>1. q \in Int /\ a + b - 1 = b * q + ((a + b - 1) % b) /\ (a + b - 1) % b \in 0 .. b - 1
  OBVIOUS
<1> HIDE DEF q
<1>2. b * q \in Int /\ b * q >= a
  BY <1>1
<1>3. q \in Nat
  BY <1>1, <1>2
<1> QED
  BY <1>2, <1>3 DEF q, Verdicts!CeilDiv

\* A rate within the ceiling and a duration for it yield the samples.
LEMMA PlanIsBacked == EvidenceOK => Verdicts!PlanIsAffordable
<1> SUFFICES ASSUME EvidenceOK, kind = "saturation",
                    NEW asked \in {0, 1, 60, 61}, NEW seconds \in {0, 2020},
                    NEW plan \in Verdicts!SamplingPlan(Verdicts!Items, asked, seconds)
             PROVE  /\ plan.rate * 90 * plan.seconds >= Verdicts!TargetSamples * 100
                    /\ \A e \in Verdicts!EngineSet(kind) :
                          plan.rate = 1 \/ plan.rate * 20 <= Verdicts!StableRate(Verdicts!Items, e) * 6
  BY DEF Verdicts!PlanIsAffordable
<1> DEFINE Rates == {Verdicts!StableRate(Verdicts!Items, e) : e \in Verdicts!EngineSet("saturation")}
           limit == Verdicts!Min(Rates)
           share == (limit * 6) \div 20
           ceiling == Verdicts!RateCeiling(Verdicts!Items)
           rate == IF asked # 0 THEN asked ELSE ceiling
           needed == Verdicts!SecondsFor(rate)
           length == IF seconds # 0 THEN seconds ELSE needed
<1>1. plan.rate = rate /\ plan.seconds = length /\ ~(rate > ceiling) /\ ~(length < needed)
  BY DEF Verdicts!SamplingPlan
<1>2. limit \in Nat /\ \A e \in Verdicts!EngineSet("saturation") : limit <= Verdicts!StableRate(Verdicts!Items, e)
  <2>1. Rates \in SUBSET Nat /\ Rates # {}
    BY StableRateIs, EnginesAre
  <2>2. PICK m \in Rates : \A n \in Rates : m <= n
    <3> HIDE DEF Rates
    <3> QED
      BY <2>1, LeastOfNumbers
  <2>3. limit = m
    <3> HIDE DEF Rates
    <3> QED
      BY <2>1, <2>2, MinIs
  <2> QED
    BY <2>1, <2>2, <2>3
<1>3. ceiling \in Nat /\ ceiling >= 1 /\ (ceiling = 1 \/ ceiling = share)
  <2>1. ceiling = Verdicts!Max({1, share})
    BY DEF Verdicts!RateCeiling
  <2>2. share \in Nat
    <3> HIDE DEF limit
    <3> QED
      BY <1>2
  <2> HIDE DEF share, ceiling
  <2>3. CASE share <= 1
    <3>1. Verdicts!Max({1, share}) = 1
      BY <2>2, <2>3, MaxIs
    <3> QED
      BY <2>1, <3>1
  <2>4. CASE share > 1
    <3>1. Verdicts!Max({1, share}) = share
      BY <2>2, <2>4, MaxIs
    <3> QED
      BY <2>1, <2>2, <2>4, <3>1
  <2> QED
    BY <2>2, <2>3, <2>4
<1>4. rate \in Nat /\ rate >= 1
  <2> HIDE DEF ceiling
  <2> QED
    BY <1>3
<1>5. plan.rate * 90 * plan.seconds >= Verdicts!TargetSamples * 100
  <2> DEFINE a == 11000000
             b == rate * 90
             q == Verdicts!CeilDiv(a, b)
  <2>1. needed = q
    BY SMT DEF Verdicts!SecondsFor, Verdicts!TargetSamples
  <2>8. a \in Nat /\ a >= Verdicts!TargetSamples * 100 /\ Verdicts!TargetSamples \in Nat
    BY SMT DEF Verdicts!TargetSamples
  <2> HIDE DEF a
  <2>2. b \in Nat /\ b > 0
    <3> HIDE DEF rate
    <3> QED
      BY <1>4
  <2>3. q \in Nat /\ b * q >= a
    <3> HIDE DEF b
    <3> QED
      BY <2>2, <2>8, CeilingOf
  <2>4. length \in Nat /\ q <= length
    <3> HIDE DEF q, rate
    <3> QED
      BY <1>1, <2>1, <2>3
  <2>5. b * q <= b * length
    <3> HIDE DEF b, q, length
    <3> QED
      BY <2>2, <2>3, <2>4
  <2>6. b * length >= a
    <3> HIDE DEF b, q, length
    <3> QED
      BY <2>2, <2>3, <2>4, <2>5, <2>8
  <2>7. plan.rate * 90 * plan.seconds = b * length
    BY <1>1
  <2> QED
    <3> HIDE DEF b, length
    <3> QED
      BY <2>2, <2>4, <2>6, <2>7, <2>8
<1>6. ASSUME NEW e \in Verdicts!EngineSet(kind), plan.rate # 1
      PROVE  plan.rate * 20 <= Verdicts!StableRate(Verdicts!Items, e) * 6
  <2> DEFINE own == Verdicts!StableRate(Verdicts!Items, e)
  <2>1. own \in Nat /\ limit <= own
    BY <1>2, StableRateIs
  <2> HIDE DEF own, limit, ceiling, rate
  <2>2. rate <= share
    BY <1>1, <1>2, <1>3, <1>4, <1>6
  <2>3. share * 20 <= limit * 6
    BY <1>2
  <2> HIDE DEF share
  <2>4. share \in Int
    BY <1>2 DEF share
  <2>5. rate * 20 <= own * 6
    BY <1>2, <1>4, <2>1, <2>2, <2>3, <2>4
  <2> QED
    BY <1>1, <2>5 DEF own
<1> QED
  BY <1>5, <1>6

\* A valid scaling summary has a row of every adapter at every worker count.
LEMMA ScalingIsBacked == EvidenceOK => Verdicts!ScalingIsGrounded
<1> SUFFICES ASSUME EvidenceOK, kind = "scaling", Verdicts!ScalingValid
             PROVE  /\ \A w \in WorkerPoints, e \in Verdicts!EngineSet(kind) :
                          \E row \in Verdicts!ScalingRows : row.engine = e /\ row.workers = w /\ row.rps > 0
                    /\ \A row \in Verdicts!ScalingRows : row.blocking =>
                          \E c \in Points : LET runs == Verdicts!ValidOf(Verdicts!Payload(row.workers), row.engine, c)
                                            IN runs # {} /\ \A i \in runs : i.client <= ClientLimit
  BY DEF Verdicts!ScalingIsGrounded
<1>1. \A row : row \in Verdicts!ScalingRows
                 <=> \E w \in WorkerPoints, e \in Verdicts!EngineSet("scaling") :
                       \E s \in Verdicts!BestPoints(w, e) : row = Verdicts!ScalingRow(w, e, s)
  <2> DEFINE Some(w, e) == {Verdicts!ScalingRow(w, e, s) : s \in Verdicts!BestPoints(w, e)}
             All == {Some(w, e) : w \in WorkerPoints, e \in Verdicts!EngineSet("scaling")}
  <2>1. Verdicts!ScalingRows = UNION All
    BY DEF Verdicts!ScalingRows
  <2>2. \A w, e, row : row \in Some(w, e) <=> \E s \in Verdicts!BestPoints(w, e) : row = Verdicts!ScalingRow(w, e, s)
    BY Zenon
  <2> HIDE DEF Some
  <2>3. \A some : some \in All <=> \E w \in WorkerPoints, e \in Verdicts!EngineSet("scaling") : some = Some(w, e)
    BY SMT
  <2> HIDE DEF All
  <2>4. \A row : row \in Verdicts!ScalingRows <=> \E some \in All : row \in some
    BY <2>1, Zenon
  <2>5. ASSUME NEW row \in Verdicts!ScalingRows
        PROVE  \E w \in WorkerPoints, e \in Verdicts!EngineSet("scaling") :
                 \E s \in Verdicts!BestPoints(w, e) : row = Verdicts!ScalingRow(w, e, s)
    <3>1. PICK some \in All : row \in some
      BY <2>4
    <3>2. PICK w \in WorkerPoints, e \in Verdicts!EngineSet("scaling") : some = Some(w, e)
      BY <2>3
    <3> QED
      BY <2>2, <3>1, <3>2
  <2>6. ASSUME NEW w \in WorkerPoints, NEW e \in Verdicts!EngineSet("scaling"),
               NEW s \in Verdicts!BestPoints(w, e)
        PROVE  Verdicts!ScalingRow(w, e, s) \in Verdicts!ScalingRows
    <3>1. Some(w, e) \in All
      BY <2>3
    <3>2. Verdicts!ScalingRow(w, e, s) \in Some(w, e)
      BY <2>2
    <3> QED
      BY <2>4, <3>1, <3>2
  <2> QED
    BY <2>5, <2>6
<1>2. ASSUME NEW w, NEW e, NEW s \in Verdicts!BestPoints(w, e)
      PROVE  /\ s \in Verdicts!Stability("scaling", Verdicts!Payload(w)) /\ Verdicts!Payload(w) \subseteq Verdicts!Items
             /\ s.engine = e /\ s.sustainable /\ s.median \in Nat /\ s.median > 0
             /\ \E x \in Verdicts!Payload(w) : s.connections = x.connections
  <2>1. s \in Verdicts!Stability("scaling", Verdicts!Payload(w)) /\ s.engine = e /\ s.sustainable
    BY DEF Verdicts!BestPoints
  <2>2. Verdicts!Payload(w) \subseteq Verdicts!Items
    BY DEF Verdicts!Payload
  <2> QED
    BY <2>1, <2>2, StabilityIs
<1>3. ASSUME NEW w \in WorkerPoints, NEW e \in Verdicts!EngineSet(kind)
      PROVE  \E row \in Verdicts!ScalingRows : row.engine = e /\ row.workers = w /\ row.rps > 0
  <2>1. PICK s \in Verdicts!BestPoints(w, e) : TRUE
    BY DEF Verdicts!ScalingValid
  <2>2. Verdicts!ScalingRow(w, e, s) \in Verdicts!ScalingRows
    BY <1>1
  <2>3. Verdicts!ScalingRow(w, e, s).engine = e /\ Verdicts!ScalingRow(w, e, s).workers = w /\ Verdicts!ScalingRow(w, e, s).rps = s.median
    BY DEF Verdicts!ScalingRow
  <2>4. s.median > 0
    BY <1>2
  <2> QED
    BY <2>2, <2>3, <2>4
<1>4. ASSUME NEW row \in Verdicts!ScalingRows, row.blocking
      PROVE  \E c \in Points : LET runs == Verdicts!ValidOf(Verdicts!Payload(row.workers), row.engine, c)
                               IN runs # {} /\ \A i \in runs : i.client <= ClientLimit
  <2>0. PICK w \in WorkerPoints, e \in Verdicts!EngineSet("scaling") :
           \E s \in Verdicts!BestPoints(w, e) : row = Verdicts!ScalingRow(w, e, s)
    BY <1>1
  <2>1. PICK s \in Verdicts!BestPoints(w, e) : row = Verdicts!ScalingRow(w, e, s)
    BY <2>0
  <2>2. row.qualified
    BY <1>4 DEF Verdicts!ScalingValid
  <2> DEFINE runs == Verdicts!ValidOf(Verdicts!Payload(w), e, s.connections)
  <2>3. row.workers = w /\ row.engine = e /\ row.qualified = (Verdicts!Cardinality(runs) >= RequiredRuns /\ Verdicts!Steady(runs) /\ Verdicts!Headroom(runs))
    BY <2>1 DEF Verdicts!ScalingRow
  <2>4. Verdicts!Cardinality(runs) >= RequiredRuns /\ Verdicts!Headroom(runs)
    BY <2>2, <2>3
  <2>5. runs # {}
    <3>1. RequiredRuns \in Nat \ {0}
      BY EvidenceConstants DEF Verdicts!EvidenceAssumption
    <3>2. ~(0 >= RequiredRuns)
      BY <3>1
    <3> QED
      BY <2>4, <3>2, SameCardinality, FS_EmptySet
  <2>6. s.connections \in Points
    <3>1. PICK x \in Verdicts!Payload(w) : s.connections = x.connections
      BY <1>2
    <3>2. x \in Verdicts!Items
      BY DEF Verdicts!Payload
    <3>3. SlotOf(x) \in Verdicts!SlotsOf("scaling")
      BY <3>2, ItemIs
    <3>4. x.connections \in Points
      <4>1. x.connections = Verdicts!Min(Points)
        BY <3>3 DEF SlotOf, Verdicts!SlotsOf
      <4>2. Points \in SUBSET Nat /\ Points # {}
        BY EvidenceConstants DEF Verdicts!EvidenceAssumption
      <4>3. PICK m \in Points : \A n \in Points : m <= n
        BY <4>2, LeastOfNumbers
      <4>4. Verdicts!Min(Points) = m
        BY <4>2, <4>3, MinIs
      <4> QED
        BY <4>1, <4>3, <4>4
    <3> QED
      BY <3>1, <3>4
  <2>7. \A i \in runs : i.client <= ClientLimit
    BY <2>4 DEF Verdicts!Headroom
  <2> QED
    BY <2>3, <2>5, <2>6, <2>7
<1> QED
  BY <1>3, <1>4

\* A pair is of valid legs.
LEMMA PairsAreBacked == Verdicts!PairsAreValid
BY DEF Verdicts!PairsAreValid, Verdicts!Pairs, Verdicts!Paired

\* A fixed-rate leg without enough accepted responses is given a reason for it.
LEMMA ShortLegsHaveReasons ==
  ASSUME NEW out, ~(Verdicts!Accepted(out) >= MinSamples), Verdicts!Accepted(out) \in Nat
  PROVE  Verdicts!Reasons("fixed", out) # {}
<1>1. MinSamples \in Nat
  BY EvidenceConstants DEF Verdicts!EvidenceAssumption
<1>2. Verdicts!Accepted(out) < MinSamples
  BY <1>1
<1>3. "accepted samples" \in Verdicts!Reasons("fixed", out)
  BY <1>2 DEF Verdicts!Reasons
<1> QED
  BY <1>3

\* Each of the three payloads: what is valid is qualified.
LEMMA SaturationQualified ==
  ASSUME EvidenceOK, NEW n, Verdicts!Valid("saturation", Verdicts!Items, n)
  PROVE  Verdicts!Status("saturation")
<1> DEFINE stability == Verdicts!Stability("saturation", Verdicts!Items)
           table == Verdicts!SaturationRows("saturation", Verdicts!Items)
<1>1. PICK s \in stability : s.stable /\ s.engine = "baseline"
  <2>1. Verdicts!EngineSet("saturation") \subseteq {s.engine : s \in {s \in stability : s.stable}}
    BY DEF Verdicts!Valid
  <2> QED
    BY <2>1, EnginesAre
<1>2. s.sustainable
  BY <1>1, StabilityIs
<1> DEFINE R == {t \in stability : t.sustainable /\ t.engine = "baseline"}
<1>3. PICK m \in R : \A t \in R : t.median <= m.median
  <2>1. R \in SUBSET stability /\ R # {}
    BY <1>1, <1>2
  <2> HIDE DEF R
  <2> QED
    BY <2>1, BestRow
<1>4. table # {}
  <2>1. [engine |-> m.engine, rps |-> m.median, qualified |-> m.runs >= RequiredRuns] \in table
    BY <1>3 DEF Verdicts!SaturationRows
  <2> QED
    BY <2>1
<1>5. \A row \in table : row.qualified
  <2> SUFFICES ASSUME NEW row \in table PROVE row.qualified
    OBVIOUS
  <2>1. PICK t \in stability : t.sustainable /\ row.qualified = (t.runs >= RequiredRuns)
    BY DEF Verdicts!SaturationRows
  <2>2. t.runs >= RequiredRuns
    BY <2>1, StabilityIs
  <2> QED
    BY <2>1, <2>2
<1> QED
  BY <1>4, <1>5 DEF Verdicts!Status

\* A payload of one point has all its legs at that point.
LEMMA OnePoint ==
  ASSUME EvidenceOK, kind # "saturation", NEW x \in Verdicts!Items
  PROVE  x.connections = Verdicts!Min(Points)
BY ItemIs DEF SlotOf, Verdicts!SlotsOf

LEMMA FixedQualified ==
  ASSUME EvidenceOK, kind = "fixed", NEW n, Verdicts!Valid("fixed", Verdicts!Items, n)
  PROVE  Verdicts!Status("fixed")
<1> DEFINE stability == Verdicts!Stability("fixed", Verdicts!Items)
           table == Verdicts!FixedRows(Verdicts!Items)
           Own(e) == {i \in Verdicts!Items : i.engine = e /\ i.valid}
<1>1. Verdicts!Items # {} /\ \A x \in Verdicts!Items : x.valid
  BY DEF Verdicts!Valid
<1>2. table # {}
  <2>1. PICK x \in Verdicts!Items : x.valid
    BY <1>1
  <2>2. Verdicts!FixedRow(Verdicts!Items, x.engine) \in table
    BY <2>1 DEF Verdicts!FixedRows
  <2> QED
    BY <2>2
<1>3. ASSUME NEW row \in table
      PROVE  row.qualified
  <2>0. PICK x \in Verdicts!Items : row = Verdicts!FixedRow(Verdicts!Items, x.engine)
    BY <1>3 DEF Verdicts!FixedRows
  <2> DEFINE e == x.engine
  <2>1. row.qualified = (/\ Verdicts!Cardinality(Own(e)) >= RequiredRuns /\ Verdicts!Steady(Own(e))
                         /\ \A i \in Own(e) : i.accepted >= MinSamples)
    BY <2>0 DEF Verdicts!FixedRow
  <2>2. e \in Verdicts!EngineSet("fixed")
    BY ItemIs DEF SlotOf, Verdicts!SlotsOf
  <2>3. PICK s \in stability : s.stable /\ s.engine = e
    <3>1. Verdicts!EngineSet("fixed") \subseteq {t.engine : t \in {t \in stability : t.stable}}
      BY DEF Verdicts!Valid
    <3> QED
      BY <2>2, <3>1
  <2> DEFINE runs == Verdicts!ValidOf(Verdicts!Items, s.engine, s.connections)
  <2>4. /\ \E y \in Verdicts!Items : s.connections = y.connections
        /\ s.runs = Cardinality(runs) /\ s.runs >= RequiredRuns /\ Verdicts!Steady(runs)
    BY <2>3, StabilityIs
  <2>5. runs = Own(e)
    BY <2>3, <2>4, OnePoint DEF Verdicts!ValidOf, Verdicts!Of
  <2>6. ASSUME NEW i \in Own(e) PROVE i.accepted >= MinSamples
    <3>1. PICK out : /\ i.reasons = Verdicts!Reasons("fixed", out) /\ i.valid = (i.reasons = {})
                     /\ i.accepted = Verdicts!Accepted(out)
                     /\ {out.requests, out.errors, out.socket, out.rps} \subseteq Nat
      BY ItemIs
    <3>2. Verdicts!Accepted(out) \in Nat
      BY <3>1 DEF Verdicts!Accepted
    <3> QED
      BY <3>1, <3>2, ShortLegsHaveReasons
  <2> HIDE DEF runs, Own
  <2> QED
    BY <2>1, <2>4, <2>5, <2>6, SameCardinality
<1> QED
  BY <1>2, <1>3 DEF Verdicts!Status

\* A leg without a response has the rate nought: at most one in 401 goes unnoticed.
LEMMA SteadyRunsAnswer ==
  ASSUME NEW T, IsFiniteSet(T), \A x \in T : x.rps \in Nat, Verdicts!Steady(T), Cardinality(T) <= 401
  PROVE  \A x \in T : x.rps # 0
<1> DEFINE n == Cardinality(T)
           Rising == {x \in T : x.rps # 0}
           p == Cardinality(Rising)
<1>1. n \in Nat /\ p \in 1 .. n /\ 400 * (n * (n - p)) <= p * (n - 1)
  BY SteadyRates
<1>2. p = n
  <2> SUFFICES ASSUME p # n PROVE FALSE
    OBVIOUS
  <2> HIDE DEF p, n
  <2>1. n - p >= 1 /\ p <= n - 1 /\ n >= 1
    BY <1>1
  <2>2. n * 1 <= n * (n - p)
    BY <1>1, <2>1
  <2>3. p * (n - 1) <= (n - 1) * (n - 1)
    BY <1>1, <2>1
  <2>4. (n - 1) * (n - 1) <= 400 * (n - 1)
    <3>1. n <= 401
      BY DEF n
    <3> QED
      BY <1>1, <2>1, <3>1
  <2>5. p * (n - 1) \in Int /\ n * (n - p) \in Int /\ (n - 1) * (n - 1) \in Int
    BY <1>1
  <2> QED
    BY <1>1, <2>1, <2>2, <2>3, <2>4, <2>5
<1>3. Rising = T
  BY <1>2, FS_Subset
<1> QED
  BY <1>3

LEMMA OverheadQualified ==
  ASSUME EvidenceOK, kind = "overhead", todo = {}, Repetitions <= 401, NEW n,
         Verdicts!Valid("overhead", Verdicts!Items, n)
  PROVE  Verdicts!Status("overhead")
<1> DEFINE stability == Verdicts!Stability("overhead", Verdicts!Items)
           table == Verdicts!AbsoluteRows(Verdicts!Items)
           Row(s) == [engine |-> s.engine, connections |-> s.connections,
                      qualified |-> s.runs >= RequiredRuns /\ s.stable]
<1>1. /\ Verdicts!Items # {} /\ \A x \in Verdicts!Items : x.valid
      /\ stability # {} /\ \A s \in stability : s.stable
  BY DEF Verdicts!Valid
<1>2. RequiredRuns \in Nat \ {0} /\ Repetitions \in Nat \ {0}
  BY EvidenceConstants DEF Verdicts!EvidenceAssumption
<1>3. \A s \in stability : s.runs \in Nat /\ s.runs >= RequiredRuns /\ s.runs > 0
  <2>1. \A s \in stability : s.runs \in Nat /\ s.runs >= RequiredRuns
    BY <1>1, StabilityIs
  <2> QED
    BY <1>2, <2>1
<1>4. table # {} /\ \A row \in table : row.qualified
  <2>1. table = {Row(s) : s \in {s \in stability : s.runs > 0}}
    BY DEF Verdicts!AbsoluteRows
  <2>2. {s \in stability : s.runs > 0} = stability
    BY <1>3
  <2>3. table = {Row(s) : s \in stability}
    BY <2>1, <2>2
  <2>4. \A s \in stability : Row(s).qualified
    BY <1>1, <1>3
  <2>5. \A s \in stability : Row(s) \in table
    BY <2>3
  <2> HIDE DEF Row, stability
  <2>6. \A row \in table : \E s \in stability : row = Row(s)
    BY <2>3
  <2> QED
    BY <1>1, <2>4, <2>5, <2>6
<1>5. ASSUME NEW x \in Verdicts!Items
      PROVE  x.cpu # "none" /\ RequiredRuns <= Repetitions
  <2>1. PICK s \in stability : s.engine = x.engine /\ s.connections = x.connections
    <3>1. x.engine \in Verdicts!EngineSet("overhead")
      BY ItemIs DEF SlotOf, Verdicts!SlotsOf
    <3> QED
      BY <3>1, StabilityHas
  <2> DEFINE runs == Verdicts!ValidOf(Verdicts!Items, s.engine, s.connections)
  <2>2. /\ runs \subseteq Verdicts!Items /\ IsFiniteSet(runs) /\ \A y \in runs : y.rps \in Nat
        /\ s.runs = Cardinality(runs) /\ Verdicts!Steady(runs)
    BY <1>1, StabilityIs
  <2>3. x \in runs /\ \A y \in runs : y.engine = x.engine /\ y.connections = x.connections
    BY <1>1, <2>1 DEF Verdicts!ValidOf, Verdicts!Of
  <2> HIDE DEF runs
  <2>4. Cardinality(runs) <= Repetitions
    <3> DEFINE f == [y \in runs |-> y.repetition]
    <3>1. \A y \in runs : y.repetition \in 1 .. Repetitions /\ y.workers = 1
      BY <2>2, ItemIs DEF SlotOf, Verdicts!SlotsOf
    <3>2. \A y, z \in runs : y.repetition = z.repetition => y = z
      <4> SUFFICES ASSUME NEW y \in runs, NEW z \in runs, y.repetition = z.repetition PROVE y = z
        OBVIOUS
      <4>1. SlotOf(y) = SlotOf(z)
        BY <2>3, <3>1 DEF SlotOf
      <4> QED
        BY <2>2, <4>1, ItemIs
    <3>3. f \in Injection(runs, 1 .. Repetitions)
      BY <3>1, <3>2 DEF Injection, IsInjective
    <3>4. IsFiniteSet(1 .. Repetitions) /\ Cardinality(1 .. Repetitions) = Repetitions
      BY <1>2, FS_Interval
    <3> QED
      BY <3>3, <3>4, FS_Injection
  <2>5. x.rps # 0
    <3>1. Cardinality(runs) \in Nat /\ Cardinality(runs) <= 401
      BY <1>2, <2>2, <2>4, FS_CardinalityType
    <3> QED
      BY <2>2, <2>3, <3>1, SteadyRunsAnswer
  <2>6. x.cpu # "none"
    BY <2>5, ItemIs
  <2>7. RequiredRuns <= Repetitions
    BY <1>2, <1>3, <2>1, <2>2, <2>4
  <2> QED
    BY <2>6, <2>7
<1>6. ASSUME NEW x \in Verdicts!Items, NEW r \in 1 .. Repetitions
      PROVE  Verdicts!Paired(Verdicts!Items, r, x.connections)
  <2> DEFINE group == {i \in Verdicts!Items : i.repetition = r /\ i.connections = x.connections}
  <2>1. {i.engine : i \in group} \subseteq Verdicts!EngineSet("overhead")
    <3>1. ASSUME NEW i \in Verdicts!Items
          PROVE  i.engine \in Verdicts!EngineSet("overhead")
      <4>1. SlotOf(i) \in Verdicts!SlotsOf("overhead")
        BY ItemIs
      <4> QED
        BY <4>1 DEF SlotOf, Verdicts!SlotsOf
    <3> QED
      BY <3>1
  <2>2. ASSUME NEW e \in Verdicts!EngineSet("overhead")
        PROVE  \E i \in group : i.engine = e
    <3> DEFINE slot == [workers |-> 1, repetition |-> r, connections |-> x.connections, engine |-> e]
    <3>1. slot \in Verdicts!SlotsOf(kind)
      BY OnePoint DEF Verdicts!SlotsOf
    <3>2. PICK j \in DOMAIN legs : SlotOf(legs[j]) = slot
      BY <3>1 DEF EvidenceOK
    <3>3. legs[j] \in Verdicts!Items /\ legs[j].engine = e /\ legs[j].repetition = r
          /\ legs[j].connections = x.connections
      BY <3>2 DEF Verdicts!Items, SlotOf
    <3> QED
      BY <3>3
  <2>3. {i.engine : i \in group} = Verdicts!ToSet(Verdicts!Overhead)
    BY <2>1, <2>2, EnginesAre
  <2>4. \A i \in group : i.valid /\ i.cpu # "none"
    BY <1>1, <1>5
  <2> QED
    BY <2>3, <2>4 DEF Verdicts!Paired
<1>7. ASSUME NEW x \in Verdicts!Items
      PROVE  Verdicts!Cardinality(Verdicts!Pairs(Verdicts!Items, x.connections)) >= RequiredRuns
  <2>1. Verdicts!Pairs(Verdicts!Items, x.connections) = 1 .. Repetitions
    BY <1>6 DEF Verdicts!Pairs
  <2>2. Cardinality(1 .. Repetitions) = Repetitions
    BY <1>2, FS_Interval
  <2> QED
    BY <1>2, <1>5, <2>1, <2>2, SameCardinality
<1>8. \A c \in {i.connections : i \in Verdicts!Items} :
         /\ Verdicts!Cardinality(Verdicts!Pairs(Verdicts!Items, c)) >= RequiredRuns
         /\ \A r \in 1 .. Repetitions : Verdicts!Paired(Verdicts!Items, r, c)
  BY <1>6, <1>7
<1> QED
  BY <1>4, <1>8 DEF Verdicts!Status

\* What e2e.py accepts report.py qualifies.
LEMMA ReportIsRight ==
  ASSUME EvidenceOK, Repetitions <= 401
  PROVE  Verdicts!ReportAgrees
<1> SUFFICES ASSUME todo = {}, kind # "scaling",
                    Verdicts!Valid(kind, Verdicts!Items, Verdicts!Cardinality(Verdicts!SlotsOf(kind)))
             PROVE  Verdicts!Status(kind)
  BY DEF Verdicts!ReportAgrees, Verdicts!Done
<1>1. kind \in {"saturation", "fixed", "overhead"}
  BY EvidenceConstants DEF EvidenceOK, Verdicts!EvidenceAssumption
<1>2. CASE kind = "saturation"
  BY <1>2, SaturationQualified
<1>3. CASE kind = "fixed"
  BY <1>3, FixedQualified
<1>4. CASE kind = "overhead"
  BY <1>4, OverheadQualified
<1> QED
  BY <1>1, <1>2, <1>3, <1>4

\* Each leg of the payload is to be measured or has its one result, whatever the
\* order of the runs, and nothing else is in the evidence.
THEOREM EvidenceInvariant == Spec => [](part = "evidence" => EvidenceOK)
<1>1. Init => (part = "evidence" => EvidenceOK)
  BY EvidenceStarts DEF Init
<1>2. (part = "evidence" => EvidenceOK) /\ [Next]_vars => (part = "evidence" => EvidenceOK)'
  <2> SUFFICES ASSUME part = "evidence" => EvidenceOK, [Next]_vars, part' = "evidence" PROVE EvidenceOK'
    OBVIOUS
  <2>1. EvidenceOK /\ (Verdicts!Next \/ UNCHANGED <<kind, todo, legs>>)
    BY DEF Next, LegsStep, vars
  <2>2. CASE Verdicts!Next
    BY <2>1, <2>2, EvidenceStep
  <2>3. CASE UNCHANGED <<kind, todo, legs>>
    <3>1. Measurements' = Measurements /\ Verdicts!SlotsOf(kind)' = Verdicts!SlotsOf(kind)
      BY <2>3 DEF Measurements, Verdicts!Leg, Verdicts!SlotsOf
    <3>2. \A j : SlotOf(legs[j])' = SlotOf(legs[j])
      BY <2>3 DEF SlotOf
    <3> QED
      BY <2>1, <2>3, <3>1, <3>2 DEF EvidenceOK
  <2> QED
    BY <2>1, <2>2, <2>3
<1> QED
  BY <1>1, <1>2, PTL DEF Spec

\* What is published of the legs (sustainable points, the plan of the next
\* measurement, paired deltas, speedups) rests on enough valid runs that agree.
THEOREM PublishedAlwaysBacked == Spec => []PublishedRowsAreBacked
<1>1. (part = "evidence" => EvidenceOK) => PublishedRowsAreBacked
  BY QualifiedIsBacked, PlanIsBacked, PairsAreBacked, ScalingIsBacked DEF PublishedRowsAreBacked
<1> QED
  BY <1>1, EvidenceInvariant, PTL

\* What e2e.py accepts report.py qualifies, as long as a point has no more runs than
\* 401: of 402, one in which nothing was answered leaves the others within 5%, and
\* has no CPU time to pair.
THEOREM ReportAlwaysAgrees ==
  ASSUME Repetitions <= 401
  PROVE  Spec => []ReportAgrees
<1>1. (part = "evidence" => EvidenceOK) => ReportAgrees
  BY ReportIsRight DEF ReportAgrees
<1> QED
  BY <1>1, EvidenceInvariant, PTL

-----------------------------------------------------------------------------
(* The gates over the files                                                *)

\* A file holds rows of its kind.
FileOK == kind \in DOMAIN Rows /\ rows \in Seq(Rows[kind])

\* The comparator's threshold: the last assignment that takes effect is one the
\* manifest has read, unless a line it does not look at assigns another.
LEMMA ManifestGate ==
  ASSUME FileOK, Gates!ManifestErrors = {}, Gates!Overridden = {}
  PROVE  Gates!EffectivePolicy = 5
<1>1. DOMAIN rows = 1 .. Len(rows) /\ Len(rows) \in Nat
  BY DEF FileOK
<1> DEFINE I == Gates!Included
           A == Gates!Assigning
           E == Gates!Effective
<1>2. I \subseteq 1 .. Len(rows) /\ A \subseteq 1 .. Len(rows)
  BY <1>1 DEF Gates!Included, Gates!Assigning
<1>3. Gates!PolicyValue = 5
  BY DEF Gates!ManifestErrors
<1>4. I \cap A # {}
  BY <1>3 DEF Gates!PolicyValue
<1>5. PICK m \in I \cap A : \A n \in I \cap A : m <= n
  <2>1. I \cap A \in SUBSET Nat
    BY <1>2
  <2> HIDE DEF I, A
  <2> QED
    BY <1>4, <2>1, LeastOfNumbers
<1>6. Gates!Min(I \cap A) = m
  <2>1. \A x, y \in I \cap A : x <= y /\ y <= x => x = y
    BY <1>2
  <2> HIDE DEF I, A
  <2> QED
    BY <1>5, <2>1 DEF Gates!Min
<1>7. rows[m].sets = 5
  BY <1>3, <1>4, <1>6 DEF Gates!PolicyValue
<1>8. PICK f \in A : \A n \in A : f <= n
  BY <1>2, <1>5, LeastOfNumbers
<1>9. f \in E /\ E \subseteq A /\ \A i \in E : rows[i].default => i = f
  BY <1>2, <1>8 DEF Gates!Effective
<1>10. PICK e \in E : \A n \in E : n <= e
  <2>1. E \in SUBSET (0 .. Len(rows)) /\ E # {}
    BY <1>1, <1>2, <1>9
  <2> QED
    BY <1>1, <2>1, GreatestOfNumbers
<1>11. Gates!Max(E) = e
  <2>1. \A x, y \in E : (x >= y <=> y <= x) /\ (x <= y /\ y <= x => x = y)
    BY <1>1, <1>2, <1>9
  <2> HIDE DEF E
  <2> QED
    BY <1>10, <2>1 DEF Gates!Max
<1>12. \A i \in A : rows[i].sets = 5 \/ (rows[i].default /\ i \in I)
  BY DEF Gates!Overridden, Gates!Assigning, Gates!Included
<1>13. rows[e].sets = 5
  <2>1. CASE rows[e].default /\ e \in I
    <3>1. e = m
      BY <1>1, <1>2, <1>5, <1>8, <1>9, <1>10, <2>1
    <3> QED
      BY <1>7, <3>1
  <2> QED
    BY <1>9, <1>10, <1>12, <2>1
<1> QED
  BY <1>9, <1>11, <1>13 DEF Gates!EffectivePolicy

\* Google Benchmark: with a median of every benchmark from every process, each has
\* its row.
LEMMA MicroGate ==
  ASSUME FileOK, Gates!MicroValid
  PROVE  /\ {r.name : r \in Gates!MicroRows} = Benchmarks
         /\ \A r \in Gates!MicroRows : r.qualified
<1> DEFINE Medians(b) == Gates!Count(LAMBDA p : "median" \in p[b].aggregates)
<1>1. /\ DOMAIN rows = 1 .. Len(rows) /\ Len(rows) = Processes
      /\ Processes \in Nat \ {0}
  BY GateConstants DEF FileOK, Gates!MicroValid, Gates!GateAssumption
<1>2. \A i \in DOMAIN rows : rows[i] \in Gates!All
  BY DEF Gates!All, Gates!ToSet
<1>3. ASSUME NEW b \in Benchmarks
      PROVE  Medians(b) = Processes
  <2>1. \A i \in DOMAIN rows : "median" \in rows[i][b].aggregates
    BY <1>2 DEF Gates!MicroValid
  <2>2. {i \in DOMAIN rows : "median" \in rows[i][b].aggregates} = 1 .. Processes
    BY <1>1, <2>1
  <2>3. Cardinality(1 .. Processes) = Processes
    BY <1>1, FS_Interval
  <2>4. Medians(b) = Cardinality({i \in DOMAIN rows : "median" \in rows[i][b].aggregates})
    BY DEF Gates!Count, Gates!Cardinality, Cardinality
  <2> QED
    BY <2>2, <2>3, <2>4
<1>4. Gates!MicroRows = {[name |-> b, qualified |-> Medians(b) >= Processes]
                         : b \in {b \in Benchmarks : Medians(b) > 0}}
  BY DEF Gates!MicroRows
<1> HIDE DEF Medians
<1>5. {b \in Benchmarks : Medians(b) > 0} = Benchmarks
  BY <1>1, <1>3
<1>6. \A b \in Benchmarks : Medians(b) >= Processes
  BY <1>1, <1>3
<1>7. Gates!MicroRows = {[name |-> b, qualified |-> TRUE] : b \in Benchmarks}
  BY <1>4, <1>5, <1>6
<1>8. \A b : [name |-> b, qualified |-> TRUE].name = b /\ [name |-> b, qualified |-> TRUE].qualified
  OBVIOUS
<1>9. {r.name : r \in Gates!MicroRows} \subseteq Benchmarks
  BY <1>7, <1>8
<1>10. ASSUME NEW b \in Benchmarks
       PROVE  b \in {r.name : r \in Gates!MicroRows}
  <2>1. [name |-> b, qualified |-> TRUE] \in Gates!MicroRows
    BY <1>7
  <2> QED
    BY <1>8, <2>1
<1> QED
  BY <1>7, <1>8, <1>9, <1>10

\* perf: of events that are in one group each, the line report.py keeps is the only
\* one, so it differs from run.py only in asking for numbers above 0.
LEMMA PmuGate ==
  ASSUME FileOK, kind = "pmu", Gates!EachEventOnce
  PROVE  /\ Gates!PmuQualified <=> Gates!PmuValid /\ Gates!NoZero
         /\ Gates!OverheadPmuQualified
              <=> Gates!PmuValid /\ Gates!NoZero /\ rows[1].transactions > 0
<1>1. rows \in Seq(Rows["pmu"])
  BY DEF FileOK
<1>2. Gates!All = {rows[i] : i \in DOMAIN rows}
  BY <1>1 DEF Gates!All, Gates!ToSet
<1>3. \A g : Gates!Counted(g) = {e \in g.events : g.supported /\ e \notin g.missing}
  BY DEF Gates!Counted
<1>4. DOMAIN rows \subseteq Int
  BY <1>1
\* The kept line of an event is the one line with a number of it.
<1>5. \A e, i : i \in Gates!Kept(e) <=> i \in DOMAIN rows /\ e \in Gates!Counted(rows[i])
  <2> SUFFICES ASSUME NEW e, NEW i \in DOMAIN rows, e \in Gates!Counted(rows[i]),
                      NEW j \in DOMAIN rows, e \in Gates!Counted(rows[j])
               PROVE  j <= i
    BY DEF Gates!Kept
  <2>1. e \in rows[i].events \cap rows[j].events
    BY <1>3
  <2>2. i = j
    BY <2>1 DEF Gates!EachEventOnce
  <2> QED
    BY <1>4, <2>2
<1>6. \A e : Gates!Kept(e) # {} <=> e \in UNION {Gates!Counted(g) : g \in Gates!All}
  BY <1>2, <1>5
<1>7. \A e : Gates!Positive(e)
               <=> \E i \in DOMAIN rows : e \in Gates!Counted(rows[i]) /\ e \notin rows[i].zero
  BY <1>5 DEF Gates!Positive
<1>8. \A i \in DOMAIN rows : (\E e \in rows[i].events : i \in Gates!Kept(e))
                               <=> Gates!Counted(rows[i]) # {}
  BY <1>3, <1>5
<1>9. Gates!PmuQualified
        <=> /\ Gates!Positive("cycles") /\ Gates!Positive("instructions")
            /\ Gates!Positive("branches") /\ Gates!Kept("branch-misses") # {}
            /\ \A i \in DOMAIN rows : Gates!Counted(rows[i]) # {} => rows[i].running >= 90
  BY <1>8 DEF Gates!PmuQualified
<1>10. Gates!PmuValid
         <=> /\ \A e \in Gates!Core : Gates!Kept(e) # {}
             /\ \A i \in DOMAIN rows : Gates!Counted(rows[i]) # {} => rows[i].running >= 90
  BY <1>2, <1>6 DEF Gates!PmuValid
<1>11. ASSUME NEW e \in {"cycles", "instructions", "branches"}
       PROVE  Gates!Positive(e) <=> /\ Gates!Kept(e) # {}
                                    /\ \A g \in Gates!All : e \notin g.zero \cap Gates!Counted(g)
  <2>1. \A i, j \in DOMAIN rows : e \in Gates!Counted(rows[i]) /\ e \in Gates!Counted(rows[j])
                                    => i = j
    BY <1>3 DEF Gates!EachEventOnce
  <2> QED
    BY <1>2, <1>5, <1>7, <2>1
<1>12. Gates!NoZero <=> \A e \in {"cycles", "instructions", "branches"} :
                           \A g \in Gates!All : e \notin g.zero \cap Gates!Counted(g)
  BY DEF Gates!NoZero
<1>13. Gates!PmuQualified <=> Gates!PmuValid /\ Gates!NoZero
  BY <1>9, <1>10, <1>11, <1>12 DEF Gates!Core
<1>14. Gates!PmuValid => 1 \in DOMAIN rows
  <2>1. ASSUME Gates!PmuValid PROVE DOMAIN rows # {}
    BY <1>5, <1>10, <2>1 DEF Gates!Core
  <2> QED
    BY <1>1, <2>1
<1> QED
  BY <1>13, <1>14 DEF Gates!OverheadPmuQualified

\* The outcome matrix: nobody's request is refused, and every attack is.
LEMMA MatrixGate ==
  ASSUME Gates!MatrixValid
  PROVE  /\ Gates!Summary("crs").detected = Gates!Summary("crs").attacks
         /\ Gates!Summary("crs").falsePositives + Gates!Summary("baseline").falsePositives = 0
<1>1. /\ \A i \in DOMAIN rows : rows[i].table = "crs" => (rows[i].blocked = (rows[i].class = "attack"))
      /\ \A i \in DOMAIN rows : rows[i].table = "baseline" => ~rows[i].blocked
  BY DEF Gates!MatrixValid, Gates!Summary, Gates!Passed
<1> DEFINE Of(t, c) == {i \in DOMAIN rows : rows[i].table = t /\ rows[i].class = c}
<1>2. {i \in Of("crs", "attack") : rows[i].blocked} = Of("crs", "attack")
  BY <1>1
<1>3. {i \in Of("crs", "allow") : rows[i].blocked} = {}
  BY <1>1
<1>4. {i \in Of("baseline", "allow") : rows[i].blocked} = {}
  BY <1>1
<1>5. Gates!Cardinality({}) = 0
  BY FS_EmptySet DEF Gates!Cardinality, Cardinality
<1>6. Gates!Summary("crs").detected = Gates!Summary("crs").attacks
  BY <1>2 DEF Gates!Summary
<1>7. Gates!Summary("crs").falsePositives = 0 /\ Gates!Summary("baseline").falsePositives = 0
  BY <1>3, <1>4, <1>5 DEF Gates!Summary
<1> QED
  BY <1>6, <1>7

\* What run.py accepts of a file report.py calls qualified when it reads the file
\* with its own code, but for counters that read 0 and logs without a transaction;
\* the comparator of an accepted manifest has its threshold, but for Overridden.
THEOREM GatesAlwaysAgree == Spec => []GatesAgree
<1>1. Init => (part = "gates" => FileOK)
  BY DEF Init, Gates!Init, FileOK
<1>2. (part = "gates" => FileOK) /\ [Next]_vars => (part = "gates" => FileOK)'
  <2> SUFFICES ASSUME part = "gates" => FileOK, [Next]_vars, part' = "gates" PROVE FileOK'
    OBVIOUS
  <2>1. FileOK /\ (Gates!Write \/ UNCHANGED <<kind, rows>>)
    BY DEF Next, LegsStep, vars
  <2> QED
    BY <2>1 DEF FileOK, Gates!Write
<1>3. FileOK => Gates!GatesAgree
  BY ManifestGate, MicroGate, PmuGate, MatrixGate
     DEF Gates!GatesAgree, Gates!CorazaAccepted, Gates!CorazaReported, Gates!Parity, Gates!Normalized
<1>4. (part = "gates" => FileOK) => GatesAgree
  BY <1>3 DEF GatesAgree
<1> QED
  BY <1>1, <1>2, <1>4, PTL DEF Spec
===============================================================================
