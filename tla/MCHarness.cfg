SPECIFICATION Spec
CONSTANTS
    Engines <- MCEngines
    Repetitions = 2
    Threads = 2
    Fixed = TRUE
    MaxFaults = 1
    Kinds = {"saturation", "fixed", "overhead", "scaling"}
    Points <- MCPoints
    WorkerPoints = {1, 2}
    RequiredRuns = 2
    MinSamples = 100000
    ClientLimit = 90
    Outputs <- MCOutputs
    OrderedKinds = {"saturation", "fixed", "scaling"}
    Modes = {"smoke", "exploratory", "qualification", "canonical"}
    Hosts <- MCHosts
    MaxVersion = 2
    Rows <- MCRows
    MaxRows = 3
    Processes = 2
    Benchmarks = {"allow", "attack"}
INVARIANTS
    RecordedLegsAreTheirOwn
    NothingOutlivesTheRun
    ReportAgrees
    PublishedRowsAreBacked
    FailsClosed
    OneLibraryMeasured
    GatesAgree
PROPERTY
    RunEnds
CHECK_DEADLOCK FALSE
