SPECIFICATION FilesSpec
CONSTANTS
    MaxSteps = 6
    EvalInterval = 2
    EvalBatches = 2
    SampleInterval = 3
    CheckpointInterval = 4
    Boundaries = {2, 3, 5, 6}
    MaxRuns = 4
    Losses <- Curves
    MaxUnmeasured = 2
    Reporters = {1, 2, 3}
    MaxPreparations = 3
    Config <- TwoCases
    Measurements <- MeasuredTimes
    Baselines <- Runs
    Policies <- TwoPolicies
    NWorlds = 2
    NTones = 2
    Sources <- Parquets
    Wanted <- Amounts
INVARIANTS
    ExactResume
    JournalTruthful
    ReportSound
    SegmentsSuffice
    BenchmarkTruthful
    VerdictJustified
    ReportsPaired
    StoriesSafe
CHECK_DEADLOCK FALSE
