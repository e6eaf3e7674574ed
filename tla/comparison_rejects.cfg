SPECIFICATION FilesSpec
CONSTANTS
    MaxSteps = 2
    EvalInterval = 1
    EvalBatches = 1
    SampleInterval = 1
    CheckpointInterval = 1
    Boundaries = {1, 2}
    MaxRuns = 1
    Losses <- Curves
    MaxUnmeasured = 1
    Reporters = {1}
    MaxPreparations = 1
    Config <- TwoCases
    Measurements <- MeasuredTimes
    Baselines <- Runs
    Policies <- TwoPolicies
    NWorlds = 2
    NTones = 2
    Sources <- Parquets
    Wanted <- Amounts
INVARIANTS
    LoadedRunsAccepted
CHECK_DEADLOCK FALSE
