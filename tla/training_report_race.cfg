SPECIFICATION FilesSpec
CONSTANTS
    MaxSteps = 4
    EvalInterval = 2
    EvalBatches = 2
    SampleInterval = 2
    CheckpointInterval = 3
    Boundaries = {2, 3, 4}
    MaxRuns = 4
    Losses <- Curves
    MaxUnmeasured = 0
    Reporters = {1}
    MaxPreparations = 1
    Config <- TwoCases
    Measurements <- MeasuredTimes
    Baselines <- Runs
    Policies <- TwoPolicies
    NWorlds = 2
    NTones = 2
    Sources <- Parquets
    Wanted <- Amounts
INVARIANTS
    SamplesCopiedExactly
CHECK_DEADLOCK FALSE
