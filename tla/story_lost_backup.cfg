SPECIFICATION FilesSpec
CONSTANTS
    MaxSteps = 2
    EvalInterval = 1
    EvalBatches = 1
    SampleInterval = 1
    CheckpointInterval = 1
    Boundaries = {1, 2}
    MaxRuns = 1
    Losses <- Curves
    MaxUnmeasured = 0
    Reporters = {1}
    MaxPreparations = 2
    Config <- TwoCases
    Measurements <- MeasuredTimes
    Baselines <- Runs
    Policies <- TwoPolicies
    NWorlds = 2
    NTones = 2
    Sources <- Parquets
    Wanted <- Amounts
INVARIANTS
    PriorAlwaysSurvives
CHECK_DEADLOCK FALSE
