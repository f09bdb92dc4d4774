\* The installer is run at most MaxRuns times, and then nothing is left to do.
SPECIFICATION CertsSpec
CONSTANTS
    MaxRuns = 3
    MaxFailures = 2
INVARIANTS
    OneInstallSurvives
    FailureIsUndone
CHECK_DEADLOCK FALSE
