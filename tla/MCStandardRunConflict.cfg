CONSTANTS
    MaxSteps = 2
    MaxToolCalls = 1
    MaxModelTurns = 3
    RetryAttempts = 1
    Decisions = {"finish", "tools"}
    AuxCalls = {}
    StagedModes = {TRUE, FALSE}
    RetainModes = {FALSE}
    Faults = {"crash"}
    MaxResumes = 1
SPECIFICATION Spec
INVARIANTS
    NoPersistConflict
CHECK_DEADLOCK FALSE
