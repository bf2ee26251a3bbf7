CONSTANTS
    Plans <- MCOnePlan
    ToolSteps = {}
    Modes <- MCReplan
    Directives <- MCDirectives
    MaxSteps = 2
    MaxStepAttempts = 2
    MaxReplans = 1
    MaxRepairs = 0
    MaxToolCalls = 1
    MaxResumes = 1
SPECIFICATION Spec
INVARIANTS
    FailedRevisionIsFinal
CHECK_DEADLOCK FALSE
