CONSTANTS
    Plans <- MCPlans
    ToolSteps <- MCTools
    Modes <- MCModes
    Directives <- MCDirectives
    MaxSteps = 2
    MaxStepAttempts = 2
    MaxReplans = 2
    MaxRepairs = 1
    MaxToolCalls = 2
    MaxResumes = 2
SPECIFICATION Spec
INVARIANTS
    ToolsSucceedOnce
    PartialBatchEndsRun
    AnswerFollowsPlan
PROPERTIES
    ProgressIsKept
    RunEnds
CHECK_DEADLOCK FALSE
