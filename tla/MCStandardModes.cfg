CONSTANTS
    Nothing = Nothing
    Unset = Unset
    getA = getA
    getB = getB
    r1 = r1
    r2 = r2
    MaxSteps = 3
    MaxToolCalls = 2
    MaxModelTurns = 4
    RetryAttempts = 2
    Decisions <- MCNoContinue
    AuxCalls <- MCSkills
    StagedModes <- MCBoth
    RetainModes <- MCBoth
    Faults <- MCFaults
    MaxResumes = 3
SPECIFICATION MCSpec
INVARIANTS
    TurnsReservedAhead
    SafeResumes
    AnswersAreHonest
    NoConflict
    ClaimHolds
    EngineRunsSound
    PromptSound
PROPERTIES
    GuardTripIsFinal
CHECK_DEADLOCK FALSE
