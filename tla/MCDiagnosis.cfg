SPECIFICATION Spec
CONSTANTS
    opaque = opaque
    plain = plain
    Questions <- AllQuestions
    Blind <- BlindQuestions
    NumKeys = 3
    NETWORK_RETRIES = 3
    MaxRestarts = 2
INVARIANTS
    CurrentKeyUnspent
    FallbackMeansSpent
    CallsBounded
PROPERTIES
    ResumeLosesNothing
    DiagnosisEnds
