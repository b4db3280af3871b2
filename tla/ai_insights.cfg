SPECIFICATION Spec
CONSTANTS
    Tasks = {t1, t2, t3}
    FindingSets <- MCFindingSets
    Responses <- MCResponses
    MaxTop = 2
    Faults = {"crash", "delete"}
    None = None
INVARIANTS
    InsightTypeOK
    ReadyIsGrounded
    FactsCoverRules
    RowIsExact
PROPERTIES
    ReadyIsFinal
    GenerationEnds
CHECK_DEADLOCK FALSE
