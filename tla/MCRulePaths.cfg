CONSTANTS
    Validators = {v1, v2}
    Elements <- MCElements
    CelPath <- MCCelPath
    Sites <- MCSites
SPECIFICATION Spec
INVARIANTS
    StaticIntact
    RuleExact
