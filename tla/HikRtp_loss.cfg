SPECIFICATION Spec
CONSTANTS
    Units <- MCUnits
    InOrder = TRUE
    NoUnit = NoUnit
INVARIANTS
    BeginsAtStart
    UsedOnce
    IntactUnitsSurvive
    MixedOnlyAcrossTwoLosses
CHECK_DEADLOCK FALSE
