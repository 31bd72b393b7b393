CONSTANTS
    None = None
    Given = Given
    Torn = Torn
    Runs = {r1, r2}
    Retention = 2
    ScriptRetention = 1
    MaxWrites = 1
    MaxRuns = 3
    MaxTime = 3

SPECIFICATION Spec
CHECK_DEADLOCK FALSE
SYMMETRY Symmetry

INVARIANT IndInv

PROPERTIES
    KeptUntilOld
    LastBackupStays
    RestoredAsChosen
