SPECIFICATION FairSpec
CONSTANTS
    p1 = p1
    Pages = {p1}
    Initial <- InitialDef
    MaxChanges = 1
INVARIANTS
    TypeOK
    CompleteWasEarned
PROPERTIES
    AgreementLasts
    FinishedIsComplete
    OverdueCloses
CHECK_DEADLOCK FALSE
