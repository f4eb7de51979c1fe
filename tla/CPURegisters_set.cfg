SPECIFICATION Spec
CONSTANTS
    W = 64
    Layouts <- MCLayouts
    Requests <- MCRequests
    Images <- MCImages
    Refusals <- MCRefusals
INVARIANTS
    TypeOK
    VerdictIsHonest
    AcceptedIsShown
PROPERTIES
    WritesOnlyTheRequest
    AcceptedIsHeld
