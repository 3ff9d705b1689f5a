SPECIFICATION Spec
CONSTANTS
    WindowSize = 3
    MaxWindow = 64
    Ids <- MCIds
INVARIANTS
    TypeOK
    WindowExact
PROPERTY
    ImplementsDedup
