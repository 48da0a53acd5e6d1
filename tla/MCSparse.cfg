SPECIFICATION Spec
CONSTANTS
    N = 3
    MaxVersion = 2
INVARIANTS
    PresentIsRight
    ArchiveRight
PROPERTIES
    KeepsPromise
