CONSTANTS
    Requests = {r1, r2}
    Size = 2
    Length = 2
    Width = 1
SPECIFICATION Spec
INVARIANTS NoLeak
PROPERTY ClearSpec
