CONSTANTS
    None = None
    v1 = v1
    v2 = v2
    v3 = v3
    i1 = i1
    i2 = i2
    View = {v1, v2, v3}
    Identifier = {i1, i2}
    Declares <- MCDeclares
    Client = {c1}
    MaxGeneration = 6
SPECIFICATION Spec
INVARIANTS
    NoActionOutlivesItsView
    ReportIsTrue
PROPERTY OnlyOwnerOrSuccessorEndsRegistration
CHECK_DEADLOCK FALSE
