SPECIFICATION Spec
CONSTANTS
    first = first
    second = second
    one = one
    other = other
    activation = activation
    again = again
    NoOne = NoOne
    NoRow = NoRow
    Interactions <- MCInteractions
    Subjects <- MCSubjects
    Activations <- MCActivations
    Limit = 1
    MaxVersion = 2
INVARIANTS
    TypeOK
    OnceEach
    ConnectionReturned
    LimitHolds
PROPERTY PendingHonoured
SYMMETRY MCSymmetry
