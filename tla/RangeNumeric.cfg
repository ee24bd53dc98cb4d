\* One property name whose values compare with one another, or are not indexed.
SPECIFICATION Spec
CONSTANTS
    Ids = {1, 2, 3}
    Literals <- AllLiterals
    ExactInt = 4
    MaxInt = 7
    None = none
INVARIANTS
    TypeOK
    RangeExact
    OrderedExact
    LookupExact
PROPERTIES
    ReplayKeepsAnswers
