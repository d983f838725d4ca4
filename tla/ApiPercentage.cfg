SPECIFICATION Spec
CONSTANTS
    V4 = {}
    StableMinAge = 10
    NoArgument = None
    HistMax = 1000
INVARIANT ListsEqualOrMore
