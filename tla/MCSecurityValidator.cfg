SPECIFICATION Spec
CONSTANTS
    good = good
    odd = odd
    test = test
    bad = bad
    Callers = {c1, c2}
    Checks = {good, odd, test, bad}
    Registered = {good}
    WellFormed = {good, odd, test}
    TestNamed = {test}
    BadDescription = {odd}
    BadSeverity = {odd}
    maxHistorySize = 2
    MaxEdits = 3
SYMMETRY Symmetry
INVARIANTS ListsConsistent VerdictJustified
