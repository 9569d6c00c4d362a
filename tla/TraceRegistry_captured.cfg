\* An error captured in a span that then throws.
SPECIFICATION Spec
CONSTANTS
    Ops = {o1, o2}
    Keys = {k1, k2}
    Spans = {s1, s2}
    Errors = {0, 302}
INVARIANT RootFailureCounts
CHECK_DEADLOCK FALSE
