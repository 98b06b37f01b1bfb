CONSTANTS
    s1 = s1
    s2 = s2
    c1 = c1
    c2 = c2
    Cascade = Cascade
    NoStrategy = NoStrategy
    Strategy <- MCStrategy
    Caller <- MCOneCaller
SPECIFICATION Spec
INVARIANT ResidencyIsExclusive
