SPECIFICATION Spec
CONSTANTS
    h1 = h1
    h2 = h2
    r1 = r1
    r2 = r2
    Hubs = {h1, h2}
    Roots = {r1, r2}
    Root <- OwnRoots
    Outside = outside
    None = none
    Ids = {i1, i2, i3, i4, i5}
    Faults = {"kitsuDown", "diskFull", "svnDown", "repoPartial", "commitLost", "crash"}
INVARIANTS
    TypeOK
    SuccessIsComplete
    OneWinner
    FailureOwnsUp
    DeletedMeansGone
