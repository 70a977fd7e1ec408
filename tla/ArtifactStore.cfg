\* Three writers and two deleters, any of which may die between two steps.
SPECIFICATION Spec
CONSTANTS
    out = out
    err = err
    other = other
    r1 = r1
    r2 = r2
    d1 = d1
    d2 = d2
    Writer = {out, err, other}
    Content = {d1, d2}
    Run = {r1, r2}
    RunOf <- MCRunOf
    Deleter = {p1, p2}
    None = None
SYMMETRY MCSymmetry
INVARIANTS
    BlobsAreWhole
    NothingLostSilently
PROPERTIES
    ImplementsBlobStore
