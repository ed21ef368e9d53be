CONSTANTS
    u1 = u1
    e1 = e1
    a1 = a1
    Submissions = {s1, s2}
    Users = {u1, e1, a1}
    InitialRole <- Roles
    Notes = {m1, m2}
    Nothing = Nothing
    MaxRounds = 1
SPECIFICATION Spec
SYMMETRY Symmetry
CHECK_DEADLOCK FALSE
INVARIANTS
    RoundsAreSound
    DecisionsAreFinal
    InvolvementIsOverridden
    RevisionsAreLinear
