CONSTANTS
    Verifiers = {v}
    Editors = {e1, e2}
    Requests = {r1, r2, r3}
    Credentials = {c}
    Keys = {k}
    Subjects = {s1, s2}
    Nothing = nothing
    p1 = p1
    p2 = p2
    p3 = p3
    same = same
    relation = relation
    v1 = v1
    v2 = v2
    d1 = d1
    d2 = d2
    Proposals = {p1, p2, p3, same}
    TupleOf <- Tuple
    TargetOf <- Target
    NoTuple = noTuple
    NoRow = noRow
    Deciders = {u1, u2}
    Movers = {u1}
    Desks = {d1, d2}
    Assessed = p1
    Assessments = {a1}
    Involved = {u2}
    Admins = {u2}
    Candidates = {u1}
    Outcomes = {upheld, reassess}
    Seats = {h1, h2}
    MaxAnswers = 2
SPECIFICATION RecordsSpec
INVARIANTS
    RecordsAreAccounted
    EdgesAreBacked
    DecisionsAreOwned
    BadgesAreEarned
    AdjudicationsStand
PROPERTIES
    FirstRevocationStands
    SignaturesStand
SYMMETRY RecordsSymmetry
CHECK_DEADLOCK FALSE
