CONSTANTS
    ra = ra
    rb = rb
    a1 = a1
    a2 = a2
    a3 = a3
    a4 = a4
    b1 = b1
    p1 = p1
    Reviews = {ra, rb}
    Captures = {a1, a2, a3, a4, b1}
    SourceOf <- SomeSources
    Actors = {x}
    Briefs = {q}
    Handlers = {h1, h2}
    MaxEvents = 2
    Nothing = nothing
    Staff = {s1, s2}
    MaxComments = 3
    Citing = {a1, a2}
    MaxSignals = 2
    Passports = {p1}
    Binds <- SomeBinding
    MaxVerdicts = 3
    Activities = {n1}
    Payloads = {ask, tell}
    ReviewRequests = {ask}
    SourceVersions = {w1}
    Contents = {same, other}
    Differing = {other}
    Users = {ann, bob, eve, adm}
    Editors = {bob, eve, adm}
    Admins = {adm}
    Contributors = {ann}
    Assessors = {eve}
    LegacyFiler = bob
    LegacyRows = 2
    Cap = 2
    MaxChallenges = 3
    Removals = {r1}
    None = None
SPECIFICATION ArchiveSpec
PROPERTIES
    NewVersionsComeFirst
SYMMETRY ArchiveSymmetry
\* When every capture is spent or expired, the briefs are settled and the bounds
\* on annotations and challenges are reached, nothing moves.
CHECK_DEADLOCK FALSE
