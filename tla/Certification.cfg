CONSTANTS
    Runs = {k1, k2, k3}
    Requests = {q1, q2}
    Subjects = {x1, x2}
    Modes = {m1, m2}
    Texts = {t1}
    Reasons = {n1, n2}
    Nothing = Nothing
SPECIFICATION CertificationSpec
SYMMETRY Symmetry
\* All runs ended, the bounds reached, nothing moves.
CHECK_DEADLOCK FALSE
INVARIANTS
    EndsAreSound
    SupersessionIsSound
