CONSTANTS
    Verifiers = {a, b}
    NoVerifier = none
    Editor = editor
    Requests = {r1, r2}
    Durations <- TwoDurations
    MaxTime = 3
    MaxGeneration = 2
    MaxFindings = 1
SPECIFICATION Spec
INVARIANTS EventsExplainRow LegalHistory CompletedHasFinding ClaimsComeFirst
PROPERTY ImplementsLease
\* A terminal run with no handler in flight is at rest.
CHECK_DEADLOCK FALSE
SYMMETRY Symmetry
