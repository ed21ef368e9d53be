CONSTANTS
    Verifiers = {a, b}
    NoVerifier = none
    Requests = {r1, r2}
    Durations <- OneDuration
    MaxTime = 2
    MaxGeneration = 2
    ArtifactKeys = {k}
    Metas = {m1, m2}
    FindingKeys = {f1, f2, f3}
    Findings <- SomeFindings
    Nothing = nothing
    k = k
    f1 = f1
    f2 = f2
    f3 = f3
    UploadWindow = 1
SPECIFICATION Spec
INVARIANTS AnswersNameTheRow AttributedToGrant CitedBytesAreChecked SupersessionIsLinear
SYMMETRY Symmetry
\* A terminal run with no handler in flight is at rest.
CHECK_DEADLOCK FALSE
