CONSTANTS
    Verifiers = {v}
    Editors = {e1, e2}
    Requests = {r1, r2, r3}
    Credentials = {c}
    Keys = {k}
    Subjects = {s1, s2}
    Nothing = nothing
SPECIFICATION Spec
PROPERTY RetiredIsFinal
SYMMETRY Symmetry
