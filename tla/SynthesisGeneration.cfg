CONSTANTS
    Keys = {k1}
    Selectors = {s1, s2}
    Handlers = {h1, h2}
    MaxFaults = 4
    Nothing = Nothing
SPECIFICATION Spec
INVARIANTS
    RunsAndDraftsAgree
    AnswersMatchSelector
PROPERTIES
    RetriesAreDrafted
