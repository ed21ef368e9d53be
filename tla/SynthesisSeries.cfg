CONSTANTS
    Series = {s1}
    MaxDrafts = 2
    Packets = {p1, p2}
    Evaluators = {e1, e2}
    MaxChanges = 2
    None = None
SPECIFICATION SeriesSpec
CHECK_DEADLOCK FALSE
INVARIANTS
    LineIsSound
    ProposalsFollowTheHead
PROPERTIES
    ObservationCatchesUp
