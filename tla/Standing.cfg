SPECIFICATION Spec
CONSTANTS
    User = {u1, u2}
    Home = {h1, h2, h3}
    Ranker = {r1, r2}
    Classifier = {c1, c2}
    NoPersona = NoPersona
    MaxKwh = 2
    MaxSteps = 7
    MinDays = 2
    MinCohort = 2
    MaxTurns = 3
    MaxMixed = 2
SYMMETRY Symmetric
INVARIANT TypeOK
INVARIANT RecordAgrees
PROPERTY BoardHeals
PROPERTY FailureExplained
PROPERTY ClassificationSettles
CHECK_DEADLOCK FALSE
