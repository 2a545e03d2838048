SPECIFICATION Spec
CONSTANTS
    Incidents = {1, 2}
    Span <- MCSpan
    Observable <- MCObservable
    Passes = {"run1", "sweep1", "run2"}
    Target <- MCTarget
    Resumes = {"sweep1"}
    Crashes = 1
    Answers <- MCAnswers
    AtOnce = 2
    Window = 1
    MinShared = 2
INVARIANTS
    TypeOK
    StoredAsObserved
    GivenEvidenceResolves
    ChainIsTimeline
    SimilarIsJustified
    VerdictsAreStored
    BothSidesOnlyAfterRerun
    FingerprintIsCurrent
CHECK_DEADLOCK FALSE
