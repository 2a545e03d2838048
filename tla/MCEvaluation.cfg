SPECIFICATION FairSpec
CONSTANTS
    Unset = Unset
    Empty = Empty
    Malformed = Malformed
    None = None
    Unparseable = Unparseable
    Attempts = 3
    BaseDelay = 2
    Second = 2
    ExemptSections <- MCSections
    Titles <- MCTitles
    Root <- MCRoot
    Alternates <- MCAlternates
    MustCite <- MCMustCite
    Matches <- MCMatches
    Cases <- MCCases
    Title <- MCTitle
    Evidence <- MCEvidence
    Analyses <- MCAnalyses
    Drafts <- MCDrafts
    Environments <- MCEnvironments
    Rounds = 2
    Past <- MCPast
INVARIANTS
    TypeOK
    PassedIsCited
    GivenUpInTime
    OnlyWholeSuites
    ReadmeTellsTheVerdict
PROPERTIES
    EverySuiteEnds
CHECK_DEADLOCK FALSE
