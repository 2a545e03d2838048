SPECIFICATION Spec
CONSTANTS
    None = None
    From = 2
    Until = 8
    Signature <- MCSignature
    Aliases <- MCAliases
    Suffixes <- MCSuffixes
    Hash <- MCHash
    MaxEvents = 5
    CausalWindow = 2
    MaxCandidates = 6
    MaxChains = 5
    Distinctive = {"pool"}
    Words <- MCWords
    Weight <- MCWeight
    PerEvent = 1500
    Cap = 4000
    Likely = 7500
    Plausible = 4000
    Collectors <- MCCollectors
    Holds <- MCHolds
    Replies <- MCReplies
    MaxPasses = 3
INVARIANTS
    TypeOK
    RecordsAreAccountedFor
    OneNodePerFailureMode
    ChainsPointForward
    EvidenceIsReal
    RanksFollowScores
    LossOfSource
    ObjectionsDemote
CHECK_DEADLOCK FALSE
