SPECIFICATION MCSpec
CONSTANTS
    p1 = p1
    p2 = p2
    p3 = p3
    p4 = p4
    block = block
    child = child
    fork = fork
    Providers <- MCProviders
    Thresholds = {1, 2, 3, 4, 5}
    Headers <- MCHeaders
    Heights = {0, 1}
    Number <- MCNumber
    Hash <- MCHash
    ParentHash <- MCParentHash
    None = None
    Malformed = Malformed
    Drafts <- MCDrafts
    MinReviewSeconds = 1
    MaxEpochSeconds = 3
    ForbiddenCapabilities <- MCForbidden
    Custody <- MCCustody
    MaxTime = 6
    NoHash = NoHash
    NoMatrix = NoMatrix
    Members <- MCMembers
    Quorum = 2
    DecisionWindow = 3
    CertificateEpoch = 7
    Others = {"d"}
    Latencies = {0, 2, 3, 4}
    Roots <- MCRoots
    Nodes <- MCNodes
    Height <- MCHeight
    Recordable <- MCRecordable
    MaxConditionDepth = 2
    MaxArgs = 2
    MaxObservations = 2
    MaxInteger = 3
    MaxDecimal = 4
    MaxTimestamp = 3
    MaxText = 2
    CodePoints <- MCCodePoints
    CodeUnits <- MCCodeUnits
SYMMETRY Symmetry
INVARIANTS
    LabelledHeadsCohere
    NoQuorumDiscarded
    ReceiptReproduces
    LineageUnbroken
    QuorumsOverlap
    IncidentsSound
    CertifiedOrVoid
    VerifiersAgree
    VerdictSound
PROPERTIES
    VerdictStands
CHECK_DEADLOCK FALSE
