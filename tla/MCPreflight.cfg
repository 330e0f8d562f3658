SPECIFICATION Spec
CONSTANTS
    escrow = escrow
    token = token
    resolver = resolver
    arbiter = arbiter
    pauser = pauser
    other = other
    zero = zero
    v1 = v1
    root = root
    good = good
    used = used
    open = open
    empty = empty
    late = late
    twice = twice
    uneven = uneven
    foreign = foreign
    unpausable = unpausable
    tokenRole = tokenRole
    misdeclared = misdeclared
    Blocks <- MCBlocks
    Number <- MCNumber
    Branch <- MCBranch
    Code <- MCCode
    Answers <- MCAnswers
    HasCode <- MCHasCode
    Emitted <- MCEmitted
    Groups <- MCGroups
    RuntimeBytes = 100
    RuntimeRest = v1
    Testnets <- MCTestnets
    ChainId = 11
    Plans <- MCPlans
    MaxDeparted = 3
    Addresses <- MCAddresses
    Escrow = escrow
    ZeroAddress = zero
    Version = v1
    None = None
    Arguments <- MCArguments
INVARIANTS
    ReportFromSnapshot
    OnlyRelease
    SupportedRelease
    GenuineNeverRefused
CHECK_DEADLOCK FALSE
