SPECIFICATION FairSpec
CONSTANTS
    alice = alice
    bob = bob
    zero = zero
    escrow = escrow
    token = token
    resolver = resolver
    arbiter = arbiter
    pauser = pauser
    h0 = h0
    h1 = h1
    h2 = h2
    Addresses <- MCAddresses
    ZeroAddress = zero
    Escrow = escrow
    Token = token
    Resolver = resolver
    Arbiter = arbiter
    Pauser = pauser
    Hashes = {h0, h1}
    ZeroHash = h0
    ReasonCodes = {0, 5}
    MaxUint64 = 8
    MaxUint256 = 7
    Specs <- LifecycleSpecs
    Permits <- LifecyclePermits
    InitialBalance <- LifecycleBalance
    Donations = {}
    MaxNonce = 1
INVARIANTS
    TypeOK
    BooksBalance
    PayoutMatchesOutcome
    CheckedArithmeticNeverReverts
    InspectorAccepts
    EvidenceLineage
    OneWindowAtATime
PROPERTIES
    NoFinalityBeforeCutoff
    SplitReadRefused
    EventuallySettled
