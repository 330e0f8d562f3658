SPECIFICATION ObservedSpec
CONSTANTS
    alice = alice
    bob = bob
    zero = zero
    escrow = escrow
    token = token
    resolver = resolver
    arbiter = arbiter
    pauser = pauser
    h0 = h0
    h1 = h1
    h2 = h2
    Addresses <- MCAddresses
    ZeroAddress = zero
    Escrow = escrow
    Token = token
    Resolver = resolver
    Arbiter = arbiter
    Pauser = pauser
    Hashes = {h0, h1}
    ZeroHash = h0
    ReasonCodes = {0, 5}
    MaxUint64 = 7
    MaxUint256 = 3
    Specs <- MCSpecs
    Permits <- MCPermits
    InitialBalance <- MCBalance
    Donations = {}
    MaxNonce = 1
    MaxLost = 1
INVARIANTS
    ProjectionIsStorage
    LossNeverMisleads
    ConsentToMatch
    OneChallengePerNonce
