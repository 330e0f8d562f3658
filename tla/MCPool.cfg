SPECIFICATION Spec
CONSTANTS
    alice = alice
    bob = bob
    zero = zero
    escrow = escrow
    token = token
    resolver = resolver
    arbiter = arbiter
    pauser = pauser
    h0 = h0
    h1 = h1
    h2 = h2
    Addresses <- MCAddresses
    ZeroAddress = zero
    Escrow = escrow
    Token = token
    Resolver = resolver
    Arbiter = arbiter
    Pauser = pauser
    Hashes = {h0, h1}
    ZeroHash = h0
    ReasonCodes = {0}
    MaxUint64 = 7
    MaxUint256 = 7
    Specs <- PoolSpecs
    Permits <- PoolPermits
    InitialBalance <- PoolBalance
    Donations = {1}
    MaxNonce = 0
INVARIANTS
    AggregateLiability
    Solvent
    ExitsOpen
PROPERTIES
    ImplementsTwoPartyEscrow
    ModelCoversContract
