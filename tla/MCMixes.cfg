SPECIFICATION Spec
CONSTANTS
    g = g
    a1 = a1
    a2 = a2
    a3 = a3
    a4 = a4
    b2 = b2
    b3 = b3
    c1 = c1
    c2 = c2
    None = None
    Blocks <- MCBlocks
    Number <- MCNumber
    Branch <- MCBranch
    Carries <- MCCarries
    DeploymentBlock = 1
    MaxBlockSpan = 3
    MaxReorgDepth = 2
    MaxRetainedHeaders = 3
    MaxLogsPerSync = 3
    MaxRetainedLogs = 3
    Returns = TRUE
INVARIANTS
    DirectStateOfHead
