----------------------------- MODULE MCPreflight -----------------------------
(***************************************************************************)
(* Eleven branches over one block.  On four of them the constructors made  *)
(* the escrow: at the first block (paused, and later unpaused and in use), *)
(* there but never paused, or a block late.  On the others another         *)
(* constructor left the reviewed code, or other code, at its address.      *)
(***************************************************************************)
EXTENDS PreflightProps, TLC

CONSTANTS escrow, token, resolver, arbiter, pauser, other, zero, v1,
          root, good, used, open, empty, late, twice, uneven, foreign,
          unpausable, tokenRole, misdeclared

MCAddresses == {escrow, token, resolver, arbiter, pauser, other, zero}

MCBlocks == {root, good, used, open, empty, late, twice, uneven, foreign,
             unpausable, tokenRole, misdeclared}

MCNumber == [b \in MCBlocks |-> IF b = root THEN 0 ELSE IF b \in {used, late} THEN 2 ELSE 1]

MCBranch == [b \in MCBlocks |-> {root, b} \cup (IF b = used THEN {good} ELSE {})
                                          \cup (IF b = late THEN {empty} ELSE {})]

MCTestnets == [sepolia |-> 11, baseSepolia |-> 84]

MCPlans == [network : {"sepolia", "baseSepolia"}, deploymentBlock : {1, 2}]

(* Two immutables are substituted at two places, the others at one. *)
MCGroups == [releaseId |-> {1}, canonicalToken |-> {2, 3}, tokenDecimals |-> {4},
             resolver |-> {5, 6}, arbiter |-> {7}, pauser |-> {8}]

Genuine(initialPaused) ==
    [canonicalToken |-> token, tokenDecimals |-> 18, resolver |-> resolver,
     arbiter |-> arbiter, pauser |-> pauser, initialPaused |-> initialPaused]

MCArguments == {Genuine(paused) : paused \in {0, 1}}

(* What was passed to whatever constructor ran on the branch of b. *)
ArgumentsAt(b) ==
    CASE b = open       -> Genuine(0)
      [] b = unpausable -> [Genuine(1) EXCEPT !.pauser = resolver]
      [] b = tokenRole  -> [Genuine(1) EXCEPT !.resolver = token]
      [] OTHER          -> Genuine(1)

MCCode == [b \in MCBlocks |->
    CASE b \in {root, empty} -> None
      [] b = uneven          -> [Runtime(ArgumentsAt(b)) EXCEPT !.slots[6] = other]
      [] b = foreign         -> [Runtime(ArgumentsAt(b)) EXCEPT !.rest = other]
      [] OTHER               -> Runtime(ArgumentsAt(b))]

MCAnswers == [b \in MCBlocks |->
    Getters(ArgumentsAt(b), IF b = used THEN 0 ELSE ArgumentsAt(b).initialPaused,
            IF b = used THEN 7 ELSE 0)]

MCHasCode == [b \in MCBlocks |-> IF b \in {root, empty} THEN {token} ELSE {token, escrow}]

MCEmitted == [b \in MCBlocks |->
    CASE b \in {root, empty, used} -> {}
      [] b = twice       -> {ReleaseDeclared(Genuine(paused), b) : paused \in {0, 1}}
      [] b = misdeclared -> {ReleaseDeclared([Genuine(1) EXCEPT !.arbiter = other], b)}
      [] OTHER           -> {ReleaseDeclared(ArgumentsAt(b), b)}]
=============================================================================
