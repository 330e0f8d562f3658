--------------------------- MODULE MCObservedEscrow ---------------------------
(***************************************************************************)
(* Small deployments of ObservedEscrow for TLC.                            *)
(***************************************************************************)
EXTENDS ObservedEscrow, ChallengeEscrowProps

CONSTANTS alice, bob, zero, escrow, token, resolver, arbiter, pauser, h0, h1, h2

MCAddresses == {alice, bob, zero, escrow, token, resolver, arbiter, pauser}

(* The shortest timeline in which a proposal and a dispute can both fall   *)
(* before the correction cutoff, and both after it; the challenge must be  *)
(* opened and matched in the first second.                                 *)
Base ==
    [nonce |-> h1, termsHash |-> h1, onThisRelease |-> TRUE,
     challengerWallet |-> alice, challengerSide |-> "A", stakeAmount |-> 1,
     createdAt |-> 0, acceptanceDeadline |-> 1, observationTime |-> 2,
     sourceCorrectionCutoff |-> 3, proposalDeadline |-> 4,
     disputeWindowSeconds |-> 2, arbitrationWindowSeconds |-> 1,
     timeoutVoidAt |-> 7]

(* Another side under the same nonce: it may be opened in its place.       *)
Rewritten == [Base EXCEPT !.challengerSide = "B"]

MCSpecs == {Base, Rewritten}

MCPermits == {[spec |-> Base, acceptingWallet |-> bob, acceptanceNonce |-> n,
               expiresAt |-> 1] : n \in {0, 1}}

MCBalance == [w \in MCAddresses |-> IF w = alice THEN 2 ELSE IF w = bob THEN 1 ELSE 0]
=============================================================================
