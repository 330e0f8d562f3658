---------------------------- MODULE MCTokenBoundary ----------------------------
(***************************************************************************)
(* A small deployment over an untrusted token: one challenge with stakes   *)
(* of one unit, so that a single change of balance can pass for a deposit. *)
(***************************************************************************)
EXTENDS TokenBoundary

CONSTANTS alice, bob, zero, escrow, token, resolver, arbiter, pauser, h0, h1

MCAddresses == {alice, bob, zero, escrow, token, resolver, arbiter, pauser}

(* The shortest timeline that the kernel accepts. *)
Bet == [nonce |-> h1, termsHash |-> h1, onThisRelease |-> TRUE,
        challengerWallet |-> alice, challengerSide |-> "A", stakeAmount |-> 1,
        createdAt |-> 0, acceptanceDeadline |-> 1, observationTime |-> 2,
        sourceCorrectionCutoff |-> 3, proposalDeadline |-> 4,
        disputeWindowSeconds |-> 2, arbitrationWindowSeconds |-> 1,
        timeoutVoidAt |-> 7]

MCSpecs == {Bet}
MCPermits == {[spec |-> Bet, acceptingWallet |-> bob, acceptanceNonce |-> 0,
               expiresAt |-> 1]}
MCBalance == [a \in MCAddresses |-> IF a \in {alice, bob} THEN 1 ELSE 0]
=============================================================================
