--------------------------- MODULE MCChallengeEscrow ---------------------------
(***************************************************************************)
(* Small deployments of ChallengeEscrow for TLC.                           *)
(***************************************************************************)
EXTENDS ChallengeEscrowProps, Inspector, ReferencedEscrow

CONSTANTS alice, bob, zero, escrow, token, resolver, arbiter, pauser, h0, h1, h2

MCAddresses == {alice, bob, zero, escrow, token, resolver, arbiter, pauser}

(***************************************************************************)
(* The shortest timeline the kernel accepts in which a proposal and a      *)
(* dispute can both fall before the correction cutoff, and both after it.  *)
(* Time runs to 8, the timeoutVoidAt of this execution.                    *)
(***************************************************************************)
Base ==
    [nonce |-> h1, termsHash |-> h1, onThisRelease |-> TRUE,
     challengerWallet |-> alice, challengerSide |-> "A", stakeAmount |-> 2,
     createdAt |-> 0, acceptanceDeadline |-> 2, observationTime |-> 3,
     sourceCorrectionCutoff |-> 4, proposalDeadline |-> 5,
     disputeWindowSeconds |-> 2, arbitrationWindowSeconds |-> 1,
     timeoutVoidAt |-> 8]

(* Executions the kernel must refuse. *)
ShortWindow == [Base EXCEPT !.sourceCorrectionCutoff = 5, !.proposalDeadline = 6,
                             !.disputeWindowSeconds = 1]
BigStake == [Base EXCEPT !.stakeAmount = 4]

LifecycleSpecs == {Base, ShortWindow, BigStake}

Permit(s, w, n, t) == [spec |-> s, acceptingWallet |-> w, acceptanceNonce |-> n,
                       expiresAt |-> t]
LifecyclePermits == {Permit(s, bob, 0, 2) : s \in {Base, ShortWindow}}

(* Enough for both stakes; the supply is the width of an amount. *)
Supply2(a, b) == [w \in MCAddresses |-> IF w = alice THEN a ELSE IF w = bob THEN b ELSE 0]
LifecycleBalance == Supply2(4, 3)
PoolBalance == Supply2(3, 3)

(* The same timeline one second earlier: it must be opened and matched in  *)
(* the first second.                                                       *)
Early == [Base EXCEPT !.acceptanceDeadline = 1, !.observationTime = 2,
                      !.sourceCorrectionCutoff = 3, !.proposalDeadline = 4,
                      !.timeoutVoidAt = 7]

(* Two challenges that draw on the same pool, of which the second is never *)
(* matched.                                                                *)
Second == [Early EXCEPT !.challengerWallet = bob, !.challengerSide = "B",
                        !.stakeAmount = 1]

PoolSpecs   == {Early, Second}
PoolPermits == {Permit(Early, bob, 0, 1)}
=============================================================================
