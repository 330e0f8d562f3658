------------------------------- MODULE Inspector -------------------------------
(***************************************************************************)
(* The read-only client (index.ts): what inspectChallenge demands of the   *)
(* release, of a challenge and of its entitlements before it returns them. *)
(* The client restates the contract's rules; it keeps no state.            *)
(*                                                                         *)
(* Amounts and times are bigints in the client, so sums do not wrap.  c is *)
(* the stored challenge with id s, and e the entitlements read for it.     *)
(* A record holds one reason and one path where the contract stores one    *)
(* per enumeration and leaves the others zero, which the client checks.    *)
(***************************************************************************)
EXTENDS ChallengeEscrow

Live == {"OPEN", "ACTIVE", "PROPOSED", "DISPUTED"}

ValidTerms(s, c) ==
    /\ ZeroHash \notin {s.nonce, s.termsHash}
    /\ s.challengerWallet # ZeroAddress
    /\ s.stakeAmount \in 1..(MaxUint256 \div 2)
    /\ s.createdAt <= c.openedAt
    /\ c.openedAt < s.acceptanceDeadline
    /\ s.acceptanceDeadline < s.observationTime
    /\ s.observationTime < s.sourceCorrectionCutoff
    /\ s.sourceCorrectionCutoff < s.proposalDeadline
    /\ 0 \notin {s.disputeWindowSeconds, s.arbitrationWindowSeconds}
    /\ s.sourceCorrectionCutoff < s.observationTime + s.disputeWindowSeconds
    /\ s.proposalDeadline + s.disputeWindowSeconds + s.arbitrationWindowSeconds
         <= s.timeoutVoidAt
    /\ s.sourceCorrectionCutoff + s.arbitrationWindowSeconds <= s.timeoutVoidAt

ValidMatch(s, c) ==
    IF c.state \in Unmatched
    THEN /\ c.acceptingWallet = ZeroAddress
         /\ c.acceptedAt = 0
         /\ c.depositedAmount = s.stakeAmount
    ELSE /\ c.acceptingWallet \notin {ZeroAddress, s.challengerWallet}
         /\ c.openedAt <= c.acceptedAt
         /\ c.acceptedAt < s.acceptanceDeadline
         /\ c.depositedAmount = s.stakeAmount * 2

(* A plausible slip: a void challenge pays both stakes or none. *)
PayoutStepsUnsplit(s, c) ==
    IF c.state \in Live THEN {c.depositedAmount} ELSE {0, c.depositedAmount}

(* What may be left to pay: a void challenge pays each stake by itself. *)
PayoutSteps(s, c) ==
    IF c.state \in Live THEN {c.depositedAmount}
    ELSE IF c.state = "VOID" THEN {0, s.stakeAmount, s.stakeAmount * 2}
    ELSE {0, c.depositedAmount}

RecordsMatchState(c) ==
    /\ c.state \in {"PROPOSED", "DISPUTED", "RESOLVED_A", "RESOLVED_B"} => c.proposal.exists
    /\ c.state = "DISPUTED" => c.dispute.exists
    /\ c.state \in {"RESOLVED_A", "RESOLVED_B", "VOID"} <=> c.finalResolution.exists
    /\ c.state \in {"OPEN", "ACTIVE", "CANCELLED", "EXPIRED"}
         => ~c.proposal.exists /\ ~c.dispute.exists
    /\ c.state = "PROPOSED" => ~c.dispute.exists

ValidProposal(s, c) ==
    LET p == c.proposal IN
    p.exists =>
        /\ p.evidenceHash # ZeroHash
        /\ s.observationTime <= p.proposedAt
        /\ p.proposedAt < s.proposalDeadline
        /\ p.disputeDeadline = p.proposedAt + s.disputeWindowSeconds
        /\ p.outcome = "VOID" /\ p.reason # TERMS_UNRESOLVABLE
             => p.proposedAt >= s.sourceCorrectionCutoff

ValidDispute(s, c) ==
    LET d == c.dispute
        expectedStart == IF d.disputedAt < s.sourceCorrectionCutoff
                         THEN s.sourceCorrectionCutoff ELSE d.disputedAt
    IN  d.exists =>
            /\ c.proposal.exists
            /\ d.disputingWallet # ZeroAddress
            /\ d.disputingWallet \in {s.challengerWallet, c.acceptingWallet}
            /\ d.evidenceHash # ZeroHash
            /\ d.parentEvidenceHash = c.proposal.evidenceHash
            /\ d.outcome # c.proposal.outcome
            /\ c.proposal.proposedAt <= d.disputedAt
            /\ d.disputedAt < c.proposal.disputeDeadline
            /\ d.arbitrationStart = expectedStart
            /\ d.arbitrationDeadline = expectedStart + s.arbitrationWindowSeconds

-----------------------------------------------------------------------------
(* How the final record must extend the evidence, for each way to end. *)

Uncontested(c, f) ==
    /\ c.proposal.exists
    /\ ~c.dispute.exists
    /\ f.outcome = c.proposal.outcome
    /\ f.reason = c.proposal.reason
    /\ f.finalEvidenceHash = c.proposal.evidenceHash
    /\ f.finalEvidenceHash # ZeroHash
    /\ f.parentEvidenceHash = ZeroHash

(* A resolved challenge must also show its proposal, a void one need not. *)
Arbitrated(c, f) ==
    /\ f.outcome # "VOID" => c.proposal.exists
    /\ c.dispute.exists
    /\ f.finalEvidenceHash # ZeroHash
    /\ f.parentEvidenceHash = c.dispute.evidenceHash

TimedOut(c, f) ==
    /\ f.outcome = "VOID"
    /\ f.finalEvidenceHash = ZeroHash
    /\ f.parentEvidenceHash = ZeroHash
    /\ IF f.path = "PROPOSAL_TIMEOUT"
       THEN ~c.proposal.exists /\ ~c.dispute.exists /\ f.reason = 0
       ELSE c.proposal.exists /\ c.dispute.exists /\ f.reason = 1

ValidFinalResolution(c) ==
    LET f == c.finalResolution IN
    f.exists =>
        /\ c.state = "RESOLVED_A" => f.outcome = "A"
        /\ c.state = "RESOLVED_B" => f.outcome = "B"
        /\ c.state = "VOID" => f.outcome = "VOID"
        /\ CASE f.path = "UNCONTESTED" -> Uncontested(c, f)
             [] f.path = "ARBITER"     -> Arbitrated(c, f)
             [] f.path \in TimeoutPath -> TimedOut(c, f)

ValidChallenge(s, c) ==
    /\ ValidTerms(s, c)
    /\ ValidMatch(s, c)
    /\ c.outstandingLiability <= c.depositedAmount
    /\ c.outstandingLiability \in PayoutSteps(s, c)
    /\ RecordsMatchState(c)
    /\ ValidProposal(s, c)
    /\ ValidDispute(s, c)
    /\ ValidFinalResolution(c)

-----------------------------------------------------------------------------
ValidEntitlement(e) ==
    /\ e.exists <=> (e.claimableAmount # 0 \/ e.paidAmount # 0)
    /\ 0 \in {e.claimableAmount, e.paidAmount}

TotalPaid(s, c, e) ==
    e[s.challengerWallet].paidAmount
    + (IF c.acceptingWallet = ZeroAddress THEN 0 ELSE e[c.acceptingWallet].paidAmount)

TotalClaimable(s, c, e) ==
    e[s.challengerWallet].claimableAmount
    + (IF c.acceptingWallet = ZeroAddress THEN 0 ELSE e[c.acceptingWallet].claimableAmount)

(* entitlementConservation *)
ClaimsConserved(s, c, e) ==
    IF c.state \in Terminal
    THEN TotalPaid(s, c, e) + TotalClaimable(s, c, e) = c.depositedAmount
    ELSE TotalPaid(s, c, e) = 0 /\ TotalClaimable(s, c, e) = 0

(* summarizeAccounting: localConservation, entitlementConservation and     *)
(* nonNegative.                                                            *)
Conserved(s, c, e) ==
    /\ c.depositedAmount - TotalPaid(s, c, e) = c.outstandingLiability
    /\ ClaimsConserved(s, c, e)
    /\ c.depositedAmount - TotalPaid(s, c, e) >= 0

Wallets(s, c) == {s.challengerWallet, c.acceptingWallet} \ {ZeroAddress}

(* readReleaseSnapshot *)
ValidRelease ==
    /\ ZeroAddress \notin {Escrow, Token, Resolver, Arbiter, Pauser}
    /\ Cardinality({Escrow, Token, Resolver, Arbiter, Pauser}) = 5

(* inspectChallenge, given what its reads returned.  The finalizer of an   *)
(* arbitrated challenge, which it compares with the arbiter, is not stored *)
(* in this model: arbitrate admits no other caller.                        *)
inspectChallenge(s, c, e, aggregate) ==
    /\ ValidRelease
    /\ ValidChallenge(s, c)
    /\ Wallets(s, c) \cap {Escrow, Token, Resolver, Arbiter, Pauser} = {}
    /\ aggregate >= c.outstandingLiability
    /\ \A w \in Wallets(s, c) : ValidEntitlement(e[w])
    /\ Conserved(s, c, e)

-----------------------------------------------------------------------------
(* The inspector refuses no state that the contract can be in: validation  *)
(* written for the client is not stricter than the contract on any path,   *)
(* in any order of calls and at any payout step.                           *)
InspectorAccepts ==
    \A s \in Specs :
        challenges[s].exists =>
            inspectChallenge(s, challenges[s], entitlements[s], totalOutstandingLiability)

(* inspectChallenge reads the entitlements after the challenge.  Should a  *)
(* provider answer the two reads from different blocks, with a transaction *)
(* in between that changed an entitlement, the books no longer agree and   *)
(* the inspection is refused.                                              *)
SplitReadRefused ==
    [][\A s \in Specs :
         challenges[s].exists /\ entitlements'[s] # entitlements[s] =>
             ~inspectChallenge(s, challenges[s], entitlements'[s],
                               totalOutstandingLiability)]_vars
=============================================================================
