---------------------------- MODULE ChallengeTypes ----------------------------
(***************************************************************************)
(* The vocabulary of the escrow contract: the addresses and roles of one   *)
(* deployment, the enumerations and records of ChallengeTypes.sol, and the *)
(* pure rules about an execution that the kernel checks once, at creation. *)
(*                                                                         *)
(* A challenge is identified by a hash of its execution and terms, so here *)
(* the pair (execution, terms) itself, an element of Execution below, is   *)
(* the challenge id: two submissions have the same id iff they agree on    *)
(* every field.  The execution's fields that the contract copies into      *)
(* storage and never changes are read from the id.                         *)
(***************************************************************************)
EXTENDS Integers

CONSTANTS
    Addresses,      \* every account that can call, own tokens or be named
    ZeroAddress, Escrow, Token, Resolver, Arbiter, Pauser,
    Hashes,         \* the bytes32 values in use: nonces, terms and evidence
    ZeroHash,
    ReasonCodes,    \* the uint8 reason codes that callers submit
    MaxUint64,      \* width of timestamps, 2^64 - 1 in the code
    MaxUint256      \* width of amounts, 2^256 - 1 in the code

(* What the kernel's constructor demands of the role addresses. *)
KernelDeployment ==
    /\ Token \notin {ZeroAddress, Escrow}
    /\ ZeroAddress \notin {Resolver, Arbiter}
    /\ Resolver # Arbiter

(* And the release's, which runs after it. *)
ValidDeployment ==
    /\ KernelDeployment
    /\ Resolver \notin {Token, Escrow}
    /\ Arbiter \notin {Token, Escrow}
    /\ Pauser \notin {ZeroAddress, Escrow, Token, Resolver, Arbiter}

ASSUME DeploymentAssumption ==
    /\ {ZeroAddress, Escrow, Token, Resolver, Arbiter, Pauser} \subseteq Addresses
    /\ Escrow # ZeroAddress
    /\ ValidDeployment
    /\ ZeroHash \in Hashes

ASSUME WidthAssumption ==
    /\ MaxUint64 \in Nat
    /\ MaxUint256 \in Nat
    /\ ReasonCodes \subseteq 0..255

Uint64  == 0..MaxUint64
Uint256 == 0..MaxUint256

-----------------------------------------------------------------------------
LifecycleState == {"OPEN", "ACTIVE", "PROPOSED", "DISPUTED", "CANCELLED",
                   "EXPIRED", "RESOLVED_A", "RESOLVED_B", "VOID"}
Terminal  == {"CANCELLED", "EXPIRED", "RESOLVED_A", "RESOLVED_B", "VOID"}
Unmatched == {"OPEN", "CANCELLED", "EXPIRED"}   \* states without an acceptor
Side      == {"A", "B"}
Outcome   == {"A", "B", "VOID"}

(* ResolutionPath and VoidPath in one: the two share their first members. *)
Path == {"UNCONTESTED", "ARBITER", "PROPOSAL_TIMEOUT", "ARBITRATION_TIMEOUT"}
TimeoutPath == {"PROPOSAL_TIMEOUT", "ARBITRATION_TIMEOUT"}

MaxABReason        == 3     \* CORRECTED_FALLBACK_OBSERVATION
TERMS_UNRESOLVABLE == 5     \* the last EvidenceVoidReason

(* _validateReason: the enumeration a reason code must lie in depends on   *)
(* the outcome it explains.                                                *)
ValidReason(outcome, reason) ==
    reason <= (IF outcome = "VOID" THEN TERMS_UNRESOLVABLE ELSE MaxABReason)

(***************************************************************************)
(* The signed execution together with the terms hash.  onThisRelease says  *)
(* that chain id, escrow contract, token and token decimals are the ones   *)
(* of this deployment.                                                     *)
(***************************************************************************)
Execution ==
    [nonce: Hashes, termsHash: Hashes, onThisRelease: BOOLEAN,
     challengerWallet: Addresses, challengerSide: Side, stakeAmount: Uint256,
     createdAt: Uint64, acceptanceDeadline: Uint64, observationTime: Uint64,
     sourceCorrectionCutoff: Uint64, proposalDeadline: Uint64,
     disputeWindowSeconds: Uint64, arbitrationWindowSeconds: Uint64,
     timeoutVoidAt: Uint64]

(* An off-chain EIP-712 permit: the challenger lets one wallet accept. *)
AcceptancePermit(S) ==
    [spec: S, acceptingWallet: Addresses, acceptanceNonce: Nat, expiresAt: Uint64]

Proposal == [exists: {TRUE}, outcome: Outcome, reason: ReasonCodes,
             evidenceHash: Hashes, proposedAt: Uint64, disputeDeadline: Uint64]
Dispute  == [exists: {TRUE}, disputingWallet: Addresses, outcome: Outcome,
             reason: ReasonCodes, evidenceHash: Hashes,
             parentEvidenceHash: Hashes, disputedAt: Uint64,
             arbitrationStart: Uint64, arbitrationDeadline: Uint64]
FinalResolution ==
            [exists: {TRUE}, outcome: Outcome, reason: 0..255, path: Path,
             finalEvidenceHash: Hashes, parentEvidenceHash: Hashes]
Absent   == [exists |-> FALSE]      \* a struct that was never written

Challenge ==
    [exists: {TRUE}, state: LifecycleState, acceptingWallet: Addresses,
     acceptanceNonce: Nat, depositedAmount: Uint256,
     outstandingLiability: Uint256, openedAt: Uint64, acceptedAt: Uint64,
     proposal: Proposal \cup {Absent}, dispute: Dispute \cup {Absent},
     finalResolution: FinalResolution \cup {Absent}]

Entitlement == [exists: BOOLEAN, claimableAmount: Uint256, paidAmount: Uint256]

-----------------------------------------------------------------------------
OtherSide(side) == IF side = "A" THEN "B" ELSE "A"

KernelChallengerWallet(w) == w \notin {ZeroAddress, Escrow, Token, Resolver, Arbiter}
ValidChallengerWallet(w) == KernelChallengerWallet(w) /\ w # Pauser
ValidParticipantWallet(w, challenger) == ValidChallengerWallet(w) /\ w # challenger

(* A plausible slip: the correction cutoff is only compared with its       *)
(* neighbours, not with the earliest end of a dispute window.              *)
OrderedTimelineNoWindowBound(s, openedAt) ==
    /\ s.createdAt <= openedAt
    /\ openedAt < s.acceptanceDeadline
    /\ s.acceptanceDeadline < s.observationTime
    /\ s.observationTime < s.sourceCorrectionCutoff
    /\ s.sourceCorrectionCutoff < s.proposalDeadline
    /\ s.disputeWindowSeconds > 0
    /\ s.arbitrationWindowSeconds > 0

(* The chronological part of _validateExecution.  The sums are uint256 in  *)
(* the code and cannot wrap.                                               *)
OrderedTimeline(s, openedAt) ==
    /\ s.createdAt <= openedAt
    /\ openedAt < s.acceptanceDeadline
    /\ s.acceptanceDeadline < s.observationTime
    /\ s.observationTime < s.sourceCorrectionCutoff
    /\ s.sourceCorrectionCutoff < s.proposalDeadline
    /\ s.disputeWindowSeconds > 0
    /\ s.arbitrationWindowSeconds > 0
    /\ s.sourceCorrectionCutoff < s.observationTime + s.disputeWindowSeconds

(* timeoutVoidAt bounds the longest proposal path and the longest          *)
(* correction path.                                                        *)
BoundedTimeline(s) ==
    /\ s.proposalDeadline + s.disputeWindowSeconds + s.arbitrationWindowSeconds
         <= s.timeoutVoidAt
    /\ s.sourceCorrectionCutoff + s.arbitrationWindowSeconds <= s.timeoutVoidAt

(* A plausible slip: the stake alone is bounded by the width. *)
StakeFits(s) == s.stakeAmount \in 1..MaxUint256

(* A stake may be doubled. *)
StakeDoubles(s) ==
    /\ s.stakeAmount > 0
    /\ s.stakeAmount <= MaxUint256 \div 2

(* _validateExecution and the non-zero terms hash that specHash demands. *)
ValidExecution(s, openedAt) ==
    /\ s.nonce # ZeroHash
    /\ s.termsHash # ZeroHash
    /\ s.onThisRelease
    /\ ValidChallengerWallet(s.challengerWallet)
    /\ StakeDoubles(s)
    /\ OrderedTimeline(s, openedAt)
    /\ BoundedTimeline(s)
=============================================================================
