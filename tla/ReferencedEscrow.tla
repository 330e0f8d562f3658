--------------------------- MODULE ReferencedEscrow ---------------------------
(***************************************************************************)
(* The contract seen through the JavaScript reference model: the           *)
(* refinement mapping from storage to the model's fields.                  *)
(***************************************************************************)
EXTENDS ChallengeEscrow

(* The model's null stands for the zero address and the zero hash. *)
NullAddress(w) == IF w = ZeroAddress THEN ZeroHash ELSE w

ModelEntitlements(s) ==
    [w \in Participants(s) \ {ZeroAddress} |->
        [claimable |-> entitlements[s][w].claimableAmount,
         paid      |-> entitlements[s][w].paidAmount]]

ModelPaid(s, w) == IF w = ZeroAddress THEN 0 ELSE entitlements[s][w].paidAmount

ModelExecution(s) ==
    [id |-> s, nonce |-> s.nonce, challenger |-> s.challengerWallet,
     challengerSide |-> s.challengerSide, stake |-> s.stakeAmount,
     acceptanceDeadline |-> s.acceptanceDeadline, observationTime |-> s.observationTime,
     sourceCorrectionCutoff |-> s.sourceCorrectionCutoff,
     proposalDeadline |-> s.proposalDeadline,
     disputeWindow |-> s.disputeWindowSeconds,
     arbitrationWindow |-> s.arbitrationWindowSeconds, timeoutVoidAt |-> s.timeoutVoidAt]

ModelChallenge(s) ==
    LET c == challenges[s]
        p == c.proposal
        d == c.dispute
        f == c.finalResolution
    IN  [challenger |-> s.challengerWallet, acceptor |-> NullAddress(c.acceptingWallet),
         challengerSide |-> s.challengerSide, stake |-> s.stakeAmount, state |-> c.state,
         acceptanceNonce |-> c.acceptanceNonce, deposited |-> c.depositedAmount,
         outstanding |-> c.outstandingLiability,
         paid |-> [challenger |-> ModelPaid(s, s.challengerWallet),
                   acceptor   |-> ModelPaid(s, c.acceptingWallet)],
         acceptanceDeadline |-> s.acceptanceDeadline,
         observationTime |-> s.observationTime,
         sourceCorrectionCutoff |-> s.sourceCorrectionCutoff,
         proposalDeadline |-> s.proposalDeadline,
         disputeWindow |-> s.disputeWindowSeconds,
         arbitrationWindow |-> s.arbitrationWindowSeconds,
         timeoutVoidAt |-> s.timeoutVoidAt,
         proposal |-> IF ~p.exists THEN ZeroHash
                      ELSE [outcome |-> p.outcome, evidenceHash |-> p.evidenceHash,
                            proposedAt |-> p.proposedAt,
                            disputeDeadline |-> p.disputeDeadline],
         dispute |-> IF ~d.exists THEN ZeroHash
                     ELSE [outcome |-> d.outcome, evidenceHash |-> d.evidenceHash,
                           parentEvidenceHash |-> d.parentEvidenceHash,
                           disputedAt |-> d.disputedAt,
                           arbitrationStart |-> d.arbitrationStart,
                           arbitrationDeadline |-> d.arbitrationDeadline],
         final |-> IF ~f.exists THEN ZeroHash
                   ELSE [outcome |-> f.outcome, evidenceHash |-> f.finalEvidenceHash],
         entitlements |-> ModelEntitlements(s)]

(* The values that ModelChallenge takes. *)
ModelRecords ==
    LET Wallet == Addresses \cup {ZeroHash}
        Claims == [claimable : Uint256, paid : Uint256]
    IN  [challenger : Addresses, acceptor : Wallet, challengerSide : Side, stake : Uint256,
         state : LifecycleState, acceptanceNonce : Nat, deposited : Uint256,
         outstanding : Uint256, paid : [challenger : Uint256, acceptor : Uint256],
         acceptanceDeadline : Uint64, observationTime : Uint64,
         sourceCorrectionCutoff : Uint64, proposalDeadline : Uint64,
         disputeWindow : Uint64, arbitrationWindow : Uint64, timeoutVoidAt : Uint64,
         proposal : {ZeroHash} \cup
             [outcome : Outcome, evidenceHash : Hashes, proposedAt : Uint64,
              disputeDeadline : Uint64],
         dispute : {ZeroHash} \cup
             [outcome : Outcome, evidenceHash : Hashes, parentEvidenceHash : Hashes,
              disputedAt : Uint64, arbitrationStart : Uint64, arbitrationDeadline : Uint64],
         final : {ZeroHash} \cup [outcome : Outcome, evidenceHash : Hashes],
         entitlements : UNION {[W -> Claims] : W \in SUBSET Addresses}]

(* Null is neither a wallet nor a challenge. *)
ASSUME NullAssumption == ZeroHash \notin Addresses \cup ModelRecords

Model == INSTANCE ReferenceModel WITH
    Wallets    <- Callers,
    Creations  <- {ModelExecution(s) : s \in Specs},
    Evidence   <- Hashes,
    Times      <- Uint64,
    Nonces     <- 0..MaxNonce,
    None       <- ZeroHash,
    MaxStake   <- MaxUint256 \div 2,
    challenges <- [s \in Specs |-> IF challenges[s].exists THEN ModelChallenge(s) ELSE ZeroHash],
    usedNonces <- usedInstanceNonces

(* Every transaction of the contract is an action that the reference model *)
(* accepts, with the same effect on every field that the model has, so     *)
(* that nothing the simulator and the sweep conclude from the model's      *)
(* refusals is wrong about the contract.  (The model starts unpaused; the  *)
(* contract may start paused, which is one pause of the model away.)       *)
ModelCoversContract == [][Model!Apply(now)]_(Model!vars)
=============================================================================
