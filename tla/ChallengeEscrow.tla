---------------------------- MODULE ChallengeEscrow ----------------------------
(***************************************************************************)
(* The on-chain state machine: ChallengeEscrowKernel.sol together with the *)
(* pausable release ChallengeEscrow.sol, over a conforming token.          *)
(*                                                                         *)
(* One action is one successful transaction; a transaction that reverts    *)
(* leaves the state alone and is a stuttering step.  Every external state- *)
(* changing function is nonReentrant or makes no external call, so a       *)
(* transaction is atomic.  Callers, the arguments they pass and the block  *)
(* timestamp are chosen freely within each action's guard.                 *)
(***************************************************************************)
EXTENDS ChallengeTypes, FiniteSets

CONSTANTS
    Specs,           \* executions, valid or not, that callers may submit
    Permits,         \* permits that challengers may sign off chain
    InitialBalance,  \* token balances when the contract is deployed
    Donations,       \* amounts that holders may send the escrow unasked
    MaxNonce         \* bound on how often one challenge's nonce is advanced

ASSUME InputAssumption ==
    /\ Specs \subseteq Execution
    /\ Permits \subseteq AcceptancePermit(Specs)
    /\ InitialBalance \in [Addresses -> Uint256]
    /\ Donations \subseteq Uint256
    /\ MaxNonce \in Nat

VARIABLES
    now,                        \* block.timestamp
    paused,
    totalOutstandingLiability,
    challenges,                 \* _challenges
    entitlements,               \* _entitlements
    usedInstanceNonces,         \* _usedInstanceNonces, as a set of pairs
    balance,                    \* the token's balances
    signedPermits               \* permits bearing their challenger's signature

contractVars == <<paused, totalOutstandingLiability, challenges, entitlements,
                  usedInstanceNonces>>
vars == <<now, contractVars, balance, signedPermits>>

Callers == Addresses \ {ZeroAddress, Escrow, Token}

NoEntitlement == [exists |-> FALSE, claimableAmount |-> 0, paidAmount |-> 0]

Init ==
    /\ now = 0
    /\ paused \in BOOLEAN
    /\ totalOutstandingLiability = 0
    /\ challenges = [s \in Specs |-> Absent]
    /\ entitlements = [s \in Specs |-> [w \in Addresses |-> NoEntitlement]]
    /\ usedInstanceNonces = {}
    /\ balance = InitialBalance
    /\ signedPermits = {}

-----------------------------------------------------------------------------
(* The environment: time, signatures and the token.                        *)

Tick ==
    /\ now < MaxUint64
    /\ now' = now + 1
    /\ UNCHANGED <<contractVars, balance, signedPermits>>

SignPermit(p) ==
    /\ signedPermits' = signedPermits \cup {p}
    /\ UNCHANGED <<now, contractVars, balance>>

Transfer(from, to, amount) ==
    /\ balance[from] >= amount
    /\ balance[to] + amount <= MaxUint256
    /\ balance' = [balance EXCEPT ![from] = @ - amount, ![to] = @ + amount]

Donate(from, amount) ==
    /\ Transfer(from, Escrow, amount)
    /\ UNCHANGED <<now, contractVars, signedPermits>>

(* A plausible slip: the stake is booked without looking at the balance. *)
PullUnverified(from, amount) == balance[from] >= amount /\ UNCHANGED balance

(* ExactTokenDelta over a token whose transfers move exactly the amount. *)
PullExact(from, amount) == Transfer(from, Escrow, amount)
PushExact(to, amount)   == Transfer(Escrow, to, amount)

-----------------------------------------------------------------------------
(* The lookups _openChallenge, _activeChallenge and so on. *)
InState(s, st) == challenges[s].exists /\ challenges[s].state = st

(* The arithmetic is checked: a sum beyond the type's width reverts. *)
Fits64(n)  == n <= MaxUint64
Fits256(n) == n <= MaxUint256

(* A plausible slip: only the id, which covers the terms, is compared. *)
NonceUnchecked(s) == TRUE

NonceUnused(s) == <<s.challengerWallet, s.nonce>> \notin usedInstanceNonces

(* A call that moves tokens: what it checks, the transfer, what it writes. *)
MayCreate(caller, s) ==
    /\ ~paused
    /\ ValidExecution(s, now)
    /\ caller = s.challengerWallet
    /\ ~challenges[s].exists
    /\ NonceUnused(s)

WriteOpen(s) ==
    /\ Fits256(totalOutstandingLiability + s.stakeAmount)
    /\ usedInstanceNonces' = usedInstanceNonces \cup {<<s.challengerWallet, s.nonce>>}
    /\ totalOutstandingLiability' = totalOutstandingLiability + s.stakeAmount
    /\ challenges' = [challenges EXCEPT ![s] =
            [exists |-> TRUE, state |-> "OPEN", acceptingWallet |-> ZeroAddress,
             acceptanceNonce |-> 0, depositedAmount |-> s.stakeAmount,
             outstandingLiability |-> s.stakeAmount, openedAt |-> now,
             acceptedAt |-> 0, proposal |-> Absent, dispute |-> Absent,
             finalResolution |-> Absent]]
    /\ UNCHANGED <<now, paused, entitlements, signedPermits>>

createAndFund(caller, s) ==
    /\ MayCreate(caller, s)
    /\ PullExact(s.challengerWallet, s.stakeAmount)
    /\ WriteOpen(s)

(* A plausible slip: a permit outlives the nonce it was signed under. *)
PermitLiveIgnoringNonce(p, c) ==
    /\ now < p.expiresAt
    /\ p.expiresAt <= p.spec.acceptanceDeadline
    /\ p.expiresAt # 0
    /\ p \in signedPermits

(* What makes the permit good for challenge c: current nonce, not expired, *)
(* expiring no later than the acceptance window, signed by the challenger. *)
PermitLive(p, c) ==
    /\ p.acceptanceNonce = c.acceptanceNonce
    /\ now < p.expiresAt
    /\ p.expiresAt <= p.spec.acceptanceDeadline
    /\ p.expiresAt # 0
    /\ p \in signedPermits

(* A plausible slip: the accepted stake is booked on the challenge only. *)
AggregateIgnoringAccept(s) == totalOutstandingLiability

AggregateAfterAccept(s) == totalOutstandingLiability + s.stakeAmount

MayAccept(caller, s, p) ==
    /\ ~paused
    /\ InState(s, "OPEN")
    /\ now < s.acceptanceDeadline
    /\ p.spec = s
    /\ caller = p.acceptingWallet
    /\ ValidParticipantWallet(p.acceptingWallet, s.challengerWallet)
    /\ PermitLive(p, challenges[s])

WriteMatch(s, p) ==
    /\ Fits256(challenges[s].depositedAmount + s.stakeAmount)
    /\ Fits256(challenges[s].outstandingLiability + s.stakeAmount)
    /\ Fits256(totalOutstandingLiability + s.stakeAmount)
    /\ challenges' = [challenges EXCEPT ![s] = [@ EXCEPT
            !.acceptingWallet = p.acceptingWallet,
            !.acceptedAt = now,
            !.depositedAmount = challenges[s].depositedAmount + s.stakeAmount,
            !.outstandingLiability = challenges[s].outstandingLiability + s.stakeAmount,
            !.state = "ACTIVE"]]
    /\ totalOutstandingLiability' = AggregateAfterAccept(s)
    /\ UNCHANGED <<now, paused, entitlements, usedInstanceNonces, signedPermits>>

accept(caller, s, p) ==
    /\ MayAccept(caller, s, p)
    /\ PullExact(p.acceptingWallet, s.stakeAmount)
    /\ WriteMatch(s, p)

advanceAcceptanceNonce(caller, s) ==
    /\ InState(s, "OPEN")
    /\ caller = s.challengerWallet
    /\ now < s.acceptanceDeadline
    /\ challenges[s].acceptanceNonce < MaxNonce
    /\ challenges' = [challenges EXCEPT ![s] = [@ EXCEPT
            !.acceptanceNonce = challenges[s].acceptanceNonce + 1]]
    /\ UNCHANGED <<now, paused, totalOutstandingLiability, entitlements,
                   usedInstanceNonces, balance, signedPermits>>

-----------------------------------------------------------------------------
(* A plausible slip: the caller's doubling of the stake is done twice. *)
OweDouble(e, amount) == [e EXCEPT !.exists = TRUE, !.claimableAmount = 2 * amount]

Owe(e, amount) == [e EXCEPT !.exists = TRUE, !.claimableAmount = amount]

(* Entitlements come into being only with a terminal state. *)
CreateEntitlements(s, wallets, amount) ==
    entitlements' = [entitlements EXCEPT ![s] =
        [w \in Addresses |-> IF w \in wallets THEN Owe(entitlements[s][w], amount)
                                              ELSE entitlements[s][w]]]

CreateOpenRefund(s, st) ==
    /\ challenges' = [challenges EXCEPT ![s] = [@ EXCEPT !.state = st]]
    /\ CreateEntitlements(s, {s.challengerWallet}, s.stakeAmount)
    /\ UNCHANGED <<now, paused, totalOutstandingLiability, usedInstanceNonces,
                   balance, signedPermits>>

cancelOpen(caller, s) ==
    /\ InState(s, "OPEN")
    /\ caller = s.challengerWallet
    /\ now < s.acceptanceDeadline
    /\ CreateOpenRefund(s, "CANCELLED")

AcceptanceClosed(s) == now >= s.acceptanceDeadline

expireOpen(s) ==
    /\ InState(s, "OPEN")
    /\ AcceptanceClosed(s)
    /\ CreateOpenRefund(s, "EXPIRED")

-----------------------------------------------------------------------------
(* A VOID for a defect that the source may yet correct has to wait. *)
ProposableNow(s, outcome, reason) ==
    outcome = "VOID" /\ reason # TERMS_UNRESOLVABLE => now >= s.sourceCorrectionCutoff

DisputeDeadline(s) == now + s.disputeWindowSeconds

propose(caller, s, outcome, reason, evidenceHash) ==
    /\ ~paused
    /\ InState(s, "ACTIVE")
    /\ caller = Resolver
    /\ s.observationTime <= now
    /\ now < s.proposalDeadline
    /\ evidenceHash # ZeroHash
    /\ ValidReason(outcome, reason)
    /\ ProposableNow(s, outcome, reason)
    /\ Fits64(DisputeDeadline(s))
    /\ challenges' = [challenges EXCEPT ![s] = [@ EXCEPT
            !.state = "PROPOSED",
            !.proposal = [exists |-> TRUE, outcome |-> outcome, reason |-> reason,
                          evidenceHash |-> evidenceHash, proposedAt |-> now,
                          disputeDeadline |-> DisputeDeadline(s)]]]
    /\ UNCHANGED <<now, paused, totalOutstandingLiability, entitlements,
                   usedInstanceNonces, balance, signedPermits>>

(* A plausible slip: a submission need not name what it answers. *)
ParentUnchecked(parentEvidenceHash, evidenceHash) == TRUE

(* Evidence that answers earlier evidence has to name it. *)
ParentMatches(parentEvidenceHash, evidenceHash) == parentEvidenceHash = evidenceHash

ArbitrationStart(s) ==
    IF now < s.sourceCorrectionCutoff THEN s.sourceCorrectionCutoff ELSE now

Participants(s) == {s.challengerWallet, challenges[s].acceptingWallet}

dispute(caller, s, outcome, reason, evidenceHash, parentEvidenceHash) ==
    LET proposal == challenges[s].proposal IN
    /\ InState(s, "PROPOSED")
    /\ caller \in Participants(s)
    /\ now < proposal.disputeDeadline
    /\ outcome # proposal.outcome
    /\ evidenceHash # ZeroHash
    /\ ParentMatches(parentEvidenceHash, proposal.evidenceHash)
    /\ ValidReason(outcome, reason)
    /\ Fits64(ArbitrationStart(s) + s.arbitrationWindowSeconds)
    /\ challenges' = [challenges EXCEPT ![s] = [@ EXCEPT
            !.state = "DISPUTED",
            !.dispute = [exists |-> TRUE, disputingWallet |-> caller,
                         outcome |-> outcome, reason |-> reason,
                         evidenceHash |-> evidenceHash,
                         parentEvidenceHash |-> parentEvidenceHash,
                         disputedAt |-> now,
                         arbitrationStart |-> ArbitrationStart(s),
                         arbitrationDeadline |->
                             ArbitrationStart(s) + s.arbitrationWindowSeconds]]]
    /\ UNCHANGED <<now, paused, totalOutstandingLiability, entitlements,
                   usedInstanceNonces, balance, signedPermits>>

-----------------------------------------------------------------------------
(* A plausible slip: the winning side is compared with the acceptor's. *)
WinnerWalletSwapped(s, outcome) ==
    IF s.challengerSide # outcome THEN s.challengerWallet
                                  ELSE challenges[s].acceptingWallet

WinnerWallet(s, outcome) ==
    IF s.challengerSide = outcome THEN s.challengerWallet
                                  ELSE challenges[s].acceptingWallet

ResolvedState(outcome) == IF outcome = "A" THEN "RESOLVED_A" ELSE "RESOLVED_B"

(* _finalizeResolved: the winner is owed both stakes. *)
FinalizeResolved(s, resolution) ==
    /\ challenges' = [challenges EXCEPT ![s] = [@ EXCEPT
            !.state = ResolvedState(resolution.outcome),
            !.finalResolution = resolution]]
    /\ CreateEntitlements(s, {WinnerWallet(s, resolution.outcome)}, s.stakeAmount * 2)

(* A plausible slip: only the challenger's stake is refunded. *)
AcceptedRefundsOneSided(s) ==
    CreateEntitlements(s, {s.challengerWallet}, s.stakeAmount)

AcceptedRefunds(s) == CreateEntitlements(s, Participants(s), s.stakeAmount)

(* _finalizeEvidenceVoid and _finalizeTimeoutVoid: each gets its stake back. *)
FinalizeVoid(s, resolution) ==
    /\ challenges' = [challenges EXCEPT ![s] = [@ EXCEPT
            !.state = "VOID",
            !.finalResolution = resolution]]
    /\ AcceptedRefunds(s)

Finalize(s, outcome, reason, path, finalEvidenceHash, parentEvidenceHash) ==
    LET resolution == [exists |-> TRUE, outcome |-> outcome, reason |-> reason,
                       path |-> path, finalEvidenceHash |-> finalEvidenceHash,
                       parentEvidenceHash |-> parentEvidenceHash]
    IN  /\ \/ outcome # "VOID" /\ FinalizeResolved(s, resolution)
           \/ outcome = "VOID" /\ FinalizeVoid(s, resolution)
        /\ UNCHANGED <<now, paused, totalOutstandingLiability,
                       usedInstanceNonces, balance, signedPermits>>

finalizeUncontested(s) ==
    LET proposal == challenges[s].proposal IN
    /\ InState(s, "PROPOSED")
    /\ now >= proposal.disputeDeadline
    /\ Finalize(s, proposal.outcome, proposal.reason, "UNCONTESTED",
                proposal.evidenceHash, ZeroHash)

(* A plausible slip: the arbiter's deadline is never looked at. *)
ArbitrationOpenEnded(s) == s.sourceCorrectionCutoff <= now

ArbitrationOpen(s) ==
    /\ s.sourceCorrectionCutoff <= now
    /\ now < challenges[s].dispute.arbitrationDeadline

arbitrate(caller, s, outcome, reason, evidenceHash, parentEvidenceHash) ==
    /\ InState(s, "DISPUTED")
    /\ caller = Arbiter
    /\ ArbitrationOpen(s)
    /\ evidenceHash # ZeroHash
    /\ ParentMatches(parentEvidenceHash, challenges[s].dispute.evidenceHash)
    /\ ValidReason(outcome, reason)
    /\ Finalize(s, outcome, reason, "ARBITER", evidenceHash, parentEvidenceHash)

voidUnproposed(s) ==
    /\ InState(s, "ACTIVE")
    /\ now >= s.proposalDeadline
    /\ Finalize(s, "VOID", 0, "PROPOSAL_TIMEOUT", ZeroHash, ZeroHash)

voidUnarbitrated(s) ==
    /\ InState(s, "DISPUTED")
    /\ now >= challenges[s].dispute.arbitrationDeadline
    /\ Finalize(s, "VOID", 1, "ARBITRATION_TIMEOUT", ZeroHash, ZeroHash)

-----------------------------------------------------------------------------
Consumed(e, amount) == [e EXCEPT !.claimableAmount = 0, !.paidAmount = amount]

(* A plausible slip: an entitlement is not checked for an earlier payment. *)
EntitledBefore(e, amount) == e.exists

Entitled(e, amount) == e.exists /\ e.claimableAmount = amount /\ e.paidAmount = 0

SolventBefore == balance[Escrow] >= totalOutstandingLiability

MayPay(s, wallet, amount) ==
    /\ Entitled(entitlements[s][wallet], amount)
    /\ challenges[s].outstandingLiability >= amount
    /\ totalOutstandingLiability >= amount
    /\ SolventBefore

WritePaid(s, wallet, amount) ==
    /\ entitlements' = [entitlements EXCEPT ![s] = [@ EXCEPT
            ![wallet] = Consumed(entitlements[s][wallet], amount)]]
    /\ challenges' = [challenges EXCEPT ![s] = [@ EXCEPT
            !.outstandingLiability = challenges[s].outstandingLiability - amount]]
    /\ totalOutstandingLiability' = totalOutstandingLiability - amount
    /\ UNCHANGED <<now, paused, usedInstanceNonces, signedPermits>>

ConsumeAndPay(s, wallet, amount) ==
    /\ MayPay(s, wallet, amount)
    /\ WritePaid(s, wallet, amount)
    /\ PushExact(wallet, amount)
    /\ balance[Escrow] - amount >= totalOutstandingLiability - amount

MayClaim(caller, s) ==
    /\ challenges[s].exists
    /\ challenges[s].state \in {"RESOLVED_A", "RESOLVED_B"}
    /\ caller = WinnerWallet(s, challenges[s].finalResolution.outcome)

claimWinnings(caller, s) ==
    /\ MayClaim(caller, s)
    /\ ConsumeAndPay(s, caller, s.stakeAmount * 2)

MayRefund(caller, s) ==
    /\ challenges[s].exists
    /\ \/ /\ challenges[s].state \in {"CANCELLED", "EXPIRED"}
          /\ caller = s.challengerWallet
       \/ /\ challenges[s].state = "VOID"
          /\ caller \in Participants(s)

refundPrincipal(caller, s) ==
    /\ MayRefund(caller, s)
    /\ ConsumeAndPay(s, caller, s.stakeAmount)

setPaused(caller, newPaused) ==
    /\ caller = Pauser
    /\ newPaused # paused
    /\ paused' = newPaused
    /\ UNCHANGED <<now, totalOutstandingLiability, challenges, entitlements,
                   usedInstanceNonces, balance, signedPermits>>

-----------------------------------------------------------------------------
Environment ==
    \/ Tick
    \/ \E p \in Permits \ signedPermits : SignPermit(p)
    \/ \E from \in Callers, amount \in Donations : Donate(from, amount)

Opening(caller, s) ==
    \/ createAndFund(caller, s)
    \/ \E p \in signedPermits : accept(caller, s, p)
    \/ advanceAcceptanceNonce(caller, s)
    \/ cancelOpen(caller, s)

Deciding(caller, s) ==
    \E outcome \in Outcome, reason \in ReasonCodes, evidenceHash \in Hashes :
        \/ propose(caller, s, outcome, reason, evidenceHash)
        \/ \E parent \in Hashes :
            \/ dispute(caller, s, outcome, reason, evidenceHash, parent)
            \/ arbitrate(caller, s, outcome, reason, evidenceHash, parent)

(* Open to every caller: the caller's identity changes nothing. *)
Permissionless(s) ==
    \/ expireOpen(s)
    \/ finalizeUncontested(s)
    \/ voidUnproposed(s)
    \/ voidUnarbitrated(s)

Paying(caller, s) == claimWinnings(caller, s) \/ refundPrincipal(caller, s)

Next ==
    \/ Environment
    \/ \E s \in Specs : Permissionless(s)
    \/ \E caller \in Callers, s \in Specs :
            Opening(caller, s) \/ Deciding(caller, s) \/ Paying(caller, s)
    \/ \E caller \in Callers, newPaused \in BOOLEAN : setPaused(caller, newPaused)

Spec == Init /\ [][Next]_vars
=============================================================================
