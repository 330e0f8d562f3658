---------------------------- MODULE ObservedEscrow ----------------------------
(***************************************************************************)
(* The escrow contract together with a read-only observer of its events.   *)
(* Every successful call emits one event, which the observer's view folds  *)
(* in; a provider may withhold up to MaxLost of them, and the observer has *)
(* no way to tell.                                                         *)
(***************************************************************************)
EXTENDS ChallengeEscrow, EventProjector

CONSTANT MaxLost      \* bound on the number of logs the provider withholds

ASSUME LossAssumption == MaxLost \in Nat

VARIABLES view,       \* the projection of the logs the provider returns
          lost        \* how many it has withheld

observedVars == <<vars, view, lost>>

Emit(e) ==
    \/ view' = Observe(view, e) /\ UNCHANGED lost
    \/ lost < MaxLost /\ lost' = lost + 1 /\ UNCHANGED view

-----------------------------------------------------------------------------
(* The arguments of each event, as the code that emits it fills them in.   *)

ChallengeCreated(s) == [kind |-> "ChallengeCreated", id |-> s, acceptanceNonce |-> 0]

AcceptanceNonceAdvanced(s) ==
    [kind |-> "AcceptanceNonceAdvanced", id |-> s, wallet |-> s.challengerWallet,
     previousNonce |-> challenges[s].acceptanceNonce,
     newNonce |-> challenges[s].acceptanceNonce + 1]

ChallengeAccepted(s, p) ==
    [kind |-> "ChallengeAccepted", id |-> s, wallet |-> p.acceptingWallet,
     side |-> OtherSide(s.challengerSide), consumedNonce |-> p.acceptanceNonce,
     permitExpiresAt |-> p.expiresAt, amount |-> s.stakeAmount]

OpenRefund(kind, s) ==
    [kind |-> kind, id |-> s, wallet |-> s.challengerWallet, amount |-> s.stakeAmount]

OutcomeProposed(s, outcome, reason, evidenceHash) ==
    [kind |-> "OutcomeProposed", id |-> s, resolver |-> Resolver, outcome |-> outcome,
     reason |-> reason, evidenceHash |-> evidenceHash,
     disputeDeadline |-> DisputeDeadline(s)]

OutcomeDisputed(s, wallet, outcome, reason, evidenceHash, parentEvidenceHash) ==
    [kind |-> "OutcomeDisputed", id |-> s, wallet |-> wallet, outcome |-> outcome,
     reason |-> reason, evidenceHash |-> evidenceHash,
     parentEvidenceHash |-> parentEvidenceHash, arbitrationStart |-> ArbitrationStart(s),
     arbitrationDeadline |-> ArbitrationStart(s) + s.arbitrationWindowSeconds]

ChallengeResolved(s, outcome, reason, path, evidenceHash, parentEvidenceHash, finalizedBy) ==
    [kind |-> "ChallengeResolved", id |-> s, outcome |-> outcome, reason |-> reason,
     path |-> path, evidenceHash |-> evidenceHash,
     parentEvidenceHash |-> parentEvidenceHash, finalizedBy |-> finalizedBy,
     amount |-> s.stakeAmount * 2, winnerWallet |-> WinnerWallet(s, outcome)]

(* The outcome VOID is implied by the kind of event. *)
ChallengeVoided(s, reason, path, evidenceHash, parentEvidenceHash, finalizedBy) ==
    [kind |-> "ChallengeVoided", id |-> s, outcome |-> "VOID", reason |-> reason,
     path |-> path, evidenceHash |-> evidenceHash,
     parentEvidenceHash |-> parentEvidenceHash, finalizedBy |-> finalizedBy,
     amount |-> s.stakeAmount]

Decided(s, outcome, reason, path, evidenceHash, parentEvidenceHash, finalizedBy) ==
    IF outcome = "VOID"
    THEN ChallengeVoided(s, reason, path, evidenceHash, parentEvidenceHash, finalizedBy)
    ELSE ChallengeResolved(s, outcome, reason, path, evidenceHash, parentEvidenceHash,
                           finalizedBy)

Payout(kind, s, wallet, amount) ==
    [kind |-> kind, id |-> s, entitlementId |-> <<s, wallet>>, wallet |-> wallet,
     originState |-> challenges[s].state, amount |-> amount]

-----------------------------------------------------------------------------
EmitOpening(caller, s) ==
    \/ createAndFund(caller, s) /\ Emit(ChallengeCreated(s))
    \/ \E p \in signedPermits : accept(caller, s, p) /\ Emit(ChallengeAccepted(s, p))
    \/ advanceAcceptanceNonce(caller, s) /\ Emit(AcceptanceNonceAdvanced(s))
    \/ cancelOpen(caller, s) /\ Emit(OpenRefund("ChallengeCancelled", s))
    \/ expireOpen(s) /\ Emit(OpenRefund("ChallengeExpired", s))

EmitDeciding(caller, s) ==
    \E outcome \in Outcome, reason \in ReasonCodes, evidenceHash \in Hashes :
        \/ /\ propose(caller, s, outcome, reason, evidenceHash)
           /\ Emit(OutcomeProposed(s, outcome, reason, evidenceHash))
        \/ \E parent \in Hashes :
            \/ /\ dispute(caller, s, outcome, reason, evidenceHash, parent)
               /\ Emit(OutcomeDisputed(s, caller, outcome, reason, evidenceHash, parent))
            \/ /\ arbitrate(caller, s, outcome, reason, evidenceHash, parent)
               /\ Emit(Decided(s, outcome, reason, "ARBITER", evidenceHash, parent, caller))

EmitFinal(caller, s) ==
    LET p == challenges[s].proposal IN
    \/ /\ finalizeUncontested(s)
       /\ Emit(Decided(s, p.outcome, p.reason, "UNCONTESTED", p.evidenceHash, ZeroHash, caller))
    \/ /\ voidUnproposed(s)
       /\ Emit(Decided(s, "VOID", 0, "PROPOSAL_TIMEOUT", ZeroHash, ZeroHash, caller))
    \/ /\ voidUnarbitrated(s)
       /\ Emit(Decided(s, "VOID", 1, "ARBITRATION_TIMEOUT", ZeroHash, ZeroHash, caller))

EmitPaying(caller, s) ==
    \/ claimWinnings(caller, s) /\ Emit(Payout("WinningsClaimed", s, caller, s.stakeAmount * 2))
    \/ refundPrincipal(caller, s) /\ Emit(Payout("PrincipalRefunded", s, caller, s.stakeAmount))

EmitPause(caller, newPaused) ==
    /\ setPaused(caller, newPaused)
    /\ Emit([kind |-> "PauseStatusChanged", previousPaused |-> paused, newPaused |-> newPaused])

ReleaseDeclared == [kind |-> "ReleaseDeclared", initialPaused |-> paused]

ObservedInit ==
    /\ Init
    /\ \/ view = Observe(EmptyView, ReleaseDeclared) /\ lost = 0
       \/ MaxLost > 0 /\ view = EmptyView /\ lost = 1

ObservedNext ==
    \/ Environment /\ UNCHANGED <<view, lost>>
    \/ \E caller \in Callers, s \in Specs :
            \/ EmitOpening(caller, s)
            \/ EmitDeciding(caller, s)
            \/ EmitFinal(caller, s)
            \/ EmitPaying(caller, s)
    \/ \E caller \in Callers, newPaused \in BOOLEAN : EmitPause(caller, newPaused)

ObservedSpec == ObservedInit /\ [][ObservedNext]_observedVars

-----------------------------------------------------------------------------
(* What the observer may rely on. *)

Projected(s) == s \in DOMAIN view.challenges
Seen(s)      == view.challenges[s]

PaidWallets(s) == {w \in Addresses : entitlements[s][w].paidAmount > 0}

Agrees(s) ==
    LET c == challenges[s]
        q == Seen(s)
    IN  /\ q.state = c.state
        /\ q.acceptanceNonce = c.acceptanceNonce
        /\ q.acceptingWallet = c.acceptingWallet
        /\ q.proposal.exists <=> c.proposal.exists
        /\ q.proposal.exists =>
             /\ q.proposal.outcome = c.proposal.outcome
             /\ q.proposal.reason = c.proposal.reason
             /\ q.proposal.evidenceHash = c.proposal.evidenceHash
             /\ q.proposal.disputeDeadline = c.proposal.disputeDeadline
        /\ q.dispute.exists <=> c.dispute.exists
        /\ q.dispute.exists => q.dispute.evidenceHash = c.dispute.evidenceHash
        /\ q.payouts = PaidWallets(s)

(* With every log at hand and decodable, the projection is the contract's  *)
(* storage, challenge by challenge, and reports no anomaly: the projector's *)
(* copy of the protocol's rules refuses nothing that the contract does.    *)
ProjectionIsStorage ==
    lost = 0 /\ ~view.failed =>
        /\ view.anomalies = {}
        /\ view.paused = paused
        /\ \A s \in Specs : challenges[s].exists <=> Projected(s)
        /\ \A s \in Specs : Projected(s) => Agrees(s)

(* Logs withheld by the provider can leave a record incomplete but never   *)
(* wrong: a challenge that a record without anomalies shows as terminal is *)
(* terminal in just that way, between the same wallets, and every payout   *)
(* it shows was made.                                                      *)
LossNeverMisleads ==
    Status(view) # "conflicted" =>
        \A s \in DOMAIN view.challenges :
            /\ Seen(s).state \in Terminal =>
                 /\ challenges[s].state = Seen(s).state
                 /\ challenges[s].acceptingWallet = Seen(s).acceptingWallet
            /\ Seen(s).payouts \subseteq PaidWallets(s)

(* The observer's evidence() can decode every event of the protocol. *)
EveryEventDecodes == ~view.failed
=============================================================================
