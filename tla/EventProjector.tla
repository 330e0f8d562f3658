---------------------------- MODULE EventProjector ----------------------------
(***************************************************************************)
(* The read-only view of the contract: what each contract event carries,   *)
(* which logs the client's decoder (events.ts) accepts, and the projector  *)
(* (projector.ts) that folds them, one log at a time, into the lifecycle   *)
(* of every challenge.                                                     *)
(*                                                                         *)
(* A view is the projector's state after a prefix of the logs.  An event   *)
(* is a record of the decoded arguments.  Fields of the execution that     *)
(* ChallengeCreated carries are read from the challenge id.                *)
(***************************************************************************)
EXTENDS ChallengeTypes

-----------------------------------------------------------------------------
(* Log layouts: the number of topics, the signature among them, and the    *)
(* number of 32-byte words of fixed data.                                  *)

Layout(topics, words) == [topics |-> topics, words |-> words]

(* What the contract's event declarations make the compiler emit. *)
EmittedLayout ==
    [ReleaseDeclared         |-> Layout(2, 12),
     PauseStatusChanged      |-> Layout(2, 2),
     ChallengeCreated        |-> Layout(3, 15),
     AcceptanceNonceAdvanced |-> Layout(3, 2),
     ChallengeAccepted       |-> Layout(3, 4),
     ChallengeCancelled      |-> Layout(3, 1),
     ChallengeExpired        |-> Layout(3, 2),
     OutcomeProposed         |-> Layout(3, 4),
     OutcomeDisputed         |-> Layout(3, 6),
     ChallengeResolved       |-> Layout(4, 6),
     ChallengeVoided         |-> Layout(3, 5),
     WinningsClaimed         |-> Layout(4, 1),
     PrincipalRefunded       |-> Layout(4, 2)]

(* What the decoder demands. *)
DecodedLayout == [EmittedLayout EXCEPT !.PauseStatusChanged = Layout(1, 3)]

(* The decoder's checks on the decoded values. *)
ValidCreated(e) ==
    LET s == e.id IN
    /\ {s.nonce, s.termsHash} \cap {ZeroHash} = {}
    /\ s.challengerWallet # ZeroAddress
    /\ s.stakeAmount \in 1..(MaxUint256 \div 2)
    /\ e.acceptanceNonce = 0
    /\ s.createdAt < s.acceptanceDeadline
    /\ OrderedTimeline(s, s.createdAt)
    /\ BoundedTimeline(s)

ValidEvidence(e) ==
    /\ e.evidenceHash # ZeroHash
    /\ e.parentEvidenceHash = ZeroHash <=> e.path = "UNCONTESTED"

ValidTimeout(e) ==
    /\ e.evidenceHash = ZeroHash /\ e.parentEvidenceHash = ZeroHash
    /\ e.reason = IF e.path = "PROPOSAL_TIMEOUT" THEN 0 ELSE 1

ValidValues(e) ==
    CASE e.kind = "ChallengeCreated"        -> ValidCreated(e)
      [] e.kind = "PauseStatusChanged"      -> e.previousPaused # e.newPaused
      [] e.kind = "AcceptanceNonceAdvanced" -> e.newNonce = e.previousNonce + 1
      [] e.kind = "ChallengeAccepted"       -> e.permitExpiresAt > 0 /\ e.amount > 0
      [] e.kind = "OutcomeProposed"         -> /\ ValidReason(e.outcome, e.reason)
                                               /\ e.evidenceHash # ZeroHash
      [] e.kind = "OutcomeDisputed"         -> /\ ValidReason(e.outcome, e.reason)
                                               /\ ZeroHash \notin {e.evidenceHash, e.parentEvidenceHash}
                                               /\ e.arbitrationStart < e.arbitrationDeadline
      [] e.kind = "ChallengeResolved"       -> /\ e.outcome # "VOID"
                                               /\ e.path \notin TimeoutPath
                                               /\ ValidReason(e.outcome, e.reason)
                                               /\ ValidEvidence(e) /\ e.amount > 0
      [] e.kind = "ChallengeVoided"         -> /\ IF e.path \in TimeoutPath
                                                  THEN ValidTimeout(e)
                                                  ELSE ValidReason("VOID", e.reason) /\ ValidEvidence(e)
                                               /\ e.amount > 0
      [] e.kind = "PrincipalRefunded"       -> /\ e.originState \in {"CANCELLED", "EXPIRED", "VOID"}
                                               /\ e.amount > 0
      [] e.kind = "WinningsClaimed"         -> e.amount > 0
      [] OTHER                              -> TRUE

Decodes(e) == EmittedLayout[e.kind] = DecodedLayout[e.kind] /\ ValidValues(e)

-----------------------------------------------------------------------------
(* The projection. *)

EmptyView == [failed |-> FALSE, released |-> FALSE, paused |-> "unknown",
              challenges |-> <<>>, anomalies |-> {}]

Anomaly(view, code) == [view EXCEPT !.anomalies = @ \cup {code}]

Put(view, id, c) ==
    [view EXCEPT !.challenges =
        [i \in DOMAIN view.challenges \cup {id} |->
            IF i = id THEN c ELSE view.challenges[i]]]

(* An event that does not match what was projected so far is reported and  *)
(* changes nothing.                                                        *)
Judged(view, id, matches, c) ==
    IF matches THEN Put(view, id, c) ELSE Anomaly(view, "invalid_transition")

ProjectRelease(view, e) ==
    IF view.released THEN [Anomaly(view, "release_conflict") EXCEPT !.paused = e.initialPaused]
                     ELSE [view EXCEPT !.released = TRUE, !.paused = e.initialPaused]

ProjectPause(view, e) ==
    LET known == view.paused # "unknown" /\ view.paused # e.previousPaused
    IN  [(IF known THEN Anomaly(view, "invalid_transition") ELSE view)
            EXCEPT !.paused = e.newPaused]

(* The release's participants-to-be-excluded are known once it is declared. *)
OverlapsReleaseBoundary(view, wallet) ==
    view.released /\ wallet \in {Escrow, Token, Resolver, Arbiter}

Created(id) ==
    [state |-> "OPEN", acceptanceNonce |-> 0, acceptingWallet |-> ZeroAddress,
     proposal |-> Absent, dispute |-> Absent, payouts |-> {}]

ProjectCreated(view, e) ==
    Judged(view, e.id,
           /\ e.id \notin DOMAIN view.challenges
           /\ ~OverlapsReleaseBoundary(view, e.id.challengerWallet),
           Created(e.id))

ProjectNonce(view, c, e) ==
    Judged(view, e.id,
           /\ c.state = "OPEN"
           /\ e.wallet = e.id.challengerWallet
           /\ e.previousNonce = c.acceptanceNonce,
           [c EXCEPT !.acceptanceNonce = e.newNonce])

AcceptanceMatches(view, c, e) ==
    /\ e.wallet # e.id.challengerWallet
    /\ ~OverlapsReleaseBoundary(view, e.wallet)
    /\ e.side = OtherSide(e.id.challengerSide)
    /\ e.amount = e.id.stakeAmount
    /\ e.id.createdAt < e.permitExpiresAt
    /\ e.permitExpiresAt <= e.id.acceptanceDeadline
    /\ e.consumedNonce = c.acceptanceNonce

ProjectAccepted(view, c, e) ==
    Judged(view, e.id, c.state = "OPEN" /\ AcceptanceMatches(view, c, e),
           [c EXCEPT !.state = "ACTIVE", !.acceptingWallet = e.wallet])

ProjectOpenRefund(view, c, e) ==
    Judged(view, e.id,
           /\ c.state = "OPEN"
           /\ e.wallet = e.id.challengerWallet
           /\ e.amount = e.id.stakeAmount,
           [c EXCEPT !.state = IF e.kind = "ChallengeCancelled" THEN "CANCELLED" ELSE "EXPIRED"])

(* A plausible slip: the proposal must come after the observation time. *)
ProposalScheduleOpen(id, e) ==
    LET proposedAt == e.disputeDeadline - id.disputeWindowSeconds IN
    /\ e.disputeDeadline > id.observationTime + id.disputeWindowSeconds
    /\ e.disputeDeadline < id.proposalDeadline + id.disputeWindowSeconds
    /\ e.outcome = "VOID" /\ e.reason # TERMS_UNRESOLVABLE
         => proposedAt >= id.sourceCorrectionCutoff

(* The block time of the proposal is recovered from its deadline. *)
ProposalSchedule(id, e) ==
    LET proposedAt == e.disputeDeadline - id.disputeWindowSeconds IN
    /\ e.disputeDeadline >= id.observationTime + id.disputeWindowSeconds
    /\ e.disputeDeadline < id.proposalDeadline + id.disputeWindowSeconds
    /\ e.outcome = "VOID" /\ e.reason # TERMS_UNRESOLVABLE
         => proposedAt >= id.sourceCorrectionCutoff

ProjectProposed(view, c, e) ==
    Judged(view, e.id,
           /\ c.state = "ACTIVE"
           /\ view.released => e.resolver = Resolver
           /\ ProposalSchedule(e.id, e),
           [c EXCEPT !.state = "PROPOSED",
                     !.proposal = [exists |-> TRUE, outcome |-> e.outcome, reason |-> e.reason,
                                   evidenceHash |-> e.evidenceHash,
                                   disputeDeadline |-> e.disputeDeadline]])

ProjectDisputed(view, c, e) ==
    Judged(view, e.id,
           /\ c.state = "PROPOSED"
           /\ e.wallet \in {e.id.challengerWallet, c.acceptingWallet}
           /\ e.parentEvidenceHash = c.proposal.evidenceHash
           /\ e.outcome # c.proposal.outcome
           /\ e.arbitrationStart >= e.id.sourceCorrectionCutoff
           /\ e.arbitrationStart < c.proposal.disputeDeadline
           /\ e.arbitrationDeadline - e.arbitrationStart = e.id.arbitrationWindowSeconds,
           [c EXCEPT !.state = "DISPUTED",
                     !.dispute = [exists |-> TRUE, outcome |-> e.outcome,
                                  evidenceHash |-> e.evidenceHash]])

(* The state a final event must find, the evidence it must repeat and the  *)
(* parent it must name follow from the path it took.                       *)
ExpectedState(path) == [UNCONTESTED |-> "PROPOSED", ARBITER |-> "DISPUTED",
                        PROPOSAL_TIMEOUT |-> "ACTIVE",
                        ARBITRATION_TIMEOUT |-> "DISPUTED"][path]

(* A plausible slip: a decision is taken over in whatever state it arrives. *)
PathMatchesAnyState(c, e) ==
    /\ e.path = "UNCONTESTED" /\ c.proposal.exists =>
         /\ e.evidenceHash = c.proposal.evidenceHash
         /\ e.outcome = c.proposal.outcome /\ e.reason = c.proposal.reason
    /\ e.path = "ARBITER" /\ c.dispute.exists =>
         e.parentEvidenceHash = c.dispute.evidenceHash

PathMatches(c, e) ==
    /\ c.state = ExpectedState(e.path)
    /\ e.path = "UNCONTESTED" =>
         /\ e.evidenceHash = c.proposal.evidenceHash
         /\ e.outcome = c.proposal.outcome /\ e.reason = c.proposal.reason
    /\ e.parentEvidenceHash = IF e.path = "ARBITER" THEN c.dispute.evidenceHash ELSE ZeroHash

Winner(id, c, outcome) == IF id.challengerSide = outcome THEN id.challengerWallet
                                                         ELSE c.acceptingWallet

ByArbiter(view, e) == e.path = "ARBITER" /\ view.released => e.finalizedBy = Arbiter

ProjectResolved(view, c, e) ==
    IF c.state \in Terminal THEN Anomaly(view, "duplicate_terminal")
    ELSE Judged(view, e.id,
                /\ PathMatches(c, e)
                /\ e.winnerWallet = Winner(e.id, c, e.outcome)
                /\ e.amount = 2 * e.id.stakeAmount
                /\ ByArbiter(view, e),
                [c EXCEPT !.state = IF e.outcome = "A" THEN "RESOLVED_A" ELSE "RESOLVED_B"])

ProjectVoided(view, c, e) ==
    IF c.state \in Terminal THEN Anomaly(view, "duplicate_terminal")
    ELSE Judged(view, e.id,
                /\ PathMatches(c, e)
                /\ e.amount = e.id.stakeAmount
                /\ ByArbiter(view, e),
                [c EXCEPT !.state = "VOID"])

(* The entitlement id is the pair it hashes. *)
PayoutMatches(c, e) ==
    /\ e.entitlementId = <<e.id, e.wallet>>
    /\ \/ /\ e.kind = "WinningsClaimed"
          /\ \E o \in Side : /\ c.state = IF o = "A" THEN "RESOLVED_A" ELSE "RESOLVED_B"
                             /\ e.wallet = Winner(e.id, c, o)
          /\ e.amount = 2 * e.id.stakeAmount
       \/ /\ e.kind = "PrincipalRefunded"
          /\ c.state \in {"CANCELLED", "EXPIRED", "VOID"}
          /\ e.originState = c.state
          /\ \/ e.wallet = e.id.challengerWallet
             \/ c.state = "VOID" /\ e.wallet = c.acceptingWallet
          /\ e.amount = e.id.stakeAmount

ProjectPayout(view, c, e) ==
    IF PayoutMatches(c, e) /\ e.wallet \in c.payouts
    THEN Anomaly(view, "duplicate_payout")
    ELSE Judged(view, e.id, PayoutMatches(c, e), [c EXCEPT !.payouts = @ \cup {e.wallet}])

ProjectChallengeEvent(view, e) ==
    LET c == view.challenges[e.id] IN
    CASE e.kind = "AcceptanceNonceAdvanced" -> ProjectNonce(view, c, e)
      [] e.kind = "ChallengeAccepted"       -> ProjectAccepted(view, c, e)
      [] e.kind \in {"ChallengeCancelled", "ChallengeExpired"}
                                            -> ProjectOpenRefund(view, c, e)
      [] e.kind = "OutcomeProposed"         -> ProjectProposed(view, c, e)
      [] e.kind = "OutcomeDisputed"         -> ProjectDisputed(view, c, e)
      [] e.kind = "ChallengeResolved"       -> ProjectResolved(view, c, e)
      [] e.kind = "ChallengeVoided"         -> ProjectVoided(view, c, e)
      [] e.kind \in {"WinningsClaimed", "PrincipalRefunded"}
                                            -> ProjectPayout(view, c, e)

ProjectEvent(view, e) ==
    CASE e.kind = "ReleaseDeclared"    -> ProjectRelease(view, e)
      [] e.kind = "PauseStatusChanged" -> ProjectPause(view, e)
      [] e.kind = "ChallengeCreated"   -> ProjectCreated(view, e)
      [] OTHER -> IF e.id \in DOMAIN view.challenges
                  THEN ProjectChallengeEvent(view, e)
                  ELSE Anomaly(view, "orphan_event")

(* One log that the decoder refuses makes the whole projection throw, then *)
(* and each time it is computed again.                                     *)
Observe(view, e) ==
    IF view.failed \/ ~Decodes(e) THEN [EmptyView EXCEPT !.failed = TRUE]
                                  ELSE ProjectEvent(view, e)

Status(view) ==
    IF view.anomalies # {} THEN "conflicted"
    ELSE IF ~view.released \/ \E id \in DOMAIN view.challenges :
                                 view.challenges[id].state \notin Terminal
         THEN "incomplete" ELSE "consistent"
=============================================================================
