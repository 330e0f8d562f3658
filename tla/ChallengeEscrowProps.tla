------------------------- MODULE ChallengeEscrowProps -------------------------
(***************************************************************************)
(* What the escrow contract guarantees, stated over the state machine of   *)
(* ChallengeEscrow.                                                        *)
(***************************************************************************)
EXTENDS ChallengeEscrow

(* Every variable holds a value of the width and shape the contract        *)
(* declares for it; in particular no amount or timestamp ever wraps.       *)
TypeOK ==
    /\ now \in Uint64
    /\ paused \in BOOLEAN
    /\ totalOutstandingLiability \in Uint256
    /\ challenges \in [Specs -> Challenge \cup {Absent}]
    /\ entitlements \in [Specs -> [Addresses -> Entitlement]]
    /\ usedInstanceNonces \subseteq Addresses \X Hashes
    /\ balance \in [Addresses -> Uint256]
    /\ signedPermits \subseteq Permits

Validated(s) ==
    challenges[s].exists =>
        ValidExecution(s, challenges[s].openedAt) /\ challenges[s].openedAt <= now

Shape(s) ==
    LET c == challenges[s] IN
    c.exists =>
        /\ c.acceptingWallet = ZeroAddress <=> c.state \in Unmatched
        /\ c.acceptingWallet # s.challengerWallet
        /\ c.acceptingWallet \notin {Escrow, Token, Resolver, Arbiter, Pauser}
        /\ c.proposal.exists => c.state \in {"PROPOSED", "DISPUTED", "RESOLVED_A",
                                             "RESOLVED_B", "VOID"}
        /\ c.state = "PROPOSED" => c.proposal.exists /\ ~c.dispute.exists
        /\ c.state = "DISPUTED" => c.proposal.exists /\ c.dispute.exists
        /\ c.dispute.exists => c.proposal.exists /\ c.state # "PROPOSED"
        /\ c.finalResolution.exists <=> c.state \in {"RESOLVED_A", "RESOLVED_B", "VOID"}
        /\ c.state = "RESOLVED_A" => c.finalResolution.outcome = "A"
        /\ c.state = "RESOLVED_B" => c.finalResolution.outcome = "B"
        /\ c.state = "VOID" => c.finalResolution.outcome = "VOID"

(* Which records a challenge carries follows from its lifecycle state, and *)
(* whatever was opened passed validation when it was opened: the facts     *)
(* that the other invariants rest on.                                      *)
WellFormed == \A s \in Specs : Validated(s) /\ Shape(s)

-----------------------------------------------------------------------------
(* Money *)

Outstanding(s) == IF challenges[s].exists THEN challenges[s].outstandingLiability ELSE 0

(* One element per unit owed: its cardinality is the sum over challenges.  *)
OwedUnits == {u \in Specs \X (1..MaxUint256) : u[2] <= Outstanding(u[1])}

(* The aggregate that createAndFund, accept and _consumeAndPay maintain by *)
(* hand is always the sum of the challenges' own liabilities.              *)
AggregateLiability == totalOutstandingLiability = Cardinality(OwedUnits)

(* The token balance covers everything owed, whatever order challenges are *)
(* opened, matched, settled, paid and donated to.                          *)
Solvent == balance[Escrow] >= totalOutstandingLiability

Claimable(s, w) == entitlements[s][w].claimableAmount
Paid(s, w)      == entitlements[s][w].paidAmount

Books(s) ==
    LET c == challenges[s]
        a == s.challengerWallet
        b == c.acceptingWallet
    IN  IF ~c.exists
        THEN \A w \in Addresses : entitlements[s][w] = NoEntitlement
        ELSE /\ c.depositedAmount =
                  (IF c.state \in Unmatched THEN s.stakeAmount ELSE 2 * s.stakeAmount)
             /\ (b = ZeroAddress) <=> (c.state \in Unmatched)
             /\ \A w \in Addresses \ {a, b} : entitlements[s][w] = NoEntitlement
             /\ entitlements[s][ZeroAddress] = NoEntitlement
             /\ c.state \notin Terminal =>
                    /\ entitlements[s][a] = NoEntitlement
                    /\ entitlements[s][b] = NoEntitlement
                    /\ c.outstandingLiability = c.depositedAmount
             /\ c.state \in Terminal =>
                    /\ c.outstandingLiability = Claimable(s, a) + Claimable(s, b)
                    /\ c.depositedAmount =
                         c.outstandingLiability + Paid(s, a) + Paid(s, b)

(* Each challenge's own books balance: deposits are still owed until the   *)
(* challenge is terminal, and from then on every unit deposited is either  *)
(* claimable by a participant or was paid to one, so that one participant's *)
(* payout can neither consume nor strand the other's.                      *)
BooksBalance == \A s \in Specs : Books(s)

Due(s, w)    == Claimable(s, w) + Paid(s, w)
SideOf(s, w) == IF w = s.challengerWallet THEN s.challengerSide
                                          ELSE OtherSide(s.challengerSide)

PayoutOf(s) ==
    LET c == challenges[s] IN
    c.exists /\ c.state \in Terminal =>
        IF c.state \in Unmatched
        THEN Due(s, s.challengerWallet) = s.stakeAmount
        ELSE \A w \in {s.challengerWallet, c.acceptingWallet} :
                Due(s, w) = IF c.finalResolution.outcome = "VOID" THEN s.stakeAmount
                            ELSE IF c.finalResolution.outcome = SideOf(s, w)
                                 THEN 2 * s.stakeAmount
                                 ELSE 0

(* What a wallet is, or was, due from a terminal challenge follows from    *)
(* the final outcome and the side it took: a resolved challenge pays both  *)
(* stakes to the wallet on the winning side, a void one returns each       *)
(* stake, an unmatched one returns the challenger's.                       *)
PayoutMatchesOutcome == \A s \in Specs : PayoutOf(s)

-----------------------------------------------------------------------------
(* Deadlines *)

Deadlines(s) ==
    LET p == challenges[s].proposal
        d == challenges[s].dispute
    IN  challenges[s].exists =>
        /\ p.exists =>
             /\ s.sourceCorrectionCutoff < p.disputeDeadline
             /\ p.disputeDeadline + s.arbitrationWindowSeconds <= s.timeoutVoidAt
        /\ d.exists =>
             /\ s.sourceCorrectionCutoff <= d.arbitrationStart
             /\ d.arbitrationStart < p.disputeDeadline
             /\ d.arbitrationDeadline = d.arbitrationStart + s.arbitrationWindowSeconds
             /\ d.arbitrationDeadline <= s.timeoutVoidAt

(* The deadlines that propose and dispute compute from the block time stay *)
(* inside the envelope fixed at creation: every dispute window outlasts    *)
(* the correction cutoff, arbitration starts inside the dispute window and *)
(* no earlier than the cutoff, and it ends by timeoutVoidAt.               *)
DeadlinesBounded == \A s \in Specs : Deadlines(s)

(* Solidity's checked additions never revert a call that is otherwise in   *)
(* order, so a participant or an authority cannot be shut out by overflow. *)
CheckedArithmeticNeverReverts ==
    \A s \in Specs :
        /\ InState(s, "OPEN") => Fits256(challenges[s].depositedAmount + s.stakeAmount)
        /\ Fits256(balance[Escrow] + s.stakeAmount)
             => Fits256(totalOutstandingLiability + s.stakeAmount)
        /\ InState(s, "ACTIVE") /\ now < s.proposalDeadline => Fits64(DisputeDeadline(s))
        /\ InState(s, "PROPOSED") /\ now < challenges[s].proposal.disputeDeadline
             => Fits64(ArbitrationStart(s) + s.arbitrationWindowSeconds)

(* An accepted challenge never becomes final, by whichever of the four     *)
(* paths, before its source's correction cutoff.                           *)
NoFinalityBeforeCutoff ==
    [][\A s \in Specs :
          /\ challenges[s].exists
          /\ challenges[s].state \notin Terminal
          /\ challenges'[s].state \in Terminal \ Unmatched
          => now >= s.sourceCorrectionCutoff]_vars

(* From timeoutVoidAt on, neither the resolver, a participant nor the      *)
(* arbiter can move a challenge any more: nothing is proposed or disputed, *)
(* and no challenge is newly decided by the arbiter.                       *)
AuthorityExpires ==
    [][\A s \in Specs : challenges[s].exists /\ now >= s.timeoutVoidAt =>
          /\ challenges'[s].proposal = challenges[s].proposal
          /\ challenges'[s].dispute = challenges[s].dispute
          /\ challenges'[s].finalResolution # challenges[s].finalResolution
               => challenges'[s].finalResolution.path # "ARBITER"]_vars

-----------------------------------------------------------------------------
(* Consent, evidence and finality *)

Consent(s) ==
    challenges[s].exists /\ challenges[s].state \notin Unmatched =>
        \E p \in signedPermits :
            /\ p.spec = s
            /\ p.acceptingWallet = challenges[s].acceptingWallet
            /\ p.acceptingWallet # s.challengerWallet
            /\ p.acceptanceNonce = challenges[s].acceptanceNonce
            /\ challenges[s].acceptedAt < p.expiresAt
            /\ p.expiresAt <= s.acceptanceDeadline

(* Whoever was matched held a permit that the challenger signed for that   *)
(* wallet under the nonce that is current to this day, and used it before  *)
(* it expired: advancing the nonce revokes every earlier permit for good.  *)
ConsentToMatch == \A s \in Specs : Consent(s)

(* A challenger's instance nonce names one challenge for ever: resubmitting *)
(* it with other terms, stakes or dates opens nothing.                     *)
OneChallengePerNonce ==
    \A s, t \in Specs :
        /\ challenges[s].exists /\ challenges[t].exists
        /\ s.challengerWallet = t.challengerWallet /\ s.nonce = t.nonce
        => s = t

Lineage(s) ==
    LET p == challenges[s].proposal
        d == challenges[s].dispute
        f == challenges[s].finalResolution
    IN  challenges[s].exists =>
        /\ d.exists =>
             /\ p.exists
             /\ d.parentEvidenceHash = p.evidenceHash
             /\ d.outcome # p.outcome
        /\ f.exists /\ f.path = "UNCONTESTED" =>
             /\ p.exists /\ ~d.exists
             /\ f.outcome = p.outcome /\ f.reason = p.reason
             /\ f.finalEvidenceHash = p.evidenceHash
             /\ f.parentEvidenceHash = ZeroHash
        /\ f.exists /\ f.path = "ARBITER" =>
             /\ d.exists
             /\ f.finalEvidenceHash # ZeroHash
             /\ f.parentEvidenceHash = d.evidenceHash
        /\ f.exists /\ f.path \in TimeoutPath =>
             /\ f.outcome = "VOID"
             /\ f.finalEvidenceHash = ZeroHash
             /\ f.parentEvidenceHash = ZeroHash
             /\ d.exists <=> (f.path = "ARBITRATION_TIMEOUT")
             /\ p.exists <=> (f.path = "ARBITRATION_TIMEOUT")

(* The final record extends an unbroken chain: an uncontested result is    *)
(* the undisputed proposal itself, the arbiter's names the dispute it      *)
(* answers, which names the proposal it contradicts, and a timeout result  *)
(* names no evidence and has just the steps before it that timed out.      *)
EvidenceLineage == \A s \in Specs : Lineage(s)

-----------------------------------------------------------------------------
(* Exits *)

(* Nobody can be locked in: from timeoutVoidAt on, any caller can finish   *)
(* every unfinished challenge, and each amount owed can be withdrawn at    *)
(* once, paused or not and whatever the other challenges did.              *)
ExitsOpen ==
    \A s \in Specs : challenges[s].exists =>
        /\ challenges[s].state \notin Terminal /\ now >= s.timeoutVoidAt
             => ENABLED Permissionless(s)
        /\ \A w \in Addresses : Claimable(s, w) > 0 => ENABLED Paying(w, s)

CanPropose(s) == \E o \in Outcome, r \in ReasonCodes, e \in Hashes :
                    propose(Resolver, s, o, r, e)
CanDispute(s) == \E w \in Addresses, o \in Outcome, r \in ReasonCodes, e, f \in Hashes :
                    dispute(w, s, o, r, e, f)
CanArbitrate(s) == \E o \in Outcome, r \in ReasonCodes, e, f \in Hashes :
                    arbitrate(Arbiter, s, o, r, e, f)

(* At each instant an unfinished challenge is in the hands either of those *)
(* who may still act on it or of the timeout that ends their turn, never   *)
(* of both and never, outside the two documented waits (before the         *)
(* observation or under a pause, and before the correction cutoff), of     *)
(* neither.                                                                *)
OneWindowAtATime ==
    \A s \in Specs :
        LET timeout == ENABLED Permissionless(s) IN
        /\ InState(s, "OPEN") =>
             (ENABLED cancelOpen(s.challengerWallet, s) <=> ~timeout)
        /\ InState(s, "ACTIVE") =>
             IF paused \/ now < s.observationTime
             THEN now < s.proposalDeadline <=> ~timeout
             ELSE ENABLED CanPropose(s) <=> ~timeout
        /\ InState(s, "PROPOSED") => (ENABLED CanDispute(s) <=> ~timeout)
        /\ InState(s, "DISPUTED") =>
             IF now < s.sourceCorrectionCutoff
             THEN ~timeout
             ELSE ENABLED CanArbitrate(s) <=> ~timeout

(* Fairness: blocks keep coming; while there are challenges that anyone    *)
(* may finish, someone finishes one; while there is money to collect,      *)
(* someone collects some.  Resolver, arbiter, pauser, the participants'    *)
(* choices, signatures and donations are under no obligation.              *)
Fairness ==
    /\ WF_vars(Tick)
    /\ WF_vars(\E s \in Specs : Permissionless(s))
    /\ WF_vars(\E w \in Callers, s \in Specs : Paying(w, s))

FairSpec == Spec /\ Fairness

(* Every challenge that is ever funded ends, and every unit put into it    *)
(* is handed out, even if both authorities stay silent and the contract    *)
(* stays paused.                                                           *)
EventuallySettled ==
    \A s \in Specs :
        challenges[s].exists ~>
            (challenges[s].exists /\ challenges[s].state \in Terminal /\ Outstanding(s) = 0)

-----------------------------------------------------------------------------
(* The abstract escrow, seen through the contract's storage. *)

Stage(s) == IF ~challenges[s].exists THEN "absent"
            ELSE IF challenges[s].state = "OPEN" THEN "open"
            ELSE IF challenges[s].state \in Terminal THEN "settled"
            ELSE "matched"

TwoParty == INSTANCE TwoPartyEscrow WITH
    Deals   <- Specs,
    Parties <- Addresses,
    Nobody  <- ZeroAddress,
    Opener  <- [s \in Specs |-> s.challengerWallet],
    Stake   <- [s \in Specs |-> s.stakeAmount],
    stage   <- [s \in Specs |-> Stage(s)],
    partner <- [s \in Specs |-> IF challenges[s].exists
                                THEN challenges[s].acceptingWallet ELSE ZeroAddress],
    held    <- [s \in Specs |-> Outstanding(s)],
    due     <- [s \in Specs |-> [w \in Addresses |-> Claimable(s, w)]],
    paid    <- [s \in Specs |-> [w \in Addresses |-> Paid(s, w)]]

(* Every behaviour of the contract is one of the abstract escrow: each     *)
(* transaction is one abstract step on one deal, or none.                  *)
ImplementsTwoPartyEscrow == TwoParty!Spec
=============================================================================
