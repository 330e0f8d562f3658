------------------------ MODULE ChallengeEscrow_proofs ------------------------
(***************************************************************************)
(* Type correctness and well-formedness of the escrow contract, and the    *)
(* summary of its steps that the other proofs start from: Moves(s) states, *)
(* field by field, everything that a step can do to challenge s.           *)
(***************************************************************************)
EXTENDS ChallengeEscrowProps, TLAPS

-----------------------------------------------------------------------------
(* Types of the inputs and of the stored records. *)

(* Every field of an execution has the type the contract declares. *)
LEMMA SpecFields ==
    ASSUME NEW s \in Specs
    PROVE  /\ s.nonce \in Hashes /\ s.termsHash \in Hashes
           /\ s.challengerWallet \in Addresses
           /\ s.challengerSide \in Side
           /\ s.stakeAmount \in Nat /\ s.stakeAmount <= MaxUint256
           /\ s.createdAt \in Nat /\ s.acceptanceDeadline \in Nat
           /\ s.observationTime \in Nat /\ s.sourceCorrectionCutoff \in Nat
           /\ s.proposalDeadline \in Nat /\ s.disputeWindowSeconds \in Nat
           /\ s.arbitrationWindowSeconds \in Nat
           /\ s.timeoutVoidAt \in Nat /\ s.timeoutVoidAt <= MaxUint64
  BY InputAssumption, WidthAssumption DEF Execution, Uint256, Uint64

(* Every field of a stored challenge has the type the contract declares. *)
LEMMA StoredFields ==
    ASSUME NEW c \in Challenge
    PROVE  /\ c.exists = TRUE
           /\ c.state \in LifecycleState
           /\ c.acceptingWallet \in Addresses
           /\ c.acceptanceNonce \in Nat
           /\ c.depositedAmount \in Nat /\ c.depositedAmount <= MaxUint256
           /\ c.outstandingLiability \in Nat /\ c.outstandingLiability <= MaxUint256
           /\ c.openedAt \in Nat /\ c.openedAt <= MaxUint64
           /\ c.acceptedAt \in Nat /\ c.acceptedAt <= MaxUint64
           /\ c.proposal \in Proposal \cup {Absent}
           /\ c.dispute \in Dispute \cup {Absent}
           /\ c.finalResolution \in FinalResolution \cup {Absent}
<1>1. /\ c.exists = TRUE
      /\ c.state \in LifecycleState
      /\ c.acceptingWallet \in Addresses
      /\ c.acceptanceNonce \in Nat
      /\ c.depositedAmount \in Uint256 /\ c.outstandingLiability \in Uint256
      /\ c.openedAt \in Uint64 /\ c.acceptedAt \in Uint64
      /\ c.proposal \in Proposal \cup {Absent}
      /\ c.dispute \in Dispute \cup {Absent}
      /\ c.finalResolution \in FinalResolution \cup {Absent}
  BY DEF Challenge
<1>. QED
  BY <1>1, WidthAssumption DEF Uint256, Uint64

(* A proposal that was written has typed fields. *)
LEMMA ProposalFields ==
    ASSUME NEW p \in Proposal \cup {Absent}, p.exists
    PROVE  /\ p \in Proposal
           /\ p.outcome \in Outcome /\ p.reason \in ReasonCodes
           /\ p.evidenceHash \in Hashes
           /\ p.proposedAt \in Nat /\ p.disputeDeadline \in Nat
<1>1. p \in Proposal
  BY DEF Absent
<1>2. /\ p.outcome \in Outcome /\ p.reason \in ReasonCodes
      /\ p.evidenceHash \in Hashes
      /\ p.proposedAt \in Uint64 /\ p.disputeDeadline \in Uint64
  BY <1>1 DEF Proposal
<1>. QED
  BY <1>1, <1>2, WidthAssumption DEF Uint64

(* A dispute that was written has typed fields. *)
LEMMA DisputeFields ==
    ASSUME NEW d \in Dispute \cup {Absent}, d.exists
    PROVE  /\ d \in Dispute
           /\ d.outcome \in Outcome /\ d.evidenceHash \in Hashes
           /\ d.arbitrationStart \in Nat /\ d.arbitrationDeadline \in Nat
<1>1. d \in Dispute
  BY DEF Absent
<1>2. /\ d.outcome \in Outcome /\ d.evidenceHash \in Hashes
      /\ d.arbitrationStart \in Uint64 /\ d.arbitrationDeadline \in Uint64
  BY <1>1 DEF Dispute
<1>. QED
  BY <1>1, <1>2, WidthAssumption DEF Uint64

(* A challenge that exists is a complete record. *)
LEMMA ChallengeInType ==
    ASSUME TypeOK, NEW s \in Specs, challenges[s].exists
    PROVE  challenges[s] \in Challenge
  BY DEF TypeOK, Absent

(* A validated stake can be doubled within the width of an amount. *)
LEMMA DoubleStake ==
    ASSUME NEW n \in Nat, n <= MaxUint256 \div 2
    PROVE  n * 2 = 2 * n /\ 2 * n \in Nat /\ 2 * n <= MaxUint256
  BY WidthAssumption

-----------------------------------------------------------------------------
(* The updates of a stored challenge, as functions of the record. *)

Accepted(c, w, t, d, l) ==
    [c EXCEPT !.acceptingWallet = w, !.acceptedAt = t, !.depositedAmount = d,
              !.outstandingLiability = l, !.state = "ACTIVE"]
Renonced(c, n)    == [c EXCEPT !.acceptanceNonce = n]
Closed(c, st)     == [c EXCEPT !.state = st]
Proposed(c, p)    == [c EXCEPT !.state = "PROPOSED", !.proposal = p]
Disputed(c, d)    == [c EXCEPT !.state = "DISPUTED", !.dispute = d]
Concluded(c, st, f) == [c EXCEPT !.state = st, !.finalResolution = f]
Reduced(c, l)     == [c EXCEPT !.outstandingLiability = l]

SameMatch(q, c) == /\ q.exists = c.exists
                   /\ q.openedAt = c.openedAt
                   /\ q.acceptingWallet = c.acceptingWallet
                   /\ q.acceptedAt = c.acceptedAt
SameFunds(q, c) == /\ q.depositedAmount = c.depositedAmount
                   /\ q.outstandingLiability = c.outstandingLiability
SameRecords(q, c) == /\ q.proposal = c.proposal
                     /\ q.dispute = c.dispute
                     /\ q.finalResolution = c.finalResolution

(* accept writes the acceptor, the time and the two amounts. *)
LEMMA AcceptedFields ==
    ASSUME NEW c \in Challenge, NEW w \in Addresses, NEW t \in Uint64,
           NEW d \in Uint256, NEW l \in Uint256
    PROVE  /\ Accepted(c, w, t, d, l) \in Challenge
           /\ Accepted(c, w, t, d, l).exists = c.exists
           /\ Accepted(c, w, t, d, l).state = "ACTIVE"
           /\ Accepted(c, w, t, d, l).openedAt = c.openedAt
           /\ Accepted(c, w, t, d, l).acceptanceNonce = c.acceptanceNonce
           /\ Accepted(c, w, t, d, l).acceptingWallet = w
           /\ Accepted(c, w, t, d, l).acceptedAt = t
           /\ Accepted(c, w, t, d, l).depositedAmount = d
           /\ Accepted(c, w, t, d, l).outstandingLiability = l
           /\ SameRecords(Accepted(c, w, t, d, l), c)
  BY DEF Accepted, Challenge, LifecycleState, SameRecords

(* advanceAcceptanceNonce writes the nonce only. *)
LEMMA RenoncedFields ==
    ASSUME NEW c \in Challenge, NEW n \in Nat
    PROVE  /\ Renonced(c, n) \in Challenge
           /\ Renonced(c, n).state = c.state
           /\ Renonced(c, n).acceptanceNonce = n
           /\ SameMatch(Renonced(c, n), c)
           /\ SameFunds(Renonced(c, n), c)
           /\ SameRecords(Renonced(c, n), c)
  BY DEF Renonced, Challenge, SameMatch, SameFunds, SameRecords

(* cancelOpen and expireOpen write the state only. *)
LEMMA ClosedFields ==
    ASSUME NEW c \in Challenge, NEW st \in LifecycleState
    PROVE  /\ Closed(c, st) \in Challenge
           /\ Closed(c, st).state = st
           /\ Closed(c, st).acceptanceNonce = c.acceptanceNonce
           /\ SameMatch(Closed(c, st), c)
           /\ SameFunds(Closed(c, st), c)
           /\ SameRecords(Closed(c, st), c)
  BY DEF Closed, Challenge, SameMatch, SameFunds, SameRecords

(* propose writes the state and the proposal. *)
LEMMA ProposedFields ==
    ASSUME NEW c \in Challenge, NEW p \in Proposal
    PROVE  /\ Proposed(c, p) \in Challenge
           /\ Proposed(c, p).state = "PROPOSED"
           /\ Proposed(c, p).acceptanceNonce = c.acceptanceNonce
           /\ Proposed(c, p).proposal = p
           /\ Proposed(c, p).dispute = c.dispute
           /\ Proposed(c, p).finalResolution = c.finalResolution
           /\ SameMatch(Proposed(c, p), c)
           /\ SameFunds(Proposed(c, p), c)
  BY DEF Proposed, Challenge, LifecycleState, SameMatch, SameFunds

(* dispute writes the state and the dispute. *)
LEMMA DisputedFields ==
    ASSUME NEW c \in Challenge, NEW d \in Dispute
    PROVE  /\ Disputed(c, d) \in Challenge
           /\ Disputed(c, d).state = "DISPUTED"
           /\ Disputed(c, d).acceptanceNonce = c.acceptanceNonce
           /\ Disputed(c, d).proposal = c.proposal
           /\ Disputed(c, d).dispute = d
           /\ Disputed(c, d).finalResolution = c.finalResolution
           /\ SameMatch(Disputed(c, d), c)
           /\ SameFunds(Disputed(c, d), c)
  BY DEF Disputed, Challenge, LifecycleState, SameMatch, SameFunds

(* Every finalisation writes the state and the final resolution. *)
LEMMA ConcludedFields ==
    ASSUME NEW c \in Challenge, NEW st \in LifecycleState, NEW f \in FinalResolution
    PROVE  /\ Concluded(c, st, f) \in Challenge
           /\ Concluded(c, st, f).state = st
           /\ Concluded(c, st, f).acceptanceNonce = c.acceptanceNonce
           /\ Concluded(c, st, f).proposal = c.proposal
           /\ Concluded(c, st, f).dispute = c.dispute
           /\ Concluded(c, st, f).finalResolution = f
           /\ SameMatch(Concluded(c, st, f), c)
           /\ SameFunds(Concluded(c, st, f), c)
  BY DEF Concluded, Challenge, SameMatch, SameFunds

(* A payout reduces the challenge's liability. *)
LEMMA ReducedFields ==
    ASSUME NEW c \in Challenge, NEW l \in Uint256
    PROVE  /\ Reduced(c, l) \in Challenge
           /\ Reduced(c, l).state = c.state
           /\ Reduced(c, l).acceptanceNonce = c.acceptanceNonce
           /\ Reduced(c, l).depositedAmount = c.depositedAmount
           /\ Reduced(c, l).outstandingLiability = l
           /\ SameMatch(Reduced(c, l), c)
           /\ SameRecords(Reduced(c, l), c)
  BY DEF Reduced, Challenge, SameMatch, SameRecords

-----------------------------------------------------------------------------
(* What one step does to challenge s, field by field.  Each Move covers    *)
(* one group of entry points; a step that makes no Move touches no         *)
(* challenge and no entitlement.                                           *)

Same(t) == challenges'[t] = challenges[t] /\ entitlements'[t] = entitlements[t]

Touches(s) == /\ now' = now
              /\ signedPermits' = signedPermits
              /\ \A t \in Specs \ {s} : Same(t)

Idle == /\ now <= now'
        /\ balance[Escrow] <= balance'[Escrow]
        /\ signedPermits \subseteq signedPermits'
        /\ totalOutstandingLiability' = totalOutstandingLiability
        /\ usedInstanceNonces' = usedInstanceNonces
        /\ \A t \in Specs : Same(t)

(* An entitlement to amount comes into being for each of the wallets. *)
Grants(s, wallets, amount) ==
    \A w \in Addresses :
        IF w \in wallets
        THEN /\ entitlements'[s][w].exists
             /\ entitlements'[s][w].claimableAmount = amount
             /\ entitlements'[s][w].paidAmount = entitlements[s][w].paidAmount
        ELSE entitlements'[s][w] = entitlements[s][w]

MoveOpen(s) ==
    LET q == challenges'[s] IN
    /\ ~challenges[s].exists
    /\ ValidExecution(s, now)
    /\ NonceUnused(s)
    /\ usedInstanceNonces' = usedInstanceNonces \cup {<<s.challengerWallet, s.nonce>>}
    /\ q.exists /\ q.state = "OPEN" /\ q.openedAt = now
    /\ q.acceptingWallet = ZeroAddress /\ q.acceptanceNonce = 0 /\ q.acceptedAt = 0
    /\ q.depositedAmount = s.stakeAmount /\ q.outstandingLiability = s.stakeAmount
    /\ ~q.proposal.exists /\ ~q.dispute.exists /\ ~q.finalResolution.exists
    /\ totalOutstandingLiability' = totalOutstandingLiability + s.stakeAmount
    /\ balance'[Escrow] = balance[Escrow] + s.stakeAmount
    /\ entitlements'[s] = entitlements[s]

MoveAccept(s, p) ==
    LET c == challenges[s]
        q == challenges'[s]
    IN  /\ c.exists /\ c.state = "OPEN"
        /\ now < s.acceptanceDeadline
        /\ p.spec = s
        /\ ValidParticipantWallet(p.acceptingWallet, s.challengerWallet)
        /\ PermitLive(p, c)
        /\ p.acceptingWallet \in Addresses
        /\ q.exists /\ q.state = "ACTIVE" /\ q.openedAt = c.openedAt
        /\ q.acceptingWallet = p.acceptingWallet
        /\ q.acceptanceNonce = c.acceptanceNonce /\ q.acceptedAt = now
        /\ q.depositedAmount = c.depositedAmount + s.stakeAmount
        /\ q.outstandingLiability = c.outstandingLiability + s.stakeAmount
        /\ SameRecords(q, c)
        /\ totalOutstandingLiability' = totalOutstandingLiability + s.stakeAmount
        /\ balance'[Escrow] = balance[Escrow] + s.stakeAmount
        /\ usedInstanceNonces' = usedInstanceNonces
        /\ entitlements'[s] = entitlements[s]

MoveRenonce(s) ==
    LET c == challenges[s]
        q == challenges'[s]
    IN  /\ c.exists /\ c.state = "OPEN" /\ q.state = "OPEN"
        /\ c.acceptanceNonce < MaxNonce
        /\ q.acceptanceNonce = c.acceptanceNonce + 1
        /\ SameMatch(q, c) /\ SameFunds(q, c) /\ SameRecords(q, c)
        /\ totalOutstandingLiability' = totalOutstandingLiability
        /\ balance' = balance
        /\ usedInstanceNonces' = usedInstanceNonces
        /\ entitlements'[s] = entitlements[s]

MoveClose(s, st) ==
    LET c == challenges[s]
        q == challenges'[s]
    IN  /\ c.exists /\ c.state = "OPEN"
        /\ q.state = st /\ q.acceptanceNonce = c.acceptanceNonce
        /\ SameMatch(q, c) /\ SameFunds(q, c) /\ SameRecords(q, c)
        /\ totalOutstandingLiability' = totalOutstandingLiability
        /\ balance' = balance
        /\ usedInstanceNonces' = usedInstanceNonces
        /\ Grants(s, {s.challengerWallet}, s.stakeAmount)

MovePropose(s, p) ==
    LET c == challenges[s]
        q == challenges'[s]
    IN  /\ c.exists /\ c.state = "ACTIVE" /\ q.state = "PROPOSED"
        /\ s.observationTime <= now /\ now < s.proposalDeadline
        /\ p.exists
        /\ p.evidenceHash # ZeroHash
        /\ p.proposedAt = now
        /\ ProposableNow(s, p.outcome, p.reason)
        /\ p.disputeDeadline = now + s.disputeWindowSeconds
        /\ q.acceptanceNonce = c.acceptanceNonce
        /\ q.proposal = p /\ q.dispute = c.dispute
        /\ q.finalResolution = c.finalResolution
        /\ SameMatch(q, c) /\ SameFunds(q, c)
        /\ totalOutstandingLiability' = totalOutstandingLiability
        /\ balance' = balance
        /\ usedInstanceNonces' = usedInstanceNonces
        /\ entitlements'[s] = entitlements[s]

MoveDispute(s, d) ==
    LET c == challenges[s]
        q == challenges'[s]
    IN  /\ c.exists /\ c.state = "PROPOSED" /\ q.state = "DISPUTED"
        /\ now < c.proposal.disputeDeadline
        /\ d.exists
        /\ d.disputingWallet \in Participants(s) \ {ZeroAddress}
        /\ d.evidenceHash # ZeroHash
        /\ d.disputedAt = now
        /\ d.outcome # c.proposal.outcome
        /\ d.parentEvidenceHash = c.proposal.evidenceHash
        /\ d.arbitrationStart = ArbitrationStart(s)
        /\ d.arbitrationDeadline = ArbitrationStart(s) + s.arbitrationWindowSeconds
        /\ q.acceptanceNonce = c.acceptanceNonce
        /\ q.proposal = c.proposal /\ q.dispute = d
        /\ q.finalResolution = c.finalResolution
        /\ SameMatch(q, c) /\ SameFunds(q, c)
        /\ totalOutstandingLiability' = totalOutstandingLiability
        /\ balance' = balance
        /\ usedInstanceNonces' = usedInstanceNonces
        /\ entitlements'[s] = entitlements[s]

(* By which of the four paths, and when, resolution f was reached. *)
DecidedBy(s, f) ==
    LET c == challenges[s] IN
    \/ /\ f.path = "UNCONTESTED"
       /\ c.state = "PROPOSED"
       /\ now >= c.proposal.disputeDeadline
       /\ f.outcome = c.proposal.outcome /\ f.reason = c.proposal.reason
       /\ f.finalEvidenceHash = c.proposal.evidenceHash
       /\ f.parentEvidenceHash = ZeroHash
    \/ /\ f.path = "ARBITER"
       /\ c.state = "DISPUTED"
       /\ ArbitrationOpen(s)
       /\ f.finalEvidenceHash # ZeroHash
       /\ f.parentEvidenceHash = c.dispute.evidenceHash
    \/ /\ f.path = "PROPOSAL_TIMEOUT"
       /\ c.state = "ACTIVE"
       /\ now >= s.proposalDeadline
       /\ f.outcome = "VOID" /\ f.reason = 0
       /\ f.finalEvidenceHash = ZeroHash /\ f.parentEvidenceHash = ZeroHash
    \/ /\ f.path = "ARBITRATION_TIMEOUT"
       /\ c.state = "DISPUTED"
       /\ now >= c.dispute.arbitrationDeadline
       /\ f.outcome = "VOID" /\ f.reason = 1
       /\ f.finalEvidenceHash = ZeroHash /\ f.parentEvidenceHash = ZeroHash

FinalState(outcome) == IF outcome = "VOID" THEN "VOID" ELSE ResolvedState(outcome)

MoveDecide(s, f) ==
    LET c == challenges[s]
        q == challenges'[s]
    IN  /\ c.exists /\ f.exists
        /\ DecidedBy(s, f)
        /\ q.state = FinalState(f.outcome)
        /\ q.acceptanceNonce = c.acceptanceNonce
        /\ q.proposal = c.proposal /\ q.dispute = c.dispute /\ q.finalResolution = f
        /\ SameMatch(q, c) /\ SameFunds(q, c)
        /\ totalOutstandingLiability' = totalOutstandingLiability
        /\ balance' = balance
        /\ usedInstanceNonces' = usedInstanceNonces
        /\ IF f.outcome = "VOID"
           THEN Grants(s, Participants(s), s.stakeAmount)
           ELSE Grants(s, {WinnerWallet(s, f.outcome)}, 2 * s.stakeAmount)

MovePay(s, w, amount) ==
    LET c == challenges[s]
        q == challenges'[s]
    IN  /\ c.exists /\ c.state \in Terminal
        /\ w \in Participants(s) \ {ZeroAddress}
        /\ entitlements[s][w].exists
        /\ entitlements[s][w].claimableAmount = amount
        /\ entitlements[s][w].paidAmount = 0
        /\ entitlements'[s][w].exists
        /\ entitlements'[s][w].claimableAmount = 0
        /\ entitlements'[s][w].paidAmount = amount
        /\ \A v \in Addresses \ {w} : entitlements'[s][v] = entitlements[s][v]
        /\ amount <= c.outstandingLiability
        /\ q.state = c.state /\ q.acceptanceNonce = c.acceptanceNonce
        /\ q.depositedAmount = c.depositedAmount
        /\ q.outstandingLiability = c.outstandingLiability - amount
        /\ SameMatch(q, c) /\ SameRecords(q, c)
        /\ amount <= totalOutstandingLiability
        /\ totalOutstandingLiability' = totalOutstandingLiability - amount
        /\ balance'[Escrow] = balance[Escrow] - amount
        /\ amount <= balance[Escrow]
        /\ usedInstanceNonces' = usedInstanceNonces

(* Everything a step may do to challenge s. *)
Moves(s) ==
    \/ MoveOpen(s)
    \/ \E p \in signedPermits : MoveAccept(s, p)
    \/ MoveRenonce(s)
    \/ \E st \in {"CANCELLED", "EXPIRED"} : MoveClose(s, st)
    \/ \E p \in Proposal : MovePropose(s, p)
    \/ \E d \in Dispute : MoveDispute(s, d)
    \/ \E f \in FinalResolution : MoveDecide(s, f)
    \/ \E w \in Addresses, amount \in Nat : MovePay(s, w, amount)

-----------------------------------------------------------------------------
(* Each entry point makes its Move and keeps the types. *)

Typed == TypeOK /\ WellFormed

(* Replacing one challenge's record leaves the others alone. *)
LEMMA OneChallengeWritten ==
    ASSUME TypeOK, NEW s \in Specs, NEW c \in Challenge,
           challenges' = [challenges EXCEPT ![s] = c]
    PROVE  /\ challenges' \in [Specs -> Challenge \cup {Absent}]
           /\ challenges'[s] = c
           /\ \A t \in Specs \ {s} : challenges'[t] = challenges[t]
  BY DEF TypeOK

(* A transfer keeps every balance within the width of an amount. *)
LEMMA TransferType ==
    ASSUME TypeOK, NEW from \in Addresses, NEW to \in Addresses, NEW amount \in Nat,
           Transfer(from, to, amount)
    PROVE  /\ balance' \in [Addresses -> Uint256]
           /\ amount <= balance[from]
           /\ from # to => /\ balance'[from] = balance[from] - amount
                           /\ balance'[to] = balance[to] + amount
<1>1. balance[from] \in Nat /\ balance[to] \in Nat
      /\ balance[from] <= MaxUint256 /\ balance[to] <= MaxUint256
  BY WidthAssumption DEF TypeOK, Uint256
<1>2. balance[from] >= amount /\ balance[to] + amount <= MaxUint256
      /\ balance' = [balance EXCEPT ![from] = @ - amount, ![to] = @ + amount]
  BY DEF Transfer
<1>3. /\ balance[from] - amount \in Uint256 /\ balance[to] + amount \in Uint256
      /\ balance[from] - amount + amount \in Uint256
  BY <1>1, <1>2, WidthAssumption DEF Uint256
<1>4. balance \in [Addresses -> Uint256]
  BY DEF TypeOK
<1>. QED
  BY <1>1, <1>2, <1>3, <1>4

(* What createAndFund writes, once the stake was seen to arrive. *)
LEMMA OpenWritten ==
    ASSUME Typed, NEW s \in Specs, ~challenges[s].exists, ValidExecution(s, now),
           NonceUnused(s), WriteOpen(s), balance' \in [Addresses -> Uint256],
           balance'[Escrow] = balance[Escrow] + s.stakeAmount
    PROVE  MoveOpen(s) /\ Touches(s) /\ TypeOK'
<1> DEFINE q == [exists |-> TRUE, state |-> "OPEN", acceptingWallet |-> ZeroAddress,
             acceptanceNonce |-> 0, depositedAmount |-> s.stakeAmount,
             outstandingLiability |-> s.stakeAmount, openedAt |-> now,
             acceptedAt |-> 0, proposal |-> Absent, dispute |-> Absent,
             finalResolution |-> Absent]
<1>1. challenges' = [challenges EXCEPT ![s] = q]
  BY DEF WriteOpen
<1>2. s.stakeAmount \in Uint256 /\ 0 \in Uint64 /\ now \in Uint64 /\ ZeroAddress \in Addresses
  BY SpecFields, WidthAssumption, DeploymentAssumption DEF TypeOK, Typed, Uint256, Uint64
<1>3. q \in Challenge
  BY <1>2 DEF Challenge, LifecycleState
<1>4. /\ q.exists /\ q.state = "OPEN" /\ q.openedAt = now
      /\ q.acceptingWallet = ZeroAddress /\ q.acceptanceNonce = 0 /\ q.acceptedAt = 0
      /\ q.depositedAmount = s.stakeAmount /\ q.outstandingLiability = s.stakeAmount
      /\ ~q.proposal.exists /\ ~q.dispute.exists /\ ~q.finalResolution.exists
  BY DEF Absent
<1>5. /\ usedInstanceNonces' = usedInstanceNonces \cup {<<s.challengerWallet, s.nonce>>}
      /\ totalOutstandingLiability' = totalOutstandingLiability + s.stakeAmount
      /\ totalOutstandingLiability + s.stakeAmount <= MaxUint256
      /\ UNCHANGED <<now, paused, entitlements, signedPermits>>
  BY DEF WriteOpen, Fits256
<1> HIDE DEF q
<1>6. challenges'[s] = q /\ challenges' \in [Specs -> Challenge \cup {Absent}]
      /\ \A t \in Specs \ {s} : challenges'[t] = challenges[t]
  BY <1>1, <1>3, OneChallengeWritten DEF Typed
<1>7. MoveOpen(s)
  BY <1>4, <1>5, <1>6 DEF MoveOpen
<1>8. Touches(s)
  BY <1>5, <1>6 DEF Touches, Same
<1>9. TypeOK'
  <2>1. totalOutstandingLiability' \in Uint256
    BY <1>5, SpecFields, WidthAssumption DEF Typed, TypeOK, Uint256
  <2>2. usedInstanceNonces' \subseteq Addresses \X Hashes
    BY <1>5, SpecFields DEF Typed, TypeOK
  <2>. QED
    BY <2>1, <2>2, <1>5, <1>6 DEF Typed, TypeOK
<1>. QED
  BY <1>7, <1>8, <1>9

(* createAndFund *)
LEMMA OpenStep ==
    ASSUME Typed, NEW caller \in Callers, NEW s \in Specs, createAndFund(caller, s)
    PROVE  MoveOpen(s) /\ Touches(s) /\ TypeOK'
<1>1. /\ ~challenges[s].exists /\ ValidExecution(s, now) /\ NonceUnused(s)
      /\ Transfer(s.challengerWallet, Escrow, s.stakeAmount) /\ WriteOpen(s)
  BY DEF createAndFund, MayCreate, PullExact
<1>2. s.challengerWallet # Escrow
  BY <1>1 DEF ValidExecution, ValidChallengerWallet, KernelChallengerWallet
<1>3. /\ balance' \in [Addresses -> Uint256]
      /\ balance'[Escrow] = balance[Escrow] + s.stakeAmount
  BY <1>1, <1>2, SpecFields, DeploymentAssumption, TransferType DEF Typed
<1>. QED
  BY <1>1, <1>3, OpenWritten

(* What makes a permit match the challenge, whoever presents it. *)
Matchable(s, p) ==
    /\ challenges[s].exists /\ challenges[s].state = "OPEN"
    /\ now < s.acceptanceDeadline /\ p.spec = s
    /\ ValidParticipantWallet(p.acceptingWallet, s.challengerWallet)
    /\ PermitLive(p, challenges[s])

(* What accept writes, once the stake was seen to arrive. *)
LEMMA MatchWritten ==
    ASSUME Typed, NEW s \in Specs, NEW p \in signedPermits, Matchable(s, p),
           WriteMatch(s, p), balance' \in [Addresses -> Uint256],
           balance'[Escrow] = balance[Escrow] + s.stakeAmount
    PROVE  MoveAccept(s, p) /\ Touches(s) /\ TypeOK'
<1> DEFINE d == challenges[s].depositedAmount + s.stakeAmount
           l == challenges[s].outstandingLiability + s.stakeAmount
           q == Accepted(challenges[s], p.acceptingWallet, now, d, l)
<1>1. challenges' = [challenges EXCEPT ![s] = q]
  BY DEF WriteMatch, Accepted
<1>2. /\ challenges[s].exists /\ challenges[s].state = "OPEN"
      /\ now < s.acceptanceDeadline /\ p.spec = s
      /\ ValidParticipantWallet(p.acceptingWallet, s.challengerWallet)
      /\ PermitLive(p, challenges[s])
      /\ d <= MaxUint256 /\ l <= MaxUint256
      /\ totalOutstandingLiability + s.stakeAmount <= MaxUint256
      /\ totalOutstandingLiability' = totalOutstandingLiability + s.stakeAmount
      /\ UNCHANGED <<now, paused, entitlements, usedInstanceNonces, signedPermits>>
  BY DEF Matchable, WriteMatch, Fits256, AggregateAfterAccept
<1>3. challenges[s] \in Challenge
  BY <1>2, ChallengeInType DEF Typed
<1>4. p.acceptingWallet \in Addresses /\ now \in Uint64
  BY InputAssumption DEF Typed, TypeOK, AcceptancePermit
<1>5. d \in Uint256 /\ l \in Uint256
  <2>1. challenges[s].depositedAmount \in Nat /\ challenges[s].outstandingLiability \in Nat
    BY <1>3, StoredFields
  <2>. QED
    BY <1>2, <2>1, SpecFields, WidthAssumption DEF Uint256
<1> HIDE DEF d, l
<1>6. /\ q \in Challenge
      /\ q.exists = challenges[s].exists
      /\ q.state = "ACTIVE"
      /\ q.openedAt = challenges[s].openedAt
      /\ q.acceptanceNonce = challenges[s].acceptanceNonce
      /\ q.acceptingWallet = p.acceptingWallet
      /\ q.acceptedAt = now
      /\ q.depositedAmount = d
      /\ q.outstandingLiability = l
      /\ SameRecords(q, challenges[s])
  BY <1>3, <1>4, <1>5, AcceptedFields
<1> HIDE DEF q
<1>7. challenges'[s] = q /\ challenges' \in [Specs -> Challenge \cup {Absent}]
      /\ \A t \in Specs \ {s} : challenges'[t] = challenges[t]
  BY <1>1, <1>6, OneChallengeWritten DEF Typed
<1>8. MoveAccept(s, p)
  BY <1>2, <1>4, <1>6, <1>7 DEF MoveAccept, d, l
<1>9. Touches(s)
  BY <1>2, <1>7 DEF Touches, Same
<1>10. TypeOK'
  <2>1. totalOutstandingLiability' \in Uint256
    BY <1>2, SpecFields, WidthAssumption DEF Typed, TypeOK, Uint256
  <2>. QED
    BY <2>1, <1>2, <1>7 DEF Typed, TypeOK
<1>. QED
  BY <1>8, <1>9, <1>10

(* accept *)
LEMMA AcceptStep ==
    ASSUME Typed, NEW caller \in Callers, NEW s \in Specs, NEW p \in signedPermits,
           accept(caller, s, p)
    PROVE  MoveAccept(s, p) /\ Touches(s) /\ TypeOK'
<1>1. /\ Matchable(s, p) /\ WriteMatch(s, p)
      /\ Transfer(p.acceptingWallet, Escrow, s.stakeAmount)
  BY DEF accept, MayAccept, Matchable, InState, PullExact
<1>2. p.acceptingWallet \in Addresses \ {Escrow}
  BY <1>1, InputAssumption DEF Typed, TypeOK, AcceptancePermit, Matchable,
     ValidParticipantWallet, ValidChallengerWallet, KernelChallengerWallet
<1>3. /\ balance' \in [Addresses -> Uint256]
      /\ balance'[Escrow] = balance[Escrow] + s.stakeAmount
  BY <1>1, <1>2, SpecFields, DeploymentAssumption, TransferType DEF Typed
<1>. QED
  BY <1>1, <1>3, MatchWritten

(* advanceAcceptanceNonce *)
LEMMA RenonceStep ==
    ASSUME Typed, NEW caller \in Callers, NEW s \in Specs, advanceAcceptanceNonce(caller, s)
    PROVE  MoveRenonce(s) /\ Touches(s) /\ TypeOK'
<1> DEFINE q == Renonced(challenges[s], challenges[s].acceptanceNonce + 1)
<1>1. challenges' = [challenges EXCEPT ![s] = q]
  BY DEF advanceAcceptanceNonce, Renonced
<1>2. /\ challenges[s].exists /\ challenges[s].state = "OPEN"
      /\ challenges[s].acceptanceNonce < MaxNonce
      /\ UNCHANGED <<now, paused, totalOutstandingLiability, entitlements,
                     usedInstanceNonces, balance, signedPermits>>
  BY DEF advanceAcceptanceNonce, InState
<1>3. challenges[s] \in Challenge
  BY <1>2, ChallengeInType DEF Typed
<1>4. challenges[s].acceptanceNonce + 1 \in Nat
  <2>1. challenges[s].acceptanceNonce \in Nat
    BY <1>3, StoredFields
  <2>. QED
    BY <2>1
<1>5. /\ q \in Challenge /\ q.state = challenges[s].state
      /\ q.acceptanceNonce = challenges[s].acceptanceNonce + 1
      /\ SameMatch(q, challenges[s]) /\ SameFunds(q, challenges[s])
      /\ SameRecords(q, challenges[s])
  BY <1>3, <1>4, RenoncedFields
<1> HIDE DEF q
<1>6. challenges'[s] = q /\ challenges' \in [Specs -> Challenge \cup {Absent}]
      /\ \A t \in Specs \ {s} : challenges'[t] = challenges[t]
  BY <1>1, <1>5, OneChallengeWritten DEF Typed
<1>7. MoveRenonce(s)
  BY <1>2, <1>5, <1>6 DEF MoveRenonce
<1>8. Touches(s) /\ TypeOK'
  BY <1>2, <1>6 DEF Touches, Same, Typed, TypeOK
<1>. QED
  BY <1>7, <1>8

(* Owing an amount writes that entitlement's existence and claim. *)
LEMMA OweFields ==
    ASSUME NEW e \in Entitlement, NEW amount \in Uint256
    PROVE  /\ Owe(e, amount) \in Entitlement
           /\ Owe(e, amount).exists
           /\ Owe(e, amount).claimableAmount = amount
           /\ Owe(e, amount).paidAmount = e.paidAmount
  BY DEF Owe, Entitlement

(* Consuming an entitlement moves its claim to what was paid. *)
LEMMA ConsumedFields ==
    ASSUME NEW e \in Entitlement, NEW amount \in Uint256, 0 \in Uint256
    PROVE  /\ Consumed(e, amount) \in Entitlement
           /\ Consumed(e, amount).exists = e.exists
           /\ Consumed(e, amount).claimableAmount = 0
           /\ Consumed(e, amount).paidAmount = amount
  BY DEF Consumed, Entitlement

(* CreateEntitlements grants the amount to exactly the named wallets. *)
LEMMA CreateEntitlementsGrants ==
    ASSUME TypeOK, NEW s \in Specs, NEW wallets, NEW amount \in Uint256,
           CreateEntitlements(s, wallets, amount)
    PROVE  /\ Grants(s, wallets, amount)
           /\ entitlements' \in [Specs -> [Addresses -> Entitlement]]
           /\ \A t \in Specs \ {s} : entitlements'[t] = entitlements[t]
<1> DEFINE m == [w \in Addresses |-> IF w \in wallets THEN Owe(entitlements[s][w], amount)
                                                     ELSE entitlements[s][w]]
<1>1. entitlements' = [entitlements EXCEPT ![s] = m]
  BY DEF CreateEntitlements
<1>2. entitlements[s] \in [Addresses -> Entitlement]
  BY DEF TypeOK
<1>3. m \in [Addresses -> Entitlement]
  BY <1>2, OweFields
<1>4. \A w \in Addresses :
        IF w \in wallets
        THEN /\ m[w].exists
             /\ m[w].claimableAmount = amount
             /\ m[w].paidAmount = entitlements[s][w].paidAmount
        ELSE m[w] = entitlements[s][w]
  BY <1>2, OweFields
<1> HIDE DEF m
<1>5. /\ entitlements'[s] = m
      /\ entitlements' \in [Specs -> [Addresses -> Entitlement]]
      /\ \A t \in Specs \ {s} : entitlements'[t] = entitlements[t]
  BY <1>1, <1>3 DEF TypeOK
<1>. QED
  BY <1>4, <1>5 DEF Grants

(* cancelOpen and expireOpen *)
LEMMA CloseStep ==
    ASSUME Typed, NEW s \in Specs, NEW st \in {"CANCELLED", "EXPIRED"},
           InState(s, "OPEN"), CreateOpenRefund(s, st)
    PROVE  MoveClose(s, st) /\ Touches(s) /\ TypeOK'
<1> DEFINE q == Closed(challenges[s], st)
<1>1. challenges' = [challenges EXCEPT ![s] = q]
  BY DEF CreateOpenRefund, Closed
<1>2. /\ challenges[s].exists /\ challenges[s].state = "OPEN"
      /\ CreateEntitlements(s, {s.challengerWallet}, s.stakeAmount)
      /\ UNCHANGED <<now, paused, totalOutstandingLiability, usedInstanceNonces,
                     balance, signedPermits>>
  BY DEF CreateOpenRefund, InState
<1>3. challenges[s] \in Challenge /\ st \in LifecycleState
  BY <1>2, ChallengeInType DEF Typed, LifecycleState
<1>4. /\ q \in Challenge /\ q.state = st
      /\ q.acceptanceNonce = challenges[s].acceptanceNonce
      /\ SameMatch(q, challenges[s]) /\ SameFunds(q, challenges[s])
      /\ SameRecords(q, challenges[s])
  BY <1>3, ClosedFields
<1> HIDE DEF q
<1>5. challenges'[s] = q /\ challenges' \in [Specs -> Challenge \cup {Absent}]
      /\ \A t \in Specs \ {s} : challenges'[t] = challenges[t]
  BY <1>1, <1>4, OneChallengeWritten DEF Typed
<1>6. s.stakeAmount \in Uint256
  BY SpecFields, WidthAssumption DEF Uint256
<1>7. /\ Grants(s, {s.challengerWallet}, s.stakeAmount)
      /\ entitlements' \in [Specs -> [Addresses -> Entitlement]]
      /\ \A t \in Specs \ {s} : entitlements'[t] = entitlements[t]
  BY <1>2, <1>6, CreateEntitlementsGrants DEF Typed
<1>8. MoveClose(s, st)
  BY <1>2, <1>4, <1>5, <1>7 DEF MoveClose
<1>9. Touches(s) /\ TypeOK'
  BY <1>2, <1>5, <1>7 DEF Touches, Same, Typed, TypeOK
<1>. QED
  BY <1>8, <1>9

(* propose *)
LEMMA ProposeStep ==
    ASSUME Typed, NEW caller \in Callers, NEW s \in Specs, NEW outcome \in Outcome,
           NEW reason \in ReasonCodes, NEW evidenceHash \in Hashes,
           propose(caller, s, outcome, reason, evidenceHash)
    PROVE  /\ \E p \in Proposal :
                /\ MovePropose(s, p)
                /\ p.outcome = outcome /\ p.reason = reason /\ p.evidenceHash = evidenceHash
           /\ Touches(s)
           /\ TypeOK'
<1> DEFINE p == [exists |-> TRUE, outcome |-> outcome, reason |-> reason,
                 evidenceHash |-> evidenceHash, proposedAt |-> now,
                 disputeDeadline |-> DisputeDeadline(s)]
           q == Proposed(challenges[s], p)
<1>1. challenges' = [challenges EXCEPT ![s] = q]
  BY DEF propose, Proposed
<1>2. /\ challenges[s].exists /\ challenges[s].state = "ACTIVE"
      /\ s.observationTime <= now /\ now < s.proposalDeadline
      /\ now + s.disputeWindowSeconds <= MaxUint64
      /\ evidenceHash # ZeroHash /\ ProposableNow(s, outcome, reason)
      /\ UNCHANGED <<now, paused, totalOutstandingLiability, entitlements,
                     usedInstanceNonces, balance, signedPermits>>
  BY DEF propose, InState, Fits64, DisputeDeadline
<1>3. challenges[s] \in Challenge /\ now \in Uint64
  BY <1>2, ChallengeInType DEF Typed, TypeOK
<1>4. DisputeDeadline(s) \in Uint64
  BY <1>2, <1>3, SpecFields, WidthAssumption DEF DisputeDeadline, Uint64
<1>5. /\ p \in Proposal /\ p.exists /\ p.disputeDeadline = now + s.disputeWindowSeconds
      /\ p.evidenceHash = evidenceHash /\ p.proposedAt = now
      /\ p.outcome = outcome /\ p.reason = reason
  BY <1>3, <1>4 DEF Proposal, DisputeDeadline
<1> HIDE DEF p
<1>6. /\ q \in Challenge /\ q.state = "PROPOSED"
      /\ q.acceptanceNonce = challenges[s].acceptanceNonce
      /\ q.proposal = p /\ q.dispute = challenges[s].dispute
      /\ q.finalResolution = challenges[s].finalResolution
      /\ SameMatch(q, challenges[s]) /\ SameFunds(q, challenges[s])
  BY <1>3, <1>5, ProposedFields
<1> HIDE DEF q
<1>7. challenges'[s] = q /\ challenges' \in [Specs -> Challenge \cup {Absent}]
      /\ \A t \in Specs \ {s} : challenges'[t] = challenges[t]
  BY <1>1, <1>6, OneChallengeWritten DEF Typed
<1>8. MovePropose(s, p)
  BY <1>2, <1>5, <1>6, <1>7 DEF MovePropose
<1>9. Touches(s) /\ TypeOK'
  BY <1>2, <1>7 DEF Touches, Same, Typed, TypeOK
<1>. QED
  BY <1>5, <1>8, <1>9

(* dispute *)
LEMMA DisputeStep ==
    ASSUME Typed, NEW caller \in Callers, NEW s \in Specs, NEW outcome \in Outcome,
           NEW reason \in ReasonCodes, NEW evidenceHash \in Hashes,
           NEW parentEvidenceHash \in Hashes,
           dispute(caller, s, outcome, reason, evidenceHash, parentEvidenceHash)
    PROVE  /\ \E d \in Dispute :
                /\ MoveDispute(s, d)
                /\ d.disputingWallet = caller
                /\ d.outcome = outcome /\ d.reason = reason
                /\ d.evidenceHash = evidenceHash
                /\ d.parentEvidenceHash = parentEvidenceHash
           /\ Touches(s)
           /\ TypeOK'
<1> DEFINE d == [exists |-> TRUE, disputingWallet |-> caller,
                 outcome |-> outcome, reason |-> reason,
                 evidenceHash |-> evidenceHash,
                 parentEvidenceHash |-> parentEvidenceHash,
                 disputedAt |-> now,
                 arbitrationStart |-> ArbitrationStart(s),
                 arbitrationDeadline |->
                     ArbitrationStart(s) + s.arbitrationWindowSeconds]
           q == Disputed(challenges[s], d)
<1>1. challenges' = [challenges EXCEPT ![s] = q]
  BY DEF dispute, Disputed
<1>2. /\ challenges[s].exists /\ challenges[s].state = "PROPOSED"
      /\ now < challenges[s].proposal.disputeDeadline
      /\ caller \in Participants(s) /\ evidenceHash # ZeroHash
      /\ outcome # challenges[s].proposal.outcome
      /\ parentEvidenceHash = challenges[s].proposal.evidenceHash
      /\ ArbitrationStart(s) + s.arbitrationWindowSeconds <= MaxUint64
      /\ UNCHANGED <<now, paused, totalOutstandingLiability, entitlements,
                     usedInstanceNonces, balance, signedPermits>>
  BY DEF dispute, InState, Fits64, ParentMatches
<1>3. /\ challenges[s] \in Challenge /\ now \in Uint64
      /\ caller \in Addresses /\ caller # ZeroAddress
  BY <1>2, ChallengeInType DEF Typed, TypeOK, Callers
<1>4. /\ ArbitrationStart(s) \in Uint64
      /\ ArbitrationStart(s) + s.arbitrationWindowSeconds \in Uint64
  BY <1>2, <1>3, SpecFields, WidthAssumption DEF ArbitrationStart, Uint64
<1>5. /\ d \in Dispute /\ d.exists /\ d.outcome = outcome /\ d.reason = reason
      /\ d.disputingWallet = caller /\ d.evidenceHash = evidenceHash
      /\ d.disputedAt = now
      /\ d.parentEvidenceHash = parentEvidenceHash
      /\ d.arbitrationStart = ArbitrationStart(s)
      /\ d.arbitrationDeadline = ArbitrationStart(s) + s.arbitrationWindowSeconds
  BY <1>3, <1>4 DEF Dispute
<1> HIDE DEF d
<1>6. /\ q \in Challenge /\ q.state = "DISPUTED"
      /\ q.acceptanceNonce = challenges[s].acceptanceNonce
      /\ q.proposal = challenges[s].proposal /\ q.dispute = d
      /\ q.finalResolution = challenges[s].finalResolution
      /\ SameMatch(q, challenges[s]) /\ SameFunds(q, challenges[s])
  BY <1>3, <1>5, DisputedFields
<1> HIDE DEF q
<1>7. challenges'[s] = q /\ challenges' \in [Specs -> Challenge \cup {Absent}]
      /\ \A t \in Specs \ {s} : challenges'[t] = challenges[t]
  BY <1>1, <1>6, OneChallengeWritten DEF Typed
<1>8. MoveDispute(s, d)
  BY <1>2, <1>3, <1>5, <1>6, <1>7 DEF MoveDispute
<1>9. Touches(s) /\ TypeOK'
  BY <1>2, <1>7 DEF Touches, Same, Typed, TypeOK
<1>. QED
  BY <1>5, <1>8, <1>9

Reads(f, outcome, reason, path, finalEvidenceHash, parentEvidenceHash) ==
    /\ f.outcome = outcome /\ f.reason = reason /\ f.path = path
    /\ f.finalEvidenceHash = finalEvidenceHash
    /\ f.parentEvidenceHash = parentEvidenceHash

(* A resolution with these fields is one that DecidedBy describes. *)
Justified(s, outcome, reason, path, finalEvidenceHash, parentEvidenceHash) ==
    \A f \in FinalResolution :
        Reads(f, outcome, reason, path, finalEvidenceHash, parentEvidenceHash) => DecidedBy(s, f)

(* All four finalisations: the decision is recorded, and the wallets that  *)
(* it favours become entitled.                                             *)
LEMMA DecideStep ==
    ASSUME Typed, NEW s \in Specs, NEW outcome \in Outcome, NEW reason \in 0..255,
           NEW path \in Path, NEW finalEvidenceHash \in Hashes,
           NEW parentEvidenceHash \in Hashes,
           challenges[s].exists,
           Finalize(s, outcome, reason, path, finalEvidenceHash, parentEvidenceHash),
           Justified(s, outcome, reason, path, finalEvidenceHash, parentEvidenceHash)
    PROVE  /\ \E f \in FinalResolution :
                /\ MoveDecide(s, f)
                /\ Reads(f, outcome, reason, path, finalEvidenceHash, parentEvidenceHash)
           /\ Touches(s)
           /\ TypeOK'
<1> DEFINE f == [exists |-> TRUE, outcome |-> outcome, reason |-> reason,
                 path |-> path, finalEvidenceHash |-> finalEvidenceHash,
                 parentEvidenceHash |-> parentEvidenceHash]
           q == Concluded(challenges[s], FinalState(outcome), f)
<1>1. /\ f \in FinalResolution /\ f.exists /\ f.outcome = outcome
      /\ f.reason = reason /\ f.path = path
      /\ f.finalEvidenceHash = finalEvidenceHash
      /\ f.parentEvidenceHash = parentEvidenceHash
  BY DEF FinalResolution
<1>2. /\ UNCHANGED <<now, paused, totalOutstandingLiability,
                     usedInstanceNonces, balance, signedPermits>>
      /\ \/ outcome # "VOID" /\ FinalizeResolved(s, f)
         \/ outcome = "VOID" /\ FinalizeVoid(s, f)
  BY DEF Finalize
<1> HIDE DEF f
<1>3. challenges' = [challenges EXCEPT ![s] = q]
  BY <1>1, <1>2 DEF FinalizeResolved, FinalizeVoid, Concluded, FinalState
<1>4. challenges[s] \in Challenge /\ FinalState(outcome) \in LifecycleState
  BY ChallengeInType DEF Typed, FinalState, ResolvedState, LifecycleState
<1>5. /\ q \in Challenge /\ q.state = FinalState(outcome)
      /\ q.acceptanceNonce = challenges[s].acceptanceNonce
      /\ q.proposal = challenges[s].proposal /\ q.dispute = challenges[s].dispute
      /\ q.finalResolution = f
      /\ SameMatch(q, challenges[s]) /\ SameFunds(q, challenges[s])
  BY <1>1, <1>4, ConcludedFields
<1> HIDE DEF q
<1>6. challenges'[s] = q /\ challenges' \in [Specs -> Challenge \cup {Absent}]
      /\ \A t \in Specs \ {s} : challenges'[t] = challenges[t]
  BY <1>3, <1>5, OneChallengeWritten DEF Typed
<1>7. s.stakeAmount \in Uint256 /\ 2 * s.stakeAmount \in Uint256
      /\ s.stakeAmount * 2 = 2 * s.stakeAmount
  <2>1. s.stakeAmount <= MaxUint256 \div 2
    BY DEF Typed, WellFormed, Validated, ValidExecution, StakeDoubles
  <2>. QED
    BY <2>1, SpecFields, DoubleStake, WidthAssumption DEF Uint256
<1>8. /\ IF outcome = "VOID"
         THEN Grants(s, Participants(s), s.stakeAmount)
         ELSE Grants(s, {WinnerWallet(s, outcome)}, 2 * s.stakeAmount)
      /\ entitlements' \in [Specs -> [Addresses -> Entitlement]]
      /\ \A t \in Specs \ {s} : entitlements'[t] = entitlements[t]
  <2>1. CASE outcome = "VOID"
    <3>1. CreateEntitlements(s, Participants(s), s.stakeAmount)
      BY <1>2, <2>1 DEF FinalizeVoid, AcceptedRefunds
    <3>. QED
      BY <2>1, <3>1, <1>7, CreateEntitlementsGrants DEF Typed
  <2>2. CASE outcome # "VOID"
    <3>1. CreateEntitlements(s, {WinnerWallet(s, outcome)}, 2 * s.stakeAmount)
      BY <1>1, <1>2, <1>7, <2>2 DEF FinalizeResolved
    <3>. QED
      BY <2>2, <3>1, <1>7, CreateEntitlementsGrants DEF Typed
  <2>. QED
    BY <2>1, <2>2
<1>9. DecidedBy(s, f)
  BY <1>1 DEF Justified, Reads
<1>10. MoveDecide(s, f)
  BY <1>1, <1>2, <1>5, <1>6, <1>8, <1>9 DEF MoveDecide
<1>11. Touches(s) /\ TypeOK'
  BY <1>2, <1>6, <1>8 DEF Touches, Same, Typed, TypeOK
<1>. QED
  BY <1>1, <1>10, <1>11 DEF Reads

(* finalizeUncontested *)
LEMMA FinalizeUncontestedStep ==
    ASSUME Typed, NEW s \in Specs, finalizeUncontested(s),
           NEW p, p = challenges[s].proposal
    PROVE  /\ \E f \in FinalResolution :
                /\ MoveDecide(s, f)
                /\ Reads(f, p.outcome, p.reason, "UNCONTESTED", p.evidenceHash, ZeroHash)
           /\ Touches(s)
           /\ TypeOK'
<1>1. /\ challenges[s].exists /\ challenges[s].state = "PROPOSED"
      /\ now >= p.disputeDeadline
      /\ Finalize(s, p.outcome, p.reason, "UNCONTESTED", p.evidenceHash, ZeroHash)
  BY DEF finalizeUncontested, InState
<1>2. p.exists
  BY <1>1 DEF Typed, WellFormed, Shape
<1>3. p \in Proposal \cup {Absent}
  BY <1>1, ChallengeInType, StoredFields DEF Typed
<1>4. p.outcome \in Outcome /\ p.reason \in 0..255 /\ p.evidenceHash \in Hashes
      /\ ZeroHash \in Hashes
  BY <1>2, <1>3, ProposalFields, WidthAssumption, DeploymentAssumption
<1>5. Justified(s, p.outcome, p.reason, "UNCONTESTED", p.evidenceHash, ZeroHash)
  BY <1>1 DEF Justified, Reads, DecidedBy
<1>. QED
  BY <1>1, <1>4, <1>5, DecideStep DEF Path

(* arbitrate *)
LEMMA ArbitrateStep ==
    ASSUME Typed, NEW caller \in Callers, NEW s \in Specs, NEW outcome \in Outcome,
           NEW reason \in ReasonCodes, NEW evidenceHash \in Hashes,
           NEW parentEvidenceHash \in Hashes,
           arbitrate(caller, s, outcome, reason, evidenceHash, parentEvidenceHash)
    PROVE  /\ \E f \in FinalResolution :
                /\ MoveDecide(s, f)
                /\ Reads(f, outcome, reason, "ARBITER", evidenceHash, parentEvidenceHash)
           /\ Touches(s)
           /\ TypeOK'
<1>1. /\ challenges[s].exists /\ challenges[s].state = "DISPUTED"
      /\ ArbitrationOpen(s) /\ evidenceHash # ZeroHash
      /\ parentEvidenceHash = challenges[s].dispute.evidenceHash
      /\ Finalize(s, outcome, reason, "ARBITER", evidenceHash, parentEvidenceHash)
  BY DEF arbitrate, InState, ParentMatches
<1>2. Justified(s, outcome, reason, "ARBITER", evidenceHash, parentEvidenceHash)
  BY <1>1 DEF Justified, Reads, DecidedBy
<1>3. reason \in 0..255
  BY WidthAssumption
<1>. QED
  BY <1>1, <1>2, <1>3, DecideStep DEF Path

(* voidUnproposed *)
LEMMA UnproposedStep ==
    ASSUME Typed, NEW s \in Specs, voidUnproposed(s)
    PROVE  /\ \E f \in FinalResolution :
                /\ MoveDecide(s, f)
                /\ Reads(f, "VOID", 0, "PROPOSAL_TIMEOUT", ZeroHash, ZeroHash)
           /\ Touches(s)
           /\ TypeOK'
<1>1. /\ challenges[s].exists /\ challenges[s].state = "ACTIVE"
      /\ now >= s.proposalDeadline
      /\ Finalize(s, "VOID", 0, "PROPOSAL_TIMEOUT", ZeroHash, ZeroHash)
  BY DEF voidUnproposed, InState
<1>2. Justified(s, "VOID", 0, "PROPOSAL_TIMEOUT", ZeroHash, ZeroHash)
  BY <1>1 DEF Justified, Reads, DecidedBy
<1>3. "VOID" \in Outcome /\ 0 \in 0..255 /\ "PROPOSAL_TIMEOUT" \in Path /\ ZeroHash \in Hashes
  BY DeploymentAssumption DEF Path, Outcome
<1>. QED
  BY <1>1, <1>2, <1>3, DecideStep

(* voidUnarbitrated *)
LEMMA UnarbitratedStep ==
    ASSUME Typed, NEW s \in Specs, voidUnarbitrated(s)
    PROVE  /\ \E f \in FinalResolution :
                /\ MoveDecide(s, f)
                /\ Reads(f, "VOID", 1, "ARBITRATION_TIMEOUT", ZeroHash, ZeroHash)
           /\ Touches(s)
           /\ TypeOK'
<1>1. /\ challenges[s].exists /\ challenges[s].state = "DISPUTED"
      /\ now >= challenges[s].dispute.arbitrationDeadline
      /\ Finalize(s, "VOID", 1, "ARBITRATION_TIMEOUT", ZeroHash, ZeroHash)
  BY DEF voidUnarbitrated, InState
<1>2. Justified(s, "VOID", 1, "ARBITRATION_TIMEOUT", ZeroHash, ZeroHash)
  BY <1>1 DEF Justified, Reads, DecidedBy
<1>3. "VOID" \in Outcome /\ 1 \in 0..255 /\ "ARBITRATION_TIMEOUT" \in Path /\ ZeroHash \in Hashes
  BY DeploymentAssumption DEF Path, Outcome
<1>. QED
  BY <1>1, <1>2, <1>3, DecideStep

(* What _consumeAndPay writes, once the payment was seen to leave. *)
LEMMA PaidWritten ==
    ASSUME Typed, NEW s \in Specs, NEW w \in Callers, NEW amount \in Nat,
           challenges[s].exists, challenges[s].state \in Terminal,
           w \in Participants(s), MayPay(s, w, amount), WritePaid(s, w, amount),
           balance' \in [Addresses -> Uint256],
           balance'[Escrow] = balance[Escrow] - amount
    PROVE  MovePay(s, w, amount) /\ Touches(s) /\ TypeOK'
<1> DEFINE l == challenges[s].outstandingLiability - amount
           q == Reduced(challenges[s], l)
           e == Consumed(entitlements[s][w], amount)
<1>1. /\ challenges' = [challenges EXCEPT ![s] = q]
      /\ entitlements' = [entitlements EXCEPT ![s] = [@ EXCEPT ![w] = e]]
  BY DEF WritePaid, Reduced
<1>2. /\ entitlements[s][w].exists
      /\ entitlements[s][w].claimableAmount = amount
      /\ entitlements[s][w].paidAmount = 0
      /\ amount <= challenges[s].outstandingLiability
      /\ amount <= totalOutstandingLiability
      /\ totalOutstandingLiability' = totalOutstandingLiability - amount
      /\ amount <= balance[Escrow]
      /\ UNCHANGED <<now, paused, usedInstanceNonces, signedPermits>>
  <2>1. /\ Entitled(entitlements[s][w], amount)
        /\ challenges[s].outstandingLiability >= amount
        /\ totalOutstandingLiability >= amount
        /\ totalOutstandingLiability' = totalOutstandingLiability - amount
        /\ balance[Escrow] >= totalOutstandingLiability
        /\ UNCHANGED <<now, paused, usedInstanceNonces, signedPermits>>
    BY DEF MayPay, WritePaid, SolventBefore
  <2>2. challenges[s] \in Challenge
    BY ChallengeInType DEF Typed
  <2>3. challenges[s].outstandingLiability \in Nat
    BY <2>2, StoredFields
  <2>4. totalOutstandingLiability \in Nat /\ balance[Escrow] \in Nat
    BY WidthAssumption, DeploymentAssumption DEF Typed, TypeOK, Uint256
  <2>. QED
    BY <2>1, <2>3, <2>4 DEF Entitled
<1>3. challenges[s] \in Challenge /\ w \in Addresses /\ w # ZeroAddress
      /\ entitlements[s] \in [Addresses -> Entitlement]
  BY ChallengeInType DEF Typed, TypeOK, Callers
<1>4. l \in Uint256 /\ amount \in Uint256 /\ 0 \in Uint256
  <2>1. challenges[s].outstandingLiability \in Nat
        /\ challenges[s].outstandingLiability <= MaxUint256
    BY <1>3, StoredFields
  <2>. QED
    BY <1>2, <2>1, WidthAssumption DEF Uint256
<1> HIDE DEF l
<1>5. /\ q \in Challenge /\ q.state = challenges[s].state
      /\ q.acceptanceNonce = challenges[s].acceptanceNonce
      /\ q.depositedAmount = challenges[s].depositedAmount
      /\ q.outstandingLiability = l
      /\ SameMatch(q, challenges[s]) /\ SameRecords(q, challenges[s])
  BY <1>3, <1>4, ReducedFields
<1>6. e \in Entitlement /\ e.exists /\ e.claimableAmount = 0 /\ e.paidAmount = amount
  BY <1>2, <1>3, <1>4, ConsumedFields
<1> HIDE DEF q, e
<1>7. challenges'[s] = q /\ challenges' \in [Specs -> Challenge \cup {Absent}]
      /\ \A t \in Specs \ {s} : challenges'[t] = challenges[t]
  BY <1>1, <1>5, OneChallengeWritten DEF Typed
<1>8. /\ entitlements'[s][w] = e
      /\ \A v \in Addresses \ {w} : entitlements'[s][v] = entitlements[s][v]
      /\ \A t \in Specs \ {s} : entitlements'[t] = entitlements[t]
      /\ entitlements' \in [Specs -> [Addresses -> Entitlement]]
  BY <1>1, <1>3, <1>6 DEF Typed, TypeOK
<1>9. MovePay(s, w, amount)
  BY <1>2, <1>3, <1>5, <1>6, <1>7, <1>8 DEF MovePay, l
<1>10. Touches(s)
  BY <1>2, <1>7, <1>8 DEF Touches, Same
<1>11. TypeOK'
  <2>1. totalOutstandingLiability' \in Uint256
    BY <1>2, WidthAssumption DEF Typed, TypeOK, Uint256
  <2>. QED
    BY <2>1, <1>2, <1>7, <1>8 DEF Typed, TypeOK
<1>. QED
  BY <1>9, <1>10, <1>11

(* _consumeAndPay *)
LEMMA PayStep ==
    ASSUME Typed, NEW s \in Specs, NEW w \in Callers, NEW amount \in Nat,
           challenges[s].exists, challenges[s].state \in Terminal,
           w \in Participants(s), ConsumeAndPay(s, w, amount)
    PROVE  MovePay(s, w, amount) /\ Touches(s) /\ TypeOK'
<1>1. /\ MayPay(s, w, amount) /\ WritePaid(s, w, amount)
      /\ Transfer(Escrow, w, amount)
  BY DEF ConsumeAndPay, PushExact
<1>2. /\ balance' \in [Addresses -> Uint256]
      /\ balance'[Escrow] = balance[Escrow] - amount
  BY <1>1, DeploymentAssumption, TransferType DEF Typed, Callers
<1>. QED
  BY <1>1, <1>2, PaidWritten

(* claimWinnings and refundPrincipal *)
LEMMA PayingStep ==
    ASSUME Typed, NEW caller \in Callers, NEW s \in Specs, Paying(caller, s)
    PROVE  /\ \E w \in Addresses, amount \in Nat : MovePay(s, w, amount)
           /\ Touches(s)
           /\ TypeOK'
<1>1. caller \in Addresses /\ s.stakeAmount \in Nat /\ s.stakeAmount * 2 \in Nat
  BY SpecFields DEF Callers
<1>2. CASE claimWinnings(caller, s)
  <2>1. /\ challenges[s].exists
        /\ challenges[s].state \in {"RESOLVED_A", "RESOLVED_B"}
        /\ caller = WinnerWallet(s, challenges[s].finalResolution.outcome)
        /\ ConsumeAndPay(s, caller, s.stakeAmount * 2)
    BY <1>2 DEF claimWinnings, MayClaim
  <2>2. challenges[s].state \in Terminal /\ caller \in Participants(s)
    BY <2>1 DEF Terminal, WinnerWallet, Participants
  <2>. QED
    BY <1>1, <2>1, <2>2, PayStep
<1>3. CASE refundPrincipal(caller, s)
  <2>1. /\ challenges[s].exists
        /\ \/ challenges[s].state \in {"CANCELLED", "EXPIRED"} /\ caller = s.challengerWallet
           \/ challenges[s].state = "VOID" /\ caller \in Participants(s)
        /\ ConsumeAndPay(s, caller, s.stakeAmount)
    BY <1>3 DEF refundPrincipal, MayRefund
  <2>2. challenges[s].state \in Terminal /\ caller \in Participants(s)
    BY <2>1 DEF Terminal, Participants
  <2>. QED
    BY <1>1, <2>1, <2>2, PayStep
<1>. QED
  BY <1>2, <1>3 DEF Paying

(* Time, signatures, donations and the pause switch touch no challenge. *)
LEMMA IdleStep ==
    ASSUME Typed,
           \/ Environment
           \/ \E caller \in Callers, newPaused \in BOOLEAN : setPaused(caller, newPaused)
           \/ UNCHANGED vars
    PROVE  Idle /\ TypeOK'
<1>0. now \in Nat /\ now <= MaxUint64 /\ balance[Escrow] \in Nat
  BY WidthAssumption, DeploymentAssumption DEF Typed, TypeOK, Uint64, Uint256
<1>1. CASE Tick
  <2>1. now' \in Uint64 /\ now <= now'
    BY <1>0, <1>1, WidthAssumption DEF Tick, Uint64
  <2>. QED
    BY <1>0, <2>1, <1>1 DEF Tick, Idle, Same, Typed, TypeOK, contractVars
<1>2. CASE \E p \in Permits \ signedPermits : SignPermit(p)
  BY <1>0, <1>2 DEF SignPermit, Idle, Same, Typed, TypeOK, contractVars
<1>3. CASE \E from \in Callers, amount \in Donations : Donate(from, amount)
  <2>1. PICK from \in Callers, amount \in Donations : Donate(from, amount)
    BY <1>3
  <2>2. from \in Addresses /\ Escrow \in Addresses /\ amount \in Nat
    BY InputAssumption, DeploymentAssumption, WidthAssumption DEF Callers, Uint256
  <2>3. Transfer(from, Escrow, amount) /\ UNCHANGED <<now, contractVars, signedPermits>>
    BY <2>1 DEF Donate
  <2>4. /\ balance' \in [Addresses -> Uint256]
        /\ balance'[Escrow] = balance[Escrow] + amount
    BY <2>2, <2>3, TransferType DEF Typed, Callers
  <2>5. balance[Escrow] <= balance'[Escrow]
    BY <1>0, <2>2, <2>4
  <2>. QED
    BY <1>0, <2>3, <2>4, <2>5 DEF Idle, Same, Typed, TypeOK, contractVars
<1>4. CASE \E caller \in Callers, newPaused \in BOOLEAN : setPaused(caller, newPaused)
  BY <1>0, <1>4 DEF setPaused, Idle, Same, Typed, TypeOK
<1>5. CASE UNCHANGED vars
  BY <1>0, <1>5 DEF vars, contractVars, Idle, Same, Typed, TypeOK
<1>. QED
  BY <1>1, <1>2, <1>3, <1>4, <1>5 DEF Environment

(* Every step either touches no challenge or makes one Move on one of them. *)
LEMMA StepMoves ==
    ASSUME Typed, [Next]_vars
    PROVE  /\ Idle \/ \E s \in Specs : Moves(s) /\ Touches(s)
           /\ TypeOK'
<1>1. CASE \/ Environment
           \/ \E caller \in Callers, newPaused \in BOOLEAN : setPaused(caller, newPaused)
           \/ UNCHANGED vars
  BY <1>1, IdleStep
<1>2. CASE \E s \in Specs : Permissionless(s)
  <2>1. PICK s \in Specs : Permissionless(s)
    BY <1>2
  <2>2. CASE expireOpen(s)
    BY <2>2, CloseStep DEF expireOpen, Moves
  <2>3. CASE finalizeUncontested(s)
    BY <2>3, FinalizeUncontestedStep DEF Moves
  <2>4. CASE voidUnproposed(s) \/ voidUnarbitrated(s)
    BY <2>4, UnproposedStep, UnarbitratedStep DEF Moves
  <2>. QED
    BY <2>1, <2>2, <2>3, <2>4 DEF Permissionless
<1>3. CASE \E caller \in Callers, s \in Specs : Opening(caller, s)
  <2>1. PICK caller \in Callers, s \in Specs : Opening(caller, s)
    BY <1>3
  <2>2. CASE createAndFund(caller, s)
    BY <2>2, OpenStep DEF Moves
  <2>3. CASE \E p \in signedPermits : accept(caller, s, p)
    BY <2>3, AcceptStep DEF Moves
  <2>4. CASE advanceAcceptanceNonce(caller, s)
    BY <2>4, RenonceStep DEF Moves
  <2>5. CASE cancelOpen(caller, s)
    BY <2>5, CloseStep DEF cancelOpen, Moves
  <2>. QED
    BY <2>1, <2>2, <2>3, <2>4, <2>5 DEF Opening
<1>4. CASE \E caller \in Callers, s \in Specs : Deciding(caller, s)
  <2>1. PICK caller \in Callers, s \in Specs, outcome \in Outcome,
             reason \in ReasonCodes, evidenceHash \in Hashes :
             \/ propose(caller, s, outcome, reason, evidenceHash)
             \/ \E parent \in Hashes :
                 \/ dispute(caller, s, outcome, reason, evidenceHash, parent)
                 \/ arbitrate(caller, s, outcome, reason, evidenceHash, parent)
    BY <1>4 DEF Deciding
  <2>2. CASE propose(caller, s, outcome, reason, evidenceHash)
    BY <2>2, ProposeStep DEF Moves
  <2>3. CASE \E parent \in Hashes :
                 dispute(caller, s, outcome, reason, evidenceHash, parent)
    BY <2>3, DisputeStep DEF Moves
  <2>4. CASE \E parent \in Hashes :
                 arbitrate(caller, s, outcome, reason, evidenceHash, parent)
    BY <2>4, ArbitrateStep DEF Moves
  <2>. QED
    BY <2>1, <2>2, <2>3, <2>4
<1>5. CASE \E caller \in Callers, s \in Specs : Paying(caller, s)
  BY <1>5, PayingStep DEF Moves
<1>. QED
  BY <1>1, <1>2, <1>3, <1>4, <1>5 DEF Next

-----------------------------------------------------------------------------
(* Well-formedness is inductive together with the types. *)

(* What holds of a challenge's own record survives a step on another one. *)
LEMMA SameKeepsWellFormed ==
    ASSUME NEW s \in Specs, TypeOK, Same(s), now <= now', now' \in Uint64,
           Validated(s), Shape(s)
    PROVE  Validated(s)' /\ Shape(s)'
<1>1. challenges'[s] = challenges[s]
  BY DEF Same
<1>2. Shape(s)'
  BY <1>1 DEF Shape
<1>3. ASSUME challenges[s].exists
      PROVE  challenges[s].openedAt <= now'
  <2>1. challenges[s].openedAt \in Nat /\ challenges[s].openedAt <= now
    BY <1>3, ChallengeInType, StoredFields DEF Validated
  <2>2. now \in Nat /\ now' \in Nat
    BY WidthAssumption DEF TypeOK, Uint64
  <2>. QED
    BY <2>1, <2>2
<1>. QED
  BY <1>1, <1>2, <1>3 DEF Validated

(* A Move leaves its own challenge well formed. *)
LEMMA MoveKeepsWellFormed ==
    ASSUME NEW s \in Specs, Typed, TypeOK', Moves(s), Touches(s)
    PROVE  Validated(s)' /\ Shape(s)'
<1>1. Validated(s) /\ Shape(s)
  BY DEF Typed, WellFormed
<1>2. now \in Nat /\ now' = now
  BY WidthAssumption DEF Typed, TypeOK, Uint64, Touches
<1>3. CASE MoveOpen(s)
  <2>1. Validated(s)'
    BY <1>2, <1>3 DEF MoveOpen, Validated
  <2>2. s.challengerWallet # ZeroAddress
    BY <1>3 DEF MoveOpen, ValidExecution, ValidChallengerWallet, KernelChallengerWallet
  <2>3. ZeroAddress \notin {Escrow, Token, Resolver, Arbiter, Pauser}
    BY DeploymentAssumption DEF ValidDeployment, KernelDeployment
  <2>4. Shape(s)'
    BY <1>3, <2>2, <2>3 DEF MoveOpen, Shape, Unmatched
  <2>. QED
    BY <2>1, <2>4
<1>4. CASE \E p \in signedPermits : MoveAccept(s, p)
  <2>1. PICK p \in signedPermits : MoveAccept(s, p)
    BY <1>4
  <2>2. p.acceptingWallet \notin {s.challengerWallet, ZeroAddress, Escrow, Token,
                                  Resolver, Arbiter, Pauser}
    BY <2>1 DEF MoveAccept, ValidParticipantWallet, ValidChallengerWallet,
                KernelChallengerWallet
  <2>3. Validated(s)'
    BY <1>1, <1>2, <2>1 DEF MoveAccept, Validated
  <2>4. Shape(s)'
    BY <1>1, <2>1, <2>2 DEF MoveAccept, SameRecords, Shape, Unmatched
  <2>. QED
    BY <2>3, <2>4
<1>5. CASE MoveRenonce(s)
  BY <1>1, <1>2, <1>5 DEF MoveRenonce, SameMatch, SameRecords, Validated, Shape, Unmatched
<1>6. CASE \E st \in {"CANCELLED", "EXPIRED"} : MoveClose(s, st)
  BY <1>1, <1>2, <1>6 DEF MoveClose, SameMatch, SameRecords, Validated, Shape, Unmatched
<1>7. CASE \E p \in Proposal : MovePropose(s, p)
  BY <1>1, <1>2, <1>7 DEF MovePropose, SameMatch, Validated, Shape, Unmatched
<1>8. CASE \E d \in Dispute : MoveDispute(s, d)
  BY <1>1, <1>2, <1>8 DEF MoveDispute, SameMatch, Validated, Shape, Unmatched
<1>9. CASE \E f \in FinalResolution : MoveDecide(s, f)
  <2>1. PICK f \in FinalResolution : MoveDecide(s, f)
    BY <1>9
  <2>2. f.outcome \in Outcome
    BY DEF FinalResolution
  <2>3. challenges[s].state \in {"ACTIVE", "PROPOSED", "DISPUTED"}
    BY <2>1 DEF MoveDecide, DecidedBy
  <2>. QED
    BY <1>1, <1>2, <2>1, <2>2, <2>3 DEF MoveDecide, SameMatch, Validated, Shape,
            Unmatched, Outcome, FinalState, ResolvedState
<1>10. CASE \E w \in Addresses, amount \in Nat : MovePay(s, w, amount)
  BY <1>1, <1>2, <1>10 DEF MovePay, SameMatch, SameRecords, Validated, Shape,
            Unmatched, Terminal
<1>. QED
  BY <1>3, <1>4, <1>5, <1>6, <1>7, <1>8, <1>9, <1>10 DEF Moves

(* Types and well-formedness hold initially. *)
LEMMA TypedInit == Init => Typed
<1> SUFFICES ASSUME Init PROVE TypeOK /\ WellFormed
  BY DEF Typed
<1>1. 0 \in Uint64 /\ 0 \in Uint256
  BY WidthAssumption DEF Uint64, Uint256
<1>2. NoEntitlement \in Entitlement
  BY <1>1 DEF NoEntitlement, Entitlement
<1>3. TypeOK
  BY <1>1, <1>2, InputAssumption DEF Init, TypeOK
<1>4. \A s \in Specs : ~challenges[s].exists
  BY DEF Init, Absent
<1>. QED
  BY <1>3, <1>4 DEF WellFormed, Validated, Shape

(* Well-formedness is kept by whatever makes one Move or none. *)
LEMMA WellFormedKept ==
    ASSUME Typed, TypeOK', Idle \/ \E s \in Specs : Moves(s) /\ Touches(s)
    PROVE  Typed'
<1>1. TypeOK' /\ now' \in Uint64
  BY DEF TypeOK
<1>2. now \in Nat
  BY WidthAssumption DEF Typed, TypeOK, Uint64
<1>3. ASSUME NEW t \in Specs PROVE Validated(t)' /\ Shape(t)'
  <2>1. Validated(t) /\ Shape(t)
    BY DEF Typed, WellFormed
  <2>2. CASE Idle
    BY <1>1, <2>1, <2>2, SameKeepsWellFormed DEF Idle, Typed
  <2>3. CASE \E s \in Specs : Moves(s) /\ Touches(s)
    <3>1. PICK s \in Specs : Moves(s) /\ Touches(s)
      BY <2>3
    <3>2. CASE s = t
      BY <1>1, <3>1, <3>2, MoveKeepsWellFormed
    <3>3. CASE s # t
      <4>1. Same(t) /\ now <= now'
        BY <1>2, <3>1, <3>3 DEF Touches
      <4>. QED
        BY <1>1, <2>1, <4>1, SameKeepsWellFormed DEF Typed
    <3>. QED
      BY <3>2, <3>3
  <2>. QED
    BY <2>2, <2>3
<1>. QED
  BY <1>1, <1>3 DEF Typed, WellFormed

(* Types and well-formedness are kept by every step. *)
LEMMA TypedNext == Typed /\ [Next]_vars => Typed'
  BY StepMoves, WellFormedKept

(* In every reachable state, of any deployment and any set of submitted    *)
(* executions, the storage has the declared types: no amount or timestamp  *)
(* wraps, in particular when a winner's entitlement doubles the stake.     *)
THEOREM TypeCorrect == Spec => []TypeOK
<1>1. Init => Typed
  BY TypedInit
<1>2. Typed /\ [Next]_vars => Typed'
  BY TypedNext
<1>3. Typed => TypeOK
  BY DEF Typed
<1>. QED
  BY <1>1, <1>2, <1>3, PTL DEF Spec

(* In every reachable state a challenge's records agree with its lifecycle *)
(* state, and it was valid when it was opened.                             *)
THEOREM StorageWellFormed == Spec => []WellFormed
<1>1. Init => Typed
  BY TypedInit
<1>2. Typed /\ [Next]_vars => Typed'
  BY TypedNext
<1>3. Typed => WellFormed
  BY DEF Typed
<1>. QED
  BY <1>1, <1>2, <1>3, PTL DEF Spec
=============================================================================
