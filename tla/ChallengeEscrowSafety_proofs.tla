--------------------- MODULE ChallengeEscrowSafety_proofs ---------------------
(***************************************************************************)
(* The escrow contract's safety properties, proved for every deployment,   *)
(* every set of executions, permits and balances, and every width of       *)
(* timestamps and amounts.  Most are invariants of one challenge's own     *)
(* record, so that it is enough that a Move on that challenge keeps them;  *)
(* solvency and the aggregate relate all challenges to one counter.        *)
(***************************************************************************)
EXTENDS ChallengeEscrow_proofs, FiniteSetTheorems

-----------------------------------------------------------------------------
(* Deadlines *)

(* The sums of a validated timeline, spelled out over naturals. *)
LEMMA ValidatedTimeline ==
    ASSUME Typed, NEW s \in Specs, challenges[s].exists
    PROVE  /\ s.acceptanceDeadline < s.observationTime
           /\ s.observationTime < s.sourceCorrectionCutoff
           /\ s.sourceCorrectionCutoff < s.proposalDeadline
           /\ s.disputeWindowSeconds > 0 /\ s.arbitrationWindowSeconds > 0
           /\ s.sourceCorrectionCutoff < s.observationTime + s.disputeWindowSeconds
           /\ s.proposalDeadline + s.disputeWindowSeconds + s.arbitrationWindowSeconds
                <= s.timeoutVoidAt
  BY DEF Typed, WellFormed, Validated, ValidExecution, OrderedTimeline, BoundedTimeline

(* Deadlines are written by propose and dispute only. *)
LEMMA MoveKeepsDeadlines ==
    ASSUME Typed, NEW s \in Specs, Moves(s), Deadlines(s)
    PROVE  Deadlines(s)'
<1>1. now \in Nat
  BY WidthAssumption DEF Typed, TypeOK, Uint64
<1>2. CASE MoveOpen(s)
  BY <1>2 DEF MoveOpen, Deadlines
<1>3. CASE \E p \in signedPermits : MoveAccept(s, p)
  BY <1>3 DEF MoveAccept, SameRecords, Deadlines
<1>4. CASE MoveRenonce(s)
  BY <1>4 DEF MoveRenonce, SameRecords, Deadlines
<1>5. CASE \E st \in {"CANCELLED", "EXPIRED"} : MoveClose(s, st)
  BY <1>5 DEF MoveClose, SameRecords, Deadlines
<1>6. CASE \E p \in Proposal : MovePropose(s, p)
  <2>1. PICK p \in Proposal : MovePropose(s, p)
    BY <1>6
  <2>2. /\ challenges[s].exists /\ challenges[s].state = "ACTIVE"
        /\ s.observationTime <= now /\ now < s.proposalDeadline
        /\ p.disputeDeadline = now + s.disputeWindowSeconds
        /\ challenges'[s].proposal = p
        /\ challenges'[s].dispute = challenges[s].dispute
    BY <2>1 DEF MovePropose
  <2>3. ~challenges[s].dispute.exists
    BY <2>2 DEF Typed, WellFormed, Shape
  <2>4. /\ s.sourceCorrectionCutoff < now + s.disputeWindowSeconds
        /\ now + s.disputeWindowSeconds + s.arbitrationWindowSeconds <= s.timeoutVoidAt
    BY <1>1, <2>2, SpecFields, ValidatedTimeline
  <2>. QED
    BY <2>2, <2>3, <2>4 DEF Deadlines
<1>7. CASE \E d \in Dispute : MoveDispute(s, d)
  <2>1. PICK d \in Dispute : MoveDispute(s, d)
    BY <1>7
  <2> DEFINE p == challenges[s].proposal
  <2>2. /\ challenges[s].exists /\ challenges[s].state = "PROPOSED"
        /\ now < p.disputeDeadline
        /\ d.arbitrationStart = ArbitrationStart(s)
        /\ d.arbitrationDeadline = ArbitrationStart(s) + s.arbitrationWindowSeconds
        /\ challenges'[s].proposal = p /\ challenges'[s].dispute = d
    BY <2>1 DEF MoveDispute
  <2>3. p.exists /\ p.disputeDeadline \in Nat
    BY <2>2, ChallengeInType, StoredFields, ProposalFields DEF Typed, WellFormed, Shape
  <2>4. /\ s.sourceCorrectionCutoff < p.disputeDeadline
        /\ p.disputeDeadline + s.arbitrationWindowSeconds <= s.timeoutVoidAt
    BY <2>2, <2>3 DEF Deadlines
  <2> HIDE DEF p
  <2>5. /\ ArbitrationStart(s) \in Nat
        /\ s.sourceCorrectionCutoff <= ArbitrationStart(s)
        /\ ArbitrationStart(s) < p.disputeDeadline
        /\ ArbitrationStart(s) + s.arbitrationWindowSeconds <= s.timeoutVoidAt
    BY <1>1, <2>2, <2>3, <2>4, SpecFields DEF ArbitrationStart
  <2>. QED
    BY <2>2, <2>4, <2>5 DEF Deadlines
<1>8. CASE \E f \in FinalResolution : MoveDecide(s, f)
  BY <1>8 DEF MoveDecide, Deadlines
<1>9. CASE \E w \in Addresses, amount \in Nat : MovePay(s, w, amount)
  BY <1>9 DEF MovePay, SameRecords, Deadlines
<1>. QED
  BY <1>2, <1>3, <1>4, <1>5, <1>6, <1>7, <1>8, <1>9 DEF Moves

(* Deadlines are bounded initially and after every step. *)
LEMMA DeadlinesInductive ==
    /\ Init => Typed /\ DeadlinesBounded
    /\ Typed /\ DeadlinesBounded /\ [Next]_vars => Typed' /\ DeadlinesBounded'
<1>1. Init => Typed /\ DeadlinesBounded
  BY TypedInit DEF Init, Absent, DeadlinesBounded, Deadlines
<1>2. ASSUME Typed, DeadlinesBounded, [Next]_vars, NEW t \in Specs
      PROVE  Deadlines(t)'
  <2>1. CASE Same(t)
    BY <1>2, <2>1 DEF Same, Deadlines, DeadlinesBounded
  <2>2. CASE Moves(t)
    BY <1>2, <2>2, MoveKeepsDeadlines DEF DeadlinesBounded
  <2>. QED
    BY <1>2, <2>1, <2>2, StepMoves DEF Idle, Touches
<1>. QED
  BY <1>1, <1>2, TypedNext DEF DeadlinesBounded

(* The deadlines that propose and dispute compute from the block time stay *)
(* inside the envelope that createAndFund validated, for every timeline.   *)
THEOREM DeadlinesStayBounded == Spec => []DeadlinesBounded
  BY DeadlinesInductive, PTL DEF Spec

-----------------------------------------------------------------------------
(* Evidence *)

(* A Move extends the chain of evidence or leaves it alone. *)
LEMMA MoveKeepsLineage ==
    ASSUME Typed, NEW s \in Specs, Moves(s), Lineage(s)
    PROVE  Lineage(s)'
<1>1. Shape(s)
  BY DEF Typed, WellFormed
<1>2. CASE MoveOpen(s)
  BY <1>2 DEF MoveOpen, Lineage
<1>3. CASE \E p \in signedPermits : MoveAccept(s, p)
  BY <1>3 DEF MoveAccept, SameRecords, Lineage
<1>4. CASE MoveRenonce(s)
  BY <1>4 DEF MoveRenonce, SameRecords, Lineage
<1>5. CASE \E st \in {"CANCELLED", "EXPIRED"} : MoveClose(s, st)
  BY <1>5 DEF MoveClose, SameMatch, SameRecords, Lineage
<1>6. CASE \E p \in Proposal : MovePropose(s, p)
  BY <1>1, <1>6 DEF MovePropose, SameMatch, Shape, Lineage
<1>7. CASE \E d \in Dispute : MoveDispute(s, d)
  BY <1>1, <1>7 DEF MoveDispute, SameMatch, Shape, Lineage
<1>8. CASE \E f \in FinalResolution : MoveDecide(s, f)
  BY <1>1, <1>8 DEF MoveDecide, DecidedBy, SameMatch, Shape, Lineage, TimeoutPath
<1>9. CASE \E w \in Addresses, amount \in Nat : MovePay(s, w, amount)
  BY <1>9 DEF MovePay, SameMatch, SameRecords, Lineage
<1>. QED
  BY <1>2, <1>3, <1>4, <1>5, <1>6, <1>7, <1>8, <1>9 DEF Moves

(* The final record of every challenge extends an unbroken chain of        *)
(* evidence, by whichever path it was reached.                             *)
THEOREM EvidenceLineageUnbroken == Spec => []EvidenceLineage
<1> DEFINE Inv == Typed /\ EvidenceLineage
<1>1. Init => Inv
  BY TypedInit DEF Init, Absent, EvidenceLineage, Lineage
<1>2. Inv /\ [Next]_vars => Inv'
  <2> SUFFICES ASSUME Inv, [Next]_vars PROVE Inv'
    OBVIOUS
  <2>1. ASSUME NEW t \in Specs PROVE Lineage(t)'
    <3>1. CASE Same(t)
      BY <3>1 DEF Same, Lineage, EvidenceLineage
    <3>2. CASE Moves(t)
      BY <3>2, MoveKeepsLineage DEF EvidenceLineage
    <3>. QED
      BY <3>1, <3>2, StepMoves DEF Idle, Touches
  <2>. QED
    BY <2>1, TypedNext DEF EvidenceLineage
<1>. QED
  BY <1>1, <1>2, PTL DEF Spec

-----------------------------------------------------------------------------
(* Money *)

(* Amounts of entitlements and challenges are naturals. *)
LEMMA AmountTypes ==
    ASSUME TypeOK, NEW s \in Specs
    PROVE  /\ \A w \in Addresses : /\ entitlements[s][w].claimableAmount \in Nat
                                   /\ entitlements[s][w].paidAmount \in Nat
           /\ challenges[s].exists =>
                /\ challenges[s].depositedAmount \in Nat
                /\ challenges[s].outstandingLiability \in Nat
                /\ challenges[s].acceptingWallet \in Addresses
                /\ challenges[s].state \in LifecycleState
<1>1. \A e \in Entitlement : e.claimableAmount \in Uint256 /\ e.paidAmount \in Uint256
  BY DEF Entitlement
<1>2. \A w \in Addresses : entitlements[s][w] \in Entitlement
  BY DEF TypeOK
<1>3. \A n \in Uint256 : n \in Nat
  BY WidthAssumption DEF Uint256
<1>. QED
  BY <1>1, <1>2, <1>3, ChallengeInType, StoredFields

(* The fields of an entitlement that was never written. *)
LEMMA NoEntitlementFields ==
    /\ NoEntitlement.claimableAmount = 0
    /\ NoEntitlement.paidAmount = 0
  BY DEF NoEntitlement

(* Each Move keeps the challenge's own books balanced. *)
LEMMA MoveKeepsBooks ==
    ASSUME Typed, TypeOK', NEW s \in Specs, Moves(s), Books(s)
    PROVE  Books(s)'
<1> DEFINE c == challenges[s]
           a == s.challengerWallet
<1>1. Shape(s) /\ a \in Addresses /\ s.stakeAmount \in Nat /\ ZeroAddress \in Addresses
  BY SpecFields, DeploymentAssumption DEF Typed, WellFormed
<1>2. c.exists => a # ZeroAddress /\ a # c.acceptingWallet /\ c.acceptingWallet \in Addresses
  BY <1>1, ChallengeInType, StoredFields DEF Typed, WellFormed, Validated, ValidExecution,
            ValidChallengerWallet, KernelChallengerWallet, Shape
<1>3. CASE MoveOpen(s)
  BY <1>1, <1>3 DEF MoveOpen, Books, Unmatched, Terminal
<1>4. CASE \E p \in signedPermits : MoveAccept(s, p)
  <2>1. PICK p \in signedPermits : MoveAccept(s, p)
    BY <1>4
  <2>2. p.acceptingWallet \in Addresses \ {a, ZeroAddress}
    BY <2>1 DEF MoveAccept, ValidParticipantWallet, ValidChallengerWallet,
                KernelChallengerWallet
  <2>. QED
    BY <1>1, <1>2, <2>1, <2>2 DEF MoveAccept, Books, Unmatched, Terminal
<1>5. CASE MoveRenonce(s)
  BY <1>1, <1>5 DEF MoveRenonce, SameMatch, SameFunds, Books, Unmatched, Terminal
<1>6. CASE \E st \in {"CANCELLED", "EXPIRED"} : MoveClose(s, st)
  <2>1. PICK st \in {"CANCELLED", "EXPIRED"} : MoveClose(s, st)
    BY <1>6
  <2>2. c.exists /\ c.state = "OPEN" /\ c.acceptingWallet = ZeroAddress
    BY <1>1, <2>1 DEF MoveClose, Shape, Unmatched
  <2>3. /\ \A w \in Addresses : entitlements[s][w] = NoEntitlement
        /\ c.outstandingLiability = s.stakeAmount /\ c.depositedAmount = s.stakeAmount
    BY <1>1, <2>2 DEF Books, Unmatched, Terminal
  <2>4. /\ \A w \in Addresses \ {a} : entitlements'[s][w] = NoEntitlement
        /\ Claimable(s, a)' = s.stakeAmount /\ Paid(s, a)' = 0
        /\ Claimable(s, ZeroAddress)' = 0 /\ Paid(s, ZeroAddress)' = 0
    BY <1>1, <1>2, <2>1, <2>2, <2>3, NoEntitlementFields
       DEF MoveClose, Grants, Claimable, Paid
  <2>. QED
    BY <1>1, <1>2, <2>1, <2>2, <2>3, <2>4
       DEF MoveClose, SameMatch, SameFunds, Books, Unmatched, Terminal
<1>7. CASE \E p \in Proposal : MovePropose(s, p)
  BY <1>1, <1>7 DEF MovePropose, SameMatch, SameFunds, Books, Unmatched, Terminal
<1>8. CASE \E d \in Dispute : MoveDispute(s, d)
  BY <1>1, <1>8 DEF MoveDispute, SameMatch, SameFunds, Books, Unmatched, Terminal
<1>9. CASE \E f \in FinalResolution : MoveDecide(s, f)
  <2>1. PICK f \in FinalResolution : MoveDecide(s, f)
    BY <1>9
  <2>0. PICK b : b = c.acceptingWallet
    OBVIOUS
  <2>2. c.exists /\ c.state \in {"ACTIVE", "PROPOSED", "DISPUTED"} /\ f.outcome \in Outcome
    BY <2>1 DEF MoveDecide, DecidedBy, FinalResolution
  <2>3. b \in Addresses /\ b # ZeroAddress /\ a # ZeroAddress /\ a # b
    BY <1>1, <1>2, <2>0, <2>2 DEF Shape, Unmatched
  <2>4. /\ \A w \in Addresses : entitlements[s][w] = NoEntitlement
        /\ c.outstandingLiability = 2 * s.stakeAmount /\ c.depositedAmount = 2 * s.stakeAmount
    BY <1>1, <2>2 DEF Books, Unmatched, Terminal
  <2>5. FinalState(f.outcome) \in {"RESOLVED_A", "RESOLVED_B", "VOID"}
    BY DEF FinalState, ResolvedState
  <2>6. /\ \A w \in Addresses \ {a, b} : entitlements'[s][w] = NoEntitlement
        /\ Claimable(s, a)' + Claimable(s, b)' = 2 * s.stakeAmount
        /\ Paid(s, a)' = 0 /\ Paid(s, b)' = 0
    <3>1. CASE f.outcome = "VOID"
      <4>1. Grants(s, {a, b}, s.stakeAmount)
        BY <2>0, <2>1, <3>1 DEF MoveDecide, Participants
      <4>2. /\ \A w \in Addresses \ {a, b} : entitlements'[s][w] = NoEntitlement
            /\ Claimable(s, a)' = s.stakeAmount /\ Claimable(s, b)' = s.stakeAmount
            /\ Paid(s, a)' = 0 /\ Paid(s, b)' = 0
        <5>1. \A w \in Addresses \ {a, b} : entitlements'[s][w] = NoEntitlement
          BY <2>4, <4>1 DEF Grants
        <5>2. /\ entitlements'[s][a].claimableAmount = s.stakeAmount
              /\ entitlements'[s][a].paidAmount = entitlements[s][a].paidAmount
              /\ entitlements'[s][b].claimableAmount = s.stakeAmount
              /\ entitlements'[s][b].paidAmount = entitlements[s][b].paidAmount
          BY <1>1, <2>3, <4>1 DEF Grants
        <5>. QED
          BY <1>1, <2>3, <2>4, <5>1, <5>2, NoEntitlementFields DEF Claimable, Paid
      <4>. QED
        BY <1>1, <4>2
    <3>2. CASE f.outcome # "VOID"
      <4>1. Grants(s, {WinnerWallet(s, f.outcome)}, 2 * s.stakeAmount)
        BY <2>1, <3>2 DEF MoveDecide
      <4>2. WinnerWallet(s, f.outcome) = a \/ WinnerWallet(s, f.outcome) = b
        BY <2>0 DEF WinnerWallet
      <4>3. /\ \A w \in Addresses \ {a, b} : entitlements'[s][w] = NoEntitlement
            /\ \/ Claimable(s, a)' = 2 * s.stakeAmount /\ Claimable(s, b)' = 0
               \/ Claimable(s, a)' = 0 /\ Claimable(s, b)' = 2 * s.stakeAmount
            /\ Paid(s, a)' = 0 /\ Paid(s, b)' = 0
        <5> DEFINE v == WinnerWallet(s, f.outcome)
        <5>1. /\ \A w \in Addresses \ {v} : entitlements'[s][w] = NoEntitlement
              /\ \A w \in Addresses \ {a, b} : entitlements'[s][w] = NoEntitlement
          BY <2>4, <4>1, <4>2 DEF Grants
        <5>2. /\ entitlements'[s][v].claimableAmount = 2 * s.stakeAmount
              /\ entitlements'[s][v].paidAmount = entitlements[s][v].paidAmount
          BY <1>1, <2>3, <4>1, <4>2 DEF Grants
        <5> HIDE DEF v
        <5>. QED
          BY <1>1, <2>3, <2>4, <4>2, <5>1, <5>2, NoEntitlementFields DEF Claimable, Paid, v
      <4>. QED
        BY <1>1, <4>3
    <3>. QED
      BY <3>1, <3>2
  <2>7. /\ challenges'[s].exists /\ challenges'[s].state = FinalState(f.outcome)
        /\ challenges'[s].acceptingWallet = b
        /\ challenges'[s].depositedAmount = 2 * s.stakeAmount
        /\ challenges'[s].outstandingLiability = 2 * s.stakeAmount
    BY <2>0, <2>1, <2>4 DEF MoveDecide, SameMatch, SameFunds
  <2>8. challenges'[s].state \in Terminal \ Unmatched
    BY <2>5, <2>7 DEF Terminal, Unmatched
  <2>9. /\ challenges'[s].outstandingLiability = Claimable(s, a)' + Claimable(s, b)'
        /\ challenges'[s].depositedAmount =
             challenges'[s].outstandingLiability + Paid(s, a)' + Paid(s, b)'
    BY <1>1, <2>6, <2>7
  <2>10. entitlements'[s][ZeroAddress] = NoEntitlement
    BY <1>1, <2>3, <2>6
  <2>. QED
    BY <2>3, <2>6, <2>7, <2>8, <2>9, <2>10 DEF Books
<1>10. CASE \E w \in Addresses, amount \in Nat : MovePay(s, w, amount)
  <2>1. PICK w \in Addresses, amount \in Nat : MovePay(s, w, amount)
    BY <1>10
  <2>0. PICK b : b = c.acceptingWallet
    OBVIOUS
  <2>2. c.exists /\ c.state \in Terminal /\ w \in {a, b} \ {ZeroAddress}
    BY <2>0, <2>1 DEF MovePay, Participants
  <2>3. b \in Addresses /\ a # b /\ (b = ZeroAddress <=> c.state \in Unmatched)
    BY <1>1, <1>2, <2>0, <2>2 DEF Shape
  <2>4. /\ c.depositedAmount =
             (IF c.state \in Unmatched THEN s.stakeAmount ELSE 2 * s.stakeAmount)
        /\ c.outstandingLiability = Claimable(s, a) + Claimable(s, b)
        /\ c.depositedAmount = c.outstandingLiability + Paid(s, a) + Paid(s, b)
        /\ \A v \in Addresses \ {a, b} : entitlements[s][v] = NoEntitlement
        /\ entitlements[s][ZeroAddress] = NoEntitlement
    BY <2>0, <2>2 DEF Books
  <2>5. /\ challenges'[s].exists /\ challenges'[s].state = c.state
        /\ challenges'[s].acceptingWallet = b
        /\ challenges'[s].depositedAmount = c.depositedAmount
        /\ challenges'[s].outstandingLiability = c.outstandingLiability - amount
        /\ \A v \in Addresses \ {w} : entitlements'[s][v] = entitlements[s][v]
        /\ Claimable(s, w) = amount /\ Paid(s, w) = 0
        /\ Claimable(s, w)' = 0 /\ Paid(s, w)' = amount
    BY <2>0, <2>1, <2>2 DEF MovePay, SameMatch, Claimable, Paid
  <2>6. /\ Claimable(s, a) \in Nat /\ Claimable(s, b) \in Nat
        /\ Paid(s, a) \in Nat /\ Paid(s, b) \in Nat
        /\ c.outstandingLiability \in Nat /\ c.depositedAmount \in Nat
    BY <1>1, <2>2, <2>3, AmountTypes DEF Typed, Claimable, Paid
  <2>7. /\ challenges'[s].outstandingLiability = Claimable(s, a)' + Claimable(s, b)'
        /\ challenges'[s].depositedAmount =
             challenges'[s].outstandingLiability + Paid(s, a)' + Paid(s, b)'
    <3>1. CASE w = a
      <4>1. Claimable(s, b)' = Claimable(s, b) /\ Paid(s, b)' = Paid(s, b)
        BY <2>3, <2>5, <3>1 DEF Claimable, Paid
      <4>. QED
        BY <2>4, <2>5, <2>6, <3>1, <4>1
    <3>2. CASE w = b
      <4>1. Claimable(s, a)' = Claimable(s, a) /\ Paid(s, a)' = Paid(s, a)
        BY <1>1, <2>3, <2>5, <3>2 DEF Claimable, Paid
      <4>. QED
        BY <2>4, <2>5, <2>6, <3>2, <4>1
    <3>. QED
      BY <2>2, <3>1, <3>2
  <2>8. /\ \A v \in Addresses \ {a, b} : entitlements'[s][v] = NoEntitlement
        /\ entitlements'[s][ZeroAddress] = NoEntitlement
    BY <1>1, <2>2, <2>4, <2>5
  <2>. QED
    BY <2>2, <2>3, <2>4, <2>5, <2>7, <2>8 DEF Books
<1>. QED
  BY <1>3, <1>4, <1>5, <1>6, <1>7, <1>8, <1>9, <1>10 DEF Moves

(* The books balance after whatever makes one Move or none. *)
LEMMA BooksKept ==
    ASSUME Typed, BooksBalance, TypeOK', Idle \/ \E s \in Specs : Moves(s) /\ Touches(s)
    PROVE  BooksBalance'
<1>1. ASSUME NEW t \in Specs
      PROVE  Books(t)'
  <2>1. CASE Same(t)
    BY <2>1 DEF Same, Books, Claimable, Paid, BooksBalance
  <2>2. CASE Moves(t)
    BY <2>2, MoveKeepsBooks DEF BooksBalance
  <2>. QED
    BY <2>1, <2>2 DEF Idle, Touches
<1>. QED
  BY <1>1 DEF BooksBalance

(* The books of every challenge balance initially and after every step. *)
LEMMA BooksInductive ==
    /\ Init => BooksBalance
    /\ Typed /\ BooksBalance /\ [Next]_vars => BooksBalance'
<1>1. Init => BooksBalance
  BY DEF Init, Absent, BooksBalance, Books
<1>. QED
  BY <1>1, StepMoves, BooksKept

(* Every unit deposited in a challenge is owed, claimable or paid, exactly *)
(* once, for all stakes and all interleavings of any number of challenges. *)
THEOREM BooksAlwaysBalance == Spec => []BooksBalance
<1>1. Init => Typed /\ BooksBalance
  BY TypedInit, BooksInductive
<1>2. Typed /\ BooksBalance /\ [Next]_vars => Typed' /\ BooksBalance'
  BY TypedNext, BooksInductive
<1>. QED
  BY <1>1, <1>2, PTL DEF Spec

(* The aggregate liability never exceeds the balance, step by step. *)
LEMMA SolventNext == Typed /\ Solvent /\ [Next]_vars => Solvent'
<1> SUFFICES ASSUME Typed, Solvent, [Next]_vars PROVE Solvent'
  OBVIOUS
<1>1. /\ balance[Escrow] \in Nat /\ totalOutstandingLiability \in Nat
      /\ totalOutstandingLiability <= balance[Escrow]
  BY WidthAssumption, DeploymentAssumption DEF Typed, TypeOK, Uint256, Solvent
<1>2. balance'[Escrow] \in Nat /\ totalOutstandingLiability' \in Nat
  BY StepMoves, WidthAssumption, DeploymentAssumption DEF TypeOK, Uint256
<1>3. CASE Idle
  BY <1>1, <1>2, <1>3 DEF Idle, Solvent
<1>4. ASSUME NEW s \in Specs, Moves(s) PROVE Solvent'
  <2>1. CASE \/ MoveOpen(s) \/ \E p \in signedPermits : MoveAccept(s, p)
    <3>1. /\ balance'[Escrow] = balance[Escrow] + s.stakeAmount
          /\ totalOutstandingLiability' = totalOutstandingLiability + s.stakeAmount
      BY <2>1 DEF MoveOpen, MoveAccept
    <3>. QED
      BY <1>1, <3>1, SpecFields DEF Solvent
  <2>2. CASE \E w \in Addresses, amount \in Nat : MovePay(s, w, amount)
    <3>1. PICK w \in Addresses, amount \in Nat : MovePay(s, w, amount)
      BY <2>2
    <3>2. /\ balance'[Escrow] = balance[Escrow] - amount
          /\ totalOutstandingLiability' = totalOutstandingLiability - amount
      BY <3>1 DEF MovePay
    <3>. QED
      BY <1>1, <3>2 DEF Solvent
  <2>3. CASE \/ MoveRenonce(s)
             \/ \E st \in {"CANCELLED", "EXPIRED"} : MoveClose(s, st)
             \/ \E p \in Proposal : MovePropose(s, p)
             \/ \E d \in Dispute : MoveDispute(s, d)
             \/ \E f \in FinalResolution : MoveDecide(s, f)
    <3>1. balance' = balance /\ totalOutstandingLiability' = totalOutstandingLiability
      BY <2>3 DEF MoveRenonce, MoveClose, MovePropose, MoveDispute, MoveDecide
    <3>. QED
      BY <1>1, <3>1 DEF Solvent
  <2>. QED
    BY <1>4, <2>1, <2>2, <2>3 DEF Moves
<1>. QED
  BY <1>3, <1>4, StepMoves

(* The contract's token balance covers its aggregate liability in every    *)
(* reachable state of every deployment over a conforming token.            *)
THEOREM AlwaysSolvent == Spec => []Solvent
<1>1. Init => Typed /\ Solvent
  <2>1. Init => Solvent
    BY InputAssumption, WidthAssumption, DeploymentAssumption DEF Init, Solvent, Uint256
  <2>. QED
    BY <2>1, TypedInit
<1>2. Typed /\ Solvent /\ [Next]_vars => Typed' /\ Solvent'
  BY TypedNext, SolventNext
<1>. QED
  BY <1>1, <1>2, PTL DEF Spec

(* The winner's wallet and the winning side are two views of one choice. *)
LEMMA WinnerTookTheSide ==
    ASSUME NEW s \in Specs, NEW outcome \in {"A", "B"},
           s.challengerWallet # challenges[s].acceptingWallet,
           NEW w \in {s.challengerWallet, challenges[s].acceptingWallet}
    PROVE  outcome = SideOf(s, w) <=> w = WinnerWallet(s, outcome)
  BY SpecFields DEF SideOf, OtherSide, WinnerWallet, Side

(* Decisions grant what the outcome says; payouts keep what is due. *)
LEMMA MoveKeepsPayout ==
    ASSUME Typed, TypeOK', NEW s \in Specs, Moves(s), Books(s), PayoutOf(s)
    PROVE  PayoutOf(s)'
<1> DEFINE c == challenges[s]
           a == s.challengerWallet
<1>1. Shape(s) /\ a \in Addresses /\ s.stakeAmount \in Nat
  BY SpecFields DEF Typed, WellFormed
<1>2. CASE MoveOpen(s)
  BY <1>2 DEF MoveOpen, PayoutOf, Terminal
<1>3. CASE \E p \in signedPermits : MoveAccept(s, p)
  BY <1>3 DEF MoveAccept, PayoutOf, Terminal
<1>4. CASE MoveRenonce(s)
  BY <1>4 DEF MoveRenonce, PayoutOf, Terminal
<1>5. CASE \E st \in {"CANCELLED", "EXPIRED"} : MoveClose(s, st)
  <2>1. PICK st \in {"CANCELLED", "EXPIRED"} : MoveClose(s, st)
    BY <1>5
  <2>2. entitlements[s][a] = NoEntitlement
    BY <1>1, <2>1 DEF MoveClose, Books, Terminal
  <2>3. Due(s, a)' = s.stakeAmount
    BY <1>1, <2>1, <2>2, NoEntitlementFields DEF MoveClose, Grants, Due, Claimable, Paid
  <2>. QED
    BY <2>1, <2>3 DEF MoveClose, PayoutOf, Unmatched
<1>6. CASE \E p \in Proposal : MovePropose(s, p)
  BY <1>6 DEF MovePropose, PayoutOf, Terminal
<1>7. CASE \E d \in Dispute : MoveDispute(s, d)
  BY <1>7 DEF MoveDispute, PayoutOf, Terminal
<1>8. CASE \E f \in FinalResolution : MoveDecide(s, f)
  <2>1. PICK f \in FinalResolution : MoveDecide(s, f)
    BY <1>8
  <2>2. c.exists /\ c.state \in {"ACTIVE", "PROPOSED", "DISPUTED"} /\ f.outcome \in Outcome
    BY <2>1 DEF MoveDecide, DecidedBy, FinalResolution
  <2>3. c.acceptingWallet \in Addresses /\ a # c.acceptingWallet
    BY <1>1, <2>2, ChallengeInType, StoredFields DEF Typed, Shape
  <2>4. \A w \in {a, c.acceptingWallet} : entitlements[s][w] = NoEntitlement
    BY <2>2 DEF Books, Terminal
  <2>5. \A w \in {a, c.acceptingWallet} :
           entitlements'[s][w].claimableAmount + entitlements'[s][w].paidAmount =
              IF f.outcome = "VOID" THEN s.stakeAmount
              ELSE IF f.outcome = SideOf(s, w) THEN 2 * s.stakeAmount ELSE 0
    <3>1. CASE f.outcome = "VOID"
      BY <1>1, <2>1, <2>3, <2>4, <3>1, NoEntitlementFields
         DEF MoveDecide, Grants, Participants
    <3>2. CASE f.outcome # "VOID"
      <4>1. TAKE w \in {a, c.acceptingWallet}
      <4>2. Grants(s, {WinnerWallet(s, f.outcome)}, 2 * s.stakeAmount)
        BY <2>1, <3>2 DEF MoveDecide
      <4>3. f.outcome = SideOf(s, w) <=> w = WinnerWallet(s, f.outcome)
        BY <2>2, <2>3, <3>2, WinnerTookTheSide DEF Outcome
      <4>4. w \in Addresses /\ entitlements[s][w] = NoEntitlement
        BY <1>1, <2>3, <2>4
      <4>. QED
        BY <1>1, <3>2, <4>2, <4>3, <4>4, NoEntitlementFields DEF Grants
    <3>. QED
      BY <3>1, <3>2
  <2>6. /\ challenges'[s].state = FinalState(f.outcome)
        /\ challenges'[s].acceptingWallet = c.acceptingWallet
        /\ challenges'[s].finalResolution = f
    BY <2>1 DEF MoveDecide, SameMatch
  <2>7. challenges'[s].state \notin Unmatched
    BY <2>6 DEF FinalState, ResolvedState, Unmatched
  <2>. QED
    BY <2>5, <2>6, <2>7 DEF PayoutOf, Due, Claimable, Paid, SideOf
<1>9. CASE \E w \in Addresses, amount \in Nat : MovePay(s, w, amount)
  <2>1. PICK w \in Addresses, amount \in Nat : MovePay(s, w, amount)
    BY <1>9
  <2>2. \A v \in Addresses : Due(s, v)' = Due(s, v)
    BY <2>1 DEF MovePay, Due, Claimable, Paid
  <2>3. c.exists /\ c.state \in Terminal /\ c.acceptingWallet \in Addresses
    BY <2>1, ChallengeInType, StoredFields DEF MovePay, Typed
  <2>4. /\ challenges'[s].state = c.state
        /\ challenges'[s].acceptingWallet = c.acceptingWallet
        /\ challenges'[s].finalResolution = c.finalResolution
    BY <2>1 DEF MovePay, SameMatch, SameRecords
  <2>. QED
    BY <1>1, <2>2, <2>3, <2>4 DEF PayoutOf, SideOf
<1>. QED
  BY <1>2, <1>3, <1>4, <1>5, <1>6, <1>7, <1>8, <1>9 DEF Moves

(* What each wallet is due, or was paid, is what the final outcome says,   *)
(* for every stake, side and path.                                         *)
THEOREM PayoutsMatchOutcomes == Spec => []PayoutMatchesOutcome
<1> DEFINE Inv == Typed /\ BooksBalance /\ PayoutMatchesOutcome
<1>1. Init => Inv
  BY TypedInit, BooksInductive DEF Init, Absent, PayoutMatchesOutcome, PayoutOf
<1>2. Inv /\ [Next]_vars => Inv'
  <2> SUFFICES ASSUME Inv, [Next]_vars PROVE Inv'
    OBVIOUS
  <2>1. ASSUME NEW t \in Specs PROVE PayoutOf(t)'
    <3>1. CASE Same(t)
      BY <3>1 DEF Same, PayoutOf, Due, Claimable, Paid, SideOf, PayoutMatchesOutcome
    <3>2. CASE Moves(t)
      BY <3>2, StepMoves, MoveKeepsPayout DEF PayoutMatchesOutcome, BooksBalance
    <3>. QED
      BY <3>1, <3>2, StepMoves DEF Idle, Touches
  <2>. QED
    BY <2>1, TypedNext, BooksInductive DEF PayoutMatchesOutcome
<1>. QED
  BY <1>1, <1>2, PTL DEF Spec

-----------------------------------------------------------------------------
(* Consent *)

(* A Move on a challenge keeps the evidence that its match was agreed to. *)
LEMMA MoveKeepsConsent ==
    ASSUME Typed, NEW s \in Specs, Moves(s), Touches(s), Consent(s)
    PROVE  Consent(s)'
<1>1. signedPermits' = signedPermits
  BY DEF Touches
<1>2. CASE MoveOpen(s)
  BY <1>2 DEF MoveOpen, Consent, Unmatched
<1>3. CASE \E p \in signedPermits : MoveAccept(s, p)
  <2>1. PICK p \in signedPermits : MoveAccept(s, p)
    BY <1>3
  <2>2. /\ p \in signedPermits' /\ p.spec = s
        /\ p.acceptingWallet = challenges'[s].acceptingWallet
        /\ p.acceptingWallet # s.challengerWallet
        /\ p.acceptanceNonce = challenges'[s].acceptanceNonce
        /\ challenges'[s].acceptedAt < p.expiresAt
        /\ p.expiresAt <= s.acceptanceDeadline
    BY <1>1, <2>1 DEF MoveAccept, PermitLive, ValidParticipantWallet
  <2>. QED
    BY <2>2 DEF Consent
<1>4. CASE MoveRenonce(s)
  BY <1>4 DEF MoveRenonce, Consent, Unmatched
<1>5. CASE \E st \in {"CANCELLED", "EXPIRED"} : MoveClose(s, st)
  BY <1>5 DEF MoveClose, Consent, Unmatched
<1>6. CASE \E p \in Proposal : MovePropose(s, p)
  BY <1>1, <1>6 DEF MovePropose, SameMatch, Consent, Unmatched
<1>7. CASE \E d \in Dispute : MoveDispute(s, d)
  BY <1>1, <1>7 DEF MoveDispute, SameMatch, Consent, Unmatched
<1>8. CASE \E f \in FinalResolution : MoveDecide(s, f)
  BY <1>1, <1>8 DEF MoveDecide, DecidedBy, SameMatch, Consent, Unmatched
<1>9. CASE \E w \in Addresses, amount \in Nat : MovePay(s, w, amount)
  BY <1>1, <1>9 DEF MovePay, SameMatch, Consent
<1>. QED
  BY <1>2, <1>3, <1>4, <1>5, <1>6, <1>7, <1>8, <1>9 DEF Moves

(* Whoever is matched held a permit, signed for that wallet under the      *)
(* nonce current to this day, and used it before it expired.               *)
THEOREM MatchesAreAgreed == Spec => []ConsentToMatch
<1> DEFINE Inv == Typed /\ ConsentToMatch
<1>1. Init => Inv
  BY TypedInit DEF Init, Absent, ConsentToMatch, Consent
<1>2. Inv /\ [Next]_vars => Inv'
  <2> SUFFICES ASSUME Inv, [Next]_vars PROVE Inv'
    OBVIOUS
  <2>1. ASSUME NEW t \in Specs PROVE Consent(t)'
    <3>1. signedPermits \subseteq signedPermits'
      BY StepMoves DEF Idle, Touches
    <3>2. CASE Same(t)
      BY <3>1, <3>2 DEF Same, Consent, ConsentToMatch
    <3>3. CASE Moves(t) /\ Touches(t)
      BY <3>3, MoveKeepsConsent DEF ConsentToMatch
    <3>. QED
      BY <3>2, <3>3, StepMoves DEF Idle, Touches
  <2>. QED
    BY <2>1, TypedNext DEF ConsentToMatch
<1>. QED
  BY <1>1, <1>2, PTL DEF Spec

-----------------------------------------------------------------------------
(* Nonces *)

(* The nonce of every challenge that was opened stays marked as used. *)
NoncesMarked == \A s \in Specs :
    challenges[s].exists => <<s.challengerWallet, s.nonce>> \in usedInstanceNonces

(* An instance nonce names at most one challenge, for ever. *)
THEOREM NonceNamesOneChallenge == Spec => []OneChallengePerNonce
<1> DEFINE Inv == Typed /\ NoncesMarked /\ OneChallengePerNonce
<1>1. Init => Inv
  BY TypedInit DEF Init, Absent, NoncesMarked, OneChallengePerNonce
<1>2. Inv /\ [Next]_vars => Inv'
  <2> SUFFICES ASSUME Inv, [Next]_vars PROVE Inv'
    OBVIOUS
  <2>1. CASE Idle
    <3>1. /\ \A t \in Specs : challenges'[t] = challenges[t]
          /\ usedInstanceNonces' = usedInstanceNonces
      BY <2>1 DEF Idle, Same
    <3>2. NoncesMarked'
      BY <3>1 DEF NoncesMarked
    <3>3. OneChallengePerNonce'
      BY <3>1 DEF OneChallengePerNonce
    <3>. QED
      BY <3>2, <3>3, TypedNext
  <2>2. ASSUME NEW s \in Specs, MoveOpen(s), Touches(s)
        PROVE  (NoncesMarked /\ OneChallengePerNonce)'
    BY <2>2 DEF MoveOpen, Touches, Same, NonceUnused, NoncesMarked, OneChallengePerNonce
  <2>3. ASSUME NEW s \in Specs, Moves(s), ~MoveOpen(s), Touches(s)
        PROVE  (NoncesMarked /\ OneChallengePerNonce)'
    <3>1. challenges[s].exists /\ usedInstanceNonces' = usedInstanceNonces
      BY <2>3 DEF Moves, MoveAccept, MoveRenonce, MoveClose, MovePropose, MoveDispute,
                  MoveDecide, MovePay
    <3>. QED
      BY <2>3, <3>1 DEF Touches, Same, NoncesMarked, OneChallengePerNonce
  <2>. QED
    BY <2>1, <2>2, <2>3, StepMoves, TypedNext
<1>. QED
  BY <1>1, <1>2, PTL DEF Spec

-----------------------------------------------------------------------------
(* What a step may never do *)

(* The deadlines of a challenge are naturals as soon as they exist. *)
LEMMA DeadlineTypes ==
    ASSUME Typed, NEW s \in Specs, challenges[s].exists
    PROVE  /\ challenges[s].proposal.exists => challenges[s].proposal.disputeDeadline \in Nat
           /\ challenges[s].dispute.exists =>
                /\ challenges[s].dispute.arbitrationStart \in Nat
                /\ challenges[s].dispute.arbitrationDeadline \in Nat
  BY ChallengeInType, StoredFields, ProposalFields, DisputeFields DEF Typed

(* A decision waits for the correction cutoff, whichever path leads to it. *)
LEMMA DecisionAfterCutoff ==
    ASSUME Typed, DeadlinesBounded, NEW s \in Specs, NEW f \in FinalResolution,
           MoveDecide(s, f)
    PROVE  now >= s.sourceCorrectionCutoff
<1>1. challenges[s].exists /\ Shape(s) /\ Deadlines(s) /\ DecidedBy(s, f)
  BY DEF MoveDecide, Typed, WellFormed, DeadlinesBounded
<1>2. now \in Nat
  BY WidthAssumption DEF Typed, TypeOK, Uint64
<1>3. CASE challenges[s].state = "PROPOSED" /\ now >= challenges[s].proposal.disputeDeadline
  <2>1. /\ challenges[s].proposal.disputeDeadline \in Nat
        /\ s.sourceCorrectionCutoff < challenges[s].proposal.disputeDeadline
    BY <1>1, <1>3, DeadlineTypes DEF Shape, Deadlines
  <2>. QED
    BY <1>2, <1>3, <2>1, SpecFields
<1>4. CASE ArbitrationOpen(s)
  BY <1>2, <1>4, SpecFields DEF ArbitrationOpen
<1>5. CASE challenges[s].state = "ACTIVE" /\ now >= s.proposalDeadline
  BY <1>1, <1>2, <1>5, SpecFields, ValidatedTimeline
<1>6. CASE challenges[s].state = "DISPUTED" /\ now >= challenges[s].dispute.arbitrationDeadline
  <2>1. /\ challenges[s].dispute.arbitrationStart \in Nat
        /\ s.sourceCorrectionCutoff <= challenges[s].dispute.arbitrationStart
        /\ challenges[s].dispute.arbitrationDeadline =
             challenges[s].dispute.arbitrationStart + s.arbitrationWindowSeconds
    BY <1>1, <1>6, DeadlineTypes DEF Shape, Deadlines
  <2>. QED
    BY <1>2, <1>6, <2>1, SpecFields
<1>. QED
  BY <1>1, <1>3, <1>4, <1>5, <1>6 DEF DecidedBy

(* No accepted challenge is ever final before its source's correction      *)
(* cutoff, for every timeline the contract accepts.                        *)
THEOREM FinalityWaitsForCutoff == Spec => NoFinalityBeforeCutoff
<1> DEFINE Step == \A s \in Specs :
          /\ challenges[s].exists
          /\ challenges[s].state \notin Terminal
          /\ challenges'[s].state \in Terminal \ Unmatched
          => now >= s.sourceCorrectionCutoff
<1>1. ASSUME Typed, DeadlinesBounded, [Next]_vars PROVE Step
  <2> SUFFICES ASSUME NEW s \in Specs, challenges[s].exists,
                      challenges[s].state \notin Terminal,
                      challenges'[s].state \in Terminal \ Unmatched
               PROVE  now >= s.sourceCorrectionCutoff
    OBVIOUS
  <2>1. ~Same(s)
    BY DEF Same
  <2>2. Moves(s)
    BY <1>1, <2>1, StepMoves DEF Idle, Touches
  <2>3. \E f \in FinalResolution : MoveDecide(s, f)
    BY <2>2 DEF Moves, MoveOpen, MoveAccept, MoveRenonce, MoveClose, MovePropose,
                MoveDispute, MovePay, Terminal, Unmatched
  <2>. QED
    BY <1>1, <2>3, DecisionAfterCutoff
<1>2. Typed /\ DeadlinesBounded /\ [Next]_vars => [Step]_vars
  BY <1>1
<1>. QED
  BY <1>2, DeadlinesInductive, PTL DEF Spec, NoFinalityBeforeCutoff

(* From timeoutVoidAt on, the resolver, the participants and the arbiter   *)
(* have lost their say, for every timeline the contract accepts.           *)
THEOREM AuthorityEndsAtTimeout == Spec => AuthorityExpires
<1> DEFINE Step == \A s \in Specs : challenges[s].exists /\ now >= s.timeoutVoidAt =>
          /\ challenges'[s].proposal = challenges[s].proposal
          /\ challenges'[s].dispute = challenges[s].dispute
          /\ challenges'[s].finalResolution # challenges[s].finalResolution
               => challenges'[s].finalResolution.path # "ARBITER"
<1>1. ASSUME Typed, DeadlinesBounded, [Next]_vars PROVE Step
  <2> SUFFICES ASSUME NEW s \in Specs, challenges[s].exists, now >= s.timeoutVoidAt
               PROVE  /\ challenges'[s].proposal = challenges[s].proposal
                      /\ challenges'[s].dispute = challenges[s].dispute
                      /\ challenges'[s].finalResolution # challenges[s].finalResolution
                           => challenges'[s].finalResolution.path # "ARBITER"
    OBVIOUS
  <2>0. now \in Nat /\ Shape(s) /\ Deadlines(s)
    BY <1>1, WidthAssumption DEF Typed, TypeOK, Uint64, WellFormed, DeadlinesBounded
  <2>1. CASE Same(s)
    BY <2>1 DEF Same
  <2>2. ASSUME NEW p \in Proposal, MovePropose(s, p) PROVE FALSE
    <3>1. now < s.proposalDeadline
      BY <2>2 DEF MovePropose
    <3>. QED
      BY <1>1, <2>0, <3>1, SpecFields, ValidatedTimeline
  <2>3. ASSUME NEW d \in Dispute, MoveDispute(s, d) PROVE FALSE
    <3>1. /\ challenges[s].proposal.exists
          /\ now < challenges[s].proposal.disputeDeadline
      BY <2>0, <2>3 DEF MoveDispute, Shape
    <3>2. /\ challenges[s].proposal.disputeDeadline \in Nat
          /\ challenges[s].proposal.disputeDeadline + s.arbitrationWindowSeconds
               <= s.timeoutVoidAt
      BY <1>1, <2>0, <3>1, DeadlineTypes DEF Deadlines
    <3>. QED
      BY <2>0, <3>1, <3>2, SpecFields
  <2>4. ASSUME NEW f \in FinalResolution, MoveDecide(s, f) PROVE f.path # "ARBITER"
    <3> SUFFICES ASSUME f.path = "ARBITER" PROVE FALSE
      OBVIOUS
    <3>1. /\ challenges[s].dispute.exists
          /\ now < challenges[s].dispute.arbitrationDeadline
      BY <2>0, <2>4 DEF MoveDecide, DecidedBy, ArbitrationOpen, Shape
    <3>2. /\ challenges[s].dispute.arbitrationDeadline \in Nat
          /\ challenges[s].dispute.arbitrationDeadline <= s.timeoutVoidAt
      BY <1>1, <2>0, <3>1, DeadlineTypes DEF Deadlines
    <3>. QED
      BY <2>0, <3>1, <3>2, SpecFields
  <2>5. CASE Moves(s)
    BY <2>2, <2>3, <2>4, <2>5 DEF Moves, MoveOpen, MoveAccept, MoveRenonce, MoveClose,
            MoveDecide, MovePay, SameRecords
  <2>. QED
    BY <1>1, <2>1, <2>5, StepMoves DEF Idle, Touches
<1>2. Typed /\ DeadlinesBounded /\ [Next]_vars => [Step]_vars
  BY <1>1
<1>. QED
  BY <1>2, DeadlinesInductive, PTL DEF Spec, AuthorityExpires

-----------------------------------------------------------------------------
(* The aggregate.                                                          *)
(*                                                                         *)
(* The contract adds to the aggregate and subtracts from it by hand, next  *)
(* to the challenge's own liability; that the two never drift apart        *)
(* relates one counter to all challenges at once.  The sum is counted as a *)
(* set of owed units, of which a step adds or removes those of a single    *)
(* challenge.  The inductive invariant adds that only finitely many units  *)
(* are owed, without which their number means nothing.                     *)

(* The units that one challenge owes, and those that all others owe. *)
UnitsOf(s, n) == {s} \X (1..n)
OthersOwe(s)  == {u \in OwedUnits : u[1] # s}

FinitelyOwed == IsFiniteSet(OwedUnits)

(* A challenge that owes n has n units. *)
LEMMA UnitsCounted ==
    ASSUME NEW s, NEW n \in Nat
    PROVE  IsFiniteSet(UnitsOf(s, n)) /\ Cardinality(UnitsOf(s, n)) = n
<1> DEFINE f == [i \in 1..n |-> <<s, i>>]
<1>1. f \in Bijection(1..n, UnitsOf(s, n))
  <2>1. f \in [1..n -> UnitsOf(s, n)]
    BY DEF UnitsOf
  <2>2. \A i, j \in 1..n : f[i] = f[j] => i = j
    OBVIOUS
  <2>3. \A u \in UnitsOf(s, n) : \E i \in 1..n : f[i] = u
    BY DEF UnitsOf
  <2>. QED
    BY <2>1, <2>2, <2>3 DEF Bijection, Injection, IsInjective, Surjection
<1>2. ExistsBijection(1..n, UnitsOf(s, n))
  BY <1>1 DEF ExistsBijection
<1>. QED
  BY <1>2, FS_NatBijection, FS_CountingElements

(* The units of one challenge and those of the others are counted apart. *)
LEMMA CountedApart ==
    ASSUME NEW s, NEW n \in Nat, NEW A, IsFiniteSet(A), \A u \in A : u[1] # s
    PROVE  /\ IsFiniteSet(A \cup UnitsOf(s, n))
           /\ Cardinality(A \cup UnitsOf(s, n)) = Cardinality(A) + n
<1>1. A \cap UnitsOf(s, n) = {}
  BY DEF UnitsOf
<1>2. IsFiniteSet(UnitsOf(s, n)) /\ Cardinality(UnitsOf(s, n)) = n
  BY UnitsCounted
<1>3. Cardinality(A) \in Nat
  BY FS_CardinalityType
<1>4. /\ IsFiniteSet(A \cup UnitsOf(s, n))
      /\ Cardinality(A \cup UnitsOf(s, n)) =
           Cardinality(A) + Cardinality(UnitsOf(s, n)) - Cardinality(A \cap UnitsOf(s, n))
  BY <1>2, FS_Union
<1>5. Cardinality(A \cap UnitsOf(s, n)) = 0
  BY <1>1, FS_EmptySet
<1>. QED
  BY <1>2, <1>3, <1>4, <1>5

(* What a challenge owes is an amount. *)
LEMMA OutstandingType ==
    ASSUME TypeOK, NEW s \in Specs
    PROVE  Outstanding(s) \in 0..MaxUint256
<1>1. CASE challenges[s].exists
  <2>1. /\ challenges[s].outstandingLiability \in Nat
        /\ challenges[s].outstandingLiability <= MaxUint256
    BY <1>1, ChallengeInType, StoredFields
  <2>. QED
    BY <1>1, <2>1, WidthAssumption DEF Outstanding
<1>2. CASE ~challenges[s].exists
  BY <1>2, WidthAssumption DEF Outstanding
<1>. QED
  BY <1>1, <1>2

(* What is owed is owed by one challenge or by the others. *)
LEMMA OwedSplit ==
    ASSUME TypeOK, NEW s \in Specs
    PROVE  OwedUnits = OthersOwe(s) \cup UnitsOf(s, Outstanding(s))
<1>1. Outstanding(s) \in Nat /\ Outstanding(s) <= MaxUint256 /\ MaxUint256 \in Nat
  BY OutstandingType, WidthAssumption
<1>2. ASSUME NEW u \in OwedUnits PROVE u \in OthersOwe(s) \cup UnitsOf(s, Outstanding(s))
  BY <1>1 DEF OwedUnits, OthersOwe, UnitsOf
<1>3. ASSUME NEW u \in UnitsOf(s, Outstanding(s)) PROVE u \in OwedUnits
  BY <1>1, <1>3 DEF OwedUnits, UnitsOf
<1>. QED
  BY <1>2, <1>3 DEF OthersOwe

(* The same in the next state. *)
LEMMA OwedSplitNext ==
    ASSUME NEW s \in Specs
    PROVE  TypeOK' => /\ OwedUnits' = OthersOwe(s)' \cup UnitsOf(s, Outstanding(s))'
                      /\ Outstanding(s)' \in 0..MaxUint256
<1>1. TypeOK => /\ OwedUnits = OthersOwe(s) \cup UnitsOf(s, Outstanding(s))
                /\ Outstanding(s) \in 0..MaxUint256
  BY OwedSplit, OutstandingType
<1>2. (TypeOK => /\ OwedUnits = OthersOwe(s) \cup UnitsOf(s, Outstanding(s))
                 /\ Outstanding(s) \in 0..MaxUint256)'
  BY <1>1, PTL
<1>. QED
  BY <1>2

(* An idle step leaves every unit owed, and the aggregate. *)
LEMMA IdleOwesSame ==
    ASSUME Idle
    PROVE  OwedUnits' = OwedUnits /\ totalOutstandingLiability' = totalOutstandingLiability
<1>1. \A t \in Specs : Outstanding(t)' = Outstanding(t)
  BY DEF Idle, Same, Outstanding
<1>. QED
  BY <1>1 DEF Idle, OwedUnits

(* A step on one challenge leaves what the others owe. *)
LEMMA OthersOweSame ==
    ASSUME NEW s \in Specs, Touches(s)
    PROVE  OthersOwe(s)' = OthersOwe(s)
<1>1. \A t \in Specs \ {s} : Outstanding(t)' = Outstanding(t)
  BY DEF Touches, Same, Outstanding
<1>. QED
  BY <1>1 DEF OthersOwe, OwedUnits

(* A Move changes the aggregate by what it changes of its own challenge. *)
LEMMA MoveOwes ==
    ASSUME Typed, TypeOK', NEW s \in Specs, Moves(s)
    PROVE  totalOutstandingLiability' + Outstanding(s)
             = totalOutstandingLiability + Outstanding(s)'
<1>1. /\ totalOutstandingLiability \in Nat /\ Outstanding(s) \in Nat
      /\ s.stakeAmount \in Nat
  BY OutstandingType, WidthAssumption, SpecFields DEF Typed, TypeOK, Uint256
<1>2. CASE MoveOpen(s)
  BY <1>1, <1>2 DEF MoveOpen, Outstanding
<1>3. CASE \E p \in signedPermits : MoveAccept(s, p)
  BY <1>1, <1>3 DEF MoveAccept, Outstanding
<1>4. CASE \/ MoveRenonce(s)
           \/ \E st \in {"CANCELLED", "EXPIRED"} : MoveClose(s, st)
           \/ \E p \in Proposal : MovePropose(s, p)
           \/ \E d \in Dispute : MoveDispute(s, d)
           \/ \E f \in FinalResolution : MoveDecide(s, f)
  <2>1. /\ totalOutstandingLiability' = totalOutstandingLiability
        /\ Outstanding(s)' = Outstanding(s)
    BY <1>4 DEF MoveRenonce, MoveClose, MovePropose, MoveDispute, MoveDecide,
                SameMatch, SameFunds, Outstanding
  <2>. QED
    BY <1>1, <2>1
<1>5. CASE \E w \in Addresses, amount \in Nat : MovePay(s, w, amount)
  BY <1>1, <1>5 DEF MovePay, SameMatch, Outstanding
<1>. QED
  BY <1>2, <1>3, <1>4, <1>5 DEF Moves

(* Every step keeps the aggregate equal to the number of owed units. *)
LEMMA AggregateNext ==
    ASSUME Typed, [Next]_vars, FinitelyOwed, AggregateLiability
    PROVE  (FinitelyOwed /\ AggregateLiability)'
<1>1. TypeOK /\ TypeOK'
  BY StepMoves DEF Typed
<1>2. CASE Idle
  BY <1>2, IdleOwesSame DEF FinitelyOwed, AggregateLiability
<1>3. ASSUME NEW s \in Specs, Moves(s), Touches(s)
      PROVE  (FinitelyOwed /\ AggregateLiability)'
  <2>1. /\ OwedUnits = OthersOwe(s) \cup UnitsOf(s, Outstanding(s))
        /\ Outstanding(s) \in Nat
    BY <1>1, OwedSplit, OutstandingType, WidthAssumption
  <2>2. /\ OwedUnits' = OthersOwe(s) \cup UnitsOf(s, Outstanding(s)')
        /\ Outstanding(s)' \in Nat
    <3>1. /\ OwedUnits' = OthersOwe(s)' \cup UnitsOf(s, Outstanding(s))'
          /\ Outstanding(s)' \in 0..MaxUint256
      BY <1>1, OwedSplitNext
    <3>2. UnitsOf(s, Outstanding(s))' = UnitsOf(s, Outstanding(s)')
      BY DEF UnitsOf
    <3>. QED
      BY <1>3, <3>1, <3>2, OthersOweSame, WidthAssumption
  <2>3. IsFiniteSet(OthersOwe(s)) /\ \A u \in OthersOwe(s) : u[1] # s
    BY FS_Subset DEF FinitelyOwed, OthersOwe
  <2>4. Cardinality(OthersOwe(s)) \in Nat
    BY <2>3, FS_CardinalityType
  <2>5. Cardinality(OwedUnits) = Cardinality(OthersOwe(s)) + Outstanding(s)
    BY <2>1, <2>3, CountedApart
  <2>6. /\ IsFiniteSet(OwedUnits')
        /\ Cardinality(OwedUnits') = Cardinality(OthersOwe(s)) + Outstanding(s)'
    BY <2>2, <2>3, CountedApart
  <2>7. totalOutstandingLiability \in Nat /\ totalOutstandingLiability' \in Nat
    BY <1>1, WidthAssumption DEF TypeOK, Uint256
  <2>8. totalOutstandingLiability' + Outstanding(s)
          = totalOutstandingLiability + Outstanding(s)'
    BY <1>1, <1>3, MoveOwes
  <2>9. totalOutstandingLiability = Cardinality(OwedUnits)
    BY DEF AggregateLiability
  <2>10. totalOutstandingLiability' = Cardinality(OwedUnits')
    BY <2>1, <2>2, <2>4, <2>5, <2>6, <2>7, <2>8, <2>9
  <2>. QED
    BY <2>6, <2>10 DEF FinitelyOwed, AggregateLiability
<1>. QED
  BY <1>2, <1>3, StepMoves

(* At deployment nothing is owed. *)
LEMMA NothingOwedInitially == Init => FinitelyOwed /\ AggregateLiability
<1> SUFFICES ASSUME Init PROVE FinitelyOwed /\ AggregateLiability
  OBVIOUS
<1>1. \A s \in Specs : Outstanding(s) = 0
  BY DEF Init, Absent, Outstanding
<1>2. OwedUnits = {}
  BY <1>1, WidthAssumption DEF OwedUnits
<1>3. totalOutstandingLiability = 0
  BY DEF Init
<1>. QED
  BY <1>2, <1>3, FS_EmptySet DEF FinitelyOwed, AggregateLiability

(* The inductive invariant, where others need it. *)
LEMMA OwedUnitsCounted == Spec => [](FinitelyOwed /\ AggregateLiability)
<1>1. Init => Typed /\ FinitelyOwed /\ AggregateLiability
  BY TypedInit, NothingOwedInitially
<1>2. Typed /\ FinitelyOwed /\ AggregateLiability /\ [Next]_vars
        => (Typed /\ FinitelyOwed /\ AggregateLiability)'
  BY TypedNext, AggregateNext
<1>. QED
  BY <1>1, <1>2, PTL DEF Spec

(* In every reachable state the aggregate that the contract keeps by hand  *)
(* is the sum of what its challenges owe, however many challenges there    *)
(* are and whichever calls interleave.                                     *)
THEOREM AggregateIsSum == Spec => []AggregateLiability
  BY OwedUnitsCounted, PTL

-----------------------------------------------------------------------------
(* Overflow *)

(* While a challenge can still be matched, its deposit can be doubled. *)
LEMMA DepositCanDouble ==
    ASSUME Typed, NEW s \in Specs, InState(s, "OPEN"), Books(s)
    PROVE  Fits256(challenges[s].depositedAmount + s.stakeAmount)
<1>1. challenges[s].exists /\ challenges[s].state = "OPEN"
  BY DEF InState
<1>2. challenges[s].depositedAmount = s.stakeAmount
  BY <1>1 DEF Books, Unmatched
<1>3. s.stakeAmount <= MaxUint256 \div 2
  BY <1>1 DEF Typed, WellFormed, Validated, ValidExecution, StakeDoubles
<1>. QED
  BY <1>2, <1>3, SpecFields, WidthAssumption DEF Fits256

(* The deadlines that propose and dispute add up to stay before            *)
(* timeoutVoidAt, which is a timestamp.                                    *)
LEMMA DeadlinesFit ==
    ASSUME Typed, NEW s \in Specs, Deadlines(s)
    PROVE  /\ InState(s, "ACTIVE") /\ now < s.proposalDeadline => Fits64(DisputeDeadline(s))
           /\ InState(s, "PROPOSED") /\ now < challenges[s].proposal.disputeDeadline
                => Fits64(ArbitrationStart(s) + s.arbitrationWindowSeconds)
<1>1. now \in Nat /\ MaxUint64 \in Nat /\ s.timeoutVoidAt <= MaxUint64
  BY WidthAssumption, SpecFields DEF Typed, TypeOK, Uint64
<1>2. ASSUME InState(s, "ACTIVE"), now < s.proposalDeadline
      PROVE  Fits64(DisputeDeadline(s))
  <2>1. s.proposalDeadline + s.disputeWindowSeconds + s.arbitrationWindowSeconds
          <= s.timeoutVoidAt
    BY <1>2, ValidatedTimeline DEF InState
  <2>. QED
    BY <1>1, <1>2, <2>1, SpecFields DEF Fits64, DisputeDeadline
<1>3. ASSUME InState(s, "PROPOSED"), now < challenges[s].proposal.disputeDeadline
      PROVE  Fits64(ArbitrationStart(s) + s.arbitrationWindowSeconds)
  <2>1. challenges[s].exists /\ challenges[s].proposal.exists
    BY <1>3 DEF InState, Typed, WellFormed, Shape
  <2>2. /\ challenges[s].proposal.disputeDeadline \in Nat
        /\ s.sourceCorrectionCutoff < challenges[s].proposal.disputeDeadline
        /\ challenges[s].proposal.disputeDeadline + s.arbitrationWindowSeconds
             <= s.timeoutVoidAt
    BY <2>1, ChallengeInType, StoredFields, ProposalFields DEF Deadlines, Typed
  <2>3. /\ ArbitrationStart(s) \in Nat
        /\ ArbitrationStart(s) < challenges[s].proposal.disputeDeadline
    BY <1>1, <1>3, <2>2, SpecFields DEF ArbitrationStart
  <2>. QED
    BY <1>1, <2>2, <2>3, SpecFields DEF Fits64
<1>. QED
  BY <1>2, <1>3

(* No checked addition reverts a call that is otherwise in order, for      *)
(* every width of amounts and timestamps: what a challenge may still add   *)
(* was bounded when it was opened.                                         *)
THEOREM ArithmeticNeverReverts == Spec => []CheckedArithmeticNeverReverts
<1>1. Typed /\ BooksBalance /\ Solvent /\ DeadlinesBounded => CheckedArithmeticNeverReverts
  <2> SUFFICES ASSUME Typed, BooksBalance, Solvent, DeadlinesBounded, NEW s \in Specs
               PROVE  /\ InState(s, "OPEN") =>
                           Fits256(challenges[s].depositedAmount + s.stakeAmount)
                      /\ Fits256(balance[Escrow] + s.stakeAmount)
                           => Fits256(totalOutstandingLiability + s.stakeAmount)
                      /\ InState(s, "ACTIVE") /\ now < s.proposalDeadline
                           => Fits64(DisputeDeadline(s))
                      /\ InState(s, "PROPOSED") /\ now < challenges[s].proposal.disputeDeadline
                           => Fits64(ArbitrationStart(s) + s.arbitrationWindowSeconds)
    BY DEF CheckedArithmeticNeverReverts
  <2>1. Books(s) /\ Deadlines(s)
    BY DEF BooksBalance, DeadlinesBounded
  <2>2. Fits256(balance[Escrow] + s.stakeAmount)
          => Fits256(totalOutstandingLiability + s.stakeAmount)
    <3>1. /\ balance[Escrow] \in Nat /\ totalOutstandingLiability \in Nat
          /\ MaxUint256 \in Nat
      BY WidthAssumption, DeploymentAssumption DEF Typed, TypeOK, Uint256
    <3>. QED
      BY <3>1, SpecFields DEF Solvent, Fits256
  <2>. QED
    BY <2>1, <2>2, DepositCanDouble, DeadlinesFit
<1>2. TypeOK /\ WellFormed => Typed
  BY DEF Typed
<1>. QED
  BY <1>1, <1>2, TypeCorrect, StorageWellFormed, BooksAlwaysBalance, AlwaysSolvent,
     DeadlinesStayBounded, PTL

-----------------------------------------------------------------------------
(* Exits and turns.  What these actions do beyond their guards is to       *)
(* assign each variable one value, so an action can be taken just when its *)
(* guard holds; the guards are spelled out here because ENABLED is beyond  *)
(* the prover.                                                             *)

(* Some timeout, open to every caller, can be declared. *)
TimeoutOpen(s) ==
    \/ InState(s, "OPEN") /\ AcceptanceClosed(s)
    \/ InState(s, "ACTIVE") /\ now >= s.proposalDeadline
    \/ InState(s, "PROPOSED") /\ now >= challenges[s].proposal.disputeDeadline
    \/ InState(s, "DISPUTED") /\ now >= challenges[s].dispute.arbitrationDeadline

(* What _consumeAndPay and the token ask of the escrow, before and after. *)
CanPay(s, w, amount) ==
    /\ MayPay(s, w, amount)
    /\ balance[Escrow] >= amount
    /\ balance[Escrow] - amount >= totalOutstandingLiability - amount

CanCollect(w, s) ==
    \/ MayClaim(w, s) /\ CanPay(s, w, s.stakeAmount * 2)
    \/ MayRefund(w, s) /\ CanPay(s, w, s.stakeAmount)

ExitOpen(s) ==
    challenges[s].exists =>
        /\ challenges[s].state \notin Terminal /\ now >= s.timeoutVoidAt => TimeoutOpen(s)
        /\ \A w \in Addresses : Claimable(s, w) > 0 => w \in Callers /\ CanCollect(w, s)

(* From timeoutVoidAt on every unfinished challenge can time out. *)
LEMMA EveryTurnEnds ==
    ASSUME Typed, NEW s \in Specs, Deadlines(s), challenges[s].exists,
           challenges[s].state \notin Terminal, now >= s.timeoutVoidAt
    PROVE  TimeoutOpen(s)
<1>1. now \in Nat
  BY WidthAssumption DEF Typed, TypeOK, Uint64
<1>2. Shape(s) /\ challenges[s].state \in {"OPEN", "ACTIVE", "PROPOSED", "DISPUTED"}
  BY AmountTypes DEF Typed, WellFormed, LifecycleState, Terminal
<1>3. CASE challenges[s].state \in {"OPEN", "ACTIVE"}
  BY <1>1, <1>3, SpecFields, ValidatedTimeline DEF TimeoutOpen, InState, AcceptanceClosed
<1>4. CASE challenges[s].state = "PROPOSED"
  <2>1. /\ challenges[s].proposal.disputeDeadline \in Nat
        /\ challenges[s].proposal.disputeDeadline + s.arbitrationWindowSeconds <= s.timeoutVoidAt
    BY <1>2, <1>4, DeadlineTypes DEF Shape, Deadlines
  <2>. QED
    BY <1>1, <1>4, <2>1, SpecFields DEF TimeoutOpen, InState
<1>5. CASE challenges[s].state = "DISPUTED"
  <2>1. /\ challenges[s].dispute.arbitrationDeadline \in Nat
        /\ challenges[s].dispute.arbitrationDeadline <= s.timeoutVoidAt
    BY <1>2, <1>5, DeadlineTypes DEF Shape, Deadlines
  <2>. QED
    BY <1>1, <1>5, <2>1, SpecFields DEF TimeoutOpen, InState
<1>. QED
  BY <1>2, <1>3, <1>4, <1>5

(* An entitlement is claimable as a whole or was paid as a whole. *)
Whole(s) ==
    \A w \in Addresses : Claimable(s, w) > 0 => entitlements[s][w].exists /\ Paid(s, w) = 0

EntitlementsWhole == \A s \in Specs : Whole(s)

(* Before a challenge is final nobody is entitled to anything. *)
LEMMA NotYetEntitled ==
    ASSUME Typed, NEW s \in Specs, Books(s), challenges[s].exists,
           challenges[s].state \notin Terminal, NEW w \in Addresses
    PROVE  entitlements[s][w] = NoEntitlement
  BY DEF Books

(* A grant to wallets that were entitled to nothing. *)
LEMMA GrantIsWhole ==
    ASSUME TypeOK', NEW s \in Specs, NEW wallets, NEW amount, Grants(s, wallets, amount),
           \A w \in Addresses : entitlements[s][w] = NoEntitlement
    PROVE  Whole(s)'
<1> SUFFICES ASSUME NEW w \in Addresses
             PROVE  entitlements'[s][w].claimableAmount > 0
                      => entitlements'[s][w].exists /\ entitlements'[s][w].paidAmount = 0
    BY DEF Whole, Claimable, Paid
<1>1. CASE w \in wallets
  BY <1>1, NoEntitlementFields DEF Grants
<1>2. CASE w \notin wallets
  <2>1. entitlements'[s][w].claimableAmount = 0
    BY <1>2, NoEntitlementFields DEF Grants
  <2>. QED
    BY <2>1
<1>. QED
  BY <1>1, <1>2

LEMMA MoveKeepsWhole ==
    ASSUME Typed, TypeOK', NEW s \in Specs, Moves(s), Books(s), Whole(s)
    PROVE  Whole(s)'
<1>1. CASE \/ MoveOpen(s) \/ MoveRenonce(s)
           \/ \E p \in signedPermits : MoveAccept(s, p)
           \/ \E p \in Proposal : MovePropose(s, p)
           \/ \E d \in Dispute : MoveDispute(s, d)
  <2>1. entitlements'[s] = entitlements[s]
    BY <1>1 DEF MoveOpen, MoveRenonce, MoveAccept, MovePropose, MoveDispute
  <2>. QED
    BY <2>1 DEF Whole, Claimable, Paid
<1>2. CASE \E st \in {"CANCELLED", "EXPIRED"} : MoveClose(s, st)
  <2>1. PICK wallets, amount : Grants(s, wallets, amount)
    BY <1>2 DEF MoveClose
  <2>2. challenges[s].exists /\ challenges[s].state \notin Terminal
    BY <1>2 DEF MoveClose, Terminal
  <2>. QED
    BY <2>1, <2>2, NotYetEntitled, GrantIsWhole
<1>3. CASE \E f \in FinalResolution : MoveDecide(s, f)
  <2>1. PICK f \in FinalResolution : MoveDecide(s, f)
    BY <1>3
  <2>2. PICK wallets, amount : Grants(s, wallets, amount)
    BY <2>1 DEF MoveDecide
  <2>3. challenges[s].exists /\ challenges[s].state \notin Terminal
    BY <2>1 DEF MoveDecide, DecidedBy, Terminal
  <2>. QED
    BY <2>2, <2>3, NotYetEntitled, GrantIsWhole
<1>4. CASE \E w \in Addresses, amount \in Nat : MovePay(s, w, amount)
  <2>1. PICK w \in Addresses, amount \in Nat : MovePay(s, w, amount)
    BY <1>4
  <2>2. /\ entitlements'[s][w].claimableAmount = 0
        /\ \A v \in Addresses \ {w} : entitlements'[s][v] = entitlements[s][v]
    BY <2>1 DEF MovePay
  <2>. QED
    BY <2>2 DEF Whole, Claimable, Paid
<1>. QED
  BY <1>1, <1>2, <1>3, <1>4 DEF Moves

LEMMA EntitlementsStayWhole == Spec => []EntitlementsWhole
<1> DEFINE Inv == Typed /\ BooksBalance /\ EntitlementsWhole
<1>1. Init => Inv
  <2> SUFFICES ASSUME Init PROVE Inv
    OBVIOUS
  <2>1. \A s \in Specs, w \in Addresses : entitlements[s][w].claimableAmount = 0
    BY NoEntitlementFields DEF Init
  <2>. QED
    BY <2>1, TypedInit, BooksInductive DEF EntitlementsWhole, Whole, Claimable
<1>2. Inv /\ [Next]_vars => Inv'
  <2> SUFFICES ASSUME Inv, [Next]_vars PROVE Inv'
    OBVIOUS
  <2>1. ASSUME NEW t \in Specs PROVE Whole(t)'
    <3>1. CASE Same(t)
      BY <3>1 DEF Same, Whole, Claimable, Paid, EntitlementsWhole
    <3>2. CASE Moves(t)
      BY <3>2, StepMoves, MoveKeepsWhole DEF EntitlementsWhole, BooksBalance
    <3>. QED
      BY <3>1, <3>2, StepMoves DEF Idle, Touches
  <2>. QED
    BY <2>1, TypedNext, BooksInductive DEF EntitlementsWhole
<1>. QED
  BY <1>1, <1>2, PTL DEF Spec

(* No challenge owes more than all of them. *)
LEMMA OwesItsPart ==
    ASSUME TypeOK, FinitelyOwed, AggregateLiability, NEW s \in Specs
    PROVE  Outstanding(s) <= totalOutstandingLiability
<1>1. Outstanding(s) \in Nat
  BY OutstandingType, WidthAssumption
<1>2. IsFiniteSet(OthersOwe(s)) /\ \A u \in OthersOwe(s) : u[1] # s
  BY FS_Subset DEF FinitelyOwed, OthersOwe
<1>3. Cardinality(OwedUnits) = Cardinality(OthersOwe(s)) + Outstanding(s)
  <2>1. OwedUnits = OthersOwe(s) \cup UnitsOf(s, Outstanding(s))
    BY OwedSplit
  <2>2. Cardinality(OthersOwe(s) \cup UnitsOf(s, Outstanding(s)))
          = Cardinality(OthersOwe(s)) + Outstanding(s)
    BY <1>1, <1>2, CountedApart
  <2>. QED
    BY <2>1, <2>2
<1>4. Cardinality(OthersOwe(s)) \in Nat
  BY <1>2, FS_CardinalityType
<1>. QED
  BY <1>1, <1>3, <1>4 DEF AggregateLiability

(* Whoever is owed something may call for all of it, and will be paid. *)
LEMMA OwedIsCollectable ==
    ASSUME Typed, Solvent, FinitelyOwed, AggregateLiability,
           NEW s \in Specs, Books(s), PayoutOf(s), Whole(s), challenges[s].exists,
           NEW w \in Addresses, Claimable(s, w) > 0
    PROVE  w \in Callers /\ CanCollect(w, s)
<1> DEFINE c == challenges[s]
           a == s.challengerWallet
           b == c.acceptingWallet
           amount == Claimable(s, w)
<1>1. /\ Shape(s) /\ a \in Addresses /\ b \in Addresses /\ s.stakeAmount \in Nat
      /\ c.outstandingLiability \in Nat
      /\ Claimable(s, a) \in Nat /\ Claimable(s, b) \in Nat /\ amount \in Nat
  BY SpecFields, AmountTypes DEF Typed, WellFormed, Claimable
<1>2. c.state \in Terminal
  BY NotYetEntitled, NoEntitlementFields DEF Claimable
<1>3. w \in {a, b} \ {ZeroAddress}
  BY NoEntitlementFields DEF Books, Claimable
<1>4. a \notin {ZeroAddress, Escrow, Token} /\ b \notin {Escrow, Token} /\ a # b
  BY <1>1 DEF Typed, WellFormed, Validated, ValidExecution, ValidChallengerWallet,
              KernelChallengerWallet, Shape
<1>5. w \in Callers
  BY <1>3, <1>4 DEF Callers
<1>6. CanPay(s, w, amount)
  <2>1. Entitled(entitlements[s][w], amount)
    BY DEF Whole, Entitled, Claimable, Paid
  <2>2. c.outstandingLiability >= amount
    BY <1>1, <1>2, <1>3 DEF Books
  <2>3. c.outstandingLiability <= totalOutstandingLiability
    BY OwesItsPart DEF Typed, Outstanding
  <2>4. /\ balance[Escrow] \in Nat /\ totalOutstandingLiability \in Nat
        /\ balance[Escrow] >= totalOutstandingLiability
    BY WidthAssumption, DeploymentAssumption DEF Typed, TypeOK, Uint256, Solvent
  <2> HIDE DEF amount
  <2>5. totalOutstandingLiability >= amount /\ balance[Escrow] >= amount
    BY <1>1, <2>2, <2>3, <2>4
  <2>6. balance[Escrow] - amount >= totalOutstandingLiability - amount
    BY <1>1, <2>4
  <2>. QED
    BY <2>1, <2>2, <2>4, <2>5, <2>6 DEF CanPay, MayPay, SolventBefore
<1>7. Due(s, w) = amount
  BY <1>1 DEF Whole, Due
<1>8. CASE c.state \in {"CANCELLED", "EXPIRED"}
  <2>1. w = a
    BY <1>1, <1>3, <1>8 DEF Shape, Unmatched
  <2>2. amount = s.stakeAmount
    BY <1>2, <1>7, <1>8, <2>1 DEF PayoutOf, Unmatched
  <2>3. MayRefund(w, s)
    BY <1>8, <2>1 DEF MayRefund
  <2>. QED
    BY <1>5, <1>6, <2>2, <2>3 DEF CanCollect
<1>9. CASE c.state = "VOID"
  <2>1. c.finalResolution.outcome = "VOID"
    BY <1>1, <1>9 DEF Shape
  <2>2. amount = s.stakeAmount
    BY <1>2, <1>3, <1>7, <1>9, <2>1 DEF PayoutOf, Unmatched
  <2>3. MayRefund(w, s)
    BY <1>3, <1>9 DEF MayRefund, Participants
  <2>. QED
    BY <1>5, <1>6, <2>2, <2>3 DEF CanCollect
<1>10. CASE c.state \in {"RESOLVED_A", "RESOLVED_B"}
  <2> DEFINE outcome == c.finalResolution.outcome
  <2>1. outcome \in {"A", "B"}
    BY <1>1, <1>10 DEF Shape
  <2>2. amount = IF outcome = SideOf(s, w) THEN 2 * s.stakeAmount ELSE 0
    BY <1>2, <1>3, <1>7, <1>10, <2>1 DEF PayoutOf, Unmatched
  <2>3. outcome = SideOf(s, w) /\ amount = s.stakeAmount * 2
    BY <1>1, <2>2
  <2>4. w = WinnerWallet(s, outcome)
    BY <1>3, <1>4, <2>1, <2>3, WinnerTookTheSide
  <2>5. MayClaim(w, s)
    BY <1>10, <2>4 DEF MayClaim
  <2>. QED
    BY <1>5, <1>6, <2>3, <2>5 DEF CanCollect
<1>. QED
  BY <1>2, <1>8, <1>9, <1>10 DEF Terminal

(* Nobody can be locked in, whatever the timelines, stakes and             *)
(* interleavings: an unfinished challenge whose timeoutVoidAt has come can *)
(* be finished by anyone, and whoever is owed something can call for it    *)
(* and passes every check that the contract makes.                         *)
THEOREM NobodyLockedIn == Spec => [](\A s \in Specs : ExitOpen(s))
<1> DEFINE Inv == /\ Typed /\ Solvent /\ FinitelyOwed /\ AggregateLiability
                  /\ BooksBalance /\ PayoutMatchesOutcome /\ DeadlinesBounded
                  /\ EntitlementsWhole
<1>1. ASSUME Inv, NEW s \in Specs PROVE ExitOpen(s)
  <2>1. Books(s) /\ PayoutOf(s) /\ Deadlines(s) /\ Whole(s)
    BY <1>1 DEF BooksBalance, PayoutMatchesOutcome, DeadlinesBounded, EntitlementsWhole
  <2>. QED
    BY <1>1, <2>1, EveryTurnEnds, OwedIsCollectable DEF ExitOpen
<1>2. Inv => \A s \in Specs : ExitOpen(s)
  BY <1>1
<1>3. TypeOK /\ WellFormed => Typed
  BY DEF Typed
<1>. QED
  BY <1>2, <1>3, TypeCorrect, StorageWellFormed, AlwaysSolvent, OwedUnitsCounted,
     BooksAlwaysBalance, PayoutsMatchOutcomes, DeadlinesStayBounded, EntitlementsStayWhole, PTL

(* The guards of propose, dispute and arbitrate, for some arguments. *)
ProposalOpen(s) ==
    /\ ~paused /\ InState(s, "ACTIVE")
    /\ s.observationTime <= now /\ now < s.proposalDeadline
    /\ \E outcome \in Outcome, reason \in 0..255, evidenceHash \in Hashes :
          /\ evidenceHash # ZeroHash
          /\ ValidReason(outcome, reason) /\ ProposableNow(s, outcome, reason)
    /\ Fits64(DisputeDeadline(s))

DisputeOpen(s) ==
    /\ InState(s, "PROPOSED")
    /\ now < challenges[s].proposal.disputeDeadline
    /\ \E caller \in Callers, outcome \in Outcome, reason \in 0..255, evidenceHash, parent \in Hashes :
          /\ caller \in Participants(s)
          /\ outcome # challenges[s].proposal.outcome
          /\ evidenceHash # ZeroHash
          /\ ParentMatches(parent, challenges[s].proposal.evidenceHash)
          /\ ValidReason(outcome, reason)
    /\ Fits64(ArbitrationStart(s) + s.arbitrationWindowSeconds)

ArbiterMayAct(s) ==
    /\ InState(s, "DISPUTED")
    /\ ArbitrationOpen(s)
    /\ \E outcome \in Outcome, reason \in 0..255, evidenceHash, parent \in Hashes :
          /\ evidenceHash # ZeroHash
          /\ ParentMatches(parent, challenges[s].dispute.evidenceHash)
          /\ ValidReason(outcome, reason)

OneTurn(s) ==
    /\ InState(s, "OPEN") => (now < s.acceptanceDeadline <=> ~TimeoutOpen(s))
    /\ InState(s, "ACTIVE") =>
          IF paused \/ now < s.observationTime
          THEN now < s.proposalDeadline <=> ~TimeoutOpen(s)
          ELSE ProposalOpen(s) <=> ~TimeoutOpen(s)
    /\ InState(s, "PROPOSED") => (DisputeOpen(s) <=> ~TimeoutOpen(s))
    /\ InState(s, "DISPUTED") =>
          IF now < s.sourceCorrectionCutoff
          THEN ~TimeoutOpen(s)
          ELSE ArbiterMayAct(s) <=> ~TimeoutOpen(s)

(* In each unfinished state, only one deadline can time out. *)
LEMMA TimeoutOpenIn ==
    ASSUME NEW s \in Specs
    PROVE  /\ InState(s, "OPEN") => (TimeoutOpen(s) <=> now >= s.acceptanceDeadline)
           /\ InState(s, "ACTIVE") => (TimeoutOpen(s) <=> now >= s.proposalDeadline)
           /\ InState(s, "PROPOSED") =>
                (TimeoutOpen(s) <=> now >= challenges[s].proposal.disputeDeadline)
           /\ InState(s, "DISPUTED") =>
                (TimeoutOpen(s) <=> now >= challenges[s].dispute.arbitrationDeadline)
  BY DEF TimeoutOpen, InState, AcceptanceClosed

LEMMA TurnsAlternate ==
    ASSUME Typed, NEW s \in Specs, Deadlines(s)
    PROVE  OneTurn(s)
<1> DEFINE c == challenges[s]
<1>0. now \in Nat /\ Shape(s)
  BY WidthAssumption DEF Typed, TypeOK, Uint64, WellFormed
<1>1. InState(s, "OPEN") => (now < s.acceptanceDeadline <=> ~TimeoutOpen(s))
  BY <1>0, TimeoutOpenIn, SpecFields
<1>2. c.exists => s.nonce \in Hashes \ {ZeroHash}
  BY SpecFields DEF Typed, WellFormed, Validated, ValidExecution
<1>3. /\ "A" \in Outcome /\ "B" \in Outcome /\ 0 \in 0..255
      /\ ValidReason("A", 0) /\ ValidReason("B", 0)
  BY DEF Outcome, ValidReason, MaxABReason, TERMS_UNRESOLVABLE
<1>4. ASSUME InState(s, "ACTIVE"), ~paused, ~(now < s.observationTime)
      PROVE  ProposalOpen(s) <=> ~TimeoutOpen(s)
  <2>1. TimeoutOpen(s) <=> ~(now < s.proposalDeadline)
    BY <1>0, <1>4, TimeoutOpenIn, SpecFields
  <2>2. now < s.proposalDeadline => Fits64(DisputeDeadline(s))
    BY <1>4, DeadlinesFit
  <2>3. s.nonce \in Hashes \ {ZeroHash} /\ ProposableNow(s, "A", 0)
    BY <1>2, <1>4 DEF InState, ProposableNow
  <2>4. s.observationTime <= now
    BY <1>0, <1>4, SpecFields
  <2>. QED
    BY <1>3, <1>4, <2>1, <2>2, <2>3, <2>4 DEF ProposalOpen
<1>5. ASSUME InState(s, "PROPOSED")
      PROVE  DisputeOpen(s) <=> ~TimeoutOpen(s)
  <2>1. c.exists /\ c.proposal.exists
    BY <1>0, <1>5 DEF InState, Shape
  <2>2. c.proposal.disputeDeadline \in Nat /\ c.proposal.evidenceHash \in Hashes
    BY <2>1, ChallengeInType, StoredFields, ProposalFields DEF Typed
  <2>3. TimeoutOpen(s) <=> ~(now < c.proposal.disputeDeadline)
    BY <1>0, <1>5, <2>2, TimeoutOpenIn
  <2>4. now < c.proposal.disputeDeadline
          => Fits64(ArbitrationStart(s) + s.arbitrationWindowSeconds)
    BY <1>5, DeadlinesFit
  <2>5. s.challengerWallet \in Callers /\ s.challengerWallet \in Participants(s)
    BY <2>1, SpecFields DEF Typed, WellFormed, Validated, ValidExecution,
       ValidChallengerWallet, KernelChallengerWallet, Callers, Participants
  <2>6. PICK outcome \in Outcome : outcome # c.proposal.outcome /\ ValidReason(outcome, 0)
    BY <1>3
  <2>7. ParentMatches(c.proposal.evidenceHash, c.proposal.evidenceHash)
    BY DEF ParentMatches
  <2>8. s.nonce \in Hashes \ {ZeroHash}
    BY <1>2, <2>1
  <2>9. \E caller \in Callers, o \in Outcome, reason \in 0..255, evidenceHash, parent \in Hashes :
          /\ caller \in Participants(s)
          /\ o # c.proposal.outcome
          /\ evidenceHash # ZeroHash
          /\ ParentMatches(parent, c.proposal.evidenceHash)
          /\ ValidReason(o, reason)
    BY <1>3, <2>2, <2>5, <2>6, <2>7, <2>8
  <2>. QED
    BY <1>5, <2>3, <2>4, <2>9 DEF DisputeOpen
<1>6. ASSUME InState(s, "DISPUTED")
      PROVE  IF now < s.sourceCorrectionCutoff THEN ~TimeoutOpen(s)
             ELSE ArbiterMayAct(s) <=> ~TimeoutOpen(s)
  <2>1. c.exists /\ c.dispute.exists
    BY <1>0, <1>6 DEF InState, Shape
  <2>2. /\ c.dispute.arbitrationStart \in Nat /\ c.dispute.arbitrationDeadline \in Nat
        /\ c.dispute.evidenceHash \in Hashes
    BY <2>1, ChallengeInType, StoredFields, DisputeFields DEF Typed
  <2>3. TimeoutOpen(s) <=> ~(now < c.dispute.arbitrationDeadline)
    BY <1>0, <1>6, <2>2, TimeoutOpenIn
  <2>4. s.sourceCorrectionCutoff <= c.dispute.arbitrationDeadline
    BY <2>1, <2>2, SpecFields DEF Deadlines
  <2>5. \E outcome \in Outcome, reason \in 0..255, evidenceHash, parent \in Hashes :
          /\ evidenceHash # ZeroHash
          /\ ParentMatches(parent, c.dispute.evidenceHash)
          /\ ValidReason(outcome, reason)
    <3>1. ParentMatches(c.dispute.evidenceHash, c.dispute.evidenceHash)
      BY DEF ParentMatches
    <3>2. s.nonce \in Hashes \ {ZeroHash}
      BY <1>2, <2>1
    <3>. QED
      BY <1>3, <2>2, <3>1, <3>2
  <2>6. ArbiterMayAct(s) <=> ArbitrationOpen(s)
    BY <1>6, <2>5 DEF ArbiterMayAct
  <2>7. ArbitrationOpen(s) <=> s.sourceCorrectionCutoff <= now /\ now < c.dispute.arbitrationDeadline
    BY DEF ArbitrationOpen
  <2>. QED
    BY <1>0, <2>2, <2>3, <2>4, <2>6, <2>7, SpecFields
<1>7. InState(s, "ACTIVE") => (now < s.proposalDeadline <=> ~TimeoutOpen(s))
  BY <1>0, TimeoutOpenIn, SpecFields
<1>. QED
  BY <1>1, <1>4, <1>5, <1>6, <1>7 DEF OneTurn

(* An unfinished challenge is at each instant in the hands of those who    *)
(* may still act on it or of the timeout, never of both and, outside the   *)
(* two documented waits, never of neither, for every timeline.             *)
THEOREM TurnsNeverOverlap == Spec => [](\A s \in Specs : OneTurn(s))
<1>1. Typed /\ DeadlinesBounded => \A s \in Specs : OneTurn(s)
  BY TurnsAlternate DEF DeadlinesBounded
<1>2. TypeOK /\ WellFormed => Typed
  BY DEF Typed
<1>. QED
  BY <1>1, <1>2, TypeCorrect, StorageWellFormed, DeadlinesStayBounded, PTL

-----------------------------------------------------------------------------
(* The abstract escrow.  Seen through the storage, a deployment starts     *)
(* with no deal, and a Move on a challenge is one step of TwoPartyEscrow   *)
(* on that deal or leaves every deal as it was.  The mapping forgets       *)
(* roles, clocks and evidence, and the aggregate; the steps that it does   *)
(* not forget need the books (accept adds a stake to what is stored, where *)
(* the abstract deal holds exactly two) and each state's shape.            *)

Partner(s) == IF challenges[s].exists THEN challenges[s].acceptingWallet ELSE ZeroAddress

(* The deal of challenge s is as it was. *)
SameDeal(s) ==
    /\ Stage(s)' = Stage(s)
    /\ Partner(s)' = Partner(s)
    /\ Outstanding(s)' = Outstanding(s)
    /\ \A w \in Addresses : Claimable(s, w)' = Claimable(s, w) /\ Paid(s, w)' = Paid(s, w)

(* The abstract variables, as the instance TwoParty sees them. *)
SeenStage   == [s \in Specs |-> Stage(s)]
SeenPartner == [s \in Specs |-> IF challenges[s].exists
                                THEN challenges[s].acceptingWallet ELSE ZeroAddress]
SeenHeld    == [s \in Specs |-> Outstanding(s)]
SeenDue     == [s \in Specs |-> [w \in Addresses |-> Claimable(s, w)]]
SeenPaid    == [s \in Specs |-> [w \in Addresses |-> Paid(s, w)]]

-----------------------------------------------------------------------------
(* What is seen of a step. *)

(* A challenge whose storage is untouched is the same deal. *)
LEMMA SameIsSameDeal ==
    ASSUME NEW s \in Specs, Same(s)
    PROVE  SameDeal(s)
  BY DEF Same, SameDeal, Stage, Partner, Outstanding, Claimable, Paid

(* When every deal is the same, nothing is seen. *)
LEMMA NothingSeen ==
    ASSUME \A s \in Specs : SameDeal(s)
    PROVE  UNCHANGED TwoParty!vars
<1>1. SeenStage' = SeenStage
  BY DEF SameDeal, SeenStage
<1>2. SeenPartner' = SeenPartner
  BY DEF SameDeal, Partner, SeenPartner
<1>3. SeenHeld' = SeenHeld
  BY DEF SameDeal, SeenHeld
<1>4. SeenDue' = SeenDue
  BY DEF SameDeal, SeenDue
<1>5. SeenPaid' = SeenPaid
  BY DEF SameDeal, SeenPaid
<1>. QED
  BY <1>1, <1>2, <1>3, <1>4, <1>5
     DEF TwoParty!vars, SeenStage, SeenPartner, SeenHeld, SeenDue, SeenPaid

(* A step on one challenge is seen on its deal only. *)
LEMMA OneDealSeen ==
    ASSUME NEW s \in Specs, Touches(s)
    PROVE  /\ SeenStage'   = [SeenStage EXCEPT ![s] = Stage(s)']
           /\ SeenPartner' = [SeenPartner EXCEPT ![s] = Partner(s)']
           /\ SeenHeld'    = [SeenHeld EXCEPT ![s] = Outstanding(s)']
           /\ SeenDue'     = [SeenDue EXCEPT ![s] = [w \in Addresses |-> Claimable(s, w)']]
           /\ SeenPaid'    = [SeenPaid EXCEPT ![s] = [w \in Addresses |-> Paid(s, w)']]
<1>1. \A t \in Specs \ {s} : SameDeal(t)
  BY SameIsSameDeal DEF Touches
<1>2. SeenStage' = [SeenStage EXCEPT ![s] = Stage(s)']
  BY <1>1 DEF SameDeal, SeenStage
<1>3. SeenPartner' = [SeenPartner EXCEPT ![s] = Partner(s)']
  BY <1>1 DEF SameDeal, Partner, SeenPartner
<1>4. SeenHeld' = [SeenHeld EXCEPT ![s] = Outstanding(s)']
  BY <1>1 DEF SameDeal, SeenHeld
<1>5. SeenDue' = [SeenDue EXCEPT ![s] = [w \in Addresses |-> Claimable(s, w)']]
  BY <1>1 DEF SameDeal, SeenDue
<1>6. SeenPaid' = [SeenPaid EXCEPT ![s] = [w \in Addresses |-> Paid(s, w)']]
  BY <1>1 DEF SameDeal, SeenPaid
<1>. QED
  BY <1>2, <1>3, <1>4, <1>5, <1>6

(* What is stored of a challenge is what is seen of its deal. *)
LEMMA SeenNow ==
    ASSUME NEW s \in Specs
    PROVE  /\ SeenStage[s] = Stage(s) /\ SeenPartner[s] = Partner(s)
           /\ SeenHeld[s] = Outstanding(s)
           /\ SeenDue[s] = [w \in Addresses |-> Claimable(s, w)]
           /\ SeenPaid[s] = [w \in Addresses |-> Paid(s, w)]
           /\ [SeenStage EXCEPT ![s] = Stage(s)] = SeenStage
           /\ [SeenPartner EXCEPT ![s] = Partner(s)] = SeenPartner
           /\ [SeenHeld EXCEPT ![s] = Outstanding(s)] = SeenHeld
           /\ [SeenDue EXCEPT ![s] = [w \in Addresses |-> Claimable(s, w)]] = SeenDue
           /\ [SeenPaid EXCEPT ![s] = [w \in Addresses |-> Paid(s, w)]] = SeenPaid
  BY DEF SeenStage, SeenPartner, SeenHeld, SeenDue, SeenPaid, Partner

-----------------------------------------------------------------------------
(* Each Move, seen as a step of the abstract escrow. *)

(* createAndFund funds a deal. *)
LEMMA OpenIsFund ==
    ASSUME NEW s \in Specs, MoveOpen(s), Touches(s)
    PROVE  TwoParty!Fund(s)
<1>1. /\ Stage(s) = "absent" /\ Stage(s)' = "open"
      /\ Partner(s)' = Partner(s)
      /\ Outstanding(s)' = s.stakeAmount
      /\ \A w \in Addresses : Claimable(s, w)' = Claimable(s, w) /\ Paid(s, w)' = Paid(s, w)
  BY DEF MoveOpen, Stage, Partner, Outstanding, Claimable, Paid
<1>2. /\ [w \in Addresses |-> Claimable(s, w)'] = [w \in Addresses |-> Claimable(s, w)]
      /\ [w \in Addresses |-> Paid(s, w)'] = [w \in Addresses |-> Paid(s, w)]
  BY <1>1
<1>3. /\ SeenStage[s] = "absent"
      /\ SeenStage' = [SeenStage EXCEPT ![s] = "open"]
      /\ SeenHeld' = [SeenHeld EXCEPT ![s] = [t \in Specs |-> t.stakeAmount][s]]
      /\ SeenPartner' = SeenPartner /\ SeenDue' = SeenDue /\ SeenPaid' = SeenPaid
  BY <1>1, <1>2, OneDealSeen, SeenNow
<1>. QED
  BY <1>3 DEF TwoParty!Fund, SeenStage, SeenPartner, SeenHeld, SeenDue, SeenPaid

(* accept matches it. *)
LEMMA AcceptIsMatch ==
    ASSUME Typed, NEW s \in Specs, Books(s), NEW p \in signedPermits, MoveAccept(s, p),
           Touches(s)
    PROVE  \E w \in Addresses : TwoParty!Match(s, w)
<1> DEFINE w == p.acceptingWallet
<1>1. w \in Addresses /\ w # s.challengerWallet /\ w # ZeroAddress
  BY DEF MoveAccept, ValidParticipantWallet, ValidChallengerWallet, KernelChallengerWallet
<1>2. challenges[s].outstandingLiability = s.stakeAmount /\ s.stakeAmount \in Nat
  BY SpecFields DEF MoveAccept, Books, Unmatched, Terminal
<1>3. /\ Stage(s) = "open" /\ Stage(s)' = "matched"
      /\ Partner(s)' = w
      /\ Outstanding(s)' = 2 * s.stakeAmount
      /\ \A v \in Addresses : Claimable(s, v)' = Claimable(s, v) /\ Paid(s, v)' = Paid(s, v)
  BY <1>2 DEF MoveAccept, Stage, Terminal, Partner, Outstanding, Claimable, Paid
<1>4. /\ [v \in Addresses |-> Claimable(s, v)'] = [v \in Addresses |-> Claimable(s, v)]
      /\ [v \in Addresses |-> Paid(s, v)'] = [v \in Addresses |-> Paid(s, v)]
  BY <1>3
<1>5. /\ SeenStage[s] = "open"
      /\ SeenStage' = [SeenStage EXCEPT ![s] = "matched"]
      /\ SeenPartner' = [SeenPartner EXCEPT ![s] = w]
      /\ SeenHeld' = [SeenHeld EXCEPT ![s] = 2 * [t \in Specs |-> t.stakeAmount][s]]
      /\ SeenDue' = SeenDue /\ SeenPaid' = SeenPaid
  BY <1>3, <1>4, OneDealSeen, SeenNow
<1>6. w \notin {[t \in Specs |-> t.challengerWallet][s], ZeroAddress}
  BY <1>1
<1> HIDE DEF w
<1>7. TwoParty!Match(s, w)
  BY <1>5, <1>6 DEF TwoParty!Match, SeenStage, SeenPartner, SeenHeld, SeenDue, SeenPaid
<1>. QED
  BY <1>1, <1>7

(* Advancing the nonce, proposing and disputing are not seen. *)
LEMMA PreparationUnseen ==
    ASSUME NEW s \in Specs, Touches(s),
           \/ MoveRenonce(s)
           \/ \E p \in Proposal : MovePropose(s, p)
           \/ \E d \in Dispute : MoveDispute(s, d)
    PROVE  UNCHANGED TwoParty!vars
<1>1. SameDeal(s)
  BY DEF MoveRenonce, MovePropose, MoveDispute, SameMatch, SameFunds, SameDeal, Stage,
         Terminal, Partner, Outstanding, Claimable, Paid
<1>2. \A t \in Specs \ {s} : SameDeal(t)
  BY SameIsSameDeal DEF Touches
<1>. QED
  BY <1>1, <1>2, NothingSeen

(* Whoever is granted nothing is due nothing after the settlement. *)
LEMMA GrantsSeen ==
    ASSUME NEW s \in Specs, NEW wallets, NEW amount, Grants(s, wallets, amount),
           \A w \in Addresses : entitlements[s][w] = NoEntitlement
    PROVE  \A w \in Addresses :
             /\ Claimable(s, w)' = IF w \in wallets THEN amount ELSE 0
             /\ Paid(s, w)' = Paid(s, w)
  BY NoEntitlementFields DEF Grants, Claimable, Paid

(* What Settle asks, said of the storage: the deal is seen as settled by   *)
(* one of the splits.                                                      *)
LEMMA SettleSeen ==
    ASSUME NEW s \in Specs, Touches(s),
           Stage(s) \in {"open", "matched"}, Stage(s)' = "settled",
           Partner(s)' = Partner(s), Outstanding(s)' = Outstanding(s),
           \A w \in Addresses : Paid(s, w)' = Paid(s, w),
           [w \in Addresses |-> Claimable(s, w)'] \in TwoParty!Splits(s)
    PROVE  TwoParty!Settle(s)
<1>1. [w \in Addresses |-> Paid(s, w)'] = [w \in Addresses |-> Paid(s, w)]
  OBVIOUS
<1>2. /\ SeenStage[s] \in {"open", "matched"}
      /\ SeenStage' = [SeenStage EXCEPT ![s] = "settled"]
      /\ SeenDue' = [SeenDue EXCEPT ![s] = [w \in Addresses |-> Claimable(s, w)']]
      /\ SeenPartner' = SeenPartner /\ SeenHeld' = SeenHeld /\ SeenPaid' = SeenPaid
  BY <1>1, OneDealSeen, SeenNow
<1>. QED
  BY <1>2 DEF TwoParty!Settle, SeenStage, SeenPartner, SeenHeld, SeenDue, SeenPaid

(* cancelOpen and expireOpen settle it by returning the opener's stake. *)
LEMMA CloseIsSettle ==
    ASSUME Typed, NEW s \in Specs, Books(s), NEW st \in {"CANCELLED", "EXPIRED"},
           MoveClose(s, st), Touches(s)
    PROVE  TwoParty!Settle(s)
<1>1. /\ challenges[s].exists /\ challenges[s].state = "OPEN"
      /\ \A w \in Addresses : entitlements[s][w] = NoEntitlement
  BY DEF MoveClose, Books, Unmatched, Terminal, Typed, WellFormed, Shape
<1>2. /\ Stage(s) = "open" /\ Stage(s)' = "settled"
      /\ Partner(s)' = Partner(s) /\ Outstanding(s)' = Outstanding(s)
  BY DEF MoveClose, SameMatch, SameFunds, Stage, Terminal, Partner, Outstanding
<1>3. Grants(s, {s.challengerWallet}, s.stakeAmount)
  BY DEF MoveClose
<1>4. \A w \in Addresses :
         /\ Claimable(s, w)' = IF w \in {s.challengerWallet} THEN s.stakeAmount ELSE 0
         /\ Paid(s, w)' = Paid(s, w)
  BY <1>1, <1>3, GrantsSeen
<1>5. [w \in Addresses |-> Claimable(s, w)'] = TwoParty!OpenerRefund(s)
  BY <1>4, SpecFields DEF TwoParty!OpenerRefund, TwoParty!Nothing
<1>6. [w \in Addresses |-> Claimable(s, w)'] \in TwoParty!Splits(s)
  BY <1>2, <1>5 DEF TwoParty!Splits
<1>. QED
  BY <1>2, <1>4, <1>6, SettleSeen

(* The four ways to a resolution settle it by one of the other splits. *)
LEMMA DecideIsSettle ==
    ASSUME Typed, NEW s \in Specs, Books(s), NEW f \in FinalResolution,
           MoveDecide(s, f), Touches(s)
    PROVE  TwoParty!Settle(s)
<1> DEFINE a == s.challengerWallet
           b == challenges[s].acceptingWallet
<1>1. /\ challenges[s].exists /\ challenges[s].state \in {"ACTIVE", "PROPOSED", "DISPUTED"}
      /\ f.outcome \in Outcome
  BY DEF MoveDecide, DecidedBy, FinalResolution
<1>2. /\ \A w \in Addresses : entitlements[s][w] = NoEntitlement
      /\ a \in Addresses /\ b \in Addresses
  BY <1>1, ChallengeInType, StoredFields, SpecFields DEF Books, Unmatched, Terminal, Typed
<1>3. /\ Stage(s) = "matched" /\ Stage(s)' = "settled"
      /\ Partner(s) = b /\ Partner(s)' = Partner(s) /\ Outstanding(s)' = Outstanding(s)
  <2>1. FinalState(f.outcome) \in {"RESOLVED_A", "RESOLVED_B", "VOID"}
    BY DEF FinalState, ResolvedState
  <2>. QED
    BY <1>1, <2>1 DEF MoveDecide, SameMatch, SameFunds, Stage, Terminal, Partner, Outstanding
<1>4. /\ [t \in Specs |-> t.challengerWallet][s] = a
      /\ [t \in Specs |-> t.stakeAmount][s] = s.stakeAmount
      /\ SeenPartner[s] = b /\ SeenStage[s] = "matched"
  BY <1>3, SeenNow
<1>5. /\ \A w \in Addresses : Paid(s, w)' = Paid(s, w)
      /\ [w \in Addresses |-> Claimable(s, w)'] \in TwoParty!Splits(s)
  <2>1. CASE f.outcome = "VOID"
    <3>1. Grants(s, {a, b}, s.stakeAmount)
      BY <2>1 DEF MoveDecide, Participants
    <3>2. \A w \in Addresses :
             /\ Claimable(s, w)' = IF w \in {a, b} THEN s.stakeAmount ELSE 0
             /\ Paid(s, w)' = Paid(s, w)
      BY <1>2, <3>1, GrantsSeen
    <3>3. [w \in Addresses |-> Claimable(s, w)'] = TwoParty!BothRefunded(s)
      <4> HIDE DEF a, b
      <4>. QED
        BY <1>2, <1>4, <3>2 DEF TwoParty!BothRefunded, TwoParty!Nothing, SeenPartner
    <3>. QED
      BY <1>4, <3>2, <3>3 DEF TwoParty!Splits, SeenStage
  <2>2. CASE f.outcome # "VOID"
    <3>1. PICK v \in {a, b} : Grants(s, {v}, 2 * s.stakeAmount)
      BY <1>1, <2>2 DEF MoveDecide, WinnerWallet
    <3>2. \A w \in Addresses :
             /\ Claimable(s, w)' = IF w \in {v} THEN 2 * s.stakeAmount ELSE 0
             /\ Paid(s, w)' = Paid(s, w)
      BY <1>2, <3>1, GrantsSeen
    <3>3. [w \in Addresses |-> Claimable(s, w)'] = TwoParty!WinnerTakes(s, v)
      <4> HIDE DEF a, b
      <4>. QED
        BY <1>2, <1>4, <3>1, <3>2 DEF TwoParty!WinnerTakes, TwoParty!Nothing
    <3>4. TwoParty!WinnerTakes(s, v) \in TwoParty!Splits(s)
      <4> HIDE DEF a, b
      <4>. QED
        BY <1>4, <3>1 DEF TwoParty!Splits, SeenStage, SeenPartner
    <3>. QED
      BY <3>2, <3>3, <3>4
  <2>. QED
    BY <2>1, <2>2
<1>. QED
  BY <1>3, <1>5, SettleSeen

(* claimWinnings and refundPrincipal withdraw what one party is due, and   *)
(* are not seen when that is nothing.                                      *)
LEMMA PayIsWithdraw ==
    ASSUME Typed, NEW s \in Specs, NEW w \in Addresses, NEW amount \in Nat,
           MovePay(s, w, amount), Touches(s)
    PROVE  TwoParty!Withdraw(s, w) \/ UNCHANGED TwoParty!vars
<1>1. /\ Stage(s) = "settled" /\ Stage(s)' = Stage(s) /\ Partner(s)' = Partner(s)
      /\ Outstanding(s)' = Outstanding(s) - amount
      /\ Claimable(s, w) = amount /\ Claimable(s, w)' = 0
      /\ Paid(s, w) = 0 /\ Paid(s, w)' = amount
      /\ \A v \in Addresses \ {w} : /\ Claimable(s, v)' = Claimable(s, v)
                                    /\ Paid(s, v)' = Paid(s, v)
  BY DEF MovePay, SameMatch, Stage, Terminal, Partner, Outstanding, Claimable, Paid
<1>2. CASE amount = 0
  <2>1. Outstanding(s) \in Nat
    BY ChallengeInType, StoredFields DEF Typed, Outstanding
  <2>2. SameDeal(s)
    BY <1>1, <1>2, <2>1 DEF SameDeal
  <2>3. \A t \in Specs \ {s} : SameDeal(t)
    BY SameIsSameDeal DEF Touches
  <2>. QED
    BY <2>2, <2>3, NothingSeen
<1>3. CASE amount > 0
  <2>1. SeenStage[s] = "settled" /\ SeenDue[s][w] = amount
    BY <1>1, SeenNow
  <2>2. SeenStage' = SeenStage /\ SeenPartner' = SeenPartner
    <3>1. Stage(s)' = Stage(s) /\ Partner(s)' = Partner(s)
      BY <1>1
    <3>2. SeenStage' = [SeenStage EXCEPT ![s] = Stage(s)]
      BY <3>1, OneDealSeen
    <3>3. SeenPartner' = [SeenPartner EXCEPT ![s] = Partner(s)]
      BY <3>1, OneDealSeen
    <3>. QED
      BY <3>2, <3>3, SeenNow
  <2>3. SeenHeld' = [SeenHeld EXCEPT ![s] = SeenHeld[s] - SeenDue[s][w]]
    BY <1>1, <2>1, OneDealSeen, SeenNow
  <2>4. SeenDue' = [SeenDue EXCEPT ![s][w] = 0]
    <3>1. [v \in Addresses |-> Claimable(s, v)'] = [SeenDue[s] EXCEPT ![w] = 0]
      <4>1. \A v \in Addresses : Claimable(s, v)' = IF v = w THEN 0 ELSE Claimable(s, v)
        BY <1>1
      <4>. QED
        BY <4>1, SeenNow DEF SeenDue
    <3>. QED
      BY <3>1, OneDealSeen
  <2>5. SeenPaid' = [SeenPaid EXCEPT ![s][w] = SeenDue[s][w]]
    <3>1. [v \in Addresses |-> Paid(s, v)'] = [SeenPaid[s] EXCEPT ![w] = SeenDue[s][w]]
      <4>1. \A v \in Addresses : Paid(s, v)' = IF v = w THEN amount ELSE Paid(s, v)
        BY <1>1
      <4>. QED
        BY <2>1, <4>1 DEF SeenPaid
    <3>. QED
      BY <3>1, OneDealSeen
  <2>. QED
    BY <1>3, <2>1, <2>2, <2>3, <2>4, <2>5
       DEF TwoParty!Withdraw, SeenStage, SeenPartner, SeenHeld, SeenDue, SeenPaid
<1>. QED
  BY <1>2, <1>3

-----------------------------------------------------------------------------
(* The refinement *)

(* A deployment starts with no deal. *)
LEMMA InitSeen == Init => TwoParty!Init
<1> SUFFICES ASSUME Init PROVE TwoParty!Init
  OBVIOUS
<1>1. \A s \in Specs : /\ Stage(s) = "absent" /\ Partner(s) = ZeroAddress
                       /\ Outstanding(s) = 0
                       /\ \A w \in Addresses : Claimable(s, w) = 0 /\ Paid(s, w) = 0
  BY NoEntitlementFields
     DEF Init, Absent, Stage, Partner, Outstanding, Claimable, Paid
<1>2. /\ [s \in Specs |-> [w \in Addresses |-> Claimable(s, w)]]
           = [s \in Specs |-> [w \in Addresses |-> 0]]
      /\ [s \in Specs |-> [w \in Addresses |-> Paid(s, w)]]
           = [s \in Specs |-> [w \in Addresses |-> 0]]
  BY <1>1
<1>. QED
  BY <1>1, <1>2 DEF TwoParty!Init, TwoParty!Nothing, Partner

(* One Move or none is a step of the abstract escrow, or unseen. *)
LEMMA MoveSeen ==
    ASSUME Typed, BooksBalance, Idle \/ \E s \in Specs : Moves(s) /\ Touches(s)
    PROVE  [TwoParty!Next]_(TwoParty!vars)
<1>1. CASE Idle
  BY <1>1, SameIsSameDeal, NothingSeen DEF Idle
<1>2. ASSUME NEW s \in Specs, Moves(s), Touches(s)
      PROVE  [TwoParty!Next]_(TwoParty!vars)
  <2>1. Books(s)
    BY DEF BooksBalance
  <2>2. CASE MoveOpen(s)
    BY <1>2, <2>2, OpenIsFund DEF TwoParty!Next
  <2>3. CASE \E p \in signedPermits : MoveAccept(s, p)
    BY <1>2, <2>1, <2>3, AcceptIsMatch DEF TwoParty!Next
  <2>4. CASE \/ MoveRenonce(s)
             \/ \E p \in Proposal : MovePropose(s, p)
             \/ \E d \in Dispute : MoveDispute(s, d)
    BY <1>2, <2>4, PreparationUnseen
  <2>5. CASE \E st \in {"CANCELLED", "EXPIRED"} : MoveClose(s, st)
    BY <1>2, <2>1, <2>5, CloseIsSettle DEF TwoParty!Next
  <2>6. CASE \E f \in FinalResolution : MoveDecide(s, f)
    BY <1>2, <2>1, <2>6, DecideIsSettle DEF TwoParty!Next
  <2>7. CASE \E w \in Addresses, amount \in Nat : MovePay(s, w, amount)
    BY <1>2, <2>7, PayIsWithdraw DEF TwoParty!Next
  <2>. QED
    BY <1>2, <2>2, <2>3, <2>4, <2>5, <2>6, <2>7 DEF Moves
<1>. QED
  BY <1>1, <1>2

(* Every step of the contract keeps what the refinement needs of storage,  *)
(* and is a step of the abstract escrow, or unseen.                        *)
Refines == /\ Typed' /\ BooksBalance'
           /\ [TwoParty!Next]_(TwoParty!vars)

LEMMA NextRefines ==
    ASSUME Typed, BooksBalance, [Next]_vars
    PROVE  Refines
  BY StepMoves, WellFormedKept, BooksKept, MoveSeen DEF Refines

(* So are the three writes that answer a movement of tokens, whatever else *)
(* the token did, and a change of the balances alone.                      *)
LEMMA OpenRefines ==
    ASSUME Typed, BooksBalance, NEW s \in Specs, ~challenges[s].exists,
           ValidExecution(s, now), NonceUnused(s), WriteOpen(s),
           balance' \in [Addresses -> Uint256],
           balance'[Escrow] = balance[Escrow] + s.stakeAmount
    PROVE  Refines
<1>1. Moves(s) /\ Touches(s) /\ TypeOK'
  BY OpenWritten DEF Moves
<1>. QED
  BY <1>1, WellFormedKept, BooksKept, MoveSeen DEF Refines

LEMMA MatchRefines ==
    ASSUME Typed, BooksBalance, NEW s \in Specs, NEW p \in signedPermits,
           Matchable(s, p), WriteMatch(s, p), balance' \in [Addresses -> Uint256],
           balance'[Escrow] = balance[Escrow] + s.stakeAmount
    PROVE  Refines
<1>1. Moves(s) /\ Touches(s) /\ TypeOK'
  BY MatchWritten DEF Moves
<1>. QED
  BY <1>1, WellFormedKept, BooksKept, MoveSeen DEF Refines

LEMMA PaidRefines ==
    ASSUME Typed, BooksBalance, NEW s \in Specs, NEW w \in Callers, NEW amount \in Nat,
           challenges[s].exists, challenges[s].state \in Terminal,
           w \in Participants(s), MayPay(s, w, amount), WritePaid(s, w, amount),
           balance' \in [Addresses -> Uint256],
           balance'[Escrow] = balance[Escrow] - amount
    PROVE  Refines
<1>1. Moves(s) /\ Touches(s) /\ TypeOK'
  BY PaidWritten DEF Moves, Callers
<1>. QED
  BY <1>1, WellFormedKept, BooksKept, MoveSeen DEF Refines

LEMMA BalancesRefine ==
    ASSUME Typed, BooksBalance, balance' \in [Addresses -> Uint256],
           UNCHANGED <<now, contractVars, signedPermits>>
    PROVE  Refines
<1>1. TypeOK' /\ \A t \in Specs : Same(t)
  BY DEF Typed, TypeOK, contractVars, Same
<1>2. WellFormed' /\ BooksBalance'
  BY DEF Typed, WellFormed, Validated, Shape, BooksBalance, Books, Claimable, Paid, contractVars
<1>. QED
  BY <1>1, <1>2, SameIsSameDeal, NothingSeen DEF Refines, Typed

(* Whatever the contract does with money, TwoPartyEscrow allows: no deal   *)
(* is settled twice, no party is paid twice or more than it is due, and no *)
(* challenge touches another's stakes, for any number of them.             *)
THEOREM ContractImplementsEscrow == Spec => ImplementsTwoPartyEscrow
<1>1. TypeOK /\ WellFormed => Typed
  BY DEF Typed
<1>2. Typed /\ BooksBalance /\ [Next]_vars => [TwoParty!Next]_(TwoParty!vars)
  BY NextRefines DEF Refines
<1>. QED
  BY <1>1, <1>2, InitSeen, TypeCorrect, StorageWellFormed, BooksAlwaysBalance, PTL
     DEF Spec, ImplementsTwoPartyEscrow, TwoParty!Spec
=============================================================================
