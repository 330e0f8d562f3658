---------------------------- MODULE Clients_proofs ----------------------------
(***************************************************************************)
(* What the contract's read-only clients may rely on, proved for every     *)
(* deployment: the inspector, which validates what it reads from storage,  *)
(* and the projector, which rebuilds the state from the events that the    *)
(* observer delivers, some of which it loses.  And that the reference      *)
(* model, which the simulator drives, accepts what the contract does.      *)
(***************************************************************************)
EXTENDS ChallengeEscrowSafety_proofs, Inspector, ObservedEscrow, ReferencedEscrow

-----------------------------------------------------------------------------
(* What the inspector demands of one stored challenge. *)

(* Beyond the facts that the contract's own properties state, the client   *)
(* re-derives when a challenge was matched, proposed and disputed.         *)
Recorded(s) ==
    LET c == challenges[s] IN
    c.exists =>
        /\ IF c.state \in Unmatched
           THEN c.acceptedAt = 0
           ELSE c.openedAt <= c.acceptedAt /\ c.acceptedAt < s.acceptanceDeadline
        /\ ValidProposal(s, c)
        /\ c.proposal.exists => c.proposal.proposedAt <= now
        /\ ValidDispute(s, c)
        /\ c.finalResolution.exists =>
             /\ c.finalResolution.path = "PROPOSAL_TIMEOUT" => c.finalResolution.reason = 0
             /\ c.finalResolution.path = "ARBITRATION_TIMEOUT" => c.finalResolution.reason = 1

(* No entitlement exists without an amount, and none is both owed and paid. *)
Entitlements(s) == \A w \in Addresses : ValidEntitlement(entitlements[s][w])

Inspectable == \A s \in Specs : Recorded(s) /\ Entitlements(s)

(* Each Move dates what it writes. *)
LEMMA MoveKeepsRecorded ==
    ASSUME Typed, NEW s \in Specs, Moves(s), Touches(s), Recorded(s)
    PROVE  Recorded(s)'
<1> DEFINE c == challenges[s]
           q == challenges'[s]
<1>1. Shape(s) /\ Validated(s) /\ now \in Nat /\ now' = now
  BY WidthAssumption DEF Typed, TypeOK, Uint64, WellFormed, Touches
<1>2. c.exists => /\ c.openedAt \in Nat
                  /\ c.proposal.exists => c.proposal.proposedAt \in Nat
  BY ChallengeInType, StoredFields, ProposalFields DEF Typed
<1>3. CASE MoveOpen(s)
  BY <1>3 DEF MoveOpen, Recorded, Unmatched, ValidProposal, ValidDispute
<1>4. CASE \E p \in signedPermits : MoveAccept(s, p)
  <2>1. PICK p \in signedPermits : MoveAccept(s, p)
    BY <1>4
  <2>2. ~c.proposal.exists /\ ~c.dispute.exists /\ ~c.finalResolution.exists
    BY <1>1, <2>1 DEF MoveAccept, Shape
  <2>. QED
    BY <1>1, <2>1, <2>2 DEF MoveAccept, SameRecords, Recorded, Unmatched, Validated,
           ValidProposal, ValidDispute
<1>5. CASE MoveRenonce(s)
  BY <1>1, <1>5 DEF MoveRenonce, SameMatch, SameRecords, Recorded, Unmatched,
         ValidProposal, ValidDispute
<1>6. CASE \E st \in {"CANCELLED", "EXPIRED"} : MoveClose(s, st)
  BY <1>1, <1>6 DEF MoveClose, SameMatch, SameRecords, Recorded, Unmatched,
         ValidProposal, ValidDispute
<1>7. CASE \E p \in Proposal : MovePropose(s, p)
  <2>1. PICK p \in Proposal : MovePropose(s, p)
    BY <1>7
  <2>2. ~c.dispute.exists /\ ~c.finalResolution.exists
    BY <1>1, <2>1 DEF MovePropose, Shape
  <2>3. ValidProposal(s, q)
    BY <2>1 DEF MovePropose, ValidProposal, ProposableNow
  <2>. QED
    BY <1>1, <2>1, <2>2, <2>3 DEF MovePropose, SameMatch, Recorded, Unmatched, ValidDispute
<1>8. CASE \E d \in Dispute : MoveDispute(s, d)
  <2>1. PICK d \in Dispute : MoveDispute(s, d)
    BY <1>8
  <2>2. c.proposal.exists /\ ~c.finalResolution.exists
    BY <1>1, <2>1 DEF MoveDispute, Shape
  <2>3. ValidDispute(s, q)
    BY <2>1, <2>2 DEF MoveDispute, SameMatch, ValidDispute, Recorded, Participants,
           ArbitrationStart
  <2>. QED
    BY <1>1, <2>1, <2>2, <2>3 DEF MoveDispute, SameMatch, Recorded, Unmatched, ValidProposal
<1>9. CASE \E f \in FinalResolution : MoveDecide(s, f)
  <2>1. PICK f \in FinalResolution : MoveDecide(s, f)
    BY <1>9
  <2>2. c.exists /\ c.state \in {"ACTIVE", "PROPOSED", "DISPUTED"}
    BY <2>1 DEF MoveDecide, DecidedBy
  <2>3. q.state \notin Unmatched
    BY <2>1 DEF MoveDecide, FinalState, ResolvedState, Unmatched
  <2>4. /\ f.path = "PROPOSAL_TIMEOUT" => f.reason = 0
        /\ f.path = "ARBITRATION_TIMEOUT" => f.reason = 1
    BY <2>1 DEF MoveDecide, DecidedBy
  <2>. QED
    BY <1>1, <2>1, <2>2, <2>3, <2>4 DEF MoveDecide, SameMatch, Recorded, Unmatched,
           ValidProposal, ValidDispute
<1>10. CASE \E w \in Addresses, amount \in Nat : MovePay(s, w, amount)
  BY <1>1, <1>10 DEF MovePay, SameMatch, SameRecords, Recorded, ValidProposal, ValidDispute
<1>. QED
  BY <1>3, <1>4, <1>5, <1>6, <1>7, <1>8, <1>9, <1>10 DEF Moves

(* Granting a positive amount to wallets that hold nothing leaves every    *)
(* entitlement valid.                                                      *)
LEMMA GrantsValid ==
    ASSUME NEW s \in Specs, NEW wallets, NEW amount \in Nat \ {0},
           Grants(s, wallets, amount), Entitlements(s),
           \A w \in Addresses \cap wallets : entitlements[s][w] = NoEntitlement
    PROVE  Entitlements(s)'
  BY NoEntitlementFields DEF Grants, Entitlements, ValidEntitlement

(* Each Move keeps every entitlement either owed or paid. *)
LEMMA MoveKeepsEntitlements ==
    ASSUME Typed, NEW s \in Specs, Moves(s), Books(s), Entitlements(s)
    PROVE  Entitlements(s)'
<1>1. /\ s.stakeAmount \in Nat
      /\ challenges[s].exists => s.stakeAmount \in Nat \ {0} /\ 2 * s.stakeAmount \in Nat \ {0}
  BY SpecFields DEF Typed, WellFormed, Validated, ValidExecution, StakeDoubles
<1>2. CASE entitlements'[s] = entitlements[s]
  BY <1>2 DEF Entitlements
<1>3. CASE \E st \in {"CANCELLED", "EXPIRED"} : MoveClose(s, st)
  <2>1. Grants(s, {s.challengerWallet}, s.stakeAmount) /\ s.stakeAmount \in Nat \ {0}
    BY <1>1, <1>3 DEF MoveClose
  <2>2. entitlements[s][s.challengerWallet] = NoEntitlement
    BY <1>3 DEF MoveClose, Books, Terminal
  <2>. QED
    BY <2>1, <2>2, GrantsValid
<1>4. CASE \E f \in FinalResolution : MoveDecide(s, f)
  <2>1. PICK f \in FinalResolution : MoveDecide(s, f)
    BY <1>4
  <2>2. challenges[s].exists /\ challenges[s].state \in {"ACTIVE", "PROPOSED", "DISPUTED"}
    BY <2>1 DEF MoveDecide, DecidedBy
  <2>3. \A w \in Participants(s) : entitlements[s][w] = NoEntitlement
    BY <2>2 DEF Books, Terminal, Participants
  <2>4. CASE f.outcome = "VOID"
    BY <1>1, <2>1, <2>2, <2>3, <2>4, GrantsValid DEF MoveDecide
  <2>5. CASE f.outcome # "VOID"
    <3>1. WinnerWallet(s, f.outcome) \in Participants(s)
      BY DEF WinnerWallet, Participants
    <3>. QED
      BY <1>1, <2>1, <2>2, <2>3, <2>5, <3>1, GrantsValid DEF MoveDecide
  <2>. QED
    BY <2>4, <2>5
<1>5. CASE \E w \in Addresses, amount \in Nat : MovePay(s, w, amount)
  BY <1>5 DEF MovePay, Entitlements, ValidEntitlement
<1>. QED
  BY <1>2, <1>3, <1>4, <1>5 DEF Moves, MoveOpen, MoveAccept, MoveRenonce, MovePropose,
         MoveDispute

(* What the inspector demands holds initially and after every step. *)
LEMMA InspectableInductive ==
    /\ Init => Inspectable
    /\ Typed /\ BooksBalance /\ Inspectable /\ [Next]_vars => Inspectable'
<1>1. ASSUME Init, NEW s \in Specs PROVE Recorded(s) /\ Entitlements(s)
  BY <1>1, NoEntitlementFields
     DEF Init, Absent, Recorded, Entitlements, ValidEntitlement, NoEntitlement
<1>2. ASSUME Typed, BooksBalance, Inspectable, [Next]_vars, NEW t \in Specs
      PROVE  Recorded(t)' /\ Entitlements(t)'
  <2>1. Recorded(t) /\ Entitlements(t) /\ Books(t)
    BY <1>2 DEF Inspectable, BooksBalance
  <2>2. CASE Same(t) /\ now <= now'
    <3>1. now \in Nat /\ now' \in Nat
      BY <1>2, StepMoves, WidthAssumption DEF Typed, TypeOK, Uint64
    <3>2. challenges[t].exists /\ challenges[t].proposal.exists
            => challenges[t].proposal.proposedAt \in Nat
      BY <1>2, ChallengeInType, StoredFields, ProposalFields DEF Typed
    <3>3. Entitlements(t)'
      BY <2>1, <2>2 DEF Same, Entitlements
    <3>. QED
      BY <2>1, <2>2, <3>1, <3>2, <3>3 DEF Same, Recorded, ValidProposal, ValidDispute
  <2>3. CASE Moves(t) /\ Touches(t)
    BY <1>2, <2>1, <2>3, MoveKeepsRecorded, MoveKeepsEntitlements
  <2>4. now \in Nat
    BY <1>2, WidthAssumption DEF Typed, TypeOK, Uint64
  <2>. QED
    BY <1>2, <2>2, <2>3, <2>4, StepMoves DEF Idle, Touches
<1>. QED
  BY <1>1, <1>2 DEF Inspectable

(* The five role addresses of a deployment are five and none is zero. *)
LEMMA ReleaseValid == ValidRelease
<1>1. /\ ZeroAddress \notin {Escrow, Token, Resolver, Arbiter, Pauser}
      /\ Token # Escrow
      /\ Resolver \notin {Escrow, Token}
      /\ Arbiter \notin {Escrow, Token, Resolver}
      /\ Pauser \notin {Escrow, Token, Resolver, Arbiter}
  BY DeploymentAssumption DEF ValidDeployment, KernelDeployment
<1>2. IsFiniteSet({Escrow}) /\ Cardinality({Escrow}) = 1
  BY FS_Singleton
<1>3. IsFiniteSet({Escrow, Token}) /\ Cardinality({Escrow, Token}) = 2
  <2>1. {Escrow} \cup {Token} = {Escrow, Token} /\ Token \notin {Escrow}
    BY <1>1
  <2>. QED
    BY <1>2, <2>1, FS_AddElement
<1>4. /\ IsFiniteSet({Escrow, Token, Resolver})
      /\ Cardinality({Escrow, Token, Resolver}) = 3
  <2>1. /\ {Escrow, Token} \cup {Resolver} = {Escrow, Token, Resolver}
        /\ Resolver \notin {Escrow, Token}
    BY <1>1
  <2>. QED
    BY <1>3, <2>1, FS_AddElement
<1>5. /\ IsFiniteSet({Escrow, Token, Resolver, Arbiter})
      /\ Cardinality({Escrow, Token, Resolver, Arbiter}) = 4
  <2>1. /\ {Escrow, Token, Resolver} \cup {Arbiter} = {Escrow, Token, Resolver, Arbiter}
        /\ Arbiter \notin {Escrow, Token, Resolver}
    BY <1>1
  <2>. QED
    BY <1>4, <2>1, FS_AddElement
<1>6. Cardinality({Escrow, Token, Resolver, Arbiter, Pauser}) = 5
  <2>1. /\ {Escrow, Token, Resolver, Arbiter} \cup {Pauser}
               = {Escrow, Token, Resolver, Arbiter, Pauser}
        /\ Pauser \notin {Escrow, Token, Resolver, Arbiter}
    BY <1>1
  <2>. QED
    BY <1>5, <2>1, FS_AddElement
<1>. QED
  BY <1>1, <1>6 DEF ValidRelease

(* A challenge's terms are those that createAndFund validated. *)
LEMMA TermsValid ==
    ASSUME Typed, NEW s \in Specs, challenges[s].exists
    PROVE  /\ ValidTerms(s, challenges[s])
           /\ s.stakeAmount \in Nat \ {0}
           /\ s.challengerWallet \notin {ZeroAddress, Escrow, Token, Resolver, Arbiter, Pauser}
<1>1. ValidExecution(s, challenges[s].openedAt)
  BY DEF Typed, WellFormed, Validated
<1>2. s.stakeAmount \in Nat \ {0} /\ s.stakeAmount <= MaxUint256 \div 2
  BY <1>1, SpecFields DEF ValidExecution, StakeDoubles
<1>3. s.stakeAmount \in 1..(MaxUint256 \div 2)
  BY <1>2, WidthAssumption
<1>4. s.challengerWallet \notin {ZeroAddress, Escrow, Token, Resolver, Arbiter, Pauser}
  BY <1>1 DEF ValidExecution, ValidChallengerWallet, KernelChallengerWallet
<1>5. 0 \notin {s.disputeWindowSeconds, s.arbitrationWindowSeconds}
  BY <1>1, SpecFields DEF ValidExecution, OrderedTimeline
<1>. QED
  BY <1>1, <1>2, <1>3, <1>4, <1>5 DEF ValidTerms, ValidExecution, OrderedTimeline,
     BoundedTimeline

(* The final record extends the evidence in the way its path prescribes. *)
LEMMA FinalValid ==
    ASSUME Typed, NEW s \in Specs, challenges[s].exists, Lineage(s), Recorded(s)
    PROVE  ValidFinalResolution(challenges[s]) /\ RecordsMatchState(challenges[s])
<1> DEFINE c == challenges[s]
           f == c.finalResolution
<1>1. Shape(s)
  BY DEF Typed, WellFormed
<1>2. f.exists => f.path \in Path
  <2>1. f \in FinalResolution \cup {Absent}
    BY ChallengeInType, StoredFields DEF Typed
  <2>2. f.exists => f \in FinalResolution
    BY <2>1 DEF Absent
  <2>. QED
    BY <2>2 DEF FinalResolution
<1>3. f.exists /\ f.path = "UNCONTESTED" => Uncontested(c, f)
  BY DEF Lineage, Recorded, ValidProposal, Uncontested
<1>4. f.exists /\ f.path = "ARBITER" => Arbitrated(c, f)
  BY DEF Lineage, Arbitrated
<1>5. f.exists /\ f.path \in TimeoutPath => TimedOut(c, f)
  BY DEF Lineage, Recorded, TimedOut, TimeoutPath
<1>6. ValidFinalResolution(c)
  BY <1>1, <1>2, <1>3, <1>4, <1>5 DEF ValidFinalResolution, Shape, Path, TimeoutPath
<1>7. c.state \in {"RESOLVED_A", "RESOLVED_B"} => c.proposal.exists
  BY <1>1, <1>2 DEF Shape, Lineage, Path, TimeoutPath
<1>. QED
  BY <1>1, <1>6, <1>7 DEF RecordsMatchState, Shape

(* The totals that the client adds up over a challenge's two wallets. *)
LEMMA TotalsAdd ==
    ASSUME Typed, NEW s \in Specs, challenges[s].exists, Books(s)
    PROVE  LET b == challenges[s].acceptingWallet IN
           /\ b \in Addresses
           /\ TotalPaid(s, challenges[s], entitlements[s])
                = Paid(s, s.challengerWallet) + Paid(s, b)
           /\ TotalClaimable(s, challenges[s], entitlements[s])
                = Claimable(s, s.challengerWallet) + Claimable(s, b)
<1>1. /\ challenges[s].acceptingWallet \in Addresses
      /\ ZeroAddress \in Addresses /\ s.challengerWallet \in Addresses
      /\ entitlements[s][ZeroAddress] = NoEntitlement
  BY DeploymentAssumption, SpecFields, AmountTypes DEF Typed, Books
<1>2. \A w \in Addresses : Paid(s, w) \in Nat /\ Claimable(s, w) \in Nat
  BY AmountTypes DEF Typed, Paid, Claimable
<1>3. Paid(s, ZeroAddress) = 0 /\ Claimable(s, ZeroAddress) = 0
  BY <1>1, NoEntitlementFields DEF Paid, Claimable
<1>. QED
  BY <1>1, <1>2, <1>3 DEF TotalPaid, TotalClaimable, Paid, Claimable

(* What one wallet may still claim is nothing or all that it is due. *)
LEMMA ClaimableAllOrNothing ==
    ASSUME Typed, NEW s \in Specs, NEW w \in Addresses, Entitlements(s)
    PROVE  /\ Claimable(s, w) \in {0, Due(s, w)}
           /\ Claimable(s, w) \in Nat /\ Paid(s, w) \in Nat
<1>1. Claimable(s, w) \in Nat /\ Paid(s, w) \in Nat
  BY AmountTypes DEF Typed, Paid, Claimable
<1>2. 0 \in {Claimable(s, w), Paid(s, w)}
  BY DEF Entitlements, ValidEntitlement, Claimable, Paid
<1>. QED
  BY <1>1, <1>2 DEF Due

(* What is left to pay is one of the amounts the client expects. *)
LEMMA PayoutStepsExpected ==
    ASSUME Typed, NEW s \in Specs, challenges[s].exists,
           Books(s), PayoutOf(s), Entitlements(s)
    PROVE  challenges[s].outstandingLiability \in PayoutSteps(s, challenges[s])
<1> DEFINE c == challenges[s]
           a == s.challengerWallet
           b == challenges[s].acceptingWallet
<1>1. /\ Shape(s) /\ s.stakeAmount \in Nat /\ a \in Addresses /\ b \in Addresses
      /\ c.state \in LifecycleState
  BY SpecFields, AmountTypes DEF Typed, WellFormed
<1>2. /\ Claimable(s, a) \in {0, Due(s, a)} /\ Claimable(s, b) \in {0, Due(s, b)}
      /\ Claimable(s, a) \in Nat /\ Claimable(s, b) \in Nat
  BY <1>1, ClaimableAllOrNothing
<1>3. CASE c.state \in Live
  BY <1>3 DEF Live, Terminal, Books, PayoutSteps
<1>4. CASE c.state \in {"CANCELLED", "EXPIRED"}
  <2>1. /\ Due(s, a) = s.stakeAmount /\ c.depositedAmount = s.stakeAmount
        /\ c.outstandingLiability = Claimable(s, a) + Claimable(s, b)
    BY <1>4 DEF PayoutOf, Books, Terminal, Unmatched
  <2>2. Claimable(s, b) = 0
    BY <1>1, <1>4, NoEntitlementFields DEF Shape, Unmatched, Books, Claimable
  <2>. QED
    BY <1>1, <1>2, <1>4, <2>1, <2>2 DEF PayoutSteps, Live
<1>5. CASE c.state = "VOID"
  <2>1. /\ Due(s, a) = s.stakeAmount /\ Due(s, b) = s.stakeAmount
        /\ c.outstandingLiability = Claimable(s, a) + Claimable(s, b)
    BY <1>1, <1>5 DEF PayoutOf, Books, Terminal, Unmatched, Shape
  <2>2. c.outstandingLiability \in {0, s.stakeAmount, s.stakeAmount * 2}
    BY <1>1, <1>2, <2>1
  <2>. QED
    BY <1>5, <2>2 DEF PayoutSteps, Live
<1>6. CASE c.state \in {"RESOLVED_A", "RESOLVED_B"}
  <2> DEFINE o == c.finalResolution.outcome
  <2>1. o \in {"A", "B"} /\ a # b
    BY <1>1, <1>6 DEF Shape
  <2>2. /\ \A w \in {a, b} : Due(s, w) = IF o = SideOf(s, w) THEN 2 * s.stakeAmount ELSE 0
        /\ c.outstandingLiability = Claimable(s, a) + Claimable(s, b)
        /\ c.depositedAmount = 2 * s.stakeAmount
    BY <1>6, <2>1 DEF PayoutOf, Books, Terminal, Unmatched
  <2>3. \A w \in {a, b} : o = SideOf(s, w) <=> w = WinnerWallet(s, o)
    BY <2>1, WinnerTookTheSide
  <2>4. WinnerWallet(s, o) \in {a, b}
    BY DEF WinnerWallet
  <2>5. \/ Due(s, a) = 0 /\ Due(s, b) = 2 * s.stakeAmount
        \/ Due(s, b) = 0 /\ Due(s, a) = 2 * s.stakeAmount
    BY <2>1, <2>2, <2>3, <2>4
  <2>6. c.outstandingLiability \in {0, c.depositedAmount}
    BY <1>1, <1>2, <2>2, <2>5
  <2>. QED
    BY <1>6, <2>6 DEF PayoutSteps, Live
<1>. QED
  BY <1>1, <1>3, <1>4, <1>5, <1>6 DEF LifecycleState, Live

(* The aggregate is at least what any one challenge owes. *)
LEMMA AggregateCoversEach ==
    ASSUME Typed, NEW s \in Specs, challenges[s].exists, FinitelyOwed, AggregateLiability
    PROVE  totalOutstandingLiability >= challenges[s].outstandingLiability
<1>1. Outstanding(s) \in Nat /\ Outstanding(s) = challenges[s].outstandingLiability
  BY OutstandingType, WidthAssumption DEF Typed, Outstanding
<1>2. UnitsOf(s, Outstanding(s)) \subseteq OwedUnits
  BY OwedSplit DEF Typed
<1>3. /\ Cardinality(UnitsOf(s, Outstanding(s))) <= Cardinality(OwedUnits)
      /\ Cardinality(UnitsOf(s, Outstanding(s))) = Outstanding(s)
      /\ Cardinality(OwedUnits) \in Nat
  BY <1>1, <1>2, FS_Subset, FS_CardinalityType, UnitsCounted DEF FinitelyOwed
<1>. QED
  BY <1>1, <1>3 DEF AggregateLiability

(* The books that the client draws up from what it read balance. *)
LEMMA ClientBooksBalance ==
    ASSUME Typed, NEW s \in Specs, challenges[s].exists, Books(s)
    PROVE  /\ Conserved(s, challenges[s], entitlements[s])
           /\ challenges[s].outstandingLiability <= challenges[s].depositedAmount
<1> DEFINE c == challenges[s]
           a == s.challengerWallet
           b == challenges[s].acceptingWallet
<1>1. /\ a \in Addresses /\ b \in Addresses
      /\ TotalPaid(s, c, entitlements[s]) = Paid(s, a) + Paid(s, b)
      /\ TotalClaimable(s, c, entitlements[s]) = Claimable(s, a) + Claimable(s, b)
  BY SpecFields, TotalsAdd
<1>2. /\ Paid(s, a) \in Nat /\ Paid(s, b) \in Nat
      /\ Claimable(s, a) \in Nat /\ Claimable(s, b) \in Nat
      /\ c.depositedAmount \in Nat /\ c.outstandingLiability \in Nat
  BY <1>1, AmountTypes DEF Typed, Paid, Claimable
<1>3. CASE c.state \notin Terminal
  <2>1. /\ Paid(s, a) = 0 /\ Paid(s, b) = 0 /\ Claimable(s, a) = 0 /\ Claimable(s, b) = 0
        /\ c.outstandingLiability = c.depositedAmount
    BY <1>3, NoEntitlementFields DEF Books, Paid, Claimable
  <2>. QED
    BY <1>1, <1>2, <1>3, <2>1 DEF Conserved, ClaimsConserved
<1>4. CASE c.state \in Terminal
  <2>1. /\ c.outstandingLiability = Claimable(s, a) + Claimable(s, b)
        /\ c.depositedAmount = c.outstandingLiability + Paid(s, a) + Paid(s, b)
    BY <1>4 DEF Books
  <2>. QED
    BY <1>1, <1>2, <1>4, <2>1 DEF Conserved, ClaimsConserved
<1>. QED
  BY <1>3, <1>4

(* The invariant from which the inspector's whole validation follows. *)
InspectorInv ==
    /\ Typed /\ BooksBalance /\ PayoutMatchesOutcome /\ EvidenceLineage
    /\ FinitelyOwed /\ AggregateLiability /\ Inspectable

(* Each demand of the inspector, for one challenge. *)
LEMMA InspectionPasses ==
    ASSUME InspectorInv, NEW s \in Specs, challenges[s].exists
    PROVE  inspectChallenge(s, challenges[s], entitlements[s], totalOutstandingLiability)
<1> DEFINE c == challenges[s]
<1>1. /\ Typed /\ Books(s) /\ PayoutOf(s) /\ Lineage(s) /\ Recorded(s)
      /\ Entitlements(s) /\ FinitelyOwed /\ AggregateLiability
  BY DEF InspectorInv, BooksBalance, PayoutMatchesOutcome, EvidenceLineage, Inspectable
<1>2. Shape(s) /\ c.acceptingWallet \in Addresses /\ s.stakeAmount \in Nat
  BY <1>1, SpecFields, AmountTypes DEF Typed, WellFormed
<1>3. ValidMatch(s, c)
  BY <1>1, <1>2 DEF ValidMatch, Shape, Recorded, Books
<1>4. ValidChallenge(s, c)
  BY <1>1, <1>3, TermsValid, PayoutStepsExpected, FinalValid, ClientBooksBalance
     DEF ValidChallenge, Recorded
<1>5. Wallets(s, c) \cap {Escrow, Token, Resolver, Arbiter, Pauser} = {}
  BY <1>1, <1>2, TermsValid DEF Wallets, Shape
<1>6. \A w \in Wallets(s, c) : ValidEntitlement(entitlements[s][w])
  BY <1>1, <1>2, SpecFields DEF Wallets, Entitlements
<1>. QED
  BY <1>1, <1>4, <1>5, <1>6, ReleaseValid, AggregateCoversEach, ClientBooksBalance
     DEF inspectChallenge

(* The inspector refuses no reachable state of the contract, whatever the  *)
(* deployment, the executions submitted, the stakes and the interleaving:  *)
(* the client's restatement of the protocol's rules, which is far more     *)
(* detailed than what the contract checks at any one call, follows from    *)
(* what the contract checked over the challenge's whole life.              *)
THEOREM InspectorNeverRefuses == Spec => []InspectorAccepts
<1>1. InspectorInv => InspectorAccepts
  BY InspectionPasses DEF InspectorAccepts
<1>2. Init => Typed /\ FinitelyOwed /\ AggregateLiability /\ BooksBalance /\ Inspectable
  BY TypedInit, NothingOwedInitially, BooksInductive, InspectableInductive
<1>3. /\ Typed /\ FinitelyOwed /\ AggregateLiability /\ BooksBalance /\ Inspectable
      /\ [Next]_vars
      => (Typed /\ FinitelyOwed /\ AggregateLiability /\ BooksBalance /\ Inspectable)'
  BY TypedNext, AggregateNext, BooksInductive, InspectableInductive
<1>. QED
  BY <1>1, <1>2, <1>3, PayoutsMatchOutcomes, EvidenceLineageUnbroken, PTL
     DEF Spec, InspectorInv

-----------------------------------------------------------------------------
(* A read of the entitlements that is one transaction late. *)

(* A grant that the challenge just read does not know of is noticed. *)
LEMMA LateGrantRefused ==
    ASSUME Typed, TypeOK', NEW s \in Specs, challenges[s].exists,
           challenges[s].state \notin Terminal,
           NEW w \in {s.challengerWallet, challenges[s].acceptingWallet} \ {ZeroAddress},
           entitlements'[s][w].claimableAmount # 0
    PROVE  ~Conserved(s, challenges[s], entitlements'[s])
<1> DEFINE a == s.challengerWallet
           b == challenges[s].acceptingWallet
<1>1. a \in Addresses /\ b \in Addresses /\ s.challengerWallet # challenges[s].acceptingWallet
  BY SpecFields, AmountTypes DEF Typed, WellFormed, Shape
<1>2. \A v \in Addresses : entitlements'[s][v] \in Entitlement
  BY DEF TypeOK
<1>3. \A v \in Addresses : entitlements'[s][v].claimableAmount \in Nat
  BY <1>2, WidthAssumption DEF Entitlement, Uint256
<1>4. TotalClaimable(s, challenges[s], entitlements'[s]) # 0
  BY <1>1, <1>3 DEF TotalClaimable
<1>. QED
  BY <1>4 DEF Conserved, ClaimsConserved

(* A payout that the challenge just read does not know of is noticed. *)
LEMMA LatePayoutRefused ==
    ASSUME Typed, NEW s \in Specs, Books(s), Entitlements(s),
           NEW w \in Addresses, NEW amount \in Nat, MovePay(s, w, amount)
    PROVE  ~Conserved(s, challenges[s], entitlements'[s])
<1> DEFINE c == challenges[s]
           a == s.challengerWallet
           b == challenges[s].acceptingWallet
           e == entitlements'[s]
<1>1. /\ c.exists /\ w \in {a, b} \ {ZeroAddress} /\ c.state \in Terminal
      /\ entitlements[s][w].exists
      /\ entitlements[s][w].claimableAmount = amount /\ entitlements[s][w].paidAmount = 0
      /\ e[w].paidAmount = amount
      /\ \A v \in Addresses \ {w} : e[v] = entitlements[s][v]
  BY DEF MovePay, Participants
<1>2. a \in Addresses /\ b \in Addresses /\ a # b /\ a # ZeroAddress
  BY <1>1, SpecFields, AmountTypes, TermsValid DEF Typed, WellFormed, Shape
<1>3. amount # 0
  BY <1>1 DEF Entitlements, ValidEntitlement
<1>4. \A v \in Addresses : entitlements[s][v].paidAmount \in Nat
  BY AmountTypes DEF Typed
<1>5. TotalPaid(s, c, e) = TotalPaid(s, c, entitlements[s]) + amount
  <2>1. CASE w = a
    <3>1. b # ZeroAddress => e[b] = entitlements[s][b]
      BY <1>1, <1>2, <2>1
    <3>. QED
      BY <1>1, <1>2, <1>4, <2>1, <3>1 DEF TotalPaid
  <2>2. CASE w = b
    <3>1. e[a] = entitlements[s][a]
      BY <1>1, <1>2, <2>2
    <3>. QED
      BY <1>1, <1>2, <1>4, <2>2, <3>1 DEF TotalPaid
  <2>. QED
    BY <1>1, <2>1, <2>2
<1>6. /\ c.depositedAmount \in Nat /\ c.outstandingLiability \in Nat
      /\ TotalPaid(s, c, entitlements[s]) \in Nat
      /\ c.depositedAmount - TotalPaid(s, c, entitlements[s]) = c.outstandingLiability
  <2>1. Conserved(s, c, entitlements[s])
    BY <1>1, ClientBooksBalance
  <2>2. TotalPaid(s, c, entitlements[s]) = Paid(s, a) + Paid(s, b)
    BY <1>1, TotalsAdd
  <2>3. Paid(s, a) \in Nat /\ Paid(s, b) \in Nat
    BY <1>2, <1>4 DEF Paid
  <2>. QED
    BY <1>1, <2>1, <2>2, <2>3, AmountTypes DEF Typed, Conserved
<1>. QED
  BY <1>3, <1>5, <1>6 DEF Conserved

(* An inspection whose reads straddle any transaction that changed an      *)
(* entitlement is refused, for every deployment and every such transaction *)
(* - a settlement or a payout -, so that it never returns books that mix   *)
(* two blocks.                                                             *)
THEOREM StraddledInspectionRefused == Spec => SplitReadRefused
<1> DEFINE Step == \A s \in Specs :
         challenges[s].exists /\ entitlements'[s] # entitlements[s] =>
             ~inspectChallenge(s, challenges[s], entitlements'[s],
                               totalOutstandingLiability)
<1>1. ASSUME Typed, BooksBalance, Inspectable, [Next]_vars PROVE Step
  <2> SUFFICES ASSUME NEW s \in Specs, challenges[s].exists,
                      entitlements'[s] # entitlements[s]
               PROVE  ~Conserved(s, challenges[s], entitlements'[s])
    BY DEF inspectChallenge
  <2>1. TypeOK' /\ Books(s) /\ Entitlements(s) /\ Shape(s)
    BY <1>1, StepMoves DEF BooksBalance, Inspectable, Typed, WellFormed
  <2>2. s.challengerWallet \in Addresses \ {ZeroAddress} /\ s.stakeAmount \in Nat \ {0}
    BY <1>1, TermsValid, SpecFields
  <2>3. Moves(s)
    BY <1>1, StepMoves DEF Idle, Touches, Same
  <2>4. CASE \E st \in {"CANCELLED", "EXPIRED"} : MoveClose(s, st)
    <3>1. challenges[s].state \notin Terminal
      BY <2>4 DEF MoveClose, Terminal
    <3>2. entitlements'[s][s.challengerWallet].claimableAmount # 0
      BY <2>2, <2>4 DEF MoveClose, Grants
    <3>. QED
      BY <1>1, <2>1, <2>2, <3>1, <3>2, LateGrantRefused
  <2>5. CASE \E f \in FinalResolution : MoveDecide(s, f)
    <3>1. PICK f \in FinalResolution : MoveDecide(s, f)
      BY <2>5
    <3>2. challenges[s].state \in {"ACTIVE", "PROPOSED", "DISPUTED"}
      BY <3>1 DEF MoveDecide, DecidedBy
    <3>3. challenges[s].acceptingWallet \in Addresses \ {ZeroAddress}
      BY <1>1, <2>1, <3>2, AmountTypes DEF Shape, Unmatched, Typed
    <3>4. PICK w \in {s.challengerWallet, challenges[s].acceptingWallet} :
             entitlements'[s][w].claimableAmount \in {s.stakeAmount, 2 * s.stakeAmount}
      <4>1. CASE f.outcome = "VOID"
        BY <2>2, <3>1, <3>3, <4>1 DEF MoveDecide, Grants, Participants
      <4>2. CASE f.outcome # "VOID"
        <5>1. WinnerWallet(s, f.outcome) \in
                {s.challengerWallet, challenges[s].acceptingWallet}
          BY DEF WinnerWallet
        <5>. QED
          BY <2>2, <3>1, <3>3, <4>2, <5>1 DEF MoveDecide, Grants
      <4>. QED
        BY <4>1, <4>2
    <3>5. entitlements'[s][w].claimableAmount # 0
      BY <2>2, <3>4
    <3>. QED
      BY <1>1, <2>1, <2>2, <3>2, <3>3, <3>4, <3>5, LateGrantRefused DEF Terminal
  <2>6. CASE \E w \in Addresses, amount \in Nat : MovePay(s, w, amount)
    BY <1>1, <2>1, <2>6, LatePayoutRefused
  <2>. QED
    BY <2>3, <2>4, <2>5, <2>6 DEF Moves, MoveOpen, MoveAccept, MoveRenonce, MovePropose,
           MoveDispute
<1>2. Init => Typed /\ BooksBalance /\ Inspectable
  BY TypedInit, BooksInductive, InspectableInductive
<1>3. Typed /\ BooksBalance /\ Inspectable /\ [Next]_vars
        => (Typed /\ BooksBalance /\ Inspectable)'
  BY TypedNext, BooksInductive, InspectableInductive
<1>4. Typed /\ BooksBalance /\ Inspectable /\ [Next]_vars => [Step]_vars
  BY <1>1
<1>. QED
  BY <1>2, <1>3, <1>4, PTL DEF Spec, SplitReadRefused

-----------------------------------------------------------------------------
(* The event projector's view of the contract. *)

AnomalyCode == {"invalid_transition", "release_conflict", "duplicate_terminal",
                "duplicate_payout", "orphan_event"}

SeenProposal  == [exists: {TRUE}, outcome: Outcome, reason: ReasonCodes,
                  evidenceHash: Hashes, disputeDeadline: Nat]
SeenDispute   == [exists: {TRUE}, outcome: Outcome, evidenceHash: Hashes]
SeenChallenge == [state: LifecycleState, acceptanceNonce: Nat, acceptingWallet: Addresses,
                  proposal: SeenProposal \cup {Absent}, dispute: SeenDispute \cup {Absent},
                  payouts: SUBSET Addresses]

View == [failed: BOOLEAN, released: BOOLEAN, paused: BOOLEAN \cup {"unknown"},
         challenges: UNION {[D -> SeenChallenge] : D \in SUBSET Specs},
         anomalies: SUBSET AnomalyCode]

FailedView == [EmptyView EXCEPT !.failed = TRUE]

(* The fields of a view. *)
LEMMA ViewFields ==
    ASSUME NEW v \in View
    PROVE  /\ v.failed \in BOOLEAN /\ v.released \in BOOLEAN
           /\ v.paused \in BOOLEAN \cup {"unknown"}
           /\ v.anomalies \subseteq AnomalyCode
           /\ DOMAIN v.challenges \subseteq Specs
           /\ v.challenges \in [DOMAIN v.challenges -> SeenChallenge]
<1>1. PICK D \in SUBSET Specs : v.challenges \in [D -> SeenChallenge]
  BY DEF View
<1>2. DOMAIN v.challenges = D
  BY <1>1
<1>. QED
  BY <1>1, <1>2 DEF View

(* A view that no log or a refused log has left empty. *)
LEMMA EmptyViewFields ==
    /\ EmptyView \in View /\ FailedView \in View
    /\ FailedView.failed = TRUE
    /\ FailedView.anomalies = {} /\ DOMAIN FailedView.challenges = {}
    /\ ~EmptyView.failed /\ ~EmptyView.released
    /\ EmptyView.anomalies = {} /\ DOMAIN EmptyView.challenges = {}
<1>1. <<>> \in [{} -> SeenChallenge]
  OBVIOUS
<1>. QED
  BY <1>1 DEF EmptyView, FailedView, View

(* An anomaly is added and nothing else changes. *)
LEMMA AnomalyFields ==
    ASSUME NEW v \in View, NEW code \in AnomalyCode
    PROVE  /\ Anomaly(v, code) \in View
           /\ Anomaly(v, code).failed = v.failed
           /\ Anomaly(v, code).anomalies # {}
  BY DEF Anomaly, View

(* One challenge's record is replaced and nothing else changes. *)
LEMMA PutFields ==
    ASSUME NEW v \in View, NEW s \in Specs, NEW c \in SeenChallenge
    PROVE  /\ Put(v, s, c) \in View
           /\ Put(v, s, c).failed = v.failed
           /\ Put(v, s, c).released = v.released
           /\ Put(v, s, c).paused = v.paused
           /\ Put(v, s, c).anomalies = v.anomalies
           /\ DOMAIN Put(v, s, c).challenges = DOMAIN v.challenges \cup {s}
           /\ Put(v, s, c).challenges[s] = c
           /\ \A t \in DOMAIN v.challenges \ {s} :
                 Put(v, s, c).challenges[t] = v.challenges[t]
<1> DEFINE D == DOMAIN v.challenges \cup {s}
           f == [i \in D |-> IF i = s THEN c ELSE v.challenges[i]]
<1>1. D \in SUBSET Specs /\ v.challenges \in [DOMAIN v.challenges -> SeenChallenge]
  BY ViewFields
<1>2. f \in [D -> SeenChallenge]
  BY <1>1
<1>3. Put(v, s, c) = [v EXCEPT !.challenges = f]
  BY DEF Put
<1>4. /\ DOMAIN f = D /\ f[s] = c
      /\ \A t \in DOMAIN v.challenges \ {s} : f[t] = v.challenges[t]
  OBVIOUS
<1>5. f \in UNION {[E -> SeenChallenge] : E \in SUBSET Specs}
  BY <1>1, <1>2
<1> HIDE DEF f
<1>. QED
  BY <1>3, <1>4, <1>5 DEF View

-----------------------------------------------------------------------------
(* What a record may say of its challenge, logs withheld or not. *)

Matched == {"ACTIVE", "PROPOSED", "DISPUTED"}

KnownAs(q, s) ==
    /\ challenges[s].exists
    /\ q.state = "OPEN" => q.acceptingWallet = ZeroAddress
    /\ q.state \in Matched =>
         /\ challenges[s].state \notin Unmatched
         /\ q.acceptingWallet = challenges[s].acceptingWallet
    /\ q.state \in Terminal =>
         /\ q.state = challenges[s].state
         /\ q.acceptingWallet = challenges[s].acceptingWallet
    /\ q.payouts \subseteq PaidWallets(s)

(* What a record says of its challenge when no log is missing. *)
AgreesAs(q, s) ==
    LET c == challenges[s] IN
    /\ q.state = c.state
    /\ q.acceptanceNonce = c.acceptanceNonce
    /\ q.acceptingWallet = c.acceptingWallet
    /\ q.proposal.exists <=> c.proposal.exists
    /\ q.proposal.exists =>
         /\ q.proposal.outcome = c.proposal.outcome
         /\ q.proposal.reason = c.proposal.reason
         /\ q.proposal.evidenceHash = c.proposal.evidenceHash
         /\ q.proposal.disputeDeadline = c.proposal.disputeDeadline
    /\ q.dispute.exists <=> c.dispute.exists
    /\ q.dispute.exists => q.dispute.evidenceHash = c.dispute.evidenceHash
    /\ q.payouts = PaidWallets(s)

Mirror ==
    /\ view.released
    /\ view.anomalies = {}
    /\ view.paused = paused
    /\ \A s \in Specs : challenges[s].exists <=> Projected(s)
    /\ \A s \in Specs : Projected(s) => AgreesAs(Seen(s), s)

Undeceived == view.anomalies = {} => \A s \in DOMAIN view.challenges : KnownAs(Seen(s), s)

ObservedInv ==
    /\ Typed /\ BooksBalance /\ DeadlinesBounded
    /\ view \in View /\ lost \in Nat
    /\ Undeceived
    /\ lost = 0 /\ ~view.failed => Mirror

(* Whoever was paid stays paid. *)
LEMMA PaidStaysPaid ==
    ASSUME Typed, TypeOK', NEW s \in Specs, Moves(s) \/ Same(s)
    PROVE  PaidWallets(s) \subseteq PaidWallets(s)'
<1> SUFFICES ASSUME NEW w \in Addresses, entitlements[s][w].paidAmount > 0
             PROVE  entitlements'[s][w].paidAmount > 0
  BY DEF PaidWallets
<1>1. CASE entitlements'[s] = entitlements[s]
  BY <1>1
<1>2. CASE \E st \in {"CANCELLED", "EXPIRED"} : MoveClose(s, st)
  BY <1>2 DEF MoveClose, Grants
<1>3. CASE \E f \in FinalResolution : MoveDecide(s, f)
  BY <1>3 DEF MoveDecide, Grants
<1>4. CASE \E v \in Addresses, amount \in Nat : MovePay(s, v, amount)
  BY <1>4 DEF MovePay
<1>. QED
  BY <1>1, <1>2, <1>3, <1>4 DEF Same, Moves, MoveOpen, MoveAccept, MoveRenonce,
     MovePropose, MoveDispute

(* What a record says stays true, whatever the contract does next. *)
LEMMA KnownStaysKnown ==
    ASSUME Typed, TypeOK', NEW s \in Specs, Moves(s) \/ Same(s), NEW q, KnownAs(q, s)
    PROVE  KnownAs(q, s)'
<1>1. PaidWallets(s) \subseteq PaidWallets(s)'
  BY PaidStaysPaid
<1>2. challenges[s].exists
  BY DEF KnownAs
<1>3. CASE Same(s)
  BY <1>1, <1>3 DEF Same, KnownAs
<1>4. CASE Moves(s)
  <2>1. challenges'[s].exists
    BY <1>2, <1>4 DEF Moves, MoveOpen, MoveAccept, MoveRenonce, MoveClose, MovePropose,
           MoveDispute, MoveDecide, MovePay, SameMatch
  <2>2. challenges[s].state \notin Unmatched =>
          /\ challenges'[s].state \notin Unmatched
          /\ challenges'[s].acceptingWallet = challenges[s].acceptingWallet
    BY <1>2, <1>4 DEF Moves, MoveOpen, MoveAccept, MoveRenonce, MoveClose, MovePropose,
           MoveDispute, MoveDecide, MovePay, SameMatch, Unmatched, FinalState, ResolvedState
  <2>3. challenges[s].state \in Terminal =>
          /\ challenges'[s].state = challenges[s].state
          /\ challenges'[s].acceptingWallet = challenges[s].acceptingWallet
    BY <1>2, <1>4 DEF Moves, MoveOpen, MoveAccept, MoveRenonce, MoveClose, MovePropose,
           MoveDispute, MoveDecide, MovePay, SameMatch, Terminal, DecidedBy
  <2>. QED
    BY <1>1, <2>1, <2>2, <2>3 DEF KnownAs
<1>. QED
  BY <1>3, <1>4

(* All that a log of challenge s can do to the view: it is withheld, it is *)
(* refused, it contradicts the record, or it makes the record say c.       *)
Learns(s) ==
    \/ view' = view /\ lost' = lost + 1
    \/ lost' = lost /\ view' = FailedView
    \/ lost' = lost /\ ~Mirror /\ \E code \in AnomalyCode : view' = Anomaly(view, code)
    \/ lost' = lost /\ \E c \in SeenChallenge :
            /\ view' = Put(view, s, c)
            /\ view.anomalies = {} => KnownAs(c, s)'
            /\ Mirror => AgreesAs(c, s)'

(* A view that does not change keeps its word. *)
LEMMA UndeceivedKept ==
    ASSUME ObservedInv, TypeOK', view' = view, \A t \in Specs : Moves(t) \/ Same(t)
    PROVE  Undeceived'
<1> SUFFICES ASSUME view.anomalies = {}, NEW t \in DOMAIN view.challenges
             PROVE  KnownAs(Seen(t), t)'
  BY DEF Undeceived
<1>1. t \in Specs
  BY ViewFields DEF ObservedInv
<1>2. KnownAs(view.challenges[t], t)
  BY DEF ObservedInv, Undeceived, Seen
<1>3. KnownAs(view.challenges[t], t)'
  BY <1>1, <1>2, KnownStaysKnown DEF ObservedInv
<1>. QED
  BY <1>3 DEF Seen, KnownAs

(* A challenge that no step touched agrees as before. *)
LEMMA AgreesKept ==
    ASSUME NEW t \in Specs, Same(t), NEW q, AgreesAs(q, t)
    PROVE  AgreesAs(q, t)'
<1>1. PaidWallets(t)' = PaidWallets(t) /\ challenges'[t] = challenges[t]
  BY DEF Same, PaidWallets
<1>. QED
  BY <1>1 DEF AgreesAs

(* A step on one challenge, with what its log did to the view, keeps the   *)
(* invariant.                                                              *)
LEMMA LearningKeepsInv ==
    ASSUME ObservedInv, (Typed /\ BooksBalance /\ DeadlinesBounded)',
           NEW s \in Specs, Moves(s), Touches(s), paused' = paused, Learns(s)
    PROVE  ObservedInv'
<1>1. TypeOK' /\ view \in View /\ lost \in Nat /\ challenges'[s].exists
  <2>1. challenges'[s].exists
    BY DEF Moves, MoveOpen, MoveAccept, MoveRenonce, MoveClose, MovePropose,
           MoveDispute, MoveDecide, MovePay, SameMatch
  <2>. QED
    BY <2>1 DEF ObservedInv, Typed
<1>2. \A t \in Specs : t = s \/ Same(t)
  BY DEF Touches
<1>3. CASE view' = view /\ lost' = lost + 1
  <2>1. Undeceived'
    BY <1>1, <1>2, <1>3, UndeceivedKept
  <2>2. lost' \in Nat /\ lost' # 0
    BY <1>1, <1>3
  <2>. QED
    BY <1>1, <1>3, <2>1, <2>2 DEF ObservedInv
<1>4. CASE lost' = lost /\ view' = FailedView
  BY <1>1, <1>4, EmptyViewFields DEF ObservedInv, Undeceived
<1>5. CASE lost' = lost /\ ~Mirror /\ \E code \in AnomalyCode : view' = Anomaly(view, code)
  <2>1. /\ view' \in View /\ view'.failed = view.failed /\ view'.anomalies # {}
    BY <1>1, <1>5, AnomalyFields
  <2>2. lost # 0 \/ view.failed
    BY <1>5 DEF ObservedInv
  <2>. QED
    BY <1>1, <1>5, <2>1, <2>2 DEF ObservedInv, Undeceived
<1>6. CASE lost' = lost /\ \E c \in SeenChallenge :
            /\ view' = Put(view, s, c)
            /\ view.anomalies = {} => KnownAs(c, s)'
            /\ Mirror => AgreesAs(c, s)'
  <2>1. PICK c \in SeenChallenge : /\ view' = Put(view, s, c)
                                   /\ view.anomalies = {} => KnownAs(c, s)'
                                   /\ Mirror => AgreesAs(c, s)'
    BY <1>6
  <2>2. /\ view' \in View
        /\ view'.failed = view.failed /\ view'.released = view.released
        /\ view'.paused = view.paused /\ view'.anomalies = view.anomalies
        /\ DOMAIN view'.challenges = DOMAIN view.challenges \cup {s}
        /\ view'.challenges[s] = c
        /\ \A t \in DOMAIN view.challenges \ {s} : view'.challenges[t] = view.challenges[t]
    BY <1>1, <2>1, PutFields
  <2>3. Undeceived'
    <3> SUFFICES ASSUME view'.anomalies = {}, NEW t \in DOMAIN view'.challenges
                 PROVE  KnownAs(view.challenges[t], t)'
      BY DEF Undeceived, Seen
    <3>1. CASE t = s
      BY <2>1, <2>2, <3>1 DEF ObservedInv, KnownAs
    <3>2. CASE t # s
      <4>1. t \in Specs /\ t \in DOMAIN view.challenges
        BY <1>1, <2>2, <3>2, ViewFields
      <4>2. KnownAs(view.challenges[t], t)
        BY <2>2, <4>1 DEF ObservedInv, Undeceived, Seen
      <4>3. PICK r : r = view.challenges[t]
        OBVIOUS
      <4>4. KnownAs(r, t)'
        BY <1>1, <1>2, <3>2, <4>1, <4>2, <4>3, KnownStaysKnown DEF ObservedInv
      <4>. QED
        BY <2>2, <3>2, <4>1, <4>3, <4>4 DEF KnownAs
    <3>. QED
      BY <3>1, <3>2
  <2>4. lost' = 0 /\ ~view'.failed => Mirror'
    <3> SUFFICES ASSUME lost' = 0, ~view'.failed PROVE Mirror'
      OBVIOUS
    <3>1. Mirror
      BY <1>6, <2>2 DEF ObservedInv
    <3>2. \A t \in Specs : challenges'[t].exists <=> t \in DOMAIN view'.challenges
      BY <1>1, <1>2, <2>2, <3>1 DEF Mirror, Projected, Same
    <3>3. ASSUME NEW t \in Specs, t \in DOMAIN view'.challenges
          PROVE  AgreesAs(Seen(t), t)'
      <4>1. PICK r : r = view'.challenges[t]
        OBVIOUS
      <4>2. AgreesAs(r, t)'
        <5>1. CASE t = s
          BY <2>1, <2>2, <3>1, <4>1, <5>1 DEF AgreesAs
        <5>2. CASE t # s
          <6>1. AgreesAs(r, t)
            BY <2>2, <3>1, <3>3, <4>1, <5>2 DEF Mirror, Projected, Seen
          <6>. QED
            BY <1>2, <5>2, <6>1, AgreesKept
        <5>. QED
          BY <5>1, <5>2
      <4>. QED
        BY <4>1, <4>2 DEF AgreesAs, Seen
    <3>. QED
      BY <2>2, <3>1, <3>2, <3>3 DEF Mirror, Projected
  <2>. QED
    BY <1>1, <1>6, <2>2, <2>3, <2>4 DEF ObservedInv
<1>. QED
  BY <1>3, <1>4, <1>5, <1>6 DEF Learns

-----------------------------------------------------------------------------
(* What each kind of log does to the view. *)

ChallengeKind == {"AcceptanceNonceAdvanced", "ChallengeAccepted", "ChallengeCancelled",
                  "ChallengeExpired", "OutcomeProposed", "OutcomeDisputed",
                  "ChallengeResolved", "ChallengeVoided", "WinningsClaimed",
                  "PrincipalRefunded"}

(* A log of a challenge finds its record, or is an orphan. *)
LEMMA Folded ==
    ASSUME NEW v \in View, NEW e, e.kind \in ChallengeKind
    PROVE  \/ Observe(v, e) = FailedView
           \/ /\ e.id \notin DOMAIN v.challenges
              /\ Observe(v, e) = Anomaly(v, "orphan_event")
           \/ /\ e.id \in DOMAIN v.challenges
              /\ Observe(v, e) = ProjectChallengeEvent(v, e)
<1>1. Observe(v, e) = FailedView \/ Observe(v, e) = ProjectEvent(v, e)
  BY DEF Observe, FailedView
<1>2. ProjectEvent(v, e) = IF e.id \in DOMAIN v.challenges
                           THEN ProjectChallengeEvent(v, e)
                           ELSE Anomaly(v, "orphan_event")
  BY DEF ProjectEvent, ChallengeKind
<1>. QED
  BY <1>1, <1>2

(* What is learned from a log that makes a record say c when it matches,   *)
(* and is reported when it does not.                                       *)
LEMMA LogLearned ==
    ASSUME ObservedInv, NEW s \in Specs, NEW e, e.kind \in ChallengeKind, e.id = s, Emit(e),
           NEW matches \in BOOLEAN, NEW c,
           s \in DOMAIN view.challenges =>
               IF matches THEN /\ c \in SeenChallenge
                               /\ ProjectChallengeEvent(view, e) = Put(view, s, c)
               ELSE \E code \in AnomalyCode :
                       ProjectChallengeEvent(view, e) = Anomaly(view, code),
           s \in DOMAIN view.challenges /\ matches /\ view.anomalies = {} => KnownAs(c, s)',
           Mirror => s \in DOMAIN view.challenges /\ matches /\ AgreesAs(c, s)'
    PROVE  Learns(s)
<1>1. \/ view' = view /\ lost' = lost + 1
      \/ lost' = lost /\ view' = Observe(view, e)
  BY DEF Emit
<1>2. view \in View
  BY DEF ObservedInv
<1>3. CASE lost' = lost /\ view' = Observe(view, e)
  <2>1. "orphan_event" \in AnomalyCode
    BY DEF AnomalyCode
  <2>2. CASE view' = FailedView
    BY <1>3, <2>2 DEF Learns
  <2>3. CASE s \notin DOMAIN view.challenges /\ view' = Anomaly(view, "orphan_event")
    BY <1>3, <2>1, <2>3 DEF Learns
  <2>4. CASE s \in DOMAIN view.challenges /\ view' = ProjectChallengeEvent(view, e)
    BY <1>3, <2>4 DEF Learns
  <2>. QED
    BY <1>2, <1>3, <2>2, <2>3, <2>4, Folded
<1>. QED
  BY <1>1, <1>3 DEF Learns

(* The record that the projector finds, and what may be known of it. *)
LEMMA RecordFound ==
    ASSUME ObservedInv, NEW s \in Specs
    PROVE  /\ s \in DOMAIN view.challenges => view.challenges[s] \in SeenChallenge
           /\ s \in DOMAIN view.challenges /\ view.anomalies = {}
                => KnownAs(view.challenges[s], s)
           /\ Mirror /\ challenges[s].exists =>
                /\ s \in DOMAIN view.challenges
                /\ AgreesAs(view.challenges[s], s)
<1>1. view.challenges \in [DOMAIN view.challenges -> SeenChallenge]
  BY ViewFields DEF ObservedInv
<1>. QED
  BY <1>1 DEF ObservedInv, Undeceived, Mirror, Seen, Projected

(* The judgement of a log, spelled out. *)
LEMMA JudgedAs ==
    ASSUME NEW v, NEW id, NEW matches \in BOOLEAN, NEW c
    PROVE  IF matches THEN Judged(v, id, matches, c) = Put(v, id, c)
           ELSE \E code \in AnomalyCode : Judged(v, id, matches, c) = Anomaly(v, code)
  BY DEF Judged, AnomalyCode

(* Who was paid does not change unless a payout changes it. *)
LEMMA PaidSame ==
    ASSUME Typed, NEW s \in Specs,
           \/ entitlements'[s] = entitlements[s]
           \/ \E st \in {"CANCELLED", "EXPIRED"} : MoveClose(s, st)
           \/ \E f \in FinalResolution : MoveDecide(s, f)
    PROVE  PaidWallets(s)' = PaidWallets(s)
<1> SUFFICES \A w \in Addresses : entitlements'[s][w].paidAmount = entitlements[s][w].paidAmount
  BY DEF PaidWallets
<1>. QED
  BY DEF MoveClose, MoveDecide, Grants

(* accept *)
LEMMA AcceptLearned ==
    ASSUME ObservedInv, TypeOK', NEW s \in Specs, NEW p \in signedPermits,
           MoveAccept(s, p), Emit(ChallengeAccepted(s, p))
    PROVE  Learns(s)
<1>1. PICK q : q = view.challenges[s]
  OBVIOUS
<1>2. PICK e : e = ChallengeAccepted(s, p)
  OBVIOUS
<1>3. /\ e.kind = "ChallengeAccepted" /\ e.id = s /\ e.wallet = p.acceptingWallet
      /\ e.side = OtherSide(s.challengerSide) /\ e.consumedNonce = p.acceptanceNonce
      /\ e.permitExpiresAt = p.expiresAt /\ e.amount = s.stakeAmount
  BY <1>2 DEF ChallengeAccepted
<1>4. PICK matches \in BOOLEAN : matches = (q.state = "OPEN" /\ AcceptanceMatches(view, q, e))
  OBVIOUS
<1> DEFINE c == [q EXCEPT !.state = "ACTIVE", !.acceptingWallet = p.acceptingWallet]
<1>5. p.acceptingWallet \in Addresses /\ Typed /\ Validated(s) /\ Shape(s)
  BY DEF MoveAccept, ObservedInv, Typed, WellFormed
<1>6. ProjectChallengeEvent(view, e) = Judged(view, s, matches, c)
  BY <1>1, <1>3, <1>4 DEF ProjectChallengeEvent, ProjectAccepted
<1>7. q \in SeenChallenge =>
        /\ c \in SeenChallenge /\ c.state = "ACTIVE" /\ c.acceptingWallet = p.acceptingWallet
        /\ c.acceptanceNonce = q.acceptanceNonce /\ c.proposal = q.proposal
        /\ c.dispute = q.dispute /\ c.payouts = q.payouts
  BY <1>5 DEF SeenChallenge, LifecycleState
<1> HIDE DEF c
<1>8. PaidWallets(s)' = PaidWallets(s)
  BY <1>5, PaidSame DEF MoveAccept
<1>9. /\ challenges[s].exists /\ challenges'[s].exists /\ challenges'[s].state = "ACTIVE"
      /\ challenges[s].state = "OPEN"
      /\ challenges'[s].acceptingWallet = p.acceptingWallet
      /\ challenges'[s].acceptanceNonce = challenges[s].acceptanceNonce
      /\ SameRecords(challenges'[s], challenges[s])
  BY DEF MoveAccept
<1>10. s \in DOMAIN view.challenges => q \in SeenChallenge
  BY <1>1, RecordFound
<1>11. ASSUME s \in DOMAIN view.challenges, matches, view.anomalies = {}
       PROVE  KnownAs(c, s)'
  BY <1>1, <1>7, <1>8, <1>9, <1>10, <1>11, RecordFound
     DEF KnownAs, Matched, Unmatched, Terminal
<1>12. ASSUME Mirror
       PROVE  s \in DOMAIN view.challenges /\ matches /\ AgreesAs(c, s)'
  <2>1. s \in DOMAIN view.challenges /\ AgreesAs(q, s)
    BY <1>1, <1>9, <1>12, RecordFound
  <2>2. matches
    <3>1. s.createdAt <= challenges[s].openedAt /\ challenges[s].openedAt <= now
      BY <1>5, <1>9 DEF Validated, ValidExecution, OrderedTimeline
    <3>2. /\ p.acceptanceNonce = challenges[s].acceptanceNonce /\ now < p.expiresAt
          /\ p.expiresAt <= s.acceptanceDeadline /\ p.spec = s
          /\ ValidParticipantWallet(p.acceptingWallet, s.challengerWallet)
      BY DEF MoveAccept, PermitLive
    <3>3. /\ now \in Nat /\ challenges[s].openedAt \in Nat /\ p.expiresAt \in Nat
          /\ s.createdAt \in Nat
      <4>1. now \in Uint64 /\ p \in AcceptancePermit(Specs)
        BY <1>5, InputAssumption DEF Typed, TypeOK
      <4>2. p.expiresAt \in Uint64
        BY <4>1 DEF AcceptancePermit
      <4>3. challenges[s].openedAt \in Nat
        BY <1>5, <1>9, ChallengeInType, StoredFields DEF Typed
      <4>. QED
        BY <4>1, <4>2, <4>3, SpecFields, WidthAssumption DEF Uint64
    <3>4. s.createdAt < p.expiresAt
      BY <3>1, <3>2, <3>3
    <3>5. AcceptanceMatches(view, q, e)
      BY <1>3, <2>1, <3>2, <3>4 DEF AcceptanceMatches, AgreesAs, OverlapsReleaseBoundary,
         ValidParticipantWallet, ValidChallengerWallet, KernelChallengerWallet
    <3>. QED
      BY <1>4, <1>9, <2>1, <3>5 DEF AgreesAs
  <2>3. AgreesAs(c, s)'
    BY <1>7, <1>8, <1>9, <1>10, <2>1 DEF AgreesAs, SameRecords
  <2>. QED
    BY <2>1, <2>2, <2>3
<1>13. PICK r : r = c
  OBVIOUS
<1>14. s \in DOMAIN view.challenges =>
         IF matches THEN r \in SeenChallenge /\ ProjectChallengeEvent(view, e) = Put(view, s, r)
         ELSE \E code \in AnomalyCode : ProjectChallengeEvent(view, e) = Anomaly(view, code)
  BY <1>6, <1>7, <1>10, <1>13, JudgedAs
<1>. QED
  BY <1>2, <1>3, <1>11, <1>12, <1>13, <1>14, LogLearned DEF ChallengeKind

(* advanceAcceptanceNonce *)
LEMMA RenonceLearned ==
    ASSUME ObservedInv, TypeOK', NEW s \in Specs, MoveRenonce(s),
           Emit(AcceptanceNonceAdvanced(s))
    PROVE  Learns(s)
<1>1. PICK q : q = view.challenges[s]
  OBVIOUS
<1>2. PICK e : e = AcceptanceNonceAdvanced(s)
  OBVIOUS
<1>3. /\ e.kind = "AcceptanceNonceAdvanced" /\ e.id = s /\ e.wallet = s.challengerWallet
      /\ e.previousNonce = challenges[s].acceptanceNonce
      /\ e.newNonce = challenges[s].acceptanceNonce + 1
  BY <1>2 DEF AcceptanceNonceAdvanced
<1>4. PICK matches \in BOOLEAN :
         matches = (/\ q.state = "OPEN"
                    /\ e.wallet = s.challengerWallet
                    /\ e.previousNonce = q.acceptanceNonce)
  OBVIOUS
<1> DEFINE c == [q EXCEPT !.acceptanceNonce = e.newNonce]
<1>5. Typed /\ e.newNonce \in Nat
  <2>1. challenges[s].acceptanceNonce \in Nat
    BY ChallengeInType, StoredFields DEF MoveRenonce, ObservedInv, Typed
  <2>. QED
    BY <1>3, <2>1 DEF ObservedInv
<1>6. ProjectChallengeEvent(view, e) = Judged(view, s, matches, c)
  BY <1>1, <1>3, <1>4 DEF ProjectChallengeEvent, ProjectNonce
<1>7. q \in SeenChallenge =>
        /\ c \in SeenChallenge /\ c.acceptanceNonce = e.newNonce
        /\ c.state = q.state /\ c.acceptingWallet = q.acceptingWallet
        /\ c.proposal = q.proposal /\ c.dispute = q.dispute /\ c.payouts = q.payouts
  BY <1>5 DEF SeenChallenge
<1> HIDE DEF c
<1>8. PaidWallets(s)' = PaidWallets(s)
  BY <1>5, PaidSame DEF MoveRenonce
<1>9. /\ challenges[s].exists /\ challenges[s].state = "OPEN" /\ challenges'[s].state = "OPEN"
      /\ challenges'[s].acceptanceNonce = e.newNonce
      /\ SameMatch(challenges'[s], challenges[s]) /\ SameRecords(challenges'[s], challenges[s])
  BY <1>3 DEF MoveRenonce
<1>10. s \in DOMAIN view.challenges => q \in SeenChallenge
  BY <1>1, RecordFound
<1>11. ASSUME s \in DOMAIN view.challenges, matches, view.anomalies = {}
       PROVE  KnownAs(c, s)'
  BY <1>1, <1>4, <1>7, <1>8, <1>9, <1>10, <1>11, RecordFound
     DEF KnownAs, Matched, Terminal, SameMatch
<1>12. ASSUME Mirror
       PROVE  s \in DOMAIN view.challenges /\ matches /\ AgreesAs(c, s)'
  <2>1. s \in DOMAIN view.challenges /\ AgreesAs(q, s)
    BY <1>1, <1>9, <1>12, RecordFound
  <2>2. matches
    BY <1>3, <1>4, <1>9, <2>1 DEF AgreesAs
  <2>3. AgreesAs(c, s)'
    BY <1>7, <1>8, <1>9, <1>10, <2>1 DEF AgreesAs, SameRecords, SameMatch
  <2>. QED
    BY <2>1, <2>2, <2>3
<1>13. s \in DOMAIN view.challenges =>
         IF matches THEN c \in SeenChallenge /\ ProjectChallengeEvent(view, e) = Put(view, s, c)
         ELSE \E code \in AnomalyCode : ProjectChallengeEvent(view, e) = Anomaly(view, code)
  BY <1>6, <1>7, <1>10, JudgedAs
<1>. QED
  BY <1>2, <1>3, <1>11, <1>12, <1>13, LogLearned DEF ChallengeKind

(* cancelOpen and expireOpen *)
LEMMA CloseLearned ==
    ASSUME ObservedInv, TypeOK', NEW s \in Specs, NEW st \in {"CANCELLED", "EXPIRED"},
           MoveClose(s, st), NEW kind, Emit(OpenRefund(kind, s)),
           kind = IF st = "CANCELLED" THEN "ChallengeCancelled" ELSE "ChallengeExpired"
    PROVE  Learns(s)
<1>1. PICK q : q = view.challenges[s]
  OBVIOUS
<1>2. PICK e : e = OpenRefund(kind, s)
  OBVIOUS
<1>3. /\ e.kind \in {"ChallengeCancelled", "ChallengeExpired"} /\ e.id = s
      /\ e.wallet = s.challengerWallet /\ e.amount = s.stakeAmount
      /\ st = IF e.kind = "ChallengeCancelled" THEN "CANCELLED" ELSE "EXPIRED"
  BY <1>2 DEF OpenRefund
<1>4. PICK matches \in BOOLEAN : matches = (q.state = "OPEN")
  OBVIOUS
<1> DEFINE c == [q EXCEPT !.state = st]
<1>5. Typed /\ Shape(s) /\ st \in LifecycleState
  BY DEF ObservedInv, Typed, WellFormed, LifecycleState
<1>6. ProjectChallengeEvent(view, e) = Judged(view, s, matches, c)
  BY <1>1, <1>3, <1>4 DEF ProjectChallengeEvent, ProjectOpenRefund
<1>7. q \in SeenChallenge =>
        /\ c \in SeenChallenge /\ c.state = st
        /\ c.acceptanceNonce = q.acceptanceNonce /\ c.acceptingWallet = q.acceptingWallet
        /\ c.proposal = q.proposal /\ c.dispute = q.dispute /\ c.payouts = q.payouts
  BY <1>5 DEF SeenChallenge
<1> HIDE DEF c
<1>8. PaidWallets(s)' = PaidWallets(s)
  BY <1>5, PaidSame
<1>9. /\ challenges[s].exists /\ challenges[s].state = "OPEN" /\ challenges'[s].state = st
      /\ challenges[s].acceptingWallet = ZeroAddress
      /\ challenges'[s].acceptanceNonce = challenges[s].acceptanceNonce
      /\ SameMatch(challenges'[s], challenges[s]) /\ SameRecords(challenges'[s], challenges[s])
  BY <1>5 DEF MoveClose, Shape, Unmatched
<1>10. s \in DOMAIN view.challenges => q \in SeenChallenge
  BY <1>1, RecordFound
<1>11. ASSUME s \in DOMAIN view.challenges, matches, view.anomalies = {}
       PROVE  KnownAs(c, s)'
  BY <1>1, <1>4, <1>7, <1>8, <1>9, <1>10, <1>11, RecordFound
     DEF KnownAs, Matched, SameMatch
<1>12. ASSUME Mirror
       PROVE  s \in DOMAIN view.challenges /\ matches /\ AgreesAs(c, s)'
  <2>1. s \in DOMAIN view.challenges /\ AgreesAs(q, s)
    BY <1>1, <1>9, <1>12, RecordFound
  <2>2. matches
    BY <1>4, <1>9, <2>1 DEF AgreesAs
  <2>3. AgreesAs(c, s)'
    BY <1>7, <1>8, <1>9, <1>10, <2>1 DEF AgreesAs, SameRecords, SameMatch
  <2>. QED
    BY <2>1, <2>2, <2>3
<1>13. s \in DOMAIN view.challenges =>
         IF matches THEN c \in SeenChallenge /\ ProjectChallengeEvent(view, e) = Put(view, s, c)
         ELSE \E code \in AnomalyCode : ProjectChallengeEvent(view, e) = Anomaly(view, code)
  BY <1>6, <1>7, <1>10, JudgedAs
<1>. QED
  BY <1>2, <1>3, <1>11, <1>12, <1>13, LogLearned DEF ChallengeKind

(* propose *)
LEMMA ProposalLearned ==
    ASSUME ObservedInv, TypeOK', NEW s \in Specs, NEW p \in Proposal, MovePropose(s, p),
           Emit(OutcomeProposed(s, p.outcome, p.reason, p.evidenceHash))
    PROVE  Learns(s)
<1>1. PICK q : q = view.challenges[s]
  OBVIOUS
<1>2. PICK e : e = OutcomeProposed(s, p.outcome, p.reason, p.evidenceHash)
  OBVIOUS
<1>3. /\ e.kind = "OutcomeProposed" /\ e.id = s /\ e.resolver = Resolver
      /\ e.outcome = p.outcome /\ e.reason = p.reason /\ e.evidenceHash = p.evidenceHash
      /\ e.disputeDeadline = p.disputeDeadline
      /\ p.disputeDeadline = now + s.disputeWindowSeconds
  BY <1>2 DEF OutcomeProposed, MovePropose, DisputeDeadline
<1>4. PICK matches \in BOOLEAN :
         matches = (/\ q.state = "ACTIVE"
                    /\ view.released => e.resolver = Resolver
                    /\ ProposalSchedule(s, e))
  OBVIOUS
<1> DEFINE r == [exists |-> TRUE, outcome |-> e.outcome, reason |-> e.reason,
                 evidenceHash |-> e.evidenceHash, disputeDeadline |-> e.disputeDeadline]
           c == [q EXCEPT !.state = "PROPOSED", !.proposal = r]
<1>5. Typed /\ p.exists /\ p \in Proposal \cup {Absent} /\ now \in Nat
  BY WidthAssumption DEF ObservedInv, MovePropose, Typed, TypeOK, Uint64
<1>6. ProjectChallengeEvent(view, e) = Judged(view, s, matches, c)
  BY <1>1, <1>3, <1>4 DEF ProjectChallengeEvent, ProjectProposed
<1>7. /\ r \in SeenProposal /\ r.exists /\ r.outcome = p.outcome /\ r.reason = p.reason
      /\ r.evidenceHash = p.evidenceHash /\ r.disputeDeadline = p.disputeDeadline
  BY <1>3, <1>5, ProposalFields DEF SeenProposal
<1> HIDE DEF r
<1>8. q \in SeenChallenge =>
        /\ c \in SeenChallenge /\ c.state = "PROPOSED" /\ c.proposal = r
        /\ c.acceptanceNonce = q.acceptanceNonce /\ c.acceptingWallet = q.acceptingWallet
        /\ c.dispute = q.dispute /\ c.payouts = q.payouts
  BY <1>7 DEF SeenChallenge, LifecycleState
<1> HIDE DEF c
<1>9. PaidWallets(s)' = PaidWallets(s)
  BY <1>5, PaidSame DEF MovePropose
<1>10. /\ challenges[s].exists /\ challenges[s].state = "ACTIVE"
       /\ challenges'[s].state = "PROPOSED" /\ challenges'[s].proposal = p
       /\ challenges'[s].dispute = challenges[s].dispute
       /\ challenges'[s].acceptanceNonce = challenges[s].acceptanceNonce
       /\ SameMatch(challenges'[s], challenges[s])
  BY DEF MovePropose
<1>11. s \in DOMAIN view.challenges => q \in SeenChallenge
  BY <1>1, RecordFound
<1>12. ASSUME s \in DOMAIN view.challenges, matches, view.anomalies = {}
       PROVE  KnownAs(c, s)'
  BY <1>1, <1>4, <1>8, <1>9, <1>10, <1>11, <1>12, RecordFound
     DEF KnownAs, Matched, Unmatched, Terminal, SameMatch
<1>13. ASSUME Mirror
       PROVE  s \in DOMAIN view.challenges /\ matches /\ AgreesAs(c, s)'
  <2>1. s \in DOMAIN view.challenges /\ AgreesAs(q, s)
    BY <1>1, <1>10, <1>13, RecordFound
  <2>2. /\ s.observationTime <= now /\ now < s.proposalDeadline
        /\ p.outcome = "VOID" /\ p.reason # TERMS_UNRESOLVABLE
             => now >= s.sourceCorrectionCutoff
    BY DEF MovePropose, ProposableNow
  <2>3. ProposalSchedule(s, e)
    BY <1>3, <1>5, <2>2, SpecFields DEF ProposalSchedule
  <2>4. matches
    BY <1>3, <1>4, <1>10, <2>1, <2>3 DEF AgreesAs
  <2>5. AgreesAs(c, s)'
    BY <1>5, <1>7, <1>8, <1>9, <1>10, <1>11, <2>1 DEF AgreesAs, SameMatch
  <2>. QED
    BY <2>1, <2>4, <2>5
<1>14. s \in DOMAIN view.challenges =>
         IF matches THEN c \in SeenChallenge /\ ProjectChallengeEvent(view, e) = Put(view, s, c)
         ELSE \E code \in AnomalyCode : ProjectChallengeEvent(view, e) = Anomaly(view, code)
  BY <1>6, <1>8, <1>11, JudgedAs
<1>. QED
  BY <1>2, <1>3, <1>12, <1>13, <1>14, LogLearned DEF ChallengeKind

(* dispute *)
LEMMA DisputeLearned ==
    ASSUME ObservedInv, TypeOK', NEW s \in Specs, NEW d \in Dispute, MoveDispute(s, d),
           Emit(OutcomeDisputed(s, d.disputingWallet, d.outcome, d.reason, d.evidenceHash,
                                d.parentEvidenceHash))
    PROVE  Learns(s)
<1>1. PICK q : q = view.challenges[s]
  OBVIOUS
<1>2. PICK e : e = OutcomeDisputed(s, d.disputingWallet, d.outcome, d.reason,
                                   d.evidenceHash, d.parentEvidenceHash)
  OBVIOUS
<1>3. /\ e.kind = "OutcomeDisputed" /\ e.id = s /\ e.wallet = d.disputingWallet
      /\ e.outcome = d.outcome /\ e.reason = d.reason /\ e.evidenceHash = d.evidenceHash
      /\ e.parentEvidenceHash = d.parentEvidenceHash
      /\ e.arbitrationStart = ArbitrationStart(s)
      /\ e.arbitrationDeadline = ArbitrationStart(s) + s.arbitrationWindowSeconds
  BY <1>2 DEF OutcomeDisputed
<1>4. PICK matches \in BOOLEAN :
         matches = (/\ q.state = "PROPOSED"
                    /\ e.wallet \in {s.challengerWallet, q.acceptingWallet}
                    /\ e.parentEvidenceHash = q.proposal.evidenceHash
                    /\ e.outcome # q.proposal.outcome
                    /\ e.arbitrationStart >= s.sourceCorrectionCutoff
                    /\ e.arbitrationStart < q.proposal.disputeDeadline
                    /\ e.arbitrationDeadline - e.arbitrationStart
                         = s.arbitrationWindowSeconds)
  OBVIOUS
<1> DEFINE r == [exists |-> TRUE, outcome |-> e.outcome, evidenceHash |-> e.evidenceHash]
           c == [q EXCEPT !.state = "DISPUTED", !.dispute = r]
<1>5. Typed /\ Deadlines(s) /\ Shape(s) /\ d.exists /\ d \in Dispute \cup {Absent}
  BY DEF ObservedInv, MoveDispute, DeadlinesBounded, Typed, WellFormed
<1>6. ProjectChallengeEvent(view, e) = Judged(view, s, matches, c)
  BY <1>1, <1>3, <1>4 DEF ProjectChallengeEvent, ProjectDisputed
<1>7. /\ r \in SeenDispute /\ r.exists /\ r.outcome = d.outcome
      /\ r.evidenceHash = d.evidenceHash
  BY <1>3, <1>5, DisputeFields DEF SeenDispute
<1> HIDE DEF r
<1>8. q \in SeenChallenge =>
        /\ c \in SeenChallenge /\ c.state = "DISPUTED" /\ c.dispute = r
        /\ c.acceptanceNonce = q.acceptanceNonce /\ c.acceptingWallet = q.acceptingWallet
        /\ c.proposal = q.proposal /\ c.payouts = q.payouts
  BY <1>7 DEF SeenChallenge, LifecycleState
<1> HIDE DEF c
<1>9. PaidWallets(s)' = PaidWallets(s)
  BY <1>5, PaidSame DEF MoveDispute
<1>10. /\ challenges[s].exists /\ challenges[s].state = "PROPOSED"
       /\ challenges'[s].state = "DISPUTED" /\ challenges'[s].dispute = d
       /\ challenges'[s].proposal = challenges[s].proposal
       /\ challenges'[s].acceptanceNonce = challenges[s].acceptanceNonce
       /\ SameMatch(challenges'[s], challenges[s])
  BY DEF MoveDispute
<1>11. s \in DOMAIN view.challenges => q \in SeenChallenge
  BY <1>1, RecordFound
<1>12. ASSUME s \in DOMAIN view.challenges, matches, view.anomalies = {}
       PROVE  KnownAs(c, s)'
  BY <1>1, <1>4, <1>8, <1>9, <1>10, <1>11, <1>12, RecordFound
     DEF KnownAs, Matched, Unmatched, Terminal, SameMatch
<1>13. ASSUME Mirror
       PROVE  s \in DOMAIN view.challenges /\ matches /\ AgreesAs(c, s)'
  <2>1. s \in DOMAIN view.challenges /\ AgreesAs(q, s)
    BY <1>1, <1>10, <1>13, RecordFound
  <2>2. challenges[s].proposal.exists
    BY <1>5, <1>10 DEF Shape
  <2>3. /\ q.state = "PROPOSED" /\ q.acceptingWallet = challenges[s].acceptingWallet
        /\ q.proposal.evidenceHash = challenges[s].proposal.evidenceHash
        /\ q.proposal.outcome = challenges[s].proposal.outcome
        /\ q.proposal.disputeDeadline = challenges[s].proposal.disputeDeadline
    BY <1>10, <2>1, <2>2 DEF AgreesAs
  <2>4. /\ d.disputingWallet \in Participants(s)
        /\ d.outcome # challenges[s].proposal.outcome
        /\ d.parentEvidenceHash = challenges[s].proposal.evidenceHash
        /\ now < challenges[s].proposal.disputeDeadline
    BY DEF MoveDispute
  <2>5. /\ ArbitrationStart(s) \in Nat
        /\ ArbitrationStart(s) >= s.sourceCorrectionCutoff
        /\ ArbitrationStart(s) < challenges[s].proposal.disputeDeadline
    <3>1. now \in Nat
      BY <1>5, WidthAssumption DEF Typed, TypeOK, Uint64
    <3>2. s.sourceCorrectionCutoff < challenges[s].proposal.disputeDeadline
      BY <1>5, <1>10, <2>2 DEF Deadlines
    <3>. QED
      BY <2>4, <3>1, <3>2, SpecFields DEF ArbitrationStart
  <2>6. e.arbitrationDeadline - e.arbitrationStart = s.arbitrationWindowSeconds
    BY <1>3, <2>5, SpecFields
  <2>7. matches
    <3>1. /\ e.wallet \in {s.challengerWallet, q.acceptingWallet}
          /\ e.parentEvidenceHash = q.proposal.evidenceHash
          /\ e.outcome # q.proposal.outcome
      BY <1>3, <2>3, <2>4 DEF Participants
    <3>2. /\ e.arbitrationStart >= s.sourceCorrectionCutoff
          /\ e.arbitrationStart < q.proposal.disputeDeadline
      BY <1>3, <2>3, <2>5
    <3>. QED
      BY <1>4, <2>3, <2>6, <3>1, <3>2
  <2>8. AgreesAs(c, s)'
    BY <1>5, <1>7, <1>8, <1>9, <1>10, <1>11, <2>1 DEF AgreesAs, SameMatch
  <2>. QED
    BY <2>1, <2>7, <2>8
<1>14. s \in DOMAIN view.challenges =>
         IF matches THEN c \in SeenChallenge /\ ProjectChallengeEvent(view, e) = Put(view, s, c)
         ELSE \E code \in AnomalyCode : ProjectChallengeEvent(view, e) = Anomaly(view, code)
  BY <1>6, <1>8, <1>11, JudgedAs
<1>. QED
  BY <1>2, <1>3, <1>12, <1>13, <1>14, LogLearned DEF ChallengeKind

(* A decision that the contract took is one that its record leads up to. *)
LEMMA DecisionExpected ==
    ASSUME Typed, NEW s \in Specs, NEW f \in FinalResolution, MoveDecide(s, f),
           NEW q, AgreesAs(q, s),
           NEW e, e.path = f.path, e.outcome = f.outcome, e.reason = f.reason,
           e.evidenceHash = f.finalEvidenceHash, e.parentEvidenceHash = f.parentEvidenceHash
    PROVE  PathMatches(q, e) /\ q.state \notin Terminal
<1>1. DecidedBy(s, f) /\ Shape(s) /\ challenges[s].exists
  BY DEF MoveDecide, Typed, WellFormed
<1>2. q.state = challenges[s].state
  BY DEF AgreesAs
<1>3. /\ challenges[s].state = "PROPOSED" =>
           /\ q.proposal.evidenceHash = challenges[s].proposal.evidenceHash
           /\ q.proposal.outcome = challenges[s].proposal.outcome
           /\ q.proposal.reason = challenges[s].proposal.reason
      /\ challenges[s].state = "DISPUTED" =>
           q.dispute.evidenceHash = challenges[s].dispute.evidenceHash
  BY <1>1 DEF AgreesAs, Shape
<1>. QED
  BY <1>1, <1>2, <1>3 DEF DecidedBy, PathMatches, ExpectedState, Terminal

(* A record without anomalies that a decision matches names both wallets. *)
LEMMA DecisionFindsMatch ==
    ASSUME NEW s \in Specs, NEW f \in FinalResolution, NEW q, KnownAs(q, s),
           NEW e, e.path = f.path, PathMatches(q, e)
    PROVE  q.acceptingWallet = challenges[s].acceptingWallet
<1>1. f.path \in Path
  BY DEF FinalResolution
<1>2. q.state \in Matched
  BY <1>1 DEF PathMatches, ExpectedState, Path, Matched
<1>. QED
  BY <1>2 DEF KnownAs

(* finalizeUncontested, arbitrate, voidUnproposed and voidUnarbitrated *)
LEMMA DecisionLearned ==
    ASSUME ObservedInv, TypeOK', NEW s \in Specs, NEW f \in FinalResolution, NEW by,
           f.path = "ARBITER" => by = Arbiter, MoveDecide(s, f),
           Emit(Decided(s, f.outcome, f.reason, f.path, f.finalEvidenceHash,
                        f.parentEvidenceHash, by))
    PROVE  Learns(s)
<1>1. PICK q : q = view.challenges[s]
  OBVIOUS
<1>2. PICK e : e = Decided(s, f.outcome, f.reason, f.path, f.finalEvidenceHash,
                           f.parentEvidenceHash, by)
  OBVIOUS
<1>3. /\ e.kind = IF f.outcome = "VOID" THEN "ChallengeVoided" ELSE "ChallengeResolved"
      /\ e.id = s /\ e.path = f.path /\ e.outcome = f.outcome /\ e.reason = f.reason
      /\ e.evidenceHash = f.finalEvidenceHash
      /\ e.parentEvidenceHash = f.parentEvidenceHash /\ e.finalizedBy = by
      /\ f.outcome = "VOID" => e.amount = s.stakeAmount
      /\ f.outcome # "VOID" => /\ e.amount = 2 * s.stakeAmount
                               /\ e.winnerWallet = WinnerWallet(s, f.outcome)
  BY <1>2, SpecFields DEF Decided, ChallengeVoided, ChallengeResolved
<1>4. PICK matches \in BOOLEAN :
         matches = (/\ q.state \notin Terminal
                    /\ PathMatches(q, e)
                    /\ f.outcome # "VOID" => e.winnerWallet = Winner(s, q, e.outcome)
                    /\ e.amount = IF f.outcome = "VOID" THEN s.stakeAmount
                                                        ELSE 2 * s.stakeAmount
                    /\ ByArbiter(view, e))
  OBVIOUS
<1> DEFINE c == [q EXCEPT !.state = FinalState(f.outcome)]
<1>5. Typed /\ FinalState(f.outcome) \in LifecycleState /\ FinalState(f.outcome) \in Terminal
  BY DEF ObservedInv, FinalState, ResolvedState, LifecycleState, Terminal
<1>6. \/ /\ q.state \in Terminal
         /\ ProjectChallengeEvent(view, e) = Anomaly(view, "duplicate_terminal")
      \/ /\ q.state \notin Terminal
         /\ ProjectChallengeEvent(view, e) = Judged(view, s, matches, c)
  <2>1. CASE f.outcome = "VOID"
    BY <1>1, <1>3, <1>4, <2>1
       DEF ProjectChallengeEvent, ProjectVoided, FinalState
  <2>2. CASE f.outcome # "VOID"
    BY <1>1, <1>3, <1>4, <2>2
       DEF ProjectChallengeEvent, ProjectResolved, FinalState, ResolvedState
  <2>. QED
    BY <2>1, <2>2
<1>7. q \in SeenChallenge =>
        /\ c \in SeenChallenge /\ c.state = FinalState(f.outcome)
        /\ c.acceptanceNonce = q.acceptanceNonce /\ c.acceptingWallet = q.acceptingWallet
        /\ c.proposal = q.proposal /\ c.dispute = q.dispute /\ c.payouts = q.payouts
  BY <1>5 DEF SeenChallenge
<1> HIDE DEF c
<1>8. PaidWallets(s)' = PaidWallets(s)
  BY <1>5, PaidSame
<1>9. /\ challenges[s].exists /\ challenges'[s].state = FinalState(f.outcome)
      /\ challenges'[s].proposal = challenges[s].proposal
      /\ challenges'[s].dispute = challenges[s].dispute
      /\ challenges'[s].acceptanceNonce = challenges[s].acceptanceNonce
      /\ SameMatch(challenges'[s], challenges[s])
  BY DEF MoveDecide
<1>10. s \in DOMAIN view.challenges => q \in SeenChallenge
  BY <1>1, RecordFound
<1>11. ASSUME s \in DOMAIN view.challenges, matches, view.anomalies = {}
       PROVE  KnownAs(c, s)'
  <2>1. KnownAs(q, s) /\ q \in SeenChallenge
    BY <1>1, <1>10, <1>11, RecordFound
  <2>2. q.acceptingWallet = challenges[s].acceptingWallet
    BY <1>3, <1>4, <1>11, <2>1, DecisionFindsMatch
  <2>3. FinalState(f.outcome) \notin Matched /\ FinalState(f.outcome) # "OPEN"
    BY <1>5 DEF Terminal, Matched
  <2>. QED
    BY <1>7, <1>8, <1>9, <2>1, <2>2, <2>3 DEF KnownAs, SameMatch
<1>12. ASSUME Mirror
       PROVE  s \in DOMAIN view.challenges /\ matches /\ AgreesAs(c, s)'
  <2>1. s \in DOMAIN view.challenges /\ AgreesAs(q, s)
    BY <1>1, <1>9, <1>12, RecordFound
  <2>2. PathMatches(q, e) /\ q.state \notin Terminal
    BY <1>3, <1>5, <2>1, DecisionExpected
  <2>3. f.outcome # "VOID" => e.winnerWallet = Winner(s, q, e.outcome)
    BY <1>3, <2>1 DEF AgreesAs, Winner, WinnerWallet
  <2>4. matches
    BY <1>3, <1>4, <2>2, <2>3 DEF ByArbiter
  <2>5. AgreesAs(c, s)'
    BY <1>7, <1>8, <1>9, <1>10, <2>1 DEF AgreesAs, SameMatch
  <2>. QED
    BY <2>1, <2>4, <2>5
<1>13. s \in DOMAIN view.challenges =>
         IF matches THEN c \in SeenChallenge /\ ProjectChallengeEvent(view, e) = Put(view, s, c)
         ELSE \E code \in AnomalyCode : ProjectChallengeEvent(view, e) = Anomaly(view, code)
  <2>1. /\ "duplicate_terminal" \in AnomalyCode
        /\ "invalid_transition" \in AnomalyCode
    BY DEF AnomalyCode
  <2>2. CASE matches
    BY <1>4, <1>6, <1>7, <1>10, <2>2 DEF Judged
  <2>3. CASE ~matches
    BY <1>6, <2>1, <2>3 DEF Judged
  <2>. QED
    BY <2>2, <2>3
<1>. QED
  <2>1. e.kind \in ChallengeKind
    BY <1>3 DEF ChallengeKind
  <2>. QED
    BY <1>2, <1>3, <1>11, <1>12, <1>13, <2>1, LogLearned

(* claimWinnings and refundPrincipal *)
LEMMA PayoutLearned ==
    ASSUME ObservedInv, TypeOK', NEW s \in Specs, NEW w \in Callers, NEW amount \in Nat,
           MovePay(s, w, amount), Touches(s),
           NEW kind, Emit(Payout(kind, s, w, amount)),
           \/ kind = "WinningsClaimed" /\ MayClaim(w, s) /\ amount = 2 * s.stakeAmount
           \/ kind = "PrincipalRefunded" /\ MayRefund(w, s) /\ amount = s.stakeAmount
    PROVE  Learns(s)
<1>1. PICK q : q = view.challenges[s]
  OBVIOUS
<1>2. PICK e : e = Payout(kind, s, w, amount)
  OBVIOUS
<1>3. /\ e.kind = kind /\ e.id = s /\ e.entitlementId = <<s, w>> /\ e.wallet = w
      /\ e.originState = challenges[s].state /\ e.amount = amount
  BY <1>2 DEF Payout
<1>4. PICK matches \in BOOLEAN : matches = (PayoutMatches(q, e) /\ w \notin q.payouts)
  OBVIOUS
<1> DEFINE c == [q EXCEPT !.payouts = q.payouts \cup {w}]
<1>5. /\ Typed /\ w \in Addresses /\ Shape(s) /\ Validated(s)
      /\ kind \in {"WinningsClaimed", "PrincipalRefunded"}
  BY DEF ObservedInv, Callers, Typed, WellFormed
<1>6. \/ /\ PayoutMatches(q, e) /\ w \in q.payouts
         /\ ProjectChallengeEvent(view, e) = Anomaly(view, "duplicate_payout")
      \/ /\ ~PayoutMatches(q, e) \/ w \notin q.payouts
         /\ ProjectChallengeEvent(view, e) = Judged(view, s, matches, c)
  <2>1. ProjectChallengeEvent(view, e) = ProjectPayout(view, q, e)
    BY <1>1, <1>3, <1>5 DEF ProjectChallengeEvent
  <2>2. CASE PayoutMatches(q, e)
    BY <1>3, <1>4, <2>1, <2>2 DEF ProjectPayout
  <2>3. CASE ~PayoutMatches(q, e)
    BY <1>3, <1>4, <2>1, <2>3 DEF ProjectPayout, Judged
  <2>. QED
    BY <2>2, <2>3
<1>7. q \in SeenChallenge =>
        /\ c \in SeenChallenge /\ c.state = q.state
        /\ c.acceptanceNonce = q.acceptanceNonce /\ c.acceptingWallet = q.acceptingWallet
        /\ c.proposal = q.proposal /\ c.dispute = q.dispute
        /\ c.payouts = q.payouts \cup {w}
  BY <1>5 DEF SeenChallenge
<1> HIDE DEF c
<1>8. amount > 0
  <2>1. challenges[s].exists
    BY DEF MovePay
  <2>2. s.stakeAmount > 0
    BY <1>5, <2>1 DEF Validated, ValidExecution, StakeDoubles
  <2>. QED
    BY <2>2, SpecFields
<1>9. PaidWallets(s)' = PaidWallets(s) \cup {w} /\ w \notin PaidWallets(s)
  <2>1. /\ entitlements[s][w].paidAmount = 0 /\ entitlements'[s][w].paidAmount = amount
        /\ \A v \in Addresses \ {w} : entitlements'[s][v] = entitlements[s][v]
    BY DEF MovePay
  <2>2. ~(0 > 0)
    OBVIOUS
  <2>. QED
    BY <1>5, <1>8, <2>1, <2>2 DEF PaidWallets
<1>10. /\ challenges[s].exists /\ challenges[s].state \in Terminal
       /\ challenges'[s].state = challenges[s].state
       /\ challenges'[s].acceptanceNonce = challenges[s].acceptanceNonce
       /\ SameMatch(challenges'[s], challenges[s]) /\ SameRecords(challenges'[s], challenges[s])
  BY DEF MovePay
<1>11. s \in DOMAIN view.challenges => q \in SeenChallenge
  BY <1>1, RecordFound
<1>12. ASSUME s \in DOMAIN view.challenges, matches, view.anomalies = {}
       PROVE  KnownAs(c, s)'
  BY <1>1, <1>7, <1>9, <1>10, <1>11, <1>12, RecordFound
     DEF KnownAs, SameMatch
<1>13. ASSUME Mirror
       PROVE  s \in DOMAIN view.challenges /\ matches /\ AgreesAs(c, s)'
  <2>1. s \in DOMAIN view.challenges /\ AgreesAs(q, s)
    BY <1>1, <1>10, <1>13, RecordFound
  <2>2. /\ q.state = challenges[s].state
        /\ q.acceptingWallet = challenges[s].acceptingWallet
        /\ w \notin q.payouts
    BY <1>9, <2>1 DEF AgreesAs
  <2>3. PayoutMatches(q, e)
    <3>1. CASE /\ kind = "WinningsClaimed" /\ MayClaim(w, s)
               /\ amount = 2 * s.stakeAmount
      <4>1. PICK o \in Side : /\ q.state = ResolvedState(o)
                              /\ w = Winner(s, q, o)
        BY <1>5, <1>10, <2>2, <3>1
           DEF MayClaim, Shape, Winner, WinnerWallet, ResolvedState, Side
      <4>. QED
        BY <1>3, <3>1, <4>1 DEF PayoutMatches, ResolvedState
    <3>2. CASE /\ kind = "PrincipalRefunded" /\ MayRefund(w, s)
               /\ amount = s.stakeAmount
      BY <1>3, <2>2, <3>2 DEF PayoutMatches, MayRefund, Participants
    <3>. QED
      BY <3>1, <3>2
  <2>4. AgreesAs(c, s)'
    BY <1>7, <1>9, <1>10, <1>11, <2>1 DEF AgreesAs, SameMatch, SameRecords
  <2>. QED
    BY <1>4, <2>1, <2>2, <2>3, <2>4
<1>14. s \in DOMAIN view.challenges =>
         IF matches THEN c \in SeenChallenge /\ ProjectChallengeEvent(view, e) = Put(view, s, c)
         ELSE \E code \in AnomalyCode : ProjectChallengeEvent(view, e) = Anomaly(view, code)
  <2>1. /\ "duplicate_payout" \in AnomalyCode
        /\ "invalid_transition" \in AnomalyCode
    BY DEF AnomalyCode
  <2>2. CASE matches
    BY <1>4, <1>6, <1>7, <1>11, <2>2 DEF Judged
  <2>3. CASE ~matches
    BY <1>6, <2>1, <2>3 DEF Judged
  <2>. QED
    BY <2>2, <2>3
<1>. QED
  <2>1. e.kind \in ChallengeKind
    BY <1>3, <1>5 DEF ChallengeKind
  <2>. QED
    BY <1>2, <1>3, <1>12, <1>13, <1>14, <2>1, LogLearned

(* createAndFund *)
LEMMA CreationLearned ==
    ASSUME ObservedInv, TypeOK', NEW s \in Specs, MoveOpen(s), Emit(ChallengeCreated(s))
    PROVE  Learns(s)
<1>1. PICK e : e = ChallengeCreated(s)
  OBVIOUS
<1>2. e.kind = "ChallengeCreated" /\ e.id = s
  BY <1>1 DEF ChallengeCreated
<1>3. PICK matches \in BOOLEAN :
         matches = (/\ s \notin DOMAIN view.challenges
                    /\ ~OverlapsReleaseBoundary(view, s.challengerWallet))
  OBVIOUS
<1>4. PICK c : c = Created(s)
  OBVIOUS
<1>5. /\ c \in SeenChallenge /\ c.state = "OPEN" /\ c.acceptanceNonce = 0
      /\ c.acceptingWallet = ZeroAddress /\ ~c.proposal.exists /\ ~c.dispute.exists
      /\ c.payouts = {}
  BY <1>4, DeploymentAssumption DEF Created, SeenChallenge, LifecycleState, Absent
<1>6. ProjectEvent(view, e) = Judged(view, s, matches, c)
  BY <1>2, <1>3, <1>4 DEF ProjectEvent, ProjectCreated
<1>7. /\ ~challenges[s].exists /\ ValidExecution(s, now)
      /\ challenges'[s].exists /\ challenges'[s].state = "OPEN"
      /\ challenges'[s].acceptanceNonce = 0 /\ challenges'[s].acceptingWallet = ZeroAddress
      /\ ~challenges'[s].proposal.exists /\ ~challenges'[s].dispute.exists
      /\ entitlements'[s] = entitlements[s]
  BY DEF MoveOpen
<1>8. PaidWallets(s)' = {}
  <2>1. \A w \in Addresses : entitlements[s][w].paidAmount = 0
    BY <1>7, NoEntitlementFields DEF ObservedInv, BooksBalance, Books
  <2>2. ~(0 > 0)
    OBVIOUS
  <2>. QED
    BY <1>7, <2>1, <2>2 DEF PaidWallets
<1>9. KnownAs(c, s)' /\ AgreesAs(c, s)'
  BY <1>5, <1>7, <1>8 DEF KnownAs, AgreesAs, Matched, Terminal
<1>10. Mirror => matches
  BY <1>3, <1>7 DEF Mirror, Projected, ValidExecution, ValidChallengerWallet,
     KernelChallengerWallet, OverlapsReleaseBoundary
<1>11. \/ view' = view /\ lost' = lost + 1
       \/ lost' = lost /\ (view' = FailedView \/ view' = Judged(view, s, matches, c))
  BY <1>1, <1>6 DEF Emit, Observe, FailedView
<1>12. CASE lost' = lost /\ view' = Judged(view, s, matches, c)
  <2>1. "invalid_transition" \in AnomalyCode
    BY DEF AnomalyCode
  <2>2. CASE matches
    BY <1>5, <1>9, <1>12, <2>2 DEF Judged, Learns
  <2>3. CASE ~matches
    BY <1>10, <1>12, <2>1, <2>3 DEF Judged, Learns
  <2>. QED
    BY <2>2, <2>3
<1>. QED
  BY <1>11, <1>12 DEF Learns

-----------------------------------------------------------------------------
(* Each call and its log, together. *)

Learned(s) == Next /\ Moves(s) /\ Touches(s) /\ paused' = paused /\ Learns(s)

(* createAndFund, accept, advanceAcceptanceNonce, cancelOpen and expireOpen *)
LEMMA OpeningLearned ==
    ASSUME ObservedInv, NEW caller \in Callers, NEW s \in Specs, EmitOpening(caller, s)
    PROVE  Learned(s)
<1>1. Typed
  BY DEF ObservedInv
<1>2. CASE createAndFund(caller, s) /\ Emit(ChallengeCreated(s))
  <2>1. MoveOpen(s) /\ Touches(s) /\ TypeOK'
    BY <1>1, <1>2, OpenStep
  <2>2. Next /\ paused' = paused
    BY <1>2 DEF Next, Opening, createAndFund, WriteOpen
  <2>. QED
    BY <1>2, <2>1, <2>2, CreationLearned DEF Learned, Moves
<1>3. ASSUME NEW p \in signedPermits, accept(caller, s, p), Emit(ChallengeAccepted(s, p))
      PROVE  Learned(s)
  <2>1. MoveAccept(s, p) /\ Touches(s) /\ TypeOK'
    BY <1>1, <1>3, AcceptStep
  <2>2. Next /\ paused' = paused
    BY <1>3 DEF Next, Opening, accept, WriteMatch
  <2>. QED
    BY <1>3, <2>1, <2>2, AcceptLearned DEF Learned, Moves
<1>4. CASE advanceAcceptanceNonce(caller, s) /\ Emit(AcceptanceNonceAdvanced(s))
  <2>1. MoveRenonce(s) /\ Touches(s) /\ TypeOK'
    BY <1>1, <1>4, RenonceStep
  <2>2. Next /\ paused' = paused
    BY <1>4 DEF Next, Opening, advanceAcceptanceNonce
  <2>. QED
    BY <1>4, <2>1, <2>2, RenonceLearned DEF Learned, Moves
<1>5. CASE cancelOpen(caller, s) /\ Emit(OpenRefund("ChallengeCancelled", s))
  <2>1. MoveClose(s, "CANCELLED") /\ Touches(s) /\ TypeOK'
    BY <1>1, <1>5, CloseStep DEF cancelOpen
  <2>2. Next /\ paused' = paused
    BY <1>5 DEF Next, Opening, cancelOpen, CreateOpenRefund
  <2>. QED
    BY <1>5, <2>1, <2>2, CloseLearned DEF Learned, Moves
<1>6. CASE expireOpen(s) /\ Emit(OpenRefund("ChallengeExpired", s))
  <2>1. MoveClose(s, "EXPIRED") /\ Touches(s) /\ TypeOK'
    BY <1>1, <1>6, CloseStep DEF expireOpen
  <2>2. Next /\ paused' = paused
    BY <1>6 DEF Next, Permissionless, expireOpen, CreateOpenRefund
  <2>. QED
    BY <1>6, <2>1, <2>2, CloseLearned DEF Learned, Moves
<1>. QED
  BY <1>2, <1>3, <1>4, <1>5, <1>6 DEF EmitOpening

(* propose, dispute and arbitrate *)
LEMMA DecidingLearned ==
    ASSUME ObservedInv, NEW caller \in Callers, NEW s \in Specs, EmitDeciding(caller, s)
    PROVE  Learned(s)
<1>1. Typed
  BY DEF ObservedInv
<1>2. PICK outcome \in Outcome, reason \in ReasonCodes, evidenceHash \in Hashes :
        \/ /\ propose(caller, s, outcome, reason, evidenceHash)
           /\ Emit(OutcomeProposed(s, outcome, reason, evidenceHash))
        \/ \E parent \in Hashes :
            \/ /\ dispute(caller, s, outcome, reason, evidenceHash, parent)
               /\ Emit(OutcomeDisputed(s, caller, outcome, reason, evidenceHash, parent))
            \/ /\ arbitrate(caller, s, outcome, reason, evidenceHash, parent)
               /\ Emit(Decided(s, outcome, reason, "ARBITER", evidenceHash, parent, caller))
  BY DEF EmitDeciding
<1>3. CASE /\ propose(caller, s, outcome, reason, evidenceHash)
           /\ Emit(OutcomeProposed(s, outcome, reason, evidenceHash))
  <2>1. PICK p \in Proposal :
          /\ MovePropose(s, p)
          /\ p.outcome = outcome /\ p.reason = reason /\ p.evidenceHash = evidenceHash
    BY <1>1, <1>3, ProposeStep
  <2>2. Touches(s) /\ TypeOK'
    BY <1>1, <1>3, ProposeStep
  <2>3. Next /\ paused' = paused
    BY <1>3 DEF Next, Deciding, propose
  <2>. QED
    BY <1>3, <2>1, <2>2, <2>3, ProposalLearned DEF Learned, Moves
<1>4. ASSUME NEW parent \in Hashes,
             dispute(caller, s, outcome, reason, evidenceHash, parent),
             Emit(OutcomeDisputed(s, caller, outcome, reason, evidenceHash, parent))
      PROVE  Learned(s)
  <2>1. PICK d \in Dispute :
          /\ MoveDispute(s, d)
          /\ d.disputingWallet = caller
          /\ d.outcome = outcome /\ d.reason = reason /\ d.evidenceHash = evidenceHash
          /\ d.parentEvidenceHash = parent
    BY <1>1, <1>4, DisputeStep
  <2>2. Touches(s) /\ TypeOK'
    BY <1>1, <1>4, DisputeStep
  <2>3. Next /\ paused' = paused
    BY <1>4 DEF Next, Deciding, dispute
  <2>. QED
    BY <1>4, <2>1, <2>2, <2>3, DisputeLearned DEF Learned, Moves
<1>5. ASSUME NEW parent \in Hashes,
             arbitrate(caller, s, outcome, reason, evidenceHash, parent),
             Emit(Decided(s, outcome, reason, "ARBITER", evidenceHash, parent, caller))
      PROVE  Learned(s)
  <2>1. PICK f \in FinalResolution :
          /\ MoveDecide(s, f)
          /\ Reads(f, outcome, reason, "ARBITER", evidenceHash, parent)
    BY <1>1, <1>5, ArbitrateStep
  <2>2. Touches(s) /\ TypeOK'
    BY <1>1, <1>5, ArbitrateStep
  <2>3. Next /\ paused' = paused /\ caller = Arbiter
    BY <1>5 DEF Next, Deciding, arbitrate, Finalize
  <2>. QED
    BY <1>5, <2>1, <2>2, <2>3, DecisionLearned DEF Learned, Moves, Reads
<1>. QED
  BY <1>2, <1>3, <1>4, <1>5

(* finalizeUncontested, voidUnproposed and voidUnarbitrated *)
LEMMA FinalLearned ==
    ASSUME ObservedInv, NEW caller \in Callers, NEW s \in Specs, EmitFinal(caller, s)
    PROVE  Learned(s)
<1>1. Typed
  BY DEF ObservedInv
<1>2. PICK p : p = challenges[s].proposal
  OBVIOUS
<1>3. CASE /\ finalizeUncontested(s)
           /\ Emit(Decided(s, p.outcome, p.reason, "UNCONTESTED", p.evidenceHash,
                           ZeroHash, caller))
  <2>1. PICK f \in FinalResolution :
          /\ MoveDecide(s, f)
          /\ Reads(f, p.outcome, p.reason, "UNCONTESTED", p.evidenceHash, ZeroHash)
    BY <1>1, <1>2, <1>3, FinalizeUncontestedStep
  <2>2. Touches(s) /\ TypeOK'
    BY <1>1, <1>2, <1>3, FinalizeUncontestedStep
  <2>3. Next /\ paused' = paused
    BY <1>3 DEF Next, Permissionless, finalizeUncontested, Finalize
  <2>. QED
    BY <1>3, <2>1, <2>2, <2>3, DecisionLearned DEF Learned, Moves, Reads
<1>4. CASE /\ voidUnproposed(s)
           /\ Emit(Decided(s, "VOID", 0, "PROPOSAL_TIMEOUT", ZeroHash, ZeroHash, caller))
  <2>1. PICK f \in FinalResolution :
          /\ MoveDecide(s, f)
          /\ Reads(f, "VOID", 0, "PROPOSAL_TIMEOUT", ZeroHash, ZeroHash)
    BY <1>1, <1>4, UnproposedStep
  <2>2. Touches(s) /\ TypeOK'
    BY <1>1, <1>4, UnproposedStep
  <2>3. Next /\ paused' = paused
    BY <1>4 DEF Next, Permissionless, voidUnproposed, Finalize
  <2>. QED
    BY <1>4, <2>1, <2>2, <2>3, DecisionLearned DEF Learned, Moves, Reads
<1>5. CASE /\ voidUnarbitrated(s)
           /\ Emit(Decided(s, "VOID", 1, "ARBITRATION_TIMEOUT", ZeroHash, ZeroHash, caller))
  <2>1. PICK f \in FinalResolution :
          /\ MoveDecide(s, f)
          /\ Reads(f, "VOID", 1, "ARBITRATION_TIMEOUT", ZeroHash, ZeroHash)
    BY <1>1, <1>5, UnarbitratedStep
  <2>2. Touches(s) /\ TypeOK'
    BY <1>1, <1>5, UnarbitratedStep
  <2>3. Next /\ paused' = paused
    BY <1>5 DEF Next, Permissionless, voidUnarbitrated, Finalize
  <2>. QED
    BY <1>5, <2>1, <2>2, <2>3, DecisionLearned DEF Learned, Moves, Reads
<1>. QED
  BY <1>2, <1>3, <1>4, <1>5 DEF EmitFinal

(* claimWinnings and refundPrincipal *)
LEMMA PayingLearned ==
    ASSUME ObservedInv, NEW caller \in Callers, NEW s \in Specs, EmitPaying(caller, s)
    PROVE  Learned(s)
<1>1. Typed /\ s.stakeAmount \in Nat /\ s.stakeAmount * 2 \in Nat
      /\ s.stakeAmount * 2 = 2 * s.stakeAmount /\ caller \in Addresses
  BY SpecFields DEF ObservedInv, Callers
<1>2. CASE /\ claimWinnings(caller, s)
           /\ Emit(Payout("WinningsClaimed", s, caller, s.stakeAmount * 2))
  <2>1. /\ MayClaim(caller, s) /\ ConsumeAndPay(s, caller, s.stakeAmount * 2)
        /\ challenges[s].exists /\ challenges[s].state \in Terminal
        /\ caller \in Participants(s)
    BY <1>2 DEF claimWinnings, MayClaim, Terminal, WinnerWallet, Participants
  <2>2. MovePay(s, caller, s.stakeAmount * 2) /\ Touches(s) /\ TypeOK'
    BY <1>1, <2>1, PayStep
  <2>3. Next /\ paused' = paused
    BY <1>2, <2>1 DEF Next, Paying, ConsumeAndPay, WritePaid
  <2>. QED
    BY <1>1, <1>2, <2>1, <2>2, <2>3, PayoutLearned DEF Learned, Moves
<1>3. CASE /\ refundPrincipal(caller, s)
           /\ Emit(Payout("PrincipalRefunded", s, caller, s.stakeAmount))
  <2>1. /\ MayRefund(caller, s) /\ ConsumeAndPay(s, caller, s.stakeAmount)
        /\ challenges[s].exists /\ challenges[s].state \in Terminal
        /\ caller \in Participants(s)
    BY <1>3 DEF refundPrincipal, MayRefund, Terminal, Participants
  <2>2. MovePay(s, caller, s.stakeAmount) /\ Touches(s) /\ TypeOK'
    BY <1>1, <2>1, PayStep
  <2>3. Next /\ paused' = paused
    BY <1>3, <2>1 DEF Next, Paying, ConsumeAndPay, WritePaid
  <2>. QED
    BY <1>1, <1>3, <2>1, <2>2, <2>3, PayoutLearned DEF Learned, Moves
<1>. QED
  BY <1>2, <1>3 DEF EmitPaying

(* setPaused: the decoder refuses the log, whatever it says. *)
LEMMA PauseRefused ==
    ASSUME NEW e, e.kind = "PauseStatusChanged", Emit(e)
    PROVE  \/ view' = view /\ lost' = lost + 1
           \/ lost' = lost /\ view' = FailedView
<1>1. ~Decodes(e)
  BY DEF Decodes, DecodedLayout, EmittedLayout, Layout
<1>. QED
  BY <1>1 DEF Emit, Observe, FailedView

-----------------------------------------------------------------------------
(* Initially the view holds the release's declaration, or nothing. *)
LEMMA ObservedInitInv == ObservedInit => ObservedInv
<1> SUFFICES ASSUME ObservedInit PROVE ObservedInv
  OBVIOUS
<1>1. Typed /\ BooksBalance /\ DeadlinesBounded /\ \A s \in Specs : ~challenges[s].exists
  BY BooksInductive, DeadlinesInductive DEF ObservedInit, Init, Absent
<1>2. paused \in BOOLEAN
  BY <1>1 DEF Typed, TypeOK
<1>3. CASE view = Observe(EmptyView, ReleaseDeclared) /\ lost = 0
  <2>1. PICK e : e = ReleaseDeclared
    OBVIOUS
  <2>2. e.kind = "ReleaseDeclared" /\ e.initialPaused = paused
    BY <2>1 DEF ReleaseDeclared
  <2>3. EmittedLayout[e.kind] = DecodedLayout[e.kind]
    BY <2>2 DEF EmittedLayout, DecodedLayout
  <2>4. ValidValues(e)
    BY <2>2 DEF ValidValues
  <2>5. view = ProjectRelease(EmptyView, e)
    BY <1>3, <2>1, <2>2, <2>3, <2>4, EmptyViewFields DEF Observe, Decodes, ProjectEvent
  <2>6. view = [EmptyView EXCEPT !.released = TRUE, !.paused = paused]
    BY <2>2, <2>5, EmptyViewFields DEF ProjectRelease
  <2>7. /\ view \in View /\ view.released /\ view.anomalies = {} /\ view.paused = paused
        /\ DOMAIN view.challenges = {}
    <3>1. EmptyView \in View
      BY EmptyViewFields
    <3>2. view \in View
      BY <1>2, <2>6, <3>1 DEF View
    <3>. QED
      BY <2>6, <3>2, EmptyViewFields DEF EmptyView
  <2>. QED
    BY <1>1, <1>3, <2>7 DEF ObservedInv, Undeceived, Mirror, Projected
<1>4. CASE view = EmptyView /\ lost = 1
  BY <1>1, <1>4, EmptyViewFields DEF ObservedInv, Undeceived
<1>. QED
  BY <1>3, <1>4 DEF ObservedInit

(* A step that no log tells of. *)
LEMMA SilenceKeepsInv ==
    ASSUME ObservedInv, (Typed /\ BooksBalance /\ DeadlinesBounded)',
           \A t \in Specs : Same(t), view' = view,
           (lost' = lost /\ paused' = paused) \/ lost' = lost + 1
    PROVE  ObservedInv'
<1>1. TypeOK' /\ lost' \in Nat
  BY DEF ObservedInv, Typed
<1>2. Undeceived'
  BY <1>1, UndeceivedKept
<1>3. ASSUME lost' = 0, ~view.failed PROVE Mirror'
  <2>1. Mirror /\ paused' = paused
    BY <1>3 DEF ObservedInv
  <2>2. \A t \in Specs : challenges'[t].exists <=> t \in DOMAIN view.challenges
    BY <2>1 DEF Mirror, Projected, Same
  <2>3. ASSUME NEW t \in Specs, t \in DOMAIN view.challenges
        PROVE  AgreesAs(Seen(t), t)'
    <3>1. PICK r : r = view.challenges[t]
      OBVIOUS
    <3>2. AgreesAs(r, t)
      BY <2>1, <2>3, <3>1 DEF Mirror, Projected, Seen
    <3>3. AgreesAs(r, t)'
      BY <3>2, AgreesKept
    <3>. QED
      BY <3>1, <3>3 DEF AgreesAs, Seen
  <2>. QED
    BY <2>1, <2>2, <2>3 DEF Mirror, Projected
<1>. QED
  BY <1>1, <1>2, <1>3 DEF ObservedInv

(* The invariant survives every step of the contract and the observer. *)
LEMMA ObservedNextInv == ObservedInv /\ [ObservedNext]_observedVars => ObservedInv'
<1> SUFFICES ASSUME ObservedInv, [ObservedNext]_observedVars PROVE ObservedInv'
  OBVIOUS
<1>1. ASSUME [Next]_vars PROVE (Typed /\ BooksBalance /\ DeadlinesBounded)'
  BY <1>1, TypedNext, BooksInductive, DeadlinesInductive DEF ObservedInv
<1>2. CASE Environment /\ UNCHANGED <<view, lost>>
  <2>1. Next /\ Idle
    BY <1>2, IdleStep DEF Next, ObservedInv
  <2>2. paused' = paused
    BY <1>2 DEF Environment, Tick, SignPermit, Donate, contractVars
  <2>. QED
    BY <1>1, <1>2, <2>1, <2>2, SilenceKeepsInv DEF Idle
<1>3. CASE UNCHANGED observedVars
  <2>1. UNCHANGED vars /\ paused' = paused /\ view' = view /\ lost' = lost
    BY <1>3 DEF observedVars, vars, contractVars
  <2>2. Idle
    BY <2>1, IdleStep DEF ObservedInv
  <2>. QED
    BY <1>1, <2>1, <2>2, SilenceKeepsInv DEF Idle
<1>4. ASSUME NEW s \in Specs, Learned(s) PROVE ObservedInv'
  BY <1>1, <1>4, LearningKeepsInv DEF Learned
<1>5. ASSUME NEW caller \in Callers, NEW newPaused \in BOOLEAN, EmitPause(caller, newPaused)
      PROVE  ObservedInv'
  <2>1. setPaused(caller, newPaused)
    BY <1>5 DEF EmitPause
  <2>2. Next /\ Idle
    BY <2>1, IdleStep DEF Next, ObservedInv
  <2>3. \/ view' = view /\ lost' = lost + 1
        \/ lost' = lost /\ view' = FailedView
    BY <1>5, PauseRefused DEF EmitPause
  <2>4. CASE view' = view /\ lost' = lost + 1
    BY <1>1, <2>2, <2>4, SilenceKeepsInv DEF Idle
  <2>5. CASE lost' = lost /\ view' = FailedView
    BY <1>1, <2>2, <2>5, EmptyViewFields DEF ObservedInv, Undeceived
  <2>. QED
    BY <2>3, <2>4, <2>5
<1>. QED
  BY <1>2, <1>3, <1>4, <1>5, OpeningLearned, DecidingLearned, FinalLearned, PayingLearned
     DEF ObservedNext

(* A complete, decodable log of any length, of any number of challenges,   *)
(* folds into the contract's storage: the projector's own copy of the      *)
(* protocol's rules never refuses what the contract did.                   *)
THEOREM CompleteProjectionIsStorage == ObservedSpec => []ProjectionIsStorage
<1>1. ObservedInv => ProjectionIsStorage
  BY DEF ObservedInv, Mirror, ProjectionIsStorage, Agrees, AgreesAs
<1>. QED
  BY <1>1, ObservedInitInv, ObservedNextInv, PTL DEF ObservedSpec

(* Whatever logs are withheld, and however many, a projection without      *)
(* anomalies shows a terminal state, its wallets and payouts only as they  *)
(* are in the contract.                                                    *)
THEOREM LossesNeverMislead == ObservedSpec => []LossNeverMisleads
<1>1. ASSUME ObservedInv PROVE LossNeverMisleads
  <2>1. Status(view) # "conflicted" => view.anomalies = {}
    BY DEF Status
  <2>. QED
    BY <1>1, <2>1 DEF ObservedInv, Undeceived, KnownAs, LossNeverMisleads
<1>. QED
  BY <1>1, ObservedInitInv, ObservedNextInv, PTL DEF ObservedSpec

-----------------------------------------------------------------------------
(* The contract seen through the reference model: the mapping takes a      *)
(* challenge to a record of the model, a step to the action of the model   *)
(* of the same name.                                                       *)

(* The challenges of the model, as the instance Model sees them. *)
ModelSeen == [s \in Specs |-> IF challenges[s].exists THEN ModelChallenge(s) ELSE ZeroHash]

(* The amounts of an entitlement have the width of amounts. *)
LEMMA EntitlementFields ==
    ASSUME TypeOK, NEW s \in Specs, NEW w \in Addresses
    PROVE  /\ entitlements[s][w].claimableAmount \in Uint256
           /\ entitlements[s][w].paidAmount \in Uint256
  BY DEF TypeOK, Entitlement

(* What the model sees of a challenge is a record of its own type. *)
LEMMA ModelTyped ==
    ASSUME TypeOK, NEW s \in Specs, challenges[s].exists
    PROVE  ModelChallenge(s) \in ModelRecords
<1> DEFINE c == challenges[s]
           pr == IF ~c.proposal.exists THEN ZeroHash
                      ELSE [outcome |-> c.proposal.outcome,
                            evidenceHash |-> c.proposal.evidenceHash,
                            proposedAt |-> c.proposal.proposedAt,
                            disputeDeadline |-> c.proposal.disputeDeadline]
           di == IF ~c.dispute.exists THEN ZeroHash
                     ELSE [outcome |-> c.dispute.outcome,
                           evidenceHash |-> c.dispute.evidenceHash,
                           parentEvidenceHash |-> c.dispute.parentEvidenceHash,
                           disputedAt |-> c.dispute.disputedAt,
                           arbitrationStart |-> c.dispute.arbitrationStart,
                           arbitrationDeadline |-> c.dispute.arbitrationDeadline]
           fi == IF ~c.finalResolution.exists THEN ZeroHash
                   ELSE [outcome |-> c.finalResolution.outcome,
                         evidenceHash |-> c.finalResolution.finalEvidenceHash]
           pa == [challenger |-> ModelPaid(s, s.challengerWallet),
                   acceptor   |-> ModelPaid(s, c.acceptingWallet)]
           Claims == [claimable : Uint256, paid : Uint256]
<1>1. c \in Challenge
  BY ChallengeInType
<1>2. pr \in {ZeroHash} \cup
             [outcome : Outcome, evidenceHash : Hashes, proposedAt : Uint64,
              disputeDeadline : Uint64]
  <2>1. c.proposal \in Proposal \cup {Absent}
    BY <1>1, StoredFields
  <2>2. CASE c.proposal.exists
    <3>1. c.proposal \in Proposal
      BY <2>1, <2>2 DEF Absent
    <3>. QED
      BY <2>2, <3>1 DEF Proposal
  <2>3. CASE ~c.proposal.exists
    BY <2>3
  <2>. QED
    BY <2>2, <2>3
<1>3. di \in {ZeroHash} \cup
             [outcome : Outcome, evidenceHash : Hashes, parentEvidenceHash : Hashes,
              disputedAt : Uint64, arbitrationStart : Uint64, arbitrationDeadline : Uint64]
  <2>1. c.dispute \in Dispute \cup {Absent}
    BY <1>1, StoredFields
  <2>2. CASE c.dispute.exists
    <3>1. c.dispute \in Dispute
      BY <2>1, <2>2 DEF Absent
    <3>. QED
      BY <2>2, <3>1 DEF Dispute
  <2>3. CASE ~c.dispute.exists
    BY <2>3
  <2>. QED
    BY <2>2, <2>3
<1>4. fi \in {ZeroHash} \cup [outcome : Outcome, evidenceHash : Hashes]
  <2>1. c.finalResolution \in FinalResolution \cup {Absent}
    BY <1>1, StoredFields
  <2>2. CASE c.finalResolution.exists
    <3>1. c.finalResolution \in FinalResolution
      BY <2>1, <2>2 DEF Absent
    <3>. QED
      BY <2>2, <3>1 DEF FinalResolution
  <2>3. CASE ~c.finalResolution.exists
    BY <2>3
  <2>. QED
    BY <2>2, <2>3
<1>5. pa \in [challenger : Uint256, acceptor : Uint256]
  <2>1. 0 \in Uint256
    BY WidthAssumption DEF Uint256
  <2>2. c.acceptingWallet \in Addresses /\ s.challengerWallet \in Addresses
    BY <1>1, StoredFields, SpecFields
  <2>. QED
    BY <2>1, <2>2, EntitlementFields DEF ModelPaid
<1>6. ModelEntitlements(s) \in UNION {[W -> Claims] : W \in SUBSET Addresses}
  <2> DEFINE W == Participants(s) \ {ZeroAddress}
  <2>1. W \in SUBSET Addresses
    BY <1>1, StoredFields, SpecFields DEF Participants
  <2>2. ModelEntitlements(s) \in [W -> Claims]
    <3>1. \A w \in W : [claimable |-> entitlements[s][w].claimableAmount,
                        paid      |-> entitlements[s][w].paidAmount] \in Claims
      BY <2>1, EntitlementFields
    <3> HIDE DEF Claims
    <3>. QED
      BY <3>1 DEF ModelEntitlements
  <2>. QED
    BY <2>1, <2>2
<1>7. NullAddress(c.acceptingWallet) \in Addresses \cup {ZeroHash}
  BY <1>1, StoredFields DEF NullAddress
<1>8. /\ s.challengerWallet \in Addresses /\ s.challengerSide \in Side
      /\ s.stakeAmount \in Uint256
      /\ c.state \in LifecycleState /\ c.acceptanceNonce \in Nat
      /\ c.depositedAmount \in Uint256
      /\ c.outstandingLiability \in Uint256
      /\ s.acceptanceDeadline \in Uint64 /\ s.observationTime \in Uint64
      /\ s.sourceCorrectionCutoff \in Uint64 /\ s.proposalDeadline \in Uint64
      /\ s.disputeWindowSeconds \in Uint64
      /\ s.arbitrationWindowSeconds \in Uint64 /\ s.timeoutVoidAt \in Uint64
  BY <1>1, InputAssumption DEF Challenge, Execution
<1>9. ModelChallenge(s) =
       [challenger |-> s.challengerWallet, acceptor |-> NullAddress(c.acceptingWallet),
         challengerSide |-> s.challengerSide, stake |-> s.stakeAmount, state |-> c.state,
         acceptanceNonce |-> c.acceptanceNonce, deposited |-> c.depositedAmount,
         outstanding |-> c.outstandingLiability,
         paid |-> pa,
         acceptanceDeadline |-> s.acceptanceDeadline,
         observationTime |-> s.observationTime,
         sourceCorrectionCutoff |-> s.sourceCorrectionCutoff,
         proposalDeadline |-> s.proposalDeadline,
         disputeWindow |-> s.disputeWindowSeconds,
         arbitrationWindow |-> s.arbitrationWindowSeconds,
         timeoutVoidAt |-> s.timeoutVoidAt,
         proposal |-> pr, dispute |-> di, final |-> fi, entitlements |-> ModelEntitlements(s)]
  BY DEF ModelChallenge
<1> HIDE DEF c, pr, di, fi, pa, Claims
<1>. QED
  BY <1>2, <1>3, <1>4, <1>5, <1>6, <1>7, <1>8, <1>9 DEF ModelRecords, Claims

(* The fields that a challenge keeps for life. *)
SameTerms(q, c) ==
    /\ q.challenger = c.challenger /\ q.challengerSide = c.challengerSide
    /\ q.stake = c.stake
    /\ q.acceptanceDeadline = c.acceptanceDeadline
    /\ q.observationTime = c.observationTime
    /\ q.sourceCorrectionCutoff = c.sourceCorrectionCutoff
    /\ q.proposalDeadline = c.proposalDeadline
    /\ q.disputeWindow = c.disputeWindow /\ q.arbitrationWindow = c.arbitrationWindow
    /\ q.timeoutVoidAt = c.timeoutVoidAt

(* The names of the fields of the model's record. *)
FieldNames ==
    {"challenger", "acceptor", "challengerSide", "stake", "state", "acceptanceNonce",
     "deposited", "outstanding", "paid", "acceptanceDeadline", "observationTime",
     "sourceCorrectionCutoff", "proposalDeadline", "disputeWindow", "arbitrationWindow",
     "timeoutVoidAt", "proposal", "dispute", "final", "entitlements"}

(* A record of the model is a function of its field names. *)
LEMMA RecordIsFunction ==
    ASSUME NEW c \in ModelRecords
    PROVE  c = [k \in FieldNames |-> c[k]]
  BY DEF ModelRecords, FieldNames

(* The same of all challenges, before a step and after it. *)
LEMMA ModelTypedNow ==
    TypeOK => \A s \in Specs : challenges[s].exists => ModelChallenge(s) \in ModelRecords
  BY ModelTyped

LEMMA ModelTypedNext ==
    TypeOK' => \A s \in Specs :
                 challenges'[s].exists => ModelChallenge(s)' \in ModelRecords
<1>1. TypeOK' => (\A s \in Specs : challenges[s].exists => ModelChallenge(s) \in ModelRecords)'
  BY ModelTypedNow, PTL
<1>. QED
  BY <1>1

(* A challenge of the contract is one of the model, under its own name. *)
LEMMA ModelKnows ==
    ASSUME TypeOK, NEW s \in Specs
    PROVE  /\ s \in Model!Ids
           /\ ModelSeen[s] = IF challenges[s].exists THEN ModelChallenge(s) ELSE ZeroHash
           /\ challenges[s].exists <=> ModelSeen[s] # ZeroHash
<1>1. s \in Model!Ids
  <2>1. ModelExecution(s).id = s
    BY DEF ModelExecution
  <2>. QED
    BY <2>1 DEF Model!Ids
<1>2. ModelSeen[s] = IF challenges[s].exists THEN ModelChallenge(s) ELSE ZeroHash
  BY DEF ModelSeen
<1>. QED
  BY <1>1, <1>2, ModelTyped, NullAssumption

(* The model sees the lifecycle state of the contract. *)
LEMMA ModelIn ==
    ASSUME TypeOK, NEW s \in Specs, NEW st, challenges[s].exists
    PROVE  /\ Model!In(s, st) <=> challenges[s].state = st
           /\ ModelSeen[s] = ModelChallenge(s)
<1>1. ModelSeen[s] = ModelChallenge(s) /\ ModelSeen[s] # ZeroHash
  BY ModelKnows
<1>2. ModelSeen[s].state = challenges[s].state
  BY <1>1 DEF ModelChallenge
<1>. QED
  BY <1>1, <1>2 DEF Model!In, ModelSeen

(* A challenge that no step touched looks the same to the model. *)
LEMMA SameIsSameRecord ==
    ASSUME NEW s \in Specs, Same(s)
    PROVE  ModelSeen'[s] = ModelSeen[s]
<1>1. ModelChallenge(s)' = ModelChallenge(s)
  <2>1. ModelEntitlements(s)' = ModelEntitlements(s)
    BY DEF Same, ModelEntitlements, Participants
  <2>. QED
    BY <2>1 DEF Same, ModelChallenge, ModelPaid
<1>. QED
  BY <1>1 DEF Same, ModelSeen

(* The environment does nothing that the model sees. *)
LEMMA NothingModelled ==
    ASSUME \A s \in Specs : Same(s),
           UNCHANGED <<paused, totalOutstandingLiability, usedInstanceNonces>>
    PROVE  UNCHANGED Model!vars
<1>1. ModelSeen' = ModelSeen
  <2>1. \A s \in Specs : ModelSeen'[s] = ModelSeen[s]
    BY SameIsSameRecord
  <2>. QED
    BY <2>1 DEF ModelSeen
<1>. QED
  BY <1>1 DEF Model!vars, ModelSeen

(* A Move on one challenge updates one record of the model. *)
LEMMA OneRecordUpdated ==
    ASSUME NEW s \in Specs, Touches(s), challenges'[s].exists,
           NEW q, q = ModelChallenge(s)'
    PROVE  Model!Update(s, q)
<1>1. \A t \in Specs \ {s} : ModelSeen'[t] = ModelSeen[t]
  BY SameIsSameRecord DEF Touches
<1>2. ModelSeen'[s] = q
  BY DEF ModelSeen
<1>3. ModelSeen' = [ModelSeen EXCEPT ![s] = q]
  BY <1>1, <1>2 DEF ModelSeen
<1>. QED
  BY <1>3 DEF Model!Update, ModelSeen

(* Record c is what the model's fields show of challenge s. *)
Reading(c, s) ==
    LET k == challenges[s]
        p == k.proposal
        d == k.dispute
        f == k.finalResolution
    IN  /\ c.challenger = s.challengerWallet
        /\ c.acceptor = NullAddress(k.acceptingWallet)
        /\ c.challengerSide = s.challengerSide /\ c.stake = s.stakeAmount
        /\ c.state = k.state /\ c.acceptanceNonce = k.acceptanceNonce
        /\ c.deposited = k.depositedAmount /\ c.outstanding = k.outstandingLiability
        /\ c.paid = [challenger |-> ModelPaid(s, s.challengerWallet),
                     acceptor   |-> ModelPaid(s, k.acceptingWallet)]
        /\ c.acceptanceDeadline = s.acceptanceDeadline
        /\ c.observationTime = s.observationTime
        /\ c.sourceCorrectionCutoff = s.sourceCorrectionCutoff
        /\ c.proposalDeadline = s.proposalDeadline
        /\ c.disputeWindow = s.disputeWindowSeconds
        /\ c.arbitrationWindow = s.arbitrationWindowSeconds
        /\ c.timeoutVoidAt = s.timeoutVoidAt
        /\ c.proposal = IF ~p.exists THEN ZeroHash
                        ELSE [outcome |-> p.outcome, evidenceHash |-> p.evidenceHash,
                              proposedAt |-> p.proposedAt,
                              disputeDeadline |-> p.disputeDeadline]
        /\ c.dispute = IF ~d.exists THEN ZeroHash
                       ELSE [outcome |-> d.outcome, evidenceHash |-> d.evidenceHash,
                             parentEvidenceHash |-> d.parentEvidenceHash,
                             disputedAt |-> d.disputedAt,
                             arbitrationStart |-> d.arbitrationStart,
                             arbitrationDeadline |-> d.arbitrationDeadline]
        /\ c.final = IF ~f.exists THEN ZeroHash
                     ELSE [outcome |-> f.outcome, evidenceHash |-> f.finalEvidenceHash]
        /\ c.entitlements = ModelEntitlements(s)

(* That record reads the storage, before a step and after it. *)
LEMMA ReadingNow ==
    ASSUME NEW s \in Specs, NEW c, c = ModelChallenge(s)
    PROVE  Reading(c, s)
  BY DEF ModelChallenge, Reading

LEMMA ReadingNext ==
    ASSUME NEW s \in Specs, NEW q, q = ModelChallenge(s)'
    PROVE  Reading(q, s)'
  BY DEF ModelChallenge, Reading

(* What a step on challenge s looks like to the model. *)
Before(s, c) ==
    /\ c \in ModelRecords /\ Reading(c, s)
    /\ s \in Model!Ids /\ ModelSeen[s] = c
    /\ \A st \in LifecycleState : Model!In(s, st) <=> challenges[s].state = st

(* Every stored challenge is one that a step may start from. *)
LEMMA BeforeStep ==
    ASSUME TypeOK, NEW s \in Specs, challenges[s].exists
    PROVE  Before(s, ModelSeen[s])
<1>1. PICK c : c = ModelChallenge(s)
  OBVIOUS
<1>2. ModelSeen[s] = c
  BY <1>1, ModelKnows
<1>. QED
  BY <1>1, <1>2, ReadingNow, ModelTyped, ModelKnows, ModelIn DEF Before

(* Record q is what the step left of challenge s. *)
After(s, q) == q \in ModelRecords /\ Reading(q, s)' /\ Model!Update(s, q)

(* Every Move leaves such a record. *)
LEMMA AfterStep ==
    ASSUME TypeOK', NEW s \in Specs, Touches(s), challenges'[s].exists
    PROVE  \E q : After(s, q)
<1>1. PICK q : q = ModelChallenge(s)'
  OBVIOUS
<1>. QED
  BY <1>1, ReadingNext, ModelTypedNext, OneRecordUpdated DEF After

(* No step changes the terms. *)
LEMMA TermsKept ==
    ASSUME NEW s \in Specs, NEW c, NEW q, Before(s, c), After(s, q)
    PROVE  SameTerms(q, c)
  BY DEF Before, After, Reading, SameTerms

(* Granting an amount is what the model calls crediting it. *)
LEMMA CreditSeen ==
    ASSUME TypeOK, NEW s \in Specs, NEW W, NEW V, NEW n, NEW c, NEW q,
           Before(s, c), After(s, q), challenges[s].exists,
           challenges'[s].acceptingWallet = challenges[s].acceptingWallet,
           Grants(s, W, n), \A w \in Participants(s) \ {ZeroAddress} : w \in W <=> w \in V
    PROVE  q.entitlements = Model!Credit(c, V, n)
<1> DEFINE D == Participants(s) \ {ZeroAddress}
           E(w) == [claimable |-> entitlements[s][w].claimableAmount,
                    paid      |-> entitlements[s][w].paidAmount]
           F(w) == [claimable |-> entitlements'[s][w].claimableAmount,
                    paid      |-> entitlements'[s][w].paidAmount]
<1>1. D \subseteq Addresses
  BY ChallengeInType, StoredFields, SpecFields DEF Participants
<1>2. c.entitlements = [w \in D |-> E(w)] /\ q.entitlements = [w \in D |-> F(w)]
  BY DEF Before, After, Reading, ModelEntitlements, Participants
<1>3. \A w \in D : F(w) = IF w \in V THEN [E(w) EXCEPT !.claimable = n] ELSE E(w)
  BY <1>1 DEF Grants
<1> HIDE DEF D, E, F
<1>. QED
  BY <1>2, <1>3 DEF Model!Credit

-----------------------------------------------------------------------------
(* advanceAcceptanceNonce is the model's advanceNonce. *)
LEMMA RenonceIsModelled ==
    ASSUME Typed, TypeOK', NEW s \in Specs, NEW caller, advanceAcceptanceNonce(caller, s),
           MoveRenonce(s), Touches(s)
    PROVE  \E id \in Model!Ids : Model!In(id, "OPEN") /\ Model!advanceNonce(caller, id, now)
<1> DEFINE c == ModelSeen[s]
<1>1. /\ challenges[s].exists /\ challenges[s].state = "OPEN"
      /\ caller = s.challengerWallet /\ now < s.acceptanceDeadline
      /\ UNCHANGED <<paused, totalOutstandingLiability, usedInstanceNonces, entitlements>>
  BY DEF advanceAcceptanceNonce, InState
<1>2. challenges'[s].exists
  BY DEF MoveRenonce, SameMatch
<1>3. PICK q : Before(s, c) /\ After(s, q)
  BY <1>1, <1>2, BeforeStep, AfterStep DEF Typed
<1> HIDE DEF c
<1>4. SameTerms(q, c)
  BY <1>3, TermsKept
<1>5. /\ c.challenger = caller /\ now < c.acceptanceDeadline /\ Model!In(s, "OPEN")
  BY <1>1, <1>3 DEF Before, Reading, LifecycleState
<1>6. q.entitlements = c.entitlements /\ q.paid = c.paid
  BY <1>1, <1>3 DEF MoveRenonce, SameMatch, Before, After, Reading, ModelEntitlements,
                    Participants, ModelPaid
<1>7. /\ q.acceptor = c.acceptor /\ q.state = c.state
      /\ q.acceptanceNonce = c.acceptanceNonce + 1
      /\ q.deposited = c.deposited /\ q.outstanding = c.outstanding
  BY <1>3 DEF MoveRenonce, SameMatch, SameFunds, Before, After, Reading
<1>8. q.proposal = c.proposal /\ q.dispute = c.dispute /\ q.final = c.final
  BY <1>3 DEF MoveRenonce, SameRecords, Before, After, Reading
<1>9. Model!Update(s, [c EXCEPT !.acceptanceNonce = @ + 1])
  <2>1. c = [k \in FieldNames |-> c[k]] /\ q = [k \in FieldNames |-> q[k]]
    BY <1>3, RecordIsFunction DEF Before, After
  <2>2. \A k \in FieldNames \ {"acceptanceNonce"} : q[k] = c[k]
    BY <1>4, <1>6, <1>7, <1>8 DEF SameTerms, FieldNames
  <2>3. {"acceptanceNonce"} \subseteq FieldNames
    BY DEF FieldNames
  <2>4. q = [c EXCEPT !.acceptanceNonce = @ + 1]
    BY <1>7, <2>1, <2>2, <2>3
  <2>. QED
    BY <1>3, <2>4 DEF After, Model!Update
<1>10. Model!advanceNonce(caller, s, now)
  BY <1>1, <1>3, <1>5, <1>9
     DEF Before, After, Model!advanceNonce, Model!UpdateOnly, Model!Update, c, ModelSeen
<1>. QED
  BY <1>3, <1>5, <1>10 DEF Before

(* Both ways to close an open challenge. *)
LEMMA CloseIsModelled ==
    ASSUME Typed, TypeOK', NEW s \in Specs, NEW st \in {"CANCELLED", "EXPIRED"},
           MoveClose(s, st), Touches(s), UNCHANGED paused, NEW c, Before(s, c)
    PROVE  Model!UpdateOnly(s, [c EXCEPT !.state = st,
                                         !.entitlements = Model!Credit(c, {c.challenger}, c.stake)])
<1>1. /\ challenges[s].exists /\ challenges'[s].exists
      /\ UNCHANGED <<paused, totalOutstandingLiability, usedInstanceNonces>>
  BY DEF MoveClose, SameMatch
<1>2. PICK q : After(s, q)
  BY <1>1, AfterStep
<1>3. SameTerms(q, c)
  BY <1>2, TermsKept
<1>4. q.entitlements = Model!Credit(c, {c.challenger}, c.stake)
  <2>1. c.challenger = s.challengerWallet /\ c.stake = s.stakeAmount
    BY DEF Before, Reading
  <2>2. Grants(s, {c.challenger}, c.stake)
    BY <2>1 DEF MoveClose
  <2>. QED
    BY <1>1, <1>2, <2>2, CreditSeen DEF Typed, MoveClose, SameMatch
<1>5. q.paid = c.paid
  <2>1. \A w \in Addresses : ModelPaid(s, w)' = ModelPaid(s, w)
    BY DEF MoveClose, Grants, ModelPaid
  <2>2. /\ s.challengerWallet \in Addresses /\ challenges[s].acceptingWallet \in Addresses
        /\ challenges'[s].acceptingWallet = challenges[s].acceptingWallet
    BY <1>1, ChallengeInType, StoredFields, SpecFields DEF Typed, MoveClose, SameMatch
  <2>. QED
    BY <1>2, <2>1, <2>2 DEF Before, After, Reading, ModelPaid
<1>6. /\ q.acceptor = c.acceptor /\ q.state = st
      /\ q.acceptanceNonce = c.acceptanceNonce
      /\ q.deposited = c.deposited /\ q.outstanding = c.outstanding
  BY <1>2 DEF MoveClose, SameMatch, SameFunds, Before, After, Reading
<1>7. q.proposal = c.proposal /\ q.dispute = c.dispute /\ q.final = c.final
  BY <1>2 DEF MoveClose, SameRecords, Before, After, Reading
<1> DEFINE e == Model!Credit(c, {c.challenger}, c.stake)
<1>8. q.entitlements = e
  BY <1>4
<1> HIDE DEF e
<1>9. Model!Update(s, [c EXCEPT !.state = st, !.entitlements = e])
  <2>1. c = [k \in FieldNames |-> c[k]] /\ q = [k \in FieldNames |-> q[k]]
    BY <1>2, RecordIsFunction DEF Before, After
  <2>2. \A k \in FieldNames \ {"state", "entitlements"} : q[k] = c[k]
    BY <1>3, <1>5, <1>6, <1>7 DEF SameTerms, FieldNames
  <2>3. {"state", "entitlements"} \subseteq FieldNames
    BY DEF FieldNames
  <2>4. q = [c EXCEPT !.state = st, !.entitlements = e]
    BY <1>6, <1>8, <2>1, <2>2, <2>3
  <2>. QED
    BY <1>2, <2>4 DEF After, Model!Update
<1>. QED
  BY <1>1, <1>9 DEF Model!UpdateOnly, e

(* cancelOpen is the model's cancel. *)
LEMMA CancelIsModelled ==
    ASSUME Typed, NEW s \in Specs, NEW caller, cancelOpen(caller, s)
    PROVE  \E id \in Model!Ids : Model!In(id, "OPEN") /\ Model!cancel(caller, id, now)
<1> DEFINE c == ModelSeen[s]
<1>1. /\ challenges[s].exists /\ challenges[s].state = "OPEN" /\ InState(s, "OPEN")
      /\ caller = s.challengerWallet /\ now < s.acceptanceDeadline
      /\ CreateOpenRefund(s, "CANCELLED") /\ UNCHANGED paused
  BY DEF cancelOpen, InState, CreateOpenRefund
<1>2. MoveClose(s, "CANCELLED") /\ Touches(s) /\ TypeOK'
  BY <1>1, CloseStep
<1>3. Before(s, c)
  BY <1>1, BeforeStep DEF Typed
<1> HIDE DEF c
<1>4. c.challenger = caller /\ now < c.acceptanceDeadline /\ Model!In(s, "OPEN")
  BY <1>1, <1>3 DEF Before, Reading, LifecycleState
<1>5. Model!UpdateOnly(s, [c EXCEPT !.state = "CANCELLED",
                                    !.entitlements = Model!Credit(c, {c.challenger}, c.stake)])
  BY <1>1, <1>2, <1>3, CloseIsModelled
<1>6. Model!cancel(caller, s, now)
  BY <1>3, <1>4, <1>5 DEF Before, Model!cancel, c, ModelSeen
<1>. QED
  BY <1>3, <1>4, <1>6 DEF Before

(* expireOpen is the model's expire. *)
LEMMA ExpireIsModelled ==
    ASSUME Typed, NEW s \in Specs, expireOpen(s)
    PROVE  \E id \in Model!Ids : Model!expire(id, now)
<1> DEFINE c == ModelSeen[s]
<1>1. /\ challenges[s].exists /\ challenges[s].state = "OPEN" /\ InState(s, "OPEN")
      /\ now >= s.acceptanceDeadline
      /\ CreateOpenRefund(s, "EXPIRED") /\ UNCHANGED paused
  BY DEF expireOpen, InState, CreateOpenRefund, AcceptanceClosed
<1>2. MoveClose(s, "EXPIRED") /\ Touches(s) /\ TypeOK'
  BY <1>1, CloseStep
<1>3. Before(s, c)
  BY <1>1, BeforeStep DEF Typed
<1> HIDE DEF c
<1>4. now >= c.acceptanceDeadline /\ Model!In(s, "OPEN")
  BY <1>1, <1>3 DEF Before, Reading, LifecycleState
<1>5. Model!UpdateOnly(s, [c EXCEPT !.state = "EXPIRED",
                                    !.entitlements = Model!Credit(c, {c.challenger}, c.stake)])
  BY <1>1, <1>2, <1>3, CloseIsModelled
<1>6. Model!expire(s, now)
  BY <1>3, <1>4, <1>5 DEF Before, Model!expire, c, ModelSeen
<1>. QED
  BY <1>3, <1>6 DEF Before

-----------------------------------------------------------------------------
(* The contract's nonce stays within the bound of the model's actions. *)
NonceBounded ==
    \A s \in Specs : challenges[s].exists => challenges[s].acceptanceNonce <= MaxNonce

(* What the model can rely on: typed records, balanced books, few nonces. *)
Modelled == Typed /\ BooksBalance /\ NonceBounded

(* No step takes a nonce over the bound. *)
LEMMA NonceStaysBounded ==
    ASSUME Typed, NonceBounded, [Next]_vars
    PROVE  NonceBounded'
<1>1. ASSUME NEW t \in Specs, challenges'[t].exists
      PROVE  challenges'[t].acceptanceNonce <= MaxNonce
  <2>1. CASE Same(t)
    BY <1>1, <2>1 DEF Same, NonceBounded
  <2>2. CASE MoveOpen(t)
    BY <2>2, InputAssumption DEF MoveOpen
  <2>3. CASE MoveRenonce(t)
    <3>1. challenges[t].acceptanceNonce \in Nat
      BY <2>3, ChallengeInType, StoredFields DEF MoveRenonce, Typed
    <3>. QED
      BY <2>3, <3>1, InputAssumption DEF MoveRenonce
  <2>4. CASE Moves(t) /\ ~MoveOpen(t) /\ ~MoveRenonce(t)
    <3>1. challenges[t].exists /\ challenges'[t].acceptanceNonce = challenges[t].acceptanceNonce
      BY <2>4 DEF Moves, MoveAccept, MoveClose, MovePropose, MoveDispute, MoveDecide, MovePay
    <3>. QED
      BY <3>1 DEF NonceBounded
  <2>. QED
    BY <2>1, <2>2, <2>3, <2>4, StepMoves DEF Idle, Touches
<1>. QED
  BY <1>1 DEF NonceBounded

(* createAndFund is the model's create. *)
LEMMA CreateIsModelled ==
    ASSUME Modelled, NEW caller \in Callers, NEW s \in Specs, createAndFund(caller, s)
    PROVE  Model!create(caller, ModelExecution(s), now)
<1> DEFINE x == ModelExecution(s)
<1>1. MoveOpen(s) /\ Touches(s) /\ TypeOK'
  BY OpenStep DEF Modelled
<1>2. /\ ~paused /\ ValidExecution(s, now) /\ caller = s.challengerWallet
      /\ ~challenges[s].exists /\ NonceUnused(s) /\ paused' = paused
      /\ entitlements' = entitlements
  BY DEF createAndFund, MayCreate, WriteOpen
<1>3. challenges'[s].exists
  BY <1>1 DEF MoveOpen
<1>4. PICK q : After(s, q)
  BY <1>1, <1>3, AfterStep
<1>5. /\ x.id = s /\ x.nonce = s.nonce /\ x.challenger = s.challengerWallet
      /\ x.challengerSide = s.challengerSide /\ x.stake = s.stakeAmount
      /\ x.acceptanceDeadline = s.acceptanceDeadline /\ x.observationTime = s.observationTime
      /\ x.sourceCorrectionCutoff = s.sourceCorrectionCutoff
      /\ x.proposalDeadline = s.proposalDeadline
      /\ x.disputeWindow = s.disputeWindowSeconds
      /\ x.arbitrationWindow = s.arbitrationWindowSeconds /\ x.timeoutVoidAt = s.timeoutVoidAt
  BY DEF ModelExecution
<1> HIDE DEF x
<1>6. Model!ValidDates(x, now)
  BY <1>2, <1>5 DEF ValidExecution, OrderedTimeline, BoundedTimeline, Model!ValidDates
<1>7. /\ x.nonce # ZeroHash /\ <<x.challenger, x.nonce>> \notin usedInstanceNonces
      /\ x.stake \in 1..(MaxUint256 \div 2)
  BY <1>2, <1>5, SpecFields, WidthAssumption DEF ValidExecution, NonceUnused, StakeDoubles
<1>8. ModelSeen[s] = ZeroHash
  BY <1>2 DEF ModelSeen
<1>9. /\ s.challengerWallet \in Addresses /\ s.challengerWallet # ZeroAddress
      /\ challenges'[s].acceptingWallet = ZeroAddress
  BY <1>1, <1>2, SpecFields DEF MoveOpen, Callers
<1>10. /\ q.entitlements = [w \in {x.challenger} |-> Model!NoClaim]
       /\ q.paid = [challenger |-> 0, acceptor |-> 0]
  <2>1. \A w \in Addresses : /\ entitlements'[s][w].claimableAmount = 0
                             /\ entitlements'[s][w].paidAmount = 0
    BY <1>2, NoEntitlementFields DEF Modelled, BooksBalance, Books
  <2>2. Participants(s)' \ {ZeroAddress} = {x.challenger}
    BY <1>5, <1>9 DEF Participants
  <2>3. q.entitlements = [w \in {x.challenger} |->
             [claimable |-> entitlements'[s][w].claimableAmount,
              paid      |-> entitlements'[s][w].paidAmount]]
    BY <1>4, <2>2 DEF After, Reading, ModelEntitlements
  <2>4. q.entitlements = [w \in {x.challenger} |-> Model!NoClaim]
    BY <1>5, <1>9, <2>1, <2>3 DEF Model!NoClaim
  <2>5. q.paid = [challenger |-> 0, acceptor |-> 0]
    BY <1>4, <1>9, <2>1 DEF After, Reading, ModelPaid
  <2>. QED
    BY <2>4, <2>5
<1>11. /\ q.challenger = x.challenger /\ q.challengerSide = x.challengerSide
       /\ q.stake = x.stake /\ q.acceptanceDeadline = x.acceptanceDeadline
       /\ q.observationTime = x.observationTime
       /\ q.sourceCorrectionCutoff = x.sourceCorrectionCutoff
       /\ q.proposalDeadline = x.proposalDeadline /\ q.disputeWindow = x.disputeWindow
       /\ q.arbitrationWindow = x.arbitrationWindow /\ q.timeoutVoidAt = x.timeoutVoidAt
  BY <1>4, <1>5 DEF After, Reading
<1>12. /\ q.acceptor = ZeroHash /\ q.state = "OPEN" /\ q.acceptanceNonce = 0
       /\ q.deposited = x.stake /\ q.outstanding = x.stake
       /\ q.proposal = ZeroHash /\ q.dispute = ZeroHash /\ q.final = ZeroHash
  BY <1>1, <1>4, <1>5 DEF After, Reading, MoveOpen, NullAddress
<1> DEFINE e == [w \in {x.challenger} |-> Model!NoClaim]
           r == [challenger |-> 0, acceptor |-> 0]
<1>13. q.entitlements = e /\ q.paid = r
  BY <1>10
<1> HIDE DEF e, r
<1>14. q = [challenger |-> x.challenger, acceptor |-> ZeroHash,
           challengerSide |-> x.challengerSide, stake |-> x.stake, state |-> "OPEN",
           acceptanceNonce |-> 0, deposited |-> x.stake, outstanding |-> x.stake,
           paid |-> r,
           acceptanceDeadline |-> x.acceptanceDeadline,
           observationTime |-> x.observationTime,
           sourceCorrectionCutoff |-> x.sourceCorrectionCutoff,
           proposalDeadline |-> x.proposalDeadline, disputeWindow |-> x.disputeWindow,
           arbitrationWindow |-> x.arbitrationWindow, timeoutVoidAt |-> x.timeoutVoidAt,
           proposal |-> ZeroHash, dispute |-> ZeroHash, final |-> ZeroHash,
           entitlements |-> e]
  BY <1>4, <1>11, <1>12, <1>13 DEF After, ModelRecords
<1>15. Model!Update(x.id, q)
  BY <1>4, <1>5 DEF After
<1>16. /\ usedInstanceNonces' = usedInstanceNonces \cup {<<x.challenger, x.nonce>>}
       /\ totalOutstandingLiability' = totalOutstandingLiability + x.stake
  BY <1>1, <1>5 DEF MoveOpen
<1>17. ModelSeen[x.id] = ZeroHash /\ caller = x.challenger
  BY <1>2, <1>5, <1>8
<1>18. Model!create(caller, x, now)
  BY <1>2, <1>6, <1>7, <1>14, <1>15, <1>16, <1>17 DEF Model!create, ModelSeen, e, r
<1>. QED
  BY <1>18 DEF x

(* accept is the model's accept, of the nonce and expiry of the permit. *)
LEMMA AcceptIsModelled ==
    ASSUME Modelled, NEW caller \in Callers, NEW s \in Specs, NEW p \in signedPermits,
           accept(caller, s, p)
    PROVE  /\ \E n \in 0..MaxNonce, t \in Uint64 : Model!accept(caller, s, n, t, now)
           /\ s \in Model!Ids /\ Model!In(s, "OPEN")
<1> DEFINE c == ModelSeen[s]
<1>1. MoveAccept(s, p) /\ Touches(s) /\ TypeOK'
  BY AcceptStep DEF Modelled
<1>2. /\ ~paused /\ challenges[s].exists /\ challenges[s].state = "OPEN"
      /\ now < s.acceptanceDeadline /\ caller = p.acceptingWallet
      /\ ValidParticipantWallet(caller, s.challengerWallet)
      /\ p.acceptanceNonce = challenges[s].acceptanceNonce
      /\ now < p.expiresAt /\ p.expiresAt <= s.acceptanceDeadline
      /\ UNCHANGED <<paused, entitlements, usedInstanceNonces>>
  BY DEF accept, MayAccept, InState, PermitLive, WriteMatch
<1>3. challenges'[s].exists
  BY <1>1 DEF MoveAccept
<1>4. PICK q : Before(s, c) /\ After(s, q)
  BY <1>1, <1>2, <1>3, BeforeStep, AfterStep DEF Modelled, Typed
<1> HIDE DEF c
<1>5. SameTerms(q, c)
  BY <1>4, TermsKept
<1>6. /\ p.acceptanceNonce \in 0..MaxNonce /\ p.expiresAt \in Uint64
  <2>1. challenges[s].acceptanceNonce \in Nat
    BY <1>2, ChallengeInType, StoredFields DEF Modelled, Typed
  <2>2. p.expiresAt \in Uint64
    BY InputAssumption DEF Modelled, Typed, TypeOK, AcceptancePermit
  <2>. QED
    BY <1>2, <2>1, <2>2, InputAssumption DEF Modelled, NonceBounded
<1>7. /\ Model!In(s, "OPEN") /\ now < c.acceptanceDeadline
      /\ p.acceptanceNonce = c.acceptanceNonce /\ p.expiresAt <= c.acceptanceDeadline
  BY <1>2, <1>4 DEF Before, Reading, LifecycleState
<1>8. /\ caller \in Addresses /\ caller # ZeroAddress /\ caller # s.challengerWallet
      /\ caller \notin {ZeroHash, s.challengerWallet, Resolver, Arbiter, Pauser}
  BY <1>2, NullAssumption
     DEF Callers, ValidParticipantWallet, ValidChallengerWallet, KernelChallengerWallet
<1>9. /\ s.challengerWallet \in Addresses /\ s.challengerWallet # ZeroAddress
      /\ challenges[s].acceptingWallet = ZeroAddress
      /\ challenges'[s].acceptingWallet = caller
      /\ entitlements[s][caller] = NoEntitlement
  BY <1>1, <1>2, <1>8, SpecFields
     DEF MoveAccept, Modelled, Typed, WellFormed, Validated, Shape, Unmatched, ValidExecution,
         ValidChallengerWallet, KernelChallengerWallet, BooksBalance, Books
<1> DEFINE e == [w \in DOMAIN c.entitlements \cup {caller} |->
                    IF w = caller THEN Model!NoClaim ELSE c.entitlements[w]]
           E(w) == [claimable |-> entitlements[s][w].claimableAmount,
                    paid      |-> entitlements[s][w].paidAmount]
<1>10. q.entitlements = e /\ q.paid = c.paid
  <2>1. /\ c.entitlements = [w \in {s.challengerWallet} |-> E(w)]
        /\ q.entitlements = [w \in {s.challengerWallet, caller} |-> E(w)]
    <3>1. /\ Participants(s) \ {ZeroAddress} = {s.challengerWallet}
          /\ Participants(s)' \ {ZeroAddress} = {s.challengerWallet, caller}
      BY <1>8, <1>9 DEF Participants
    <3>. QED
      BY <1>2, <1>4, <3>1 DEF Before, After, Reading, ModelEntitlements
  <2>2. E(caller) = Model!NoClaim
    BY <1>9, NoEntitlementFields DEF Model!NoClaim
  <2>3. q.paid = c.paid
    BY <1>2, <1>4, <1>8, <1>9, NoEntitlementFields DEF Before, After, Reading, ModelPaid
  <2> HIDE DEF E
  <2>4. /\ DOMAIN c.entitlements = {s.challengerWallet}
        /\ c.entitlements[s.challengerWallet] = E(s.challengerWallet)
    BY <2>1
  <2>5. e = [w \in {s.challengerWallet, caller} |-> E(w)]
    BY <1>8, <2>2, <2>4
  <2>. QED
    BY <2>1, <2>3, <2>5
<1> HIDE DEF e
<1>11. /\ q.acceptor = caller /\ q.state = "ACTIVE"
       /\ q.acceptanceNonce = c.acceptanceNonce
       /\ q.deposited = c.deposited + c.stake /\ q.outstanding = c.outstanding + c.stake
  BY <1>1, <1>4, <1>8, <1>9 DEF MoveAccept, Before, After, Reading, NullAddress
<1>12. q.proposal = c.proposal /\ q.dispute = c.dispute /\ q.final = c.final
  BY <1>1, <1>4 DEF MoveAccept, SameRecords, Before, After, Reading
<1>13. Model!Update(s, [c EXCEPT !.acceptor = caller, !.deposited = @ + c.stake,
                                 !.outstanding = @ + c.stake, !.state = "ACTIVE",
                                 !.entitlements = e])
  <2>1. c = [k \in FieldNames |-> c[k]] /\ q = [k \in FieldNames |-> q[k]]
    BY <1>4, RecordIsFunction DEF Before, After
  <2>2. \A k \in FieldNames \ {"acceptor", "deposited", "outstanding", "state",
                               "entitlements"} : q[k] = c[k]
    BY <1>5, <1>10, <1>11, <1>12 DEF SameTerms, FieldNames
  <2>3. {"acceptor", "deposited", "outstanding", "state", "entitlements"} \subseteq FieldNames
    BY DEF FieldNames
  <2>4. q = [c EXCEPT !.acceptor = caller, !.deposited = @ + c.stake,
                      !.outstanding = @ + c.stake, !.state = "ACTIVE", !.entitlements = e]
    BY <1>10, <1>11, <2>1, <2>2, <2>3
  <2>. QED
    BY <1>4, <2>4 DEF After, Model!Update
<1>14. totalOutstandingLiability' = totalOutstandingLiability + c.stake
  BY <1>1, <1>4 DEF MoveAccept, Before, Reading
<1>15. /\ ModelSeen[s] = c /\ Model!Update(s, q)
       /\ caller \notin {ZeroHash, c.challenger, Resolver, Arbiter, Pauser}
  BY <1>4, <1>8 DEF Before, After, Reading
<1>16. Model!accept(caller, s, p.acceptanceNonce, p.expiresAt, now)
  BY <1>2, <1>7, <1>13, <1>14, <1>15 DEF Model!accept, c, ModelSeen, e
<1>. QED
  BY <1>4, <1>6, <1>7, <1>16 DEF Before

(* propose is the model's propose: the model keeps one bit of the reason. *)
LEMMA ProposeIsModelled ==
    ASSUME Modelled, NEW caller \in Callers, NEW s \in Specs, NEW outcome \in Outcome,
           NEW reason \in ReasonCodes, NEW evidenceHash \in Hashes,
           propose(caller, s, outcome, reason, evidenceHash)
    PROVE  /\ Model!propose(caller, s, outcome, reason = TERMS_UNRESOLVABLE, evidenceHash, now)
           /\ s \in Model!Ids /\ Model!In(s, "ACTIVE")
<1> DEFINE c == ModelSeen[s]
<1>1. PICK p \in Proposal : /\ MovePropose(s, p)
                            /\ p.outcome = outcome /\ p.evidenceHash = evidenceHash
  BY ProposeStep DEF Modelled
<1>2. Touches(s) /\ TypeOK'
  BY ProposeStep DEF Modelled
<1>3. /\ ~paused /\ challenges[s].exists /\ challenges[s].state = "ACTIVE"
      /\ caller = Resolver /\ s.observationTime <= now /\ now < s.proposalDeadline
      /\ evidenceHash # ZeroHash /\ ProposableNow(s, outcome, reason)
      /\ UNCHANGED <<paused, totalOutstandingLiability, usedInstanceNonces, entitlements>>
  BY DEF propose, InState
<1>4. challenges'[s].exists
  BY <1>1 DEF MovePropose, SameMatch
<1>5. PICK q : Before(s, c) /\ After(s, q)
  BY <1>2, <1>3, <1>4, BeforeStep, AfterStep DEF Modelled, Typed
<1> HIDE DEF c
<1>6. SameTerms(q, c)
  BY <1>5, TermsKept
<1>7. q.entitlements = c.entitlements /\ q.paid = c.paid
  BY <1>1, <1>3, <1>5 DEF MovePropose, SameMatch, Before, After, Reading, ModelEntitlements,
                          Participants, ModelPaid
<1>8. /\ q.acceptor = c.acceptor /\ q.state = "PROPOSED"
      /\ q.acceptanceNonce = c.acceptanceNonce
      /\ q.deposited = c.deposited /\ q.outstanding = c.outstanding
  BY <1>1, <1>5 DEF MovePropose, SameMatch, SameFunds, Before, After, Reading
<1> DEFINE r == [outcome |-> outcome, evidenceHash |-> evidenceHash, proposedAt |-> now,
                 disputeDeadline |-> now + c.disputeWindow]
<1>9. q.proposal = r /\ q.dispute = c.dispute /\ q.final = c.final
  BY <1>1, <1>5 DEF MovePropose, Before, After, Reading
<1> HIDE DEF r
<1>10. Model!Update(s, [c EXCEPT !.state = "PROPOSED", !.proposal = r])
  <2>1. c = [k \in FieldNames |-> c[k]] /\ q = [k \in FieldNames |-> q[k]]
    BY <1>5, RecordIsFunction DEF Before, After
  <2>2. \A k \in FieldNames \ {"state", "proposal"} : q[k] = c[k]
    BY <1>6, <1>7, <1>8, <1>9 DEF SameTerms, FieldNames
  <2>3. {"state", "proposal"} \subseteq FieldNames
    BY DEF FieldNames
  <2>4. q = [c EXCEPT !.state = "PROPOSED", !.proposal = r]
    BY <1>8, <1>9, <2>1, <2>2, <2>3
  <2>. QED
    BY <1>5, <2>4 DEF After, Model!Update
<1>11. /\ Model!In(s, "ACTIVE") /\ ModelSeen[s] = c /\ Model!Update(s, q)
       /\ Model!ProposalOpen(c, now)
       /\ outcome = "VOID" /\ reason # TERMS_UNRESOLVABLE => now >= c.sourceCorrectionCutoff
  BY <1>3, <1>5 DEF Before, After, Reading, LifecycleState, Model!ProposalOpen, ProposableNow
<1>12. Model!propose(caller, s, outcome, reason = TERMS_UNRESOLVABLE, evidenceHash, now)
  BY <1>3, <1>10, <1>11 DEF Model!propose, Model!UpdateOnly, c, ModelSeen, r
<1>. QED
  BY <1>5, <1>11, <1>12 DEF Before

(* The model's participants are the contract's, null standing for none. *)
LEMMA ParticipantsSeen ==
    ASSUME NEW s \in Specs, NEW c, Before(s, c), NEW w \in Addresses \ {ZeroAddress}
    PROVE  w \in Participants(s) <=> w \in Model!Participants(c)
<1>1. /\ c.challenger = s.challengerWallet
      /\ c.acceptor = NullAddress(challenges[s].acceptingWallet)
  BY DEF Before, Reading
<1>. QED
  BY <1>1, NullAssumption DEF Participants, Model!Participants, NullAddress

(* dispute is the model's dispute. *)
LEMMA DisputeIsModelled ==
    ASSUME Modelled, NEW caller \in Callers, NEW s \in Specs, NEW outcome \in Outcome,
           NEW reason \in ReasonCodes, NEW evidenceHash \in Hashes, NEW parent \in Hashes,
           dispute(caller, s, outcome, reason, evidenceHash, parent)
    PROVE  /\ Model!dispute(caller, s, outcome, evidenceHash, parent, now)
           /\ s \in Model!Ids /\ Model!In(s, "PROPOSED")
<1> DEFINE c == ModelSeen[s]
<1>1. PICK d \in Dispute : /\ MoveDispute(s, d)
                           /\ d.outcome = outcome /\ d.evidenceHash = evidenceHash
                           /\ d.parentEvidenceHash = parent
  BY DisputeStep DEF Modelled
<1>2. Touches(s) /\ TypeOK'
  BY DisputeStep DEF Modelled
<1>3. /\ challenges[s].exists /\ challenges[s].state = "PROPOSED"
      /\ caller \in Participants(s) /\ now < challenges[s].proposal.disputeDeadline
      /\ outcome # challenges[s].proposal.outcome /\ evidenceHash # ZeroHash
      /\ parent = challenges[s].proposal.evidenceHash
      /\ UNCHANGED <<paused, totalOutstandingLiability, usedInstanceNonces, entitlements>>
  BY DEF dispute, InState, ParentMatches
<1>4. challenges'[s].exists /\ challenges[s].proposal.exists
  BY <1>1, <1>3 DEF MoveDispute, SameMatch, Modelled, Typed, WellFormed, Shape
<1>5. PICK q : Before(s, c) /\ After(s, q)
  BY <1>2, <1>3, <1>4, BeforeStep, AfterStep DEF Modelled, Typed
<1> HIDE DEF c
<1>6. SameTerms(q, c)
  BY <1>5, TermsKept
<1>7. q.entitlements = c.entitlements /\ q.paid = c.paid
  BY <1>1, <1>3, <1>5 DEF MoveDispute, SameMatch, Before, After, Reading, ModelEntitlements,
                          Participants, ModelPaid
<1>8. /\ q.acceptor = c.acceptor /\ q.state = "DISPUTED"
      /\ q.acceptanceNonce = c.acceptanceNonce
      /\ q.deposited = c.deposited /\ q.outstanding = c.outstanding
  BY <1>1, <1>5 DEF MoveDispute, SameMatch, SameFunds, Before, After, Reading
<1> DEFINE start == IF now < c.sourceCorrectionCutoff THEN c.sourceCorrectionCutoff ELSE now
           r == [outcome |-> outcome, evidenceHash |-> evidenceHash,
                 parentEvidenceHash |-> parent, disputedAt |-> now,
                 arbitrationStart |-> start,
                 arbitrationDeadline |-> start + c.arbitrationWindow]
<1>9. q.dispute = r /\ q.proposal = c.proposal /\ q.final = c.final
  <2>1. q.proposal = c.proposal /\ q.final = c.final
    BY <1>1, <1>5 DEF MoveDispute, Before, After, Reading
  <2>2. /\ d.exists /\ d.disputedAt = now /\ d.arbitrationStart = start
        /\ d.arbitrationDeadline = start + c.arbitrationWindow
    BY <1>1, <1>5 DEF MoveDispute, Before, Reading, ArbitrationStart
  <2> HIDE DEF start
  <2>3. challenges'[s].dispute = d
    BY <1>1 DEF MoveDispute
  <2>4. q.dispute = [outcome |-> d.outcome, evidenceHash |-> d.evidenceHash,
                     parentEvidenceHash |-> d.parentEvidenceHash,
                     disputedAt |-> d.disputedAt, arbitrationStart |-> d.arbitrationStart,
                     arbitrationDeadline |-> d.arbitrationDeadline]
    BY <1>5, <2>2, <2>3 DEF After, Reading
  <2>. QED
    BY <1>1, <2>1, <2>2, <2>4
<1> HIDE DEF r
<1>10. Model!Update(s, [c EXCEPT !.state = "DISPUTED", !.dispute = r])
  <2>1. c = [k \in FieldNames |-> c[k]] /\ q = [k \in FieldNames |-> q[k]]
    BY <1>5, RecordIsFunction DEF Before, After
  <2>2. \A k \in FieldNames \ {"state", "dispute"} : q[k] = c[k]
    BY <1>6, <1>7, <1>8, <1>9 DEF SameTerms, FieldNames
  <2>3. {"state", "dispute"} \subseteq FieldNames
    BY DEF FieldNames
  <2>4. q = [c EXCEPT !.state = "DISPUTED", !.dispute = r]
    BY <1>8, <1>9, <2>1, <2>2, <2>3
  <2>. QED
    BY <1>5, <2>4 DEF After, Model!Update
<1>11. /\ Model!In(s, "PROPOSED") /\ ModelSeen[s] = c /\ Model!Update(s, q)
       /\ c.proposal.disputeDeadline = challenges[s].proposal.disputeDeadline
       /\ c.proposal.outcome = challenges[s].proposal.outcome
       /\ c.proposal.evidenceHash = challenges[s].proposal.evidenceHash
  BY <1>3, <1>4, <1>5 DEF Before, After, Reading, LifecycleState
<1>12. caller \in Model!Participants(c)
  BY <1>3, <1>5, ParticipantsSeen DEF Callers
<1>13. Model!dispute(caller, s, outcome, evidenceHash, parent, now)
  BY <1>3, <1>10, <1>11, <1>12 DEF Model!dispute, Model!UpdateOnly, c, ModelSeen, r
<1>. QED
  BY <1>5, <1>11, <1>13 DEF Before

(* The model's final record of a decision, and whom it credits. *)
LEMMA DecideIsModelled ==
    ASSUME Modelled, TypeOK', NEW s \in Specs, NEW f \in FinalResolution,
           MoveDecide(s, f), Touches(s), UNCHANGED paused
    PROVE  Model!SetFinal(s, f.outcome, f.finalEvidenceHash)
<1> DEFINE c == ModelSeen[s]
<1>1. /\ challenges[s].exists /\ f.exists /\ f.outcome \in Outcome
      /\ challenges[s].state \in {"ACTIVE", "PROPOSED", "DISPUTED"}
  BY DEF MoveDecide, DecidedBy, FinalResolution
<1>2. /\ challenges'[s].exists
      /\ challenges'[s].acceptingWallet = challenges[s].acceptingWallet
      /\ UNCHANGED <<paused, totalOutstandingLiability, usedInstanceNonces>>
  BY <1>1 DEF MoveDecide, SameMatch
<1>3. PICK q : Before(s, c) /\ After(s, q)
  BY <1>1, <1>2, BeforeStep, AfterStep DEF Modelled, Typed
<1> HIDE DEF c
<1>4. SameTerms(q, c)
  BY <1>3, TermsKept
<1>5. /\ s.challengerWallet \in Addresses \ {ZeroAddress}
      /\ challenges[s].acceptingWallet \in Addresses \ {ZeroAddress}
      /\ s.challengerWallet # challenges[s].acceptingWallet
  BY <1>1, SpecFields, ChallengeInType, StoredFields
     DEF Modelled, Typed, WellFormed, Validated, Shape, Unmatched, ValidExecution,
         ValidChallengerWallet, KernelChallengerWallet
<1>6. /\ c.challenger = s.challengerWallet /\ c.acceptor = challenges[s].acceptingWallet
      /\ c.challengerSide = s.challengerSide /\ c.stake = s.stakeAmount
  BY <1>3, <1>5 DEF Before, Reading, NullAddress
<1>7. q.paid = c.paid
  <2>1. ModelPaid(s, s.challengerWallet)' = ModelPaid(s, s.challengerWallet)
    BY <1>5 DEF MoveDecide, Grants, ModelPaid
  <2>2. entitlements'[s][challenges[s].acceptingWallet].paidAmount
          = entitlements[s][challenges[s].acceptingWallet].paidAmount
    BY <1>5 DEF MoveDecide, Grants
  <2>. QED
    BY <1>2, <1>3, <1>5, <2>1, <2>2 DEF Before, After, Reading, ModelPaid
<1> DEFINE e == IF f.outcome = "VOID" THEN Model!Credit(c, Model!Participants(c), c.stake)
                ELSE Model!Credit(c, {Model!Winner(c, f.outcome)}, c.stake * 2)
           st == CASE f.outcome = "A"    -> "RESOLVED_A"
                   [] f.outcome = "B"    -> "RESOLVED_B"
                   [] f.outcome = "VOID" -> "VOID"
           r == [outcome |-> f.outcome, evidenceHash |-> f.finalEvidenceHash]
<1>8. q.entitlements = e
  <2>1. CASE f.outcome = "VOID"
    <3>1. Grants(s, Participants(s), s.stakeAmount)
      BY <2>1 DEF MoveDecide
    <3>2. q.entitlements = Model!Credit(c, Model!Participants(c), s.stakeAmount)
      <4>1. \A w \in Participants(s) \ {ZeroAddress} :
               w \in Participants(s) <=> w \in Model!Participants(c)
        BY <1>3, <1>5, ParticipantsSeen DEF Participants
      <4>. QED
        BY <1>1, <1>2, <1>3, <3>1, <4>1, CreditSeen DEF Modelled, Typed
    <3>. QED
      BY <1>6, <2>1, <3>2
  <2>2. CASE f.outcome # "VOID"
    <3>1. Grants(s, {WinnerWallet(s, f.outcome)}, 2 * s.stakeAmount)
      BY <2>2 DEF MoveDecide
    <3>2. WinnerWallet(s, f.outcome) = Model!Winner(c, f.outcome)
      BY <1>6 DEF WinnerWallet, Model!Winner
    <3>3. q.entitlements = Model!Credit(c, {Model!Winner(c, f.outcome)}, 2 * s.stakeAmount)
      BY <1>1, <1>2, <1>3, <3>1, <3>2, CreditSeen DEF Modelled, Typed
    <3>4. 2 * s.stakeAmount = c.stake * 2
      BY <1>6, SpecFields
    <3>. QED
      BY <2>2, <3>3, <3>4
  <2>. QED
    BY <2>1, <2>2
<1>9. q.state = st
  <2>1. q.state = FinalState(f.outcome)
    BY <1>3 DEF MoveDecide, After, Reading
  <2>. QED
    BY <1>1, <2>1 DEF FinalState, ResolvedState, Outcome
<1>10. /\ q.acceptor = c.acceptor /\ q.acceptanceNonce = c.acceptanceNonce
       /\ q.deposited = c.deposited /\ q.outstanding = c.outstanding
  BY <1>3 DEF MoveDecide, SameMatch, SameFunds, Before, After, Reading
<1>11. q.proposal = c.proposal /\ q.dispute = c.dispute /\ q.final = r
  BY <1>1, <1>3 DEF MoveDecide, Before, After, Reading
<1> HIDE DEF e, st, r
<1>12. Model!Update(s, [c EXCEPT !.final = r, !.state = st, !.entitlements = e])
  <2>1. c = [k \in FieldNames |-> c[k]] /\ q = [k \in FieldNames |-> q[k]]
    BY <1>3, RecordIsFunction DEF Before, After
  <2>2. \A k \in FieldNames \ {"final", "state", "entitlements"} : q[k] = c[k]
    BY <1>4, <1>7, <1>10, <1>11 DEF SameTerms, FieldNames
  <2>3. {"final", "state", "entitlements"} \subseteq FieldNames
    BY DEF FieldNames
  <2>4. q = [c EXCEPT !.final = r, !.state = st, !.entitlements = e]
    BY <1>8, <1>9, <1>11, <2>1, <2>2, <2>3
  <2>. QED
    BY <1>3, <2>4 DEF After, Model!Update
<1>13. ModelSeen[s] = c /\ Model!Update(s, q)
  BY <1>3 DEF Before, After
<1>. QED
  BY <1>2, <1>12, <1>13 DEF Model!SetFinal, Model!UpdateOnly, c, ModelSeen, e, st, r

(* finalizeUncontested is the model's finalize. *)
LEMMA FinalizeIsModelled ==
    ASSUME Modelled, NEW s \in Specs, finalizeUncontested(s)
    PROVE  s \in Model!Ids /\ Model!finalize(s, now)
<1> DEFINE c == ModelSeen[s]
<1>1. PICK f \in FinalResolution :
        /\ MoveDecide(s, f)
        /\ f.outcome = challenges[s].proposal.outcome
        /\ f.finalEvidenceHash = challenges[s].proposal.evidenceHash
  BY FinalizeUncontestedStep DEF Modelled, Reads
<1>2. Touches(s) /\ TypeOK'
  BY FinalizeUncontestedStep DEF Modelled
<1>3. /\ challenges[s].exists /\ challenges[s].state = "PROPOSED" /\ UNCHANGED paused
      /\ now >= challenges[s].proposal.disputeDeadline
  BY DEF finalizeUncontested, InState, Finalize
<1>4. Model!SetFinal(s, f.outcome, f.finalEvidenceHash)
  BY <1>1, <1>2, <1>3, DecideIsModelled
<1>5. challenges[s].proposal.exists
  BY <1>3 DEF Modelled, Typed, WellFormed, Shape
<1>6. Before(s, c)
  BY <1>3, BeforeStep DEF Modelled, Typed
<1> HIDE DEF c
<1>7. /\ Model!In(s, "PROPOSED") /\ ModelSeen[s] = c
      /\ c.proposal.outcome = f.outcome /\ c.proposal.evidenceHash = f.finalEvidenceHash
      /\ now >= c.proposal.disputeDeadline
  BY <1>1, <1>3, <1>5, <1>6 DEF Before, Reading, LifecycleState
<1>8. Model!SetFinal(s, c.proposal.outcome, c.proposal.evidenceHash)
  BY <1>4, <1>7 DEF Model!SetFinal, Model!UpdateOnly, Model!Update
<1>9. Model!finalize(s, now)
  BY <1>7, <1>8 DEF Model!finalize, c, ModelSeen
<1>. QED
  BY <1>6, <1>9 DEF Before

(* arbitrate is the model's arbitrate. *)
LEMMA ArbitrateIsModelled ==
    ASSUME Modelled, NEW caller \in Callers, NEW s \in Specs, NEW outcome \in Outcome,
           NEW reason \in ReasonCodes, NEW evidenceHash \in Hashes, NEW parent \in Hashes,
           arbitrate(caller, s, outcome, reason, evidenceHash, parent)
    PROVE  /\ Model!arbitrate(caller, s, outcome, evidenceHash, parent, now)
           /\ s \in Model!Ids /\ Model!In(s, "DISPUTED")
<1> DEFINE c == ModelSeen[s]
<1>1. PICK f \in FinalResolution :
        MoveDecide(s, f) /\ f.outcome = outcome /\ f.finalEvidenceHash = evidenceHash
  BY ArbitrateStep DEF Modelled, Reads
<1>2. Touches(s) /\ TypeOK'
  BY ArbitrateStep DEF Modelled
<1>3. /\ challenges[s].exists /\ challenges[s].state = "DISPUTED" /\ UNCHANGED paused
      /\ caller = Arbiter /\ s.sourceCorrectionCutoff <= now
      /\ now < challenges[s].dispute.arbitrationDeadline
      /\ evidenceHash # ZeroHash /\ parent = challenges[s].dispute.evidenceHash
  BY DEF arbitrate, InState, ArbitrationOpen, ParentMatches, Finalize
<1>4. Model!SetFinal(s, outcome, evidenceHash)
  BY <1>1, <1>2, <1>3, DecideIsModelled
<1>5. challenges[s].dispute.exists
  BY <1>3 DEF Modelled, Typed, WellFormed, Shape
<1>6. Before(s, c)
  BY <1>3, BeforeStep DEF Modelled, Typed
<1> HIDE DEF c
<1>7. /\ Model!In(s, "DISPUTED") /\ ModelSeen[s] = c
      /\ c.sourceCorrectionCutoff <= now /\ now < c.dispute.arbitrationDeadline
      /\ parent = c.dispute.evidenceHash
  BY <1>3, <1>5, <1>6 DEF Before, Reading, LifecycleState
<1>8. Model!arbitrate(caller, s, outcome, evidenceHash, parent, now)
  BY <1>3, <1>4, <1>7 DEF Model!arbitrate, c, ModelSeen
<1>. QED
  BY <1>6, <1>7, <1>8 DEF Before

(* The two timeouts are the model's. *)
LEMMA TimeoutIsModelled ==
    ASSUME Modelled, NEW s \in Specs, voidUnproposed(s) \/ voidUnarbitrated(s)
    PROVE  s \in Model!Ids /\ (Model!voidUnproposed(s, now) \/ Model!voidUnarbitrated(s, now))
<1> DEFINE c == ModelSeen[s]
<1>1. PICK f \in FinalResolution :
        MoveDecide(s, f) /\ f.outcome = "VOID" /\ f.finalEvidenceHash = ZeroHash
  BY UnproposedStep, UnarbitratedStep DEF Modelled, Reads
<1>2. Touches(s) /\ TypeOK'
  BY UnproposedStep, UnarbitratedStep DEF Modelled
<1>3. /\ challenges[s].exists /\ UNCHANGED paused
      /\ \/ challenges[s].state = "ACTIVE" /\ now >= s.proposalDeadline
         \/ /\ challenges[s].state = "DISPUTED"
            /\ now >= challenges[s].dispute.arbitrationDeadline
  BY DEF voidUnproposed, voidUnarbitrated, InState, Finalize
<1>4. Model!SetFinal(s, "VOID", ZeroHash)
  BY <1>1, <1>2, <1>3, DecideIsModelled
<1>5. challenges[s].state = "DISPUTED" => challenges[s].dispute.exists
  BY <1>3 DEF Modelled, Typed, WellFormed, Shape
<1>6. Before(s, c)
  BY <1>3, BeforeStep DEF Modelled, Typed
<1> HIDE DEF c
<1>7. /\ ModelSeen[s] = c
      /\ \/ Model!In(s, "ACTIVE") /\ now >= c.proposalDeadline
         \/ Model!In(s, "DISPUTED") /\ now >= c.dispute.arbitrationDeadline
  BY <1>3, <1>5, <1>6 DEF Before, Reading, LifecycleState
<1>8. Model!voidUnproposed(s, now) \/ Model!voidUnarbitrated(s, now)
  BY <1>4, <1>7 DEF Model!voidUnproposed, Model!voidUnarbitrated, c, ModelSeen
<1>. QED
  BY <1>6, <1>8 DEF Before

(* _consumeAndPay is the model's consume. *)
LEMMA PaymentIsModelled ==
    ASSUME Modelled, TypeOK', NEW s \in Specs, NEW w \in Callers, NEW amount \in Nat,
           MovePay(s, w, amount), Touches(s), UNCHANGED paused
    PROVE  Model!Consume(s, w, amount)
<1> DEFINE c == ModelSeen[s]
<1>1. /\ challenges[s].exists /\ challenges'[s].exists
      /\ challenges'[s].acceptingWallet = challenges[s].acceptingWallet
      /\ w \in Participants(s) /\ w \in Addresses /\ w # ZeroAddress
      /\ UNCHANGED <<paused, usedInstanceNonces>>
  BY DEF MovePay, SameMatch, Callers
<1>2. PICK q : Before(s, c) /\ After(s, q)
  BY <1>1, BeforeStep, AfterStep DEF Modelled, Typed
<1> HIDE DEF c
<1>3. SameTerms(q, c)
  BY <1>2, TermsKept
<1> DEFINE D == Participants(s) \ {ZeroAddress}
           E(v) == [claimable |-> entitlements[s][v].claimableAmount,
                    paid      |-> entitlements[s][v].paidAmount]
           F(v) == [claimable |-> entitlements'[s][v].claimableAmount,
                    paid      |-> entitlements'[s][v].paidAmount]
           g == [claimable |-> 0, paid |-> amount]
<1>4. D \subseteq Addresses /\ w \in D
  BY <1>1, ChallengeInType, StoredFields, SpecFields DEF Participants, Modelled, Typed
<1>5. c.entitlements = [v \in D |-> E(v)] /\ q.entitlements = [v \in D |-> F(v)]
  BY <1>1, <1>2 DEF Before, After, Reading, ModelEntitlements, Participants
<1>6. /\ E(w) = [claimable |-> amount, paid |-> 0] /\ F(w) = g
      /\ \A v \in D \ {w} : F(v) = E(v)
  BY <1>4 DEF MovePay
<1>7. /\ w \in DOMAIN c.entitlements
      /\ c.entitlements[w] = [claimable |-> amount, paid |-> 0]
  BY <1>4, <1>5, <1>6
<1>8. q.entitlements = [c.entitlements EXCEPT ![w] = g]
  <2> HIDE DEF D, E, F, g
  <2>. QED
    BY <1>4, <1>5, <1>6
<1> DEFINE r == [challenger |-> c.paid.challenger + (IF w = c.challenger THEN amount ELSE 0),
                 acceptor   |-> c.paid.acceptor + (IF w = c.acceptor THEN amount ELSE 0)]
<1>9. q.paid = r
  <2> DEFINE a == s.challengerWallet
             b == challenges[s].acceptingWallet
  <2>1. /\ a \in Addresses \ {ZeroAddress} /\ b \in Addresses /\ a # b
        /\ w \in {a, b}
    BY <1>1, SpecFields, ChallengeInType, StoredFields
       DEF Modelled, Typed, WellFormed, Validated, Shape, ValidExecution,
           ValidChallengerWallet, KernelChallengerWallet, Participants
  <2>2. \A v \in Addresses : ModelPaid(s, v) \in Nat
    BY AmountTypes DEF Modelled, Typed, ModelPaid
  <2>3. /\ c.paid = [challenger |-> ModelPaid(s, a), acceptor |-> ModelPaid(s, b)]
        /\ c.challenger = a /\ c.acceptor = NullAddress(b)
    BY <1>2 DEF Before, Reading
  <2>4. q.paid.challenger = ModelPaid(s, a)' /\ q.paid.acceptor = ModelPaid(s, b)'
        /\ q.paid = [challenger |-> q.paid.challenger, acceptor |-> q.paid.acceptor]
    BY <1>1, <1>2 DEF After, Reading, ModelPaid
  <2>5. /\ ModelPaid(s, w) = 0 /\ ModelPaid(s, w)' = amount
        /\ \A v \in Addresses \ {w} : ModelPaid(s, v)' = ModelPaid(s, v)
    BY <1>1 DEF MovePay, ModelPaid
  <2>6. w = c.acceptor <=> w = b
    BY <1>1, <2>3, NullAssumption DEF NullAddress
  <2>7. /\ q.paid.challenger = c.paid.challenger + (IF w = c.challenger THEN amount ELSE 0)
        /\ q.paid.acceptor = c.paid.acceptor + (IF w = c.acceptor THEN amount ELSE 0)
    <3>1. c.paid.challenger = ModelPaid(s, a) /\ c.paid.acceptor = ModelPaid(s, b)
      BY <2>3
    <3> HIDE DEF a, b
    <3>2. ModelPaid(s, a)' = ModelPaid(s, a) + (IF w = a THEN amount ELSE 0)
      <4>1. CASE w = a
        BY <2>5, <4>1 DEF a
      <4>2. CASE w # a
        BY <2>1, <2>2, <2>5, <4>2 DEF a
      <4>. QED
        BY <4>1, <4>2
    <3>3. ModelPaid(s, b)' = ModelPaid(s, b) + (IF w = b THEN amount ELSE 0)
      <4>1. CASE w = b
        BY <1>1, <2>5, <4>1 DEF b, ModelPaid
      <4>2. CASE w # b
        BY <1>1, <2>1, <2>2, <2>5, <4>2 DEF b, ModelPaid
      <4>. QED
        BY <4>1, <4>2
    <3>. QED
      BY <2>3, <2>4, <2>6, <3>1, <3>2, <3>3
  <2>. QED
    BY <2>4, <2>7
<1>10. /\ q.acceptor = c.acceptor /\ q.state = c.state
       /\ q.acceptanceNonce = c.acceptanceNonce
       /\ q.deposited = c.deposited /\ q.outstanding = c.outstanding - amount
  BY <1>2 DEF MovePay, SameMatch, Before, After, Reading
<1>11. q.proposal = c.proposal /\ q.dispute = c.dispute /\ q.final = c.final
  BY <1>2 DEF MovePay, SameRecords, Before, After, Reading
<1> DEFINE e == [c.entitlements EXCEPT ![w] = g]
<1>12. q.entitlements = e
  BY <1>8
<1> HIDE DEF D, E, F, g, r, e
<1>13. q = [c EXCEPT !.entitlements = e, !.paid = r, !.outstanding = @ - amount]
  <2>1. c = [k \in FieldNames |-> c[k]] /\ q = [k \in FieldNames |-> q[k]]
    BY <1>2, RecordIsFunction DEF Before, After
  <2>2. \A k \in FieldNames \ {"entitlements", "paid", "outstanding"} : q[k] = c[k]
    BY <1>3, <1>10, <1>11 DEF SameTerms, FieldNames
  <2>3. {"entitlements", "paid", "outstanding"} \subseteq FieldNames
    BY DEF FieldNames
  <2>. QED
    BY <1>9, <1>10, <1>12, <2>1, <2>2, <2>3
<1>14. Model!Update(s, [c EXCEPT !.entitlements[w] = g, !.paid = r, !.outstanding = @ - amount])
  <2>1. Model!Update(s, [c EXCEPT !.entitlements = e, !.paid = r, !.outstanding = @ - amount])
    BY <1>2, <1>13 DEF After, Model!Update
  <2>. QED
    BY <2>1 DEF e
<1>15. /\ ModelSeen[s] = c /\ Model!Update(s, q) /\ c.outstanding >= amount
       /\ totalOutstandingLiability >= amount
       /\ totalOutstandingLiability' = totalOutstandingLiability - amount
  BY <1>2 DEF Before, After, Reading, MovePay
<1>. QED
  BY <1>1, <1>7, <1>14, <1>15 DEF Model!Consume, c, ModelSeen, g, r

(* claimWinnings is the model's claim. *)
LEMMA ClaimIsModelled ==
    ASSUME Modelled, NEW caller \in Callers, NEW s \in Specs, claimWinnings(caller, s)
    PROVE  s \in Model!Ids /\ Model!claim(caller, s)
<1> DEFINE c == ModelSeen[s]
<1>1. /\ challenges[s].exists /\ challenges[s].state \in {"RESOLVED_A", "RESOLVED_B"}
      /\ caller = WinnerWallet(s, challenges[s].finalResolution.outcome)
      /\ ConsumeAndPay(s, caller, s.stakeAmount * 2) /\ UNCHANGED paused
  BY DEF claimWinnings, MayClaim, ConsumeAndPay, WritePaid
<1>2. s.stakeAmount * 2 \in Nat /\ challenges[s].state \in Terminal /\ caller \in Participants(s)
  BY <1>1, SpecFields DEF Terminal, WinnerWallet, Participants
<1>3. MovePay(s, caller, s.stakeAmount * 2) /\ Touches(s) /\ TypeOK'
  BY <1>1, <1>2, PayStep DEF Modelled
<1>4. Model!Consume(s, caller, s.stakeAmount * 2)
  BY <1>1, <1>2, <1>3, PaymentIsModelled
<1>5. Before(s, c)
  BY <1>1, BeforeStep DEF Modelled, Typed
<1> HIDE DEF c
<1>6. /\ challenges[s].finalResolution.exists
      /\ challenges[s].acceptingWallet # ZeroAddress
  BY <1>1 DEF Modelled, Typed, WellFormed, Shape, Unmatched
<1>7. /\ ModelSeen[s] = c /\ (Model!In(s, "RESOLVED_A") \/ Model!In(s, "RESOLVED_B"))
      /\ c.final.outcome = challenges[s].finalResolution.outcome
      /\ c.stake = s.stakeAmount /\ c.challenger = s.challengerWallet
      /\ c.challengerSide = s.challengerSide /\ c.acceptor = challenges[s].acceptingWallet
  BY <1>1, <1>5, <1>6 DEF Before, Reading, LifecycleState, NullAddress
<1>8. caller = Model!Winner(c, c.final.outcome)
  BY <1>1, <1>7 DEF WinnerWallet, Model!Winner
<1>9. Model!claim(caller, s)
  BY <1>4, <1>7, <1>8 DEF Model!claim, c, ModelSeen
<1>. QED
  BY <1>5, <1>9 DEF Before

(* refundPrincipal is the model's refund. *)
LEMMA RefundIsModelled ==
    ASSUME Modelled, NEW caller \in Callers, NEW s \in Specs, refundPrincipal(caller, s)
    PROVE  s \in Model!Ids /\ Model!refund(caller, s)
<1> DEFINE c == ModelSeen[s]
<1>1. /\ challenges[s].exists
      /\ \/ challenges[s].state \in {"CANCELLED", "EXPIRED"} /\ caller = s.challengerWallet
         \/ challenges[s].state = "VOID" /\ caller \in Participants(s)
      /\ ConsumeAndPay(s, caller, s.stakeAmount) /\ UNCHANGED paused
  BY DEF refundPrincipal, MayRefund, ConsumeAndPay, WritePaid
<1>2. s.stakeAmount \in Nat /\ challenges[s].state \in Terminal /\ caller \in Participants(s)
  BY <1>1, SpecFields DEF Terminal, Participants
<1>3. MovePay(s, caller, s.stakeAmount) /\ Touches(s) /\ TypeOK'
  BY <1>1, <1>2, PayStep DEF Modelled
<1>4. Model!Consume(s, caller, s.stakeAmount)
  BY <1>1, <1>2, <1>3, PaymentIsModelled
<1>5. Before(s, c)
  BY <1>1, BeforeStep DEF Modelled, Typed
<1> HIDE DEF c
<1>6. caller \in Model!Participants(c)
  BY <1>2, <1>5, ParticipantsSeen DEF Callers
<1>7. /\ ModelSeen[s] = c /\ c.stake = s.stakeAmount /\ c.challenger = s.challengerWallet
      /\ \/ Model!In(s, "VOID")
         \/ (Model!In(s, "CANCELLED") \/ Model!In(s, "EXPIRED")) /\ caller = c.challenger
  BY <1>1, <1>5 DEF Before, Reading, LifecycleState
<1>8. Model!refund(caller, s)
  BY <1>4, <1>6, <1>7 DEF Model!refund, c, ModelSeen
<1>. QED
  BY <1>5, <1>8 DEF Before

(* A transaction of a caller, or of anyone, on one challenge. *)
LEMMA CallIsModelled ==
    ASSUME Modelled, NEW caller \in Callers, NEW s \in Specs,
           Opening(caller, s) \/ Deciding(caller, s) \/ Paying(caller, s)
    PROVE  Model!Apply(now)
<1>1. CASE createAndFund(caller, s)
  BY <1>1, CreateIsModelled DEF Model!Apply
<1>2. CASE \E p \in signedPermits : accept(caller, s, p)
  BY <1>2, AcceptIsModelled DEF Model!Apply, Model!Called, Model!OnOpen
<1>3. CASE advanceAcceptanceNonce(caller, s)
  <2>1. MoveRenonce(s) /\ Touches(s) /\ TypeOK'
    BY <1>3, RenonceStep DEF Modelled
  <2>. QED
    BY <1>3, <2>1, RenonceIsModelled DEF Modelled, Model!Apply, Model!Called, Model!OnOpen
<1>4. CASE cancelOpen(caller, s)
  BY <1>4, CancelIsModelled DEF Modelled, Model!Apply, Model!Called, Model!OnOpen
<1>5. CASE Deciding(caller, s)
  <2>1. PICK outcome \in Outcome, reason \in ReasonCodes, hash \in Hashes :
            \/ propose(caller, s, outcome, reason, hash)
            \/ \E parent \in Hashes : \/ dispute(caller, s, outcome, reason, hash, parent)
                                      \/ arbitrate(caller, s, outcome, reason, hash, parent)
    BY <1>5 DEF Deciding
  <2>2. outcome \in Model!Outcome /\ (reason = TERMS_UNRESOLVABLE) \in BOOLEAN
    BY DEF Outcome, Model!Outcome
  <2>3. s \in Model!Ids /\ Model!Judging(caller, s, now)
    <3>1. CASE propose(caller, s, outcome, reason, hash)
      BY <2>2, <3>1, ProposeIsModelled DEF Model!Judging
    <3>2. ASSUME NEW parent \in Hashes, dispute(caller, s, outcome, reason, hash, parent)
          PROVE  s \in Model!Ids /\ Model!Judging(caller, s, now)
      BY <2>2, <3>2, DisputeIsModelled DEF Model!Judging
    <3>3. ASSUME NEW parent \in Hashes, arbitrate(caller, s, outcome, reason, hash, parent)
          PROVE  s \in Model!Ids /\ Model!Judging(caller, s, now)
      BY <2>2, <3>3, ArbitrateIsModelled DEF Model!Judging
    <3>. QED
      BY <2>1, <3>1, <3>2, <3>3
  <2>. QED
    BY <2>3 DEF Model!Apply, Model!Called
<1>6. CASE Paying(caller, s)
  BY <1>6, ClaimIsModelled, RefundIsModelled DEF Paying, Model!Apply, Model!Called
<1>. QED
  BY <1>1, <1>2, <1>3, <1>4, <1>5, <1>6 DEF Opening

(* Every step of the contract is one of the model's, or none. *)
LEMMA StepIsModelled ==
    ASSUME Modelled, [Next]_vars
    PROVE  [Model!Apply(now)]_(Model!vars)
<1>1. CASE Environment \/ UNCHANGED vars
  <2>1. /\ \A s \in Specs : Same(s)
        /\ UNCHANGED <<paused, totalOutstandingLiability, usedInstanceNonces>>
    BY <1>1 DEF Environment, Tick, SignPermit, Donate, vars, contractVars, Same
  <2>. QED
    BY <2>1, NothingModelled
<1>2. ASSUME NEW s \in Specs, Permissionless(s)
      PROVE  Model!Apply(now)
  <2>1. s \in Specs => \E id \in Model!Ids : Model!Timed(id, now)
    BY <1>2, ExpireIsModelled, FinalizeIsModelled, TimeoutIsModelled
       DEF Permissionless, Modelled, Model!Timed
  <2>. QED
    BY <2>1 DEF Model!Apply
<1>3. ASSUME NEW caller \in Callers, NEW newPaused \in BOOLEAN, setPaused(caller, newPaused)
      PROVE  Model!Apply(now)
  <2>1. /\ caller = Pauser /\ newPaused # paused /\ paused' = newPaused
        /\ UNCHANGED <<totalOutstandingLiability, usedInstanceNonces>>
        /\ \A s \in Specs : Same(s)
    BY <1>3 DEF setPaused, Same
  <2>2. ModelSeen' = ModelSeen
    BY <2>1, SameIsSameRecord DEF ModelSeen
  <2>3. Model!pause(caller, newPaused)
    BY <2>1, <2>2 DEF Model!pause, ModelSeen
  <2>. QED
    BY <2>3 DEF Model!Apply
<1>. QED
  BY <1>1, <1>2, <1>3, CallIsModelled DEF Next

(* The reference model accepts whatever the contract does, and does the    *)
(* same to every field it has: for any executions, callers and hashes.     *)
THEOREM ModelAcceptsContract == Spec => ModelCoversContract
<1>1. Init => Modelled
  BY TypedInit, BooksInductive DEF Init, Absent, Modelled, NonceBounded
<1>2. Modelled /\ [Next]_vars => Modelled'
  BY TypedNext, BooksInductive, NonceStaysBounded DEF Modelled
<1>3. Modelled /\ [Next]_vars => [Model!Apply(now)]_(Model!vars)
  BY StepIsModelled
<1>. QED
  BY <1>1, <1>2, <1>3, PTL DEF Spec, ModelCoversContract
=============================================================================
