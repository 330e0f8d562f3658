------------------------- MODULE TokenBoundary_proofs -------------------------
(***************************************************************************)
(* Proofs about the escrow over an untrusted token, for every deployment,  *)
(* every set of inputs and whatever the token does within its bounds.      *)
(***************************************************************************)
EXTENDS TokenBoundary, ChallengeEscrowSafety_proofs

(* A call that waits is well formed, and what it has booked is known.      *)
Waiting(c) ==
    /\ c = [function |-> c.function, spec |-> c.spec, permit |-> c.permit,
            from |-> c.from, to |-> c.to, amount |-> c.amount,
            moved |-> c.moved, before |-> c.before]
    /\ c.from \in Addresses /\ c.to \in Addresses /\ c.amount \in Nat
    /\ c.before.totalOutstandingLiability \in Int
    /\ c.before.balance \in [Addresses -> Uint256]
    /\ received = c.before.totalOutstandingLiability
    /\ c.function \in {"createAndFund", "accept"} =>
          /\ c.spec \in Specs
          /\ c.amount = c.spec.stakeAmount
          /\ totalOutstandingLiability = c.before.totalOutstandingLiability
    /\ c.function = "pay" =>
          /\ totalOutstandingLiability = c.before.totalOutstandingLiability - c.amount
          /\ c.before.balance[Escrow] >= c.before.totalOutstandingLiability

Accounted ==
    /\ totalOutstandingLiability \in Int
    /\ balance \in [Addresses -> Uint256]
    /\ \/ calls = <<>> /\ received = totalOutstandingLiability
       \/ calls = <<calls[1]>> /\ Waiting(calls[1])

-----------------------------------------------------------------------------
LEMMA SpecStake == ASSUME NEW s \in Specs PROVE s.stakeAmount \in Nat
  BY InputAssumption, WidthAssumption DEF Execution, Uint256

LEMMA Addressed == Escrow \in Addresses /\ Callers \subseteq Addresses
  BY DeploymentAssumption DEF Callers

(* One call on the stack: what the sequence operators come to. *)
LEMMA OneCall ==
    ASSUME NEW c
    PROVE  /\ Append(<<>>, c) = <<c>> /\ <<c>> # <<>> /\ Len(<<c>>) = 1
           /\ <<c>>[1] = c /\ SubSeq(<<c>>, 1, 0) = <<>>
OBVIOUS

LEMMA TopOfOne ==
    ASSUME calls = <<calls[1]>>
    PROVE  Len(calls) = 1 /\ calls # <<>> /\ Top = calls[1] /\ Pop = <<>>
<1>1. Len(calls) = 1 /\ calls # <<>>
  OBVIOUS
<1>. QED
  BY <1>1, OneCall DEF Top, Pop

(* A transfer keeps balances in their width. *)
LEMMA TransferInWidth ==
    ASSUME balance \in [Addresses -> Uint256], NEW from \in Addresses, NEW to \in Addresses,
           NEW amount \in Nat, Transfer(from, to, amount)
    PROVE  balance' \in [Addresses -> Uint256]
  BY WidthAssumption DEF Transfer, Uint256

(* Calls that reach no token leave the aggregate alone. *)
LEMMA QuietKeepsBooks ==
    ASSUME NEW caller \in Callers, NEW s \in Specs, Quiet(caller, s)
    PROVE  UNCHANGED <<totalOutstandingLiability, balance>>
<1>1. CASE advanceAcceptanceNonce(caller, s)
  BY <1>1 DEF advanceAcceptanceNonce
<1>2. CASE cancelOpen(caller, s)
  BY <1>2 DEF cancelOpen, CreateOpenRefund
<1>3. CASE Deciding(caller, s)
  <2>1. PICK outcome \in Outcome, reason \in ReasonCodes, hash \in Hashes :
            \/ propose(caller, s, outcome, reason, hash)
            \/ \E parent \in Hashes : \/ dispute(caller, s, outcome, reason, hash, parent)
                                     \/ arbitrate(caller, s, outcome, reason, hash, parent)
    BY <1>3 DEF Deciding
  <2>2. CASE propose(caller, s, outcome, reason, hash)
    BY <2>2 DEF propose
  <2>3. ASSUME NEW parent \in Hashes, dispute(caller, s, outcome, reason, hash, parent)
        PROVE  UNCHANGED <<totalOutstandingLiability, balance>>
    BY <2>3 DEF dispute
  <2>4. ASSUME NEW parent \in Hashes, arbitrate(caller, s, outcome, reason, hash, parent)
        PROVE  UNCHANGED <<totalOutstandingLiability, balance>>
    BY <2>4 DEF arbitrate, Finalize
  <2>. QED
    BY <2>1, <2>2, <2>3, <2>4
<1>4. CASE Permissionless(s)
  BY <1>4 DEF Permissionless, expireOpen, CreateOpenRefund, finalizeUncontested,
              voidUnproposed, voidUnarbitrated, Finalize
<1>. QED
  BY <1>1, <1>2, <1>3, <1>4 DEF Quiet

-----------------------------------------------------------------------------
(* A call enters only when none waits, and books nothing or its payment. *)
LEMMA EntryStep ==
    ASSUME Accounted, nonReentrant, NEW fn, NEW s \in Specs, NEW p,
           NEW from \in Addresses, NEW to \in Addresses, NEW amount \in Nat,
           Enter(fn, s, p, from, to, amount), UNCHANGED balance,
           fn \in {"createAndFund", "accept"} =>
              /\ amount = s.stakeAmount
              /\ UNCHANGED totalOutstandingLiability,
           fn = "pay" =>
              /\ totalOutstandingLiability' = totalOutstandingLiability - amount
              /\ SolventBefore,
           totalOutstandingLiability' \in Int
    PROVE  Accounted'
<1>1. PICK c : c = [function |-> fn, spec |-> s, permit |-> p, from |-> from,
                    to |-> to, amount |-> amount, moved |-> FALSE, before |-> Storage]
  OBVIOUS
<1>2. calls = <<>> /\ calls' = <<c>> /\ received' = received /\ balance' = balance
  BY <1>1, OneCall DEF nonReentrant, Enter
<1>3. /\ received = totalOutstandingLiability
      /\ totalOutstandingLiability \in Int /\ balance \in [Addresses -> Uint256]
  BY <1>2 DEF Accounted
<1>4. /\ c = [function |-> c.function, spec |-> c.spec, permit |-> c.permit,
              from |-> c.from, to |-> c.to, amount |-> c.amount,
              moved |-> c.moved, before |-> c.before]
      /\ c.function = fn /\ c.spec = s /\ c.from = from /\ c.to = to
      /\ c.amount = amount
      /\ c.before.totalOutstandingLiability = totalOutstandingLiability
      /\ c.before.balance = balance
  BY <1>1 DEF Storage
<1>5. Waiting(c)'
  <2>1. c.before.totalOutstandingLiability \in Int
        /\ c.before.balance \in [Addresses -> Uint256]
    BY <1>3, <1>4
  <2>2. received' = c.before.totalOutstandingLiability
    BY <1>2, <1>3, <1>4
  <2>3. c.function \in {"createAndFund", "accept"} =>
           /\ c.spec \in Specs
           /\ c.amount = c.spec.stakeAmount
           /\ totalOutstandingLiability' = c.before.totalOutstandingLiability
    BY <1>4
  <2>4. c.function = "pay" =>
           /\ totalOutstandingLiability' = c.before.totalOutstandingLiability - c.amount
           /\ c.before.balance[Escrow] >= c.before.totalOutstandingLiability
    BY <1>4 DEF SolventBefore
  <2>5. c.from \in Addresses /\ c.to \in Addresses /\ c.amount \in Nat
    BY <1>4
  <2>. QED
    BY <1>4, <2>1, <2>2, <2>3, <2>4, <2>5 DEF Waiting
<1>6. calls'[1] = c
  BY <1>2, OneCall
<1>. QED
  BY <1>2, <1>3, <1>5, <1>6 DEF Accounted

LEMMA EnterCreateStep ==
    ASSUME Accounted, NEW caller \in Callers, NEW s \in Specs, EnterCreate(caller, s)
    PROVE  Accounted'
<1>1. /\ nonReentrant /\ s.challengerWallet = caller
      /\ Enter("createAndFund", s, Absent, s.challengerWallet, Escrow, s.stakeAmount)
      /\ UNCHANGED <<totalOutstandingLiability, balance>>
  BY DEF EnterCreate, MayCreate, vars, contractVars
<1>2. totalOutstandingLiability' \in Int
  BY <1>1 DEF Accounted
<1>. QED
  BY <1>1, <1>2, EntryStep, SpecStake, Addressed

LEMMA EnterAcceptStep ==
    ASSUME Accounted, NEW caller \in Callers, NEW s \in Specs, NEW p,
           EnterAccept(caller, s, p)
    PROVE  Accounted'
<1>1. /\ nonReentrant /\ p.acceptingWallet = caller
      /\ Enter("accept", s, p, p.acceptingWallet, Escrow, s.stakeAmount)
      /\ UNCHANGED <<totalOutstandingLiability, balance>>
  BY DEF EnterAccept, MayAccept, vars, contractVars
<1>2. totalOutstandingLiability' \in Int
  BY <1>1 DEF Accounted
<1>. QED
  BY <1>1, <1>2, EntryStep, SpecStake, Addressed

LEMMA EnterPayStep ==
    ASSUME Accounted, NEW caller \in Callers, NEW s \in Specs, NEW amount \in Nat,
           EnterPay(caller, s, amount)
    PROVE  Accounted'
<1>1. /\ nonReentrant /\ SolventBefore
      /\ Enter("pay", s, Absent, Escrow, caller, amount)
      /\ totalOutstandingLiability' = totalOutstandingLiability - amount
      /\ UNCHANGED balance
  BY DEF EnterPay, MayPay, WritePaid
<1>2. totalOutstandingLiability' \in Int
  BY <1>1 DEF Accounted
<1>. QED
  BY <1>1, <1>2, EntryStep, Addressed

(* What a committed call booked is what the pool gained in it. *)
LEMMA ExitStep ==
    ASSUME Accounted, NEW fn \in {"createAndFund", "accept", "pay"}, Return(fn),
           fn \in {"createAndFund", "accept"} =>
              /\ PulledExactly
              /\ totalOutstandingLiability' = totalOutstandingLiability + Top.spec.stakeAmount,
           fn = "pay" => PushedExactly /\ UNCHANGED totalOutstandingLiability
    PROVE  Accounted'
<1>1. calls = <<calls[1]>> /\ Waiting(calls[1])
  BY DEF Accounted, Return
<1>2. /\ Top = calls[1] /\ calls' = <<>> /\ Top.function = fn
      /\ received' = received + Gained(Escrow) /\ balance' = balance
  BY <1>1, TopOfOne DEF Return
<1>3. balance[Escrow] \in Int /\ Top.before.balance[Escrow] \in Int
  BY <1>1, <1>2, Addressed, WidthAssumption DEF Accounted, Waiting, Uint256
<1>4. CASE fn \in {"createAndFund", "accept"}
  <2>1. /\ received = totalOutstandingLiability
        /\ Gained(Escrow) = Top.amount
        /\ totalOutstandingLiability' = totalOutstandingLiability + Top.amount
    BY <1>1, <1>2, <1>4 DEF Waiting, PulledExactly
  <2>2. received' = totalOutstandingLiability' /\ totalOutstandingLiability' \in Int
    BY <1>1, <1>2, <2>1 DEF Accounted, Waiting
  <2>. QED
    BY <1>2, <2>2 DEF Accounted
<1>5. CASE fn = "pay"
  <2>1. /\ received = totalOutstandingLiability + Top.amount
        /\ Gained(Escrow) = -Top.amount
        /\ totalOutstandingLiability' = totalOutstandingLiability
    <3>1. /\ totalOutstandingLiability = Top.before.totalOutstandingLiability - Top.amount
          /\ received = Top.before.totalOutstandingLiability
          /\ Top.before.totalOutstandingLiability \in Int /\ Top.amount \in Nat
      BY <1>1, <1>2, <1>5 DEF Waiting
    <3>. QED
      BY <1>5, <3>1 DEF PushedExactly
  <2>2. received' = totalOutstandingLiability' /\ totalOutstandingLiability' \in Int
    BY <1>1, <1>2, <2>1 DEF Accounted, Waiting
  <2>. QED
    BY <1>2, <2>2 DEF Accounted
<1>. QED
  BY <1>4, <1>5

LEMMA RevertStep == ASSUME Accounted, Revert PROVE Accounted'
<1>1. calls = <<calls[1]>> /\ Waiting(calls[1])
  BY DEF Accounted, Revert
<1>2. /\ calls' = <<>> /\ received' = received
      /\ totalOutstandingLiability' = calls[1].before.totalOutstandingLiability
      /\ balance' = calls[1].before.balance
  BY <1>1, TopOfOne DEF Revert, Restored
<1>. QED
  BY <1>1, <1>2 DEF Accounted, Waiting

(* Whatever changes neither the aggregate nor the stack, and keeps         *)
(* balances in their width, keeps the account.                             *)
LEMMA ElsewhereStep ==
    ASSUME Accounted, balance' \in [Addresses -> Uint256],
           UNCHANGED <<totalOutstandingLiability, calls, received>>
    PROVE  Accounted'
  BY DEF Accounted, Waiting

LEMMA TransferStep == ASSUME Accounted, TransferAsAsked PROVE Accounted'
<1>1. calls = <<calls[1]>> /\ Waiting(calls[1])
  BY DEF Accounted, TransferAsAsked
<1>2. PICK c : c = calls[1]
  OBVIOUS
<1>3. Waiting(c) /\ Top = c /\ Pop = <<>>
  BY <1>1, <1>2, TopOfOne
<1>4. /\ Transfer(c.from, c.to, c.amount)
      /\ calls' = Append(<<>>, [c EXCEPT !.moved = TRUE])
      /\ UNCHANGED <<totalOutstandingLiability, received>>
  BY <1>3 DEF TransferAsAsked, contractVars
<1>5. balance' \in [Addresses -> Uint256]
  BY <1>3, <1>4, TransferInWidth DEF Accounted, Waiting
<1>6. PICK d : d = [c EXCEPT !.moved = TRUE]
  OBVIOUS
<1>7. calls' = <<d>> /\ calls'[1] = d
  BY <1>4, <1>6, OneCall
<1>8. /\ d = [function |-> d.function, spec |-> d.spec, permit |-> d.permit,
              from |-> d.from, to |-> d.to, amount |-> d.amount,
              moved |-> d.moved, before |-> d.before]
      /\ d.function = c.function /\ d.spec = c.spec /\ d.from = c.from /\ d.to = c.to
      /\ d.amount = c.amount /\ d.before = c.before
  <2>1. c = [function |-> c.function, spec |-> c.spec, permit |-> c.permit,
             from |-> c.from, to |-> c.to, amount |-> c.amount,
             moved |-> c.moved, before |-> c.before]
    BY <1>3 DEF Waiting
  <2>. QED
    BY <1>6, <2>1
<1>9. Waiting(d)'
  BY <1>3, <1>4, <1>8 DEF Waiting
<1>. QED
  BY <1>4, <1>5, <1>7, <1>9 DEF Accounted

-----------------------------------------------------------------------------
LEMMA AccountedInit == BoundaryInit => Accounted
  BY InputAssumption DEF BoundaryInit, Init, Accounted

LEMMA AccountedStep == ASSUME Accounted, [BoundaryNext]_allVars PROVE Accounted'
<1>1. ASSUME NEW caller \in Callers, NEW s \in Specs,
             \/ EnterCreate(caller, s)
             \/ \E p \in signedPermits : EnterAccept(caller, s, p)
             \/ EnterClaim(caller, s) \/ EnterRefund(caller, s)
      PROVE  Accounted'
  BY <1>1, EnterCreateStep, EnterAcceptStep, EnterPayStep, SpecStake
     DEF EnterClaim, EnterRefund
<1>2. ASSUME NEW caller \in Callers, NEW s \in Specs,
             Quiet(caller, s), UNCHANGED boundaryVars
      PROVE  Accounted'
  BY <1>2, QuietKeepsBooks, ElsewhereStep DEF boundaryVars, Accounted
<1>3. CASE TransferAsAsked
  BY <1>3, TransferStep
<1>4. ASSUME NEW account \in Addresses, NEW amount \in Uint256, Rebase(account, amount)
      PROVE  Accounted'
  <2>1. balance' \in [Addresses -> Uint256]
    BY <1>4 DEF Rebase, Accounted
  <2>. QED
    BY <1>4, <2>1, ElsewhereStep DEF Rebase, contractVars
<1>5. CASE ExitCreate
  BY <1>5, ExitStep DEF ExitCreate, WriteOpen
<1>6. CASE ExitAccept
  BY <1>6, ExitStep DEF ExitAccept, WriteMatch, AggregateAfterAccept
<1>7. CASE ExitPay
  BY <1>7, ExitStep DEF ExitPay, contractVars
<1>8. CASE Revert
  BY <1>8, RevertStep
<1>9. CASE BetweenBlocks /\ UNCHANGED boundaryVars
  BY <1>9, ElsewhereStep
     DEF BetweenBlocks, Tick, SignPermit, boundaryVars, contractVars, Accounted
<1>10. ASSUME NEW caller \in Callers, NEW newPaused \in BOOLEAN,
              setPaused(caller, newPaused), UNCHANGED boundaryVars
       PROVE  Accounted'
  BY <1>10, ElsewhereStep DEF setPaused, boundaryVars, Accounted
<1>11. CASE UNCHANGED allVars
  BY <1>11, ElsewhereStep DEF allVars, vars, contractVars, boundaryVars, Accounted
<1>. QED
  BY <1>1, <1>2, <1>3, <1>4, <1>5, <1>6, <1>7, <1>8, <1>9, <1>10, <1>11 DEF BoundaryNext

LEMMA AlwaysAccounted == BoundarySpec => []Accounted
  BY AccountedInit, AccountedStep, PTL DEF BoundarySpec

(* Whatever the token does, once no call waits the aggregate liability is  *)
(* what the pool was seen to gain: pullExact and pushExact with the guard  *)
(* nonReentrant book each movement once.                                   *)
THEOREM MovementsBookedOnce == BoundarySpec => []EveryUnitMoved
<1>1. Accounted => EveryUnitMoved
  BY DEF Accounted, EveryUnitMoved
<1>. QED
  BY <1>1, AlwaysAccounted, PTL

(* The pool check at the end of _consumeAndPay never refuses what the      *)
(* checks before it have let through.                                      *)
THEOREM PoolCheckDominated == BoundarySpec => []LastPoolCheckRedundant
<1>1. Accounted => LastPoolCheckRedundant
  <2> SUFFICES ASSUME Accounted, calls # <<>>, Top.function = "pay", PushedExactly
               PROVE  PoolCovers
    BY DEF LastPoolCheckRedundant
  <2>1. calls = <<calls[1]>> /\ Waiting(calls[1])
    BY DEF Accounted
  <2>2. Top = calls[1]
    BY <2>1, TopOfOne
  <2>3. /\ totalOutstandingLiability = Top.before.totalOutstandingLiability - Top.amount
        /\ Top.before.balance[Escrow] >= Top.before.totalOutstandingLiability
        /\ Top.before.totalOutstandingLiability \in Int /\ Top.amount \in Nat
        /\ balance[Escrow] \in Int /\ Top.before.balance[Escrow] \in Int
    BY <2>1, <2>2, Addressed, WidthAssumption DEF Waiting, Accounted, Uint256
  <2>4. balance[Escrow] - Top.before.balance[Escrow] = -Top.amount
    BY DEF PushedExactly, Gained
  <2>. QED
    BY <2>3, <2>4 DEF PoolCovers
<1>. QED
  BY <1>1, AlwaysAccounted, PTL

-----------------------------------------------------------------------------
(* Calls are atomic.                                                       *)
(*                                                                         *)
(* The storage as committed is a storage of its own, to which the lemmas   *)
(* of the contract's proofs apply: a call that returns commits there what  *)
(* the same call of the contract would have written at once, and nothing   *)
(* else that a call, the token or a revert does is committed.  The pause   *)
(* flag, which setPaused may move inside a call, is left out: no deal      *)
(* depends on it.                                                          *)
Seen == INSTANCE ChallengeEscrowSafety_proofs WITH
    paused                    <- FALSE,
    totalOutstandingLiability <- Committed.totalOutstandingLiability,
    challenges                <- Committed.challenges,
    entitlements              <- Committed.entitlements,
    usedInstanceNonces        <- Committed.usedInstanceNonces,
    balance                   <- Committed.balance

(* What a waiting call has booked, and what makes it good when it returns: *)
(* its checks were made against what is still committed.                   *)
Pending(c) ==
    /\ c.function \in {"createAndFund", "accept", "pay"}
    /\ c.spec \in Specs
    /\ usedInstanceNonces = Committed.usedInstanceNonces
    /\ c.function \in {"createAndFund", "accept"} =>
          /\ challenges = Committed.challenges
          /\ entitlements = Committed.entitlements
    /\ c.function = "createAndFund" =>
          /\ ~Committed.challenges[c.spec].exists
          /\ Seen!ValidExecution(c.spec, now)
          /\ Seen!NonceUnused(c.spec)
    /\ c.function = "accept" =>
          /\ c.permit \in signedPermits
          /\ Seen!Matchable(c.spec, c.permit)
    /\ c.function = "pay" =>
          /\ c.to \in Callers
          /\ Committed.challenges[c.spec].exists
          /\ Committed.challenges[c.spec].state \in Seen!Terminal
          /\ c.to \in Seen!Participants(c.spec)
          /\ Seen!MayPay(c.spec, c.to, c.amount)
          /\ challenges = [Committed.challenges EXCEPT ![c.spec] =
                [@ EXCEPT !.outstandingLiability =
                    Committed.challenges[c.spec].outstandingLiability - c.amount]]
          /\ entitlements = [Committed.entitlements EXCEPT ![c.spec] =
                [@ EXCEPT ![c.to] = Seen!Consumed(Committed.entitlements[c.spec][c.to],
                                                  c.amount)]]

(* The inductive invariant: what is committed is in order, and so is the   *)
(* call that waits.                                                        *)
Atomic ==
    /\ Accounted
    /\ Seen!Typed /\ Seen!BooksBalance
    /\ calls # <<>> => Pending(calls[1])

(* What the deployment assumes it assumes of the committed storage. *)
LEMMA SeenDeployment ==
    /\ Seen!ValidDeployment
    /\ Seen!Uint256 = Uint256 /\ Seen!Uint64 = Uint64
    /\ Seen!Execution = Execution
    /\ Seen!AcceptancePermit(Specs) = AcceptancePermit(Specs)
<1>1. Seen!ValidDeployment
  BY DeploymentAssumption
  DEF Seen!ValidDeployment, Seen!KernelDeployment, ValidDeployment, KernelDeployment
<1>2. Seen!Uint256 = Uint256 /\ Seen!Uint64 = Uint64
  BY DEF Seen!Uint256, Uint256, Seen!Uint64, Uint64
<1>3. Seen!Execution = Execution
  BY <1>2 DEF Seen!Execution, Execution, Seen!Side, Side
<1>4. Seen!AcceptancePermit(Specs) = AcceptancePermit(Specs)
  BY <1>2 DEF Seen!AcceptancePermit, AcceptancePermit
<1> QED
  BY <1>1, <1>2, <1>3, <1>4

(* While no call waits, the committed storage is the storage. *)
Calm == /\ Committed.totalOutstandingLiability = totalOutstandingLiability
        /\ Committed.challenges = challenges
        /\ Committed.entitlements = entitlements
        /\ Committed.usedInstanceNonces = usedInstanceNonces
        /\ Committed.balance = balance

LEMMA CalmBefore == calls = <<>> => Calm
  BY DEF Calm, Committed, Storage

LEMMA CalmAfter == calls' = <<>> => Calm'
  BY DEF Calm, Committed, Storage

(* While one waits, it is what was stored when the call entered. *)
LEMMA CommittedInCall ==
    ASSUME NEW c, calls = <<c>>
    PROVE  Committed = c.before
  BY OneCall DEF Committed

(* Operators that read no storage are the same for either storage. *)
LEMMA ConstantsSeen ==
    /\ Seen!Terminal = Terminal /\ Seen!Unmatched = Unmatched
    /\ Seen!Absent = Absent /\ Seen!NoEntitlement = NoEntitlement
    /\ Seen!Callers = Callers
    /\ \A e, n : Seen!Owe(e, n) = Owe(e, n) /\ Seen!Consumed(e, n) = Consumed(e, n)
    /\ \A n : (Seen!Fits64(n) <=> Fits64(n)) /\ (Seen!Fits256(n) <=> Fits256(n))
    /\ \A o, r : Seen!ValidReason(o, r) <=> ValidReason(o, r)
    /\ \A h, i : Seen!ParentMatches(h, i) <=> ParentMatches(h, i)
    /\ \A o : Seen!ResolvedState(o) = ResolvedState(o)
    /\ \A s : /\ Seen!AcceptanceClosed(s) <=> AcceptanceClosed(s)
              /\ Seen!DisputeDeadline(s) = DisputeDeadline(s)
              /\ Seen!ArbitrationStart(s) = ArbitrationStart(s)
    /\ \A s, n : Seen!ValidExecution(s, n) <=> ValidExecution(s, n)
    /\ \A w, v : Seen!ValidParticipantWallet(w, v) <=> ValidParticipantWallet(w, v)
<1>1. /\ Seen!Terminal = Terminal /\ Seen!Unmatched = Unmatched
      /\ Seen!Absent = Absent /\ Seen!NoEntitlement = NoEntitlement
      /\ Seen!Callers = Callers
  BY DEF Seen!Terminal, Terminal, Seen!Unmatched, Unmatched, Seen!Absent, Absent,
         Seen!NoEntitlement, NoEntitlement, Seen!Callers, Callers
<1>2. \A e, n : Seen!Owe(e, n) = Owe(e, n) /\ Seen!Consumed(e, n) = Consumed(e, n)
  BY DEF Seen!Owe, Owe, Seen!Consumed, Consumed
<1>3. \A n : (Seen!Fits64(n) <=> Fits64(n)) /\ (Seen!Fits256(n) <=> Fits256(n))
  BY DEF Seen!Fits64, Fits64, Seen!Fits256, Fits256
<1>4. /\ \A o, r : Seen!ValidReason(o, r) <=> ValidReason(o, r)
      /\ \A h, i : Seen!ParentMatches(h, i) <=> ParentMatches(h, i)
      /\ \A o : Seen!ResolvedState(o) = ResolvedState(o)
  BY DEF Seen!ValidReason, ValidReason, Seen!TERMS_UNRESOLVABLE, TERMS_UNRESOLVABLE,
         Seen!MaxABReason, MaxABReason, Seen!ParentMatches, ParentMatches,
         Seen!ResolvedState, ResolvedState
<1>5. \A s : /\ Seen!AcceptanceClosed(s) <=> AcceptanceClosed(s)
            /\ Seen!DisputeDeadline(s) = DisputeDeadline(s)
            /\ Seen!ArbitrationStart(s) = ArbitrationStart(s)
  BY DEF Seen!AcceptanceClosed, AcceptanceClosed, Seen!DisputeDeadline, DisputeDeadline,
         Seen!ArbitrationStart, ArbitrationStart
<1>6. /\ \A s, n : Seen!ValidExecution(s, n) <=> ValidExecution(s, n)
      /\ \A w, v : Seen!ValidParticipantWallet(w, v) <=> ValidParticipantWallet(w, v)
  BY DEF Seen!ValidExecution, ValidExecution, Seen!ValidParticipantWallet,
         ValidParticipantWallet, Seen!ValidChallengerWallet, ValidChallengerWallet,
         Seen!KernelChallengerWallet, KernelChallengerWallet, Seen!StakeDoubles, StakeDoubles,
         Seen!OrderedTimeline, OrderedTimeline, Seen!BoundedTimeline, BoundedTimeline
<1>. QED
  BY <1>1, <1>2, <1>3, <1>4, <1>5, <1>6

(* A function that calls nobody does to the committed storage what the     *)
(* contract's own action does.                                             *)
LEMMA GrantsCommitted ==
    ASSUME Calm, Calm', NEW s \in Specs, NEW W, NEW n, CreateEntitlements(s, W, n)
    PROVE  Seen!CreateEntitlements(s, W, n)
  BY ConstantsSeen DEF Calm, CreateEntitlements, Seen!CreateEntitlements

LEMMA FinalizeCommitted ==
    ASSUME Calm, Calm', NEW s \in Specs, NEW o, NEW r, NEW p, NEW e, NEW h,
           Finalize(s, o, r, p, e, h)
    PROVE  Seen!Finalize(s, o, r, p, e, h)
  BY ConstantsSeen, GrantsCommitted
     DEF Calm, Finalize, Seen!Finalize, FinalizeVoid, Seen!FinalizeVoid,
         FinalizeResolved, Seen!FinalizeResolved, AcceptedRefunds, Seen!AcceptedRefunds,
         WinnerWallet, Seen!WinnerWallet, Participants, Seen!Participants

LEMMA OpenerCommitted ==
    ASSUME Calm, Calm', NEW s \in Specs, NEW st, CreateOpenRefund(s, st)
    PROVE  Seen!CreateOpenRefund(s, st)
  BY GrantsCommitted DEF Calm, CreateOpenRefund, Seen!CreateOpenRefund

LEMMA QuietCommitted ==
    ASSUME Calm, Calm', NEW caller \in Callers, NEW s \in Specs, Quiet(caller, s)
    PROVE  Seen!Next
<1>1. CASE advanceAcceptanceNonce(caller, s)
  <2>1. Seen!advanceAcceptanceNonce(caller, s)
    BY <1>1
       DEF Calm, advanceAcceptanceNonce, Seen!advanceAcceptanceNonce, InState,
           Seen!InState
  <2>. QED
    BY <2>1, ConstantsSeen DEF Seen!Next, Seen!Opening
<1>2. CASE cancelOpen(caller, s)
  <2>1. Seen!cancelOpen(caller, s)
    BY <1>2, OpenerCommitted DEF Calm, cancelOpen, Seen!cancelOpen, InState, Seen!InState
  <2>. QED
    BY <2>1, ConstantsSeen DEF Seen!Next, Seen!Opening
<1>3. CASE Permissionless(s)
  <2>1. CASE expireOpen(s)
    BY <2>1, OpenerCommitted, ConstantsSeen
       DEF Calm, expireOpen, Seen!expireOpen, InState, Seen!InState,
           Seen!Permissionless, Seen!Next
  <2>2. CASE finalizeUncontested(s)
    BY <2>2, FinalizeCommitted, ConstantsSeen
       DEF Calm, finalizeUncontested, Seen!finalizeUncontested, InState, Seen!InState,
           Seen!Permissionless, Seen!Next
  <2>3. CASE voidUnproposed(s)
    BY <2>3, FinalizeCommitted, ConstantsSeen
       DEF Calm, voidUnproposed, Seen!voidUnproposed, InState, Seen!InState,
           Seen!Permissionless, Seen!Next
  <2>4. CASE voidUnarbitrated(s)
    BY <2>4, FinalizeCommitted, ConstantsSeen
       DEF Calm, voidUnarbitrated, Seen!voidUnarbitrated, InState, Seen!InState,
           Seen!Permissionless, Seen!Next
  <2>. QED
    BY <1>3, <2>1, <2>2, <2>3, <2>4 DEF Permissionless
<1>4. CASE Deciding(caller, s)
  <2>1. PICK outcome \in Outcome, reason \in ReasonCodes, hash \in Hashes :
            \/ propose(caller, s, outcome, reason, hash)
            \/ \E parent \in Hashes : \/ dispute(caller, s, outcome, reason, hash, parent)
                                     \/ arbitrate(caller, s, outcome, reason, hash, parent)
    BY <1>4 DEF Deciding
  <2>2. outcome \in Seen!Outcome
    BY DEF Outcome, Seen!Outcome
  <2>3. CASE propose(caller, s, outcome, reason, hash)
    <3>1. Seen!propose(caller, s, outcome, reason, hash)
      BY <2>3, ConstantsSeen
         DEF Calm, propose, Seen!propose, InState, Seen!InState, ProposableNow,
             Seen!ProposableNow, TERMS_UNRESOLVABLE, Seen!TERMS_UNRESOLVABLE
    <3>. QED
      BY <2>2, <3>1, ConstantsSeen DEF Seen!Next, Seen!Deciding
  <2>4. ASSUME NEW parent \in Hashes, dispute(caller, s, outcome, reason, hash, parent)
        PROVE  Seen!Next
    <3>1. Seen!dispute(caller, s, outcome, reason, hash, parent)
      BY <2>4, ConstantsSeen
         DEF Calm, dispute, Seen!dispute, InState, Seen!InState, Participants,
             Seen!Participants
    <3>. QED
      BY <2>2, <3>1, ConstantsSeen DEF Seen!Next, Seen!Deciding
  <2>5. ASSUME NEW parent \in Hashes, arbitrate(caller, s, outcome, reason, hash, parent)
        PROVE  Seen!Next
    <3>1. Seen!arbitrate(caller, s, outcome, reason, hash, parent)
      BY <2>5, ConstantsSeen, FinalizeCommitted
         DEF Calm, arbitrate, Seen!arbitrate, InState, Seen!InState, ArbitrationOpen,
             Seen!ArbitrationOpen
    <3>. QED
      BY <2>2, <3>1, ConstantsSeen DEF Seen!Next, Seen!Deciding
  <2>. QED
    BY <2>1, <2>3, <2>4, <2>5
<1>. QED
  BY <1>1, <1>2, <1>3, <1>4 DEF Quiet

(* What is committed stays as it is. *)
StillCommitted ==
    /\ Committed.totalOutstandingLiability' = Committed.totalOutstandingLiability
    /\ Committed.challenges' = Committed.challenges
    /\ Committed.entitlements' = Committed.entitlements
    /\ Committed.usedInstanceNonces' = Committed.usedInstanceNonces
    /\ Committed.balance' = Committed.balance

(* A step that commits nothing is not seen. *)
LEMMA NothingCommitted ==
    ASSUME Seen!Typed, Seen!BooksBalance, StillCommitted, UNCHANGED <<now, signedPermits>>
    PROVE  Seen!Refines
<1>1. UNCHANGED Seen!vars
  BY DEF StillCommitted, Seen!vars, Seen!contractVars
<1>. QED
  BY <1>1, SeenDeployment, DeploymentAssumption, WidthAssumption, InputAssumption,
     Seen!NextRefines

(* A call is about to commit what it was, while nothing of it moves. *)
LEMMA StillPending ==
    ASSUME NEW c, NEW d, Pending(c), StillCommitted,
           d.function = c.function, d.spec = c.spec, d.permit = c.permit,
           d.to = c.to, d.amount = c.amount,
           UNCHANGED <<now, signedPermits, challenges, entitlements, usedInstanceNonces>>
    PROVE  Pending(d)'
<1>1. /\ d.function \in {"createAndFund", "accept", "pay"}
      /\ d.spec \in Specs
      /\ usedInstanceNonces' = Committed'.usedInstanceNonces
      /\ d.function \in {"createAndFund", "accept"} =>
            /\ challenges' = Committed'.challenges
            /\ entitlements' = Committed'.entitlements
  BY DEF Pending, StillCommitted
<1>2. d.function = "createAndFund" =>
            /\ ~Committed'.challenges[d.spec].exists
            /\ Seen!ValidExecution(d.spec, now')
            /\ Seen!NonceUnused(d.spec)'
  BY DEF Pending, StillCommitted, Seen!NonceUnused
<1>3. d.function = "accept" =>
            /\ d.permit \in signedPermits'
            /\ Seen!Matchable(d.spec, d.permit)'
  BY ConstantsSeen DEF Pending, StillCommitted, Seen!Matchable, Seen!PermitLive
<1>4. d.function = "pay" =>
          /\ d.to \in Callers
          /\ Committed'.challenges[d.spec].exists
          /\ Committed'.challenges[d.spec].state \in Seen!Terminal
          /\ d.to \in Seen!Participants(d.spec)'
          /\ Seen!MayPay(d.spec, d.to, d.amount)'
  BY DEF Pending, StillCommitted, Seen!Participants, Seen!MayPay, Seen!SolventBefore
<1>5. d.function = "pay" =>
          /\ challenges' = [Committed'.challenges EXCEPT ![d.spec] =
                [@ EXCEPT !.outstandingLiability =
                    Committed'.challenges[d.spec].outstandingLiability - d.amount]]
          /\ entitlements' = [Committed'.entitlements EXCEPT ![d.spec] =
                [@ EXCEPT ![d.to] = Seen!Consumed(Committed'.entitlements[d.spec][d.to],
                                                  d.amount)]]
  BY DEF Pending, StillCommitted
<1>. QED
  BY <1>1, <1>2, <1>3, <1>4, <1>5 DEF Pending

(* What a step has to show. *)
Committing ==
    /\ Seen!Refines
    /\ calls' # <<>> => Pending(calls[1])'

(* A call that enters. *)
LEMMA Entering ==
    ASSUME calls = <<>>, NEW fn, NEW s, NEW p, NEW from, NEW to, NEW amount,
           Enter(fn, s, p, from, to, amount)
    PROVE  /\ Calm
           /\ StillCommitted
           /\ calls'[1].function = fn /\ calls'[1].spec = s /\ calls'[1].permit = p
           /\ calls'[1].to = to /\ calls'[1].amount = amount
<1>1. PICK c : c = [function |-> fn, spec |-> s, permit |-> p, from |-> from,
                    to |-> to, amount |-> amount, moved |-> FALSE, before |-> Storage]
  OBVIOUS
<1>2. calls' = <<c>> /\ calls'[1] = c
  BY <1>1, OneCall DEF Enter
<1>3. Committed' = Storage /\ Committed = Storage
  BY <1>1, <1>2, OneCall DEF Committed
<1>4. Calm
  BY CalmBefore
<1>. QED
  BY <1>1, <1>2, <1>3, <1>4 DEF StillCommitted

LEMMA CreateEnters ==
    ASSUME Atomic, NEW caller \in Callers, NEW s \in Specs, EnterCreate(caller, s)
    PROVE  Committing
<1>1. /\ calls = <<>> /\ MayCreate(caller, s)
      /\ Enter("createAndFund", s, Absent, s.challengerWallet, Escrow, s.stakeAmount)
      /\ UNCHANGED <<now, signedPermits, challenges, entitlements, usedInstanceNonces>>
  BY DEF EnterCreate, nonReentrant, vars, contractVars
<1>2. /\ Calm /\ StillCommitted
      /\ calls'[1].function = "createAndFund" /\ calls'[1].spec = s
  BY <1>1, Entering
<1>3. Seen!Refines
  BY <1>1, <1>2, NothingCommitted DEF Atomic
<1>4. Pending(calls[1])'
  <2>1. ~challenges[s].exists /\ ValidExecution(s, now) /\ NonceUnused(s)
    BY <1>1 DEF MayCreate
  <2>2. Seen!ValidExecution(s, now)
    BY <2>1, ConstantsSeen
  <2>. QED
    BY <1>1, <1>2, <2>1, <2>2
       DEF Pending, Calm, StillCommitted, NonceUnused, Seen!NonceUnused
<1>. QED
  BY <1>3, <1>4 DEF Committing

LEMMA AcceptEnters ==
    ASSUME Atomic, NEW caller \in Callers, NEW s \in Specs, NEW p \in signedPermits,
           EnterAccept(caller, s, p)
    PROVE  Committing
<1>1. /\ calls = <<>> /\ MayAccept(caller, s, p)
      /\ Enter("accept", s, p, p.acceptingWallet, Escrow, s.stakeAmount)
      /\ UNCHANGED <<now, signedPermits, challenges, entitlements, usedInstanceNonces>>
  BY DEF EnterAccept, nonReentrant, vars, contractVars
<1>2. /\ Calm /\ StillCommitted
      /\ calls'[1].function = "accept" /\ calls'[1].spec = s /\ calls'[1].permit = p
  BY <1>1, Entering
<1>3. Seen!Refines
  BY <1>1, <1>2, NothingCommitted DEF Atomic
<1>4. Pending(calls[1])'
  <2>1. Seen!Matchable(s, p)'
    BY <1>1, <1>2, ConstantsSeen
       DEF MayAccept, InState, PermitLive, Calm, StillCommitted, Seen!Matchable,
           Seen!PermitLive
  <2>. QED
    BY <1>1, <1>2, <2>1 DEF Pending, Calm, StillCommitted
<1>. QED
  BY <1>3, <1>4 DEF Committing

LEMMA PayEnters ==
    ASSUME Atomic, NEW w \in Callers, NEW s \in Specs, NEW amount \in Nat,
           challenges[s].exists, challenges[s].state \in Terminal, w \in Participants(s),
           EnterPay(w, s, amount)
    PROVE  Committing
<1>1. /\ calls = <<>> /\ MayPay(s, w, amount) /\ WritePaid(s, w, amount)
      /\ Enter("pay", s, Absent, Escrow, w, amount)
      /\ UNCHANGED <<now, signedPermits, usedInstanceNonces>>
  BY DEF EnterPay, nonReentrant, WritePaid
<1>2. /\ Calm /\ StillCommitted
      /\ calls'[1].function = "pay" /\ calls'[1].spec = s
      /\ calls'[1].to = w /\ calls'[1].amount = amount
  BY <1>1, Entering
<1>3. Seen!Refines
  BY <1>1, <1>2, NothingCommitted DEF Atomic
<1>4. Pending(calls[1])'
  <2>1. /\ Committed'.challenges[s].exists
        /\ Committed'.challenges[s].state \in Seen!Terminal
        /\ w \in Seen!Participants(s)'
    BY <1>2, ConstantsSeen DEF Calm, StillCommitted, Participants, Seen!Participants
  <2>2. Seen!MayPay(s, w, amount)'
    BY <1>1, <1>2 DEF Calm, StillCommitted, MayPay, Seen!MayPay, Entitled, Seen!Entitled,
                      SolventBefore, Seen!SolventBefore
  <2>3. /\ challenges' = [Committed'.challenges EXCEPT ![s] =
                [@ EXCEPT !.outstandingLiability =
                    Committed'.challenges[s].outstandingLiability - amount]]
        /\ entitlements' = [Committed'.entitlements EXCEPT ![s] =
                [@ EXCEPT ![w] = Seen!Consumed(Committed'.entitlements[s][w], amount)]]
    BY <1>1, <1>2, ConstantsSeen DEF Calm, StillCommitted, WritePaid
  <2>4. usedInstanceNonces' = Committed'.usedInstanceNonces
    BY <1>1, <1>2 DEF Calm, StillCommitted
  <2>. QED
    BY <1>2, <2>1, <2>2, <2>3, <2>4 DEF Pending
<1>. QED
  BY <1>3, <1>4 DEF Committing

(* What happens inside a call. *)
LEMMA WithinCall ==
    ASSUME Atomic, NEW c, NEW d, calls = <<c>>, calls' = <<d>>,
           d.function = c.function, d.spec = c.spec, d.permit = c.permit,
           d.to = c.to, d.amount = c.amount, d.before = c.before,
           UNCHANGED <<now, signedPermits, challenges, entitlements, usedInstanceNonces>>
    PROVE  Committing
<1>1. Committed = c.before /\ Committed' = d.before /\ calls[1] = c /\ calls'[1] = d
  BY OneCall DEF Committed
<1>2. StillCommitted
  BY <1>1 DEF StillCommitted
<1>3. Pending(c)
  BY <1>1, OneCall DEF Atomic
<1>. QED
  BY <1>1, <1>2, <1>3, StillPending, NothingCommitted DEF Atomic, Committing

LEMMA SameCall ==
    ASSUME Atomic, calls # <<>>, UNCHANGED calls,
           UNCHANGED <<now, signedPermits, challenges, entitlements, usedInstanceNonces>>
    PROVE  Committing
  BY WithinCall DEF Atomic, Accounted

(* A step that moves nothing but the pause flag. *)
LEMMA UnmovedCommits ==
    ASSUME Atomic,
           UNCHANGED <<now, signedPermits, challenges, entitlements, usedInstanceNonces,
                       totalOutstandingLiability, balance, calls>>
    PROVE  Committing
<1>1. CASE calls # <<>>
  BY <1>1, SameCall
<1>2. CASE calls = <<>>
  <2>1. Calm /\ Calm'
    BY <1>2, CalmBefore, CalmAfter
  <2>2. StillCommitted
    BY <2>1 DEF Calm, StillCommitted
  <2>. QED
    BY <1>2, <2>2, NothingCommitted DEF Atomic, Committing
<1>. QED
  BY <1>1, <1>2

LEMMA TransferWithin == ASSUME Atomic, TransferAsAsked PROVE Committing
<1>1. PICK c : c = calls[1]
  OBVIOUS
<1>2. calls = <<c>> /\ Waiting(c) /\ Top = c /\ Pop = <<>>
  BY <1>1, TopOfOne DEF Atomic, Accounted, TransferAsAsked
<1>3. PICK d : d = [c EXCEPT !.moved = TRUE]
  OBVIOUS
<1>4. /\ calls' = <<d>>
      /\ UNCHANGED <<now, signedPermits, challenges, entitlements, usedInstanceNonces>>
  BY <1>2, <1>3, OneCall DEF TransferAsAsked, contractVars
<1>5. /\ d.function = c.function /\ d.spec = c.spec /\ d.permit = c.permit
      /\ d.to = c.to /\ d.amount = c.amount /\ d.before = c.before
  <2>1. c = [function |-> c.function, spec |-> c.spec, permit |-> c.permit,
             from |-> c.from, to |-> c.to, amount |-> c.amount,
             moved |-> c.moved, before |-> c.before]
    BY <1>2 DEF Waiting
  <2>. QED
    BY <1>3, <2>1
<1>. QED
  BY <1>2, <1>4, <1>5, WithinCall

(* Between calls a change of balances changes the committed ones. *)
LEMMA RebaseCommitted ==
    ASSUME Atomic, NEW account \in Addresses, NEW amount \in Uint256, Rebase(account, amount)
    PROVE  Committing
<1>1. /\ UNCHANGED <<now, signedPermits, challenges, entitlements, usedInstanceNonces,
                     totalOutstandingLiability, calls>>
      /\ balance' = [balance EXCEPT ![account] = amount]
  BY DEF Rebase, contractVars
<1>2. CASE calls # <<>>
  BY <1>1, <1>2, SameCall
<1>3. CASE calls = <<>>
  <2>1. Calm /\ Calm'
    BY <1>1, <1>3, CalmBefore, CalmAfter
  <2>2. Committed.balance' \in [Addresses -> Seen!Uint256]
    BY <1>1, <2>1, SeenDeployment DEF Atomic, Accounted, Calm
  <2>3. UNCHANGED <<now, Seen!contractVars, signedPermits>>
    BY <1>1, <2>1 DEF Calm, Seen!contractVars
  <2>4. Seen!Refines
    BY <2>2, <2>3, SeenDeployment, DeploymentAssumption, WidthAssumption,
       InputAssumption, Seen!BalancesRefine DEF Atomic
  <2>. QED
    BY <1>1, <1>3, <2>4 DEF Committing
<1>. QED
  BY <1>2, <1>3

LEMMA RevertCommitsNothing == ASSUME Atomic, Revert PROVE Committing
<1>1. PICK c : c = calls[1]
  OBVIOUS
<1>2. calls = <<c>> /\ Top = c /\ Pop = <<>>
  BY <1>1, TopOfOne DEF Atomic, Accounted, Revert
<1>3. Committed = c.before /\ calls' = <<>>
  BY <1>2, CommittedInCall DEF Revert
<1>4. Calm'
  BY <1>3, CalmAfter
<1>5. StillCommitted /\ UNCHANGED <<now, signedPermits>>
  BY <1>2, <1>3, <1>4 DEF Calm, StillCommitted, Revert, Restored
<1>. QED
  BY <1>3, <1>5, NothingCommitted DEF Atomic, Committing

-----------------------------------------------------------------------------
(* A call that returns. *)
LEMMA Returning ==
    ASSUME Atomic, NEW fn, Return(fn)
    PROVE  /\ Waiting(Top) /\ Pending(Top) /\ Top.function = fn
           /\ Calm' /\ calls' = <<>>
           /\ Committed.totalOutstandingLiability = Top.before.totalOutstandingLiability
           /\ Committed.balance = Top.before.balance
           /\ Committed.balance' \in [Addresses -> Seen!Uint256]
           /\ Committed.balance'[Escrow] = Committed.balance[Escrow] + Gained(Escrow)
<1>1. PICK c : c = calls[1]
  OBVIOUS
<1>2. /\ calls = <<c>> /\ Top = c /\ Pop = <<>> /\ Waiting(c) /\ Pending(c)
      /\ Committed = c.before
  BY <1>1, TopOfOne, CommittedInCall DEF Atomic, Accounted, Return
<1>3. /\ calls' = <<>> /\ Top.function = fn /\ balance' = balance
      /\ Calm'
  BY <1>2, CalmAfter DEF Return
<1>4. Committed.balance' = balance
  BY <1>3 DEF Calm
<1>5. /\ Committed.balance' \in [Addresses -> Seen!Uint256]
      /\ balance[Escrow] \in Int /\ c.before.balance[Escrow] \in Int
  BY <1>2, <1>4, SeenDeployment, Addressed, WidthAssumption
     DEF Atomic, Accounted, Waiting, Uint256
<1>6. Committed.balance'[Escrow] = Committed.balance[Escrow] + Gained(Escrow)
  BY <1>2, <1>4, <1>5 DEF Gained
<1>. QED
  BY <1>2, <1>3, <1>5, <1>6

LEMMA CreateCommits == ASSUME Atomic, ExitCreate PROVE Committing
<1> DEFINE s == Top.spec
<1>1. /\ Waiting(Top) /\ Pending(Top) /\ Top.function = "createAndFund"
      /\ Calm' /\ calls' = <<>> /\ Gained(Escrow) = Top.amount
      /\ WriteOpen(s)
  BY Returning DEF ExitCreate, PulledExactly
<1>2. /\ s \in Specs /\ Top.amount = s.stakeAmount
      /\ totalOutstandingLiability = Committed.totalOutstandingLiability
      /\ challenges = Committed.challenges /\ entitlements = Committed.entitlements
      /\ usedInstanceNonces = Committed.usedInstanceNonces
  BY <1>1, Returning DEF Waiting, Pending, ExitCreate
<1>3. ~Committed.challenges[s].exists /\ Seen!ValidExecution(s, now) /\ Seen!NonceUnused(s)
  BY <1>1 DEF Pending
<1>4. /\ Committed.balance' \in [Addresses -> Seen!Uint256]
      /\ Committed.balance'[Escrow] = Committed.balance[Escrow] + s.stakeAmount
  BY <1>1, <1>2, Returning DEF ExitCreate
<1> HIDE DEF s
<1>5. Seen!WriteOpen(s)
  BY <1>1, <1>2, ConstantsSeen DEF Calm, WriteOpen, Seen!WriteOpen
<1>6. Seen!Refines
  BY <1>2, <1>3, <1>4, <1>5, SeenDeployment, DeploymentAssumption, WidthAssumption,
     InputAssumption, Seen!OpenRefines DEF Atomic
<1>. QED
  BY <1>1, <1>6 DEF Committing

LEMMA AcceptCommits == ASSUME Atomic, ExitAccept PROVE Committing
<1> DEFINE s == Top.spec
           p == Top.permit
<1>1. /\ Waiting(Top) /\ Pending(Top) /\ Top.function = "accept"
      /\ Calm' /\ calls' = <<>> /\ Gained(Escrow) = Top.amount
      /\ WriteMatch(s, p)
  BY Returning DEF ExitAccept, PulledExactly
<1>2. /\ s \in Specs /\ Top.amount = s.stakeAmount
      /\ totalOutstandingLiability = Committed.totalOutstandingLiability
      /\ challenges = Committed.challenges /\ entitlements = Committed.entitlements
      /\ usedInstanceNonces = Committed.usedInstanceNonces
  BY <1>1, Returning DEF Waiting, Pending, ExitAccept
<1>3. p \in signedPermits /\ Seen!Matchable(s, p)
  BY <1>1 DEF Pending
<1>4. /\ Committed.balance' \in [Addresses -> Seen!Uint256]
      /\ Committed.balance'[Escrow] = Committed.balance[Escrow] + s.stakeAmount
  BY <1>1, <1>2, Returning DEF ExitAccept
<1> HIDE DEF s, p
<1>5. Seen!WriteMatch(s, p)
  BY <1>1, <1>2, ConstantsSeen
     DEF Calm, WriteMatch, Seen!WriteMatch, AggregateAfterAccept, Seen!AggregateAfterAccept
<1>6. Seen!Refines
  BY <1>2, <1>3, <1>4, <1>5, SeenDeployment, DeploymentAssumption, WidthAssumption,
     InputAssumption, Seen!MatchRefines DEF Atomic
<1>. QED
  BY <1>1, <1>6 DEF Committing

LEMMA PayCommits == ASSUME Atomic, ExitPay PROVE Committing
<1> DEFINE s == Top.spec
           w == Top.to
           n == Top.amount
<1>1. /\ Waiting(Top) /\ Pending(Top) /\ Top.function = "pay"
      /\ Calm' /\ calls' = <<>> /\ Gained(Escrow) = -n
      /\ UNCHANGED <<now, contractVars, signedPermits>>
  BY Returning DEF ExitPay, PushedExactly
<1>2. /\ s \in Specs /\ w \in Callers /\ n \in Nat
      /\ totalOutstandingLiability = Committed.totalOutstandingLiability - n
      /\ usedInstanceNonces = Committed.usedInstanceNonces
  BY <1>1, Returning DEF Waiting, Pending, ExitPay
<1>3. /\ Committed.challenges[s].exists
      /\ Committed.challenges[s].state \in Seen!Terminal
      /\ w \in Seen!Participants(s)
      /\ Seen!MayPay(s, w, n)
      /\ challenges = [Committed.challenges EXCEPT ![s] =
                [@ EXCEPT !.outstandingLiability =
                    Committed.challenges[s].outstandingLiability - n]]
      /\ entitlements = [Committed.entitlements EXCEPT ![s] =
                [@ EXCEPT ![w] = Seen!Consumed(Committed.entitlements[s][w], n)]]
  BY <1>1 DEF Pending
<1>4. /\ Committed.balance' \in [Addresses -> Seen!Uint256]
      /\ Committed.balance[Escrow] \in Int
      /\ Committed.balance'[Escrow] = Committed.balance[Escrow] + Gained(Escrow)
  BY <1>1, Returning, Addressed, WidthAssumption DEF ExitPay, Waiting, Uint256
<1>5. Committed.balance'[Escrow] = Committed.balance[Escrow] - n
  BY <1>1, <1>2, <1>4
<1> HIDE DEF s, w, n
<1>6. Seen!WritePaid(s, w, n)
  BY <1>1, <1>2, <1>3 DEF Calm, contractVars, Seen!WritePaid
<1>7. Seen!Refines
  BY <1>2, <1>3, <1>4, <1>5, <1>6, ConstantsSeen, SeenDeployment, DeploymentAssumption,
     WidthAssumption, InputAssumption, Seen!PaidRefines DEF Atomic
<1>. QED
  BY <1>1, <1>7 DEF Committing

-----------------------------------------------------------------------------
LEMMA BoundaryStepCommits == ASSUME Atomic, [BoundaryNext]_allVars PROVE Committing
<1>1. ASSUME NEW caller \in Callers, NEW s \in Specs, EnterCreate(caller, s)
      PROVE  Committing
  BY <1>1, CreateEnters
<1>2. ASSUME NEW caller \in Callers, NEW s \in Specs, NEW p \in signedPermits,
             EnterAccept(caller, s, p)
      PROVE  Committing
  BY <1>2, AcceptEnters
<1>3. ASSUME NEW caller \in Callers, NEW s \in Specs,
             EnterClaim(caller, s) \/ EnterRefund(caller, s)
      PROVE  Committing
  <2>1. caller \in Participants(s) /\ challenges[s].exists /\ challenges[s].state \in Terminal
    BY <1>3 DEF EnterClaim, EnterRefund, MayClaim, MayRefund, WinnerWallet, Participants,
                Terminal
  <2>2. s.stakeAmount \in Nat /\ s.stakeAmount * 2 \in Nat
    BY SpecStake
  <2>. QED
    BY <1>3, <2>1, <2>2, PayEnters DEF EnterClaim, EnterRefund
<1>4. ASSUME NEW caller \in Callers, NEW s \in Specs,
             Quiet(caller, s), UNCHANGED boundaryVars
      PROVE  Committing
  <2>1. calls = <<>> /\ calls' = <<>>
    BY <1>4 DEF Quiet, nonReentrant, boundaryVars
  <2>2. Seen!Next
    BY <1>4, <2>1, CalmBefore, CalmAfter, QuietCommitted
  <2>. QED
    BY <2>1, <2>2, SeenDeployment, DeploymentAssumption, WidthAssumption, InputAssumption,
       Seen!NextRefines DEF Atomic, Committing
<1>5. CASE BetweenBlocks /\ UNCHANGED boundaryVars
  <2>1. calls = <<>> /\ calls' = <<>>
    BY <1>5 DEF BetweenBlocks, boundaryVars
  <2>2. Calm /\ Calm'
    BY <2>1, CalmBefore, CalmAfter
  <2>3. CASE Tick
    <3>1. Seen!Tick
      BY <2>2, <2>3 DEF Calm, Tick, Seen!Tick, contractVars, Seen!contractVars
    <3>. QED
      BY <2>1, <3>1, SeenDeployment, DeploymentAssumption, WidthAssumption,
         InputAssumption, Seen!NextRefines
         DEF Atomic, Committing, Seen!Next, Seen!Environment
  <2>4. ASSUME NEW p \in Permits \ signedPermits, SignPermit(p)
        PROVE  Committing
    <3>1. Seen!SignPermit(p)
      BY <2>2, <2>4 DEF Calm, SignPermit, Seen!SignPermit, contractVars, Seen!contractVars
    <3>. QED
      BY <2>1, <3>1, SeenDeployment, DeploymentAssumption, WidthAssumption,
         InputAssumption, Seen!NextRefines
         DEF Atomic, Committing, Seen!Next, Seen!Environment
  <2>. QED
    BY <1>5, <2>3, <2>4 DEF BetweenBlocks
<1>6. ASSUME NEW caller \in Callers, NEW newPaused \in BOOLEAN,
             setPaused(caller, newPaused), UNCHANGED boundaryVars
      PROVE  Committing
  <2>1. UNCHANGED <<now, signedPermits, challenges, entitlements, usedInstanceNonces,
                    totalOutstandingLiability, balance, calls>>
    BY <1>6 DEF setPaused, boundaryVars
  <2>. QED
    BY <2>1, UnmovedCommits
<1>7. CASE UNCHANGED allVars
  BY <1>7, UnmovedCommits DEF allVars, vars, contractVars, boundaryVars
<1>. QED
  BY <1>1, <1>2, <1>3, <1>4, <1>5, <1>6, <1>7, TransferWithin, RebaseCommitted,
     CreateCommits, AcceptCommits, PayCommits, RevertCommitsNothing DEF BoundaryNext

LEMMA AtomicStep == ASSUME Atomic, [BoundaryNext]_allVars PROVE Atomic'
<1>1. Accounted' /\ Committing
  BY AccountedStep, BoundaryStepCommits DEF Atomic
<1>. QED
  BY <1>1 DEF Atomic, Committing, Seen!Refines

LEMMA AtomicInit == BoundaryInit => Atomic /\ Seen!TwoParty!Init
<1> SUFFICES ASSUME BoundaryInit PROVE Atomic /\ Seen!TwoParty!Init
  OBVIOUS
<1>1. calls = <<>> /\ Calm
  BY CalmBefore DEF BoundaryInit
<1>2. Seen!Init
  BY <1>1, ConstantsSeen DEF BoundaryInit, Init, Calm, Seen!Init
<1>3. Seen!Typed /\ Seen!BooksBalance /\ Seen!TwoParty!Init
  BY <1>2, SeenDeployment, DeploymentAssumption, WidthAssumption, InputAssumption,
     Seen!TypedInit, Seen!BooksInductive, Seen!InitSeen
<1>. QED
  BY <1>1, <1>3, AccountedInit DEF Atomic

(* Seen from the committed storage, the two instances say the same. *)
LEMMA OneLedger ==
    /\ Seen!TwoParty!Init => Ledger!TwoParty!Init
    /\ [Seen!TwoParty!Next]_(Seen!TwoParty!vars)
         => [Ledger!TwoParty!Next]_(Ledger!TwoParty!vars)
  BY DEF Seen!TwoParty!Init, Ledger!TwoParty!Init, Seen!TwoParty!Next,
         Ledger!TwoParty!Next, Seen!TwoParty!Fund, Ledger!TwoParty!Fund,
         Seen!TwoParty!Match, Ledger!TwoParty!Match, Seen!TwoParty!Settle,
         Ledger!TwoParty!Settle, Seen!TwoParty!Withdraw,
         Ledger!TwoParty!Withdraw, Seen!TwoParty!Splits,
         Ledger!TwoParty!Splits, Seen!TwoParty!OpenerRefund,
         Ledger!TwoParty!OpenerRefund, Seen!TwoParty!BothRefunded,
         Ledger!TwoParty!BothRefunded, Seen!TwoParty!WinnerTakes,
         Ledger!TwoParty!WinnerTakes, Seen!TwoParty!Nothing,
         Ledger!TwoParty!Nothing, Seen!TwoParty!vars, Ledger!TwoParty!vars,
         Seen!Stage, Ledger!Stage, Seen!Outstanding, Ledger!Outstanding,
         Seen!Claimable, Ledger!Claimable, Seen!Paid, Ledger!Paid,
         Seen!Terminal, Ledger!Terminal, Seen!Unmatched, Ledger!Unmatched

(* Whatever the token moves, refuses or calls, and wherever a call fails,  *)
(* what the escrow commits is a behaviour of the abstract escrow: a call   *)
(* is one step of a deal or none, for any number of challenges.            *)
THEOREM CallsImplementEscrow == BoundarySpec => CallsAreAtomic
<1>1. BoundaryInit => Atomic /\ Ledger!TwoParty!Init
  BY AtomicInit, OneLedger
<1>2. Atomic /\ [BoundaryNext]_allVars
        => Atomic' /\ [Ledger!TwoParty!Next]_(Ledger!TwoParty!vars)
  BY AtomicStep, BoundaryStepCommits, OneLedger DEF Committing, Seen!Refines
<1>. QED
  BY <1>1, <1>2, PTL
     DEF BoundarySpec, CallsAreAtomic, Ledger!ImplementsTwoPartyEscrow, Ledger!TwoParty!Spec
=============================================================================
