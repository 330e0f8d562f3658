---------------------------- MODULE ReferenceModel ----------------------------
(***************************************************************************)
(* The JavaScript reference model (challenge-model.mjs), the oracle of the *)
(* simulator, the liveness sweep and the failure lab.  Each action is one  *)
(* successful apply(); a rejected one changes nothing.  The caller of      *)
(* apply() supplies the time, which need not advance.                      *)
(***************************************************************************)
EXTENDS Integers

CONSTANTS
    Wallets, Resolver, Arbiter, Pauser,
    Creations,      \* the data of create actions
    Evidence,       \* evidence hashes, truthy or not
    Times,          \* values of action.now and of deadlines
    Nonces,         \* acceptance nonces
    None,           \* null, and everything else that is falsy
    MaxStake        \* Number.MAX_SAFE_INTEGER / 2 in the code

VARIABLES paused, totalOutstandingLiability, challenges, usedNonces

vars == <<paused, totalOutstandingLiability, challenges, usedNonces>>

Ids     == {x.id : x \in Creations}
Outcome == {"A", "B", "VOID"}
NoClaim == [claimable |-> 0, paid |-> 0]

Init ==
    /\ paused = FALSE
    /\ totalOutstandingLiability = 0
    /\ challenges = [id \in Ids |-> None]
    /\ usedNonces = {}

-----------------------------------------------------------------------------
In(id, state) == challenges[id] # None /\ challenges[id].state = state

Participants(c) == {c.challenger, c.acceptor}

Winner(c, outcome) == IF c.challengerSide = outcome THEN c.challenger ELSE c.acceptor

ValidDates(x, now) ==
    /\ now < x.acceptanceDeadline
    /\ x.acceptanceDeadline < x.observationTime
    /\ x.observationTime < x.sourceCorrectionCutoff
    /\ x.sourceCorrectionCutoff < x.proposalDeadline
    /\ x.disputeWindow > 0
    /\ x.arbitrationWindow > 0
    /\ x.sourceCorrectionCutoff < x.observationTime + x.disputeWindow
    /\ x.proposalDeadline + x.disputeWindow + x.arbitrationWindow <= x.timeoutVoidAt
    /\ x.sourceCorrectionCutoff + x.arbitrationWindow <= x.timeoutVoidAt

(* Only challenge id changes, and to c. *)
Update(id, c) == challenges' = [challenges EXCEPT ![id] = c]

UpdateOnly(id, c) == Update(id, c) /\ UNCHANGED <<paused, totalOutstandingLiability, usedNonces>>

Credit(c, wallets, amount) ==
    [w \in DOMAIN c.entitlements |->
        IF w \in wallets THEN [c.entitlements[w] EXCEPT !.claimable = amount]
                         ELSE c.entitlements[w]]

-----------------------------------------------------------------------------
warp == UNCHANGED vars

pause(caller, newPaused) ==
    /\ caller = Pauser
    /\ newPaused # paused
    /\ paused' = newPaused
    /\ UNCHANGED <<totalOutstandingLiability, challenges, usedNonces>>

create(caller, x, now) ==
    /\ ~paused
    /\ challenges[x.id] = None
    /\ <<x.challenger, x.nonce>> \notin usedNonces
    /\ caller = x.challenger
    /\ x.nonce # None
    /\ x.stake \in 1..MaxStake
    /\ ValidDates(x, now)
    /\ Update(x.id,
          [challenger |-> x.challenger, acceptor |-> None,
           challengerSide |-> x.challengerSide, stake |-> x.stake, state |-> "OPEN",
           acceptanceNonce |-> 0, deposited |-> x.stake, outstanding |-> x.stake,
           paid |-> [challenger |-> 0, acceptor |-> 0],
           acceptanceDeadline |-> x.acceptanceDeadline,
           observationTime |-> x.observationTime,
           sourceCorrectionCutoff |-> x.sourceCorrectionCutoff,
           proposalDeadline |-> x.proposalDeadline, disputeWindow |-> x.disputeWindow,
           arbitrationWindow |-> x.arbitrationWindow, timeoutVoidAt |-> x.timeoutVoidAt,
           proposal |-> None, dispute |-> None, final |-> None,
           entitlements |-> [w \in {x.challenger} |-> NoClaim]])
    /\ usedNonces' = usedNonces \cup {<<x.challenger, x.nonce>>}
    /\ totalOutstandingLiability' = totalOutstandingLiability + x.stake
    /\ UNCHANGED paused

advanceNonce(caller, id, now) ==
    LET c == challenges[id] IN
    /\ In(id, "OPEN")
    /\ caller = c.challenger
    /\ now < c.acceptanceDeadline
    /\ UpdateOnly(id, [c EXCEPT !.acceptanceNonce = @ + 1])

(* permitValid, the signature, is whatever the caller of apply() says. *)
accept(caller, id, permitNonce, expiresAt, now) ==
    LET c == challenges[id] IN
    /\ ~paused
    /\ In(id, "OPEN")
    /\ now < c.acceptanceDeadline
    /\ caller \notin {None, c.challenger, Resolver, Arbiter, Pauser}
    /\ permitNonce = c.acceptanceNonce
    /\ now < expiresAt
    /\ expiresAt <= c.acceptanceDeadline
    /\ Update(id,
          [c EXCEPT !.acceptor = caller,
                    !.deposited = @ + c.stake,
                    !.outstanding = @ + c.stake,
                    !.state = "ACTIVE",
                    !.entitlements = [w \in DOMAIN @ \cup {caller} |->
                                        IF w = caller THEN NoClaim ELSE @[w]]])
    /\ totalOutstandingLiability' = totalOutstandingLiability + c.stake
    /\ UNCHANGED <<paused, usedNonces>>

cancel(caller, id, now) ==
    LET c == challenges[id] IN
    /\ In(id, "OPEN")
    /\ caller = c.challenger
    /\ now < c.acceptanceDeadline
    /\ UpdateOnly(id, [c EXCEPT !.state = "CANCELLED",
                                !.entitlements = Credit(c, {c.challenger}, c.stake)])

expire(id, now) ==
    LET c == challenges[id] IN
    /\ In(id, "OPEN")
    /\ now >= c.acceptanceDeadline
    /\ UpdateOnly(id, [c EXCEPT !.state = "EXPIRED",
                                !.entitlements = Credit(c, {c.challenger}, c.stake)])

(* A plausible slip: the second of the observation is still too early. *)
ProposalOpenLate(c, now) == c.observationTime < now /\ now < c.proposalDeadline

ProposalOpen(c, now) == c.observationTime <= now /\ now < c.proposalDeadline

propose(caller, id, outcome, termsUnresolvable, evidenceHash, now) ==
    LET c == challenges[id] IN
    /\ ~paused
    /\ In(id, "ACTIVE")
    /\ caller = Resolver
    /\ ProposalOpen(c, now)
    /\ evidenceHash # None
    /\ outcome = "VOID" /\ ~termsUnresolvable => now >= c.sourceCorrectionCutoff
    /\ UpdateOnly(id,
          [c EXCEPT !.state = "PROPOSED",
                    !.proposal = [outcome |-> outcome, evidenceHash |-> evidenceHash,
                                  proposedAt |-> now,
                                  disputeDeadline |-> now + c.disputeWindow]])

dispute(caller, id, outcome, evidenceHash, parentEvidenceHash, now) ==
    LET c     == challenges[id]
        start == IF now < c.sourceCorrectionCutoff THEN c.sourceCorrectionCutoff ELSE now
    IN  /\ In(id, "PROPOSED")
        /\ caller \in Participants(c)
        /\ now < c.proposal.disputeDeadline
        /\ outcome # c.proposal.outcome
        /\ evidenceHash # None
        /\ parentEvidenceHash = c.proposal.evidenceHash
        /\ UpdateOnly(id,
              [c EXCEPT !.state = "DISPUTED",
                        !.dispute = [outcome |-> outcome, evidenceHash |-> evidenceHash,
                                     parentEvidenceHash |-> parentEvidenceHash,
                                     disputedAt |-> now, arbitrationStart |-> start,
                                     arbitrationDeadline |-> start + c.arbitrationWindow]])

SetFinal(id, outcome, evidenceHash) ==
    LET c == challenges[id] IN
    UpdateOnly(id,
        [c EXCEPT !.final = [outcome |-> outcome, evidenceHash |-> evidenceHash],
                  !.state = CASE outcome = "A"    -> "RESOLVED_A"
                              [] outcome = "B"    -> "RESOLVED_B"
                              [] outcome = "VOID" -> "VOID",
                  !.entitlements =
                      IF outcome = "VOID" THEN Credit(c, Participants(c), c.stake)
                      ELSE Credit(c, {Winner(c, outcome)}, c.stake * 2)])

finalize(id, now) ==
    /\ In(id, "PROPOSED")
    /\ now >= challenges[id].proposal.disputeDeadline
    /\ SetFinal(id, challenges[id].proposal.outcome, challenges[id].proposal.evidenceHash)

arbitrate(caller, id, outcome, evidenceHash, parentEvidenceHash, now) ==
    /\ In(id, "DISPUTED")
    /\ caller = Arbiter
    /\ challenges[id].sourceCorrectionCutoff <= now
    /\ now < challenges[id].dispute.arbitrationDeadline
    /\ evidenceHash # None
    /\ parentEvidenceHash = challenges[id].dispute.evidenceHash
    /\ SetFinal(id, outcome, evidenceHash)

voidUnproposed(id, now) ==
    /\ In(id, "ACTIVE")
    /\ now >= challenges[id].proposalDeadline
    /\ SetFinal(id, "VOID", None)

voidUnarbitrated(id, now) ==
    /\ In(id, "DISPUTED")
    /\ now >= challenges[id].dispute.arbitrationDeadline
    /\ SetFinal(id, "VOID", None)

Consume(id, wallet, amount) ==
    LET c == challenges[id] IN
    /\ wallet \in DOMAIN c.entitlements
    /\ c.entitlements[wallet] = [claimable |-> amount, paid |-> 0]
    /\ c.outstanding >= amount
    /\ totalOutstandingLiability >= amount
    /\ Update(id,
          [c EXCEPT !.entitlements[wallet] = [claimable |-> 0, paid |-> amount],
                    !.paid = [challenger |-> @.challenger
                                 + (IF wallet = c.challenger THEN amount ELSE 0),
                              acceptor |-> @.acceptor
                                 + (IF wallet = c.acceptor THEN amount ELSE 0)],
                    !.outstanding = @ - amount])
    /\ totalOutstandingLiability' = totalOutstandingLiability - amount
    /\ UNCHANGED <<paused, usedNonces>>

claim(caller, id) ==
    LET c == challenges[id] IN
    /\ In(id, "RESOLVED_A") \/ In(id, "RESOLVED_B")
    /\ caller = Winner(c, c.final.outcome)
    /\ Consume(id, caller, c.stake * 2)

refund(caller, id) ==
    LET c == challenges[id] IN
    /\ \/ In(id, "VOID") /\ caller \in Participants(c)
       \/ (In(id, "CANCELLED") \/ In(id, "EXPIRED")) /\ caller = c.challenger
    /\ Consume(id, caller, c.stake)

-----------------------------------------------------------------------------
Timed(id, now) ==
    \/ expire(id, now)
    \/ finalize(id, now)
    \/ voidUnproposed(id, now)
    \/ voidUnarbitrated(id, now)

OnOpen(caller, id, now) ==
    \/ advanceNonce(caller, id, now)
    \/ cancel(caller, id, now)
    \/ \E n \in Nonces, t \in Times : accept(caller, id, n, t, now)

Judging(caller, id, now) ==
    \E outcome \in Outcome, hash \in Evidence :
        \/ /\ In(id, "ACTIVE")
           /\ \E unresolvable \in BOOLEAN :
                 propose(caller, id, outcome, unresolvable, hash, now)
        \/ /\ In(id, "PROPOSED")
           /\ \E parent \in Evidence : dispute(caller, id, outcome, hash, parent, now)
        \/ /\ In(id, "DISPUTED")
           /\ \E parent \in Evidence : arbitrate(caller, id, outcome, hash, parent, now)

Called(caller, id, now) ==
    \/ In(id, "OPEN") /\ OnOpen(caller, id, now)
    \/ Judging(caller, id, now)
    \/ claim(caller, id)
    \/ refund(caller, id)

(* apply(action), now being action.now *)
Apply(now) ==
    \/ warp
    \/ \E caller \in Wallets, newPaused \in BOOLEAN : pause(caller, newPaused)
    \/ \E caller \in Wallets, x \in Creations : create(caller, x, now)
    \/ \E id \in Ids : Timed(id, now)
    \/ \E caller \in Wallets, id \in Ids :
          Called(caller, id, now)

Next == \E now \in Times : Apply(now)

Spec == Init /\ [][Next]_vars
=============================================================================
