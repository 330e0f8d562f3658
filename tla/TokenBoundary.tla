----------------------------- MODULE TokenBoundary -----------------------------
(***************************************************************************)
(* The escrow over a token that is not trusted.  A call that moves tokens  *)
(* is three steps, entry, token and exit, and between entry and exit the   *)
(* token's code runs: it may move the amount or not, change any balance,   *)
(* call back into the escrow, or make the call fail.                       *)
(***************************************************************************)
EXTENDS ChallengeEscrow, Sequences

CONSTANTS
    MaxSlips,       \* bound on balance changes that are no transfer of a call
    MaxDepth        \* bound on nested calls, which the EVM has as well

ASSUME BoundaryAssumption == MaxSlips \in Nat /\ MaxDepth \in Nat

VARIABLES
    calls,          \* the calls of the escrow that wait for the token, outermost first
    received,       \* history: what committed transactions brought into the pool, net
    slips           \* how many of MaxSlips have been used

boundaryVars == <<calls, received, slips>>
allVars == <<vars, boundaryVars>>

(* What a revert brings back. *)
Storage == [paused |-> paused, totalOutstandingLiability |-> totalOutstandingLiability,
            challenges |-> challenges, entitlements |-> entitlements,
            usedInstanceNonces |-> usedInstanceNonces, balance |-> balance]

BoundaryInit ==
    /\ Init
    /\ calls = <<>>
    /\ received = 0
    /\ slips = 0

Top == calls[Len(calls)]
Pop == SubSeq(calls, 1, Len(calls) - 1)

-----------------------------------------------------------------------------
(* Entry *)

(* A plausible slip: a function is left without its modifier. *)
Reentrant == Len(calls) < MaxDepth

nonReentrant == calls = <<>>

Enter(fn, s, p, from, to, amount) ==
    /\ calls' = Append(calls, [function |-> fn, spec |-> s, permit |-> p,
                               from |-> from, to |-> to, amount |-> amount,
                               moved |-> FALSE, before |-> Storage])
    /\ UNCHANGED <<received, slips>>

EnterCreate(caller, s) ==
    /\ nonReentrant
    /\ MayCreate(caller, s)
    /\ Enter("createAndFund", s, Absent, s.challengerWallet, Escrow, s.stakeAmount)
    /\ UNCHANGED vars

EnterAccept(caller, s, p) ==
    /\ nonReentrant
    /\ MayAccept(caller, s, p)
    /\ Enter("accept", s, p, p.acceptingWallet, Escrow, s.stakeAmount)
    /\ UNCHANGED vars

(* A payment is booked before the token is called. *)
EnterPay(caller, s, amount) ==
    /\ nonReentrant
    /\ MayPay(s, caller, amount)
    /\ WritePaid(s, caller, amount)
    /\ UNCHANGED balance
    /\ Enter("pay", s, Absent, Escrow, caller, amount)

EnterClaim(caller, s)  == MayClaim(caller, s) /\ EnterPay(caller, s, s.stakeAmount * 2)
EnterRefund(caller, s) == MayRefund(caller, s) /\ EnterPay(caller, s, s.stakeAmount)

-----------------------------------------------------------------------------
(* The token *)

TransferAsAsked ==
    /\ calls # <<>>
    /\ ~Top.moved
    /\ Transfer(Top.from, Top.to, Top.amount)
    /\ calls' = Append(Pop, [Top EXCEPT !.moved = TRUE])
    /\ UNCHANGED <<now, contractVars, signedPermits, received, slips>>

(* A fee, a rebase, a donation, a seizure: at any time, called or not. *)
Rebase(account, amount) ==
    /\ slips < MaxSlips
    /\ amount \in {balance[account] - 1, balance[account] + 1} \cap Uint256
    /\ balance' = [balance EXCEPT ![account] = amount]
    /\ slips' = slips + 1
    /\ UNCHANGED <<now, contractVars, signedPermits, calls, received>>

-----------------------------------------------------------------------------
(* Exit *)

Gained(account) == balance[account] - Top.before.balance[account]

(* A plausible slip: a token that credits too much is let through. *)
PulledAtLeast == Gained(Escrow) >= Top.amount

PulledExactly == Gained(Escrow) = Top.amount
PushedExactly == Gained(Escrow) = -Top.amount /\ Gained(Top.to) = Top.amount

Return(fn) ==
    /\ calls # <<>>
    /\ Top.function = fn
    /\ calls' = Pop
    /\ received' = IF Pop = <<>> THEN received + Gained(Escrow) ELSE received
    /\ UNCHANGED <<balance, slips>>

ExitCreate ==
    /\ Return("createAndFund")
    /\ PulledExactly
    /\ WriteOpen(Top.spec)

ExitAccept ==
    /\ Return("accept")
    /\ PulledExactly
    /\ WriteMatch(Top.spec, Top.permit)

PoolCovers == balance[Escrow] >= totalOutstandingLiability

ExitPay ==
    /\ Return("pay")
    /\ PushedExactly
    /\ PoolCovers
    /\ UNCHANGED <<now, contractVars, signedPermits>>

Restored ==
    /\ paused' = Top.before.paused
    /\ totalOutstandingLiability' = Top.before.totalOutstandingLiability
    /\ challenges' = Top.before.challenges
    /\ entitlements' = Top.before.entitlements
    /\ usedInstanceNonces' = Top.before.usedInstanceNonces
    /\ balance' = Top.before.balance

(* A failed query, a failed or refused transfer, a return value other than *)
(* nothing or 1, a wrong delta: all the same to the escrow.                *)
Revert ==
    /\ calls # <<>>
    /\ Restored
    /\ calls' = Pop
    /\ UNCHANGED <<now, signedPermits, received, slips>>

-----------------------------------------------------------------------------
(* Functions that call nobody, of which only setPaused may run in between. *)
Quiet(caller, s) ==
    /\ nonReentrant
    /\ \/ advanceAcceptanceNonce(caller, s)
       \/ cancelOpen(caller, s)
       \/ Deciding(caller, s)
       \/ Permissionless(s)

BetweenBlocks ==
    /\ calls = <<>>
    /\ \/ Tick
       \/ \E p \in Permits \ signedPermits : SignPermit(p)

BoundaryNext ==
    \/ \E caller \in Callers, s \in Specs :
        \/ EnterCreate(caller, s)
        \/ \E p \in signedPermits : EnterAccept(caller, s, p)
        \/ EnterClaim(caller, s)
        \/ EnterRefund(caller, s)
        \/ Quiet(caller, s) /\ UNCHANGED boundaryVars
    \/ TransferAsAsked
    \/ \E account \in Addresses, amount \in Uint256 : Rebase(account, amount)
    \/ ExitCreate \/ ExitAccept \/ ExitPay \/ Revert
    \/ BetweenBlocks /\ UNCHANGED boundaryVars
    \/ \E caller \in Callers, newPaused \in BOOLEAN :
        setPaused(caller, newPaused) /\ UNCHANGED boundaryVars

BoundarySpec == BoundaryInit /\ [][BoundaryNext]_allVars

-----------------------------------------------------------------------------
(* Every unit of liability was seen to arrive in the pool, and every unit  *)
(* paid was seen to leave it, once: no movement of the token is booked by  *)
(* two calls, whatever the token does or calls (pullExact, pushExact).     *)
EveryUnitMoved == calls = <<>> => received = totalOutstandingLiability

(* The storage as of the last committed transaction. *)
Committed == IF calls = <<>> THEN Storage ELSE calls[1].before

Ledger == INSTANCE ChallengeEscrowProps WITH
    paused                    <- Committed.paused,
    totalOutstandingLiability <- Committed.totalOutstandingLiability,
    challenges                <- Committed.challenges,
    entitlements              <- Committed.entitlements,
    usedInstanceNonces        <- Committed.usedInstanceNonces,
    balance                   <- Committed.balance

(* A call with everything the token did inside it is one transaction of    *)
(* the abstract escrow or none: in particular a payment that fails at any  *)
(* point can be claimed again, and none is consumed twice.                 *)
CallsAreAtomic == Ledger!ImplementsTwoPartyEscrow

(* docs/ATTACK-MATRIX.md says of the pool check that follows a payment     *)
(* that the checks before it leave it nothing to refuse.                   *)
LastPoolCheckRedundant ==
    calls # <<>> /\ Top.function = "pay" /\ PushedExactly => PoolCovers
=============================================================================
