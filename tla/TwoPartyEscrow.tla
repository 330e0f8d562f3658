---------------------------- MODULE TwoPartyEscrow ----------------------------
(***************************************************************************)
(* What the escrow promises about money, with no clock, role, evidence or  *)
(* aggregate account: each deal holds its opener's stake, then perhaps a   *)
(* partner's equal stake; it is settled exactly once, by returning every   *)
(* stake or by giving one party both; each party then withdraws what it is *)
(* due at most once, and no deal ever touches another deal's money.        *)
(***************************************************************************)
EXTENDS Integers

CONSTANTS
    Deals, Parties, Nobody,
    Opener,         \* [Deals -> Parties]
    Stake           \* [Deals -> Nat]

VARIABLES stage, partner,
          held,         \* what the escrow holds for a deal
          due,          \* what each party may withdraw from a deal
          paid          \* what each party has withdrawn

vars == <<stage, partner, held, due, paid>>

Nothing == [p \in Parties |-> 0]

Init ==
    /\ stage = [d \in Deals |-> "absent"]
    /\ partner = [d \in Deals |-> Nobody]
    /\ held = [d \in Deals |-> 0]
    /\ due = [d \in Deals |-> Nothing]
    /\ paid = [d \in Deals |-> Nothing]

Fund(d) ==
    /\ stage[d] = "absent"
    /\ stage' = [stage EXCEPT ![d] = "open"]
    /\ held' = [held EXCEPT ![d] = Stake[d]]
    /\ UNCHANGED <<partner, due, paid>>

Match(d, p) ==
    /\ stage[d] = "open"
    /\ p \notin {Opener[d], Nobody}
    /\ stage' = [stage EXCEPT ![d] = "matched"]
    /\ partner' = [partner EXCEPT ![d] = p]
    /\ held' = [held EXCEPT ![d] = 2 * Stake[d]]
    /\ UNCHANGED <<due, paid>>

OpenerRefund(d)  == [Nothing EXCEPT ![Opener[d]] = Stake[d]]
BothRefunded(d)  == [Nothing EXCEPT ![Opener[d]] = Stake[d], ![partner[d]] = Stake[d]]
WinnerTakes(d, p) == [Nothing EXCEPT ![p] = 2 * Stake[d]]

Splits(d) == IF stage[d] = "open"
             THEN {OpenerRefund(d)}
             ELSE {BothRefunded(d), WinnerTakes(d, Opener[d]), WinnerTakes(d, partner[d])}

Settle(d) ==
    /\ stage[d] \in {"open", "matched"}
    /\ \E split \in Splits(d) : due' = [due EXCEPT ![d] = split]
    /\ stage' = [stage EXCEPT ![d] = "settled"]
    /\ UNCHANGED <<partner, held, paid>>

Withdraw(d, p) ==
    /\ stage[d] = "settled"
    /\ due[d][p] > 0
    /\ paid' = [paid EXCEPT ![d][p] = due[d][p]]
    /\ due' = [due EXCEPT ![d][p] = 0]
    /\ held' = [held EXCEPT ![d] = @ - due[d][p]]
    /\ UNCHANGED <<stage, partner>>

Next == \E d \in Deals : \/ Fund(d)
                         \/ Settle(d)
                         \/ \E p \in Parties : Match(d, p) \/ Withdraw(d, p)

Spec == Init /\ [][Next]_vars
=============================================================================
