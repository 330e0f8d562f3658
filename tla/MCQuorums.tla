------------------------------ MODULE MCQuorums ------------------------------
(***************************************************************************)
(* The three places where a quorum of independent parties decides: RPC     *)
(* providers, operators of an authority policy, and authorities that       *)
(* certify an outcome.  They share no state.                               *)
(*                                                                         *)
(* Four providers, so that half of them is not a majority, over one block, *)
(* its child, and a header that shares the child's hash but names another  *)
(* parent.  Policies reach three epochs, counted in units of an hour; most *)
(* drafts break one rule each.                                             *)
(***************************************************************************)
EXTENDS RpcQuorum, AuthorityPolicy, AuthorityCertificate, TLC

CONSTANTS p1, p2, p3, p4, block, child, fork

MCProviders == {p1, p2, p3, p4}
MCHeaders   == {block, child, fork}
MCNumber     == block :> 0 @@ child :> 1 @@ fork :> 1
MCHash       == block :> "r" @@ child :> "c" @@ fork :> "c"
MCParentHash == block :> "x" @@ child :> "r" @@ fork :> "y"

Symmetry == Permutations(MCProviders)

-----------------------------------------------------------------------------
Member(fingerprint, custody) == [fingerprint |-> fingerprint, custody |-> custody]

Role(needed, members) == [threshold |-> needed, members |-> members]

ThreeOfFive == Role(3, <<Member(6, "hardware"), Member(7, "institutional"),
                         Member(8, "hardware"), Member(9, "offline"), Member(10, "hardware")>>)
TwoOfTwo    == Role(2, <<Member(4, "hardware"), Member(5, "offline")>>)
TwoOfThree  == Role(2, <<Member(1, "hardware"), Member(2, "institutional"),
                         Member(3, "offline")>>)

MCRoles == [arbiter |-> TwoOfThree, pauser |-> TwoOfTwo, resolver |-> ThreeOfFive]

RolesWith(role, needed, members) == [MCRoles EXCEPT ![role] = Role(needed, members)]

(* Roles that the rules allow, and some that each break one rule. *)
RoleVariants ==
    {RolesWith("resolver", 2, <<Member(6, "hardware"), Member(7, "offline")>>),
     RolesWith("resolver", 2, TwoOfThree.members),
     RolesWith("resolver", 2, <<Member(6, "hardware"), Member(7, "offline"),
                                Member(8, "hardware"), Member(9, "hardware")>>),
     RolesWith("resolver", 1, <<Member(6, "hardware"), Member(7, "offline")>>),
     RolesWith("arbiter", 4, TwoOfThree.members),
     RolesWith("arbiter", 2, <<Member(1, "hardware"), Member(1, "offline")>>),
     RolesWith("arbiter", 2, <<Member(0, "hardware"), Member(1, "offline")>>),
     RolesWith("pauser", 2, <<Member(4, "hardware"), Member(5, "hardware")>>),
     RolesWith("pauser", 2, <<Member(4, "hardware"), Member(5, "pocket")>>)}

MCForbidden == {"delegatecall", "owner-withdrawal"}

Draft(epoch, announcedAt, validFrom, validUntil) ==
    [epoch |-> epoch, announcedAt |-> announcedAt, validFrom |-> validFrom,
     validUntil |-> validUntil, minimumDelay |-> 1, maximumEpoch |-> 3,
     roles |-> MCRoles, forbidden |-> MCForbidden]

MCDrafts ==
    {Draft(1, 0, 1, 3), Draft(1, 0, 2, 4), Draft(2, 1, 2, 4), Draft(3, 2, 3, 6),
     Draft(2, 2, 2, 4), Draft(1, 0, 1, 5), Draft(1, 0, 2, 2), Draft(0, 0, 1, 3),
     [Draft(1, 1, 1, 3) EXCEPT !.minimumDelay = 0],
     [Draft(1, 0, 1, 5) EXCEPT !.maximumEpoch = 4],
     [Draft(1, 0, 1, 2) EXCEPT !.maximumEpoch = 1],
     [Draft(1, 0, 1, 3) EXCEPT !.forbidden = {}]}
    \cup {[Draft(2, 1, 2, 5) EXCEPT !.roles = roles] : roles \in RoleVariants}

MCCustody == {"hardware", "institutional", "offline"}
MCMembers == <<"a", "b", "c">>
=============================================================================
