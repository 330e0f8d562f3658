---------------------------- MODULE AuthorityPolicy ----------------------------
(***************************************************************************)
(* The authority operations policy (authority-policy.mjs): who may act for *)
(* the resolver, the arbiter and the pauser in each epoch, and a verifier  *)
(* that accepts one policy after another and derives incident matrices.    *)
(*                                                                         *)
(* Policies are presented in any order and any number of times, with any   *)
(* hash and any predecessor that the presenter can name.  A hash is the    *)
(* body that it commits to.  The verifier's lineage is not in the code: it *)
(* is the context that validateAuthorityPolicy expects to be given.        *)
(***************************************************************************)
EXTENDS Integers, Sequences, FiniteSets

CONSTANTS
    Drafts,             \* what may be presented: a policy without its hashes
    MinReviewSeconds, MaxEpochSeconds,
    ForbiddenCapabilities, Custody,
    MaxTime,            \* a bound on the time
    NoHash, NoMatrix

Roles == {"arbiter", "pauser", "resolver"}

(* decimal and uint64 let only unsigned numbers through; a fingerprint is  *)
(* a digest, of which only the order and being zero count.                 *)
ASSUME DraftAssumption ==
    /\ {MinReviewSeconds, MaxEpochSeconds} \subseteq Nat \ {0}
    /\ \A d \in Drafts :
         /\ {d.epoch, d.announcedAt, d.validFrom, d.validUntil, d.minimumDelay,
             d.maximumEpoch} \subseteq Nat
         /\ \A r \in Roles :
              /\ d.roles[r].threshold \in Nat
              /\ Len(d.roles[r].members) \in Nat
              /\ \A i \in 1..Len(d.roles[r].members) :
                   d.roles[r].members[i].fingerprint \in Nat

VARIABLES
    now,
    accepted,           \* the accepted policies, with the time of acceptance
    matrix              \* the last incident matrix, or NoMatrix

policyVars == <<now, accepted, matrix>>

PolicyInit ==
    /\ now = 0
    /\ accepted = << >>
    /\ matrix = NoMatrix

-----------------------------------------------------------------------------
(* validateAuthorityPolicy *)

authorityPolicyHash(policy) == policy.body

Fingerprints(role) == {role.members[i].fingerprint : i \in 1..Len(role.members)}

(* A plausible slip: half of the members are enough. *)
HalfOrMore(role) == role.threshold * 2 >= Len(role.members)

StrictMajority(role) == role.threshold * 2 > Len(role.members)

ValidRole(role) ==
    /\ role.threshold >= 2
    /\ Len(role.members) \in 2..7
    /\ role.threshold <= Len(role.members)
    /\ StrictMajority(role)
    /\ \A i \in 1..Len(role.members) :
         /\ role.members[i].fingerprint # 0
         /\ role.members[i].custody \in Custody
         /\ i > 1 => role.members[i - 1].fingerprint < role.members[i].fingerprint
    /\ Cardinality({role.members[i].custody : i \in 1..Len(role.members)}) >= 2

ValidRoles(roles) ==
    /\ \A r \in Roles : ValidRole(roles[r])
    /\ \A r, s \in Roles : r # s => Fingerprints(roles[r]) \cap Fingerprints(roles[s]) = {}

ValidLineage(body) ==
    /\ body.epoch >= 1
    /\ body.epoch = 1 <=> body.predecessor = NoHash
    /\ body.validFrom < body.validUntil

ValidRotation(body) ==
    /\ body.minimumDelay >= MinReviewSeconds
    /\ body.maximumEpoch > body.minimumDelay
    /\ body.maximumEpoch <= MaxEpochSeconds
    /\ body.validFrom - body.announcedAt >= body.minimumDelay
    /\ body.validUntil - body.validFrom <= body.maximumEpoch

InContext(body, context) ==
    /\ body.epoch = context.expectedEpoch
    /\ body.predecessor = context.expectedPredecessor
    /\ body.validFrom <= context.observedAt
    /\ context.observedAt < body.validUntil

(* A plausible slip: the hash is believed, not recomputed. *)
HashBelieved(policy) == TRUE

HashReproduces(policy) == policy.policyHash = authorityPolicyHash(policy)

validateAuthorityPolicy(policy, context) ==
    /\ ValidLineage(policy.body)
    /\ ValidRoles(policy.body.roles)
    /\ policy.body.forbidden = ForbiddenCapabilities
    /\ ValidRotation(policy.body)
    /\ InContext(policy.body, context)
    /\ HashReproduces(policy)

-----------------------------------------------------------------------------
(* The lineage of the verifier *)

HashOf(n) == IF n = 0 THEN NoHash ELSE accepted[n].policy.policyHash

(* What is expected of the policy of epoch n. *)
Context(n) == [observedAt |-> now, expectedEpoch |-> n, expectedPredecessor |-> HashOf(n - 1)]

(* A presenter knows every hash of the lineage, and the one of its policy. *)
Presented ==
    UNION {{[body |-> body, policyHash |-> hash] :
               hash \in {body} \cup {HashOf(n) : n \in 1..Len(accepted)}} :
           body \in {[epoch |-> d.epoch, predecessor |-> p, announcedAt |-> d.announcedAt,
                      validFrom |-> d.validFrom, validUntil |-> d.validUntil,
                      minimumDelay |-> d.minimumDelay, maximumEpoch |-> d.maximumEpoch,
                      roles |-> d.roles, forbidden |-> d.forbidden] :
                     d \in Drafts, p \in {HashOf(n) : n \in 0..Len(accepted)}}}

Accept(policy) ==
    /\ validateAuthorityPolicy(policy, Context(Len(accepted) + 1))
    /\ accepted' = Append(accepted, [policy |-> policy, at |-> now])
    /\ UNCHANGED <<now, matrix>>

-----------------------------------------------------------------------------
(* evaluateIncidentMatrix, of an accepted policy *)

Remaining(role, unavailable) == Fingerprints(role) \ unavailable

incidentRole(role, unavailable) ==
    [unavailable     |-> unavailable,
     remaining       |-> Cardinality(Remaining(role, unavailable)),
     quorumAvailable |-> Cardinality(Remaining(role, unavailable)) >= role.threshold]

(* A plausible slip: it stops one member short of losing the quorum. *)
SpareMembers(role) == Len(role.members) - role.threshold

lossCount(role) == Len(role.members) - role.threshold + 1

FirstMembers(role, n) == {role.members[i].fingerprint : i \in 1..n}

evaluateIncidentMatrix(n) ==
    LET policy   == accepted[n].policy
        resolver == policy.body.roles["resolver"]
        pauser   == policy.body.roles["pauser"]
        memberLoss == incidentRole(resolver, FirstMembers(resolver, 1))
    IN  /\ n \in 1..Len(accepted)
        /\ validateAuthorityPolicy(policy, Context(n))
        /\ matrix' =
             [policy |-> policy, at |-> now,
              memberLoss |-> memberLoss,
              decision   |-> IF memberLoss.quorumAvailable
                             THEN "continue-with-reduced-margin" ELSE "fail-closed",
              quorumLoss |-> incidentRole(resolver, FirstMembers(resolver, lossCount(resolver))),
              pauserLoss |-> incidentRole(pauser, Fingerprints(pauser)),
              presentedEpoch |-> policy.body.epoch - 1]
        /\ UNCHANGED <<now, accepted>>

Tick ==
    /\ now < MaxTime
    /\ now' = now + 1
    /\ UNCHANGED <<accepted, matrix>>

PolicyNext ==
    \/ Tick
    \/ \E policy \in Presented : Accept(policy)
    \/ \E n \in 1..Len(accepted) : evaluateIncidentMatrix(n)

PolicySpec == PolicyInit /\ [][PolicyNext]_policyVars

-----------------------------------------------------------------------------
(* Safety *)

(* Accepted epochs follow each other without a gap or a repetition, each   *)
(* policy commits to the body of the one accepted before it, and each was  *)
(* accepted while it was active, after the shortest review.                *)
LineageUnbroken ==
    \A n \in 1..Len(accepted) :
        LET body == accepted[n].policy.body IN
        /\ body.epoch = n
        /\ body.predecessor = IF n = 1 THEN NoHash ELSE accepted[n - 1].policy.body
        /\ body.announcedAt + MinReviewSeconds <= accepted[n].at
        /\ accepted[n].at < body.validFrom + MaxEpochSeconds

(* Any two groups of members that may act for a role share a member, and   *)
(* no member of one role is among those that may act for another.          *)
QuorumsOverlap ==
    \A n \in 1..Len(accepted), r, s \in Roles :
        LET roles == accepted[n].policy.body.roles IN
        \A Q \in SUBSET Fingerprints(roles[r]), R \in SUBSET Fingerprints(roles[s]) :
            Cardinality(Q) >= roles[r].threshold /\ Cardinality(R) >= roles[s].threshold
                => (Q \cap R # {} <=> r = s)

(* The incident matrix names incidents that mean what it decides: the      *)
(* quorum loss leaves no quorum though any member less would have left     *)
(* one, the member loss goes on only with a quorum, the pauser loss leaves *)
(* nobody, and the replayed policy, when it was accepted here, would be    *)
(* refused now.                                                            *)
IncidentsSound ==
    matrix # NoMatrix =>
    LET roles == matrix.policy.body.roles
        MayStillAct(members, role) ==
            \E Q \in SUBSET (Fingerprints(roles[role]) \ members) :
                Cardinality(Q) = roles[role].threshold
        lost == matrix.quorumLoss.unavailable
    IN  /\ ~matrix.quorumLoss.quorumAvailable
        /\ ~MayStillAct(lost, "resolver")
        /\ \A m \in lost : MayStillAct(lost \ {m}, "resolver")
        /\ matrix.decision = "continue-with-reduced-margin"
             <=> MayStillAct(matrix.memberLoss.unavailable, "resolver")
        /\ ~matrix.pauserLoss.quorumAvailable
        /\ matrix.pauserLoss.remaining = 0
        /\ matrix.presentedEpoch \in 1..Len(accepted) =>
             ~validateAuthorityPolicy(accepted[matrix.presentedEpoch].policy,
                                      [observedAt |-> matrix.at,
                                       expectedEpoch |-> matrix.policy.body.epoch,
                                       expectedPredecessor |-> matrix.policy.body.predecessor])
=============================================================================
