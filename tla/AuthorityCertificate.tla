------------------------- MODULE AuthorityCertificate -------------------------
(***************************************************************************)
(* The prototype of a certificate policy (authority-v2.mjs): a decision is *)
(* certified by a quorum of the authorities, or times out.  Time counts    *)
(* from the start of the case.                                             *)
(***************************************************************************)
EXTENDS Integers, Sequences, FiniteSets

CONSTANTS
    Members,            \* the authorities, in the order of the policy
    Quorum, DecisionWindow, CertificateEpoch,
    Others,             \* whoever else may approve or be available
    Latencies           \* how long the authorities may take

ASSUME QuorumAssumption ==
    /\ Len(Members) \in Nat
    /\ Quorum \in 1..Len(Members)
    /\ 2 * Quorum > Len(Members)
    /\ \A i, j \in 1..Len(Members) : i # j => Members[i] # Members[j]

ASSUME LatencyAssumption == DecisionWindow \in Nat /\ Latencies \subseteq Nat

VARIABLE
    decision            \* what the last call returned

MemberSet == {Members[i] : i \in 1..Len(Members)}

Outcomes == {"A", "B", "VOID"}

CertificateInit == decision = [mode |-> "none"]

Approvers(approvals) == {approvals[i] : i \in 1..Len(approvals)}

(* A plausible slip: a certificate may be issued when the case times out. *)
ExpiredAfter(expiresAt, time) == expiresAt < time

Expired(expiresAt, time) == expiresAt <= time

Certifies(epoch, outcome, approvals, expiresAt, time) ==
    /\ epoch = CertificateEpoch
    /\ outcome \in Outcomes
    /\ ~Expired(expiresAt, time)
    /\ Cardinality(Approvers(approvals)) = Len(approvals)
    /\ Approvers(approvals) \subseteq MemberSet
    /\ Cardinality(Approvers(approvals)) >= Quorum

(* A certificate is also asked for directly, with approvals from anyone. *)
certificate(epoch, outcome, approvals, expiresAt, time) ==
    decision' = IF Certifies(epoch, outcome, approvals, expiresAt, time)
              THEN [mode |-> "quorum-certificate", outcome |-> outcome, at |-> time,
                    approvals |-> Approvers(approvals), epoch |-> epoch]
              ELSE [mode |-> "rejected", at |-> time]

(* The first of the available members, in the order of the policy. *)
FirstAvailable(available) ==
    SubSeq(SelectSeq(Members, LAMBDA m : m \in available), 1, Quorum)

runCase(available, latency, outcome) ==
    IF Cardinality(MemberSet \cap available) < Quorum
    THEN decision' = [mode |-> "permissionless-timeout", outcome |-> "VOID",
                    at |-> DecisionWindow, available |-> available]
    ELSE certificate(CertificateEpoch, outcome, FirstAvailable(available),
                     DecisionWindow, latency)

CertificateNext ==
    \/ \E available \in SUBSET (MemberSet \cup Others), latency \in Latencies,
          outcome \in Outcomes \cup {"UNKNOWN"} :
         runCase(available, latency, outcome)
    \/ \E epoch \in {CertificateEpoch - 1, CertificateEpoch}, outcome \in Outcomes,
          latency \in Latencies, n \in 0..(Len(Members) + 1) :
         \E approvals \in [1..n -> MemberSet \cup Others] :
            certificate(epoch, outcome, approvals, DecisionWindow, latency)

CertificateSpec == CertificateInit /\ [][CertificateNext]_decision

-----------------------------------------------------------------------------
(* Safety *)

(* A decision is certified before the case times out or is void when it    *)
(* does, never both: a certificate is dated before the timeout and holds   *)
(* the approvals of a quorum, each member counted once, so that any two    *)
(* certificates share a member; and it times out only without a quorum.    *)
CertifiedOrVoid ==
    /\ decision.mode = "quorum-certificate" =>
         /\ decision.at < DecisionWindow
         /\ decision.epoch = CertificateEpoch
         /\ \A Q \in SUBSET MemberSet :
              Cardinality(Q) >= Quorum => Q \cap decision.approvals # {}
    /\ decision.mode = "permissionless-timeout" =>
         /\ decision.outcome = "VOID"
         /\ ~\E Q \in SUBSET MemberSet : Cardinality(Q) = Quorum /\ Q \subseteq decision.available
=============================================================================
