------------------------------ MODULE MCOffChain ------------------------------
(***************************************************************************)
(* What decides a case off chain: the head that RPC providers agree on,    *)
(* the operators of an authority policy, the authorities that certify an   *)
(* outcome, and the condition that the terms commit to.  They share no     *)
(* state, and nothing is gained by interleaving them: each goes on by      *)
(* itself from the start of the others.                                    *)
(***************************************************************************)
EXTENDS MCQuorums, MCConditions

(* Whence the others go on. *)
quorumStart == threshold = 2 /\ \A p \in Providers : endpoints[p] = Pending

conditionStart == observations = <<>> /\ root = [op |-> "execute"]

MCVars == <<vars, policyVars, decision, conditionVars>>

MCInit == Init /\ PolicyInit /\ CertificateInit /\ ConditionInit

MCNext ==
    \/ /\ PolicyInit /\ CertificateInit /\ conditionStart
       /\ Next /\ UNCHANGED <<policyVars, decision, conditionVars>>
    \/ /\ quorumStart /\ CertificateInit /\ conditionStart
       /\ PolicyNext /\ UNCHANGED <<vars, decision, conditionVars>>
    \/ /\ quorumStart /\ PolicyInit /\ conditionStart
       /\ CertificateNext /\ UNCHANGED <<vars, policyVars, conditionVars>>
    \/ /\ quorumStart /\ PolicyInit /\ CertificateInit
       /\ ConditionNext /\ UNCHANGED <<vars, policyVars, decision>>

MCSpec == MCInit /\ [][MCNext]_MCVars
=============================================================================
