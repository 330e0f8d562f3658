---------------------------- MODULE Quorums_proofs ----------------------------
(***************************************************************************)
(* Where a majority decides: the comparison of RPC providers, the groups   *)
(* that act for a role under the authority policies, and the authorities   *)
(* that certify an outcome.                                                *)
(*                                                                         *)
(* All three arguments are the intersection of majorities.  For the        *)
(* providers it needs an invariant about single endpoints (one without an  *)
(* error is complete and coherent) and one about the report (it is that of *)
(* the endpoints as they still are, and the threshold was validated        *)
(* before).  For the policies, what was validated on acceptance: every     *)
(* accepted policy was validated in the context of its place in the        *)
(* lineage, at the time it was accepted, and the last incident matrix is   *)
(* that of one of them, whose members are counted by their increasing      *)
(* fingerprints.  A certificate carries all that its argument needs.       *)
(***************************************************************************)
EXTENDS RpcQuorum, AuthorityPolicy, AuthorityCertificate, FiniteSetTheorems,
        SequenceTheorems, WellFoundedInduction, TLAPS

-----------------------------------------------------------------------------
(* The comparison of providers.  For any number of them, any strict        *)
(* majority and any answers: what is agreed on is reported, and headers    *)
(* agreed on under different tags fit together.                            *)

Endpoint == [latest: Headers \cup {None}, safe: Headers \cup {None},
             finalized: Headers \cup {None}, error: ProviderErrors \cup {NoError}]

Sound(e) ==
    e.error = NoError =>
        /\ e.latest \in Headers /\ e.safe \in Headers /\ e.finalized \in Headers
        /\ Coherent(e.latest, e.safe)
        /\ Coherent(e.safe, e.finalized)

EndpointsSound ==
    \A p \in Providers : /\ endpoints[p] \in {Pending} \cup Endpoint
                         /\ Sound(endpoints[p])

ReportCurrent ==
    report # None =>
        /\ ValidThreshold(threshold)
        /\ \A p \in Providers : endpoints[p] # Pending
        /\ report = [tag \in Tags |-> QuorumHead(Votes(tag), threshold)]

ComparisonInv == /\ threshold \in Thresholds
        /\ DOMAIN endpoints = Providers
        /\ endpoints = [p \in Providers |-> endpoints[p]]
        /\ EndpointsSound
        /\ ReportCurrent

-----------------------------------------------------------------------------
(* Whatever the answers, a snapshot is an outage or sound. *)
LEMMA SnapshotSound ==
    ASSUME NEW s \in Snapshots
    PROVE  s \in Endpoint /\ Sound(s)
<1>1. ASSUME NEW e \in ProviderErrors, s = Outage(e)
      PROVE  s \in Endpoint /\ Sound(s)
  BY <1>1 DEF Outage, Endpoint, Sound, ProviderErrors, NoError
<1>2. ASSUME NEW r \in Reads, s = Snapshot(r)
      PROVE  s \in Endpoint /\ Sound(s)
  <2>1. CASE \E e \in ProviderErrors : s = Outage(e)
    BY <1>1, <2>1
  <2>2. CASE ~\E e \in ProviderErrors : s = Outage(e)
    <3>1. /\ ~MalformedRead(r)
          /\ r.latest # None
          /\ Complete(r) => Linked(r)
          /\ s = [latest |-> r.latest, safe |-> r.safe, finalized |-> r.finalized,
                  error |-> IF Complete(r) THEN NoError ELSE "FINALITY_TAGS_UNAVAILABLE"]
      BY <1>2, <2>2 DEF Snapshot, ProviderErrors
    <3>2. /\ r.latest \in Headers
          /\ r.safe \in Headers \cup {None}
          /\ r.finalized \in Headers \cup {None}
          /\ Complete(r) => r.safe \in Headers /\ r.finalized \in Headers
      BY <3>1 DEF Reads, Answers, MalformedRead, Complete
    <3>3. s.error = NoError => Complete(r)
      BY <3>1 DEF NoError
    <3> QED
      BY <3>1, <3>2, <3>3 DEF Endpoint, Sound, Linked, ProviderErrors
  <2> QED
    BY <2>1, <2>2
<1>3. /\ "FINALITY_TAGS_UNAVAILABLE" \in ProviderErrors
      /\ "RPC_READ_FAILED" \in ProviderErrors
  BY DEF ProviderErrors
<1> QED
  BY <1>1, <1>2, <1>3 DEF Snapshots

LEMMA ComparisonInit == Init => ComparisonInv
  BY DEF Init, ComparisonInv, EndpointsSound, ReportCurrent, Sound, Pending, NoError

LEMMA ComparisonNext == ComparisonInv /\ [Next]_vars => ComparisonInv'
<1> SUFFICES ASSUME ComparisonInv, [Next]_vars
             PROVE  ComparisonInv'
  OBVIOUS
<1>1. CASE UNCHANGED vars
  BY <1>1 DEF vars, ComparisonInv, EndpointsSound, ReportCurrent, Votes
<1>2. ASSUME NEW p \in Providers, TakeSnapshot(p)
      PROVE  ComparisonInv'
  <2>1. PICK s \in Snapshots : endpoints' = [endpoints EXCEPT ![p] = s]
    BY <1>2 DEF TakeSnapshot
  <2>2. s \in Endpoint /\ Sound(s)
    BY SnapshotSound
  <2>3. report = None
    BY <1>2 DEF ComparisonInv, ReportCurrent, TakeSnapshot
  <2>4. EndpointsSound'
    BY <2>1, <2>2 DEF ComparisonInv, EndpointsSound
  <2> QED
    BY <1>2, <2>1, <2>3, <2>4 DEF ComparisonInv, ReportCurrent, TakeSnapshot
<1>3. CASE Compare
  <2>1. \A tag : Votes(tag)' = Votes(tag)
    BY <1>3 DEF Compare, Votes
  <2>2. ReportCurrent'
    BY <1>3, <2>1 DEF Compare, ReportCurrent, Votes
  <2> QED
    BY <1>3, <2>2 DEF Compare, ComparisonInv, EndpointsSound
<1> QED
  BY <1>1, <1>2, <1>3 DEF Next

-----------------------------------------------------------------------------
(* The report for one tag *)

LEMMA SupportersFinite ==
    ASSUME NEW votes, NEW b
    PROVE  /\ Supporters(votes, b) \subseteq Providers
           /\ IsFiniteSet(Supporters(votes, b))
           /\ Cardinality(Supporters(votes, b)) \in Nat
           /\ Cardinality(Providers) \in Nat
<1>1. Supporters(votes, b) \subseteq Providers
  BY DEF Supporters
<1> QED
  BY <1>1, ProviderAssumption, FS_Subset, FS_CardinalityType

(* Two strict majorities share a provider. *)
LEMMA MajoritiesShare ==
    ASSUME NEW S \in SUBSET Providers, NEW T \in SUBSET Providers,
           NEW n \in Int, ValidThreshold(n),
           Cardinality(S) >= n, Cardinality(T) >= n
    PROVE  \E p \in Providers : p \in S /\ p \in T
<1>1. /\ IsFiniteSet(S) /\ IsFiniteSet(T)
      /\ Cardinality(S) \in Nat /\ Cardinality(T) \in Nat /\ Cardinality(Providers) \in Nat
  BY ProviderAssumption, FS_Subset, FS_CardinalityType
<1>2. Cardinality(S) + Cardinality(T) > Cardinality(Providers)
  BY <1>1 DEF ValidThreshold
<1>3. S \cap T # {}
  BY <1>2, ProviderAssumption, FS_MajoritiesIntersect
<1> QED
  BY <1>3

(* A provider stands for one header, so at most one header has a strict    *)
(* majority, and that one is reported.                                     *)
LEMMA QuorumReported ==
    ASSUME NEW votes, NEW n \in Int, ValidThreshold(n),
           NEW b \in Headers, Cardinality(Supporters(votes, b)) >= n
    PROVE  QuorumHead(votes, n).agreed = b
<1> DEFINE voted   == Voted(votes)
           groups  == {votes[p] : p \in voted}
           winning == {c \in groups : Cardinality(Supporters(votes, c)) >= n}
<1>1. PICK p \in Providers : votes[p] = b
  BY SupportersFinite, MajoritiesShare DEF Supporters
<1>2. b \in winning
  BY <1>1, HeaderAssumption DEF Voted
<1>3. ASSUME NEW c \in winning
      PROVE  c = b
  <2>1. PICK q \in Providers : q \in Supporters(votes, b) /\ q \in Supporters(votes, c)
    BY <1>3, SupportersFinite, MajoritiesShare
  <2> QED
    BY <2>1 DEF Supporters
<1>4. winning = {b}
  BY <1>2, <1>3
<1>5. (CHOOSE c \in winning : TRUE) = b
  BY <1>4
<1>6. \E c \in winning : winning = {c}
  BY <1>4
<1> HIDE DEF winning
<1> QED
  BY <1>5, <1>6 DEF QuorumHead, winning

(* What is reported as agreed has the support that was asked for. *)
LEMMA AgreedSupported ==
    ASSUME NEW votes, NEW n \in Int, NEW b \in Headers,
           QuorumHead(votes, n).status = "agree", QuorumHead(votes, n).agreed = b
    PROVE  Cardinality(Supporters(votes, b)) >= n
<1> DEFINE voted   == Voted(votes)
           groups  == {votes[p] : p \in voted}
           winning == {c \in groups : Cardinality(Supporters(votes, c)) >= n}
<1>1. \E c \in winning : winning = {c}
  BY DEF QuorumHead
<1>2. (CHOOSE c \in winning : TRUE) \in winning
  BY <1>1
<1>3. b = (CHOOSE c \in winning : TRUE)
  BY <1>1 DEF QuorumHead
<1> QED
  BY <1>2, <1>3

-----------------------------------------------------------------------------
(* An endpoint without an error is coherent across all three tags. *)
LEMMA SoundAcross ==
    ASSUME NEW e, Sound(e), e.error = NoError
    PROVE  Coherent(e.latest, e.finalized)
<1>1. /\ e.latest \in Headers /\ e.safe \in Headers /\ e.finalized \in Headers
      /\ Coherent(e.latest, e.safe) /\ Coherent(e.safe, e.finalized)
  BY DEF Sound
<1>2. ASSUME NEW h \in Headers
      PROVE  Number[h] \in Int
  <2>1. Number[h] \in Heights
    BY HeaderAssumption
  <2>2. Heights \subseteq Int
    BY HeaderAssumption
  <2> QED
    BY <2>1, <2>2
<1> QED
  BY <1>1, <1>2 DEF Coherent

LEMMA ComparisonCoheres == ComparisonInv => LabelledHeadsCohere
<1> SUFFICES ASSUME ComparisonInv, report # None,
                    NEW b \in Headers, NEW c \in Headers, NEW newer \in Tags, NEW older \in Tags,
                    <<newer, older>> \in {<<"latest", "safe">>, <<"safe", "finalized">>,
                                          <<"latest", "finalized">>},
                    AcceptsHead(b, newer), AcceptsHead(c, older)
             PROVE  Coherent(b, c)
  BY DEF LabelledHeadsCohere
<1>1. /\ threshold \in Int
      /\ ValidThreshold(threshold)
      /\ report[newer] = QuorumHead(Votes(newer), threshold)
      /\ report[older] = QuorumHead(Votes(older), threshold)
  BY ThresholdAssumption DEF ComparisonInv, ReportCurrent
<1>2. newer # "unknown" /\ older # "unknown"
  BY DEF Tags
<1>3. /\ QuorumHead(Votes(newer), threshold).status = "agree"
      /\ QuorumHead(Votes(newer), threshold).agreed = b
      /\ QuorumHead(Votes(older), threshold).status = "agree"
      /\ QuorumHead(Votes(older), threshold).agreed = c
  BY <1>1, <1>2 DEF AcceptsHead
<1>4. /\ Cardinality(Supporters(Votes(newer), b)) >= threshold
      /\ Cardinality(Supporters(Votes(older), c)) >= threshold
  BY <1>1, <1>3, AgreedSupported
<1>5. PICK p \in Providers : p \in Supporters(Votes(newer), b) /\ p \in Supporters(Votes(older), c)
  BY <1>1, <1>4, SupportersFinite, MajoritiesShare
<1>6. Votes(newer)[p] = b /\ Votes(older)[p] = c
  BY <1>5 DEF Supporters
<1>7. /\ endpoints[p].error = NoError
      /\ endpoints[p][newer] = b /\ endpoints[p][older] = c
  BY <1>6, HeaderAssumption DEF Votes
<1>8. Sound(endpoints[p])
  BY DEF ComparisonInv, EndpointsSound
<1>9. Coherent(endpoints[p].latest, endpoints[p].finalized)
  BY <1>7, <1>8, SoundAcross
<1> QED
  BY <1>7, <1>8, <1>9 DEF Sound

(* A head reports headers only. *)
LEMMA HeadTyped ==
    ASSUME NEW votes \in [Providers -> Headers \cup {None}], NEW n
    PROVE  /\ QuorumHead(votes, n).groups \subseteq Headers
           /\ QuorumHead(votes, n).agreed \in Headers \cup {None}
<1> DEFINE voted   == Voted(votes)
           groups  == {votes[p] : p \in voted}
           winning == {c \in groups : Cardinality(Supporters(votes, c)) >= n}
<1>1. groups \subseteq Headers
  BY DEF Voted
<1>2. QuorumHead(votes, n).groups = groups
  BY DEF QuorumHead
<1>3. CASE \E c \in winning : winning = {c}
  <2>1. QuorumHead(votes, n).agreed = (CHOOSE c \in winning : TRUE)
    BY <1>3 DEF QuorumHead
  <2>2. (CHOOSE c \in winning : TRUE) \in groups
    BY <1>3
  <2> QED
    BY <1>1, <1>2, <2>1, <2>2
<1>4. CASE ~\E c \in winning : winning = {c}
  BY <1>1, <1>2, <1>4 DEF QuorumHead
<1> QED
  BY <1>3, <1>4

(* Every snapshot is an outage or consists of well-formed headers. *)
THEOREM ComparisonTypeCorrect == Spec => []TypeOK
<1>1. ComparisonInv => TypeOK
  <2> SUFFICES ASSUME ComparisonInv
               PROVE  TypeOK
    OBVIOUS
  <2>1. endpoints \in [Providers -> {Pending} \cup Endpoint]
    BY DEF ComparisonInv, EndpointsSound
  <2>2. ASSUME report # None, NEW tag \in Tags
        PROVE  /\ report[tag].groups \subseteq Headers
               /\ report[tag].agreed \in Headers \cup {None}
    <3>1. report[tag] = QuorumHead(Votes(tag), threshold)
      BY <2>2 DEF ComparisonInv, ReportCurrent
    <3>2. Votes(tag) \in [Providers -> Headers \cup {None}]
      BY DEF ComparisonInv, EndpointsSound, Sound, Votes, Tags
    <3> QED
      BY <3>1, <3>2, HeadTyped
  <2> QED
    BY <2>1, <2>2 DEF TypeOK, Endpoint, ComparisonInv
<1> QED
  BY ComparisonInit, ComparisonNext, <1>1, PTL DEF Spec

(* The receipt builder accepts the client's endpoints and recomputes its   *)
(* report from them.                                                       *)
THEOREM ReceiptsReproduce == Spec => []ReceiptReproduces
<1>1. ComparisonInv => ReceiptReproduces
  <2> SUFFICES ASSUME ComparisonInv, report # None
               PROVE  BuildsReport
    BY DEF ReceiptReproduces
  <2>1. ASSUME NEW p \in Providers
        PROVE  AcceptsProvider(ReceiptProvider(endpoints[p]))
    <3>1. endpoints[p] \in Endpoint /\ Sound(endpoints[p])
      BY DEF ComparisonInv, EndpointsSound, ReportCurrent
    <3>2. CASE endpoints[p].error = NoError
      BY <3>1, <3>2, HeaderAssumption DEF Sound, AcceptsProvider, ReceiptProvider, Tags
    <3>3. CASE endpoints[p].error # NoError
      <4>1. endpoints[p].error \in ProviderErrors
        BY <3>1, <3>3 DEF Endpoint
      <4> QED
        BY <3>3, <4>1 DEF AcceptsProvider, ReceiptProvider, Tags
    <3> QED
      BY <3>2, <3>3
  <2>2. \A tag \in Tags : ReceiptVotes(tag) = Votes(tag)
    BY DEF ReceiptVotes, Votes, ReceiptProvider, Tags
  <2> QED
    BY <2>1, <2>2 DEF BuildsReport, ReceiptHead, ComparisonInv, ReportCurrent
<1> QED
  BY ComparisonInit, ComparisonNext, <1>1, PTL DEF Spec

(* Headers that receipts carry under different labels fit together. *)
THEOREM AgreedHeadsFit == Spec => []LabelledHeadsCohere
  BY ComparisonInit, ComparisonNext, ComparisonCoheres, PTL DEF Spec

(* Agreement that exists is reported. *)
THEOREM AgreementIsReported == Spec => []NoQuorumDiscarded
<1>1. ComparisonInv => NoQuorumDiscarded
  <2> SUFFICES ASSUME ComparisonInv, report # None, NEW tag \in Tags, NEW b \in Headers,
                      Cardinality(Supporters(Votes(tag), b)) >= threshold
               PROVE  report[tag].agreed = b
    BY DEF NoQuorumDiscarded
  <2>1. /\ threshold \in Int
        /\ ValidThreshold(threshold)
        /\ report[tag] = QuorumHead(Votes(tag), threshold)
    BY ThresholdAssumption DEF ComparisonInv, ReportCurrent
  <2> QED
    BY <2>1, QuorumReported
<1> QED
  BY ComparisonInit, ComparisonNext, <1>1, PTL DEF Spec

-----------------------------------------------------------------------------
(* The authority policies.  For any drafts, periods and number of epochs:  *)
(* the accepted policies form one lineage, and no two groups that may act  *)
(* for a role are disjoint.                                                *)

WellFormed(role) ==
    /\ role.threshold \in Nat
    /\ Len(role.members) \in Nat
    /\ \A i \in 1..Len(role.members) : role.members[i].fingerprint \in Nat

WellTyped(body) ==
    /\ {body.epoch, body.announcedAt, body.validFrom, body.validUntil,
        body.minimumDelay, body.maximumEpoch} \subseteq Nat
    /\ \A r \in Roles : WellFormed(body.roles[r])

AcceptedAt(n, entry) ==
    /\ WellTyped(entry.policy.body)
    /\ entry.at \in Nat
    /\ validateAuthorityPolicy(entry.policy,
           [observedAt |-> entry.at, expectedEpoch |-> n, expectedPredecessor |-> HashOf(n - 1)])

LineageInv ==
    /\ now \in Nat
    /\ accepted \in Seq({accepted[n] : n \in 1..Len(accepted)})
    /\ \A n \in 1..Len(accepted) : AcceptedAt(n, accepted[n])

-----------------------------------------------------------------------------
(* Whatever is presented was drafted. *)
LEMMA PresentedTyped ==
    ASSUME NEW policy \in Presented
    PROVE  WellTyped(policy.body)
<1> DEFINE Body(d, p) ==
               [epoch |-> d.epoch, predecessor |-> p, announcedAt |-> d.announcedAt,
                validFrom |-> d.validFrom, validUntil |-> d.validUntil,
                minimumDelay |-> d.minimumDelay, maximumEpoch |-> d.maximumEpoch,
                roles |-> d.roles, forbidden |-> d.forbidden]
           Bodies  == {Body(d, p) : d \in Drafts, p \in {HashOf(n) : n \in 0..Len(accepted)}}
           With(body) == {[body |-> body, policyHash |-> hash] :
                             hash \in {body} \cup {HashOf(n) : n \in 1..Len(accepted)}}
<1>1. Presented = UNION {With(body) : body \in Bodies}
  BY DEF Presented
<1>2. PICK body \in Bodies : policy \in With(body)
  BY <1>1
<1>3. policy.body = body
  BY <1>2
<1>4. PICK d \in Drafts, p \in {HashOf(n) : n \in 0..Len(accepted)} : body = Body(d, p)
  BY <1>2
<1> QED
  BY <1>3, <1>4, DraftAssumption DEF WellTyped, WellFormed

LEMMA LineageInit == PolicyInit => LineageInv
<1> SUFFICES ASSUME PolicyInit
             PROVE  LineageInv
  OBVIOUS
<1>1. accepted = << >> /\ now = 0 /\ Len(accepted) = 0
  BY DEF PolicyInit
<1> QED
  BY <1>1 DEF LineageInv

(* One more policy leaves the hashes of the earlier ones as they were. *)
LEMMA Appended ==
    ASSUME LineageInv, NEW policy, accepted' = Append(accepted, [policy |-> policy, at |-> now])
    PROVE  /\ Len(accepted) \in Nat
           /\ Len(accepted') = Len(accepted) + 1
           /\ accepted' \in Seq({accepted'[n] : n \in 1..Len(accepted')})
           /\ \A n \in 1..Len(accepted) : accepted'[n] = accepted[n]
           /\ accepted'[Len(accepted) + 1] = [policy |-> policy, at |-> now]
           /\ \A n \in 1..(Len(accepted) + 1) : HashOf(n - 1)' = HashOf(n - 1)
<1> DEFINE last == [policy |-> policy, at |-> now]
           S    == {accepted[n] : n \in 1..Len(accepted)} \cup {last}
<1>1. accepted \in Seq(S) /\ last \in S /\ accepted' = Append(accepted, last)
  BY DEF LineageInv
<1>2. /\ accepted' \in Seq(S)
      /\ Len(accepted) \in Nat
      /\ Len(accepted') = Len(accepted) + 1
      /\ \A n \in 1..Len(accepted) : accepted'[n] = accepted[n]
      /\ accepted'[Len(accepted) + 1] = last
  <2> HIDE DEF S, last
  <2> QED
    BY <1>1, AppendProperties
<1>3. accepted' \in Seq({accepted'[n] : n \in 1..Len(accepted')})
  <2> DEFINE T == {accepted'[n] : n \in 1..Len(accepted')}
  <2>1. /\ Len(accepted') \in Nat
        /\ DOMAIN accepted' = 1..Len(accepted')
        /\ accepted' = [n \in 1..Len(accepted') |-> accepted'[n]]
    BY <1>2, LenProperties
  <2>2. \A n \in 1..Len(accepted') : accepted'[n] \in T
    OBVIOUS
  <2>3. accepted' \in [1..Len(accepted') -> T]
    <3> HIDE DEF T
    <3> QED
      BY <2>1, <2>2
  <2> HIDE DEF T
  <2>4. accepted' \in Seq(T)
    BY <2>1, <2>3, SeqDef
  <2> QED
    BY <2>4 DEF T
<1>4. \A n \in 1..(Len(accepted) + 1) : HashOf(n - 1)' = HashOf(n - 1)
  BY <1>2 DEF HashOf
<1> QED
  BY <1>2, <1>3, <1>4

LEMMA LineageNext == LineageInv /\ [PolicyNext]_policyVars => LineageInv'
<1> SUFFICES ASSUME LineageInv, [PolicyNext]_policyVars
             PROVE  LineageInv'
  OBVIOUS
<1>1. CASE UNCHANGED <<now, accepted>>
  BY <1>1 DEF LineageInv, AcceptedAt, HashOf
<1>2. CASE Tick
  BY <1>2 DEF Tick, LineageInv, AcceptedAt, HashOf
<1>3. ASSUME NEW policy \in Presented, Accept(policy)
      PROVE  LineageInv'
  <2>1. /\ validateAuthorityPolicy(policy, Context(Len(accepted) + 1))
        /\ accepted' = Append(accepted, [policy |-> policy, at |-> now])
        /\ now' = now
    BY <1>3 DEF Accept
  <2>2. WellTyped(policy.body)
    BY PresentedTyped
  <2>3. ASSUME NEW n, n = Len(accepted) + 1
        PROVE  AcceptedAt(n, accepted[n])'
    <3>1. n \in 1..(Len(accepted) + 1)
      BY <2>1, <2>3, Appended
    <3>2. HashOf(n - 1)' = HashOf(n - 1)
      BY <2>1, <3>1, Appended
    <3>3. accepted'[n] = [policy |-> policy, at |-> now]
      BY <2>1, <2>3, Appended
    <3>4. accepted'[n].policy = policy /\ accepted'[n].at = now
      BY <3>3
    <3>5. validateAuthorityPolicy(policy,
              [observedAt |-> now, expectedEpoch |-> n, expectedPredecessor |-> HashOf(n - 1)])
      BY <2>1, <2>3 DEF Context
    <3>6. now \in Nat
      BY DEF LineageInv
    <3> QED
      BY <2>2, <3>2, <3>4, <3>5, <3>6 DEF AcceptedAt
  <2>4. ASSUME NEW n \in 1..Len(accepted)
        PROVE  AcceptedAt(n, accepted[n])'
    <3>1. n \in 1..(Len(accepted) + 1) /\ accepted'[n] = accepted[n]
      BY <2>1, Appended
    <3>2. HashOf(n - 1)' = HashOf(n - 1)
      BY <2>1, <3>1, Appended
    <3>3. AcceptedAt(n, accepted[n])
      BY DEF LineageInv
    <3> QED
      BY <3>1, <3>2, <3>3 DEF AcceptedAt
  <2>5. \A n \in 1..Len(accepted') : n \in 1..Len(accepted) \/ n = Len(accepted) + 1
    BY <2>1, Appended
  <2> QED
    BY <2>1, <2>3, <2>4, <2>5, Appended DEF LineageInv
<1> QED
  BY <1>1, <1>2, <1>3 DEF PolicyNext, policyVars, evaluateIncidentMatrix

-----------------------------------------------------------------------------
(* Accepted epochs are counted without a gap, each policy commits to the   *)
(* body of the one before it, and each was reviewed and active.            *)
THEOREM LineageIsUnbroken == PolicySpec => []LineageUnbroken
<1>1. LineageInv => LineageUnbroken
  <2> SUFFICES ASSUME LineageInv, NEW n \in 1..Len(accepted)
               PROVE  LET body == accepted[n].policy.body IN
                      /\ body.epoch = n
                      /\ body.predecessor = IF n = 1 THEN NoHash ELSE accepted[n - 1].policy.body
                      /\ body.announcedAt + MinReviewSeconds <= accepted[n].at
                      /\ accepted[n].at < body.validFrom + MaxEpochSeconds
    BY DEF LineageUnbroken
  <2> DEFINE body == accepted[n].policy.body
  <2>1. /\ WellTyped(body) /\ accepted[n].at \in Nat
        /\ body.epoch = n /\ body.predecessor = HashOf(n - 1)
        /\ body.validFrom <= accepted[n].at /\ accepted[n].at < body.validUntil
        /\ ValidRotation(body)
    BY DEF LineageInv, AcceptedAt, validateAuthorityPolicy, InContext
  <2>2. n # 1 => /\ HashOf(n - 1) = accepted[n - 1].policy.policyHash
                 /\ accepted[n - 1].policy.policyHash = accepted[n - 1].policy.body
    <3> SUFFICES ASSUME n # 1
                 PROVE  /\ HashOf(n - 1) = accepted[n - 1].policy.policyHash
                        /\ accepted[n - 1].policy.policyHash = accepted[n - 1].policy.body
      OBVIOUS
    <3>1. n - 1 \in 1..Len(accepted) /\ n - 1 # 0
      BY DEF LineageInv
    <3> QED
      BY <3>1 DEF LineageInv, AcceptedAt, validateAuthorityPolicy, HashReproduces,
                  authorityPolicyHash, HashOf
  <2>3. n = 1 => HashOf(n - 1) = NoHash
    BY DEF HashOf
  <2>4. /\ body.announcedAt + MinReviewSeconds <= accepted[n].at
        /\ accepted[n].at < body.validFrom + MaxEpochSeconds
    <3>1. /\ body.announcedAt \in Nat /\ body.validFrom \in Nat /\ body.validUntil \in Nat
          /\ body.minimumDelay \in Nat /\ body.maximumEpoch \in Nat
          /\ MinReviewSeconds \in Nat /\ MaxEpochSeconds \in Nat
          /\ accepted[n].at \in Nat
      BY <2>1, DraftAssumption DEF WellTyped
    <3>2. /\ body.minimumDelay >= MinReviewSeconds
          /\ body.maximumEpoch <= MaxEpochSeconds
          /\ body.validFrom - body.announcedAt >= body.minimumDelay
          /\ body.validUntil - body.validFrom <= body.maximumEpoch
      BY <2>1 DEF ValidRotation
    <3>3. accepted[n].at < body.validUntil /\ body.validFrom <= accepted[n].at
      BY <2>1
    <3> HIDE DEF body
    <3>4. body.announcedAt + MinReviewSeconds <= accepted[n].at
      BY <3>1, <3>2, <3>3
    <3>5. accepted[n].at < body.validFrom + MaxEpochSeconds
      BY <3>1, <3>2, <3>3
    <3> QED
      BY <3>4, <3>5
  <2> QED
    BY <2>1, <2>2, <2>3, <2>4
<1> QED
  BY LineageInit, LineageNext, <1>1, PTL DEF PolicySpec

-----------------------------------------------------------------------------
(* A role has no more fingerprints than members. *)
LEMMA FingerprintsBounded ==
    ASSUME NEW role, Len(role.members) \in Nat
    PROVE  /\ IsFiniteSet(Fingerprints(role))
           /\ Cardinality(Fingerprints(role)) <= Len(role.members)
<1> DEFINE f == [i \in 1..Len(role.members) |-> role.members[i].fingerprint]
<1>1. f \in Surjection(1..Len(role.members), Fingerprints(role))
  BY DEF Surjection, Fingerprints
<1>2. /\ IsFiniteSet(1..Len(role.members))
      /\ Cardinality(1..Len(role.members)) = Len(role.members)
  BY FS_Interval
<1> HIDE DEF f
<1> QED
  BY <1>1, <1>2, FS_Surjection

(* Any two groups that may act for one role share a member, and no member  *)
(* acts for two roles.                                                     *)
THEOREM ActingGroupsOverlap == PolicySpec => []QuorumsOverlap
<1>1. LineageInv => QuorumsOverlap
  <2> SUFFICES ASSUME LineageInv, NEW n \in 1..Len(accepted), NEW r \in Roles, NEW s \in Roles,
                      NEW Q \in SUBSET Fingerprints(accepted[n].policy.body.roles[r]),
                      NEW R \in SUBSET Fingerprints(accepted[n].policy.body.roles[s]),
                      Cardinality(Q) >= accepted[n].policy.body.roles[r].threshold,
                      Cardinality(R) >= accepted[n].policy.body.roles[s].threshold
               PROVE  Q \cap R # {} <=> r = s
    BY DEF QuorumsOverlap
  <2> DEFINE roles == accepted[n].policy.body.roles
  <2>1. ValidRoles(roles) /\ WellTyped(accepted[n].policy.body)
    BY DEF LineageInv, AcceptedAt, validateAuthorityPolicy
  <2>2. CASE r # s
    BY <2>1, <2>2 DEF ValidRoles
  <2>3. CASE r = s
    <3>1. /\ roles[r].threshold \in Nat /\ Len(roles[r].members) \in Nat
          /\ roles[r].threshold * 2 > Len(roles[r].members)
      BY <2>1 DEF ValidRoles, ValidRole, StrictMajority, WellTyped, WellFormed
    <3>2. /\ IsFiniteSet(Fingerprints(roles[r]))
          /\ Cardinality(Fingerprints(roles[r])) <= Len(roles[r].members)
      BY <3>1, FingerprintsBounded
    <3>3. /\ Cardinality(Q) \in Nat /\ Cardinality(R) \in Nat
          /\ Cardinality(Fingerprints(roles[r])) \in Nat
      BY <2>3, <3>2, FS_Subset, FS_CardinalityType
    <3>4. Cardinality(Q) + Cardinality(R) > Cardinality(Fingerprints(roles[r]))
      <4> DEFINE least   == roles[r].threshold
                 members == Len(roles[r].members)
      <4>1. Cardinality(Q) >= least /\ Cardinality(R) >= least
        BY <2>3
      <4>2. least \in Nat /\ members \in Nat /\ least * 2 > members
        BY <3>1
      <4>3. Cardinality(Fingerprints(roles[r])) <= members
        BY <3>2
      <4> HIDE DEF least, members, roles
      <4> QED
        BY <3>3, <4>1, <4>2, <4>3
    <3>5. Q \subseteq Fingerprints(roles[r]) /\ R \subseteq Fingerprints(roles[r])
      BY <2>3
    <3> QED
      BY <2>3, <3>2, <3>4, <3>5, FS_MajoritiesIntersect
  <2> QED
    BY <2>2, <2>3
<1> QED
  BY LineageInit, LineageNext, <1>1, PTL DEF PolicySpec

-----------------------------------------------------------------------------
(* The order of the naturals, as a relation. *)
LEMMA OrderOfNat == \E Less : /\ IsWellFoundedOn(Less, Nat)
                               /\ \A x, y \in Nat : y < x => <<y, x>> \in Less
<1>1. \A x, y \in Nat : y < x => <<y, x>> \in OpToRel(<, Nat)
  BY DEF OpToRel
<1> QED
  BY <1>1, NatLessThanWellFounded, Zenon

(* Every set of naturals has a smallest element. *)
LEMMA SmallestOf ==
    ASSUME NEW T, T \subseteq Nat, T # {}
    PROVE  \E x \in T : \A y \in T : x <= y
<1>1. PICK Less : /\ IsWellFoundedOn(Less, Nat)
                  /\ \A x, y \in Nat : y < x => <<y, x>> \in Less
  BY OrderOfNat
<1>2. \E x \in T : \A y \in T : ~(<<y, x>> \in Less)
  BY <1>1, WFMin
<1>3. \A x \in Nat, y \in Nat : ~(<<y, x>> \in Less) => x <= y
  BY <1>1
<1>4. PICK x \in T : \A y \in T : ~(<<y, x>> \in Less)
  BY <1>2
<1>5. \A y \in T : x <= y
  BY <1>3, <1>4
<1> QED
  BY <1>4, <1>5


(* What increases from each place to the next increases everywhere. *)
LEMMA IncreasingEverywhere ==
    ASSUME NEW n \in Nat, NEW f,
           \A i \in 1..n : f[i] \in Nat,
           \A i \in 1..n : i > 1 => f[i - 1] < f[i]
    PROVE  \A i, j \in 1..n : i < j => f[i] < f[j]
<1> DEFINE Wrong == {k \in Nat : \E i \in 1..n : i + k \in 1..n /\ k > 0 /\ ~(f[i] < f[i + k])}
<1>1. SUFFICES ASSUME Wrong # {}
               PROVE  FALSE
  <2> SUFFICES ASSUME NEW i \in 1..n, NEW j \in 1..n, i < j, ~(f[i] < f[j])
               PROVE  Wrong # {}
    OBVIOUS
  <2>1. j - i \in Nat /\ i + (j - i) = j /\ j - i > 0
    OBVIOUS
  <2>2. j - i \in Wrong
    BY <2>1
  <2> QED
    BY <2>2
<1>2. PICK k \in Wrong : \A m \in Wrong : k <= m
  <2>1. Wrong \subseteq Nat
    OBVIOUS
  <2> HIDE DEF Wrong
  <2> QED
    BY <1>1, <2>1, SmallestOf
<1>3. PICK i \in 1..n : k \in Nat /\ i + k \in 1..n /\ k > 0 /\ ~(f[i] < f[i + k])
  OBVIOUS
<1>4. f[i + k - 1] < f[i + k]
  BY <1>3
<1>5. k # 1
  BY <1>3, <1>4
<1>6. k - 1 \in Nat /\ k - 1 > 0 /\ i + (k - 1) \in 1..n /\ ~(k <= k - 1)
  BY <1>3, <1>5
<1>7. f[i] < f[i + (k - 1)]
  BY <1>2, <1>3, <1>6
<1>8. f[i] \in Nat /\ f[i + (k - 1)] \in Nat /\ f[i + k] \in Nat /\ i + (k - 1) = i + k - 1
  BY <1>3, <1>6
<1> QED
  BY <1>3, <1>4, <1>7, <1>8

-----------------------------------------------------------------------------
(* The members of a valid role have as many fingerprints as there are      *)
(* members, and the first few of them have as many as are taken.           *)
LEMMA FirstMembersCounted ==
    ASSUME NEW role, WellFormed(role), ValidRole(role), NEW k \in 0..Len(role.members)
    PROVE  /\ IsFiniteSet(FirstMembers(role, k))
           /\ Cardinality(FirstMembers(role, k)) = k
           /\ FirstMembers(role, k) \subseteq Fingerprints(role)
<1> DEFINE f == [i \in 1..Len(role.members) |-> role.members[i].fingerprint]
           g == [i \in 1..k |-> role.members[i].fingerprint]
<1>1. Len(role.members) \in Nat /\ k \in Nat /\ 1..k \subseteq 1..Len(role.members)
  BY DEF WellFormed
<1>2. /\ \A i \in 1..Len(role.members) : f[i] \in Nat
      /\ \A i \in 1..Len(role.members) : i > 1 => f[i - 1] < f[i]
  BY <1>1 DEF WellFormed, ValidRole
<1>3. \A i, j \in 1..Len(role.members) : i < j => f[i] < f[j]
  <2> HIDE DEF f
  <2> QED
    BY <1>1, <1>2, IncreasingEverywhere
<1>4. \A i \in 1..k : i \in 1..Len(role.members) /\ g[i] = f[i]
  BY <1>1
<1>5. \A i, j \in 1..k : g[i] = g[j] => i = j
  <2> SUFFICES ASSUME NEW i \in 1..k, NEW j \in 1..k, i # j
               PROVE  g[i] # g[j]
    OBVIOUS
  <2>1. i < j \/ j < i
    OBVIOUS
  <2>2. f[i] \in Nat /\ f[j] \in Nat /\ (f[i] < f[j] \/ f[j] < f[i])
    <3> HIDE DEF f
    <3> QED
      BY <1>2, <1>3, <1>4, <2>1
  <2>3. g[i] = f[i] /\ g[j] = f[j]
    BY <1>4
  <2> HIDE DEF f, g
  <2> QED
    BY <2>2, <2>3
<1>6. g \in [1..k -> FirstMembers(role, k)]
  BY DEF FirstMembers
<1>7. \A m \in FirstMembers(role, k) : \E i \in 1..k : g[i] = m
  BY DEF FirstMembers
<1>8. g \in Surjection(1..k, FirstMembers(role, k)) /\ g \in Injection(1..k, FirstMembers(role, k))
  <2> HIDE DEF f, g
  <2> QED
    BY <1>5, <1>6, <1>7 DEF Surjection, Injection, IsInjective
<1>9. IsFiniteSet(1..k) /\ Cardinality(1..k) = k
  BY <1>1, FS_Interval
<1>10. FirstMembers(role, k) \subseteq Fingerprints(role)
  BY <1>1 DEF FirstMembers, Fingerprints
<1> HIDE DEF f, g
<1> QED
  BY <1>8, <1>9, <1>10, FS_Surjection

LEMMA FingerprintsCounted ==
    ASSUME NEW role, WellFormed(role), ValidRole(role)
    PROVE  /\ IsFiniteSet(Fingerprints(role))
           /\ Cardinality(Fingerprints(role)) = Len(role.members)
<1>1. Len(role.members) \in 0..Len(role.members)
  BY DEF WellFormed
<1>2. FirstMembers(role, Len(role.members)) = Fingerprints(role)
  BY DEF FirstMembers, Fingerprints
<1> QED
  BY <1>1, <1>2, FirstMembersCounted

(* A finite set has a subset of k elements when it has k elements or more. *)
LEMMA SubsetOfSize ==
    ASSUME NEW S, IsFiniteSet(S), NEW k \in Nat
    PROVE  (\E Q \in SUBSET S : Cardinality(Q) = k) <=> Cardinality(S) >= k
<1>1. Cardinality(S) \in Nat
  BY FS_CardinalityType
<1>2. ASSUME NEW Q \in SUBSET S, Cardinality(Q) = k
      PROVE  Cardinality(S) >= k
  BY <1>1, <1>2, FS_Subset
<1>3. ASSUME Cardinality(S) >= k
      PROVE  \E Q \in SUBSET S : Cardinality(Q) = k
  <2>1. PICK f : f \in Bijection(1..Cardinality(S), S)
    BY FS_CardinalityType DEF ExistsBijection
  <2> DEFINE Q == {f[i] : i \in 1..k}
             g == [i \in 1..k |-> f[i]]
  <2>2. 1..k \subseteq 1..Cardinality(S)
    BY <1>1, <1>3
  <2>3. /\ f \in [1..Cardinality(S) -> S]
        /\ \A i, j \in 1..Cardinality(S) : f[i] = f[j] => i = j
    BY <2>1 DEF Bijection, Injection, IsInjective
  <2>4. Q \in SUBSET S
    BY <2>2, <2>3
  <2>5. g \in Surjection(1..k, Q) /\ g \in Injection(1..k, Q)
    <3>1. g \in [1..k -> Q] /\ \A m \in Q : \E i \in 1..k : g[i] = m
      OBVIOUS
    <3>2. \A i, j \in 1..k : g[i] = g[j] => i = j
      BY <2>2, <2>3
    <3> HIDE DEF g, Q
    <3> QED
      BY <3>1, <3>2 DEF Surjection, Injection, IsInjective
  <2>6. IsFiniteSet(1..k) /\ Cardinality(1..k) = k
    BY FS_Interval
  <2>7. Cardinality(Q) = k
    <3> HIDE DEF g, Q
    <3> QED
      BY <2>5, <2>6, FS_Surjection
  <2> QED
    BY <2>4, <2>7
<1> QED
  BY <1>2, <1>3

-----------------------------------------------------------------------------
(* What a role may still do once some of its members are unavailable. *)
MayAct(unavailable, role) ==
    \E Q \in SUBSET (Fingerprints(role) \ unavailable) : Cardinality(Q) = role.threshold

(* The quorum is reported as available when a quorum may still act. *)
LEMMA IncidentTold ==
    ASSUME NEW role, WellFormed(role), ValidRole(role), NEW unavailable
    PROVE  /\ MayAct(unavailable, role)
                <=> Cardinality(Fingerprints(role) \ unavailable) >= role.threshold
           /\ incidentRole(role, unavailable).unavailable = unavailable
           /\ incidentRole(role, unavailable).remaining
                = Cardinality(Fingerprints(role) \ unavailable)
           /\ incidentRole(role, unavailable).quorumAvailable <=> MayAct(unavailable, role)
<1>1. IsFiniteSet(Fingerprints(role) \ unavailable)
  BY FingerprintsCounted, FS_Difference
<1>2. role.threshold \in Nat
  BY DEF WellFormed
<1>3. MayAct(unavailable, role)
         <=> Cardinality(Fingerprints(role) \ unavailable) >= role.threshold
  BY <1>1, <1>2, SubsetOfSize DEF MayAct
<1> QED
  BY <1>3 DEF incidentRole, Remaining

(* The quorum loss leaves no quorum, and one member less would leave one. *)
LEMMA QuorumLossIsLeast ==
    ASSUME NEW role, WellFormed(role), ValidRole(role)
    PROVE  /\ ~MayAct(FirstMembers(role, lossCount(role)), role)
           /\ \A m \in FirstMembers(role, lossCount(role)) :
                  MayAct(FirstMembers(role, lossCount(role)) \ {m}, role)
<1> DEFINE all  == Fingerprints(role)
           k    == lossCount(role)
           lost == FirstMembers(role, k)
           n    == Len(role.members)
           t    == role.threshold
<1>1. n \in Nat /\ t \in Nat /\ t <= n /\ t >= 2
  BY DEF WellFormed, ValidRole
<1>2. k \in 0..n /\ k = n - t + 1
  BY <1>1 DEF lossCount
<1>3. IsFiniteSet(all) /\ Cardinality(all) = n
  BY FingerprintsCounted
<1>4. IsFiniteSet(lost) /\ Cardinality(lost) = k /\ lost \subseteq all
  BY <1>2, FirstMembersCounted
<1>5. ASSUME NEW M, M \subseteq lost
      PROVE  /\ Cardinality(all \ M) = n - Cardinality(M)
             /\ MayAct(M, role) <=> Cardinality(all \ M) >= t
  <2>1. MayAct(M, role) <=> Cardinality(all \ M) >= t
    BY IncidentTold
  <2>2. all \cap M = M
    BY <1>4, <1>5
  <2>3. Cardinality(all \ M) = Cardinality(all) - Cardinality(all \cap M)
    BY <1>3, FS_Difference
  <2> HIDE DEF all, lost, n, t
  <2> QED
    BY <1>3, <2>1, <2>2, <2>3
<1>6. ~MayAct(lost, role)
  <2>1. Cardinality(all \ lost) = n - Cardinality(lost) /\ (MayAct(lost, role) <=> Cardinality(all \ lost) >= t)
    BY <1>5
  <2> HIDE DEF all, lost, n, t, k
  <2> QED
    BY <1>1, <1>2, <1>4, <2>1
<1>7. ASSUME NEW m \in lost
      PROVE  MayAct(lost \ {m}, role)
  <2>1. Cardinality(lost \ {m}) = Cardinality(lost) - 1
    BY <1>4, FS_RemoveElement
  <2>2. /\ Cardinality(all \ (lost \ {m})) = n - Cardinality(lost \ {m})
        /\ MayAct(lost \ {m}, role) <=> Cardinality(all \ (lost \ {m})) >= t
    <3>1. lost \ {m} \subseteq lost
      OBVIOUS
    <3> HIDE DEF all, lost, n, t, k
    <3> QED
      BY <1>5, <3>1
  <2> HIDE DEF all, lost, n, t, k
  <2> QED
    BY <1>1, <1>2, <1>4, <2>1, <2>2
<1> QED
  BY <1>6, <1>7

-----------------------------------------------------------------------------
(* The matrix is the one of an accepted policy. *)
MatrixInv ==
    matrix # NoMatrix =>
    LET body     == matrix.policy.body
        resolver == body.roles["resolver"]
        pauser   == body.roles["pauser"]
    IN  /\ WellTyped(body)
        /\ ValidRoles(body.roles)
        /\ matrix.memberLoss = incidentRole(resolver, FirstMembers(resolver, 1))
        /\ matrix.decision = IF matrix.memberLoss.quorumAvailable
                             THEN "continue-with-reduced-margin" ELSE "fail-closed"
        /\ matrix.quorumLoss = incidentRole(resolver, FirstMembers(resolver, lossCount(resolver)))
        /\ matrix.pauserLoss = incidentRole(pauser, Fingerprints(pauser))
        /\ matrix.presentedEpoch = body.epoch - 1

LEMMA MatrixNext == LineageInv /\ MatrixInv /\ [PolicyNext]_policyVars => MatrixInv'
<1> SUFFICES ASSUME LineageInv, MatrixInv, [PolicyNext]_policyVars
             PROVE  MatrixInv'
  OBVIOUS
<1>1. CASE UNCHANGED matrix
  BY <1>1 DEF MatrixInv
<1>2. ASSUME NEW n \in 1..Len(accepted), evaluateIncidentMatrix(n)
      PROVE  MatrixInv'
  <2> DEFINE policy == accepted[n].policy
  <2>1. WellTyped(policy.body) /\ ValidRoles(policy.body.roles)
    BY DEF LineageInv, AcceptedAt, validateAuthorityPolicy
  <2>2. LET resolver == policy.body.roles["resolver"]
            pauser   == policy.body.roles["pauser"]
        IN  /\ matrix'.policy = policy
            /\ matrix'.memberLoss = incidentRole(resolver, FirstMembers(resolver, 1))
            /\ matrix'.decision = IF matrix'.memberLoss.quorumAvailable
                                  THEN "continue-with-reduced-margin" ELSE "fail-closed"
            /\ matrix'.quorumLoss
                 = incidentRole(resolver, FirstMembers(resolver, lossCount(resolver)))
            /\ matrix'.pauserLoss = incidentRole(pauser, Fingerprints(pauser))
            /\ matrix'.presentedEpoch = policy.body.epoch - 1
    BY <1>2 DEF evaluateIncidentMatrix
  <2> HIDE DEF policy
  <2> QED
    BY <2>1, <2>2 DEF MatrixInv
<1> QED
  BY <1>1, <1>2 DEF PolicyNext, policyVars, Tick, Accept

(* The incidents of the matrix mean what it decides: a least loss of the   *)
(* quorum, a member loss that is survived or fails closed, a pauser with   *)
(* nobody left, and a replayed policy that is refused.                     *)
THEOREM IncidentsAreSound == PolicySpec => []IncidentsSound
<1>1. PolicyInit => MatrixInv
  BY DEF PolicyInit, MatrixInv
<1>2. LineageInv /\ MatrixInv => IncidentsSound
  <2> SUFFICES ASSUME LineageInv, MatrixInv, matrix # NoMatrix
               PROVE  IncidentsSound
    BY DEF IncidentsSound
  <2> DEFINE body     == matrix.policy.body
             resolver == body.roles["resolver"]
             pauser   == body.roles["pauser"]
             lost     == matrix.quorumLoss.unavailable
  <2>1. /\ WellTyped(body)
        /\ ValidRoles(body.roles)
        /\ matrix.memberLoss = incidentRole(resolver, FirstMembers(resolver, 1))
        /\ matrix.decision = IF matrix.memberLoss.quorumAvailable
                             THEN "continue-with-reduced-margin" ELSE "fail-closed"
        /\ matrix.quorumLoss = incidentRole(resolver, FirstMembers(resolver, lossCount(resolver)))
        /\ matrix.pauserLoss = incidentRole(pauser, Fingerprints(pauser))
        /\ matrix.presentedEpoch = body.epoch - 1
    BY DEF MatrixInv
  <2>2. /\ WellFormed(resolver) /\ ValidRole(resolver)
        /\ WellFormed(pauser) /\ ValidRole(pauser)
    BY <2>1 DEF WellTyped, ValidRoles, Roles
  <2>3. /\ lost = FirstMembers(resolver, lossCount(resolver))
        /\ matrix.quorumLoss.quorumAvailable <=> MayAct(lost, resolver)
    <3> DEFINE incident == FirstMembers(resolver, lossCount(resolver))
    <3>1. /\ incidentRole(resolver, incident).unavailable = incident
          /\ incidentRole(resolver, incident).quorumAvailable <=> MayAct(incident, resolver)
      <4> HIDE DEF resolver, incident
      <4> QED
        BY <2>2, IncidentTold
    <3>2. matrix.quorumLoss = incidentRole(resolver, incident)
      BY <2>1
    <3> HIDE DEF resolver, incident
    <3>3. lost = incident
      BY <3>1, <3>2
    <3> QED
      BY <3>1, <3>2, <3>3 DEF incident
  <2>4. ~MayAct(lost, resolver) /\ \A m \in lost : MayAct(lost \ {m}, resolver)
    <3> HIDE DEF resolver, lost
    <3> QED
      BY <2>2, <2>3, QuorumLossIsLeast
  <2>5. matrix.decision = "continue-with-reduced-margin"
           <=> MayAct(matrix.memberLoss.unavailable, resolver)
    <3> HIDE DEF resolver
    <3> DEFINE first == FirstMembers(resolver, 1)
    <3>1. /\ incidentRole(resolver, first).unavailable = first
          /\ incidentRole(resolver, first).quorumAvailable <=> MayAct(first, resolver)
      <4> HIDE DEF first
      <4> QED
        BY <2>2, IncidentTold
    <3>2. matrix.memberLoss = incidentRole(resolver, first)
      BY <2>1
    <3>3. matrix.memberLoss.unavailable = first
      BY <3>1, <3>2
    <3>4. matrix.memberLoss.quorumAvailable <=> MayAct(first, resolver)
      BY <3>1, <3>2
    <3> HIDE DEF first
    <3>5. matrix.decision = "continue-with-reduced-margin" <=> matrix.memberLoss.quorumAvailable
      BY <2>1
    <3> QED
      BY <3>3, <3>4, <3>5
  <2>6. ~matrix.pauserLoss.quorumAvailable /\ matrix.pauserLoss.remaining = 0
    <3> HIDE DEF pauser
    <3>1. Cardinality(Fingerprints(pauser) \ Fingerprints(pauser)) = 0
      <4>1. Fingerprints(pauser) \ Fingerprints(pauser) = {}
        OBVIOUS
      <4> QED
        BY <4>1, FS_EmptySet
    <3>2. pauser.threshold \in Nat /\ pauser.threshold >= 2
      BY <2>2 DEF WellFormed, ValidRole
    <3>3. /\ incidentRole(pauser, Fingerprints(pauser)).remaining = 0
          /\ ~incidentRole(pauser, Fingerprints(pauser)).quorumAvailable
      <4>1. ~(0 >= pauser.threshold)
        BY <3>2
      <4>2. /\ MayAct(Fingerprints(pauser), pauser) <=> 0 >= pauser.threshold
            /\ incidentRole(pauser, Fingerprints(pauser)).remaining = 0
            /\ incidentRole(pauser, Fingerprints(pauser)).quorumAvailable
                 <=> MayAct(Fingerprints(pauser), pauser)
        BY <2>2, <3>1, IncidentTold
      <4> QED
        BY <4>1, <4>2
    <3> QED
      BY <2>1, <3>3
  <2>7. ASSUME matrix.presentedEpoch \in 1..Len(accepted),
               NEW context, context.expectedEpoch = body.epoch
        PROVE  ~validateAuthorityPolicy(accepted[matrix.presentedEpoch].policy, context)
    <3>1. accepted[matrix.presentedEpoch].policy.body.epoch = matrix.presentedEpoch
      BY <2>7 DEF LineageInv, AcceptedAt, validateAuthorityPolicy, InContext
    <3>2. body.epoch \in Nat
      BY <2>1 DEF WellTyped
    <3>3. matrix.presentedEpoch # body.epoch
      <4> HIDE DEF body
      <4> QED
        BY <2>1, <3>2
    <3> QED
      BY <2>7, <3>1, <3>3 DEF validateAuthorityPolicy, InContext
  <2>8. matrix.presentedEpoch \in 1..Len(accepted) =>
           ~validateAuthorityPolicy(accepted[matrix.presentedEpoch].policy,
                                    [observedAt |-> matrix.at,
                                     expectedEpoch |-> matrix.policy.body.epoch,
                                     expectedPredecessor |-> matrix.policy.body.predecessor])
    BY <2>7
  <2> QED
    BY <2>3, <2>4, <2>5, <2>6, <2>8 DEF IncidentsSound, MayAct
<1> QED
  BY LineageInit, LineageNext, MatrixNext, <1>1, <1>2, PTL DEF PolicySpec

-----------------------------------------------------------------------------
(* The certificate policy: any quorum that is a majority of the members,   *)
(* any window and any latencies.                                           *)

(* What is certified was certified in time, for the epoch and by a quorum  *)
(* of the members.                                                         *)
LEMMA CertifiedByQuorum ==
    ASSUME NEW epoch, NEW outcome, NEW approvals, NEW time \in Nat,
           certificate(epoch, outcome, approvals, DecisionWindow, time)
    PROVE  \/ /\ decision'.mode = "quorum-certificate"
              /\ decision'.at < DecisionWindow
              /\ decision'.epoch = CertificateEpoch
              /\ decision'.approvals \subseteq MemberSet
              /\ Cardinality(decision'.approvals) >= Quorum
           \/ decision'.mode = "rejected"
<1>1. CASE Certifies(epoch, outcome, approvals, DecisionWindow, time)
  <2>1. decision' = [mode |-> "quorum-certificate", outcome |-> outcome, at |-> time,
                     approvals |-> Approvers(approvals), epoch |-> epoch]
    BY <1>1 DEF certificate
  <2>2. /\ epoch = CertificateEpoch /\ time < DecisionWindow
        /\ Approvers(approvals) \subseteq MemberSet
        /\ Cardinality(Approvers(approvals)) >= Quorum
    BY <1>1, LatencyAssumption DEF Certifies, Expired
  <2> QED
    BY <2>1, <2>2
<1>2. CASE ~Certifies(epoch, outcome, approvals, DecisionWindow, time)
  BY <1>2 DEF certificate
<1> QED
  BY <1>1, <1>2

(* There are as many authorities as the policy lists. *)
LEMMA MembersFinite ==
    /\ IsFiniteSet(MemberSet)
    /\ Cardinality(MemberSet) = Len(Members)
<1> DEFINE f == [i \in 1..Len(Members) |-> Members[i]]
<1>1. /\ f \in [1..Len(Members) -> MemberSet]
      /\ \A m \in MemberSet : \E i \in 1..Len(Members) : f[i] = m
  BY DEF MemberSet
<1>2. \A i, j \in 1..Len(Members) : f[i] = f[j] => i = j
  BY QuorumAssumption
<1>3. f \in Surjection(1..Len(Members), MemberSet) /\ f \in Injection(1..Len(Members), MemberSet)
  <2> HIDE DEF f
  <2> QED
    BY <1>1, <1>2 DEF Surjection, Injection, IsInjective
<1>4. IsFiniteSet(1..Len(Members)) /\ Cardinality(1..Len(Members)) = Len(Members)
  <2> DEFINE n == Len(Members)
  <2>1. n \in Nat
    BY QuorumAssumption
  <2> HIDE DEF n
  <2>2. IsFiniteSet(1..n) /\ Cardinality(1..n) = n
    BY <2>1, FS_Interval
  <2> QED
    BY <2>2 DEF n
<1> HIDE DEF f
<1> QED
  BY <1>3, <1>4, FS_Surjection

(* Any two certificates share a member; a case times out only without a    *)
(* quorum; and no certificate is dated after the timeout.                  *)
THEOREM CertifiedOrTimedOut == CertificateSpec => []CertifiedOrVoid
<1>1. CertificateInit => CertifiedOrVoid
  BY DEF CertificateInit, CertifiedOrVoid
<1>2. ASSUME NEW epoch, NEW outcome, NEW approvals, NEW time \in Nat,
             certificate(epoch, outcome, approvals, DecisionWindow, time)
      PROVE  CertifiedOrVoid'
  <2>1. CASE decision'.mode = "rejected"
    BY <2>1 DEF CertifiedOrVoid
  <2>2. CASE decision'.mode # "rejected"
    <3>1. /\ decision'.mode = "quorum-certificate"
          /\ decision'.at < DecisionWindow
          /\ decision'.epoch = CertificateEpoch
          /\ decision'.approvals \subseteq MemberSet
          /\ Cardinality(decision'.approvals) >= Quorum
      BY <1>2, <2>2, CertifiedByQuorum
    <3>2. ASSUME NEW Q \in SUBSET MemberSet, Cardinality(Q) >= Quorum
          PROVE  Q \cap decision'.approvals # {}
      <4>1. /\ Cardinality(Q) \in Nat
            /\ Cardinality(decision'.approvals) \in Nat
        BY <3>1, MembersFinite, FS_Subset, FS_CardinalityType
      <4>2. Cardinality(Q) + Cardinality(decision'.approvals) > Cardinality(MemberSet)
        BY <3>1, <3>2, <4>1, MembersFinite, QuorumAssumption
      <4> QED
        BY <3>1, <4>2, MembersFinite, FS_MajoritiesIntersect
    <3> QED
      BY <3>1, <3>2 DEF CertifiedOrVoid
  <2> QED
    BY <2>1, <2>2
<1>3. ASSUME NEW available \in SUBSET (MemberSet \cup Others), NEW latency \in Latencies,
             NEW outcome, runCase(available, latency, outcome)
      PROVE  CertifiedOrVoid'
  <2>1. CASE Cardinality(MemberSet \cap available) < Quorum
    <3>1. decision' = [mode |-> "permissionless-timeout", outcome |-> "VOID",
                       at |-> DecisionWindow, available |-> available]
      BY <1>3, <2>1 DEF runCase
    <3>2. ASSUME NEW Q \in SUBSET MemberSet, Cardinality(Q) = Quorum, Q \subseteq available
          PROVE  FALSE
      <4>1. IsFiniteSet(MemberSet \cap available)
        BY MembersFinite, FS_Intersection
      <4>2. Q \in SUBSET (MemberSet \cap available)
        BY <3>2
      <4>3. Cardinality(Q) <= Cardinality(MemberSet \cap available)
        BY <4>1, <4>2, FS_Subset
      <4>4. Cardinality(MemberSet \cap available) \in Nat /\ Quorum \in Nat
        BY <4>1, FS_CardinalityType, QuorumAssumption
      <4> QED
        BY <2>1, <3>2, <4>3, <4>4
    <3> QED
      BY <3>1, <3>2 DEF CertifiedOrVoid
  <2>2. CASE ~(Cardinality(MemberSet \cap available) < Quorum)
    <3>1. certificate(CertificateEpoch, outcome, FirstAvailable(available), DecisionWindow, latency)
      BY <1>3, <2>2 DEF runCase
    <3>2. latency \in Nat
      BY LatencyAssumption
    <3> QED
      BY <1>2, <3>1, <3>2
  <2> QED
    BY <2>1, <2>2
<1>4. CertifiedOrVoid /\ [CertificateNext]_decision => CertifiedOrVoid'
  <2>1. CASE UNCHANGED decision
    BY <2>1 DEF CertifiedOrVoid
  <2>2. ASSUME CertificateNext
        PROVE  CertifiedOrVoid'
    BY <1>2, <1>3, <2>2, LatencyAssumption DEF CertificateNext
  <2> QED
    BY <2>1, <2>2
<1> QED
  BY <1>1, <1>4, PTL DEF CertificateSpec
=============================================================================
