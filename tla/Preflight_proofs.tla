---------------------------- MODULE Preflight_proofs ----------------------------
(***************************************************************************)
(* For every tree of blocks, every deployment on it and every plan: a      *)
(* report describes one state, names the only declaration unless a branch  *)
(* came back, and names a release that contract and client accept.         *)
(*                                                                         *)
(* The invariant says what the reads up to the awaited one have shown.     *)
(* That all sixteen getters were read is counted: the answers so far are   *)
(* those of the first getters, and there are as many of them.              *)
(***************************************************************************)
EXTENDS PreflightProps, FiniteSetTheorems, TLAPS

Pinned == {"code", "call", "logs", "release", "tokenCode", "final", "ok"}

(* What an inspection holds while it goes on. *)
Shape ==
    /\ inspection.at \in {"call", "logs"} =>
         inspection = [at |-> inspection.at, header |-> inspection.header,
                       code |-> inspection.code, values |-> inspection.values]
    /\ inspection.at \in {"release", "tokenCode"} =>
         inspection = [at |-> inspection.at, header |-> inspection.header,
                       code |-> inspection.code, values |-> inspection.values,
                       log |-> inspection.log]

(* What eth_getCode has shown. *)
CodeRead ==
    inspection.at \in Pinned \ {"code"} =>
        /\ inspection.code = Code[inspection.header]
        /\ MatchesReviewedRuntime(inspection.code)

FirstGetters(n) == {GETTERS[i] : i \in 1..n}

(* What eth_call has shown so far. *)
AnswersRead ==
    /\ inspection.at = "call" =>
         \E n \in 0..15 :
            inspection.values = [name \in FirstGetters(n) |-> Answers[inspection.header][name]]
    /\ inspection.at \in {"logs", "release", "tokenCode", "final"} =>
         /\ inspection.values = [name \in FirstGetters(16) |-> Answers[inspection.header][name]]
         /\ GettersMatchRuntime(inspection.values, inspection.code)

(* What eth_getLogs has shown. *)
ReleaseRead ==
    inspection.at \in {"release", "tokenCode", "final", "ok"} => decodeReleaseLog(inspection.log)

(* What was compared after the last pinned read. *)
RolesRead ==
    inspection.at = "final" =>
        LET values  == inspection.values
            release == inspection.log.data
        IN  /\ release.canonicalToken \in HasCode[inspection.header]
            /\ GettersMatchRelease(values, release)
            /\ ValidPauser(values.pauser, release)
            /\ ValidBool(values.paused)

(* The only declaration on the branch of the snapshot *)
OnlyOne ==
    UNION {Emitted[b] : b \in {c \in Branch[inspection.header] :
                                    Number[c] >= plan.deploymentBlock}} = {inspection.log}

(* Unless a block came back, the snapshot is on the chain or gone for good. *)
Followed ==
    /\ ~returned => departed \cap Branch[chain] = {}
    /\ inspection.at \in Pinned \ {"ok"} /\ ~returned =>
         inspection.header \in Branch[chain] \cup departed
    /\ inspection.at \in {"release", "tokenCode", "final"} /\ ~returned =>
         inspection.header \in departed \/ OnlyOne
    /\ inspection.at = "ok" /\ ~returned => OnlyOne

IInv ==
    /\ plan \in Plans
    /\ chain \in Blocks
    /\ departed \subseteq Blocks
    /\ inspection.at \in Pinned => inspection.header \in Blocks
    /\ Shape
    /\ CodeRead
    /\ AnswersRead
    /\ ReleaseRead
    /\ RolesRead
    /\ inspection.at = "ok" => SupportedRelease /\ ReportFromSnapshot
    /\ Followed

-----------------------------------------------------------------------------
(* Getters *)

(* No getter is called twice. *)
LEMMA GettersDiffer ==
    ASSUME NEW i \in 1..16, NEW j \in 1..16, GETTERS[i] = GETTERS[j]
    PROVE  i = j
  BY DEF GETTERS

LEMMA FirstGettersCounted ==
    ASSUME NEW n \in 0..16
    PROVE  IsFiniteSet(FirstGetters(n)) /\ Cardinality(FirstGetters(n)) = n
<1> DEFINE f == [i \in 1..n |-> GETTERS[i]]
<1>1. f \in Surjection(1..n, FirstGetters(n))
  BY DEF Surjection, FirstGetters
<1>2. f \in Injection(1..n, FirstGetters(n))
  <2>1. f \in [1..n -> FirstGetters(n)]
    BY DEF FirstGetters
  <2>2. \A i, j \in 1..n : f[i] = f[j] => i = j
    BY GettersDiffer
  <2> HIDE DEF f
  <2> QED
    BY <2>1, <2>2, Zenon DEF Injection, IsInjective
<1>3. IsFiniteSet(1..n) /\ Cardinality(1..n) = n
  <2>1. n \in Int /\ 1 \in Int /\ ~(1 > n + 1) /\ (1 > n => n = 0)
    OBVIOUS
  <2>2. /\ IsFiniteSet(1..n)
        /\ Cardinality(1..n) = IF 1 > n THEN 0 ELSE n - 1 + 1
    BY <2>1, FS_Interval
  <2> QED
    BY <2>1, <2>2
<1> HIDE DEF f
<1> QED
  BY <1>1, <1>2, <1>3, FS_Surjection

(* The next getter is one more. *)
LEMMA NextGetter ==
    ASSUME NEW n \in 0..15
    PROVE  FirstGetters(n + 1) = FirstGetters(n) \cup {GETTERS[n + 1]}
  BY DEF FirstGetters

LEMMA AllGetters ==
    /\ Len(GETTERS) = 16
    /\ VersionGetters \cup Immutables \cup {"paused", "totalOutstandingLiability"}
         \subseteq FirstGetters(16)
<1>1. Len(GETTERS) = 16
  BY DEF GETTERS
<1>2. \A i \in 1..16 : GETTERS[i] \in FirstGetters(16)
  BY DEF FirstGetters
<1>3. /\ GETTERS[1] = "releaseId" /\ GETTERS[2] = "PROTOCOL_VERSION"
      /\ GETTERS[3] = "EVENT_PROTOCOL_ID" /\ GETTERS[4] = "CHALLENGE_SCHEMA_ID"
      /\ GETTERS[5] = "EVIDENCE_SCHEMA_ID" /\ GETTERS[6] = "CONDITION_LANGUAGE_ID"
      /\ GETTERS[7] = "TERMS_DOMAIN" /\ GETTERS[8] = "SPEC_DOMAIN"
      /\ GETTERS[9] = "EVIDENCE_DOMAIN" /\ GETTERS[10] = "canonicalToken"
      /\ GETTERS[11] = "tokenDecimals" /\ GETTERS[12] = "resolver"
      /\ GETTERS[13] = "arbiter" /\ GETTERS[14] = "pauser"
      /\ GETTERS[15] = "paused" /\ GETTERS[16] = "totalOutstandingLiability"
  BY DEF GETTERS
<1> HIDE DEF GETTERS
<1> QED
  BY <1>1, <1>2, <1>3 DEF VersionGetters, Immutables

-----------------------------------------------------------------------------
(* Four elements that make a set of four differ. *)
LEMMA FourDiffer ==
    ASSUME NEW a, NEW b, NEW c, NEW d, Cardinality({a, b, c, d}) = 4
    PROVE  /\ a # b /\ a # c /\ a # d /\ b # c /\ b # d /\ c # d
<1>1. /\ IsFiniteSet({a}) /\ Cardinality({a}) = 1
  BY FS_Singleton
<1>2. ASSUME NEW x, NEW y, NEW z
      PROVE  Cardinality({x, y, z}) <= 3
  <2>1. IsFiniteSet({x}) /\ Cardinality({x}) = 1
    BY FS_Singleton
  <2>2. {x, y} = {x} \cup {y} /\ {x, y, z} = {x, y} \cup {z}
    OBVIOUS
  <2>3. IsFiniteSet({x, y}) /\ Cardinality({x, y}) \in {1, 2}
    BY <2>1, <2>2, FS_AddElement
  <2> QED
    BY <2>2, <2>3, FS_AddElement
<1>3. ASSUME NEW x, NEW y, NEW z, {a, b, c, d} = {x, y, z}
      PROVE  FALSE
  <2>1. Cardinality({x, y, z}) = 4
    BY <1>3
  <2>2. Cardinality({x, y, z}) <= 3
    BY <1>2
  <2> DEFINE k == Cardinality({x, y, z})
  <2>3. k = 4 /\ k <= 3
    BY <2>1, <2>2
  <2> HIDE DEF k
  <2> QED
    BY <2>3
<1>4. a = b => {a, b, c, d} = {b, c, d}
  OBVIOUS
<1>5. a = c => {a, b, c, d} = {b, c, d}
  OBVIOUS
<1>6. a = d => {a, b, c, d} = {b, c, d}
  OBVIOUS
<1>7. b = c => {a, b, c, d} = {a, c, d}
  OBVIOUS
<1>8. b = d => {a, b, c, d} = {a, c, d}
  OBVIOUS
<1>9. c = d => {a, b, c, d} = {a, b, d}
  OBVIOUS
<1> QED
  BY <1>3, <1>4, <1>5, <1>6, <1>7, <1>8, <1>9

LEMMA FourFinite ==
    ASSUME NEW a, NEW b, NEW c, NEW d
    PROVE  IsFiniteSet({a, b, c, d})
<1>1. {a, b} = {a} \cup {b} /\ {a, b, c} = {a, b} \cup {c} /\ {a, b, c, d} = {a, b, c} \cup {d}
  OBVIOUS
<1>2. IsFiniteSet({a})
  BY FS_Singleton
<1>3. IsFiniteSet({a, b})
  BY <1>1, <1>2, FS_AddElement
<1>4. IsFiniteSet({a, b, c})
  BY <1>1, <1>3, FS_AddElement
<1> QED
  BY <1>1, <1>4, FS_AddElement

(* A set of n and one more element. *)
LEMMA OneMore ==
    ASSUME NEW S, NEW x, NEW n \in Nat, IsFiniteSet(S), Cardinality(S) = n, x \notin S
    PROVE  IsFiniteSet(S \cup {x}) /\ Cardinality(S \cup {x}) = n + 1
  BY FS_AddElement

-----------------------------------------------------------------------------
(* The values of all getters *)
LEMMA ValuesOf ==
    ASSUME IInv, inspection.at \in {"logs", "release", "tokenCode", "final"}
    PROVE  /\ \A name \in Immutables \cup VersionGetters \cup {"paused", "totalOutstandingLiability"} :
                inspection.values[name] = Answers[inspection.header][name]
           /\ GettersMatchRuntime(inspection.values, inspection.code)
<1>1. /\ inspection.values = [name \in FirstGetters(16) |-> Answers[inspection.header][name]]
      /\ GettersMatchRuntime(inspection.values, inspection.code)
  BY DEF IInv, AnswersRead
<1>2. \A name \in FirstGetters(16) : inspection.values[name] = Answers[inspection.header][name]
  BY <1>1
<1> QED
  BY <1>1, <1>2, AllGetters

(* The runtime has each immutable at all of its places. *)
LEMMA Everywhere ==
    ASSUME NEW code, MatchesReviewedRuntime(code), NEW name \in Immutables,
           NEW p \in Groups[name]
    PROVE  code.slots[p] = ImmutableWord(code, name)
<1>1. (CHOOSE q \in Groups[name] : TRUE) \in Groups[name]
  OBVIOUS
<1> QED
  BY <1>1 DEF MatchesReviewedRuntime, ConsistentSubstitutions, ImmutableWord

LEMMA ReportSound ==
    ASSUME IInv, ReadFinalHeader
    PROVE  ReportFromSnapshot'
<1> DEFINE code    == inspection.code
           values  == inspection.values
           release == inspection.log.data
           state   == Answers[inspection.header]
<1>1. /\ inspection.at = "final"
      /\ inspection'.at = "ok"
      /\ inspection'.header = inspection.header
      /\ inspection'.log = inspection.log
      /\ inspection'.current = [pauser |-> values.pauser, paused |-> values.paused,
                                totalOutstandingLiability |-> values.totalOutstandingLiability]
  BY DEF ReadFinalHeader
<1>2. code = Code[inspection.header] /\ MatchesReviewedRuntime(code)
  BY <1>1 DEF IInv, CodeRead, Pinned
<1>3. /\ \A name \in Immutables : values[name] = state[name]
      /\ values.paused = state.paused
      /\ values.totalOutstandingLiability = state.totalOutstandingLiability
      /\ \A name \in Immutables : values[name] = ImmutableWord(code, name)
  BY <1>1, ValuesOf DEF GettersMatchRuntime
<1>4. GettersMatchRelease(values, release) /\ release.canonicalToken \in HasCode[inspection.header]
  BY <1>1 DEF IInv, RolesRead
<1>5. /\ values.releaseId = release.releaseId /\ values.canonicalToken = release.canonicalToken
      /\ values.tokenDecimals = release.tokenDecimals
      /\ values.resolver = release.resolver /\ values.arbiter = release.arbiter
  BY <1>4 DEF GettersMatchRelease
<1>6. \A name \in {"releaseId", "canonicalToken", "tokenDecimals", "resolver", "arbiter"} :
        name \in Immutables /\ values[name] = release[name]
  BY <1>5 DEF Immutables
<1>7. \A name \in Immutables : \A p \in Groups[name] : code.slots[p] = values[name]
  BY <1>2, <1>3, Everywhere
<1>8. "pauser" \in Immutables
  BY DEF Immutables
<1>9. code # None /\ code.bytes = RuntimeBytes /\ code.rest = RuntimeRest
  BY <1>2 DEF MatchesReviewedRuntime
<1>10. /\ inspection'.current.pauser = values.pauser
       /\ \A name \in DOMAIN inspection'.current : inspection'.current[name] = state[name]
  <2>1. DOMAIN inspection'.current = {"pauser", "paused", "totalOutstandingLiability"}
    BY <1>1
  <2>2. /\ inspection'.current["pauser"] = values.pauser
        /\ inspection'.current["paused"] = values.paused
        /\ inspection'.current["totalOutstandingLiability"] = values.totalOutstandingLiability
    BY <1>1
  <2>3. values.pauser = state.pauser
    BY <1>3, <1>8
  <2> HIDE DEF values, state
  <2> QED
    BY <2>1, <2>2, <2>3, <1>3
<1> HIDE DEF values, release, state
<1>11. \A name \in {"releaseId", "canonicalToken", "tokenDecimals", "resolver", "arbiter"} :
         /\ release[name] = state[name]
         /\ \A p \in Groups[name] : code.slots[p] = release[name]
  BY <1>3, <1>6, <1>7
<1>12. \A p \in Groups["pauser"] : code.slots[p] = inspection'.current.pauser
  BY <1>7, <1>8, <1>10
<1> QED
  BY <1>1, <1>2, <1>4, <1>9, <1>10, <1>11, <1>12 DEF ReportFromSnapshot, Ok, release, state

LEMMA ReleaseSupported ==
    ASSUME IInv, ReadFinalHeader
    PROVE  SupportedRelease'
<1> DEFINE values  == inspection.values
           release == inspection.log.data
           state   == Answers[inspection.header]
<1>1. /\ inspection.at = "final"
      /\ inspection.header \in Blocks
      /\ inspection'.header = inspection.header
      /\ inspection'.log = inspection.log
      /\ inspection'.current.pauser = values.pauser
  BY DEF ReadFinalHeader, IInv, Pinned
<1>2. decodeReleaseLog(inspection.log)
  BY <1>1 DEF IInv, ReleaseRead
<1>3. /\ CanonicalLayout(release)
      /\ \A i \in 1..4 : release.strings[i] = Version
      /\ release.chainId = ChainId /\ release.escrowContract = Escrow
      /\ release.valueMode = 0 /\ release.tokenDecimals <= 18
      /\ {release.canonicalToken, release.resolver, release.arbiter} \subseteq Addresses \ {ZeroAddress}
      /\ FourDistinct(release)
      /\ ValidBool(release.initialPaused)
  BY <1>2 DEF decodeReleaseLog, ValidAddress
<1>4. /\ \A name \in VersionGetters : values[name] = Version
      /\ \A name \in VersionGetters \cup Immutables : values[name] = state[name]
      /\ values.paused = state.paused
  BY <1>1, ValuesOf DEF GettersMatchRuntime
<1>5. /\ release.canonicalToken \in HasCode[inspection.header]
      /\ GettersMatchRelease(values, release)
      /\ ValidPauser(values.pauser, release)
      /\ ValidBool(values.paused)
  BY <1>1 DEF IInv, RolesRead
<1>6. /\ state.canonicalToken = release.canonicalToken
      /\ state.tokenDecimals = release.tokenDecimals
      /\ state.resolver = release.resolver
      /\ state.arbiter = release.arbiter
      /\ state.pauser = values.pauser
  BY <1>4, <1>5 DEF GettersMatchRelease, Immutables
<1>7. /\ state.tokenDecimals \in Nat /\ state.totalOutstandingLiability \in Nat
      /\ Escrow \in Addresses \ {ZeroAddress}
      /\ ChainId > 0
  BY <1>1, WordAssumption
<1>8. /\ values.pauser \in Addresses \ {ZeroAddress}
      /\ values.pauser \notin {Escrow, release.canonicalToken, release.resolver, release.arbiter}
  BY <1>5 DEF ValidPauser, ValidAddress
<1>9. Cardinality({Escrow, release.canonicalToken, release.resolver, release.arbiter}) = 4
  BY <1>3 DEF FourDistinct
<1> DEFINE args == [canonicalToken |-> release.canonicalToken,
                    tokenDecimals |-> release.tokenDecimals, resolver |-> release.resolver,
                    arbiter |-> release.arbiter, pauser |-> values.pauser]
<1>10. ConstructorAccepts(args, HasCode[inspection.header])
  <2> DEFINE t == release.canonicalToken
             r == release.resolver
             a == release.arbiter
             e == Escrow
  <2>1. e # t /\ e # r /\ e # a /\ t # r /\ t # a /\ r # a
    BY <1>9, FourDiffer
  <2>2. /\ t # ZeroAddress /\ r # ZeroAddress /\ a # ZeroAddress
        /\ t \in HasCode[inspection.header]
        /\ release.tokenDecimals <= 18
    BY <1>3, <1>5
  <2> QED
    BY <2>1, <2>2, <1>8 DEF ConstructorAccepts
<1>11. decodeReleaseDeclared(release)
  BY <1>3, <1>7 DEF decodeReleaseDeclared
<1>12. readReleaseSnapshot(state)
  <2>1. Cardinality({Escrow, release.canonicalToken, release.resolver, release.arbiter,
                     values.pauser}) = 5
    <3> DEFINE t == release.canonicalToken
               r == release.resolver
               a == release.arbiter
               u == values.pauser
    <3>1. Cardinality({Escrow, t, r, a}) = 4 /\ u \notin {Escrow, t, r, a}
      BY <1>8, <1>9
    <3> HIDE DEF t, r, a, u
    <3> DEFINE S == {Escrow, t, r, a}
    <3>2. IsFiniteSet(S)
      BY FourFinite
    <3>3. {Escrow, t, r, a, u} = S \cup {u}
      OBVIOUS
    <3>4. Cardinality(S) = 4 /\ u \notin S
      BY <3>1
    <3> HIDE DEF S
    <3>5. Cardinality({Escrow, t, r, a, u}) = 5
      BY <3>2, <3>3, <3>4, FS_AddElement
    <3> QED
      BY <3>5 DEF t, r, a, u
  <2>2. /\ \A name \in VersionGetters : state[name] = Version
        /\ ValidBool(state.paused)
    BY <1>4, <1>5
  <2>3. state.tokenDecimals \in 0..18
    BY <1>3, <1>6, <1>7
  <2>4. {Escrow, release.canonicalToken, release.resolver, release.arbiter, values.pauser}
           \subseteq Addresses \ {ZeroAddress}
    BY <1>3, <1>7, <1>8
  <2> HIDE DEF values, release, state
  <2> QED
    BY <2>1, <2>2, <2>3, <2>4, <1>6, <1>7 DEF readReleaseSnapshot
<1> HIDE DEF values, release, state
<1> QED
  BY <1>1, <1>10, <1>11, <1>12 DEF SupportedRelease, Ok, release, state

-----------------------------------------------------------------------------
(* The declaration found by eth_getLogs is the only one on the branch of   *)
(* the snapshot while that branch is on the chain. *)
LEMMA LogsOfBranch ==
    ASSUME IInv, inspection.at = "logs", inspection.header \in Branch[chain],
           NEW log \in LogsBetween(plan.deploymentBlock, Number[inspection.header]),
           OneRelease(LogsBetween(plan.deploymentBlock, Number[inspection.header]))
    PROVE  UNION {Emitted[b] : b \in {c \in Branch[inspection.header] :
                                        Number[c] >= plan.deploymentBlock}} = {log}
<1> DEFINE from  == plan.deploymentBlock
           here  == {c \in Branch[chain] : Number[c] \in from..Number[inspection.header]}
           there == {c \in Branch[inspection.header] : Number[c] >= from}
           logs  == UNION {Emitted[b] : b \in here}
<1>1. /\ chain \in Blocks /\ inspection.header \in Blocks /\ from \in Nat
      /\ Branch[chain] \subseteq Blocks
      /\ Branch[inspection.header] =
           {d \in Branch[chain] : Number[d] <= Number[inspection.header]}
      /\ \A b \in Blocks : Number[b] \in Nat
  BY ChainAssumption, PlanAssumption DEF IInv, Pinned
<1>2. here = there
  BY <1>1
<1>3. IsFiniteSet(logs)
  <2>1. logs \subseteq UNION {Emitted[b] : b \in Blocks}
    BY <1>1
  <2> HIDE DEF logs
  <2> QED
    BY <2>1, ChainAssumption, FS_Subset
<1>4. logs = LogsBetween(from, Number[inspection.header])
  BY DEF LogsBetween
<1>5. Cardinality(logs) = 1 /\ log \in logs
  BY <1>4 DEF OneRelease
<1>6. PICK x : logs = {x}
  <2> HIDE DEF logs
  <2> QED
    BY <1>3, <1>5, FS_Singleton
<1>7. logs = {log}
  BY <1>5, <1>6
<1> QED
  BY <1>2, <1>7

-----------------------------------------------------------------------------
LEMMA InitIInv == Init => IInv
  BY DEF Init, IInv, Pinned, Shape, CodeRead, AnswersRead, ReleaseRead, RolesRead, Followed

(* A change of the chain leaves the inspection alone. *)
LEMMA ChangeIInv ==
    ASSUME IInv, NEW b \in Blocks, ChangeChain(b)
    PROVE  IInv'
<1>1. /\ chain' = b /\ departed' = departed \cup (Branch[chain] \ Branch[b])
      /\ returned' = (returned \/ Branch[b] \cap departed # {})
      /\ plan' = plan /\ inspection' = inspection
  BY DEF ChangeChain
<1>2. Branch[chain] \subseteq Blocks
  BY ChainAssumption DEF IInv
<1>3. /\ plan' \in Plans /\ chain' \in Blocks /\ departed' \subseteq Blocks
      /\ inspection'.at \in Pinned => inspection'.header \in Blocks
  BY <1>1, <1>2 DEF IInv
<1>4. Shape' /\ CodeRead' /\ AnswersRead' /\ ReleaseRead' /\ RolesRead'
  BY <1>1 DEF IInv, Shape, CodeRead, AnswersRead, ReleaseRead, RolesRead, decodeReleaseLog
<1>5. inspection'.at = "ok" => SupportedRelease' /\ ReportFromSnapshot'
  BY <1>1 DEF IInv, SupportedRelease, ReportFromSnapshot, Ok
<1>6. Followed'
  BY <1>1 DEF IInv, Followed, OnlyOne
<1> QED
  BY <1>3, <1>4, <1>5, <1>6 DEF IInv

LEMMA StepIInv ==
    ASSUME IInv, InspectionStep
    PROVE  IInv'
<1>1. UNCHANGED <<plan, chain, departed, returned>> /\ (Proceeds \/ Fails)
  BY DEF InspectionStep
<1>2. /\ plan' \in Plans /\ chain' \in Blocks /\ departed' \subseteq Blocks
      /\ ~returned' => departed' \cap Branch[chain'] = {}
  BY <1>1 DEF IInv, Followed
<1>3. CASE ReadChainId \/ ReadBlockNumber \/ Fails
  <2>1. inspection'.at \notin Pinned
    BY <1>3 DEF ReadChainId, ReadBlockNumber, Fails, Pinned
  <2> QED
    BY <1>2, <2>1 DEF IInv, Pinned, Shape, CodeRead, AnswersRead, ReleaseRead, RolesRead, Followed
<1>4. CASE ReadHeader
  <2>1. PICK b \in Blocks : b \in Branch[chain] /\ inspection' = [at |-> "code", header |-> b]
    BY <1>4 DEF ReadHeader, IsCanonical
  <2>2. inspection'.at = "code" /\ inspection'.header = b
    BY <2>1
  <2>3. Followed'
    BY <1>1, <1>2, <2>1, <2>2 DEF Followed, Pinned
  <2>4. Shape' /\ CodeRead' /\ AnswersRead' /\ ReleaseRead' /\ RolesRead'
    BY <2>2 DEF Shape, CodeRead, AnswersRead, ReleaseRead, RolesRead, Pinned
  <2> QED
    BY <1>2, <2>1, <2>2, <2>3, <2>4 DEF IInv
<1>5. CASE ReadCode
  <2>1. /\ inspection.at = "code" /\ inspection'.at = "call"
        /\ inspection'.header = inspection.header
        /\ inspection'.code = Code[inspection.header]
        /\ inspection'.values = << >>
        /\ MatchesReviewedRuntime(Code[inspection.header])
    BY <1>5 DEF ReadCode, PinnedState
  <2>2. inspection' = [at |-> "call", header |-> inspection'.header,
                       code |-> inspection'.code, values |-> inspection'.values]
    BY <1>5 DEF ReadCode
  <2>3. inspection'.values = [name \in FirstGetters(0) |-> Answers[inspection'.header][name]]
    BY <2>1 DEF FirstGetters
  <2>4. /\ inspection.header \in Blocks
        /\ ~returned => inspection.header \in Branch[chain] \cup departed
    BY <2>1 DEF IInv, Pinned, Followed
  <2>5. Followed'
    BY <1>1, <1>2, <2>1, <2>4 DEF Followed, Pinned
  <2>6. Shape' /\ CodeRead' /\ ReleaseRead' /\ RolesRead'
    BY <2>1, <2>2 DEF Shape, CodeRead, ReleaseRead, RolesRead, Pinned
  <2>7. AnswersRead'
    BY <2>1, <2>3 DEF AnswersRead
  <2> QED
    BY <1>2, <2>1, <2>4, <2>5, <2>6, <2>7 DEF IInv
<1>6. CASE ReadGetter
  <2>1. PICK n \in 0..15 :
            inspection.values = [name \in FirstGetters(n) |-> Answers[inspection.header][name]]
    BY <1>6 DEF ReadGetter, IInv, AnswersRead
  <2> DEFINE values == [name \in FirstGetters(n + 1) |-> Answers[inspection.header][name]]
  <2>2. DOMAIN inspection.values = FirstGetters(n) /\ Cardinality(DOMAIN inspection.values) = n
    BY <2>1, FirstGettersCounted
  <2>3. values = [name \in DOMAIN inspection.values \cup {GETTERS[n + 1]} |->
                     IF name = GETTERS[n + 1]
                     THEN Answers[PinnedState(inspection.header)][GETTERS[n + 1]]
                     ELSE inspection.values[name]]
    BY <2>1, <2>2, NextGetter DEF PinnedState
  <2>4. Cardinality(DOMAIN values) = n + 1
    BY FirstGettersCounted
  <2>5. /\ inspection.at = "call"
        /\ IF Cardinality(DOMAIN values) < Len(GETTERS)
           THEN inspection' = [inspection EXCEPT !.values = values]
           ELSE /\ GettersMatchRuntime(values, inspection.code)
                /\ inspection' = [inspection EXCEPT !.at = "logs", !.values = values]
    BY <1>6, <2>2, <2>3 DEF ReadGetter
  <2>6. /\ inspection = [at |-> "call", header |-> inspection.header,
                         code |-> inspection.code, values |-> inspection.values]
        /\ inspection.code = Code[inspection.header]
        /\ MatchesReviewedRuntime(inspection.code)
        /\ inspection.header \in Blocks
        /\ ~returned => inspection.header \in Branch[chain] \cup departed
    BY <2>5 DEF IInv, Shape, CodeRead, Pinned, Followed
  <2> HIDE DEF values
  <2>7. CASE Cardinality(DOMAIN values) < Len(GETTERS)
    <3>1. inspection' = [at |-> "call", header |-> inspection.header,
                         code |-> inspection.code, values |-> values]
      BY <2>5, <2>6, <2>7
    <3>2. /\ inspection'.at = "call" /\ inspection'.header = inspection.header
          /\ inspection'.code = inspection.code /\ inspection'.values = values
      BY <3>1
    <3>3. n + 1 \in 0..15
      BY <2>4, <2>7, AllGetters
    <3>4. AnswersRead'
      BY <3>2, <3>3 DEF AnswersRead, values
    <3> QED
      BY <1>1, <1>2, <2>6, <3>1, <3>2, <3>4
         DEF IInv, Pinned, Shape, CodeRead, ReleaseRead, RolesRead, Followed
  <2>8. CASE ~(Cardinality(DOMAIN values) < Len(GETTERS))
    <3>1. inspection' = [at |-> "logs", header |-> inspection.header,
                         code |-> inspection.code, values |-> values]
      BY <2>5, <2>6, <2>8
    <3>2. /\ inspection'.at = "logs" /\ inspection'.header = inspection.header
          /\ inspection'.code = inspection.code /\ inspection'.values = values
      BY <3>1
    <3>3. n + 1 = 16
      BY <2>4, <2>8, AllGetters
    <3>4. AnswersRead'
      BY <2>5, <2>8, <3>2, <3>3 DEF AnswersRead, values
    <3> QED
      BY <1>1, <1>2, <2>6, <3>1, <3>2, <3>4
         DEF IInv, Pinned, Shape, CodeRead, ReleaseRead, RolesRead, Followed
  <2> QED
    BY <2>7, <2>8
<1>7. CASE ReadLogs
  <2> DEFINE logs == LogsBetween(plan.deploymentBlock, Number[inspection.header])
  <2>1. PICK log \in logs :
            /\ inspection.at = "logs" /\ OneRelease(logs) /\ decodeReleaseLog(log)
            /\ inspection' = [at |-> "release", header |-> inspection.header,
                              code |-> inspection.code, values |-> inspection.values,
                              log |-> log]
    BY <1>7 DEF ReadLogs
  <2>2. /\ inspection'.at = "release" /\ inspection'.header = inspection.header
        /\ inspection'.code = inspection.code /\ inspection'.values = inspection.values
        /\ inspection'.log = log
    BY <2>1
  <2>3. inspection.header \in Branch[chain] => OnlyOne'
    <3> SUFFICES ASSUME inspection.header \in Branch[chain]
                 PROVE  OnlyOne'
      OBVIOUS
    <3>1. UNION {Emitted[b] : b \in {c \in Branch[inspection.header] :
                                        Number[c] >= plan.deploymentBlock}} = {log}
      BY <2>1, LogsOfBranch
    <3> QED
      BY <1>1, <2>2, <3>1 DEF OnlyOne
  <2>4. decodeReleaseLog(inspection.log)'
    BY <1>1, <2>1, <2>2 DEF decodeReleaseLog
  <2>5. Followed'
    BY <1>1, <1>2, <2>1, <2>2, <2>3 DEF Followed, IInv, Pinned
  <2>6. AnswersRead' /\ CodeRead' /\ Shape'
    BY <2>1, <2>2 DEF AnswersRead, CodeRead, Shape, IInv, Pinned
  <2> QED
    BY <1>2, <2>1, <2>2, <2>4, <2>5, <2>6 DEF IInv, Pinned, ReleaseRead, RolesRead
<1>8. CASE ReadReleaseHeader \/ ReadTokenCode
  <2>1. /\ inspection.at \in {"release", "tokenCode"}
        /\ inspection'.at \in {"tokenCode", "final"}
        /\ inspection' = [at |-> inspection'.at, header |-> inspection.header,
                          code |-> inspection.code, values |-> inspection.values,
                          log |-> inspection.log]
    <3>1. inspection.at \in {"release", "tokenCode"}
      BY <1>8 DEF ReadReleaseHeader, ReadTokenCode
    <3>2. inspection = [at |-> inspection.at, header |-> inspection.header,
                        code |-> inspection.code, values |-> inspection.values,
                        log |-> inspection.log]
      BY <3>1 DEF IInv, Shape
    <3>3. \E at \in {"tokenCode", "final"} : inspection' = [inspection EXCEPT !.at = at]
      BY <1>8 DEF ReadReleaseHeader, ReadTokenCode
    <3> QED
      BY <3>1, <3>2, <3>3
  <2>2. /\ inspection'.header = inspection.header /\ inspection'.code = inspection.code
        /\ inspection'.values = inspection.values /\ inspection'.log = inspection.log
    BY <2>1
  <2>3. RolesRead'
    <3>1. CASE ReadReleaseHeader
      <4>1. inspection'.at = "tokenCode"
        <5>1. inspection' = [inspection EXCEPT !.at = "tokenCode"] /\ inspection.at = "release"
          BY <3>1 DEF ReadReleaseHeader
        <5>2. inspection = [at |-> inspection.at, header |-> inspection.header,
                            code |-> inspection.code, values |-> inspection.values,
                            log |-> inspection.log]
          BY <5>1 DEF IInv, Shape
        <5> QED
          BY <5>1, <5>2
      <4> QED
        BY <4>1 DEF RolesRead
    <3>2. CASE ReadTokenCode
      BY <2>2, <3>2 DEF ReadTokenCode, PinnedState, RolesRead
    <3> QED
      BY <1>8, <3>1, <3>2
  <2>4. decodeReleaseLog(inspection.log)'
    BY <1>1, <2>1, <2>2 DEF IInv, ReleaseRead, decodeReleaseLog
  <2>5. Followed'
    BY <1>1, <1>2, <2>1, <2>2 DEF IInv, Followed, OnlyOne, Pinned
  <2>6. AnswersRead' /\ CodeRead' /\ Shape'
    BY <2>1, <2>2 DEF AnswersRead, CodeRead, Shape, IInv, Pinned
  <2> QED
    BY <1>2, <2>1, <2>2, <2>3, <2>4, <2>5, <2>6 DEF IInv, Pinned, ReleaseRead
<1>9. CASE ReadFinalHeader
  <2>1. /\ inspection.at = "final" /\ inspection'.at = "ok"
        /\ inspection.header \in Branch[chain]
        /\ inspection'.header = inspection.header
        /\ inspection'.code = inspection.code /\ inspection'.log = inspection.log
    BY <1>9 DEF ReadFinalHeader, IsCanonical
  <2>2. ReportFromSnapshot' /\ SupportedRelease'
    BY <1>9, ReportSound, ReleaseSupported
  <2>3. Followed'
    BY <1>1, <1>2, <2>1 DEF IInv, Followed, OnlyOne, Pinned
  <2>4. decodeReleaseLog(inspection.log)'
    BY <1>1, <2>1 DEF IInv, ReleaseRead, decodeReleaseLog
  <2>5. CodeRead'
    BY <2>1 DEF IInv, CodeRead, Pinned
  <2> QED
    BY <1>2, <2>1, <2>2, <2>3, <2>4, <2>5 DEF IInv, Pinned, ReleaseRead, RolesRead, AnswersRead, Shape
<1> QED
  BY <1>1, <1>3, <1>4, <1>5, <1>6, <1>7, <1>8, <1>9 DEF Proceeds

LEMMA NextIInv == IInv /\ [Next]_vars => IInv'
<1> SUFFICES ASSUME IInv, [Next]_vars
             PROVE  IInv'
  OBVIOUS
<1>1. CASE UNCHANGED vars
  <2>1. /\ plan' = plan /\ chain' = chain /\ departed' = departed /\ returned' = returned
        /\ inspection' = inspection
    BY <1>1 DEF vars
  <2>2. Shape' /\ CodeRead' /\ AnswersRead' /\ ReleaseRead' /\ RolesRead'
    BY <2>1 DEF IInv, Shape, CodeRead, AnswersRead, ReleaseRead, RolesRead, decodeReleaseLog
  <2>3. inspection'.at = "ok" => SupportedRelease' /\ ReportFromSnapshot'
    BY <2>1 DEF IInv, SupportedRelease, ReportFromSnapshot, Ok
  <2>4. Followed'
    BY <2>1 DEF IInv, Followed, OnlyOne
  <2> QED
    BY <2>1, <2>2, <2>3, <2>4 DEF IInv
<1> QED
  BY <1>1, ChangeIInv, StepIInv DEF Next

-----------------------------------------------------------------------------
(* A report describes the deployment in the state of its snapshot block. *)
THEOREM ReportsOneState == Spec => []ReportFromSnapshot
<1>1. IInv => ReportFromSnapshot
  BY DEF IInv, ReportFromSnapshot, Ok
<1> QED
  BY InitIInv, NextIInv, <1>1, PTL DEF Spec

(* What is reported could have been constructed, and the client reads it. *)
THEOREM ReportsSupported == Spec => []SupportedRelease
<1>1. IInv => SupportedRelease
  BY DEF IInv, SupportedRelease, Ok
<1> QED
  BY InitIInv, NextIInv, <1>1, PTL DEF Spec

(* Unless a block came back, the reported declaration is the only one. *)
THEOREM ReportsOnlyRelease == Spec => []OnlyRelease
<1>1. IInv => OnlyRelease
  <2>1. IInv /\ Ok => Number[inspection.log.block] = plan.deploymentBlock
    BY DEF IInv, Ok, ReleaseRead, decodeReleaseLog
  <2> QED
    BY <2>1 DEF IInv, Followed, OnlyOne, OnlyRelease, Ok
<1> QED
  BY InitIInv, NextIInv, <1>1, PTL DEF Spec

-----------------------------------------------------------------------------
(* Genuine deployments.  A read does no more than its checks allow and     *)
(* then assigns the inspection one value, so it can be answered just when  *)
(* its checks hold; they are spelled out because ENABLED is beyond the     *)
(* prover.                                                                 *)

(* The last getter's answer is compared with the runtime. *)
GetterPasses ==
    LET next   == GETTERS[Cardinality(DOMAIN inspection.values) + 1]
        answer == Answers[PinnedState(inspection.header)][next]
        values == [name \in DOMAIN inspection.values \cup {next} |->
                      IF name = next THEN answer ELSE inspection.values[name]]
    IN  Cardinality(DOMAIN values) < Len(GETTERS)
          \/ GettersMatchRuntime(values, inspection.code)

LogsPass ==
    LET logs == LogsBetween(plan.deploymentBlock, Number[inspection.header])
    IN  OneRelease(logs) /\ \E log \in logs : decodeReleaseLog(log)

TokenPasses ==
    LET values  == inspection.values
        release == inspection.log.data
    IN  /\ release.canonicalToken \in HasCode[PinnedState(inspection.header)]
        /\ GettersMatchRelease(values, release)
        /\ ValidPauser(values.pauser, release)
        /\ ValidBool(values.paused)

(* The awaited read has an answer, and the answer passes. *)
Answered ==
    \/ inspection.at = "chainId" /\ ChainId = Testnets[plan.network]
    \/ inspection.at = "blockNumber" /\ Number[chain] >= plan.deploymentBlock
    \/ inspection.at = "header" /\ \E b \in Blocks : IsCanonical(b, inspection.number)
    \/ /\ inspection.at = "code" /\ Readable(inspection.header)
       /\ MatchesReviewedRuntime(Code[PinnedState(inspection.header)])
    \/ inspection.at = "call" /\ Readable(inspection.header) /\ GetterPasses
    \/ inspection.at = "logs" /\ LogsPass
    \/ inspection.at = "release" /\ IsCanonical(inspection.log.block, plan.deploymentBlock)
    \/ inspection.at = "tokenCode" /\ Readable(inspection.header) /\ TokenPasses
    \/ inspection.at = "final" /\ IsCanonical(inspection.header, Number[inspection.header])

(* While nothing has left the chain, what was read is still on it. *)
Grown ==
    /\ inspection.at \in Pinned \cup {"chainId", "blockNumber", "header", "failed"}
    /\ departed = {} =>
         /\ ~returned
         /\ inspection.at = "header" =>
              /\ inspection.number >= plan.deploymentBlock
              /\ \E b \in Branch[chain] : Number[b] = inspection.number
         /\ inspection.at \in Pinned => Number[inspection.header] >= plan.deploymentBlock

LEMMA ChangeGrown ==
    ASSUME IInv, Grown, NEW b \in Blocks, ChangeChain(b)
    PROVE  Grown'
<1>1. /\ chain' = b /\ departed' = departed \cup (Branch[chain] \ Branch[b])
      /\ returned' = (returned \/ Branch[b] \cap departed # {})
      /\ plan' = plan /\ inspection' = inspection
  BY DEF ChangeChain
<1>2. departed' = {} => departed = {} /\ Branch[chain] \subseteq Branch[b]
  BY <1>1
<1>3. departed = {} /\ ~returned => ~returned'
  BY <1>1
<1>. QED
  BY <1>1, <1>2, <1>3 DEF Grown

LEMMA StepGrown ==
    ASSUME IInv, Grown, InspectionStep
    PROVE  Grown'
<1>1. UNCHANGED <<plan, chain, departed, returned>> /\ (Proceeds \/ Fails)
  BY DEF InspectionStep
<1>2. CASE ReadChainId \/ Fails
  BY <1>1, <1>2 DEF ReadChainId, Fails, Grown, Pinned
<1>3. CASE ReadBlockNumber
  <2>1. inspection'.at = "header" /\ inspection'.number = Number[chain]
        /\ Number[chain] >= plan.deploymentBlock
    BY <1>3 DEF ReadBlockNumber
  <2>2. chain \in Branch[chain]
    BY ChainAssumption DEF IInv
  <2>. QED
    BY <1>1, <2>1, <2>2 DEF Grown, Pinned
<1>4. CASE ReadHeader
  <2>1. PICK b \in Blocks : Number[b] = inspection.number /\ inspection' = [at |-> "code", header |-> b]
    BY <1>4 DEF ReadHeader, IsCanonical
  <2>2. inspection.at = "header" /\ inspection'.at = "code" /\ inspection'.header = b
    BY <1>4, <2>1 DEF ReadHeader
  <2>. QED
    BY <1>1, <2>1, <2>2 DEF Grown, Pinned
<1>5. CASE ReadCode \/ ReadGetter \/ ReadLogs \/ ReadReleaseHeader \/ ReadTokenCode \/ ReadFinalHeader
  <2>1. /\ inspection.at \in Pinned /\ inspection'.at \in Pinned
        /\ inspection'.header = inspection.header
    <3>1. CASE ReadCode \/ ReadLogs \/ ReadFinalHeader
      BY <3>1 DEF ReadCode, ReadLogs, ReadFinalHeader, Pinned
    <3>2. CASE ReadGetter
      <4>1. inspection.at = "call" /\ inspection = [at |-> "call", header |-> inspection.header,
                code |-> inspection.code, values |-> inspection.values]
        BY <3>2 DEF ReadGetter, IInv, Shape
      <4> DEFINE next == GETTERS[Cardinality(DOMAIN inspection.values) + 1]
                 values == [name \in DOMAIN inspection.values \cup {next} |->
                               IF name = next THEN Answers[PinnedState(inspection.header)][next]
                               ELSE inspection.values[name]]
      <4>2. \/ inspection' = [inspection EXCEPT !.values = values]
            \/ inspection' = [inspection EXCEPT !.at = "logs", !.values = values]
        BY <3>2 DEF ReadGetter
      <4> HIDE DEF values
      <4>. QED
        BY <4>1, <4>2 DEF Pinned
    <3>3. CASE ReadReleaseHeader \/ ReadTokenCode
      <4>1. /\ inspection.at \in {"release", "tokenCode"}
            /\ \E at \in {"tokenCode", "final"} : inspection' = [inspection EXCEPT !.at = at]
        BY <3>3 DEF ReadReleaseHeader, ReadTokenCode
      <4>2. inspection = [at |-> inspection.at, header |-> inspection.header,
                          code |-> inspection.code, values |-> inspection.values,
                          log |-> inspection.log]
        BY <4>1 DEF IInv, Shape
      <4>. QED
        BY <4>1, <4>2 DEF Pinned
    <3>. QED
      BY <1>5, <3>1, <3>2, <3>3
  <2>2. inspection'.at # "header"
    BY <2>1 DEF Pinned
  <2>. QED
    BY <1>1, <2>1, <2>2 DEF Grown
<1>. QED
  BY <1>1, <1>2, <1>3, <1>4, <1>5 DEF Proceeds

LEMMA GrownInductive ==
    /\ Init => Grown
    /\ IInv /\ Grown /\ [Next]_vars => Grown'
<1>1. Init => Grown
  BY DEF Init, Grown, Pinned
<1>2. ASSUME IInv, Grown, [Next]_vars PROVE Grown'
  <2>1. CASE UNCHANGED vars
    BY <1>2, <2>1 DEF vars, Grown
  <2>. QED
    BY <1>2, <2>1, ChangeGrown, StepGrown DEF Next
<1>. QED
  BY <1>1, <1>2

(* What the constructor stored is what the code holds. *)
LEMMA RuntimeHolds ==
    ASSUME NEW args \in Arguments
    PROVE  /\ MatchesReviewedRuntime(Runtime(args))
           /\ \A name \in Immutables : ImmutableWord(Runtime(args), name) = Immutable(args, name)
<1> DEFINE code == Runtime(args)
           owner(p) == CHOOSE name \in Immutables : p \in Groups[name]
           places == UNION {Groups[name] : name \in Immutables}
<1>1. code # None /\ code.bytes = RuntimeBytes /\ code.rest = RuntimeRest
      /\ code.slots = [p \in places |-> Immutable(args, owner(p))]
  BY ArgumentAssumption DEF Runtime
<1>2. ASSUME NEW name \in Immutables, NEW p \in Groups[name]
      PROVE  code.slots[p] = Immutable(args, name)
  <2>1. owner(p) \in Immutables /\ p \in Groups[owner(p)]
    BY <1>2
  <2>2. owner(p) = name
    BY <2>1, <1>2, BoundaryAssumption
  <2>3. p \in places
    BY <1>2
  <2> HIDE DEF owner, places, code
  <2>. QED
    BY <1>1, <2>2, <2>3
<1> HIDE DEF code
<1>3. ConsistentSubstitutions(code)
  BY <1>2 DEF ConsistentSubstitutions
<1>4. ASSUME NEW name \in Immutables PROVE ImmutableWord(code, name) = Immutable(args, name)
  <2>1. (CHOOSE p \in Groups[name] : TRUE) \in Groups[name]
    BY BoundaryAssumption
  <2>. QED
    BY <1>2, <2>1 DEF ImmutableWord
<1>. QED
  BY <1>1, <1>3, <1>4 DEF MatchesReviewedRuntime, code

(* What the getters answer on a genuine deployment. *)
LEMMA GettersAnswer ==
    ASSUME NEW args, NEW paused, NEW liability
    PROVE  /\ \A name \in VersionGetters : Getters(args, paused, liability)[name] = Version
           /\ \A name \in Immutables :
                 Getters(args, paused, liability)[name] = Immutable(args, name)
<1>1. {GETTERS[i] : i \in 1..Len(GETTERS)} = FirstGetters(16)
  BY AllGetters DEF FirstGetters
<1>2. VersionGetters \cap Immutables = {}
  BY DEF VersionGetters, Immutables
<1>. QED
  BY <1>1, <1>2, AllGetters DEF Getters

(* The event that the constructor emits is decoded. *)
LEMMA DeclarationDecodes ==
    ASSUME NEW args \in Arguments, NEW d, NEW hasCode, ConstructorAccepts(args, hasCode),
           Number[d] = plan.deploymentBlock
    PROVE  decodeReleaseLog(ReleaseDeclared(args, d))
<1> DEFINE log  == ReleaseDeclared(args, d)
           data == log.data
           token == args.canonicalToken
           resolver == args.resolver
           arbiter == args.arbiter
<1>1. /\ log.block = d
      /\ data.offsets = <<12, 14, 16, 18>> /\ data.lengths = <<1, 1, 1, 1>> /\ data.words = 20
      /\ data.strings = <<Version, Version, Version, Version>>
      /\ data.chainId = ChainId /\ data.escrowContract = Escrow /\ data.valueMode = 0
      /\ data.releaseId = computeReleaseId(ChainId, Escrow)
      /\ data.canonicalToken = token /\ data.tokenDecimals = args.tokenDecimals
      /\ data.resolver = resolver /\ data.arbiter = arbiter /\ data.initialPaused = args.initialPaused
  BY DEF ReleaseDeclared
<1> HIDE DEF log
<1>2. CanonicalLayout(data)
  <2> DEFINE end == [i \in 0..4 |-> 12 + 2 * i]
             Ends(e) == e = [i \in 0..4 |-> IF i = 0 THEN 12 ELSE e[i - 1] + 1 + data.lengths[i]]
             tailEnd == CHOOSE e : Ends(e)
  <2>1. Ends(end)
    <3>1. \A i \in 1..4 : i - 1 \in 0..4 /\ data.lengths[i] = 1
      BY <1>1
    <3>2. ASSUME NEW i \in 0..4
          PROVE  12 + 2 * i = IF i = 0 THEN 12 ELSE end[i - 1] + 1 + data.lengths[i]
      <4>1. CASE i = 0
        BY <4>1
      <4>2. CASE i # 0
        <5>1. i \in 1..4 /\ end[i - 1] = 12 + 2 * (i - 1) /\ data.lengths[i] = 1
          BY <3>1, <4>2
        <5>. QED
          BY <4>2, <5>1
      <4>. QED
        BY <4>1, <4>2
    <3>. QED
      BY <3>2
  <2>2. Ends(tailEnd)
    BY <2>1
  <2> HIDE DEF tailEnd, end
  <2>3. /\ tailEnd[0] = 12
        /\ tailEnd[1] = tailEnd[0] + 1 + data.lengths[1]
        /\ tailEnd[2] = tailEnd[1] + 1 + data.lengths[2]
        /\ tailEnd[3] = tailEnd[2] + 1 + data.lengths[3]
        /\ tailEnd[4] = tailEnd[3] + 1 + data.lengths[4]
    <3>1. \A i \in 0..4 :
            tailEnd[i] = IF i = 0 THEN 12 ELSE tailEnd[i - 1] + 1 + data.lengths[i]
      BY <2>2
    <3>. QED
      BY <3>1
  <2>4. tailEnd[0] = 12 /\ tailEnd[1] = 14 /\ tailEnd[2] = 16 /\ tailEnd[3] = 18 /\ tailEnd[4] = 20
    BY <1>1, <2>3
  <2>5. \A i \in 1..4 : data.offsets[i] = tailEnd[i - 1]
    BY <1>1, <2>4
  <2>. QED
    BY <1>1, <2>4, <2>5 DEF CanonicalLayout, tailEnd
<1>3. /\ token \in Addresses /\ resolver \in Addresses /\ arbiter \in Addresses
      /\ token \notin {ZeroAddress, Escrow} /\ resolver \notin {ZeroAddress, Escrow, token, arbiter}
      /\ arbiter \notin {ZeroAddress, Escrow, token}
      /\ args.tokenDecimals <= 18 /\ ValidBool(args.initialPaused)
  BY ArgumentAssumption DEF ConstructorAccepts
<1>4. FourDistinct(data)
  <2>1. Cardinality({Escrow, token, resolver, arbiter}) = 4
    <3>1. token # Escrow /\ resolver \notin {Escrow, token} /\ arbiter \notin {Escrow, token, resolver}
      BY <1>3
    <3> DEFINE one   == {Escrow}
               two   == one \cup {token}
               three == two \cup {resolver}
               four  == three \cup {arbiter}
    <3> HIDE DEF token, resolver, arbiter
    <3>2. four = {Escrow, token, resolver, arbiter}
      OBVIOUS
    <3>3. token \notin one /\ IsFiniteSet(one) /\ Cardinality(one) = 1
      BY <3>1, FS_Singleton
    <3>4. resolver \notin two
      BY <3>1
    <3>5. arbiter \notin three
      BY <3>1
    <3> HIDE DEF one
    <3>6. IsFiniteSet(two) /\ Cardinality(two) = 2
      BY <3>3, OneMore
    <3> HIDE DEF two
    <3>7. IsFiniteSet(three) /\ Cardinality(three) = 3
      BY <3>4, <3>6, OneMore
    <3> HIDE DEF three
    <3>8. Cardinality(three \cup {arbiter}) = 3 + 1
      BY <3>5, <3>7, FS_AddElement
    <3>. QED
      BY <3>2, <3>8
  <2>. QED
    BY <1>1, <2>1 DEF FourDistinct
<1>5. \A i \in 1..4 : data.strings[i] = Version
  BY <1>1
<1>6. /\ ValidAddress(data.canonicalToken) /\ ValidAddress(data.resolver)
      /\ ValidAddress(data.arbiter)
  BY <1>1, <1>3 DEF ValidAddress
<1>7. Number[log.block] = plan.deploymentBlock /\ log.data = data
  BY <1>1
<1> HIDE DEF data, token, resolver, arbiter
<1>8. decodeReleaseLog(log)
  BY <1>1, <1>2, <1>3, <1>4, <1>5, <1>6, <1>7 DEF decodeReleaseLog
<1>. QED
  BY <1>8 DEF log

(* What is known of a genuine deployment while nothing has left the chain. *)
LEMMA GenuineSeen ==
    ASSUME IInv, Grown, departed = {}, NEW args \in Arguments, NEW d \in Branch[chain],
           Number[d] = plan.deploymentBlock,
           UNION {Emitted[b] : b \in {c \in Branch[chain] : Number[c] >= Number[d]}}
             = {ReleaseDeclared(args, d)}
    PROVE  /\ d \in Blocks /\ Number[d] \in Nat /\ Number[d] <= Number[chain]
           /\ inspection.at \in Pinned \ {"ok"} =>
                /\ inspection.header \in Branch[chain]
                /\ Number[inspection.header] >= Number[d]
                /\ Number[inspection.header] \in Nat
           /\ inspection.at \in {"release", "tokenCode", "final"} =>
                inspection.log = ReleaseDeclared(args, d)
<1>1. /\ Branch[chain] \subseteq Blocks /\ chain \in Branch[chain]
      /\ Branch[chain] = {c \in Branch[chain] : Number[c] <= Number[chain]}
      /\ \A b \in Blocks : Number[b] \in Nat
  BY ChainAssumption DEF IInv
<1>2. inspection.at \in Pinned \ {"ok"} => inspection.header \in Branch[chain]
  BY DEF IInv, Followed, Grown
<1>3. inspection.at \in Pinned => Number[inspection.header] >= Number[d]
  BY DEF Grown
<1>4. inspection.at \in {"release", "tokenCode", "final"} =>
        inspection.log = ReleaseDeclared(args, d)
  <2> SUFFICES ASSUME inspection.at \in {"release", "tokenCode", "final"}
               PROVE  inspection.log = ReleaseDeclared(args, d)
    OBVIOUS
  <2>1. OnlyOne /\ inspection.header \in Branch[chain]
    BY <1>2 DEF IInv, Followed, Grown, Pinned
  <2>2. Branch[inspection.header] \subseteq Branch[chain]
    BY <2>1, ChainAssumption DEF IInv
  <2>3. inspection.log \in
          UNION {Emitted[b] : b \in {c \in Branch[chain] : Number[c] >= Number[d]}}
    BY <2>1, <2>2 DEF OnlyOne
  <2>. QED
    BY <2>3
<1>. QED
  BY <1>1, <1>2, <1>3, <1>4 DEF IInv

(* The range of logs shows the declaration and nothing else. *)
LEMMA GenuineLogsPass ==
    ASSUME IInv, Grown, departed = {}, NEW args \in Arguments, NEW d \in Branch[chain],
           Number[d] = plan.deploymentBlock,
           UNION {Emitted[b] : b \in {c \in Branch[chain] : Number[c] >= Number[d]}}
             = {ReleaseDeclared(args, d)},
           NEW hasCode, ConstructorAccepts(args, hasCode),
           inspection.at = "logs"
    PROVE  LogsPass
<1> DEFINE log   == ReleaseDeclared(args, d)
           later == {c \in Branch[chain] : Number[c] >= Number[d]}
           here  == {c \in Branch[chain] :
                        Number[c] \in plan.deploymentBlock..Number[inspection.header]}
<1>1. /\ d \in Blocks /\ Number[d] \in Nat
      /\ Number[inspection.header] >= Number[d] /\ Number[inspection.header] \in Nat
  BY GenuineSeen DEF Pinned
<1>2. here \subseteq later /\ d \in here
  BY <1>1
<1>3. log \in Emitted[d]
  <2>1. log.block = d
    BY DEF ReleaseDeclared
  <2>2. PICK b \in later : log \in Emitted[b]
    OBVIOUS
  <2>3. b \in Blocks
    BY <2>2, ChainAssumption DEF IInv
  <2>. QED
    BY <2>1, <2>2, <2>3, BoundaryAssumption
<1>4. UNION {Emitted[b] : b \in here} = {log}
  <2> HIDE DEF log
  <2>. QED
    BY <1>2, <1>3
<1>5. LogsBetween(plan.deploymentBlock, Number[inspection.header]) = {log}
  BY <1>4 DEF LogsBetween
<1> HIDE DEF log
<1>6. OneRelease({log})
  BY FS_Singleton DEF OneRelease
<1>7. decodeReleaseLog(log)
  BY DeclarationDecodes DEF log
<1>. QED
  BY <1>5, <1>6, <1>7 DEF LogsPass

(* The sixteen answers are those that the code at the snapshot says. *)
LEMMA GenuineGettersPass ==
    ASSUME IInv, inspection.at = "call", NEW args \in Arguments,
           Code[inspection.header] = Runtime(args),
           NEW paused, NEW liability,
           Answers[inspection.header] = Getters(args, paused, liability)
    PROVE  GetterPasses
<1>1. PICK n \in 0..15 :
          inspection.values = [name \in FirstGetters(n) |-> Answers[inspection.header][name]]
  BY DEF IInv, AnswersRead
<1> DEFINE values == [name \in FirstGetters(n + 1) |-> Answers[inspection.header][name]]
<1>2. DOMAIN inspection.values = FirstGetters(n) /\ Cardinality(DOMAIN inspection.values) = n
  BY <1>1, FirstGettersCounted
<1>3. values = [name \in DOMAIN inspection.values \cup {GETTERS[n + 1]} |->
                   IF name = GETTERS[n + 1]
                   THEN Answers[PinnedState(inspection.header)][GETTERS[n + 1]]
                   ELSE inspection.values[name]]
  BY <1>1, <1>2, NextGetter DEF PinnedState
<1>4. Cardinality(DOMAIN values) = n + 1
  BY FirstGettersCounted
<1>5. inspection.code = Runtime(args)
  BY DEF IInv, CodeRead, Pinned
<1>6. n + 1 = 16 => GettersMatchRuntime(values, inspection.code)
  <2> SUFFICES ASSUME n + 1 = 16 PROVE GettersMatchRuntime(values, inspection.code)
    OBVIOUS
  <2>1. \A name \in VersionGetters \cup Immutables :
          values[name] = Getters(args, paused, liability)[name]
    BY AllGetters
  <2> HIDE DEF values
  <2>. QED
    BY <1>5, <2>1, GettersAnswer, RuntimeHolds DEF GettersMatchRuntime
<1> HIDE DEF values
<1>7. Cardinality(DOMAIN values) < Len(GETTERS) \/ GettersMatchRuntime(values, inspection.code)
  BY <1>4, <1>6, AllGetters
<1>. QED
  BY <1>2, <1>3, <1>7 DEF GetterPasses

(* Event, getters and roles say the same. *)
LEMMA GenuineTokenPasses ==
    ASSUME IInv, inspection.at = "tokenCode", NEW args \in Arguments, NEW d,
           inspection.log = ReleaseDeclared(args, d),
           ConstructorAccepts(args, HasCode[inspection.header]),
           NEW paused, ValidBool(paused), NEW liability,
           Answers[inspection.header] = Getters(args, paused, liability)
    PROVE  TokenPasses
<1> DEFINE values  == inspection.values
           release == inspection.log.data
<1>1. /\ release.releaseId = computeReleaseId(ChainId, Escrow)
      /\ release.canonicalToken = args.canonicalToken
      /\ release.tokenDecimals = args.tokenDecimals
      /\ release.resolver = args.resolver /\ release.arbiter = args.arbiter
  BY DEF ReleaseDeclared
<1>2. \A name \in Immutables : values[name] = Immutable(args, name)
  BY ValuesOf, GettersAnswer
<1>3. /\ values.releaseId = computeReleaseId(ChainId, Escrow)
      /\ values.canonicalToken = args.canonicalToken
      /\ values.tokenDecimals = args.tokenDecimals
      /\ values.resolver = args.resolver /\ values.arbiter = args.arbiter
      /\ values.pauser = args.pauser
  BY <1>2 DEF Immutable, Immutables
<1>4. values.paused = paused
  <2>1. values.paused = Getters(args, paused, liability).paused
    BY ValuesOf
  <2>2. "paused" \notin VersionGetters \cup Immutables
    BY DEF VersionGetters, Immutables
  <2>3. "paused" \in {GETTERS[i] : i \in 1..Len(GETTERS)}
    BY AllGetters DEF FirstGetters
  <2>. QED
    BY <2>1, <2>2, <2>3 DEF Getters
<1> HIDE DEF values, release
<1>5. args.pauser \in Addresses
  BY ArgumentAssumption
<1>. QED
  BY <1>1, <1>3, <1>4, <1>5
     DEF TokenPasses, ConstructorAccepts, GettersMatchRelease, ValidPauser, ValidAddress,
         PinnedState, values, release

LEMMA GenuineAnswered ==
    ASSUME IInv, Grown, InFlight, departed = {}, NEW args \in Arguments, Constructed(args)
    PROVE  Answered
<1>1. PICK d \in Branch[chain] :
        /\ Number[d] = plan.deploymentBlock
        /\ Testnets[plan.network] = ChainId
        /\ UNION {Emitted[b] : b \in {c \in Branch[chain] : Number[c] >= Number[d]}}
             = {ReleaseDeclared(args, d)}
        /\ \A b \in {c \in Branch[chain] : Number[c] >= Number[d]} :
             /\ ConstructorAccepts(args, HasCode[b])
             /\ Code[b] = Runtime(args)
             /\ ValidBool(Answers[b].paused)
             /\ Answers[b] = Getters(args, Answers[b].paused,
                                     Answers[b].totalOutstandingLiability)
  BY DEF Constructed
<1>2. /\ d \in Blocks /\ Number[d] \in Nat /\ Number[d] <= Number[chain]
      /\ inspection.at \in Pinned \ {"ok"} =>
           /\ inspection.header \in Branch[chain]
           /\ Number[inspection.header] >= Number[d]
           /\ Number[inspection.header] \in Nat
      /\ inspection.at \in {"release", "tokenCode", "final"} =>
           inspection.log = ReleaseDeclared(args, d)
  BY <1>1, GenuineSeen
<1>3. Branch[chain] \subseteq Blocks /\ chain \in Blocks /\ \A b \in Blocks : Number[b] \in Nat
  BY ChainAssumption DEF IInv
<1>4. inspection.at \in Pinned \ {"ok"} =>
        /\ Readable(inspection.header)
        /\ ConstructorAccepts(args, HasCode[inspection.header])
        /\ Code[inspection.header] = Runtime(args)
        /\ ValidBool(Answers[inspection.header].paused)
        /\ Answers[inspection.header] =
             Getters(args, Answers[inspection.header].paused,
                     Answers[inspection.header].totalOutstandingLiability)
  BY <1>1, <1>2 DEF Readable, PinnedState
<1>5. CASE inspection.at = "chainId"
  BY <1>1, <1>5 DEF Answered
<1>6. CASE inspection.at = "blockNumber"
  BY <1>1, <1>2, <1>3, <1>6 DEF Answered
<1>7. CASE inspection.at = "header"
  BY <1>3, <1>7 DEF Answered, Grown, IsCanonical
<1>8. CASE inspection.at = "code"
  BY <1>4, <1>8, RuntimeHolds DEF Answered, Pinned, PinnedState
<1>9. CASE inspection.at = "call"
  BY <1>4, <1>9, GenuineGettersPass DEF Answered, Pinned
<1>10. CASE inspection.at = "logs"
  <2>1. ConstructorAccepts(args, HasCode[inspection.header])
    BY <1>4, <1>10 DEF Pinned
  <2>2. LogsPass
    BY <1>1, <1>10, <2>1, GenuineLogsPass
  <2>. QED
    BY <1>10, <2>2 DEF Answered
<1>11. CASE inspection.at = "release"
  <2>1. inspection.log.block = d
    BY <1>2, <1>11 DEF ReleaseDeclared
  <2>. QED
    BY <1>1, <1>11, <2>1 DEF Answered, IsCanonical
<1>12. CASE inspection.at = "tokenCode"
  <2>1. TokenPasses
    BY <1>2, <1>4, <1>12, GenuineTokenPasses DEF Pinned
  <2>. QED
    BY <1>4, <1>12, <2>1 DEF Answered, Pinned
<1>13. CASE inspection.at = "final"
  BY <1>2, <1>13 DEF Answered, IsCanonical, Pinned
<1>. QED
  BY <1>5, <1>6, <1>7, <1>8, <1>9, <1>10, <1>11, <1>12, <1>13 DEF Grown, InFlight, Pinned

(* A genuine deployment passes: whatever the constructors accept, in       *)
(* whichever state it is by now, every read has an answer and every answer *)
(* passes every check, while the chain only grows.                         *)
THEOREM GenuinePasses ==
    Spec => [](InFlight /\ departed = {} /\ (\E args \in Arguments : Constructed(args))
                 => Answered)
<1>1. IInv /\ Grown =>
        (InFlight /\ departed = {} /\ (\E args \in Arguments : Constructed(args)) => Answered)
  BY GenuineAnswered
<1>. QED
  BY InitIInv, NextIInv, GrownInductive, <1>1, PTL DEF Spec
=============================================================================
