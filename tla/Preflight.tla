------------------------------- MODULE Preflight -------------------------------
(***************************************************************************)
(* The read-only testnet preflight (read-only.mjs), which inspects one     *)
(* deployed escrow through one RPC endpoint, and the chain it reads.       *)
(*                                                                         *)
(* Each awaited request is one action: it sees the canonical chain of that *)
(* moment and runs the code up to the next await.  The endpoint answers    *)
(* truthfully or not at all; the chain may change between any two reads,   *)
(* and may return to a branch that it left.  A header is its block.        *)
(***************************************************************************)
EXTENDS Integers, FiniteSets, Sequences

CONSTANTS
    Blocks,         \* every block that some branch of the chain may have
    Number,         \* the height of each block
    Branch,         \* each block together with all its ancestors
    Code,           \* the runtime at the escrow's address in the state of
                    \* each block, or None
    Answers,        \* the word that each getter returns in that state
    HasCode,        \* the addresses that have code in that state
    Emitted,        \* the ReleaseDeclared logs of that address in each block
    Groups,         \* the places of the reviewed runtime that hold each immutable
    RuntimeBytes,   \* its length
    RuntimeRest,    \* its bytes outside of these places
    Testnets,       \* the chain id of each network that may be inspected
    ChainId,        \* the chain id of the endpoint
    Plans,          \* the plans a caller may ask for
    MaxDeparted,    \* a bound on the blocks that leave the chain meanwhile
    Addresses, Escrow, ZeroAddress,
    Version,        \* what all of the release's identifier strings say
    None

ASSUME ChainAssumption ==
    /\ Number \in [Blocks -> Nat]
    /\ Branch \in [Blocks -> SUBSET Blocks]
    /\ \A b \in Blocks :
         /\ b \in Branch[b]
         /\ \A c \in Branch[b] : Branch[c] = {d \in Branch[b] : Number[d] <= Number[c]}
         /\ \A c, d \in Branch[b] : Number[c] = Number[d] => c = d
    /\ IsFiniteSet(UNION {Emitted[b] : b \in Blocks})

(* A word is read as an unsigned number; normalizePlan refuses the zero    *)
(* address, and the two networks have chain ids.                           *)
ASSUME WordAssumption ==
    /\ \A b \in Blocks : Answers[b].tokenDecimals \in Nat
                         /\ Answers[b].totalOutstandingLiability \in Nat
    /\ Escrow \in Addresses \ {ZeroAddress}
    /\ ChainId \in Nat \ {0}

(* A plan names one of the networks, and demands TESTNET_NO_VALUE. *)
ASSUME PlanAssumption == \A p \in Plans : p.network \in DOMAIN Testnets /\ p.deploymentBlock \in Nat

VARIABLES
    plan,           \* the plan of this inspection
    chain,          \* the last block of the endpoint's canonical chain
    departed,       \* blocks that left that chain since the inspection began
    returned,       \* has one of them come back?
    inspection      \* the inspection, at the read it awaits, or its report

vars == <<plan, chain, departed, returned, inspection>>

Immutables == {"releaseId", "canonicalToken", "tokenDecimals", "resolver", "arbiter", "pauser"}

(* The reviewed runtime holds each immutable somewhere, no two at one      *)
(* place; a log is one of its block.                                       *)
ASSUME BoundaryAssumption ==
    /\ \A name \in Immutables : Groups[name] # {}
    /\ \A m, n \in Immutables : m # n => Groups[m] \cap Groups[n] = {}
    /\ \A b \in Blocks : \A log \in Emitted[b] : log.block = b

VersionGetters ==
    {"PROTOCOL_VERSION", "EVENT_PROTOCOL_ID", "CHALLENGE_SCHEMA_ID", "EVIDENCE_SCHEMA_ID",
     "CONDITION_LANGUAGE_ID", "TERMS_DOMAIN", "SPEC_DOMAIN", "EVIDENCE_DOMAIN"}

GETTERS ==
    <<"releaseId", "PROTOCOL_VERSION", "EVENT_PROTOCOL_ID", "CHALLENGE_SCHEMA_ID",
      "EVIDENCE_SCHEMA_ID", "CONDITION_LANGUAGE_ID", "TERMS_DOMAIN", "SPEC_DOMAIN",
      "EVIDENCE_DOMAIN", "canonicalToken", "tokenDecimals", "resolver", "arbiter",
      "pauser", "paused", "totalOutstandingLiability">>

Init ==
    /\ plan \in Plans
    /\ chain \in Blocks
    /\ departed = {}
    /\ returned = FALSE
    /\ inspection = [at |-> "chainId"]

(* The canonical chain is extended, shortened or replaced. *)
ChangeChain(b) ==
    /\ b # chain
    /\ chain' = b
    /\ departed' = departed \cup (Branch[chain] \ Branch[b])
    /\ Cardinality(departed') <= MaxDeparted
    /\ returned' = (returned \/ Branch[b] \cap departed # {})
    /\ UNCHANGED <<plan, inspection>>

-----------------------------------------------------------------------------
(* The endpoint *)

(* getBlockByNumber answers b; a height beyond the chain has no answer. *)
IsCanonical(b, n) == b \in Branch[chain] /\ Number[b] = n

(* A plausible slip: state is read by the number of the block. *)
StateAtNumber(header) ==
    LET same == {b \in Branch[chain] : Number[b] = Number[header]}
    IN  IF same = {} THEN header ELSE CHOOSE b \in same : TRUE

(* The state that a read pinned by {blockHash, requireCanonical} answers   *)
(* from; off the canonical chain it is refused.                            *)
PinnedState(header) == header

Readable(header) == \E b \in Branch[chain] : b = PinnedState(header)

(* A plausible slip: the range starts behind the deployment block. *)
LogsAfter(from, to) ==
    UNION {Emitted[b] : b \in {c \in Branch[chain] : Number[c] \in (from + 1)..to}}

LogsBetween(from, to) ==
    UNION {Emitted[b] : b \in {c \in Branch[chain] : Number[c] \in from..to}}

-----------------------------------------------------------------------------
(* What is read is checked *)

(* All substitutions of one immutable agree. *)
ConsistentSubstitutions(code) ==
    \A name \in Immutables : \A p, q \in Groups[name] : code.slots[p] = code.slots[q]

(* The runtime is the reviewed one outside of the immutable slots. *)
MatchesReviewedRuntime(code) ==
    /\ code # None
    /\ code.bytes = RuntimeBytes
    /\ ConsistentSubstitutions(code)
    /\ code.rest = RuntimeRest

ImmutableWord(code, name) == code.slots[CHOOSE p \in Groups[name] : TRUE]

ValidAddress(word) == word \in Addresses \ {ZeroAddress}
ValidBool(word)    == word \in {0, 1}

(* The hash commits to chain and address. *)
computeReleaseId(chainId, address) == <<chainId, address>>

(* Four strings behind a head of twelve words, each starting where the     *)
(* last one ended, and nothing after them.                                 *)
CanonicalLayout(data) ==
    LET tailEnd[i \in 0..4] == IF i = 0 THEN 12 ELSE tailEnd[i - 1] + 1 + data.lengths[i]
    IN  /\ \A i \in 1..4 : data.offsets[i] = tailEnd[i - 1]
        /\ tailEnd[4] = data.words

(* A plausible slip: only the two authorities are compared. *)
AuthoritiesDistinct(data) == data.resolver # data.arbiter

FourDistinct(data) ==
    Cardinality({data.escrowContract, data.canonicalToken, data.resolver, data.arbiter}) = 4

decodeReleaseLog(log) ==
    LET data == log.data IN
    /\ Number[log.block] = plan.deploymentBlock
    /\ CanonicalLayout(data)
    /\ \A i \in 1..4 : data.strings[i] = Version
    /\ data.chainId = ChainId
    /\ data.escrowContract = Escrow
    /\ data.valueMode = 0
    /\ data.tokenDecimals <= 18
    /\ ValidAddress(data.canonicalToken)
    /\ ValidAddress(data.resolver)
    /\ ValidAddress(data.arbiter)
    /\ FourDistinct(data)
    /\ ValidBool(data.initialPaused)
    /\ data.releaseId = computeReleaseId(ChainId, Escrow)

(* What the getters say, once all have answered. *)
GettersMatchRuntime(values, code) ==
    /\ \A name \in VersionGetters : values[name] = Version
    /\ \A name \in Immutables : values[name] = ImmutableWord(code, name)

GettersMatchRelease(values, release) ==
    /\ values.releaseId = release.releaseId
    /\ values.canonicalToken = release.canonicalToken
    /\ values.tokenDecimals = release.tokenDecimals
    /\ values.resolver = release.resolver
    /\ values.arbiter = release.arbiter

ValidPauser(pauser, release) ==
    /\ ValidAddress(pauser)
    /\ pauser \notin {Escrow, release.canonicalToken, release.resolver, release.arbiter}

-----------------------------------------------------------------------------
(* inspectReadOnlyDeployment, one action for each awaited request *)

ReadChainId ==
    /\ inspection.at = "chainId"
    /\ ChainId = Testnets[plan.network]
    /\ inspection' = [at |-> "blockNumber"]

ReadBlockNumber ==
    /\ inspection.at = "blockNumber"
    /\ Number[chain] >= plan.deploymentBlock
    /\ inspection' = [at |-> "header", number |-> Number[chain]]

ReadHeader ==
    /\ inspection.at = "header"
    /\ \E b \in Blocks :
         /\ IsCanonical(b, inspection.number)
         /\ inspection' = [at |-> "code", header |-> b]

ReadCode ==
    LET code == Code[PinnedState(inspection.header)] IN
    /\ inspection.at = "code"
    /\ Readable(inspection.header)
    /\ MatchesReviewedRuntime(code)
    /\ inspection' = [at |-> "call", header |-> inspection.header, code |-> code,
                      values |-> << >>]

(* eth_call of the next getter *)
ReadGetter ==
    LET next   == GETTERS[Cardinality(DOMAIN inspection.values) + 1]
        answer == Answers[PinnedState(inspection.header)][next]
        values == [name \in DOMAIN inspection.values \cup {next} |->
                      IF name = next THEN answer ELSE inspection.values[name]]
    IN  /\ inspection.at = "call"
        /\ Readable(inspection.header)
        /\ IF Cardinality(DOMAIN values) < Len(GETTERS)
           THEN inspection' = [inspection EXCEPT !.values = values]
           ELSE /\ GettersMatchRuntime(values, inspection.code)
                /\ inspection' = [inspection EXCEPT !.at = "logs", !.values = values]

(* A plausible slip: of several releases the first is taken. *)
SomeRelease(logs) == logs # {}

OneRelease(logs) == Cardinality(logs) = 1

ReadLogs ==
    LET logs == LogsBetween(plan.deploymentBlock, Number[inspection.header]) IN
    /\ inspection.at = "logs"
    /\ OneRelease(logs)
    /\ \E log \in logs :
         /\ decodeReleaseLog(log)
         /\ inspection' = [at |-> "release", header |-> inspection.header,
                           code |-> inspection.code, values |-> inspection.values,
                           log |-> log]

ReadReleaseHeader ==
    /\ inspection.at = "release"
    /\ IsCanonical(inspection.log.block, plan.deploymentBlock)
    /\ inspection' = [inspection EXCEPT !.at = "tokenCode"]

ReadTokenCode ==
    LET values  == inspection.values
        release == inspection.log.data
    IN  /\ inspection.at = "tokenCode"
        /\ Readable(inspection.header)
        /\ release.canonicalToken \in HasCode[PinnedState(inspection.header)]
        /\ GettersMatchRelease(values, release)
        /\ ValidPauser(values.pauser, release)
        /\ ValidBool(values.paused)
        /\ inspection' = [inspection EXCEPT !.at = "final"]

ReadFinalHeader ==
    /\ inspection.at = "final"
    /\ IsCanonical(inspection.header, Number[inspection.header])
    /\ inspection' =
         [at |-> "ok", header |-> inspection.header, code |-> inspection.code,
          log |-> inspection.log,
          current |-> [pauser |-> inspection.values.pauser,
                       paused |-> inspection.values.paused,
                       totalOutstandingLiability |->
                           inspection.values.totalOutstandingLiability]]

InFlight == inspection.at \notin {"ok", "failed"}

Proceeds ==
    \/ ReadChainId \/ ReadBlockNumber \/ ReadHeader \/ ReadCode \/ ReadGetter
    \/ ReadLogs \/ ReadReleaseHeader \/ ReadTokenCode \/ ReadFinalHeader

(* A request times out or is answered by an error or by anything but one   *)
(* bounded and canonical envelope, or one of the checks above fails.       *)
Fails ==
    /\ InFlight
    /\ inspection' = [at |-> "failed"]

InspectionStep == (Proceeds \/ Fails) /\ UNCHANGED <<plan, chain, departed, returned>>

Next == InspectionStep \/ \E b \in Blocks : ChangeChain(b)

Spec == Init /\ [][Next]_vars
=============================================================================
