------------------------------- MODULE RpcQuorum -------------------------------
(***************************************************************************)
(* One comparison of several RPC providers (rpc.ts), and the portable      *)
(* receipt that an integrator builds of it (receipt.mjs).                  *)
(*                                                                         *)
(* Nothing is assumed of a provider: every read may be answered by any     *)
(* header, by none, by something malformed, or be rejected, so that lagging,*)
(* forked, reorganizing and lying providers are all included.  The reads   *)
(* of one provider share no state with those of another; since any answer  *)
(* is possible at any time, one action takes a provider's whole snapshot.  *)
(***************************************************************************)
EXTENDS Integers, FiniteSets

CONSTANTS
    Providers,          \* the names of the providers compared
    Thresholds,         \* the thresholds a caller may ask for
    Headers,            \* well-formed headers, their case normalized
    Heights,            \* block numbers that fit 64 bits
    Number, Hash, ParentHash,   \* the fields of each header
    None,               \* null
    Malformed           \* an answer that is no header or no block number

Answers == Headers \cup {None, Malformed}

ASSUME ProviderAssumption == IsFiniteSet(Providers)
ASSUME ThresholdAssumption == Thresholds \subseteq Int

(* A header is its three fields. *)
ASSUME HeaderAssumption ==
    /\ Heights \subseteq Nat
    /\ Number \in [Headers -> Heights]
    /\ DOMAIN Hash = Headers
    /\ DOMAIN ParentHash = Headers
    /\ \A b, c \in Headers :
         <<Number[b], Hash[b], ParentHash[b]>> = <<Number[c], Hash[c], ParentHash[c]>> => b = c
    /\ None \notin Headers
    /\ Malformed \notin Headers \cup Heights \cup {None}

VARIABLES
    threshold,      \* the argument of the call
    endpoints,      \* the snapshot of each provider, or Pending
    report          \* the head reported for each tag, or None

vars == <<threshold, endpoints, report>>

Tags    == {"latest", "safe", "finalized"}
Pending == [error |-> "pending"]
NoError == "none"

ProviderErrors ==
    {"FINALITY_TAGS_UNAVAILABLE", "MALFORMED_BLOCK_HEADER", "LATEST_NUMBER_MISMATCH",
     "FINALITY_ORDER_INVALID", "FINALITY_CHAIN_INVALID", "LATEST_BLOCK_UNAVAILABLE",
     "LATEST_BLOCK_CHANGED", "RPC_READ_FAILED"}

-----------------------------------------------------------------------------
(* Snapshot of one provider *)

(* What little two headers show of being on one chain. *)
Coherent(newer, older) ==
    /\ Number[newer] >= Number[older]
    /\ Number[newer] = Number[older] => newer = older
    /\ Number[newer] = Number[older] + 1 => ParentHash[newer] = Hash[older]

Outage(error) ==
    [latest |-> None, safe |-> None, finalized |-> None, error |-> error]

(* The answers to the five reads. *)
Reads == [number: Heights \cup {Malformed}, latest: Answers, safe: Answers,
          finalized: Answers, again: Answers]

MalformedRead(r) == Malformed \in {r.number, r.latest, r.safe, r.finalized}

Complete(r) == None \notin {r.safe, r.finalized}

Ordered(r) == Number[r.finalized] <= Number[r.safe] /\ Number[r.safe] <= Number[r.latest]

(* A plausible slip: only the newest pair is compared. *)
LinkedLatest(r) == Coherent(r.latest, r.safe)

Linked(r) == Coherent(r.latest, r.safe) /\ Coherent(r.safe, r.finalized)

Snapshot(r) ==
    IF MalformedRead(r) THEN Outage("MALFORMED_BLOCK_HEADER")
    ELSE IF r.latest = None THEN Outage("LATEST_BLOCK_UNAVAILABLE")
    ELSE IF Number[r.latest] # r.number THEN Outage("LATEST_NUMBER_MISMATCH")
    ELSE IF r.again # r.latest THEN Outage("LATEST_BLOCK_CHANGED")
    ELSE IF Complete(r) /\ ~Ordered(r) THEN Outage("FINALITY_ORDER_INVALID")
    ELSE IF Complete(r) /\ ~Linked(r) THEN Outage("FINALITY_CHAIN_INVALID")
    ELSE [latest |-> r.latest, safe |-> r.safe, finalized |-> r.finalized,
          error |-> IF Complete(r) THEN NoError ELSE "FINALITY_TAGS_UNAVAILABLE"]

(* A provider without finality tags is not read, and a read may be         *)
(* rejected.                                                               *)
Snapshots == {Snapshot(r) : r \in Reads}
             \cup {Outage(e) : e \in {"FINALITY_TAGS_UNAVAILABLE", "RPC_READ_FAILED"}}

-----------------------------------------------------------------------------
(* Quorum *)

Voted(votes) == {p \in Providers : votes[p] # None}

Supporters(votes, b) == {p \in Providers : votes[p] = b}

(* The head reported for one tag, from the header each provider stands for *)
(* or None.                                                                *)
QuorumHead(votes, needed) ==
    LET voted   == Voted(votes)
        groups  == {votes[p] : p \in voted}
        winning == {b \in groups : Cardinality(Supporters(votes, b)) >= needed}
    IN  IF \E b \in winning : winning = {b}
        THEN LET agreed == CHOOSE b \in winning : TRUE
             IN  [status |-> "agree", agreed |-> agreed, groups |-> groups,
                  supporters |-> Supporters(votes, agreed),
                  dissenters |-> voted \ Supporters(votes, agreed),
                  unavailable |-> Providers \ voted]
        ELSE [status |-> IF Cardinality(groups) > 1 THEN "conflicted" ELSE "unavailable",
              agreed |-> None, groups |-> groups, supporters |-> {},
              dissenters |-> voted, unavailable |-> Providers \ voted]

(* A plausible slip: an endpoint with an error still votes with the latest  *)
(* header that it has.                                                     *)
VotesDespiteError(tag) == [p \in Providers |-> endpoints[p][tag]]

(* An endpoint with an error stands for no header, even if it has one.     *)
Votes(tag) == [p \in Providers |->
                 IF endpoints[p].error = NoError THEN endpoints[p][tag] ELSE None]

(* A plausible slip: half of the providers are taken for a majority. *)
ThresholdInRange(needed) == 2 <= needed /\ needed <= Cardinality(Providers)

ValidThreshold(needed) ==
    /\ ThresholdInRange(needed)
    /\ needed * 2 > Cardinality(Providers)

Init ==
    /\ threshold \in Thresholds
    /\ endpoints = [p \in Providers |-> Pending]
    /\ report = None

TakeSnapshot(p) ==
    /\ ValidThreshold(threshold)
    /\ endpoints[p] = Pending
    /\ \E s \in Snapshots : endpoints' = [endpoints EXCEPT ![p] = s]
    /\ UNCHANGED <<threshold, report>>

Compare ==
    /\ ValidThreshold(threshold)
    /\ report = None
    /\ \A p \in Providers : endpoints[p] # Pending
    /\ report' = [tag \in Tags |-> QuorumHead(Votes(tag), threshold)]
    /\ UNCHANGED <<threshold, endpoints>>

Next == Compare \/ \E p \in Providers : TakeSnapshot(p)

Spec == Init /\ [][Next]_vars

-----------------------------------------------------------------------------
(* Receipt *)

(* The receipt's entry for an endpoint of the client. *)
ReceiptProvider(endpoint) ==
    IF endpoint.error = NoError
    THEN [status |-> "available", latest |-> endpoint.latest, safe |-> endpoint.safe,
          finalized |-> endpoint.finalized, error |-> NoError]
    ELSE [status |-> "unavailable", latest |-> None, safe |-> None,
          finalized |-> None, error |-> endpoint.error]

(* The entries the receipt builder accepts. *)
AcceptsProvider(v) ==
    \/ /\ v.status = "available"
       /\ v.error = NoError
       /\ \A tag \in Tags : v[tag] # None
       /\ Coherent(v.latest, v.safe)
       /\ Coherent(v.safe, v.finalized)
    \/ /\ v.status = "unavailable"
       /\ \A tag \in Tags : v[tag] = None
       /\ v.error \in ProviderErrors

ReceiptVotes(tag) ==
    [p \in Providers |-> LET v == ReceiptProvider(endpoints[p])
                         IN  IF v.status = "available" THEN v[tag] ELSE None]

ReceiptHead(tag) == QuorumHead(ReceiptVotes(tag), threshold)

(* The receipt builder returns, and returns this report. *)
BuildsReport ==
    /\ \A p \in Providers : AcceptsProvider(ReceiptProvider(endpoints[p]))
    /\ ValidThreshold(threshold)
    /\ report = [tag \in Tags |-> ReceiptHead(tag)]

(* A header that a receipt of this report may carry under a label. *)
AcceptsHead(b, label) ==
    IF label = "unknown"
    THEN \E tag \in Tags : b \in report[tag].groups
    ELSE report[label].status = "agree" /\ report[label].agreed = b

-----------------------------------------------------------------------------
(* Every snapshot is an outage or consists of well-formed headers. *)
TypeOK ==
    /\ threshold \in Thresholds
    /\ endpoints \in [Providers -> {Pending} \cup
                        [latest: Headers \cup {None}, safe: Headers \cup {None},
                         finalized: Headers \cup {None},
                         error: ProviderErrors \cup {NoError}]]
    /\ report # None => \A tag \in Tags : /\ report[tag].groups \subseteq Headers
                                          /\ report[tag].agreed \in Headers \cup {None}

(* The headers that receipts carry under different labels fit together,    *)
(* although each tag is counted by itself and no provider need support     *)
(* all three: a majority for one and a majority for another share a        *)
(* provider, whose own snapshot was coherent.                              *)
LabelledHeadsCohere ==
    report # None =>
        \A b, c \in Headers, newer, older \in Tags :
            /\ <<newer, older>> \in {<<"latest", "safe">>, <<"safe", "finalized">>,
                                     <<"latest", "finalized">>}
            /\ AcceptsHead(b, newer)
            /\ AcceptsHead(c, older)
            => Coherent(b, c)

(* Agreement that exists is reported: no header that enough providers      *)
(* stand for is withheld because another one has enough as well.           *)
NoQuorumDiscarded ==
    report # None =>
        \A tag \in Tags, b \in Headers :
            Cardinality(Supporters(Votes(tag), b)) >= threshold
                => report[tag].agreed = b

(* The receipt builder, a second implementation, accepts every endpoint of *)
(* the client and recomputes the client's report from them.                *)
ReceiptReproduces == report # None => BuildsReport
=============================================================================
